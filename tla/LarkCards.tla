------------------------------ MODULE LarkCards ------------------------------
(***************************************************************************)
(* Approval cards in Feishu (internal/portal/larkwatch.go over             *)
(* internal/lark/grants.go), for one device.  The watcher sends a card for *)
(* each waiting request and marks it ended when the request goes; a tap on *)
(* a card spends its one-shot grant, decides on the device and writes the  *)
(* result on the card.  Feishu may deliver a tap twice, and the watcher    *)
(* and the tap both want to write the card's last text.                    *)
(* Pairing requests take the same path as commands and are not told apart. *)
(* The second half is the supervisor that starts and stops the watchers of *)
(* all devices.                                                            *)
(***************************************************************************)
EXTENDS Naturals, FiniteSets

CONSTANTS LkReqs,        \* requests the device raises
          LkTaps,        \* deliveries of a callback
          LkEvents,      \* event ids Feishu gives them
          MaxLkCards     \* bound: cards sent

ASSUME LkAssumption == MaxLkCards \in Nat

VARIABLES lkReq,     \* on the device: "none", "open", "gone"
          lkCard,    \* per card: its request, its grant, whether a chat is bound
          lkRec,     \* supervisor.actions: "none", "idle", "claimed", "inflight", "both"
          lkChan,    \* record.naturalDone of the card: "none", "open", "closed"
          lkText,    \* what the card shows: "none", "ask", "ended", "result", "failed"
          lkSeen,    \* watcher's seen map: request -> card, 0 for none
          lkWatch,   \* watcher: step, the state it works on, what is left of it
          lkTap,     \* callbacks: step, card, whether it waits for the watcher
          lkEvent,   \* grants.events
          lkLate,    \* cards past their expiry
          lkClosing

lkGrants == <<lkCard, lkEvent, lkLate>>
lkActions == <<lkRec, lkChan, lkClosing>>
lkVars == <<lkReq, lkText, lkSeen, lkWatch, lkTap, lkGrants, lkActions>>

LkCards == 1 .. MaxLkCards
LkIdle == [at |-> "idle", card |-> 0, now |-> {}, todo |-> {}]
LkUnsent == {c \in LkCards : lkCard[c].grant = "none"}

LkInit ==
    /\ lkReq = [r \in LkReqs |-> "none"]
    /\ lkCard = [c \in LkCards |-> [req |-> {}, grant |-> "none", bound |-> FALSE]]
    /\ lkRec = [c \in LkCards |-> "none"] /\ lkChan = [c \in LkCards |-> "none"]
    /\ lkText = [c \in LkCards |-> "none"] /\ lkSeen = [r \in LkReqs |-> 0]
    /\ lkWatch = LkIdle /\ lkEvent = {} /\ lkLate = {} /\ lkClosing = FALSE
    /\ lkTap = [k \in LkTaps |-> [at |-> "idle", card |-> 0, waits |-> FALSE]]

(* The device: a request appears; it is answered elsewhere or times out. *)
LkRaise(r) ==
    /\ lkReq[r] = "none" /\ lkReq' = [lkReq EXCEPT ![r] = "open"]
    /\ UNCHANGED <<lkText, lkSeen, lkWatch, lkTap, lkGrants, lkActions>>

LkGoes(r) ==
    /\ lkReq[r] = "open" /\ lkReq' = [lkReq EXCEPT ![r] = "gone"]
    /\ UNCHANGED <<lkText, lkSeen, lkWatch, lkTap, lkGrants, lkActions>>

----------------------------------------------------------------------------
(* reconcileState begins on a state the device sent. *)
LkState ==
    /\ lkWatch.at = "idle" /\ ~lkClosing
    /\ LET now == {r \in LkReqs : lkReq[r] = "open"} IN
       /\ now # {} \/ \E r \in LkReqs : lkSeen[r] # 0
       /\ lkWatch' = [at |-> "pass", card |-> 0, now |-> now, todo |-> {r \in now : lkSeen[r] = 0}]
    /\ UNCHANGED <<lkReq, lkText, lkSeen, lkTap, lkGrants, lkActions>>

(* Issue and SendCard; when the card cannot be sent the grant is left over    *)
(* with nobody knowing its nonce, and the next state tries again.             *)
LkSend(r) ==
    /\ lkWatch.at = "pass" /\ r \in lkWatch.todo /\ LkUnsent # {}
    /\ LET c == CHOOSE x \in LkUnsent : \A y \in LkUnsent : x <= y IN
       /\ lkCard' = [lkCard EXCEPT ![c] = [req |-> {r}, grant |-> "active", bound |-> FALSE]]
       /\ \/ /\ lkText' = [lkText EXCEPT ![c] = "ask"] /\ lkSeen' = [lkSeen EXCEPT ![r] = c]
             /\ lkWatch' = [lkWatch EXCEPT !.at = "sent", !.card = c, !.todo = @ \ {r}]
          \/ /\ lkWatch' = [lkWatch EXCEPT !.todo = @ \ {r}] /\ UNCHANGED <<lkText, lkSeen>>
    /\ UNCHANGED <<lkReq, lkTap, lkEvent, lkLate, lkActions>>

LkBindChat ==
    /\ lkWatch.at = "sent"
    /\ LET c == lkWatch.card IN
       IF c \in lkLate
       THEN /\ lkText' = [lkText EXCEPT ![c] = "failed"]
            /\ lkWatch' = [lkWatch EXCEPT !.at = "pass", !.card = 0] /\ UNCHANGED lkCard
       ELSE /\ lkCard' = [lkCard EXCEPT ![c].bound = TRUE]
            /\ lkWatch' = [lkWatch EXCEPT !.at = "bound"] /\ UNCHANGED lkText
    /\ UNCHANGED <<lkReq, lkSeen, lkTap, lkEvent, lkLate, lkActions>>

LkStoreAction ==
    /\ lkWatch.at = "bound"
    /\ lkRec' = [lkRec EXCEPT ![lkWatch.card] = "idle"]
    /\ lkChan' = [lkChan EXCEPT ![lkWatch.card] = "open"]
    /\ lkWatch' = [lkWatch EXCEPT !.at = "pass", !.card = 0]
    /\ UNCHANGED <<lkReq, lkText, lkSeen, lkTap, lkGrants, lkClosing>>

(* Mutant: the watcher takes the update although a tap is driving it. *)
LkClaimableAny(c) == TRUE

(* claimNaturalUpdate: a tap in flight owns the card's last update; a card    *)
(* with no record is the watcher's.                                           *)
LkClaimable(c) == lkRec[c] \notin {"inflight", "both"}

(* A card whose request is gone, after the sends of this pass. *)
LkGoneCard(r) ==
    /\ lkWatch.at = "pass" /\ lkWatch.todo = {} /\ lkSeen[r] # 0 /\ r \notin lkWatch.now
    /\ LET c == lkSeen[r] IN
       \/ /\ LkClaimable(c)
          /\ lkRec' = [lkRec EXCEPT ![c] = IF @ = "none" THEN @ ELSE "claimed"]
          /\ lkWatch' = [lkWatch EXCEPT !.at = "update", !.card = c] /\ UNCHANGED lkSeen
       \/ /\ ~LkClaimable(c) /\ lkSeen' = [lkSeen EXCEPT ![r] = 0] /\ UNCHANGED <<lkRec, lkWatch>>
    /\ UNCHANGED <<lkReq, lkText, lkTap, lkGrants, lkChan, lkClosing>>

LkNaturalUpdate ==
    /\ lkWatch.at = "update"
    /\ lkText' \in {lkText, [lkText EXCEPT ![lkWatch.card] = "ended"]}
    /\ lkWatch' = [lkWatch EXCEPT !.at = "finish"]
    /\ UNCHANGED <<lkReq, lkSeen, lkTap, lkGrants, lkActions>>

(* Mutant: a tap that came meanwhile is not told the update is over. *)
LkFinishNaturalIdle ==
    /\ lkWatch.at = "finish"
    /\ lkChan' = [lkChan EXCEPT ![lkWatch.card] = IF lkRec[lkWatch.card] = "claimed" THEN "closed" ELSE @]
    /\ lkSeen' = [r \in LkReqs |-> IF lkSeen[r] = lkWatch.card THEN 0 ELSE lkSeen[r]]
    /\ lkWatch' = [lkWatch EXCEPT !.at = "pass", !.card = 0]
    /\ UNCHANGED <<lkReq, lkText, lkTap, lkGrants, lkRec, lkClosing>>

(* finishNaturalUpdate closes the channel through the record, if it is there. *)
LkFinishNatural ==
    /\ lkWatch.at = "finish"
    /\ lkChan' = [lkChan EXCEPT ![lkWatch.card] =
                    IF lkRec[lkWatch.card] \in {"claimed", "both"} THEN "closed" ELSE @]
    /\ lkSeen' = [r \in LkReqs |-> IF lkSeen[r] = lkWatch.card THEN 0 ELSE lkSeen[r]]
    /\ lkWatch' = [lkWatch EXCEPT !.at = "pass", !.card = 0]
    /\ UNCHANGED <<lkReq, lkText, lkTap, lkGrants, lkRec, lkClosing>>

LkPruned == [c \in LkCards |-> IF c \in lkLate THEN "none" ELSE lkRec[c]]

LkPassEnds ==
    /\ lkWatch.at = "pass" /\ (lkWatch.todo = {} \/ LkUnsent = {})
    /\ \A r \in LkReqs : lkSeen[r] # 0 => r \in lkWatch.now
    /\ lkWatch' = LkIdle /\ lkRec' = LkPruned
    /\ UNCHANGED <<lkReq, lkText, lkSeen, lkTap, lkGrants, lkChan, lkClosing>>

(* pruneActions is also run by every other device's watcher and by the        *)
(* supervisor's own reconciliation.                                           *)
LkOthersPrune ==
    /\ lkRec' = LkPruned /\ lkRec' # lkRec
    /\ UNCHANGED <<lkReq, lkText, lkSeen, lkWatch, lkTap, lkGrants, lkChan, lkClosing>>

(* The switch is turned off and on: a new watcher starts with an empty map. *)
LkWatcherRestarts ==
    /\ lkWatch.at = "idle" /\ ~lkClosing /\ \E r \in LkReqs : lkSeen[r] # 0
    /\ lkSeen' = [r \in LkReqs |-> 0]
    /\ UNCHANGED <<lkReq, lkText, lkWatch, lkTap, lkGrants, lkActions>>

LkExpires(c) ==
    /\ lkCard[c].grant # "none" /\ c \notin lkLate /\ lkLate' = lkLate \cup {c}
    /\ UNCHANGED <<lkReq, lkText, lkSeen, lkWatch, lkTap, lkCard, lkEvent, lkActions>>

----------------------------------------------------------------------------
(* Mutant: Consume leaves the grant to be spent again by another event. *)
LkSpentKept(c) == lkCard

LkSpent(c) == [lkCard EXCEPT ![c].grant = "consumed"]

(* actionHandler up to Consume: the callback of one tap, delivered in the     *)
(* card's chat or in another one it was forwarded to.                         *)
LkConsume(k, c, e, chat) ==
    /\ lkTap[k].at = "idle" /\ lkText[c] # "none"
    /\ LET open == e \notin lkEvent /\ lkCard[c].grant = "active" /\ c \notin lkLate /\ lkCard[c].bound
       IN \/ /\ ~open
             /\ lkTap' = [lkTap EXCEPT ![k].at = "over"] /\ UNCHANGED lkGrants
          \/ /\ open /\ chat = "other"
             /\ lkEvent' = lkEvent \cup {e}
             /\ lkTap' = [lkTap EXCEPT ![k].at = "over"] /\ UNCHANGED <<lkCard, lkLate>>
          \/ /\ open /\ chat = "own"
             /\ lkEvent' = lkEvent \cup {e} /\ lkCard' = LkSpent(c)
             /\ lkTap' = [lkTap EXCEPT ![k] = [at |-> "spent", card |-> c, waits |-> FALSE]]
             /\ UNCHANGED lkLate
    /\ UNCHANGED <<lkReq, lkText, lkSeen, lkWatch, lkActions>>

(* Mutant: the tap does not look whether the watcher is writing the card. *)
LkMarkedBlind(c) == FALSE

LkMarked(c) == lkRec[c] = "claimed" /\ lkChan[c] = "open"

(* The record is marked in flight; without one the tap is spent for nothing. *)
LkMark(k) ==
    /\ lkTap[k].at = "spent"
    /\ LET c == lkTap[k].card IN
       \/ /\ lkRec[c] = "none" /\ lkTap' = [lkTap EXCEPT ![k].at = "over"] /\ UNCHANGED lkRec
       \/ /\ lkRec[c] # "none"
          /\ lkRec' = [lkRec EXCEPT ![c] = IF @ \in {"claimed", "both"} THEN "both" ELSE "inflight"]
          /\ lkTap' = [lkTap EXCEPT ![k].at = "launch", ![k].waits = LkMarked(c)]
    /\ UNCHANGED <<lkReq, lkText, lkSeen, lkWatch, lkGrants, lkChan, lkClosing>>

(* launch refuses while the supervisor closes; else resolveAction runs. *)
LkLaunch(k) ==
    /\ lkTap[k].at = "launch"
    /\ lkTap' = [lkTap EXCEPT ![k].at = IF lkClosing THEN "over" ELSE "decide"]
    /\ UNCHANGED <<lkReq, lkText, lkSeen, lkWatch, lkGrants, lkActions>>

(* decide on the device, which may be out of reach or have no such request. *)
LkDecide(k) ==
    /\ lkTap[k].at = "decide"
    /\ lkReq' \in {lkReq, [r \in LkReqs |-> IF r \in lkCard[lkTap[k].card].req THEN "gone" ELSE lkReq[r]]}
    /\ lkTap' = [lkTap EXCEPT ![k].at = IF lkTap[k].waits THEN "wait" ELSE "update"]
    /\ UNCHANGED <<lkText, lkSeen, lkWatch, lkGrants, lkActions>>

LkWaited(k) ==
    /\ lkTap[k].at = "wait"
    /\ \/ lkChan[lkTap[k].card] = "closed" /\ lkTap' = [lkTap EXCEPT ![k].at = "update"]
       \/ lkClosing /\ lkTap' = [lkTap EXCEPT ![k].at = "over"]
    /\ UNCHANGED <<lkReq, lkText, lkSeen, lkWatch, lkGrants, lkActions>>

(* UpdateCard with the result (it may fail), then forgetAction. *)
LkResult(k) ==
    /\ lkTap[k].at = "update"
    /\ lkText' \in {lkText, [lkText EXCEPT ![lkTap[k].card] = "result"]}
    /\ lkTap' = [lkTap EXCEPT ![k].at = "forget"]
    /\ UNCHANGED <<lkReq, lkSeen, lkWatch, lkGrants, lkActions>>

LkForget(k) ==
    /\ lkTap[k].at = "forget"
    /\ lkRec' = [lkRec EXCEPT ![lkTap[k].card] = "none"]
    /\ lkTap' = [lkTap EXCEPT ![k].at = "over"]
    /\ UNCHANGED <<lkReq, lkText, lkSeen, lkWatch, lkGrants, lkChan, lkClosing>>

(* Server.Close: stop sets closing and cancels every context. *)
LkClose ==
    /\ ~lkClosing /\ lkClosing' = TRUE
    /\ UNCHANGED <<lkReq, lkText, lkSeen, lkWatch, lkTap, lkGrants, lkRec, lkChan>>

LkSteps == \/ LkBindChat \/ LkStoreAction \/ LkNaturalUpdate \/ LkFinishNatural
           \/ \E k \in LkTaps : LkMark(k) \/ LkLaunch(k) \/ LkDecide(k) \/ LkWaited(k) \/ LkResult(k) \/ LkForget(k)

LkNext == \/ LkSteps \/ LkState \/ LkPassEnds \/ LkOthersPrune \/ LkWatcherRestarts \/ LkClose
          \/ \E r \in LkReqs : LkRaise(r) \/ LkGoes(r) \/ LkSend(r) \/ LkGoneCard(r)
          \/ \E c \in LkCards : LkExpires(c)
          \/ \E k \in LkTaps, c \in LkCards, e \in LkEvents, chat \in {"own", "other"} : LkConsume(k, c, e, chat)

(* Goroutines that hold work go on with it: every call they make is bounded   *)
(* by a timeout.                                                              *)
LkSpec == LkInit /\ [][LkNext]_lkVars /\ WF_lkVars(LkSteps)

----------------------------------------------------------------------------
(* A card's grant authorises one decision: however often Feishu delivers its  *)
(* taps, and whatever event ids they carry, one of them at most gets past     *)
(* Consume (grants.go, "a one-shot grant").                                   *)
LkOneTap ==
    \A k, l \in LkTaps : lkTap[k].card # 0 /\ lkTap[k].card = lkTap[l].card => k = l

(* While a card's record lives, the watcher's generic text and the tap's      *)
(* result are never being written at the same time, so the generic one cannot *)
(* land last by overtaking (claimNaturalUpdate, waitNatural).                 *)
LkNoUpdateRace ==
    \A k \in LkTaps : lkTap[k].at = "update" /\ lkWatch.at = "update" /\ lkTap[k].card = lkWatch.card
                        => lkWatch.card \in lkLate

(* A tap that waits for the watcher's update goes on, unless the card's       *)
(* record expired meanwhile.                                                  *)
LkTapWaits == \E k \in LkTaps : lkTap[k].at = "wait" /\ lkTap[k].card \notin lkLate
LkTapSettles == <>[]~LkTapWaits

(* What the comment on claimNaturalUpdate promises: the callback that drove   *)
(* the decision owns the card's last text.                                    *)
LkResultStays == [][\A c \in LkCards : lkText[c] = "result" => lkText'[c] = "result"]_lkVars

----------------------------------------------------------------------------
(* The supervisor of the watchers: a reconciler reads the wanted             *)
(* configuration from the relay and starts, stops and reconfigures one       *)
(* watcher per device; a watcher whose device the relay does not know stops  *)
(* for good and is recorded, with the configuration it had, so that only a   *)
(* change starts it again.  The relay's answers are snapshots: the device    *)
(* may register between two of them.                                         *)

CONSTANTS SuDevices, SuEmails,
          MaxSuChanges,      \* bound: changes of configuration and registration
          MaxSuWatchers,     \* bound: watchers started
          MaxSuFails         \* bound: failed requests and dials

ASSUME SuAssumption == MaxSuWatchers \in Nat

VARIABLES suCfg,      \* relay: the device's address for cards, "off" when disabled
          suReg,      \* relay: registered devices
          suChanges, suFails,
          suMissed,   \* device -> its watchers that may have missed a change of registration
          suRec,      \* reconciler: step, registration and configuration it read
          suMap,      \* supervisor.watchers: device -> watcher, 0 for none
          suWatcher,  \* watchers by number: device, step, configuration, cancelled
          suStopped,  \* supervisor.stopped: device -> {} or {configuration}
          suHealth,   \* devices with a health record
          suClosed

suWorld == <<suCfg, suReg, suChanges, suMissed>>
suState == <<suMap, suWatcher, suStopped>>
suVars == <<suWorld, suState, suFails, suRec, suHealth, suClosed>>

SuIds == 1 .. MaxSuWatchers
SuNone == [dev |-> {}, at |-> "none", cfg |-> {}, stop |-> {}, cancelled |-> FALSE]
SuRecIdle == [at |-> "idle", reg |-> {}, want |-> [d \in SuDevices |-> {}], wait |-> {}]
SuRunning(w) == suWatcher[w].at \in {"dial", "asked", "live"}
SuFree == {w \in SuIds : suWatcher[w].at = "none"}

SuInit ==
    /\ suCfg = [d \in SuDevices |-> "off"] /\ suReg = {} /\ suChanges = 0 /\ suFails = 0
    /\ suMissed = [d \in SuDevices |-> {}]
    /\ suRec = SuRecIdle /\ suMap = [d \in SuDevices |-> 0]
    /\ suWatcher = [w \in SuIds |-> SuNone] /\ suStopped = [d \in SuDevices |-> {}]
    /\ suHealth = {} /\ suClosed = FALSE

(* The owner switches cards on or off, or changes where they go; the device   *)
(* registers or is removed.                                                   *)
SuConfigure(d, e) ==
    /\ suChanges < MaxSuChanges /\ suCfg[d] # e
    /\ suCfg' = [suCfg EXCEPT ![d] = e] /\ suChanges' = suChanges + 1
    /\ UNCHANGED <<suReg, suMissed, suState, suFails, suRec, suHealth, suClosed>>

(* A dial that failed is yet to be recorded, or a stop was recorded for       *)
(* another registration than the device has.                                  *)
SuUnnoticed(d) ==
    \/ \E w \in SuIds : suWatcher[w].dev = {d} /\ suWatcher[w].at \in {"asked", "refused"}
    \/ \E cfg \in suStopped[d] : cfg.known # (d \in suReg)

SuRegister(d) ==
    /\ suChanges < MaxSuChanges
    /\ suReg' = (suReg \ {d}) \cup ({d} \ suReg) /\ suChanges' = suChanges + 1
    /\ suMissed' = IF SuUnnoticed(d) THEN [suMissed EXCEPT ![d] = {w \in SuIds : suWatcher[w].dev = {d}}] ELSE suMissed
    /\ UNCHANGED <<suCfg, suState, suFails, suRec, suHealth, suClosed>>

----------------------------------------------------------------------------
(* Mutant: registrations are not read. *)
SuRegisteredUnread == {}

(* hasStoppedWatcher, loadRegisteredDevices. *)
SuRegistered == IF suHealth # {} THEN suReg ELSE {}

(* loadConfigs: registrations are read only when some device has a health     *)
(* record, before the configurations are.                                     *)
SuLoadRegistered ==
    /\ suRec.at = "idle" /\ ~suClosed
    /\ suRec' = [suRec EXCEPT !.at = "load", !.reg = SuRegistered]
    /\ UNCHANGED <<suWorld, suState, suFails, suHealth, suClosed>>

SuLoadConfigs ==
    /\ suRec.at = "load"
    /\ suRec' = [suRec EXCEPT !.at = "apply", !.want =
                   [d \in SuDevices |-> IF suCfg[d] = "off" THEN {}
                                        ELSE {[email |-> suCfg[d], known |-> d \in suRec.reg]}]]
    /\ UNCHANGED <<suWorld, suState, suFails, suHealth, suClosed>>

SuLoadFails ==
    /\ suRec.at = "load" /\ suFails < MaxSuFails
    /\ suFails' = suFails + 1 /\ suRec' = SuRecIdle
    /\ UNCHANGED <<suWorld, suState, suHealth, suClosed>>

(* Mutant: a stopped device is given another watcher at every round. *)
SuStaysStoppedNot(d) == FALSE

(* A stopped device stays stopped while its configuration is the same. *)
SuStaysStopped(d) == suStopped[d] # {} /\ suRec.want[d] = suStopped[d]

(* applyConfigs under the lock: stops, reconfigures and starts, one device at *)
(* a time here since devices do not touch each other's entries.               *)
SuApply(d) ==
    LET keep == SuStaysStopped(d) cfg == suRec.want[d] w == suMap[d] IN
    /\ suRec.at = "apply" /\ d \notin suRec.wait
    /\ suStopped' = [suStopped EXCEPT ![d] = IF keep THEN @ ELSE {}]
    /\ \/ /\ w # 0 /\ cfg = {}
          /\ suMap' = [suMap EXCEPT ![d] = 0]
          /\ suWatcher' = [suWatcher EXCEPT ![w].cancelled = TRUE]
       \/ /\ w # 0 /\ cfg # {}
          /\ suWatcher' = [suWatcher EXCEPT ![w].cfg = cfg] /\ UNCHANGED suMap
       \/ /\ w = 0 /\ cfg # {} /\ ~keep /\ SuFree # {}
          /\ LET n == CHOOSE x \in SuFree : \A y \in SuFree : x <= y IN
             /\ suMap' = [suMap EXCEPT ![d] = n]
             /\ suWatcher' = [suWatcher EXCEPT ![n] = [SuNone EXCEPT !.dev = {d}, !.at = "dial", !.cfg = cfg]]
       \/ (w = 0 /\ (cfg = {} \/ keep)) /\ UNCHANGED <<suMap, suWatcher>>
    /\ suRec' = [suRec EXCEPT !.wait = @ \cup {d}]
    /\ UNCHANGED <<suWorld, suFails, suHealth, suClosed>>

(* Mutant: the round ends without waiting for the watchers it stopped. *)
SuGoneBlind == TRUE

SuGone == \A w \in SuIds : suWatcher[w].cancelled => ~SuRunning(w)

(* The watchers stopped by this round have returned; their health is cleared. *)
SuApplied ==
    /\ suRec.at = "apply" /\ suRec.wait = SuDevices /\ SuGone
    /\ suHealth' = suHealth \ {d \in SuDevices : suMap[d] = 0 /\ suRec.want[d] = {}}
    /\ suRec' = SuRecIdle
    /\ UNCHANGED <<suWorld, suState, suFails, suClosed>>

----------------------------------------------------------------------------
(* run: the dial asks the relay for the device's identity. *)
SuDial(w) ==
    /\ suWatcher[w].at = "dial" /\ ~suWatcher[w].cancelled
    /\ suWatcher' = [suWatcher EXCEPT ![w].at = IF suWatcher[w].dev \subseteq suReg THEN "live" ELSE "asked"]
    /\ suHealth' = IF suWatcher[w].dev \subseteq suReg THEN suHealth \cup suWatcher[w].dev ELSE suHealth
    /\ UNCHANGED <<suWorld, suMap, suStopped, suFails, suRec, suClosed>>

SuDialFails(w) ==
    /\ suWatcher[w].at \in {"dial", "live"} /\ ~suWatcher[w].cancelled /\ suFails < MaxSuFails
    /\ suFails' = suFails + 1 /\ suHealth' = suHealth \cup suWatcher[w].dev
    /\ suWatcher' = [suWatcher EXCEPT ![w].at = "dial"]
    /\ UNCHANGED <<suWorld, suMap, suStopped, suRec, suClosed>>

(* A session to a device that is removed ends. *)
SuSessionEnds(w) ==
    /\ suWatcher[w].at = "live" /\ ~suWatcher[w].cancelled /\ ~(suWatcher[w].dev \subseteq suReg)
    /\ suWatcher' = [suWatcher EXCEPT ![w].at = "dial"]
    /\ UNCHANGED <<suWorld, suMap, suStopped, suFails, suRec, suHealth, suClosed>>

(* onDial with a permanent error: the health record, then the configuration   *)
(* the watcher has now goes into the error.                                   *)
SuRefused(w) ==
    /\ suWatcher[w].at = "asked"
    /\ suHealth' = suHealth \cup suWatcher[w].dev
    /\ suWatcher' = [suWatcher EXCEPT ![w].at = "refused", ![w].stop = suWatcher[w].cfg]
    /\ UNCHANGED <<suWorld, suMap, suStopped, suFails, suRec, suClosed>>

SuCancelled(w) ==
    /\ suWatcher[w].at \in {"dial", "live"} /\ (suWatcher[w].cancelled \/ suClosed)
    /\ suWatcher' = [suWatcher EXCEPT ![w] = [SuNone EXCEPT !.dev = suWatcher[w].dev, !.at = "over"]]
    /\ suMap' = [d \in SuDevices |-> IF suMap[d] = w THEN 0 ELSE suMap[d]]
    /\ UNCHANGED <<suWorld, suStopped, suFails, suRec, suHealth, suClosed>>

(* watcherDone: nothing if the map has moved on; a configuration that changed *)
(* since the failed dial starts again; else the stop is recorded.             *)
SuDone(w) ==
    LET d == CHOOSE x \in SuDevices : suWatcher[w].dev = {x} IN
    /\ suWatcher[w].at = "refused"
    /\ \/ /\ suMap[d] # w
          /\ suWatcher' = [suWatcher EXCEPT ![w] = [SuNone EXCEPT !.dev = {d}, !.at = "over"]]
          /\ UNCHANGED <<suMap, suStopped>>
       \/ /\ suMap[d] = w /\ suWatcher[w].stop # suWatcher[w].cfg /\ SuFree # {}
          /\ LET n == CHOOSE x \in SuFree : \A y \in SuFree : x <= y IN
             /\ suMap' = [suMap EXCEPT ![d] = n]
             /\ suWatcher' = [suWatcher EXCEPT ![w] = [SuNone EXCEPT !.dev = {d}, !.at = "over"],
                                    ![n] = [SuNone EXCEPT !.dev = {d}, !.at = "dial", !.cfg = suWatcher[w].cfg]]
          /\ UNCHANGED suStopped
       \/ /\ suMap[d] = w /\ suWatcher[w].stop = suWatcher[w].cfg
          /\ suMap' = [suMap EXCEPT ![d] = 0]
          /\ suStopped' = [suStopped EXCEPT ![d] = suWatcher[w].stop]
          /\ suWatcher' = [suWatcher EXCEPT ![w] = [SuNone EXCEPT !.dev = {d}, !.at = "over"]]
    /\ UNCHANGED <<suWorld, suFails, suRec, suHealth, suClosed>>

(* stop cancels the context; the reconciler leaves its loop when it next      *)
(* looks, and takes down what it has started meanwhile.                       *)
SuClose ==
    /\ ~suClosed /\ suClosed' = TRUE
    /\ UNCHANGED <<suWorld, suState, suFails, suRec, suHealth>>

SuCancelAll ==
    /\ suClosed /\ suRec.at = "idle"
    /\ suRec' = [suRec EXCEPT !.at = "left"] /\ suMap' = [d \in SuDevices |-> 0]
    /\ UNCHANGED <<suWorld, suWatcher, suStopped, suFails, suHealth, suClosed>>

SuReconciles == SuCancelAll \/ SuLoadRegistered \/ SuLoadConfigs \/ SuApplied \/ \E d \in SuDevices : SuApply(d)
SuWatches == \E w \in SuIds : SuDial(w) \/ SuSessionEnds(w) \/ SuRefused(w) \/ SuCancelled(w) \/ SuDone(w)

SuNext == \/ SuReconciles \/ SuWatches \/ SuLoadFails \/ SuClose
          \/ \E d \in SuDevices : SuRegister(d) \/ \E e \in SuEmails \cup {"off"} : SuConfigure(d, e)
          \/ \E w \in SuIds : SuDialFails(w)

(* The reconciler's timer and wake, and each watcher's goroutine. *)
SuFair == WF_suVars(SuReconciles) /\ WF_suVars(SuWatches)

SuSpec == SuInit /\ [][SuNext]_suVars /\ SuFair

----------------------------------------------------------------------------
(* Two watchers of one device would send every card twice: a watcher is gone  *)
(* before the next one for its device starts (applyConfigs waits for done,    *)
(* watcherDone starts the next one).                                          *)
SuOneWatcher ==
    \A v, w \in SuIds : v # w /\ SuRunning(v) /\ SuRunning(w) => suWatcher[v].dev # suWatcher[w].dev

(* "A timer must not resurrect it": each watcher started answers a change of  *)
(* configuration or registration, so a device the relay does not know is not  *)
(* dialled for ever.                                                          *)
SuNoChurn == suClosed \/ Cardinality({w \in SuIds : suWatcher[w].at # "none"}) <= suChanges

(* The stop is not for ever either: a device that is switched on, and that    *)
(* registered with the relay, ends up watched.  A stop is kept with the       *)
(* configuration the watcher had when its dial failed (larkWatcherStop), so   *)
(* one device is excepted: one that registers, or is removed and registers,   *)
(* before the failed dial or the removal was noticed.  It may stay unwatched  *)
(* until another watcher is started for it.                                   *)
SuExcepted(d) == suMissed[d] # {} /\ \A w \in SuIds : suWatcher[w].dev = {d} => w \in suMissed[d]

SuUnwatched ==
    \E d \in SuDevices : /\ d \in suReg /\ suCfg[d] # "off" /\ ~suClosed /\ ~SuExcepted(d)
                         /\ \A w \in SuIds : suWatcher[w].dev = {d} => suWatcher[w].at # "live"
SuResumes == []<>~SuUnwatched
=============================================================================
