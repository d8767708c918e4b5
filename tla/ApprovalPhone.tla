---------------------------- MODULE ApprovalPhone ----------------------------
(***************************************************************************)
(* Approvals on the owner's phone: the portal's supervisor                 *)
(* (internal/portal/phonewatch.go, approvalwatch.go), the phone's outbox   *)
(* (internal/agent/approvals.go) and the watched device's request.  Cards  *)
(* are pushed over one connection, requests observed over another that may *)
(* be replaced, decisions resent until the portal settles them, and an     *)
(* approval that comes too late becomes a grant for the next attempt.  The *)
(* hazard is a request that is let through twice.  CardsSafe, at the end,  *)
(* says it together with what LarkCards promises.                          *)
(***************************************************************************)
EXTENDS Naturals, Sequences, LarkCards

CONSTANTS Asks,           \* requests raised on the watched device
          Phones,         \* devices that can be designated
          MaxCards,       \* bound: cards issued
          MaxConns,       \* bound: connections to the watched device
          MaxLosses       \* bound: times the phone's link is lost

VARIABLES ask,            \* [st, late, how, passed]: the requests on the device
          conn, conns,    \* the pooled connection to the device, 0 if none
          sub, dirty,     \* the watch's subscription; a state to deliver
          seen,           \* seenPending: the card of a request, 0 if none
          cards,          \* phoneSupervisor.cards, by issue
          phone,          \* the designated phone
          linked,         \* its link is up
          losses,
          outbox,         \* approvalPhone.outbox: decision of a card, per phone
          inFlight        \* approval_reply messages on the link

phoneVars == <<ask, conn, conns, sub, dirty, seen, cards, phone, linked, losses, outbox, inFlight>>
deviceSide == <<conn, conns, sub, dirty, seen>>

PhoneInit ==
    /\ ask = [r \in Asks |-> [st |-> "none", late |-> FALSE, how |-> "none", passed |-> 0]]
    /\ conn = 0 /\ conns = 0 /\ sub = 0 /\ dirty = FALSE
    /\ seen = [r \in Asks |-> 0]
    /\ cards = <<>>
    /\ phone \in Phones /\ linked = FALSE /\ losses = 0
    /\ outbox = [p \in Phones |-> [c \in 1 .. MaxCards |-> "none"]]
    /\ inFlight = {}

(* A change on the device is pushed to a subscribed watch. *)
Changed == dirty' = (dirty \/ sub # 0)

Over(rec, how, verdict) ==
    [rec EXCEPT !.st = "over", !.how = how,
                !.passed = IF verdict = "y" THEN @ + 1 ELSE @]

(* A request waits only while a front-end watches the device. *)
Raise(r) ==
    /\ ask[r].st = "none" /\ sub # 0 /\ sub = conn
    /\ ask' = [ask EXCEPT ![r].st = "waiting"] /\ Changed
    /\ UNCHANGED <<conn, conns, sub, seen, cards, phone, linked, losses, outbox, inFlight>>

(* Someone answers at the device or on the portal page. *)
AnswerElsewhere(r, v) ==
    /\ ask[r].st = "waiting"
    /\ ask' = [ask EXCEPT ![r] = Over(@, IF ask[r].late THEN "late" ELSE "early", v)] /\ Changed
    /\ UNCHANGED <<conn, conns, sub, seen, cards, phone, linked, losses, outbox, inFlight>>

(* The request is over and the portal has yet to learn it: the state is on   *)
(* its way to a subscribed watch, or a tap is being carried out.             *)
Unlearned(r) ==
    /\ ask[r].st = "over"
    /\ \/ seen[r] # 0 /\ sub = conn /\ conn # 0 /\ dirty
       \/ \E c \in DOMAIN cards : cards[c].r = r /\ cards[c].step = "apply"

(* The last phoneExpirySlack of the wait begins.                             *)
NearExpiry(r) ==
    /\ ask[r].st # "none" /\ ~ask[r].late
    /\ ask' = [ask EXCEPT ![r].late = TRUE, ![r].how = IF Unlearned(r) THEN "unlearned" ELSE @]
    /\ UNCHANGED <<deviceSide, cards, phone, linked, losses, outbox, inFlight>>

WaitRunsOutAsk(r) ==
    /\ ask[r].st = "waiting" /\ ask[r].late
    /\ ask' = [ask EXCEPT ![r] = Over(@, "timeout", "n")] /\ Changed
    /\ UNCHANGED <<conn, conns, sub, seen, cards, phone, linked, losses, outbox, inFlight>>

(* observationCurrent. *)
Current(card, g) == card.gen = g /\ g # 0 /\ g = conn

(* Mutant: a request that is gone has expired, whoever ended it. *)
AnsweredElsewhereNever(card) == card.gone = "no"

(* answeredElsewhere. *)
AnsweredElsewhere(card) == card.unknown \/ card.gone \in {"no", "early"}

Now(r) == IF ask[r].late THEN "late" ELSE "early"

(* markDisappearanceUnknownLocked *)
Unknown(cs) == [c \in DOMAIN cs |-> IF cs[c].st = "pending" THEN [cs[c] EXCEPT !.unknown = TRUE]
                                                         ELSE cs[c]]

(* push reaches the phone it is for while that phone's link is up; a done    *)
(* card takes the decision out of the phone's outbox (show).                 *)
Reaches(p) == linked /\ p = phone

(* Mutant: the phone shows the card and keeps its decision for a resend. *)
PushDoneKeeps(p, c) == outbox' = outbox

PushDone(p, c) == outbox' = IF Reaches(p) THEN [outbox EXCEPT ![p][c] = "none"] ELSE outbox

(* residentWatch: dial (or share) the connection and subscribe. *)
WatchDials ==
    /\ linked /\ sub = 0
    /\ \/ conn # 0 /\ sub' = conn /\ UNCHANGED <<conn, conns>>
       \/ /\ conn = 0 /\ conns < MaxConns
          /\ conns' = conns + 1 /\ conn' = conns + 1 /\ sub' = conns + 1
    /\ dirty' = FALSE
    /\ UNCHANGED <<ask, seen, cards, phone, linked, losses, outbox, inFlight>>

ConnectionDies ==
    /\ conn # 0 /\ conn' = 0
    /\ UNCHANGED <<ask, conns, sub, dirty, seen, cards, phone, linked, losses, outbox, inFlight>>

(* onDisconnect, when the watch notices its subscription closed. *)
WatchNotices ==
    /\ sub # 0 /\ sub # conn
    /\ sub' = 0 /\ dirty' = FALSE /\ cards' = Unknown(cards)
    /\ UNCHANGED <<ask, conn, conns, seen, phone, linked, losses, outbox, inFlight>>

(* onTargetState, a new request: a card is issued and pushed.  A push that   *)
(* fails refuses the request at once.                                        *)
ShowRequest(r, pushed) ==
    /\ sub # 0 /\ dirty /\ ask[r].st = "waiting" /\ seen[r] = 0 /\ Len(cards) < MaxCards
    /\ pushed => linked
    /\ cards' = Append(cards, [r |-> r, phone |-> phone, st |-> "pending", answered |-> FALSE,
                               gone |-> "no", unknown |-> FALSE, gen |-> sub,
                               step |-> "none", verdict |-> "none", was |-> "none",
                               applied |-> 0, kept |-> TRUE, tapped |-> FALSE])
    /\ seen' = [seen EXCEPT ![r] = Len(cards) + 1]
    /\ ask' = IF pushed THEN ask ELSE [ask EXCEPT ![r] = Over(@, Now(r), "n")]
    /\ UNCHANGED <<conn, conns, sub, dirty, phone, linked, losses, outbox, inFlight>>

(* onTargetState, a request no longer there: settle its card. *)
SettleCard(r) ==
    LET c == seen[r]
        card == cards[c]
        observed == IF Current(card, sub) THEN [card EXCEPT !.gone = Now(r)]
                                          ELSE [card EXCEPT !.unknown = TRUE]
        ended == IF AnsweredElsewhere(observed)
                 THEN [observed EXCEPT !.st = "done", !.answered = TRUE]
                 ELSE [observed EXCEPT !.st = "expired"]
    IN  /\ sub # 0 /\ dirty /\ c # 0 /\ ask[r].st = "over"
        /\ seen' = [seen EXCEPT ![r] = 0]
        /\ IF card.answered \/ card.st # "pending" \/ ~card.kept
           THEN UNCHANGED <<cards, outbox>>
           ELSE /\ cards' = [cards EXCEPT ![c] = ended]
                /\ IF ended.st = "done" THEN PushDone(card.phone, c) ELSE UNCHANGED outbox
        /\ UNCHANGED <<ask, conn, conns, sub, dirty, phone, linked, losses, inFlight>>

(* Every request of a delivered state has been looked at. *)
StateDone ==
    /\ dirty /\ dirty' = FALSE
    /\ \A r \in Asks : ask[r].st = "waiting" => seen[r] # 0 \/ Len(cards) = MaxCards
    /\ \A r \in Asks : ask[r].st = "over" => seen[r] = 0
    /\ UNCHANGED <<ask, conn, conns, sub, seen, cards, phone, linked, losses, outbox, inFlight>>

(* attach, on the phone: what its outbox holds is resent to a new session. *)
Unsettled(p) == {c \in 1 .. MaxCards : outbox[p][c] # "none"}

(* bringUp: the link is up again. *)
LinkComesUp ==
    /\ ~linked /\ linked' = TRUE
    /\ inFlight' = {[c |-> c, v |-> outbox[phone][c]] : c \in Unsettled(phone)}
    /\ UNCHANGED <<ask, deviceSide, cards, phone, losses, outbox>>

(* teardown: the watch ends, its connection is closed, answers are lost.     *)
(* A new target starts with nothing seen.                                    *)
Teardown ==
    /\ linked' = FALSE /\ inFlight' = {} /\ cards' = Unknown(cards)
    /\ conn' = 0 /\ sub' = 0 /\ dirty' = FALSE /\ seen' = [r \in Asks |-> 0]
    /\ losses' = losses + 1

LinkLost ==
    /\ linked /\ losses < MaxLosses /\ Teardown
    /\ UNCHANGED <<ask, conns, phone, outbox>>

(* The owner designates another phone; reconcile tears the old one down. *)
Designate(p) ==
    /\ p # phone /\ losses < MaxLosses /\ phone' = p /\ Teardown
    /\ UNCHANGED <<ask, conns, outbox>>

(* pruneCards: past retention, over the cap, or a portal that restarted. *)
ForgetCard(c) ==
    /\ cards[c].kept /\ cards[c].step = "none" /\ cards' = [cards EXCEPT ![c].kept = FALSE]
    /\ UNCHANGED <<ask, deviceSide, phone, linked, losses, outbox, inFlight>>

(* The owner taps a card, once; decide keeps the decision and sends it if linked. *)
Tap(c, v) ==
    LET p == cards[c].phone IN
    /\ ~cards[c].tapped /\ cards' = [cards EXCEPT ![c].tapped = TRUE]
    /\ outbox' = [outbox EXCEPT ![p][c] = v]
    /\ inFlight' = IF Reaches(p) THEN inFlight \cup {[c |-> c, v |-> v]} ELSE inFlight
    /\ UNCHANGED <<ask, deviceSide, phone, linked, losses>>

(* Mutant: a resend is taken for a new decision. *)
AlreadyAnsweredNever(card) == FALSE

(* A resend after a reconnect repeats how it ended. *)
AlreadyAnswered(card) == card.answered

(* handleReply, up to the point where the decision is claimed for this card. *)
HandleReply(m) ==
    LET card == cards[m.c] IN
    /\ linked /\ inFlight' = inFlight \ {m}
    /\ \/ /\ ~card.kept \/ card.phone # phone
          /\ PushDone(phone, m.c) /\ UNCHANGED cards
       \/ /\ card.kept /\ card.phone = phone /\ AlreadyAnswered(card)
          /\ IF card.st = "done" THEN PushDone(phone, m.c) ELSE UNCHANGED outbox
          /\ UNCHANGED cards
       \/ /\ card.kept /\ card.phone = phone /\ ~AlreadyAnswered(card) /\ card.step = "none"
          /\ cards' = [cards EXCEPT ![m.c].answered = TRUE, ![m.c].step = "apply",
                                    ![m.c].verdict = m.v, ![m.c].was = card.st]
          /\ UNCHANGED outbox
    /\ UNCHANGED <<ask, deviceSide, phone, linked, losses>>

(* apply on a card that was pending: decide on the device; a request that is *)
(* gone is judged by when, and on which connection, it went.                 *)
ApplyDecision(c) ==
    LET card == cards[c]
        r == card.r
        unk == card.unknown \/ ~Current(card, conn)
        judged == [card EXCEPT !.unknown = unk,
                               !.gone = IF ~unk /\ @ = "no" THEN Now(r) ELSE @]
    IN  /\ card.step = "apply" /\ card.was = "pending" /\ conn # 0
        /\ IF ask[r].st = "waiting"
           THEN /\ ask' = [ask EXCEPT ![r] = Over(@, Now(r), card.verdict)] /\ Changed
                /\ cards' = [cards EXCEPT ![c].step = "confirm", ![c].applied = @ + 1]
           ELSE /\ UNCHANGED <<ask, dirty>>
                /\ cards' = [cards EXCEPT ![c] =
                       [judged EXCEPT !.step = IF AnsweredElsewhere(judged) \/ card.verdict # "y"
                                               THEN "confirm" ELSE "grant"]]
        /\ UNCHANGED <<conn, conns, sub, seen, phone, linked, losses, outbox, inFlight>>

(* apply on a card that had expired, or with no way to reach the device. *)
ApplyExpired(c) ==
    LET card == cards[c] IN
    /\ card.step = "apply"
    /\ \/ /\ card.was # "pending"
          /\ cards' = [cards EXCEPT ![c].step = IF card.verdict = "y" THEN "grant" ELSE "confirm"]
       \/ conn = 0 /\ cards' = [cards EXCEPT ![c].step = "confirm"]
    /\ UNCHANGED <<ask, deviceSide, phone, linked, losses, outbox, inFlight>>

(* grantOnce, after the last look at the observation. *)
GrantLate(c) ==
    LET card == cards[c]
        stands == ~AnsweredElsewhere(card) /\ (card.was # "pending" \/ Current(card, conn))
    IN  /\ card.step = "grant"
        /\ ask' = IF stands THEN [ask EXCEPT ![card.r].passed = @ + 1] ELSE ask
        /\ cards' = [cards EXCEPT ![c].step = "confirm",
                                  ![c].applied = IF stands THEN @ + 1 ELSE @]
        /\ UNCHANGED <<deviceSide, phone, linked, losses, outbox, inFlight>>

(* The end of handleReply: the card is done, and the phone is told. *)
Confirm(c) ==
    /\ cards[c].step = "confirm"
    /\ cards' = [cards EXCEPT ![c].step = "none", ![c].st = "done"]
    /\ PushDone(cards[c].phone, c)
    /\ UNCHANGED <<ask, deviceSide, phone, linked, losses, inFlight>>

CardNumbers == 1 .. Len(cards)

SettlingStep == \/ LinkComesUp
                \/ \E m \in inFlight : HandleReply(m)
                \/ \E c \in CardNumbers : ApplyDecision(c) \/ ApplyExpired(c) \/ GrantLate(c) \/ Confirm(c)

PhoneNext ==
    \/ SettlingStep
    \/ \E r \in Asks : \/ Raise(r) \/ NearExpiry(r) \/ WaitRunsOutAsk(r) \/ SettleCard(r)
                       \/ \E v \in {"y", "n"} : AnswerElsewhere(r, v)
                       \/ \E pushed \in BOOLEAN : ShowRequest(r, pushed)
    \/ WatchDials \/ ConnectionDies \/ WatchNotices \/ StateDone \/ LinkLost
    \/ \E p \in Phones : Designate(p)
    \/ \E c \in CardNumbers : ForgetCard(c) \/ \E v \in {"y", "n"} : Tap(c, v)

(* The supervisor keeps reconciling and its goroutines run: the link comes   *)
(* back and a decision that arrived is carried through.                      *)
PhoneSpec == PhoneInit /\ [][PhoneNext]_phoneVars /\ WF_phoneVars(SettlingStep)

(* phonewatch.go apply: "a late grant here would let the command through a   *)
(* second time".  However cards, connections and answers interleave, a       *)
(* request is let through at most once.  The portal judges by when it learns *)
(* that a request is over, so two kinds are excepted: one answered elsewhere *)
(* inside the last phoneExpirySlack of its wait, and one answered before     *)
(* that whose end the portal learned only then, over a slow link or because  *)
(* carrying out a tap took that long.                                        *)
LetThroughOnce == \A r \in Asks : ask[r].passed <= 1 \/ ask[r].how \in {"late", "unlearned"}

(* However often a phone resends a decision, it is applied at most once.     *)
AppliedOnce == \A c \in CardNumbers : cards[c].applied <= 1

(* A decision tapped on the phone that stays designated does not stay in its *)
(* outbox: once the link stops failing the portal settles it.                *)
Undelivered == Unsettled(phone) # {}
OutboxSettles == <>[]~Undelivered

\* portal/phonewatch.go and larkwatch.go: an answer lets one request through
\* once, cards and their updates do not overtake each other, and a device has
\* one watcher.
CardsSafe ==
  /\ LetThroughOnce /\ AppliedOnce /\ LkOneTap /\ LkNoUpdateRace /\ SuOneWatcher
=============================================================================
