------------------------------ MODULE Notifications ------------------------------
(***************************************************************************)
(* What a device reports: events, which become webhook notifications, and  *)
(* the versions it runs, which become columns of its row.                  *)
(*                                                                         *)
(* Events: the device (internal/agent/notify.go), the relay                *)
(* (internal/relay/agent_events.go, notify.go, notify_pg.go) and the       *)
(* sender with its rate limit (internal/notify).                           *)
(*                                                                         *)
(* A report is posted again when no answer came, so a request may reach    *)
(* the relay after its device has given it up, and one whose answer was    *)
(* lost reaches it twice.  Every event that is not a repetition is         *)
(* delivered by a goroutine of its own, with the settings it finds.        *)
(*                                                                         *)
(* Versions: one writer per device takes the report of the moment from the *)
(* device's state, waits out an interval, and writes; the registrations    *)
(* that changed the state kick it after they let go of their lock.         *)
(***************************************************************************)
EXTENDS Naturals, FiniteSets

CONSTANTS
    NfReports,  \* events a device reports, each with its ID
    NfOthers,   \* events of the account: a friend asked, a device enrolled
    NfTries,    \* how often a report is posted
    NfLimit     \* events a minute

ASSUME NfAssumption == NfReports \cap NfOthers = {} /\ NfTries \in Nat \ {0} /\ NfLimit \in Nat

VARIABLES
    nfHook,     \* the webhook's settings: {} or {whether content is included}
    nfSave,     \* a save between its read and its write: {} or {what it read}
    nfSwitch,   \* notifications are on for the device
    nfPolicy,   \* the device may include content in its reports
    nfRep,      \* per report: where the device is with it, and how often it was posted
    nfNet,      \* per report: requests on their way to the relay
    nfSeen,     \* the reports whose ID the relay remembers
    nfEmits,    \* per report: how often the relay took it for a new one
    nfPushed,   \* reports whose ID was pushed out by newer ones
    nfJob,      \* the goroutine of each event
    nfWindow,   \* the account's minute: events let through, and whether the limit was announced
    nfHealth    \* the delivery health: failures in a row, at most two told apart

nfVars == <<nfHook, nfSave, nfSwitch, nfPolicy, nfRep, nfNet, nfSeen, nfEmits, nfPushed, nfJob, nfWindow, nfHealth>>
nfSettings == <<nfHook, nfSave, nfSwitch>>
nfDevice == <<nfPolicy, nfRep>>
nfDedupe == <<nfSeen, nfEmits, nfPushed>>
nfDelivery == <<nfJob, nfWindow, nfHealth>>

NfInit ==
    /\ nfHook = {} /\ nfSave = {} /\ nfSwitch = FALSE /\ nfPolicy = FALSE
    /\ nfRep = [r \in NfReports |-> [at |-> "none", tries |-> 0]]
    /\ nfNet = [r \in NfReports |-> 0]
    /\ nfSeen = {} /\ nfPushed = {}
    /\ nfEmits = [r \in NfReports |-> 0]
    /\ nfJob = [e \in NfReports \cup NfOthers |-> "none"]
    /\ nfWindow = [count |-> 0, announced |-> FALSE]
    /\ nfHealth = 0

(***************************************************************************)
(* Settings.                                                               *)
(***************************************************************************)

NfDefault == {FALSE}

(* A save reads the settings it will change ... *)
NfSaveReads ==
    /\ nfSave = {}
    /\ nfSave' = {nfHook}
    /\ UNCHANGED <<nfHook, nfSwitch, nfDevice, nfNet, nfDedupe, nfDelivery>>

NfApplied(was, detail) == IF detail = {} THEN (IF was = {} THEN NfDefault ELSE was) ELSE detail

(* ... and writes all of them back, the ones it did not mention as read.   *)
NfSaveWrites(detail) ==
    /\ \E was \in nfSave : nfHook' = NfApplied(was, detail)
    /\ nfSave' = {}
    /\ UNCHANGED <<nfSwitch, nfDevice, nfNet, nfDedupe, nfDelivery>>

NfDelete ==
    /\ nfHook # {}
    /\ nfHook' = {}
    /\ UNCHANGED <<nfSave, nfSwitch, nfDevice, nfNet, nfDedupe, nfDelivery>>

NfStoreSwitch == nfSwitch' = ~nfSwitch

NfSetDevice ==
    /\ NfStoreSwitch
    /\ UNCHANGED <<nfHook, nfSave, nfDevice, nfNet, nfDedupe, nfDelivery>>

(***************************************************************************)
(* The device.                                                             *)
(***************************************************************************)

(* handleAgentNotifyPolicy *)
NfIncludes == nfSwitch /\ nfHook = {TRUE}

(* Asked every five minutes; not being able to ask is a no. *)
NfRefreshPolicy ==
    /\ nfPolicy' \in {NfIncludes, FALSE}
    /\ nfPolicy' # nfPolicy
    /\ UNCHANGED <<nfSettings, nfRep, nfNet, nfDedupe, nfDelivery>>

(* A post, the first or one more. *)
NfPost(r) ==
    /\ nfRep[r].at \in {"none", "again"} /\ nfRep[r].tries < NfTries
    /\ nfRep' = [nfRep EXCEPT ![r] = [at |-> "posted", tries |-> @.tries + 1]]
    /\ nfNet' = [nfNet EXCEPT ![r] = @ + 1]
    /\ UNCHANGED <<nfSettings, nfPolicy, nfDedupe, nfDelivery>>

(* No answer in time, or an error that is worth another try. *)
NfAgain(r) ==
    /\ nfRep[r].at = "posted"
    /\ nfRep' = [nfRep EXCEPT ![r].at = IF nfRep[r].tries < NfTries THEN "again" ELSE "done"]
    /\ UNCHANGED <<nfSettings, nfPolicy, nfNet, nfDedupe, nfDelivery>>

(***************************************************************************)
(* The relay.                                                              *)
(***************************************************************************)

NfAnswered(r) == nfRep' = [nfRep EXCEPT ![r].at = IF @ = "posted" THEN "done" ELSE @]

NfRememberNever(r) == nfSeen
NfRemember(r) == nfSeen \cup {r}

(* handleAgentEvent: a report not seen lately is taken, once.  The answer  *)
(* may be lost on its way back.                                            *)
NfArrives(r) ==
    /\ nfNet[r] > 0
    /\ nfNet' = [nfNet EXCEPT ![r] = @ - 1]
    /\ NfAnswered(r) \/ UNCHANGED nfRep
    /\ IF r \in nfSeen
       THEN UNCHANGED <<nfDedupe, nfJob>>
       ELSE /\ nfSeen' = NfRemember(r)
            /\ nfEmits' = [nfEmits EXCEPT ![r] = @ + 1]
            /\ nfJob' = [nfJob EXCEPT ![r] = "reading"]
            /\ UNCHANGED nfPushed
    /\ UNCHANGED <<nfSettings, nfPolicy, nfWindow, nfHealth>>

(* A request is lost, or its sender is no longer the device's live agent.  *)
NfRefused(r) ==
    /\ nfNet[r] > 0
    /\ nfNet' = [nfNet EXCEPT ![r] = @ - 1]
    /\ NfAnswered(r) \/ UNCHANGED nfRep
    /\ UNCHANGED <<nfSettings, nfPolicy, nfDedupe, nfDelivery>>

(* Ten minutes later an ID is forgotten; three tries of five seconds are   *)
(* long over by then.                                                      *)
NfForgets(r) ==
    /\ r \in nfSeen
    /\ nfNet[r] = 0 /\ nfRep[r].at = "done"
    /\ nfSeen' = nfSeen \ {r}
    /\ UNCHANGED <<nfSettings, nfDevice, nfNet, nfEmits, nfPushed, nfDelivery>>

(* Ten thousand newer reports, of whatever devices, push the oldest out.   *)
NfPushOut(r) ==
    /\ r \in nfSeen
    /\ nfSeen' = nfSeen \ {r}
    /\ nfPushed' = nfPushed \cup {r}
    /\ UNCHANGED <<nfSettings, nfDevice, nfNet, nfEmits, nfDelivery>>

(* An event of the account. *)
NfEmit(e) ==
    /\ nfJob[e] = "none"
    /\ nfJob' = [nfJob EXCEPT ![e] = "reading"]
    /\ UNCHANGED <<nfSettings, nfDevice, nfNet, nfDedupe, nfWindow, nfHealth>>

(* A device's event needs the device's switch, every event a webhook.      *)
NfWanted(e) == nfHook # {} /\ (e \in NfReports => nfSwitch)

(* The goroutine finds it unwanted, or this kind of event switched off;    *)
(* or it goes to the sender.                                               *)
NfRead(e) ==
    /\ nfJob[e] = "reading"
    /\ \/ nfJob' = [nfJob EXCEPT ![e] = "done"]
       \/ NfWanted(e) /\ nfJob' = [nfJob EXCEPT ![e] = "sending"]
    /\ UNCHANGED <<nfSettings, nfDevice, nfNet, nfDedupe, nfWindow, nfHealth>>

NfLetThrough == nfWindow.count < NfLimit

(* The limiter: an event, the one notice in its place, or nothing. *)
NfSend(e) ==
    /\ nfJob[e] = "sending"
    /\ nfWindow' = IF NfLetThrough THEN [nfWindow EXCEPT !.count = @ + 1] ELSE [nfWindow EXCEPT !.announced = TRUE]
    /\ nfJob' = [nfJob EXCEPT ![e] = IF NfLetThrough THEN "posting" ELSE IF nfWindow.announced THEN "done" ELSE "notice"]
    /\ UNCHANGED <<nfSettings, nfDevice, nfNet, nfDedupe, nfHealth>>

(* What the webhook's provider said in the end: taken, or refused. *)
NfAnswer == {"ok", "failed"}

NfRecordHealth(answer) == nfHealth' = IF answer = "ok" THEN 0 ELSE IF nfHealth < 2 THEN nfHealth + 1 ELSE 2

NfDelivered(e) ==
    /\ nfJob[e] \in {"posting", "notice"}
    /\ \E answer \in NfAnswer : NfRecordHealth(answer)
    /\ nfJob' = [nfJob EXCEPT ![e] = "done"]
    /\ UNCHANGED <<nfSettings, nfDevice, nfNet, nfDedupe, nfWindow>>

NfWindowEnds ==
    /\ nfWindow.count > 0
    /\ nfWindow' = [count |-> 0, announced |-> FALSE]
    /\ UNCHANGED <<nfSettings, nfDevice, nfNet, nfDedupe, nfJob, nfHealth>>

NfNext ==
    \/ NfSaveReads \/ (\E d \in {{}, {TRUE}, {FALSE}} : NfSaveWrites(d)) \/ NfDelete \/ NfSetDevice
    \/ NfRefreshPolicy \/ NfWindowEnds
    \/ \E r \in NfReports : NfPost(r) \/ NfAgain(r) \/ NfArrives(r) \/ NfRefused(r) \/ NfForgets(r) \/ NfPushOut(r)
    \/ \E e \in NfOthers : NfEmit(e)
    \/ \E e \in NfReports \cup NfOthers : NfRead(e) \/ NfSend(e) \/ NfDelivered(e)

NfSpec == NfInit /\ [][NfNext]_nfVars

(* A report is taken for a new event once, however often it is posted and  *)
(* whichever answers are lost, unless as many others as the relay          *)
(* remembers came between (notifyEventDuplicate, postNotifyEvent).         *)
NfOncePerReport == \A r \in NfReports : nfEmits[r] <= 1 \/ r \in nfPushed

(***************************************************************************)
(* Versions: what is installed on a device and what it reports with its    *)
(* registrations (agent/device_versions.go, relay/device_versions.go).     *)
(***************************************************************************)
CONSTANTS
    NvVersions,      \* versions a device may report
    MaxNvInstalls,   \* bound: installations
    MaxNvReports     \* bound: accepted registrations

VARIABLES
    nvDisk,     \* the version installed
    nvToTell,   \* an installation that is through, not yet in the cache: {} or {its version}
    nvCache,    \* installedVersionCache: value and revision
    nvScan,     \* its reader: {} or {the revision it started from, what it read}
    nvLive,     \* the relay has a registration of the device
    nvCount,    \* accepted registrations
    nvState,    \* r.versions of the device: {} or {its deviceVersionState}
    nvKicks,    \* registrations that have not kicked the writer yet
    nvWriters,  \* writeDeviceVersions, running
    nvRow       \* the device's row: the registration whose report it holds

nvOfDevice == <<nvDisk, nvToTell, nvCache, nvScan>>
nvOfRelay == <<nvLive, nvCount, nvState, nvKicks, nvWriters, nvRow>>
nvVars == <<nvOfDevice, nvOfRelay>>

NvInit ==
    /\ nvDisk = CHOOSE v \in NvVersions : TRUE
    /\ nvToTell = {} /\ nvCache = [value |-> {}, revision |-> 0] /\ nvScan = {}
    /\ nvLive = FALSE /\ nvCount = 0 /\ nvState = {} /\ nvKicks = {} /\ nvWriters = {} /\ nvRow = 0

(* OpenCU is installed, and the version it printed is refreshed afterwards. *)
NvInstalls(v) ==
    /\ nvToTell = {} /\ nvCache.revision < MaxNvInstalls
    /\ nvDisk' = v /\ nvToTell' = {v}
    /\ UNCHANGED <<nvCache, nvScan, nvOfRelay>>

NvRefresh ==
    /\ nvToTell # {}
    /\ nvCache' = [value |-> nvToTell, revision |-> nvCache.revision + 1]
    /\ nvToTell' = {}
    /\ UNCHANGED <<nvDisk, nvScan, nvOfRelay>>

(* The reader notes the revision, reads the disk, and stores what it read  *)
(* unless the cache was refreshed meanwhile.                               *)
NvScanStarts ==
    /\ nvScan = {}
    /\ nvScan' = {[revision |-> nvCache.revision, read |-> {}]}
    /\ UNCHANGED <<nvDisk, nvToTell, nvCache, nvOfRelay>>

NvScanReads ==
    /\ \E s \in nvScan : s.read = {} /\ nvScan' = {[s EXCEPT !.read = {nvDisk}]}
    /\ UNCHANGED <<nvDisk, nvToTell, nvCache, nvOfRelay>>

NvScanSets ==
    /\ \E s \in nvScan :
         /\ s.read # {}
         /\ nvCache' = IF s.revision = nvCache.revision THEN [nvCache EXCEPT !.value = s.read] ELSE nvCache
    /\ nvScan' = {}
    /\ UNCHANGED <<nvDisk, nvToTell, nvOfRelay>>

(* A revision is the number of its registration; a state is known by the   *)
(* one that made it.                                                       *)
NvNew(n, v) == [id |-> n, want |-> v, revision |-> n, attempted |-> 0, stored |-> {},
                running |-> FALSE, offline |-> FALSE, cooling |-> FALSE, wake |-> FALSE]

NvWriter(s) == [of |-> s.id, at |-> "look", revision |-> 0, report |-> s.want]

(* queueDeviceVersions, under registrationMu: the report is the wanted one. *)
NvQueue(v) ==
    LET n == nvCount + 1
        was == IF nvState = {} THEN {NvNew(n, v)} ELSE nvState
    IN /\ n <= MaxNvReports
       /\ nvCount' = n
       /\ nvState' = {[s EXCEPT !.want = v, !.revision = n, !.offline = FALSE] : s \in was}
       /\ nvKicks' = nvKicks \cup {[of |-> s.id, by |-> n] : s \in was}
       /\ UNCHANGED <<nvOfDevice, nvWriters, nvRow>>

(* A registration carries a report; so does a message of an agent that is  *)
(* registered over a WebSocket.                                            *)
NvRegisters(v) == NvQueue(v) /\ nvLive' = TRUE
NvTells(v) == nvLive /\ NvQueue(v) /\ UNCHANGED nvLive

NvNeedsWriter(s) == ~s.offline /\ ~s.running /\ s.stored # {s.want}

(* The function it returned, run after the unlock. *)
NvKick(k) ==
    LET starts == {s \in nvState : s.id = k.of /\ NvNeedsWriter(s)}
    IN /\ nvKicks' = nvKicks \ {k}
       /\ nvState' = {IF s \in starts THEN [s EXCEPT !.running = TRUE] ELSE s : s \in nvState}
       /\ nvWriters' = nvWriters \cup {NvWriter(s) : s \in starts}
       /\ UNCHANGED <<nvOfDevice, nvLive, nvCount, nvRow>>

(* The registration is turned away after all: nobody kicks. *)
NvTurnedAway(k) ==
    /\ nvKicks' = nvKicks \ {k} /\ nvLive' = FALSE
    /\ UNCHANGED <<nvOfDevice, nvCount, nvState, nvWriters, nvRow>>

NvLeaves ==
    /\ nvLive /\ nvLive' = FALSE
    /\ UNCHANGED <<nvOfDevice, nvCount, nvState, nvKicks, nvWriters, nvRow>>

(* pruneDeviceVersions, by whoever found the device gone: a writer retires *)
(* the state, the running one or one started for it.                       *)
NvPrune ==
    /\ ~nvLive
    /\ \E s \in nvState :
         /\ nvState' = {[s EXCEPT !.offline = TRUE, !.running = TRUE, !.wake = s.wake \/ s.running]}
         /\ nvWriters' = IF s.running THEN nvWriters ELSE nvWriters \cup {NvWriter(s)}
    /\ UNCHANGED <<nvOfDevice, nvLive, nvCount, nvKicks, nvRow>>

NvGoes(w, x) == nvWriters' = (nvWriters \ {w}) \cup {x}

NvNothingToDo(s) == s.stored = {s.want} \/ (s.offline /\ s.attempted = s.revision)

(* The top of the writer's loop: it ends, waits for the interval between   *)
(* two writes, or takes the report of the moment.                          *)
NvLook(w) ==
    /\ w.at = "look"
    /\ \E s \in nvState :
         /\ s.id = w.of
         /\ IF NvNothingToDo(s) /\ (s.offline => ~s.cooling)
            THEN /\ nvState' = IF s.offline THEN {} ELSE {[s EXCEPT !.running = FALSE]}
                 /\ nvWriters' = nvWriters \ {w}
            ELSE IF s.cooling
            THEN NvGoes(w, [w EXCEPT !.at = "wait"]) /\ UNCHANGED nvState
            ELSE /\ nvState' = {[s EXCEPT !.attempted = s.revision, !.cooling = TRUE]}
                 /\ NvGoes(w, [w EXCEPT !.at = "write", !.revision = s.revision, !.report = s.want])
    /\ UNCHANGED <<nvOfDevice, nvLive, nvCount, nvKicks, nvRow>>

(* The interval is over, or the device went meanwhile. *)
NvWaited(w) ==
    /\ w.at = "wait"
    /\ \E s \in nvState :
         /\ s.id = w.of
         /\ \/ ~s.cooling /\ UNCHANGED nvState
            \/ s.wake /\ nvState' = {[s EXCEPT !.wake = FALSE]}
    /\ NvGoes(w, [w EXCEPT !.at = "look"])
    /\ UNCHANGED <<nvOfDevice, nvLive, nvCount, nvKicks, nvRow>>

(* Ten seconds after a write. *)
NvCools ==
    /\ \E s \in nvState : s.cooling /\ nvState' = {[s EXCEPT !.cooling = FALSE]}
    /\ UNCHANGED <<nvOfDevice, nvLive, nvCount, nvKicks, nvWriters, nvRow>>

(* RecordDeviceVersions; a statement that timed out may have been applied. *)
NvRecord(w) ==
    /\ w.at = "write"
    /\ \/ nvRow' = w.revision /\ NvGoes(w, [w EXCEPT !.at = "stored"])
       \/ nvRow' \in {nvRow, w.revision} /\ NvGoes(w, [w EXCEPT !.at = "failed"])
    /\ UNCHANGED <<nvOfDevice, nvLive, nvCount, nvState, nvKicks>>

NvNotes(w) ==
    /\ w.at \in {"stored", "failed"}
    /\ nvState' = {IF s.id = w.of /\ w.at = "stored" THEN [s EXCEPT !.stored = {w.report}] ELSE s : s \in nvState}
    /\ NvGoes(w, [w EXCEPT !.at = "noted"])
    /\ UNCHANGED <<nvOfDevice, nvLive, nvCount, nvKicks, nvRow>>

NvDone(s, w) == s.revision = w.revision /\ ~s.offline

(* After a write the writer ends, unless a newer report came meanwhile. *)
NvSettles(w) ==
    /\ w.at = "noted"
    /\ \E s \in nvState :
         /\ s.id = w.of
         /\ IF NvDone(s, w)
            THEN nvState' = {[s EXCEPT !.running = FALSE]} /\ nvWriters' = nvWriters \ {w}
            ELSE UNCHANGED nvState /\ NvGoes(w, [w EXCEPT !.at = "look"])
    /\ UNCHANGED <<nvOfDevice, nvLive, nvCount, nvKicks, nvRow>>

NvDeviceNext ==
    \/ NvRefresh \/ NvScanStarts \/ NvScanReads \/ NvScanSets
    \/ \E v \in NvVersions : NvInstalls(v)

NvRelayNext ==
    \/ \E v \in NvVersions : NvRegisters(v) \/ NvTells(v)
    \/ NvLeaves \/ NvPrune \/ NvCools
    \/ \E k \in nvKicks : NvKick(k) \/ NvTurnedAway(k)
    \/ \E w \in nvWriters : NvLook(w) \/ NvWaited(w) \/ NvRecord(w) \/ NvNotes(w) \/ NvSettles(w)

NvNext == NvDeviceNext \/ NvRelayNext

NvSpec == NvInit /\ [][NvNext]_nvVars

(* A reader that started before an installation does not hide its version. *)
NvCacheFresh == nvToTell = {} /\ nvCache.revision > 0 => nvCache.value = {nvDisk}

(* A registered device's last report is in its row, or its write failed,   *)
(* once nobody is left who would write it (queueDeviceVersions,            *)
(* writeDeviceVersions).                                                   *)
NvReported ==
    \A s \in nvState :
        nvLive /\ ~s.running /\ (\A k \in nvKicks : k.of # s.id) =>
            s.stored = {s.want} \/ s.attempted = s.revision

(* "a slow older poll can never finish after a newer value has been stored" *)
NvInOrder == [][nvRow' >= nvRow]_nvVars

NvSafe == [](NvCacheFresh /\ NvReported) /\ NvInOrder
================================================================================
