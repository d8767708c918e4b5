---------------------------- MODULE WebFetchJobs ----------------------------
(***************************************************************************)
(* A delegation an AI asks for through plain URLs, and the ledger of what  *)
(* it runs (internal/webfetch/handler.go, internal/relay/                  *)
(* delegation_store.go, delegation_cleanup.go, internal/delegation).  The  *)
(* ticket, its request row and the grant on it live on different clocks;   *)
(* an operation is named by the caller's rid, so a URL fetched again after *)
(* a lost answer must not run twice, whatever the adapter's load and even  *)
(* across a restart.  One ticket, issued at time 0.                        *)
(***************************************************************************)
EXTENDS ControllerDial, Naturals, FiniteSets

CONSTANTS WfRids, WfPayloads, WfCalls,
          WfRequestWindow,    \* delegation.RequestWindow
          WfMaxGrant,         \* delegation.MaxGrantMinutes
          WfHour,             \* the hour MinRetention adds
          WfTimeout,          \* an operation's own deadline
          WfStaleGrace,       \* staleGrace
          WfMaxOps,           \* maxOperationsPerGrant
          WfMaxJobs,          \* delegation.MaxJobs
          WfNoPayload,
          MaxWfTime,          \* bound: the clock
          MaxWfCrashes        \* bound: restarts of the relay

ASSUME WfAssumption == /\ WfRequestWindow \in Nat /\ WfMaxGrant \in Nat /\ WfHour \in Nat
                       /\ WfRequestWindow < WfHour /\ WfNoPayload \notin WfPayloads

VARIABLES wfNow,
          wfReq,      \* delegation_requests: status, created, request expiry, grant expiry, token revoked
          wfFirst,    \* when the row was first created, 0 for never
          wfDevice,   \* the approved device still has the identity the grant names
          wfJob,      \* delegation_jobs by rid
          wfCall,     \* requests being served
          wfExec,     \* dispatch goroutines by rid
          wfSlots,    \* running[grant]
          wfRuns,     \* times the operation was sent to the device
          wfCrashes

wfStore == <<wfReq, wfFirst, wfDevice, wfJob>>
wfVars == <<wfNow, wfStore, wfCall, wfExec, wfSlots, wfRuns, wfCrashes>>

WfNoRow == [status |-> "none", created |-> 0, expires |-> 0, revoked |-> FALSE]
WfNoJob == [state |-> "none", payload |-> WfNoPayload, created |-> 0]
WfIdle == [at |-> "idle", rid |-> CHOOSE r \in WfRids : TRUE, payload |-> WfNoPayload]

WfInit ==
    /\ wfNow = 0 /\ wfReq = WfNoRow /\ wfFirst = {} /\ wfDevice = TRUE
    /\ wfJob = [r \in WfRids |-> WfNoJob] /\ wfCall = [k \in WfCalls |-> WfIdle]
    /\ wfExec = [r \in WfRids |-> "none"] /\ wfSlots = 0 /\ wfRuns = [r \in WfRids |-> 0] /\ wfCrashes = 0

---------------------------------------------------------------------------
WfTicketLifetime == WfRequestWindow + WfMaxGrant
WfTicketFresh == wfNow < WfTicketLifetime

(* readDelegation: the live status, from the row, its token and the devices. *)
WfStatus ==
    IF wfReq.status = "approved" /\ (wfReq.revoked \/ ~wfDevice) THEN "revoked"
    ELSE IF wfReq.status = "approved" /\ wfReq.expires <= wfNow THEN "expired"
    ELSE IF wfReq.status = "pending" /\ WfRequestWindow <= wfNow THEN "expired"
    ELSE wfReq.status

(* ResolveAccess of the delegated token. *)
WfAccess == WfStatus = "approved"

(* The ticket's fetches: the first creates the row, in the request window only. *)
WfOpens == WfTicketFresh /\ wfReq.status = "none" /\ wfNow < WfRequestWindow

WfCreate ==
    /\ WfOpens
    /\ wfReq' = [WfNoRow EXCEPT !.status = "pending", !.created = wfNow] /\ wfFirst' = wfFirst \cup {wfNow}
    /\ UNCHANGED <<wfNow, wfDevice, wfJob, wfCall, wfExec, wfSlots, wfRuns, wfCrashes>>

WfApprove(minutes) ==
    /\ WfStatus = "pending"
    /\ wfReq' = [wfReq EXCEPT !.status = "approved", !.expires = wfNow + minutes]
    /\ UNCHANGED <<wfNow, wfFirst, wfDevice, wfJob, wfCall, wfExec, wfSlots, wfRuns, wfCrashes>>

WfReject ==
    /\ WfStatus = "pending" /\ wfReq' = [wfReq EXCEPT !.status = "rejected"]
    /\ UNCHANGED <<wfNow, wfFirst, wfDevice, wfJob, wfCall, wfExec, wfSlots, wfRuns, wfCrashes>>

(* The owner revokes the token, or the device comes back with a new          *)
(* certificate.                                                              *)
WfEnds ==
    /\ wfReq.status = "approved"
    /\ \/ ~wfReq.revoked /\ wfReq' = [wfReq EXCEPT !.revoked = TRUE] /\ UNCHANGED wfDevice
       \/ wfDevice /\ wfDevice' = FALSE /\ UNCHANGED wfReq
    /\ UNCHANGED <<wfNow, wfFirst, wfJob, wfCall, wfExec, wfSlots, wfRuns, wfCrashes>>

WfMinRetentionGrant == WfMaxGrant
WfMinRetention == WfMaxGrant + WfHour

(* cleanupDelegationBatch: inactive rows past the floor go with their jobs. *)
WfCleanup ==
    /\ wfReq.status # "none" /\ wfReq.created + WfMinRetention < wfNow
    /\ WfStatus \in {"rejected", "revoked", "expired"}
    /\ wfReq' = WfNoRow /\ wfJob' = [r \in WfRids |-> WfNoJob]
    /\ UNCHANGED <<wfNow, wfFirst, wfDevice, wfCall, wfExec, wfSlots, wfRuns, wfCrashes>>

---------------------------------------------------------------------------
WfGoes(k, at) == wfCall' = [wfCall EXCEPT ![k].at = at]
WfDone(k) == wfCall' = [wfCall EXCEPT ![k] = WfIdle]

(* parseOperation: a URL is one canonical operation, or refused at once. *)
WfOperations == WfPayloads

(* A call URL: fresh ticket, live access, a target of the grant. *)
WfFetch(k, r, p) ==
    /\ p \in WfOperations /\ wfCall[k].at = "idle" /\ WfTicketFresh /\ WfAccess
    /\ wfCall' = [wfCall EXCEPT ![k] = [at |-> "find", rid |-> r, payload |-> p]]
    /\ UNCHANGED <<wfNow, wfStore, wfExec, wfSlots, wfRuns, wfCrashes>>

(* FindJob before capacity: a recorded rid is answered, with its job or as a *)
(* conflict.                                                                 *)
WfFind(k) ==
    /\ wfCall[k].at = "find"
    /\ IF wfJob[wfCall[k].rid].state = "none" THEN WfGoes(k, "reserve") ELSE WfDone(k)
    /\ UNCHANGED <<wfNow, wfStore, wfExec, wfSlots, wfRuns, wfCrashes>>

WfReserve(k) ==
    /\ wfCall[k].at = "reserve"
    /\ IF wfSlots < WfMaxOps THEN wfSlots' = wfSlots + 1 /\ WfGoes(k, "begin") ELSE WfDone(k) /\ UNCHANGED wfSlots
    /\ UNCHANGED <<wfNow, wfStore, wfExec, wfRuns, wfCrashes>>

WfAllowance == Cardinality({q \in WfRids : wfJob[q].state # "none"}) < WfMaxJobs

WfRecordedNever(r) == FALSE
WfRecorded(r) == wfJob[r].state # "none"

(* BeginJob, one transaction under the grant's lock: the rid again, the      *)
(* grant's status, the allowance, the insert.  Only a fresh job keeps the    *)
(* slot and is dispatched.                                                   *)
WfBegin(k) ==
    LET r == wfCall[k].rid IN
    /\ wfCall[k].at = "begin" /\ WfDone(k)
    /\ IF ~WfRecorded(r) /\ WfAccess /\ WfAllowance
       THEN /\ wfJob' = [wfJob EXCEPT ![r] = [state |-> "running", payload |-> wfCall[k].payload, created |-> wfNow]]
            /\ wfExec' = [wfExec EXCEPT ![r] = "check"] /\ UNCHANGED wfSlots
       ELSE wfSlots' = wfSlots - 1 /\ UNCHANGED <<wfJob, wfExec>>
    /\ UNCHANGED <<wfNow, wfReq, wfFirst, wfDevice, wfRuns, wfCrashes>>

WfDeadline(r) ==
    LET own == wfJob[r].created + WfTimeout IN
    IF wfReq.expires # 0 /\ wfReq.expires < own THEN wfReq.expires ELSE own

(* FinishJob writes over a running job only; its write may be lost.  The     *)
(* goroutine gives the slot back on every exit.                              *)
WfFinishJob(r, state) == IF wfJob[r].state = "running" THEN [wfJob EXCEPT ![r].state = state] ELSE wfJob

WfFinish(r, state) ==
    /\ wfExec' = [wfExec EXCEPT ![r] = "none"] /\ wfSlots' = wfSlots - 1
    /\ wfJob' = WfFinishJob(r, state) \/ UNCHANGED wfJob
    /\ UNCHANGED <<wfNow, wfReq, wfFirst, wfDevice, wfCall, wfCrashes>>

(* execute: the grant is resolved again and the deadline taken before        *)
(* anything is sent.                                                         *)
WfCheck(r) ==
    /\ wfExec[r] = "check"
    /\ IF WfAccess /\ wfNow < WfDeadline(r)
       THEN /\ wfExec' = [wfExec EXCEPT ![r] = "device"] /\ wfRuns' = [wfRuns EXCEPT ![r] = @ + 1]
            /\ UNCHANGED <<wfNow, wfStore, wfCall, wfSlots, wfCrashes>>
       ELSE WfFinish(r, "failed") /\ UNCHANGED wfRuns

(* The device's outcome, recordFailure's classes, or the deadline. *)
WfOutcome(r) ==
    /\ wfExec[r] = "device" /\ \E s \in {"done", "failed", "unknown"} : WfFinish(r, s)
    /\ UNCHANGED wfRuns

WfJobStateRaw(r) == wfJob[r].state

(* jobState: what a reader of the job is shown. *)
WfJobState(r) ==
    IF wfJob[r].state = "running" /\ WfDeadline(r) + WfStaleGrace < wfNow THEN "unknown" ELSE wfJob[r].state

WfTick ==
    /\ wfNow < MaxWfTime /\ wfNow' = wfNow + 1
    /\ UNCHANGED <<wfStore, wfCall, wfExec, wfSlots, wfRuns, wfCrashes>>

(* The relay dies: goroutines, requests and slots are gone, rows are not. *)
WfCrash ==
    /\ wfCrashes < MaxWfCrashes /\ wfCrashes' = wfCrashes + 1
    /\ wfCall' = [k \in WfCalls |-> WfIdle] /\ wfExec' = [r \in WfRids |-> "none"] /\ wfSlots' = 0
    /\ UNCHANGED <<wfNow, wfStore, wfRuns>>

WfSteps ==
    \/ \E k \in WfCalls : WfFind(k) \/ WfReserve(k) \/ WfBegin(k)
    \/ \E r \in WfRids : WfCheck(r) \/ WfOutcome(r)

WfNext ==
    \/ WfSteps \/ WfTick \/ WfCreate \/ WfReject \/ WfEnds \/ WfCleanup \/ WfCrash
    \/ \E n \in 1..WfMaxGrant : WfApprove(n)
    \/ \E k \in WfCalls, r \in WfRids, p \in WfPayloads : WfFetch(k, r, p)

WfSpec == WfInit /\ [][WfNext]_wfVars /\ WF_wfVars(WfSteps) /\ WF_wfVars(WfTick)

---------------------------------------------------------------------------
(* An operation named by a rid is sent to the device at most once, however    *)
(* often its URL is fetched, by however many requests at once, and across     *)
(* restarts ("Existing IDs return new=false and cannot be executed again,     *)
(* including after restart", delegation.JobStore).                            *)
WfRunsOnce == \A r \in WfRids : wfRuns[r] <= 1

(* Cleanup never frees a request a live ticket can still name: while the      *)
(* ticket is fresh the row it created is there (delegation.MinRetention).     *)
WfTicketNamesRow == WfTicketFresh /\ wfFirst # {} => wfReq.status # "none"

(* Every job a reader polls is eventually shown finished: done, failed, or    *)
(* unknown once its deadline and the grace are over, also when the relay died *)
(* under it or could not write the outcome (jobState, effectiveDeadline).     *)
WfUnsettled == \E r \in WfRids : WfJobState(r) = "running"
WfSettles == <>[]~WfUnsettled


(* A call to a device and a fetch through it (client.go, handler.go): a       *)
(* command runs where its name was resolved, a refusal means it did not run,  *)
(* and a fetch runs once.                                                     *)
CallsSafe == CdRunsWhereResolved /\ CdRejectMeansNotRun /\ WfRunsOnce /\ WfTicketNamesRow
=============================================================================
