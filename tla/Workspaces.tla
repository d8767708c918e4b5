----------------------------- MODULE Workspaces ------------------------------
(***************************************************************************)
(* Workspaces on the device (internal/agent/workspace.go): a named shell a *)
(* controller opens, runs one command at a time in, cancels and closes.    *)
(* Every handler runs on its own goroutine and the same request may be     *)
(* delivered twice, so each call is modelled step by step: the look-up in  *)
(* the map, the reservation, the wait for the owner's answer, the run, and *)
(* the tear-down that waits for the runs to end.                           *)
(***************************************************************************)
EXTENDS Naturals, FiniteSets

CONSTANTS Calls,          \* handler goroutines
          Owner,          \* Owner[c]: the controller calling
          SpaceNames,          \* workspace ids
          MaxSpaces,      \* bound: workspaces created in one behaviour
          SpaceLimit,     \* maxWorkspaces
          CommandIds,     \* request ids
          MaxLedger       \* maxWorkspaceRequests

ASSUME WorkspaceAssumption == MaxSpaces \in Nat \ {0} /\ Calls = DOMAIN Owner

VARIABLES spaceOf,        \* a.workspaces: name -> workspace number, 0 if none
          made,           \* workspaces created
          ws,             \* the workspaces
          down,           \* workspacesClosed: the device is shutting down
          call            \* the handlers: [at, w, r]

wsVars == <<spaceOf, made, ws, down, call>>

Spaces == 1 .. MaxSpaces
JobStates == {"none", "approving", "running", "done"}

WsInit ==
    /\ spaceOf = [n \in SpaceNames |-> 0] /\ made = 0 /\ down = FALSE
    /\ ws = [w \in Spaces |-> [name |-> CHOOSE n \in SpaceNames : TRUE, owner |-> "none",
                               closed |-> FALSE, stopping |-> FALSE, shell |-> FALSE,
                               active |-> {}, job |-> [r \in CommandIds |-> "none"],
                               starts |-> [r \in CommandIds |-> 0]]]
    /\ call = [c \in Calls |-> [at |-> "idle", w |-> 0, r |-> {}]]

(* stateLocked() = "open". *)
IsOpen(w) == ~ws[w].closed /\ ~ws[w].stopping /\ ws[w].shell

(* getWorkspace: the caller's own workspace of this name. *)
GetWorkspace(c, n) == {w \in {spaceOf[n]} \ {0} : ws[w].owner = Owner[c]}

(* handleWorkspace: the workspace an idle call's request is about. *)
Addressed(c, n) == IF call[c].at = "idle" THEN GetWorkspace(c, n) ELSE {}

(* The workspaces workspacesBusy and closeWorkspaces go over. *)
InMap == {spaceOf[n] : n \in SpaceNames} \ {0}

Ledger(w) == {r \in CommandIds : ws[w].job[r] # "none"}

SetCall(c, at, w, r) == call' = [call EXCEPT ![c] = [at |-> at, w |-> w, r |-> r]]

Return(c) == SetCall(c, "idle", 0, {})

(* finishLocked on a workspace record: a finished job stays as it is. *)
Finished(rec, r) ==
    IF rec.job[r] = "done" THEN rec
    ELSE [rec EXCEPT !.job[r] = "done", !.active = @ \ {r}]

(* openWorkspace: the same name and owner gives the same workspace. *)
OpenWorkspace(c, n) ==
    /\ call[c].at = "idle" /\ ~down
    /\ spaceOf[n] = 0 /\ made < MaxSpaces
    /\ Cardinality({m \in SpaceNames : spaceOf[m] # 0}) < SpaceLimit
    /\ made' = made + 1
    /\ spaceOf' = [spaceOf EXCEPT ![n] = made + 1]
    /\ ws' = [ws EXCEPT ![made + 1].name = n, ![made + 1].owner = Owner[c],
                        ![made + 1].shell = TRUE]
    /\ UNCHANGED <<down, call>>

(* reserve: a request id already in the ledger shares that job; otherwise    *)
(* the workspace must be open and idle.  The handler then waits at the gate. *)
Reserve(c, n, r) ==
    /\ \E w \in Addressed(c, n) :
          /\ ws[w].job[r] = "none"
          /\ IsOpen(w) /\ ws[w].active = {} /\ Cardinality(Ledger(w)) < MaxLedger
          /\ ws' = [ws EXCEPT ![w].job[r] = "approving", ![w].active = {r}]
          /\ SetCall(c, "gate", w, {r})
    /\ UNCHANGED <<spaceOf, made, down>>

(* Mutant: the answer starts the command without looking at the workspace    *)
(* again.                                                                    *)
MayStartBlind(w, r, ok) == ok

(* startWorkspaceCommand after the gate: the answer, and the workspace still *)
(* open under its lock.                                                      *)
MayStart(w, r, ok) == ok /\ IsOpen(w)

OwnerAnswers(c, ok) ==
    /\ call[c].at = "gate"
    /\ \E r \in call[c].r : LET w == call[c].w IN
          ws' = IF MayStart(w, r, ok)
                THEN [ws EXCEPT ![w].job[r] = "running", ![w].starts[r] = @ + 1]
                ELSE [ws EXCEPT ![w] = Finished(@, r)]
    /\ Return(c)
    /\ UNCHANGED <<spaceOf, made, down>>

(* The command's goroutine: the shell returns, by itself or because the      *)
(* context was cancelled, and the job is finished before wg.Done.            *)
RunEnds(w, r) ==
    /\ ws[w].job[r] = "running"
    /\ ws' = [ws EXCEPT ![w] = Finished(@, r)]
    /\ UNCHANGED <<spaceOf, made, down, call>>

(* The shell dies under the workspace. *)
ShellDies(w) ==
    /\ ws[w].shell /\ {r \in CommandIds : ws[w].job[r] = "running"} = {}
    /\ ws' = [ws EXCEPT ![w].shell = FALSE]
    /\ UNCHANGED <<spaceOf, made, down, call>>

(* Mutant: a cancel ends the wait for approval but leaves the workspace      *)
(* usable, so that the late answer still starts the command.                 *)
StoppedOnCancelNot(rec, r) == IF rec.job[r] = "approving" THEN Finished(rec, r) ELSE rec

(* cancel: the workspace is finished for good, a job waiting for approval    *)
(* ends here, a running one when its context is cancelled.                   *)
StoppedOnCancel(rec, r) ==
    [(IF rec.job[r] = "approving" THEN Finished(rec, r) ELSE rec) EXCEPT !.stopping = TRUE]

CancelCommand(c, n, r) ==
    /\ \E w \in Addressed(c, n) :
          /\ r \in ws[w].active
          /\ ws' = [ws EXCEPT ![w] = StoppedOnCancel(@, r)]
          /\ SetCall(c, "drain", w, {})
    /\ UNCHANGED <<spaceOf, made, down>>

(* close, first half of stop(). *)
CloseWorkspace(c, n) ==
    /\ \E w \in Addressed(c, n) :
          /\ ws' = [ws EXCEPT ![w].closed = TRUE]
          /\ SetCall(c, "leave", w, {})
    /\ UNCHANGED <<spaceOf, made, down>>

(* Mutant: the shell is closed without waiting for the command in it. *)
DrainedAtOnce(w) == TRUE

(* wg.Wait: no command of the workspace is running. *)
Drained(w) == \A r \in CommandIds : ws[w].job[r] # "running"

(* The end of cancel: the shell goes, the workspace and its ledger stay. *)
CancelDrained(c) ==
    /\ call[c].at = "drain" /\ Drained(call[c].w)
    /\ ws' = [ws EXCEPT ![call[c].w].shell = FALSE]
    /\ Return(c)
    /\ UNCHANGED <<spaceOf, made, down>>

(* The end of close: the shell goes and the name is deleted from the map,    *)
(* whatever the name stands for by now.                                      *)
CloseDrained(c) ==
    /\ call[c].at = "leave" /\ Drained(call[c].w)
    /\ ws' = [ws EXCEPT ![call[c].w].shell = FALSE]
    /\ spaceOf' = [spaceOf EXCEPT ![ws[call[c].w].name] = 0]
    /\ Return(c)
    /\ UNCHANGED <<made, down>>

(* closeWorkspaces: the map is emptied and every workspace in it stopped. *)
CloseWorkspaces ==
    /\ ~down /\ down' = TRUE
    /\ ws' = [w \in Spaces |-> IF w \in InMap THEN [ws[w] EXCEPT !.closed = TRUE] ELSE ws[w]]
    /\ spaceOf' = [n \in SpaceNames |-> 0]
    /\ UNCHANGED <<made, call>>

WsNext ==
    \/ \E c \in Calls :
          \/ \E n \in SpaceNames : OpenWorkspace(c, n) \/ CloseWorkspace(c, n)
          \/ \E n \in SpaceNames, r \in CommandIds : Reserve(c, n, r) \/ CancelCommand(c, n, r)
          \/ \E ok \in BOOLEAN : OwnerAnswers(c, ok)
          \/ CancelDrained(c) \/ CloseDrained(c)
    \/ \E w \in 1 .. made : ShellDies(w) \/ \E r \in CommandIds : RunEnds(w, r)
    \/ CloseWorkspaces

WsSpec == WsInit /\ [][WsNext]_wsVars

(* Concurrent delivery of one request shares the decision and the run: in a  *)
(* workspace a request id is started at most once, and never again after it  *)
(* was reported done, whatever approvals, cancels and closes race it.        *)
StartsOnce ==
    \A w \in Spaces, r \in CommandIds :
        /\ ws[w].starts[r] <= 1
        /\ ws[w].job[r] = "running" => ws[w].active = {r}

(* A command never runs in a shell that was closed under it: the Close at    *)
(* the end of cancel and close (w.shell.Close) comes only when nothing runs  *)
(* in it any more, and nothing starts once they have begun.  The kill that   *)
(* w.cancel() sends before is not part of this: it ends the command (RunEnds).*)
RunsInLiveShell ==
    \A w \in Spaces, r \in CommandIds : ws[w].job[r] = "running" => ws[w].shell

(* A step after cancel or close starts nothing: an approval that arrives     *)
(* late finishes the request instead.                                        *)
NothingStartsLate ==
    [][\A w \in Spaces, r \in CommandIds :
          ws[w].job[r] # "running" /\ ws'[w].job[r] = "running"
             => ws[w].job[r] = "approving" /\ ~ws[w].closed /\ ~ws[w].stopping]_wsVars

(* workspacesBusy reports "a command waiting for approval or running in a    *)
(* workspace shell", and looks only at the workspaces in the map: a running  *)
(* command's workspace is still there.                                       *)
BusySeesRuns ==
    \A w \in Spaces, r \in CommandIds :
        ws[w].job[r] = "running" => down \/ w \in InMap
=============================================================================
