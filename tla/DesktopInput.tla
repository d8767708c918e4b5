---------------------------- MODULE DesktopInput ----------------------------
(***************************************************************************)
(* One batch of desktop input on a device: Engine.Run of                   *)
(* internal/desktop/engine.go, with the Signal the input hooks latch and   *)
(* the inputState whose held keys and buttons must never outlive the run.  *)
(*                                                                         *)
(* Four parties move on their own: the engine, which plays a batch of      *)
(* actions; the goroutine that releases what is held as soon as the person *)
(* touches the machine or the controller goes away; the person; and the    *)
(* controller.  inputState.mu is taken by a press and by a release only,   *)
(* so the signal can be latched between a check and the input it allowed.  *)
(*                                                                         *)
(* An action is the sequence of steps its case of the switch makes, in     *)
(* order.  A key or button is a model value; what it types, where it       *)
(* points and what the windows are called are left out.  The operating     *)
(* system may fail any call (MaxDkFaults times): a press that fails may    *)
(* or may not have arrived.                                                *)
(***************************************************************************)
EXTENDS Naturals, Sequences, SequencesExt

CONSTANTS
  DkKeys,       \* the keys and buttons a batch presses
  DkBatch,      \* the number of actions of the batch
  MaxDkFaults   \* the calls into the operating system that fail

ASSUME DkAssumption == /\ DkKeys # {}
                       /\ DkBatch \in Nat \ {0}
                       /\ MaxDkFaults \in Nat

VARIABLES
  dkStop,     \* what the Signal and the context have latched
  dkAt,       \* where Engine.Run is
  dkTodo,     \* the steps left of the current action
  dkLeft,     \* the actions left
  dkErr,      \* the error of the current action: "" or a reason
  dkHeld,     \* inputState.held
  dkDown,     \* what the operating system has down
  dkPressing, \* the press that is between its check and SendInput: {} or {key}
  dkWatch,    \* the releasing goroutine: "armed", "done"
  dkRes,      \* the result: its status and its error
  dkSlips,    \* the inputs sent although the person's input was latched
  dkFaults    \* the failures spent

dkSignal == <<dkStop>>
dkInput == <<dkHeld, dkDown, dkPressing>>
dkRun == <<dkAt, dkTodo, dkLeft, dkErr, dkRes>>
dkVars == <<dkSignal, dkInput, dkRun, dkWatch, dkSlips, dkFaults>>

\* Signal.Check: the person first, then the monitor, then the context.
DkCheck ==
  IF "human" \in dkStop THEN "human"
  ELSE IF "monitor" \in dkStop THEN "monitor"
  ELSE IF "context" \in dkStop THEN "context" ELSE ""

DkFault == dkFaults < MaxDkFaults /\ dkFaults' = dkFaults + 1

(***************************************************************************)
(* The steps of each action.  "check" is a checkpoint (a foreground or     *)
(* target query makes one), "release" the release a failing action leaves  *)
(* to the end of the run, "letgo" the one key and drag make even then.     *)
(***************************************************************************)
DkTyped == <<"check", "press", "release", "press", "release">>
DkKeyed == <<"check", "press", "check", "press", "check", "letgo">>
DkClicked == <<"target", "send", "check", "target", "press", "check", "release">>
DkScrolled == <<"target", "send", "check", "send">>
DkDragged == <<"target", "send", "press", "check", "send", "check", "letgo">>
DkFocused == <<"check", "send", "look">>
DkRefocused == <<"check", "send", "check", "look">>
DkLaunched == <<"send", "check", "look">> \o DkFocused
DkWaited == <<"check">>

DkActions == {DkTyped, DkKeyed, DkClicked, DkScrolled, DkDragged, DkFocused,
              DkFocused \o DkRefocused, DkLaunched, DkWaited}

DkInit ==
  /\ dkStop = {} /\ dkAt = "begin" /\ dkTodo = <<>> /\ dkLeft = DkBatch /\ dkErr = ""
  /\ dkHeld = {} /\ dkDown = {} /\ dkPressing = {}
  /\ dkWatch = "none"
  /\ dkRes = [status |-> "rejected", error |-> ""]
  /\ dkSlips = 0 /\ dkFaults = 0

----------------------------------------------------------------------------
\* The person, the monitor and the controller.  stopInput joins the monitor
\* just before the result is final, so nothing is latched after "drained".
DkLatch(why) ==
  /\ dkAt \notin {"drained", "returned"} /\ why \notin dkStop
  /\ dkStop' = dkStop \union {why}
  /\ UNCHANGED <<dkInput, dkRun, dkWatch, dkSlips, dkFaults>>

DkHumanInput == DkLatch("human")
DkMonitorFails == DkLatch("monitor")
DkCancelled == DkLatch("context")

----------------------------------------------------------------------------
\* WatchInput and Begin: either may fail before any input.  The releasing
\* goroutine starts only after both.
DkBegin ==
  /\ dkAt = "begin"
  /\ \/ dkAt' = "first" /\ dkWatch' = "armed" /\ UNCHANGED <<dkRes, dkFaults>>
     \/ /\ DkFault /\ dkAt' = "drained" /\ UNCHANGED dkWatch
        /\ dkRes' = [dkRes EXCEPT !.error = "begin"]
  /\ UNCHANGED <<dkStop, dkInput, dkTodo, dkLeft, dkErr, dkSlips>>

\* fail: the status a failing action, or the wait after the last one, leaves.
DkFailed(err) ==
  [status |-> IF err = "human" THEN "interrupted" ELSE "partial", error |-> err]

\* The checkpoint before the first action.
DkFirst ==
  /\ dkAt = "first"
  /\ IF DkCheck = "" THEN dkAt' = "next" /\ UNCHANGED dkRes
     ELSE dkAt' = "closing" /\ dkRes' = DkFailed(DkCheck)
  /\ UNCHANGED <<dkSignal, dkInput, dkTodo, dkLeft, dkErr, dkWatch, dkSlips, dkFaults>>

\* The head of the loop: a checkpoint, and the action whatever it is.
DkNextAction ==
  /\ dkAt = "next" /\ dkLeft > 0
  /\ dkLeft' = dkLeft - 1
  /\ dkErr' = DkCheck
  /\ IF DkCheck = "" THEN \E a \in DkActions : dkTodo' = a /\ dkAt' = "step"
     ELSE dkTodo' = <<>> /\ dkAt' = "acted"
  /\ UNCHANGED <<dkSignal, dkInput, dkRes, dkWatch, dkSlips, dkFaults>>

\* A step has ended with err.  A failing action stops there, but for the
\* release that key makes whatever happened, and drag once it has moved to
\* its start.
DkStillLetsGo ==
  /\ Contains(Tail(dkTodo), "letgo")
  /\ Head(dkTodo) \in {"target", "send"} => ~Contains(dkTodo, "press")

DkStepEnds(err) ==
  LET rest == IF err = "" THEN Tail(dkTodo)
              ELSE IF DkStillLetsGo THEN <<"letgo">> ELSE <<>>
  IN /\ dkErr' = err
     /\ dkTodo' = rest
     /\ dkAt' = IF rest = <<>> THEN "acted" ELSE "step"

\* checkpoint, foreground, target and the window search: the signal is read
\* again after the call, and the call itself may refuse.
DkLook ==
  /\ dkAt = "step" /\ Head(dkTodo) \in {"check", "target", "look"}
  /\ \/ DkStepEnds(IF Head(dkTodo) = "check" THEN DkCheck ELSE "") /\ UNCHANGED dkFaults
     \/ DkFault /\ DkStepEnds(IF DkCheck = "" \/ Head(dkTodo) # "check" THEN "refused" ELSE DkCheck)
  /\ UNCHANGED <<dkSignal, dkInput, dkLeft, dkRes, dkWatch, dkSlips>>

\* One input that holds nothing down: Move, Wheel, Focus, Launch.
DkSlip == dkSlips' = IF "human" \in dkStop THEN dkSlips + 1 ELSE dkSlips

DkSend ==
  /\ dkAt = "step" /\ Head(dkTodo) = "send"
  /\ DkSlip
  /\ \/ DkStepEnds("") /\ UNCHANGED dkFaults
     \/ DkFault /\ DkStepEnds("refused")
  /\ UNCHANGED <<dkSignal, dkInput, dkLeft, dkRes, dkWatch>>

\* The moment inputState.held learns of a press: before SendInput.
DkRegisteredOnceSent(moment, k) ==
  IF moment = "sent" THEN dkHeld \union {k} ELSE dkHeld

DkRegistered(moment, k) ==
  IF moment = "checked" THEN dkHeld \union {k} ELSE dkHeld

\* inputState.press: under mu, the signal is checked once more ...
DkPressCheckUnread == ""

DkPressCheck == DkCheck

DkPress ==
  /\ dkAt = "step" /\ Head(dkTodo) = "press" /\ dkPressing = {}
  /\ IF DkPressCheck # ""
     THEN DkStepEnds(DkPressCheck) /\ UNCHANGED <<dkHeld, dkPressing>>
     ELSE /\ \E k \in DkKeys : dkPressing' = {k} /\ dkHeld' = DkRegistered("checked", k)
          /\ dkAt' = "pressing" /\ UNCHANGED <<dkTodo, dkErr>>
  /\ UNCHANGED <<dkSignal, dkDown, dkLeft, dkRes, dkWatch, dkSlips, dkFaults>>

\* ... and SendInput runs.  One that fails may have been delivered.
DkPressSent ==
  /\ dkAt = "pressing"
  /\ DkSlip
  /\ \E k \in dkPressing :
       \/ /\ dkDown' = dkDown \union {k} /\ dkHeld' = DkRegistered("sent", k)
          /\ DkStepEnds("") /\ UNCHANGED dkFaults
       \/ /\ DkFault /\ DkStepEnds("refused") /\ dkHeld' = DkRegistered("failed", k)
          /\ dkDown' \in {dkDown, dkDown \union {k}}
  /\ dkPressing' = {}
  /\ UNCHANGED <<dkSignal, dkLeft, dkRes, dkWatch>>

\* inputState.release, under mu: every held key goes up; one that cannot be
\* sent stays registered, and the release says so.
DkReleases ==
  /\ dkPressing = {}
  /\ \/ dkDown' = dkDown \ dkHeld /\ dkHeld' = {} /\ UNCHANGED dkFaults
     \/ /\ DkFault
        /\ \E k \in dkHeld : dkDown' = dkDown \ (dkHeld \ {k}) /\ dkHeld' = {k}
  /\ UNCHANGED dkPressing

DkReleaseFailed == IF dkHeld' = {} THEN "" ELSE "unreleased"

DkRelease ==
  /\ dkAt = "step" /\ Head(dkTodo) \in {"release", "letgo"}
  /\ DkReleases
  /\ LET kept == IF Head(dkTodo) = "letgo" THEN dkErr ELSE ""
     IN DkStepEnds(IF DkReleaseFailed = "" THEN kept ELSE DkReleaseFailed)
  /\ UNCHANGED <<dkSignal, dkLeft, dkRes, dkWatch, dkSlips>>

\* An action has ended: the signal once more, then the next action or the end.
DkActed ==
  /\ dkAt = "acted"
  /\ LET err == IF dkErr = "" THEN DkCheck ELSE dkErr
     IN /\ dkErr' = ""
        /\ IF err = "" THEN dkAt' = "next" /\ UNCHANGED dkRes
           ELSE dkAt' = "lastrelease" /\ dkRes' = DkFailed(err)
  /\ UNCHANGED <<dkSignal, dkInput, dkTodo, dkLeft, dkWatch, dkSlips, dkFaults>>

\* The last action is done: completed, unless the wait after it is disturbed.
DkSettles ==
  /\ dkAt = "next" /\ dkLeft = 0
  /\ dkRes' = IF DkCheck = "" THEN [status |-> "completed", error |-> ""]
              ELSE DkFailed(DkCheck)
  /\ dkAt' = "lastrelease"
  /\ UNCHANGED <<dkSignal, dkInput, dkTodo, dkLeft, dkErr, dkWatch, dkSlips, dkFaults>>

DkUnknown ==
  IF DkReleaseFailed = "" THEN dkRes ELSE [status |-> "unknown", error |-> "unreleased"]

DkLastRelease ==
  /\ dkAt = "lastrelease"
  /\ DkReleases
  /\ dkRes' = DkUnknown
  /\ dkAt' = "closing"
  /\ UNCHANGED <<dkSignal, dkTodo, dkLeft, dkErr, dkWatch, dkSlips>>

\* The deferred end: the releasing goroutine is joined, and whatever is still
\* held is released once more.
DkClose ==
  /\ dkAt = "closing" /\ dkWatch = "done"
  /\ DkReleases
  /\ dkRes' = DkUnknown
  /\ dkAt' = "drained"
  /\ UNCHANGED <<dkSignal, dkTodo, dkLeft, dkErr, dkWatch, dkSlips>>

\* The outermost deferred function, after the monitor has been drained: the
\* person's input overrides every result but an unknown one.
DkToldKept(res) == res

DkTold(res) ==
  IF "human" \notin dkStop THEN res
  ELSE [status |-> IF res.status = "unknown" THEN "unknown" ELSE "interrupted",
        error |-> "human"]

DkReturn ==
  /\ dkAt = "drained"
  /\ dkRes' = DkTold(dkRes)
  /\ dkAt' = "returned"
  /\ UNCHANGED <<dkSignal, dkInput, dkTodo, dkLeft, dkErr, dkWatch, dkSlips, dkFaults>>

\* The releasing goroutine: on a stop it releases, at the end of the run it
\* just ends.
DkWatchStopsBlind == "context" \in dkStop

DkWatchStops == dkStop # {}

DkWatchReleases ==
  /\ dkWatch = "armed" /\ DkWatchStops
  /\ DkReleases
  /\ dkWatch' = "done"
  /\ UNCHANGED <<dkSignal, dkRun, dkSlips>>

DkWatchEnds ==
  /\ dkWatch = "armed" /\ dkAt = "closing"
  /\ dkWatch' = "done"
  /\ UNCHANGED <<dkSignal, dkInput, dkRun, dkSlips, dkFaults>>

DkEngine == \/ DkBegin \/ DkFirst \/ DkNextAction \/ DkLook \/ DkSend \/ DkPress \/ DkPressSent
            \/ DkRelease \/ DkActed \/ DkSettles \/ DkLastRelease \/ DkClose \/ DkReturn

DkNext == DkEngine \/ DkWatchReleases \/ DkWatchEnds
          \/ DkHumanInput \/ DkMonitorFails \/ DkCancelled

\* The releasing goroutine is scheduled and SendInput is short; no other call
\* into the operating system is assumed to return.
DkLetGoSteps == DkWatchReleases \/ DkPressSent

DkSpec == DkInit /\ [][DkNext]_dkVars /\ WF_dkVars(DkLetGoSteps)

----------------------------------------------------------------------------
\* engine.go, inputState: when Run has returned nothing it pressed is still
\* down, a press that failed half way included, unless the result is
\* "unknown".
DkLetsGo == dkAt = "returned" => dkDown = {} \/ dkRes.status = "unknown"

\* engine.go, Run: once the person's input is latched at most the one input
\* whose check had already passed still goes out.
DkOneSlip == dkSlips <= 1

\* engine.go, Run's outermost defer: input by the person that the monitor saw
\* before it was joined is what the controller is told, whatever else failed.
DkHumanTold ==
  dkAt = "returned" /\ "human" \in dkStop =>
    dkRes.error = "human" /\ dkRes.status \in {"interrupted", "unknown"}

\* The three together: what a person at the machine is promised.
DkPersonFirst == DkLetsGo /\ DkOneSlip /\ DkHumanTold

\* engine.go, the releasing goroutine: a touch by the person frees every held
\* key even while the engine hangs in a launch or a foreground query, but for
\* a key whose release failed.
DkStuck == "human" \in dkStop /\ dkDown # {} /\ dkFaults = 0
DkFreed == <>[]~DkStuck
============================================================================
