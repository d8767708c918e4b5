----------------------------- MODULE RequestLoop -----------------------------
(***************************************************************************)
(* One controller session on the device: the loop that reads requests      *)
(* (internal/agent/agent.go serveAuthorized), the checks each request      *)
(* passes, and the read a running command keeps on the connection so that  *)
(* it notices a cancel or a controller that left (watchPeer).  The         *)
(* controller is modelled from internal/client/client.go: one request at a *)
(* time, a cancel while it waits, a hang-up at any time.                   *)
(***************************************************************************)
EXTENDS Naturals, Sequences

CONSTANTS MaxSent,        \* bound: messages of the controller
          CapabilitySets  \* the capability sets sessions are opened with

VARIABLES scope,          \* what the session was opened for
          caps,           \* sessionauth.Capabilities
          valid,          \* the delegation or the workspace access still stands
          wire,           \* messages on the connection: [n, kind]
          sent, closed,   \* messages sent; the controller hung up
          awaiting,       \* the controller waits for an answer
          replies,        \* answers on their way to the controller
          loop,           \* [at, m]: the loop and the request it serves
          watch,          \* watchPeer: [at, m]
          stop,           \* the running command's context is cancelled
          handled,        \* numbers of the messages the loop took, in order
          acted           \* requests that reached the device: [n, kind]

loopVars == <<scope, caps, valid, wire, sent, closed, awaiting, replies,
              loop, watch, stop, handled, acted>>

ScopeKinds   == {"plain", "delegated", "scoped", "workspace"}
RequestKinds == {"exec", "oneshot", "async", "poll", "read", "write", "logs", "status",
                 "wsexec", "wsfile", "other"}
NoMessage    == [n |-> 0, kind |-> "none"]
HungUp       == [n |-> 0, kind |-> "end"]

LoopInit ==
    /\ scope \in ScopeKinds /\ caps \in CapabilitySets /\ valid = TRUE
    /\ wire = <<>> /\ sent = 0 /\ closed = FALSE /\ awaiting = FALSE /\ replies = 0
    /\ loop = [at |-> "read", m |-> NoMessage]
    /\ watch = [at |-> "none", m |-> NoMessage]
    /\ stop = FALSE /\ handled = <<>> /\ acted = {}

(* Mutant: a file request wrapped in a workspace request is let through like *)
(* the workspace's own control requests.                                     *)
RequiredUnwrapped(k) == CASE k \in {"exec", "oneshot", "async", "poll", "wsexec"} -> {"exec"}
                          [] k = "read" -> {"read"}
                          [] k = "write" -> {"write"}
                          [] k = "logs" -> {"logs"}
                          [] OTHER -> {}

(* requiredCapability; a workspace command needs exec, a wrapped file        *)
(* request whatever the file request needs (handleWorkspace).                *)
Required(k) == CASE k \in {"exec", "oneshot", "async", "poll", "wsexec"} -> {"exec"}
                 [] k = "read" -> {"read"}
                 [] k \in {"write", "wsfile"} -> {"write"}
                 [] k = "logs" -> {"logs"}
                 [] OTHER -> {}

(* The checks of serveAuthorized in their order: "close" ends the session,   *)
(* "reject" answers and goes on.                                             *)
Checked(k) ==
    IF scope = "workspace" /\ (k \notin {"wsexec", "wsfile"} \/ ~valid) THEN "close"
    ELSE IF scope \in {"delegated", "scoped"} /\ ~valid THEN "close"
    ELSE IF scope = "scoped" /\ k \notin {"oneshot", "cancel"} THEN "reject"
    ELSE IF scope \in {"delegated", "scoped"}
              /\ k \in {"exec", "async", "poll", "wsexec", "wsfile"} THEN "reject"
    ELSE IF ~(Required(k) \subseteq caps) THEN "reject"
    ELSE IF k = "other" THEN "close"
    ELSE IF k = "cancel" THEN "ignore"
    ELSE IF k \in {"poll", "status"} THEN "act" ELSE "gate"

(* A request that goes through the gate is one more check away from acting. *)
StillStands == scope = "plain" \/ valid

TakeNext(m) == handled' = Append(handled, m.n)

Answered == replies' = replies + 1

(* What the loop does with a message it took. *)
Dispatch(m) ==
    LET verdict == Checked(m.kind) IN
    /\ TakeNext(m)
    /\ loop' = CASE verdict = "close" -> [at |-> "closed", m |-> NoMessage]
                 [] verdict = "gate"  -> [at |-> "gate", m |-> m]
                 [] OTHER -> [at |-> "read", m |-> NoMessage]
    /\ acted' = IF verdict = "act" THEN acted \cup {m} ELSE acted
    /\ IF verdict \in {"gate", "ignore"} THEN UNCHANGED replies ELSE Answered

LoopEnds == loop' = [at |-> "closed", m |-> NoMessage] /\ UNCHANGED <<handled, replies, acted>>

(* The next message comes from the read a command left behind, or from the   *)
(* connection when no such read is in flight.                                *)
TakeFromWatch ==
    /\ loop.at = "read" /\ watch.at = "holds"
    /\ watch' = [at |-> "none", m |-> NoMessage]
    /\ IF watch.m = HungUp THEN LoopEnds ELSE Dispatch(watch.m)
    /\ UNCHANGED <<scope, caps, valid, wire, sent, closed, awaiting, stop>>

(* Mutant: the loop reads the connection although a read is in flight. *)
ReadFree == TRUE

(* The loop owns the connection's read side. *)
ReadOwned == watch.at = "none"

TakeFromWire ==
    /\ loop.at = "read" /\ ReadOwned
    /\ \/ /\ wire # <<>> /\ wire' = Tail(wire) /\ Dispatch(Head(wire))
       \/ /\ wire = <<>> /\ closed /\ LoopEnds /\ UNCHANGED wire
    /\ UNCHANGED <<scope, caps, valid, sent, closed, awaiting, watch, stop>>

(* Mutant: a command starts without a read on the connection. *)
StartWatchNone == watch' = watch

(* doExecAuthorized starts its watch just before it runs the command. *)
StartWatch == watch' = [at |-> "reads", m |-> NoMessage]

(* The gate's answer, and the check after it. *)
GateAnswers(ok) ==
    /\ loop.at = "gate"
    /\ IF ok /\ StillStands
       THEN /\ acted' = acted \cup {loop.m}
            /\ IF loop.m.kind \in {"exec", "oneshot"}
               THEN /\ loop' = [loop EXCEPT !.at = "run"]
                    /\ StartWatch /\ stop' = FALSE /\ UNCHANGED replies
               ELSE /\ loop' = [at |-> "read", m |-> NoMessage] /\ Answered
                    /\ UNCHANGED <<watch, stop>>
       ELSE /\ loop' = [at |-> "read", m |-> NoMessage] /\ Answered
            /\ UNCHANGED <<watch, stop, acted>>
    /\ UNCHANGED <<scope, caps, valid, wire, sent, closed, awaiting, handled>>

(* watchPeer: its one read, which it hands to the loop; a cancel or the end  *)
(* of the stream also cancels the command's context, if one still runs.      *)
WatchReads ==
    /\ watch.at = "reads"
    /\ \E m \in IF wire # <<>> THEN {Head(wire)} ELSE IF closed THEN {HungUp} ELSE {} :
          /\ watch' = [at |-> "holds", m |-> m]
          /\ stop' = (m.kind \in {"cancel", "end"})
    /\ wire' = IF wire # <<>> THEN Tail(wire) ELSE wire
    /\ UNCHANGED <<scope, caps, valid, sent, closed, awaiting, replies, loop, handled, acted>>

(* The command ends: by itself, or killed because its context was cancelled. *)
CommandOver ==
    /\ loop.at = "run"
    /\ loop' = [at |-> "read", m |-> NoMessage] /\ Answered /\ stop' = FALSE
    /\ UNCHANGED <<scope, caps, valid, wire, sent, closed, awaiting, watch, handled, acted>>

CommandFinishes == CommandOver
CommandKilled   == stop /\ CommandOver

(* The controller: client.go writes one request, then reads its answer. *)
Put(k) == wire' = Append(wire, [n |-> sent + 1, kind |-> k]) /\ sent' = sent + 1

SendRequest(k) ==
    /\ ~closed /\ ~awaiting /\ sent < MaxSent /\ Put(k) /\ awaiting' = TRUE
    /\ UNCHANGED <<scope, caps, valid, closed, replies, loop, watch, stop, handled, acted>>

SendCancel ==
    /\ ~closed /\ awaiting /\ sent < MaxSent /\ Put("cancel")
    /\ UNCHANGED <<scope, caps, valid, closed, awaiting, replies, loop, watch, stop, handled, acted>>

ReadAnswer ==
    /\ awaiting /\ replies > 0 /\ replies' = replies - 1 /\ awaiting' = FALSE
    /\ UNCHANGED <<scope, caps, valid, wire, sent, closed, loop, watch, stop, handled, acted>>

HangUp ==
    /\ ~closed /\ closed' = TRUE
    /\ UNCHANGED <<scope, caps, valid, wire, sent, awaiting, replies, loop, watch, stop, handled, acted>>

AccessEnds ==
    /\ valid /\ scope # "plain" /\ valid' = FALSE
    /\ UNCHANGED <<scope, caps, wire, sent, closed, awaiting, replies, loop, watch, stop, handled, acted>>

DeviceStep == \/ TakeFromWatch \/ TakeFromWire \/ WatchReads \/ CommandKilled
              \/ \E ok \in BOOLEAN : GateAnswers(ok)

LoopNext == \/ DeviceStep \/ CommandFinishes \/ ReadAnswer \/ HangUp \/ AccessEnds \/ SendCancel
            \/ \E k \in RequestKinds : SendRequest(k)

(* The gate always answers (its wait is bounded), a read returns, and a      *)
(* killed command ends; a command need not end by itself.                    *)
LoopSpec == LoopInit /\ [][LoopNext]_loopVars /\ WF_loopVars(DeviceStep)

(* watchPeer: the loop and a command's watch never read the same message or  *)
(* overtake each other, so messages are served in the order they were sent,  *)
(* each once, also when a cancel crosses the answer of its own command.      *)
ServedInOrder == \A i \in 1 .. Len(handled) : handled[i] = i

(* A session does no more than it was opened for, whichever way a request is *)
(* wrapped: a scoped token its one-shot command only, a delegation nothing   *)
(* that outlives the request, and no session a capability it lacks.          *)
WithinScope ==
    \A m \in acted :
        /\ scope = "scoped" => m.kind = "oneshot"
        /\ scope = "delegated" => m.kind \notin {"exec", "async", "poll", "wsexec", "wsfile"}
        /\ scope = "workspace" => m.kind \in {"wsexec", "wsfile"}
        /\ m.kind \in {"write", "wsfile"} => "write" \in caps
        /\ m.kind \in {"exec", "oneshot", "async", "poll", "wsexec"} => "exec" \in caps

(* A controller that goes away in the middle of a command ends it: the       *)
(* device does not keep running a command nobody is left to read, even one   *)
(* that would never end by itself.                                           *)
LeftRunning == closed /\ loop.at # "closed"
HangUpEndsCommand == <>[]~LeftRunning
=============================================================================
