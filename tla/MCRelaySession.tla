--------------------------- MODULE MCRelaySession ---------------------------
(***************************************************************************)
(* The tunnel's safety for TLC, in two parts; a behaviour is one of them.   *)
(*                                                                         *)
(* "session": a session that the relay neither sweeps nor cuts short, which *)
(* leaves room to search with an abandoned poll beside a live one.          *)
(*                                                                         *)
(* "window": the read half (DownChannel) of a connection whose carrier      *)
(* holds and that neither side ends, with a window wide enough to meet      *)
(* chunks larger than it asks for.  It has what DownChannel's Spec leaves   *)
(* out: the relay may remove the session under its polls.                   *)
(***************************************************************************)
EXTENDS RelaySession

CONSTANTS WideBytes, WideWindow, WidePolls   \* the bounds of the window part

VARIABLES part,
          pushed, ch, head, wideDone, gone, seq, wideAssigned, widePolls,
          ackSeq, ackable, downWindow, downMax, batch, received, ended, faults

Down == INSTANCE DownChannel WITH
          MaxBytes <- WideBytes, MaxChunk <- 2, Window <- WideWindow, PollAttempts <- 2,
          DownMaxFloor <- 1, DownMaxCeiling <- 2, BatchMax <- 2, Agent <- TRUE,
          LaneZeroMax <- 1, MaxPolls <- WidePolls, MaxFaults <- 0,
          qdone <- wideDone, assigned <- wideAssigned, polls <- widePolls

readVars == <<pushed, ch, head, wideDone, gone, seq, wideAssigned, widePolls,
              ackSeq, ackable, downWindow, downMax, batch, received, ended, faults>>
tunnelVars == <<part, vars, readVars>>

GracefulNext == PollWork \/ HandlerWork \/ DeviceGone \/ EndsStep

WindowNext ==
  Down!RelayWork \/ Down!ReaderWork \/ Down!SessionGone \/ \E n \in 1..2 : Down!Push(n)

TunnelInit ==
  /\ part \in {"session", "window"}
  /\ Init /\ Down!Init /\ downWindow = (part = "window")

TunnelNext ==
  \/ part = "session" /\ GracefulNext /\ UNCHANGED <<part, readVars>>
  \/ part = "window" /\ WindowNext /\ UNCHANGED <<part, vars>>

TunnelSpec == TunnelInit /\ [][TunnelNext]_tunnelVars

\* httpconn.go, startBatch to nextBatchResult: while a window is open a poll for
\* the number Read waits for is under way or answered, whatever sizes the relay
\* serves and whether the session is still there.
WindowHasNext == Down!WindowHasNext
=============================================================================
