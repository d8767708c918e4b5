---------------------------- MODULE MCTunnelLive ----------------------------
(***************************************************************************)
(* The tunnel's timers, sweeper and byte account for TLC, under fairness.   *)
(* A behaviour is one of four parts: the controller's grace period          *)
(* ("grace"), a session until it leaves the registry, with the sweeper and  *)
(* every way the relay ends one ("session"), the account several sessions   *)
(* draw on ("account"), and the batches of one writer ("batch").            *)
(***************************************************************************)
EXTENDS ControllerGrace, ByteAccount, WriteBatch

VARIABLES part,
          sesGoneBy, closedAt, endReason, endTold, sesSent, taken, assigned, qdone, freed,
          polls, closer, scan, ender, side, recv, saw

Session == INSTANCE RelaySession WITH
             MaxSent <- 1, MaxPolls <- 1, goneBy <- sesGoneBy, sent <- sesSent

sessionVars == <<sesGoneBy, closedAt, endReason, endTold, sesSent, taken, assigned, qdone, freed,
                 polls, closer, scan, ender, side, recv, saw>>
tunnelVars == <<part, vars, sessionVars, baVars, wbVars>>

TunnelInit ==
  /\ part \in {"grace", "session", "account", "batch"}
  /\ Init /\ Session!Init /\ BaInit /\ WbInit

InGrace(A) == part = "grace" /\ A /\ UNCHANGED <<part, sessionVars, baVars, wbVars>>
InSession(A) == part = "session" /\ Session!Registered /\ A /\ UNCHANGED <<part, vars, baVars, wbVars>>
InAccount(A) == part = "account" /\ A /\ UNCHANGED <<part, vars, sessionVars, wbVars>>
InBatch(A) == part = "batch" /\ A /\ UNCHANGED <<part, vars, sessionVars, baVars>>

TunnelNext ==
  InGrace(Next) \/ InSession(Session!Next) \/ InAccount(BaNext) \/ InBatch(WbNext)

\* Handlers, timers and the sweeper run; nothing makes an end poll, send, read or
\* close, or a writer give up, so nothing of the account is fair.
TunnelWork ==
  \/ InGrace(HandlerWork)
  \/ InSession(Session!PollWork \/ Session!HandlerWork \/ Session!Reap)
  \/ InBatch(WbTimerSteps)

TunnelSpec == TunnelInit /\ [][TunnelNext]_tunnelVars /\ WF_tunnelVars(TunnelWork)

\* relay/http.go, reapHTTP: a session both ends have left is forgotten, whatever
\* was under way when they left.  relay/http_disconnect.go: a grace period ends,
\* with a poll or with the session.
\* httpconn.go: what was written goes out with nothing more to push it.
TunnelSettles ==
  <>[]~(Session!LeftBehind \/ InGracePeriod \/ WbWaits)
=============================================================================
