---------------------------- MODULE DesktopPeers ----------------------------
(***************************************************************************)
(* desktop.Service: the desktop of one device, shared by every controller. *)
(* One call at a time holds busy, from before its approval is asked until  *)
(* its result is known; a call that finds it taken is refused, never       *)
(* queued.  An OpenCU call (internal/desktop/opencu.go) drives an engine   *)
(* connection kept per controller, with an idle timer and the latch of the *)
(* person's stop.  A batch of the older kind (service.go, store.go) spends *)
(* a screenshot.  Updates and installs take busy to close the idle         *)
(* engines, and the agent's exit closes the service.                       *)
(*                                                                         *)
(* The engine is external: it answers a call, fails, or announces that the *)
(* person made the stop gesture, during a call or between two.  An engine  *)
(* the person stopped does no work on its own account; what the service    *)
(* has to ensure is that no other engine is started in its place.          *)
(***************************************************************************)
EXTENDS Naturals, Sequences, SequencesExt

CONSTANTS
  CuKeys,       \* the controllers
  CuShotsKept,  \* snapshotsPerController
  MaxCuCalls,   \* the calls made in a behaviour
  MaxCuShots    \* the screenshots taken in a behaviour

ASSUME CuAssumption == /\ CuKeys # {} /\ CuShotsKept \in Nat \ {0}
                       /\ MaxCuCalls \in Nat /\ MaxCuShots \in Nat

VARIABLES
  cuBusy,   \* what holds Service.busy: "free", "call", "pause"
  cuNow,    \* the call that holds it
  cuPeer,   \* Service.cu: the session of each controller
  cuEngine, \* the connections started, in order: open or not, told of a stop or not
  cuShut,   \* Service.cuClosed
  cuShots,  \* Store: the screenshots kept, oldest first
  cuRuns,   \* how often each screenshot taken has been acted on
  cuOwed,   \* the controllers whose person stopped and has not been asked since
  cuCalls   \* the calls made

cuService == <<cuBusy, cuShut>>
cuSession == <<cuPeer, cuEngine>>
cuStore == <<cuShots, cuRuns>>
cuVars == <<cuService, cuNow, cuSession, cuStore, cuOwed, cuCalls>>

CuIdleCall == [at |-> "idle", key |-> "none", fresh |-> FALSE, conn |-> 0, shot |-> 0]

CuInit ==
  /\ cuBusy = "free" /\ cuShut = FALSE
  /\ cuNow = CuIdleCall
  /\ cuPeer = [k \in CuKeys |-> [conn |-> 0, stopped |-> FALSE, active |-> FALSE, gen |-> 0, timers |-> {}]]
  /\ cuEngine = <<>>
  /\ cuShots = <<>> /\ cuRuns = <<>>
  /\ cuOwed = {} /\ cuCalls = 0

----------------------------------------------------------------------------
\* Connections.  Connection 0 is none.
CuTold(n) == n # 0 /\ cuEngine[n].told

CuClosed(n) == IF n = 0 THEN cuEngine ELSE [cuEngine EXCEPT ![n].open = FALSE]

\* closeConn: the stop a connection announced outlives it.
CuCloseConnForgets(p) == [p EXCEPT !.conn = 0]

CuCloseConn(p) == [p EXCEPT !.conn = 0, !.stopped = @ \/ CuTold(p.conn)]

\* time.Timer.Stop: a timer that has fired already still waits for cuMu.
CuTimersAfterStop(k) == {{}, cuPeer[k].timers}

\* The person makes the stop gesture, whether or not a call is running.  One
\* made between a fresh approval and the start it allows is dropped there with
\* its engine (CuStart): nobody is owed a question for it.
CuPersonStops ==
  \E n \in 1..Len(cuEngine), k \in CuKeys :
    /\ cuEngine[n].open /\ ~cuEngine[n].told /\ cuPeer[k].conn = n
    /\ cuEngine' = [cuEngine EXCEPT ![n].told = TRUE]
    /\ cuOwed' = IF cuNow.at = "approved" /\ cuNow.fresh /\ cuNow.key = k
                 THEN cuOwed ELSE cuOwed \union {k}
    /\ UNCHANGED <<cuService, cuNow, cuPeer, cuStore, cuCalls>>

----------------------------------------------------------------------------
\* DoOpenCU, up to the question: the latch is read before the approval is
\* asked, and decides whether the person has to be asked directly.
CuArrive(k) ==
  /\ cuBusy = "free" /\ ~cuShut /\ cuCalls < MaxCuCalls
  /\ cuBusy' = "call" /\ cuCalls' = cuCalls + 1
  /\ \E timers \in CuTimersAfterStop(k) :
       LET stopped == cuPeer[k].stopped \/ CuTold(cuPeer[k].conn)
       IN /\ cuPeer' = [cuPeer EXCEPT ![k].active = TRUE, ![k].gen = @ + 1,
                                      ![k].timers = timers, ![k].stopped = stopped]
          /\ cuNow' = [CuIdleCall EXCEPT !.at = "asked", !.key = k, !.fresh = stopped]
  /\ UNCHANGED <<cuShut, cuEngine, cuStore, cuOwed>>

\* approve: a fresh question goes to the person; any other may be answered by
\* a rule, a late grant or bypass.
CuApprove ==
  /\ cuNow.at = "asked"
  /\ \/ /\ cuNow' = [cuNow EXCEPT !.at = "approved"]
        /\ cuOwed' = IF cuNow.fresh THEN cuOwed \ {cuNow.key} ELSE cuOwed
     \/ cuNow' = [cuNow EXCEPT !.at = "done"] /\ UNCHANGED cuOwed
  /\ UNCHANGED <<cuService, cuSession, cuStore, cuCalls>>

\* After the approval, under cuMu: the service may have closed, and the stop
\* may have come while the question was open.
CuClosedSinceUnread == FALSE

CuClosedSince == cuShut

CuStoppedSince == ~cuNow.fresh /\ CuTold(cuPeer[cuNow.key].conn)

CuRefused ==
  /\ cuNow.at = "approved"
  /\ \/ UNCHANGED cuPeer  \* closed, or the request was cancelled
     \/ /\ CuStoppedSince /\ ~CuClosedSince
        /\ cuPeer' = [cuPeer EXCEPT ![cuNow.key].stopped = TRUE]
  /\ cuNow' = [cuNow EXCEPT !.at = "done"]
  /\ UNCHANGED <<cuService, cuEngine, cuStore, cuOwed, cuCalls>>

\* The engine is reused, or started: after a stop always a new one.
CuStart ==
  /\ cuNow.at = "approved" /\ ~CuClosedSince /\ ~CuStoppedSince
  /\ LET k == cuNow.key
         old == cuPeer[k].conn
         kept == IF cuNow.fresh THEN 0 ELSE old
         closed == IF cuNow.fresh THEN CuClosed(old) ELSE cuEngine
         n == IF kept = 0 THEN Len(closed) + 1 ELSE kept
     IN \/ /\ cuEngine' = IF kept = 0 THEN Append(closed, [open |-> TRUE, told |-> FALSE]) ELSE closed
           /\ cuPeer' = [cuPeer EXCEPT ![k].conn = n, ![k].stopped = @ /\ ~cuNow.fresh]
           /\ cuNow' = [cuNow EXCEPT !.at = "doing", !.conn = n]
        \/ /\ kept = 0
           /\ cuEngine' = closed
           /\ cuPeer' = [cuPeer EXCEPT ![k].conn = 0, ![k].stopped = @ /\ ~cuNow.fresh]
           /\ cuNow' = [cuNow EXCEPT !.at = "done"]
  /\ UNCHANGED <<cuService, cuStore, cuOwed, cuCalls>>

\* conn.Do answers.  An engine that cannot be reached, or that could not be
\* started behind the helper, is closed; its stop is kept.
CuReplies == {"ok", "stopped", "start failed"}

CuAnswered ==
  /\ cuNow.at = "doing" /\ cuEngine[cuNow.conn].open
  /\ \E reply \in CuReplies :
       LET k == cuNow.key
           stop == reply = "stopped" \/ CuTold(cuNow.conn)
           p == [cuPeer[k] EXCEPT !.stopped = @ \/ stop]
       IN /\ reply = "ok" => ~CuTold(cuNow.conn)
          /\ cuOwed' = IF stop THEN cuOwed \union {k} ELSE cuOwed
          /\ IF reply = "start failed"
             THEN cuEngine' = CuClosed(cuNow.conn) /\ cuPeer' = [cuPeer EXCEPT ![k] = CuCloseConn(p)]
             ELSE cuPeer' = [cuPeer EXCEPT ![k] = p] /\ UNCHANGED cuEngine
  /\ cuNow' = [cuNow EXCEPT !.at = "done"]
  /\ UNCHANGED <<cuService, cuStore, cuCalls>>

CuLost ==
  /\ cuNow.at = "doing"
  /\ cuEngine' = CuClosed(cuNow.conn)
  /\ cuPeer' = [cuPeer EXCEPT ![cuNow.key] = CuCloseConn(@)]
  /\ cuNow' = [cuNow EXCEPT !.at = "done"]
  /\ UNCHANGED <<cuService, cuStore, cuOwed, cuCalls>>

\* The deferred end of DoOpenCU: the idle timer is set for this generation.
CuEnds ==
  /\ cuNow.at = "done"
  /\ LET k == cuNow.key
     IN cuPeer' = [cuPeer EXCEPT ![k].active = FALSE,
                                 ![k].timers = IF cuShut THEN {} ELSE @ \union {cuPeer[k].gen}]
  /\ cuNow' = CuIdleCall /\ cuBusy' = "free"
  /\ UNCHANGED <<cuShut, cuEngine, cuStore, cuOwed, cuCalls>>

\* The idle timer of generation g gets cuMu.
CuTimerCurrentAny(k, g) == TRUE

CuTimerCurrent(k, g) == cuPeer[k].gen = g /\ ~cuPeer[k].active

CuIdles ==
  \E k \in CuKeys : \E g \in cuPeer[k].timers :
    LET p == [cuPeer[k] EXCEPT !.timers = @ \ {g}]
        close == ~cuShut /\ CuTimerCurrent(k, g)
    IN /\ cuPeer' = [cuPeer EXCEPT ![k] = IF close THEN CuCloseConn(p) ELSE p]
       /\ cuEngine' = IF close THEN CuClosed(p.conn) ELSE cuEngine
       /\ UNCHANGED <<cuService, cuNow, cuStore, cuOwed, cuCalls>>

\* PauseForUpdate and TryPauseForInstall take busy; the idle engines are closed
\* under it, at once or (CloseIdleOpenCU) after the console was answered.
CuPause ==
  /\ cuBusy = "free" /\ cuBusy' = "pause"
  /\ UNCHANGED <<cuShut, cuNow, cuSession, cuStore, cuOwed, cuCalls>>

CuCloseIdle ==
  /\ cuBusy = "pause"
  /\ \E timers \in [CuKeys -> {{}} \union {cuPeer[k].timers : k \in CuKeys}] :
       /\ \A k \in CuKeys : timers[k] \in CuTimersAfterStop(k)
       /\ cuPeer' = [k \in CuKeys |-> [CuCloseConn(cuPeer[k]) EXCEPT !.timers = timers[k]]]
  /\ cuEngine' = [n \in 1..Len(cuEngine) |->
                    [cuEngine[n] EXCEPT !.open = @ /\ \A k \in CuKeys : cuPeer[k].conn # n]]
  /\ UNCHANGED <<cuService, cuNow, cuStore, cuOwed, cuCalls>>

CuResume ==
  /\ cuBusy = "pause" /\ cuBusy' = "free"
  /\ UNCHANGED <<cuShut, cuNow, cuSession, cuStore, cuOwed, cuCalls>>

\* Service.Close, on the agent's way out, waits for no call.
CuShutDown ==
  /\ ~cuShut /\ cuShut' = TRUE
  /\ cuEngine' = [n \in 1..Len(cuEngine) |->
                    [cuEngine[n] EXCEPT !.open = @ /\ \A k \in CuKeys : cuPeer[k].conn # n]]
  /\ cuPeer' = [k \in CuKeys |-> [cuPeer[k] EXCEPT !.timers = {}]]
  /\ UNCHANGED <<cuBusy, cuNow, cuStore, cuOwed, cuCalls>>

----------------------------------------------------------------------------
\* Service.Do: a screenshot, or a batch that spends one.  Store.Get marks it
\* used before the batch runs, whatever becomes of the batch.
CuSpentLater(i) == cuShots

CuSpent(i) == [cuShots EXCEPT ![i].used = TRUE]

CuShoot ==
  /\ cuBusy = "free" /\ Len(cuRuns) < MaxCuShots
  /\ cuBusy' = "call" /\ cuNow' = [CuIdleCall EXCEPT !.at = "shooting"]
  /\ UNCHANGED <<cuShut, cuSession, cuStore, cuOwed, cuCalls>>

\* Store.Put: what has expired goes, then the oldest beyond the limit.
CuPut(expired) ==
  LET kept == SubSeq(cuShots, expired + 1, Len(cuShots))
      all == Append(kept, [id |-> Len(cuRuns) + 1, used |-> FALSE])
  IN SubSeq(all, IF Len(all) > CuShotsKept THEN Len(all) - CuShotsKept + 1 ELSE 1, Len(all))

\* The helper's result, which carries a new screenshot unless it failed.
CuPhotographed ==
  \/ /\ Len(cuRuns) < MaxCuShots /\ cuRuns' = Append(cuRuns, 0)
     /\ \E expired \in 0..Len(cuShots) : cuShots' = CuPut(expired)
  \/ UNCHANGED cuStore

CuShot ==
  /\ cuNow.at = "shooting"
  /\ CuPhotographed
  /\ cuNow' = CuIdleCall /\ cuBusy' = "free"
  /\ UNCHANGED <<cuShut, cuSession, cuOwed, cuCalls>>

\* A batch, or a copy of one delivered again: refused unless its screenshot is
\* kept and unused.
CuAct(i) ==
  /\ cuBusy = "free" /\ i <= Len(cuShots) /\ ~cuShots[i].used
  /\ cuBusy' = "call" /\ cuNow' = [CuIdleCall EXCEPT !.at = "acting", !.shot = cuShots[i].id]
  /\ cuShots' = CuSpent(i)
  /\ cuRuns' = [cuRuns EXCEPT ![cuShots[i].id] = @ + 1]
  /\ UNCHANGED <<cuShut, cuSession, cuOwed, cuCalls>>

CuActed ==
  /\ cuNow.at = "acting"
  /\ CuPhotographed
  /\ cuNow' = CuIdleCall /\ cuBusy' = "free"
  /\ UNCHANGED <<cuShut, cuSession, cuOwed, cuCalls>>

CuNext ==
  \/ \E k \in CuKeys : CuArrive(k)
  \/ CuApprove \/ CuRefused \/ CuStart \/ CuAnswered \/ CuLost \/ CuEnds
  \/ CuIdles \/ CuPause \/ CuCloseIdle \/ CuResume \/ CuShutDown \/ CuPersonStops
  \/ CuShoot \/ CuShot \/ CuActed
  \/ \E i \in 1..CuShotsKept : CuAct(i)

CuSpec == CuInit /\ [][CuNext]_cuVars

----------------------------------------------------------------------------
\* opencu.go, closeConn and DoOpenCU: after the person stopped OpenCU no call
\* runs on an engine that does not know of the stop until the person has been
\* asked again, through idle closes, lost connections, updates and restarts of
\* the engine.  Except a stop made after the person gave a fresh approval and
\* before the call it allows has started: DoOpenCU drops it with the old engine.
CuStopHolds ==
  cuNow.at = "doing" /\ cuNow.key \in cuOwed => CuTold(cuNow.conn)

\* opencu.go, DoOpenCU against Service.Close: an engine that runs belongs to a
\* session the service still closes; a call approved after the close starts none.
CuNoOrphan ==
  \A n \in 1..Len(cuEngine) :
    cuEngine[n].open => ~cuShut /\ \E k \in CuKeys : cuPeer[k].conn = n

\* opencu.go, the idle timer: the engine a call is using is closed by the
\* agent's exit or by the call itself, never by the timer of an earlier call.
CuCallKeepsEngine ==
  cuNow.at = "doing" => cuEngine[cuNow.conn].open \/ cuShut

\* store.go, Store: a screenshot starts at most one batch, however often the
\* batch is delivered and whatever became of it.
CuActsOnce == \A s \in 1..Len(cuRuns) : cuRuns[s] <= 1

\* The four together: what the desktop service promises.
CuServiceSafe == CuStopHolds /\ CuNoOrphan /\ CuCallKeepsEngine /\ CuActsOnce
============================================================================
