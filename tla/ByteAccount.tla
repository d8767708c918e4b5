----------------------------- MODULE ByteAccount -----------------------------
(***************************************************************************)
(* The relay's account of the bytes its HTTP tunnel holds                  *)
(* (internal/relay/resident.go, and the reservations sideQueue makes from  *)
(* it in internal/relay/http.go).  An upload is counted before its body is *)
(* read: against its direction, against the namespace that dialled and     *)
(* against the whole relay.  One that finds no room waits on the channel   *)
(* of the level that was full, and looks again when bytes come back there. *)
(*                                                                         *)
(* Bytes are counted in units, BaLargest of them the largest upload.  An   *)
(* upload is one request; a retry is another request with the same         *)
(* sequence number, at work beside the first or after it.  Which bytes a   *)
(* poll takes is DownChannel's: here it takes some of what is queued, and  *)
(* an acknowledgement lets go of some of what was taken.                   *)
(***************************************************************************)
EXTENDS Naturals, FiniteSets

CONSTANTS
  BaReqs,      \* the uploads, retries among them
  BaQueues,    \* the directions
  BaSpaces,    \* the namespaces
  BaExempt,    \* no namespace: a direction charged to the relay alone
  BaSeqs,      \* the sequence numbers; 0 is a writer that does not number
  BaSizes,     \* the sizes an upload declares, BaLargest for one that declares none
  BaLargest,   \* maxUploadBytes, in units
  BaPerQueue,  \* maxResidentPerDirection
  BaPerSpace,  \* maxResidentPerNamespace
  BaTotal,     \* maxResidentTotal
  BaSlots      \* queueChunks

ASSUME BaAssumption ==
  /\ IsFiniteSet(BaReqs) /\ IsFiniteSet(BaQueues) /\ BaQueues # {}
  /\ BaExempt \notin BaSpaces
  /\ BaSeqs \subseteq Nat
  /\ \A limit \in {BaLargest, BaPerQueue, BaPerSpace, BaTotal, BaSlots} : limit \in Nat
  /\ BaSizes \subseteq 0..BaLargest

VARIABLES
  baState,  \* each direction: "none", "open", "closed" (done) or "freed"
  baSpace,  \* the namespace it is charged to
  baRes,    \* sideQueue.resident
  baSlots,  \* sideQueue.slots
  baNext,   \* seqNext
  baAt,     \* each upload: how far it is
  baOn,     \* its direction
  baSeq,    \* its sequence number
  baRoom,   \* the units it asks for, then those it is counted with
  baAhead,  \* whether it found itself ahead of the stream
  baShare,  \* residency.ns: the count and the references of each namespace
  baUsed    \* residency.used

baQueue == <<baState, baSpace, baRes, baSlots, baNext>>
baUpload == <<baAt, baOn, baSeq, baRoom, baAhead>>
baResidency == <<baShare, baUsed>>
baVars == <<baQueue, baUpload, baResidency>>

BaPlaces ==
  {"new", "looking", "asking", "waitQueue", "waitPool",
   "holding",    \* admitted, its body being read
   "held",       \* in seqHeld, ahead of the stream
   "queued",     \* in ch
   "out",        \* taken by a poll, or the rest of it in head
   "answered"}   \* nothing of it is left

BaInit ==
  /\ baState = [q \in BaQueues |-> "none"] /\ baSpace = [q \in BaQueues |-> BaExempt]
  /\ baRes = [q \in BaQueues |-> 0] /\ baSlots = [q \in BaQueues |-> 0]
  /\ baNext = [q \in BaQueues |-> 1]
  /\ baAt = [r \in BaReqs |-> "new"] /\ baOn = [r \in BaReqs |-> CHOOSE q \in BaQueues : TRUE]
  /\ baSeq = [r \in BaReqs |-> 0] /\ baRoom = [r \in BaReqs |-> 0]
  /\ baAhead = [r \in BaReqs |-> FALSE]
  /\ baShare = [n \in BaSpaces |-> [used |-> 0, refs |-> 0]] /\ baUsed = 0

----------------------------------------------------------------------------
\* join and leave: a namespace's share goes with its last direction.
BaJoined(n) == [baShare EXCEPT ![n].refs = @ + 1]

BaLeft(share, n) ==
  [share EXCEPT ![n] = IF @.refs = 1 THEN [used |-> 0, refs |-> 0]
                         ELSE [used |-> @.used, refs |-> @.refs - 1]]

\* attach: a direction of a new session, charged to namespace n or to none.
BaOpen(q, n) ==
  /\ baState[q] = "none"
  /\ baState' = [baState EXCEPT ![q] = "open"]
  /\ baSpace' = [baSpace EXCEPT ![q] = n]
  /\ baShare' = IF n = BaExempt THEN baShare ELSE BaJoined(n)
  /\ UNCHANGED <<baRes, baSlots, baNext, baUpload, baUsed>>

\* release on the relay's account: the count goes down at both levels.
BaReturned(q, n) ==
  /\ baUsed' = baUsed - n
  /\ baShare' = IF baSpace[q] = BaExempt THEN baShare
                ELSE [baShare EXCEPT ![baSpace[q]].used = @ - n]

\* wakeLocked and release: a closed channel sends who waits on it to look again,
\* an upload without a number straight to asking.
BaLookAgain(at, woken) ==
  [r \in BaReqs |-> IF r \notin woken THEN at[r]
                    ELSE IF baSeq[r] = 0 THEN "asking" ELSE "looking"]

BaOnQueue(q) == {r \in BaReqs : baAt[r] = "waitQueue" /\ baOn[r] = q}

BaOnPool == {r \in BaReqs : baAt[r] = "waitPool"}

BaFreedUnread(q) == FALSE

BaFreed(q) == baState[q] = "freed"

\* releaseLocked: n bytes and s slots of direction q come back, and nothing once
\* it was freed.  at is what becomes of the uploads, and stream says whether the
\* caller wakes the direction's writers in any case.
BaReleased(q, n, s, at, stream) ==
  IF BaFreed(q) \/ (n = 0 /\ s = 0)
  THEN /\ baAt' = BaLookAgain(at, IF stream THEN BaOnQueue(q) ELSE {})
       /\ UNCHANGED <<baRes, baSlots, baResidency>>
  ELSE /\ baRes' = [baRes EXCEPT ![q] = @ - n]
       /\ baSlots' = [baSlots EXCEPT ![q] = @ - s]
       /\ baAt' = BaLookAgain(at, BaOnQueue(q) \union (IF n = 0 THEN {} ELSE BaOnPool))
       /\ BaReturned(q, n)

\* keepLocked: upload r turned out to carry used of the units it was promised.
BaKept(r, used, at, stream) ==
  BaReleased(baOn[r], baRoom[r] - used, IF baRoom[r] > 0 /\ used = 0 THEN 1 ELSE 0, at, stream)

----------------------------------------------------------------------------
\* acceptUpload: an upload for a session in the registry.  admitSeq starts with
\* where the stream is, reserve asks at once.
BaArrive(r, q, i, n) ==
  /\ baAt[r] = "new" /\ baState[q] \in {"open", "closed"}
  /\ baAt' = [baAt EXCEPT ![r] = IF i = 0 THEN "asking" ELSE "looking"]
  /\ baOn' = [baOn EXCEPT ![r] = q] /\ baSeq' = [baSeq EXCEPT ![r] = i]
  /\ baRoom' = [baRoom EXCEPT ![r] = n]
  /\ UNCHANGED <<baQueue, baAhead, baResidency>>

BaHeld(q) == {r \in BaReqs : baAt[r] = "held" /\ baOn[r] = q}

\* seqWindowLocked.
BaWindow == IF BaPerQueue \div BaLargest > 3 THEN BaPerQueue \div BaLargest - 2 ELSE 1

\* A write already taken, by another request for it.
BaRepeat(r) ==
  baSeq[r] < baNext[baOn[r]] \/ \E h \in BaHeld(baOn[r]) : baSeq[h] = baSeq[r]

\* admitSeq reads seqNext and seqHeld, and lets go of seqMu before it asks.
BaLook(r) ==
  /\ baAt[r] = "looking"
  /\ LET next == baNext[baOn[r]]
         refused == BaRepeat(r) \/ baSeq[r] > next + BaWindow
     IN /\ baAt' = [baAt EXCEPT ![r] = IF refused THEN "answered" ELSE "asking"]
        /\ baAhead' = [baAhead EXCEPT ![r] = baSeq[r] > next]
  /\ UNCHANGED <<baQueue, baOn, baSeq, baRoom, baResidency>>

\* reserveLocked's two questions: room in the direction, and on the relay's
\* account with reserve.
BaSpare(r) == IF baAhead[r] THEN BaLargest ELSE 0

BaQueueFull(r) ==
  \/ baRes[baOn[r]] + baRoom[r] + BaSpare(r) > BaPerQueue
  \/ baSlots[baOn[r]] + 1 + (IF baAhead[r] THEN 1 ELSE 0) > BaSlots

BaPoolFull(r) ==
  \/ baUsed + baRoom[r] + BaSpare(r) > BaTotal
  \/ /\ baSpace[baOn[r]] # BaExempt
     /\ baShare[baSpace[baOn[r]]].used + baRoom[r] + BaSpare(r) > BaPerSpace

\* tryReserve and reserveLocked.
BaGoes(r, place) == baAt' = [baAt EXCEPT ![r] = place]

BaRefuse(r) ==
  /\ baAt[r] = "asking" /\ baState[baOn[r]] # "open"
  /\ BaGoes(r, "answered")
  /\ UNCHANGED <<baQueue, baOn, baSeq, baRoom, baAhead, baResidency>>

BaEmpty(r) ==
  /\ baAt[r] = "asking" /\ baState[baOn[r]] = "open" /\ baRoom[r] = 0
  /\ BaGoes(r, "holding")
  /\ UNCHANGED <<baQueue, baOn, baSeq, baRoom, baAhead, baResidency>>

BaWait(r) ==
  /\ baAt[r] = "asking" /\ baState[baOn[r]] = "open" /\ baRoom[r] > 0
  /\ \/ BaQueueFull(r) /\ BaGoes(r, "waitQueue")
     \/ ~BaQueueFull(r) /\ BaPoolFull(r) /\ BaGoes(r, "waitPool")
  /\ UNCHANGED <<baQueue, baOn, baSeq, baRoom, baAhead, baResidency>>

BaReserve(r) ==
  LET q == baOn[r]
  IN /\ baAt[r] = "asking" /\ baState[q] = "open" /\ baRoom[r] > 0
     /\ ~BaQueueFull(r) /\ ~BaPoolFull(r)
     /\ BaGoes(r, "holding")
     /\ baRes' = [baRes EXCEPT ![q] = @ + baRoom[r]]
     /\ baSlots' = [baSlots EXCEPT ![q] = @ + 1]
     /\ baUsed' = baUsed + baRoom[r]
     /\ baShare' = IF baSpace[q] = BaExempt THEN baShare
                   ELSE [baShare EXCEPT ![baSpace[q]].used = @ + baRoom[r]]
     /\ UNCHANGED <<baState, baSpace, baNext, baOn, baSeq, baRoom, baAhead>>

\* await: the writer gives up, or the direction closes under it.
BaGiveUp(r) ==
  /\ baAt[r] \in {"waitQueue", "waitPool"}
  /\ BaGoes(r, "answered")
  /\ UNCHANGED <<baQueue, baOn, baSeq, baRoom, baAhead, baResidency>>

\* unreserve: the body did not arrive.
BaUnreserve(r) ==
  /\ baAt[r] = "holding"
  /\ BaKept(r, 0, [baAt EXCEPT ![r] = "answered"], FALSE)
  /\ baRoom' = [baRoom EXCEPT ![r] = 0]
  /\ UNCHANGED <<baState, baSpace, baNext, baOn, baSeq, baAhead>>

----------------------------------------------------------------------------
\* enqueue and commitSeq, with the body read.
\* A closed direction, or a write that another request brought meanwhile: the
\* room goes back.
BaTurnAway(r) ==
  /\ baAt[r] = "holding"
  /\ baState[baOn[r]] # "open" \/ (baSeq[r] # 0 /\ BaRepeat(r))
  /\ BaKept(r, 0, [baAt EXCEPT ![r] = "answered"], FALSE)
  /\ baRoom' = [baRoom EXCEPT ![r] = 0]
  /\ UNCHANGED <<baState, baSpace, baNext, baOn, baSeq, baAhead>>

\* Ahead of the stream: into seqHeld.
BaHold(r, used) ==
  /\ baAt[r] = "holding" /\ baState[baOn[r]] = "open" /\ used <= baRoom[r]
  /\ baSeq[r] > baNext[baOn[r]] /\ ~BaRepeat(r)
  /\ BaKept(r, used, [baAt EXCEPT ![r] = "held"], FALSE)
  /\ baRoom' = [baRoom EXCEPT ![r] = used]
  /\ UNCHANGED <<baState, baSpace, baNext, baOn, baSeq, baAhead>>

\* In its place: into ch, and with a number everything that was held behind it
\* too, after which the direction's writers look again.
BaPlaced(room) == IF room > 0 THEN "queued" ELSE "answered"

BaAfter(q, i) ==
  CHOOSE k \in (i + 1)..(i + 1 + Cardinality(BaHeld(q))) :
    /\ \A h \in BaHeld(q) : baSeq[h] # k
    /\ \A j \in (i + 1)..(k - 1) : \E h \in BaHeld(q) : baSeq[h] = j

BaEnqueue(r, used) ==
  LET q == baOn[r]
      next == IF baSeq[r] = 0 THEN baNext[q] ELSE BaAfter(q, baSeq[r])
      at == [h \in BaReqs |->
               IF h = r THEN BaPlaced(used)
               ELSE IF h \in BaHeld(q) /\ baSeq[h] < next THEN BaPlaced(baRoom[h])
               ELSE baAt[h]]
  IN /\ baAt[r] = "holding" /\ baState[q] = "open" /\ used <= baRoom[r]
     /\ baSeq[r] = 0 \/ baSeq[r] = baNext[q]
     /\ BaKept(r, used, at, baSeq[r] # 0)
     /\ baRoom' = [baRoom EXCEPT ![r] = used]
     /\ baNext' = [baNext EXCEPT ![q] = next]
     /\ UNCHANGED <<baState, baSpace, baOn, baSeq, baAhead>>

----------------------------------------------------------------------------
\* drainUpTo: a poll takes uploads out of ch and their slots come back.
BaDrain(q, taken) ==
  /\ taken # {} /\ \A r \in taken : baAt[r] = "queued" /\ baOn[r] = q
  /\ BaReleased(q, 0, Cardinality(taken),
                [r \in BaReqs |-> IF r \in taken THEN "out" ELSE baAt[r]], FALSE)
  /\ UNCHANGED <<baState, baSpace, baNext, baOn, baSeq, baRoom, baAhead>>

\* dropAcked, and the answer to a reader that does not acknowledge: of each
\* upload that is out, left units stay.
BaUnits(reqs, room) == {u \in BaReqs \X (1..BaLargest) : u[1] \in reqs /\ u[2] <= room[u[1]]}

BaAck(q, left) ==
  LET out == {r \in BaReqs : baAt[r] = "out" /\ baOn[r] = q}
  IN /\ left # baRoom
     /\ \A r \in BaReqs : left[r] <= baRoom[r] /\ (left[r] < baRoom[r] => r \in out)
     /\ BaReleased(q, Cardinality(BaUnits(out, baRoom) \ BaUnits(out, left)), 0,
                   [r \in BaReqs |-> IF r \in out /\ left[r] = 0 THEN "answered" ELSE baAt[r]], FALSE)
     /\ baRoom' = left
     /\ UNCHANGED <<baState, baSpace, baNext, baOn, baSeq, baAhead>>

\* close: done is closed, and what was queued stays for the reader.
BaClose(q) ==
  /\ baState[q] = "open"
  /\ baState' = [baState EXCEPT ![q] = "closed"]
  /\ UNCHANGED <<baSpace, baRes, baSlots, baNext, baUpload, baResidency>>

\* free, when the session has left the registry: everything the direction counts
\* goes back, what uploads hold whose body is still being read included.
BaFree(q) ==
  /\ baState[q] \in {"open", "closed"}
  /\ baState' = [baState EXCEPT ![q] = "freed"]
  /\ baUsed' = baUsed - baRes[q]
  /\ baShare' = IF baSpace[q] = BaExempt THEN baShare
                ELSE BaLeft([baShare EXCEPT ![baSpace[q]].used = @ - baRes[q]], baSpace[q])
  /\ LET dropped == {r \in BaReqs : baOn[r] = q /\ baAt[r] \in {"held", "queued", "out"}}
     IN baAt' = BaLookAgain([r \in BaReqs |-> IF r \in dropped THEN "answered" ELSE baAt[r]],
                            BaOnQueue(q) \union (IF baRes[q] = 0 THEN {} ELSE BaOnPool))
  /\ baRes' = [baRes EXCEPT ![q] = 0] /\ baSlots' = [baSlots EXCEPT ![q] = 0]
  /\ UNCHANGED <<baSpace, baNext, baOn, baSeq, baRoom, baAhead>>

BaWriterStep(r) ==
  \/ \E q \in BaQueues, i \in BaSeqs, n \in BaSizes : BaArrive(r, q, i, n)
  \/ BaLook(r) \/ BaRefuse(r) \/ BaEmpty(r) \/ BaWait(r) \/ BaReserve(r) \/ BaGiveUp(r)
  \/ BaUnreserve(r) \/ BaTurnAway(r)
  \/ \E used \in 0..BaLargest : BaHold(r, used) \/ BaEnqueue(r, used)

BaQueueStep(q) ==
  \/ \E n \in BaSpaces \union {BaExempt} : BaOpen(q, n)
  \/ \E taken \in SUBSET BaReqs : BaDrain(q, taken)
  \/ \E left \in [BaReqs -> 0..BaLargest] : BaAck(q, left)
  \/ BaClose(q) \/ BaFree(q)

BaNext == (\E r \in BaReqs : BaWriterStep(r)) \/ (\E q \in BaQueues : BaQueueStep(q))

BaSpec == BaInit /\ [][BaNext]_baVars

----------------------------------------------------------------------------
\* The uploads the account has counted and not given back.
BaCharged ==
  {r \in BaReqs : baAt[r] \in {"holding", "held", "queued", "out"} /\ ~BaFreed(baOn[r])}

BaChargedTo(q) == {r \in BaCharged : baOn[r] = q}

BaChargedIn(n) == {r \in BaCharged : baSpace[baOn[r]] = n}

\* resident.go: the relay's count and each namespace's are what the uploads of
\* their sessions hold, through frees that race a reservation, and none is over
\* its limit; a namespace is forgotten with its last direction and not before.
BaExact ==
  /\ baUsed = Cardinality(BaUnits(BaCharged, baRoom)) /\ baUsed <= BaTotal
  /\ \A n \in BaSpaces :
       /\ baShare[n].used = Cardinality(BaUnits(BaChargedIn(n), baRoom))
       /\ baShare[n].used <= BaPerSpace
       /\ baShare[n].refs =
            Cardinality({q \in BaQueues : baState[q] \in {"open", "closed"} /\ baSpace[q] = n})

\* http.go, sideQueue: what a direction counts is what it holds, and what it has
\* promised to uploads whose body is still on its way; each of them has a place
\* in ch until a poll takes it out, so putting it there never waits.
BaPromised ==
  \A q \in BaQueues :
    /\ baRes[q] = Cardinality(BaUnits(BaChargedTo(q), baRoom)) /\ baRes[q] <= BaPerQueue
    /\ baSlots[q] = Cardinality({r \in BaChargedTo(q) : baRoom[r] > 0 /\ baAt[r] # "out"})
    /\ baSlots[q] <= BaSlots

BaCounts == BaExact /\ BaPromised

\* resident.go, reserve and release; http.go, reserveLocked and wakeLocked: no
\* upload is left waiting for room that another session, or another namespace,
\* has given back.
BaAwake ==
  \A r \in BaReqs : baState[baOn[r]] = "open" =>
    /\ baAt[r] = "waitQueue" => BaQueueFull(r)
    /\ baAt[r] = "waitPool" => BaPoolFull(r)

\* resident.go: what is counted is what is held, and room that comes back is
\* offered to those who wait for it.
BaAccount == BaCounts /\ BaAwake
============================================================================
