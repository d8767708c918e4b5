---------------------------- MODULE TunnelProofs ----------------------------
(***************************************************************************)
(* Proofs about the tunnel and what shares it.  The tunnel: the batches of *)
(* a writer (WriteBatch), the bytes the relay holds (ByteAccount), and the *)
(* grace period of a controller whose poll was cut off (ControllerGrace).  *)
(* What shares it: the portal's connections to the devices (DeviceConns),  *)
(* the cards in Feishu and their watchers (LarkCards), the cards on a      *)
(* phone (ApprovalPhone), the sessions, bindings and connections of the    *)
(* MCP server (McpSessions), and the workspaces on a device (Workspaces).  *)
(***************************************************************************)
EXTENDS ByteAccount, WriteBatch, ControllerGrace, DeviceConns, ApprovalPhone, McpSessions, Workspaces,
        FiniteSetTheorems, SequenceTheorems, WellFoundedInduction, TLAPS

----------------------------------------------------------------------------
(* Write batching *)

\* What a timer of WriteBatch stands for: it is of the current generation, and
\* it was set for the first byte that has not been posted.
WbInv ==
  /\ wbWritten \in Nat /\ wbPosted \in Nat /\ wbPosted <= wbWritten /\ wbGen \in Nat
  /\ wbTimer \in 0..MaxWbTimers
  /\ wbFor \in [1..MaxWbTimers -> Nat]
  /\ wbTimer # 0 => wbTimer = wbGen /\ wbFor[wbTimer] = wbPosted + 1
  /\ wbEnd = "no" /\ WbPending > 0 => wbTimer # 0
  /\ WbOwnBatch

LEMMA WbRemainder ==
  ASSUME NEW n \in Nat, NEW d \in Nat \ {0}
  PROVE  /\ n % d \in Nat /\ n % d <= n
         /\ n - (n % d) \in Nat
         /\ \A k \in 1..((n - (n % d)) \div d) : k * d \in Nat /\ k * d <= n
PROOF
<1>1. n % d \in 0..(d - 1) /\ n = d * (n \div d) + (n % d) /\ n \div d \in Nat
  BY SMT
<1>2. d * (n \div d) \in Nat
  BY <1>1, SMT
<1> QED BY <1>1, <1>2, SMT

LEMMA WbInit_Inv == WbInit => WbInv
PROOF BY WbAssumption DEF WbInit, WbInv, WbPending, WbOwnBatch, WbNoCut

LEMMA WbWrite_Inv ==
  ASSUME WbInv, NEW n \in WbSizes, WbWrite(n) \/ WbWriteFails(n)
  PROVE  WbInv'
PROOF
<1> DEFINE total == WbPending + n
           full == WbFullBatches(total)
<1>1. total \in Nat /\ n \in Nat
  BY WbAssumption DEF WbInv, WbPending
<1>2. full \in Nat /\ full <= total
  BY <1>1, WbRemainder, WbAssumption DEF WbFullBatches
<1>3. \A k \in 1..(full \div WbBatch) : k * WbBatch \in Nat /\ k * WbBatch <= total
  BY <1>1, WbRemainder, WbAssumption DEF WbFullBatches
<1> HIDE DEF full
<1>4. CASE WbWrite(n) /\ full > 0
  <2>1. /\ wbWritten' = wbWritten + n /\ wbPosted' = wbPosted + full /\ wbEnd' = "no" 
        /\ wbCut'.by = "write"
    BY <1>4 DEF WbWrite, WbSends, full
  <2>2. CASE total - full > 0
    <3>1. /\ WbStoppedGen < MaxWbTimers
          /\ wbGen' = WbStoppedGen + 1 /\ wbTimer' = WbStoppedGen + 1
          /\ wbFor' = [wbFor EXCEPT ![WbStoppedGen + 1] = wbPosted' + 1]
      BY <1>4, <2>2 DEF WbWrite, WbRearms, full
    <3>2. WbStoppedGen \in Nat /\ WbStoppedGen + 1 \in 1..MaxWbTimers /\ wbPosted' + 1 \in Nat
      BY <1>2, <2>1, <3>1, WbAssumption DEF WbInv, WbStoppedGen
    <3>3. wbFor' \in [1..MaxWbTimers -> Nat] /\ wbFor'[wbTimer'] = wbPosted' + 1
      BY <3>1, <3>2 DEF WbInv
    <3> QED BY <1>1, <1>2, <2>1, <3>1, <3>2, <3>3 DEF WbInv, WbPending, WbOwnBatch
  <2>3. CASE ~(total - full > 0)
    <3>1. wbGen' = WbStoppedGen /\ wbTimer' = 0 /\ wbFor' = wbFor
      BY <1>4, <2>3 DEF WbWrite, WbRearms, full
    <3>2. wbPosted' = wbWritten' /\ wbWritten' \in Nat
      BY <1>1, <1>2, <2>1, <2>3 DEF WbInv, WbPending
    <3>3. WbStoppedGen \in Nat
      BY DEF WbInv, WbStoppedGen
    <3> QED BY <2>1, <3>1, <3>2, <3>3, WbAssumption DEF WbInv, WbPending, WbOwnBatch
  <2> QED BY <2>2, <2>3
<1>5. CASE WbWrite(n) /\ ~(full > 0)
  <2>1. /\ wbWritten' = wbWritten + n /\ wbPosted' = wbPosted /\ wbCut' = wbCut
    BY <1>5 DEF WbWrite, full
  <2>2. CASE total - full > 0 /\ wbTimer = 0
    <3>1. /\ wbGen < MaxWbTimers
          /\ wbGen' = wbGen + 1 /\ wbTimer' = wbGen + 1
          /\ wbFor' = [wbFor EXCEPT ![wbGen + 1] = wbPosted' + 1]
      BY <1>5, <2>2 DEF WbWrite, WbRearms, full
    <3>2. wbGen \in Nat /\ wbGen + 1 \in 1..MaxWbTimers /\ wbPosted' + 1 \in Nat
      BY <2>1, <3>1, WbAssumption DEF WbInv
    <3>3. wbFor' \in [1..MaxWbTimers -> Nat] /\ wbFor'[wbTimer'] = wbPosted' + 1
      BY <3>1, <3>2 DEF WbInv
    <3>4. wbTimer' = wbGen' /\ wbGen' \in Nat /\ wbTimer' \in 0..MaxWbTimers
      BY <3>1, <3>2, WbAssumption
    <3>5. wbFor'[wbTimer'] = wbPosted' + 1 /\ WbOwnBatch'
      BY <1>2, <2>1, <3>3 DEF WbInv, WbOwnBatch
    <3> QED BY <1>1, <1>2, <2>1, <2>2, <3>1, <3>3, <3>4, <3>5 DEF WbInv, WbPending
  <2>3. CASE ~(total - full > 0 /\ wbTimer = 0)
    <3>1. wbGen' = wbGen /\ wbTimer' = wbTimer /\ wbFor' = wbFor
      BY <1>5, <2>3 DEF WbWrite, WbRearms, full
    <3>2. wbWritten' \in Nat /\ wbPosted' \in Nat /\ wbPosted' <= wbWritten'
      BY <1>1, <2>1 DEF WbInv
    <3>3. wbWritten' - wbPosted' > 0 => wbTimer # 0
      <4>1. total = wbWritten' - wbPosted' /\ full = 0
        BY <1>1, <1>2, <1>5, <2>1 DEF WbInv, WbPending
      <4> QED BY <1>1, <2>3, <4>1
    <3>4. WbOwnBatch' /\ (wbTimer' # 0 => wbTimer' = wbGen' /\ wbFor'[wbTimer'] = wbPosted' + 1)
      BY <2>1, <3>1 DEF WbInv, WbOwnBatch
    <3>5. wbGen' \in Nat /\ wbTimer' \in 0..MaxWbTimers /\ wbFor' \in [1..MaxWbTimers -> Nat]
      BY <3>1 DEF WbInv
    <3> QED BY <3>1, <3>2, <3>3, <3>4, <3>5 DEF WbInv, WbPending
  <2> QED BY <2>2, <2>3
<1>6. CASE WbWriteFails(n)
  <2>1. PICK k \in 1..(full \div WbBatch) : wbPosted' = wbPosted + k * WbBatch
    BY <1>6 DEF WbWriteFails, WbSends, full
  <2>2. /\ wbWritten' = wbWritten + n /\ wbTimer' = 0 /\ wbGen' = WbStoppedGen
        /\ wbFor' = wbFor /\ wbEnd' = "failed" /\ wbCut'.by = "write"
    BY <1>6 DEF WbWriteFails, WbSends
  <2>3. k * WbBatch \in Nat /\ k * WbBatch <= total
    BY <1>3
  <2>4. PICK m \in Nat : m <= total /\ wbPosted' = wbPosted + m
    BY <2>1, <2>3
  <2>5. wbWritten' \in Nat /\ wbPosted' \in Nat /\ wbPosted' <= wbWritten'
    BY <1>1, <2>2, <2>4 DEF WbInv, WbPending
  <2>6. wbGen' \in Nat /\ wbTimer' \in 0..MaxWbTimers
    BY <2>2, WbAssumption DEF WbInv, WbStoppedGen
  <2>7. WbOwnBatch'
    BY <2>2 DEF WbOwnBatch
  <2>8. wbFor' \in [1..MaxWbTimers -> Nat]
    BY <2>2 DEF WbInv
  <2> QED BY <2>2, <2>5, <2>6, <2>7, <2>8 DEF WbInv
<1> QED BY <1>4, <1>5, <1>6

\* The steps that post all that is pending, or nothing.
LEMMA WbOther_Inv ==
  ASSUME WbInv,
         \/ WbFires \/ WbFlushWrites \/ WbPostFails \/ WbClose
         \/ \E g \in 1..MaxWbTimers : WbFlushTimerFired(g)
  PROVE  WbInv'
PROOF
<1>1. CASE WbFires
  BY <1>1 DEF WbFires, WbInv, WbPending, WbOwnBatch, wbConn
<1>2. CASE WbFlushWrites
  BY <1>2, WbAssumption DEF WbFlushWrites, WbInv, WbPending, WbOwnBatch, WbStoppedGen, WbSends
<1>3. CASE WbPostFails
  BY <1>3 DEF WbPostFails, WbInv, WbPending, WbOwnBatch
<1>4. CASE WbClose
  BY <1>4, WbAssumption DEF WbClose, WbInv, WbPending, WbOwnBatch, WbStoppedGen, WbSends
<1>5. ASSUME NEW g \in 1..MaxWbTimers, WbFlushTimerFired(g)
      PROVE  WbInv'
  BY <1>5, WbAssumption DEF WbFlushTimerFired, WbCurrent, WbInv, WbPending, WbOwnBatch, WbSends
<1> QED BY <1>1, <1>2, <1>3, <1>4, <1>5

\* httpconn.go, Write and flushTimerFired: pending bytes always have a timer of
\* their own generation, and a timer posts the bytes it was set for, for every
\* batch size and however writes, flushes, late callbacks and failures interleave.
THEOREM BatchesSafe == WbSpec => []WbBatches
PROOF
<1>1. ASSUME WbInv, [WbNext]_wbVars
      PROVE  WbInv'
  <2>1. CASE WbNext
    BY <1>1, <2>1, WbWrite_Inv, WbOther_Inv DEF WbNext
  <2>2. CASE UNCHANGED wbVars
    BY <1>1, <2>2 DEF wbVars, wbConn, WbInv, WbPending, WbOwnBatch
  <2> QED BY <1>1, <2>1, <2>2
<1>2. WbInv => WbBatches
  BY DEF WbInv, WbBatches, WbNothingStranded
<1> QED BY WbInit_Inv, <1>1, <1>2, PTL DEF WbSpec

----------------------------------------------------------------------------
(* Counting the units of a set of uploads *)

BaRooms == [BaReqs -> 0..BaLargest]

LEMMA UnitsFinite ==
  ASSUME NEW S \in SUBSET BaReqs, NEW room \in BaRooms
  PROVE  IsFiniteSet(BaUnits(S, room)) /\ Cardinality(BaUnits(S, room)) \in Nat
PROOF
<1>1. IsFiniteSet(BaReqs) /\ IsFiniteSet(1..BaLargest)
  BY BaAssumption, FS_Interval
<1>2. IsFiniteSet(BaReqs \X (1..BaLargest))
  BY <1>1, FS_Product
<1>3. BaUnits(S, room) \in SUBSET (BaReqs \X (1..BaLargest))
  BY DEF BaUnits
<1> QED BY <1>2, <1>3, FS_Subset, FS_CardinalityType

LEMMA CardStrip ==
  ASSUME NEW r, NEW n \in Nat
  PROVE  Cardinality({r} \X (1..n)) = n
PROOF
<1>1. IsFiniteSet({r}) /\ Cardinality({r}) = 1
  BY FS_Singleton, Zenon
<1>2. IsFiniteSet(1..n) /\ Cardinality(1..n) = n
  <2>1. IsFiniteSet(1..n) /\ Cardinality(1..n) = IF 1 > n THEN 0 ELSE n - 1 + 1
    BY FS_Interval
  <2> QED BY <2>1
<1>3. Cardinality({r} \X (1..n)) = Cardinality({r}) * Cardinality(1..n)
  BY <1>1, <1>2, FS_Product, Zenon
<1> QED BY <1>1, <1>2, <1>3

LEMMA UnitsOfOne ==
  ASSUME NEW r \in BaReqs, NEW room \in BaRooms
  PROVE  Cardinality(BaUnits({r}, room)) = room[r]
PROOF
<1>1. room[r] \in 0..BaLargest /\ BaLargest \in Nat
  BY BaAssumption DEF BaRooms
<1>2. BaUnits({r}, room) = {r} \X (1..room[r])
  <2>1. ASSUME NEW u \in BaUnits({r}, room) PROVE u \in {r} \X (1..room[r])
    BY <1>1, <2>1 DEF BaUnits
  <2>2. ASSUME NEW u \in {r} \X (1..room[r]) PROVE u \in BaUnits({r}, room)
    BY <1>1, <2>2 DEF BaUnits
  <2> QED BY <2>1, <2>2
<1>3. room[r] \in Nat
  BY <1>1
<1> QED BY <1>2, <1>3, CardStrip, Zenon

\* Taking a set of uploads out of another.
LEMMA UnitsWithout ==
  ASSUME NEW S \in SUBSET BaReqs, NEW D \in SUBSET S, NEW room \in BaRooms
  PROVE  Cardinality(BaUnits(S \ D, room)) =
           Cardinality(BaUnits(S, room)) - Cardinality(BaUnits(D, room))
PROOF
<1>1. BaUnits(S \ D, room) = BaUnits(S, room) \ BaUnits(D, room)
  BY Zenon DEF BaUnits
<1>2. BaUnits(S, room) \cap BaUnits(D, room) = BaUnits(D, room)
  BY Zenon DEF BaUnits
<1>3. IsFiniteSet(BaUnits(S, room))
  BY UnitsFinite
<1>4. Cardinality(BaUnits(S, room) \ BaUnits(D, room)) =
        Cardinality(BaUnits(S, room)) - Cardinality(BaUnits(S, room) \cap BaUnits(D, room))
  BY <1>3, FS_Difference, Zenon
<1> QED BY <1>1, <1>2, <1>4, Zenon

\* What upload r counts in a set.
BaPart(r, S, room) == IF r \in S THEN room[r] ELSE 0

LEMMA UnitsSplit ==
  ASSUME NEW r \in BaReqs, NEW S \in SUBSET BaReqs, NEW room \in BaRooms
  PROVE  Cardinality(BaUnits(S, room)) = Cardinality(BaUnits(S \ {r}, room)) + BaPart(r, S, room)
PROOF
<1>1. Cardinality(BaUnits(S, room)) \in Nat /\ Cardinality(BaUnits(S \ {r}, room)) \in Nat
  BY UnitsFinite
<1>2. CASE r \in S
  <2>1. {r} \in SUBSET S
    BY <1>2
  <2>2. Cardinality(BaUnits(S \ {r}, room)) =
          Cardinality(BaUnits(S, room)) - Cardinality(BaUnits({r}, room))
    BY <2>1, UnitsWithout
  <2>3. room[r] \in Nat
    BY BaAssumption DEF BaRooms
  <2>4. Cardinality(BaUnits({r}, room)) = room[r]
    BY UnitsOfOne
  <2>5. BaPart(r, S, room) = room[r]
    BY <1>2 DEF BaPart
  <2> QED BY <1>1, <2>2, <2>3, <2>4, <2>5
<1>3. CASE r \notin S
  <2>1. S \ {r} = S
    BY <1>3
  <2> QED BY <1>1, <1>3, <2>1 DEF BaPart
<1> QED BY <1>2, <1>3

\* Two sets of uploads that differ in upload r, and in others that carry nothing.
LEMMA UnitsDiffer ==
  ASSUME NEW r \in BaReqs, NEW S \in SUBSET BaReqs, NEW T \in SUBSET BaReqs,
         NEW room \in BaRooms, NEW room2 \in BaRooms,
         \A x \in BaReqs \ {r} : room2[x] = room[x] /\ (room[x] > 0 => (x \in T <=> x \in S))
  PROVE  Cardinality(BaUnits(T, room2)) =
           Cardinality(BaUnits(S, room)) - BaPart(r, S, room) + BaPart(r, T, room2)
PROOF
<1>1. BaUnits(T \ {r}, room2) = BaUnits(S \ {r}, room)
  <2>1. ASSUME NEW x \in BaReqs, NEW k \in 1..BaLargest
        PROVE  (x \in T \ {r} /\ k <= room2[x]) <=> (x \in S \ {r} /\ k <= room[x])
    <3>1. room[x] \in Nat /\ room2[x] \in Nat /\ k \in Nat /\ k > 0
      BY BaAssumption DEF BaRooms
    <3> QED BY <3>1
  <2> QED BY <2>1 DEF BaUnits
<1>2. /\ Cardinality(BaUnits(S \ {r}, room)) \in Nat
      /\ BaPart(r, S, room) \in Nat /\ BaPart(r, T, room2) \in Nat
  BY UnitsFinite, BaAssumption DEF BaPart, BaRooms
<1> QED BY <1>1, <1>2, UnitsSplit

LEMMA CardDiffer ==
  ASSUME NEW r, NEW S, NEW T, IsFiniteSet(S), IsFiniteSet(T), S \ {r} = T \ {r}
  PROVE  /\ Cardinality(S) \in Nat /\ Cardinality(T) \in Nat
         /\ Cardinality(T) = Cardinality(S) - (IF r \in S THEN 1 ELSE 0) + (IF r \in T THEN 1 ELSE 0)
PROOF
<1>1. Cardinality(S) \in Nat /\ Cardinality(T) \in Nat
  BY FS_CardinalityType
<1>2. Cardinality(S \ {r}) = IF r \in S THEN Cardinality(S) - 1 ELSE Cardinality(S)
  BY FS_RemoveElement
<1>3. Cardinality(T \ {r}) = IF r \in T THEN Cardinality(T) - 1 ELSE Cardinality(T)
  BY FS_RemoveElement
<1> QED BY <1>1, <1>2, <1>3

----------------------------------------------------------------------------
(* The relay's byte account *)

BaTyped ==
  /\ baState \in [BaQueues -> {"none", "open", "closed", "freed"}]
  /\ baSpace \in [BaQueues -> BaSpaces \union {BaExempt}]
  /\ baRes \in [BaQueues -> Int] /\ baSlots \in [BaQueues -> Int]
  /\ baAt \in [BaReqs -> BaPlaces] /\ baOn \in [BaReqs -> BaQueues]
  /\ baRoom \in BaRooms /\ baAhead \in [BaReqs -> BOOLEAN]
  /\ baShare \in [BaSpaces -> [used : Int, refs : Int]] /\ baUsed \in Int

\* An upload that came belongs to a direction that was opened; a freed direction
\* keeps none of them; and what waits in ch, or was taken from it, carries bytes.
BaOrderly ==
  \A r \in BaReqs :
    /\ baAt[r] # "new" => baState[baOn[r]] # "none"
    /\ baAt[r] \in {"held", "queued", "out"} => baState[baOn[r]] # "freed"
    /\ baAt[r] \in {"queued", "out"} => baRoom[r] > 0

BaSlotted(q) == {r \in BaChargedTo(q) : baRoom[r] > 0 /\ baAt[r] # "out"}

BaSums ==
  /\ baUsed = Cardinality(BaUnits(BaCharged, baRoom))
  /\ \A n \in BaSpaces : baShare[n].used = Cardinality(BaUnits(BaChargedIn(n), baRoom))
  /\ \A q \in BaQueues : /\ baRes[q] = Cardinality(BaUnits(BaChargedTo(q), baRoom))
                         /\ baSlots[q] = Cardinality(BaSlotted(q))

BaLimits ==
  /\ baUsed <= BaTotal
  /\ \A n \in BaSpaces : baShare[n].used <= BaPerSpace
  /\ \A q \in BaQueues : baRes[q] <= BaPerQueue /\ baSlots[q] <= BaSlots

BaUses(n) == {q \in BaQueues : baState[q] \in {"open", "closed"} /\ baSpace[q] = n}

BaRefs == \A n \in BaSpaces : baShare[n].refs = Cardinality(BaUses(n))

BaInv == BaTyped /\ BaOrderly /\ BaSums /\ BaLimits /\ BaRefs /\ BaAwake

LEMMA BaInv_Counts == BaInv => BaCounts
PROOF BY DEF BaInv, BaSums, BaLimits, BaRefs, BaUses, BaSlotted, BaCounts, BaExact, BaPromised

LEMMA ChargedSets ==
  ASSUME BaTyped
  PROVE  /\ BaCharged \in SUBSET BaReqs
         /\ \A q \in BaQueues : /\ BaChargedTo(q) \in SUBSET BaReqs
                                /\ BaSlotted(q) \in SUBSET BaReqs /\ IsFiniteSet(BaSlotted(q))
         /\ \A n \in BaSpaces : BaChargedIn(n) \in SUBSET BaReqs
PROOF
<1>1. \A q \in BaQueues : BaSlotted(q) \in SUBSET BaReqs
  BY DEF BaCharged, BaChargedTo, BaSlotted
<1>2. \A q \in BaQueues : IsFiniteSet(BaSlotted(q))
  BY <1>1, FS_Subset, BaAssumption
<1> QED BY <1>1, <1>2 DEF BaCharged, BaChargedTo, BaChargedIn

\* What releaseLocked does, whether or not the direction was freed before: to the
\* account, and to the uploads that wait.
BaBack(q, n) == IF BaFreed(q) THEN 0 ELSE n

BaRepaid(q, n, s) ==
  /\ baUsed' = baUsed - BaBack(q, n)
  /\ baRes' \in [BaQueues -> Int]
  /\ \A p \in BaQueues : baRes'[p] = baRes[p] - (IF p = q THEN BaBack(q, n) ELSE 0)
  /\ baSlots' \in [BaQueues -> Int]
  /\ \A p \in BaQueues : baSlots'[p] = baSlots[p] - (IF p = q THEN BaBack(q, s) ELSE 0)
  /\ baShare' \in [BaSpaces -> [used : Int, refs : Int]]
  /\ \A m \in BaSpaces :
       /\ baShare'[m].used = baShare[m].used - (IF baSpace[q] = m THEN BaBack(q, n) ELSE 0)
       /\ baShare'[m].refs = baShare[m].refs

BaWoken(q, n, s, at) ==
  /\ baAt' \in [BaReqs -> BaPlaces]
  /\ \A x \in BaReqs :
       /\ baAt'[x] = at[x] \/ baAt'[x] \in {"asking", "looking"}
       /\ baAt[x] \notin {"waitQueue", "waitPool"} => baAt'[x] = at[x]
       /\ baAt[x] = "waitQueue" /\ baOn[x] = q /\ (BaBack(q, n) > 0 \/ BaBack(q, s) > 0)
            => baAt'[x] \in {"asking", "looking"}
       /\ baAt[x] = "waitPool" /\ BaBack(q, n) > 0 => baAt'[x] \in {"asking", "looking"}

LEMMA RepaidAll ==
  ASSUME BaTyped, NEW q \in BaQueues, NEW n \in Nat, NEW s \in Nat, ~BaFreed(q),
         baRes' = [baRes EXCEPT ![q] = @ - n], baSlots' = [baSlots EXCEPT ![q] = @ - s],
         BaReturned(q, n)
  PROVE  BaRepaid(q, n, s)
PROOF
<1>1. BaBack(q, n) = n /\ BaBack(q, s) = s
  BY DEF BaBack
<1>2. baUsed' = baUsed - BaBack(q, n)
  BY <1>1 DEF BaReturned
<1>3. /\ baRes' \in [BaQueues -> Int]
      /\ \A p \in BaQueues : baRes'[p] = baRes[p] - (IF p = q THEN BaBack(q, n) ELSE 0)
  BY <1>1 DEF BaTyped
<1>4. /\ baSlots' \in [BaQueues -> Int]
      /\ \A p \in BaQueues : baSlots'[p] = baSlots[p] - (IF p = q THEN BaBack(q, s) ELSE 0)
  BY <1>1 DEF BaTyped
<1>5. /\ baShare' \in [BaSpaces -> [used : Int, refs : Int]]
      /\ \A m \in BaSpaces :
            /\ baShare'[m].used = baShare[m].used - (IF baSpace[q] = m THEN BaBack(q, n) ELSE 0)
            /\ baShare'[m].refs = baShare[m].refs
  <2>1. CASE baSpace[q] = BaExempt
    BY <1>1, <2>1, BaAssumption DEF BaReturned, BaTyped
  <2>2. CASE baSpace[q] # BaExempt
    <3>1. baShare' = [baShare EXCEPT ![baSpace[q]].used = @ - n] /\ baSpace[q] \in BaSpaces
      BY <2>2 DEF BaReturned, BaTyped
    <3> QED BY <1>1, <3>1 DEF BaTyped
  <2> QED BY <2>1, <2>2
<1> QED BY <1>2, <1>3, <1>4, <1>5 DEF BaRepaid

LEMMA RepaidNothing ==
  ASSUME BaTyped, NEW q \in BaQueues, NEW n \in Nat, NEW s \in Nat,
         BaFreed(q) \/ (n = 0 /\ s = 0),
         baRes' = baRes, baSlots' = baSlots, baShare' = baShare, baUsed' = baUsed
  PROVE  BaRepaid(q, n, s)
PROOF
<1>1. BaBack(q, n) = 0 /\ BaBack(q, s) = 0
  BY DEF BaBack
<1> QED BY <1>1 DEF BaTyped, BaRepaid

LEMMA LookAgain ==
  ASSUME NEW at \in [BaReqs -> BaPlaces], NEW woken \in SUBSET BaReqs
  PROVE  /\ BaLookAgain(at, woken) \in [BaReqs -> BaPlaces]
         /\ \A x \in BaReqs : x \notin woken => BaLookAgain(at, woken)[x] = at[x]
         /\ \A x \in BaReqs : x \in woken => BaLookAgain(at, woken)[x] \in {"asking", "looking"}
PROOF BY DEF BaLookAgain, BaPlaces

LEMMA WokenBy ==
  ASSUME NEW q, NEW n, NEW s, NEW at \in [BaReqs -> BaPlaces],
         NEW woken \in SUBSET BaReqs, baAt' = BaLookAgain(at, woken),
         \A x \in BaReqs :
           /\ x \in woken => baAt[x] \in {"waitQueue", "waitPool"}
           /\ baAt[x] = "waitQueue" /\ baOn[x] = q /\ (BaBack(q, n) > 0 \/ BaBack(q, s) > 0)
                => x \in woken
           /\ baAt[x] = "waitPool" /\ BaBack(q, n) > 0 => x \in woken
  PROVE  BaWoken(q, n, s, at)
PROOF
<1>1. /\ BaLookAgain(at, woken) \in [BaReqs -> BaPlaces]
      /\ \A x \in BaReqs : x \notin woken => BaLookAgain(at, woken)[x] = at[x]
      /\ \A x \in BaReqs : x \in woken => BaLookAgain(at, woken)[x] \in {"asking", "looking"}
  BY LookAgain, Zenon
<1>2. baAt' \in [BaReqs -> BaPlaces]
  BY <1>1, Zenon
<1>3. /\ \A x \in BaReqs : x \notin woken => baAt'[x] = at[x]
      /\ \A x \in BaReqs : x \in woken => baAt'[x] \in {"asking", "looking"}
  BY <1>1, Zenon
<1> QED BY <1>2, <1>3, Zenon DEF BaWoken

LEMMA ReleasedEffect ==
  ASSUME BaTyped, NEW q \in BaQueues, NEW n \in Nat, NEW s \in Nat,
         NEW at \in [BaReqs -> BaPlaces], NEW stream \in BOOLEAN,
         BaReleased(q, n, s, at, stream)
  PROVE  BaRepaid(q, n, s) /\ BaWoken(q, n, s, at)
PROOF
<1>1. CASE BaFreed(q) \/ (n = 0 /\ s = 0)
  <2>1. baUsed' = baUsed /\ baRes' = baRes /\ baSlots' = baSlots /\ baShare' = baShare
    BY <1>1, Zenon DEF BaReleased, baResidency
  <2>2. BaRepaid(q, n, s)
    BY <1>1, <2>1, RepaidNothing, Zenon
  <2>3. PICK woken \in SUBSET BaOnQueue(q) : baAt' = BaLookAgain(at, woken)
    BY <1>1 DEF BaReleased
  <2>4. ~(BaBack(q, n) > 0) /\ ~(BaBack(q, s) > 0)
    BY <1>1, SMT DEF BaBack, BaReleased
  <2>5. woken \in SUBSET BaReqs /\ \A x \in woken : baAt[x] = "waitQueue"
    BY <2>3, Zenon DEF BaOnQueue
  <2>6. BaWoken(q, n, s, at)
    BY <2>3, <2>4, <2>5, WokenBy, Zenon
  <2> QED BY <2>2, <2>6, Zenon
<1>2. CASE ~BaFreed(q) /\ ~(n = 0 /\ s = 0)
  <2>1. /\ baRes' = [baRes EXCEPT ![q] = @ - n] /\ baSlots' = [baSlots EXCEPT ![q] = @ - s]
        /\ BaReturned(q, n)
        /\ baAt' = BaLookAgain(at, BaOnQueue(q) \union (IF n = 0 THEN {} ELSE BaOnPool))
    BY <1>2, Zenon DEF BaReleased
  <2>2. BaRepaid(q, n, s)
    BY <1>2, <2>1, RepaidAll, Zenon
  <2>3. PICK woken : /\ woken = BaOnQueue(q) \union (IF n = 0 THEN {} ELSE BaOnPool)
                     /\ baAt' = BaLookAgain(at, woken)
    BY <2>1, Zenon
  <2>4. BaBack(q, n) > 0 => n # 0
    BY <1>2, SMT DEF BaBack, BaReleased
  <2>5. woken \in SUBSET BaReqs /\ \A x \in woken : baAt[x] \in {"waitQueue", "waitPool"}
    <3>1. CASE n = 0
      BY <2>3, <3>1, Zenon DEF BaOnQueue
    <3>2. CASE n # 0
      BY <2>3, <3>2, Zenon DEF BaOnQueue, BaOnPool
    <3> QED BY <3>1, <3>2, Zenon
  <2>6. \A x \in BaReqs : /\ baAt[x] = "waitQueue" /\ baOn[x] = q => x \in woken
                          /\ baAt[x] = "waitPool" /\ n # 0 => x \in woken
    <3>1. CASE n = 0
      BY <2>3, <3>1, Zenon DEF BaOnQueue
    <3>2. CASE n # 0
      BY <2>3, <3>2, Zenon DEF BaOnQueue, BaOnPool
    <3> QED BY <3>1, <3>2, Zenon
  <2>7. BaWoken(q, n, s, at)
    BY <2>3, <2>4, <2>5, <2>6, WokenBy, Zenon
  <2> QED BY <2>2, <2>7, Zenon
<1> QED BY <1>1, <1>2, Zenon

\* A step that leaves alone what every charged upload counts.
LEMMA SumsSame ==
  ASSUME BaTyped, BaTyped', BaSums,
         \A x \in BaReqs : x \in BaCharged' <=> x \in BaCharged,
         \A x \in BaCharged : /\ baRoom'[x] = baRoom[x] /\ baOn'[x] = baOn[x]
                              /\ baAt'[x] = "out" <=> baAt[x] = "out"
                              /\ baSpace'[baOn[x]] = baSpace[baOn[x]],
         baRes' = baRes, baSlots' = baSlots, baUsed' = baUsed,
         \A n \in BaSpaces : baShare'[n].used = baShare[n].used
  PROVE  BaSums'
PROOF
<1>1. BaCharged' = BaCharged
  BY DEF BaCharged
<1>2. \A n \in BaSpaces : BaChargedIn(n)' = BaChargedIn(n)
  BY <1>1 DEF BaChargedIn
<1>3. \A q \in BaQueues : BaChargedTo(q)' = BaChargedTo(q)
  BY <1>1 DEF BaChargedTo
<1>4. \A q \in BaQueues : BaSlotted(q)' = BaSlotted(q)
  BY <1>3 DEF BaSlotted, BaChargedTo
<1>5. ASSUME NEW S \in SUBSET BaCharged PROVE BaUnits(S, baRoom') = BaUnits(S, baRoom)
  BY <1>5 DEF BaUnits
<1>6. /\ \A n \in BaSpaces : BaUnits(BaChargedIn(n), baRoom)' = BaUnits(BaChargedIn(n), baRoom)
      /\ \A q \in BaQueues : BaUnits(BaChargedTo(q), baRoom)' = BaUnits(BaChargedTo(q), baRoom)
      /\ BaUnits(BaCharged, baRoom)' = BaUnits(BaCharged, baRoom)
  <2>1. ASSUME NEW n \in BaSpaces
        PROVE  BaUnits(BaChargedIn(n), baRoom)' = BaUnits(BaChargedIn(n), baRoom)
    <3>1. BaChargedIn(n) \in SUBSET BaCharged
      BY DEF BaChargedIn
    <3>2. BaUnits(BaChargedIn(n), baRoom') = BaUnits(BaChargedIn(n), baRoom)
      BY <1>5, <3>1
    <3>3. BaUnits(BaChargedIn(n), baRoom)' = BaUnits(BaChargedIn(n)', baRoom')
      BY DEF BaUnits
    <3> QED BY <1>2, <3>2, <3>3
  <2>2. ASSUME NEW q \in BaQueues
        PROVE  BaUnits(BaChargedTo(q), baRoom)' = BaUnits(BaChargedTo(q), baRoom)
    <3>1. BaChargedTo(q) \in SUBSET BaCharged
      BY DEF BaChargedTo
    <3>2. BaUnits(BaChargedTo(q), baRoom') = BaUnits(BaChargedTo(q), baRoom)
      BY <1>5, <3>1
    <3>3. BaUnits(BaChargedTo(q), baRoom)' = BaUnits(BaChargedTo(q)', baRoom')
      BY DEF BaUnits
    <3> QED BY <1>3, <3>2, <3>3
  <2>3. BaUnits(BaCharged, baRoom)' = BaUnits(BaCharged, baRoom)
    <3>1. BaUnits(BaCharged, baRoom') = BaUnits(BaCharged, baRoom)
      BY <1>5
    <3>2. BaUnits(BaCharged, baRoom)' = BaUnits(BaCharged', baRoom')
      BY DEF BaUnits
    <3> QED BY <1>1, <3>1, <3>2
  <2> QED BY <2>1, <2>2, <2>3
<1> QED BY <1>4, <1>6 DEF BaSums

\* A step that changes what one upload counts, by dn units and ds slots.
BaSlot(r) == IF r \in BaCharged /\ baRoom[r] > 0 /\ baAt[r] # "out" THEN 1 ELSE 0

LEMMA SumsOne ==
  ASSUME BaTyped, BaTyped', BaSums, NEW r \in BaReqs, NEW dn \in Int, NEW ds \in Int,
         baSpace' = baSpace, baOn' = baOn,
         \A x \in BaReqs \ {r} :
           /\ baRoom'[x] = baRoom[x]
           /\ baRoom[x] > 0 => /\ x \in BaCharged' <=> x \in BaCharged
                               /\ baAt'[x] = "out" <=> baAt[x] = "out",
         BaPart(r, BaCharged', baRoom') = BaPart(r, BaCharged, baRoom) + dn,
         BaSlot(r)' = BaSlot(r) + ds,
         baUsed' = baUsed + dn,
         \A n \in BaSpaces :
           baShare'[n].used = baShare[n].used + (IF baSpace[baOn[r]] = n THEN dn ELSE 0),
         \A q \in BaQueues :
           /\ baRes'[q] = baRes[q] + (IF baOn[r] = q THEN dn ELSE 0)
           /\ baSlots'[q] = baSlots[q] + (IF baOn[r] = q THEN ds ELSE 0)
  PROVE  BaSums'
PROOF
<1>1. baRoom \in BaRooms /\ baRoom' \in BaRooms
  BY DEF BaTyped
<1>2. ASSUME NEW S \in SUBSET BaCharged, NEW T \in SUBSET BaCharged',
             r \in S <=> r \in BaCharged, r \in T <=> r \in BaCharged',
             \A x \in BaReqs \ {r} : baRoom[x] > 0 => (x \in T <=> x \in S)
      PROVE  Cardinality(BaUnits(T, baRoom')) = Cardinality(BaUnits(S, baRoom)) + dn
  <2>1. S \in SUBSET BaReqs /\ T \in SUBSET BaReqs
    BY DEF BaCharged
  <2>2. Cardinality(BaUnits(T, baRoom')) =
          Cardinality(BaUnits(S, baRoom)) - BaPart(r, S, baRoom) + BaPart(r, T, baRoom')
    BY <1>1, <1>2, <2>1, UnitsDiffer
  <2>3. BaPart(r, S, baRoom) = BaPart(r, BaCharged, baRoom) /\ BaPart(r, T, baRoom') = BaPart(r, BaCharged', baRoom')
    BY <1>2 DEF BaPart
  <2>4. BaPart(r, S, baRoom) \in Int /\ Cardinality(BaUnits(S, baRoom)) \in Int
    BY <1>1, <2>1, UnitsFinite DEF BaPart, BaRooms
  <2> QED BY <2>2, <2>3, <2>4
<1>3. ASSUME NEW S \in SUBSET BaCharged, NEW T \in SUBSET BaCharged', r \notin S, r \notin T,
             \A x \in BaReqs \ {r} : baRoom[x] > 0 => (x \in T <=> x \in S)
      PROVE  Cardinality(BaUnits(T, baRoom')) = Cardinality(BaUnits(S, baRoom))
  <2>1. S \in SUBSET BaReqs /\ T \in SUBSET BaReqs
    BY DEF BaCharged
  <2>2. Cardinality(BaUnits(T, baRoom')) =
          Cardinality(BaUnits(S, baRoom)) - BaPart(r, S, baRoom) + BaPart(r, T, baRoom')
    BY <1>1, <1>3, <2>1, UnitsDiffer
  <2>3. BaPart(r, S, baRoom) = 0 /\ BaPart(r, T, baRoom') = 0
    BY <1>3 DEF BaPart
  <2>4. Cardinality(BaUnits(S, baRoom)) \in Int
    BY <1>1, <2>1, UnitsFinite
  <2> QED BY <2>2, <2>3, <2>4
<1>4. Cardinality(BaUnits(BaCharged, baRoom))' = Cardinality(BaUnits(BaCharged, baRoom)) + dn
  <2>1. Cardinality(BaUnits(BaCharged', baRoom')) = Cardinality(BaUnits(BaCharged, baRoom)) + dn
    BY <1>2
  <2> QED BY <2>1 DEF BaUnits
<1>5. ASSUME NEW n \in BaSpaces
      PROVE  Cardinality(BaUnits(BaChargedIn(n), baRoom))' =
               Cardinality(BaUnits(BaChargedIn(n), baRoom)) + (IF baSpace[baOn[r]] = n THEN dn ELSE 0)
  <2>1. /\ BaChargedIn(n) \in SUBSET BaCharged /\ BaChargedIn(n)' \in SUBSET BaCharged'
        /\ \A x \in BaReqs \ {r} : baRoom[x] > 0 => (x \in BaChargedIn(n)' <=> x \in BaChargedIn(n))
    BY DEF BaChargedIn
  <2>2. Cardinality(BaUnits(BaChargedIn(n), baRoom))' = Cardinality(BaUnits(BaChargedIn(n)', baRoom'))
    BY DEF BaUnits
  <2>3. CASE baSpace[baOn[r]] = n
    <3>1. r \in BaChargedIn(n) <=> r \in BaCharged
      BY <2>3 DEF BaChargedIn
    <3>2. r \in BaChargedIn(n)' <=> r \in BaCharged'
      BY <2>3 DEF BaChargedIn
    <3> QED BY <1>2, <2>1, <2>2, <2>3, <3>1, <3>2
  <2>4. CASE baSpace[baOn[r]] # n
    <3>1. r \notin BaChargedIn(n) /\ r \notin BaChargedIn(n)'
      BY <2>4 DEF BaChargedIn
    <3>2. BaChargedIn(n) \in SUBSET BaReqs
      BY ChargedSets
    <3> QED BY <1>1, <1>3, <2>1, <2>2, <2>4, <3>1, <3>2, UnitsFinite
  <2> QED BY <2>3, <2>4
<1>6. ASSUME NEW q \in BaQueues
      PROVE  Cardinality(BaUnits(BaChargedTo(q), baRoom))' =
               Cardinality(BaUnits(BaChargedTo(q), baRoom)) + (IF baOn[r] = q THEN dn ELSE 0)
  <2>1. /\ BaChargedTo(q) \in SUBSET BaCharged /\ BaChargedTo(q)' \in SUBSET BaCharged'
        /\ \A x \in BaReqs \ {r} : baRoom[x] > 0 => (x \in BaChargedTo(q)' <=> x \in BaChargedTo(q))
    BY DEF BaChargedTo
  <2>2. Cardinality(BaUnits(BaChargedTo(q), baRoom))' = Cardinality(BaUnits(BaChargedTo(q)', baRoom'))
    BY DEF BaUnits
  <2>3. CASE baOn[r] = q
    <3>1. r \in BaChargedTo(q) <=> r \in BaCharged
      BY <2>3 DEF BaChargedTo
    <3>2. r \in BaChargedTo(q)' <=> r \in BaCharged'
      BY <2>3 DEF BaChargedTo
    <3> QED BY <1>2, <2>1, <2>2, <2>3, <3>1, <3>2
  <2>4. CASE baOn[r] # q
    <3>1. r \notin BaChargedTo(q) /\ r \notin BaChargedTo(q)'
      BY <2>4 DEF BaChargedTo
    <3>2. BaChargedTo(q) \in SUBSET BaReqs
      BY ChargedSets
    <3> QED BY <1>1, <1>3, <2>1, <2>2, <2>4, <3>1, <3>2, UnitsFinite
  <2> QED BY <2>3, <2>4
<1>7. ASSUME NEW q \in BaQueues
      PROVE  Cardinality(BaSlotted(q))' = Cardinality(BaSlotted(q)) + (IF baOn[r] = q THEN ds ELSE 0)
  <2>1. IsFiniteSet(BaSlotted(q)) /\ IsFiniteSet(BaSlotted(q)')
    <3>1. BaSlotted(q) \in SUBSET BaReqs /\ BaSlotted(q)' \in SUBSET BaReqs
      BY DEF BaSlotted, BaChargedTo, BaCharged
    <3> QED BY <3>1, FS_Subset, BaAssumption
  <2>2. BaSlotted(q) \ {r} = BaSlotted(q)' \ {r}
    <3>1. ASSUME NEW x \in BaReqs, x # r PROVE x \in BaSlotted(q) <=> x \in BaSlotted(q)'
      BY <3>1 DEF BaSlotted, BaChargedTo
    <3> QED BY <3>1 DEF BaSlotted, BaChargedTo, BaCharged
  <2>3. /\ Cardinality(BaSlotted(q)) \in Nat
        /\ Cardinality(BaSlotted(q)') = Cardinality(BaSlotted(q)) - (IF r \in BaSlotted(q) THEN 1 ELSE 0)
                                          + (IF r \in BaSlotted(q)' THEN 1 ELSE 0)
    BY <2>1, <2>2, CardDiffer
  <2>4. CASE baOn[r] = q
    <3>1. BaSlot(r) = (IF r \in BaSlotted(q) THEN 1 ELSE 0)
      BY <2>4 DEF BaSlot, BaSlotted, BaChargedTo
    <3>2. BaSlot(r)' = (IF r \in BaSlotted(q)' THEN 1 ELSE 0)
      BY <2>4 DEF BaSlot, BaSlotted, BaChargedTo
    <3> QED BY <2>3, <2>4, <3>1, <3>2
  <2>5. CASE baOn[r] # q
    <3>1. r \notin BaSlotted(q) /\ r \notin BaSlotted(q)'
      BY <2>5 DEF BaSlotted, BaChargedTo
    <3> QED BY <2>3, <2>5, <3>1
  <2> QED BY <2>4, <2>5
<1> QED BY <1>4, <1>5, <1>6, <1>7 DEF BaSums

\* What an upload needs beyond its own size when it is ahead of the stream.
BaExtra(r) == IF baAhead[r] THEN 1 ELSE 0

LEMMA FullAs ==
  ASSUME NEW r
  PROVE  BaQueueFull(r) <=> \/ baRes[baOn[r]] + baRoom[r] + BaSpare(r) > BaPerQueue
                            \/ baSlots[baOn[r]] + 1 + BaExtra(r) > BaSlots
PROOF BY Zenon DEF BaQueueFull, BaExtra

LEMMA AheadSame ==
  ASSUME NEW r, baAhead'[r] = baAhead[r]
  PROVE  BaSpare(r)' = BaSpare(r) /\ BaExtra(r)' = BaExtra(r)
PROOF BY Zenon DEF BaSpare, BaExtra

LEMMA AheadType ==
  ASSUME NEW r
  PROVE  BaSpare(r) \in Nat /\ BaExtra(r) \in Nat
PROOF
<1>1. BaLargest \in Nat
  BY BaAssumption
<1> QED BY <1>1 DEF BaSpare, BaExtra

LEMMA RoomIsInt ==
  ASSUME BaTyped, NEW x \in BaReqs
  PROVE  baRoom[x] \in Nat /\ baRoom[x] \in Int /\ baRoom[x] \in 0..BaLargest
PROOF BY BaAssumption DEF BaTyped, BaRooms

\* Upload x waits as it did, and nothing it waits for was given back.
BaStill(x) ==
  /\ baAt[x] = baAt'[x] /\ baOn'[x] = baOn[x] /\ baRoom'[x] = baRoom[x]
  /\ BaSpare(x)' = BaSpare(x) /\ BaExtra(x)' = BaExtra(x)
  /\ baState[baOn[x]] = "open" /\ baSpace'[baOn[x]] = baSpace[baOn[x]]
  /\ baAt[x] = "waitQueue" => /\ baRes'[baOn[x]] >= baRes[baOn[x]]
                              /\ baSlots'[baOn[x]] >= baSlots[baOn[x]]
  /\ baAt[x] = "waitPool" => /\ baUsed' >= baUsed
                             /\ \A n \in BaSpaces : baShare'[n].used >= baShare[n].used

LEMMA AwakeKept ==
  ASSUME BaTyped, BaTyped', BaAwake,
         \A r \in BaReqs :
           baAt'[r] \in {"waitQueue", "waitPool"} /\ baState'[baOn'[r]] = "open" => BaStill(r)
  PROVE  BaAwake'
PROOF
<1> SUFFICES ASSUME NEW x \in BaReqs, baState'[baOn'[x]] = "open"
             PROVE  /\ baAt'[x] = "waitQueue" => BaQueueFull(x)'
                    /\ baAt'[x] = "waitPool" => BaPoolFull(x)'
  BY DEF BaAwake
<1> DEFINE q == baOn[x]
<1>1. /\ q \in BaQueues /\ baRes[q] \in Int /\ baRes'[q] \in Int /\ baSlots[q] \in Int /\ baSlots'[q] \in Int
      /\ baRoom[x] \in Int /\ baUsed \in Int /\ baUsed' \in Int
  BY RoomIsInt, Zenon DEF BaTyped
<1>2. \A n \in BaSpaces : baShare[n].used \in Int /\ baShare'[n].used \in Int
  BY DEF BaTyped
<1>3. baSpace[q] # BaExempt => baSpace[q] \in BaSpaces
  BY <1>1 DEF BaTyped
<1>4. BaPerQueue \in Int /\ BaPerSpace \in Int /\ BaTotal \in Int /\ BaSlots \in Int
  BY BaAssumption
<1>5. BaSpare(x) \in Int /\ BaExtra(x) \in Int /\ 1 \in Int
  BY AheadType
<1>6. CASE baAt'[x] = "waitQueue"
  <2>1. /\ baAt[x] = "waitQueue" /\ baOn'[x] = q /\ baRoom'[x] = baRoom[x]
        /\ BaSpare(x)' = BaSpare(x) /\ BaExtra(x)' = BaExtra(x)
        /\ baState[q] = "open" /\ baRes'[q] >= baRes[q] /\ baSlots'[q] >= baSlots[q]
    BY <1>6 DEF BaStill
  <2>2. \/ baRes[q] + baRoom[x] + BaSpare(x) > BaPerQueue
        \/ baSlots[q] + 1 + BaExtra(x) > BaSlots
    BY <2>1, FullAs DEF BaAwake
  <2>3. \/ baRes'[q] + baRoom[x] + BaSpare(x) > BaPerQueue
        \/ baSlots'[q] + 1 + BaExtra(x) > BaSlots
    BY <1>1, <1>4, <1>5, <2>1, <2>2
  <2>4. BaQueueFull(x)' <=> \/ baRes'[baOn'[x]] + baRoom'[x] + BaSpare(x)' > BaPerQueue
                            \/ baSlots'[baOn'[x]] + 1 + BaExtra(x)' > BaSlots
    BY Zenon DEF BaQueueFull, BaExtra, BaSpare
  <2> QED BY <1>6, <2>1, <2>3, <2>4
<1>7. CASE baAt'[x] = "waitPool"
  <2>1. /\ baAt[x] = "waitPool" /\ baOn'[x] = q /\ baRoom'[x] = baRoom[x]
        /\ BaSpare(x)' = BaSpare(x)
        /\ baState[q] = "open" /\ baUsed' >= baUsed /\ baSpace'[q] = baSpace[q]
        /\ \A n \in BaSpaces : baShare'[n].used >= baShare[n].used
    BY <1>7 DEF BaStill
  <2>2. BaPoolFull(x)
    BY <2>1 DEF BaAwake
  <2>3. \/ baUsed' + baRoom[x] + BaSpare(x) > BaTotal
        \/ baSpace[q] # BaExempt /\ baShare'[baSpace[q]].used + baRoom[x] + BaSpare(x) > BaPerSpace
    BY <1>1, <1>2, <1>3, <1>4, <1>5, <2>1, <2>2 DEF BaPoolFull
  <2> QED BY <1>7, <2>1, <2>3 DEF BaPoolFull
<1> QED BY <1>6, <1>7

\* The account and the directions are as they were.
LEMMA AccountSame ==
  ASSUME BaLimits, BaRefs, baRes' = baRes, baSlots' = baSlots, baUsed' = baUsed, baShare' = baShare,
         baSpace' = baSpace,
         \A q \in BaQueues : baState'[q] \in {"open", "closed"} <=> baState[q] \in {"open", "closed"}
  PROVE  BaLimits' /\ BaRefs'
PROOF BY DEF BaLimits, BaRefs, BaUses

LEMMA BaInit_Inv == BaInit => BaInv
PROOF
<1> SUFFICES ASSUME BaInit PROVE BaInv
  OBVIOUS
<1>1. BaTyped
  <2>1. (CHOOSE q \in BaQueues : TRUE) \in BaQueues
    BY BaAssumption
  <2> QED BY <2>1, BaAssumption DEF BaInit, BaTyped, BaPlaces, BaRooms
<1>2. BaOrderly /\ BaAwake
  BY DEF BaInit, BaOrderly, BaAwake
<1>3. BaCharged = {}
  BY DEF BaInit, BaCharged
<1>4. \A S : S = {} => Cardinality(BaUnits(S, baRoom)) = 0
  BY FS_EmptySet DEF BaUnits
<1>5. BaSums
  <2>1. /\ \A n \in BaSpaces : BaChargedIn(n) = {}
        /\ \A q \in BaQueues : BaChargedTo(q) = {} /\ BaSlotted(q) = {}
    BY <1>3 DEF BaChargedIn, BaChargedTo, BaSlotted
  <2> QED BY <1>3, <1>4, <2>1, FS_EmptySet DEF BaSums, BaInit
<1>6. BaLimits
  BY BaAssumption DEF BaInit, BaLimits
<1>7. BaRefs
  <2>1. \A n \in BaSpaces : BaUses(n) = {}
    BY DEF BaInit, BaUses
  <2> QED BY <2>1, FS_EmptySet DEF BaInit, BaRefs
<1> QED BY <1>1, <1>2, <1>5, <1>6, <1>7 DEF BaInv

\* The steps before an upload is admitted.
LEMMA BaBefore_Inv ==
  ASSUME BaInv, NEW r \in BaReqs,
         \/ \E q \in BaQueues, i \in BaSeqs, n \in BaSizes : BaArrive(r, q, i, n)
         \/ BaLook(r) \/ BaRefuse(r) \/ BaGiveUp(r)
  PROVE  BaInv'
PROOF
<1>1. /\ BaTyped'
      /\ baState' = baState /\ baSpace' = baSpace /\ baRes' = baRes /\ baSlots' = baSlots
      /\ baShare' = baShare /\ baUsed' = baUsed
      /\ baAt[r] \notin {"holding", "held", "queued", "out"}
      /\ baAt'[r] \in {"looking", "asking", "answered"} /\ baState[baOn'[r]] # "none"
      /\ \A x \in BaReqs \ {r} : /\ baAt'[x] = baAt[x] /\ baOn'[x] = baOn[x]
                                 /\ baRoom'[x] = baRoom[x]
  <2>1. CASE \E q \in BaQueues, i \in BaSeqs, n \in BaSizes : BaArrive(r, q, i, n)
    <3>1. PICK q \in BaQueues, i \in BaSeqs, n \in BaSizes : BaArrive(r, q, i, n)
      BY <2>1
    <3>2. n \in 0..BaLargest
      BY BaAssumption
    <3> QED BY <3>1, <3>2 DEF BaArrive, baQueue, baResidency, BaInv, BaTyped, BaRooms, BaPlaces
  <2>2. CASE BaLook(r)
    BY <2>2 DEF BaLook, baQueue, baResidency, BaInv, BaTyped, BaRooms, BaPlaces, BaOrderly
  <2>3. CASE BaRefuse(r)
    BY <2>3 DEF BaRefuse, BaGoes, baQueue, baResidency, BaInv, BaTyped, BaPlaces, BaOrderly
  <2>4. CASE BaGiveUp(r)
    BY <2>4 DEF BaGiveUp, BaGoes, baQueue, baResidency, BaInv, BaTyped, BaPlaces, BaOrderly
  <2> QED BY <2>1, <2>2, <2>3, <2>4
<1>a. \A x \in BaReqs \ {r} : BaSpare(x)' = BaSpare(x) /\ BaExtra(x)' = BaExtra(x)
  <2>1. \A x \in BaReqs \ {r} : baAhead'[x] = baAhead[x]
    BY DEF BaArrive, BaLook, BaRefuse, BaGiveUp, BaInv, BaTyped
  <2> QED BY <2>1, AheadSame, Zenon
<1>2. BaOrderly'
  BY <1>1 DEF BaInv, BaOrderly
<1>3. BaSums'
  <2>1. \A x \in BaReqs : x \in BaCharged' <=> x \in BaCharged
    BY <1>1 DEF BaCharged, BaFreed
  <2>2. \A x \in BaCharged : x \in BaReqs /\ x # r
    BY <1>1 DEF BaCharged
  <2> QED BY <1>1, <2>1, <2>2, SumsSame DEF BaInv
<1>4. BaLimits' /\ BaRefs'
  BY <1>1, AccountSame DEF BaInv
<1>5. BaAwake'
  <2>1. \A n \in BaSpaces : baShare'[n].used >= baShare[n].used
    BY <1>1 DEF BaInv, BaTyped
  <2>2. baUsed' >= baUsed /\ \A q \in BaQueues : baRes'[q] >= baRes[q] /\ baSlots'[q] >= baSlots[q]
    BY <1>1 DEF BaInv, BaTyped
  <2>3. \A x \in BaReqs : baOn[x] \in BaQueues
    BY DEF BaInv, BaTyped
  <2>4. \A x \in BaReqs :
          baAt'[x] \in {"waitQueue", "waitPool"} /\ baState'[baOn'[x]] = "open" => BaStill(x)
    BY <1>1, <1>a, <2>1, <2>2, <2>3 DEF BaStill
  <2> QED BY <1>1, <2>4, AwakeKept DEF BaInv
<1> QED BY <1>1, <1>2, <1>3, <1>4, <1>5 DEF BaInv

LEMMA BaWait_Inv ==
  ASSUME BaInv, NEW r \in BaReqs, BaWait(r)
  PROVE  BaInv'
PROOF
<1>1. /\ baState' = baState /\ baSpace' = baSpace /\ baRes' = baRes /\ baSlots' = baSlots
      /\ baShare' = baShare /\ baUsed' = baUsed
      /\ baOn' = baOn /\ baRoom' = baRoom /\ baAhead' = baAhead
      /\ baAt[r] = "asking"
  BY DEF BaWait, baQueue, baResidency
<1>2. /\ baAt' \in [BaReqs -> BaPlaces] /\ baAt'[r] \in {"waitQueue", "waitPool"}
      /\ \A x \in BaReqs \ {r} : baAt'[x] = baAt[x]
  BY DEF BaWait, BaGoes, BaInv, BaTyped, BaPlaces
<1>3. BaTyped'
  BY <1>1, <1>2 DEF BaInv, BaTyped
<1>4. BaOrderly'
  BY <1>1, <1>2 DEF BaInv, BaOrderly
<1>5. BaSums'
  <2>1. \A x \in BaReqs : x \in BaCharged' <=> x \in BaCharged
    BY <1>1, <1>2 DEF BaCharged, BaFreed
  <2>2. \A x \in BaCharged : x \in BaReqs /\ x # r
    BY <1>1 DEF BaCharged
  <2> QED BY <1>1, <1>2, <1>3, <2>1, <2>2, SumsSame DEF BaInv
<1>6. BaLimits' /\ BaRefs'
  BY <1>1, AccountSame DEF BaInv
<1>7. BaAwake'
  <2>1. \A x \in BaReqs : (BaQueueFull(x)' <=> BaQueueFull(x)) /\ (BaPoolFull(x)' <=> BaPoolFull(x))
    BY <1>1 DEF BaQueueFull, BaPoolFull, BaSpare
  <2>2. (baAt'[r] = "waitQueue" => BaQueueFull(r)) /\ (baAt'[r] = "waitPool" => BaPoolFull(r))
    BY DEF BaWait, BaGoes, BaInv, BaTyped
  <2> QED BY <1>1, <1>2, <2>1, <2>2 DEF BaInv, BaAwake
<1> QED BY <1>3, <1>4, <1>5, <1>6, <1>7 DEF BaInv

\* reserveLocked, with room at every level or with nothing to count.
LEMMA BaReserve_Inv ==
  ASSUME BaInv, NEW r \in BaReqs, BaReserve(r) \/ BaEmpty(r)
  PROVE  BaInv'
PROOF
<1> DEFINE n == baRoom[r]
           s == IF n > 0 THEN 1 ELSE 0
           q == baOn[r]
<1>1. /\ baState' = baState /\ baSpace' = baSpace /\ baOn' = baOn /\ baRoom' = baRoom /\ baAhead' = baAhead
      /\ baAt[r] = "asking" /\ baState[q] = "open"
      /\ baAt' \in [BaReqs -> BaPlaces] /\ baAt'[r] = "holding"
      /\ \A x \in BaReqs \ {r} : baAt'[x] = baAt[x]
  BY DEF BaReserve, BaEmpty, BaGoes, baQueue, BaInv, BaTyped, BaPlaces
<1>2. n \in Nat /\ s \in Nat /\ q \in BaQueues
  BY RoomIsInt DEF BaInv, BaTyped
<1>3. /\ baUsed' = baUsed + n
      /\ baRes' \in [BaQueues -> Int] /\ baSlots' \in [BaQueues -> Int]
      /\ \A p \in BaQueues : /\ baRes'[p] = baRes[p] + (IF q = p THEN n ELSE 0)
                             /\ baSlots'[p] = baSlots[p] + (IF q = p THEN s ELSE 0)
      /\ baShare' \in [BaSpaces -> [used : Int, refs : Int]]
      /\ \A m \in BaSpaces : /\ baShare'[m].used = baShare[m].used + (IF baSpace[q] = m THEN n ELSE 0)
                             /\ baShare'[m].refs = baShare[m].refs
  <2>1. CASE BaEmpty(r)
    <3>1. n = 0 /\ s = 0 /\ baRes' = baRes /\ baSlots' = baSlots /\ baUsed' = baUsed /\ baShare' = baShare
      BY <2>1 DEF BaEmpty, baQueue, baResidency
    <3> QED BY <3>1 DEF BaInv, BaTyped
  <2>2. CASE BaReserve(r)
    <3>1. /\ n > 0 /\ s = 1
          /\ baRes' = [baRes EXCEPT ![q] = @ + n] /\ baSlots' = [baSlots EXCEPT ![q] = @ + 1]
          /\ baUsed' = baUsed + n
          /\ baShare' = IF baSpace[q] = BaExempt THEN baShare
                        ELSE [baShare EXCEPT ![baSpace[q]].used = @ + n]
      BY <2>2 DEF BaReserve
    <3> HIDE DEF s, n
    <3>2. CASE baSpace[q] = BaExempt
      BY <1>2, <3>1, <3>2, BaAssumption DEF BaInv, BaTyped
    <3>3. CASE baSpace[q] # BaExempt
      <4>1. baSpace[q] \in BaSpaces
        BY <1>2, <3>3 DEF BaInv, BaTyped
      <4> QED BY <1>2, <3>1, <3>3, <4>1 DEF BaInv, BaTyped
    <3> QED BY <3>2, <3>3
  <2> QED BY <2>1, <2>2
<1>4. BaTyped'
  BY <1>1, <1>2, <1>3 DEF BaInv, BaTyped
<1>5. BaOrderly'
  BY <1>1 DEF BaInv, BaOrderly
<1>6. BaSums'
  <2>1. r \notin BaCharged /\ r \in BaCharged'
    BY <1>1 DEF BaCharged, BaFreed
  <2>2. \A x \in BaReqs \ {r} : x \in BaCharged' <=> x \in BaCharged
    BY <1>1 DEF BaCharged, BaFreed
  <2>3. BaPart(r, BaCharged', baRoom') = BaPart(r, BaCharged, baRoom) + n
    BY <1>1, <1>2, <2>1 DEF BaPart
  <2>4. BaSlot(r)' = BaSlot(r) + s
    BY <1>1, <1>2, <2>1 DEF BaSlot
  <2> HIDE DEF n, s
  <2>5. n \in Int /\ s \in Int
    BY <1>2
  <2> QED BY <1>1, <1>3, <1>4, <2>2, <2>3, <2>4, <2>5, SumsOne DEF BaInv
<1>7. BaLimits'
  <2>1. CASE BaEmpty(r)
    <3>1. baRes' = baRes /\ baSlots' = baSlots /\ baUsed' = baUsed /\ baShare' = baShare
      BY <2>1 DEF BaEmpty, baQueue, baResidency
    <3> QED BY <3>1 DEF BaInv, BaLimits
  <2>2. CASE BaReserve(r)
    <3>1. ~BaQueueFull(r) /\ ~BaPoolFull(r) /\ n > 0
      BY <2>2 DEF BaReserve
    <3>2. BaSpare(r) \in Nat /\ BaExtra(r) \in Nat
      BY AheadType
    <3>3. /\ BaPerQueue \in Nat /\ BaPerSpace \in Nat /\ BaTotal \in Nat /\ BaSlots \in Nat
          /\ BaExempt \notin BaSpaces
      BY BaAssumption
    <3>4. baUsed + n <= BaTotal
      BY <1>2, <3>1, <3>2, <3>3 DEF BaPoolFull, BaInv, BaTyped
    <3>5. baRes[q] + n <= BaPerQueue /\ baSlots[q] + 1 <= BaSlots
      BY <1>2, <3>1, <3>2, <3>3, FullAs DEF BaInv, BaTyped
    <3>6. baSpace[q] \in BaSpaces => baShare[baSpace[q]].used + n <= BaPerSpace
      BY <1>2, <3>1, <3>2, <3>3 DEF BaPoolFull, BaInv, BaTyped
    <3> HIDE DEF n
    <3> QED BY <1>2, <1>3, <3>1, <3>4, <3>5, <3>6 DEF BaInv, BaLimits, BaTyped
  <2> QED BY <2>1, <2>2
<1>8. BaRefs'
  <2>1. \A m \in BaSpaces : BaUses(m)' = BaUses(m)
    BY <1>1 DEF BaUses
  <2> QED BY <1>3, <2>1 DEF BaInv, BaRefs
<1>9. BaAwake'
  <2>1. \A x \in BaReqs : BaSpare(x)' = BaSpare(x) /\ BaExtra(x)' = BaExtra(x)
    BY <1>1, AheadSame
  <2>2. /\ baUsed' >= baUsed /\ \A m \in BaSpaces : baShare'[m].used >= baShare[m].used
        /\ \A p \in BaQueues : baRes'[p] >= baRes[p] /\ baSlots'[p] >= baSlots[p]
    BY <1>2, <1>3, SMTT(40) DEF BaInv, BaTyped
  <2>3. \A x \in BaReqs : baOn[x] \in BaQueues
    BY DEF BaInv, BaTyped
  <2>4. \A x \in BaReqs :
          baAt'[x] \in {"waitQueue", "waitPool"} /\ baState'[baOn'[x]] = "open" => BaStill(x)
    BY <1>1, <2>1, <2>2, <2>3 DEF BaStill
  <2> QED BY <1>4, <2>4, AwakeKept DEF BaInv
<1> QED BY <1>4, <1>5, <1>6, <1>7, <1>8, <1>9 DEF BaInv

\* Room goes back and nothing else of the account changes.
LEMMA RepaidAccount ==
  ASSUME BaInv, BaTyped', NEW q \in BaQueues, NEW n \in Nat, NEW s \in Nat, NEW at,
         BaRepaid(q, n, s), BaWoken(q, n, s, at),
         baState' = baState, baSpace' = baSpace, baOn' = baOn, baAhead' = baAhead,
         \A x \in BaReqs : baAt[x] \in {"waitQueue", "waitPool"} => at[x] = baAt[x] /\ baRoom'[x] = baRoom[x],
         \A x \in BaReqs : at[x] \in {"waitQueue", "waitPool"} => at[x] = baAt[x]
  PROVE  BaLimits' /\ BaRefs' /\ BaAwake'
PROOF
<1>1. BaBack(q, n) \in Nat /\ BaBack(q, s) \in Nat
  BY DEF BaBack
<1>2. BaLimits'
  <2>1. BaPerQueue \in Nat /\ BaPerSpace \in Nat /\ BaTotal \in Nat /\ BaSlots \in Nat
    BY BaAssumption
  <2>2. baUsed' <= baUsed
    BY <1>1 DEF BaRepaid, BaInv, BaTyped
  <2>3. \A m \in BaSpaces : baShare'[m].used <= baShare[m].used
    BY <1>1 DEF BaRepaid, BaInv, BaTyped
  <2>4. \A p \in BaQueues : baRes'[p] <= baRes[p] /\ baSlots'[p] <= baSlots[p]
    BY <1>1 DEF BaRepaid, BaInv, BaTyped
  <2> QED BY <2>1, <2>2, <2>3, <2>4 DEF BaInv, BaTyped, BaLimits
<1>3. BaRefs'
  <2>1. \A m \in BaSpaces : BaUses(m)' = BaUses(m)
    BY DEF BaUses
  <2> QED BY <2>1 DEF BaInv, BaRefs, BaRepaid
<1>4. BaAwake'
  <2>1. ASSUME NEW x \in BaReqs, baAt'[x] \in {"waitQueue", "waitPool"}, baState'[baOn'[x]] = "open"
        PROVE  BaStill(x)
    <3>1. baAt'[x] = at[x] /\ at[x] = baAt[x] /\ baRoom'[x] = baRoom[x]
      BY <2>1 DEF BaWoken
    <3>2. BaSpare(x)' = BaSpare(x) /\ BaExtra(x)' = BaExtra(x)
      BY AheadSame
    <3>3. baAt[x] = "waitQueue" => baRes'[baOn[x]] >= baRes[baOn[x]] /\ baSlots'[baOn[x]] >= baSlots[baOn[x]]
      BY <1>1, <2>1, <3>1 DEF BaWoken, BaRepaid, BaInv, BaTyped
    <3>4. baAt[x] = "waitPool" => baUsed' >= baUsed /\ \A m \in BaSpaces : baShare'[m].used >= baShare[m].used
      BY <1>1, <2>1, <3>1 DEF BaWoken, BaRepaid, BaInv, BaTyped
    <3> QED BY <2>1, <3>1, <3>2, <3>3, <3>4 DEF BaStill
  <2> QED BY <2>1, AwakeKept DEF BaInv
<1> QED BY <1>2, <1>3, <1>4

\* The uploads after keepLocked for upload r: r itself has its place, and uploads
\* held behind it may have theirs.
BaSettles(r, used, at) ==
  /\ at \in [BaReqs -> BaPlaces]
  /\ \A x \in BaReqs \ {r} : at[x] = baAt[x] \/ (baAt[x] = "held" /\ at[x] = BaPlaced(baRoom[x]))
  /\ at[r] \in {"held", "queued", "answered"}
  /\ at[r] = "answered" => used = 0
  /\ at[r] = "queued" => used > 0
  /\ at[r] # "answered" => baState[baOn[r]] = "open"

LEMMA BaKept_Inv ==
  ASSUME BaInv, NEW r \in BaReqs, NEW used \in 0..baRoom[r], NEW at, NEW stream \in BOOLEAN,
         baAt[r] = "holding", BaSettles(r, used, at), BaKept(r, used, at, stream),
         baRoom' \in BaRooms, baRoom'[r] = used, \A x \in BaReqs \ {r} : baRoom'[x] = baRoom[x],
         baState' = baState, baSpace' = baSpace, baOn' = baOn, baAhead' = baAhead
  PROVE  BaInv'
PROOF
<1> DEFINE n == baRoom[r] - used
           s == IF baRoom[r] > 0 /\ used = 0 THEN 1 ELSE 0
           q == baOn[r]
<1>1. n \in Nat /\ s \in Nat /\ q \in BaQueues /\ baRoom[r] \in Nat /\ used \in Nat /\ BaLargest \in Nat
      /\ used <= baRoom[r] /\ baRoom[r] <= BaLargest
  BY RoomIsInt, BaAssumption DEF BaInv, BaTyped
<1>2. BaRepaid(q, n, s) /\ BaWoken(q, n, s, at)
  <2>1. at \in [BaReqs -> BaPlaces]
    BY DEF BaSettles
  <2>2. BaReleased(q, n, s, at, stream)
    BY Zenon DEF BaKept
  <2> HIDE DEF n, s
  <2> QED BY <1>1, <2>1, <2>2, ReleasedEffect DEF BaInv
<1>3. /\ \A x \in BaReqs : baAt[x] \notin {"waitQueue", "waitPool"} => baAt'[x] = at[x]
      /\ \A x \in BaReqs : baAt[x] \in {"waitQueue", "waitPool"}
           => at[x] = baAt[x] /\ x # r /\ baAt'[x] \in {baAt[x], "asking", "looking"}
  BY <1>2 DEF BaWoken, BaSettles
<1>4. /\ baRoom' \in BaRooms /\ baRoom'[r] = used
      /\ \A x \in BaReqs \ {r} : baRoom'[x] = baRoom[x]
  OBVIOUS
<1>5. BaTyped'
  BY <1>1, <1>2, <1>4 DEF BaRepaid, BaWoken, BaInv, BaTyped, BaBack
<1>6. BaOrderly'
  BY <1>3, <1>4 DEF BaInv, BaOrderly, BaSettles, BaPlaced
<1>7. BaSums'
  <2>1. \A x \in BaReqs \ {r} : baRoom[x] > 0 => /\ x \in BaCharged' <=> x \in BaCharged
                                                 /\ baAt'[x] = "out" <=> baAt[x] = "out"
    BY <1>3 DEF BaCharged, BaFreed, BaSettles, BaPlaced, BaInv, BaOrderly
  <2>2. baAt'[r] = at[r]
    BY <1>3
  <2>3. BaPart(r, BaCharged', baRoom') = BaPart(r, BaCharged, baRoom) + (-BaBack(q, n))
    BY <1>1, <1>4, <2>2 DEF BaPart, BaCharged, BaFreed, BaBack, BaSettles
  <2>4. BaSlot(r)' = BaSlot(r) + (-BaBack(q, s))
    BY <1>1, <1>4, <2>2 DEF BaSlot, BaCharged, BaFreed, BaBack, BaSettles
  <2> HIDE DEF n, s
  <2>5. BaBack(q, n) \in Int /\ BaBack(q, s) \in Int
    BY <1>1 DEF BaBack
  <2>6. PICK dn \in Int, ds \in Int : dn = -BaBack(q, n) /\ ds = -BaBack(q, s)
    BY <2>5
  <2>7. /\ BaPart(r, BaCharged', baRoom') = BaPart(r, BaCharged, baRoom) + dn
        /\ BaSlot(r)' = BaSlot(r) + ds
    BY <2>3, <2>4, <2>6
  <2>8. baUsed' = baUsed + dn
    BY <1>2, <2>5, <2>6 DEF BaRepaid, BaInv, BaTyped
  <2>9. \A m \in BaSpaces : baShare'[m].used = baShare[m].used + (IF baSpace[baOn[r]] = m THEN dn ELSE 0)
    BY <1>2, <2>5, <2>6 DEF BaRepaid, BaInv, BaTyped
  <2>10. \A p \in BaQueues : /\ baRes'[p] = baRes[p] + (IF baOn[r] = p THEN dn ELSE 0)
                             /\ baSlots'[p] = baSlots[p] + (IF baOn[r] = p THEN ds ELSE 0)
    BY <1>2, <2>5, <2>6 DEF BaRepaid, BaInv, BaTyped
  <2>11. \A x \in BaReqs \ {r} :
           /\ baRoom'[x] = baRoom[x]
           /\ baRoom[x] > 0 => /\ x \in BaCharged' <=> x \in BaCharged
                               /\ baAt'[x] = "out" <=> baAt[x] = "out"
    BY <1>4, <2>1
  <2>12. BaTyped /\ BaSums
    BY DEF BaInv
  <2> QED BY <1>5, <2>7, <2>8, <2>9, <2>10, <2>11, <2>12, SumsOne
<1>8. BaLimits' /\ BaRefs' /\ BaAwake'
  <2>1. \A x \in BaReqs : baAt[x] \in {"waitQueue", "waitPool"} => at[x] = baAt[x] /\ baRoom'[x] = baRoom[x]
    BY <1>3, <1>4
  <2>2. \A x \in BaReqs : at[x] \in {"waitQueue", "waitPool"} => at[x] = baAt[x]
    BY DEF BaSettles, BaPlaced
  <2> HIDE DEF n, s
  <2> QED BY <1>1, <1>2, <1>5, <2>1, <2>2, RepaidAccount
<1> QED BY <1>5, <1>6, <1>7, <1>8 DEF BaInv

LEMMA RoomKept ==
  ASSUME BaTyped, NEW r \in BaReqs, NEW used \in 0..baRoom[r], baRoom' = [baRoom EXCEPT ![r] = used]
  PROVE  baRoom' \in BaRooms /\ baRoom'[r] = used /\ \A x \in BaReqs \ {r} : baRoom'[x] = baRoom[x]
PROOF BY RoomIsInt, BaAssumption DEF BaTyped, BaRooms

\* unreserve, enqueue and commitSeq: an upload with room is turned away, held or
\* put in its place.
LEMMA BaHolding_Inv ==
  ASSUME BaInv, NEW r \in BaReqs,
         \/ BaUnreserve(r) \/ BaTurnAway(r)
         \/ \E used \in 0..BaLargest : BaHold(r, used) \/ BaEnqueue(r, used)
  PROVE  BaInv'
PROOF
<1>1. baAt \in [BaReqs -> BaPlaces] /\ BaTyped /\ baRoom[r] \in Nat
  BY RoomIsInt DEF BaInv, BaTyped
<1>2. CASE BaUnreserve(r) \/ BaTurnAway(r)
  <2> DEFINE at == [baAt EXCEPT ![r] = "answered"]
  <2>1. /\ baAt[r] = "holding" /\ BaKept(r, 0, at, FALSE) /\ baRoom' = [baRoom EXCEPT ![r] = 0]
        /\ baState' = baState /\ baSpace' = baSpace /\ baOn' = baOn /\ baAhead' = baAhead
    BY <1>2 DEF BaUnreserve, BaTurnAway
  <2>2. BaSettles(r, 0, at)
    BY <1>1 DEF BaSettles, BaPlaces
  <2> HIDE DEF at
  <2>3. 0 \in 0..baRoom[r]
    BY <1>1
  <2>4. baRoom' \in BaRooms /\ baRoom'[r] = 0 /\ \A x \in BaReqs \ {r} : baRoom'[x] = baRoom[x]
    BY <1>1, <2>1, <2>3, RoomKept, Zenon
  <2> QED BY <2>1, <2>2, <2>3, <2>4, BaKept_Inv, Zenon
<1>3. ASSUME NEW used \in 0..BaLargest, BaHold(r, used)
      PROVE  BaInv'
  <2> DEFINE at == [baAt EXCEPT ![r] = "held"]
  <2>1. /\ baAt[r] = "holding" /\ BaKept(r, used, at, FALSE) /\ baRoom' = [baRoom EXCEPT ![r] = used]
        /\ baState' = baState /\ baSpace' = baSpace /\ baOn' = baOn /\ baAhead' = baAhead
        /\ baState[baOn[r]] = "open" /\ used <= baRoom[r]
    BY <1>3 DEF BaHold
  <2>2. BaSettles(r, used, at)
    BY <1>1, <2>1 DEF BaSettles, BaPlaces
  <2> HIDE DEF at
  <2>3. used \in 0..baRoom[r]
    BY <1>1, <2>1, BaAssumption
  <2>4. baRoom' \in BaRooms /\ baRoom'[r] = used /\ \A x \in BaReqs \ {r} : baRoom'[x] = baRoom[x]
    BY <1>1, <2>1, <2>3, RoomKept, Zenon
  <2> QED BY <2>1, <2>2, <2>3, <2>4, BaKept_Inv, Zenon
<1>4. ASSUME NEW used \in 0..BaLargest, BaEnqueue(r, used)
      PROVE  BaInv'
  <2> DEFINE next == IF baSeq[r] = 0 THEN baNext[baOn[r]] ELSE BaAfter(baOn[r], baSeq[r])
             at == [h \in BaReqs |->
                      IF h = r THEN BaPlaced(used)
                      ELSE IF h \in BaHeld(baOn[r]) /\ baSeq[h] < next THEN BaPlaced(baRoom[h])
                      ELSE baAt[h]]
             stream == baSeq[r] # 0
  <2>1. /\ baAt[r] = "holding" /\ BaKept(r, used, at, stream) /\ baRoom' = [baRoom EXCEPT ![r] = used]
        /\ baState' = baState /\ baSpace' = baSpace /\ baOn' = baOn /\ baAhead' = baAhead
        /\ baState[baOn[r]] = "open" /\ used <= baRoom[r]
    BY <1>4, Zenon DEF BaEnqueue
  <2>2. BaSettles(r, used, at)
    <3> HIDE DEF next
    <3>1. at \in [BaReqs -> BaPlaces]
      BY <1>1 DEF BaPlaces, BaPlaced
    <3>2. \A x \in BaReqs \ {r} : at[x] = baAt[x] \/ (baAt[x] = "held" /\ at[x] = BaPlaced(baRoom[x]))
      BY DEF BaHeld
    <3>3. at[r] = BaPlaced(used)
      OBVIOUS
    <3>4. used \in Nat
      BY BaAssumption
    <3> HIDE DEF at
    <3> QED BY <2>1, <3>1, <3>2, <3>3, <3>4 DEF BaSettles, BaPlaced
  <2>3. stream \in BOOLEAN
    OBVIOUS
  <2> HIDE DEF at, stream
  <2>4. used \in 0..baRoom[r]
    BY <1>1, <2>1, BaAssumption
  <2>5. baRoom' \in BaRooms /\ baRoom'[r] = used /\ \A x \in BaReqs \ {r} : baRoom'[x] = baRoom[x]
    BY <1>1, <2>1, <2>4, RoomKept, Zenon
  <2> QED BY <2>1, <2>2, <2>3, <2>4, <2>5, BaKept_Inv, Zenon
<1> QED BY <1>2, <1>3, <1>4

\* drainUpTo: slots come back, and bytes do not.
LEMMA BaDrain_Inv ==
  ASSUME BaInv, NEW q \in BaQueues, NEW taken \in SUBSET BaReqs, BaDrain(q, taken)
  PROVE  BaInv'
PROOF
<1> DEFINE at == [r \in BaReqs |-> IF r \in taken THEN "out" ELSE baAt[r]]
           s == Cardinality(taken)
<1>1. /\ \A r \in taken : baAt[r] = "queued" /\ baOn[r] = q
      /\ BaReleased(q, 0, s, at, FALSE)
      /\ baState' = baState /\ baSpace' = baSpace /\ baOn' = baOn /\ baRoom' = baRoom /\ baAhead' = baAhead
  BY DEF BaDrain
<1>2. /\ at \in [BaReqs -> BaPlaces] /\ \A x \in BaReqs : at[x] = IF x \in taken THEN "out" ELSE baAt[x]
  BY DEF BaInv, BaTyped, BaPlaces
<1>3. IsFiniteSet(taken) /\ s \in Nat
  BY FS_Subset, FS_CardinalityType, BaAssumption
<1> HIDE DEF at, s
<1>4. BaRepaid(q, 0, s) /\ BaWoken(q, 0, s, at)
  BY <1>1, <1>2, <1>3, ReleasedEffect DEF BaInv
<1>5. /\ \A x \in BaReqs : baAt[x] \notin {"waitQueue", "waitPool"} => baAt'[x] = at[x]
      /\ \A x \in BaReqs : baAt[x] \in {"waitQueue", "waitPool"}
           => at[x] = baAt[x] /\ baAt'[x] \in {baAt[x], "asking", "looking"}
  BY <1>1, <1>2, <1>4 DEF BaWoken
<1>6. BaTyped'
  BY <1>1, <1>3, <1>4 DEF BaRepaid, BaWoken, BaInv, BaTyped, BaBack
<1>7. BaOrderly'
  BY <1>1, <1>2, <1>5 DEF BaInv, BaOrderly
<1>8. BaSums'
  <2>1. BaBack(q, 0) = 0
    BY DEF BaBack
  <2>2. /\ baUsed' = baUsed /\ \A n \in BaSpaces : baShare'[n].used = baShare[n].used
        /\ \A p \in BaQueues : baRes'[p] = baRes[p]
    BY <1>4, <2>1 DEF BaRepaid, BaInv, BaTyped
  <2>3. BaCharged' = BaCharged
    BY <1>1, <1>2, <1>5 DEF BaCharged, BaFreed
  <2>4. /\ \A n \in BaSpaces : BaChargedIn(n)' = BaChargedIn(n)
        /\ \A p \in BaQueues : BaChargedTo(p)' = BaChargedTo(p)
    BY <1>1, <2>3 DEF BaChargedIn, BaChargedTo
  <2>5. /\ \A n \in BaSpaces : BaUnits(BaChargedIn(n), baRoom)' = BaUnits(BaChargedIn(n), baRoom)
        /\ \A p \in BaQueues : BaUnits(BaChargedTo(p), baRoom)' = BaUnits(BaChargedTo(p), baRoom)
        /\ BaUnits(BaCharged, baRoom)' = BaUnits(BaCharged, baRoom)
    BY <1>1, <2>3, <2>4 DEF BaUnits
  <2>6. ASSUME NEW p \in BaQueues
        PROVE  baSlots'[p] = Cardinality(BaSlotted(p)')
    <3>1. BaSlotted(p)' = IF p = q THEN BaSlotted(p) \ taken ELSE BaSlotted(p)
      <4>1. \A x \in BaReqs : baAt'[x] = "out" <=> baAt[x] = "out" \/ x \in taken
        BY <1>1, <1>2, <1>5
      <4> QED BY <1>1, <2>4, <4>1 DEF BaSlotted, BaChargedTo, BaCharged
    <3>2. CASE p # q
      BY <1>4, <3>1, <3>2 DEF BaRepaid, BaInv, BaSums, BaTyped
    <3>3. CASE p = q
      <4>1. \A x \in taken : x \in BaSlotted(q)
        BY <1>1 DEF BaSlotted, BaChargedTo, BaCharged, BaFreed, BaInv, BaOrderly
      <4>2. taken \cap BaSlotted(q) = taken /\ BaSlotted(q) \cap taken = taken
        BY <4>1
      <4>3. IsFiniteSet(BaSlotted(q))
        BY ChargedSets DEF BaInv
      <4>4. Cardinality(BaSlotted(q) \ taken) = Cardinality(BaSlotted(q)) - s
        <5>1. Cardinality(BaSlotted(q) \ taken) = Cardinality(BaSlotted(q)) - Cardinality(BaSlotted(q) \cap taken)
          BY <4>3, FS_Difference, Zenon
        <5> QED BY <4>2, <5>1 DEF s
      <4>5. BaBack(q, s) = s
        <5>1. CASE taken = {}
          BY <5>1, FS_EmptySet DEF BaBack, s
        <5>2. CASE taken # {}
          BY <1>1, <5>2 DEF BaBack, BaFreed, BaInv, BaOrderly
        <5> QED BY <5>1, <5>2
      <4>6. baSlots'[q] = baSlots[q] - s
        BY <1>4, <4>5 DEF BaRepaid
      <4> QED BY <3>1, <3>3, <4>4, <4>6 DEF BaInv, BaSums
    <3> QED BY <3>2, <3>3
  <2> QED BY <2>2, <2>5, <2>6 DEF BaInv, BaSums
<1>9. BaLimits' /\ BaRefs' /\ BaAwake'
  <2>1. \A x \in BaReqs : baAt[x] \in {"waitQueue", "waitPool"} => at[x] = baAt[x] /\ baRoom'[x] = baRoom[x]
    BY <1>1, <1>5
  <2>2. \A x \in BaReqs : at[x] \in {"waitQueue", "waitPool"} => at[x] = baAt[x]
    BY <1>2
  <2> QED BY <1>1, <1>3, <1>4, <1>6, <2>1, <2>2, RepaidAccount
<1> QED BY <1>6, <1>7, <1>8, <1>9 DEF BaInv

\* What an acknowledgement takes from a set of uploads.
LEMMA UnitsAcked ==
  ASSUME NEW room \in BaRooms, NEW left \in BaRooms, NEW out \in SUBSET BaReqs,
         \A r \in BaReqs : left[r] <= room[r] /\ (left[r] < room[r] => r \in out),
         NEW S \in SUBSET BaReqs
  PROVE  LET n == Cardinality(BaUnits(out, room) \ BaUnits(out, left))
         IN /\ n \in Nat
            /\ out \subseteq S =>
                 Cardinality(BaUnits(S, left)) = Cardinality(BaUnits(S, room)) - n
            /\ out \cap S = {} => BaUnits(S, left) = BaUnits(S, room)
PROOF
<1> DEFINE D == BaUnits(out, room) \ BaUnits(out, left)
<1>1. \A r \in BaReqs : left[r] \in Nat /\ room[r] \in Nat
  BY BaAssumption DEF BaRooms
<1>2. IsFiniteSet(D) /\ Cardinality(D) \in Nat
  BY UnitsFinite, FS_Difference, FS_CardinalityType
<1>3. ASSUME out \cap S = {} PROVE BaUnits(S, left) = BaUnits(S, room)
  <2>1. ASSUME NEW r \in S PROVE left[r] = room[r]
    BY <1>1, <1>3, <2>1
  <2> QED BY <2>1 DEF BaUnits
<1>4. ASSUME out \subseteq S
      PROVE  Cardinality(BaUnits(S, left)) = Cardinality(BaUnits(S, room)) - Cardinality(D)
  <2>1. BaUnits(S, left) = BaUnits(S, room) \ D
    <3>1. ASSUME NEW r \in BaReqs, NEW k \in 1..BaLargest
          PROVE  r \in S /\ k <= left[r] <=>
                   (r \in S /\ k <= room[r]) /\ ~((r \in out /\ k <= room[r]) /\ ~(r \in out /\ k <= left[r]))
      <4>1. k \in Nat /\ left[r] \in Nat /\ room[r] \in Nat /\ left[r] <= room[r]
        BY <1>1, BaAssumption
      <4>2. CASE r \in out
        BY <1>4, <4>1, <4>2
      <4>3. CASE r \notin out
        <5>1. left[r] = room[r]
          BY <4>1, <4>3
        <5> QED BY <4>3, <5>1
      <4> QED BY <4>2, <4>3
    <3>2. ASSUME NEW u \in BaReqs \X (1..BaLargest)
          PROVE  u \in BaUnits(S, left) <=> u \in BaUnits(S, room) \ D
      <4>1. u[1] \in BaReqs /\ u[2] \in 1..BaLargest
        BY <3>2
      <4> QED BY <3>1, <3>2, <4>1, Zenon DEF BaUnits
    <3>3. /\ \A u \in BaUnits(S, left) : u \in BaReqs \X (1..BaLargest)
          /\ \A u \in BaUnits(S, room) : u \in BaReqs \X (1..BaLargest)
      BY DEF BaUnits
    <3> HIDE DEF D
    <3> QED BY <3>2, <3>3
  <2>2. BaUnits(S, room) \cap D = D
    BY <1>4, Zenon DEF BaUnits
  <2>3. IsFiniteSet(BaUnits(S, room))
    BY UnitsFinite
  <2> HIDE DEF D
  <2>4. Cardinality(BaUnits(S, room) \ D) = Cardinality(BaUnits(S, room)) - Cardinality(BaUnits(S, room) \cap D)
    BY <2>3, FS_Difference, Zenon
  <2> QED BY <2>1, <2>2, <2>4, Zenon
<1> QED BY <1>2, <1>3, <1>4

LEMMA BaAck_Inv ==
  ASSUME BaInv, NEW q \in BaQueues, NEW left \in BaRooms, BaAck(q, left)
  PROVE  BaInv'
PROOF
<1> DEFINE out == {r \in BaReqs : baAt[r] = "out" /\ baOn[r] = q}
           at == [r \in BaReqs |-> IF r \in out /\ left[r] = 0 THEN "answered" ELSE baAt[r]]
           n == Cardinality(BaUnits(out, baRoom) \ BaUnits(out, left))
<1>1. /\ \A r \in BaReqs : left[r] <= baRoom[r] /\ (left[r] < baRoom[r] => r \in out)
      /\ BaReleased(q, n, 0, at, FALSE) /\ left # baRoom /\ baRoom' = left
      /\ baState' = baState /\ baSpace' = baSpace /\ baOn' = baOn /\ baAhead' = baAhead
  BY DEF BaAck
<1>2. /\ at \in [BaReqs -> BaPlaces]
      /\ \A x \in BaReqs : at[x] = IF x \in out /\ left[x] = 0 THEN "answered" ELSE baAt[x]
  BY DEF BaInv, BaTyped, BaPlaces
<1>3. out \in SUBSET BaReqs /\ \A x \in BaReqs : x \in out <=> baAt[x] = "out" /\ baOn[x] = q
  OBVIOUS
<1>4. /\ baRoom \in BaRooms /\ left \in BaRooms
      /\ \A x \in BaReqs : left[x] \in Nat /\ baRoom[x] \in Nat
  BY BaAssumption DEF BaInv, BaTyped, BaRooms
<1>5. n \in Nat
  BY <1>1, <1>4, UnitsAcked
<1> HIDE DEF at, out
<1>6. BaRepaid(q, n, 0) /\ BaWoken(q, n, 0, at)
  <2> HIDE DEF n
  <2> QED BY <1>1, <1>2, <1>5, ReleasedEffect DEF BaInv
<1>7. /\ \A x \in BaReqs : baAt[x] \notin {"waitQueue", "waitPool"} => baAt'[x] = at[x]
      /\ \A x \in BaReqs : baAt[x] \in {"waitQueue", "waitPool"}
           => at[x] = baAt[x] /\ x \notin out /\ baAt'[x] \in {baAt[x], "asking", "looking"}
  BY <1>2, <1>3, <1>6 DEF BaWoken
<1>8. \A x \in BaReqs : x \notin out => left[x] = baRoom[x]
  BY <1>1, <1>4
<1>9. ~BaFreed(q)
  <2>1. PICK r \in BaReqs : left[r] # baRoom[r]
    BY <1>1, <1>4 DEF BaRooms
  <2> QED BY <1>3, <1>8, <2>1 DEF BaFreed, BaInv, BaOrderly
<1>10. BaTyped'
  BY <1>1, <1>4, <1>5, <1>6 DEF BaRepaid, BaWoken, BaInv, BaTyped, BaBack
<1>11. BaOrderly'
  BY <1>1, <1>2, <1>3, <1>4, <1>7, <1>8 DEF BaInv, BaOrderly
<1>12. BaSums'
  <2>1. BaBack(q, n) = n /\ BaBack(q, 0) = 0
    BY <1>9 DEF BaBack
  <2>2. \A x \in BaReqs : (left[x] > 0 => (x \in BaCharged' <=> x \in BaCharged)) /\ (x \in BaCharged' => x \in BaCharged)
    BY <1>1, <1>2, <1>3, <1>4, <1>7 DEF BaCharged, BaFreed
  <2>3. out \subseteq BaCharged
    BY <1>3, <1>9 DEF BaCharged, BaFreed
  <2>4. ASSUME NEW S \in SUBSET BaReqs, NEW T \in SUBSET S, \A x \in S : left[x] > 0 => x \in T
        PROVE  BaUnits(T, left) = BaUnits(S, left)
    <3>1. ASSUME NEW x \in S, NEW k \in 1..BaLargest, k <= left[x]
          PROVE  x \in T
      BY <1>4, <2>4, <3>1
    <3> QED BY <2>4, <3>1 DEF BaUnits
  <2>5. Cardinality(BaUnits(BaCharged', left)) = Cardinality(BaUnits(BaCharged, baRoom)) - n
    <3>1. BaCharged \in SUBSET BaReqs /\ BaCharged' \in SUBSET BaCharged
      BY <2>2 DEF BaCharged
    <3>2. BaUnits(BaCharged', left) = BaUnits(BaCharged, left)
      BY <2>2, <2>4, <3>1
    <3> QED BY <1>1, <1>3, <1>4, <2>3, <3>1, <3>2, UnitsAcked
  <2>6. ASSUME NEW m \in BaSpaces
        PROVE  Cardinality(BaUnits(BaChargedIn(m)', left)) =
                 Cardinality(BaUnits(BaChargedIn(m), baRoom)) - (IF baSpace[q] = m THEN n ELSE 0)
    <3>1. BaChargedIn(m) \in SUBSET BaReqs /\ BaChargedIn(m)' \in SUBSET BaChargedIn(m)
      BY <1>1, <2>2 DEF BaCharged, BaChargedIn
    <3>2. \A x \in BaChargedIn(m) : left[x] > 0 => x \in BaChargedIn(m)'
      BY <1>1, <2>2 DEF BaChargedIn, BaCharged
    <3>3. BaUnits(BaChargedIn(m)', left) = BaUnits(BaChargedIn(m), left)
      BY <2>4, <3>1, <3>2
    <3>4. CASE baSpace[q] = m
      <4>1. out \subseteq BaChargedIn(m)
        BY <1>3, <2>3, <3>4 DEF BaChargedIn
      <4> QED BY <1>1, <1>3, <1>4, <3>1, <3>3, <3>4, <4>1, UnitsAcked
    <3>5. CASE baSpace[q] # m
      <4>1. out \cap BaChargedIn(m) = {}
        BY <1>3, <3>5 DEF BaChargedIn
      <4>2. BaUnits(BaChargedIn(m), left) = BaUnits(BaChargedIn(m), baRoom)
        BY <1>1, <1>3, <1>4, <3>1, <4>1, UnitsAcked, ZenonT(60)
      <4>3. Cardinality(BaUnits(BaChargedIn(m), baRoom)) \in Nat
        BY <1>4, <3>1, UnitsFinite
      <4> QED BY <3>3, <3>5, <4>2, <4>3
    <3> QED BY <3>4, <3>5
  <2>7. ASSUME NEW p \in BaQueues
        PROVE  Cardinality(BaUnits(BaChargedTo(p)', left)) =
                 Cardinality(BaUnits(BaChargedTo(p), baRoom)) - (IF p = q THEN n ELSE 0)
    <3>1. BaChargedTo(p) \in SUBSET BaReqs /\ BaChargedTo(p)' \in SUBSET BaChargedTo(p)
      BY <1>1, <2>2 DEF BaCharged, BaChargedTo
    <3>2. \A x \in BaChargedTo(p) : left[x] > 0 => x \in BaChargedTo(p)'
      BY <1>1, <2>2 DEF BaChargedTo, BaCharged
    <3>3. BaUnits(BaChargedTo(p)', left) = BaUnits(BaChargedTo(p), left)
      BY <2>4, <3>1, <3>2
    <3>4. CASE p = q
      <4>1. out \subseteq BaChargedTo(p)
        BY <1>3, <2>3, <3>4 DEF BaChargedTo
      <4> QED BY <1>1, <1>3, <1>4, <3>1, <3>3, <3>4, <4>1, UnitsAcked
    <3>5. CASE p # q
      <4>1. out \cap BaChargedTo(p) = {}
        BY <1>3, <3>5 DEF BaChargedTo
      <4>2. BaUnits(BaChargedTo(p), left) = BaUnits(BaChargedTo(p), baRoom)
        BY <1>1, <1>3, <1>4, <3>1, <4>1, UnitsAcked, ZenonT(60)
      <4>3. Cardinality(BaUnits(BaChargedTo(p), baRoom)) \in Nat
        BY <1>4, <3>1, UnitsFinite
      <4> QED BY <3>3, <3>5, <4>2, <4>3
    <3> QED BY <3>4, <3>5
  <2>8. ASSUME NEW p \in BaQueues PROVE BaSlotted(p)' = BaSlotted(p)
    <3>1. ASSUME NEW x \in BaReqs PROVE x \in BaSlotted(p)' <=> x \in BaSlotted(p)
      <4>1. CASE x \in out
        BY <1>1, <1>2, <1>3, <1>7, <4>1 DEF BaSlotted, BaChargedTo, BaCharged
      <4>2. CASE x \notin out
        BY <1>1, <1>2, <1>3, <1>7, <1>8, <4>2 DEF BaSlotted, BaChargedTo, BaCharged, BaFreed
      <4> QED BY <4>1, <4>2
    <3> QED BY <3>1 DEF BaSlotted, BaChargedTo, BaCharged
  <2>9. /\ baUsed' = baUsed - n
        /\ \A m \in BaSpaces : baShare'[m].used = baShare[m].used - (IF baSpace[q] = m THEN n ELSE 0)
        /\ \A p \in BaQueues : /\ baRes'[p] = baRes[p] - (IF p = q THEN n ELSE 0)
                               /\ baSlots'[p] = baSlots[p]
    <3> HIDE DEF n
    <3> QED BY <1>6, <2>1 DEF BaRepaid, BaInv, BaTyped
  <2>10. /\ BaUnits(BaCharged, baRoom)' = BaUnits(BaCharged', left)
         /\ \A m \in BaSpaces : BaUnits(BaChargedIn(m), baRoom)' = BaUnits(BaChargedIn(m)', left)
         /\ \A p \in BaQueues : BaUnits(BaChargedTo(p), baRoom)' = BaUnits(BaChargedTo(p)', left)
    BY <1>1 DEF BaUnits
  <2> HIDE DEF n
  <2> QED BY <2>5, <2>6, <2>7, <2>8, <2>9, <2>10 DEF BaInv, BaSums
<1>13. BaLimits' /\ BaRefs' /\ BaAwake'
  <2>1. \A x \in BaReqs : baAt[x] \in {"waitQueue", "waitPool"} => at[x] = baAt[x] /\ baRoom'[x] = baRoom[x]
    BY <1>1, <1>7, <1>8
  <2>2. \A x \in BaReqs : at[x] \in {"waitQueue", "waitPool"} => at[x] = baAt[x]
    BY <1>2
  <2> HIDE DEF n
  <2> QED BY <1>1, <1>5, <1>6, <1>10, <2>1, <2>2, RepaidAccount
<1> QED BY <1>10, <1>11, <1>12, <1>13 DEF BaInv

\* attach and close: a direction without uploads gets its namespace, and one that
\* closes keeps what it holds.
LEMMA BaOpenClose_Inv ==
  ASSUME BaInv, NEW q \in BaQueues,
         BaClose(q) \/ \E n \in BaSpaces \union {BaExempt} : BaOpen(q, n)
  PROVE  BaInv'
PROOF
<1>1. /\ baRes' = baRes /\ baSlots' = baSlots /\ baUsed' = baUsed
      /\ baAt' = baAt /\ baOn' = baOn /\ baRoom' = baRoom /\ baAhead' = baAhead
  BY DEF BaClose, BaOpen, baUpload, baResidency
<1>2. /\ baState' \in [BaQueues -> {"none", "open", "closed", "freed"}]
      /\ baSpace' \in [BaQueues -> BaSpaces \union {BaExempt}]
      /\ baState[q] \in {"none", "open"} /\ baState'[q] \in {"open", "closed"}
      /\ baState'[q] = "open" => baState[q] = "none"
      /\ \A p \in BaQueues \ {q} : baState'[p] = baState[p] /\ baSpace'[p] = baSpace[p]
      /\ baState[q] # "none" => baSpace' = baSpace
  BY DEF BaClose, BaOpen, BaInv, BaTyped
<1>3. /\ baShare' \in [BaSpaces -> [used : Int, refs : Int]]
      /\ \A m \in BaSpaces :
           /\ baShare'[m].used = baShare[m].used
           /\ baShare'[m].refs = baShare[m].refs + (IF baState[q] = "none" /\ baSpace'[q] = m THEN 1 ELSE 0)
  <2>1. CASE BaClose(q)
    <3>1. baShare' = baShare /\ baState[q] # "none"
      BY <2>1 DEF BaClose, baResidency
    <3> QED BY <3>1 DEF BaInv, BaTyped
  <2>2. ASSUME NEW n \in BaSpaces \union {BaExempt}, BaOpen(q, n)
        PROVE  <1>3
    <3>1. baSpace'[q] = n /\ baState[q] = "none"
      BY <2>2 DEF BaOpen, BaInv, BaTyped
    <3>2. CASE n = BaExempt
      <4>1. baShare' = baShare /\ n \notin BaSpaces
        BY <2>2, <3>2, BaAssumption DEF BaOpen
      <4> QED BY <3>1, <4>1 DEF BaInv, BaTyped
    <3>3. CASE n # BaExempt
      <4>1. baShare' = [baShare EXCEPT ![n].refs = @ + 1] /\ n \in BaSpaces
        BY <2>2, <3>3 DEF BaOpen, BaJoined
      <4> QED BY <3>1, <4>1 DEF BaInv, BaTyped
    <3> QED BY <3>2, <3>3
  <2> QED BY <2>1, <2>2
<1>4. BaTyped'
  BY <1>1, <1>2, <1>3 DEF BaInv, BaTyped
<1>5. \A x \in BaReqs : baAt[x] # "new" /\ baOn[x] = q => baState[q] = "open"
  BY <1>2 DEF BaInv, BaOrderly
<1>6. BaOrderly'
  BY <1>1, <1>2, <1>5 DEF BaInv, BaOrderly, BaTyped
<1>7. BaSums'
  <2>1. \A x \in BaReqs : x \in BaCharged' <=> x \in BaCharged
    BY <1>1, <1>2 DEF BaCharged, BaFreed, BaInv, BaTyped
  <2>2. \A x \in BaCharged : baSpace'[baOn[x]] = baSpace[baOn[x]]
    BY <1>2, <1>5 DEF BaCharged, BaInv, BaTyped
  <2> QED BY <1>1, <1>3, <1>4, <2>1, <2>2, SumsSame DEF BaInv
<1>8. BaLimits'
  BY <1>1, <1>3 DEF BaInv, BaLimits
<1>9. BaRefs'
  <2> SUFFICES ASSUME NEW m \in BaSpaces
               PROVE  baShare'[m].refs = Cardinality(BaUses(m)')
    BY DEF BaRefs
  <2>1. IsFiniteSet(BaUses(m)) /\ IsFiniteSet(BaUses(m)')
    <3>1. BaUses(m) \in SUBSET BaQueues /\ BaUses(m)' \in SUBSET BaQueues
      BY DEF BaUses
    <3> QED BY <3>1, FS_Subset, BaAssumption
  <2>2. BaUses(m) \ {q} = BaUses(m)' \ {q}
    BY <1>2 DEF BaUses
  <2>3. /\ Cardinality(BaUses(m)) \in Nat
        /\ Cardinality(BaUses(m)') = Cardinality(BaUses(m)) - (IF q \in BaUses(m) THEN 1 ELSE 0)
                                       + (IF q \in BaUses(m)' THEN 1 ELSE 0)
    BY <2>1, <2>2, CardDiffer
  <2>4. CASE baState[q] = "none"
    <3>1. q \notin BaUses(m) /\ (q \in BaUses(m)' <=> baSpace'[q] = m)
      BY <1>2, <2>4 DEF BaUses
    <3> QED BY <1>3, <2>3, <2>4, <3>1 DEF BaInv, BaRefs
  <2>5. CASE baState[q] # "none"
    <3>1. q \in BaUses(m) <=> q \in BaUses(m)'
      BY <1>2, <2>5 DEF BaUses
    <3> QED BY <1>3, <2>3, <2>5, <3>1 DEF BaInv, BaRefs
  <2> QED BY <2>4, <2>5
<1>10. BaAwake'
  <2>1. \A x \in BaReqs : BaSpare(x)' = BaSpare(x) /\ BaExtra(x)' = BaExtra(x)
    BY <1>1, AheadSame
  <2>2. /\ baUsed' >= baUsed /\ \A m \in BaSpaces : baShare'[m].used >= baShare[m].used
        /\ \A p \in BaQueues : baRes'[p] >= baRes[p] /\ baSlots'[p] >= baSlots[p]
    BY <1>1, <1>3 DEF BaInv, BaTyped
  <2>3. \A x \in BaReqs : baOn[x] \in BaQueues
    BY DEF BaInv, BaTyped
  <2>4. ASSUME NEW x \in BaReqs, baAt'[x] \in {"waitQueue", "waitPool"}, baState'[baOn'[x]] = "open"
        PROVE  BaStill(x)
    <3>1. baOn[x] # q
      BY <1>1, <1>2, <1>5, <2>4
    <3> QED BY <1>1, <1>2, <2>1, <2>2, <2>3, <2>4, <3>1 DEF BaStill
  <2> QED BY <1>4, <2>4, AwakeKept DEF BaInv
<1> QED BY <1>4, <1>6, <1>7, <1>8, <1>9, <1>10 DEF BaInv

LEMMA LeftEffect ==
  ASSUME NEW share \in [BaSpaces -> [used : Int, refs : Int]], NEW n \in BaSpaces
  PROVE  /\ BaLeft(share, n) \in [BaSpaces -> [used : Int, refs : Int]]
         /\ \A m \in BaSpaces \ {n} : BaLeft(share, n)[m] = share[m]
         /\ share[n].refs = 1 => BaLeft(share, n)[n] = [used |-> 0, refs |-> 0]
         /\ share[n].refs # 1 => /\ BaLeft(share, n)[n].used = share[n].used
                                 /\ BaLeft(share, n)[n].refs = share[n].refs - 1
PROOF
<1>1. CASE share[n].refs = 1
  BY <1>1 DEF BaLeft
<1>2. CASE share[n].refs # 1
  BY <1>2 DEF BaLeft
<1> QED BY <1>1, <1>2

\* free: the direction's uploads leave the account together, and the namespace with
\* its last direction, whose share of the count is then nothing.
LEMMA FreedShare ==
  ASSUME BaInv, NEW q \in BaQueues, BaFree(q)
  PROVE  /\ baShare' \in [BaSpaces -> [used : Int, refs : Int]]
         /\ \A m \in BaSpaces :
              /\ baShare'[m].used = baShare[m].used - (IF baSpace[q] = m THEN baRes[q] ELSE 0)
              /\ baShare'[m].refs = baShare[m].refs - (IF baSpace[q] = m THEN 1 ELSE 0)
PROOF
<1>1. baRes[q] \in Int /\ baShare \in [BaSpaces -> [used : Int, refs : Int]]
  BY DEF BaInv, BaTyped
<1>2. CASE baSpace[q] = BaExempt
  <2>1. baShare' = baShare /\ BaExempt \notin BaSpaces
    BY <1>2, BaAssumption DEF BaFree
  <2> QED BY <1>1, <1>2, <2>1
<1>3. CASE baSpace[q] # BaExempt
  <2> DEFINE n == baSpace[q]
  <2>1. n \in BaSpaces
    BY <1>3 DEF BaInv, BaTyped
  <2>2. baShare' = BaLeft([baShare EXCEPT ![n].used = @ - baRes[q]], n)
    BY <1>3 DEF BaFree
  <2>3. /\ baShare' \in [BaSpaces -> [used : Int, refs : Int]]
        /\ \A m \in BaSpaces \ {n} : baShare'[m] = baShare[m]
        /\ baShare[n].refs = 1 => baShare'[n] = [used |-> 0, refs |-> 0]
        /\ baShare[n].refs # 1 => /\ baShare'[n].used = baShare[n].used - baRes[q]
                                  /\ baShare'[n].refs = baShare[n].refs - 1
    <3> DEFINE mid == [baShare EXCEPT ![n].used = @ - baRes[q]]
    <3>1. /\ mid \in [BaSpaces -> [used : Int, refs : Int]]
          /\ \A m \in BaSpaces \ {n} : mid[m] = baShare[m]
          /\ mid[n].used = baShare[n].used - baRes[q] /\ mid[n].refs = baShare[n].refs
      BY <1>1, <2>1
    <3>2. baShare' = BaLeft(mid, n)
      BY <2>2
    <3> HIDE DEF mid
    <3>3. /\ baShare' \in [BaSpaces -> [used : Int, refs : Int]]
          /\ \A m \in BaSpaces \ {n} : baShare'[m] = mid[m]
          /\ mid[n].refs = 1 => baShare'[n] = [used |-> 0, refs |-> 0]
          /\ mid[n].refs # 1 => baShare'[n].used = mid[n].used /\ baShare'[n].refs = mid[n].refs - 1
      BY <2>1, <3>1, <3>2, LeftEffect
    <3> QED BY <2>1, <3>1, <3>3
  <2>4. baShare[n].refs = 1 => baShare[n].used = baRes[q]
    <3> SUFFICES ASSUME baShare[n].refs = 1 PROVE baShare[n].used = baRes[q]
      OBVIOUS
    <3>1. q \in BaUses(n) /\ IsFiniteSet(BaUses(n))
      <4>1. BaUses(n) \in SUBSET BaQueues /\ q \in BaUses(n)
        BY DEF BaUses, BaFree
      <4> QED BY <4>1, FS_Subset, BaAssumption
    <3>2. Cardinality(BaUses(n)) = 1
      BY <2>1 DEF BaInv, BaRefs
    <3>3. IsFiniteSet(BaUses(n) \ {q}) /\ Cardinality(BaUses(n) \ {q}) = 0
      BY <3>1, <3>2, FS_RemoveElement
    <3>4. BaUses(n) \ {q} = {}
      BY <3>3, FS_EmptySet, Zenon
    <3>5. \A r \in BaCharged : baOn[r] \in BaQueues /\ baState[baOn[r]] \in {"open", "closed"}
      BY DEF BaCharged, BaFreed, BaInv, BaOrderly, BaTyped
    <3>6. \A r \in BaCharged : baSpace[baOn[r]] = n => baOn[r] = q
      BY <3>4, <3>5 DEF BaUses
    <3>7. BaChargedIn(n) = BaChargedTo(q)
      BY <3>6 DEF BaChargedIn, BaChargedTo
    <3> QED BY <2>1, <3>7 DEF BaInv, BaSums
  <2>5. baShare[n].used \in Int /\ baShare[n].refs \in Int
    BY <1>1, <2>1
  <2>6. baShare'[n].used = baShare[n].used - baRes[q] /\ baShare'[n].refs = baShare[n].refs - 1
    BY <1>1, <2>3, <2>4, <2>5
  <2>7. \A m \in BaSpaces : m # n => /\ baShare'[m].used = baShare[m].used - 0
                                     /\ baShare'[m].refs = baShare[m].refs - 0
    BY <1>1, <2>3
  <2> QED BY <2>3, <2>6, <2>7
<1> QED BY <1>2, <1>3

LEMMA BaFree_Inv ==
  ASSUME BaInv, NEW q \in BaQueues, BaFree(q)
  PROVE  BaInv'
PROOF
<1> DEFINE at == [r \in BaReqs |-> IF baOn[r] = q /\ baAt[r] \in {"held", "queued", "out"}
                                   THEN "answered" ELSE baAt[r]]
           woken == BaOnQueue(q) \union (IF baRes[q] = 0 THEN {} ELSE BaOnPool)
<1>1. /\ baState[q] \in {"open", "closed"} /\ baState' = [baState EXCEPT ![q] = "freed"]
      /\ baUsed' = baUsed - baRes[q] /\ baAt' = BaLookAgain(at, woken)
      /\ baRes' = [baRes EXCEPT ![q] = 0] /\ baSlots' = [baSlots EXCEPT ![q] = 0]
      /\ baSpace' = baSpace /\ baOn' = baOn /\ baRoom' = baRoom /\ baAhead' = baAhead
  BY DEF BaFree
<1>2. /\ at \in [BaReqs -> BaPlaces] /\ woken \in SUBSET BaReqs
      /\ \A x \in BaReqs : at[x] = IF baOn[x] = q /\ baAt[x] \in {"held", "queued", "out"}
                                   THEN "answered" ELSE baAt[x]
      /\ \A x \in BaReqs : x \in woken => baAt[x] \in {"waitQueue", "waitPool"}
      /\ \A x \in BaReqs : baAt[x] = "waitPool" /\ baRes[q] # 0 => x \in woken
  BY DEF BaInv, BaTyped, BaPlaces, BaOnQueue, BaOnPool
<1> HIDE DEF at, woken
<1>3. /\ baAt' \in [BaReqs -> BaPlaces]
      /\ \A x \in BaReqs : x \notin woken => baAt'[x] = at[x]
      /\ \A x \in BaReqs : x \in woken => baAt'[x] \in {"asking", "looking"}
  BY <1>1, <1>2, LookAgain
<1>4. /\ \A p \in BaQueues : baState'[p] = IF p = q THEN "freed" ELSE baState[p]
      /\ \A p \in BaQueues : /\ baRes'[p] = IF p = q THEN 0 ELSE baRes[p]
                             /\ baSlots'[p] = IF p = q THEN 0 ELSE baSlots[p]
      /\ \A x \in BaReqs : baOn[x] \in BaQueues
      /\ baUsed \in Int /\ baRes[q] \in Int
  BY <1>1 DEF BaInv, BaTyped
<1>5. /\ baShare' \in [BaSpaces -> [used : Int, refs : Int]]
      /\ \A m \in BaSpaces :
           /\ baShare'[m].used = baShare[m].used - (IF baSpace[q] = m THEN baRes[q] ELSE 0)
           /\ baShare'[m].refs = baShare[m].refs - (IF baSpace[q] = m THEN 1 ELSE 0)
  BY FreedShare
<1>6. BaTyped'
  <2>1. /\ baState' \in [BaQueues -> {"none", "open", "closed", "freed"}]
        /\ baRes' \in [BaQueues -> Int] /\ baSlots' \in [BaQueues -> Int] /\ baUsed' \in Int
    BY <1>1, <1>4 DEF BaInv, BaTyped
  <2> QED BY <1>1, <1>3, <1>5, <2>1 DEF BaInv, BaTyped
<1>7. BaOrderly'
  BY <1>1, <1>2, <1>3, <1>4 DEF BaInv, BaOrderly
<1>8. baRes[q] \in Nat
  BY UnitsFinite, ChargedSets DEF BaInv, BaSums, BaTyped
<1>9. BaCharged' = BaCharged \ BaChargedTo(q)
  <2>1. ASSUME NEW x \in BaReqs
        PROVE  x \in BaCharged' <=> x \in BaCharged /\ baOn[x] # q
    BY <1>1, <1>2, <1>3, <1>4 DEF BaCharged, BaFreed
  <2> QED BY <2>1 DEF BaCharged, BaChargedTo
<1>10. BaSums'
  <2>1. BaCharged \in SUBSET BaReqs /\ BaChargedTo(q) \in SUBSET BaCharged
    BY DEF BaCharged, BaChargedTo
  <2>2. baRoom \in BaRooms /\ baRes[q] = Cardinality(BaUnits(BaChargedTo(q), baRoom))
    BY DEF BaInv, BaTyped, BaSums
  <2>3. baUsed' = Cardinality(BaUnits(BaCharged, baRoom))'
    <3>1. BaUnits(BaCharged, baRoom)' = BaUnits(BaCharged \ BaChargedTo(q), baRoom)
      BY <1>1, <1>9 DEF BaUnits
    <3>2. Cardinality(BaUnits(BaCharged \ BaChargedTo(q), baRoom)) =
            Cardinality(BaUnits(BaCharged, baRoom)) - Cardinality(BaUnits(BaChargedTo(q), baRoom))
      BY <2>1, <2>2, UnitsWithout
    <3> QED BY <1>1, <2>2, <3>1, <3>2 DEF BaInv, BaSums
  <2>4. ASSUME NEW m \in BaSpaces
        PROVE  baShare'[m].used = Cardinality(BaUnits(BaChargedIn(m), baRoom))'
    <3>1. baShare[m].used = Cardinality(BaUnits(BaChargedIn(m), baRoom)) /\ baShare[m].used \in Int
      BY DEF BaInv, BaSums, BaTyped
    <3>2. BaChargedIn(m) \in SUBSET BaReqs
      BY DEF BaChargedIn, BaCharged
    <3>3. BaUnits(BaChargedIn(m), baRoom)' = BaUnits(BaChargedIn(m)', baRoom)
      BY <1>1 DEF BaUnits
    <3>4. CASE baSpace[q] = m
      <4>1. BaChargedTo(q) \in SUBSET BaChargedIn(m)
        BY <3>4 DEF BaChargedTo, BaChargedIn
      <4>2. BaChargedIn(m)' = BaChargedIn(m) \ BaChargedTo(q)
        BY <1>1, <1>9 DEF BaChargedIn, BaChargedTo
      <4>3. Cardinality(BaUnits(BaChargedIn(m) \ BaChargedTo(q), baRoom)) =
              Cardinality(BaUnits(BaChargedIn(m), baRoom)) - Cardinality(BaUnits(BaChargedTo(q), baRoom))
        BY <2>2, <3>2, <4>1, UnitsWithout
      <4> QED BY <1>5, <2>2, <3>1, <3>3, <3>4, <4>2, <4>3
    <3>5. CASE baSpace[q] # m
      <4>1. BaChargedIn(m)' = BaChargedIn(m)
        BY <1>1, <1>9, <3>5 DEF BaChargedIn, BaChargedTo
      <4> QED BY <1>5, <3>1, <3>3, <3>5, <4>1
    <3> QED BY <3>4, <3>5
  <2>5. ASSUME NEW p \in BaQueues
        PROVE  /\ baRes'[p] = Cardinality(BaUnits(BaChargedTo(p), baRoom))'
               /\ baSlots'[p] = Cardinality(BaSlotted(p))'
    <3>1. BaUnits(BaChargedTo(p), baRoom)' = BaUnits(BaChargedTo(p)', baRoom)
      BY <1>1 DEF BaUnits
    <3>2. CASE p = q
      <4>1. BaChargedTo(p)' = {}
        BY <1>1, <1>9, <3>2 DEF BaChargedTo
      <4>2. BaSlotted(p)' = {} /\ BaUnits(BaChargedTo(p)', baRoom) = {}
        BY <4>1 DEF BaSlotted, BaUnits
      <4> QED BY <1>4, <3>1, <3>2, <4>2, FS_EmptySet
    <3>3. CASE p # q
      <4>1. BaChargedTo(p)' = BaChargedTo(p)
        BY <1>1, <1>9, <3>3 DEF BaChargedTo
      <4>2. \A x \in BaChargedTo(p) : x \in BaReqs /\ (baAt'[x] = "out" <=> baAt[x] = "out")
        BY <1>2, <1>3, <3>3 DEF BaChargedTo, BaCharged
      <4>3. BaSlotted(p)' = BaSlotted(p)
        BY <1>1, <4>1, <4>2 DEF BaSlotted
      <4> QED BY <1>4, <3>1, <3>3, <4>1, <4>3 DEF BaInv, BaSums
    <3> QED BY <3>2, <3>3
  <2> QED BY <2>3, <2>4, <2>5 DEF BaSums
<1>11. BaLimits'
  <2>1. \A m \in BaSpaces : baShare[m].used \in Int
    BY DEF BaInv, BaTyped
  <2>2. BaPerSpace \in Nat /\ BaTotal \in Nat /\ BaPerQueue \in Nat /\ BaSlots \in Nat
    BY BaAssumption
  <2>3. /\ baUsed <= BaTotal /\ \A m \in BaSpaces : baShare[m].used <= BaPerSpace
        /\ \A p \in BaQueues : baRes[p] <= BaPerQueue /\ baSlots[p] <= BaSlots
    BY DEF BaInv, BaLimits
  <2>4. baUsed' <= BaTotal
    BY <1>1, <1>4, <1>8, <2>2, <2>3
  <2>5. \A m \in BaSpaces : baShare'[m].used <= BaPerSpace
    BY <1>5, <1>8, <2>1, <2>2, <2>3
  <2>6. \A p \in BaQueues : baRes'[p] <= BaPerQueue /\ baSlots'[p] <= BaSlots
    BY <1>4, <2>2, <2>3
  <2> QED BY <2>4, <2>5, <2>6 DEF BaLimits
<1>12. BaRefs'
  <2> SUFFICES ASSUME NEW m \in BaSpaces
               PROVE  baShare'[m].refs = Cardinality(BaUses(m)')
    BY DEF BaRefs
  <2>1. IsFiniteSet(BaUses(m)) /\ IsFiniteSet(BaUses(m)')
    <3>1. BaUses(m) \in SUBSET BaQueues /\ BaUses(m)' \in SUBSET BaQueues
      BY DEF BaUses
    <3> QED BY <3>1, FS_Subset, BaAssumption
  <2>2. BaUses(m) \ {q} = BaUses(m)' \ {q}
    BY <1>1, <1>4 DEF BaUses
  <2>3. /\ Cardinality(BaUses(m)) \in Nat
        /\ Cardinality(BaUses(m)') = Cardinality(BaUses(m)) - (IF q \in BaUses(m) THEN 1 ELSE 0)
                                       + (IF q \in BaUses(m)' THEN 1 ELSE 0)
    BY <2>1, <2>2, CardDiffer
  <2>4. q \notin BaUses(m)' /\ (q \in BaUses(m) <=> baSpace[q] = m)
    BY <1>1, <1>4 DEF BaUses
  <2> QED BY <1>5, <2>3, <2>4 DEF BaInv, BaRefs
<1>13. BaAwake'
  <2>1. \A x \in BaReqs : BaSpare(x)' = BaSpare(x) /\ BaExtra(x)' = BaExtra(x)
    BY <1>1, AheadSame
  <2>2. ASSUME baRes[q] = 0
        PROVE  baUsed' >= baUsed /\ \A m \in BaSpaces : baShare'[m].used >= baShare[m].used
    <3>1. \A m \in BaSpaces : baShare[m].used \in Int
      BY DEF BaInv, BaTyped
    <3> QED BY <1>1, <1>4, <1>5, <2>2, <3>1
  <2>3. \A p \in BaQueues : p # q => baRes'[p] >= baRes[p] /\ baSlots'[p] >= baSlots[p]
    BY <1>4 DEF BaInv, BaTyped
  <2>4. ASSUME NEW x \in BaReqs, baAt'[x] \in {"waitQueue", "waitPool"}, baState'[baOn'[x]] = "open"
        PROVE  BaStill(x)
    <3>1. baOn[x] # q /\ x \notin woken
      BY <1>1, <1>3, <1>4, <2>4
    <3>2. baAt'[x] = baAt[x]
      BY <1>2, <1>3, <2>4, <3>1
    <3>3. baAt[x] = "waitPool" => baRes[q] = 0
      BY <1>2, <3>1
    <3> QED BY <1>1, <1>4, <2>1, <2>2, <2>3, <2>4, <3>1, <3>2, <3>3 DEF BaStill
  <2> QED BY <1>6, <2>4, AwakeKept DEF BaInv
<1> QED BY <1>6, <1>7, <1>10, <1>11, <1>12, <1>13 DEF BaInv

LEMMA BaNext_Inv ==
  ASSUME BaInv, [BaNext]_baVars
  PROVE  BaInv'
PROOF
<1>1. CASE UNCHANGED baVars
  <2>1. /\ baState' = baState /\ baSpace' = baSpace /\ baRes' = baRes /\ baSlots' = baSlots
        /\ baAt' = baAt /\ baOn' = baOn /\ baRoom' = baRoom /\ baAhead' = baAhead
        /\ baShare' = baShare /\ baUsed' = baUsed
    BY <1>1 DEF baVars, baQueue, baUpload, baResidency
  <2>2. BaTyped' /\ BaOrderly' /\ BaLimits' /\ BaRefs'
    BY <2>1 DEF BaInv, BaTyped, BaOrderly, BaLimits, BaRefs, BaUses
  <2>3. BaSums'
    <3>1. \A x \in BaReqs : x \in BaCharged' <=> x \in BaCharged
      BY <2>1 DEF BaCharged, BaFreed
    <3> QED BY <2>1, <2>2, <3>1, SumsSame DEF BaInv
  <2>4. BaAwake'
    BY <2>1 DEF BaInv, BaAwake, BaQueueFull, BaPoolFull, BaSpare
  <2> QED BY <2>2, <2>3, <2>4 DEF BaInv
<1>2. ASSUME NEW r \in BaReqs, BaWriterStep(r) PROVE BaInv'
  <2>1. ASSUME NEW q \in BaQueues, NEW i \in BaSeqs, NEW n \in BaSizes, BaArrive(r, q, i, n)
        PROVE  BaInv'
    BY <2>1, BaBefore_Inv
  <2>2. CASE BaLook(r) \/ BaRefuse(r) \/ BaGiveUp(r)
    BY <2>2, BaBefore_Inv
  <2>3. CASE BaWait(r)
    BY <2>3, BaWait_Inv
  <2>4. CASE BaReserve(r) \/ BaEmpty(r)
    BY <2>4, BaReserve_Inv
  <2>5. CASE BaUnreserve(r) \/ BaTurnAway(r)
    BY <2>5, BaHolding_Inv
  <2>6. ASSUME NEW used \in 0..BaLargest, BaHold(r, used) \/ BaEnqueue(r, used)
        PROVE  BaInv'
    BY <2>6, BaHolding_Inv
  <2> QED BY <1>2, <2>1, <2>2, <2>3, <2>4, <2>5, <2>6 DEF BaWriterStep
<1>3. ASSUME NEW q \in BaQueues, BaQueueStep(q) PROVE BaInv'
  <2>1. ASSUME NEW n \in BaSpaces \union {BaExempt}, BaOpen(q, n) PROVE BaInv'
    BY <2>1, BaOpenClose_Inv
  <2>2. CASE BaClose(q)
    BY <2>2, BaOpenClose_Inv
  <2>3. ASSUME NEW taken \in SUBSET BaReqs, BaDrain(q, taken) PROVE BaInv'
    BY <2>3, BaDrain_Inv
  <2>4. ASSUME NEW left \in [BaReqs -> 0..BaLargest], BaAck(q, left) PROVE BaInv'
    <3>1. left \in BaRooms
      BY DEF BaRooms
    <3> QED BY <2>4, <3>1, BaAck_Inv
  <2>5. CASE BaFree(q)
    BY <2>5, BaFree_Inv
  <2> QED BY <1>3, <2>1, <2>2, <2>3, <2>4, <2>5 DEF BaQueueStep
<1> QED BY <1>1, <1>2, <1>3 DEF BaNext

LEMMA BaSpec_Inv == BaSpec => []BaInv
PROOF
<1>1. BaInit => BaInv
  BY BaInit_Inv
<1>2. BaInv /\ [BaNext]_baVars => BaInv'
  BY BaNext_Inv
<1> QED BY <1>1, <1>2, PTL DEF BaSpec

\* The relay's byte account is exact: for any number of uploads, retries,
\* directions and namespaces and any limits, what the relay, a namespace and a
\* direction count is what the uploads they admitted still hold, through closes
\* and frees that race a body being read, no count passes its limit, and a
\* namespace is remembered exactly as long as one of its directions lives
\* (resident.go, reserve and release; http.go, reserveLocked to free).
THEOREM AccountExact == BaSpec => []BaCounts
PROOF BY BaSpec_Inv, BaInv_Counts, PTL

\* No upload waits for room that has come back: an upload parked on its direction
\* or on the relay's account would not be admitted if it looked again now.
THEOREM NobodyForgotten == BaSpec => []BaAwake
PROOF
<1>1. BaInv => BaAwake
  BY DEF BaInv
<1> QED BY <1>1, BaSpec_Inv, PTL

\* Both together, as the runs check them: the account of resident.go neither
\* drifts nor forgets a waiting upload.
THEOREM AccountSafe == BaSpec => []BaAccount
PROOF BY AccountExact, NobodyForgotten, PTL DEF BaAccount

----------------------------------------------------------------------------
(* The disconnect grace, for any number of polls: it never takes a session  *)
(* from a controller with a poll being served that overtook no other.     *)

\* The polls are numbers.
LEMMA PollNumbers ==
    /\ MaxPolls \in Nat /\ Polls \subseteq Nat
    /\ \A n \in 0..MaxPolls : n \in Nat /\ (n < MaxPolls => n + 1 \in Polls /\ n + 1 \in 0..MaxPolls)
    /\ \A p \in Polls, n \in 0..MaxPolls : ~(p > n) => p \in 1..n
BY GraceConstants DEF Polls

\* The invariant holds at first.
LEMMA GraceInvInit == Init => GraceInv
<1> SUFFICES ASSUME Init PROVE GraceInv
  OBVIOUS
<1>1. TypeOK
  <2>1. 0 \in 0..MaxPolls /\ 0 \in Nat
    BY GraceConstants
  <2>2. sent \in 0..MaxPolls /\ gen \in Nat
    BY <2>1 DEF Init
  <2>3. pgen \in [Polls -> Nat] /\ ph \in [Polls -> {"none", "net", "found", "serving", "done"}]
    BY <2>1 DEF Init
  <2>4. QED
    BY <2>2, <2>3 DEF Init, TypeOK
<1>2. SerialAlone /\ TimersAreAbandoned /\ GenerationsDiffer
  <2>1. SerialAlone
    BY GraceConstants DEF Init, SerialAlone, Polls
  <2>2. TimersAreAbandoned
    BY DEF Init, TimersAreAbandoned
  <2>3. gen = 0 /\ \A p \in Polls : pgen[p] = 0
    BY DEF Init
  <2>4. GenerationsDiffer
    BY <2>3 DEF GenerationsDiffer
  <2>5. QED
    BY <2>1, <2>2, <2>4
<1>3. ServedHasGeneration /\ GenerationsAreStarted
  BY DEF Init, ServedHasGeneration, GenerationsAreStarted, Polls
<1>4. QED
  BY <1>1, <1>2, <1>3 DEF GraceInv

\* One step, one action at a time.
LEMMA GraceInvNext ==
    ASSUME GraceInv, [Next]_vars
    PROVE  GraceInv'
<1>1. ASSUME NEW inWindow \in BOOLEAN, SendPoll(inWindow) PROVE GraceInv'
  <2> DEFINE s == sent + 1
  <2>1. /\ s \in Polls /\ s \in Nat /\ s \in 0..MaxPolls /\ sent \in Nat /\ sent < s
        /\ \A q \in Polls : q \in Nat
    <3>1. sent \in 0..MaxPolls /\ sent < MaxPolls
      BY <1>1 DEF SendPoll, GraceInv, TypeOK
    <3>2. QED
      BY <3>1, PollNumbers
  <2>2. ph[s] = "none" /\ pgen[s] = 0 /\ s \notin live
    <3>1. ph[s] = "none" /\ pgen[s] = 0
      BY <2>1 DEF GraceInv, TypeOK, SerialAlone, GenerationsAreStarted
    <3>2. s \notin 1..sent
      BY <2>1
    <3>3. QED
      BY <3>1, <3>2 DEF GraceInv, SerialAlone
  <2>3. /\ ph' = [ph EXCEPT ![s] = "net"] /\ live' = live \cup {s} /\ sent' = s
        /\ numbered' = (IF inWindow THEN numbered \cup {s} ELSE numbered)
        /\ (IF inWindow THEN live \subseteq numbered ELSE live = {})
        /\ UNCHANGED <<here, pgen, gen, timer, ticking, fired, ending, goneBy>>
    BY <1>1 DEF SendPoll, grace
  <2> HIDE DEF s
  <2>4. ph'[s] = "net" /\ \A q \in Polls : q # s => ph'[q] = ph[q]
    BY <2>1, <2>3 DEF GraceInv, TypeOK
  <2>5. TypeOK'
    <3>1. ph' \in [Polls -> {"none", "net", "found", "serving", "done"}]
      BY <2>1, <2>3 DEF GraceInv, TypeOK
    <3>2. numbered' \subseteq Polls /\ live' \subseteq Polls
      BY <2>1, <2>3 DEF GraceInv, TypeOK
    <3>3. QED
      BY <3>1, <3>2, <2>1, <2>3 DEF GraceInv, TypeOK
  <2>6. SerialAlone'
    <3>1. \A q \in 1..s : q \in 1..sent \/ q = s
      BY <2>1 DEF s
    <3>2. live \subseteq 1..sent /\ 1..sent \subseteq 1..s /\ s \in 1..s
      BY <2>1 DEF s, GraceInv, SerialAlone, Polls
    <3>3. \A q \in live' : q \notin numbered' => live' = {q}
      BY <2>2, <2>3 DEF GraceInv, SerialAlone
    <3>4. ASSUME NEW p \in 1..s, p \notin numbered', NEW q \in live' PROVE p <= q
      <4>1. CASE q = s
        BY <4>1, <2>1
      <4>2. CASE q # s /\ p # s
        BY <4>2, <3>1, <3>4, <2>3 DEF GraceInv, SerialAlone
      <4>3. CASE q # s /\ p = s
        BY <4>3, <3>4, <2>3
      <4>4. QED
        BY <4>1, <4>2, <4>3
    <3>5. ASSUME NEW p \in Polls, p > s PROVE ph'[p] = "none"
      BY <3>5, <2>1, <2>4 DEF GraceInv, SerialAlone
    <3>6. QED
      BY <3>2, <3>3, <3>4, <3>5, <2>3 DEF SerialAlone
  <2>7. TimersAreAbandoned'
    BY <2>2, <2>3, <2>4 DEF GraceInv, TimersAreAbandoned
  <2>8. GenerationsDiffer'
    BY <2>3 DEF GraceInv, GenerationsDiffer
  <2>9. ServedHasGeneration'
    BY <2>2, <2>3, <2>4 DEF GraceInv, TypeOK, ServedHasGeneration, Registered
  <2>10. GenerationsAreStarted'
    BY <2>1, <2>2, <2>3, <2>4 DEF GraceInv, SerialAlone, GenerationsAreStarted
  <2>11. QED
    BY <2>5, <2>6, <2>7, <2>8, <2>9, <2>10 DEF GraceInv
<1>2. ASSUME NEW p \in Polls, Abandon(p) PROVE GraceInv'
  <2>1. TypeOK'
    BY <1>2, GraceConstants DEF Abandon, grace, TypeOK, Polls, GraceInv
  <2>2. SerialAlone'
    BY <1>2, GraceConstants DEF Abandon, grace, TypeOK, SerialAlone, Polls, GraceInv
  <2>3. TimersAreAbandoned'
    BY <1>2, GraceConstants DEF Abandon, grace, TypeOK, TimersAreAbandoned, Polls, GraceInv
  <2>4. GenerationsDiffer'
    BY <1>2, GraceConstants DEF Abandon, grace, TypeOK, GenerationsDiffer, Polls, GraceInv
  <2>5. ServedHasGeneration'
    BY <1>2, GraceConstants DEF Abandon, grace, TypeOK, ServedHasGeneration, Registered, Polls, SerialAlone, GraceInv
  <2>6. GenerationsAreStarted'
    BY <1>2, GraceConstants DEF Abandon, grace, TypeOK, GenerationsAreStarted, Polls, GraceInv
  <2>7. QED
    BY <2>1, <2>2, <2>3, <2>4, <2>5, <2>6 DEF GraceInv
<1>3. CASE Vanish
  <2>1. TypeOK'
    BY <1>3, GraceConstants DEF Vanish, grace, TypeOK, Polls, GraceInv
  <2>2. SerialAlone'
    BY <1>3, GraceConstants DEF Vanish, grace, TypeOK, SerialAlone, Polls, GraceInv
  <2>3. TimersAreAbandoned'
    BY <1>3, GraceConstants DEF Vanish, grace, TypeOK, TimersAreAbandoned, Polls, GraceInv
  <2>4. GenerationsDiffer'
    BY <1>3, GraceConstants DEF Vanish, grace, TypeOK, GenerationsDiffer, Polls, GraceInv
  <2>5. ServedHasGeneration'
    BY <1>3, GraceConstants DEF Vanish, grace, TypeOK, ServedHasGeneration, Registered, Polls, GraceInv
  <2>6. GenerationsAreStarted'
    BY <1>3, GraceConstants DEF Vanish, grace, TypeOK, GenerationsAreStarted, Polls, GraceInv
  <2>7. QED
    BY <2>1, <2>2, <2>3, <2>4, <2>5, <2>6 DEF GraceInv
<1>4. ASSUME NEW p \in Polls, Lost(p) PROVE GraceInv'
  <2>1. TypeOK'
    BY <1>4, GraceConstants DEF Lost, Ends, grace, TypeOK, Polls, GraceInv
  <2>2. SerialAlone'
    BY <1>4, GraceConstants DEF Lost, Ends, grace, TypeOK, SerialAlone, Polls, GraceInv
  <2>3. TimersAreAbandoned'
    BY <1>4, GraceConstants, ZenonT(40) DEF Lost, Ends, grace, TypeOK, TimersAreAbandoned, Polls, GraceInv
  <2>4. GenerationsDiffer'
    BY <1>4, GraceConstants DEF Lost, Ends, grace, TypeOK, GenerationsDiffer, Polls, GraceInv
  <2>5. ServedHasGeneration'
    BY <1>4, GraceConstants DEF Lost, Ends, grace, TypeOK, ServedHasGeneration, Registered, Polls, GraceInv
  <2>6. GenerationsAreStarted'
    BY <1>4, GraceConstants DEF Lost, Ends, grace, TypeOK, GenerationsAreStarted, Polls, GraceInv
  <2>7. QED
    BY <2>1, <2>2, <2>3, <2>4, <2>5, <2>6 DEF GraceInv
<1>5. ASSUME NEW p \in Polls, Lookup(p) PROVE GraceInv'
  <2>1. TypeOK'
    BY <1>5, GraceConstants DEF Lookup, Ends, grace, Registered, TypeOK, Polls, GraceInv
  <2>2. SerialAlone'
    <3>1. /\ live' \subseteq live /\ sent' = sent /\ numbered' = numbered
          /\ ph[p] = "net" /\ \A q \in Polls : q # p => ph'[q] = ph[q]
      BY <1>5 DEF Lookup, Ends, GraceInv, TypeOK
    <3>2. QED
      BY <3>1 DEF SerialAlone, GraceInv
  <2>3. TimersAreAbandoned'
    <3>1. ph[p] = "net" /\ (\A q \in Polls : q # p => ph'[q] = ph[q]) /\ live' \subseteq live
      BY <1>5 DEF Lookup, Ends, GraceInv, TypeOK
    <3>2. QED
      BY <1>5, <3>1 DEF Lookup, grace, TimersAreAbandoned, GraceInv
  <2>4. GenerationsDiffer'
    BY <1>5, GraceConstants DEF Lookup, Ends, grace, Registered, TypeOK, GenerationsDiffer, Polls, GraceInv
  <2>5. ServedHasGeneration'
    BY <1>5, GraceConstants, ZenonT(30) DEF Lookup, Ends, grace, Registered, TypeOK, ServedHasGeneration, Polls, SerialAlone, GraceInv
  <2>6. GenerationsAreStarted'
    BY <1>5, GraceConstants, ZenonT(40) DEF Lookup, Ends, grace, Registered, TypeOK, GenerationsAreStarted, Polls, GraceInv
  <2>7. QED
    BY <2>1, <2>2, <2>3, <2>4, <2>5, <2>6 DEF GraceInv
<1>6. ASSUME NEW p \in Polls, PollStarted(p) PROVE GraceInv'
  <2>1. /\ ph[p] = "found" /\ pgen[p] = 0 /\ p \in Nat
        /\ \A q \in Polls : q \in Nat /\ pgen[q] \in Nat
        /\ gen \in Nat /\ gen + 1 \in Nat
    <3>1. ph[p] = "found" /\ pgen \in [Polls -> Nat] /\ gen \in Nat
      BY <1>6 DEF PollStarted, GraceInv, TypeOK
    <3>2. pgen[p] = 0
      BY <3>1 DEF GraceInv, GenerationsAreStarted
    <3>3. QED
      BY <3>1, <3>2, PollNumbers
  <2>3. /\ ph'[p] = "serving" /\ \A q \in Polls : q # p => ph'[q] = ph[q]
        /\ ph' \in [Polls -> {"none", "net", "found", "serving", "done"}]
        /\ UNCHANGED <<fired, here, sent, numbered, live, ending, goneBy>>
    BY <1>6 DEF PollStarted, carrier, GraceInv, TypeOK
  <2>5. SerialAlone'
    BY <2>1, <2>3 DEF GraceInv, SerialAlone
  <2>6. CASE Registered
    <3>1. /\ pgen'[p] = gen + 1 /\ \A q \in Polls : q # p => pgen'[q] = pgen[q]
          /\ gen' = gen + 1 /\ timer' = 0 /\ ticking' = ticking \ {timer}
          /\ pgen' \in [Polls -> Nat]
      BY <1>6, <2>1, <2>6 DEF PollStarted, GraceInv, TypeOK
    <3>2. ticking' = {}
      BY <3>1 DEF GraceInv, TypeOK
    <3>3. TypeOK'
      BY <3>1, <3>2, <2>1, <2>3 DEF GraceInv, TypeOK
    <3>4. TimersAreAbandoned'
      BY <3>1, <3>2, <2>1, <2>3 DEF GraceInv, TimersAreAbandoned
    <3>5. GenerationsDiffer'
      BY <3>1, <2>1 DEF GraceInv, GenerationsDiffer
    <3>6. ServedHasGeneration'
      <4> SUFFICES ASSUME NEW q \in live, ph'[q] = "serving", pgen'[q] = 0 PROVE FALSE
        BY <2>3 DEF ServedHasGeneration
      <4>0. gen + 1 # 0
        BY <2>1
      <4>1. q \in Polls /\ gen + 1 # 0
        BY <4>0, <2>3 DEF GraceInv, TypeOK
      <4>2. q # p
        BY <4>1, <3>1
      <4>3. QED
        BY <4>1, <4>2, <3>1, <2>3, <2>6 DEF GraceInv, ServedHasGeneration
    <3>7. GenerationsAreStarted'
      BY <3>1, <2>1, <2>3 DEF GraceInv, GenerationsAreStarted
    <3>8. QED
      BY <3>3, <3>4, <3>5, <3>6, <3>7, <2>5 DEF GraceInv
  <2>7. CASE ~Registered
    <3>1. UNCHANGED <<gen, pgen, timer, ticking>>
      BY <1>6, <2>7 DEF PollStarted
    <3>2. TypeOK'
      BY <3>1, <2>3 DEF GraceInv, TypeOK
    <3>3. TimersAreAbandoned' /\ GenerationsDiffer'
      BY <3>1, <2>1, <2>3 DEF GraceInv, TimersAreAbandoned, GenerationsDiffer
    <3>4. ServedHasGeneration'
      BY <3>1, <2>1, <2>3, <2>7 DEF GraceInv, TypeOK, ServedHasGeneration, Registered
    <3>5. GenerationsAreStarted'
      BY <3>1, <2>1, <2>3 DEF GraceInv, GenerationsAreStarted
    <3>6. QED
      BY <3>2, <3>3, <3>4, <3>5, <2>5 DEF GraceInv
  <2>8. QED
    BY <2>6, <2>7
<1>7. ASSUME NEW p \in Polls, Answered(p) PROVE GraceInv'
  <2>1. TypeOK'
    BY <1>7, GraceConstants DEF Answered, Ends, grace, TypeOK, Polls, GraceInv
  <2>2. SerialAlone'
    BY <1>7, GraceConstants DEF Answered, Ends, grace, TypeOK, SerialAlone, Polls, GraceInv
  <2>3. TimersAreAbandoned'
    BY <1>7, GraceConstants, ZenonT(30) DEF Answered, Ends, grace, TypeOK, TimersAreAbandoned, Polls, GraceInv
  <2>4. GenerationsDiffer'
    BY <1>7, GraceConstants DEF Answered, Ends, grace, TypeOK, GenerationsDiffer, Polls, GraceInv
  <2>5. ServedHasGeneration'
    BY <1>7, GraceConstants DEF Answered, Ends, grace, TypeOK, ServedHasGeneration, Registered, Polls, SerialAlone, GraceInv
  <2>6. GenerationsAreStarted'
    BY <1>7, GraceConstants DEF Answered, Ends, grace, TypeOK, GenerationsAreStarted, Polls, GraceInv
  <2>7. QED
    BY <2>1, <2>2, <2>3, <2>4, <2>5, <2>6 DEF GraceInv
<1>8. ASSUME NEW p \in Polls, PollCancelled(p) PROVE GraceInv'
  <2>1. TypeOK'
    <3>1. ph' \in [Polls -> {"none", "net", "found", "serving", "done"}] /\ live' \subseteq Polls
      BY <1>8 DEF PollCancelled, Ends, TypeOK, GraceInv
    <3>2. timer' \in {0, gen} /\ ticking' \in {{}, {timer'}}
      BY <1>8 DEF PollCancelled, TypeOK, TimersAreAbandoned, GraceInv
    <3>3. QED
      BY <1>8, <3>1, <3>2 DEF PollCancelled, TypeOK, GraceInv
  <2>2. SerialAlone'
    BY <1>8, GraceConstants DEF PollCancelled, Ends, TypeOK, SerialAlone, Polls, GraceInv
  <2>3. TimersAreAbandoned'
    <3>1. /\ ph[p] = "serving" /\ ph'[p] = "done" /\ (\A q \in Polls : q # p => ph'[q] = ph[q])
          /\ live' \subseteq live /\ p \notin live /\ p \notin numbered
          /\ UNCHANGED <<numbered, pgen, fired>>
      BY <1>8 DEF PollCancelled, Ends, GraceInv, TypeOK
    <3>2. pgen[p] \in Nat /\ pgen[p] # 0 /\ pgen[p] \notin fired /\ pgen[p] \notin ticking
      BY <1>8, <3>1 DEF PollCancelled, GraceInv, TypeOK, TimersAreAbandoned, GenerationsDiffer
    <3>3. ticking' = ticking \/ ticking' = ticking \cup {pgen[p]}
      BY <1>8 DEF PollCancelled
    <3>4. QED
      BY <3>1, <3>2, <3>3 DEF TimersAreAbandoned, GraceInv
  <2>4. GenerationsDiffer'
    BY <1>8, GraceConstants DEF PollCancelled, Ends, TypeOK, GenerationsDiffer, Polls, GraceInv
  <2>5. ServedHasGeneration'
    BY <1>8, GraceConstants DEF PollCancelled, Ends, TypeOK, ServedHasGeneration, Registered, Polls, GraceInv
  <2>6. GenerationsAreStarted'
    BY <1>8, GraceConstants DEF PollCancelled, Ends, TypeOK, GenerationsAreStarted, Polls, GraceInv
  <2>7. QED
    BY <2>1, <2>2, <2>3, <2>4, <2>5, <2>6 DEF GraceInv
<1>9. ASSUME NEW g \in ticking, TimerFires(g) PROVE GraceInv'
  <2>1. TypeOK'
    <3>1. g \in Nat /\ ticking' = {} /\ fired' \subseteq Nat
      <4>1. g = timer /\ ticking = {timer} /\ timer \in Nat
        <5>1. timer \in {0, gen} /\ gen \in Nat /\ ticking \in {{}, {timer}}
          BY DEF TypeOK, GraceInv
        <5>2. QED
          BY <5>1, <1>9
      <4>2. QED
        BY <4>1, <1>9 DEF TimerFires, TypeOK, GraceInv
    <3>2. QED
      BY <1>9, <3>1 DEF TimerFires, carrier, TypeOK, GraceInv
  <2>2. SerialAlone'
    BY <1>9, GraceConstants DEF TimerFires, carrier, TypeOK, SerialAlone, Polls, GraceInv
  <2>3. TimersAreAbandoned'
    BY <1>9, GraceConstants DEF TimerFires, carrier, TypeOK, TimersAreAbandoned, Polls, GraceInv
  <2>4. GenerationsDiffer'
    BY <1>9, GraceConstants DEF TimerFires, carrier, TypeOK, GenerationsDiffer, Polls, GraceInv
  <2>5. ServedHasGeneration'
    BY <1>9, GraceConstants DEF TimerFires, carrier, TypeOK, ServedHasGeneration, Registered, Polls, GraceInv
  <2>6. GenerationsAreStarted'
    BY <1>9, GraceConstants DEF TimerFires, carrier, TypeOK, GenerationsAreStarted, Polls, GraceInv
  <2>7. QED
    BY <2>1, <2>2, <2>3, <2>4, <2>5, <2>6 DEF GraceInv
<1>10. ASSUME NEW g \in fired, Expire(g) PROVE GraceInv'
  <2>1. TypeOK'
    BY <1>10, GraceConstants DEF Expire, carrier, Registered, TypeOK, Polls, TimersAreAbandoned, GraceInv
  <2>2. SerialAlone'
    BY <1>10, GraceConstants DEF Expire, carrier, Registered, TypeOK, SerialAlone, Polls, GraceInv
  <2>3. TimersAreAbandoned'
    BY <1>10, GraceConstants DEF Expire, carrier, Registered, TypeOK, TimersAreAbandoned, Polls, GraceInv
  <2>4. GenerationsDiffer'
    BY <1>10, GraceConstants DEF Expire, carrier, Registered, TypeOK, GenerationsDiffer, Polls, GraceInv
  <2>5. ServedHasGeneration'
    BY <1>10, GraceConstants DEF Expire, carrier, Registered, TypeOK, ServedHasGeneration, Polls, GraceInv
  <2>6. GenerationsAreStarted'
    BY <1>10, GraceConstants DEF Expire, carrier, Registered, TypeOK, GenerationsAreStarted, Polls, GraceInv
  <2>7. QED
    BY <2>1, <2>2, <2>3, <2>4, <2>5, <2>6 DEF GraceInv
<1>11. CASE EndsOtherwise
  <2>1. TypeOK'
    BY <1>11, GraceConstants DEF EndsOtherwise, carrier, grace, Registered, TypeOK, Polls, GraceInv
  <2>2. SerialAlone'
    BY <1>11, GraceConstants DEF EndsOtherwise, carrier, grace, Registered, TypeOK, SerialAlone, Polls, GraceInv
  <2>3. TimersAreAbandoned'
    BY <1>11, GraceConstants DEF EndsOtherwise, carrier, grace, Registered, TypeOK, TimersAreAbandoned, Polls, GraceInv
  <2>4. GenerationsDiffer'
    BY <1>11, GraceConstants DEF EndsOtherwise, carrier, grace, Registered, TypeOK, GenerationsDiffer, Polls, GraceInv
  <2>5. ServedHasGeneration'
    BY <1>11, GraceConstants DEF EndsOtherwise, carrier, grace, Registered, TypeOK, ServedHasGeneration, Polls, GraceInv
  <2>6. GenerationsAreStarted'
    BY <1>11, GraceConstants DEF EndsOtherwise, carrier, grace, Registered, TypeOK, GenerationsAreStarted, Polls, GraceInv
  <2>7. QED
    BY <2>1, <2>2, <2>3, <2>4, <2>5, <2>6 DEF GraceInv
<1>12. CASE UNCHANGED vars
  BY <1>12, ZenonT(40) DEF vars, GraceInv, TypeOK, SerialAlone, TimersAreAbandoned, GenerationsDiffer, ServedHasGeneration,
             GenerationsAreStarted, Registered
<1>13. QED
  BY <1>1, <1>2, <1>3, <1>4, <1>5, <1>6, <1>7, <1>8, <1>9, <1>10, <1>11, <1>12 DEF Next, HandlerWork

\* The invariant holds of every behaviour, in whatever order polls start.
THEOREM GraceInvariant == Spec => []GraceInv
<1>1. Init => GraceInv
  BY GraceInvInit
<1>2. GraceInv /\ [Next]_vars => GraceInv'
  BY GraceInvNext
<1>3. QED
  BY <1>1, <1>2, PTL DEF Spec

\* Type correctness, and with it at most one running timer.
THEOREM GraceTypes == Spec => []TypeOK
BY GraceInvariant, PTL DEF GraceInv

\* The step that removes a session is the callback of the poll that started last,
\* which nobody waits for and which was sent before every poll that is served.
LEMMA ExpireSpares ==
    ASSUME GraceInv, [Next]_vars, Registered, goneBy' = "grace"
    PROVE  \A q \in live : ph[q] = "serving" => Overtook(q)
<1>1. PICK g \in fired : Expire(g)
  BY DEF Next, HandlerWork, SendPoll, Abandon, Vanish, Lost, Lookup, PollStarted, Answered, PollCancelled,
         TimerFires, EndsOtherwise, Registered, vars
<1>2. gen = g
  BY <1>1 DEF Expire, Registered
<1>3. PICK p \in Polls : pgen[p] = gen /\ p \notin numbered /\ p \notin live /\ ph[p] = "done"
  BY <1>2 DEF GraceInv, TypeOK, TimersAreAbandoned
<1>4. ASSUME NEW q \in live, ph[q] = "serving" PROVE Overtook(q)
  <2>1. p \in Nat /\ q \in Nat /\ q \in Polls /\ q # p /\ p >= 1
    <3>1. q \in Polls
      BY DEF GraceInv, TypeOK
    <3>2. p >= 1
      BY GraceConstants DEF Polls
    <3>3. QED
      BY <3>1, <3>2, <1>3, <1>4, PollNumbers
  <2>2. p <= q
    <3>1. p \in 1..sent
      BY <1>3, PollNumbers DEF GraceInv, TypeOK, SerialAlone
    <3>2. QED
      BY <3>1, <1>3 DEF GraceInv, SerialAlone
  <2>3. p \in 1..(q - 1)
    BY <2>1, <2>2
  <2>4. pgen[q] \in Nat /\ gen \in Nat /\ pgen[q] <= gen /\ pgen[q] # 0
    BY <2>1, <1>4 DEF GraceInv, TypeOK, GenerationsDiffer, ServedHasGeneration
  <2>5. pgen[q] # pgen[p]
    BY <2>1, <2>4 DEF GraceInv, GenerationsDiffer
  <2>6. QED
    BY <2>3, <2>4, <2>5, <1>3 DEF Overtook
<1>5. QED
  BY <1>4

\* controllerDisconnectGrace never removes a session under a poll that the
\* controller waits for and the relay is serving, unless that poll overtook an
\* abandoned one on the way to controllerPollStarted.
THEOREM GraceSpares == Spec => GraceSparesLive
<1>1. GraceInv /\ [Next]_vars =>
        [Registered /\ goneBy' = "grace" => \A q \in live : ph[q] = "serving" => Overtook(q)]_vars
  BY ExpireSpares
<1>2. QED
  BY <1>1, GraceInvariant, PTL DEF Spec, GraceSparesLive

----------------------------------------------------------------------------
(* Cards in Feishu *)

LkMarkedAts == {"launch", "decide", "wait", "update", "forget"}

LkTyped ==
  /\ lkCard \in [LkCards -> [req : SUBSET LkReqs, grant : {"none", "active", "consumed"}, bound : BOOLEAN]]
  /\ lkRec \in [LkCards -> {"none", "idle", "claimed", "inflight", "both"}]
  /\ lkChan \in [LkCards -> {"none", "open", "closed"}]
  /\ lkSeen \in [LkReqs -> LkCards \union {0}]
  /\ lkWatch \in [at : {"idle", "pass", "sent", "bound", "update", "finish"}, card : LkCards \union {0},
                  now : SUBSET LkReqs, todo : SUBSET LkReqs]
  /\ lkTap \in [LkTaps -> [at : {"idle", "spent", "over"} \union LkMarkedAts, card : LkCards \union {0}, waits : BOOLEAN]]

\* A tap that got past Consume spent the grant of its card, which no other has.
LkSpends ==
  /\ LkOneTap
  /\ \A k \in LkTaps : /\ lkTap[k].at = "idle" => lkTap[k].card = 0
                       /\ lkTap[k].at \notin {"idle", "over"} => lkTap[k].card # 0
                       /\ lkTap[k].card # 0 => lkCard[lkTap[k].card].grant = "consumed"

\* What a card's record and its channel say of the tap and the watcher.
LkCardFresh(c) == lkRec[c] = "none" /\ lkChan[c] = "none" /\ \A r \in LkReqs : lkSeen[r] # c
LkCardFree(c) == lkRec[c] \in {"none", "idle", "claimed"}

LkRecords ==
  /\ \A c \in LkCards :
        /\ lkCard[c].grant = "none" => LkCardFresh(c)
        /\ lkCard[c].grant # "consumed" => LkCardFree(c)
        /\ lkRec[c] # "none" => lkChan[c] # "none"
        /\ lkChan[c] = "closed" => \A r \in LkReqs : lkSeen[r] # c
  /\ \A k \in LkTaps :
        /\ lkTap[k].at = "spent" => LkCardFree(lkTap[k].card)
        /\ lkTap[k].at \in LkMarkedAts => lkTap[k].card \in lkLate \/ ~LkCardFree(lkTap[k].card)

\* The watcher's card, while it is being stored and while it is written.
LkWatched ==
  /\ lkWatch.at \in {"sent", "bound", "update", "finish"} => lkWatch.card \in LkCards
  /\ lkWatch.at \in {"sent", "bound"} => lkRec[lkWatch.card] = "none" /\ lkChan[lkWatch.card] = "none"
                                         /\ lkCard[lkWatch.card].grant # "none"
  /\ lkWatch.at \in {"update", "finish"} =>
        /\ lkChan[lkWatch.card] # "closed" /\ lkRec[lkWatch.card] \in {"none", "claimed", "both"}
        /\ lkCard[lkWatch.card].grant # "none"

\* A tap on the card the watcher writes waits for it, unless the record expired.
LkBehind ==
  lkWatch.at \in {"update", "finish"} /\ lkWatch.card \notin lkLate =>
    \A k \in LkTaps : lkTap[k].card = lkWatch.card /\ lkTap[k].at \in LkMarkedAts =>
      lkTap[k].waits /\ lkTap[k].at \in {"launch", "decide", "wait"}

LkInv == LkTyped /\ LkSpends /\ LkRecords /\ LkWatched /\ LkBehind

LEMMA LkLeast ==
    ASSUME NEW S \in SUBSET Nat, S # {}
    PROVE  \E x \in S : \A y \in S : x <= y
<1>1. \E x \in S : \A y \in S : ~(<<y, x>> \in OpToRel(<, Nat))
  BY WFMin, NatLessThanWellFounded, Zenon
<1>2. PICK x \in S : \A y \in S : ~(<<y, x>> \in OpToRel(<, Nat))
  BY <1>1
<1>3. \A y \in S : <<y, x>> \in Nat \X Nat
  OBVIOUS
<1>4. \A y \in S : ~(y < x)
  BY <1>2, <1>3 DEF OpToRel
<1> QED BY <1>4

LEMMA LkInit_Inv == LkInit => LkInv
<1> SUFFICES ASSUME LkInit PROVE LkInv
  OBVIOUS
<1>1. LkTyped
  BY DEF LkInit, LkTyped, LkIdle, LkMarkedAts
<1>2. LkSpends
  BY DEF LkInit, LkSpends, LkOneTap
<1>3. 0 \notin LkCards
  BY LkAssumption DEF LkCards
<1>4. LkRecords
  BY <1>3 DEF LkInit, LkRecords, LkCardFresh, LkCardFree, LkMarkedAts
<1>5. LkWatched /\ LkBehind
  BY DEF LkInit, LkWatched, LkBehind, LkIdle
<1> QED BY <1>1, <1>2, <1>4, <1>5 DEF LkInv

\* Nothing of the cards moves, or only their time.
LEMMA LkFrame ==
  ASSUME LkInv, UNCHANGED <<lkCard, lkRec, lkChan, lkSeen, lkWatch, lkTap>>, lkLate \subseteq lkLate'
  PROVE  LkInv'
<1>1. LkTyped'
  BY DEF LkInv, LkTyped
<1>2. LkSpends'
  BY DEF LkInv, LkSpends, LkOneTap
<1>3. LkRecords'
  BY DEF LkInv, LkRecords, LkCardFresh, LkCardFree
<1>4. LkWatched' /\ LkBehind'
  BY DEF LkInv, LkWatched, LkBehind
<1> QED BY <1>1, <1>2, <1>3, <1>4 DEF LkInv

\* One tap goes on with its own card.
LEMMA LkTapGoes ==
  ASSUME LkInv, NEW k \in LkTaps, NEW at \in LkMarkedAts \union {"over"},
         UNCHANGED <<lkCard, lkRec, lkChan, lkSeen, lkWatch, lkLate>>,
         lkTap' = [lkTap EXCEPT ![k].at = at],
         at # "over" => lkTap[k].at \in LkMarkedAts,
         at = "launch" => lkTap[k].at = "launch",
         at = "wait" => lkTap[k].waits,
         at = "update" => \/ lkTap[k].at = "wait" /\ lkChan[lkTap[k].card] = "closed"
                          \/ ~lkTap[k].waits,
         at = "forget" => lkTap[k].at = "update"
  PROVE  LkInv'
<1>0. /\ LkTyped /\ LkSpends /\ LkRecords /\ LkWatched /\ LkBehind
      /\ lkTap \in [LkTaps -> [at : {"idle", "spent", "over"} \union LkMarkedAts, card : LkCards \union {0}, waits : BOOLEAN]]
  BY DEF LkInv, LkTyped
<1>1. PICK z : z = [lkTap[k] EXCEPT !.at = at]
  OBVIOUS
<1>2. /\ z \in [at : {"idle", "spent", "over"} \union LkMarkedAts, card : LkCards \union {0}, waits : BOOLEAN]
      /\ z.at = at /\ z.card = lkTap[k].card /\ z.waits = lkTap[k].waits
  BY <1>0, <1>1
<1>3. lkTap' = [lkTap EXCEPT ![k] = z]
  BY <1>1
<1>4. /\ lkTap' \in [LkTaps -> [at : {"idle", "spent", "over"} \union LkMarkedAts, card : LkCards \union {0}, waits : BOOLEAN]]
      /\ lkTap'[k] = z /\ \A j \in LkTaps : j # k => lkTap'[j] = lkTap[j]
      /\ \A j \in LkTaps : lkTap'[j].card = lkTap[j].card
  BY <1>0, <1>2, <1>3
<1>5. LkTyped'
  BY <1>0, <1>4 DEF LkTyped
<1>6. lkTap[k].card = 0 => at = "over"
  BY <1>0 DEF LkSpends, LkMarkedAts
<1>7. LkSpends'
  <2>1. LkOneTap'
    BY <1>0, <1>4 DEF LkSpends, LkOneTap
  <2>2. \A j \in LkTaps : /\ lkTap'[j].at = "idle" => lkTap'[j].card = 0
                          /\ lkTap'[j].at \notin {"idle", "over"} => lkTap'[j].card # 0
                          /\ lkTap'[j].card # 0 => lkCard'[lkTap'[j].card].grant = "consumed"
    BY <1>0, <1>2, <1>4, <1>6 DEF LkSpends, LkMarkedAts
  <2> QED BY <2>1, <2>2 DEF LkSpends
<1>8. LkRecords'
  BY <1>0, <1>2, <1>4 DEF LkRecords, LkCardFresh, LkCardFree, LkMarkedAts
<1>9. LkWatched'
  BY <1>0 DEF LkWatched
<1>10. LkBehind'
  BY <1>0, <1>2, <1>4 DEF LkBehind, LkWatched, LkMarkedAts
<1> QED BY <1>5, <1>7, <1>8, <1>9, <1>10 DEF LkInv

LEMMA LkConsume_Inv ==
  ASSUME LkInv, NEW k \in LkTaps, NEW c \in LkCards, NEW e, NEW chat, LkConsume(k, c, e, chat)
  PROVE  LkInv'
<1>0. /\ LkTyped /\ LkSpends /\ LkRecords /\ LkWatched /\ LkBehind
      /\ lkTap \in [LkTaps -> [at : {"idle", "spent", "over"} \union LkMarkedAts, card : LkCards \union {0}, waits : BOOLEAN]]
      /\ lkCard \in [LkCards -> [req : SUBSET LkReqs, grant : {"none", "active", "consumed"}, bound : BOOLEAN]]
      /\ UNCHANGED <<lkRec, lkChan, lkSeen, lkWatch, lkLate>> /\ lkTap[k].at = "idle" /\ 0 \notin LkCards
  BY LkAssumption DEF LkInv, LkTyped, LkConsume, lkActions, lkGrants, LkCards
<1>1. CASE lkTap' = [lkTap EXCEPT ![k].at = "over"] /\ UNCHANGED lkCard
  BY <1>0, <1>1, LkTapGoes
<1>2. CASE lkCard[c].grant = "active" /\ lkCard' = LkSpent(c) /\ lkTap' = [lkTap EXCEPT ![k] = [at |-> "spent", card |-> c, waits |-> FALSE]]
  <2>1. PICK z : z = [lkCard[c] EXCEPT !.grant = "consumed"]
    OBVIOUS
  <2>2. z \in [req : SUBSET LkReqs, grant : {"none", "active", "consumed"}, bound : BOOLEAN] /\ z.grant = "consumed"
    BY <1>0, <2>1
  <2>3. lkCard' = [lkCard EXCEPT ![c] = z]
    BY <1>2, <2>1 DEF LkSpent
  <2>4. /\ lkCard' \in [LkCards -> [req : SUBSET LkReqs, grant : {"none", "active", "consumed"}, bound : BOOLEAN]]
        /\ lkCard'[c].grant = "consumed" /\ \A d \in LkCards : d # c => lkCard'[d] = lkCard[d]
    BY <1>0, <2>2, <2>3
  <2>5. PICK t : t = [at |-> "spent", card |-> c, waits |-> FALSE]
    OBVIOUS
  <2>6. /\ t \in [at : {"idle", "spent", "over"} \union LkMarkedAts, card : LkCards \union {0}, waits : BOOLEAN]
        /\ t.at = "spent" /\ t.card = c
    BY <2>5
  <2>7. lkTap' = [lkTap EXCEPT ![k] = t]
    BY <1>2, <2>5
  <2>8. /\ lkTap' \in [LkTaps -> [at : {"idle", "spent", "over"} \union LkMarkedAts, card : LkCards \union {0}, waits : BOOLEAN]]
        /\ lkTap'[k] = t /\ \A j \in LkTaps : j # k => lkTap'[j] = lkTap[j]
    BY <1>0, <2>6, <2>7
  <2>9. LkTyped'
    BY <1>0, <2>4, <2>8 DEF LkTyped
  <2>10. \A j \in LkTaps : lkTap[j].card # c
    BY <1>0, <1>2 DEF LkSpends
  <2>11. LkSpends'
    <3>1. LkOneTap'
      BY <1>0, <2>6, <2>8, <2>10 DEF LkSpends, LkOneTap
    <3>2. \A j \in LkTaps : /\ lkTap'[j].at = "idle" => lkTap'[j].card = 0
                            /\ lkTap'[j].at \notin {"idle", "over"} => lkTap'[j].card # 0
                            /\ lkTap'[j].card # 0 => lkCard'[lkTap'[j].card].grant = "consumed"
      BY <1>0, <2>4, <2>6, <2>8, <2>10 DEF LkSpends
    <3> QED BY <3>1, <3>2 DEF LkSpends
  <2>12. LkRecords'
    BY <1>0, <1>2, <2>4, <2>6, <2>8 DEF LkRecords, LkCardFresh, LkCardFree, LkMarkedAts
  <2>13. LkWatched'
    BY <1>0, <1>2, <2>4 DEF LkWatched
  <2>14. LkBehind'
    BY <1>0, <2>6, <2>8 DEF LkBehind, LkMarkedAts
  <2> QED BY <2>9, <2>11, <2>12, <2>13, <2>14 DEF LkInv
<1> QED BY <1>0, <1>1, <1>2 DEF LkConsume, lkGrants

LEMMA LkMark_Inv == ASSUME LkInv, NEW k \in LkTaps, LkMark(k) PROVE LkInv'
<1>0. /\ LkTyped /\ LkSpends /\ LkRecords /\ LkWatched /\ LkBehind
      /\ lkTap \in [LkTaps -> [at : {"idle", "spent", "over"} \union LkMarkedAts, card : LkCards \union {0}, waits : BOOLEAN]]
      /\ lkRec \in [LkCards -> {"none", "idle", "claimed", "inflight", "both"}]
      /\ UNCHANGED <<lkCard, lkChan, lkSeen, lkWatch, lkLate>> /\ lkTap[k].at = "spent"
  BY DEF LkInv, LkTyped, LkMark, lkGrants
<1>1. PICK c \in LkCards : c = lkTap[k].card
  BY <1>0 DEF LkSpends
<1>2. CASE lkTap' = [lkTap EXCEPT ![k].at = "over"] /\ UNCHANGED lkRec
  BY <1>0, <1>2, LkTapGoes
<1>3. CASE /\ lkRec[c] # "none"
           /\ lkRec' = [lkRec EXCEPT ![c] = IF @ \in {"claimed", "both"} THEN "both" ELSE "inflight"]
           /\ lkTap' = [lkTap EXCEPT ![k].at = "launch", ![k].waits = LkMarked(c)]
  <2>1. PICK z : z = [lkTap[k] EXCEPT !.at = "launch", !.waits = LkMarked(c)]
    OBVIOUS
  <2>2. /\ z \in [at : {"idle", "spent", "over"} \union LkMarkedAts, card : LkCards \union {0}, waits : BOOLEAN]
        /\ z.at = "launch" /\ z.card = c /\ z.waits = LkMarked(c)
    BY <1>0, <1>1, <2>1 DEF LkMarked, LkMarkedAts
  <2>3. lkTap' = [lkTap EXCEPT ![k] = z]
    BY <1>3, <2>1
  <2>4. /\ lkTap' \in [LkTaps -> [at : {"idle", "spent", "over"} \union LkMarkedAts, card : LkCards \union {0}, waits : BOOLEAN]]
        /\ lkTap'[k] = z /\ \A j \in LkTaps : j # k => lkTap'[j] = lkTap[j]
        /\ \A j \in LkTaps : lkTap'[j].card = lkTap[j].card
    BY <1>0, <1>1, <2>2, <2>3
  <2>5. PICK y : y = IF lkRec[c] \in {"claimed", "both"} THEN "both" ELSE "inflight"
    OBVIOUS
  <2>6. /\ lkRec' \in [LkCards -> {"none", "idle", "claimed", "inflight", "both"}]
        /\ lkRec'[c] = y /\ \A d \in LkCards : d # c => lkRec'[d] = lkRec[d]
    BY <1>0, <1>3, <2>5
  <2>7. y \in {"inflight", "both"} /\ lkRec[c] \in {"idle", "claimed"} /\ (lkRec[c] = "claimed" => y = "both")
    BY <1>0, <1>1, <1>3, <2>5 DEF LkRecords, LkCardFree
  <2>8. LkTyped'
    BY <1>0, <2>4, <2>6 DEF LkTyped
  <2>9. LkSpends'
    <3>1. LkOneTap'
      BY <1>0, <2>4 DEF LkSpends, LkOneTap
    <3>2. \A j \in LkTaps : /\ lkTap'[j].at = "idle" => lkTap'[j].card = 0
                            /\ lkTap'[j].at \notin {"idle", "over"} => lkTap'[j].card # 0
                            /\ lkTap'[j].card # 0 => lkCard'[lkTap'[j].card].grant = "consumed"
      BY <1>0, <2>2, <2>4 DEF LkSpends
    <3> QED BY <3>1, <3>2 DEF LkSpends
  <2>10. \A j \in LkTaps : j # k => lkTap[j].card # c
    BY <1>0, <1>1 DEF LkSpends, LkOneTap
  <2>11. lkCard[c].grant = "consumed"
    BY <1>0, <1>1 DEF LkSpends
  <2>12. LkRecords'
    <3>1. \A d \in LkCards :
            /\ lkCard'[d].grant = "none" => LkCardFresh(d)'
            /\ lkCard'[d].grant # "consumed" => LkCardFree(d)'
            /\ lkRec'[d] # "none" => lkChan'[d] # "none"
            /\ lkChan'[d] = "closed" => \A r \in LkReqs : lkSeen'[r] # d
      BY <1>0, <1>3, <2>6, <2>11 DEF LkRecords, LkCardFresh, LkCardFree
    <3>2. \A j \in LkTaps :
            /\ lkTap'[j].at = "spent" => LkCardFree(lkTap[j].card)'
            /\ lkTap'[j].at \in LkMarkedAts => lkTap'[j].card \in lkLate' \/ ~LkCardFree(lkTap[j].card)'
      <4>1. ASSUME NEW j \in LkTaps, j # k
            PROVE  /\ lkTap'[j].at = "spent" => LkCardFree(lkTap[j].card)'
                   /\ lkTap'[j].at \in LkMarkedAts => lkTap'[j].card \in lkLate' \/ ~LkCardFree(lkTap[j].card)'
        <5>1. lkTap[j].at = "spent" \/ lkTap[j].at \in LkMarkedAts => lkTap[j].card \in LkCards
          BY <1>0 DEF LkSpends, LkMarkedAts
        <5> QED BY <1>0, <2>4, <2>6, <2>10, <4>1, <5>1 DEF LkRecords, LkCardFree
      <4>2. ~LkCardFree(lkTap[k].card)' /\ lkTap'[k].at = "launch"
        BY <1>1, <2>2, <2>4, <2>6, <2>7 DEF LkCardFree
      <4> QED BY <4>1, <4>2
    <3> QED BY <2>4, <3>1, <3>2 DEF LkRecords, LkCardFree
  <2>13. LkWatched'
    BY <1>0, <1>3, <2>6, <2>7 DEF LkWatched
  <2>14. LkBehind'
    <3>1. ASSUME lkWatch.at \in {"update", "finish"}, lkWatch.card = c PROVE z.waits
      BY <1>0, <1>3, <2>2, <2>7, <3>1 DEF LkMarked, LkWatched, LkRecords, LkTyped
    <3> QED BY <1>0, <2>2, <2>4, <3>1 DEF LkBehind, LkMarkedAts
  <2> QED BY <2>8, <2>9, <2>12, <2>13, <2>14 DEF LkInv
<1> QED BY <1>1, <1>2, <1>3 DEF LkMark

LEMMA LkForget_Inv == ASSUME LkInv, NEW k \in LkTaps, LkForget(k) PROVE LkInv'
<1>0. /\ LkTyped /\ LkSpends /\ LkRecords /\ LkWatched /\ LkBehind
      /\ lkTap \in [LkTaps -> [at : {"idle", "spent", "over"} \union LkMarkedAts, card : LkCards \union {0}, waits : BOOLEAN]]
      /\ lkRec \in [LkCards -> {"none", "idle", "claimed", "inflight", "both"}]
      /\ UNCHANGED <<lkCard, lkChan, lkSeen, lkWatch, lkLate>> /\ lkTap[k].at = "forget"
  BY DEF LkInv, LkTyped, LkForget, lkGrants
<1>1. PICK c \in LkCards : c = lkTap[k].card
  BY <1>0 DEF LkSpends
<1>2. PICK z : z = [lkTap[k] EXCEPT !.at = "over"]
  OBVIOUS
<1>3. /\ z \in [at : {"idle", "spent", "over"} \union LkMarkedAts, card : LkCards \union {0}, waits : BOOLEAN]
      /\ z.at = "over" /\ z.card = c
  BY <1>0, <1>1, <1>2
<1>4. lkTap' = [lkTap EXCEPT ![k] = z] /\ lkRec' = [lkRec EXCEPT ![c] = "none"]
  BY <1>1, <1>2 DEF LkForget
<1>5. /\ lkTap' \in [LkTaps -> [at : {"idle", "spent", "over"} \union LkMarkedAts, card : LkCards \union {0}, waits : BOOLEAN]]
      /\ lkTap'[k] = z /\ \A j \in LkTaps : j # k => lkTap'[j] = lkTap[j]
      /\ \A j \in LkTaps : lkTap'[j].card = lkTap[j].card
      /\ lkRec' \in [LkCards -> {"none", "idle", "claimed", "inflight", "both"}]
      /\ lkRec'[c] = "none" /\ \A d \in LkCards : d # c => lkRec'[d] = lkRec[d]
  BY <1>0, <1>1, <1>3, <1>4
<1>6. LkTyped'
  BY <1>0, <1>5 DEF LkTyped
<1>7. LkSpends'
  <2>1. LkOneTap'
    BY <1>0, <1>5 DEF LkSpends, LkOneTap
  <2>2. \A j \in LkTaps : /\ lkTap'[j].at = "idle" => lkTap'[j].card = 0
                          /\ lkTap'[j].at \notin {"idle", "over"} => lkTap'[j].card # 0
                          /\ lkTap'[j].card # 0 => lkCard'[lkTap'[j].card].grant = "consumed"
    BY <1>0, <1>3, <1>5 DEF LkSpends
  <2> QED BY <2>1, <2>2 DEF LkSpends
<1>8. \A j \in LkTaps : j # k => lkTap[j].card # c
  BY <1>0, <1>1 DEF LkSpends, LkOneTap
<1>9. LkRecords'
  <2>1. \A d \in LkCards :
          /\ lkCard'[d].grant = "none" => LkCardFresh(d)'
          /\ lkCard'[d].grant # "consumed" => LkCardFree(d)'
          /\ lkRec'[d] # "none" => lkChan'[d] # "none"
          /\ lkChan'[d] = "closed" => \A r \in LkReqs : lkSeen'[r] # d
    BY <1>0, <1>5 DEF LkRecords, LkCardFresh, LkCardFree
  <2>2. ASSUME NEW j \in LkTaps
        PROVE  /\ lkTap'[j].at = "spent" => LkCardFree(lkTap[j].card)'
               /\ lkTap'[j].at \in LkMarkedAts => lkTap'[j].card \in lkLate' \/ ~LkCardFree(lkTap[j].card)'
    <3>1. lkTap[j].at = "spent" \/ lkTap[j].at \in LkMarkedAts => lkTap[j].card \in LkCards
      BY <1>0 DEF LkSpends, LkMarkedAts
    <3>2. CASE j # k
      BY <1>0, <1>5, <1>8, <3>1, <3>2 DEF LkRecords, LkCardFree
    <3>3. CASE j = k
      BY <1>3, <1>5, <3>3 DEF LkMarkedAts
    <3> QED BY <3>2, <3>3
  <2> QED BY <1>5, <2>1, <2>2 DEF LkRecords, LkCardFree
<1>10. LkWatched'
  BY <1>0, <1>5 DEF LkWatched
<1>11. LkBehind'
  BY <1>0, <1>3, <1>5 DEF LkBehind, LkMarkedAts
<1> QED BY <1>6, <1>7, <1>9, <1>10, <1>11 DEF LkInv

\* Records of cards whose time is over go.
LEMMA LkPrune_Inv ==
  ASSUME LkInv, lkRec' = LkPruned, UNCHANGED <<lkCard, lkChan, lkSeen, lkTap, lkLate>>,
         lkWatch' = lkWatch \/ lkWatch' = LkIdle
  PROVE  LkInv'
<1>0. /\ LkTyped /\ LkSpends /\ LkRecords /\ LkWatched /\ LkBehind
      /\ lkRec \in [LkCards -> {"none", "idle", "claimed", "inflight", "both"}]
  BY DEF LkInv, LkTyped
<1>1. \A d \in LkCards : lkRec'[d] = "none" \/ lkRec'[d] = lkRec[d]
  BY DEF LkPruned
<1>2. \A d \in LkCards : d \notin lkLate => lkRec'[d] = lkRec[d]
  BY DEF LkPruned
<1>3. lkRec' \in [LkCards -> {"none", "idle", "claimed", "inflight", "both"}]
  BY <1>0 DEF LkPruned
<1>4. LkTyped'
  BY <1>0, <1>3 DEF LkTyped, LkIdle
<1>5. LkSpends'
  BY <1>0 DEF LkSpends, LkOneTap
<1>6. LkRecords'
  <2>1. \A d \in LkCards :
          /\ lkCard'[d].grant = "none" => LkCardFresh(d)'
          /\ lkCard'[d].grant # "consumed" => LkCardFree(d)'
          /\ lkRec'[d] # "none" => lkChan'[d] # "none"
          /\ lkChan'[d] = "closed" => \A r \in LkReqs : lkSeen'[r] # d
    BY <1>0, <1>1 DEF LkRecords, LkCardFresh, LkCardFree
  <2>2. ASSUME NEW j \in LkTaps
        PROVE  /\ lkTap'[j].at = "spent" => LkCardFree(lkTap[j].card)'
               /\ lkTap'[j].at \in LkMarkedAts => lkTap'[j].card \in lkLate' \/ ~LkCardFree(lkTap[j].card)'
    <3>1. lkTap[j].at = "spent" \/ lkTap[j].at \in LkMarkedAts => lkTap[j].card \in LkCards
      BY <1>0 DEF LkSpends, LkMarkedAts, LkTyped
    <3> QED BY <1>0, <1>1, <1>2, <3>1 DEF LkRecords, LkCardFree
  <2> QED BY <2>1, <2>2 DEF LkRecords, LkCardFree
<1>7. LkWatched'
  BY <1>0, <1>1 DEF LkWatched, LkIdle
<1>8. LkBehind'
  BY <1>0 DEF LkBehind, LkIdle
<1> QED BY <1>4, <1>5, <1>6, <1>7, <1>8 DEF LkInv

\* The watcher's steps that only move the watcher, or a card's text.
LEMMA LkWatchGoes ==
  ASSUME LkInv, UNCHANGED <<lkRec, lkChan, lkTap, lkLate>>,
         lkSeen' \in [LkReqs -> LkCards \union {0}], \A r \in LkReqs : lkSeen'[r] = lkSeen[r] \/ lkSeen'[r] = 0,
         lkCard' \in [LkCards -> [req : SUBSET LkReqs, grant : {"none", "active", "consumed"}, bound : BOOLEAN]],
         \A c \in LkCards : lkCard'[c].grant = lkCard[c].grant,
         lkWatch' \in [at : {"idle", "pass", "sent", "bound", "update", "finish"}, card : LkCards \union {0},
                       now : SUBSET LkReqs, todo : SUBSET LkReqs],
         lkWatch'.at = "bound" => lkWatch.at = "sent" /\ lkWatch'.card = lkWatch.card,
         lkWatch'.at = "finish" => lkWatch.at = "update" /\ lkWatch'.card = lkWatch.card,
         lkWatch'.at \in {"sent", "update"} => lkWatch' = lkWatch
  PROVE  LkInv'
<1>0. LkTyped /\ LkSpends /\ LkRecords /\ LkWatched /\ LkBehind /\ 0 \notin LkCards
  BY LkAssumption DEF LkInv, LkCards
<1>1. LkTyped'
  BY <1>0 DEF LkTyped
<1>2. LkSpends'
  <2>1. LkOneTap'
    BY <1>0 DEF LkSpends, LkOneTap
  <2>2. \A j \in LkTaps : /\ lkTap'[j].at = "idle" => lkTap'[j].card = 0
                          /\ lkTap'[j].at \notin {"idle", "over"} => lkTap'[j].card # 0
                          /\ lkTap'[j].card # 0 => lkCard'[lkTap'[j].card].grant = "consumed"
    BY <1>0 DEF LkSpends, LkTyped
  <2> QED BY <2>1, <2>2 DEF LkSpends
<1>3. LkRecords'
  BY <1>0 DEF LkRecords, LkCardFresh, LkCardFree
<1>4. LkWatched'
  BY <1>0 DEF LkWatched
<1>5. LkBehind'
  BY <1>0 DEF LkBehind
<1> QED BY <1>1, <1>2, <1>3, <1>4, <1>5 DEF LkInv

LEMMA LkUnsentLeast ==
  ASSUME LkUnsent # {}, NEW c, c = (CHOOSE x \in LkUnsent : \A y \in LkUnsent : x <= y)
  PROVE  c \in LkCards /\ lkCard[c].grant = "none"
<1>1. LkUnsent \in SUBSET Nat
  BY LkAssumption DEF LkUnsent, LkCards
<1>2. \E x \in LkUnsent : \A y \in LkUnsent : x <= y
  BY <1>1, LkLeast
<1>3. c \in LkUnsent
  BY <1>2
<1> QED BY <1>3 DEF LkUnsent

LEMMA LkSend_Inv == ASSUME LkInv, NEW r \in LkReqs, LkSend(r) PROVE LkInv'
<1>1. PICK c : c = CHOOSE x \in LkUnsent : \A y \in LkUnsent : x <= y
  OBVIOUS
<1>0. /\ LkTyped /\ LkSpends /\ LkRecords /\ LkWatched /\ LkBehind
      /\ c \in LkCards /\ lkCard[c].grant = "none"
      /\ lkCard \in [LkCards -> [req : SUBSET LkReqs, grant : {"none", "active", "consumed"}, bound : BOOLEAN]]
      /\ lkSeen \in [LkReqs -> LkCards \union {0}]
      /\ lkWatch \in [at : {"idle", "pass", "sent", "bound", "update", "finish"}, card : LkCards \union {0},
                      now : SUBSET LkReqs, todo : SUBSET LkReqs]
      /\ UNCHANGED <<lkRec, lkChan, lkTap, lkLate>> /\ lkWatch.at = "pass"
  BY <1>1, LkUnsentLeast DEF LkInv, LkTyped, LkSend, lkActions
<1>2. PICK z : z = [req |-> {r}, grant |-> "active", bound |-> FALSE]
  OBVIOUS
<1>3. z \in [req : SUBSET LkReqs, grant : {"none", "active", "consumed"}, bound : BOOLEAN] /\ z.grant = "active"
  BY <1>2
<1>4. lkCard' = [lkCard EXCEPT ![c] = z]
  BY <1>1, <1>2 DEF LkSend
<1>5. /\ lkCard' \in [LkCards -> [req : SUBSET LkReqs, grant : {"none", "active", "consumed"}, bound : BOOLEAN]]
      /\ lkCard'[c].grant = "active" /\ \A d \in LkCards : d # c => lkCard'[d] = lkCard[d]
  BY <1>0, <1>3, <1>4
<1>6. PICK w : w = IF lkSeen' = lkSeen THEN [lkWatch EXCEPT !.todo = @ \ {r}]
                                       ELSE [lkWatch EXCEPT !.at = "sent", !.card = c, !.todo = @ \ {r}]
  OBVIOUS
<1>7. \/ /\ lkSeen' = [lkSeen EXCEPT ![r] = c]
         /\ lkWatch' = [lkWatch EXCEPT !.at = "sent", !.card = c, !.todo = @ \ {r}]
      \/ lkSeen' = lkSeen /\ lkWatch' = [lkWatch EXCEPT !.todo = @ \ {r}]
  BY <1>1 DEF LkSend
<1>8. /\ lkWatch' \in [at : {"idle", "pass", "sent", "bound", "update", "finish"}, card : LkCards \union {0},
                       now : SUBSET LkReqs, todo : SUBSET LkReqs]
      /\ lkWatch'.at = "pass" \/ (lkWatch'.at = "sent" /\ lkWatch'.card = c)
      /\ lkSeen' \in [LkReqs -> LkCards \union {0}]
      /\ \A q \in LkReqs : lkSeen'[q] = lkSeen[q] \/ lkSeen'[q] = c
  <2>1. CASE lkSeen' = [lkSeen EXCEPT ![r] = c] /\ lkWatch' = [lkWatch EXCEPT !.at = "sent", !.card = c, !.todo = @ \ {r}]
    BY <1>0, <2>1
  <2>2. CASE lkSeen' = lkSeen /\ lkWatch' = [lkWatch EXCEPT !.todo = @ \ {r}]
    BY <1>0, <2>2
  <2> QED BY <1>7, <2>1, <2>2
<1>9. lkRec[c] = "none" /\ lkChan[c] = "none"
  BY <1>0 DEF LkRecords, LkCardFresh
<1>10. LkTyped'
  BY <1>0, <1>5, <1>8 DEF LkTyped
<1>11. LkSpends'
  <2>1. LkOneTap'
    BY <1>0 DEF LkSpends, LkOneTap
  <2>2. \A j \in LkTaps : /\ lkTap'[j].at = "idle" => lkTap'[j].card = 0
                          /\ lkTap'[j].at \notin {"idle", "over"} => lkTap'[j].card # 0
                          /\ lkTap'[j].card # 0 => lkCard'[lkTap'[j].card].grant = "consumed"
    BY <1>0, <1>5 DEF LkSpends, LkTyped
  <2> QED BY <2>1, <2>2 DEF LkSpends
<1>12. LkRecords'
  BY <1>0, <1>5, <1>8, <1>9 DEF LkRecords, LkCardFresh, LkCardFree
<1>13. LkWatched'
  BY <1>0, <1>5, <1>8, <1>9 DEF LkWatched
<1>14. LkBehind'
  BY <1>8 DEF LkBehind
<1> QED BY <1>10, <1>11, <1>12, <1>13, <1>14 DEF LkInv

LEMMA LkStoreAction_Inv == ASSUME LkInv, LkStoreAction PROVE LkInv'
<1>1. PICK c : c = lkWatch.card
  OBVIOUS
<1>0. /\ LkTyped /\ LkSpends /\ LkRecords /\ LkWatched /\ LkBehind
      /\ c \in LkCards /\ lkRec[c] = "none" /\ lkCard[c].grant # "none"
      /\ lkRec \in [LkCards -> {"none", "idle", "claimed", "inflight", "both"}]
      /\ lkChan \in [LkCards -> {"none", "open", "closed"}]
      /\ lkWatch \in [at : {"idle", "pass", "sent", "bound", "update", "finish"}, card : LkCards \union {0},
                      now : SUBSET LkReqs, todo : SUBSET LkReqs]
      /\ UNCHANGED <<lkCard, lkSeen, lkTap, lkLate>>
      /\ lkRec' = [lkRec EXCEPT ![c] = "idle"] /\ lkChan' = [lkChan EXCEPT ![c] = "open"]
      /\ lkWatch' = [lkWatch EXCEPT !.at = "pass", !.card = 0]
  BY <1>1 DEF LkInv, LkTyped, LkWatched, LkStoreAction, lkGrants
<1>2. /\ lkRec' \in [LkCards -> {"none", "idle", "claimed", "inflight", "both"}] /\ lkRec'[c] = "idle"
      /\ lkChan' \in [LkCards -> {"none", "open", "closed"}] /\ lkChan'[c] = "open"
      /\ \A d \in LkCards : d # c => lkRec'[d] = lkRec[d] /\ lkChan'[d] = lkChan[d]
      /\ lkWatch' \in [at : {"idle", "pass", "sent", "bound", "update", "finish"}, card : LkCards \union {0},
                       now : SUBSET LkReqs, todo : SUBSET LkReqs]
      /\ lkWatch'.at = "pass"
  BY <1>0
<1>3. LkTyped'
  BY <1>0, <1>2 DEF LkTyped
<1>4. LkSpends'
  BY <1>0 DEF LkSpends, LkOneTap
<1>5. LkRecords'
  <2>1. \A d \in LkCards :
          /\ lkCard'[d].grant = "none" => LkCardFresh(d)'
          /\ lkCard'[d].grant # "consumed" => LkCardFree(d)'
          /\ lkRec'[d] # "none" => lkChan'[d] # "none"
          /\ lkChan'[d] = "closed" => \A r \in LkReqs : lkSeen'[r] # d
    BY <1>0, <1>2 DEF LkRecords, LkCardFresh, LkCardFree
  <2>2. ASSUME NEW j \in LkTaps
        PROVE  /\ lkTap'[j].at = "spent" => LkCardFree(lkTap[j].card)'
               /\ lkTap'[j].at \in LkMarkedAts => lkTap'[j].card \in lkLate' \/ ~LkCardFree(lkTap[j].card)'
    <3>1. lkTap[j].at = "spent" \/ lkTap[j].at \in LkMarkedAts => lkTap[j].card \in LkCards
      BY <1>0 DEF LkSpends, LkMarkedAts, LkTyped
    <3>2. CASE lkTap[j].card # c
      BY <1>0, <1>2, <3>1, <3>2 DEF LkRecords, LkCardFree
    <3>3. CASE lkTap[j].card = c
      BY <1>0, <1>2, <3>3 DEF LkRecords, LkCardFree
    <3> QED BY <3>2, <3>3
  <2> QED BY <2>1, <2>2 DEF LkRecords, LkCardFree
<1>6. LkWatched' /\ LkBehind'
  BY <1>2 DEF LkWatched, LkBehind
<1> QED BY <1>3, <1>4, <1>5, <1>6 DEF LkInv

LEMMA LkGoneCard_Inv == ASSUME LkInv, NEW r \in LkReqs, LkGoneCard(r) PROVE LkInv'
<1>1. PICK c : c = lkSeen[r]
  OBVIOUS
<1>0. /\ LkTyped /\ LkSpends /\ LkRecords /\ LkWatched /\ LkBehind /\ c \in LkCards
      /\ lkRec \in [LkCards -> {"none", "idle", "claimed", "inflight", "both"}]
      /\ lkWatch \in [at : {"idle", "pass", "sent", "bound", "update", "finish"}, card : LkCards \union {0},
                      now : SUBSET LkReqs, todo : SUBSET LkReqs]
      /\ lkSeen \in [LkReqs -> LkCards \union {0}]
      /\ lkCard \in [LkCards -> [req : SUBSET LkReqs, grant : {"none", "active", "consumed"}, bound : BOOLEAN]]
      /\ UNCHANGED <<lkCard, lkChan, lkTap, lkLate>> /\ lkWatch.at = "pass"
  BY <1>1 DEF LkInv, LkTyped, LkGoneCard, lkGrants
<1>2. CASE lkSeen' = [lkSeen EXCEPT ![r] = 0] /\ UNCHANGED <<lkRec, lkWatch>>
  <2>1. lkSeen' \in [LkReqs -> LkCards \union {0}] /\ \A q \in LkReqs : lkSeen'[q] = lkSeen[q] \/ lkSeen'[q] = 0
    BY <1>0, <1>2
  <2> QED BY <1>0, <1>2, <2>1, LkWatchGoes
<1>3. CASE /\ LkClaimable(c) /\ UNCHANGED lkSeen
           /\ lkRec' = [lkRec EXCEPT ![c] = IF @ = "none" THEN @ ELSE "claimed"]
           /\ lkWatch' = [lkWatch EXCEPT !.at = "update", !.card = c]
  <2>1. /\ lkWatch' \in [at : {"idle", "pass", "sent", "bound", "update", "finish"}, card : LkCards \union {0},
                         now : SUBSET LkReqs, todo : SUBSET LkReqs]
        /\ lkWatch'.at = "update" /\ lkWatch'.card = c
    BY <1>0, <1>3
  <2>2. PICK y : y = IF lkRec[c] = "none" THEN "none" ELSE "claimed"
    OBVIOUS
  <2>3. lkRec' = [lkRec EXCEPT ![c] = y]
    BY <1>3, <2>2
  <2>4. /\ lkRec' \in [LkCards -> {"none", "idle", "claimed", "inflight", "both"}]
        /\ lkRec'[c] = y /\ \A d \in LkCards : d # c => lkRec'[d] = lkRec[d]
        /\ y \in {"none", "claimed"} /\ (y = "none" <=> lkRec[c] = "none") /\ lkRec[c] \notin {"inflight", "both"}
    BY <1>0, <1>3, <2>2, <2>3 DEF LkClaimable
  <2>5. LkTyped'
    BY <1>0, <1>3, <2>1, <2>4 DEF LkTyped
  <2>6. LkSpends'
    BY <1>0 DEF LkSpends, LkOneTap
  <2>7. LkRecords'
    <3>1. \A d \in LkCards :
            /\ lkCard'[d].grant = "none" => LkCardFresh(d)'
            /\ lkCard'[d].grant # "consumed" => LkCardFree(d)'
            /\ lkRec'[d] # "none" => lkChan'[d] # "none"
            /\ lkChan'[d] = "closed" => \A q \in LkReqs : lkSeen'[q] # d
      BY <1>0, <1>3, <2>4 DEF LkRecords, LkCardFresh, LkCardFree
    <3>2. ASSUME NEW j \in LkTaps
          PROVE  /\ lkTap'[j].at = "spent" => LkCardFree(lkTap[j].card)'
                 /\ lkTap'[j].at \in LkMarkedAts => lkTap'[j].card \in lkLate' \/ ~LkCardFree(lkTap[j].card)'
      <4>1. lkTap[j].at = "spent" \/ lkTap[j].at \in LkMarkedAts => lkTap[j].card \in LkCards
        BY <1>0 DEF LkSpends, LkMarkedAts, LkTyped
      <4>2. CASE lkTap[j].card # c
        BY <1>0, <2>4, <4>1, <4>2 DEF LkRecords, LkCardFree
      <4>3. CASE lkTap[j].card = c
        <5>1. LkCardFree(c) /\ LkCardFree(lkTap[j].card)'
          BY <1>0, <2>4, <4>3 DEF LkCardFree
        <5> QED BY <1>0, <4>3, <5>1 DEF LkRecords
      <4> QED BY <4>2, <4>3
    <3> QED BY <3>1, <3>2 DEF LkRecords, LkCardFree
  <2>8. lkCard[c].grant # "none" /\ lkChan[c] # "closed"
    BY <1>0, <1>1 DEF LkRecords, LkCardFresh
  <2>9. LkWatched'
    BY <1>0, <2>1, <2>4, <2>8 DEF LkWatched
  <2>10. LkBehind'
    <3>1. ASSUME NEW j \in LkTaps, lkTap[j].card = c, lkTap[j].at \in LkMarkedAts PROVE c \in lkLate
      BY <1>0, <2>4, <3>1 DEF LkRecords, LkCardFree
    <3> QED BY <1>0, <2>1, <3>1 DEF LkBehind
  <2> QED BY <2>5, <2>6, <2>7, <2>9, <2>10 DEF LkInv
<1> QED BY <1>1, <1>2, <1>3 DEF LkGoneCard

LEMMA LkFinishNatural_Inv == ASSUME LkInv, LkFinishNatural PROVE LkInv'
<1>1. PICK c : c = lkWatch.card
  OBVIOUS
<1>0. /\ LkTyped /\ LkSpends /\ LkRecords /\ LkWatched /\ LkBehind
      /\ c \in LkCards /\ lkCard[c].grant # "none" /\ 0 \notin LkCards
      /\ lkChan \in [LkCards -> {"none", "open", "closed"}]
      /\ lkWatch \in [at : {"idle", "pass", "sent", "bound", "update", "finish"}, card : LkCards \union {0},
                      now : SUBSET LkReqs, todo : SUBSET LkReqs]
      /\ lkSeen \in [LkReqs -> LkCards \union {0}]
      /\ UNCHANGED <<lkCard, lkRec, lkTap, lkLate>>
  BY <1>1, LkAssumption DEF LkInv, LkTyped, LkWatched, LkFinishNatural, lkGrants, LkCards
<1>2. PICK y : y = IF lkRec[c] \in {"claimed", "both"} THEN "closed" ELSE lkChan[c]
  OBVIOUS
<1>3. lkChan' = [lkChan EXCEPT ![c] = y] /\ lkWatch' = [lkWatch EXCEPT !.at = "pass", !.card = 0]
  BY <1>1, <1>2 DEF LkFinishNatural
<1>4. lkSeen' = [q \in LkReqs |-> IF lkSeen[q] = c THEN 0 ELSE lkSeen[q]]
  BY <1>1 DEF LkFinishNatural
<1>5. /\ lkChan' \in [LkCards -> {"none", "open", "closed"}] /\ \A d \in LkCards : d # c => lkChan'[d] = lkChan[d]
      /\ lkChan'[c] = y /\ (lkChan[c] # "none" => y # "none")
      /\ lkWatch' \in [at : {"idle", "pass", "sent", "bound", "update", "finish"}, card : LkCards \union {0},
                       now : SUBSET LkReqs, todo : SUBSET LkReqs]
      /\ lkWatch'.at = "pass"
  BY <1>0, <1>2, <1>3
<1>6. /\ lkSeen' \in [LkReqs -> LkCards \union {0}]
      /\ \A q \in LkReqs : lkSeen'[q] # c /\ (lkSeen'[q] = lkSeen[q] \/ lkSeen'[q] = 0)
  BY <1>0, <1>4
<1>7. LkTyped'
  BY <1>0, <1>5, <1>6 DEF LkTyped
<1>8. LkSpends'
  BY <1>0 DEF LkSpends, LkOneTap
<1>9. LkRecords'
  BY <1>0, <1>5, <1>6 DEF LkRecords, LkCardFresh, LkCardFree
<1>10. LkWatched' /\ LkBehind'
  BY <1>5 DEF LkWatched, LkBehind
<1> QED BY <1>7, <1>8, <1>9, <1>10 DEF LkInv

LEMMA LkNext_Inv == LkInv /\ [LkNext]_lkVars => LkInv'
<1> SUFFICES ASSUME LkInv, [LkNext]_lkVars PROVE LkInv'
  OBVIOUS
<1>0. /\ LkTyped
      /\ lkSeen \in [LkReqs -> LkCards \union {0}]
      /\ lkWatch \in [at : {"idle", "pass", "sent", "bound", "update", "finish"}, card : LkCards \union {0},
                      now : SUBSET LkReqs, todo : SUBSET LkReqs]
      /\ lkCard \in [LkCards -> [req : SUBSET LkReqs, grant : {"none", "active", "consumed"}, bound : BOOLEAN]]
  BY DEF LkInv, LkTyped
<1>1. CASE UNCHANGED lkVars \/ LkClose \/ \E r \in LkReqs : LkRaise(r) \/ LkGoes(r)
  <2>1. UNCHANGED <<lkCard, lkRec, lkChan, lkSeen, lkWatch, lkTap, lkLate>>
    BY <1>1 DEF lkVars, lkGrants, lkActions, LkClose, LkRaise, LkGoes
  <2> QED BY <2>1, LkFrame
<1>2. ASSUME NEW c \in LkCards, LkExpires(c) PROVE LkInv'
  BY <1>2, LkFrame DEF LkExpires, lkActions
<1>3. ASSUME NEW k \in LkTaps, LkLaunch(k) \/ LkDecide(k) \/ LkWaited(k) \/ LkResult(k) PROVE LkInv'
  <2>1. UNCHANGED <<lkCard, lkRec, lkChan, lkSeen, lkWatch, lkLate>>
    BY <1>3 DEF LkLaunch, LkDecide, LkWaited, LkResult, lkGrants, lkActions
  <2>2. CASE LkLaunch(k)
    <3>1. PICK at : at = IF lkClosing THEN "over" ELSE "decide"
      OBVIOUS
    <3>2. lkTap' = [lkTap EXCEPT ![k].at = at] /\ lkTap[k].at = "launch" /\ at \in {"over", "decide"}
      BY <2>2, <3>1 DEF LkLaunch
    <3>3. at \in LkMarkedAts \union {"over"} /\ lkTap[k].at \in LkMarkedAts /\ at \notin {"launch", "wait", "update", "forget"}
      BY <3>2 DEF LkMarkedAts
    <3> QED BY <2>1, <3>2, <3>3, LkTapGoes
  <2>3. CASE LkDecide(k)
    <3>1. PICK at : at = IF lkTap[k].waits THEN "wait" ELSE "update"
      OBVIOUS
    <3>2. /\ lkTap' = [lkTap EXCEPT ![k].at = at] /\ lkTap[k].at = "decide" /\ at \in {"wait", "update"}
          /\ (at = "wait" => lkTap[k].waits) /\ (at = "update" => ~lkTap[k].waits)
      BY <2>3, <3>1 DEF LkDecide
    <3>3. at \in LkMarkedAts \union {"over"} /\ lkTap[k].at \in LkMarkedAts /\ at \notin {"launch", "forget"}
      BY <3>2 DEF LkMarkedAts
    <3> QED BY <2>1, <3>2, <3>3, LkTapGoes
  <2>4. CASE LkWaited(k)
    <3>1. CASE lkChan[lkTap[k].card] = "closed" /\ lkTap' = [lkTap EXCEPT ![k].at = "update"]
      <4>1. lkTap[k].at = "wait" /\ "update" \in LkMarkedAts \union {"over"} /\ "wait" \in LkMarkedAts
        BY <2>4 DEF LkWaited, LkMarkedAts
      <4> QED BY <2>1, <3>1, <4>1, LkTapGoes
    <3>2. CASE lkTap' = [lkTap EXCEPT ![k].at = "over"]
      BY <2>1, <3>2, LkTapGoes
    <3> QED BY <2>4, <3>1, <3>2 DEF LkWaited
  <2>5. CASE LkResult(k)
    <3>1. lkTap' = [lkTap EXCEPT ![k].at = "forget"] /\ lkTap[k].at = "update"
      BY <2>5 DEF LkResult
    <3>2. "forget" \in LkMarkedAts \union {"over"} /\ "update" \in LkMarkedAts
      BY DEF LkMarkedAts
    <3> QED BY <2>1, <3>1, <3>2, LkTapGoes
  <2> QED BY <1>3, <2>2, <2>3, <2>4, <2>5
<1>4. ASSUME NEW k \in LkTaps, LkMark(k) \/ LkForget(k) PROVE LkInv'
  BY <1>4, LkMark_Inv, LkForget_Inv
<1>5. ASSUME NEW k \in LkTaps, NEW c \in LkCards, NEW e \in LkEvents, NEW chat \in {"own", "other"}, LkConsume(k, c, e, chat)
      PROVE  LkInv'
  BY <1>5, LkConsume_Inv
<1>6. CASE LkPassEnds \/ LkOthersPrune
  BY <1>6, LkPrune_Inv DEF LkPassEnds, LkOthersPrune, lkGrants
<1>7. CASE LkState
  <2>1. PICK now, todo : /\ lkWatch' = [at |-> "pass", card |-> 0, now |-> now, todo |-> todo]
                         /\ now \in SUBSET LkReqs /\ todo \in SUBSET LkReqs
    BY <1>7, ZenonT(40) DEF LkState
  <2>2. UNCHANGED <<lkCard, lkRec, lkChan, lkSeen, lkTap, lkLate>>
    BY <1>7 DEF LkState, lkGrants, lkActions
  <2>3. /\ lkWatch' \in [at : {"idle", "pass", "sent", "bound", "update", "finish"}, card : LkCards \union {0},
                         now : SUBSET LkReqs, todo : SUBSET LkReqs]
        /\ lkWatch'.at = "pass"
    BY <2>1
  <2> QED BY <1>0, <2>2, <2>3, LkWatchGoes
<1>8. CASE LkBindChat
  <2>1. UNCHANGED <<lkRec, lkChan, lkSeen, lkTap, lkLate>> /\ lkWatch.at = "sent"
    BY <1>8 DEF LkBindChat, lkActions
  <2>2. /\ lkWatch' \in [at : {"idle", "pass", "sent", "bound", "update", "finish"}, card : LkCards \union {0},
                         now : SUBSET LkReqs, todo : SUBSET LkReqs]
        /\ lkWatch'.at = "pass" \/ (lkWatch'.at = "bound" /\ lkWatch'.card = lkWatch.card)
    <3>1. CASE lkWatch' = [lkWatch EXCEPT !.at = "pass", !.card = 0]
      BY <1>0, <3>1
    <3>2. CASE lkWatch' = [lkWatch EXCEPT !.at = "bound"]
      BY <1>0, <3>2
    <3> QED BY <1>8, <3>1, <3>2 DEF LkBindChat
  <2>3. /\ lkCard' \in [LkCards -> [req : SUBSET LkReqs, grant : {"none", "active", "consumed"}, bound : BOOLEAN]]
        /\ \A c \in LkCards : lkCard'[c].grant = lkCard[c].grant
    <3>1. CASE lkCard' = lkCard
      BY <1>0, <3>1
    <3>2. CASE lkCard' = [lkCard EXCEPT ![lkWatch.card].bound = TRUE]
      <4>1. PICK c, z : c = lkWatch.card /\ z = [lkCard[c] EXCEPT !.bound = TRUE]
        OBVIOUS
      <4>2. lkCard' = [lkCard EXCEPT ![c] = z]
        BY <3>2, <4>1
      <4>3. c \in LkCards
        BY <1>8, <4>1 DEF LkInv, LkWatched, LkBindChat
      <4>4. z \in [req : SUBSET LkReqs, grant : {"none", "active", "consumed"}, bound : BOOLEAN] /\ z.grant = lkCard[c].grant
        BY <1>0, <4>1, <4>3, ZenonT(60)
      <4> QED BY <1>0, <4>2, <4>3, <4>4
    <3> QED BY <1>8, <3>1, <3>2 DEF LkBindChat
  <2> QED BY <1>0, <2>1, <2>2, <2>3, LkWatchGoes
<1>9. CASE LkNaturalUpdate
  <2>1. UNCHANGED <<lkCard, lkRec, lkChan, lkSeen, lkTap, lkLate>> /\ lkWatch.at = "update"
        /\ lkWatch' = [lkWatch EXCEPT !.at = "finish"]
    BY <1>9 DEF LkNaturalUpdate, lkGrants, lkActions
  <2>2. /\ lkWatch' \in [at : {"idle", "pass", "sent", "bound", "update", "finish"}, card : LkCards \union {0},
                         now : SUBSET LkReqs, todo : SUBSET LkReqs]
        /\ lkWatch'.at = "finish" /\ lkWatch'.card = lkWatch.card
    BY <1>0, <2>1
  <2> QED BY <1>0, <2>1, <2>2, LkWatchGoes
<1>10. CASE LkWatcherRestarts
  <2>1. UNCHANGED <<lkCard, lkRec, lkChan, lkWatch, lkTap, lkLate>> /\ lkWatch.at = "idle" /\ lkSeen' = [r \in LkReqs |-> 0]
    BY <1>10 DEF LkWatcherRestarts, lkGrants, lkActions
  <2>2. lkSeen' \in [LkReqs -> LkCards \union {0}] /\ \A r \in LkReqs : lkSeen'[r] = 0
    BY <2>1
  <2> QED BY <1>0, <2>1, <2>2, LkWatchGoes
<1>11. CASE LkStoreAction \/ LkFinishNatural
  BY <1>11, LkStoreAction_Inv, LkFinishNatural_Inv
<1>12. ASSUME NEW r \in LkReqs, LkSend(r) \/ LkGoneCard(r) PROVE LkInv'
  BY <1>12, LkSend_Inv, LkGoneCard_Inv
<1> QED BY <1>1, <1>2, <1>3, <1>4, <1>5, <1>6, <1>7, <1>8, <1>9, <1>10, <1>11, <1>12 DEF LkNext, LkSteps

\* What is claimed of a card: one tap counts, and one text is written at a time.
LkCardsSafe == LkOneTap /\ LkNoUpdateRace

\* larkwatch.go and grants.go: of the deliveries of a card's tap one decides, and
\* its result and the watcher's generic text are not written at the same time.
THEOREM CardsKeepOrder == LkSpec => []LkCardsSafe
<1>1. LkInv => LkCardsSafe
  BY DEF LkInv, LkCardsSafe, LkSpends, LkBehind, LkNoUpdateRace, LkMarkedAts
<1> QED BY <1>1, LkInit_Inv, LkNext_Inv, PTL DEF LkSpec

----------------------------------------------------------------------------
(* The portal's pooled connections *)

DcTyped ==
  /\ dcConn \in [DcConns -> {"none", "open", "closed"}] /\ dcPool \in DcConns \union {0}
  /\ dcWire = [c \in DcConns |-> dcWire[c]] /\ dcResp = [c \in DcConns |-> dcResp[c]]
  /\ dcHeld = [c \in DcConns |-> dcHeld[c]]
  /\ dcCall \in [DcCallers -> [at : {"start", "dial", "pool", "lock", "wait", "failed", "busy", "done"},
                               conn : DcConns \union {0}, got : SUBSET DcCallers]]
  /\ \A k \in DcCallers : dcCall[k].at \in {"pool", "lock", "wait"} => dcCall[k].conn \in DcConns

\* The one request in flight on a connection is that of the caller that waits.
DcInFlight ==
  /\ \A k \in DcCallers : dcCall[k].at = "wait" =>
       LET c == dcCall[k].conn IN
       /\ dcHeld[c] = {k}
       /\ \/ dcWire[c] = <<k>> /\ dcResp[c] = <<>>
          \/ dcWire[c] = <<>> /\ dcResp[c] = <<k>>
  /\ \A c \in DcConns : dcConn[c] = "none" \/ (dcConn[c] = "open" /\ dcHeld[c] = {}) =>
       dcHeld[c] = {} /\ dcWire[c] = <<>> /\ dcResp[c] = <<>>

DcInv == DcTyped /\ DcInFlight /\ DcOwnAnswer /\ DcNoLeak

LEMMA DcInit_Inv == DcInit => DcInv
<1> SUFFICES ASSUME DcInit PROVE DcInv
  OBVIOUS
<1>1. DcTyped
  BY DEF DcInit, DcTyped
<1>2. DcInFlight /\ DcOwnAnswer /\ DcNoLeak
  BY DEF DcInit, DcInFlight, DcOwnAnswer, DcNoLeak
<1> QED BY <1>1, <1>2 DEF DcInv

\* A step of one caller: it becomes call, and nothing else of callers moves.
DcCallRecord == [at : {"start", "dial", "pool", "lock", "wait", "failed", "busy", "done"},
                 conn : DcConns \union {0}, got : SUBSET DcCallers]

LEMMA DcCallStep ==
  ASSUME DcTyped, NEW k \in DcCallers, NEW z \in DcCallRecord, dcCall' = [dcCall EXCEPT ![k] = z],
         z.at \in {"pool", "lock", "wait"} => z.conn \in DcConns
  PROVE  /\ dcCall' \in [DcCallers -> DcCallRecord] /\ dcCall'[k] = z
         /\ \A j \in DcCallers : j # k => dcCall'[j] = dcCall[j]
         /\ \A j \in DcCallers : dcCall'[j].at \in {"pool", "lock", "wait"} => dcCall'[j].conn \in DcConns
<1>1. dcCall \in [DcCallers -> DcCallRecord]
  BY DEF DcTyped, DcCallRecord
<1>2. /\ dcCall' \in [DcCallers -> DcCallRecord] /\ dcCall'[k] = z
      /\ \A j \in DcCallers : j # k => dcCall'[j] = dcCall[j]
  BY <1>1
<1> QED BY <1>2 DEF DcTyped

LEMMA DcNewLeast ==
  ASSUME DcNew # {}, NEW c, c = (CHOOSE x \in DcNew : \A y \in DcNew : x <= y)
  PROVE  c \in DcConns /\ dcConn[c] = "none"
<1>1. DcNew \in SUBSET Nat
  BY DcAssumption DEF DcNew, DcConns
<1>2. \E x \in DcNew : \A y \in DcNew : x <= y
  BY <1>1, LkLeast
<1>3. c \in DcNew
  BY <1>2
<1> QED BY <1>3 DEF DcNew

\* Steps of a caller that sends and receives nothing.
LEMMA DcQuiet ==
  ASSUME DcInv, NEW k \in DcCallers, NEW z \in DcCallRecord, dcCall' = [dcCall EXCEPT ![k] = z],
         z.at # "wait", z.at \in {"pool", "lock"} => z.conn \in DcConns, z.got = dcCall[k].got \/ z.got = {},
         UNCHANGED <<dcWire, dcResp, dcHeld>>, dcCall[k].at # "wait",
         dcConn' \in [DcConns -> {"none", "open", "closed"}], dcPool' \in DcConns \union {0},
         \A c \in DcConns : /\ dcConn'[c] = "none" => dcConn[c] = "none"
                            /\ dcConn'[c] = "open" => \/ dcConn[c] = "open" /\ (dcPool = c => dcPool' = c)
                                                      \/ dcConn[c] = "none" /\ z.at = "pool" /\ z.conn = c,
         dcCall[k].at = "pool" /\ dcConn'[dcCall[k].conn] = "open" => dcPool' = dcCall[k].conn
  PROVE  DcInv'
<1>0. DcTyped /\ DcInFlight /\ DcOwnAnswer /\ DcNoLeak
  BY DEF DcInv
<1>1. /\ dcCall' \in [DcCallers -> DcCallRecord] /\ dcCall'[k] = z
      /\ \A j \in DcCallers : j # k => dcCall'[j] = dcCall[j]
      /\ \A j \in DcCallers : dcCall'[j].at \in {"pool", "lock", "wait"} => dcCall'[j].conn \in DcConns
  BY <1>0, DcCallStep
<1>2. DcTyped'
  BY <1>0, <1>1 DEF DcTyped, DcCallRecord
<1>3. DcInFlight'
  <2>1. \A j \in DcCallers : dcCall'[j].at = "wait" => dcCall'[j] = dcCall[j]
    BY <1>1
  <2>2. \A c \in DcConns : dcConn'[c] = "none" \/ (dcConn'[c] = "open" /\ dcHeld[c] = {}) =>
          dcConn[c] = "none" \/ (dcConn[c] = "open" /\ dcHeld[c] = {})
    OBVIOUS
  <2>3. ASSUME NEW j \in DcCallers, dcCall'[j].at = "wait"
        PROVE  LET c == dcCall'[j].conn IN
               /\ dcHeld'[c] = {j}
               /\ \/ dcWire'[c] = <<j>> /\ dcResp'[c] = <<>>
                  \/ dcWire'[c] = <<>> /\ dcResp'[c] = <<j>>
    <3>1. PICK c : c = dcCall'[j].conn
      OBVIOUS
    <3>2. dcCall[j].at = "wait" /\ c = dcCall[j].conn
      BY <2>1, <2>3, <3>1
    <3>3. dcHeld[c] = {j} /\ ((dcWire[c] = <<j>> /\ dcResp[c] = <<>>) \/ (dcWire[c] = <<>> /\ dcResp[c] = <<j>>))
      BY <1>0, <3>2 DEF DcInFlight
    <3> QED BY <3>1, <3>3
  <2>4. ASSUME NEW c \in DcConns, dcConn'[c] = "none" \/ (dcConn'[c] = "open" /\ dcHeld'[c] = {})
        PROVE  dcHeld'[c] = {} /\ dcWire'[c] = <<>> /\ dcResp'[c] = <<>>
    BY <1>0, <2>2, <2>4 DEF DcInFlight
  <2> QED BY <2>3, <2>4 DEF DcInFlight
<1>4. DcOwnAnswer'
  BY <1>0, <1>1 DEF DcOwnAnswer
<1>5. DcNoLeak'
  <2> SUFFICES ASSUME NEW c \in DcConns, dcConn'[c] = "open"
               PROVE  dcPool' = c \/ \E j \in DcCallers : dcCall'[j].at = "pool" /\ dcCall'[j].conn = c
    BY DEF DcNoLeak
  <2>1. CASE dcConn[c] = "none"
    BY <1>1, <2>1
  <2>2. CASE dcConn[c] = "open" /\ dcPool = c
    BY <2>2
  <2>3. CASE dcConn[c] = "open" /\ dcPool # c
    <3>1. PICK j \in DcCallers : dcCall[j].at = "pool" /\ dcCall[j].conn = c
      BY <1>0, <2>3 DEF DcNoLeak
    <3>2. CASE j = k
      BY <3>1, <3>2
    <3>3. CASE j # k
      BY <1>1, <3>1, <3>3
    <3> QED BY <3>2, <3>3
  <2> QED BY <2>1, <2>2, <2>3
<1> QED BY <1>2, <1>3, <1>4, <1>5 DEF DcInv

LEMMA DcQuiet_Inv ==
  ASSUME DcInv, NEW k \in DcCallers, DcLookup(k) \/ DcDial(k) \/ DcPoolIt(k) \/ DcDrop(k) \/ DcAgain(k)
  PROVE  DcInv'
<1>0. /\ DcTyped /\ dcCall \in [DcCallers -> DcCallRecord]
      /\ dcConn \in [DcConns -> {"none", "open", "closed"}] /\ dcPool \in DcConns \union {0}
      /\ 0 \notin DcConns /\ dcCall[k] \in DcCallRecord
  BY DcAssumption DEF DcInv, DcTyped, DcCallRecord, DcConns
<1>1. CASE DcLookup(k)
  <2>1. UNCHANGED <<dcConn, dcWire, dcResp, dcHeld>> /\ dcCall[k].at = "start"
    BY <1>1 DEF DcLookup
  <2>2. CASE DcAlive(dcPool) /\ dcCall' = [dcCall EXCEPT ![k].at = "lock", ![k].conn = dcPool] /\ UNCHANGED dcPool
    <3>1. PICK z : z = [dcCall[k] EXCEPT !.at = "lock", !.conn = dcPool]
      OBVIOUS
    <3>2. z \in DcCallRecord /\ z.at = "lock" /\ z.conn = dcPool /\ z.got = dcCall[k].got
      BY <1>0, <3>1 DEF DcCallRecord
    <3>3. dcCall' = [dcCall EXCEPT ![k] = z] /\ dcPool \in DcConns
      BY <1>0, <2>2, <3>1 DEF DcAlive
    <3> QED BY <1>0, <2>1, <2>2, <3>2, <3>3, DcQuiet
  <2>3. CASE ~DcAlive(dcPool) /\ dcPool' = 0 /\ dcCall' = [dcCall EXCEPT ![k].at = "dial"]
    <3>1. PICK z : z = [dcCall[k] EXCEPT !.at = "dial"]
      OBVIOUS
    <3>2. z \in DcCallRecord /\ z.at = "dial" /\ z.got = dcCall[k].got
      BY <1>0, <3>1 DEF DcCallRecord
    <3>3. dcCall' = [dcCall EXCEPT ![k] = z] /\ (dcPool # 0 => dcConn[dcPool] # "open")
      BY <2>3, <3>1 DEF DcAlive
    <3> QED BY <1>0, <2>1, <2>3, <3>2, <3>3, DcQuiet
  <2> QED BY <1>1, <2>2, <2>3 DEF DcLookup
<1>2. CASE DcDial(k)
  <2>1. UNCHANGED <<dcPool, dcWire, dcResp, dcHeld>> /\ dcCall[k].at = "dial"
    BY <1>2 DEF DcDial
  <2>2. CASE dcCall' = [dcCall EXCEPT ![k].at = "failed"] /\ UNCHANGED dcConn
    <3>1. PICK z : z = [dcCall[k] EXCEPT !.at = "failed"]
      OBVIOUS
    <3>2. z \in DcCallRecord /\ z.at = "failed" /\ z.got = dcCall[k].got
      BY <1>0, <3>1 DEF DcCallRecord
    <3>3. dcCall' = [dcCall EXCEPT ![k] = z]
      BY <2>2, <3>1
    <3> QED BY <1>0, <2>1, <2>2, <3>2, <3>3, DcQuiet
  <2>3. PICK c : c = CHOOSE x \in DcNew : \A y \in DcNew : x <= y
    OBVIOUS
  <2>4. CASE DcNew # {} /\ dcConn' = [dcConn EXCEPT ![c] = "open"] /\ dcCall' = [dcCall EXCEPT ![k].at = "pool", ![k].conn = c]
    <3>0. c \in DcConns /\ dcConn[c] = "none"
      BY <2>3, <2>4, DcNewLeast
    <3>1. PICK z : z = [dcCall[k] EXCEPT !.at = "pool", !.conn = c]
      OBVIOUS
    <3>2. z \in DcCallRecord /\ z.at = "pool" /\ z.conn = c /\ z.got = dcCall[k].got
      BY <1>0, <3>0, <3>1 DEF DcCallRecord
    <3>3. dcCall' = [dcCall EXCEPT ![k] = z]
      BY <2>4, <3>1
    <3>4. dcConn' \in [DcConns -> {"none", "open", "closed"}] /\ dcConn'[c] = "open" /\ \A d \in DcConns : d # c => dcConn'[d] = dcConn[d]
      BY <1>0, <2>4, <3>0
    <3> QED BY <1>0, <2>1, <3>0, <3>2, <3>3, <3>4, DcQuiet, ZenonT(30)
  <2> QED BY <1>2, <2>2, <2>3, <2>4 DEF DcDial
<1>3. CASE DcPoolIt(k)
  <2>0. PICK c \in DcConns : c = dcCall[k].conn
    BY <1>0, <1>3 DEF DcPoolIt, DcTyped
  <2>1. UNCHANGED <<dcWire, dcResp, dcHeld>> /\ dcCall[k].at = "pool"
    BY <1>3 DEF DcPoolIt
  <2>2. CASE DcAlive(dcPool) /\ dcConn' = [dcConn EXCEPT ![c] = "closed"] /\ UNCHANGED dcPool
             /\ dcCall' = [dcCall EXCEPT ![k].at = "lock", ![k].conn = dcPool]
    <3>1. PICK z : z = [dcCall[k] EXCEPT !.at = "lock", !.conn = dcPool]
      OBVIOUS
    <3>2. z \in DcCallRecord /\ z.at = "lock" /\ z.conn = dcPool /\ z.got = dcCall[k].got
      BY <1>0, <3>1 DEF DcCallRecord
    <3>3. dcCall' = [dcCall EXCEPT ![k] = z] /\ dcPool \in DcConns
      BY <1>0, <2>2, <3>1 DEF DcAlive
    <3>4. dcConn' \in [DcConns -> {"none", "open", "closed"}] /\ dcConn'[c] = "closed" /\ \A d \in DcConns : d # c => dcConn'[d] = dcConn[d]
      BY <1>0, <2>2
    <3> QED BY <1>0, <2>0, <2>1, <2>2, <3>2, <3>3, <3>4, DcQuiet
  <2>3. CASE ~DcAlive(dcPool) /\ dcPool' = c /\ dcCall' = [dcCall EXCEPT ![k].at = "lock"] /\ UNCHANGED dcConn
    <3>1. PICK z : z = [dcCall[k] EXCEPT !.at = "lock"]
      OBVIOUS
    <3>2. z \in DcCallRecord /\ z.at = "lock" /\ z.conn = c /\ z.got = dcCall[k].got
      BY <1>0, <2>0, <3>1 DEF DcCallRecord
    <3>3. dcCall' = [dcCall EXCEPT ![k] = z] /\ (dcPool # 0 => dcConn[dcPool] # "open")
      BY <2>3, <3>1 DEF DcAlive
    <3>4. \A d \in DcConns : dcConn[d] = "open" => dcPool # d
      BY <1>0, <3>3
    <3>5. \A d \in DcConns : /\ dcConn'[d] = "none" => dcConn[d] = "none"
                             /\ dcConn'[d] = "open" => dcConn[d] = "open" /\ (dcPool = d => dcPool' = d)
      BY <2>3, <3>4
    <3>6. dcConn' \in [DcConns -> {"none", "open", "closed"}] /\ dcPool' \in DcConns \union {0} /\ dcPool' = dcCall[k].conn
      BY <1>0, <2>0, <2>3
    <3> QED BY <2>1, <3>2, <3>3, <3>5, <3>6, DcQuiet
  <2> QED BY <1>3, <2>0, <2>2, <2>3 DEF DcPoolIt, DcLoser, DcClosed
<1>4. CASE DcDrop(k)
  <2>1. PICK z : z = [dcCall[k] EXCEPT !.at = "done"]
    OBVIOUS
  <2>2. z \in DcCallRecord /\ z.at = "done" /\ z.got = dcCall[k].got
    BY <1>0, <2>1 DEF DcCallRecord
  <2>3. /\ dcCall' = [dcCall EXCEPT ![k] = z] /\ UNCHANGED <<dcWire, dcResp, dcHeld>> /\ dcCall[k].at = "failed"
        /\ dcPool' = 0 /\ dcConn' = IF dcPool # 0 THEN [dcConn EXCEPT ![dcPool] = "closed"] ELSE dcConn
    BY <1>4, <2>1 DEF DcDrop, DcClosed
  <2>4. dcConn' \in [DcConns -> {"none", "open", "closed"}] /\ \A d \in DcConns : dcConn'[d] = dcConn[d] \/ dcConn'[d] = "closed"
    BY <1>0, <2>3
  <2>5. \A d \in DcConns : dcPool = d => dcConn'[d] = "closed"
    BY <1>0, <2>3
  <2> QED BY <1>0, <2>2, <2>3, <2>4, <2>5, DcQuiet
<1>5. CASE DcAgain(k)
  <2>1. PICK z : z = [at |-> "start", conn |-> 0, got |-> {}]
    OBVIOUS
  <2>2. z \in DcCallRecord /\ z.at = "start" /\ z.got = {}
    BY <2>1 DEF DcCallRecord
  <2>3. dcCall' = [dcCall EXCEPT ![k] = z] /\ UNCHANGED <<dcConn, dcPool, dcWire, dcResp, dcHeld>> /\ dcCall[k].at \in {"done", "busy"}
    BY <1>5, <2>1 DEF DcAgain
  <2> QED BY <1>0, <2>2, <2>3, DcQuiet
<1> QED BY <1>1, <1>2, <1>3, <1>4, <1>5

\* A caller's step on its own connection, which does not open it.
DcWorks(k, c, z) ==
  /\ c = dcCall[k].conn /\ dcCall[k].at \in {"lock", "wait"} /\ UNCHANGED dcPool
  /\ z \in DcCallRecord /\ dcCall' = [dcCall EXCEPT ![k] = z] /\ z.conn = c /\ z.got \subseteq {k} /\ z.at # "pool"
  /\ dcConn' \in [DcConns -> {"none", "open", "closed"}]
  /\ dcWire' = [d \in DcConns |-> dcWire'[d]] /\ dcResp' = [d \in DcConns |-> dcResp'[d]]
  /\ dcHeld' = [d \in DcConns |-> dcHeld'[d]]
  /\ \A d \in DcConns : d # c => /\ dcWire'[d] = dcWire[d] /\ dcResp'[d] = dcResp[d]
                                 /\ dcHeld'[d] = dcHeld[d] /\ dcConn'[d] = dcConn[d]
  /\ \A j \in DcCallers : j # k /\ dcCall[j].at = "wait" => dcCall[j].conn # c
  /\ z.at = "wait" => dcHeld'[c] = {k} /\ (\/ dcWire'[c] = <<k>> /\ dcResp'[c] = <<>>
                                           \/ dcWire'[c] = <<>> /\ dcResp'[c] = <<k>>)
  /\ dcConn'[c] = "open" => dcConn[c] = "open"
  /\ dcConn'[c] # "none"
  /\ dcConn'[c] = "open" /\ dcHeld'[c] = {} => dcWire'[c] = <<>> /\ dcResp'[c] = <<>>

LEMMA DcWork ==
  ASSUME DcInv, NEW k \in DcCallers, NEW c \in DcConns, NEW z, DcWorks(k, c, z)
  PROVE  DcInv'
<1>0. DcTyped /\ DcInFlight /\ DcOwnAnswer /\ DcNoLeak
  BY DEF DcInv
<1>1. /\ dcCall' \in [DcCallers -> DcCallRecord] /\ dcCall'[k] = z
      /\ \A j \in DcCallers : j # k => dcCall'[j] = dcCall[j]
      /\ \A j \in DcCallers : dcCall'[j].at \in {"pool", "lock", "wait"} => dcCall'[j].conn \in DcConns
  BY <1>0, DcCallStep DEF DcWorks
<1>2. DcTyped'
  BY <1>0, <1>1 DEF DcTyped, DcCallRecord, DcWorks
<1>3. DcInFlight'
  <2>1. ASSUME NEW j \in DcCallers, dcCall'[j].at = "wait"
        PROVE  LET d == dcCall'[j].conn IN
               /\ dcHeld'[d] = {j}
               /\ \/ dcWire'[d] = <<j>> /\ dcResp'[d] = <<>>
                  \/ dcWire'[d] = <<>> /\ dcResp'[d] = <<j>>
    <3>1. CASE j = k
      BY <1>1, <2>1, <3>1 DEF DcWorks
    <3>2. CASE j # k
      <4>1. PICK d \in DcConns : d = dcCall[j].conn /\ d # c /\ dcCall'[j] = dcCall[j]
        BY <1>0, <1>1, <2>1, <3>2 DEF DcTyped, DcWorks
      <4>2. dcHeld[d] = {j} /\ (\/ dcWire[d] = <<j>> /\ dcResp[d] = <<>>
                                \/ dcWire[d] = <<>> /\ dcResp[d] = <<j>>)
        BY <1>0, <2>1, <4>1 DEF DcInFlight
      <4>3. dcWire'[d] = dcWire[d] /\ dcResp'[d] = dcResp[d] /\ dcHeld'[d] = dcHeld[d]
        BY <4>1 DEF DcWorks
      <4> QED BY <4>1, <4>2, <4>3
    <3> QED BY <3>1, <3>2
  <2>2. ASSUME NEW d \in DcConns, dcConn'[d] = "none" \/ (dcConn'[d] = "open" /\ dcHeld'[d] = {})
        PROVE  dcHeld'[d] = {} /\ dcWire'[d] = <<>> /\ dcResp'[d] = <<>>
    <3>1. CASE d = c
      BY <2>2, <3>1 DEF DcWorks
    <3>2. CASE d # c
      BY <1>0, <2>2, <3>2 DEF DcInFlight, DcWorks
    <3> QED BY <3>1, <3>2
  <2> QED BY <2>1, <2>2 DEF DcInFlight
<1>4. DcOwnAnswer'
  BY <1>0, <1>1 DEF DcOwnAnswer, DcWorks
<1>5. DcNoLeak'
  <2> SUFFICES ASSUME NEW d \in DcConns, dcConn'[d] = "open"
               PROVE  dcPool' = d \/ \E j \in DcCallers : dcCall'[j].at = "pool" /\ dcCall'[j].conn = d
    BY DEF DcNoLeak
  <2>1. dcConn[d] = "open"
    BY DEF DcWorks
  <2>2. CASE dcPool = d
    BY <2>2 DEF DcWorks
  <2>3. CASE dcPool # d
    <3>1. PICK j \in DcCallers : dcCall[j].at = "pool" /\ dcCall[j].conn = d
      BY <1>0, <2>1, <2>3 DEF DcNoLeak
    <3>2. j # k
      BY <3>1 DEF DcWorks
    <3> QED BY <1>1, <3>1, <3>2
  <2> QED BY <2>2, <2>3
<1> QED BY <1>2, <1>3, <1>4, <1>5 DEF DcInv

\* Nobody else waits on a connection that is held, or that nobody holds.
LEMMA DcAlone ==
  ASSUME DcInFlight, NEW c, NEW k, dcHeld[c] \subseteq {k}, NEW j \in DcCallers, j # k, dcCall[j].at = "wait"
  PROVE  dcCall[j].conn # c
BY DEF DcInFlight

LEMMA DcSend_Inv == ASSUME DcInv, NEW k \in DcCallers, DcSend(k) PROVE DcInv'
<1>0. /\ DcTyped /\ DcInFlight /\ dcCall \in [DcCallers -> DcCallRecord] /\ dcCall[k] \in DcCallRecord
      /\ dcConn \in [DcConns -> {"none", "open", "closed"}]
      /\ dcWire = [d \in DcConns |-> dcWire[d]] /\ dcResp = [d \in DcConns |-> dcResp[d]] /\ dcHeld = [d \in DcConns |-> dcHeld[d]]
      /\ dcCall[k].at = "lock" /\ dcCall[k].got \subseteq {k} /\ UNCHANGED dcPool
  BY DEF DcInv, DcTyped, DcCallRecord, DcOwnAnswer, DcSend
<1>1. PICK c \in DcConns : c = dcCall[k].conn
  BY <1>0 DEF DcTyped
<1>2. CASE /\ dcHeld[c] = {} /\ dcConn[c] = "open" /\ UNCHANGED <<dcConn, dcResp>>
           /\ dcHeld' = [dcHeld EXCEPT ![c] = {k}] /\ dcWire' = [dcWire EXCEPT ![c] = Append(@, k)]
           /\ dcCall' = [dcCall EXCEPT ![k].at = "wait"]
  <2>1. PICK z : z = [dcCall[k] EXCEPT !.at = "wait"]
    OBVIOUS
  <2>2. z \in DcCallRecord /\ z.at = "wait" /\ z.conn = c /\ z.got \subseteq {k}
    BY <1>0, <1>1, <2>1 DEF DcCallRecord
  <2>3. dcCall' = [dcCall EXCEPT ![k] = z]
    BY <1>2, <2>1
  <2>4. dcWire[c] = <<>> /\ dcResp[c] = <<>>
    BY <1>0, <1>2 DEF DcInFlight
  <2>5. Append(dcWire[c], k) = <<k>>
    BY <2>4
  <2>6. dcWire' = [dcWire EXCEPT ![c] = <<k>>]
    BY <1>2, <2>5
  <2>7. /\ dcWire' = [d \in DcConns |-> dcWire'[d]] /\ dcResp' = [d \in DcConns |-> dcResp'[d]]
        /\ dcHeld' = [d \in DcConns |-> dcHeld'[d]] /\ dcHeld'[c] = {k} /\ dcWire'[c] = <<k>> /\ dcResp'[c] = <<>>
        /\ \A d \in DcConns : d # c => /\ dcWire'[d] = dcWire[d] /\ dcResp'[d] = dcResp[d]
                                       /\ dcHeld'[d] = dcHeld[d] /\ dcConn'[d] = dcConn[d]
    BY <1>0, <1>2, <2>4, <2>6
  <2>8. \A j \in DcCallers : j # k /\ dcCall[j].at = "wait" => dcCall[j].conn # c
    BY <1>0, <1>2, DcAlone
  <2>9. /\ dcCall[k].at \in {"lock", "wait"} /\ z.at # "pool" /\ dcConn' \in [DcConns -> {"none", "open", "closed"}]
        /\ (dcConn'[c] = "open" => dcConn[c] = "open") /\ dcConn'[c] # "none"
        /\ (dcConn'[c] = "open" /\ dcHeld'[c] = {} => dcWire'[c] = <<>> /\ dcResp'[c] = <<>>)
        /\ z.at = "wait" => dcHeld'[c] = {k} /\ ((dcWire'[c] = <<k>> /\ dcResp'[c] = <<>>) \/ (dcWire'[c] = <<>> /\ dcResp'[c] = <<k>>))
    BY <1>0, <1>2, <2>2, <2>7
  <2>10. DcWorks(k, c, z)
    BY <1>0, <1>1, <1>2, <2>2, <2>3, <2>7, <2>8, <2>9, ZenonT(30) DEF DcWorks
  <2> QED BY <2>10, DcWork
<1>3. CASE /\ dcHeld[c] = {} /\ dcConn[c] = "closed" /\ dcResp' = [dcResp EXCEPT ![c] = <<>>]
           /\ dcCall' = [dcCall EXCEPT ![k].at = "failed"] /\ UNCHANGED <<dcConn, dcWire, dcHeld>>
  <2>1. PICK z : z = [dcCall[k] EXCEPT !.at = "failed"]
    OBVIOUS
  <2>2. z \in DcCallRecord /\ z.at = "failed" /\ z.conn = c /\ z.got \subseteq {k}
    BY <1>0, <1>1, <2>1 DEF DcCallRecord
  <2>3. dcCall' = [dcCall EXCEPT ![k] = z]
    BY <1>3, <2>1
  <2>4. /\ dcWire' = [d \in DcConns |-> dcWire'[d]] /\ dcResp' = [d \in DcConns |-> dcResp'[d]]
        /\ dcHeld' = [d \in DcConns |-> dcHeld'[d]]
        /\ \A d \in DcConns : d # c => /\ dcWire'[d] = dcWire[d] /\ dcResp'[d] = dcResp[d]
                                       /\ dcHeld'[d] = dcHeld[d] /\ dcConn'[d] = dcConn[d]
    BY <1>0, <1>3
  <2>5. \A j \in DcCallers : j # k /\ dcCall[j].at = "wait" => dcCall[j].conn # c
    BY <1>0, <1>3, DcAlone
  <2>6. /\ dcCall[k].at \in {"lock", "wait"} /\ z.at # "pool" /\ dcConn' \in [DcConns -> {"none", "open", "closed"}]
        /\ (dcConn'[c] = "open" => dcConn[c] = "open") /\ dcConn'[c] # "none"
        /\ (dcConn'[c] = "open" /\ dcHeld'[c] = {} => dcWire'[c] = <<>> /\ dcResp'[c] = <<>>)
        /\ z.at = "wait" => dcHeld'[c] = {k} /\ ((dcWire'[c] = <<k>> /\ dcResp'[c] = <<>>) \/ (dcWire'[c] = <<>> /\ dcResp'[c] = <<k>>))
    BY <1>0, <1>3, <2>2
  <2>7. DcWorks(k, c, z)
    BY <1>0, <1>1, <1>3, <2>2, <2>3, <2>4, <2>5, <2>6 DEF DcWorks
  <2> QED BY <2>7, DcWork
<1>4. CASE dcCall' = [dcCall EXCEPT ![k].at = "busy"] /\ UNCHANGED <<dcConn, dcWire, dcResp, dcHeld>>
  <2>1. PICK z : z = [dcCall[k] EXCEPT !.at = "busy"]
    OBVIOUS
  <2>2. z \in DcCallRecord /\ z.at = "busy" /\ z.got = dcCall[k].got
    BY <1>0, <2>1 DEF DcCallRecord
  <2>3. dcCall' = [dcCall EXCEPT ![k] = z] /\ dcPool' \in DcConns \union {0}
    BY <1>0, <1>4, <2>1 DEF DcTyped
  <2> QED BY <1>0, <1>4, <2>2, <2>3, DcQuiet
<1> QED BY <1>1, <1>2, <1>3, <1>4 DEF DcSend

LEMMA DcReceive_Inv == ASSUME DcInv, NEW k \in DcCallers, DcReceive(k) PROVE DcInv'
<1>0. /\ DcTyped /\ DcInFlight /\ dcCall \in [DcCallers -> DcCallRecord] /\ dcCall[k] \in DcCallRecord
      /\ dcConn \in [DcConns -> {"none", "open", "closed"}]
      /\ dcWire = [d \in DcConns |-> dcWire[d]] /\ dcResp = [d \in DcConns |-> dcResp[d]] /\ dcHeld = [d \in DcConns |-> dcHeld[d]]
      /\ dcCall[k].at = "wait" /\ UNCHANGED <<dcConn, dcPool, dcWire>>
  BY DEF DcInv, DcTyped, DcCallRecord, DcOwnAnswer, DcReceive
<1>1. PICK c \in DcConns : c = dcCall[k].conn
  BY <1>0 DEF DcTyped
<1>2. dcHeld[c] = {k} /\ dcWire[c] = <<>> /\ dcResp[c] = <<k>>
  BY <1>0, <1>1 DEF DcInFlight, DcReceive
<1>3. Head(dcResp[c]) = k /\ Tail(dcResp[c]) = <<>>
  BY <1>2
<1>4. PICK z : z = [dcCall[k] EXCEPT !.at = "done", !.got = {k}]
  OBVIOUS
<1>5. z \in DcCallRecord /\ z.at = "done" /\ z.conn = c /\ z.got \subseteq {k}
  BY <1>0, <1>1, <1>4 DEF DcCallRecord
<1>6. dcCall' = [dcCall EXCEPT ![k] = z] /\ dcResp' = [dcResp EXCEPT ![c] = <<>>] /\ dcHeld' = [dcHeld EXCEPT ![c] = {}]
  BY <1>1, <1>3, <1>4 DEF DcReceive
<1>7. /\ dcWire' = [d \in DcConns |-> dcWire'[d]] /\ dcResp' = [d \in DcConns |-> dcResp'[d]]
      /\ dcHeld' = [d \in DcConns |-> dcHeld'[d]] /\ dcWire'[c] = <<>> /\ dcResp'[c] = <<>>
      /\ \A d \in DcConns : d # c => /\ dcWire'[d] = dcWire[d] /\ dcResp'[d] = dcResp[d]
                                     /\ dcHeld'[d] = dcHeld[d] /\ dcConn'[d] = dcConn[d]
  BY <1>0, <1>2, <1>6
<1>8. \A j \in DcCallers : j # k /\ dcCall[j].at = "wait" => dcCall[j].conn # c
  BY <1>0, <1>2, DcAlone
<1>9. dcConn'[c] # "none"
  BY <1>0, <1>2 DEF DcInFlight
<1>10. /\ dcCall[k].at \in {"lock", "wait"} /\ z.at # "pool" /\ dcConn' \in [DcConns -> {"none", "open", "closed"}]
       /\ (dcConn'[c] = "open" => dcConn[c] = "open") /\ dcConn'[c] # "none"
       /\ (dcConn'[c] = "open" /\ dcHeld'[c] = {} => dcWire'[c] = <<>> /\ dcResp'[c] = <<>>)
       /\ z.at = "wait" => dcHeld'[c] = {k} /\ ((dcWire'[c] = <<k>> /\ dcResp'[c] = <<>>) \/ (dcWire'[c] = <<>> /\ dcResp'[c] = <<k>>))
  BY <1>0, <1>5, <1>7, <1>9
<1>11. DcWorks(k, c, z)
  BY <1>0, <1>1, <1>5, <1>6, <1>7, <1>8, <1>10 DEF DcWorks
<1> QED BY <1>11, DcWork

LEMMA DcGivesUp_Inv == ASSUME DcInv, NEW k \in DcCallers, DcTimeout(k) \/ DcSeesClosed(k) PROVE DcInv'
<1>0. /\ DcTyped /\ DcInFlight /\ dcCall \in [DcCallers -> DcCallRecord] /\ dcCall[k] \in DcCallRecord
      /\ dcConn \in [DcConns -> {"none", "open", "closed"}]
      /\ dcWire = [d \in DcConns |-> dcWire[d]] /\ dcResp = [d \in DcConns |-> dcResp[d]] /\ dcHeld = [d \in DcConns |-> dcHeld[d]]
      /\ dcCall[k].at = "wait" /\ UNCHANGED <<dcPool, dcWire, dcResp>> /\ dcCall[k].got \subseteq {k}
  BY DEF DcInv, DcTyped, DcCallRecord, DcOwnAnswer, DcTimeout, DcSeesClosed
<1>1. PICK c \in DcConns : c = dcCall[k].conn
  BY <1>0 DEF DcTyped
<1>2. PICK z : z = [dcCall[k] EXCEPT !.at = "failed"]
  OBVIOUS
<1>3. z \in DcCallRecord /\ z.at = "failed" /\ z.conn = c /\ z.got \subseteq {k}
  BY <1>0, <1>1, <1>2 DEF DcCallRecord
<1>4. dcCall' = [dcCall EXCEPT ![k] = z] /\ dcHeld' = [dcHeld EXCEPT ![c] = {}] /\ dcHeld[c] = {k}
  BY <1>0, <1>1, <1>2 DEF DcTimeout, DcSeesClosed, DcInFlight
<1>5. dcConn' = [dcConn EXCEPT ![c] = "closed"]
  <2>1. CASE DcTimeout(k)
    BY <1>1, <2>1 DEF DcTimeout, DcAfterTimeout, DcClosed
  <2>2. CASE DcSeesClosed(k)
    BY <1>0, <1>1, <2>2 DEF DcSeesClosed
  <2> QED BY <2>1, <2>2
<1>6. /\ dcHeld' = [d \in DcConns |-> dcHeld'[d]] /\ dcConn' \in [DcConns -> {"none", "open", "closed"}] /\ dcConn'[c] = "closed"
      /\ dcWire' = [d \in DcConns |-> dcWire'[d]] /\ dcResp' = [d \in DcConns |-> dcResp'[d]]
      /\ \A d \in DcConns : d # c => /\ dcWire'[d] = dcWire[d] /\ dcResp'[d] = dcResp[d]
                                     /\ dcHeld'[d] = dcHeld[d] /\ dcConn'[d] = dcConn[d]
  BY <1>0, <1>4, <1>5
<1>7. \A j \in DcCallers : j # k /\ dcCall[j].at = "wait" => dcCall[j].conn # c
  BY <1>0, <1>4, DcAlone
<1>8. /\ dcCall[k].at \in {"lock", "wait"} /\ z.at # "pool" /\ dcConn' \in [DcConns -> {"none", "open", "closed"}]
      /\ (dcConn'[c] = "open" => dcConn[c] = "open") /\ dcConn'[c] # "none"
      /\ (dcConn'[c] = "open" /\ dcHeld'[c] = {} => dcWire'[c] = <<>> /\ dcResp'[c] = <<>>)
      /\ z.at = "wait" => dcHeld'[c] = {k} /\ ((dcWire'[c] = <<k>> /\ dcResp'[c] = <<>>) \/ (dcWire'[c] = <<>> /\ dcResp'[c] = <<k>>))
  BY <1>0, <1>3, <1>6
<1>9. DcWorks(k, c, z)
  BY <1>0, <1>1, <1>3, <1>4, <1>6, <1>7, <1>8 DEF DcWorks
<1> QED BY <1>9, DcWork

LEMMA DcNext_Inv == DcInv /\ [DcNext]_dcVars => DcInv'
<1> SUFFICES ASSUME DcInv, [DcNext]_dcVars PROVE DcInv'
  OBVIOUS
<1>0. /\ DcTyped /\ DcInFlight /\ DcOwnAnswer /\ DcNoLeak
      /\ dcConn \in [DcConns -> {"none", "open", "closed"}]
      /\ dcWire = [d \in DcConns |-> dcWire[d]] /\ dcResp = [d \in DcConns |-> dcResp[d]]
  BY DEF DcInv, DcTyped
<1>1. CASE UNCHANGED dcVars
  BY <1>0, <1>1 DEF dcVars, DcInv, DcTyped, DcInFlight, DcOwnAnswer, DcNoLeak
<1>2. ASSUME NEW c \in DcConns, DcBreaks(c) PROVE DcInv'
  <2>1. dcConn' = [dcConn EXCEPT ![c] = "closed"] /\ UNCHANGED <<dcPool, dcWire, dcResp, dcHeld, dcCall>>
    BY <1>2 DEF DcBreaks, DcClosed
  <2>2. dcConn' \in [DcConns -> {"none", "open", "closed"}] /\ dcConn'[c] = "closed" /\ \A d \in DcConns : d # c => dcConn'[d] = dcConn[d]
    BY <1>0, <2>1
  <2>3. DcTyped' /\ DcOwnAnswer'
    BY <1>0, <2>1, <2>2 DEF DcTyped, DcOwnAnswer
  <2>4. DcInFlight'
    BY <1>0, <2>1, <2>2 DEF DcInFlight
  <2>5. DcNoLeak'
    BY <1>0, <2>1, <2>2 DEF DcNoLeak
  <2> QED BY <2>3, <2>4, <2>5 DEF DcInv
<1>3. ASSUME NEW c \in DcConns, DcAnswer(c) PROVE DcInv'
  <2>1. /\ dcConn[c] = "open" /\ dcWire[c] # <<>> /\ UNCHANGED <<dcConn, dcPool, dcHeld, dcCall>>
        /\ dcResp' = [dcResp EXCEPT ![c] = Append(@, Head(dcWire[c]))] /\ dcWire' = [dcWire EXCEPT ![c] = Tail(@)]
    BY <1>3 DEF DcAnswer
  <2>2. /\ dcWire' = [d \in DcConns |-> dcWire'[d]] /\ dcResp' = [d \in DcConns |-> dcResp'[d]]
        /\ \A d \in DcConns : d # c => dcWire'[d] = dcWire[d] /\ dcResp'[d] = dcResp[d]
        /\ dcResp'[c] = Append(dcResp[c], Head(dcWire[c])) /\ dcWire'[c] = Tail(dcWire[c])
    BY <1>0, <2>1
  <2>3. DcTyped' /\ DcOwnAnswer' /\ DcNoLeak'
    BY <1>0, <2>1, <2>2 DEF DcTyped, DcOwnAnswer, DcNoLeak
  <2>4. ASSUME NEW j \in DcCallers, dcCall'[j].at = "wait"
        PROVE  LET d == dcCall'[j].conn IN
               /\ dcHeld'[d] = {j}
               /\ \/ dcWire'[d] = <<j>> /\ dcResp'[d] = <<>>
                  \/ dcWire'[d] = <<>> /\ dcResp'[d] = <<j>>
    <3>1. PICK d \in DcConns : d = dcCall[j].conn
      BY <1>0, <2>1, <2>4 DEF DcTyped
    <3>2. CASE d # c
      BY <1>0, <2>1, <2>2, <2>4, <3>1, <3>2 DEF DcInFlight
    <3>3. CASE d = c
      <4>0. dcCall[j].at = "wait" /\ dcCall[j].conn = c
        BY <2>1, <2>4, <3>1, <3>3
      <4>1. dcHeld[c] = {j} /\ dcWire[c] = <<j>> /\ dcResp[c] = <<>>
        BY <1>0, <2>1, <4>0 DEF DcInFlight
      <4>2. Tail(dcWire[c]) = <<>> /\ Append(dcResp[c], Head(dcWire[c])) = <<j>>
        BY <4>1
      <4> QED BY <2>1, <2>2, <3>1, <3>3, <4>1, <4>2
    <3> QED BY <3>2, <3>3
  <2>5. ASSUME NEW d \in DcConns, dcConn'[d] = "none" \/ (dcConn'[d] = "open" /\ dcHeld'[d] = {})
        PROVE  dcHeld'[d] = {} /\ dcWire'[d] = <<>> /\ dcResp'[d] = <<>>
    BY <1>0, <2>1, <2>2, <2>5 DEF DcInFlight
  <2>6. DcInFlight'
    BY <2>4, <2>5 DEF DcInFlight
  <2> QED BY <2>3, <2>6 DEF DcInv
<1>4. ASSUME NEW k \in DcCallers,
             \/ DcLookup(k) \/ DcDial(k) \/ DcPoolIt(k) \/ DcSend(k) \/ DcReceive(k)
             \/ DcTimeout(k) \/ DcSeesClosed(k) \/ DcDrop(k) \/ DcAgain(k)
      PROVE DcInv'
  BY <1>4, DcQuiet_Inv, DcSend_Inv, DcReceive_Inv, DcGivesUp_Inv
<1> QED BY <1>1, <1>2, <1>3, <1>4 DEF DcNext

\* deviceconn.go, rpcLocked: on a connection that several requests share, each is
\* given its own answer, and none is left to be read by the next, however
\* timeouts, closings and redialling interleave.
THEOREM DcHolds == DcSpec => [](DcOwnAnswer /\ DcNoLeak)
<1>1. DcInv => DcOwnAnswer /\ DcNoLeak
  BY DEF DcInv
<1> QED BY <1>1, DcInit_Inv, DcNext_Inv, PTL DEF DcSpec

----------------------------------------------------------------------------
(* Polls that share a round *)

WpTyped ==
  /\ wpCurrent \in WpRounds \union {0}
  /\ wpRound \in [WpRounds -> [at : {"none", "run", "unlisted", "over"}, left : SUBSET WpDevices, items : SUBSET WpDevices]]
  /\ wpPoll \in [WpPolls -> [at : {"new", "wait", "done", "left"}, round : Nat, after : SUBSET WpDevices, items : SUBSET WpDevices]]
  /\ wpOpen \subseteq WpDevices /\ wpAnswered \subseteq WpDevices

\* The round under way is the current one, one that is over has asked everyone,
\* and an answered poll's round is over.
WpRounded ==
  /\ \A n \in WpRounds : /\ wpRound[n].at = "run" => n = wpCurrent
                         /\ wpRound[n].at \in {"unlisted", "over"} => wpRound[n].left = {}
  /\ \A p \in WpPolls : /\ wpPoll[p].at \in {"wait", "done"} => wpPoll[p].round \in WpRounds
                        /\ wpPoll[p].at = "done" => wpRound[wpPoll[p].round].at = "over"

WpInv == WpTyped /\ WpRounded

LEMMA WpInit_Inv == WpInit => WpInv
<1> SUFFICES ASSUME WpInit PROVE WpInv
  OBVIOUS
<1> QED BY DEF WpInit, WpInv, WpTyped, WpRounded

WpPollSteps == [at : {"new", "wait", "done", "left"}, round : Nat, after : SUBSET WpDevices, items : SUBSET WpDevices]
WpRoundSteps == [at : {"none", "run", "unlisted", "over"}, left : SUBSET WpDevices, items : SUBSET WpDevices]

\* One round moves on, and no poll.
WpRoundMoves(n, z) ==
  /\ z \in WpRoundSteps
  /\ wpRound[n].at # "over" \/ z.at = "over"
  /\ z.at = "run" => wpCurrent' = n /\ wpCurrent \in {0, n}
  /\ z.at # "run" => z.left = {} /\ wpCurrent' \in {0, wpCurrent} /\ (wpRound[n].at = "run" \/ wpCurrent' = wpCurrent)
  /\ wpRound' = [wpRound EXCEPT ![n] = z]
  /\ UNCHANGED <<wpOpen, wpAnswered>>

LEMMA WpRoundMoves_Rounds ==
  ASSUME WpInv, NEW n \in WpRounds, NEW z, WpRoundMoves(n, z)
  PROVE  /\ wpCurrent' \in WpRounds \union {0}
         /\ wpRound' \in [WpRounds -> WpRoundSteps]
         /\ \A m \in WpRounds : /\ wpRound'[m].at = "run" => m = wpCurrent'
                                /\ wpRound'[m].at \in {"unlisted", "over"} => wpRound'[m].left = {}
                                /\ wpRound[m].at = "over" => wpRound'[m].at = "over"
<1>1. wpRound \in [WpRounds -> WpRoundSteps] /\ z \in WpRoundSteps
  BY DEF WpInv, WpTyped, WpRoundSteps, WpRoundMoves
<1>2. wpRound' \in [WpRounds -> WpRoundSteps] /\ wpRound'[n] = z /\ \A m \in WpRounds \ {n} : wpRound'[m] = wpRound[m]
  BY <1>1 DEF WpRoundMoves
<1>3. wpCurrent' \in WpRounds \union {0}
  BY DEF WpInv, WpTyped, WpRoundMoves
<1>4. ASSUME NEW m \in WpRounds
      PROVE /\ wpRound'[m].at = "run" => m = wpCurrent'
            /\ wpRound'[m].at \in {"unlisted", "over"} => wpRound'[m].left = {}
            /\ wpRound[m].at = "over" => wpRound'[m].at = "over"
  <2>1. CASE m = n
    BY <1>2, <2>1 DEF WpRoundMoves
  <2>2. CASE m # n
    <3>1. wpRound'[m] = wpRound[m]
      BY <1>2, <2>2
    <3>2. wpRound[m].at = "run" => m = wpCurrent
      BY DEF WpInv, WpRounded
    <3>3. wpRound[m].at = "run" => m = wpCurrent'
      <4>1. wpRound[n].at = "run" => n = wpCurrent
        BY DEF WpInv, WpRounded
      <4>2. m # 0 /\ n # 0
        BY DEF WpRounds
      <4> QED BY <2>2, <3>2, <4>1, <4>2 DEF WpRoundMoves
    <3> QED BY <3>1, <3>3 DEF WpInv, WpRounded
  <2> QED BY <2>1, <2>2
<1> QED BY <1>2, <1>3, <1>4

LEMMA WpRoundMoves_Inv ==
  ASSUME WpInv, NEW n \in WpRounds, NEW z, WpRoundMoves(n, z), wpPoll' = wpPoll
  PROVE  WpInv'
<1>1. /\ wpCurrent' \in WpRounds \union {0}
      /\ wpRound' \in [WpRounds -> WpRoundSteps]
      /\ \A m \in WpRounds : /\ wpRound'[m].at = "run" => m = wpCurrent'
                             /\ wpRound'[m].at \in {"unlisted", "over"} => wpRound'[m].left = {}
                             /\ wpRound[m].at = "over" => wpRound'[m].at = "over"
  BY WpRoundMoves_Rounds
<1>2. WpTyped'
  BY <1>1 DEF WpInv, WpTyped, WpRoundSteps, WpRoundMoves
<1>3. WpRounded'
  BY <1>1 DEF WpInv, WpRounded
<1> QED BY <1>2, <1>3 DEF WpInv

\* One poll moves on.
WpPollMoves(p, z) ==
  /\ z \in WpPollSteps
  /\ z.at \in {"wait", "done"} => z.round \in WpRounds
  /\ z.at = "done" => wpRound[z.round].at = "over"
  /\ wpPoll' = [wpPoll EXCEPT ![p] = z]
  /\ UNCHANGED <<wpOpen, wpAnswered, wpRound, wpCurrent>>

LEMMA WpPollMoves_Inv ==
  ASSUME WpInv, NEW p \in WpPolls, NEW z, WpPollMoves(p, z)
  PROVE  WpInv'
<1>1. wpPoll \in [WpPolls -> WpPollSteps] /\ wpPoll' \in [WpPolls -> WpPollSteps]
  BY DEF WpInv, WpTyped, WpPollSteps, WpPollMoves
<1>2. wpPoll'[p] = z /\ \A q \in WpPolls \ {p} : wpPoll'[q] = wpPoll[q]
  BY <1>1 DEF WpPollMoves
<1>3. WpTyped'
  BY <1>1 DEF WpInv, WpTyped, WpPollMoves, WpPollSteps
<1>4. WpRounded'
  BY <1>2 DEF WpInv, WpRounded, WpPollMoves
<1> QED BY <1>3, <1>4 DEF WpInv

LEMMA WpNext_Inv == WpInv /\ [WpNext]_wpVars => WpInv'
<1> SUFFICES ASSUME WpInv, [WpNext]_wpVars PROVE WpInv'
  OBVIOUS
<1>0. wpRound \in [WpRounds -> WpRoundSteps]
  BY DEF WpInv, WpTyped, WpRoundSteps
<1>1. ASSUME NEW d \in WpDevices, WpAnswer(d) PROVE WpInv'
  BY <1>1 DEF WpAnswer, WpInv, WpTyped, WpRounded
<1>2. ASSUME NEW p \in WpPolls, WpArrive(p) PROVE WpInv'
  <2> DEFINE fresh == CHOOSE n \in WpUnused \cup {0} : \A k \in WpUnused : n # 0 /\ n <= k
             round == IF wpCurrent # 0 THEN wpCurrent ELSE fresh
  <2>1. PICK n : n = round
    OBVIOUS
  <2>2. /\ n # 0
        /\ wpPoll' = [wpPoll EXCEPT ![p] = [at |-> "wait", round |-> n, after |-> wpAnswered, items |-> {}]]
        /\ wpCurrent' = n /\ UNCHANGED <<wpOpen, wpAnswered>>
        /\ wpRound' = IF wpCurrent # 0 THEN wpRound
                      ELSE [wpRound EXCEPT ![n] = [at |-> "run", left |-> WpDevices, items |-> {}]]
    BY <1>2, <2>1 DEF WpArrive
  <2>3. PICK y : y = [at |-> "wait", round |-> n, after |-> wpAnswered, items |-> {}]
    OBVIOUS
  <2>4. CASE wpCurrent # 0
    <3>1. n = wpCurrent /\ n \in WpRounds
      BY <2>1, <2>4 DEF WpInv, WpTyped
    <3>2. wpPoll' = [wpPoll EXCEPT ![p] = y] /\ UNCHANGED <<wpOpen, wpAnswered, wpRound, wpCurrent>>
      BY <2>2, <2>3, <2>4, <3>1
    <3>3. y \in WpPollSteps /\ y.at = "wait" /\ y.round = n
      BY <2>3, <3>1 DEF WpPollSteps, WpRounds, WpInv, WpTyped
    <3>4. WpPollMoves(p, y)
      BY <3>1, <3>2, <3>3 DEF WpPollMoves
    <3> QED BY <3>4, WpPollMoves_Inv
  <2>5. CASE wpCurrent = 0
    <3>1. WpUnused # {}
      <4>1. SUFFICES ASSUME WpUnused = {} PROVE FALSE
        OBVIOUS
      <4>2. fresh = 0
        BY <4>1
      <4> QED BY <2>1, <2>2, <2>5, <4>2
    <3>0. WpUnused \subseteq Nat
      BY WpAssumption DEF WpUnused, WpRounds
    <3>2. PICK first \in WpUnused : \A k \in WpUnused : first <= k
      BY <3>0, <3>1, LkLeast
    <3>3. n \in WpUnused
      <4>0. first # 0
        BY <3>2 DEF WpUnused, WpRounds
      <4>1. \E i \in WpUnused \cup {0} : \A k \in WpUnused : i # 0 /\ i <= k
        BY <3>2, <4>0
      <4>2. fresh \in WpUnused \cup {0}
        BY <4>1
      <4> QED BY <2>1, <2>2, <2>5, <4>2
    <3>4. PICK z : z = [at |-> "run", left |-> WpDevices, items |-> {}]
      OBVIOUS
    <3>5. n \in WpRounds /\ wpRound[n].at = "none"
      BY <3>3 DEF WpUnused
    <3>6. WpRoundMoves(n, z)
      BY <2>2, <2>5, <3>4, <3>5 DEF WpRoundMoves, WpRoundSteps, WpInv, WpTyped
    <3>7. /\ wpCurrent' \in WpRounds \union {0}
          /\ wpRound' \in [WpRounds -> WpRoundSteps]
          /\ \A m \in WpRounds : /\ wpRound'[m].at = "run" => m = wpCurrent'
                                 /\ wpRound'[m].at \in {"unlisted", "over"} => wpRound'[m].left = {}
                                 /\ wpRound[m].at = "over" => wpRound'[m].at = "over"
      BY <3>5, <3>6, WpRoundMoves_Rounds
    <3>8. wpPoll'[p] = y /\ \A q \in WpPolls \ {p} : wpPoll'[q] = wpPoll[q]
      BY <2>2, <2>3 DEF WpInv, WpTyped
    <3>9. y \in WpPollSteps
      BY <2>3, <3>5 DEF WpPollSteps, WpRounds, WpInv, WpTyped
    <3>10. WpTyped'
      <4>1. wpPoll' \in [WpPolls -> WpPollSteps]
        BY <2>2, <2>3, <3>9 DEF WpInv, WpTyped, WpPollSteps
      <4> QED BY <2>2, <3>7, <4>1 DEF WpTyped, WpRoundSteps, WpPollSteps, WpInv
    <3>11. WpRounded'
      <4>1. y.at = "wait" /\ y.round = n
        BY <2>3
      <4> QED BY <3>5, <3>7, <3>8, <4>1 DEF WpRounded, WpInv
    <3> QED BY <3>10, <3>11 DEF WpInv
  <2> QED BY <2>4, <2>5
<1>3. ASSUME NEW n \in WpRounds, NEW d \in WpDevices, WpAsk(n, d) PROVE WpInv'
  <2>1. PICK found \in SUBSET WpDevices : wpRound' = [wpRound EXCEPT ![n].left = @ \ {d}, ![n].items = @ \cup found]
    BY <1>3 DEF WpAsk
  <2>2. PICK z : z = [wpRound[n] EXCEPT !.left = @ \ {d}, !.items = @ \cup found]
    OBVIOUS
  <2>3. wpRound[n] \in WpRoundSteps /\ wpRound[n].at = "run" /\ UNCHANGED <<wpOpen, wpAnswered, wpCurrent, wpPoll>>
    BY <1>0, <1>3 DEF WpAsk
  <2>5. wpRound' = [wpRound EXCEPT ![n] = z]
    BY <2>1, <2>2
  <2>6. z \in WpRoundSteps /\ z.at = "run"
    BY <2>2, <2>3 DEF WpRoundSteps
  <2>7. WpRoundMoves(n, z)
    BY <2>3, <2>5, <2>6 DEF WpRoundMoves, WpInv, WpTyped, WpRounded
  <2> QED BY <2>3, <2>7, WpRoundMoves_Inv
<1>4. ASSUME NEW n \in WpRounds, WpRoundEnds(n) \/ WpWake(n) PROVE WpInv'
  <2>1. PICK x : x = IF wpRound[n].at = "run" THEN "unlisted" ELSE "over"
    OBVIOUS
  <2>2. /\ wpRound[n] \in WpRoundSteps /\ wpRound[n].at \in {"run", "unlisted"} /\ wpRound[n].left = {}
        /\ UNCHANGED <<wpOpen, wpAnswered, wpPoll>>
    BY <1>0, <1>4 DEF WpRoundEnds, WpWake, WpInv, WpRounded
  <2>3. PICK z : z = [wpRound[n] EXCEPT !.at = x]
    OBVIOUS
  <2>4. wpRound' = [wpRound EXCEPT ![n].at = x]
    BY <1>4, <2>1 DEF WpRoundEnds, WpWake
  <2>5. wpRound' = [wpRound EXCEPT ![n] = z]
    BY <2>3, <2>4
  <2>6. z \in WpRoundSteps /\ z.at \in {"unlisted", "over"} /\ z.left = {}
    BY <2>1, <2>2, <2>3 DEF WpRoundSteps
  <2>7. wpCurrent' \in {0, wpCurrent} /\ (wpRound[n].at = "run" \/ wpCurrent' = wpCurrent)
    BY <1>4 DEF WpRoundEnds, WpWake
  <2>8. WpRoundMoves(n, z)
    BY <2>2, <2>5, <2>6, <2>7 DEF WpRoundMoves, WpInv, WpTyped
  <2> QED BY <2>2, <2>8, WpRoundMoves_Inv
<1>5. ASSUME NEW p \in WpPolls, WpReturn(p) PROVE WpInv'
  <2>1. wpPoll[p] \in WpPollSteps
    BY DEF WpInv, WpTyped, WpPollSteps
  <2>2. wpPoll[p].at = "wait" /\ wpPoll[p].round \in WpRounds /\ UNCHANGED <<wpOpen, wpAnswered, wpRound, wpCurrent>>
    BY <1>5 DEF WpReturn, WpInv, WpRounded
  <2>3. CASE /\ wpRound[wpPoll[p].round].at = "over"
             /\ wpPoll' = [wpPoll EXCEPT ![p].at = "done", ![p].items = wpRound[wpPoll[p].round].items]
    <3>1. PICK items : items = wpRound[wpPoll[p].round].items
      OBVIOUS
    <3>2. PICK z : z = [wpPoll[p] EXCEPT !.at = "done", !.items = items]
      OBVIOUS
    <3>3. items \in SUBSET WpDevices
      BY <1>0, <2>2, <3>1 DEF WpRoundSteps
    <3>4. z \in WpPollSteps /\ z.round = wpPoll[p].round
      BY <2>1, <3>2, <3>3 DEF WpPollSteps
    <3>5. wpPoll' = [wpPoll EXCEPT ![p] = z]
      BY <2>3, <3>1, <3>2
    <3>6. WpPollMoves(p, z)
      BY <2>2, <2>3, <3>4, <3>5 DEF WpPollMoves
    <3> QED BY <3>6, WpPollMoves_Inv
  <2>4. CASE wpPoll' = [wpPoll EXCEPT ![p].at = "left"]
    <3>1. PICK z : z = [wpPoll[p] EXCEPT !.at = "left"]
      OBVIOUS
    <3>2. z \in WpPollSteps /\ z.at = "left"
      BY <2>1, <3>1 DEF WpPollSteps
    <3>3. wpPoll' = [wpPoll EXCEPT ![p] = z]
      BY <2>4, <3>1
    <3>4. WpPollMoves(p, z)
      BY <2>2, <3>2, <3>3 DEF WpPollMoves
    <3> QED BY <3>4, WpPollMoves_Inv
  <2> QED BY <1>5, <2>3, <2>4 DEF WpReturn
<1>6. CASE UNCHANGED wpVars
  BY <1>6 DEF wpVars, WpInv, WpTyped, WpRounded
<1> QED BY <1>1, <1>2, <1>3, <1>4, <1>5, <1>6 DEF WpNext

LEMMA WpInv_OneRound == WpInv => WpOneRound
<1> SUFFICES ASSUME WpInv PROVE WpOneRound
  OBVIOUS
<1>1. PICK S : S = {n \in WpRounds : wpRound[n].at = "run"}
  OBVIOUS
<1>2. S \subseteq {wpCurrent}
  BY <1>1 DEF WpInv, WpRounded
<1>3. IsFiniteSet({wpCurrent}) /\ Cardinality({wpCurrent}) = 1
  BY FS_Singleton
<1>4. IsFiniteSet(S) /\ Cardinality(S) <= Cardinality({wpCurrent})
  BY <1>2, <1>3, FS_Subset
<1>5. \A p \in WpPolls : wpPoll[p].at = "done" => wpRound[wpPoll[p].round].left = {}
  BY DEF WpInv, WpRounded
<1> QED BY <1>1, <1>3, <1>4, <1>5 DEF WpOneRound

\* pending.go, handleWaiting: one round at a time asks an owner's devices, and a
\* poll is answered by a round that has asked them all.
THEOREM WpHolds == WpSpec => []WpOneRound
<1>1. WpSpec => []WpInv
  BY WpInit_Inv, WpNext_Inv, PTL DEF WpSpec
<1> QED BY <1>1, WpInv_OneRound, PTL

----------------------------------------------------------------------------
(* Sessions, bindings and the shared connection of the MCP server *)

\* The table holds no more than it may.
HsTabled == IsFiniteSet(hsOpen) /\ Cardinality(hsOpen) <= HsMax

(* A call that changes the binding runs alone among such calls, and the       *)
(* binding it began from is the one it will end on.                           *)
HsTools == {"none", "enter", "attach", "exit", "data"}
HsChanges(k) == hsTool[k].at # "idle" /\ HsChange(hsTool[k].tool)
HsTalked ==
  /\ hsTool \in [HsCalls -> [at : {"idle", "run", "end"}, tool : HsTools, ref : HsSpaces \union {HsNone}, ok : BOOLEAN]]
  /\ hsRef \in HsSpaces \union {HsNone}
  /\ hsChanging \in BOOLEAN
  /\ HsOneWorkspace
  /\ \A k \in HsCalls : HsChanges(k) =>
        /\ hsChanging
        /\ hsTool[k].tool = "exit" => hsRef # HsNone /\ hsTool[k].ref = hsRef
        /\ hsTool[k].tool # "exit" => hsRef = HsNone
        /\ hsTool[k].at = "end" /\ hsTool[k].ok => hsTool[k].ref \in HsSpaces
  /\ \A j, k \in HsCalls : HsChanges(j) /\ HsChanges(k) => j = k

(* A request is in its exchange for as long as it holds the gate, it works on *)
(* a connection that was dialled, and its callback begins and is waited for   *)
(* within the exchange.                                                       *)
HsExSteps == {"idle", "conn", "dial", "write", "read", "check", "leave", "over"}
HsClosers == HsCalls \union {HsNone, "scope", "drop", "failed"}
HsExRecord == [at : HsExSteps, key : HsSpaces \union {HsNone}, conn : Nat, gen : Nat, over : BOOLEAN,
               fires : {"no", "begun", "done"}, got : HsClosers \union {"peer"}]
HsBusy == {"conn", "dial", "write", "read", "check", "leave"}
HsWired ==
  /\ hsEx \in [HsCalls -> HsExRecord]
  /\ hsLink \in [conn : 0 .. MaxHsConns, key : HsSpaces \union {HsNone}, gen : Nat, made : 0 .. MaxHsConns, closed : BOOLEAN]
  /\ hsShut \in [1 .. MaxHsConns -> HsClosers]
  /\ \A k \in HsCalls :
        /\ hsEx[k].at \in HsBusy => hsGate = k
        /\ hsEx[k].at \in {"write", "read", "check"} => hsEx[k].conn \in 1 .. MaxHsConns
        /\ hsEx[k].fires = "begun" => hsEx[k].at \in {"write", "read", "check", "leave"}

HsInv == HsTabled /\ HsTalked /\ HsWired

LEMMA HsInit_Inv == HsInit => HsInv
<1> SUFFICES ASSUME HsInit PROVE HsInv
  OBVIOUS
<1>1. HsTabled
  BY FS_EmptySet, HsAssumption DEF HsInit, HsTabled
<1>2. HsTalked
  <2>1. hsTool = [k \in HsCalls |-> [at |-> "idle", tool |-> HsNone, ref |-> HsNone, ok |-> FALSE]]
    BY DEF HsInit
  <2>2. \A k \in HsCalls : ~HsChanges(k)
    BY <2>1 DEF HsChanges
  <2>3. hsTool \in [HsCalls -> [at : {"idle", "run", "end"}, tool : HsTools, ref : HsSpaces \union {HsNone}, ok : BOOLEAN]]
    BY <2>1 DEF HsTools, HsNone
  <2>4. hsRef = HsNone /\ hsChanging = FALSE /\ HsOneWorkspace
    BY DEF HsInit, HsOneWorkspace
  <2> QED BY <2>2, <2>3, <2>4 DEF HsTalked
<1>3. HsWired
  <2>1. hsEx \in [HsCalls -> HsExRecord]
    BY DEF HsInit, HsExRecord, HsExSteps, HsClosers, HsNone
  <2>2. hsLink \in [conn : 0 .. MaxHsConns, key : HsSpaces \union {HsNone}, gen : Nat, made : 0 .. MaxHsConns, closed : BOOLEAN]
    BY HsAssumption DEF HsInit
  <2>3. hsShut \in [1 .. MaxHsConns -> HsClosers]
    BY DEF HsInit, HsClosers
  <2> QED BY <2>1, <2>2, <2>3 DEF HsInit, HsWired, HsBusy
<1> QED BY <1>1, <1>2, <1>3 DEF HsInv

LEMMA HsFewer ==
  ASSUME NEW S, NEW T, IsFiniteSet(T), Cardinality(T) <= HsMax, S \subseteq T
  PROVE  IsFiniteSet(S) /\ Cardinality(S) <= HsMax
BY FS_Subset, FS_CardinalityType, HsAssumption

LEMMA HsTable_Inv == HsTabled /\ HsTableNext => HsTabled'
<1> SUFFICES ASSUME HsTabled, HsTableNext PROVE HsTabled'
  OBVIOUS
<1>1. ASSUME NEW r, NEW id, HsAdmitted(r, id) PROVE HsTabled'
  <2>1. CASE hsOpen' \subseteq hsOpen
    BY <2>1, HsFewer DEF HsTabled
  <2>2. CASE HsAdmits(id) /\ id \notin hsOpen
    <3>1. hsOpen' = hsOpen \cup {id}
      BY <1>1, <2>2 DEF HsAdmitted
    <3>2. Cardinality(hsOpen \cup {id}) = Cardinality(hsOpen) + 1
      BY <2>2, FS_AddElement DEF HsTabled
    <3>3. IsFiniteSet(hsOpen \cup {id})
      BY FS_AddElement DEF HsTabled
    <3>4. Cardinality(hsOpen) \in Nat /\ Cardinality(hsOpen) < HsMax
      BY <2>2, FS_CardinalityType DEF HsTabled, HsAdmits, HsRoom
    <3> QED BY <3>1, <3>2, <3>3, <3>4, HsAssumption DEF HsTabled
  <2> QED BY <1>1, <2>1, <2>2 DEF HsAdmitted
<1>2. CASE hsOpen' \subseteq hsOpen
  BY <1>2, HsFewer DEF HsTabled
<1>3. CASE \E r \in HsCalls : HsValidate(r) \/ \E id \in HsIds : HsGenerate(r, id)
  BY <1>1, <1>3 DEF HsValidate, HsGenerate
<1> QED BY <1>2, <1>3 DEF HsTableNext, HsGateway, HsIdles, HsTerminate, HsDelete, HsForget, HsSweep, HsRelayRestarts

(* What a running call may turn into without the binding changing.            *)
HsGoesOn(k, z) ==
  /\ z \in [at : {"idle", "run", "end"}, tool : HsTools, ref : HsSpaces \union {HsNone}, ok : BOOLEAN]
  /\ hsTool[k].at = "run" /\ z.at = "end" /\ z.tool = hsTool[k].tool
  /\ z.tool = "exit" => z.ref = hsTool[k].ref
  /\ z.ok /\ z.tool \in {"enter", "attach"} => z.ref \in HsSpaces

LEMMA HsTalk_Inv == HsTalked /\ HsTalkNext => HsTalked'
<1> SUFFICES ASSUME HsTalked, HsTalkNext PROVE HsTalked'
  OBVIOUS
<1> USE HsAssumption
<1>1. ASSUME NEW k \in HsCalls, NEW tool \in {"enter", "attach", "exit", "data"}, HsWrap(k, tool) PROVE HsTalked'
  <2> DEFINE z == [at |-> "run", tool |-> tool, ref |-> hsRef, ok |-> FALSE]
  <2>1. /\ ~hsChanging /\ hsTool' = [hsTool EXCEPT ![k] = z] /\ hsChanging' = (hsChanging \/ HsChange(tool))
        /\ UNCHANGED <<hsRef, hsHeld>>
        /\ IF tool \in {"enter", "attach"} THEN hsRef = HsNone ELSE hsRef # HsNone
    BY <1>1 DEF HsWrap, HsMayCall
  <2>2. z \in [at : {"idle", "run", "end"}, tool : HsTools, ref : HsSpaces \union {HsNone}, ok : BOOLEAN]
    BY DEF HsTalked, HsTools
  <2>3. \A j \in HsCalls : ~HsChanges(j)
    BY <2>1 DEF HsTalked
  <2>4. \A j \in HsCalls : HsChanges(j)' => j = k /\ HsChange(tool)
    BY <2>1, <2>3 DEF HsTalked, HsChanges
  <2>5. hsTool'[k] = z /\ hsTool' \in [HsCalls -> [at : {"idle", "run", "end"}, tool : HsTools, ref : HsSpaces \union {HsNone}, ok : BOOLEAN]]
    BY <2>1, <2>2 DEF HsTalked
  <2>6. hsRef' \in HsSpaces \union {HsNone} /\ hsChanging' \in BOOLEAN /\ HsOneWorkspace'
    BY <2>1 DEF HsTalked, HsOneWorkspace, HsChange
  <2>7. ASSUME NEW j \in HsCalls, HsChanges(j)'
        PROVE /\ hsChanging'
              /\ hsTool'[j].tool = "exit" => hsRef' # HsNone /\ hsTool'[j].ref = hsRef'
              /\ hsTool'[j].tool # "exit" => hsRef' = HsNone
              /\ hsTool'[j].at = "end" /\ hsTool'[j].ok => hsTool'[j].ref \in HsSpaces
    BY <2>1, <2>4, <2>5, <2>7 DEF HsChange
  <2> QED BY <2>4, <2>5, <2>6, <2>7 DEF HsTalked
<1>2. ASSUME NEW k \in HsCalls, NEW z, HsGoesOn(k, z), hsTool' = [hsTool EXCEPT ![k] = z], UNCHANGED <<hsRef, hsChanging, hsHeld>>
      PROVE HsTalked'
  <2>1. hsTool'[k] = z /\ hsTool' \in [HsCalls -> [at : {"idle", "run", "end"}, tool : HsTools, ref : HsSpaces \union {HsNone}, ok : BOOLEAN]]
    BY <1>2 DEF HsTalked, HsGoesOn
  <2>2. \A j \in HsCalls : /\ HsChanges(j)' => HsChanges(j)
                           /\ j # k => hsTool'[j] = hsTool[j]
    BY <1>2, <2>1 DEF HsTalked, HsChanges, HsGoesOn
  <2>3. hsRef' \in HsSpaces \union {HsNone} /\ hsChanging' \in BOOLEAN /\ HsOneWorkspace'
    BY <1>2 DEF HsTalked, HsOneWorkspace
  <2>4. ASSUME NEW j \in HsCalls, HsChanges(j)'
        PROVE /\ hsChanging'
              /\ hsTool'[j].tool = "exit" => hsRef' # HsNone /\ hsTool'[j].ref = hsRef'
              /\ hsTool'[j].tool # "exit" => hsRef' = HsNone
              /\ hsTool'[j].at = "end" /\ hsTool'[j].ok => hsTool'[j].ref \in HsSpaces
    <3>1. HsChanges(j)
      BY <2>2, <2>4
    <3>2. CASE j # k
      BY <1>2, <2>2, <3>1, <3>2 DEF HsTalked
    <3>3. CASE j = k
      <4>1. HsChange(z.tool) /\ z.tool = hsTool[k].tool /\ hsTool'[j] = z
        BY <1>2, <2>1, <3>1, <3>3 DEF HsGoesOn, HsChanges
      <4>2. z.tool = "exit" => hsRef # HsNone /\ z.ref = hsRef /\ z.ref \in HsSpaces
        BY <1>2, <3>1, <3>3 DEF HsTalked, HsGoesOn
      <4>3. hsChanging /\ (z.tool # "exit" => hsRef = HsNone)
        BY <3>1, <3>3, <4>1 DEF HsTalked
      <4>4. z.ok => z.ref \in HsSpaces
        BY <1>2, <4>1, <4>2 DEF HsChange, HsGoesOn
      <4> QED BY <1>2, <4>1, <4>2, <4>3, <4>4
    <3> QED BY <3>2, <3>3
  <2>5. \A i, j \in HsCalls : HsChanges(i)' /\ HsChanges(j)' => i = j
    BY <2>2 DEF HsTalked
  <2> QED BY <2>1, <2>3, <2>4, <2>5 DEF HsTalked
<1>3. ASSUME NEW k \in HsCalls, hsTool[k].at = "run", NEW w \in HsSpaces \union {HsNone}, NEW ok \in BOOLEAN,
             hsTool[k].tool = "exit" => w = hsTool[k].ref, ok /\ hsTool[k].tool \in {"enter", "attach"} => w \in HsSpaces,
             hsTool' = HsRan(k, w, ok), UNCHANGED <<hsRef, hsChanging, hsHeld>>
      PROVE HsTalked'
  <2>1. PICK z : z = [hsTool[k] EXCEPT !.at = "end", !.ref = w, !.ok = ok]
    OBVIOUS
  <2>2. hsTool[k] \in [at : {"idle", "run", "end"}, tool : HsTools, ref : HsSpaces \union {HsNone}, ok : BOOLEAN]
    BY DEF HsTalked
  <2>3. hsTool' = [hsTool EXCEPT ![k] = z]
    BY <1>3, <2>1 DEF HsRan
  <2>4. HsGoesOn(k, z)
    BY <1>3, <2>1, <2>2 DEF HsGoesOn
  <2> QED BY <1>2, <1>3, <2>3, <2>4
<1>4. ASSUME NEW k \in HsCalls, HsRun(k) PROVE HsTalked'
  <2> hsTool[k] \in [at : {"idle", "run", "end"}, tool : HsTools, ref : HsSpaces \union {HsNone}, ok : BOOLEAN]
    BY DEF HsTalked
  <2>1. hsTool[k].at = "run" /\ UNCHANGED <<hsRef, hsChanging, hsHeld>>
    BY <1>4 DEF HsRun
  <2>2. CASE hsTool[k].tool = "enter"
    <3>1. \E w \in HsSpaces, ok \in BOOLEAN : hsTool' = HsRan(k, w, ok)
      BY <1>4, <2>2 DEF HsRun
    <3> QED BY <1>3, <2>1, <2>2, <3>1
  <2>3. CASE hsTool[k].tool = "attach"
    <3>1. \E w \in HsSpaces, ok \in BOOLEAN : hsTool' = HsRan(k, w, ok)
      BY <1>4, <2>3 DEF HsRun
    <3> QED BY <1>3, <2>1, <2>3, <3>1
  <2>4. CASE hsTool[k].tool = "exit"
    <3>1. \E ok \in BOOLEAN : hsTool' = HsRan(k, hsTool[k].ref, ok)
      BY <1>4, <2>4 DEF HsRun
    <3> QED BY <1>3, <2>1, <2>4, <3>1
  <2>5. CASE hsTool[k].tool \notin {"enter", "attach", "exit"}
    <3>1. hsTool' = HsRan(k, hsTool[k].ref, TRUE)
      BY <1>4, <2>5 DEF HsRun
    <3> QED BY <1>3, <2>1, <2>5, <3>1
  <2> QED BY <2>2, <2>3, <2>4, <2>5
<1>5. ASSUME NEW k \in HsCalls, HsRunFails(k) PROVE HsTalked'
  <2>1. hsTool[k].ref \in HsSpaces \union {HsNone}
    BY DEF HsTalked
  <2>2. hsTool[k].at = "run" /\ UNCHANGED <<hsRef, hsChanging, hsHeld>> /\ hsTool' = HsRan(k, hsTool[k].ref, FALSE)
    BY <1>5 DEF HsRunFails
  <2> QED BY <1>3, <2>1, <2>2
<1>6. ASSUME NEW k \in HsCalls, HsWrapped(k) PROVE HsTalked'
  <2> DEFINE z == [at |-> "idle", tool |-> HsNone, ref |-> HsNone, ok |-> FALSE]
             t == hsTool[k]
  <2>1. z \in [at : {"idle", "run", "end"}, tool : HsTools, ref : HsSpaces \union {HsNone}, ok : BOOLEAN]
    BY DEF HsTools, HsNone
  <2>2. hsTool' = [hsTool EXCEPT ![k] = z] /\ hsChanging' = (hsChanging /\ ~HsChange(t.tool)) /\ t.at = "end"
    BY <1>6 DEF HsWrapped
  <2>3. hsTool'[k] = z /\ hsTool' \in [HsCalls -> [at : {"idle", "run", "end"}, tool : HsTools, ref : HsSpaces \union {HsNone}, ok : BOOLEAN]]
    BY <2>1, <2>2 DEF HsTalked
  <2>4. \A j \in HsCalls : /\ HsChanges(j)' => HsChanges(j) /\ j # k /\ hsTool'[j] = hsTool[j]
    BY <2>2, <2>3 DEF HsTalked, HsChanges
  <2>5. hsChanging' \in BOOLEAN
    BY <2>2 DEF HsTalked
  <2>6. \A i, j \in HsCalls : HsChanges(i)' /\ HsChanges(j)' => i = j
    BY <2>4 DEF HsTalked
  <2>7. CASE ~HsChange(t.tool)
    <3>1. UNCHANGED <<hsRef, hsHeld>> /\ hsChanging' = hsChanging
      BY <1>6, <2>2, <2>7 DEF HsWrapped, HsChange, HsTalked
    <3>2. hsRef' \in HsSpaces \union {HsNone} /\ HsOneWorkspace'
      BY <3>1 DEF HsTalked, HsOneWorkspace
    <3> QED BY <2>3, <2>4, <2>5, <2>6, <3>1, <3>2 DEF HsTalked
  <2>8. CASE HsChange(t.tool)
    <3>1. HsChanges(k)
      BY <2>2, <2>8 DEF HsChanges
    <3>2. \A j \in HsCalls : ~HsChanges(j)'
      BY <2>4, <3>1 DEF HsTalked
    <3>3. hsRef' \in HsSpaces \union {HsNone} /\ HsOneWorkspace'
      <4>1. CASE t.ok /\ t.tool \in {"enter", "attach"}
        <5>1. hsRef' = t.ref /\ hsHeld' = hsHeld \cup {t.ref}
          BY <1>6, <4>1 DEF HsWrapped
        <5>2. hsRef = HsNone /\ t.ref \in HsSpaces
          BY <2>2, <3>1, <4>1 DEF HsTalked
        <5> QED BY <5>1, <5>2 DEF HsTalked, HsOneWorkspace
      <4>2. CASE t.ok /\ t.tool = "exit"
        <5>1. hsRef' = HsNone /\ hsHeld' = hsHeld \ {t.ref}
          BY <1>6, <4>2 DEF HsWrapped
        <5>2. hsRef # HsNone /\ t.ref = hsRef
          BY <3>1, <4>2 DEF HsTalked
        <5> QED BY <5>1, <5>2 DEF HsTalked, HsOneWorkspace
      <4>3. CASE ~t.ok
        <5>1. UNCHANGED <<hsRef, hsHeld>>
          BY <1>6, <4>3 DEF HsWrapped
        <5> QED BY <5>1 DEF HsTalked, HsOneWorkspace
      <4> QED BY <2>8, <4>1, <4>2, <4>3 DEF HsChange
    <3> QED BY <2>3, <2>5, <2>6, <3>2, <3>3 DEF HsTalked
  <2> QED BY <2>7, <2>8
<1> QED BY <1>1, <1>4, <1>5, <1>6 DEF HsTalkNext

(* One exchange moves on, and the link and the closed connections with it.    *)
HsMoves(k, z) ==
  /\ z \in HsExRecord /\ hsEx' = [hsEx EXCEPT ![k] = z]
  /\ hsLink' \in [conn : 0 .. MaxHsConns, key : HsSpaces \union {HsNone}, gen : Nat, made : 0 .. MaxHsConns, closed : BOOLEAN]
  /\ hsShut' \in [1 .. MaxHsConns -> HsClosers]
  /\ z.at \in HsBusy => hsGate' = k
  /\ z.at \in {"write", "read", "check"} => z.conn \in 1 .. MaxHsConns
  /\ z.fires = "begun" => z.at \in {"write", "read", "check", "leave"}
  /\ hsGate' = hsGate \/ hsGate \in {k, HsNone}

LEMMA HsMoves_Wired ==
  ASSUME HsWired, NEW k \in HsCalls, NEW z, HsMoves(k, z) PROVE HsWired'
<1>1. hsEx' \in [HsCalls -> HsExRecord] /\ hsEx'[k] = z /\ \A j \in HsCalls \ {k} : hsEx'[j] = hsEx[j]
  BY DEF HsWired, HsMoves
<1>2. ASSUME NEW j \in HsCalls
      PROVE /\ hsEx'[j].at \in HsBusy => hsGate' = j
            /\ hsEx'[j].at \in {"write", "read", "check"} => hsEx'[j].conn \in 1 .. MaxHsConns
            /\ hsEx'[j].fires = "begun" => hsEx'[j].at \in {"write", "read", "check", "leave"}
  <2>1. CASE j = k
    BY <1>1, <2>1 DEF HsMoves
  <2>2. CASE j # k
    <3>1. hsEx'[j] = hsEx[j]
      BY <1>1, <2>2
    <3>2. hsGate = j => hsGate' = j
      BY <2>2, HsAssumption DEF HsMoves
    <3> QED BY <3>1, <3>2 DEF HsWired
  <2> QED BY <2>1, <2>2
<1> QED BY <1>1, <1>2 DEF HsWired, HsMoves

LEMMA HsShuts_Type ==
  ASSUME HsWired, NEW n, NEW who \in HsClosers
  PROVE  HsShuts(n, who) \in [1 .. MaxHsConns -> HsClosers]
BY DEF HsWired, HsShuts

LEMMA HsUnlinked_Type ==
  ASSUME HsWired, NEW n
  PROVE  HsUnlinked(n) \in [conn : 0 .. MaxHsConns, key : HsSpaces \union {HsNone}, gen : Nat, made : 0 .. MaxHsConns, closed : BOOLEAN]
BY HsAssumption DEF HsWired, HsUnlinked

LEMMA HsWire_Inv == HsWired /\ HsWireNext => HsWired'
<1> SUFFICES ASSUME HsWired, HsWireNext PROVE HsWired'
  OBVIOUS
<1> DEFINE Link == [conn : 0 .. MaxHsConns, key : HsSpaces \union {HsNone}, gen : Nat, made : 0 .. MaxHsConns, closed : BOOLEAN]
<1>0. /\ hsEx \in [HsCalls -> HsExRecord]
      /\ hsLink \in Link
      /\ hsShut \in [1 .. MaxHsConns -> HsClosers]
      /\ HsNone \in HsClosers /\ "scope" \in HsClosers /\ "drop" \in HsClosers /\ "failed" \in HsClosers
      /\ \A k \in HsCalls : k \in HsClosers /\ hsEx[k] \in HsExRecord
  BY DEF HsWired, HsClosers
<1>1. ASSUME NEW k \in HsCalls, NEW key \in HsSpaces, HsExchange(k, key) PROVE HsWired'
  <2>w. hsEx[k] \in HsExRecord
    BY <1>0
  <2>1. PICK x : x = IF hsEx[k].over THEN "leave" ELSE "conn"
    OBVIOUS
  <2>2. PICK z : z = [hsEx[k] EXCEPT !.at = x, !.key = key]
    OBVIOUS
  <2>3. z \in HsExRecord /\ z.at = x /\ x \in {"leave", "conn"} /\ z.fires = hsEx[k].fires
    BY <2>w, <2>1, <2>2 DEF HsExRecord, HsExSteps
  <2>4. hsEx' = [hsEx EXCEPT ![k] = z]
    BY <1>1, <2>1, <2>2 DEF HsExchange
  <2>5. hsEx[k].fires # "begun" /\ hsGate' = k /\ hsGate = HsNone /\ UNCHANGED <<hsLink, hsShut>>
    BY <1>1 DEF HsExchange, HsWired
  <2>6. HsMoves(k, z)
    BY <1>0, <2>3, <2>4, <2>5 DEF HsMoves
  <2> QED BY <2>6, HsMoves_Wired
<1>2. ASSUME NEW k \in HsCalls, HsConnFor(k) PROVE HsWired'
  <2>w. hsEx[k] \in HsExRecord
    BY <1>0
  <2>0. hsEx[k].at = "conn" /\ hsGate = k /\ hsGate' = hsGate /\ hsEx[k].fires # "begun"
    BY <1>2 DEF HsConnFor, HsWired, HsBusy
  <2>1. CASE hsLink.conn # 0 /\ hsLink.key = hsEx[k].key
    <3>0. PICK n : n = hsLink.conn
      OBVIOUS
    <3>1. PICK z : z = [hsEx[k] EXCEPT !.at = "write", !.conn = n]
      OBVIOUS
    <3>2. hsLink.conn \in 1 .. MaxHsConns /\ n \in Nat
      BY <1>0, <2>1, <3>0, HsAssumption
    <3>3. z \in HsExRecord /\ z.at = "write" /\ z.conn = n /\ z.fires = hsEx[k].fires
      BY <2>w, <3>1, <3>2 DEF HsExRecord, HsExSteps
    <3>4. hsEx' = [hsEx EXCEPT ![k] = z] /\ UNCHANGED <<hsLink, hsShut>>
      BY <1>2, <2>1, <3>0, <3>1 DEF HsConnFor
    <3>5. HsMoves(k, z)
      BY <1>0, <2>0, <3>0, <3>2, <3>3, <3>4 DEF HsMoves
    <3> QED BY <3>5, HsMoves_Wired
  <2>2. CASE ~(hsLink.conn # 0 /\ hsLink.key = hsEx[k].key)
    <3>0. PICK g \in Nat : g = hsLink.gen
      BY <1>0
    <3>1. PICK z : z = [hsEx[k] EXCEPT !.at = "dial", !.gen = g]
      OBVIOUS
    <3>3. z \in HsExRecord /\ z.at = "dial" /\ z.fires = hsEx[k].fires
      BY <2>w, <3>0, <3>1 DEF HsExRecord, HsExSteps
    <3>4. hsEx' = [hsEx EXCEPT ![k] = z] /\ hsLink' = [hsLink EXCEPT !.conn = 0]
          /\ hsShut' = IF hsLink.conn = 0 THEN hsShut ELSE HsShuts(hsLink.conn, "scope")
      BY <1>2, <2>2, <3>0, <3>1 DEF HsConnFor
    <3>5. hsLink' \in Link
      BY <1>0, <3>4, HsAssumption
    <3>6. hsShut' \in [1 .. MaxHsConns -> HsClosers]
      BY <1>0, <3>4, HsShuts_Type
    <3>7. HsMoves(k, z)
      BY <2>0, <3>3, <3>4, <3>5, <3>6 DEF HsMoves
    <3> QED BY <3>7, HsMoves_Wired
  <2> QED BY <2>1, <2>2
<1>3. ASSUME NEW k \in HsCalls, HsDialFails(k) PROVE HsWired'
  <2>w. hsEx[k] \in HsExRecord
    BY <1>0
  <2>1. hsEx[k].at = "dial" /\ hsGate = k /\ UNCHANGED <<hsGate, hsLink, hsShut>>
    BY <1>3 DEF HsDialFails, HsWired, HsBusy
  <2>2. PICK z : z = [hsEx[k] EXCEPT !.at = "leave"]
    OBVIOUS
  <2>3. z \in HsExRecord /\ z.at = "leave"
    BY <2>w, <2>2 DEF HsExRecord, HsExSteps
  <2>4. hsEx' = [hsEx EXCEPT ![k] = z]
    BY <1>3, <2>2 DEF HsDialFails
  <2>5. HsMoves(k, z)
    BY <1>0, <2>1, <2>3, <2>4 DEF HsMoves
  <2> QED BY <2>5, HsMoves_Wired
<1>4. ASSUME NEW k \in HsCalls, HsDialled(k) PROVE HsWired'
  <2>w. hsEx[k] \in HsExRecord
    BY <1>0
  <2>0. hsEx[k].at = "dial" /\ hsGate = k /\ hsGate' = hsGate /\ hsEx[k].fires # "begun" /\ hsLink.made < MaxHsConns
    BY <1>4 DEF HsDialled, HsWired, HsBusy
  <2>1. PICK n : n = hsLink.made + 1
    OBVIOUS
  <2>2. n \in 1 .. MaxHsConns /\ n \in Nat
    BY <1>0, <2>0, <2>1, HsAssumption
  <2>3. CASE hsLink.closed \/ hsLink.gen # hsEx[k].gen
    <3>1. PICK z : z = [hsEx[k] EXCEPT !.at = "leave"]
      OBVIOUS
    <3>2. z \in HsExRecord /\ z.at = "leave"
      BY <2>w, <3>1 DEF HsExRecord, HsExSteps
    <3>3. hsEx' = [hsEx EXCEPT ![k] = z] /\ hsLink' = [hsLink EXCEPT !.made = n] /\ hsShut' = HsShuts(n, "drop")
      BY <1>4, <2>1, <2>3, <3>1 DEF HsDialled
    <3>4. hsLink' \in Link /\ hsShut' \in [1 .. MaxHsConns -> HsClosers]
      BY <1>0, <2>2, <3>3, HsShuts_Type
    <3>5. HsMoves(k, z)
      BY <2>0, <3>2, <3>3, <3>4 DEF HsMoves
    <3> QED BY <3>5, HsMoves_Wired
  <2>4. CASE ~(hsLink.closed \/ hsLink.gen # hsEx[k].gen)
    <3>1. PICK z : z = [hsEx[k] EXCEPT !.at = "write", !.conn = n]
      OBVIOUS
    <3>2. z \in HsExRecord /\ z.at = "write" /\ z.conn = n /\ z.fires = hsEx[k].fires
      BY <2>w, <2>2, <3>1 DEF HsExRecord, HsExSteps
    <3>3. /\ hsEx' = [hsEx EXCEPT ![k] = z] /\ UNCHANGED hsShut
          /\ hsLink' = [hsLink EXCEPT !.made = n, !.conn = n, !.key = hsEx[k].key]
      BY <1>4, <2>1, <2>4, <3>1 DEF HsDialled
    <3>4. hsLink' \in Link
      <4>1. PICK key \in HsSpaces \union {HsNone} : key = hsEx[k].key
        BY <2>w DEF HsExRecord
      <4>2. hsLink' = [hsLink EXCEPT !.made = n, !.conn = n, !.key = key]
        BY <3>3, <4>1
      <4>3. n \in 0 .. MaxHsConns /\ hsLink \in Link
        BY <1>0, <2>2
      <4> QED BY <4>1, <4>2, <4>3
    <3>5. HsMoves(k, z)
      BY <1>0, <2>0, <2>2, <3>2, <3>3, <3>4 DEF HsMoves
    <3> QED BY <3>5, HsMoves_Wired
  <2> QED BY <2>3, <2>4
<1>5. ASSUME NEW k \in HsCalls, hsEx[k].at \in {"write", "read"}, HsFailed(k) PROVE HsWired'
  <2>w. hsEx[k] \in HsExRecord
    BY <1>0
  <2>1. hsGate = k /\ hsEx[k].conn \in 1 .. MaxHsConns /\ hsGate' = hsGate
    BY <1>5 DEF HsFailed, HsWired, HsBusy
  <2>2. PICK got : got = IF HsClosed(hsEx[k].conn) THEN hsShut[hsEx[k].conn] ELSE "peer"
    OBVIOUS
  <2>3. got \in HsClosers \union {"peer"}
    BY <1>0, <2>1, <2>2
  <2>4. PICK z : z = [hsEx[k] EXCEPT !.at = "leave", !.got = got]
    OBVIOUS
  <2>5. z \in HsExRecord /\ z.at = "leave"
    BY <2>w, <2>3, <2>4 DEF HsExRecord, HsExSteps
  <2>6. hsEx' = [hsEx EXCEPT ![k] = z] /\ hsLink' = HsUnlinked(hsEx[k].conn) /\ hsShut' = HsShuts(hsEx[k].conn, "failed")
    BY <1>5, <2>2, <2>4 DEF HsFailed
  <2>7. hsLink' \in Link /\ hsShut' \in [1 .. MaxHsConns -> HsClosers]
    BY <1>0, <2>6, HsShuts_Type, HsUnlinked_Type
  <2>8. HsMoves(k, z)
    BY <2>1, <2>5, <2>6, <2>7 DEF HsMoves
  <2> QED BY <2>8, HsMoves_Wired
<1>6. ASSUME NEW k \in HsCalls, HsWrite(k) \/ HsRead(k) PROVE HsWired'
  <2>w. hsEx[k] \in HsExRecord
    BY <1>0
  <2>1. hsEx[k].at \in {"write", "read"} /\ hsGate = k /\ hsEx[k].conn \in 1 .. MaxHsConns
    BY <1>6 DEF HsWrite, HsRead, HsWired, HsBusy
  <2>2. CASE HsFailed(k)
    BY <1>5, <2>1, <2>2
  <2>3. CASE ~HsFailed(k)
    <3>1. PICK x \in {"read", "check"} : hsEx' = [hsEx EXCEPT ![k].at = x]
      BY <1>6, <2>3 DEF HsWrite, HsRead
    <3>2. UNCHANGED <<hsGate, hsLink, hsShut>>
      BY <1>6, <2>3 DEF HsWrite, HsRead
    <3>3. PICK z : z = [hsEx[k] EXCEPT !.at = x]
      OBVIOUS
    <3>4. z \in HsExRecord /\ z.at = x /\ z.conn = hsEx[k].conn
      BY <2>w, <3>1, <3>3 DEF HsExRecord, HsExSteps
    <3>5. hsEx' = [hsEx EXCEPT ![k] = z]
      BY <3>1, <3>3
    <3>6. HsMoves(k, z)
      BY <1>0, <2>1, <3>1, <3>2, <3>4, <3>5 DEF HsMoves
    <3> QED BY <3>6, HsMoves_Wired
  <2> QED BY <2>2, <2>3
<1>7. ASSUME NEW k \in HsCalls, HsCheck(k) PROVE HsWired'
  <2>w. hsEx[k] \in HsExRecord
    BY <1>0
  <2>1. hsEx[k].at = "check" /\ hsGate = k /\ hsGate' = hsGate
    BY <1>7 DEF HsCheck, HsWired, HsBusy
  <2>2. PICK z : z = [hsEx[k] EXCEPT !.at = "leave"]
    OBVIOUS
  <2>3. z \in HsExRecord /\ z.at = "leave"
    BY <2>w, <2>2 DEF HsExRecord, HsExSteps
  <2>4. hsEx' = [hsEx EXCEPT ![k] = z]
    BY <1>7, <2>2 DEF HsCheck
  <2>5. \/ UNCHANGED <<hsLink, hsShut>>
        \/ hsLink' = HsUnlinked(hsEx[k].conn) /\ hsShut' = HsShuts(hsEx[k].conn, "failed")
    BY <1>7 DEF HsCheck
  <2>6. hsLink' \in Link /\ hsShut' \in [1 .. MaxHsConns -> HsClosers]
    BY <1>0, <2>5, HsShuts_Type, HsUnlinked_Type
  <2>7. HsMoves(k, z)
    BY <2>1, <2>3, <2>4, <2>6 DEF HsMoves
  <2> QED BY <2>7, HsMoves_Wired
<1>8. ASSUME NEW k \in HsCalls, HsLeave(k) PROVE HsWired'
  <2>w. hsEx[k] \in HsExRecord
    BY <1>0
  <2>1. hsEx[k].at = "leave" /\ hsGate = k /\ hsEx[k].fires # "begun" /\ UNCHANGED <<hsLink, hsShut>>
    BY <1>8 DEF HsLeave, HsJoined, HsWired, HsBusy
  <2>2. PICK z : z = [hsEx[k] EXCEPT !.at = "over", !.got = HsNone, !.key = HsNone, !.gen = 0]
    OBVIOUS
  <2>3. z \in HsExRecord /\ z.at = "over" /\ z.fires = hsEx[k].fires
    <3>1. HsNone \in HsClosers \union {"peer"} /\ HsNone \in HsSpaces \union {HsNone} /\ 0 \in Nat /\ "over" \in HsExSteps
      BY DEF HsClosers, HsExSteps
    <3> QED BY <2>w, <2>2, <3>1 DEF HsExRecord
  <2>4. hsEx' = [hsEx EXCEPT ![k] = z]
    BY <1>8, <2>2 DEF HsLeave
  <2>5. HsMoves(k, z)
    BY <1>0, <2>1, <2>3, <2>4 DEF HsMoves, HsBusy
  <2> QED BY <2>5, HsMoves_Wired
<1>9. ASSUME NEW k \in HsCalls, HsCancel(k) \/ HsFires(k) \/ HsFired(k) PROVE HsWired'
  <2>w. hsEx[k] \in HsExRecord
    BY <1>0
  <2>1. hsShut' \in [1 .. MaxHsConns -> HsClosers] /\ UNCHANGED <<hsGate, hsLink>>
    BY <1>0, <1>9, HsShuts_Type DEF HsCancel, HsFires, HsFired
  <2>2. ASSUME NEW z, z \in HsExRecord, z.at = hsEx[k].at, z.conn = hsEx[k].conn, hsEx' = [hsEx EXCEPT ![k] = z],
               z.fires = "begun" => z.at \in {"write", "read", "check", "leave"}
        PROVE HsWired'
    <3>1. z.at \in HsBusy => hsGate' = k
      BY <2>1, <2>2 DEF HsWired
    <3>2. z.at \in {"write", "read", "check"} => z.conn \in 1 .. MaxHsConns
      BY <2>2 DEF HsWired
    <3>3. HsMoves(k, z)
      BY <1>0, <2>1, <2>2, <3>1, <3>2 DEF HsMoves
    <3> QED BY <3>3, HsMoves_Wired
  <2>3. CASE HsCancel(k)
    <3>1. PICK z : z = [hsEx[k] EXCEPT !.over = TRUE]
      OBVIOUS
    <3>2. z \in HsExRecord /\ z.at = hsEx[k].at /\ z.conn = hsEx[k].conn /\ z.fires = hsEx[k].fires
      BY <2>w, <3>1 DEF HsExRecord
    <3>3. hsEx' = [hsEx EXCEPT ![k] = z]
      BY <2>3, <3>1 DEF HsCancel
    <3>4. hsEx[k].fires = "begun" => hsEx[k].at \in {"write", "read", "check", "leave"}
      BY DEF HsWired
    <3> QED BY <2>2, <3>2, <3>3, <3>4
  <2>4. CASE HsFires(k)
    <3>1. PICK z : z = [hsEx[k] EXCEPT !.fires = "begun"]
      OBVIOUS
    <3>2. z \in HsExRecord /\ z.at = hsEx[k].at /\ z.conn = hsEx[k].conn
      BY <2>w, <3>1 DEF HsExRecord
    <3>3. hsEx' = [hsEx EXCEPT ![k] = z]
      BY <2>4, <3>1 DEF HsFires
    <3>4. hsEx[k].at \in {"write", "read", "check", "leave"}
      BY <2>4 DEF HsFires
    <3> QED BY <2>2, <3>2, <3>3, <3>4
  <2>5. CASE HsFired(k)
    <3>1. PICK z : z = [hsEx[k] EXCEPT !.fires = "done"]
      OBVIOUS
    <3>2. z \in HsExRecord /\ z.at = hsEx[k].at /\ z.conn = hsEx[k].conn /\ z.fires = "done"
      BY <2>w, <3>1 DEF HsExRecord
    <3>3. hsEx' = [hsEx EXCEPT ![k] = z]
      BY <2>5, <3>1 DEF HsFired
    <3> QED BY <2>2, <3>2, <3>3
  <2> QED BY <1>9, <2>3, <2>4, <2>5
<1>10. ASSUME NEW closing \in BOOLEAN, HsDrop(closing) PROVE HsWired'
  <2>1. /\ hsLink' = [hsLink EXCEPT !.gen = 1, !.conn = 0, !.closed = closing]
        /\ hsShut' = IF hsLink.conn = 0 THEN hsShut ELSE HsShuts(hsLink.conn, "drop")
        /\ UNCHANGED <<hsGate, hsEx>>
    BY <1>10 DEF HsDrop
  <2>w. hsLink \in Link /\ 0 \in 0 .. MaxHsConns /\ 1 \in Nat
    BY <1>0, HsAssumption
  <2>2. hsLink' \in Link
    BY <2>w, <2>1
  <2>3. hsShut' \in [1 .. MaxHsConns -> HsClosers]
    BY <1>0, <2>1, HsShuts_Type
  <2> QED BY <2>1, <2>2, <2>3 DEF HsWired
<1> QED BY <1>1, <1>2, <1>3, <1>4, <1>6, <1>7, <1>8, <1>9, <1>10 DEF HsWireNext

LEMMA HsNext_Inv == HsInv /\ [HsNext]_hsVars => HsInv'
<1> SUFFICES ASSUME HsInv, [HsNext]_hsVars PROVE HsInv'
  OBVIOUS
<1> USE DEF HsInv
<1>1. UNCHANGED hsTable => HsTabled'
  BY DEF hsTable, HsTabled
<1>2. UNCHANGED hsTalk => HsTalked'
  BY DEF hsTalk, HsTalked, HsOneWorkspace, HsChanges
<1>3. UNCHANGED hsWire => HsWired'
  BY DEF hsWire, HsWired
<1>4. CASE HsTableNext /\ UNCHANGED <<hsTalk, hsWire>>
  BY <1>2, <1>3, <1>4, HsTable_Inv
<1>5. CASE HsTalkNext /\ UNCHANGED <<hsTable, hsWire>>
  BY <1>1, <1>3, <1>5, HsTalk_Inv
<1>6. CASE HsWireNext /\ UNCHANGED <<hsTable, hsTalk>>
  BY <1>1, <1>2, <1>6, HsWire_Inv
<1>7. CASE UNCHANGED hsVars
  BY <1>1, <1>2, <1>3, <1>7 DEF hsVars
<1> QED BY <1>4, <1>5, <1>6, <1>7 DEF HsNext

\* hostedsessions.go and conversation.go: no more sessions are open than may be,
\* and the workspace that a conversation was told it has is the one it calls.
THEOREM HsHolds == HsSpec => [](HsBounded /\ HsOneWorkspace)
<1>1. HsInv => HsBounded /\ HsOneWorkspace
  BY DEF HsInv, HsTabled, HsTalked, HsBounded
<1>2. HsSpec => []HsInv
  BY HsInit_Inv, HsNext_Inv, PTL DEF HsSpec
<1> QED BY <1>1, <1>2, PTL

LEMMA HsFired_Own ==
  HsInv /\ [HsNext]_hsVars =>
     \A k \in HsCalls : hsEx[k].fires = "begun" /\ hsEx'[k].fires = "done"
          => \A j \in HsCalls \ {k} : hsEx[j].at \in {"write", "read", "check"} => hsEx[j].conn # hsEx[k].conn
<1> SUFFICES ASSUME HsInv, NEW k \in HsCalls, hsEx[k].fires = "begun", NEW j \in HsCalls \ {k},
                    hsEx[j].at \in {"write", "read", "check"}
             PROVE FALSE
  OBVIOUS
<1>1. hsGate = k
  BY DEF HsInv, HsWired, HsBusy
<1>2. hsGate = j
  BY DEF HsInv, HsWired, HsBusy
<1> QED BY <1>1, <1>2

\* workspace_link.go, exchange: a callback closes the shared connection only while
\* its own request holds the gate.
THEOREM HsCancels == HsSpec => HsCancelsItsOwn
<1>1. HsSpec => []HsInv
  BY HsInit_Inv, HsNext_Inv, PTL DEF HsSpec
<1> QED BY <1>1, HsFired_Own, PTL DEF HsSpec, HsCancelsItsOwn

----------------------------------------------------------------------------
(* Workspaces *)

\* The name a workspace has before it is opened.
WsNoName == CHOOSE n \in SpaceNames : TRUE
WsRecord == [name : SpaceNames \union {WsNoName}, owner : {Owner[c] : c \in Calls} \union {"none"},
             closed : BOOLEAN, stopping : BOOLEAN, shell : BOOLEAN, active : SUBSET CommandIds,
             job : [CommandIds -> JobStates], starts : [CommandIds -> Nat]]
WsCallRecord == [at : {"idle", "gate", "drain", "leave"}, w : Spaces \union {0}, r : SUBSET CommandIds]

WsTyped ==
  /\ made \in Nat /\ made <= MaxSpaces
  /\ spaceOf \in [SpaceNames -> 0 .. made]
  /\ ws \in [Spaces -> WsRecord]
  /\ call \in [Calls -> WsCallRecord]

\* What is reserved or runs is the workspace's active command, it was not
\* started before it was let through, and it runs in a shell.
WsSound(rec) ==
  \A r \in CommandIds : /\ rec.starts[r] <= 1
                        /\ rec.job[r] \in {"none", "approving"} => rec.starts[r] = 0
                        /\ rec.job[r] \in {"approving", "running"} => rec.active = {r}
                        /\ rec.job[r] = "running" => rec.shell

\* Who waits at the gate is alone in it with its command, which still waits
\* unless the workspace was stopped.
WsAtGate(c, w, r) == call[c].at = "gate" /\ call[c].w = w /\ call[c].r = {r}
WsGated ==
  /\ \A c \in Calls : call[c].at = "gate" =>
        \E w \in 1 .. made, r \in CommandIds : WsAtGate(c, w, r) /\ (ws[w].job[r] = "approving" \/ ws[w].stopping)
  /\ \A c, d \in Calls, w \in Spaces, r \in CommandIds : WsAtGate(c, w, r) /\ WsAtGate(d, w, r) => c = d
  /\ \A c \in Calls : call[c].at \in {"drain", "leave"} => call[c].w \in 1 .. made

WsInv == WsTyped /\ (\A w \in Spaces : WsSound(ws[w])) /\ WsGated

\* What NothingStartsLate says of a step.
WsOnTime ==
  \A w \in Spaces, r \in CommandIds :
      ws[w].job[r] # "running" /\ ws'[w].job[r] = "running"
         => ws[w].job[r] = "approving" /\ ~ws[w].closed /\ ~ws[w].stopping

LEMMA WsInit_Inv == WsInit => WsInv
<1> SUFFICES ASSUME WsInit PROVE WsInv
  OBVIOUS
<1> DEFINE fresh == [name |-> WsNoName, owner |-> "none", closed |-> FALSE, stopping |-> FALSE, shell |-> FALSE,
                     active |-> {}, job |-> [r \in CommandIds |-> "none"], starts |-> [r \in CommandIds |-> 0]]
<1>1. ws = [w \in Spaces |-> fresh]
  BY DEF WsInit, WsNoName
<1>2. fresh \in WsRecord /\ WsSound(fresh)
  <2>1. [r \in CommandIds |-> "none"] \in [CommandIds -> JobStates] /\ [r \in CommandIds |-> 0] \in [CommandIds -> Nat]
    BY DEF JobStates
  <2> QED BY <2>1 DEF WsRecord, WsSound
<1>3. WsTyped
  <2>1. made = 0 /\ spaceOf \in [SpaceNames -> 0 .. made] /\ made <= MaxSpaces
    BY WorkspaceAssumption DEF WsInit
  <2>2. ws \in [Spaces -> WsRecord]
    BY <1>1, <1>2
  <2>3. call \in [Calls -> WsCallRecord]
    BY DEF WsInit, WsCallRecord
  <2> QED BY <2>1, <2>2, <2>3 DEF WsTyped
<1>4. WsGated
  BY DEF WsInit, WsGated, WsAtGate
<1> QED BY <1>1, <1>2, <1>3, <1>4 DEF WsInv

\* One workspace moves on.
WsMoves(w, z) ==
  /\ z \in WsRecord /\ WsSound(z) /\ ws' = [ws EXCEPT ![w] = z]
  /\ \A r \in CommandIds : z.job[r] = "running" =>
        ws[w].job[r] = "running" \/ (ws[w].job[r] = "approving" /\ ~ws[w].closed /\ ~ws[w].stopping)

LEMMA WsMoves_Sound ==
  ASSUME WsInv, NEW w \in Spaces, NEW z, WsMoves(w, z)
  PROVE  /\ ws' \in [Spaces -> WsRecord] /\ ws'[w] = z /\ \A v \in Spaces : v # w => ws'[v] = ws[v]
         /\ (\A v \in Spaces : WsSound(ws'[v])) /\ WsOnTime
<1>1. ws \in [Spaces -> WsRecord] /\ z \in WsRecord
  BY DEF WsInv, WsTyped, WsMoves
<1>2. ws' \in [Spaces -> WsRecord] /\ ws'[w] = z /\ \A v \in Spaces : v # w => ws'[v] = ws[v]
  BY <1>1 DEF WsMoves
<1>3. \A v \in Spaces : WsSound(ws'[v])
  BY <1>2, Zenon DEF WsInv, WsMoves
<1>4. WsOnTime
  <2> SUFFICES ASSUME NEW v \in Spaces, NEW r \in CommandIds, ws[v].job[r] # "running", ws'[v].job[r] = "running"
               PROVE  ws[v].job[r] = "approving" /\ ~ws[v].closed /\ ~ws[v].stopping
    BY DEF WsOnTime
  <2> QED BY <1>2 DEF WsMoves
<1> QED BY <1>2, <1>3, <1>4

\* One workspace moves on and no call enters the gate.
WsQuiet(w, z) ==
  /\ WsMoves(w, z) /\ UNCHANGED made
  /\ spaceOf' \in [SpaceNames -> 0 .. made] /\ call' \in [Calls -> WsCallRecord]
  /\ \A c \in Calls : /\ call'[c].at = "gate" => call'[c] = call[c]
                      /\ call'[c].at \in {"drain", "leave"} => call'[c].w \in 1 .. made
  /\ \A c \in Calls, r \in CommandIds : call'[c].at = "gate" /\ WsAtGate(c, w, r) =>
        z.stopping \/ (ws[w].job[r] = "approving" /\ ~ws[w].stopping /\ z.job[r] = "approving")

LEMMA WsQuiet_Inv ==
  ASSUME WsInv, NEW w \in Spaces, NEW z, WsQuiet(w, z)
  PROVE  WsInv' /\ WsOnTime
<1>1. /\ ws' \in [Spaces -> WsRecord] /\ ws'[w] = z /\ \A v \in Spaces : v # w => ws'[v] = ws[v]
      /\ (\A v \in Spaces : WsSound(ws'[v])) /\ WsOnTime
  BY WsMoves_Sound DEF WsQuiet
<1>2. WsTyped'
  BY <1>1 DEF WsInv, WsTyped, WsQuiet
<1>3. 1 .. made \subseteq Spaces
  BY WorkspaceAssumption DEF WsInv, WsTyped, Spaces
<1>4. ASSUME NEW c \in Calls, call'[c].at = "gate"
      PROVE  \E v \in 1 .. made', r \in CommandIds : WsAtGate(c, v, r)' /\ (ws'[v].job[r] = "approving" \/ ws'[v].stopping)
  <2>1. call'[c] = call[c] /\ made' = made
    BY <1>4 DEF WsQuiet
  <2>2. PICK v \in 1 .. made, r \in CommandIds : WsAtGate(c, v, r) /\ (ws[v].job[r] = "approving" \/ ws[v].stopping)
    BY <1>4, <2>1 DEF WsInv, WsGated
  <2>3. WsAtGate(c, v, r)'
    BY <2>1, <2>2 DEF WsAtGate
  <2>4. ws'[v].job[r] = "approving" \/ ws'[v].stopping
    <3>1. CASE v = w
      BY <1>1, <1>4, <2>2, <3>1 DEF WsQuiet
    <3>2. CASE v # w
      BY <1>1, <1>3, <2>2, <3>2
    <3> QED BY <3>1, <3>2
  <2> QED BY <2>1, <2>2, <2>3, <2>4
<1>5. \A c, d \in Calls, v \in Spaces, r \in CommandIds : WsAtGate(c, v, r)' /\ WsAtGate(d, v, r)' => c = d
  <2> SUFFICES ASSUME NEW c \in Calls, NEW d \in Calls, NEW v \in Spaces, NEW r \in CommandIds,
                      WsAtGate(c, v, r)', WsAtGate(d, v, r)' PROVE c = d
    OBVIOUS
  <2>1. WsAtGate(c, v, r) /\ WsAtGate(d, v, r)
    BY DEF WsAtGate, WsQuiet
  <2> QED BY <2>1 DEF WsInv, WsGated
<1>6. \A c \in Calls : call'[c].at \in {"drain", "leave"} => call'[c].w \in 1 .. made'
  BY DEF WsQuiet
<1>7. WsGated'
  BY <1>4, <1>5, <1>6 DEF WsGated
<1> QED BY <1>1, <1>2, <1>7 DEF WsInv

\* A workspace an action is about.
LEMMA WsFound ==
  ASSUME WsInv, NEW c \in Calls, NEW n \in SpaceNames, NEW w \in Addressed(c, n)
  PROVE  w \in 1 .. made /\ w \in Spaces /\ call[c].at = "idle"
<1>1. call[c].at = "idle" /\ w = spaceOf[n] /\ w # 0
  BY DEF Addressed, GetWorkspace
<1>2. spaceOf[n] \in 0 .. made /\ made \in Nat /\ made <= MaxSpaces
  BY DEF WsInv, WsTyped
<1> QED BY <1>1, <1>2, WorkspaceAssumption DEF Spaces

LEMMA WsCalls ==
  ASSUME WsInv, NEW c \in Calls, NEW at \in {"idle", "gate", "drain", "leave"}, NEW w \in Spaces \union {0},
         NEW r \in SUBSET CommandIds, SetCall(c, at, w, r)
  PROVE  /\ call' \in [Calls -> WsCallRecord] /\ call'[c] = [at |-> at, w |-> w, r |-> r]
         /\ \A d \in Calls : d # c => call'[d] = call[d]
<1>1. [at |-> at, w |-> w, r |-> r] \in WsCallRecord
  BY DEF WsCallRecord
<1> QED BY <1>1 DEF WsInv, WsTyped, SetCall

\* A command is finished.
LEMMA WsFinished ==
  ASSUME NEW rec \in WsRecord, WsSound(rec), NEW r \in CommandIds
  PROVE  \E z \in WsRecord :
            /\ z = Finished(rec, r) /\ WsSound(z) /\ z.job[r] = "done"
            /\ z.closed = rec.closed /\ z.stopping = rec.stopping /\ z.shell = rec.shell
            /\ \A q \in CommandIds : q # r => z.job[q] = rec.job[q]
<1>1. CASE rec.job[r] = "done"
  BY <1>1 DEF Finished
<1>2. CASE rec.job[r] # "done"
  <2>1. PICK z : z = [rec EXCEPT !.job[r] = "done", !.active = @ \ {r}]
    OBVIOUS
  <2>2. rec.job \in [CommandIds -> JobStates] /\ rec.active \in SUBSET CommandIds /\ rec.starts \in [CommandIds -> Nat]
    BY DEF WsRecord
  <2>3. PICK job : job = [rec.job EXCEPT ![r] = "done"]
    OBVIOUS
  <2>4. job \in [CommandIds -> JobStates] /\ job[r] = "done" /\ \A q \in CommandIds : q # r => job[q] = rec.job[q]
    BY <2>2, <2>3 DEF JobStates
  <2>5. PICK active : active = rec.active \ {r}
    OBVIOUS
  <2>6. z = [rec EXCEPT !.job = job, !.active = active]
    BY <2>1, <2>3, <2>5
  <2>7. /\ z \in WsRecord /\ z.job = job /\ z.active = active /\ z.starts = rec.starts
        /\ z.closed = rec.closed /\ z.stopping = rec.stopping /\ z.shell = rec.shell
    BY <2>2, <2>4, <2>5, <2>6 DEF WsRecord
  <2>8. WsSound(z)
    <3> SUFFICES ASSUME NEW q \in CommandIds
                 PROVE  /\ z.starts[q] <= 1
                        /\ z.job[q] \in {"none", "approving"} => z.starts[q] = 0
                        /\ z.job[q] \in {"approving", "running"} => z.active = {q}
                        /\ z.job[q] = "running" => z.shell
      BY DEF WsSound
    <3>1. CASE q = r
      BY <2>4, <2>7, <3>1 DEF WsSound
    <3>2. CASE q # r
      BY <2>4, <2>5, <2>7, <3>2 DEF WsSound
    <3> QED BY <3>1, <3>2
  <2>9. z = Finished(rec, r)
    BY <1>2, <2>1 DEF Finished
  <2> QED BY <2>4, <2>7, <2>8, <2>9
<1> QED BY <1>1, <1>2

LEMMA WsOpen_Inv ==
  ASSUME WsInv, NEW c \in Calls, NEW n \in SpaceNames, OpenWorkspace(c, n)
  PROVE  WsInv' /\ WsOnTime
<1>1. PICK w : w = made + 1
  OBVIOUS
<1>2. w \in Spaces /\ made' = w /\ w \in Nat /\ w <= MaxSpaces /\ made \in Nat
  BY <1>1, WorkspaceAssumption DEF OpenWorkspace, WsInv, WsTyped, Spaces
<1>3. PICK o : o = Owner[c]
  OBVIOUS
<1>4. PICK z : z = [ws[w] EXCEPT !.name = n, !.owner = o, !.shell = TRUE]
  OBVIOUS
<1>5. ws[w] \in WsRecord /\ WsSound(ws[w])
  BY <1>2 DEF WsInv, WsTyped
<1>6. /\ z \in WsRecord /\ z.job = ws[w].job /\ z.active = ws[w].active /\ z.starts = ws[w].starts
      /\ z.closed = ws[w].closed /\ z.stopping = ws[w].stopping /\ z.shell = TRUE
  <2>1. o \in {Owner[d] : d \in Calls} \union {"none"} /\ n \in SpaceNames \union {WsNoName}
    BY <1>3
  <2> QED BY <1>4, <1>5, <2>1 DEF WsRecord
<1>7. ws' = [ws EXCEPT ![w] = z]
  BY <1>1, <1>3, <1>4 DEF OpenWorkspace
<1>8. WsSound(z)
  BY <1>5, <1>6 DEF WsSound
<1>9. WsMoves(w, z)
  BY <1>6, <1>7, <1>8 DEF WsMoves
<1>10. /\ ws' \in [Spaces -> WsRecord] /\ ws'[w] = z /\ \A v \in Spaces : v # w => ws'[v] = ws[v]
       /\ (\A v \in Spaces : WsSound(ws'[v])) /\ WsOnTime
  BY <1>2, <1>9, WsMoves_Sound
<1>11. call' = call
  BY DEF OpenWorkspace
<1>12. spaceOf' \in [SpaceNames -> 0 .. made']
  <2>1. spaceOf \in [SpaceNames -> 0 .. made'] /\ w \in 0 .. made'
    BY <1>1, <1>2 DEF WsInv, WsTyped
  <2>2. spaceOf' = [spaceOf EXCEPT ![n] = w]
    BY <1>1 DEF OpenWorkspace
  <2> QED BY <2>1, <2>2
<1>13. WsTyped'
  BY <1>2, <1>10, <1>11, <1>12 DEF WsInv, WsTyped
<1>14. WsGated'
  <2>1. 1 .. made \subseteq 1 .. made' /\ 1 .. made \subseteq Spaces
    <3>1. made' = made + 1 /\ made + 1 <= MaxSpaces /\ MaxSpaces \in Nat
      BY <1>1, <1>2, WorkspaceAssumption
    <3> QED BY <1>2, <3>1 DEF Spaces
  <2>2. \A v \in Spaces, r \in CommandIds : ws[v].job[r] = "approving" \/ ws[v].stopping => ws'[v].job[r] = "approving" \/ ws'[v].stopping
    BY <1>6, <1>10
  <2>3. ASSUME NEW d \in Calls, call'[d].at = "gate"
        PROVE  \E v \in 1 .. made', r \in CommandIds : WsAtGate(d, v, r)' /\ (ws'[v].job[r] = "approving" \/ ws'[v].stopping)
    <3>1. PICK v \in 1 .. made, r \in CommandIds : WsAtGate(d, v, r) /\ (ws[v].job[r] = "approving" \/ ws[v].stopping)
      BY <1>11, <2>3 DEF WsInv, WsGated
    <3>2. WsAtGate(d, v, r)'
      BY <1>11, <3>1 DEF WsAtGate
    <3> QED BY <2>1, <2>2, <3>1, <3>2
  <2>4. \A e, d \in Calls, v \in Spaces, r \in CommandIds : WsAtGate(e, v, r)' /\ WsAtGate(d, v, r)' => e = d
    BY <1>11 DEF WsAtGate, WsInv, WsGated
  <2>5. \A d \in Calls : call'[d].at \in {"drain", "leave"} => call'[d].w \in 1 .. made'
    BY <1>11, <2>1 DEF WsInv, WsGated
  <2> QED BY <2>3, <2>4, <2>5 DEF WsGated
<1> QED BY <1>10, <1>13, <1>14 DEF WsInv

LEMMA WsReserve_Inv ==
  ASSUME WsInv, NEW c \in Calls, NEW n \in SpaceNames, NEW r \in CommandIds, Reserve(c, n, r)
  PROVE  WsInv' /\ WsOnTime
<1>1. PICK w \in Addressed(c, n) :
        /\ ws[w].job[r] = "none" /\ IsOpen(w) /\ ws[w].active = {}
        /\ ws' = [ws EXCEPT ![w].job[r] = "approving", ![w].active = {r}]
        /\ SetCall(c, "gate", w, {r})
  BY DEF Reserve
<1>2. w \in 1 .. made /\ w \in Spaces /\ call[c].at = "idle" /\ UNCHANGED <<spaceOf, made>>
  BY <1>1, WsFound DEF Reserve
<1>3. ws[w] \in WsRecord /\ WsSound(ws[w]) /\ ~ws[w].stopping /\ ~ws[w].closed /\ ws[w].shell
  BY <1>1, <1>2 DEF WsInv, WsTyped, IsOpen
<1>4. ws[w].job \in [CommandIds -> JobStates] /\ ws[w].starts \in [CommandIds -> Nat]
  BY <1>3 DEF WsRecord
<1>5. PICK job : job = [ws[w].job EXCEPT ![r] = "approving"]
  OBVIOUS
<1>6. job \in [CommandIds -> JobStates] /\ job[r] = "approving" /\ \A q \in CommandIds : q # r => job[q] = ws[w].job[q]
  BY <1>4, <1>5 DEF JobStates
<1>7. PICK z : z = [ws[w] EXCEPT !.job = job, !.active = {r}]
  OBVIOUS
<1>8. /\ z \in WsRecord /\ z.job = job /\ z.active = {r} /\ z.starts = ws[w].starts
      /\ z.closed = ws[w].closed /\ z.stopping = ws[w].stopping /\ z.shell = ws[w].shell
  BY <1>3, <1>6, <1>7 DEF WsRecord
<1>9. ws' = [ws EXCEPT ![w] = z]
  BY <1>1, <1>5, <1>7
<1>10. \A q \in CommandIds : ws[w].job[q] \notin {"approving", "running"}
  BY <1>1, <1>3 DEF WsSound
<1>11. WsSound(z)
  <2> SUFFICES ASSUME NEW q \in CommandIds
               PROVE  /\ z.starts[q] <= 1
                      /\ z.job[q] \in {"none", "approving"} => z.starts[q] = 0
                      /\ z.job[q] \in {"approving", "running"} => z.active = {q}
                      /\ z.job[q] = "running" => z.shell
    BY DEF WsSound
  <2>1. CASE q = r
    BY <1>1, <1>3, <1>6, <1>8, <2>1 DEF WsSound
  <2>2. CASE q # r
    BY <1>3, <1>6, <1>8, <1>10, <2>2 DEF WsSound
  <2> QED BY <2>1, <2>2
<1>12. WsMoves(w, z)
  <2>1. \A q \in CommandIds : z.job[q] # "running"
    BY <1>6, <1>8, <1>10
  <2> QED BY <1>8, <1>9, <1>11, <2>1 DEF WsMoves
<1>13. /\ ws' \in [Spaces -> WsRecord] /\ ws'[w] = z /\ \A v \in Spaces : v # w => ws'[v] = ws[v]
       /\ (\A v \in Spaces : WsSound(ws'[v])) /\ WsOnTime
  BY <1>2, <1>12, WsMoves_Sound
<1>14. /\ call' \in [Calls -> WsCallRecord] /\ call'[c] = [at |-> "gate", w |-> w, r |-> {r}]
       /\ \A d \in Calls : d # c => call'[d] = call[d]
  <2>1. {r} \in SUBSET CommandIds /\ w \in Spaces \union {0}
    BY <1>2
  <2> QED BY <1>1, <2>1, WsCalls
<1>15. WsTyped'
  BY <1>2, <1>13, <1>14 DEF WsInv, WsTyped
<1>16. 1 .. made \subseteq Spaces /\ made' = made
  BY <1>2, WorkspaceAssumption DEF WsInv, WsTyped, Spaces
<1>17. ASSUME NEW d \in Calls, d # c, NEW v \in Spaces, NEW q \in CommandIds, WsAtGate(d, v, q)'
       PROVE  WsAtGate(d, v, q) /\ <<v, q>> # <<w, r>>
  <2>1. WsAtGate(d, v, q)
    BY <1>14, <1>17 DEF WsAtGate
  <2>2. PICK x \in 1 .. made, y \in CommandIds : WsAtGate(d, x, y) /\ (ws[x].job[y] = "approving" \/ ws[x].stopping)
    BY <2>1 DEF WsInv, WsGated, WsAtGate
  <2>3. x = v /\ y = q
    BY <2>1, <2>2 DEF WsAtGate
  <2> QED BY <1>1, <1>3, <2>1, <2>2, <2>3
<1>18. WsGated'
  <2>1. ASSUME NEW d \in Calls, call'[d].at = "gate"
        PROVE  \E v \in 1 .. made', q \in CommandIds : WsAtGate(d, v, q)' /\ (ws'[v].job[q] = "approving" \/ ws'[v].stopping)
    <3>1. CASE d = c
      <4>1. WsAtGate(d, w, r)'
        BY <1>14, <3>1 DEF WsAtGate
      <4> QED BY <1>2, <1>6, <1>8, <1>13, <1>16, <4>1
    <3>2. CASE d # c
      <4>1. call[d].at = "gate" /\ call'[d] = call[d]
        BY <1>14, <2>1, <3>2
      <4>2. PICK v \in 1 .. made, q \in CommandIds : WsAtGate(d, v, q) /\ (ws[v].job[q] = "approving" \/ ws[v].stopping)
        BY <4>1 DEF WsInv, WsGated
      <4>3. WsAtGate(d, v, q)'
        BY <4>1, <4>2 DEF WsAtGate
      <4>4. ws'[v].job[q] = "approving" \/ ws'[v].stopping
        <5>1. CASE v = w
          BY <1>6, <1>8, <1>13, <1>10, <1>3, <4>2, <5>1
        <5>2. CASE v # w
          BY <1>13, <1>16, <4>2, <5>2
        <5> QED BY <5>1, <5>2
      <4> QED BY <1>16, <4>2, <4>3, <4>4
    <3> QED BY <3>1, <3>2
  <2>2. ASSUME NEW e \in Calls, NEW d \in Calls, NEW v \in Spaces, NEW q \in CommandIds, WsAtGate(e, v, q)', WsAtGate(d, v, q)'
        PROVE  e = d
    <3>1. CASE e # c /\ d # c
      <4>1. WsAtGate(e, v, q) /\ WsAtGate(d, v, q)
        BY <1>17, <2>2, <3>1
      <4> QED BY <4>1 DEF WsInv, WsGated
    <3>2. CASE e = c \/ d = c
      <4>1. WsAtGate(c, v, q)'
        BY <2>2, <3>2
      <4>2. v = w /\ {q} = {r}
        BY <1>14, <4>1 DEF WsAtGate
      <4>3. q = r
        BY <4>2
      <4> QED BY <1>17, <2>2, <3>2, <4>2, <4>3
    <3> QED BY <3>1, <3>2
  <2>3. \A d \in Calls : call'[d].at \in {"drain", "leave"} => call'[d].w \in 1 .. made'
    BY <1>14, <1>16 DEF WsInv, WsGated
  <2> QED BY <2>1, <2>2, <2>3 DEF WsGated
<1> QED BY <1>13, <1>15, <1>18 DEF WsInv

LEMMA WsAnswers_Inv ==
  ASSUME WsInv, NEW c \in Calls, NEW ok \in BOOLEAN, OwnerAnswers(c, ok)
  PROVE  WsInv' /\ WsOnTime
<1>1. PICK w \in 1 .. made, r \in CommandIds : WsAtGate(c, w, r) /\ (ws[w].job[r] = "approving" \/ ws[w].stopping)
  BY DEF OwnerAnswers, WsInv, WsGated
<1>2. /\ ws' = IF MayStart(w, r, ok)
              THEN [ws EXCEPT ![w].job[r] = "running", ![w].starts[r] = @ + 1]
              ELSE [ws EXCEPT ![w] = Finished(@, r)]
      /\ SetCall(c, "idle", 0, {}) /\ UNCHANGED <<spaceOf, made>>
  BY <1>1 DEF OwnerAnswers, WsAtGate, Return
<1>3. w \in Spaces
  BY <1>1, WorkspaceAssumption DEF WsInv, WsTyped, Spaces
<1>4. ws[w] \in WsRecord /\ WsSound(ws[w])
  BY <1>3 DEF WsInv, WsTyped
<1>5. /\ call' \in [Calls -> WsCallRecord] /\ call'[c] = [at |-> "idle", w |-> 0, r |-> {}]
      /\ \A d \in Calls : d # c => call'[d] = call[d]
  <2>1. 0 \in Spaces \union {0} /\ {} \in SUBSET CommandIds /\ "idle" \in {"idle", "gate", "drain", "leave"}
    OBVIOUS
  <2> QED BY <1>2, <2>1, WsCalls
<1>6. ASSUME NEW z \in WsRecord, WsMoves(w, z), z.stopping = ws[w].stopping, \A q \in CommandIds : q # r => z.job[q] = ws[w].job[q]
      PROVE  WsInv' /\ WsOnTime
  <2>1. spaceOf' \in [SpaceNames -> 0 .. made] /\ made' = made
    BY <1>2 DEF WsInv, WsTyped
  <2>2. \A d \in Calls : /\ call'[d].at = "gate" => call'[d] = call[d] /\ d # c
                         /\ call'[d].at \in {"drain", "leave"} => call'[d].w \in 1 .. made
    BY <1>5 DEF WsInv, WsGated
  <2>3. ASSUME NEW d \in Calls, NEW q \in CommandIds, call'[d].at = "gate", WsAtGate(d, w, q)
        PROVE  z.stopping \/ (ws[w].job[q] = "approving" /\ ~ws[w].stopping /\ z.job[q] = "approving")
    <3>1. q # r
      BY <1>1, <1>3, <2>2, <2>3 DEF WsInv, WsGated
    <3>2. PICK x \in 1 .. made, y \in CommandIds : WsAtGate(d, x, y) /\ (ws[x].job[y] = "approving" \/ ws[x].stopping)
      BY <2>3 DEF WsInv, WsGated, WsAtGate
    <3>3. x = w /\ y = q
      BY <2>3, <3>2 DEF WsAtGate
    <3> QED BY <1>6, <3>1, <3>2, <3>3
  <2>4. WsQuiet(w, z)
    BY <1>5, <1>6, <2>1, <2>2, <2>3 DEF WsQuiet
  <2> QED BY <1>3, <2>4, WsQuiet_Inv
<1>7. CASE MayStart(w, r, ok)
  <2>1. ws[w].job[r] = "approving" /\ ~ws[w].closed /\ ~ws[w].stopping /\ ws[w].shell
    BY <1>1, <1>7 DEF MayStart, IsOpen
  <2>2. ws[w].job \in [CommandIds -> JobStates] /\ ws[w].starts \in [CommandIds -> Nat]
    BY <1>4 DEF WsRecord
  <2>3. ws[w].starts[r] = 0 /\ ws[w].active = {r}
    BY <1>4, <2>1 DEF WsSound
  <2>4. PICK job : job = [ws[w].job EXCEPT ![r] = "running"]
    OBVIOUS
  <2>5. PICK starts : starts = [ws[w].starts EXCEPT ![r] = @ + 1]
    OBVIOUS
  <2>6. /\ job \in [CommandIds -> JobStates] /\ job[r] = "running" /\ \A q \in CommandIds : q # r => job[q] = ws[w].job[q]
        /\ starts \in [CommandIds -> Nat] /\ starts[r] = 1 /\ \A q \in CommandIds : q # r => starts[q] = ws[w].starts[q]
    BY <2>2, <2>3, <2>4, <2>5 DEF JobStates
  <2>7. PICK z : z = [ws[w] EXCEPT !.job = job, !.starts = starts]
    OBVIOUS
  <2>8. /\ z \in WsRecord /\ z.job = job /\ z.starts = starts /\ z.active = ws[w].active
        /\ z.stopping = ws[w].stopping /\ z.shell = ws[w].shell
    BY <1>4, <2>6, <2>7 DEF WsRecord
  <2>9. ws' = [ws EXCEPT ![w] = z]
    BY <1>2, <1>7, <2>4, <2>5, <2>7
  <2>10. WsSound(z)
    <3> SUFFICES ASSUME NEW q \in CommandIds
                 PROVE  /\ z.starts[q] <= 1
                        /\ z.job[q] \in {"none", "approving"} => z.starts[q] = 0
                        /\ z.job[q] \in {"approving", "running"} => z.active = {q}
                        /\ z.job[q] = "running" => z.shell
      BY DEF WsSound
    <3>1. CASE q = r
      BY <2>1, <2>3, <2>6, <2>8, <3>1
    <3>2. CASE q # r
      BY <1>4, <2>6, <2>8, <3>2 DEF WsSound
    <3> QED BY <3>1, <3>2
  <2>11. WsMoves(w, z)
    BY <2>1, <2>6, <2>8, <2>9, <2>10 DEF WsMoves
  <2> QED BY <1>6, <2>6, <2>8, <2>11
<1>8. CASE ~MayStart(w, r, ok)
  <2>1. PICK z \in WsRecord : /\ z = Finished(ws[w], r) /\ WsSound(z) /\ z.job[r] = "done" /\ z.stopping = ws[w].stopping
                              /\ \A q \in CommandIds : q # r => z.job[q] = ws[w].job[q]
    BY <1>4, WsFinished
  <2>2. ws' = [ws EXCEPT ![w] = z]
    BY <1>2, <1>8, <2>1
  <2>3. WsMoves(w, z)
    BY <2>1, <2>2 DEF WsMoves
  <2> QED BY <1>6, <2>1, <2>3
<1> QED BY <1>7, <1>8

\* Only fields of one workspace other than its commands move.
LEMMA WsFlags ==
  ASSUME WsInv, NEW w \in Spaces, NEW z \in WsRecord,
         z.job = ws[w].job, z.active = ws[w].active, z.starts = ws[w].starts,
         \A r \in CommandIds : z.job[r] = "running" => z.shell,
         ws' = [ws EXCEPT ![w] = z]
  PROVE  WsMoves(w, z)
<1>1. WsSound(ws[w])
  BY DEF WsInv
<1>2. WsSound(z)
  BY <1>1 DEF WsSound
<1> QED BY <1>2 DEF WsMoves

\* The calls stay where they are, or one of them leaves.
WsLeaves ==
  /\ UNCHANGED made /\ spaceOf' \in [SpaceNames -> 0 .. made] /\ call' \in [Calls -> WsCallRecord]
  /\ \A c \in Calls : /\ call'[c].at = "gate" => call'[c] = call[c]
                      /\ call'[c].at \in {"drain", "leave"} => call'[c].w \in 1 .. made

LEMMA WsSame ==
  ASSUME WsInv, UNCHANGED <<made, spaceOf, call>> PROVE WsLeaves
BY DEF WsLeaves, WsInv, WsTyped, WsGated

LEMMA WsKept ==
  ASSUME WsInv, NEW w \in Spaces, NEW z, WsMoves(w, z), WsLeaves,
         ws[w].stopping => z.stopping,
         z.stopping \/ \A r \in CommandIds : ws[w].job[r] = "approving" => z.job[r] = "approving"
  PROVE  WsInv' /\ WsOnTime
<1>1. ASSUME NEW c \in Calls, NEW r \in CommandIds, WsAtGate(c, w, r)
      PROVE  z.stopping \/ (ws[w].job[r] = "approving" /\ ~ws[w].stopping /\ z.job[r] = "approving")
  <2>1. PICK x \in 1 .. made, y \in CommandIds : WsAtGate(c, x, y) /\ (ws[x].job[y] = "approving" \/ ws[x].stopping)
    BY <1>1 DEF WsInv, WsGated, WsAtGate
  <2>2. x = w /\ y = r
    BY <1>1, <2>1 DEF WsAtGate
  <2> QED BY <2>1, <2>2
<1>2. WsQuiet(w, z)
  BY <1>1 DEF WsQuiet, WsLeaves
<1> QED BY <1>2, WsQuiet_Inv

LEMMA WsRunEnds_Inv ==
  ASSUME WsInv, NEW w \in 1 .. made, NEW r \in CommandIds, RunEnds(w, r)
  PROVE  WsInv' /\ WsOnTime
<1>1. w \in Spaces
  BY WorkspaceAssumption DEF WsInv, WsTyped, Spaces
<1>2. ws[w] \in WsRecord /\ WsSound(ws[w])
  BY <1>1 DEF WsInv, WsTyped
<1>3. PICK z \in WsRecord : /\ z = Finished(ws[w], r) /\ WsSound(z) /\ z.job[r] = "done" /\ z.stopping = ws[w].stopping
                            /\ \A q \in CommandIds : q # r => z.job[q] = ws[w].job[q]
  BY <1>2, WsFinished
<1>4. ws' = [ws EXCEPT ![w] = z] /\ ws[w].job[r] = "running" /\ UNCHANGED <<made, spaceOf, call>>
  BY <1>3 DEF RunEnds
<1>5. WsMoves(w, z)
  BY <1>3, <1>4 DEF WsMoves
<1>6. \A q \in CommandIds : ws[w].job[q] = "approving" => z.job[q] = "approving"
  BY <1>3, <1>4
<1>7. WsLeaves
  BY <1>4, WsSame
<1> QED BY <1>1, <1>3, <1>5, <1>6, <1>7, WsKept

LEMMA WsShellDies_Inv ==
  ASSUME WsInv, NEW w \in 1 .. made, ShellDies(w)
  PROVE  WsInv' /\ WsOnTime
<1>1. w \in Spaces
  BY WorkspaceAssumption DEF WsInv, WsTyped, Spaces
<1>2. ws[w] \in WsRecord
  BY <1>1 DEF WsInv, WsTyped
<1>3. PICK z : z = [ws[w] EXCEPT !.shell = FALSE]
  OBVIOUS
<1>4. z \in WsRecord /\ z.job = ws[w].job /\ z.active = ws[w].active /\ z.starts = ws[w].starts /\ z.stopping = ws[w].stopping
  BY <1>2, <1>3 DEF WsRecord
<1>5. ws' = [ws EXCEPT ![w] = z] /\ UNCHANGED <<made, spaceOf, call>>
  BY <1>3 DEF ShellDies
<1>6. \A r \in CommandIds : z.job[r] # "running"
  BY <1>4 DEF ShellDies
<1>7. WsMoves(w, z)
  BY <1>1, <1>4, <1>5, <1>6, WsFlags
<1>8. WsLeaves
  BY <1>5, WsSame
<1> QED BY <1>1, <1>4, <1>7, <1>8, WsKept

LEMMA WsCancel_Inv ==
  ASSUME WsInv, NEW c \in Calls, NEW n \in SpaceNames, NEW r \in CommandIds, CancelCommand(c, n, r)
  PROVE  WsInv' /\ WsOnTime
<1>1. PICK w \in Addressed(c, n) : ws' = [ws EXCEPT ![w] = StoppedOnCancel(@, r)] /\ SetCall(c, "drain", w, {})
  BY DEF CancelCommand
<1>2. w \in 1 .. made /\ w \in Spaces /\ UNCHANGED <<spaceOf, made>>
  BY <1>1, WsFound DEF CancelCommand
<1>3. ws[w] \in WsRecord /\ WsSound(ws[w])
  BY <1>2 DEF WsInv, WsTyped
<1>4. PICK y \in WsRecord : /\ y = IF ws[w].job[r] = "approving" THEN Finished(ws[w], r) ELSE ws[w]
                            /\ WsSound(y) /\ \A q \in CommandIds : y.job[q] = "running" => ws[w].job[q] = "running"
  <2>1. CASE ws[w].job[r] = "approving"
    <3>1. PICK x \in WsRecord : /\ x = Finished(ws[w], r) /\ WsSound(x) /\ x.job[r] = "done"
                                /\ \A q \in CommandIds : q # r => x.job[q] = ws[w].job[q]
      BY <1>3, WsFinished
    <3>2. \A q \in CommandIds : x.job[q] = "running" => ws[w].job[q] = "running"
      BY <3>1
    <3> QED BY <2>1, <3>1, <3>2
  <2>2. CASE ws[w].job[r] # "approving"
    BY <1>3, <2>2
  <2> QED BY <2>1, <2>2
<1>5. PICK z : z = [y EXCEPT !.stopping = TRUE]
  OBVIOUS
<1>6. z \in WsRecord /\ z.job = y.job /\ z.active = y.active /\ z.starts = y.starts /\ z.shell = y.shell /\ z.stopping = TRUE
  BY <1>5 DEF WsRecord
<1>7. WsSound(z)
  BY <1>4, <1>6 DEF WsSound
<1>8. z = StoppedOnCancel(ws[w], r)
  BY <1>4, <1>5 DEF StoppedOnCancel
<1>9. ws' = [ws EXCEPT ![w] = z]
  BY <1>1, <1>8
<1>10. WsMoves(w, z)
  BY <1>4, <1>6, <1>7, <1>9 DEF WsMoves
<1>11. WsLeaves
  <2>1. {} \in SUBSET CommandIds /\ w \in Spaces \union {0} /\ "drain" \in {"idle", "gate", "drain", "leave"}
    BY <1>2
  <2>2. /\ call' \in [Calls -> WsCallRecord] /\ call'[c] = [at |-> "drain", w |-> w, r |-> {}]
        /\ \A d \in Calls : d # c => call'[d] = call[d]
    BY <1>1, <2>1, WsCalls
  <2>3. \A d \in Calls : /\ call'[d].at = "gate" => call'[d] = call[d]
                         /\ call'[d].at \in {"drain", "leave"} => call'[d].w \in 1 .. made
    BY <1>2, <2>2 DEF WsInv, WsGated
  <2> QED BY <1>2, <2>2, <2>3 DEF WsLeaves, WsInv, WsTyped
<1> QED BY <1>2, <1>6, <1>10, <1>11, WsKept

LEMMA WsClose_Inv ==
  ASSUME WsInv, NEW c \in Calls, NEW n \in SpaceNames, CloseWorkspace(c, n)
  PROVE  WsInv' /\ WsOnTime
<1>1. PICK w \in Addressed(c, n) : ws' = [ws EXCEPT ![w].closed = TRUE] /\ SetCall(c, "leave", w, {})
  BY DEF CloseWorkspace
<1>2. w \in 1 .. made /\ w \in Spaces /\ UNCHANGED <<spaceOf, made>>
  BY <1>1, WsFound DEF CloseWorkspace
<1>3. ws[w] \in WsRecord /\ WsSound(ws[w])
  BY <1>2 DEF WsInv, WsTyped
<1>4. PICK z : z = [ws[w] EXCEPT !.closed = TRUE]
  OBVIOUS
<1>5. z \in WsRecord /\ z.job = ws[w].job /\ z.active = ws[w].active /\ z.starts = ws[w].starts /\ z.shell = ws[w].shell
      /\ z.stopping = ws[w].stopping
  BY <1>3, <1>4 DEF WsRecord
<1>6. ws' = [ws EXCEPT ![w] = z]
  BY <1>1, <1>4
<1>7. \A r \in CommandIds : z.job[r] = "running" => z.shell
  BY <1>3, <1>5 DEF WsSound
<1>8. WsMoves(w, z)
  BY <1>2, <1>5, <1>6, <1>7, WsFlags
<1>9. WsLeaves
  <2>1. {} \in SUBSET CommandIds /\ w \in Spaces \union {0} /\ "leave" \in {"idle", "gate", "drain", "leave"}
    BY <1>2
  <2>2. /\ call' \in [Calls -> WsCallRecord] /\ call'[c] = [at |-> "leave", w |-> w, r |-> {}]
        /\ \A d \in Calls : d # c => call'[d] = call[d]
    BY <1>1, <2>1, WsCalls
  <2>3. \A d \in Calls : /\ call'[d].at = "gate" => call'[d] = call[d]
                         /\ call'[d].at \in {"drain", "leave"} => call'[d].w \in 1 .. made
    BY <1>2, <2>2 DEF WsInv, WsGated
  <2> QED BY <1>2, <2>2, <2>3 DEF WsLeaves, WsInv, WsTyped
<1> QED BY <1>2, <1>5, <1>8, <1>9, WsKept

LEMMA WsDrained_Inv ==
  ASSUME WsInv, NEW c \in Calls, CancelDrained(c) \/ CloseDrained(c)
  PROVE  WsInv' /\ WsOnTime
<1>1. PICK w : w = call[c].w
  OBVIOUS
<1>2. /\ call[c].at \in {"drain", "leave"} /\ Drained(w) /\ ws' = [ws EXCEPT ![w].shell = FALSE]
      /\ SetCall(c, "idle", 0, {}) /\ made' = made
  BY <1>1 DEF CancelDrained, CloseDrained, Return
<1>3. w \in 1 .. made /\ w \in Spaces
  BY <1>1, <1>2, WorkspaceAssumption DEF WsInv, WsTyped, WsGated, Spaces
<1>4. ws[w] \in WsRecord
  BY <1>3 DEF WsInv, WsTyped
<1>5. PICK z : z = [ws[w] EXCEPT !.shell = FALSE]
  OBVIOUS
<1>6. z \in WsRecord /\ z.job = ws[w].job /\ z.active = ws[w].active /\ z.starts = ws[w].starts /\ z.stopping = ws[w].stopping
  BY <1>4, <1>5 DEF WsRecord
<1>7. ws' = [ws EXCEPT ![w] = z]
  BY <1>2, <1>5
<1>8. \A r \in CommandIds : z.job[r] # "running"
  BY <1>2, <1>6 DEF Drained
<1>9. WsMoves(w, z)
  BY <1>3, <1>6, <1>7, <1>8, WsFlags
<1>10. WsLeaves
  <2>1. {} \in SUBSET CommandIds /\ 0 \in Spaces \union {0} /\ "idle" \in {"idle", "gate", "drain", "leave"}
    OBVIOUS
  <2>2. /\ call' \in [Calls -> WsCallRecord] /\ call'[c] = [at |-> "idle", w |-> 0, r |-> {}]
        /\ \A d \in Calls : d # c => call'[d] = call[d]
    BY <1>2, <2>1, WsCalls
  <2>3. \A d \in Calls : /\ call'[d].at = "gate" => call'[d] = call[d]
                         /\ call'[d].at \in {"drain", "leave"} => call'[d].w \in 1 .. made
    BY <2>2 DEF WsInv, WsGated
  <2>4. spaceOf' \in [SpaceNames -> 0 .. made]
    <3>1. spaceOf \in [SpaceNames -> 0 .. made] /\ 0 \in 0 .. made
      BY DEF WsInv, WsTyped
    <3> QED BY <3>1 DEF CancelDrained, CloseDrained
  <2> QED BY <1>2, <2>2, <2>3, <2>4 DEF WsLeaves
<1> QED BY <1>3, <1>6, <1>9, <1>10, WsKept

LEMMA WsShutdown_Inv ==
  ASSUME WsInv, CloseWorkspaces
  PROVE  WsInv' /\ WsOnTime
<1>1. ASSUME NEW w \in Spaces
      PROVE  /\ ws'[w] \in WsRecord /\ ws'[w].job = ws[w].job /\ ws'[w].active = ws[w].active /\ ws'[w].starts = ws[w].starts
             /\ ws'[w].shell = ws[w].shell /\ ws'[w].stopping = ws[w].stopping
  <2>1. ws[w] \in WsRecord
    BY DEF WsInv, WsTyped
  <2>2. ws'[w] = IF w \in InMap THEN [ws[w] EXCEPT !.closed = TRUE] ELSE ws[w]
    BY DEF CloseWorkspaces
  <2>3. PICK z : z = [ws[w] EXCEPT !.closed = TRUE]
    OBVIOUS
  <2>4. z \in WsRecord /\ z.job = ws[w].job /\ z.active = ws[w].active /\ z.starts = ws[w].starts /\ z.shell = ws[w].shell
        /\ z.stopping = ws[w].stopping
    BY <2>1, <2>3 DEF WsRecord
  <2>5. ws'[w] = z \/ ws'[w] = ws[w]
    BY <2>2, <2>3
  <2> QED BY <2>1, <2>4, <2>5
<1>2. UNCHANGED <<made, call>> /\ spaceOf' = [n \in SpaceNames |-> 0]
  BY DEF CloseWorkspaces
<1>3. ws' \in [Spaces -> WsRecord]
  <2>1. ws' = [w \in Spaces |-> ws'[w]]
    BY DEF CloseWorkspaces
  <2> QED BY <1>1, <2>1
<1>4. \A w \in Spaces : WsSound(ws'[w])
  BY <1>1 DEF WsSound, WsInv
<1>5. WsTyped'
  <2>1. 0 \in 0 .. made
    BY DEF WsInv, WsTyped
  <2> QED BY <1>2, <1>3, <2>1 DEF WsInv, WsTyped
<1>6. WsGated'
  <2>0. 1 .. made \subseteq Spaces
    BY WorkspaceAssumption DEF WsInv, WsTyped, Spaces
  <2>1. \A c \in Calls, w \in Spaces, r \in CommandIds : WsAtGate(c, w, r)' <=> WsAtGate(c, w, r)
    BY <1>2 DEF WsAtGate
  <2> QED BY <1>1, <1>2, <2>0, <2>1 DEF WsInv, WsGated
<1>7. WsOnTime
  BY <1>1 DEF WsOnTime
<1> QED BY <1>4, <1>5, <1>6, <1>7 DEF WsInv

LEMMA WsNext_Inv == WsInv /\ [WsNext]_wsVars => WsInv' /\ WsOnTime
<1> SUFFICES ASSUME WsInv, [WsNext]_wsVars PROVE WsInv' /\ WsOnTime
  OBVIOUS
<1>1. ASSUME NEW c \in Calls, NEW n \in SpaceNames, OpenWorkspace(c, n) \/ CloseWorkspace(c, n) PROVE WsInv' /\ WsOnTime
  BY <1>1, WsOpen_Inv, WsClose_Inv
<1>2. ASSUME NEW c \in Calls, NEW n \in SpaceNames, NEW r \in CommandIds, Reserve(c, n, r) \/ CancelCommand(c, n, r)
      PROVE  WsInv' /\ WsOnTime
  BY <1>2, WsReserve_Inv, WsCancel_Inv
<1>3. ASSUME NEW c \in Calls, NEW ok \in BOOLEAN, OwnerAnswers(c, ok) PROVE WsInv' /\ WsOnTime
  BY <1>3, WsAnswers_Inv
<1>4. ASSUME NEW c \in Calls, CancelDrained(c) \/ CloseDrained(c) PROVE WsInv' /\ WsOnTime
  BY <1>4, WsDrained_Inv
<1>5. ASSUME NEW w \in 1 .. made, ShellDies(w) PROVE WsInv' /\ WsOnTime
  BY <1>5, WsShellDies_Inv
<1>6. ASSUME NEW w \in 1 .. made, NEW r \in CommandIds, RunEnds(w, r) PROVE WsInv' /\ WsOnTime
  BY <1>6, WsRunEnds_Inv
<1>7. CASE CloseWorkspaces
  BY <1>7, WsShutdown_Inv
<1>8. CASE UNCHANGED wsVars
  BY <1>8 DEF wsVars, WsInv, WsTyped, WsGated, WsAtGate, WsOnTime
<1> QED BY <1>1, <1>2, <1>3, <1>4, <1>5, <1>6, <1>7, <1>8 DEF WsNext

\* A command starts once, and runs in a shell that lives.
WorkspacesSafe == StartsOnce /\ RunsInLiveShell

\* agent/workspace.go: whatever approvals, cancels, closes and the shutdown race
\* each other, a command starts once, in a live shell, and not after its
\* workspace was cancelled or closed.
THEOREM WorkspacesHold == WsSpec => []WorkspacesSafe /\ NothingStartsLate
<1>1. WsInv => WorkspacesSafe
  <2> SUFFICES ASSUME WsInv, NEW w \in Spaces, NEW r \in CommandIds
               PROVE  /\ ws[w].starts[r] <= 1
                      /\ ws[w].job[r] = "running" => ws[w].active = {r} /\ ws[w].shell
    BY DEF WorkspacesSafe, StartsOnce, RunsInLiveShell
  <2> QED BY DEF WsInv, WsSound
<1>2. WsInv /\ [WsNext]_wsVars => [WsOnTime]_wsVars
  BY WsNext_Inv
<1>3. WsInv /\ [WsNext]_wsVars => WsInv'
  BY WsNext_Inv
<1>4. WsSpec => []WsInv
  BY WsInit_Inv, <1>3, PTL DEF WsSpec
<1> QED BY <1>1, <1>2, <1>4, PTL DEF WsSpec, NothingStartsLate, WsOnTime

----------------------------------------------------------------------------
(* Together *)

\* portal/deviceconn.go, pending.go, larkwatch.go and mcp/hostedsessions.go: an answer
\* on a shared connection goes to who asked, one round asks the devices of an
\* owner, the MCP server's sessions and bindings stay within their bounds, and
\* of a card's taps one decides: for any number of callers, windows, sessions
\* and cards.
THEOREM ConnsHold == DcSpec /\ WpSpec /\ HsSpec /\ LkSpec => []ConnsSafe
<1>1. (DcOwnAnswer /\ DcNoLeak) /\ WpOneRound /\ (HsBounded /\ HsOneWorkspace) /\ LkCardsSafe => ConnsSafe
  BY DEF ConnsSafe, LkCardsSafe
<1> QED BY <1>1, DcHolds, WpHolds, HsHolds, CardsKeepOrder, PTL

\* agent/workspace.go and client/workspace_link.go: nothing starts once its caller's
\* cancel or the end of its workspace was taken in, and a cancel stops the
\* call that it names.  For any number of callers.
THEOREM CancelsHold == WsSpec /\ HsSpec => CancelsSafe
BY WorkspacesHold, HsCancels, PTL DEF CancelsSafe

----------------------------------------------------------------------------
(* Approvals on the phone *)

PhAskRecords == [st : {"none", "waiting", "over"}, late : BOOLEAN,
                 how : {"none", "late", "early", "timeout", "unlearned"}, passed : Nat]
PhCards == [r : Asks, phone : Phones, st : {"pending", "done", "expired"}, answered : BOOLEAN,
            gone : {"no", "early", "late"}, unknown : BOOLEAN, gen : Nat,
            step : {"none", "apply", "confirm", "grant"}, verdict : {"none", "y", "n"},
            was : {"none", "pending", "done", "expired"}, applied : Nat, kept : BOOLEAN, tapped : BOOLEAN]

\* How a request ends that LetThroughOnce excepts.
PhExcepted == {"late", "unlearned"}

PhTyped ==
  /\ ask \in [Asks -> PhAskRecords]
  /\ cards \in Seq(PhCards)
  /\ conn \in 0..conns /\ sub \in 0..conns /\ conns \in Nat /\ dirty \in BOOLEAN
  /\ seen \in [Asks -> 0..Len(cards)]

\* A card by itself: it is carried out once, by the decision that claimed it.
PhCardOk(card) ==
  /\ card.gen <= conns
  /\ ask[card.r].st # "none"
  /\ card.st = "done" \/ card.step # "none" => card.answered
  /\ card.was = "pending" /\ card.step \in {"apply", "grant"} => card.st = "pending"
  /\ card.st = "pending" /\ card.step \in {"none", "apply"} => card.gone = "no"
  /\ card.applied <= 1
  /\ ~card.answered \/ card.step \in {"apply", "grant"} => card.applied = 0

\* The cards that can still let their request through after it is over: one that
\* shows on the phone of a watch that lives, one whose decision is being carried
\* out on such a watch, and one that is owed a late grant.
PhLive(card) == card.gen = conn /\ conn # 0 /\ ~card.unknown
PhOffered(card) == card.st = "pending" /\ ~card.answered /\ card.kept /\ PhLive(card)
PhCarried(card) == card.step = "apply" /\ card.was = "pending" /\ PhLive(card)
PhOwed(card) ==
  \/ card.step = "grant" /\ ~card.unknown /\ card.gone = "late" /\ (card.was = "pending" => PhLive(card))
  \/ card.st = "expired" /\ ~card.answered
  \/ card.step = "apply" /\ card.was # "pending"
PhHot(card) == PhOffered(card) \/ PhCarried(card) \/ PhOwed(card)

\* Where such a card stands.
PhStanding(c) ==
  LET card == cards[c] rec == ask[card.r]
  IN  /\ PhOffered(card) => seen[card.r] = c /\ sub = conn /\ (rec.st = "over" => dirty)
      /\ PhCarried(card) /\ rec.st = "waiting" => seen[card.r] = c
      /\ PhOwed(card) => rec.st = "over" /\ rec.late
      /\ PhHot(card) /\ rec.st = "over" /\ rec.late => rec.how \in PhExcepted \/ rec.passed = 0

PhAskOk(rec) ==
  /\ rec.st # "over" => rec.passed = 0
  /\ rec.passed <= 1 \/ rec.how \in PhExcepted

\* Decisions on their way are decisions.
PhSent ==
  /\ phone \in Phones /\ outbox \in [Phones -> [1..MaxCards -> {"none", "y", "n"}]]
  /\ \A m \in inFlight : m.v \in {"y", "n"}

PhInv ==
  /\ PhTyped
  /\ \A c \in CardNumbers : PhCardOk(cards[c]) /\ PhStanding(c)
  /\ \A c, d \in CardNumbers : PhHot(cards[c]) /\ PhHot(cards[d]) /\ cards[c].r = cards[d].r => c = d
  /\ \A r \in Asks : PhAskOk(ask[r]) /\ (seen[r] # 0 => cards[seen[r]].r = r)

----------------------------------------------------------------------------
LEMMA PhInit_Inv == PhoneInit => PhInv
<1> SUFFICES ASSUME PhoneInit PROVE PhInv
  OBVIOUS
<1>1. cards = <<>> /\ Len(cards) = 0 /\ cards \in Seq(PhCards)
  BY DEF PhoneInit
<1>2. ask \in [Asks -> PhAskRecords] /\ \A r \in Asks : PhAskOk(ask[r])
  BY DEF PhoneInit, PhAskRecords, PhAskOk
<1>3. PhTyped /\ \A r \in Asks : seen[r] = 0
  <2>1. conn = 0 /\ sub = 0 /\ conns = 0 /\ dirty = FALSE /\ seen = [r \in Asks |-> 0]
    BY DEF PhoneInit
  <2>2. seen \in [Asks -> 0..Len(cards)] /\ \A r \in Asks : seen[r] = 0
    BY <1>1, <2>1
  <2>3. conn \in 0..conns /\ sub \in 0..conns /\ conns \in Nat
    BY <2>1
  <2>4. dirty \in BOOLEAN
    BY <2>1
  <2> QED BY <1>1, <1>2, <2>2, <2>3, <2>4, Zenon DEF PhTyped
<1>4. CardNumbers = {}
  BY <1>1 DEF CardNumbers
<1> QED BY <1>2, <1>3, <1>4 DEF PhInv

\* What a step owes the invariant, card by card.
LEMMA PhStep ==
  ASSUME PhInv, PhTyped', Len(cards') = Len(cards),
         \A c \in CardNumbers : /\ cards'[c].r = cards[c].r
                                /\ PhCardOk(cards[c])' /\ PhStanding(c)'
                                /\ PhHot(cards[c])' => PhHot(cards[c]),
         \A r \in Asks : PhAskOk(ask[r])' /\ (seen'[r] # 0 => seen'[r] = seen[r])
  PROVE  PhInv'
<1>1. CardNumbers' = CardNumbers
  BY DEF CardNumbers
<1>2. \A c, d \in CardNumbers : PhHot(cards[c])' /\ PhHot(cards[d])' /\ cards'[c].r = cards'[d].r => c = d
  BY DEF PhInv
<1>3. ASSUME NEW r \in Asks, seen'[r] # 0 PROVE cards'[seen'[r]].r = r
  <2>1. seen'[r] = seen[r] /\ cards[seen[r]].r = r
    BY <1>3 DEF PhInv
  <2>2. seen[r] \in CardNumbers
    BY <1>3, <2>1 DEF PhInv, PhTyped, CardNumbers
  <2> QED BY <2>1, <2>2
<1> QED BY <1>1, <1>2, <1>3 DEF PhInv

LEMMA PhCardTyped ==
  ASSUME PhInv, NEW c \in CardNumbers
  PROVE  cards[c] \in PhCards /\ cards[c].r \in Asks /\ ask[cards[c].r] \in PhAskRecords /\ c # 0
<1>1. cards \in Seq(PhCards)
  BY DEF PhInv, PhTyped
<1>2. cards[c] \in PhCards
  BY <1>1 DEF CardNumbers
<1>3. cards[c].r \in Asks
  BY <1>2 DEF PhCards
<1> QED BY <1>2, <1>3 DEF PhInv, PhTyped, CardNumbers

\* The cards of a step that changes one.
LEMMA PhReplaced ==
  ASSUME PhInv, NEW c \in CardNumbers, NEW z \in PhCards, cards' = [cards EXCEPT ![c] = z]
  PROVE  /\ cards' \in Seq(PhCards) /\ Len(cards') = Len(cards) /\ cards'[c] = z
         /\ \A d \in CardNumbers : d # c => cards'[d] = cards[d]
<1>1. cards \in Seq(PhCards) /\ c \in 1..Len(cards)
  BY DEF PhInv, PhTyped, CardNumbers
<1> QED BY <1>1, ExceptSeq DEF CardNumbers

\* One card goes on; no request and no watch changes.
LEMMA PhOneCard ==
  ASSUME PhInv, NEW c \in CardNumbers, NEW z \in PhCards, cards' = [cards EXCEPT ![c] = z],
         z.r = cards[c].r, PhCardOk(z),
         UNCHANGED <<ask, conn, conns, sub, dirty>>,
         seen' \in [Asks -> 0..Len(cards)],
         \A r \in Asks : seen'[r] # seen[r] =>
            seen'[r] = 0 /\ ask[r].st = "over" /\ seen[r] = c /\ ~PhOffered(z),
         PhOffered(z) => PhOffered(cards[c]),
         PhCarried(z) => PhCarried(cards[c]) \/ PhOffered(cards[c]),
         PhOwed(z) => \/ PhOwed(cards[c])
                      \/ PhHot(cards[c]) /\ ask[z.r].st = "over" /\ ask[z.r].late
  PROVE  PhInv'
<1>1. /\ cards' \in Seq(PhCards) /\ Len(cards') = Len(cards) /\ cards'[c] = z
      /\ \A d \in CardNumbers : d # c => cards'[d] = cards[d]
  BY PhReplaced
<1>2. PhTyped'
  BY <1>1 DEF PhInv, PhTyped
<1>3. \A card : /\ PhOffered(card)' = PhOffered(card) /\ PhCarried(card)' = PhCarried(card)
                /\ PhOwed(card)' = PhOwed(card) /\ PhHot(card)' = PhHot(card) /\ PhCardOk(card)' = PhCardOk(card)
  BY DEF PhOffered, PhCarried, PhOwed, PhHot, PhLive, PhCardOk
<1>4. ASSUME NEW d \in CardNumbers
      PROVE  cards'[d].r = cards[d].r /\ PhCardOk(cards[d])' /\ PhStanding(d)' /\ (PhHot(cards[d])' => PhHot(cards[d]))
  <2>1. cards[d].r \in Asks /\ d # 0 /\ PhCardOk(cards[d]) /\ PhStanding(d)
    BY PhCardTyped DEF PhInv
  <2>2. CASE d = c
    <3>1. cards'[d].r = cards[d].r /\ PhCardOk(cards'[d])
      BY <1>1, <2>2
    <3>2. PhHot(z) => PhHot(cards[d])
      BY <2>2 DEF PhHot
    <3>3. PhOffered(z) => seen'[z.r] = d /\ sub = conn /\ (ask[z.r].st = "over" => dirty)
      BY <2>1, <2>2 DEF PhStanding
    <3>4. PhCarried(z) /\ ask[z.r].st = "waiting" => seen'[z.r] = d
      BY <2>1, <2>2 DEF PhStanding
    <3>5. PhOwed(z) => ask[z.r].st = "over" /\ ask[z.r].late
      BY <2>1, <2>2 DEF PhStanding
    <3>6. PhHot(z) /\ ask[z.r].st = "over" /\ ask[z.r].late => ask[z.r].how \in PhExcepted \/ ask[z.r].passed = 0
      BY <2>1, <2>2, <3>2 DEF PhStanding
    <3>7. PhStanding(d)'
      BY <1>1, <1>3, <2>2, <3>3, <3>4, <3>5, <3>6 DEF PhStanding
    <3> QED BY <1>1, <1>3, <2>2, <3>1, <3>2, <3>7
  <2>3. CASE d # c
    <3>1. cards'[d] = cards[d]
      BY <1>1, <2>3
    <3>2. PhOffered(cards[d]) => seen'[cards[d].r] = d
      BY <2>1, <2>3 DEF PhStanding
    <3>3. PhCarried(cards[d]) /\ ask[cards[d].r].st = "waiting" => seen'[cards[d].r] = d
      BY <2>1, <2>3 DEF PhStanding
    <3>4. PhStanding(d)'
      BY <1>3, <2>1, <3>1, <3>2, <3>3 DEF PhStanding
    <3> QED BY <1>3, <2>1, <3>1, <3>4
  <2> QED BY <2>2, <2>3
<1>5. \A r \in Asks : PhAskOk(ask[r])' /\ (seen'[r] # 0 => seen'[r] = seen[r])
  BY DEF PhInv, PhAskOk
<1> QED BY <1>1, <1>2, <1>4, <1>5, PhStep

\* An answer that lets a request through after its wait has nearly run out is
\* accounted late.
PhTimely(rec, how, verdict) == how \in PhExcepted \/ verdict # "y" \/ ~rec.late
PhEnded(z, rec) ==
  /\ z \in PhAskRecords /\ z.st = "over" /\ z.passed <= 1 /\ z.late = rec.late
  /\ z.late => z.how \in PhExcepted \/ z.passed = 0

\* The record of a request that is over.
\* A request is over: at once, by an answer, or when its wait runs out.
LEMMA PhEnds ==
  ASSUME PhInv, NEW r \in Asks, ask[r].st = "waiting", NEW z \in PhAskRecords, ask' = [ask EXCEPT ![r] = z],
         PhEnded(z, ask[r]),
         cards' \in Seq(PhCards), Len(cards') = Len(cards),
         \A d \in CardNumbers :
            \/ cards'[d] = cards[d]
            \/ ~PhHot(cards'[d]) /\ PhCardOk(cards'[d]) /\ cards'[d].r = cards[d].r,
         UNCHANGED <<conn, conns, sub, seen>>, dirty' \in BOOLEAN, dirty \/ sub # 0 => dirty'
  PROVE  PhInv'
<1>0. /\ z.st = "over" /\ z.passed <= 1 /\ z.late = ask[r].late
      /\ z.late => z.how \in PhExcepted \/ z.passed = 0
  BY DEF PhEnded
<1>1. PhTyped'
  BY DEF PhInv, PhTyped
<1>2. ask'[r] = z /\ \A q \in Asks : q # r => ask'[q] = ask[q]
  BY DEF PhInv, PhTyped
<1>3. \A card : /\ PhOffered(card)' = PhOffered(card) /\ PhCarried(card)' = PhCarried(card)
                /\ PhOwed(card)' = PhOwed(card) /\ PhHot(card)' = PhHot(card)
  BY DEF PhOffered, PhCarried, PhOwed, PhHot, PhLive
<1>4. ASSUME NEW d \in CardNumbers
      PROVE  cards'[d].r = cards[d].r /\ PhCardOk(cards[d])' /\ PhStanding(d)' /\ (PhHot(cards[d])' => PhHot(cards[d]))
  <2>1. cards[d].r \in Asks /\ d # 0 /\ PhCardOk(cards[d]) /\ PhStanding(d)
    BY PhCardTyped DEF PhInv
  <2>2. CASE cards'[d] = cards[d]
    <3>1. PhCardOk(cards[d])'
      BY <1>0, <1>2, <2>1, <2>2 DEF PhCardOk
    <3>2. PhOffered(cards[d]) => sub # 0 /\ sub = conn /\ seen[cards[d].r] = d
      BY <2>1 DEF PhStanding, PhOffered, PhLive
    <3>3. CASE cards[d].r = r
      <4>1. ~PhOwed(cards[d])
        BY <2>1, <3>3 DEF PhStanding
      <4>2. PhStanding(d)'
        BY <1>0, <1>2, <1>3, <2>2, <3>2, <3>3, <4>1 DEF PhStanding
      <4> QED BY <1>3, <2>2, <3>1, <4>2
    <3>4. CASE cards[d].r # r
      <4>1. ask'[cards[d].r] = ask[cards[d].r]
        BY <1>2, <2>1, <3>4
      <4>2. PhStanding(d)'
        BY <1>3, <2>1, <2>2, <3>2, <4>1 DEF PhStanding
      <4> QED BY <1>3, <2>2, <3>1, <4>2
    <3> QED BY <3>3, <3>4
  <2>3. CASE ~PhHot(cards'[d]) /\ PhCardOk(cards'[d]) /\ cards'[d].r = cards[d].r
    <3>1. PhCardOk(cards[d])'
      BY <1>0, <1>2, <2>1, <2>3 DEF PhCardOk
    <3>2. ~PhHot(cards[d])'
      BY <1>3, <2>3
    <3>3. PhStanding(d)'
      BY <3>2 DEF PhStanding, PhHot
    <3> QED BY <2>3, <3>1, <3>2, <3>3
  <2> QED BY <2>2, <2>3
<1>5. \A q \in Asks : PhAskOk(ask[q])' /\ (seen'[q] # 0 => seen'[q] = seen[q])
  BY <1>0, <1>2 DEF PhInv, PhAskOk
<1> QED BY <1>1, <1>4, <1>5, PhStep

\* Links, watches and connections come and go.
LEMMA PhWatch ==
  ASSUME PhInv, UNCHANGED ask, PhTyped', Len(cards') = Len(cards), conns <= conns',
         \A r \in Asks : seen'[r] = seen[r] \/ seen'[r] = 0,
         \A d \in CardNumbers :
            /\ cards'[d] = cards[d] \/ cards'[d] = [cards[d] EXCEPT !.unknown = TRUE]
            /\ PhOffered(cards[d])' =>
                 /\ PhOffered(cards[d]) /\ seen' = seen /\ sub' = conn'
                 /\ ask[cards[d].r].st = "over" => dirty'
            /\ PhCarried(cards[d])' => PhCarried(cards[d]) /\ (ask[cards[d].r].st = "waiting" => seen' = seen)
            /\ PhOwed(cards[d])' => PhOwed(cards[d])
  PROVE  PhInv'
<1>1. ASSUME NEW d \in CardNumbers
      PROVE  cards'[d].r = cards[d].r /\ PhCardOk(cards[d])' /\ PhStanding(d)' /\ (PhHot(cards[d])' => PhHot(cards[d]))
  <2>1. cards[d].r \in Asks /\ cards[d] \in PhCards /\ PhCardOk(cards[d]) /\ PhStanding(d)
    BY PhCardTyped DEF PhInv
  <2>2. /\ cards'[d].r = cards[d].r /\ cards'[d].gen = cards[d].gen /\ cards'[d].st = cards[d].st
        /\ cards'[d].step = cards[d].step /\ cards'[d].answered = cards[d].answered
        /\ cards'[d].was = cards[d].was /\ cards'[d].gone = cards[d].gone /\ cards'[d].applied = cards[d].applied
    BY <2>1 DEF PhCards
  <2>3. PhCardOk(cards[d])'
    <3>1. cards[d].gen \in Nat /\ conns \in Nat /\ conns' \in Nat
      BY <2>1 DEF PhCards, PhInv, PhTyped
    <3>2. cards[d].gen <= conns'
      BY <2>1, <3>1 DEF PhCardOk
    <3> QED BY <2>1, <2>2, <3>2 DEF PhCardOk
  <2>4. PhHot(cards[d])' => PhHot(cards[d])
    BY DEF PhHot
  <2>5. PhStanding(d)'
    BY <2>1, <2>2, <2>4 DEF PhStanding
  <2> QED BY <2>2, <2>3, <2>4, <2>5
<1>2. \A q \in Asks : PhAskOk(ask[q])' /\ (seen'[q] # 0 => seen'[q] = seen[q])
  BY DEF PhInv, PhAskOk
<1> QED BY <1>1, <1>2, PhStep

\* Every card that waits for an answer is of an unknown end.
LEMMA PhUnknown ==
  ASSUME PhInv, cards' = Unknown(cards)
  PROVE  /\ cards' \in Seq(PhCards) /\ Len(cards') = Len(cards)
         /\ \A d \in CardNumbers :
              /\ cards'[d] = cards[d] \/ cards'[d] = [cards[d] EXCEPT !.unknown = TRUE]
              /\ ~PhOffered(cards[d])' /\ ~PhCarried(cards[d])'
              /\ PhOwed(cards[d])' => PhOwed(cards[d])
<1>1. cards \in Seq(PhCards) /\ Len(cards) \in Nat /\ DOMAIN cards = CardNumbers /\ CardNumbers = 1..Len(cards)
  BY DEF PhInv, PhTyped, CardNumbers
<1>2. cards' = [c \in CardNumbers |-> IF cards[c].st = "pending" THEN [cards[c] EXCEPT !.unknown = TRUE] ELSE cards[c]]
  BY <1>1 DEF Unknown
<1>3. ASSUME NEW d \in CardNumbers
      PROVE  /\ cards'[d] = IF cards[d].st = "pending" THEN [cards[d] EXCEPT !.unknown = TRUE] ELSE cards[d]
             /\ cards'[d] \in PhCards
  <2>1. cards[d] \in PhCards
    BY PhCardTyped
  <2>2. [cards[d] EXCEPT !.unknown = TRUE] \in PhCards
    BY <2>1 DEF PhCards
  <2> QED BY <1>2, <2>1, <2>2
<1>4. cards' \in [1..Len(cards) -> PhCards]
  BY <1>1, <1>2, <1>3
<1>5. cards' \in Seq(PhCards) /\ Len(cards') = Len(cards)
  <2> DEFINE n == Len(cards)
             R == PhCards
  <2> HIDE DEF n, R
  <2>1. \A f \in [1..n -> R] : n \in Nat => f \in Seq(R) /\ Len(f) = n
    OBVIOUS
  <2> QED BY <1>1, <1>4, <2>1 DEF n, R
<1>6. ASSUME NEW d \in CardNumbers
      PROVE  ~PhOffered(cards[d])' /\ ~PhCarried(cards[d])' /\ (PhOwed(cards[d])' => PhOwed(cards[d]))
  <2>1. cards[d] \in PhCards /\ PhCardOk(cards[d])
    BY PhCardTyped DEF PhInv
  <2>2. CASE cards[d].st = "pending"
    <3>1. /\ cards'[d].unknown = TRUE /\ cards'[d].st = "pending" /\ cards'[d].answered = cards[d].answered
          /\ cards'[d].step = cards[d].step /\ cards'[d].was = cards[d].was
      <4>1. cards'[d] = [cards[d] EXCEPT !.unknown = TRUE]
        BY <1>3, <2>2
      <4> QED BY <2>1, <2>2, <4>1 DEF PhCards
    <3> QED BY <2>2, <3>1 DEF PhOffered, PhCarried, PhOwed, PhLive
  <2>3. CASE cards[d].st # "pending"
    <3>1. cards'[d] = cards[d]
      BY <1>3, <2>3
    <3> QED BY <2>1, <2>3, <3>1 DEF PhOffered, PhCarried, PhOwed, PhLive, PhCardOk
  <2> QED BY <2>2, <2>3
<1> QED BY <1>3, <1>5, <1>6

----------------------------------------------------------------------------
\* Requests.
LEMMA PhRaise_Inv == ASSUME PhInv, NEW r \in Asks, Raise(r) PROVE PhInv'
<1>1. /\ ask[r].st = "none" /\ ask' = [ask EXCEPT ![r] = [ask[r] EXCEPT !.st = "waiting"]] /\ dirty' = (dirty \/ sub # 0)
      /\ UNCHANGED <<conn, conns, sub, seen, cards>>
  BY DEF Raise, Changed
<1>2. ask[r] \in PhAskRecords
  BY DEF PhInv, PhTyped
<1> DEFINE z == [ask[r] EXCEPT !.st = "waiting"]
<1>3. z \in PhAskRecords /\ z.st = "waiting" /\ z.passed = ask[r].passed
  BY <1>2 DEF PhAskRecords
<1> HIDE DEF z
<1>4. ask' = [ask EXCEPT ![r] = z]
  BY <1>1 DEF z
<1>5. ask'[r] = z /\ \A q \in Asks : q # r => ask'[q] = ask[q]
  BY <1>4 DEF PhInv, PhTyped
<1>6. PhTyped'
  BY <1>1, <1>3, <1>4 DEF PhInv, PhTyped
<1>7. ASSUME NEW d \in CardNumbers
      PROVE  cards'[d].r = cards[d].r /\ PhCardOk(cards[d])' /\ PhStanding(d)' /\ (PhHot(cards[d])' => PhHot(cards[d]))
  <2>1. cards[d].r \in Asks /\ PhCardOk(cards[d]) /\ PhStanding(d) /\ cards[d].r # r
    BY <1>1, PhCardTyped DEF PhInv, PhCardOk
  <2>2. ask'[cards[d].r] = ask[cards[d].r]
    BY <1>5, <2>1
  <2> QED BY <1>1, <2>1, <2>2, ZenonT(40) DEF PhStanding, PhCardOk, PhOffered, PhCarried, PhOwed, PhHot, PhLive
<1>8. \A q \in Asks : PhAskOk(ask[q])' /\ (seen'[q] # 0 => seen'[q] = seen[q])
  BY <1>1, <1>3, <1>5 DEF PhInv, PhAskOk
<1> QED BY <1>1, <1>6, <1>7, <1>8, PhStep

LEMMA PhOver ==
  ASSUME PhInv, NEW r \in Asks, ask[r].st = "waiting", NEW how \in {"late", "early", "timeout"}, NEW verdict,
         PhTimely(ask[r], how, verdict), NEW z, z = Over(ask[r], how, verdict)
  PROVE  PhEnded(z, ask[r])
<1>1. ask[r] \in PhAskRecords /\ ask[r].passed = 0
  BY DEF PhInv, PhTyped, PhAskOk
<1>2. PICK n \in {0, 1} : n = (IF verdict = "y" THEN 1 ELSE 0)
  OBVIOUS
<1>3. z = [ask[r] EXCEPT !.st = "over", !.how = how, !.passed = n]
  <2>1. CASE verdict = "y"
    BY <1>1, <1>2, <2>1 DEF Over
  <2>2. CASE verdict # "y"
    BY <1>1, <1>2, <2>2 DEF Over, PhAskRecords
  <2> QED BY <2>1, <2>2
<1>7. PICK rec \in PhAskRecords : rec = ask[r]
  BY <1>1
<1>8. z = [rec EXCEPT !.st = "over", !.how = how, !.passed = n]
  BY <1>3, <1>7
<1>9. n \in Nat
  BY <1>2
<1>10. z \in PhAskRecords
  BY <1>8, <1>9 DEF PhAskRecords
<1>4. z.st = "over" /\ z.how = how /\ z.passed = n
  BY <1>8 DEF PhAskRecords
<1>5. z.late = ask[r].late
  BY <1>7, <1>8 DEF PhAskRecords
<1>6. n <= 1 /\ (verdict # "y" => n = 0)
  BY <1>2
<1> QED BY <1>4, <1>5, <1>6, <1>10 DEF PhTimely, PhEnded

LEMMA PhAnswered_Inv ==
  ASSUME PhInv, NEW r \in Asks, WaitRunsOutAsk(r) \/ \E v \in {"y", "n"} : AnswerElsewhere(r, v)
  PROVE  PhInv'
<1>1. /\ ask[r].st = "waiting" /\ dirty' = (dirty \/ sub # 0) /\ UNCHANGED <<conn, conns, sub, seen, cards>>
  BY DEF WaitRunsOutAsk, AnswerElsewhere, Changed
<1>2. PICK how \in {"late", "early", "timeout"}, v \in {"y", "n"} :
         ask' = [ask EXCEPT ![r] = Over(ask[r], how, v)] /\ PhTimely(ask[r], how, v)
  <2>1. CASE WaitRunsOutAsk(r)
    BY <2>1 DEF WaitRunsOutAsk, PhTimely
  <2>2. ASSUME NEW v \in {"y", "n"}, AnswerElsewhere(r, v)
        PROVE  \E how \in {"late", "early", "timeout"} :
                 ask' = [ask EXCEPT ![r] = Over(ask[r], how, v)] /\ PhTimely(ask[r], how, v)
    <3>1. ask' = [ask EXCEPT ![r] = Over(ask[r], IF ask[r].late THEN "late" ELSE "early", v)]
      BY <2>2 DEF AnswerElsewhere
    <3>2. CASE ask[r].late
      BY <3>1, <3>2 DEF PhTimely, PhExcepted
    <3>3. CASE ~ask[r].late
      BY <3>1, <3>3 DEF PhTimely
    <3> QED BY <3>2, <3>3
  <2> QED BY <2>1, <2>2
<1>6. PICK z : z = Over(ask[r], how, v)
  OBVIOUS
<1>3. PhEnded(z, ask[r]) /\ z \in PhAskRecords
  BY <1>1, <1>2, <1>6, PhOver DEF PhEnded
<1>4. ask' = [ask EXCEPT ![r] = z]
  BY <1>2, <1>6
<1>5. cards' \in Seq(PhCards) /\ dirty' \in BOOLEAN
  BY <1>1 DEF PhInv, PhTyped
<1> QED BY <1>1, <1>3, <1>4, <1>5, PhEnds

\* The last seconds of a wait: an end the portal has learned lets nothing through
\* any more, and one that it has not is excepted.
LEMMA PhNearExpiry_Inv == ASSUME PhInv, NEW r \in Asks, NearExpiry(r) PROVE PhInv'
<1>1. /\ ask[r].st # "none" /\ ~ask[r].late
      /\ ask' = [ask EXCEPT ![r].late = TRUE, ![r].how = IF Unlearned(r) THEN "unlearned" ELSE @]
      /\ UNCHANGED <<conn, conns, sub, dirty, seen, cards>>
  BY DEF NearExpiry, deviceSide
<1>2. ask[r] \in PhAskRecords
  BY DEF PhInv, PhTyped
<1>3. PICK h : h = IF Unlearned(r) THEN "unlearned" ELSE ask[r].how
  OBVIOUS
<1>9. PICK z : z = [ask[r] EXCEPT !.late = TRUE, !.how = h]
  OBVIOUS
<1>4. ask' = [ask EXCEPT ![r] = z]
  BY <1>1, <1>3, <1>9
<1>10. z \in PhAskRecords /\ z.st = ask[r].st /\ z.passed = ask[r].passed /\ z.late
  BY <1>2, <1>3, <1>9 DEF PhAskRecords
<1>11. z.how = h /\ (ask[r].how \in PhExcepted => h \in PhExcepted)
  BY <1>2, <1>3, <1>9 DEF PhAskRecords, PhExcepted
<1>12. h \in PhExcepted \/ ~Unlearned(r)
  BY <1>3 DEF PhExcepted
<1>5. ask'[r] = z /\ \A q \in Asks : q # r => ask'[q] = ask[q]
  BY <1>4 DEF PhInv, PhTyped
<1>6. PhTyped'
  BY <1>1, <1>4, <1>10 DEF PhInv, PhTyped
<1>7. ASSUME NEW d \in CardNumbers
      PROVE  cards'[d].r = cards[d].r /\ PhCardOk(cards[d])' /\ PhStanding(d)' /\ (PhHot(cards[d])' => PhHot(cards[d]))
  <2>1. cards[d].r \in Asks /\ d # 0 /\ PhCardOk(cards[d]) /\ PhStanding(d)
    BY PhCardTyped DEF PhInv
  <2>2. /\ PhOffered(cards[d])' = PhOffered(cards[d]) /\ PhCarried(cards[d])' = PhCarried(cards[d])
        /\ PhOwed(cards[d])' = PhOwed(cards[d]) /\ PhHot(cards[d])' = PhHot(cards[d])
    BY <1>1 DEF PhOffered, PhCarried, PhOwed, PhHot, PhLive
  <2>3. CASE cards[d].r # r
    <3>1. ask'[cards[d].r] = ask[cards[d].r]
      BY <1>5, <2>1, <2>3
    <3> QED BY <1>1, <2>1, <2>2, <3>1, ZenonT(40) DEF PhStanding, PhCardOk
  <2>4. CASE cards[d].r = r
    <3>1. ~PhOwed(cards[d])
      BY <1>1, <2>1, <2>4 DEF PhStanding
    <3>2. d \in DOMAIN cards
      BY DEF PhInv, PhTyped, CardNumbers
    <3>3. CASE Unlearned(r)
      <4>1. z.how \in PhExcepted
        BY <1>11, <1>12, <3>3
      <4> QED BY <1>1, <1>5, <1>10, <2>1, <2>2, <2>4, <3>1, <4>1 DEF PhStanding, PhCardOk
    <3>4. CASE ~Unlearned(r)
      <4>1. ask[r].st = "over" => ~PhCarried(cards[d])
        BY <2>4, <3>2, <3>4 DEF Unlearned, PhCarried
      <4>2. ask[r].st = "over" => ~PhOffered(cards[d])
        BY <2>1, <2>4, <3>4 DEF Unlearned, PhStanding, PhOffered, PhLive
      <4>3. PhStanding(d)'
        BY <1>1, <1>5, <1>10, <2>1, <2>2, <2>4, <3>1, <4>1, <4>2 DEF PhStanding, PhHot
      <4>4. PhCardOk(cards[d])'
        BY <1>1, <1>5, <1>10, <2>1, <2>4 DEF PhCardOk
      <4> QED BY <1>1, <2>2, <4>3, <4>4
    <3> QED BY <3>3, <3>4
  <2> QED BY <2>3, <2>4
<1>8. \A q \in Asks : PhAskOk(ask[q])' /\ (seen'[q] # 0 => seen'[q] = seen[q])
  BY <1>1, <1>5, <1>10, <1>11 DEF PhInv, PhAskOk
<1> QED BY <1>1, <1>6, <1>7, <1>8, PhStep

----------------------------------------------------------------------------
\* Watches and links.
LEMMA PhLinks_Inv ==
  ASSUME PhInv,
         WatchDials \/ ConnectionDies \/ WatchNotices \/ StateDone \/ LinkComesUp \/ LinkLost \/ \E p \in Phones : Designate(p)
  PROVE  PhInv'
<1>0. /\ cards \in Seq(PhCards) /\ conn \in 0..conns /\ sub \in 0..conns /\ conns \in Nat /\ dirty \in BOOLEAN
      /\ seen \in [Asks -> 0..Len(cards)] /\ ask \in [Asks -> PhAskRecords] /\ Len(cards) \in Nat
  BY DEF PhInv, PhTyped
<1>9. \A d \in CardNumbers : cards[d].r \in Asks /\ d # 0 /\ PhStanding(d) /\ PhCardOk(cards[d])
  BY PhCardTyped DEF PhInv
<1>1. CASE WatchDials
  <2>1. /\ sub = 0 /\ UNCHANGED <<ask, seen, cards>> /\ dirty' = FALSE /\ conns <= conns'
        /\ \/ conn # 0 /\ sub' = conn /\ UNCHANGED <<conn, conns>>
           \/ conn = 0 /\ conns' = conns + 1 /\ conn' = conns + 1 /\ sub' = conns + 1
    BY <1>0, <1>1 DEF WatchDials
  <2>2. PhTyped'
    <3>1. conn' \in 0..conns' /\ sub' \in 0..conns' /\ conns' \in Nat
      BY <1>0, <2>1
    <3> QED BY <1>0, <2>1, <3>1 DEF PhTyped
  <2>3. ASSUME NEW d \in CardNumbers
        PROVE  ~PhOffered(cards[d])' /\ (PhCarried(cards[d])' => PhCarried(cards[d])) /\ (PhOwed(cards[d])' => PhOwed(cards[d]))
    <3>1. ~PhOffered(cards[d])
      BY <1>9, <2>1 DEF PhStanding, PhOffered, PhLive
    <3>2. PhLive(cards[d])' => PhLive(cards[d])
      <4>1. cards[d].gen # conns + 1
        BY <1>0, <1>9, PhCardTyped DEF PhCardOk, PhCards
      <4> QED BY <2>1, <4>1 DEF PhLive
    <3> QED BY <2>1, <3>1, <3>2 DEF PhOffered, PhCarried, PhOwed
  <2> QED BY <2>1, <2>2, <2>3, PhWatch
<1>2. CASE ConnectionDies
  <2>1. conn' = 0 /\ UNCHANGED <<ask, conns, sub, dirty, seen, cards>>
    BY <1>2 DEF ConnectionDies
  <2>2. PhTyped'
    BY <1>0, <2>1 DEF PhTyped
  <2>3. \A d \in CardNumbers : ~PhOffered(cards[d])' /\ ~PhCarried(cards[d])' /\ (PhOwed(cards[d])' => PhOwed(cards[d]))
    BY <2>1 DEF PhOffered, PhCarried, PhOwed, PhLive
  <2> QED BY <1>0, <2>1, <2>2, <2>3, PhWatch
<1>3. CASE WatchNotices \/ LinkLost \/ \E p \in Phones : Designate(p)
  <2>1. /\ cards' = Unknown(cards) /\ UNCHANGED <<ask, conns>> /\ dirty' = FALSE /\ sub' = 0
        /\ conn' \in {conn, 0} /\ (seen' = seen \/ seen' = [r \in Asks |-> 0])
    BY <1>3 DEF WatchNotices, LinkLost, Designate, Teardown
  <2>2. /\ cards' \in Seq(PhCards) /\ Len(cards') = Len(cards)
        /\ \A d \in CardNumbers :
             /\ cards'[d] = cards[d] \/ cards'[d] = [cards[d] EXCEPT !.unknown = TRUE]
             /\ ~PhOffered(cards[d])' /\ ~PhCarried(cards[d])'
             /\ PhOwed(cards[d])' => PhOwed(cards[d])
    BY <2>1, PhUnknown
  <2>3. PhTyped' /\ \A r \in Asks : seen'[r] = seen[r] \/ seen'[r] = 0
    <3>1. conn' \in 0..conns /\ sub' \in 0..conns
      BY <1>0, <2>1
    <3>2. seen' \in [Asks -> 0..Len(cards)] /\ \A r \in Asks : seen'[r] = seen[r] \/ seen'[r] = 0
      BY <1>0, <2>1
    <3> QED BY <1>0, <2>1, <2>2, <3>1, <3>2 DEF PhTyped
  <2> QED BY <1>0, <2>1, <2>2, <2>3, PhWatch
<1>4. CASE StateDone
  <2>1. /\ dirty' = FALSE /\ UNCHANGED <<ask, conn, conns, sub, seen, cards>>
        /\ \A r \in Asks : ask[r].st = "over" => seen[r] = 0
    BY <1>4 DEF StateDone
  <2>2. PhTyped'
    BY <1>0, <2>1 DEF PhTyped
  <2>3. ASSUME NEW d \in CardNumbers
        PROVE  /\ PhOffered(cards[d])' = PhOffered(cards[d]) /\ PhCarried(cards[d])' = PhCarried(cards[d])
               /\ PhOwed(cards[d])' = PhOwed(cards[d])
               /\ PhOffered(cards[d]) => sub = conn /\ ask[cards[d].r].st # "over"
    <3>1. PhOffered(cards[d]) => sub = conn /\ ask[cards[d].r].st # "over"
      BY <1>9, <2>1 DEF PhStanding
    <3> QED BY <2>1, <3>1 DEF PhOffered, PhCarried, PhOwed, PhLive
  <2> QED BY <1>0, <2>1, <2>2, <2>3, PhWatch
<1>5. CASE LinkComesUp
  <2>1. UNCHANGED <<ask, conn, conns, sub, dirty, seen, cards>>
    BY <1>5 DEF LinkComesUp, deviceSide
  <2> QED BY <2>1 DEF PhInv, PhTyped, PhStanding, PhAskOk, PhCardOk, PhHot, PhOffered, PhCarried, PhOwed, PhLive, CardNumbers
<1> QED BY <1>1, <1>2, <1>3, <1>4, <1>5

----------------------------------------------------------------------------
\* Cards.
LEMMA PhForget_Inv == ASSUME PhInv, NEW c \in CardNumbers, ForgetCard(c) \/ \E v \in {"y", "n"} : Tap(c, v) PROVE PhInv'
<1>1. PICK k \in BOOLEAN, t \in BOOLEAN :
         /\ cards' = [cards EXCEPT ![c] = [cards[c] EXCEPT !.kept = k, !.tapped = t]]
         /\ k => cards[c].kept
  <2>0. PICK card \in PhCards : card = cards[c]
    BY PhCardTyped
  <2>1. CASE ForgetCard(c)
    <3>1. cards' = [cards EXCEPT ![c] = [card EXCEPT !.kept = FALSE]]
      BY <2>0, <2>1 DEF ForgetCard
    <3>2. [card EXCEPT !.kept = FALSE] = [card EXCEPT !.kept = FALSE, !.tapped = card.tapped] /\ card.tapped \in BOOLEAN
      BY DEF PhCards
    <3> QED BY <2>0, <3>1, <3>2
  <2>2. CASE \E v \in {"y", "n"} : Tap(c, v)
    <3>1. cards' = [cards EXCEPT ![c] = [card EXCEPT !.tapped = TRUE]]
      BY <2>0, <2>2 DEF Tap
    <3>2. [card EXCEPT !.tapped = TRUE] = [card EXCEPT !.kept = card.kept, !.tapped = TRUE] /\ card.kept \in BOOLEAN
      BY DEF PhCards
    <3> QED BY <2>0, <3>1, <3>2
  <2> QED BY <2>1, <2>2
<1>2. UNCHANGED <<ask, conn, conns, sub, dirty, seen>>
  BY DEF ForgetCard, Tap, deviceSide
<1>0. PICK card \in PhCards : card = cards[c]
  BY PhCardTyped
<1>3. PICK z : z = [card EXCEPT !.kept = k, !.tapped = t]
  OBVIOUS
<1>4. /\ z \in PhCards /\ z.r = card.r /\ z.gen = card.gen /\ z.st = card.st /\ z.step = card.step /\ z.was = card.was
      /\ z.gone = card.gone /\ z.applied = card.applied
  BY <1>3 DEF PhCards
<1>5. z.answered = card.answered /\ z.unknown = card.unknown /\ z.kept = k
  BY <1>3 DEF PhCards
<1>6. PhCardOk(card)
  BY <1>0 DEF PhInv
<1>7. PhCardOk(z)
  BY <1>4, <1>5, <1>6 DEF PhCardOk
<1>8. (PhOffered(z) => PhOffered(card)) /\ (PhCarried(z) => PhCarried(card)) /\ (PhOwed(z) => PhOwed(card))
  BY <1>0, <1>1, <1>4, <1>5 DEF PhOffered, PhCarried, PhOwed, PhLive
<1>9. cards' = [cards EXCEPT ![c] = z] /\ seen' \in [Asks -> 0..Len(cards)]
  BY <1>0, <1>1, <1>2, <1>3 DEF PhInv, PhTyped
<1> QED BY <1>0, <1>2, <1>4, <1>7, <1>8, <1>9, PhOneCard

\* handleReply claims the decision for its card, or finds it claimed.
LEMMA PhReply_Inv == ASSUME PhInv, PhSent, NEW m \in inFlight, HandleReply(m) PROVE PhInv'
<1>1. UNCHANGED <<ask, conn, conns, sub, dirty, seen>>
  BY DEF HandleReply, deviceSide
<1>2. \/ UNCHANGED cards
      \/ /\ cards[m.c].kept /\ ~cards[m.c].answered /\ cards[m.c].step = "none"
         /\ cards' = [cards EXCEPT ![m.c] = [cards[m.c] EXCEPT !.answered = TRUE, !.step = "apply",
                                                              !.verdict = m.v, !.was = cards[m.c].st]]
  BY DEF HandleReply, AlreadyAnswered
<1>3. CASE UNCHANGED cards
  BY <1>1, <1>3 DEF PhInv, PhTyped, PhStanding, PhAskOk, PhCardOk, PhHot, PhOffered, PhCarried, PhOwed, PhLive, CardNumbers
<1>4. CASE m.c \notin CardNumbers
  <2>1. cards = [d \in CardNumbers |-> cards[d]]
    BY DEF PhInv, PhTyped, CardNumbers
  <2>2. PICK y : UNCHANGED cards \/ cards' = [cards EXCEPT ![m.c] = y]
    BY <1>2
  <2>3. CASE cards' = [cards EXCEPT ![m.c] = y]
    <3>1. DOMAIN cards = CardNumbers
      BY <2>1
    <3>2. cards' = [d \in CardNumbers |-> IF d = m.c THEN y ELSE cards[d]]
      BY <2>3, <3>1
    <3>3. cards' = [d \in CardNumbers |-> cards[d]]
      BY <1>4, <3>2
    <3> QED BY <1>3, <2>1, <3>3
  <2> QED BY <1>3, <2>2, <2>3
<1>5. CASE m.c \in CardNumbers /\ ~UNCHANGED cards
  <2>0. PICK card \in PhCards : card = cards[m.c]
    BY <1>5, PhCardTyped
  <2>1. PICK z : z = [card EXCEPT !.answered = TRUE, !.step = "apply", !.verdict = m.v, !.was = card.st]
    OBVIOUS
  <2>2. m.v \in {"y", "n"}
    BY DEF PhSent
  <2>3. /\ z \in PhCards /\ z.r = card.r /\ z.gen = card.gen /\ z.st = card.st /\ z.step = "apply" /\ z.was = card.st
        /\ z.gone = card.gone /\ z.applied = card.applied
    BY <2>1, <2>2 DEF PhCards
  <2>4. z.answered /\ z.unknown = card.unknown
    BY <2>1 DEF PhCards
  <2>5. cards' = [cards EXCEPT ![m.c] = z] /\ card.kept /\ ~card.answered /\ card.step = "none"
    BY <1>2, <1>5, <2>0, <2>1
  <2>6. PhCardOk(card)
    BY <1>5, <2>0 DEF PhInv
  <2>7. PhCardOk(z) /\ card.st # "done"
    BY <2>3, <2>4, <2>5, <2>6 DEF PhCardOk
  <2>8. ~PhOffered(z) /\ (PhCarried(z) => PhOffered(card)) /\ (PhOwed(z) => PhOwed(card))
    <3>1. card.st \in {"pending", "expired"}
      BY <2>7 DEF PhCards
    <3> QED BY <2>3, <2>4, <2>5, <3>1 DEF PhOffered, PhCarried, PhOwed, PhLive
  <2>9. seen' \in [Asks -> 0..Len(cards)]
    BY <1>1 DEF PhInv, PhTyped
  <2> QED BY <1>1, <1>5, <2>0, <2>3, <2>5, <2>7, <2>8, <2>9, PhOneCard
<1> QED BY <1>3, <1>4, <1>5

\* A decision that finds its request gone, or no way to the device, or that was
\* made on an expired card; and the end of one.
LEMMA PhExpired_Inv == ASSUME PhInv, NEW c \in CardNumbers, ApplyExpired(c) \/ Confirm(c) PROVE PhInv'
<1>0. PICK card \in PhCards : card = cards[c]
  BY PhCardTyped
<1>1. UNCHANGED <<ask, conn, conns, sub, dirty, seen>>
  BY DEF ApplyExpired, Confirm, deviceSide
<1>2. PICK step \in {"none", "grant", "confirm"}, st \in {card.st, "done"} :
         /\ cards' = [cards EXCEPT ![c] = [card EXCEPT !.step = step, !.st = st]]
         /\ step = "grant" => card.step = "apply" /\ card.was # "pending"
         /\ step # "none" => card.step = "apply" /\ st = card.st
         /\ step = "none" => st = "done"
         /\ card.step # "none"
  <2>1. CASE Confirm(c)
    BY <1>0, <2>1 DEF Confirm
  <2>2. CASE ApplyExpired(c)
    <3>1. /\ card.step = "apply"
          /\ \/ card.was # "pending" /\ cards' = [cards EXCEPT ![c] = [card EXCEPT !.step = "grant"]]
             \/ cards' = [cards EXCEPT ![c] = [card EXCEPT !.step = "confirm"]]
      BY <1>0, <2>2 DEF ApplyExpired
    <3>2. \A s : [card EXCEPT !.step = s] = [card EXCEPT !.step = s, !.st = card.st]
      BY DEF PhCards
    <3> QED BY <3>1, <3>2
  <2> QED BY <2>1, <2>2
<1>3. PICK z : z = [card EXCEPT !.step = step, !.st = st]
  OBVIOUS
<1>4. st \in {"pending", "done", "expired"}
  BY DEF PhCards
<1>5. /\ z \in PhCards /\ z.r = card.r /\ z.gen = card.gen /\ z.st = st /\ z.step = step /\ z.was = card.was
      /\ z.gone = card.gone /\ z.applied = card.applied
  BY <1>3, <1>4 DEF PhCards
<1>6. z.answered = card.answered /\ z.unknown = card.unknown
  BY <1>3 DEF PhCards
<1>7. PhCardOk(card)
  BY <1>0 DEF PhInv
<1>8. PhCardOk(z) /\ card.answered
  BY <1>2, <1>5, <1>6, <1>7 DEF PhCardOk
<1>9. ~PhOffered(z) /\ ~PhCarried(z) /\ (PhOwed(z) => PhOwed(card))
  BY <1>2, <1>5, <1>6, <1>8 DEF PhOffered, PhCarried, PhOwed, PhLive
<1>10. cards' = [cards EXCEPT ![c] = z] /\ seen' \in [Asks -> 0..Len(cards)]
  BY <1>1, <1>2, <1>3 DEF PhInv, PhTyped
<1> QED BY <1>0, <1>1, <1>5, <1>8, <1>9, <1>10, PhOneCard

\* A request that is gone settles its card.
LEMMA PhSettle_Inv == ASSUME PhInv, NEW r \in Asks, SettleCard(r) PROVE PhInv'
<1> DEFINE c == seen[r]
<1>1. c \in CardNumbers /\ cards[c].r = r
  BY DEF SettleCard, PhInv, PhTyped, CardNumbers
<1>2. UNCHANGED <<ask, conn, conns, sub, dirty>> /\ seen' = [seen EXCEPT ![r] = 0] /\ ask[r].st = "over"
  BY DEF SettleCard
<1>3. PICK card \in PhCards : card = cards[c]
  BY <1>1, PhCardTyped
<1>4. PICK observed : observed = IF Current(card, sub) THEN [card EXCEPT !.gone = Now(r)] ELSE [card EXCEPT !.unknown = TRUE]
  OBVIOUS
<1>5. PICK ended : ended = IF AnsweredElsewhere(observed) THEN [observed EXCEPT !.st = "done", !.answered = TRUE]
                                                         ELSE [observed EXCEPT !.st = "expired"]
  OBVIOUS
<1>6. \/ (card.answered \/ card.st # "pending" \/ ~card.kept) /\ UNCHANGED cards
      \/ ~card.answered /\ card.st = "pending" /\ card.kept /\ cards' = [cards EXCEPT ![c] = ended]
  BY <1>3, <1>4, <1>5 DEF SettleCard
<1>7. /\ seen' \in [Asks -> 0..Len(cards)]
      /\ \A q \in Asks : seen'[q] # seen[q] => q = r /\ seen'[q] = 0
  BY <1>2 DEF PhInv, PhTyped
<1>8. PhCardOk(card) /\ card.r = r
  BY <1>1, <1>3 DEF PhInv
<1>9. CASE (card.answered \/ card.st # "pending" \/ ~card.kept) /\ UNCHANGED cards
  <2>1. ~PhOffered(card)
    BY <1>9 DEF PhOffered
  <2>2. cards' = [cards EXCEPT ![c] = card]
    BY <1>1, <1>3, <1>9 DEF PhInv, PhTyped, CardNumbers
  <2> HIDE DEF c
  <2>3. \A q \in Asks : seen'[q] # seen[q] => seen'[q] = 0 /\ ask[q].st = "over" /\ seen[q] = c /\ ~PhOffered(card)
    BY <1>2, <1>7, <2>1 DEF c
  <2> QED BY <1>1, <1>2, <1>3, <1>7, <1>8, <2>1, <2>2, <2>3, PhOneCard
<1>10. CASE ~card.answered /\ card.st = "pending" /\ card.kept /\ cards' = [cards EXCEPT ![c] = ended]
  <2>1. card.step = "none" /\ card.applied = 0 /\ card.gone = "no"
    BY <1>8, <1>10 DEF PhCardOk, PhCards
  <2>2. /\ observed \in PhCards /\ observed.r = r /\ observed.gen = card.gen /\ observed.step = "none"
        /\ observed.applied = 0 /\ observed.was = card.was
    BY <1>3, <1>4, <1>8, <2>1 DEF PhCards, Now
  <2>3. ~observed.answered
    BY <1>4, <1>10 DEF PhCards
  <2>4. /\ ended \in PhCards /\ ended.r = r /\ ended.gen = card.gen /\ ended.step = "none" /\ ended.applied = 0
        /\ ended.was = card.was /\ ended.st \in {"done", "expired"}
    BY <1>5, <2>2 DEF PhCards
  <2>5. ended.st = "done" => ended.answered
    BY <1>5, <2>2 DEF PhCards
  <2>6. PhCardOk(ended)
    BY <1>2, <1>8, <2>4, <2>5 DEF PhCardOk
  <2>7. ~PhOffered(ended) /\ ~PhCarried(ended)
    BY <2>4 DEF PhOffered, PhCarried
  <2>8. PhOwed(ended) => PhHot(card) /\ ask[r].late
    <3>1. SUFFICES ASSUME PhOwed(ended) PROVE PhHot(card) /\ ask[r].late
      OBVIOUS
    <3>2. ended.st = "expired"
      BY <2>4, <3>1 DEF PhOwed
    <3>3. ~AnsweredElsewhere(observed)
      BY <1>5, <2>2, <3>2 DEF PhCards
    <3>4. ~observed.unknown /\ observed.gone \notin {"no", "early"}
      BY <3>3 DEF AnsweredElsewhere
    <3>5. Current(card, sub)
      BY <1>4, <3>4 DEF PhCards
    <3>6. observed = [card EXCEPT !.gone = Now(r)]
      BY <1>4, <3>5
    <3>7. ~card.unknown /\ Now(r) # "early"
      BY <3>4, <3>6 DEF PhCards
    <3>8. ask[r].late
      BY <3>7 DEF Now
    <3>9. PhOffered(card)
      BY <1>10, <3>5, <3>7 DEF PhOffered, PhLive, Current
    <3> QED BY <3>8, <3>9 DEF PhHot
  <2> HIDE DEF c
  <2>9. \A q \in Asks : seen'[q] # seen[q] => seen'[q] = 0 /\ ask[q].st = "over" /\ seen[q] = c /\ ~PhOffered(ended)
    BY <1>2, <1>7, <2>7 DEF c
  <2>10. /\ PhOffered(ended) => PhOffered(cards[c])
         /\ PhCarried(ended) => PhCarried(cards[c]) \/ PhOffered(cards[c])
         /\ PhOwed(ended) => PhHot(cards[c]) /\ ask[ended.r].st = "over" /\ ask[ended.r].late
         /\ ended.r = cards[c].r
    BY <1>1, <1>2, <1>3, <2>4, <2>7, <2>8
  <2> QED BY <1>1, <1>2, <1>7, <1>10, <2>4, <2>6, <2>9, <2>10, PhOneCard
<1> QED BY <1>6, <1>9, <1>10

\* apply: the decision is carried out on a request that waits; one that is gone
\* is judged.
LEMMA PhDecide_Inv == ASSUME PhInv, NEW c \in CardNumbers, ApplyDecision(c) PROVE PhInv'
<1>0. PICK card \in PhCards : card = cards[c]
  BY PhCardTyped
<1>1. PICK r \in Asks : r = card.r
  BY <1>0, PhCardTyped
<1>2. /\ card.step = "apply" /\ card.was = "pending" /\ conn # 0
      /\ UNCHANGED <<conn, conns, sub, seen>>
  BY <1>0 DEF ApplyDecision
<1>3. PhCardOk(card)
  BY <1>0 DEF PhInv
<1>4. card.answered /\ card.st = "pending" /\ card.gone = "no" /\ card.applied = 0 /\ ask[r].st # "none"
  BY <1>1, <1>2, <1>3 DEF PhCardOk
<1>5. CASE ask[r].st = "waiting"
  <2>1. PICK z : z = Over(ask[r], Now(r), card.verdict)
    OBVIOUS
  <2>2. PhTimely(ask[r], Now(r), card.verdict) /\ Now(r) \in {"late", "early", "timeout"}
    BY DEF PhTimely, PhExcepted, Now
  <2>3. PhEnded(z, ask[r]) /\ z \in PhAskRecords
    BY <1>5, <2>1, <2>2, PhOver DEF PhEnded
  <2>4. PICK y : y = [card EXCEPT !.step = "confirm", !.applied = 1]
    OBVIOUS
  <2>5. /\ ask' = [ask EXCEPT ![r] = z] /\ dirty' = (dirty \/ sub # 0)
        /\ cards' = [cards EXCEPT ![c] = y]
    <3>1. y = [card EXCEPT !.step = "confirm", !.applied = @ + 1]
      BY <1>4, <2>4
    <3> QED BY <1>0, <1>1, <1>5, <2>1, <3>1 DEF ApplyDecision, Changed
  <2>6. /\ y \in PhCards /\ y.r = r /\ y.gen = card.gen /\ y.st = "pending" /\ y.step = "confirm" /\ y.applied = 1
        /\ y.gone = "no"
    BY <1>1, <1>4, <2>4 DEF PhCards
  <2>7. y.answered
    BY <1>4, <2>4 DEF PhCards
  <2>8. ~PhHot(y) /\ PhCardOk(y)
    BY <1>1, <1>3, <2>6, <2>7 DEF PhHot, PhOffered, PhCarried, PhOwed, PhCardOk
  <2>9. /\ cards' \in Seq(PhCards) /\ Len(cards') = Len(cards) /\ cards'[c] = y
        /\ \A d \in CardNumbers : d # c => cards'[d] = cards[d]
    BY <2>5, <2>6, PhReplaced
  <2>10. \A d \in CardNumbers : \/ cards'[d] = cards[d]
                                \/ ~PhHot(cards'[d]) /\ PhCardOk(cards'[d]) /\ cards'[d].r = cards[d].r
    BY <1>0, <1>1, <2>6, <2>8, <2>9
  <2>11. dirty' \in BOOLEAN
    BY <2>5 DEF PhInv, PhTyped
  <2> QED BY <1>2, <1>5, <2>3, <2>5, <2>9, <2>10, <2>11, PhEnds
<1>6. CASE ask[r].st # "waiting"
  <2>1. ask[r].st = "over"
    <3>1. ask[r] \in PhAskRecords
      BY DEF PhInv, PhTyped
    <3> QED BY <1>4, <1>6, <3>1 DEF PhAskRecords
  <2>2. PICK unk \in BOOLEAN : unk = (card.unknown \/ ~Current(card, conn))
    BY DEF PhCards
  <2>3. PICK gone \in {"no", "early", "late"} : gone = IF ~unk THEN Now(r) ELSE "no"
    BY DEF Now
  <2>4. PICK judged : judged = [card EXCEPT !.unknown = unk, !.gone = gone]
    OBVIOUS
  <2>5. PICK step \in {"confirm", "grant"} : step = IF AnsweredElsewhere(judged) \/ card.verdict # "y" THEN "confirm" ELSE "grant"
    OBVIOUS
  <2>6. PICK z : z = [judged EXCEPT !.step = step]
    OBVIOUS
  <2>7. judged = [card EXCEPT !.unknown = card.unknown \/ ~Current(card, conn),
                              !.gone = IF ~(card.unknown \/ ~Current(card, conn)) /\ @ = "no" THEN Now(r) ELSE @]
    BY <1>4, <2>2, <2>3, <2>4
  <2>8. cards' = [cards EXCEPT ![c] = z] /\ UNCHANGED <<ask, dirty>>
    BY <1>0, <1>1, <1>6, <2>5, <2>6, <2>7 DEF ApplyDecision
  <2>9. /\ z \in PhCards /\ z.r = r /\ z.gen = card.gen /\ z.st = "pending" /\ z.step = step /\ z.applied = 0
        /\ z.gone = gone /\ z.was = "pending"
    BY <1>1, <1>2, <1>4, <2>4, <2>6 DEF PhCards
  <2>10. z.answered /\ z.unknown = unk
    BY <1>4, <2>4, <2>6 DEF PhCards
  <2>11. PhCardOk(z)
    BY <1>1, <1>3, <2>9, <2>10 DEF PhCardOk
  <2>12. ~PhOffered(z) /\ ~PhCarried(z)
    BY <2>9, <2>10 DEF PhOffered, PhCarried
  <2>13. PhOwed(z) => PhHot(card) /\ ask[r].late
    <3>1. PhOwed(z) => ~unk /\ gone = "late"
      BY <2>9, <2>10 DEF PhOwed
    <3>2. ~unk => PhCarried(card)
      BY <1>2, <2>2 DEF PhCarried, PhLive, Current
    <3>3. ~unk /\ gone = "late" => ask[r].late
      BY <2>3 DEF Now
    <3> QED BY <3>1, <3>2, <3>3 DEF PhHot
  <2>14. seen' \in [Asks -> 0..Len(cards)] /\ \A q \in Asks : seen'[q] = seen[q]
    BY <1>2 DEF PhInv, PhTyped
  <2> QED BY <1>0, <1>1, <1>2, <2>1, <2>8, <2>9, <2>11, <2>12, <2>13, <2>14, PhOneCard
<1> QED BY <1>5, <1>6

\* grantOnce: at most once, and not for a request that was let through in time.
LEMMA PhGrant_Inv == ASSUME PhInv, NEW c \in CardNumbers, GrantLate(c) PROVE PhInv'
<1>0. PICK card \in PhCards : card = cards[c]
  BY PhCardTyped
<1>1. PICK r \in Asks : r = card.r
  BY <1>0, PhCardTyped
<1>2. card.step = "grant" /\ UNCHANGED <<conn, conns, sub, dirty, seen>>
  BY <1>0 DEF GrantLate, deviceSide
<1>3. PhCardOk(card) /\ PhStanding(c) /\ ask[r] \in PhAskRecords
  BY <1>0 DEF PhInv, PhTyped
<1>4. card.answered /\ card.applied = 0
  BY <1>2, <1>3 DEF PhCardOk
<1>5. PICK stands \in BOOLEAN : stands = (~AnsweredElsewhere(card) /\ (card.was # "pending" \/ Current(card, conn)))
  OBVIOUS
<1>6. PICK n \in {0, 1} : n = IF stands THEN 1 ELSE 0
  OBVIOUS
<1>7. PICK y : y = [card EXCEPT !.step = "confirm", !.applied = n]
  OBVIOUS
<1>8. cards' = [cards EXCEPT ![c] = y]
  <2>1. y = [card EXCEPT !.step = "confirm", !.applied = IF stands THEN @ + 1 ELSE @]
    BY <1>4, <1>6, <1>7
  <2> QED BY <1>0, <1>5, <2>1 DEF GrantLate
<1>9. ask' = IF stands THEN [ask EXCEPT ![r].passed = @ + 1] ELSE ask
  BY <1>0, <1>1, <1>5 DEF GrantLate
<1>10. /\ y \in PhCards /\ y.r = card.r /\ y.gen = card.gen /\ y.st = card.st /\ y.step = "confirm" /\ y.applied = n
       /\ y.gone = card.gone /\ y.was = card.was
  BY <1>6, <1>7 DEF PhCards
<1>11. y.answered
  BY <1>4, <1>7 DEF PhCards
<1>12. ~PhHot(y) /\ PhCardOk(y)
  BY <1>2, <1>3, <1>4, <1>6, <1>10, <1>11 DEF PhHot, PhOffered, PhCarried, PhOwed, PhCardOk
<1>13. CASE ~stands
  <2>1. UNCHANGED ask /\ seen' \in [Asks -> 0..Len(cards)]
    BY <1>2, <1>9, <1>13 DEF PhInv, PhTyped
  <2>2. ~PhOffered(y) /\ ~PhCarried(y) /\ ~PhOwed(y)
    BY <1>12 DEF PhHot
  <2> QED BY <1>0, <1>2, <1>8, <1>10, <1>12, <2>1, <2>2, PhOneCard
<1>14. CASE stands
  <2>1. /\ cards' \in Seq(PhCards) /\ Len(cards') = Len(cards) /\ cards'[c] = y
        /\ \A d \in CardNumbers : d # c => cards'[d] = cards[d]
    BY <1>8, <1>10, PhReplaced
  <2>2. ~card.unknown /\ card.gone = "late" /\ (card.was = "pending" => PhLive(card))
    <3>1. card.gone \in {"no", "early", "late"}
      BY DEF PhCards
    <3> QED BY <1>5, <1>14, <3>1 DEF AnsweredElsewhere, PhLive, Current
  <2>3. PhOwed(card) /\ PhHot(card)
    BY <1>2, <2>2 DEF PhOwed, PhHot
  <2>4. ask[r].st = "over" /\ ask[r].late /\ (ask[r].how \in PhExcepted \/ ask[r].passed = 0)
    BY <1>0, <1>1, <1>3, <2>3 DEF PhStanding
  <2>5. PICK rec \in PhAskRecords : rec = ask[r]
    BY <1>3
  <2>6. PICK z : z = [rec EXCEPT !.passed = rec.passed + 1]
    OBVIOUS
  <2>7. ask' = [ask EXCEPT ![r] = z]
    BY <1>9, <1>14, <2>5, <2>6
  <2>8. z \in PhAskRecords /\ z.st = "over" /\ (z.how \in PhExcepted \/ z.passed = 1)
    BY <2>4, <2>5, <2>6 DEF PhAskRecords
  <2>9. ask'[r] = z /\ \A q \in Asks : q # r => ask'[q] = ask[q]
    BY <2>7 DEF PhInv, PhTyped
  <2>10. PhTyped'
    BY <1>2, <2>1, <2>7, <2>8 DEF PhInv, PhTyped
  <2>11. \A x : /\ PhOffered(x)' = PhOffered(x) /\ PhCarried(x)' = PhCarried(x)
                /\ PhOwed(x)' = PhOwed(x) /\ PhHot(x)' = PhHot(x)
    BY <1>2 DEF PhOffered, PhCarried, PhOwed, PhHot, PhLive
  <2>12. ASSUME NEW d \in CardNumbers
         PROVE  cards'[d].r = cards[d].r /\ PhCardOk(cards[d])' /\ PhStanding(d)' /\ (PhHot(cards[d])' => PhHot(cards[d]))
    <3>1. cards[d].r \in Asks /\ PhCardOk(cards[d]) /\ PhStanding(d)
      BY PhCardTyped DEF PhInv
    <3>2. CASE d = c
      <4>1. ~PhHot(cards[d])'
        BY <1>12, <2>1, <2>11, <3>2
      <4>2. PhCardOk(cards[d])'
        BY <1>1, <1>2, <1>10, <1>12, <2>1, <2>8, <2>9, <3>2 DEF PhCardOk
      <4> QED BY <1>0, <1>10, <2>1, <3>2, <4>1, <4>2 DEF PhStanding, PhHot
    <3>3. CASE d # c /\ cards[d].r = r
      <4>1. cards'[d] = cards[d]
        BY <2>1, <3>3
      <4>2. ~PhHot(cards[d])
        BY <1>0, <1>1, <2>3, <3>3 DEF PhInv
      <4>3. ~PhHot(cards[d])'
        BY <2>11, <4>1, <4>2
      <4>4. PhCardOk(cards[d])'
        BY <1>2, <2>8, <2>9, <3>1, <3>3, <4>1 DEF PhCardOk
      <4> QED BY <4>1, <4>3, <4>4 DEF PhStanding, PhHot
    <3>4. CASE d # c /\ cards[d].r # r
      <4>1. cards'[d] = cards[d] /\ ask'[cards[d].r] = ask[cards[d].r]
        BY <2>1, <2>9, <3>1, <3>4
      <4>2. PhCardOk(cards[d])'
        BY <1>2, <3>1, <4>1 DEF PhCardOk
      <4>3. PhStanding(d)'
        BY <1>2, <2>11, <3>1, <4>1 DEF PhStanding
      <4> QED BY <2>11, <4>1, <4>2, <4>3
    <3> QED BY <3>2, <3>3, <3>4
  <2>13. \A q \in Asks : PhAskOk(ask[q])' /\ (seen'[q] # 0 => seen'[q] = seen[q])
    BY <1>2, <2>8, <2>9 DEF PhInv, PhAskOk
  <2> QED BY <2>1, <2>10, <2>12, <2>13, PhStep
<1> QED BY <1>13, <1>14

\* A new card is the only one that can let its request through.
LEMMA PhShow_Inv == ASSUME PhInv, PhSent, NEW r \in Asks, NEW pushed \in BOOLEAN, ShowRequest(r, pushed) PROVE PhInv'
<1>0. /\ cards \in Seq(PhCards) /\ conn \in 0..conns /\ sub \in 0..conns /\ conns \in Nat /\ dirty \in BOOLEAN
      /\ seen \in [Asks -> 0..Len(cards)] /\ ask \in [Asks -> PhAskRecords] /\ Len(cards) \in Nat
  BY DEF PhInv, PhTyped
<1>1. PICK new : new = [r |-> r, phone |-> phone, st |-> "pending", answered |-> FALSE,
                        gone |-> "no", unknown |-> FALSE, gen |-> sub,
                        step |-> "none", verdict |-> "none", was |-> "none",
                        applied |-> 0, kept |-> TRUE, tapped |-> FALSE]
  OBVIOUS
<1>2. PICK n \in Nat : n = Len(cards) + 1
  BY <1>0
<1>3. /\ sub # 0 /\ dirty /\ ask[r].st = "waiting" /\ seen[r] = 0
      /\ cards' = Append(cards, new) /\ seen' = [seen EXCEPT ![r] = n]
      /\ UNCHANGED <<conn, conns, sub, dirty>>
  BY <1>1, <1>2 DEF ShowRequest
<1>4. /\ new \in PhCards /\ new.r = r /\ new.st = "pending" /\ new.gen = sub /\ new.step = "none" /\ new.applied = 0
      /\ new.gone = "no" /\ ~new.answered /\ ~new.unknown
  BY <1>0, <1>1 DEF PhCards, PhSent
<1>5. PICK z : z = IF pushed THEN ask[r] ELSE Over(ask[r], Now(r), "n")
  OBVIOUS
<1>6. ask' = [ask EXCEPT ![r] = z]
  <2>1. CASE pushed
    BY <1>0, <1>5, <2>1 DEF ShowRequest
  <2>2. CASE ~pushed
    BY <1>5, <2>2 DEF ShowRequest
  <2> QED BY <2>1, <2>2
<1>7. z \in PhAskRecords /\ z.st # "none" /\ z.passed = 0
  <2>1. ask[r] \in PhAskRecords /\ ask[r].passed = 0
    BY <1>3 DEF PhInv, PhTyped, PhAskOk
  <2>2. CASE pushed
    BY <1>3, <1>5, <2>1, <2>2
  <2>3. CASE ~pushed
    <3>1. PICK rec \in PhAskRecords, how \in {"late", "early"} : rec = ask[r] /\ how = Now(r)
      BY <2>1 DEF Now
    <3>2. z = [rec EXCEPT !.st = "over", !.how = how]
      BY <1>5, <2>1, <2>3, <3>1 DEF Over, PhAskRecords
    <3> QED BY <2>1, <3>1, <3>2 DEF PhAskRecords
  <2> QED BY <2>2, <2>3
<1>8. ask'[r] = z /\ \A q \in Asks : q # r => ask'[q] = ask[q]
  BY <1>0, <1>6
<1>9. /\ cards' \in Seq(PhCards) /\ Len(cards') = n /\ cards'[n] = new
      /\ \A d \in CardNumbers : cards'[d] = cards[d]
  BY <1>0, <1>2, <1>3, <1>4, AppendProperties DEF CardNumbers
<1>10. PhTyped'
  <2>1. seen' \in [Asks -> 0..n]
    BY <1>0, <1>2, <1>3
  <2> QED BY <1>0, <1>3, <1>6, <1>7, <1>9, <2>1 DEF PhTyped
<1>11. CardNumbers' = CardNumbers \cup {n} /\ n \notin CardNumbers /\ n # 0
  BY <1>0, <1>2, <1>9 DEF CardNumbers
<1>12. \A x : /\ PhOffered(x)' = PhOffered(x) /\ PhCarried(x)' = PhCarried(x)
              /\ PhOwed(x)' = PhOwed(x) /\ PhHot(x)' = PhHot(x)
  BY <1>3 DEF PhOffered, PhCarried, PhOwed, PhHot, PhLive
<1>13. ASSUME NEW d \in CardNumbers
       PROVE  PhCardOk(cards[d])' /\ PhStanding(d)' /\ (cards[d].r = r => ~PhHot(cards[d]))
  <2>1. cards[d].r \in Asks /\ PhCardOk(cards[d]) /\ PhStanding(d) /\ cards'[d] = cards[d] /\ d # 0
    BY <1>9, PhCardTyped DEF PhInv
  <2>2. PhCardOk(cards[d])'
    BY <1>3, <1>7, <1>8, <2>1 DEF PhCardOk
  <2>3. CASE cards[d].r = r
    <3>1. ~PhHot(cards[d])
      BY <1>3, <2>1, <2>3 DEF PhStanding, PhHot
    <3>2. ~PhHot(cards[d])'
      BY <1>12, <2>1, <3>1
    <3> QED BY <2>2, <3>1, <3>2 DEF PhStanding, PhHot
  <2>4. CASE cards[d].r # r
    <3>1. ask'[cards[d].r] = ask[cards[d].r] /\ seen'[cards[d].r] = seen[cards[d].r]
      BY <1>0, <1>3, <1>8, <2>1, <2>4
    <3>2. PhStanding(d)'
      BY <1>3, <1>12, <2>1, <3>1 DEF PhStanding
    <3> QED BY <2>2, <2>4, <3>2
  <2> QED BY <2>3, <2>4
<1>14. PhCardOk(cards[n])' /\ PhStanding(n)'
  <2>1. PhCardOk(cards[n])'
    BY <1>0, <1>3, <1>4, <1>7, <1>8, <1>9 DEF PhCardOk
  <2>2. ~PhCarried(new) /\ ~PhOwed(new) /\ (PhOffered(new) => sub = conn)
    BY <1>4 DEF PhCarried, PhOwed, PhOffered, PhLive
  <2>3. seen'[r] = n
    BY <1>0, <1>3
  <2>4. PhStanding(n)'
    BY <1>3, <1>4, <1>7, <1>8, <1>9, <1>12, <2>2, <2>3 DEF PhStanding
  <2> QED BY <2>1, <2>4
<1>15. ASSUME NEW d \in CardNumbers', NEW e \in CardNumbers', PhHot(cards[d])', PhHot(cards[e])', cards'[d].r = cards'[e].r
       PROVE  d = e
  <2>1. CASE d = n /\ e \in CardNumbers
    BY <1>4, <1>9, <1>12, <1>13, <1>15, <2>1
  <2>2. CASE e = n /\ d \in CardNumbers
    BY <1>4, <1>9, <1>12, <1>13, <1>15, <2>2
  <2>3. CASE d \in CardNumbers /\ e \in CardNumbers
    BY <1>9, <1>12, <1>15, <2>3 DEF PhInv
  <2> QED BY <1>11, <2>1, <2>2, <2>3
<1>16. ASSUME NEW q \in Asks PROVE PhAskOk(ask[q])' /\ (seen'[q] # 0 => cards'[seen'[q]].r = q)
  <2>1. PhAskOk(ask[q])'
    BY <1>7, <1>8 DEF PhInv, PhAskOk
  <2>2. CASE q = r
    BY <1>0, <1>3, <1>4, <1>9, <2>1, <2>2
  <2>3. CASE q # r
    <3>1. seen'[q] = seen[q] /\ (seen[q] # 0 => seen[q] \in CardNumbers /\ cards[seen[q]].r = q)
      BY <1>0, <1>3, <2>3 DEF PhInv, CardNumbers
    <3> QED BY <1>9, <2>1, <3>1
  <2> QED BY <2>2, <2>3
<1>17. \A d \in CardNumbers' : PhCardOk(cards[d])' /\ PhStanding(d)'
  BY <1>11, <1>13, <1>14
<1> QED BY <1>10, <1>15, <1>16, <1>17 DEF PhInv

----------------------------------------------------------------------------
LEMMA PhSent_Inv == ASSUME PhSent, PhoneNext PROVE PhSent'
<1> DEFINE verdicts == {"none", "y", "n"}
<1>1. ASSUME NEW p, NEW c, PushDone(p, c) PROVE outbox' \in [Phones -> [1..MaxCards -> verdicts]]
  BY <1>1 DEF PushDone, PhSent
<1>2. CASE LinkComesUp
  <2>1. UNCHANGED <<phone, outbox>>
    BY <1>2 DEF LinkComesUp
  <2>2. ASSUME NEW m \in inFlight' PROVE m.v \in {"y", "n"}
    <3>1. PICK c \in Unsettled(phone) : m = [c |-> c, v |-> outbox[phone][c]]
      BY <1>2 DEF LinkComesUp
    <3>2. outbox[phone][c] \in verdicts /\ outbox[phone][c] # "none"
      BY <3>1 DEF PhSent, Unsettled
    <3> QED BY <3>1, <3>2
  <2> QED BY <2>1, <2>2 DEF PhSent
<1>3. CASE \E m \in inFlight : HandleReply(m)
  <2>1. phone' = phone /\ inFlight' \subseteq inFlight
    BY <1>3 DEF HandleReply
  <2>2. outbox' \in [Phones -> [1..MaxCards -> verdicts]]
    BY <1>1, <1>3 DEF HandleReply, PhSent
  <2> QED BY <2>1, <2>2 DEF PhSent
<1>4. ASSUME NEW c, Confirm(c) PROVE PhSent'
  BY <1>1, <1>4 DEF Confirm, PhSent
<1>5. ASSUME NEW r, SettleCard(r) PROVE PhSent'
  <2>1. UNCHANGED <<phone, inFlight>>
    BY <1>5 DEF SettleCard
  <2>2. outbox' \in [Phones -> [1..MaxCards -> verdicts]]
    BY <1>1, <1>5 DEF SettleCard, PhSent
  <2> QED BY <2>1, <2>2 DEF PhSent
<1>6. ASSUME NEW c, NEW v \in {"y", "n"}, Tap(c, v) PROVE PhSent'
  <2>1. phone' = phone /\ \A m \in inFlight' : m \in inFlight \/ m = [c |-> c, v |-> v]
    BY <1>6 DEF Tap
  <2>2. outbox' \in [Phones -> [1..MaxCards -> verdicts]]
    BY <1>6 DEF Tap, PhSent
  <2> QED BY <2>1, <2>2 DEF PhSent
<1>7. CASE LinkLost \/ \E p \in Phones : Designate(p)
  BY <1>7 DEF LinkLost, Designate, Teardown, PhSent
<1>8. CASE UNCHANGED <<phone, outbox, inFlight>>
  BY <1>8 DEF PhSent
<1>9. ASSUME NEW r, \/ Raise(r) \/ NearExpiry(r) \/ WaitRunsOutAsk(r)
                    \/ \E v \in {"y", "n"} : AnswerElsewhere(r, v)
                    \/ \E pushed \in BOOLEAN : ShowRequest(r, pushed)
      PROVE  UNCHANGED <<phone, outbox, inFlight>>
  BY <1>9 DEF Raise, NearExpiry, WaitRunsOutAsk, AnswerElsewhere, ShowRequest
<1>10. ASSUME NEW c, ApplyDecision(c) \/ ApplyExpired(c) \/ GrantLate(c) \/ ForgetCard(c)
       PROVE  UNCHANGED <<phone, outbox, inFlight>>
  BY <1>10 DEF ApplyDecision, ApplyExpired, GrantLate, ForgetCard
<1>11. ASSUME WatchDials \/ ConnectionDies \/ WatchNotices \/ StateDone
       PROVE  UNCHANGED <<phone, outbox, inFlight>>
  BY <1>11 DEF WatchDials, ConnectionDies, WatchNotices, StateDone
<1> QED BY <1>2, <1>3, <1>4, <1>5, <1>6, <1>7, <1>8, <1>9, <1>10, <1>11 DEF PhoneNext, SettlingStep

LEMMA PhNext_Inv == ASSUME PhInv, PhSent, PhoneNext PROVE PhInv'
<1>1. CASE SettlingStep
  BY <1>1, PhLinks_Inv, PhReply_Inv, PhDecide_Inv, PhExpired_Inv, PhGrant_Inv DEF SettlingStep
<1>2. CASE \E r \in Asks : Raise(r) \/ NearExpiry(r) \/ SettleCard(r) \/ \E pushed \in BOOLEAN : ShowRequest(r, pushed)
  BY <1>2, PhRaise_Inv, PhNearExpiry_Inv, PhSettle_Inv, PhShow_Inv
<1>3. CASE \E r \in Asks : WaitRunsOutAsk(r) \/ \E v \in {"y", "n"} : AnswerElsewhere(r, v)
  BY <1>3, PhAnswered_Inv
<1>4. CASE WatchDials \/ ConnectionDies \/ WatchNotices \/ StateDone \/ LinkLost \/ \E p \in Phones : Designate(p)
  BY <1>4, PhLinks_Inv
<1>5. CASE \E c \in CardNumbers : ForgetCard(c) \/ \E v \in {"y", "n"} : Tap(c, v)
  BY <1>5, PhForget_Inv
<1> QED BY <1>1, <1>2, <1>3, <1>4, <1>5 DEF PhoneNext

\* phonewatch.go, apply and grantOnce: however cards, connections and answers
\* interleave, no decision is applied twice, and no request is let through twice
\* but one answered elsewhere whose end came, or was learned, in the last seconds of
\* its wait.
THEOREM PhoneHolds == PhoneSpec => [](LetThroughOnce /\ AppliedOnce)
<1> DEFINE Inv == PhInv /\ PhSent
<1>1. PhoneInit => Inv
  <2>1. PhoneInit => PhSent
    BY DEF PhoneInit, PhSent
  <2> QED BY <2>1, PhInit_Inv
<1>2. Inv /\ [PhoneNext]_phoneVars => Inv'
  <2>1. CASE PhoneNext
    BY <2>1, PhNext_Inv, PhSent_Inv
  <2>2. CASE UNCHANGED phoneVars
    BY <2>2 DEF phoneVars, PhInv, PhSent, PhTyped, PhStanding, PhAskOk, PhCardOk, PhHot, PhOffered, PhCarried, PhOwed, PhLive, CardNumbers
  <2> QED BY <2>1, <2>2
<1>3. Inv => LetThroughOnce /\ AppliedOnce
  BY DEF PhInv, PhAskOk, PhExcepted, PhCardOk, LetThroughOnce, AppliedOnce
<1> QED BY <1>1, <1>2, <1>3, PTL DEF PhoneSpec

----------------------------------------------------------------------------
(* The supervisor of the watchers *)

SuAddresses == SuEmails \cup {"off"}
SuConfigs == SUBSET [email : SuAddresses, known : BOOLEAN]
SuWatchers == [dev : SUBSET SuDevices, at : {"none", "dial", "asked", "live", "refused", "over"},
               cfg : SuConfigs, stop : SuConfigs, cancelled : BOOLEAN]
SuRounds == [at : {"idle", "load", "apply", "left"}, reg : SUBSET SuDevices,
             want : [SuDevices -> SuConfigs], wait : SUBSET SuDevices]

SuTyped ==
  /\ suCfg \in [SuDevices -> SuAddresses] /\ suReg \in SUBSET SuDevices
  /\ suRec \in SuRounds
  /\ suMap \in [SuDevices -> SuIds \cup {0}]
  /\ suWatcher \in [SuIds -> SuWatchers]
  /\ \A w \in SuIds : suWatcher[w].at # "none" => \E d \in SuDevices : suWatcher[w].dev = {d}

\* A watcher of d that the map has let go of: the round that stopped it waits for
\* it, or the reconciler has left.
SuLetGo(w, d) ==
  /\ suMap[d] = 0
  /\ \/ suWatcher[w].cancelled /\ suRec.at = "apply" /\ d \in suRec.wait
     \/ suRec.at = "left"

SuHeld ==
  \A w \in SuIds, d \in SuDevices :
     SuRunning(w) /\ suWatcher[w].dev = {d} => suMap[d] = w \/ SuLetGo(w, d)

SuInv == SuTyped /\ SuHeld /\ SuOneWatcher

LEMMA SuIdsNotZero == 0 \notin SuIds /\ SuIds \in SUBSET Nat
BY SuAssumption DEF SuIds

LEMMA SuFreeLeast ==
  ASSUME SuFree # {}, NEW n, n = (CHOOSE x \in SuFree : \A y \in SuFree : x <= y)
  PROVE  n \in SuIds /\ suWatcher[n].at = "none"
<1>1. SuFree \in SUBSET Nat
  BY SuIdsNotZero DEF SuFree
<1>2. \E x \in SuFree : \A y \in SuFree : x <= y
  BY <1>1, LkLeast
<1>3. n \in SuFree
  BY <1>2
<1> QED BY <1>3 DEF SuFree

LEMMA SuNoneTyped == SuNone \in SuWatchers /\ SuNone.at = "none"
BY DEF SuNone, SuWatchers, SuConfigs

LEMMA SuInit_Inv == SuInit => SuInv
<1> SUFFICES ASSUME SuInit PROVE SuInv
  OBVIOUS
<1>1. \A w \in SuIds : suWatcher[w] = SuNone /\ suWatcher[w].at = "none"
  BY SuNoneTyped DEF SuInit
<1>2. suRec \in SuRounds
  BY DEF SuInit, SuRounds, SuRecIdle, SuConfigs
<1>3. SuTyped
  BY <1>1, <1>2, SuNoneTyped DEF SuInit, SuTyped, SuAddresses
<1>4. \A w \in SuIds : ~SuRunning(w)
  BY <1>1 DEF SuRunning
<1> QED BY <1>3, <1>4 DEF SuInv, SuHeld, SuOneWatcher

\* A round goes on, and a reconciler that has left does not come back.
SuRoundGoesOn ==
  /\ suRec.at = "left" => suRec'.at = "left"
  /\ suRec.at = "apply" => suRec'.at = "apply" /\ suRec.wait \subseteq suRec'.wait

\* A step that starts no watcher.
LEMMA SuStep ==
  ASSUME SuInv, SuTyped', SuRoundGoesOn,
         \A w \in SuIds : SuRunning(w)' =>
            /\ SuRunning(w) /\ suWatcher'[w].dev = suWatcher[w].dev
            /\ suWatcher[w].cancelled => suWatcher'[w].cancelled,
         \A d \in SuDevices : suMap[d] = 0 => suMap'[d] = 0,
         \A w \in SuIds, d \in SuDevices :
            SuRunning(w)' /\ suWatcher[w].dev = {d} /\ suMap[d] = w => suMap'[d] = w \/ SuLetGo(w, d)'
  PROVE  SuInv'
<1>1. SuOneWatcher'
  BY DEF SuInv, SuOneWatcher
<1>2. ASSUME NEW w \in SuIds, NEW d \in SuDevices, SuRunning(w)', suWatcher'[w].dev = {d}
      PROVE  suMap'[d] = w \/ SuLetGo(w, d)'
  <2>1. SuRunning(w) /\ suWatcher[w].dev = {d} /\ (suWatcher[w].cancelled => suWatcher'[w].cancelled)
    BY <1>2
  <2>2. suMap[d] = w \/ SuLetGo(w, d)
    BY <2>1 DEF SuInv, SuHeld
  <2>3. CASE SuLetGo(w, d)
    BY <2>1, <2>3 DEF SuLetGo, SuRoundGoesOn
  <2> QED BY <1>2, <2>1, <2>2, <2>3
<1> QED BY <1>1, <1>2 DEF SuInv, SuHeld

\* A step that starts watcher n of a device none of whose watchers runs.
LEMMA SuStarts ==
  ASSUME SuInv, SuTyped', SuRoundGoesOn, NEW n \in SuIds, NEW d \in SuDevices,
         suWatcher'[n].dev = {d}, suMap'[d] = n,
         \A w \in SuIds : SuRunning(w) => suWatcher[w].dev # {d},
         \A w \in SuIds : w # n /\ SuRunning(w)' => SuRunning(w) /\ suWatcher'[w] = suWatcher[w],
         \A e \in SuDevices : e # d => suMap'[e] = suMap[e]
  PROVE  SuInv'
<1>1. SuOneWatcher'
  BY DEF SuInv, SuOneWatcher
<1>2. ASSUME NEW w \in SuIds, NEW e \in SuDevices, SuRunning(w)', suWatcher'[w].dev = {e}
      PROVE  suMap'[e] = w \/ SuLetGo(w, e)'
  <2>1. CASE w = n
    BY <1>2, <2>1
  <2>2. CASE w # n
    <3>1. SuRunning(w) /\ suWatcher'[w] = suWatcher[w] /\ suWatcher[w].dev = {e} /\ e # d
      BY <1>2, <2>2
    <3>2. suMap[e] = w \/ SuLetGo(w, e)
      BY <3>1 DEF SuInv, SuHeld
    <3>3. suMap'[e] = suMap[e]
      BY <3>1
    <3> QED BY <3>1, <3>2, <3>3 DEF SuLetGo, SuRoundGoesOn
  <2> QED BY <2>1, <2>2
<1> QED BY <1>1, <1>2 DEF SuInv, SuHeld

\* What one watcher becomes.
LEMMA SuWatcherTyped ==
  ASSUME SuInv, NEW w \in SuIds, NEW z \in SuWatchers, suWatcher[w].at # "none" \/ \E d \in SuDevices : z.dev = {d},
         suWatcher[w].at # "none" => z.dev = suWatcher[w].dev, suWatcher' = [suWatcher EXCEPT ![w] = z]
  PROVE  /\ suWatcher' \in [SuIds -> SuWatchers] /\ suWatcher'[w] = z
         /\ \A v \in SuIds : v # w => suWatcher'[v] = suWatcher[v]
         /\ \A v \in SuIds : suWatcher'[v].at # "none" => \E d \in SuDevices : suWatcher'[v].dev = {d}
<1>1. suWatcher \in [SuIds -> SuWatchers] /\ \A v \in SuIds : suWatcher[v].at # "none" => \E d \in SuDevices : suWatcher[v].dev = {d}
  BY DEF SuInv, SuTyped
<1>2. /\ suWatcher' \in [SuIds -> SuWatchers] /\ suWatcher'[w] = z
      /\ \A v \in SuIds : v # w => suWatcher'[v] = suWatcher[v]
  BY <1>1
<1> QED BY <1>1, <1>2

\* Steps of a watcher that neither end it nor move the map.
LEMMA SuGoesOn ==
  ASSUME SuInv, NEW w \in SuIds, SuDial(w) \/ SuDialFails(w) \/ SuSessionEnds(w) \/ SuRefused(w)
  PROVE  SuInv'
<1>0. PICK x \in SuWatchers : x = suWatcher[w]
  BY DEF SuInv, SuTyped
<1>1. UNCHANGED <<suCfg, suReg, suMap, suRec>>
  BY SMTT(40) DEF SuDial, SuDialFails, SuSessionEnds, SuRefused, suWorld
<1>2. PICK at \in {"dial", "asked", "live", "refused"}, stop \in SuConfigs :
         /\ suWatcher' = [suWatcher EXCEPT ![w] = [x EXCEPT !.at = at, !.stop = stop]]
         /\ SuRunning(w)
  <2>1. \A a : [x EXCEPT !.at = a] = [x EXCEPT !.at = a, !.stop = x.stop] /\ x.stop \in SuConfigs /\ x.cfg \in SuConfigs
    BY DEF SuWatchers
  <2>2. CASE SuDial(w)
    <3>1. \E at \in {"asked", "live"} : suWatcher' = [suWatcher EXCEPT ![w] = [x EXCEPT !.at = at]]
      BY <1>0, <2>2 DEF SuDial
    <3>2. SuRunning(w)
      BY <2>2 DEF SuDial, SuRunning
    <3>3. PICK a \in {"asked", "live"} : suWatcher' = [suWatcher EXCEPT ![w] = [x EXCEPT !.at = a]]
      BY <3>1
    <3>4. suWatcher' = [suWatcher EXCEPT ![w] = [x EXCEPT !.at = a, !.stop = x.stop]]
      BY <2>1, <3>3
    <3> QED BY <2>1, <3>2, <3>4
  <2>3. CASE SuDialFails(w) \/ SuSessionEnds(w)
    <3>1. suWatcher' = [suWatcher EXCEPT ![w] = [x EXCEPT !.at = "dial"]]
      BY <1>0, <2>3 DEF SuDialFails, SuSessionEnds
    <3> QED BY <2>1, <2>3, <3>1 DEF SuDialFails, SuSessionEnds, SuRunning
  <2>4. CASE SuRefused(w)
    <3>1. suWatcher' = [suWatcher EXCEPT ![w] = [x EXCEPT !.at = "refused", !.stop = x.cfg]]
      BY <1>0, <2>4 DEF SuRefused
    <3> QED BY <2>1, <2>4, <3>1 DEF SuRefused, SuRunning
  <2> QED BY <2>2, <2>3, <2>4
<1>3. PICK z : z = [x EXCEPT !.at = at, !.stop = stop]
  OBVIOUS
<1>4. z \in SuWatchers /\ z.dev = x.dev
  BY <1>3 DEF SuWatchers
<1>5. z.cancelled = x.cancelled
  BY <1>3 DEF SuWatchers
<1>6. suWatcher' = [suWatcher EXCEPT ![w] = z] /\ suWatcher[w].at # "none"
  BY <1>2, <1>3 DEF SuRunning
<1>7. /\ suWatcher' \in [SuIds -> SuWatchers] /\ suWatcher'[w] = z
      /\ \A v \in SuIds : v # w => suWatcher'[v] = suWatcher[v]
      /\ \A v \in SuIds : suWatcher'[v].at # "none" => \E d \in SuDevices : suWatcher'[v].dev = {d}
  BY <1>0, <1>4, <1>6, SuWatcherTyped
<1>8. SuTyped'
  BY <1>1, <1>7 DEF SuInv, SuTyped
<1>9. ASSUME NEW v \in SuIds, SuRunning(v)'
      PROVE  SuRunning(v) /\ suWatcher'[v].dev = suWatcher[v].dev /\ (suWatcher[v].cancelled => suWatcher'[v].cancelled)
  <2>1. CASE v = w
    BY <1>0, <1>2, <1>4, <1>5, <1>7, <2>1
  <2>2. CASE v # w
    BY <1>7, <1>9, <2>2 DEF SuRunning
  <2> QED BY <2>1, <2>2
<1>10. SuRoundGoesOn
  BY <1>1 DEF SuRoundGoesOn
<1> QED BY <1>1, <1>8, <1>9, <1>10, SuStep

\* A watcher that is over holds no place in the map.
LEMMA SuCancelled_Inv == ASSUME SuInv, NEW w \in SuIds, SuCancelled(w) PROVE SuInv'
<1>0. PICK x \in SuWatchers : x = suWatcher[w]
  BY DEF SuInv, SuTyped
<1>1. PICK z : z = [SuNone EXCEPT !.dev = x.dev, !.at = "over"]
  OBVIOUS
<1>2. z \in SuWatchers /\ z.dev = x.dev /\ z.at = "over"
  BY <1>1, SuNoneTyped DEF SuWatchers
<1>3. /\ suWatcher' = [suWatcher EXCEPT ![w] = z] /\ suWatcher[w].at # "none"
      /\ suMap' = [d \in SuDevices |-> IF suMap[d] = w THEN 0 ELSE suMap[d]]
      /\ UNCHANGED <<suCfg, suReg, suRec>>
  BY <1>0, <1>1 DEF SuCancelled, suWorld
<1>4. /\ suWatcher' \in [SuIds -> SuWatchers] /\ suWatcher'[w] = z
      /\ \A v \in SuIds : v # w => suWatcher'[v] = suWatcher[v]
      /\ \A v \in SuIds : suWatcher'[v].at # "none" => \E d \in SuDevices : suWatcher'[v].dev = {d}
  BY <1>0, <1>2, <1>3, SuWatcherTyped
<1>5. SuTyped'
  BY <1>3, <1>4 DEF SuInv, SuTyped
<1>6. \A v \in SuIds : SuRunning(v)' => v # w /\ SuRunning(v) /\ suWatcher'[v] = suWatcher[v]
  BY <1>2, <1>4 DEF SuRunning
<1>7. \A d \in SuDevices : suMap'[d] = (IF suMap[d] = w THEN 0 ELSE suMap[d])
  BY <1>3
<1>8. SuRoundGoesOn
  BY <1>3 DEF SuRoundGoesOn
<1> QED BY <1>5, <1>6, <1>7, <1>8, SuStep

LEMMA SuDone_Inv == ASSUME SuInv, NEW w \in SuIds, SuDone(w) PROVE SuInv'
<1>0. PICK x \in SuWatchers : x = suWatcher[w]
  BY DEF SuInv, SuTyped
<1>1. x.at = "refused" /\ ~SuRunning(w) /\ UNCHANGED <<suCfg, suReg, suRec>>
  BY <1>0 DEF SuDone, SuRunning, suWorld
<1>2. PICK d \in SuDevices : d = (CHOOSE y \in SuDevices : suWatcher[w].dev = {y}) /\ x.dev = {d}
  BY <1>0, <1>1 DEF SuInv, SuTyped
<1>3. PICK z : z = [SuNone EXCEPT !.dev = {d}, !.at = "over"]
  OBVIOUS
<1>4. z \in SuWatchers /\ z.dev = {d} /\ z.at = "over"
  BY <1>3, SuNoneTyped DEF SuWatchers
<1>5. SuRoundGoesOn /\ suMap \in [SuDevices -> SuIds \cup {0}]
  BY <1>1 DEF SuRoundGoesOn, SuInv, SuTyped
\* The map shows w: no other watcher of d runs.
<1>6. suMap[d] = w => \A v \in SuIds : SuRunning(v) => suWatcher[v].dev # {d}
  BY <1>1, SuIdsNotZero DEF SuInv, SuHeld, SuLetGo
<1>7. CASE /\ suWatcher' = [suWatcher EXCEPT ![w] = z]
           /\ suMap' = suMap \/ (suMap[d] = w /\ suMap' = [suMap EXCEPT ![d] = 0])
  <2>1. /\ suWatcher' \in [SuIds -> SuWatchers] /\ suWatcher'[w] = z
        /\ \A v \in SuIds : v # w => suWatcher'[v] = suWatcher[v]
        /\ \A v \in SuIds : suWatcher'[v].at # "none" => \E e \in SuDevices : suWatcher'[v].dev = {e}
    BY <1>0, <1>2, <1>4, <1>7, SuWatcherTyped
  <2>2. suMap' \in [SuDevices -> SuIds \cup {0}]
    BY <1>5, <1>7
  <2>3. SuTyped'
    BY <1>1, <2>1, <2>2 DEF SuInv, SuTyped
  <2>4. \A v \in SuIds : SuRunning(v)' => v # w /\ SuRunning(v) /\ suWatcher'[v] = suWatcher[v]
    BY <1>4, <2>1 DEF SuRunning
  <2>5. \A e \in SuDevices : suMap'[e] = suMap[e] \/ (suMap[e] = w /\ suMap'[e] = 0)
    BY <1>5, <1>7
  <2> QED BY <1>5, <2>3, <2>4, <2>5, SuStep
<1>8. ASSUME suMap[d] = w, SuFree # {},
             NEW n, n = (CHOOSE y \in SuFree : \A q \in SuFree : y <= q), suMap' = [suMap EXCEPT ![d] = n],
             suWatcher' = [suWatcher EXCEPT ![w] = z,
                                            ![n] = [SuNone EXCEPT !.dev = {d}, !.at = "dial", !.cfg = suWatcher[w].cfg]]
      PROVE  SuInv'
  <2>1. n \in SuIds /\ suWatcher[n].at = "none"
    BY <1>8, SuFreeLeast
  <2>2. PICK y : y = [SuNone EXCEPT !.dev = {d}, !.at = "dial", !.cfg = x.cfg]
    OBVIOUS
  <2>3. y \in SuWatchers /\ y.dev = {d}
    BY <2>2, SuNoneTyped DEF SuWatchers
  <2>4. suWatcher \in [SuIds -> SuWatchers] /\ suWatcher' = [suWatcher EXCEPT ![w] = z, ![n] = y]
    BY <1>0, <1>8, <2>2 DEF SuInv, SuTyped
  <2>5. n # w
    BY <1>0, <1>1, <2>1
  <2>6. /\ suWatcher' \in [SuIds -> SuWatchers] /\ suWatcher'[w] = z /\ suWatcher'[n] = y
        /\ \A v \in SuIds : v # w /\ v # n => suWatcher'[v] = suWatcher[v]
    BY <1>4, <2>1, <2>3, <2>4, <2>5
  <2>7. /\ suMap' \in [SuDevices -> SuIds \cup {0}] /\ suMap'[d] = n
        /\ \A e \in SuDevices : e # d => suMap'[e] = suMap[e]
    BY <1>5, <1>8, <2>1
  <2>8. \A v \in SuIds : suWatcher'[v].at # "none" => \E e \in SuDevices : suWatcher'[v].dev = {e}
    BY <1>4, <2>3, <2>6 DEF SuInv, SuTyped
  <2>9. SuTyped'
    BY <1>1, <2>6, <2>7, <2>8 DEF SuInv, SuTyped
  <2>10. \A v \in SuIds : v # n /\ SuRunning(v)' => SuRunning(v) /\ suWatcher'[v] = suWatcher[v]
    BY <1>4, <2>6 DEF SuRunning
  <2>11. suWatcher'[n].dev = {d} /\ \A v \in SuIds : SuRunning(v) => suWatcher[v].dev # {d}
    BY <1>6, <1>8, <2>3, <2>6
  <2> QED BY <1>5, <2>1, <2>7, <2>9, <2>10, <2>11, SuStarts
<1> QED BY <1>0, <1>2, <1>3, <1>7, <1>8, Zenon DEF SuDone

\* The reconciler: a device's watcher is stopped, told, or started.
LEMMA SuApply_Inv == ASSUME SuInv, NEW d \in SuDevices, SuApply(d) PROVE SuInv'
<1>0. PICK w, cfg : w = suMap[d] /\ cfg = suRec.want[d]
  OBVIOUS
<1>1. /\ w \in SuIds \cup {0} /\ cfg \in SuConfigs /\ suRec \in SuRounds
      /\ suMap \in [SuDevices -> SuIds \cup {0}] /\ suWatcher \in [SuIds -> SuWatchers]
  BY <1>0 DEF SuInv, SuTyped, SuRounds
<1>2. suRec.at = "apply" /\ d \notin suRec.wait /\ UNCHANGED <<suCfg, suReg>>
  BY DEF SuApply, suWorld
<1>3. PICK rec \in SuRounds : rec = suRec
  BY <1>1
<1>4. PICK new : new = [rec EXCEPT !.wait = rec.wait \cup {d}]
  OBVIOUS
<1>5. suRec' = new
  BY <1>3, <1>4 DEF SuApply
<1>6. new \in SuRounds /\ new.at = "apply" /\ rec.wait \subseteq new.wait /\ d \in new.wait
  BY <1>2, <1>3, <1>4 DEF SuRounds
<1>7. SuRoundGoesOn
  BY <1>2, <1>3, <1>5, <1>6 DEF SuRoundGoesOn
<1>8. ASSUME w \in SuIds,
             \E z \in SuWatchers : /\ suWatcher' = [suWatcher EXCEPT ![w] = z] /\ z.dev = suWatcher[w].dev
                                   /\ z.at = suWatcher[w].at /\ (suWatcher[w].cancelled => z.cancelled)
                                   /\ suMap' = suMap \/ (z.cancelled /\ suMap' = [suMap EXCEPT ![d] = 0])
      PROVE  SuInv'
  <2>1. PICK z \in SuWatchers : /\ suWatcher' = [suWatcher EXCEPT ![w] = z] /\ z.dev = suWatcher[w].dev
                                /\ z.at = suWatcher[w].at /\ (suWatcher[w].cancelled => z.cancelled)
                                /\ suMap' = suMap \/ (z.cancelled /\ suMap' = [suMap EXCEPT ![d] = 0])
    BY <1>8
  <2>2. /\ suWatcher' \in [SuIds -> SuWatchers] /\ suWatcher'[w] = z
        /\ \A v \in SuIds : v # w => suWatcher'[v] = suWatcher[v]
    BY <1>1, <1>8, <2>1
  <2>3. \A v \in SuIds : suWatcher'[v].at # "none" => \E e \in SuDevices : suWatcher'[v].dev = {e}
    BY <2>1, <2>2 DEF SuInv, SuTyped
  <2>4. suMap' \in [SuDevices -> SuIds \cup {0}] /\ (\A e \in SuDevices : suMap'[e] = suMap[e] \/ (e = d /\ suMap'[e] = 0 /\ z.cancelled))
    BY <1>1, <2>1
  <2>5. SuTyped'
    BY <1>2, <1>5, <1>6, <2>2, <2>3, <2>4 DEF SuInv, SuTyped
  <2>6. \A v \in SuIds : SuRunning(v)' =>
            /\ SuRunning(v) /\ suWatcher'[v].dev = suWatcher[v].dev
            /\ suWatcher[v].cancelled => suWatcher'[v].cancelled
    BY <2>1, <2>2 DEF SuRunning
  <2>7. \A e \in SuDevices : suMap[e] = 0 => suMap'[e] = 0
    BY <2>4
  <2>8. ASSUME NEW v \in SuIds, NEW e \in SuDevices, suMap[e] = v PROVE suMap'[e] = v \/ SuLetGo(v, e)'
    <3>1. CASE suMap'[e] # suMap[e]
      <4>1. e = d /\ suMap'[e] = 0 /\ z.cancelled /\ v = w
        BY <1>0, <2>4, <2>8, <3>1
      <4> QED BY <1>5, <1>6, <2>2, <4>1 DEF SuLetGo
    <3> QED BY <2>8, <3>1
  <2> QED BY <1>7, <2>5, <2>6, <2>7, <2>8, SuStep
<1>9. CASE w # 0 /\ cfg = {} /\ suMap' = [suMap EXCEPT ![d] = 0] /\ suWatcher' = [suWatcher EXCEPT ![w].cancelled = TRUE]
  <2>1. PICK x \in SuWatchers : x = suWatcher[w]
    BY <1>1, <1>9
  <2>2. PICK z : z = [x EXCEPT !.cancelled = TRUE]
    OBVIOUS
  <2>3. z \in SuWatchers /\ z.dev = x.dev /\ z.at = x.at /\ z.cancelled = TRUE
    BY <2>2 DEF SuWatchers
  <2>4. suWatcher' = [suWatcher EXCEPT ![w] = z]
    BY <1>9, <2>1, <2>2
  <2> QED BY <1>1, <1>8, <1>9, <2>1, <2>3, <2>4
<1>10. CASE w # 0 /\ cfg # {} /\ suWatcher' = [suWatcher EXCEPT ![w].cfg = cfg] /\ UNCHANGED suMap
  <2>1. PICK x \in SuWatchers : x = suWatcher[w]
    BY <1>1, <1>10
  <2>2. PICK z : z = [x EXCEPT !.cfg = cfg]
    OBVIOUS
  <2>3. z \in SuWatchers /\ z.dev = x.dev /\ z.at = x.at /\ z.cancelled = x.cancelled
    BY <1>1, <2>2 DEF SuWatchers
  <2>4. suWatcher' = [suWatcher EXCEPT ![w] = z]
    BY <1>10, <2>1, <2>2
  <2> QED BY <1>1, <1>8, <1>10, <2>1, <2>3, <2>4
<1>11. ASSUME w = 0, SuFree # {}, NEW n, n = (CHOOSE y \in SuFree : \A q \in SuFree : y <= q),
              suMap' = [suMap EXCEPT ![d] = n],
              suWatcher' = [suWatcher EXCEPT ![n] = [SuNone EXCEPT !.dev = {d}, !.at = "dial", !.cfg = cfg]]
       PROVE  SuInv'
  <2>1. n \in SuIds /\ suWatcher[n].at = "none"
    BY <1>11, SuFreeLeast
  <2>2. PICK y : y = [SuNone EXCEPT !.dev = {d}, !.at = "dial", !.cfg = cfg]
    OBVIOUS
  <2>3. y \in SuWatchers /\ y.dev = {d}
    BY <1>1, <2>2, SuNoneTyped DEF SuWatchers
  <2>4. /\ suWatcher' \in [SuIds -> SuWatchers] /\ suWatcher'[n] = y
        /\ \A v \in SuIds : v # n => suWatcher'[v] = suWatcher[v]
        /\ \A v \in SuIds : suWatcher'[v].at # "none" => \E e \in SuDevices : suWatcher'[v].dev = {e}
    BY <1>11, <2>1, <2>2, <2>3, SuWatcherTyped
  <2>5. /\ suMap' \in [SuDevices -> SuIds \cup {0}] /\ suMap'[d] = n
        /\ \A e \in SuDevices : e # d => suMap'[e] = suMap[e]
    BY <1>1, <1>11, <2>1
  <2>6. SuTyped'
    BY <1>2, <1>5, <1>6, <2>4, <2>5 DEF SuInv, SuTyped
  <2>7. \A v \in SuIds : SuRunning(v) => suWatcher[v].dev # {d}
    BY <1>0, <1>2, <1>11, SuIdsNotZero DEF SuInv, SuHeld, SuLetGo
  <2>8. \A v \in SuIds : v # n /\ SuRunning(v)' => SuRunning(v) /\ suWatcher'[v] = suWatcher[v]
    BY <2>4 DEF SuRunning
  <2> QED BY <1>7, <2>1, <2>3, <2>4, <2>5, <2>6, <2>7, <2>8, SuStarts, ZenonT(40)
<1>12. CASE UNCHANGED <<suMap, suWatcher>>
  <2>1. SuTyped'
    BY <1>2, <1>5, <1>6, <1>12 DEF SuInv, SuTyped
  <2> QED BY <1>7, <1>12, <2>1, SuStep DEF SuRunning
<1> QED BY <1>0, <1>9, <1>10, <1>11, <1>12, Zenon DEF SuApply

\* The steps that move neither the map nor a watcher.
LEMMA SuRounds_Inv ==
  ASSUME SuInv, \/ SuLoadRegistered \/ SuLoadConfigs \/ SuLoadFails \/ SuApplied \/ SuClose \/ UNCHANGED suVars
                \/ \E d \in SuDevices : SuRegister(d) \/ \E e \in SuEmails \cup {"off"} : SuConfigure(d, e)
  PROVE  SuInv'
<1>1. UNCHANGED <<suMap, suWatcher>>
  BY DEF SuLoadRegistered, SuLoadConfigs, SuLoadFails, SuApplied, SuClose, suVars, SuRegister, SuConfigure, suState
<1>2. suCfg' \in [SuDevices -> SuAddresses] /\ suReg' \in SUBSET SuDevices
  BY DEF SuInv, SuTyped, SuLoadRegistered, SuLoadConfigs, SuLoadFails, SuApplied, SuClose, suVars, SuRegister,
         SuConfigure, suWorld, SuAddresses
<1>3. PICK rec \in SuRounds : rec = suRec
  BY DEF SuInv, SuTyped
<1>4. suRec' \in SuRounds
  <2>1. CASE SuLoadRegistered
    <3>1. PICK reg \in SUBSET SuDevices : suRec' = [rec EXCEPT !.at = "load", !.reg = reg]
      BY <1>3, <2>1 DEF SuLoadRegistered, SuRegistered, SuInv, SuTyped
    <3> QED BY <3>1 DEF SuRounds
  <2>2. CASE SuLoadConfigs
    <3>1. PICK want : /\ suRec' = [rec EXCEPT !.at = "apply", !.want = want]
                      /\ want = [d \in SuDevices |-> IF suCfg[d] = "off" THEN {}
                                                     ELSE {[email |-> suCfg[d], known |-> d \in suRec.reg]}]
      BY <1>3, <2>2 DEF SuLoadConfigs
    <3>2. \A d \in SuDevices : want[d] \in SuConfigs
      BY <3>1 DEF SuInv, SuTyped, SuConfigs
    <3>3. want \in [SuDevices -> SuConfigs]
      BY <3>1, <3>2
    <3> QED BY <3>1, <3>3 DEF SuRounds
  <2>3. CASE SuLoadFails \/ SuApplied
    <3>1. suRec' = SuRecIdle
      BY <2>3 DEF SuLoadFails, SuApplied
    <3> QED BY <3>1 DEF SuRecIdle, SuRounds, SuConfigs
  <2>4. CASE suRec' = suRec
    BY <1>3, <2>4
  <2> QED BY <2>1, <2>2, <2>3, <2>4 DEF SuClose, suVars, SuRegister, SuConfigure
<1>5. SuTyped'
  BY <1>1, <1>2, <1>4 DEF SuInv, SuTyped
<1>6. CASE SuRoundGoesOn
  BY <1>1, <1>5, <1>6, SuStep DEF SuRunning
<1>7. CASE SuApplied
  <2>1. \A w \in SuIds, d \in SuDevices : SuRunning(w) /\ suWatcher[w].dev = {d} => suMap[d] = w
    BY <1>7 DEF SuApplied, SuGone, SuInv, SuHeld, SuLetGo
  <2> QED BY <1>1, <1>5, <2>1 DEF SuInv, SuHeld, SuOneWatcher, SuRunning
<1>8. ~SuApplied => SuRoundGoesOn
  BY DEF SuRoundGoesOn, SuLoadRegistered, SuLoadConfigs, SuLoadFails, SuClose, suVars, SuRegister, SuConfigure
<1> QED BY <1>6, <1>7, <1>8

LEMMA SuCancelAll_Inv == ASSUME SuInv, SuCancelAll PROVE SuInv'
<1>1. PICK rec \in SuRounds : rec = suRec
  BY DEF SuInv, SuTyped
<1>2. suRec' = [rec EXCEPT !.at = "left"]
  BY <1>1 DEF SuCancelAll
<1>3. suRec' \in SuRounds /\ suRec'.at = "left"
  BY <1>2 DEF SuRounds
<1>4. /\ suMap' \in [SuDevices -> SuIds \cup {0}] /\ \A d \in SuDevices : suMap'[d] = 0
      /\ UNCHANGED <<suCfg, suReg, suWatcher>>
  BY DEF SuCancelAll, suWorld
<1>5. SuTyped'
  BY <1>3, <1>4 DEF SuInv, SuTyped
<1> QED BY <1>3, <1>4, <1>5 DEF SuInv, SuHeld, SuOneWatcher, SuRunning, SuLetGo

\* applyConfigs and watcherDone of larkwatch.go: a device's watcher is gone before
\* the next one starts, or every card would be sent twice.
THEOREM WatchersHold == SuSpec => []SuOneWatcher
<1>1. SuInv /\ [SuNext]_suVars => SuInv'
  BY SuGoesOn, SuCancelled_Inv, SuDone_Inv, SuApply_Inv, SuRounds_Inv, SuCancelAll_Inv
     DEF SuNext, SuReconciles, SuWatches
<1>2. SuInv => SuOneWatcher
  BY DEF SuInv
<1> QED BY <1>1, <1>2, SuInit_Inv, PTL DEF SuSpec

----------------------------------------------------------------------------
\* portal/phonewatch.go and larkwatch.go: one request is let through once, cards
\* and their updates keep their order, and a device has one watcher.
THEOREM CardsHold == PhoneSpec /\ LkSpec /\ SuSpec => []CardsSafe
<1>1. (LetThroughOnce /\ AppliedOnce) /\ LkCardsSafe /\ SuOneWatcher => CardsSafe
  BY DEF CardsSafe, LkCardsSafe
<1> QED BY <1>1, PhoneHolds, CardsKeepOrder, WatchersHold, PTL
=============================================================================
