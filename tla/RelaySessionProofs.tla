------------------------- MODULE RelaySessionProofs -------------------------
(***************************************************************************)
(* RelaySession, for any number of chunks and polls: a session that leaves  *)
(* because it was drained was drained, a Read that ends by itself has had   *)
(* everything, and the last check that could retire a session does.         *)
(***************************************************************************)
EXTENDS RelaySession, WellFoundedInduction, TLAPS

Phases == {"in", "parked", "hand", "data", "none", "over", "rel1", "rel2", "rel3"}
PollRecords == [role : Roles, live : BOOLEAN, numbered : BOOLEAN, ack : Nat, ph : Phases, k : Nat]
Closing == {"marked", "shut1", "shut2", "rel1", "rel2", "rel3", "done"}
Checking == {"rel1", "rel2", "rel3", "done"}

RsTyped ==
  /\ goneBy \in {"", "drained", "ended", "reaped"}
  /\ closedAt \in BOOLEAN /\ endReason \in BOOLEAN /\ endTold \in BOOLEAN
  /\ sent \in [Roles -> Nat] /\ taken \in [Roles -> Nat] /\ recv \in [Roles -> Nat]
  /\ assigned \in [Roles -> SUBSET Nat]
  /\ qdone \in [Roles -> BOOLEAN] /\ freed \in [Roles -> BOOLEAN]
  /\ polls \subseteq PollRecords
  /\ closer \in [Roles -> {"no", "sent"} \cup Closing]
  /\ scan \in {"no", "marked", "freed", "done"} /\ ender \in {"no", "free"}
  /\ side \in [Roles -> {"open", "ended", "closed", "dead"}]
  /\ saw \in [Roles -> {"", "eof", "gone", "missing"}]

Hand(r, k) == \E p \in polls : p.role = r /\ p.ph = "hand" /\ p.k = k

\* Nothing is left of a direction, and nothing more comes.  Unlike Settled, once
\* true it stays so: a poll may still take the turn and find nothing.
RsDone(r) ==
  /\ qdone[r] /\ assigned[r] = {} /\ taken[r] = sent[r]
  /\ \A p \in polls : p.role = r => p.ph # "hand"

\* The turn is one poll's, and no chunk is taken that was not sent.
RsTurn ==
  /\ \A r \in Roles : taken[r] <= sent[r]
  /\ \A p \in polls, q \in polls :
       p.role = q.role /\ p.ph \in {"parked", "hand"} /\ q.ph \in {"parked", "hand"} => p = q

\* A poll its reader waits for is the only one, of a side that reads.
RsLive ==
  /\ \A p \in polls : p.live => side[p.role] = "open" /\ p.ph \in {"in", "parked", "hand", "data", "none", "over"}
  /\ \A p \in polls, q \in polls : p.role = q.role /\ p.live /\ q.live => p = q

\* A direction the relay still owes to its reader.
RsWhole(r) == goneBy \in {"", "drained"} /\ ~WrittenOff(r)

\* What a reader that is there has not got yet is kept for it, and the poll it
\* waits for brings the next chunk; one that has read to the end has it all.
RsReader(r) ==
  /\ recv[r] <= taken[r] /\ \A k \in assigned[r] : k <= taken[r]
  /\ \A p \in polls : p.role = r => p.ack <= recv[r] /\ (p.ph = "hand" => p.k <= taken[r])
  /\ side[r] \in {"open", "ended"} =>
       \A k \in (recv[r] + 1)..taken[r] : k \in assigned[r] \/ Hand(r, k)
  /\ \A p \in polls : p.role = r /\ p.live =>
       /\ p.ack = recv[r]
       /\ p.ph = "parked" => taken[r] = recv[r]
       /\ p.ph \in {"hand", "data"} => p.k = recv[r] + 1 /\ p.k <= taken[r]
       /\ p.ph = "over" => qdone[r] /\ recv[r] = sent[r]
  /\ saw[r] \in {"eof", "gone"} => qdone[r] /\ recv[r] = sent[r]

\* A plain end is the end, also of a direction that is written off later.
RsEof ==
  goneBy \in {"", "drained"} =>
    \A r \in Roles : saw[r] = "eof" => qdone[r] /\ recv[r] = sent[r] /\ side[r] # "open"

\* The checks on the way out have seen what they let pass.
RsChecks ==
  /\ \A p \in polls : /\ p.ph \in {"rel2", "rel3"} => RsDone("client")
                      /\ p.ph = "rel3" => RsDone("agent")
  /\ \A r \in Roles : /\ closer[r] \in {"rel2", "rel3"} => RsDone("client")
                      /\ closer[r] = "rel3" => RsDone("agent")
  /\ goneBy = "drained" => \A r \in Roles : RsDone(r)

\* What a close has done of its work: a session it found is marked, its queues are
\* shut and the direction of its own side is dropped before the check.
RsEnders ==
  /\ \A r \in Roles : closer[r] # "no" => side[r] = "closed"
  /\ \A r \in Roles : Registered =>
       /\ closer[r] \in Closing => closedAt
       /\ closer[r] \in {"shut1", "shut2"} \cup Checking => qdone["client"]
       /\ closer[r] \in {"shut2"} \cup Checking => qdone["agent"]
       /\ closer[r] \in Checking => freed[r]
  /\ scan # "no" => endReason
  /\ ender = "free" => ~Registered

\* The last check that could retire the session does, unless a reason is untold.
RsRetired ==
  Registered /\ polls = {} /\ (\A r \in Roles : closer[r] = "done") =>
    (\E r \in Roles : ~Settled(r)) \/ (endReason /\ ~endTold)

RsInv ==
  /\ RsTyped /\ RsTurn /\ RsLive
  /\ \A r \in Roles : RsWhole(r) => RsReader(r)
  /\ RsEof
  /\ RsChecks /\ RsEnders /\ RsRetired

----------------------------------------------------------------------------
(* Operators *)

\* Any set of numbers that has a member has a least one.
LEMMA LeastNumber ==
  ASSUME NEW S \in SUBSET Nat, S # {}
  PROVE  Min(S) \in S /\ \A y \in S : Min(S) <= y
<1>1. \E x \in S : \A y \in S : ~ (<<y, x>> \in OpToRel(<, Nat))
  BY WFMin, NatLessThanWellFounded, Zenon
<1>2. PICK x \in S : \A y \in S : ~ (<<y, x>> \in OpToRel(<, Nat))
  BY <1>1
<1>3. \A y \in S : <<y, x>> \in Nat \X Nat
  OBVIOUS
<1>4. \A y \in S : ~(y < x)
  BY <1>2, <1>3 DEF OpToRel
<1>5. \A y \in S : x <= y
  BY <1>4
<1> QED BY <1>5 DEF Min

Became(q, p, live, phase, n) ==
  /\ q \in PollRecords /\ q.role = p.role /\ q.live = live /\ q.numbered = p.numbered
  /\ q.ack = p.ack /\ q.ph = phase /\ q.k = n

\* The poll that takes the place of p: it moves on, with a chunk or without, its
\* reader still there or not.
LEMMA PollMoves ==
  ASSUME NEW p \in PollRecords, NEW phase \in Phases, NEW q, q = [p EXCEPT !.ph = phase]
  PROVE  Became(q, p, p.live, phase, p.k)
BY DEF PollRecords, Became

LEMMA PollTakes ==
  ASSUME NEW p \in PollRecords, NEW phase \in Phases, NEW n \in Nat, NEW q, q = [p EXCEPT !.ph = phase, !.k = n]
  PROVE  Became(q, p, p.live, phase, n)
BY DEF PollRecords, Became

LEMMA PollLeaves ==
  ASSUME NEW p \in PollRecords, NEW phase \in Phases, NEW q, q = [p EXCEPT !.ph = phase, !.live = FALSE]
  PROVE  Became(q, p, FALSE, phase, p.k)
BY DEF PollRecords, Became

LEMMA PollOrphaned ==
  ASSUME NEW p \in PollRecords, NEW q, q = [p EXCEPT !.live = FALSE]
  PROVE  Became(q, p, FALSE, p.ph, p.k)
BY DEF PollRecords, Became

----------------------------------------------------------------------------
(* Steps of a poll: p, its place taken by q *)

Swap(p, q) ==
  /\ q \in PollRecords /\ q.role = p.role /\ polls' = (polls \ {p}) \cup {q}

\* A step that leaves the session's own record, its handlers and its ends alone.
RsQuiet ==
  /\ goneBy' = goneBy /\ closedAt' = closedAt /\ endReason' = endReason /\ endTold' = endTold
  /\ closer' = closer /\ scan' = scan /\ ender' = ender
  /\ side' = side /\ recv' = recv /\ saw' = saw
  /\ sent' = sent /\ qdone' = qdone /\ freed' = freed

LEMMA QuietEnders ==
  ASSUME RsEnders, closer' = closer, side' = side, goneBy' = goneBy, closedAt' = closedAt,
         qdone' = qdone, freed' = freed, scan' = scan, endReason' = endReason, ender' = ender
  PROVE  RsEnders'
BY DEF RsEnders, Registered, Closing, Checking, Roles

\* Nothing more comes to a reader that has read to the end.
LEMMA EofStays ==
  ASSUME RsEof, saw' = saw, recv' = recv, goneBy' \in {"", "drained"} => goneBy \in {"", "drained"},
         \A o \in Roles : /\ side'[o] = "open" => side[o] = "open"
                          /\ qdone[o] => qdone'[o] /\ sent'[o] = sent[o]
  PROVE  RsEof'
BY DEF RsEof

LEMMA SwapRetired == ASSUME NEW p, NEW q, Swap(p, q) PROVE RsRetired'
BY DEF Swap, RsRetired

\* What is done stays done as long as no chunk comes back.
LEMMA QuietChecks ==
  ASSUME RsChecks, closer' = closer, goneBy' = goneBy, NEW p \in polls, NEW q, Swap(p, q),
         q.ph \in {"rel2", "rel3"} => q.ph = p.ph,
         \A r \in Roles : RsDone(r) => RsDone(r)'
  PROVE  RsChecks'
<1>1. \A x \in polls' : x \in polls \/ x = q
  BY DEF Swap
<1>2. closer' = closer /\ goneBy' = goneBy
  OBVIOUS
<1>3. "client" \in Roles /\ "agent" \in Roles
  BY DEF Roles
<1>4. \A x \in polls' : /\ x.ph \in {"rel2", "rel3"} => RsDone("client")
                        /\ x.ph = "rel3" => RsDone("agent")
  BY <1>1 DEF RsChecks
<1> QED BY <1>2, <1>3, <1>4 DEF RsChecks

\* takeUpTo: a replay, a chunk in hand, or the wait.
LEMMA TakeShape ==
  ASSUME RsTyped, NEW p \in polls, Take(p)
  PROVE  LET r == p.role  kept == {k \in assigned[r] : k > p.ack} IN
         /\ RsQuiet /\ p.ph = "in" /\ ~Serving(r) /\ r \in Roles
         /\ assigned' = [assigned EXCEPT ![r] = kept]
         /\ taken' \in [Roles -> Nat] /\ \A o \in Roles : o # r => taken'[o] = taken[o]
         /\ \E q : /\ Swap(p, q) /\ q.live = p.live /\ q.ack = p.ack
                   /\ \/ /\ q.ph = "data" /\ q.k \in kept /\ (\A y \in kept : q.k <= y) /\ taken' = taken
                      \/ /\ q.ph = "hand" /\ q.k = taken[r] + 1 /\ kept = {}
                         /\ taken[r] < sent[r] /\ taken'[r] = taken[r] + 1
                      \/ /\ q.ph = "parked" /\ kept = {} /\ taken[r] >= sent[r] /\ taken' = taken
<1> DEFINE r == p.role
           kept == {k \in assigned[r] : k > p.ack}
<1>0. taken \in [Roles -> Nat] /\ sent \in [Roles -> Nat]
  BY DEF RsTyped
<1>1. p \in PollRecords /\ r \in Roles /\ taken[r] \in Nat /\ sent[r] \in Nat /\ kept \in SUBSET Nat
  BY DEF RsTyped, PollRecords
<1>2. /\ RsQuiet /\ p.ph = "in" /\ ~Serving(r)
      /\ assigned' = [assigned EXCEPT ![r] = kept]
  BY DEF Take, RsQuiet, session, handlers, ends
<1>3. CASE kept # {} /\ polls' = (polls \ {p}) \cup {[p EXCEPT !.ph = "data", !.k = Min(kept)]} /\ UNCHANGED taken
  <2>1. Min(kept) \in kept /\ \A y \in kept : Min(kept) <= y
    BY <1>1, <1>3, LeastNumber, Zenon
  <2>2. Min(kept) \in Nat /\ "data" \in Phases
    BY <2>1, <1>1 DEF Phases
  <2> HIDE DEF kept
  <2>q. PICK q : q = [p EXCEPT !.ph = "data", !.k = Min(kept)]
    OBVIOUS
  <2>3. Swap(p, q) /\ q.live = p.live /\ q.ack = p.ack /\ q.ph = "data" /\ q.k = Min(kept)
    <3>1. polls' = (polls \ {p}) \cup {q}
      BY <2>q, <1>3, Zenon
    <3>2. p \in PollRecords
      BY <1>1
    <3>3. Became(q, p, p.live, "data", Min(kept))
      BY <3>2, <2>q, <2>2, PollTakes, Zenon
    <3> QED BY <3>1, <3>3, Zenon DEF Swap, Became
  <2>4. taken' \in [Roles -> Nat] /\ \A o \in Roles : o # r => taken'[o] = taken[o]
    BY <1>3 DEF RsTyped
  <2> QED BY <2>1, <2>3, <2>4, <1>1, <1>2, <1>3, Zenon DEF kept
<1>4. CASE /\ kept = {} /\ Undrained(r)
           /\ taken' = [taken EXCEPT ![r] = @ + 1]
           /\ polls' = (polls \ {p}) \cup {[p EXCEPT !.ph = "hand", !.k = taken[r] + 1]}
  <2>2. taken[r] + 1 \in Nat /\ "hand" \in Phases
    BY <1>1 DEF Phases
  <2>q. PICK q : q = [p EXCEPT !.ph = "hand", !.k = taken[r] + 1]
    OBVIOUS
  <2>3. Swap(p, q) /\ q.live = p.live /\ q.ack = p.ack /\ q.ph = "hand" /\ q.k = taken[r] + 1
    <3>1. polls' = (polls \ {p}) \cup {q}
      BY <2>q, <1>4, Zenon
    <3>2. p \in PollRecords
      BY <1>1
    <3>3. Became(q, p, p.live, "hand", taken[r] + 1)
      BY <3>2, <2>q, <2>2, PollTakes, Zenon
    <3> QED BY <3>1, <3>3, Zenon DEF Swap, Became
  <2> HIDE DEF kept
  <2>4. /\ taken' \in [Roles -> Nat] /\ \A o \in Roles : o # r => taken'[o] = taken[o]
        /\ taken'[r] = taken[r] + 1 /\ taken[r] < sent[r]
    <3>1. taken' = [taken EXCEPT ![r] = @ + 1] /\ Undrained(r)
      BY <1>4, Zenon
    <3> QED BY <1>0, <1>1, <3>1 DEF Undrained
  <2> QED BY <2>3, <2>4, <1>1, <1>2, <1>4, Zenon DEF kept
<1>5. CASE kept = {} /\ ~Undrained(r) /\ Move(p, "parked") /\ UNCHANGED taken
  <2>2. "parked" \in Phases
    BY DEF Phases
  <2>q. PICK q : q = [p EXCEPT !.ph = "parked"]
    OBVIOUS
  <2>3. Swap(p, q) /\ q.live = p.live /\ q.ack = p.ack /\ q.ph = "parked"
    <3>1. polls' = (polls \ {p}) \cup {q}
      BY <2>q, <1>5, Zenon DEF Move
    <3>2. p \in PollRecords
      BY <1>1
    <3>3. Became(q, p, p.live, "parked", p.k)
      BY <3>2, <2>q, <2>2, PollMoves, Zenon
    <3> QED BY <3>1, <3>3, Zenon DEF Swap, Became
  <2> HIDE DEF kept
  <2>4. taken' \in [Roles -> Nat] /\ (\A o \in Roles : o # r => taken'[o] = taken[o]) /\ taken[r] >= sent[r]
    <3>1. taken' = taken /\ ~Undrained(r)
      BY <1>5, Zenon
    <3> QED BY <1>0, <1>1, <3>1 DEF Undrained
  <2> QED BY <2>3, <2>4, <1>1, <1>2, <1>5, Zenon DEF kept
<1> QED BY <1>3, <1>4, <1>5 DEF Take

LEMMA TakeInv ==
  ASSUME RsInv, NEW p \in polls, Take(p)
  PROVE  RsInv'
<1> DEFINE r == p.role
           kept == {k \in assigned[r] : k > p.ack}
<1>1. RsTyped /\ RsTurn /\ RsLive /\ RsChecks /\ RsEnders
  BY DEF RsInv
<1>2. /\ RsQuiet /\ p.ph = "in" /\ ~Serving(r) /\ r \in Roles
      /\ assigned' = [assigned EXCEPT ![r] = kept]
      /\ taken' \in [Roles -> Nat] /\ \A o \in Roles : o # r => taken'[o] = taken[o]
  BY <1>1, TakeShape, Zenon
<1>3. PICK q : /\ Swap(p, q) /\ q.live = p.live /\ q.ack = p.ack
               /\ \/ /\ q.ph = "data" /\ q.k \in kept /\ (\A y \in kept : q.k <= y) /\ taken' = taken
                  \/ /\ q.ph = "hand" /\ q.k = taken[r] + 1 /\ kept = {}
                     /\ taken[r] < sent[r] /\ taken'[r] = taken[r] + 1
                  \/ /\ q.ph = "parked" /\ kept = {} /\ taken[r] >= sent[r] /\ taken' = taken
  BY <1>1, TakeShape, Zenon
<1>4. /\ q \in PollRecords /\ q.role = r /\ polls' = (polls \ {p}) \cup {q}
      /\ \A x \in polls' : x \in polls \/ x = q
      /\ \A x \in polls : x # p => x \in polls'
      /\ q \in polls'
  BY <1>3 DEF Swap
<1>5. RsTyped'
  BY <1>1, <1>2, <1>4 DEF RsTyped, RsQuiet, Closing
<1>6. /\ assigned \in [Roles -> SUBSET Nat] /\ taken \in [Roles -> Nat] /\ sent \in [Roles -> Nat]
      /\ recv \in [Roles -> Nat] /\ p \in PollRecords /\ p.ack \in Nat
      /\ \A x \in polls : x.role \in Roles /\ x.k \in Nat /\ x.ack \in Nat
  BY <1>1 DEF RsTyped, PollRecords
<1>7. assigned'[r] = kept /\ \A o \in Roles : o # r => assigned'[o] = assigned[o]
  BY <1>2, <1>6
<1>8. \A x \in polls : x.role = r => x.ph \notin {"parked", "hand"}
  BY <1>2 DEF Serving, PollsOf
<1>9. RsTurn'
  <2>1. \A o \in Roles : taken'[o] <= sent'[o]
    BY <1>1, <1>2, <1>3, <1>6 DEF RsTurn, RsQuiet
  <2>2. \A x \in polls', y \in polls' :
          x.role = y.role /\ x.ph \in {"parked", "hand"} /\ y.ph \in {"parked", "hand"} => x = y
    BY <1>1, <1>4, <1>8 DEF RsTurn
  <2> QED BY <2>1, <2>2 DEF RsTurn
<1>10. RsLive'
  <2>1. side' = side
    BY <1>2 DEF RsQuiet
  <2> QED BY <1>1, <1>3, <1>4, <2>1 DEF RsLive
<1>11. ASSUME NEW o \in Roles, RsWhole(o)' PROVE RsReader(o)'
  <2>1. RsReader(o) /\ side' = side /\ recv' = recv /\ qdone' = qdone /\ sent' = sent /\ saw' = saw
    BY <1>2, <1>11 DEF RsInv, RsQuiet, RsWhole, WrittenOff
  <2>2. CASE o # r
    <3>1. taken'[o] = taken[o] /\ assigned'[o] = assigned[o]
      BY <2>2, <1>2, <1>7
    <3>2. \A k : Hand(o, k) => Hand(o, k)'
      BY <1>4, <2>2 DEF Hand
    <3>3. \A x \in polls' : x.role = o => x \in polls
      BY <1>4, <2>2
    <3> QED BY <2>1, <3>1, <3>2, <3>3 DEF RsReader
  <2>3. CASE o = r
    <3>1. /\ recv[r] <= taken[r] /\ (\A k \in assigned[r] : k <= taken[r])
          /\ p.ack <= recv[r] /\ (p.live => p.ack = recv[r])
          /\ side[r] \in {"open", "ended"} =>
               \A k \in (recv[r] + 1)..taken[r] : k \in assigned[r] \/ Hand(r, k)
          /\ \A x \in polls : x.role = r => x.ack <= recv[r]
          /\ saw[r] \in {"eof", "gone"} => qdone[r] /\ recv[r] = sent[r]
      BY <2>1, <2>3 DEF RsReader
    <3>2. \A k : ~Hand(r, k)
      BY <1>8 DEF Hand
    <3>3. side[r] \in {"open", "ended"} => \A k \in (recv[r] + 1)..taken[r] : k \in kept
      BY <3>1, <3>2, <1>6, <1>2
    <3>4. q.live => \A x \in polls' : x.role = r /\ x.live => x = q
      BY <1>10, <1>4 DEF RsLive
    <3>5. \A x \in polls : x.role = r /\ x.live /\ x # p => ~p.live
      BY <1>1 DEF RsLive
    <3>6. recv[r] <= taken'[r] /\ \A k \in assigned'[r] : k <= taken'[r]
      BY <3>1, <1>3, <1>6, <1>7, <1>2
    <3>7. \A x \in polls' : x.role = r => x.ack <= recv[r] /\ (x.ph = "hand" => x.k <= taken'[r])
      BY <3>1, <1>3, <1>4, <1>6, <1>8, <1>2
    <3>8. side[r] \in {"open", "ended"} =>
            \A k \in (recv[r] + 1)..taken'[r] : k \in assigned'[r] \/ Hand(r, k)'
      <4>1. q.ph = "hand" => Hand(r, q.k)'
        BY <1>4 DEF Hand
      <4> QED BY <4>1, <3>3, <1>3, <1>6, <1>7, <1>2
    <3>9. p.live => side[r] = "open"
      BY <1>1 DEF RsLive
    <3>10. ASSUME q.live
           PROVE  /\ q.ph = "parked" => taken'[r] = recv[r]
                  /\ q.ph \in {"hand", "data"} => q.k = recv[r] + 1 /\ q.k <= taken'[r]
                  /\ q.ph # "over"
      <4>1. side[r] \in {"open", "ended"} /\ p.ack = recv[r]
        BY <1>3, <3>1, <3>9, <3>10
      <4>2. kept = {} => taken[r] = recv[r]
        BY <4>1, <3>1, <3>3, <1>6, <1>2
      <4>3. CASE q.ph = "data"
        <5>1. q.k \in kept /\ q.k > recv[r] /\ q.k <= taken[r] /\ taken' = taken /\ q.k \in Nat
          BY <4>1, <4>3, <1>3, <3>1, <1>4 DEF PollRecords
        <5>2. recv[r] + 1 \in kept
          BY <5>1, <4>1, <3>3, <1>6, <1>2
        <5>3. q.k <= recv[r] + 1
          BY <5>2, <4>3, <1>3
        <5> QED BY <5>1, <5>3, <4>3, <1>6, <1>2
      <4> QED BY <4>2, <4>3, <1>3, <1>6, <1>2
    <3>11. \A x \in polls' : x.role = r /\ x.live =>
             /\ x.ack = recv[r]
             /\ x.ph = "parked" => taken'[r] = recv[r]
             /\ x.ph \in {"hand", "data"} => x.k = recv[r] + 1 /\ x.k <= taken'[r]
             /\ x.ph = "over" => qdone[r] /\ recv[r] = sent[r]
      <4> SUFFICES ASSUME NEW x \in polls', x.role = r, x.live
                   PROVE  /\ x.ack = recv[r]
                          /\ x.ph = "parked" => taken'[r] = recv[r]
                          /\ x.ph \in {"hand", "data"} => x.k = recv[r] + 1 /\ x.k <= taken'[r]
                          /\ x.ph = "over" => qdone[r] /\ recv[r] = sent[r]
        OBVIOUS
      <4>1. CASE x = q
        BY <4>1, <3>10, <3>1, <1>3
      <4>2. CASE x \in polls /\ x # q
        <5>1. x # p \/ ~(p.ph \in {"parked", "hand", "data", "over"})
          BY <1>2
        <5>2. /\ x.ack = recv[r]
              /\ x.ph = "parked" => taken[r] = recv[r]
              /\ x.ph \in {"hand", "data"} => x.k = recv[r] + 1 /\ x.k <= taken[r]
              /\ x.ph = "over" => qdone[r] /\ recv[r] = sent[r]
          BY <4>2, <2>1, <2>3 DEF RsReader
        <5> QED BY <5>2, <4>2, <1>8, <1>3, <1>6, <1>2
      <4> QED BY <4>1, <4>2, <1>4
    <3> QED BY <2>1, <2>3, <3>1, <3>6, <3>7, <3>8, <3>11 DEF RsReader
  <2> QED BY <2>2, <2>3
<1>12. RsChecks'
  <2>1. ASSUME NEW o \in Roles, RsDone(o) PROVE RsDone(o)'
    <3>1. qdone'[o] /\ sent' = sent /\ qdone[o] /\ assigned[o] = {} /\ taken[o] = sent[o]
          /\ \A x \in polls : x.role = o => x.ph # "hand"
      BY <2>1, <1>2 DEF RsDone, RsQuiet
    <3>2. o = r => kept = {} /\ q.ph = "parked" /\ taken' = taken
      BY <3>1, <1>3, <1>6, <1>2
    <3>3. assigned'[o] = {} /\ taken'[o] = sent'[o]
      BY <3>1, <3>2, <1>7, <1>2
    <3>4. \A x \in polls' : x.role = o => x.ph # "hand"
      BY <3>1, <3>2, <1>4
    <3> QED BY <3>1, <3>3, <3>4 DEF RsDone
  <2>2. q.ph \notin {"rel2", "rel3"}
    BY <1>3
  <2> QED BY <2>1, <2>2, <1>1, <1>2, <1>3, QuietChecks, Zenon DEF RsQuiet
<1>13. RsEnders'
  <2>1. /\ closer' = closer /\ side' = side /\ goneBy' = goneBy /\ closedAt' = closedAt
        /\ qdone' = qdone /\ freed' = freed
        /\ scan' = scan /\ endReason' = endReason /\ ender' = ender
    BY <1>2 DEF RsQuiet
  <2> QED BY <2>1, <1>1, QuietEnders, Zenon
<1>14. RsRetired'
  BY <1>3, SwapRetired, Zenon
<1>15. RsEof'
  BY <1>2, EofStays DEF RsInv, RsQuiet
<1> QED BY <1>5, <1>9, <1>10, <1>11, <1>12, <1>13, <1>14, <1>15 DEF RsInv

\* A direction none of whose polls, chunks or ends changes.
LEMMA OtherReader ==
  ASSUME NEW o \in Roles, RsReader(o),
         \A x : x.role = o => (x \in polls' <=> x \in polls),
         side'[o] = side[o], recv'[o] = recv[o], saw'[o] = saw[o], sent'[o] = sent[o],
         taken'[o] = taken[o], assigned'[o] = assigned[o], qdone'[o] = qdone[o]
  PROVE  RsReader(o)'
<1>1. \A k : Hand(o, k) => Hand(o, k)'
  BY DEF Hand
<1>2. \A x \in polls' : x.role = o => x \in polls
  OBVIOUS
<1> QED BY <1>1, <1>2 DEF RsReader

\* drainUpTo, parked: a chunk in hand, the end, or nothing.
LEMMA ParkedShape ==
  ASSUME RsTyped, NEW p \in polls, ParkedEnds(p)
  PROVE  LET r == p.role IN
         /\ RsQuiet /\ p.ph = "parked" /\ r \in Roles
         /\ assigned' = assigned
         /\ taken' \in [Roles -> Nat] /\ \A o \in Roles : o # r => taken'[o] = taken[o]
         /\ \E q : /\ Swap(p, q) /\ q.live = p.live /\ q.ack = p.ack
                   /\ \/ /\ q.ph = "hand" /\ q.k = taken[r] + 1
                         /\ taken[r] < sent[r] /\ taken'[r] = taken[r] + 1
                      \/ q.ph = "over" /\ taken[r] >= sent[r] /\ qdone[r] /\ taken' = taken
                      \/ q.ph = "none" /\ taken' = taken
<1> DEFINE r == p.role
<1>0. taken \in [Roles -> Nat] /\ sent \in [Roles -> Nat]
  BY DEF RsTyped
<1>1. p \in PollRecords /\ r \in Roles /\ taken[r] \in Nat /\ sent[r] \in Nat
  BY DEF RsTyped, PollRecords
<1>2. RsQuiet /\ p.ph = "parked" /\ assigned' = assigned
  BY DEF ParkedEnds, RsQuiet, session, handlers, ends
<1>3. CASE /\ Undrained(r)
           /\ taken' = [taken EXCEPT ![r] = @ + 1]
           /\ polls' = (polls \ {p}) \cup {[p EXCEPT !.ph = "hand", !.k = taken[r] + 1]}
  <2>1. taken[r] + 1 \in Nat /\ "hand" \in Phases
    BY <1>1 DEF Phases
  <2>2. PICK q : q = [p EXCEPT !.ph = "hand", !.k = taken[r] + 1]
    OBVIOUS
  <2>3. Became(q, p, p.live, "hand", taken[r] + 1)
    BY <2>1, <2>2, <1>1, PollTakes, Zenon
  <2>4. polls' = (polls \ {p}) \cup {q}
    BY <2>2, <1>3, Zenon
  <2>5. Swap(p, q) /\ q.live = p.live /\ q.ack = p.ack /\ q.ph = "hand" /\ q.k = taken[r] + 1
    BY <2>3, <2>4, Zenon DEF Swap, Became
  <2>6. taken' = [taken EXCEPT ![r] = @ + 1] /\ Undrained(r)
    BY <1>3, Zenon
  <2>7. /\ taken' \in [Roles -> Nat] /\ \A o \in Roles : o # r => taken'[o] = taken[o]
        /\ taken'[r] = taken[r] + 1 /\ taken[r] < sent[r]
    BY <1>0, <1>1, <2>6 DEF Undrained
  <2> QED BY <2>5, <2>7, <1>1, <1>2, Zenon
<1>4. CASE ~Undrained(r) /\ qdone[r] /\ Move(p, "over") /\ UNCHANGED taken
  <2>1. "over" \in Phases
    BY DEF Phases
  <2>2. PICK q : q = [p EXCEPT !.ph = "over"]
    OBVIOUS
  <2>3. Became(q, p, p.live, "over", p.k)
    BY <2>1, <2>2, <1>1, PollMoves, Zenon
  <2>4. polls' = (polls \ {p}) \cup {q}
    BY <2>2, <1>4, Zenon DEF Move
  <2>5. Swap(p, q) /\ q.live = p.live /\ q.ack = p.ack /\ q.ph = "over"
    BY <2>3, <2>4, Zenon DEF Swap, Became
  <2>6. taken' = taken /\ ~Undrained(r) /\ qdone[r]
    BY <1>4, Zenon
  <2>7. /\ taken' \in [Roles -> Nat] /\ \A o \in Roles : o # r => taken'[o] = taken[o]
        /\ taken[r] >= sent[r]
    BY <1>0, <1>1, <2>6 DEF Undrained
  <2> QED BY <2>5, <2>6, <2>7, <1>1, <1>2, Zenon
<1>5. CASE Move(p, "none") /\ UNCHANGED taken
  <2>1. "none" \in Phases
    BY DEF Phases
  <2>2. PICK q : q = [p EXCEPT !.ph = "none"]
    OBVIOUS
  <2>3. Became(q, p, p.live, "none", p.k)
    BY <2>1, <2>2, <1>1, PollMoves, Zenon
  <2>4. polls' = (polls \ {p}) \cup {q}
    BY <2>2, <1>5, Zenon DEF Move
  <2>5. Swap(p, q) /\ q.live = p.live /\ q.ack = p.ack /\ q.ph = "none"
    BY <2>3, <2>4, Zenon DEF Swap, Became
  <2>6. taken' = taken
    BY <1>5, Zenon
  <2>7. taken' \in [Roles -> Nat] /\ \A o \in Roles : o # r => taken'[o] = taken[o]
    BY <1>0, <1>1, <2>6
  <2> QED BY <2>5, <2>6, <2>7, <1>1, <1>2, Zenon
<1> QED BY <1>3, <1>4, <1>5 DEF ParkedEnds

LEMMA ParkedInv ==
  ASSUME RsInv, NEW p \in polls, ParkedEnds(p)
  PROVE  RsInv'
<1> DEFINE r == p.role
<1>1. RsTyped /\ RsTurn /\ RsLive /\ RsChecks /\ RsEnders
  BY DEF RsInv
<1>2. /\ RsQuiet /\ p.ph = "parked" /\ r \in Roles /\ assigned' = assigned
      /\ taken' \in [Roles -> Nat] /\ \A o \in Roles : o # r => taken'[o] = taken[o]
  BY <1>1, ParkedShape, Zenon
<1>3. PICK q : /\ Swap(p, q) /\ q.live = p.live /\ q.ack = p.ack
               /\ \/ /\ q.ph = "hand" /\ q.k = taken[r] + 1
                     /\ taken[r] < sent[r] /\ taken'[r] = taken[r] + 1
                  \/ q.ph = "over" /\ taken[r] >= sent[r] /\ qdone[r] /\ taken' = taken
                  \/ q.ph = "none" /\ taken' = taken
  BY <1>1, ParkedShape, Zenon
<1>4. /\ q \in PollRecords /\ q.role = r /\ polls' = (polls \ {p}) \cup {q}
      /\ \A x \in polls' : x = q \/ (x \in polls /\ x # p)
      /\ \A x \in polls : x # p => x \in polls'
      /\ q \in polls'
  BY <1>3 DEF Swap
<1>5. RsTyped'
  BY <1>1, <1>2, <1>4 DEF RsTyped, RsQuiet, Closing
<1>6. /\ assigned \in [Roles -> SUBSET Nat] /\ taken \in [Roles -> Nat] /\ sent \in [Roles -> Nat]
      /\ recv \in [Roles -> Nat] /\ p \in PollRecords /\ p.ack \in Nat
      /\ \A x \in polls : x.role \in Roles /\ x.k \in Nat /\ x.ack \in Nat
  BY <1>1 DEF RsTyped, PollRecords
<1>8. \A x \in polls : x.role = r /\ x # p => x.ph \notin {"parked", "hand"}
  BY <1>1, <1>2 DEF RsTurn
<1>9. RsTurn'
  <2>1. \A o \in Roles : taken'[o] <= sent'[o]
    BY <1>1, <1>2, <1>3, <1>6 DEF RsTurn, RsQuiet
  <2>2. \A x \in polls', y \in polls' :
          x.role = y.role /\ x.ph \in {"parked", "hand"} /\ y.ph \in {"parked", "hand"} => x = y
    BY <1>1, <1>4, <1>8 DEF RsTurn
  <2> QED BY <2>1, <2>2 DEF RsTurn
<1>10. RsLive'
  <2>1. side' = side
    BY <1>2 DEF RsQuiet
  <2> QED BY <1>1, <1>3, <1>4, <2>1 DEF RsLive
<1>11. ASSUME NEW o \in Roles, RsWhole(o)' PROVE RsReader(o)'
  <2>1. RsReader(o) /\ side' = side /\ recv' = recv /\ qdone' = qdone /\ sent' = sent /\ saw' = saw
    BY <1>2, <1>11 DEF RsInv, RsQuiet, RsWhole, WrittenOff
  <2>2. CASE o # r
    <3>1. taken'[o] = taken[o] /\ assigned'[o] = assigned[o]
      BY <2>2, <1>2
    <3>2. \A x : x.role = o => (x \in polls' <=> x \in polls)
      BY <1>4, <2>2
    <3> QED BY <2>1, <3>1, <3>2, OtherReader
  <2>3. CASE o = r
    <3>1. /\ recv[r] <= taken[r] /\ (\A k \in assigned[r] : k <= taken[r])
          /\ side[r] \in {"open", "ended"} =>
               \A k \in (recv[r] + 1)..taken[r] : k \in assigned[r] \/ Hand(r, k)
          /\ \A x \in polls : x.role = r => x.ack <= recv[r]
          /\ saw[r] \in {"eof", "gone"} => qdone[r] /\ recv[r] = sent[r]
          /\ p.live => taken[r] = recv[r] /\ p.ack = recv[r]
      BY <1>2, <2>1, <2>3 DEF RsReader
    <3>2. \A k : ~Hand(r, k)
      BY <1>8, <1>2 DEF Hand
    <3>6. recv[r] <= taken'[r] /\ \A k \in assigned'[r] : k <= taken'[r]
      BY <3>1, <1>3, <1>6, <1>2
    <3>7. \A x \in polls' : x.role = r => x.ack <= recv[r] /\ (x.ph = "hand" => x.k <= taken'[r])
      BY <3>1, <1>3, <1>4, <1>6, <1>8, <1>2
    <3>8. side[r] \in {"open", "ended"} =>
            \A k \in (recv[r] + 1)..taken'[r] : k \in assigned'[r] \/ Hand(r, k)'
      <4>1. q.ph = "hand" => Hand(r, q.k)'
        BY <1>4 DEF Hand
      <4> QED BY <4>1, <3>1, <3>2, <1>3, <1>6, <1>2
    <3>10. ASSUME q.live
           PROVE  /\ q.ph = "hand" => q.k = recv[r] + 1 /\ q.k <= taken'[r]
                  /\ q.ph = "over" => qdone[r] /\ recv[r] = sent[r]
      <4>1. recv[r] = taken[r] /\ taken[r] <= sent[r]
        BY <1>1, <1>2, <1>3, <3>1, <3>10 DEF RsTurn
      <4> QED BY <4>1, <1>3, <1>6, <1>2
    <3>11. \A x \in polls' : x.role = r /\ x.live =>
             /\ x.ack = recv[r]
             /\ x.ph = "parked" => taken'[r] = recv[r]
             /\ x.ph \in {"hand", "data"} => x.k = recv[r] + 1 /\ x.k <= taken'[r]
             /\ x.ph = "over" => qdone[r] /\ recv[r] = sent[r]
      <4> SUFFICES ASSUME NEW x \in polls', x.role = r, x.live
                   PROVE  /\ x.ack = recv[r]
                          /\ x.ph = "parked" => taken'[r] = recv[r]
                          /\ x.ph \in {"hand", "data"} => x.k = recv[r] + 1 /\ x.k <= taken'[r]
                          /\ x.ph = "over" => qdone[r] /\ recv[r] = sent[r]
        OBVIOUS
      <4>1. CASE x = q
        BY <4>1, <3>10, <3>1, <1>3
      <4>2. CASE x \in polls /\ x # p
        <5>2. /\ x.ack = recv[r]
              /\ x.ph \in {"hand", "data"} => x.k = recv[r] + 1 /\ x.k <= taken[r]
              /\ x.ph = "over" => qdone[r] /\ recv[r] = sent[r]
          BY <4>2, <2>1, <2>3 DEF RsReader
        <5> QED BY <5>2, <4>2, <1>8, <1>3, <1>6, <1>2
      <4> QED BY <4>1, <4>2, <1>4
    <3> QED BY <2>1, <2>3, <3>1, <3>6, <3>7, <3>8, <3>11 DEF RsReader
  <2> QED BY <2>2, <2>3
<1>12. RsChecks'
  <2>1. ASSUME NEW o \in Roles, RsDone(o) PROVE RsDone(o)'
    <3>1. qdone'[o] /\ sent' = sent /\ assigned[o] = {} /\ taken[o] = sent[o]
          /\ \A x \in polls : x.role = o => x.ph # "hand"
      BY <2>1, <1>2 DEF RsDone, RsQuiet
    <3>2. o = r => q.ph # "hand" /\ taken' = taken
      BY <3>1, <1>3, <1>6, <1>2
    <3>3. assigned'[o] = {} /\ taken'[o] = sent'[o]
      BY <3>1, <3>2, <1>2
    <3>4. \A x \in polls' : x.role = o => x.ph # "hand"
      BY <3>1, <3>2, <1>4
    <3> QED BY <3>1, <3>3, <3>4 DEF RsDone
  <2>2. q.ph \notin {"rel2", "rel3"}
    BY <1>3
  <2> QED BY <2>1, <2>2, <1>1, <1>2, <1>3, QuietChecks, Zenon DEF RsQuiet
<1>13. RsEnders'
  <2>1. /\ closer' = closer /\ side' = side /\ goneBy' = goneBy /\ closedAt' = closedAt
        /\ qdone' = qdone /\ freed' = freed
        /\ scan' = scan /\ endReason' = endReason /\ ender' = ender
    BY <1>2 DEF RsQuiet
  <2> QED BY <2>1, <1>1, QuietEnders, Zenon
<1>14. RsRetired'
  BY <1>3, SwapRetired, Zenon
<1>15. RsEof'
  BY <1>2, EofStays DEF RsInv, RsQuiet
<1> QED BY <1>5, <1>9, <1>10, <1>11, <1>12, <1>13, <1>14, <1>15 DEF RsInv

LEMMA AssignInv ==
  ASSUME RsInv, NEW p \in polls, Assign(p)
  PROVE  RsInv'
<1> DEFINE r == p.role
<1>1. RsTyped /\ RsTurn /\ RsLive /\ RsChecks /\ RsEnders
  BY DEF RsInv
<1>2. /\ RsQuiet /\ p.ph = "hand" /\ taken' = taken
      /\ assigned' = [assigned EXCEPT ![r] = @ \cup {p.k}]
  BY DEF Assign, RsQuiet, session, handlers, ends
<1>6. /\ assigned \in [Roles -> SUBSET Nat] /\ taken \in [Roles -> Nat] /\ sent \in [Roles -> Nat]
      /\ recv \in [Roles -> Nat] /\ p \in PollRecords /\ p.ack \in Nat /\ p.k \in Nat /\ r \in Roles
      /\ \A x \in polls : x.role \in Roles /\ x.k \in Nat /\ x.ack \in Nat
  BY <1>1 DEF RsTyped, PollRecords
<1>3. PICK q : Swap(p, q) /\ q.live = p.live /\ q.ack = p.ack /\ q.ph = "data" /\ q.k = p.k
  <2>1. "data" \in Phases
    BY DEF Phases
  <2>2. PICK q : q = [p EXCEPT !.ph = "data"]
    OBVIOUS
  <2>3. Became(q, p, p.live, "data", p.k)
    BY <2>1, <2>2, <1>6, PollMoves, Zenon
  <2>4. polls' = (polls \ {p}) \cup {q}
    BY <2>2, Zenon DEF Assign, Move
  <2> QED BY <2>3, <2>4, Zenon DEF Swap, Became
<1>4. /\ q \in PollRecords /\ q.role = r /\ polls' = (polls \ {p}) \cup {q}
      /\ \A x \in polls' : x = q \/ (x \in polls /\ x # p)
      /\ \A x \in polls : x # p => x \in polls'
      /\ q \in polls'
  BY <1>3 DEF Swap
<1>5. RsTyped'
  <2>1. assigned' \in [Roles -> SUBSET Nat]
    BY <1>2, <1>6
  <2> QED BY <2>1, <1>1, <1>2, <1>4 DEF RsTyped, RsQuiet, Closing
<1>7. assigned'[r] = assigned[r] \cup {p.k} /\ \A o \in Roles : o # r => assigned'[o] = assigned[o]
  BY <1>2, <1>6
<1>8. \A x \in polls : x.role = r /\ x # p => x.ph \notin {"parked", "hand"}
  BY <1>1, <1>2 DEF RsTurn
<1>9. RsTurn'
  <2>1. \A o \in Roles : taken'[o] <= sent'[o]
    BY <1>1, <1>2 DEF RsTurn, RsQuiet
  <2>2. \A x \in polls', y \in polls' :
          x.role = y.role /\ x.ph \in {"parked", "hand"} /\ y.ph \in {"parked", "hand"} => x = y
    BY <1>1, <1>3, <1>4 DEF RsTurn
  <2> QED BY <2>1, <2>2 DEF RsTurn
<1>10. RsLive'
  <2>1. side' = side
    BY <1>2 DEF RsQuiet
  <2> QED BY <1>1, <1>3, <1>4, <2>1 DEF RsLive
<1>11. ASSUME NEW o \in Roles, RsWhole(o)' PROVE RsReader(o)'
  <2>1. RsReader(o) /\ side' = side /\ recv' = recv /\ qdone' = qdone /\ sent' = sent /\ saw' = saw
    BY <1>2, <1>11 DEF RsInv, RsQuiet, RsWhole, WrittenOff
  <2>2. CASE o # r
    <3>1. taken'[o] = taken[o] /\ assigned'[o] = assigned[o]
      BY <2>2, <1>2, <1>7
    <3>2. \A x : x.role = o => (x \in polls' <=> x \in polls)
      BY <1>4, <2>2
    <3> QED BY <2>1, <3>1, <3>2, OtherReader
  <2>3. CASE o = r
    <3>1. /\ recv[r] <= taken[r] /\ (\A k \in assigned[r] : k <= taken[r])
          /\ side[r] \in {"open", "ended"} =>
               \A k \in (recv[r] + 1)..taken[r] : k \in assigned[r] \/ Hand(r, k)
          /\ \A x \in polls : x.role = r => x.ack <= recv[r] /\ (x.ph = "hand" => x.k <= taken[r])
          /\ saw[r] \in {"eof", "gone"} => qdone[r] /\ recv[r] = sent[r]
          /\ \A x \in polls : x.role = r /\ x.live =>
               /\ x.ack = recv[r]
               /\ x.ph = "parked" => taken[r] = recv[r]
               /\ x.ph \in {"hand", "data"} => x.k = recv[r] + 1 /\ x.k <= taken[r]
               /\ x.ph = "over" => qdone[r] /\ recv[r] = sent[r]
      BY <2>1, <2>3 DEF RsReader
    <3>2. \A k : Hand(r, k) => k = p.k
      BY <1>8 DEF Hand
    <3>3. recv[r] <= taken'[r] /\ \A k \in assigned'[r] : k <= taken'[r]
      BY <3>1, <1>2, <1>7
    <3>4. \A x \in polls' : x.role = r => x.ack <= recv[r] /\ (x.ph = "hand" => x.k <= taken'[r])
      BY <3>1, <1>2, <1>3, <1>4
    <3>5. side[r] \in {"open", "ended"} =>
            \A k \in (recv[r] + 1)..taken'[r] : k \in assigned'[r] \/ Hand(r, k)'
      BY <3>1, <3>2, <1>2, <1>7
    <3>6. \A x \in polls' : x.role = r /\ x.live =>
             /\ x.ack = recv[r]
             /\ x.ph = "parked" => taken'[r] = recv[r]
             /\ x.ph \in {"hand", "data"} => x.k = recv[r] + 1 /\ x.k <= taken'[r]
             /\ x.ph = "over" => qdone[r] /\ recv[r] = sent[r]
      BY <3>1, <1>2, <1>3, <1>4
    <3> QED BY <2>1, <2>3, <3>1, <3>3, <3>4, <3>5, <3>6 DEF RsReader
  <2> QED BY <2>2, <2>3
<1>12. RsChecks'
  <2>1. ASSUME NEW o \in Roles, RsDone(o) PROVE RsDone(o)'
    <3>1. qdone'[o] /\ sent' = sent /\ assigned[o] = {} /\ taken[o] = sent[o]
          /\ \A x \in polls : x.role = o => x.ph # "hand"
      BY <2>1, <1>2 DEF RsDone, RsQuiet
    <3>2. o # r
      BY <3>1, <1>2
    <3>3. assigned'[o] = {} /\ taken'[o] = sent'[o]
      BY <3>1, <3>2, <1>2, <1>7
    <3>4. \A x \in polls' : x.role = o => x.ph # "hand"
      BY <3>1, <3>2, <1>4
    <3> QED BY <3>1, <3>3, <3>4 DEF RsDone
  <2>2. q.ph \notin {"rel2", "rel3"}
    BY <1>3
  <2> QED BY <2>1, <2>2, <1>1, <1>2, <1>3, QuietChecks, Zenon DEF RsQuiet
<1>13. RsEnders'
  <2>1. /\ closer' = closer /\ side' = side /\ goneBy' = goneBy /\ closedAt' = closedAt
        /\ qdone' = qdone /\ freed' = freed
        /\ scan' = scan /\ endReason' = endReason /\ ender' = ender
    BY <1>2 DEF RsQuiet
  <2> QED BY <2>1, <1>1, QuietEnders, Zenon
<1>14. RsRetired'
  BY <1>3, SwapRetired, Zenon
<1>15. RsEof'
  BY <1>2, EofStays DEF RsInv, RsQuiet
<1> QED BY <1>5, <1>9, <1>10, <1>11, <1>12, <1>13, <1>14, <1>15 DEF RsInv

\* The polls that lose their reader are as they were in every other way.
LEMMA OrphansInv ==
  ASSUME RsInv, NEW r \in Roles, polls' \subseteq PollRecords,
         \A x \in polls' : \E y \in polls : Became(x, y, x.live, y.ph, y.k) /\ (x.live => x = y),
         \A y \in polls : \E x \in polls' : Became(x, y, x.live, y.ph, y.k),
         goneBy' = goneBy, closedAt' = closedAt, endReason' = endReason, endTold' = endTold,
         sent' = sent, taken' = taken, assigned' = assigned, qdone' = qdone, freed' = freed,
         scan' = scan, ender' = ender, recv' = recv, saw' = saw,
         \A x \in polls', y \in polls' :
           x.role = y.role /\ x.ph \in {"parked", "hand"} /\ y.ph \in {"parked", "hand"} => x = y,
         side' = side \/ (/\ side' \in [Roles -> {"open", "ended", "closed", "dead"}]
                          /\ side[r] \in {"open", "ended"} /\ side'[r] \notin {"open", "ended"}
                          /\ (\A o \in Roles : o # r => side'[o] = side[o])
                          /\ \A x \in polls' : x.role = r => ~x.live),
         closer' = closer \/ (/\ closer' = [closer EXCEPT ![r] = "sent"]
                              /\ closer[r] = "no" /\ side'[r] = "closed")
  PROVE  RsInv'
<1>1. RsTyped /\ RsTurn /\ RsLive /\ RsChecks /\ RsEnders /\ RsRetired
  BY DEF RsInv
<1>2. closer \in [Roles -> {"no", "sent"} \cup Closing] /\ closer' \in [Roles -> {"no", "sent"} \cup Closing]
  BY <1>1 DEF RsTyped
<1>3. RsTyped'
  BY <1>1, <1>2 DEF RsTyped, Closing
<1>4. RsTurn'
  BY <1>1 DEF RsTurn
<1>5. RsLive'
  <2>1. \A x \in polls' : x.live => x \in polls /\ x.role \in Roles
    BY DEF PollRecords
  <2>2. \A x \in polls' : x.live => side'[x.role] = side[x.role]
    BY <2>1
  <2> QED BY <2>1, <2>2, <1>1 DEF RsLive
<1>6. \A o \in Roles : \A k : Hand(o, k) => Hand(o, k)'
  BY DEF Hand, Became
<1>7. ASSUME NEW o \in Roles, RsWhole(o)' PROVE RsReader(o)'
  <2>1. RsReader(o)
    BY <1>7 DEF RsInv, RsWhole, WrittenOff
  <2>2. side'[o] \in {"open", "ended"} => side[o] \in {"open", "ended"}
    OBVIOUS
  <2>3. side'[o] \in {"open", "ended"} =>
          \A k \in (recv[o] + 1)..taken[o] : k \in assigned[o] \/ Hand(o, k)'
    BY <2>1, <2>2, <1>6 DEF RsReader
  <2>4. \A x \in polls' : x.role = o => x.ack <= recv[o] /\ (x.ph = "hand" => x.k <= taken[o])
    BY <2>1 DEF RsReader, Became
  <2>5. \A x \in polls' : x.role = o /\ x.live => x \in polls
    OBVIOUS
  <2> QED BY <2>1, <2>3, <2>4, <2>5 DEF RsReader
<1>8. \A o \in Roles : RsDone(o) => RsDone(o)'
  BY DEF RsDone, Became
<1>9. \A o \in Roles : closer'[o] \in {"rel2", "rel3"} => closer'[o] = closer[o]
  BY <1>2
<1>10. RsChecks'
  <2>1. "client" \in Roles /\ "agent" \in Roles
    BY DEF Roles
  <2>2. \A x \in polls' : /\ x.ph \in {"rel2", "rel3"} => RsDone("client")
                          /\ x.ph = "rel3" => RsDone("agent")
    BY <1>1 DEF RsChecks, Became
  <2>3. \A o \in Roles : /\ closer'[o] \in {"rel2", "rel3"} => RsDone("client")
                         /\ closer'[o] = "rel3" => RsDone("agent")
    BY <1>1, <1>9 DEF RsChecks
  <2>4. goneBy' = "drained" => \A o \in Roles : RsDone(o)
    BY <1>1 DEF RsChecks
  <2> QED BY <2>1, <2>2, <2>3, <2>4, <1>8 DEF RsChecks
<1>11. RsEnders'
  <2>1. \A o \in Roles : closer'[o] # "no" => side'[o] = "closed"
    BY <1>1, <1>2 DEF RsEnders
  <2>2. \A o \in Roles : closer'[o] = closer[o] \/ closer'[o] = "sent"
    BY <1>2
  <2> QED BY <2>1, <2>2, <1>1 DEF RsEnders, Registered, Closing, Checking
<1>12. RsRetired'
  <2>1. polls' = {} => polls = {}
    OBVIOUS
  <2>2. (\A o \in Roles : closer'[o] = "done") => closer' = closer
    BY <1>2
  <2>3. \A o \in Roles : polls = {} /\ polls' = {} => (Settled(o) <=> Settled(o)')
    BY DEF Settled, Serving, PollsOf, Undrained
  <2> QED BY <2>1, <2>2, <2>3, <1>1 DEF RsRetired, Registered
<1>13. RsEof'
  <2>1. \A o \in Roles : side'[o] = "open" => side[o] = "open"
    OBVIOUS
  <2> QED BY <2>1, EofStays DEF RsInv
<1> QED BY <1>3, <1>4, <1>5, <1>7, <1>10, <1>11, <1>12, <1>13 DEF RsInv

LEMMA AbandonInv ==
  ASSUME RsInv, NEW p \in polls, Abandon(p)
  PROVE  RsInv'
<1>1. RsTyped /\ RsTurn /\ p \in PollRecords /\ p.role \in Roles
  BY DEF RsInv, RsTyped, PollRecords
<1>2. PICK q : q = [p EXCEPT !.live = FALSE]
  OBVIOUS
<1>3. Became(q, p, FALSE, p.ph, p.k)
  BY <1>1, <1>2, PollOrphaned, Zenon
<1>4. polls' = (polls \ {p}) \cup {q} /\ q.live = FALSE
  BY <1>2, <1>3, Zenon DEF Abandon, Became
<1>5. \A x \in PollRecords : Became(x, x, x.live, x.ph, x.k)
  BY DEF Became
<1>6. polls \subseteq PollRecords /\ polls' \subseteq PollRecords
  BY <1>1, <1>3, <1>4 DEF RsTyped, Became
<1>7. \A x \in polls' : \E y \in polls : Became(x, y, x.live, y.ph, y.k) /\ (x.live => x = y)
  BY <1>3, <1>4, <1>5, <1>6
<1>8. \A y \in polls : \E x \in polls' : Became(x, y, x.live, y.ph, y.k)
  BY <1>3, <1>4, <1>5, <1>6
<1>9. \A x \in polls', y \in polls' :
        x.role = y.role /\ x.ph \in {"parked", "hand"} /\ y.ph \in {"parked", "hand"} => x = y
  BY <1>1, <1>3, <1>4 DEF RsTurn, Became
<1>10. /\ goneBy' = goneBy /\ closedAt' = closedAt /\ endReason' = endReason /\ endTold' = endTold
       /\ sent' = sent /\ taken' = taken /\ assigned' = assigned /\ qdone' = qdone /\ freed' = freed
       /\ closer' = closer /\ scan' = scan /\ ender' = ender
       /\ side' = side /\ recv' = recv /\ saw' = saw
  BY DEF Abandon, session, queues, handlers, ends
<1> QED BY <1>1, <1>6, <1>7, <1>8, <1>9, <1>10, OrphansInv, Zenon

\* CloseSide and Die: the polls of the side lose their reader.
LEMMA OrphanedPolls ==
  ASSUME RsInv, NEW r \in Roles,
         polls' = {IF p.role = r THEN [p EXCEPT !.live = FALSE] ELSE p : p \in polls}
  PROVE  /\ polls' \subseteq PollRecords
         /\ \A x \in polls' : \E y \in polls : Became(x, y, x.live, y.ph, y.k) /\ (x.live => x = y)
         /\ \A y \in polls : \E x \in polls' : Became(x, y, x.live, y.ph, y.k)
         /\ \A x \in polls', y \in polls' :
              x.role = y.role /\ x.ph \in {"parked", "hand"} /\ y.ph \in {"parked", "hand"} => x = y
         /\ \A x \in polls' : x.role = r => ~x.live
<1> DEFINE f(p) == IF p.role = r THEN [p EXCEPT !.live = FALSE] ELSE p
<1>1. RsTurn /\ polls \subseteq PollRecords
  BY DEF RsInv, RsTyped
<1>2. ASSUME NEW p \in PollRecords
      PROVE  /\ Became(f(p), p, f(p).live, p.ph, p.k)
             /\ f(p).live => f(p) = p
             /\ f(p).role = r => ~f(p).live
  <2>1. CASE p.role = r
    <3>1. PICK q : q = [p EXCEPT !.live = FALSE]
      OBVIOUS
    <3>2. Became(q, p, FALSE, p.ph, p.k)
      BY <3>1, PollOrphaned, Zenon
    <3>3. f(p) = q
      BY <2>1, <3>1, Zenon
    <3>4. q.live = FALSE
      BY <3>2 DEF Became
    <3> HIDE DEF f
    <3> QED BY <3>2, <3>3, <3>4, Zenon
  <2>2. CASE p.role # r
    <3>1. f(p) = p
      BY <2>2, Zenon
    <3>2. Became(p, p, p.live, p.ph, p.k)
      BY DEF Became
    <3> HIDE DEF f
    <3> QED BY <2>2, <3>1, <3>2, Zenon
  <2> QED BY <2>1, <2>2
<1>3. polls' = {f(p) : p \in polls}
  BY Zenon
<1> HIDE DEF f
<1>4. \A x \in polls' : \E y \in polls : x = f(y)
  BY <1>3, Zenon
<1>5. \A y \in polls : f(y) \in polls'
  BY <1>3, Zenon
<1>6. polls' \subseteq PollRecords
  BY <1>1, <1>2, <1>4 DEF Became
<1>7. \A x \in polls' : \E y \in polls : Became(x, y, x.live, y.ph, y.k) /\ (x.live => x = y)
  BY <1>1, <1>2, <1>4
<1>8. \A y \in polls : \E x \in polls' : Became(x, y, x.live, y.ph, y.k)
  BY <1>1, <1>2, <1>5
<1>9. \A x \in polls', y \in polls' :
        x.role = y.role /\ x.ph \in {"parked", "hand"} /\ y.ph \in {"parked", "hand"} => x = y
  <2> SUFFICES ASSUME NEW x \in polls', NEW y \in polls', x.role = y.role,
                      x.ph \in {"parked", "hand"}, y.ph \in {"parked", "hand"}
               PROVE  x = y
    OBVIOUS
  <2>1. PICK a \in polls : x = f(a)
    BY <1>4
  <2>2. PICK b \in polls : y = f(b)
    BY <1>4
  <2>3. x.role = a.role /\ x.ph = a.ph /\ y.role = b.role /\ y.ph = b.ph
    BY <2>1, <2>2, <1>1, <1>2 DEF Became
  <2>4. a = b
    BY <2>3, <1>1 DEF RsTurn
  <2> QED BY <2>1, <2>2, <2>4
<1>10. \A x \in polls' : x.role = r => ~x.live
  BY <1>1, <1>2, <1>4
<1> QED BY <1>6, <1>7, <1>8, <1>9, <1>10

LEMMA LeaveInv ==
  ASSUME RsInv, NEW r \in Roles, CloseSide(r) \/ Die(r)
  PROVE  RsInv'
<1>1. /\ goneBy' = goneBy /\ closedAt' = closedAt /\ endReason' = endReason /\ endTold' = endTold
      /\ sent' = sent /\ taken' = taken /\ assigned' = assigned /\ qdone' = qdone /\ freed' = freed
      /\ scan' = scan /\ ender' = ender /\ recv' = recv /\ saw' = saw
  BY DEF CloseSide, Die, session, queues, handlers
<1>2. polls' = {IF p.role = r THEN [p EXCEPT !.live = FALSE] ELSE p : p \in polls}
  BY Zenon DEF CloseSide, Die
<1>3. /\ polls' \subseteq PollRecords
      /\ \A x \in polls' : \E y \in polls : Became(x, y, x.live, y.ph, y.k) /\ (x.live => x = y)
      /\ \A y \in polls : \E x \in polls' : Became(x, y, x.live, y.ph, y.k)
      /\ \A x \in polls', y \in polls' :
           x.role = y.role /\ x.ph \in {"parked", "hand"} /\ y.ph \in {"parked", "hand"} => x = y
      /\ \A x \in polls' : x.role = r => ~x.live
  BY <1>2, OrphanedPolls, Zenon
<1>4. /\ side[r] \in {"open", "ended"}
      /\ \/ side' = [side EXCEPT ![r] = "closed"] /\ closer' = [closer EXCEPT ![r] = "sent"]
         \/ side' = [side EXCEPT ![r] = "dead"] /\ closer' = closer
  BY DEF CloseSide, Die, handlers
<1>5. /\ side \in [Roles -> {"open", "ended", "closed", "dead"}]
      /\ closer[r] # "no" => side[r] = "closed"
  BY DEF RsInv, RsTyped, RsEnders
<1>6. closer[r] = "no"
  BY <1>4, <1>5
<1>7. /\ side' \in [Roles -> {"open", "ended", "closed", "dead"}]
      /\ side[r] \in {"open", "ended"} /\ side'[r] \notin {"open", "ended"}
      /\ \A o \in Roles : o # r => side'[o] = side[o]
  BY <1>4, <1>5
<1>8. closer' = closer \/ (closer' = [closer EXCEPT ![r] = "sent"] /\ closer[r] = "no" /\ side'[r] = "closed")
  BY <1>4, <1>5, <1>6
<1> QED BY <1>1, <1>3, <1>7, <1>8, OrphansInv, Zenon

LEMMA AnswerInv ==
  ASSUME RsInv, NEW p \in polls, AnswerPoll(p)
  PROVE  RsInv'
<1> DEFINE r == p.role
<1>1. RsTyped /\ RsTurn /\ RsLive /\ RsChecks /\ RsEnders
  BY DEF RsInv
<1>2. /\ goneBy' = goneBy /\ closedAt' = closedAt /\ endReason' = endReason
      /\ sent' = sent /\ taken' = taken /\ assigned' = assigned /\ qdone' = qdone /\ freed' = freed
      /\ closer' = closer /\ scan' = scan /\ ender' = ender
      /\ p.ph \in {"data", "none", "over"}
      /\ endTold' \in BOOLEAN
  BY <1>1 DEF AnswerPoll, queues, handlers, RsTyped
<1>3. /\ assigned \in [Roles -> SUBSET Nat] /\ taken \in [Roles -> Nat] /\ sent \in [Roles -> Nat]
      /\ recv \in [Roles -> Nat] /\ p \in PollRecords /\ p.ack \in Nat /\ p.k \in Nat /\ r \in Roles
      /\ \A x \in polls : x.role \in Roles /\ x.k \in Nat /\ x.ack \in Nat
      /\ side \in [Roles -> {"open", "ended", "closed", "dead"}]
      /\ saw \in [Roles -> {"", "eof", "gone", "missing"}]
  BY <1>1 DEF RsTyped, PollRecords
<1>4. PICK q : Swap(p, q) /\ q.live = FALSE /\ q.ack = 0 /\ q.ph = "rel1"
  <2>1. PICK q : q = [role |-> r, live |-> FALSE, numbered |-> FALSE, ack |-> 0, ph |-> "rel1", k |-> 0]
    OBVIOUS
  <2>2. q \in PollRecords /\ q.role = r /\ q.live = FALSE /\ q.ack = 0 /\ q.ph = "rel1"
    BY <2>1, <1>3 DEF PollRecords, Phases
  <2>3. polls' = (polls \ {p}) \cup {q}
    BY <2>1, Zenon DEF AnswerPoll, AfterAnswer
  <2> QED BY <2>2, <2>3, Zenon DEF Swap
<1>5. /\ q \in PollRecords /\ q.role = r /\ polls' = (polls \ {p}) \cup {q}
      /\ \A x \in polls' : x = q \/ (x \in polls /\ x # p)
      /\ \A x \in polls : x # p => x \in polls'
      /\ q \in polls'
  BY <1>4 DEF Swap
<1>6. \/ side' = side /\ recv' = recv /\ saw' = saw
      \/ /\ p.live
         /\ recv' = [recv EXCEPT ![r] = IF p.ph = "data" THEN p.k ELSE @]
         /\ side' = [side EXCEPT ![r] = IF p.ph = "over" THEN "ended" ELSE @]
         /\ \E end \in {"gone", "eof"} : /\ saw' = [saw EXCEPT ![r] = IF p.ph # "over" THEN @ ELSE end]
                                         /\ end = "eof" => ~endReason
  <2>1. CASE side' = side /\ recv' = recv /\ saw' = saw
    BY <2>1
  <2>2. CASE /\ p.live
             /\ recv' = [recv EXCEPT ![r] = IF p.ph = "data" THEN p.k ELSE @]
             /\ side' = [side EXCEPT ![r] = IF p.ph = "over" THEN "ended" ELSE @]
             /\ saw' = [saw EXCEPT ![r] = IF p.ph # "over" THEN @
                                          ELSE IF endReason THEN "gone" ELSE "eof"]
    BY <2>2
  <2> QED BY <2>1, <2>2 DEF AnswerPoll
<1>7. /\ recv' \in [Roles -> Nat] /\ side' \in [Roles -> {"open", "ended", "closed", "dead"}]
      /\ saw' \in [Roles -> {"", "eof", "gone", "missing"}]
      /\ \A o \in Roles : o # r => recv'[o] = recv[o] /\ side'[o] = side[o] /\ saw'[o] = saw[o]
      /\ \/ side'[r] = side[r] /\ recv'[r] = recv[r] /\ saw'[r] = saw[r]
         \/ p.live /\ p.ph = "data" /\ recv'[r] = p.k /\ side'[r] = side[r] /\ saw'[r] = saw[r]
         \/ /\ p.live /\ p.ph = "over" /\ recv'[r] = recv[r] /\ side'[r] = "ended"
            /\ saw'[r] \in {"gone", "eof"} /\ (saw'[r] = "eof" => ~endReason)
  BY <1>2, <1>3, <1>6
<1>8. RsTyped'
  BY <1>1, <1>2, <1>5, <1>7 DEF RsTyped, Closing
<1>9. RsTurn'
  BY <1>1, <1>2, <1>4, <1>5 DEF RsTurn
<1>10. RsLive'
  <2>1. \A x \in polls' : x.live => x \in polls /\ x # p
    BY <1>4, <1>5
  <2>2. \A x \in polls' : x.live => side'[x.role] = side[x.role]
    BY <2>1, <1>1, <1>3, <1>7 DEF RsLive
  <2> QED BY <2>1, <2>2, <1>1 DEF RsLive
<1>11. ASSUME NEW o \in Roles, RsWhole(o)' PROVE RsReader(o)'
  <2>1. RsReader(o)
    BY <1>2, <1>11 DEF RsInv, RsWhole, WrittenOff
  <2>2. CASE o # r
    <3>1. \A x : x.role = o => (x \in polls' <=> x \in polls)
      BY <1>5, <2>2
    <3> QED BY <2>1, <2>2, <3>1, <1>2, <1>7, OtherReader
  <2>3. CASE o = r
    <3>0. recv[r] \in Nat /\ taken[r] \in Nat /\ sent[r] \in Nat /\ recv'[r] \in Nat
      BY <1>3, <1>7
    <3>1. /\ recv[r] <= taken[r] /\ (\A k \in assigned[r] : k <= taken[r])
          /\ side[r] \in {"open", "ended"} =>
               \A k \in (recv[r] + 1)..taken[r] : k \in assigned[r] \/ Hand(r, k)
          /\ \A x \in polls : x.role = r => x.ack <= recv[r] /\ (x.ph = "hand" => x.k <= taken[r])
          /\ saw[r] \in {"eof", "gone"} => qdone[r] /\ recv[r] = sent[r]
          /\ \A x \in polls : x.role = r /\ x.live =>
               /\ x.ack = recv[r]
               /\ x.ph = "parked" => taken[r] = recv[r]
               /\ x.ph \in {"hand", "data"} => x.k = recv[r] + 1 /\ x.k <= taken[r]
               /\ x.ph = "over" => qdone[r] /\ recv[r] = sent[r]
      BY <2>1, <2>3 DEF RsReader
    <3>2. \A k : Hand(r, k) => Hand(r, k)'
      BY <1>2, <1>5 DEF Hand
    <3>3. p.live => side[r] = "open" /\ \A x \in polls : x.role = r /\ x.live => x = p
      BY <1>1 DEF RsLive
    <3>4. taken[r] <= sent[r]
      BY <1>1, <1>3 DEF RsTurn
    <3>5. \/ side'[r] = side[r] /\ recv'[r] = recv[r] /\ saw'[r] = saw[r]
          \/ /\ recv'[r] = recv[r] + 1 /\ recv'[r] <= taken[r] /\ side'[r] = side[r]
             /\ saw'[r] = saw[r] /\ saw[r] \notin {"eof", "gone"} /\ p.live
          \/ /\ recv'[r] = recv[r] /\ side'[r] = "ended" /\ side[r] = "open"
             /\ qdone[r] /\ recv[r] = sent[r] /\ p.live
      <4>1. p.live /\ p.ph = "data" => /\ p.k = recv[r] + 1 /\ p.k <= taken[r]
                                       /\ saw[r] \notin {"eof", "gone"}
        BY <3>0, <3>1, <3>4
      <4>2. p.live /\ p.ph = "over" => side[r] = "open" /\ qdone[r] /\ recv[r] = sent[r]
        BY <3>1, <3>3
      <4> QED BY <1>7, <4>1, <4>2
    <3>6. recv[r] <= recv'[r] /\ recv'[r] <= taken[r]
      BY <3>0, <3>1, <3>5
    <3>7. \A x \in polls' : x.role = r => x.ack <= recv'[r] /\ (x.ph = "hand" => x.k <= taken[r])
      <4>1. \A x \in polls : x.role = r => x.ack <= recv'[r] /\ (x.ph = "hand" => x.k <= taken[r])
        <5> SUFFICES ASSUME NEW x \in polls, x.role = r
                     PROVE  x.ack <= recv'[r] /\ (x.ph = "hand" => x.k <= taken[r])
          OBVIOUS
        <5>1. x.ack <= recv[r] /\ (x.ph = "hand" => x.k <= taken[r])
          BY <3>1
        <5>2. x.ack \in Nat
          BY <1>3
        <5> QED BY <5>1, <5>2, <3>0, <3>6
      <4>2. q.ack <= recv'[r] /\ q.ph # "hand"
        BY <3>0, <1>4
      <4> QED BY <4>1, <4>2, <1>5
    <3>8. side'[r] \in {"open", "ended"} =>
            \A k \in (recv'[r] + 1)..taken[r] : k \in assigned[r] \/ Hand(r, k)'
      <4>1. side'[r] \in {"open", "ended"} => side[r] \in {"open", "ended"}
        BY <3>5
      <4> QED BY <4>1, <3>0, <3>1, <3>2, <3>6
    <3>9. \A x \in polls' : x.role = r /\ x.live =>
             /\ x.ack = recv'[r]
             /\ x.ph = "parked" => taken[r] = recv'[r]
             /\ x.ph \in {"hand", "data"} => x.k = recv'[r] + 1 /\ x.k <= taken[r]
             /\ x.ph = "over" => qdone[r] /\ recv'[r] = sent[r]
      <4> SUFFICES ASSUME NEW x \in polls', x.role = r, x.live
                   PROVE  /\ x.ack = recv'[r]
                          /\ x.ph = "parked" => taken[r] = recv'[r]
                          /\ x.ph \in {"hand", "data"} => x.k = recv'[r] + 1 /\ x.k <= taken[r]
                          /\ x.ph = "over" => qdone[r] /\ recv'[r] = sent[r]
        OBVIOUS
      <4>1. x \in polls /\ x # p
        BY <1>4, <1>5
      <4>2. ~p.live
        BY <4>1, <3>3
      <4> QED BY <4>1, <4>2, <3>1, <3>5
    <3>10. saw'[r] \in {"eof", "gone"} => qdone[r] /\ recv'[r] = sent[r]
      BY <3>1, <3>5
    <3> QED BY <2>3, <3>1, <3>6, <3>7, <3>8, <3>9, <3>10, <1>2 DEF RsReader
  <2> QED BY <2>2, <2>3
<1>12. RsChecks'
  <2>1. ASSUME NEW o \in Roles, RsDone(o) PROVE RsDone(o)'
    BY <2>1, <1>2, <1>4, <1>5 DEF RsDone
  <2>2. q.ph \notin {"rel2", "rel3"}
    BY <1>4
  <2> QED BY <2>1, <2>2, <1>1, <1>2, <1>4, QuietChecks, Zenon
<1>13. RsEnders'
  <2>1. \A o \in Roles : side'[o] = side[o] \/ side[o] = "open"
    BY <1>1, <1>3, <1>7 DEF RsLive
  <2>2. \A o \in Roles : closer'[o] # "no" => side'[o] = "closed"
    BY <2>1, <1>1, <1>2 DEF RsEnders
  <2> QED BY <2>2, <1>1, <1>2 DEF RsEnders, Registered, Closing, Checking
<1>14. RsRetired'
  BY <1>4, SwapRetired, Zenon
<1>15. RsEof'
  <2> SUFFICES ASSUME goneBy \in {"", "drained"}, NEW o \in Roles, saw'[o] = "eof"
               PROVE  qdone[o] /\ recv'[o] = sent[o] /\ side'[o] # "open"
    BY <1>2 DEF RsEof
  <2>1. RsEof
    BY DEF RsInv
  <2>2. CASE saw[o] = "eof"
    <3>1. qdone[o] /\ recv[o] = sent[o] /\ side[o] # "open"
      BY <2>1, <2>2 DEF RsEof
    <3>2. o = r => ~p.live
      BY <3>1, <1>1 DEF RsLive
    <3> QED BY <3>1, <3>2, <1>7
  <2>3. CASE saw[o] # "eof"
    <3>1. o = r /\ p.live /\ p.ph = "over" /\ recv'[r] = recv[r] /\ side'[r] = "ended" /\ ~endReason
      BY <2>3, <1>7
    <3>2. RsReader(r)
      BY <3>1, <1>3 DEF RsInv, RsWhole, WrittenOff
    <3>3. qdone[r] /\ recv[r] = sent[r]
      BY <3>1, <3>2 DEF RsReader
    <3> QED BY <3>1, <3>3
  <2> QED BY <2>2, <2>3
<1> QED BY <1>8, <1>9, <1>10, <1>11, <1>12, <1>13, <1>14, <1>15 DEF RsInv

\* What a check finds is done.
LEMMA SettledIsDone ==
  ASSUME RsTyped, RsTurn, NEW r \in Roles, Settled(r)
  PROVE  RsDone(r)
<1>1. taken[r] \in Nat /\ sent[r] \in Nat /\ taken[r] <= sent[r]
  BY DEF RsTyped, RsTurn
<1> QED BY <1>1 DEF Settled, RsDone, Undrained, Serving, PollsOf

LEMMA ReleaseInv ==
  ASSUME RsInv, NEW p \in polls, ReleaseByPoll(p)
  PROVE  RsInv'
<1>1. RsTyped /\ RsTurn /\ RsLive /\ RsChecks /\ RsEnders /\ RsRetired
  BY DEF RsInv
<1>2. /\ closedAt' = closedAt /\ endReason' = endReason /\ endTold' = endTold
      /\ sent' = sent /\ taken' = taken /\ assigned' = assigned /\ qdone' = qdone /\ freed' = freed
      /\ closer' = closer /\ scan' = scan /\ side' = side /\ recv' = recv /\ saw' = saw
      /\ p.ph \in {"rel1", "rel2", "rel3"}
  BY DEF ReleaseByPoll, queues, ends
<1>3. p \in PollRecords /\ p.role \in Roles /\ ~p.live /\ "client" \in Roles /\ "agent" \in Roles
  BY <1>1, <1>2 DEF RsTyped, PollRecords, RsLive, Roles
<1>4. ASSUME NEW phase \in {"rel2", "rel3"}, Move(p, phase)
      PROVE  \E q : Swap(p, q) /\ ~q.live /\ q.ack = p.ack /\ q.ph = phase
  <2>1. phase \in Phases
    BY DEF Phases
  <2>2. PICK q : q = [p EXCEPT !.ph = phase]
    OBVIOUS
  <2>3. Became(q, p, p.live, phase, p.k)
    BY <2>1, <2>2, <1>3, PollMoves, Zenon
  <2>4. polls' = (polls \ {p}) \cup {q}
    BY <2>2, <1>4, Zenon DEF Move
  <2> QED BY <2>3, <2>4, <1>3, Zenon DEF Swap, Became
<1>5. \/ /\ goneBy' = goneBy /\ ender' = ender
         /\ \E q : /\ Swap(p, q) /\ ~q.live /\ q.ack = p.ack
                   /\ \/ q.ph = "rel2" /\ RsDone("client")
                      \/ q.ph = "rel3" /\ RsDone("client") /\ RsDone("agent")
      \/ /\ goneBy' = goneBy /\ ender' = ender /\ polls' = polls \ {p}
         /\ ~Settled("client") \/ ~Settled("agent")
      \/ polls' = polls \ {p} /\ Retire /\ RsDone("client") /\ RsDone("agent")
  <2>1. CASE /\ p.ph = "rel1"
             /\ IF Settled("client") THEN Move(p, "rel2") ELSE polls' = polls \ {p}
             /\ UNCHANGED <<goneBy, ender>>
    <3>1. CASE Settled("client") /\ Move(p, "rel2")
      <4>1. RsDone("client")
        BY <3>1, <1>1, <1>3, SettledIsDone
      <4>2. \E q : Swap(p, q) /\ ~q.live /\ q.ack = p.ack /\ q.ph = "rel2"
        BY <3>1, <1>4
      <4> QED BY <4>1, <4>2, <2>1
    <3>2. CASE ~Settled("client") /\ polls' = polls \ {p}
      BY <3>2, <2>1
    <3> QED BY <2>1, <3>1, <3>2
  <2>2. CASE /\ p.ph = "rel2"
             /\ IF Settled("agent") THEN Move(p, "rel3") ELSE polls' = polls \ {p}
             /\ UNCHANGED <<goneBy, ender>>
    <3>1. CASE Settled("agent") /\ Move(p, "rel3")
      <4>1. RsDone("agent") /\ RsDone("client")
        BY <2>2, <3>1, <1>1, <1>3, SettledIsDone DEF RsChecks
      <4>2. \E q : Swap(p, q) /\ ~q.live /\ q.ack = p.ack /\ q.ph = "rel3"
        BY <3>1, <1>4
      <4> QED BY <4>1, <4>2, <2>2
    <3>2. CASE ~Settled("agent") /\ polls' = polls \ {p}
      BY <3>2, <2>2
    <3> QED BY <2>2, <3>1, <3>2
  <2>3. CASE p.ph = "rel3" /\ polls' = polls \ {p} /\ Retire
    BY <2>3, <1>1 DEF RsChecks
  <2> QED BY <2>1, <2>2, <2>3 DEF ReleaseByPoll
<1>6. /\ polls' \subseteq PollRecords
      /\ \A x \in polls' : (x \in polls /\ x # p) \/ (~x.live /\ x.ph \in {"rel2", "rel3"} /\ x.role = p.role /\ x.ack = p.ack)
      /\ \A x \in polls : x # p => x \in polls'
      /\ \A x \in polls' : /\ x.ph \in {"rel2", "rel3"} => RsDone("client")
                           /\ x.ph = "rel3" => RsDone("agent")
  BY <1>1, <1>5 DEF Swap, RsTyped, RsChecks
<1>7. \/ goneBy' = goneBy /\ ender' = ender
      \/ goneBy' = "drained" /\ ender' = "free" /\ Registered /\ RsDone("client") /\ RsDone("agent")
  <2>1. CASE Retire /\ RsDone("client") /\ RsDone("agent")
    BY <2>1, Zenon DEF Retire
  <2>2. CASE goneBy' = goneBy /\ ender' = ender
    BY <2>2
  <2> QED BY <2>1, <2>2, <1>5
<1>8. RsTyped'
  BY <1>1, <1>2, <1>6, <1>7 DEF RsTyped, Closing
<1>9. RsTurn'
  BY <1>1, <1>2, <1>6 DEF RsTurn
<1>10. RsLive'
  BY <1>1, <1>2, <1>6 DEF RsLive
<1>11. ASSUME NEW o \in Roles, RsWhole(o)' PROVE RsReader(o)'
  <2>1. RsReader(o)
    BY <1>2, <1>7, <1>11 DEF RsInv, Registered, RsWhole, WrittenOff
  <2>2. \A k : Hand(o, k) => Hand(o, k)'
    BY <1>2, <1>6 DEF Hand
  <2>3. side[o] \in {"open", "ended"} =>
          \A k \in (recv[o] + 1)..taken[o] : k \in assigned[o] \/ Hand(o, k)'
    BY <2>1, <2>2 DEF RsReader
  <2>4. \A x \in polls' : x.role = o => x.ack <= recv[o] /\ (x.ph = "hand" => x.k <= taken[o])
    BY <2>1, <1>6 DEF RsReader
  <2>5. \A x \in polls' : x.live => x \in polls
    BY <1>6
  <2> QED BY <2>1, <2>3, <2>4, <2>5, <1>2 DEF RsReader
<1>12. \A o \in Roles : RsDone(o) => RsDone(o)'
  BY <1>2, <1>6 DEF RsDone
<1>13. RsChecks'
  <2>1. goneBy' = "drained" => \A o \in Roles : RsDone(o)
    BY <1>1, <1>7 DEF RsChecks, Roles
  <2> QED BY <2>1, <1>1, <1>2, <1>3, <1>6, <1>12 DEF RsChecks
<1>14. RsEnders'
  <2>1. Registered' => Registered
    BY <1>7 DEF Registered
  <2>2. ender' = "free" => ~Registered'
    BY <1>1, <1>7 DEF RsEnders, Registered
  <2> QED BY <2>1, <2>2, <1>1, <1>2 DEF RsEnders, Closing, Checking
<1>15. RsRetired'
  <2> SUFFICES ASSUME Registered', polls' = {}, \A o \in Roles : closer'[o] = "done",
                      ~endReason \/ endTold
               PROVE  \E o \in Roles : ~Settled(o)'
    BY <1>2 DEF RsRetired
  <2>1. Registered /\ closer["agent"] \in Closing
    BY <1>2, <1>3, <1>7 DEF Registered, Closing
  <2>2. closedAt
    BY <2>1, <1>1, <1>3 DEF RsEnders
  <2>3. ~Retire
    BY <2>1, <2>2 DEF Retire, Registered
  <2>4. ~Settled("client") \/ ~Settled("agent")
    BY <2>3, <1>5 DEF Swap
  <2>5. \A x \in polls : x = p
    BY <1>6
  <2>6. \A o \in Roles : ~Serving(o)
    BY <2>5, <1>2 DEF Serving, PollsOf
  <2>7. \A o \in Roles : ~Settled(o) => ~Settled(o)'
    BY <2>6, <1>2 DEF Settled, Undrained
  <2> QED BY <2>4, <2>7, <1>3
<1>16. RsEof'
  BY <1>2, <1>7, EofStays DEF RsInv, Registered
<1> QED BY <1>8, <1>9, <1>10, <1>11, <1>13, <1>14, <1>15, <1>16 DEF RsInv

----------------------------------------------------------------------------
(* Steps that leave the polls alone *)

\* A direction is kept, or dropped where nobody reads it any more.
Kept(o) ==
  /\ taken'[o] = taken[o] /\ assigned'[o] = assigned[o]
  /\ qdone'[o] \in BOOLEAN /\ (qdone[o] => qdone'[o])

DroppedUnread(o) ==
  /\ taken'[o] = sent[o] /\ assigned'[o] = {} /\ qdone'[o] = TRUE
  /\ side[o] \notin {"open", "ended"} \/ ~RsWhole(o)'

QueuesOnly ==
  /\ polls' = polls /\ sent' = sent /\ side' = side /\ recv' = recv /\ saw' = saw
  /\ \A o \in Roles : Kept(o) \/ DroppedUnread(o)
  /\ goneBy' \in {"", "drained"} => goneBy \in {"", "drained"}
  /\ endReason => endReason'
  /\ \A o \in Roles : closer'[o] \in {"rel2", "rel3"} => RsDone("client")
  /\ \A o \in Roles : closer'[o] = "rel3" => RsDone("agent")
  /\ goneBy' = "drained" => \A o \in Roles : RsDone(o)

LEMMA QueueStep ==
  ASSUME RsInv, RsTyped', RsEnders', RsRetired', QueuesOnly
  PROVE  RsInv'
<1>0. polls' = polls /\ sent' = sent /\ side' = side /\ recv' = recv /\ saw' = saw
  BY DEF QueuesOnly
<1>1. RsTyped /\ RsTurn /\ RsLive /\ RsChecks
  BY DEF RsInv
<1>2. /\ taken \in [Roles -> Nat] /\ sent \in [Roles -> Nat] /\ recv \in [Roles -> Nat]
      /\ \A x \in polls : x.role \in Roles /\ x.k \in Nat /\ x.ack \in Nat
  BY <1>1 DEF RsTyped, PollRecords
<1>3. \A o \in Roles : taken[o] <= sent[o] /\ (taken'[o] = taken[o] \/ taken'[o] = sent[o])
  BY <1>1 DEF RsTurn, Kept, DroppedUnread, QueuesOnly
<1>4. RsTurn'
  <2>1. ASSUME NEW o \in Roles PROVE taken'[o] <= sent'[o]
    <3>1. taken[o] \in Nat /\ sent[o] \in Nat /\ sent'[o] = sent[o]
      BY <1>0, <1>2
    <3>2. taken[o] <= sent[o] /\ (taken'[o] = taken[o] \/ taken'[o] = sent[o])
      BY <1>3
    <3> QED BY <3>1, <3>2
  <2> QED BY <2>1, <1>0, <1>1 DEF RsTurn
<1>5. RsLive'
  BY <1>0, <1>1 DEF RsLive
<1>6. \A o \in Roles : \A k : Hand(o, k) <=> Hand(o, k)'
  BY <1>0 DEF Hand
<1>7. ASSUME NEW o \in Roles, RsWhole(o)' PROVE RsReader(o)'
  <2>1. RsReader(o) /\ recv[o] \in Nat /\ taken[o] \in Nat /\ sent[o] \in Nat
    BY <1>2, <1>7 DEF RsInv, QueuesOnly, RsWhole, WrittenOff
  <2>2. CASE Kept(o)
    BY <2>1, <2>2, <1>0, <1>6 DEF RsReader, Kept
  <2>3. CASE DroppedUnread(o)
    <3>1. \A x \in polls : x.role = o => ~x.live
      BY <2>3, <1>1, <1>7 DEF RsLive, DroppedUnread
    <3>2. recv[o] <= sent[o]
      <4>1. recv[o] <= taken[o] /\ taken[o] <= sent[o]
        BY <2>1, <1>3 DEF RsReader
      <4> QED BY <4>1, <2>1
    <3>3. ASSUME NEW x \in polls, x.role = o PROVE x.ack <= recv[o] /\ (x.ph = "hand" => x.k <= sent[o])
      <4>1. x.ack <= recv[o] /\ (x.ph = "hand" => x.k <= taken[o])
        BY <2>1, <3>3 DEF RsReader
      <4>2. x.k \in Nat /\ taken[o] <= sent[o] /\ taken[o] \in Nat /\ sent[o] \in Nat
        BY <1>2, <1>3
      <4>3. x.ph = "hand" => x.k <= sent[o]
        <5>1. SUFFICES ASSUME x.ph = "hand" PROVE x.k <= sent[o]
          OBVIOUS
        <5>2. x.k <= taken[o]
          BY <4>1, <5>1
        <5> QED BY <5>2, <4>2
      <4> QED BY <4>1, <4>3
    <3>4. saw[o] \in {"eof", "gone"} => recv[o] = sent[o]
      BY <2>1 DEF RsReader
    <3> QED BY <2>3, <3>1, <3>2, <3>3, <3>4, <1>0, <1>7 DEF RsReader, DroppedUnread
  <2> QED BY <2>2, <2>3 DEF QueuesOnly
<1>8. \A o \in Roles : RsDone(o) => RsDone(o)'
  BY <1>0 DEF RsDone, Kept, DroppedUnread, QueuesOnly
<1>9. RsChecks'
  <2>1. "client" \in Roles /\ "agent" \in Roles
    BY DEF Roles
  <2> QED BY <2>1, <1>0, <1>1, <1>8 DEF RsChecks, QueuesOnly
<1>10. RsEof'
  <2>1. \A o \in Roles : qdone[o] => qdone'[o]
    BY DEF QueuesOnly, Kept, DroppedUnread
  <2> QED BY <2>1, <1>0, EofStays DEF RsInv, QueuesOnly
<1> QED BY <1>4, <1>5, <1>7, <1>9, <1>10 DEF RsInv

\* sideQueue.free on one direction.
LEMMA DropsOne ==
  ASSUME RsTyped, NEW r \in Roles, side[r] \notin {"open", "ended"} \/ ~RsWhole(r)',
         IF freed[r] THEN UNCHANGED <<taken, assigned, qdone, freed>> ELSE Dropped(r)
  PROVE  /\ taken' \in [Roles -> Nat] /\ assigned' \in [Roles -> SUBSET Nat]
         /\ qdone' \in [Roles -> BOOLEAN] /\ freed' \in [Roles -> BOOLEAN] /\ freed'[r]
         /\ \A o \in Roles : freed[o] => freed'[o]
         /\ \A o \in Roles : Kept(o) \/ DroppedUnread(o)
<1>1. /\ taken \in [Roles -> Nat] /\ sent \in [Roles -> Nat] /\ assigned \in [Roles -> SUBSET Nat]
      /\ qdone \in [Roles -> BOOLEAN] /\ freed \in [Roles -> BOOLEAN]
  BY DEF RsTyped
<1>2. CASE freed[r]
  BY <1>1, <1>2 DEF Kept
<1>3. CASE ~freed[r]
  <2>1. /\ taken' = [taken EXCEPT ![r] = sent[r]]
        /\ assigned' = [assigned EXCEPT ![r] = {}]
        /\ qdone' = [qdone EXCEPT ![r] = TRUE]
        /\ freed' = [freed EXCEPT ![r] = TRUE]
    BY <1>3 DEF Dropped
  <2>2. \A o \in Roles : o # r => Kept(o)
    BY <2>1, <1>1 DEF Kept
  <2>3. DroppedUnread(r)
    BY <2>1, <1>1 DEF DroppedUnread
  <2> QED BY <2>1, <2>2, <2>3, <1>1
<1> QED BY <1>2, <1>3

\* Shutting a queue keeps what is in it.
LEMMA ShutsOne ==
  ASSUME RsTyped, NEW r \in Roles, qdone' = [qdone EXCEPT ![r] = TRUE], taken' = taken, assigned' = assigned
  PROVE  qdone' \in [Roles -> BOOLEAN] /\ \A o \in Roles : Kept(o)
<1>1. qdone \in [Roles -> BOOLEAN]
  BY DEF RsTyped
<1> QED BY <1>1 DEF Kept

\* What a step that keeps or drops directions needs of the closes and the checks.
LEMMA SameChecks ==
  ASSUME RsInv, closer' = closer, goneBy' = goneBy
  PROVE  /\ goneBy' \in {"", "drained"} => goneBy \in {"", "drained"}
         /\ \A o \in Roles : closer'[o] \in {"rel2", "rel3"} => RsDone("client")
         /\ \A o \in Roles : closer'[o] = "rel3" => RsDone("agent")
         /\ goneBy' = "drained" => \A o \in Roles : RsDone(o)
BY DEF RsInv, RsChecks

LEMMA DeviceGoneInv ==
  ASSUME RsInv, DeviceGone
  PROVE  RsInv'
<1>1. RsTyped /\ RsEnders /\ RsRetired /\ "client" \in Roles /\ "agent" \in Roles
  BY DEF RsInv, Roles
<1>2. /\ goneBy' = goneBy /\ endTold' = endTold /\ sent' = sent /\ polls' = polls
      /\ taken' = taken /\ assigned' = assigned /\ qdone' = qdone /\ freed' = freed
      /\ closer' = closer /\ ender' = ender /\ side' = side /\ recv' = recv /\ saw' = saw
      /\ ~endReason /\ endReason' = TRUE /\ closedAt' = TRUE /\ scan' = "marked"
  BY DEF DeviceGone, queues, ends
<1>3. RsTyped'
  BY <1>1, <1>2 DEF RsTyped, Closing
<1>4. RsEnders'
  BY <1>1, <1>2 DEF RsEnders, Registered, Closing, Checking
<1>5. RsRetired'
  <2>1. \A o \in Roles : Settled(o) <=> Settled(o)'
    BY <1>2 DEF Settled, Serving, PollsOf, Undrained
  <2> QED BY <2>1, <1>1, <1>2 DEF RsRetired, Registered
<1>6. \A o \in Roles : Kept(o)
  BY <1>1, <1>2 DEF RsTyped, Kept
<1>7. /\ goneBy' \in {"", "drained"} => goneBy \in {"", "drained"}
      /\ \A o \in Roles : closer'[o] \in {"rel2", "rel3"} => RsDone("client")
      /\ \A o \in Roles : closer'[o] = "rel3" => RsDone("agent")
      /\ goneBy' = "drained" => \A o \in Roles : RsDone(o)
  BY <1>2, SameChecks, Zenon
<1> QED BY <1>2, <1>3, <1>4, <1>5, <1>6, <1>7, QueueStep, Zenon DEF QueuesOnly

LEMMA ScanDropsInv ==
  ASSUME RsInv, ScanDrops
  PROVE  RsInv'
<1>1. RsTyped /\ RsEnders /\ RsRetired /\ "client" \in Roles /\ "agent" \in Roles
  BY DEF RsInv, Roles
<1>2. /\ goneBy' = goneBy /\ endTold' = endTold /\ sent' = sent /\ polls' = polls
      /\ closedAt' = closedAt /\ endReason' = endReason
      /\ closer' = closer /\ ender' = ender /\ side' = side /\ recv' = recv /\ saw' = saw
  BY DEF ScanDrops, session, ends
<1>3. /\ scan # "no" /\ scan' \in {"freed", "done"}
      /\ \/ IF freed["agent"] THEN UNCHANGED <<taken, assigned, qdone, freed>> ELSE Dropped("agent")
         \/ qdone' = [qdone EXCEPT !["client"] = TRUE] /\ taken' = taken /\ assigned' = assigned /\ freed' = freed
  BY DEF ScanDrops
<1>4. qdone \in [Roles -> BOOLEAN] /\ freed \in [Roles -> BOOLEAN]
      /\ taken \in [Roles -> Nat] /\ assigned \in [Roles -> SUBSET Nat]
  BY <1>1 DEF RsTyped
<1>5. ~RsWhole("agent")'
  BY <1>1, <1>2, <1>3 DEF RsEnders, RsWhole, WrittenOff
<1>6. /\ taken' \in [Roles -> Nat] /\ assigned' \in [Roles -> SUBSET Nat]
      /\ qdone' \in [Roles -> BOOLEAN] /\ freed' \in [Roles -> BOOLEAN]
      /\ \A o \in Roles : freed[o] => freed'[o]
      /\ \A o \in Roles : Kept(o) \/ DroppedUnread(o)
  <2>1. CASE IF freed["agent"] THEN UNCHANGED <<taken, assigned, qdone, freed>> ELSE Dropped("agent")
    BY <2>1, <1>1, <1>5, DropsOne
  <2>2. CASE qdone' = [qdone EXCEPT !["client"] = TRUE] /\ taken' = taken /\ assigned' = assigned /\ freed' = freed
    BY <2>2, <1>1, <1>4, ShutsOne
  <2> QED BY <2>1, <2>2, <1>3
<1>7. RsTyped'
  BY <1>1, <1>2, <1>3, <1>6 DEF RsTyped, Closing
<1>8. RsEnders'
  <2>1. \A o \in Roles : qdone[o] => qdone'[o]
    BY <1>6 DEF Kept, DroppedUnread
  <2> QED BY <2>1, <1>1, <1>2, <1>3, <1>6 DEF RsEnders, Registered, Closing, Checking
\* Both closes have shut the queues, and the device's has dropped its direction.
<1>9. RsRetired'
  <2> SUFFICES ASSUME Registered, polls = {}, \A o \in Roles : closer[o] = "done"
               PROVE  (\E o \in Roles : ~Settled(o)') \/ (endReason /\ ~endTold)
    BY <1>2 DEF RsRetired, Registered
  <2>1. freed["agent"] /\ qdone["client"] /\ qdone["agent"]
    BY <1>1 DEF RsEnders, Checking
  <2>2. taken' = taken /\ assigned' = assigned /\ qdone' = qdone
    BY <2>1, <1>3, <1>4
  <2>3. \A o \in Roles : Settled(o) <=> Settled(o)'
    BY <2>2, <1>2 DEF Settled, Serving, PollsOf, Undrained
  <2> QED BY <2>3, <1>1 DEF RsRetired
<1>10. /\ goneBy' \in {"", "drained"} => goneBy \in {"", "drained"}
       /\ \A o \in Roles : closer'[o] \in {"rel2", "rel3"} => RsDone("client")
       /\ \A o \in Roles : closer'[o] = "rel3" => RsDone("agent")
       /\ goneBy' = "drained" => \A o \in Roles : RsDone(o)
  BY <1>2, SameChecks, Zenon
<1> QED BY <1>2, <1>6, <1>7, <1>8, <1>9, <1>10, QueueStep, Zenon DEF QueuesOnly

LEMMA RemoveInv ==
  ASSUME RsInv, NEW by \in {"ended", "reaped"}, Remove(by)
  PROVE  RsInv'
<1>1. RsTyped /\ RsChecks /\ RsEnders
  BY DEF RsInv
<1>2. /\ goneBy' = by /\ ender' = "free" /\ closedAt' = closedAt /\ endReason' = endReason /\ endTold' = endTold
      /\ sent' = sent /\ taken' = taken /\ assigned' = assigned /\ qdone' = qdone /\ freed' = freed
      /\ polls' = polls /\ closer' = closer /\ scan' = scan /\ side' = side /\ recv' = recv /\ saw' = saw
  BY DEF Remove, queues, ends
<1>3. RsTyped'
  BY <1>1, <1>2 DEF RsTyped, Closing
<1>4. RsEnders'
  BY <1>1, <1>2 DEF RsEnders, Registered
<1>5. RsRetired'
  BY <1>2 DEF RsRetired, Registered
<1>6. \A o \in Roles : Kept(o)
  BY <1>1, <1>2 DEF RsTyped, Kept
<1>7. /\ goneBy' \notin {"", "drained"}
      /\ \A o \in Roles : closer'[o] \in {"rel2", "rel3"} => RsDone("client")
      /\ \A o \in Roles : closer'[o] = "rel3" => RsDone("agent")
  BY <1>1, <1>2 DEF RsChecks
<1>8. goneBy' # "drained"
  BY <1>7
<1> QED BY <1>2, <1>3, <1>4, <1>5, <1>6, <1>7, <1>8, QueueStep, Zenon DEF QueuesOnly

LEMMA FreeInv ==
  ASSUME RsInv, FreeSession
  PROVE  RsInv'
<1>1. RsTyped /\ RsTurn /\ RsChecks /\ RsEnders
  BY DEF RsInv
<1>2. /\ goneBy' = goneBy /\ goneBy # "" /\ ender' = "no" /\ closedAt' = closedAt /\ endReason' = endReason /\ endTold' = endTold
      /\ sent' = sent /\ polls' = polls /\ closer' = closer /\ scan' = scan /\ side' = side /\ recv' = recv /\ saw' = saw
  BY <1>1 DEF FreeSession, session, ends, RsEnders, Registered
<1>3. /\ taken' = [r \in Roles |-> IF freed[r] THEN taken[r] ELSE sent[r]]
      /\ assigned' = [r \in Roles |-> IF freed[r] THEN assigned[r] ELSE {}]
      /\ qdone' = [r \in Roles |-> TRUE] /\ freed' = [r \in Roles |-> TRUE]
  BY DEF FreeSession
<1>4. /\ taken \in [Roles -> Nat] /\ sent \in [Roles -> Nat] /\ assigned \in [Roles -> SUBSET Nat]
      /\ qdone \in [Roles -> BOOLEAN] /\ freed \in [Roles -> BOOLEAN]
  BY <1>1 DEF RsTyped
<1>5. /\ taken' \in [Roles -> Nat] /\ assigned' \in [Roles -> SUBSET Nat]
      /\ qdone' \in [Roles -> BOOLEAN] /\ freed' \in [Roles -> BOOLEAN]
  BY <1>3, <1>4
<1>6. RsTyped'
  BY <1>1, <1>2, <1>5 DEF RsTyped, Closing
<1>7. RsEnders'
  BY <1>1, <1>2 DEF RsEnders, Registered
<1>8. RsRetired'
  BY <1>2 DEF RsRetired, Registered
<1>9. ASSUME NEW o \in Roles PROVE Kept(o) \/ DroppedUnread(o)
  <2>1. CASE freed[o]
    BY <2>1, <1>3, <1>4 DEF Kept
  <2>2. CASE ~freed[o] /\ goneBy = "drained"
    <3>1. assigned[o] = {} /\ taken[o] = sent[o]
      BY <2>2, <1>1 DEF RsChecks, RsDone
    <3> QED BY <2>2, <3>1, <1>3, <1>4 DEF Kept
  <2>3. CASE ~freed[o] /\ goneBy # "drained"
    BY <2>3, <1>2, <1>3, <1>4 DEF DroppedUnread, RsWhole
  <2> QED BY <2>1, <2>2, <2>3
<1>10. /\ goneBy' \in {"", "drained"} => goneBy \in {"", "drained"}
       /\ \A o \in Roles : closer'[o] \in {"rel2", "rel3"} => RsDone("client")
       /\ \A o \in Roles : closer'[o] = "rel3" => RsDone("agent")
       /\ goneBy' = "drained" => \A o \in Roles : RsDone(o)
  BY <1>1, <1>2 DEF RsChecks
<1> QED BY <1>2, <1>6, <1>7, <1>8, <1>9, <1>10, QueueStep, Zenon DEF QueuesOnly

LEMMA HCloseInv ==
  ASSUME RsInv, NEW role \in Roles, HClose(role)
  PROVE  RsInv'
<1>1. RsTyped /\ RsTurn /\ RsLive /\ RsChecks /\ RsEnders /\ RsRetired /\ "client" \in Roles /\ "agent" \in Roles
  BY DEF RsInv, Roles
<1>2. /\ endReason' = endReason /\ endTold' = endTold /\ sent' = sent /\ polls' = polls
      /\ scan' = scan /\ side' = side /\ recv' = recv /\ saw' = saw
  BY DEF HClose, ends
<1> DEFINE moves(from, to) == closer[role] = from /\ closer' = [closer EXCEPT ![role] = to]
           same == taken' = taken /\ assigned' = assigned /\ qdone' = qdone /\ freed' = freed
           stays == goneBy' = goneBy /\ ender' = ender
<1>3. /\ taken \in [Roles -> Nat] /\ assigned \in [Roles -> SUBSET Nat]
      /\ qdone \in [Roles -> BOOLEAN] /\ freed \in [Roles -> BOOLEAN]
      /\ closer \in [Roles -> {"no", "sent"} \cup Closing]
      /\ closedAt \in BOOLEAN /\ Registered \in BOOLEAN
  BY <1>1 DEF RsTyped, Registered
<1>4. \/ /\ moves("sent", IF Registered THEN "marked" ELSE "done")
         /\ closedAt' = (closedAt \/ Registered) /\ stays /\ same
      \/ /\ moves("marked", "shut1") /\ qdone' = [qdone EXCEPT !["client"] = TRUE]
         /\ taken' = taken /\ assigned' = assigned /\ freed' = freed /\ stays /\ closedAt' = closedAt
      \/ /\ moves("shut1", "shut2") /\ qdone' = [qdone EXCEPT !["agent"] = TRUE]
         /\ taken' = taken /\ assigned' = assigned /\ freed' = freed /\ stays /\ closedAt' = closedAt
      \/ /\ moves("shut2", "rel1")
         /\ IF freed[role] THEN UNCHANGED <<taken, assigned, qdone, freed>> ELSE Dropped(role)
         /\ stays /\ closedAt' = closedAt
      \/ moves("rel1", IF Settled("client") THEN "rel2" ELSE "done") /\ stays /\ same /\ closedAt' = closedAt
      \/ moves("rel2", IF Settled("agent") THEN "rel3" ELSE "done") /\ stays /\ same /\ closedAt' = closedAt
      \/ moves("rel3", "done") /\ Retire /\ same /\ closedAt' = closedAt
  BY DEF HClose
<1> HIDE DEF moves, same, stays
<1>5. closer[role] \notin {"no", "done"} /\ side[role] = "closed"
  <2>1. closer[role] \notin {"no", "done"}
    BY <1>4 DEF moves
  <2> QED BY <2>1, <1>1 DEF RsEnders
<1>6. /\ taken' \in [Roles -> Nat] /\ assigned' \in [Roles -> SUBSET Nat]
      /\ qdone' \in [Roles -> BOOLEAN] /\ freed' \in [Roles -> BOOLEAN]
      /\ \A o \in Roles : freed[o] => freed'[o]
      /\ closer[role] = "shut2" => freed'[role]
      /\ \A o \in Roles : Kept(o) \/ DroppedUnread(o)
  <2>1. CASE same /\ closer[role] # "shut2"
    BY <2>1, <1>3 DEF Kept, same
  <2>2. CASE /\ qdone' = [qdone EXCEPT !["client"] = TRUE] /\ taken' = taken
             /\ assigned' = assigned /\ freed' = freed /\ closer[role] # "shut2"
    BY <2>2, <1>1, <1>3, ShutsOne
  <2>3. CASE /\ qdone' = [qdone EXCEPT !["agent"] = TRUE] /\ taken' = taken
             /\ assigned' = assigned /\ freed' = freed /\ closer[role] # "shut2"
    BY <2>3, <1>1, <1>3, ShutsOne
  <2>4. CASE IF freed[role] THEN UNCHANGED <<taken, assigned, qdone, freed>> ELSE Dropped(role)
    <3>1. side[role] \notin {"open", "ended"}
      BY <1>5
    <3> QED BY <2>4, <3>1, <1>1, DropsOne
  <2> QED BY <2>1, <2>2, <2>3, <2>4, <1>4 DEF moves
<1>7. \/ stays
      \/ /\ goneBy' = "drained" /\ ender' = "free" /\ Registered
         /\ RsDone("client") /\ RsDone("agent")
  <2>1. CASE moves("rel3", "done") /\ Retire
    <3>1. RsDone("client") /\ RsDone("agent")
      BY <2>1, <1>1 DEF moves, RsChecks
    <3> QED BY <2>1, <3>1, Zenon DEF Retire, stays
  <2> QED BY <2>1, <1>4
<1>8. PICK to \in Closing : /\ closer' = [closer EXCEPT ![role] = to]
                            /\ to \in {"rel2", "rel3"} => RsDone("client")
                            /\ to = "rel3" => RsDone("agent")
  <2>1. CASE moves("rel1", IF Settled("client") THEN "rel2" ELSE "done")
    <3>1. Settled("client") => RsDone("client")
      BY <1>1, SettledIsDone
    <3> QED BY <2>1, <3>1 DEF moves, Closing
  <2>2. CASE moves("rel2", IF Settled("agent") THEN "rel3" ELSE "done")
    <3>1. Settled("agent") => RsDone("agent")
      BY <1>1, SettledIsDone
    <3>2. RsDone("client")
      BY <2>2, <1>1 DEF moves, RsChecks
    <3> QED BY <2>2, <3>1, <3>2 DEF moves, Closing
  <2>3. CASE \/ moves("sent", IF Registered THEN "marked" ELSE "done") \/ moves("marked", "shut1")
             \/ moves("shut1", "shut2") \/ moves("shut2", "rel1") \/ moves("rel3", "done")
    BY <2>3 DEF moves, Closing
  <2> QED BY <2>1, <2>2, <2>3, <1>4
<1>9. /\ closer' \in [Roles -> {"no", "sent"} \cup Closing]
      /\ closer'[role] = to /\ \A o \in Roles : o # role => closer'[o] = closer[o]
  BY <1>3, <1>8
<1>10. closedAt' \in BOOLEAN /\ (closedAt => closedAt') /\ (Registered' => Registered)
  BY <1>3, <1>4, <1>7 DEF stays, Registered
<1>11. RsTyped'
  BY <1>1, <1>2, <1>6, <1>7, <1>9, <1>10 DEF RsTyped, stays, Closing
<1>12. RsEnders'
  <2>1. \A o \in Roles : closer'[o] # "no" => side'[o] = "closed"
    BY <1>1, <1>2, <1>5, <1>9 DEF RsEnders
  <2>2. \A o \in Roles : (qdone[o] => qdone'[o]) /\ (freed[o] => freed'[o])
    BY <1>6 DEF Kept, DroppedUnread
  <2>3. Registered' =>
          /\ to \in Closing => closedAt'
          /\ to \in {"shut1", "shut2"} \cup Checking => qdone'["client"]
          /\ to \in {"shut2"} \cup Checking => qdone'["agent"]
          /\ to \in Checking => freed'[role]
    <3> SUFFICES ASSUME Registered'
                 PROVE  /\ to \in Closing => closedAt'
                        /\ to \in {"shut1", "shut2"} \cup Checking => qdone'["client"]
                        /\ to \in {"shut2"} \cup Checking => qdone'["agent"]
                        /\ to \in Checking => freed'[role]
      OBVIOUS
    <3>1. Registered
      BY <1>10
    <3>2. CASE moves("sent", IF Registered THEN "marked" ELSE "done") /\ closedAt' = (closedAt \/ Registered)
      <4>1. to = "marked"
        BY <3>1, <3>2, <1>9 DEF moves
      <4>2. closedAt'
        BY <3>1, <3>2, <1>3
      <4> QED BY <4>1, <4>2 DEF Checking
    <3>3. CASE moves("marked", "shut1") /\ qdone' = [qdone EXCEPT !["client"] = TRUE]
      <4>1. to = "shut1" /\ closer[role] = "marked" /\ qdone'["client"]
        BY <3>3, <1>1, <1>3, <1>9 DEF moves
      <4> QED BY <4>1, <3>1, <1>1, <1>10 DEF RsEnders, Closing, Checking
    <3>4. CASE moves("shut1", "shut2") /\ qdone' = [qdone EXCEPT !["agent"] = TRUE]
      <4>1. to = "shut2" /\ closer[role] = "shut1" /\ qdone'["agent"]
        BY <3>4, <1>1, <1>3, <1>9 DEF moves
      <4> QED BY <4>1, <2>2, <3>1, <1>1, <1>10 DEF RsEnders, Closing, Checking
    <3>5. CASE moves("shut2", "rel1") /\ freed'[role]
      <4>1. to = "rel1" /\ closer[role] = "shut2"
        BY <3>5, <1>9 DEF moves
      <4> QED BY <4>1, <3>5, <2>2, <3>1, <1>1, <1>10 DEF RsEnders, Closing, Checking
    <3>6. CASE closer[role] \in {"rel1", "rel2", "rel3"}
      BY <3>6, <2>2, <3>1, <1>1, <1>10 DEF RsEnders, Closing, Checking
    <3> QED BY <3>2, <3>3, <3>4, <3>5, <3>6, <1>4, <1>6 DEF moves
  <2>4. \A o \in Roles : Registered' =>
          /\ closer'[o] \in Closing => closedAt'
          /\ closer'[o] \in {"shut1", "shut2"} \cup Checking => qdone'["client"]
          /\ closer'[o] \in {"shut2"} \cup Checking => qdone'["agent"]
          /\ closer'[o] \in Checking => freed'[o]
    <3> SUFFICES ASSUME NEW o \in Roles, Registered'
                 PROVE  /\ closer'[o] \in Closing => closedAt'
                        /\ closer'[o] \in {"shut1", "shut2"} \cup Checking => qdone'["client"]
                        /\ closer'[o] \in {"shut2"} \cup Checking => qdone'["agent"]
                        /\ closer'[o] \in Checking => freed'[o]
      OBVIOUS
    <3>1. CASE o = role
      BY <3>1, <2>3, <1>9
    <3>2. CASE o # role
      BY <3>2, <2>2, <1>1, <1>9, <1>10 DEF RsEnders
    <3> QED BY <3>1, <3>2
  <2>5. ender' = "free" => ~Registered'
    BY <1>1, <1>7 DEF RsEnders, stays, Registered
  <2> QED BY <2>1, <2>4, <2>5, <1>1, <1>2 DEF RsEnders
<1>13. RsRetired'
  <2> SUFFICES ASSUME Registered', polls' = {}, \A o \in Roles : closer'[o] = "done",
                      ~endReason \/ endTold
               PROVE  \E o \in Roles : ~Settled(o)'
    BY <1>2 DEF RsRetired
  <2>1. Registered /\ to = "done" /\ \A o \in Roles : o # role => closer[o] = "done"
    BY <1>9, <1>10
  <2>2. ~moves("rel3", "done") \/ ~Retire
    <3> SUFFICES ASSUME moves("rel3", "done"), Retire PROVE FALSE
      OBVIOUS
    <3>1. closedAt
      BY <2>1, <1>1 DEF moves, Closing, RsEnders
    <3> QED BY <3>1, <2>1 DEF Retire, Registered
  <2>3. same /\ (~Settled("client") \/ ~Settled("agent"))
    <3>1. closer'[role] = "done"
      BY <2>1, <1>9
    <3> QED BY <3>1, <2>1, <2>2, <1>3, <1>4 DEF moves
  <2>4. ~Settled("client") \/ ~Settled("agent")
    BY <2>3
  <2>5. \A o \in Roles : ~Settled(o) => ~Settled(o)'
    BY <2>3, <1>2 DEF same, Settled, Undrained, Serving, PollsOf
  <2> QED BY <2>4, <2>5, <1>1
<1>14. /\ goneBy' \in {"", "drained"} => goneBy \in {"", "drained"}
       /\ \A o \in Roles : closer'[o] \in {"rel2", "rel3"} => RsDone("client")
       /\ \A o \in Roles : closer'[o] = "rel3" => RsDone("agent")
       /\ goneBy' = "drained" => \A o \in Roles : RsDone(o)
  <2>1. goneBy' \in {"", "drained"} => goneBy \in {"", "drained"}
    BY <1>7 DEF stays, Registered
  <2>2. goneBy' = "drained" => \A o \in Roles : RsDone(o)
    BY <1>1, <1>7 DEF stays, RsChecks, Roles
  <2> QED BY <2>1, <2>2, <1>1, <1>8, <1>9 DEF RsChecks
<1> QED BY <1>2, <1>6, <1>11, <1>12, <1>13, <1>14, QueueStep, Zenon DEF QueuesOnly

LEMMA PollInv ==
  ASSUME RsInv, NEW r \in Roles, NEW numbered \in BOOLEAN, Poll(r, numbered)
  PROVE  RsInv'
<1>1. RsTyped /\ RsTurn /\ RsLive /\ RsChecks /\ RsEnders /\ RsRetired
  BY DEF RsInv
<1>2. /\ goneBy' = goneBy /\ closedAt' = closedAt /\ endReason' = endReason /\ endTold' = endTold
      /\ sent' = sent /\ taken' = taken /\ assigned' = assigned /\ qdone' = qdone /\ freed' = freed
      /\ closer' = closer /\ scan' = scan /\ ender' = ender /\ recv' = recv
      /\ side[r] = "open" /\ \A p \in polls : p.role = r => ~p.live
  BY DEF Poll, session, queues, handlers, PollsOf
<1>3. /\ side \in [Roles -> {"open", "ended", "closed", "dead"}]
      /\ saw \in [Roles -> {"", "eof", "gone", "missing"}]
      /\ recv \in [Roles -> Nat]
      /\ polls \subseteq PollRecords
  BY <1>1 DEF RsTyped
<1>4. CASE /\ Registered
           /\ polls' = polls \cup {[role |-> r, live |-> TRUE, numbered |-> numbered,
                                    ack |-> recv[r], ph |-> "in", k |-> 0]}
           /\ side' = side /\ saw' = saw
  <2>1. PICK q : q = [role |-> r, live |-> TRUE, numbered |-> numbered, ack |-> recv[r], ph |-> "in", k |-> 0]
    OBVIOUS
  <2>2. q \in PollRecords /\ q.role = r /\ q.live = TRUE /\ q.ack = recv[r] /\ q.ph = "in"
    BY <2>1, <1>3 DEF PollRecords, Phases
  <2>3. polls' = polls \cup {q} /\ side' = side /\ saw' = saw
    BY <2>1, <1>4
  <2>4. RsTyped'
    BY <2>2, <2>3, <1>1, <1>2 DEF RsTyped, Closing
  <2>5. RsTurn'
    BY <2>2, <2>3, <1>1, <1>2 DEF RsTurn
  <2>6. RsLive'
    BY <2>2, <2>3, <1>1, <1>2 DEF RsLive
  <2>7. ASSUME NEW o \in Roles, RsWhole(o)' PROVE RsReader(o)'
    <3>1. RsReader(o)
      BY <2>7, <1>2 DEF RsInv, RsWhole, WrittenOff
    <3>2. \A k : Hand(o, k) => Hand(o, k)'
      BY <2>3 DEF Hand
    <3>3. \A x \in polls' : x \in polls \/ x = q
      BY <2>3
    <3>4. recv[o] \in Nat
      BY <1>3
    <3>5. \A x \in polls' : x.role = o => x.ack <= recv[o] /\ (x.ph = "hand" => x.k <= taken[o])
      BY <3>1, <3>3, <3>4, <2>2 DEF RsReader
    <3>6. side[o] \in {"open", "ended"} =>
            \A k \in (recv[o] + 1)..taken[o] : k \in assigned[o] \/ Hand(o, k)'
      BY <3>1, <3>2 DEF RsReader
    <3>7. \A x \in polls' : x.role = o /\ x.live =>
             /\ x.ack = recv[o]
             /\ x.ph = "parked" => taken[o] = recv[o]
             /\ x.ph \in {"hand", "data"} => x.k = recv[o] + 1 /\ x.k <= taken[o]
             /\ x.ph = "over" => qdone[o] /\ recv[o] = sent[o]
      BY <3>1, <3>3, <2>2 DEF RsReader
    <3> QED BY <3>1, <3>5, <3>6, <3>7, <2>3, <1>2 DEF RsReader
  <2>8. \A o \in Roles : RsDone(o) => RsDone(o)'
    BY <2>2, <2>3, <1>2 DEF RsDone
  <2>9. RsChecks'
    BY <2>2, <2>3, <2>8, <1>1, <1>2 DEF RsChecks, Roles
  <2>10. RsEnders'
    BY <2>3, <1>1, <1>2, QuietEnders, Zenon
  <2>11. RsRetired'
    BY <2>3 DEF RsRetired
  <2>12. RsEof'
    BY <2>3, <1>2, EofStays DEF RsInv
  <2> QED BY <2>4, <2>5, <2>6, <2>7, <2>9, <2>10, <2>11, <2>12 DEF RsInv
<1>5. CASE /\ ~Registered /\ polls' = polls
           /\ side' = [side EXCEPT ![r] = "ended"]
           /\ saw' = [saw EXCEPT ![r] = "missing"]
  <2>1. /\ side' \in [Roles -> {"open", "ended", "closed", "dead"}]
        /\ saw' \in [Roles -> {"", "eof", "gone", "missing"}]
        /\ side'[r] = "ended" /\ saw'[r] = "missing"
        /\ \A o \in Roles : o # r => side'[o] = side[o] /\ saw'[o] = saw[o]
    BY <1>3, <1>5
  <2>2. RsTyped'
    BY <2>1, <1>1, <1>2, <1>5 DEF RsTyped, Closing
  <2>3. RsTurn'
    BY <1>1, <1>2, <1>5 DEF RsTurn
  <2>4. RsLive'
    <3>1. \A x \in polls : x.live => x.role \in Roles /\ side'[x.role] = side[x.role]
      BY <2>1, <1>2, <1>3 DEF PollRecords
    <3> QED BY <3>1, <1>1, <1>5 DEF RsLive
  <2>5. ASSUME NEW o \in Roles, RsWhole(o)' PROVE RsReader(o)'
    <3>1. RsReader(o)
      BY <2>5, <1>2 DEF RsInv, RsWhole, WrittenOff
    <3>2. \A k : Hand(o, k) <=> Hand(o, k)'
      BY <1>5 DEF Hand
    <3>3. /\ side'[o] \in {"open", "ended"} => side[o] \in {"open", "ended"}
          /\ saw'[o] \in {"eof", "gone"} => saw[o] \in {"eof", "gone"}
      BY <2>1, <1>2
    <3> QED BY <3>1, <3>2, <3>3, <1>2, <1>5 DEF RsReader
  <2>6. \A o \in Roles : RsDone(o) => RsDone(o)'
    BY <1>2, <1>5 DEF RsDone
  <2>7. RsChecks'
    BY <2>6, <1>1, <1>2, <1>5 DEF RsChecks, Roles
  <2>8. RsEnders'
    <3>1. \A o \in Roles : closer'[o] # "no" => side'[o] = "closed"
      BY <2>1, <1>1, <1>2 DEF RsEnders
    <3> QED BY <3>1, <1>1, <1>2, <1>5 DEF RsEnders, Registered
  <2>9. RsRetired'
    BY <1>2, <1>5 DEF RsRetired, Registered
  <2>10. RsEof'
    <3>1. RsEof
      BY DEF RsInv
    <3> QED BY <3>1, <2>1, <1>2 DEF RsEof
  <2> QED BY <2>2, <2>3, <2>4, <2>5, <2>7, <2>8, <2>9, <2>10 DEF RsInv
<1> QED BY <1>4, <1>5 DEF Poll

LEMMA SendInv ==
  ASSUME RsInv, NEW role \in Roles, Send(role)
  PROVE  RsInv'
<1> DEFINE r == Far(role)
<1>1. RsTyped /\ RsTurn /\ RsLive /\ RsChecks /\ RsEnders /\ RsRetired
  BY DEF RsInv
<1>2. /\ goneBy' = goneBy /\ closedAt' = closedAt /\ endReason' = endReason /\ endTold' = endTold
      /\ taken' = taken /\ assigned' = assigned /\ qdone' = qdone /\ freed' = freed
      /\ closer' = closer /\ scan' = scan /\ ender' = ender /\ polls' = polls
      /\ side' = side /\ recv' = recv /\ saw' = saw
      /\ ~qdone[r] /\ sent' = [sent EXCEPT ![r] = @ + 1]
  BY DEF Send, session, handlers, ends
<1>3. r \in Roles
  BY DEF Far, Roles
<1> HIDE DEF r
<1>4. sent \in [Roles -> Nat] /\ taken \in [Roles -> Nat] /\ recv \in [Roles -> Nat]
  BY <1>1 DEF RsTyped
<1>5. sent' \in [Roles -> Nat] /\ sent'[r] = sent[r] + 1 /\ \A o \in Roles : o # r => sent'[o] = sent[o]
  BY <1>2, <1>3, <1>4
<1>6. RsTyped'
  BY <1>1, <1>2, <1>5 DEF RsTyped, Closing
<1>7. RsTurn'
  <2>1. \A o \in Roles : taken[o] <= sent'[o]
    BY <1>1, <1>4, <1>5 DEF RsTurn
  <2> QED BY <2>1, <1>1, <1>2 DEF RsTurn
<1>8. RsLive'
  BY <1>1, <1>2 DEF RsLive
<1>9. ASSUME NEW o \in Roles, RsWhole(o)' PROVE RsReader(o)'
  <2>1. RsReader(o)
    BY <1>2, <1>9 DEF RsInv, RsWhole, WrittenOff
  <2>2. \A k : Hand(o, k) <=> Hand(o, k)'
    BY <1>2 DEF Hand
  <2>3. qdone[o] => sent'[o] = sent[o]
    BY <1>2, <1>5
  <2> QED BY <2>1, <2>2, <2>3, <1>2 DEF RsReader
<1>10. \A o \in Roles : RsDone(o) => RsDone(o)'
  BY <1>2, <1>5 DEF RsDone
<1>11. RsChecks'
  BY <1>1, <1>2, <1>10 DEF RsChecks, Roles
<1>12. RsEnders'
  BY <1>1, <1>2, QuietEnders, Zenon
<1>13. RsRetired'
  <2>1. ~Settled(r)'
    BY <1>2 DEF Settled
  <2> QED BY <2>1, <1>3 DEF RsRetired
<1>14. RsEof'
  <2>1. \A o \in Roles : qdone[o] => sent'[o] = sent[o]
    BY <1>2, <1>5
  <2> QED BY <2>1, <1>2, EofStays DEF RsInv
<1> QED BY <1>6, <1>7, <1>8, <1>9, <1>11, <1>12, <1>13, <1>14 DEF RsInv

----------------------------------------------------------------------------
(* The specification *)

LEMMA RsStutter == RsInv /\ UNCHANGED vars => RsInv'
<1> SUFFICES ASSUME RsInv, UNCHANGED vars PROVE RsInv'
  OBVIOUS
<1>1. /\ goneBy' = goneBy /\ closedAt' = closedAt /\ endReason' = endReason /\ endTold' = endTold
      /\ sent' = sent /\ taken' = taken /\ assigned' = assigned /\ qdone' = qdone /\ freed' = freed
      /\ polls' = polls /\ closer' = closer /\ scan' = scan /\ ender' = ender
      /\ side' = side /\ recv' = recv /\ saw' = saw
  BY DEF vars
<1>2. RsTyped' /\ RsEnders' /\ RsRetired'
  <2>1. RsTyped /\ RsEnders /\ RsRetired
    BY DEF RsInv
  <2>2. \A r \in Roles : Settled(r) <=> Settled(r)'
    BY <1>1 DEF Settled, Serving, PollsOf, Undrained
  <2>3. RsTyped'
    BY <2>1, <1>1 DEF RsTyped, Closing
  <2>4. RsEnders'
    BY <2>1, <1>1, QuietEnders, Zenon
  <2> QED BY <2>1, <2>2, <2>3, <2>4, <1>1 DEF RsRetired, Registered
<1>3. \A o \in Roles : Kept(o)
  BY <1>1 DEF RsInv, RsTyped, Kept
<1>4. /\ goneBy' \in {"", "drained"} => goneBy \in {"", "drained"}
      /\ \A o \in Roles : closer'[o] \in {"rel2", "rel3"} => RsDone("client")
      /\ \A o \in Roles : closer'[o] = "rel3" => RsDone("agent")
      /\ goneBy' = "drained" => \A o \in Roles : RsDone(o)
  BY <1>1 DEF RsInv, RsChecks
<1> QED BY <1>1, <1>2, <1>3, <1>4, QueueStep, Zenon DEF QueuesOnly

LEMMA RsInitInv == Init => RsInv
<1> SUFFICES ASSUME Init PROVE RsInv
  OBVIOUS
<1>1. RsTyped
  BY DEF Init, RsTyped, Closing
<1>0. polls = {} /\ \A r \in Roles : sent[r] = 0 /\ taken[r] = 0 /\ recv[r] = 0 /\ assigned[r] = {}
  BY DEF Init
<1>2. RsTurn /\ RsLive
  <2>1. \A r \in Roles : taken[r] <= sent[r]
    BY <1>0, SMT
  <2>2. \A p \in polls, q \in polls : FALSE
    BY <1>0
  <2> QED BY <2>1, <2>2 DEF RsTurn, RsLive
<1>3. ASSUME NEW r \in Roles PROVE RsReader(r)
  <2>1. recv[r] = 0 /\ taken[r] = 0 /\ assigned[r] = {} /\ polls = {}
    BY <1>0
  <2>3. saw[r] \notin {"eof", "gone"}
    BY DEF Init
  <2>2. recv[r] <= taken[r] /\ \A k \in (recv[r] + 1)..taken[r] : FALSE
    BY <2>1, SMT
  <2> QED BY <2>1, <2>2, <2>3 DEF RsReader
<1>4. RsChecks
  BY DEF Init, RsChecks
<1>5. RsEnders /\ RsEof
  BY DEF Init, RsEnders, RsEof, Closing, Checking
<1>6. RsRetired
  <2>1. "client" \in Roles /\ closer["client"] = "no"
    BY DEF Init, Roles
  <2> QED BY <2>1 DEF RsRetired
<1> QED BY <1>1, <1>2, <1>3, <1>4, <1>5, <1>6 DEF RsInv

LEMMA RsNextInv == RsInv /\ [Next]_vars => RsInv'
<1> SUFFICES ASSUME RsInv, [Next]_vars PROVE RsInv'
  OBVIOUS
<1>1. CASE PollWork
  BY <1>1, TakeInv, ParkedInv, AssignInv, AnswerInv, ReleaseInv, Zenon DEF PollWork
<1>2. CASE HandlerWork \/ DeviceGone
  BY <1>2, HCloseInv, DeviceGoneInv, ScanDropsInv, FreeInv, Zenon DEF HandlerWork
<1>3. CASE EndsStep
  BY <1>3, SendInv, LeaveInv, PollInv, AbandonInv, Zenon DEF EndsStep
<1>4. CASE Reap \/ Ended
  <2>1. PICK by \in {"ended", "reaped"} : Remove(by)
    BY <1>4 DEF Reap, Ended
  <2> QED BY <2>1, RemoveInv
<1>5. CASE UNCHANGED vars
  BY <1>5, RsStutter
<1> QED BY <1>1, <1>2, <1>3, <1>4, <1>5 DEF Next

\* The relay's two ends, their queues and the checks that retire a session agree
\* in every state (http.go, handleHDown, handleHClose, releaseDrainedSession).
THEOREM SessionInvariant == Spec => []RsInv
BY RsInitInv, RsNextInv, PTL DEF Spec

\* A session that is retired as drained was (releaseDrainedSession): for any
\* number of chunks and polls, with the sweeper and every other way to end it
\* included, a side that still reads has every chunk that was sent to it, unless
\* it is a device that the relay took for gone, whether it was or not.
THEOREM Drained == Spec => []DrainedMeansRead
<1>1. RsInv => DrainedMeansRead
  <2> SUFFICES ASSUME RsInv, goneBy = "drained", NEW r \in Roles,
                      side[r] \in {"open", "ended"}, ~WrittenOff(r)
               PROVE  recv[r] = sent[r]
    BY DEF DrainedMeansRead
  <2>1. RsReader(r) /\ RsDone(r) /\ recv[r] \in Nat /\ taken[r] \in Nat
    BY DEF RsInv, RsChecks, RsTyped, RsWhole
  <2>2. \A k : ~Hand(r, k)
    BY <2>1 DEF RsDone, Hand
  <2>3. \A k \in (recv[r] + 1)..taken[r] : FALSE
    BY <2>1, <2>2 DEF RsReader, RsDone
  <2>4. recv[r] <= taken[r] /\ taken[r] = sent[r]
    BY <2>1 DEF RsReader, RsDone
  <2>5. ~(recv[r] < taken[r])
    BY <2>1, <2>3
  <2> QED BY <2>1, <2>4, <2>5
<1> QED BY <1>1, SessionInvariant, PTL

\* A Read that ends by itself has had everything (drainUpTo's closed queue,
\* writeSessionClosed's 410), unless the relay removed the session: a plain end on
\* either side, and on the controller's the word that the device is gone.  No
\* more than that is said of a device that was taken for gone.
THEOREM EndsComplete == Spec => []EndMeansRead
<1>1. RsInv => EndMeansRead
  <2> SUFFICES ASSUME RsInv, goneBy \in {"", "drained"}
               PROVE  /\ \A r \in Roles : saw[r] = "eof" => recv[r] = sent[r]
                      /\ saw["client"] = "gone" => recv["client"] = sent["client"]
    BY DEF EndMeansRead
  <2>1. "client" \in Roles /\ RsWhole("client")
    BY DEF Roles, RsWhole, WrittenOff
  <2> QED BY <2>1 DEF RsInv, RsEof, RsReader
<1> QED BY <1>1, SessionInvariant, PTL

\* The last check retires the session: no order of the polls' and the closes'
\* checks (releaseDrainedSession), nor of the scan between them, leaves a settled
\* session behind, but for one whose reason nobody was told.
THEOREM LastCheckRetires == Spec => []NoMissedRetire
<1>1. RsInv => NoMissedRetire
  BY DEF RsInv, RsRetired, NoMissedRetire
<1> QED BY <1>1, SessionInvariant, PTL
=============================================================================
