-------------------------- MODULE UpChannelProofs --------------------------
(***************************************************************************)
(* Proofs about UpChannel, for every number of writes, window, budget,      *)
(* number of tries and number of carrier failures.                          *)
(***************************************************************************)
EXTENDS UpChannel, FiniteSetTheorems, SequenceTheorems, WellFoundedInduction, TLAPS

\* The writes 1..s-1 followed by s..m-1 are the writes 1..m-1.
LEMMA ConcatRange ==
    ASSUME NEW s \in Nat \ {0}, NEW m \in Nat, s < m
    PROVE  [i \in 1..(s - 1) |-> i] \o [i \in 1..(m - s) |-> s + i - 1]
             = [i \in 1..(m - 1) |-> i]
<1> DEFINE l == [i \in 1..(s - 1) |-> i]
           r == [i \in 1..(m - s) |-> s + i - 1]
           w == [i \in 1..(m - 1) |-> i]
<1>1. l \in Seq(Nat) /\ Len(l) = s - 1
  OBVIOUS
<1>2. r \in Seq(Nat) /\ Len(r) = m - s
  OBVIOUS
<1>3. w \in Seq(Nat) /\ Len(w) = m - 1
  OBVIOUS
<1>4. l \o r \in Seq(Nat) /\ Len(l \o r) = m - 1
  BY <1>1, <1>2, ConcatProperties
<1>5. ASSUME NEW i \in 1..(m - 1) PROVE (l \o r)[i] = w[i]
  <2>1. (l \o r)[i] = IF i <= Len(l) THEN l[i] ELSE r[i - Len(l)]
    BY <1>1, <1>2, ConcatProperties
  <2> QED
    BY <2>1, <1>1
<1> HIDE DEF l, r, w
<1>6. l \o r = w
  BY <1>3, <1>4, <1>5, SeqEqual
<1> QED
  BY <1>6 DEF l, r, w

-----------------------------------------------------------------------------
(* Requests *)

\* The phases of a request, one by one.
LEMMA PhaseNames == Phases = {"none", "net", "look", "checked", "wait", "held", "lost",
                              "ok", "retry", "refused"}
BY DEF Phases, Answers

\* What SetReq makes of a request, and of the others.
LEMMA SetReqFact ==
    ASSUME req \in Requests, NEW s \in Writes, NEW a \in Attempts, NEW ph \in Phases
    PROVE  /\ SetReq(s, a, ph) \in Requests
           /\ \A s2 \in Writes : \A a2 \in Attempts :
                SetReq(s, a, ph)[s2][a2].ph = IF s2 = s /\ a2 = a THEN ph ELSE req[s2][a2].ph
<1>1. 0 \in 0..MaxUpload
  BY UpConstants
<1>2. [ph |-> ph, ahead |-> FALSE, n |-> 0] \in [ph : Phases, ahead : BOOLEAN, n : 0..MaxUpload]
  BY <1>1
<1> QED
  BY <1>2 DEF SetReq, Requests

\* An answer is on its way or lost; the other requests keep their phase.
LEMMA ReplyFact ==
    ASSUME req \in Requests, NEW s \in Writes, NEW a \in Attempts, NEW ph \in Phases
    PROVE  /\ Reply(s, a, ph) \in Requests
           /\ \A s2 \in Writes : \A a2 \in Attempts :
                IF s2 = s /\ a2 = a
                THEN Reply(s, a, ph)[s2][a2].ph \in {ph, "lost"}
                ELSE Reply(s, a, ph)[s2][a2].ph = req[s2][a2].ph
<1>1. "lost" \in Phases
  BY PhaseNames
<1> QED
  BY <1>1, SetReqFact DEF Reply

\* Waking parked writes changes no answer and makes no request.
LEMMA WokenFact ==
    ASSUME NEW r \in Requests
    PROVE  /\ Woken(r) \in Requests
           /\ \A s \in Writes : \A a \in Attempts :
                /\ Woken(r)[s][a].ph = "ok" => r[s][a].ph = "ok"
                /\ Woken(r)[s][a].ph = "none" <=> r[s][a].ph = "none"
<1> DEFINE R == [ph : Phases, ahead : BOOLEAN, n : 0..MaxUpload]
           Wake(x) == [x EXCEPT !.ph = "look"]
<1>1. "look" \in Phases
  BY PhaseNames
<1>2. ASSUME NEW x \in R PROVE Wake(x) \in R /\ Wake(x).ph = "look"
  BY <1>1
<1>3. \A s \in Writes : \A a \in Attempts : r[s][a] \in R
  BY DEF Requests
<1>4. \A s \in Writes : \A a \in Attempts :
         Woken(r)[s][a] = IF r[s][a].ph = "wait" THEN Wake(r[s][a]) ELSE r[s][a]
  BY DEF Woken
<1> HIDE DEF R, Wake
<1>5. \A s \in Writes : \A a \in Attempts : Woken(r)[s][a] \in R
  BY <1>2, <1>3, <1>4
<1>6. Woken(r) \in Requests
  BY <1>5 DEF Woken, Requests, R
<1> QED
  BY <1>2, <1>3, <1>4, <1>6

\* Giving room back (releaseLocked) wakes writes and answers none.
LEMMA ReleaseFact ==
    ASSUME NEW r \in Requests, NEW n, NEW k, Release(n, k, r)
    PROVE  /\ req' \in Requests
           /\ \A s \in Writes : \A a \in Attempts :
                /\ req'[s][a].ph = "ok" => r[s][a].ph = "ok"
                /\ req'[s][a].ph = "none" <=> r[s][a].ph = "none"
BY WokenFact DEF Release

-----------------------------------------------------------------------------
(* Types *)

\* Numbers the actions use are in range.
LEMMA Ranges ==
    /\ 0 \in 0..MaxWrites /\ 0 \in 0..MaxUpload /\ 0 \in 0..UpAttempts /\ 1 \in 0..UpAttempts
    /\ 1 \in Attempts
    /\ \A n \in Sizes : n \in 0..MaxUpload
    /\ \A i \in 0..MaxWrites : i < MaxWrites => i + 1 \in Writes /\ i + 1 \in 0..MaxWrites
    /\ \A a \in 0..UpAttempts : a < UpAttempts => a + 1 \in 0..UpAttempts /\ a + 1 \in Attempts
    /\ \A f \in 0..MaxFaults : f < MaxFaults => f + 1 \in 0..MaxFaults
    /\ {"net", "lost", "ok", "retry", "refused", "wait", "held", "checked"} \subseteq Phases
<1>1. {"net", "lost", "ok", "retry", "refused", "wait", "held", "checked"} \subseteq Phases
  BY PhaseNames
<1> QED
  BY <1>1, UpConstants DEF Sizes, Attempts, Writes

\* The writer's steps keep the types: sendLocked, post, Close.
LEMMA WriterTypes ==
    ASSUME TypeOK, WriterStep
    PROVE  TypeOK'
<1>1. CASE \E n \in Sizes : Send(n)
  BY <1>1, Ranges DEF TypeOK, Send, queue
<1>2. CASE \E s \in Writes : Post(s)
  <2>1. PICK s \in Writes : Post(s)
    BY <1>2
  <2>2. attempt[s] \in Attempts
    BY <2>1 DEF Post, TypeOK
  <2>3. req' \in Requests
    BY <2>1, <2>2, SetReqFact, Ranges DEF Post, TypeOK
  <2> QED
    BY <2>1, <2>2, <2>3 DEF TypeOK, Post, queue
<1>3. ASSUME NEW s \in Writes, NEW ordered \in BOOLEAN, pc[s] = "wire", EndTry(s, ordered)
      PROVE  /\ pc' \in [Writes -> {"none", "lane", "wire", "done", "failed"}]
             /\ attempt' \in [Writes -> 0..UpAttempts]
             /\ \A w \in Writes : pc'[w] # "none" => attempt'[w] \in Attempts
             /\ writeErr' \in BOOLEAN
  <2>1. attempt[s] \in Attempts /\ attempt[s] \in 0..UpAttempts
    BY <1>3 DEF TypeOK
  <2>2. CASE ordered /\ attempt[s] < UpAttempts /\ s # tail
    <3>1. attempt[s] + 1 \in 0..UpAttempts /\ attempt[s] + 1 \in Attempts
      BY <2>1, <2>2, Ranges
    <3> QED
      BY <1>3, <2>2, <3>1 DEF EndTry, TypeOK
  <2>3. CASE ~(ordered /\ attempt[s] < UpAttempts /\ s # tail)
    BY <1>3, <2>1, <2>3 DEF EndTry, TypeOK
  <2> QED
    BY <2>2, <2>3
<1>4. CASE \E s \in Writes : Answer(s)
  <2>1. PICK s \in Writes : Answer(s)
    BY <1>4
  <2>2. /\ pc' \in [Writes -> {"none", "lane", "wire", "done", "failed"}]
        /\ attempt' \in [Writes -> 0..UpAttempts]
        /\ \A w \in Writes : pc'[w] # "none" => attempt'[w] \in Attempts
        /\ writeErr' \in BOOLEAN
    BY <2>1, <1>3 DEF Answer, TypeOK
  <2>3. upOrdered' \in BOOLEAN
    BY <2>1 DEF Answer, TypeOK
  <2> QED
    BY <2>1, <2>2, <2>3 DEF TypeOK, Answer, queue
<1>5. CASE \E s \in Writes, arrives \in BOOLEAN : CarrierFails(s, arrives)
  <2>1. PICK s \in Writes, arrives \in BOOLEAN : CarrierFails(s, arrives)
    BY <1>5
  <2>2. attempt[s] \in Attempts
    BY <2>1 DEF CarrierFails, TypeOK
  <2>3. req' \in Requests
    BY <2>1, <2>2, SetReqFact, Ranges DEF CarrierFails, TypeOK
  <2>4. /\ pc' \in [Writes -> {"none", "lane", "wire", "done", "failed"}]
        /\ attempt' \in [Writes -> 0..UpAttempts]
        /\ \A w \in Writes : pc'[w] # "none" => attempt'[w] \in Attempts
        /\ writeErr' \in BOOLEAN
    BY <2>1, <1>3 DEF CarrierFails, TypeOK
  <2>5. faults' \in 0..MaxFaults
    BY <2>1, Ranges DEF CarrierFails, TypeOK
  <2> QED
    BY <2>1, <2>3, <2>4, <2>5 DEF TypeOK, CarrierFails, queue
<1>6. CASE \E n \in 0..MaxUpload : CloseConn(n)
  <2>1. PICK n \in 0..MaxUpload : CloseConn(n)
    BY <1>6
  <2>2. CASE closing' = "tail0" /\ upSeq' = upSeq /\ UNCHANGED <<size, pc, attempt, tail>>
    BY <2>1, <2>2 DEF TypeOK, CloseConn, queue
  <2>3. CASE upSeq < MaxWrites /\ upSeq' = upSeq + 1 /\ size' = [size EXCEPT ![upSeq + 1] = n]
    <3>1. upSeq + 1 \in Writes /\ upSeq + 1 \in 0..MaxWrites
      BY <2>3, Ranges DEF TypeOK
    <3>2. size' \in [Writes -> 0..MaxUpload] /\ upSeq' \in 0..MaxWrites
      BY <2>3, <3>1 DEF TypeOK
    <3>5. upSeq' # upSeq
      BY <2>3, UpConstants DEF TypeOK
    <3>3. CASE upOrdered
      <4>1. /\ tail' \in {0, tail, upSeq + 1} /\ UNCHANGED <<pc, attempt>>
            /\ closing' \in {"no", "tail", "tail0", "sent"}
        BY <2>1, <3>3, <3>5 DEF CloseConn
      <4> QED
        BY <2>1, <3>1, <3>2, <4>1, Ranges DEF TypeOK, CloseConn, queue
    <3>4. CASE ~upOrdered
      <4>1. /\ pc' = [pc EXCEPT ![upSeq + 1] = "lane"]
            /\ attempt' = [attempt EXCEPT ![upSeq + 1] = 1]
            /\ closing' = "tail0" /\ tail' = tail
        BY <2>1, <3>4, <3>5 DEF CloseConn
      <4> QED
        BY <2>1, <3>1, <3>2, <4>1, Ranges DEF TypeOK, CloseConn, queue
    <3> QED
      BY <3>3, <3>4
  <2> QED
    BY <2>1, <2>2, <2>3 DEF CloseConn
<1>7. CASE SendClose
  <2>1. CASE tail = 0
    BY <1>7, <2>1 DEF TypeOK, SendClose, queue
  <2>2. CASE tail # 0
    <3>1. tail \in Writes
      BY <2>2, UpConstants DEF TypeOK, Writes
    <3>2. req' \in Requests
      BY <1>7, <2>2, <3>1, SetReqFact, Ranges DEF SendClose, TypeOK
    <3> QED
      BY <1>7, <2>2, <3>1, <3>2, Ranges DEF TypeOK, SendClose, queue
  <2> QED
    BY <2>1, <2>2
<1> QED
  BY <1>1, <1>2, <1>4, <1>5, <1>6, <1>7 DEF WriterStep, WriterWork

\* What a step of the relay does to the requests: it makes none, and the only
\* new "ok" is the one of the write it handles.
RelayReqs(s, ok) ==
    /\ req' \in Requests
    /\ \A w \in Writes : \A b \in Attempts :
         /\ req'[w][b].ph # "none" => req[w][b].ph # "none"
         /\ req'[w][b].ph = "ok" => req[w][b].ph = "ok" \/ (w = s /\ ok)

\* A step that only answers a request.
LEMMA ReplyReqs ==
    ASSUME req \in Requests, NEW s \in Writes, NEW a \in Attempts, NEW ph \in Phases,
           NEW ok \in BOOLEAN, ph = "ok" => ok,
           req[s][a].ph # "none", req' = Reply(s, a, ph)
    PROVE  RelayReqs(s, ok)
BY ReplyFact DEF RelayReqs

\* A step that moves a request on without an answer of "ok".
LEMMA SetReqReqs ==
    ASSUME req \in Requests, NEW s \in Writes, NEW a \in Attempts, NEW ph \in Phases,
           ph # "ok", req[s][a].ph # "none", req' = SetReq(s, a, ph)
    PROVE  RelayReqs(s, FALSE)
BY SetReqFact DEF RelayReqs

\* A step that answers a request and gives its room back.
LEMMA ReleaseReqs ==
    ASSUME req \in Requests, NEW s \in Writes, NEW a \in Attempts, NEW ph \in Phases,
           NEW ok \in BOOLEAN, ph = "ok" => ok, NEW n, NEW k,
           req[s][a].ph # "none", Release(n, k, Reply(s, a, ph))
    PROVE  RelayReqs(s, ok)
<1>1. Reply(s, a, ph) \in Requests
  BY ReplyFact
<1> QED
  BY <1>1, ReplyFact, ReleaseFact DEF RelayReqs

\* Every step of a handler, seen from the requests.
-----------------------------------------------------------------------------
(* The inductive invariant *)

\* The queue variables keep their types.
QueueTypes ==
    /\ seqNext \in 1..(MaxWrites + 1) /\ seqHeld \subseteq Writes /\ stream \in Seq(Writes)
    /\ taken \in Nat /\ acked \in Nat
    /\ done \in {"open", "writer", "far"} /\ freed \in BOOLEAN /\ faults \in 0..MaxFaults

\* What is left to show of a step of the relay or the reader.
LEMMA RelayKeepsInv ==
    ASSUME IInv, UNCHANGED writer, NEW s \in Writes, NEW ok \in BOOLEAN,
           RelayReqs(s, ok), ok => Landed(s)', QueueTypes',
           \A w \in Writes : Landed(w) => Landed(w)',
           StreamInOrder', HeldAhead', seqNext' <= upSeq + 1, CompleteAtClose',
           freed' => done' # "open", done' = "writer" => closing = "sent"
    PROVE  IInv'
<1>1. TypeOK'
  BY DEF IInv, TypeOK, QueueTypes, RelayReqs, writer
<1>2. AckedNotLost'
  BY DEF IInv, AckedNotLost, writer
<1>3. OnlyHandedOut'
  BY DEF IInv, OnlyHandedOut, writer, RelayReqs
<1>4. OkMeansLanded'
  BY DEF IInv, OkMeansLanded, RelayReqs
<1>5. CloseState'
  BY DEF IInv, CloseState, writer
<1> QED
  BY <1>1, <1>2, <1>3, <1>4, <1>5 DEF IInv

\* A step that leaves the stream alone.
LEMMA QuietRelayStep ==
    ASSUME IInv, UNCHANGED writer, NEW s \in Writes, NEW ok \in BOOLEAN,
           RelayReqs(s, ok), ok => Landed(s),
           UNCHANGED <<seqNext, seqHeld, stream, done, freed>>,
           taken' \in Nat, acked' \in Nat, faults' \in 0..MaxFaults
    PROVE  IInv'
<1>1. QueueTypes'
  BY DEF IInv, TypeOK, QueueTypes
<1>2. \A w \in Writes : Landed(w) <=> Landed(w)'
  BY DEF Landed
<1>3. StreamInOrder' /\ HeldAhead' /\ CompleteAtClose'
  BY DEF IInv, StreamInOrder, HeldAhead, CompleteAtClose, writer
<1>4. seqNext' <= upSeq + 1
  BY DEF IInv, OnlyHandedOut
<1>5. (freed' => done' # "open") /\ (done' = "writer" => closing = "sent")
  BY DEF IInv, CloseState
<1> QED
  BY <1>1, <1>2, <1>3, <1>4, <1>5, RelayKeepsInv

\* seqWindowLocked returns a number.
LEMMA WindowNat == Window \in Nat
<1>1. Limit \div MaxUpload \in Int
  BY UpConstants
<1> QED
  BY <1>1 DEF Window

\* admitSeq, reserve and a body that does not arrive keep the invariant.
LEMMA AdmissionInv ==
    ASSUME IInv, NEW s \in Writes, NEW a \in Attempts,
           RefuseClosed(s, a) \/ CheckSeq(s, a) \/ (\E n \in Sizes : TryReserve(s, a, n))
             \/ AwaitEnds(s, a) \/ BodyFails(s, a) \/ CommitRefused(s, a)
    PROVE  IInv'
<1>1. req \in Requests /\ taken \in Nat /\ acked \in Nat /\ faults \in 0..MaxFaults
  BY DEF IInv, TypeOK
<1>2. CASE RefuseClosed(s, a)
  <2>1. RelayReqs(s, FALSE)
    BY <1>1, <1>2, ReplyReqs, Ranges DEF RefuseClosed
  <2> QED
    BY <1>1, <1>2, <2>1, QuietRelayStep DEF RefuseClosed, queue
<1>3. CASE CheckSeq(s, a)
  <2>1. CASE s < seqNext \/ s \in seqHeld
    <3>1. req' = Reply(s, a, "ok")
      <4>1. s \in Int /\ seqNext \in Int /\ Window \in Int /\ Window >= 0
        BY WindowNat, UpConstants DEF IInv, TypeOK, Writes
      <4>2. ~(s > seqNext + Window /\ s \notin seqHeld)
        BY <2>1, <4>1
      <4>3. ~(s \in seqNext..(seqNext + Window) /\ s \notin seqHeld)
        BY <2>1, <4>1
      <4> QED
        BY <1>3, <4>2, <4>3 DEF CheckSeq
    <3>2. RelayReqs(s, TRUE)
      BY <1>1, <1>3, <3>1, ReplyReqs, Ranges DEF CheckSeq
    <3> QED
      BY <1>1, <1>3, <2>1, <3>2, QuietRelayStep DEF CheckSeq, queue, Landed
  <2>2. CASE req' = Reply(s, a, "retry")
    <3>1. RelayReqs(s, FALSE)
      BY <1>1, <1>3, <2>2, ReplyReqs, Ranges DEF CheckSeq
    <3> QED
      BY <1>1, <1>3, <3>1, QuietRelayStep DEF CheckSeq, queue
  <2>3. CASE req' = [req EXCEPT ![s][a] = [ph |-> "checked", ahead |-> s > seqNext, n |-> 0]]
    <3>1. [ph |-> "checked", ahead |-> s > seqNext, n |-> 0]
             \in [ph : Phases, ahead : BOOLEAN, n : 0..MaxUpload]
      BY Ranges
    <3>2. RelayReqs(s, FALSE)
      BY <1>1, <1>3, <2>3, <3>1 DEF RelayReqs, Requests, CheckSeq
    <3> QED
      BY <1>1, <1>3, <3>2, QuietRelayStep DEF CheckSeq, queue
  <2> QED
    BY <1>3, <2>1, <2>2, <2>3 DEF CheckSeq
<1>4. CASE \E n \in Sizes : TryReserve(s, a, n)
  <2>1. PICK n \in Sizes : TryReserve(s, a, n)
    BY <1>4
  <2>2. RelayReqs(s, FALSE)
    <3>1. CASE req' = Reply(s, a, "refused")
      BY <1>1, <2>1, <3>1, ReplyReqs, Ranges DEF TryReserve
    <3>2. CASE req' = SetReq(s, a, "wait")
      BY <1>1, <2>1, <3>2, SetReqReqs, Ranges DEF TryReserve
    <3>3. CASE req' = [req EXCEPT ![s][a] = [ph |-> "held", ahead |-> req[s][a].ahead, n |-> n]]
      <4>1. req[s][a].ahead \in BOOLEAN
        BY <1>1 DEF Requests
      <4>2. [ph |-> "held", ahead |-> req[s][a].ahead, n |-> n]
               \in [ph : Phases, ahead : BOOLEAN, n : 0..MaxUpload]
        BY <4>1, Ranges
      <4> QED
        BY <1>1, <2>1, <3>3, <4>2 DEF RelayReqs, Requests, TryReserve
    <3> QED
      BY <2>1, <3>1, <3>2, <3>3 DEF TryReserve
  <2> QED
    BY <1>1, <2>1, <2>2, QuietRelayStep DEF TryReserve
<1>5. CASE AwaitEnds(s, a)
  <2>1. RelayReqs(s, FALSE)
    <3>1. CASE req' = Reply(s, a, "refused")
      BY <1>1, <1>5, <3>1, ReplyReqs, Ranges DEF AwaitEnds
    <3>2. CASE req' = SetReq(s, a, "lost")
      BY <1>1, <1>5, <3>2, SetReqReqs, Ranges DEF AwaitEnds
    <3> QED
      BY <1>5, <3>1, <3>2 DEF AwaitEnds
  <2> QED
    BY <1>1, <1>5, <2>1, QuietRelayStep DEF AwaitEnds, queue
<1>6. CASE BodyFails(s, a)
  <2>1. faults' \in 0..MaxFaults
    BY <1>1, <1>6, Ranges DEF BodyFails
  <2>2. RelayReqs(s, FALSE)
    <3>1. CASE Release(req[s][a].n, 1, Reply(s, a, "refused"))
      BY <1>1, <1>6, <3>1, ReleaseReqs, Ranges DEF BodyFails
    <3>2. CASE Release(req[s][a].n, 1, SetReq(s, a, "lost"))
      <4>1. SetReq(s, a, "lost") \in Requests
        BY <1>1, SetReqFact, Ranges
      <4> QED
        BY <1>1, <1>6, <3>2, <4>1, SetReqFact, ReleaseFact, Ranges DEF BodyFails, RelayReqs
    <3> QED
      BY <1>6, <3>1, <3>2 DEF BodyFails
  <2> QED
    BY <1>1, <1>6, <2>1, <2>2, QuietRelayStep DEF BodyFails
<1>7. CASE CommitRefused(s, a)
  <2>1. CASE done # "open"
    <3>1. RelayReqs(s, FALSE)
      BY <1>1, <1>7, <2>1, ReleaseReqs, Ranges DEF CommitRefused
    <3> QED
      BY <1>1, <1>7, <3>1, QuietRelayStep DEF CommitRefused
  <2>2. CASE done = "open"
    <3>1. RelayReqs(s, TRUE)
      BY <1>1, <1>7, <2>2, ReleaseReqs, Ranges DEF CommitRefused
    <3> QED
      BY <1>1, <1>7, <2>2, <3>1, QuietRelayStep DEF CommitRefused, Landed
  <2> QED
    BY <2>1, <2>2
<1> QED
  BY <1>2, <1>3, <1>4, <1>5, <1>6, <1>7

\* commitSeq keeps the invariant: a repeated write is dropped, an early one is
\* held, and the next one brings those held behind it.
LEMMA CommitInv ==
    ASSUME IInv, NEW s \in Writes, NEW a \in Attempts, CommitAhead(s, a) \/ CommitNext(s, a)
    PROVE  IInv'
<1>1. /\ req \in Requests /\ taken \in Nat /\ acked \in Nat /\ faults \in 0..MaxFaults
      /\ seqNext \in 1..(MaxWrites + 1) /\ seqHeld \subseteq Writes /\ stream \in Seq(Writes)
      /\ upSeq \in 0..MaxWrites
  BY DEF IInv, TypeOK
<1>2. req[s][a].ph = "held" /\ s <= upSeq /\ done = "open" /\ ~freed
  BY DEF CommitAhead, CommitNext, IInv, OnlyHandedOut, CloseState
<1>3. CASE CommitAhead(s, a)
  <2>1. RelayReqs(s, TRUE)
    BY <1>1, <1>2, <1>3, ReleaseReqs, Ranges DEF CommitAhead
  <2>2. QueueTypes'
    BY <1>3 DEF IInv, TypeOK, QueueTypes, CommitAhead
  <2>3. Landed(s)' /\ \A w \in Writes : Landed(w) => Landed(w)'
    BY <1>3 DEF CommitAhead, Landed
  <2>4. StreamInOrder' /\ HeldAhead' /\ CompleteAtClose'
    BY <1>2, <1>3 DEF IInv, StreamInOrder, HeldAhead, CompleteAtClose, CommitAhead, writer
  <2>5. seqNext' <= upSeq + 1
    BY <1>3 DEF IInv, OnlyHandedOut, CommitAhead
  <2>6. (freed' => done' # "open") /\ (done' = "writer" => closing = "sent")
    BY <1>2, <1>3 DEF CommitAhead
  <2>7. UNCHANGED writer
    BY <1>3 DEF CommitAhead
  <2> QED
    BY <2>1, <2>2, <2>3, <2>4, <2>5, <2>6, <2>7, RelayKeepsInv
<1>4. CASE CommitNext(s, a)
  <2>1. PICK m \in (s + 1)..(MaxWrites + 1) :
          /\ m \notin seqHeld
          /\ \A j \in (s + 1)..(m - 1) : j \in seqHeld
          /\ seqNext' = m
          /\ seqHeld' = seqHeld \ ((s + 1)..(m - 1))
          /\ stream' = stream \o [i \in 1..(m - s) |-> s + i - 1]
    BY <1>4 DEF CommitNext
  <2>2. s = seqNext /\ UNCHANGED <<taken, acked, done, freed, faults>> /\ UNCHANGED writer
    BY <1>4 DEF CommitNext
  <2>3. s \in Nat \ {0} /\ m \in Nat /\ s < m /\ m <= MaxWrites + 1
    BY <2>1, UpConstants DEF Writes
  <2>4. RelayReqs(s, TRUE)
    <3>1. Reply(s, a, "ok") \in Requests
      BY <1>1, ReplyFact, Ranges
    <3>2. req' = Woken(Reply(s, a, "ok"))
      BY <1>4 DEF CommitNext
    <3>3. /\ req' \in Requests
          /\ \A w \in Writes : \A b \in Attempts :
               /\ req'[w][b].ph = "ok" => Reply(s, a, "ok")[w][b].ph = "ok"
               /\ req'[w][b].ph = "none" <=> Reply(s, a, "ok")[w][b].ph = "none"
      BY <3>1, <3>2, WokenFact
    <3>4. \A w \in Writes : \A b \in Attempts :
            IF w = s /\ b = a
            THEN Reply(s, a, "ok")[w][b].ph \in {"ok", "lost"}
            ELSE Reply(s, a, "ok")[w][b].ph = req[w][b].ph
      BY <1>1, ReplyFact, Ranges
    <3> QED
      BY <1>2, <3>3, <3>4 DEF RelayReqs
  <2>5. StreamInOrder'
    BY <2>1, <2>2, <2>3, ConcatRange DEF IInv, StreamInOrder
  <2>6. stream' \in Seq(Writes)
    <3>1. stream' = [i \in 1..(m - 1) |-> i]
      BY <2>1, <2>5 DEF StreamInOrder
    <3>2. m - 1 \in Nat /\ \A i \in 1..(m - 1) : i \in Writes
      BY <2>3, UpConstants DEF Writes
    <3>3. [i \in 1..(m - 1) |-> i] \in Seq(Writes)
      BY <3>2
    <3> QED
      BY <3>1, <3>3
  <2>7. QueueTypes'
    BY <1>1, <1>2, <2>1, <2>2, <2>3, <2>6, UpConstants DEF QueueTypes, IInv, TypeOK
  <2>8. Landed(s)' /\ \A w \in Writes : Landed(w) => Landed(w)'
    BY <1>1, <2>1, <2>2, <2>3, UpConstants DEF Landed, Writes
  <2>9. HeldAhead'
    BY <1>1, <2>1, <2>2, <2>3 DEF IInv, HeldAhead, writer, Writes
  <2>10. seqNext' <= upSeq + 1
    <3>1. m - 1 = s \/ m - 1 \in seqHeld
      BY <2>1, <2>3
    <3> QED
      BY <1>1, <1>2, <2>1, <2>3, <3>1 DEF IInv, HeldAhead
  <2>11. CompleteAtClose' /\ (freed' => done' # "open") /\ (done' = "writer" => closing = "sent")
    BY <1>2, <2>2 DEF CompleteAtClose
  <2> QED
    BY <2>2, <2>4, <2>5, <2>7, <2>8, <2>9, <2>10, <2>11, RelayKeepsInv
<1> QED
  BY <1>3, <1>4

\* Closing: a queue that the writer's own close ends holds every write, unless
\* one is known to have failed.
LEMMA CloseInv ==
    ASSUME IInv, CloseArrives \/ FarClose \/ Free
    PROVE  IInv'
<1>1. /\ req \in Requests /\ seqNext \in 1..(MaxWrites + 1) /\ upSeq \in 0..MaxWrites
      /\ 1 \in Writes /\ UNCHANGED writer
  BY UpConstants DEF IInv, TypeOK, CloseArrives, FarClose, Free, Writes
<1>2. QueueTypes'
  BY DEF IInv, TypeOK, QueueTypes, CloseArrives, FarClose, Free
<1>3. RelayReqs(1, FALSE)
  BY <1>1, WokenFact DEF RelayReqs, CloseArrives, FarClose, Free
<1>4. \A w \in Writes : Landed(w) => Landed(w)'
  BY DEF Landed, CloseArrives, FarClose, Free
<1>5. StreamInOrder' /\ HeldAhead'
  BY DEF IInv, StreamInOrder, HeldAhead, CloseArrives, FarClose, Free, writer
<1>6. seqNext' <= upSeq + 1
  BY DEF IInv, OnlyHandedOut, CloseArrives, FarClose, Free
<1>7. (freed' => done' # "open") /\ (done' = "writer" => closing = "sent")
  BY DEF IInv, CloseState, CloseArrives, FarClose, Free
<1>8. CompleteAtClose'
  <2>1. CASE CloseArrives
    <3>1. SUFFICES ASSUME ~writeErr PROVE seqNext = upSeq + 1
      BY <1>1, <2>1 DEF CompleteAtClose, CloseArrives, writer
    <3>2. closing = "sent" /\ done = "open" /\ ~freed
      BY <2>1 DEF CloseArrives, IInv, CloseState
    <3>3. SUFFICES ASSUME seqNext <= upSeq PROVE FALSE
      BY <1>1 DEF IInv, OnlyHandedOut
    <3>4. seqNext \in Writes
      BY <1>1, <3>3, UpConstants DEF Writes
    <3>5. Landed(seqNext)
      <4>1. CASE seqNext = tail
        <5>1. 1 \in Attempts /\ req[seqNext][1].ph = "ok"
          BY <1>1, <2>1, <4>1, Ranges DEF CloseArrives
        <5> QED
          BY <3>4, <5>1 DEF IInv, OkMeansLanded
      <4>2. CASE seqNext # tail
        <5>1. pc[seqNext] = "done"
          BY <3>1, <3>2, <3>3, <3>4, <4>2 DEF IInv, CloseState
        <5> QED
          BY <3>4, <5>1 DEF IInv, AckedNotLost
      <4> QED
        BY <4>1, <4>2
    <3> QED
      BY <1>1, <3>2, <3>5 DEF Landed, IInv, HeldAhead
  <2>2. CASE FarClose
    BY <2>2 DEF CompleteAtClose, FarClose
  <2>3. CASE Free
    BY <2>3, <1>1 DEF IInv, CompleteAtClose, Free, writer
  <2> QED
    BY <2>1, <2>2, <2>3
<1> QED
  BY <1>1, <1>2, <1>3, <1>4, <1>5, <1>6, <1>7, <1>8, RelayKeepsInv

\* Taking chunks and acknowledging them keeps the invariant.
LEMMA ReaderInv ==
    ASSUME IInv, ReaderStep
    PROVE  IInv'
<1>1. /\ req \in Requests /\ taken \in Nat /\ acked \in Nat /\ faults \in 0..MaxFaults
      /\ 1 \in Writes
  BY UpConstants DEF IInv, TypeOK, Writes
<1>2. CASE Ack
  <2>1. RelayReqs(1, FALSE)
    BY <1>1, <1>2, ReleaseFact DEF Ack, RelayReqs
  <2> QED
    BY <1>1, <1>2, <2>1, QuietRelayStep DEF Ack
<1>3. CASE \E k \in Writes : Drain(k)
  <2>1. PICK k \in Writes : Drain(k)
    BY <1>3
  <2>2. RelayReqs(1, FALSE)
    BY <1>1, <2>1, ReleaseFact DEF Drain, RelayReqs
  <2>3. taken' \in Nat
    BY <1>1, <2>1, UpConstants DEF Drain, Writes
  <2> QED
    BY <1>1, <2>1, <2>2, <2>3, QuietRelayStep DEF Drain
<1> QED
  BY <1>2, <1>3 DEF ReaderStep

\* The relay's state stays, and so does what it has landed.
LEMMA QueueStays ==
    ASSUME IInv, UNCHANGED queue, upSeq' \in {upSeq, upSeq + 1}
    PROVE  /\ StreamInOrder' /\ HeldAhead' /\ seqNext' <= upSeq' + 1
           /\ \A w \in Writes : Landed(w)' <=> Landed(w)
<1>1. upSeq \in Int /\ seqNext \in Int /\ \A w \in seqHeld : w \in Int
  BY UpConstants DEF IInv, TypeOK, Writes
<1>2. seqNext' <= upSeq' + 1
  <2>1. seqNext' = seqNext /\ seqNext <= upSeq + 1
    BY DEF IInv, OnlyHandedOut, queue
  <2>2. CASE upSeq' = upSeq
    BY <2>1, <2>2
  <2>3. CASE upSeq' = upSeq + 1
    BY <1>1, <2>1, <2>3
  <2> QED
    BY <2>2, <2>3
<1>3. HeldAhead'
  BY <1>1 DEF IInv, HeldAhead, queue
<1> QED
  BY <1>2, <1>3 DEF IInv, StreamInOrder, Landed, queue

\* Handing out a write (sendLocked) keeps the invariant.
LEMMA SendInv ==
    ASSUME IInv, NEW n \in Sizes, Send(n)
    PROVE  IInv'
<1>1. TypeOK' /\ TypeOK
  BY WriterTypes DEF WriterStep, IInv
<1>2. /\ StreamInOrder' /\ HeldAhead' /\ seqNext' <= upSeq' + 1
      /\ \A w \in Writes : Landed(w)' <=> Landed(w)
  BY QueueStays DEF Send
<1>3. /\ upSeq' = upSeq + 1 /\ upSeq + 1 \in Writes /\ upSeq \in Int /\ tail = 0
      /\ \A w \in Writes : w \in Int
      /\ \A w \in Writes : pc'[w] = IF w = upSeq + 1 THEN "lane" ELSE pc[w]
  BY <1>1, Ranges, UpConstants DEF Send, TypeOK, IInv, CloseState, Writes
<1>4. OnlyHandedOut'
  BY <1>2, <1>3 DEF IInv, OnlyHandedOut, Send
<1>5. AckedNotLost'
  BY <1>2, <1>3 DEF IInv, AckedNotLost
<1>6. OkMeansLanded'
  BY <1>2 DEF IInv, OkMeansLanded, Send
<1>7. CloseState' /\ CompleteAtClose'
  BY <1>3 DEF IInv, CloseState, CompleteAtClose, Send, queue
<1> QED
  BY <1>1, <1>2, <1>4, <1>5, <1>6, <1>7 DEF IInv

\* Putting a post on a lane keeps the invariant.
LEMMA PostInv ==
    ASSUME IInv, NEW s \in Writes, Post(s)
    PROVE  IInv'
<1>1. TypeOK' /\ TypeOK
  BY WriterTypes DEF WriterStep, WriterWork, IInv
<1>2. /\ StreamInOrder' /\ HeldAhead' /\ seqNext' <= upSeq' + 1
      /\ \A w \in Writes : Landed(w)' <=> Landed(w)
  BY QueueStays DEF Post
<1>3. /\ upSeq' = upSeq /\ s <= upSeq
      /\ \A w \in Writes : pc'[w] = IF w = s THEN "wire" ELSE pc[w]
  BY <1>1, UpConstants DEF Post, TypeOK, IInv, OnlyHandedOut, Writes
<1>4. \A w \in Writes : \A a \in Attempts :
        req'[w][a].ph = IF w = s /\ a = attempt[s] THEN "net" ELSE req[w][a].ph
  <2>1. attempt[s] \in Attempts /\ req \in Requests
    BY <1>1 DEF Post, TypeOK
  <2> QED
    BY <2>1, SetReqFact, Ranges DEF Post
<1>5. OnlyHandedOut'
  BY <1>2, <1>3, <1>4 DEF IInv, OnlyHandedOut, Post
<1>6. AckedNotLost'
  BY <1>2, <1>3 DEF IInv, AckedNotLost
<1>7. OkMeansLanded'
  BY <1>2, <1>4 DEF IInv, OkMeansLanded
<1>8. CloseState' /\ CompleteAtClose'
  BY <1>3 DEF IInv, CloseState, CompleteAtClose, Post, queue
<1> QED
  BY <1>1, <1>2, <1>5, <1>6, <1>7, <1>8 DEF IInv

\* A try that ends leaves the write in "lane" or "failed", and says so.
LEMMA EndTryFact ==
    ASSUME TypeOK, NEW s \in Writes, NEW ordered, EndTry(s, ordered)
    PROVE  /\ \A w \in Writes : w # s => pc'[w] = pc[w]
           /\ \/ pc'[s] = "lane" /\ s # tail /\ writeErr' = writeErr
              \/ pc'[s] = "failed" /\ writeErr' = TRUE
BY DEF EndTry, TypeOK

\* An answer that arrives at post keeps the invariant.
LEMMA AnswerInv ==
    ASSUME IInv, NEW s \in Writes, Answer(s)
    PROVE  IInv'
<1>1. TypeOK' /\ TypeOK
  BY WriterTypes DEF WriterStep, WriterWork, IInv
<1>2. /\ StreamInOrder' /\ HeldAhead' /\ seqNext' <= upSeq' + 1
      /\ \A w \in Writes : Landed(w)' <=> Landed(w)
  BY QueueStays DEF Answer
<1>3. /\ \A w \in Writes : w # s => pc'[w] = pc[w]
      /\ \/ pc'[s] = "done" /\ Landed(s) /\ writeErr' = writeErr
         \/ pc'[s] = "lane" /\ s # tail /\ writeErr' = writeErr
         \/ pc'[s] = "failed" /\ writeErr' = TRUE
  <2>1. attempt[s] \in Attempts
    BY <1>1 DEF Answer, TypeOK
  <2>2. req[s][attempt[s]].ph = "ok" => Landed(s)
    BY <2>1 DEF IInv, OkMeansLanded
  <2> QED
    BY <1>1, <2>2, EndTryFact DEF Answer, TypeOK
<1>4. pc[s] = "wire" /\ s <= upSeq /\ UNCHANGED <<upSeq, closing, tail, req>>
  BY <1>1, UpConstants DEF Answer, IInv, OnlyHandedOut, TypeOK, Writes
<1>5. OnlyHandedOut'
  BY <1>2, <1>3, <1>4 DEF IInv, OnlyHandedOut
<1>6. AckedNotLost' /\ OkMeansLanded'
  BY <1>2, <1>3, <1>4 DEF IInv, AckedNotLost, OkMeansLanded
<1>7. CloseState' /\ CompleteAtClose'
  BY <1>3, <1>4 DEF IInv, CloseState, CompleteAtClose, Answer, queue
<1> QED
  BY <1>1, <1>2, <1>5, <1>6, <1>7 DEF IInv

\* A post whose carrier fails keeps the invariant, wherever its request was.
LEMMA CarrierFailsInv ==
    ASSUME IInv, NEW s \in Writes, NEW arrives \in BOOLEAN, CarrierFails(s, arrives)
    PROVE  IInv'
<1>1. TypeOK' /\ TypeOK
  BY WriterTypes DEF WriterStep, IInv
<1>2. /\ StreamInOrder' /\ HeldAhead' /\ seqNext' <= upSeq' + 1
      /\ \A w \in Writes : Landed(w)' <=> Landed(w)
  BY QueueStays DEF CarrierFails
<1>3. /\ \A w \in Writes : w # s => pc'[w] = pc[w]
      /\ \/ pc'[s] = "lane" /\ s # tail /\ writeErr' = writeErr
         \/ pc'[s] = "failed" /\ writeErr' = TRUE
  BY <1>1, EndTryFact DEF CarrierFails
<1>4. pc[s] = "wire" /\ s <= upSeq /\ UNCHANGED <<upSeq, closing, tail>>
  BY <1>1, UpConstants DEF CarrierFails, IInv, OnlyHandedOut, TypeOK, Writes
<1>5. \A w \in Writes : \A a \in Attempts :
        req'[w][a].ph = req[w][a].ph \/ (w = s /\ req'[w][a].ph = "lost")
  <2>1. attempt[s] \in Attempts /\ req \in Requests
    BY <1>1 DEF CarrierFails, TypeOK
  <2> QED
    BY <2>1, SetReqFact, Ranges DEF CarrierFails
<1>6. OnlyHandedOut'
  BY <1>2, <1>3, <1>4, <1>5 DEF IInv, OnlyHandedOut
<1>7. AckedNotLost' /\ OkMeansLanded'
  BY <1>2, <1>3, <1>4, <1>5 DEF IInv, AckedNotLost, OkMeansLanded
<1>8. CloseState' /\ CompleteAtClose'
  BY <1>3, <1>4 DEF IInv, CloseState, CompleteAtClose, CarrierFails, queue
<1> QED
  BY <1>1, <1>2, <1>6, <1>7, <1>8 DEF IInv

\* Close, up to the moment it waits for the posts, keeps the invariant.
LEMMA CloseConnInv ==
    ASSUME IInv, NEW n \in 0..MaxUpload, CloseConn(n)
    PROVE  IInv'
<1>1. TypeOK' /\ TypeOK
  BY WriterTypes DEF WriterStep, IInv
<1>2. UNCHANGED <<upOrdered, writeErr, req, faults>> /\ UNCHANGED queue
  BY DEF CloseConn
<1>3. /\ upSeq \in Int /\ tail = 0 /\ upSeq \notin {upSeq + 1}
      /\ closing = "no" /\ done # "writer" /\ \A w \in Writes : w \in Int
  BY <1>1, UpConstants DEF CloseConn, TypeOK, IInv, CloseState, Writes
<1>4. \/ /\ UNCHANGED <<upSeq, pc, tail>> /\ closing' = "tail0"
      \/ /\ upSeq' = upSeq + 1 /\ UNCHANGED pc /\ tail' = upSeq + 1 /\ closing' = "tail"
      \/ /\ upSeq' = upSeq + 1 /\ UNCHANGED tail /\ closing' = "tail0"
         /\ upSeq + 1 \in Writes /\ pc' = [pc EXCEPT ![upSeq + 1] = "lane"]
  BY <1>1, Ranges DEF CloseConn, TypeOK
<1>5. upSeq' \in {upSeq, upSeq + 1}
  BY <1>4
<1>6. /\ StreamInOrder' /\ HeldAhead' /\ seqNext' <= upSeq' + 1
      /\ \A w \in Writes : Landed(w)' <=> Landed(w)
  BY <1>2, <1>5, QueueStays
<1>7. \A w \in Writes : pc'[w] = pc[w] \/ (w = upSeq + 1 /\ upSeq' = upSeq + 1 /\ pc'[w] = "lane")
  BY <1>1, <1>4 DEF TypeOK
<1>8. OnlyHandedOut'
  <2>1. \A w \in Writes : w > upSeq' => pc'[w] = "none"
    BY <1>3, <1>5, <1>7 DEF IInv, OnlyHandedOut
  <2>2. \A w \in Writes : w <= upSeq' /\ w # tail' => pc'[w] # "none"
    <3>1. \A w \in Writes : w <= upSeq => pc[w] # "none"
      BY <1>3, UpConstants DEF IInv, OnlyHandedOut, Writes
    <3>2. CASE upSeq' = upSeq
      BY <1>3, <1>7, <3>1, <3>2
    <3>3. CASE upSeq' = upSeq + 1 /\ tail' = upSeq + 1
      BY <1>3, <1>7, <3>1, <3>3
    <3>4. CASE upSeq' = upSeq + 1 /\ pc' = [pc EXCEPT ![upSeq + 1] = "lane"] /\ upSeq + 1 \in Writes
      <4>1. \A w \in Writes : pc'[w] = IF w = upSeq + 1 THEN "lane" ELSE pc[w]
        BY <1>1, <3>4 DEF TypeOK
      <4> QED
        BY <1>3, <3>1, <3>4, <4>1
    <3> QED
      BY <1>4, <3>2, <3>3, <3>4
  <2>3. \A w \in Writes : \A a \in Attempts : req'[w][a].ph # "none" => w <= upSeq'
    BY <1>2, <1>3, <1>5 DEF IInv, OnlyHandedOut
  <2> QED
    BY <1>6, <2>1, <2>2, <2>3 DEF OnlyHandedOut
<1>9. AckedNotLost' /\ OkMeansLanded'
  BY <1>2, <1>6, <1>7 DEF IInv, AckedNotLost, OkMeansLanded
<1>10. CloseState' /\ CompleteAtClose'
  BY <1>2, <1>3, <1>4, <1>7 DEF IInv, CloseState, CompleteAtClose, queue
<1> QED
  BY <1>1, <1>6, <1>8, <1>9, <1>10 DEF IInv

\* Sending /h/close, with or without a last write, keeps the invariant.
LEMMA SendCloseInv ==
    ASSUME IInv, SendClose
    PROVE  IInv'
<1>1. TypeOK' /\ TypeOK
  BY WriterTypes DEF WriterStep, WriterWork, IInv
<1>2. /\ StreamInOrder' /\ HeldAhead' /\ seqNext' <= upSeq' + 1
      /\ \A w \in Writes : Landed(w)' <=> Landed(w)
  BY QueueStays DEF SendClose
<1>3. /\ closing' = "sent" /\ UNCHANGED <<upSeq, writeErr, tail, done, freed, seqNext>>
      /\ \A w \in Writes : pc[w] \notin {"lane", "wire"}
  BY DEF SendClose, Posting, queue
<1>4. /\ \A w \in Writes : pc'[w] = pc[w] \/ (w = tail /\ pc'[w] = "wire")
      /\ \A w \in Writes : \A a \in Attempts :
           req'[w][a].ph = req[w][a].ph \/ (w = tail /\ req'[w][a].ph = "net")
  <2>1. CASE tail = 0
    BY <2>1 DEF SendClose
  <2>2. CASE tail # 0
    <3>1. tail \in Writes /\ 1 \in Attempts /\ req \in Requests
      BY <1>1, <2>2, Ranges, UpConstants DEF TypeOK, Writes
    <3>2. pc' = [pc EXCEPT ![tail] = "wire"] /\ req' = SetReq(tail, 1, "net")
      BY <2>2 DEF SendClose
    <3>3. \A w \in Writes : pc'[w] = pc[w] \/ (w = tail /\ pc'[w] = "wire")
      BY <1>1, <3>2 DEF TypeOK
    <3> QED
      BY <3>1, <3>2, <3>3, SetReqFact, Ranges
  <2> QED
    BY <2>1, <2>2
<1>5. \A w \in Writes : w = tail => w <= upSeq
  BY <1>1, UpConstants DEF IInv, CloseState, TypeOK, Writes
<1>6. OnlyHandedOut'
  <2>1. \A w \in Writes : w > upSeq => pc[w] = "none" /\ w # tail
    <3>1. upSeq \in Int /\ \A w \in Writes : w \in Int /\ (w > upSeq => pc[w] = "none")
      BY <1>1, UpConstants DEF IInv, OnlyHandedOut, TypeOK, Writes
    <3> QED
      BY <1>5, <3>1
  <2>2. \A w \in Writes : w > upSeq' => pc'[w] = "none"
    BY <1>3, <1>4, <2>1
  <2>3. \A w \in Writes : w <= upSeq' /\ w # tail' => pc'[w] # "none"
    BY <1>3, <1>4 DEF IInv, OnlyHandedOut
  <2>4. \A w \in Writes : \A a \in Attempts : req'[w][a].ph # "none" => w <= upSeq'
    BY <1>3, <1>4, <1>5 DEF IInv, OnlyHandedOut
  <2> QED
    BY <1>2, <2>2, <2>3, <2>4 DEF OnlyHandedOut
<1>7. AckedNotLost' /\ OkMeansLanded'
  BY <1>2, <1>4 DEF IInv, AckedNotLost, OkMeansLanded
<1>8. \A w \in Writes : w <= upSeq /\ w # tail => pc[w] \in {"done", "failed"}
  BY <1>1, <1>3 DEF IInv, OnlyHandedOut, TypeOK
<1>9. CloseState'
  BY <1>3, <1>4, <1>8 DEF IInv, CloseState
<1>10. CompleteAtClose'
  BY <1>3 DEF IInv, CompleteAtClose
<1> QED
  BY <1>1, <1>2, <1>6, <1>7, <1>9, <1>10 DEF IInv

\* The invariant holds at first.
LEMMA InitInv == Init => IInv
<1> SUFFICES ASSUME Init PROVE IInv
  OBVIOUS
<1>1. TypeOK
  <2>1. NoReq \in [ph : Phases, ahead : BOOLEAN, n : 0..MaxUpload]
    BY PhaseNames, Ranges DEF NoReq
  <2>2. req \in Requests
    BY <2>1 DEF Init, Requests
  <2>3. 1 \in 1..(MaxWrites + 1) /\ 0 \in 0..MaxFaults /\ << >> \in Seq(Writes)
    BY UpConstants
  <2> QED
    BY <2>2, <2>3, Ranges DEF Init, TypeOK
<1>2. StreamInOrder
  BY DEF Init, StreamInOrder
<1>3. \A s \in Writes : s > 0
  BY UpConstants DEF Writes
<1>4. OnlyHandedOut
  BY <1>3, UpConstants DEF Init, OnlyHandedOut, NoReq, Writes
<1>5. AckedNotLost /\ CompleteAtClose /\ HeldAhead
  BY DEF Init, AckedNotLost, CompleteAtClose, HeldAhead
<1>6. OkMeansLanded /\ CloseState
  BY DEF Init, OkMeansLanded, CloseState, NoReq
<1> QED
  BY <1>1, <1>2, <1>4, <1>5, <1>6 DEF IInv

\* Every step keeps the invariant.
LEMMA NextInv == IInv /\ [Next]_vars => IInv'
<1> SUFFICES ASSUME IInv, [Next]_vars PROVE IInv'
  OBVIOUS
<1>1. CASE WriterStep
  BY <1>1, SendInv, PostInv, AnswerInv, CarrierFailsInv, CloseConnInv, SendCloseInv
     DEF WriterStep, WriterWork
<1>2. CASE RelayWork
  BY <1>2, AdmissionInv, CommitInv, CloseInv DEF RelayWork
<1>3. CASE ReaderStep
  BY <1>3, ReaderInv
<1>4. CASE FarClose \/ Free
  BY <1>4, CloseInv
<1>5. CASE UNCHANGED vars
  BY <1>5 DEF vars, IInv, TypeOK, StreamInOrder, AckedNotLost, CompleteAtClose, HeldAhead,
     OnlyHandedOut, OkMeansLanded, CloseState, Landed
<1> QED
  BY <1>1, <1>2, <1>3, <1>4, <1>5 DEF Next

-----------------------------------------------------------------------------
(* Refinement *)

\* The writes that commitSeq puts in the queue are the next ones of the stream.
LEMMA CommitArrives ==
    ASSUME IInv, IInv', NEW s \in Writes, NEW a \in Attempts, CommitNext(s, a)
    PROVE  Stream!Arrive
<1>1. PICK m \in (s + 1)..(MaxWrites + 1) :
        seqNext' = m /\ stream' = stream \o [i \in 1..(m - s) |-> s + i - 1]
  BY DEF CommitNext
<1>2. s = seqNext /\ s \in Nat /\ m \in Nat /\ s < m /\ upSeq \in Nat /\ m <= upSeq + 1 /\ s >= 1
  <2>1. s = seqNext /\ s \in Nat /\ m \in Nat /\ s < m /\ s >= 1
    BY <1>1, UpConstants DEF CommitNext, Writes
  <2>2. upSeq \in Nat
    BY UpConstants DEF IInv, TypeOK
  <2>3. seqNext' <= upSeq' + 1 /\ upSeq' = upSeq
    BY DEF CommitNext, IInv, OnlyHandedOut, writer
  <2> QED
    BY <1>1, <2>1, <2>2, <2>3
<1>3. Len(stream) = s - 1
  BY <1>2 DEF IInv, StreamInOrder
<1>4. stream' = stream \o [i \in 1..(m - s) |-> Len(stream) + i]
  <2>1. [i \in 1..(m - s) |-> s + i - 1] = [i \in 1..(m - s) |-> Len(stream) + i]
    BY <1>2, <1>3
  <2> QED
    BY <1>1, <2>1
<1>5. m - s \in 1..(upSeq - Len(stream))
  BY <1>2, <1>3
<1>6. StreamEnd = "open" /\ UNCHANGED <<upSeq, StreamEnd, writeErr>>
  BY DEF CommitNext, writer, StreamEnd
<1> QED
  BY <1>4, <1>5, <1>6 DEF Stream!Arrive

\* Every step is one of the abstract stream, or leaves it as it is.
LEMMA StepRefines ==
    ASSUME IInv, IInv', [Next]_vars
    PROVE  [Stream!Next]_(Stream!sv)
<1>1. /\ upSeq \in Nat /\ upSeq' \in Nat /\ writeErr \in BOOLEAN
      /\ done \in {"open", "writer", "far"} /\ (done = "writer" => closing = "sent")
  BY UpConstants DEF IInv, TypeOK, CloseState
<1>2. ASSUME UNCHANGED queue, UNCHANGED upSeq, writeErr' = writeErr \/ writeErr' = TRUE
      PROVE  [Stream!Next]_(Stream!sv)
  BY <1>2 DEF Stream!Next, Stream!Fail, Stream!sv, queue, StreamEnd
<1>3. ASSUME UNCHANGED queue, upSeq' = upSeq + 1, UNCHANGED writeErr, closing = "no"
      PROVE  [Stream!Next]_(Stream!sv)
  <2>1. upSeq' > upSeq /\ upSeq' \in Nat
    BY <1>1, <1>3
  <2>2. StreamEnd # "eof" /\ UNCHANGED <<stream, StreamEnd, writeErr>>
    BY <1>1, <1>3 DEF queue, StreamEnd
  <2> QED
    BY <2>1, <2>2 DEF Stream!Next, Stream!Send
<1>4. ASSUME UNCHANGED writer, UNCHANGED <<stream, done>>
      PROVE  [Stream!Next]_(Stream!sv)
  BY <1>4 DEF Stream!sv, writer, StreamEnd
<1>5. CASE \E n \in Sizes : Send(n)
  BY <1>5, <1>3 DEF Send
<1>6. CASE \E s \in Writes : Post(s)
  BY <1>6, <1>2 DEF Post
<1>7. CASE \E s \in Writes : Answer(s)
  BY <1>7, <1>2 DEF Answer, EndTry
<1>8. CASE \E s \in Writes, arrives \in BOOLEAN : CarrierFails(s, arrives)
  BY <1>8, <1>2 DEF CarrierFails, EndTry
<1>9. CASE \E n \in 0..MaxUpload : CloseConn(n)
  BY <1>9, <1>2, <1>3 DEF CloseConn
<1>10. CASE SendClose
  BY <1>10, <1>2 DEF SendClose
<1>11. ASSUME NEW s \in Writes, NEW a \in Attempts,
              \/ RefuseClosed(s, a) \/ CheckSeq(s, a) \/ (\E n \in Sizes : TryReserve(s, a, n))
              \/ AwaitEnds(s, a) \/ BodyFails(s, a) \/ CommitRefused(s, a) \/ CommitAhead(s, a)
       PROVE  [Stream!Next]_(Stream!sv)
  BY <1>11, <1>4 DEF RefuseClosed, CheckSeq, TryReserve, AwaitEnds, BodyFails, CommitRefused,
     CommitAhead, queue
<1>12. CASE \E s \in Writes, a \in Attempts : CommitNext(s, a)
  BY <1>12, CommitArrives DEF Stream!Next
<1>13. CASE CloseArrives
  <2>1. StreamEnd = "open" /\ StreamEnd' = "eof" /\ UNCHANGED <<upSeq, stream, writeErr>>
    BY <1>13 DEF CloseArrives, StreamEnd, writer
  <2>2. Len(stream) = upSeq \/ writeErr
    <3>1. writeErr \/ seqNext = upSeq + 1
      BY <1>13, <2>1 DEF IInv, CompleteAtClose, CloseArrives
    <3>2. Len(stream) = seqNext - 1
      BY UpConstants DEF IInv, StreamInOrder, TypeOK
    <3> QED
      BY <1>1, <3>1, <3>2
  <2> QED
    BY <2>1, <2>2 DEF Stream!Next, Stream!Eof
<1>14. CASE FarClose \/ Free
  BY <1>14, <1>1 DEF FarClose, Free, Stream!Next, Stream!Cut, Stream!sv, StreamEnd, writer
<1>15. CASE ReaderStep
  BY <1>15, <1>4 DEF ReaderStep, Ack, Drain
<1>16. CASE UNCHANGED vars
  BY <1>16 DEF vars, Stream!sv, StreamEnd
<1> QED
  BY <1>5, <1>6, <1>7, <1>8, <1>9, <1>10, <1>11, <1>12, <1>13, <1>14, <1>15, <1>16
     DEF Next, WriterStep, WriterWork, RelayWork

-----------------------------------------------------------------------------
(* Sums *)

\* Any set of numbers that has a member has a least one.
LEMMA LeastOf ==
    ASSUME NEW S \in SUBSET Nat, S # {}
    PROVE  \E x \in S : \A y \in S : x <= y
<1>1. \E x \in S : \A y \in S : ~ (<<y, x>> \in OpToRel(<, Nat))
  BY WFMin, NatLessThanWellFounded, Zenon
<1>2. PICK x \in S : \A y \in S : ~ (<<y, x>> \in OpToRel(<, Nat))
  BY <1>1
<1>3. \A y \in S : <<y, x>> \in Nat \X Nat
  OBVIOUS
<1>4. \A y \in S : ~ (y < x)
  BY <1>2, <1>3 DEF OpToRel
<1> QED BY <1>4

\* f adds up g as far as n.
Adds(f, g, n) == f \in [0..n -> Nat] /\ f[0] = 0 /\ \A k \in 1..n : f[k] = f[k - 1] + g[k]

\* Some function adds up g, whatever g is.
LEMMA AddsExists ==
    ASSUME NEW N \in Nat, NEW g \in [1..N -> Nat]
    PROVE  \E f : Adds(f, g, N)
<1> DEFINE S == {n \in 0..N : ~ \E f : Adds(f, g, n)}
<1>1. SUFFICES ASSUME S # {} PROVE FALSE
  <2>1. N \in 0..N
    OBVIOUS
  <2> QED BY <2>1
<1>2. PICK n \in S : \A m \in S : n <= m
  <2>1. S \in SUBSET Nat
    OBVIOUS
  <2> HIDE DEF S
  <2> QED BY <1>1, <2>1, LeastOf, Zenon
<1>3. n \in 0..N /\ n \in Nat
  OBVIOUS
<1>4. CASE n = 0
  <2>1. Adds([k \in 0..0 |-> 0], g, 0)
    BY DEF Adds
  <2> QED BY <1>4, <2>1
<1>5. CASE n # 0
  <2>1. n - 1 \in 0..N /\ n - 1 \in Nat /\ ~(n <= n - 1) /\ n \in 1..N
    BY <1>3, <1>5
  <2>2. PICK e : Adds(e, g, n - 1)
    BY <1>2, <2>1
  <2>3. PICK f : f = [k \in 0..n |-> IF k = n THEN e[n - 1] + g[n] ELSE e[k]]
    OBVIOUS
  <2>4. e \in [0..(n - 1) -> Nat] /\ e[0] = 0 /\ \A k \in 1..(n - 1) : e[k] = e[k - 1] + g[k]
    BY <2>2 DEF Adds
  <2>5. f \in [0..n -> Nat] /\ f[0] = 0
    BY <2>1, <2>3, <2>4, <1>5
  <2>6. \A k \in 1..n : f[k] = f[k - 1] + g[k]
    BY <2>1, <2>3, <2>4
  <2>7. Adds(f, g, n)
    BY <2>5, <2>6 DEF Adds
  <2> QED BY <2>7, <1>2
<1> QED BY <1>4, <1>5

\* Total is the last value of such a function.
LEMMA TotalAdds ==
    ASSUME NEW N \in Nat, NEW g \in [1..N -> Nat]
    PROVE  \E f : Adds(f, g, N) /\ Total(g, N) = f[N]
<1> DEFINE E(f) == f = [k \in 0..N |-> IF k = 0 THEN 0 ELSE f[k - 1] + g[k]]
           F == CHOOSE f : E(f)
<1>1. PICK e : Adds(e, g, N)
  BY AddsExists
<1>2. E(e)
  <2>1. e \in [0..N -> Nat] /\ e[0] = 0 /\ \A k \in 1..N : e[k] = e[k - 1] + g[k]
    BY <1>1 DEF Adds
  <2> QED BY <2>1
<1>3. E(F)
  BY <1>2, Zenon
<1>4. Total(g, N) = F[N]
  BY DEF Total
<1> HIDE DEF F
<1>5. \A k \in 0..N : F[k] = e[k]
  <2> DEFINE S == {k \in 0..N : F[k] # e[k]}
  <2>1. SUFFICES ASSUME S # {} PROVE FALSE
    OBVIOUS
  <2>2. PICK k \in S : \A m \in S : k <= m
    <3>1. S \in SUBSET Nat
      OBVIOUS
    <3> HIDE DEF S
    <3> QED BY <2>1, <3>1, LeastOf, Zenon
  <2>3. k \in 0..N /\ k \in Nat /\ F[k] # e[k]
    OBVIOUS
  <2>4. k # 0
    BY <1>3, <2>3, <1>1 DEF Adds
  <2>5. k - 1 \in 0..N /\ ~(k <= k - 1) /\ k \in 1..N
    BY <2>3, <2>4
  <2>6. F[k - 1] = e[k - 1]
    BY <2>2, <2>5
  <2> QED BY <1>1, <1>3, <2>3, <2>4, <2>5, <2>6 DEF Adds
<1> QED BY <1>1, <1>4, <1>5

\* A sum of natural numbers is one.
LEMMA TotalNat ==
    ASSUME NEW N \in Nat, NEW g \in [1..N -> Nat]
    PROVE  Total(g, N) \in Nat
BY TotalAdds DEF Adds

\* The sum of sums.
LEMMA TotalSum ==
    ASSUME NEW N \in Nat, NEW a \in [1..N -> Nat], NEW b \in [1..N -> Nat], NEW c \in [1..N -> Nat],
           \A k \in 1..N : a[k] = b[k] + c[k]
    PROVE  Total(a, N) = Total(b, N) + Total(c, N)
<1>1. PICK A : Adds(A, a, N) /\ Total(a, N) = A[N]
  BY TotalAdds
<1>2. PICK B : Adds(B, b, N) /\ Total(b, N) = B[N]
  BY TotalAdds
<1>3. PICK C : Adds(C, c, N) /\ Total(c, N) = C[N]
  BY TotalAdds
<1>4. \A k \in 0..N : A[k] = B[k] + C[k]
  <2> DEFINE S == {k \in 0..N : A[k] # B[k] + C[k]}
  <2>1. SUFFICES ASSUME S # {} PROVE FALSE
    OBVIOUS
  <2>2. PICK k \in S : \A m \in S : k <= m
    <3>1. S \in SUBSET Nat
      OBVIOUS
    <3> HIDE DEF S
    <3> QED BY <2>1, <3>1, LeastOf, Zenon
  <2>3. k \in 0..N /\ k \in Nat /\ A[k] # B[k] + C[k]
    OBVIOUS
  <2>4. k # 0
    BY <1>1, <1>2, <1>3, <2>3 DEF Adds
  <2>5. k - 1 \in 0..N /\ ~(k <= k - 1) /\ k \in 1..N
    BY <2>3, <2>4
  <2>6. A[k - 1] = B[k - 1] + C[k - 1]
    BY <2>2, <2>5
  <2>7. A[k] = A[k - 1] + a[k] /\ B[k] = B[k - 1] + b[k] /\ C[k] = C[k - 1] + c[k]
    BY <1>1, <1>2, <1>3, <2>5 DEF Adds
  <2>8. A[k] \in Nat /\ B[k] \in Nat /\ C[k] \in Nat /\ A[k - 1] \in Nat /\ B[k - 1] \in Nat /\ C[k - 1] \in Nat
    BY <1>1, <1>2, <1>3, <2>3, <2>5 DEF Adds
  <2>9. a[k] = b[k] + c[k] /\ a[k] \in Nat /\ b[k] \in Nat /\ c[k] \in Nat
    BY <2>5
  <2> HIDE DEF S
  <2>10. PICK x \in Nat, y \in Nat, z \in Nat : x = A[k - 1] /\ y = B[k - 1] /\ z = C[k - 1]
    BY <2>8
  <2>11. PICK u \in Nat, v \in Nat, w \in Nat : u = a[k] /\ v = b[k] /\ w = c[k]
    BY <2>9
  <2>12. x = y + z /\ u = v + w
    BY <2>6, <2>9, <2>10, <2>11, Zenon
  <2>13. x + u = (y + v) + (z + w)
    BY <2>12
  <2> QED BY <2>3, <2>7, <2>10, <2>11, <2>13, Zenon
<1> QED BY <1>1, <1>2, <1>3, <1>4

\* A sum with a single term that is not zero.
LEMMA TotalOne ==
    ASSUME NEW N \in Nat, NEW j \in 1..N, NEW v \in Nat
    PROVE  Total([k \in 1..N |-> IF k = j THEN v ELSE 0], N) = v
<1>0. PICK g : g = [k \in 1..N |-> IF k = j THEN v ELSE 0]
  OBVIOUS
<1>1. PICK A : Adds(A, g, N) /\ Total(g, N) = A[N]
  <2>1. g \in [1..N -> Nat]
    BY <1>0
  <2> QED BY <2>1, TotalAdds
<1>4. \A k \in 0..N : A[k] = IF k < j THEN 0 ELSE v
  <2> DEFINE S == {k \in 0..N : A[k] # IF k < j THEN 0 ELSE v}
  <2>1. SUFFICES ASSUME S # {} PROVE FALSE
    OBVIOUS
  <2>2. PICK k \in S : \A m \in S : k <= m
    <3>1. S \in SUBSET Nat
      OBVIOUS
    <3> HIDE DEF S
    <3> QED BY <2>1, <3>1, LeastOf, Zenon
  <2>3. k \in 0..N /\ k \in Nat /\ A[k] # IF k < j THEN 0 ELSE v
    OBVIOUS
  <2>4. k # 0
    BY <1>1, <2>3 DEF Adds
  <2>5. k - 1 \in 0..N /\ ~(k <= k - 1) /\ k \in 1..N
    BY <2>3, <2>4
  <2>6. A[k - 1] = IF k - 1 < j THEN 0 ELSE v
    BY <2>2, <2>5
  <2>7. A[k] = A[k - 1] + g[k]
    BY <1>1, <2>5 DEF Adds
  <2>9. g[k] = IF k = j THEN v ELSE 0
    BY <2>5, <1>0
  <2> HIDE DEF S
  <2> QED BY <2>3, <2>5, <2>6, <2>7, <2>9
<1> QED BY <1>0, <1>1, <1>4

\* Smaller terms have a smaller sum.
LEMMA TotalLess ==
    ASSUME NEW N \in Nat, NEW a \in [1..N -> Nat], NEW b \in [1..N -> Nat],
           \A k \in 1..N : a[k] <= b[k]
    PROVE  Total(a, N) <= Total(b, N)
<1>1. PICK c : c = [k \in 1..N |-> b[k] - a[k]]
  OBVIOUS
<1>2. c \in [1..N -> Nat] /\ \A k \in 1..N : b[k] = a[k] + c[k]
  BY <1>1
<1>3. Total(b, N) = Total(a, N) + Total(c, N)
  BY <1>2, TotalSum
<1>4. Total(a, N) \in Nat /\ Total(c, N) \in Nat
  BY <1>2, TotalNat
<1> QED BY <1>3, <1>4

\* One term of a sum changes.
LEMMA TotalChange ==
    ASSUME NEW N \in Nat, NEW a \in [1..N -> Nat], NEW b \in [1..N -> Nat], NEW j \in 1..N,
           NEW v \in Nat, b[j] = a[j] + v, \A k \in (1..N) \ {j} : b[k] = a[k]
    PROVE  Total(b, N) = Total(a, N) + v
<1>1. PICK c : c = [k \in 1..N |-> IF k = j THEN v ELSE 0]
  OBVIOUS
<1>2. c \in [1..N -> Nat] /\ \A k \in 1..N : b[k] = a[k] + c[k]
  BY <1>1
<1>3. Total(b, N) = Total(a, N) + Total(c, N)
  BY <1>2, TotalSum
<1>4. Total(c, N) = v
  BY <1>1, TotalOne
<1> QED BY <1>3, <1>4

-----------------------------------------------------------------------------
(* Room promised and bytes held, of any table of requests and any sizes *)

BytesOf(S, sz) == Total([s \in Writes |-> IF s \in S THEN sz[s] ELSE 0], MaxWrites)
HeldIn(r) == {x \in Writes \X Attempts : r[x[1]][x[2]].ph = "held"}
EarlyIn(r) == {x \in HeldIn(r) : r[x[1]][x[2]].ahead}
Row(R, r, s) == [a \in Attempts |-> IF <<s, a>> \in R THEN r[s][a].n ELSE 0]
Rows(R, r) == [s \in Writes |-> Total(Row(R, r, s), UpAttempts)]
Promised(R, r) == Total(Rows(R, r), MaxWrites)

SizesOk(sz) == sz \in [Writes -> Nat]

\* The bytes of a set are a number.
LEMMA BytesNat ==
    ASSUME NEW S, NEW sz, SizesOk(sz)
    PROVE  BytesOf(S, sz) \in Nat
<1>1. [s \in 1..MaxWrites |-> IF s \in S THEN sz[s] ELSE 0] \in [1..MaxWrites -> Nat] /\ MaxWrites \in Nat
  BY UpConstants DEF SizesOk, Writes
<1> QED BY <1>1, TotalNat, Zenon DEF BytesOf, Writes

\* The bytes of two sets that share nothing add up.
LEMMA BytesApart ==
    ASSUME NEW S, NEW T, NEW U, NEW sz, SizesOk(sz), S \cap T = {}, U = S \cup T
    PROVE  BytesOf(U, sz) = BytesOf(S, sz) + BytesOf(T, sz)
<1>1. PICK a : a = [s \in 1..MaxWrites |-> IF s \in U THEN sz[s] ELSE 0]
  OBVIOUS
<1>2. PICK b : b = [s \in 1..MaxWrites |-> IF s \in S THEN sz[s] ELSE 0]
  OBVIOUS
<1>3. PICK c : c = [s \in 1..MaxWrites |-> IF s \in T THEN sz[s] ELSE 0]
  OBVIOUS
<1>4. a \in [1..MaxWrites -> Nat] /\ b \in [1..MaxWrites -> Nat] /\ c \in [1..MaxWrites -> Nat]
  BY <1>1, <1>2, <1>3 DEF SizesOk, Writes
<1>5. ASSUME NEW k \in 1..MaxWrites PROVE a[k] = b[k] + c[k]
  <2>1. sz[k] \in Nat
    BY DEF SizesOk, Writes
  <2>2. a[k] = (IF k \in U THEN sz[k] ELSE 0) /\ b[k] = (IF k \in S THEN sz[k] ELSE 0)
        /\ c[k] = (IF k \in T THEN sz[k] ELSE 0)
    BY <1>1, <1>2, <1>3
  <2>3. CASE k \in S
    BY <2>1, <2>2, <2>3
  <2>4. CASE k \notin S
    BY <2>1, <2>2, <2>4
  <2> QED BY <2>3, <2>4
<1>6. MaxWrites \in Nat
  BY UpConstants
<1>7. Total(a, MaxWrites) = Total(b, MaxWrites) + Total(c, MaxWrites)
  BY <1>4, <1>5, <1>6, TotalSum, Zenon
<1> QED BY <1>1, <1>2, <1>3, <1>7, Zenon DEF BytesOf, Writes

\* The bytes of one write are its size.
LEMMA BytesOne ==
    ASSUME NEW sz, SizesOk(sz), NEW s \in Writes
    PROVE  BytesOf({s}, sz) = sz[s]
<1>1. sz[s] \in Nat /\ s \in 1..MaxWrites /\ MaxWrites \in Nat
  BY UpConstants DEF SizesOk, Writes
<1>2. [k \in 1..MaxWrites |-> IF k \in {s} THEN sz[k] ELSE 0] = [k \in 1..MaxWrites |-> IF k = s THEN sz[s] ELSE 0]
  OBVIOUS
<1>3. Total([k \in 1..MaxWrites |-> IF k = s THEN sz[s] ELSE 0], MaxWrites) = sz[s]
  BY <1>1, TotalOne
<1> QED BY <1>2, <1>3, Zenon DEF BytesOf, Writes

\* No writes have no bytes.
LEMMA BytesNone ==
    ASSUME NEW sz, SizesOk(sz)
    PROVE  BytesOf({}, sz) = 0
<1>1. PICK c : c = [k \in 1..MaxWrites |-> 0]
  OBVIOUS
<1>2. c \in [1..MaxWrites -> Nat] /\ (\A k \in 1..MaxWrites : c[k] = c[k] + c[k]) /\ MaxWrites \in Nat
  BY <1>1, UpConstants
<1>3. Total(c, MaxWrites) = Total(c, MaxWrites) + Total(c, MaxWrites)
  BY <1>2, TotalSum
<1>4. Total(c, MaxWrites) \in Nat
  BY <1>2, TotalNat
<1>5. Total(c, MaxWrites) = 0
  <2>1. PICK x : x = Total(c, MaxWrites)
    OBVIOUS
  <2>2. x = x + x /\ x \in Nat
    BY <1>3, <1>4, <2>1, Zenon
  <2>3. x = 0
    BY <2>2
  <2> QED BY <2>1, <2>3, Zenon
<1>6. [k \in Writes |-> IF k \in {} THEN sz[k] ELSE 0] = c
  BY <1>1 DEF Writes
<1> QED BY <1>5, <1>6, Zenon DEF BytesOf

\* The sizes of other writes do not count.
LEMMA BytesSame ==
    ASSUME NEW S, NEW sz, NEW sz2, \A s \in Writes : s \in S => sz2[s] = sz[s]
    PROVE  BytesOf(S, sz2) = BytesOf(S, sz)
<1>1. [s \in Writes |-> IF s \in S THEN sz2[s] ELSE 0] = [s \in Writes |-> IF s \in S THEN sz[s] ELSE 0]
  OBVIOUS
<1> QED BY <1>1, Zenon DEF BytesOf

\* The terms of a sum of promises are natural numbers.
LEMMA RowsNat ==
    ASSUME NEW r \in Requests, NEW R
    PROVE  /\ \A s \in Writes : Row(R, r, s) \in [1..UpAttempts -> Nat]
           /\ Rows(R, r) \in [1..MaxWrites -> Nat]
<1>1. ASSUME NEW s \in Writes PROVE Row(R, r, s) \in [1..UpAttempts -> Nat]
  <2>1. \A a \in Attempts : r[s][a].n \in Nat
    BY UpConstants DEF Requests
  <2> QED BY <2>1 DEF Row, Attempts
<1>2. UpAttempts \in Nat
  BY UpConstants
<1>3. \A s \in Writes : Total(Row(R, r, s), UpAttempts) \in Nat
  BY <1>1, <1>2, TotalNat, Zenon
<1> QED BY <1>1, <1>3 DEF Rows, Writes

\* What is promised is a number.
LEMMA PromisedNat ==
    ASSUME NEW r \in Requests, NEW R
    PROVE  Promised(R, r) \in Nat
<1>1. MaxWrites \in Nat
  BY UpConstants
<1> QED BY <1>1, RowsNat, TotalNat, Zenon DEF Promised

\* Only the requests of the set count.
LEMMA PromisedSame ==
    ASSUME NEW r, NEW r2, NEW R,
           \A w \in Writes : \A b \in Attempts : <<w, b>> \in R => r2[w][b].n = r[w][b].n
    PROVE  Promised(R, r2) = Promised(R, r)
<1>1. \A w \in Writes : Row(R, r2, w) = Row(R, r, w)
  BY DEF Row
<1>2. Rows(R, r2) = Rows(R, r)
  BY <1>1 DEF Rows
<1> QED BY <1>2 DEF Promised

\* What is promised grows by one reservation.
LEMMA PromisedMore ==
    ASSUME NEW r \in Requests, NEW R, NEW s \in Writes, NEW a \in Attempts, <<s, a>> \notin R
    PROVE  Promised(R \cup {<<s, a>>}, r) = Promised(R, r) + r[s][a].n
<1> DEFINE T == R \cup {<<s, a>>}
           n == r[s][a].n
<1>0. MaxWrites \in Nat /\ UpAttempts \in Nat /\ n \in Nat /\ s \in 1..MaxWrites /\ a \in 1..UpAttempts
  BY UpConstants DEF Requests, Writes, Attempts
<1>1. \A w \in Writes \ {s} : Row(T, r, w) = Row(R, r, w)
  BY DEF Row
<1>2. Row(T, r, s)[a] = Row(R, r, s)[a] + n
  <2>1. Row(T, r, s)[a] = n /\ Row(R, r, s)[a] = 0
    BY DEF Row
  <2> QED BY <2>1, <1>0
<1>3. \A b \in (1..UpAttempts) \ {a} : Row(T, r, s)[b] = Row(R, r, s)[b]
  BY DEF Row, Attempts
<1> HIDE DEF T, n
<1>4. Total(Row(T, r, s), UpAttempts) = Total(Row(R, r, s), UpAttempts) + n
  <2>1. PICK x : x = Row(T, r, s)
    OBVIOUS
  <2>2. PICK y : y = Row(R, r, s)
    OBVIOUS
  <2>3. s \in Writes
    OBVIOUS
  <2>4. x \in [1..UpAttempts -> Nat] /\ y \in [1..UpAttempts -> Nat]
    BY <2>1, <2>2, <2>3, RowsNat, Zenon
  <2>5. x[a] = y[a] + n /\ \A b \in (1..UpAttempts) \ {a} : x[b] = y[b]
    BY <2>1, <2>2, <1>2, <1>3, Zenon
  <2>6. Total(x, UpAttempts) = Total(y, UpAttempts) + n
    BY <1>0, <2>4, <2>5, TotalChange
  <2> QED BY <2>1, <2>2, <2>6, Zenon
<1>5. Rows(T, r)[s] = Rows(R, r)[s] + n
  BY <1>4 DEF Rows
<1>6. \A w \in (1..MaxWrites) \ {s} : Rows(T, r)[w] = Rows(R, r)[w]
  BY <1>1, Zenon DEF Rows, Writes
<1>7. Total(Rows(T, r), MaxWrites) = Total(Rows(R, r), MaxWrites) + n
  <2>1. PICK x : x = Rows(T, r)
    OBVIOUS
  <2>2. PICK y : y = Rows(R, r)
    OBVIOUS
  <2>4. x \in [1..MaxWrites -> Nat] /\ y \in [1..MaxWrites -> Nat]
    BY <2>1, <2>2, RowsNat, Zenon
  <2>5. x[s] = y[s] + n /\ \A b \in (1..MaxWrites) \ {s} : x[b] = y[b]
    BY <2>1, <2>2, <1>5, <1>6, Zenon
  <2>6. Total(x, MaxWrites) = Total(y, MaxWrites) + n
    BY <1>0, <2>4, <2>5, TotalChange
  <2> QED BY <2>1, <2>2, <2>6, Zenon
<1> QED BY <1>7 DEF Promised, T, n

\* Less is promised to fewer.
LEMMA PromisedLess ==
    ASSUME NEW r \in Requests, NEW R, NEW T, R \subseteq T
    PROVE  Promised(R, r) <= Promised(T, r)
<1>0. MaxWrites \in Nat /\ UpAttempts \in Nat
  BY UpConstants
<1>1. ASSUME NEW w \in Writes PROVE \A b \in 1..UpAttempts : Row(R, r, w)[b] <= Row(T, r, w)[b]
  <2>1. ASSUME NEW b \in Attempts PROVE Row(R, r, w)[b] <= Row(T, r, w)[b]
    <3>1. r[w][b].n \in Nat
      BY UpConstants DEF Requests
    <3>2. /\ Row(R, r, w)[b] = IF <<w, b>> \in R THEN r[w][b].n ELSE 0
          /\ Row(T, r, w)[b] = IF <<w, b>> \in T THEN r[w][b].n ELSE 0
      BY DEF Row
    <3> QED BY <3>1, <3>2
  <2> QED BY <2>1 DEF Attempts
<1>2. \A w \in Writes : Total(Row(R, r, w), UpAttempts) <= Total(Row(T, r, w), UpAttempts)
  BY <1>0, <1>1, RowsNat, TotalLess, Zenon
<1>3. \A w \in 1..MaxWrites : Rows(R, r)[w] <= Rows(T, r)[w]
  BY <1>2 DEF Rows, Writes
<1> QED BY <1>0, <1>3, RowsNat, TotalLess, Zenon DEF Promised

\* The room a request holds is the same in both tables.
SameRoom(r, r2, w, b) ==
    /\ r2[w][b].ph = "held" <=> r[w][b].ph = "held"
    /\ r[w][b].ph = "held" => r2[w][b].n = r[w][b].n /\ r2[w][b].ahead = r[w][b].ahead

Alike(r, r2) == \A w \in Writes : \A b \in Attempts : SameRoom(r, r2, w, b)

\* In r request a of write s holds room, in r2 it does not; nothing else differs.
Leaves(r, r2, s, a) ==
    /\ r[s][a].ph = "held" /\ r2[s][a].ph # "held"
    /\ \A w \in Writes : \A b \in Attempts : <<w, b>> # <<s, a>> => SameRoom(r, r2, w, b)

\* Where the room held is the same, so are the sums over it.
LEMMA AlikeTables ==
    ASSUME NEW r, NEW r2, Alike(r, r2)
    PROVE  /\ HeldIn(r2) = HeldIn(r) /\ EarlyIn(r2) = EarlyIn(r)
           /\ Promised(HeldIn(r2), r2) = Promised(HeldIn(r), r)
           /\ Promised(EarlyIn(r2), r2) = Promised(EarlyIn(r), r)
<1>1. HeldIn(r2) = HeldIn(r)
  BY DEF HeldIn, Alike, SameRoom
<1>2. EarlyIn(r2) = EarlyIn(r)
  BY DEF HeldIn, EarlyIn, Alike, SameRoom
<1>3. \A w \in Writes : \A b \in Attempts : <<w, b>> \in HeldIn(r) => r2[w][b].n = r[w][b].n
  BY DEF HeldIn, Alike, SameRoom
<1>4. \A w \in Writes : \A b \in Attempts : <<w, b>> \in EarlyIn(r) => r2[w][b].n = r[w][b].n
  BY <1>3 DEF EarlyIn
<1>5. Promised(HeldIn(r), r2) = Promised(HeldIn(r), r)
  BY <1>3, PromisedSame, Zenon
<1>6. Promised(EarlyIn(r), r2) = Promised(EarlyIn(r), r)
  BY <1>4, PromisedSame, Zenon
<1> QED BY <1>1, <1>2, <1>5, <1>6, Zenon

\* There are finitely many requests.
LEMMA HeldFinite ==
    ASSUME NEW r
    PROVE  /\ IsFiniteSet(HeldIn(r)) /\ IsFiniteSet(EarlyIn(r)) /\ EarlyIn(r) \subseteq HeldIn(r)
           /\ Cardinality(HeldIn(r)) \in Nat /\ Cardinality(EarlyIn(r)) \in Nat
           /\ Cardinality(EarlyIn(r)) <= Cardinality(HeldIn(r))
<1>1. IsFiniteSet(Writes) /\ IsFiniteSet(Attempts)
  BY UpConstants, FS_Interval DEF Writes, Attempts
<1>2. IsFiniteSet(Writes \X Attempts)
  BY <1>1, FS_Product
<1>3. HeldIn(r) \subseteq Writes \X Attempts /\ EarlyIn(r) \subseteq HeldIn(r)
  BY DEF HeldIn, EarlyIn
<1>4. IsFiniteSet(HeldIn(r))
  BY <1>2, <1>3, FS_Subset, Zenon
<1> QED BY <1>3, <1>4, FS_Subset, FS_CardinalityType

\* A request that stops holding room takes its own share out of the sums.
LEMMA LeavesTables ==
    ASSUME NEW r \in Requests, NEW r2 \in Requests, NEW s \in Writes, NEW a \in Attempts, Leaves(r, r2, s, a)
    PROVE  /\ Promised(HeldIn(r), r) = Promised(HeldIn(r2), r2) + r[s][a].n
           /\ Cardinality(HeldIn(r)) = Cardinality(HeldIn(r2)) + 1
           /\ r[s][a].ahead => /\ Promised(EarlyIn(r), r) = Promised(EarlyIn(r2), r2) + r[s][a].n
                               /\ Cardinality(EarlyIn(r)) = Cardinality(EarlyIn(r2)) + 1
           /\ ~r[s][a].ahead => /\ Promised(EarlyIn(r), r) = Promised(EarlyIn(r2), r2)
                                /\ Cardinality(EarlyIn(r)) = Cardinality(EarlyIn(r2))
<1>1. /\ HeldIn(r) = HeldIn(r2) \cup {<<s, a>>} /\ <<s, a>> \notin HeldIn(r2) /\ <<s, a>> \in Writes \X Attempts
  BY DEF HeldIn, Leaves, SameRoom
<1>2. \A w \in Writes : \A b \in Attempts : <<w, b>> \in HeldIn(r2) => r2[w][b].n = r[w][b].n
  BY DEF HeldIn, Leaves, SameRoom
<1>3. Promised(HeldIn(r2), r2) = Promised(HeldIn(r2), r)
  BY <1>2, PromisedSame, Zenon
<1>4. Promised(HeldIn(r2) \cup {<<s, a>>}, r) = Promised(HeldIn(r2), r) + r[s][a].n
  BY <1>1, PromisedMore
<1>5. Cardinality(HeldIn(r)) = Cardinality(HeldIn(r2)) + 1
  <2>1. IsFiniteSet(HeldIn(r2))
    BY HeldFinite
  <2> QED BY <1>1, <2>1, FS_AddElement
<1>6. ASSUME r[s][a].ahead
      PROVE  /\ Promised(EarlyIn(r), r) = Promised(EarlyIn(r2), r2) + r[s][a].n
             /\ Cardinality(EarlyIn(r)) = Cardinality(EarlyIn(r2)) + 1
  <2>1. EarlyIn(r) = EarlyIn(r2) \cup {<<s, a>>} /\ <<s, a>> \notin EarlyIn(r2)
    BY <1>6 DEF HeldIn, EarlyIn, Leaves, SameRoom
  <2>2. \A w \in Writes : \A b \in Attempts : <<w, b>> \in EarlyIn(r2) => r2[w][b].n = r[w][b].n
    BY <1>2 DEF EarlyIn
  <2>3. Promised(EarlyIn(r2), r2) = Promised(EarlyIn(r2), r)
    BY <2>2, PromisedSame, Zenon
  <2>4. Promised(EarlyIn(r2) \cup {<<s, a>>}, r) = Promised(EarlyIn(r2), r) + r[s][a].n
    BY <2>1, PromisedMore
  <2>5. IsFiniteSet(EarlyIn(r2))
    BY HeldFinite
  <2>6. Cardinality(EarlyIn(r)) = Cardinality(EarlyIn(r2)) + 1
    BY <2>1, <2>5, FS_AddElement
  <2> QED BY <2>1, <2>3, <2>4, <2>6, Zenon
<1>7. ASSUME ~r[s][a].ahead
      PROVE  /\ Promised(EarlyIn(r), r) = Promised(EarlyIn(r2), r2)
             /\ Cardinality(EarlyIn(r)) = Cardinality(EarlyIn(r2))
  <2>1. EarlyIn(r) = EarlyIn(r2)
    BY <1>7 DEF HeldIn, EarlyIn, Leaves, SameRoom
  <2>2. \A w \in Writes : \A b \in Attempts : <<w, b>> \in EarlyIn(r2) => r2[w][b].n = r[w][b].n
    BY <1>2 DEF EarlyIn
  <2>3. Promised(EarlyIn(r2), r2) = Promised(EarlyIn(r2), r)
    BY <2>2, PromisedSame, Zenon
  <2> QED BY <2>1, <2>3, Zenon
<1> QED BY <1>1, <1>3, <1>4, <1>5, <1>6, <1>7

-----------------------------------------------------------------------------
(* How the tables of requests change *)

\* Requests that look for room, or hold it, did so before.
Fewer(r, r2) ==
    \A w \in Writes : \A b \in Attempts :
      r2[w][b].ph \in {"checked", "held"} =>
        /\ r[w][b].ph = r2[w][b].ph
        /\ r2[w][b].n = r[w][b].n /\ r2[w][b].ahead = r[w][b].ahead

\* No request comes out of nothing.
Old(r, r2) == \A w \in Writes : \A b \in Attempts : r[w][b].ph = "none" => r2[w][b].ph = "none"

\* A second change that leaves the room held as it is.
LEMMA AlikeThen ==
    ASSUME NEW r, NEW r1, NEW r2, Alike(r1, r2)
    PROVE  /\ Alike(r, r1) => Alike(r, r2)
           /\ \A s \in Writes : \A a \in Attempts : Leaves(r, r1, s, a) => Leaves(r, r2, s, a)
BY DEF Alike, Leaves, SameRoom

\* Two changes in a row.
LEMMA FewerThen ==
    ASSUME NEW r, NEW r1, NEW r2, Fewer(r1, r2), Old(r1, r2)
    PROVE  (Fewer(r, r1) => Fewer(r, r2)) /\ (Old(r, r1) => Old(r, r2))
BY DEF Fewer, Old

\* SetReq and Reply take room from one request and leave the others alone.
Moves(r, r2, s, a) ==
    /\ Fewer(r, r2)
    /\ r[s][a].ph # "none" => Old(r, r2)
    /\ r[s][a].ph # "held" => Alike(r, r2)
    /\ r[s][a].ph = "held" => Leaves(r, r2, s, a)

\* SetReq: a request starts, parks or ends with no room in hand.
LEMMA SetReqMoves ==
    ASSUME req \in Requests, NEW s \in Writes, NEW a \in Attempts, NEW ph, ph \notin {"checked", "held"}
    PROVE  Moves(req, SetReq(s, a, ph), s, a)
<1>1. PICK x : x = [ph |-> ph, ahead |-> FALSE, n |-> 0]
  OBVIOUS
<1>2. x.ph = ph
  BY <1>1
<1>3. \A w \in Writes : \A b \in Attempts :
        SetReq(s, a, ph)[w][b] = IF w = s /\ b = a THEN x ELSE req[w][b]
  BY <1>1 DEF SetReq, Requests
<1>4. PICK r2 : r2 = SetReq(s, a, ph)
  OBVIOUS
<1>5. \A w \in Writes : \A b \in Attempts : r2[w][b] = IF w = s /\ b = a THEN x ELSE req[w][b]
  BY <1>3, <1>4, Zenon
<1>6. Moves(req, r2, s, a)
  <2>1. Fewer(req, r2)
    BY <1>2, <1>5 DEF Fewer
  <2>2. \A w \in Writes : \A b \in Attempts : <<w, b>> # <<s, a>> => SameRoom(req, r2, w, b)
    BY <1>5 DEF SameRoom
  <2>3. r2[s][a].ph # "held"
    BY <1>2, <1>5
  <2>4. req[s][a].ph # "held" => Alike(req, r2)
    BY <2>2, <2>3 DEF Alike, SameRoom
  <2>5. req[s][a].ph # "none" => Old(req, r2)
    BY <1>5 DEF Old
  <2> QED BY <2>1, <2>2, <2>3, <2>4, <2>5 DEF Moves, Leaves
<1> QED BY <1>4, <1>6, Zenon

\* Reply, the same with an answer.
LEMMA ReplyMoves ==
    ASSUME req \in Requests, NEW s \in Writes, NEW a \in Attempts, NEW ph, ph \notin {"checked", "held"}
    PROVE  Moves(req, Reply(s, a, ph), s, a)
BY SetReqMoves DEF Reply

\* wakeLocked moves no request that looks for room or holds it.
LEMMA WokenMoves ==
    ASSUME NEW r \in Requests
    PROVE  Fewer(r, Woken(r)) /\ Old(r, Woken(r)) /\ Alike(r, Woken(r))
<1>1. \A w \in Writes : \A b \in Attempts :
         Woken(r)[w][b] = IF r[w][b].ph = "wait" THEN [r[w][b] EXCEPT !.ph = "look"] ELSE r[w][b]
  BY DEF Woken
<1>2. \A w \in Writes : \A b \in Attempts :
         r[w][b].ph = "wait" => Woken(r)[w][b].ph = "look"
  <2>1. ASSUME NEW w \in Writes, NEW b \in Attempts, r[w][b].ph = "wait" PROVE Woken(r)[w][b].ph = "look"
    <3>1. PICK x : x = r[w][b]
      OBVIOUS
    <3>2. x \in [ph : Phases, ahead : BOOLEAN, n : 0..MaxUpload]
      BY <3>1 DEF Requests
    <3>3. [x EXCEPT !.ph = "look"].ph = "look"
      BY <3>2
    <3>4. Woken(r)[w][b] = [x EXCEPT !.ph = "look"]
      BY <1>1, <2>1, <3>1, Zenon
    <3> QED BY <3>3, <3>4, Zenon
  <2> QED BY <2>1
<1>3. \A w \in Writes : \A b \in Attempts :
         r[w][b].ph # "wait" => Woken(r)[w][b] = r[w][b]
  BY <1>1
<1>4. PICK r2 : r2 = Woken(r)
  OBVIOUS
<1>5. \A w \in Writes : \A b \in Attempts :
        /\ r[w][b].ph = "wait" => r2[w][b].ph = "look"
        /\ r[w][b].ph # "wait" => r2[w][b] = r[w][b]
  BY <1>2, <1>3, <1>4, Zenon
<1>6. Fewer(r, r2) /\ Old(r, r2) /\ Alike(r, r2)
  BY <1>5 DEF Fewer, Old, Alike, SameRoom
<1> QED BY <1>4, <1>6, Zenon

\* A table that does not change.
LEMMA SameMoves ==
    ASSUME NEW r
    PROVE  Fewer(r, r) /\ Old(r, r) /\ Alike(r, r)
BY DEF Fewer, Old, Alike, SameRoom

\* Giving room back moves no request that holds or looks for some.
LEMMA ReleaseMoves ==
    ASSUME NEW r \in Requests, NEW n, NEW k, Release(n, k, r)
    PROVE  Fewer(r, req') /\ Old(r, req') /\ Alike(r, req')
BY WokenMoves, SameMoves DEF Release

\* A request answered or dropped, and room given back with it.
LEMMA MovesThenRelease ==
    ASSUME NEW r \in Requests, NEW s \in Writes, NEW a \in Attempts, Moves(req, r, s, a),
           NEW n, NEW k, Release(n, k, r)
    PROVE  Moves(req, req', s, a)
<1>1. Fewer(r, req') /\ Old(r, req') /\ Alike(r, req')
  BY ReleaseMoves
<1>2. Fewer(req, req') /\ (req[s][a].ph # "none" => Old(req, req'))
  BY <1>1, FewerThen DEF Moves
<1> QED BY <1>1, <1>2, AlikeThen DEF Moves

-----------------------------------------------------------------------------
(* The budget *)

\* A try that has not gone out has no request, and a write on a lane has none
\* of its present try; the last write of a close has none until the close goes.
Tries ==
    /\ \A s \in Writes : pc[s] = "none" => attempt[s] = 0
    /\ \A s \in Writes : \A a \in Attempts :
         a > attempt[s] \/ (a = attempt[s] /\ pc[s] = "lane") => req[s][a].ph = "none"
    /\ closing # "sent" /\ tail # 0 => pc[tail] = "none"

\* What is held fits its write, and one that was judged the next is never ahead.
Rooms ==
    \A s \in Writes : \A a \in Attempts :
      /\ req[s][a].ph = "held" => size[s] <= req[s][a].n
      /\ req[s][a].ph \in {"checked", "held"} /\ ~req[s][a].ahead => s <= seqNext

Places == acked <= taken /\ taken <= seqNext - 1

Exact ==
    /\ ~freed => /\ resident = BytesOf((acked + 1)..(seqNext - 1), size) + BytesOf(seqHeld, size)
                               + Promised(HeldIn(req), req)
                 /\ slots = ((seqNext - 1) - taken) + Cardinality(seqHeld) + Cardinality(HeldIn(req))
    /\ freed => resident = 0 /\ slots = 0
    /\ resident <= Limit /\ slots <= QueueChunks

Gap ==
    /\ BytesOf(seqHeld, size) + Promised(EarlyIn(req), req) <= Limit - MaxUpload
    /\ Cardinality(seqHeld) + Cardinality(EarlyIn(req)) <= QueueChunks - 1

BudgetInv == Tries /\ Rooms /\ Places /\ Exact /\ Gap

\* The limits, the counts and the sums are numbers.
Numbers ==
    /\ Limit \in Nat /\ MaxUpload \in Nat \ {0} /\ QueueChunks \in Nat \ {0} /\ MaxUpload <= Limit
    /\ MaxWrites \in Nat \ {0} /\ SizesOk(size) /\ upSeq \in Nat
    /\ seqNext \in Nat \ {0} /\ taken \in Nat /\ acked \in Nat
    /\ BytesOf((acked + 1)..(seqNext - 1), size) \in Nat /\ BytesOf(seqHeld, size) \in Nat
    /\ Promised(HeldIn(req), req) \in Nat /\ Promised(EarlyIn(req), req) \in Nat
    /\ Promised(EarlyIn(req), req) <= Promised(HeldIn(req), req)
    /\ Cardinality(seqHeld) \in Nat /\ Cardinality(HeldIn(req)) \in Nat /\ Cardinality(EarlyIn(req)) \in Nat
    /\ Cardinality(EarlyIn(req)) <= Cardinality(HeldIn(req))

\* They are numbers in every state of the inductive invariant.
LEMMA NumbersHold == IInv => Numbers
<1> SUFFICES ASSUME IInv PROVE Numbers
  OBVIOUS
<1>1. /\ Limit \in Nat /\ MaxUpload \in Nat \ {0} /\ QueueChunks \in Nat \ {0} /\ MaxUpload <= Limit
      /\ MaxWrites \in Nat \ {0}
  BY UpConstants, BudgetHoldsWindow
<1>2. SizesOk(size) /\ req \in Requests /\ seqHeld \subseteq Writes
  BY <1>1 DEF IInv, TypeOK, SizesOk
<1>3. seqNext \in Nat \ {0} /\ taken \in Nat /\ acked \in Nat /\ upSeq \in Nat
  BY <1>1 DEF IInv, TypeOK
<1>4. BytesOf((acked + 1)..(seqNext - 1), size) \in Nat /\ BytesOf(seqHeld, size) \in Nat
  BY <1>2, BytesNat, Zenon
<1>5. Promised(HeldIn(req), req) \in Nat /\ Promised(EarlyIn(req), req) \in Nat
  BY <1>2, PromisedNat, Zenon
<1>6. /\ Cardinality(HeldIn(req)) \in Nat /\ Cardinality(EarlyIn(req)) \in Nat
      /\ Cardinality(EarlyIn(req)) <= Cardinality(HeldIn(req)) /\ EarlyIn(req) \subseteq HeldIn(req)
  BY HeldFinite, Zenon
<1>7. Promised(EarlyIn(req), req) <= Promised(HeldIn(req), req)
  BY <1>2, <1>6, PromisedLess
<1>8. Cardinality(seqHeld) \in Nat
  <2>1. IsFiniteSet(Writes)
    BY <1>1, FS_Interval DEF Writes
  <2>2. IsFiniteSet(seqHeld)
    BY <1>2, <2>1, FS_Subset
  <2> QED BY <2>2, FS_CardinalityType
<1> QED BY <1>1, <1>2, <1>3, <1>4, <1>5, <1>6, <1>7, <1>8, Zenon DEF Numbers

\* The same after a step.
LEMMA NumbersNext == IInv' => Numbers'
BY NumbersHold, PTL

\* The writes at places i+1..j of the stream are the writes i+1..j.
LEMMA StreamWrites ==
    ASSUME IInv, NEW i \in Nat, NEW j \in Nat, j <= seqNext - 1
    PROVE  {stream[k] : k \in (i + 1)..j} = (i + 1)..j
<1>1. seqNext \in Nat
  BY UpConstants DEF IInv, TypeOK
<1>2. \A k \in (i + 1)..j : stream[k] = k
  BY <1>1 DEF IInv, StreamInOrder
<1> QED BY <1>2

\* In the words of the properties: the two properties follow from the invariant.
LEMMA BudgetMeans == IInv /\ BudgetInv => BudgetExact /\ GapCanFill
<1> SUFFICES ASSUME IInv, BudgetInv PROVE BudgetExact /\ GapCanFill
  OBVIOUS
<1>1. seqNext \in Nat \ {0} /\ acked \in Nat /\ Len(stream) = seqNext - 1
  BY UpConstants DEF IInv, TypeOK, StreamInOrder
<1>2. {stream[i] : i \in (acked + 1)..Len(stream)} = (acked + 1)..(seqNext - 1)
  <2>1. seqNext - 1 \in Nat /\ seqNext - 1 <= seqNext - 1
    BY <1>1
  <2>2. {stream[i] : i \in (acked + 1)..(seqNext - 1)} = (acked + 1)..(seqNext - 1)
    BY <1>1, <2>1, StreamWrites, Zenon
  <2> QED BY <1>1, <2>2
<1>3. Reserved = HeldIn(req) /\ {r \in Reserved : req[r[1]][r[2]].ahead} = EarlyIn(req)
  BY DEF Reserved, HeldIn, EarlyIn
<1>4. \A S : Bytes(S) = BytesOf(S, size)
  BY DEF Bytes, BytesOf
<1>5. \A R : SumReserved(R) = Promised(R, req)
  BY DEF SumReserved, Promised, Rows, Row
<1>6. BudgetExact
  BY <1>1, <1>2, <1>3, <1>4, <1>5, Zenon DEF BudgetInv, Exact, BudgetExact
<1>7. GapCanFill
  BY <1>3, <1>4, <1>5, Zenon DEF BudgetInv, Gap, GapCanFill
<1> QED BY <1>6, <1>7

SizesStay == \A w \in Writes : w <= upSeq => size'[w] = size[w]

\* Steps that leave the budget alone.
LEMMA QuietBudget ==
    ASSUME IInv, IInv', Places, Exact, Gap, Alike(req, req'), SizesStay,
           UNCHANGED <<seqNext, seqHeld, taken, acked, resident, slots, freed>>
    PROVE  Places' /\ Exact' /\ Gap'
<1>1. BytesOf(seqHeld, size') = BytesOf(seqHeld, size)
  <2>1. \A w \in Writes : w \in seqHeld => size'[w] = size[w]
    BY DEF IInv, HeldAhead, SizesStay
  <2> QED BY <2>1, BytesSame, Zenon
<1>2. BytesOf((acked + 1)..(seqNext - 1), size') = BytesOf((acked + 1)..(seqNext - 1), size)
  <2>1. \A w \in Writes : w \in (acked + 1)..(seqNext - 1) => size'[w] = size[w]
    <3>1. seqNext <= upSeq + 1 /\ seqNext \in Nat /\ acked \in Nat /\ upSeq \in Nat
      BY UpConstants DEF IInv, TypeOK, OnlyHandedOut
    <3> QED BY <3>1 DEF SizesStay
  <2> QED BY <2>1, BytesSame, Zenon
<1>3. /\ HeldIn(req') = HeldIn(req) /\ EarlyIn(req') = EarlyIn(req)
      /\ Promised(HeldIn(req'), req') = Promised(HeldIn(req), req)
      /\ Promised(EarlyIn(req'), req') = Promised(EarlyIn(req), req)
  BY AlikeTables, Zenon
<1>4. Places'
  BY DEF Places
<1>5. Exact'
  BY <1>1, <1>2, <1>3, Zenon DEF Exact
<1>6. Gap'
  BY <1>1, <1>3, Zenon DEF Gap
<1> QED BY <1>4, <1>5, <1>6

\* Fewer requests, and a stream no shorter, keep the judgements true.
LEMMA RoomsStay ==
    ASSUME IInv, IInv', Rooms, Fewer(req, req'), SizesStay, seqNext <= seqNext'
    PROVE  Rooms'
<1>1. seqNext \in Int /\ seqNext' \in Int /\ \A w \in Writes : w \in Int
  BY UpConstants DEF IInv, TypeOK, Writes
<1>2. ASSUME NEW w \in Writes, NEW b \in Attempts
      PROVE  /\ req'[w][b].ph = "held" => size'[w] <= req'[w][b].n
             /\ req'[w][b].ph \in {"checked", "held"} /\ ~req'[w][b].ahead => w <= seqNext'
  <2>1. CASE req'[w][b].ph \in {"checked", "held"}
    <3>1. req[w][b].ph = req'[w][b].ph /\ req'[w][b].n = req[w][b].n /\ req'[w][b].ahead = req[w][b].ahead
      BY <2>1 DEF Fewer
    <3>2. size'[w] = size[w]
      BY <2>1, <3>1 DEF SizesStay, IInv, OnlyHandedOut
    <3>3. /\ req[w][b].ph = "held" => size[w] <= req[w][b].n
          /\ req[w][b].ph \in {"checked", "held"} /\ ~req[w][b].ahead => w <= seqNext
      BY DEF Rooms
    <3> QED BY <1>1, <2>1, <3>1, <3>2, <3>3
  <2>2. CASE req'[w][b].ph \notin {"checked", "held"}
    BY <2>2
  <2> QED BY <2>1, <2>2
<1> QED BY <1>2 DEF Rooms

\* Sums of what is unread, held for its place and promised.
LEMMA LessRoom ==
    ASSUME NEW u \in Nat, NEW w \in Nat, NEW h \in Nat, NEW h2 \in Nat, NEW n \in Nat, NEW l \in Int,
           NEW x, x = u + w + h, x <= l, h = h2 + n
    PROVE  x - n = u + w + h2 /\ x - n <= l
OBVIOUS

\* The same for the sum that reserveLocked keeps under the spare.
LEMMA LessEarly ==
    ASSUME NEW w \in Nat, NEW h \in Nat, NEW h2 \in Nat, NEW n \in Nat, NEW l \in Int,
           w + h <= l, h = h2 + n \/ h = h2
    PROVE  w + h2 <= l
OBVIOUS

\* A request gives its room back.
LEMMA LeavesBudget ==
    ASSUME IInv, IInv', Places, Exact, Gap, NEW s \in Writes, NEW a \in Attempts,
           Leaves(req, req', s, a), size' = size,
           UNCHANGED <<seqNext, seqHeld, taken, acked, freed>>,
           resident' = IF freed THEN resident ELSE resident - req[s][a].n,
           slots' = IF freed THEN slots ELSE slots - 1
    PROVE  Places' /\ Exact' /\ Gap'
<1>1. Numbers /\ Numbers'
  BY NumbersHold, NumbersNext
<1>2. /\ Promised(HeldIn(req), req) = Promised(HeldIn(req'), req') + req[s][a].n
      /\ Cardinality(HeldIn(req)) = Cardinality(HeldIn(req')) + 1
      /\ req[s][a].ahead => /\ Promised(EarlyIn(req), req) = Promised(EarlyIn(req'), req') + req[s][a].n
                            /\ Cardinality(EarlyIn(req)) = Cardinality(EarlyIn(req')) + 1
      /\ ~req[s][a].ahead => /\ Promised(EarlyIn(req), req) = Promised(EarlyIn(req'), req')
                             /\ Cardinality(EarlyIn(req)) = Cardinality(EarlyIn(req'))
  BY LeavesTables DEF IInv, TypeOK
<1>3. req[s][a].n \in Nat
  BY UpConstants DEF IInv, TypeOK, Requests
<1>4. Places'
  BY DEF Places
<1>5. Exact'
  <2>1. CASE freed
    BY <1>1, <2>1 DEF Exact
  <2>2. CASE ~freed
    <3>1. /\ resident = BytesOf((acked + 1)..(seqNext - 1), size) + BytesOf(seqHeld, size) + Promised(HeldIn(req), req)
          /\ slots = ((seqNext - 1) - taken) + Cardinality(seqHeld) + Cardinality(HeldIn(req))
          /\ resident <= Limit /\ slots <= QueueChunks
      BY <2>2 DEF Exact
    <3>2. /\ resident' = resident - req[s][a].n /\ slots' = slots - 1 /\ ~freed'
          /\ seqNext' = seqNext /\ seqHeld' = seqHeld /\ taken' = taken /\ acked' = acked /\ size' = size
      BY <2>2
    <3>3. /\ resident' = BytesOf((acked + 1)..(seqNext - 1), size) + BytesOf(seqHeld, size) + Promised(HeldIn(req'), req')
          /\ resident' <= Limit
      <4>1. /\ BytesOf((acked + 1)..(seqNext - 1), size) \in Nat /\ BytesOf(seqHeld, size) \in Nat
            /\ Promised(HeldIn(req), req) \in Nat /\ Promised(HeldIn(req'), req') \in Nat /\ Limit \in Int
        BY <1>1 DEF Numbers
      <4>2. /\ resident - req[s][a].n = BytesOf((acked + 1)..(seqNext - 1), size) + BytesOf(seqHeld, size) + Promised(HeldIn(req'), req')
            /\ resident - req[s][a].n <= Limit
        <5>1. PICK n \in Nat : n = req[s][a].n
          BY <1>3, Zenon
        <5>2. Promised(HeldIn(req), req) = Promised(HeldIn(req'), req') + n
          BY <1>2, <5>1, Zenon
        <5>3. resident = BytesOf((acked + 1)..(seqNext - 1), size) + BytesOf(seqHeld, size) + Promised(HeldIn(req), req)
              /\ resident <= Limit
          BY <3>1, Zenon
        <5>4. /\ resident - n = BytesOf((acked + 1)..(seqNext - 1), size) + BytesOf(seqHeld, size) + Promised(HeldIn(req'), req')
              /\ resident - n <= Limit
          BY <4>1, <5>2, <5>3, LessRoom
        <5> QED BY <5>1, <5>4, Zenon
      <4> QED BY <3>2, <4>2, Zenon
    <3>4. /\ slots' = ((seqNext - 1) - taken) + Cardinality(seqHeld) + Cardinality(HeldIn(req'))
          /\ slots' <= QueueChunks
      <4>1. /\ (seqNext - 1) - taken \in Nat /\ Cardinality(seqHeld) \in Nat /\ 1 \in Nat
            /\ Cardinality(HeldIn(req)) \in Nat /\ Cardinality(HeldIn(req')) \in Nat /\ QueueChunks \in Int
        BY <1>1 DEF Numbers, Places
      <4>2. /\ slots - 1 = ((seqNext - 1) - taken) + Cardinality(seqHeld) + Cardinality(HeldIn(req'))
            /\ slots - 1 <= QueueChunks
        BY <1>2, <3>1, <4>1, LessRoom
      <4> QED BY <3>2, <4>2, Zenon
    <3> QED BY <3>2, <3>3, <3>4, Zenon DEF Exact
  <2> QED BY <2>1, <2>2
<1>6. Gap'
  <2>1. /\ BytesOf(seqHeld, size) + Promised(EarlyIn(req), req) <= Limit - MaxUpload
        /\ Cardinality(seqHeld) + Cardinality(EarlyIn(req)) <= QueueChunks - 1
    BY DEF Gap
  <2>2. /\ BytesOf(seqHeld, size) + Promised(EarlyIn(req'), req') <= Limit - MaxUpload
        /\ Cardinality(seqHeld) + Cardinality(EarlyIn(req')) <= QueueChunks - 1
    <3>1. /\ BytesOf(seqHeld, size) \in Nat /\ Promised(EarlyIn(req), req) \in Nat
          /\ Promised(EarlyIn(req'), req') \in Nat /\ Limit - MaxUpload \in Int
          /\ Cardinality(seqHeld) \in Nat /\ Cardinality(EarlyIn(req)) \in Nat
          /\ Cardinality(EarlyIn(req')) \in Nat /\ QueueChunks - 1 \in Int /\ 1 \in Nat
      BY <1>1 DEF Numbers
    <3>2. /\ \/ Promised(EarlyIn(req), req) = Promised(EarlyIn(req'), req') + req[s][a].n
             \/ Promised(EarlyIn(req), req) = Promised(EarlyIn(req'), req')
          /\ \/ Cardinality(EarlyIn(req)) = Cardinality(EarlyIn(req')) + 1
             \/ Cardinality(EarlyIn(req)) = Cardinality(EarlyIn(req'))
      BY <1>2, Zenon
    <3> QED BY <1>3, <2>1, <3>1, <3>2, LessEarly
  <2> QED BY <2>2, Zenon DEF Gap
<1> QED BY <1>4, <1>5, <1>6

\* A step of the relay or the reader starts no try.
LEMMA TriesStay ==
    ASSUME Tries, UNCHANGED writer, Old(req, req')
    PROVE  Tries'
BY DEF Tries, Old, writer

\* A new write has a number that no sum counts yet.
LEMMA SendBudget ==
    ASSUME IInv, IInv', BudgetInv, NEW n \in 0..MaxUpload, Send(n) \/ CloseConn(n)
    PROVE  BudgetInv'
<1>1. /\ UNCHANGED <<seqNext, seqHeld, taken, acked, resident, slots, freed, req>>
      /\ closing = "no" /\ tail = 0
  BY DEF Send, CloseConn, queue, IInv, CloseState
<1>2. upSeq \in Nat /\ seqNext \in Int /\ \A w \in Writes : w \in Int
  BY UpConstants DEF IInv, TypeOK, Writes
<1>0. upSeq < MaxWrites => upSeq + 1 \in Writes
  BY Ranges DEF IInv, TypeOK
<1>3. SizesStay
  <2>1. size' = size \/ (upSeq + 1 \in Writes /\ size' = [size EXCEPT ![upSeq + 1] = n])
    BY <1>0 DEF Send, CloseConn
  <2>2. \A w \in Writes : w # upSeq + 1 => size'[w] = size[w]
    BY <2>1 DEF IInv, TypeOK
  <2> QED BY <1>2, <2>2 DEF SizesStay
<1>4. Fewer(req, req') /\ Alike(req, req')
  BY <1>1, SameMoves
<1>5. Places' /\ Exact' /\ Gap'
  BY <1>1, <1>3, <1>4, QuietBudget DEF BudgetInv
<1>6. Rooms'
  BY <1>1, <1>2, <1>3, <1>4, RoomsStay DEF BudgetInv
<1>7. Tries'
  <2>1. \A w \in Writes : w > upSeq => pc[w] = "none" /\ \A a \in Attempts : req[w][a].ph = "none"
    BY <1>2 DEF IInv, OnlyHandedOut
  <2>2. \/ UNCHANGED <<pc, attempt>> /\ ((closing' = "tail0" /\ tail' = 0) \/ (tail' = upSeq + 1 /\ upSeq + 1 \in Writes))
        \/ /\ tail' = 0 /\ upSeq + 1 \in Writes
           /\ pc' = [pc EXCEPT ![upSeq + 1] = "lane"] /\ attempt' = [attempt EXCEPT ![upSeq + 1] = 1]
    <3>1. CASE Send(n)
      BY <1>0, <1>1, <3>1 DEF Send
    <3>2. CASE CloseConn(n)
      BY <1>0, <1>1, <3>2 DEF CloseConn
    <3> QED BY <3>1, <3>2
  <2>3. CASE UNCHANGED <<pc, attempt>> /\ ((closing' = "tail0" /\ tail' = 0) \/ (tail' = upSeq + 1 /\ upSeq + 1 \in Writes))
    BY <1>1, <1>2, <2>1, <2>3 DEF BudgetInv, Tries
  <2>4. CASE /\ tail' = 0 /\ upSeq + 1 \in Writes
             /\ pc' = [pc EXCEPT ![upSeq + 1] = "lane"] /\ attempt' = [attempt EXCEPT ![upSeq + 1] = 1]
    <3>1. \A w \in Writes : /\ pc'[w] = IF w = upSeq + 1 THEN "lane" ELSE pc[w]
                            /\ attempt'[w] = IF w = upSeq + 1 THEN 1 ELSE attempt[w]
      BY <2>4 DEF IInv, TypeOK
    <3>2. \A a \in Attempts : req[upSeq + 1][a].ph = "none"
      BY <1>2, <2>1, <2>4
    <3> QED BY <1>1, <2>4, <3>1, <3>2 DEF BudgetInv, Tries
  <2> QED BY <2>2, <2>3, <2>4
<1> QED BY <1>5, <1>6, <1>7 DEF BudgetInv

\* A try goes out.
LEMMA PostBudget ==
    ASSUME IInv, IInv', BudgetInv, NEW s \in Writes, Post(s)
    PROVE  BudgetInv'
<1>1. /\ UNCHANGED <<seqNext, seqHeld, taken, acked, resident, slots, freed, size, attempt, closing, tail>>
      /\ pc[s] = "lane" /\ req' = SetReq(s, attempt[s], "net")
  BY DEF Post, queue
<1>2. attempt[s] \in Attempts /\ req \in Requests /\ seqNext \in Int
      /\ \A w \in Writes : pc'[w] = IF w = s THEN "wire" ELSE pc[w]
  BY <1>1 DEF IInv, TypeOK, Post
<1>3. req[s][attempt[s]].ph = "none"
  BY <1>1, <1>2 DEF BudgetInv, Tries
<1>4. Fewer(req, req') /\ Alike(req, req')
  BY <1>1, <1>2, <1>3, SetReqMoves DEF Moves
<1>5. SizesStay
  BY <1>1 DEF SizesStay
<1>6. Places' /\ Exact' /\ Gap'
  BY <1>1, <1>4, <1>5, QuietBudget DEF BudgetInv
<1>7. Rooms'
  BY <1>1, <1>2, <1>4, <1>5, RoomsStay DEF BudgetInv
<1>8. Tries'
  <2>1. \A w \in Writes : \A a \in Attempts :
          req'[w][a].ph = IF w = s /\ a = attempt[s] THEN "net" ELSE req[w][a].ph
    BY <1>1, <1>2, SetReqFact, Ranges
  <2>2. \A w \in Writes : attempt[w] \in Int
    BY UpConstants DEF IInv, TypeOK
  <2>3. \A w \in Writes : \A a \in Attempts :
          a > attempt[w] \/ (a = attempt[w] /\ pc'[w] = "lane") => req'[w][a].ph = "none"
    BY <1>1, <1>2, <2>1, <2>2 DEF BudgetInv, Tries
  <2>4. closing # "sent" /\ tail # 0 => tail \in Writes /\ pc[tail] = "none"
    BY UpConstants DEF BudgetInv, Tries, IInv, TypeOK, Writes
  <2>5. closing' # "sent" /\ tail' # 0 => pc'[tail'] = "none"
    BY <1>1, <1>2, <2>4
  <2>6. \A w \in Writes : pc'[w] = "none" => attempt'[w] = 0
    BY <1>1, <1>2 DEF BudgetInv, Tries
  <2>7. \A w \in Writes : \A a \in Attempts :
          a > attempt'[w] \/ (a = attempt'[w] /\ pc'[w] = "lane") => req'[w][a].ph = "none"
    BY <1>1, <2>3
  <2> QED BY <2>5, <2>6, <2>7 DEF Tries
<1> QED BY <1>6, <1>7, <1>8 DEF BudgetInv

\* A try ends, and the next one has no request yet.
LEMMA EndTryTries ==
    ASSUME IInv, Tries, NEW s \in Writes, pc[s] = "wire", UNCHANGED <<closing, tail>>,
           \A w \in Writes : w # s => pc'[w] = pc[w] /\ attempt'[w] = attempt[w],
           \/ pc'[s] \in {"done", "failed"} /\ attempt'[s] = attempt[s]
           \/ pc'[s] = "lane" /\ attempt'[s] = attempt[s] + 1,
           \A w \in Writes : \A a \in Attempts :
             req'[w][a].ph = "none" \/ (w = s /\ a = attempt[s]) \/ req'[w][a].ph = req[w][a].ph
    PROVE  Tries'
<1>1. \A w \in Writes : attempt[w] \in Int
  BY UpConstants DEF IInv, TypeOK
<1>2. \A a \in Attempts : a \in Int
  BY UpConstants DEF Attempts
<1>3. \A w \in Writes : pc'[w] = "none" => attempt'[w] = 0
  BY DEF Tries
<1>4. \A w \in Writes : \A a \in Attempts :
        a > attempt'[w] \/ (a = attempt'[w] /\ pc'[w] = "lane") => req'[w][a].ph = "none"
  BY <1>1, <1>2 DEF Tries
<1>5. closing' # "sent" /\ tail' # 0 => pc'[tail'] = "none"
  <2>1. SUFFICES ASSUME closing # "sent", tail # 0 PROVE pc'[tail] = "none"
    OBVIOUS
  <2>2. tail \in Writes
    BY <2>1, UpConstants DEF IInv, TypeOK, Writes
  <2> QED BY <2>1, <2>2 DEF Tries
<1> QED BY <1>3, <1>4, <1>5 DEF Tries

\* The answer, or the failure, of a try.
LEMMA AnswerBudget ==
    ASSUME IInv, IInv', BudgetInv, NEW s \in Writes,
           Answer(s) \/ (\E arrives \in BOOLEAN : CarrierFails(s, arrives))
    PROVE  BudgetInv'
<1>1. /\ UNCHANGED <<seqNext, seqHeld, taken, acked, resident, slots, freed, size, closing, tail>>
      /\ pc[s] = "wire" /\ (req' = req \/ (req' = SetReq(s, attempt[s], "lost") /\ req[s][attempt[s]].ph # "held"))
  BY DEF Answer, CarrierFails, Answers, queue
<1>2. attempt[s] \in Attempts /\ req \in Requests /\ seqNext \in Int /\ attempt[s] \in Int
  BY <1>1, UpConstants DEF IInv, TypeOK
<1>3. Fewer(req, req') /\ Alike(req, req')
  BY <1>1, <1>2, SetReqMoves, SameMoves DEF Moves
<1>4. SizesStay
  BY <1>1 DEF SizesStay
<1>5. Places' /\ Exact' /\ Gap'
  BY <1>1, <1>3, <1>4, QuietBudget DEF BudgetInv
<1>6. Rooms'
  BY <1>1, <1>2, <1>3, <1>4, RoomsStay DEF BudgetInv
<1>7. /\ \A w \in Writes : w # s => pc'[w] = pc[w] /\ attempt'[w] = attempt[w]
      /\ \/ pc'[s] \in {"done", "failed"} /\ attempt'[s] = attempt[s]
         \/ pc'[s] = "lane" /\ attempt'[s] = attempt[s] + 1
  BY <1>2 DEF Answer, CarrierFails, EndTry, IInv, TypeOK
<1>8. \A w \in Writes : \A a \in Attempts :
        req'[w][a].ph = "none" \/ (w = s /\ a = attempt[s]) \/ req'[w][a].ph = req[w][a].ph
  BY <1>1, <1>2, SetReqFact, Ranges
<1>9. Tries'
  BY <1>1, <1>7, <1>8, EndTryTries DEF BudgetInv
<1> QED BY <1>5, <1>6, <1>9 DEF BudgetInv

\* The close goes out, with or without its tail.
LEMMA SendCloseBudget ==
    ASSUME IInv, IInv', BudgetInv, SendClose
    PROVE  BudgetInv'
<1>1. /\ UNCHANGED <<seqNext, seqHeld, taken, acked, resident, slots, freed, size, tail>>
      /\ closing # "sent" /\ closing' = "sent" /\ seqNext \in Int /\ req \in Requests
  BY UpConstants DEF SendClose, queue, IInv, TypeOK
<1>2. SizesStay
  BY <1>1 DEF SizesStay
<1>3. Fewer(req, req') /\ Alike(req, req') /\ Tries'
  <2>1. CASE tail = 0
    <3>1. UNCHANGED <<pc, attempt, req>>
      BY <2>1 DEF SendClose
    <3> QED BY <1>1, <3>1, SameMoves DEF BudgetInv, Tries
  <2>2. CASE tail # 0
    <3>1. tail \in Writes /\ 1 \in Attempts
      BY <2>2, Ranges, UpConstants DEF IInv, TypeOK, Writes
    <3>2. /\ pc' = [pc EXCEPT ![tail] = "wire"] /\ attempt' = [attempt EXCEPT ![tail] = 1]
          /\ req' = SetReq(tail, 1, "net")
      BY <2>2 DEF SendClose
    <3>3. pc[tail] = "none" /\ attempt[tail] = 0
      BY <1>1, <2>2, <3>1 DEF BudgetInv, Tries
    <3>4. \A a \in Attempts : req[tail][a].ph = "none"
      BY <3>1, <3>3, UpConstants DEF BudgetInv, Tries, Attempts
    <3>5. Fewer(req, req') /\ Alike(req, req')
      BY <1>1, <3>1, <3>2, <3>4, SetReqMoves DEF Moves
    <3>6. \A w \in Writes : /\ pc'[w] = IF w = tail THEN "wire" ELSE pc[w]
                            /\ attempt'[w] = IF w = tail THEN 1 ELSE attempt[w]
      BY <3>2 DEF IInv, TypeOK
    <3>7. \A w \in Writes : \A a \in Attempts :
            req'[w][a].ph = IF w = tail /\ a = 1 THEN "net" ELSE req[w][a].ph
      BY <1>1, <3>1, <3>2, SetReqFact, Ranges
    <3>8. Tries'
      BY <1>1, <3>4, <3>6, <3>7 DEF BudgetInv, Tries
    <3> QED BY <3>5, <3>8
  <2> QED BY <2>1, <2>2
<1>4. Places' /\ Exact' /\ Gap'
  BY <1>1, <1>2, <1>3, QuietBudget DEF BudgetInv
<1>5. Rooms'
  BY <1>1, <1>2, <1>3, RoomsStay DEF BudgetInv
<1> QED BY <1>3, <1>4, <1>5 DEF BudgetInv

-----------------------------------------------------------------------------
(* The relay's and the reader's steps *)

\* A step of the relay that leaves the budget alone.
LEMMA QuietRelayBudget ==
    ASSUME IInv, IInv', BudgetInv, UNCHANGED writer, Fewer(req, req'), Old(req, req'), Alike(req, req'),
           UNCHANGED <<seqNext, seqHeld, taken, acked, resident, slots, freed>>
    PROVE  BudgetInv'
<1>1. SizesStay /\ seqNext <= seqNext'
  BY UpConstants DEF SizesStay, writer, IInv, TypeOK
<1>2. Places' /\ Exact' /\ Gap'
  BY <1>1, QuietBudget DEF BudgetInv
<1>3. Rooms'
  BY <1>1, RoomsStay DEF BudgetInv
<1>4. Tries'
  BY TriesStay DEF BudgetInv
<1> QED BY <1>2, <1>3, <1>4 DEF BudgetInv

\* A request whose write is not taken, or was taken before, gives its room back.
LEMMA BackBudget ==
    ASSUME IInv, IInv', BudgetInv, NEW s \in Writes, NEW a \in Attempts,
           BodyFails(s, a) \/ CommitRefused(s, a)
    PROVE  BudgetInv'
<1>1. /\ UNCHANGED <<seqNext, seqHeld, taken, acked, freed>> /\ UNCHANGED writer
      /\ req[s][a].ph = "held" /\ req \in Requests
  BY DEF BodyFails, CommitRefused, IInv, TypeOK
<1>2. PICK r \in Requests : Moves(req, r, s, a) /\ Release(req[s][a].n, 1, r)
  <2>1. /\ \A ph \in {"lost", "refused", "ok"} : Reply(s, a, ph) \in Requests /\ Moves(req, Reply(s, a, ph), s, a)
        /\ SetReq(s, a, "lost") \in Requests /\ Moves(req, SetReq(s, a, "lost"), s, a)
    BY <1>1, SetReqMoves, ReplyMoves, SetReqFact, ReplyFact, Ranges
  <2>2. CASE BodyFails(s, a)
    BY <2>1, <2>2 DEF BodyFails
  <2>3. CASE CommitRefused(s, a)
    BY <2>1, <2>3 DEF CommitRefused
  <2> QED BY <2>2, <2>3
<1>3. Moves(req, req', s, a)
  BY <1>2, MovesThenRelease
<1>4. Leaves(req, req', s, a) /\ Fewer(req, req') /\ Old(req, req')
  BY <1>1, <1>3 DEF Moves
<1>5. /\ resident' = (IF freed THEN resident ELSE resident - req[s][a].n)
      /\ slots' = (IF freed THEN slots ELSE slots - 1)
  BY <1>2 DEF Release
<1>6. size' = size /\ SizesStay /\ seqNext <= seqNext'
  BY <1>1, UpConstants DEF SizesStay, writer, IInv, TypeOK
<1>7. Places' /\ Exact' /\ Gap'
  BY <1>1, <1>4, <1>5, <1>6, LeavesBudget DEF BudgetInv
<1>8. Rooms'
  BY <1>4, <1>6, RoomsStay DEF BudgetInv
<1>9. Tries'
  BY <1>1, <1>4, TriesStay DEF BudgetInv
<1> QED BY <1>7, <1>8, <1>9 DEF BudgetInv

\* Where a request looks at its place, or waits in vain, nothing is promised.
LEMMA CheckBudget ==
    ASSUME IInv, IInv', BudgetInv, NEW s \in Writes, NEW a \in Attempts,
           RefuseClosed(s, a) \/ CheckSeq(s, a) \/ AwaitEnds(s, a)
    PROVE  BudgetInv'
<1>1. /\ UNCHANGED <<seqNext, seqHeld, taken, acked, resident, slots, freed>> /\ UNCHANGED writer
      /\ req[s][a].ph \notin {"none", "held"} /\ req \in Requests
  BY DEF RefuseClosed, CheckSeq, AwaitEnds, queue, IInv, TypeOK
<1>2. CASE \E ph \in {"refused", "ok", "retry"} : req' = Reply(s, a, ph)
  <2>1. Moves(req, req', s, a)
    BY <1>1, <1>2, ReplyMoves
  <2> QED BY <1>1, <2>1, QuietRelayBudget DEF Moves
<1>3. CASE req' = SetReq(s, a, "lost")
  <2>1. Moves(req, req', s, a)
    BY <1>1, <1>3, SetReqMoves
  <2> QED BY <1>1, <2>1, QuietRelayBudget DEF Moves
<1>4. CASE req' = [req EXCEPT ![s][a] = [ph |-> "checked", ahead |-> s > seqNext, n |-> 0]]
  <2>1. PICK x : x = [ph |-> "checked", ahead |-> s > seqNext, n |-> 0]
    OBVIOUS
  <2>2. x.ph = "checked" /\ x.ahead = (s > seqNext)
    BY <2>1
  <2>3. \A w \in Writes : \A b \in Attempts : req'[w][b] = IF w = s /\ b = a THEN x ELSE req[w][b]
    BY <1>1, <1>4, <2>1 DEF Requests
  <2>4. Alike(req, req') /\ Old(req, req')
    BY <1>1, <2>2, <2>3 DEF Alike, SameRoom, Old
  <2>5. SizesStay /\ size' = size
    BY <1>1 DEF SizesStay, writer
  <2>6. Places' /\ Exact' /\ Gap'
    BY <1>1, <2>4, <2>5, QuietBudget DEF BudgetInv
  <2>7. seqNext \in Int /\ seqNext' = seqNext /\ \A w \in Writes : w \in Int
    BY <1>1, UpConstants DEF IInv, TypeOK, Writes
  <2>8. Rooms'
    <3>1. ~x.ahead => s <= seqNext
      <4>1. s \in Int
        BY <2>7
      <4>2. x.ahead <=> s > seqNext
        BY <2>2
      <4> QED BY <2>7, <4>1, <4>2
    <3>2. ASSUME NEW w \in Writes, NEW b \in Attempts
          PROVE  /\ req'[w][b].ph = "held" => size'[w] <= req'[w][b].n
                 /\ req'[w][b].ph \in {"checked", "held"} /\ ~req'[w][b].ahead => w <= seqNext'
      <4>1. CASE w = s /\ b = a
        BY <2>2, <2>3, <2>7, <3>1, <4>1
      <4>2. CASE ~(w = s /\ b = a)
        <5>1. req'[w][b] = req[w][b]
          BY <2>3, <4>2
        <5> QED BY <2>5, <2>7, <5>1 DEF BudgetInv, Rooms
      <4> QED BY <4>1, <4>2
    <3> QED BY <3>2 DEF Rooms
  <2>9. Tries'
    BY <1>1, <2>4, TriesStay DEF BudgetInv
  <2> QED BY <2>6, <2>8, <2>9 DEF BudgetInv
<1> QED BY <1>2, <1>3, <1>4 DEF RefuseClosed, CheckSeq, AwaitEnds

\* Room is promised where there is room, and a write ahead leaves the largest
\* one and a slot free.
LEMMA ReserveBudget ==
    ASSUME IInv, IInv', BudgetInv, NEW s \in Writes, NEW a \in Attempts, NEW n \in Sizes, TryReserve(s, a, n)
    PROVE  BudgetInv'
<1>1. /\ UNCHANGED <<seqNext, seqHeld, taken, acked, freed>> /\ UNCHANGED writer
      /\ req[s][a].ph = "checked" /\ req \in Requests
  BY DEF TryReserve, IInv, TypeOK
<1>2. CASE UNCHANGED <<resident, slots>> /\ (req' = Reply(s, a, "refused") \/ req' = SetReq(s, a, "wait"))
  <2>1. Moves(req, req', s, a)
    BY <1>1, <1>2, SetReqMoves, ReplyMoves
  <2> QED BY <1>1, <1>2, <2>1, QuietRelayBudget DEF Moves
<1>3. CASE /\ done = "open" /\ HasRoom(n, req[s][a].ahead)
           /\ req' = [req EXCEPT ![s][a] = [ph |-> "held", ahead |-> req[s][a].ahead, n |-> n]]
           /\ resident' = resident + n /\ slots' = slots + 1
  <2>1. PICK x : x = [ph |-> "held", ahead |-> req[s][a].ahead, n |-> n]
    OBVIOUS
  <2>2. x.ph = "held" /\ x.n = n /\ x.ahead = req[s][a].ahead
    BY <2>1
  <2>3. \A w \in Writes : \A b \in Attempts : req'[w][b] = IF w = s /\ b = a THEN x ELSE req[w][b]
    BY <1>1, <1>3, <2>1 DEF Requests
  <2>4. Leaves(req', req, s, a) /\ Old(req, req')
    BY <1>1, <2>2, <2>3 DEF Leaves, SameRoom, Old
  <2>5. req'[s][a].n = n /\ req'[s][a].ahead = req[s][a].ahead
    BY <2>2, <2>3
  <2>6. /\ Promised(HeldIn(req'), req') = Promised(HeldIn(req), req) + n
        /\ Cardinality(HeldIn(req')) = Cardinality(HeldIn(req)) + 1
        /\ req[s][a].ahead => /\ Promised(EarlyIn(req'), req') = Promised(EarlyIn(req), req) + n
                              /\ Cardinality(EarlyIn(req')) = Cardinality(EarlyIn(req)) + 1
        /\ ~req[s][a].ahead => /\ Promised(EarlyIn(req'), req') = Promised(EarlyIn(req), req)
                               /\ Cardinality(EarlyIn(req')) = Cardinality(EarlyIn(req))
    <3>1. req' \in Requests
      BY DEF IInv, TypeOK
    <3>2. PICK r2 \in Requests : r2 = req'
      BY <3>1
    <3>3. /\ Promised(HeldIn(r2), r2) = Promised(HeldIn(req), req) + r2[s][a].n
          /\ Cardinality(HeldIn(r2)) = Cardinality(HeldIn(req)) + 1
          /\ r2[s][a].ahead => /\ Promised(EarlyIn(r2), r2) = Promised(EarlyIn(req), req) + r2[s][a].n
                              /\ Cardinality(EarlyIn(r2)) = Cardinality(EarlyIn(req)) + 1
          /\ ~r2[s][a].ahead => /\ Promised(EarlyIn(r2), r2) = Promised(EarlyIn(req), req)
                               /\ Cardinality(EarlyIn(r2)) = Cardinality(EarlyIn(req))
      BY <1>1, <2>4, <3>2, LeavesTables
    <3> QED BY <2>5, <3>2, <3>3, Zenon
  <2>7. Numbers /\ Numbers' /\ n \in Nat /\ 1 \in Nat
    BY NumbersHold, NumbersNext, UpConstants DEF Sizes
  <2>8. ~freed /\ ~freed' /\ size' = size
    BY <1>1, <1>3 DEF IInv, CloseState, writer
  <2>9. /\ resident = BytesOf((acked + 1)..(seqNext - 1), size) + BytesOf(seqHeld, size) + Promised(HeldIn(req), req)
        /\ slots = ((seqNext - 1) - taken) + Cardinality(seqHeld) + Cardinality(HeldIn(req))
    BY <2>8 DEF BudgetInv, Exact
  <2>10. /\ BytesOf((acked + 1)..(seqNext - 1), size) \in Nat /\ BytesOf(seqHeld, size) \in Nat
         /\ Promised(HeldIn(req), req) \in Nat /\ Promised(HeldIn(req'), req') \in Nat
         /\ Promised(EarlyIn(req), req) \in Nat /\ Promised(EarlyIn(req'), req') \in Nat
         /\ Limit \in Int /\ QueueChunks \in Int /\ Limit - MaxUpload \in Int /\ QueueChunks - 1 \in Int
         /\ (seqNext - 1) - taken \in Nat /\ Cardinality(seqHeld) \in Nat
         /\ Cardinality(HeldIn(req)) \in Nat /\ Cardinality(HeldIn(req')) \in Nat
         /\ Cardinality(EarlyIn(req)) \in Nat /\ Cardinality(EarlyIn(req')) \in Nat
         /\ Promised(EarlyIn(req), req) <= Promised(HeldIn(req), req)
         /\ Cardinality(EarlyIn(req)) <= Cardinality(HeldIn(req))
    BY <2>7 DEF Numbers, BudgetInv, Places
  <2>a. PICK u \in Nat, w \in Nat, h \in Nat, h2 \in Nat, e \in Nat, e2 \in Nat :
          /\ u = BytesOf((acked + 1)..(seqNext - 1), size) /\ w = BytesOf(seqHeld, size)
          /\ h = Promised(HeldIn(req), req) /\ h2 = Promised(HeldIn(req'), req')
          /\ e = Promised(EarlyIn(req), req) /\ e2 = Promised(EarlyIn(req'), req')
    BY <2>10, Zenon
  <2>b. PICK cu \in Nat, cw \in Nat, ch \in Nat, ch2 \in Nat, ce \in Nat, ce2 \in Nat :
          /\ cu = (seqNext - 1) - taken /\ cw = Cardinality(seqHeld)
          /\ ch = Cardinality(HeldIn(req)) /\ ch2 = Cardinality(HeldIn(req'))
          /\ ce = Cardinality(EarlyIn(req)) /\ ce2 = Cardinality(EarlyIn(req'))
    BY <2>10, Zenon
  <2>c. resident = u + w + h /\ slots = cu + cw + ch
    BY <2>9, <2>a, <2>b, Zenon
  <2>d. /\ h2 = h + n /\ ch2 = ch + 1
        /\ req[s][a].ahead => e2 = e + n /\ ce2 = ce + 1
        /\ ~req[s][a].ahead => e2 = e /\ ce2 = ce
    BY <2>6, <2>a, <2>b, Zenon
  <2>e. e <= h /\ ce <= ch
    BY <2>10, <2>a, <2>b, Zenon
  <2>11. resident + n <= Limit /\ slots + 1 <= QueueChunks
    <3>1. /\ resident + n <= Limit - (IF req[s][a].ahead THEN MaxUpload ELSE 0)
          /\ slots + 1 <= QueueChunks - (IF req[s][a].ahead THEN 1 ELSE 0)
      BY <1>3, Zenon DEF HasRoom
    <3>2. resident \in Nat /\ slots \in Nat /\ MaxUpload \in Nat /\ Limit \in Nat /\ QueueChunks \in Nat
      BY <2>c, UpConstants
    <3> QED BY <2>7, <3>1, <3>2
  <2>12. req[s][a].ahead => resident + n <= Limit - MaxUpload /\ slots + 1 <= QueueChunks - 1
    BY <1>3, Zenon DEF HasRoom
  <2>13. Exact'
    <3>1. resident + n = u + w + h2 /\ slots + 1 = cu + cw + ch2
      BY <2>7, <2>c, <2>d
    <3> QED BY <1>1, <1>3, <2>8, <2>11, <2>a, <2>b, <3>1, Zenon DEF Exact
  <2>14. Gap'
    <3>1. w + e2 <= Limit - MaxUpload /\ cw + ce2 <= QueueChunks - 1
      <4>1. CASE req[s][a].ahead
        <5>1. w + e2 <= resident + n /\ cw + ce2 <= slots + 1
          BY <2>7, <2>c, <2>d, <2>e, <4>1
        <5>2. resident + n <= Limit - MaxUpload /\ slots + 1 <= QueueChunks - 1
          BY <2>12, <4>1
        <5>3. w + e2 \in Int /\ cw + ce2 \in Int /\ resident + n \in Int /\ slots + 1 \in Int
              /\ Limit - MaxUpload \in Int /\ QueueChunks - 1 \in Int
          BY <2>7, <2>c, UpConstants
        <5> QED BY <5>1, <5>2, <5>3
      <4>2. CASE ~req[s][a].ahead
        BY <2>a, <2>b, <2>d, <4>2, Zenon DEF BudgetInv, Gap
      <4> QED BY <4>1, <4>2
    <3> QED BY <1>1, <2>8, <2>a, <2>b, <3>1, Zenon DEF Gap
  <2>15. Places'
    BY <1>1 DEF BudgetInv, Places
  <2>16. Tries'
    BY <1>1, <2>4, TriesStay DEF BudgetInv
  <2>17. Rooms'
    <3>1. size[s] <= n
      <4>1. n \in {size[s], MaxUpload}
        BY DEF TryReserve
      <4>2. size[s] \in 0..MaxUpload /\ MaxUpload \in Nat
        BY UpConstants DEF IInv, TypeOK
      <4> QED BY <4>1, <4>2
    <3>2. ASSUME NEW t \in Writes, NEW b \in Attempts
          PROVE  /\ req'[t][b].ph = "held" => size'[t] <= req'[t][b].n
                 /\ req'[t][b].ph \in {"checked", "held"} /\ ~req'[t][b].ahead => t <= seqNext'
      <4>1. CASE t = s /\ b = a
        <5>1. ~req[s][a].ahead => s <= seqNext
          BY <1>1 DEF BudgetInv, Rooms
        <5> QED BY <1>1, <2>2, <2>3, <2>8, <3>1, <4>1, <5>1
      <4>2. CASE ~(t = s /\ b = a)
        <5>1. req'[t][b] = req[t][b]
          BY <2>3, <4>2
        <5> QED BY <1>1, <2>8, <5>1 DEF BudgetInv, Rooms
      <4> QED BY <4>1, <4>2
    <3> QED BY <3>2 DEF Rooms
  <2> QED BY <2>13, <2>14, <2>15, <2>16, <2>17 DEF BudgetInv
<1> QED BY <1>2, <1>3 DEF TryReserve

\* Sets of writes are finite.
LEMMA FiniteWrites ==
    ASSUME NEW S \in SUBSET Writes
    PROVE  IsFiniteSet(S)
<1>1. IsFiniteSet(Writes)
  BY UpConstants, FS_Interval DEF Writes
<1> QED BY <1>1, FS_Subset

\* The bytes and the number of held writes, with one more.
LEMMA HeldMore ==
    ASSUME NEW S \in SUBSET Writes, NEW s \in Writes, s \notin S, NEW sz, SizesOk(sz)
    PROVE  /\ BytesOf(S \cup {s}, sz) = BytesOf(S, sz) + sz[s]
           /\ Cardinality(S \cup {s}) = Cardinality(S) + 1
<1>1. IsFiniteSet(S)
  BY FiniteWrites
<1>2. Cardinality(S \cup {s}) = Cardinality(S) + 1
  BY <1>1, FS_AddElement
<1>3. BytesOf({s}, sz) = sz[s]
  BY BytesOne
<1>4. PICK U : U = S \cup {s}
  OBVIOUS
<1>5. PICK T : T = {s}
  OBVIOUS
<1>6. S \cap T = {} /\ U = S \cup T
  BY <1>4, <1>5
<1>7. BytesOf(U, sz) = BytesOf(S, sz) + BytesOf(T, sz)
  BY <1>6, BytesApart
<1> QED BY <1>2, <1>3, <1>4, <1>5, <1>7, Zenon

\* The bytes and the number of held writes, without a run of them.
LEMMA HeldLess ==
    ASSUME NEW S \in SUBSET Writes, NEW i \in Nat, NEW j \in Nat, i <= j, (i + 1)..j \subseteq S,
           NEW sz, SizesOk(sz)
    PROVE  /\ BytesOf(S, sz) = BytesOf(S \ ((i + 1)..j), sz) + BytesOf((i + 1)..j, sz)
           /\ Cardinality(S) = Cardinality(S \ ((i + 1)..j)) + (j - i)
<1>1. PICK T : T = (i + 1)..j
  OBVIOUS
<1>2. PICK U : U = S \ T
  OBVIOUS
<1>3. U \cap T = {} /\ S = U \cup T
  BY <1>1, <1>2
<1>4. BytesOf(S, sz) = BytesOf(U, sz) + BytesOf(T, sz)
  BY <1>3, BytesApart
<1>5. IsFiniteSet(S)
  BY FiniteWrites
<1>6. IsFiniteSet(U) /\ IsFiniteSet(T)
  BY <1>3, <1>5, FS_Subset
<1>7. Cardinality(S) = Cardinality(U) + Cardinality(T)
  <2>1. Cardinality(U \cup T) = Cardinality(U) + Cardinality(T) - Cardinality(U \cap T)
    BY <1>6, FS_Union
  <2>2. Cardinality({}) = 0
    BY FS_EmptySet
  <2>3. Cardinality(U) \in Nat /\ Cardinality(T) \in Nat
    BY <1>6, FS_CardinalityType
  <2>4. Cardinality(U \cap T) = 0
    BY <1>3, <2>2, Zenon
  <2>5. Cardinality(S) = Cardinality(U \cup T)
    BY <1>3, Zenon
  <2> QED BY <2>1, <2>3, <2>4, <2>5
<1>8. Cardinality(T) = j - i
  <2>1. Cardinality((i + 1)..j) = IF i + 1 > j THEN 0 ELSE j - (i + 1) + 1
    BY FS_Interval
  <2> QED BY <1>1, <2>1
<1> QED BY <1>1, <1>2, <1>4, <1>7, <1>8, Zenon

\* A write is held for its place: its bytes move from what is promised to what is
\* held, and what its declared length asked for above them goes back.
LEMMA CommitAheadBudget ==
    ASSUME IInv, IInv', BudgetInv, NEW s \in Writes, NEW a \in Attempts, CommitAhead(s, a)
    PROVE  BudgetInv'
<1>1. /\ UNCHANGED <<seqNext, taken, acked, freed>> /\ UNCHANGED writer
      /\ req[s][a].ph = "held" /\ req \in Requests /\ seqHeld' = seqHeld \cup {s}
      /\ s \notin seqHeld /\ seqHeld \in SUBSET Writes /\ size' = size
      /\ ~freed /\ ~freed' /\ s > seqNext
  BY DEF CommitAhead, IInv, TypeOK, CloseState, writer
<1>2. Moves(req, Reply(s, a, "ok"), s, a) /\ Reply(s, a, "ok") \in Requests
  BY <1>1, ReplyMoves, ReplyFact, Ranges
<1>3. PICK r \in Requests : r = Reply(s, a, "ok")
  BY <1>2
<1>4. Release(req[s][a].n - size[s], 0, r) /\ Moves(req, r, s, a)
  BY <1>2, <1>3 DEF CommitAhead
<1>5. Moves(req, req', s, a)
  BY <1>4, MovesThenRelease
<1>6. Leaves(req, req', s, a) /\ Fewer(req, req') /\ Old(req, req')
  BY <1>1, <1>5 DEF Moves
<1>7. resident' = resident - (req[s][a].n - size[s]) /\ slots' = slots - 0
  BY <1>1, <1>4 DEF Release
<1>8. req[s][a].ahead /\ size[s] <= req[s][a].n
  <2>1. seqNext \in Int /\ s \in Int
    BY UpConstants DEF IInv, TypeOK, Writes
  <2>2. ~(s <= seqNext)
    BY <1>1, <2>1
  <2> QED BY <1>1, <2>2 DEF BudgetInv, Rooms
<1>9. /\ Promised(HeldIn(req), req) = Promised(HeldIn(req'), req') + req[s][a].n
      /\ Cardinality(HeldIn(req)) = Cardinality(HeldIn(req')) + 1
      /\ Promised(EarlyIn(req), req) = Promised(EarlyIn(req'), req') + req[s][a].n
      /\ Cardinality(EarlyIn(req)) = Cardinality(EarlyIn(req')) + 1
  BY <1>1, <1>6, <1>8, LeavesTables DEF IInv, TypeOK
<1>10. Numbers /\ Numbers' /\ req[s][a].n \in Nat /\ size[s] \in Nat
  <2>1. Numbers /\ Numbers'
    BY NumbersHold, NumbersNext
  <2>2. req \in Requests /\ size \in [Writes -> 0..MaxUpload] /\ MaxUpload \in Nat
    BY UpConstants DEF IInv, TypeOK
  <2>3. size[s] \in Nat
    BY <2>2
  <2>4. req[s][a].n \in Nat
    BY <2>2 DEF Requests
  <2> QED BY <2>1, <2>3, <2>4
<1>11. /\ BytesOf(seqHeld', size) = BytesOf(seqHeld, size) + size[s]
       /\ Cardinality(seqHeld') = Cardinality(seqHeld) + 1
  <2>1. SizesOk(size)
    BY <1>10 DEF Numbers
  <2> QED BY <1>1, <2>1, HeldMore
<1>a. PICK u \in Nat, w \in Nat, w2 \in Nat, h \in Nat, h2 \in Nat, e \in Nat, e2 \in Nat :
         /\ u = BytesOf((acked + 1)..(seqNext - 1), size)
         /\ w = BytesOf(seqHeld, size) /\ w2 = BytesOf(seqHeld', size)
         /\ h = Promised(HeldIn(req), req) /\ h2 = Promised(HeldIn(req'), req')
         /\ e = Promised(EarlyIn(req), req) /\ e2 = Promised(EarlyIn(req'), req')
  BY <1>1, <1>10, Zenon DEF Numbers
<1>b. PICK cw \in Nat, cw2 \in Nat, ch \in Nat, ch2 \in Nat, ce \in Nat, ce2 \in Nat :
         /\ cw = Cardinality(seqHeld) /\ cw2 = Cardinality(seqHeld')
         /\ ch = Cardinality(HeldIn(req)) /\ ch2 = Cardinality(HeldIn(req'))
         /\ ce = Cardinality(EarlyIn(req)) /\ ce2 = Cardinality(EarlyIn(req'))
  BY <1>10, Zenon DEF Numbers
<1>c. PICK cu \in Int, n \in Nat, z \in Nat, room \in Int, full \in Int :
         /\ cu = (seqNext - 1) - taken /\ n = req[s][a].n /\ z = size[s]
         /\ room = Limit - MaxUpload /\ full = QueueChunks - 1
  <2>1. (seqNext - 1) - taken \in Int /\ Limit - MaxUpload \in Int /\ QueueChunks - 1 \in Int
    BY <1>10 DEF Numbers
  <2> QED BY <1>10, <2>1, Zenon
<1>d. /\ resident = u + w + h /\ slots = cu + cw + ch /\ resident <= Limit /\ slots <= QueueChunks
      /\ w + e <= room /\ cw + ce <= full
      /\ resident' = resident - (n - z) /\ slots' = slots - 0
      /\ h = h2 + n /\ ch = ch2 + 1 /\ e = e2 + n /\ ce = ce2 + 1 /\ w2 = w + z /\ cw2 = cw + 1 /\ z <= n
  BY <1>1, <1>7, <1>8, <1>9, <1>11, <1>a, <1>b, <1>c, Zenon DEF BudgetInv, Exact, Gap
<1>e. /\ resident' = u + w2 + h2 /\ slots' = cu + cw2 + ch2
      /\ resident' <= Limit /\ slots' <= QueueChunks
      /\ w2 + e2 <= room /\ cw2 + ce2 <= full
  BY <1>d, UpConstants
<1>12. Exact'
  BY <1>1, <1>a, <1>b, <1>c, <1>e, Zenon DEF Exact
<1>13. Gap'
  BY <1>1, <1>a, <1>b, <1>c, <1>e, Zenon DEF Gap
<1>14. Places' /\ Tries'
  BY <1>1, <1>6, TriesStay DEF BudgetInv, Places
<1>15. Rooms'
  <2>1. SizesStay /\ seqNext <= seqNext'
    BY <1>1, UpConstants DEF SizesStay, IInv, TypeOK
  <2> QED BY <1>6, <2>1, RoomsStay DEF BudgetInv
<1> QED BY <1>12, <1>13, <1>14, <1>15 DEF BudgetInv

\* The bytes of a run, and of the two it is cut into.
LEMMA BytesRange ==
    ASSUME NEW i \in Nat, NEW j \in Nat, NEW k \in Nat, i <= j, j <= k, NEW sz, SizesOk(sz)
    PROVE  BytesOf((i + 1)..k, sz) = BytesOf((i + 1)..j, sz) + BytesOf((j + 1)..k, sz)
<1>1. PICK S : S = (i + 1)..j
  OBVIOUS
<1>2. PICK T : T = (j + 1)..k
  OBVIOUS
<1>3. PICK U : U = (i + 1)..k
  OBVIOUS
<1>4. S \cap T = {} /\ U = S \cup T
  BY <1>1, <1>2, <1>3
<1>5. BytesOf(U, sz) = BytesOf(S, sz) + BytesOf(T, sz)
  BY <1>4, BytesApart
<1> QED BY <1>1, <1>2, <1>3, <1>5, Zenon

\* A run with one write in the middle.
LEMMA BytesNextRange ==
    ASSUME NEW i \in Nat, NEW s \in Writes, NEW k \in Nat, i < s, s <= k, NEW sz, SizesOk(sz)
    PROVE  BytesOf((i + 1)..k, sz) = (BytesOf((i + 1)..(s - 1), sz) + sz[s]) + BytesOf((s + 1)..k, sz)
<1>1. PICK j \in Nat : j = s - 1 /\ s \in Nat /\ j + 1 = s /\ i <= j /\ j <= s
  BY UpConstants DEF Writes
<1>a. PICK t \in Nat : t = s
  BY <1>1
<1>b. i <= j /\ j <= t /\ i <= t /\ t <= k
  BY <1>1, <1>a
<1>2. BytesOf((i + 1)..s, sz) = BytesOf((i + 1)..j, sz) + BytesOf((j + 1)..s, sz)
  <2>1. BytesOf((i + 1)..t, sz) = BytesOf((i + 1)..j, sz) + BytesOf((j + 1)..t, sz)
    BY <1>b, BytesRange
  <2> QED BY <1>a, <2>1, Zenon
<1>3. BytesOf((i + 1)..k, sz) = BytesOf((i + 1)..s, sz) + BytesOf((s + 1)..k, sz)
  <2>1. BytesOf((i + 1)..k, sz) = BytesOf((i + 1)..t, sz) + BytesOf((t + 1)..k, sz)
    BY <1>b, BytesRange
  <2> QED BY <1>a, <2>1, Zenon
<1>4. (j + 1)..s = {s}
  BY <1>1
<1>5. BytesOf((j + 1)..s, sz) = sz[s]
  BY <1>4, BytesOne, Zenon
<1> QED BY <1>1, <1>2, <1>3, <1>5, Zenon

\* A write in its place takes the held run behind it along: their bytes move from
\* what is held to what is unread.
LEMMA CommitNextBudget ==
    ASSUME IInv, IInv', BudgetInv, NEW s \in Writes, NEW a \in Attempts, CommitNext(s, a)
    PROVE  BudgetInv'
<1>1. /\ UNCHANGED <<taken, acked, freed, slots>> /\ UNCHANGED writer
      /\ req[s][a].ph = "held" /\ req \in Requests /\ seqHeld \in SUBSET Writes /\ size' = size
      /\ ~freed /\ ~freed' /\ s = seqNext
      /\ resident' = resident - (req[s][a].n - size[s])
      /\ req' = Woken(Reply(s, a, "ok"))
  BY DEF CommitNext, IInv, TypeOK, CloseState, writer
<1>2. PICK m \in (s + 1)..(MaxWrites + 1) :
        /\ \A j \in (s + 1)..(m - 1) : j \in seqHeld
        /\ seqNext' = m /\ seqHeld' = seqHeld \ ((s + 1)..(m - 1))
  BY DEF CommitNext
<1>3. Moves(req, Reply(s, a, "ok"), s, a) /\ Reply(s, a, "ok") \in Requests
  BY <1>1, ReplyMoves, ReplyFact, Ranges
<1>4. PICK r \in Requests : r = Reply(s, a, "ok")
  BY <1>3
<1>5. Moves(req, r, s, a) /\ Fewer(r, req') /\ Old(r, req') /\ Alike(r, req')
  BY <1>1, <1>3, <1>4, WokenMoves
<1>6. Leaves(req, req', s, a) /\ Fewer(req, req') /\ Old(req, req')
  BY <1>1, <1>5, FewerThen, AlikeThen DEF Moves
<1>7. /\ Promised(HeldIn(req), req) = Promised(HeldIn(req'), req') + req[s][a].n
      /\ Cardinality(HeldIn(req)) = Cardinality(HeldIn(req')) + 1
      /\ \/ /\ Promised(EarlyIn(req), req) = Promised(EarlyIn(req'), req') + req[s][a].n
            /\ Cardinality(EarlyIn(req)) = Cardinality(EarlyIn(req')) + 1
         \/ /\ Promised(EarlyIn(req), req) = Promised(EarlyIn(req'), req')
            /\ Cardinality(EarlyIn(req)) = Cardinality(EarlyIn(req'))
  <2>1. /\ Promised(HeldIn(req), req) = Promised(HeldIn(req'), req') + req[s][a].n
        /\ Cardinality(HeldIn(req)) = Cardinality(HeldIn(req')) + 1
        /\ req[s][a].ahead => /\ Promised(EarlyIn(req), req) = Promised(EarlyIn(req'), req') + req[s][a].n
                              /\ Cardinality(EarlyIn(req)) = Cardinality(EarlyIn(req')) + 1
        /\ ~req[s][a].ahead => /\ Promised(EarlyIn(req), req) = Promised(EarlyIn(req'), req')
                               /\ Cardinality(EarlyIn(req)) = Cardinality(EarlyIn(req'))
    BY <1>1, <1>6, LeavesTables DEF IInv, TypeOK
  <2> QED BY <2>1, Zenon
<1>8. Numbers /\ Numbers' /\ req[s][a].n \in Nat /\ size[s] \in Nat /\ size[s] <= req[s][a].n
  <2>1. Numbers /\ Numbers'
    BY NumbersHold, NumbersNext
  <2>2. req \in Requests /\ size \in [Writes -> 0..MaxUpload] /\ MaxUpload \in Nat
    BY UpConstants DEF IInv, TypeOK
  <2>3. size[s] \in Nat
    BY <2>2
  <2>4. req[s][a].n \in Nat
    BY <2>2 DEF Requests
  <2> QED BY <1>1, <2>1, <2>3, <2>4 DEF BudgetInv, Rooms
<1>9. PICK k \in Nat : k = m - 1 /\ s \in Nat /\ s <= k /\ m = k + 1
  BY <1>2, UpConstants DEF Writes
<1>10. acked < s /\ acked \in Nat /\ taken \in Nat /\ taken <= seqNext - 1
  <2>1. acked \in Nat /\ taken \in Nat /\ seqNext \in Nat
    BY <1>8, Zenon DEF Numbers
  <2>2. acked <= taken /\ taken <= seqNext - 1
    BY DEF BudgetInv, Places
  <2> QED BY <1>1, <2>1, <2>2
<1>11. /\ BytesOf(seqHeld, size) = BytesOf(seqHeld', size) + BytesOf((s + 1)..k, size)
       /\ Cardinality(seqHeld) = Cardinality(seqHeld') + (k - s)
  <2>1. (s + 1)..k \subseteq seqHeld /\ seqHeld' = seqHeld \ ((s + 1)..k)
    BY <1>2, <1>9
  <2>2. SizesOk(size)
    BY <1>8 DEF Numbers
  <2>3. PICK S \in SUBSET Writes : S = seqHeld
    BY <1>1
  <2>4. (s + 1)..k \subseteq S /\ s \in Nat /\ s <= k
    BY <1>9, <2>1, <2>3
  <2>5. /\ BytesOf(S, size) = BytesOf(S \ ((s + 1)..k), size) + BytesOf((s + 1)..k, size)
        /\ Cardinality(S) = Cardinality(S \ ((s + 1)..k)) + (k - s)
    BY <2>2, <2>4, HeldLess
  <2> QED BY <2>1, <2>3, <2>5, Zenon
<1>12. BytesOf((acked + 1)..k, size) = (BytesOf((acked + 1)..(s - 1), size) + size[s]) + BytesOf((s + 1)..k, size)
  <2>1. SizesOk(size)
    BY <1>8 DEF Numbers
  <2> QED BY <1>9, <1>10, <2>1, BytesNextRange
<1>a. PICK u \in Nat, u2 \in Nat, q \in Nat, w \in Nat, w2 \in Nat, h \in Nat, h2 \in Nat, e \in Nat, e2 \in Nat :
         /\ u = BytesOf((acked + 1)..(s - 1), size) /\ u2 = BytesOf((acked + 1)..k, size)
         /\ q = BytesOf((s + 1)..k, size)
         /\ w = BytesOf(seqHeld, size) /\ w2 = BytesOf(seqHeld', size)
         /\ h = Promised(HeldIn(req), req) /\ h2 = Promised(HeldIn(req'), req')
         /\ e = Promised(EarlyIn(req), req) /\ e2 = Promised(EarlyIn(req'), req')
  <2>1. SizesOk(size)
    BY <1>8 DEF Numbers
  <2>2. /\ BytesOf((acked + 1)..(s - 1), size) \in Nat /\ BytesOf((acked + 1)..k, size) \in Nat
        /\ BytesOf((s + 1)..k, size) \in Nat /\ BytesOf(seqHeld, size) \in Nat /\ BytesOf(seqHeld', size) \in Nat
    BY <2>1, BytesNat, Zenon
  <2> QED BY <1>8, <2>2, Zenon DEF Numbers
<1>b. PICK cw \in Nat, cw2 \in Nat, ch \in Nat, ch2 \in Nat, ce \in Nat, ce2 \in Nat :
         /\ cw = Cardinality(seqHeld) /\ cw2 = Cardinality(seqHeld')
         /\ ch = Cardinality(HeldIn(req)) /\ ch2 = Cardinality(HeldIn(req'))
         /\ ce = Cardinality(EarlyIn(req)) /\ ce2 = Cardinality(EarlyIn(req'))
  BY <1>8, Zenon DEF Numbers
<1>c. PICK n \in Nat, z \in Nat, room \in Int, full \in Int :
         /\ n = req[s][a].n /\ z = size[s]
         /\ room = Limit - MaxUpload /\ full = QueueChunks - 1
  <2>1. Limit - MaxUpload \in Int /\ QueueChunks - 1 \in Int
    BY <1>8 DEF Numbers
  <2> QED BY <1>8, <2>1, Zenon
<1>d. /\ resident = u + w + h /\ slots = ((s - 1) - taken) + cw + ch /\ resident <= Limit /\ slots <= QueueChunks
      /\ w + e <= room /\ cw + ce <= full
  BY <1>1, <1>a, <1>b, <1>c, Zenon DEF BudgetInv, Exact, Gap
<1>e. /\ resident' = resident - (n - z) /\ slots' = slots
      /\ h = h2 + n /\ ch = ch2 + 1
      /\ \/ e = e2 + n /\ ce = ce2 + 1
         \/ e = e2 /\ ce = ce2
      /\ w = w2 + q /\ cw = cw2 + (k - s) /\ z <= n /\ u2 = (u + z) + q
  BY <1>1, <1>7, <1>8, <1>11, <1>12, <1>a, <1>b, <1>c, Zenon
<1>f. /\ resident' = u2 + w2 + h2 /\ resident' <= Limit
      /\ slots' = (k - taken) + cw2 + ch2 /\ slots' <= QueueChunks
      /\ w2 + e2 <= room /\ cw2 + ce2 <= full
  BY <1>d, <1>e, <1>9, <1>10, UpConstants
<1>13. seqNext' - 1 = k /\ acked' = acked /\ taken' = taken
  BY <1>1, <1>2, <1>9
<1>14. Exact'
  BY <1>1, <1>13, <1>a, <1>b, <1>f, Zenon DEF Exact
<1>15. Gap'
  BY <1>1, <1>a, <1>b, <1>c, <1>f, Zenon DEF Gap
<1>16. Places'
  BY <1>1, <1>9, <1>10, <1>13 DEF BudgetInv, Places
<1>17. Tries'
  BY <1>1, <1>6, TriesStay DEF BudgetInv
<1>18. Rooms'
  <2>1. SizesStay /\ seqNext <= seqNext'
    BY <1>1, <1>2, <1>9 DEF SizesStay
  <2> QED BY <1>6, <2>1, RoomsStay DEF BudgetInv
<1> QED BY <1>14, <1>15, <1>16, <1>17, <1>18 DEF BudgetInv

\* A drained chunk gives its slot back, its bytes stay counted.
LEMMA DrainBudget ==
    ASSUME IInv, IInv', BudgetInv, NEW k \in Writes, Drain(k)
    PROVE  BudgetInv'
<1>1. /\ UNCHANGED <<seqNext, seqHeld, acked, freed>> /\ UNCHANGED writer
      /\ req \in Requests /\ size' = size /\ ~freed /\ ~freed' /\ Release(0, k, req)
      /\ taken' = taken + k /\ k >= 1 /\ taken + k <= Len(stream)
  BY DEF Drain, IInv, TypeOK, writer
<1>2. Fewer(req, req') /\ Old(req, req') /\ Alike(req, req')
  BY <1>1, ReleaseMoves
<1>3. resident' = resident - 0 /\ slots' = slots - k
  BY <1>1 DEF Release
<1>4. /\ HeldIn(req') = HeldIn(req) /\ EarlyIn(req') = EarlyIn(req)
      /\ Promised(HeldIn(req'), req') = Promised(HeldIn(req), req)
      /\ Promised(EarlyIn(req'), req') = Promised(EarlyIn(req), req)
  BY <1>2, AlikeTables, Zenon
<1>5. Numbers /\ Numbers'
  BY NumbersHold, NumbersNext
<1>6. Len(stream) = seqNext - 1 /\ seqNext \in Nat /\ taken \in Nat /\ acked \in Nat /\ k \in Nat /\ acked <= taken
  BY UpConstants DEF IInv, TypeOK, StreamInOrder, Writes, BudgetInv, Places
<1>7. Places'
  BY <1>1, <1>6 DEF Places
<1>a. PICK u \in Nat, cw \in Nat, ch \in Nat, w \in Nat, h \in Nat :
         /\ u = BytesOf((acked + 1)..(seqNext - 1), size) /\ w = BytesOf(seqHeld, size)
         /\ h = Promised(HeldIn(req), req)
         /\ cw = Cardinality(seqHeld) /\ ch = Cardinality(HeldIn(req))
  BY <1>5, Zenon DEF Numbers
<1>8. /\ resident = u + w + h /\ slots = ((seqNext - 1) - taken) + cw + ch
      /\ resident <= Limit /\ slots <= QueueChunks
  BY <1>1, <1>a, Zenon DEF BudgetInv, Exact
<1>9. /\ resident' = u + w + h /\ slots' = ((seqNext - 1) - taken') + cw + ch
      /\ resident' <= Limit /\ slots' <= QueueChunks
  BY <1>1, <1>3, <1>6, <1>8, UpConstants
<1>10. Exact'
  BY <1>1, <1>4, <1>9, <1>a, Zenon DEF Exact
<1>11. Gap'
  BY <1>1, <1>4, Zenon DEF BudgetInv, Gap
<1>12. Tries'
  BY <1>1, <1>2, TriesStay DEF BudgetInv
<1>13. Rooms'
  <2>1. SizesStay /\ seqNext <= seqNext'
    BY <1>1, <1>6 DEF SizesStay
  <2> QED BY <1>2, <2>1, RoomsStay DEF BudgetInv
<1> QED BY <1>7, <1>10, <1>11, <1>12, <1>13 DEF BudgetInv

\* What is acknowledged gives its bytes back.
LEMMA AckBudget ==
    ASSUME IInv, IInv', BudgetInv, Ack
    PROVE  BudgetInv'
<1>1. /\ UNCHANGED <<seqNext, seqHeld, taken, freed>> /\ UNCHANGED writer
      /\ req \in Requests /\ size' = size /\ ~freed /\ ~freed' /\ acked' = taken
      /\ Release(Bytes({stream[i] : i \in (acked + 1)..taken}), 0, req)
  BY DEF Ack, IInv, TypeOK, writer
<1>2. Fewer(req, req') /\ Old(req, req') /\ Alike(req, req')
  BY <1>1, ReleaseMoves
<1>3. seqNext \in Nat /\ taken \in Nat /\ acked \in Nat /\ acked <= taken /\ taken <= seqNext - 1
      /\ seqNext - 1 \in Nat /\ SizesOk(size)
  <2>1. Numbers
    BY NumbersHold
  <2> QED BY <2>1 DEF Numbers, BudgetInv, Places
<1>4. Bytes({stream[i] : i \in (acked + 1)..taken}) = BytesOf((acked + 1)..taken, size)
  <2>1. {stream[i] : i \in (acked + 1)..taken} = (acked + 1)..taken
    BY <1>3, StreamWrites
  <2>2. Bytes((acked + 1)..taken) = BytesOf((acked + 1)..taken, size)
    BY DEF Bytes, BytesOf
  <2> QED BY <2>1, <2>2, Zenon
<1>5. resident' = resident - BytesOf((acked + 1)..taken, size) /\ slots' = slots - 0
  <2>1. /\ resident' = resident - Bytes({stream[i] : i \in (acked + 1)..taken})
        /\ slots' = slots - 0
    BY <1>1 DEF Release
  <2> QED BY <1>4, <2>1, Zenon
<1>6. /\ HeldIn(req') = HeldIn(req) /\ EarlyIn(req') = EarlyIn(req)
      /\ Promised(HeldIn(req'), req') = Promised(HeldIn(req), req)
      /\ Promised(EarlyIn(req'), req') = Promised(EarlyIn(req), req)
  BY <1>2, AlikeTables, Zenon
<1>7. Numbers /\ Numbers'
  BY NumbersHold, NumbersNext
<1>8. BytesOf((acked + 1)..(seqNext - 1), size)
        = BytesOf((acked + 1)..taken, size) + BytesOf((taken + 1)..(seqNext - 1), size)
  <2>1. PICK j \in Nat : j = seqNext - 1
    BY <1>3
  <2>2. BytesOf((acked + 1)..j, size) = BytesOf((acked + 1)..taken, size) + BytesOf((taken + 1)..j, size)
    BY <1>3, <2>1, BytesRange
  <2> QED BY <2>1, <2>2, Zenon
<1>9. BytesOf((acked + 1)..taken, size) \in Nat /\ BytesOf((taken + 1)..(seqNext - 1), size) \in Nat
  BY <1>3, BytesNat, Zenon
<1>a. PICK u \in Nat, v \in Nat, v2 \in Nat, w \in Nat, h \in Nat, cw \in Nat, ch \in Nat :
         /\ u = BytesOf((acked + 1)..(seqNext - 1), size)
         /\ v = BytesOf((acked + 1)..taken, size) /\ v2 = BytesOf((taken + 1)..(seqNext - 1), size)
         /\ w = BytesOf(seqHeld, size) /\ h = Promised(HeldIn(req), req)
         /\ cw = Cardinality(seqHeld) /\ ch = Cardinality(HeldIn(req))
  BY <1>7, <1>9, Zenon DEF Numbers
<1>b. /\ resident = u + w + h /\ slots = ((seqNext - 1) - taken) + cw + ch
      /\ resident <= Limit /\ slots <= QueueChunks
      /\ u = v + v2 /\ resident' = resident - v /\ slots' = slots - 0
  BY <1>1, <1>5, <1>8, <1>a, Zenon DEF BudgetInv, Exact
<1>c. /\ resident' = v2 + w + h /\ slots' = ((seqNext - 1) - taken) + cw + ch
      /\ resident' <= Limit /\ slots' <= QueueChunks
  BY <1>3, <1>b, UpConstants
<1>10. Exact'
  BY <1>1, <1>6, <1>a, <1>c, Zenon DEF Exact
<1>11. Gap'
  BY <1>1, <1>6, Zenon DEF BudgetInv, Gap
<1>12. Places'
  BY <1>1, <1>3 DEF Places
<1>13. Tries'
  BY <1>1, <1>2, TriesStay DEF BudgetInv
<1>14. Rooms'
  <2>1. SizesStay /\ seqNext <= seqNext'
    BY <1>1, <1>3 DEF SizesStay
  <2> QED BY <1>2, <2>1, RoomsStay DEF BudgetInv
<1> QED BY <1>10, <1>11, <1>12, <1>13, <1>14 DEF BudgetInv

\* A freed queue counts nothing.
LEMMA FreeBudget ==
    ASSUME IInv, IInv', BudgetInv, Free
    PROVE  BudgetInv'
<1>1. /\ UNCHANGED <<seqNext, taken, acked>> /\ UNCHANGED writer /\ req \in Requests
      /\ freed' /\ seqHeld' = {} /\ resident' = 0 /\ slots' = 0 /\ req' = Woken(req) /\ size' = size
  BY DEF Free, IInv, TypeOK, writer
<1>2. Fewer(req, req') /\ Old(req, req') /\ Alike(req, req')
  BY <1>1, WokenMoves
<1>3. EarlyIn(req') = EarlyIn(req) /\ Promised(EarlyIn(req'), req') = Promised(EarlyIn(req), req)
  BY <1>2, AlikeTables, Zenon
<1>4. Numbers
  BY NumbersHold
<1>5. Exact'
  <2>1. 0 <= Limit /\ 0 <= QueueChunks
    BY <1>4 DEF Numbers
  <2> QED BY <1>1, <2>1 DEF Exact
<1>6. BytesOf(seqHeld', size) = 0 /\ Cardinality(seqHeld') = 0
  <2>1. SizesOk(size)
    BY <1>4 DEF Numbers
  <2> QED BY <1>1, <2>1, BytesNone, FS_EmptySet
<1>a. PICK w \in Nat, e \in Nat, cw \in Nat, ce \in Nat, room \in Int, full \in Int :
         /\ w = BytesOf(seqHeld, size) /\ e = Promised(EarlyIn(req), req)
         /\ cw = Cardinality(seqHeld) /\ ce = Cardinality(EarlyIn(req))
         /\ room = Limit - MaxUpload /\ full = QueueChunks - 1
  <2>1. Limit - MaxUpload \in Int /\ QueueChunks - 1 \in Int
    BY <1>4 DEF Numbers
  <2> QED BY <1>4, <2>1, Zenon DEF Numbers
<1>b. w + e <= room /\ cw + ce <= full
  BY <1>a, Zenon DEF BudgetInv, Gap
<1>c. 0 + e <= room /\ 0 + ce <= full
  BY <1>b
<1>7. Gap'
  BY <1>1, <1>3, <1>6, <1>a, <1>c, Zenon DEF Gap
<1>8. Places' /\ Tries'
  BY <1>1, <1>2, TriesStay DEF BudgetInv, Places
<1>9. Rooms'
  <2>1. SizesStay /\ seqNext <= seqNext'
    BY <1>1, <1>4 DEF SizesStay, Numbers
  <2> QED BY <1>2, <2>1, RoomsStay DEF BudgetInv
<1> QED BY <1>5, <1>7, <1>8, <1>9 DEF BudgetInv

\* A close frees nothing.
LEMMA CloseBudget ==
    ASSUME IInv, IInv', BudgetInv, CloseArrives \/ FarClose
    PROVE  BudgetInv'
<1>1. UNCHANGED <<seqNext, seqHeld, taken, acked, resident, slots, freed>> /\ UNCHANGED writer /\ req' = req
  BY DEF CloseArrives, FarClose
<1>2. Fewer(req, req') /\ Old(req, req') /\ Alike(req, req')
  BY <1>1, SameMoves
<1> QED BY <1>1, <1>2, QuietRelayBudget

\* A step that changes nothing.
LEMMA StutterBudget ==
    ASSUME IInv, IInv', BudgetInv, UNCHANGED vars
    PROVE  BudgetInv'
<1>1. UNCHANGED <<seqNext, seqHeld, taken, acked, resident, slots, freed>> /\ UNCHANGED writer /\ req' = req
  BY DEF vars, writer
<1>2. Fewer(req, req') /\ Old(req, req') /\ Alike(req, req')
  BY <1>1, SameMoves
<1> QED BY <1>1, <1>2, QuietRelayBudget

\* The sum of zeros.
LEMMA TotalZero ==
    ASSUME NEW n \in Nat, NEW c, c = [k \in 1..n |-> 0]
    PROVE  Total(c, n) = 0
<1>1. c \in [1..n -> Nat] /\ (\A k \in 1..n : c[k] = c[k] + c[k])
  OBVIOUS
<1>2. Total(c, n) = Total(c, n) + Total(c, n)
  BY <1>1, TotalSum
<1>3. Total(c, n) \in Nat
  BY <1>1, TotalNat
<1>4. PICK x : x = Total(c, n)
  OBVIOUS
<1>5. x = x + x /\ x \in Nat
  BY <1>2, <1>3, <1>4, Zenon
<1>6. x = 0
  BY <1>5
<1> QED BY <1>4, <1>6, Zenon

\* Nothing is promised to nobody.
LEMMA PromisedNone ==
    ASSUME NEW r
    PROVE  Promised({}, r) = 0
<1>1. UpAttempts \in Nat /\ MaxWrites \in Nat
  BY UpConstants
<1>2. ASSUME NEW s \in Writes PROVE Total(Row({}, r, s), UpAttempts) = 0
  <2>1. Row({}, r, s) = [k \in 1..UpAttempts |-> 0]
    BY DEF Row, Attempts
  <2> QED BY <1>1, <2>1, TotalZero, Zenon
<1>3. Rows({}, r) = [k \in 1..MaxWrites |-> 0]
  BY <1>2 DEF Rows, Writes
<1> QED BY <1>1, <1>3, TotalZero, Zenon DEF Promised

\* A new queue holds nothing and has promised nothing.
LEMMA InitBudget == Init => BudgetInv
<1> SUFFICES ASSUME Init PROVE BudgetInv
  OBVIOUS
<1>1. \A w \in Writes : \A b \in Attempts : req[w][b].ph = "none"
  BY DEF Init, NoReq
<1>2. HeldIn(req) = {} /\ EarlyIn(req) = {}
  BY <1>1 DEF HeldIn, EarlyIn
<1>3. Promised(HeldIn(req), req) = 0 /\ Promised(EarlyIn(req), req) = 0
  BY <1>2, PromisedNone, Zenon
<1>4. IInv
  BY InitInv
<1>5. Numbers
  BY <1>4, NumbersHold
<1>6. BytesOf(seqHeld, size) = 0 /\ BytesOf((acked + 1)..(seqNext - 1), size) = 0
  <2>1. SizesOk(size)
    BY <1>5 DEF Numbers
  <2>2. seqHeld = {} /\ (acked + 1)..(seqNext - 1) = {}
    BY DEF Init
  <2> QED BY <2>1, <2>2, BytesNone, Zenon
<1>7. Cardinality(seqHeld) = 0 /\ Cardinality(HeldIn(req)) = 0 /\ Cardinality(EarlyIn(req)) = 0
  <2>1. seqHeld = {}
    BY DEF Init
  <2> QED BY <1>2, <2>1, FS_EmptySet, Zenon
<1>8. Limit \in Nat /\ QueueChunks \in Nat /\ QueueChunks >= 1 /\ MaxUpload \in Nat /\ MaxUpload <= Limit
  BY <1>5 DEF Numbers
<1>9. Exact
  BY <1>3, <1>6, <1>7, <1>8 DEF Exact, Init
<1>10. Gap
  BY <1>3, <1>6, <1>7, <1>8 DEF Gap
<1>11. Tries /\ Rooms /\ Places
  BY <1>1 DEF Init, Tries, Rooms, Places
<1> QED BY <1>9, <1>10, <1>11 DEF BudgetInv

\* Every step keeps the budget.
LEMMA NextBudget == IInv /\ BudgetInv /\ [Next]_vars => BudgetInv'
<1> SUFFICES ASSUME IInv, BudgetInv, [Next]_vars PROVE BudgetInv'
  OBVIOUS
<1>1. IInv'
  BY NextInv
<1>2. ASSUME NEW n \in Sizes, Send(n) PROVE BudgetInv'
  BY <1>1, <1>2, SendBudget, Ranges
<1>3. ASSUME NEW n \in 0..MaxUpload, CloseConn(n) PROVE BudgetInv'
  BY <1>1, <1>3, SendBudget
<1>4. ASSUME NEW s \in Writes, Post(s) PROVE BudgetInv'
  BY <1>1, <1>4, PostBudget
<1>5. ASSUME NEW s \in Writes, Answer(s) \/ (\E arrives \in BOOLEAN : CarrierFails(s, arrives)) PROVE BudgetInv'
  BY <1>1, <1>5, AnswerBudget
<1>6. CASE SendClose
  BY <1>1, <1>6, SendCloseBudget
<1>7. ASSUME NEW s \in Writes, NEW a \in Attempts,
             \/ RefuseClosed(s, a) \/ CheckSeq(s, a)
             \/ (\E n \in Sizes : TryReserve(s, a, n))
             \/ AwaitEnds(s, a) \/ BodyFails(s, a)
             \/ CommitRefused(s, a) \/ CommitAhead(s, a) \/ CommitNext(s, a)
      PROVE  BudgetInv'
  BY <1>1, <1>7, CheckBudget, ReserveBudget, BackBudget, CommitAheadBudget, CommitNextBudget
<1>8. CASE CloseArrives \/ FarClose
  BY <1>1, <1>8, CloseBudget
<1>9. CASE Free
  BY <1>1, <1>9, FreeBudget
<1>10. CASE Ack
  BY <1>1, <1>10, AckBudget
<1>11. ASSUME NEW k \in Writes, Drain(k) PROVE BudgetInv'
  BY <1>1, <1>11, DrainBudget
<1>12. CASE UNCHANGED vars
  BY <1>1, <1>12, StutterBudget
<1> QED
  BY <1>2, <1>3, <1>4, <1>5, <1>6, <1>7, <1>8, <1>9, <1>10, <1>11, <1>12
     DEF Next, WriterStep, WriterWork, RelayWork, ReaderStep

-----------------------------------------------------------------------------
(* Theorems *)

\* The inductive invariant holds in every reachable state.
THEOREM Invariance == Spec => []IInv
<1>1. Init => IInv
  BY InitInv
<1>2. IInv /\ [Next]_vars => IInv'
  BY NextInv
<1> QED
  BY <1>1, <1>2, PTL DEF Spec

\* The model is type correct.
THEOREM TypeCorrect == Spec => []TypeOK
<1>1. IInv => TypeOK
  BY DEF IInv
<1> QED
  BY <1>1, Invariance, PTL

\* sideQueue.commitSeq builds the stream of writes 1, 2, 3, ... whatever the
\* carrier does to the requests.
THEOREM InOrder == Spec => []StreamInOrder
<1>1. IInv => StreamInOrder
  BY DEF IInv
<1> QED
  BY <1>1, Invariance, PTL

\* A write that was answered 200 is in the stream, held for its place, or was
\* dropped with its session.
THEOREM NothingAckedIsLost == Spec => []AckedNotLost
<1>1. IInv => AckedNotLost
  BY DEF IInv
<1> QED
  BY <1>1, Invariance, PTL

\* The writer's close ends a complete stream unless a write is known to have
\* failed.
THEOREM CloseIsComplete == Spec => []CompleteAtClose
<1>1. IInv => CompleteAtClose
  BY DEF IInv
<1> QED
  BY <1>1, Invariance, PTL

\* The write half of the carrier implements the abstract stream of writes.
THEOREM Refines == Spec => ImplementsStream
<1>1. Init => Stream!Init
  BY DEF Init, Stream!Init, StreamEnd
<1>2. IInv /\ IInv' /\ [Next]_vars => [Stream!Next]_(Stream!sv)
  BY StepRefines
<1> QED
  BY <1>1, <1>2, Invariance, PTL DEF Spec, ImplementsStream, Stream!Spec

\* The budget's invariant holds in every reachable state.
THEOREM BudgetInvariance == Spec => [](IInv /\ BudgetInv)
<1>1. Init => IInv /\ BudgetInv
  BY InitInv, InitBudget
<1>2. (IInv /\ BudgetInv) /\ [Next]_vars => (IInv /\ BudgetInv)'
  BY NextInv, NextBudget
<1> QED
  BY <1>1, <1>2, PTL DEF Spec

\* reserveLocked, unreserve, commitSeq and releaseLocked count every byte and
\* every chunk of a direction once: a queue that is not freed holds or has
\* promised exactly what it says, never more than its budget, and a freed one
\* nothing.
THEOREM BudgetIsExact == Spec => []BudgetExact
<1>1. IInv /\ BudgetInv => BudgetExact
  BY BudgetMeans
<1> QED
  BY <1>1, BudgetInvariance, PTL

\* However many writes wait ahead of the stream, and whatever room was promised
\* to others, reserveLocked leaves a slot and the bytes of the largest write
\* for the one that fills the gap.
THEOREM GapStaysFillable == Spec => []GapCanFill
<1>1. IInv /\ BudgetInv => GapCanFill
  BY BudgetMeans
<1> QED
  BY <1>1, BudgetInvariance, PTL

=============================================================================
