----------------------------- MODULE UpChannel -----------------------------
(***************************************************************************)
(* The write half of one direction of an HTTP-carried session: the writer  *)
(* (internal/httpconn, conn.sendLocked / post / Close) numbers its writes   *)
(* and keeps several POST /h/up in flight; the relay (internal/relay,       *)
(* acceptUpload, sideQueue.admitSeq / commitSeq) holds room for a write     *)
(* before it reads its body, takes it once, and puts it in its place in     *)
(* the stream.  Requests are lost, delayed, abandoned and retried.          *)
(*                                                                         *)
(* A write is its number; its bytes are a size.  The reader is the          *)
(* environment: it takes chunks out of the queue and acknowledges them      *)
(* (DownChannel models it).                                                 *)
(***************************************************************************)
EXTENDS Integers, Sequences, FiniteSets

CONSTANTS
    MaxWrites,    \* bound: writes one behaviour hands out, the close's tail included
    MaxUpload,    \* limits.RelayHTTPUploadBytes, in units of the model
    Limit,        \* maxResidentPerDirection, same units
    QueueChunks,  \* queueChunks: capacity of sideQueue.ch
    UpWindow,     \* upWindow: posts a writer keeps in flight
    BulkLanes,    \* laneCount - 1: connections full batches are striped over
    UpAttempts,   \* upAttempts
    MaxFaults     \* bound: carrier failures in one behaviour

ASSUME UpConstants ==
    /\ MaxWrites \in Nat \ {0} /\ MaxUpload \in Nat \ {0}
    /\ Limit \in Nat /\ QueueChunks \in Nat
    /\ UpWindow \in Nat \ {0} /\ BulkLanes \in Nat \ {0} /\ UpAttempts \in Nat \ {0}
    /\ MaxFaults \in Nat

\* The relay has MaxUpload = 1 (MiB), Limit = 32 and QueueChunks = 256: a window
\* of writes, the one it waits for and one to spare fit in the direction, in
\* bytes and in chunks.  WritesSettle rests on it.
ASSUME BudgetHoldsWindow ==
    /\ Limit >= 3 * MaxUpload
    /\ QueueChunks >= Limit \div MaxUpload

Writes == 1..MaxWrites
Sizes == 1..MaxUpload
Attempts == 1..UpAttempts

\* A window that keeps room for the missing write but not one more to spare.
WindowNoSpare == Limit \div MaxUpload - 1

\* seqWindowLocked: how far past the next expected write one may be.
Window == IF Limit \div MaxUpload - 2 >= 1 THEN Limit \div MaxUpload - 2 ELSE 1

(***************************************************************************)
(* A request of a write at the relay.  "none" until sent; "net" on its way  *)
(* in; "look" about to read the sequence again after a wait; "checked"      *)
(* between the sequence check and the reservation, which are two critical   *)
(* sections; "wait" parked on q.room; "held" with room reserved, its body   *)
(* being read; then the answer on its way back.                             *)
(***************************************************************************)
Answers == {"ok", "retry", "refused"}
Phases == {"none", "net", "look", "checked", "wait", "held", "lost"} \cup Answers

Requests == [Writes -> [Attempts -> [ph : Phases, ahead : BOOLEAN, n : 0..MaxUpload]]]

VARIABLES
    \* the writer
    upSeq,      \* sequence of the last write handed out
    size,       \* size[s]: bytes of write s
    upOrdered,  \* the relay has said it orders writes
    pc,         \* pc[s]: "none", "lane" (waiting for one), "wire", "done", "failed"
    attempt,    \* attempt[s]: which try of post is under way
    writeErr,   \* first upload failure, reported by every later call
    closing,    \* "no", "tail" (waiting for the posts), "tail0" (nothing left to send), "sent"
    tail,       \* the write that rides on /h/close, 0 if none
    \* the relay's queue
    req,        \* req[s, a]: the request of try a of write s
    seqNext,    \* the sequence expected next
    seqHeld,    \* writes waiting for the ones before them
    stream,     \* every write put in ch, in order
    taken,      \* how many of stream a reader has drained
    acked,      \* how many of those it has acknowledged
    resident,   \* bytes held or promised room
    slots,      \* chunks in ch or seqHeld, and writes promised a place
    done,       \* "open", "writer" (its close arrived) or "far" (the other side's did)
    freed,      \* free gave everything back; nothing is counted after it
    faults      \* carrier failures so far

writer == <<upSeq, size, upOrdered, pc, attempt, writeErr, closing, tail>>
queue == <<seqNext, seqHeld, stream, taken, acked, resident, slots, done, freed>>
vars == <<upSeq, size, upOrdered, pc, attempt, writeErr, closing, tail, req,
          seqNext, seqHeld, stream, taken, acked, resident, slots, done, freed,
          faults>>

NoReq == [ph |-> "none", ahead |-> FALSE, n |-> 0]

Init ==
    /\ upSeq = 0
    /\ size = [s \in Writes |-> 0]
    /\ upOrdered \in BOOLEAN          \* MarkOrdered, from /h/dial or /h/poll
    /\ pc = [s \in Writes |-> "none"]
    /\ attempt = [s \in Writes |-> 0]
    /\ writeErr = FALSE
    /\ closing = "no"
    /\ tail = 0
    /\ req = [s \in Writes |-> [a \in Attempts |-> NoReq]]
    /\ seqNext = 1
    /\ seqHeld = {}
    /\ stream = << >>
    /\ taken = 0
    /\ acked = 0
    /\ resident = 0
    /\ slots = 0
    /\ done = "open"
    /\ freed = FALSE
    /\ faults = 0

-----------------------------------------------------------------------------
(* The writer *)

\* Request a of write s is now in phase ph, with no room in hand.
SetReq(s, a, ph) == [req EXCEPT ![s][a] = [ph |-> ph, ahead |-> FALSE, n |-> 0]]

Posting == {s \in Writes : pc[s] \in {"lane", "wire"}}

\* A full batch travels on a bulk lane once writes are ordered, anything
\* smaller shares lane 0.
Striped(s) == upOrdered /\ size[s] = MaxUpload
LaneFree == Cardinality({s \in Writes : pc[s] = "wire" /\ s # tail /\ Striped(s)}) < BulkLanes

\* sendLocked: the next write gets its number.  Before the relay is known to
\* order writes it is posted in the foreground, holding writeM, so one at a
\* time; afterwards it only waits for one of upWindow slots.
Send(n) ==
    /\ closing = "no" /\ ~writeErr /\ upSeq < MaxWrites
    /\ Cardinality(Posting) < IF upOrdered THEN UpWindow ELSE 1
    /\ upSeq' = upSeq + 1
    /\ size' = [size EXCEPT ![upSeq + 1] = n]
    /\ pc' = [pc EXCEPT ![upSeq + 1] = "lane"]
    /\ attempt' = [attempt EXCEPT ![upSeq + 1] = 1]
    /\ UNCHANGED <<upOrdered, writeErr, closing, tail, req, faults>>
    /\ UNCHANGED queue

\* post, one try: acquireLane or reserveLaneZero, then the request goes out.
Post(s) ==
    /\ pc[s] = "lane"
    /\ Striped(s) => LaneFree
    /\ pc' = [pc EXCEPT ![s] = "wire"]
    /\ req' = SetReq(s, attempt[s], "net")
    /\ UNCHANGED <<upSeq, size, upOrdered, attempt, writeErr, closing, tail, faults>>
    /\ UNCHANGED queue

\* One try too many.
EndTryLate(s, ordered) ==
    /\ pc' = [pc EXCEPT ![s] = "lane"]
    /\ attempt' = [attempt EXCEPT ![s] = @ + 1]
    /\ UNCHANGED writeErr

\* The end of a try that did not land: the next one, if the relay is known to
\* order writes and tries are left, else the failure every later call reports.
\* The tail of a close has a single try.
EndTry(s, ordered) ==
    IF ordered /\ attempt[s] < UpAttempts /\ s # tail
    THEN /\ pc' = [pc EXCEPT ![s] = "lane"]
         /\ attempt' = [attempt EXCEPT ![s] = @ + 1]
         /\ UNCHANGED writeErr
    ELSE /\ pc' = [pc EXCEPT ![s] = "failed"]
         /\ writeErr' = TRUE
         /\ UNCHANGED attempt

\* The relay's answer arrives.  Every answer past authentication says that the
\* relay orders writes.
Answer(s) ==
    /\ pc[s] = "wire"
    /\ LET ph == req[s][attempt[s]].ph IN
       /\ ph \in Answers
       /\ \/ /\ ph = "ok"
             /\ s = tail => done # "open"       \* /h/close answers once it has closed
             /\ pc' = [pc EXCEPT ![s] = "done"]
             /\ UNCHANGED <<attempt, writeErr>>
          \/ /\ ph = "retry"
             /\ EndTry(s, TRUE)
          \/ /\ ph = "refused"
             /\ pc' = [pc EXCEPT ![s] = "failed"]
             /\ writeErr' = TRUE
             /\ UNCHANGED attempt
    /\ upOrdered' = (upOrdered \/ s # tail)
    /\ UNCHANGED <<upSeq, size, closing, tail, req, faults>>
    /\ UNCHANGED queue

\* The carrier fails this try for the writer, wherever the request or its
\* answer is: a refused connection, a reset, the client's own timeout.  The
\* request may never arrive, or the relay may still be working on it.
CarrierFails(s, arrives) ==
    /\ pc[s] = "wire" /\ faults < MaxFaults
    /\ faults' = faults + 1
    /\ EndTry(s, upOrdered)
    /\ LET gone == IF s = tail THEN {"net"} ELSE {"net"} \cup Answers IN
       \/ arrives /\ UNCHANGED req
       \/ /\ ~arrives /\ req[s][attempt[s]].ph \in gone
          /\ req' = SetReq(s, attempt[s], "lost")
    /\ UNCHANGED <<upSeq, size, upOrdered, closing, tail>>
    /\ UNCHANGED queue

\* Close: what is pending goes with the close itself when the relay orders
\* writes, and as a write of its own before it otherwise.
CloseConn(n) ==
    /\ closing = "no"
    /\ (~upOrdered => Posting = {})
    /\ \/ /\ n = 0 \/ writeErr
          /\ closing' = "tail0"
          /\ UNCHANGED <<upSeq, size, pc, attempt, tail>>
       \/ /\ n > 0 /\ ~writeErr /\ upSeq < MaxWrites
          /\ upSeq' = upSeq + 1
          /\ size' = [size EXCEPT ![upSeq + 1] = n]
          /\ IF upOrdered
             THEN /\ tail' = upSeq + 1 /\ closing' = "tail"
                  /\ UNCHANGED <<pc, attempt>>
             ELSE /\ pc' = [pc EXCEPT ![upSeq + 1] = "lane"]
                  /\ attempt' = [attempt EXCEPT ![upSeq + 1] = 1]
                  /\ closing' = "tail0" /\ UNCHANGED tail
    /\ UNCHANGED <<upOrdered, writeErr, req, faults>>
    /\ UNCHANGED queue

\* The close does not wait for the posts under way.
SendCloseEarly ==
    /\ closing \in {"tail", "tail0"} /\ tail = 0
    /\ closing' = "sent"
    /\ UNCHANGED <<upSeq, size, upOrdered, pc, attempt, writeErr, tail, req, faults>>
    /\ UNCHANGED queue

\* Close, after upWG.Wait: the close goes out once no post is under way.
SendClose ==
    /\ closing \in {"tail", "tail0"}
    /\ Posting = {}
    /\ closing' = "sent"
    /\ IF tail = 0 THEN UNCHANGED <<pc, attempt, req>>
       ELSE /\ pc' = [pc EXCEPT ![tail] = "wire"]
            /\ attempt' = [attempt EXCEPT ![tail] = 1]
            /\ req' = SetReq(tail, 1, "net")
    /\ UNCHANGED <<upSeq, size, upOrdered, writeErr, tail, faults>>
    /\ UNCHANGED queue

-----------------------------------------------------------------------------
(* The relay *)

\* wakeLocked: every writer parked on this direction looks again.
Woken(r) == [s \in Writes |-> [a \in Attempts |->
                IF r[s][a].ph = "wait" THEN [r[s][a] EXCEPT !.ph = "look"] ELSE r[s][a]]]

\* The writer has given up on this try: its request context is done.
Abandoned(s, a) == pc[s] # "wire" \/ attempt[s] # a

\* The request is answered; nobody hears the answer to an abandoned one.  The
\* handler of a close goes on to close the queue all the same.
Reply(s, a, ph) == SetReq(s, a, IF Abandoned(s, a) /\ s # tail THEN "lost" ELSE ph)

\* handleHUp refuses a write to a session that has closed, before it looks at
\* its number.  The tail of a close is not refused there.
RefuseClosed(s, a) ==
    /\ req[s][a].ph = "net" /\ done # "open" /\ s # tail
    /\ req' = Reply(s, a, "refused")
    /\ UNCHANGED <<writer, queue, faults>>

\* admitSeq, its first critical section: where the write stands in the stream.
\* A write already in (errRepeatWrite) is acknowledged and not taken again, one
\* past the window (errOutOfWindow) is sent back with a 503.
CheckSeq(s, a) ==
    /\ \/ req[s][a].ph = "look"
       \/ req[s][a].ph = "net" /\ (done = "open" \/ s = tail)
    /\ \/ /\ s < seqNext \/ s \in seqHeld
          /\ req' = Reply(s, a, "ok")
       \/ /\ s > seqNext + Window /\ s \notin seqHeld
          /\ req' = Reply(s, a, "retry")
       \/ /\ s \in seqNext..(seqNext + Window) /\ s \notin seqHeld
          /\ req' = [req EXCEPT ![s][a] = [ph |-> "checked", ahead |-> s > seqNext, n |-> 0]]
    /\ UNCHANGED <<writer, queue, faults>>

\* Nothing is left free for the write that fills the gap.
HasRoomNoSpare(n, ahead) == resident + n <= Limit /\ slots + 1 <= QueueChunks

\* reserveLocked: a write ahead of the stream leaves room for the largest
\* write, and a slot, free.
HasRoom(n, ahead) ==
    /\ resident + n <= Limit - (IF ahead THEN MaxUpload ELSE 0)
    /\ slots + 1 <= QueueChunks - (IF ahead THEN 1 ELSE 0)

\* tryReserve.  The room asked for is the declared length, or the largest
\* write when a proxy has hidden it.
TryReserve(s, a, n) ==
    /\ req[s][a].ph = "checked"
    /\ n \in {size[s], MaxUpload}
    /\ \/ /\ done # "open"                             \* errQueueClosed: 410
          /\ req' = Reply(s, a, "refused")
          /\ UNCHANGED <<resident, slots>>
       \/ /\ done = "open" /\ HasRoom(n, req[s][a].ahead)
          /\ req' = [req EXCEPT ![s][a] = [ph |-> "held", ahead |-> req[s][a].ahead, n |-> n]]
          /\ resident' = resident + n
          /\ slots' = slots + 1
       \/ /\ done = "open" /\ ~HasRoom(n, req[s][a].ahead)
          /\ req' = SetReq(s, a, "wait")
          /\ UNCHANGED <<resident, slots>>
    /\ UNCHANGED <<seqNext, seqHeld, stream, taken, acked, done, freed, faults>>
    /\ UNCHANGED writer

\* await: a parked write whose queue closes is refused; one whose writer has
\* gone is dropped with nothing taken.
AwaitEnds(s, a) ==
    /\ req[s][a].ph = "wait"
    /\ \/ done # "open" /\ req' = Reply(s, a, "refused")
       \/ Abandoned(s, a) /\ req' = SetReq(s, a, "lost")
    /\ UNCHANGED <<writer, queue, faults>>

\* releaseLocked: n bytes and k slots go back, and who waits here looks again.
\* A queue that was freed counts nothing any more.
Release(n, k, r) ==
    /\ resident' = IF freed THEN resident ELSE resident - n
    /\ slots' = IF freed THEN slots ELSE slots - k
    /\ req' = IF freed \/ (n = 0 /\ k = 0) THEN r ELSE Woken(r)

\* The bytes go back, the slot does not.
BodyFailsKeepsSlot(s, a) ==
    /\ req[s][a].ph = "held" /\ Abandoned(s, a)
    /\ Release(req[s][a].n, 0, SetReq(s, a, "lost"))
    /\ UNCHANGED <<seqNext, seqHeld, stream, taken, acked, done, freed, faults>>
    /\ UNCHANGED writer

\* readUpload fails and unreserve gives the room back: the writer has gone, or
\* its body missed the read deadline and it is answered 400.
BodyFails(s, a) ==
    /\ req[s][a].ph = "held"
    /\ \/ Abandoned(s, a) /\ Release(req[s][a].n, 1, SetReq(s, a, "lost")) /\ UNCHANGED faults
       \/ /\ ~Abandoned(s, a) /\ faults < MaxFaults /\ faults' = faults + 1
          /\ Release(req[s][a].n, 1, Reply(s, a, "refused"))
    /\ UNCHANGED <<seqNext, seqHeld, stream, taken, acked, done, freed>>
    /\ UNCHANGED writer

\* commitSeq, one critical section under seqMu and ackMu, has three outcomes.
\* The queue has closed, or a retry of this write got in first: the room goes
\* back.
CommitRefused(s, a) ==
    /\ req[s][a].ph = "held"
    /\ done # "open" \/ s \in seqHeld \/ s < seqNext
    /\ Release(req[s][a].n, 1, Reply(s, a, IF done # "open" THEN "refused" ELSE "ok"))
    /\ UNCHANGED <<seqNext, seqHeld, stream, taken, acked, done, freed, faults>>
    /\ UNCHANGED writer

\* Acknowledged, and dropped.
CommitAheadDrops(s, a) ==
    /\ req[s][a].ph = "held"
    /\ done = "open" /\ s > seqNext /\ s \notin seqHeld
    /\ Release(req[s][a].n, 1, Reply(s, a, "ok"))
    /\ UNCHANGED <<seqNext, seqHeld, stream, taken, acked, done, freed, faults>>
    /\ UNCHANGED writer

\* An earlier write is missing: this one is held until it lands.
CommitAhead(s, a) ==
    /\ req[s][a].ph = "held"
    /\ done = "open" /\ s > seqNext /\ s \notin seqHeld
    /\ Release(req[s][a].n - size[s], 0, Reply(s, a, "ok"))
    /\ seqHeld' = seqHeld \cup {s}
    /\ UNCHANGED <<seqNext, stream, taken, acked, done, freed, faults>>
    /\ UNCHANGED writer

\* The held writes go in before the one they waited for.
CommitNextLast(s, a) ==
    /\ req[s][a].ph = "held"
    /\ done = "open" /\ s = seqNext
    /\ \E m \in (s + 1)..(MaxWrites + 1) :
        /\ m \notin seqHeld
        /\ \A j \in (s + 1)..(m - 1) : j \in seqHeld
        /\ seqNext' = m
        /\ seqHeld' = seqHeld \ ((s + 1)..(m - 1))
        /\ stream' = Append(stream \o [i \in 1..(m - s - 1) |-> s + i], s)
    /\ resident' = resident - (req[s][a].n - size[s])
    /\ req' = Woken(Reply(s, a, "ok"))
    /\ UNCHANGED <<taken, acked, slots, done, freed, faults>>
    /\ UNCHANGED writer

\* The write in its place, and after it every held one up to the next gap m.
\* The waiting writers look again even if nothing was given back: one that
\* waited as out of order may be the next one now.
CommitNext(s, a) ==
    /\ req[s][a].ph = "held"
    /\ done = "open" /\ s = seqNext
    /\ \E m \in (s + 1)..(MaxWrites + 1) :
        /\ m \notin seqHeld
        /\ \A j \in (s + 1)..(m - 1) : j \in seqHeld
        /\ seqNext' = m
        /\ seqHeld' = seqHeld \ ((s + 1)..(m - 1))
        /\ stream' = stream \o [i \in 1..(m - s) |-> s + i - 1]
    /\ resident' = resident - (req[s][a].n - size[s])
    /\ req' = Woken(Reply(s, a, "ok"))
    /\ UNCHANGED <<taken, acked, slots, done, freed, faults>>
    /\ UNCHANGED writer

\* The close of a queue that was cut short makes its end a clean one.
CloseArrivesAfterCut ==
    /\ closing = "sent" /\ done # "writer"
    /\ tail # 0 => req[tail][1].ph = "ok"
    /\ done' = "writer"
    /\ UNCHANGED <<seqNext, seqHeld, stream, taken, acked, resident, slots, freed, req, faults>>
    /\ UNCHANGED writer

\* handleHClose: a close with a tail closes the queue once the tail is taken;
\* one without closes it at once.
CloseArrives ==
    /\ closing = "sent" /\ done = "open"
    /\ tail # 0 => req[tail][1].ph = "ok"
    /\ done' = "writer"
    /\ UNCHANGED <<seqNext, seqHeld, stream, taken, acked, resident, slots, freed, req, faults>>
    /\ UNCHANGED writer

\* The other side closes, or the relay ends the session: sideQueue.close.
FarClose ==
    /\ done = "open"
    /\ done' = "far"
    /\ UNCHANGED <<seqNext, seqHeld, stream, taken, acked, resident, slots, freed, req, faults>>
    /\ UNCHANGED writer

\* free: the session has left the registry, or the side that reads this
\* direction has closed.  Whatever is queued, held or unacknowledged is dropped.
Free ==
    /\ ~freed
    /\ done' = IF done = "open" THEN "far" ELSE done
    /\ freed' = TRUE
    /\ seqHeld' = {}
    /\ resident' = 0 /\ slots' = 0
    /\ req' = Woken(req)
    /\ UNCHANGED <<seqNext, stream, taken, acked, faults>>
    /\ UNCHANGED writer

\* The sum of g over 1..n.
Total(g, n) == LET f[k \in 0..n] == IF k = 0 THEN 0 ELSE f[k - 1] + g[k] IN f[n]

\* The bytes of a set of writes.
Bytes(S) == Total([s \in Writes |-> IF s \in S THEN size[s] ELSE 0], MaxWrites)

\* drainUpTo: the reader takes k chunks; each frees its slot, its bytes stay
\* counted until they are acknowledged.
Drain(k) ==
    /\ ~freed
    /\ k >= 1 /\ taken + k <= Len(stream)
    /\ taken' = taken + k
    /\ Release(0, k, req)
    /\ UNCHANGED <<seqNext, seqHeld, stream, acked, done, freed, faults>>
    /\ UNCHANGED writer

\* dropAcked: what the reader has acknowledged leaves the relay.
Ack ==
    /\ ~freed
    /\ acked < taken
    /\ Release(Bytes({stream[i] : i \in (acked + 1)..taken}), 0, req)
    /\ acked' = taken
    /\ UNCHANGED <<seqNext, seqHeld, stream, taken, done, freed, faults>>
    /\ UNCHANGED writer

WriterWork == (\E s \in Writes : Post(s) \/ Answer(s)) \/ SendClose

WriterStep == \/ WriterWork
              \/ \E n \in Sizes : Send(n)
              \/ \E n \in 0..MaxUpload : CloseConn(n)
              \/ \E s \in Writes, arrives \in BOOLEAN : CarrierFails(s, arrives)

RelayWork == \/ \E s \in Writes, a \in Attempts :
                    \/ RefuseClosed(s, a) \/ CheckSeq(s, a)
                    \/ \E n \in Sizes : TryReserve(s, a, n)
                    \/ AwaitEnds(s, a) \/ BodyFails(s, a)
                    \/ CommitRefused(s, a) \/ CommitAhead(s, a) \/ CommitNext(s, a)
             \/ CloseArrives

ReaderStep == Ack \/ \E k \in Writes : Drain(k)

Next == WriterStep \/ RelayWork \/ ReaderStep \/ FarClose \/ Free

Spec == Init /\ [][Next]_vars

(***************************************************************************)
(* Goroutines that can run do run (the writer's posts and its close, the    *)
(* relay's handlers), and the far side keeps reading.  Nothing makes the    *)
(* writer send, either side close, or the carrier fail or recover.          *)
(***************************************************************************)
Fairness == WF_vars(WriterWork \/ RelayWork \/ ReaderStep)

LiveSpec == Spec /\ Fairness

-----------------------------------------------------------------------------
(* Properties *)

\* The variables keep their types.  BudgetExact says what resident and slots are.
TypeOK ==
    /\ upSeq \in 0..MaxWrites
    /\ size \in [Writes -> 0..MaxUpload]
    /\ upOrdered \in BOOLEAN
    /\ pc \in [Writes -> {"none", "lane", "wire", "done", "failed"}]
    /\ attempt \in [Writes -> 0..UpAttempts]
    /\ \A s \in Writes : pc[s] # "none" => attempt[s] \in Attempts
    /\ writeErr \in BOOLEAN
    /\ closing \in {"no", "tail", "tail0", "sent"}
    /\ tail \in 0..MaxWrites
    /\ req \in Requests
    /\ seqNext \in 1..(MaxWrites + 1)
    /\ seqHeld \subseteq Writes
    /\ stream \in Seq(Writes)
    /\ taken \in Nat /\ acked \in Nat
    /\ done \in {"open", "writer", "far"}
    /\ freed \in BOOLEAN
    /\ faults \in 0..MaxFaults

\* The relay's queue holds the writes 1, 2, 3, ... each exactly once, however
\* its requests were reordered, repeated by a retry, or lost: sideQueue.commitSeq.
StreamInOrder == stream = [i \in 1..(seqNext - 1) |-> i]

\* The relay has write s: in the stream, or held for its place, or dropped with
\* the session.
Landed(s) == s < seqNext \/ s \in seqHeld \/ freed

\* A write the writer was told has landed is in the stream or held for its
\* place: a 200 is never given for a write that the relay does not have.
AckedNotLost == \A s \in Writes : pc[s] = "done" => Landed(s)

\* A close that reached the relay after no write failed ends a complete stream:
\* the reader's end of file cannot come before a byte that Close reported sent.
CompleteAtClose == done = "writer" /\ ~writeErr => seqNext = upSeq + 1

(***************************************************************************)
(* The inductive invariant behind the three properties above: what is held  *)
(* is ahead of the stream, only writes handed out have requests, an "ok"    *)
(* stands for a write the relay has, and after the close has gone out every *)
(* other write has ended.                                                   *)
(***************************************************************************)
HeldAhead == \A s \in seqHeld : seqNext < s /\ s <= upSeq

OnlyHandedOut ==
    /\ seqNext <= upSeq + 1
    /\ \A s \in Writes : s > upSeq => pc[s] = "none"
    /\ \A s \in Writes : s <= upSeq /\ s # tail => pc[s] # "none"
    /\ \A s \in Writes : \A a \in Attempts : req[s][a].ph # "none" => s <= upSeq

OkMeansLanded == \A s \in Writes : \A a \in Attempts : req[s][a].ph = "ok" => Landed(s)

CloseState ==
    /\ closing \in {"no", "tail0"} => tail = 0
    /\ tail # 0 => tail = upSeq
    /\ closing = "sent" =>
          \A s \in Writes : s <= upSeq /\ s # tail => pc[s] \in {"done", "failed"}
    /\ ~writeErr => \A s \in Writes : pc[s] # "failed"
    /\ freed => done # "open"
    /\ done = "writer" => closing = "sent"

IInv == /\ TypeOK /\ StreamInOrder /\ AckedNotLost /\ CompleteAtClose
        /\ HeldAhead /\ OnlyHandedOut /\ OkMeansLanded /\ CloseState

Reserved == {r \in Writes \X Attempts : req[r[1]][r[2]].ph = "held"}
SumReserved(R) ==
    Total([s \in Writes |->
              Total([a \in Attempts |-> IF <<s, a>> \in R THEN req[s][a].n ELSE 0], UpAttempts)],
          MaxWrites)

\* resident and slots are exactly what the direction holds or has promised, and
\* stay inside the budget: no path gives room back twice or forgets to.  The
\* send on ch in commitSeq therefore never blocks with both locks held.
BudgetExact ==
    /\ ~freed => /\ resident = Bytes({stream[i] : i \in (acked + 1)..Len(stream)})
                               + Bytes(seqHeld) + SumReserved(Reserved)
                 /\ slots = Len(stream) - taken + Cardinality(seqHeld) + Cardinality(Reserved)
    /\ freed => resident = 0 /\ slots = 0
    /\ resident <= Limit /\ slots <= QueueChunks

\* What writes ahead of the stream hold or have been promised always leaves
\* room, and a slot, for the largest write: the write that fills the gap can
\* land however many others wait for it (reserveLocked's spare).
GapCanFill ==
    LET early == {r \in Reserved : req[r[1]][r[2]].ahead} IN
    /\ Bytes(seqHeld) + SumReserved(early) <= Limit - MaxUpload
    /\ Cardinality(seqHeld) + Cardinality(early) <= QueueChunks - 1

\* Every write handed to a post ends, landed or failed: waiting for room on the
\* few bulk lanes never keeps the write that would make room from going out.
WritesSettle ==
    <>[](\A s \in Writes : pc[s] \notin {"lane", "wire"})

\* How the stream has ended for its reader.
StreamEnd == IF done = "open" THEN "open" ELSE IF done = "writer" THEN "eof" ELSE "cut"

\* The channel is a byte stream of writes: in order, complete at its end.
Stream == INSTANCE ByteStream WITH sent <- upSeq, got <- stream, failed <- writeErr, end <- StreamEnd
ImplementsStream == Stream!Spec
=============================================================================
