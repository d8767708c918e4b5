---------------------------- MODULE DownChannel ----------------------------
(***************************************************************************)
(* The read half of one direction of an HTTP-carried session.  The relay    *)
(* (internal/relay, sideQueue.takeUpTo / takeWindow / drainUpTo) numbers    *)
(* the chunks it hands out and keeps each until it is acknowledged.  The    *)
(* reader (internal/httpconn, conn.Read / downPoll / downBatch) polls one   *)
(* chunk at a time, or keeps a window of numbered polls in flight while     *)
(* full chunks arrive, and acknowledges with its next poll.  Polls and      *)
(* answers are lost, and a poll the reader has given up on goes on at the   *)
(* relay.                                                                   *)
(*                                                                         *)
(* Bytes are numbered 1, 2, ... as they are pushed, so a chunk is a         *)
(* sequence of numbers.  The writer is the environment (UpChannel).         *)
(***************************************************************************)
EXTENDS Integers, FiniteSets, SequencesExt

CONSTANTS
    MaxBytes,      \* bound: bytes pushed in one behaviour
    MaxChunk,      \* largest chunk one push queues
    Window,        \* DownWindowSize
    PollAttempts,  \* downPollAttempts
    DownMaxFloor, DownMaxCeiling,  \* range of the chunk size a reader asks for
    BatchMax,      \* most a numbered poll asks for (4 << 20)
    Agent,         \* role = "agent": its unnumbered polls share a busy lane
    LaneZeroMax,   \* laneZeroDownMax: most such a poll asks for
    MaxPolls,      \* bound: polls on the wire or at the relay at once
    MaxFaults      \* bound: carrier failures in one behaviour

ASSUME DownConstants ==
    /\ MaxBytes \in Nat /\ MaxChunk \in Nat \ {0}
    /\ Window \in Nat \ {0} /\ PollAttempts \in Nat \ {0}
    /\ DownMaxFloor \in Nat \ {0} /\ DownMaxCeiling \in Nat /\ DownMaxFloor <= DownMaxCeiling
    /\ BatchMax \in Nat \ {0} /\ LaneZeroMax \in Nat \ {0}
    /\ Agent \in BOOLEAN
    /\ MaxPolls \in Nat /\ MaxPolls > Window /\ MaxFaults \in Nat

VARIABLES
    \* the relay's queue
    pushed,      \* bytes written to this direction so far
    ch,          \* chunks queued
    head,        \* tail of a chunk split at the drain cap
    qdone,       \* closed to new bytes
    gone,        \* the session has left the registry and its queue was freed
    seq,         \* number of the last chunk handed out
    assigned,    \* chunks handed out and not yet acknowledged, by number
    \* polls: on the wire, at the relay, or answered and not yet read
    polls,
    \* the reader
    ackSeq,      \* highest chunk fully received
    ackable,     \* the relay has answered with the ack protocol
    downWindow,  \* the relay serves numbered polls
    downMax,     \* bytes the next poll asks for
    batch,       \* numbers still expected of the window under way
    received,    \* bytes accepted, in order
    ended,       \* "open", "eof", "error" or "closed"
    faults

relay == <<pushed, ch, head, qdone, gone, seq, assigned>>
reader == <<ackSeq, ackable, downWindow, downMax, batch, received, ended>>
vars == <<pushed, ch, head, qdone, gone, seq, assigned, polls,
          ackSeq, ackable, downWindow, downMax, batch, received, ended, faults>>

NoBatch == [next |-> 0, end |-> 0]
Windowed == batch # NoBatch

(***************************************************************************)
(* A poll.  live: the reader still waits for it.  ph: "net" on its way;     *)
(* "in" past the session lookup; "wait" for the chunk before its own to be  *)
(* handed out; "turn" for its turn at the queue; "parked" on an empty queue *)
(* with the turn; "hand" with bytes taken out of the queue and in no other  *)
(* field; "answer"; "failed" when the reader has no try left.               *)
(***************************************************************************)
NewPoll(want, ack, max) ==
    [live |-> TRUE, want |-> want, ack |-> ack, max |-> max, try |-> 1,
     ph |-> "net", st |-> 0, seq |-> 0, data |-> << >>]

Init ==
    /\ pushed = 0 /\ ch = << >> /\ head = << >>
    /\ qdone = FALSE /\ gone = FALSE
    /\ seq = 0 /\ assigned = << >>
    /\ polls = {}
    /\ ackSeq = 0 /\ ackable = FALSE
    /\ downWindow \in BOOLEAN         \* MarkWindow, from /h/dial or /h/poll
    /\ downMax = DownMaxFloor
    /\ batch = NoBatch
    /\ received = << >>
    /\ ended = "open"
    /\ faults = 0

-----------------------------------------------------------------------------
(* The writer's side of the queue *)

\* A write reaches ch.
Push(n) ==
    /\ ~qdone /\ pushed + n <= MaxBytes
    /\ ch' = Append(ch, [i \in 1..n |-> pushed + i])
    /\ pushed' = pushed + n
    /\ UNCHANGED <<head, qdone, gone, seq, assigned, polls, reader, faults>>

\* sideQueue.close.
CloseQueue ==
    /\ ~qdone /\ qdone' = TRUE
    /\ UNCHANGED <<pushed, ch, head, gone, seq, assigned, polls, reader, faults>>

\* The session leaves the registry: sideQueue.free drops what the queue holds.
\* What a poll has in hand it goes on to assign.
SessionGone ==
    /\ ~gone /\ gone' = TRUE /\ qdone' = TRUE
    /\ ch' = << >> /\ head' = << >> /\ assigned' = << >>
    /\ UNCHANGED <<pushed, seq, polls, reader, faults>>

-----------------------------------------------------------------------------
(* The relay's polls *)

TurnFree == \A p \in polls : p.ph \notin {"parked", "hand"}

\* Poll p moves on; a poll nobody waits for any more just ends.
Become(p, ph) == polls' = (polls \ {p}) \cup {[p EXCEPT !.ph = ph]}
Answer(p, st, n, data) ==
    polls' = (polls \ {p}) \cup
             IF p.live THEN {[p EXCEPT !.ph = "answer", !.st = st, !.seq = n, !.data = data]}
             ELSE {}

\* handleHDown: the session is looked up once, when the poll arrives.
Arrive(p) ==
    /\ p.ph = "net"
    /\ IF gone THEN Answer(p, 404, 0, << >>) ELSE Become(p, "in")
    /\ UNCHANGED <<relay, reader, faults>>

\* Nothing is left when the request of an abandoned poll never arrives.
Vanish(p) ==
    /\ p.ph = "net" /\ ~p.live
    /\ polls' = polls \ {p}
    /\ UNCHANGED <<relay, reader, faults>>

\* dropAcked: what is left of assigned after an acknowledgement.
Unacked(ack) == [k \in {j \in DOMAIN assigned : j > ack} |-> assigned[k]]

Queued == IF head = << >> THEN ch ELSE <<head>> \o ch

\* The bytes a split leaves behind go to the end of the queue.
DrainUpToLast(p) ==
    IF Queued = << >> THEN Become(p, "parked") /\ UNCHANGED <<ch, head>>
    ELSE LET bytes == Queued[1] IN
         /\ polls' = (polls \ {p}) \cup {[p EXCEPT !.ph = "hand", !.data = SubSeq(bytes, 1, p.max)]}
         /\ head' = << >>
         /\ ch' = IF Len(bytes) <= p.max THEN Tail(Queued)
                  ELSE Append(Tail(Queued), SubSeq(bytes, p.max + 1, Len(bytes)))

\* drainUpTo: the head, then whole chunks while there is room in the answer;
\* what does not fit of the last one is the new head.  An empty queue parks.
DrainUpTo(p) ==
    IF Queued = << >> THEN Become(p, "parked") /\ UNCHANGED <<ch, head>>
    ELSE LET k == CHOOSE k \in 1..Len(Queued) :
                    /\ \/ k = Len(Queued)
                       \/ Len(FlattenSeq(SubSeq(Queued, 1, k))) >= p.max
                    /\ \A j \in 1..(k - 1) : Len(FlattenSeq(SubSeq(Queued, 1, j))) < p.max
             bytes == FlattenSeq(SubSeq(Queued, 1, k)) IN
         /\ polls' = (polls \ {p}) \cup {[p EXCEPT !.ph = "hand", !.data = SubSeq(bytes, 1, Min({p.max, Len(bytes)}))]}
         /\ head' = SubSeq(bytes, p.max + 1, Len(bytes))
         /\ ch' = SubSeq(Queued, k + 1, Len(Queued))

\* takeUpTo, with the turn: the oldest chunk the reader has not acknowledged is
\* served again; only when there is none are new bytes taken out.
TakeUpTo(p) ==
    /\ p.ph = "in" /\ p.want = 0 /\ TurnFree
    /\ assigned' = Unacked(p.ack)
    /\ LET again == {k \in DOMAIN assigned : k > p.ack /\ k <= seq} IN
       IF again # {}
       THEN LET k == Min(again) IN Answer(p, 200, k, assigned[k]) /\ UNCHANGED <<ch, head>>
       ELSE DrainUpTo(p)
    /\ UNCHANGED <<pushed, qdone, gone, seq, reader, faults>>

\* takeWindow, one pass of its loop: a chunk handed out before is served again
\* without the turn; a stale poll gets nothing; a future one waits.
TakeWindow(p) ==
    /\ p.ph = "in" /\ p.want # 0
    /\ assigned' = Unacked(p.ack)
    /\ \/ p.want \in DOMAIN assigned /\ Answer(p, 200, p.want, assigned[p.want])
       \/ p.want \notin DOMAIN assigned /\ p.want <= seq /\ Answer(p, 204, 0, << >>)
       \/ p.want > seq + 1 /\ Become(p, "wait")
       \/ p.want = seq + 1 /\ Become(p, "turn")
    /\ UNCHANGED <<pushed, ch, head, qdone, gone, seq, reader, faults>>

\* The chunk before its own has been handed out: look again.
Changed(p) ==
    /\ p.ph = "wait" /\ p.want <= seq + 1
    /\ Become(p, "in")
    /\ UNCHANGED <<relay, reader, faults>>

\* takeWindow, with the turn: the number is checked again before bytes move.
Acquire(p) ==
    /\ p.ph = "turn" /\ TurnFree
    /\ IF p.want # seq + 1 THEN Become(p, "in") /\ UNCHANGED <<ch, head>> ELSE DrainUpTo(p)
    /\ UNCHANGED <<pushed, qdone, gone, seq, assigned, reader, faults>>

\* drainUpTo on an empty queue: bytes arrive, or the queue has closed.
ParkedTakes(p) ==
    /\ p.ph = "parked" /\ ch # << >>
    /\ DrainUpTo(p)
    /\ UNCHANGED <<pushed, qdone, gone, seq, assigned, reader, faults>>

\* A closed queue ends the stream with bytes still in it.
ParkedClosesAtOnce(p) ==
    /\ p.ph = "parked" /\ qdone
    /\ Answer(p, 410, 0, << >>)
    /\ UNCHANGED <<relay, reader, faults>>

ParkedCloses(p) ==
    /\ p.ph = "parked" /\ ch = << >> /\ qdone
    /\ Answer(p, 410, 0, << >>)
    /\ UNCHANGED <<relay, reader, faults>>

\* A poll with the turn waits for bytes as long as it takes.
GiveUpNotParked(p) ==
    /\ p.ph = "wait" \/ (p.ph = "turn" /\ ~TurnFree)
    /\ Answer(p, 204, 0, << >>)
    /\ UNCHANGED <<relay, reader, faults>>

\* The poll has waited downPollWait, or its request is gone: nothing was taken.
\* A free turn is always taken, and an unnumbered poll waits for it as long as
\* its request lives.
GiveUp(p) ==
    /\ \/ p.ph \in {"wait", "parked"}
       \/ p.ph = "turn" /\ ~TurnFree
       \/ p.ph = "in" /\ p.want = 0 /\ ~TurnFree /\ ~p.live
    /\ Answer(p, 204, 0, << >>)
    /\ UNCHANGED <<relay, reader, faults>>

\* assign: the bytes are kept under their number before the answer goes out.
Assign(p) ==
    /\ p.ph = "hand"
    /\ LET k == IF p.want = 0 THEN seq + 1 ELSE p.want IN
       /\ seq' = k
       /\ assigned' = [j \in DOMAIN assigned \cup {k} |-> IF j = k THEN p.data ELSE assigned[j]]
       /\ Answer(p, 200, k, p.data)
    /\ UNCHANGED <<pushed, ch, head, qdone, gone, reader, faults>>

-----------------------------------------------------------------------------
(* The reader *)

\* What is left of a poll the reader gives up on.
Ghost(p) == IF p.ph \in {"answer", "failed"} THEN {} ELSE {[p EXCEPT !.live = FALSE]}

\* stopBatch, or the end of the connection: every poll under way is cancelled.
Cancelled(P) == UNION {IF p.live THEN Ghost(p) ELSE {p} : p \in P}

Lives == {p \in polls : p.live}

\* Read, with no window open: one unnumbered poll.
PollSerial ==
    /\ ended = "open" /\ ~Windowed /\ Lives = {} /\ Cardinality(polls) < MaxPolls
    /\ polls' = polls \cup
        {NewPoll(0, ackSeq, IF Agent /\ downWindow THEN Min({downMax, LaneZeroMax}) ELSE downMax)}
    /\ UNCHANGED <<relay, reader, faults>>

\* downPoll: the carrier fails a try, before the request arrives, while it
\* waits, or with the answer on its way (heard: its headers came).  The next
\* try asks for the same chunk; it is made only against a relay known to keep
\* the bytes.
CarrierFails(p, heard) ==
    /\ p.live /\ p.ph # "failed" /\ faults < MaxFaults
    /\ heard => p.ph = "answer" /\ p.st = 200
    /\ faults' = faults + 1
    /\ IF p.try < PollAttempts /\ (p.want # 0 \/ p.try > 1 \/ ackable \/ heard)
       THEN /\ Cardinality(polls) < MaxPolls
            /\ polls' = (polls \ {p}) \cup Ghost(p)
                        \cup {[NewPoll(p.want, p.ack, p.max) EXCEPT !.try = p.try + 1]}
       ELSE polls' = (polls \ {p}) \cup Ghost(p) \cup {[p EXCEPT !.ph = "failed"]}
    /\ UNCHANGED <<relay, reader>>

\* A slow chunk halves the next one without end.
AdjustDownMaxNoFloor(n, took) ==
    CASE took = "slow" -> downMax \div 2
      [] took = "fast" /\ n >= downMax -> Min({downMax * 2, DownMaxCeiling})
      [] OTHER -> downMax

\* adjustDownMax.  A body cut short counts as slow.
AdjustDownMax(n, took) ==
    CASE took = "slow" -> Max({downMax \div 2, DownMaxFloor})
      [] took = "fast" /\ n >= downMax -> Min({downMax * 2, DownMaxCeiling})
      [] OTHER -> downMax

\* The poll Read waits for: the next number of the window, or the only one.
Expected(p) == p.live /\ p.want = batch.next

\* The window moves on for a chunk of the size the next poll would ask for.
NextWindowLatest(p, max) ==
    CASE Windowed /\ Len(p.data) < p.max -> [b |-> NoBatch, new |-> {}]
      [] ~Windowed /\ Len(p.data) = p.max ->
            [b |-> [next |-> p.seq + 1, end |-> p.seq + Window],
             new |-> {NewPoll(w, p.seq, max) : w \in (p.seq + 1)..(p.seq + Window)}]
      [] Windowed /\ Len(p.data) = max ->
            [b |-> [next |-> batch.next + 1, end |-> batch.end + 1],
             new |-> {NewPoll(batch.end + 1, p.seq, max)}]
      [] OTHER -> [b |-> IF Windowed THEN [batch EXCEPT !.next = @ + 1] ELSE NoBatch, new |-> {}]

\* A poll added to the window acknowledges only what the one before it did.
NextWindowOldAck(p, max) ==
    CASE Windowed /\ Len(p.data) < p.max -> [b |-> NoBatch, new |-> {}]
      [] ~Windowed /\ Len(p.data) = p.max ->
            [b |-> [next |-> p.seq + 1, end |-> p.seq + Window],
             new |-> {NewPoll(w, p.seq, max) : w \in (p.seq + 1)..(p.seq + Window)}]
      [] Windowed /\ Len(p.data) = p.max ->
            [b |-> [next |-> batch.next + 1, end |-> batch.end + 1],
             new |-> {NewPoll(batch.end + 1, p.ack, max)}]
      [] OTHER -> [b |-> IF Windowed THEN [batch EXCEPT !.next = @ + 1] ELSE NoBatch, new |-> {}]

\* startBatch, extendBatch or stopBatch, from the size of the chunk received: a
\* full one opens a window or adds a poll to it, a short one closes it.  A
\* chunk larger than asked for, handed out first to an earlier poll, does
\* neither.
NextWindow(p, max) ==
    CASE Windowed /\ Len(p.data) < p.max -> [b |-> NoBatch, new |-> {}]
      [] ~Windowed /\ Len(p.data) = p.max ->
            [b |-> [next |-> p.seq + 1, end |-> p.seq + Window],
             new |-> {NewPoll(w, p.seq, max) : w \in (p.seq + 1)..(p.seq + Window)}]
      [] Windowed /\ Len(p.data) = p.max ->
            [b |-> [next |-> batch.next + 1, end |-> batch.end + 1],
             new |-> {NewPoll(batch.end + 1, p.seq, max)}]
      [] OTHER -> [b |-> IF Windowed THEN [batch EXCEPT !.next = @ + 1] ELSE NoBatch, new |-> {}]

\* Read takes a chunk: it is acknowledged by the polls that follow.  One it
\* has already is passed over.
ReadChunk(p, took) ==
    /\ ended = "open" /\ Expected(p) /\ p.ph = "answer" /\ p.st = 200
    /\ downMax' = AdjustDownMax(Len(p.data), took)
    /\ LET fresh == p.seq > ackSeq
           w == IF fresh THEN NextWindow(p, Min({downMax', BatchMax}))
                ELSE [b |-> IF Windowed THEN [batch EXCEPT !.next = @ + 1] ELSE NoBatch, new |-> {}]
           rest == polls \ {p} IN
       /\ ackSeq' = IF fresh THEN p.seq ELSE ackSeq
       /\ received' = IF fresh THEN received \o p.data ELSE received
       /\ batch' = w.b
       /\ polls' = (IF w.b = NoBatch THEN Cancelled(rest) ELSE rest) \cup w.new
       /\ Cardinality(polls') <= MaxPolls
    /\ ackable' = TRUE /\ downWindow' = TRUE
    /\ UNCHANGED <<relay, ended, faults>>

\* Read gets nothing this round.  It closes the window and polls again.
ReadEmpty(p) ==
    /\ ended = "open" /\ Expected(p) /\ p.ph = "answer" /\ p.st = 204
    /\ batch' = NoBatch
    /\ polls' = Cancelled(polls \ {p})
    /\ ackable' = TRUE /\ downWindow' = TRUE
    /\ UNCHANGED <<relay, ackSeq, downMax, received, ended, faults>>

\* The stream ends: cleanly for all Read can tell, or with the poll's error.
ReadEnds(p) ==
    /\ ended = "open" /\ Expected(p)
    /\ \/ p.ph = "answer" /\ p.st \in {404, 410} /\ ended' = "eof"
       \/ p.ph = "failed" /\ ended' = "error"
    /\ batch' = NoBatch
    /\ polls' = Cancelled(polls \ {p})
    /\ UNCHANGED <<relay, ackSeq, ackable, downWindow, downMax, received, faults>>

\* The connection is closed, or Read reports a failed upload.
ReaderStops ==
    /\ ended = "open" /\ ended' = "closed"
    /\ batch' = NoBatch
    /\ polls' = Cancelled(polls)
    /\ UNCHANGED <<relay, ackSeq, ackable, downWindow, downMax, received, faults>>

RelayWork == \E p \in polls :
    \/ Arrive(p) \/ TakeUpTo(p) \/ TakeWindow(p) \/ Changed(p) \/ Acquire(p)
    \/ ParkedTakes(p) \/ ParkedCloses(p) \/ Assign(p)

ReaderWork == \/ PollSerial
              \/ \E p \in polls : \/ \E took \in {"fast", "middling", "slow"} : ReadChunk(p, took)
                                  \/ ReadEmpty(p) \/ ReadEnds(p)

\* downPollWait has passed for a poll that waits.
TimerWork == \E p \in polls : GiveUp(p)

Environment == \/ \E n \in 1..MaxChunk : Push(n)
               \/ CloseQueue \/ ReaderStops
               \/ TimerWork \/ \E p \in polls : Vanish(p)
               \/ \E p \in polls, heard \in BOOLEAN : CarrierFails(p, heard)

Next == RelayWork \/ ReaderWork \/ Environment

Spec == Init /\ [][Next]_vars

(***************************************************************************)
(* Handlers that can run do, the application keeps reading, and a poll that *)
(* waits is ended by its timer at last (downPollWait).  Nothing makes the   *)
(* carrier fail or a side close.                                            *)
(***************************************************************************)
LiveSpec == Spec /\ WF_vars(RelayWork) /\ WF_vars(ReaderWork) /\ WF_vars(TimerWork)

-----------------------------------------------------------------------------
(* Properties *)

\* What can be in a queue or a poll.
ByteSeqs == Seq(1..MaxBytes)

\* The variables keep their types, and one poll at a time has the turn.
TypeOK ==
    /\ pushed \in 0..MaxBytes
    /\ ch \in Seq(ByteSeqs) /\ head \in ByteSeqs
    /\ qdone \in BOOLEAN /\ gone \in BOOLEAN
    /\ seq \in Nat
    /\ DOMAIN assigned \subseteq 1..seq
    /\ \A k \in DOMAIN assigned : assigned[k] \in ByteSeqs /\ assigned[k] # << >>
    /\ \A p \in polls :
        /\ p.live \in BOOLEAN /\ p.want \in Nat /\ p.ack \in Nat
        /\ p.max \in 1..DownMaxCeiling /\ p.try \in 1..PollAttempts
        /\ p.ph \in {"net", "in", "wait", "turn", "parked", "hand", "answer", "failed"}
        /\ p.st \in {0, 200, 204, 404, 410} /\ p.seq \in 0..seq /\ p.data \in ByteSeqs
    /\ Cardinality({p \in polls : p.ph \in {"parked", "hand"}}) <= 1
    /\ ackSeq \in 0..seq
    /\ ackable \in BOOLEAN /\ downWindow \in BOOLEAN
    /\ downMax \in DownMaxFloor..DownMaxCeiling
    /\ batch.next \in Nat /\ batch.end \in Nat
    /\ received \in ByteSeqs
    /\ ended \in {"open", "eof", "error", "closed"}
    /\ faults \in 0..MaxFaults

\* Chunks the reader has not had, in order, as far as the relay has numbered them.
Outstanding ==
    FlattenSeq([i \in 1..(seq - ackSeq) |->
        IF ackSeq + i \in DOMAIN assigned THEN assigned[ackSeq + i] ELSE << >>])

InHand == FlattenSeq(SetToSeq({p.data : p \in {q \in polls : q.ph = "hand"}}))

\* Every byte written is in exactly one place and in its place: received, kept
\* under its number for the reader, in the hands of the poll with the turn, or
\* queued.  Splits, replays, abandoned polls and early acknowledgements never
\* lose, repeat or reorder one.
NothingLost ==
    ~gone => received \o Outstanding \o InHand \o FlattenSeq(Queued)
             = [i \in 1..pushed |-> i]

\* A window is never empty: while one is open a poll for the next number is
\* under way or answered, so Read has something to wait for.  Chunks larger
\* than asked for do not extend it, and there are never enough of them to use
\* it up.
WindowHasNext == Windowed => batch.next <= batch.end /\ \E p \in polls : Expected(p)

\* handleHDown refuses a numbered poll that is not past its acknowledgement or
\* is more than a window past it ("bad want"), which would end the connection.
\* The reader never sends one.
WantInWindow == \A p \in polls : p.want # 0 => p.want > p.ack /\ p.want - p.ack <= Window

\* Every byte written is read, or the stream ends: the bytes of a behaviour are
\* bounded, so from some point on nothing is left.  Neither an abandoned poll
\* that keeps the turn nor a lost answer leaves one at the relay for good.
AllRead == <>[](Len(received) = pushed \/ ended # "open")

StreamEnd == IF ended = "open" THEN "open" ELSE IF ended = "eof" THEN "eof" ELSE "cut"

\* The bytes Read hands out are those written, in order, and its end of file
\* comes after the last of them.
Stream == INSTANCE ByteStream WITH sent <- pushed, got <- received, failed <- FALSE, end <- StreamEnd
ImplementsStream == Stream!Spec
=============================================================================
