----------------------------- MODULE WriteBatch -----------------------------
(***************************************************************************)
(* When the bytes a connection was given become a post: conn.Write, the    *)
(* flush timer, the flush before a read and Close of                       *)
(* internal/httpconn/httpconn.go.  Bytes are counted, not carried: the     *)
(* stream is the numbers 1, 2, 3, ... of the bytes written, and a post is  *)
(* the next of them.  What happens to a post is UpChannel's; here it only  *)
(* may fail, which ends the direction.                                     *)
(*                                                                         *)
(* Every operation holds writeM throughout, so each is one step; a timer   *)
(* that has fired is a callback waiting for writeM, and stopping the timer *)
(* does not stop the callback.                                             *)
(***************************************************************************)
EXTENDS Naturals

CONSTANTS
  WbBatch,       \* writeBatchBytes
  WbSizes,       \* the sizes of a write
  MaxWbBytes,    \* how much is written
  MaxWbTimers    \* how many timers are armed

ASSUME WbAssumption ==
  /\ WbBatch \in Nat \ {0} /\ WbSizes \subseteq Nat
  /\ MaxWbBytes \in Nat /\ MaxWbTimers \in Nat

VARIABLES
  wbWritten,  \* the bytes Write has taken
  wbPosted,   \* the bytes handed to an upload; the rest are pending
  wbTimer,    \* flushTimer: the generation it was armed with, 0 when nil
  wbGen,      \* flushGen
  wbFired,    \* the callbacks waiting for writeM, by generation
  wbFor,      \* each generation armed: the byte the timer was set for
  wbEnd,      \* "no", "failed" (writeErr) or "closed"
  wbCut       \* what made the last post, and the byte that its timer was set for

wbConn == <<wbWritten, wbPosted, wbTimer, wbGen, wbEnd>>
wbVars == <<wbConn, wbFired, wbFor, wbCut>>

WbNoCut == [by |-> "none", first |-> 0, for |-> 0]

WbInit ==
  /\ wbWritten = 0 /\ wbPosted = 0 /\ wbTimer = 0 /\ wbGen = 0
  /\ wbFired = {} /\ wbFor = [g \in 1..MaxWbTimers |-> 0]
  /\ wbEnd = "no" /\ wbCut = WbNoCut

WbPending == wbWritten - wbPosted

\* stopFlushTimerLocked.
WbStoppedGen == IF wbTimer # 0 THEN wbGen + 1 ELSE wbGen

\* sendLocked: the first n pending bytes are the next post.  In the foreground
\* it may come back with an error, in the background one shows up later.
WbSends(n, by, for) ==
  /\ wbPosted' = wbPosted + n
  /\ wbCut' = [by |-> by, first |-> wbPosted + 1, for |-> for]

----------------------------------------------------------------------------
\* Write: full batches go out at once, and their timer with them; a rest below
\* a batch waits for a timer, the one already running if there is one.
WbFullBatches(n) == n - (n % WbBatch)

WbRearmsFirst(left, timer) == left > 0 /\ timer = 0 /\ wbPosted = 0

WbRearms(left, timer) == left > 0 /\ timer = 0

WbWrite(n) ==
  LET total == WbPending + n
      full == WbFullBatches(total)
      rest == total - full
      timer == IF full > 0 THEN 0 ELSE wbTimer
      gen == IF full > 0 THEN WbStoppedGen ELSE wbGen
  IN /\ wbEnd = "no" /\ wbWritten + n <= MaxWbBytes
     /\ wbWritten' = wbWritten + n
     /\ IF full > 0 THEN WbSends(full, "write", 0) ELSE UNCHANGED <<wbPosted, wbCut>>
     /\ IF WbRearms(rest, timer)
        THEN /\ gen < MaxWbTimers
             /\ wbGen' = gen + 1 /\ wbTimer' = gen + 1
             /\ wbFor' = [wbFor EXCEPT ![gen + 1] = wbPosted' + 1]
        ELSE wbGen' = gen /\ wbTimer' = timer /\ UNCHANGED wbFor
     /\ UNCHANGED <<wbFired, wbEnd>>

\* A batch of several posts fails in the foreground at one of them: Write
\* returns the error with the rest pending and no timer.
WbWriteFails(n) ==
  LET total == WbPending + n
      full == WbFullBatches(total)
  IN /\ wbEnd = "no" /\ wbWritten + n <= MaxWbBytes /\ full > 0
     /\ wbWritten' = wbWritten + n
     /\ \E k \in 1..(full \div WbBatch) : WbSends(k * WbBatch, "write", 0)
     /\ wbGen' = WbStoppedGen /\ wbTimer' = 0
     /\ wbEnd' = "failed"
     /\ UNCHANGED <<wbFired, wbFor>>

\* The delay has passed: the callback starts, and waits for writeM.
WbFires ==
  /\ wbTimer # 0 /\ wbTimer \notin wbFired
  /\ wbFired' = wbFired \union {wbTimer}
  /\ UNCHANGED <<wbConn, wbFor, wbCut>>

\* flushTimerFired.
WbCurrentAny(g) == wbTimer # 0

WbCurrent(g) == wbTimer # 0 /\ wbGen = g

WbFlushTimerFired(g) ==
  /\ g \in wbFired
  /\ wbFired' = wbFired \ {g}
  /\ wbTimer' = IF WbCurrent(g) THEN 0 ELSE wbTimer
  /\ IF WbCurrent(g) /\ wbEnd = "no" /\ WbPending > 0
     THEN WbSends(WbPending, "timer", wbFor[g])
     ELSE UNCHANGED <<wbPosted, wbCut>>
  /\ UNCHANGED <<wbWritten, wbGen, wbFor, wbEnd>>

\* flushWrites, which every Read begins with.
WbFlushWrites ==
  /\ wbEnd # "failed"
  /\ wbGen' = WbStoppedGen /\ wbTimer' = 0
  /\ IF WbPending > 0 THEN WbSends(WbPending, "read", 0) ELSE UNCHANGED <<wbPosted, wbCut>>
  /\ UNCHANGED <<wbWritten, wbFired, wbFor, wbEnd>>

\* A post in the background fails.
WbPostFails ==
  /\ wbEnd = "no" /\ wbPosted > 0
  /\ wbEnd' = "failed"
  /\ UNCHANGED <<wbWritten, wbPosted, wbTimer, wbGen, wbFired, wbFor, wbCut>>

\* Close: the last bytes go with the close, or in a post before it.
WbClose ==
  /\ wbEnd # "closed"
  /\ wbGen' = WbStoppedGen /\ wbTimer' = 0
  /\ IF wbEnd = "no" /\ WbPending > 0 THEN WbSends(WbPending, "close", 0) ELSE UNCHANGED <<wbPosted, wbCut>>
  /\ wbEnd' = "closed"
  /\ UNCHANGED <<wbWritten, wbFired, wbFor>>

WbTimerSteps == WbFires \/ \E g \in 1..MaxWbTimers : WbFlushTimerFired(g)

WbNext ==
  \/ \E n \in WbSizes : WbWrite(n) \/ WbWriteFails(n)
  \/ WbFires
  \/ \E g \in 1..MaxWbTimers : WbFlushTimerFired(g)
  \/ WbFlushWrites \/ WbPostFails \/ WbClose

\* Timers fire and their callbacks get the lock; nobody need write, read or close.
WbSpec == WbInit /\ [][WbNext]_wbVars /\ WF_wbVars(WbTimerSteps)

----------------------------------------------------------------------------
\* httpconn.go, Write and flushTimerFired: pending bytes of a connection that
\* has not failed always have a timer, or a callback about to run, of their own
\* generation: no tail is stranded by a timer stopped for another batch.
WbNothingStranded == wbEnd = "no" /\ WbPending > 0 => wbTimer # 0 /\ wbTimer = wbGen

\* httpconn.go, the comment in Write: a timer posts the bytes it was set for, so
\* one set for a batch that went out never cuts short the batch that follows.
WbOwnBatch == wbCut.by = "timer" => wbCut.first = wbCut.for

WbBatches == WbNothingStranded /\ WbOwnBatch

\* httpconn.go: whatever was written is posted, without another write, a read or
\* a close to push it out.
WbWaits == wbEnd = "no" /\ WbPending > 0
WbPushedOut == <>[]~WbWaits
============================================================================
