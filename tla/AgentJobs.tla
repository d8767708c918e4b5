----------------------------- MODULE AgentJobs -------------------------------
(***************************************************************************)
(* Background jobs on the device (internal/agent/jobs.go): commands that   *)
(* outlive the connection that started them, kept for polling under a      *)
(* count and a byte budget.  A job ends in several critical sections (the  *)
(* error text and the result under the job's lock, the count and the       *)
(* collection under the store's), and a poll finds its job under the       *)
(* store's lock and reads it under the job's, with anything in between.    *)
(*                                                                         *)
(* The bytes of a job are 1, 2, 3, ... in the order they were written; 0   *)
(* is a byte of the truncation notice.                                     *)
(***************************************************************************)
EXTENDS Naturals, FiniteSets, Sequences, SequencesExt, FiniteSetsExt

CONSTANTS Jobs, Controllers,
          JobWrites,           \* the sizes of a write
          MaxConcurrentJobs, MaxOutput, MaxRetainedJobs, MaxRetainedBytes,
          NoticeLen            \* len(jobOutputTruncated)

ASSUME JobsAssumption ==
    /\ MaxConcurrentJobs \in Nat /\ MaxOutput \in Nat /\ MaxRetainedJobs \in Nat /\ MaxRetainedBytes \in Nat
    /\ NoticeLen \in Nat /\ JobWrites \subseteq Nat

VARIABLES jobAt,          \* "new", "running", "failed" (error text written), "done" (result set), "over" (counted)
          jobOwner,       \* job.owner
          out,            \* job.out
          jobCut,         \* whether the notice was written over its end
          kept,           \* jobStore.jobs
          running,        \* jobStore.running
          finishOrder,    \* jobs by job.finished
          stale,          \* finished jobs past the retention time
          polling,        \* each controller: the job its poll has found, or "none"
          seen,           \* what it has of each job, by offset
          toldOver        \* the jobs it was told have ended

jobRun == <<jobAt, jobOwner, out, jobCut, finishOrder>>
jobPolls == <<polling, seen, toldOver>>
jobVars == <<jobRun, kept, running, stale, jobPolls>>

JobsInit ==
    /\ jobAt = [j \in Jobs |-> "new"] /\ jobOwner = [j \in Jobs |-> "none"]
    /\ out = [j \in Jobs |-> <<>>] /\ jobCut = [j \in Jobs |-> FALSE]
    /\ kept = {} /\ running = 0 /\ finishOrder = <<>> /\ stale = {}
    /\ polling = [c \in Controllers |-> "none"] /\ toldOver = [c \in Controllers |-> {}]
    /\ seen = [c \in Controllers |-> [j \in Jobs |-> <<>>]]

IsDone(j) == jobAt[j] \in {"done", "over"}

(* gcLocked: expired jobs go, then the oldest finished ones until both       *)
(* budgets hold; order is the order they finished in.                        *)
CollectJobs(ks, order) ==
    LET done  == SelectSeq(order, LAMBDA j : j \in ks \ stale)
        Bytes(s) == FoldSeq(LAMBDA j, sum : Len(out[j]) + sum, 0, s)
        Rest(n) == SubSeq(done, n + 1, Len(done))
        drop == Min({n \in 0 .. Len(done) : Len(Rest(n)) <= MaxRetainedJobs
                                              /\ Bytes(Rest(n)) <= MaxRetainedBytes})
    IN  (ks \ stale) \ {done[i] : i \in 1 .. drop}

(* start: a collection, then refused when too many run; the count goes up    *)
(* with the entry.                                                           *)
StartJob(j, c) ==
    /\ jobAt[j] = "new"
    /\ LET left == CollectJobs(kept, finishOrder) IN
       \/ /\ running >= MaxConcurrentJobs
          /\ kept' = left /\ UNCHANGED <<jobAt, jobOwner, running>>
       \/ /\ running < MaxConcurrentJobs
          /\ kept' = left \cup {j} /\ running' = running + 1
          /\ jobAt' = [jobAt EXCEPT ![j] = "running"]
          /\ jobOwner' = [jobOwner EXCEPT ![j] = c]
    /\ UNCHANGED <<out, jobCut, finishOrder, stale, jobPolls>>

(* jobWriter.Write of n bytes: what fits is kept, and when some did not fit  *)
(* the notice replaces the end of what was.                                  *)
Appended(text, n) ==
    LET room == MaxOutput - Len(text)
        all  == text \o [k \in 1 .. Min({n, room}) |-> Len(text) + k]
    IN  IF n > room /\ MaxOutput >= NoticeLen
        THEN [k \in 1 .. MaxOutput |-> IF k > MaxOutput - NoticeLen THEN 0 ELSE all[k]]
        ELSE all

JobWrite(j, n) ==
    /\ out' = [out EXCEPT ![j] = Appended(@, n)]
    /\ jobCut' = [jobCut EXCEPT ![j] = @ \/ n > MaxOutput - Len(out[j])]

WriteOutput(j, n) ==
    /\ jobAt[j] = "running"
    /\ JobWrite(j, n)
    /\ UNCHANGED <<jobAt, jobOwner, kept, running, finishOrder, stale, jobPolls>>

(* The command could not run or timed out: the error text is output too, in  *)
(* a critical section before the one that sets the result.                   *)
JobFails(j, n) ==
    /\ jobAt[j] = "running"
    /\ JobWrite(j, n)
    /\ jobAt' = [jobAt EXCEPT ![j] = "failed"]
    /\ UNCHANGED <<jobOwner, kept, running, finishOrder, stale, jobPolls>>

(* done, code and finished, together. *)
JobDone(j) ==
    /\ jobAt[j] \in {"running", "failed"}
    /\ jobAt' = [jobAt EXCEPT ![j] = "done"]
    /\ finishOrder' = Append(finishOrder, j)
    /\ UNCHANGED <<jobOwner, out, jobCut, kept, running, stale, jobPolls>>

(* After onDone, the store's critical section: the count, then a collection. *)
JobOver(j) ==
    /\ jobAt[j] = "done"
    /\ jobAt' = [jobAt EXCEPT ![j] = "over"]
    /\ running' = running - 1
    /\ kept' = CollectJobs(kept, finishOrder)
    /\ UNCHANGED <<jobOwner, out, jobCut, finishOrder, stale, jobPolls>>

(* doExecPoll, getFor: the store collects, and a job that is gone or another *)
(* controller's is answered alike, after one more get.                       *)
PollFinds(c, j) ==
    /\ polling[c] = "none"
    /\ kept' = CollectJobs(kept, finishOrder)
    /\ polling' = [polling EXCEPT ![c] = IF j \in kept' /\ jobOwner[j] = c THEN j ELSE "none"]
    /\ UNCHANGED <<jobRun, running, stale, seen, toldOver>>

(* snapshot: the bytes past the offset and the status, of one moment.  The   *)
(* job may have left the store since.                                        *)
Snapshot(j, offset) == SubSeq(out[j], Min({offset, Len(out[j])}) + 1, Len(out[j]))

PollReads(c) ==
    /\ polling[c] \in Jobs
    /\ LET j == polling[c]
       IN  /\ seen' = [seen EXCEPT ![c][j] = @ \o Snapshot(j, Len(@))]
           /\ toldOver' = [toldOver EXCEPT ![c] = IF IsDone(j) THEN @ \cup {j} ELSE @]
    /\ polling' = [polling EXCEPT ![c] = "none"]
    /\ UNCHANGED <<jobRun, kept, running, stale>>

RetentionEnds(j) ==
    /\ IsDone(j) /\ j \notin stale
    /\ stale' = stale \cup {j}
    /\ UNCHANGED <<jobRun, kept, running, jobPolls>>

JobsNext ==
    \/ \E j \in Jobs :
         \/ \E c \in Controllers : StartJob(j, c) \/ PollFinds(c, j)
         \/ \E n \in JobWrites : WriteOutput(j, n) \/ JobFails(j, n)
         \/ JobDone(j) \/ JobOver(j) \/ RetentionEnds(j)
    \/ \E c \in Controllers : PollReads(c)

JobsSpec == JobsInit /\ [][JobsNext]_jobVars

(* runningCount, which the updater asks before it restarts the device, is    *)
(* never below the number of commands really running, nor over the limit.    *)
CountCoversRuns ==
    /\ running = Cardinality({j \in Jobs : jobAt[j] \in {"running", "failed", "done"}})
    /\ running <= MaxConcurrentJobs

(* Collection, which any start, end or poll runs, never takes a job whose    *)
(* command still runs: its output and exit code stay reachable.              *)
RunningStaysReachable == \A j \in Jobs : jobAt[j] \in {"running", "failed"} => j \in kept

(* What is retained exceeds the budgets only by jobs that have ended since   *)
(* the last collection.                                                      *)
RetainedWithinBudget ==
    LET ended == {j \in kept : jobAt[j] = "over"}
        late  == {j \in kept : jobAt[j] = "done"}
    IN  /\ Cardinality(ended) <= MaxRetainedJobs + Cardinality(late)
        /\ late = {} => MapThenSumSet(LAMBDA j : Len(out[j]), ended) <= MaxRetainedBytes

(* jobWriter and snapshot: a controller that polls by offset has the job's   *)
(* bytes, none twice and none left out, up to the notice, which may stand in *)
(* for bytes it has; a job is read by who started it, and who was told that  *)
(* it ended has all of it.                                                   *)
PollsReadOutput ==
    \A c \in Controllers, j \in Jobs :
      /\ seen[c][j] # <<>> \/ j \in toldOver[c] => jobOwner[j] = c
      /\ \A k \in 1 .. Len(seen[c][j]) :
           seen[c][j][k] = k \/ (jobCut[j] /\ seen[c][j][k] = 0 /\ k > MaxOutput - NoticeLen)
      /\ j \in toldOver[c] => Len(seen[c][j]) = Len(out[j])
=============================================================================
