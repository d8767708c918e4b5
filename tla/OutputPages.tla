------------------------------- MODULE OutputPages -------------------------------
(***************************************************************************)
(* What a caller of the MCP tools is shown of a command's output: the      *)
(* keeper that holds the two ends of a stream while it arrives, the poll   *)
(* of a job that looks again while it waits, the page of a workspace       *)
(* (internal/mcp/server.go, workspace.go), and the copy of a long output   *)
(* that the device keeps in a file (internal/server/spill.go).             *)
(*                                                                         *)
(* A byte is its position in the output.  Text is one byte a character;    *)
(* cutting inside a character is left out.                                 *)
(***************************************************************************)
EXTENDS Integers, Sequences, FiniteSets

CONSTANTS
    OpHead, OpTail,     \* clampHead, and the rest of maxExecStream
    OpPage,             \* what a device answers one workspace poll with
    OpMax,              \* bytes a command prints
    OpFails,            \* polls that fail
    OpCmds,             \* commands whose output is kept in files
    OpThreshold, OpCap, OpFiles     \* SpillAfter, MaxSpillBytes, MaxSpillFiles

ASSUME OpAssumption ==
    /\ OpHead \in Nat \ {0} /\ OpTail \in Nat \ {0} /\ OpPage \in Nat \ {0} /\ OpMax \in Nat /\ OpFails \in Nat
    /\ OpThreshold \in Nat \ {0} /\ OpCap \in Nat /\ OpFiles \in Nat \ {0}

VARIABLES
    opOut,      \* the job: bytes printed, and whether it ended
    opCall,     \* the tool call
    opFailed,   \* polls that failed
    opSpill,    \* per command: its SpillWriter
    opDir       \* the files, oldest first, each with whether its hour is over

opVars == <<opOut, opCall, opFailed, opSpill, opDir>>
opPoll == <<opOut, opCall, opFailed>>
opKept == <<opSpill, opDir>>

OpLastOf(s, n) == SubSeq(s, IF Len(s) > n THEN Len(s) - n + 1 ELSE 1, Len(s))
OpUpTo(a, b) == [i \in 1..(IF b > a THEN b - a ELSE 0) |-> a + i]

(***************************************************************************)
(* The keeper.                                                             *)
(***************************************************************************)

OpKeeper(headN, tailN) == [headN |-> headN, tailN |-> tailN, head |-> <<>>, tail |-> <<>>, total |-> 0]
OpKeepEnds == OpKeeper(OpHead, OpTail)

(* The tail runs to twice its size before it is shifted down. *)
OpWrite(k, p) ==
    LET room == k.headN - Len(k.head)
        take == IF room < Len(p) THEN room ELSE Len(p)
        rest == OpLastOf(SubSeq(p, take + 1, Len(p)), k.tailN)
        old  == IF Len(k.tail) + Len(rest) > 2 * k.tailN THEN OpLastOf(k.tail, k.tailN - Len(rest)) ELSE k.tail
    IN  [k EXCEPT !.head = @ \o SubSeq(p, 1, take), !.tail = old \o rest, !.total = @ + Len(p)]

OpLast(k) == OpLastOf(k.tail, k.tailN)

OpAbsorbUncounted(k, o) == OpWrite(OpWrite(k, o.head), OpLast(o))

(* As if the other keeper's whole stream had been written here. *)
OpAbsorb(k, o) ==
    LET k1 == OpWrite(k, o.head)
    IN  OpWrite([k1 EXCEPT !.total = @ + o.total - Len(o.head) - Len(OpLast(o))], OpLast(o))

(* clampText: everything while it fits, otherwise the ends. *)
OpShown(k, from) ==
    IF k.total <= OpHead + OpTail
    THEN [from |-> from, head |-> k.head \o k.tail, skipped |-> 0, tail |-> <<>>, next |-> from + k.total]
    ELSE [from |-> from, head |-> k.head, skipped |-> k.total - Len(k.head) - Len(OpLast(k)), tail |-> OpLast(k), next |-> from + k.total]

(***************************************************************************)
(* The job, polled.                                                        *)
(***************************************************************************)

OpIdle == [kind |-> "none", at |-> "idle", first |-> TRUE, from |-> 0, off |-> 0, sent |-> 0, upto |-> 0,
           buf |-> OpKeepEnds, got |-> OpKeepEnds, ans |-> {}]

OpInit ==
    /\ opOut = [n |-> 0, done |-> FALSE] /\ opCall = OpIdle /\ opFailed = 0
    /\ opSpill = [c \in OpCmds |-> [at |-> "held", total |-> 0, kept |-> 0, path |-> FALSE]]
    /\ opDir = <<>>

OpPrints(n) ==
    /\ ~opOut.done /\ opOut.n + n <= OpMax
    /\ opOut' = [opOut EXCEPT !.n = @ + n]
    /\ UNCHANGED <<opCall, opFailed, opKept>>

OpEnds ==
    /\ ~opOut.done
    /\ opOut' = [opOut EXCEPT !.done = TRUE]
    /\ UNCHANGED <<opCall, opFailed, opKept>>

(* A call for what follows the offset the last answer ended at. *)
OpBegin(kind) ==
    /\ opCall.at = "idle"
    /\ opCall' = [opCall EXCEPT !.kind = kind, !.at = "poll", !.first = TRUE, !.from = opCall.off, !.buf = OpKeepEnds, !.ans = {}]
    /\ UNCHANGED <<opOut, opFailed, opKept>>

(* doExecPoll: what there is past the offset, then how far that was. *)
OpPollBegins ==
    /\ opCall.kind = "poll" /\ opCall.at = "poll"
    /\ opCall' = [opCall EXCEPT !.at = "stream", !.sent = opCall.off, !.upto = opOut.n, !.got = OpKeepEnds]
    /\ UNCHANGED <<opOut, opFailed, opKept>>

OpFrame(n) ==
    /\ opCall.at = "stream" /\ opCall.sent + n <= opCall.upto
    /\ opCall' = [opCall EXCEPT !.sent = @ + n, !.got = OpWrite(@, OpUpTo(opCall.sent, opCall.sent + n))]
    /\ UNCHANGED <<opOut, opFailed, opKept>>

(* The poll's end: its keeper joins the earlier ones', and if the job      *)
(* still runs there may be another look before the wait is over.           *)
OpPollEnds ==
    /\ opCall.at = "stream" /\ opCall.sent = opCall.upto
    /\ LET joined == [opCall EXCEPT !.buf = IF opCall.first THEN opCall.got ELSE OpAbsorb(@, opCall.got),
                                    !.first = FALSE, !.off = opCall.upto]
       IN  opCall' \in {[joined EXCEPT !.at = "answer"]} \cup (IF opOut.done THEN {} ELSE {[joined EXCEPT !.at = "poll"]})
    /\ UNCHANGED <<opOut, opFailed, opKept>>

(* The first poll's failure is the call's; a later one leaves what was     *)
(* true before it.                                                         *)
OpPollFails ==
    /\ opCall.at = "stream" /\ opFailed < OpFails
    /\ opFailed' = opFailed + 1
    /\ opCall' = IF opCall.first THEN [OpIdle EXCEPT !.off = opCall.from] ELSE [opCall EXCEPT !.at = "answer"]
    /\ UNCHANGED <<opOut, opKept>>

OpAnswers ==
    /\ opCall.at = "answer"
    /\ opCall' = [OpIdle EXCEPT !.off = opCall.off, !.ans = {OpShown(opCall.buf, opCall.from)}]
    /\ UNCHANGED <<opOut, opFailed, opKept>>

(***************************************************************************)
(* A workspace's page.                                                     *)
(***************************************************************************)

OpForward(from) == LET end == IF from + OpPage < opOut.n THEN from + OpPage ELSE opOut.n
                   IN  [from |-> from, head |-> OpUpTo(from, end), skipped |-> 0, tail |-> <<>>, next |-> end]

(* waitWorkspace's last look, and whether it fits. *)
OpLook ==
    /\ opCall.kind = "page" /\ opCall.at = "poll"
    /\ opCall' = IF opOut.n - opCall.from <= OpHead + OpTail
                 THEN [OpIdle EXCEPT !.off = OpForward(opCall.from).next, !.ans = {OpForward(opCall.from)}]
                 ELSE [opCall EXCEPT !.at = "tail", !.upto = opOut.n, !.ans = {OpForward(opCall.from)}]
    /\ UNCHANGED <<opOut, opFailed, opKept>>

(* clampWorkspace: the end as it was then, from a second poll, which may   *)
(* find more; the page keeps its size.                                     *)
OpClamped(fwd) ==
    LET start == opCall.upto - OpTail
        t     == OpForward(start)
        tail  == SubSeq(t.head, 1, IF Len(t.head) > OpTail THEN OpTail ELSE Len(t.head))
        head  == SubSeq(fwd.head, 1, IF Len(fwd.head) > OpHead THEN OpHead ELSE Len(fwd.head))
    IN  [from |-> fwd.from, head |-> head, skipped |-> start - (fwd.from + Len(head)), tail |-> tail,
         next |-> t.next - (Len(t.head) - Len(tail))]

OpTailEnds ==
    /\ opCall.at = "tail"
    /\ \E fwd \in opCall.ans :
          opCall' = [OpIdle EXCEPT !.off = OpClamped(fwd).next, !.ans = {OpClamped(fwd)}]
    /\ UNCHANGED <<opOut, opFailed, opKept>>

OpTailFails ==
    /\ opCall.at = "tail" /\ opFailed < OpFails
    /\ opFailed' = opFailed + 1
    /\ \E fwd \in opCall.ans : opCall' = [OpIdle EXCEPT !.off = fwd.next, !.ans = {fwd}]
    /\ UNCHANGED <<opOut, opKept>>

(***************************************************************************)
(* The device's copy.                                                      *)
(***************************************************************************)

OpNames(d) == {d[i].cmd : i \in 1..Len(d)}
OpWithout(d, c) == SelectSeq(d, LAMBDA f : f.cmd # c)

(* sweepSpills: what is over its hour, and the oldest of too many. *)
OpSwept == LET live == SelectSeq(opDir, LAMBDA f : ~f.over)
           IN  IF Len(live) < OpFiles THEN live ELSE OpLastOf(live, OpFiles - 1)

(* A file that is written to is the newest; a removed one stays removed. *)
OpTouched(d, c) == IF c \in OpNames(d) THEN Append(OpWithout(d, c), [cmd |-> c, over |-> FALSE]) ELSE d

OpRoom(kept, n) == IF kept + n > OpCap THEN OpCap - kept ELSE n

(* append: up to the cap. *)
OpAppended(s, n) == [s EXCEPT !.kept = @ + OpRoom(@, n), !.at = IF s.kept + n > OpCap THEN "full" ELSE "open"]

OpAbandonedKept(s) == [s EXCEPT !.at = "failed", !.kept = 0]
(* abandon: no partial file, and no path. *)
OpAbandoned(s) == [s EXCEPT !.at = "failed", !.kept = 0, !.path = FALSE]

OpSpills(c, n) ==
    /\ opSpill[c].at \in {"held", "open", "full", "failed"} /\ opSpill[c].total + n <= OpMax
    /\ LET s == [opSpill[c] EXCEPT !.total = @ + n]
       IN  CASE s.at \in {"full", "failed"} -> opSpill' = [opSpill EXCEPT ![c] = s] /\ UNCHANGED opDir
             [] s.at = "held" /\ s.total <= OpThreshold -> opSpill' = [opSpill EXCEPT ![c] = s] /\ UNCHANGED opDir
             [] s.at = "held" /\ s.total > OpThreshold ->
                   \/ /\ opSpill' = [opSpill EXCEPT ![c] = OpAppended([s EXCEPT !.path = TRUE], s.total)]
                      /\ opDir' = Append(OpSwept, [cmd |-> c, over |-> FALSE])
                   \/ opSpill' = [opSpill EXCEPT ![c] = [s EXCEPT !.at = "failed"]] /\ opDir' = OpSwept
             [] OTHER ->
                   \/ opSpill' = [opSpill EXCEPT ![c] = OpAppended(s, n)] /\ opDir' = OpTouched(opDir, c)
                   \/ opSpill' = [opSpill EXCEPT ![c] = OpAbandoned(s)] /\ opDir' = OpWithout(opDir, c)
    /\ UNCHANGED opPoll

(* The command ends, and its caller learns what was kept. *)
OpCloses(c) ==
    /\ opSpill[c].at \in {"held", "open", "full", "failed"}
    /\ opSpill' = [opSpill EXCEPT ![c].at = "closed"]
    /\ UNCHANGED <<opPoll, opDir>>

(* An hour without a write. *)
OpHour(i) ==
    /\ i <= Len(opDir) /\ ~opDir[i].over
    /\ opDir' = [opDir EXCEPT ![i].over = TRUE]
    /\ UNCHANGED <<opPoll, opSpill>>

OpPollNext ==
    \/ OpEnds \/ OpPollBegins \/ OpPollEnds \/ OpPollFails \/ OpAnswers \/ OpLook \/ OpTailEnds \/ OpTailFails
    \/ \E n \in 1..OpMax : OpPrints(n) \/ OpFrame(n)
    \/ \E kind \in {"poll", "page"} : OpBegin(kind)

OpSpillNext ==
    \/ \E c \in OpCmds : OpCloses(c) \/ \E n \in 1..OpMax : OpSpills(c, n)
    \/ \E i \in 1..Cardinality(OpCmds) : OpHour(i)

(* The two halves share nothing and are looked at one at a time. *)
OpNext ==
    \/ OpPollNext /\ \A c \in OpCmds : opSpill[c].total = 0
    \/ OpSpillNext /\ opOut.n = 0 /\ opCall = OpIdle

OpSpec == OpInit /\ [][OpNext]_opVars

(***************************************************************************)
(* Properties.                                                             *)
(***************************************************************************)

(* An answer shows exactly what lies between the offset it was asked for   *)
(* and the one it says to continue from: its start, its end, and the size  *)
(* of what it left out between them, whatever was printed meanwhile and    *)
(* whichever polls failed (mcpExecPoll, outputKeeper, clampWorkspace).     *)
OpPageTrue ==
    \A a \in opCall.ans :
        /\ a.head = OpUpTo(a.from, a.from + Len(a.head))
        /\ a.tail = OpUpTo(a.next - Len(a.tail), a.next)
        /\ a.skipped = a.next - a.from - Len(a.head) - Len(a.tail) /\ a.skipped >= 0
        /\ a.next <= opOut.n

(* A path is only told for a file that holds the output's beginning up to  *)
(* the cap (SpillWriter: abandon, Close).                                  *)
OpSpillWhole ==
    \A c \in OpCmds : opSpill[c].at = "closed" /\ opSpill[c].path
        => opSpill[c].kept = (IF opSpill[c].total > OpCap THEN OpCap ELSE opSpill[c].total)

(* The path that is told is the path of a file (SpillWriter).  A command   *)
(* that is quiet for an hour, or outlived by as many newer files as are    *)
(* kept, loses its file while it still writes to it.                       *)
OpToldExists ==
    [][\A c \in OpCmds : opSpill[c].at # "closed" /\ opSpill'[c].at = "closed" /\ opSpill'[c].path => c \in OpNames(opDir)]_opVars
================================================================================
