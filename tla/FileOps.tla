--------------------------------- MODULE FileOps ---------------------------------
(***************************************************************************)
(* Files on the device (internal/server/files.go, fileops.go) and what the *)
(* controller learns of them (internal/client/files.go, fileops.go, the    *)
(* file tools of internal/mcp/server.go): read, edit, write and put of one *)
(* path by several sessions at once, over connections that may be lost.    *)
(*                                                                         *)
(* A text is a sequence of characters, "n" the newline.  A hash is the     *)
(* text itself.  The file's directory is an identity, since a path may     *)
(* come to lead elsewhere while an operation runs; wanctl's own            *)
(* directories are the ones no operation may work in.                      *)
(***************************************************************************)
EXTENDS Integers, Sequences, FiniteSets, SequencesExt

CONSTANTS
    FoCalls,        \* sessions, each asking for one operation
    FoKinds,        \* the operations they ask for
    FoTexts,        \* texts the algorithms are looked at with
    FoSeed,         \* what the file holds at first
    FoReadCap,      \* protocol.MaxReadBytes
    FoReturnCap,    \* maxReadReturn
    FoPutSize       \* bytes of an upload

ASSUME FoAssumption ==
    /\ FoReadCap \in Nat \ {0} /\ FoReturnCap \in Nat \ {0} /\ FoPutSize \in Nat \ {0}

VARIABLES
    foText,     \* the text the algorithms are looked at with
    foFile,     \* what the path names in the user's directory
    foTemps,    \* temporary files, by the call that made them
    foWhere,    \* the directory the path leads to
    foOwn,      \* wanctl's config directory and those beneath it
    foCall      \* per call

foVars == <<foText, foFile, foTemps, foWhere, foOwn, foCall>>
foPlace == <<foWhere, foOwn>>

(***************************************************************************)
(* Reading a range of lines.                                               *)
(***************************************************************************)

FoBreaks(text) == SetToSortSeq({i \in 1..Len(text) : text[i] = "n" \/ i = Len(text)}, <)
FoTotal(text) == Len(FoBreaks(text))
FoLine(text, k) == SubSeq(text, IF k = 1 THEN 1 ELSE FoBreaks(text)[k - 1] + 1, FoBreaks(text)[k])
FoJoined(text, a, b) == SubSeq(text, IF a = 1 THEN 1 ELSE FoBreaks(text)[a - 1] + 1, FoBreaks(text)[b])

FoCollector == [out |-> <<>>, first |-> 0, last |-> 0, truncated |-> FALSE, done |-> FALSE, long |-> 0]

FoCommitLineCut(c, k, line) ==
    IF c.done THEN c
    ELSE IF Len(line) <= FoReadCap - Len(c.out)
    THEN [c EXCEPT !.out = @ \o line, !.first = IF @ = 0 THEN k ELSE @, !.last = k]
    ELSE [c EXCEPT !.out = SubSeq(@ \o line, 1, FoReadCap), !.last = k, !.truncated = TRUE, !.done = TRUE,
                   !.first = IF @ = 0 THEN k ELSE @, !.long = IF c.out = <<>> THEN k ELSE 0]

(* commitLine: a whole line, or nothing more; a line that is larger than   *)
(* the cap by itself comes back as its start, and is named.                *)
FoCommitLine(c, k, line) ==
    IF c.done THEN c
    ELSE IF Len(line) <= FoReadCap - Len(c.out)
    THEN [c EXCEPT !.out = @ \o line, !.first = IF @ = 0 THEN k ELSE @, !.last = k]
    ELSE IF c.out = <<>>
    THEN [c EXCEPT !.out = SubSeq(line, 1, FoReadCap), !.first = k, !.last = k, !.long = k,
                   !.truncated = TRUE, !.done = TRUE]
    ELSE [c EXCEPT !.truncated = TRUE, !.done = TRUE]

(* readLineRange, on a text already found to be one. *)
FoReadLines(text, offset, limit) ==
    LET to == IF offset + limit - 1 < FoTotal(text) THEN offset + limit - 1 ELSE FoTotal(text)
    IN  FoldLeft(LAMBDA c, k : FoCommitLine(c, k, FoLine(text, k)), FoCollector, [i \in 1..(to - offset + 1) |-> offset + i - 1])

FoNewlines(s) == {i \in 1..Len(s) : s[i] = "n"}

(* capRead: what one tool call hands on of that. *)
FoCapRead(r) ==
    LET cuts == FoNewlines(SubSeq(r.out, 1, FoReturnCap))
        cut  == CHOOSE i \in cuts : \A j \in cuts : j <= i
    IN  IF Len(r.out) <= FoReturnCap THEN r
        ELSE IF r.long = 0 /\ cuts # {}
        THEN [r EXCEPT !.out = SubSeq(@, 1, cut), !.last = r.first + Cardinality(cuts) - 1, !.truncated = TRUE]
        ELSE [r EXCEPT !.out = SubSeq(@, 1, FoReturnCap), !.last = r.first, !.long = r.first, !.truncated = TRUE]

(***************************************************************************)
(* Editing.                                                                *)
(***************************************************************************)

FoAt(text, old, i) == i + Len(old) - 1 <= Len(text) /\ SubSeq(text, i, i + Len(old) - 1) = old

(* strings.Count and strings.Index: matches do not overlap, the first wins. *)
FoMatches(text, old) ==
    LET next[i \in 1..(Len(text) + 1)] ==
            IF i > Len(text) THEN <<>>
            ELSE IF FoAt(text, old, i) THEN <<i>> \o next[i + Len(old)] ELSE next[i + 1]
    IN  next[1]

(* Every span replaced at once; {} is a refusal. *)
FoReplaced(text, edits, at) ==
    LET piece(i) == LET here == {k \in 1..Len(edits) : at[k] = i}
                    IN  IF here # {} THEN edits[CHOOSE k \in here : TRUE].new
                        ELSE IF \E k \in 1..Len(edits) : i \in at[k]..(at[k] + Len(edits[k].old) - 1) THEN <<>>
                        ELSE <<text[i]>>
    IN  FoldLeft(LAMBDA s, i : s \o piece(i), <<>>, [i \in 1..Len(text) |-> i])

FoApplyEditsInTurn(text, edits) ==
    LET one(t, e) == IF t # {} /\ Len(FoMatches(CHOOSE x \in t : TRUE, e.old)) = 1
                     THEN {FoReplaced(CHOOSE x \in t : TRUE, <<e>>, FoMatches(CHOOSE x \in t : TRUE, e.old))} ELSE {}
    IN  FoldLeft(one, {text}, edits)

(* applyEdits: each entry matches the text once, as it was before any of   *)
(* them, and no two claim the same characters.                             *)
FoApplyEdits(text, edits) ==
    LET at == [k \in 1..Len(edits) |-> FoMatches(text, edits[k].old)]
        to(k) == at[k][1] + Len(edits[k].old)
    IN  IF /\ \A k \in 1..Len(edits) : Len(at[k]) = 1
           /\ \A k, l \in 1..Len(edits) : at[k][1] <= at[l][1] /\ k # l => to(k) <= at[l][1]
        THEN {FoReplaced(text, edits, [k \in 1..Len(edits) |-> at[k][1]])}
        ELSE {}

(***************************************************************************)
(* The operations.                                                         *)
(***************************************************************************)

FoChanges == {"edit", "write", "put"}
FoEditOld == <<"x">>
FoEditNew == <<"y">>

FoIdle == [kind |-> "none", at |-> "idle", pass |-> 1, guard |-> {}, dir |-> "home", seen |-> <<>>, tmp |-> <<>>,
           sent |-> 0, wrote |-> FALSE, reply |-> "none", told |-> "none"]

FoInit ==
    /\ foText \in FoTexts /\ foFile = FoSeed
    /\ foTemps = {} /\ foWhere = "home" /\ foOwn = {"config"}
    /\ foCall = [c \in FoCalls |-> FoIdle]

(* The request is on the wire; an upload's data follows it.  A file that   *)
(* changes while it is sent yields fewer bytes than were announced, or     *)
(* more.                                                                   *)
FoAsk(c, kind, n) ==
    /\ foCall[c].at = "idle" /\ (kind # "put" => n = 0)
    /\ foCall' = [foCall EXCEPT ![c].kind = kind, ![c].at = "gate", ![c].sent = n,
                                ![c].pass = IF kind = "put" THEN 2 ELSE 1]
    /\ UNCHANGED <<foText, foFile, foTemps, foPlace>>

FoAnswer(c, reply) == [foCall EXCEPT ![c].at = "over", ![c].reply = reply, ![c].guard = {}, ![c].seen = <<>>, ![c].tmp = <<>>]

(* rootedName: what is protected now, and where the path leads.  A change  *)
(* goes through it twice, to look at the file and to replace it.           *)
FoRootedName(c) ==
    /\ foCall[c].at = "gate"
    /\ \/ foCall' = [foCall EXCEPT ![c].at = "open", ![c].guard = foOwn] /\ foWhere \notin foOwn
       \/ foCall' = FoAnswer(c, "refused")
    /\ UNCHANGED <<foText, foFile, foTemps, foPlace>>

FoRefusesAsLoaded(guard, dir) == dir \in guard
(* checkOpened: by what was protected before the open, and what is now. *)
FoRefuses(guard, dir) == dir \in guard \/ dir \in foOwn

(* The directory is opened; from here on it is that one. *)
FoOpen(c) ==
    /\ foCall[c].at = "open"
    /\ foCall' = IF FoRefuses(foCall[c].guard, foWhere) THEN FoAnswer(c, "refused")
                 ELSE [foCall EXCEPT ![c].at = IF foCall[c].pass = 1 THEN "load" ELSE "temp",
                                     ![c].dir = foWhere, ![c].guard = {}]
    /\ UNCHANGED <<foText, foFile, foTemps, foPlace>>

(* A read answers with what it found, whole. *)
FoRead(c) ==
    /\ foCall[c].at = "load" /\ foCall[c].kind = "read"
    /\ foCall' = FoAnswer(c, "ok")
    /\ UNCHANGED <<foText, foFile, foTemps, foPlace>>

(* An edit is worked out on the text it found; a hash that the caller      *)
(* expected, or a match, that is not there refuses it.                     *)
FoEdit(c) ==
    /\ foCall[c].at = "load" /\ foCall[c].kind = "edit"
    /\ \/ /\ FoApplyEdits(foFile, <<[old |-> FoEditOld, new |-> FoEditNew]>>) # {}
          /\ foCall' = [foCall EXCEPT ![c].at = "gate", ![c].pass = 2, ![c].seen = foFile]
       \/ foCall' = FoAnswer(c, "refused")
    /\ UNCHANGED <<foText, foFile, foTemps, foPlace>>

(* A write looks for the mode of the file it replaces. *)
FoWrite(c) ==
    /\ foCall[c].at = "load" /\ foCall[c].kind = "write"
    /\ \/ foCall' = [foCall EXCEPT ![c].at = "gate", ![c].pass = 2]
       \/ foCall' = FoAnswer(c, "refused")
    /\ UNCHANGED <<foText, foFile, foTemps, foPlace>>

FoUpdated(c) == CASE foCall[c].kind = "edit" -> CHOOSE t \in FoApplyEdits(foCall[c].seen, <<[old |-> FoEditOld, new |-> FoEditNew]>>) : TRUE
                  [] foCall[c].kind = "write" -> <<"w">>
                  [] OTHER -> <<>>

(* newPendingUploadIn: a file of its own beside the target, or an error. *)
FoNewPending(c) ==
    /\ foCall[c].at = "temp"
    /\ \/ /\ foTemps' = foTemps \cup {c}
          /\ foCall' = [foCall EXCEPT ![c].at = IF foCall[c].kind = "put" THEN "receive" ELSE "commit", ![c].tmp = FoUpdated(c)]
       \/ foCall' = FoAnswer(c, "refused") /\ UNCHANGED foTemps
    /\ UNCHANGED <<foText, foFile, foPlace>>

(* abort: the temporary file goes, with every error. *)
FoAborts(c, reply) == foTemps' = foTemps \ {c} /\ foCall' = FoAnswer(c, reply) /\ UNCHANGED foFile

FoReceiveInPlace(c) ==
    /\ foCall[c].at = "receive" /\ Len(foCall[c].tmp) < foCall[c].sent
    /\ Len(foCall[c].tmp) < FoPutSize
    /\ foCall' = [foCall EXCEPT ![c].tmp = Append(@, "p")]
    /\ foFile' = foCall'[c].tmp
    /\ UNCHANGED <<foText, foTemps, foPlace>>

(* A data frame, never past the size that was declared. *)
FoReceive(c) ==
    /\ foCall[c].at = "receive" /\ Len(foCall[c].tmp) < foCall[c].sent
    /\ \/ /\ Len(foCall[c].tmp) < FoPutSize
          /\ foCall' = [foCall EXCEPT ![c].tmp = Append(@, "p")]
          /\ UNCHANGED <<foFile, foTemps>>
       \/ FoAborts(c, "refused")
    /\ UNCHANGED <<foText, foPlace>>

(* The end of the data. *)
FoReceived(c) ==
    /\ foCall[c].at = "receive" /\ Len(foCall[c].tmp) = foCall[c].sent
    /\ IF Len(foCall[c].tmp) = FoPutSize
       THEN foCall' = [foCall EXCEPT ![c].at = "commit"] /\ UNCHANGED <<foFile, foTemps>>
       ELSE FoAborts(c, "refused")
    /\ UNCHANGED <<foText, foPlace>>

(* commit: flushed, closed and renamed over the target, or abandoned. *)
FoCommit(c) ==
    /\ foCall[c].at = "commit"
    /\ \/ /\ foFile' = foCall[c].tmp /\ foTemps' = foTemps \ {c}
          /\ foCall' = [FoAnswer(c, "ok") EXCEPT ![c].wrote = TRUE]
       \/ FoAborts(c, "refused")
    /\ UNCHANGED <<foText, foPlace>>

(* The answer arrives. *)
FoTold(c) ==
    /\ foCall[c].at = "over" /\ foCall[c].told = "none" /\ foCall[c].reply # "none"
    /\ foCall' = [foCall EXCEPT ![c].told = foCall[c].reply]
    /\ UNCHANGED <<foText, foFile, foTemps, foPlace>>

FoOnLossUnsupported(kind) == IF kind = "put" THEN "error" ELSE "refused"
(* What a caller is told when the connection ends before the answer: for a *)
(* put the error as it is, otherwise that the result is unknown.           *)
FoOnLoss(kind) == IF kind = "put" THEN "error" ELSE "unknown"

(* The connection is lost.  The device finds out only where it reads. *)
FoLost(c) ==
    /\ foCall[c].at # "idle" /\ foCall[c].told = "none"
    /\ LET told == [foCall EXCEPT ![c].told = FoOnLoss(foCall[c].kind)]
       IN  IF foCall[c].at = "receive"
           THEN /\ foCall' = [told EXCEPT ![c].at = "over", ![c].tmp = <<>>]
                /\ foTemps' = foTemps \ {c}
           ELSE foCall' = told /\ UNCHANGED foTemps
    /\ UNCHANGED <<foText, foFile, foPlace>>

(* The agent dies: nothing is cleaned up, and every connection is lost. *)
FoDies ==
    /\ \E c \in FoCalls : foCall[c].at \notin {"idle", "over"}
    /\ foCall' = [c \in FoCalls |-> IF foCall[c].at \in {"idle", "over"} THEN foCall[c]
                                    ELSE [foCall[c] EXCEPT !.at = "over", !.guard = {}, !.seen = <<>>, !.tmp = <<>>,
                                             !.told = IF @ = "none" THEN FoOnLoss(foCall[c].kind) ELSE @]]
    /\ UNCHANGED <<foText, foFile, foTemps, foPlace>>

(* The engine cache is made beneath the config directory on first use, and *)
(* a directory on the path is replaced.                                    *)
FoCacheMade ==
    /\ "cache" \notin foOwn /\ foOwn' = foOwn \cup {"cache"}
    /\ UNCHANGED <<foText, foFile, foTemps, foWhere, foCall>>

FoRedirected(d) ==
    /\ d \in foOwn /\ foWhere = "home" /\ foWhere' = d
    /\ UNCHANGED <<foText, foFile, foTemps, foOwn, foCall>>

FoStep(c) ==
    \/ FoRootedName(c) \/ FoOpen(c) \/ FoRead(c) \/ FoEdit(c) \/ FoWrite(c) \/ FoNewPending(c) \/ FoReceive(c) \/ FoReceived(c)
    \/ FoCommit(c) \/ FoTold(c) \/ FoLost(c)
    \/ \E kind \in FoKinds, n \in {0} \cup ((FoPutSize - 1)..(FoPutSize + 1)) : FoAsk(c, kind, n)

(* The algorithms are looked at on their own. *)
FoNext ==
    /\ foText = <<>>
    /\ \/ \E c \in FoCalls : FoStep(c)
       \/ FoDies \/ FoCacheMade
       \/ \E d \in {"config", "cache"} : FoRedirected(d)

FoSpec == FoInit /\ [][FoNext]_foVars

(***************************************************************************)
(* Properties.                                                             *)
(***************************************************************************)

FoPageIsLines(r, from, limit, cap) ==
    /\ r.first = from /\ r.last \in from..FoTotal(foText) /\ Len(r.out) <= cap
    /\ r.long = 0 => r.out = FoJoined(foText, r.first, r.last)
    /\ r.long # 0 => r.last = from /\ Len(FoLine(foText, from)) > cap
    /\ ~r.truncated => r.last = (IF from + limit - 1 < FoTotal(foText) THEN from + limit - 1 ELSE FoTotal(foText))

(* A page of a file, as the device cuts it and as the tool cuts that       *)
(* again, is exactly the lines it says it is, begins where it was asked to *)
(* and moves forward, so that reading on at last+1 visits every line once  *)
(* (readLineRange, lineCollector, capRead).                                *)
FoPageWhole ==
    \A from \in 1..FoTotal(foText), limit \in 1..2 :
        LET r == FoReadLines(foText, from, limit)
        IN  FoPageIsLines(r, from, limit, FoReadCap) /\ FoPageIsLines(FoCapRead(r), from, limit, FoReturnCap)

FoEntries == {[old |-> o, new |-> w] : o \in {<<"x">>, <<"y">>, <<"x", "y">>, <<"n", "x">>}, w \in {<<>>, <<"x">>, <<"y", "y">>}}

(* A batch of edits means the same in whatever order its entries come:     *)
(* each is matched with the text as it was read (applyEdits).              *)
FoBatchOrderFree ==
    foText # <<>> => \A e1, e2 \in FoEntries : FoApplyEdits(foText, <<e1, e2>>) = FoApplyEdits(foText, <<e2, e1>>)

(* A caller that is told of a refusal finds the file as it was, and one    *)
(* that is told of success finds the change made (fileOpOver, fileReply,   *)
(* pushReader, commitEdit): a lost answer is never passed off as either.   *)
FoToldTrue ==
    \A c \in FoCalls :
        /\ foCall[c].told = "refused" => ~foCall[c].wrote
        /\ foCall[c].told = "ok" /\ foCall[c].kind \in FoChanges => foCall[c].wrote

(* Whatever is cut off where - an upload, its connection, the agent - the  *)
(* file never holds a part of one (pendingUpload).                         *)
FoNeverPartial == Cardinality({i \in 1..Len(foFile) : foFile[i] = "p"}) \in {0, FoPutSize}

(* No operation works in wanctl's own directories, one that was made while *)
(* it was on its way there included (rootedName, checkOpened).             *)
FoOwnUntouched ==
    \A c \in FoCalls : foCall[c].at \in {"load", "temp", "receive", "commit"} => foCall[c].dir \notin foOwn

(* An edit replaces the text it was worked out on, and not what somebody   *)
(* else put there since (fileops.go: a patch that is a whole-file          *)
(* overwrite "loses anything written since the read").                     *)
FoEditKeepsOthers ==
    [][\A c \in FoCalls : foCall[c].kind = "edit" /\ ~foCall[c].wrote /\ foCall'[c].wrote => foFile = foCall[c].seen]_foVars
================================================================================
