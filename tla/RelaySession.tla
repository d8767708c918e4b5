---------------------------- MODULE RelaySession ----------------------------
(***************************************************************************)
(* How an HTTP session ends (internal/relay: handleHDown, handleHClose,     *)
(* releaseDrainedSession, endSessionsOfGoneAgents, http_disconnect.go,      *)
(* reapHTTP, closeHTTPSession).  A session has two directions.  A side that *)
(* closes leaves what it sent to be read; the session leaves the registry   *)
(* once both directions have been taken, or at once when the relay ends it. *)
(* Each handler is the sequence of its critical sections, so that the       *)
(* checks on the way out interleave as they do in the code.                 *)
(*                                                                         *)
(* A direction's chunks are numbered; DownChannel has their bytes, splits   *)
(* and windows, UpChannel the writes.  Waiting times are not measured:      *)
(* whatever a timer does may happen once its condition holds.               *)
(***************************************************************************)
EXTENDS Integers, FiniteSets, FiniteSetsExt

CONSTANTS
    MaxSent,    \* bound: chunks each side sends
    MaxPolls    \* bound: polls at the relay at once

ASSUME SessionConstants == MaxSent \in Nat /\ MaxPolls \in Nat \ {0}

Roles == {"client", "agent"}
Far(role) == IF role = "client" THEN "agent" ELSE "client"

VARIABLES
    \* the registry's entry
    goneBy,     \* "" while registered, else what removed it
    closedAt,   \* a peer has closed, or the relay has ended it
    endReason,  \* the relay ended it because the device is gone
    endTold,    \* a 410 has been written since
    \* the direction each role reads
    sent,       \* chunks put in ch
    taken,      \* of those, chunks that left ch for a poll or were dropped
    assigned,   \* handed to the reader, not acknowledged
    qdone,      \* closed to new chunks
    freed,
    polls,      \* polls at the relay or answered
    \* handlers under way
    closer,     \* closer[role]: where role's /h/close is
    scan,       \* where endSessionsOfGoneAgents is with this session
    ender,      \* where the removal of the session is: "free" then "no"
    \* the two ends
    side,       \* "open", "ended" (its Read has), "closed" or "dead"
    recv,       \* chunks received
    saw         \* how its Read ended: "", "eof", "gone", "missing" (404)

session == <<goneBy, closedAt, endReason, endTold>>
queues == <<sent, taken, assigned, qdone, freed>>
handlers == <<closer, scan, ender>>
ends == <<side, recv, saw>>
vars == <<goneBy, closedAt, endReason, endTold, sent, taken, assigned, qdone, freed,
          polls, closer, scan, ender, side, recv, saw>>

Registered == goneBy = ""

Init ==
    /\ goneBy = "" /\ closedAt = FALSE /\ endReason = FALSE /\ endTold = FALSE
    /\ sent = [r \in Roles |-> 0] /\ taken = [r \in Roles |-> 0]
    /\ assigned = [r \in Roles |-> {}]
    /\ qdone = [r \in Roles |-> FALSE] /\ freed = [r \in Roles |-> FALSE]
    /\ polls = {}
    /\ closer = [r \in Roles |-> "no"] /\ scan = "no" /\ ender = "no"
    /\ side = [r \in Roles |-> "open"]
    /\ recv = [r \in Roles |-> 0]
    /\ saw = [r \in Roles |-> ""]

-----------------------------------------------------------------------------
(* Polls.  ph: "in" past the lookup; "parked" and "hand" with the turn;     *)
(* then the answer, "data", "none" or "over"; "rel1".."rel3" the checks of  *)
(* releaseDrainedSession on the way out.                                    *)

Move(p, ph) == polls' = (polls \ {p}) \cup {[p EXCEPT !.ph = ph]}
PollsOf(role) == {p \in polls : p.role = role}
Serving(role) == \E p \in PollsOf(role) : p.ph \in {"parked", "hand"}
Undrained(role) == taken[role] < sent[role]

\* A side that reads polls when it has no poll under way.  handleHDown looks
\* the session up once; a session that is gone is a 404.
Poll(role, numbered) ==
    /\ side[role] = "open"
    /\ ~ \E p \in PollsOf(role) : p.live
    /\ Cardinality(polls) < MaxPolls
    /\ numbered => role = "client"     \* the device's numbered polls act like its others
    /\ \/ /\ Registered
          /\ polls' = polls \cup {[role |-> role, live |-> TRUE, numbered |-> numbered,
                                   ack |-> recv[role], ph |-> "in", k |-> 0]}
          /\ UNCHANGED <<side, saw>>
       \/ /\ ~Registered
          /\ side' = [side EXCEPT ![role] = "ended"]
          /\ saw' = [saw EXCEPT ![role] = "missing"]
          /\ UNCHANGED polls
    /\ UNCHANGED <<session, queues, handlers, recv>>

\* The reader gives up on its poll (a carrier failure, a closed window): the
\* request goes on at the relay until it notices.
Abandon(p) ==
    /\ p.live /\ p.ph \in {"in", "parked", "hand", "data", "none", "over"}
    /\ polls' = (polls \ {p}) \cup {[p EXCEPT !.live = FALSE]}
    /\ UNCHANGED <<session, queues, handlers, ends>>

\* A poll starts while another has the turn.
TakeNoTurn(p) ==
    /\ p.ph = "in" /\ Move(p, "parked")
    /\ UNCHANGED <<session, queues, handlers, ends>>

\* takeUpTo, with the turn: replay, drain, or park.
Take(p) ==
    /\ p.ph = "in" /\ ~Serving(p.role)
    /\ LET kept == {k \in assigned[p.role] : k > p.ack} IN
       /\ assigned' = [assigned EXCEPT ![p.role] = kept]
       /\ \/ /\ kept # {}
             /\ polls' = (polls \ {p}) \cup {[p EXCEPT !.ph = "data", !.k = Min(kept)]}
             /\ UNCHANGED taken
          \/ /\ kept = {} /\ Undrained(p.role)
             /\ taken' = [taken EXCEPT ![p.role] = @ + 1]
             /\ polls' = (polls \ {p}) \cup {[p EXCEPT !.ph = "hand", !.k = taken[p.role] + 1]}
          \/ /\ kept = {} /\ ~Undrained(p.role)
             /\ Move(p, "parked")
             /\ UNCHANGED taken
    /\ UNCHANGED <<sent, qdone, freed, session, handlers, ends>>

\* A closed queue is taken for an empty one.
ParkedEndsAtOnce(p) ==
    /\ p.ph = "parked" /\ qdone[p.role] /\ Move(p, "over")
    /\ UNCHANGED <<session, queues, handlers, ends>>

\* drainUpTo, parked: a chunk comes, the queue has closed, the wait is over, or
\* the request is gone.
ParkedEnds(p) ==
    /\ p.ph = "parked"
    /\ \/ /\ Undrained(p.role)
          /\ taken' = [taken EXCEPT ![p.role] = @ + 1]
          /\ polls' = (polls \ {p}) \cup {[p EXCEPT !.ph = "hand", !.k = taken[p.role] + 1]}
       \/ ~Undrained(p.role) /\ qdone[p.role] /\ Move(p, "over") /\ UNCHANGED taken
       \/ Move(p, "none") /\ UNCHANGED taken
    /\ UNCHANGED <<sent, assigned, qdone, freed, session, handlers, ends>>

\* assign.
Assign(p) ==
    /\ p.ph = "hand"
    /\ assigned' = [assigned EXCEPT ![p.role] = @ \cup {p.k}]
    /\ Move(p, "data")
    /\ UNCHANGED <<sent, taken, qdone, freed, session, handlers, ends>>

\* The handler just returns.
AfterAnswerNothing(p) == {}

\* The check deferred to the end of handleHDown, for which only the handler counts.
AfterAnswer(p) == {[role |-> p.role, live |-> FALSE, numbered |-> FALSE,
                    ack |-> 0, ph |-> "rel1", k |-> 0]}

\* The answer is written; then the deferred check.  A reader still there gets
\* what was written.  An unnumbered poll of the controller's that was cancelled
\* with nothing to show starts the disconnect grace instead (ControllerGrace).
AnswerPoll(p) ==
    /\ p.ph \in {"data", "none", "over"}
    /\ IF p.role = "client" /\ ~p.live /\ ~p.numbered /\ p.ph # "data"
       THEN UNCHANGED <<endTold, side, recv, saw>>
       ELSE /\ endTold' = (endTold \/ p.ph = "over")
            /\ IF ~p.live THEN UNCHANGED <<side, recv, saw>>
               ELSE /\ recv' = [recv EXCEPT ![p.role] = IF p.ph = "data" THEN p.k ELSE @]
                    /\ side' = [side EXCEPT ![p.role] = IF p.ph = "over" THEN "ended" ELSE @]
                    /\ saw' = [saw EXCEPT ![p.role] =
                                  IF p.ph # "over" THEN @
                                  ELSE IF endReason THEN "gone" ELSE "eof"]
    /\ polls' = (polls \ {p}) \cup AfterAnswer(p)
    /\ UNCHANGED <<goneBy, closedAt, endReason, queues, handlers>>

-----------------------------------------------------------------------------
(* releaseDrainedSession: two looks and a decision, run by polls and by     *)
(* /h/close                                                                 *)

\* A chunk in a poll's hands is overlooked.
SettledNoInflight(role) == qdone[role] /\ assigned[role] = {} /\ ~Undrained(role)

Settled(role) ==
    /\ qdone[role] /\ ~Serving(role)
    /\ assigned[role] = {} /\ ~Undrained(role)

\* Under hmu: a session that somebody has closed, and whose reason somebody has
\* been told.  The free after it also drops writes held for a gap.
Retire ==
    IF closedAt /\ Registered /\ (~endReason \/ endTold)
    THEN goneBy' = "drained" /\ ender' = "free"
    ELSE UNCHANGED <<goneBy, ender>>

ReleaseByPoll(p) ==
    /\ \/ /\ p.ph = "rel1"
          /\ IF Settled("client") THEN Move(p, "rel2") ELSE polls' = polls \ {p}
          /\ UNCHANGED <<goneBy, ender>>
       \/ /\ p.ph = "rel2"
          /\ IF Settled("agent") THEN Move(p, "rel3") ELSE polls' = polls \ {p}
          /\ UNCHANGED <<goneBy, ender>>
       \/ /\ p.ph = "rel3"
          /\ polls' = polls \ {p}
          /\ Retire
    /\ UNCHANGED <<closedAt, endReason, endTold, queues, closer, scan, ends>>

-----------------------------------------------------------------------------
(* The two ends *)

\* A write is queued for the far side.
Send(role) ==
    /\ side[role] \in {"open", "ended"}
    /\ Registered /\ ~closedAt /\ ~qdone[Far(role)]
    /\ sent[Far(role)] < MaxSent
    /\ sent' = [sent EXCEPT ![Far(role)] = @ + 1]
    /\ UNCHANGED <<taken, assigned, qdone, freed, session, polls, handlers, ends>>

\* conn.Close: the side reads no more, and its polls are cancelled.
CloseSide(role) ==
    /\ side[role] \in {"open", "ended"}
    /\ side' = [side EXCEPT ![role] = "closed"]
    /\ polls' = {IF p.role = role THEN [p EXCEPT !.live = FALSE] ELSE p : p \in polls}
    /\ closer' = [closer EXCEPT ![role] = "sent"]
    /\ UNCHANGED <<session, queues, scan, ender, recv, saw>>

\* The process dies: its polls are noticed as cancelled, nothing is posted.
Die(role) ==
    /\ side[role] \in {"open", "ended"}
    /\ side' = [side EXCEPT ![role] = "dead"]
    /\ polls' = {IF p.role = role THEN [p EXCEPT !.live = FALSE] ELSE p : p \in polls}
    /\ UNCHANGED <<session, queues, handlers, recv, saw>>

Dropped(role) ==
    /\ taken' = [taken EXCEPT ![role] = sent[role]]
    /\ assigned' = [assigned EXCEPT ![role] = {}]
    /\ qdone' = [qdone EXCEPT ![role] = TRUE]
    /\ freed' = [freed EXCEPT ![role] = TRUE]

\* handleHClose: marked closed under hmu, then each queue shuts, then what was
\* left for the side that closed is dropped, then the check.
HClose(role) ==
    LET step(from, to) == closer[role] = from /\ closer' = [closer EXCEPT ![role] = to] IN
    /\ \/ /\ step("sent", IF Registered THEN "marked" ELSE "done")
          /\ closedAt' = (closedAt \/ Registered)
          /\ UNCHANGED <<goneBy, ender, taken, assigned, qdone, freed>>
       \/ /\ step("marked", "shut1")
          /\ qdone' = [qdone EXCEPT !["client"] = TRUE]
          /\ UNCHANGED <<goneBy, ender, closedAt, taken, assigned, freed>>
       \/ /\ step("shut1", "shut2")
          /\ qdone' = [qdone EXCEPT !["agent"] = TRUE]
          /\ UNCHANGED <<goneBy, ender, closedAt, taken, assigned, freed>>
       \/ /\ step("shut2", "rel1")
          /\ IF freed[role] THEN UNCHANGED <<taken, assigned, qdone, freed>> ELSE Dropped(role)
          /\ UNCHANGED <<goneBy, ender, closedAt>>
       \/ /\ step("rel1", IF Settled("client") THEN "rel2" ELSE "done")
          /\ UNCHANGED <<goneBy, ender, closedAt, taken, assigned, qdone, freed>>
       \/ /\ step("rel2", IF Settled("agent") THEN "rel3" ELSE "done")
          /\ UNCHANGED <<goneBy, ender, closedAt, taken, assigned, qdone, freed>>
       \/ /\ step("rel3", "done")
          /\ Retire
          /\ UNCHANGED <<closedAt, taken, assigned, qdone, freed>>
    /\ UNCHANGED <<endReason, endTold, sent, polls, scan, ends>>

-----------------------------------------------------------------------------
(* The relay ends it *)

\* endSessionsOfGoneAgents, under hmu: the process that took the session is not
\* the one registered, or it has been silent for too long.  Which of these it is,
\* AgentRegistry says; here it may happen to any session, its device dead,
\* closed, or alive and reading on.
DeviceGone ==
    /\ scan = "no" /\ Registered /\ ~endReason
    /\ scan' = "marked"
    /\ endReason' = TRUE /\ closedAt' = TRUE
    /\ UNCHANGED <<goneBy, endTold, queues, polls, closer, ender, ends>>

\* After it: the device's direction is dropped, the controller's only closed.
ScanDrops ==
    /\ \/ /\ scan = "marked" /\ scan' = "freed"
          /\ IF freed["agent"] THEN UNCHANGED <<taken, assigned, qdone, freed>> ELSE Dropped("agent")
       \/ /\ scan = "freed" /\ scan' = "done"
          /\ qdone' = [qdone EXCEPT !["client"] = TRUE]
          /\ UNCHANGED <<taken, assigned, freed>>
    /\ UNCHANGED <<session, sent, polls, closer, ender, ends>>

\* The session leaves the registry under hmu; it is freed after that.
Remove(by) ==
    /\ Registered /\ goneBy' = by /\ ender' = "free"
    /\ UNCHANGED <<closedAt, endReason, endTold, queues, polls, closer, scan, ends>>

\* Only a session whose controller vanished is swept.
ReapClientOnly ==
    /\ side["client"] # "open" /\ ~closedAt /\ ~Serving("client")
    /\ Remove("reaped")

\* reapHTTP: a controller not heard from in longer than a live one waits, or a
\* session nobody polls any more.
Reap ==
    /\ \/ side["client"] # "open" /\ ~closedAt /\ ~Serving("client")
       \/ \A r \in Roles : side[r] # "open" /\ ~Serving(r)
    /\ Remove("reaped")

\* closeHTTPSession: a credential or a share is revoked, an account disabled, or
\* the controller's disconnect grace is over.
Ended == Remove("ended")

\* httpSession.free, after the removal.
FreeSession ==
    /\ ender = "free" /\ ender' = "no"
    /\ taken' = [r \in Roles |-> IF freed[r] THEN taken[r] ELSE sent[r]]
    /\ assigned' = [r \in Roles |-> IF freed[r] THEN assigned[r] ELSE {}]
    /\ qdone' = [r \in Roles |-> TRUE] /\ freed' = [r \in Roles |-> TRUE]
    /\ UNCHANGED <<sent, session, polls, closer, scan, ends>>

PollWork == \E p \in polls :
    Take(p) \/ ParkedEnds(p) \/ Assign(p) \/ AnswerPoll(p) \/ ReleaseByPoll(p)

HandlerWork == \/ \E r \in Roles : HClose(r)
               \/ ScanDrops \/ FreeSession

EndsStep == \/ \E r \in Roles : Send(r) \/ CloseSide(r) \/ Die(r)
            \/ \E r \in Roles, numbered \in BOOLEAN : Poll(r, numbered)
            \/ \E p \in polls : Abandon(p)

Next == PollWork \/ HandlerWork \/ EndsStep \/ DeviceGone \/ Reap \/ Ended

Spec == Init /\ [][Next]_vars

\* Handlers run, and so does the sweeper.  Nothing makes an end poll, send or
\* close, or the scan take a device for gone.
Fairness == WF_vars(PollWork \/ HandlerWork \/ Reap)
LiveSpec == Spec /\ Fairness

-----------------------------------------------------------------------------
(* Properties *)

\* The variables keep their types, and one poll of a direction has the turn.
TypeOK ==
    /\ goneBy \in {"", "drained", "ended", "reaped"}
    /\ closedAt \in BOOLEAN /\ endReason \in BOOLEAN /\ endTold \in BOOLEAN
    /\ \A r \in Roles :
        /\ sent[r] \in 0..MaxSent /\ taken[r] \in 0..sent[r]
        /\ assigned[r] \subseteq 1..taken[r]
        /\ recv[r] \in 0..taken[r]
        /\ qdone[r] \in BOOLEAN /\ freed[r] \in BOOLEAN
        /\ side[r] \in {"open", "ended", "closed", "dead"}
        /\ saw[r] \in {"", "eof", "gone", "missing"}
        /\ Cardinality({p \in PollsOf(r) : p.ph \in {"parked", "hand"}}) <= 1

\* "Nobody will read the device's direction again" (endSessionsOfGoneAgents): once
\* the relay has taken the device for gone it owes that direction nothing, also
\* when its process is alive and reads on.
WrittenOff(role) == role = "agent" /\ endReason

\* A session that leaves because it was drained was: a side that is still
\* reading has every chunk that was sent to it, unless the relay has written it
\* off.  No check on the way out of a poll or a close retires a session with a
\* chunk queued, unacknowledged or in the hands of a poll; the controller of a
\* device taken for gone is no exception.
DrainedMeansRead ==
    goneBy = "drained" =>
        \A r \in Roles : side[r] \in {"open", "ended"} /\ ~WrittenOff(r) => recv[r] = sent[r]

\* Unless the relay removed the session, a Read that ends by itself ends after
\* everything that was sent to it: on either side when it ends with a plain end
\* of file, and on the controller's when it ends with the word that the device
\* is gone.  A device that reads that word was written off and may miss some.
EndMeansRead ==
    goneBy \in {"", "drained"} =>
        /\ \A r \in Roles : saw[r] = "eof" => recv[r] = sent[r]
        /\ saw["client"] = "gone" => recv["client"] = sent["client"]

\* The last site that could retire a session does: with no poll and no handler
\* under way, a session both ends have closed and both of whose directions are
\* settled has left the registry.  By design one does not: a session whose
\* device was taken for gone and whose controller closed without asking stays
\* for the reason to be told, until the sweeper finds it (SessionLeaves).
NoMissedRetire ==
    /\ polls = {} /\ scan \in {"no", "done"} /\ \A r \in Roles : closer[r] = "done" /\ Settled(r)
    => ~Registered \/ (endReason /\ ~endTold)

\* A session both ends have left is forgotten.
LeftBehind == Registered /\ \A r \in Roles : side[r] \in {"closed", "dead"}
SessionLeaves == <>[]~LeftBehind

\* "until then the session stays registered, or a controller between polls
\* would find it gone (404) and read a plain end" (internal/relay/http.go,
\* httpSession.endTold): no controller reads a drained session that its device
\* left as missing.  The 410 of an abandoned poll counts as told.
ReasonTold == ~(goneBy = "drained" /\ endReason /\ saw["client"] = "missing")
=============================================================================
