--------------------------- MODULE AgentRegistry ---------------------------
(***************************************************************************)
(* The relay's registry of devices reached over HTTP (internal/relay,       *)
(* http.go: handleHPoll, handleHDial, handleHDeregister, reapHTTP,          *)
(* endSessionsOfGoneAgents) and the poll loop of the agent that keeps one   *)
(* registered (internal/agent, runHTTP).  A poll registers its process, and *)
(* then waits for a dial to hand over.  A process that is restarted is a    *)
(* new instance of the device; the one it replaces is refused from then on, *)
(* and the sessions it served are ended.                                    *)
(*                                                                         *)
(* One device is followed.  Its account stays enabled (AccountAccess has    *)
(* the other case), and what a session carries is left to RelaySession.     *)
(***************************************************************************)
EXTENDS Integers, Sequences, FiniteSets, SequencesExt

CONSTANTS
    MaxProcs,    \* bound: processes of the agent, one after another
    Slots,       \* bound: polls at the relay at once
    Dials,       \* the sessions dialled
    QueueSize,   \* capacity of httpAgent.open
    MaxEntries   \* bound: times the device's entry is made anew

ASSUME RegistryConstants ==
    /\ MaxProcs \in Nat \ {0} /\ QueueSize \in Nat \ {0} /\ MaxEntries \in Nat \ {0}
    /\ IsFiniteSet(Slots) /\ IsFiniteSet(Dials)

Procs == 1..MaxProcs
Entries == 1..MaxEntries

\* For TLC: slots and sessions are interchangeable.
Symmetry == Permutations(Slots) \cup Permutations(Dials)

VARIABLES
    \* the device
    started,    \* processes started so far
    up,         \* those that run
    dereg,      \* processes whose /h/deregister is on its way
    \* the registry
    current,    \* hagents[key]: an entry, or 0
    made,       \* entries made so far
    inst, retired, opens,  \* of each entry
    changes,    \* changes[e]: times its changed channel was closed
    poll,       \* the poll in each slot
    \* sessions
    dial,       \* dial[d]: "no", "found", "queued" or "busy", and while "found" the entry
    alive,      \* sessions in hsess whose endReason is not set
    bound,      \* agentInst: 0 until an agent has picked the session up
    answered,   \* <<process, session>>: opens written to a poll of that process
    dropped,    \* opens a requeue found no entry for
    latest,     \* the latest process that has registered
    strayed     \* an earlier process has registered since the latest one last did

device == <<started, up, dereg>>
registry == <<current, made, inst, retired, opens, changes>>
sessions == <<dial, alive, bound, answered, dropped>>
heard == <<latest, strayed>>
vars == <<started, up, dereg, current, made, inst, retired, opens, changes, poll,
          dial, alive, bound, answered, dropped, latest, strayed>>

Idle == [ph |-> "idle", proc |-> 0, live |-> FALSE, e |-> 0, seen |-> 0, d |-> {}]

Init ==
    /\ started = 0 /\ up = {} /\ dereg = {}
    /\ current = 0 /\ made = 0
    /\ inst = [e \in Entries |-> 0] /\ retired = [e \in Entries |-> {}]
    /\ opens = [e \in Entries |-> << >>] /\ changes = [e \in Entries |-> 0]
    /\ poll = [k \in Slots |-> Idle]
    /\ dial = [d \in Dials |-> [st |-> "no", e |-> 0]]
    /\ alive = {} /\ bound = [d \in Dials |-> 0]
    /\ answered = {} /\ dropped = {} /\ latest = 0 /\ strayed = FALSE

Is(k, ph) == poll[k].ph = ph
Move(k, ph) == poll' = [poll EXCEPT ![k].ph = ph]
Inst(k) == poll[k].proc
PollsOf(e) == {k \in Slots : poll[k].e = e /\ poll[k].ph \notin {"net", "reg", "idle"}}   \* a.polls

\* httpAgentObsolete: what is registered now, not the entry the poll waits on.
Obsolete(p) == current # 0 /\ (p \in retired[current] \/ inst[current] # p)

-----------------------------------------------------------------------------
(* The agent *)

\* A supervisor or an update starts the next process; the last one need not
\* have stopped.
Start ==
    /\ started < MaxProcs /\ started' = started + 1 /\ up' = up \cup {started + 1}
    /\ UNCHANGED <<dereg, registry, poll, sessions, heard>>

Orphaned(p) == [k \in Slots |-> IF Inst(k) = p THEN [poll[k] EXCEPT !.live = FALSE] ELSE poll[k]]

\* The process stops, and says so, or dies.
Exit(p) ==
    /\ p \in up /\ up' = up \ {p}
    /\ dereg' \in {dereg, dereg \cup {p}}
    /\ poll' = Orphaned(p)
    /\ UNCHANGED <<started, registry, sessions, heard>>

\* runHTTP has one poll under way.
SendPoll(p, k) ==
    /\ p \in up /\ Is(k, "idle") /\ ~ \E j \in Slots : Inst(j) = p /\ poll[j].live
    /\ poll' = [poll EXCEPT ![k] = [Idle EXCEPT !.ph = "net", !.proc = p, !.live = TRUE]]
    /\ UNCHANGED <<device, registry, sessions, heard>>

\* The agent's client gives up on its poll.
Abandon(k) ==
    /\ poll[k].live /\ poll' = [poll EXCEPT ![k].live = FALSE]
    /\ UNCHANGED <<device, registry, sessions, heard>>

\* The poll is over.  A 409 makes the process stand down, and it does not
\* deregister.
PollEnds(k, code) ==
    IF code = 409 /\ poll[k].live
    THEN up' = up \ {Inst(k)} /\ poll' = [Orphaned(Inst(k)) EXCEPT ![k] = Idle]
    ELSE UNCHANGED up /\ poll' = [poll EXCEPT ![k] = Idle]

-----------------------------------------------------------------------------
(* handleHPoll *)

RegistrationMuFree == \A k \in Slots : ~Is(k, "reg")

\* registrationMu is let go before the poll is published.
LookupUnlocked(k) ==
    /\ Is(k, "net")
    /\ current # 0 \/ made < MaxEntries
    /\ IF current # 0 /\ Inst(k) \in retired[current]
       THEN PollEnds(k, 409) /\ UNCHANGED made
       ELSE /\ poll' = [poll EXCEPT ![k].ph = "reg", ![k].e = IF current = 0 THEN made + 1 ELSE current]
            /\ made' = IF current = 0 THEN made + 1 ELSE made
            /\ UNCHANGED up
    /\ UNCHANGED <<started, dereg, current, inst, retired, opens, changes, sessions, heard>>

\* Under registrationMu, which is held until the poll is published: the entry,
\* or a new one; a retired instance is refused.
Lookup(k) ==
    /\ Is(k, "net") /\ RegistrationMuFree
    /\ current # 0 \/ made < MaxEntries
    /\ IF current # 0 /\ Inst(k) \in retired[current]
       THEN PollEnds(k, 409) /\ UNCHANGED made
       ELSE /\ poll' = [poll EXCEPT ![k].ph = "reg", ![k].e = IF current = 0 THEN made + 1 ELSE current]
            /\ made' = IF current = 0 THEN made + 1 ELSE made
            /\ UNCHANGED up
    /\ UNCHANGED <<started, dereg, current, inst, retired, opens, changes, sessions, heard>>

\* registerDeviceID or allowLegacyRegistration returns an error.
RegistrationFails(k) ==
    /\ Is(k, "reg") /\ PollEnds(k, 409)
    /\ UNCHANGED <<started, dereg, registry, sessions, heard>>

\* The poll's process becomes the entry's, the one before it is retired and its
\* polls are woken.
Publish(k) ==
    /\ Is(k, "reg")
    /\ LET e == poll[k].e
           replaces == inst[e] # 0 /\ inst[e] # Inst(k) IN
       /\ retired' = [retired EXCEPT ![e] = IF replaces THEN @ \cup {inst[e]} ELSE @]
       /\ changes' = [changes EXCEPT ![e] = IF replaces THEN @ + 1 ELSE @]
       /\ inst' = [inst EXCEPT ![e] = Inst(k)]
       /\ current' = e
       /\ poll' = [poll EXCEPT ![k].ph = "parked", ![k].seen = changes'[e]]
    /\ latest' = IF latest < Inst(k) THEN Inst(k) ELSE latest
    /\ strayed' = (Inst(k) < latest \/ (strayed /\ ~poll[k].live))
    /\ UNCHANGED <<device, made, opens, sessions>>

\* An open is waiting.
TakeOpen(k) ==
    /\ Is(k, "parked") /\ opens[poll[k].e] # << >>
    /\ poll' = [poll EXCEPT ![k].ph = "hand", ![k].seen = 0, ![k].d = {Head(opens[poll[k].e])}]
    /\ opens' = [opens EXCEPT ![poll[k].e] = Tail(@)]
    /\ UNCHANGED <<device, current, made, inst, retired, changes, sessions, heard>>

\* The entry has a new instance; or 25 seconds pass, or the request is gone.
ParkedEnds(k) ==
    /\ Is(k, "parked")
    /\ \/ /\ changes[poll[k].e] # poll[k].seen
          /\ PollEnds(k, IF Obsolete(Inst(k)) THEN 409 ELSE 200)
       \/ PollEnds(k, 200)
    /\ UNCHANGED <<started, dereg, registry, sessions, heard>>

\* With an open in hand: is this process still the one?
CheckOpen(k) ==
    /\ Is(k, "hand")
    /\ Move(k, IF Obsolete(Inst(k)) THEN "requeue" ELSE "bind")
    /\ UNCHANGED <<device, registry, sessions, heard>>

\* The open is not given back.
RequeueNothing(k) ==
    /\ Is(k, "requeue")
    /\ PollEnds(k, 409)
    /\ UNCHANGED <<started, dereg, registry, sessions, heard>>

\* requeueHTTPJob: the entry there is now, as soon as it has room.
Requeue(k) ==
    /\ \/ /\ Is(k, "requeue") /\ current # 0
          /\ poll' = [poll EXCEPT ![k].ph = "giving", ![k].seen = current]
          /\ UNCHANGED <<up, opens, dropped>>
       \/ /\ Is(k, "requeue") /\ current = 0
          /\ dropped' = dropped \cup poll[k].d
          /\ PollEnds(k, 409) /\ UNCHANGED opens
       \/ /\ Is(k, "giving") /\ Len(opens[poll[k].seen]) < QueueSize
          /\ \E d \in poll[k].d : opens' = [opens EXCEPT ![poll[k].seen] = Append(@, d)]
          /\ PollEnds(k, 409) /\ UNCHANGED dropped
    /\ UNCHANGED <<started, dereg, current, made, inst, retired, changes, dial, alive, bound, answered, heard>>

\* The session is bound to the process and the open written to it.
Bind(k) ==
    /\ \E d \in poll[k].d :
        \/ /\ Is(k, "bind")
           /\ bound' = IF d \in alive THEN [bound EXCEPT ![d] = Inst(k)] ELSE bound
           /\ Move(k, "write") /\ UNCHANGED <<up, answered>>
        \/ /\ Is(k, "write")
           /\ answered' = answered \cup {<<Inst(k), d>>}
           /\ PollEnds(k, 200) /\ UNCHANGED bound
    /\ UNCHANGED <<started, dereg, registry, dial, alive, dropped, heard>>

-----------------------------------------------------------------------------
(* The rest of the registry *)

\* The old process's deregister takes the new one's entry.
DeregisterAny(p) ==
    /\ p \in dereg /\ dereg' = dereg \ {p}
    /\ current' = 0
    /\ UNCHANGED <<started, up, made, inst, retired, opens, changes, poll, sessions, heard>>

\* handleHDeregister; or the request never arrives.
Deregister(p) ==
    /\ p \in dereg /\ dereg' = dereg \ {p}
    /\ \/ current # 0 /\ inst[current] = p /\ current' = 0
       \/ UNCHANGED current
    /\ UNCHANGED <<started, up, made, inst, retired, opens, changes, poll, sessions, heard>>

\* reapHTTP: lastSeen is renewed as a poll comes and as it goes, and a poll
\* waits less than httpAgentTTL.
Reap ==
    /\ current # 0 /\ PollsOf(current) = {} /\ current' = 0
    /\ UNCHANGED <<device, made, inst, retired, opens, changes, poll, sessions, heard>>

\* handleHDial and handleWSDialToHTTP: the entry is looked up, the session is
\* registered, and the open is sent without waiting.
Dial(d) ==
    /\ \/ /\ dial[d].st = "no" /\ current # 0
          /\ dial' = [dial EXCEPT ![d] = [st |-> "found", e |-> current]]
          /\ UNCHANGED <<opens, alive>>
       \/ /\ dial[d].st = "found" /\ Len(opens[dial[d].e]) < QueueSize
          /\ dial' = [dial EXCEPT ![d] = [st |-> "queued", e |-> 0]]
          /\ opens' = [opens EXCEPT ![dial[d].e] = Append(@, d)]
          /\ alive' = alive \cup {d}
       \/ /\ dial[d].st = "found" /\ Len(opens[dial[d].e]) >= QueueSize
          /\ dial' = [dial EXCEPT ![d] = [st |-> "busy", e |-> 0]] /\ UNCHANGED <<opens, alive>>
    /\ UNCHANGED <<device, current, made, inst, retired, changes, poll, bound, answered, dropped, heard>>

\* The session ends some other way (RelaySession).
SessionEnds(d) ==
    /\ d \in alive /\ alive' = alive \ {d}
    /\ UNCHANGED <<device, registry, poll, dial, bound, answered, dropped, heard>>

\* The scan looks at whether the device polls and not at which process does.
DeviceGoneAnyInst(d) ==
    /\ d \in alive /\ bound[d] # 0
    /\ ~(current # 0 /\ PollsOf(current) # {})
    /\ alive' = alive \ {d}
    /\ UNCHANGED <<device, registry, poll, dial, bound, answered, dropped, heard>>

\* endSessionsOfGoneAgents: the process is not the registered one, or has no
\* poll at the relay and has been silent for deviceGoneAfter.
DeviceGone(d) ==
    /\ d \in alive /\ bound[d] # 0
    /\ ~(current # 0 /\ inst[current] = bound[d] /\ PollsOf(current) # {})
    /\ alive' = alive \ {d}
    /\ UNCHANGED <<device, registry, poll, dial, bound, answered, dropped, heard>>

-----------------------------------------------------------------------------
Handler(k) ==
    \/ Lookup(k) \/ RegistrationFails(k) \/ Publish(k) \/ TakeOpen(k) \/ ParkedEnds(k)
    \/ CheckOpen(k) \/ Requeue(k) \/ Bind(k)

Next ==
    \/ Start \/ Reap
    \/ \E p \in Procs : Exit(p) \/ Deregister(p) \/ \E k \in Slots : SendPoll(p, k)
    \/ \E k \in Slots : Abandon(k) \/ Handler(k)
    \/ \E d \in Dials : Dial(d) \/ SessionEnds(d) \/ DeviceGone(d)

Spec == Init /\ [][Next]_vars

\* A handler that is not blocked goes on, and the scan comes round.  Nothing
\* makes an agent start, poll or stop.
LiveSpec ==
    /\ Spec
    /\ \A k \in Slots : WF_vars(Handler(k))
    /\ \A d \in Dials : WF_vars(DeviceGone(d))

-----------------------------------------------------------------------------
(* Properties *)

\* The variables keep their types, and one handler at a time is registering.
TypeOK ==
    /\ started \in 0..MaxProcs /\ up \subseteq 1..started /\ dereg \subseteq 1..started
    /\ current \in 0..made /\ made \in 0..MaxEntries
    /\ \A e \in Entries : /\ inst[e] \in 0..started /\ retired[e] \subseteq 1..started
                          /\ inst[e] \notin retired[e]
                          /\ Range(opens[e]) \subseteq Dials /\ Len(opens[e]) <= QueueSize
    /\ \A k \in Slots :
        /\ poll[k].ph \in {"idle", "net", "reg", "parked", "hand", "requeue", "giving", "bind", "write"}
        /\ poll[k].live => Inst(k) \in up
    /\ Cardinality({k \in Slots : Is(k, "reg")}) <= 1
    /\ \A d \in Dials : dial[d].st \in {"no", "found", "queued", "busy"} /\ bound[d] \in 0..started
    /\ alive \subseteq Dials /\ dropped \subseteq Dials /\ latest \in 0..started /\ strayed \in BOOLEAN

\* An open that was accepted is in one place: it waits in an entry's queue, is
\* in one poll's hand, was written once, or was given back when the device had
\* no entry.  Replacing a process neither loses it nor hands it over twice
\* (handleHPoll, requeueHTTPJob).
OpenInOnePlace ==
    \A d \in Dials : dial[d].st = "queued" =>
        1 = Cardinality({p \in Entries \X (1..QueueSize) : p[2] <= Len(opens[p[1]]) /\ opens[p[1]][p[2]] = d})
            + Cardinality({k \in Slots : d \in poll[k].d})
            + Cardinality({a \in answered : a[2] = d})
            + (IF d \in dropped THEN 1 ELSE 0)

Waiting(p) == \E k \in Slots : poll[k].live /\ poll[k].ph \notin {"net", "reg"} /\ Inst(k) = p

\* The device-gone scan ends no session of the latest process while that process
\* has its poll waiting at the relay: the deregistration of the one before it, and
\* its polls that were there already, cannot make it look gone
\* (endSessionsOfGoneAgents).  Except that a poll of an earlier process that is
\* registered after it takes the device, if the entry has not seen that process
\* before (handleHPoll asks only for `retired`): then the scan may end them, until
\* the latest process registers again.
ScanSparesPolling ==
    [][\A d \in Dials : DeviceGone(d) => ~(Waiting(bound[d]) /\ bound[d] = latest) \/ strayed]_vars

\* "another wanctl agent instance registered this device name; this instance is
\* standing down" (internal/agent/agent.go, runHTTP): a process that runs and
\* is told so has lost the device to another one.
StandsDownForAnother ==
    [][\A k \in Slots : Inst(k) \in up /\ Inst(k) \notin up' /\ poll[k].live /\ ~poll'[k].live /\ poll'[k].ph = "idle"
        => \E e \in Entries : inst[e] \notin {0, Inst(k)}]_vars

\* Once the process that picked a session up is gone, the session ends: the next
\* process's polls do not keep it (endSessionsOfGoneAgents).
GoneEnded == \A d \in Dials : (d \in alive /\ bound[d] # 0 /\ bound[d] \notin up) ~> d \notin alive
=============================================================================
