---------------------------- MODULE DeviceProofs ----------------------------
(***************************************************************************)
(* Proofs about a device: its registration at the relay (AgentRegistry),   *)
(* its shells (ShellSessions), its desktop service (DesktopPeers), the     *)
(* agent's process through starts, stops and updates (AgentProcess), the   *)
(* requests of a connection (RequestLoop), the agent's end and its console *)
(* sessions (AgentConsole), the keys it holds down (DesktopInput) and the  *)
(* binaries it installs (SelfInstall).                                     *)
(***************************************************************************)
EXTENDS AgentRegistry, ShellSessions, DesktopPeers, AgentProcess, AgentConsole, FiniteSetTheorems, SequenceTheorems, TLAPS

-----------------------------------------------------------------------------
(* Where an open is *)

\* The open d is the i-th of entry e's queue.
Queued(d, e, i) == i <= Len(opens[e]) /\ opens[e][i] = d

\* It is in one queue once, in one poll's hand, was written once.
InQueue(d) ==
    \E e \in Entries : \E i \in 1..QueueSize :
      /\ Queued(d, e, i)
      /\ \A f \in Entries : \A j \in 1..QueueSize : Queued(d, f, j) => f = e /\ j = i
InHand(d) == \E k \in Slots : d \in poll[k].d /\ \A j \in Slots : d \in poll[j].d => j = k
Written(d) == \E a \in answered : a[2] = d /\ \A b \in answered : b[2] = d => b = a

\* It is not there at all.
NotQueued(d) == \A e \in Entries : \A i \in 1..QueueSize : ~Queued(d, e, i)
NotInHand(d) == \A k \in Slots : d \notin poll[k].d
NotWritten(d) == \A a \in answered : a[2] # d

OnePlace(d) ==
    \/ InQueue(d) /\ NotInHand(d) /\ NotWritten(d) /\ d \notin dropped
    \/ NotQueued(d) /\ InHand(d) /\ NotWritten(d) /\ d \notin dropped
    \/ NotQueued(d) /\ NotInHand(d) /\ Written(d) /\ d \notin dropped
    \/ NotQueued(d) /\ NotInHand(d) /\ NotWritten(d) /\ d \in dropped

Nowhere(d) == NotQueued(d) /\ NotInHand(d) /\ NotWritten(d) /\ d \notin dropped

\* An open that was accepted is in one of the four places, any other in none.
Places ==
    \A d \in Dials : IF dial[d].st = "queued" THEN OnePlace(d) ELSE Nowhere(d)

PollPhases == {"idle", "net", "reg", "parked", "hand", "requeue", "giving", "bind", "write"}
PollRecords == [ph : PollPhases, proc : 0..MaxProcs, live : BOOLEAN, e : 0..MaxEntries,
                seen : Nat, d : SUBSET Dials]

\* What the step needs of the other variables.
Shapes ==
    /\ started \in 0..MaxProcs /\ up \subseteq Procs
    /\ made \in 0..MaxEntries /\ current \in 0..MaxEntries
    /\ opens \in [Entries -> Seq(Dials)] /\ \A e \in Entries : Len(opens[e]) <= QueueSize
    /\ changes \in [Entries -> Nat]
    /\ poll \in [Slots -> PollRecords]
    /\ dial \in [Dials -> [st : {"no", "found", "queued", "busy"}, e : 0..MaxEntries]]
    /\ \A d \in Dials : dial[d].st = "found" => dial[d].e \in Entries

\* A poll carries one open from its queue to its answer, and none before.
HandOk(r) ==
    /\ r.ph \in {"idle", "net", "reg", "parked"} => r.d = {}
    /\ r.ph \in {"hand", "requeue", "giving", "bind", "write"} => \E d \in Dials : r.d = {d}
    /\ r.ph \notin {"idle", "net"} => r.e \in Entries
    /\ r.ph = "giving" => r.seen \in Entries

Hands == \A k \in Slots : HandOk(poll[k])

RegInv == Shapes /\ Hands /\ Places

-----------------------------------------------------------------------------
(* Polls *)

\* The slot of no poll.
LEMMA IdleRecord == Idle \in PollRecords /\ Idle.ph = "idle" /\ Idle.d = {}
BY RegistryConstants DEF Idle, PollRecords, PollPhases

\* A poll in another phase.
LEMMA PhaseOf ==
    ASSUME NEW r \in PollRecords, NEW p \in PollPhases
    PROVE  /\ [r EXCEPT !.ph = p] \in PollRecords
           /\ [r EXCEPT !.ph = p].ph = p
           /\ [r EXCEPT !.ph = p].e = r.e /\ [r EXCEPT !.ph = p].seen = r.seen /\ [r EXCEPT !.ph = p].d = r.d
BY DEF PollRecords

\* A poll that is waited for, or is not any more.
LEMMA LiveOf ==
    ASSUME NEW r \in PollRecords, NEW b \in BOOLEAN
    PROVE  /\ [r EXCEPT !.live = b] \in PollRecords
           /\ [r EXCEPT !.live = b].ph = r.ph
           /\ [r EXCEPT !.live = b].e = r.e /\ [r EXCEPT !.live = b].seen = r.seen
           /\ [r EXCEPT !.live = b].d = r.d
BY DEF PollRecords

\* Poll j is as it was, but for who waits for it.
Stays(j) ==
    /\ poll'[j].ph = poll[j].ph /\ poll'[j].e = poll[j].e
    /\ poll'[j].seen = poll[j].seen /\ poll'[j].d = poll[j].d

\* Poll k becomes r.
LEMMA PollChanges ==
    ASSUME poll \in [Slots -> PollRecords], NEW k \in Slots, NEW r \in PollRecords,
           poll' = [poll EXCEPT ![k] = r]
    PROVE  /\ poll' \in [Slots -> PollRecords] /\ poll'[k] = r
           /\ \A j \in Slots : j # k => Stays(j)
BY DEF Stays

\* Who waits for a process's polls is gone; nothing else changes.
LEMMA OrphanedPolls ==
    ASSUME poll \in [Slots -> PollRecords], NEW p
    PROVE  /\ Orphaned(p) \in [Slots -> PollRecords]
           /\ \A j \in Slots : /\ Orphaned(p)[j].ph = poll[j].ph /\ Orphaned(p)[j].e = poll[j].e
                               /\ Orphaned(p)[j].seen = poll[j].seen /\ Orphaned(p)[j].d = poll[j].d
<1>1. ASSUME NEW j \in Slots
      PROVE  /\ Orphaned(p)[j] \in PollRecords
             /\ Orphaned(p)[j].ph = poll[j].ph /\ Orphaned(p)[j].e = poll[j].e
             /\ Orphaned(p)[j].seen = poll[j].seen /\ Orphaned(p)[j].d = poll[j].d
  <2>1. poll[j] \in PollRecords
    OBVIOUS
  <2>2. Orphaned(p)[j] = IF Inst(j) = p THEN [poll[j] EXCEPT !.live = FALSE] ELSE poll[j]
    BY DEF Orphaned
  <2> QED BY <2>1, <2>2, LiveOf
<1>2. Orphaned(p) = [j \in Slots |-> Orphaned(p)[j]]
  BY DEF Orphaned
<1> QED BY <1>1, <1>2

\* The slot of a poll that is over is free.
LEMMA PollIsOver ==
    ASSUME poll \in [Slots -> PollRecords], NEW k \in Slots, NEW code, PollEnds(k, code), up \subseteq Procs
    PROVE  /\ poll' \in [Slots -> PollRecords] /\ poll'[k] = Idle /\ up' \subseteq Procs
           /\ \A j \in Slots : j # k => Stays(j)
<1>1. CASE poll' = [poll EXCEPT ![k] = Idle] /\ up' = up
  BY <1>1, IdleRecord, PollChanges
<1>2. CASE poll' = [Orphaned(Inst(k)) EXCEPT ![k] = Idle] /\ up' = up \ {Inst(k)}
  <2>1. PICK q : q = Orphaned(Inst(k))
    OBVIOUS
  <2>2. /\ q \in [Slots -> PollRecords]
        /\ \A j \in Slots : /\ q[j].ph = poll[j].ph /\ q[j].e = poll[j].e
                            /\ q[j].seen = poll[j].seen /\ q[j].d = poll[j].d
    BY <2>1, OrphanedPolls, Zenon
  <2>3. poll' = [q EXCEPT ![k] = Idle]
    BY <1>2, <2>1
  <2> QED BY <1>2, <2>2, <2>3, IdleRecord DEF Stays
<1> QED BY <1>1, <1>2 DEF PollEnds

-----------------------------------------------------------------------------
(* Queues *)

\* Places of the open x when one of it is put at the end of queue f.
LEMMA AppendQueued ==
    ASSUME Shapes, NEW f \in Entries, NEW x \in Dials, Len(opens[f]) < QueueSize,
           opens' = [opens EXCEPT ![f] = Append(@, x)]
    PROVE  /\ opens' \in [Entries -> Seq(Dials)] /\ \A e \in Entries : Len(opens'[e]) <= QueueSize
           /\ Len(opens[f]) + 1 \in 1..QueueSize
           /\ \A d \in Dials : \A e \in Entries : \A i \in 1..QueueSize :
                Queued(d, e, i)' <=> Queued(d, e, i) \/ (d = x /\ e = f /\ i = Len(opens[f]) + 1)
<1>1. opens \in [Entries -> Seq(Dials)] /\ \A e \in Entries : Len(opens[e]) <= QueueSize
  BY DEF Shapes
<1>2. PICK s \in Seq(Dials) : s = opens[f] /\ Len(s) < QueueSize /\ Len(s) \in Nat
  BY <1>1, LenProperties
<1>3. PICK t \in Seq(Dials) : /\ t = Append(s, x) /\ Len(t) = Len(s) + 1
                              /\ (\A i \in 1..Len(s) : t[i] = s[i]) /\ t[Len(s) + 1] = x
  BY AppendProperties
<1>4. \A e \in Entries : opens'[e] = IF e = f THEN t ELSE opens[e]
  BY <1>1, <1>2, <1>3
<1>5. QueueSize \in Nat
  BY RegistryConstants
<1>6. opens' \in [Entries -> Seq(Dials)] /\ \A e \in Entries : Len(opens'[e]) <= QueueSize
  BY <1>1, <1>2, <1>3, <1>4, <1>5
<1>7. ASSUME NEW d \in Dials, NEW i \in 1..QueueSize
      PROVE  Queued(d, f, i)' <=> Queued(d, f, i) \/ (d = x /\ i = Len(s) + 1)
  <2>1. Queued(d, f, i)' <=> i <= Len(s) + 1 /\ t[i] = d
    BY <1>3, <1>4 DEF Queued
  <2>2. Queued(d, f, i) <=> i <= Len(s) /\ s[i] = d
    BY <1>2 DEF Queued
  <2>3. CASE i <= Len(s)
    BY <1>2, <1>3, <2>1, <2>2, <2>3
  <2>4. CASE i = Len(s) + 1
    BY <1>2, <1>3, <2>1, <2>2, <2>4
  <2>5. CASE i > Len(s) + 1
    BY <1>2, <1>3, <2>1, <2>2, <2>5
  <2> QED BY <1>2, <2>3, <2>4, <2>5
<1>8. \A d \in Dials : \A e \in Entries : \A i \in 1..QueueSize :
        e # f => (Queued(d, e, i)' <=> Queued(d, e, i))
  BY <1>4 DEF Queued
<1> QED BY <1>2, <1>5, <1>6, <1>7, <1>8

\* Places when the first one of queue f is taken out.
LEMMA TakeQueued ==
    ASSUME Shapes, NEW f \in Entries, opens[f] # << >>,
           opens' = [opens EXCEPT ![f] = Tail(@)]
    PROVE  /\ opens' \in [Entries -> Seq(Dials)] /\ \A e \in Entries : Len(opens'[e]) <= QueueSize
           /\ Head(opens[f]) \in Dials /\ Head(opens[f]) = opens[f][1]
           /\ Queued(Head(opens[f]), f, 1) /\ 1 \in 1..QueueSize
           /\ \A d \in Dials : \A e \in Entries : \A i \in 1..QueueSize :
                /\ e # f => (Queued(d, e, i)' <=> Queued(d, e, i))
                /\ Queued(d, f, i)' <=> i + 1 \in 1..QueueSize /\ Queued(d, f, i + 1)
<1>1. opens \in [Entries -> Seq(Dials)] /\ \A e \in Entries : Len(opens[e]) <= QueueSize
  BY DEF Shapes
<1>2. PICK s \in Seq(Dials) : s = opens[f] /\ Len(s) <= QueueSize /\ Len(s) \in Nat \ {0} /\ s # << >>
  BY <1>1, EmptySeq
<1>3. PICK t \in Seq(Dials) : /\ t = Tail(s) /\ Len(t) = Len(s) - 1
                              /\ \A i \in 1..Len(t) : t[i] = s[i + 1]
  BY <1>2, HeadTailProperties, ZenonT(40)
<1>4. \A e \in Entries : opens'[e] = IF e = f THEN t ELSE opens[e]
  BY <1>1, <1>2, <1>3
<1>5. QueueSize \in Nat
  BY RegistryConstants
<1>6. opens' \in [Entries -> Seq(Dials)] /\ \A e \in Entries : Len(opens'[e]) <= QueueSize
  BY <1>1, <1>2, <1>3, <1>4, <1>5
<1>7. Head(s) \in Dials /\ Head(s) = s[1]
  BY <1>2, HeadTailProperties
<1>8. ASSUME NEW d \in Dials, NEW i \in 1..QueueSize
      PROVE  Queued(d, f, i)' <=> i + 1 \in 1..QueueSize /\ Queued(d, f, i + 1)
  <2>1. Queued(d, f, i)' <=> i <= Len(t) /\ t[i] = d
    BY <1>4 DEF Queued
  <2>2. Queued(d, f, i + 1) <=> i + 1 <= Len(s) /\ s[i + 1] = d
    BY <1>2 DEF Queued
  <2>3. i \in 1..Len(t) <=> i + 1 <= Len(s)
    BY <1>2, <1>3
  <2>4. i + 1 <= Len(s) => i + 1 \in 1..QueueSize
    BY <1>2, <1>5
  <2>5. i <= Len(t) <=> i \in 1..Len(t)
    BY <1>2, <1>3
  <2> QED BY <1>3, <2>1, <2>2, <2>3, <2>4, <2>5
<1>9. \A d \in Dials : \A e \in Entries : \A i \in 1..QueueSize :
        e # f => (Queued(d, e, i)' <=> Queued(d, e, i))
  BY <1>4 DEF Queued
<1>10. Queued(Head(opens[f]), f, 1) /\ 1 \in 1..QueueSize
  BY <1>2, <1>5, <1>7 DEF Queued
<1> QED BY <1>2, <1>6, <1>7, <1>8, <1>9, <1>10

-----------------------------------------------------------------------------
(* Steps *)

\* A step that moves no open.
LEMMA OpensStay ==
    ASSUME Places, UNCHANGED <<opens, answered, dropped>>, \A k \in Slots : poll'[k].d = poll[k].d,
           \A d \in Dials : dial'[d].st = "queued" <=> dial[d].st = "queued"
    PROVE  Places'
<1>1. ASSUME NEW d \in Dials
      PROVE  /\ NotQueued(d)' = NotQueued(d) /\ NotInHand(d)' = NotInHand(d) /\ NotWritten(d)' = NotWritten(d)
             /\ InQueue(d)' = InQueue(d) /\ InHand(d)' = InHand(d) /\ Written(d)' = Written(d)
  BY DEF NotQueued, NotInHand, NotWritten, InQueue, InHand, Written, Queued
<1> QED BY <1>1 DEF Places, OnePlace, Nowhere

\* Poll k changes, in its place.
LEMMA HandsStay ==
    ASSUME Hands, NEW k \in Slots, HandOk(poll'[k]), \A j \in Slots : j # k => Stays(j)
    PROVE  Hands'
<1>1. ASSUME NEW j \in Slots, j # k PROVE HandOk(poll'[j])
  BY <1>1 DEF Hands, HandOk, Stays
<1> QED BY <1>1 DEF Hands

\* Processes start, stop, poll and give up.
LEMMA DeviceSteps ==
    ASSUME RegInv,
           \/ Start \/ (\E p \in Procs : Exit(p)) \/ (\E p \in Procs : \E k \in Slots : SendPoll(p, k))
           \/ (\E k \in Slots : Abandon(k))
    PROVE  RegInv'
<1>1. UNCHANGED <<current, made, opens, changes, dial, answered, dropped>>
  BY DEF Start, Exit, SendPoll, Abandon, registry, sessions
<1>2. poll \in [Slots -> PollRecords] /\ up \subseteq Procs /\ started \in 0..MaxProcs
  BY DEF RegInv, Shapes
<1>3. CASE Start
  <2>1. UNCHANGED poll /\ started' \in 0..MaxProcs /\ up' \subseteq Procs
    BY <1>2, <1>3, RegistryConstants DEF Start, Procs
  <2>2. Places'
    BY <1>1, <2>1, OpensStay DEF RegInv
  <2> QED BY <1>1, <2>1, <2>2 DEF RegInv, Shapes, Hands
<1>4. ASSUME NEW p \in Procs, Exit(p) PROVE RegInv'
  <2>1. poll' = Orphaned(p) /\ UNCHANGED started /\ up' \subseteq Procs
    BY <1>2, <1>4 DEF Exit
  <2>2. poll' \in [Slots -> PollRecords] /\ \A j \in Slots : Stays(j)
    BY <1>2, <2>1, OrphanedPolls DEF Stays
  <2>3. Places'
    BY <1>1, <2>2, OpensStay DEF RegInv, Stays
  <2>4. Hands'
    BY <2>2 DEF RegInv, Hands, HandOk, Stays
  <2> QED BY <1>1, <2>1, <2>2, <2>3, <2>4 DEF RegInv, Shapes
<1>5. ASSUME NEW p \in Procs, NEW k \in Slots, SendPoll(p, k) PROVE RegInv'
  <2>1. PICK r : r = [Idle EXCEPT !.ph = "net", !.proc = p, !.live = TRUE]
    OBVIOUS
  <2>2. r = [ph |-> "net", proc |-> p, live |-> TRUE, e |-> 0, seen |-> 0, d |-> {}]
    BY <2>1 DEF Idle
  <2>3. r \in PollRecords /\ r.ph = "net" /\ r.d = {}
    BY <2>2, RegistryConstants DEF PollRecords, PollPhases, Procs
  <2>4. poll' = [poll EXCEPT ![k] = r] /\ UNCHANGED <<started, up>> /\ poll[k].ph = "idle"
    BY <1>5, <2>1 DEF SendPoll, device, Is
  <2>5. poll' \in [Slots -> PollRecords] /\ poll'[k] = r /\ \A j \in Slots : j # k => Stays(j)
    BY <1>2, <2>3, <2>4, PollChanges
  <2>6. Hands'
    BY <2>3, <2>5, HandsStay DEF RegInv, HandOk
  <2>7. poll[k].d = {}
    BY <2>4 DEF RegInv, Hands, HandOk
  <2>8. Places'
    BY <1>1, <2>3, <2>5, <2>7, OpensStay DEF RegInv, Stays
  <2> QED BY <1>1, <2>4, <2>5, <2>6, <2>8 DEF RegInv, Shapes
<1>6. ASSUME NEW k \in Slots, Abandon(k) PROVE RegInv'
  <2>1. PICK r : r = [poll[k] EXCEPT !.live = FALSE]
    OBVIOUS
  <2>2. poll' = [poll EXCEPT ![k] = r] /\ UNCHANGED <<started, up>>
    BY <1>6, <2>1 DEF Abandon, device
  <2>3. r \in PollRecords /\ r.ph = poll[k].ph /\ r.e = poll[k].e /\ r.seen = poll[k].seen /\ r.d = poll[k].d
    BY <1>2, <2>1, LiveOf
  <2>4. poll' \in [Slots -> PollRecords] /\ poll'[k] = r /\ \A j \in Slots : j # k => Stays(j)
    BY <1>2, <2>2, <2>3, PollChanges
  <2>5. \A j \in Slots : Stays(j)
    BY <2>3, <2>4 DEF Stays
  <2>6. Hands'
    BY <2>5 DEF RegInv, Hands, HandOk, Stays
  <2>7. Places'
    BY <1>1, <2>5, OpensStay DEF RegInv, Stays
  <2> QED BY <1>1, <2>2, <2>4, <2>6, <2>7 DEF RegInv, Shapes
<1> QED BY <1>3, <1>4, <1>5, <1>6

\* A poll that carries nothing is over.
LEMMA EmptyPollOver ==
    ASSUME RegInv, NEW k \in Slots, NEW code, PollEnds(k, code), poll[k].d = {},
           UNCHANGED <<started, current, made, opens, changes, dial, answered, dropped>>
    PROVE  RegInv'
<1>1. poll \in [Slots -> PollRecords] /\ up \subseteq Procs
  BY DEF RegInv, Shapes
<1>2. /\ poll' \in [Slots -> PollRecords] /\ poll'[k] = Idle /\ up' \subseteq Procs
      /\ \A j \in Slots : j # k => Stays(j)
  BY <1>1, PollIsOver
<1>3. Hands'
  BY <1>2, IdleRecord, HandsStay DEF RegInv, HandOk
<1>4. Places'
  BY <1>2, IdleRecord, OpensStay DEF RegInv, Stays
<1> QED BY <1>2, <1>3, <1>4 DEF RegInv, Shapes

\* A poll is registered, refused, published, or ends unanswered.
LEMMA RegistrationSteps ==
    ASSUME RegInv, NEW k \in Slots,
           Lookup(k) \/ RegistrationFails(k) \/ Publish(k) \/ ParkedEnds(k) \/ CheckOpen(k)
    PROVE  RegInv'
<1>1. UNCHANGED <<opens, dial, answered, dropped, started>>
  BY DEF Lookup, RegistrationFails, Publish, ParkedEnds, CheckOpen, registry, sessions, device
<1>2. poll \in [Slots -> PollRecords] /\ up \subseteq Procs /\ HandOk(poll[k]) /\ poll[k] \in PollRecords
  BY DEF RegInv, Shapes, Hands
<1>3. CASE Lookup(k)
  <2>1. UNCHANGED <<current, changes>> /\ poll[k].ph = "net" /\ poll[k].d = {}
    BY <1>2, <1>3 DEF Lookup, Is, HandOk
  <2>2. CASE PollEnds(k, 409) /\ UNCHANGED made
    BY <1>1, <2>1, <2>2, EmptyPollOver
  <2>3. CASE /\ poll' = [poll EXCEPT ![k].ph = "reg", ![k].e = IF current = 0 THEN made + 1 ELSE current]
             /\ made' = (IF current = 0 THEN made + 1 ELSE made) /\ UNCHANGED up
    <3>1. PICK e : e = IF current = 0 THEN made + 1 ELSE current
      OBVIOUS
    <3>2. e \in Entries /\ e \in 0..MaxEntries /\ made' \in 0..MaxEntries
      BY <1>3, <2>3, <3>1, RegistryConstants DEF Lookup, RegInv, Shapes, Entries
    <3>3. PICK r : r = [poll[k] EXCEPT !.ph = "reg", !.e = e]
      OBVIOUS
    <3>4. poll' = [poll EXCEPT ![k] = r]
      BY <2>3, <3>1, <3>3
    <3>5. r \in PollRecords /\ r.ph = "reg" /\ r.e = e /\ r.d = poll[k].d
      <4>1. "reg" \in PollPhases
        BY DEF PollPhases
      <4>2. PICK q \in PollRecords : q = poll[k]
        BY <1>2
      <4>3. r = [q EXCEPT !.ph = "reg", !.e = e]
        BY <3>3, <4>2
      <4>4. PICK t : t = [q EXCEPT !.ph = "reg", !.e = e]
        OBVIOUS
      <4>5. t \in PollRecords /\ t.ph = "reg" /\ t.e = e /\ t.d = q.d
        BY <3>2, <4>1, <4>4 DEF PollRecords
      <4> QED BY <4>2, <4>3, <4>4, <4>5, Zenon
    <3>6. poll' \in [Slots -> PollRecords] /\ poll'[k] = r /\ \A j \in Slots : j # k => Stays(j)
      BY <1>2, <3>4, <3>5, PollChanges
    <3>7. Hands'
      BY <2>1, <3>2, <3>5, <3>6, HandsStay DEF RegInv, HandOk
    <3>8. Places'
      BY <1>1, <3>5, <3>6, OpensStay DEF RegInv, Stays
    <3> QED BY <1>1, <2>1, <2>3, <3>2, <3>6, <3>7, <3>8 DEF RegInv, Shapes
  <2> QED BY <1>3, <2>2, <2>3 DEF Lookup
<1>4. CASE RegistrationFails(k)
  BY <1>1, <1>2, <1>4, EmptyPollOver DEF RegistrationFails, Is, HandOk, registry
<1>5. CASE ParkedEnds(k)
  BY <1>1, <1>2, <1>5, EmptyPollOver DEF ParkedEnds, Is, HandOk, registry
<1>6. CASE Publish(k)
  <2>1. poll[k].e \in Entries /\ poll[k].d = {} /\ poll[k].ph = "reg"
    BY <1>2, <1>6 DEF Publish, Is, HandOk
  <2>2. changes' \in [Entries -> Nat] /\ current' \in 0..MaxEntries /\ UNCHANGED <<made, up>>
    <3>1. changes \in [Entries -> Nat]
      BY DEF RegInv, Shapes
    <3>2. changes' = [changes EXCEPT ![poll[k].e] = changes[poll[k].e] + 1] \/ changes' = changes
      BY <1>6, <3>1 DEF Publish
    <3>3. changes' \in [Entries -> Nat]
      BY <2>1, <3>1, <3>2
    <3> QED BY <1>6, <2>1, <3>3 DEF Publish, Entries, device
  <2>3. PICK n \in Nat : n = changes'[poll[k].e]
    BY <2>1, <2>2
  <2>4. PICK r : r = [poll[k] EXCEPT !.ph = "parked", !.seen = n]
    OBVIOUS
  <2>5. poll' = [poll EXCEPT ![k] = r]
    <3>1. poll' = [poll EXCEPT ![k].ph = "parked", ![k].seen = changes'[poll[k].e]]
      BY <1>6, Zenon DEF Publish
    <3> QED BY <2>3, <2>4, <3>1
  <2>6. r \in PollRecords /\ r.ph = "parked" /\ r.e = poll[k].e /\ r.d = poll[k].d
    <3>1. "parked" \in PollPhases
      BY DEF PollPhases
    <3>2. PICK q \in PollRecords : q = poll[k]
      BY <1>2
    <3>3. r = [q EXCEPT !.ph = "parked", !.seen = n]
      BY <2>4, <3>2
    <3>4. PICK t : t = [q EXCEPT !.ph = "parked", !.seen = n]
      OBVIOUS
    <3>5. t \in PollRecords /\ t.ph = "parked" /\ t.e = q.e /\ t.d = q.d
      BY <3>1, <3>4 DEF PollRecords
    <3> QED BY <3>2, <3>3, <3>4, <3>5, Zenon
  <2>7. poll' \in [Slots -> PollRecords] /\ poll'[k] = r /\ \A j \in Slots : j # k => Stays(j)
    BY <1>2, <2>5, <2>6, PollChanges
  <2>8. Hands'
    BY <2>1, <2>6, <2>7, HandsStay DEF RegInv, HandOk
  <2>9. Places'
    BY <1>1, <2>6, <2>7, OpensStay DEF RegInv, Stays
  <2> QED BY <1>1, <2>2, <2>7, <2>8, <2>9 DEF RegInv, Shapes
<1>7. CASE CheckOpen(k)
  <2>1. PICK p : p = IF Obsolete(Inst(k)) THEN "requeue" ELSE "bind"
    OBVIOUS
  <2>2. PICK r : r = [poll[k] EXCEPT !.ph = p]
    OBVIOUS
  <2>3. poll' = [poll EXCEPT ![k] = r] /\ poll[k].ph = "hand" /\ UNCHANGED <<up, made, current, changes>>
    BY <1>7, <2>1, <2>2 DEF CheckOpen, Move, Is, device, registry
  <2>4. p \in PollPhases /\ p \in {"requeue", "bind"}
    BY <2>1 DEF PollPhases
  <2>5. r \in PollRecords /\ r.ph = p /\ r.e = poll[k].e /\ r.d = poll[k].d
    BY <1>2, <2>2, <2>4, PhaseOf
  <2>6. poll' \in [Slots -> PollRecords] /\ poll'[k] = r /\ \A j \in Slots : j # k => Stays(j)
    BY <1>2, <2>3, <2>5, PollChanges
  <2>7. Hands'
    BY <1>2, <2>3, <2>4, <2>5, <2>6, HandsStay DEF RegInv, HandOk
  <2>8. Places'
    BY <1>1, <2>5, <2>6, OpensStay DEF RegInv, Stays
  <2> QED BY <1>1, <2>3, <2>6, <2>7, <2>8 DEF RegInv, Shapes
<1> QED BY <1>3, <1>4, <1>5, <1>6, <1>7

\* An open leaves its queue in a poll's hand.
LEMMA TakeOpenStep ==
    ASSUME RegInv, NEW k \in Slots, TakeOpen(k)
    PROVE  RegInv'
<1>1. UNCHANGED <<started, up, current, made, changes, dial, answered, dropped>>
  BY DEF TakeOpen, device, sessions
<1>2. poll \in [Slots -> PollRecords] /\ HandOk(poll[k]) /\ poll[k] \in PollRecords /\ poll[k].ph = "parked"
  BY DEF TakeOpen, Is, RegInv, Shapes, Hands
<1>3. PICK f \in Entries : f = poll[k].e
  BY <1>2 DEF HandOk
<1>4. poll[k].d = {} /\ opens[f] # << >> /\ opens' = [opens EXCEPT ![f] = Tail(@)]
  BY <1>2, <1>3 DEF TakeOpen, HandOk
<1>5. /\ opens' \in [Entries -> Seq(Dials)] /\ \A e \in Entries : Len(opens'[e]) <= QueueSize
      /\ Head(opens[f]) \in Dials /\ Head(opens[f]) = opens[f][1]
      /\ Queued(Head(opens[f]), f, 1) /\ 1 \in 1..QueueSize
      /\ \A d \in Dials : \A e \in Entries : \A i \in 1..QueueSize :
           /\ e # f => (Queued(d, e, i)' <=> Queued(d, e, i))
           /\ Queued(d, f, i)' <=> i + 1 \in 1..QueueSize /\ Queued(d, f, i + 1)
  BY <1>4, TakeQueued DEF RegInv
<1>6. PICK x \in Dials : x = Head(opens[f])
  BY <1>5
<1>7. PICK r : r = [poll[k] EXCEPT !.ph = "hand", !.seen = 0, !.d = {x}]
  OBVIOUS
<1>8. poll' = [poll EXCEPT ![k] = r]
  BY <1>3, <1>6, <1>7 DEF TakeOpen
<1>9. r \in PollRecords /\ r.ph = "hand" /\ r.e = f /\ r.d = {x}
  <2>1. "hand" \in PollPhases /\ {x} \in SUBSET Dials
    BY DEF PollPhases
  <2>2. PICK q \in PollRecords : q = poll[k]
    BY <1>2
  <2>3. r = [q EXCEPT !.ph = "hand", !.seen = 0, !.d = {x}]
    BY <1>7, <2>2
  <2>4. PICK t : t = [q EXCEPT !.ph = "hand", !.seen = 0, !.d = {x}]
    OBVIOUS
  <2>5. t \in PollRecords /\ t.ph = "hand" /\ t.e = q.e /\ t.d = {x}
    BY <2>1, <2>4 DEF PollRecords
  <2> QED BY <1>3, <2>2, <2>3, <2>4, <2>5, Zenon
<1>10. poll' \in [Slots -> PollRecords] /\ poll'[k] = r /\ \A j \in Slots : j # k => Stays(j)
  BY <1>2, <1>8, <1>9, PollChanges
<1>11. Hands'
  BY <1>9, <1>10, HandsStay DEF RegInv, HandOk
<1>12. Places'
  <2>1. \A d \in Dials : \A j \in Slots : d \in poll'[j].d <=> (d \in poll[j].d \/ (d = x /\ j = k))
    BY <1>4, <1>9, <1>10 DEF Stays
  <2>2. \A d \in Dials : NotWritten(d)' = NotWritten(d) /\ Written(d)' = Written(d) /\ (d \in dropped' <=> d \in dropped)
    BY <1>1 DEF NotWritten, Written
  <2>3. Queued(x, f, 1)
    BY <1>5, <1>6
  <2>4. dial[x].st = "queued" /\ InQueue(x) /\ NotInHand(x) /\ NotWritten(x) /\ x \notin dropped
    BY <1>5, <2>3 DEF RegInv, Places, OnePlace, Nowhere, NotQueued
  <2>5. \A e \in Entries : \A i \in 1..QueueSize : Queued(x, e, i) => e = f /\ i = 1
    BY <1>5, <2>3, <2>4 DEF InQueue
  <2>6. NotQueued(x)'
    BY <1>5, <2>5 DEF NotQueued
  <2>7. InHand(x)'
    BY <2>1, <2>4 DEF InHand, NotInHand
  <2>8. ASSUME NEW d \in Dials, d # x
        PROVE  /\ InHand(d)' = InHand(d) /\ NotInHand(d)' = NotInHand(d)
               /\ NotQueued(d) => NotQueued(d)'
               /\ InQueue(d) => InQueue(d)'
    <3>1. InHand(d)' = InHand(d) /\ NotInHand(d)' = NotInHand(d)
      BY <2>1, <2>8 DEF InHand, NotInHand
    <3>2. NotQueued(d) => NotQueued(d)'
      BY <1>5 DEF NotQueued
    <3>3. ASSUME InQueue(d) PROVE InQueue(d)'
      <4>1. PICK e \in Entries, i \in 1..QueueSize :
              /\ Queued(d, e, i)
              /\ \A g \in Entries : \A j \in 1..QueueSize : Queued(d, g, j) => g = e /\ j = i
        BY <3>3 DEF InQueue
      <4>2. CASE e # f
        <5>1. Queued(d, e, i)'
          BY <1>5, <4>1, <4>2
        <5>2. \A g \in Entries : \A j \in 1..QueueSize : Queued(d, g, j)' => g = e /\ j = i
          BY <1>5, <4>1, <4>2
        <5> QED BY <5>1, <5>2 DEF InQueue
      <4>3. CASE e = f
        <5>1. i # 1
          BY <1>5, <1>6, <2>8, <4>1, <4>3 DEF Queued
        <5>2. PICK l \in 1..QueueSize : l + 1 = i
          BY <5>1, RegistryConstants
        <5>3. Queued(d, f, l)'
          BY <1>5, <4>1, <4>3, <5>2
        <5>4. \A g \in Entries : \A j \in 1..QueueSize : Queued(d, g, j)' => g = f /\ j = l
          <6>1. ASSUME NEW g \in Entries, NEW j \in 1..QueueSize, Queued(d, g, j)' PROVE g = f /\ j = l
            <7>1. g = f
              BY <1>5, <4>1, <4>3, <6>1
            <7>2. j + 1 = i
              BY <1>5, <4>1, <6>1, <7>1
            <7> QED BY <5>2, <7>1, <7>2
          <6> QED BY <6>1
        <5> QED BY <5>3, <5>4 DEF InQueue
      <4> QED BY <4>2, <4>3
    <3> QED BY <3>1, <3>2, <3>3
  <2>9. ASSUME NEW d \in Dials PROVE IF dial'[d].st = "queued" THEN OnePlace(d)' ELSE Nowhere(d)'
    <3>1. CASE d = x
      BY <1>1, <2>2, <2>4, <2>6, <2>7, <3>1 DEF OnePlace
    <3>2. CASE d # x
      <4>1. IF dial[d].st = "queued" THEN OnePlace(d) ELSE Nowhere(d)
        BY DEF RegInv, Places
      <4> QED BY <1>1, <2>2, <2>8, <3>2, <4>1 DEF OnePlace, Nowhere
    <3> QED BY <3>1, <3>2
  <2> QED BY <2>9 DEF Places
<1> QED BY <1>1, <1>5, <1>10, <1>11, <1>12 DEF RegInv, Shapes

\* A poll that was given an open is the only place of it.
LEMMA OnlyInHand ==
    ASSUME RegInv, NEW k \in Slots, poll[k].ph \in {"hand", "requeue", "giving", "bind", "write"}
    PROVE  \E x \in Dials :
             /\ poll[k].d = {x} /\ dial[x].st = "queued"
             /\ NotQueued(x) /\ NotWritten(x) /\ x \notin dropped
             /\ \A j \in Slots : x \in poll[j].d => j = k
<1>1. PICK x \in Dials : poll[k].d = {x}
  BY DEF RegInv, Hands, HandOk
<1>2. ~NotInHand(x)
  BY <1>1 DEF NotInHand
<1>3. dial[x].st = "queued" /\ NotQueued(x) /\ InHand(x) /\ NotWritten(x) /\ x \notin dropped
  BY <1>2 DEF RegInv, Places, OnePlace, Nowhere
<1>4. \A j \in Slots : x \in poll[j].d => j = k
  BY <1>1, <1>3 DEF InHand
<1> QED BY <1>1, <1>3, <1>4

\* Poll k lets go of the open x.
LEMMA LetGo ==
    ASSUME NEW k \in Slots, NEW x \in Dials, poll[k].d = {x}, poll'[k].d = {},
           \A j \in Slots : x \in poll[j].d => j = k, \A j \in Slots : j # k => Stays(j)
    PROVE  /\ NotInHand(x)'
           /\ \A d \in Dials : d # x => InHand(d)' = InHand(d) /\ NotInHand(d)' = NotInHand(d)
<1>1. \A d \in Dials : \A j \in Slots : d \in poll'[j].d <=> d \in poll[j].d /\ d # x
  BY DEF Stays
<1> QED BY <1>1 DEF NotInHand, InHand

\* The open x comes into a queue.
LEMMA PutQueued ==
    ASSUME Shapes, NEW f \in Entries, NEW x \in Dials, Len(opens[f]) < QueueSize, NotQueued(x),
           opens' = [opens EXCEPT ![f] = Append(@, x)]
    PROVE  /\ opens' \in [Entries -> Seq(Dials)] /\ \A e \in Entries : Len(opens'[e]) <= QueueSize
           /\ InQueue(x)'
           /\ \A d \in Dials : d # x => /\ NotQueued(d) => NotQueued(d)'
                                        /\ InQueue(d) => InQueue(d)'
<1>1. PICK n \in 1..QueueSize : n = Len(opens[f]) + 1
  BY AppendQueued
<1>2. \A d \in Dials : \A e \in Entries : \A i \in 1..QueueSize :
        Queued(d, e, i)' <=> Queued(d, e, i) \/ (d = x /\ e = f /\ i = n)
  BY <1>1, AppendQueued, ZenonT(30)
<1>3. \A e \in Entries : \A i \in 1..QueueSize : Queued(x, e, i)' <=> e = f /\ i = n
  BY <1>2 DEF NotQueued
<1>4. InQueue(x)'
  BY <1>3 DEF InQueue
<1>5. ASSUME NEW d \in Dials, d # x
      PROVE  (NotQueued(d) => NotQueued(d)') /\ (InQueue(d) => InQueue(d)')
  <2>1. \A e \in Entries : \A i \in 1..QueueSize : Queued(d, e, i)' <=> Queued(d, e, i)
    BY <1>2, <1>5
  <2> QED BY <2>1 DEF NotQueued, InQueue
<1> QED BY <1>4, <1>5, AppendQueued

\* An open that is in hand and may not be handed over is given back.
LEMMA RequeueStep ==
    ASSUME RegInv, NEW k \in Slots, Requeue(k)
    PROVE  RegInv'
<1>1. UNCHANGED <<started, current, made, changes, dial, answered>>
  BY DEF Requeue
<1>2. poll \in [Slots -> PollRecords] /\ up \subseteq Procs /\ HandOk(poll[k]) /\ poll[k] \in PollRecords
  BY DEF RegInv, Shapes, Hands
<1>3. PICK x \in Dials :
        /\ poll[k].d = {x} /\ dial[x].st = "queued"
        /\ NotQueued(x) /\ NotWritten(x) /\ x \notin dropped
        /\ \A j \in Slots : x \in poll[j].d => j = k
  BY OnlyInHand DEF Requeue, Is
<1>4. \A d \in Dials : NotWritten(d)' = NotWritten(d) /\ Written(d)' = Written(d)
  BY <1>1 DEF NotWritten, Written
<1>5. ASSUME NEW d \in Dials PROVE IF dial[d].st = "queued" THEN OnePlace(d) ELSE Nowhere(d)
  BY DEF RegInv, Places
<1>6. CASE /\ poll[k].ph = "requeue" /\ current # 0
           /\ poll' = [poll EXCEPT ![k].ph = "giving", ![k].seen = current]
           /\ UNCHANGED <<up, opens, dropped>>
  <2>1. current \in Entries /\ current \in Nat
    BY <1>6, RegistryConstants DEF RegInv, Shapes, Entries
  <2>2. PICK q \in PollRecords : q = poll[k]
    BY <1>2
  <2>3. PICK r : r = [q EXCEPT !.ph = "giving", !.seen = current]
    OBVIOUS
  <2>4. r \in PollRecords /\ r.ph = "giving" /\ r.seen = current /\ r.e = q.e /\ r.d = q.d
    BY <2>1, <2>3 DEF PollRecords, PollPhases
  <2>5. poll' = [poll EXCEPT ![k] = r]
    BY <1>6, <2>2, <2>3
  <2>6. poll' \in [Slots -> PollRecords] /\ poll'[k] = r /\ \A j \in Slots : j # k => Stays(j)
    BY <1>2, <2>4, <2>5, PollChanges
  <2>7. Hands'
    <3>1. HandOk(r)
      BY <1>2, <1>3, <1>6, <2>1, <2>2, <2>4 DEF HandOk
    <3> QED BY <2>6, <3>1, HandsStay DEF RegInv
  <2>8. Places'
    BY <1>1, <1>6, <2>2, <2>4, <2>6, OpensStay DEF RegInv, Stays
  <2> QED BY <1>1, <1>6, <2>6, <2>7, <2>8 DEF RegInv, Shapes
<1>7. ASSUME PollEnds(k, 409)
      PROVE  /\ poll' \in [Slots -> PollRecords] /\ up' \subseteq Procs /\ Hands' /\ NotInHand(x)'
             /\ \A d \in Dials : d # x => InHand(d)' = InHand(d) /\ NotInHand(d)' = NotInHand(d)
  <2>1. /\ poll' \in [Slots -> PollRecords] /\ poll'[k] = Idle /\ up' \subseteq Procs
        /\ \A j \in Slots : j # k => Stays(j)
    BY <1>2, <1>7, PollIsOver
  <2>2. Hands'
    BY <2>1, IdleRecord, HandsStay DEF RegInv, HandOk
  <2>3. poll'[k].d = {}
    BY <2>1, IdleRecord
  <2> QED BY <1>3, <2>1, <2>2, <2>3, LetGo
<1>8. CASE dropped' = dropped \cup poll[k].d /\ PollEnds(k, 409) /\ UNCHANGED opens
  <2>1. \A d \in Dials : NotQueued(d)' = NotQueued(d) /\ InQueue(d)' = InQueue(d)
    BY <1>8 DEF NotQueued, InQueue, Queued
  <2>2. \A d \in Dials : d \in dropped' <=> d \in dropped \/ d = x
    BY <1>3, <1>8
  <2>3. OnePlace(x)'
    BY <1>3, <1>4, <1>7, <1>8, <2>1, <2>2 DEF OnePlace
  <2>4. ASSUME NEW d \in Dials, d # x PROVE (OnePlace(d) => OnePlace(d)') /\ (Nowhere(d) => Nowhere(d)')
    BY <1>4, <1>7, <1>8, <2>1, <2>2, <2>4 DEF OnePlace, Nowhere
  <2>5. Places'
    BY <1>1, <1>3, <1>5, <2>3, <2>4 DEF Places
  <2> QED BY <1>1, <1>7, <1>8, <2>5 DEF RegInv, Shapes
<1>9. CASE /\ poll[k].ph = "giving" /\ Len(opens[poll[k].seen]) < QueueSize
           /\ \E d \in poll[k].d : opens' = [opens EXCEPT ![poll[k].seen] = Append(@, d)]
           /\ PollEnds(k, 409) /\ UNCHANGED dropped
  <2>1. PICK f \in Entries : f = poll[k].seen
    BY <1>2, <1>9 DEF HandOk
  <2>2. opens' = [opens EXCEPT ![f] = Append(@, x)] /\ Len(opens[f]) < QueueSize
    BY <1>3, <1>9, <2>1
  <2>3. /\ opens' \in [Entries -> Seq(Dials)] /\ \A e \in Entries : Len(opens'[e]) <= QueueSize
        /\ InQueue(x)'
        /\ \A d \in Dials : d # x => /\ NotQueued(d) => NotQueued(d)'
                                     /\ InQueue(d) => InQueue(d)'
    BY <1>3, <2>2, PutQueued DEF RegInv
  <2>4. OnePlace(x)'
    BY <1>3, <1>4, <1>7, <1>9, <2>3 DEF OnePlace
  <2>5. ASSUME NEW d \in Dials, d # x PROVE (OnePlace(d) => OnePlace(d)') /\ (Nowhere(d) => Nowhere(d)')
    BY <1>4, <1>7, <1>9, <2>3, <2>5 DEF OnePlace, Nowhere
  <2>6. Places'
    BY <1>1, <1>3, <1>5, <2>4, <2>5 DEF Places
  <2> QED BY <1>1, <1>7, <1>9, <2>3, <2>6 DEF RegInv, Shapes
<1> QED
  <2>1. \/ /\ poll[k].ph = "requeue" /\ current # 0
           /\ poll' = [poll EXCEPT ![k].ph = "giving", ![k].seen = current]
           /\ UNCHANGED <<up, opens, dropped>>
        \/ dropped' = dropped \cup poll[k].d /\ PollEnds(k, 409) /\ UNCHANGED opens
        \/ /\ poll[k].ph = "giving" /\ Len(opens[poll[k].seen]) < QueueSize
           /\ \E d \in poll[k].d : opens' = [opens EXCEPT ![poll[k].seen] = Append(@, d)]
           /\ PollEnds(k, 409) /\ UNCHANGED dropped
    BY Zenon DEF Requeue, Is
  <2> QED BY <1>6, <1>8, <1>9, <2>1

\* An open in hand is written to the process, once.
LEMMA BindStep ==
    ASSUME RegInv, NEW k \in Slots, Bind(k)
    PROVE  RegInv'
<1>1. UNCHANGED <<started, current, made, opens, changes, dial, dropped>>
  BY DEF Bind, registry
<1>2. poll \in [Slots -> PollRecords] /\ up \subseteq Procs /\ HandOk(poll[k]) /\ poll[k] \in PollRecords
  BY DEF RegInv, Shapes, Hands
<1>3. PICK x \in Dials :
        /\ poll[k].d = {x} /\ dial[x].st = "queued"
        /\ NotQueued(x) /\ NotWritten(x) /\ x \notin dropped
        /\ \A j \in Slots : x \in poll[j].d => j = k
  BY OnlyInHand DEF Bind, Is
<1>4. CASE poll[k].ph = "bind" /\ Move(k, "write") /\ UNCHANGED <<up, answered>>
  <2>1. PICK r : r = [poll[k] EXCEPT !.ph = "write"]
    OBVIOUS
  <2>2. poll' = [poll EXCEPT ![k] = r] /\ "write" \in PollPhases
    BY <1>4, <2>1 DEF Move, PollPhases
  <2>3. r \in PollRecords /\ r.ph = "write" /\ r.e = poll[k].e /\ r.d = poll[k].d
    BY <1>2, <2>1, <2>2, PhaseOf
  <2>4. poll' \in [Slots -> PollRecords] /\ poll'[k] = r /\ \A j \in Slots : j # k => Stays(j)
    BY <1>2, <2>2, <2>3, PollChanges
  <2>5. Hands'
    BY <1>2, <1>4, <2>3, <2>4, HandsStay DEF RegInv, HandOk
  <2>6. Places'
    BY <1>1, <1>4, <2>3, <2>4, OpensStay DEF RegInv, Stays
  <2> QED BY <1>1, <1>4, <2>4, <2>5, <2>6 DEF RegInv, Shapes
<1>5. CASE (\E p : answered' = answered \cup {<<p, x>>}) /\ PollEnds(k, 200)
  <2>1. PICK p : answered' = answered \cup {<<p, x>>}
    BY <1>5
  <2>2. /\ poll' \in [Slots -> PollRecords] /\ poll'[k] = Idle /\ up' \subseteq Procs
        /\ \A j \in Slots : j # k => Stays(j)
    BY <1>2, <1>5, PollIsOver
  <2>3. Hands' /\ poll'[k].d = {}
    BY <2>2, IdleRecord, HandsStay DEF RegInv, HandOk
  <2>4. /\ NotInHand(x)'
        /\ \A d \in Dials : d # x => InHand(d)' = InHand(d) /\ NotInHand(d)' = NotInHand(d)
    BY <1>3, <2>2, <2>3, LetGo
  <2>5. \A d \in Dials : NotQueued(d)' = NotQueued(d) /\ InQueue(d)' = InQueue(d)
    BY <1>1 DEF NotQueued, InQueue, Queued
  <2>6. PICK n : /\ n = <<p, x>>
                 /\ n[2] = x
    <3>1. PICK m : m = <<p, x>>
      OBVIOUS
    <3>2. m[2] = x
      BY <3>1
    <3> QED BY <3>1, <3>2
  <2>7. answered' = answered \cup {n}
    BY <2>1, <2>6
  <2>8. Written(x)'
    BY <1>3, <2>6, <2>7 DEF Written, NotWritten
  <2>9. \A d \in Dials : d # x => NotWritten(d)' = NotWritten(d) /\ Written(d)' = Written(d)
    BY <2>6, <2>7 DEF Written, NotWritten
  <2>10. OnePlace(x)'
    BY <1>1, <1>3, <2>4, <2>5, <2>8 DEF OnePlace
  <2>11. ASSUME NEW d \in Dials, d # x PROVE (OnePlace(d) => OnePlace(d)') /\ (Nowhere(d) => Nowhere(d)')
    BY <1>1, <2>4, <2>5, <2>9, <2>11 DEF OnePlace, Nowhere
  <2>12. Places'
    <3>1. ASSUME NEW d \in Dials PROVE IF dial[d].st = "queued" THEN OnePlace(d) ELSE Nowhere(d)
      BY DEF RegInv, Places
    <3> QED BY <1>1, <1>3, <2>10, <2>11, <3>1 DEF Places
  <2> QED BY <1>1, <2>2, <2>3, <2>12 DEF RegInv, Shapes
<1> QED
  <2>1. \/ poll[k].ph = "bind" /\ Move(k, "write") /\ UNCHANGED <<up, answered>>
        \/ (\E d \in poll[k].d : answered' = answered \cup {<<Inst(k), d>>})
           /\ PollEnds(k, 200)
    BY Zenon DEF Bind, Is
  <2>2. (\E d \in poll[k].d : answered' = answered \cup {<<Inst(k), d>>})
        => \E p : answered' = answered \cup {<<p, x>>}
    BY <1>3
  <2> QED BY <1>4, <1>5, <2>1, <2>2

\* The registry loses the entry, or a session ends: no open moves.
LEMMA QuietSteps ==
    ASSUME RegInv,
           Reap \/ (\E p \in Procs : Deregister(p)) \/ (\E d \in Dials : SessionEnds(d) \/ DeviceGone(d))
    PROVE  RegInv'
<1>1. UNCHANGED <<started, up, made, opens, changes, poll, dial, answered, dropped>>
  BY DEF Reap, Deregister, SessionEnds, DeviceGone, device, registry, sessions
<1>2. current' \in {0, current}
  BY DEF Reap, Deregister, SessionEnds, DeviceGone, registry
<1>3. Shapes'
  <2>1. current' \in 0..MaxEntries
    BY <1>2, RegistryConstants DEF RegInv, Shapes
  <2> QED BY <1>1, <2>1 DEF RegInv, Shapes
<1>4. Hands'
  BY <1>1 DEF RegInv, Hands, HandOk
<1>5. Places'
  BY <1>1, OpensStay DEF RegInv
<1> QED BY <1>3, <1>4, <1>5 DEF RegInv

\* A dial finds the entry, and its open goes to the entry's queue or is refused.
LEMMA DialSteps ==
    ASSUME RegInv, NEW x \in Dials, Dial(x)
    PROVE  RegInv'
<1>1. UNCHANGED <<started, up, current, made, changes, poll, answered, dropped>>
  BY DEF Dial, device
<1>2. dial \in [Dials -> [st : {"no", "found", "queued", "busy"}, e : 0..MaxEntries]]
  BY DEF RegInv, Shapes
<1>3. PICK r \in [st : {"no", "found", "queued", "busy"}, e : 0..MaxEntries] : r = dial[x]
  BY <1>2
<1>4. Hands'
  BY <1>1 DEF RegInv, Hands, HandOk
<1>5. ASSUME NEW t \in [st : {"no", "found", "queued", "busy"}, e : 0..MaxEntries],
             dial' = [dial EXCEPT ![x] = t], t.st = "found" => t.e \in Entries
      PROVE  /\ dial' \in [Dials -> [st : {"no", "found", "queued", "busy"}, e : 0..MaxEntries]]
             /\ dial'[x] = t /\ \A d \in Dials : d # x => dial'[d] = dial[d]
             /\ \A d \in Dials : dial'[d].st = "found" => dial'[d].e \in Entries
  BY <1>2, <1>5 DEF RegInv, Shapes
<1>6. CASE dial[x].st \in {"no", "found"} /\ UNCHANGED opens
           /\ \E t \in [st : {"no", "found", "queued", "busy"}, e : 0..MaxEntries] :
                /\ dial' = [dial EXCEPT ![x] = t] /\ t.st \in {"found", "busy"} /\ (t.st = "found" => t.e \in Entries)
  <2>1. PICK t \in [st : {"no", "found", "queued", "busy"}, e : 0..MaxEntries] :
          /\ dial' = [dial EXCEPT ![x] = t] /\ t.st \in {"found", "busy"} /\ (t.st = "found" => t.e \in Entries)
    BY <1>6
  <2>2. /\ dial' \in [Dials -> [st : {"no", "found", "queued", "busy"}, e : 0..MaxEntries]]
        /\ dial'[x] = t /\ \A d \in Dials : d # x => dial'[d] = dial[d]
        /\ \A d \in Dials : dial'[d].st = "found" => dial'[d].e \in Entries
    BY <1>5, <2>1
  <2>3. Places'
    BY <1>1, <1>6, <2>1, <2>2, OpensStay DEF RegInv
  <2> QED BY <1>1, <1>4, <1>6, <2>2, <2>3 DEF RegInv, Shapes
<1>7. CASE dial[x].st = "no" /\ current # 0 /\ dial' = [dial EXCEPT ![x] = [st |-> "found", e |-> current]]
           /\ UNCHANGED opens
  <2>1. current \in Entries /\ current \in 0..MaxEntries
    BY <1>7, RegistryConstants DEF RegInv, Shapes, Entries
  <2>2. PICK t \in [st : {"no", "found", "queued", "busy"}, e : 0..MaxEntries] :
          t = [st |-> "found", e |-> current]
    BY <2>1
  <2>3. t.st = "found" /\ t.e = current
    BY <2>2
  <2>4. dial' = [dial EXCEPT ![x] = t]
    BY <1>7, <2>2
  <2> QED BY <1>6, <1>7, <2>1, <2>3, <2>4
<1>8. CASE dial[x].st = "found" /\ dial' = [dial EXCEPT ![x] = [st |-> "busy", e |-> 0]] /\ UNCHANGED opens
  <2>1. [st |-> "busy", e |-> 0] \in [st : {"no", "found", "queued", "busy"}, e : 0..MaxEntries]
    <3>1. 0 \in 0..MaxEntries
      BY RegistryConstants
    <3> QED BY <3>1
  <2>2. PICK t \in [st : {"no", "found", "queued", "busy"}, e : 0..MaxEntries] :
          t = [st |-> "busy", e |-> 0]
    BY <2>1
  <2>3. t.st = "busy" /\ dial' = [dial EXCEPT ![x] = t]
    BY <1>3, <1>8, <2>2
  <2> QED BY <1>6, <1>8, <2>3
<1>9. CASE /\ dial[x].st = "found" /\ Len(opens[dial[x].e]) < QueueSize
           /\ dial' = [dial EXCEPT ![x] = [st |-> "queued", e |-> 0]] /\ opens' = [opens EXCEPT ![dial[x].e] = Append(@, x)]
  <2>1. PICK f \in Entries : f = dial[x].e
    BY <1>9 DEF RegInv, Shapes
  <2>2. opens' = [opens EXCEPT ![f] = Append(@, x)] /\ Len(opens[f]) < QueueSize
    BY <1>9, <2>1
  <2>3. PICK t \in [st : {"no", "found", "queued", "busy"}, e : 0..MaxEntries] :
          t = [st |-> "queued", e |-> 0]
    <3>1. 0 \in 0..MaxEntries
      BY RegistryConstants
    <3>2. [st |-> "queued", e |-> 0] \in [st : {"no", "found", "queued", "busy"}, e : 0..MaxEntries]
      BY <3>1
    <3> QED BY <3>2
  <2>4. t.st = "queued" /\ dial' = [dial EXCEPT ![x] = t]
    BY <1>3, <1>9, <2>3
  <2>5. /\ dial' \in [Dials -> [st : {"no", "found", "queued", "busy"}, e : 0..MaxEntries]]
        /\ dial'[x] = t /\ \A d \in Dials : d # x => dial'[d] = dial[d]
        /\ \A d \in Dials : dial'[d].st = "found" => dial'[d].e \in Entries
    BY <1>5, <2>4
  <2>6. ASSUME NEW d \in Dials PROVE IF dial[d].st = "queued" THEN OnePlace(d) ELSE Nowhere(d)
    BY DEF RegInv, Places
  <2>7. Nowhere(x)
    BY <1>9, <2>6
  <2>8. /\ opens' \in [Entries -> Seq(Dials)] /\ \A e \in Entries : Len(opens'[e]) <= QueueSize
        /\ InQueue(x)'
        /\ \A d \in Dials : d # x => /\ NotQueued(d) => NotQueued(d)'
                                     /\ InQueue(d) => InQueue(d)'
    BY <2>2, <2>7, PutQueued DEF RegInv, Nowhere
  <2>9. \A d \in Dials : /\ NotInHand(d)' = NotInHand(d) /\ InHand(d)' = InHand(d)
                         /\ NotWritten(d)' = NotWritten(d) /\ Written(d)' = Written(d)
    BY <1>1 DEF NotInHand, InHand, NotWritten, Written
  <2>10. OnePlace(x)'
    BY <1>1, <2>7, <2>8, <2>9 DEF OnePlace, Nowhere
  <2>11. ASSUME NEW d \in Dials, d # x PROVE (OnePlace(d) => OnePlace(d)') /\ (Nowhere(d) => Nowhere(d)')
    BY <1>1, <2>8, <2>9, <2>11 DEF OnePlace, Nowhere
  <2>12. Places'
    BY <2>4, <2>5, <2>6, <2>10, <2>11 DEF Places
  <2> QED BY <1>1, <1>4, <2>5, <2>8, <2>12 DEF RegInv, Shapes
<1> QED BY <1>7, <1>8, <1>9 DEF Dial

-----------------------------------------------------------------------------
(* Always in one place *)

\* Nothing has been dialled yet.
LEMMA InitRegInv == Init => RegInv
<1> SUFFICES ASSUME Init PROVE RegInv
  OBVIOUS
<1>1. Shapes
  <2>1. << >> \in Seq(Dials) /\ Len(<< >>) = 0
    BY EmptySeq
  <2>2. opens \in [Entries -> Seq(Dials)] /\ \A e \in Entries : opens[e] = << >>
    BY <2>1 DEF Init
  <2>3. poll \in [Slots -> PollRecords]
    BY IdleRecord DEF Init
  <2>4. dial \in [Dials -> [st : {"no", "found", "queued", "busy"}, e : 0..MaxEntries]]
        /\ \A d \in Dials : dial[d].st = "no"
    BY RegistryConstants DEF Init
  <2> QED BY <2>1, <2>2, <2>3, <2>4, RegistryConstants DEF Init, Shapes
<1>2. \A k \in Slots : poll[k] = Idle
  BY DEF Init
<1>3. Hands
  BY <1>2, IdleRecord DEF Hands, HandOk
<1>4. ASSUME NEW d \in Dials PROVE dial[d].st # "queued" /\ Nowhere(d)
  <2>1. dial[d].st = "no"
    BY DEF Init
  <2>2. NotQueued(d)
    <3>1. ASSUME NEW e \in Entries, NEW i \in 1..QueueSize PROVE ~Queued(d, e, i)
      <4>1. opens[e] = << >> /\ Len(<< >>) = 0
        BY EmptySeq DEF Init
      <4> QED BY <4>1, RegistryConstants DEF Queued
    <3> QED BY <3>1 DEF NotQueued
  <2>3. NotInHand(d)
    BY <1>2, IdleRecord DEF NotInHand
  <2>4. NotWritten(d) /\ d \notin dropped
    BY DEF Init, NotWritten
  <2> QED BY <2>1, <2>2, <2>3, <2>4 DEF Nowhere
<1> QED BY <1>1, <1>3, <1>4 DEF RegInv, Places

\* Every step keeps the places.
LEMMA NextRegInv == RegInv /\ [Next]_vars => RegInv'
<1> SUFFICES ASSUME RegInv, [Next]_vars PROVE RegInv'
  OBVIOUS
<1>1. CASE UNCHANGED vars
  <2>1. UNCHANGED <<started, up, current, made, opens, changes, poll, dial, answered, dropped>>
    BY <1>1 DEF vars
  <2>2. Places'
    BY <2>1, OpensStay DEF RegInv
  <2> QED BY <2>1, <2>2 DEF RegInv, Shapes, Hands, HandOk
<1>2. ASSUME NEW k \in Slots, Handler(k) PROVE RegInv'
  BY <1>2, RegistrationSteps, TakeOpenStep, RequeueStep, BindStep DEF Handler
<1>3. CASE Next
  BY <1>2, <1>3, DeviceSteps, QuietSteps, DialSteps DEF Next
<1> QED BY <1>1, <1>3

\* A set that has nothing, or one thing, in it.
LEMMA CountNone == ASSUME NEW S, \A y \in S : FALSE PROVE Cardinality(S) = 0
<1>1. S = {}
  OBVIOUS
<1> QED BY <1>1, FS_EmptySet

LEMMA CountOne == ASSUME NEW S, NEW x \in S, \A y \in S : y = x PROVE Cardinality(S) = 1
<1>1. S = {x}
  OBVIOUS
<1> QED BY <1>1, FS_Singleton

\* One place of an open, counted.
LEMMA PlacesCounted == RegInv => OpenInOnePlace
<1> SUFFICES ASSUME RegInv, NEW d \in Dials, dial[d].st = "queued"
             PROVE  1 = Cardinality({p \in Entries \X (1..QueueSize) : p[2] <= Len(opens[p[1]]) /\ opens[p[1]][p[2]] = d})
                        + Cardinality({k \in Slots : d \in poll[k].d})
                        + Cardinality({a \in answered : a[2] = d})
                        + (IF d \in dropped THEN 1 ELSE 0)
  BY DEF OpenInOnePlace
<1>1. OnePlace(d)
  BY DEF RegInv, Places
<1>2. PICK Q : Q = {p \in Entries \X (1..QueueSize) : p[2] <= Len(opens[p[1]]) /\ opens[p[1]][p[2]] = d}
  OBVIOUS
<1>3. \A p : p \in Q <=> p \in Entries \X (1..QueueSize) /\ Queued(d, p[1], p[2])
  BY <1>2 DEF Queued
<1>4. NotQueued(d) => Cardinality(Q) = 0
  BY <1>3, CountNone DEF NotQueued
<1>5. InQueue(d) => Cardinality(Q) = 1
  <2> SUFFICES ASSUME InQueue(d) PROVE Cardinality(Q) = 1
    OBVIOUS
  <2>1. PICK e \in Entries, i \in 1..QueueSize :
          /\ Queued(d, e, i)
          /\ \A f \in Entries : \A j \in 1..QueueSize : Queued(d, f, j) => f = e /\ j = i
    BY DEF InQueue
  <2>2. PICK w : w = <<e, i>>
    OBVIOUS
  <2>3. w \in Entries \X (1..QueueSize) /\ w[1] = e /\ w[2] = i
    BY <2>2
  <2>4. w \in Q
    BY <1>3, <2>1, <2>3
  <2>5. ASSUME NEW y \in Q PROVE y = w
    <3>1. y \in Entries \X (1..QueueSize) /\ y[1] = e /\ y[2] = i
      BY <1>3, <2>1
    <3> QED BY <2>2, <3>1
  <2> QED BY <2>4, <2>5, CountOne
<1>6. PICK H : H = {k \in Slots : d \in poll[k].d}
  OBVIOUS
<1>7. (NotInHand(d) => Cardinality(H) = 0) /\ (InHand(d) => Cardinality(H) = 1)
  <2>1. NotInHand(d) => Cardinality(H) = 0
    BY <1>6, CountNone DEF NotInHand
  <2>2. ASSUME InHand(d) PROVE Cardinality(H) = 1
    <3>1. PICK k \in Slots : d \in poll[k].d /\ \A j \in Slots : d \in poll[j].d => j = k
      BY <2>2 DEF InHand
    <3> QED BY <1>6, <3>1, CountOne
  <2> QED BY <2>1, <2>2
<1>8. PICK W : W = {a \in answered : a[2] = d}
  OBVIOUS
<1>9. (NotWritten(d) => Cardinality(W) = 0) /\ (Written(d) => Cardinality(W) = 1)
  <2>1. NotWritten(d) => Cardinality(W) = 0
    BY <1>8, CountNone DEF NotWritten
  <2>2. ASSUME Written(d) PROVE Cardinality(W) = 1
    <3>1. PICK a \in answered : a[2] = d /\ \A b \in answered : b[2] = d => b = a
      BY <2>2 DEF Written
    <3> QED BY <1>8, <3>1, CountOne
  <2> QED BY <2>1, <2>2
<1>10. 1 = Cardinality(Q) + Cardinality(H) + Cardinality(W) + (IF d \in dropped THEN 1 ELSE 0)
  BY <1>1, <1>4, <1>5, <1>7, <1>9 DEF OnePlace
<1> QED BY <1>2, <1>6, <1>8, <1>10

\* handleHPoll, requeueHTTPJob and handleHDial: an open that was accepted is in
\* one place, for any number of processes, polls, sessions and entries.
THEOREM OneOpenOnePlace == Spec => []OpenInOnePlace
<1> QED BY InitRegInv, NextRegInv, PlacesCounted, PTL DEF Spec

-----------------------------------------------------------------------------
(* Who holds the entry *)

\* A poll that has been published and is not over.
Published(k) == ~Is(k, "idle") /\ ~Is(k, "net") /\ ~Is(k, "reg")
Holds(k) == poll[k].live /\ Published(k) /\ Inst(k) = latest

\* Whose request still waits is a process that runs, and waits for no other poll;
\* a process deregisters after it has stopped.
UpInv ==
    /\ started \in Nat /\ up \subseteq 1..started /\ dereg \subseteq 1..started /\ dereg \cap up = {}
    /\ \A k \in Slots : poll[k].live => Inst(k) \in up /\ ~Is(k, "idle")
    /\ \A k, j \in Slots : poll[k].live /\ poll[j].live /\ Inst(k) = Inst(j) => k = j

\* The entry is the latest process's, and stays registered while a poll of it
\* waits there.
Kept ==
    /\ current # 0 => inst[current] = latest
    /\ \A k \in Slots : Holds(k) => current # 0 /\ poll[k].e = current
    /\ \A k, j \in Slots : Holds(k) /\ Is(j, "reg") => poll[j].e = current

\* So it is until a poll of an earlier process is registered, and again once the
\* latest one has registered anew.
LatestInv ==
    /\ latest \in Nat /\ inst \in [Entries -> Nat] /\ strayed \in BOOLEAN
    /\ \A k, j \in Slots : Is(k, "reg") /\ Is(j, "reg") => k = j
    /\ \A k \in Slots : Published(k) => Inst(k) <= latest
    /\ strayed \/ Kept

\* Poll j is as it was, but that nobody may wait for it any more.
Same(j) ==
    /\ poll'[j].ph = poll[j].ph /\ poll'[j].e = poll[j].e /\ poll'[j].proc = poll[j].proc
    /\ poll'[j].live => poll[j].live

\* Poll k goes on, with the entry x.
GoesOn(k, x) ==
    /\ UNCHANGED <<started, up, dereg>>
    /\ poll'[k].ph \notin {"idle", "net"} /\ poll'[k].e = x
    /\ poll'[k].proc = poll[k].proc /\ poll'[k].live = poll[k].live
    /\ \A j \in Slots : j # k => poll'[j] = poll[j]

\* The same, and none of that process's polls is waited for.
LEMMA OrphansSame ==
    ASSUME poll \in [Slots -> PollRecords], NEW p, NEW j \in Slots
    PROVE  /\ Orphaned(p)[j].ph = poll[j].ph /\ Orphaned(p)[j].e = poll[j].e
           /\ Orphaned(p)[j].proc = poll[j].proc
           /\ Orphaned(p)[j].live => poll[j].live /\ Inst(j) # p
<1>1. PICK q \in PollRecords : q = poll[j]
  OBVIOUS
<1>2. PICK t : t = [q EXCEPT !.live = FALSE]
  OBVIOUS
<1>3. t.ph = q.ph /\ t.e = q.e /\ t.proc = q.proc /\ t.live = FALSE
  BY <1>2 DEF PollRecords
<1>4. Orphaned(p)[j] = IF Inst(j) = p THEN t ELSE q
  BY <1>1, <1>2 DEF Orphaned
<1>5. CASE Inst(j) = p
  BY <1>1, <1>3, <1>4, <1>5
<1>6. CASE Inst(j) # p
  BY <1>1, <1>4, <1>6
<1> QED BY <1>5, <1>6

\* The poll is over; after a 409 its process is, and all its polls are orphans.
LEMMA PollGone ==
    ASSUME RegInv, UpInv, NEW k \in Slots, NEW code, PollEnds(k, code)
    PROVE  /\ poll'[k].ph = "idle" /\ up' \subseteq up
           /\ \A j \in Slots : j # k => Same(j)
           /\ \A j \in Slots : poll'[j].live => poll'[j].proc \in up' /\ poll'[j].ph # "idle"
<1>1. poll \in [Slots -> PollRecords]
  BY DEF RegInv, Shapes
<1>2. Idle.ph = "idle" /\ Idle.live = FALSE
  BY DEF Idle
<1>3. CASE poll' = [poll EXCEPT ![k] = Idle] /\ up' = up
  <2>1. poll'[k] = Idle /\ \A j \in Slots : j # k => poll'[j] = poll[j]
    BY <1>1, <1>3
  <2> QED BY <1>2, <1>3, <2>1 DEF Same, UpInv, Inst, Is
<1>4. CASE poll' = [Orphaned(Inst(k)) EXCEPT ![k] = Idle] /\ up' = up \ {Inst(k)}
  <2>1. PICK q : q = Orphaned(Inst(k))
    OBVIOUS
  <2>2. \A j \in Slots : /\ q[j].ph = poll[j].ph /\ q[j].e = poll[j].e /\ q[j].proc = poll[j].proc
                         /\ q[j].live => poll[j].live /\ Inst(j) # Inst(k)
    BY <1>1, <2>1, OrphansSame, ZenonT(40)
  <2>3. poll' = [q EXCEPT ![k] = Idle] /\ DOMAIN q = Slots
    BY <1>4, <2>1 DEF Orphaned
  <2>4. poll'[k] = Idle /\ \A j \in Slots : j # k => poll'[j] = q[j]
    BY <2>3
  <2> QED BY <1>2, <1>4, <2>2, <2>4 DEF Same, UpInv, Inst, Is
<1> QED BY <1>3, <1>4 DEF PollEnds

\* A poll that becomes another record of the same request.
LEMMA RecordGoesOn ==
    ASSUME poll \in [Slots -> PollRecords], NEW k \in Slots, NEW r, poll' = [poll EXCEPT ![k] = r],
           r.ph \notin {"idle", "net"}, r.proc = poll[k].proc, r.live = poll[k].live,
           UNCHANGED <<started, up, dereg>>
    PROVE  GoesOn(k, r.e) /\ poll'[k] = r
BY DEF GoesOn

\* A handler that neither looks the entry up nor publishes.
LEMMA HandlerKinds ==
    ASSUME RegInv, NEW k \in Slots,
           RegistrationFails(k) \/ TakeOpen(k) \/ ParkedEnds(k) \/ CheckOpen(k) \/ Requeue(k) \/ Bind(k)
    PROVE  /\ UNCHANGED <<current, inst, latest, strayed, started, dereg>>
           /\ \/ \E code \in {200, 409} : PollEnds(k, code)
              \/ Published(k) /\ poll'[k].ph # "reg" /\ GoesOn(k, poll[k].e)
<1>1. UNCHANGED <<current, inst, latest, strayed, started, dereg>>
  BY DEF RegistrationFails, TakeOpen, ParkedEnds, CheckOpen, Requeue, Bind, device, registry, heard
<1>2. poll \in [Slots -> PollRecords]
  BY DEF RegInv, Shapes
<1>3. PICK q \in PollRecords : q = poll[k]
  BY <1>2
<1>4. ASSUME NEW r, r.proc = q.proc, r.live = q.live, r.e = q.e, poll' = [poll EXCEPT ![k] = r],
             UNCHANGED up, r.ph \notin {"idle", "net", "reg"}
      PROVE  poll'[k].ph # "reg" /\ GoesOn(k, poll[k].e)
  BY <1>1, <1>2, <1>3, <1>4, RecordGoesOn
<1>5. CASE RegistrationFails(k) \/ ParkedEnds(k)
  BY <1>1, <1>5 DEF RegistrationFails, ParkedEnds
<1>6. CASE TakeOpen(k)
  <2>1. PICK D : D = {Head(opens[poll[k].e])}
    OBVIOUS
  <2>2. PICK r : r = [q EXCEPT !.ph = "hand", !.seen = 0, !.d = D]
    OBVIOUS
  <2>3. r.ph = "hand" /\ r.proc = q.proc /\ r.live = q.live /\ r.e = q.e
    BY <2>2 DEF PollRecords
  <2>4. poll' = [poll EXCEPT ![k] = r] /\ UNCHANGED up /\ Published(k)
    BY <1>3, <1>6, <2>1, <2>2 DEF TakeOpen, device, Published, Is
  <2> QED BY <1>1, <1>4, <2>3, <2>4
<1>7. CASE CheckOpen(k)
  <2>1. PICK p : p = IF Obsolete(Inst(k)) THEN "requeue" ELSE "bind"
    OBVIOUS
  <2>2. PICK r : r = [q EXCEPT !.ph = p]
    OBVIOUS
  <2>3. r.ph = p /\ r.proc = q.proc /\ r.live = q.live /\ r.e = q.e
    BY <2>2 DEF PollRecords
  <2>4. poll' = [poll EXCEPT ![k] = r] /\ UNCHANGED up /\ Published(k)
    BY <1>3, <1>7, <2>1, <2>2 DEF CheckOpen, Move, device, Published, Is
  <2>5. p \notin {"idle", "net", "reg"}
    BY <2>1
  <2> QED BY <1>1, <1>4, <2>3, <2>4, <2>5
<1>8. CASE Requeue(k)
  <2>1. CASE \E code \in {200, 409} : PollEnds(k, code)
    BY <1>1, <2>1
  <2>2. CASE /\ Is(k, "requeue") /\ UNCHANGED up
             /\ poll' = [poll EXCEPT ![k].ph = "giving", ![k].seen = current]
    <3>1. PICK r : r = [q EXCEPT !.ph = "giving", !.seen = current]
      OBVIOUS
    <3>2. r.ph = "giving" /\ r.proc = q.proc /\ r.live = q.live /\ r.e = q.e
      BY <3>1 DEF PollRecords
    <3>3. poll' = [poll EXCEPT ![k] = r] /\ Published(k)
      BY <1>3, <2>2, <3>1 DEF Published, Is
    <3> QED BY <1>1, <1>4, <2>2, <3>2, <3>3
  <2> QED BY <1>8, <2>1, <2>2, ZenonT(30) DEF Requeue
<1>9. CASE Bind(k)
  <2>1. CASE \E code \in {200, 409} : PollEnds(k, code)
    BY <1>1, <2>1
  <2>2. CASE Is(k, "bind") /\ UNCHANGED up /\ Move(k, "write")
    <3>1. PICK r : r = [q EXCEPT !.ph = "write"]
      OBVIOUS
    <3>2. r.ph = "write" /\ r.proc = q.proc /\ r.live = q.live /\ r.e = q.e
      BY <3>1 DEF PollRecords
    <3>3. poll' = [poll EXCEPT ![k] = r] /\ Published(k)
      BY <1>3, <2>2, <3>1 DEF Published, Is, Move
    <3> QED BY <1>1, <1>4, <2>2, <3>2, <3>3
  <2> QED BY <1>9, <2>1, <2>2, ZenonT(30) DEF Bind
<1> QED BY <1>5, <1>6, <1>7, <1>8, <1>9

\* Registering and publishing.
LEMMA LookupPoll ==
    ASSUME RegInv, NEW k \in Slots, Lookup(k)
    PROVE  /\ Is(k, "net") /\ RegistrationMuFree
           /\ UNCHANGED <<current, inst, latest, strayed, started, dereg>>
           /\ \/ PollEnds(k, 409)
              \/ /\ current # 0 => Inst(k) \notin retired[current]
                 /\ poll'[k].ph = "reg" /\ GoesOn(k, IF current = 0 THEN made + 1 ELSE current)
<1>1. /\ Is(k, "net") /\ RegistrationMuFree
      /\ UNCHANGED <<current, inst, latest, strayed, started, dereg>>
  BY DEF Lookup, heard
<1>2. poll \in [Slots -> PollRecords]
  BY DEF RegInv, Shapes
<1>3. PICK q \in PollRecords : q = poll[k]
  BY <1>2
<1>4. PICK x : x = IF current = 0 THEN made + 1 ELSE current
  OBVIOUS
<1>5. CASE /\ ~(current # 0 /\ Inst(k) \in retired[current]) /\ UNCHANGED up
           /\ poll' = [poll EXCEPT ![k].ph = "reg", ![k].e = x]
  <2>1. PICK r : r = [q EXCEPT !.ph = "reg", !.e = x]
    OBVIOUS
  <2>2. r.ph = "reg" /\ r.proc = q.proc /\ r.live = q.live /\ r.e = x
    BY <2>1 DEF PollRecords
  <2>3. poll' = [poll EXCEPT ![k] = r]
    BY <1>3, <1>5, <2>1
  <2>4. GoesOn(k, x) /\ poll'[k] = r
    BY <1>1, <1>2, <1>3, <1>5, <2>2, <2>3, RecordGoesOn
  <2> QED BY <1>1, <1>4, <1>5, <2>2, <2>4
<1>6. CASE PollEnds(k, 409)
  BY <1>1, <1>6
<1> QED
  <2>1. \/ PollEnds(k, 409)
        \/ /\ ~(current # 0 /\ Inst(k) \in retired[current]) /\ UNCHANGED up
           /\ poll' = [poll EXCEPT ![k].ph = "reg", ![k].e = IF current = 0 THEN made + 1 ELSE current]
    BY Zenon DEF Lookup
  <2> QED BY <1>4, <1>5, <1>6, <2>1

LEMMA PublishPoll ==
    ASSUME RegInv, NEW k \in Slots, Publish(k)
    PROVE  /\ Is(k, "reg") /\ poll[k].e \in Entries
           /\ poll'[k].ph = "parked" /\ GoesOn(k, poll[k].e)
           /\ inst' = [inst EXCEPT ![poll[k].e] = Inst(k)] /\ current' = poll[k].e
           /\ latest' = IF latest < Inst(k) THEN Inst(k) ELSE latest
           /\ strayed' = (Inst(k) < latest \/ (strayed /\ ~poll[k].live))
<1>1. poll \in [Slots -> PollRecords]
  BY DEF RegInv, Shapes
<1>2. PICK q \in PollRecords : q = poll[k]
  BY <1>1
<1>3. PICK n : n = changes'[poll[k].e]
  OBVIOUS
<1>4. PICK r : r = [q EXCEPT !.ph = "parked", !.seen = n]
  OBVIOUS
<1>5. r.ph = "parked" /\ r.proc = q.proc /\ r.live = q.live /\ r.e = q.e
  BY <1>4 DEF PollRecords
<1>6. poll' = [poll EXCEPT ![k].ph = "parked", ![k].seen = changes'[poll[k].e]]
  BY Zenon DEF Publish
<1>7. poll' = [poll EXCEPT ![k] = r] /\ UNCHANGED <<started, up, dereg>>
  BY <1>2, <1>3, <1>4, <1>6 DEF Publish, device
<1>8. GoesOn(k, q.e) /\ poll'[k] = r
  BY <1>1, <1>2, <1>5, <1>7, RecordGoesOn
<1>9. Is(k, "reg") /\ poll[k].e \in Entries
  BY DEF Publish, Is, RegInv, Hands, HandOk
<1> QED BY <1>2, <1>5, <1>8, <1>9 DEF Publish

\* A handler keeps UpInv.
LEMMA HandlerUpInv ==
    ASSUME RegInv, UpInv, NEW k \in Slots, Handler(k)
    PROVE  UpInv'
<1>1. ASSUME UNCHANGED <<started, dereg>>, NEW code, PollEnds(k, code) PROVE UpInv'
  <2>1. ASSUME NEW i \in Slots, NEW j \in Slots, poll'[i].live, poll'[j].live, poll'[i].proc = poll'[j].proc
        PROVE  i = j
    <3>1. i # k /\ j # k
      BY <1>1, <2>1, PollGone
    <3>2. Same(i) /\ Same(j)
      BY <1>1, <3>1, PollGone
    <3> QED BY <2>1, <3>2 DEF Same, UpInv, Inst
  <2>2. \A j \in Slots : poll'[j].live => poll'[j].proc \in up' /\ poll'[j].ph # "idle"
    BY <1>1, PollGone
  <2>3. up' \subseteq up
    BY <1>1, PollGone
  <2> QED BY <1>1, <2>1, <2>2, <2>3 DEF UpInv, Inst, Is
<1>2. ASSUME NEW x, GoesOn(k, x) PROVE UpInv'
  BY <1>2 DEF UpInv, GoesOn, Inst, Is
<1>3. CASE Lookup(k)
  BY <1>1, <1>2, <1>3, LookupPoll
<1>4. CASE Publish(k)
  BY <1>2, <1>4, PublishPoll
<1> QED BY <1>1, <1>2, <1>3, <1>4, HandlerKinds DEF Handler

\* Every step keeps what is known of the processes.
LEMMA NextUpInv == RegInv /\ UpInv /\ [Next]_vars => UpInv'
<1> SUFFICES ASSUME RegInv, UpInv, [Next]_vars PROVE UpInv'
  OBVIOUS
<1>0. poll \in [Slots -> PollRecords]
  BY DEF RegInv, Shapes
<1>1. CASE UNCHANGED <<started, up, dereg, poll>>
  BY <1>1 DEF UpInv, Inst, Is
<1>2. CASE Start
  BY <1>2 DEF Start, UpInv, Inst, Is
<1>3. ASSUME NEW p \in Procs, Exit(p) PROVE UpInv'
  <2>1. \A j \in Slots : /\ poll'[j].ph = poll[j].ph /\ poll'[j].proc = poll[j].proc
                         /\ poll'[j].live => poll[j].live /\ Inst(j) # p
    BY <1>0, <1>3, OrphansSame DEF Exit
  <2> QED BY <1>3, <2>1 DEF Exit, UpInv, Inst, Is
<1>4. ASSUME NEW p \in Procs, NEW k \in Slots, SendPoll(p, k) PROVE UpInv'
  <2>1. PICK r : r = [Idle EXCEPT !.ph = "net", !.proc = p, !.live = TRUE]
    OBVIOUS
  <2>2. r = [ph |-> "net", proc |-> p, live |-> TRUE, e |-> 0, seen |-> 0, d |-> {}]
    BY <2>1 DEF Idle
  <2>3. poll' = [poll EXCEPT ![k] = r] /\ UNCHANGED <<started, up, dereg>> /\ p \in up
    BY <1>4, <2>1 DEF SendPoll, device
  <2>4. poll'[k] = r /\ \A j \in Slots : j # k => poll'[j] = poll[j]
    BY <1>0, <2>3
  <2>5. \A j \in Slots : poll[j].live => Inst(j) # p
    BY <1>4 DEF SendPoll
  <2> QED BY <2>2, <2>3, <2>4, <2>5 DEF UpInv, Inst, Is
<1>5. ASSUME NEW k \in Slots, Abandon(k) PROVE UpInv'
  <2>1. PICK q \in PollRecords : q = poll[k]
    BY <1>0
  <2>2. PICK r : r = [q EXCEPT !.live = FALSE]
    OBVIOUS
  <2>3. r.live = FALSE
    BY <2>2 DEF PollRecords
  <2>4. poll' = [poll EXCEPT ![k] = r] /\ UNCHANGED <<started, up, dereg>>
    BY <1>5, <2>1, <2>2 DEF Abandon, device
  <2>5. poll'[k] = r /\ \A j \in Slots : j # k => poll'[j] = poll[j]
    BY <1>0, <2>4
  <2> QED BY <2>3, <2>4, <2>5 DEF UpInv, Inst, Is
<1>6. ASSUME NEW p \in Procs, Deregister(p) PROVE UpInv'
  BY <1>6 DEF Deregister, UpInv, Inst, Is
<1>7. ASSUME NEW d \in Dials, Dial(d) \/ SessionEnds(d) \/ DeviceGone(d) PROVE UpInv'
  BY <1>1, <1>7 DEF Dial, SessionEnds, DeviceGone, device
<1>8. CASE Reap
  BY <1>1, <1>8 DEF Reap, device
<1>9. CASE Next
  BY <1>2, <1>3, <1>4, <1>5, <1>6, <1>7, <1>8, <1>9, HandlerUpInv DEF Next
<1> QED BY <1>1, <1>9 DEF vars

\* Fewer polls, and the entry as it was.
LEMMA SameLatest ==
    ASSUME LatestInv, UNCHANGED <<current, inst, latest, strayed>>,
           \A j \in Slots : Same(j) \/ poll'[j].ph \in {"idle", "net"}
    PROVE  LatestInv'
<1>1. \A j \in Slots : /\ Is(j, "reg")' => Is(j, "reg") /\ Same(j)
                       /\ Published(j)' => Published(j) /\ Same(j)
  BY DEF Is, Published, Same
<1>2. \A j \in Slots : /\ Same(j) => Inst(j)' = Inst(j) /\ poll'[j].e = poll[j].e
                       /\ Holds(j)' => Holds(j) /\ Same(j)
  BY <1>1 DEF Same, Inst, Holds
<1>3. Kept => Kept'
  BY <1>1, <1>2 DEF Kept
<1> QED BY <1>1, <1>2, <1>3 DEF LatestInv

\* No poll of the latest process waits there: the entry may go.
LEMMA EntryGone ==
    ASSUME LatestInv, UNCHANGED <<poll, inst, latest, strayed>>, current' = 0,
           strayed \/ \A k \in Slots : ~Holds(k)
    PROVE  LatestInv'
BY DEF LatestInv, Kept, Holds, Published, Is, Inst

\* Looking the entry up, while the lock keeps the others from registering.
LEMMA LookupLatest ==
    ASSUME RegInv, UpInv, LatestInv, NEW k \in Slots, Lookup(k)
    PROVE  LatestInv'
<1>1. UNCHANGED <<current, inst, latest, strayed>> /\ RegistrationMuFree /\ Is(k, "net")
  BY LookupPoll
<1>2. CASE PollEnds(k, 409)
  BY <1>1, <1>2, PollGone, SameLatest
<1>3. CASE /\ poll'[k].ph = "reg" /\ GoesOn(k, IF current = 0 THEN made + 1 ELSE current)
  <2>1. \A j \in Slots : j # k => poll'[j] = poll[j] /\ poll[j].ph # "reg"
    BY <1>1, <1>3 DEF GoesOn, RegistrationMuFree, Is
  <2>2. Inst(k)' = Inst(k) /\ poll'[k].e = (IF current = 0 THEN made + 1 ELSE current)
    BY <1>3 DEF GoesOn, Inst
  <2>3. \A j \in Slots : /\ Is(j, "reg")' <=> j = k
                         /\ Published(j)' => Published(j) /\ j # k
                         /\ Holds(j)' => Holds(j) /\ j # k
    BY <1>1, <1>3, <2>1 DEF Is, Published, Holds, Inst
  <2>4. \A j \in Slots : j # k => Inst(j)' = Inst(j) /\ poll'[j].e = poll[j].e
    BY <2>1 DEF Inst
  <2>5. Kept => Kept'
    BY <1>1, <2>2, <2>3, <2>4 DEF Kept
  <2> QED BY <1>1, <2>3, <2>4, <2>5 DEF LatestInv
<1> QED BY <1>2, <1>3, LookupPoll

\* What the latest process publishes is its entry; an earlier one strays.
LEMMA PublishLatest ==
    ASSUME RegInv, UpInv, LatestInv, NEW k \in Slots, Publish(k)
    PROVE  LatestInv'
<1>1. PICK e \in Entries : e = poll[k].e
  BY PublishPoll
<1>2. \A j \in Slots : Inst(j) \in Nat
  <2> TAKE j \in Slots
  <2>1. PICK q \in PollRecords : q = poll[j]
    BY DEF RegInv, Shapes
  <2> QED BY <2>1, RegistryConstants DEF Inst, PollRecords
<1>3. PICK p \in Nat : p = Inst(k)
  BY <1>2
<1>4. latest \in Nat /\ inst \in [Entries -> Nat] /\ strayed \in BOOLEAN
  BY DEF LatestInv
<1>5. /\ latest' = (IF latest < p THEN p ELSE latest) /\ current' = e /\ inst' = [inst EXCEPT ![e] = p]
      /\ strayed' = (p < latest \/ (strayed /\ ~poll[k].live))
      /\ poll'[k].ph = "parked" /\ poll'[k].e = e /\ Inst(k)' = p /\ poll'[k].live = poll[k].live
      /\ \A j \in Slots : j # k => poll'[j] = poll[j]
  BY <1>1, <1>3, PublishPoll DEF GoesOn, Inst
<1>6. \A j \in Slots : ~Is(j, "reg")'
  <2>1. ASSUME NEW j \in Slots, j # k PROVE poll[j].ph # "reg"
    BY <2>1, PublishPoll DEF LatestInv, Is
  <2>2. ASSUME NEW j \in Slots, j # k PROVE poll'[j].ph # "reg"
    BY <1>5, <2>1, <2>2
  <2> QED BY <1>5, <2>2 DEF Is
<1>7. e # 0
  BY DEF Entries
<1>8. ASSUME NEW j \in Slots, Published(j)' PROVE Inst(j)' <= latest'
  <2>1. CASE j # k
    <3>1. Published(j) /\ Inst(j)' = Inst(j)
      BY <1>5, <1>8, <2>1 DEF Published, Is, Inst
    <3> QED BY <1>2, <1>3, <1>4, <1>5, <3>1 DEF LatestInv
  <2> QED BY <1>3, <1>4, <1>5, <2>1
<1>9. inst' \in [Entries -> Nat] /\ inst'[e] = p /\ latest' \in Nat /\ strayed' \in BOOLEAN
  BY <1>4, <1>5
<1>10. ASSUME ~strayed' PROVE Kept'
  <2>1. p >= latest /\ latest' = p /\ (strayed => poll[k].live)
    <3>1. ~(p < latest) /\ ~(strayed /\ ~poll[k].live)
      BY <1>5, <1>10, Zenon
    <3> QED BY <1>3, <1>4, <1>5, <3>1
  <2>2. ASSUME NEW j \in Slots, Holds(j)' PROVE poll'[j].e = e
    <3>1. CASE j # k
      <4>1. Published(j) /\ Inst(j) = p /\ poll[j].live /\ poll'[j] = poll[j]
        BY <1>5, <2>1, <2>2, <3>1 DEF Holds, Published, Is, Inst
      <4>2. p = latest /\ Holds(j)
        BY <1>4, <2>1, <4>1 DEF LatestInv, Holds
      <4>3. ~strayed
        BY <1>3, <2>1, <3>1, <4>1 DEF UpInv
      <4>4. Kept /\ Is(k, "reg")
        BY <4>3, PublishPoll DEF LatestInv
      <4> QED BY <1>1, <4>1, <4>2, <4>4 DEF Kept
    <3> QED BY <1>5, <3>1
  <2> QED BY <1>5, <1>6, <1>7, <1>9, <2>1, <2>2 DEF Kept
<1> QED BY <1>6, <1>8, <1>9, <1>10 DEF LatestInv

\* The rest of handleHPoll leaves the registry alone.
LEMMA HandlerLatest ==
    ASSUME RegInv, UpInv, LatestInv, NEW k \in Slots,
           RegistrationFails(k) \/ TakeOpen(k) \/ ParkedEnds(k) \/ CheckOpen(k) \/ Requeue(k) \/ Bind(k)
    PROVE  LatestInv'
<1>1. UNCHANGED <<current, inst, latest, strayed>>
  BY HandlerKinds
<1>2. CASE \E code \in {200, 409} : PollEnds(k, code)
  BY <1>1, <1>2, PollGone, SameLatest
<1>3. CASE Published(k) /\ poll'[k].ph # "reg" /\ GoesOn(k, poll[k].e)
  <2>1. \A j \in Slots : Inst(j)' = Inst(j) /\ poll'[j].e = poll[j].e /\ poll'[j].live = poll[j].live
    BY <1>3 DEF GoesOn, Inst
  <2>2. \A j \in Slots : Published(j)' = Published(j) /\ (Is(j, "reg")' => Is(j, "reg"))
    BY <1>3 DEF GoesOn, Published, Is
  <2>3. \A j \in Slots : Holds(j)' = Holds(j)
    BY <1>1, <2>1, <2>2 DEF Holds
  <2>4. Kept => Kept'
    BY <1>1, <2>1, <2>2, <2>3 DEF Kept
  <2> QED BY <1>1, <2>1, <2>2, <2>4 DEF LatestInv
<1> QED BY <1>2, <1>3, HandlerKinds

\* A poll of the latest process that waits is one of the entry's polls.
LEMMA HolderPolls ==
    ASSUME LatestInv, ~strayed, NEW k \in Slots, Holds(k)
    PROVE  current # 0 /\ inst[current] = latest /\ k \in PollsOf(current)
BY DEF LatestInv, Kept, Holds, Published, PollsOf, Is

\* Every step keeps the entry with its holder.
LEMMA NextLatestInv ==
    RegInv /\ UpInv /\ LatestInv /\ [Next]_vars => LatestInv'
<1> SUFFICES ASSUME RegInv, UpInv, LatestInv, [Next]_vars PROVE LatestInv'
  OBVIOUS
<1>0. poll \in [Slots -> PollRecords]
  BY DEF RegInv, Shapes
<1>1. CASE UNCHANGED <<current, inst, latest, strayed, poll>>
  BY <1>1, SameLatest DEF Same
<1>2. ASSUME NEW p \in Procs, Exit(p) PROVE LatestInv'
  <2>1. \A j \in Slots : Same(j)
    BY <1>0, <1>2, OrphansSame DEF Exit, Same
  <2> QED BY <1>2, <2>1, SameLatest DEF Exit, registry, heard
<1>3. ASSUME NEW p \in Procs, NEW k \in Slots, SendPoll(p, k) PROVE LatestInv'
  <2>1. PICK r : r = [Idle EXCEPT !.ph = "net", !.proc = p, !.live = TRUE]
    OBVIOUS
  <2>2. r.ph = "net"
    BY <2>1 DEF Idle
  <2>3. poll' = [poll EXCEPT ![k] = r] /\ UNCHANGED <<current, inst, latest, strayed>>
    BY <1>3, <2>1 DEF SendPoll, registry, heard
  <2>4. poll'[k] = r /\ \A j \in Slots : j # k => poll'[j] = poll[j]
    BY <1>0, <2>3
  <2> QED BY <2>2, <2>3, <2>4, SameLatest DEF Same
<1>4. ASSUME NEW k \in Slots, Abandon(k) PROVE LatestInv'
  <2>1. PICK q \in PollRecords : q = poll[k]
    BY <1>0
  <2>2. PICK r : r = [q EXCEPT !.live = FALSE]
    OBVIOUS
  <2>3. r.live = FALSE /\ r.ph = q.ph /\ r.e = q.e /\ r.proc = q.proc
    BY <2>2 DEF PollRecords
  <2>4. poll' = [poll EXCEPT ![k] = r] /\ UNCHANGED <<current, inst, latest, strayed>>
    BY <1>4, <2>1, <2>2 DEF Abandon, registry, heard
  <2>5. poll'[k] = r /\ \A j \in Slots : j # k => poll'[j] = poll[j]
    BY <1>0, <2>4
  <2> QED BY <2>1, <2>3, <2>4, <2>5, SameLatest DEF Same
<1>5. ASSUME NEW p \in Procs, Deregister(p) PROVE LatestInv'
  <2>1. CASE UNCHANGED current
    BY <1>1, <1>5, <2>1 DEF Deregister, heard
  <2>2. CASE current # 0 /\ inst[current] = p /\ current' = 0
    <3>1. ASSUME ~strayed, NEW k \in Slots, Holds(k) PROVE FALSE
      <4>1. Inst(k) = p /\ Inst(k) \in up /\ p \in dereg
        BY <1>5, <2>2, <3>1, HolderPolls DEF Holds, UpInv, Deregister
      <4> QED BY <4>1 DEF UpInv
    <3> QED BY <1>5, <2>2, <3>1, EntryGone DEF Deregister, heard
  <2> QED BY <1>5, <2>1, <2>2 DEF Deregister
<1>6. CASE Reap
  BY <1>6, HolderPolls, EntryGone DEF Reap, heard
<1>7. ASSUME NEW d \in Dials, Dial(d) \/ SessionEnds(d) \/ DeviceGone(d) PROVE LatestInv'
  BY <1>1, <1>7 DEF Dial, SessionEnds, DeviceGone, registry, heard
<1>8. CASE Start
  BY <1>1, <1>8 DEF Start, registry, heard
<1>9. ASSUME NEW k \in Slots, Handler(k) PROVE LatestInv'
  BY <1>9, LookupLatest, PublishLatest, HandlerLatest DEF Handler
<1>10. CASE Next
  BY <1>2, <1>3, <1>4, <1>5, <1>6, <1>7, <1>8, <1>9, <1>10 DEF Next
<1> QED BY <1>1, <1>10 DEF vars

\* No process has been started yet.
LEMMA InitLatestInv == Init => UpInv /\ LatestInv
<1> SUFFICES ASSUME Init PROVE UpInv /\ LatestInv
  OBVIOUS
<1>1. \A k \in Slots : poll[k].ph = "idle" /\ poll[k].live = FALSE
  BY DEF Init, Idle
<1>2. UpInv
  BY <1>1 DEF Init, UpInv
<1>3. \A k \in Slots : ~Is(k, "reg") /\ ~Published(k) /\ ~Holds(k)
  BY <1>1 DEF Is, Published, Holds
<1>4. LatestInv
  BY <1>3 DEF Init, LatestInv, Kept
<1> QED BY <1>2, <1>4

\* A session of the latest process is not ended while that process's poll waits
\* and no earlier process has taken the device.
LEMMA GoneSpares ==
    RegInv /\ LatestInv /\ UpInv => \A d \in Dials : DeviceGone(d) => ~(Waiting(bound[d]) /\ bound[d] = latest) \/ strayed
<1> SUFFICES ASSUME RegInv, LatestInv, UpInv, NEW d \in Dials, DeviceGone(d), Waiting(bound[d]), bound[d] = latest, ~strayed
             PROVE  FALSE
  OBVIOUS
<1>1. PICK k \in Slots : poll[k].live /\ poll[k].ph \notin {"net", "reg"} /\ Inst(k) = latest
  BY DEF Waiting
<1>2. Holds(k)
  BY <1>1 DEF Holds, Published, Is, UpInv
<1> QED BY <1>2, HolderPolls DEF DeviceGone

\* endSessionsOfGoneAgents, handleHPoll, handleHDeregister and reapHTTP: the scan
\* ends no session of the latest process that polls, whichever deregistrations,
\* reaped entries and polls that were at the relay come in between, unless an
\* earlier process has been registered since the latest one last was.
THEOREM PollingIsSpared == Spec => ScanSparesPolling
<1> DEFINE Inv == RegInv /\ UpInv /\ LatestInv
<1>1. Init => Inv
  BY InitRegInv, InitLatestInv
<1>2. Inv /\ [Next]_vars => Inv'
  BY NextRegInv, NextUpInv, NextLatestInv
<1>3. Inv => \A d \in Dials : DeviceGone(d) => ~(Waiting(bound[d]) /\ bound[d] = latest) \/ strayed
  BY GoneSpares
<1>4. Inv /\ [Next]_vars => [\A d \in Dials : DeviceGone(d) => ~(Waiting(bound[d]) /\ bound[d] = latest) \/ strayed]_vars
  BY <1>3
<1> QED BY <1>1, <1>2, <1>4, PTL DEF Spec, ScanSparesPolling

----------------------------------------------------------------------------
(* The desktop service *)

CuCallRecords == [at : {"idle", "asked", "approved", "doing", "done", "shooting", "acting"},
                  key : CuKeys \cup {"none"}, fresh : BOOLEAN, conn : Nat, shot : Nat]
CuPeerRecords == [conn : Nat, stopped : BOOLEAN, active : BOOLEAN, gen : Nat, timers : SUBSET Nat]
CuEngineRecords == [open : BOOLEAN, told : BOOLEAN]
CuShotRecords == [id : Nat, used : BOOLEAN]

CuTyped ==
  /\ cuBusy \in {"free", "call", "pause"} /\ cuShut \in BOOLEAN
  /\ cuNow \in CuCallRecords /\ cuPeer \in [CuKeys -> CuPeerRecords]
  /\ cuEngine \in Seq(CuEngineRecords)
  /\ cuShots \in Seq(CuShotRecords) /\ cuRuns \in Seq(Nat)
  /\ cuOwed \subseteq CuKeys

\* A call that asks, is approved, drives its engine or ends.
CuServed == {"asked", "approved", "doing", "done"}

\* One call holds the service, and its session is in use.
CuHeld ==
  /\ cuNow.at # "idle" => cuBusy = "call"
  /\ cuNow.at \in CuServed => cuNow.key \in CuKeys /\ cuPeer[cuNow.key].active
  /\ cuNow.at = "doing" => cuNow.conn # 0 /\ cuPeer[cuNow.key].conn = cuNow.conn

\* A connection belongs to one session, and is open until the service closes.
CuOwnConns ==
  /\ \A k \in CuKeys : cuPeer[k].conn <= Len(cuEngine)
  /\ \A j, k \in CuKeys : cuPeer[k].conn # 0 /\ cuPeer[k].conn = cuPeer[j].conn => j = k
  /\ \A k \in CuKeys : cuPeer[k].conn # 0 => cuEngine[cuPeer[k].conn].open \/ cuShut

\* A stop is latched, or the engine knows of it; what a call read before it asked
\* still holds.
CuLatched ==
  /\ \A k \in cuOwed : cuPeer[k].stopped \/ CuTold(cuPeer[k].conn)
  /\ cuNow.at \in {"asked", "approved"} /\ ~cuNow.fresh => ~cuPeer[cuNow.key].stopped
  /\ cuNow.at = "approved" /\ cuNow.fresh => cuNow.key \notin cuOwed

\* A screenshot that is kept and unused has started nothing.
CuUnused ==
  /\ \A i \in DOMAIN cuShots : cuShots[i].id \in DOMAIN cuRuns /\ (cuShots[i].used \/ cuRuns[cuShots[i].id] = 0)
  /\ \A i, j \in DOMAIN cuShots : cuShots[i].id = cuShots[j].id => i = j

CuInv == CuTyped /\ CuHeld /\ CuOwnConns /\ CuLatched /\ CuUnused
         /\ CuStopHolds /\ CuNoOrphan /\ CuCallKeepsEngine /\ CuActsOnce

\* What CuClosed does to the list of connections.
LEMMA CuClosedEffect ==
  ASSUME cuEngine \in Seq(CuEngineRecords), NEW n \in 0..Len(cuEngine)
  PROVE  /\ CuClosed(n) \in Seq(CuEngineRecords) /\ Len(CuClosed(n)) = Len(cuEngine)
         /\ \A i \in 1..Len(cuEngine) : CuClosed(n)[i].told = cuEngine[i].told
         /\ \A i \in 1..Len(cuEngine) : CuClosed(n)[i].open <=> (cuEngine[i].open /\ i # n)
<1>1. Len(cuEngine) \in Nat /\ DOMAIN cuEngine = 1..Len(cuEngine)
      /\ \A i \in 1..Len(cuEngine) : cuEngine[i] \in CuEngineRecords
  BY LenProperties, ElementOfSeq
<1>2. CASE n = 0
  BY <1>1, <1>2 DEF CuClosed
<1>3. CASE n # 0
  <2>1. PICK m \in 1..Len(cuEngine) : m = n
    BY <1>1, <1>3
  <2>2. PICK e \in CuEngineRecords : e = cuEngine[m]
    BY <1>1
  <2>3. PICK t : t = [e EXCEPT !.open = FALSE]
    OBVIOUS
  <2>4. t \in CuEngineRecords /\ t.told = e.told /\ ~t.open
    BY <2>3 DEF CuEngineRecords
  <2>5. CuClosed(n) = [cuEngine EXCEPT ![m] = t]
    BY <1>3, <2>1, <2>2, <2>3 DEF CuClosed
  <2>6. PICK E : E = [cuEngine EXCEPT ![m] = t]
    OBVIOUS
  <2>7. E \in Seq(CuEngineRecords) /\ Len(E) = Len(cuEngine) /\ E[m] = t
        /\ \A i \in 1..Len(cuEngine) \ {m} : E[i] = cuEngine[i]
    BY <1>1, <2>4, <2>6, ExceptSeq
  <2> QED BY <2>1, <2>2, <2>4, <2>5, <2>6, <2>7
<1> QED BY <1>2, <1>3

LEMMA CuInit_Inv == CuInit => CuInv
<1> SUFFICES ASSUME CuInit PROVE CuInv
  OBVIOUS
<1>1. /\ \A S : <<>> \in Seq(S)
      /\ DOMAIN <<>> = {} /\ Len(<<>>) = 0
  BY EmptySeq
<1>2. cuNow \in CuCallRecords /\ cuNow.at = "idle"
  BY DEF CuInit, CuIdleCall, CuCallRecords
<1>3. cuPeer \in [CuKeys -> CuPeerRecords] /\ \A k \in CuKeys : cuPeer[k].conn = 0
  BY DEF CuInit, CuPeerRecords
<1>4. CuTyped
  BY <1>1, <1>2, <1>3 DEF CuInit, CuTyped
<1>5. CuHeld /\ CuOwnConns /\ CuLatched /\ CuUnused
  BY <1>1, <1>2, <1>3 DEF CuInit, CuHeld, CuOwnConns, CuLatched, CuUnused, CuServed
<1>6. CuStopHolds /\ CuNoOrphan /\ CuCallKeepsEngine /\ CuActsOnce
  <2>1. 1..0 = {}
    OBVIOUS
  <2> QED BY <1>1, <1>2, <2>1 DEF CuInit, CuStopHolds, CuNoOrphan, CuCallKeepsEngine, CuActsOnce
<1> QED BY <1>4, <1>5, <1>6 DEF CuInv

CuSession == CuHeld /\ CuOwnConns /\ CuLatched /\ CuStopHolds /\ CuNoOrphan /\ CuCallKeepsEngine

\* An action that leaves the screenshots alone.
LEMMA CuStoreRests ==
  ASSUME CuInv, CuTyped', CuSession', UNCHANGED cuStore
  PROVE  CuInv'
<1>1. CuUnused'
  BY DEF cuStore, CuUnused, CuInv
<1>2. CuActsOnce'
  BY DEF cuStore, CuActsOnce, CuInv
<1> QED BY <1>1, <1>2 DEF CuInv, CuSession

\* The members of the state's parts.
LEMMA CuMembers ==
  ASSUME CuTyped
  PROVE  /\ Len(cuEngine) \in Nat /\ DOMAIN cuEngine = 1..Len(cuEngine)
         /\ \A i \in 1..Len(cuEngine) : cuEngine[i] \in CuEngineRecords
         /\ \A k \in CuKeys : cuPeer[k] \in CuPeerRecords
BY LenProperties, ElementOfSeq DEF CuTyped

LEMMA CuPeerSet ==
  ASSUME CuTyped, NEW k \in CuKeys, NEW t \in CuPeerRecords, cuPeer' = [cuPeer EXCEPT ![k] = t]
  PROVE  /\ cuPeer' \in [CuKeys -> CuPeerRecords] /\ cuPeer'[k] = t
         /\ \A j \in CuKeys \ {k} : cuPeer'[j] = cuPeer[j]
BY DEF CuTyped

\* Only the call moves on, to a place where it holds no engine.
LEMMA CuMoves ==
  ASSUME CuInv, UNCHANGED <<cuSession, cuShut>>,
         cuNow'.at # "idle" => cuBusy' = "call",
         cuOwed' \subseteq cuOwed,
         \/ cuNow'.at \in {"idle", "shooting", "acting"}
         \/ cuNow'.at = "done" /\ cuNow.at \in CuServed /\ cuNow'.key = cuNow.key
         \/ /\ cuNow.at = "asked" /\ cuNow'.at = "approved"
            /\ cuNow'.key = cuNow.key /\ cuNow'.fresh = cuNow.fresh
            /\ cuNow.fresh => cuNow.key \notin cuOwed'
  PROVE  CuSession'
<1>1. cuPeer' = cuPeer /\ cuEngine' = cuEngine /\ cuShut' = cuShut /\ \A n : CuTold(n)' = CuTold(n)
  BY DEF cuSession, CuTold
<1>3. CuHeld'
  BY <1>1 DEF CuInv, CuHeld, CuServed
<1>4. CuOwnConns' /\ CuNoOrphan'
  BY <1>1 DEF CuInv, CuOwnConns, CuNoOrphan
<1>5. cuNow'.at # "doing"
  OBVIOUS
<1>6. CuStopHolds' /\ CuCallKeepsEngine'
  BY <1>5 DEF CuStopHolds, CuCallKeepsEngine
<1>7. CuLatched'
  <2>1. \A k \in cuOwed' : cuPeer'[k].stopped \/ CuTold(cuPeer[k].conn)'
    BY <1>1 DEF CuInv, CuLatched
  <2>2. cuNow'.at \in {"asked", "approved"} /\ ~cuNow'.fresh => ~cuPeer'[cuNow'.key].stopped
    BY <1>1 DEF CuInv, CuLatched
  <2>3. cuNow'.at = "approved" /\ cuNow'.fresh => cuNow'.key \notin cuOwed'
    OBVIOUS
  <2> QED BY <2>1, <2>2, <2>3 DEF CuLatched
<1> QED BY <1>3, <1>4, <1>6, <1>7 DEF CuSession

\* One session changes, keeps or loses its connection, and the call is another's,
\* or does not notice, or is over.
LEMMA CuOne ==
  ASSUME CuInv, NEW k \in CuKeys, NEW t \in CuPeerRecords, cuPeer' = [cuPeer EXCEPT ![k] = t],
         NEW m, cuEngine' = CuClosed(m), cuShut' = cuShut,
         \/ m = 0 /\ t.conn = cuPeer[k].conn
         \/ m = cuPeer[k].conn /\ t.conn = 0,
         cuOwed' \subseteq cuOwed \cup {k},
         k \in cuOwed' => t.stopped \/ CuTold(t.conn),
         cuNow'.at # "idle" => cuBusy' = "call",
         \/ cuNow' = cuNow /\ ~(cuNow.at \in CuServed /\ cuNow.key = k) /\ cuOwed' \subseteq cuOwed
         \/ /\ cuNow' = cuNow /\ t.active /\ t.conn = cuPeer[k].conn /\ m = 0
            /\ t.stopped = cuPeer[k].stopped /\ cuOwed' \subseteq cuOwed
         \/ cuNow'.at = "done" /\ cuNow'.key = k /\ t.active
         \/ cuNow'.at = "idle"
  PROVE  CuSession' /\ cuEngine' \in Seq(CuEngineRecords)
<1>1. /\ cuPeer' \in [CuKeys -> CuPeerRecords] /\ cuPeer'[k] = t /\ \A j \in CuKeys \ {k} : cuPeer'[j] = cuPeer[j]
  BY CuPeerSet DEF CuInv
<1>2. PICK p \in CuPeerRecords : p = cuPeer[k]
  BY CuMembers DEF CuInv
<1>3. p.conn \in Nat /\ p.conn <= Len(cuEngine) /\ Len(cuEngine) \in Nat
  BY <1>2, CuMembers DEF CuInv, CuPeerRecords, CuOwnConns
<1>4. m \in 0..Len(cuEngine)
  BY <1>2, <1>3
<1>5. /\ cuEngine' \in Seq(CuEngineRecords) /\ Len(cuEngine') = Len(cuEngine)
      /\ \A i \in 1..Len(cuEngine) : cuEngine'[i].told = cuEngine[i].told
      /\ \A i \in 1..Len(cuEngine) : cuEngine'[i].open <=> (cuEngine[i].open /\ i # m)
  BY <1>4, CuClosedEffect DEF CuInv, CuTyped
<1>6. ASSUME NEW n \in 0..Len(cuEngine) PROVE CuTold(n)' <=> CuTold(n)
  <2>1. n = 0 \/ n \in 1..Len(cuEngine)
    BY <1>3
  <2>2. n \in 1..Len(cuEngine) => cuEngine'[n].told = cuEngine[n].told
    BY <1>5
  <2> QED BY <2>1, <2>2, Zenon DEF CuTold
<1>7. \A j \in CuKeys : cuPeer[j].conn \in 0..Len(cuEngine)
  BY <1>3, CuMembers DEF CuInv, CuPeerRecords, CuOwnConns
<1>8. t.conn \in 0..Len(cuEngine)
  BY <1>2, <1>3
<1>9. CuOwnConns'
  <2>1. /\ \A j \in CuKeys : cuPeer'[j].conn <= Len(cuEngine')
        /\ \A i, j \in CuKeys : cuPeer'[j].conn # 0 /\ cuPeer'[j].conn = cuPeer'[i].conn => i = j
    BY <1>1, <1>2, <1>3, <1>5, <1>8 DEF CuInv, CuOwnConns
  <2>2. ASSUME NEW j \in CuKeys, cuPeer'[j].conn # 0
        PROVE  cuEngine'[cuPeer'[j].conn].open \/ cuShut'
    <3>1. PICK n : n = cuPeer'[j].conn
      OBVIOUS
    <3>2. n = cuPeer[j].conn /\ n # 0 /\ n # m
      <4>1. CASE j = k
        BY <1>1, <2>2, <3>1, <4>1
      <4>2. CASE j # k
        BY <1>1, <2>2, <3>1, <4>2 DEF CuInv, CuOwnConns
      <4> QED BY <4>1, <4>2
    <3>3. n \in 1..Len(cuEngine)
      BY <1>3, <1>7, <3>2
    <3>4. cuEngine[n].open \/ cuShut
      BY <3>2 DEF CuInv, CuOwnConns
    <3>5. cuEngine'[n].open <=> (cuEngine[n].open /\ n # m)
      BY <1>5, <3>3
    <3> QED BY <3>1, <3>2, <3>4, <3>5
  <2> QED BY <2>1, <2>2 DEF CuOwnConns
<1>10. CuNoOrphan'
  <2>1. ASSUME NEW i \in 1..Len(cuEngine'), cuEngine'[i].open
        PROVE  ~cuShut' /\ \E j \in CuKeys : cuPeer'[j].conn = i
    <3>1. i \in 1..Len(cuEngine) /\ cuEngine[i].open /\ i # m
      <4>1. i \in 1..Len(cuEngine)
        BY <1>5
      <4>2. cuEngine'[i].open <=> cuEngine[i].open /\ i # m
        BY <1>5, <4>1, Zenon
      <4> QED BY <2>1, <4>1, <4>2, Zenon
    <3>2. PICK j \in CuKeys : cuPeer[j].conn = i
      BY <3>1 DEF CuInv, CuNoOrphan
    <3>3. CASE j # k
      BY <1>1, <3>1, <3>2, <3>3 DEF CuInv, CuNoOrphan
    <3>4. CASE j = k
      BY <1>1, <3>1, <3>2, <3>4 DEF CuInv, CuNoOrphan
    <3> QED BY <3>3, <3>4
  <2> QED BY <2>1 DEF CuNoOrphan
<1>11. CuHeld'
  BY <1>1 DEF CuInv, CuHeld, CuServed
<1>12. CuLatched'
  <2>1. ASSUME NEW j \in cuOwed' PROVE cuPeer'[j].stopped \/ CuTold(cuPeer[j].conn)'
    <3>1. CASE j = k
      BY <1>1, <1>6, <1>8, <2>1, <3>1
    <3>2. CASE j # k
      <4>1. j \in CuKeys /\ (cuPeer[j].stopped \/ CuTold(cuPeer[j].conn))
        BY <2>1, <3>2 DEF CuInv, CuTyped, CuLatched
      <4> QED BY <1>1, <1>6, <1>7, <3>2, <4>1
    <3> QED BY <3>1, <3>2
  <2>2. CASE cuNow' = cuNow /\ cuOwed' \subseteq cuOwed /\ (cuNow.at \in CuServed /\ cuNow.key = k => t.stopped = p.stopped)
    <3>1. cuNow.at \in CuServed => cuNow.key \in CuKeys
      BY DEF CuInv, CuHeld
    <3>2. cuNow.at \in CuServed => cuPeer'[cuNow.key].stopped = cuPeer[cuNow.key].stopped
      BY <1>1, <1>2, <2>2, <3>1
    <3>3. cuNow.at \in {"asked", "approved"} /\ ~cuNow.fresh => ~cuPeer'[cuNow.key].stopped
      BY <3>2 DEF CuInv, CuLatched, CuServed
    <3> QED BY <2>1, <2>2, <3>3 DEF CuInv, CuLatched
  <2>3. CASE cuNow'.at \in {"done", "idle"}
    BY <2>1, <2>3 DEF CuLatched
  <2> QED BY <1>2, <2>2, <2>3
<1>13. CASE cuNow'.at \in {"done", "idle"}
  <2>1. CuStopHolds' /\ CuCallKeepsEngine'
    BY <1>13 DEF CuStopHolds, CuCallKeepsEngine
  <2> QED BY <1>5, <1>9, <1>10, <1>11, <1>12, <2>1 DEF CuSession
<1>14. CASE cuNow' = cuNow /\ cuOwed' \subseteq cuOwed /\ (cuNow.at \in CuServed /\ cuNow.key = k => m = 0)
  <2>1. ASSUME cuNow.at = "doing"
        PROVE  /\ cuNow.key \in CuKeys /\ cuNow.conn = cuPeer[cuNow.key].conn /\ cuNow.conn # 0
               /\ cuNow.conn \in 1..Len(cuEngine) /\ cuNow.conn # m
    <3>1. cuNow.key \in CuKeys /\ cuNow.conn = cuPeer[cuNow.key].conn /\ cuNow.conn # 0
      BY <2>1 DEF CuInv, CuHeld, CuServed
    <3>2. cuNow.conn \in 1..Len(cuEngine)
      BY <1>3, <1>7, <3>1
    <3>3. cuNow.conn # m
      <4>1. CASE cuNow.key = k
        BY <1>14, <2>1, <3>1, <4>1 DEF CuServed
      <4>2. CASE cuNow.key # k
        BY <1>2, <3>1, <4>2 DEF CuInv, CuOwnConns
      <4> QED BY <4>1, <4>2
    <3> QED BY <3>1, <3>2, <3>3
  <2>2. CuStopHolds'
    BY <1>3, <1>6, <1>14, <2>1 DEF CuInv, CuStopHolds
  <2>3. CuCallKeepsEngine'
    BY <1>5, <1>14, <2>1 DEF CuInv, CuCallKeepsEngine
  <2> QED BY <1>5, <1>9, <1>10, <1>11, <1>12, <2>2, <2>3 DEF CuSession
<1> QED BY <1>13, <1>14

LEMMA CuArrive_Inv ==
  ASSUME CuInv, NEW k \in CuKeys, CuArrive(k)
  PROVE  CuInv'
<1>1. /\ cuBusy = "free" /\ cuBusy' = "call" /\ cuShut' = cuShut /\ cuEngine' = cuEngine
      /\ UNCHANGED cuStore /\ cuOwed' = cuOwed
  BY DEF CuArrive
<1>2. PICK p \in CuPeerRecords : p = cuPeer[k]
  BY CuMembers DEF CuInv
<1>3. PICK st \in BOOLEAN : st = (p.stopped \/ CuTold(p.conn))
  OBVIOUS
<1>4. PICK timers \in CuTimersAfterStop(k) :
        /\ cuPeer' = [cuPeer EXCEPT ![k].active = TRUE, ![k].gen = @ + 1, ![k].timers = timers, ![k].stopped = st]
        /\ cuNow' = [CuIdleCall EXCEPT !.at = "asked", !.key = k, !.fresh = st]
  BY <1>2, <1>3 DEF CuArrive
<1>5. PICK t : t = [p EXCEPT !.active = TRUE, !.gen = p.gen + 1, !.timers = timers, !.stopped = st]
  OBVIOUS
<1>6. /\ t \in CuPeerRecords /\ t.conn = p.conn /\ t.stopped = st /\ t.active
  <2>1. timers \in SUBSET Nat
    BY <1>2, <1>4 DEF CuTimersAfterStop, CuPeerRecords
  <2>2. p.gen + 1 \in Nat /\ p.conn \in Nat
    BY DEF CuPeerRecords
  <2>3. t = [conn |-> p.conn, stopped |-> st, active |-> TRUE, gen |-> p.gen + 1, timers |-> timers]
    BY <1>5 DEF CuPeerRecords
  <2> QED BY <2>1, <2>2, <2>3 DEF CuPeerRecords
<1>7. cuPeer' = [cuPeer EXCEPT ![k] = t]
  BY <1>2, <1>4, <1>5 DEF CuInv, CuTyped
<1>8. cuPeer' \in [CuKeys -> CuPeerRecords] /\ cuPeer'[k] = t /\ \A j \in CuKeys \ {k} : cuPeer'[j] = cuPeer[j]
  BY <1>6, <1>7, CuPeerSet DEF CuInv
<1>9. cuNow' \in CuCallRecords /\ cuNow'.at = "asked" /\ cuNow'.key = k /\ cuNow'.fresh = st
  BY <1>4 DEF CuIdleCall, CuCallRecords
<1>10. \A n : CuTold(n)' = CuTold(n)
  BY <1>1 DEF CuTold
<1>11. CuTyped'
  BY <1>1, <1>8, <1>9 DEF CuInv, CuTyped, cuStore
<1>12. CuHeld'
  BY <1>1, <1>6, <1>8, <1>9 DEF CuHeld
<1>13. CuOwnConns'
  BY <1>1, <1>2, <1>6, <1>8 DEF CuInv, CuOwnConns
<1>14. CuLatched'
  <2>1. ASSUME NEW j \in cuOwed' PROVE cuPeer'[j].stopped \/ CuTold(cuPeer[j].conn)'
    <3>1. j \in CuKeys /\ (cuPeer[j].stopped \/ CuTold(cuPeer[j].conn))
      BY <1>1 DEF CuInv, CuTyped, CuLatched
    <3>2. CASE j = k
      BY <1>2, <1>3, <1>6, <1>8, <3>1, <3>2
    <3>3. CASE j # k
      BY <1>8, <1>10, <3>1, <3>3
    <3> QED BY <3>2, <3>3
  <2>2. ~cuNow'.fresh => ~cuPeer'[cuNow'.key].stopped
    BY <1>6, <1>8, <1>9
  <2> QED BY <1>9, <2>1, <2>2 DEF CuLatched
<1>15. CuNoOrphan'
  BY <1>1, <1>2, <1>6, <1>8 DEF CuInv, CuNoOrphan
<1>16. CuStopHolds' /\ CuCallKeepsEngine'
  BY <1>9 DEF CuStopHolds, CuCallKeepsEngine
<1> QED BY <1>1, <1>11, <1>12, <1>13, <1>14, <1>15, <1>16, CuStoreRests DEF CuSession

\* The approval, updates that take and leave the service.
LEMMA CuCalls_Inv ==
  ASSUME CuInv, CuApprove \/ CuPause \/ CuResume
  PROVE  CuInv'
<1>1. UNCHANGED <<cuSession, cuStore, cuShut>>
  BY DEF CuApprove, CuPause, CuResume, cuService
<1>2. PICK c \in CuCallRecords : c = cuNow
  BY DEF CuInv, CuTyped
<1>3. CASE CuPause \/ CuResume
  <2>1. cuNow' = cuNow /\ cuOwed' = cuOwed /\ cuNow.at = "idle" /\ cuBusy' \in {"free", "pause"}
    BY <1>3 DEF CuPause, CuResume, CuInv, CuHeld
  <2>2. CuTyped'
    BY <1>1, <2>1 DEF CuInv, CuTyped, cuSession, cuStore
  <2>3. CuSession'
    BY <1>1, <2>1, CuMoves
  <2> QED BY <1>1, <2>2, <2>3, CuStoreRests
<1>4. CASE CuApprove
  <2>1. c.at = "asked" /\ cuBusy = "call" /\ cuBusy' = cuBusy
    BY <1>2, <1>4 DEF CuApprove, CuInv, CuHeld, cuService
  <2>2. CASE cuNow' = [cuNow EXCEPT !.at = "approved"]
               /\ cuOwed' = IF cuNow.fresh THEN cuOwed \ {cuNow.key} ELSE cuOwed
    <3>1. cuNow' \in CuCallRecords /\ cuNow'.at = "approved" /\ cuNow'.key = c.key /\ cuNow'.fresh = c.fresh
      BY <1>2, <2>2 DEF CuCallRecords
    <3>2. cuOwed' \subseteq cuOwed /\ (c.fresh => c.key \notin cuOwed')
      BY <1>2, <2>2
    <3>3. CuTyped'
      BY <1>1, <2>1, <3>1, <3>2 DEF CuInv, CuTyped, cuSession, cuStore
    <3>4. CuSession'
      BY <1>1, <1>2, <2>1, <3>1, <3>2, CuMoves
    <3> QED BY <1>1, <3>3, <3>4, CuStoreRests
  <2>3. CASE cuNow' = [cuNow EXCEPT !.at = "done"] /\ UNCHANGED cuOwed
    <3>1. cuNow' \in CuCallRecords /\ cuNow'.at = "done" /\ cuNow'.key = c.key
      BY <1>2, <2>3 DEF CuCallRecords
    <3>2. CuTyped'
      BY <1>1, <2>1, <2>3, <3>1 DEF CuInv, CuTyped, cuSession, cuStore
    <3>3. CuSession'
      BY <1>1, <1>2, <2>1, <2>3, <3>1, CuMoves DEF CuServed
    <3> QED BY <1>1, <3>2, <3>3, CuStoreRests
  <2> QED BY <1>4, <2>2, <2>3 DEF CuApprove
<1> QED BY <1>3, <1>4

\* One session changes under the call that holds it, which is over.
LEMMA CuEnding_Inv ==
  ASSUME CuInv, NEW k \in CuKeys, k = cuNow.key, cuNow.at \in CuServed,
         NEW t \in CuPeerRecords, cuPeer' = [cuPeer EXCEPT ![k] = t],
         NEW m, cuEngine' = CuClosed(m),
         \/ m = 0 /\ t.conn = cuPeer[k].conn
         \/ m = cuPeer[k].conn /\ t.conn = 0,
         cuOwed' \subseteq cuOwed \cup {k},
         k \in cuOwed' => t.stopped \/ CuTold(t.conn),
         \/ cuNow' = [cuNow EXCEPT !.at = "done"] /\ t.active /\ cuBusy' = cuBusy
         \/ cuNow' = CuIdleCall /\ cuBusy' = "free",
         UNCHANGED <<cuStore, cuShut>>
  PROVE  CuInv'
<1>1. PICK c \in CuCallRecords : c = cuNow
  BY DEF CuInv, CuTyped
<1>2. cuBusy = "call"
  BY DEF CuInv, CuHeld, CuServed
<1>3. cuNow' \in CuCallRecords /\ cuBusy' \in {"free", "call"} /\ (cuNow'.at # "idle" => cuBusy' = "call")
      /\ ((cuNow'.at = "done" /\ cuNow'.key = k /\ t.active) \/ cuNow'.at = "idle")
  <2>1. CASE cuNow' = [cuNow EXCEPT !.at = "done"] /\ t.active /\ cuBusy' = cuBusy
    BY <1>1, <1>2, <2>1 DEF CuCallRecords
  <2>2. CASE cuNow' = CuIdleCall /\ cuBusy' = "free"
    BY <2>2 DEF CuIdleCall, CuCallRecords
  <2> QED BY <2>1, <2>2
<1>4. CuSession' /\ cuEngine' \in Seq(CuEngineRecords)
  BY <1>3, CuOne
<1>5. cuPeer' \in [CuKeys -> CuPeerRecords]
  BY CuPeerSet DEF CuInv
<1>6. CuTyped'
  BY <1>3, <1>4, <1>5 DEF CuInv, CuTyped, cuStore
<1> QED BY <1>4, <1>6, CuStoreRests

\* A call is refused, loses its engine, or ends.
LEMMA CuEnds_Inv ==
  ASSUME CuInv, CuRefused \/ CuLost \/ CuEnds
  PROVE  CuInv'
<1>1. PICK k : k = cuNow.key
  OBVIOUS
<1>2. cuNow.at \in CuServed /\ k \in CuKeys /\ cuPeer[k].active
  BY <1>1 DEF CuInv, CuHeld, CuServed, CuRefused, CuLost, CuEnds
<1>3. PICK p \in CuPeerRecords : p = cuPeer[k]
  BY <1>2, CuMembers DEF CuInv
<1>4. k \in cuOwed => p.stopped \/ CuTold(p.conn)
  BY <1>3 DEF CuInv, CuLatched
<1>5. p.active /\ cuEngine = CuClosed(0) /\ cuPeer = [cuPeer EXCEPT ![k] = p]
  BY <1>2, <1>3 DEF CuClosed, CuInv, CuTyped
<1>6. CASE CuRefused
  <2>1. cuNow' = [cuNow EXCEPT !.at = "done"] /\ cuEngine' = cuEngine /\ cuOwed' = cuOwed /\ cuBusy' = cuBusy
        /\ UNCHANGED <<cuStore, cuShut>>
    BY <1>6 DEF CuRefused, cuService
  <2>2. CASE UNCHANGED cuPeer
    BY <1>1, <1>2, <1>3, <1>4, <1>5, <2>1, <2>2, CuEnding_Inv
  <2>3. CASE cuPeer' = [cuPeer EXCEPT ![k].stopped = TRUE]
    <3>1. PICK t : t = [p EXCEPT !.stopped = TRUE]
      OBVIOUS
    <3>2. t \in CuPeerRecords /\ t.conn = p.conn /\ t.active = p.active /\ t.stopped
      BY <3>1 DEF CuPeerRecords
    <3>3. cuPeer' = [cuPeer EXCEPT ![k] = t]
      BY <1>2, <1>3, <2>3, <3>1 DEF CuInv, CuTyped
    <3> QED BY <1>1, <1>2, <1>3, <1>5, <2>1, <3>2, <3>3, CuEnding_Inv
  <2> QED BY <1>1, <1>6, <2>2, <2>3 DEF CuRefused
<1>7. CASE CuLost
  <2>1. /\ cuNow' = [cuNow EXCEPT !.at = "done"] /\ cuEngine' = CuClosed(cuNow.conn) /\ cuOwed' = cuOwed
        /\ cuBusy' = cuBusy /\ UNCHANGED <<cuStore, cuShut>> /\ cuNow.conn = p.conn
        /\ cuPeer' = [cuPeer EXCEPT ![k] = CuCloseConn(p)]
    BY <1>1, <1>3, <1>7 DEF CuLost, cuService, CuInv, CuHeld, CuTyped
  <2>2. PICK st \in BOOLEAN : st = (p.stopped \/ CuTold(p.conn))
    OBVIOUS
  <2>3. PICK t : t = [p EXCEPT !.conn = 0, !.stopped = st]
    OBVIOUS
  <2>4. t = CuCloseConn(p)
    BY <2>2, <2>3 DEF CuCloseConn
  <2>5. t \in CuPeerRecords /\ t.conn = 0 /\ t.active = p.active /\ t.stopped = st
    BY <2>3 DEF CuPeerRecords
  <2>6. k \in cuOwed' => t.stopped \/ CuTold(t.conn)
    BY <1>4, <2>1, <2>2, <2>5
  <2> QED BY <1>1, <1>2, <1>3, <1>5, <2>1, <2>4, <2>5, <2>6, CuEnding_Inv
<1>8. CASE CuEnds
  <2>1. PICK timers \in SUBSET Nat : timers = IF cuShut THEN {} ELSE p.timers \union {p.gen}
    <3>1. p.timers \in SUBSET Nat /\ p.gen \in Nat
      BY DEF CuPeerRecords
    <3> QED BY <3>1
  <2>2. /\ cuNow' = CuIdleCall /\ cuBusy' = "free" /\ cuEngine' = cuEngine /\ cuOwed' = cuOwed
        /\ UNCHANGED <<cuStore, cuShut>>
    BY <1>8 DEF CuEnds
  <2>3. PICK t : t = [p EXCEPT !.active = FALSE, !.timers = timers]
    OBVIOUS
  <2>4. t \in CuPeerRecords /\ t.conn = p.conn /\ t.stopped = p.stopped
    BY <2>3 DEF CuPeerRecords
  <2>5. cuPeer' = [cuPeer EXCEPT ![k].active = FALSE,
                                 ![k].timers = IF cuShut THEN {} ELSE @ \union {cuPeer[k].gen}]
    BY <1>1, <1>8 DEF CuEnds
  <2>6. cuPeer' = [cuPeer EXCEPT ![k] = t]
    <3>1. cuPeer' = [cuPeer EXCEPT ![k] = [cuPeer[k] EXCEPT !.active = FALSE,
                             !.timers = IF cuShut THEN {} ELSE cuPeer[k].timers \union {cuPeer[k].gen}]]
      BY <1>2, <2>5 DEF CuInv, CuTyped, CuPeerRecords
    <3> QED BY <1>3, <2>1, <2>3, <3>1
  <2> QED BY <1>1, <1>2, <1>3, <1>4, <1>5, <2>2, <2>4, <2>6, CuEnding_Inv
<1> QED BY <1>6, <1>7, <1>8

\* The engine answers the call.
LEMMA CuAnswered_Inv == ASSUME CuInv, CuAnswered PROVE CuInv'
<1>1. PICK k : k = cuNow.key
  OBVIOUS
<1>2. cuNow.at = "doing" /\ cuNow.at \in CuServed /\ k \in CuKeys /\ cuPeer[k].active
  BY <1>1 DEF CuInv, CuHeld, CuServed, CuAnswered
<1>3. PICK p \in CuPeerRecords : p = cuPeer[k]
  BY <1>2, CuMembers DEF CuInv
<1>4. p.active /\ cuEngine = CuClosed(0) /\ cuNow.conn = p.conn /\ (k \in cuOwed => CuTold(p.conn))
  BY <1>1, <1>2, <1>3 DEF CuClosed, CuInv, CuHeld, CuStopHolds
<1>0. PICK reply \in CuReplies :
        LET told == reply = "stopped" \/ CuTold(cuNow.conn)
            q == [cuPeer[k] EXCEPT !.stopped = @ \/ told]
        IN /\ cuOwed' = IF told THEN cuOwed \union {k} ELSE cuOwed
           /\ IF reply = "start failed"
              THEN cuEngine' = CuClosed(cuNow.conn) /\ cuPeer' = [cuPeer EXCEPT ![k] = CuCloseConn(q)]
              ELSE cuPeer' = [cuPeer EXCEPT ![k] = q] /\ UNCHANGED cuEngine
  BY <1>1 DEF CuAnswered
<1>5. PICK told \in BOOLEAN : told = (reply = "stopped" \/ CuTold(cuNow.conn))
  OBVIOUS
<1>6. PICK st \in BOOLEAN : st = (p.stopped \/ told)
  OBVIOUS
<1>7. PICK q : q = [p EXCEPT !.stopped = st]
  OBVIOUS
<1>8. q \in CuPeerRecords /\ q.conn = p.conn /\ q.active = p.active /\ q.stopped = st
  BY <1>7 DEF CuPeerRecords
<1>13. q = [cuPeer[k] EXCEPT !.stopped = @ \/ (reply = "stopped" \/ CuTold(cuNow.conn))]
  BY <1>3, <1>5, <1>6, <1>7 DEF CuPeerRecords
<1>14. /\ cuOwed' = IF told THEN cuOwed \union {k} ELSE cuOwed
       /\ reply = "start failed" =>
            cuEngine' = CuClosed(cuNow.conn) /\ cuPeer' = [cuPeer EXCEPT ![k] = CuCloseConn(q)]
       /\ reply # "start failed" => cuPeer' = [cuPeer EXCEPT ![k] = q] /\ cuEngine' = cuEngine
  BY <1>0, <1>5, <1>13
<1>9. cuOwed' \subseteq cuOwed \cup {k} /\ (k \in cuOwed' => st \/ CuTold(p.conn))
  BY <1>4, <1>5, <1>6, <1>14
<1>10. cuNow' = [cuNow EXCEPT !.at = "done"] /\ cuBusy' = cuBusy /\ UNCHANGED <<cuStore, cuShut>>
  BY DEF CuAnswered, cuService
<1>11. CASE reply # "start failed"
  <2>1. cuPeer' = [cuPeer EXCEPT ![k] = q] /\ cuEngine' = cuEngine
    BY <1>14, <1>11
  <2> QED BY <1>1, <1>2, <1>3, <1>4, <1>8, <1>9, <1>10, <2>1, CuEnding_Inv
<1>12. CASE reply = "start failed"
  <2>1. PICK b \in BOOLEAN : b = (st \/ CuTold(p.conn))
    OBVIOUS
  <2>2. PICK t : t = [q EXCEPT !.conn = 0, !.stopped = b]
    OBVIOUS
  <2>3. t \in CuPeerRecords /\ t.conn = 0 /\ t.active = p.active /\ t.stopped = b
    BY <1>8, <2>2 DEF CuPeerRecords
  <2>4. t = CuCloseConn(q)
    BY <1>8, <2>1, <2>2 DEF CuCloseConn, CuPeerRecords
  <2>5. cuPeer' = [cuPeer EXCEPT ![k] = t] /\ cuEngine' = CuClosed(p.conn)
    BY <1>4, <1>12, <1>14, <2>4
  <2>6. k \in cuOwed' => t.stopped \/ CuTold(t.conn)
    BY <1>9, <2>1, <2>3
  <2> QED BY <1>1, <1>2, <1>3, <1>4, <1>9, <1>10, <2>3, <2>5, <2>6, CuEnding_Inv
<1> QED BY <1>11, <1>12

\* The idle timer of a session.
LEMMA CuIdles_Inv == ASSUME CuInv, CuIdles PROVE CuInv'
<1>0. PICK k \in CuKeys : \E g \in cuPeer[k].timers :
        LET p == [cuPeer[k] EXCEPT !.timers = @ \ {g}]
            close == ~cuShut /\ CuTimerCurrent(k, g)
        IN /\ cuPeer' = [cuPeer EXCEPT ![k] = IF close THEN CuCloseConn(p) ELSE p]
           /\ cuEngine' = IF close THEN CuClosed(p.conn) ELSE cuEngine
           /\ UNCHANGED <<cuService, cuNow, cuStore, cuOwed, cuCalls>>
  BY DEF CuIdles
<1>1. PICK g \in cuPeer[k].timers :
        LET p == [cuPeer[k] EXCEPT !.timers = @ \ {g}]
            close == ~cuShut /\ CuTimerCurrent(k, g)
        IN /\ cuPeer' = [cuPeer EXCEPT ![k] = IF close THEN CuCloseConn(p) ELSE p]
           /\ cuEngine' = IF close THEN CuClosed(p.conn) ELSE cuEngine
           /\ UNCHANGED <<cuService, cuNow, cuStore, cuOwed, cuCalls>>
  BY <1>0
<1>2. PICK old \in CuPeerRecords : old = cuPeer[k]
  BY CuMembers DEF CuInv
<1>3. PICK p : p = [old EXCEPT !.timers = old.timers \ {g}]
  OBVIOUS
<1>4. p \in CuPeerRecords /\ p.conn = old.conn /\ p.stopped = old.stopped /\ p.active = old.active
  BY <1>3 DEF CuPeerRecords
<1>5. p = [cuPeer[k] EXCEPT !.timers = @ \ {g}]
  BY <1>2, <1>3 DEF CuPeerRecords
<1>7. /\ ~cuShut /\ CuTimerCurrent(k, g) =>
            cuPeer' = [cuPeer EXCEPT ![k] = CuCloseConn(p)] /\ cuEngine' = CuClosed(p.conn)
      /\ ~(~cuShut /\ CuTimerCurrent(k, g)) => cuPeer' = [cuPeer EXCEPT ![k] = p] /\ cuEngine' = cuEngine
  BY <1>1, <1>5
<1>8. cuNow' = cuNow /\ cuOwed' = cuOwed /\ cuBusy' = cuBusy /\ cuShut' = cuShut /\ UNCHANGED cuStore
  BY <1>1 DEF cuService
<1>9. k \in cuOwed => old.stopped \/ CuTold(old.conn)
  BY <1>2 DEF CuInv, CuLatched
<1>10. cuEngine = CuClosed(0) /\ (cuNow.at # "idle" => cuBusy' = "call")
  BY <1>8 DEF CuClosed, CuInv, CuHeld
<1>11. cuNow.at \in CuServed /\ cuNow.key = k => old.active
  BY <1>2 DEF CuInv, CuHeld
<1>12. ASSUME NEW t \in CuPeerRecords, cuPeer' = [cuPeer EXCEPT ![k] = t],
              CuSession' /\ cuEngine' \in Seq(CuEngineRecords)
       PROVE  CuInv'
  <2>1. cuPeer' \in [CuKeys -> CuPeerRecords]
    BY <1>12, CuPeerSet DEF CuInv
  <2>2. CuTyped'
    BY <1>8, <1>12, <2>1 DEF CuInv, CuTyped, cuStore
  <2> QED BY <1>8, <1>12, <2>2, CuStoreRests
<1>13. CASE ~(~cuShut /\ CuTimerCurrent(k, g))
  <2>1. cuPeer' = [cuPeer EXCEPT ![k] = p] /\ cuEngine' = CuClosed(0)
    BY <1>7, <1>10, <1>13
  <2>2. k \in cuOwed' => p.stopped \/ CuTold(p.conn)
    BY <1>4, <1>8, <1>9
  <2>3. cuNow' = cuNow /\ cuOwed' \subseteq cuOwed /\ (~(cuNow.at \in CuServed /\ cuNow.key = k) \/ p.active)
    BY <1>4, <1>8, <1>11
  <2>4. CuSession' /\ cuEngine' \in Seq(CuEngineRecords)
    BY <1>2, <1>4, <1>8, <1>10, <2>1, <2>2, <2>3, CuOne
  <2> QED BY <1>4, <1>12, <2>1, <2>4
<1>14. CASE ~cuShut /\ CuTimerCurrent(k, g)
  <2>1. ~old.active
    BY <1>2, <1>14 DEF CuTimerCurrent
  <2>2. PICK st \in BOOLEAN : st = (p.stopped \/ CuTold(p.conn))
    OBVIOUS
  <2>3. PICK t : t = [p EXCEPT !.conn = 0, !.stopped = st]
    OBVIOUS
  <2>4. t \in CuPeerRecords /\ t.conn = 0 /\ t.stopped = st
    BY <1>4, <2>3 DEF CuPeerRecords
  <2>5. t = CuCloseConn(p)
    BY <1>4, <2>2, <2>3 DEF CuCloseConn, CuPeerRecords
  <2>6. cuPeer' = [cuPeer EXCEPT ![k] = t] /\ cuEngine' = CuClosed(old.conn)
    BY <1>4, <1>7, <1>14, <2>5
  <2>7. k \in cuOwed' => t.stopped \/ CuTold(t.conn)
    BY <1>4, <1>8, <1>9, <2>2, <2>4
  <2>8. cuNow' = cuNow /\ cuOwed' \subseteq cuOwed /\ ~(cuNow.at \in CuServed /\ cuNow.key = k)
    BY <1>8, <1>11, <2>1
  <2>9. CuSession' /\ cuEngine' \in Seq(CuEngineRecords)
    BY <1>2, <1>8, <1>10, <2>4, <2>6, <2>7, <2>8, CuOne
  <2> QED BY <1>12, <2>4, <2>6, <2>9
<1> QED BY <1>13, <1>14

\* An engine for the call is found, started, or fails to start.
LEMMA CuStart_Inv == ASSUME CuInv, CuStart PROVE CuInv'
<1>1. PICK k : k = cuNow.key
  OBVIOUS
<1>2. cuNow.at = "approved" /\ cuNow.at \in CuServed /\ k \in CuKeys /\ cuPeer[k].active /\ cuBusy = "call" /\ ~cuShut
  BY <1>1 DEF CuInv, CuHeld, CuServed, CuStart, CuClosedSince
<1>3. PICK p \in CuPeerRecords : p = cuPeer[k]
  BY <1>2, CuMembers DEF CuInv
<1>4. PICK c \in CuCallRecords : c = cuNow
  BY DEF CuInv, CuTyped
<1>5. p.conn \in Nat /\ p.conn <= Len(cuEngine) /\ Len(cuEngine) \in Nat /\ p.active
  BY <1>2, <1>3, CuMembers DEF CuInv, CuPeerRecords, CuOwnConns
<1>6. /\ cuOwed' = cuOwed /\ cuBusy' = cuBusy /\ cuShut' = cuShut /\ UNCHANGED cuStore
  BY DEF CuStart, cuService
<1>7. k \notin cuOwed
  <2>1. CASE cuNow.fresh
    BY <1>1, <1>2, <2>1 DEF CuInv, CuLatched
  <2>2. CASE ~cuNow.fresh
    BY <1>1, <1>2, <2>2 DEF CuInv, CuLatched, CuStart, CuStoppedSince
  <2> QED BY <2>1, <2>2
<1>8. PICK st \in BOOLEAN : st = (p.stopped /\ ~c.fresh)
  OBVIOUS
<1>9. PICK C : C = CuClosed(p.conn)
  OBVIOUS
<1>10. /\ C \in Seq(CuEngineRecords) /\ Len(C) = Len(cuEngine)
       /\ \A i \in 1..Len(cuEngine) : C[i].told = cuEngine[i].told
       /\ \A i \in 1..Len(cuEngine) : C[i].open <=> (cuEngine[i].open /\ i # p.conn)
  BY <1>5, <1>9, CuClosedEffect DEF CuInv, CuTyped
<1>11. \/ /\ ~c.fresh /\ p.conn # 0 /\ cuEngine' = cuEngine
          /\ cuPeer' = [cuPeer EXCEPT ![k] = [p EXCEPT !.conn = p.conn, !.stopped = st]]
          /\ cuNow' = [cuNow EXCEPT !.at = "doing", !.conn = p.conn]
       \/ /\ cuEngine' = Append(C, [open |-> TRUE, told |-> FALSE])
          /\ cuPeer' = [cuPeer EXCEPT ![k] = [p EXCEPT !.conn = Len(C) + 1, !.stopped = st]]
          /\ cuNow' = [cuNow EXCEPT !.at = "doing", !.conn = Len(C) + 1]
       \/ /\ cuEngine' = C
          /\ cuPeer' = [cuPeer EXCEPT ![k] = [p EXCEPT !.conn = 0, !.stopped = st]]
          /\ cuNow' = [cuNow EXCEPT !.at = "done"]
  <2>1. \A n : [cuPeer EXCEPT ![k].conn = n, ![k].stopped = @ /\ ~cuNow.fresh]
               = [cuPeer EXCEPT ![k] = [p EXCEPT !.conn = n, !.stopped = st]]
    <3> TAKE n
    <3>1. [cuPeer[k] EXCEPT !.conn = n, !.stopped = @ /\ ~cuNow.fresh] = [p EXCEPT !.conn = n, !.stopped = st]
      BY <1>3, <1>4, <1>8 DEF CuPeerRecords
    <3>2. [cuPeer EXCEPT ![k].conn = n, ![k].stopped = @ /\ ~cuNow.fresh]
          = [cuPeer EXCEPT ![k] = [cuPeer[k] EXCEPT !.conn = n, !.stopped = @ /\ ~cuNow.fresh]]
      BY <1>2 DEF CuInv, CuTyped, CuPeerRecords
    <3> QED BY <3>1, <3>2
  <2>2. CASE cuNow.fresh
    <3>1. \/ /\ cuEngine' = Append(C, [open |-> TRUE, told |-> FALSE])
             /\ cuPeer' = [cuPeer EXCEPT ![k].conn = Len(C) + 1, ![k].stopped = @ /\ ~cuNow.fresh]
             /\ cuNow' = [cuNow EXCEPT !.at = "doing", !.conn = Len(C) + 1]
          \/ /\ cuEngine' = C
             /\ cuPeer' = [cuPeer EXCEPT ![k].conn = 0, ![k].stopped = @ /\ ~cuNow.fresh]
             /\ cuNow' = [cuNow EXCEPT !.at = "done"]
      BY <1>1, <1>3, <1>9, <2>2 DEF CuStart
    <3> QED BY <2>1, <3>1
  <2>3. CASE ~cuNow.fresh /\ p.conn # 0
    <3>1. /\ cuEngine' = cuEngine
          /\ cuPeer' = [cuPeer EXCEPT ![k].conn = p.conn, ![k].stopped = @ /\ ~cuNow.fresh]
          /\ cuNow' = [cuNow EXCEPT !.at = "doing", !.conn = p.conn]
      BY <1>1, <1>3, <2>3 DEF CuStart
    <3> QED BY <1>4, <2>1, <2>3, <3>1
  <2>4. CASE ~cuNow.fresh /\ p.conn = 0
    <3>1. C = cuEngine
      BY <1>9, <2>4 DEF CuClosed
    <3>2. \/ /\ cuEngine' = Append(C, [open |-> TRUE, told |-> FALSE])
             /\ cuPeer' = [cuPeer EXCEPT ![k].conn = Len(C) + 1, ![k].stopped = @ /\ ~cuNow.fresh]
             /\ cuNow' = [cuNow EXCEPT !.at = "doing", !.conn = Len(C) + 1]
          \/ /\ cuEngine' = C
             /\ cuPeer' = [cuPeer EXCEPT ![k].conn = 0, ![k].stopped = @ /\ ~cuNow.fresh]
             /\ cuNow' = [cuNow EXCEPT !.at = "done"]
      BY <1>1, <1>3, <2>4, <3>1 DEF CuStart
    <3> QED BY <2>1, <3>2
  <2> QED BY <2>2, <2>3, <2>4
<1>12. ASSUME NEW n \in Nat, n # 0, cuEngine' \in Seq(CuEngineRecords), n <= Len(cuEngine'), Len(cuEngine) <= Len(cuEngine'),
              cuPeer' = [cuPeer EXCEPT ![k] = [p EXCEPT !.conn = n, !.stopped = st]],
              cuNow' = [cuNow EXCEPT !.at = "doing", !.conn = n],
              n = p.conn \/ n > Len(cuEngine),
              cuEngine'[n].open,
              \A i \in 1..Len(cuEngine) : cuEngine'[i].told = cuEngine[i].told,
              \A i \in 1..Len(cuEngine) : cuEngine'[i].open <=> (cuEngine[i].open /\ (i # p.conn \/ i = n)),
              \A i \in 1..Len(cuEngine') : i \in 1..Len(cuEngine) \/ i = n
       PROVE  CuInv'
  <2>1. PICK t : t = [p EXCEPT !.conn = n, !.stopped = st]
    OBVIOUS
  <2>2. t \in CuPeerRecords /\ t.conn = n /\ t.active = p.active
    BY <1>12, <2>1 DEF CuPeerRecords
  <2>3. cuPeer' \in [CuKeys -> CuPeerRecords] /\ cuPeer'[k] = t /\ \A j \in CuKeys \ {k} : cuPeer'[j] = cuPeer[j]
    BY <1>2, <1>12, <2>1, <2>2, CuPeerSet DEF CuInv
  <2>4. cuNow' \in CuCallRecords /\ cuNow'.at = "doing" /\ cuNow'.key = k /\ cuNow'.conn = n
    BY <1>1, <1>4, <1>12 DEF CuCallRecords
  <2>5. CuTyped'
    BY <1>6, <1>12, <2>3, <2>4 DEF CuInv, CuTyped, cuStore
  <2>6. CuHeld'
    BY <1>2, <1>5, <1>6, <1>12, <2>2, <2>3, <2>4 DEF CuHeld
  <2>7. ASSUME NEW j \in CuKeys, j # k
        PROVE  cuPeer[j].conn \in 0..Len(cuEngine) /\ cuPeer'[j] = cuPeer[j] /\ (cuPeer[j].conn = 0 \/ cuPeer[j].conn # p.conn)
    <3>1. cuPeer[j].conn \in Nat /\ cuPeer[j].conn <= Len(cuEngine)
      BY CuMembers DEF CuInv, CuOwnConns, CuPeerRecords
    <3>2. cuPeer[j].conn = 0 \/ cuPeer[j].conn # p.conn
      BY <1>2, <1>3, <2>7 DEF CuInv, CuOwnConns
    <3> QED BY <1>5, <2>3, <2>7, <3>1, <3>2
  <2>8. CuOwnConns'
    <3>1. \A j \in CuKeys : cuPeer'[j].conn <= Len(cuEngine')
      BY <1>5, <1>12, <2>2, <2>3, <2>7, LenProperties
    <3>2. \A i, j \in CuKeys : cuPeer'[j].conn # 0 /\ cuPeer'[j].conn = cuPeer'[i].conn => i = j
      <4>1. \A j \in CuKeys : j # k => cuPeer'[j].conn = cuPeer[j].conn /\ (cuPeer[j].conn = 0 \/ cuPeer[j].conn # n)
        BY <1>5, <1>12, <2>7
      <4>2. \A i, j \in CuKeys : cuPeer[j].conn # 0 /\ cuPeer[j].conn = cuPeer[i].conn => i = j
        BY DEF CuInv, CuOwnConns
      <4> QED BY <2>2, <2>3, <4>1, <4>2
    <3>3. ASSUME NEW j \in CuKeys, cuPeer'[j].conn # 0 PROVE cuEngine'[cuPeer'[j].conn].open \/ cuShut'
      <4>1. CASE j = k
        BY <1>12, <2>2, <2>3, <4>1
      <4>2. CASE j # k
        <5>1. PICK m : m = cuPeer[j].conn
          OBVIOUS
        <5>2. m \in 1..Len(cuEngine) /\ m # p.conn /\ m = cuPeer'[j].conn
          BY <1>5, <2>7, <3>3, <4>2, <5>1
        <5>3. cuEngine[m].open
          BY <1>2, <3>3, <5>1, <5>2 DEF CuInv, CuOwnConns
        <5> QED BY <1>12, <5>2, <5>3
      <4> QED BY <4>1, <4>2
    <3> QED BY <3>1, <3>2, <3>3 DEF CuOwnConns
  <2>9. CuLatched'
    <3>1. ASSUME NEW j \in cuOwed' PROVE cuPeer'[j].stopped \/ CuTold(cuPeer[j].conn)'
      <4>1. j \in CuKeys /\ j # k /\ (cuPeer[j].stopped \/ CuTold(cuPeer[j].conn))
        BY <1>6, <1>7 DEF CuInv, CuTyped, CuLatched
      <4>2. CASE cuPeer[j].stopped
        BY <2>7, <4>1, <4>2
      <4>3. CASE CuTold(cuPeer[j].conn)
        <5>1. PICK m : m = cuPeer[j].conn
          OBVIOUS
        <5>2. m \in 1..Len(cuEngine) /\ cuEngine[m].told /\ m = cuPeer'[j].conn /\ m # 0
          BY <1>5, <2>7, <4>1, <4>3, <5>1 DEF CuTold
        <5>3. cuEngine'[m].told
          BY <1>12, <5>2
        <5> QED BY <5>2, <5>3 DEF CuTold
      <4> QED BY <4>1, <4>2, <4>3
    <3> QED BY <2>4, <3>1 DEF CuLatched
  <2>10. CuStopHolds'
    BY <1>6, <1>7, <2>4 DEF CuStopHolds
  <2>11. CuCallKeepsEngine'
    BY <1>12, <2>4 DEF CuCallKeepsEngine
  <2>12. CuNoOrphan'
    <3>1. ASSUME NEW i \in 1..Len(cuEngine'), cuEngine'[i].open
          PROVE  ~cuShut' /\ \E j \in CuKeys : cuPeer'[j].conn = i
      <4>1. CASE i = n
        BY <1>2, <1>6, <2>2, <2>3, <4>1
      <4>2. CASE i # n
        <5>1. i \in 1..Len(cuEngine) /\ cuEngine[i].open /\ i # p.conn
          BY <1>12, <3>1, <4>2
        <5>2. PICK j \in CuKeys : cuPeer[j].conn = i
          BY <5>1 DEF CuInv, CuNoOrphan
        <5>3. j # k
          BY <1>3, <5>1, <5>2
        <5> QED BY <1>2, <1>6, <2>3, <5>2, <5>3
      <4> QED BY <4>1, <4>2
    <3> QED BY <3>1 DEF CuNoOrphan
  <2> QED BY <1>6, <2>5, <2>6, <2>8, <2>9, <2>10, <2>11, <2>12, CuStoreRests DEF CuSession
<1>13. CASE /\ ~c.fresh /\ p.conn # 0 /\ cuEngine' = cuEngine
            /\ cuPeer' = [cuPeer EXCEPT ![k] = [p EXCEPT !.conn = p.conn, !.stopped = st]]
            /\ cuNow' = [cuNow EXCEPT !.at = "doing", !.conn = p.conn]
  <2>1. cuEngine[p.conn].open
    BY <1>2, <1>3, <1>13 DEF CuInv, CuOwnConns
  <2>2. cuEngine \in Seq(CuEngineRecords)
    BY DEF CuInv, CuTyped
  <2>3. \A i \in 1..Len(cuEngine) : cuEngine'[i].open <=> (cuEngine[i].open /\ (i # p.conn \/ i = p.conn))
    BY <1>13
  <2>4. /\ cuEngine' \in Seq(CuEngineRecords) /\ p.conn <= Len(cuEngine') /\ Len(cuEngine) <= Len(cuEngine')
        /\ cuEngine'[p.conn].open /\ p.conn # 0 /\ p.conn \in Nat
        /\ \A i \in 1..Len(cuEngine) : cuEngine'[i].told = cuEngine[i].told
        /\ \A i \in 1..Len(cuEngine') : i \in 1..Len(cuEngine) \/ i = p.conn
    BY <1>5, <1>13, <2>1, <2>2
  <2> QED BY <1>12, <1>13, <2>3, <2>4, Zenon
<1>14. CASE /\ cuEngine' = Append(C, [open |-> TRUE, told |-> FALSE])
            /\ cuPeer' = [cuPeer EXCEPT ![k] = [p EXCEPT !.conn = Len(C) + 1, !.stopped = st]]
            /\ cuNow' = [cuNow EXCEPT !.at = "doing", !.conn = Len(C) + 1]
  <2>1. PICK n \in Nat : n = Len(C) + 1
    BY <1>5, <1>10
  <2>2. PICK e : e = [open |-> TRUE, told |-> FALSE]
    OBVIOUS
  <2>3. e \in CuEngineRecords /\ e.open
    BY <2>2 DEF CuEngineRecords
  <2>4. PICK E : E = Append(C, e)
    OBVIOUS
  <2>5. E \in Seq(CuEngineRecords) /\ Len(E) = n /\ E[n] = e /\ \A i \in 1..Len(C) : E[i] = C[i]
    BY <1>10, <2>1, <2>3, <2>4, AppendProperties
  <2>6. cuEngine' = E /\ n = Len(cuEngine) + 1
    BY <1>10, <1>14, <2>1, <2>2, <2>4
  <2>7. \A i \in 1..Len(cuEngine) : cuEngine'[i].told = cuEngine[i].told
    BY <1>10, <2>5, <2>6
  <2>8. \A i \in 1..Len(cuEngine) : cuEngine'[i].open <=> (cuEngine[i].open /\ (i # p.conn \/ i = n))
    <3>1. \A i \in 1..Len(cuEngine) : i # n
      BY <1>5, <2>6
    <3> QED BY <1>10, <2>5, <2>6, <3>1
  <2>9. \A i \in 1..Len(cuEngine') : i \in 1..Len(cuEngine) \/ i = n
    BY <1>5, <2>5, <2>6
  <2>10. n # 0 /\ n <= Len(cuEngine') /\ Len(cuEngine) <= Len(cuEngine') /\ n > Len(cuEngine) /\ cuEngine'[n].open
    BY <1>5, <2>3, <2>5, <2>6
  <2> QED BY <1>12, <1>14, <2>1, <2>5, <2>6, <2>7, <2>8, <2>9, <2>10
<1>15. CASE /\ cuEngine' = C
            /\ cuPeer' = [cuPeer EXCEPT ![k] = [p EXCEPT !.conn = 0, !.stopped = st]]
            /\ cuNow' = [cuNow EXCEPT !.at = "done"]
  <2>1. PICK t : t = [p EXCEPT !.conn = 0, !.stopped = st]
    OBVIOUS
  <2>2. t \in CuPeerRecords /\ t.conn = 0 /\ t.active
    BY <1>5, <2>1 DEF CuPeerRecords
  <2> QED BY <1>1, <1>2, <1>3, <1>6, <1>7, <1>9, <1>15, <2>1, <2>2, CuEnding_Inv
<1> QED BY <1>11, <1>13, <1>14, <1>15

\* The connections that sessions hold are closed.
CuAllClosed == [n \in 1..Len(cuEngine) |-> [cuEngine[n] EXCEPT !.open = @ /\ \A k \in CuKeys : cuPeer[k].conn # n]]

LEMMA CuAllClosedEffect ==
  ASSUME CuInv
  PROVE  /\ CuAllClosed \in Seq(CuEngineRecords) /\ Len(CuAllClosed) = Len(cuEngine)
         /\ \A i \in 1..Len(cuEngine) : CuAllClosed[i].told = cuEngine[i].told /\ ~CuAllClosed[i].open
<1>1. Len(cuEngine) \in Nat /\ \A i \in 1..Len(cuEngine) : cuEngine[i] \in CuEngineRecords
  BY CuMembers DEF CuInv
<1>2. PICK E : E = CuAllClosed
  OBVIOUS
<1>3. ASSUME NEW i \in 1..Len(cuEngine)
      PROVE  E[i] \in CuEngineRecords /\ E[i].told = cuEngine[i].told /\ ~E[i].open
  <2>1. PICK e \in CuEngineRecords : e = cuEngine[i]
    BY <1>1
  <2>2. PICK b \in BOOLEAN : b = (e.open /\ \A k \in CuKeys : cuPeer[k].conn # i)
    OBVIOUS
  <2>3. E[i] = [e EXCEPT !.open = b]
    BY <1>2, <2>1, <2>2 DEF CuAllClosed, CuEngineRecords
  <2>4. ~b
    BY <2>1, <2>2 DEF CuInv, CuNoOrphan
  <2> QED BY <2>1, <2>3, <2>4 DEF CuEngineRecords
<1>4. E \in [1..Len(cuEngine) -> CuEngineRecords]
  BY <1>2, <1>3 DEF CuAllClosed
<1>5. E \in Seq(CuEngineRecords) /\ Len(E) = Len(cuEngine)
  BY <1>1, <1>4, SeqDef, LenProperties
<1> QED BY <1>2, <1>3, <1>5

\* CloseIdleOpenCU.
LEMMA CuCloseIdle_Inv == ASSUME CuInv, CuCloseIdle PROVE CuInv'
<1>1. /\ cuBusy = "pause" /\ UNCHANGED <<cuService, cuNow, cuStore, cuOwed>> /\ cuEngine' = CuAllClosed
  BY DEF CuCloseIdle, CuAllClosed
<1>2. cuNow.at = "idle" /\ cuNow' = cuNow /\ cuOwed' = cuOwed /\ cuBusy' = cuBusy /\ cuShut' = cuShut
  BY <1>1 DEF CuInv, CuHeld, cuService
<1>3. /\ cuEngine' \in Seq(CuEngineRecords) /\ Len(cuEngine') = Len(cuEngine)
      /\ \A i \in 1..Len(cuEngine) : ~cuEngine'[i].open
  BY <1>1, CuAllClosedEffect
<1>4. PICK timers : /\ \A k \in CuKeys : timers[k] \in CuTimersAfterStop(k)
                    /\ cuPeer' = [k \in CuKeys |-> [CuCloseConn(cuPeer[k]) EXCEPT !.timers = timers[k]]]
  BY DEF CuCloseIdle
<1>5. ASSUME NEW k \in CuKeys
      PROVE  /\ cuPeer'[k] \in CuPeerRecords /\ cuPeer'[k].conn = 0
             /\ (cuPeer[k].stopped \/ CuTold(cuPeer[k].conn)) => cuPeer'[k].stopped
  <2>1. PICK p \in CuPeerRecords : p = cuPeer[k]
    BY CuMembers DEF CuInv
  <2>2. PICK st \in BOOLEAN : st = (p.stopped \/ CuTold(p.conn))
    OBVIOUS
  <2>3. timers[k] \in SUBSET Nat
    BY <1>4, <2>1 DEF CuTimersAfterStop, CuPeerRecords
  <2>4. CuCloseConn(p) = [p EXCEPT !.conn = 0, !.stopped = st]
    BY <2>2 DEF CuCloseConn, CuPeerRecords
  <2>5. cuPeer'[k] = [CuCloseConn(p) EXCEPT !.timers = timers[k]]
    BY <1>4, <2>1
  <2>6. cuPeer'[k] = [p EXCEPT !.conn = 0, !.stopped = st, !.timers = timers[k]]
    BY <2>4, <2>5 DEF CuPeerRecords
  <2>7. PICK ts \in SUBSET Nat : ts = timers[k]
    BY <2>3
  <2>8. PICK q : q = [p EXCEPT !.conn = 0, !.stopped = st, !.timers = ts]
    OBVIOUS
  <2>9. q \in CuPeerRecords /\ q.conn = 0 /\ q.stopped = st
    BY <2>8 DEF CuPeerRecords
  <2>10. cuPeer'[k] = q
    BY <2>6, <2>7, <2>8
  <2> QED BY <2>1, <2>2, <2>9, <2>10
<1>6. cuPeer' \in [CuKeys -> CuPeerRecords]
  BY <1>4, <1>5
<1>7. CuTyped'
  BY <1>1, <1>2, <1>3, <1>6 DEF CuInv, CuTyped, cuStore
<1>8. CuHeld'
  BY <1>2 DEF CuHeld, CuServed
<1>9. CuOwnConns'
  <2>1. Len(cuEngine') \in Nat
    BY <1>3, LenProperties
  <2> QED BY <1>5, <2>1 DEF CuOwnConns
<1>10. CuNoOrphan'
  BY <1>3 DEF CuNoOrphan
<1>11. CuLatched'
  <2>1. \A j \in cuOwed' : j \in CuKeys /\ cuPeer'[j].stopped
    BY <1>2, <1>5 DEF CuInv, CuTyped, CuLatched
  <2> QED BY <1>2, <2>1 DEF CuLatched
<1>12. CuStopHolds' /\ CuCallKeepsEngine'
  BY <1>2 DEF CuStopHolds, CuCallKeepsEngine
<1> QED BY <1>1, <1>7, <1>8, <1>9, <1>10, <1>11, <1>12, CuStoreRests DEF CuSession

\* Only what knows of a stop grows, and only engines that are closed change: the
\* service's end, the person's gesture.
LEMMA CuOutside ==
  ASSUME CuInv, cuNow' = cuNow, cuBusy' = cuBusy, UNCHANGED cuStore,
         cuEngine' \in Seq(CuEngineRecords), Len(cuEngine') = Len(cuEngine),
         \A i \in 1..Len(cuEngine) : cuEngine[i].told => cuEngine'[i].told,
         cuPeer' \in [CuKeys -> CuPeerRecords],
         \A k \in CuKeys : /\ cuPeer'[k].conn = cuPeer[k].conn /\ cuPeer'[k].stopped = cuPeer[k].stopped
                           /\ cuPeer'[k].active = cuPeer[k].active,
         \/ cuShut' = TRUE /\ \A i \in 1..Len(cuEngine) : ~cuEngine'[i].open
         \/ cuShut' = cuShut /\ \A i \in 1..Len(cuEngine) : cuEngine'[i].open = cuEngine[i].open,
         cuOwed' \subseteq CuKeys,
         \A k \in cuOwed' \ cuOwed : CuTold(cuPeer[k].conn)' /\ ~(cuNow.at = "approved" /\ cuNow.fresh /\ cuNow.key = k)
  PROVE  CuInv'
<1>1. CuTyped'
  <2>1. cuShut' \in BOOLEAN
    BY DEF CuInv, CuTyped
  <2> QED BY <2>1 DEF CuInv, CuTyped, cuStore
<1>2. \A k \in CuKeys : cuPeer[k].conn \in 0..Len(cuEngine)
  BY CuMembers DEF CuInv, CuOwnConns, CuPeerRecords
<1>3. ASSUME NEW n \in 0..Len(cuEngine), CuTold(n) PROVE CuTold(n)'
  <2>1. n \in 1..Len(cuEngine) /\ n # 0 /\ cuEngine[n].told
    BY <1>3, CuMembers DEF CuInv, CuTold
  <2>2. cuEngine'[n].told
    BY <2>1
  <2> QED BY <2>1, <2>2 DEF CuTold
<1>4. CuHeld'
  <2>1. cuNow.at \in CuServed => cuNow.key \in CuKeys /\ cuPeer'[cuNow.key].active
    BY DEF CuInv, CuHeld
  <2>2. cuNow.at = "doing" => cuNow.conn # 0 /\ cuPeer'[cuNow.key].conn = cuNow.conn
    BY DEF CuInv, CuHeld, CuServed
  <2>3. cuNow.at # "idle" => cuBusy' = "call"
    BY DEF CuInv, CuHeld
  <2> QED BY <2>1, <2>2, <2>3 DEF CuHeld
<1>5. CuOwnConns'
  <2>1. ASSUME NEW k \in CuKeys, cuPeer'[k].conn # 0 PROVE cuEngine'[cuPeer'[k].conn].open \/ cuShut'
    <3>1. PICK n : n = cuPeer[k].conn
      OBVIOUS
    <3>2. n \in 1..Len(cuEngine) /\ cuPeer'[k].conn = n /\ (cuEngine[n].open \/ cuShut)
      BY <1>2, <2>1, <3>1, CuMembers DEF CuInv, CuOwnConns
    <3> QED BY <3>2
  <2> QED BY <2>1 DEF CuInv, CuOwnConns
<1>6. CuNoOrphan'
  BY DEF CuInv, CuNoOrphan
<1>7. CuLatched'
  <2>1. ASSUME NEW k \in cuOwed' PROVE cuPeer'[k].stopped \/ CuTold(cuPeer[k].conn)'
    <3>1. CASE k \in cuOwed
      <4>1. k \in CuKeys /\ (cuPeer[k].stopped \/ CuTold(cuPeer[k].conn))
        BY <3>1 DEF CuInv, CuTyped, CuLatched
      <4>2. CuTold(cuPeer[k].conn) => CuTold(cuPeer[k].conn)'
        <5>1. PICK n \in 0..Len(cuEngine) : n = cuPeer[k].conn /\ n = cuPeer'[k].conn
          BY <1>2, <4>1
        <5>2. CuTold(n) => CuTold(n)'
          BY <1>3
        <5> QED BY <5>1, <5>2 DEF CuTold
      <4> QED BY <4>1, <4>2
    <3>2. CASE k \notin cuOwed
      BY <2>1, <3>2
    <3> QED BY <3>1, <3>2
  <2>2. cuNow.at \in {"asked", "approved"} /\ ~cuNow.fresh => ~cuPeer'[cuNow.key].stopped
    BY DEF CuInv, CuLatched, CuHeld, CuServed
  <2>3. cuNow.at = "approved" /\ cuNow.fresh => cuNow.key \notin cuOwed'
    BY DEF CuInv, CuLatched
  <2> QED BY <2>1, <2>2, <2>3 DEF CuLatched
<1>8. ASSUME cuNow.at = "doing"
      PROVE  cuNow.key \in CuKeys /\ cuNow.conn = cuPeer[cuNow.key].conn /\ cuNow.conn \in 1..Len(cuEngine)
  BY <1>2, <1>8, CuMembers DEF CuInv, CuHeld, CuServed
<1>9. CuStopHolds'
  <2>1. ASSUME cuNow.at = "doing", cuNow.key \in cuOwed' PROVE CuTold(cuNow.conn)'
    <3>1. CASE cuNow.key \in cuOwed
      <4>1. CuTold(cuNow.conn)
        BY <2>1, <3>1 DEF CuInv, CuStopHolds
      <4>2. PICK n \in 1..Len(cuEngine) : n = cuNow.conn
        BY <1>8, <2>1
      <4>3. CuTold(n)'
        <5>1. n \in 0..Len(cuEngine)
          BY CuMembers DEF CuInv
        <5> QED BY <1>3, <4>1, <4>2, <5>1
      <4> QED BY <4>2, <4>3 DEF CuTold
    <3>2. CASE cuNow.key \notin cuOwed
      <4>1. CuTold(cuPeer[cuNow.key].conn)'
        BY <2>1, <3>2
      <4> QED BY <1>8, <2>1, <4>1 DEF CuTold
    <3> QED BY <3>1, <3>2
  <2> QED BY <2>1 DEF CuStopHolds
<1>10. CuCallKeepsEngine'
  BY <1>8 DEF CuInv, CuCallKeepsEngine
<1> QED BY <1>1, <1>4, <1>5, <1>6, <1>7, <1>9, <1>10, CuStoreRests DEF CuSession

LEMMA CuShutDown_Inv == ASSUME CuInv, CuShutDown PROVE CuInv'
<1>1. /\ cuShut' = TRUE /\ cuEngine' = CuAllClosed /\ cuNow' = cuNow /\ cuBusy' = cuBusy
      /\ UNCHANGED cuStore /\ cuOwed' = cuOwed /\ cuPeer' = [k \in CuKeys |-> [cuPeer[k] EXCEPT !.timers = {}]]
  BY DEF CuShutDown, CuAllClosed
<1>2. /\ cuEngine' \in Seq(CuEngineRecords) /\ Len(cuEngine') = Len(cuEngine)
      /\ \A i \in 1..Len(cuEngine) : (cuEngine[i].told => cuEngine'[i].told) /\ ~cuEngine'[i].open
  BY <1>1, CuAllClosedEffect
<1>3. ASSUME NEW k \in CuKeys
      PROVE  /\ cuPeer'[k] \in CuPeerRecords /\ cuPeer'[k].conn = cuPeer[k].conn
             /\ cuPeer'[k].stopped = cuPeer[k].stopped /\ cuPeer'[k].active = cuPeer[k].active
  <2>1. PICK p \in CuPeerRecords : p = cuPeer[k]
    BY CuMembers DEF CuInv
  <2>2. cuPeer'[k] = [p EXCEPT !.timers = {}]
    BY <1>1, <2>1
  <2> QED BY <2>1, <2>2 DEF CuPeerRecords
<1>4. cuPeer' \in [CuKeys -> CuPeerRecords]
  BY <1>1, <1>3
<1>5. cuOwed' \subseteq CuKeys /\ cuOwed' \ cuOwed = {}
  BY <1>1 DEF CuInv, CuTyped
<1> QED BY <1>1, <1>2, <1>3, <1>4, <1>5, CuOutside

LEMMA CuPersonStops_Inv == ASSUME CuInv, CuPersonStops PROVE CuInv'
<1>1. PICK n \in 1..Len(cuEngine), k \in CuKeys :
        /\ cuPeer[k].conn = n /\ cuEngine' = [cuEngine EXCEPT ![n].told = TRUE]
        /\ cuOwed' = IF cuNow.at = "approved" /\ cuNow.fresh /\ cuNow.key = k THEN cuOwed ELSE cuOwed \union {k}
        /\ UNCHANGED <<cuService, cuNow, cuPeer, cuStore, cuCalls>>
  BY DEF CuPersonStops
<1>2. PICK e \in CuEngineRecords : e = cuEngine[n]
  BY CuMembers DEF CuInv
<1>3. PICK t : t = [e EXCEPT !.told = TRUE]
  OBVIOUS
<1>4. t \in CuEngineRecords /\ t.told /\ t.open = e.open
  BY <1>3 DEF CuEngineRecords
<1>5. cuEngine' = [cuEngine EXCEPT ![n] = t]
  BY <1>1, <1>2, <1>3 DEF CuInv, CuTyped
<1>6. /\ cuEngine' \in Seq(CuEngineRecords) /\ Len(cuEngine') = Len(cuEngine) /\ cuEngine'[n] = t
      /\ \A i \in 1..Len(cuEngine) \ {n} : cuEngine'[i] = cuEngine[i]
  BY <1>4, <1>5, ExceptSeq DEF CuInv, CuTyped
<1>7. \A i \in 1..Len(cuEngine) : (cuEngine[i].told => cuEngine'[i].told) /\ cuEngine'[i].open = cuEngine[i].open
  BY <1>2, <1>4, <1>6
<1>8. /\ cuNow' = cuNow /\ cuBusy' = cuBusy /\ UNCHANGED cuStore /\ cuShut' = cuShut /\ cuPeer' = cuPeer
      /\ cuPeer' \in [CuKeys -> CuPeerRecords]
  BY <1>1 DEF cuService, CuInv, CuTyped
<1>9. cuOwed' \subseteq CuKeys
  BY <1>1 DEF CuInv, CuTyped
<1>10. ASSUME NEW j \in cuOwed' \ cuOwed
       PROVE  CuTold(cuPeer[j].conn)' /\ ~(cuNow.at = "approved" /\ cuNow.fresh /\ cuNow.key = j)
  <2>1. j = k /\ ~(cuNow.at = "approved" /\ cuNow.fresh /\ cuNow.key = k)
    BY <1>1, <1>10
  <2>2. n # 0 /\ cuPeer'[j].conn = n /\ cuEngine'[n].told
    BY <1>1, <1>4, <1>6, <1>8, <2>1, CuMembers DEF CuInv
  <2> QED BY <2>1, <2>2 DEF CuTold
<1> QED BY <1>6, <1>7, <1>8, <1>9, <1>10, CuOutside

----------------------------------------------------------------------------
\* The screenshots of s have started nothing unless they are used.
CuFresh(s, runs) ==
  /\ \A i \in DOMAIN s : s[i].id \in DOMAIN runs /\ (s[i].used \/ runs[s[i].id] = 0)
  /\ \A i, j \in DOMAIN s : s[i].id = s[j].id => i = j

LEMMA CuSuffix ==
  ASSUME NEW s \in Seq(CuShotRecords), NEW runs, CuFresh(s, runs), NEW m \in 1..(Len(s) + 1)
  PROVE  SubSeq(s, m, Len(s)) \in Seq(CuShotRecords) /\ CuFresh(SubSeq(s, m, Len(s)), runs)
<1>1. Len(s) \in Nat /\ DOMAIN s = 1..Len(s)
  BY LenProperties
<1>2. PICK t : t = SubSeq(s, m, Len(s))
  OBVIOUS
<1>3. PICK n \in Nat : n = Len(s)
  BY <1>1
<1>4. /\ t \in Seq(CuShotRecords) /\ Len(t) = (IF m <= n THEN n - m + 1 ELSE 0)
      /\ \A i \in 1..(n - m + 1) : t[i] = s[m + i - 1]
  <2>1. \A i \in m..n : i \in 1..Len(s)
    BY <1>3
  <2> QED BY <1>1, <1>2, <1>3, <2>1, SubSeqProperties
<1>5. DOMAIN t = 1..(n - m + 1)
  <2>1. DOMAIN t = 1..Len(t)
    BY <1>4, LenProperties
  <2>2. CASE m <= n
    BY <1>3, <1>4, <2>1, <2>2
  <2>3. CASE ~(m <= n)
    BY <1>3, <1>4, <2>1, <2>3
  <2> QED BY <2>2, <2>3
<1>6. ASSUME NEW i \in DOMAIN t PROVE m + i - 1 \in DOMAIN s /\ t[i] = s[m + i - 1]
  BY <1>1, <1>3, <1>4, <1>5
<1>7. \A i \in DOMAIN t : t[i].id \in DOMAIN runs /\ (t[i].used \/ runs[t[i].id] = 0)
  BY <1>6 DEF CuFresh
<1>8. \A i, j \in DOMAIN t : t[i].id = t[j].id => i = j
  <2> SUFFICES ASSUME NEW i \in DOMAIN t, NEW j \in DOMAIN t, t[i].id = t[j].id PROVE i = j
    OBVIOUS
  <2>1. m + i - 1 = m + j - 1
    BY <1>6 DEF CuFresh
  <2>2. m \in Int /\ i \in Int /\ j \in Int
    BY <1>3, <1>5
  <2> QED BY <2>1, <2>2
<1> QED BY <1>2, <1>4, <1>7, <1>8 DEF CuFresh

\* A screenshot is taken, or the helper failed.
LEMMA CuPhotographed_Fresh ==
  ASSUME CuInv, CuPhotographed
  PROVE  /\ cuShots' \in Seq(CuShotRecords) /\ cuRuns' \in Seq(Nat)
         /\ CuUnused' /\ CuActsOnce'
<1>1. /\ cuShots \in Seq(CuShotRecords) /\ Len(cuShots) \in Nat /\ CuFresh(cuShots, cuRuns)
      /\ cuRuns \in Seq(Nat) /\ Len(cuRuns) \in Nat /\ DOMAIN cuRuns = 1..Len(cuRuns)
  BY LenProperties DEF CuInv, CuTyped, CuUnused, CuFresh
<1>2. CASE UNCHANGED cuStore
  BY <1>2 DEF cuStore, CuInv, CuTyped, CuUnused, CuActsOnce
<1>3. ASSUME cuRuns' = Append(cuRuns, 0), NEW expired \in 0..Len(cuShots), cuShots' = CuPut(expired)
      PROVE  /\ cuShots' \in Seq(CuShotRecords) /\ cuRuns' \in Seq(Nat)
             /\ CuUnused' /\ CuActsOnce'
  <2>1. PICK n \in Nat : n = Len(cuRuns) + 1
    BY <1>1
  <2>2. PICK runs : runs = Append(cuRuns, 0)
    OBVIOUS
  <2>3. /\ runs \in Seq(Nat) /\ Len(runs) = n /\ DOMAIN runs = 1..n /\ runs[n] = 0
        /\ \A i \in 1..Len(cuRuns) : runs[i] = cuRuns[i]
    BY <1>1, <2>1, <2>2, AppendProperties, LenProperties
  <2>4. PICK m \in 1..(Len(cuShots) + 1) : m = expired + 1
    BY <1>1
  <2>5. PICK kept : kept = SubSeq(cuShots, m, Len(cuShots))
    OBVIOUS
  <2>6. kept \in Seq(CuShotRecords) /\ CuFresh(kept, cuRuns)
    BY <1>1, <2>5, CuSuffix
  <2>7. PICK shot : shot = [id |-> n, used |-> FALSE]
    OBVIOUS
  <2>8. shot \in CuShotRecords /\ shot.id = n
    BY <2>7 DEF CuShotRecords
  <2>9. PICK all : all = Append(kept, shot)
    OBVIOUS
  <2>10. /\ all \in Seq(CuShotRecords) /\ Len(all) = Len(kept) + 1 /\ all[Len(kept) + 1] = shot /\ Len(kept) \in Nat
         /\ DOMAIN kept = 1..Len(kept) /\ DOMAIN all = 1..(Len(kept) + 1) /\ \A i \in 1..Len(kept) : all[i] = kept[i]
    BY <2>6, <2>8, <2>9, AppendProperties, LenProperties
  <2>11. CuFresh(all, runs)
    <3>1. \A i \in DOMAIN kept : kept[i].id \in 1..Len(cuRuns) /\ kept[i].id # n
      BY <1>1, <2>1, <2>6 DEF CuFresh
    <3>2. \A i \in DOMAIN all : i \in DOMAIN kept \/ i = Len(kept) + 1
      BY <2>10
    <3>3. ASSUME NEW i \in DOMAIN all PROVE all[i].id \in DOMAIN runs /\ (all[i].used \/ runs[all[i].id] = 0)
      <4>1. CASE i \in DOMAIN kept
        <5>1. all[i] = kept[i] /\ kept[i].id \in 1..Len(cuRuns) /\ (kept[i].used \/ cuRuns[kept[i].id] = 0)
          BY <2>6, <2>10, <3>1, <4>1 DEF CuFresh
        <5>2. \A x \in 1..Len(cuRuns) : x \in DOMAIN runs
          BY <1>1, <2>1, <2>3
        <5> QED BY <2>3, <5>1, <5>2
      <4>2. CASE i = Len(kept) + 1
        <5>1. n \in 1..n
          BY <2>1, <1>1
        <5> QED BY <2>3, <2>8, <2>10, <4>2, <5>1
      <4> QED BY <3>2, <4>1, <4>2
    <3>4. \A i, j \in DOMAIN all : all[i].id = all[j].id => i = j
      BY <2>6, <2>8, <2>10, <3>1, <3>2 DEF CuFresh
    <3> QED BY <3>3, <3>4 DEF CuFresh
  <2>12. PICK a \in 1..(Len(all) + 1) : a = IF Len(all) > CuShotsKept THEN Len(all) - CuShotsKept + 1 ELSE 1
    <3>1. PICK len \in Nat : len = Len(all)
      BY <2>10
    <3>2. CuShotsKept \in Nat
      BY CuAssumption
    <3>3. (IF len > CuShotsKept THEN len - CuShotsKept + 1 ELSE 1) \in 1..(len + 1)
      BY <3>1, <3>2
    <3> QED BY <3>1, <3>3
  <2>13. cuShots' = SubSeq(all, a, Len(all))
    BY <1>3, <2>1, <2>4, <2>5, <2>7, <2>9, <2>12 DEF CuPut
  <2>14. cuShots' \in Seq(CuShotRecords) /\ CuFresh(cuShots', runs)
    BY <2>10, <2>11, <2>13, CuSuffix
  <2>15. cuRuns' = runs
    BY <1>3, <2>2
  <2>16. CuUnused'
    BY <2>14, <2>15 DEF CuUnused, CuFresh
  <2>17. CuActsOnce'
    <3>1. \A s \in 1..Len(cuRuns) : cuRuns[s] <= 1
      BY DEF CuInv, CuActsOnce
    <3>2. \A s \in 1..n : s \in 1..Len(cuRuns) \/ s = n
      BY <1>1, <2>1
    <3>3. ASSUME NEW s \in 1..n PROVE runs[s] <= 1
      <4>1. CASE s \in 1..Len(cuRuns)
        <5>1. runs[s] = cuRuns[s]
          BY <2>3, <4>1
        <5> QED BY <3>1, <4>1, <5>1
      <4>2. CASE s = n
        <5>1. runs[s] = 0
          BY <2>3, <4>2
        <5> QED BY <5>1
      <4> QED BY <3>2, <4>1, <4>2
    <3>4. Len(cuRuns') = n
      BY <2>3, <2>15
    <3>5. \A s \in 1..Len(cuRuns') : cuRuns'[s] <= 1
      BY <2>15, <3>3, <3>4
    <3> QED BY <3>5 DEF CuActsOnce
  <2> QED BY <2>3, <2>14, <2>15, <2>16, <2>17
<1> QED BY <1>2, <1>3 DEF CuPhotographed

\* Service.Do: a screenshot, or a batch that spends one.
LEMMA CuStore_Inv ==
  ASSUME CuInv, CuShoot \/ CuShot \/ CuActed \/ (\E i \in 1..CuShotsKept : CuAct(i))
  PROVE  CuInv'
<1>1. UNCHANGED <<cuSession, cuShut>> /\ cuOwed' = cuOwed /\ cuPeer' = cuPeer /\ cuEngine' = cuEngine
  BY DEF CuShoot, CuShot, CuActed, CuAct, cuSession
<1>2. \/ cuNow' = CuIdleCall /\ cuBusy' = "free"
      \/ cuNow' = [CuIdleCall EXCEPT !.at = "shooting"] /\ cuBusy' = "call"
      \/ (\E i \in 1..CuShotsKept : cuNow' = [CuIdleCall EXCEPT !.at = "acting", !.shot = cuShots[i].id]
                                    /\ i <= Len(cuShots)) /\ cuBusy' = "call"
  BY DEF CuShoot, CuShot, CuActed, CuAct
<1>3. cuNow' \in CuCallRecords /\ cuNow'.at \in {"idle", "shooting", "acting"}
      /\ (cuNow'.at # "idle" => cuBusy' = "call") /\ cuBusy' \in {"free", "call"}
  <2>1. CASE cuNow' = CuIdleCall /\ cuBusy' = "free"
    BY <2>1 DEF CuIdleCall, CuCallRecords
  <2>2. CASE cuNow' = [CuIdleCall EXCEPT !.at = "shooting"] /\ cuBusy' = "call"
    BY <2>2 DEF CuIdleCall, CuCallRecords
  <2>3. ASSUME NEW i \in 1..CuShotsKept, cuNow' = [CuIdleCall EXCEPT !.at = "acting", !.shot = cuShots[i].id],
               i <= Len(cuShots), cuBusy' = "call"
        PROVE  cuNow' \in CuCallRecords /\ cuNow'.at = "acting"
    <3>1. cuShots \in Seq(CuShotRecords) /\ Len(cuShots) \in Nat
      BY LenProperties DEF CuInv, CuTyped
    <3>2. i \in 1..Len(cuShots)
      BY <2>3, <3>1, CuAssumption
    <3>3. PICK e \in CuShotRecords : e = cuShots[i]
      BY <3>1, <3>2, ElementOfSeq
    <3>4. PICK x \in Nat : x = cuShots[i].id
      BY <3>3 DEF CuShotRecords
    <3> QED BY <2>3, <3>4 DEF CuIdleCall, CuCallRecords
  <2> QED BY <1>2, <2>1, <2>2, <2>3
<1>4. CuSession'
  BY <1>1, <1>3, CuMoves
<1>5. ASSUME cuShots' \in Seq(CuShotRecords), cuRuns' \in Seq(Nat), CuUnused', CuActsOnce'
      PROVE  CuInv'
  <2>1. CuTyped'
    BY <1>1, <1>3, <1>5 DEF CuInv, CuTyped, cuSession
  <2> QED BY <1>4, <1>5, <2>1 DEF CuInv, CuSession
<1>6. CASE CuShoot
  BY <1>5, <1>6 DEF CuShoot, cuStore, CuInv, CuTyped, CuUnused, CuActsOnce
<1>7. CASE CuShot \/ CuActed
  BY <1>5, <1>7, CuPhotographed_Fresh DEF CuShot, CuActed
<1>8. ASSUME NEW i \in 1..CuShotsKept, CuAct(i) PROVE CuInv'
  <2>1. /\ cuShots \in Seq(CuShotRecords) /\ Len(cuShots) \in Nat /\ DOMAIN cuShots = 1..Len(cuShots)
        /\ cuRuns \in Seq(Nat) /\ Len(cuRuns) \in Nat /\ DOMAIN cuRuns = 1..Len(cuRuns)
    BY LenProperties DEF CuInv, CuTyped
  <2>2. i \in DOMAIN cuShots /\ ~cuShots[i].used
    <3>1. i <= Len(cuShots) /\ ~cuShots[i].used
      BY <1>8 DEF CuAct
    <3> QED BY <2>1, <3>1, CuAssumption
  <2>3. PICK e \in CuShotRecords : e = cuShots[i]
    BY <2>1, <2>2, ElementOfSeq
  <2>4. PICK t : t = [e EXCEPT !.used = TRUE]
    OBVIOUS
  <2>5. t \in CuShotRecords /\ t.used /\ t.id = e.id
    BY <2>4 DEF CuShotRecords
  <2>6. e.id \in DOMAIN cuRuns /\ cuRuns[e.id] = 0
    BY <2>2, <2>3 DEF CuInv, CuUnused
  <2>7. cuShots' = [cuShots EXCEPT ![i] = t] /\ cuRuns' = [cuRuns EXCEPT ![e.id] = 1]
    <3>1. cuShots' = CuSpent(i) /\ cuRuns' = [cuRuns EXCEPT ![cuShots[i].id] = cuRuns[cuShots[i].id] + 1]
      BY <1>8 DEF CuAct
    <3>2. CuSpent(i) = [cuShots EXCEPT ![i] = [cuShots[i] EXCEPT !.used = TRUE]]
      BY DEF CuSpent
    <3>3. cuShots' = [cuShots EXCEPT ![i] = t]
      BY <2>3, <2>4, <3>1, <3>2
    <3>4. cuRuns[cuShots[i].id] + 1 = 1
      BY <2>3, <2>6
    <3> QED BY <2>3, <3>1, <3>3, <3>4
  <2>8. /\ cuShots' \in Seq(CuShotRecords) /\ DOMAIN cuShots' = DOMAIN cuShots /\ cuShots'[i] = t
        /\ \A j \in DOMAIN cuShots \ {i} : cuShots'[j] = cuShots[j]
    BY <2>1, <2>2, <2>5, <2>7, ExceptSeq, LenProperties
  <2>9. /\ cuRuns' \in Seq(Nat) /\ DOMAIN cuRuns' = DOMAIN cuRuns /\ cuRuns'[e.id] = 1 /\ Len(cuRuns') = Len(cuRuns)
        /\ \A x \in DOMAIN cuRuns \ {e.id} : cuRuns'[x] = cuRuns[x]
    BY <2>1, <2>6, <2>7, ExceptSeq, LenProperties
  <2>10. CuUnused'
    <3>1. ASSUME NEW j \in DOMAIN cuShots'
          PROVE  /\ cuShots'[j].id = cuShots[j].id /\ cuShots'[j].id \in DOMAIN cuRuns'
                 /\ cuShots'[j].used \/ cuRuns'[cuShots'[j].id] = 0
      <4>1. CASE j = i
        BY <2>3, <2>5, <2>6, <2>8, <2>9, <4>1
      <4>2. CASE j # i
        <5>1. /\ cuShots'[j] = cuShots[j] /\ cuShots[j].id \in DOMAIN cuRuns /\ cuShots[j].id # e.id
              /\ (cuShots[j].used \/ cuRuns[cuShots[j].id] = 0)
          BY <2>2, <2>3, <2>8, <4>2 DEF CuInv, CuUnused
        <5> QED BY <2>9, <5>1
      <4> QED BY <4>1, <4>2
    <3>2. \A j, k \in DOMAIN cuShots : cuShots[j].id = cuShots[k].id => j = k
      BY DEF CuInv, CuUnused
    <3> QED BY <2>8, <3>1, <3>2 DEF CuUnused
  <2>11. CuActsOnce'
    <3>1. \A s \in 1..Len(cuRuns) : cuRuns[s] <= 1
      BY DEF CuInv, CuActsOnce
    <3>2. \A s \in 1..Len(cuRuns) : cuRuns'[s] = 1 \/ cuRuns'[s] = cuRuns[s]
      BY <2>1, <2>9
    <3> QED BY <2>9, <3>1, <3>2 DEF CuActsOnce
  <2> QED BY <1>5, <2>8, <2>9, <2>10, <2>11
<1> QED BY <1>6, <1>7, <1>8

LEMMA CuNext_Inv == CuInv /\ [CuNext]_cuVars => CuInv'
<1> SUFFICES ASSUME CuInv, [CuNext]_cuVars PROVE CuInv'
  OBVIOUS
<1>1. CASE UNCHANGED cuVars
  BY <1>1 DEF cuVars, cuService, cuSession, cuStore, CuInv, CuTyped, CuHeld, CuOwnConns, CuLatched, CuUnused,
              CuStopHolds, CuNoOrphan, CuCallKeepsEngine, CuActsOnce, CuTold
<1>2. ASSUME NEW k \in CuKeys, CuArrive(k) PROVE CuInv'
  BY <1>2, CuArrive_Inv
<1>3. CASE CuApprove \/ CuPause \/ CuResume
  BY <1>3, CuCalls_Inv
<1>4. CASE CuRefused \/ CuLost \/ CuEnds
  BY <1>4, CuEnds_Inv
<1>5. CASE CuStart \/ CuAnswered
  BY <1>5, CuStart_Inv, CuAnswered_Inv
<1>6. CASE CuIdles \/ CuCloseIdle
  BY <1>6, CuIdles_Inv, CuCloseIdle_Inv
<1>7. CASE CuShutDown \/ CuPersonStops
  BY <1>7, CuShutDown_Inv, CuPersonStops_Inv
<1>8. CASE CuShoot \/ CuShot \/ CuActed \/ (\E i \in 1..CuShotsKept : CuAct(i))
  BY <1>8, CuStore_Inv
<1> QED BY <1>1, <1>2, <1>3, <1>4, <1>5, <1>6, <1>7, <1>8 DEF CuNext

\* opencu.go, service.go, store.go: a stop holds until the person is asked again,
\* no engine is left over, no timer takes the engine of a call, and a screenshot
\* starts one batch.
THEOREM DesktopKeepsPromises == CuSpec => []CuServiceSafe
<1>1. CuInv => CuServiceSafe
  BY DEF CuInv, CuServiceSafe
<1> QED BY <1>1, CuInit_Inv, CuNext_Inv, PTL DEF CuSpec

----------------------------------------------------------------------------
(* Shells *)

ShPlaces == {"idle", "start", "wait", "armed", "run", "disarm", "after", "end"}
ShOuts == {"none", "ctx", "unusable", "failed", "ok", "cancelled"}
ShRecs == [at : ShPlaces, sh : 0..MaxShells, gen : Nat, try : {0, 1}, gone : BOOLEAN, ran : Nat, out : ShOuts]
ShWatchers == [by : Execs, sh : Shells, gen : Nat]

\* A request that has the shell, and one that has a shell at all.
ShIn == {"armed", "run", "disarm"}
ShOn == ShIn \cup {"wait", "after"}

ShTyped ==
  /\ spawned \in 0..MaxShells /\ shell \in 0..spawned /\ shut \subseteq 1..spawned
  /\ next \in [Shells -> Nat] /\ live \in [Shells -> Nat] /\ firedGen \in [Shells -> Nat]
  /\ holder \in [Shells -> SUBSET Execs]
  /\ watchers \subseteq ShWatchers
  /\ ex \in [Execs -> ShRecs]

\* A request in a shell is the only one there and of the latest generation; when
\* a cancellation has fired in its shell, it was its own.
ShHolds(e) ==
  /\ ex[e].at \in ShOn => ex[e].sh \in 1..spawned
  /\ ex[e].at \in ShIn =>
       /\ holder[ex[e].sh] = {e} /\ ex[e].gen = next[ex[e].sh] /\ ex[e].gen > 0
       /\ live[ex[e].sh] \in {0, ex[e].gen}
       /\ firedGen[ex[e].sh] # 0 => firedGen[ex[e].sh] = ex[e].gen /\ ex[e].gone

\* How often a request has run, by what it says of itself.
ShCounts(r) ==
  /\ r.ran <= 1
  /\ r.at \in {"idle", "start", "wait", "armed"} => r.ran = 0
  /\ r.at = "disarm" => r.out \in {"ok", "failed"}
  /\ r.at = "after" /\ r.out = "unusable" => r.ran = 0

ShHeld(s) == \E e \in Execs : ex[e].at \in ShIn /\ ex[e].sh = s
ShUsed(s) == \E e \in Execs : ex[e].at \in ShIn \cup {"after"} /\ ex[e].sh = s

\* What is armed is in the shell, and a cancellation that fired has closed it.
ShGate ==
  /\ \A s \in Shells : firedGen[s] # 0 => s \in shut
  /\ \A s \in Shells : live[s] # 0 => ShHeld(s)

\* A watcher is of a generation that was armed; the request of that generation is
\* the watcher's own.
ShWatched ==
  /\ \A w \in watchers : w.gen > 0 /\ w.gen <= next[w.sh]
  /\ \A w \in watchers, e \in Execs : ex[e].at \in ShIn /\ ex[e].sh = w.sh /\ ex[e].gen = w.gen => w.by = e

\* A shell is open and in the map, torn down, or somebody's to tear down.
ShKept ==
  /\ \A s \in 1..spawned : s \in shut \/ s = shell
  /\ \A s \in shut : s \in freed \/ ShUsed(s)

ShInv ==
  /\ ShTyped /\ ShGate /\ ShWatched /\ ShKept
  /\ \A e \in Execs : ShHolds(e) /\ ShCounts(ex[e])

LEMMA ShInit_Inv == ShellInit => ShInv
<1> SUFFICES ASSUME ShellInit PROVE ShInv
  OBVIOUS
<1>1. /\ spawned = 0 /\ shell = 0 /\ shut = {} /\ watchers = {} /\ holder = [s \in Shells |-> {}]
      /\ next = [s \in Shells |-> 0] /\ live = [s \in Shells |-> 0] /\ firedGen = [s \in Shells |-> 0]
  BY DEF ShellInit
<1>2. PICK r : r = [at |-> "idle", sh |-> 0, gen |-> 0, try |-> 0, gone |-> FALSE, ran |-> 0, out |-> "none"]
  OBVIOUS
<1>3. r \in ShRecs /\ r.at = "idle" /\ ShCounts(r)
  BY <1>2, ShellAssumption DEF ShRecs, ShPlaces, ShOuts, ShCounts
<1>4. ex = [e \in Execs |-> r]
  BY <1>2 DEF ShellInit
<1>5. ShTyped
  BY <1>1, <1>3, <1>4, ShellAssumption DEF ShTyped
<1>6. ShGate /\ ShWatched /\ ShKept
  BY <1>1 DEF ShGate, ShWatched, ShKept
<1>7. \A e \in Execs : ShHolds(e) /\ ShCounts(ex[e])
  BY <1>3, <1>4 DEF ShHolds, ShOn, ShIn
<1> QED BY <1>5, <1>6, <1>7 DEF ShInv

\* A request moves on without leaving or entering a shell, which may close.
LEMMA ShWalks ==
  ASSUME ShInv, NEW e \in Execs, NEW y \in ShRecs, ex' = [ex EXCEPT ![e] = y],
         y.sh = ex[e].sh, y.gen = ex[e].gen, ex[e].gone => y.gone,
         ex[e].at \in ShIn <=> y.at \in ShIn, ex[e].at = "after" => y.at = "after",
         y.at \in ShOn => ex[e].at \in ShOn, ShCounts(y),
         UNCHANGED <<shell, spawned, freed, holder, cancelGate>>,
         \/ UNCHANGED shut
         \/ ex[e].at \in ShIn /\ shut' = shut \cup {ex[e].sh}
  PROVE  ShInv'
<1>1. PICK x \in ShRecs : x = ex[e]
  BY DEF ShInv, ShTyped
<1>2. ex'[e] = y /\ (\A c \in Execs \ {e} : ex'[c] = ex[c]) /\ ex' \in [Execs -> ShRecs]
  BY DEF ShInv, ShTyped
<1>3. UNCHANGED <<next, live, firedGen, watchers>>
  BY DEF cancelGate
<1>4. x.at \in ShIn => x.sh \in 1..spawned
  BY <1>1 DEF ShInv, ShHolds, ShOn
<1>5. ShTyped'
  BY <1>1, <1>2, <1>3, <1>4 DEF ShInv, ShTyped
<1>6. ASSUME NEW c \in Execs PROVE ShHolds(c)' /\ ShCounts(ex'[c])
  <2>1. CASE c = e
    <3>1. ShHolds(e)
      BY DEF ShInv
    <3> QED BY <1>1, <1>2, <1>3, <2>1, <3>1 DEF ShHolds
  <2>2. CASE c # e
    BY <1>2, <1>3, <2>2 DEF ShInv, ShHolds
  <2> QED BY <2>1, <2>2
<1>7. \A s : (ShHeld(s) => ShHeld(s)') /\ (ShUsed(s) => ShUsed(s)')
  BY <1>1, <1>2 DEF ShHeld, ShUsed
<1>8. shut \subseteq shut' /\ \A s \in shut' \ shut : ShUsed(s)'
  BY <1>1, <1>2 DEF ShUsed
<1>9. ShGate' /\ ShKept'
  BY <1>3, <1>7, <1>8 DEF ShInv, ShGate, ShKept
<1>10. ShWatched'
  BY <1>1, <1>2, <1>3 DEF ShInv, ShWatched
<1> QED BY <1>5, <1>6, <1>9, <1>10 DEF ShInv

\* session: a request takes the shell in the map, or a new one when that is closed.
LEMMA ShAcquire_Inv ==
  ASSUME ShInv, NEW e \in Execs, Acquire(e)
  PROVE  ShInv'
<1>1. PICK x \in ShRecs : x = ex[e] /\ x.at = "start"
  BY DEF ShInv, ShTyped, Acquire
<1>2. PICK s \in 1..spawned' : /\ ex' = [ex EXCEPT ![e] = [x EXCEPT !.at = "wait", !.sh = s]]
                               /\ spawned' \in 0..MaxShells /\ spawned' >= spawned /\ shell' \in 0..spawned'
                               /\ \A q \in 1..spawned' : q \in shut \/ q = shell'
  <2>1. CASE shell # 0 /\ shell \notin shut /\ ex' = [ex EXCEPT ![e].at = "wait", ![e].sh = shell]
             /\ UNCHANGED <<shell, spawned>>
    <3>1. spawned \in Nat /\ shell \in 1..spawned /\ spawned' = spawned /\ spawned \in 0..MaxShells /\ shell' = shell
      BY <2>1, ShellAssumption DEF ShInv, ShTyped
    <3>2. ex' = [ex EXCEPT ![e] = [x EXCEPT !.at = "wait", !.sh = shell]]
      BY <1>1, <2>1
    <3>3. \A q \in 1..spawned' : q \in shut \/ q = shell'
      BY <3>1 DEF ShInv, ShKept
    <3>4. spawned' \in 0..MaxShells /\ spawned' >= spawned /\ shell' \in 0..spawned' /\ shell \in 1..spawned'
      BY <3>1
    <3> QED BY <3>2, <3>3, <3>4
  <2>2. CASE (shell = 0 \/ shell \in shut) /\ spawned < MaxShells /\ spawned' = spawned + 1 /\ shell' = spawned + 1
             /\ ex' = [ex EXCEPT ![e].at = "wait", ![e].sh = spawned + 1]
    <3>1. \A q \in 1..spawned' : q \in shut \/ q = shell'
      BY <2>2, ShellAssumption DEF ShInv, ShTyped, ShKept
    <3>2. spawned \in Nat /\ spawned' \in 0..MaxShells /\ spawned' >= spawned /\ shell' \in 0..spawned'
          /\ spawned + 1 \in 1..spawned'
      BY <2>2, ShellAssumption DEF ShInv, ShTyped
    <3>3. ex' = [ex EXCEPT ![e] = [x EXCEPT !.at = "wait", !.sh = spawned + 1]]
      BY <1>1, <2>2
    <3> QED BY <3>1, <3>2, <3>3
  <2> QED BY <2>1, <2>2 DEF Acquire
<1>3. PICK y : y = [x EXCEPT !.at = "wait", !.sh = s]
  OBVIOUS
<1>4. y \in ShRecs /\ y.at = "wait" /\ y.sh = s /\ ShCounts(y)
  <2>1. s \in 0..MaxShells
    BY <1>2, ShellAssumption
  <2>2. y \in ShRecs /\ y.at = "wait" /\ y.sh = s /\ y.ran = x.ran
    BY <1>3, <2>1 DEF ShRecs, ShPlaces
  <2> QED BY <1>1, <2>2 DEF ShInv, ShCounts
<1>5. ex'[e] = y /\ (\A c \in Execs \ {e} : ex'[c] = ex[c]) /\ ex' \in [Execs -> ShRecs]
  BY <1>2, <1>3, <1>4 DEF ShInv, ShTyped
<1>6. UNCHANGED <<shut, freed, holder, next, live, firedGen, watchers>>
  BY DEF Acquire, cancelGate
<1>7. shut \subseteq 1..spawned'
  BY <1>2, ShellAssumption DEF ShInv, ShTyped
<1>8. ShTyped'
  BY <1>2, <1>5, <1>6, <1>7 DEF ShInv, ShTyped
<1>9. ASSUME NEW c \in Execs PROVE ShHolds(c)' /\ ShCounts(ex'[c])
  <2>1. CASE c = e
    BY <1>2, <1>4, <1>5, <2>1 DEF ShHolds, ShIn
  <2>2. CASE c # e
    <3>1. ex[c].at \in ShOn => ex[c].sh \in 1..spawned'
      BY <1>2, ShellAssumption DEF ShInv, ShTyped, ShHolds
    <3> QED BY <1>5, <1>6, <2>2, <3>1 DEF ShInv, ShHolds
  <2> QED BY <2>1, <2>2
<1>10. \A q : (ShHeld(q) => ShHeld(q)') /\ (ShUsed(q) => ShUsed(q)')
  BY <1>1, <1>5 DEF ShHeld, ShUsed, ShIn
<1>11. ShGate' /\ ShKept'
  BY <1>2, <1>6, <1>10 DEF ShInv, ShGate, ShKept
<1>12. ShWatched'
  BY <1>4, <1>5, <1>6 DEF ShInv, ShWatched, ShIn
<1> QED BY <1>8, <1>9, <1>11, <1>12 DEF ShInv

\* ExecInDirContext: the gate is armed for a new generation.
LEMMA ShArms_Inv ==
  ASSUME ShInv, NEW e \in Execs, NEW s \in Shells, s = ex[e].sh, ex[e].at = "wait", holder[s] = {},
         s \notin shut, holder' = [holder EXCEPT ![s] = {e}],
         next' = [next EXCEPT ![s] = next[s] + 1], live' = [live EXCEPT ![s] = next[s] + 1],
         watchers' = watchers \cup {[by |-> e, sh |-> s, gen |-> next[s] + 1]},
         ex' = [ex EXCEPT ![e].at = "armed", ![e].gen = next[s] + 1],
         UNCHANGED <<firedGen, shell, spawned, shut, freed>>
  PROVE  ShInv'
<1>1. PICK x \in ShRecs : x = ex[e]
  BY DEF ShInv, ShTyped
<1>2. PICK n \in Nat : n = next[s] + 1 /\ n > 0
  BY DEF ShInv, ShTyped
<1>3. PICK y : y = [x EXCEPT !.at = "armed", !.gen = n]
  OBVIOUS
<1>4. y \in ShRecs /\ y.at = "armed" /\ y.sh = s /\ y.gen = n /\ y.ran = x.ran
  BY <1>1, <1>3 DEF ShRecs, ShPlaces
<1>5. ex'[e] = y /\ (\A c \in Execs \ {e} : ex'[c] = ex[c]) /\ ex' \in [Execs -> ShRecs]
  BY <1>1, <1>2, <1>3, <1>4 DEF ShInv, ShTyped
<1>6. PICK w : w = [by |-> e, sh |-> s, gen |-> n]
  OBVIOUS
<1>7. w \in ShWatchers /\ w.by = e /\ w.sh = s /\ w.gen = n /\ watchers' = watchers \cup {w}
  BY <1>2, <1>6 DEF ShWatchers
<1>8. /\ next' \in [Shells -> Nat] /\ next'[s] = n /\ live' \in [Shells -> Nat] /\ live'[s] = n
      /\ \A q \in Shells \ {s} : next'[q] = next[q] /\ live'[q] = live[q]
      /\ \A q \in Shells : next'[q] \in Nat /\ next[q] \in Nat /\ next[q] <= next'[q]
  BY <1>2 DEF ShInv, ShTyped
<1>9. /\ holder' \in [Shells -> SUBSET Execs] /\ holder'[s] = {e}
      /\ \A q \in Shells \ {s} : holder'[q] = holder[q]
  BY DEF ShInv, ShTyped
<1>10. ShTyped'
  BY <1>5, <1>7, <1>8, <1>9 DEF ShInv, ShTyped
<1>11. ASSUME NEW c \in Execs \ {e}, ex[c].at \in ShIn PROVE ex[c].sh \in Shells \ {s}
  <2>1. ex[c].sh \in 1..spawned /\ holder[ex[c].sh] = {c}
    BY <1>11 DEF ShInv, ShHolds, ShOn
  <2>2. spawned \in 0..MaxShells
    BY DEF ShInv, ShTyped
  <2> QED BY <2>1, <2>2, ShellAssumption DEF Shells
<1>12. x.at = "wait" /\ ShCounts(x) /\ s \in 1..spawned /\ firedGen[s] = 0
  BY <1>1 DEF ShInv, ShHolds, ShOn, ShGate
<1>13. ASSUME NEW c \in Execs PROVE ShHolds(c)' /\ ShCounts(ex'[c])
  <2>1. CASE c = e
    <3>1. ShHolds(e)'
      BY <1>2, <1>4, <1>5, <1>8, <1>9, <1>12 DEF ShHolds
    <3>2. ShCounts(y)
      BY <1>4, <1>12 DEF ShCounts
    <3> QED BY <1>5, <2>1, <3>1, <3>2
  <2>2. CASE c # e
    <3>1. ex'[c] = ex[c] /\ ShHolds(c) /\ ShCounts(ex[c])
      BY <1>5, <2>2 DEF ShInv
    <3>2. ex[c].at \in ShIn => /\ holder'[ex[c].sh] = holder[ex[c].sh] /\ next'[ex[c].sh] = next[ex[c].sh]
                               /\ live'[ex[c].sh] = live[ex[c].sh]
      BY <1>8, <1>9, <1>11, <2>2
    <3> QED BY <3>1, <3>2 DEF ShHolds
  <2> QED BY <2>1, <2>2
<1>14. \A q : (ShHeld(q) => ShHeld(q)') /\ (ShUsed(q) => ShUsed(q)')
  <2>1. \A c \in Execs : ex[c].at \in ShIn \cup {"after"} => ex'[c] = ex[c]
    BY <1>1, <1>5, <1>12 DEF ShIn
  <2> QED BY <2>1 DEF ShHeld, ShUsed
<1>15. ShHeld(s)'
  BY <1>4, <1>5 DEF ShHeld, ShIn
<1>16. ShGate' /\ ShKept'
  BY <1>8, <1>14, <1>15 DEF ShInv, ShGate, ShKept
<1>17. ShWatched'
  <2>1. ASSUME NEW v \in watchers PROVE v.sh \in Shells /\ v.gen \in Nat /\ v.gen > 0 /\ v.gen <= next[v.sh]
    BY DEF ShInv, ShTyped, ShWatched, ShWatchers
  <2>2. ASSUME NEW v \in watchers' PROVE v.gen > 0 /\ v.gen <= next'[v.sh]
    <3>1. CASE v \in watchers
      <4>1. PICK a \in Nat, b \in Nat : a = next[v.sh] /\ b = next'[v.sh] /\ a <= b
        BY <1>8, <2>1, <3>1
      <4> QED BY <2>1, <3>1, <4>1
    <3>2. CASE v = w
      BY <1>2, <1>7, <1>8, <3>2
    <3> QED BY <1>7, <3>1, <3>2
  <2>3. ASSUME NEW v \in watchers', NEW c \in Execs, ex'[c].at \in ShIn, ex'[c].sh = v.sh, ex'[c].gen = v.gen
        PROVE  v.by = c
    <3>1. CASE v = w /\ c = e
      BY <1>7, <3>1
    <3>2. CASE v = w /\ c # e
      BY <1>5, <1>7, <1>11, <2>3, <3>2
    <3>3. CASE v \in watchers /\ c = e
      <4>1. v.sh = s /\ v.gen = n /\ v.gen <= next[s] /\ next[s] \in Nat
        BY <1>4, <1>5, <1>8, <2>1, <2>3, <3>3
      <4> QED BY <1>2, <4>1
    <3>4. CASE v \in watchers /\ c # e
      BY <1>5, <2>3, <3>4 DEF ShInv, ShWatched
    <3> QED BY <1>7, <3>1, <3>2, <3>3, <3>4
  <2> QED BY <2>2, <2>3 DEF ShWatched
<1> QED BY <1>10, <1>13, <1>16, <1>17 DEF ShInv

\* fire: a watcher ends, and closes the shell only if its own request is in it.
LEMMA ShFire_Inv ==
  ASSUME ShInv, NEW w \in watchers, Fire(w) \/ StandDown(w)
  PROVE  ShInv'
<1>1. PICK s \in Shells, n \in Nat, b \in Execs : s = w.sh /\ n = w.gen /\ b = w.by /\ n > 0
  BY DEF ShInv, ShTyped, ShWatchers, ShWatched
<1>2. UNCHANGED <<shell, spawned, freed, holder, next, ex>> /\ watchers' \subseteq watchers
  BY DEF Fire, StandDown
<1>3. \A q : (ShHeld(q)' <=> ShHeld(q)) /\ (ShUsed(q)' <=> ShUsed(q))
  BY <1>2 DEF ShHeld, ShUsed
<1>4. ShWatched'
  BY <1>2 DEF ShInv, ShWatched
<1>5. CASE UNCHANGED <<live, firedGen, shut>>
  <2>1. ShTyped'
    BY <1>2, <1>5 DEF ShInv, ShTyped
  <2>2. \A e \in Execs : ShHolds(e)' /\ ShCounts(ex'[e])
    BY <1>2, <1>5 DEF ShInv, ShHolds
  <2>3. ShGate' /\ ShKept'
    BY <1>2, <1>3, <1>5 DEF ShInv, ShGate, ShKept
  <2> QED BY <1>4, <2>1, <2>2, <2>3 DEF ShInv
<1>6. CASE /\ live[s] = n /\ ex[b].gone /\ live' = [live EXCEPT ![s] = 0]
           /\ firedGen' = [firedGen EXCEPT ![s] = n] /\ shut' = shut \cup {s}
  <2>1. PICK c \in Execs : ex[c].at \in ShIn /\ ex[c].sh = s
    BY <1>1, <1>6 DEF ShInv, ShGate, ShHeld
  <2>2. s \in 1..spawned /\ holder[s] = {c} /\ ex[c].gen = n
    BY <1>1, <1>6, <2>1 DEF ShInv, ShHolds, ShOn
  <2>3. b = c
    BY <1>1, <2>1, <2>2 DEF ShInv, ShWatched
  <2>4. /\ live' \in [Shells -> Nat] /\ live'[s] = 0 /\ firedGen' \in [Shells -> Nat] /\ firedGen'[s] = n
        /\ \A q \in Shells \ {s} : live'[q] = live[q] /\ firedGen'[q] = firedGen[q]
    BY <1>6 DEF ShInv, ShTyped
  <2>5. ShTyped'
    BY <1>2, <1>6, <2>2, <2>4 DEF ShInv, ShTyped
  <2>6. ASSUME NEW e \in Execs PROVE ShHolds(e)' /\ ShCounts(ex'[e])
    <3>1. CASE ex[e].at \in ShIn /\ ex[e].sh = s
      <4>1. e = c
        BY <2>2, <3>1 DEF ShInv, ShHolds
      <4> QED BY <1>2, <1>6, <2>2, <2>3, <2>4, <3>1, <4>1 DEF ShInv, ShHolds
    <3>2. CASE ex[e].at \in ShIn /\ ex[e].sh # s
      <4>1. ex[e].sh \in Shells \ {s}
        BY <3>2, ShellAssumption DEF ShInv, ShTyped, ShHolds, ShOn, Shells
      <4> QED BY <1>2, <2>4, <4>1 DEF ShInv, ShHolds
    <3>3. CASE ex[e].at \notin ShIn
      BY <1>2, <3>3 DEF ShInv, ShHolds
    <3> QED BY <3>1, <3>2, <3>3
  <2>7. ShUsed(s)
    BY <2>1 DEF ShUsed
  <2>8. ShGate' /\ ShKept'
    BY <1>2, <1>3, <1>6, <2>4, <2>7 DEF ShInv, ShGate, ShKept
  <2> QED BY <1>4, <2>5, <2>6, <2>8 DEF ShInv
<1> QED BY <1>1, <1>5, <1>6 DEF Fire, StandDown, Killed

\* disarm: the request leaves the shell, which closes if a cancellation fired.
LEMMA ShDisarm_Inv ==
  ASSUME ShInv, NEW e \in Execs, Disarm(e)
  PROVE  ShInv'
<1>1. PICK x \in ShRecs : x = ex[e] /\ x.at = "disarm"
  BY DEF ShInv, ShTyped, Disarm
<1>2. PICK s \in 1..spawned : s = x.sh
  BY <1>1 DEF ShInv, ShHolds, ShOn, ShIn
<1>3. s \in Shells /\ spawned \in 0..MaxShells
  BY <1>2, ShellAssumption DEF ShInv, ShTyped, Shells
<1>4. PICK n \in Nat : n = x.gen
  BY DEF ShRecs
<1>5. PICK o \in ShOuts : o = IF firedGen[s] = n THEN "cancelled" ELSE x.out
  BY DEF ShOuts, ShRecs
<1>6. o # "unusable"
  <2>1. x.out \in {"ok", "failed"}
    BY <1>1 DEF ShInv, ShCounts
  <2> QED BY <1>5, <2>1
<1>7. PICK y : y = [x EXCEPT !.at = "after", !.out = o]
  OBVIOUS
<1>8. y \in ShRecs /\ y.at = "after" /\ y.sh = s /\ y.out = o /\ y.ran = x.ran
  BY <1>2, <1>7 DEF ShRecs, ShPlaces
<1>9. ex' = [ex EXCEPT ![e] = y]
  <2>1. ex' = [ex EXCEPT ![e].at = "after", ![e].out = IF firedGen[s] = n THEN "cancelled" ELSE x.out]
    BY <1>1, <1>2, <1>4 DEF Disarm, Leave
  <2> QED BY <1>1, <1>5, <1>7, <2>1
<1>10. ex'[e] = y /\ (\A c \in Execs \ {e} : ex'[c] = ex[c]) /\ ex' \in [Execs -> ShRecs]
  BY <1>8, <1>9 DEF ShInv, ShTyped
<1>11. /\ live' = [live EXCEPT ![s] = IF live[s] = n THEN 0 ELSE live[s]]
       /\ holder' = [holder EXCEPT ![s] = {}]
       /\ (shut' = shut \/ shut' = shut \cup {s})
       /\ UNCHANGED <<shell, spawned, freed, next, firedGen, watchers>>
  BY <1>1, <1>2, <1>4 DEF Disarm, Leave
<1>12. live[s] \in {0, n}
  BY <1>1, <1>2, <1>4 DEF ShInv, ShHolds, ShIn
<1>13. /\ live' \in [Shells -> Nat] /\ live'[s] = 0 /\ holder' \in [Shells -> SUBSET Execs]
       /\ \A q \in Shells \ {s} : live'[q] = live[q] /\ holder'[q] = holder[q]
  BY <1>3, <1>11, <1>12 DEF ShInv, ShTyped
<1>14. ShTyped'
  BY <1>2, <1>10, <1>11, <1>13 DEF ShInv, ShTyped
<1>15. ASSUME NEW c \in Execs \ {e}, ex[c].at \in ShIn PROVE ex[c].sh \in Shells \ {s}
  <2>1. ex[c].sh \in 1..spawned /\ holder[ex[c].sh] = {c}
    BY <1>15 DEF ShInv, ShHolds, ShOn
  <2>2. holder[s] = {e}
    BY <1>1, <1>2 DEF ShInv, ShHolds, ShIn
  <2> QED BY <1>3, <1>15, <2>1, <2>2, ShellAssumption DEF Shells
<1>16. ASSUME NEW c \in Execs PROVE ShHolds(c)' /\ ShCounts(ex'[c])
  <2>1. CASE c = e
    <3>1. ShCounts(x)
      BY <1>1 DEF ShInv
    <3> QED BY <1>2, <1>6, <1>8, <1>10, <1>11, <2>1, <3>1 DEF ShHolds, ShCounts, ShIn
  <2>2. CASE c # e
    <3>1. ex'[c] = ex[c] /\ ShHolds(c) /\ ShCounts(ex[c])
      BY <1>10, <2>2 DEF ShInv
    <3>2. ex[c].at \in ShIn => holder'[ex[c].sh] = holder[ex[c].sh] /\ live'[ex[c].sh] = live[ex[c].sh]
      BY <1>13, <1>15, <2>2
    <3> QED BY <1>11, <3>1, <3>2 DEF ShHolds
  <2> QED BY <2>1, <2>2
<1>17. \A q \in Shells \ {s} : ShHeld(q) => ShHeld(q)'
  BY <1>1, <1>2, <1>10 DEF ShHeld
<1>18. \A q : ShUsed(q) => ShUsed(q)'
  BY <1>1, <1>2, <1>8, <1>10 DEF ShUsed
<1>19. ShUsed(s)'
  BY <1>8, <1>10 DEF ShUsed
<1>20. ShGate'
  <2>1. \A q \in Shells : live'[q] # 0 => ShHeld(q)'
    BY <1>3, <1>13, <1>17 DEF ShInv, ShGate
  <2>2. \A q \in Shells : firedGen'[q] # 0 => q \in shut'
    BY <1>11 DEF ShInv, ShGate
  <2> QED BY <2>1, <2>2 DEF ShGate
<1>21. ShKept'
  BY <1>11, <1>18, <1>19 DEF ShInv, ShKept
<1>22. ShWatched'
  BY <1>8, <1>10, <1>11 DEF ShInv, ShWatched, ShIn
<1> QED BY <1>14, <1>16, <1>20, <1>21, <1>22 DEF ShInv

\* execInSession: a closed shell leaves the map and is torn down.
LEMMA ShAfterRun_Inv ==
  ASSUME ShInv, NEW e \in Execs, AfterRun(e)
  PROVE  ShInv'
<1>1. PICK x \in ShRecs : x = ex[e] /\ x.at = "after"
  BY DEF ShInv, ShTyped, AfterRun
<1>2. PICK s \in 1..spawned : s = x.sh
  BY <1>1 DEF ShInv, ShHolds, ShOn
<1>3. PICK y : /\ ex' = [ex EXCEPT ![e] = y]
               /\ \/ x.out = "unusable" /\ y = [x EXCEPT !.at = "start", !.try = 1]
                  \/ y = [x EXCEPT !.at = "end"]
  BY <1>1 DEF AfterRun, Retriable
<1>4. ShCounts(x)
  BY <1>1 DEF ShInv
<1>5. y \in ShRecs /\ y.at \in {"start", "end"} /\ ShCounts(y)
  <2>1. CASE x.out = "unusable" /\ y = [x EXCEPT !.at = "start", !.try = 1]
    <3>1. y \in ShRecs /\ y.at = "start" /\ y.ran = x.ran
      BY <2>1 DEF ShRecs, ShPlaces
    <3>2. x.ran = 0
      BY <1>1, <1>4, <2>1 DEF ShCounts
    <3> QED BY <3>1, <3>2 DEF ShCounts
  <2>2. CASE y = [x EXCEPT !.at = "end"]
    <3>1. y \in ShRecs /\ y.at = "end" /\ y.ran = x.ran
      BY <2>2 DEF ShRecs, ShPlaces
    <3> QED BY <1>4, <3>1 DEF ShCounts
  <2> QED BY <1>3, <2>1, <2>2
<1>6. ex'[e] = y /\ (\A c \in Execs \ {e} : ex'[c] = ex[c]) /\ ex' \in [Execs -> ShRecs]
  BY <1>3, <1>5 DEF ShInv, ShTyped
<1>7. /\ shell' = (IF s \in shut /\ shell = s THEN 0 ELSE shell)
      /\ freed' = (IF s \in shut THEN freed \cup {s} ELSE freed)
      /\ UNCHANGED <<spawned, shut, holder, next, live, firedGen, watchers>>
  BY <1>1, <1>2 DEF AfterRun, Drop, Released, cancelGate
<1>8. ShTyped'
  <2>1. shell' \in 0..spawned
    BY <1>7, ShellAssumption DEF ShInv, ShTyped
  <2> QED BY <1>6, <1>7, <2>1 DEF ShInv, ShTyped
<1>9. \A c \in Execs : ShHolds(c)' /\ ShCounts(ex'[c])
  BY <1>5, <1>6, <1>7 DEF ShInv, ShHolds, ShOn, ShIn
<1>10. \A q : (ShHeld(q) => ShHeld(q)')
  BY <1>1, <1>6 DEF ShHeld, ShIn
<1>11. \A q : q # s => (ShUsed(q) => ShUsed(q)')
  BY <1>1, <1>2, <1>6 DEF ShUsed
<1>12. ShGate'
  BY <1>7, <1>10 DEF ShInv, ShGate
<1>13. ShKept'
  <2>1. \A q \in 1..spawned : q \in shut \/ q = shell'
    BY <1>7 DEF ShInv, ShKept
  <2>2. \A q \in shut : q \in freed' \/ ShUsed(q)'
    BY <1>7, <1>11 DEF ShInv, ShKept
  <2> QED BY <1>7, <2>1, <2>2 DEF ShKept
<1>14. ShWatched'
  BY <1>5, <1>6, <1>7 DEF ShInv, ShWatched, ShIn
<1> QED BY <1>8, <1>9, <1>12, <1>13, <1>14 DEF ShInv

LEMMA ShNext_Inv == ShInv /\ [ShellNext]_shellVars => ShInv'
<1> SUFFICES ASSUME ShInv, [ShellNext]_shellVars PROVE ShInv'
  OBVIOUS
<1>1. CASE UNCHANGED shellVars
  BY <1>1 DEF shellVars, cancelGate, ShInv, ShTyped, ShGate, ShHeld, ShWatched, ShKept, ShUsed, ShHolds
<1>2. ASSUME NEW e \in Execs,
             \/ ExecArrives(e) \/ ShellFails(e) \/ Submit(e)
             \/ CommandEnds(e) \/ StreamEnds(e) \/ ControllerGone(e)
      PROVE  ShInv'
  <2>1. PICK x \in ShRecs : x = ex[e] /\ ShCounts(x)
    BY DEF ShInv, ShTyped
  <2>2. UNCHANGED <<shell, spawned, freed, holder, cancelGate>>
    BY <1>2 DEF ExecArrives, ShellFails, Submit, CommandEnds, StreamEnds, ControllerGone
  <2>3. UNCHANGED shut \/ (ex[e].at \in ShIn /\ shut' = shut \cup {ex[e].sh})
    BY <1>2 DEF ExecArrives, ShellFails, Submit, CommandEnds, StreamEnds, ControllerGone, ShIn
  <2>4. PICK y : /\ ex' = [ex EXCEPT ![e] = y]
                 /\ \/ x.at = "idle" /\ y = [x EXCEPT !.at = "start"]
                    \/ x.at = "start" /\ y = [x EXCEPT !.at = "end", !.out = "failed"]
                    \/ x.at = "armed" /\ y = [x EXCEPT !.at = "disarm", !.out = "failed"]
                    \/ x.at = "armed" /\ y = [x EXCEPT !.at = "run", !.ran = x.ran + 1]
                    \/ x.at = "run" /\ y = [x EXCEPT !.at = "disarm", !.out = "ok"]
                    \/ x.at = "run" /\ y = [x EXCEPT !.at = "disarm", !.out = "failed"]
                    \/ y = [x EXCEPT !.gone = TRUE]
    <3>1. CASE ExecArrives(e)
      <4>1. ex[e].at = "idle" /\ ex' = [ex EXCEPT ![e].at = "start"]
        BY <3>1 DEF ExecArrives, ShellGo
      <4>2. PICK z : z = [x EXCEPT !.at = "start"]
        OBVIOUS
      <4>3. ex' = [ex EXCEPT ![e] = z]
        BY <2>1, <4>1, <4>2
      <4>4. x.at = "idle"
        BY <2>1, <4>1
      <4> QED BY <4>2, <4>3, <4>4
    <3>2. CASE Submit(e)
      <4>1. CASE ex[e].sh \in shut
        <5>1. ex[e].at = "armed" /\ ex' = [ex EXCEPT ![e].at = "disarm", ![e].out = "failed"]
          BY <3>2, <4>1 DEF Submit
        <5>2. PICK z : z = [x EXCEPT !.at = "disarm", !.out = "failed"]
          OBVIOUS
        <5>3. ex' = [ex EXCEPT ![e] = z]
          BY <2>1, <5>1, <5>2
        <5>4. x.at = "armed"
          BY <2>1, <5>1
        <5> QED BY <5>2, <5>3, <5>4
      <4>2. CASE ex[e].sh \notin shut
        <5>1. PICK n : n = x.ran + 1
          OBVIOUS
        <5>2. ex[e].at = "armed" /\ ex' = [ex EXCEPT ![e].at = "run", ![e].ran = n]
          BY <2>1, <3>2, <4>2, <5>1 DEF Submit
        <5>3. ex' = [ex EXCEPT ![e] = [x EXCEPT !.at = "run", !.ran = n]]
          BY <2>1, <5>2
        <5> QED BY <2>1, <5>1, <5>2, <5>3
      <4> QED BY <4>1, <4>2
    <3>3. CASE CommandEnds(e)
      <4>1. ex[e].at = "run" /\ ex' = [ex EXCEPT ![e].at = "disarm", ![e].out = "ok"]
        BY <3>3 DEF CommandEnds
      <4>2. PICK z : z = [x EXCEPT !.at = "disarm", !.out = "ok"]
        OBVIOUS
      <4>3. ex' = [ex EXCEPT ![e] = z]
        BY <2>1, <4>1, <4>2
      <4>4. x.at = "run"
        BY <2>1, <4>1
      <4> QED BY <4>2, <4>3, <4>4
    <3>4. CASE StreamEnds(e)
      <4>1. ex[e].at = "run" /\ ex' = [ex EXCEPT ![e].at = "disarm", ![e].out = "failed"]
        BY <3>4 DEF StreamEnds
      <4>2. PICK z : z = [x EXCEPT !.at = "disarm", !.out = "failed"]
        OBVIOUS
      <4>3. ex' = [ex EXCEPT ![e] = z]
        BY <2>1, <4>1, <4>2
      <4>4. x.at = "run"
        BY <2>1, <4>1
      <4> QED BY <4>2, <4>3, <4>4
    <3>5. CASE ControllerGone(e)
      <4>1. ex' = [ex EXCEPT ![e].gone = TRUE]
        BY <3>5 DEF ControllerGone
      <4>2. PICK z : z = [x EXCEPT !.gone = TRUE]
        OBVIOUS
      <4>3. ex' = [ex EXCEPT ![e] = z]
        BY <2>1, <4>1, <4>2
      <4> QED BY <4>2, <4>3
    <3>6. CASE ShellFails(e)
      <4>1. ex[e].at = "start" /\ ex' = [ex EXCEPT ![e].at = "end", ![e].out = "failed"]
        BY <3>6 DEF ShellFails
      <4>2. PICK z : z = [x EXCEPT !.at = "end", !.out = "failed"]
        OBVIOUS
      <4>3. ex' = [ex EXCEPT ![e] = z]
        BY <2>1, <4>1, <4>2
      <4>4. x.at = "start"
        BY <2>1, <4>1
      <4> QED BY <4>2, <4>3, <4>4
    <3> QED BY <1>2, <3>1, <3>2, <3>3, <3>4, <3>5, <3>6
  <2>5. /\ y \in ShRecs /\ y.sh = x.sh /\ y.gen = x.gen /\ (x.gone => y.gone)
        /\ (x.at \in ShIn <=> y.at \in ShIn) /\ (x.at = "after" => y.at = "after")
        /\ (y.at \in ShOn => x.at \in ShOn) /\ ShCounts(y)
    <3>1. CASE y = [x EXCEPT !.gone = TRUE]
      BY <2>1, <3>1 DEF ShRecs, ShPlaces, ShOuts, ShIn, ShOn, ShCounts
    <3>2. CASE x.at = "idle" /\ y = [x EXCEPT !.at = "start"]
      BY <2>1, <3>2 DEF ShRecs, ShPlaces, ShOuts, ShIn, ShOn, ShCounts
    <3>3. ASSUME NEW o \in {"ok", "failed"}, x.at \in ShIn, y = [x EXCEPT !.at = "disarm", !.out = o]
          PROVE  y \in ShRecs /\ y.at = "disarm" /\ y.out = o /\ y.sh = x.sh /\ y.gen = x.gen /\ y.gone = x.gone
                 /\ y.ran = x.ran
      BY <3>3 DEF ShRecs, ShPlaces, ShOuts
    <3>4. CASE (x.at = "armed" /\ y = [x EXCEPT !.at = "disarm", !.out = "failed"])
               \/ (x.at = "run" /\ y = [x EXCEPT !.at = "disarm", !.out = "ok"])
               \/ (x.at = "run" /\ y = [x EXCEPT !.at = "disarm", !.out = "failed"])
      BY <2>1, <3>3, <3>4 DEF ShIn, ShOn, ShCounts
    <3>5. CASE x.at = "armed" /\ y = [x EXCEPT !.at = "run", !.ran = x.ran + 1]
      <4>1. x.ran = 0
        BY <2>1, <3>5 DEF ShCounts
      <4>2. y \in ShRecs /\ y.at = "run" /\ y.ran = 1 /\ y.sh = x.sh /\ y.gen = x.gen /\ y.gone = x.gone
        <5>1. x.ran + 1 = 1
          BY <4>1
        <5>2. y = [x EXCEPT !.at = "run", !.ran = 1]
          BY <3>5, <5>1
        <5> QED BY <5>2 DEF ShRecs, ShPlaces
      <4> QED BY <3>5, <4>2 DEF ShIn, ShOn, ShCounts
    <3>6. CASE x.at = "start" /\ y = [x EXCEPT !.at = "end", !.out = "failed"]
      <4>1. /\ y \in ShRecs /\ y.at = "end" /\ y.out = "failed" /\ y.sh = x.sh /\ y.gen = x.gen
            /\ y.gone = x.gone /\ y.ran = x.ran
        BY <3>6 DEF ShRecs, ShPlaces, ShOuts
      <4> QED BY <2>1, <3>6, <4>1 DEF ShIn, ShOn, ShCounts
    <3> QED BY <2>4, <3>1, <3>2, <3>4, <3>5, <3>6
  <2> QED BY <2>1, <2>2, <2>3, <2>4, <2>5, ShWalks
<1>3. ASSUME NEW e \in Execs, EnterShell(e) PROVE ShInv'
  <2>1. PICK x \in ShRecs : x = ex[e] /\ x.at = "wait" /\ ShCounts(x)
    BY <1>3 DEF ShInv, ShTyped, EnterShell
  <2>2. PICK s \in Shells : s = ex[e].sh
    <3>1. ex[e].sh \in 1..spawned /\ spawned \in 0..MaxShells
      BY <2>1 DEF ShInv, ShTyped, ShHolds, ShOn
    <3> QED BY <3>1, ShellAssumption DEF Shells
  <2>3. UNCHANGED <<shell, spawned, shut, freed>> /\ holder[s] = {}
    BY <1>3, <2>2 DEF EnterShell
  <2>4. ASSUME NEW o \in {"ctx", "unusable"}, ex' = [ex EXCEPT ![e].at = "after", ![e].out = o],
               UNCHANGED <<holder, cancelGate>>
        PROVE  ShInv'
    <3>1. PICK y : y = [x EXCEPT !.at = "after", !.out = o]
      OBVIOUS
    <3>2. /\ y \in ShRecs /\ y.at = "after" /\ y.sh = x.sh /\ y.gen = x.gen /\ y.gone = x.gone
          /\ y.ran = x.ran /\ ex' = [ex EXCEPT ![e] = y]
      BY <2>1, <2>4, <3>1 DEF ShRecs, ShPlaces, ShOuts
    <3>3. ShCounts(y) /\ y.at \notin ShIn /\ x.at \notin ShIn /\ x.at \in ShOn /\ x.at # "after"
      BY <2>1, <3>2 DEF ShCounts, ShIn, ShOn
    <3> QED BY <2>1, <2>3, <2>4, <3>2, <3>3, ShWalks
  <2>5. CASE /\ s \notin shut /\ holder' = [holder EXCEPT ![s] = {e}]
             /\ next' = [next EXCEPT ![s] = next[s] + 1] /\ live' = [live EXCEPT ![s] = next[s] + 1]
             /\ watchers' = watchers \cup {[by |-> e, sh |-> s, gen |-> next[s] + 1]}
             /\ ex' = [ex EXCEPT ![e].at = "armed", ![e].gen = next[s] + 1]
             /\ UNCHANGED firedGen
    BY <2>1, <2>2, <2>3, <2>5, ShArms_Inv
  <2> QED BY <1>3, <2>2, <2>4, <2>5 DEF EnterShell
<1> QED BY <1>1, <1>2, <1>3, ShAcquire_Inv, ShFire_Inv, ShDisarm_Inv, ShAfterRun_Inv DEF ShellNext

\* shell.go, session_container.go and execInSession of agent.go: a cancellation
\* stops the command it was sent for and no other, a command runs once however
\* its shell fails, and no shell is left over when every request has ended.
THEOREM ShellsKeepTheirOwn ==
  ShellSpec => [](CancelHitsItsOwn /\ RunsAtMostOnce /\ NoShellLeaks)
<1>1. ShInv => CancelHitsItsOwn /\ RunsAtMostOnce
  BY DEF ShInv, ShHolds, ShIn, ShCounts, CancelHitsItsOwn, RunsAtMostOnce
<1>2. ShInv => NoShellLeaks
  BY DEF ShInv, ShKept, ShUsed, ShIn, NoShellLeaks
<1> QED BY <1>1, <1>2, ShInit_Inv, ShNext_Inv, PTL DEF ShellSpec

----------------------------------------------------------------------------
(* AgentProcess *)

PrLive == {"boot", "bootManaged", "locked", "lockedManaged", "serving"}
PrClosing == {"closing", "unlocking"}
PrHolding == {"locked", "lockedManaged", "serving"} \union PrClosing
PrManaged == {"bootManaged", "lockedManaged"}
PrStates == {"free", "other"} \union PrLive \union PrClosing

PrAts == {"idle", "start", "spawn", "record", "stop", "signal", "await", "unrecord", "plan", "swap", "helper", "replaced", "done"}
PrCommand == [op : {"none", "start", "stop", "update"}, at : PrAts, pid : SUBSET PrPids,
              plan : {"none", "detached", "managed"}, ok : BOOLEAN]

PrTyped ==
  /\ prProc \in [PrPids -> PrStates] /\ prCall \in [PrCalls -> PrCommand]
  /\ prLock \subseteq PrPids /\ prPidFile \subseteq PrPids /\ prMark \subseteq PrPids
  /\ prSup \in [on : BOOLEAN, child : SUBSET PrPids] /\ prStopped \in BOOLEAN /\ prAsked \in BOOLEAN

\* The lock is held by exactly the agents that took it and have not let it go.
PrLockHeld == \A p \in PrPids : p \in prLock <=> prProc[p] \in PrHolding

\* What was launched by a supervisor, or planned because of one, has one.
PrSupervised ==
  /\ prMark # {} => prSup.on
  /\ \A p \in PrPids : prProc[p] \in PrManaged => prSup.on
  /\ \A p \in prSup.child : PrAgent(p)
  /\ \A c \in PrCalls : prCall[c].plan = "managed" => prSup.on

\* An update that stops or signals has planned to start again; only a start
\* and such an update launch.
PrPlanned(q) ==
  /\ q.plan # "none" => q.op = "update"
  /\ q.at \in {"stop", "signal", "await", "unrecord"} => q.op = "stop" \/ q.plan = "detached"
  /\ q.at \in {"start", "spawn", "record"} => q.op = "start" \/ q.plan # "none"
  /\ q.at \in {"idle", "plan"} => q.plan = "none"
  /\ q.at = "plan" => q.op = "update"

PrLaunched ==
  ~prAsked => /\ \A p \in PrPids : ~PrAgent(p)
              /\ ~prSup.on
              /\ \A c \in PrCalls : prCall[c].op # "start" /\ prCall[c].plan = "none"

PrFailed(q) == q.plan # "none" /\ q.at = "done" /\ ~q.ok
PrAwaits(q) == q.op = "update" /\ q.at = "await"
PrRestarts(q) == q.plan = "detached" /\ q.at \in {"await", "unrecord", "swap", "start", "spawn"}

PrExcused == prStopped \/ prSup.on \/ \E c \in PrCalls : PrFailed(prCall[c])

\* An agent on its way out was stopped, has a supervisor, or an update waits for it ...
PrGoing == \A p \in PrPids : prProc[p] \in PrClosing => PrExcused \/ \E c \in PrCalls : PrAwaits(prCall[c])

\* ... and once an update interrupts one, there is an agent or an update that will start it.
PrBack ==
  (\E c \in PrCalls : prCall[c].plan # "none") =>
    PrExcused \/ (\E p \in PrPids : prProc[p] \in PrLive) \/ \E c \in PrCalls : PrRestarts(prCall[c])

PrInv ==
  /\ PrTyped /\ PrLockHeld /\ PrSupervised /\ PrLaunched /\ PrGoing /\ PrBack
  /\ \A c \in PrCalls : PrPlanned(prCall[c])

LEMMA PrInit_Inv == PrInit => PrInv
<1> SUFFICES ASSUME PrInit PROVE PrInv
  OBVIOUS
<1>1. /\ prProc \in [PrPids -> {"free", "other"}] /\ prLock = {} /\ prMark = {} /\ prPidFile \subseteq PrPids
      /\ prSup = [on |-> FALSE, child |-> {}] /\ prCall = [c \in PrCalls |-> PrIdle]
      /\ prStopped = FALSE /\ prAsked = FALSE
  BY DEF PrInit
<1>2. PrIdle \in PrCommand /\ PrIdle.plan = "none" /\ PrIdle.at = "idle" /\ PrIdle.op = "none"
  BY DEF PrIdle, PrCommand, PrAts
<1>3. PrTyped
  BY <1>1, <1>2 DEF PrTyped, PrStates
<1>4. PrLockHeld
  BY <1>1 DEF PrLockHeld, PrHolding, PrClosing
<1>5. PrSupervised
  BY <1>1, <1>2 DEF PrSupervised, PrManaged
<1>6. PrLaunched
  BY <1>1, <1>2 DEF PrLaunched, PrAgent
<1>7. PrGoing /\ PrBack
  BY <1>1, <1>2 DEF PrGoing, PrBack, PrClosing
<1>8. \A c \in PrCalls : PrPlanned(prCall[c])
  BY <1>1, <1>2 DEF PrPlanned
<1> QED BY <1>3, <1>4, <1>5, <1>6, <1>7, <1>8 DEF PrInv

\* What the commands become.
LEMMA PrAtIs ==
  ASSUME PrTyped, NEW c \in PrCalls, NEW at \in PrAts
  PROVE  \E z \in PrCommand : /\ PrAt(c, at) = [prCall EXCEPT ![c] = z]
                              /\ z.at = at /\ z.op = prCall[c].op /\ z.plan = prCall[c].plan /\ z.ok = prCall[c].ok
<1>1. prCall[c] \in PrCommand
  BY DEF PrTyped
<1>2. PICK z : z = [prCall[c] EXCEPT !.at = at]
  OBVIOUS
<1>3. z \in PrCommand /\ z.at = at /\ z.op = prCall[c].op /\ z.plan = prCall[c].plan /\ z.ok = prCall[c].ok
  BY <1>1, <1>2 DEF PrCommand
<1>4. PrAt(c, at) = [prCall EXCEPT ![c] = z]
  BY <1>2 DEF PrAt
<1> QED BY <1>3, <1>4

LEMMA PrEndIs ==
  ASSUME PrTyped, NEW c \in PrCalls, NEW ok \in BOOLEAN
  PROVE  \E z \in PrCommand : /\ PrEnd(c, ok) = [prCall EXCEPT ![c] = z]
                              /\ z.at = "done" /\ z.op = prCall[c].op /\ z.plan = prCall[c].plan /\ z.ok = ok
<1>1. prCall[c] \in PrCommand
  BY DEF PrTyped
<1>2. PICK z : z = [prCall[c] EXCEPT !.at = "done", !.ok = ok, !.pid = {}]
  OBVIOUS
<1>3. z \in PrCommand /\ z.at = "done" /\ z.op = prCall[c].op /\ z.plan = prCall[c].plan /\ z.ok = ok
  BY <1>1, <1>2 DEF PrCommand, PrAts
<1>4. PrEnd(c, ok) = [prCall EXCEPT ![c] = z]
  BY <1>2 DEF PrEnd
<1> QED BY <1>3, <1>4

\* A step of one command that starts and ends no agent.
LEMMA PrCallStep ==
  ASSUME PrInv, NEW c \in PrCalls, NEW z \in PrCommand, prCall' = [prCall EXCEPT ![c] = z],
         UNCHANGED <<prProc, prLock, prMark, prSup, prStopped, prAsked>>, prPidFile' \subseteq PrPids,
         z.op = prCall[c].op, z.plan = prCall[c].plan, PrPlanned(z),
         PrFailed(prCall[c]) => PrFailed(z),
         PrAwaits(prCall[c]) => PrFailed(z) \/ prLock = {},
         PrRestarts(prCall[c]) => PrRestarts(z) \/ PrFailed(z) \/ prLock # {}
  PROVE  PrInv'
<1>1. /\ prCall' \in [PrCalls -> PrCommand] /\ prCall'[c] = z
      /\ \A d \in PrCalls : d # c => prCall'[d] = prCall[d]
  BY DEF PrInv, PrTyped
<1>2. PrTyped' /\ PrLockHeld'
  BY <1>1 DEF PrInv, PrTyped, PrLockHeld
<1>3. PrSupervised' /\ PrLaunched'
  BY <1>1 DEF PrInv, PrSupervised, PrLaunched, PrAgent
<1>4. \A d \in PrCalls : PrPlanned(prCall'[d])
  BY <1>1 DEF PrInv
<1>5. PrExcused => PrExcused'
  BY <1>1 DEF PrExcused
<1>6. PrFailed(z) => PrExcused'
  BY <1>1 DEF PrExcused
<1>7. PrGoing'
  <2> SUFFICES ASSUME NEW p \in PrPids, prProc[p] \in PrClosing PROVE PrExcused' \/ \E d \in PrCalls : PrAwaits(prCall'[d])
    BY DEF PrGoing
  <2>1. prLock # {}
    BY DEF PrInv, PrLockHeld, PrHolding
  <2> QED BY <1>1, <1>5, <1>6, <2>1 DEF PrInv, PrGoing
<1>8. PrBack'
  <2> SUFFICES ASSUME \E d \in PrCalls : prCall'[d].plan # "none"
               PROVE  PrExcused' \/ (\E p \in PrPids : prProc'[p] \in PrLive) \/ \E d \in PrCalls : PrRestarts(prCall'[d])
    BY DEF PrBack
  <2>1. CASE prLock # {}
    <3>1. PICK p \in PrPids : prProc[p] \in PrHolding
      BY <2>1 DEF PrInv, PrTyped, PrLockHeld
    <3>2. \A d \in PrCalls : PrAwaits(prCall'[d]) => PrRestarts(prCall'[d])
      BY <1>4 DEF PrAwaits, PrRestarts, PrPlanned
    <3> QED BY <1>7, <3>1, <3>2 DEF PrGoing, PrHolding, PrLive
  <2>2. CASE prLock = {}
    <3>1. \E d \in PrCalls : prCall[d].plan # "none"
      BY <1>1
    <3> QED BY <1>1, <1>5, <1>6, <2>2, <3>1 DEF PrInv, PrBack
  <2> QED BY <2>1, <2>2
<1> QED BY <1>2, <1>3, <1>4, <1>7, <1>8 DEF PrInv

\* The commands' steps that are such.
LEMMA PrCalls_Inv ==
  ASSUME PrInv, NEW c \in PrCalls,
         PrStart(c) \/ PrRecord(c) \/ PrStop(c) \/ PrAwait(c) \/ PrUnrecord(c) \/ PrSwap(c) \/ PrAwaitReplaced(c)
  PROVE  PrInv'
<1>0. PrTyped /\ prCall[c] \in PrCommand /\ PrPlanned(prCall[c]) /\ PrSwept \subseteq PrPids
  BY DEF PrInv, PrTyped, PrSwept
<1>1. UNCHANGED <<prProc, prLock, prMark, prSup, prStopped, prAsked>>
  BY DEF PrStart, PrRecord, PrStop, PrAwait, PrUnrecord, PrSwap, PrAwaitReplaced, prFiles, prHistory
<1>2. prPidFile' \subseteq PrPids
  BY <1>0 DEF PrStart, PrRecord, PrStop, PrAwait, PrUnrecord, PrSwap, PrAwaitReplaced, prFiles, PrTyped, PrCommand
<1>s. /\ PrFailed(prCall[c]) => prCall[c].at = "done"
      /\ PrAwaits(prCall[c]) => prCall[c].at = "await"
  BY DEF PrFailed, PrAwaits
<1>3. ASSUME NEW at \in PrAts, prCall' = PrAt(c, at), prCall[c].at \notin {"await", "done"},
             prCall[c].at \in {"start", "swap", "unrecord"} /\ prCall[c].plan = "detached"
               => at \in {"await", "unrecord", "swap", "start", "spawn"},
             prCall[c].at \notin {"spawn"},
             at \in {"signal", "unrecord"} => prCall[c].op = "stop" \/ prCall[c].plan = "detached",
             at \in {"start", "spawn"} => prCall[c].op = "start" \/ prCall[c].plan # "none",
             at \notin {"idle", "plan", "stop", "await", "record"}
      PROVE  PrInv'
  <2>1. PICK z \in PrCommand : /\ prCall' = [prCall EXCEPT ![c] = z]
                               /\ z.at = at /\ z.op = prCall[c].op /\ z.plan = prCall[c].plan
    BY <1>0, <1>3, PrAtIs
  <2>2. PrPlanned(z)
    BY <1>0, <1>3, <2>1 DEF PrPlanned
  <2>3. PrRestarts(prCall[c]) => PrRestarts(z)
    BY <1>3, <2>1 DEF PrRestarts
  <2> QED BY <1>1, <1>2, <1>3, <1>s, <2>1, <2>2, <2>3, PrCallStep
<1>4. ASSUME NEW ok \in BOOLEAN, prCall' = PrEnd(c, ok), prCall[c].at # "done",
             prCall[c].at = "await" => ~ok,
             PrRestarts(prCall[c]) => ~ok \/ prLock # {}
      PROVE  PrInv'
  <2>1. PICK z \in PrCommand : /\ prCall' = [prCall EXCEPT ![c] = z]
                               /\ z.at = "done" /\ z.op = prCall[c].op /\ z.plan = prCall[c].plan /\ z.ok = ok
    BY <1>0, <1>4, PrEndIs
  <2>2. PrPlanned(z)
    BY <1>0, <2>1 DEF PrPlanned
  <2>3. z.plan # "none" /\ ~ok => PrFailed(z)
    BY <2>1 DEF PrFailed
  <2>4. /\ PrRestarts(prCall[c]) => z.plan # "none"
        /\ PrAwaits(prCall[c]) => z.plan # "none"
    BY <1>0, <2>1 DEF PrRestarts, PrAwaits, PrPlanned
  <2> QED BY <1>1, <1>2, <1>4, <1>s, <2>1, <2>2, <2>3, <2>4, PrCallStep
<1>5. CASE PrStart(c)
  <2>1. CASE prLock # {}
    BY <1>4, <1>5, <2>1 DEF PrStart, PrRunning
  <2>2. CASE prLock = {}
    BY <1>0, <1>3, <1>5, <2>2 DEF PrStart, PrRunning, PrPlanned, PrAts
  <2> QED BY <2>1, <2>2
<1>6. CASE PrRecord(c)
  BY <1>4, <1>6 DEF PrRecord, PrRestarts
<1>7. CASE PrStop(c)
  <2>0. prCall[c].at = "stop" /\ (prCall[c].op = "update" => prCall[c].plan = "detached")
    BY <1>0, <1>7 DEF PrStop, PrPlanned
  <2>1. CASE ~PrRunning \/ prPidFile = {}
    <3>1. prCall' = PrAfterStop(c)
      BY <1>7, <2>1 DEF PrStop
    <3>2. CASE prCall[c].op = "update"
      BY <1>3, <2>0, <3>1, <3>2 DEF PrAfterStop, PrAts
    <3>3. CASE prCall[c].op # "update"
      BY <1>4, <2>0, <3>1, <3>3 DEF PrAfterStop, PrRestarts
    <3> QED BY <3>2, <3>3
  <2>2. CASE ~(~PrRunning \/ prPidFile = {})
    <3>1. PICK z : z = [prCall[c] EXCEPT !.at = "signal", !.pid = prPidFile]
      OBVIOUS
    <3>2. prCall' = [prCall EXCEPT ![c] = z]
      BY <1>7, <2>2, <3>1 DEF PrStop
    <3>3. z \in PrCommand /\ z.at = "signal" /\ z.op = prCall[c].op /\ z.plan = prCall[c].plan
      BY <1>0, <3>1 DEF PrCommand, PrAts, PrTyped
    <3>4. PrPlanned(z)
      BY <1>0, <2>0, <3>3 DEF PrPlanned
    <3>5. ~PrRestarts(prCall[c])
      BY <2>0 DEF PrRestarts
    <3> QED BY <1>1, <1>2, <1>s, <2>0, <3>2, <3>3, <3>4, <3>5, PrCallStep
  <2> QED BY <2>1, <2>2
<1>8. CASE PrAwait(c)
  <2>1. CASE prLock = {}
    <3>0. prCall' = PrAt(c, "unrecord") /\ "unrecord" \in PrAts
      BY <1>8, <2>1 DEF PrAwait, PrReleased, PrAts
    <3>1. PICK z \in PrCommand : /\ prCall' = [prCall EXCEPT ![c] = z]
                                 /\ z.at = "unrecord" /\ z.op = prCall[c].op /\ z.plan = prCall[c].plan
      BY <1>0, <3>0, PrAtIs
    <3>2. PrPlanned(z) /\ (PrRestarts(prCall[c]) => PrRestarts(z))
      BY <1>0, <1>8, <3>1 DEF PrPlanned, PrRestarts, PrAwait
    <3>3. ~PrFailed(prCall[c])
      BY <1>8 DEF PrAwait, PrFailed
    <3> QED BY <1>1, <1>2, <2>1, <3>1, <3>2, <3>3, PrCallStep
  <2>2. CASE prLock # {}
    BY <1>4, <1>8, <2>2 DEF PrAwait, PrReleased
  <2> QED BY <2>1, <2>2
<1>9. CASE PrUnrecord(c)
  <2>1. prCall[c].at = "unrecord" /\ prCall' = PrAfterStop(c)
    BY <1>9 DEF PrUnrecord
  <2>2. CASE prCall[c].op = "update"
    BY <1>3, <2>1, <2>2 DEF PrAfterStop, PrAts
  <2>3. CASE prCall[c].op # "update"
    <3>1. prCall[c].plan = "none"
      BY <1>0, <2>3 DEF PrPlanned
    <3> QED BY <1>4, <2>1, <2>3, <3>1 DEF PrAfterStop, PrRestarts
  <2> QED BY <2>2, <2>3
<1>10. CASE PrSwap(c)
  <2>1. prCall[c].at = "swap"
    BY <1>10 DEF PrSwap
  <2>2. CASE prCall[c].plan = "detached"
    <3>1. prCall' = PrAt(c, "start")
      BY <1>10, <2>2 DEF PrSwap
    <3> QED BY <1>3, <2>1, <2>2, <3>1 DEF PrAts
  <2>3. CASE prCall[c].plan = "managed"
    <3>1. prCall' = PrAt(c, "helper")
      BY <1>10, <2>3 DEF PrSwap
    <3> QED BY <1>3, <2>1, <2>3, <3>1 DEF PrAts
  <2>4. CASE prCall[c].plan \notin {"detached", "managed"}
    <3>1. prCall' = PrEnd(c, TRUE)
      BY <1>10, <2>4 DEF PrSwap
    <3> QED BY <1>4, <2>1, <2>4, <3>1 DEF PrRestarts
  <2> QED BY <2>2, <2>3, <2>4
<1>11. CASE PrAwaitReplaced(c)
  BY <1>4, <1>11 DEF PrAwaitReplaced, PrRestarts
<1> QED BY <1>5, <1>6, <1>7, <1>8, <1>9, <1>10, <1>11

\* A step of one process, outside the commands.
LEMMA PrProcStep ==
  ASSUME PrInv, NEW p \in PrPids, NEW s \in PrStates, prProc' = [prProc EXCEPT ![p] = s],
         UNCHANGED <<prCall, prAsked>>, prPidFile' \subseteq PrPids, prMark' \subseteq PrPids,
         prLock' = (IF s \in PrHolding THEN prLock \union {p} ELSE prLock \ {p}),
         prSup' \in [on : BOOLEAN, child : SUBSET PrPids], prSup'.on = prSup.on,
         \A q \in prSup'.child : (q # p /\ q \in prSup.child) \/ (q = p /\ s \notin {"free", "other"}),
         prStopped' \in BOOLEAN, prStopped => prStopped',
         prMark' # {} => prSup.on, s \in PrManaged => prSup.on,
         s \notin {"free", "other"} => prAsked,
         s \in PrClosing => prProc[p] \in PrClosing,
         prProc[p] \in PrLive /\ s \notin PrLive => prStopped' \/ (prLock # {} /\ p \notin prLock)
  PROVE  PrInv'
<1>1. prProc' \in [PrPids -> PrStates] /\ prProc'[p] = s /\ \A q \in PrPids : q # p => prProc'[q] = prProc[q]
  BY DEF PrInv, PrTyped
<1>2. PrTyped'
  BY <1>1 DEF PrInv, PrTyped
<1>3. PrLockHeld'
  BY <1>1 DEF PrInv, PrLockHeld
<1>4. PrSupervised'
  BY <1>1, <1>2 DEF PrInv, PrSupervised, PrAgent, PrTyped
<1>5. PrLaunched'
  BY <1>1 DEF PrInv, PrLaunched, PrAgent
<1>6. PrExcused => PrExcused'
  BY DEF PrExcused
<1>7. PrGoing'
  BY <1>1, <1>6 DEF PrInv, PrGoing
<1>8. \A c \in PrCalls : PrPlanned(prCall'[c])
  BY DEF PrInv
<1>9. PrBack'
  <2> SUFFICES ASSUME \E d \in PrCalls : prCall[d].plan # "none"
               PROVE  PrExcused' \/ (\E q \in PrPids : prProc'[q] \in PrLive) \/ \E d \in PrCalls : PrRestarts(prCall[d])
    BY DEF PrBack
  <2>1. CASE prProc[p] \in PrLive /\ s \notin PrLive
    <3>1. CASE prStopped'
      BY <3>1 DEF PrExcused
    <3>2. CASE prLock # {} /\ p \notin prLock
      <4>1. PICK q \in PrPids : q \in prLock /\ q # p /\ prProc[q] \in PrHolding
        BY <3>2 DEF PrInv, PrTyped, PrLockHeld
      <4>2. \A d \in PrCalls : PrAwaits(prCall[d]) => PrRestarts(prCall[d])
        BY DEF PrInv, PrAwaits, PrRestarts, PrPlanned
      <4>3. prProc'[q] = prProc[q]
        BY <1>1, <4>1
      <4> QED BY <1>6, <4>1, <4>2, <4>3 DEF PrInv, PrGoing, PrHolding, PrLive
    <3> QED BY <2>1, <3>1, <3>2
  <2>2. CASE prProc[p] \notin PrLive \/ s \in PrLive
    <3>1. (\E q \in PrPids : prProc[q] \in PrLive) => \E q \in PrPids : prProc'[q] \in PrLive
      BY <1>1, <2>2
    <3> QED BY <1>6, <3>1 DEF PrInv, PrBack
  <2> QED BY <2>1, <2>2
<1> QED BY <1>2, <1>3, <1>4, <1>5, <1>7, <1>8, <1>9 DEF PrInv

LEMMA PrProcs_Inv ==
  ASSUME PrInv, NEW p \in PrPids,
         \/ PrTakesLock(p) \/ PrGivesUp(p) \/ PrRegisters(p) \/ PrCleansUp(p) \/ PrExits(p)
         \/ PrHandsOver(p) \/ PrKill(p) \/ PrReused(p) \/ PrSupSpawns(p)
  PROVE  PrInv'
<1>0. /\ prProc \in [PrPids -> PrStates] /\ prLock \subseteq PrPids /\ prPidFile \subseteq PrPids /\ prMark \subseteq PrPids
      /\ prSup \in [on : BOOLEAN, child : SUBSET PrPids] /\ prStopped \in BOOLEAN
      /\ prSup.child \subseteq PrPids /\ (p \in prLock <=> prProc[p] \in PrHolding)
  BY DEF PrInv, PrTyped, PrLockHeld
<1>1. /\ PrAgent(p) => prAsked
      /\ prMark # {} => prSup.on
      /\ prProc[p] \in PrManaged => prSup.on
      /\ prSup.on => prAsked
      /\ \A q \in prSup.child : PrAgent(q)
  BY DEF PrInv, PrLaunched, PrSupervised
<1>2. PICK gone : gone = [prSup EXCEPT !.child = @ \ {p}]
  OBVIOUS
<1>3. /\ gone \in [on : BOOLEAN, child : SUBSET PrPids] /\ gone.on = prSup.on
      /\ \A q \in gone.child : q # p /\ q \in prSup.child
  BY <1>0, <1>2
<1>4. CASE PrTakesLock(p)
  <2>1. PICK s : s = IF prProc[p] = "boot" THEN "locked" ELSE "lockedManaged"
    OBVIOUS
  <2>2. /\ prProc' = [prProc EXCEPT ![p] = s] /\ prLock' = prLock \union {p} /\ s \in PrStates /\ s \in PrHolding
        /\ s \in PrLive /\ s \notin PrClosing /\ (s \in PrManaged => prProc[p] \in PrManaged) /\ s \notin {"free", "other"}
        /\ PrAgent(p)
    BY <1>4, <2>1 DEF PrTakesLock, PrBooting, PrStates, PrLive, PrHolding, PrClosing, PrManaged, PrAgent
  <2>3. UNCHANGED <<prCall, prAsked, prPidFile, prMark, prSup, prStopped>>
    BY <1>4 DEF PrTakesLock, prHistory
  <2>4. \A q \in prSup'.child : (q # p /\ q \in prSup.child) \/ (q = p /\ s \notin {"free", "other"})
    BY <2>2, <2>3
  <2> QED BY <1>0, <1>1, <2>2, <2>3, <2>4, PrProcStep
<1>5. CASE PrGivesUp(p)
  <2>1. /\ prProc' = [prProc EXCEPT ![p] = "free"] /\ prSup' = gone /\ prLock # {} /\ prProc[p] \in {"boot", "bootManaged"}
        /\ UNCHANGED <<prCall, prAsked, prPidFile, prMark, prLock, prStopped>>
    BY <1>2, <1>5 DEF PrGivesUp, PrBooting, prFiles, prHistory
  <2>2. "free" \in PrStates /\ "free" \notin PrHolding /\ "free" \notin PrLive /\ "free" \notin PrManaged /\ "free" \notin PrClosing
        /\ p \notin prLock
    BY <1>0, <2>1 DEF PrStates, PrHolding, PrLive, PrManaged, PrClosing
  <2>3. prLock' = prLock \ {p}
    BY <2>1, <2>2
  <2> QED BY <1>0, <1>1, <1>3, <2>1, <2>2, <2>3, PrProcStep
<1>6. CASE PrRegisters(p)
  <2>1. /\ prProc' = [prProc EXCEPT ![p] = "serving"] /\ prPidFile' = {p} /\ prMark' \subseteq {p}
        /\ prMark' # {} => prProc[p] = "lockedManaged"
        /\ UNCHANGED <<prCall, prAsked, prSup, prLock, prStopped>> /\ prProc[p] \in {"locked", "lockedManaged"}
    BY <1>6 DEF PrRegisters, prHistory
  <2>2. /\ "serving" \in PrStates /\ "serving" \in PrHolding /\ "serving" \in PrLive /\ "serving" \notin PrManaged
        /\ "serving" \notin PrClosing /\ p \in prLock /\ PrAgent(p) /\ (prMark' # {} => prSup.on)
    BY <1>0, <1>1, <2>1 DEF PrStates, PrHolding, PrLive, PrManaged, PrClosing, PrAgent
  <2>3. prLock' = prLock \union {p} /\ prPidFile' \subseteq PrPids /\ prMark' \subseteq PrPids
    BY <2>1, <2>2
  <2>4. \A q \in prSup'.child : (q # p /\ q \in prSup.child) \/ (q = p /\ "serving" \notin {"free", "other"})
    BY <2>1
  <2> QED BY <1>0, <1>1, <2>1, <2>2, <2>3, <2>4, PrProcStep
<1>7. CASE PrCleansUp(p)
  <2>1. /\ prProc' = [prProc EXCEPT ![p] = "unlocking"] /\ prPidFile' = {} /\ prMark' \subseteq prMark
        /\ UNCHANGED <<prCall, prAsked, prSup, prLock, prStopped>> /\ prProc[p] = "closing"
    BY <1>7 DEF PrCleansUp, prHistory
  <2>2. /\ "unlocking" \in PrStates /\ "unlocking" \in PrHolding /\ "unlocking" \in PrClosing /\ "unlocking" \notin PrManaged
        /\ p \in prLock /\ PrAgent(p) /\ (prMark' # {} => prSup.on) /\ prProc[p] \in PrClosing /\ prProc[p] \notin PrLive
    BY <1>0, <1>1, <2>1 DEF PrStates, PrHolding, PrLive, PrManaged, PrClosing, PrAgent
  <2>3. prLock' = prLock \union {p} /\ prPidFile' \subseteq PrPids /\ prMark' \subseteq PrPids
    BY <1>0, <2>1, <2>2
  <2>4. \A q \in prSup'.child : (q # p /\ q \in prSup.child) \/ (q = p /\ "unlocking" \notin {"free", "other"})
    BY <2>1
  <2> QED BY <1>0, <1>1, <2>1, <2>2, <2>3, <2>4, PrProcStep
<1>8. CASE PrExits(p) \/ PrKill(p)
  <2>1. /\ prProc' = [prProc EXCEPT ![p] = "free"] /\ prSup' = gone /\ prLock' = prLock \ {p}
        /\ UNCHANGED <<prCall, prAsked, prPidFile, prMark>>
        /\ ((prStopped' = prStopped /\ prProc[p] = "unlocking") \/ prStopped' = TRUE)
    BY <1>2, <1>8 DEF PrExits, PrKill, prHistory
  <2>2. "free" \in PrStates /\ "free" \notin PrHolding /\ "free" \notin PrLive /\ "free" \notin PrManaged /\ "free" \notin PrClosing
        /\ (prProc[p] \in PrLive => prStopped') /\ prStopped' \in BOOLEAN /\ (prStopped => prStopped')
    BY <1>0, <2>1 DEF PrStates, PrHolding, PrLive, PrManaged, PrClosing
  <2> QED BY <1>0, <1>1, <1>3, <2>1, <2>2, PrProcStep
<1>9. CASE PrHandsOver(p)
  <2>1. PICK s : s = IF p \in prMark THEN "bootManaged" ELSE "boot"
    OBVIOUS
  <2>2. /\ prProc' = [prProc EXCEPT ![p] = s] /\ prLock' = prLock \ {p} /\ prProc[p] = "serving"
        /\ UNCHANGED <<prCall, prAsked, prPidFile, prMark, prSup, prStopped>>
    BY <1>9, <2>1 DEF PrHandsOver
  <2>3. /\ s \in PrStates /\ s \notin PrHolding /\ s \in PrLive /\ s \notin PrClosing /\ s \notin {"free", "other"}
        /\ PrAgent(p) /\ (s \in PrManaged => prSup.on)
    BY <1>1, <2>1, <2>2 DEF PrStates, PrLive, PrHolding, PrClosing, PrManaged, PrAgent
  <2>4. \A q \in prSup'.child : (q # p /\ q \in prSup.child) \/ (q = p /\ s \notin {"free", "other"})
    BY <2>2, <2>3
  <2> QED BY <1>0, <1>1, <2>2, <2>3, <2>4, PrProcStep
<1>10. CASE PrReused(p)
  <2>1. PICK s \in {"free", "other"} : prProc' = [prProc EXCEPT ![p] = s]
    BY <1>10 DEF PrReused
  <2>2. prProc[p] \in {"free", "other"} /\ UNCHANGED <<prCall, prAsked, prPidFile, prMark, prSup, prLock, prStopped>>
    BY <1>10 DEF PrReused, prFiles, prHistory
  <2>3. /\ s \in PrStates /\ s \notin PrHolding /\ s \notin PrManaged /\ s \notin PrClosing
        /\ prProc[p] \notin PrLive /\ p \notin prLock /\ ~PrAgent(p)
    BY <1>0, <2>2 DEF PrStates, PrLive, PrHolding, PrClosing, PrManaged, PrAgent
  <2>4. \A q \in prSup'.child : (q # p /\ q \in prSup.child) \/ (q = p /\ s \notin {"free", "other"})
    BY <1>1, <2>2, <2>3
  <2>5. prLock' = prLock \ {p}
    BY <2>2, <2>3
  <2> QED BY <1>0, <1>1, <2>1, <2>2, <2>3, <2>4, <2>5, PrProcStep
<1>11. CASE PrSupSpawns(p)
  <2>1. /\ prProc' = [prProc EXCEPT ![p] = "bootManaged"] /\ prProc[p] = "free" /\ prSup.on
        /\ UNCHANGED <<prCall, prAsked, prPidFile, prMark, prLock, prStopped>>
    BY <1>11 DEF PrSupSpawns, PrBoot, prFiles, prHistory
  <2>2. prSup' \in [on : BOOLEAN, child : SUBSET PrPids] /\ prSup'.on = prSup.on /\ prSup'.child = {p}
    BY <1>0, <1>11 DEF PrSupSpawns
  <2>3. /\ "bootManaged" \in PrStates /\ "bootManaged" \notin PrHolding /\ "bootManaged" \in PrLive
        /\ "bootManaged" \notin PrClosing /\ p \notin prLock
    BY <1>0, <2>1 DEF PrStates, PrLive, PrHolding, PrClosing
  <2>4. prLock' = prLock \ {p}
    BY <2>1, <2>3
  <2>5. \A q \in prSup'.child : (q # p /\ q \in prSup.child) \/ (q = p /\ "bootManaged" \notin {"free", "other"})
    BY <2>2
  <2> QED BY <1>0, <1>1, <2>1, <2>2, <2>3, <2>4, <2>5, PrProcStep
<1> QED BY <1>4, <1>5, <1>6, <1>7, <1>8, <1>9, <1>10, <1>11

\* What is left of the commands: a start launches an agent ...
LEMMA PrSpawn_Inv == ASSUME PrInv, NEW c \in PrCalls, PrSpawn(c) PROVE PrInv'
<1>0. PrTyped /\ PrLockHeld /\ PrSupervised /\ PrLaunched /\ PrPlanned(prCall[c]) /\ prCall[c] \in PrCommand
  BY DEF PrInv, PrTyped
<1>1. PICK p \in PrPids : PrBoot(p, FALSE) /\ prCall' = [prCall EXCEPT ![c] = [@ EXCEPT !.at = "record", !.pid = {p}]]
  BY DEF PrSpawn
<1>2. PICK z : z = [prCall[c] EXCEPT !.at = "record", !.pid = {p}]
  OBVIOUS
<1>3. /\ prCall' = [prCall EXCEPT ![c] = z] /\ z \in PrCommand /\ z.at = "record"
      /\ z.op = prCall[c].op /\ z.plan = prCall[c].plan
  BY <1>0, <1>1, <1>2 DEF PrCommand, PrAts
<1>4. /\ prCall' \in [PrCalls -> PrCommand] /\ prCall'[c] = z
      /\ \A d \in PrCalls : d # c => prCall'[d] = prCall[d]
  BY <1>0, <1>3 DEF PrTyped
<1>5. /\ prCall[c].at = "spawn" /\ prProc[p] = "free" /\ prProc' = [prProc EXCEPT ![p] = "boot"]
      /\ UNCHANGED <<prLock, prPidFile, prMark, prSup, prStopped, prAsked>>
  BY <1>1 DEF PrSpawn, PrBoot, prFiles, prHistory
<1>6. prProc' \in [PrPids -> PrStates] /\ prProc'[p] = "boot" /\ \A q \in PrPids : q # p => prProc'[q] = prProc[q]
  BY <1>0, <1>5 DEF PrTyped, PrStates, PrLive
<1>7. prAsked
  BY <1>0, <1>5 DEF PrPlanned, PrLaunched
<1>8. PrTyped' /\ PrLaunched'
  BY <1>0, <1>4, <1>5, <1>6, <1>7 DEF PrTyped, PrLaunched
<1>9. PrLockHeld'
  BY <1>0, <1>5, <1>6 DEF PrLockHeld, PrHolding, PrClosing
<1>10. PrSupervised'
  BY <1>0, <1>3, <1>4, <1>5, <1>6 DEF PrSupervised, PrAgent, PrManaged, PrTyped
<1>11. \A d \in PrCalls : PrPlanned(prCall'[d])
  BY <1>0, <1>3, <1>4, <1>5 DEF PrInv, PrPlanned
<1>12. PrGoing'
  <2>1. ~PrAwaits(prCall[c]) /\ ~PrFailed(prCall[c])
    BY <1>5 DEF PrAwaits, PrFailed
  <2>2. PrExcused => PrExcused'
    BY <1>4, <1>5, <2>1 DEF PrExcused
  <2>3. "boot" \notin PrClosing
    BY DEF PrClosing
  <2> QED BY <1>4, <1>6, <2>1, <2>2, <2>3 DEF PrInv, PrGoing
<1>13. PrBack'
  BY <1>6 DEF PrBack, PrLive
<1> QED BY <1>8, <1>9, <1>10, <1>11, <1>12, <1>13 DEF PrInv

\* ... a stop or an update ends one, and is accounted for ...
LEMMA PrTerminated_Inv ==
  ASSUME PrInv, NEW p \in PrPids, PrTerminate(p), NEW c \in PrCalls, NEW z \in PrCommand,
         prCall' = [prCall EXCEPT ![c] = z], UNCHANGED <<prMark, prAsked, prPidFile>>,
         z.op = prCall[c].op, z.plan = prCall[c].plan, PrPlanned(z),
         prStopped' \in BOOLEAN, prStopped => prStopped',
         prStopped' \/ prSup.on \/ PrAwaits(z)
  PROVE  PrInv'
<1>0. PrTyped /\ PrLockHeld /\ PrSupervised /\ PrLaunched
  BY DEF PrInv
<1>1. /\ prCall' \in [PrCalls -> PrCommand] /\ prCall'[c] = z
      /\ \A d \in PrCalls : d # c => prCall'[d] = prCall[d]
  BY <1>0 DEF PrTyped
<1>2. PICK s : s = PrTerminated(p)[p]
  OBVIOUS
<1>3. prProc[p] \in PrStates
  BY <1>0 DEF PrTyped
<1>4. /\ prProc' = [prProc EXCEPT ![p] = s]
      /\ s \in {"free", "closing", "unlocking"}
      /\ s # "free" => prProc[p] \in PrHolding
  BY <1>0, <1>2, <1>3 DEF PrTerminate, PrTerminated, PrTyped, PrStates, PrLive, PrClosing, PrHolding
<1>5. prProc' \in [PrPids -> PrStates] /\ prProc'[p] = s /\ \A q \in PrPids : q # p => prProc'[q] = prProc[q]
  BY <1>0, <1>4 DEF PrTyped, PrStates, PrClosing
<1>6. PICK ended : /\ ended = IF s = "free" THEN {p} ELSE {}
                   /\ prLock' = prLock \ ended /\ prSup' = [prSup EXCEPT !.child = @ \ ended]
  BY <1>2 DEF PrTerminate
<1>7. prSup' \in [on : BOOLEAN, child : SUBSET PrPids] /\ prSup'.on = prSup.on /\ prSup'.child = prSup.child \ ended
  BY <1>0, <1>6 DEF PrTyped
<1>8. PrTyped'
  BY <1>0, <1>1, <1>5, <1>6, <1>7 DEF PrTyped
<1>9. PrLockHeld'
  BY <1>0, <1>4, <1>5, <1>6 DEF PrLockHeld, PrHolding, PrClosing
<1>10. PrSupervised'
  BY <1>0, <1>1, <1>4, <1>5, <1>6, <1>7 DEF PrSupervised, PrAgent, PrManaged, PrTyped
<1>11. PrLaunched'
  <2>1. ~PrAgent(p) => s = "free"
    BY <1>4 DEF PrAgent, PrHolding, PrClosing
  <2> QED BY <1>0, <1>1, <1>5, <1>7, <2>1 DEF PrLaunched, PrAgent
<1>12. \A d \in PrCalls : PrPlanned(prCall'[d])
  BY <1>1 DEF PrInv
<1>13. PrExcused' \/ PrAwaits(prCall'[c])
  BY <1>1, <1>7 DEF PrExcused
<1>14. PrGoing' /\ PrBack'
  <2>1. PrAwaits(prCall'[c]) => PrRestarts(prCall'[c])
    BY <1>12 DEF PrAwaits, PrRestarts, PrPlanned
  <2> QED BY <1>13, <2>1 DEF PrGoing, PrBack
<1> QED BY <1>8, <1>9, <1>10, <1>11, <1>12, <1>14 DEF PrInv

LEMMA PrSignals_Inv == ASSUME PrInv, NEW c \in PrCalls, PrSignal(c) \/ PrHelper(c) PROVE PrInv'
<1>0. PrTyped /\ PrPlanned(prCall[c]) /\ prCall[c] \in PrCommand /\ prStopped \in BOOLEAN /\ prPidFile \subseteq PrPids
  BY DEF PrInv, PrTyped
<1>1. CASE PrSignal(c)
  <2>0. prCall[c].at = "signal" /\ UNCHANGED <<prPidFile, prMark, prAsked>>
        /\ (prCall[c].op = "stop" \/ prCall[c].plan = "detached")
    BY <1>0, <1>1 DEF PrSignal, PrPlanned
  <2>1. PICK p \in prCall[c].pid :
          \/ PrTerminate(p) /\ prCall' = PrAt(c, "await") /\ prStopped' = (prStopped \/ prCall[c].op = "stop")
          \/ prCall' = PrEnd(c, FALSE) /\ UNCHANGED <<prProc, prLock, prSup, prStopped>>
    BY <1>1 DEF PrSignal
  <2>2. p \in PrPids
    BY <1>0 DEF PrCommand
  <2>3. CASE PrTerminate(p) /\ prCall' = PrAt(c, "await") /\ prStopped' = (prStopped \/ prCall[c].op = "stop")
    <3>0. "await" \in PrAts
      BY DEF PrAts
    <3>1. PICK z \in PrCommand : /\ prCall' = [prCall EXCEPT ![c] = z]
                                 /\ z.at = "await" /\ z.op = prCall[c].op /\ z.plan = prCall[c].plan
      BY <1>0, <2>3, <3>0, PrAtIs
    <3>2. PrPlanned(z)
      BY <1>0, <2>0, <3>1 DEF PrPlanned
    <3>3. prCall[c].op = "stop" \/ PrAwaits(z)
      BY <1>0, <2>0, <3>1 DEF PrAwaits, PrPlanned
    <3>4. prStopped' \in BOOLEAN /\ (prStopped => prStopped') /\ (prStopped' \/ PrAwaits(z))
      BY <1>0, <2>3, <3>3
    <3> QED BY <2>0, <2>2, <2>3, <3>1, <3>2, <3>4, PrTerminated_Inv
  <2>4. CASE prCall' = PrEnd(c, FALSE) /\ UNCHANGED <<prProc, prLock, prSup, prStopped>>
    <3>1. PICK z \in PrCommand : /\ prCall' = [prCall EXCEPT ![c] = z]
                                 /\ z.at = "done" /\ z.op = prCall[c].op /\ z.plan = prCall[c].plan /\ z.ok = FALSE
      BY <1>0, <2>4, PrEndIs
    <3>2. PrPlanned(z)
      BY <1>0, <3>1 DEF PrPlanned
    <3>3. ~PrFailed(prCall[c]) /\ ~PrAwaits(prCall[c]) /\ ~PrRestarts(prCall[c])
      BY <2>0 DEF PrFailed, PrAwaits, PrRestarts
    <3> QED BY <1>0, <2>0, <2>4, <3>1, <3>2, <3>3, PrCallStep
  <2> QED BY <2>1, <2>3, <2>4
<1>2. CASE PrHelper(c)
  <2>0. /\ prCall[c].at = "helper" /\ UNCHANGED <<prPidFile, prMark, prAsked, prStopped>>
        /\ prCall' = PrAt(c, "replaced") /\ "replaced" \in PrAts
    BY <1>2 DEF PrHelper, prHistory, PrAts
  <2>1. PICK z \in PrCommand : /\ prCall' = [prCall EXCEPT ![c] = z]
                               /\ z.at = "replaced" /\ z.op = prCall[c].op /\ z.plan = prCall[c].plan
    BY <1>0, <2>0, PrAtIs
  <2>2. PrPlanned(z)
    BY <1>0, <2>1 DEF PrPlanned
  <2>3. CASE PrRunning /\ prPidFile = prCall[c].pid /\ prMark = prCall[c].pid
    <3>1. PICK p \in prCall[c].pid : PrTerminate(p)
      BY <1>2, <2>3 DEF PrHelper
    <3>2. p \in PrPids /\ prSup.on
      BY <1>0, <2>3, <3>1 DEF PrInv, PrSupervised, PrCommand
    <3> QED BY <1>0, <2>0, <2>1, <2>2, <3>1, <3>2, PrTerminated_Inv
  <2>4. CASE ~(PrRunning /\ prPidFile = prCall[c].pid /\ prMark = prCall[c].pid)
    <3>1. UNCHANGED <<prProc, prLock, prSup>>
      BY <1>2, <2>4 DEF PrHelper
    <3>2. ~PrFailed(prCall[c]) /\ ~PrAwaits(prCall[c]) /\ ~PrRestarts(prCall[c])
      BY <2>0 DEF PrFailed, PrAwaits, PrRestarts
    <3> QED BY <1>0, <2>0, <2>1, <2>2, <3>1, <3>2, PrCallStep
  <2> QED BY <2>3, <2>4
<1> QED BY <1>1, <1>2

\* ... and an update plans from what the machine is.
LEMMA PrPlan_Inv == ASSUME PrInv, NEW c \in PrCalls, PrPlan(c) PROVE PrInv'
<1>0. /\ PrTyped /\ PrPlanned(prCall[c]) /\ prCall[c] \in PrCommand /\ PrSwept \subseteq PrPids
      /\ prCall[c].at = "plan" /\ prCall[c].op = "update" /\ prCall[c].plan = "none"
  BY DEF PrInv, PrTyped, PrSwept, PrPlan, PrPlanned
<1>1. UNCHANGED <<prProc, prLock, prMark, prSup, prStopped, prAsked>> /\ prPidFile' = PrSwept
  BY DEF PrPlan, prHistory
<1>s. ~PrFailed(prCall[c]) /\ ~PrAwaits(prCall[c]) /\ ~PrRestarts(prCall[c])
  BY <1>0 DEF PrFailed, PrAwaits, PrRestarts
<1>2. CASE prLock = {}
  <2>1. prCall' = PrAt(c, "swap") /\ "swap" \in PrAts
    BY <1>2 DEF PrPlan, PrRunning, PrAts
  <2>2. PICK z \in PrCommand : /\ prCall' = [prCall EXCEPT ![c] = z]
                               /\ z.at = "swap" /\ z.op = prCall[c].op /\ z.plan = prCall[c].plan
    BY <1>0, <2>1, PrAtIs
  <2>3. PrPlanned(z)
    BY <1>0, <2>2 DEF PrPlanned
  <2> QED BY <1>0, <1>1, <1>s, <2>2, <2>3, PrCallStep
<1>3. ASSUME NEW z \in PrCommand, prCall' = [prCall EXCEPT ![c] = z], prLock # {}, PrPlanned(z), z.op = "update",
             z.plan = "managed" => prSup.on
      PROVE  PrInv'
  <2>1. /\ prCall' \in [PrCalls -> PrCommand] /\ prCall'[c] = z
        /\ \A d \in PrCalls : d # c => prCall'[d] = prCall[d]
    BY <1>0, <1>3 DEF PrTyped
  <2>2. PrTyped' /\ PrLockHeld'
    BY <1>0, <1>1, <2>1 DEF PrInv, PrTyped, PrLockHeld
  <2>3. PrSupervised'
    BY <1>1, <1>3, <2>1 DEF PrInv, PrSupervised, PrAgent
  <2>4. \A d \in PrCalls : PrPlanned(prCall'[d])
    BY <1>3, <2>1 DEF PrInv
  <2>5. PICK p \in PrPids : prProc[p] \in PrHolding
    BY <1>3 DEF PrInv, PrTyped, PrLockHeld
  <2>6. PrLaunched'
    <3>1. PrAgent(p)
      BY <2>5 DEF PrAgent, PrHolding, PrClosing
    <3> QED BY <1>1, <3>1 DEF PrInv, PrLaunched
  <2>7. PrExcused => PrExcused'
    BY <1>1, <1>s, <2>1 DEF PrExcused
  <2>8. PrGoing'
    BY <1>1, <1>s, <2>1, <2>7 DEF PrInv, PrGoing
  <2>9. PrBack'
    <3>1. \A d \in PrCalls : PrAwaits(prCall'[d]) => PrRestarts(prCall'[d])
      BY <2>4 DEF PrAwaits, PrRestarts, PrPlanned
    <3> QED BY <1>1, <2>5, <2>8, <3>1 DEF PrGoing, PrBack, PrHolding, PrLive
  <2> QED BY <2>2, <2>3, <2>4, <2>6, <2>8, <2>9 DEF PrInv
<1>4. CASE prLock # {} /\ prPidFile # {} /\ prMark = prPidFile
  <2>1. PICK z : z = [prCall[c] EXCEPT !.at = "swap", !.plan = "managed", !.pid = prPidFile]
    OBVIOUS
  <2>2. prCall' = [prCall EXCEPT ![c] = z]
    BY <1>4, <2>1 DEF PrPlan, PrRunning
  <2>3. z \in PrCommand /\ z.at = "swap" /\ z.plan = "managed" /\ z.op = "update"
    BY <1>0, <2>1 DEF PrCommand, PrAts, PrTyped
  <2>4. PrPlanned(z) /\ prSup.on
    BY <1>4, <2>3 DEF PrPlanned, PrInv, PrSupervised
  <2> QED BY <1>3, <1>4, <2>2, <2>3, <2>4
<1>5. CASE prLock # {} /\ ~(prPidFile # {} /\ prMark = prPidFile)
  <2>1. PICK z : z = [prCall[c] EXCEPT !.at = "stop", !.plan = "detached"]
    OBVIOUS
  <2>2. prCall' = [prCall EXCEPT ![c] = z]
    BY <1>5, <2>1 DEF PrPlan, PrRunning
  <2>3. z \in PrCommand /\ z.at = "stop" /\ z.plan = "detached" /\ z.op = "update"
    BY <1>0, <2>1 DEF PrCommand, PrAts
  <2>4. PrPlanned(z)
    BY <2>3 DEF PrPlanned
  <2> QED BY <1>3, <1>5, <2>2, <2>3, <2>4
<1> QED BY <1>2, <1>4, <1>5

LEMMA PrRun_Inv == ASSUME PrInv, NEW c \in PrCalls, NEW op \in PrOps, PrRun(c, op) PROVE PrInv'
<1>0. /\ PrTyped /\ PrPlanned(prCall[c]) /\ prCall[c] \in PrCommand /\ prAsked \in BOOLEAN
      /\ prCall[c].at = "idle" /\ prCall[c].plan = "none" /\ op \in {"start", "stop", "update"}
  BY PrAssumption DEF PrInv, PrTyped, PrRun, PrPlanned
<1>1. UNCHANGED <<prProc, prLock, prPidFile, prMark, prSup, prStopped>> /\ prAsked' = (prAsked \/ op = "start")
  BY DEF PrRun, prFiles
<1>2. PICK at : at = CASE op = "start" -> "start" [] op = "stop" -> "stop" [] op = "update" -> "plan"
  OBVIOUS
<1>3. at \in PrAts /\ at \in {"start", "stop", "plan"} /\ (at = "start" <=> op = "start") /\ (at = "stop" <=> op = "stop")
      /\ (at = "plan" <=> op = "update")
  BY <1>0, <1>2 DEF PrAts
<1>4. PICK z : z = [prCall[c] EXCEPT !.op = op, !.at = at]
  OBVIOUS
<1>5. prCall' = [prCall EXCEPT ![c] = z]
  BY <1>2, <1>4 DEF PrRun
<1>6. z \in PrCommand /\ z.op = op /\ z.at = at /\ z.plan = "none"
  BY <1>0, <1>3, <1>4 DEF PrCommand
<1>7. PrPlanned(z)
  BY <1>3, <1>6 DEF PrPlanned
<1>8. /\ prCall' \in [PrCalls -> PrCommand] /\ prCall'[c] = z
      /\ \A d \in PrCalls : d # c => prCall'[d] = prCall[d]
  BY <1>0, <1>5, <1>6 DEF PrTyped
<1>9. ~PrFailed(prCall[c]) /\ ~PrAwaits(prCall[c]) /\ ~PrRestarts(prCall[c])
  BY <1>0 DEF PrFailed, PrAwaits, PrRestarts
<1>10. PrTyped' /\ PrLockHeld'
  BY <1>0, <1>1, <1>8 DEF PrInv, PrTyped, PrLockHeld
<1>11. PrSupervised'
  BY <1>1, <1>6, <1>8 DEF PrInv, PrSupervised, PrAgent
<1>12. PrLaunched'
  BY <1>0, <1>1, <1>6, <1>8 DEF PrInv, PrLaunched, PrAgent
<1>13. PrExcused => PrExcused'
  BY <1>1, <1>8, <1>9 DEF PrExcused
<1>14. PrGoing'
  BY <1>1, <1>8, <1>9, <1>13 DEF PrInv, PrGoing
<1>15. PrBack'
  BY <1>1, <1>6, <1>8, <1>9, <1>13 DEF PrInv, PrBack
<1>16. \A d \in PrCalls : PrPlanned(prCall'[d])
  BY <1>7, <1>8 DEF PrInv
<1> QED BY <1>10, <1>11, <1>12, <1>14, <1>15, <1>16 DEF PrInv

LEMMA PrSupervise_Inv == ASSUME PrInv, PrSupervise PROVE PrInv'
<1>1. /\ prSup \in [on : BOOLEAN, child : SUBSET PrPids] /\ prSup' = [prSup EXCEPT !.on = TRUE] /\ prAsked' = TRUE
      /\ UNCHANGED <<prProc, prLock, prPidFile, prMark, prCall, prStopped>>
  BY DEF PrInv, PrTyped, PrSupervise, prFiles
<1>2. prSup' \in [on : BOOLEAN, child : SUBSET PrPids] /\ prSup'.on = TRUE /\ prSup'.child = prSup.child
  BY <1>1
<1>3. PrTyped' /\ PrLockHeld'
  BY <1>1, <1>2 DEF PrInv, PrTyped, PrLockHeld
<1>4. PrSupervised' /\ PrLaunched'
  BY <1>1, <1>2 DEF PrInv, PrSupervised, PrLaunched, PrAgent
<1>5. PrGoing' /\ PrBack'
  BY <1>2 DEF PrGoing, PrBack, PrExcused
<1> QED BY <1>1, <1>3, <1>4, <1>5 DEF PrInv

LEMMA PrNext_Inv == PrInv /\ [PrNext]_prVars => PrInv'
<1> SUFFICES ASSUME PrInv, [PrNext]_prVars PROVE PrInv'
  OBVIOUS
<1>1. CASE UNCHANGED prVars
  BY <1>1 DEF prVars, PrInv, PrTyped, PrLockHeld, PrSupervised, PrLaunched, PrGoing, PrBack, PrExcused, PrAgent
<1>2. CASE PrNext
  BY <1>2, PrSupervise_Inv, PrProcs_Inv, PrRun_Inv, PrCalls_Inv, PrSpawn_Inv, PrSignals_Inv, PrPlan_Inv DEF PrNext
<1> QED BY <1>1, <1>2

LEMMA PrInv_Safe == PrInv => ProcessSafe
<1> SUFFICES ASSUME PrInv PROVE ProcessSafe
  OBVIOUS
<1>1. PrNeverEnrolls
  BY DEF PrInv, PrLaunched, PrNeverEnrolls
<1>2. PrUpdateRestores
  <2> SUFFICES ASSUME PrQuiet, ~prStopped, \E c \in PrCalls : PrInterrupts(c),
                      \A c \in PrCalls : PrInterrupts(c) => prCall[c].ok
               PROVE  prLock # {}
    BY DEF PrUpdateRestores
  <2>1. \A c \in PrCalls : prCall[c].at \in {"idle", "done"} /\ (prCall[c].plan # "none" => prCall[c].ok)
    BY DEF PrInv, PrPlanned, PrInterrupts, PrQuiet
  <2>2. \A c \in PrCalls : ~PrRestarts(prCall[c]) /\ ~PrFailed(prCall[c])
    BY <2>1 DEF PrRestarts, PrFailed
  <2>3. prSup.on \/ \E p \in PrPids : prProc[p] \in PrLive
    BY <2>2 DEF PrInv, PrBack, PrExcused, PrInterrupts
  <2>4. PICK p \in PrPids : prProc[p] \notin {"free", "other"}
    <3>1. CASE prSup.on
      <4>1. PICK p : p \in prSup.child
        BY <3>1 DEF PrQuiet
      <4>2. p \in PrPids /\ PrAgent(p)
        BY <4>1 DEF PrInv, PrTyped, PrSupervised
      <4> QED BY <4>2 DEF PrAgent
    <3>2. CASE \E p \in PrPids : prProc[p] \in PrLive
      BY <3>2 DEF PrLive
    <3> QED BY <2>3, <3>1, <3>2
  <2>5. prProc[p] \in PrHolding
    BY <2>4 DEF PrQuiet, PrHolding
  <2> QED BY <2>5 DEF PrInv, PrLockHeld
<1> QED BY <1>1, <1>2 DEF ProcessSafe

\* daemon.go and update.go: an update puts back the agent it interrupted, and
\* never makes a controlled device of a machine nobody asked to be one.
THEOREM ProcessHolds == PrSpec => []ProcessSafe
BY PrInit_Inv, PrNext_Inv, PrInv_Safe, PTL DEF PrSpec

-----------------------------------------------------------------------------
(* The requests of a session *)

LpKinds == RequestKinds \cup {"cancel"}
LpMessages == [n : Nat, kind : LpKinds \cup {"none", "end"}]

\* The watch has read a message that the loop has yet to take.
LpHolds == watch.at = "holds" /\ watch.m # HungUp

\* What was read from the connection: what the loop took, and that message.
LpRead == IF LpHolds THEN Len(handled) + 1 ELSE Len(handled)

LpTyped ==
    /\ handled \in Seq(Nat) /\ sent \in Nat
    /\ wire \in Seq([n : Nat, kind : LpKinds])
    /\ watch \in [at : {"none", "reads", "holds"}, m : LpMessages]
    /\ loop \in [at : {"read", "gate", "run", "closed"}, m : LpMessages]

\* Messages are numbered on: those the loop took, the one the watch holds, and
\* those on the connection; the loop asks at the gate without a watch.
LpOrder ==
    /\ \A i \in 1 .. Len(handled) : handled[i] = i
    /\ LpHolds => watch.m.n = Len(handled) + 1
    /\ \A i \in 1 .. Len(wire) : wire[i].n = LpRead + i
    /\ sent = LpRead + Len(wire)
    /\ loop.at = "gate" => watch.at = "none"

\* What the session may do.
LpWithin(m) ==
    /\ scope = "scoped" => m.kind = "oneshot"
    /\ scope = "delegated" => m.kind \notin {"exec", "async", "poll", "wsexec", "wsfile"}
    /\ scope = "workspace" => m.kind \in {"wsexec", "wsfile"}
    /\ m.kind \in {"write", "wsfile"} => "write" \in caps
    /\ m.kind \in {"exec", "oneshot", "async", "poll", "wsexec"} => "exec" \in caps

\* A request that waits at the gate has passed the checks.
LpScope == (\A m \in acted : LpWithin(m)) /\ (loop.at = "gate" => LpWithin(loop.m))

LpInv == LpTyped /\ LpOrder /\ LpScope

LEMMA LpRead_Nat == LpInv => LpRead \in Nat /\ Len(handled) \in Nat /\ Len(wire) \in Nat
BY DEF LpInv, LpTyped, LpRead

\* The next message on the connection.
LEMMA WireHead ==
  ASSUME LpInv, wire # <<>>
  PROVE  /\ Head(wire) = wire[1] /\ 1 \in 1 .. Len(wire) /\ wire[1] \in [n : Nat, kind : LpKinds]
         /\ Head(wire) \in LpMessages /\ Head(wire).kind # "end" /\ Head(wire).n = LpRead + 1
         /\ Tail(wire) \in Seq([n : Nat, kind : LpKinds])
         /\ Len(Tail(wire)) = Len(wire) - 1
         /\ \A i \in 1 .. Len(Tail(wire)) : Tail(wire)[i].n = LpRead + 1 + i
<1>1. wire \in Seq([n : Nat, kind : LpKinds]) /\ Len(wire) \in Nat \ {0}
  BY DEF LpInv, LpTyped
<1>2. Head(wire) = wire[1] /\ 1 \in 1 .. Len(wire) /\ wire[1] \in [n : Nat, kind : LpKinds]
  <2> DEFINE R == [n : Nat, kind : LpKinds]
  <2>1. wire \in Seq(R) /\ Len(wire) \in Nat \ {0}
    BY <1>1
  <2> HIDE DEF R
  <2>2. Head(wire) = wire[1] /\ 1 \in 1 .. Len(wire) /\ wire[1] \in R
    BY <2>1
  <2> QED BY <2>2 DEF R
<1>3. Head(wire) \in LpMessages /\ Head(wire).kind # "end"
  BY <1>2 DEF LpMessages, LpKinds, RequestKinds
<1>4. Head(wire).n = LpRead + 1
  BY <1>2 DEF LpInv, LpOrder
<1>5. /\ Tail(wire) \in Seq([n : Nat, kind : LpKinds]) /\ Len(Tail(wire)) = Len(wire) - 1
      /\ \A i \in 1 .. Len(Tail(wire)) : Tail(wire)[i] = wire[i + 1] /\ i + 1 \in 1 .. Len(wire)
  <2> DEFINE R == [n : Nat, kind : LpKinds]
  <2>1. wire \in Seq(R) /\ Len(wire) \in Nat \ {0}
    BY <1>1
  <2> HIDE DEF R
  <2>2. Tail(wire) \in Seq(R) /\ Len(Tail(wire)) = Len(wire) - 1
    BY <2>1
  <2>3. \A i \in 1 .. Len(Tail(wire)) : Tail(wire)[i] = wire[i + 1] /\ i + 1 \in 1 .. Len(wire)
    BY <2>1
  <2> QED BY <2>2, <2>3 DEF R
<1>6. \A i \in 1 .. Len(Tail(wire)) : Tail(wire)[i].n = LpRead + 1 + i
  <2> TAKE i \in 1 .. Len(Tail(wire))
  <2>1. Tail(wire)[i].n = LpRead + (i + 1)
    BY <1>5 DEF LpInv, LpOrder
  <2> QED BY <2>1, <1>5, <1>1, LpRead_Nat
<1> QED BY <1>2, <1>3, <1>4, <1>5, <1>6

\* serveAuthorized: what passes the checks is within the session's scope.
LEMMA Checked_Within ==
  ASSUME NEW m, Checked(m.kind) \in {"gate", "act"} PROVE LpWithin(m)
BY DEF Checked, LpWithin, Required

LEMMA LoopInit_Inv == LoopInit => LpInv
BY DEF LoopInit, LpInv, LpTyped, LpOrder, LpScope, LpKinds, LpMessages, LpHolds, LpRead, NoMessage, HungUp, RequestKinds

\* The loop takes the next message.
LEMMA Dispatch_Inv ==
  ASSUME LpInv, NEW m \in LpMessages, Dispatch(m), m.n = Len(handled) + 1, loop.at = "read",
         watch' = [at |-> "none", m |-> NoMessage] \/ (watch.at = "none" /\ watch' = watch),
         UNCHANGED <<scope, caps>>
  PROVE  /\ handled' \in Seq(Nat) /\ Len(handled') = Len(handled) + 1
         /\ \A i \in 1 .. Len(handled') : handled'[i] = i
         /\ loop' \in [at : {"read", "gate", "run", "closed"}, m : LpMessages]
         /\ watch' \in [at : {"none", "reads", "holds"}, m : LpMessages]
         /\ watch'.at = "none" /\ LpScope'
<1>1. handled' \in Seq(Nat) /\ Len(handled') = Len(handled) + 1
      /\ \A i \in 1 .. Len(handled') : handled'[i] = i
  BY DEF Dispatch, TakeNext, LpInv, LpTyped, LpOrder, LpMessages
<1>2. NoMessage \in LpMessages
  BY DEF NoMessage, LpMessages
<1>3. loop' \in [at : {"read", "gate", "run", "closed"}, m : LpMessages]
  BY <1>2 DEF Dispatch
<1>4. watch' \in [at : {"none", "reads", "holds"}, m : LpMessages] /\ watch'.at = "none"
  BY <1>2 DEF LpInv, LpTyped
<1>5. ASSUME NEW x, LpWithin(x) PROVE LpWithin(x)'
  BY <1>5 DEF LpWithin
<1>6. loop'.at = "gate" => loop'.m = m /\ Checked(m.kind) = "gate"
  BY DEF Dispatch
<1>7. \A x \in acted' : x \in acted \/ (x = m /\ Checked(m.kind) = "act")
  BY DEF Dispatch
<1>8. loop'.at = "gate" => LpWithin(loop'.m)
  BY <1>6, Checked_Within
<1>9. \A x \in acted' : LpWithin(x)
  BY <1>7, Checked_Within DEF LpInv, LpScope
<1>10. LpScope'
  BY <1>8, <1>9 DEF LpScope, LpWithin
<1> QED BY <1>1, <1>3, <1>4, <1>10

LEMMA TakeFromWatch_Inv == LpInv /\ TakeFromWatch => LpInv'
<1> SUFFICES ASSUME LpInv, TakeFromWatch PROVE LpInv'
  OBVIOUS
<1> USE DEF TakeFromWatch
<1>1. watch.m \in LpMessages /\ watch'.at = "none"
  BY DEF LpInv, LpTyped
<1>2. CASE watch.m = HungUp
  <2>1. UNCHANGED <<handled, acted, wire, sent, scope, caps>> /\ loop' = [at |-> "closed", m |-> NoMessage]
        /\ watch' = [at |-> "none", m |-> NoMessage]
    BY <1>2 DEF LoopEnds
  <2>2. LpTyped'
    BY <2>1 DEF LpInv, LpTyped, LpMessages, NoMessage
  <2>3. LpOrder'
    BY <2>1, <1>2 DEF LpInv, LpOrder, LpRead, LpHolds
  <2>4. LpScope'
    BY <2>1 DEF LpInv, LpScope, LpWithin
  <2> QED BY <2>2, <2>3, <2>4 DEF LpInv
<1>3. CASE watch.m # HungUp
  <2>1. Dispatch(watch.m) /\ watch.m.n = Len(handled) + 1 /\ LpRead = Len(handled) + 1
        /\ UNCHANGED <<wire, sent, scope, caps>>
    BY <1>3 DEF LpInv, LpOrder, LpHolds, LpRead
  <2>2. /\ handled' \in Seq(Nat) /\ Len(handled') = Len(handled) + 1
        /\ \A i \in 1 .. Len(handled') : handled'[i] = i
        /\ loop' \in [at : {"read", "gate", "run", "closed"}, m : LpMessages]
        /\ watch' \in [at : {"none", "reads", "holds"}, m : LpMessages]
        /\ watch'.at = "none" /\ LpScope'
    BY <1>1, <2>1, Dispatch_Inv
  <2>3. LpTyped'
    BY <2>1, <2>2 DEF LpInv, LpTyped
  <2>4. LpRead' = LpRead /\ ~LpHolds'
    BY <2>1, <2>2 DEF LpRead, LpHolds
  <2>5. LpOrder'
    BY <2>1, <2>2, <2>4 DEF LpInv, LpOrder
  <2> QED BY <2>2, <2>3, <2>5 DEF LpInv
<1> QED BY <1>2, <1>3

LEMMA TakeFromWire_Inv == LpInv /\ TakeFromWire => LpInv'
<1> SUFFICES ASSUME LpInv, TakeFromWire PROVE LpInv'
  OBVIOUS
<1> USE DEF TakeFromWire, ReadOwned
<1>1. ~LpHolds /\ LpRead = Len(handled) /\ watch' = watch /\ UNCHANGED <<sent, scope, caps>>
  BY DEF LpHolds, LpRead
<1>2. CASE wire = <<>>
  <2>1. UNCHANGED <<handled, acted, wire>> /\ loop' = [at |-> "closed", m |-> NoMessage]
    BY <1>2 DEF LoopEnds
  <2>2. LpTyped'
    BY <2>1, <1>1 DEF LpInv, LpTyped, LpMessages, NoMessage
  <2>3. LpOrder'
    BY <2>1, <1>1 DEF LpInv, LpOrder, LpRead, LpHolds
  <2>4. LpScope'
    BY <2>1, <1>1 DEF LpInv, LpScope, LpWithin
  <2> QED BY <2>2, <2>3, <2>4 DEF LpInv
<1>3. CASE wire # <<>>
  <2>1. Dispatch(Head(wire)) /\ wire' = Tail(wire) /\ loop.at = "read"
    BY <1>3
  <2>2. Head(wire) \in LpMessages /\ Head(wire).n = Len(handled) + 1
    BY <1>1, <1>3, WireHead
  <2>3. /\ handled' \in Seq(Nat) /\ Len(handled') = Len(handled) + 1
        /\ \A i \in 1 .. Len(handled') : handled'[i] = i
        /\ loop' \in [at : {"read", "gate", "run", "closed"}, m : LpMessages]
        /\ watch' \in [at : {"none", "reads", "holds"}, m : LpMessages]
        /\ watch'.at = "none" /\ LpScope'
    BY <1>1, <2>1, <2>2, Dispatch_Inv
  <2>4. LpTyped'
    BY <1>1, <1>3, <2>1, <2>3 DEF LpInv, LpTyped
  <2>5. LpRead' = LpRead + 1 /\ ~LpHolds'
    BY <1>1, <2>3, SMTT(40) DEF LpRead, LpHolds
  <2>6. Len(wire') = Len(wire) - 1 /\ \A i \in 1 .. Len(wire') : wire'[i].n = LpRead + 1 + i
    BY <1>3, <2>1, WireHead, ZenonT(30)
  <2>7. LpOrder'
    <3>1. \A i \in 1 .. Len(wire') : wire'[i].n = LpRead' + i
      BY <2>5, <2>6
    <3>2. sent' = LpRead' + Len(wire')
      BY <1>1, <1>3, <2>5, <2>6, LpRead_Nat DEF LpInv, LpOrder
    <3> QED BY <2>3, <2>5, <3>1, <3>2 DEF LpOrder
  <2> QED BY <2>3, <2>4, <2>7 DEF LpInv
<1> QED BY <1>2, <1>3

LEMMA WatchReads_Inv == LpInv /\ WatchReads => LpInv'
<1> SUFFICES ASSUME LpInv, WatchReads PROVE LpInv'
  OBVIOUS
<1>1. ~LpHolds /\ LpRead = Len(handled) /\ UNCHANGED <<sent, scope, caps, loop, handled, acted>> /\ loop.at # "gate"
  BY DEF WatchReads, LpHolds, LpRead, LpInv, LpOrder
<1>2. LpScope'
  BY <1>1 DEF LpInv, LpScope, LpWithin
<1>3. CASE wire = <<>>
  <2>1. watch' = [at |-> "holds", m |-> HungUp] /\ wire' = wire
    BY <1>3 DEF WatchReads
  <2>2. LpTyped'
    BY <1>1, <2>1 DEF LpInv, LpTyped, LpMessages, HungUp
  <2>3. LpOrder'
    BY <1>1, <2>1 DEF LpInv, LpOrder, LpRead, LpHolds
  <2> QED BY <1>2, <2>2, <2>3 DEF LpInv
<1>4. CASE wire # <<>>
  <2>1. watch' = [at |-> "holds", m |-> Head(wire)] /\ wire' = Tail(wire)
    BY <1>4 DEF WatchReads
  <2>2. Head(wire) \in LpMessages /\ Head(wire).n = Len(handled) + 1 /\ Head(wire).kind # "end"
    BY <1>1, <1>4, WireHead
  <2>3. LpTyped'
    BY <1>1, <1>4, <2>1, <2>2 DEF LpInv, LpTyped
  <2>4. LpHolds' /\ LpRead' = LpRead + 1
    BY <1>1, <2>1, <2>2 DEF LpRead, LpHolds, HungUp
  <2>6. Len(wire') = Len(wire) - 1 /\ \A i \in 1 .. Len(wire') : wire'[i].n = LpRead + 1 + i
    BY <1>4, <2>1, WireHead
  <2>7. LpOrder'
    <3>1. \A i \in 1 .. Len(wire') : wire'[i].n = LpRead' + i
      BY <2>4, <2>6
    <3>2. sent' = LpRead' + Len(wire')
      <4>1. sent = LpRead + Len(wire) /\ sent' = sent
        BY <1>1 DEF LpInv, LpOrder
      <4> QED BY <4>1, <2>4, <2>6, LpRead_Nat
    <3> QED BY <1>1, <2>1, <2>2, <2>4, <3>1, <3>2 DEF LpOrder, LpInv
  <2> QED BY <1>2, <2>3, <2>7 DEF LpInv
<1> QED BY <1>3, <1>4

\* The gate's answer and the end of a command leave the messages alone.
LEMMA GateAnswers_Inv == ASSUME LpInv, NEW ok \in BOOLEAN, GateAnswers(ok) PROVE LpInv'
<1>1. /\ UNCHANGED <<wire, sent, handled, scope, caps>> /\ watch.at = "none" /\ ~LpHolds
      /\ watch' = watch \/ watch' = [at |-> "reads", m |-> NoMessage]
      /\ loop' = [at |-> "read", m |-> NoMessage] \/ loop' = [loop EXCEPT !.at = "run"]
      /\ acted' \subseteq acted \cup {loop.m} /\ loop.at = "gate"
  BY DEF GateAnswers, StartWatch, LpHolds, LpInv, LpOrder
<1>2. LpTyped' /\ loop'.at # "gate"
  BY <1>1 DEF LpInv, LpTyped, LpMessages, NoMessage
<1>3. LpOrder'
  BY <1>1, <1>2 DEF LpInv, LpOrder, LpRead, LpHolds
<1>4. LpScope'
  BY <1>1, <1>2 DEF LpInv, LpScope, LpWithin
<1> QED BY <1>2, <1>3, <1>4 DEF LpInv

LEMMA CommandOver_Inv == LpInv /\ CommandOver => LpInv'
<1> SUFFICES ASSUME LpInv, CommandOver PROVE LpInv'
  OBVIOUS
<1>1. UNCHANGED <<wire, sent, handled, scope, caps, watch, acted>> /\ loop' = [at |-> "read", m |-> NoMessage]
  BY DEF CommandOver
<1>2. LpTyped'
  BY <1>1 DEF LpInv, LpTyped, LpMessages, NoMessage
<1>3. LpOrder'
  BY <1>1, <1>2 DEF LpInv, LpOrder, LpRead, LpHolds
<1>4. LpScope'
  BY <1>1, <1>2 DEF LpInv, LpScope, LpWithin
<1> QED BY <1>2, <1>3, <1>4 DEF LpInv

\* client.go: a message goes out under the next number.
LEMMA Put_Inv ==
  ASSUME LpInv, NEW k \in LpKinds, Put(k),
         UNCHANGED <<handled, scope, caps, watch, loop, acted>>
  PROVE  LpInv'
<1> DEFINE x == [n |-> sent + 1, kind |-> k]
<1>1. x \in [n : Nat, kind : LpKinds] /\ x.n = sent + 1
  BY DEF LpInv, LpTyped
<1> HIDE DEF x
<1>2. wire' = Append(wire, x) /\ sent' = sent + 1
  BY DEF Put, x
<1>3. LpTyped' /\ Len(wire') = Len(wire) + 1
  BY <1>1, <1>2 DEF LpInv, LpTyped
<1>4. LpRead' = LpRead /\ LpHolds' = LpHolds /\ LpRead \in Nat
  BY DEF LpRead, LpHolds, LpInv, LpTyped
<1>5. \A i \in 1 .. Len(wire') : wire'[i].n = LpRead + i
  <2>1. wire \in Seq([n : Nat, kind : LpKinds]) /\ Len(wire) \in Nat /\ sent = LpRead + Len(wire)
    BY DEF LpInv, LpTyped, LpOrder
  <2> TAKE i \in 1 .. Len(wire')
  <2>2. CASE i \in 1 .. Len(wire)
    BY <1>2, <2>1, <2>2 DEF LpInv, LpOrder
  <2>3. CASE i = Len(wire) + 1
    <3>1. wire'[i] = x
      BY <1>2, <2>1, <2>3
    <3> QED BY <3>1, <1>1, <1>4, <2>1, <2>3
  <2> QED BY <1>3, <2>1, <2>2, <2>3
<1>6. LpOrder'
  <2>1. sent' = LpRead' + Len(wire')
    BY <1>2, <1>3, <1>4, LpRead_Nat DEF LpInv, LpOrder
  <2> QED BY <2>1, <1>4, <1>5 DEF LpInv, LpOrder
<1>7. LpScope'
  BY DEF LpInv, LpScope, LpWithin
<1> QED BY <1>3, <1>6, <1>7 DEF LpInv

\* What leaves messages, loop and watch as they are.
LEMMA LpStill ==
  ASSUME LpInv, UNCHANGED <<handled, sent, wire, watch, loop, scope, caps, acted>> PROVE LpInv'
BY DEF LpInv, LpTyped, LpOrder, LpScope, LpRead, LpHolds, LpWithin

LEMMA LoopNext_Inv == LpInv /\ [LoopNext]_loopVars => LpInv'
<1> SUFFICES ASSUME LpInv, [LoopNext]_loopVars PROVE LpInv'
  OBVIOUS
<1>1. CASE TakeFromWatch \/ TakeFromWire \/ WatchReads
  BY <1>1, TakeFromWatch_Inv, TakeFromWire_Inv, WatchReads_Inv
<1>2. CASE CommandKilled \/ CommandFinishes
  BY <1>2, CommandOver_Inv DEF CommandKilled, CommandFinishes
<1>3. ASSUME NEW ok \in BOOLEAN, GateAnswers(ok) PROVE LpInv'
  BY <1>3, GateAnswers_Inv
<1>4. CASE ReadAnswer \/ HangUp \/ AccessEnds
  BY <1>4, LpStill DEF ReadAnswer, HangUp, AccessEnds
<1>5. CASE SendCancel
  <2>1. "cancel" \in LpKinds
    BY DEF LpKinds
  <2> QED BY <1>5, <2>1, Put_Inv DEF SendCancel
<1>6. ASSUME NEW k \in RequestKinds, SendRequest(k) PROVE LpInv'
  <2>1. k \in LpKinds
    BY DEF LpKinds
  <2> QED BY <1>6, <2>1, Put_Inv DEF SendRequest
<1>7. CASE UNCHANGED loopVars
  BY <1>7, LpStill DEF loopVars
<1> QED BY <1>1, <1>2, <1>3, <1>4, <1>5, <1>6, <1>7 DEF LoopNext, DeviceStep

\* serveAuthorized and watchPeer of agent.go: the requests of a connection are
\* served in the order they were sent, each once, and none does more than its
\* session was opened for.
THEOREM RequestsInOrder == LoopSpec => [](ServedInOrder /\ WithinScope)
<1>1. LpInv => ServedInOrder /\ WithinScope
  BY DEF LpInv, LpOrder, LpScope, LpWithin, ServedInOrder, WithinScope
<1> QED BY <1>1, LoopInit_Inv, LoopNext_Inv, PTL DEF LoopSpec

-----------------------------------------------------------------------------
(* The end of an agent *)

\* The control loop is among the goroutines while Run is on; once Close has
\* returned there are none, and nothing joins a closing agent.
AcInv ==
  /\ acRun \in {"new", "dialling", "serving", "done"}
  /\ acRun \in {"dialling", "serving"} => AcLoop \in acOwned
  /\ acClosed => acClosing /\ acOwned = {}

\* The other goroutines have names of their own.
LEMMA AcNames ==
  ASSUME NEW x
  PROVE  /\ AcHelper(x) # AcLoop /\ AcHandler(x) # AcLoop /\ AcPump(x) # AcLoop
         /\ AcWork(x) # AcLoop /\ AcProgress(x) # AcLoop
BY DEF AcHelper, AcHandler, AcPump, AcWork, AcProgress, AcLoop

\* A goroutine that is not the control loop ends, or the step starts some.
LEMMA AcGoroutines ==
  ASSUME AcInv, acRun' = acRun, acClosing' = acClosing, acClosed' = acClosed,
         \/ acOwned' = acOwned
         \/ \E g : g # AcLoop /\ acOwned' = acOwned \ {g}
         \/ \E gs : acOwned' = AcSpawned(gs)
  PROVE  AcInv'
BY DEF AcInv, AcSpawned, AcMayEnter

\* Steps of a session, a question or a pump: the goroutines at most change as
\* AcGoroutines says.
LEMMA AcSession_Inv ==
  ASSUME AcInv, NEW s \in AcSessions,
         \/ AcOpened(s) \/ AcServeConsole(s) \/ AcBreaks(s) \/ AcSessionEnds(s)
         \/ \E a \in AcAsks : AcRPCDecide(s, a)
         \/ AcRPCSet(s) \/ AcRPCInstall(s) \/ AcWorkEnds(s) \/ AcProgressEnds(s)
         \/ AcPumpReads(s) \/ AcPumpSends(s) \/ AcPumpEnds(s)
  PROVE  AcInv'
<1>1. acRun' = acRun /\ acClosing' = acClosing /\ acClosed' = acClosed
  BY DEF AcOpened, AcServeConsole, AcBreaks, AcSessionEnds, AcRPCDecide, AcRPCSet, AcRPCInstall,
         AcWorkEnds, AcProgressEnds, AcPumpReads, AcPumpSends, AcPumpEnds, acLife
<1>2. CASE AcOpened(s) \/ AcServeConsole(s) \/ AcRPCInstall(s)
  <2>1. \E gs : acOwned' = AcSpawned(gs)
    BY <1>2 DEF AcOpened, AcServeConsole, AcRPCInstall
  <2> QED BY <1>1, <2>1, AcGoroutines
<1>3. CASE AcSessionEnds(s) \/ AcWorkEnds(s) \/ AcProgressEnds(s) \/ AcPumpEnds(s)
  <2>1. \E g : g # AcLoop /\ acOwned' = acOwned \ {g}
    BY <1>3, AcNames DEF AcSessionEnds, AcWorkEnds, AcProgressEnds, AcPumpEnds
  <2> QED BY <1>1, <2>1, AcGoroutines
<1>4. CASE \/ AcBreaks(s) \/ (\E a \in AcAsks : AcRPCDecide(s, a)) \/ AcRPCSet(s)
           \/ AcPumpReads(s) \/ AcPumpSends(s)
  <2>1. acOwned' = acOwned
    BY <1>4 DEF AcBreaks, AcRPCDecide, AcRPCSet, AcPumpReads, AcPumpSends, acLife
  <2> QED BY <1>1, <2>1, AcGoroutines
<1> QED BY <1>2, <1>3, <1>4

LEMMA AcNext_Inv == AcInv /\ [AcNext]_acVars => AcInv'
<1> SUFFICES ASSUME AcInv, [AcNext]_acVars PROVE AcInv'
  OBVIOUS
<1>1. CASE AcNotify \/ AcPairingRaised \/ AcPromptReads \/ UNCHANGED acVars
           \/ \E a \in AcAsks : AcAskLooks(a) \/ AcAskEnters(a) \/ AcAskEnds(a) \/ AcPromptAnswers(a)
  <2>1. acRun' = acRun /\ acClosing' = acClosing /\ acClosed' = acClosed /\ acOwned' = acOwned
    BY <1>1 DEF AcNotify, AcPairingRaised, AcPromptReads, acVars, acLife, AcAskLooks, AcAskEnters,
                AcAskEnds, AcPromptAnswers
  <2> QED BY <2>1, AcGoroutines
<1>2. CASE AcRunStarts
  BY <1>2 DEF AcRunStarts, AcInv, AcSpawned, AcMayEnter
<1>3. CASE AcRegistered
  BY <1>3 DEF AcRegistered, AcInv, AcSpawned, AcMayEnter
<1>4. CASE AcRunEnds
  BY <1>4 DEF AcRunEnds, AcInv
<1>5. CASE AcClose \/ AcJoined
  BY <1>5 DEF AcClose, AcJoined, AcInv
<1>6. ASSUME NEW g \in AcHelpers, AcHelperEnds(g) PROVE AcInv'
  <2>1. acRun' = acRun /\ acClosing' = acClosing /\ acClosed' = acClosed /\ acOwned' = acOwned \ {AcHelper(g)}
    BY <1>6 DEF AcHelperEnds
  <2> QED BY <2>1, AcNames, AcGoroutines
<1>7. ASSUME NEW s \in AcSessions,
             \/ AcOpened(s) \/ AcServeConsole(s) \/ AcBreaks(s) \/ AcSessionEnds(s)
             \/ \E a \in AcAsks : AcRPCDecide(s, a)
             \/ AcRPCSet(s) \/ AcRPCInstall(s) \/ AcWorkEnds(s) \/ AcProgressEnds(s)
             \/ AcPumpReads(s) \/ AcPumpSends(s) \/ AcPumpEnds(s)
      PROVE AcInv'
  BY <1>7, AcSession_Inv
<1> QED BY <1>1, <1>2, <1>3, <1>4, <1>5, <1>6, <1>7 DEF AcNext

\* enter and Close of agent.go: once Close has returned nothing that the agent owns
\* runs, and no session, pump or control loop starts.
THEOREM ClosedIsQuiet == AcSpec => []AcQuiet
<1>1. AcInit => AcInv
  BY DEF AcInit, AcInv
<1>2. AcInv => AcQuiet
  BY DEF AcInv, AcQuiet
<1> QED BY <1>1, <1>2, AcNext_Inv, PTL DEF AcSpec

-----------------------------------------------------------------------------
(* Desktop input *)

DkSteps == {"check", "press", "release", "letgo", "target", "send", "look"}

\* Between an input and a send after it the signal is read.
DkSpaced(s) ==
  \A i, j \in 1..Len(s) :
    i < j /\ s[i] \in {"send", "press"} /\ s[j] = "send" => \E k \in (i + 1)..(j - 1) : s[k] \in {"check", "press"}

\* The signal is read before the first send.
DkGuarded(s) ==
  \A j \in 1..Len(s) : s[j] = "send" => \E k \in 1..(j - 1) : s[k] \in {"check", "press"}

DkInvTodo ==
  /\ dkTodo \in Seq(DkSteps)
  /\ dkAt \in {"step", "pressing"} => dkTodo # <<>> /\ DkSpaced(dkTodo)
  /\ dkAt = "pressing" => Head(dkTodo) = "press"

\* What is down is registered; what is registered at the end is reported.
DkInvHeld ==
  /\ dkDown \subseteq dkHeld /\ dkPressing \subseteq dkHeld
  /\ dkPressing # {} => dkAt = "pressing"
  /\ dkAt = "begin" => dkHeld = {}
  /\ dkWatch = "armed" => dkAt \notin {"begin", "drained", "returned"}
  /\ dkAt \in {"drained", "returned"} => dkHeld = {} \/ dkRes.status = "unknown"

\* After an input that slipped out the next send is behind a check.
DkInvSlips ==
  /\ dkSlips \in {0, 1}
  /\ dkSlips = 1 => "human" \in dkStop /\ dkAt # "pressing" /\ (dkAt = "step" => DkGuarded(dkTodo))

DkInv == DkInvTodo /\ DkInvHeld /\ DkInvSlips /\ DkHumanTold

----------------------------------------------------------------------------
LEMMA DkTailSpaced ==
  ASSUME NEW s \in Seq(DkSteps), s # <<>>, DkSpaced(s)
  PROVE  /\ Tail(s) \in Seq(DkSteps) /\ DkSpaced(Tail(s))
         /\ Head(s) \in {"send", "press"} => DkGuarded(Tail(s))
<1> DEFINE t == Tail(s)
           R == DkSteps
<1> s \in Seq(R)
  OBVIOUS
<1> HIDE DEF R
<1>1. /\ t \in Seq(R) /\ Len(s) \in Nat \ {0} /\ Len(t) = Len(s) - 1 /\ Head(s) = s[1]
      /\ \A i \in 1..Len(t) : t[i] = s[i + 1]
  OBVIOUS
<1>2. ASSUME NEW i \in 1..Len(t), NEW j \in 1..Len(t), i < j, t[i] \in {"send", "press"}, t[j] = "send"
      PROVE  \E k \in (i + 1)..(j - 1) : t[k] \in {"check", "press"}
  <2>1. PICK m \in (i + 2)..j : s[m] \in {"check", "press"}
    <3>1. i + 1 \in 1..Len(s) /\ j + 1 \in 1..Len(s) /\ s[i + 1] = t[i] /\ s[j + 1] = t[j] /\ i + 1 < j + 1
      BY <1>1, <1>2
    <3>2. PICK m \in ((i + 1) + 1)..((j + 1) - 1) : s[m] \in {"check", "press"}
      BY <1>2, <3>1 DEF DkSpaced
    <3> QED BY <3>2
  <2>2. m - 1 \in (i + 1)..(j - 1) /\ m - 1 \in 1..Len(t) /\ (m - 1) + 1 = m
    BY <1>1
  <2>3. t[m - 1] = s[m]
    BY <1>1, <2>2
  <2> QED BY <2>1, <2>2, <2>3
<1>3. ASSUME Head(s) \in {"send", "press"}, NEW j \in 1..Len(t), t[j] = "send"
      PROVE  \E k \in 1..(j - 1) : t[k] \in {"check", "press"}
  <2>1. PICK m \in 2..j : s[m] \in {"check", "press"}
    <3>1. 1 \in 1..Len(s) /\ j + 1 \in 1..Len(s) /\ s[j + 1] = t[j] /\ 1 < j + 1 /\ s[1] = Head(s)
      BY <1>1, <1>3
    <3>2. PICK m \in (1 + 1)..((j + 1) - 1) : s[m] \in {"check", "press"}
      BY <1>3, <3>1 DEF DkSpaced
    <3> QED BY <3>2
  <2>2. m - 1 \in 1..(j - 1) /\ m - 1 \in 1..Len(t) /\ (m - 1) + 1 = m
    BY <1>1
  <2>3. t[m - 1] = s[m]
    BY <1>1, <2>2
  <2> QED BY <2>1, <2>2, <2>3
<1>4. DkSpaced(t)
  BY <1>2 DEF DkSpaced
<1>5. Head(s) \in {"send", "press"} => DkGuarded(t)
  BY <1>3 DEF DkGuarded
<1> QED BY <1>1, <1>4, <1>5 DEF R

\* A step that neither sends nor presses leaves a guarded rest behind it.
LEMMA DkTailGuarded ==
  ASSUME NEW s \in Seq(DkSteps), s # <<>>, DkGuarded(s), Head(s) \notin {"check", "press"}
  PROVE  DkGuarded(Tail(s)) /\ Head(s) # "send"
<1> DEFINE t == Tail(s)
           R == DkSteps
<1> s \in Seq(R)
  OBVIOUS
<1> HIDE DEF R
<1>1. /\ t \in Seq(R) /\ Len(s) \in Nat \ {0} /\ Len(t) = Len(s) - 1 /\ Head(s) = s[1]
      /\ \A i \in 1..Len(t) : t[i] = s[i + 1]
  OBVIOUS
<1>2. ASSUME NEW j \in 1..Len(t), t[j] = "send"
      PROVE  \E k \in 1..(j - 1) : t[k] \in {"check", "press"}
  <2>1. j + 1 \in 1..Len(s) /\ s[j + 1] = "send"
    BY <1>1, <1>2
  <2>2. PICK m \in 1..((j + 1) - 1) : s[m] \in {"check", "press"}
    BY <2>1 DEF DkGuarded
  <2>3. m # 1
    BY <1>1, <2>2
  <2>4. m - 1 \in 1..(j - 1) /\ m - 1 \in 1..Len(t) /\ (m - 1) + 1 = m
    BY <1>1, <2>2, <2>3
  <2>5. t[m - 1] = s[m]
    BY <1>1, <2>4
  <2> QED BY <2>2, <2>4, <2>5
<1>3. Head(s) # "send"
  <2> SUFFICES ASSUME s[1] = "send" PROVE FALSE
    BY <1>1
  <2>1. \E k \in 1..(1 - 1) : s[k] \in {"check", "press"}
    BY <1>1 DEF DkGuarded
  <2> QED BY <2>1
<1> QED BY <1>2, <1>3 DEF DkGuarded

LEMMA DkRests == /\ <<>> \in Seq(DkSteps) /\ <<"letgo">> \in Seq(DkSteps) /\ <<"letgo">> # <<>>
                 /\ DkSpaced(<<"letgo">>) /\ DkGuarded(<<"letgo">>)
<1> DEFINE s == <<"letgo">>
<1>1. s \in Seq(DkSteps) /\ Len(s) = 1 /\ s[1] = "letgo" /\ s # <<>>
  BY DEF DkSteps
<1>2. \A i \in 1..Len(s) : s[i] = "letgo"
  <2> HIDE DEF s
  <2> QED BY <1>1
<1>3. DkSpaced(s) /\ DkGuarded(s)
  <2> HIDE DEF s
  <2> QED BY <1>2 DEF DkSpaced, DkGuarded
<1> QED BY <1>1, <1>3

LEMMA DkActionsSpaced == ASSUME NEW a \in DkActions PROVE a \in Seq(DkSteps) /\ a # <<>> /\ DkSpaced(a)
<1> USE DEF DkSteps
<1>1. CASE a = DkTyped
  BY <1>1 DEF DkTyped, DkSpaced
<1>2. CASE a = DkKeyed
  <2>1. /\ a \in Seq(DkSteps) /\ a # <<>> /\ Len(a) = 6 /\ a[1] = "check" /\ a[2] = "press" /\ a[3] = "check"
        /\ a[4] = "press" /\ a[5] = "check" /\ a[6] = "letgo"
    BY <1>2 DEF DkKeyed
  <2>2. \A j \in 1..Len(a) : a[j] # "send"
    BY <2>1
  <2> QED BY <2>1, <2>2 DEF DkSpaced
<1>3. CASE a = DkClicked
  BY <1>3 DEF DkClicked, DkSpaced
<1>4. CASE a = DkScrolled
  BY <1>4 DEF DkScrolled, DkSpaced
<1>5. CASE a = DkDragged
  <2>1. /\ a \in Seq(DkSteps) /\ a # <<>> /\ Len(a) = 7 /\ a[1] = "target" /\ a[2] = "send" /\ a[3] = "press"
        /\ a[4] = "check" /\ a[5] = "send" /\ a[6] = "check" /\ a[7] = "letgo"
    BY <1>5 DEF DkDragged
  <2>2. \A j \in 1..Len(a) : a[j] = "send" => j \in {2, 5}
    BY <2>1
  <2>3. \A j \in 1..Len(a) : a[j] \in {"send", "press"} /\ j < 5 => j \in {2, 3}
    BY <2>1
  <2>4. ASSUME NEW i \in 1..Len(a), NEW j \in 1..Len(a), i < j, a[i] \in {"send", "press"}, a[j] = "send"
        PROVE  \E k \in (i + 1)..(j - 1) : a[k] \in {"check", "press"}
    <3>1. j = 5 /\ i \in {2, 3}
      <4>1. j = 5 \/ j = 2
        BY <2>2, <2>4
      <4>2. j # 2
        BY <2>1, <2>4
      <4> QED BY <2>3, <2>4, <4>1, <4>2
    <3>2. 4 \in (i + 1)..(j - 1) /\ a[4] \in {"check", "press"}
      BY <2>1, <3>1
    <3> QED BY <3>2
  <2> QED BY <2>1, <2>4 DEF DkSpaced
<1>6. CASE a = DkFocused
  BY <1>6 DEF DkFocused, DkSpaced
<1>7. CASE a = DkFocused \o DkRefocused
  BY <1>7 DEF DkFocused, DkRefocused, DkSpaced
<1>8. CASE a = DkLaunched
  BY <1>8 DEF DkLaunched, DkFocused, DkSpaced
<1>9. CASE a = DkWaited
  BY <1>9 DEF DkWaited, DkSpaced
<1> QED BY <1>1, <1>2, <1>3, <1>4, <1>5, <1>6, <1>7, <1>8, <1>9 DEF DkActions

LEMMA DkStepEnds_Todo ==
  ASSUME NEW err, DkInvTodo, dkAt \in {"step", "pressing"}, DkStepEnds(err)
  PROVE  /\ DkInvTodo' /\ dkAt' \in {"step", "acted"}
         /\ err # "" \/ Head(dkTodo) \in {"send", "press"} => (dkAt' = "step" => DkGuarded(dkTodo'))
         /\ DkGuarded(dkTodo) /\ Head(dkTodo) \notin {"check", "press"} => (dkAt' = "step" => DkGuarded(dkTodo'))
<1>1. dkTodo \in Seq(DkSteps) /\ dkTodo # <<>> /\ DkSpaced(dkTodo)
  BY DEF DkInvTodo
<1>2. dkAt' = IF dkTodo' = <<>> THEN "acted" ELSE "step"
  BY DEF DkStepEnds
<1>3. CASE err = ""
  <2>1. dkTodo' = Tail(dkTodo)
    BY <1>3 DEF DkStepEnds
  <2> QED BY <1>1, <1>2, <1>3, <2>1, DkTailSpaced, DkTailGuarded DEF DkInvTodo
<1>4. CASE err # ""
  <2>1. dkTodo' \in {<<>>, <<"letgo">>}
    BY <1>4 DEF DkStepEnds
  <2> QED BY <1>2, <1>4, <2>1, DkRests DEF DkInvTodo
<1> QED BY <1>3, <1>4

LEMMA DkReleases_Held ==
  ASSUME DkInvHeld, DkReleases
  PROVE  dkDown' \subseteq dkHeld' /\ dkPressing' = {} /\ (dkHeld = {} => dkHeld' = {})
BY DEF DkInvHeld, DkReleases

----------------------------------------------------------------------------
LEMMA DkInit_Inv == DkInit => DkInv
<1> SUFFICES ASSUME DkInit PROVE DkInv
  OBVIOUS
<1>1. DkInvTodo
  BY DkRests DEF DkInit, DkInvTodo
<1>2. DkInvHeld
  BY DEF DkInit, DkInvHeld
<1>3. DkInvSlips
  <2>1. dkSlips = 0
    BY DEF DkInit
  <2>2. dkSlips # 1 /\ dkSlips \in {0, 1}
    BY <2>1
  <2> QED BY <2>2 DEF DkInvSlips
<1>4. DkHumanTold
  BY DEF DkInit, DkHumanTold
<1> QED BY <1>1, <1>2, <1>3, <1>4 DEF DkInv

\* The signal, and what releases.
LEMMA DkSignals_Inv ==
  ASSUME DkInv, DkHumanInput \/ DkMonitorFails \/ DkCancelled \/ DkWatchReleases \/ DkWatchEnds
  PROVE  DkInv'
<1>1. ASSUME NEW why, DkLatch(why) PROVE DkInv'
  BY <1>1 DEF DkLatch, DkInv, DkInvTodo, DkInvHeld, DkInvSlips, DkHumanTold, dkInput, dkRun
<1>2. CASE DkWatchReleases
  BY <1>2, DkReleases_Held DEF DkWatchReleases, DkInv, DkInvTodo, DkInvHeld, DkInvSlips, DkHumanTold, dkSignal, dkRun
<1>3. CASE DkWatchEnds
  BY <1>3 DEF DkWatchEnds, DkInv, DkInvTodo, DkInvHeld, DkInvSlips, DkHumanTold, dkSignal, dkRun, dkInput
<1> QED BY <1>1, <1>2, <1>3 DEF DkHumanInput, DkMonitorFails, DkCancelled

\* Outside an action.
LEMMA DkAround_Inv ==
  ASSUME DkInv, DkBegin \/ DkFirst \/ DkNextAction \/ DkActed \/ DkSettles
  PROVE  DkInv'
<1> USE DEF DkInv, DkInvTodo, DkInvHeld, DkInvSlips, DkHumanTold, dkSignal, dkInput
<1>1. CASE DkBegin
  BY <1>1 DEF DkBegin
<1>2. CASE DkFirst
  BY <1>2 DEF DkFirst
<1>3. CASE DkNextAction
  <2>1. "human" \in dkStop => DkCheck # ""
    BY DEF DkCheck
  <2>2. CASE DkCheck = ""
    BY <1>3, <2>1, <2>2, DkActionsSpaced DEF DkNextAction
  <2>3. CASE DkCheck # ""
    BY <1>3, <2>3, DkRests DEF DkNextAction
  <2> QED BY <2>2, <2>3
<1>4. CASE DkActed
  BY <1>4 DEF DkActed
<1>5. CASE DkSettles
  BY <1>5 DEF DkSettles
<1> QED BY <1>1, <1>2, <1>3, <1>4, <1>5

\* The end of the run.
LEMMA DkEnd_Inv == ASSUME DkInv, DkLastRelease \/ DkClose \/ DkReturn PROVE DkInv'
<1> USE DEF DkInv, DkInvTodo, DkInvHeld, DkInvSlips, DkHumanTold, dkSignal, dkInput
<1>1. CASE DkLastRelease
  BY <1>1, DkReleases_Held DEF DkLastRelease
<1>2. CASE DkClose
  <2>1. dkHeld' = {} \/ dkRes'.status = "unknown"
    BY <1>2 DEF DkClose, DkUnknown, DkReleaseFailed
  <2> QED BY <1>2, <2>1, DkReleases_Held DEF DkClose
<1>3. CASE DkReturn
  BY <1>3 DEF DkReturn, DkTold
<1> QED BY <1>1, <1>2, <1>3

\* A step of an action.
LEMMA DkLook_Inv == DkInv /\ DkLook => DkInv'
<1> SUFFICES ASSUME DkInv, DkLook PROVE DkInv'
  OBVIOUS
<1>1. PICK err : DkStepEnds(err) /\ ("human" \in dkStop /\ Head(dkTodo) = "check" => err # "")
  <2> DEFINE read == IF Head(dkTodo) = "check" THEN DkCheck ELSE ""
             failed == IF DkCheck = "" \/ Head(dkTodo) # "check" THEN "refused" ELSE DkCheck
  <2>1. DkStepEnds(read) \/ DkStepEnds(failed)
    BY DEF DkLook
  <2>2. "human" \in dkStop /\ Head(dkTodo) = "check" => read # "" /\ failed # ""
    BY DEF DkCheck
  <2> HIDE DEF read, failed
  <2> QED BY <2>1, <2>2
<1>2. /\ dkAt = "step" /\ Head(dkTodo) \in {"check", "target", "look"}
      /\ UNCHANGED <<dkSignal, dkInput, dkLeft, dkRes, dkWatch, dkSlips>>
  BY DEF DkLook
<1>3. /\ DkInvTodo' /\ dkAt' \in {"step", "acted"}
      /\ err # "" => (dkAt' = "step" => DkGuarded(dkTodo'))
      /\ DkGuarded(dkTodo) /\ Head(dkTodo) \notin {"check", "press"} => (dkAt' = "step" => DkGuarded(dkTodo'))
  BY <1>1, <1>2, DkStepEnds_Todo DEF DkInv
<1>4. DkInvSlips'
  BY <1>1, <1>2, <1>3 DEF DkInv, DkInvSlips, dkSignal
<1> QED BY <1>2, <1>3, <1>4 DEF DkInv, DkInvHeld, DkHumanTold, dkSignal, dkInput

LEMMA DkSend_Inv == DkInv /\ DkSend => DkInv'
<1> SUFFICES ASSUME DkInv, DkSend PROVE DkInv'
  OBVIOUS
<1>1. PICK err : DkStepEnds(err)
  BY DEF DkSend
<1>2. /\ dkAt = "step" /\ Head(dkTodo) = "send" /\ DkSlip
      /\ UNCHANGED <<dkSignal, dkInput, dkLeft, dkRes, dkWatch>>
  BY DEF DkSend
<1>3. DkInvTodo' /\ dkAt' \in {"step", "acted"} /\ (dkAt' = "step" => DkGuarded(dkTodo'))
  BY <1>1, <1>2, DkStepEnds_Todo DEF DkInv
<1>4. dkSlips = 0
  BY <1>2, DkTailGuarded DEF DkInv, DkInvTodo, DkInvSlips
<1>5. DkInvSlips'
  BY <1>2, <1>3, <1>4 DEF DkInvSlips, DkSlip, dkSignal
<1> QED BY <1>2, <1>3, <1>5 DEF DkInv, DkInvHeld, DkHumanTold, dkSignal, dkInput

LEMMA DkPress_Inv == DkInv /\ DkPress => DkInv'
<1> SUFFICES ASSUME DkInv, DkPress PROVE DkInv'
  OBVIOUS
<1>1. /\ dkAt = "step" /\ Head(dkTodo) = "press" /\ dkPressing = {}
      /\ UNCHANGED <<dkSignal, dkDown, dkLeft, dkRes, dkWatch, dkSlips>>
  BY DEF DkPress
<1>2. "human" \in dkStop => DkPressCheck # ""
  BY DEF DkPressCheck, DkCheck
<1>3. CASE DkPressCheck # ""
  <2>1. DkStepEnds(DkPressCheck) /\ UNCHANGED <<dkHeld, dkPressing>>
    BY <1>3 DEF DkPress
  <2>2. DkInvTodo' /\ dkAt' \in {"step", "acted"} /\ (dkAt' = "step" => DkGuarded(dkTodo'))
    BY <1>1, <1>3, <2>1, DkStepEnds_Todo DEF DkInv
  <2>3. DkInvSlips'
    BY <1>1, <2>2 DEF DkInv, DkInvSlips, dkSignal
  <2> QED BY <1>1, <2>1, <2>2, <2>3 DEF DkInv, DkInvHeld, DkHumanTold, dkSignal
<1>4. CASE DkPressCheck = ""
  <2>1. PICK k \in DkKeys : dkPressing' = {k} /\ dkHeld' = dkHeld \union {k}
    BY <1>4 DEF DkPress, DkRegistered
  <2>2. dkAt' = "pressing" /\ UNCHANGED <<dkTodo, dkErr>>
    BY <1>4 DEF DkPress
  <2>3. DkInvTodo' /\ DkInvSlips'
    BY <1>1, <1>2, <1>4, <2>2 DEF DkInv, DkInvTodo, DkInvSlips, dkSignal
  <2> QED BY <1>1, <2>1, <2>2, <2>3 DEF DkInv, DkInvHeld, DkHumanTold, dkSignal
<1> QED BY <1>3, <1>4

LEMMA DkPressSent_Inv == DkInv /\ DkPressSent => DkInv'
<1> SUFFICES ASSUME DkInv, DkPressSent PROVE DkInv'
  OBVIOUS
<1>1. /\ dkAt = "pressing" /\ DkSlip /\ dkPressing' = {} /\ UNCHANGED <<dkSignal, dkLeft, dkRes, dkWatch>>
  BY DEF DkPressSent
<1>2. PICK err : DkStepEnds(err)
  BY DEF DkPressSent
<1>3. dkHeld' = dkHeld /\ dkDown' \subseteq dkDown \union dkPressing
  BY DEF DkPressSent, DkRegistered
<1>4. DkInvTodo' /\ dkAt' \in {"step", "acted"} /\ (dkAt' = "step" => DkGuarded(dkTodo'))
  BY <1>1, <1>2, DkStepEnds_Todo DEF DkInv, DkInvTodo
<1>5. DkInvSlips'
  BY <1>1, <1>4 DEF DkInv, DkInvSlips, DkSlip, dkSignal
<1> QED BY <1>1, <1>3, <1>4, <1>5 DEF DkInv, DkInvHeld, DkHumanTold, dkSignal

LEMMA DkRelease_Inv == DkInv /\ DkRelease => DkInv'
<1> SUFFICES ASSUME DkInv, DkRelease PROVE DkInv'
  OBVIOUS
<1>1. /\ dkAt = "step" /\ Head(dkTodo) \in {"release", "letgo"} /\ DkReleases
      /\ UNCHANGED <<dkSignal, dkLeft, dkRes, dkWatch, dkSlips>>
  BY DEF DkRelease
<1>2. PICK err : DkStepEnds(err)
  BY DEF DkRelease
<1>3. /\ DkInvTodo' /\ dkAt' \in {"step", "acted"}
      /\ DkGuarded(dkTodo) => (dkAt' = "step" => DkGuarded(dkTodo'))
  BY <1>1, <1>2, DkStepEnds_Todo DEF DkInv
<1>4. DkInvSlips'
  BY <1>1, <1>3 DEF DkInv, DkInvSlips, dkSignal
<1> QED BY <1>1, <1>3, <1>4, DkReleases_Held DEF DkInv, DkInvHeld, DkHumanTold, dkSignal

LEMMA DkNext_Inv == DkInv /\ [DkNext]_dkVars => DkInv'
<1> SUFFICES ASSUME DkInv, [DkNext]_dkVars PROVE DkInv'
  OBVIOUS
<1>1. CASE UNCHANGED dkVars
  BY <1>1 DEF dkVars, dkSignal, dkInput, dkRun, DkInv, DkInvTodo, DkInvHeld, DkInvSlips, DkHumanTold
<1>2. CASE DkNext
  BY <1>2, DkSignals_Inv, DkAround_Inv, DkEnd_Inv, DkLook_Inv, DkSend_Inv, DkPress_Inv, DkPressSent_Inv, DkRelease_Inv
     DEF DkNext, DkEngine
<1> QED BY <1>1, <1>2

\* engine.go: when Run has returned nothing it pressed is down unless it says that
\* it does not know, after the person's input at most one more input goes out, and
\* that input is what the controller is told.
THEOREM PersonComesFirst == DkSpec => []DkPersonFirst
<1>1. DkInv => DkPersonFirst
  BY DEF DkInv, DkInvHeld, DkInvSlips, DkHumanTold, DkPersonFirst, DkLetsGo, DkOneSlip
<1> QED BY <1>1, DkInit_Inv, DkNext_Inv, PTL DEF DkSpec

-----------------------------------------------------------------------------
(* Updates an agent installs *)

InPlaces == {"idle", "asking", "gate", "lock", "fetching", "fetched", "replacing", "restart", "none", "done"}
InOps == [at : InPlaces, src : 1..Len(InSources), want : SUBSET InVersions, got : SUBSET InVersions]

\* An installer of the agent's from installReadyLocked to the end of its work.
InMidway(op) == op.at \in {"fetching", "fetched", "replacing"}

InTyped ==
    /\ inOp \in [InSide \cup {"cli"} -> InOps]
    /\ inOffer \in [1..Len(InSources) -> SUBSET InVersions]
    /\ inDisk \in [ver : InVersions, file : Nat]
    /\ inLife \in [ver : InVersions, file : Nat, pending : BOOLEAN, installs : {0, 1}]

\* Such an installer holds installMu, and no update waits for the restart; an
\* agent that has installed one waits for the restart.
InInv ==
    /\ InTyped
    /\ inLife.installs = 1 => inLife.pending
    /\ \A x \in InSide : InMidway(inOp[x]) => inMu = {x} /\ ~inLife.pending

LEMMA InOne == 1 \in 1..Len(InSources)
  BY InAssumption

LEMMA InInit_Inv == InInit => InInv
<1> SUFFICES ASSUME InInit PROVE InInv
  OBVIOUS
<1>1. InIdle \in InOps /\ ~InMidway(InIdle)
  BY InOne DEF InIdle, InOps, InPlaces, InMidway
<1>2. \A x \in InSide \cup {"cli"} : inOp[x] = InIdle
  BY DEF InInit
<1>3. InTyped
  BY <1>1, InAssumption DEF InInit, InTyped
<1>4. inLife.installs = 0
  BY DEF InInit
<1> QED BY <1>1, <1>2, <1>3, <1>4 DEF InInv

\* One installer goes on; it keeps the lock or gives its own back.
LEMMA InGoesOn ==
  ASSUME InInv, NEW x \in InSide \cup {"cli"}, NEW z \in InOps, inOp' = [inOp EXCEPT ![x] = z],
         UNCHANGED <<inDisk, inLife, inOffer>>, inMu' = inMu \/ inMu' = inMu \ {x},
         x \in InSide /\ InMidway(z) => inMu' = {x} /\ ~inLife.pending
  PROVE  InInv'
<1>1. inOp' \in [InSide \cup {"cli"} -> InOps]
  BY DEF InInv, InTyped
<1>2. inOp'[x] = z /\ \A y \in InSide : y # x => inOp'[y] = inOp[y]
  BY DEF InInv, InTyped
<1>3. ASSUME NEW y \in InSide, InMidway(inOp'[y]) PROVE inMu' = {y} /\ ~inLife.pending
  BY <1>2, <1>3 DEF InInv
<1>4. InTyped'
  BY <1>1 DEF InInv, InTyped
<1> QED BY <1>3, <1>4 DEF InInv, InMidway

\* overSources: a request to a source leaves the installer where it was, or
\* sends it on, or ends it.
LEMMA InTry_Inv ==
  ASSUME InInv, NEW x \in InSide \cup {"cli"}, NEW at \in InPlaces, NEW found \in InPlaces, InTry(x, at, found),
         found \in {"fetched", "replacing"} => at = "fetching", found # "fetching"
  PROVE  InInv'
<1> DEFINE k == inOp[x].src
           onward == IF k < Len(InSources) THEN [inOp[x] EXCEPT !.src = k + 1] ELSE [inOp[x] EXCEPT !.at = "none"]
<1>1. inOp[x] \in InOps /\ inOp[x].at = at /\ k \in 1..Len(InSources)
  BY DEF InInv, InTyped, InTry, InOps
<1>2. onward \in InOps /\ onward.at \in {at, "none"}
  <2>1. CASE k < Len(InSources)
    BY <1>1, <2>1, InOne DEF InOps, InPlaces
  <2>2. CASE ~(k < Len(InSources))
    BY <1>1, <2>2, SMTT(40) DEF InOps, InPlaces
  <2> QED BY <2>1, <2>2
<1> HIDE DEF onward
<1>3. \E z \in InOps : inOp' = [inOp EXCEPT ![x] = z] /\ z.at \in {at, "none", found}
  <2>1. CASE inOp' = [inOp EXCEPT ![x] = onward]
    BY <1>2, <2>1
  <2>2. ASSUME NEW offer \in inOffer[k], offer \in InVersions,
               inOp' = [inOp EXCEPT ![x] = CASE InVerdict(x, offer) = "take" -> [@ EXCEPT !.at = found, !.src = 1, !.got = {offer}]
                                             [] InVerdict(x, offer) = "current" -> [@ EXCEPT !.at = "none"]
                                             [] OTHER -> onward]
        PROVE  \E z \in InOps : inOp' = [inOp EXCEPT ![x] = z] /\ z.at \in {at, "none", found}
    <3>1. CASE InVerdict(x, offer) = "take"
      <4>1. [inOp[x] EXCEPT !.at = found, !.src = 1, !.got = {offer}] \in InOps
            /\ [inOp[x] EXCEPT !.at = found, !.src = 1, !.got = {offer}].at = found
        BY <1>1, <2>2, InOne DEF InOps, InPlaces
      <4>2. inOp' = [inOp EXCEPT ![x] = [inOp[x] EXCEPT !.at = found, !.src = 1, !.got = {offer}]]
        BY <2>2, <3>1 DEF InInv, InTyped
      <4> QED BY <4>1, <4>2
    <3>2. CASE InVerdict(x, offer) = "current"
      <4>1. [inOp[x] EXCEPT !.at = "none"] \in InOps /\ [inOp[x] EXCEPT !.at = "none"].at = "none"
        BY <1>1 DEF InOps, InPlaces
      <4>2. inOp' = [inOp EXCEPT ![x] = [inOp[x] EXCEPT !.at = "none"]]
        BY <2>2, <3>2 DEF InInv, InTyped
      <4> QED BY <4>1, <4>2
    <3>3. CASE InVerdict(x, offer) # "take" /\ InVerdict(x, offer) # "current"
      <4>1. inOp' = [inOp EXCEPT ![x] = onward]
        BY <2>2, <3>3
      <4> QED BY <1>2, <4>1
    <3> QED BY <3>1, <3>2, <3>3
  <2>3. ASSUME NEW offer \in inOffer[k] PROVE offer \in InVersions
    BY <1>1, <2>3 DEF InInv, InTyped
  <2> QED BY <2>1, <2>2, <2>3, ZenonT(30) DEF InTry, onward
<1>4. PICK z \in InOps : inOp' = [inOp EXCEPT ![x] = z] /\ z.at \in {at, "none", found}
  BY <1>3
<1>5. UNCHANGED <<inDisk, inLife, inOffer, inMu>>
  BY DEF InTry
<1>6. InMidway(z) => InMidway(inOp[x])
  <2>1. found \in {"fetched", "replacing"} => at = "fetching"
    OBVIOUS
  <2>2. found # "fetching"
    OBVIOUS
  <2> QED BY <1>1, <1>4, <2>1, <2>2 DEF InMidway
<1> QED BY <1>4, <1>5, <1>6, InGoesOn DEF InInv

\* The automatic update, up to the lock.
LEMMA InAuto_Inv ==
  ASSUME InInv, InCheck \/ InGate \/ InGivesUp("auto") \/ InGivesUp("web") \/ InGivesUp("cli")
  PROVE  InInv'
<1>1. InIdle \in InOps /\ ~InMidway(InIdle) /\ [InIdle EXCEPT !.at = "done"] \in InOps
  BY InOne DEF InIdle, InOps, InPlaces, InMidway
<1>2. \A x \in InSide \cup {"cli"} : inOp[x] \in InOps
  BY DEF InInv, InTyped
<1>3. "auto" \in InSide /\ "web" \in InSide /\ "cli" \notin InSide
  BY DEF InSide
<1>4. CASE InCheck
  <2>1. [inOp["auto"] EXCEPT !.at = "asking"] \in InOps /\ ~InMidway([inOp["auto"] EXCEPT !.at = "asking"])
    BY <1>2, <1>3 DEF InOps, InPlaces, InMidway
  <2>2. inOp' = [inOp EXCEPT !["auto"] = [inOp["auto"] EXCEPT !.at = "asking"]]
    BY <1>4 DEF InCheck, InInv, InTyped
  <2> QED BY <1>3, <1>4, <2>1, <2>2, InGoesOn DEF InCheck, inWorld
<1>5. CASE InGate
  <2> DEFINE z == [inOp["auto"] EXCEPT !.at = "lock", !.got = {}]
  <2>1. z \in InOps /\ ~InMidway(z)
    BY <1>2, <1>3 DEF InOps, InPlaces, InMidway
  <2> HIDE DEF z
  <2>2. inOp' = [inOp EXCEPT !["auto"] = InIdle] \/ inOp' = [inOp EXCEPT !["auto"] = z]
    BY <1>5, <1>3 DEF InGate, InInv, InTyped, z
  <2> QED BY <1>1, <1>3, <1>5, <2>1, <2>2, InGoesOn DEF InGate, inWorld
<1>6. ASSUME NEW x \in InSide \cup {"cli"}, InGivesUp(x) PROVE InInv'
  <2>1. PICK z \in InOps : inOp' = [inOp EXCEPT ![x] = z] /\ (x \in InSide => z = InIdle)
    BY <1>1, <1>3, <1>6 DEF InGivesUp
  <2> QED BY <1>1, <1>6, <2>1, InGoesOn DEF InGivesUp, inWorld
<1> QED BY <1>3, <1>4, <1>5, <1>6

LEMMA InAutoLock_Inv == InInv /\ InAutoLock => InInv'
<1> SUFFICES ASSUME InInv, InAutoLock PROVE InInv'
  OBVIOUS
<1>1. /\ inMu = {} /\ inMu' = {"auto"} /\ UNCHANGED <<inDisk, inOffer>>
      /\ inLife' = [inLife EXCEPT !.pending = inLife.pending \/ ~InUnchanged]
  BY DEF InAutoLock, inWorld, InInv, InTyped
<1> DEFINE z == [inOp["auto"] EXCEPT !.at = IF InReady THEN "fetching" ELSE "none"]
<1>2. inOp["auto"] \in InOps
  BY DEF InInv, InTyped, InSide
<1>3. z \in InOps /\ (InMidway(z) => InReady)
  BY <1>2 DEF InOps, InPlaces, InMidway
<1>4. inOp' = [inOp EXCEPT !["auto"] = z]
  BY DEF InAutoLock, InInv, InTyped
<1> HIDE DEF z
<1>5. InTyped'
  BY <1>1, <1>3, <1>4 DEF InInv, InTyped, InUnchanged
<1>6. inLife'.installs = inLife.installs /\ (inLife.pending => inLife'.pending)
      /\ (InReady => ~inLife'.pending)
  BY <1>1 DEF InInv, InTyped, InReady
<1>7. ASSUME NEW y \in InSide, InMidway(inOp'[y]) PROVE inMu' = {y} /\ ~inLife'.pending
  <2>1. CASE y = "auto"
    BY <1>1, <1>3, <1>4, <1>6, <1>7, <2>1 DEF InInv, InTyped
  <2>2. CASE y # "auto"
    BY <1>1, <1>4, <1>7, <2>2 DEF InInv, InTyped
  <2> QED BY <2>1, <2>2
<1> QED BY <1>5, <1>6, <1>7 DEF InInv, InMidway

LEMMA InWebBegin_Inv == ASSUME InInv, NEW want \in InVersions, InWebBegin(want) PROVE InInv'
<1>1. /\ inMu = {} /\ inMu' = {"web"} /\ UNCHANGED <<inDisk, inOffer, inLife>> /\ ~inLife.pending
  BY DEF InWebBegin, inWorld, InReady
<1> DEFINE z == [InIdle EXCEPT !.at = "fetching", !.want = {want}]
<1>2. z \in InOps
  BY InOne DEF InOps, InPlaces, InIdle
<1>3. inOp' = [inOp EXCEPT !["web"] = z]
  BY DEF InWebBegin, InInv, InTyped
<1> HIDE DEF z
<1>4. InTyped'
  BY <1>1, <1>2, <1>3 DEF InInv, InTyped
<1>5. ASSUME NEW y \in InSide, InMidway(inOp'[y]) PROVE inMu' = {y} /\ ~inLife'.pending
  <2>1. CASE y = "web"
    BY <1>1, <2>1
  <2>2. CASE y # "web"
    BY <1>1, <1>3, <1>5, <2>2 DEF InInv, InTyped
  <2> QED BY <2>1, <2>2
<1> QED BY <1>1, <1>4, <1>5 DEF InInv, InMidway

LEMMA InWebRefused_Inv == InInv /\ InWebRefused => InInv'
<1> SUFFICES ASSUME InInv, InWebRefused PROVE InInv'
  OBVIOUS
<1>1. inMu = {} /\ UNCHANGED <<inDisk, inOffer, inMu, inOp>> /\ inLife' = [inLife EXCEPT !.pending = TRUE]
  BY DEF InWebRefused, inWorld
<1>2. InTyped' /\ inLife'.pending
  BY <1>1 DEF InInv, InTyped
<1> QED BY <1>1, <1>2 DEF InInv, InMidway

LEMMA InWebRecheck_Inv == InInv /\ InWebRecheck => InInv'
<1> SUFFICES ASSUME InInv, InWebRecheck PROVE InInv'
  OBVIOUS
<1>1. /\ UNCHANGED <<inDisk, inOffer, inMu>> /\ inMu = {"web"} /\ ~inLife.pending
      /\ inLife' = [inLife EXCEPT !.pending = inLife.pending \/ ~InUnchanged]
  BY DEF InWebRecheck, inWorld, InInv, InTyped, InMidway, InSide
<1> DEFINE z == [inOp["web"] EXCEPT !.at = IF InUnchanged THEN "replacing" ELSE "none"]
<1>2. inOp["web"] \in InOps
  BY DEF InInv, InTyped, InSide
<1>3. z \in InOps /\ (InMidway(z) => InUnchanged)
  BY <1>2 DEF InOps, InPlaces, InMidway
<1>4. inOp' = [inOp EXCEPT !["web"] = z]
  BY DEF InWebRecheck, InInv, InTyped
<1> HIDE DEF z
<1>5. InTyped'
  BY <1>1, <1>3, <1>4 DEF InInv, InTyped, InUnchanged
<1>6. inLife'.installs = inLife.installs /\ (inLife.pending => inLife'.pending)
      /\ (InUnchanged => ~inLife'.pending)
  BY <1>1 DEF InInv, InTyped
<1>7. ASSUME NEW y \in InSide, InMidway(inOp'[y]) PROVE inMu' = {y} /\ ~inLife'.pending
  <2>1. CASE y = "web"
    BY <1>1, <1>3, <1>4, <1>6, <1>7, <2>1 DEF InInv, InTyped
  <2>2. CASE y # "web"
    BY <1>1, <1>4, <1>7, <2>2 DEF InInv, InTyped
  <2> QED BY <2>1, <2>2
<1> QED BY <1>5, <1>6, <1>7 DEF InInv, InMidway

\* The swap of the binary: the first of this agent's life, as no update waited.
LEMMA InInstalls_Inv == ASSUME InInv, NEW x \in InSide, InInstalls(x) PROVE InInv'
<1>1. inOp[x].at = "replacing" /\ inOp[x] \in InOps /\ InMidway(inOp[x])
  BY DEF InInstalls, InInv, InTyped, InMidway
<1>2. inMu = {x} /\ ~inLife.pending /\ inLife.installs = 0
  BY <1>1 DEF InInv, InTyped
<1>3. PICK v \in inOp[x].got : inDisk' = [ver |-> v, file |-> inDisk.file + 1]
  BY DEF InInstalls, InReplaced
<1>4. v \in InVersions /\ inDisk.file \in Nat
  BY <1>1, <1>3 DEF InOps, InInv, InTyped
<1> DEFINE z == [InIdle EXCEPT !.at = "restart"]
<1>5. z \in InOps /\ ~InMidway(z)
  BY InOne DEF InIdle, InOps, InPlaces, InMidway
<1>6. inOp' = [inOp EXCEPT ![x] = z]
  BY DEF InInstalls
<1> HIDE DEF z
<1>7. inLife' = [inLife EXCEPT !.pending = TRUE, !.installs = 1]
  BY <1>2 DEF InInstalls, InInv, InTyped
<1>8. UNCHANGED inOffer
  BY DEF InInstalls, inWorld
<1>9. InTyped' /\ inLife'.pending
  <2>1. inLife' \in [ver : InVersions, file : Nat, pending : BOOLEAN, installs : {0, 1}] /\ inLife'.pending
    BY <1>7 DEF InInv, InTyped
  <2>2. inOp' \in [InSide \cup {"cli"} -> InOps]
    BY <1>5, <1>6 DEF InInv, InTyped
  <2> QED BY <1>3, <1>4, <1>8, <2>1, <2>2 DEF InInv, InTyped
<1>10. ASSUME NEW y \in InSide PROVE ~InMidway(inOp'[y])
  <2>1. CASE y = x
    BY <1>5, <1>6, <2>1 DEF InInv, InTyped
  <2>2. CASE y # x
    BY <1>2, <1>6, <2>2 DEF InInv, InTyped
  <2> QED BY <2>1, <2>2
<1> QED BY <1>9, <1>10 DEF InInv, InMidway

LEMMA InRestart_Inv == ASSUME InInv, NEW x \in InSide \cup {"cli"}, InRestart(x) PROVE InInv'
<1>1. InIdle \in InOps /\ ~InMidway(InIdle) /\ [InIdle EXCEPT !.at = "done"] \in InOps
  BY InOne DEF InIdle, InOps, InPlaces, InMidway
<1>2. /\ inLife' = [ver |-> inDisk.ver, file |-> inDisk.file, pending |-> FALSE, installs |-> 0]
      /\ UNCHANGED <<inDisk, inOffer>>
  BY DEF InRestart
<1>3. DOMAIN inOp = InSide \cup {"cli"} /\ "cli" \notin InSide
  BY DEF InInv, InTyped, InSide
<1>4. inOp' = [y \in InSide \cup {"cli"} |->
                 IF y = "cli" THEN (IF x = "cli" THEN [InIdle EXCEPT !.at = "done"] ELSE inOp[y]) ELSE InIdle]
  BY <1>3 DEF InRestart
<1>5. inOp' \in [InSide \cup {"cli"} -> InOps]
  BY <1>1, <1>4 DEF InInv, InTyped
<1>6. \A y \in InSide : inOp'[y] = InIdle
  BY <1>3, <1>4
<1>7. InTyped' /\ inLife'.installs = 0
  BY <1>2, <1>5 DEF InInv, InTyped
<1> QED BY <1>1, <1>6, <1>7 DEF InInv, InMidway

LEMMA InCli_Inv ==
  ASSUME InInv, NEW want \in {{}} \cup {{v} : v \in InVersions}, InCliBegin(want) \/ InCliInstalls
  PROVE  InInv'
<1>1. "cli" \in InSide \cup {"cli"} /\ "cli" \notin InSide
  BY DEF InSide
<1>2. CASE InCliBegin(want)
  <2> DEFINE z == [InIdle EXCEPT !.at = "fetching", !.want = want]
  <2>1. z \in InOps
    BY InOne DEF InOps, InPlaces, InIdle
  <2>2. inOp' = [inOp EXCEPT !["cli"] = z]
    BY <1>2 DEF InCliBegin
  <2> HIDE DEF z
  <2> QED BY <1>1, <1>2, <2>1, <2>2, InGoesOn DEF InCliBegin, inWorld
<1>3. CASE InCliInstalls
  <2> DEFINE z == [InIdle EXCEPT !.at = "restart"]
  <2>1. z \in InOps
    BY InOne DEF InOps, InPlaces, InIdle
  <2>2. inOp' = [inOp EXCEPT !["cli"] = z]
    BY <1>3 DEF InCliInstalls
  <2> HIDE DEF z
  <2>3. PICK v \in inOp["cli"].got : inDisk' = [ver |-> v, file |-> inDisk.file + 1]
    BY <1>3 DEF InCliInstalls, InReplaced
  <2>4. inDisk' \in [ver : InVersions, file : Nat]
    BY <1>1, <2>3 DEF InInv, InTyped, InOps
  <2>5. inOp' \in [InSide \cup {"cli"} -> InOps] /\ \A y \in InSide : inOp'[y] = inOp[y]
    BY <1>1, <2>1, <2>2 DEF InInv, InTyped
  <2>6. UNCHANGED <<inLife, inMu, inOffer>>
    BY <1>3 DEF InCliInstalls, inWorld
  <2> QED BY <2>4, <2>5, <2>6 DEF InInv, InTyped, InMidway
<1> QED BY <1>2, <1>3

LEMMA InNext_Inv == InInv /\ [InNext]_inVars => InInv'
<1> SUFFICES ASSUME InInv, [InNext]_inVars PROVE InInv'
  OBVIOUS
<1>1. "auto" \in InSide /\ "web" \in InSide
  BY DEF InSide
<1>2. CASE InCheck \/ InGate \/ InGivesUp("auto") \/ InGivesUp("web") \/ InGivesUp("cli")
  BY <1>2, InAuto_Inv
<1>3. CASE InAsk
  BY <1>1, <1>3, InTry_Inv DEF InAsk, InPlaces
<1>4. ASSUME NEW x \in {"auto", "web", "cli"}, InFetch(x) PROVE InInv'
  BY <1>1, <1>4, InTry_Inv DEF InFetch, InPlaces
<1>5. CASE InAutoLock \/ InWebRefused \/ InWebRecheck
  BY <1>5, InAutoLock_Inv, InWebRefused_Inv, InWebRecheck_Inv
<1>6. CASE InInstalls("auto") \/ InInstalls("web")
  BY <1>1, <1>6, InInstalls_Inv
<1>7. ASSUME NEW x \in {"auto", "web", "cli"}, InRestart(x) PROVE InInv'
  BY <1>1, <1>7, InRestart_Inv
<1>8. ASSUME NEW want \in InVersions, InWebBegin(want) PROVE InInv'
  BY <1>8, InWebBegin_Inv
<1>9. ASSUME NEW want \in {{}} \cup {{v} : v \in InVersions}, InCliBegin(want) \/ InCliInstalls PROVE InInv'
  BY <1>9, InCli_Inv
<1>10. CASE InCliInstalls
  BY <1>9, <1>10
<1>11. ASSUME NEW v \in InVersions, NEW i \in 1..Len(InSources), InPublish(i, v) PROVE InInv'
  <2>1. inOffer' = [inOffer EXCEPT ![i] = {v}] /\ UNCHANGED <<inDisk, inLife, inMu, inOp>>
    BY <1>11 DEF InPublish
  <2>2. inOffer' \in [1..Len(InSources) -> SUBSET InVersions]
    BY <2>1 DEF InInv, InTyped
  <2> QED BY <2>1, <2>2 DEF InInv, InTyped, InMidway
<1>12. CASE InWorkEnds \/ InWorkBegins \/ UNCHANGED inVars
  BY <1>12 DEF InWorkEnds, InWorkBegins, inVars, InInv, InTyped, InMidway
<1> QED BY <1>2, <1>3, <1>4, <1>5, <1>6, <1>7, <1>8, <1>9, <1>10, <1>11, <1>12
        DEF InNext, InAutoSteps, InAskedSteps

\* autoupdate.go and install.go: once a binary waits for the restart neither the
\* portal nor the updater replaces it again.
THEOREM OneUpdatePerLife == InSpec => []InOnePerLife
<1>1. InInv => InOnePerLife
  BY DEF InInv, InTyped, InOnePerLife
<1> QED BY <1>1, InInit_Inv, InNext_Inv, PTL DEF InSpec

\* The parts of a device together: requests served in order and within their
\* scope, nothing left running in a closed agent, the person at the machine
\* first, one update in an agent's life.
THEOREM DeviceHolds == LoopSpec /\ AcSpec /\ DkSpec /\ InSpec => []DeviceSafe
BY RequestsInOrder, ClosedIsQuiet, PersonComesFirst, OneUpdatePerLife, PTL DEF DeviceSafe
=============================================================================
