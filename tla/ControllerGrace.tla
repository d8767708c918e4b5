-------------------------- MODULE ControllerGrace --------------------------
(***************************************************************************)
(* How the relay notices that a controller has gone (internal/relay,        *)
(* http_disconnect.go and its two calls in handleHDown).  An idle poll that *)
(* is cancelled may be a carrier reset, so it only starts a grace period;   *)
(* the next poll to arrive ends it, and when it runs out the session is     *)
(* removed.  Handlers notice a cancellation late and in any order, and a    *)
(* timer that was stopped may already be running its callback.              *)
(*                                                                         *)
(* RelaySession has the rest of a session's life: here it is registered,    *)
(* ending (a side has closed, or the device is gone) or removed.            *)
(***************************************************************************)
EXTENDS Integers, FiniteSets

CONSTANTS
    MaxPolls    \* bound: polls the controller sends in one behaviour

ASSUME GraceConstants == MaxPolls \in Nat \ {0}

Polls == 1..MaxPolls

VARIABLES
    \* the controller's carrier (internal/httpconn)
    here,      \* the process is there and polls
    sent,      \* polls sent so far; they are numbered in that order
    numbered,  \* those of a window (want=)
    live,      \* those the controller still waits for
    \* the relay
    ph,        \* ph[p]: "none", "net", "found" (past the session lookup), "serving", "done"
    pgen,      \* pgen[p]: what controllerPollStarted returned, 0 if the session had gone
    gen,       \* clientPollGeneration
    timer,     \* clientDisconnectTimer: 0 for nil, else the generation it was set for
    ticking,   \* timers that can still fire
    fired,     \* callbacks that have started and wait for hmu
    ending,    \* closedAt or endReason is set
    goneBy     \* "" while registered, else "grace" or "other"

carrier == <<here, sent, numbered, live>>
grace == <<gen, timer, ticking, fired>>
vars == <<here, sent, numbered, live, ph, pgen, gen, timer, ticking, fired, ending, goneBy>>

Registered == goneBy = ""

Init ==
    /\ here = TRUE /\ sent = 0 /\ numbered = {} /\ live = {}
    /\ ph = [p \in Polls |-> "none"] /\ pgen = [p \in Polls |-> 0]
    /\ gen = 0 /\ timer = 0 /\ ticking = {} /\ fired = {}
    /\ ending = FALSE /\ goneBy = ""

-----------------------------------------------------------------------------
(* The controller *)

\* Read: one unnumbered poll at a time, or a window of numbered ones.
SendPoll(inWindow) ==
    /\ here /\ sent < MaxPolls
    /\ IF inWindow THEN live \subseteq numbered ELSE live = {}
    /\ sent' = sent + 1
    /\ numbered' = IF inWindow THEN numbered \cup {sent + 1} ELSE numbered
    /\ live' = live \cup {sent + 1}
    /\ ph' = [ph EXCEPT ![sent + 1] = "net"]
    /\ UNCHANGED <<here, pgen, grace, ending, goneBy>>

\* The carrier fails the poll, or a window is closed with it.
Abandon(p) ==
    /\ p \in live /\ live' = live \ {p}
    /\ UNCHANGED <<here, sent, numbered, ph, pgen, grace, ending, goneBy>>

\* The process dies, or its link does.
Vanish ==
    /\ here /\ here' = FALSE /\ live' = {}
    /\ UNCHANGED <<sent, numbered, ph, pgen, grace, ending, goneBy>>

-----------------------------------------------------------------------------
(* handleHDown *)

Ends(p) == ph' = [ph EXCEPT ![p] = "done"] /\ live' = live \ {p}

\* The request of an abandoned poll never arrives.
Lost(p) ==
    /\ ph[p] = "net" /\ p \notin live /\ Ends(p)
    /\ UNCHANGED <<here, sent, numbered, pgen, grace, ending, goneBy>>

\* authAccess, which reads the token store, and sessionForAccess.
Lookup(p) ==
    /\ ph[p] = "net"
    /\ IF Registered THEN ph' = [ph EXCEPT ![p] = "found"] /\ UNCHANGED live ELSE Ends(p)
    /\ UNCHANGED <<here, sent, numbered, pgen, grace, ending, goneBy>>

\* The poll ends the grace period but leaves the generation.
PollStartedSameGen(p) ==
    /\ ph[p] = "found"
    /\ ph' = [ph EXCEPT ![p] = "serving"]
    /\ gen' = IF gen = 0 THEN 1 ELSE gen
    /\ pgen' = [pgen EXCEPT ![p] = gen']
    /\ timer' = 0 /\ ticking' = ticking \ {timer}
    /\ UNCHANGED <<fired, carrier, ending, goneBy>>

\* controllerPollStarted, which takes polls in whatever order they come.  Stop
\* does nothing to a callback that has started.
PollStarted(p) ==
    /\ ph[p] = "found"
    /\ ph' = [ph EXCEPT ![p] = "serving"]
    /\ IF Registered
       THEN /\ gen' = gen + 1
            /\ pgen' = [pgen EXCEPT ![p] = gen + 1]
            /\ timer' = 0 /\ ticking' = ticking \ {timer}
       ELSE UNCHANGED <<gen, pgen, timer, ticking>>
    /\ UNCHANGED <<fired, carrier, ending, goneBy>>

\* The poll is answered, or it was cancelled with bytes in hand, in a window, or
\* after the session had gone: nothing is concluded from it.
Answered(p) ==
    /\ ph[p] = "serving" /\ Ends(p)
    /\ UNCHANGED <<here, sent, numbered, pgen, grace, ending, goneBy>>

\* A second timer replaces the first.
PollCancelledTwice(p) ==
    /\ ph[p] = "serving" /\ p \notin live /\ p \notin numbered /\ pgen[p] # 0
    /\ Ends(p)
    /\ timer' = pgen[p] /\ ticking' = ticking \cup {pgen[p]}
    /\ UNCHANGED <<here, sent, numbered, pgen, gen, fired, ending, goneBy>>

\* controllerPollCancelled: an idle unnumbered poll finds its request gone.
PollCancelled(p) ==
    /\ ph[p] = "serving" /\ p \notin live /\ p \notin numbered /\ pgen[p] # 0
    /\ Ends(p)
    /\ IF Registered /\ gen = pgen[p] /\ ~ending /\ timer = 0
       THEN timer' = pgen[p] /\ ticking' = ticking \cup {pgen[p]}
       ELSE UNCHANGED <<timer, ticking>>
    /\ UNCHANGED <<here, sent, numbered, pgen, gen, fired, ending, goneBy>>

\* controllerDisconnectGrace has passed.
TimerFires(g) ==
    /\ g \in ticking
    /\ ticking' = ticking \ {g} /\ fired' = fired \cup {g}
    /\ UNCHANGED <<carrier, ph, pgen, gen, timer, ending, goneBy>>

\* The field is cleared only once the session is known to be there and open.
ExpireKeepsTimer(g) ==
    /\ g \in fired /\ fired' = fired \ {g}
    /\ IF gen # g \/ timer = 0 \/ ~Registered \/ ending THEN UNCHANGED <<timer, goneBy>>
       ELSE timer' = 0 /\ goneBy' = "grace"
    /\ UNCHANGED <<carrier, ph, pgen, gen, ticking, ending>>

\* expireControllerDisconnect: the session leaves under the lock polls arrive
\* under.
Expire(g) ==
    /\ g \in fired /\ fired' = fired \ {g}
    /\ IF gen # g \/ timer = 0 THEN UNCHANGED <<timer, goneBy>>
       ELSE /\ timer' = 0
            /\ goneBy' = IF Registered /\ ~ending THEN "grace" ELSE goneBy
    /\ UNCHANGED <<carrier, ph, pgen, gen, ticking, ending>>

\* A side closes or the device is gone; the session leaves some other way.
EndsOtherwise ==
    /\ \/ ~ending /\ ending' = TRUE /\ UNCHANGED goneBy
       \/ Registered /\ goneBy' = "other" /\ UNCHANGED ending
    /\ UNCHANGED <<carrier, ph, pgen, grace>>

HandlerWork ==
    \/ \E p \in Polls : Lookup(p) \/ PollStarted(p) \/ Answered(p) \/ PollCancelled(p)
    \/ \E g \in ticking : TimerFires(g)
    \/ \E g \in fired : Expire(g)

Next ==
    \/ HandlerWork \/ EndsOtherwise \/ Vanish
    \/ \E inWindow \in BOOLEAN : SendPoll(inWindow)
    \/ \E p \in Polls : Abandon(p) \/ Lost(p)

\* Handlers and callbacks run and timers fire.  Nothing makes the controller
\* poll, fail or stay.
Spec == Init /\ [][Next]_vars
LiveSpec == Spec /\ WF_vars(HandlerWork)

-----------------------------------------------------------------------------
(* Properties *)

\* The variables keep their types; at most one timer runs, for the latest poll.
TypeOK ==
    /\ here \in BOOLEAN /\ ending \in BOOLEAN
    /\ sent \in 0..MaxPolls
    /\ numbered \subseteq Polls /\ live \subseteq Polls
    /\ ph \in [Polls -> {"none", "net", "found", "serving", "done"}]
    /\ gen \in Nat /\ pgen \in [Polls -> Nat]
    /\ timer \in {0, gen}
    /\ ticking \in {{}, {timer}} /\ fired \subseteq Nat
    /\ goneBy \in {"", "grace", "other"}

\* Poll q overtook an abandoned one on the way to controllerPollStarted: it was
\* sent after that one and started before it.
Overtook(q) == \E p \in 1..(q - 1) : p \notin numbered /\ p \notin live /\ pgen[p] > pgen[q]

\* "Allow downPoll's carrier-failure retry to reconnect before treating an
\* abandoned idle poll as a disconnected controller" (internal/relay/http.go,
\* handleHDown): the grace period never removes a session while a poll that the
\* controller still waits for is being served, unless every such poll overtook
\* an abandoned one.  The cancellation of that one, which started last, is then
\* taken for the latest news of the controller.
GraceSparesLive ==
    [][Registered /\ goneBy' = "grace" =>
        \A q \in live : ph[q] = "serving" => Overtook(q)]_vars

\* A grace period ends: a poll arrives or the session is removed.  A stopped
\* timer, a late cancellation and an old callback never leave one that nothing
\* will end, which would keep the session of a vanished controller.
InGracePeriod == timer # 0
GraceEnds == <>[]~InGracePeriod

(***************************************************************************)
(* The inductive invariant behind GraceSparesLive.                          *)
(***************************************************************************)
\* An unnumbered poll is sent when no other is waited for.
SerialAlone ==
    /\ \A p \in live : p \notin numbered => live = {p}
    /\ \A p \in 1..sent : p \notin numbered => \A q \in live : p <= q
    /\ live \subseteq 1..sent /\ \A p \in Polls : p > sent => ph[p] = "none"

\* A timer or callback stands for an unnumbered poll that nobody waits for.
TimersAreAbandoned ==
    /\ \A g \in ticking : g \notin fired /\ g # 0
    /\ \A g \in ticking \cup fired :
          \E p \in Polls : pgen[p] = g /\ p \notin numbered /\ p \notin live /\ ph[p] = "done"

\* controllerPollStarted gives no generation twice, and the latest last.
GenerationsDiffer ==
    /\ \A p \in Polls : pgen[p] <= gen
    /\ \A p, q \in Polls : pgen[p] = pgen[q] /\ pgen[p] # 0 => p = q

\* A poll being served has a generation unless the session had gone, and only a
\* poll that has started has one.
ServedHasGeneration ==
    \A q \in live : ph[q] = "serving" /\ pgen[q] = 0 => ~Registered
GenerationsAreStarted ==
    \A p \in Polls : pgen[p] # 0 => ph[p] \in {"serving", "done"}

GraceInv == /\ TypeOK /\ SerialAlone /\ TimersAreAbandoned /\ GenerationsDiffer
            /\ ServedHasGeneration /\ GenerationsAreStarted
=============================================================================
