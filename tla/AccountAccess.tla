--------------------------- MODULE AccountAccess ---------------------------
(***************************************************************************)
(* What holds a session open is an access lease (internal/relay,            *)
(* delegation_auth.go): every carrier leg of a dial is registered with it   *)
(* as a closer.  When an account is disabled (disable.go) or a share is     *)
(* taken back, the relay looks through the leases and closes those it       *)
(* concerns, while dials and registrations go on.  A dial therefore         *)
(* publishes its lease before it asks whether the account is enabled, and a *)
(* leg that comes after the lease has closed is closed on the spot.         *)
(*                                                                         *)
(* One account is followed, with one device of its own and the dials into   *)
(* that device from another account, which all rest on one share.           *)
(***************************************************************************)
EXTENDS Integers, Sequences, FiniteSets

CONSTANTS
    Dials,       \* the dials
    Polls,       \* the device's registrations (/h/poll requests or /agent sockets)
    MaxChanges   \* bound: times the flag or the share changes

ASSUME AccessConstants == IsFiniteSet(Dials) /\ IsFiniteSet(Polls) /\ MaxChanges \in Nat

\* The carrier legs of each kind of dial, in the order they are opened: HTTP to
\* HTTP, WebSocket to WebSocket, and the two bridges.  A "session" is an entry
\* of hsess and comes before the lease, the connections come after it.
Legs == [http |-> <<"session">>, ws |-> <<"client", "agent">>,
         wsToHTTP |-> <<"session", "client">>, httpToWS |-> <<"session", "agent">>]
Kinds == DOMAIN Legs

VARIABLES
    disabled,   \* the account's flag in the store
    shared,     \* the share's row in the store
    changes,
    kind, pc,   \* each dial's handler
    legs,       \* legs[d]: those still to be registered with the lease
    open,       \* open[d]: legs that are open
    leases,     \* r.leases
    done,       \* leases whose done channel is closed
    closers,    \* closers[d]: legs registered with the lease
    closing,    \* closing[d]: where accessLease.close is
    running,    \* closers close has taken and not run yet
    registered, \* the device's entry of hagents or agents
    poll,       \* each registration's handler; "published" holds registrationMu
    disabler, revoker,  \* the two sweeps
    held,       \* held[sweep]: leases of its snapshot it has not dealt with
    late        \* dials that were past the share check and had no lease when it was taken back

stores == <<disabled, shared, changes>>
dials == <<kind, pc, legs, open>>
lease == <<leases, done, closers, closing, running>>
registry == <<registered, poll>>
sweeps == <<disabler, revoker, held, late>>
vars == <<disabled, shared, changes, kind, pc, legs, open, leases, done, closers,
          closing, running, registered, poll, disabler, revoker, held, late>>

Init ==
    /\ disabled = FALSE /\ shared = TRUE /\ changes = 0
    /\ kind \in [Dials -> Kinds]
    /\ pc = [d \in Dials |-> "start"]
    /\ legs = [d \in Dials |-> Legs[kind[d]]]
    /\ open = [d \in Dials |-> {}]
    /\ leases = {} /\ done = {}
    /\ closers = [d \in Dials |-> {}]
    /\ closing = [d \in Dials |-> "no"]
    /\ running = [d \in Dials |-> {}]
    /\ registered = FALSE /\ poll = [p \in Polls |-> "off"]
    /\ disabler = "idle" /\ revoker = "idle"
    /\ held = [s \in {"disabler", "revoker"} |-> {}]
    /\ late = {}

-----------------------------------------------------------------------------
(* accessLease *)

\* close: the first caller's steps; every caller waits for "closed".
RequestClose(d) == closing' = [closing EXCEPT ![d] = IF @ = "no" THEN "asked" ELSE @]

\* A leg that comes late is filed with a lease nobody will close again.
AddCloserLate(d, leg) ==
    /\ closers' = [closers EXCEPT ![d] = @ \cup {leg}]
    /\ UNCHANGED open

AddCloser(d, leg) ==
    IF d \in done
    THEN open' = [open EXCEPT ![d] = @ \ {leg}] /\ UNCHANGED closers
    ELSE closers' = [closers EXCEPT ![d] = @ \cup {leg}] /\ UNCHANGED open

CloseLease(d) ==
    /\ \/ /\ closing[d] = "asked"
          /\ closing' = [closing EXCEPT ![d] = "marked"]
          /\ done' = done \cup {d}
          /\ running' = [running EXCEPT ![d] = closers[d]]
          /\ closers' = [closers EXCEPT ![d] = {}]
          /\ UNCHANGED <<leases, open>>
       \/ /\ closing[d] = "marked"
          /\ closing' = [closing EXCEPT ![d] = "unlisted"]
          /\ leases' = leases \ {d}
          /\ UNCHANGED <<done, running, closers, open>>
       \/ /\ closing[d] = "unlisted" /\ running[d] # {}
          /\ \E leg \in running[d] :
                /\ running' = [running EXCEPT ![d] = @ \ {leg}]
                /\ open' = [open EXCEPT ![d] = @ \ {leg}]
          /\ UNCHANGED <<closing, leases, done, closers>>
       \/ /\ closing[d] = "unlisted" /\ running[d] = {}
          /\ closing' = [closing EXCEPT ![d] = "closed"]
          /\ UNCHANGED <<leases, done, running, closers, open>>
    /\ UNCHANGED <<stores, kind, pc, legs, registry, sweeps>>

\* The session ends by itself, is swept, its credential expires, or a request on
\* it finds the credential no longer valid.
LeaseEnds(d) ==
    /\ pc[d] = "up" /\ closing[d] = "no"
    /\ RequestClose(d)
    /\ UNCHANGED <<stores, dials, leases, done, closers, running, registry, sweeps>>

-----------------------------------------------------------------------------
(* A dial: handleHDial, handleDial, handleWSDialToHTTP, handleHDialToWS *)

Goto(d, where) == pc' = [pc EXCEPT ![d] = where]

\* authAccess: the token of a disabled account is refused.
Authenticate(d) ==
    /\ pc[d] = "start" /\ Goto(d, IF disabled THEN "out" ELSE "authed")
    /\ UNCHANGED <<stores, kind, legs, open, lease, registry, sweeps>>

\* dialAllowedReason: names are resolved, then the grant of the device looked up.
MayDial == shared

\* dialAccessAllowed: the share is there.
Admit(d) ==
    /\ pc[d] = "authed"
    /\ Goto(d, IF ~MayDial THEN "out"
               ELSE IF Legs[kind[d]][1] = "session" THEN "session" ELSE "lease")
    /\ UNCHANGED <<stores, kind, legs, open, lease, registry, sweeps>>

\* newHTTPSession: the session is registered first.
OpenSession(d) ==
    /\ pc[d] = "session"
    /\ open' = [open EXCEPT ![d] = @ \cup {"session"}]
    /\ Goto(d, "lease")
    /\ UNCHANGED <<stores, kind, legs, lease, registry, sweeps>>

AfterLease(d) == IF Legs[kind[d]][1] = "session" THEN "add" ELSE "select"

\* The account is looked up before the lease can be found.
BeginAccessLeaseUnseen(d) ==
    /\ \/ pc[d] = "lease" /\ Goto(d, IF disabled THEN "out" ELSE "check") /\ UNCHANGED leases
       \/ pc[d] = "check" /\ Goto(d, AfterLease(d)) /\ leases' = leases \cup {d}
    /\ UNCHANGED <<stores, kind, legs, open, done, closers, closing, running, registry, sweeps>>

\* beginAccessLease: published, then accountsEnabled.  A lease that may not be
\* is closed before the handler goes on.
BeginAccessLease(d) ==
    /\ \/ /\ pc[d] = "lease" /\ Goto(d, "check")
          /\ leases' = leases \cup {d} /\ UNCHANGED closing
       \/ /\ pc[d] = "check" /\ ~disabled /\ Goto(d, AfterLease(d))
          /\ UNCHANGED <<leases, closing>>
       \/ /\ pc[d] = "check" /\ disabled /\ Goto(d, "wait")
          /\ RequestClose(d) /\ UNCHANGED leases
       \/ /\ pc[d] = "wait" /\ closing[d] = "closed" /\ Goto(d, AfterLease(d))
          /\ UNCHANGED <<leases, closing>>
    /\ UNCHANGED <<stores, kind, legs, open, done, closers, running, registry, sweeps>>

\* A leg is registered with the lease; after the first, a dial whose lease has
\* closed is refused.
RegisterLeg(d) ==
    /\ pc[d] = "add"
    /\ AddCloser(d, Head(legs[d]))
    /\ legs' = [legs EXCEPT ![d] = Tail(@)]
    /\ Goto(d, IF Head(legs[d]) = "session" THEN "select" ELSE "next")
    /\ UNCHANGED <<stores, kind, leases, done, closing, running, registry, sweeps>>

Select(d) ==
    /\ pc[d] = "select" /\ Goto(d, IF d \in done THEN "out" ELSE "next")
    /\ UNCHANGED <<stores, kind, legs, open, lease, registry, sweeps>>

\* handleSession: a connection for the dial is handed over and stays open until
\* it is done.
HandOver(d, leg) == open' = [open EXCEPT ![d] = @ \cup {leg}]

\* The next connection is accepted, or arrives from the device.
OpenLeg(d) ==
    /\ pc[d] = "next" /\ legs[d] # << >>
    /\ HandOver(d, Head(legs[d]))
    /\ Goto(d, "add")
    /\ UNCHANGED <<stores, kind, legs, lease, registry, sweeps>>

\* Every leg is there; or no other one comes, and the handler's way out closes
\* the lease.
Settle(d) ==
    /\ pc[d] = "next" /\ Goto(d, "up")
    /\ IF legs[d] # << >> THEN RequestClose(d) ELSE UNCHANGED closing
    /\ UNCHANGED <<stores, kind, legs, open, leases, done, closers, running, registry, sweeps>>

-----------------------------------------------------------------------------
(* A device registers: handleHPoll, handleAgent *)

RegistrationMuFree == \A p \in Polls : poll[p] # "published"

\* Its token is checked, then it is published under registrationMu, then its
\* account is looked up before the lock is let go.
Register(p) ==
    /\ \/ poll[p] = "off" /\ ~disabled /\ poll' = [poll EXCEPT ![p] = "authed"] /\ UNCHANGED registered
       \/ /\ poll[p] = "authed" /\ RegistrationMuFree
          /\ poll' = [poll EXCEPT ![p] = "published"] /\ registered' = TRUE
       \/ /\ poll[p] = "published" /\ poll' = [poll EXCEPT ![p] = "off"]
          /\ registered' = (registered /\ ~disabled)
    /\ UNCHANGED <<stores, dials, lease, sweeps>>

\* It deregisters, goes silent, or its socket closes; none of these takes
\* registrationMu.
Leave ==
    /\ registered /\ registered' = FALSE
    /\ UNCHANGED <<stores, dials, lease, poll, sweeps>>

-----------------------------------------------------------------------------
(* The sweeps *)

\* A sweep deals with one lease of its snapshot: l.close, and wait for it.
SweepLease(who, spared) ==
    \E d \in held[who] :
        \/ /\ spared /\ held' = [held EXCEPT ![who] = @ \ {d}] /\ UNCHANGED closing
        \/ /\ ~spared /\ closing[d] = "no" /\ RequestClose(d) /\ UNCHANGED held
        \/ /\ closing[d] = "closed"
           /\ held' = [held EXCEPT ![who] = @ \ {d}] /\ UNCHANGED closing

\* adminAccountDisable and disconnectNamespace: the flag, the leases there are
\* then, each closed, and then the devices.
Disable ==
    /\ \/ /\ disabler \in {"idle", "done"} /\ ~disabled /\ changes < MaxChanges
          /\ disabled' = TRUE /\ changes' = changes + 1
          /\ disabler' = "flagged" /\ UNCHANGED <<held, closing, registered>>
       \/ /\ disabler = "flagged" /\ disabler' = "closing"
          /\ held' = [held EXCEPT !["disabler"] = leases]
          /\ UNCHANGED <<disabled, changes, closing, registered>>
       \/ /\ disabler = "closing" /\ SweepLease("disabler", FALSE)
          /\ UNCHANGED <<disabled, changes, disabler, registered>>
       \/ /\ disabler = "closing" /\ held["disabler"] = {} /\ RegistrationMuFree
          /\ disabler' = "done" /\ registered' = FALSE
          /\ UNCHANGED <<disabled, changes, held, closing>>
    /\ UNCHANGED <<shared, dials, leases, done, closers, running, poll, revoker, late>>

Enable ==
    /\ disabled /\ changes < MaxChanges
    /\ disabled' = FALSE /\ changes' = changes + 1
    /\ UNCHANGED <<shared, dials, lease, registry, sweeps>>

\* closeRevokedShares looks through the leases before the row goes.
RevokeAfterSnapshot ==
    /\ \/ /\ revoker \in {"idle", "done"} /\ shared /\ changes < MaxChanges
          /\ changes' = changes + 1
          /\ revoker' = "gone" /\ held' = [held EXCEPT !["revoker"] = leases]
          /\ UNCHANGED <<shared, closing, late>>
       \/ /\ revoker = "gone" /\ revoker' = "closing"
          /\ shared' = FALSE
          /\ late' = late \cup {d \in Dials : pc[d] \in {"session", "lease"}}
          /\ UNCHANGED <<changes, held, closing>>
       \/ /\ revoker = "closing" /\ SweepLease("revoker", shared)
          /\ UNCHANGED <<shared, changes, revoker, late>>
       \/ /\ revoker = "closing" /\ held["revoker"] = {} /\ revoker' = "done"
          /\ UNCHANGED <<shared, changes, held, closing, late>>
    /\ UNCHANGED <<disabled, dials, leases, done, closers, running, registry, disabler>>

\* The row goes, and then closeRevokedShares looks through the leases and reads
\* the row again for each.
Revoke ==
    /\ \/ /\ revoker \in {"idle", "done"} /\ shared /\ changes < MaxChanges
          /\ shared' = FALSE /\ changes' = changes + 1
          /\ revoker' = "gone" /\ UNCHANGED <<held, closing>>
          /\ late' = late \cup {d \in Dials : pc[d] \in {"session", "lease"}}
       \/ /\ revoker = "gone" /\ revoker' = "closing"
          /\ held' = [held EXCEPT !["revoker"] = leases]
          /\ UNCHANGED <<shared, changes, closing, late>>
       \/ /\ revoker = "closing" /\ SweepLease("revoker", shared)
          /\ UNCHANGED <<shared, changes, revoker, late>>
       \/ /\ revoker = "closing" /\ held["revoker"] = {} /\ revoker' = "done"
          /\ UNCHANGED <<shared, changes, held, closing, late>>
    /\ UNCHANGED <<disabled, dials, leases, done, closers, running, registry, disabler>>

Share ==
    /\ ~shared /\ changes < MaxChanges
    /\ shared' = TRUE /\ changes' = changes + 1
    /\ UNCHANGED <<disabled, dials, lease, registry, sweeps>>

Next ==
    \/ \E d \in Dials :
        \/ Authenticate(d) \/ Admit(d) \/ OpenSession(d) \/ BeginAccessLease(d) \/ RegisterLeg(d)
        \/ Select(d) \/ OpenLeg(d) \/ Settle(d) \/ CloseLease(d) \/ LeaseEnds(d)
    \/ \E p \in Polls : Register(p)
    \/ Leave \/ Disable \/ Enable \/ Revoke \/ Share

Spec == Init /\ [][Next]_vars

-----------------------------------------------------------------------------
(* Properties *)

\* The variables keep their types; a lease that is done has filed no leg.
TypeOK ==
    /\ disabled \in BOOLEAN /\ shared \in BOOLEAN /\ changes \in 0..MaxChanges
    /\ kind \in [Dials -> Kinds]
    /\ \A d \in Dials :
        /\ pc[d] \in {"start", "authed", "session", "lease", "check", "wait", "add", "select", "next", "up", "out"}
        /\ open[d] \subseteq {"session", "client", "agent"}
        /\ closers[d] \cup running[d] \subseteq open[d]
        /\ closing[d] \in {"no", "asked", "marked", "unlisted", "closed"}
        /\ d \in done => closers[d] = {}
    /\ leases \subseteq Dials /\ done \subseteq Dials
    /\ registered \in BOOLEAN /\ poll \in [Polls -> {"off", "authed", "published"}]
    /\ Cardinality({p \in Polls : poll[p] = "published"}) <= 1
    /\ disabler \in {"idle", "flagged", "closing", "done"}
    /\ revoker \in {"idle", "gone", "closing", "done"}

\* The handler of a dial has nothing more to do but serve it, and no close of
\* its lease is under way.
AtRest(d) == pc[d] \in {"up", "out"} /\ closing[d] \in {"no", "closed"}

\* Once disabling an account has returned, and as long as it stays disabled, it
\* holds nothing: no session or connection of a dial that was under way at any
\* point of it, and no registered device except one whose handler is about to
\* look the account up (disconnectNamespace, accountsEnabled).
NothingSurvivesDisable ==
    disabler = "done" /\ disabled =>
        /\ \A d \in Dials : AtRest(d) => open[d] = {}
        /\ RegistrationMuFree => ~registered

\* Once a share has been taken back, a dial that rested on it holds nothing,
\* unless it had passed the check and had no lease yet at that moment.
RevokedSharesEnd ==
    revoker = "done" /\ ~shared =>
        \A d \in Dials \ late : AtRest(d) => open[d] = {}

\* disable.go and delegation_auth.go: a sweep ends everything it is meant to end.
AccessEnds == NothingSurvivesDisable /\ RevokedSharesEnd
=============================================================================
