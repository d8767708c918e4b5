------------------------------ MODULE Pairing ------------------------------
(***************************************************************************)
(* A device admits a controller it does not know (internal/console, pairing *)
(* half, and handleSession and authorize of internal/agent/agent.go).       *)
(*                                                                         *)
(* A dial that passes the checks of handleSession and is not in             *)
(* known_clients asks the owner.  The request stays behind when the dial    *)
(* gives up, so that a later verdict can be collected by the next dial.     *)
(* The device runs without --yes.  Time is left out: a request expires, a wait ends and the notification    *)
(* window closes whenever they like.                                        *)
(***************************************************************************)
EXTENDS Naturals, FiniteSets, Sequences

CONSTANTS
    PairDials,             \* sessions under way
    Controllers,       \* fingerprints
    Portal,            \* the fingerprint of the portal
    MaxPendingPairs,   \* maxPendingPairs
    MaxRequests        \* bound on pairing requests ever made

ASSUME PairingAssumption ==
    /\ Portal \notin Controllers
    /\ MaxPendingPairs \in Nat \ {0} /\ MaxRequests \in Nat

FPs == Controllers \cup {Portal}

VARIABLES
    known,      \* known_clients.json
    admins,     \* portal_admins.json
    request,    \* every pendingPair made: its controller and its verdict
    pairs,      \* Service.pairs: the request of a fingerprint, 0 when none
    notified,   \* Service.notified
    frontends,  \* Service.subs: console sessions attached
    dial,       \* sessions in handleSession, Idle when refused or over
    approvals,  \* owner's approvals per fingerprint
    spent       \* requests whose verdict a dial has collected

pairVars == <<known, admins, request, pairs, notified, frontends, dial, approvals, spent>>
console == <<request, pairs, notified>>

HelloKinds == {"exec", "console", "workspace"}
Verdicts == {"open", "yes", "no"}
Idle == [pc |-> "idle", fp |-> Portal, kind |-> "exec", asks |-> "wait", req |-> 0, base |-> 0]

PairInit ==
    /\ known = {Portal} /\ admins = {Portal}
    /\ request = <<>>
    /\ pairs = [f \in FPs |-> 0]
    /\ notified = {}
    /\ frontends = {}
    /\ dial = [d \in PairDials |-> Idle]
    /\ approvals = [f \in FPs |-> 0]
    /\ spent = {}

Waiting(f) == pairs[f] # 0 /\ request[pairs[f]].verdict = "open"
Approved(f) == pairs[f] # 0 /\ request[pairs[f]].verdict = "yes"
UndecidedPairs == {f \in FPs : Waiting(f)}

-----------------------------------------------------------------------------
(* handleSession *)

\* The first check that refuses a hello, in the order of the code, or "none".
\* What the relay said of the session (capabilities, grant) is an input.
Refusal(f, kind, auth, label) ==
    CASE ~auth.valid                                      -> "session"
      [] auth.grant /\ ~auth.active                       -> "delegation"
      [] kind = "console" /\ ~auth.console                -> "capability"
      [] kind = "console" /\ f \notin admins              -> "not-console-admin"
      [] kind # "console" /\ f \notin known /\ ~label     -> "unlabeled"
      [] OTHER                                            -> "none"

Auths == [valid : BOOLEAN, grant : BOOLEAN, active : BOOLEAN, console : BOOLEAN]

\* A refused session is answered, logged and closed.  A hello that no check
\* refuses goes on to authorize.  base is how many
\* approvals of its controller are already used up when it arrives.
Hello(d, f, kind, auth, label) ==
    /\ dial[d].pc = "idle"
    /\ dial' = [dial EXCEPT ![d] =
         IF Refusal(f, kind, auth, label) # "none"
         THEN Idle
         ELSE [pc |-> "authorize", fp |-> f, kind |-> kind,
               asks |-> IF auth.grant THEN "once" ELSE "wait", req |-> 0,
               base |-> IF Approved(f) /\ pairs[f] \notin spent
                        THEN approvals[f] - 1 ELSE approvals[f]]]
    /\ UNCHANGED <<known, admins, console, frontends, approvals, spent>>

\* authorize: a controller that is known goes in.
KnownGoesIn(d) ==
    /\ dial[d].pc = "authorize" /\ dial[d].fp \in known
    /\ dial' = [dial EXCEPT ![d].pc = "admitted"]
    /\ UNCHANGED <<known, admins, console, frontends, approvals, spent>>

\* The known_clients check and the question are two steps.
NotKnown(d) ==
    /\ dial[d].pc = "authorize" /\ dial[d].fp \notin known
    /\ dial' = [dial EXCEPT ![d].pc = "ask"]
    /\ UNCHANGED <<known, admins, console, frontends, approvals, spent>>

-----------------------------------------------------------------------------
(* console.Service *)

\* The owner is told whenever a request is new.
ClaimPairNotifyAlways(f) == notified' = notified \cup {f}

\* claimPairNotifyLocked.
ClaimPairNotify(f) ==
    IF f \in notified \/ Cardinality(notified) >= MaxPendingPairs
    THEN UNCHANGED notified
    ELSE notified' = notified \cup {f}

\* The verdict stays after it was handed out.
CollectKeeps(d) ==
    /\ dial[d].pc = "ask" /\ Approved(dial[d].fp)
    /\ dial' = [dial EXCEPT ![d].pc = "trusted", ![d].req = pairs[dial[d].fp]]
    /\ spent' = spent \cup {pairs[dial[d].fp]}
    /\ UNCHANGED <<known, admins, request, pairs, notified, frontends, approvals>>

\* askPair, an approval is waiting: it is collected.
Collect(d) ==
    /\ dial[d].pc = "ask" /\ Approved(dial[d].fp)
    /\ dial' = [dial EXCEPT ![d].pc = "trusted", ![d].req = pairs[dial[d].fp]]
    /\ spent' = spent \cup {pairs[dial[d].fp]}
    /\ pairs' = [pairs EXCEPT ![dial[d].fp] = 0]
    /\ UNCHANGED <<known, admins, request, notified, frontends, approvals>>

\* askPair, no verdict yet: the request is made, or the one that waits is
\* used.  The dial waits for a verdict only when somebody is there to give one
\* and its client can wait.
AskPair(d) ==
    LET f == dial[d].fp
        wait == dial[d].asks = "wait" /\ frontends # {}
        goOn(r) == dial' = [dial EXCEPT ![d] = IF wait THEN [@ EXCEPT !.pc = "wait", !.req = r] ELSE Idle]
    IN
    /\ dial[d].pc = "ask" /\ ~Approved(f)
    /\ \/ /\ Waiting(f) /\ goOn(pairs[f])
          /\ UNCHANGED console
       \/ /\ ~Waiting(f) /\ Cardinality(UndecidedPairs) < MaxPendingPairs
          /\ Len(request) < MaxRequests
          /\ request' = Append(request, [fp |-> f, verdict |-> "open"])
          /\ pairs' = [pairs EXCEPT ![f] = Len(request) + 1]
          /\ ClaimPairNotify(f)
          /\ goOn(Len(request) + 1)
       \/ /\ ~Waiting(f) /\ Cardinality(UndecidedPairs) >= MaxPendingPairs
          /\ dial' = [dial EXCEPT ![d] = Idle]     \* ErrTooManyPairings
          /\ UNCHANGED console
    /\ UNCHANGED <<known, admins, frontends, approvals, spent>>

\* askPair, waiting: the verdict of the request it waits for, taken out of the
\* table if that is still the request there.
VerdictComes(d) ==
    LET f == dial[d].fp  r == dial[d].req IN
    /\ dial[d].pc = "wait" /\ request[r].verdict # "open"
    /\ dial' = [dial EXCEPT ![d] = IF request[r].verdict = "yes" THEN [@ EXCEPT !.pc = "trusted"] ELSE Idle]
    /\ spent' = spent \cup {r}
    /\ pairs' = IF pairs[f] = r THEN [pairs EXCEPT ![f] = 0] ELSE pairs
    /\ UNCHANGED <<known, admins, request, notified, frontends, approvals>>

\* The request goes with the dial that made it.
WaitRunsOutDrops(d) ==
    /\ dial[d].pc = "wait" /\ dial' = [dial EXCEPT ![d] = Idle]
    /\ pairs' = [pairs EXCEPT ![dial[d].fp] = 0]
    /\ UNCHANGED <<known, admins, request, notified, frontends, approvals, spent>>

\* askPair, waiting: the wait runs out and the request stays.
WaitRunsOut(d) ==
    /\ dial[d].pc = "wait" /\ dial' = [dial EXCEPT ![d] = Idle]
    /\ UNCHANGED <<known, admins, console, frontends, approvals, spent>>

\* authorize, after askPair said yes.
RecordTrust(d) ==
    /\ dial[d].pc = "trusted"
    /\ known' = known \cup {dial[d].fp}
    /\ dial' = [dial EXCEPT ![d].pc = "admitted"]
    /\ UNCHANGED <<admins, console, frontends, approvals, spent>>

\* The last check, for a reusable workspace connection: the controller is still
\* known, the session is not delegated, and the relay vouches for it.
LetIn(d, relaySaysYes) ==
    LET ok == dial[d].kind = "workspace" =>
                relaySaysYes /\ dial[d].asks = "wait" /\ dial[d].fp \in known IN
    /\ dial[d].pc = "admitted"
    /\ dial' = [dial EXCEPT ![d] = IF ok THEN [@ EXCEPT !.pc = "in"] ELSE Idle]
    /\ UNCHANGED <<known, admins, console, frontends, approvals, spent>>

\* The session is served and ends; a console session attaches a front end
\* while it is served.
Serve(d) ==
    /\ dial[d].pc = "in"
    /\ \/ /\ dial[d].kind = "console" /\ d \notin frontends
          /\ frontends' = frontends \cup {d} /\ UNCHANGED dial
       \/ /\ dial' = [dial EXCEPT ![d] = Idle] /\ frontends' = frontends \ {d}
    /\ UNCHANGED <<known, admins, console, approvals, spent>>

\* DecidePair, after the prune: only a request that still waits takes a
\* verdict.  A denial is forgotten at once, an approval waits to be collected.
DecidePair(f, trust) ==
    /\ frontends # {} /\ Waiting(f)
    /\ request' = [request EXCEPT ![pairs[f]].verdict = IF trust THEN "yes" ELSE "no"]
    /\ pairs' = IF trust THEN pairs ELSE [pairs EXCEPT ![f] = 0]
    /\ approvals' = IF trust THEN [approvals EXCEPT ![f] = @ + 1] ELSE approvals
    /\ UNCHANGED <<known, admins, notified, frontends, dial, spent>>

\* pruneExpiredPairsLocked, run by every caller that looks at the table.
PruneExpired(f) ==
    /\ pairs[f] # 0 /\ pairs' = [pairs EXCEPT ![f] = 0]
    /\ UNCHANGED <<known, admins, request, notified, frontends, dial, approvals, spent>>

\* A fingerprint leaves the notification window.
NotifyWindowOver(f) ==
    /\ f \in notified /\ notified' = notified \ {f}
    /\ UNCHANGED <<known, admins, request, pairs, frontends, dial, approvals, spent>>

\* The known clients come first, and the last administrator is then refused.
TrustRevokeKnownFirst(f) ==
    /\ frontends # {}
    /\ known' = known \ {f}
    /\ admins' = IF admins = {f} THEN admins ELSE admins \ {f}
    /\ UNCHANGED <<console, frontends, dial, approvals, spent>>

\* PortalAdmins.Remove: the last administrator stays.
RemovableAdmin(f) == f \in admins /\ admins # {f}

\* KindTrustRevoke: an administrator leaves portal_admins first, which may be
\* refused.  A known_clients that cannot be written puts it back.
TrustRevoke(f) ==
    /\ frontends # {}
    /\ \/ /\ f \in admins => RemovableAdmin(f)
          /\ known' = known \ {f} /\ admins' = admins \ {f}
       \/ UNCHANGED <<known, admins>>
    /\ UNCHANGED <<console, frontends, dial, approvals, spent>>

-----------------------------------------------------------------------------
DialStep(d) ==
    \/ KnownGoesIn(d) \/ NotKnown(d) \/ Collect(d) \/ AskPair(d) \/ VerdictComes(d)
    \/ WaitRunsOut(d) \/ RecordTrust(d) \/ \E yes \in BOOLEAN : LetIn(d, yes)

PairNext ==
    \/ \E d \in PairDials : DialStep(d) \/ Serve(d)
    \/ \E d \in PairDials, f \in FPs, kind \in HelloKinds, auth \in Auths, label \in BOOLEAN :
         Hello(d, f, kind, auth, label)
    \/ \E f \in FPs : PruneExpired(f) \/ NotifyWindowOver(f) \/ TrustRevoke(f)
    \/ \E f \in FPs, trust \in BOOLEAN : DecidePair(f, trust)

PairSpec == PairInit /\ [][PairNext]_pairVars

-----------------------------------------------------------------------------
(* Properties *)

\* "keeping the verdict around afterwards would answer trusted to that key again
\* later, after the owner revoked it, with nobody asked" (AskPair): a dial is
\* trusted only on an approval that nobody had collected when it arrived or that
\* the owner gave after it arrived.
RevokedNeedsOwner ==
    \A d \in PairDials : dial[d].pc = "trusted" => approvals[dial[d].fp] > dial[d].base

\* A request nobody has answered outlives the dials that made it and every other
\* controller's: it leaves the owner's view only with a verdict or its time.
RequestOutlivesDial ==
    [][\A f \in FPs : Waiting(f) /\ pairs'[f] # pairs[f]
        => request'[pairs[f]].verdict # "open" \/ PruneExpired(f)]_pairVars

\* A revoke the device refuses, because it would leave no administrator, has
\* not half happened: whoever administers the device is still known to it.
AdminsStayKnown == admins # {} /\ admins \subseteq known

\* console.go and agent.go: trust comes from an approval of the owner's that was
\* still to be used, a waiting request is not lost, and a refused revoke changes
\* nothing.
PairingSafe == []RevokedNeedsOwner /\ []AdminsStayKnown /\ RequestOutlivesDial
=============================================================================
