------------------------------- MODULE Admission -------------------------------
(***************************************************************************)
(* Who is let in: signing in at the portal (internal/portal/auth.go),      *)
(* the relay's admission of an identity, its invitations and the queue of  *)
(* access requests (internal/relay/admin.go, access.go).                   *)
(*                                                                         *)
(* An account is an immutable provider identity; its login can be changed  *)
(* and taken over by another account, and a session carries the login it   *)
(* was signed in with.  A request resolves its session to a namespace at   *)
(* the relay first, and acts on that answer afterwards.  The contact       *)
(* address a portal may also require is ContactEmail's subject; what an     *)
(* account may then give to others and get from them is in Shares.         *)
(***************************************************************************)
EXTENDS Shares, Naturals, Sequences, FiniteSets

CONSTANTS
    AmAccounts,     \* GitHub accounts
    AmHeaders,      \* identities an SSO header named before OAuth was configured
    AmNames,        \* logins, and the namespaces derived from them
    AmLogins,       \* the logins an account may have had at GitHub
    AmCalls,        \* requests the portal may be serving at once
    AmPurposes,     \* what a request is for: a subset of AmAllPurposes
    MaxAmInvites, MaxAmFiled   \* bounds

AmAllPurposes == {"page", "apply", "admin"}

ASSUME AmAssumption == /\ AmPurposes \subseteq AmAllPurposes
                       /\ AmAccounts \cap AmHeaders = {}
                       /\ AmLogins \in [AmAccounts -> SUBSET AmNames]

VARIABLES
    amCookie,   \* per account's browser: nothing, the state cookie, or the login in its session
    amUsers,    \* users, by namespace: {} or the row
    amInvites,  \* invites, in id order; a deleted one stays as "revoked"
    amFiled,    \* access_requests, in id order
    amCall      \* the requests

amVars == <<amCookie, amUsers, amInvites, amFiled, amCall>>

AmIdle == [at |-> "idle"]
AmSignedOut == {}
AmStateCookie == {"state"}

AmInit ==
    /\ amCookie = [g \in AmAccounts |-> AmSignedOut]
    /\ amUsers = [n \in AmNames |-> {}]
    /\ amInvites = <<>>
    /\ amFiled = <<>>
    /\ amCall = [c \in AmCalls |-> AmIdle]

AmRows == UNION {amUsers[n] : n \in AmNames}
AmHasRow(who) == \E r \in AmRows : r.who = who
AmRow(who) == CHOOSE r \in AmRows : r.who = who

(***************************************************************************)
(* Signing in.                                                             *)
(***************************************************************************)

(* The button mints the state cookie GitHub's redirect has to match. *)
AmAuthStart(g) ==
    /\ amCookie[g] = AmSignedOut
    /\ amCookie' = [amCookie EXCEPT ![g] = AmStateCookie]
    /\ UNCHANGED <<amUsers, amInvites, amFiled, amCall>>

(* The callback spends the state whatever comes of it; a good one signs    *)
(* the login of that moment into the session and resolves it once.         *)
AmAuthCallback(g, n, c) ==
    /\ amCookie[g] = AmStateCookie
    /\ \/ /\ amCookie' = [amCookie EXCEPT ![g] = {n}]
          /\ amCall[c].at = "idle"
          /\ amCall' = [amCall EXCEPT ![c] = [at |-> "asked", who |-> g, login |-> {n}, for |-> "page"]]
       \/ /\ amCookie' = [amCookie EXCEPT ![g] = AmSignedOut]
          /\ UNCHANGED amCall
    /\ UNCHANGED <<amUsers, amInvites, amFiled>>

(* Logging out, or the session's fourteen days. *)
AmSignOut(g) ==
    /\ amCookie[g] \notin {AmSignedOut, AmStateCookie}
    /\ amCookie' = [amCookie EXCEPT ![g] = AmSignedOut]
    /\ UNCHANGED <<amUsers, amInvites, amFiled, amCall>>

(***************************************************************************)
(* Resolving a session to a namespace.                                     *)
(***************************************************************************)

(* Every handler starts here: a session is resolved at the relay. *)
AmRequest(g, c, purpose) ==
    /\ amCall[c].at = "idle"
    /\ amCookie[g] \notin {AmSignedOut, AmStateCookie}
    /\ amCall' = [amCall EXCEPT ![c] = [at |-> "asked", who |-> g, login |-> amCookie[g], for |-> purpose]]
    /\ UNCHANGED <<amCookie, amUsers, amInvites, amFiled>>

(* Only who is not in applies; the rest is the administrator's. *)
AmApplies(status) == status \notin {"ok", "disabled"}
AmIsAdmin(status, row) == status = "ok" /\ \E r \in row : r.role = "admin"

AmPasses(purpose, status, row) ==
    \/ purpose = "apply" /\ AmApplies(status)
    \/ purpose = "admin" /\ AmIsAdmin(status, row)

(* The relay's answer, and the gate of what was asked: a page shows it and *)
(* ends, applying is for who is not in, and the rest for the               *)
(* administrator.                                                          *)
AmSettle(c, status, row) ==
    LET q == amCall[c]
        kept == IF q.for = "apply" THEN [at |-> "apply", who |-> q.who, login |-> q.login]
                ELSE [at |-> q.for]
    IN amCall' = [amCall EXCEPT ![c] = IF AmPasses(q.for, status, row) THEN kept ELSE AmIdle]

(* The first look, outside any transaction.  An account may be disabled at *)
(* any time (AccountAccess), so either answer is possible.                 *)
AmLookup(c) ==
    LET q == amCall[c] IN
    /\ q.at = "asked"
    /\ IF AmHasRow(q.who)
       THEN AmSettle(c, "disabled", {}) \/ AmSettle(c, "ok", {AmRow(q.who)})
       ELSE amCall' = [amCall EXCEPT ![c].at = "admission"]
    /\ UNCHANGED <<amCookie, amUsers, amInvites, amFiled>>

AmAdmissionFreeBlind == TRUE
AmAdmissionFree == \A c \in AmCalls : amCall[c].at # "chosen"

(* The pending invitation of a login: the partial unique index leaves at   *)
(* most one.                                                               *)
AmInvited(n) == {i \in DOMAIN amInvites : amInvites[i].login = n /\ amInvites[i].state = "open"}

(* Under the admission lock: the first account ever becomes the admin,     *)
(* every other needs an invitation of its login, whose row is then locked. *)
AmChoose(c) ==
    LET q == amCall[c]
        n == CHOOSE x \in q.login : TRUE
    IN /\ q.at = "admission"
       /\ AmAdmissionFree
       /\ IF AmHasRow(q.who) THEN AmSettle(c, "ok", {AmRow(q.who)})
          ELSE IF \A r \in AmRows : r.role # "admin"
          THEN amCall' = [amCall EXCEPT ![c] = [at |-> "chosen", who |-> q.who, login |-> q.login, for |-> q.for, invite |-> 0]]
          ELSE IF AmInvited(n) = {} THEN AmSettle(c, "pending", {})
          ELSE \E i \in AmInvited(n) :
                  amCall' = [amCall EXCEPT ![c] = [at |-> "chosen", who |-> q.who, login |-> q.login, for |-> q.for, invite |-> i]]
       /\ UNCHANGED <<amCookie, amUsers, amInvites, amFiled>>

(* The row goes in unless its namespace has an owner, and the invitation   *)
(* is spent in the same transaction.                                       *)
AmAdmit(c) ==
    LET q == amCall[c]
        n == CHOOSE x \in q.login : TRUE
        row == [who |-> q.who, ns |-> n, role |-> IF q.invite = 0 THEN "admin" ELSE "user"]
    IN /\ q.at = "chosen"
       /\ IF amUsers[n] = {}
          THEN /\ amUsers' = [amUsers EXCEPT ![n] = {row}]
               /\ amInvites' = IF q.invite = 0 THEN amInvites
                               ELSE [amInvites EXCEPT ![q.invite].state = "used", ![q.invite].by = @ \cup {q.who}]
               /\ AmSettle(c, "ok", {row})
          ELSE /\ AmSettle(c, "conflict", {})
               /\ UNCHANGED <<amUsers, amInvites>>
       /\ UNCHANGED <<amCookie, amFiled>>

(* An SSO header needs no invitation and takes no lock; one statement      *)
(* inserts the row, and a namespace with an owner is a conflict.           *)
AmHeaderSignIn(h, n) ==
    /\ ~AmHasRow(h)
    /\ amUsers[n] = {}
    /\ amUsers' = [amUsers EXCEPT ![n] = {[who |-> h, ns |-> n, role |-> "user"]}]
    /\ UNCHANGED <<amCookie, amInvites, amFiled, amCall>>

(***************************************************************************)
(* What the requests do once resolved.                                     *)
(***************************************************************************)

AmEnd(c) == amCall' = [amCall EXCEPT ![c] = AmIdle]

(* The administrator's invitation; a second pending one of a login breaks  *)
(* the unique index.                                                       *)
AmCreateInvite(c, n) ==
    /\ amCall[c].at = "admin"
    /\ amInvites' = IF AmInvited(n) = {} /\ Len(amInvites) < MaxAmInvites
                    THEN Append(amInvites, [login |-> n, state |-> "open", by |-> {}]) ELSE amInvites
    /\ AmEnd(c)
    /\ UNCHANGED <<amCookie, amUsers, amFiled>>

AmRevoked(i) == [amInvites EXCEPT ![i].state = IF @ = "open" THEN "revoked" ELSE @]

(* Only an unused invitation is deleted; a row an admission has locked is  *)
(* waited for.                                                             *)
AmRevokeInvite(c, i) ==
    /\ amCall[c].at = "admin"
    /\ \A d \in AmCalls : amCall[d].at = "chosen" => amCall[d].invite # i
    /\ amInvites' = AmRevoked(i)
    /\ AmEnd(c)
    /\ UNCHANGED <<amCookie, amUsers, amFiled>>

AmFiledBy(who) == {k \in DOMAIN amFiled : amFiled[k].who = who}
AmLatest(who) == {k \in AmFiledBy(who) : \A j \in AmFiledBy(who) : j <= k}

(* accessRequestGate: nothing filed yet, or declined long enough ago. *)
AmMayApply(who) == \A k \in AmLatest(who) : amFiled[k].state = "declined" /\ amFiled[k].cooled

(* Filing reads the latest application and locks its row, if there is one. *)
AmApply(c) ==
    LET q == amCall[c] IN
    /\ q.at = "apply"
    /\ \A d \in AmCalls : amCall[d].at = "filing" => amCall[d].locks \cap AmLatest(q.who) = {}
    /\ IF AmMayApply(q.who) /\ Len(amFiled) < MaxAmFiled
       THEN amCall' = [amCall EXCEPT ![c] = [at |-> "filing", who |-> q.who, login |-> q.login, locks |-> AmLatest(q.who)]]
       ELSE AmEnd(c)
    /\ UNCHANGED <<amCookie, amUsers, amInvites, amFiled>>

AmOpenFree(who) == \A k \in AmFiledBy(who) : amFiled[k].state # "pending"

(* The insert, which the index on open applications may refuse. *)
AmFile(c) ==
    LET q == amCall[c] IN
    /\ q.at = "filing"
    /\ amFiled' = IF AmOpenFree(q.who) /\ Len(amFiled) < MaxAmFiled
                  THEN Append(amFiled, [who |-> q.who, login |-> q.login, state |-> "pending", cooled |-> FALSE])
                  ELSE amFiled
    /\ AmEnd(c)
    /\ UNCHANGED <<amCookie, amUsers, amInvites>>

AmVerdicts == {"approved", "declined"}

(* The verdict, and with an approval the invitation, in one transaction.   *)
(* A pending invitation of that login is enough.                           *)
AmVerdict(k, v) ==
    LET n == CHOOSE x \in amFiled[k].login : TRUE
    IN IF amFiled[k].state # "pending" THEN UNCHANGED <<amFiled, amInvites>>
       ELSE /\ amFiled' = [amFiled EXCEPT ![k].state = v]
            /\ amInvites' = IF v = "approved" /\ AmInvited(n) = {} /\ Len(amInvites) < MaxAmInvites
                            THEN Append(amInvites, [login |-> n, state |-> "open", by |-> {}]) ELSE amInvites

AmDecide(c, k) ==
    /\ amCall[c].at = "admin"
    /\ \E v \in AmVerdicts : AmVerdict(k, v)
    /\ AmEnd(c)
    /\ UNCHANGED <<amCookie, amUsers>>

(* The waiting period after a refusal passes. *)
AmCool(k) ==
    /\ amFiled[k].state = "declined" /\ ~amFiled[k].cooled
    /\ amFiled' = [amFiled EXCEPT ![k].cooled = TRUE]
    /\ UNCHANGED <<amCookie, amUsers, amInvites, amCall>>

AmNext ==
    \/ \E g \in AmAccounts : \/ AmAuthStart(g) \/ AmSignOut(g)
                             \/ \E c \in AmCalls : (\E n \in AmLogins[g] : AmAuthCallback(g, n, c)) \/ \E p \in AmPurposes : AmRequest(g, c, p)
    \/ \E c \in AmCalls : \/ AmLookup(c) \/ AmChoose(c) \/ AmAdmit(c)
                          \/ AmApply(c) \/ AmFile(c)
                          \/ \E n \in AmNames : AmCreateInvite(c, n)
                          \/ \E i \in DOMAIN amInvites : AmRevokeInvite(c, i)
                          \/ \E k \in DOMAIN amFiled : AmDecide(c, k)
    \/ \E n \in AmNames : \E h \in AmHeaders : AmHeaderSignIn(h, n)
    \/ \E k \in DOMAIN amFiled : AmCool(k)

AmSpec == AmInit /\ [][AmNext]_amVars

(* However many first sign-ins race, one account becomes the admin, and    *)
(* every other GitHub account that was admitted spent an invitation of its *)
(* own that nobody had withdrawn (resolveGitHubIdentity, RevokeInvite).    *)
AmAdmittedByInvite ==
    /\ Cardinality({r \in AmRows : r.role = "admin"}) <= 1
    /\ \A r \in AmRows : r.who \in AmAccounts /\ r.role = "user" =>
          \E i \in DOMAIN amInvites : amInvites[i].by = {r.who} /\ amInvites[i].state = "used"

(* CreateAccessRequest: the decision happens "inside one transaction with  *)
(* the row locked, so two clicks on submit cannot both win": an account    *)
(* that was approved has nothing waiting.                                  *)
AmOneClickWins ==
    \A j, k \in DOMAIN amFiled :
        amFiled[j].who = amFiled[k].who /\ amFiled[j].state = "approved" => amFiled[k].state # "pending"

(* An account, with what Shares models of it (access.go, friends.go,       *)
(* admin.go): whoever was admitted was invited, whoever has a share is a   *)
(* friend, and no limit is passed by asking twice.                         *)
AccountsExact == AmAdmittedByInvite /\ FrSafe
================================================================================
