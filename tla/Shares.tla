--------------------------------- MODULE Shares ---------------------------------
(***************************************************************************)
(* What one account hands to others (internal/relay/friends.go, user.go,   *)
(* admin.go, device_id.go, alias.go, approval_phone.go, scoped_store.go):  *)
(* friendships, the shares they permit, the records of the devices shared, *)
(* the phone that approves, and the tokens scoped to one command.          *)
(*                                                                         *)
(* All machines of the account report one hostname, the case in which a    *)
(* name cannot tell them apart.  A record made before device IDs existed   *)
(* is keyed by that name; a machine that upgrades is found again by its    *)
(* certificate, and its record, shares included, moves to its ID.          *)
(* A database transaction is a step, or two with its row lock between.     *)
(***************************************************************************)
EXTENDS Naturals, Sequences, FiniteSets

CONSTANTS
    FrPeers,        \* the accounts this one may befriend
    FrMachines,     \* its machines; a machine is its own device ID and certificate
    FrName,         \* the hostname they all report
    FrCalls,        \* requests being served
    FrMaxLive,      \* scopedMaxLive
    FrDeletesFail,  \* the database may fail the statements whose result is ignored
    MaxFrShares, MaxFrTokens    \* bounds

ASSUME FrAssumption == FrName \notin FrMachines /\ FrMaxLive \in Nat /\ FrDeletesFail \in BOOLEAN

VARIABLES
    frFriends,  \* per peer: {} or its friends row, as {who asked} or {"accepted"}
    frRemoving, \* peers whose row a FriendRemove has deleted but not committed
    frIds,      \* machines with a record under their ID
    frOld,      \* the record under the hostname: {} or {its machine}
    frPromoted, \* machines whose record moved from the hostname to their ID
    frAcl,      \* the shares, in id order
    frPhone,    \* the approval phone: {} or {its designation}
    frUnbinding,\* device keys whose record is deleted and the rest not yet
    frTokens,   \* scoped tokens: the machine and the state of each
    frCall      \* the requests

frVars == <<frFriends, frRemoving, frIds, frOld, frPromoted, frAcl, frPhone, frUnbinding, frTokens, frCall>>

FrIdle == [at |-> "idle"]

(* A record is keyed by its machine's ID, or by the hostname. *)
FrKeys == FrMachines \cup {FrName}

FrInit ==
    /\ frFriends = [p \in FrPeers |-> {}]
    /\ frRemoving = {}
    /\ frIds = {}
    /\ frOld = {}
    /\ frPromoted = {}
    /\ frAcl = <<>>
    /\ frPhone = {}
    /\ frUnbinding = {}
    /\ frTokens = <<>>
    /\ frCall = [c \in FrCalls |-> FrIdle]

(***************************************************************************)
(* Friendships.                                                            *)
(***************************************************************************)

(* A request of both sides is an acceptance; repeating one changes nothing.*)
FrAsked(row, by) == IF row = {} THEN {by} ELSE IF row \in {{by}, {"accepted"}} THEN row ELSE {"accepted"}

FrRequest(p, by) ==
    /\ p \notin frRemoving
    /\ frFriends' = [frFriends EXCEPT ![p] = FrAsked(@, by)]
    /\ UNCHANGED <<frRemoving, frIds, frOld, frPromoted, frAcl, frPhone, frUnbinding, frTokens, frCall>>

FrAccept(p) ==
    /\ frFriends[p] \in {{"owner"}, {"peer"}}
    /\ p \notin frRemoving
    /\ frFriends' = [frFriends EXCEPT ![p] = {"accepted"}]
    /\ UNCHANGED <<frRemoving, frIds, frOld, frPromoted, frAcl, frPhone, frUnbinding, frTokens, frCall>>

FrDecline(p) ==
    /\ frFriends[p] \in {{"owner"}, {"peer"}}
    /\ p \notin frRemoving
    /\ frFriends' = [frFriends EXCEPT ![p] = {}]
    /\ UNCHANGED <<frRemoving, frIds, frOld, frPromoted, frAcl, frPhone, frUnbinding, frTokens, frCall>>

(* A grant holds its friendship's row FOR SHARE; the delete waits for it.  *)
FrRowFreeBlind(p) == TRUE
FrRowFree(p) == \A c \in FrCalls : frCall[c].at = "befriended" => frCall[c].peer # p

(* FriendRemove deletes the row ... *)
FrRemoveBegin(p) ==
    /\ frFriends[p] # {} /\ p \notin frRemoving
    /\ FrRowFree(p)
    /\ frRemoving' = frRemoving \cup {p}
    /\ UNCHANGED <<frFriends, frIds, frOld, frPromoted, frAcl, frPhone, frUnbinding, frTokens, frCall>>

(* ... and revokes what was shared, and commits both.  Lifting the running *)
(* access is AccountAccess's sweep.                                        *)
FrRemoveCommit(p) ==
    /\ p \in frRemoving
    /\ frRemoving' = frRemoving \ {p}
    /\ frFriends' = [frFriends EXCEPT ![p] = {}]
    /\ frAcl' = [i \in DOMAIN frAcl |-> IF frAcl[i].peer = p THEN [frAcl[i] EXCEPT !.live = FALSE] ELSE frAcl[i]]
    /\ UNCHANGED <<frIds, frOld, frPromoted, frPhone, frUnbinding, frTokens, frCall>>

(***************************************************************************)
(* Device records.                                                         *)
(***************************************************************************)

FrMoved(m) == [i \in DOMAIN frAcl |-> IF frAcl[i].device = FrName THEN [frAcl[i] EXCEPT !.device = m] ELSE frAcl[i]]

(* RegisterDevice: a machine without a record of its own promotes the old  *)
(* record with its certificate.                                            *)
FrRegister(m) ==
    /\ m \notin frIds
    /\ frIds' = frIds \cup {m}
    /\ IF frOld = {m}
       THEN frOld' = {} /\ frPromoted' = frPromoted \cup {m} /\ frAcl' = FrMoved(m)
       ELSE UNCHANGED <<frOld, frPromoted, frAcl>>
    /\ UNCHANGED <<frFriends, frRemoving, frPhone, frUnbinding, frTokens, frCall>>

(* A machine with the old agent, refused once the name has moved to an ID. *)
FrRegisterLegacy(m) ==
    /\ frPromoted = {}
    /\ frOld # {m}
    /\ frOld' = {m}
    /\ UNCHANGED <<frFriends, frRemoving, frIds, frPromoted, frAcl, frPhone, frUnbinding, frTokens, frCall>>

FrMachineOf(key) == IF key = FrName THEN frOld ELSE {key} \cap frIds

(* RemoveDevice deletes the record ...  What is still held for the machine *)
(* is marked, to tell afterwards whether it went.                          *)
FrUnbind(key) ==
    /\ FrMachineOf(key) # {} /\ frUnbinding = {}
    /\ frUnbinding' = {key}
    /\ IF key = FrName THEN frOld' = {} /\ UNCHANGED <<frIds, frPromoted>>
       ELSE frIds' = frIds \ {key} /\ frPromoted' = frPromoted \ {key} /\ UNCHANGED frOld
    /\ frAcl' = [i \in DOMAIN frAcl |-> [frAcl[i] EXCEPT !.dead = @ \/ frAcl[i].device = key]]
    /\ frPhone' = {[f EXCEPT !.dead = @ \/ f.device = key \/ (f.machine = key /\ key \in frPromoted)] : f \in frPhone}
    /\ frCall' = [c \in FrCalls |-> IF frCall[c].at \in {"resolved", "befriended"} /\ frCall[c].device = key
                                    THEN [frCall[c] EXCEPT !.dead = TRUE] ELSE frCall[c]]
    /\ UNCHANGED <<frFriends, frRemoving, frTokens>>

(* ... then the shares and the designation under that key, each of which   *)
(* may fail without anyone being told.                                     *)
FrUnbound(key) ==
    /\ key \in frUnbinding
    /\ frUnbinding' = {}
    /\ \/ frAcl' = [i \in DOMAIN frAcl |-> [frAcl[i] EXCEPT !.live = @ /\ frAcl[i].device # key]]
       \/ FrDeletesFail /\ UNCHANGED frAcl
    /\ \/ frPhone' = {f \in frPhone : f.device # key}
       \/ FrDeletesFail /\ UNCHANGED frPhone
    /\ UNCHANGED <<frFriends, frRemoving, frIds, frOld, frPromoted, frTokens, frCall>>

(* SetApprovalPhone: one of the account's own records, or none. *)
FrDesignate(key) ==
    /\ FrMachineOf(key) # {}
    /\ frPhone' = {[device |-> key, machine |-> m, dead |-> FALSE] : m \in FrMachineOf(key)}
    /\ UNCHANGED <<frFriends, frRemoving, frIds, frOld, frPromoted, frAcl, frUnbinding, frTokens, frCall>>

FrUndesignate ==
    /\ frPhone # {}
    /\ frPhone' = {}
    /\ UNCHANGED <<frFriends, frRemoving, frIds, frOld, frPromoted, frAcl, frUnbinding, frTokens, frCall>>

(***************************************************************************)
(* Shares.                                                                 *)
(***************************************************************************)

(* ResolveDeviceTargetStrict: an ID names its record; the hostname names   *)
(* the only record there is.                                               *)
FrResolves(label) ==
    LET all == frIds \cup IF frOld = {} THEN {} ELSE {FrName}
    IN IF label # FrName THEN {label} \cap frIds ELSE IF Cardinality(all) = 1 THEN all ELSE {}

FrResolve(c, label, p) ==
    /\ frCall[c].at = "idle" /\ Len(frAcl) < MaxFrShares
    /\ \E d \in FrResolves(label) :
          frCall' = [frCall EXCEPT ![c] = [at |-> "resolved", device |-> d, peer |-> p, dead |-> FALSE]]
    /\ UNCHANGED <<frFriends, frRemoving, frIds, frOld, frPromoted, frAcl, frPhone, frUnbinding, frTokens>>

(* GrantACL reads and locks the friendship; one that a removal has deleted *)
(* is waited for.                                                          *)
FrBefriended(c) ==
    /\ frCall[c].at = "resolved"
    /\ frCall[c].peer \notin frRemoving
    /\ frCall' = [frCall EXCEPT ![c] = IF frFriends[frCall[c].peer] = {"accepted"} THEN [@ EXCEPT !.at = "befriended"] ELSE FrIdle]
    /\ UNCHANGED <<frFriends, frRemoving, frIds, frOld, frPromoted, frAcl, frPhone, frUnbinding, frTokens>>

(* The insert; whether the share manages is its request's choice. *)
FrGrant(c, manage) ==
    /\ frCall[c].at = "befriended"
    /\ frAcl' = IF Len(frAcl) < MaxFrShares
                THEN Append(frAcl, [device |-> frCall[c].device, peer |-> frCall[c].peer, manage |-> manage,
                                    dead |-> frCall[c].dead, live |-> TRUE])
                ELSE frAcl
    /\ frCall' = [frCall EXCEPT ![c] = FrIdle]
    /\ UNCHANGED <<frFriends, frRemoving, frIds, frOld, frPromoted, frPhone, frUnbinding, frTokens>>

FrRevoked(d, p) == [i \in DOMAIN frAcl |-> [frAcl[i] EXCEPT !.live = @ /\ ~(frAcl[i].device = d /\ frAcl[i].peer = p)]]

(* Every live share of the device with that peer ends. *)
FrRevoke(label, p) ==
    /\ \E d \in FrResolves(label) : frAcl' = FrRevoked(d, p) /\ frAcl' # frAcl
    /\ UNCHANGED <<frFriends, frRemoving, frIds, frOld, frPromoted, frPhone, frUnbinding, frTokens, frCall>>

FrManaged(d, p, manage) ==
    [i \in DOMAIN frAcl |-> IF frAcl[i].live /\ frAcl[i].device = d /\ frAcl[i].peer = p
                            THEN [frAcl[i] EXCEPT !.manage = manage] ELSE frAcl[i]]

(* Management is switched on every live share of a device with a peer. *)
FrManage(label, p, manage) ==
    /\ \E d \in FrResolves(label) : frAcl' = FrManaged(d, p, manage) /\ frAcl' # frAcl
    /\ UNCHANGED <<frFriends, frRemoving, frIds, frOld, frPromoted, frPhone, frUnbinding, frTokens, frCall>>

(***************************************************************************)
(* Scoped tokens.                                                          *)
(***************************************************************************)

FrLive == Cardinality({t \in DOMAIN frTokens : frTokens[t].live})

(* The advisory lock of the account's scoped tokens. *)
FrScopedFreeBlind == TRUE
FrScopedFree == \A c \in FrCalls : frCall[c].at # "counted"

(* IssueScopedToken counts the live ones of an account under its lock ...  *)
FrScopedCount(c, m) ==
    /\ frCall[c].at = "idle" /\ Len(frTokens) < MaxFrTokens
    /\ FrScopedFree
    /\ m \in frIds
    /\ FrLive < FrMaxLive
    /\ frCall' = [frCall EXCEPT ![c] = [at |-> "counted", device |-> m]]
    /\ UNCHANGED <<frFriends, frRemoving, frIds, frOld, frPromoted, frAcl, frPhone, frUnbinding, frTokens>>

(* ... and inserts one. *)
FrScopedIssue(c) ==
    /\ frCall[c].at = "counted"
    /\ frTokens' = Append(frTokens, [device |-> frCall[c].device, live |-> TRUE])
    /\ frCall' = [frCall EXCEPT ![c] = FrIdle]
    /\ UNCHANGED <<frFriends, frRemoving, frIds, frOld, frPromoted, frAcl, frPhone, frUnbinding>>

FrEnded(t) == [frTokens EXCEPT ![t].live = FALSE]

(* Revoked, or past its days. *)
FrScopedEnds(t) ==
    /\ frTokens[t].live
    /\ frTokens' = FrEnded(t)
    /\ UNCHANGED <<frFriends, frRemoving, frIds, frOld, frPromoted, frAcl, frPhone, frUnbinding, frCall>>

FrNext ==
    \/ \E p \in FrPeers : \/ \E by \in {"owner", "peer"} : FrRequest(p, by)
                          \/ FrAccept(p) \/ FrDecline(p) \/ FrRemoveBegin(p) \/ FrRemoveCommit(p)
    \/ \E m \in FrMachines : FrRegister(m) \/ FrRegisterLegacy(m)
    \/ \E key \in FrKeys : FrUnbind(key) \/ FrUnbound(key) \/ FrDesignate(key)
    \/ FrUndesignate
    \/ \E c \in FrCalls : \/ \E key \in FrKeys, p \in FrPeers : FrResolve(c, key, p)
                          \/ FrBefriended(c) \/ (\E b \in BOOLEAN : FrGrant(c, b)) \/ FrScopedIssue(c)
                          \/ \E m \in FrMachines : FrScopedCount(c, m)
    \/ \E key \in FrKeys, p \in FrPeers : FrRevoke(key, p) \/ \E b \in BOOLEAN : FrManage(key, p, b)
    \/ \E t \in DOMAIN frTokens : FrScopedEnds(t)

FrSpec == FrInit /\ [][FrNext]_frVars

(* Nobody keeps a device shared by someone who is no longer a friend,      *)
(* however a grant and the end of the friendship cross (GrantACL,          *)
(* FriendRemove).                                                          *)
FrShareNeedsFriend == \A i \in DOMAIN frAcl : frAcl[i].live => frFriends[frAcl[i].peer] = {"accepted"}

(* Requests that count at the same time cannot together pass the limit on  *)
(* live scoped tokens (IssueScopedToken).                                  *)
FrWithinCap == FrLive <= FrMaxLive

(* RemoveDevice: "A designation must not outlive its device: a later       *)
(* enrollment under the same name would otherwise inherit the power to     *)
(* approve".                                                               *)
FrDesignationDies == frUnbinding = {} => \A f \in frPhone : ~f.dead

(* adminDeviceRemove, of a device just removed: "Its shares went with it." *)
FrSharesGo == frUnbinding = {} => \A i \in DOMAIN frAcl : frAcl[i].live => ~frAcl[i].dead

(* friends.go and admin.go: shares need friends, scoped tokens a limit.     *)
FrSafe == FrShareNeedsFriend /\ FrWithinCap
================================================================================
