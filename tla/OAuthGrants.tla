---------------------------- MODULE OAuthGrants ----------------------------
(***************************************************************************)
(* OAuth for the hosted MCP endpoint (internal/relay/oauth.go, oauth_pg.go,*)
(* internal/portal/oauth.go, internal/mcpauth).  A client registers itself,*)
(* a signed-in owner consents on the portal, the client redeems the code   *)
(* for a namespace token and a refresh token, and rotates the refresh      *)
(* token from then on.  Requests and codes live in the relay's memory,     *)
(* client rows, refresh rows and tokens in the database; every token call  *)
(* is a sequence of separate statements that interleaves with the others.  *)
(* A client is identified with its one consent.                            *)
(***************************************************************************)
EXTENDS Naturals, FiniteSets

CONSTANTS OaClients, OaCalls,
          OaMaxUnused,        \* oauthMaxUnusedClients
          OaPerClient,        \* oauthRegistrationsPerClient
          MaxOaRows,          \* bound: refresh tokens of one consent
          MaxOaToggles        \* bound: times the account is disabled, enabled or the relay restarts

VARIABLES oaRow,      \* oauth_clients: none, fresh, stale (older than oauthUnusedClientTTL)
          oaReg,      \* registration under way: the snapshot of clients in flight, {} for none
          oaTaken,    \* registrations charged to the address in this window
          oaLogin,    \* the consent: idle, found, page, taken, code, over
          oaTok,      \* the namespace token minted: none, live, revoked, lapsed
          oaRows,     \* refresh rows written for it
          oaLive,     \* those neither revoked nor expired
          oaCall,     \* token and revocation requests being served
          oaEnabled,  \* the account is not disabled
          oaToggles

oaDb == <<oaRow, oaTok, oaRows, oaLive>>
oaVars == <<oaDb, oaReg, oaTaken, oaLogin, oaCall, oaEnabled, oaToggles>>

OaIdle == [at |-> "idle"]
OaServing(k, at) == oaCall[k].at = at
OaGoes(k, at) == oaCall' = [oaCall EXCEPT ![k].at = at]
OaRefused(k) == oaCall' = [oaCall EXCEPT ![k] = OaIdle]

OaInit ==
    /\ oaRow = [c \in OaClients |-> "none"] /\ oaReg = [c \in OaClients |-> {}] /\ oaTaken = 0
    /\ oaLogin = [c \in OaClients |-> "idle"] /\ oaTok = [c \in OaClients |-> "none"]
    /\ oaRows = [c \in OaClients |-> 0]
    /\ oaLive = [c \in OaClients |-> {}] /\ oaCall = [k \in OaCalls |-> OaIdle]
    /\ oaEnabled = TRUE /\ oaToggles = 0

---------------------------------------------------------------------------
(* A request on the consent page or a code not yet redeemed. *)
OaClientsInFlight == {c \in OaClients : oaLogin[c] \in {"page", "code"}}

(* oauthRegister: the address's budget is charged, then the clients with an *)
(* authorization under way are listed.                                      *)
OaRegister(c) ==
    /\ oaRow[c] = "none" /\ oaReg[c] = {} /\ oaLogin[c] = "idle"
    /\ oaTaken < OaPerClient /\ oaTaken' = oaTaken + 1
    /\ oaReg' = [oaReg EXCEPT ![c] = {OaClientsInFlight}]
    /\ UNCHANGED <<oaDb, oaLogin, oaCall, oaEnabled, oaToggles>>

OaWindowEnds ==
    /\ oaTaken = OaPerClient /\ oaTaken' = 0
    /\ UNCHANGED <<oaDb, oaReg, oaLogin, oaCall, oaEnabled, oaToggles>>

OaUnused(rows) == {c \in OaClients : rows[c] # "none" /\ oaRows[c] = 0}

(* RegisterOAuthClient, one transaction: stale clients that never completed *)
(* an authorization go, except those in the list; then the ceiling.         *)
OaStore(c, inFlight) ==
    LET left == [d \in OaClients |-> IF d \in OaUnused(oaRow) /\ oaRow[d] = "stale" /\ d \notin inFlight
                                     THEN "none" ELSE oaRow[d]] IN
    /\ oaReg[c] = {inFlight} /\ oaReg' = [oaReg EXCEPT ![c] = {}]
    /\ oaRow' = IF Cardinality(OaUnused(left)) >= OaMaxUnused THEN left ELSE [left EXCEPT ![c] = "fresh"]
    /\ UNCHANGED <<oaTok, oaRows, oaLive, oaTaken, oaLogin, oaCall, oaEnabled, oaToggles>>

OaAges(c) ==
    /\ oaRow[c] = "fresh" /\ oaRow' = [oaRow EXCEPT ![c] = "stale"]
    /\ UNCHANGED <<oaTok, oaRows, oaLive, oaReg, oaTaken, oaLogin, oaCall, oaEnabled, oaToggles>>

---------------------------------------------------------------------------
OaLoginGoes(c, from, to) ==
    /\ oaLogin[c] = from /\ oaLogin' = [oaLogin EXCEPT ![c] = to]
    /\ UNCHANGED <<oaDb, oaReg, oaTaken, oaCall, oaEnabled, oaToggles>>

(* adminOAuthAuthorizeRequest: the client is looked up, then the request is *)
(* recorded under oauthMu.                                                  *)
OaLookUp(c) == oaRow[c] # "none" /\ OaLoginGoes(c, "idle", "found")
OaRecord(c) == OaLoginGoes(c, "found", "page")

(* adminOAuthApprove takes the request and stores the code under two locks. *)
OaTake(c) == OaLoginGoes(c, "page", "taken")
OaApprove(c) == OaLoginGoes(c, "taken", "code")

(* adminOAuthDeny, and the lives of a request and of a code. *)
OaDeny(c) == OaLoginGoes(c, "page", "over")
OaExpires(c) == OaLoginGoes(c, "page", "over") \/ OaLoginGoes(c, "code", "over")

---------------------------------------------------------------------------
(* authenticateOAuthClient: the row must be there.  A call redeems the code *)
(* (row 0), redeems refresh row n, or revokes through row n.                *)
OaPresent(k, c, n, op) ==
    /\ OaServing(k, "idle") /\ oaRow[c] # "none"
    /\ n = 0 => op = "redeem" /\ oaLogin[c] = "code"
    /\ n <= oaRows[c]
    /\ oaCall' = [oaCall EXCEPT ![k] = [at |-> IF n = 0 THEN "code" ELSE op, c |-> c, n |-> n]]
    /\ UNCHANGED <<oaDb, oaReg, oaTaken, oaLogin, oaEnabled, oaToggles>>

OaCodeKept(c) == oaLogin
OaCodeTaken(c) == [oaLogin EXCEPT ![c] = "over"]

(* oauthTokenFromCode: the code is deleted before any check of the request  *)
(* may fail.                                                                *)
OaTakeCode(k) ==
    /\ OaServing(k, "code")
    /\ LET c == oaCall[k].c IN
       IF oaLogin[c] = "code"
       THEN oaLogin' = OaCodeTaken(c) /\ (OaGoes(k, "mint") \/ OaRefused(k))
       ELSE OaRefused(k) /\ UNCHANGED oaLogin
    /\ UNCHANGED <<oaDb, oaReg, oaTaken, oaEnabled, oaToggles>>

OaIssueToken(k) ==
    /\ OaServing(k, "mint")
    /\ LET c == oaCall[k].c IN
       \/ /\ oaTok' = [oaTok EXCEPT ![c] = "live"] /\ OaGoes(k, "write")
       \/ OaRefused(k) /\ UNCHANGED oaTok
    /\ UNCHANGED <<oaRow, oaRows, oaLive, oaReg, oaTaken, oaLogin, oaEnabled, oaToggles>>

(* ts.Resolve: neither revoked, nor expired, nor of a disabled account. *)
OaResolves(c) == oaTok[c] = "live" /\ oaEnabled

(* oauthTokenFromRefresh: the row is looked up and the token resolved. *)
OaRedeem(k) ==
    /\ OaServing(k, "redeem")
    /\ LET c == oaCall[k].c IN
       IF oaCall[k].n \in oaLive[c] /\ OaResolves(c) THEN OaGoes(k, "rotate") ELSE OaRefused(k)
    /\ UNCHANGED <<oaDb, oaReg, oaTaken, oaLogin, oaEnabled, oaToggles>>

OaRotatesAny(c, n) == TRUE
OaRotates(c, n) == n \in oaLive[c]

(* RevokeOAuthRefresh: of two requests racing for one row, one wins. *)
OaRotate(k) ==
    /\ OaServing(k, "rotate")
    /\ LET c == oaCall[k].c  n == oaCall[k].n IN
       /\ IF OaRotates(c, n) THEN OaGoes(k, "write") ELSE OaRefused(k)
       /\ oaLive' = [oaLive EXCEPT ![c] = @ \ {n}]
    /\ UNCHANGED <<oaRow, oaTok, oaRows, oaReg, oaTaken, oaLogin, oaEnabled, oaToggles>>

OaExtendableBlind(c) == oaTok[c] # "revoked"
OaExtendable(c) == OaResolves(c)

(* writeOAuthTokens: ExtendRelayTokenHash moves the expiry of a live token  *)
(* only; the chain of a token that is gone ends here.                       *)
OaExtend(k) ==
    /\ OaServing(k, "write")
    /\ LET c == oaCall[k].c IN
       IF OaExtendable(c)
       THEN oaTok' = [oaTok EXCEPT ![c] = "live"] /\ OaGoes(k, "put")
       ELSE OaRefused(k) /\ UNCHANGED oaTok
    /\ UNCHANGED <<oaRow, oaRows, oaLive, oaReg, oaTaken, oaLogin, oaEnabled, oaToggles>>

(* PutOAuthRefresh, which may fail; the pair goes to the client. *)
OaPut(k) ==
    /\ OaServing(k, "put") /\ OaRefused(k)
    /\ LET c == oaCall[k].c IN
       \/ UNCHANGED <<oaRows, oaLive>>
       \/ /\ oaRows[c] < MaxOaRows /\ oaRows' = [oaRows EXCEPT ![c] = @ + 1]
          /\ oaLive' = [oaLive EXCEPT ![c] = @ \cup {oaRows[c] + 1}]
    /\ UNCHANGED <<oaRow, oaTok, oaReg, oaTaken, oaLogin, oaEnabled, oaToggles>>

(* revokeOAuthGrant: the refresh row, then the token its grant carries. *)
OaRevokeRow(k) ==
    /\ OaServing(k, "revoke") /\ OaGoes(k, "revokeToken")
    /\ oaLive' = [oaLive EXCEPT ![oaCall[k].c] = @ \ {oaCall[k].n}]
    /\ UNCHANGED <<oaRow, oaTok, oaRows, oaReg, oaTaken, oaLogin, oaEnabled, oaToggles>>

OaRevokedTok(c) == IF oaTok[c] = "live" THEN [oaTok EXCEPT ![c] = "revoked"] ELSE oaTok

OaRevokeToken(k) ==
    /\ OaServing(k, "revokeToken") /\ OaRefused(k) /\ oaTok' = OaRevokedTok(oaCall[k].c)
    /\ UNCHANGED <<oaRow, oaRows, oaLive, oaReg, oaTaken, oaLogin, oaEnabled, oaToggles>>

(* wanctl_logout on the hosted endpoint (RevokeOAuthRelayToken): the bearer *)
(* was just found live by the gate in front of it.                          *)
OaLogout(c) ==
    /\ OaResolves(c) /\ oaTok' = OaRevokedTok(c)
    /\ UNCHANGED <<oaRow, oaRows, oaLive, oaReg, oaTaken, oaLogin, oaCall, oaEnabled, oaToggles>>

---------------------------------------------------------------------------
(* Token, grant and refresh row carry one expiry, moved forward together. *)
OaLapses(c) ==
    /\ oaTok[c] = "live" /\ \A k \in OaCalls : OaServing(k, "put") => oaCall[k].c # c
    /\ oaTok' = [oaTok EXCEPT ![c] = "lapsed"] /\ oaLive' = [oaLive EXCEPT ![c] = {}]
    /\ UNCHANGED <<oaRow, oaRows, oaReg, oaTaken, oaLogin, oaCall, oaEnabled, oaToggles>>

OaToggleAccount ==
    /\ oaToggles < MaxOaToggles /\ oaToggles' = oaToggles + 1 /\ oaEnabled' = ~oaEnabled
    /\ UNCHANGED <<oaDb, oaReg, oaTaken, oaLogin, oaCall>>

(* The relay restarts: requests, codes and the budget are memory. *)
OaRestart ==
    /\ oaToggles < MaxOaToggles /\ oaToggles' = oaToggles + 1 /\ oaTaken' = 0
    /\ oaReg' = [c \in OaClients |-> {}] /\ oaCall' = [k \in OaCalls |-> OaIdle]
    /\ oaLogin' = [c \in OaClients |-> IF oaLogin[c] = "idle" THEN "idle" ELSE "over"]
    /\ UNCHANGED <<oaDb, oaEnabled>>

OaNext ==
    \/ \E c \in OaClients :
         \/ OaRegister(c) \/ OaAges(c) \/ OaLookUp(c) \/ OaRecord(c) \/ OaTake(c) \/ OaApprove(c)
         \/ OaDeny(c) \/ OaExpires(c) \/ OaLogout(c) \/ OaLapses(c)
         \/ \E s \in SUBSET OaClients : OaStore(c, s)
         \/ \E k \in OaCalls, n \in 0..MaxOaRows, op \in {"redeem", "revoke"} : OaPresent(k, c, n, op)
    \/ \E k \in OaCalls : OaTakeCode(k) \/ OaIssueToken(k) \/ OaRedeem(k) \/ OaRotate(k) \/ OaExtend(k)
                          \/ OaPut(k) \/ OaRevokeRow(k) \/ OaRevokeToken(k)
    \/ OaWindowEnds \/ OaToggleAccount \/ OaRestart

OaSpec == OaInit /\ [][OaNext]_oaVars

---------------------------------------------------------------------------
(* One consent never has two heirs: at any moment a consent is worth one live *)
(* refresh token or one request on its way to write one, so a refresh token   *)
(* redeemed twice at once, or a code presented twice, yields one pair         *)
(* (RevokeOAuthRefresh's row count, oauthTokenFromCode's delete first).       *)
OaOneHeir ==
    \A c \in OaClients :
        Cardinality(oaLive[c]) +
        Cardinality({k \in OaCalls : oaCall[k].at \in {"mint", "write", "put"} /\ oaCall[k].c = c}) <= 1

(* A token that was revoked or has lapsed is never live again: a refresh that *)
(* was already past its checks cannot revive it (ExtendRelayTokenHash).       *)
OaStaysEnded ==
    [][\A c \in OaClients : oaTok[c] \in {"revoked", "lapsed"} => oaTok'[c] = oaTok[c]]_oaVars

(* A client whose owner is on the consent page, or whose code is not redeemed *)
(* yet, is still registered ("Cleaning up unused registrations must not       *)
(* delete a client out from under its own login", oauthClientsInFlight).      *)
OaLoginKeepsClient == \A c \in OaClients : oaLogin[c] \in {"page", "taken", "code"} => oaRow[c] # "none"

(* An enabled account finds its connector where it was: a live token has a    *)
(* refresh token or a request that is writing one ("refused before rotating", *)
(* oauthTokenFromRefresh).                                                    *)
OaEnabledFindsChain ==
    \A c \in OaClients :
        oaTok[c] = "live" => \/ oaLive[c] # {}
                             \/ \E k \in OaCalls : oaCall[k].at \in {"write", "put"} /\ oaCall[k].c = c

(* oauth.go: a consent has one heir, and what was ended stays ended.          *)
OaSafe == []OaOneHeir /\ OaStaysEnded
=============================================================================
