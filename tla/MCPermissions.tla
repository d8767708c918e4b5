---------------------------- MODULE MCPermissions ----------------------------
(***************************************************************************)
(* Who may do what, for TLC: the relay's accounts and the device's          *)
(* approvals.  A behaviour is one of the parts, each a component with its   *)
(* own state; the others rest in their initial state.                       *)
(***************************************************************************)
EXTENDS AccountAccess, OAuthGrants, ContactEmail, Admission, Notifications,
        CommandGate, PolicyRules, Pairing

CONSTANTS script1, script2, short,   \* two scripts with one label
          hub1, hub2, login1, login2 \* two GitHub accounts and their logins

MCLabelOf == (script1 :> short) @@ (script2 :> short) @@ (short :> short)
MCAmLogins == (hub1 :> {login1}) @@ (hub2 :> {login2})

\* Bound: a delegated request is for a script, in a canonical directory; of the
\* others without one, those for one command.
MCAsked ==
  \A r \in Requests : req'[r].pc # "none" =>
    /\ r \in Delegated => req'[r].cmd # short /\ req'[r].dir # NoDir
    /\ req'[r].dir = NoDir => req'[r].cmd = script1

\* Handlers of one kind are interchangeable; only one part's handlers run.
MCTwins == {Polls, OaCalls, AmCalls, PairDials}
MCOther(x) == CHOOSE y \in UNION MCTwins : y # x /\ {x, y} \in MCTwins
MCSwap == {[x \in UNION MCTwins |-> IF same THEN x ELSE MCOther(x)] : same \in BOOLEAN}

VARIABLE part

permVars == <<part, vars, oaVars, emVars, amVars, frVars, nfVars, nvVars, gateVars, policyVars, pairVars>>

\* The initial states that a component's own part distinguishes are one in the
\* other parts.
PermInit ==
  /\ part \in {"access", "oauth", "contact", "admission", "shares", "notify", "installed", "versions", "gate", "policy", "pairing"}
  /\ Init /\ (part # "access" => kind = [d \in Dials |-> CHOOSE k \in Kinds : TRUE])
  /\ OaInit /\ EmInit /\ AmInit /\ FrInit /\ NfInit /\ NvInit /\ PairInit
  /\ GateInit /\ (part # "gate" => attended)
  /\ PolicyInit /\ (part # "policy" => answered = CHOOSE q \in RequestSet : TRUE)

PermNext ==
  /\ UNCHANGED part
  /\ IF part = "access" THEN Next ELSE UNCHANGED vars
  /\ IF part = "oauth" THEN OaNext ELSE UNCHANGED oaVars
  /\ IF part = "contact" THEN EmNext ELSE UNCHANGED emVars
  /\ IF part = "admission" THEN AmNext ELSE UNCHANGED amVars
  /\ IF part = "shares" THEN FrNext ELSE UNCHANGED frVars
  /\ IF part = "notify" THEN NfNext ELSE UNCHANGED nfVars
  /\ IF part = "installed" THEN NvDeviceNext ELSE IF part = "versions" THEN NvRelayNext ELSE UNCHANGED nvVars
  /\ IF part = "gate" THEN GateNext /\ MCAsked ELSE UNCHANGED gateVars
  /\ IF part = "policy" THEN PolicyNext ELSE UNCHANGED policyVars
  /\ IF part = "pairing" THEN PairNext ELSE UNCHANGED pairVars

PermSpec == PermInit /\ [][PermNext]_permVars

\* relay/contact.go, notify.go and device_versions.go: confirmations and reports
\* go out once each, within their limits, however they are repeated, and a
\* device's row gets the versions it reported, in the order it reported them.
MailExact == EmSafe /\ []NfOncePerReport /\ NvSafe
=============================================================================
