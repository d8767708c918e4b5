-------------------------- MODULE PermissionProofs --------------------------
(***************************************************************************)
(* Proofs about who may act: the leases that hold sessions open and the    *)
(* sweeps that end them (AccountAccess), what a remembered rule lets       *)
(* through (PolicyRules), what an approval that comes late lets through    *)
(* (CommandGate), whom a device trusts (Pairing), what a consent becomes   *)
(* (OAuthGrants), what an admission costs (Admission), what an account     *)
(* hands on (Shares), and what a caller may conclude: of a command it      *)
(* named a device for (ControllerDial), and of an operation it fetched     *)
(* through a delegation (WebFetchJobs).                                    *)
(***************************************************************************)
EXTENDS AccountAccess, PolicyRules, CommandGate, Pairing, OAuthGrants, Admission, Shares,
        ControllerDial, WebFetchJobs,
        FiniteSetTheorems, SequenceTheorems, WellFoundedInduction, TLAPS

----------------------------------------------------------------------------
(* Access leases *)

AcPlaces == {"start", "authed", "session", "lease", "check", "wait", "add", "select", "next", "up", "out"}

\* The first leg of a dial's kind.
AcFirst(d) == Legs[kind[d]][1]

\* A leg that is open and has not been registered with the lease yet.
AcPending(d) ==
  IF pc[d] \in {"lease", "check", "wait"} THEN {AcFirst(d)} \cap {"session"}
  ELSE IF pc[d] = "add" THEN {Head(legs[d])} ELSE {}

AcTyped ==
  /\ disabled \in BOOLEAN /\ shared \in BOOLEAN /\ registered \in BOOLEAN
  /\ pc \in [Dials -> AcPlaces]
  /\ closing \in [Dials -> {"no", "asked", "marked", "unlisted", "closed"}]
  /\ DOMAIN legs = Dials /\ legs = [d \in Dials |-> legs[d]]
  /\ open = [d \in Dials |-> open[d]] /\ closers = [d \in Dials |-> closers[d]]
  /\ running = [d \in Dials |-> running[d]] /\ poll = [p \in Polls |-> poll[p]]
  /\ held = [s \in {"disabler", "revoker"} |-> held[s]]
  /\ disabler \in {"idle", "flagged", "closing", "done"}
  /\ revoker \in {"idle", "gone", "closing", "done"}

\* One dial: its lease can be found from the moment it is published until close
\* has taken its closers, and every leg that is open is registered with it, is
\* being closed by it, or is about to be registered.
AcDial(d) ==
  /\ pc[d] \in {"start", "authed", "session", "lease", "check", "wait"} => Head(legs[d]) = AcFirst(d)
  /\ pc[d] \in {"start", "authed", "session", "lease"} => closing[d] = "no"
  /\ pc[d] = "session" => AcFirst(d) = "session"
  /\ pc[d] = "wait" => closing[d] # "no"
  /\ d \in done <=> closing[d] \in {"marked", "unlisted", "closed"}
  /\ pc[d] \in {"check", "wait", "add", "select", "next", "up"} /\ closing[d] = "no" => d \in leases
  /\ open[d] \subseteq closers[d] \union running[d] \union AcPending(d)
  /\ d \in done => closers[d] = {}
  /\ closing[d] \in {"no", "asked", "closed"} => running[d] = {}
  /\ pc[d] \in {"start", "authed", "session", "lease", "check", "wait"} => closers[d] = {}
  /\ pc[d] = "out" /\ d \notin done => open[d] = {}
  /\ pc[d] \in {"start", "authed", "session"} => open[d] = {}

\* The sweep of a disabled account: a dial that got past the look at the account
\* is being closed or is in the sweep's snapshot.
AcDisabling ==
  /\ disabler = "done" => held["disabler"] = {}
  /\ disabled /\ disabler \in {"closing", "done"} =>
       \A d \in Dials : pc[d] \in {"add", "select", "next", "up"} /\ closing[d] = "no"
                          => d \in held["disabler"]
  /\ disabled /\ disabler = "done" /\ RegistrationMuFree => ~registered

\* The sweep of a share taken back, likewise, except for the dials it counts as
\* late.
AcRevoking ==
  /\ revoker = "done" => held["revoker"] = {}
  /\ ~shared => \A d \in Dials \ late : pc[d] \notin {"session", "lease"}
  /\ ~shared /\ revoker \in {"closing", "done"} =>
       \A d \in Dials \ late :
         pc[d] \in {"check", "wait", "add", "select", "next", "up"} /\ closing[d] = "no"
           => d \in held["revoker"]

\* Only a dial that has published its lease is listed or in a snapshot.
AcListed ==
  leases \union held["disabler"] \union held["revoker"]
    \subseteq {d \in Dials : pc[d] \notin {"start", "authed", "session", "lease"}}

AcInv == AcTyped /\ (\A d \in Dials : AcDial(d)) /\ AcListed /\ AcDisabling /\ AcRevoking

LEMMA AcInv_Ends == AcInv => AccessEnds
PROOF
<1> SUFFICES ASSUME AcInv PROVE AccessEnds
  OBVIOUS
<1>1. NothingSurvivesDisable
  BY DEF AcInv, AcTyped, AcDial, AcPending, AcDisabling, NothingSurvivesDisable, AtRest
<1>2. RevokedSharesEnd
  BY DEF AcInv, AcTyped, AcDial, AcPending, AcRevoking, RevokedSharesEnd, AtRest
<1> QED BY <1>1, <1>2 DEF AccessEnds

LEMMA AcInit_Inv == Init => AcInv
PROOF
<1> SUFFICES ASSUME Init PROVE AcInv
  OBVIOUS
<1>1. \A d \in Dials : Head(legs[d]) = AcFirst(d)
  BY DEF Init, AcFirst, Legs, Kinds
<1>2. AcTyped
  BY DEF Init, AcTyped, AcPlaces
<1>3. \A d \in Dials : AcDial(d)
  BY <1>1 DEF Init, AcDial
<1>4. AcListed /\ AcDisabling /\ AcRevoking
  BY DEF Init, AcListed, AcDisabling, AcRevoking
<1> QED BY <1>2, <1>3, <1>4 DEF AcInv

\* A step leaves dial x alone.
AcSame(x) ==
  /\ pc'[x] = pc[x] /\ closing'[x] = closing[x] /\ legs'[x] = legs[x] /\ open'[x] = open[x]
  /\ closers'[x] = closers[x] /\ running'[x] = running[x] /\ kind' = kind
  /\ x \in done' <=> x \in done
  /\ x \in leases => x \in leases'

LEMMA AcFrame ==
  ASSUME NEW x \in Dials, AcDial(x), AcSame(x)
  PROVE  AcDial(x)'
PROOF
<1>1. AcFirst(x)' = AcFirst(x) /\ AcPending(x)' = AcPending(x)
  BY DEF AcSame, AcFirst, AcPending
<1> QED BY <1>1 DEF AcSame, AcDial

\* A dial moves on and nothing else does: authAccess, dialAccessAllowed, the look at
\* the lease after the first leg.
LEMMA AcMoves_Inv ==
  ASSUME AcInv, NEW d \in Dials, Authenticate(d) \/ Admit(d) \/ Select(d)
  PROVE  AcInv'
PROOF
<1>1. /\ disabled' = disabled /\ shared' = shared /\ registered' = registered /\ poll' = poll
      /\ kind' = kind /\ legs' = legs /\ open' = open /\ leases' = leases /\ done' = done
      /\ closers' = closers /\ closing' = closing /\ running' = running /\ held' = held
      /\ disabler' = disabler /\ revoker' = revoker /\ late' = late
  BY DEF Authenticate, Admit, Select, stores, lease, registry, sweeps
<1>2. /\ pc' \in [Dials -> AcPlaces] /\ \A x \in Dials \ {d} : pc'[x] = pc[x]
      /\ \/ pc[d] = "start" /\ pc'[d] \in {"authed", "out"}
         \/ pc[d] = "authed" /\ pc'[d] = "out"
         \/ pc[d] = "authed" /\ pc'[d] = "session" /\ shared /\ AcFirst(d) = "session"
         \/ pc[d] = "authed" /\ pc'[d] = "lease" /\ shared
         \/ pc[d] = "select" /\ pc'[d] = "out" /\ d \in done
         \/ pc[d] = "select" /\ pc'[d] = "next" /\ d \notin done
  BY DEF Authenticate, Admit, MayDial, Select, Goto, AcInv, AcTyped, AcPlaces, AcFirst
<1>3. AcTyped'
  BY <1>1, <1>2 DEF AcInv, AcTyped
<1>4. ASSUME NEW x \in Dials PROVE AcDial(x)'
  <2>1. CASE x # d
    BY <1>1, <1>2, <2>1, AcFrame DEF AcInv, AcSame
  <2>2. AcFirst(d)' = AcFirst(d)
    BY <1>1 DEF AcFirst
  <2>3. CASE x = d
    BY <1>1, <1>2, <2>2, <2>3 DEF AcInv, AcDial, AcPending
  <2> QED BY <2>1, <2>3
<1>5. AcDisabling' /\ AcListed'
  BY <1>1, <1>2 DEF AcInv, AcTyped, AcDisabling, AcListed, RegistrationMuFree
<1>6. AcRevoking'
  BY <1>1, <1>2 DEF AcInv, AcTyped, AcRevoking
<1> QED BY <1>3, <1>4, <1>5, <1>6 DEF AcInv

\* newHTTPSession and the connections: a leg opens, and is about to be registered.
LEMMA AcOpens_Inv ==
  ASSUME AcInv, NEW d \in Dials, OpenSession(d) \/ OpenLeg(d)
  PROVE  AcInv'
PROOF
<1>1. /\ disabled' = disabled /\ shared' = shared /\ registered' = registered /\ poll' = poll
      /\ kind' = kind /\ legs' = legs /\ leases' = leases /\ done' = done
      /\ closers' = closers /\ closing' = closing /\ running' = running /\ held' = held
      /\ disabler' = disabler /\ revoker' = revoker /\ late' = late
  BY DEF OpenSession, OpenLeg, stores, lease, registry, sweeps
<1>2. /\ pc' \in [Dials -> AcPlaces] /\ \A x \in Dials \ {d} : pc'[x] = pc[x] /\ open'[x] = open[x]
      /\ open' = [x \in Dials |-> open'[x]]
      /\ \/ pc[d] = "session" /\ pc'[d] = "lease" /\ open'[d] = open[d] \union {"session"}
         \/ pc[d] = "next" /\ pc'[d] = "add" /\ open'[d] = open[d] \union {Head(legs[d])}
  BY DEF OpenSession, OpenLeg, HandOver, Goto, AcInv, AcTyped, AcPlaces
<1>3. AcTyped'
  BY <1>1, <1>2 DEF AcInv, AcTyped
<1>4. ASSUME NEW x \in Dials PROVE AcDial(x)'
  <2>1. CASE x # d
    BY <1>1, <1>2, <2>1, AcFrame DEF AcInv, AcSame
  <2>2. AcFirst(d)' = AcFirst(d)
    BY <1>1 DEF AcFirst
  <2>3. CASE x = d
    BY <1>1, <1>2, <2>2, <2>3 DEF AcInv, AcDial, AcPending
  <2> QED BY <2>1, <2>3
<1>5. AcDisabling' /\ AcListed'
  BY <1>1, <1>2 DEF AcInv, AcTyped, AcDisabling, AcListed, RegistrationMuFree
<1>6. AcRevoking'
  BY <1>1, <1>2 DEF AcInv, AcTyped, AcRevoking
<1> QED BY <1>3, <1>4, <1>5, <1>6 DEF AcInv

LEMMA AsksClose ==
  ASSUME AcTyped, NEW d \in Dials, RequestClose(d)
  PROVE  /\ closing' \in [Dials -> {"no", "asked", "marked", "unlisted", "closed"}]
         /\ \A x \in Dials \ {d} : closing'[x] = closing[x]
         /\ closing'[d] = IF closing[d] = "no" THEN "asked" ELSE closing[d]
PROOF BY DEF AcTyped, RequestClose

\* beginAccessLease, and the end of the handler.
LEMMA AcLease_Inv ==
  ASSUME AcInv, NEW d \in Dials, BeginAccessLease(d) \/ Settle(d) \/ LeaseEnds(d)
  PROVE  AcInv'
PROOF
<1>1. /\ disabled' = disabled /\ shared' = shared /\ registered' = registered /\ poll' = poll
      /\ kind' = kind /\ legs' = legs /\ open' = open /\ done' = done
      /\ closers' = closers /\ running' = running /\ held' = held
      /\ disabler' = disabler /\ revoker' = revoker /\ late' = late
  BY DEF BeginAccessLease, Settle, LeaseEnds, stores, lease, dials, registry, sweeps
<1>2. /\ pc' \in [Dials -> AcPlaces] /\ \A x \in Dials \ {d} : pc'[x] = pc[x]
      /\ closing' \in [Dials -> {"no", "asked", "marked", "unlisted", "closed"}]
      /\ \A x \in Dials \ {d} : closing'[x] = closing[x]
      /\ leases \subseteq leases' /\ leases' \subseteq leases \union {d}
      /\ \/ pc[d] = "lease" /\ pc'[d] = "check" /\ d \in leases' /\ closing'[d] = closing[d]
         \/ pc[d] = "check" /\ pc'[d] = AfterLease(d) /\ ~disabled /\ closing'[d] = closing[d]
         \/ pc[d] = "check" /\ pc'[d] = "wait" /\ closing'[d] = IF closing[d] = "no" THEN "asked" ELSE closing[d]
         \/ pc[d] = "wait" /\ pc'[d] = AfterLease(d) /\ closing'[d] = closing[d]
         \/ pc[d] = "next" /\ pc'[d] = "up" /\ closing'[d] \in {closing[d], IF closing[d] = "no" THEN "asked" ELSE closing[d]}
         \/ pc[d] = "up" /\ pc'[d] = "up" /\ closing[d] = "no" /\ closing'[d] = "asked"
  <2>1. AfterLease(d) \in {"add", "select"}
    BY DEF AfterLease
  <2>2. CASE LeaseEnds(d)
    BY <2>2, AsksClose DEF LeaseEnds, AcInv, AcTyped, AcPlaces, dials
  <2>3. CASE Settle(d)
    <3>1. pc[d] = "next" /\ Goto(d, "up") /\ leases' = leases
      BY <2>3 DEF Settle
    <3>2. CASE legs[d] # << >>
      BY <2>3, <3>1, <3>2, AsksClose DEF Settle, Goto, AcInv, AcTyped, AcPlaces
    <3>3. CASE legs[d] = << >>
      BY <2>3, <3>1, <3>3 DEF Settle, Goto, AcInv, AcTyped, AcPlaces
    <3> QED BY <3>2, <3>3
  <2>4. CASE BeginAccessLease(d)
    <3>1. CASE pc[d] = "check" /\ disabled
      <4>1. Goto(d, "wait") /\ RequestClose(d) /\ leases' = leases
        BY <2>4, <3>1 DEF BeginAccessLease
      <4> QED BY <3>1, <4>1, AsksClose DEF Goto, AcInv, AcTyped, AcPlaces
    <3>2. CASE ~(pc[d] = "check" /\ disabled)
      BY <2>1, <2>4, <3>2 DEF BeginAccessLease, Goto, AcInv, AcTyped, AcPlaces
    <3> QED BY <3>1, <3>2
  <2> QED BY <2>2, <2>3, <2>4
<1>3. AcTyped'
  BY <1>1, <1>2 DEF AcInv, AcTyped
<1>4. ASSUME NEW x \in Dials PROVE AcDial(x)'
  <2>1. CASE x # d
    BY <1>1, <1>2, <2>1, AcFrame DEF AcInv, AcSame
  <2>2. /\ AcFirst(d)' = AcFirst(d)
        /\ AfterLease(d) = IF AcFirst(d) = "session" THEN "add" ELSE "select"
    BY <1>1 DEF AcFirst, AfterLease
  <2>3. CASE x = d
    BY <1>1, <1>2, <2>2, <2>3 DEF AcInv, AcDial, AcPending
  <2> QED BY <2>1, <2>3
<1>5. AcDisabling' /\ AcListed'
  BY <1>1, <1>2 DEF AcInv, AcTyped, AcDial, AcDisabling, AcListed, RegistrationMuFree, AfterLease
<1>6. AcRevoking'
  BY <1>1, <1>2 DEF AcInv, AcTyped, AcDial, AcRevoking, AfterLease
<1> QED BY <1>3, <1>4, <1>5, <1>6 DEF AcInv

\* addCloser: a leg of a lease that has closed is closed on the spot.
LEMMA AcRegister_Inv ==
  ASSUME AcInv, NEW d \in Dials, RegisterLeg(d)
  PROVE  AcInv'
PROOF
<1>1. /\ disabled' = disabled /\ shared' = shared /\ registered' = registered /\ poll' = poll
      /\ kind' = kind /\ leases' = leases /\ done' = done /\ closing' = closing
      /\ running' = running /\ held' = held
      /\ disabler' = disabler /\ revoker' = revoker /\ late' = late
  BY DEF RegisterLeg, stores, registry, sweeps
<1>2. /\ pc' \in [Dials -> AcPlaces] /\ pc[d] = "add" /\ pc'[d] \in {"select", "next"}
      /\ \A x \in Dials \ {d} : pc'[x] = pc[x] /\ legs'[x] = legs[x]
      /\ DOMAIN legs' = Dials /\ legs' = [x \in Dials |-> legs'[x]]
  BY DEF RegisterLeg, Goto, AcInv, AcTyped, AcPlaces
<1>3. /\ \A x \in Dials \ {d} : open'[x] = open[x] /\ closers'[x] = closers[x]
      /\ open' = [x \in Dials |-> open'[x]] /\ closers' = [x \in Dials |-> closers'[x]]
      /\ \/ d \in done /\ open'[d] = open[d] \ {Head(legs[d])} /\ closers'[d] = closers[d]
         \/ d \notin done /\ open'[d] = open[d] /\ closers'[d] = closers[d] \union {Head(legs[d])}
  <2>1. AddCloser(d, Head(legs[d]))
    BY DEF RegisterLeg
  <2>2. CASE d \in done
    BY <2>1, <2>2 DEF AddCloser, AcInv, AcTyped
  <2>3. CASE d \notin done
    BY <2>1, <2>3 DEF AddCloser, AcInv, AcTyped
  <2> QED BY <2>2, <2>3
<1>4. AcTyped'
  BY <1>1, <1>2, <1>3 DEF AcInv, AcTyped
<1>5. ASSUME NEW x \in Dials PROVE AcDial(x)'
  <2>1. CASE x # d
    BY <1>1, <1>2, <1>3, <2>1, AcFrame DEF AcInv, AcSame
  <2>2. CASE x = d
    BY <1>1, <1>2, <1>3, <2>2 DEF AcInv, AcDial, AcPending
  <2> QED BY <2>1, <2>2
<1>6. AcDisabling' /\ AcListed'
  BY <1>1, <1>2 DEF AcInv, AcTyped, AcDisabling, AcListed, RegistrationMuFree
<1>7. AcRevoking'
  BY <1>1, <1>2 DEF AcInv, AcTyped, AcRevoking
<1> QED BY <1>4, <1>5, <1>6, <1>7 DEF AcInv

\* accessLease.close, step by step.
LEMMA AcClose_Inv ==
  ASSUME AcInv, NEW d \in Dials, CloseLease(d)
  PROVE  AcInv'
PROOF
<1>1. /\ disabled' = disabled /\ shared' = shared /\ registered' = registered /\ poll' = poll
      /\ kind' = kind /\ pc' = pc /\ legs' = legs /\ held' = held
      /\ disabler' = disabler /\ revoker' = revoker /\ late' = late
  BY DEF CloseLease, stores, registry, sweeps
<1>2. /\ \A x \in Dials \ {d} : AcSame(x)
      /\ AcTyped' /\ leases' \subseteq leases
      /\ closing[d] # "no" /\ closing'[d] # "no"
      /\ AcDial(d)'
  <2>1. AcFirst(d)' = AcFirst(d) /\ AcPending(d)' = AcPending(d)
    BY <1>1 DEF AcFirst, AcPending
  <2>2. CASE closing[d] = "asked"
    <3>1. /\ closing' = [closing EXCEPT ![d] = "marked"] /\ done' = done \cup {d}
          /\ running' = [running EXCEPT ![d] = closers[d]] /\ closers' = [closers EXCEPT ![d] = {}]
          /\ leases' = leases /\ open' = open
      BY <2>2 DEF CloseLease
    <3>2. AcTyped'
      BY <1>1, <3>1, ZenonT(60) DEF AcInv, AcTyped
    <3> QED BY <1>1, <2>1, <2>2, <3>1, <3>2 DEF AcInv, AcTyped, AcDial, AcSame
  <2>3. CASE closing[d] = "marked"
    <3>1. /\ closing' = [closing EXCEPT ![d] = "unlisted"] /\ leases' = leases \ {d}
          /\ done' = done /\ running' = running /\ closers' = closers /\ open' = open
      BY <2>3 DEF CloseLease
    <3>2. AcTyped'
      BY <1>1, <3>1 DEF AcInv, AcTyped
    <3> QED BY <1>1, <2>1, <2>3, <3>1, <3>2 DEF AcInv, AcTyped, AcDial, AcSame
  <2>4. CASE closing[d] = "unlisted" /\ running[d] # {}
    <3>1. PICK leg \in running[d] : /\ running' = [running EXCEPT ![d] = @ \ {leg}]
                                    /\ open' = [open EXCEPT ![d] = @ \ {leg}]
      BY <2>4 DEF CloseLease
    <3>2. closing' = closing /\ leases' = leases /\ done' = done /\ closers' = closers
      BY <2>4 DEF CloseLease
    <3>3. AcTyped'
      BY <1>1, <3>1, <3>2, ZenonT(60) DEF AcInv, AcTyped
    <3> QED BY <1>1, <2>1, <2>4, <3>1, <3>2, <3>3 DEF AcInv, AcTyped, AcDial, AcSame
  <2>5. CASE closing[d] = "unlisted" /\ running[d] = {}
    <3>1. /\ closing' = [closing EXCEPT ![d] = "closed"] /\ leases' = leases
          /\ done' = done /\ running' = running /\ closers' = closers /\ open' = open
      BY <2>5 DEF CloseLease
    <3>2. AcTyped'
      BY <1>1, <3>1 DEF AcInv, AcTyped
    <3> QED BY <1>1, <2>1, <2>5, <3>1, <3>2 DEF AcInv, AcTyped, AcDial, AcSame
  <2> QED BY <2>2, <2>3, <2>4, <2>5 DEF CloseLease
<1>3. \A x \in Dials : AcDial(x)'
  BY <1>2, AcFrame DEF AcInv
<1>4. AcDisabling' /\ AcListed'
  BY <1>1, <1>2 DEF AcInv, AcTyped, AcSame, AcDisabling, AcListed, RegistrationMuFree
<1>5. AcRevoking'
  BY <1>1, <1>2 DEF AcInv, AcTyped, AcSame, AcRevoking
<1> QED BY <1>2, <1>3, <1>4, <1>5 DEF AcInv

\* The device registers or leaves, the account is enabled, the share comes back.
LEMMA AcStores_Inv ==
  ASSUME AcInv, (\E p \in Polls : Register(p)) \/ Leave \/ Enable \/ Share
  PROVE  AcInv'
PROOF
<1>1. /\ kind' = kind /\ pc' = pc /\ legs' = legs /\ open' = open
      /\ leases' = leases /\ done' = done /\ closers' = closers /\ closing' = closing
      /\ running' = running /\ held' = held
      /\ disabler' = disabler /\ revoker' = revoker /\ late' = late
  BY DEF Register, Leave, Enable, Share, dials, lease, sweeps
<1>2. /\ disabled' \in BOOLEAN /\ shared' \in BOOLEAN /\ registered' \in BOOLEAN
      /\ poll' = [p \in Polls |-> poll'[p]]
      /\ disabled' => disabled
      /\ ~shared' => ~shared
      /\ disabled' /\ RegistrationMuFree' /\ registered' => registered /\ RegistrationMuFree
  <2>1. ASSUME NEW p \in Polls, Register(p) PROVE <1>2
    <3>1. disabled' = disabled /\ shared' = shared
      BY <2>1 DEF Register, stores
    <3>2. CASE poll[p] = "off"
      <4>1. poll' = [poll EXCEPT ![p] = "authed"] /\ registered' = registered
        BY <2>1, <3>2 DEF Register
      <4>2. RegistrationMuFree' => RegistrationMuFree
        BY <3>2, <4>1 DEF RegistrationMuFree, AcInv, AcTyped
      <4> QED BY <3>1, <4>1, <4>2 DEF AcInv, AcTyped
    <3>3. CASE poll[p] = "authed"
      <4>1. poll' = [poll EXCEPT ![p] = "published"] /\ registered' = TRUE
        BY <2>1, <3>3 DEF Register
      <4>2. ~RegistrationMuFree'
        BY <4>1 DEF RegistrationMuFree, AcInv, AcTyped
      <4> QED BY <3>1, <4>1, <4>2 DEF AcInv, AcTyped
    <3>4. CASE poll[p] = "published"
      <4>1. poll' = [poll EXCEPT ![p] = "off"] /\ (registered' = (registered /\ ~disabled))
        BY <2>1, <3>4 DEF Register
      <4>2. ~(disabled' /\ registered') /\ registered' \in BOOLEAN
        BY <3>1, <4>1, Zenon
      <4> QED BY <3>1, <4>1, <4>2 DEF AcInv, AcTyped
    <3> QED BY <2>1, <3>2, <3>3, <3>4 DEF Register
  <2>2. CASE Leave
    BY <2>2 DEF Leave, stores, AcInv, AcTyped, RegistrationMuFree
  <2>3. CASE Enable
    BY <2>3 DEF Enable, registry, AcInv, AcTyped, RegistrationMuFree
  <2>4. CASE Share
    BY <2>4 DEF Share, registry, AcInv, AcTyped, RegistrationMuFree
  <2> QED BY <2>1, <2>2, <2>3, <2>4
<1>3. AcTyped'
  BY <1>1, <1>2 DEF AcInv, AcTyped
<1>4. \A x \in Dials : AcDial(x)'
  BY <1>1, AcFrame DEF AcInv, AcSame
<1>5. AcDisabling' /\ AcListed'
  BY <1>1, <1>2 DEF AcInv, AcDisabling, AcListed
<1>6. AcRevoking'
  BY <1>1, <1>2 DEF AcInv, AcRevoking
<1> QED BY <1>3, <1>4, <1>5, <1>6 DEF AcInv

\* A sweep asks a lease of its snapshot to close, or strikes out one that has
\* closed or that it spares.
AcSwept(who, spared) ==
  /\ closing' \in [Dials -> {"no", "asked", "marked", "unlisted", "closed"}]
  /\ held' = [s \in {"disabler", "revoker"} |-> held'[s]]
  /\ \A s \in {"disabler", "revoker"} \ {who} : held'[s] = held[s]
  /\ \A d \in Dials : \/ closing'[d] = closing[d]
                      \/ closing[d] = "no" /\ closing'[d] = "asked"
  /\ ~spared => \A d \in Dials : d \in held[who] /\ closing'[d] = "no" => d \in held'[who]

LEMMA SweptEffect ==
  ASSUME AcTyped, NEW who \in {"disabler", "revoker"}, NEW spared \in BOOLEAN, held[who] \subseteq Dials,
         SweepLease(who, spared)
  PROVE  AcSwept(who, spared)
PROOF
<1>1. PICK d \in held[who] :
        \/ /\ spared /\ held' = [held EXCEPT ![who] = @ \ {d}] /\ UNCHANGED closing
        \/ /\ ~spared /\ closing[d] = "no" /\ RequestClose(d) /\ UNCHANGED held
        \/ /\ closing[d] = "closed"
           /\ held' = [held EXCEPT ![who] = @ \ {d}] /\ UNCHANGED closing
  BY DEF SweepLease
<1>2. d \in Dials
  OBVIOUS
<1>3. CASE spared /\ held' = [held EXCEPT ![who] = @ \ {d}] /\ UNCHANGED closing
  BY <1>3 DEF AcSwept, AcTyped
<1>4. CASE closing[d] = "no" /\ RequestClose(d) /\ UNCHANGED held
  BY <1>2, <1>4, AsksClose DEF AcSwept, AcTyped
<1>5. CASE closing[d] = "closed" /\ held' = [held EXCEPT ![who] = @ \ {d}] /\ UNCHANGED closing
  BY <1>2, <1>5 DEF AcSwept, AcTyped
<1> QED BY <1>1, <1>3, <1>4, <1>5

LEMMA SweptDials ==
  ASSUME \A d \in Dials : AcDial(d), NEW who, NEW spared, AcSwept(who, spared),
         kind' = kind, pc' = pc, legs' = legs, open' = open, leases' = leases, done' = done,
         closers' = closers, running' = running,
         \A d \in Dials : closing'[d] # closing[d] => pc[d] \notin {"start", "authed", "session", "lease"}
  PROVE  \A d \in Dials : AcDial(d)'
PROOF
<1> SUFFICES ASSUME NEW d \in Dials PROVE AcDial(d)'
  OBVIOUS
<1>1. AcFirst(d)' = AcFirst(d) /\ AcPending(d)' = AcPending(d)
  BY DEF AcFirst, AcPending
<1>2. closing'[d] = closing[d] \/ (closing[d] = "no" /\ closing'[d] = "asked")
  BY DEF AcSwept
<1> QED BY <1>1, <1>2 DEF AcDial

\* disconnectNamespace.
LEMMA AcDisable_Inv ==
  ASSUME AcInv, Disable
  PROVE  AcInv'
PROOF
<1>1. /\ shared' = shared /\ poll' = poll
      /\ kind' = kind /\ pc' = pc /\ legs' = legs /\ open' = open
      /\ leases' = leases /\ done' = done /\ closers' = closers
      /\ running' = running /\ revoker' = revoker /\ late' = late
  BY DEF Disable, dials
<1>2. \A x \in Dials : x \in held["disabler"] => pc[x] \notin {"start", "authed", "session", "lease"}
  BY DEF AcInv, AcListed
<1>3. RegistrationMuFree' <=> RegistrationMuFree
  BY <1>1 DEF RegistrationMuFree
<1>4. CASE disabler = "closing" /\ SweepLease("disabler", FALSE) /\ UNCHANGED <<disabled, changes, disabler, registered>>
  <2>1. AcSwept("disabler", FALSE)
    <3>1. held["disabler"] \subseteq Dials
      BY DEF AcInv, AcListed
    <3> QED BY <1>4, <3>1, SweptEffect DEF AcInv
  <2>2. \A d \in Dials : closing'[d] # closing[d] => d \in held["disabler"]
    BY <1>4 DEF SweepLease, RequestClose, AcInv, AcTyped
  <2>3. AcTyped'
    BY <1>1, <1>4, <2>1 DEF AcInv, AcTyped, AcSwept
  <2>4. \A d \in Dials : AcDial(d)'
    BY <1>1, <1>2, <2>1, <2>2, SweptDials DEF AcInv
  <2>5. held'["disabler"] \subseteq held["disabler"] /\ held'["revoker"] = held["revoker"]
    BY <1>4 DEF SweepLease, AcInv, AcTyped
  <2>6. AcListed'
    BY <1>1, <2>5 DEF AcInv, AcListed
  <2>7. AcDisabling'
    BY <1>1, <1>3, <1>4, <2>1 DEF AcInv, AcDisabling, AcSwept
  <2>8. AcRevoking'
    BY <1>1, <2>1 DEF AcInv, AcRevoking, AcSwept
  <2> QED BY <2>3, <2>4, <2>6, <2>7, <2>8 DEF AcInv
<1>5. CASE ~(disabler = "closing" /\ SweepLease("disabler", FALSE) /\ UNCHANGED <<disabled, changes, disabler, registered>>)
  <2>1. /\ closing' = closing
        /\ \/ /\ disabler \in {"idle", "done"} /\ disabled' = TRUE /\ disabler' = "flagged"
              /\ held' = held /\ registered' = registered
           \/ /\ disabler = "flagged" /\ disabler' = "closing" /\ held' = [held EXCEPT !["disabler"] = leases]
              /\ disabled' = disabled /\ registered' = registered
           \/ /\ disabler = "closing" /\ disabler' = "done" /\ held["disabler"] = {} /\ held' = held
              /\ disabled' = disabled /\ registered' = FALSE
    BY <1>5 DEF Disable
  <2>2. AcTyped'
    BY <1>1, <2>1, ZenonT(60) DEF AcInv, AcTyped
  <2>3. \A d \in Dials : AcDial(d)'
    BY <1>1, <2>1, AcFrame DEF AcInv, AcSame
  <2>4. AcListed'
    BY <1>1, <2>1 DEF AcInv, AcTyped, AcListed
  <2>5. AcDisabling'
    BY <1>1, <1>3, <2>1 DEF AcInv, AcTyped, AcDisabling, AcDial
  <2>6. AcRevoking'
    BY <1>1, <2>1 DEF AcInv, AcTyped, AcRevoking
  <2> QED BY <2>2, <2>3, <2>4, <2>5, <2>6 DEF AcInv
<1> QED BY <1>4, <1>5

\* closeRevokedShares.
LEMMA AcRevoke_Inv ==
  ASSUME AcInv, Revoke
  PROVE  AcInv'
PROOF
<1>1. /\ disabled' = disabled /\ registered' = registered /\ poll' = poll
      /\ kind' = kind /\ pc' = pc /\ legs' = legs /\ open' = open
      /\ leases' = leases /\ done' = done /\ closers' = closers
      /\ running' = running /\ disabler' = disabler
  BY DEF Revoke, dials, registry
<1>2. \A x \in Dials : x \in held["revoker"] => pc[x] \notin {"start", "authed", "session", "lease"}
  BY DEF AcInv, AcListed
<1>3. RegistrationMuFree' <=> RegistrationMuFree
  BY <1>1 DEF RegistrationMuFree
<1>4. CASE revoker = "closing" /\ SweepLease("revoker", shared) /\ UNCHANGED <<shared, changes, revoker, late>>
  <2>1. AcSwept("revoker", shared)
    <3>1. held["revoker"] \subseteq Dials /\ shared \in BOOLEAN
      BY DEF AcInv, AcListed, AcTyped
    <3> QED BY <1>4, <3>1, SweptEffect DEF AcInv
  <2>2. \A d \in Dials : closing'[d] # closing[d] => d \in held["revoker"]
    BY <1>4 DEF SweepLease, RequestClose, AcInv, AcTyped
  <2>3. AcTyped'
    BY <1>1, <1>4, <2>1 DEF AcInv, AcTyped, AcSwept
  <2>4. \A d \in Dials : AcDial(d)'
    BY <1>1, <1>2, <2>1, <2>2, SweptDials DEF AcInv
  <2>5. held'["revoker"] \subseteq held["revoker"] /\ held'["disabler"] = held["disabler"]
    BY <1>4 DEF SweepLease, AcInv, AcTyped
  <2>6. AcListed'
    BY <1>1, <2>5 DEF AcInv, AcListed
  <2>7. AcDisabling'
    BY <1>1, <1>3, <2>1 DEF AcInv, AcDisabling, AcSwept
  <2>8. AcRevoking'
    BY <1>1, <1>4, <2>1 DEF AcInv, AcRevoking, AcSwept
  <2> QED BY <2>3, <2>4, <2>6, <2>7, <2>8 DEF AcInv
<1>5. CASE ~(revoker = "closing" /\ SweepLease("revoker", shared) /\ UNCHANGED <<shared, changes, revoker, late>>)
  <2>1. /\ closing' = closing
        /\ \/ /\ revoker \in {"idle", "done"} /\ shared' = FALSE /\ revoker' = "gone" /\ held' = held
              /\ late' = late \union {d \in Dials : pc[d] \in {"session", "lease"}}
           \/ /\ revoker = "gone" /\ revoker' = "closing" /\ held' = [held EXCEPT !["revoker"] = leases]
              /\ shared' = shared /\ late' = late
           \/ /\ revoker = "closing" /\ revoker' = "done" /\ held["revoker"] = {} /\ held' = held
              /\ shared' = shared /\ late' = late
    BY <1>5 DEF Revoke
  <2>2. AcTyped'
    BY <1>1, <2>1, ZenonT(60) DEF AcInv, AcTyped
  <2>3. \A d \in Dials : AcDial(d)'
    BY <1>1, <2>1, AcFrame DEF AcInv, AcSame
  <2>4. AcListed'
    BY <1>1, <2>1 DEF AcInv, AcTyped, AcListed
  <2>5. AcDisabling'
    BY <1>1, <1>3, <2>1 DEF AcInv, AcTyped, AcDisabling
  <2>6. AcRevoking'
    BY <1>1, <2>1 DEF AcInv, AcTyped, AcRevoking, AcDial
  <2> QED BY <2>2, <2>3, <2>4, <2>5, <2>6 DEF AcInv
<1> QED BY <1>4, <1>5

LEMMA AcNext_Inv ==
  ASSUME AcInv, [Next]_vars
  PROVE  AcInv'
PROOF
<1>1. CASE UNCHANGED vars
  <2>1. AcTyped' /\ AcListed' /\ AcDisabling' /\ AcRevoking'
    BY <1>1 DEF vars, AcInv, AcTyped, AcListed, AcDisabling, AcRevoking, RegistrationMuFree
  <2>2. \A d \in Dials : AcDial(d)'
    BY <1>1, AcFrame DEF vars, AcInv, AcSame
  <2> QED BY <2>1, <2>2 DEF AcInv
<1>2. ASSUME NEW d \in Dials,
             \/ Authenticate(d) \/ Admit(d) \/ OpenSession(d) \/ BeginAccessLease(d) \/ RegisterLeg(d)
             \/ Select(d) \/ OpenLeg(d) \/ Settle(d) \/ CloseLease(d) \/ LeaseEnds(d)
      PROVE  AcInv'
  BY <1>2, AcMoves_Inv, AcOpens_Inv, AcLease_Inv, AcRegister_Inv, AcClose_Inv
<1>3. CASE (\E p \in Polls : Register(p)) \/ Leave \/ Enable \/ Share
  BY <1>3, AcStores_Inv
<1>4. CASE Disable \/ Revoke
  BY <1>4, AcDisable_Inv, AcRevoke_Inv
<1> QED BY <1>1, <1>2, <1>3, <1>4 DEF Next

\* Disabling an account and taking back a share end what they are meant to end:
\* for any number of dials of every kind and of registrations, whatever is under
\* way while the sweep looks through the leases (disable.go, disconnectNamespace;
\* delegation_auth.go, beginAccessLease, addCloser and close).
THEOREM SweepsEndAccess == Spec => []AccessEnds
PROOF
<1>1. Init => AcInv
  BY AcInit_Inv
<1>2. AcInv /\ [Next]_vars => AcInv'
  BY AcNext_Inv
<1>3. AcInv => AccessEnds
  BY AcInv_Ends
<1> QED BY <1>1, <1>2, <1>3, PTL DEF Spec

----------------------------------------------------------------------------
(* Remembered rules *)

\* What a request is.
LEMMA RequestKinds ==
    ASSUME NEW q \in RequestSet
    PROVE  /\ q.kind \in PolicyKinds
           /\ q.kind \in Exec => q.cmd \in CommandSet
           /\ q.kind \in {"read", "write"} => q.path \in Paths
BY DEF RequestSet, PolicyKinds, Exec

\* A path begins with the directory it is in, and with nothing.
LEMMA PathPrefixes ==
    ASSUME NEW p \in Paths
    PROVE  IsPrefix(Front(p), p) /\ IsPrefix(<<>>, p)
<1>1. PICK m \in 0..2 : p \in [1..m -> Names]
  BY DEF Paths, SeqOf
<1>2. p \in Seq(Names)
  BY <1>1, SeqDef
<1>3. Len(p) \in Nat \ {0}
  BY <1>2, EmptySeq DEF Paths
<1>4. PICK n \in Nat : Len(p) = n + 1
  BY <1>3
<1>5. \A i \in 1..n : p[i] \in Names
  BY <1>2, <1>4, ElementOfSeq
<1>6. SubSeq(p, 1, n) \in Seq(Names) /\ Len(SubSeq(p, 1, n)) = n
  BY <1>5, SubSeqProperties
<1>7. Front(p) = SubSeq(p, 1, n)
  BY <1>4 DEF Front
<1>8. PICK f \in Seq(Names) : f = SubSeq(p, 1, n) /\ Len(f) = n
  BY <1>6
<1>9. SubSeq(f, 1, Len(f)) = f
  BY <1>8, SubSeqFull
<1>10. IsPrefix(f, p)
  BY <1>4, <1>8, <1>9 DEF IsPrefix
<1>11. IsPrefix(<<>>, p)
  <2>1. SubSeq(<<>>, 1, 0) = <<>> /\ SubSeq(p, 1, 0) = <<>> /\ Len(<<>>) = 0
    BY SubSeqEmpty, EmptySeq
  <2> QED BY <1>3, <2>1 DEF IsPrefix
<1> QED BY <1>7, <1>8, <1>10, <1>11

\* The parts of the rule that RuleFor makes.
LEMMA RuleParts ==
    ASSUME NEW q \in RequestSet, NEW scope \in {"dir", "global"}, NEW r, r = RuleFor(q, scope)
    PROVE  /\ r.kind = q.kind
           /\ q.kind \in Exec => /\ r.pattern.star = FALSE /\ r.pattern.script = q.cmd.script
                                 /\ r.pattern.exact = {q.cmd}
                                 /\ r.scope = "global" \/ (r.scope = "dir" /\ r.dir = q.cwd /\ q.cwd # <<>>)
           /\ q.kind \in {"read", "write"} => /\ r.scope = scope
                                              /\ r.pattern = (IF scope = "dir" THEN Front(q.path) ELSE <<>>)
           /\ q.kind = "logs" => r.scope = "global"
<1>1. q.kind \in PolicyKinds
  BY RequestKinds
<1>2. CASE q.kind \in Exec
  <2>1. PICK pat : pat = CommandPattern(q.cmd)
    OBVIOUS
  <2>2. pat.star = FALSE /\ pat.script = q.cmd.script /\ pat.exact = {q.cmd}
    BY <2>1 DEF CommandPattern
  <2>3. r = [kind |-> q.kind, pattern |-> pat,
             dir |-> IF scope = "dir" /\ q.cwd # <<>> THEN q.cwd ELSE <<>>,
             scope |-> IF scope = "dir" /\ q.cwd # <<>> THEN "dir" ELSE "global"]
    BY <1>2, <2>1 DEF RuleFor, Exec
  <2>4. q.kind \notin {"read", "write", "logs"}
    BY <1>2 DEF Exec
  <2> QED BY <2>2, <2>3, <2>4
<1>3. CASE q.kind \in {"read", "write"}
  BY <1>3 DEF RuleFor, Exec
<1>4. CASE q.kind = "logs"
  BY <1>4 DEF RuleFor, Exec
<1> QED BY <1>1, <1>2, <1>3, <1>4 DEF PolicyKinds, Exec

\* A rule lets its own request through.
LEMMA RuleCovers ==
    ASSUME NEW q \in RequestSet, NEW scope \in {"dir", "global"}
    PROVE  RuleMatches(RuleFor(q, scope), q)
<1>1. PICK r : r = RuleFor(q, scope)
  OBVIOUS
<1>2. q.kind \in PolicyKinds
  BY RequestKinds
<1>3. RuleMatches(r, q)
  <2>1. CASE q.kind \in Exec
    <3>1. q.cmd \in {q.cmd} /\ r.kind = q.kind /\ r.pattern.script = q.cmd.script /\ r.pattern.exact = {q.cmd}
          /\ (r.scope = "global" \/ (r.dir = q.cwd /\ q.cwd # <<>>))
      BY <1>1, <2>1, RuleParts
    <3>2. MatchCommand(r.pattern, q.cmd)
      BY <3>1 DEF MatchCommand
    <3> QED BY <2>1, <3>1, <3>2 DEF RuleMatches, Exec
  <2>2. CASE q.kind \in {"read", "write"}
    <3>1. /\ r.kind = q.kind
          /\ q.kind \in {"read", "write"} => /\ r.scope = scope
                                             /\ r.pattern = (IF scope = "dir" THEN Front(q.path) ELSE <<>>)
      BY <1>1, RuleParts, ZenonT(60)
    <3>2. Within(r.pattern, q.path)
      <4>1. q.path \in Paths
        BY <2>2, RequestKinds
      <4>2. r.pattern = (IF scope = "dir" THEN Front(q.path) ELSE <<>>)
        BY <2>2, <3>1
      <4> QED BY <4>1, <4>2, PathPrefixes DEF Within
    <3> QED BY <2>2, <3>1, <3>2 DEF RuleMatches, Exec
  <2>3. CASE q.kind = "logs"
    BY <1>1, <2>3, RuleParts, ZenonT(30) DEF RuleMatches, Exec
  <2> QED BY <1>2, <2>1, <2>2, <2>3 DEF PolicyKinds, Exec
<1> QED BY <1>1, <1>3, Zenon

\* What a rule lets through is no wider than the request it was made for.
LEMMA RuleNotWider ==
    ASSUME NEW q \in RequestSet, NEW t \in RequestSet, NEW scope \in {"dir", "global"},
           NEW r, r = RuleFor(q, scope), RuleMatches(r, t)
    PROVE  /\ t.kind = q.kind \/ (t.kind = "read" /\ q.kind = "write")
           /\ t.kind \in Exec =>
                /\ t.cmd = q.cmd \/ t.cmd.script # NoScript \/ (t.cmd.simple /\ ~(PowerShell /\ t.cmd.ps))
                /\ t.cmd.script = q.cmd.script
                /\ r.scope = "dir" => t.cwd = q.cwd
           /\ t.kind \in {"read", "write"} /\ r.scope = "dir" => IsPrefix(Front(q.path), t.path)
<1>1. t.kind \in PolicyKinds /\ q.kind \in PolicyKinds /\ r.kind = q.kind
  BY RequestKinds, RuleParts
<1>2. CASE t.kind \in Exec
  <2>1. /\ r.kind = t.kind /\ MatchCommand(r.pattern, t.cmd)
        /\ r.scope = "global" \/ (r.dir = t.cwd /\ t.cwd # <<>>)
    BY <1>2 DEF RuleMatches, Exec
  <2>2. q.kind \in Exec /\ t.kind = q.kind
    BY <1>1, <1>2, <2>1
  <2>3. /\ r.pattern.star = FALSE /\ r.pattern.script = q.cmd.script /\ r.pattern.exact = {q.cmd}
        /\ r.scope = "global" \/ (r.scope = "dir" /\ r.dir = q.cwd)
    BY <2>2, RuleParts, ZenonT(60)
  <2>4. t.cmd \in CommandSet /\ q.cmd \in CommandSet
    BY <1>2, <2>2, RequestKinds
  <2>5. r.scope = "dir" => t.cwd = q.cwd
    BY <2>1, <2>3
  <2>6. CASE q.cmd.script # NoScript
    <3>1. t.cmd.script = q.cmd.script
      BY <2>1, <2>3, <2>6 DEF MatchCommand
    <3> QED BY <1>2, <2>2, <2>5, <2>6, <3>1 DEF Exec
  <2>7. CASE q.cmd.script = NoScript
    <3>1. \/ t.cmd.script = NoScript /\ {q.cmd} = {t.cmd}
          \/ SimpleEnough(t.cmd)
      BY <2>1, <2>3, <2>7 DEF MatchCommand
    <3>2. SimpleEnough(t.cmd) => t.cmd.script = NoScript
      BY <2>4 DEF SimpleEnough, CommandSet
    <3>3. {q.cmd} = {t.cmd} => t.cmd = q.cmd
      OBVIOUS
    <3>4. SimpleEnough(t.cmd) => t.cmd.simple /\ ~(PowerShell /\ t.cmd.ps)
      BY DEF SimpleEnough
    <3> QED BY <1>2, <2>2, <2>5, <2>7, <3>1, <3>2, <3>3, <3>4 DEF Exec
  <2> QED BY <2>6, <2>7
<1>3. CASE t.kind \in {"read", "write"}
  <2>1. Within(r.pattern, t.path) /\ (r.kind = t.kind \/ (t.kind = "read" /\ r.kind = "write"))
    BY <1>3 DEF RuleMatches, Exec
  <2>2. q.kind \in {"read", "write"}
    BY <1>1, <1>3, <2>1
  <2>3. r.scope = scope /\ r.pattern = (IF scope = "dir" THEN Front(q.path) ELSE <<>>)
    BY <2>2, RuleParts, ZenonT(60)
  <2>4. r.scope = "dir" => IsPrefix(Front(q.path), t.path)
    BY <2>1, <2>3 DEF Within
  <2> QED BY <1>1, <1>3, <2>1, <2>4 DEF Exec
<1>4. CASE t.kind = "logs"
  BY <1>1, <1>4 DEF RuleMatches, Exec
<1> QED BY <1>1, <1>2, <1>3, <1>4 DEF PolicyKinds, Exec

\* The rule is the one made for the answered request, and what is tried is a
\* request.
PolicyInv ==
    /\ answered \in RequestSet /\ tried \in RequestSet
    /\ rule = {} \/ \E scope \in {"dir", "global"} : rule = {RuleFor(answered, scope)}

\* Engine.Allowed under a rule of RuleFor: what the owner said to remember needs
\* no second question, and nothing wider goes through, whatever the words, paths
\* and scripts.
THEOREM RememberedExactly == PolicySpec => []PolicyExact
<1>1. PolicyInit => PolicyInv
  BY DEF PolicyInit, PolicyInv
<1>2. PolicyInv /\ [PolicyNext]_policyVars => PolicyInv'
  BY DEF PolicyInv, PolicyNext, Remember, Try, policyVars
<1>3. PolicyInv => PolicyExact
  <2> SUFFICES ASSUME PolicyInv PROVE PolicyExact
    OBVIOUS
  <2>1. CASE rule = {}
    BY <2>1 DEF PolicyExact, RememberedIsAllowed, RememberedIsNotWider
  <2>2. ASSUME NEW scope \in {"dir", "global"}, rule = {RuleFor(answered, scope)} PROVE PolicyExact
    <3>1. RememberedIsAllowed
      BY <2>2, RuleCovers DEF PolicyInv, RememberedIsAllowed, Allowed
    <3>2. RememberedIsNotWider
      <4> SUFFICES ASSUME NEW r \in rule, RuleMatches(r, tried)
                   PROVE  /\ tried.kind = answered.kind \/ (tried.kind = "read" /\ answered.kind = "write")
                          /\ tried.kind \in Exec =>
                               /\ tried.cmd = answered.cmd \/ tried.cmd.script # NoScript \/ (tried.cmd.simple /\ ~(PowerShell /\ tried.cmd.ps))
                               /\ tried.cmd.script = answered.cmd.script
                               /\ r.scope = "dir" => tried.cwd = answered.cwd
                          /\ tried.kind \in {"read", "write"} /\ r.scope = "dir" => IsPrefix(Front(answered.path), tried.path)
        BY DEF RememberedIsNotWider
      <4>1. r = RuleFor(answered, scope)
        BY <2>2
      <4> QED BY <4>1, RuleNotWider DEF PolicyInv
    <3> QED BY <3>1, <3>2 DEF PolicyExact
  <2> QED BY <2>1, <2>2 DEF PolicyInv
<1> QED
  BY <1>1, <1>2, <1>3, PTL DEF PolicySpec

-----------------------------------------------------------------------------
(* Late approvals *)

\* The elements of a list one longer, and of one without its head.
LEMMA AppendRange ==
    ASSUME NEW S, NEW s \in Seq(S), NEW x \in S
    PROVE  Append(s, x) \in Seq(S) /\ \A y : y \in Range(Append(s, x)) <=> y \in Range(s) \/ y = x
<1>1. PICK t \in Seq(S) : /\ t = Append(s, x) /\ Len(t) = Len(s) + 1
                          /\ (\A i \in 1..Len(s) : t[i] = s[i]) /\ t[Len(s) + 1] = x
  BY AppendProperties
<1>2. DOMAIN t = 1..(Len(s) + 1) /\ DOMAIN s = 1..Len(s) /\ Len(s) \in Nat
  BY <1>1, LenProperties
<1>3. ASSUME NEW y \in Range(t) PROVE y \in Range(s) \/ y = x
  <2>1. PICK i \in 1..(Len(s) + 1) : t[i] = y
    BY <1>2 DEF Range
  <2>2. CASE i = Len(s) + 1
    BY <1>1, <2>1, <2>2
  <2>3. CASE i # Len(s) + 1
    <3>1. i \in 1..Len(s)
      BY <1>2, <2>3
    <3> QED BY <1>1, <1>2, <2>1, <3>1 DEF Range
  <2> QED BY <2>2, <2>3
<1>4. ASSUME NEW y \in Range(s) PROVE y \in Range(t)
  <2>1. PICK i \in 1..Len(s) : s[i] = y
    BY <1>2 DEF Range
  <2>2. i \in 1..(Len(s) + 1) /\ t[i] = y
    BY <1>1, <1>2, <2>1
  <2> QED BY <1>2, <2>2 DEF Range
<1>5. x \in Range(t)
  <2>1. Len(s) + 1 \in 1..(Len(s) + 1)
    BY <1>2
  <2> QED BY <1>1, <1>2, <2>1 DEF Range
<1> QED BY <1>1, <1>3, <1>4, <1>5

LEMMA TailRange ==
    ASSUME NEW S, NEW s \in Seq(S), s # <<>>
    PROVE  Tail(s) \in Seq(S) /\ \A y \in Range(Tail(s)) : y \in Range(s)
<1>1. PICK t \in Seq(S) : /\ t = Tail(s) /\ Len(t) = Len(s) - 1
                          /\ \A i \in 1..Len(t) : t[i] = s[i + 1]
  BY HeadTailProperties
<1>2. DOMAIN t = 1..Len(t) /\ DOMAIN s = 1..Len(s) /\ Len(s) \in Nat /\ Len(t) \in Nat
  BY <1>1, LenProperties
<1>3. ASSUME NEW y \in Range(t) PROVE y \in Range(s)
  <2>1. PICK i \in 1..Len(t) : t[i] = y
    BY <1>2, <1>3 DEF Range
  <2>2. i + 1 \in 1..Len(s) /\ s[i + 1] = y
    BY <1>1, <1>2, <2>1
  <2> QED BY <1>2, <2>2 DEF Range
<1> QED BY <1>1, <1>3

\* A set of numbers that is not empty has a least one.
LEMMA Least ==
    ASSUME NEW S \in SUBSET Nat, S # {}
    PROVE  \E x \in S : \A y \in S : x <= y
<1>1. \E x \in S : \A y \in S : ~ (<<y, x>> \in OpToRel(<, Nat))
  BY WFMin, NatLessThanWellFounded, Zenon
<1>2. PICK x \in S : \A y \in S : ~ (<<y, x>> \in OpToRel(<, Nat))
  BY <1>1
<1>3. \A y \in S : <<y, x>> \in Nat \X Nat
  OBVIOUS
<1>4. \A y \in S : ~ (y < x)
  BY <1>2, <1>3 DEF OpToRel
<1> QED BY <1>4

\* f goes through s and leaves out what is in X, as far as n.
Skips(f, s, X, n) ==
    /\ DOMAIN f = 0..n /\ f = [k \in 0..n |-> f[k]] /\ f[0] = <<>>
    /\ \A k \in 1..n : f[k] = IF s[k] \in X THEN f[k - 1] ELSE Append(f[k - 1], s[k])

\* What f has after k elements.
Left(f, s, X, n, S) ==
    \A k \in 0..n : f[k] \in Seq(S) /\ \A y : y \in Range(f[k]) <=> y \notin X /\ \E i \in 1..k : s[i] = y

LEMMA SkipsExists ==
    ASSUME NEW S, NEW s \in Seq(S), NEW X
    PROVE  \E f : Skips(f, s, X, Len(s)) /\ Left(f, s, X, Len(s), S)
<1> DEFINE B == {n \in 0..Len(s) : ~ \E f : Skips(f, s, X, n) /\ Left(f, s, X, n, S)}
<1>1. Len(s) \in Nat /\ \A i \in 1..Len(s) : s[i] \in S
  BY LenProperties, ElementOfSeq
<1>2. SUFFICES ASSUME B # {} PROVE FALSE
  <2>1. Len(s) \in 0..Len(s)
    BY <1>1
  <2> QED BY <2>1
<1>3. PICK n \in B : \A m \in B : n <= m
  <2>1. B \in SUBSET Nat
    BY <1>1
  <2> HIDE DEF B
  <2> QED BY <1>2, <2>1, Least, Zenon
<1>4. n \in 0..Len(s) /\ n \in Nat
  BY <1>1
<1>5. CASE n = 0
  <2>1. PICK f : f = [k \in 0..0 |-> <<>>]
    OBVIOUS
  <2>2. Skips(f, s, X, 0)
    BY <2>1 DEF Skips
  <2>3. <<>> \in Seq(S) /\ Range(<<>>) = {}
    BY EmptySeq DEF Range
  <2>4. Left(f, s, X, 0, S)
    BY <2>1, <2>3 DEF Left
  <2> QED BY <1>3, <1>5, <2>2, <2>4
<1>6. CASE n # 0
  <2>1. n - 1 \in 0..Len(s) /\ n - 1 \in Nat /\ ~(n <= n - 1) /\ n \in 1..Len(s)
    BY <1>1, <1>4, <1>6
  <2>2. PICK e : Skips(e, s, X, n - 1) /\ Left(e, s, X, n - 1, S)
    BY <1>3, <2>1
  <2>3. PICK new : new = IF s[n] \in X THEN e[n - 1] ELSE Append(e[n - 1], s[n])
    OBVIOUS
  <2>4. PICK f : f = [k \in 0..n |-> IF k = n THEN new ELSE e[k]]
    OBVIOUS
  <2>5. f[n] = new /\ \A k \in 0..(n - 1) : f[k] = e[k]
    BY <2>1, <2>4
  <2>6. Skips(f, s, X, n)
    <3>1. DOMAIN f = 0..n /\ f = [k \in 0..n |-> f[k]] /\ f[0] = <<>>
      BY <2>1, <2>2, <2>4, <2>5 DEF Skips
    <3>2. ASSUME NEW k \in 1..n PROVE f[k] = IF s[k] \in X THEN f[k - 1] ELSE Append(f[k - 1], s[k])
      <4>1. CASE k = n
        BY <2>1, <2>3, <2>5, <4>1
      <4>2. CASE k # n
        <5>1. k \in 1..(n - 1) /\ k - 1 \in 0..(n - 1) /\ k \in 0..(n - 1)
          BY <2>1, <4>2
        <5> QED BY <2>2, <2>5, <5>1 DEF Skips
      <4> QED BY <4>1, <4>2
    <3> QED BY <3>1, <3>2 DEF Skips
  <2>7. Left(f, s, X, n, S)
    <3>1. e[n - 1] \in Seq(S) /\ \A y : y \in Range(e[n - 1]) <=> y \notin X /\ \E i \in 1..(n - 1) : s[i] = y
      <4>1. PICK m \in Nat : m = n - 1
        BY <2>1
      <4>2. m \in 0..m /\ Left(e, s, X, m, S)
        BY <2>2, <4>1
      <4>3. e[m] \in Seq(S) /\ \A y : y \in Range(e[m]) <=> y \notin X /\ \E i \in 1..m : s[i] = y
        BY <4>2 DEF Left
      <4> QED BY <4>1, <4>3
    <3>2. s[n] \in S
      BY <1>1, <2>1
    <3>3. new \in Seq(S) /\ \A y : y \in Range(new) <=> (y \in Range(e[n - 1]) \/ (y = s[n] /\ y \notin X))
      <4>1. CASE s[n] \in X
        BY <2>3, <3>1, <4>1
      <4>2. CASE s[n] \notin X
        BY <2>3, <3>1, <3>2, <4>2, AppendRange
      <4> QED BY <4>1, <4>2
    <3>4. \A y : (\E i \in 1..n : s[i] = y) <=> ((\E i \in 1..(n - 1) : s[i] = y) \/ y = s[n])
      <4>1. \A i \in 1..n : i \in 1..(n - 1) \/ i = n
        BY <2>1
      <4>2. n \in 1..n /\ \A i \in 1..(n - 1) : i \in 1..n
        BY <2>1
      <4> QED BY <4>1, <4>2
    <3>5. \A y : y \in Range(new) <=> y \notin X /\ \E i \in 1..n : s[i] = y
      BY <3>1, <3>3, <3>4
    <3>6. ASSUME NEW k \in 0..n
          PROVE  f[k] \in Seq(S) /\ \A y : y \in Range(f[k]) <=> y \notin X /\ \E i \in 1..k : s[i] = y
      <4>1. CASE k = n
        BY <2>5, <3>3, <3>5, <4>1
      <4>2. CASE k # n
        <5>1. k \in 0..(n - 1)
          BY <2>1, <4>2
        <5> QED BY <2>2, <2>5, <5>1 DEF Left
      <4> QED BY <4>1, <4>2
    <3> QED BY <3>6 DEF Left
  <2> QED BY <1>3, <2>6, <2>7
<1> QED BY <1>5, <1>6

\* What DeleteFunc leaves.
LEMMA WithoutRange ==
    ASSUME NEW S, NEW s \in Seq(S), NEW X
    PROVE  Without(s, X) \in Seq(S) /\ \A y : y \in Range(Without(s, X)) <=> y \in Range(s) /\ y \notin X
<1> DEFINE E(f) == f = [k \in 0..Len(s) |-> IF k = 0 THEN <<>>
                                            ELSE IF s[k] \in X THEN f[k - 1] ELSE Append(f[k - 1], s[k])]
           F == CHOOSE f : E(f)
<1>1. PICK e : Skips(e, s, X, Len(s)) /\ Left(e, s, X, Len(s), S)
  BY SkipsExists
<1>2. Len(s) \in Nat /\ DOMAIN s = 1..Len(s)
  BY LenProperties
<1>3. E(e)
  <2>1. /\ e = [k \in 0..Len(s) |-> e[k]] /\ e[0] = <<>>
        /\ \A k \in 1..Len(s) : e[k] = IF s[k] \in X THEN e[k - 1] ELSE Append(e[k - 1], s[k])
    BY <1>1 DEF Skips
  <2>2. \A k \in 0..Len(s) : e[k] = IF k = 0 THEN <<>> ELSE IF s[k] \in X THEN e[k - 1] ELSE Append(e[k - 1], s[k])
    <3>1. \A k \in 0..Len(s) : k = 0 \/ k \in 1..Len(s)
      BY <1>2
    <3> QED BY <2>1, <3>1
  <2> QED BY <2>1, <2>2
<1>4. E(F)
  BY <1>3, Zenon
<1>5. Without(s, X) = F[Len(s)]
  BY DEF Without
<1> HIDE DEF F
<1>6. \A k \in 0..Len(s) : F[k] = e[k]
  <2> DEFINE B == {k \in 0..Len(s) : F[k] # e[k]}
  <2>1. SUFFICES ASSUME B # {} PROVE FALSE
    OBVIOUS
  <2>2. PICK k \in B : \A m \in B : k <= m
    <3>1. B \in SUBSET Nat
      BY <1>2
    <3> HIDE DEF B
    <3> QED BY <2>1, <3>1, Least, Zenon
  <2>3. k \in 0..Len(s) /\ k \in Nat /\ F[k] # e[k]
    BY <1>2
  <2>4. k # 0
    BY <1>3, <1>4, <2>3
  <2>5. k - 1 \in 0..Len(s) /\ ~(k <= k - 1) /\ k \in 1..Len(s)
    BY <1>2, <2>3, <2>4
  <2>6. F[k - 1] = e[k - 1]
    BY <2>2, <2>5
  <2> QED BY <1>3, <1>4, <2>3, <2>4, <2>5, <2>6
<1>7. Len(s) \in 0..Len(s)
  BY <1>2
<1>8. e[Len(s)] \in Seq(S) /\ \A y : y \in Range(e[Len(s)]) <=> y \notin X /\ \E i \in 1..Len(s) : s[i] = y
  BY <1>1, <1>7 DEF Left
<1>9. \A y : y \in Range(s) <=> \E i \in 1..Len(s) : s[i] = y
  BY <1>2 DEF Range
<1> QED BY <1>5, <1>6, <1>7, <1>8, <1>9


-----------------------------------------------------------------------------
(* What a late approval may let through *)

Keys == Commands \cup {LabelOf[c] : c \in Commands}
GrantRecords == [key : Keys, dir : Dirs, id : Nat]
UsedRecords == [cmd : Commands, dir : Dirs \cup {NoDir}, id : Nat]
AskRecords == [cmd : Commands, dir : Dirs \cup {NoDir}, up : BOOLEAN,
               answer : Answers \cup {"none"}, lapsed : BOOLEAN]
ReqRecords == [pc : {"none", "find", "found", "take", "asking", "wait"},
               cmd : Commands \cup {NoReq.cmd}, dir : Dirs \cup {NoDir}, n : Nat, grant : Nat]

GtTyped ==
    /\ grants \in Seq(GrantRecords) /\ asked \in Seq(Commands)
    /\ ask \in Seq(AskRecords) /\ used \in Seq(UsedRecords)
    /\ req \in [Requests -> ReqRecords] /\ active \in BOOLEAN
    /\ forgot \in BOOLEAN /\ lateAsks \subseteq DOMAIN ask

\* A key fits a question: its card would have shown the same label, and while no
\* script was forgotten the question was about that very command, or about one
\* that is spelled like its label.
Fits(key, n) ==
    key \in Commands =>
        /\ LabelOf[key] = LabelOf[ask[n].cmd]
        /\ ~forgot => ask[n].cmd \in {key, LabelOf[key]}

\* Every grant waits for the question it was given for, and no two for one.
GtGrants ==
    /\ \A g \in Range(grants) :
          g.id \in lateAsks /\ g.dir = ask[g.id].dir /\ g.dir \in Dirs /\ Fits(g.key, g.id)
    /\ \A g, h \in Range(grants) : g.id = h.id => g = h

\* What was let through used up the grant of one question.
GtUsed ==
    /\ \A i \in DOMAIN used :
          used[i].id \in lateAsks /\ used[i].dir = ask[used[i].id].dir /\ Fits(used[i].cmd, used[i].id)
    /\ \A i, j \in DOMAIN used : used[i].id = used[j].id => i = j
    /\ \A i \in DOMAIN used : \A g \in Range(grants) : used[i].id # g.id

\* A request on its way to a grant: if the grant is there still, it is for it.
GtReq(r) ==
    /\ req[r].pc # "none" => req[r].cmd \in Commands
    /\ req[r].pc = "wait" => req[r].n \in DOMAIN ask
    /\ req[r].pc \in {"found", "take"} =>
          /\ req[r].grant \in lateAsks
          /\ \A g \in Range(grants) : g.id = req[r].grant => g.key = req[r].cmd /\ g.dir = req[r].dir

\* The scripts that are remembered, and those that were asked about.
GtAsked ==
    /\ \A c \in Range(asked) : LabelOf[c] # c
    /\ ~forgot => \A n \in DOMAIN ask : LabelOf[ask[n].cmd] # ask[n].cmd => ask[n].cmd \in Range(asked)

\* An answer given after the end of the delegation is known to be.
GtLapsed == revived = FALSE /\ \A n \in DOMAIN ask : ask[n].lapsed => ~active

GtInv == GtTyped /\ GtGrants /\ GtUsed /\ (\A r \in Requests : GtReq(r)) /\ GtAsked /\ GtLapsed

\* The questions stay what they were, no grant comes, and nothing is remembered
\* that was not.
GtGentle ==
    /\ DOMAIN ask \subseteq DOMAIN ask'
    /\ \A n \in DOMAIN ask : ask'[n].cmd = ask[n].cmd /\ ask'[n].dir = ask[n].dir
    /\ \A g \in Range(grants') : g \in Range(grants)
    /\ lateAsks' = lateAsks /\ (forgot => forgot')

LEMMA GtGentle_Grants ==
    ASSUME GtTyped, GtGrants, GtTyped', GtGentle
    PROVE  GtGrants'
<1>1. ASSUME NEW g \in Range(grants')
      PROVE  g.id \in lateAsks' /\ g.dir = ask'[g.id].dir /\ g.dir \in Dirs /\ Fits(g.key, g.id)'
  <2>1. g \in Range(grants)
    BY <1>1 DEF GtGentle
  <2>2. g.id \in lateAsks /\ g.dir = ask[g.id].dir /\ g.dir \in Dirs /\ Fits(g.key, g.id)
    BY <2>1 DEF GtGrants
  <2>3. g.id \in DOMAIN ask
    BY <2>2 DEF GtTyped
  <2>4. ask'[g.id].cmd = ask[g.id].cmd /\ ask'[g.id].dir = ask[g.id].dir
    BY <2>3 DEF GtGentle
  <2>5. Fits(g.key, g.id)'
    BY <2>2, <2>4 DEF Fits, GtGentle
  <2> QED BY <2>2, <2>4, <2>5 DEF GtGentle
<1>2. \A g, h \in Range(grants') : g.id = h.id => g = h
  BY DEF GtGrants, GtGentle
<1> QED BY <1>1, <1>2 DEF GtGrants

LEMMA GtGentle_Used ==
    ASSUME GtTyped, GtUsed, GtTyped', GtGentle, used' = used
    PROVE  GtUsed'
<1>1. ASSUME NEW i \in DOMAIN used'
      PROVE  used'[i].id \in lateAsks' /\ used'[i].dir = ask'[used'[i].id].dir /\ Fits(used[i].cmd, used[i].id)'
  <2>1. i \in DOMAIN used
    BY <1>1
  <2>2. used[i].id \in lateAsks /\ used[i].dir = ask[used[i].id].dir /\ Fits(used[i].cmd, used[i].id)
    BY <2>1 DEF GtUsed
  <2>3. used[i].id \in DOMAIN ask
    BY <2>2 DEF GtTyped
  <2>4. ask'[used[i].id].cmd = ask[used[i].id].cmd /\ ask'[used[i].id].dir = ask[used[i].id].dir
    BY <2>3 DEF GtGentle
  <2>5. Fits(used[i].cmd, used[i].id)'
    BY <2>2, <2>4 DEF Fits, GtGentle
  <2> QED BY <2>2, <2>4, <2>5 DEF GtGentle
<1>2. /\ \A i, j \in DOMAIN used' : used'[i].id = used'[j].id => i = j
      /\ \A i \in DOMAIN used' : \A g \in Range(grants') : used'[i].id # g.id
  BY DEF GtUsed, GtGentle
<1> QED BY <1>1, <1>2 DEF GtUsed

\* A request that keeps its place, or goes to one without a grant.
LEMMA GtGentle_Req ==
    ASSUME GtTyped, GtGentle, NEW r \in Requests, GtReq(r),
           \/ req'[r] = req[r]
           \/ /\ req'[r].pc \notin {"found", "take"}
              /\ req'[r].pc # "none" => req'[r].cmd \in Commands
              /\ req'[r].pc = "wait" => req'[r].n \in DOMAIN ask'
           \/ req[r].pc = "found" /\ req'[r].pc = "take" /\ req'[r].cmd = req[r].cmd
              /\ req'[r].dir = req[r].dir /\ req'[r].grant = req[r].grant
    PROVE  GtReq(r)'
<1> USE DEF GtReq, GtGentle
<1>1. CASE req'[r] = req[r]
  BY <1>1
<1>2. CASE /\ req'[r].pc \notin {"found", "take"}
           /\ req'[r].pc # "none" => req'[r].cmd \in Commands
           /\ req'[r].pc = "wait" => req'[r].n \in DOMAIN ask'
  BY <1>2
<1>3. CASE req[r].pc = "found" /\ req'[r].pc = "take" /\ req'[r].cmd = req[r].cmd
           /\ req'[r].dir = req[r].dir /\ req'[r].grant = req[r].grant
  BY <1>3
<1> QED BY <1>1, <1>2, <1>3

\* The questions stay as they are, apart from their answers, and what is
\* remembered stays unless it is known to have been forgotten.
LEMMA GtGentle_Asked ==
    ASSUME GtTyped, GtAsked, GtGentle, DOMAIN ask' = DOMAIN ask,
           \A c \in Range(asked') : c \in Range(asked),
           forgot' \/ asked' = asked
    PROVE  GtAsked'
<1>1. \A c \in Range(asked') : LabelOf[c] # c
  BY DEF GtAsked
<1>2. ASSUME ~forgot', NEW n \in DOMAIN ask', LabelOf[ask'[n].cmd] # ask'[n].cmd
      PROVE  ask'[n].cmd \in Range(asked')
  <2>1. asked' = asked /\ ~forgot /\ ask'[n].cmd = ask[n].cmd
    BY <1>2 DEF GtGentle
  <2> QED BY <1>2, <2>1 DEF GtAsked
<1> QED BY <1>1, <1>2 DEF GtAsked


LEMMA BoundedRange ==
    ASSUME NEW S, NEW s \in Seq(S), s # <<>>, NEW max
    PROVE  Bounded(s, max) \in Seq(S) /\ \A y \in Range(Bounded(s, max)) : y \in Range(s)
BY TailRange DEF Bounded

LEMMA EmptyRange == \A y : y \notin Range(<<>>)
BY EmptySeq DEF Range

LEMMA GtInit == GateInit => GtInv
<1> SUFFICES ASSUME GateInit PROVE GtInv
  OBVIOUS
<1>1. \A S : <<>> \in Seq(S)
  BY EmptySeq
<1>2. DOMAIN <<>> = {}
  BY EmptySeq
<1>3. NoReq \in ReqRecords /\ NoReq.pc = "none"
  BY DEF NoReq, ReqRecords
<1>4. GtTyped
  BY <1>1, <1>2, <1>3 DEF GateInit, GtTyped
<1>5. GtGrants /\ GtUsed /\ GtAsked /\ GtLapsed
  BY <1>2, EmptyRange DEF GateInit, GtGrants, GtUsed, GtAsked, GtLapsed
<1>6. \A r \in Requests : GtReq(r)
  BY <1>3 DEF GateInit, GtReq
<1> QED BY <1>4, <1>5, <1>6 DEF GtInv

\* A request moves on and nothing else does.
LEMMA GtMoves_Inv ==
    ASSUME GtInv, NEW r \in Requests,
           (\E c \in Commands, d \in Dirs \cup {NoDir} : Begin(r, c, d)) \/ FindGrant(r) \/ MayUseGrant(r)
    PROVE  GtInv'
<1>1. /\ grants' = grants /\ asked' = asked /\ ask' = ask /\ active' = active
      /\ lateAsks' = lateAsks /\ used' = used /\ forgot' = forgot /\ revived' = revived
  BY DEF Begin, FindGrant, MayUseGrant, owner
<1>2. GtGentle
  BY <1>1 DEF GtGentle
<1>3. req \in [Requests -> ReqRecords] /\ req[r] \in ReqRecords
  BY DEF GtInv, GtTyped
<1>4. /\ req' \in [Requests -> ReqRecords] /\ \A x \in Requests \ {r} : req'[x] = req[x]
      /\ \/ req'[r].pc = "none"
         \/ req'[r].pc = "asking" /\ req'[r].cmd \in Commands
         \/ req'[r].pc = "find" /\ req'[r].cmd \in Commands
         \/ req[r].pc = "found" /\ req'[r].pc = "take" /\ req'[r].cmd = req[r].cmd
            /\ req'[r].dir = req[r].dir /\ req'[r].grant = req[r].grant
         \/ \E g \in Range(grants) :
              /\ req'[r].pc = "found" /\ req'[r].grant = g.id /\ g.key = req[r].cmd /\ g.dir = req[r].dir
              /\ req'[r].cmd = req[r].cmd /\ req'[r].dir = req[r].dir /\ req[r].cmd \in Commands
  <2>1. PICK q \in ReqRecords : q = req[r]
    BY <1>3
  <2>2. NoReq \in ReqRecords /\ NoReq.pc = "none"
    BY DEF NoReq, ReqRecords
  <2>3. ASSUME NEW t \in ReqRecords, req' = [req EXCEPT ![r] = t]
        PROVE  req' \in [Requests -> ReqRecords] /\ req'[r] = t /\ \A x \in Requests \ {r} : req'[x] = req[x]
    BY <1>3, <2>3
  <2>4. CASE \E c \in Commands, d \in Dirs \cup {NoDir} : Begin(r, c, d)
    <3>1. PICK c \in Commands, d \in Dirs \cup {NoDir} : Begin(r, c, d)
      BY <2>4
    <3>2. PICK t : t = [NoReq EXCEPT !.pc = "find", !.cmd = c, !.dir = d]
      OBVIOUS
    <3>3. t \in ReqRecords /\ t.pc = "find" /\ t.cmd = c
      BY <3>2 DEF NoReq, ReqRecords
    <3>4. req' = [req EXCEPT ![r] = t]
      BY <3>1, <3>2 DEF Begin
    <3> QED BY <2>3, <3>3, <3>4
  <2>5. CASE FindGrant(r)
    <3>1. q.pc = "find" /\ q.cmd \in Commands
      BY <2>1, <2>5 DEF FindGrant, GtInv, GtReq
    <3>2. CASE Go(r, "asking")
      <4>1. PICK t : t = [q EXCEPT !.pc = "asking"]
        OBVIOUS
      <4>2. t \in ReqRecords /\ t.pc = "asking" /\ t.cmd = q.cmd
        BY <4>1 DEF ReqRecords
      <4>3. req' = [req EXCEPT ![r] = t]
        BY <1>3, <2>1, <3>2, <4>1 DEF Go
      <4> QED BY <2>3, <3>1, <4>2, <4>3
    <3>3. CASE \E g \in Range(grants) : g.key = req[r].cmd /\ g.dir = req[r].dir
                  /\ req' = [req EXCEPT ![r].pc = "found", ![r].grant = g.id]
      <4>1. PICK g \in Range(grants) : g.key = req[r].cmd /\ g.dir = req[r].dir
                  /\ req' = [req EXCEPT ![r].pc = "found", ![r].grant = g.id]
        BY <3>3
      <4>2. g.id \in Nat
        BY LenProperties DEF GtInv, GtGrants, GtTyped
      <4>3. PICK t : t = [q EXCEPT !.pc = "found", !.grant = g.id]
        OBVIOUS
      <4>4. t \in ReqRecords /\ t.pc = "found" /\ t.cmd = q.cmd /\ t.dir = q.dir /\ t.grant = g.id
        BY <4>2, <4>3 DEF ReqRecords
      <4>5. req' = [req EXCEPT ![r] = t]
        BY <1>3, <2>1, <4>1, <4>3
      <4>6. /\ req' \in [Requests -> ReqRecords] /\ req'[r] = t /\ \A x \in Requests \ {r} : req'[x] = req[x]
        BY <2>3, <4>4, <4>5
      <4> QED BY <2>1, <3>1, <4>1, <4>4, <4>6
    <3> QED BY <2>5, <3>2, <3>3 DEF FindGrant
  <2>6. CASE MayUseGrant(r)
    <3>1. q.pc = "found"
      BY <2>1, <2>6 DEF MayUseGrant
    <3>2. CASE Answer(r)
      <4>1. req' = [req EXCEPT ![r] = NoReq]
        BY <3>2 DEF Answer
      <4> QED BY <2>2, <2>3, <4>1
    <3>3. CASE Go(r, "take")
      <4>1. PICK t : t = [q EXCEPT !.pc = "take"]
        OBVIOUS
      <4>2. t \in ReqRecords /\ t.pc = "take" /\ t.cmd = q.cmd /\ t.dir = q.dir /\ t.grant = q.grant
        BY <4>1 DEF ReqRecords
      <4>3. req' = [req EXCEPT ![r] = t]
        BY <1>3, <2>1, <3>3, <4>1 DEF Go
      <4>4. /\ req' \in [Requests -> ReqRecords] /\ req'[r] = t /\ \A x \in Requests \ {r} : req'[x] = req[x]
        BY <2>3, <4>2, <4>3
      <4> QED BY <2>1, <3>1, <4>2, <4>4
    <3> QED BY <2>6, <3>2, <3>3 DEF MayUseGrant
  <2> QED BY <2>4, <2>5, <2>6
<1>5. GtTyped'
  BY <1>1, <1>4 DEF GtInv, GtTyped
<1>6. ASSUME NEW x \in Requests PROVE GtReq(x)'
  <2>1. GtReq(x)
    BY DEF GtInv
  <2>2. CASE x # r
    BY <1>2, <1>4, <2>1, <2>2, GtGentle_Req DEF GtInv
  <2>3. CASE x = r /\ \E g \in Range(grants) :
              /\ req'[r].pc = "found" /\ req'[r].grant = g.id /\ g.key = req[r].cmd /\ g.dir = req[r].dir
              /\ req'[r].cmd = req[r].cmd /\ req'[r].dir = req[r].dir /\ req[r].cmd \in Commands
    BY <1>1, <2>3 DEF GtInv, GtGrants, GtReq
  <2>4. CASE x = r /\ \/ req'[r].pc = "none"
                      \/ req'[r].pc = "asking" /\ req'[r].cmd \in Commands
                      \/ req'[r].pc = "find" /\ req'[r].cmd \in Commands
    BY <2>4 DEF GtReq
  <2>5. CASE x = r /\ req[r].pc = "found" /\ req'[r].pc = "take" /\ req'[r].cmd = req[r].cmd
            /\ req'[r].dir = req[r].dir /\ req'[r].grant = req[r].grant
    BY <1>1, <2>1, <2>5 DEF GtReq
  <2> QED BY <1>4, <2>2, <2>3, <2>4, <2>5
<1>7. GtGrants' /\ GtUsed'
  BY <1>1, <1>2, <1>5, GtGentle_Grants, GtGentle_Used DEF GtInv
<1>8. GtAsked' /\ GtLapsed'
  BY <1>1 DEF GtInv, GtAsked, GtLapsed
<1> QED BY <1>5, <1>6, <1>7, <1>8 DEF GtInv

\* A grant is spent, or found to be gone.
LEMMA GtTake_Inv ==
    ASSUME GtInv, NEW r \in Requests, TakeGrant(r)
    PROVE  GtInv'
<1> DEFINE Gone == {g \in Range(grants) : g.id = req[r].grant}
<1>1. /\ asked' = asked /\ ask' = ask /\ active' = active /\ lateAsks' = lateAsks
      /\ forgot' = forgot /\ revived' = revived /\ req[r].pc = "take"
  BY DEF TakeGrant, owner
<1>2. req \in [Requests -> ReqRecords] /\ req[r] \in ReqRecords
  BY DEF GtInv, GtTyped
<1>3. PICK q \in ReqRecords : q = req[r]
  BY <1>2
<1>4. q.pc = "take" /\ q.cmd \in Commands /\ q.dir \in Dirs \cup {NoDir} /\ q.grant \in Nat
  BY <1>1, <1>3 DEF GtInv, GtReq, ReqRecords
<1>5. NoReq \in ReqRecords /\ NoReq.pc = "none"
  BY DEF NoReq, ReqRecords
<1>6. ASSUME NEW t \in ReqRecords, req' = [req EXCEPT ![r] = t]
      PROVE  req' \in [Requests -> ReqRecords] /\ req'[r] = t /\ \A x \in Requests \ {r} : req'[x] = req[x]
  BY <1>2, <1>6
<1>7. CASE \E g \in Range(grants) : g.id = req[r].grant
  <2>1. PICK g \in Range(grants) : g.id = req[r].grant
    BY <1>7
  <2>2. PICK u : u = [cmd |-> q.cmd, dir |-> q.dir, id |-> q.grant]
    OBVIOUS
  <2>3. u \in UsedRecords /\ u.cmd = q.cmd /\ u.dir = q.dir /\ u.id = q.grant
    BY <1>4, <2>2 DEF UsedRecords
  <2>4. grants' = Without(grants, Gone) /\ used' = Append(used, u) /\ req' = [req EXCEPT ![r] = NoReq]
    BY <1>3, <1>7, <2>2 DEF TakeGrant, Answer
  <2>5. grants' \in Seq(GrantRecords) /\ \A y : y \in Range(grants') <=> y \in Range(grants) /\ y \notin Gone
    BY <2>4, WithoutRange DEF GtInv, GtTyped
  <2>6. /\ used' \in Seq(UsedRecords) /\ DOMAIN used' = 1..(Len(used) + 1) /\ DOMAIN used = 1..Len(used)
        /\ used'[Len(used) + 1] = u /\ Len(used) \in Nat /\ \A i \in DOMAIN used : used'[i] = used[i]
    BY <2>3, <2>4, AppendProperties, LenProperties DEF GtInv, GtTyped
  <2>7. req' \in [Requests -> ReqRecords] /\ req'[r] = NoReq /\ \A x \in Requests \ {r} : req'[x] = req[x]
    BY <1>5, <1>6, <2>4
  <2>8. GtGentle
    BY <1>1, <2>5 DEF GtGentle
  <2>9. GtTyped'
    BY <1>1, <2>5, <2>6, <2>7 DEF GtInv, GtTyped
  <2>10. GtGrants'
    BY <2>8, <2>9, GtGentle_Grants DEF GtInv
  <2>11. ASSUME NEW x \in Requests PROVE GtReq(x)'
    <3>1. GtReq(x)
      BY DEF GtInv
    <3>2. CASE x = r
      BY <1>5, <2>7, <2>8, <3>1, <3>2, GtGentle_Req DEF GtInv
    <3>3. CASE x # r
      BY <2>7, <2>8, <3>1, <3>3, GtGentle_Req DEF GtInv
    <3> QED BY <3>2, <3>3
  <2>12. g.key = q.cmd /\ g.dir = q.dir /\ g.id = q.grant /\ g.id \in lateAsks /\ g.dir = ask[g.id].dir /\ Fits(g.key, g.id)
    BY <1>1, <1>3, <2>1 DEF GtInv, GtReq, GtGrants
  <2>13. Fits(u.cmd, u.id)
    BY <2>3, <2>12
  <2>14. \A key, n : Fits(key, n) => Fits(key, n)'
    BY <1>1 DEF Fits
  <2>15. \A i \in DOMAIN used' : i \in DOMAIN used \/ used'[i] = u
    BY <2>6
  <2>16. u.id \in lateAsks /\ u.dir = ask[u.id].dir /\ \A i \in DOMAIN used : used[i].id # u.id
    BY <2>1, <2>3, <2>12 DEF GtInv, GtUsed
  <2>17. ASSUME NEW i \in DOMAIN used'
         PROVE  used'[i].id \in lateAsks' /\ used'[i].dir = ask'[used'[i].id].dir /\ Fits(used[i].cmd, used[i].id)'
    <3>1. CASE i \in DOMAIN used
      <4>1. used'[i] = used[i] /\ used[i].id \in lateAsks /\ used[i].dir = ask[used[i].id].dir
            /\ Fits(used[i].cmd, used[i].id)
        BY <2>6, <3>1 DEF GtInv, GtUsed
      <4>2. Fits(used[i].cmd, used[i].id)'
        BY <1>1, <4>1 DEF Fits
      <4> QED BY <1>1, <4>1, <4>2
    <3>2. CASE used'[i] = u
      <4>1. Fits(used[i].cmd, used[i].id)'
        BY <1>1, <2>13, <3>2 DEF Fits
      <4> QED BY <1>1, <2>16, <3>2, <4>1
    <3> QED BY <2>15, <3>1, <3>2
  <2>18. \A i, j \in DOMAIN used' : used'[i].id = used'[j].id => i = j
    <3>1. \A i, j \in DOMAIN used : used[i].id = used[j].id => i = j
      BY DEF GtInv, GtUsed
    <3>2. \A i \in DOMAIN used' : i \in DOMAIN used \/ i = Len(used) + 1
      BY <2>6
    <3> QED BY <2>6, <2>16, <3>1, <3>2
  <2>19. \A i \in DOMAIN used' : \A h \in Range(grants') : used'[i].id # h.id
    <3>1. \A h \in Range(grants') : h \in Range(grants) /\ h.id # u.id
      BY <1>3, <2>3, <2>5
    <3>2. \A i \in DOMAIN used : \A h \in Range(grants) : used[i].id # h.id
      BY DEF GtInv, GtUsed
    <3> QED BY <2>6, <2>15, <3>1, <3>2
  <2>20. GtUsed'
    BY <2>17, <2>18, <2>19 DEF GtUsed
  <2>21. GtAsked' /\ GtLapsed'
    BY <1>1 DEF GtInv, GtAsked, GtLapsed
  <2> QED BY <2>9, <2>10, <2>11, <2>20, <2>21 DEF GtInv
<1>8. CASE ~ \E g \in Range(grants) : g.id = req[r].grant
  <2>1. grants' = grants /\ used' = used /\ Go(r, "asking")
    BY <1>8 DEF TakeGrant
  <2>2. PICK t : t = [q EXCEPT !.pc = "asking"]
    OBVIOUS
  <2>3. t \in ReqRecords /\ t.pc = "asking" /\ t.cmd = q.cmd
    BY <2>2 DEF ReqRecords
  <2>4. req' = [req EXCEPT ![r] = t]
    BY <1>2, <1>3, <2>1, <2>2 DEF Go
  <2>5. req' \in [Requests -> ReqRecords] /\ req'[r] = t /\ \A x \in Requests \ {r} : req'[x] = req[x]
    BY <1>6, <2>3, <2>4
  <2>6. GtGentle
    BY <1>1, <2>1 DEF GtGentle
  <2>7. GtTyped'
    BY <1>1, <2>1, <2>5 DEF GtInv, GtTyped
  <2>8. GtGrants' /\ GtUsed'
    BY <2>1, <2>6, <2>7, GtGentle_Grants, GtGentle_Used DEF GtInv
  <2>9. ASSUME NEW x \in Requests PROVE GtReq(x)'
    <3>1. GtReq(x)
      BY DEF GtInv
    <3>2. CASE x = r
      BY <1>4, <2>3, <2>5, <2>6, <3>1, <3>2, GtGentle_Req DEF GtInv
    <3>3. CASE x # r
      BY <2>5, <2>6, <3>1, <3>3, GtGentle_Req DEF GtInv
    <3> QED BY <3>2, <3>3
  <2>10. GtAsked' /\ GtLapsed'
    BY <1>1 DEF GtInv, GtAsked, GtLapsed
  <2> QED BY <2>7, <2>8, <2>9, <2>10 DEF GtInv
<1> QED BY <1>7, <1>8


\* The owner is asked: the question is new, and its script is remembered.
LEMMA GtAsk_Inv ==
    ASSUME GtInv, NEW r \in Requests, AskOwner(r)
    PROVE  GtInv'
<1>1. /\ grants' = grants /\ active' = active /\ lateAsks' = lateAsks
      /\ used' = used /\ revived' = revived /\ req[r].pc = "asking" /\ RecordAsked(req[r].cmd)
  BY DEF AskOwner
<1>2. req \in [Requests -> ReqRecords] /\ req[r] \in ReqRecords
  BY DEF GtInv, GtTyped
<1>3. PICK q \in ReqRecords : q = req[r]
  BY <1>2
<1>4. q.pc = "asking" /\ q.cmd \in Commands /\ q.dir \in Dirs \cup {NoDir}
  BY <1>1, <1>3 DEF GtInv, GtReq, ReqRecords
<1>5. NoReq \in ReqRecords /\ NoReq.pc = "none"
  BY DEF NoReq, ReqRecords
<1>6. ASSUME NEW t \in ReqRecords, req' = [req EXCEPT ![r] = t]
      PROVE  req' \in [Requests -> ReqRecords] /\ req'[r] = t /\ \A x \in Requests \ {r} : req'[x] = req[x]
  BY <1>2, <1>6
<1>7. ask \in Seq(AskRecords) /\ Len(ask) \in Nat /\ DOMAIN ask = 1..Len(ask) /\ forgot \in BOOLEAN
  BY LenProperties DEF GtInv, GtTyped
<1>8. /\ asked' \in Seq(Commands) /\ forgot' \in BOOLEAN /\ (forgot => forgot')
      /\ \A c \in Range(asked') : LabelOf[c] # c
      /\ ~forgot' => /\ \A c \in Range(asked) : c \in Range(asked')
                     /\ LabelOf[q.cmd] # q.cmd => q.cmd \in Range(asked')
  <2>1. CASE LabelOf[q.cmd] = q.cmd
    BY <1>1, <1>3, <1>7, <2>1 DEF RecordAsked, GtInv, GtTyped, GtAsked
  <2>2. CASE LabelOf[q.cmd] # q.cmd
    <3>1. PICK w : w = Without(asked, {q.cmd})
      OBVIOUS
    <3>2. w \in Seq(Commands) /\ \A y : y \in Range(w) <=> y \in Range(asked) /\ y \notin {q.cmd}
      BY <3>1, WithoutRange DEF GtInv, GtTyped
    <3>3. PICK next : next = Append(w, q.cmd)
      OBVIOUS
    <3>4. next \in Seq(Commands) /\ \A y : y \in Range(next) <=> y \in Range(w) \/ y = q.cmd
      BY <1>4, <3>2, <3>3, AppendRange
    <3>5. next # <<>>
      BY <3>4, EmptyRange
    <3>6. Bounded(next, MaxAskedScripts) \in Seq(Commands)
          /\ \A y \in Range(Bounded(next, MaxAskedScripts)) : y \in Range(next)
      BY <3>4, <3>5, BoundedRange
    <3>7. asked' = Bounded(next, MaxAskedScripts) /\ forgot' = (forgot \/ Len(next) > MaxAskedScripts)
      BY <1>1, <1>3, <2>2, <3>1, <3>3 DEF RecordAsked
    <3>8. ~forgot' => asked' = next
      BY <3>7 DEF Bounded
    <3>9. \A c \in Range(next) : LabelOf[c] # c
      BY <2>2, <3>2, <3>4 DEF GtInv, GtAsked
    <3>10. forgot' \in BOOLEAN /\ (forgot => forgot')
      BY <1>7, <3>7
    <3> QED BY <3>2, <3>4, <3>6, <3>7, <3>8, <3>9, <3>10
  <2> QED BY <2>1, <2>2
<1>9. CASE ~attended
  <2>1. ask' = ask /\ req' = [req EXCEPT ![r] = NoReq]
    BY <1>9 DEF AskOwner, Answer
  <2>2. req' \in [Requests -> ReqRecords] /\ req'[r] = NoReq /\ \A x \in Requests \ {r} : req'[x] = req[x]
    BY <1>5, <1>6, <2>1
  <2>3. GtGentle
    BY <1>1, <1>8, <2>1 DEF GtGentle
  <2>4. GtTyped'
    BY <1>1, <1>8, <2>1, <2>2 DEF GtInv, GtTyped
  <2>5. GtGrants' /\ GtUsed'
    BY <1>1, <2>3, <2>4, GtGentle_Grants, GtGentle_Used DEF GtInv
  <2>6. ASSUME NEW x \in Requests PROVE GtReq(x)'
    <3>1. GtReq(x)
      BY DEF GtInv
    <3>2. CASE x = r
      BY <1>5, <2>2, <2>3, <3>1, <3>2, GtGentle_Req DEF GtInv
    <3>3. CASE x # r
      BY <2>2, <2>3, <3>1, <3>3, GtGentle_Req DEF GtInv
    <3> QED BY <3>2, <3>3
  <2>7. GtAsked' /\ GtLapsed'
    BY <1>1, <1>8, <2>1 DEF GtInv, GtAsked, GtLapsed
  <2> QED BY <2>4, <2>5, <2>6, <2>7 DEF GtInv
<1>10. CASE attended
  <2>1. PICK n \in Nat : n = Len(ask) + 1
    BY <1>7
  <2>2. PICK a : a = [cmd |-> q.cmd, dir |-> q.dir, up |-> TRUE, answer |-> "none", lapsed |-> FALSE]
    OBVIOUS
  <2>3. a \in AskRecords /\ a.cmd = q.cmd /\ ~a.lapsed
    BY <1>4, <2>2 DEF AskRecords
  <2>4. PICK t : t = [q EXCEPT !.pc = "wait", !.n = n]
    OBVIOUS
  <2>5. t \in ReqRecords /\ t.pc = "wait" /\ t.cmd = q.cmd /\ t.n = n
    BY <2>4 DEF ReqRecords
  <2>6. ask' = Append(ask, a) /\ req' = [req EXCEPT ![r] = t]
    BY <1>2, <1>3, <1>10, <2>1, <2>2, <2>4 DEF AskOwner
  <2>7. req' \in [Requests -> ReqRecords] /\ req'[r] = t /\ \A x \in Requests \ {r} : req'[x] = req[x]
    BY <1>6, <2>5, <2>6
  <2>8. ask' \in Seq(AskRecords) /\ DOMAIN ask' = 1..n /\ ask'[n] = a /\ \A i \in DOMAIN ask : ask'[i] = ask[i]
    BY <1>7, <2>1, <2>3, <2>6, AppendProperties, LenProperties
  <2>9. DOMAIN ask \subseteq DOMAIN ask' /\ n \in DOMAIN ask' /\ \A i \in DOMAIN ask' : i \in DOMAIN ask \/ i = n
    BY <1>7, <2>1, <2>8
  <2>10. GtGentle
    BY <1>1, <1>8, <2>8, <2>9 DEF GtGentle
  <2>11. GtTyped'
    BY <1>1, <1>8, <2>7, <2>8, <2>9 DEF GtInv, GtTyped
  <2>12. GtGrants' /\ GtUsed'
    BY <1>1, <2>10, <2>11, GtGentle_Grants, GtGentle_Used DEF GtInv
  <2>13. ASSUME NEW x \in Requests PROVE GtReq(x)'
    <3>1. GtReq(x)
      BY DEF GtInv
    <3>2. CASE x = r
      BY <1>4, <2>5, <2>7, <2>9, <2>10, <3>1, <3>2, GtGentle_Req DEF GtInv
    <3>3. CASE x # r
      BY <2>7, <2>10, <3>1, <3>3, GtGentle_Req DEF GtInv
    <3> QED BY <3>2, <3>3
  <2>14. GtAsked'
    <3>1. ASSUME ~forgot', NEW i \in DOMAIN ask', LabelOf[ask'[i].cmd] # ask'[i].cmd
          PROVE  ask'[i].cmd \in Range(asked')
      <4>1. CASE i = n
        BY <1>8, <2>3, <2>8, <3>1, <4>1
      <4>2. CASE i \in DOMAIN ask
        <5>1. ~forgot /\ ask'[i] = ask[i]
          BY <1>8, <2>8, <3>1, <4>2
        <5>2. ask[i].cmd \in Range(asked)
          BY <3>1, <4>2, <5>1 DEF GtInv, GtAsked
        <5> QED BY <1>8, <3>1, <5>1, <5>2
      <4> QED BY <2>9, <4>1, <4>2
    <3> QED BY <1>8, <3>1 DEF GtAsked
  <2>15. GtLapsed'
    BY <1>1, <2>3, <2>8, <2>9 DEF GtInv, GtLapsed
  <2> QED BY <2>11, <2>12, <2>13, <2>14, <2>15 DEF GtInv
<1> QED BY <1>9, <1>10

\* One question gets its answer, or is over.
LEMMA GtAnswers_Inv ==
    ASSUME GtInv, NEW n \in DOMAIN ask, NEW a \in AskRecords,
           a.cmd = ask[n].cmd, a.dir = ask[n].dir, a.lapsed => ~active,
           ask' = [ask EXCEPT ![n] = a],
           req' \in [Requests -> ReqRecords],
           \A x \in Requests : req'[x] = req[x] \/ req'[x].pc = "none",
           UNCHANGED <<grants, asked, active, lateAsks, used, forgot>>, revived' = revived
    PROVE  GtInv'
<1>1. ask \in Seq(AskRecords)
  BY DEF GtInv, GtTyped
<1>2. /\ ask' \in Seq(AskRecords) /\ DOMAIN ask' = DOMAIN ask /\ ask'[n] = a
      /\ \A i \in DOMAIN ask \ {n} : ask'[i] = ask[i]
  BY <1>1, ExceptSeq, LenProperties
<1>3. GtGentle
  BY <1>2 DEF GtGentle
<1>4. GtTyped'
  BY <1>2 DEF GtInv, GtTyped
<1>5. GtGrants' /\ GtUsed'
  BY <1>3, <1>4, GtGentle_Grants, GtGentle_Used DEF GtInv
<1>6. ASSUME NEW x \in Requests PROVE GtReq(x)'
  <2>1. GtReq(x)
    BY DEF GtInv
  <2> QED BY <1>3, <2>1, GtGentle_Req DEF GtInv
<1>7. GtAsked'
  BY <1>2, <1>3, GtGentle_Asked DEF GtInv
<1>8. GtLapsed'
  BY <1>2 DEF GtInv, GtLapsed
<1> QED BY <1>4, <1>5, <1>6, <1>7, <1>8 DEF GtInv

\* Decide, the two ends of Ask.
LEMMA GtOwner_Inv ==
    ASSUME GtInv, (\E n \in DOMAIN ask, v \in Answers : Decide(n, v))
                  \/ (\E r \in Requests : OwnerAnswered(r) \/ AskTimesOut(r))
    PROVE  GtInv'
<1>1. ask \in Seq(AskRecords) /\ DOMAIN ask = 1..Len(ask) /\ req \in [Requests -> ReqRecords] /\ active \in BOOLEAN
  BY LenProperties DEF GtInv, GtTyped
<1>2. \A n \in DOMAIN ask : ask[n] \in AskRecords
  BY <1>1, ElementOfSeq
<1>3. NoReq \in ReqRecords /\ NoReq.pc = "none"
  BY DEF NoReq, ReqRecords
<1>4. CASE \E n \in DOMAIN ask, v \in Answers : Decide(n, v)
  <2>1. PICK n \in DOMAIN ask, v \in Answers : Decide(n, v)
    BY <1>4
  <2>2. PICK old \in AskRecords : old = ask[n]
    BY <1>2
  <2>3. PICK a : a = [old EXCEPT !.answer = v, !.lapsed = ~active]
    OBVIOUS
  <2>4. a \in AskRecords /\ a.cmd = old.cmd /\ a.dir = old.dir /\ (a.lapsed => ~active)
    BY <1>1, <2>3 DEF AskRecords
  <2>5. ask' = [ask EXCEPT ![n] = a]
    BY <2>1, <2>2, <2>3 DEF Decide
  <2>6. /\ UNCHANGED <<grants, asked, active, lateAsks, used, forgot>> /\ revived' = revived /\ req' = req
    BY <2>1 DEF Decide
  <2> QED BY <1>1, <2>2, <2>4, <2>5, <2>6, GtAnswers_Inv
<1>5. ASSUME NEW r \in Requests, OwnerAnswered(r) \/ AskTimesOut(r)
      PROVE  GtInv'
  <2>1. PICK n : n = req[r].n
    OBVIOUS
  <2>2. /\ req[r].pc = "wait" /\ Over(n) /\ Answer(r)
        /\ UNCHANGED <<grants, asked, active, lateAsks, used, forgot>>
    BY <1>5, <2>1 DEF OwnerAnswered, AskTimesOut
  <2>3. n \in DOMAIN ask
    BY <2>1, <2>2 DEF GtInv, GtReq
  <2>4. PICK old \in AskRecords : old = ask[n]
    BY <1>2, <2>3
  <2>5. PICK a : a = [old EXCEPT !.up = FALSE, !.answer = "none", !.lapsed = FALSE]
    OBVIOUS
  <2>6. a \in AskRecords /\ a.cmd = old.cmd /\ a.dir = old.dir /\ ~a.lapsed
    BY <2>5 DEF AskRecords
  <2>7. ask' = [ask EXCEPT ![n] = a]
    BY <2>2, <2>4, <2>5 DEF Over
  <2>8. req' \in [Requests -> ReqRecords] /\ \A x \in Requests : req'[x] = req[x] \/ req'[x].pc = "none"
    BY <1>1, <1>3, <2>2 DEF Answer
  <2>9. revived' = revived
    <3>1. CASE AskTimesOut(r)
      BY <3>1 DEF AskTimesOut
    <3>2. CASE OwnerAnswered(r)
      <4>1. revived = FALSE /\ (ask[n].lapsed => ~active)
        BY <2>3 DEF GtInv, GtLapsed
      <4>2. ~(GoesAhead(r) /\ r \in Delegated /\ ask[n].lapsed)
        BY <4>1 DEF GoesAhead, ChecksPass
      <4>3. revived' = (FALSE \/ (GoesAhead(r) /\ r \in Delegated /\ ask[n].lapsed))
        BY <2>1, <3>2, <4>1 DEF OwnerAnswered
      <4> QED BY <4>1, <4>2, <4>3
    <3> QED BY <1>5, <3>1, <3>2
  <2> QED BY <2>2, <2>3, <2>4, <2>6, <2>7, <2>8, <2>9, GtAnswers_Inv
<1> QED BY <1>4, <1>5


LEMMA RangeFinite ==
    ASSUME NEW S, NEW s \in Seq(S)
    PROVE  IsFiniteSet(DOMAIN s) /\ IsFiniteSet(Range(s))
<1>1. Len(s) \in Nat /\ DOMAIN s = 1..Len(s) /\ s \in [1..Len(s) -> S]
  BY LenProperties
<1>2. IsFiniteSet(1..Len(s))
  BY <1>1, FS_Interval
<1>3. s \in Surjection(1..Len(s), Range(s))
  BY <1>1 DEF Surjection, Range
<1> QED BY <1>1, <1>2, <1>3, FS_Surjection

\* The script that a label stands for, or the label.
LEMMA ResolveFits ==
    ASSUME GtInv, NEW n \in DOMAIN ask, NEW key \in Resolve(LabelOf[ask[n].cmd])
    PROVE  key \in Keys /\ Fits(key, n)
<1>1. /\ ask[n] \in AskRecords /\ asked \in Seq(Commands) /\ Len(asked) \in Nat
      /\ \A x \in Range(asked) : x \in Commands /\ LabelOf[x] # x
  <2>1. ask \in Seq(AskRecords) /\ DOMAIN ask = 1..Len(ask)
    BY LenProperties DEF GtInv, GtTyped
  <2>2. ask[n] \in AskRecords
    BY <2>1, ElementOfSeq
  <2>3. asked \in Seq(Commands) /\ Len(asked) \in Nat /\ DOMAIN asked = 1..Len(asked)
    BY LenProperties DEF GtInv, GtTyped
  <2>4. \A i \in 1..Len(asked) : asked[i] \in Commands
    BY <2>3, ElementOfSeq
  <2> QED BY <2>2, <2>3, <2>4 DEF GtInv, GtAsked, Range
<1>2. PICK c \in Commands : c = ask[n].cmd
  BY <1>1 DEF AskRecords
<1>3. PICK fit : fit = {x \in Range(asked) : LabelOf[x] = LabelOf[c]}
  OBVIOUS
<1>4. CASE fit = {}
  <2>1. key = LabelOf[c]
    BY <1>2, <1>3, <1>4 DEF Resolve
  <2>2. key \in Commands => LabelOf[key] = LabelOf[c]
    BY <2>1, GateAssumption DEF LabelsStay
  <2>3. ASSUME ~forgot PROVE key = c
    <3>1. LabelOf[c] # c => c \in Range(asked)
      BY <1>2, <2>3 DEF GtInv, GtAsked
    <3>2. c \notin Range(asked)
      BY <1>3, <1>4
    <3> QED BY <2>1, <3>1, <3>2
  <2> QED BY <1>2, <2>1, <2>2, <2>3 DEF Fits, Keys
<1>5. CASE fit # {}
  <2>1. key \in fit /\ Cardinality(fit) = 1
    BY <1>2, <1>3, <1>5 DEF Resolve
  <2>2. IsFiniteSet(fit)
    <3>1. fit \in SUBSET Range(asked)
      BY <1>3
    <3> QED BY <1>1, <3>1, RangeFinite, FS_Subset
  <2>3. fit = {key}
    BY <2>1, <2>2, FS_Singleton
  <2>4. key \in Commands /\ LabelOf[key] # key /\ LabelOf[key] = LabelOf[c]
    BY <1>1, <1>3, <2>1
  <2>5. ASSUME ~forgot PROVE c \in {key, LabelOf[key]}
    <3>1. CASE LabelOf[c] = c
      BY <2>4, <3>1
    <3>2. CASE LabelOf[c] # c
      <4>1. c \in Range(asked)
        BY <1>2, <2>5, <3>2 DEF GtInv, GtAsked
      <4>2. c \in fit
        BY <1>3, <4>1
      <4> QED BY <2>3, <4>2
    <3> QED BY <3>1, <3>2
  <2> QED BY <1>2, <2>4, <2>5 DEF Fits, Keys
<1> QED BY <1>4, <1>5

\* An approval that comes late installs a grant for its question.
LEMMA GtGrant_Inv ==
    ASSUME GtInv, NEW n \in DOMAIN ask, GrantOnce(n)
    PROVE  GtInv'
<1>1. /\ asked' = asked /\ ask' = ask /\ active' = active /\ req' = req
      /\ used' = used /\ forgot' = forgot /\ revived' = revived
      /\ n \notin lateAsks /\ lateAsks' = lateAsks \cup {n}
  BY DEF GrantOnce, owner
<1>2. grants \in Seq(GrantRecords) /\ ask \in Seq(AskRecords) /\ DOMAIN ask = 1..Len(ask) /\ Len(ask) \in Nat
  BY LenProperties DEF GtInv, GtTyped
<1>3. ask[n] \in AskRecords /\ n \in Nat
  BY <1>2, ElementOfSeq
<1>4. \A key, i : Fits(key, i) => Fits(key, i)'
  BY <1>1 DEF Fits
<1>5. \/ grants' = grants
      \/ \E g \in GrantRecords :
           /\ g.id = n /\ g.dir = ask[n].dir /\ Fits(g.key, n)
           /\ grants' \in Seq(GrantRecords)
           /\ \A h \in Range(grants') : h \in Range(grants) \/ h = g
  <2>1. CASE ask[n].dir = NoDir \/ Resolve(LabelOf[ask[n].cmd]) = {}
    BY <2>1 DEF GrantOnce
  <2>2. CASE ~(ask[n].dir = NoDir \/ Resolve(LabelOf[ask[n].cmd]) = {})
    <3>1. PICK key : key = CHOOSE k \in Resolve(LabelOf[ask[n].cmd]) : TRUE
      OBVIOUS
    <3>2. key \in Resolve(LabelOf[ask[n].cmd])
      BY <2>2, <3>1
    <3>3. key \in Keys /\ Fits(key, n)
      BY <3>2, ResolveFits
    <3>4. PICK rest : rest = Without(grants, {g \in Range(grants) : g.key = key /\ g.dir = ask[n].dir})
      OBVIOUS
    <3>5. rest \in Seq(GrantRecords) /\ \A y \in Range(rest) : y \in Range(grants)
      BY <1>2, <3>4, WithoutRange
    <3>6. PICK g : g = [key |-> key, dir |-> ask[n].dir, id |-> n]
      OBVIOUS
    <3>7. g \in GrantRecords /\ g.id = n /\ g.dir = ask[n].dir /\ g.key = key
      BY <1>3, <2>2, <3>3, <3>6 DEF GrantRecords, AskRecords
    <3>8. PICK next : next = Append(rest, g)
      OBVIOUS
    <3>9. next \in Seq(GrantRecords) /\ \A y : y \in Range(next) <=> y \in Range(rest) \/ y = g
      BY <3>5, <3>7, <3>8, AppendRange
    <3>10. next # <<>>
      BY <3>9, EmptyRange
    <3>11. grants' = Bounded(next, MaxGrants)
      BY <2>2, <3>1, <3>4, <3>6, <3>8 DEF GrantOnce
    <3>12. grants' \in Seq(GrantRecords) /\ \A y \in Range(grants') : y \in Range(next)
      BY <3>9, <3>10, <3>11, BoundedRange
    <3> QED BY <3>3, <3>5, <3>7, <3>9, <3>12
  <2> QED BY <2>1, <2>2
<1>6. grants' \in Seq(GrantRecords)
  BY <1>2, <1>5
<1>7. GtTyped'
  BY <1>1, <1>6 DEF GtInv, GtTyped
<1>8. \A h \in Range(grants') : h \in Range(grants) \/ (h.id = n /\ h.dir = ask[n].dir /\ Fits(h.key, n) /\ h.dir \in Dirs)
  BY <1>5 DEF GrantRecords
<1>9. \A h \in Range(grants) : h.id \in lateAsks /\ h.id # n
  BY <1>1 DEF GtInv, GtGrants
<1>10. GtGrants'
  <2>1. ASSUME NEW h \in Range(grants')
        PROVE  h.id \in lateAsks' /\ h.dir = ask'[h.id].dir /\ h.dir \in Dirs /\ Fits(h.key, h.id)'
    <3>1. CASE h \in Range(grants)
      <4>1. h.id \in lateAsks /\ h.dir = ask[h.id].dir /\ h.dir \in Dirs /\ Fits(h.key, h.id)
        BY <3>1 DEF GtInv, GtGrants
      <4>2. Fits(h.key, h.id)'
        BY <1>1, <4>1 DEF Fits
      <4> QED BY <1>1, <4>1, <4>2
    <3>2. CASE h.id = n /\ h.dir = ask[n].dir /\ Fits(h.key, n) /\ h.dir \in Dirs
      <4>1. Fits(h.key, h.id)'
        BY <1>1, <3>2 DEF Fits
      <4> QED BY <1>1, <3>2, <4>1
    <3> QED BY <1>8, <3>1, <3>2
  <2>2. \A g, h \in Range(grants') : g.id = h.id => g = h
    BY <1>5, <1>9 DEF GtInv, GtGrants
  <2> QED BY <2>1, <2>2 DEF GtGrants
<1>11. GtUsed'
  <2>1. ASSUME NEW i \in DOMAIN used'
        PROVE  used'[i].id \in lateAsks' /\ used'[i].dir = ask'[used'[i].id].dir /\ Fits(used[i].cmd, used[i].id)'
    <3>1. used[i].id \in lateAsks /\ used[i].dir = ask[used[i].id].dir /\ Fits(used[i].cmd, used[i].id)
      BY <1>1 DEF GtInv, GtUsed
    <3>2. Fits(used[i].cmd, used[i].id)'
      BY <1>1, <3>1 DEF Fits
    <3> QED BY <1>1, <3>1, <3>2
  <2>2. \A i \in DOMAIN used : used[i].id # n
    BY <1>1 DEF GtInv, GtUsed
  <2>3. \A i, j \in DOMAIN used' : used'[i].id = used'[j].id => i = j
    BY <1>1 DEF GtInv, GtUsed
  <2>4. \A i \in DOMAIN used' : \A h \in Range(grants') : used'[i].id # h.id
    BY <1>1, <1>8, <2>2 DEF GtInv, GtUsed
  <2> QED BY <2>1, <2>3, <2>4 DEF GtUsed
<1>12. ASSUME NEW r \in Requests PROVE GtReq(r)'
  <2>1. GtReq(r)
    BY DEF GtInv
  <2>2. req[r].pc \in {"found", "take"} => req[r].grant # n
    BY <1>1, <2>1 DEF GtReq
  <2> QED BY <1>1, <1>8, <2>1, <2>2 DEF GtReq
<1>13. GtAsked' /\ GtLapsed'
  BY <1>1 DEF GtInv, GtAsked, GtLapsed
<1> QED BY <1>7, <1>10, <1>11, <1>12, <1>13 DEF GtInv


\* What expires, who attends, the end of the delegation, the agent's restart.
LEMMA GtRest_Inv ==
    ASSUME GtInv, GrantExpires \/ AskedExpires \/ Attend \/ DelegationEnds \/ Restart
    PROVE  GtInv'
<1>1. /\ lateAsks' = lateAsks /\ used' = used /\ revived' = revived /\ active' \in BOOLEAN /\ (active' => active)
  <2>1. lateAsks' = lateAsks /\ used' = used /\ revived' = revived
    BY DEF GrantExpires, AskedExpires, Attend, DelegationEnds, Restart
  <2>2. active' = active \/ active' = FALSE
    BY DEF GrantExpires, AskedExpires, Attend, DelegationEnds, Restart
  <2>3. active \in BOOLEAN
    BY DEF GtInv, GtTyped
  <2>4. CASE active' = active
    <3>1. active' => active
      BY <2>4, Zenon
    <3> QED BY <2>1, <2>3, <2>4, <3>1
  <2>5. CASE active' = FALSE
    BY <2>1, <2>5
  <2> QED BY <2>2, <2>4, <2>5
<1>2. /\ grants \in Seq(GrantRecords) /\ asked \in Seq(Commands) /\ forgot \in BOOLEAN
      /\ ask \in Seq(AskRecords) /\ DOMAIN ask = 1..Len(ask) /\ Len(ask) \in Nat
  BY LenProperties DEF GtInv, GtTyped
<1>3. \A S : <<>> \in Seq(S)
  BY EmptySeq
<1>4. grants' \in Seq(GrantRecords) /\ \A g \in Range(grants') : g \in Range(grants)
  <2>1. CASE grants' = grants
    BY <1>2, <2>1
  <2>2. CASE grants' = <<>>
    BY <1>3, <2>2, EmptyRange
  <2>3. CASE grants # <<>> /\ grants' = Tail(grants)
    BY <1>2, <2>3, TailRange
  <2> QED BY <2>1, <2>2, <2>3 DEF GrantExpires, AskedExpires, Attend, DelegationEnds, Restart
<1>5. /\ asked' \in Seq(Commands) /\ \A c \in Range(asked') : c \in Range(asked)
      /\ forgot' \in BOOLEAN /\ (forgot => forgot') /\ (forgot' \/ asked' = asked)
  <2>1. CASE asked' = asked /\ forgot' = forgot
    BY <1>2, <2>1
  <2>2. CASE asked' = <<>> /\ forgot' = TRUE
    BY <1>3, <2>2, EmptyRange
  <2>3. CASE asked # <<>> /\ asked' = Tail(asked) /\ forgot' = TRUE
    BY <1>2, <2>3, TailRange
  <2> QED BY <2>1, <2>2, <2>3 DEF GrantExpires, AskedExpires, Attend, DelegationEnds, Restart
<1>6. /\ ask' \in Seq(AskRecords) /\ DOMAIN ask' = DOMAIN ask
      /\ \A n \in DOMAIN ask : /\ ask'[n].cmd = ask[n].cmd /\ ask'[n].dir = ask[n].dir
                               /\ ask'[n].lapsed => ask[n].lapsed
  <2>1. CASE ask' = ask
    BY <1>2, <2>1
  <2>2. CASE Restart
    <3>1. ask' = [n \in DOMAIN ask |-> [ask[n] EXCEPT !.up = FALSE, !.answer = "none", !.lapsed = FALSE]]
      BY <2>2 DEF Restart
    <3>2. ASSUME NEW n \in 1..Len(ask)
          PROVE  ask'[n] \in AskRecords /\ ask'[n].cmd = ask[n].cmd /\ ask'[n].dir = ask[n].dir /\ ~ask'[n].lapsed
      <4>1. PICK old \in AskRecords : old = ask[n]
        BY <1>2, ElementOfSeq
      <4>2. ask'[n] = [old EXCEPT !.up = FALSE, !.answer = "none", !.lapsed = FALSE]
        BY <1>2, <3>1, <4>1
      <4> QED BY <4>1, <4>2 DEF AskRecords
    <3>3. ask' \in [1..Len(ask) -> AskRecords]
      BY <1>2, <3>1, <3>2
    <3>4. ask' \in Seq(AskRecords)
      BY <1>2, <3>3, SeqDef
    <3> QED BY <1>2, <3>2, <3>3, <3>4
  <2> QED BY <2>1, <2>2 DEF GrantExpires, AskedExpires, Attend, DelegationEnds, owner
<1>7. req' \in [Requests -> ReqRecords] /\ \A x \in Requests : req'[x] = req[x] \/ req'[x].pc = "none"
  <2>1. NoReq \in ReqRecords /\ NoReq.pc = "none"
    BY DEF NoReq, ReqRecords
  <2>2. CASE req' = req
    BY <2>2 DEF GtInv, GtTyped
  <2>3. CASE req' = [r \in Requests |-> NoReq]
    BY <2>1, <2>3
  <2> QED BY <2>2, <2>3 DEF GrantExpires, AskedExpires, Attend, DelegationEnds, Restart
<1>8. GtGentle
  BY <1>1, <1>4, <1>5, <1>6 DEF GtGentle
<1>9. GtTyped'
  BY <1>1, <1>4, <1>5, <1>6, <1>7 DEF GtInv, GtTyped
<1>10. GtGrants' /\ GtUsed'
  BY <1>1, <1>8, <1>9, GtGentle_Grants, GtGentle_Used DEF GtInv
<1>11. ASSUME NEW x \in Requests PROVE GtReq(x)'
  <2>1. GtReq(x)
    BY DEF GtInv
  <2> QED BY <1>7, <1>8, <2>1, GtGentle_Req DEF GtInv
<1>12. GtAsked'
  BY <1>5, <1>6, <1>8, GtGentle_Asked DEF GtInv
<1>13. GtLapsed'
  BY <1>1, <1>6 DEF GtInv, GtLapsed
<1> QED BY <1>9, <1>10, <1>11, <1>12, <1>13 DEF GtInv

\* Late approvals of questions whose command is in S let through no more
\* requests for c than there are of them.
LEMMA GtCounts ==
    ASSUME GtInv, NEW c \in Commands, NEW d \in Dirs, NEW S,
           \A n \in lateAsks : Fits(c, n) => ask[n].cmd \in S
    PROVE  Count(c, d) <= Given(S, d)
<1> DEFINE U == {i \in DOMAIN used : used[i].cmd = c /\ used[i].dir = d}
           T == {n \in lateAsks : ask[n].cmd \in S /\ ask[n].dir = d}
           h == [i \in U |-> used[i].id]
<1>1. ASSUME NEW i \in U PROVE used[i].id \in T
  BY DEF GtInv, GtUsed
<1>2. \A i, j \in U : used[i].id = used[j].id => i = j
  BY DEF GtInv, GtUsed
<1>3. h \in Injection(U, T)
  BY <1>1, <1>2 DEF Injection, IsInjective
<1>4. IsFiniteSet(T)
  <2>1. ask \in Seq(AskRecords) /\ lateAsks \subseteq DOMAIN ask
    BY DEF GtInv, GtTyped
  <2>2. IsFiniteSet(DOMAIN ask) /\ T \in SUBSET (DOMAIN ask)
    BY <2>1, RangeFinite
  <2> QED BY <2>2, FS_Subset
<1>5. Cardinality(U) <= Cardinality(T)
  <2> HIDE DEF U, T, h
  <2> QED BY <1>3, <1>4, FS_Injection
<1> QED BY <1>5 DEF Count, Given

LEMMA GtStep_Inv == GtInv /\ [GateNext]_gateVars => GtInv'
<1> SUFFICES ASSUME GtInv, [GateNext]_gateVars PROVE GtInv'
  OBVIOUS
<1>1. CASE UNCHANGED gateVars
  BY <1>1 DEF gateVars, GtInv, GtTyped, GtGrants, GtUsed, GtReq, GtAsked, GtLapsed, Fits
<1>2. ASSUME NEW r \in Requests, GateStep(r) PROVE GtInv'
  BY <1>2, GtMoves_Inv, GtTake_Inv, GtAsk_Inv, GtOwner_Inv DEF GateStep
<1>3. ASSUME NEW r \in Requests, NEW c \in Commands, NEW d \in Dirs \cup {NoDir}, Begin(r, c, d) PROVE GtInv'
  BY <1>3, GtMoves_Inv
<1>4. ASSUME NEW n \in DOMAIN ask, NEW v \in Answers, Decide(n, v) PROVE GtInv'
  BY <1>4, GtOwner_Inv
<1>5. ASSUME NEW n \in DOMAIN ask, GrantOnce(n) PROVE GtInv'
  BY <1>5, GtGrant_Inv
<1>6. CASE GrantExpires \/ AskedExpires \/ Attend \/ DelegationEnds \/ Restart
  BY <1>6, GtRest_Inv
<1> QED BY <1>1, <1>2, <1>3, <1>4, <1>5, <1>6 DEF GateNext

\* approvals.go and delegation.go: late approvals let through no more requests
\* than the owner approved cards with their label and directory, and no request
\* goes ahead on an answer that came after the end of its delegation.
THEOREM LateApprovalsCounted ==
    GateSpec => [](/\ \A c \in Commands, d \in Dirs : Count(c, d) <= Given(SameLabel(c), d)
                   /\ LapsedStaysDenied)
<1>1. GtInv => /\ \A c \in Commands, d \in Dirs : Count(c, d) <= Given(SameLabel(c), d)
               /\ LapsedStaysDenied
  <2> SUFFICES ASSUME GtInv
               PROVE  /\ \A c \in Commands, d \in Dirs : Count(c, d) <= Given(SameLabel(c), d)
                      /\ LapsedStaysDenied
    OBVIOUS
  <2>1. \A n \in lateAsks : ask[n].cmd \in Commands
    <3>1. ask \in Seq(AskRecords) /\ DOMAIN ask = 1..Len(ask) /\ lateAsks \subseteq DOMAIN ask
      BY LenProperties DEF GtInv, GtTyped
    <3>2. \A n \in DOMAIN ask : ask[n] \in AskRecords
      BY <3>1, ElementOfSeq
    <3> QED BY <3>1, <3>2 DEF AskRecords
  <2>2. ASSUME NEW c \in Commands, NEW d \in Dirs PROVE Count(c, d) <= Given(SameLabel(c), d)
    <3>1. \A n \in lateAsks : Fits(c, n) => ask[n].cmd \in SameLabel(c)
      BY <2>1 DEF Fits, SameLabel
    <3> QED BY <3>1, GtCounts
  <2> QED BY <2>2 DEF GtInv, GtLapsed, LapsedStaysDenied
<1>2. GateSpec => []GtInv
  BY GtInit, GtStep_Inv, PTL DEF GateSpec
<1> QED BY <1>1, <1>2, PTL

\* gate of agent.go, with approvals.go: a late approval lets through the very
\* command that its card was about, once, while the device remembers its script;
\* but for a plain command spelled like that script's label.
THEOREM LateApprovalsExact == GateSpec => []GateSafe
<1>1. GtInv => \A c \in Commands, d \in Dirs : ~forgot => Count(c, d) <= Given(Spelled(c), d)
  <2> SUFFICES ASSUME GtInv, NEW c \in Commands, NEW d \in Dirs, ~forgot
               PROVE  Count(c, d) <= Given(Spelled(c), d)
    OBVIOUS
  <2>1. \A n \in lateAsks : ask[n].cmd \in Commands
    <3>1. ask \in Seq(AskRecords) /\ DOMAIN ask = 1..Len(ask) /\ lateAsks \subseteq DOMAIN ask
      BY LenProperties DEF GtInv, GtTyped
    <3>2. \A n \in DOMAIN ask : ask[n] \in AskRecords
      BY <3>1, ElementOfSeq
    <3> QED BY <3>1, <3>2 DEF AskRecords
  <2>2. \A n \in lateAsks : Fits(c, n) => ask[n].cmd \in Spelled(c)
    BY <2>1 DEF Fits, Spelled
  <2> QED BY <2>2, GtCounts
<1>2. GateSpec => []GtInv
  BY GtInit, GtStep_Inv, PTL DEF GateSpec
<1>3. /\ \A c \in Commands, d \in Dirs : Count(c, d) <= Given(SameLabel(c), d)
      /\ LapsedStaysDenied
      /\ \A c \in Commands, d \in Dirs : ~forgot => Count(c, d) <= Given(Spelled(c), d)
      => GateSafe
  BY DEF GateSafe, LateGrantExact
<1> QED BY <1>1, <1>2, <1>3, LateApprovalsCounted, PTL

----------------------------------------------------------------------------
(* Pairing *)

PaReqs == [fp : FPs, verdict : Verdicts]
PaPlaces == {"idle", "authorize", "ask", "wait", "trusted", "admitted", "in"}
PaDials == [pc : PaPlaces, fp : FPs, kind : HelloKinds, asks : {"once", "wait"}, req : Nat, base : Nat]

PaTyped ==
  /\ request \in Seq(PaReqs) /\ spent \subseteq 1..Len(request)
  /\ pairs \in [FPs -> Nat] /\ approvals \in [FPs -> Nat]
  /\ dial \in [PairDials -> PaDials]

\* A request in the table is its controller's, and nobody has collected it.
PaTable ==
  \A f \in FPs : pairs[f] # 0 =>
    pairs[f] \in 1..Len(request) /\ request[pairs[f]].fp = f /\ pairs[f] \notin spent

PaGiven == \A f \in FPs : Approved(f) => approvals[f] > 0

\* An approval that a dial can collect is one that was still to be used when the
\* dial arrived, or came later.
PaDial(d) ==
  /\ dial[d].pc # "idle" => dial[d].base <= approvals[dial[d].fp]
  /\ dial[d].pc \in {"authorize", "ask"} /\ Approved(dial[d].fp) => approvals[dial[d].fp] > dial[d].base
  /\ dial[d].pc = "wait" =>
       /\ dial[d].req \in 1..Len(request) /\ request[dial[d].req].fp = dial[d].fp
       /\ request[dial[d].req].verdict = "yes" => approvals[dial[d].fp] > dial[d].base
  /\ dial[d].pc = "trusted" => approvals[dial[d].fp] > dial[d].base

PaInv == PaTyped /\ PaTable /\ PaGiven /\ \A d \in PairDials : PaDial(d)

\* Requests stay, approvals only become more, and a verdict "yes" is one of them.
PaGrows ==
  /\ \A f \in FPs : approvals'[f] >= approvals[f]
  /\ \A f \in FPs : Approved(f)' => Approved(f) \/ approvals'[f] > approvals[f]
  /\ \A r \in 1..Len(request) : r \in 1..Len(request') /\ request'[r].fp = request[r].fp
  /\ \A r \in 1..Len(request) : request'[r].verdict = "yes"
        => request[r].verdict = "yes" \/ approvals'[request[r].fp] > approvals[request[r].fp]

LEMMA PaDialStays ==
  ASSUME PaTyped, PaTyped', PaGrows, NEW d \in PairDials, PaDial(d), dial'[d] = dial[d]
  PROVE  PaDial(d)'
<1>1. PICK x \in PaDials : x = dial[d]
  BY DEF PaTyped
<1>2. x.fp \in FPs /\ x.base \in Nat
  BY <1>1 DEF PaDials
<1>3. PICK n \in Nat, m \in Nat : n = approvals[x.fp] /\ m = approvals'[x.fp]
  BY <1>2 DEF PaTyped
<1>4. m >= n /\ (Approved(x.fp)' => Approved(x.fp) \/ m > n)
  BY <1>2, <1>3 DEF PaGrows
<1>5. ASSUME x.pc = "wait"
      PROVE  /\ x.req \in 1..Len(request') /\ request'[x.req].fp = x.fp
             /\ request'[x.req].verdict = "yes" => m > x.base
  <2>1. x.req \in 1..Len(request) /\ request[x.req].fp = x.fp
    BY <1>1, <1>5 DEF PaDial
  <2>2. request[x.req].verdict = "yes" => n > x.base
    BY <1>1, <1>3, <1>5 DEF PaDial
  <2>3. n >= x.base
    BY <1>1, <1>2, <1>3, <1>5 DEF PaDial
  <2>4. request'[x.req].verdict = "yes" => request[x.req].verdict = "yes" \/ m > n
    BY <1>3, <2>1 DEF PaGrows
  <2>5. x.req \in 1..Len(request') /\ request'[x.req].fp = x.fp
    BY <2>1 DEF PaGrows
  <2> QED BY <1>2, <1>4, <2>2, <2>3, <2>4, <2>5
<1>6. x.pc # "idle" => x.base <= m
  BY <1>1, <1>2, <1>3, <1>4 DEF PaDial
<1>7. x.pc \in {"authorize", "ask"} /\ Approved(x.fp)' => m > x.base
  BY <1>1, <1>2, <1>3, <1>4 DEF PaDial
<1>8. x.pc = "trusted" => m > x.base
  BY <1>1, <1>2, <1>3, <1>4 DEF PaDial
<1> QED BY <1>1, <1>3, <1>5, <1>6, <1>7, <1>8 DEF PaDial

\* A request leaves the table of f, or nothing does; those that are collected
\* are f's.
LEMMA PaTakes ==
  ASSUME PaInv, UNCHANGED <<request, approvals>>, NEW f \in FPs,
         pairs' = pairs \/ pairs' = [pairs EXCEPT ![f] = 0],
         NEW X \in SUBSET (1..Len(request)), spent' = spent \cup X,
         \A x \in X : request[x].fp = f /\ pairs'[f] # x
  PROVE  /\ request' \in Seq(PaReqs) /\ spent' \subseteq 1..Len(request')
         /\ pairs' \in [FPs -> Nat] /\ approvals' \in [FPs -> Nat]
         /\ PaTable' /\ PaGiven' /\ PaGrows
<1>1. request' \in Seq(PaReqs) /\ spent' \subseteq 1..Len(request') /\ pairs' \in [FPs -> Nat] /\ approvals' \in [FPs -> Nat]
  <2>1. request' \in Seq(PaReqs) /\ approvals' \in [FPs -> Nat]
    BY DEF PaInv, PaTyped
  <2>2. spent \subseteq 1..Len(request) /\ request' = request
    BY DEF PaInv, PaTyped
  <2>3. pairs \in [FPs -> Nat]
    BY DEF PaInv, PaTyped
  <2>4. pairs' \in [FPs -> Nat]
    BY <2>3
  <2> QED BY <2>1, <2>2, <2>4
<1>2. \A g \in FPs : (pairs'[g] # 0 => pairs'[g] = pairs[g]) /\ (g # f => pairs'[g] = pairs[g])
  BY DEF PaInv, PaTyped
<1>3. PaTable'
  <2>1. ASSUME NEW g \in FPs, pairs'[g] # 0
        PROVE  pairs'[g] \in 1..Len(request) /\ request[pairs'[g]].fp = g /\ pairs'[g] \notin spent'
    <3>1. pairs[g] \in 1..Len(request) /\ request[pairs[g]].fp = g /\ pairs[g] \notin spent /\ pairs'[g] = pairs[g]
      BY <1>2, <2>1 DEF PaInv, PaTable
    <3>2. pairs'[g] \notin X
      BY <3>1
    <3> QED BY <3>1, <3>2
  <2> QED BY <2>1 DEF PaTable
<1>4. \A g \in FPs : Approved(g)' => Approved(g)
  BY <1>2 DEF Approved
<1>5. PaGiven'
  BY <1>4 DEF PaInv, PaGiven
<1>6. PaGrows
  BY <1>1, <1>4 DEF PaGrows
<1> QED BY <1>1, <1>3, <1>5, <1>6

\* One dial moves; the others keep what they have.
LEMMA PaMoves ==
  ASSUME PaInv, request' \in Seq(PaReqs), spent' \subseteq 1..Len(request'),
         pairs' \in [FPs -> Nat], approvals' \in [FPs -> Nat], PaTable', PaGiven', PaGrows,
         NEW d \in PairDials, NEW x \in PaDials, dial' = [dial EXCEPT ![d] = x], PaDial(d)'
  PROVE  PaInv'
<1>1. PaTyped'
  BY DEF PaInv, PaTyped
<1>2. ASSUME NEW c \in PairDials PROVE PaDial(c)'
  <2>1. CASE c = d
    BY <2>1
  <2>2. CASE c # d
    <3>1. dial'[c] = dial[c]
      BY <2>2 DEF PaInv, PaTyped
    <3> QED BY <1>1, <3>1, PaDialStays DEF PaInv
  <2> QED BY <2>1, <2>2
<1> QED BY <1>1, <1>2 DEF PaInv

\* No dial moves.
LEMMA PaRests ==
  ASSUME PaInv, request' \in Seq(PaReqs), spent' \subseteq 1..Len(request'),
         pairs' \in [FPs -> Nat], approvals' \in [FPs -> Nat], PaTable', PaGiven', PaGrows, UNCHANGED dial
  PROVE  PaInv'
<1>1. PaTyped'
  BY DEF PaInv, PaTyped
<1>2. \A c \in PairDials : PaDial(c)'
  BY <1>1, PaDialStays DEF PaInv
<1> QED BY <1>1, <1>2 DEF PaInv

LEMMA PaIdle == Idle \in PaDials /\ Idle.pc = "idle"
BY DEF Idle, PaDials, PaPlaces, HelloKinds, FPs

LEMMA PaInit_Inv == PairInit => PaInv
<1> SUFFICES ASSUME PairInit PROVE PaInv
  OBVIOUS
<1>1. request \in Seq(PaReqs) /\ Len(request) = 0
  BY EmptySeq DEF PairInit
<1>2. PaTyped
  BY <1>1, PaIdle DEF PairInit, PaTyped
<1>3. PaTable /\ PaGiven /\ \A d \in PairDials : dial[d].pc = "idle"
  BY PaIdle DEF PairInit, PaTable, PaGiven, Approved
<1> QED BY <1>2, <1>3 DEF PaInv, PaDial

\* A step that leaves requests, approvals and the table alone.
LEMMA PaQuiet ==
  ASSUME PaInv, UNCHANGED <<request, pairs, approvals, spent>>
  PROVE  /\ request' \in Seq(PaReqs) /\ spent' \subseteq 1..Len(request')
         /\ pairs' \in [FPs -> Nat] /\ approvals' \in [FPs -> Nat]
         /\ PaTable' /\ PaGiven' /\ PaGrows
<1>1. PICK X \in SUBSET (1..Len(request)) : X = {}
  OBVIOUS
<1>2. Portal \in FPs /\ spent' = spent \cup X /\ \A x \in X : request[x].fp = Portal /\ pairs'[Portal] # x
  BY <1>1 DEF FPs
<1>3. UNCHANGED <<request, approvals>> /\ (pairs' = pairs \/ pairs' = [pairs EXCEPT ![Portal] = 0])
  OBVIOUS
<1> QED BY <1>2, <1>3, PaTakes

\* A dial that is over has nothing to keep.
LEMMA PaGoesIdle ==
  ASSUME PaInv, NEW d \in PairDials, dial' = [dial EXCEPT ![d] = Idle]
  PROVE  PaDial(d)'
<1>1. dial'[d] = Idle
  BY DEF PaInv, PaTyped
<1> QED BY <1>1, PaIdle DEF PaDial

LEMMA PaHello_Inv ==
  ASSUME PaInv, NEW d \in PairDials, NEW f \in FPs, NEW what \in HelloKinds, NEW auth \in Auths,
         NEW label \in BOOLEAN, Hello(d, f, what, auth, label)
  PROVE  PaInv'
<1>1. UNCHANGED <<request, pairs, approvals, spent>>
  BY DEF Hello, console
<1>2. PICK n \in Nat : n = approvals[f]
  BY DEF PaInv, PaTyped
<1>3. PICK b \in Nat : /\ b = IF Approved(f) /\ pairs[f] \notin spent THEN n - 1 ELSE n
                       /\ b <= n /\ (Approved(f) => b < n)
  <2>1. Approved(f) => n > 0 /\ pairs[f] \notin spent
    BY <1>2 DEF PaInv, PaGiven, PaTable, Approved
  <2> QED BY <2>1
<1>4. PICK a \in {"once", "wait"} : a = IF auth.grant THEN "once" ELSE "wait"
  OBVIOUS
<1>5. PICK x : x = [pc |-> "authorize", fp |-> f, kind |-> what, asks |-> a, req |-> 0, base |-> b]
  OBVIOUS
<1>6. x \in PaDials
  BY <1>5 DEF PaDials, PaPlaces
<1>7. dial' = [dial EXCEPT ![d] = Idle] \/ dial' = [dial EXCEPT ![d] = x]
  BY <1>2, <1>3, <1>4, <1>5 DEF Hello
<1>8. CASE dial' = [dial EXCEPT ![d] = Idle]
  BY <1>1, <1>8, PaQuiet, PaGoesIdle, PaIdle, PaMoves
<1>9. CASE dial' = [dial EXCEPT ![d] = x]
  <2>1. dial'[d] = x
    BY <1>9 DEF PaInv, PaTyped
  <2>2. approvals'[f] = n /\ (Approved(f)' <=> Approved(f))
    BY <1>1, <1>2 DEF Approved
  <2>3. PaDial(d)'
    BY <1>3, <1>5, <2>1, <2>2 DEF PaDial
  <2> QED BY <1>1, <1>6, <1>9, <2>3, PaQuiet, PaMoves
<1> QED BY <1>7, <1>8, <1>9

\* A dial moves on, past the questions.
LEMMA PaPasses ==
  ASSUME PaInv, UNCHANGED <<request, pairs, approvals, spent>>, NEW d \in PairDials,
         NEW to \in PaPlaces, dial' = [dial EXCEPT ![d].pc = to],
         dial[d].pc # "idle",
         to \in {"admitted", "in"} \/ (to = "ask" /\ dial[d].pc = "authorize")
  PROVE  PaInv'
<1>1. PICK x \in PaDials : x = dial[d]
  BY DEF PaInv, PaTyped
<1>2. PICK t : t = [x EXCEPT !.pc = to]
  OBVIOUS
<1>3. t \in PaDials /\ t.pc = to /\ t.fp = x.fp /\ t.base = x.base /\ x.fp \in FPs
  BY <1>2 DEF PaDials
<1>4. dial' = [dial EXCEPT ![d] = t] /\ dial'[d] = t
  BY <1>1, <1>2 DEF PaInv, PaTyped
<1>5. approvals'[x.fp] = approvals[x.fp] /\ (Approved(x.fp)' <=> Approved(x.fp))
  BY DEF Approved
<1>6. x.base <= approvals[x.fp] /\ (to = "ask" /\ Approved(x.fp) => approvals[x.fp] > x.base)
  BY <1>1 DEF PaInv, PaDial
<1>7. PaDial(d)'
  BY <1>3, <1>4, <1>5, <1>6 DEF PaDial
<1> QED BY <1>3, <1>4, <1>7, PaQuiet, PaMoves

\* A dial is trusted on an approval it found or waited for.
LEMMA PaTrusts ==
  ASSUME PaInv, NEW d \in PairDials, NEW r \in Nat,
         request' \in Seq(PaReqs), spent' \subseteq 1..Len(request'),
         pairs' \in [FPs -> Nat], PaTable', PaGiven', PaGrows, UNCHANGED approvals,
         dial' = [dial EXCEPT ![d] = [dial[d] EXCEPT !.pc = "trusted", !.req = r]],
         approvals[dial[d].fp] > dial[d].base
  PROVE  PaInv'
<1>1. PICK x \in PaDials : x = dial[d]
  BY DEF PaInv, PaTyped
<1>2. PICK t : t = [x EXCEPT !.pc = "trusted", !.req = r]
  OBVIOUS
<1>3. t \in PaDials /\ t.pc = "trusted" /\ t.fp = x.fp /\ t.base = x.base /\ x.fp \in FPs /\ x.base \in Nat
  BY <1>2 DEF PaDials, PaPlaces
<1>4. dial' = [dial EXCEPT ![d] = t] /\ dial'[d] = t
  BY <1>1, <1>2 DEF PaInv, PaTyped
<1>5. approvals \in [FPs -> Nat] /\ approvals[x.fp] \in Nat
  BY <1>3 DEF PaInv, PaTyped
<1>6. PaDial(d)'
  BY <1>1, <1>3, <1>4, <1>5 DEF PaDial
<1> QED BY <1>3, <1>4, <1>5, <1>6, PaMoves

LEMMA PaCollect_Inv ==
  ASSUME PaInv, NEW d \in PairDials, Collect(d)
  PROVE  PaInv'
<1>1. PICK x \in PaDials : x = dial[d]
  BY DEF PaInv, PaTyped
<1>2. PICK f \in FPs : f = x.fp
  BY <1>1 DEF PaDials
<1>3. Approved(f) /\ pairs[f] # 0 /\ pairs[f] \in 1..Len(request) /\ request[pairs[f]].fp = f
  BY <1>1, <1>2 DEF Collect, Approved, PaInv, PaTable
<1>4. approvals[f] > x.base
  BY <1>1, <1>2, <1>3 DEF Collect, PaInv, PaDial
<1>5. PICK r \in Nat : r = pairs[f]
  BY DEF PaInv, PaTyped
<1>6. /\ UNCHANGED <<request, approvals>> /\ spent' = spent \cup {r} /\ pairs' = [pairs EXCEPT ![f] = 0]
      /\ dial' = [dial EXCEPT ![d] = [dial[d] EXCEPT !.pc = "trusted", !.req = r]]
  BY <1>1, <1>2, <1>5 DEF Collect
<1>7. pairs'[f] = 0
  BY <1>6 DEF PaInv, PaTyped
<1>8. PICK X \in SUBSET (1..Len(request)) : X = {r}
  BY <1>3, <1>5
<1>9. /\ request' \in Seq(PaReqs) /\ spent' \subseteq 1..Len(request')
      /\ pairs' \in [FPs -> Nat] /\ PaTable' /\ PaGiven' /\ PaGrows
  <2>1. \A y \in X : request[y].fp = f /\ pairs'[f] # y
    BY <1>3, <1>5, <1>7, <1>8
  <2>2. UNCHANGED <<request, approvals>> /\ spent' = spent \cup X /\ (pairs' = pairs \/ pairs' = [pairs EXCEPT ![f] = 0])
    BY <1>6, <1>8
  <2> QED BY <2>1, <2>2, PaTakes
<1> QED BY <1>1, <1>2, <1>4, <1>6, <1>9, PaTrusts

LEMMA PaVerdictComes_Inv ==
  ASSUME PaInv, NEW d \in PairDials, VerdictComes(d)
  PROVE  PaInv'
<1>1. PICK x \in PaDials : x = dial[d]
  BY DEF PaInv, PaTyped
<1>2. PICK f \in FPs, r \in Nat : f = x.fp /\ r = x.req
  BY <1>1 DEF PaDials
<1>3. x.pc = "wait"
  BY <1>1 DEF VerdictComes
<1>4. r \in 1..Len(request) /\ request[r].fp = f /\ (request[r].verdict = "yes" => approvals[f] > x.base)
  BY <1>1, <1>2, <1>3 DEF PaInv, PaDial
<1>5. /\ UNCHANGED <<request, approvals>> /\ spent' = spent \cup {r}
      /\ pairs' = IF pairs[f] = r THEN [pairs EXCEPT ![f] = 0] ELSE pairs
  BY <1>1, <1>2 DEF VerdictComes
<1>6. dial' = [dial EXCEPT ![d] = Idle]
      \/ (request[r].verdict = "yes" /\ dial' = [dial EXCEPT ![d] = [x EXCEPT !.pc = "trusted"]])
  <2>1. dial' = [dial EXCEPT ![d] = IF request[r].verdict = "yes" THEN [x EXCEPT !.pc = "trusted"] ELSE Idle]
    BY <1>1, <1>2 DEF VerdictComes
  <2>2. PICK y : y = IF request[r].verdict = "yes" THEN [x EXCEPT !.pc = "trusted"] ELSE Idle
    OBVIOUS
  <2>3. dial' = [dial EXCEPT ![d] = y]
    BY <2>1, <2>2
  <2>4. y = Idle \/ (request[r].verdict = "yes" /\ y = [x EXCEPT !.pc = "trusted"])
    BY <2>2
  <2> QED BY <2>3, <2>4
<1>7. pairs' = pairs \/ pairs' = [pairs EXCEPT ![f] = 0]
  BY <1>5
<1>8. pairs'[f] # r
  <2>1. r # 0 /\ pairs \in [FPs -> Nat]
    BY <1>4 DEF PaInv, PaTyped
  <2> QED BY <1>5, <2>1
<1>9. PICK X \in SUBSET (1..Len(request)) : X = {r}
  BY <1>4
<1>10. /\ request' \in Seq(PaReqs) /\ spent' \subseteq 1..Len(request')
       /\ pairs' \in [FPs -> Nat] /\ approvals' \in [FPs -> Nat] /\ PaTable' /\ PaGiven' /\ PaGrows
  <2>1. \A y \in X : request[y].fp = f /\ pairs'[f] # y
    BY <1>4, <1>8, <1>9
  <2>2. UNCHANGED <<request, approvals>> /\ spent' = spent \cup X
    BY <1>5, <1>9
  <2> QED BY <1>7, <2>1, <2>2, PaTakes
<1>11. CASE dial' = [dial EXCEPT ![d] = Idle]
  BY <1>10, <1>11, PaGoesIdle, PaIdle, PaMoves
<1>12. CASE request[r].verdict = "yes" /\ dial' = [dial EXCEPT ![d] = [x EXCEPT !.pc = "trusted"]]
  <2>1. [x EXCEPT !.pc = "trusted"] = [x EXCEPT !.pc = "trusted", !.req = r]
    BY <1>2 DEF PaDials
  <2> QED BY <1>1, <1>2, <1>4, <1>5, <1>10, <1>12, <2>1, PaTrusts
<1> QED BY <1>6, <1>11, <1>12

\* A dial waits for a request of its controller's that is open.
LEMMA PaWaits ==
  ASSUME PaInv, NEW d \in PairDials, NEW r \in Nat,
         request' \in Seq(PaReqs), spent' \subseteq 1..Len(request'),
         pairs' \in [FPs -> Nat], PaTable', PaGiven', PaGrows, UNCHANGED approvals,
         dial[d].pc = "ask",
         \/ dial' = [dial EXCEPT ![d] = Idle]
         \/ dial' = [dial EXCEPT ![d] = [dial[d] EXCEPT !.pc = "wait", !.req = r]],
         r \in 1..Len(request'), request'[r].fp = dial[d].fp, request'[r].verdict = "open"
  PROVE  PaInv'
<1>1. PICK x \in PaDials : x = dial[d]
  BY DEF PaInv, PaTyped
<1>2. PICK t : t = [x EXCEPT !.pc = "wait", !.req = r]
  OBVIOUS
<1>3. t \in PaDials /\ t.pc = "wait" /\ t.fp = x.fp /\ t.base = x.base /\ t.req = r /\ x.fp \in FPs
  BY <1>2 DEF PaDials, PaPlaces
<1>4. approvals' \in [FPs -> Nat]
  BY DEF PaInv, PaTyped
<1>5. CASE dial' = [dial EXCEPT ![d] = Idle]
  BY <1>4, <1>5, PaGoesIdle, PaIdle, PaMoves
<1>6. CASE dial' = [dial EXCEPT ![d] = [dial[d] EXCEPT !.pc = "wait", !.req = r]]
  <2>1. dial' = [dial EXCEPT ![d] = t] /\ dial'[d] = t
    BY <1>1, <1>2, <1>6 DEF PaInv, PaTyped
  <2>2. x.base <= approvals[x.fp]
    BY <1>1 DEF PaInv, PaDial
  <2>3. PaDial(d)'
    BY <1>1, <1>3, <2>1, <2>2 DEF PaDial
  <2> QED BY <1>3, <1>4, <2>1, <2>3, PaMoves
<1> QED BY <1>5, <1>6

\* A request is made.
LEMMA PaAsked ==
  ASSUME PaInv, NEW f \in FPs, ~Waiting(f), ~Approved(f),
         request' = Append(request, [fp |-> f, verdict |-> "open"]),
         pairs' = [pairs EXCEPT ![f] = Len(request) + 1], UNCHANGED <<approvals, spent>>
  PROVE  /\ request' \in Seq(PaReqs) /\ spent' \subseteq 1..Len(request')
         /\ pairs' \in [FPs -> Nat] /\ PaTable' /\ PaGiven' /\ PaGrows
         /\ Len(request) + 1 \in 1..Len(request') /\ Len(request) + 1 \in Nat
         /\ request'[Len(request) + 1].fp = f /\ request'[Len(request) + 1].verdict = "open"
<1>1. PICK q \in PaReqs : q = [fp |-> f, verdict |-> "open"]
  BY DEF PaReqs, Verdicts
<1>2. PICK n \in Nat : n = Len(request)
  BY LenProperties DEF PaInv, PaTyped
<1>3. /\ request' \in Seq(PaReqs) /\ Len(request') = n + 1 /\ request'[n + 1] = q
      /\ \A i \in 1..n : request'[i] = request[i]
  BY <1>1, <1>2, AppendProperties DEF PaInv, PaTyped
<1>4. pairs' \in [FPs -> Nat] /\ pairs'[f] = n + 1 /\ \A g \in FPs \ {f} : pairs'[g] = pairs[g]
  BY <1>2 DEF PaInv, PaTyped
<1>5. spent' = spent /\ spent \subseteq 1..n
  BY <1>2 DEF PaInv, PaTyped
<1>6. PaTable'
  <2>1. ASSUME NEW g \in FPs, pairs'[g] # 0
        PROVE  pairs'[g] \in 1..Len(request') /\ request'[pairs'[g]].fp = g /\ pairs'[g] \notin spent'
    <3>1. CASE g = f
      BY <1>1, <1>2, <1>3, <1>4, <1>5, <3>1
    <3>2. CASE g # f
      <4>1. pairs'[g] = pairs[g] /\ pairs[g] \in 1..n /\ request[pairs[g]].fp = g /\ pairs[g] \notin spent
        BY <1>2, <1>4, <2>1, <3>2 DEF PaInv, PaTable
      <4> QED BY <1>2, <1>3, <1>5, <4>1
    <3> QED BY <3>1, <3>2
  <2> QED BY <2>1 DEF PaTable
<1>7. ASSUME NEW g \in FPs, Approved(g)' PROVE Approved(g)
  <2>1. g # f
    BY <1>1, <1>3, <1>4, <1>7 DEF Approved
  <2>2. pairs'[g] = pairs[g] /\ pairs[g] # 0 /\ request'[pairs[g]].verdict = "yes"
    BY <1>4, <1>7, <2>1 DEF Approved
  <2>3. pairs[g] \in 1..n
    BY <1>2, <2>2 DEF PaInv, PaTable
  <2> QED BY <1>3, <2>2, <2>3 DEF Approved
<1>8. PaGiven'
  BY <1>7 DEF PaInv, PaGiven
<1>9. PaGrows
  <2>1. \A g \in FPs : approvals'[g] >= approvals[g]
    BY DEF PaInv, PaTyped
  <2> QED BY <1>2, <1>3, <1>7, <2>1 DEF PaGrows
<1> QED BY <1>1, <1>2, <1>3, <1>4, <1>5, <1>6, <1>8, <1>9

LEMMA PaAskPair_Inv ==
  ASSUME PaInv, NEW d \in PairDials, AskPair(d)
  PROVE  PaInv'
<1>1. PICK x \in PaDials : x = dial[d]
  BY DEF PaInv, PaTyped
<1>2. PICK f \in FPs : f = x.fp
  BY <1>1 DEF PaDials
<1>3. x.pc = "ask" /\ ~Approved(f) /\ UNCHANGED <<approvals, spent>>
  BY <1>1, <1>2 DEF AskPair
<1>4. ASSUME NEW r \in Nat,
             dial' = [dial EXCEPT ![d] = IF x.asks = "wait" /\ frontends # {}
                                         THEN [x EXCEPT !.pc = "wait", !.req = r] ELSE Idle]
      PROVE  \/ dial' = [dial EXCEPT ![d] = Idle]
             \/ dial' = [dial EXCEPT ![d] = [x EXCEPT !.pc = "wait", !.req = r]]
  BY <1>4
<1>5. CASE Waiting(f) /\ UNCHANGED console
           /\ dial' = [dial EXCEPT ![d] = IF x.asks = "wait" /\ frontends # {}
                                          THEN [x EXCEPT !.pc = "wait", !.req = pairs[f]] ELSE Idle]
  <2>1. UNCHANGED <<request, pairs, approvals, spent>>
    BY <1>3, <1>5 DEF console
  <2>2. PICK r \in Nat : r = pairs[f]
    BY DEF PaInv, PaTyped
  <2>3. /\ request' \in Seq(PaReqs) /\ spent' \subseteq 1..Len(request')
        /\ pairs' \in [FPs -> Nat] /\ PaTable' /\ PaGiven' /\ PaGrows
    BY <2>1, PaQuiet
  <2>4. r \in 1..Len(request') /\ request'[r].fp = x.fp /\ request'[r].verdict = "open"
    BY <1>2, <1>5, <2>1, <2>2 DEF Waiting, PaInv, PaTable
  <2>5. dial' = [dial EXCEPT ![d] = Idle] \/ dial' = [dial EXCEPT ![d] = [x EXCEPT !.pc = "wait", !.req = r]]
    BY <1>4, <1>5, <2>2
  <2> QED BY <1>1, <1>3, <2>3, <2>4, <2>5, PaWaits
<1>6. CASE /\ ~Waiting(f)
           /\ request' = Append(request, [fp |-> f, verdict |-> "open"])
           /\ pairs' = [pairs EXCEPT ![f] = Len(request) + 1]
           /\ dial' = [dial EXCEPT ![d] = IF x.asks = "wait" /\ frontends # {}
                                          THEN [x EXCEPT !.pc = "wait", !.req = Len(request) + 1] ELSE Idle]
  <2>1. /\ request' \in Seq(PaReqs) /\ spent' \subseteq 1..Len(request')
        /\ pairs' \in [FPs -> Nat] /\ PaTable' /\ PaGiven' /\ PaGrows
        /\ Len(request) + 1 \in 1..Len(request') /\ Len(request) + 1 \in Nat
        /\ request'[Len(request) + 1].fp = f /\ request'[Len(request) + 1].verdict = "open"
    BY <1>3, <1>6, PaAsked
  <2>2. PICK r \in Nat : r = Len(request) + 1
    BY <2>1
  <2>3. dial' = [dial EXCEPT ![d] = Idle] \/ dial' = [dial EXCEPT ![d] = [x EXCEPT !.pc = "wait", !.req = r]]
    BY <1>4, <1>6, <2>2
  <2> QED BY <1>1, <1>2, <1>3, <2>1, <2>2, <2>3, PaWaits
<1>7. CASE dial' = [dial EXCEPT ![d] = Idle] /\ UNCHANGED console
  BY <1>3, <1>7, PaQuiet, PaGoesIdle, PaIdle, PaMoves DEF console
<1> QED BY <1>1, <1>2, <1>5, <1>6, <1>7 DEF AskPair

\* The owner's verdict: the request of f that waits has one, and f one approval more
\* when it is "yes".
LEMMA PaDecide_Inv ==
  ASSUME PaInv, NEW f \in FPs, NEW trust \in BOOLEAN, DecidePair(f, trust)
  PROVE  PaInv'
<1>1. PICK n \in Nat, r \in 1..Len(request) : n = Len(request) /\ r = pairs[f]
  BY LenProperties DEF DecidePair, Waiting, PaInv, PaTyped, PaTable
<1>2. r # 0 /\ request[r].fp = f /\ request[r].verdict = "open" /\ r \notin spent
  BY <1>1 DEF DecidePair, Waiting, PaInv, PaTable
<1>3. PICK q \in PaReqs : q = request[r]
  BY <1>1, ElementOfSeq DEF PaInv, PaTyped
<1>4. PICK v \in {"yes", "no"} : v = IF trust THEN "yes" ELSE "no"
  OBVIOUS
<1>5. PICK t : t = [q EXCEPT !.verdict = v]
  OBVIOUS
<1>6. t \in PaReqs /\ t.fp = f /\ t.verdict = v
  BY <1>2, <1>3, <1>5 DEF PaReqs, Verdicts
<1>7. request' = [request EXCEPT ![r] = t]
  BY <1>1, <1>3, <1>4, <1>5 DEF DecidePair
<1>8. /\ request' \in Seq(PaReqs) /\ Len(request') = n /\ request'[r] = t
      /\ \A i \in 1..n \ {r} : request'[i] = request[i]
  BY <1>1, <1>6, <1>7, ExceptSeq, LenProperties DEF PaInv, PaTyped
<1>9. /\ pairs' \in [FPs -> Nat] /\ pairs'[f] = (IF trust THEN r ELSE 0)
      /\ \A g \in FPs \ {f} : pairs'[g] = pairs[g]
  <2>1. pairs' = IF trust THEN pairs ELSE [pairs EXCEPT ![f] = 0]
    BY DEF DecidePair
  <2> QED BY <1>1, <2>1 DEF PaInv, PaTyped
<1>10. /\ approvals' \in [FPs -> Nat] /\ approvals'[f] = (IF trust THEN approvals[f] + 1 ELSE approvals[f])
       /\ \A g \in FPs \ {f} : approvals'[g] = approvals[g]
  <2>1. approvals' = IF trust THEN [approvals EXCEPT ![f] = approvals[f] + 1] ELSE approvals
    BY DEF DecidePair
  <2> QED BY <2>1 DEF PaInv, PaTyped
<1>11. UNCHANGED <<spent, dial>> /\ spent \subseteq 1..n
  BY <1>1 DEF DecidePair, PaInv, PaTyped
<1>12. PaTable'
  <2>1. ASSUME NEW g \in FPs, pairs'[g] # 0
        PROVE  pairs'[g] \in 1..Len(request') /\ request'[pairs'[g]].fp = g /\ pairs'[g] \notin spent'
    <3>1. CASE g = f
      BY <1>1, <1>2, <1>6, <1>8, <1>9, <1>11, <2>1, <3>1
    <3>2. CASE g # f
      <4>1. pairs'[g] = pairs[g] /\ pairs[g] \in 1..n /\ request[pairs[g]].fp = g /\ pairs[g] \notin spent
        BY <1>1, <1>9, <2>1, <3>2 DEF PaInv, PaTable
      <4>2. pairs[g] # r
        BY <1>2, <3>2, <4>1
      <4> QED BY <1>8, <1>11, <4>1, <4>2
    <3> QED BY <3>1, <3>2
  <2> QED BY <2>1 DEF PaTable
<1>13. ASSUME NEW g \in FPs, Approved(g)' PROVE Approved(g) \/ (g = f /\ trust)
  <2>1. CASE g = f
    BY <1>9, <1>13, <2>1 DEF Approved
  <2>2. CASE g # f
    <3>1. pairs'[g] = pairs[g] /\ pairs[g] # 0 /\ request'[pairs[g]].verdict = "yes"
      BY <1>9, <1>13, <2>2 DEF Approved
    <3>2. pairs[g] \in 1..n /\ request[pairs[g]].fp = g
      BY <1>1, <3>1 DEF PaInv, PaTable
    <3>3. pairs[g] # r
      BY <1>2, <2>2, <3>2
    <3> QED BY <1>8, <3>1, <3>2, <3>3 DEF Approved
  <2> QED BY <2>1, <2>2
<1>14. \A g \in FPs : approvals'[g] >= approvals[g] /\ approvals[g] \in Nat /\ (g = f /\ trust => approvals'[g] > approvals[g])
  BY <1>10 DEF PaInv, PaTyped
<1>15. PaGiven'
  <2>1. ASSUME NEW g \in FPs, Approved(g)' PROVE approvals'[g] > 0
    <3>1. PICK a \in Nat, b \in Nat : a = approvals[g] /\ b = approvals'[g]
      BY <1>10 DEF PaInv, PaTyped
    <3>2. Approved(g) => a > 0
      BY <3>1 DEF PaInv, PaGiven
    <3> QED BY <1>13, <1>14, <2>1, <3>1, <3>2
  <2> QED BY <2>1 DEF PaGiven
<1>16. PaGrows
  <2>1. \A g \in FPs : Approved(g)' => Approved(g) \/ approvals'[g] > approvals[g]
    BY <1>13, <1>14
  <2>2. ASSUME NEW i \in 1..Len(request)
        PROVE  /\ i \in 1..Len(request') /\ request'[i].fp = request[i].fp
               /\ request'[i].verdict = "yes"
                    => request[i].verdict = "yes" \/ approvals'[request[i].fp] > approvals[request[i].fp]
    <3>1. CASE i = r
      BY <1>1, <1>2, <1>4, <1>6, <1>8, <1>14, <3>1
    <3>2. CASE i # r
      BY <1>1, <1>8, <3>2
    <3> QED BY <3>1, <3>2
  <2> QED BY <1>14, <2>1, <2>2 DEF PaGrows
<1> QED BY <1>1, <1>8, <1>9, <1>10, <1>11, <1>12, <1>15, <1>16, PaRests

LEMMA PaNext_Inv == PaInv /\ [PairNext]_pairVars => PaInv'
<1> SUFFICES ASSUME PaInv, [PairNext]_pairVars PROVE PaInv'
  OBVIOUS
<1>1. CASE UNCHANGED pairVars
  BY <1>1, PaQuiet, PaRests DEF pairVars
<1>2. ASSUME NEW d \in PairDials, KnownGoesIn(d) \/ RecordTrust(d) PROVE PaInv'
  <2>1. UNCHANGED <<request, pairs, approvals, spent>> /\ dial' = [dial EXCEPT ![d].pc = "admitted"]
        /\ dial[d].pc # "idle" /\ "admitted" \in PaPlaces
    BY <1>2 DEF KnownGoesIn, RecordTrust, console, PaPlaces
  <2> QED BY <2>1, PaPasses
<1>3. ASSUME NEW d \in PairDials, NotKnown(d) PROVE PaInv'
  <2>1. UNCHANGED <<request, pairs, approvals, spent>> /\ dial' = [dial EXCEPT ![d].pc = "ask"]
        /\ dial[d].pc = "authorize" /\ "ask" \in PaPlaces
    BY <1>3 DEF NotKnown, console, PaPlaces
  <2> QED BY <2>1, PaPasses
<1>4. ASSUME NEW d \in PairDials, WaitRunsOut(d) PROVE PaInv'
  BY <1>4, PaQuiet, PaGoesIdle, PaIdle, PaMoves DEF WaitRunsOut, console
<1>5. ASSUME NEW d \in PairDials, NEW yes \in BOOLEAN, LetIn(d, yes) PROVE PaInv'
  <2>1. UNCHANGED <<request, pairs, approvals, spent>> /\ dial[d].pc # "idle" /\ "in" \in PaPlaces
    BY <1>5 DEF LetIn, console, PaPlaces
  <2>2. PICK x \in PaDials : x = dial[d]
    BY DEF PaInv, PaTyped
  <2>3. dial' = [dial EXCEPT ![d] = IF x.kind = "workspace" => yes /\ x.asks = "wait" /\ x.fp \in known
                                    THEN [x EXCEPT !.pc = "in"] ELSE Idle]
    BY <1>5, <2>2 DEF LetIn
  <2>4. dial' = [dial EXCEPT ![d] = Idle] \/ dial' = [dial EXCEPT ![d] = [x EXCEPT !.pc = "in"]]
    BY <2>3
  <2>5. CASE dial' = [dial EXCEPT ![d] = Idle]
    BY <2>1, <2>5, PaQuiet, PaGoesIdle, PaIdle, PaMoves
  <2>6. CASE dial' = [dial EXCEPT ![d].pc = "in"]
    BY <2>1, <2>6, PaPasses
  <2> QED BY <2>2, <2>4, <2>5, <2>6
<1>6. ASSUME NEW d \in PairDials, Serve(d) PROVE PaInv'
  <2>1. UNCHANGED <<request, pairs, approvals, spent>>
    BY <1>6 DEF Serve, console
  <2>2. dial' = dial \/ dial' = [dial EXCEPT ![d] = Idle]
    BY <1>6 DEF Serve
  <2> QED BY <2>1, <2>2, PaQuiet, PaGoesIdle, PaIdle, PaMoves, PaRests
<1>7. ASSUME NEW f \in FPs, NotifyWindowOver(f) \/ TrustRevoke(f) PROVE PaInv'
  BY <1>7, PaQuiet, PaRests DEF NotifyWindowOver, TrustRevoke, console
<1>8. ASSUME NEW f \in FPs, PruneExpired(f) PROVE PaInv'
  <2>1. PICK X \in SUBSET (1..Len(request)) : X = {}
    OBVIOUS
  <2>2. UNCHANGED <<request, approvals>> /\ spent' = spent \cup X /\ pairs' = [pairs EXCEPT ![f] = 0] /\ UNCHANGED dial
    BY <1>8, <2>1 DEF PruneExpired
  <2>3. \A x \in X : request[x].fp = f /\ pairs'[f] # x
    BY <2>1
  <2>4. /\ request' \in Seq(PaReqs) /\ spent' \subseteq 1..Len(request')
        /\ pairs' \in [FPs -> Nat] /\ approvals' \in [FPs -> Nat] /\ PaTable' /\ PaGiven' /\ PaGrows
    <3>1. UNCHANGED <<request, approvals>> /\ spent' = spent \cup X
      BY <2>2
    <3>2. pairs' = pairs \/ pairs' = [pairs EXCEPT ![f] = 0]
      BY <2>2
    <3>3. approvals' \in [FPs -> Nat]
      BY <3>1 DEF PaInv, PaTyped
    <3> QED BY <2>3, <3>1, <3>2, <3>3, PaTakes
  <2> QED BY <2>2, <2>4, PaRests
<1> QED BY <1>1, <1>2, <1>3, <1>4, <1>5, <1>6, <1>7, <1>8, PaHello_Inv, PaCollect_Inv, PaAskPair_Inv, PaVerdictComes_Inv, PaDecide_Inv
        DEF PairNext, DialStep

\* PortalAdmins.Remove, known_clients: what a step does to who is known.
LEMMA PaAdmins_Inv ==
  AdminsStayKnown /\ [PairNext]_pairVars => AdminsStayKnown'
<1> SUFFICES ASSUME AdminsStayKnown, [PairNext]_pairVars PROVE AdminsStayKnown'
  OBVIOUS
<1>1. ASSUME NEW f \in FPs, TrustRevoke(f) PROVE AdminsStayKnown'
  BY <1>1 DEF TrustRevoke, RemovableAdmin, AdminsStayKnown
<1>2. CASE known \subseteq known' /\ admins' = admins
  BY <1>2 DEF AdminsStayKnown
<1>3. ASSUME NEW d \in PairDials, DialStep(d) \/ Serve(d) PROVE known \subseteq known' /\ admins' = admins
  BY <1>3 DEF DialStep, Serve, KnownGoesIn, NotKnown, Collect, AskPair, VerdictComes, WaitRunsOut, RecordTrust, LetIn
<1>4. ASSUME NEW d \in PairDials, NEW f \in FPs, NEW what \in HelloKinds, NEW auth \in Auths, NEW label \in BOOLEAN,
             Hello(d, f, what, auth, label)
      PROVE  known \subseteq known' /\ admins' = admins
  BY <1>4 DEF Hello
<1>5. ASSUME NEW f \in FPs, NEW trust \in BOOLEAN, PruneExpired(f) \/ NotifyWindowOver(f) \/ DecidePair(f, trust)
      PROVE  known \subseteq known' /\ admins' = admins
  BY <1>5 DEF PruneExpired, NotifyWindowOver, DecidePair
<1>6. CASE UNCHANGED pairVars
  BY <1>6 DEF pairVars, AdminsStayKnown
<1> QED BY <1>1, <1>2, <1>3, <1>4, <1>5, <1>6 DEF PairNext

\* What a waiting request of f can meet.
PaOutlives(f) ==
  Waiting(f) /\ pairs'[f] # pairs[f] => request'[pairs[f]].verdict # "open" \/ PruneExpired(f)

LEMMA PaWaitingStays ==
  ASSUME PaInv, PairNext, NEW f \in FPs
  PROVE  PaOutlives(f)
<1> SUFFICES ASSUME Waiting(f), pairs'[f] # pairs[f]
             PROVE  request'[pairs[f]].verdict # "open" \/ PruneExpired(f)
  BY DEF PaOutlives
<1>1. pairs \in [FPs -> Nat] /\ request[pairs[f]].verdict = "open" /\ ~UNCHANGED pairs
  BY DEF PaInv, PaTyped, Waiting
<1>2. ASSUME NEW d \in PairDials PROVE ~Collect(d)
  <2>1. SUFFICES ASSUME Collect(d) PROVE FALSE
    OBVIOUS
  <2>2. PICK g : g = dial[d].fp /\ Approved(g) /\ pairs' = [pairs EXCEPT ![g] = 0]
    BY <2>1 DEF Collect
  <2>3. g = f
    BY <1>1, <2>2
  <2> QED BY <1>1, <2>2, <2>3 DEF Approved
<1>3. ASSUME NEW d \in PairDials PROVE ~AskPair(d)
  <2>1. SUFFICES ASSUME AskPair(d) PROVE FALSE
    OBVIOUS
  <2>2. PICK g, n : g = dial[d].fp /\ ~Waiting(g) /\ pairs' = [pairs EXCEPT ![g] = n]
    BY <1>1, <2>1 DEF AskPair, console
  <2>3. g = f
    BY <1>1, <2>2
  <2> QED BY <2>2, <2>3
<1>4. ASSUME NEW d \in PairDials PROVE ~VerdictComes(d)
  <2>1. SUFFICES ASSUME VerdictComes(d) PROVE FALSE
    OBVIOUS
  <2>2. PICK g, r : /\ g = dial[d].fp /\ r = dial[d].req /\ request[r].verdict # "open"
                    /\ pairs' = IF pairs[g] = r THEN [pairs EXCEPT ![g] = 0] ELSE pairs
    BY <2>1 DEF VerdictComes
  <2>3. g = f /\ pairs[g] = r
    BY <1>1, <2>2
  <2> QED BY <1>1, <2>2, <2>3
<1>5. ASSUME NEW d \in PairDials
      PROVE ~(KnownGoesIn(d) \/ NotKnown(d) \/ WaitRunsOut(d) \/ RecordTrust(d) \/ Serve(d) \/ \E yes \in BOOLEAN : LetIn(d, yes))
  BY <1>1 DEF KnownGoesIn, NotKnown, WaitRunsOut, RecordTrust, Serve, LetIn, console
<1>6. ASSUME NEW d \in PairDials, NEW g \in FPs, NEW what \in HelloKinds, NEW auth \in Auths, NEW label \in BOOLEAN
      PROVE  ~Hello(d, g, what, auth, label)
  BY <1>1 DEF Hello, console
<1>7. ASSUME NEW g \in FPs, NotifyWindowOver(g) \/ TrustRevoke(g) PROVE FALSE
  BY <1>1, <1>7 DEF NotifyWindowOver, TrustRevoke, console
<1>8. ASSUME NEW g \in FPs, PruneExpired(g) PROVE PruneExpired(f)
  <2>1. g = f
    BY <1>1, <1>8 DEF PruneExpired
  <2> QED BY <1>8, <2>1
<1>9. ASSUME NEW g \in FPs, NEW trust \in BOOLEAN, DecidePair(g, trust)
      PROVE  request'[pairs[f]].verdict # "open"
  <2>1. pairs' = [pairs EXCEPT ![g] = 0]
        /\ request' = [request EXCEPT ![pairs[g]].verdict = IF trust THEN "yes" ELSE "no"]
    BY <1>1, <1>9 DEF DecidePair
  <2>2. g = f
    BY <1>1, <2>1
  <2>3. PICK r \in 1..Len(request) : r = pairs[f]
    BY DEF Waiting, PaInv, PaTable
  <2>4. PICK q \in PaReqs : q = request[r] /\ r \in DOMAIN request
    BY <2>3, ElementOfSeq, LenProperties DEF PaInv, PaTyped
  <2>5. PICK t : t = [q EXCEPT !.verdict = IF trust THEN "yes" ELSE "no"]
    OBVIOUS
  <2>6. request' = [request EXCEPT ![r] = t] /\ t.verdict # "open"
    BY <2>1, <2>2, <2>3, <2>4, <2>5 DEF PaReqs
  <2>7. request'[r] = t
    BY <2>3, <2>4, <2>6, ExceptSeq DEF PaInv, PaTyped
  <2> QED BY <2>3, <2>6, <2>7
<1> QED BY <1>2, <1>3, <1>4, <1>5, <1>6, <1>7, <1>8, <1>9 DEF PairNext, DialStep

\* console.go and agent.go: a controller is trusted on an approval of the owner's
\* that was still to be used, so one that was revoked needs another; an open
\* request stays until it has a verdict or expires; and whoever administers the
\* device is known to it.
THEOREM PairingKeepsTrust == PairSpec => PairingSafe
<1>1. PaInv => RevokedNeedsOwner
  BY DEF PaInv, PaDial, RevokedNeedsOwner
<1>2. PairInit => AdminsStayKnown
  BY DEF PairInit, AdminsStayKnown
<1>3. PaInv /\ [PairNext]_pairVars =>
        [\A f \in FPs : Waiting(f) /\ pairs'[f] # pairs[f]
           => request'[pairs[f]].verdict # "open" \/ PruneExpired(f)]_pairVars
  BY PaWaitingStays DEF PaOutlives
<1> QED BY <1>1, <1>2, <1>3, PaInit_Inv, PaNext_Inv, PaAdmins_Inv, PTL DEF PairSpec, PairingSafe, RequestOutlivesDial

----------------------------------------------------------------------------
(* OAuth grants *)

\* A set no two of whose members differ has at most one.
LEMMA AtMostOne ==
  ASSUME NEW S, \A x, y \in S : x = y
  PROVE  Cardinality(S) \in 0 .. 1 /\ (S = {} => Cardinality(S) = 0)
<1>1. CASE S = {}
  BY <1>1, FS_EmptySet
<1>2. CASE S # {}
  <2>0. PICK x : x \in S
    BY <1>2
  <2>1. S = {x}
    BY <2>0
  <2>2. Cardinality(S) = 1
    BY <2>1, FS_Singleton, Zenon
  <2> QED BY <1>2, <2>2
<1> QED BY <1>1, <1>2

\* A request that will write a refresh token of the consent.
OaHeirs == {"mint", "write", "put"}
OaHeir(k, c) == oaCall[k].at \in OaHeirs /\ oaCall[k].c = c

\* The consent has not been redeemed.
OaOpen(c) == oaLogin[c] # "over"

OaPlaces == {"code", "redeem", "revoke", "rotate", "revokeToken"} \union OaHeirs

OaTyped ==
  /\ DOMAIN oaLogin = OaClients /\ oaTok = [c \in OaClients |-> oaTok[c]]
  /\ oaLive = [c \in OaClients |-> oaLive[c]]
  /\ oaCall \in [OaCalls -> {OaIdle} \union [at : OaPlaces, c : OaClients, n : Nat]]

\* What one consent is worth: one refresh token or one request that writes the
\* next, and before it is redeemed neither, nor a token.
OaConsent(c) ==
  /\ OaOpen(c) => oaLive[c] = {} /\ oaTok[c] = "none" /\ \A k \in OaCalls : ~OaHeir(k, c)
  /\ \A n, m \in oaLive[c] : n = m
  /\ \A k \in OaCalls : OaHeir(k, c) => oaLive[c] = {} /\ (oaCall[k].at = "mint" => oaTok[c] = "none")
  /\ \A k, l \in OaCalls : OaHeir(k, c) /\ OaHeir(l, c) => k = l

OaInv == OaTyped /\ \A c \in OaClients : OaConsent(c)

LEMMA OaInit_Inv == OaInit => OaInv
BY DEF OaInit, OaInv, OaTyped, OaConsent, OaOpen, OaHeir, OaHeirs, OaIdle

\* A step after which no consent is worth more keeps the invariant.
OaNoMore(c) ==
  /\ OaOpen(c)' => OaOpen(c)
  /\ oaLive'[c] \subseteq oaLive[c]
  /\ oaTok[c] = "none" => oaTok'[c] = "none"
  /\ \A k \in OaCalls : OaHeir(k, c)' => OaHeir(k, c) /\ (oaCall'[k].at = "mint" => oaCall[k].at = "mint")

LEMMA OaStays ==
  ASSUME OaInv, OaTyped', NEW c \in OaClients, OaNoMore(c)
  PROVE  OaConsent(c)'
<1>1. /\ OaOpen(c)' => oaLive'[c] = {} /\ oaTok'[c] = "none" /\ \A k \in OaCalls : ~OaHeir(k, c)'
  BY DEF OaInv, OaConsent, OaNoMore
<1>2. \A n, m \in oaLive'[c] : n = m
  BY DEF OaInv, OaConsent, OaNoMore
<1>3. \A k \in OaCalls : OaHeir(k, c)' => oaLive'[c] = {} /\ (oaCall'[k].at = "mint" => oaTok'[c] = "none")
  BY DEF OaInv, OaConsent, OaNoMore
<1>4. \A k, l \in OaCalls : OaHeir(k, c)' /\ OaHeir(l, c)' => k = l
  BY DEF OaInv, OaConsent, OaNoMore
<1> QED BY <1>1, <1>2, <1>3, <1>4 DEF OaConsent

\* A request that ends, and one that moves on.
LEMMA OaEnds ==
  ASSUME OaInv, NEW k \in OaCalls, OaRefused(k)
  PROVE  /\ oaCall' \in [OaCalls -> {OaIdle} \union [at : OaPlaces, c : OaClients, n : Nat]]
         /\ \A c \in OaClients, l \in OaCalls : OaHeir(l, c)' => l # k /\ OaHeir(l, c) /\ oaCall'[l] = oaCall[l]
BY DEF OaInv, OaTyped, OaRefused, OaHeir, OaHeirs, OaIdle

LEMMA OaMoves ==
  ASSUME OaInv, NEW k \in OaCalls, oaCall[k] # OaIdle, NEW at \in OaPlaces, OaGoes(k, at)
  PROVE  /\ oaCall[k].c \in OaClients
         /\ oaCall' \in [OaCalls -> {OaIdle} \union [at : OaPlaces, c : OaClients, n : Nat]]
         /\ oaCall'[k].at = at /\ oaCall'[k].c = oaCall[k].c
         /\ \A c \in OaClients, l \in OaCalls : OaHeir(l, c)' /\ l # k => OaHeir(l, c) /\ oaCall'[l] = oaCall[l]
         /\ \A c \in OaClients : OaHeir(k, c)' <=> c = oaCall[k].c /\ at \in OaHeirs
<1>0. oaCall[k] \in [at : OaPlaces, c : OaClients, n : Nat]
  BY DEF OaInv, OaTyped
<1>1. PICK z : z = [oaCall[k] EXCEPT !.at = at]
  OBVIOUS
<1>2. z \in [at : OaPlaces, c : OaClients, n : Nat] /\ z.at = at /\ z.c = oaCall[k].c
  BY <1>0, <1>1
<1>3. oaCall' = [oaCall EXCEPT ![k] = z]
  BY <1>1 DEF OaGoes
<1>4. oaCall \in [OaCalls -> {OaIdle} \union [at : OaPlaces, c : OaClients, n : Nat]]
  BY DEF OaInv, OaTyped
<1> QED BY <1>0, <1>2, <1>3, <1>4 DEF OaHeir

\* A step of one request.
LEMMA OaCallStep ==
  ASSUME OaInv, NEW k \in OaCalls,
         OaTakeCode(k) \/ OaIssueToken(k) \/ OaRedeem(k) \/ OaRotate(k) \/ OaExtend(k)
           \/ OaPut(k) \/ OaRevokeRow(k) \/ OaRevokeToken(k)
  PROVE  OaInv'
<1>id. oaCall[k] # OaIdle /\ oaCall[k].c \in OaClients
  BY DEF OaInv, OaTyped, OaIdle, OaServing, OaTakeCode, OaIssueToken, OaRedeem, OaRotate, OaExtend, OaPut, OaRevokeRow, OaRevokeToken
<1>0. PICK c \in OaClients : c = oaCall[k].c
  BY <1>id
<1>at. oaCall[k] # OaIdle /\ c = oaCall[k].c
  BY <1>id, <1>0
<1>ty. OaTyped
  BY DEF OaInv
<1>co. \A d \in OaClients : OaConsent(d)
  BY DEF OaInv
<1>gone. ASSUME OaRefused(k), UNCHANGED <<oaTok, oaLive>>, oaLogin' = oaLogin \/ oaLogin' = OaCodeTaken(c) PROVE OaInv'
  <2>1. OaTyped'
    BY <1>gone, <1>at, <1>ty, OaEnds DEF OaTyped, OaCodeTaken
  <2>2. \A d \in OaClients : OaNoMore(d)
    BY <1>gone, <1>at, <1>ty, OaEnds DEF OaTyped, OaNoMore, OaOpen, OaCodeTaken
  <2> QED BY <2>1, <2>2, OaStays DEF OaInv
<1>1. CASE OaTakeCode(k)
  <2>1. CASE OaGoes(k, "mint") /\ oaLogin[c] = "code" /\ oaLogin' = OaCodeTaken(c)
    <3>0. "mint" \in OaPlaces /\ "mint" \in OaHeirs
      BY DEF OaPlaces, OaHeirs
    <3>1. OaTyped'
      BY <1>1, <2>1, <3>0, <1>at, <1>ty, OaMoves DEF OaTyped, OaCodeTaken, OaTakeCode, oaDb
    <3>2. ASSUME NEW d \in OaClients, d # c PROVE OaNoMore(d)
      BY <1>1, <2>1, <3>0, <3>2, <1>at, <1>ty, OaMoves DEF OaTyped, OaNoMore, OaOpen, OaCodeTaken, OaTakeCode, oaDb
    <3>3. /\ oaLive[c] = {} /\ oaTok[c] = "none" /\ \A l \in OaCalls : ~OaHeir(l, c)
      BY <2>1, <1>at, <1>co DEF OaConsent, OaOpen
    <3>4. oaLogin'[c] = "over" /\ oaLive'[c] = {} /\ oaTok'[c] = "none" /\ \A l \in OaCalls : OaHeir(l, c)' => l = k
      BY <1>1, <2>1, <3>0, <3>3, <1>at, <1>ty, OaMoves DEF OaTyped, OaCodeTaken, OaTakeCode, oaDb
    <3>5. OaConsent(c)'
      BY <3>4 DEF OaConsent, OaOpen
    <3> QED BY <3>1, <3>2, <3>5, OaStays DEF OaInv
  <2> QED BY <1>1, <1>at, <2>1, <1>gone DEF OaTakeCode, oaDb
<1>2. CASE OaIssueToken(k)
  <2>1. CASE OaGoes(k, "write") /\ oaTok' = [oaTok EXCEPT ![c] = "live"]
    <3>0. "write" \in OaPlaces /\ "write" \in OaHeirs /\ OaHeir(k, c)
      BY <1>2, <1>at DEF OaPlaces, OaHeirs, OaHeir, OaIssueToken, OaServing
    <3>1. OaTyped'
      BY <1>2, <2>1, <3>0, <1>at, <1>ty, OaMoves DEF OaTyped, OaIssueToken
    <3>2. ASSUME NEW d \in OaClients, d # c PROVE OaNoMore(d)
      BY <1>2, <2>1, <3>0, <3>2, <1>at, <1>ty, OaMoves DEF OaTyped, OaNoMore, OaOpen, OaIssueToken
    <3>3. /\ oaLive[c] = {} /\ ~OaOpen(c) /\ \A l \in OaCalls : OaHeir(l, c) => l = k
      BY <3>0, <1>at, <1>co DEF OaConsent
    <3>4. oaLogin'[c] = "over" /\ oaLive'[c] = {} /\ oaCall'[k].at = "write" /\ \A l \in OaCalls : OaHeir(l, c)' => l = k
      BY <1>2, <2>1, <3>0, <3>3, <1>at, <1>ty, OaMoves DEF OaTyped, OaIssueToken, OaOpen
    <3>5. OaConsent(c)'
      BY <3>4 DEF OaConsent, OaOpen
    <3> QED BY <3>1, <3>2, <3>5, OaStays DEF OaInv
  <2> QED BY <1>2, <1>at, <2>1, <1>gone DEF OaIssueToken
<1>3. CASE OaRedeem(k)
  <2>1. CASE OaGoes(k, "rotate")
    <3>0. "rotate" \in OaPlaces /\ "rotate" \notin OaHeirs
      BY DEF OaPlaces, OaHeirs
    <3>1. OaTyped'
      BY <1>3, <2>1, <3>0, <1>at, <1>ty, OaMoves DEF OaTyped, OaRedeem, oaDb
    <3>2. \A d \in OaClients : OaNoMore(d)
      BY <1>3, <2>1, <3>0, <1>at, <1>ty, OaMoves DEF OaTyped, OaNoMore, OaOpen, OaRedeem, oaDb
    <3> QED BY <3>1, <3>2, OaStays DEF OaInv
  <2> QED BY <1>3, <2>1, <1>gone DEF OaRedeem, oaDb
<1>4. CASE OaRotate(k)
  <2>n. PICK n : n = oaCall[k].n
    OBVIOUS
  <2>0. oaLive' = [oaLive EXCEPT ![c] = oaLive[c] \ {n}] /\ UNCHANGED <<oaTok, oaLogin>>
    BY <1>4, <1>at, <2>n DEF OaRotate
  <2>1. CASE OaGoes(k, "write") /\ n \in oaLive[c]
    <3>0. "write" \in OaPlaces /\ "write" \in OaHeirs
      BY DEF OaPlaces, OaHeirs
    <3>1. OaTyped'
      BY <2>0, <2>1, <3>0, <1>at, <1>ty, OaMoves DEF OaTyped
    <3>2. ASSUME NEW d \in OaClients, d # c PROVE OaNoMore(d)
      BY <2>0, <2>1, <3>0, <3>2, <1>at, <1>ty, OaMoves DEF OaTyped, OaNoMore, OaOpen
    <3>3. /\ oaLive[c] = {n} /\ ~OaOpen(c) /\ \A l \in OaCalls : ~OaHeir(l, c)
      BY <2>1, <1>at, <1>co DEF OaConsent
    <3>4. oaLogin'[c] = "over" /\ oaLive'[c] = {} /\ oaCall'[k].at = "write" /\ \A l \in OaCalls : OaHeir(l, c)' => l = k
      BY <2>0, <2>1, <3>0, <3>3, <1>at, <1>ty, OaMoves DEF OaTyped, OaOpen
    <3>5. OaConsent(c)'
      BY <3>4 DEF OaConsent, OaOpen
    <3> QED BY <3>1, <3>2, <3>5, OaStays DEF OaInv
  <2>2. CASE OaRefused(k)
    <3>1. OaTyped'
      BY <2>0, <2>2, <1>at, <1>ty, OaEnds DEF OaTyped
    <3>2. \A d \in OaClients : OaNoMore(d)
      BY <2>0, <2>2, <1>at, <1>ty, OaEnds DEF OaTyped, OaNoMore, OaOpen
    <3> QED BY <3>1, <3>2, OaStays DEF OaInv
  <2> QED BY <1>4, <1>at, <2>n, <2>1, <2>2 DEF OaRotate, OaRotates
<1>5. CASE OaExtend(k)
  <2>1. CASE OaGoes(k, "put") /\ oaTok[c] = "live" /\ oaTok' = [oaTok EXCEPT ![c] = "live"]
    <3>0. "put" \in OaPlaces /\ "put" \in OaHeirs /\ OaHeir(k, c)
      BY <1>5, <1>at DEF OaPlaces, OaHeirs, OaHeir, OaExtend, OaServing
    <3>1. OaTyped'
      BY <1>5, <2>1, <3>0, <1>at, <1>ty, OaMoves DEF OaTyped, OaExtend
    <3>2. ASSUME NEW d \in OaClients PROVE OaNoMore(d)
      <4>1. oaTok'[d] = oaTok[d] /\ UNCHANGED <<oaLogin, oaLive>>
        BY <1>5, <2>1, <1>at, <1>ty DEF OaTyped, OaExtend
      <4>2. \A l \in OaCalls : OaHeir(l, d)' => OaHeir(l, d) /\ (oaCall'[l].at = "mint" => oaCall[l].at = "mint")
        BY <2>1, <3>0, <1>at, OaMoves
      <4> QED BY <4>1, <4>2 DEF OaNoMore, OaOpen
    <3> QED BY <3>1, <3>2, OaStays DEF OaInv
  <2> QED BY <1>5, <1>at, <2>1, <1>gone DEF OaExtend, OaExtendable, OaResolves
<1>6. CASE OaPut(k)
  <2>0. OaHeir(k, c) /\ OaRefused(k) /\ UNCHANGED <<oaTok, oaLogin>>
    BY <1>6, <1>at DEF OaPut, OaHeir, OaHeirs, OaServing
  <2>1. CASE oaLive' = [oaLive EXCEPT ![c] = oaLive[c] \union {oaRows[c] + 1}]
    <3>1. OaTyped'
      BY <2>0, <2>1, <1>at, <1>ty, OaEnds DEF OaTyped
    <3>2. ASSUME NEW d \in OaClients, d # c PROVE OaNoMore(d)
      BY <2>0, <2>1, <3>2, <1>at, <1>ty, OaEnds DEF OaTyped, OaNoMore, OaOpen
    <3>3. /\ oaLive[c] = {} /\ ~OaOpen(c) /\ \A l \in OaCalls : OaHeir(l, c) => l = k
      BY <2>0, <1>at, <1>co DEF OaConsent
    <3>4. oaLogin'[c] = "over" /\ oaLive'[c] = {oaRows[c] + 1} /\ \A l \in OaCalls : ~OaHeir(l, c)'
      BY <2>0, <2>1, <3>3, <1>at, <1>ty, OaEnds DEF OaTyped, OaOpen
    <3>5. OaConsent(c)'
      BY <3>4 DEF OaConsent, OaOpen
    <3> QED BY <3>1, <3>2, <3>5, OaStays DEF OaInv
  <2> QED BY <1>6, <1>at, <2>0, <2>1, <1>gone DEF OaPut
<1>7. CASE OaRevokeRow(k)
  <2>1. /\ oaLive' = [oaLive EXCEPT ![c] = oaLive[c] \ {oaCall[k].n}]
        /\ OaGoes(k, "revokeToken") /\ UNCHANGED <<oaTok, oaLogin>>
    BY <1>7, <1>at DEF OaRevokeRow
  <2>2. "revokeToken" \in OaPlaces /\ "revokeToken" \notin OaHeirs
    BY DEF OaPlaces, OaHeirs
  <2>3. OaTyped'
    BY <2>1, <2>2, <1>at, <1>ty, OaMoves DEF OaTyped
  <2>4. \A d \in OaClients : OaNoMore(d)
    BY <2>1, <2>2, <1>at, <1>ty, OaMoves DEF OaTyped, OaNoMore, OaOpen
  <2> QED BY <2>3, <2>4, OaStays DEF OaInv
<1>8. CASE OaRevokeToken(k)
  <2>1. OaRefused(k) /\ oaTok' = OaRevokedTok(c) /\ UNCHANGED <<oaLive, oaLogin>>
    BY <1>8, <1>at DEF OaRevokeToken
  <2>2. OaTyped'
    BY <2>1, <1>at, <1>ty, OaEnds DEF OaTyped, OaRevokedTok
  <2>3. \A d \in OaClients : OaNoMore(d)
    BY <2>1, <1>at, <1>ty, OaEnds DEF OaTyped, OaNoMore, OaOpen, OaRevokedTok
  <2> QED BY <2>2, <2>3, OaStays DEF OaInv
<1> QED BY <1>1, <1>2, <1>3, <1>4, <1>5, <1>6, <1>7, <1>8

\* A step of one consent or of its client.
LEMMA OaClientStep ==
  ASSUME OaInv, NEW c \in OaClients,
         \/ OaRegister(c) \/ OaAges(c) \/ OaLookUp(c) \/ OaRecord(c) \/ OaTake(c) \/ OaApprove(c)
         \/ OaDeny(c) \/ OaExpires(c) \/ OaLogout(c) \/ OaLapses(c)
         \/ \E s \in SUBSET OaClients : OaStore(c, s)
  PROVE  OaInv'
<1>ty. OaTyped
  BY DEF OaInv
<1>1. CASE OaRegister(c) \/ OaAges(c) \/ \E s \in SUBSET OaClients : OaStore(c, s)
  <2>1. UNCHANGED <<oaLogin, oaTok, oaLive, oaCall>>
    BY <1>1 DEF OaRegister, OaAges, OaStore, oaDb
  <2> QED BY <2>1 DEF OaInv, OaTyped, OaConsent, OaOpen, OaHeir
<1>2. CASE OaLookUp(c) \/ OaRecord(c) \/ OaTake(c) \/ OaApprove(c) \/ OaDeny(c) \/ OaExpires(c)
  <2>1. PICK to : oaLogin[c] # "over" /\ oaLogin' = [oaLogin EXCEPT ![c] = to]
    BY <1>2 DEF OaLookUp, OaRecord, OaTake, OaApprove, OaDeny, OaExpires, OaLoginGoes
  <2>2. UNCHANGED <<oaTok, oaLive, oaCall>>
    BY <1>2 DEF OaLookUp, OaRecord, OaTake, OaApprove, OaDeny, OaExpires, OaLoginGoes, oaDb
  <2>3. OaTyped' /\ \A d \in OaClients : OaNoMore(d)
    BY <2>1, <2>2, <1>ty DEF OaTyped, OaNoMore, OaOpen, OaHeir
  <2> QED BY <2>3, OaStays DEF OaInv
<1>3. CASE OaLogout(c) \/ OaLapses(c)
  <2>1. oaTok[c] # "none" /\ \E v : oaTok' = [oaTok EXCEPT ![c] = v]
    BY <1>3 DEF OaLogout, OaResolves, OaRevokedTok, OaLapses
  <2>2. oaLive' = oaLive \/ oaLive' = [oaLive EXCEPT ![c] = {}]
    BY <1>3 DEF OaLogout, OaLapses
  <2>3. UNCHANGED <<oaLogin, oaCall>>
    BY <1>3 DEF OaLogout, OaLapses
  <2>4. OaTyped'
    BY <2>1, <2>2, <2>3, <1>ty DEF OaTyped
  <2>5. \A d \in OaClients : OaNoMore(d)
    BY <2>1, <2>2, <2>3, <1>ty DEF OaTyped, OaNoMore, OaOpen, OaHeir
  <2> QED BY <2>4, <2>5, OaStays DEF OaInv
<1> QED BY <1>1, <1>2, <1>3

LEMMA OaPresent_Inv ==
  ASSUME OaInv, NEW c \in OaClients, NEW k \in OaCalls, NEW n \in 0 .. MaxOaRows,
         NEW op \in {"redeem", "revoke"}, OaPresent(k, c, n, op)
  PROVE  OaInv'
<1>1. PICK z : z = [at |-> IF n = 0 THEN "code" ELSE op, c |-> c, n |-> n]
  OBVIOUS
<1>2. z \in [at : OaPlaces, c : OaClients, n : Nat] /\ z.at \notin OaHeirs
  BY <1>1 DEF OaPlaces, OaHeirs
<1>3. oaCall' = [oaCall EXCEPT ![k] = z] /\ UNCHANGED <<oaTok, oaLive, oaLogin>>
  BY <1>1 DEF OaPresent, oaDb
<1> QED BY <1>2, <1>3 DEF OaInv, OaTyped, OaConsent, OaOpen, OaHeir, OaHeirs

LEMMA OaRest ==
  ASSUME OaInv, OaWindowEnds \/ OaToggleAccount \/ OaRestart \/ UNCHANGED oaVars
  PROVE  OaInv'
<1> USE DEF OaInv, OaTyped, OaConsent, OaOpen, OaHeir, OaHeirs
<1>1. CASE OaWindowEnds \/ OaToggleAccount \/ UNCHANGED oaVars
  BY <1>1 DEF OaWindowEnds, OaToggleAccount, oaVars, oaDb
<1>2. CASE OaRestart
  BY <1>2 DEF OaRestart, OaIdle, oaDb
<1> QED BY <1>1, <1>2

LEMMA OaNext_Inv == OaInv /\ [OaNext]_oaVars => OaInv'
<1> SUFFICES ASSUME OaInv, [OaNext]_oaVars PROVE OaInv'
  OBVIOUS
<1>1. ASSUME NEW c \in OaClients, NEW k \in OaCalls, NEW n \in 0 .. MaxOaRows,
             NEW op \in {"redeem", "revoke"}, OaPresent(k, c, n, op)
      PROVE  OaInv'
  BY <1>1, OaPresent_Inv
<1> QED BY <1>1, OaCallStep, OaClientStep, OaRest DEF OaNext

\* What is worth one heir is counted as one.
LEMMA OaCounted == OaInv => OaOneHeir
<1> SUFFICES ASSUME OaInv, NEW c \in OaClients
             PROVE  Cardinality(oaLive[c]) + Cardinality({k \in OaCalls : OaHeir(k, c)}) <= 1
  BY DEF OaOneHeir, OaHeir, OaHeirs
<1> DEFINE H == {k \in OaCalls : OaHeir(k, c)}
<1>1. /\ \A n, m \in oaLive[c] : n = m
      /\ \A k, l \in H : k = l
      /\ oaLive[c] = {} \/ H = {}
  BY DEF OaInv, OaConsent
<1> HIDE DEF H
<1>2. /\ Cardinality(oaLive[c]) \in 0 .. 1 /\ (oaLive[c] = {} => Cardinality(oaLive[c]) = 0)
      /\ Cardinality(H) \in 0 .. 1 /\ (H = {} => Cardinality(H) = 0)
  BY <1>1, AtMostOne
<1>3. Cardinality(oaLive[c]) + Cardinality(H) <= 1
  BY <1>1, <1>2
<1> QED BY <1>3 DEF H

\* No step revives a token.
LEMMA OaEnded ==
  ASSUME OaInv, [OaNext]_oaVars, NEW c \in OaClients, oaTok[c] \in {"revoked", "lapsed"}
  PROVE  oaTok'[c] = oaTok[c]
<1> USE DEF OaInv, OaTyped
<1>1. ASSUME NEW k \in OaCalls, OaIssueToken(k) PROVE oaTok'[c] = oaTok[c]
  BY <1>1 DEF OaConsent, OaHeir, OaHeirs, OaIssueToken, OaServing, OaIdle
<1>2. ASSUME NEW k \in OaCalls, OaExtend(k) PROVE oaTok'[c] = oaTok[c]
  BY <1>2 DEF OaExtend, OaExtendable, OaResolves, OaServing, OaIdle
<1>3. ASSUME NEW k \in OaCalls, OaRevokeToken(k) PROVE oaTok'[c] = oaTok[c]
  BY <1>3 DEF OaRevokeToken, OaRevokedTok, OaServing, OaIdle
<1>4. ASSUME NEW k \in OaCalls, OaTakeCode(k) \/ OaRedeem(k) \/ OaRotate(k) \/ OaPut(k) \/ OaRevokeRow(k)
      PROVE  oaTok'[c] = oaTok[c]
  BY <1>4 DEF OaTakeCode, OaRedeem, OaRotate, OaPut, OaRevokeRow, oaDb
<1>5. ASSUME NEW d \in OaClients, OaLogout(d) \/ OaLapses(d) PROVE oaTok'[c] = oaTok[c]
  BY <1>5 DEF OaLogout, OaLapses, OaResolves, OaRevokedTok
<1>6. ASSUME NEW d \in OaClients,
             \/ OaRegister(d) \/ OaAges(d) \/ OaLookUp(d) \/ OaRecord(d) \/ OaTake(d) \/ OaApprove(d)
             \/ OaDeny(d) \/ OaExpires(d) \/ \E s \in SUBSET OaClients : OaStore(d, s)
      PROVE  oaTok'[c] = oaTok[c]
  BY <1>6 DEF OaRegister, OaAges, OaLookUp, OaRecord, OaTake, OaApprove, OaDeny, OaExpires, OaLoginGoes, OaStore, oaDb
<1>7. ASSUME NEW d \in OaClients, NEW k \in OaCalls, NEW n \in 0 .. MaxOaRows,
             NEW op \in {"redeem", "revoke"}, OaPresent(k, d, n, op)
      PROVE  oaTok'[c] = oaTok[c]
  BY <1>7 DEF OaPresent, oaDb
<1>8. CASE OaWindowEnds \/ OaToggleAccount \/ OaRestart \/ UNCHANGED oaVars
  BY <1>8 DEF OaWindowEnds, OaToggleAccount, OaRestart, oaVars, oaDb
<1> QED BY <1>1, <1>2, <1>3, <1>4, <1>5, <1>6, <1>7, <1>8 DEF OaNext

\* oauth.go: a consent has one heir and what was ended stays ended, for any
\* number of clients, requests and restarts.
THEOREM GrantsHaveOneHeir == OaSpec => OaSafe
<1>1. OaInv /\ [OaNext]_oaVars => [\A c \in OaClients : oaTok[c] \in {"revoked", "lapsed"} => oaTok'[c] = oaTok[c]]_oaVars
  BY OaEnded
<1> QED BY OaInit_Inv, OaNext_Inv, OaCounted, <1>1, PTL DEF OaSpec, OaSafe, OaStaysEnded

----------------------------------------------------------------------------
(* Admission *)

AmTyped ==
  /\ amUsers = [n \in AmNames |-> amUsers[n]] /\ amCall = [c \in AmCalls |-> amCall[c]]
  /\ \A c \in AmCalls : "at" \in DOMAIN amCall[c]
  /\ \E V : amInvites \in Seq([login : V, state : V, by : V])

\* One request at a time holds the admission lock, with the invitation it will
\* spend: it is open, or it is the first admission of all.
AmLocked ==
  /\ \A c, d \in AmCalls : amCall[c].at = "chosen" /\ amCall[d].at = "chosen" => c = d
  /\ \A c \in AmCalls : amCall[c].at = "chosen" =>
       \/ amCall[c].invite = 0 /\ \A r \in AmRows : r.role # "admin"
       \/ amCall[c].invite \in DOMAIN amInvites /\ amInvites[amCall[c].invite].state = "open"

AmUnspent == \A i \in DOMAIN amInvites : amInvites[i].state = "open" => amInvites[i].by = {}

AmSpent(who) == \E i \in DOMAIN amInvites : amInvites[i].by = {who} /\ amInvites[i].state = "used"

AmOneAdmin == \A r, s \in AmRows : r.role = "admin" /\ s.role = "admin" => r = s
AmPaid == \A r \in AmRows : r.who \in AmAccounts /\ r.role = "user" => AmSpent(r.who)

AmInv == AmTyped /\ AmLocked /\ AmUnspent /\ AmOneAdmin /\ AmPaid

LEMMA AmInit_Inv == AmInit => AmInv
<1> SUFFICES ASSUME AmInit PROVE AmInv
  OBVIOUS
<1>1. AmRows = {}
  BY DEF AmInit, AmRows
<1>2. amInvites \in Seq([login : {}, state : {}, by : {}]) /\ DOMAIN amInvites = {}
  BY DEF AmInit
<1> QED BY <1>1, <1>2 DEF AmInit, AmInv, AmTyped, AmLocked, AmUnspent, AmOneAdmin, AmPaid, AmIdle

\* A step that admits nobody, touches no invitation and takes no lock.
LEMMA AmQuiet ==
  ASSUME AmInv, UNCHANGED <<amUsers, amInvites>>, amCall' = [c \in AmCalls |-> amCall'[c]],
         \A c \in AmCalls : "at" \in DOMAIN amCall'[c] /\ (amCall'[c].at = "chosen" => amCall'[c] = amCall[c])
  PROVE  AmInv'
<1>1. AmRows' = AmRows
  BY DEF AmRows
<1>2. AmTyped'
  <2>1. PICK V : amInvites \in Seq([login : V, state : V, by : V])
    BY DEF AmInv, AmTyped
  <2>2. amUsers' = [n \in AmNames |-> amUsers'[n]]
    BY DEF AmInv, AmTyped
  <2> QED BY <2>1, <2>2 DEF AmTyped
<1>3. AmLocked'
  BY <1>1 DEF AmInv, AmLocked
<1>4. AmUnspent'
  BY DEF AmInv, AmUnspent
<1>5. AmOneAdmin' /\ AmPaid'
  BY <1>1 DEF AmInv, AmOneAdmin, AmPaid, AmSpent
<1> QED BY <1>2, <1>3, <1>4, <1>5 DEF AmInv

\* A request that ends or passes its gate holds no lock any more.
LEMMA AmSettles ==
  ASSUME AmInv, NEW c \in AmCalls, NEW status, NEW row, AmSettle(c, status, row) \/ AmEnd(c)
  PROVE  /\ amCall' = [d \in AmCalls |-> amCall'[d]] /\ amCall'[c].at # "chosen" /\ "at" \in DOMAIN amCall'[c]
         /\ \A d \in AmCalls : d # c => amCall'[d] = amCall[d]
<1>1. amCall = [d \in AmCalls |-> amCall[d]]
  BY DEF AmInv, AmTyped
<1>2. PICK z : amCall' = [amCall EXCEPT ![c] = z] /\ z.at # "chosen" /\ "at" \in DOMAIN z
  <2>1. CASE AmEnd(c)
    <3>1. AmIdle.at # "chosen" /\ "at" \in DOMAIN AmIdle
      BY DEF AmIdle
    <3> QED BY <2>1, <3>1 DEF AmEnd
  <2>2. CASE AmSettle(c, status, row)
    <3> DEFINE kept == IF amCall[c].for = "apply"
                       THEN [at |-> "apply", who |-> amCall[c].who, login |-> amCall[c].login]
                       ELSE [at |-> amCall[c].for]
    <3>1. PICK z : z = IF AmPasses(amCall[c].for, status, row) THEN kept ELSE AmIdle
      OBVIOUS
    <3>2. amCall' = [amCall EXCEPT ![c] = z]
      BY <2>2, <3>1 DEF AmSettle
    <3>3. z.at # "chosen" /\ "at" \in DOMAIN z
      BY <3>1 DEF AmPasses, AmIdle
    <3> QED BY <3>2, <3>3
  <2> QED BY <2>1, <2>2
<1> QED BY <1>1, <1>2

LEMMA AmAsks ==
  ASSUME AmInv, NEW g \in AmAccounts,
         \/ AmAuthStart(g) \/ AmSignOut(g)
         \/ \E c \in AmCalls : \/ \E n \in AmLogins[g] : AmAuthCallback(g, n, c)
                              \/ \E p \in AmPurposes : AmRequest(g, c, p)
  PROVE  AmInv'
<1>0. amCall = [c \in AmCalls |-> amCall[c]] /\ \A c \in AmCalls : "at" \in DOMAIN amCall[c]
  BY DEF AmInv, AmTyped
<1>1. UNCHANGED <<amUsers, amInvites>>
  BY DEF AmAuthStart, AmSignOut, AmAuthCallback, AmRequest
<1>2. \/ amCall' = amCall
      \/ \E c \in AmCalls : \E z : amCall' = [amCall EXCEPT ![c] = z] /\ z.at = "asked" /\ "at" \in DOMAIN z
  <2>1. ASSUME NEW c \in AmCalls, NEW n, AmAuthCallback(g, n, c), amCall' # amCall
        PROVE  \E z : amCall' = [amCall EXCEPT ![c] = z] /\ z.at = "asked" /\ "at" \in DOMAIN z
    <3>1. PICK z : z = [at |-> "asked", who |-> g, login |-> {n}, for |-> "page"]
      OBVIOUS
    <3>2. amCall' = [amCall EXCEPT ![c] = z] /\ z.at = "asked" /\ "at" \in DOMAIN z
      BY <2>1, <3>1 DEF AmAuthCallback
    <3> QED BY <3>2
  <2>2. ASSUME NEW c \in AmCalls, NEW p, AmRequest(g, c, p)
        PROVE  \E z : amCall' = [amCall EXCEPT ![c] = z] /\ z.at = "asked" /\ "at" \in DOMAIN z
    <3>1. PICK z : z = [at |-> "asked", who |-> g, login |-> amCookie[g], for |-> p]
      OBVIOUS
    <3>2. amCall' = [amCall EXCEPT ![c] = z] /\ z.at = "asked" /\ "at" \in DOMAIN z
      BY <2>2, <3>1 DEF AmRequest
    <3> QED BY <3>2
  <2> QED BY <2>1, <2>2 DEF AmAuthStart, AmSignOut
<1>3. /\ amCall' = [c \in AmCalls |-> amCall'[c]]
      /\ \A c \in AmCalls : "at" \in DOMAIN amCall'[c] /\ (amCall'[c].at = "chosen" => amCall'[c] = amCall[c])
  BY <1>0, <1>2
<1> QED BY <1>1, <1>3, AmQuiet

LEMMA AmLookup_Inv == ASSUME AmInv, NEW c \in AmCalls, AmLookup(c) PROVE AmInv'
<1>0. amCall = [d \in AmCalls |-> amCall[d]] /\ \A d \in AmCalls : "at" \in DOMAIN amCall[d]
  BY DEF AmInv, AmTyped
<1>1. UNCHANGED <<amUsers, amInvites>>
  BY DEF AmLookup
<1>2. CASE \E status, row : AmSettle(c, status, row)
  <2>1. PICK status, row : AmSettle(c, status, row)
    BY <1>2
  <2>2. /\ amCall' = [d \in AmCalls |-> amCall'[d]]
        /\ \A d \in AmCalls : "at" \in DOMAIN amCall'[d] /\ (amCall'[d].at = "chosen" => amCall'[d] = amCall[d])
    BY <1>0, <2>1, AmSettles
  <2> QED BY <1>1, <2>2, AmQuiet
<1>3. CASE amCall' = [amCall EXCEPT ![c].at = "admission"]
  <2>1. PICK z : z = [amCall[c] EXCEPT !.at = "admission"]
    OBVIOUS
  <2>2. amCall' = [amCall EXCEPT ![c] = z]
    BY <1>3, <2>1
  <2>3. z.at = "admission" /\ "at" \in DOMAIN z
    BY <2>1, <1>0 DEF AmLookup
  <2>4. /\ amCall' = [d \in AmCalls |-> amCall'[d]]
        /\ \A d \in AmCalls : "at" \in DOMAIN amCall'[d] /\ (amCall'[d].at = "chosen" => amCall'[d] = amCall[d])
    BY <1>0, <2>2, <2>3
  <2> QED BY <1>1, <2>4, AmQuiet
<1> QED BY <1>2, <1>3 DEF AmLookup

LEMMA AmChoose_Inv == ASSUME AmInv, NEW c \in AmCalls, AmChoose(c) PROVE AmInv'
<1>0. amCall = [d \in AmCalls |-> amCall[d]] /\ \A d \in AmCalls : "at" \in DOMAIN amCall[d]
  BY DEF AmInv, AmTyped
<1>1. UNCHANGED <<amUsers, amInvites>> /\ \A d \in AmCalls : amCall[d].at # "chosen"
  BY DEF AmChoose, AmAdmissionFree
<1>2. CASE \E status, row : AmSettle(c, status, row)
  <2>1. PICK status, row : AmSettle(c, status, row)
    BY <1>2
  <2>2. /\ amCall' = [d \in AmCalls |-> amCall'[d]]
        /\ \A d \in AmCalls : "at" \in DOMAIN amCall'[d] /\ (amCall'[d].at = "chosen" => amCall'[d] = amCall[d])
    BY <1>0, <2>1, AmSettles
  <2> QED BY <1>1, <2>2, AmQuiet
<1>3. ASSUME NEW i, amCall' = [amCall EXCEPT ![c] = [at |-> "chosen", who |-> amCall[c].who, login |-> amCall[c].login,
                                                   for |-> amCall[c].for, invite |-> i]],
             \/ i = 0 /\ \A r \in AmRows : r.role # "admin"
             \/ i \in DOMAIN amInvites /\ amInvites[i].state = "open"
      PROVE  AmInv'
  <2>1. PICK z : z = [at |-> "chosen", who |-> amCall[c].who, login |-> amCall[c].login, for |-> amCall[c].for, invite |-> i]
    OBVIOUS
  <2>2. amCall' = [amCall EXCEPT ![c] = z] /\ "at" \in DOMAIN z /\ z.invite = i
    BY <1>3, <2>1
  <2>3. /\ amCall' = [d \in AmCalls |-> amCall'[d]] /\ \A d \in AmCalls : "at" \in DOMAIN amCall'[d]
        /\ \A d \in AmCalls : amCall'[d].at = "chosen" => d = c
        /\ amCall'[c].invite = i
    BY <1>0, <1>1, <2>2
  <2>4. AmRows' = AmRows
    BY <1>1 DEF AmRows
  <2>5. AmLocked'
    BY <1>1, <1>3, <2>3, <2>4 DEF AmLocked
  <2> QED BY <1>1, <2>3, <2>4, <2>5 DEF AmInv, AmTyped, AmUnspent, AmOneAdmin, AmPaid, AmSpent
<1>4. ASSUME NEW n, NEW i \in AmInvited(n) PROVE i \in DOMAIN amInvites /\ amInvites[i].state = "open"
  BY <1>4 DEF AmInvited
<1>5. \/ \E status, row : AmSettle(c, status, row)
      \/ /\ \A r \in AmRows : r.role # "admin"
         /\ amCall' = [amCall EXCEPT ![c] = [at |-> "chosen", who |-> amCall[c].who, login |-> amCall[c].login,
                                            for |-> amCall[c].for, invite |-> 0]]
      \/ \E n : \E i \in AmInvited(n) :
           amCall' = [amCall EXCEPT ![c] = [at |-> "chosen", who |-> amCall[c].who, login |-> amCall[c].login,
                                            for |-> amCall[c].for, invite |-> i]]
  BY DEF AmChoose
<1> QED BY <1>2, <1>3, <1>4, <1>5

\* Rows that are added, and invitations that stay as they are once they are used.
LEMMA AmAdmit_Inv == ASSUME AmInv, NEW c \in AmCalls, AmAdmit(c) PROVE AmInv'
<1>0. /\ amUsers = [n \in AmNames |-> amUsers[n]] /\ amCall = [d \in AmCalls |-> amCall[d]]
      /\ \A d \in AmCalls : "at" \in DOMAIN amCall[d]
  BY DEF AmInv, AmTyped
<1>1. PICK status, row : AmSettle(c, status, row)
  BY DEF AmAdmit
<1>2. /\ amCall' = [d \in AmCalls |-> amCall'[d]] /\ \A d \in AmCalls : "at" \in DOMAIN amCall'[d]
      /\ \A d \in AmCalls : amCall'[d].at # "chosen"
  BY <1>0, <1>1, AmSettles DEF AmInv, AmLocked, AmAdmit
<1>3. CASE UNCHANGED <<amUsers, amInvites>>
  BY <1>2, <1>3, AmQuiet
<1>4. CASE ~UNCHANGED <<amUsers, amInvites>>
  <2>a. PICK n, invite, who : /\ n = CHOOSE x \in amCall[c].login : TRUE
                              /\ invite = amCall[c].invite /\ who = amCall[c].who
    OBVIOUS
  <2>b. PICK r : r = [who |-> who, ns |-> n, role |-> IF invite = 0 THEN "admin" ELSE "user"]
    OBVIOUS
  <2>1. /\ invite = amCall[c].invite /\ who = amCall[c].who
        /\ r = [who |-> who, ns |-> n, role |-> IF invite = 0 THEN "admin" ELSE "user"]
        /\ amUsers' = [amUsers EXCEPT ![n] = {r}]
        /\ amInvites' = IF invite = 0 THEN amInvites
                        ELSE [amInvites EXCEPT ![invite].state = "used", ![invite].by = @ \union {who}]
        /\ amCall[c].at = "chosen"
    BY <1>4, <2>a, <2>b DEF AmAdmit
  <2>2. AmRows' \subseteq AmRows \union {r}
    BY <1>0, <2>1 DEF AmRows
  <2>3. r.who = who /\ r.role = IF invite = 0 THEN "admin" ELSE "user"
    BY <2>1
  <2>4. AmOneAdmin'
    <3>0. 0 \notin DOMAIN amInvites
      <4>1. PICK S : amInvites \in Seq(S)
        BY DEF AmInv, AmTyped
      <4> QED BY <4>1, LenProperties
    <3>1. invite # 0 \/ \A x \in AmRows : x.role # "admin"
      BY <2>1, <3>0 DEF AmInv, AmLocked
    <3>2. \A x, y \in AmRows : x.role = "admin" /\ y.role = "admin" => x = y
      BY DEF AmInv, AmOneAdmin
    <3>3. \A x, y \in AmRows' : x.role = "admin" /\ y.role = "admin" => x = y
      BY <2>2, <2>3, <3>1, <3>2
    <3> QED BY <3>3 DEF AmOneAdmin
  <2>5. amUsers' = [m \in AmNames |-> amUsers'[m]]
    BY <1>0, <2>1
  <2>6. CASE invite = 0
    <3>1. amInvites' = amInvites
      BY <2>1, <2>6
    <3>2. AmPaid'
      BY <2>2, <2>3, <2>6, <3>1 DEF AmInv, AmPaid, AmSpent
    <3> QED BY <1>2, <2>4, <2>5, <3>1, <3>2 DEF AmInv, AmTyped, AmLocked, AmUnspent
  <2>7. CASE invite # 0
    <3>1. invite \in DOMAIN amInvites /\ amInvites[invite].state = "open" /\ amInvites[invite].by = {}
      BY <2>1, <2>7 DEF AmInv, AmLocked, AmUnspent, AmAdmit
    <3>2. PICK V : amInvites \in Seq([login : V, state : V, by : V])
      BY DEF AmInv, AmTyped
    <3>3. PICK W : V \subseteq W /\ "used" \in W /\ {who} \in W
      <4>1. V \subseteq V \union {"used", {who}}
        OBVIOUS
      <4> QED BY <4>1
    <3>4. PICK z : z = [amInvites[invite] EXCEPT !.state = "used", !.by = @ \union {who}]
      OBVIOUS
    <3>5. amInvites[invite] \in [login : V, state : V, by : V]
      <4>1. PICK S : S = [login : V, state : V, by : V]
        OBVIOUS
      <4>2. amInvites \in Seq(S)
        BY <3>2, <4>1
      <4>3. invite \in 1 .. Len(amInvites)
        BY <3>1, <4>2, LenProperties
      <4> QED BY <4>1, <4>2, <4>3, ElementOfSeq
    <3>6. z \in [login : W, state : W, by : W] /\ z.state = "used" /\ z.by = {who}
      BY <3>1, <3>3, <3>4, <3>5
    <3>7. amInvites' = [amInvites EXCEPT ![invite] = z]
      BY <2>1, <2>7, <3>4
    <3>8. amInvites \in Seq([login : W, state : W, by : W])
      <4>1. [login : V, state : V, by : V] \subseteq [login : W, state : W, by : W]
        BY <3>3
      <4> QED BY <3>2, <4>1, SeqMonotonic
    <3>9. /\ amInvites' \in Seq([login : W, state : W, by : W]) /\ DOMAIN amInvites' = DOMAIN amInvites
          /\ \A i \in DOMAIN amInvites : amInvites'[i] = IF i = invite THEN z ELSE amInvites[i]
      BY <3>1, <3>6, <3>7, <3>8, ExceptSeq
    <3>10. AmTyped'
      BY <1>2, <2>5, <3>9 DEF AmTyped
    <3>11. AmUnspent'
      BY <3>6, <3>9 DEF AmInv, AmUnspent
    <3>12. AmSpent(who)' /\ \A w : AmSpent(w) => AmSpent(w)'
      BY <3>1, <3>6, <3>9 DEF AmSpent
    <3>13. AmPaid'
      BY <2>2, <2>3, <3>12 DEF AmInv, AmPaid
    <3> QED BY <1>2, <2>4, <3>10, <3>11, <3>13 DEF AmInv, AmLocked
  <2> QED BY <2>6, <2>7
<1> QED BY <1>3, <1>4

LEMMA AmHeader_Inv == ASSUME AmInv, NEW h \in AmHeaders, NEW n \in AmNames, AmHeaderSignIn(h, n) PROVE AmInv'
<1>1. PICK r : r = [who |-> h, ns |-> n, role |-> "user"]
  OBVIOUS
<1>2. r.who \notin AmAccounts /\ r.role = "user"
  BY <1>1, AmAssumption
<1>3. amUsers' = [amUsers EXCEPT ![n] = {r}] /\ UNCHANGED <<amInvites, amCall>>
  BY <1>1 DEF AmHeaderSignIn
<1>4. AmRows' \subseteq AmRows \union {r} /\ amUsers' = [m \in AmNames |-> amUsers'[m]]
  BY <1>3 DEF AmInv, AmTyped, AmRows
<1> QED BY <1>2, <1>3, <1>4, ZenonT(60) DEF AmInv, AmTyped, AmLocked, AmUnspent, AmOneAdmin, AmPaid, AmSpent

\* What the administrator does to the invitations: a new open one, or one
\* nobody has locked is withdrawn.
AmManages ==
  \/ amInvites' = amInvites
  \/ \E n : amInvites' = Append(amInvites, [login |-> n, state |-> "open", by |-> {}])
  \/ \E i \in DOMAIN amInvites :
       /\ amInvites' = AmRevoked(i)
       /\ \A d \in AmCalls : amCall[d].at = "chosen" => amCall[d].invite # i

LEMMA AmManaged ==
  ASSUME AmInv, NEW c \in AmCalls, amCall[c].at = "admin", AmManages, AmEnd(c), UNCHANGED amUsers
  PROVE  AmInv'
<1>0. amCall = [d \in AmCalls |-> amCall[d]] /\ \A d \in AmCalls : "at" \in DOMAIN amCall[d]
  BY DEF AmInv, AmTyped
<1>1. /\ amCall' = [d \in AmCalls |-> amCall'[d]] /\ \A d \in AmCalls : "at" \in DOMAIN amCall'[d]
      /\ \A d \in AmCalls : amCall'[d].at = "chosen" => amCall'[d] = amCall[d]
  BY <1>0, AmSettles
<1>2. AmRows' = AmRows
  BY DEF AmRows
<1>3. CASE amInvites' = amInvites
  BY <1>1, <1>3, AmQuiet
<1>4. ASSUME NEW W, amInvites' \in Seq([login : W, state : W, by : W]),
             \A i \in DOMAIN amInvites : i \in DOMAIN amInvites' /\ amInvites[i].state = "used" => amInvites'[i] = amInvites[i],
             \A i \in DOMAIN amInvites : i \in DOMAIN amInvites',
             \A i \in DOMAIN amInvites' : amInvites'[i].state = "open" => amInvites'[i].by = {},
             \A d \in AmCalls : amCall[d].at = "chosen" /\ amCall[d].invite \in DOMAIN amInvites /\ amInvites[amCall[d].invite].state = "open"
                               => amInvites'[amCall[d].invite].state = "open"
      PROVE  AmInv'
  <2>1. AmTyped'
    BY <1>1, <1>4 DEF AmInv, AmTyped
  <2>2. AmLocked'
    BY <1>1, <1>2, <1>4 DEF AmInv, AmLocked
  <2>3. AmUnspent'
    BY <1>4 DEF AmUnspent
  <2>4. \A w : AmSpent(w) => AmSpent(w)'
    BY <1>4 DEF AmSpent
  <2> QED BY <1>2, <2>1, <2>2, <2>3, <2>4 DEF AmInv, AmOneAdmin, AmPaid
<1>v. PICK V : amInvites \in Seq([login : V, state : V, by : V])
  BY DEF AmInv, AmTyped
<1>u. AmUnspent
  BY DEF AmInv
<1>5. ASSUME NEW n, amInvites' = Append(amInvites, [login |-> n, state |-> "open", by |-> {}]) PROVE AmInv'
  <2>1. PICK W : V \subseteq W /\ n \in W /\ "open" \in W /\ {} \in W
    <3>1. V \subseteq V \union {n, "open", {}}
      OBVIOUS
    <3> QED BY <3>1
  <2>2. PICK z : z = [login |-> n, state |-> "open", by |-> {}]
    OBVIOUS
  <2>3. z \in [login : W, state : W, by : W] /\ z.state = "open" /\ z.by = {}
    BY <2>1, <2>2
  <2>4. amInvites \in Seq([login : W, state : W, by : W])
    <3>1. [login : V, state : V, by : V] \subseteq [login : W, state : W, by : W]
      BY <2>1
    <3> QED BY <1>v, <3>1, SeqMonotonic
  <2>5. /\ amInvites' \in Seq([login : W, state : W, by : W])
        /\ \A i \in DOMAIN amInvites : i \in DOMAIN amInvites' /\ amInvites'[i] = amInvites[i]
        /\ \A i \in DOMAIN amInvites' : i \in DOMAIN amInvites \/ amInvites'[i] = z
    BY <1>5, <2>2, <2>3, <2>4, AppendProperties
  <2> QED BY <1>4, <1>u, <2>3, <2>5, ZenonT(30) DEF AmUnspent
<1>6. ASSUME NEW i \in DOMAIN amInvites, amInvites' = AmRevoked(i),
             \A d \in AmCalls : amCall[d].at = "chosen" => amCall[d].invite # i
      PROVE  AmInv'
  <2>1. PICK W : V \subseteq W /\ "revoked" \in W
    <3>1. V \subseteq V \union {"revoked"}
      OBVIOUS
    <3> QED BY <3>1
  <2>2. PICK z : z = [amInvites[i] EXCEPT !.state = IF @ = "open" THEN "revoked" ELSE @]
    OBVIOUS
  <2>3. amInvites[i] \in [login : V, state : V, by : V]
    <3>1. PICK S : S = [login : V, state : V, by : V]
      OBVIOUS
    <3>2. amInvites \in Seq(S)
      BY <1>v, <3>1
    <3>3. i \in 1 .. Len(amInvites)
      BY <3>2, LenProperties
    <3> QED BY <3>1, <3>2, <3>3, ElementOfSeq
  <2>4. /\ z \in [login : W, state : W, by : W] /\ z.state # "open"
        /\ amInvites[i].state # "open" => z = amInvites[i]
    BY <2>1, <2>2, <2>3
  <2>5. amInvites \in Seq([login : W, state : W, by : W])
    <3>1. [login : V, state : V, by : V] \subseteq [login : W, state : W, by : W]
      BY <2>1
    <3> QED BY <1>v, <3>1, SeqMonotonic
  <2>6. amInvites' = [amInvites EXCEPT ![i] = z]
    BY <1>6, <2>2 DEF AmRevoked
  <2>7. /\ amInvites' \in Seq([login : W, state : W, by : W]) /\ DOMAIN amInvites' = DOMAIN amInvites
        /\ \A j \in DOMAIN amInvites : amInvites'[j] = IF j = i THEN z ELSE amInvites[j]
    BY <2>4, <2>5, <2>6, ExceptSeq
  <2> QED BY <1>4, <1>6, <1>u, <2>4, <2>7, ZenonT(60) DEF AmUnspent
<1> QED BY <1>3, <1>5, <1>6 DEF AmManages

LEMMA AmNext_Inv == AmInv /\ [AmNext]_amVars => AmInv'
<1> SUFFICES ASSUME AmInv, [AmNext]_amVars PROVE AmInv'
  OBVIOUS
<1>0. amCall = [d \in AmCalls |-> amCall[d]] /\ \A d \in AmCalls : "at" \in DOMAIN amCall[d]
  BY DEF AmInv, AmTyped
<1>1. CASE UNCHANGED amVars
  BY <1>0, <1>1, AmQuiet DEF amVars
<1>2. ASSUME NEW c \in AmCalls, AmApply(c) \/ AmFile(c) PROVE AmInv'
  <2>1. UNCHANGED <<amUsers, amInvites>>
    BY <1>2 DEF AmApply, AmFile
  <2>2. CASE AmEnd(c)
    BY <1>0, <2>1, <2>2, AmSettles, AmQuiet
  <2>3. CASE ~AmEnd(c)
    <3>1. PICK z : z = [at |-> "filing", who |-> amCall[c].who, login |-> amCall[c].login, locks |-> AmLatest(amCall[c].who)]
      OBVIOUS
    <3>a. amCall' = [amCall EXCEPT ![c] = z] /\ z.at = "filing" /\ "at" \in DOMAIN z
      BY <1>2, <2>3, <3>1 DEF AmApply, AmFile
    <3>2. /\ amCall' = [d \in AmCalls |-> amCall'[d]]
          /\ \A d \in AmCalls : "at" \in DOMAIN amCall'[d] /\ (amCall'[d].at = "chosen" => amCall'[d] = amCall[d])
      BY <1>0, <3>a
    <3> QED BY <2>1, <3>2, AmQuiet
  <2> QED BY <2>2, <2>3
<1>3. ASSUME NEW c \in AmCalls, NEW n, AmCreateInvite(c, n) PROVE AmInv'
  <2>1. amCall[c].at = "admin" /\ AmManages /\ AmEnd(c) /\ UNCHANGED amUsers
    BY <1>3 DEF AmCreateInvite, AmManages
  <2> QED BY <2>1, AmManaged
<1>4. ASSUME NEW c \in AmCalls, NEW i \in DOMAIN amInvites, AmRevokeInvite(c, i) PROVE AmInv'
  <2>1. amCall[c].at = "admin" /\ AmManages /\ AmEnd(c) /\ UNCHANGED amUsers
    BY <1>4 DEF AmRevokeInvite, AmManages
  <2> QED BY <2>1, AmManaged
<1>5. ASSUME NEW c \in AmCalls, NEW k, AmDecide(c, k) PROVE AmInv'
  <2>1. amCall[c].at = "admin" /\ AmManages /\ AmEnd(c) /\ UNCHANGED amUsers
    BY <1>5 DEF AmDecide, AmVerdict, AmManages
  <2> QED BY <2>1, AmManaged
<1>6. ASSUME NEW k, AmCool(k) PROVE AmInv'
  BY <1>0, <1>6, AmQuiet DEF AmCool
<1> QED BY <1>1, <1>2, <1>3, <1>4, <1>5, <1>6, AmAsks, AmLookup_Inv, AmChoose_Inv, AmAdmit_Inv, AmHeader_Inv DEF AmNext

LEMMA AmCounted == AmInv => AmAdmittedByInvite
<1> SUFFICES ASSUME AmInv PROVE AmAdmittedByInvite
  OBVIOUS
<1>1. \A r, s \in {x \in AmRows : x.role = "admin"} : r = s
  BY DEF AmInv, AmOneAdmin
<1>2. Cardinality({x \in AmRows : x.role = "admin"}) <= 1
  BY <1>1, AtMostOne
<1> QED BY <1>2 DEF AmInv, AmPaid, AmSpent, AmAdmittedByInvite

\* admin.go and auth.go: one account becomes the administrator, and every other
\* account that was admitted spent an invitation of its own.
THEOREM AdmissionCosts == AmSpec => []AmAdmittedByInvite
BY AmInit_Inv, AmNext_Inv, AmCounted, PTL DEF AmSpec

----------------------------------------------------------------------------
(* Shares *)

FrShare == [device : FrKeys, peer : FrPeers, manage : BOOLEAN, dead : BOOLEAN, live : BOOLEAN]
FrToken == [device : FrMachines, live : BOOLEAN]
FrRequested == [at : {"resolved", "befriended"}, device : FrKeys, peer : FrPeers, dead : BOOLEAN]
FrCounting == [at : {"counted"}, device : FrMachines]
FrAt == {FrIdle} \union FrRequested \union FrCounting

FrTyped ==
  /\ frFriends = [p \in FrPeers |-> frFriends[p]] /\ frIds \subseteq FrMachines
  /\ frAcl \in Seq(FrShare) /\ frTokens \in Seq(FrToken) /\ frCall \in [FrCalls -> FrAt]

\* A request that read its friendship holds that row.
FrHeld ==
  \A c \in FrCalls : frCall[c].at = "befriended" =>
    frFriends[frCall[c].peer] = {"accepted"} /\ frCall[c].peer \notin frRemoving

\* One request at a time has counted the tokens, and there was room for one more.
FrCounted ==
  /\ \A c, d \in FrCalls : frCall[c].at = "counted" /\ frCall[d].at = "counted" => c = d
  /\ \A c \in FrCalls : frCall[c].at = "counted" => FrLive < FrMaxLive

FrInv == FrTyped /\ FrShareNeedsFriend /\ FrHeld /\ FrCounted /\ FrWithinCap

LEMMA FrInit_Inv == FrInit => FrInv
<1> SUFFICES ASSUME FrInit PROVE FrInv
  OBVIOUS
<1>1. {t \in DOMAIN frTokens : frTokens[t].live} = {}
  BY DEF FrInit
<1>2. FrLive = 0
  BY <1>1, FS_EmptySet DEF FrLive
<1>3. FrIdle \in FrAt /\ FrIdle.at = "idle"
  BY DEF FrIdle, FrAt
<1>4. FrTyped
  BY <1>3 DEF FrInit, FrTyped
<1> QED BY <1>2, <1>3, <1>4, FrAssumption DEF FrInit, FrInv, FrShareNeedsFriend, FrHeld, FrCounted, FrWithinCap

\* A sequence rewritten entry by entry keeps its length and its set.
LEMMA FrRewritten ==
  ASSUME NEW S, NEW s \in Seq(S), NEW g, g = [i \in DOMAIN s |-> g[i]], \A i \in DOMAIN s : g[i] \in S
  PROVE  g \in Seq(S) /\ DOMAIN g = DOMAIN s
<1>1. Len(s) \in Nat /\ DOMAIN s = 1 .. Len(s)
  BY LenProperties
<1>2. g \in [1 .. Len(s) -> S]
  BY <1>1
<1> QED BY <1>1, <1>2, SeqDef

\* The tokens live after a step are finitely many, and at most one more when one was inserted.
LEMMA FrLiveNat == ASSUME frTokens \in Seq(FrToken) PROVE FrLive \in Nat /\ IsFiniteSet({t \in DOMAIN frTokens : frTokens[t].live})
<1>1. Len(frTokens) \in Nat /\ DOMAIN frTokens = 1 .. Len(frTokens)
  BY LenProperties
<1>2. IsFiniteSet(1 .. Len(frTokens))
  BY <1>1, FS_Interval
<1>3. IsFiniteSet({t \in DOMAIN frTokens : frTokens[t].live})
  BY <1>1, <1>2, FS_Subset
<1> QED BY <1>3, FS_CardinalityType DEF FrLive

\* Steps that leave the friendships, their locks and the tokens alone.
LEMMA FrFrame ==
  ASSUME FrInv, UNCHANGED <<frFriends, frRemoving, frTokens>>, frIds' \subseteq FrMachines,
         frAcl' \in Seq(FrShare), FrShareNeedsFriend', frCall' \in [FrCalls -> FrAt],
         \A c \in FrCalls : frCall'[c].at \in {"befriended", "counted"} =>
            frCall[c].at = frCall'[c].at /\ (frCall[c].at = "befriended" => frCall[c].peer = frCall'[c].peer)
  PROVE  FrInv'
<1>1. FrLive' = FrLive
  BY DEF FrLive
<1>2. FrTyped'
  BY DEF FrInv, FrTyped
<1>3. FrHeld'
  BY DEF FrInv, FrHeld
<1>4. FrCounted' /\ FrWithinCap'
  BY <1>1 DEF FrInv, FrCounted, FrWithinCap
<1> QED BY <1>2, <1>3, <1>4 DEF FrInv

\* The same, of a step that rewrites the shares and revives none.
LEMMA FrRewrites ==
  ASSUME FrInv, UNCHANGED <<frFriends, frRemoving, frTokens, frCall>>, frIds' \subseteq FrMachines,
         frAcl' = [i \in DOMAIN frAcl |-> frAcl'[i]],
         \A i \in DOMAIN frAcl : /\ frAcl'[i] \in FrShare /\ frAcl'[i].peer = frAcl[i].peer
                                 /\ frAcl'[i].live => frAcl[i].live
  PROVE  FrInv'
<1>1. frAcl \in Seq(FrShare) /\ frCall \in [FrCalls -> FrAt]
  BY DEF FrInv, FrTyped
<1>2. frAcl' \in Seq(FrShare) /\ DOMAIN frAcl' = DOMAIN frAcl
  BY <1>1, FrRewritten
<1>3. FrShareNeedsFriend'
  BY <1>2 DEF FrInv, FrShareNeedsFriend
<1> QED BY <1>1, <1>2, <1>3, FrFrame

LEMMA FrShareOf == ASSUME FrInv, NEW i \in DOMAIN frAcl PROVE frAcl[i] \in FrShare
<1>1. frAcl \in Seq(FrShare) /\ i \in 1 .. Len(frAcl)
  BY LenProperties DEF FrInv, FrTyped
<1> QED BY <1>1, ElementOfSeq

LEMMA FrFriend_Inv ==
  ASSUME FrInv, NEW p \in FrPeers,
         \/ \E by \in {"owner", "peer"} : FrRequest(p, by)
         \/ FrAccept(p) \/ FrDecline(p) \/ FrRemoveBegin(p) \/ FrRemoveCommit(p)
  PROVE  FrInv'
<1>0. /\ frFriends = [q \in FrPeers |-> frFriends[q]] /\ frAcl \in Seq(FrShare)
      /\ frCall \in [FrCalls -> FrAt]
  BY DEF FrInv, FrTyped
<1>1. UNCHANGED <<frTokens, frCall, frIds>>
  BY DEF FrRequest, FrAccept, FrDecline, FrRemoveBegin, FrRemoveCommit
<1>2. FrLive' = FrLive /\ FrCounted' /\ FrWithinCap'
  BY <1>1 DEF FrLive, FrInv, FrCounted, FrWithinCap
<1>a. {"owner"} # {"accepted"} /\ {"peer"} # {"accepted"} /\ {"accepted"} # {}
  OBVIOUS
<1>b. \A i \in DOMAIN frAcl : frAcl[i].peer \in FrPeers
  BY FrShareOf DEF FrShare
<1>c. \A c \in FrCalls : frCall[c].at = "befriended" => frCall[c].peer \in FrPeers
  BY <1>0 DEF FrAt, FrIdle, FrRequested, FrCounting
<1>3. CASE frFriends' = [frFriends EXCEPT ![p] = frFriends'[p]] /\ UNCHANGED <<frRemoving, frAcl>>
           /\ (frFriends[p] = {"accepted"} => frFriends'[p] = {"accepted"})
  <2>1. \A q \in FrPeers : frFriends[q] = {"accepted"} => frFriends'[q] = {"accepted"}
    BY <1>0, <1>3
  <2>2. FrTyped'
    BY <1>0, <1>1, <1>3 DEF FrInv, FrTyped
  <2>3. FrShareNeedsFriend'
    BY <1>3, <1>b, <2>1 DEF FrInv, FrShareNeedsFriend
  <2>4. FrHeld'
    BY <1>1, <1>3, <1>c, <2>1 DEF FrInv, FrHeld
  <2> QED BY <1>2, <2>2, <2>3, <2>4 DEF FrInv
<1>4. CASE FrRemoveBegin(p)
  <2>1. UNCHANGED <<frFriends, frAcl>> /\ frRemoving' = frRemoving \union {p}
        /\ \A c \in FrCalls : frCall[c].at = "befriended" => frCall[c].peer # p
    BY <1>4 DEF FrRemoveBegin, FrRowFree
  <2>2. FrTyped' /\ FrShareNeedsFriend'
    BY <1>0, <1>1, <2>1 DEF FrInv, FrTyped, FrShareNeedsFriend
  <2>3. FrHeld'
    BY <1>1, <2>1 DEF FrInv, FrHeld
  <2> QED BY <1>2, <2>2, <2>3 DEF FrInv
<1>5. CASE FrRemoveCommit(p)
  <2>1. /\ p \in frRemoving /\ frRemoving' = frRemoving \ {p} /\ frFriends' = [frFriends EXCEPT ![p] = {}]
        /\ frAcl' = [i \in DOMAIN frAcl |-> IF frAcl[i].peer = p THEN [frAcl[i] EXCEPT !.live = FALSE] ELSE frAcl[i]]
    BY <1>5 DEF FrRemoveCommit
  <2>2. \A i \in DOMAIN frAcl : /\ frAcl'[i] \in FrShare /\ frAcl'[i].peer = frAcl[i].peer
                                /\ frAcl'[i].live => frAcl[i].live /\ frAcl[i].peer # p
    BY <2>1, FrShareOf DEF FrShare
  <2>3. frAcl' \in Seq(FrShare) /\ DOMAIN frAcl' = DOMAIN frAcl
    BY <1>0, <2>1, <2>2, FrRewritten, SMTT(30)
  <2>4. \A q \in FrPeers : q # p => frFriends'[q] = frFriends[q]
    BY <1>0, <2>1
  <2>5. FrTyped'
    BY <1>0, <1>1, <2>1, <2>3 DEF FrInv, FrTyped
  <2>6. FrShareNeedsFriend'
    BY <1>b, <2>2, <2>3, <2>4 DEF FrInv, FrShareNeedsFriend
  <2>7. FrHeld'
    BY <1>1, <1>c, <2>1, <2>4 DEF FrInv, FrHeld
  <2> QED BY <1>2, <2>5, <2>6, <2>7 DEF FrInv
<1>6. ASSUME NEW by \in {"owner", "peer"}, FrRequest(p, by) PROVE FrInv'
  <2>1. PICK row : row = FrAsked(frFriends[p], by)
    OBVIOUS
  <2>2. frFriends' = [frFriends EXCEPT ![p] = row] /\ UNCHANGED <<frRemoving, frAcl>>
    BY <1>6, <2>1 DEF FrRequest
  <2>3. frFriends'[p] = row
    BY <1>0, <2>2
  <2>4. frFriends[p] = {"accepted"} => row = {"accepted"}
    BY <2>1, <1>a DEF FrAsked
  <2> QED BY <1>3, <2>2, <2>3, <2>4
<1>7. CASE FrAccept(p) \/ FrDecline(p)
  <2>1. PICK row : frFriends' = [frFriends EXCEPT ![p] = row] /\ frFriends[p] # {"accepted"} /\ UNCHANGED <<frRemoving, frAcl>>
    BY <1>7, <1>a DEF FrAccept, FrDecline
  <2>2. frFriends'[p] = row
    BY <1>0, <2>1
  <2> QED BY <1>3, <2>1, <2>2
<1> QED BY <1>4, <1>5, <1>6, <1>7

LEMMA FrRecords_Inv ==
  ASSUME FrInv,
         \/ \E m \in FrMachines : FrRegister(m) \/ FrRegisterLegacy(m)
         \/ \E key \in FrKeys : FrUnbound(key) \/ FrDesignate(key)
         \/ FrUndesignate
         \/ \E key \in FrKeys, p \in FrPeers : FrRevoke(key, p) \/ \E b \in BOOLEAN : FrManage(key, p, b)
  PROVE  FrInv'
<1>0. frAcl \in Seq(FrShare) /\ frCall \in [FrCalls -> FrAt] /\ frIds \subseteq FrMachines
  BY DEF FrInv, FrTyped
<1>1. UNCHANGED <<frFriends, frRemoving, frTokens, frCall>> /\ frIds' \subseteq FrMachines
  BY <1>0 DEF FrRegister, FrRegisterLegacy, FrUnbound, FrDesignate, FrUndesignate, FrRevoke, FrManage
<1>2. CASE UNCHANGED frAcl
  <2>1. FrShareNeedsFriend'
    BY <1>1, <1>2 DEF FrInv, FrShareNeedsFriend
  <2> QED BY <1>0, <1>1, <1>2, <2>1, FrFrame
<1>3. ASSUME NEW m \in FrMachines, frAcl' = FrMoved(m) PROVE FrInv'
  <2>1. frAcl' = [i \in DOMAIN frAcl |-> frAcl'[i]]
    BY <1>3 DEF FrMoved
  <2>2. \A i \in DOMAIN frAcl : /\ frAcl'[i] \in FrShare /\ frAcl'[i].peer = frAcl[i].peer
                                /\ frAcl'[i].live => frAcl[i].live
    BY <1>3, FrShareOf DEF FrMoved, FrShare, FrKeys
  <2> QED BY <1>1, <2>1, <2>2, FrRewrites
<1>4. ASSUME NEW key \in FrKeys,
             frAcl' = [i \in DOMAIN frAcl |-> [frAcl[i] EXCEPT !.live = @ /\ frAcl[i].device # key]]
      PROVE  FrInv'
  <2>1. frAcl' = [i \in DOMAIN frAcl |-> frAcl'[i]]
    BY <1>4
  <2>2. \A i \in DOMAIN frAcl : /\ frAcl'[i] \in FrShare /\ frAcl'[i].peer = frAcl[i].peer
                                /\ frAcl'[i].live => frAcl[i].live
    BY <1>4, FrShareOf DEF FrShare
  <2> QED BY <1>1, <2>1, <2>2, FrRewrites
<1>5. ASSUME NEW d, NEW p, frAcl' = FrRevoked(d, p) PROVE FrInv'
  <2>1. frAcl' = [i \in DOMAIN frAcl |-> frAcl'[i]]
    BY <1>5 DEF FrRevoked
  <2>2. \A i \in DOMAIN frAcl : /\ frAcl'[i] \in FrShare /\ frAcl'[i].peer = frAcl[i].peer
                                /\ frAcl'[i].live => frAcl[i].live
    BY <1>5, FrShareOf DEF FrRevoked, FrShare
  <2> QED BY <1>1, <2>1, <2>2, FrRewrites
<1>6. ASSUME NEW d, NEW p, NEW b \in BOOLEAN, frAcl' = FrManaged(d, p, b) PROVE FrInv'
  <2>1. frAcl' = [i \in DOMAIN frAcl |-> frAcl'[i]]
    BY <1>6 DEF FrManaged
  <2>2. \A i \in DOMAIN frAcl : /\ frAcl'[i] \in FrShare /\ frAcl'[i].peer = frAcl[i].peer
                                /\ frAcl'[i].live => frAcl[i].live
    BY <1>6, FrShareOf DEF FrManaged, FrShare
  <2> QED BY <1>1, <2>1, <2>2, FrRewrites
<1>7. CASE \E m \in FrMachines : FrRegister(m) \/ FrRegisterLegacy(m)
  BY <1>2, <1>3, <1>7 DEF FrRegister, FrRegisterLegacy
<1>8. CASE \E key \in FrKeys : FrUnbound(key) \/ FrDesignate(key)
  BY <1>2, <1>4, <1>8 DEF FrUnbound, FrDesignate
<1>9. CASE FrUndesignate
  BY <1>2, <1>9 DEF FrUndesignate
<1>10. CASE \E key \in FrKeys, p \in FrPeers : FrRevoke(key, p) \/ \E b \in BOOLEAN : FrManage(key, p, b)
  BY <1>5, <1>6, <1>10 DEF FrRevoke, FrManage
<1> QED BY <1>7, <1>8, <1>9, <1>10

LEMMA FrUnbind_Inv == ASSUME FrInv, NEW key \in FrKeys, FrUnbind(key) PROVE FrInv'
<1>0. frAcl \in Seq(FrShare) /\ frCall \in [FrCalls -> FrAt] /\ frIds \subseteq FrMachines
  BY DEF FrInv, FrTyped
<1>1. UNCHANGED <<frFriends, frRemoving, frTokens>> /\ frIds' \subseteq FrMachines
  BY <1>0 DEF FrUnbind
<1>2. frAcl' = [i \in DOMAIN frAcl |-> [frAcl[i] EXCEPT !.dead = @ \/ frAcl[i].device = key]]
  BY DEF FrUnbind
<1>3. \A i \in DOMAIN frAcl : /\ frAcl'[i] \in FrShare /\ frAcl'[i].peer = frAcl[i].peer
                              /\ frAcl'[i].live = frAcl[i].live
  BY <1>2, FrShareOf DEF FrShare
<1>4. frAcl' \in Seq(FrShare) /\ DOMAIN frAcl' = DOMAIN frAcl
  BY <1>0, <1>2, <1>3, FrRewritten
<1>5. FrShareNeedsFriend'
  BY <1>1, <1>3, <1>4 DEF FrInv, FrShareNeedsFriend
<1>6. frCall' = [c \in FrCalls |-> IF frCall[c].at \in {"resolved", "befriended"} /\ frCall[c].device = key
                                  THEN [frCall[c] EXCEPT !.dead = TRUE] ELSE frCall[c]]
  BY DEF FrUnbind
<1>7. ASSUME NEW c \in FrCalls
      PROVE  frCall'[c] \in FrAt /\ frCall'[c].at = frCall[c].at
             /\ (frCall[c].at = "befriended" => frCall[c].peer = frCall'[c].peer)
  <2>1. CASE frCall'[c] = frCall[c]
    BY <1>0, <2>1
  <2>2. CASE frCall[c].at \in {"resolved", "befriended"}
    <3>1. frCall[c] \in FrRequested
      BY <1>0, <2>2 DEF FrAt, FrIdle, FrRequested, FrCounting
    <3> QED BY <1>6, <3>1 DEF FrAt, FrRequested
  <2> QED BY <1>6, <2>1, <2>2
<1>8. frCall' \in [FrCalls -> FrAt]
  BY <1>6, <1>7
<1> QED BY <1>1, <1>4, <1>5, <1>7, <1>8, FrFrame

LEMMA FrGrants_Inv ==
  ASSUME FrInv, NEW c \in FrCalls,
         \/ \E key \in FrKeys, p \in FrPeers : FrResolve(c, key, p)
         \/ FrBefriended(c) \/ \E b \in BOOLEAN : FrGrant(c, b)
  PROVE  FrInv'
<1>0. /\ frAcl \in Seq(FrShare) /\ frCall \in [FrCalls -> FrAt] /\ frIds \subseteq FrMachines
      /\ FrIdle \in FrAt /\ FrIdle.at = "idle"
  BY DEF FrInv, FrTyped, FrAt, FrIdle
<1>1. UNCHANGED <<frFriends, frRemoving, frTokens, frIds>>
  BY DEF FrResolve, FrBefriended, FrGrant
<1>2. CASE UNCHANGED frAcl /\ \E z \in FrAt : frCall' = [frCall EXCEPT ![c] = z] /\ z.at \notin {"befriended", "counted"}
  <2>1. PICK z \in FrAt : frCall' = [frCall EXCEPT ![c] = z] /\ z.at \notin {"befriended", "counted"}
    BY <1>2
  <2>2. frCall' \in [FrCalls -> FrAt] /\ frCall'[c] = z /\ \A d \in FrCalls : d # c => frCall'[d] = frCall[d]
    BY <1>0, <2>1
  <2>3. FrShareNeedsFriend'
    BY <1>1, <1>2 DEF FrInv, FrShareNeedsFriend
  <2> QED BY <1>0, <1>1, <1>2, <2>1, <2>2, <2>3, FrFrame
<1>3. ASSUME NEW key \in FrKeys, NEW p \in FrPeers, FrResolve(c, key, p) PROVE FrInv'
  <2>1. PICK d \in FrResolves(key) : frCall' = [frCall EXCEPT ![c] = [at |-> "resolved", device |-> d, peer |-> p, dead |-> FALSE]]
    BY <1>3 DEF FrResolve
  <2>2. d \in FrKeys
    BY <1>0 DEF FrResolves, FrKeys
  <2>3. PICK z : z = [at |-> "resolved", device |-> d, peer |-> p, dead |-> FALSE]
    OBVIOUS
  <2>4. z \in FrAt /\ z.at = "resolved"
    BY <2>2, <2>3 DEF FrAt, FrRequested
  <2>5. UNCHANGED frAcl
    BY <1>3 DEF FrResolve
  <2> QED BY <1>2, <2>1, <2>3, <2>4, <2>5
<1>4. CASE FrBefriended(c)
  <2>1. frCall[c] \in FrRequested /\ frCall[c].peer \notin frRemoving /\ UNCHANGED frAcl
    BY <1>0, <1>4 DEF FrBefriended, FrAt, FrIdle, FrRequested, FrCounting
  <2>2. CASE frFriends[frCall[c].peer] = {"accepted"}
    <3>1. PICK z : z = [frCall[c] EXCEPT !.at = "befriended"]
      OBVIOUS
    <3>2. frCall' = [frCall EXCEPT ![c] = z]
      BY <1>4, <2>2, <3>1 DEF FrBefriended
    <3>3. z \in FrAt /\ z.at = "befriended" /\ z.peer = frCall[c].peer
      BY <2>1, <3>1 DEF FrAt, FrRequested
    <3>4. frCall' \in [FrCalls -> FrAt] /\ frCall'[c] = z /\ \A d \in FrCalls : d # c => frCall'[d] = frCall[d]
      BY <1>0, <3>2, <3>3
    <3>5. FrTyped' /\ FrShareNeedsFriend'
      BY <1>1, <2>1, <3>4 DEF FrInv, FrTyped, FrShareNeedsFriend
    <3>6. FrHeld'
      BY <1>1, <2>1, <2>2, <3>3, <3>4 DEF FrInv, FrHeld
    <3>7. FrLive' = FrLive
      BY <1>1 DEF FrLive
    <3>8. FrCounted' /\ FrWithinCap'
      BY <3>3, <3>4, <3>7 DEF FrInv, FrCounted, FrWithinCap
    <3> QED BY <3>5, <3>6, <3>8 DEF FrInv
  <2>3. CASE frFriends[frCall[c].peer] # {"accepted"}
    <3>1. frCall' = [frCall EXCEPT ![c] = FrIdle]
      BY <1>4, <2>3 DEF FrBefriended
    <3> QED BY <1>0, <1>2, <2>1, <3>1
  <2> QED BY <2>2, <2>3
<1>5. ASSUME NEW b \in BOOLEAN, FrGrant(c, b) PROVE FrInv'
  <2>1. frCall[c] \in FrRequested /\ frCall[c].at = "befriended"
    BY <1>0, <1>5 DEF FrGrant, FrAt, FrIdle, FrRequested, FrCounting
  <2>2. PICK z : z = [device |-> frCall[c].device, peer |-> frCall[c].peer, manage |-> b,
                      dead |-> frCall[c].dead, live |-> TRUE]
    OBVIOUS
  <2>3. z \in FrShare /\ frFriends[z.peer] = {"accepted"}
    BY <2>1, <2>2 DEF FrShare, FrRequested, FrInv, FrHeld
  <2>4. frAcl' = frAcl \/ frAcl' = Append(frAcl, z)
    BY <1>5, <2>2 DEF FrGrant
  <2>5. /\ frAcl' \in Seq(FrShare)
        /\ \A i \in DOMAIN frAcl' : (i \in DOMAIN frAcl /\ frAcl'[i] = frAcl[i]) \/ frAcl'[i] = z
    BY <1>0, <2>3, <2>4, AppendProperties, LenProperties
  <2>6. FrShareNeedsFriend'
    BY <1>1, <2>3, <2>5 DEF FrInv, FrShareNeedsFriend
  <2>7. frCall' = [frCall EXCEPT ![c] = FrIdle]
    BY <1>5 DEF FrGrant
  <2>8. frCall' \in [FrCalls -> FrAt] /\ frCall'[c] = FrIdle /\ \A d \in FrCalls : d # c => frCall'[d] = frCall[d]
    BY <1>0, <2>7
  <2> QED BY <1>0, <1>1, <2>5, <2>6, <2>8, FrFrame
<1> QED BY <1>3, <1>4, <1>5

LEMMA FrTokens_Inv ==
  ASSUME FrInv,
         \/ \E c \in FrCalls : FrScopedIssue(c) \/ \E m \in FrMachines : FrScopedCount(c, m)
         \/ \E t \in DOMAIN frTokens : FrScopedEnds(t)
  PROVE  FrInv'
<1>0. /\ frAcl \in Seq(FrShare) /\ frTokens \in Seq(FrToken) /\ frCall \in [FrCalls -> FrAt]
      /\ FrIdle \in FrAt /\ FrIdle.at = "idle"
  BY DEF FrInv, FrTyped, FrAt, FrIdle
<1>1. UNCHANGED <<frFriends, frRemoving, frIds, frAcl>>
  BY DEF FrScopedIssue, FrScopedCount, FrScopedEnds
<1>2. FrShareNeedsFriend'
  BY <1>1 DEF FrInv, FrShareNeedsFriend
<1>3. FrLive \in Nat /\ IsFiniteSet({t \in DOMAIN frTokens : frTokens[t].live}) /\ FrMaxLive \in Nat
  BY <1>0, FrLiveNat, FrAssumption
<1>4. ASSUME NEW c \in FrCalls, NEW m \in FrMachines, FrScopedCount(c, m) PROVE FrInv'
  <2>1. PICK z : z = [at |-> "counted", device |-> m]
    OBVIOUS
  <2>2. /\ frCall' = [frCall EXCEPT ![c] = z] /\ z.at = "counted" /\ z \in FrAt /\ UNCHANGED frTokens
        /\ FrLive < FrMaxLive /\ \A d \in FrCalls : frCall[d].at # "counted"
    BY <1>4, <2>1 DEF FrScopedCount, FrScopedFree, FrAt, FrCounting
  <2>3. frCall' \in [FrCalls -> FrAt] /\ frCall'[c] = z /\ \A d \in FrCalls : d # c => frCall'[d] = frCall[d]
    BY <1>0, <2>2
  <2>4. FrLive' = FrLive
    BY <2>2 DEF FrLive
  <2>5. FrTyped'
    BY <1>1, <2>2, <2>3 DEF FrInv, FrTyped
  <2>6. FrHeld'
    BY <1>1, <2>2, <2>3 DEF FrInv, FrHeld
  <2>7. FrCounted' /\ FrWithinCap'
    BY <1>3, <2>2, <2>3, <2>4 DEF FrInv, FrCounted, FrWithinCap
  <2> QED BY <1>2, <2>5, <2>6, <2>7 DEF FrInv
<1>5. ASSUME NEW c \in FrCalls, FrScopedIssue(c) PROVE FrInv'
  <2>1. frCall[c] \in FrCounting /\ FrLive < FrMaxLive
    BY <1>0, <1>5 DEF FrScopedIssue, FrAt, FrIdle, FrRequested, FrCounting, FrInv, FrCounted
  <2>2. PICK z : z = [device |-> frCall[c].device, live |-> TRUE]
    OBVIOUS
  <2>3. z \in FrToken /\ frTokens' = Append(frTokens, z) /\ frCall' = [frCall EXCEPT ![c] = FrIdle]
    BY <1>5, <2>1, <2>2 DEF FrScopedIssue, FrToken, FrCounting
  <2>4. frCall' \in [FrCalls -> FrAt] /\ frCall'[c] = FrIdle /\ \A d \in FrCalls : d # c => frCall'[d] = frCall[d]
    BY <1>0, <2>3
  <2>5. /\ frTokens' \in Seq(FrToken)
        /\ {t \in DOMAIN frTokens' : frTokens'[t].live} \subseteq {t \in DOMAIN frTokens : frTokens[t].live} \union {Len(frTokens) + 1}
    BY <1>0, <2>3, AppendProperties, LenProperties
  <2>6. FrLive' <= FrLive + 1 /\ FrLive' \in Nat
    <3>1. PICK S : S = {t \in DOMAIN frTokens : frTokens[t].live}
      OBVIOUS
    <3>2. PICK x : x = Len(frTokens) + 1
      OBVIOUS
    <3>3. IsFiniteSet(S \union {x}) /\ Cardinality(S \union {x}) <= Cardinality(S) + 1
      <4>1. IsFiniteSet(S)
        BY <1>3, <3>1, Zenon
      <4>2. Cardinality(S) \in Nat
        BY <4>1, FS_CardinalityType
      <4>3. IsFiniteSet(S \union {x})
        BY <4>1, FS_AddElement, Zenon
      <4>4. Cardinality(S \union {x}) = IF x \in S THEN Cardinality(S) ELSE Cardinality(S) + 1
        BY <4>1, FS_AddElement, Zenon
      <4> QED BY <4>2, <4>3, <4>4
    <3>4. PICK T : T = {t \in DOMAIN frTokens' : frTokens'[t].live}
      OBVIOUS
    <3>5. T \subseteq S \union {x}
      BY <2>5, <3>1, <3>2, <3>4
    <3>6. Cardinality(T) <= Cardinality(S \union {x}) /\ IsFiniteSet(T)
      BY <3>3, <3>5, FS_Subset
    <3>7. Cardinality(T) \in Nat /\ Cardinality(S \union {x}) \in Nat
      BY <3>3, <3>6, FS_CardinalityType
    <3>8. FrLive = Cardinality(S) /\ FrLive' = Cardinality(T)
      BY <3>1, <3>4 DEF FrLive
    <3> QED BY <1>3, <3>3, <3>6, <3>7, <3>8
  <2>8. FrTyped'
    BY <1>0, <1>1, <2>4, <2>5 DEF FrInv, FrTyped
  <2>9. FrHeld'
    BY <1>0, <1>1, <2>4 DEF FrInv, FrHeld
  <2>10. FrCounted'
    BY <1>0, <1>5, <2>4 DEF FrInv, FrCounted, FrScopedIssue
  <2>11. FrWithinCap'
    BY <1>3, <2>1, <2>6 DEF FrWithinCap
  <2> QED BY <1>2, <2>8, <2>9, <2>10, <2>11 DEF FrInv
<1>6. ASSUME NEW t \in DOMAIN frTokens, FrScopedEnds(t) PROVE FrInv'
  <2>1. frTokens[t] \in FrToken
    <3>1. t \in 1 .. Len(frTokens)
      BY <1>0, LenProperties
    <3> QED BY <1>0, <3>1, ElementOfSeq
  <2>2. PICK z : z = [frTokens[t] EXCEPT !.live = FALSE]
    OBVIOUS
  <2>3. z \in FrToken /\ ~z.live /\ frTokens' = [frTokens EXCEPT ![t] = z] /\ UNCHANGED frCall
    BY <1>6, <2>1, <2>2 DEF FrScopedEnds, FrEnded, FrToken
  <2>4. /\ frTokens' \in Seq(FrToken) /\ DOMAIN frTokens' = DOMAIN frTokens
        /\ \A u \in DOMAIN frTokens : frTokens'[u] = IF u = t THEN z ELSE frTokens[u]
    BY <1>0, <2>3, ExceptSeq
  <2>5. FrLive' <= FrLive /\ FrLive' \in Nat
    <3>1. {u \in DOMAIN frTokens' : frTokens'[u].live} \subseteq {u \in DOMAIN frTokens : frTokens[u].live}
      BY <2>3, <2>4
    <3> QED BY <1>3, <3>1, FS_Subset, FS_CardinalityType DEF FrLive
  <2>6. FrTyped' /\ FrHeld'
    BY <1>0, <1>1, <2>3, <2>4 DEF FrInv, FrTyped, FrHeld
  <2>7. FrCounted' /\ FrWithinCap'
    BY <1>3, <2>3, <2>5 DEF FrInv, FrCounted, FrWithinCap
  <2> QED BY <1>2, <2>6, <2>7 DEF FrInv
<1> QED BY <1>4, <1>5, <1>6

LEMMA FrNext_Inv == FrInv /\ [FrNext]_frVars => FrInv'
<1> SUFFICES ASSUME FrInv, [FrNext]_frVars PROVE FrInv'
  OBVIOUS
<1>1. CASE UNCHANGED frVars
  <2>1. FrLive' = FrLive
    BY <1>1 DEF frVars, FrLive
  <2> QED BY <1>1, <2>1 DEF FrInv, FrTyped, FrShareNeedsFriend, FrHeld, FrCounted, FrWithinCap, frVars
<1>2. CASE FrNext
  BY <1>2, FrFriend_Inv, FrRecords_Inv, FrUnbind_Inv, FrGrants_Inv, FrTokens_Inv DEF FrNext
<1> QED BY <1>1, <1>2

\* friends.go and admin.go: nobody keeps a share of someone who is no friend,
\* and an account's live scoped tokens stay within their limit.
THEOREM SharesHold == FrSpec => []FrSafe
<1>1. FrInv => FrSafe
  BY DEF FrInv, FrSafe
<1> QED BY <1>1, FrInit_Inv, FrNext_Inv, PTL DEF FrSpec

----------------------------------------------------------------------------
(* What an account costs and what it may hand on *)

\* admin.go, auth.go and friends.go: one account becomes the administrator and
\* every other spent an invitation of its own; nobody keeps a share of someone
\* who is no friend, and live scoped tokens stay within their limit.
THEOREM AccountsHold == AmSpec /\ FrSpec => []AccountsExact
BY AdmissionCosts, SharesHold, PTL DEF AccountsExact

----------------------------------------------------------------------------
(* A controller's call *)

\* Identities carry their device, and a pin of a device's name is of that device.
CdTyped ==
  /\ cdNamed \in CdDevices
  /\ DOMAIN cdKey = CdDevices /\ cdKey = [d \in CdDevices |-> cdKey[d]]
  /\ DOMAIN cdPin = CdDevices /\ cdPin = [d \in CdDevices |-> cdPin[d]]
  /\ cdCall \in [CdCalls -> [at : {"dial", "sent", "over"}, name : CdDevices \union {CdNoDevice},
                             to : CdDevices \union {CdNoDevice}, cancelled : BOOLEAN, closed : BOOLEAN]]
  /\ cdDev = [k \in CdCalls |-> cdDev[k]] /\ cdResult = [k \in CdCalls |-> cdResult[k]]

CdOwnKeys ==
  \A d \in CdDevices : /\ cdKey[d][1] = d
                       /\ \A x \in cdPin[d] \union cdOldPin[d] : x[1] = d

\* A call that was let through reached the device it had resolved; one that still
\* dials, or stopped for the person to compare the identity, has asked nothing.
CdTold ==
  \A k \in CdCalls :
    /\ cdCall[k].at = "sent" => cdCall[k].to = cdCall[k].name
    /\ cdCall[k].at = "dial" => cdResult[k] = "none" /\ cdDev[k] = "none"
    /\ cdResult[k] = "trust" => cdDev[k] = "none"
    /\ cdResult[k] \in {"refused", "reject"} => cdDev[k] = "rejected"

CdInv == CdTyped /\ CdOwnKeys /\ CdTold

LEMMA CdInit_Inv == CdInit => CdInv
<1> SUFFICES ASSUME CdInit PROVE CdInv
  OBVIOUS
<1>1. CdTyped
  BY DEF CdInit, CdTyped, CdNew
<1>2. CdOwnKeys
  BY DEF CdInit, CdOwnKeys
<1>3. CdTold
  BY DEF CdInit, CdTold, CdNew
<1> QED BY <1>1, <1>2, <1>3 DEF CdInv

\* A step of one call that leaves the identities and the pins alone.
LEMMA CdCallStep ==
  ASSUME CdInv, NEW k \in CdCalls, UNCHANGED <<cdRelay, cdPin, cdOldPin>>,
         cdCall' \in [CdCalls -> [at : {"dial", "sent", "over"}, name : CdDevices \union {CdNoDevice},
                                  to : CdDevices \union {CdNoDevice}, cancelled : BOOLEAN, closed : BOOLEAN]],
         cdDev' = [j \in CdCalls |-> cdDev'[j]], cdResult' = [j \in CdCalls |-> cdResult'[j]],
         \A j \in CdCalls : j # k => cdCall'[j] = cdCall[j] /\ cdDev'[j] = cdDev[j] /\ cdResult'[j] = cdResult[j],
         cdCall'[k].at = "sent" => cdCall'[k].to = cdCall'[k].name,
         cdCall'[k].at = "dial" => cdResult'[k] = "none" /\ cdDev'[k] = "none",
         cdResult'[k] = "trust" => cdDev'[k] = "none",
         cdResult'[k] \in {"refused", "reject"} => cdDev'[k] = "rejected"
  PROVE  CdInv'
<1>1. CdTyped'
  BY DEF CdInv, CdTyped, cdRelay
<1>2. CdOwnKeys'
  BY DEF CdInv, CdOwnKeys, cdRelay
<1>3. CdTold'
  BY DEF CdInv, CdTold
<1> QED BY <1>1, <1>2, <1>3 DEF CdInv

LEMMA CdEnds ==
  ASSUME CdInv, NEW k \in CdCalls, NEW result, CdEnd(k, result), UNCHANGED <<cdRelay, cdPin, cdOldPin, cdDev>>,
         result = "trust" => cdDev[k] = "none",
         result \in {"refused", "reject"} => cdDev[k] = "rejected"
  PROVE  CdInv'
<1>0. /\ cdCall \in [CdCalls -> [at : {"dial", "sent", "over"}, name : CdDevices \union {CdNoDevice},
                                 to : CdDevices \union {CdNoDevice}, cancelled : BOOLEAN, closed : BOOLEAN]]
      /\ cdDev = [j \in CdCalls |-> cdDev[j]] /\ cdResult = [j \in CdCalls |-> cdResult[j]]
  BY DEF CdInv, CdTyped
<1>1. PICK z : z = [cdCall[k] EXCEPT !.at = "over", !.closed = TRUE]
  OBVIOUS
<1>2. /\ z \in [at : {"dial", "sent", "over"}, name : CdDevices \union {CdNoDevice},
                to : CdDevices \union {CdNoDevice}, cancelled : BOOLEAN, closed : BOOLEAN]
      /\ z.at = "over"
  BY <1>0, <1>1
<1>3. cdCall' = [cdCall EXCEPT ![k] = z] /\ cdResult' = [cdResult EXCEPT ![k] = result]
  BY <1>1 DEF CdEnd
<1>4. /\ cdCall' \in [CdCalls -> [at : {"dial", "sent", "over"}, name : CdDevices \union {CdNoDevice},
                                  to : CdDevices \union {CdNoDevice}, cancelled : BOOLEAN, closed : BOOLEAN]]
      /\ cdCall'[k].at = "over" /\ cdResult'[k] = result
      /\ \A j \in CdCalls : j # k => cdCall'[j] = cdCall[j] /\ cdResult'[j] = cdResult[j]
      /\ cdResult' = [j \in CdCalls |-> cdResult'[j]]
  BY <1>0, <1>2, <1>3
<1> QED BY <1>0, <1>4, CdCallStep

LEMMA CdNext_Inv == CdInv /\ [CdNext]_cdVars => CdInv'
<1> SUFFICES ASSUME CdInv, [CdNext]_cdVars PROVE CdInv'
  OBVIOUS
<1>0. /\ CdTyped /\ CdOwnKeys /\ CdTold
      /\ cdCall \in [CdCalls -> [at : {"dial", "sent", "over"}, name : CdDevices \union {CdNoDevice},
                                 to : CdDevices \union {CdNoDevice}, cancelled : BOOLEAN, closed : BOOLEAN]]
      /\ cdDev = [j \in CdCalls |-> cdDev[j]] /\ cdResult = [j \in CdCalls |-> cdResult[j]]
  BY DEF CdInv, CdTyped
<1>1. CASE UNCHANGED cdVars
  BY <1>1 DEF cdVars, cdRelay, CdInv, CdTyped, CdOwnKeys, CdTold
<1>2. ASSUME NEW d \in CdDevices, CdMove(d) PROVE CdInv'
  <2>1. UNCHANGED <<cdPin, cdOldPin, cdCall, cdDev, cdResult>>
    BY <1>2 DEF CdMove
  <2>2. PICK n : cdNamed' \in CdDevices /\ (cdKey' = cdKey \/ cdKey' = [cdKey EXCEPT ![d] = <<d, n>>])
    BY <1>0, <1>2 DEF CdMove, CdTyped
  <2>3. CdTyped'
    BY <1>0, <2>1, <2>2 DEF CdTyped
  <2>4. CdOwnKeys'
    BY <1>0, <2>1, <2>2 DEF CdTyped, CdOwnKeys
  <2>5. CdTold'
    BY <1>0, <2>1 DEF CdTold
  <2> QED BY <2>3, <2>4, <2>5 DEF CdInv
<1>3. ASSUME NEW k \in CdCalls, CdResolve(k) PROVE CdInv'
  <2>1. PICK z : z = [cdCall[k] EXCEPT !.name = cdNamed]
    OBVIOUS
  <2>2. cdCall' = [cdCall EXCEPT ![k] = z] /\ cdCall[k].at = "dial" /\ UNCHANGED <<cdRelay, cdOldPin, cdDev, cdResult>>
    BY <1>3, <2>1 DEF CdResolve
  <2>3. /\ z \in [at : {"dial", "sent", "over"}, name : CdDevices \union {CdNoDevice},
                  to : CdDevices \union {CdNoDevice}, cancelled : BOOLEAN, closed : BOOLEAN]
        /\ z.at = "dial"
    BY <1>0, <2>1, <2>2 DEF CdTyped
  <2>4. PICK pin : pin = (IF cdPin[cdNamed] = {} THEN cdOldPin[cdNamed] ELSE cdPin[cdNamed])
    OBVIOUS
  <2>5. cdPin' = [cdPin EXCEPT ![cdNamed] = pin]
    BY <1>3, <2>4 DEF CdResolve
  <2>6. CdTyped'
    BY <1>0, <2>2, <2>3, <2>5 DEF CdTyped, cdRelay
  <2>7. CdOwnKeys'
    BY <1>0, <2>2, <2>4, <2>5 DEF CdTyped, CdOwnKeys, cdRelay
  <2>8. CdTold'
    BY <1>0, <2>2, <2>3 DEF CdTold
  <2> QED BY <2>6, <2>7, <2>8 DEF CdInv
<1>4. ASSUME NEW k \in CdCalls, CdReach(k) \/ CdCancel(k) PROVE CdInv'
  <2>1. PICK z : z = IF CdReach(k) THEN [cdCall[k] EXCEPT !.to = cdNamed] ELSE [cdCall[k] EXCEPT !.cancelled = TRUE]
    OBVIOUS
  <2>2. cdCall' = [cdCall EXCEPT ![k] = z] /\ UNCHANGED <<cdRelay, cdPin, cdOldPin, cdDev, cdResult>>
    BY <1>4, <2>1 DEF CdReach, CdCancel
  <2>3. /\ z \in [at : {"dial", "sent", "over"}, name : CdDevices \union {CdNoDevice},
                  to : CdDevices \union {CdNoDevice}, cancelled : BOOLEAN, closed : BOOLEAN]
        /\ z.at = cdCall[k].at /\ z.name = cdCall[k].name /\ (z.at = "sent" => z.to = cdCall[k].to)
    BY <1>0, <2>1, ZenonT(60) DEF CdTyped, CdReach
  <2>4. /\ cdCall' \in [CdCalls -> [at : {"dial", "sent", "over"}, name : CdDevices \union {CdNoDevice},
                                    to : CdDevices \union {CdNoDevice}, cancelled : BOOLEAN, closed : BOOLEAN]]
        /\ cdCall'[k] = z /\ \A j \in CdCalls : j # k => cdCall'[j] = cdCall[j]
    BY <1>0, <2>2, <2>3
  <2>5. /\ cdDev' = [j \in CdCalls |-> cdDev'[j]] /\ cdResult' = [j \in CdCalls |-> cdResult'[j]]
        /\ cdCall'[k].at = "sent" => cdCall'[k].to = cdCall'[k].name
        /\ cdCall'[k].at = "dial" => cdResult'[k] = "none" /\ cdDev'[k] = "none"
        /\ cdResult'[k] = "trust" => cdDev'[k] = "none"
        /\ cdResult'[k] \in {"refused", "reject"} => cdDev'[k] = "rejected"
    BY <1>0, <2>2, <2>3, <2>4 DEF CdTold
  <2> QED BY <2>2, <2>4, <2>5, CdCallStep
<1>5. ASSUME NEW k \in CdCalls, CdHandshake(k) PROVE CdInv'
  <2>0. /\ cdCall[k].at = "dial" /\ cdCall[k].name \in CdDevices /\ cdCall[k].to \in CdDevices
        /\ UNCHANGED <<cdRelay, cdPin, cdOldPin>>
    BY <1>0, <1>5 DEF CdHandshake
  <2>1. ASSUME NEW result \in {"trust", "mismatch"}, CdEnd(k, result), UNCHANGED cdDev PROVE CdInv'
    <3>1. cdDev[k] = "none"
      BY <1>0, <2>0 DEF CdTold
    <3> QED BY <2>0, <2>1, <3>1, CdEnds
  <2>2. CASE CdMatches(k) /\ cdCall' = [cdCall EXCEPT ![k].at = "sent"] /\ cdDev' = [cdDev EXCEPT ![k] = "hello"] /\ UNCHANGED cdResult
    <3>1. cdCall[k].to = cdCall[k].name
      BY <1>0, <2>0, <2>2 DEF CdMatches, CdOwnKeys
    <3>2. PICK z : z = [cdCall[k] EXCEPT !.at = "sent"]
      OBVIOUS
    <3>3. /\ cdCall' = [cdCall EXCEPT ![k] = z]
          /\ z \in [at : {"dial", "sent", "over"}, name : CdDevices \union {CdNoDevice},
                    to : CdDevices \union {CdNoDevice}, cancelled : BOOLEAN, closed : BOOLEAN]
          /\ z.at = "sent" /\ z.to = z.name
      BY <1>0, <2>2, <3>1, <3>2
    <3>4. /\ cdCall' \in [CdCalls -> [at : {"dial", "sent", "over"}, name : CdDevices \union {CdNoDevice},
                                      to : CdDevices \union {CdNoDevice}, cancelled : BOOLEAN, closed : BOOLEAN]]
          /\ cdCall'[k] = z /\ \A j \in CdCalls : j # k => cdCall'[j] = cdCall[j] /\ cdDev'[j] = cdDev[j]
          /\ cdDev' = [j \in CdCalls |-> cdDev'[j]]
      BY <1>0, <2>2, <3>3, ZenonT(30)
    <3>5. cdResult'[k] = "none"
      BY <1>0, <2>0, <2>2 DEF CdTold
    <3> QED BY <1>0, <2>0, <2>2, <3>3, <3>4, <3>5, CdCallStep, SMTT(30)
  <2> QED BY <1>5, <2>1, <2>2 DEF CdHandshake
<1>6. ASSUME NEW k \in CdCalls, CdConfirm(k) PROVE CdInv'
  <2>1. /\ cdCall[k].to = cdCall[k].name /\ UNCHANGED <<cdRelay, cdOldPin, cdDev>>
        /\ cdPin' = [cdPin EXCEPT ![cdCall[k].name] = {cdKey[cdCall[k].to]}]
        /\ cdCall' = [cdCall EXCEPT ![k] = CdNew] /\ cdResult' = [cdResult EXCEPT ![k] = "none"]
        /\ cdDev[k] = "none"
    BY <1>0, <1>6 DEF CdConfirm, CdTold
  <2>2. /\ CdNew \in [at : {"dial", "sent", "over"}, name : CdDevices \union {CdNoDevice},
                      to : CdDevices \union {CdNoDevice}, cancelled : BOOLEAN, closed : BOOLEAN]
        /\ CdNew.at = "dial"
    BY DEF CdNew
  <2>3. CdTyped'
    BY <1>0, <2>1, <2>2 DEF CdTyped, cdRelay
  <2>4. CdOwnKeys'
    BY <1>0, <2>1 DEF CdTyped, CdOwnKeys, cdRelay
  <2>5. CdTold'
    BY <1>0, <2>1, <2>2 DEF CdTold
  <2> QED BY <2>3, <2>4, <2>5 DEF CdInv
<1>7. ASSUME NEW k \in CdCalls, CdDevReads(k) \/ CdDevEnds(k) PROVE CdInv'
  <2>1. PICK dev, result :
          /\ cdDev' = [cdDev EXCEPT ![k] = dev] /\ cdResult' = [cdResult EXCEPT ![k] = result]
          /\ result = cdResult[k] \/ (result = "refused" /\ dev = "rejected")
          /\ cdDev[k] \in {"hello", "running"}
    <3>1. cdResult = [cdResult EXCEPT ![k] = cdResult[k]]
      BY <1>0
    <3>2. CASE CdDevReads(k) /\ cdCall[k].to \in cdTrusts
      <4>1. cdDev' = [cdDev EXCEPT ![k] = "running"] /\ cdResult' = cdResult /\ cdDev[k] = "hello"
        BY <3>2 DEF CdDevReads
      <4> QED BY <3>1, <4>1
    <3>3. CASE CdDevReads(k) /\ cdCall[k].to \notin cdTrusts
      <4>1. PICK result : result = IF cdResult[k] = "none" THEN "refused" ELSE cdResult[k]
        OBVIOUS
      <4>2. cdDev' = [cdDev EXCEPT ![k] = "rejected"] /\ cdResult' = [cdResult EXCEPT ![k] = result] /\ cdDev[k] = "hello"
        BY <3>3, <4>1 DEF CdDevReads, CdAfterReject
      <4>3. result = cdResult[k] \/ result = "refused"
        BY <4>1
      <4> QED BY <4>2, <4>3
    <3>4. CASE CdDevEnds(k)
      <4>1. PICK dev : dev = IF cdCall[k].cancelled \/ cdCall[k].closed THEN "killed" ELSE "exit"
        OBVIOUS
      <4>2. cdDev' = [cdDev EXCEPT ![k] = dev] /\ cdResult' = cdResult /\ cdDev[k] = "running"
        BY <3>4, <4>1 DEF CdDevEnds
      <4> QED BY <3>1, <4>2
    <3> QED BY <1>7, <3>2, <3>3, <3>4
  <2>2. UNCHANGED <<cdRelay, cdPin, cdOldPin, cdCall>>
    BY <1>7 DEF CdDevReads, CdDevEnds
  <2>3. /\ cdDev' = [j \in CdCalls |-> cdDev'[j]] /\ cdResult' = [j \in CdCalls |-> cdResult'[j]]
        /\ cdDev'[k] = dev /\ cdResult'[k] = result
        /\ \A j \in CdCalls : j # k => cdDev'[j] = cdDev[j] /\ cdResult'[j] = cdResult[j]
    BY <1>0, <2>1
  <2>4. result \in {"refused", "reject"} => dev = "rejected"
    BY <1>0, <2>1 DEF CdTold
  <2>5. CdTyped' /\ CdOwnKeys'
    BY <1>0, <2>2, <2>3 DEF CdTyped, CdOwnKeys, cdRelay
  <2>6. cdCall[k].at # "dial" /\ cdResult[k] # "trust" /\ result # "trust"
    BY <1>0, <2>1 DEF CdTold
  <2>7. CdTold'
    BY <1>0, <2>2, <2>3, <2>4, <2>6 DEF CdTold
  <2> QED BY <2>5, <2>7 DEF CdInv
<1>8. ASSUME NEW k \in CdCalls, CdDialFails(k) \/ CdReply(k) \/ CdBreaks(k) \/ CdGrace(k) PROVE CdInv'
  <2>1. UNCHANGED <<cdRelay, cdPin, cdOldPin, cdDev>>
    BY <1>8 DEF CdDialFails, CdReply, CdBreaks, CdGrace
  <2>2. PICK result : CdEnd(k, result) /\ result # "trust" /\ (result \in {"refused", "reject"} => cdResult[k] = "refused")
    BY <1>8 DEF CdDialFails, CdReply, CdBreaks, CdGrace
  <2>3. result \in {"refused", "reject"} => cdDev[k] = "rejected"
    BY <1>0, <2>2 DEF CdTold
  <2> QED BY <2>1, <2>2, <2>3, CdEnds
<1> QED BY <1>1, <1>2, <1>3, <1>4, <1>5, <1>6, <1>7, <1>8 DEF CdNext

----------------------------------------------------------------------------
(* A delegation's operations *)

\* The row went with the clean-up, and the ticket names nothing any more.
WfClosed == wfReq.status = "none" /\ ~WfTicketFresh

WfTyped ==
  /\ wfNow \in Nat
  /\ wfReq \in [status : {"none", "pending", "approved", "rejected"}, created : Nat, expires : Nat, revoked : BOOLEAN]
  /\ wfJob = [r \in WfRids |-> wfJob[r]]
  /\ \A r \in WfRids : wfJob[r] = [state |-> wfJob[r].state, payload |-> wfJob[r].payload, created |-> wfJob[r].created]
  /\ wfExec = [r \in WfRids |-> wfExec[r]] /\ wfRuns \in [WfRids -> {0, 1}]

\* What has run is in the ledger until the ledger is closed for good, and what
\* is about to run has not run.
WfLedger ==
  \A r \in WfRids :
    /\ wfJob[r].state = "none" => wfRuns[r] = 0 \/ WfClosed
    /\ wfExec[r] = "check" => wfRuns[r] = 0 /\ (wfJob[r].state # "none" \/ WfClosed)

WfInv == WfTyped /\ WfLedger /\ WfTicketNamesRow

LEMMA WfInit_Inv == WfInit => WfInv
<1> SUFFICES ASSUME WfInit PROVE WfInv
  OBVIOUS
<1>1. WfTyped
  BY DEF WfInit, WfTyped, WfNoRow, WfNoJob
<1>2. WfLedger /\ WfTicketNamesRow
  BY DEF WfInit, WfLedger, WfTicketNamesRow, WfNoJob
<1> QED BY <1>1, <1>2 DEF WfInv

\* The operations go on while the ticket's access is live, so its ledger is open.
LEMMA WfLive == ASSUME WfAccess PROVE ~WfClosed
BY DEF WfAccess, WfStatus, WfClosed

\* A step that changes the row or the clock and no operation.
LEMMA WfRow ==
  ASSUME WfInv, UNCHANGED <<wfJob, wfExec, wfRuns>>, wfNow' \in Nat, WfTicketNamesRow',
         wfReq' \in [status : {"none", "pending", "approved", "rejected"}, created : Nat, expires : Nat, revoked : BOOLEAN],
         WfClosed => WfClosed'
  PROVE  WfInv'
<1>1. WfTyped'
  BY DEF WfInv, WfTyped
<1>2. WfLedger'
  BY DEF WfInv, WfLedger
<1> QED BY <1>1, <1>2 DEF WfInv

\* A step of the operation of one rid.
LEMMA WfOperation ==
  ASSUME WfInv, NEW r \in WfRids, UNCHANGED <<wfNow, wfReq, wfFirst>>,
         wfJob' = [q \in WfRids |-> wfJob'[q]], wfExec' = [q \in WfRids |-> wfExec'[q]], wfRuns' \in [WfRids -> {0, 1}],
         \A q \in WfRids : q # r => wfJob'[q] = wfJob[q] /\ wfExec'[q] = wfExec[q] /\ wfRuns'[q] = wfRuns[q],
         wfJob'[r] = [state |-> wfJob'[r].state, payload |-> wfJob'[r].payload, created |-> wfJob'[r].created],
         wfJob'[r].state = "none" => wfRuns'[r] = 0 \/ WfClosed,
         wfExec'[r] = "check" => wfRuns'[r] = 0 /\ (wfJob'[r].state # "none" \/ WfClosed)
  PROVE  WfInv'
<1>0. WfClosed' <=> WfClosed
  BY DEF WfClosed, WfTicketFresh
<1>1. WfTyped'
  BY DEF WfInv, WfTyped
<1>2. WfLedger'
  BY <1>0 DEF WfInv, WfLedger
<1>3. WfTicketNamesRow'
  BY DEF WfInv, WfTicketNamesRow, WfTicketFresh
<1> QED BY <1>1, <1>2, <1>3 DEF WfInv

LEMMA WfFinishes ==
  ASSUME WfInv, NEW r \in WfRids, NEW state, state # "none", WfFinish(r, state), UNCHANGED wfRuns
  PROVE  WfInv'
<1>0. /\ wfJob = [q \in WfRids |-> wfJob[q]] /\ wfExec = [q \in WfRids |-> wfExec[q]] /\ wfRuns \in [WfRids -> {0, 1}]
      /\ wfJob[r] = [state |-> wfJob[r].state, payload |-> wfJob[r].payload, created |-> wfJob[r].created]
      /\ wfJob[r].state = "none" => wfRuns[r] = 0 \/ WfClosed
  BY DEF WfInv, WfTyped, WfLedger
<1>1. PICK z : z = [wfJob[r] EXCEPT !.state = state]
  OBVIOUS
<1>2. z.state = state /\ z = [state |-> z.state, payload |-> z.payload, created |-> z.created]
  BY <1>0, <1>1
<1>3. wfJob' = wfJob \/ wfJob' = [wfJob EXCEPT ![r] = z]
  BY <1>1 DEF WfFinish, WfFinishJob
<1>4. /\ wfJob' = [q \in WfRids |-> wfJob'[q]] /\ \A q \in WfRids : q # r => wfJob'[q] = wfJob[q]
      /\ wfJob'[r] = wfJob[r] \/ wfJob'[r] = z
  BY <1>0, <1>3
<1>5. UNCHANGED <<wfNow, wfReq, wfFirst>> /\ wfExec' = [wfExec EXCEPT ![r] = "none"]
  BY DEF WfFinish
<1>6. /\ wfExec' = [q \in WfRids |-> wfExec'[q]] /\ wfExec'[r] = "none"
      /\ \A q \in WfRids : q # r => wfExec'[q] = wfExec[q]
  BY <1>0, <1>5
<1>7. /\ wfJob'[r] = [state |-> wfJob'[r].state, payload |-> wfJob'[r].payload, created |-> wfJob'[r].created]
      /\ wfJob'[r].state = "none" => wfRuns'[r] = 0 \/ WfClosed
      /\ wfRuns' \in [WfRids -> {0, 1}]
  BY <1>0, <1>2, <1>4
<1> QED BY <1>4, <1>5, <1>6, <1>7, WfOperation

LEMMA WfNext_Inv == WfInv /\ [WfNext]_wfVars => WfInv'
<1> SUFFICES ASSUME WfInv, [WfNext]_wfVars PROVE WfInv'
  OBVIOUS
<1>0. /\ WfTyped /\ WfLedger /\ WfTicketNamesRow
      /\ wfNow \in Nat
      /\ wfReq \in [status : {"none", "pending", "approved", "rejected"}, created : Nat, expires : Nat, revoked : BOOLEAN]
      /\ wfJob = [r \in WfRids |-> wfJob[r]] /\ wfExec = [r \in WfRids |-> wfExec[r]] /\ wfRuns \in [WfRids -> {0, 1}]
  BY DEF WfInv, WfTyped
<1>1. CASE UNCHANGED <<wfNow, wfReq, wfFirst, wfJob, wfExec, wfRuns>>
  <2>1. WfTicketNamesRow' /\ (WfClosed => WfClosed')
    BY <1>0, <1>1 DEF WfTicketNamesRow, WfTicketFresh, WfClosed
  <2> QED BY <1>0, <1>1, <2>1, WfRow
<1>2. CASE WfTick
  <2>1. wfNow' = wfNow + 1 /\ UNCHANGED <<wfReq, wfFirst, wfJob, wfExec, wfRuns>>
    BY <1>2 DEF WfTick, wfStore
  <2>2. WfTicketFresh' => WfTicketFresh
    BY <1>0, <2>1, WfAssumption DEF WfTicketFresh, WfTicketLifetime
  <2>3. WfTicketNamesRow' /\ (WfClosed => WfClosed') /\ wfNow' \in Nat
    BY <1>0, <2>1, <2>2 DEF WfTicketNamesRow, WfClosed
  <2> QED BY <1>0, <2>1, <2>3, WfRow
<1>3. CASE WfCreate \/ WfReject \/ WfEnds \/ \E n \in 1 .. WfMaxGrant : WfApprove(n)
  <2>1. UNCHANGED <<wfNow, wfJob, wfExec, wfRuns>> /\ wfReq'.status # "none" /\ ~WfClosed
    <3>1. CASE WfCreate
      BY <3>1 DEF WfCreate, WfOpens, WfClosed, WfNoRow
    <3>2. CASE WfReject
      <4>1. wfReq.status = "pending"
        BY <3>2 DEF WfReject, WfStatus
      <4> QED BY <1>0, <3>2, <4>1 DEF WfReject, WfClosed
    <3>3. CASE WfEnds
      BY <1>0, <3>3 DEF WfEnds, WfClosed
    <3>4. ASSUME NEW n \in 1 .. WfMaxGrant, WfApprove(n)
          PROVE  UNCHANGED <<wfNow, wfJob, wfExec, wfRuns>> /\ wfReq'.status # "none" /\ ~WfClosed
      <4>1. wfReq.status = "pending"
        BY <3>4 DEF WfApprove, WfStatus
      <4> QED BY <1>0, <3>4, <4>1 DEF WfApprove, WfClosed
    <3> QED BY <1>3, <3>1, <3>2, <3>3, <3>4
  <2>2. wfReq' \in [status : {"none", "pending", "approved", "rejected"}, created : Nat, expires : Nat, revoked : BOOLEAN]
    <3>1. CASE WfCreate
      BY <1>0, <3>1 DEF WfCreate, WfNoRow
    <3>2. CASE WfReject \/ WfEnds
      BY <1>0, <3>2 DEF WfReject, WfEnds
    <3>3. ASSUME NEW n \in 1 .. WfMaxGrant, WfApprove(n)
          PROVE  wfReq' \in [status : {"none", "pending", "approved", "rejected"}, created : Nat, expires : Nat, revoked : BOOLEAN]
      <4>1. PICK e : e = wfNow + n
        OBVIOUS
      <4>2. e \in Nat
        BY <1>0, <4>1, WfAssumption
      <4>3. wfReq' = [wfReq EXCEPT !.status = "approved", !.expires = e]
        BY <3>3, <4>1 DEF WfApprove
      <4> QED BY <1>0, <4>2, <4>3
    <3> QED BY <1>3, <3>1, <3>2, <3>3
  <2>3. WfTicketNamesRow' /\ (WfClosed => WfClosed')
    BY <2>1 DEF WfTicketNamesRow
  <2> QED BY <1>0, <2>1, <2>2, <2>3, WfRow
<1>4. CASE WfCleanup
  <2>1. /\ wfReq.created + (WfMaxGrant + WfHour) < wfNow
        /\ wfReq' = WfNoRow /\ wfJob' = [r \in WfRids |-> WfNoJob] /\ UNCHANGED <<wfNow, wfExec, wfRuns>>
    BY <1>4 DEF WfCleanup, WfMinRetention
  <2>2. wfReq.created \in Nat
    BY <1>0
  <2>3. ~WfTicketFresh'
    BY <1>0, <2>1, <2>2, WfAssumption DEF WfTicketFresh, WfTicketLifetime
  <2>4. WfClosed' /\ WfTicketNamesRow'
    BY <2>1, <2>3 DEF WfClosed, WfNoRow, WfTicketNamesRow
  <2>5. WfTyped'
    BY <1>0, <2>1 DEF WfTyped, WfNoRow, WfNoJob
  <2>6. WfLedger'
    BY <1>0, <2>1, <2>4 DEF WfLedger
  <2> QED BY <2>4, <2>5, <2>6 DEF WfInv
<1>5. CASE WfCrash
  <2>1. wfExec' = [r \in WfRids |-> "none"] /\ UNCHANGED <<wfNow, wfReq, wfFirst, wfJob, wfRuns>>
    BY <1>5 DEF WfCrash, wfStore
  <2>2. WfTyped'
    BY <1>0, <2>1 DEF WfTyped
  <2>3. WfLedger' /\ WfTicketNamesRow'
    BY <1>0, <2>1 DEF WfLedger, WfTicketNamesRow, WfTicketFresh, WfClosed
  <2> QED BY <2>2, <2>3 DEF WfInv
<1>6. ASSUME NEW k \in WfCalls, WfBegin(k) PROVE WfInv'
  <2>1. PICK r : r = wfCall[k].rid
    OBVIOUS
  <2>2. CASE ~WfRecorded(r) /\ WfAccess /\ WfAllowance /\ r \in WfRids
    <3>1. PICK z : z = [state |-> "running", payload |-> wfCall[k].payload, created |-> wfNow]
      OBVIOUS
    <3>2. /\ wfJob' = [wfJob EXCEPT ![r] = z] /\ wfExec' = [wfExec EXCEPT ![r] = "check"]
          /\ UNCHANGED <<wfNow, wfReq, wfFirst, wfRuns>>
      BY <1>6, <2>1, <2>2, <3>1 DEF WfBegin
    <3>3. z.state = "running" /\ z = [state |-> z.state, payload |-> z.payload, created |-> z.created]
      BY <3>1
    <3>4. wfRuns[r] = 0
      BY <1>0, <2>2, WfLive DEF WfLedger, WfRecorded
    <3>5. /\ wfJob' = [q \in WfRids |-> wfJob'[q]] /\ wfExec' = [q \in WfRids |-> wfExec'[q]]
          /\ wfRuns' \in [WfRids -> {0, 1}] /\ wfJob'[r] = z /\ wfRuns'[r] = 0
          /\ \A q \in WfRids : q # r => wfJob'[q] = wfJob[q] /\ wfExec'[q] = wfExec[q] /\ wfRuns'[q] = wfRuns[q]
      BY <1>0, <2>2, <3>2, <3>4
    <3>6. /\ wfJob'[r] = [state |-> wfJob'[r].state, payload |-> wfJob'[r].payload, created |-> wfJob'[r].created]
          /\ wfJob'[r].state # "none"
      BY <3>3, <3>5
    <3> QED BY <2>2, <3>2, <3>5, <3>6, WfOperation
  <2>3. CASE ~(~WfRecorded(r) /\ WfAccess /\ WfAllowance) \/ r \notin WfRids
    <3>1. UNCHANGED <<wfNow, wfReq, wfFirst, wfRuns>>
      BY <1>6 DEF WfBegin
    <3>2. UNCHANGED <<wfJob, wfExec>>
      <4>1. CASE ~(~WfRecorded(r) /\ WfAccess /\ WfAllowance)
        BY <1>6, <2>1, <4>1 DEF WfBegin
      <4>2. CASE r \notin WfRids /\ ~WfRecorded(r) /\ WfAccess /\ WfAllowance
        <5>1. PICK z : z = [state |-> "running", payload |-> wfCall[k].payload, created |-> wfNow]
          OBVIOUS
        <5>2. wfJob' = [wfJob EXCEPT ![r] = z] /\ wfExec' = [wfExec EXCEPT ![r] = "check"]
          BY <1>6, <2>1, <4>2, <5>1 DEF WfBegin
        <5> QED BY <1>0, <4>2, <5>2, ZenonT(60)
      <4> QED BY <2>3, <4>1, <4>2
    <3> QED BY <1>1, <3>1, <3>2
  <2> QED BY <2>2, <2>3
<1>7. ASSUME NEW r \in WfRids, WfCheck(r) PROVE WfInv'
  <2>1. CASE WfAccess /\ wfNow < WfDeadline(r)
    <3>1. /\ wfExec' = [wfExec EXCEPT ![r] = "device"] /\ wfRuns' = [wfRuns EXCEPT ![r] = wfRuns[r] + 1]
          /\ UNCHANGED <<wfNow, wfReq, wfFirst, wfJob>> /\ wfExec[r] = "check"
      BY <1>7, <2>1 DEF WfCheck, wfStore
    <3>2. wfRuns[r] = 0 /\ wfJob[r].state # "none"
      BY <1>0, <2>1, <3>1, WfLive DEF WfLedger
    <3>3. wfRuns' = [wfRuns EXCEPT ![r] = 1]
      BY <3>1, <3>2
    <3>4. /\ wfJob' = [q \in WfRids |-> wfJob'[q]] /\ wfExec' = [q \in WfRids |-> wfExec'[q]]
          /\ wfRuns' \in [WfRids -> {0, 1}] /\ wfExec'[r] = "device" /\ wfJob'[r].state # "none"
          /\ \A q \in WfRids : q # r => wfJob'[q] = wfJob[q] /\ wfExec'[q] = wfExec[q] /\ wfRuns'[q] = wfRuns[q]
      BY <1>0, <3>1, <3>2, <3>3
    <3>5. wfJob'[r] = [state |-> wfJob'[r].state, payload |-> wfJob'[r].payload, created |-> wfJob'[r].created]
      BY <1>0, <3>1 DEF WfTyped
    <3> QED BY <3>1, <3>4, <3>5, WfOperation
  <2>2. CASE ~(WfAccess /\ wfNow < WfDeadline(r))
    <3>1. WfFinish(r, "failed") /\ UNCHANGED wfRuns
      BY <1>7, <2>2 DEF WfCheck
    <3> QED BY <3>1, WfFinishes
  <2> QED BY <2>1, <2>2
<1>8. ASSUME NEW r \in WfRids, WfOutcome(r) PROVE WfInv'
  <2>1. PICK s \in {"done", "failed", "unknown"} : WfFinish(r, s) /\ UNCHANGED wfRuns
    BY <1>8 DEF WfOutcome
  <2> QED BY <2>1, WfFinishes
<1>9. ASSUME NEW k \in WfCalls, WfFind(k) \/ WfReserve(k) PROVE WfInv'
  BY <1>1, <1>9 DEF WfFind, WfReserve, wfStore
<1>10. ASSUME NEW k \in WfCalls, NEW r \in WfRids, NEW p \in WfPayloads, WfFetch(k, r, p) PROVE WfInv'
  BY <1>1, <1>10 DEF WfFetch, wfStore
<1>11. CASE UNCHANGED wfVars
  BY <1>1, <1>11 DEF wfVars, wfStore
<1> QED BY <1>2, <1>3, <1>4, <1>5, <1>6, <1>7, <1>8, <1>9, <1>10, <1>11 DEF WfNext, WfSteps

----------------------------------------------------------------------------
(* What a caller may conclude *)

\* client.go and handler.go: a command runs on the device its name was resolved
\* to and a refusal means it did not run; an operation of a delegation is sent to
\* the device once, across restarts, and a live ticket names its row.
THEOREM CallsHold == CdSpec /\ WfSpec => []CallsSafe
<1>1. CdInv => CdRunsWhereResolved /\ CdRejectMeansNotRun
  BY DEF CdInv, CdTyped, CdTold, CdRunsWhereResolved, CdRejectMeansNotRun
<1>2. WfInv => WfRunsOnce /\ WfTicketNamesRow
  <2>1. ASSUME NEW r \in WfRids, WfInv PROVE wfRuns[r] <= 1
    BY <2>1 DEF WfInv, WfTyped
  <2> QED BY <2>1 DEF WfInv, WfRunsOnce
<1>3. CdInv /\ WfInv => CallsSafe
  BY <1>1, <1>2 DEF CallsSafe
<1>4. CdSpec => []CdInv
  BY CdInit_Inv, CdNext_Inv, PTL DEF CdSpec
<1>5. WfSpec => []WfInv
  BY WfInit_Inv, WfNext_Inv, PTL DEF WfSpec
<1> QED BY <1>3, <1>4, <1>5, PTL
=============================================================================
