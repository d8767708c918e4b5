---------------------------- MODULE AgentConsole ----------------------------
(***************************************************************************)
(* The life of an agent process and its console sessions                   *)
(* (internal/agent/agent.go, internal/console/console.go): the control     *)
(* channel that asks for sessions, the goroutines the agent owns and Close *)
(* joins, the console sessions a portal keeps open, and the two front-ends *)
(* of the approval queue, the state pushed to a console session and the    *)
(* prompt of a local terminal.                                             *)
(*                                                                         *)
(* What State returns is the requests waiting for an answer, and a revision *)
(* of the rules, the mode, the pairings and the controllers revoked.  What  *)
(* it returns besides and nobody is notified of (a controller a collected   *)
(* pairing adds, the time one was last seen) is left out.                   *)
(* A change and the notify after it are two critical sections, and so are  *)
(* a ping, the State it makes the pump read and the frame the pump sends.  *)
(* How a request is gated is CommandGate's, how a controller is paired     *)
(* Pairing's, what an install does SelfInstall's.  DeviceSafe, at the end,  *)
(* is what the parts of a device promise together.                         *)
(***************************************************************************)
EXTENDS RequestLoop, DesktopInput, SelfInstall

CONSTANTS
  AcSessions,    \* the sessions the relay opens
  AcAsks,        \* the requests put to the owner
  AcPhone,       \* whether there is no prompt: an approval phone, or no terminal
  MaxAcChanges   \* the changes of rules, mode, pairings and trust

ASSUME AcAssumption == MaxAcChanges \in Nat /\ AcPhone \in BOOLEAN

VARIABLES
  acClosing,  \* Agent.closing, and with it stopCtx
  acClosed,   \* Close has returned
  acOwned,    \* the goroutines Agent.wg counts
  acRun,      \* Run: "new", "dialling", "serving", "done"
  acAt,       \* each session: "none", "dialling", "console", "gone"
  acCut,      \* the sessions whose context is cancelled
  acBroken,   \* the sessions whose connection is broken
  acAsk,      \* each request: "new", "asking", "pending", "decided", "over"
  acSet,      \* the revision of everything else that is notified
  acDue,      \* changes whose notify has not run yet
  acSub,      \* console.Service.subs: who is subscribed
  acPing,     \* the subscribers with a ping waiting
  acRead,     \* the State each pump has read and not yet sent
  acShown,    \* what each portal has: what it lists at its subscription, then each State sent
  acRound     \* the requests the prompt has still to ask about

acLife == <<acClosing, acClosed, acOwned>>
acSession == <<acAt, acCut, acBroken>>
acState == <<acAsk, acSet>>
acConsole == <<acState, acDue, acSub, acPing, acRead, acShown, acRound>>
acVars == <<acLife, acRun, acSession, acConsole>>

\* The goroutines: the control loop, its helpers, a session's handler, its pump,
\* and the two of an install.
AcLoop == <<"run", "agent">>
AcHelper(g) == <<"helper", g>>
AcHandler(s) == <<"handler", s>>
AcPump(s) == <<"pump", s>>
AcWork(s) == <<"work", s>>
AcProgress(s) == <<"progress", s>>

\* The loops Run starts before it dials (notify policy, adb link and, on a phone,
\* the app's decisions) and the reporter of versions only wait for its context,
\* and count as one.
AcHelpers == {"loops"} \union (IF AcPhone THEN {} ELSE {"prompt"})

\* State: a request is in it until its asker has taken it out.
AcPending == {a \in AcAsks : acAsk[a] \in {"pending", "decided"}}
AcState == [pend |-> AcPending, set |-> acSet]
AcNothing == [pend |-> {}, set |-> 0]

AcInit ==
  /\ acClosing = FALSE /\ acClosed = FALSE /\ acOwned = {}
  /\ acRun = "new"
  /\ acAt = [s \in AcSessions |-> "none"] /\ acCut = {} /\ acBroken = {}
  /\ acAsk = [a \in AcAsks |-> "new"] /\ acSet = 1 /\ acDue = 0
  /\ acSub = {} /\ acPing = {} /\ acRound = {}
  /\ acRead = [s \in AcSessions |-> AcNothing] /\ acShown = [s \in AcSessions |-> AcNothing]

----------------------------------------------------------------------------
\* enter: nothing joins the agent once it is closing.
AcMayEnter == ~acClosing

\* spawn: the goroutines of gs that may start.
AcSpawned(gs) == acOwned \union (IF AcMayEnter THEN gs ELSE {})

\* console.Service.notify: a ping is kept for each subscriber, at most one.
AcNotify ==
  /\ acDue > 0
  /\ acDue' = acDue - 1
  /\ acPing' = acPing \union acSub
  /\ UNCHANGED <<acLife, acRun, acSession, acState, acSub, acRead, acShown, acRound>>

\* Ask: without a front-end a request is denied at once; the look for one and
\* the entry are two critical sections.
AcAskLooks(a) ==
  /\ acAsk[a] = "new" /\ ~acClosed
  /\ acAsk' = [acAsk EXCEPT ![a] = IF acSub = {} THEN "over" ELSE "asking"]
  /\ UNCHANGED <<acLife, acRun, acSession, acSet, acDue, acSub, acPing, acRead, acShown, acRound>>

AcAskEnters(a) ==
  /\ acAsk[a] = "asking"
  /\ acAsk' = [acAsk EXCEPT ![a] = "pending"] /\ acDue' = acDue + 1
  /\ UNCHANGED <<acLife, acRun, acSession, acSet, acSub, acPing, acRead, acShown, acRound>>

\* The asker has its verdict, or its time is up: the entry goes, then a notify.
AcGoesQuietly == UNCHANGED acDue

AcGoes == acDue' = acDue + 1

AcAskEnds(a) ==
  /\ acAsk[a] \in {"pending", "decided"}
  /\ acAsk' = [acAsk EXCEPT ![a] = "over"] /\ AcGoes
  /\ UNCHANGED <<acLife, acRun, acSession, acSet, acSub, acPing, acRead, acShown, acRound>>

\* Decide: the first verdict is kept for the asker; a request that is gone is
\* not found.  Nothing that State shows changes here.
AcDecided(a) == [acAsk EXCEPT ![a] = IF @ = "pending" THEN "decided" ELSE @]

\* askPair: a pairing raised by a dial is notified.  One that is only forgotten
\* after its time is not, and stays in the revision.
AcPairingRaised ==
  /\ acSet <= MaxAcChanges /\ ~acClosed
  /\ acSet' = acSet + 1 /\ acDue' = acDue + 1
  /\ UNCHANGED <<acLife, acRun, acSession, acAsk, acSub, acPing, acRead, acShown, acRound>>

----------------------------------------------------------------------------
\* Run: the helpers that need no relay start, then it dials.
AcRunStarts ==
  /\ acRun = "new" /\ AcMayEnter
  /\ acRun' = "dialling"
  /\ acOwned' = AcSpawned({AcLoop} \union {AcHelper("loops")})
  /\ UNCHANGED <<acClosing, acClosed, acSession, acConsole>>

\* Registered, on a terminal: the prompt, which subscribes.
AcRegistered ==
  /\ acRun = "dialling"
  /\ acRun' = "serving"
  /\ acOwned' = IF AcPhone THEN acOwned ELSE AcSpawned({AcHelper("prompt")})
  /\ acSub' = IF AcMayEnter /\ ~AcPhone THEN acSub \union {"prompt"} ELSE acSub
  /\ UNCHANGED <<acClosing, acClosed, acSession, acState, acDue, acPing, acRead, acShown, acRound>>

\* The dial fails, the channel closes or the context was cancelled.  The run's
\* own context ends with it, and with that every session it accepted.
AcRunEnds ==
  /\ acRun \in {"dialling", "serving"}
  /\ acRun' = "done" /\ acOwned' = acOwned \ {AcLoop}
  /\ acCut' = acCut \union {s \in AcSessions : acAt[s] \notin {"none", "gone"}}
  /\ UNCHANGED <<acClosing, acClosed, acAt, acBroken, acConsole>>

\* A helper leaves with the context (or, reporting on a dead channel, with it);
\* the prompt only when it is not waiting for a line on the terminal.
AcHelperEnds(g) ==
  /\ AcHelper(g) \in acOwned
  /\ acRun = "done" \/ acClosing
  /\ g = "prompt" => acRound = {}
  /\ acOwned' = acOwned \ {AcHelper(g)}
  /\ acSub' = acSub \ {g} /\ acPing' = acPing \ {g}
  /\ UNCHANGED <<acClosing, acClosed, acRun, acSession, acState, acDue, acRead, acShown, acRound>>

\* An open message: serveSession dials on a goroutine of its own.
AcOpened(s) ==
  /\ acRun = "serving" /\ acAt[s] = "none"
  /\ acOwned' = AcSpawned({AcHandler(s)})
  /\ acAt' = [acAt EXCEPT ![s] = IF AcMayEnter THEN "dialling" ELSE "gone"]
  /\ UNCHANGED <<acClosing, acClosed, acRun, acCut, acBroken, acConsole>>

\* handleSession accepted a portal: serveConsole subscribes and starts the
\* pump.  Nothing is sent: what is there already the portal lists with an RPC
\* of its own, and what changes from here on is pushed.
AcServeConsole(s) ==
  /\ acAt[s] = "dialling" /\ s \notin acBroken
  /\ acAt' = [acAt EXCEPT ![s] = "console"]
  /\ acSub' = acSub \union {s}
  /\ acShown' = [acShown EXCEPT ![s] = AcState]
  /\ acOwned' = AcSpawned({AcPump(s)})
  /\ UNCHANGED <<acClosing, acClosed, acRun, acCut, acBroken, acState, acDue, acPing, acRead, acRound>>

\* serveConsole reads one request after the other.
AcReads(s) == acAt[s] = "console" /\ s \notin acCut \union acBroken

AcRPCDecide(s, a) ==
  /\ AcReads(s)
  /\ acAsk' = AcDecided(a)
  /\ UNCHANGED <<acLife, acRun, acSession, acSet, acDue, acSub, acPing, acRead, acShown, acRound>>

\* A rule, the mode or a pairing is set, or a controller revoked.  A rule that
\* could not be kept is notified all the same, and counts as a revision; a
\* controller that could not be revoked is put back and not notified.
AcRPCSet(s) ==
  /\ AcReads(s) /\ acSet <= MaxAcChanges
  /\ acSet' = acSet + 1 /\ acDue' = acDue + 1
  /\ UNCHANGED <<acLife, acRun, acSession, acAsk, acSub, acPing, acRead, acShown, acRound>>

\* beginInstall accepted an update: one goroutine does it, one reports on it.
AcRPCInstall(s) ==
  /\ AcReads(s) /\ \A t \in AcSessions : AcWork(t) \notin acOwned
  /\ acOwned' = AcSpawned({AcWork(s), AcProgress(s)})
  /\ UNCHANGED <<acClosing, acClosed, acRun, acSession, acConsole>>

AcWorkEnds(s) ==
  /\ AcWork(s) \in acOwned
  /\ acOwned' = acOwned \ {AcWork(s)}
  /\ UNCHANGED <<acClosing, acClosed, acRun, acSession, acConsole>>

AcProgressEnds(s) ==
  /\ AcProgress(s) \in acOwned
  /\ AcWork(s) \notin acOwned \/ s \in acCut \union acBroken
  /\ acOwned' = acOwned \ {AcProgress(s)}
  /\ UNCHANGED <<acClosing, acClosed, acRun, acSession, acConsole>>

\* The connection breaks under a session, or the handshake refuses it; reads
\* and sends fail from then on.
AcBreaks(s) ==
  /\ acAt[s] \in {"dialling", "console"} /\ s \notin acBroken
  /\ acBroken' = acBroken \union {s}
  /\ UNCHANGED <<acLife, acRun, acAt, acCut, acConsole>>

\* A cancelled context closes the connection, which ends the parked read; the
\* session's own context and its subscription end with it.
AcUnparked(s) == s \in acCut \union acBroken

AcSessionEnds(s) ==
  /\ acAt[s] \in {"dialling", "console"}
  /\ AcUnparked(s)
  /\ acAt' = [acAt EXCEPT ![s] = "gone"]
  /\ acCut' = acCut \union {s}
  /\ acSub' = acSub \ {s}
  /\ acOwned' = acOwned \ {AcHandler(s)}
  /\ UNCHANGED <<acClosing, acClosed, acRun, acBroken, acState, acDue, acPing, acRead, acShown, acRound>>

\* pumpApprovalNotifs: a ping is taken, then State is read, then it is sent.
AcPumpReads(s) ==
  /\ AcPump(s) \in acOwned /\ s \in acPing /\ acRead[s] = AcNothing
  /\ acPing' = acPing \ {s}
  /\ acRead' = [acRead EXCEPT ![s] = AcState]
  /\ UNCHANGED <<acLife, acRun, acSession, acState, acDue, acSub, acShown, acRound>>

AcPumpSends(s) ==
  /\ AcPump(s) \in acOwned /\ acRead[s] # AcNothing /\ s \notin acBroken
  /\ acShown' = [acShown EXCEPT ![s] = acRead[s]]
  /\ acRead' = [acRead EXCEPT ![s] = AcNothing]
  /\ UNCHANGED <<acLife, acRun, acSession, acState, acDue, acSub, acPing, acRound>>

AcPumpEnds(s) ==
  /\ AcPump(s) \in acOwned
  /\ \/ s \in acCut /\ acRead[s] = AcNothing
     \/ s \in acCut \union acBroken /\ acRead[s] # AcNothing
  /\ acRead' = [acRead EXCEPT ![s] = AcNothing]
  /\ acOwned' = acOwned \ {AcPump(s)}
  /\ UNCHANGED <<acClosing, acClosed, acRun, acSession, acState, acDue, acSub, acPing, acShown, acRound>>

\* runConsolePrompt: a ping makes it read State and ask about each request of
\* it in turn; the terminal may keep it waiting for as long as it likes.
AcPromptReads ==
  /\ AcHelper("prompt") \in acOwned /\ "prompt" \in acPing /\ acRound = {}
  /\ acPing' = acPing \ {"prompt"}
  /\ acRound' = AcPending
  /\ UNCHANGED <<acLife, acRun, acSession, acState, acDue, acSub, acRead, acShown>>

\* A line is typed for one of them, which may have been decided or be gone.
AcPromptAnswers(a) ==
  /\ a \in acRound
  /\ acRound' = acRound \ {a}
  /\ acAsk' = AcDecided(a)
  /\ UNCHANGED <<acLife, acRun, acSession, acSet, acDue, acSub, acPing, acRead, acShown>>

----------------------------------------------------------------------------
\* Close: closing and the shutdown context first; the join last, after the
\* workspaces and the desktop, whose ends are Workspaces' and DesktopPeers'.
AcClose ==
  /\ ~acClosing /\ acClosing' = TRUE
  /\ acCut' = acCut \union {s \in AcSessions : acAt[s] \notin {"none", "gone"}}
  /\ UNCHANGED <<acClosed, acOwned, acRun, acAt, acBroken, acConsole>>

\* A controller's session is a handler too, and its request waits in Ask: the
\* join waits until the request is over.
AcAsked == {a \in AcAsks : acAsk[a] \in {"asking", "pending", "decided"}}

AcJoined ==
  /\ acClosing /\ ~acClosed /\ acOwned = {} /\ AcAsked = {}
  /\ acClosed' = TRUE
  /\ UNCHANGED <<acClosing, acOwned, acRun, acSession, acConsole>>

\* What a cancelled context ends, ends; an install and a request put to the
\* owner run to their end, which their time limits see to.
AcEnding ==
  \/ (acClosing /\ AcRunEnds)
  \/ \E s \in AcSessions :
       AcSessionEnds(s) \/ AcPumpEnds(s) \/ AcWorkEnds(s) \/ AcProgressEnds(s)
  \/ \E g \in AcHelpers : AcHelperEnds(g)
  \/ \E a \in AcAsks : AcAskEnters(a) \/ AcAskEnds(a)
  \/ AcJoined

AcShowing ==
  \/ AcNotify
  \/ \E s \in AcSessions : AcPumpReads(s) \/ AcPumpSends(s)

AcNext ==
  \/ AcNotify \/ AcPairingRaised \/ AcRunStarts \/ AcRegistered \/ AcRunEnds
  \/ \E a \in AcAsks : AcAskLooks(a) \/ AcAskEnters(a) \/ AcAskEnds(a) \/ AcPromptAnswers(a)
  \/ \E g \in AcHelpers : AcHelperEnds(g)
  \/ \E s \in AcSessions :
       \/ AcOpened(s) \/ AcServeConsole(s) \/ AcBreaks(s) \/ AcSessionEnds(s)
       \/ \E a \in AcAsks : AcRPCDecide(s, a)
       \/ AcRPCSet(s) \/ AcRPCInstall(s) \/ AcWorkEnds(s) \/ AcProgressEnds(s)
       \/ AcPumpReads(s) \/ AcPumpSends(s) \/ AcPumpEnds(s)
  \/ AcPromptReads
  \/ AcClose \/ AcJoined

\* Goroutines are scheduled; nobody has to type at the terminal, and neither
\* the relay nor a portal has to do anything.
AcSpec == AcInit /\ [][AcNext]_acVars /\ WF_acVars(AcEnding) /\ WF_acVars(AcShowing)

----------------------------------------------------------------------------
\* agent.go, enter and Close: once Close has returned, nothing the agent owns
\* runs, and no session, pump or control loop starts later.
AcQuiet == acClosed => acOwned = {} /\ acRun \in {"new", "done"}

\* agent.go, Close and handleSession: Close returns although sessions were
\* parked in a read, unless the local prompt waits for a line.
AcHangs == acClosing /\ ~acClosed /\ acRound = {}

\* agent.go, pumpApprovalNotifs; console.go, Ask and notify: a portal whose
\* session lives ends up with the requests, the rules and the mode the device
\* has, however changes, pings and frames interleave.
AcStale ==
  \E s \in AcSessions :
     /\ acAt[s] = "console" /\ s \notin acCut \union acBroken
     /\ acShown[s].pend # AcPending \/ acShown[s].set # acSet

\* agent/agent.go, agent/install.go and desktop/engine.go: one reader of a
\* connection serves its requests in order and within its scope, nothing runs
\* in a closed agent, a person at the desk comes first, and an agent installs
\* one update in its life.
DeviceSafe == ServedInOrder /\ WithinScope /\ AcQuiet /\ DkPersonFirst /\ InOnePerLife
============================================================================
