------------------------------- MODULE MCWaits -------------------------------
(***************************************************************************)
(* What somebody waits for, for TLC: a hung-up command, a closing agent, a *)
(* held key, a decision on a phone or a card, a watch, a cancelled call, a *)
(* fetch, an update.  A behaviour is one of the parts; the others rest in  *)
(* their initial state.                                                    *)
(***************************************************************************)
EXTENDS AgentConsole, ApprovalPhone, WebFetchJobs

\* The release a device runs and the next one.
MCVersions == {[core |-> 1, beta |-> 0], [core |-> 2, beta |-> 0]}
MCFirst == [core |-> 1, beta |-> 0]
MCSources == <<"release", "mirror">>

VARIABLE part

waitVars == <<part, loopVars, acVars, dkVars, inVars, phoneVars, lkVars, suVars, cdVars, wfVars>>

\* The initial states that a component's own part distinguishes are one in the
\* other parts.
WaitInit ==
  /\ part \in {"loop", "console", "input", "update", "phone", "cards", "watchers", "dial", "fetch"}
  /\ LoopInit /\ (part # "loop" => scope = "plain" /\ caps = CHOOSE c \in CapabilitySets : TRUE)
  /\ AcInit /\ DkInit /\ InInit /\ LkInit /\ SuInit /\ WfInit
  /\ PhoneInit /\ (part # "phone" => phone = CHOOSE p \in Phones : TRUE)
  /\ CdInit /\ (part # "dial" => /\ cdNamed = CHOOSE d \in CdDevices : TRUE
                                 /\ cdTrusts = {} /\ cdPin = cdOldPin /\ \A d \in CdDevices : cdPin[d] = {})

WaitNext ==
  /\ UNCHANGED part
  /\ IF part = "loop" THEN LoopNext ELSE UNCHANGED loopVars
  /\ IF part = "console" THEN AcNext ELSE UNCHANGED acVars
  /\ IF part = "input" THEN DkNext ELSE UNCHANGED dkVars
  /\ IF part = "update" THEN InNext ELSE UNCHANGED inVars
  /\ IF part = "phone" THEN PhoneNext ELSE UNCHANGED phoneVars
  /\ IF part = "cards" THEN LkNext ELSE UNCHANGED lkVars
  /\ IF part = "watchers" THEN SuNext ELSE UNCHANGED suVars
  /\ IF part = "dial" THEN CdNext ELSE UNCHANGED cdVars
  /\ IF part = "fetch" THEN WfNext ELSE UNCHANGED wfVars

\* Each part has the fairness of its own specification.
OnlyIn(p) ==
  /\ part = p /\ UNCHANGED part
  /\ (p # "loop" => UNCHANGED loopVars) /\ (p # "console" => UNCHANGED acVars)
  /\ (p # "input" => UNCHANGED dkVars) /\ (p # "update" => UNCHANGED inVars)
  /\ (p # "phone" => UNCHANGED phoneVars) /\ (p # "cards" => UNCHANGED lkVars)
  /\ (p # "watchers" => UNCHANGED suVars) /\ (p # "dial" => UNCHANGED cdVars)
  /\ (p # "fetch" => UNCHANGED wfVars)

WaitSteps ==
  \/ OnlyIn("loop") /\ DeviceStep
  \/ OnlyIn("console") /\ AcEnding
  \/ OnlyIn("input") /\ DkLetGoSteps
  \/ OnlyIn("update") /\ InAutoSteps
  \/ OnlyIn("phone") /\ SettlingStep
  \/ OnlyIn("cards") /\ LkSteps
  \/ OnlyIn("watchers") /\ SuReconciles
  \/ OnlyIn("dial") /\ CdSteps
  \/ OnlyIn("fetch") /\ WfSteps

WaitAlso ==
  \/ OnlyIn("console") /\ AcShowing
  \/ OnlyIn("update") /\ InAskedSteps
  \/ OnlyIn("watchers") /\ SuWatches
  \/ OnlyIn("fetch") /\ WfTick

WaitSpec ==
  /\ WaitInit /\ [][WaitNext]_waitVars
  /\ WF_waitVars(WaitSteps) /\ WF_waitVars(WaitAlso)
  /\ WF_waitVars(OnlyIn("update") /\ InWorkEnds) /\ SF_waitVars(OnlyIn("update") /\ InAutoLock)

\* Nobody waits for ever: a command that was hung up on ends, an agent that
\* closes is closed, a portal shows what the device's console shows, a key is
\* let go, a decision leaves the phone, a tap gets its turn, a cancelled call
\* returns, and a fetch is shown finished.
WaitsEnd ==
  <>[]~(\/ LeftRunning \/ AcHangs \/ AcStale \/ DkStuck \/ Undelivered \/ LkTapWaits
        \/ CdLingers \/ WfUnsettled)

\* larkwatch.go and autoupdate.go: a device that is switched on does not stay
\* unwatched, except one that registered before its watcher's failed dial or its
\* removal was noticed (SuExcepted); one that is not busy for good does not stay
\* behind its release; and a device the relay does not know is not dialled for ever
\* meanwhile.
CatchesUp == []<>~(SuUnwatched \/ InBehind) /\ []SuNoChurn
=============================================================================
