---------------------------- MODULE MCOperations ----------------------------
(***************************************************************************)
(* What callers do to a device, for TLC: commands, files, the desktop, the *)
(* agent process, and the connections that carry them.  A behaviour is one *)
(* of the parts; the others rest in their initial state.                   *)
(***************************************************************************)
EXTENDS ShellSessions, AgentJobs, OutputPages, FileOps, DesktopPeers,
        AgentProcess, McpSessions

\* One controller makes every workspace call.
MCOwner == [c \in Calls |-> "ctl"]

\* Every file of up to four units: two letters and the line end.
MCFoTexts == UNION {[1..k -> {"x", "y", "n"}] : k \in 0..4}
MCFoSeed == <<"x">>

VARIABLE part

opsVars == <<part, shellVars, wsVars, jobVars, opVars, foVars, cuVars, prVars, dcVars, wpVars, hsVars, lkVars, suVars>>

OpsInit ==
  /\ part \in {"shells", "workspaces", "jobs", "output", "files", "desktop", "process", "conns", "polls", "mcp", "cards"}
  /\ ShellInit /\ WsInit /\ JobsInit /\ OpInit /\ CuInit /\ DcInit /\ LkInit /\ SuInit
  /\ FoInit /\ (part # "files" => foText = <<>>)
  /\ PrInit /\ (part # "process" => prPidFile = {} /\ \A p \in PrPids : prProc[p] = "free")
  /\ WpInit /\ (part # "polls" => wpOpen = {})
  /\ HsInit /\ (part # "mcp" => hsPart = "table")

\* The supervisor of LarkCards rests: MCWaits has it.
OpsNext ==
  /\ UNCHANGED <<part, suVars>>
  /\ IF part = "shells" THEN ShellNext ELSE UNCHANGED shellVars
  /\ IF part = "workspaces" THEN WsNext ELSE UNCHANGED wsVars
  /\ IF part = "jobs" THEN JobsNext ELSE UNCHANGED jobVars
  /\ IF part = "output" THEN OpNext ELSE UNCHANGED opVars
  /\ IF part = "files" THEN FoNext ELSE UNCHANGED foVars
  /\ IF part = "desktop" THEN CuNext ELSE UNCHANGED cuVars
  /\ IF part = "process" THEN PrNext ELSE UNCHANGED prVars
  /\ IF part = "conns" THEN DcNext ELSE UNCHANGED dcVars
  /\ IF part = "polls" THEN WpNext ELSE UNCHANGED wpVars
  /\ IF part = "mcp" THEN HsNext ELSE UNCHANGED hsVars
  /\ IF part = "cards" THEN LkNext ELSE UNCHANGED lkVars

OpsSpec == OpsInit /\ [][OpsNext]_opsVars

\* server/shell.go, agent/workspace.go and agent/jobs.go: a command runs at most once, in
\* a shell that lives, a cancel reaches no other one, and what runs is counted,
\* can be found again and is read whole by who started it.
RunsSafe ==
  /\ CancelHitsItsOwn /\ RunsAtMostOnce /\ NoShellLeaks
  /\ StartsOnce /\ RunsInLiveShell
  /\ CountCoversRuns /\ RunningStaysReachable /\ RetainedWithinBudget /\ PollsReadOutput

\* server/fileops.go, server/files.go, server/spill.go and mcp/server.go: pages and edits are
\* those of one file, and no reader meets half of a write.
FilesSafe ==
  /\ FoPageWhole /\ FoBatchOrderFree /\ FoToldTrue /\ FoNeverPartial /\ FoOwnUntouched
  /\ OpPageTrue /\ OpSpillWhole

=============================================================================
