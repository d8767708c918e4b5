------------------------------ MODULE AgentProcess ------------------------------
(***************************************************************************)
(* The agent as a process of its machine: `wanctl start`, `wanctl stop`    *)
(* and the stop, swap and restart of `wanctl update` (daemon.go,           *)
(* update.go), the boot and the exit of the agent (cmdAgent of main.go),   *)
(* a supervisor that starts it again, and the two files and the lock they  *)
(* meet in (internal/config: agent.pid, agent.managed, agent.lock).        *)
(*                                                                         *)
(* The lock says that an agent serves; the number in agent.pid is what a   *)
(* stop signals.  Process numbers are reused by unrelated processes.       *)
(***************************************************************************)
EXTENDS Naturals, FiniteSets

CONSTANTS
    PrPids,     \* process numbers
    PrCalls,    \* commands somebody runs, each once
    PrOps,      \* which: some of "start", "stop", "update"
    PrFaults    \* how many agents are killed without a chance to clean up

ASSUME PrAssumption == PrOps \subseteq {"start", "stop", "update"} /\ PrFaults \in Nat

VARIABLES
    prProc,     \* per number: "free", "other" (not ours), or a state of an agent
    prNew,      \* the agents that run the binary an update installed
    prLock,     \* who holds agent.lock
    prPidFile,  \* the number in agent.pid, {} without the file
    prMark,     \* the number in agent.managed
    prSup,      \* the supervisor: installed, and the agent it waits for
    prCall,     \* the commands
    prDisk,     \* the binary was replaced
    prAsked,    \* somebody asked for an agent on this machine
    prStopped,  \* somebody stopped an agent, or one was killed
    prKilled    \* how many were killed

prVars == <<prProc, prNew, prLock, prPidFile, prMark, prSup, prCall, prDisk, prAsked, prStopped, prKilled>>
prFiles == <<prLock, prPidFile, prMark>>
prHistory == <<prDisk, prAsked, prStopped, prKilled>>

PrIdle == [op |-> "none", at |-> "idle", pid |-> {}, plan |-> "none", ok |-> FALSE]

(* A machine that never ran an agent, with or without an agent.pid left by *)
(* one of long ago, whose number is free or somebody else's by now.        *)
PrInit ==
    /\ \E stale \in {{}} \cup {{p} : p \in PrPids}, state \in {"free", "other"} :
          /\ prPidFile = stale
          /\ prProc = [p \in PrPids |-> IF p \in stale THEN state ELSE "free"]
    /\ prNew = {} /\ prLock = {} /\ prMark = {}
    /\ prSup = [on |-> FALSE, child |-> {}]
    /\ prCall = [c \in PrCalls |-> PrIdle]
    /\ prDisk = FALSE /\ prAsked = FALSE /\ prStopped = FALSE /\ prKilled = 0

PrAlive(p) == prProc[p] # "free"
PrAgent(p) == prProc[p] \notin {"free", "other"}

(***************************************************************************)
(* The probe.                                                              *)
(***************************************************************************)

PrRunningByNumber == \E p \in prPidFile : PrAlive(p)
(* config.AgentRunning: the lock decides, never the number. *)
PrRunning == prLock # {}

(* agentRunning also drops a number whose process is gone. *)
PrSwept == IF ~PrRunning /\ (\A p \in prPidFile : ~PrAlive(p)) THEN {} ELSE prPidFile

(***************************************************************************)
(* The agent.                                                              *)
(***************************************************************************)

PrBoot(p, managed) ==
    /\ prProc[p] = "free"
    /\ prProc' = [prProc EXCEPT ![p] = IF managed THEN "bootManaged" ELSE "boot"]
    /\ prNew' = IF prDisk THEN prNew \cup {p} ELSE prNew \ {p}

PrBooting(p) == prProc[p] \in {"boot", "bootManaged"}

(* awaitAgentLock: the lock is taken, or given up after five seconds. *)
PrTakesLock(p) ==
    /\ PrBooting(p) /\ prLock = {}
    /\ prLock' = {p}
    /\ prProc' = [prProc EXCEPT ![p] = IF @ = "boot" THEN "locked" ELSE "lockedManaged"]
    /\ UNCHANGED <<prNew, prPidFile, prMark, prSup, prCall, prHistory>>

PrGivesUp(p) ==
    /\ PrBooting(p) /\ prLock # {}
    /\ prProc' = [prProc EXCEPT ![p] = "free"]
    /\ prSup' = [prSup EXCEPT !.child = @ \ {p}]
    /\ UNCHANGED <<prNew, prFiles, prCall, prHistory>>

(* cmdAgent: the number and the mark are written by the agent itself. *)
PrRegisters(p) ==
    /\ prProc[p] \in {"locked", "lockedManaged"}
    /\ prPidFile' = {p}
    /\ prMark' = IF prProc[p] = "locked" THEN {} ELSE {p}
    /\ prProc' = [prProc EXCEPT ![p] = "serving"]
    /\ UNCHANGED <<prNew, prLock, prSup, prCall, prHistory>>

(* The deferred clean-up: the files first, the lock last. *)
PrCleansUp(p) ==
    /\ prProc[p] = "closing"
    /\ prMark' = prMark \ {p}
    /\ prPidFile' = {}
    /\ prProc' = [prProc EXCEPT ![p] = "unlocking"]
    /\ UNCHANGED <<prNew, prLock, prSup, prCall, prHistory>>

PrExits(p) ==
    /\ prProc[p] = "unlocking"
    /\ prLock' = prLock \ {p}
    /\ prProc' = [prProc EXCEPT ![p] = "free"]
    /\ prSup' = [prSup EXCEPT !.child = @ \ {p}]
    /\ UNCHANGED <<prNew, prPidFile, prMark, prCall, prHistory>>

(* restartAgentForUpdate: after an update of its own the agent lets the    *)
(* lock go and becomes the new image, with its number.                     *)
PrHandsOver(p) ==
    /\ prProc[p] = "serving" /\ p \notin prNew
    /\ prDisk' = TRUE
    /\ prNew' = prNew \cup {p}
    /\ prLock' = prLock \ {p}
    /\ prProc' = [prProc EXCEPT ![p] = IF p \in prMark THEN "bootManaged" ELSE "boot"]
    /\ UNCHANGED <<prPidFile, prMark, prSup, prCall, prAsked, prStopped, prKilled>>

PrKill(p) ==
    /\ PrAgent(p) /\ prKilled < PrFaults
    /\ prKilled' = prKilled + 1 /\ prStopped' = TRUE
    /\ prLock' = prLock \ {p}
    /\ prProc' = [prProc EXCEPT ![p] = "free"]
    /\ prSup' = [prSup EXCEPT !.child = @ \ {p}]
    /\ UNCHANGED <<prNew, prPidFile, prMark, prCall, prDisk, prAsked>>

(* A number in agent.pid goes to a process that is not ours, and comes     *)
(* back; whoever has the other numbers is nobody's concern.                *)
PrReused(p) ==
    /\ p \in prPidFile /\ prProc[p] \in {"free", "other"}
    /\ prProc' = [prProc EXCEPT ![p] = IF @ = "free" THEN "other" ELSE "free"]
    /\ UNCHANGED <<prNew, prFiles, prSup, prCall, prHistory>>

(***************************************************************************)
(* A supervisor.                                                           *)
(***************************************************************************)

(* cmdService install *)
PrSupervise ==
    /\ ~prSup.on
    /\ prSup' = [prSup EXCEPT !.on = TRUE]
    /\ prAsked' = TRUE
    /\ UNCHANGED <<prProc, prNew, prFiles, prCall, prDisk, prStopped, prKilled>>

(* superviseLoop: whatever the last one ended with, there is a next one. *)
PrSupSpawns(p) ==
    /\ prSup.on /\ prSup.child = {}
    /\ PrBoot(p, TRUE)
    /\ prSup' = [prSup EXCEPT !.child = {p}]
    /\ UNCHANGED <<prFiles, prCall, prHistory>>

(***************************************************************************)
(* The commands.                                                           *)
(***************************************************************************)

PrAt(c, at) == [prCall EXCEPT ![c].at = at]
PrEnd(c, ok) == [prCall EXCEPT ![c] = [@ EXCEPT !.at = "done", !.ok = ok, !.pid = {}]]

PrRun(c, op) ==
    /\ prCall[c].at = "idle"
    /\ prCall' = [prCall EXCEPT ![c] = [@ EXCEPT !.op = op, !.at = CASE op = "start" -> "start" [] op = "stop" -> "stop" [] op = "update" -> "plan"]]
    /\ prAsked' = (prAsked \/ op = "start")
    /\ UNCHANGED <<prProc, prNew, prFiles, prSup, prDisk, prStopped, prKilled>>

(* cmdStart: an agent that serves is enough. *)
PrStart(c) ==
    /\ prCall[c].at = "start"
    /\ prPidFile' = PrSwept
    /\ prCall' = IF PrRunning THEN PrEnd(c, TRUE) ELSE PrAt(c, "spawn")
    /\ UNCHANGED <<prProc, prNew, prLock, prMark, prSup, prHistory>>

PrSpawn(c) ==
    /\ prCall[c].at = "spawn"
    /\ \E p \in PrPids :
          /\ PrBoot(p, FALSE)
          /\ prCall' = [prCall EXCEPT ![c] = [@ EXCEPT !.at = "record", !.pid = {p}]]
    /\ UNCHANGED <<prFiles, prSup, prHistory>>

(* ... and its number is written for it, before it has the lock or after. *)
PrRecord(c) ==
    /\ prCall[c].at = "record"
    /\ prPidFile' = prCall[c].pid
    /\ prCall' = PrEnd(c, TRUE)
    /\ UNCHANGED <<prProc, prNew, prLock, prMark, prSup, prHistory>>

(* What follows a stop, alone or as a part of an update. *)
PrAfterStop(c) == IF prCall[c].op = "update" THEN PrAt(c, "swap") ELSE PrEnd(c, TRUE)

(* cmdStop: nobody to stop, nobody to signal, or a number. *)
PrStop(c) ==
    /\ prCall[c].at = "stop"
    /\ prPidFile' = PrSwept
    /\ prCall' = IF ~PrRunning \/ prPidFile = {} THEN PrAfterStop(c) ELSE [prCall EXCEPT ![c] = [@ EXCEPT !.at = "signal", !.pid = prPidFile]]
    /\ UNCHANGED <<prProc, prNew, prLock, prMark, prSup, prHistory>>

(* SIGTERM to a number: an agent that serves shuts down, one that boots is *)
(* ended, another process gets what was not meant for it.                  *)
PrTerminated(p) ==
    [prProc EXCEPT ![p] = CASE @ = "serving" -> "closing"
                            [] @ \in {"boot", "bootManaged", "locked", "lockedManaged", "other"} -> "free"
                            [] OTHER -> @]

PrTerminate(p) ==
    /\ prProc' = PrTerminated(p)
    /\ LET ended == IF PrTerminated(p)[p] = "free" THEN {p} ELSE {}
       IN  prLock' = prLock \ ended /\ prSup' = [prSup EXCEPT !.child = @ \ ended]

PrSignal(c) ==
    /\ prCall[c].at = "signal"
    /\ \E p \in prCall[c].pid :
          IF PrAlive(p)
          THEN PrTerminate(p) /\ prCall' = PrAt(c, "await") /\ prStopped' = (prStopped \/ prCall[c].op = "stop")
          ELSE prCall' = PrEnd(c, FALSE) /\ UNCHANGED <<prProc, prLock, prSup, prStopped>>
    /\ UNCHANGED <<prNew, prPidFile, prMark, prDisk, prAsked, prKilled>>

PrReleasedNot == TRUE
PrReleased == prLock = {}

(* awaitAgentLockRelease, and what it gives up with after ten seconds. *)
PrAwait(c) ==
    /\ prCall[c].at = "await"
    /\ IF PrReleased THEN prCall' = PrAt(c, "unrecord") ELSE prCall' = PrEnd(c, FALSE)
    /\ UNCHANGED <<prProc, prNew, prFiles, prSup, prHistory>>

PrUnrecord(c) ==
    /\ prCall[c].at = "unrecord"
    /\ prPidFile' = {}
    /\ prCall' = PrAfterStop(c)
    /\ UNCHANGED <<prProc, prNew, prLock, prMark, prSup, prHistory>>

(* planUpdateRestart: decided before the swap, from what the machine is. *)
PrPlan(c) ==
    /\ prCall[c].at = "plan"
    /\ prPidFile' = PrSwept
    /\ prCall' = IF ~PrRunning THEN PrAt(c, "swap")
                 ELSE IF prPidFile # {} /\ prMark = prPidFile
                      THEN [prCall EXCEPT ![c] = [@ EXCEPT !.at = "swap", !.plan = "managed", !.pid = prPidFile]]
                      ELSE [prCall EXCEPT ![c] = [@ EXCEPT !.at = "stop", !.plan = "detached"]]
    /\ UNCHANGED <<prProc, prNew, prLock, prMark, prSup, prHistory>>

(* replaceBinary, and then applyUpdateRestart. *)
PrSwap(c) ==
    /\ prCall[c].at = "swap"
    /\ prDisk' = TRUE
    /\ prCall' = CASE prCall[c].plan = "detached" -> PrAt(c, "start")
                   [] prCall[c].plan = "managed" -> PrAt(c, "helper")
                   [] OTHER -> PrEnd(c, TRUE)
    /\ UNCHANGED <<prProc, prNew, prFiles, prSup, prAsked, prStopped, prKilled>>

(* cmdRestartManaged, the detached helper: the number must still be the    *)
(* serving agent's and the supervisor's.                                   *)
PrHelper(c) ==
    /\ prCall[c].at = "helper"
    /\ IF PrRunning /\ prPidFile = prCall[c].pid /\ prMark = prCall[c].pid
       THEN \E p \in prCall[c].pid : PrTerminate(p)
       ELSE UNCHANGED <<prProc, prLock, prSup>>
    /\ prCall' = PrAt(c, "replaced")
    /\ UNCHANGED <<prNew, prPidFile, prMark, prHistory>>

(* awaitManagedRestart: another number that lives, or twenty seconds. *)
PrAwaitReplaced(c) ==
    /\ prCall[c].at = "replaced"
    /\ \/ (\E p \in prPidFile \ prCall[c].pid : PrAlive(p)) /\ prCall' = PrEnd(c, TRUE)
       \/ prCall' = PrEnd(c, FALSE)
    /\ UNCHANGED <<prProc, prNew, prFiles, prSup, prHistory>>

PrNext ==
    \/ PrSupervise
    \/ \E p \in PrPids :
          \/ PrTakesLock(p) \/ PrGivesUp(p) \/ PrRegisters(p) \/ PrCleansUp(p) \/ PrExits(p)
          \/ PrHandsOver(p) \/ PrKill(p) \/ PrReused(p) \/ PrSupSpawns(p)
    \/ \E c \in PrCalls :
          \/ \E op \in PrOps : PrRun(c, op)
          \/ PrStart(c) \/ PrSpawn(c) \/ PrRecord(c) \/ PrStop(c) \/ PrSignal(c) \/ PrAwait(c) \/ PrUnrecord(c)
          \/ PrPlan(c) \/ PrSwap(c) \/ PrHelper(c) \/ PrAwaitReplaced(c)

PrSpec == PrInit /\ [][PrNext]_prVars

(***************************************************************************)
(* Properties.                                                             *)
(***************************************************************************)

PrQuiet ==
    /\ \A p \in PrPids : prProc[p] \in {"free", "other", "serving"}
    /\ \A c \in PrCalls : prCall[c].at \in {"idle", "done"}
    /\ prSup.on => prSup.child # {}

(* An update that found an agent running, and will start it again. *)
PrInterrupts(c) == prCall[c].op = "update" /\ prCall[c].plan # "none"

(* An update puts back the agent it interrupted: when every one that did   *)
(* says it went well and all has settled, an agent serves, unless somebody *)
(* stopped or killed one (applyUpdateStop, awaitAgentLockRelease,          *)
(* applyUpdateRestart).  An update that gave up promises nothing, and the  *)
(* agent it signalled may still be leaving when the next one looks.        *)
PrUpdateRestores ==
    /\ PrQuiet /\ ~prStopped
    /\ \E c \in PrCalls : PrInterrupts(c)
    /\ \A c \in PrCalls : PrInterrupts(c) => prCall[c].ok
    => prLock # {}

(* Updating never makes a controlled device of a machine nobody asked to   *)
(* be one, whatever an old agent.pid says (planUpdateRestart).             *)
PrNeverEnrolls == ~prAsked => \A p \in PrPids : ~PrAgent(p)

(* Once everything is quiet, agent.pid names the agent that serves, so     *)
(* that status and stop see it however it was launched (cmdAgent).         *)
PrAgentSeen == PrQuiet /\ prLock # {} => prPidFile = prLock

(* daemon.go and update.go: an update puts back the agent it interrupted,  *)
(* and never makes a controlled device of a machine nobody asked for.      *)
ProcessSafe == PrUpdateRestores /\ PrNeverEnrolls
================================================================================
