---------------------------- MODULE ShellSessions ----------------------------
(***************************************************************************)
(* The persistent shell a device keeps for one controller                  *)
(* (internal/agent/agent.go execInSession, internal/server/shell.go) and   *)
(* the gate that ties a cancellation to one command                        *)
(* (internal/server/session_container.go).  Several requests of the        *)
(* controller share the shell; cancelling a command destroys it, so the    *)
(* hazards are a cancellation that lands on the next command, a retry that *)
(* runs a command a second time, and a shell nobody owns any more.         *)
(***************************************************************************)
EXTENDS Naturals, FiniteSets

CONSTANTS Execs,          \* requests that run a command in the session
          MaxShells       \* bound: shells started in one behaviour

ASSUME ShellAssumption == MaxShells \in Nat \ {0}

VARIABLES shell,          \* a.sessions[fp]: the shell in the map, 0 if none
          spawned,        \* shells started so far
          shut,           \* ShellSession.closed
          freed,          \* shells whose container has been released
          holder,         \* ShellSession.mu: the request holding it, {} if free
          next, live, firedGen,   \* cancelGate, per shell
          watchers,       \* arm's goroutines: [by, sh, gen]
          ex              \* the requests: where they are, their shell and
                          \* generation, whether this is the second try, whether
                          \* the controller is gone, times run, the result

cancelGate  == <<next, live, firedGen, watchers>>
shellVars == <<shell, spawned, shut, freed, holder, cancelGate, ex>>

Shells == 1 .. MaxShells

ShellInit ==
    /\ shell = 0 /\ spawned = 0 /\ shut = {} /\ freed = {}
    /\ holder = [s \in Shells |-> {}]
    /\ next = [s \in Shells |-> 0]
    /\ live = [s \in Shells |-> 0]
    /\ firedGen = [s \in Shells |-> 0]
    /\ watchers = {}
    /\ ex = [e \in Execs |-> [at |-> "idle", sh |-> 0, gen |-> 0, try |-> 0,
                              gone |-> FALSE, ran |-> 0, out |-> "none"]]

ShellGo(e, at) == ex' = [ex EXCEPT ![e].at = at]

(* Leaving ExecInDirContext: the deferred unlock, and the result it reports. *)
Leave(e, out) ==
    /\ ex' = [ex EXCEPT ![e].at = "after", ![e].out = out]
    /\ holder' = [holder EXCEPT ![ex[e].sh] = {}]

ExecArrives(e) ==
    /\ ex[e].at = "idle" /\ ShellGo(e, "start")
    /\ UNCHANGED <<shell, spawned, shut, freed, holder, cancelGate>>

(* session: the shell in the map unless it is closed, else a new one. *)
Acquire(e) ==
    /\ ex[e].at = "start"
    /\ \/ /\ shell # 0 /\ shell \notin shut
          /\ ex' = [ex EXCEPT ![e].at = "wait", ![e].sh = shell]
          /\ UNCHANGED <<shell, spawned>>
       \/ /\ shell = 0 \/ shell \in shut
          /\ spawned < MaxShells
          /\ spawned' = spawned + 1 /\ shell' = spawned + 1
          /\ ex' = [ex EXCEPT ![e].at = "wait", ![e].sh = spawned + 1]
    /\ UNCHANGED <<shut, freed, holder, cancelGate>>

(* NewShellSessionInDir fails: the process does not start, or is killed and  *)
(* reaped because it cannot be contained.  The map keeps what it had.        *)
ShellFails(e) ==
    /\ ex[e].at = "start" /\ (shell = 0 \/ shell \in shut)
    /\ ex' = [ex EXCEPT ![e].at = "end", ![e].out = "failed"]
    /\ UNCHANGED <<shell, spawned, shut, freed, holder, cancelGate>>

(* ExecInDirContext once it has the lock: a request already cancelled goes   *)
(* no further, a shell already closed is unusable, else the gate is armed.   *)
EnterShell(e) ==
    LET s == ex[e].sh IN
    /\ ex[e].at = "wait" /\ holder[s] = {}
    /\ \/ /\ ex[e].gone
          /\ ex' = [ex EXCEPT ![e].at = "after", ![e].out = "ctx"]
          /\ UNCHANGED <<holder, cancelGate>>
       \/ /\ ~ex[e].gone /\ s \in shut
          /\ ex' = [ex EXCEPT ![e].at = "after", ![e].out = "unusable"]
          /\ UNCHANGED <<holder, cancelGate>>
       \/ /\ ~ex[e].gone /\ s \notin shut
          /\ holder' = [holder EXCEPT ![s] = {e}]
          /\ next' = [next EXCEPT ![s] = @ + 1]
          /\ live' = [live EXCEPT ![s] = next[s] + 1]
          /\ watchers' = watchers \cup {[by |-> e, sh |-> s, gen |-> next[s] + 1]}
          /\ ex' = [ex EXCEPT ![e].at = "armed", ![e].gen = next[s] + 1]
          /\ UNCHANGED firedGen
    /\ UNCHANGED <<shell, spawned, shut, freed>>

(* execLocked: nothing is written to a shell that closed in between. *)
Submit(e) ==
    /\ ex[e].at = "armed"
    /\ IF ex[e].sh \in shut
       THEN ex' = [ex EXCEPT ![e].at = "disarm", ![e].out = "failed"]
       ELSE ex' = [ex EXCEPT ![e].at = "run", ![e].ran = @ + 1]
    /\ UNCHANGED <<shell, spawned, shut, freed, holder, cancelGate>>

(* execLocked reads the end marker. *)
CommandEnds(e) ==
    /\ ex[e].at = "run" /\ ex[e].sh \notin shut
    /\ ex' = [ex EXCEPT ![e].at = "disarm", ![e].out = "ok"]
    /\ UNCHANGED <<shell, spawned, shut, freed, holder, cancelGate>>

(* The shell's stream ends under the command: killed, or it exited itself. *)
StreamEnds(e) ==
    /\ ex[e].at = "run"
    /\ shut' = shut \cup {ex[e].sh}
    /\ ex' = [ex EXCEPT ![e].at = "disarm", ![e].out = "failed"]
    /\ UNCHANGED <<shell, spawned, freed, holder, cancelGate>>

(* The controller asks to stop, or its connection goes away. *)
ControllerGone(e) ==
    /\ ex[e].at \notin {"idle", "after", "end"} /\ ~ex[e].gone
    /\ ex' = [ex EXCEPT ![e].gone = TRUE]
    /\ UNCHANGED <<shell, spawned, shut, freed, holder, cancelGate>>

(* cancelNow: the shell is closed, its processes killed and its output cut.  *)
Killed(s) == shut' = shut \cup {s}

(* Mutant: a watcher fires on whatever is armed, the flag the generation     *)
(* number replaced.                                                          *)
FireAny(w) ==
    /\ ex[w.by].gone
    /\ watchers' = watchers \ {w}
    /\ IF live[w.sh] = 0
       THEN UNCHANGED <<live, firedGen, shut>>
       ELSE /\ live' = [live EXCEPT ![w.sh] = 0]
            /\ firedGen' = [firedGen EXCEPT ![w.sh] = w.gen]
            /\ Killed(w.sh)
    /\ UNCHANGED <<shell, spawned, freed, holder, next, ex>>

(* fire and cancelNow: only for the generation that is still armed. *)
Fire(w) ==
    /\ ex[w.by].gone
    /\ watchers' = watchers \ {w}
    /\ IF live[w.sh] # w.gen
       THEN UNCHANGED <<live, firedGen, shut>>
       ELSE /\ live' = [live EXCEPT ![w.sh] = 0]
            /\ firedGen' = [firedGen EXCEPT ![w.sh] = w.gen]
            /\ Killed(w.sh)
    /\ UNCHANGED <<shell, spawned, freed, holder, next, ex>>

(* A watcher told to stand down.  One whose context is also done may still   *)
(* choose to fire.                                                           *)
StandDown(w) ==
    /\ ex[w.by].at \in {"after", "end"} \/ ex[w.by].gen # w.gen \/ ex[w.by].sh # w.sh
    /\ watchers' = watchers \ {w}
    /\ UNCHANGED <<shell, spawned, shut, freed, holder, next, live, firedGen, ex>>

(* disarm under the gate's lock, and what ExecInDirContext reports. *)
Disarm(e) ==
    LET s == ex[e].sh
        fired == firedGen[s] = ex[e].gen
    IN  /\ ex[e].at = "disarm"
        /\ live' = [live EXCEPT ![s] = IF @ = ex[e].gen THEN 0 ELSE @]
        /\ shut' = IF fired THEN shut \cup {s} ELSE shut
        /\ Leave(e, IF fired THEN "cancelled" ELSE ex[e].out)
        /\ UNCHANGED <<shell, spawned, freed, next, firedGen, watchers>>

(* Mutant: dropSession forgets whatever shell the map holds. *)
DropAny(e) == IF ex[e].sh \in shut THEN 0 ELSE shell

(* dropSession's map change: only if the map still holds this shell. *)
Drop(e) == IF ex[e].sh \in shut /\ shell = ex[e].sh THEN 0 ELSE shell

(* Mutant: any failure of the first attempt is answered by a second one. *)
RetriableAny(e) == ex[e].out \in {"unusable", "failed"} /\ ex[e].try = 0

(* Only "nothing was submitted" is answered by a fresh shell. *)
Retriable(e) == ex[e].out = "unusable" /\ ex[e].try = 0

(* Close, idempotent: a closed shell's container is released. *)
Released(e) == IF ex[e].sh \in shut THEN freed \cup {ex[e].sh} ELSE freed

(* execInSession after a run: a closed shell is dropped and torn down. *)
AfterRun(e) ==
    /\ ex[e].at = "after"
    /\ shell' = Drop(e)
    /\ freed' = Released(e)
    /\ ex' = IF Retriable(e)
             THEN [ex EXCEPT ![e].at = "start", ![e].try = 1]
             ELSE [ex EXCEPT ![e].at = "end"]
    /\ UNCHANGED <<spawned, shut, holder, cancelGate>>

ShellNext ==
    \/ \E e \in Execs :
          \/ ExecArrives(e) \/ Acquire(e) \/ ShellFails(e) \/ EnterShell(e) \/ Submit(e)
          \/ CommandEnds(e) \/ StreamEnds(e) \/ ControllerGone(e)
          \/ Disarm(e) \/ AfterRun(e)
    \/ \E w \in watchers : Fire(w) \/ StandDown(w)

ShellSpec == ShellInit /\ [][ShellNext]_shellVars

(* session_container.go: a kill armed by one request can never land on          *)
(* another.  A command that is in the shell when a cancellation has fired    *)
(* there is the command the cancellation was for.                            *)
CancelHitsItsOwn ==
    \A e \in Execs : ex[e].at = "run" /\ firedGen[ex[e].sh] # 0
                        => firedGen[ex[e].sh] = ex[e].gen /\ ex[e].gone

(* execInSession's retry: whatever happens to the shell, and however many    *)
(* requests share it, no command is put into a shell twice.                  *)
RunsAtMostOnce == \A e \in Execs : ex[e].ran <= 1

(* When every request is over, each shell still open is the one in the map   *)
(* and each closed one has been torn down: no shell is left behind.          *)
NoShellLeaks ==
    (\A e \in Execs : ex[e].at \in {"idle", "end"})
        => \A s \in 1 .. spawned : IF s \in shut THEN s \in freed ELSE s = shell
=============================================================================
