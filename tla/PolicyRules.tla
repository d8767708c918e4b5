---------------------------- MODULE PolicyRules ----------------------------
(***************************************************************************)
(* The device's allow-list (internal/policy/policy.go).                     *)
(*                                                                         *)
(* A command is its words, what the shell parser says of it (one simple     *)
(* command or not), whether PowerShell would evaluate part of it, and the   *)
(* script it carries, if any.  A pattern is words, whether it ends in " *", *)
(* and the script it names.  A path is a sequence of names.                 *)
(***************************************************************************)
EXTENDS Naturals, Sequences, SequencesExt

CONSTANTS
    Words, Names,   \* of commands and of paths
    Scripts,        \* script tokens
    NoScript,
    PowerShell      \* Engine.psShell

VARIABLES
    answered,   \* a request the owner said yes to
    rule,       \* the rule remembered for it, if any
    tried       \* a request that comes later

policyVars == <<answered, rule, tried>>

PolicyKinds == {"exec", "exec-elevated", "read", "write", "logs"}
Exec == {"exec", "exec-elevated"}

CommandSet ==
    {c \in [words : SeqOf(Words, 2) \ {<<>>}, simple : BOOLEAN, ps : BOOLEAN, script : Scripts \cup {NoScript}] :
        (c.script # NoScript) => ~c.simple /\ ~c.ps /\ Len(c.words) = 1}
Paths == SeqOf(Names, 2) \ {<<>>}
\* A working directory, <<>> when the controller named none.
Cwds == {<<>>} \cup {<<n>> : n \in Names}

RequestSet ==
    [kind : Exec, cmd : CommandSet, cwd : Cwds]
    \cup [kind : {"read", "write"}, path : Paths] \cup [kind : {"logs"}]

-----------------------------------------------------------------------------
(* Matching *)

\* A prefix covers whatever the shell makes of what follows it.
SimpleEnoughAny(c) == TRUE

\* isSingleSimpleCommand, and hasPowerShellEval on a PowerShell device.
SimpleEnough(c) == c.simple /\ ~(PowerShell /\ c.ps)

\* matchCommand: a pattern that names a script is that script's alone; else the
\* very command, everything, or the words before the arguments of one simple
\* command.
MatchCommand(p, c) ==
    IF p.script # NoScript THEN c.script = p.script
    ELSE \/ c.script = NoScript /\ p.exact = {c}
         \/ p.star /\ p.words = <<>>
         \/ /\ SimpleEnough(c)
            /\ IsPrefix(p.words, c.words) /\ Len(p.words) < Len(c.words)

\* Within: the directory itself or below; the empty pattern is any path.
Within(dir, path) == IsPrefix(dir, path)

\* ruleMatches.
RuleMatches(r, q) ==
    CASE q.kind \in Exec    -> /\ r.kind = q.kind /\ MatchCommand(r.pattern, q.cmd)
                               /\ r.scope = "global" \/ (r.dir = q.cwd /\ q.cwd # <<>>)
      [] q.kind = "read"    -> r.kind \in {"read", "write"} /\ Within(r.pattern, q.path)
      [] q.kind = "write"   -> r.kind = "write" /\ Within(r.pattern, q.path)
      [] q.kind = "logs"    -> r.kind = "logs" /\ r.scope = "global"

\* A script is remembered under the short form its card showed.
CommandPatternShort(c) ==
    [words |-> c.words, star |-> FALSE, script |-> NoScript, exact |-> {}]

\* CommandPattern: the command itself, or the token of the script it carries.
CommandPattern(c) ==
    [words |-> c.words, star |-> FALSE, script |-> c.script, exact |-> {c}]

\* RuleFor.
RuleFor(q, scope) ==
    CASE q.kind \in Exec ->
           LET here == scope = "dir" /\ q.cwd # <<>> IN
           [kind |-> q.kind, pattern |-> CommandPattern(q.cmd),
            dir |-> IF here THEN q.cwd ELSE <<>>, scope |-> IF here THEN "dir" ELSE "global"]
      [] q.kind \in {"read", "write"} ->
           [kind |-> q.kind, pattern |-> IF scope = "dir" THEN Front(q.path) ELSE <<>>, dir |-> <<>>, scope |-> scope]
      [] q.kind = "logs" -> [kind |-> "logs", pattern |-> <<>>, dir |-> <<>>, scope |-> "global"]

-----------------------------------------------------------------------------
PolicyInit == answered \in RequestSet /\ rule = {} /\ tried = answered

\* gate: the answer is remembered for the directory or for everywhere.
Remember(scope) ==
    /\ rule = {} /\ rule' = {RuleFor(answered, scope)}
    /\ UNCHANGED <<answered, tried>>

Try(q) == rule # {} /\ tried = answered /\ tried' = q /\ UNCHANGED <<answered, rule>>

PolicyNext == (\E scope \in {"dir", "global"} : Remember(scope)) \/ \E q \in RequestSet : Try(q)
PolicySpec == PolicyInit /\ [][PolicyNext]_policyVars

-----------------------------------------------------------------------------
(* Properties *)

\* Engine.Allowed.
Allowed(q) == \E r \in rule : RuleMatches(r, q)

\* What the owner said to remember needs no second question.
RememberedIsAllowed == rule # {} => Allowed(answered)

\* A remembered rule lets through nothing of another class, nothing that is not
\* one simple command unless it is the command the owner saw, no other script,
\* and, for a directory, nothing elsewhere.
RememberedIsNotWider ==
    \A r \in rule : RuleMatches(r, tried) =>
        /\ tried.kind = answered.kind \/ (tried.kind = "read" /\ answered.kind = "write")
        /\ tried.kind \in Exec =>
             /\ tried.cmd = answered.cmd \/ tried.cmd.script # NoScript \/ (tried.cmd.simple /\ ~(PowerShell /\ tried.cmd.ps))
             /\ tried.cmd.script = answered.cmd.script
             /\ r.scope = "dir" => tried.cwd = answered.cwd
        /\ tried.kind \in {"read", "write"} /\ r.scope = "dir" => IsPrefix(Front(answered.path), tried.path)

\* policy.go: a remembered answer covers what was asked and nothing wider.
PolicyExact == RememberedIsAllowed /\ RememberedIsNotWider
=============================================================================
