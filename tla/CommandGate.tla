---------------------------- MODULE CommandGate ----------------------------
(***************************************************************************)
(* How a device decides a request (gate and gateFile of                     *)
(* internal/agent/agent.go, Ask and Decide of                                *)
(* internal/console, the late approvals of internal/agent/approvals.go).    *)
(*                                                                         *)
(* A request names a command and a directory.  A script is asked about      *)
(* under an abbreviation, its label, which two scripts may share.  Waits    *)
(* and lifetimes end whenever they like.                                    *)
(***************************************************************************)
EXTENDS Naturals, Sequences, FiniteSets, SequencesExt

CONSTANTS
    Requests,       \* requests being served
    Delegated,      \* those of a delegated session
    Commands,       \* what they ask to run
    LabelOf,        \* CommandLabel: the command, or the short form of a script
    Dirs,           \* canonical directories
    NoDir,          \* a directory that has no canonical form
    MaxGrants,      \* maxLateGrants
    MaxAskedScripts,
    MaxAsks,        \* bound on questions put to the owner
    MaxLate         \* bound on late approvals

\* Only a script is abbreviated: a label is its own label.
LabelsStay == \A c \in Commands : LabelOf[c] \in Commands => LabelOf[LabelOf[c]] = LabelOf[c]

ASSUME GateAssumption == Commands \subseteq DOMAIN LabelOf /\ NoDir \notin Dirs /\ LabelsStay

VARIABLES
    grants,      \* lateGrants.grants
    asked,       \* lateGrants.scripts
    ask,         \* every question: its request, its answer, whether it waits
    attended,    \* a front end is subscribed
    active,      \* the delegation of delegated requests
    req,         \* the requests in gate
    lateAsks,        \* questions approved late
    used,        \* what late approvals let through, and which
    forgot,      \* a record of an asked script is gone
    revived      \* a delegated request went ahead on an answer given after its delegation ended

owner == <<ask, attended>>
gateVars == <<grants, asked, ask, attended, active, req, lateAsks, used, forgot, revived>>

NoReq == [pc |-> "none", cmd |-> CHOOSE c \in Commands : TRUE, dir |-> NoDir,
          n |-> 0, grant |-> 0]

GateInit ==
    /\ grants = <<>> /\ asked = <<>>
    /\ ask = <<>> /\ attended \in BOOLEAN
    /\ active = TRUE
    /\ req = [r \in Requests |-> NoReq]
    /\ lateAsks = {} /\ used = <<>> /\ forgot = FALSE /\ revived = FALSE

Go(r, pc) == req' = [req EXCEPT ![r].pc = pc]
Answer(r) == req' = [req EXCEPT ![r] = NoReq]

\* slices.DeleteFunc: SelectSeq of what is not in X, in a form that can be
\* reasoned about.
Without(s, X) ==
    LET f[k \in 0..Len(s)] == IF k = 0 THEN <<>> ELSE IF s[k] \in X THEN f[k - 1] ELSE Append(f[k - 1], s[k])
    IN  f[Len(s)]

-----------------------------------------------------------------------------
(* gate *)

\* A request that neither bypass mode nor a rule covers (PolicyRules).
Begin(r, c, d) ==
    /\ req[r].pc = "none"
    /\ req' = [req EXCEPT ![r] = [NoReq EXCEPT !.pc = "find", !.cmd = c, !.dir = d]]
    /\ UNCHANGED <<grants, asked, owner, active, lateAsks, used, forgot, revived>>

\* lateGrants.find: a grant for the whole command and the directory.
FindGrant(r) ==
    LET fit == {g \in Range(grants) : g.key = req[r].cmd /\ g.dir = req[r].dir} IN
    /\ req[r].pc = "find"
    /\ \/ /\ req[r].dir # NoDir
          /\ \E g \in fit : req' = [req EXCEPT ![r].pc = "found", ![r].grant = g.id]
       \/ /\ req[r].dir = NoDir \/ fit = {}
          /\ Go(r, "asking")
    /\ UNCHANGED <<grants, asked, owner, active, lateAsks, used, forgot, revived>>

\* useLateGrant: a lapsed delegation does not burn the grant.
ChecksPass(r) == r \in Delegated => active

MayUseGrant(r) ==
    /\ req[r].pc = "found"
    /\ IF ChecksPass(r) THEN Go(r, "take") ELSE Answer(r)
    /\ UNCHANGED <<grants, asked, owner, active, lateAsks, used, forgot, revived>>

\* The grant that was found is taken to be there still.
TakeGrantUnseen(r) ==
    /\ req[r].pc = "take"
    /\ grants' = Without(grants, {g \in Range(grants) : g.id = req[r].grant})
    /\ used' = Append(used, [cmd |-> req[r].cmd, dir |-> req[r].dir, id |-> req[r].grant])
    /\ Answer(r)
    /\ UNCHANGED <<asked, owner, active, lateAsks, forgot, revived>>

\* lateGrants.take: another request may have spent it, or its time is over.
TakeGrant(r) ==
    /\ req[r].pc = "take"
    /\ IF \E g \in Range(grants) : g.id = req[r].grant
       THEN /\ grants' = Without(grants, {g \in Range(grants) : g.id = req[r].grant})
            /\ used' = Append(used, [cmd |-> req[r].cmd, dir |-> req[r].dir, id |-> req[r].grant])
            /\ Answer(r)
       ELSE Go(r, "asking") /\ UNCHANGED <<grants, used>>
    /\ UNCHANGED <<asked, owner, active, lateAsks, forgot, revived>>

\* A list that keeps the newest.
Bounded(s, max) == IF Len(s) > max THEN Tail(s) ELSE s

\* lateGrants.asked: a script is remembered under its label.
RecordAsked(c) ==
    LET next == Append(Without(asked, {c}), c) IN
    IF LabelOf[c] = c THEN UNCHANGED <<asked, forgot>>
    ELSE /\ asked' = Bounded(next, MaxAskedScripts)
         /\ forgot' = (forgot \/ Len(next) > MaxAskedScripts)

-----------------------------------------------------------------------------
(* console.Service *)

\* gate asks the owner.  With nobody to answer, Ask denies at once.
AskOwner(r) ==
    /\ req[r].pc = "asking"
    /\ RecordAsked(req[r].cmd)
    /\ \/ ~attended /\ Answer(r) /\ UNCHANGED ask
       \/ /\ attended /\ Len(ask) < MaxAsks
          /\ ask' = Append(ask, [cmd |-> req[r].cmd, dir |-> req[r].dir,
                                 up |-> TRUE, answer |-> "none", lapsed |-> FALSE])
          /\ req' = [req EXCEPT ![r].pc = "wait", ![r].n = Len(ask) + 1]
    /\ UNCHANGED <<grants, attended, active, lateAsks, used, revived>>

Answers == {"yes", "no"}

\* Decide: the channel holds one answer, and the first stays.
Decide(n, v) ==
    /\ attended /\ ask[n].up /\ ask[n].answer = "none"
    /\ ask' = [ask EXCEPT ![n].answer = v, ![n].lapsed = ~active]
    /\ UNCHANGED <<grants, asked, attended, active, req, lateAsks, used, forgot, revived>>

\* gate after the owner was asked, without the second look at the delegation.
GoesAheadUnchecked(r) == ask[req[r].n].answer # "no"

\* gate after the owner was asked: the delegation is looked at again.
GoesAhead(r) == ChecksPass(r) /\ ask[req[r].n].answer # "no"

Over(n) == ask' = [ask EXCEPT ![n].up = FALSE, ![n].answer = "none", ![n].lapsed = FALSE]

\* Ask returns an answer and gate goes on with it.
OwnerAnswered(r) ==
    LET n == req[r].n IN
    /\ req[r].pc = "wait" /\ ask[n].answer # "none"
    /\ revived' = (revived \/ (GoesAhead(r) /\ r \in Delegated /\ ask[n].lapsed))
    /\ Over(n) /\ Answer(r)
    /\ UNCHANGED <<grants, asked, attended, active, lateAsks, used, forgot>>

\* Ask, nobody answered in time: denied, and the card goes.
AskTimesOut(r) ==
    /\ req[r].pc = "wait" /\ Over(req[r].n) /\ Answer(r)
    /\ UNCHANGED <<grants, asked, attended, active, lateAsks, used, forgot, revived>>

-----------------------------------------------------------------------------
(* What the portal sends *)

\* A label is taken for the last script asked about under it.
ResolveLast(label) ==
    LET fit == SelectSeq(asked, LAMBDA c : LabelOf[c] = label) IN
    IF fit = <<>> THEN {label} ELSE {Last(fit)}

\* resolveLocked: the script a label stands for; none when it stands for two.
Resolve(label) ==
    LET fit == {c \in Range(asked) : LabelOf[c] = label} IN
    IF fit = {} THEN {label} ELSE IF Cardinality(fit) = 1 THEN fit ELSE {}

\* grantOnce, for a question that is no longer up.  The same approval twice
\* leaves one grant, and past the bound the oldest goes.
GrantOnce(n) ==
    /\ ~ask[n].up /\ Cardinality(lateAsks) < MaxLate /\ n \notin lateAsks /\ lateAsks' = lateAsks \cup {n}
    /\ grants' = IF ask[n].dir = NoDir \/ Resolve(LabelOf[ask[n].cmd]) = {} THEN grants
                 ELSE LET key == CHOOSE k \in Resolve(LabelOf[ask[n].cmd]) : TRUE
                          rest == Without(grants, {g \in Range(grants) : g.key = key /\ g.dir = ask[n].dir})
                      IN Bounded(Append(rest, [key |-> key, dir |-> ask[n].dir, id |-> n]), MaxGrants)
    /\ UNCHANGED <<asked, owner, active, req, used, forgot, revived>>

\* pruneLocked.
GrantExpires ==
    /\ grants # <<>> /\ grants' = Tail(grants)
    /\ UNCHANGED <<asked, owner, active, req, lateAsks, used, forgot, revived>>

AskedExpires ==
    /\ asked # <<>> /\ asked' = Tail(asked) /\ forgot' = TRUE
    /\ UNCHANGED <<grants, owner, active, req, lateAsks, used, revived>>

Attend ==
    /\ attended' = ~attended
    /\ UNCHANGED <<grants, asked, ask, active, req, lateAsks, used, forgot, revived>>

DelegationEnds ==
    /\ active /\ active' = FALSE
    /\ UNCHANGED <<grants, asked, owner, req, lateAsks, used, forgot, revived>>

\* The agent restarts: what is in memory only is gone.
Restart ==
    /\ req' = [r \in Requests |-> NoReq] /\ grants' = <<>> /\ asked' = <<>>
    /\ ask' = [n \in DOMAIN ask |-> [ask[n] EXCEPT !.up = FALSE, !.answer = "none", !.lapsed = FALSE]]
    /\ attended' = FALSE /\ forgot' = TRUE
    /\ UNCHANGED <<active, lateAsks, used, revived>>

GateStep(r) ==
    \/ FindGrant(r) \/ MayUseGrant(r) \/ TakeGrant(r)
    \/ AskOwner(r) \/ OwnerAnswered(r) \/ AskTimesOut(r)

GateNext ==
    \/ \E r \in Requests : GateStep(r)
    \/ \E r \in Requests, c \in Commands, d \in Dirs \cup {NoDir} : Begin(r, c, d)
    \/ \E n \in DOMAIN ask, v \in Answers : Decide(n, v)
    \/ \E n \in DOMAIN ask : GrantOnce(n)
    \/ GrantExpires \/ AskedExpires \/ Attend \/ DelegationEnds \/ Restart

GateSpec == GateInit /\ [][GateNext]_gateVars

-----------------------------------------------------------------------------
(* Properties *)

Count(c, d) == Cardinality({i \in DOMAIN used : used[i].cmd = c /\ used[i].dir = d})
Given(S, d) == Cardinality({n \in lateAsks : ask[n].cmd \in S /\ ask[n].dir = d})
SameLabel(c) == {x \in Commands : LabelOf[x] = LabelOf[c]}
Spelled(c) == {x \in Commands : x \in {c, LabelOf[c]}}

\* "The same approval twice still releases the request once", and the grant
\* "carries the whole token" (approvals.go): late approvals let through no more
\* requests than the owner approved, each for what its card showed, in its
\* directory; and for the very command, while the device remembers the scripts
\* it asked about.  A plain command whose text is a script's label is excepted:
\* resolveLocked takes its late approval for that script, if it is remembered.
LateGrantExact ==
    \A c \in Commands, d \in Dirs :
        /\ Count(c, d) <= Given(SameLabel(c), d)
        /\ ~forgot => Count(c, d) <= Given(Spelled(c), d)

\* "a late approval cannot revive a revoked grant" (delegation.go): a request
\* whose delegation was over when the owner answered does not go ahead.
LapsedStaysDenied == ~revived

\* gate, with approvals.go and delegation.go: an answer given late lets through
\* what it was given for, once, and nothing whose delegation is over.
GateSafe == LateGrantExact /\ LapsedStaysDenied
=============================================================================
