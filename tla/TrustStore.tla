----------------------------- MODULE TrustStore -----------------------------
(***************************************************************************)
(* known_clients.json as the agent keeps it (internal/transport/trust.go).  *)
(*                                                                         *)
(* Every session of the device uses one Store.  A change is made to the map *)
(* under the mutex; save then takes the mutex again for a snapshot and      *)
(* writes it, under no lock, to one temporary file that it renames.  Get    *)
(* reads the file back into the map.  Entries are told apart by their       *)
(* fingerprint only.                                                        *)
(***************************************************************************)
EXTENDS Naturals, FiniteSets

CONSTANTS
    Sessions,      \* goroutines using the store
    Peers,         \* fingerprints
    MaxOps         \* bound on changes of the store

VARIABLES
    file,     \* known_clients.json
    tmp,      \* known_clients.json.tmp: its contents, if it is there
    m,        \* Store.m
    op,       \* the change each session is making
    ops,      \* changes begun
    revoked   \* fingerprints whose removal succeeded and that nobody added since

store == <<file, tmp, m>>
storeVars == <<file, tmp, m, op, ops, revoked>>

Resting == [pc |-> "rest", does |-> "", fp |-> CHOOSE f \in Peers : TRUE, snap |-> {}]

StoreInit ==
    /\ file \in SUBSET Peers /\ m = file /\ tmp = {}
    /\ op = [s \in Sessions |-> Resting] /\ ops = 0 /\ revoked = {}

\* Get and Has: the file is loaded into the map.
Get(s) ==
    /\ op[s].pc = "rest" /\ m' = file
    /\ UNCHANGED <<file, tmp, op, ops, revoked>>

\* Remove and RemoveName: every entry of the fingerprint goes.
Forget(f) == m \ {f}

\* AddLabeled, Remove and Touch up to the unlock.
Change(s, does, f) ==
    /\ op[s].pc = "rest" /\ ops < MaxOps /\ ops' = ops + 1
    /\ m' = CASE does = "add" -> m \cup {f}
              [] does = "remove" -> Forget(f)
              [] does = "touch" -> m
    /\ revoked' = IF does = "add" THEN revoked \ {f} ELSE revoked
    /\ op' = [op EXCEPT ![s] = [pc |-> "snap", does |-> does, fp |-> f, snap |-> {}]]
    /\ UNCHANGED <<file, tmp>>

\* save: the snapshot.
Snapshot(s) ==
    /\ op[s].pc = "snap" /\ op' = [op EXCEPT ![s].pc = "write", ![s].snap = m]
    /\ UNCHANGED <<store, ops, revoked>>

\* save: os.WriteFile.
WriteTmp(s) ==
    /\ op[s].pc = "write" /\ tmp' = {op[s].snap}
    /\ op' = [op EXCEPT ![s].pc = "rename"]
    /\ UNCHANGED <<file, m, ops, revoked>>

\* save: os.Rename, which fails when another session's rename took the file.
Rename(s) ==
    /\ op[s].pc = "rename"
    /\ IF tmp = {} THEN UNCHANGED <<file, revoked>>
       ELSE /\ file' \in tmp
            /\ revoked' = IF op[s].does = "remove" THEN revoked \cup {op[s].fp} ELSE revoked
    /\ tmp' = {}
    /\ op' = [op EXCEPT ![s] = Resting]
    /\ UNCHANGED <<m, ops>>

StoreNext == \E s \in Sessions :
    \/ Get(s) \/ Snapshot(s) \/ WriteTmp(s) \/ Rename(s)
    \/ \E f \in Peers, does \in {"add", "remove", "touch"} : Change(s, does, f)

StoreSpec == StoreInit /\ [][StoreNext]_storeVars

-----------------------------------------------------------------------------
\* "Remove forgets a fingerprint." (internal/transport/trust.go): with no
\* change under way, a fingerprint whose removal succeeded and that nobody
\* added again is not in the file.
RemoveForgets ==
    (\A s \in Sessions : op[s].pc = "rest") => revoked \cap file = {}
=============================================================================
