------------------------------- MODULE McpSessions -------------------------------
(***************************************************************************)
(* Whom the MCP server serves: the bounded table of hosted sessions        *)
(* (internal/mcp/hostedsessions.go, server.go), the workspace that a stdio *)
(* conversation is bound to (conversation.go), and the one connection that *)
(* a conversation's requests share (internal/client/workspace_link.go,     *)
(* workspace.go).                                                          *)
(*                                                                         *)
(* mcp-go names, checks and ends sessions through the table; what it keeps *)
(* for them is its own.  The three parts share no state.  At the device    *)
(* the workspace is that of Workspaces; what the portal's callers share is *)
(* in DeviceConns and LarkCards.  ConnsSafe and CancelsSafe say of all of  *)
(* them what a run checks and a theorem states.                            *)
(***************************************************************************)
EXTENDS DeviceConns, LarkCards, Workspaces, Integers, FiniteSets

CONSTANTS
    HsIds, HsMax,       \* session IDs; maxHostedSessions
    HsCalls,            \* requests at once
    HsSpaces,           \* workspaces
    MaxHsConns          \* connections dialled

HsNone == "none"

ASSUME HsAssumption ==
    /\ HsMax \in Nat \ {0} /\ MaxHsConns \in Nat
    /\ HsNone \notin HsSpaces \cup HsCalls

VARIABLES
    hsPart,
    hsOpen, hsIdle, hsClosing, hsReq,           \* the table, who idles in it, what the sweep still ends, the requests
    hsRef, hsChanging, hsHeld, hsSpace, hsTool, \* the binding, what the caller was told it has, the device, the calls
    hsGate, hsLink, hsShut, hsEx                \* the gate's holder, the link, closed connections and by whom, exchanges

hsTable == <<hsOpen, hsIdle, hsClosing, hsReq>>
hsTalk == <<hsRef, hsChanging, hsHeld, hsSpace, hsTool>>
hsWire == <<hsGate, hsLink, hsShut, hsEx>>
hsVars == <<hsPart, hsTable, hsTalk, hsWire>>

HsInit ==
    /\ hsPart \in {"table", "talk", "wire"}
    /\ hsOpen = {} /\ hsIdle = {} /\ hsClosing = {} /\ hsReq = [r \in HsCalls |-> [at |-> "idle", id |-> HsNone]]
    /\ hsRef = HsNone /\ hsChanging = FALSE /\ hsHeld = {} /\ hsSpace = [w \in HsSpaces |-> "unused"]
    /\ hsTool = [k \in HsCalls |-> [at |-> "idle", tool |-> HsNone, ref |-> HsNone, ok |-> FALSE]]
    /\ hsGate = HsNone /\ hsLink = [conn |-> 0, key |-> HsNone, gen |-> 0, made |-> 0, closed |-> FALSE]
    /\ hsShut = [n \in 1..MaxHsConns |-> HsNone]
    /\ hsEx = [k \in HsCalls |-> [at |-> "idle", key |-> HsNone, conn |-> 0, gen |-> 0, over |-> FALSE, fires |-> "no", got |-> HsNone]]

(***************************************************************************)
(* The table of hosted sessions.                                           *)
(***************************************************************************)

HsRoom == Cardinality(hsOpen) < HsMax

(* A request past the bearer check: one without a session is turned away   *)
(* here if there is no room, one with a session goes on.                   *)
HsGateway(r, id) ==
    /\ hsReq[r].at = "idle"
    /\ id = HsNone => HsRoom
    /\ hsReq' = [hsReq EXCEPT ![r] = [at |-> IF id = HsNone THEN "generate" ELSE "validate", id |-> id]]
    /\ UNCHANGED <<hsOpen, hsIdle, hsClosing>>

HsAdmitsAnyway(id) == TRUE
(* admit: one that is open, or a new one if there is room. *)
HsAdmits(id) == id \in hsOpen \/ HsRoom

HsAdmitted(r, id) ==
    /\ IF HsAdmits(id) THEN hsOpen' = hsOpen \cup {id} /\ hsIdle' = hsIdle \ {id} ELSE UNCHANGED <<hsOpen, hsIdle>>
    /\ hsReq' = [hsReq EXCEPT ![r] = [at |-> "idle", id |-> HsNone]]
    /\ UNCHANGED hsClosing

HsGenerate(r, id) == hsReq[r].at = "generate" /\ id \notin hsOpen \cup hsClosing /\ HsAdmitted(r, id)

(* A well-formed ID that is not known is taken back. *)
HsValidate(r) == hsReq[r].at = "validate" /\ HsAdmitted(r, hsReq[r].id)

HsIdles(id) ==
    /\ id \in hsOpen \ hsIdle /\ hsIdle' = hsIdle \cup {id}
    /\ UNCHANGED <<hsOpen, hsClosing, hsReq>>

(* sweep: out of the table at once, and then through mcp-go one by one. *)
HsSweep ==
    /\ hsClosing = {} /\ hsIdle # {}
    /\ hsClosing' = hsIdle /\ hsOpen' = hsOpen \ hsIdle /\ hsIdle' = {}
    /\ UNCHANGED hsReq

HsForget(id) == hsOpen' = hsOpen \ {id} /\ hsIdle' = hsIdle \ {id}

HsTerminate(id) ==
    /\ id \in hsClosing /\ hsClosing' = hsClosing \ {id} /\ HsForget(id)
    /\ UNCHANGED hsReq

HsDelete(id) == id \in hsOpen /\ HsForget(id) /\ UNCHANGED <<hsClosing, hsReq>>

HsRelayRestarts ==
    /\ hsOpen' = {} /\ hsIdle' = {} /\ hsClosing' = {}
    /\ hsReq' = [r \in HsCalls |-> [at |-> "idle", id |-> HsNone]]

HsTableNext ==
    \/ \E r \in HsCalls : HsValidate(r) \/ HsGateway(r, HsNone) \/ \E id \in HsIds : HsGateway(r, id) \/ HsGenerate(r, id)
    \/ \E id \in HsIds : HsIdles(id) \/ HsTerminate(id) \/ HsDelete(id)
    \/ HsSweep \/ HsRelayRestarts

(***************************************************************************)
(* The conversation's workspace.                                           *)
(***************************************************************************)

HsMayCallAlways == TRUE
(* No call is let in while another changes the binding. *)
HsMayCall == ~hsChanging

HsChange(tool) == tool \in {"enter", "attach", "exit"}

(* wrap, up to the handler. *)
HsWrap(k, tool) ==
    /\ hsTool[k].at = "idle" /\ HsMayCall
    /\ IF tool \in {"enter", "attach"} THEN hsRef = HsNone ELSE hsRef # HsNone
    /\ hsTool' = [hsTool EXCEPT ![k] = [at |-> "run", tool |-> tool, ref |-> hsRef, ok |-> FALSE]]
    /\ hsChanging' = (hsChanging \/ HsChange(tool))
    /\ UNCHANGED <<hsRef, hsHeld, hsSpace>>

HsRan(k, w, ok) == [hsTool EXCEPT ![k].at = "end", ![k].ref = w, ![k].ok = ok]

(* The handler: the device opens, finds or closes the workspace, and the   *)
(* answer may be lost.                                                     *)
HsRun(k) ==
    /\ hsTool[k].at = "run"
    /\ CASE hsTool[k].tool = "enter" ->
              \E w \in HsSpaces, ok \in BOOLEAN :
                  hsSpace[w] = "unused" /\ hsSpace' = [hsSpace EXCEPT ![w] = "open"] /\ hsTool' = HsRan(k, w, ok)
         [] hsTool[k].tool = "attach" ->
              \E w \in HsSpaces : hsSpace[w] # "unused" /\ hsTool' = HsRan(k, w, hsSpace[w] = "open") /\ UNCHANGED hsSpace
         [] hsTool[k].tool = "exit" ->
              \E ok \in BOOLEAN :
                  hsSpace' = [hsSpace EXCEPT ![hsTool[k].ref] = "closed"] /\ hsTool' = HsRan(k, hsTool[k].ref, ok)
         [] OTHER -> hsTool' = HsRan(k, hsTool[k].ref, TRUE) /\ UNCHANGED hsSpace
    /\ UNCHANGED <<hsRef, hsChanging, hsHeld>>

HsRunFails(k) ==
    /\ hsTool[k].at = "run" /\ hsTool' = HsRan(k, hsTool[k].ref, FALSE)
    /\ UNCHANGED <<hsRef, hsChanging, hsHeld, hsSpace>>

(* wrap, from the handler on. *)
HsWrapped(k) ==
    /\ hsTool[k].at = "end"
    /\ LET t == hsTool[k]
       IN  CASE t.ok /\ t.tool \in {"enter", "attach"} -> hsRef' = t.ref /\ hsHeld' = hsHeld \cup {t.ref}
             [] t.ok /\ t.tool = "exit" -> hsRef' = HsNone /\ hsHeld' = hsHeld \ {t.ref}
             [] OTHER -> UNCHANGED <<hsRef, hsHeld>>
    /\ hsChanging' = (hsChanging /\ ~HsChange(hsTool[k].tool))
    /\ hsTool' = [hsTool EXCEPT ![k] = [at |-> "idle", tool |-> HsNone, ref |-> HsNone, ok |-> FALSE]]
    /\ UNCHANGED hsSpace

HsTalkNext ==
    \E k \in HsCalls : HsRun(k) \/ HsRunFails(k) \/ HsWrapped(k) \/ \E tool \in {"enter", "attach", "exit", "data"} : HsWrap(k, tool)

(***************************************************************************)
(* The shared connection.                                                  *)
(***************************************************************************)

HsClosed(n) == hsShut[n] # HsNone
HsShuts(n, who) == [hsShut EXCEPT ![n] = IF @ = HsNone THEN who ELSE @]
HsUnlinked(n) == [hsLink EXCEPT !.conn = IF @ = n THEN 0 ELSE @]

(* exchange: the gate, unless the context is over first. *)
HsExchange(k, key) ==
    /\ hsEx[k].at = "idle" /\ hsGate = HsNone
    /\ hsGate' = k
    /\ hsEx' = [hsEx EXCEPT ![k].at = IF hsEx[k].over THEN "leave" ELSE "conn", ![k].key = key]
    /\ UNCHANGED <<hsLink, hsShut>>

(* connFor: the link's connection if it was dialled for the same scope. *)
HsConnFor(k) ==
    /\ hsEx[k].at = "conn"
    /\ IF hsLink.conn # 0 /\ hsLink.key = hsEx[k].key
       THEN hsEx' = [hsEx EXCEPT ![k].at = "write", ![k].conn = hsLink.conn] /\ UNCHANGED <<hsLink, hsShut>>
       ELSE /\ hsEx' = [hsEx EXCEPT ![k].at = "dial", ![k].gen = hsLink.gen]
            /\ hsLink' = [hsLink EXCEPT !.conn = 0]
            /\ hsShut' = IF hsLink.conn = 0 THEN hsShut ELSE HsShuts(hsLink.conn, "scope")
    /\ UNCHANGED hsGate

HsDialFails(k) ==
    /\ hsEx[k].at = "dial"
    /\ hsEx' = [hsEx EXCEPT ![k].at = "leave"]
    /\ UNCHANGED <<hsGate, hsLink, hsShut>>

(* A connection that was dialled before a Drop is not the link's. *)
HsDialled(k) ==
    /\ hsEx[k].at = "dial" /\ hsLink.made < MaxHsConns
    /\ LET n == hsLink.made + 1
       IN  IF hsLink.closed \/ hsLink.gen # hsEx[k].gen
           THEN /\ hsLink' = [hsLink EXCEPT !.made = n]
                /\ hsShut' = HsShuts(n, "drop") /\ hsEx' = [hsEx EXCEPT ![k].at = "leave"]
           ELSE /\ hsLink' = [hsLink EXCEPT !.made = n, !.conn = n, !.key = hsEx[k].key]
                /\ hsEx' = [hsEx EXCEPT ![k].at = "write", ![k].conn = n] /\ UNCHANGED hsShut
    /\ UNCHANGED hsGate

(* failed: the connection is done with, and the outcome unknown. *)
HsFailed(k) ==
    /\ hsEx' = [hsEx EXCEPT ![k].at = "leave", ![k].got = IF HsClosed(hsEx[k].conn) THEN hsShut[hsEx[k].conn] ELSE "peer"]
    /\ hsLink' = HsUnlinked(hsEx[k].conn) /\ hsShut' = HsShuts(hsEx[k].conn, "failed")
    /\ UNCHANGED hsGate

(* The callback is set before the first write and stays until the leave. *)
HsWrite(k) ==
    /\ hsEx[k].at = "write"
    /\ \/ ~HsClosed(hsEx[k].conn) /\ hsEx' = [hsEx EXCEPT ![k].at = "read"] /\ UNCHANGED <<hsGate, hsLink, hsShut>>
       \/ HsFailed(k)

HsRead(k) ==
    /\ hsEx[k].at = "read"
    /\ \/ ~HsClosed(hsEx[k].conn) /\ hsEx' = [hsEx EXCEPT ![k].at = "check"] /\ UNCHANGED <<hsGate, hsLink, hsShut>>
       \/ HsFailed(k)

(* A refusal, or a context that is over by now, costs the connection. *)
HsCheck(k) ==
    /\ hsEx[k].at = "check"
    /\ hsEx' = [hsEx EXCEPT ![k].at = "leave"]
    /\ \/ ~hsEx[k].over /\ UNCHANGED <<hsLink, hsShut>>
       \/ hsLink' = HsUnlinked(hsEx[k].conn) /\ hsShut' = HsShuts(hsEx[k].conn, "failed")
    /\ UNCHANGED hsGate

HsJoinedNot(k) == TRUE
(* stop: a callback that has begun is waited for. *)
HsJoined(k) == hsEx[k].fires # "begun"

HsLeave(k) ==
    /\ hsEx[k].at = "leave" /\ HsJoined(k)
    /\ hsGate' = HsNone
    /\ hsEx' = [hsEx EXCEPT ![k].at = "over", ![k].got = HsNone, ![k].key = HsNone, ![k].gen = 0]
    /\ UNCHANGED <<hsLink, hsShut>>

HsCancel(k) ==
    /\ ~hsEx[k].over /\ hsEx[k].at # "over"
    /\ hsEx' = [hsEx EXCEPT ![k].over = TRUE]
    /\ UNCHANGED <<hsGate, hsLink, hsShut>>

HsFires(k) ==
    /\ hsEx[k].over /\ hsEx[k].fires = "no" /\ hsEx[k].conn # 0 /\ hsEx[k].at \in {"write", "read", "check", "leave"}
    /\ hsEx' = [hsEx EXCEPT ![k].fires = "begun"]
    /\ UNCHANGED <<hsGate, hsLink, hsShut>>

HsFired(k) ==
    /\ hsEx[k].fires = "begun"
    /\ hsShut' = HsShuts(hsEx[k].conn, k) /\ hsEx' = [hsEx EXCEPT ![k].fires = "done"]
    /\ UNCHANGED <<hsGate, hsLink>>

(* Drop, after a workspace was closed; Close, at the end. *)
HsDrop(closing) ==
    /\ hsLink.gen = 0
    /\ hsLink' = [hsLink EXCEPT !.gen = 1, !.conn = 0, !.closed = closing]
    /\ hsShut' = IF hsLink.conn = 0 THEN hsShut ELSE HsShuts(hsLink.conn, "drop")
    /\ UNCHANGED <<hsGate, hsEx>>

HsWireNext ==
    \/ \E k \in HsCalls :
          \/ HsConnFor(k) \/ HsDialFails(k) \/ HsDialled(k) \/ HsWrite(k) \/ HsRead(k) \/ HsCheck(k) \/ HsLeave(k)
          \/ HsCancel(k) \/ HsFires(k) \/ HsFired(k)
          \/ \E key \in HsSpaces : HsExchange(k, key)
    \/ \E closing \in BOOLEAN : HsDrop(closing)

HsNext ==
    \/ hsPart = "table" /\ HsTableNext /\ UNCHANGED <<hsPart, hsTalk, hsWire>>
    \/ hsPart = "talk" /\ HsTalkNext /\ UNCHANGED <<hsPart, hsTable, hsWire>>
    \/ hsPart = "wire" /\ HsWireNext /\ UNCHANGED <<hsPart, hsTable, hsTalk>>

HsSpec == HsInit /\ [][HsNext]_hsVars

(***************************************************************************)
(* Properties.                                                             *)
(***************************************************************************)

(* However many requests pass the gate before any of them is given its     *)
(* session, and whatever is taken back after a sweep or a restart, no more *)
(* sessions are open than there may be (room, admit).                      *)
HsBounded == Cardinality(hsOpen) <= HsMax

(* A conversation has at most one workspace, and it is the one its next    *)
(* call goes to (workspaceConversation.wrap).                              *)
HsOneWorkspace == hsHeld = (IF hsRef = HsNone THEN {} ELSE {hsRef})

(* A request's cancellation does not close the shared connection under     *)
(* another request (WorkspaceLink.exchange).                               *)
HsCancelsItsOwn ==
    [][\A k \in HsCalls : hsEx[k].fires = "begun" /\ hsEx'[k].fires = "done"
          => \A j \in HsCalls \ {k} : hsEx[j].at \in {"write", "read", "check"} => hsEx[j].conn # hsEx[k].conn]_hsVars

(* A request does not fail for another's cancellation                      *)
(* (WorkspaceLink.exchange: "Merely stopping the callback can let request  *)
(* A close request B's socket").  One that begins after the last look at   *)
(* the context is waited for, but leaves the closed connection in the      *)
(* link.                                                                   *)
HsOthersUnharmed == \A k, j \in HsCalls : hsEx[k].got = j => k = j

(* What is shared between callers (mcp/hostedsessions.go, and the portal's *)
(* deviceconn.go, pending.go and larkwatch.go): an answer goes to who      *)
(* asked, connections and sessions stay within their bounds, and of two    *)
(* cards for one request one tap counts.                                   *)
ConnsSafe ==
    /\ DcOwnAnswer /\ DcNoLeak /\ WpOneRound /\ HsBounded /\ HsOneWorkspace
    /\ LkOneTap /\ LkNoUpdateRace

(* What a cancel does on its way (client/workspace_link.go) and at its end *)
(* (agent/workspace.go): the call it names stops, and nothing starts once  *)
(* a cancel or the end of the workspace was taken in.                      *)
CancelsSafe == NothingStartsLate /\ HsCancelsItsOwn
================================================================================
