----------------------------- MODULE DeviceConns -----------------------------
(***************************************************************************)
(* The portal's pooled console connections to one device                   *)
(* (internal/portal/deviceconn.go, deviceConnFor and dropConn in           *)
(* portal.go).  Page requests share a connection, one request/response at  *)
(* a time; answers carry no number, so an answer is told from another only *)
(* by there being a single request in flight.  A dial may race another,    *)
(* a device may vanish without the connection breaking, and answers may    *)
(* come after the caller has given up.                                     *)
(***************************************************************************)
EXTENDS Naturals, FiniteSets, Sequences

CONSTANTS DcCallers,      \* requests to the portal that need the device
          MaxDcConns      \* bound: connections dialled

ASSUME DcAssumption == MaxDcConns \in Nat

VARIABLES dcConn,    \* per connection: "none", "open", "closed"
          dcPool,    \* s.conns[key], 0 for none
          dcWire,    \* requests the device has read and not answered, oldest first
          dcResp,    \* the connection's answers: in flight and respCh, oldest first
          dcHeld,    \* rpcMu: {} or {caller}
          dcCall     \* callers: step, connection, whose answer they got

dcVars == <<dcConn, dcPool, dcWire, dcResp, dcHeld, dcCall>>

DcConns == 1 .. MaxDcConns
DcNew == {c \in DcConns : dcConn[c] = "none"}
DcAlive(c) == c # 0 /\ dcConn[c] = "open"
DcClosed(c) == [dcConn EXCEPT ![c] = "closed"]

DcInit ==
    /\ dcConn = [c \in DcConns |-> "none"] /\ dcPool = 0
    /\ dcWire = [c \in DcConns |-> <<>>] /\ dcResp = [c \in DcConns |-> <<>>]
    /\ dcHeld = [c \in DcConns |-> {}]
    /\ dcCall = [k \in DcCallers |-> [at |-> "start", conn |-> 0, got |-> {}]]

(* deviceConnFor, first look: a live pooled connection, or evict and dial. *)
DcLookup(k) ==
    /\ dcCall[k].at = "start"
    /\ \/ /\ DcAlive(dcPool)
          /\ dcCall' = [dcCall EXCEPT ![k].at = "lock", ![k].conn = dcPool] /\ UNCHANGED dcPool
       \/ /\ ~DcAlive(dcPool) /\ dcPool' = 0
          /\ dcCall' = [dcCall EXCEPT ![k].at = "dial"]
    /\ UNCHANGED <<dcConn, dcWire, dcResp, dcHeld>>

DcDial(k) ==
    /\ dcCall[k].at = "dial"
    /\ \/ /\ DcNew # {}
          /\ LET c == CHOOSE x \in DcNew : \A y \in DcNew : x <= y IN
             /\ dcConn' = [dcConn EXCEPT ![c] = "open"]
             /\ dcCall' = [dcCall EXCEPT ![k].at = "pool", ![k].conn = c]
       \/ /\ dcCall' = [dcCall EXCEPT ![k].at = "failed"] /\ UNCHANGED dcConn
    /\ UNCHANGED <<dcPool, dcWire, dcResp, dcHeld>>

(* Mutant: the dial that lost the race is left open. *)
DcLoserLeft(c) == dcConn

DcLoser(c) == DcClosed(c)

(* The second look: the loser of two dials closes its own connection. *)
DcPoolIt(k) ==
    /\ dcCall[k].at = "pool"
    /\ \/ /\ DcAlive(dcPool)
          /\ dcConn' = DcLoser(dcCall[k].conn)
          /\ dcCall' = [dcCall EXCEPT ![k].at = "lock", ![k].conn = dcPool] /\ UNCHANGED dcPool
       \/ /\ ~DcAlive(dcPool) /\ dcPool' = dcCall[k].conn
          /\ dcCall' = [dcCall EXCEPT ![k].at = "lock"] /\ UNCHANGED dcConn
    /\ UNCHANGED <<dcWire, dcResp, dcHeld>>

(* rpcMu, then the write; tryRPCWithin gives up when it is held.              *)
DcSend(k) ==
    /\ dcCall[k].at = "lock"
    /\ LET c == dcCall[k].conn IN
       \/ /\ dcHeld[c] = {} /\ dcConn[c] = "open"
          /\ dcHeld' = [dcHeld EXCEPT ![c] = {k}] /\ dcWire' = [dcWire EXCEPT ![c] = Append(@, k)]
          /\ dcCall' = [dcCall EXCEPT ![k].at = "wait"] /\ UNCHANGED <<dcConn, dcResp>>
       \/ /\ dcHeld[c] = {} /\ dcConn[c] = "closed"
          /\ dcResp' = [dcResp EXCEPT ![c] = <<>>]
          /\ dcCall' = [dcCall EXCEPT ![k].at = "failed"] /\ UNCHANGED <<dcConn, dcWire, dcHeld>>
       \/ /\ dcHeld[c] # {}
          /\ dcCall' = [dcCall EXCEPT ![k].at = "busy"]
          /\ UNCHANGED <<dcConn, dcWire, dcResp, dcHeld>>
    /\ UNCHANGED dcPool

(* The device answers in order; serveConsole reads its requests one by one. *)
DcAnswer(c) ==
    /\ dcConn[c] = "open" /\ dcWire[c] # <<>>
    /\ dcResp' = [dcResp EXCEPT ![c] = Append(@, Head(dcWire[c]))]
    /\ dcWire' = [dcWire EXCEPT ![c] = Tail(@)]
    /\ UNCHANGED <<dcConn, dcPool, dcHeld, dcCall>>

DcReceive(k) ==
    /\ dcCall[k].at = "wait"
    /\ LET c == dcCall[k].conn IN
       /\ dcResp[c] # <<>>
       /\ dcCall' = [dcCall EXCEPT ![k].at = "done", ![k].got = {Head(dcResp[c])}]
       /\ dcResp' = [dcResp EXCEPT ![c] = Tail(@)] /\ dcHeld' = [dcHeld EXCEPT ![c] = {}]
    /\ UNCHANGED <<dcConn, dcPool, dcWire>>

(* Mutant: the connection is kept after an answer that did not come in time. *)
DcAfterTimeoutKept(c) == dcConn

DcAfterTimeout(c) == DcClosed(c)

(* The timeout closes the connection: a late answer has nobody to go to. *)
DcTimeout(k) ==
    /\ dcCall[k].at = "wait"
    /\ LET c == dcCall[k].conn IN
       /\ dcConn' = DcAfterTimeout(c) /\ dcHeld' = [dcHeld EXCEPT ![c] = {}]
    /\ dcCall' = [dcCall EXCEPT ![k].at = "failed"]
    /\ UNCHANGED <<dcPool, dcWire, dcResp>>

DcSeesClosed(k) ==
    /\ dcCall[k].at = "wait" /\ dcConn[dcCall[k].conn] = "closed"
    /\ dcHeld' = [dcHeld EXCEPT ![dcCall[k].conn] = {}]
    /\ dcCall' = [dcCall EXCEPT ![k].at = "failed"]
    /\ UNCHANGED <<dcConn, dcPool, dcWire, dcResp>>

(* readLoop meets the end of the stream. *)
DcBreaks(c) ==
    /\ dcConn[c] = "open" /\ dcConn' = DcClosed(c)
    /\ UNCHANGED <<dcPool, dcWire, dcResp, dcHeld, dcCall>>

(* dropConn after a failed request: whatever the pool holds under the name,   *)
(* which may be another caller's new connection.                              *)
DcDrop(k) ==
    /\ dcCall[k].at = "failed"
    /\ dcConn' = IF dcPool # 0 THEN DcClosed(dcPool) ELSE dcConn
    /\ dcPool' = 0 /\ dcCall' = [dcCall EXCEPT ![k].at = "done"]
    /\ UNCHANGED <<dcWire, dcResp, dcHeld>>

(* The page asks again. *)
DcAgain(k) ==
    /\ dcCall[k].at \in {"done", "busy"} /\ DcNew # {}
    /\ dcCall' = [dcCall EXCEPT ![k] = [at |-> "start", conn |-> 0, got |-> {}]]
    /\ UNCHANGED <<dcConn, dcPool, dcWire, dcResp, dcHeld>>

DcNext == \/ \E k \in DcCallers : \/ DcLookup(k) \/ DcDial(k) \/ DcPoolIt(k) \/ DcSend(k) \/ DcReceive(k)
                                  \/ DcTimeout(k) \/ DcSeesClosed(k) \/ DcDrop(k) \/ DcAgain(k)
          \/ \E c \in DcConns : DcAnswer(c) \/ DcBreaks(c)

DcSpec == DcInit /\ [][DcNext]_dcVars

----------------------------------------------------------------------------
(* An answer is the answer to the request of the caller that gets it, whoever *)
(* timed out before it on that connection: nobody reads another person's      *)
(* console state, or takes "ok" for a decision that was not delivered.        *)
DcOwnAnswer == \A k \in DcCallers : dcCall[k].got \subseteq {k}

(* Every open connection is in the pool, where it is found and closed, or in  *)
(* the hands of the dial that just made it ("do not both dial and leak the    *)
(* losing connection").                                                       *)
DcNoLeak ==
    \A c \in DcConns : dcConn[c] = "open" =>
        dcPool = c \/ \E k \in DcCallers : dcCall[k].at = "pool" /\ dcCall[k].conn = c
-----------------------------------------------------------------------------
(***************************************************************************)
(* "Is anyone waiting on me": the portal asks all of an owner's devices    *)
(* what waits on them (internal/portal/pending.go).  Polls that arrive     *)
(* while one round is under way share its answer; a round asks its devices *)
(* in parallel, a slow one holds the answer back while the others' states  *)
(* grow old.                                                               *)
(***************************************************************************)
CONSTANTS WpDevices, WpPolls,
          MaxWpRounds     \* bound: rounds of asking

ASSUME WpAssumption == MaxWpRounds \in Nat

VARIABLES wpOpen,      \* devices with a request waiting
          wpAnswered,  \* devices whose request the owner has answered
          wpRound,     \* rounds by number: step, devices not yet asked, items found
          wpCurrent,   \* s.waitCalls[ns], 0 for none
          wpPoll       \* polls: step, round, what was answered when it arrived, items

wpVars == <<wpOpen, wpAnswered, wpRound, wpCurrent, wpPoll>>

WpRounds == 1 .. MaxWpRounds
WpUnused == {n \in WpRounds : wpRound[n].at = "none"}

WpInit ==
    /\ wpOpen \in SUBSET WpDevices /\ wpAnswered = {} /\ wpCurrent = 0
    /\ wpRound = [n \in WpRounds |-> [at |-> "none", left |-> {}, items |-> {}]]
    /\ wpPoll = [p \in WpPolls |-> [at |-> "new", round |-> 0, after |-> {}, items |-> {}]]

(* The owner answers a request: the device drops it at once. *)
WpAnswer(d) ==
    /\ d \in wpOpen
    /\ wpOpen' = wpOpen \ {d} /\ wpAnswered' = wpAnswered \cup {d}
    /\ UNCHANGED <<wpRound, wpCurrent, wpPoll>>

(* handleWaiting: join the round under way, or start one. *)
WpArrive(p) ==
    /\ wpPoll[p].at = "new"
    /\ LET fresh == CHOOSE n \in WpUnused \cup {0} : \A k \in WpUnused : n # 0 /\ n <= k
           round == IF wpCurrent # 0 THEN wpCurrent ELSE fresh
       IN /\ round # 0
          /\ wpPoll' = [wpPoll EXCEPT ![p] = [at |-> "wait", round |-> round, after |-> wpAnswered, items |-> {}]]
          /\ wpCurrent' = round
          /\ wpRound' = IF wpCurrent # 0 THEN wpRound
                        ELSE [wpRound EXCEPT ![round] = [at |-> "run", left |-> WpDevices, items |-> {}]]
    /\ UNCHANGED <<wpOpen, wpAnswered>>

(* One device of a round: its state, or nothing when it is busy, out of reach *)
(* or too slow.                                                               *)
WpAsk(n, d) ==
    /\ wpRound[n].at = "run" /\ d \in wpRound[n].left
    /\ \E found \in {{}, {d} \cap wpOpen} :
          wpRound' = [wpRound EXCEPT ![n].left = @ \ {d}, ![n].items = @ \cup found]
    /\ UNCHANGED <<wpOpen, wpAnswered, wpCurrent, wpPoll>>

(* Mutant: the round is taken from the table before its devices answered. *)
WpRoundEndsEarly(n) ==
    /\ wpRound[n].at = "run"
    /\ wpRound' = [wpRound EXCEPT ![n].at = IF wpRound[n].left = {} THEN "unlisted" ELSE "run"]
    /\ wpCurrent' = 0
    /\ UNCHANGED <<wpOpen, wpAnswered, wpPoll>>

(* The round leaves the table, then wakes its polls. *)
WpRoundEnds(n) ==
    /\ wpRound[n].at = "run" /\ wpRound[n].left = {}
    /\ wpRound' = [wpRound EXCEPT ![n].at = "unlisted"]
    /\ wpCurrent' = 0
    /\ UNCHANGED <<wpOpen, wpAnswered, wpPoll>>

WpWake(n) ==
    /\ wpRound[n].at = "unlisted"
    /\ wpRound' = [wpRound EXCEPT ![n].at = "over"]
    /\ UNCHANGED <<wpOpen, wpAnswered, wpCurrent, wpPoll>>

WpReturn(p) ==
    /\ wpPoll[p].at = "wait"
    /\ \/ /\ wpRound[wpPoll[p].round].at = "over"
          /\ wpPoll' = [wpPoll EXCEPT ![p].at = "done", ![p].items = wpRound[wpPoll[p].round].items]
       \/ wpPoll' = [wpPoll EXCEPT ![p].at = "left"]      \* the browser went away
    /\ UNCHANGED <<wpOpen, wpAnswered, wpRound, wpCurrent>>

WpNext == \/ \E d \in WpDevices : WpAnswer(d)
          \/ \E p \in WpPolls : WpArrive(p) \/ WpReturn(p)
          \/ \E n \in WpRounds : WpRoundEnds(n) \/ WpWake(n) \/ \E d \in WpDevices : WpAsk(n, d)

WpSpec == WpInit /\ [][WpNext]_wpVars

----------------------------------------------------------------------------
(* However many windows poll, an owner's devices are asked by one round at a  *)
(* time, and a poll that is answered was answered by a round that had asked   *)
(* every device (waitCalls, handleWaiting).                                   *)
WpOneRound ==
    /\ Cardinality({n \in WpRounds : wpRound[n].at = "run"}) <= 1
    /\ \A p \in WpPolls : wpPoll[p].at = "done" => wpRound[wpPoll[p].round].left = {}

(* handleWaiting: "There is deliberately no cache.  A stale entry here would  *)
(* resurrect a card the user just answered": a poll that arrives after an     *)
(* answer does not show the request again.                                    *)
WpFresh == \A p \in WpPolls : wpPoll[p].items \cap wpPoll[p].after = {}
=============================================================================
