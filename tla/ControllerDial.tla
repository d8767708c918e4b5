--------------------------- MODULE ControllerDial ---------------------------
(***************************************************************************)
(* A controller runs one command on a device it names                      *)
(* (internal/client/client.go, internal/transport/handshake.go).  The name *)
(* is resolved and dialled side by side, so the relay may send the two to  *)
(* different devices while an owner moves an alias; the handshake accepts  *)
(* only the identity pinned for the resolved name.  The hello and the      *)
(* request go out together, and a cancelled call must end although the     *)
(* device may be unable to answer.                                         *)
(***************************************************************************)
EXTENDS Naturals, FiniteSets

CONSTANTS CdCalls, CdDevices,
          CdNoDevice,     \* stands for "none yet"
          MaxCdMoves      \* bound: times the name moves or a device is reinstalled

ASSUME CdAssumption == CdNoDevice \notin CdDevices

VARIABLES cdNamed,    \* relay: the device the typed name means now
          cdKey,      \* identity of each device: a pair of the device and its installation
          cdPin,      \* known_servers: canonical name -> identity, {} for none
          cdOldPin,   \* the same under the device's former name
          cdTrusts,   \* devices that have paired this controller
          cdMoves,
          cdCall,     \* calls: step, resolved name, device reached, cancelled
          cdDev,      \* the device's end of each call
          cdResult    \* what the caller is told

cdRelay == <<cdNamed, cdKey, cdTrusts, cdMoves>>
cdVars == <<cdRelay, cdPin, cdOldPin, cdCall, cdDev, cdResult>>

CdNew == [at |-> "dial", name |-> CdNoDevice, to |-> CdNoDevice, cancelled |-> FALSE, closed |-> FALSE]

CdInit ==
    /\ cdNamed \in CdDevices /\ cdKey = [d \in CdDevices |-> <<d, 0>>] /\ cdMoves = 0
    /\ cdTrusts \in {CdDevices, {}} /\ cdPin \in [CdDevices -> {{}}] \cup {[d \in CdDevices |-> {<<d, 0>>}]}
    /\ cdOldPin \in {[d \in CdDevices |-> {}], [d \in CdDevices |-> {<<d, 0>>}]}
    /\ cdCall = [k \in CdCalls |-> CdNew]
    /\ cdDev = [k \in CdCalls |-> "none"] /\ cdResult = [k \in CdCalls |-> "none"]

(* The owner gives the name to another device, or a device is reinstalled. *)
CdMove(d) ==
    /\ cdMoves < MaxCdMoves /\ cdMoves' = cdMoves + 1
    /\ \/ cdNamed' = d /\ d # cdNamed /\ UNCHANGED cdKey
       \/ cdKey' = [cdKey EXCEPT ![d] = <<d, cdMoves + 1>>] /\ UNCHANGED cdNamed
    /\ UNCHANGED <<cdTrusts, cdPin, cdOldPin, cdCall, cdDev, cdResult>>

(* /resolve: a pin kept under the device's former name is copied to the       *)
(* canonical one, never the fingerprint the relay offers.                     *)
CdResolve(k) ==
    /\ cdCall[k].at = "dial" /\ cdCall[k].name = CdNoDevice
    /\ cdCall' = [cdCall EXCEPT ![k].name = cdNamed]
    /\ cdPin' = [cdPin EXCEPT ![cdNamed] = IF @ = {} THEN cdOldPin[cdNamed] ELSE @]
    /\ UNCHANGED <<cdRelay, cdOldPin, cdDev, cdResult>>

(* The dial of the name as typed, beside it. *)
CdReach(k) ==
    /\ cdCall[k].at = "dial" /\ cdCall[k].to = CdNoDevice
    /\ cdCall' = [cdCall EXCEPT ![k].to = cdNamed]
    /\ UNCHANGED <<cdRelay, cdPin, cdOldPin, cdDev, cdResult>>

CdEnd(k, result) ==
    /\ cdCall' = [cdCall EXCEPT ![k].at = "over", ![k].closed = TRUE]
    /\ cdResult' = [cdResult EXCEPT ![k] = result]

(* Either request fails: the connection that was made is closed. *)
CdDialFails(k) ==
    /\ cdCall[k].at = "dial"
    /\ CdEnd(k, IF cdCall[k].cancelled THEN "cancelled" ELSE "error")
    /\ UNCHANGED <<cdRelay, cdPin, cdOldPin, cdDev>>

(* Mutant: any identity this controller has ever pinned will do. *)
CdMatchesAny(k) == \E d \in CdDevices : cdKey[cdCall[k].to] \in cdPin[d]

CdMatches(k) == cdKey[cdCall[k].to] \in cdPin[cdCall[k].name]

(* ClientHandshake, sendHello; the request is written behind the hello. *)
CdHandshake(k) ==
    /\ cdCall[k].at = "dial" /\ cdCall[k].name # CdNoDevice /\ cdCall[k].to # CdNoDevice
    /\ \/ /\ cdPin[cdCall[k].name] = {} /\ CdEnd(k, "trust") /\ UNCHANGED cdDev
       \/ /\ cdPin[cdCall[k].name] # {} /\ ~CdMatches(k) /\ CdEnd(k, "mismatch") /\ UNCHANGED cdDev
       \/ /\ cdPin[cdCall[k].name] # {} /\ CdMatches(k)
          /\ cdCall' = [cdCall EXCEPT ![k].at = "sent"]
          /\ cdDev' = [cdDev EXCEPT ![k] = "hello"] /\ UNCHANGED cdResult
    /\ UNCHANGED <<cdRelay, cdPin, cdOldPin>>

(* The person compares the identity the refused handshake showed with the     *)
(* device's own, and pins it.                                                 *)
CdConfirm(k) ==
    /\ cdCall[k].at = "over" /\ cdResult[k] = "trust" /\ cdCall[k].to = cdCall[k].name
    /\ cdPin' = [cdPin EXCEPT ![cdCall[k].name] = {cdKey[cdCall[k].to]}]
    /\ cdCall' = [cdCall EXCEPT ![k] = CdNew] /\ cdResult' = [cdResult EXCEPT ![k] = "none"]
    /\ UNCHANGED <<cdRelay, cdOldPin, cdDev>>

----------------------------------------------------------------------------
(* Mutant: the device goes on reading after it refused the hello. *)
CdAfterRejectReads == "running"

CdAfterReject == "rejected"

(* The device reads the hello, then what follows it (external to the client). *)
CdDevReads(k) ==
    /\ cdDev[k] = "hello"
    /\ \/ /\ cdCall[k].to \in cdTrusts /\ cdDev' = [cdDev EXCEPT ![k] = "running"] /\ UNCHANGED cdResult
       \/ /\ cdCall[k].to \notin cdTrusts /\ cdDev' = [cdDev EXCEPT ![k] = CdAfterReject]
          /\ cdResult' = [cdResult EXCEPT ![k] = IF @ = "none" THEN "refused" ELSE @]
    /\ UNCHANGED <<cdRelay, cdPin, cdOldPin, cdCall>>

CdDevEnds(k) ==
    /\ cdDev[k] = "running"
    /\ cdDev' = [cdDev EXCEPT ![k] = IF cdCall[k].cancelled \/ cdCall[k].closed THEN "killed" ELSE "exit"]
    /\ UNCHANGED <<cdRelay, cdPin, cdOldPin, cdCall, cdResult>>

(* execOver: the first frame that ends the command. *)
CdReply(k) ==
    /\ cdCall[k].at = "sent" /\ cdDev[k] \in {"rejected", "exit", "killed"}
    /\ CdEnd(k, IF cdResult[k] = "refused" THEN "reject"
                ELSE IF cdDev[k] = "exit" THEN "code"
                ELSE IF cdCall[k].cancelled THEN "cancelled" ELSE "error")
    /\ UNCHANGED <<cdRelay, cdPin, cdOldPin, cdDev>>

(* The link breaks after the request was sent. *)
CdBreaks(k) ==
    /\ cdCall[k].at = "sent"
    /\ CdEnd(k, IF cdCall[k].cancelled THEN "cancelled" ELSE "error")
    /\ UNCHANGED <<cdRelay, cdPin, cdOldPin, cdDev>>

CdCancel(k) ==
    /\ cdCall[k].at # "over" /\ ~cdCall[k].cancelled
    /\ cdCall' = [cdCall EXCEPT ![k].cancelled = TRUE]
    /\ UNCHANGED <<cdRelay, cdPin, cdOldPin, cdDev, cdResult>>

(* Mutant: a cancelled call only sends its cancel frame. *)
CdGraceEndsNever(k) == FALSE

CdGraceEnds(k) == cdCall[k].cancelled

(* cancelGrace after the cancel frame the connection is closed, which ends    *)
(* the read.                                                                  *)
CdGrace(k) ==
    /\ cdCall[k].at = "sent" /\ CdGraceEnds(k)
    /\ CdEnd(k, "cancelled")
    /\ UNCHANGED <<cdRelay, cdPin, cdOldPin, cdDev>>

CdNext == \/ \E d \in CdDevices : CdMove(d)
          \/ \E k \in CdCalls : \/ CdResolve(k) \/ CdReach(k) \/ CdDialFails(k) \/ CdHandshake(k) \/ CdConfirm(k)
                                \/ CdDevReads(k) \/ CdDevEnds(k) \/ CdReply(k) \/ CdBreaks(k) \/ CdCancel(k) \/ CdGrace(k)

(* A cancelled dial fails (its requests carry the context), and the grace     *)
(* timer fires; nothing is assumed of the device.                             *)
CdSteps == \E k \in CdCalls : CdGrace(k) \/ (cdCall[k].cancelled /\ CdDialFails(k))

CdSpec == CdInit /\ [][CdNext]_cdVars /\ WF_cdVars(CdSteps)

----------------------------------------------------------------------------
(* "If the two ever disagreed, the device that answers would not match the    *)
(* pin": a command runs only on the device its name was resolved to, although *)
(* the dial may have reached another one.                                     *)
CdRunsWhereResolved ==
    \A k \in CdCalls : cdDev[k] \in {"hello", "running"} /\ cdCall[k].at = "sent" => cdCall[k].to = cdCall[k].name

(* A caller that is told the device refused it can rely on the command not    *)
(* having run, although the request was sent before the hello was answered.   *)
CdRejectMeansNotRun == \A k \in CdCalls : cdResult[k] \in {"refused", "reject"} => cdDev[k] = "rejected"

(* A cancelled call returns, whatever the device does. *)
CdLingers == \E k \in CdCalls : cdCall[k].cancelled /\ cdCall[k].at # "over"
CdCancelReturns == <>[]~CdLingers
=============================================================================
