------------------------------- MODULE SelfInstall -------------------------------
(***************************************************************************)
(* How a device comes to run another release: the automatic update         *)
(* (autoupdate.go), the install asked for on the portal                    *)
(* (internal/agent/install.go, portal_install.go) and `wanctl update`      *)
(* (update.go), from the same signed releases (internal/release).  The     *)
(* first two share the agent's installMu; the third is another process.    *)
(***************************************************************************)
EXTENDS Naturals, Sequences, FiniteSets

CONSTANTS
    InVersions,     \* releases, records [core, beta]; beta 0 is a stable one
    InFirst,        \* the release the device starts with
    InSources,      \* where releases are looked for, in order
    InFails,        \* how many requests to a source fail
    InWorks         \* how often the device becomes busy

ASSUME InAssumption ==
    /\ InVersions \subseteq [core : Nat, beta : Nat] /\ InFirst \in InVersions
    /\ Len(InSources) \in Nat \ {0} /\ InFails \in Nat /\ InWorks \in Nat

VARIABLES
    inDisk,     \* the binary: its release, and which file it is
    inLife,     \* the running agent: its release, the file it was started from,
                \* an update is installed and waits for the restart, how many it installed
    inOffer,    \* per source: the release it serves, {} for none
    inMu,       \* who holds installMu
    inOp,       \* the installers
    inWork,     \* the device is busy
    inLeft      \* failures and spells of work that may still happen

inVars == <<inDisk, inLife, inOffer, inMu, inOp, inWork, inLeft>>
inWorld == <<inOffer, inWork, inLeft>>

InSide == {"auto", "web"}
InIdle == [at |-> "idle", src |-> 1, want |-> {}, got |-> {}]

InInit ==
    /\ inDisk = [ver |-> InFirst, file |-> 0]
    /\ inLife = [ver |-> InFirst, file |-> 0, pending |-> FALSE, installs |-> 0]
    /\ inOffer = [i \in 1..Len(InSources) |-> {}]
    /\ inMu = {} /\ inWork = FALSE
    /\ inOp = [x \in InSide \cup {"cli"} |-> InIdle]
    /\ inLeft = [fails |-> InFails, works |-> InWorks]

(***************************************************************************)
(* Releases.                                                               *)
(***************************************************************************)

(* compareVersion: a release is newer than its betas. *)
InNewer(a, b) ==
    \/ a.core > b.core
    \/ a.core = b.core /\ b.beta # 0 /\ (a.beta = 0 \/ a.beta > b.beta)

(* Select: what a verified manifest means to a build.  A beta is not       *)
(* offered to a stable build; that is a failed source, not an answer.      *)
InSelect(offer, current) ==
    IF offer.beta # 0 /\ current.beta = 0 THEN "next"
    ELSE IF InNewer(offer, current) THEN "take" ELSE "current"

(* SelectExact: the release that was asked for, or the next source. *)
InSelectExact(offer, want) == IF {offer} = want THEN "take" ELSE "next"

InVerdict(x, offer) == IF inOp[x].want # {} THEN InSelectExact(offer, inOp[x].want) ELSE InSelect(offer, inLife.ver)

(* overSources: the first source that answers; nothing newer is an answer. *)
InTry(x, at, found) ==
    /\ inOp[x].at = at
    /\ LET k == inOp[x].src
           onward == IF k < Len(InSources) THEN [inOp[x] EXCEPT !.src = k + 1] ELSE [inOp[x] EXCEPT !.at = "none"]
       IN  \/ /\ inLeft.fails > 0
              /\ inLeft' = [inLeft EXCEPT !.fails = @ - 1]
              /\ inOp' = [inOp EXCEPT ![x] = onward]
           \/ /\ UNCHANGED inLeft
              /\ IF inOffer[k] = {} THEN inOp' = [inOp EXCEPT ![x] = onward]
                 ELSE \E offer \in inOffer[k] :
                         inOp' = [inOp EXCEPT ![x] = CASE InVerdict(x, offer) = "take" -> [@ EXCEPT !.at = found, !.src = 1, !.got = {offer}]
                                                       [] InVerdict(x, offer) = "current" -> [@ EXCEPT !.at = "none"]
                                                       [] OTHER -> onward]
    /\ UNCHANGED <<inDisk, inLife, inMu, inOffer, inWork>>

(* Nothing to install, and the lock given back. *)
InGivesUp(x) ==
    /\ inOp[x].at = "none"
    /\ inOp' = [inOp EXCEPT ![x] = IF x = "cli" THEN [InIdle EXCEPT !.at = "done"] ELSE InIdle]
    /\ inMu' = inMu \ {x}
    /\ UNCHANGED <<inDisk, inLife, inWorld>>

(***************************************************************************)
(* The automatic update.                                                   *)
(***************************************************************************)

(* A check: what is on offer, before anything is downloaded. *)
InCheck ==
    /\ inOp["auto"].at = "idle"
    /\ inOp' = [inOp EXCEPT !["auto"].at = "asking"]
    /\ UNCHANGED <<inDisk, inLife, inMu, inWorld>>

InAsk == InTry("auto", "asking", "gate")

InGateGivesUp ==
    /\ inOp["auto"].at = "gate"
    /\ inOp' = [inOp EXCEPT !["auto"] = [@ EXCEPT !.at = IF inWork THEN "off" ELSE "lock", !.got = {}]]
    /\ UNCHANGED <<inDisk, inLife, inMu, inWorld>>

(* decideAutoUpdate's last question.  A busy device is asked again later. *)
InGate ==
    /\ inOp["auto"].at = "gate"
    /\ inOp' = [inOp EXCEPT !["auto"] = IF inWork THEN InIdle ELSE [@ EXCEPT !.at = "lock", !.got = {}]]
    /\ UNCHANGED <<inDisk, inLife, inMu, inWorld>>

InUnchanged == inDisk.file = inLife.file

InReadyBlind == TRUE
(* installReadyLocked: not once an update waits for its restart, be it     *)
(* this agent's or one the command line made.                              *)
InReady == ~inLife.pending /\ InUnchanged

(* InstallAutoUpdate *)
InAutoLock ==
    /\ inOp["auto"].at = "lock" /\ inMu = {}
    /\ inMu' = {"auto"}
    /\ inLife' = [inLife EXCEPT !.pending = @ \/ ~InUnchanged]
    /\ inOp' = [inOp EXCEPT !["auto"].at = IF InReady THEN "fetching" ELSE "none"]
    /\ UNCHANGED <<inDisk, inWorld>>

(***************************************************************************)
(* The install asked for on the portal.                                    *)
(***************************************************************************)

(* checkPortalUpdate: the same release and older ones are refused. *)
InUpgrade(want) == InNewer(want, inLife.ver)

(* beginInstall: refused, or reserved. *)
InWebBegin(want) ==
    /\ inOp["web"].at = "idle"
    /\ inMu = {} /\ InReady /\ ~inWork /\ InUpgrade(want)
    /\ inMu' = {"web"}
    /\ inOp' = [inOp EXCEPT !["web"] = [InIdle EXCEPT !.at = "fetching", !.want = {want}]]
    /\ UNCHANGED <<inDisk, inLife, inWorld>>

(* A request also notices an update from outside. *)
InWebRefused ==
    /\ inOp["web"].at = "idle" /\ inMu = {} /\ ~InUnchanged /\ ~inLife.pending
    /\ inLife' = [inLife EXCEPT !.pending = TRUE]
    /\ UNCHANGED <<inDisk, inMu, inOp, inWorld>>

(* The file is looked at once more before it is replaced. *)
InWebRecheck ==
    /\ inOp["web"].at = "fetched"
    /\ inOp' = [inOp EXCEPT !["web"].at = IF InUnchanged THEN "replacing" ELSE "none"]
    /\ inLife' = [inLife EXCEPT !.pending = @ \/ ~InUnchanged]
    /\ UNCHANGED <<inDisk, inMu, inWorld>>

(***************************************************************************)
(* Download, swap and restart.                                             *)
(***************************************************************************)

InFetch(x) == InTry(x, "fetching", IF x = "web" THEN "fetched" ELSE "replacing")

InReplaced(x) == \E v \in inOp[x].got : inDisk' = [ver |-> v, file |-> inDisk.file + 1]

(* The agent's own: the restart is owed before the lock is given back. *)
InInstalls(x) ==
    /\ inOp[x].at = "replacing"
    /\ InReplaced(x)
    /\ inLife' = [inLife EXCEPT !.pending = TRUE, !.installs = @ + 1]
    /\ inMu' = inMu \ {x}
    /\ inOp' = [inOp EXCEPT ![x] = [InIdle EXCEPT !.at = "restart"]]
    /\ UNCHANGED inWorld

(* The handover: whatever the agent was doing ends with it. *)
InRestart(x) ==
    /\ inOp[x].at = "restart"
    /\ inLife' = [ver |-> inDisk.ver, file |-> inDisk.file, pending |-> FALSE, installs |-> 0]
    /\ inOp' = [y \in DOMAIN inOp |-> IF y = "cli" THEN (IF x = "cli" THEN [InIdle EXCEPT !.at = "done"] ELSE inOp[y]) ELSE InIdle]
    /\ inMu' = {} /\ inWork' = FALSE
    /\ UNCHANGED <<inDisk, inOffer, inLeft>>

(***************************************************************************)
(* `wanctl update`.                                                        *)
(***************************************************************************)

(* Run once, for the newest release or for the one that is named. *)
InCliBegin(want) ==
    /\ inOp["cli"].at = "idle"
    /\ want # {inLife.ver}
    /\ inOp' = [inOp EXCEPT !["cli"] = [InIdle EXCEPT !.at = "fetching", !.want = want]]
    /\ UNCHANGED <<inDisk, inLife, inMu, inWorld>>

InCliInstalls ==
    /\ inOp["cli"].at = "replacing"
    /\ InReplaced("cli")
    /\ inOp' = [inOp EXCEPT !["cli"] = [InIdle EXCEPT !.at = "restart"]]
    /\ UNCHANGED <<inLife, inMu, inWorld>>

(***************************************************************************)
(* The world.                                                              *)
(***************************************************************************)

(* A release is published, or reaches the mirror. *)
InPublish(i, v) ==
    /\ \A old \in inOffer[i] : InNewer(v, old)
    /\ inOffer' = [inOffer EXCEPT ![i] = {v}]
    /\ UNCHANGED <<inDisk, inLife, inMu, inOp, inWork, inLeft>>

InWorkBegins ==
    /\ ~inWork /\ inLeft.works > 0
    /\ inWork' = TRUE /\ inLeft' = [inLeft EXCEPT !.works = @ - 1]
    /\ UNCHANGED <<inDisk, inLife, inOffer, inMu, inOp>>

InWorkEnds ==
    /\ inWork
    /\ inWork' = FALSE
    /\ UNCHANGED <<inDisk, inLife, inOffer, inMu, inOp, inLeft>>

InAutoSteps == InCheck \/ InAsk \/ InGate \/ InAutoLock \/ InFetch("auto") \/ InGivesUp("auto") \/ InInstalls("auto") \/ InRestart("auto")

InAskedSteps ==
    \/ InWebRecheck \/ InInstalls("web") \/ InCliInstalls
    \/ \E x \in {"web", "cli"} : InFetch(x) \/ InGivesUp(x) \/ InRestart(x)

InNext ==
    \/ InAutoSteps \/ InAskedSteps \/ InWorkEnds \/ InWebRefused \/ InWorkBegins
    \/ \E v \in InVersions : InWebBegin(v) \/ \E i \in 1..Len(InSources) : InPublish(i, v)
    \/ \E want \in {{}} \cup {{v} : v \in InVersions} : InCliBegin(want)

(* The updater's loop, the installs that were asked for, and the device's  *)
(* work are independent of each other.  A mutex is handed to a waiter that *)
(* has waited long enough, whatever else tries to take it.                 *)
InSpec ==
    /\ InInit /\ [][InNext]_inVars
    /\ WF_inVars(InAutoSteps) /\ SF_inVars(InAutoLock) /\ WF_inVars(InAskedSteps) /\ WF_inVars(InWorkEnds)

(* An agent installs one update in its life: once a binary waits for the   *)
(* restart neither the portal nor the updater replaces it again            *)
(* (installReadyLocked, InstallAutoUpdate, beginInstall).                  *)
InOnePerLife == inLife.installs <= 1

InEligible(v) == InSelect(v, inLife.ver) = "take"

(* A device that is not busy for good ends up with what its first          *)
(* answering source offers it (decideAutoUpdate's busy retry, tick, run).  *)
InBehind == \E v \in inOffer[1] : InEligible(v)
InConverges == []<>~InBehind
================================================================================
