# A TLA+ verification of wanctl

wanctl lets a controller (a person's terminal, an MCP client, a web portal) run
commands and move files on a device that can only make outgoing connections.
Controller and device both talk to a relay, and the relay carries an encrypted
byte stream between them. Where WebSockets are blocked it carries the stream
over plain HTTP requests. This directory models that stream and the sessions it
belongs to, the registrations and permissions that hold a session open, what a
device decides and does with a request, and the services around it that wait
for somebody: consoles, phones, cards, watchers, updates.

- [1. The system](#1-the-system)
- [2. The plan](#2-the-plan)
- [3. The modules](#3-the-modules)
- [4. The runs](#4-the-runs)
- [5. Fairness](#5-fairness)
- [6. The proofs](#6-the-proofs)
- [7. Where the code and its words disagree](#7-where-the-code-and-its-words-disagree)
- [8. What is not modelled](#8-what-is-not-modelled)

To check a run: `tlc -config UpChannel.cfg UpChannel`. To check the proofs:
`tlapm` on `UpChannelProofs.tla`, `DownChannelProofs.tla`,
`RelaySessionProofs.tla`, `TunnelProofs.tla`, `DeviceProofs.tla` and
`PermissionProofs.tla`.
`PROJECT.json` says which lines of the source each definition stands for.

## 1. The system

One Go binary plays every role (`docs/architecture.md`).

| part | where | state it keeps | modules |
|---|---|---|---|
| HTTP carrier, end side | `internal/httpconn` | write sequence, posts in flight, lanes, buffered writes and their timer; acknowledged chunk, window of polls | UpChannel, DownChannel, WriteBatch |
| HTTP carrier, relay side | `internal/relay/http.go` (`sideQueue`) | per direction: queue, writes held for their place, budget, chunks not acknowledged | UpChannel, DownChannel |
| Byte account | `internal/relay/resident.go` | bytes queued in the whole relay and per namespace | ByteAccount |
| Session table | `internal/relay/http.go`, `http_disconnect.go`, `bridge.go` | `hsess`: who dialled, when it closed and why, grace timer | RelaySession, ControllerGrace |
| Device registry | `internal/relay/http.go`, `relay.go` | `hagents`: instance, retired instances, queue of opens | AgentRegistry |
| Leases | `internal/relay/delegation_auth.go`, `disable.go` | open leases with the closers of their carrier legs | AccountAccess |
| Accounts | `internal/relay/access.go`, `admin.go`, `friends.go`, `device_id.go`, `contact.go` | identities, invitations, requests, friendships, shares, devices, phones, mails | Admission, Shares, ContactEmail |
| OAuth, WebFetch | `internal/relay/oauth.go`, `delegation_store.go`, `internal/webfetch` | clients, codes, refresh rows, tokens; tickets and the ledger of jobs | OAuthGrants, WebFetchJobs |
| Notifications | `internal/notify`, `internal/relay/notify.go`, `internal/agent/notify.go` | reports seen, rate limit, settings | Notifications |
| Device: who may | `internal/agent`, `internal/console`, `internal/policy`, `internal/transport` | questions, pairings, late grants, rules, pinned fingerprints | CommandGate, Pairing, PolicyRules, TrustStore |
| Device: what runs | `internal/agent`, `internal/server` | shells, workspaces, jobs, files, spill files | RequestLoop, ShellSessions, Workspaces, AgentJobs, FileOps, OutputPages |
| Device: console | `internal/agent/agent.go` | sessions of a portal, the local prompt, the agent's goroutines | AgentConsole |
| Device: process | `daemon.go`, `update.go`, `autoupdate.go`, `main.go`, `service.go` | `agent.pid`, `agent.managed`, `agent.lock`, the installed binary | AgentProcess, SelfInstall |
| Desktop | `internal/desktop` | held keys, the person's signal, engines per controller, screenshots | DesktopInput, DesktopPeers |
| Controller | `internal/client` | pins, one dialled session | ControllerDial |
| MCP | `internal/mcp`, `internal/client/workspace_link.go` | hosted sessions, the workspace of a conversation, a shared connection | McpSessions, OutputPages |
| Portal | `internal/portal` | console connections, polls, cards, watchers | DeviceConns, ApprovalPhone, LarkCards |

How they meet. A device polls `/h/poll`, which registers its process and waits
for an open. A controller's `/h/dial` checks its permission, makes a session,
files it with a lease and queues an open; the device's poll takes it. From then
on each end posts its bytes to `/h/up` and polls `/h/down` for the other's, and
`/h/close` says that an end is done. Over this stream the two ends speak TLS;
the device pins the controller (or asks its owner to pair), reads one request
after another, asks its rules or its owner about each, and runs it. The owner
answers at the device's terminal, on the portal, on a phone or on a card in
Feishu, through console sessions of the portal to the device. A session leaves
the relay's table when both directions have been read after a close, or at once
when its lease ends (account disabled, share taken back, credential expired),
its controller has been gone for the grace period, or the sweeper finds it idle.

What is hard in it. No request is reliable: it may be lost on its way in or on
its way back, and is retried while the first may still be at work. The relay's
handlers are goroutines with several short critical sections each, and they
call the database between them. An abandoned request goes on until its handler
notices. Timers race what they were set for. Buffers are bounded, and what
waits for room can be what would make it. An answer of the owner may come
after the wait it answers, twice, from two places, or over a connection that
was replaced. A process may be killed between any two of its writes.

What correct means, component by component:

- *Stream*: what is read is what was written, in order and once; `Close` does
  not report success before everything is there; budgets stay exact, at each of
  the three levels, and no write waits for room that was given back.
- *Sessions*: no session is retired under a reader with something left to
  read, none that everyone has left stays; a controller that is there does not
  lose its session.
- *Registry*: an open is handed to one process, once; a process that was
  replaced cannot end its successor's sessions; the sessions of a process that
  has gone end.
- *Access*: what is disabled or taken back is gone when the call returns,
  whatever was under way. A refresh token has one heir. A mail limit, an
  invitation, a share's cap hold under repeated and concurrent requests.
- *Approvals*: an approval lets through what the owner saw, once. A remembered
  rule allows what was answered, and nothing wider. A revoked controller
  needs the owner again.
- *Commands*: a command runs at most once, in a shell that lives; a cancel hits
  its own command; what runs is counted and can be found; nothing starts after
  its caller or its workspace has gone.
- *Files and output*: nobody reads half of a write; pages and spill files are
  what they say they are; wanctl's own directories stay out of reach.
- *Desktop*: the person comes first, and no key stays down.
- *Process and update*: a failed update puts the agent back, an update enrolls
  nobody, an agent installs one update in its life and is not left behind.
- *Portal, MCP, client*: an answer goes to who asked, a connection is not
  leaked, a tap or a decision counts once, a command runs on the device its name
  resolved to, a fetch runs once, and every wait ends.

`PROJECT.json` lists the hazards, each at the line where it bites, with the
properties that would show it.

## 2. The plan

In order of what rests on what:

1. **done, proved** `ByteStream` (abstract), `UpChannel`, `DownChannel`: the two
   halves of a direction, each shown to implement the stream.
2. **done, proved** `RelaySession`, `ControllerGrace`.
3. **done, proved** `AccountAccess`, `AgentRegistry`.
4. **done, proved** `ByteAccount`, `WriteBatch`: the waits that cross sessions, the
   timers.
5. **done, proved** the device: `CommandGate`, `PolicyRules`, `Pairing`, `ShellSessions`,
   `Workspaces`, `RequestLoop`, `AgentConsole`, `AgentProcess`, `SelfInstall`,
   `DesktopInput`, `DesktopPeers`. **Done, model-checked** `TrustStore`, `AgentJobs`,
   `FileOps`, `OutputPages`.
6. **done, proved** accounts and services: `OAuthGrants`, `WebFetchJobs`, `Admission`,
   `Shares`, `DeviceConns`, `ApprovalPhone`, `LarkCards`, `ControllerDial`,
   `McpSessions`. **Done, model-checked** `ContactEmail`, `Notifications`.
7. Left: `pollDrain` (readers that do not acknowledge), the WebSocket registry of
   `handleAgent`, enrollment codes, and a composition of `AgentRegistry`,
   `RelaySession` and `AccountAccess`, whose shared state is the session table.
8. Left, proofs, in this order: the two budgets of `AgentJobs`, `SuNoChurn` of
   `LarkCards`, `MailExact`. Section 6 says what stands in the way of each.

## 3. The modules

Every module follows the same rules. A critical section of the code is one
action; where a handler lets its lock go, or calls the database, another
handler may run. Bytes, names, keys and messages are numbers or model values.
Time is not measured: whatever a timer does may happen once its condition
holds (`ContactEmail` and `WebFetchJobs`, where lifetimes are compared, have a
small clock). The definitions whose comment describes a missing guard or a wrong
order (`WindowNoSpare`, `DeregisterAny`, ...) are plausible mistakes in the
definition they stand before. No specification uses them: put in its place,
each makes one property fail, which shows that the property depends on that
code.

### The stream

**ByteStream** is the abstract specification: units are sent, arrive in order, and
the stream ends with `eof` (only after everything sent has arrived, unless the
sender knows of a failure) or is cut. `UpChannel` and `DownChannel` instantiate
it with a refinement mapping, `ImplementsStream`.

**UpChannel** (`httpconn` `sendLocked`, `post`, `Close`; relay `acceptUpload`,
`sideQueue`). A write is its number and a size. `upSeq`, `upOrdered`, `writeErr`
are the fields of `conn`; `pc` and `attempt` say where the goroutine of each post
is; `closing` and `tail` where `Close` is and which write rides on `/h/close`.
`req[s][a]` is the request of try `a` of write `s`, from the wire through
`admitSeq` (sequence check and reservation are two critical sections: `checked`
lies between them), `reserve` (`wait`, `held`) and `commitSeq` to its answer.
`stream` is every write put in `ch`, with `taken` and `acked` counting what the
reader has drained and acknowledged.

**DownChannel** (relay `takeUpTo`, `takeWindow`, `drainUpTo`, `assign`; `httpconn`
`Read`, `downPoll`). Bytes are numbered as they are pushed, so every loss,
repetition and swap shows. A poll carries what it asks for and where it is: on
the wire, waiting for the chunk before its own or for the turn, parked, with
bytes in hand (in no other field), or answered. A poll that the reader has
given up on (`live = FALSE`) goes on at the relay.

**WriteBatch** (`conn.Write`, the flush timer, the flush before a read, `Close`):
which bytes become which post. A timer that has fired is a callback waiting for
`writeM`, and stopping the timer does not stop it; its generation must.

**ByteAccount** (`resident.go`): several directions of several namespaces draw on
one account with three levels. A write that finds no room waits on the channel
of the level that was full; a session may leave while writes hold room in it.

### Sessions, registry, leases

**RelaySession** (`handleHDown`, `handleHClose`, `releaseDrainedSession`,
`endSessionsOfGoneAgents`, `closeHTTPSession`, `reapHTTP`). Two directions, chunks
reduced to their number. `polls`, `closer`, `scan`, `ender` are program counters of
handlers under way. The three checks of `releaseDrainedSession` are three steps,
as they take the locks one after the other. The scan may take the device of any
session for gone (`DeviceGone`): one that has died, one that has closed its side, one
that is alive and was replaced, deregistered or silent. It drops the device's
direction and closes the controller's afterwards, outside `hmu` (`ScanDrops`).

**ControllerGrace** (`http_disconnect.go`). `gen`, `pgen`, `timer` are
`clientPollGeneration` and `clientDisconnectTimer`; `ticking` and `fired` separate a
timer that can be stopped from a callback that has started. Polls reach
`controllerPollStarted` in any order.

**AgentRegistry** (`handleHPoll`, `handleHDial`, `handleHDeregister`,
`requeueHTTPJob`; agent `runHTTP`). Processes of one device start, overlap, exit,
die and are told to stand down. `poll[k]` is a handler, with the entry it found
and the open in its hand; `changes` counts the closings of an entry's channel. A poll
may be handled after its process has gone. `latest` and `strayed` are history: the
latest process that registered, and whether an older one has registered since it
last did.

**AccountAccess** (`delegation_auth.go`, `disable.go`, the dial handlers). The four
kinds of dial open their legs in the order the code does; `disabler`, `revoker`
and `held` are the two sweeps and their snapshots. A device's registration
checks, publishes and checks again.

### Accounts

**Admission** (`portal/auth.go`, `relay/access.go`, `admin.go`): an account is an
immutable identity, its login can be taken over by another, and a session
carries the login it was signed in with.

**Shares** (`friends.go`, `user.go`, `device_id.go`, `alias.go`, `approval_phone.go`,
`scoped_store.go`): friendships, shares, device records that move from a hostname
to a device ID, the phone that approves, scoped tokens. A transaction is a
step, or two with its row lock between.

**ContactEmail** (`contact.go`, `portal/email.go`): links minted, mailed, marked and
pressed. An expiry is judged by Postgres' `now()`, the start of the transaction;
a transaction is modelled by the points where another can come between.

**OAuthGrants** (`oauth.go`, `oauth_pg.go`, `mcpauth`): registration, consent, code,
rotation, revocation. Every token call is a sequence of separate statements.

**WebFetchJobs** (`webfetch/handler.go`, `delegation_store.go`,
`delegation_cleanup.go`): ticket, request row and grant live on different clocks;
an operation is named by the caller's `rid` and must not run twice, a crash of
the relay included.

**Notifications** (`agent/notify.go`, `agent_events.go`, `relay/notify.go`,
`internal/notify`): a report is posted again when no answer came. Beside it the
versions (`Nv...`): the cache of the installed OpenCU version on the device, which a
slow reader may fill late (`NvDeviceNext`), and the relay's row of what a device
reported (`NvRelayNext`).

### Who may do what on a device

**CommandGate** (`gate`, `gateFile`, `Ask`, `Decide`, `approvals.go`): a request names
a command and a directory; a script is asked about under a label that two
scripts may share; an approval that comes late is a grant for the next try. A label
is its own label (`LabelsStay`): `script.Canonical` takes whole tokens only.

**PolicyRules** (`policy.go`): what a rule matches and which rule an answer makes,
over every command, directory and path of a small alphabet. The state is the
request that was answered and the rule it left.

**Pairing** (`console` pairing half, `handleSession`, `authorize`): a request
outlives the dial that made it, so that the next dial can collect the verdict.

**TrustStore** (`transport/trust.go`): the map, the snapshot and the file.

### What runs on a device

**RequestLoop** (`serveAuthorized`, `watchPeer`): one request at a time; while a
command runs, one read of the connection notices a cancel or a hang-up.

**ShellSessions** (`execInSession`, `shell.go`, `cancelGate`): requests share a shell,
cancelling a command destroys it, and a command may be retried in a new one.

**Workspaces** (`workspace.go`): look-up, reservation, approval, run, cancel and the
tear-down that waits for runs, each call step by step.

**AgentJobs** (`jobs.go`): the end of a job is two critical sections, with polls and
other jobs in between, under a count and a byte budget.

**FileOps** (`server/files.go`, `fileops.go`, and what the client concludes): a text is
a sequence of characters; a directory is an identity, as a path may come to
lead elsewhere while an operation runs.

**OutputPages** (`mcp/server.go`, `mcp/workspace.go`, `server/spill.go`): a byte is its
position; the keeper of two ends, the page of a poll, the spill file.

**AgentConsole** (`agent.go`): the goroutines `Close` joins, among them the requests that
were asked for their answer, a portal's console session with its pump, the local
prompt. What the console shows is a revision.

**AgentProcess** (`daemon.go`, `update.go`, `cmdAgent`): the lock says that an agent
serves, the number in `agent.pid` is what a stop signals; numbers are reused.

**SelfInstall** (`autoupdate.go`, `install.go`, `portal_install.go`, `update.go`):
three ways to a new binary, two of which share `installMu`.

**DesktopInput** (`desktop/engine.go`): engine, releasing goroutine, person and
controller; an action is the sequence of its steps. **DesktopPeers** (`service.go`,
`opencu.go`, `store.go`): one call holds `busy`; engines per controller with an idle
timer and the latch of the person's stop.

### Controllers and the portal

**ControllerDial** (`client.go`, `handshake.go`): a name is resolved and dialled side
by side. **McpSessions** (`hostedsessions.go`, `conversation.go`,
`workspace_link.go`): a table, a conversation's workspace, a shared connection;
the three share no state, `hsPart` says which one a behaviour is about.

**DeviceConns** (`deviceconn.go`, `pending.go`): a connection whose answers carry no
number, and polls that share a round; the two share no state. **ApprovalPhone** (`phonewatch.go`,
`approvalwatch.go`, the phone's outbox): cards are pushed over one connection,
requests observed over another. **LarkCards** (`larkwatch.go`,
`lark/grants.go`): cards, taps and updates, and beside them the supervisor's
reconciler and watchers (`Su...`), which share no state with the cards.

### Proof modules and MC modules

Six modules hold the theorems of section 6: `UpChannelProofs`, `DownChannelProofs`,
`RelaySessionProofs`, and for what is smaller `TunnelProofs` (connections and who shares
them: `WriteBatch`, `ByteAccount`, `ControllerGrace`, `DeviceConns`, `McpSessions`,
`Workspaces`, `ApprovalPhone`, `LarkCards`), `DeviceProofs` (`AgentRegistry`, `ShellSessions`,
`DesktopPeers`, `AgentProcess`, `RequestLoop`, `AgentConsole`, `DesktopInput`, `SelfInstall`) and
`PermissionProofs` (`AccountAccess`, `PolicyRules`, `CommandGate`, `Pairing`, `OAuthGrants`,
`Admission`, `Shares`, `ControllerDial`, `WebFetchJobs`).

A property that a run checks of several components at once is defined in the last of
them, which extends the others for this and uses nothing else of theirs: `AccountsExact`
in `Admission` (with `Shares`), `CallsSafe` in `WebFetchJobs` (`ControllerDial`),
`DeviceSafe` in `AgentConsole` (`RequestLoop`, `DesktopInput`, `SelfInstall`), `CardsSafe` in
`ApprovalPhone` (`LarkCards`), `ConnsSafe` and `CancelsSafe` in `McpSessions` (`DeviceConns`,
`LarkCards`, `Workspaces`). The run and the theorem then speak of one definition. Such a
theorem has the specification of each component as a hypothesis; their variables are
disjoint, so it is the conjunction of the theorems of each.

`MCRelaySession`, `MCTunnelLive`, `MCPermissions`, `MCOperations` and `MCWaits` each
put several components in one run. A behaviour is about one of them: `part` is
chosen in the initial state, the steps are those of that part's own `Next`, and the
others rest in one of their initial states. This is the same as one run for
each component, and the properties of the run are the conjunctions of the
components' own. The components of such a run share no state in the code other
than through calls that each models itself. `AgentRegistry` declares the symmetry of
its own runs (`Symmetry`), and `MCPermissions` that of the handlers a part has two of
(`MCSwap`, one exchange of them all, as only one part runs); no liveness is checked there.

## 4. The runs

| run | question | bounds |
|---|---|---|
| `up` | Is the queue the writes in order (`StreamInOrder`), is nothing acknowledged lost (`AckedNotLost`), is the stream complete when `Close` reports it (`CompleteAtClose`), is the budget exact (`BudgetExact`), is there always room for the write the others wait for (`GapCanFill`), is the whole a byte stream (`ImplementsStream`), does every write end (`WritesSettle`)? | 3 writes of 1 or 2 units, 2 posts in flight, 1 bulk lane, 2 tries each, 1 failure, budget 6, queue 3 |
| `down` | Is every byte in exactly one place (`NothingLost`), does the reader never ask outside the relay's window (`WantInWindow`), is `Read` a byte stream (`ImplementsStream`), is every byte read at last (`AllRead`)? | 3 bytes, chunks of 1 or 2, window 2, 4 polls at once, 2 tries, 1 failure |
| `tunnel` | Was a drained session read (`DrainedMeansRead`), does an end come after everything (`EndMeansRead`), is no retirement missed (`NoMissedRetire`), is a window never used up (`WindowHasNext`)? | session: 1 chunk each way, 2 polls; window: 5 bytes, window 3, 6 polls, an agent's busy lane |
| `tunnel_live` | Does the grace period spare a live controller (`GraceSparesLive`), is the byte account exact, and does nobody wait for room that has come back (`BaAccount`), are the batches whole and in time (`WbBatches`), and does every wait of theirs end, and every session that both ends left (`TunnelSettles`)? | 3 polls; 2 directions of 1 namespace, 2 uploads of at most 2 units, room for 3 at each level; batches of 3 bytes of 9 |
| `registry_safety` | Is an open in one place (`OpenInOnePlace`), does the scan spare the process that polls (`ScanSparesPolling`)? | 2 processes, 2 polls, 2 dials, a queue of 1, 2 entries; polls may be handled late |
| `registry_live` | Do the sessions of a process that has gone end (`GoneEnded`)? | the same with 1 dial |
| `permissions` | Does nothing survive a disable or a revocation (`AccessEnds`)? Does an approval let through what was seen, once, and does a lapsed delegation stay denied (`GateSafe`)? Is a remembered rule what was answered (`PolicyExact`)? Are invitations, friendships and limits kept (`AccountsExact`)? Does a revoked controller need the owner, and a request outlive its dial (`PairingSafe`)? Has a refresh token one heir, and stays ended what has ended (`OaSafe`)? Do mails and reports go out once and within limits, and is a device's row the last version that it reported (`MailExact`)? | 11 parts; 1 or 2 requests each, 2 of each thing that can be confused with another, 1 place in each bounded table |
| `operations` | Commands (`RunsSafe`), files and pages (`FilesSafe`), the desktop's service (`CuServiceSafe`), the process (`ProcessSafe`), shared connections (`ConnsSafe`), cancels (`CancelsSafe`). | 11 parts; 3 commands on 3 shells, 2 jobs with room for 1, 2 calls elsewhere, files of up to 4 characters, 2 cards for one request |
| `waits` | Is nothing served twice or out of scope meanwhile (`DeviceSafe`, `CardsSafe`, `CallsSafe`), does every wait end (`WaitsEnd`), and is a device neither left unwatched nor left behind its release (`CatchesUp`)? | 9 parts; 3 messages, 2 changes, 2 keys, 2 releases, 2 phones, 2 losses, 5 changes of configuration, 2 devices, 1 crash |

The parts of the last three runs check these properties of the components:

- `AccessEnds`: `NothingSurvivesDisable`, `RevokedSharesEnd`. `GateSafe`: a late grant is
  spent once, on the request it was given for (`LateGrantExact`), and what lapsed
  stays denied (`LapsedStaysDenied`). `PolicyExact`: `RememberedIsAllowed`,
  `RememberedIsNotWider`. `AccountsExact`: `AmAdmittedByInvite`, and of `Shares`
  `FrShareNeedsFriend`, `FrWithinCap`. `PairingSafe`: `RevokedNeedsOwner`,
  `RequestOutlivesDial`, `AdminsStayKnown`. `OaSafe`: `OaOneHeir`, `OaStaysEnded`.
  `MailExact`: `EmWithinLimits`, `EmDeadStaysDead`, `EmDisabledMintsNothing`,
  `NfOncePerReport`, `NvCacheFresh`, `NvReported`, `NvInOrder`.
- `RunsSafe`: `CancelHitsItsOwn`, `RunsAtMostOnce`, `NoShellLeaks`; `StartsOnce`,
  `RunsInLiveShell`; `CountCoversRuns`, `RunningStaysReachable`,
  `RetainedWithinBudget`. `FilesSafe`: `FoPageWhole`, `FoBatchOrderFree`, `FoToldTrue`,
  `FoNeverPartial`, `FoOwnUntouched`, `OpPageTrue`, `OpSpillWhole`. `CuServiceSafe`:
  `CuStopHolds`, `CuNoOrphan`, `CuCallKeepsEngine`, `CuActsOnce`. `ProcessSafe`:
  `PrUpdateRestores`, `PrNeverEnrolls`. `ConnsSafe`: `DcOwnAnswer`, `DcNoLeak`,
  `WpOneRound`, `HsBounded`, `HsOneWorkspace`, `LkOneTap`, `LkNoUpdateRace`.
  `CancelsSafe`: `NothingStartsLate`, `HsCancelsItsOwn`.
- `DeviceSafe`: `ServedInOrder`, `WithinScope`, `AcQuiet`, `DkPersonFirst`,
  `InOnePerLife`. `CardsSafe`: `LetThroughOnce`, `AppliedOnce`, `LkOneTap`,
  `LkNoUpdateRace`, `SuOneWatcher`. `CallsSafe`: `CdRunsWhereResolved`,
  `CdRejectMeansNotRun`, `WfRunsOnce`, `WfTicketNamesRow`. `WaitsEnd` and `CatchesUp`
  name the states that may not last: `LeftRunning`, `AcHangs`, `AcStale`, `DkStuck`,
  `Undelivered`, `LkTapWaits`, `CdLingers`, `WfUnsettled`; `SuUnwatched`, `InBehind`.
  `CatchesUp` adds `SuNoChurn`: no more watchers start than there are changes of
  configuration or registration. `PrUpdateRestores` speaks of updates that
  interrupted an agent and succeeded: one that gave up while the agent was closing
  leaves a machine without an agent, and says so.

Three more runs, `registry_standdown`, `shares_designation` and `trust_revoke`, each
end with a counterexample: a disagreement of section 7.

Why these bounds are enough to be worth running:

- *UpChannel*: three writes are the least at which one is next, one is held and
  one is parked for room. With two tries and one failure a write is at the relay
  twice. The budget of 6 units is the smallest that the assumption
  `BudgetHoldsWindow` admits (three of the largest writes), where parking is most
  frequent. The code's 32 MiB, 1 MiB and 256 chunks satisfy that assumption;
  nothing in the code ties them together.
- *DownChannel*: a chunk of two asked for one byte at a time is split, and one
  numbered while the reader asked for more is served again larger than its
  window asks for. Four polls are a window, an abandoned poll and a retry at once.
  The window part of `tunnel` needs two of the oversized chunks in one window,
  hence 5 bytes.
- *RelaySession*: every race is about the last chunk, so one each way is enough;
  two polls let an abandoned one hold the turn before a live one. In `tunnel_live`,
  with one poll at a time, a behaviour of this part stops when the session leaves the
  registry, which is what its property asks for.
- *ControllerGrace*: a live poll, an abandoned one and its retry.
- *ByteAccount*: two directions share the namespace's room and the relay's, so
  that one's wait ends with the other's release, and an upload may be a retry that
  is at work beside the first. *WriteBatch*: sizes
  below, at and above a batch, a timer of the batch before the last.
- *AccountAccess*: the flag and the share change three times between them, so that
  either can be taken, given again and taken again, each sweep in flight during any
  step of a dial of each kind.
- *AgentRegistry*: a process and its successor, each with a poll, an open that
  has to be given back to a full queue, and an entry made anew.
- *Approvals*: two scripts under one label, one place for a late grant and one
  for an asked script, so that both are evicted; a plain command spelled like the label;
  two dials of one controller. Requests that name no directory are about one of the
  commands, since the code treats all of them alike, and those of the delegated session
  are for the scripts, in a directory (`MCAsked`); the other session asks for anything.
- *Accounts*: two logins that can be exchanged, one invitation, a machine whose
  record moves, and two requests at every limit of one.
- *Shells, jobs, workspaces*: three commands: one cancelled, the one a late
  cancel could hit, and one that must find a live shell. Two jobs meet a limit
  of one, of those that run, of those that are kept, and of the bytes kept.
- *Files and pages*: four characters of which one is the line end contain every
  arrangement of an empty, a whole and an unfinished line; a page is smaller
  than the output and larger than its ends.
- *Cards, phones, watchers*: two taps, each delivered twice, on two cards for one
  request; a designation that changes from one phone to another while a card is
  out; a device that registers between two snapshots. The phone of `waits` has one
  request and one card: a watch that begins does not see the requests that are there
  already, so that one request gets a second card only in a longer story than TLC can
  finish here. `PhoneHolds` covers any number of both.
- *WebFetch*: the clock runs past every lifetime once, the crash included.

Deadlock is not checked: writers, readers, controllers and devices may all stop.
That nothing waits for good is what the liveness properties say.

## 5. Fairness

Weak fairness is assumed of goroutines and timers of the program and of nothing
else: a handler that is not blocked goes on, a callback runs, the sweeper and
the scan come round, a parked poll's timer ends it. In `UpChannel` and
`DownChannel` the far application also keeps reading, or the properties would be
false for the trivial reason. Nothing makes an end write, poll, stay, close or
come back, and nothing makes the carrier succeed; the number of failures is
bounded. In `AgentRegistry` each poll's handler and the scan's look at each
session are fair by themselves, as each is a goroutine or a loop over all
sessions.

In `tunnel_live` and `waits` the fair steps of a part are one disjunction, which is
less than the code gives (every goroutine runs by itself) and is enough for the
properties. In `ByteAccount` a waiting upload that was woken looks again, and an
upload in progress ends; that bytes are read, acknowledged or freed is nobody's
duty. In `AgentConsole` the way out of `Close` and the pump of a session are fair,
what the person and the portal do is not. Three parts of `waits` have more than one activity that must not
starve the other, stated in `WaitAlso` and beside it: the portal's installs beside the
automatic update, the watchers beside the reconciler, and the clock of a fetch. Two
assumptions there are not about the program's own scheduling:

- work on a device ends (`InWorkEnds`): the gate waits until the device is not busy,
  and a device that is busy for ever is never updated by design;
- a `sync.Mutex` is handed to a waiter that has waited long (`SF` on `InAutoLock`):
  Go's mutexes turn to this mode after a millisecond. With weak fairness alone
  portal installs could keep `installMu` from the updater.

Apart from the bounds, no constant and no guard takes away a schedule that the code
allows. Where the code lets a case through that a property would otherwise forbid, the
property names that case and says so (`WrittenOff`, `Overtook`, `strayed`, `Spelled`,
`Unlearned`, `SuExcepted`); section 7 lists each with its lines. The runs and the theorems cover those cases as well as the others.

## 6. The proofs

**UpChannel** (`UpChannelProofs`), for any number of writes, window, budget,
lanes, tries and failures, from `UpConstants` and `BudgetHoldsWindow`, which say
of the constants what the code's own values satisfy:

- `Invariance`: `Spec => []IInv`;
- `TypeCorrect`, `InOrder`, `NothingAckedIsLost`, `CloseIsComplete`: its parts
  `TypeOK`, `StreamInOrder`, `AckedNotLost`, `CompleteAtClose`, one each;
- `Refines`: `Spec => ImplementsStream`.

`CompleteAtClose` is not inductive. That the close finds every write landed
rests on what it waited for: after it has gone out every other write has ended
(`CloseState`), one that ended well was answered `ok`, an `ok` is only given for a
write that the relay has (`OkMeansLanded`, `AckedNotLost`), and what it has but
has not put in the stream is ahead of it (`HeldAhead`), so that nothing can be
missing below. `OnlyHandedOut` keeps requests of writes that do not exist yet
out of the way. `IInv` is the conjunction. One lemma per action shows that it is
kept (`AdmissionInv`, `CommitInv`, `CloseInv`, `SendInv`, ...); the relay's share
the form "requests keep their answers except for the one handled"
(`RelayReqs`), and `ConcatRange` is the fact about sequences under `commitSeq`: the
writes up to `s` and those held from `s` on are again the writes in order. The
refinement uses the invariant for one thing: a step of `commitSeq` appends the
next numbers (`CommitArrives`), and an end of file after no failure finds the
stream complete.

The budget of the same queue has an invariant of its own on top of `IInv`:

- `BudgetInvariance`: `Spec => [](IInv /\ BudgetInv)`;
- `BudgetIsExact`, `GapStaysFillable`: `BudgetExact` and `GapCanFill`.

`BudgetInv` states the two in sums over any table of requests (`Exact`, `Gap`;
`BudgetMeans` goes back), with what a step needs to know of a request. `Rooms`:
the room it holds is at least its write, or a release would take too much, and one
that was not judged ahead of the stream is not ahead of it when it commits, or
`commitSeq` would hold a write that no spare was left for. `Places`: acknowledged,
drained and queued come in that order. `Tries`: a request that goes out takes the
place of none. Each action either leaves every request's room as it is (`Alike`),
or one request stops holding its own (`Leaves`; read backwards, a reservation), and
`AlikeTables` and `LeavesTables` say what the sums do then. Below them are the facts
about `Total`, a recursive function (`TotalSum`, `TotalChange`, `BytesApart`,
`BytesRange`), each proved from a least index where it would fail (`LeastOf`). TLC
checked every part of `BudgetInv` on two writes before it was proved, and checks the
two properties on three in `up`.

**ControllerGrace** (`TunnelProofs`), for any number of polls in whatever order
they start:

- `GraceInvariant`: `Spec => []GraceInv`; `GraceTypes`: `TypeOK`, which includes
  that there is at most one timer, of the latest generation;
- `GraceSpares`: `Spec => GraceSparesLive`.

The argument: a timer or a callback stands for an abandoned serial poll
(`TimersAreAbandoned`); a serial poll is sent when no other is waited for
(`SerialAlone`), so a poll being served was sent after it. A callback that ends the
session has the latest generation, which no two polls share (`GenerationsDiffer`), so
every poll being served then started before the abandoned one: it overtook it, which is
the exception of `GraceSparesLive` (section 7). A served poll that overtook none has a
later generation, and the callback does nothing.

The other components have their invariant in their proof module, one lemma per
action, and a property that follows from it.

**DownChannel** (`DownChannelProofs`), for any number of bytes, any chunk size, window,
number of polls, tries and failures, from the assumptions of the module:

- `ChunksInvariant`: `Spec => []DnInv`;
- `NeverBadWant`, `AllBytesKept`: `WantInWindow` and `NothingLost`;
- `RefinesStream`: `Spec => ImplementsStream`.

`NothingLost` puts together where bytes are: with the reader, in kept chunks, in one
hand, in the queue. `DnInv` says it with positions (`Placed`): chunk `k` ends at byte
`at[k]`, the hand at `c[0]`, the queue is cut at `c`; a step then moves one of the
marks. Three parts keep the marks right. Only one poll has the turn (`DnOne`),
or two hands would follow one chunk. Only one live poll has a number, and what it
was answered is the chunk of that number or the next (`DnPolls`), or the reader
would count a chunk twice. The window starts after the last chunk acknowledged and
reaches no further than the relay's (`DnBatch`), from which `WantInWindow` follows.
`NothingLost` alone is not inductive: it does not exclude an answer on its way that
holds old bytes. TLC checked the part about polls on the bounds of `down`; the part
about places is `NothingLost` with chunks that are not empty.

**RelaySession** (`RelaySessionProofs`), for any number of chunks and polls:

- `SessionInvariant`: `Spec => []RsInv`;
- `Drained`, `EndsComplete`, `LastCheckRetires`: `DrainedMeansRead`,
  `EndMeansRead`, `NoMissedRetire`.

`releaseDrainedSession` looks at one direction after the other and takes the session
out later, while handlers run. That is sound because what it looks for stays once it
is there: a direction that is ended with nothing kept, queued or in a hand (`RsDone`)
gets nothing more. (The model's `Settled` also asks that no poll has the turn, which
does not stay.) `RsChecks` says so of every handler between its checks, `RsReader`
what a reader that is not written off still has to get and where it is, `RsEof` that
a plain end stays true of a device that is written off after it, `RsRetired` that the last
handler to check retires the session unless its reason is still to be told. Nothing is
assumed of the device that the scan takes for gone.

**ByteAccount** (`TunnelProofs`), for any uploads, directions, namespaces, sizes and
limits at each level:

- `AccountExact`: `BaSpec => []BaCounts`: the three counts are what is charged, within
  their limits, and a namespace's share lives as long as it has a direction;
- `NobodyForgotten`: `BaSpec => []BaAwake`: what sleeps on a level's channel finds that
  level full. `AccountSafe` is both, the property of the run.

An upload's bytes are a set of units, so that a sum is a cardinality and a step adds or
takes away the units of one upload (`BaSums`). `BaOrderly` is needed where a direction
is freed: nothing of it may be held any more, or its bytes came back twice.

**WriteBatch** (`TunnelProofs`), for any batch and sizes: `BatchesSafe`:
`WbSpec => []WbBatches`. The timer that is set is of the latest generation and was set for
the first byte not posted (`WbInv`), so a callback of an earlier one, which finds
another generation, posts nothing.

**AccountAccess** (`PermissionProofs`), for any number of dials of the four kinds:
`SweepsEndAccess`: `Spec => []AccessEnds`. `AcDial` relates a dial's place to the closers
it has open; a dial that is past its look at the account is in the sweep's snapshot,
or the sweep has ended it (`AcDisabling`, and `AcRevoking` for shares), because its lease
was published before that look (`AcListed`). For shares the exception `late` of
`RevokedSharesEnd` is the same as in section 7.

**AgentRegistry** (`DeviceProofs`), for any number of processes, polls, sessions
and entries and queues of any size:

- `OneOpenOnePlace`: `Spec => []OpenInOnePlace`;
- `PollingIsSpared`: `Spec => ScanSparesPolling`.

`OpenInOnePlace` counts; its invariant (`RegInv`) says where instead. An open that was
accepted is at one position of one queue, in one poll's hand, in one answer, or dropped
(`OnePlace`), and any other open is nowhere, so that a dial brings in no second one. A poll has
one open in hand from `TakeOpen` to its end and none before (`HandOk`), so a poll that
ends in between would lose one; what a queue's `Append` and `Tail` do to positions
is in `AppendQueued` and `TakeQueued`.

`ScanSparesPolling` needs that the entry stays with the process that polls (`Kept`),
which holds unless an older process's poll has strayed in (`LatestInv`). The entry's
instance is the latest process. While a poll of that process is waited for (`Holds`),
the entry is registered and is the one it waits on: the reaper sees the poll, and only a
process that has stopped deregisters, and only its own entry (`UpInv`). A second
poll of it that is being registered looked up the same entry. After a stray poll `Kept`
holds again once the latest process has registered with a poll that it still waits for:
a process waits for one poll at a time, so that no other is left on an older entry.

**PolicyRules** (`PermissionProofs`), for any commands, paths and scripts of the
module: `RememberedExactly`: `PolicySpec => []PolicyExact`. A rule made for a request
matches it (`RuleCovers`), and what it matches besides has the request's kind, command
or script, directory and scope (`RuleNotWider`).

**CommandGate** (`PermissionProofs`), for any requests, commands, labels, directories
and bounds. `LateApprovalsCounted`: late approvals let through no more requests than
the owner approved cards with their label and directory, and `LapsedStaysDenied`.
`LateApprovalsExact`: `GateSpec => []GateSafe`, with plain commands that may be spelled
like a script's label. The counts follow from an injection: what was
let through names the question whose grant it spent (`GtCounts`). In the invariant
`GtInv` every grant waits for a question of its own (`GtGrants`), no spent question has
a grant (`GtUsed`), a request that found a grant has its command and directory if
the grant is there still (`GtReq`), and unless something was forgotten every script
that was asked about is remembered (`GtAsked`), so that a label shared by two
resolves to neither (`ResolveFits`). The rest is about `slices.DeleteFunc` (`Without`, a
recursive function since the provers cannot expand `SelectSeq`).

**Pairing** (`PermissionProofs`), for any controllers, dials and requests:
`PairingKeepsTrust`: `PairSpec => PairingSafe`. A request in the table is its
controller's and nobody has collected it (`PaTable`): whoever takes a verdict takes the
request out, under the same lock. So an approval that a dial finds there was counted
as still to be used when the dial arrived, or came later (`PaDial`), and so was the
verdict of a request that it waits for, since a request never changes its
controller (`PaGrows`). `RequestOutlivesDial` then follows step by step
(`PaWaitingStays`).

**ShellSessions** (`DeviceProofs`), for any requests and shells: `ShellsKeepTheirOwn`:
`ShellSpec => [](CancelHitsItsOwn /\ RunsAtMostOnce /\ NoShellLeaks)`. In `ShInv` a request
in a shell is alone there and of the latest generation (`ShHolds`); what is armed
belongs to somebody in the shell (`ShGate`); a watcher's generation was armed before, and
the request of that generation is the watcher's own (`ShWatched`). A watcher that
fires finds its generation armed, so the request in the shell is its own; the shell
is closed from then on, and no other request enters it. A closed shell is torn down
or is somebody's who has yet to (`ShKept`), and a request that has not submitted its
command has not run it (`ShCounts`), which is what makes the retry safe.

**DesktopPeers** (`DeviceProofs`), for any controllers, calls, engines, timers and
screenshots: `DesktopKeepsPromises`: `CuSpec => []CuServiceSafe`. `CuInv` adds to the
four promises:

- `CuHeld`: one call holds the service, its session is marked in use, and while it
  drives its engine the session still has that connection. This is why a timer or a pause
  that looks for idle sessions passes it by;
- `CuOwnConns`: a connection belongs to one session and is open until the service closes,
  so that closing one session's engine leaves the others' alone;
- `CuLatched`: a controller the person stopped either has the stop latched or is
  connected to an engine that knows of it. `closeConn` reads the engine's answer
  before it forgets the connection, which is what carries the stop over a reconnect;
- `CuUnused`: a kept screenshot that is not spent has started nothing, and no two have
  one ID.

**OAuthGrants** (`PermissionProofs`), for any clients, calls and failures:
`GrantsHaveOneHeir`: `OaSpec => OaSafe`. `OaConsent` says what one consent is worth: before
it is redeemed nothing, and then either one refresh row or one call that is about to
write the next, never both. A call becomes that heir by consuming the row (or the
code), and only one statement consumes it.

**Admission** (`PermissionProofs`): `AdmissionCosts`: `AmSpec => []AmAdmittedByInvite`. In
`AmInv` one sign-in at a time has chosen how to admit its account, and until it is done
there is no administrator, or its invitation is open (`AmLocked`). So the administrator
is alone (`AmOneAdmin`), an invitation is used by nobody while it is open (`AmUnspent`), and
every other account admitted has spent one (`AmPaid`). A login can change hands in
between; what is spent is counted by identity.

**Shares** (`PermissionProofs`), for any peers, keys and limits: `SharesHold`. A share that is
about to be written holds its friendship's row, which is accepted and which nobody
is removing (`FrHeld`); a token that is about to be written holds the lock under which
the live ones were counted, so there is room (`FrCounted`). `AccountsHold` joins it
with `Admission`: `AmSpec /\ FrSpec => []AccountsExact`.

**ControllerDial, WebFetchJobs** (`PermissionProofs`): `CallsHold`:
`CdSpec /\ WfSpec => []CallsSafe`. A device's key and every pin under its name are its own
(`CdOwnKeys`), so a command that was sent went to the device of that name, and a
call that ended in a refusal was refused by the device before it ran anything (`CdTold`). A
fetch that ran is in the ledger until the ledger is closed for good, and one about to
run has not run (`WfLedger`); that the relay may crash between the record and the run
costs a run, never adds one. `WfTicketNamesRow` is inductive with these.

**AgentProcess** (`DeviceProofs`), for any commands and process numbers: `ProcessHolds`:
`PrSpec => []ProcessSafe`. The lock is held by exactly the processes that took it and have
not let it go (`PrLockHeld`). An agent on its way out was stopped by somebody, has a
supervisor, or is awaited by an update (`PrGoing`); once an update has interrupted one, there
is an agent that lives or an update that will start it, unless the stop is excused
(`PrBack`). `PrUpdateRestores` is `PrBack` when nothing is under way. That nothing is launched
on a machine where nobody asked for it is `PrLaunched`: a start and an update that
found an agent are the only ones that launch (`PrPlanned`).

**RequestLoop, AgentConsole, DesktopInput, SelfInstall** (`DeviceProofs`): `DeviceHolds`:
`LoopSpec /\ AcSpec /\ DkSpec /\ InSpec => []DeviceSafe`, from four theorems.

- `RequestsInOrder`: the messages handled, the one in the loop, the one the watch has
  read, and those on the wire are numbered on from each other (`LpOrder`), so that the message
  which the watch hands back is the next. A request at the gate has passed the checks of
  its scope and capability (`LpScope`).
- `ClosedIsQuiet`: nothing enters an agent that is closing, and the control loop is
  among the goroutines that `Close` joins (`AcInv`).
- `PersonComesFirst`: between an input of an action and the next send the signal is read
  (`DkInvTodo`, over the steps that are left), so that at most the input under way
  slips out after the person's stop (`DkInvSlips`). What is down is registered before
  it goes down, and what is still registered at the end is reported (`DkInvHeld`).
- `OneUpdatePerLife`: an installer midway holds `installMu` and no update waits for the
  restart; an agent that has installed one waits for the restart (`InInv`).

**Workspaces** (`TunnelProofs`), for any calls, workspaces and commands: `WorkspacesHold`:
what starts once, in a live shell, and not late (`NothingStartsLate`, an action property).
A command that is reserved or runs is the workspace's only active one, it has not
started before it was let through, and it runs in a shell (`WsSound`). Who waits at the
gate is alone there with its command, which still waits unless the workspace
was stopped (`WsGated`): so the command that passes the gate is the one it was asked for.

**DeviceConns, McpSessions, LarkCards** (`TunnelProofs`): `ConnsHold`:
`DcSpec /\ WpSpec /\ HsSpec /\ LkSpec => []ConnsSafe`.

- `DcHolds`: who waits on a connection holds it, and its request is either with the
  device or its answer is on the way, and nothing else is (`DcInFlight`). A caller that gives
  up closes the connection, as an answer that came later would be the next caller's.
- `WpHolds`: the round under way is the current one, and one that is over has asked every
  device (`WpRounded`).
- `HsHolds`: the table is within its limit at every insertion (`HsTabled`); a call that changes
  the binding is the only one that does, and the binding it began from is still there
  when it ends (`HsTalked`). `HsCancels`: a callback that fires runs inside the exchange of
  its own request, which holds the gate (`HsWired`), so what it closes is no other's.
- `CardsKeepOrder`: a tap that got past `Consume` spent the grant of its card
  (`LkSpends`), and a tap on the card that the watcher writes waits for it (`LkBehind`), which
  rests on what the card's record and channel say of both (`LkRecords`, `LkWatched`).

`CancelsHold`: `WsSpec /\ HsSpec => CancelsSafe`, from `WorkspacesHold` and `HsCancels`.

**ApprovalPhone** (`TunnelProofs`), for any requests, phones, cards, connections and
losses: `PhoneHolds`: `PhoneSpec => [](LetThroughOnce /\ AppliedOnce)`. That a card
is carried out once is a fact about each card (`PhCardOk`). That a request is let
through once is not: a request may have cards from several watches, and a late grant is
made after the request is gone. `PhHot` names the cards that can still let their request
through: one that shows on a phone of the watch that lives (`PhOffered`), one whose
decision is being carried out on it (`PhCarried`), and one that is owed a late grant
(`PhOwed`). There is at most one for each request; the first two are the card the watch
has for its request (`seen`), the last is only there when the wait has run out
(`PhStanding`), and a late grant that could come beside an answer is one of the requests
that `LetThroughOnce` excepts (`PhExcepted`). A watch that ends turns its cards into unknown ones, and the next
one begins without them.

**The watchers of LarkCards** (`TunnelProofs`), for any devices and changes:
`WatchersHold`: `SuSpec => []SuOneWatcher`. A watcher that runs is the one in the map, or was
let go by the round which still waits for it, or the reconciler has left (`SuHeld`).
The wait of `applyConfigs` for the watchers it cancelled is what keeps the second case from
meeting a new watcher. `CardsHold` joins the three:
`PhoneSpec /\ LkSpec /\ SuSpec => []CardsSafe`.

The assumptions about the constants say little: sizes and limits are natural
numbers, an absent value is none of the present ones, the request window of a
delegation is shorter than the hour by which its ledger outlives the longest grant
(`WfAssumption`), there is a source of updates (`InAssumption`). TLC evaluates each with the values of its run.

Only model-checked:

- *Liveness* (`WritesSettle`, `AllRead`, `TunnelSettles`, `GoneEnded`, `WaitsEnd`,
  `CatchesUp`): the prover does not reason about fairness.
- `WindowHasNext` of the window part. It relates the polls on their way to the chunks
  left, and is true of windows without failures only: its run allows none. An
  invariant for any number of polls would have to count polls the reader has given up on.
- The jobs' part of `RunsSafe` (`CountCoversRuns`, `RunningStaysReachable`,
  `RetainedWithinBudget`, `PollsReadOutput`): the order in which jobs are discarded and the
  bytes they retain are written with `SelectSeq` and sums of the community modules, which
  the provers cannot expand. The other parts of `RunsSafe` are proved
  (`ShellsKeepTheirOwn`, `WorkspacesHold`).
- `FilesSafe`: what recursive functions compute over texts, pages and spill files.
- `SuNoChurn`: a count of starts against a count of changes. TLC checks it with a
  bound on the changes.
- `MailExact`, and so `ContactEmail`, `Notifications`; the findings of section 7.

## 7. Where the code and its words disagree

Three runs end with a counterexample. `PROJECT.json` quotes the sentences.

- `registry_standdown`: a database error during registration is answered 409,
  which the agent takes for a replacement: the only process stands down.
- `shares_designation`: a phone enrolled under its name is designated, its record
  moves to a device ID and the device is removed. The move leaves
  `approval_phone` under the name, the removal deletes it under the ID.
- `trust_revoke`: `Remove` deletes from the map and unlocks; before `save` takes its
  snapshot, another session's `Get` reads the file back, and the save writes the
  removed fingerprint again.

Other gaps show when a definition that no run checks is made an `INVARIANT` or
`PROPERTY` of its component's specification, or an exception is taken out of a
property. Each is a case that a reader of the code should know of; paths are
under `internal/` unless they are in the root.

The tunnel:

- `ReasonTold`: a 410 written to a poll that nobody waits for (the gone device's
  own, or an abandoned one) counts as having told the controller
  (`relay/http.go:1616`, against the comment at 795). The session is then retired
  and the controller's next poll reads a plain end.
- `DrainedMeansRead` and `EndMeansRead` leave out a device that the relay has taken for
  gone (`WrittenOff`). "Nobody will read the device's direction again", says
  `relay/http.go:1602` and drops it; but the process may be alive, replaced, deregistered
  or cut off for 40 s, and reads on: its next poll is answered 410 before everything
  that was sent to it.
- `NoMissedRetire` leaves out a session whose device was taken for gone and whose
  controller closed without another poll. `releaseDrainedSession` keeps it for the reason
  to be told (`relay/http.go:1466`), also if the device had closed in good order before;
  nobody asks any more, and it stays until the sweeper comes (`TunnelSettles`).
- `GraceSparesLive` excepts polls that overtook an abandoned one (`Overtook`).
  `controllerPollStarted` runs after a look at the token store, so a
  poll its client has given up on can start after its own retry and get the
  later generation; its cancellation then starts a grace period that removes
  the session the retry is served from.
- `NothingLost` and `NoMissedRetire` say nothing of a direction that was freed
  under a poll with bytes in hand. That poll goes on to `assign` them: another
  poll may be served the chunk after a dropped one (the TLS layer above then
  reports a broken stream), and a session that both ends have closed is not
  settled and stays until the sweeper comes.
- The wake at the end of `commitSeq` ("may be the next one now, which needs less
  room", `relay/http.go:355`) reaches writes that wait for their direction; one that
  waits for its namespace or for the relay stays asleep until bytes come back
  there.
- `RevokedSharesEnd` leaves out dials that have passed the share check and have
  no lease yet when the share is taken back: they are in no snapshot and nothing
  reads the share again, although `closeRevokedShares` says that a session "does
  not outlive the permission it was opened under". Disabling does not have this
  gap: the account is looked up again once the lease is published.
- `ScanSparesPolling` excepts the time after a poll of an older process has registered,
  until the latest one registers again (`strayed`). `retired` keeps such polls out only as
  long as it names their process (`relay/http.go:869`): an entry made anew has
  forgotten whom it replaced, so a poll of a process that has exited, handled
  late, takes the device from the process that runs.
- Whether a write is ahead of the stream is judged before it reserves
  (`relay/http.go`, `admitSeq`). One that was judged ahead and has become the next
  still leaves room for another, and may wait for a release although it would
  fit. It does not wait for good: `WritesSettle`.

The device:

- `LateGrantExact` allows a grant for a plain command that is spelled like a script's
  label to be spent on the script, and counts the two together (`Spelled`).
  `resolveLocked` (`agent/approvals.go:455`) takes a label
  for the script that was asked about under it, so a late approval of a plain
  command with that very text releases the script instead. `permissions` has such a
  command (`short`).
- `CuStopHolds` excepts the person's stop between a fresh approval and the start that it
  allows: the approval is taken for the later word, and the stop is dropped with the old
  engine (`desktop/opencu.go:147`).
- `RunsInLiveShell` is about the `Close` at the end of a cancel or a close. The kill that
  their `w.cancel()` sends earlier (`agent/workspace.go:433`, 550) ends the running
  command, which is what it is for.
- Two dials of one controller that wait for the same pairing both wake on the
  approval and are both let in, where `console/console.go:220` says that "an
  approval is collected once"; `RevokedNeedsOwner` is about dials that come later.
- A label that two scripts share "is refused rather than guessed"
  (`agent/approvals.go:449`), while the device remembers both. The list of asked
  scripts is bounded; once one has been dropped, a late approval of its card
  names the other. `LateGrantExact` has this exception (`forgot`).
- `BusySeesRuns`: "close" takes the workspace out of the map while a command may
  still run in it, and `workspacesBusy` (`agent/workspace.go:449`) looks at the map.
- A job's buffer that is cut gets the truncation mark over its last bytes
  (`agent/jobs.go:86`), so a poll that read them before has not read "a consistent
  prefix" (line 69).
- A controller whose certificate is trusted while the agent runs
  (`agent/agent.go:720`, `741`) is added without the notice that the other ways of
  trusting send, so that a console shows it at its next change only.
- `policy.go` writes its snapshot outside the lock, as `trust.go` does: of two
  saves the older may be renamed last.
- `FoEditKeepsOthers`: an edit without an expected hash is worked out on a text
  read at the start and renamed over whatever is there at the end
  (`server/fileops.go`), the loss that the comment at its line 27 sees in overwriting by hand.
- `OpToldExists`: the sweep of old spill files takes a file that a quiet or
  outlived command still writes, and its path is told at the end
  (`server/spill.go:203`, against 25).
- `InOnePerLife` counts what the agent installs itself. `wanctl update` is another
  process and replaces the binary beside `installMu`; the version that
  `installLatest` swaps in is the newest at that time, not the one that was checked
  (`autoupdate.go:208`).
- `PrAgentSeen`: `wanctl start` writes the child's number after the child may have
  lost the lock to another agent and gone, and the stop of another call removes
  `agent.pid` although a new agent serves (`daemon.go:132`, `214`; the comment at
  `main.go:573`).
- The agent's `Close` waits for the local prompt, which may sit in a read of the
  terminal; `AcHangs` is stated for agents without one waiting.

Accounts and services:

- `OaLoginKeepsClient`: a client in the hands of its owner is looked up before the
  cleanup's statement, so that one that arrives in between is deleted
  (`relay/oauth_pg.go:40`, "must not delete a client out from under its own
  login"). `OaEnabledFindsChain`: a rotation that fails after it has spent its row,
  or finds the account disabled by then, leaves a live token with no refresh
  token (`relay/oauth.go:867`, against 810).
- `EmNewestWorks`: marking a mail as sent expires every other link of the identity,
  newer ones included, so that the older of two mails marked last wins
  (`relay/contact.go:499`).
- `AmOneClickWins`: the row lock of `CreateAccessRequest` is on the latest request;
  for an account without one there is nothing to lock, and two clicks file two
  (`relay/access.go:318`).
- `FrSharesGo`: `RemoveDevice` ignores the errors of the deletes that follow
  (`relay/admin.go:1206`), and the caller says "its shares went with it" (525).
- The settings of a webhook are read, changed and written back without a lock
  (`relay/notify.go:206`): of two changes at once one is lost.
- `LetThroughOnce` excepts two kinds of request. One was answered elsewhere in the last
  seconds of its wait, which the code accepts in its own comment
  (`portal/phonewatch.go:34`). The other was answered elsewhere before, and the portal
  had not learned it when they began (`Unlearned`): the news was on its way, or a tap on
  its card was being carried out. `settle` and `apply` judge by when the portal learns
  that the request is gone (`portal/phonewatch.go:562`, 712) and take it for expired: a
  late grant beside an answer.
- A resident watch subscribes without an initial state (`portal/approvalwatch.go:83`):
  a request that is waiting when the watch begins is seen at the next change.
- `LkResultStays`: a watcher that finds no record of the card's action updates it
  (`portal/larkwatch.go:811`), over the result that the tap has written.
- `SuResumes`, in `CatchesUp`, excepts a device that registers between a watcher's failed
  dial and the record of its stop, or that is removed and registers again before the
  removal was noticed (`SuExcepted`): it is not seen to register afterwards, and stays
  unwatched until something else starts a watcher (`portal/larkwatch.go:496`, 639).
- `hasStoppedWatcher` reads `health` under `mu`, `recordHealth` writes it under
  `healthMu` (`portal/larkwatch.go:386`, 436): a data race.
- `dropConn` (`portal/portal.go:1624`) drops what the table holds for the device, which
  may be the connection of a dial made since.
- `WpFresh`: a poll that joins a round under way gets what the round has read before
  the owner's answer, the stale entry that `portal/pending.go:78` rules out.
- `HsOthersUnharmed`: a cancel between the last look at the context and the end of
  `exchange` closes the connection and leaves it in the link, where the next
  request fails on it (`client/workspace_link.go:93`, against 66).
- A hosted session that the sweep takes out of the table is ended after the table's
  lock is let go (`mcp/hostedsessions.go:104`); `admit` takes back a session that it does
  not know, and one that comes back in between is ended with the old.

## 8. What is not modelled

Within the modelled parts:

- *Unnumbered writes and unacknowledged reads* of older ends, and the
  in-process reader of a bridge (`pollDrain`), which lose bytes by design when an
  answer is lost.
- *Limits* on sessions and devices per namespace.
- *A share that loses only its management right*, and how a delegated
  credential is found to be invalid: any lease may end at any time, which
  covers it.
- *Removal under `DownChannel`'s properties*: `NothingLost` says nothing of a
  freed queue; the window part of `tunnel` has that case for `WindowHasNext`.
- *The WebSocket registry* of `handleAgent`.
- *Conversions*: the shell parser of `policy` (a command is simple or it is not),
  PKCE and redirect comparisons, message and card formats, encodings of output
  (one byte is one character in `OutputPages`).
- *Enrollment codes*, listings, audit rows.
- *Single requests that pass through*: the portal's handlers that forward one RPC, the
  client's calls that make one request, the subcommands of `main.go`.
- *Interaction between the parts of a run.* The parts are checked one at a time. The
  places where they meet in one state (session table, lease, registration) are
  left to the composition of the plan.

Left out for good: copying between sockets, listings and globbing, Android
control and elevation, OpenCU's own code, the operating system's windows and
input (calls succeed, fail or hang), certificates and TLS, signatures (taken as
checked), unit files, configuration read at start, the web pages. They are calls
to the operating system or to libraries, with little state of their own.
