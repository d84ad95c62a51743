# muximo in TLA+

muximo is a mobile control room for coding agents that run inside tmux. A
daemon, `muximod`, serves a phone (a web client) the panes of the host's tmux:
a terminal over a WebSocket, an inventory of panes and agent sessions over RPC,
events over server-sent events. The CLI `muximo` starts agents in tmux panes and
talks to the daemon over a Unix socket. This directory models the parts of it
where several actors meet: phones, networks, desktops, tmux, processes.

## 1. Inventory

| component | source | state it keeps | operations | what makes it hard |
|---|---|---|---|---|
| terminal sessions, registry | `packages/muximod/src/http/terminal-session.ts` | session state, transport, lease and its owner intent, PTY, resume timer, gap buffer | attach, resume, evict, claim, resize, detach, park, expire, exit, output | nine await points in handlers that interleave on one thread; sockets that close, resume and report backpressure at any of them |
| viewport manager | `packages/infrastructure/src/terminal/viewport-manager.ts`, window commands of `tmux.ts` | one lease record per window: snapshot, owner, saved client flags, latest desktop, suppression window | prepare, attach, claim, resize, return, release; hooks; poll; dispose | two parties change one tmux window; commands fail half way; tmux reports its own side effects as user input |
| agent session executions | `packages/application/src/usecases/agent-sessions/*`, `agents/attach-agent-session.ts`, `infrastructure/src/persistence/repositories/sqlite/agent-session.ts` | a database row per session, receipts, in-memory sets of what is preparing, recovering, completing | prepare, attach, complete, recover, resume, cleanup | long handlers over a row others update; crashes of the daemon or of the agent between any two steps |
| control socket | `packages/muximod/src/control.ts` | per connection FIFO, pending count, pairing owners | request, abort, close, notify | a close that overtakes a request which another party depends on |
| server start and stop | `packages/muximod/src/server.ts` | listeners, registries, monitors | start, stop | a daemon that still closes while its successor starts; shutdown against sessions still attaching |
| daemon lifecycle | `application/src/usecases/daemon/*`, `muximod/src/launch.ts`, `process-files.ts` | pid record, launch record, restart marker | ensure, start, stop, restart, status | no lock: CLIs and daemons race on files, a port and signals |
| authentication and pairing | `application/src/usecases/auth/*`, `infrastructure/src/persistence/repositories/sqlite/auth.ts`, `auth/flow-store-memory.ts` | pairings, devices, sessions, challenges, tickets, connections | claim, approve, reject, challenge, session, ticket, revoke | expiry against use; revocation against live connections |
| SQLite transactions | `infrastructure/src/persistence/transaction.ts` | FIFO mutex, transaction owner | run, retry | re-entrance and busy retries |
| event hub, tmux monitor, invalidation | `muximod/src/events.ts`, `terminal/tmux-state.ts`, `apps/web/src/app/api/muximod-event-coordinator.ts` | latest pending event, last snapshot, generation of the stream | publish, subscribe, diff, reconnect, invalidate | events are lossy and carry no data: a page that is old must be owed a fetch |
| pane inventory | `usecases/terminals/reconcile-panes.ts`, `domain/src/pane.ts` | pane rows, tmux metadata | reconcile, publish, adopt, release | find-then-upsert across awaits |
| web proxy socket | `muximod/src/http/ws-terminal.ts`, `web-proxy.ts` | pending frames (1 MiB) | open, send, close | bounded buffer before the upstream opens |
| web client connection | `apps/web/src/routes/.../-terminal/viewmodel.ts` | attempt generation, socket, status, resume credentials, input queue | connect, retry, resume, fall back, detach, pause | timers, awaited requests and events of sockets that were given up |
| agent backends: OpenCode servers | `infrastructure/src/agents/opencode/server.ts` | the registry file, its lock and a second one to take over the first; detached servers | ensure, take and release the lock, reclaim it | processes that share files and die with them; servers that outlive whoever started them |
| provider monitors, other backends, CLI, workspaces, contract, views, iOS | see `PROJECT.json` | mostly none | | I/O and translation |

`PROJECT.json` lists every component with its status, and the hazards with their
lines and the properties aimed at them. Of the parts that are not modelled it
names the gravest.

How they interact. A WebSocket accepted by `server.ts:526` becomes a
`TerminalSession`; its attach frame makes it call `prepare` on the viewport
manager, spawn a PTY that runs `tmux attach`, and call `attach` on the prepared
lease. tmux hooks reach the viewport manager through an HTTP endpoint of the
daemon, its poll runs every 250 ms. The CLI prepares an agent session over the
control socket, starts the agent itself, attaches its pid and completes the
execution when it ends. Both meet in tmux and in the pane inventory, whose
changes the event hub announces to phones. `muximo pair` gives a browser its
device; the browser's view model then opens one terminal socket at a time. All of
that needs a daemon, which the commands of the CLI start and stop. Daemons of one
state root share the OpenCode servers that they start and leave running.

| module | models | theorems in |
|---|---|---|
| `TerminalSession` (`ViewportLease`) | the daemon's end of terminal sockets | `TerminalSessionProofs` |
| `ViewportManager` (`ViewportLease`) | the window they share with desktops | `ViewportManagerProofs` |
| `AgentSession` | a session name and its executions | `AgentSessionProofs` |
| `DaemonLifecycle` | daemons and the commands that start and stop them | `DaemonLifecycleProofs` |
| `EventDelivery` | how a change in tmux reaches the pages of a client | `EventDeliveryProofs` |
| `Pairing` | how a browser becomes a device | `PairingProofs` |
| `WebConnection` | the client's end of the terminal sockets | `WebConnectionProofs` |
| `OpenCodeRegistry` | the registry of OpenCode servers that daemons share | `OpenCodeRegistryProofs` |

The type invariant `TypeOK` of a module with proofs is not part of its run: TLC
found no error in it, and `TypeCorrectness` proves it. (The exception is
`ViewportFailures`, whose question is what a handler leaves that stops half way.)

Every safety invariant, every action property and both refinements of the
passing runs are theorems, for every value of the constants. Only model-checked
are the liveness properties, since the proof system has neither fairness nor
`ENABLED`: `AbandonedIsReleased`, `AttachSettles`, `DesktopFollowed`,
`FailedStartEnds`, `PagesConverge`, `ClaimReachesUser`, `Connected` and
`DeadLocksGo`. What the two runs that expect a violation find has no proof
either.

## 2. Terminal sessions: `TerminalSession.tla`

One `TerminalSession` is built per socket, so sessions are named by sockets. The
program is one JavaScript thread: an action is what one handler does between two
awaits, and a handler that waits is a program counter.

| variables | code |
|---|---|
| `sock`, `bound`, `last` | `readyState` of a socket, `socket` of the session, the transport of the current `transportGeneration` |
| `st` | `state`; `disposed` is `st = "closed"` |
| `attach`, `resuming`, `queue`, `awaited` | where `handleAttach`, `attachFresh`, `resumeSocket`, `releaseParkedForAttach` wait |
| `claim`, `claimOf` | where `claimMobileForInput` waits, and on which session |
| `parking` | `handleTransportClosed` during `returnViewportToDesktop` |
| `finalizing`, `timer`, `pty`, `registry` | `finalizeTransport` / `stopRuntime`, `resumeTimer`, `pty`, the registry map |
| `lease`, `record`, `owner`, `intent`, `marker` | the field `lease`, the manager's record and its owner, `leaseOwnerIntent`, the claim behind the current `leaseMutationGeneration` |
| `kept` | history: sessions whose last `returnToDesktop` left the window with the phone |
| `gap`, `gapFull`, `overflowed`, `ready`, `known`, `redraw`, `stale` | `parkedOutput`, whether it holds a full repaint, `parkedOutputOverflowed`, the ready frame, the client's resume token, a repaint tmux owes, and what the client's screen misses |

Calls on the lease take effect when they are made, because `viewport-manager.ts`
runs them to their end before their promise exists. `claimMobile` is the
exception: the session's own tests hold it pending, so it takes effect at any time
before it returns. `lease.refresh` is treated as immediate. A call of
`returnToDesktop` (`HandsBack`) may find that tmux refuses to restore the window:
the manager logs that and returns with the phone still the owner
(`viewport-manager.ts:592-602`), and the session goes on as if it had worked. The
transport generation is represented by `last`, the lease generation by `marker`:
the code only compares them for equality. Data (output, geometry, tokens) is
abstracted to what the properties tell apart: the number of chunks in the gap
buffer and whether one of them redraws the screen.

`ViewportLease.tla` states what the viewport port promises of a window whoever
uses it. The property `LeaseSpec` is its specification under a refinement
mapping that reads the holder, liveness and owner of each window off the lease
records of the sessions.

### Runs

Both runs use two sockets of one device: one is enough to be replaced, resumed or
evicted by the other. A claim that must survive a resume by a second socket and
its replacement by a third needs three; what that could break (`IntentHonoured`,
`ParkedHandsBack`) is proved for any number. `Events` names what the environment
may do in an instance, so that each run pays only for the interleavings its
question is about. The number of sockets bounds every run; sockets never reopen,
so the system stops when they are used up and deadlock is not checked.

| run | instance | shows |
|---|---|---|
| `TerminalRelease` | 2 panes of one window; claims, desktop takeover, failures, every way to end but output | `IntentHonoured`, `ParkedHandsBack`, `ServedIsBound`: late claims do not keep the window and parked sessions give it back, unless tmux refused when they last tried (`kept`); a replaced client is told; `NothingIsLeftBehind`: a session that closed gave up everything, a parked one has a way to end; and `LeaseSpec`, the refinement of `ViewportLease` |
| `TerminalRecovery` | 1 pane, a gap of 1 chunk, under `FairSpec`; output, backpressure, dropped frames, exit, failures | `NoSilentGap`: output the client misses is owed to it; `AbandonedIsReleased`, `AttachSettles` |

`GapMax` is the one other bound: a gap of one chunk already distinguishes empty,
full and overflowed.

Fairness (`Fairness` in the module): promises settle, timers fire and close
events are delivered, per socket. Nothing is assumed of clients, networks or
desktops, nor of shells, except that a PTY ends once its tmux session was killed.

### Proofs: `TerminalSessionProofs.tla`

For any number of sockets, panes, windows and devices, from the assumptions
named in `TerminalSession.tla` (of which the proofs use `GapAssumption` and
`NoneAssumption`):

* `TypeCorrectness`: `Spec => []TypeOK`;
* `IntentIsHonoured`: `Spec => []IntentHonoured`;
* `ParkedHandsBackAlways`: `Spec => []ParkedHandsBack`;
* `OnlyARefusalKeepsTheWindow`: `Spec => []HonouredUnlessRefused`, which says that
  the exception of both, `kept`, is met only where commands may fail;
* `NothingStaysBehind`: `Spec => []NothingIsLeftBehind`;
* `ServedIsAlwaysBound`: `Spec => []ServedIsBound`;
* `NoGapIsSilent`: `Spec => []NoSilentGap`;
* `SessionsImplementLease`: `Spec => LeaseSpec`.

`IntentHonoured` is not inductive: a claim that returns to a socket that is still
current leaves the owner as it is, so at that moment the intent must be the
claim's own. `IInv` adds that (`ClaimIsLast`) and what it rests on: nobody else
can mark a session while its socket stays current, because a socket is bound
only to its own session or to the one it resumed (`BoundToResumed`,
`OwnUntilGrown`, `TickIsQuiet`, `ClaimOfResumed`), leases, claims and resumes
belong to sessions whose attach is through (`LeaseIsGrown`, `ClaimIsGrown`,
`ResumeIsGrown`), and sessions before that have no intent (`NoIntentYet`). A
parked session without a socket always means the desktop
(`ParkedMeansDesktop`).

The other four need `SInv`, which adds four groups to `IInv`:

* `Holding`: at which stage of an attach a session may have a state, a lease
  record, a lease and a place in the registry; who has a record without being
  closed also has the means to release it. With it a closed session has nothing.
* `Hearing`: a socket that a session is bound to is the transport of its current
  generation (`BoundIsLast`), a handler that parks a session does so for a socket
  that has closed, and ready frames are of grown sessions; with `ServedIsBound`
  and `ParkedHasExit` themselves.
* `Owing`: an attached session is the only one on its socket and its output
  arrives, unless no client holds a ready frame of it or waits for one
  (`Unheard`); what a screen misses is owed to it, with the same exception.
  `NoSilentGap` speaks only of clients that hold a ready frame, and is not
  inductive: while an attach or a resume is on its way to that frame, the
  repaint must already be due.
* `WindowExclusive`: a window has one session with a record at most, since
  `prepare` refuses a window that has one. The refinement rests on it: `HolderOf`
  is a choice among the holders of a window, which is determined when there is
  only one, and then a step that changes one record moves one window.

TLC checked `IInv` and `SInv` on instances of two sockets (`IInv` of three)
before they were proved.

## 3. The viewport manager: `ViewportManager.tla`

`TerminalSession` relies on the manager; this module is the manager itself, for
one window. Its handlers never wait (the tmux adapter calls `spawnSync`), so
one handler is one action, except that `prepare` and `attach` are two with
`waitForClient` between them. A handler is a sequence of tmux commands
(`Resize`, `Layout`, `Select`, `Zoom`, ...); `Ends` gives every way the sequence
may end when one of them throws, and the action stops with the prefix done, as the
code does unless it catches.

| variables | code |
|---|---|
| `win`, `panes`, `client` | the tmux window and the desktop clients, external; `Apply` states what a command does to them, from how the code uses it |
| `lease` | `LeaseRecord`: `stage` is `mobileClient`/`session`, `snap` the snapshot, `owner`, `mobile` the phone's size, `latest` is `latestDesktop`, `saved` the flags taken from the clients, `seen` the last window observed, `quiet` the 250 ms after a command |
| `disposed` | `disposed` |
| `failures` | counts commands that failed, bounded by `MaxFailures` |

| actions | code |
|---|---|
| `Prepare`, `Attach`, `ClaimMobile`, `ResizeMobile`, `ReturnToDesktop`, `Release` | the methods of the port and of its lease |
| `Hook` | `handleTmuxHook`; `advanced` says whether the client's activity counter moved |
| `Reassert`, `Poll` | the two halves of the 250 ms poll (679-730) |
| `QuietEnds` | the end of the suppression interval |
| `DesktopMoves`, `DesktopFocus`, `DesktopResizes`, `UserReshapes`, `PaneCloses`, `Follow` | users and tmux: no code of this repository |

### Runs

Two panes and two sizes: takeover compares one size with another, and restoring
compares the phone's pane with the user's. `Events` again bounds what an instance
exercises.

| run | instance | shows |
|---|---|---|
| `ViewportFollowing` | 1 desktop that rearranges, resizes and takes over, under `FairSpec`; no failures | `HandedBack`, `OwnerSized`, `DesktopLayoutStays`, `DesktopFollowed` (the poll alone suffices when hooks are lost) |
| `ViewportFailures` | one failing command anywhere, panes close, clients move, shutdown | `TypeOK`, `LeaseSpec`: the manager implements `ViewportLease` |
| `ViewportPolicy` | attach, takeover, claim, release | expected violation of `PolicyRestored` |

In `ViewportFollowing` the user has zoomed a pane, so that the conjunct of
`HandedBack` about the zoom says nothing there; the theorem speaks of both cases.

Fairness: the interval timer of the poll keeps firing (`WF(Poll)`) and time passes
(`WF(QuietEnds)`). Nothing is assumed of users, hooks or tmux.

### Proofs: `ViewportManagerProofs.tla`

For any panes, shapes, sizes, desktop clients, options of the user and events,
from the assumptions of `ViewportManager.tla` (`NoneAssumption`: nothing is not a
lease, a view or a size; the others say what the constants are). For any number
of commands that fail, wherever they do:

* `TypeCorrectness`: `Spec => []TypeOK`;
* `DesktopIsAuthoritative`: `Spec => DesktopLayoutStays`;
* `ManagerImplementsLease`: `Spec => LeaseSpec`.

All three are read off one fact of every handler, `Proper`: it keeps the types,
moves the lease as `ViewportLease` allows, and leaves layout, active pane and zoom
alone when the desktop has the window before and after. A handler has as many
ends as its commands have places to fail. What they have in common is shown once:
`StagesKeep` says, by induction on their number, that what every command keeps the
commands of a handler keep; so all ends keep the types (`EndsKeep`), and those of
commands that only set size and options the view as well (`EndsOutside`).

While nothing fails (`NothingFails`: `MaxFailures = 0` and no pane closes):

* `BorrowedGoesBack`: `NothingFails /\ Spec => []HandedBack`;
* `PhoneHasItsSize`: `NothingFails /\ Spec => []PhoneSized`;
* `OwnerHasItsSize`: `NothingFails /\ "move" \notin Events /\ Spec => []OwnerSized`.

The hypotheses are those of the run `ViewportFollowing` and are not for
convenience: the code makes its best effort only. A release that fails half way
is over (`viewport-manager.ts:629-632`), the flags of a client that could not be
reset are forgotten (787-797), and section 10 says what `move` does to
`DesktopSized`. In the model a command that *can* fail already leaves some
reads undetermined (`Protected`, `Remembered`), so the hypothesis is about
`MaxFailures` and not about the counter.

Without failures a sequence of commands has a single end (`Run`), and the
properties need the invariant `Handing`. `Good` says of a lease what it has to
give back: the snapshot it would restore has its user's mouse and zoom (it was
taken from a window in that state, since the phone takes a window only from
nobody or from the desktop), the saved flags are exactly what the clients have
lost (`Kept`), and what the phone or the desktop has now is what the last hand-over
left. `HandedBack` says only what is true once the window is back; without the
snapshot and the flags it is not inductive. TLC checked `Handing` first, also with
clients that move and with a shutdown.

These lemmas need induction: the commands of a handler and the clients of a window
have no bound. The induction theorems of the library take the predicate as a
parameter, which the provers cannot instantiate; `SetInduction` states it of a
*set* of numbers and follows from the library's theorem that every nonempty set
has a minimal element under a well-founded relation.

### Finding

* `ViewportPolicy`: a claim after a takeover snapshots the `manual` size option
  that the takeover itself set, so releasing restores `manual` and the user's
  window no longer follows its clients, against the comment at
  `viewport-manager.ts:64-66`.

## 4. Agent sessions: `AgentSession.tla`

One session name of one workspace: its row in SQLite and the commands that use
it. A call `i` is one CLI process; execution id, pid of the command, pid of its
provider and (for a run) the id of the inserted row are all named `i`, since each
call makes one of each. SQLite, git and process observation are synchronous, so
the code between two genuine waits (hooks, provider backends, tmux) is one action:
in particular, looking a row up, observing its processes and claiming it are one
step, because `observeProcessLiveness` calls `ps` synchronously.

| variables | code |
|---|---|
| `row` | the row: `status` (`starting` stands for starting, setup, ready; `exited` also for interrupted), `exec` for `executionId` with owner pid and start times, `pid` for `executionPid`. `setup_failed` is always overwritten by `cleanupFailedStartup` before anybody else runs |
| `receipts` | `agent_execution_receipts` |
| `handler`, `loc` | where `prepare`, `completeOnce` or `removeResources` of a call waits, and the record it holds; `preparing`, `recovering`, `completions` are read off them |
| `cli`, `provider`, `attach` | `compose.ts`: how far the command is, whether its child runs, its attach request |
| `crashes` | bounded by `MaxCrashes` |

`Updated` and `Deleted` write by id alone and put back the whole record a handler
read before its wait, as `sqlite/agent-session.ts:53-56,199-201` do: this is what
most of the properties are about. Claims (`RunClaimsAbandoned`, `ResumeClaims`,
`AttachAdmits`) are conditional. Hooks and backends only end or fail.

| run | instance | shows |
|---|---|---|
| `AgentOwnership` | 3 calls of any kind, 1 daemon crash, symmetry | `RunIsUndisturbed` (the row of a run that lives stays its own, and its completion is accepted), `PreparationKeepsItsRow`, `PidIsOfExecution`, `RunFinalizedAlone`, `NameIsNotBlockedByFailures` |
| `AgentRecovering` | 2 calls, 1 crash | expected violation of `NameIsNotBlocked` |

Three calls are enough for an execution, one that recovers or resumes it and one
that interferes. Calls run out, so deadlock is not checked.

Finding (`AgentRecovering`): the comment at `run-session.ts:229-231` knows that a
record left in `recovering` blocks its name for ever, and the code guards against
a cancelled caller; a daemon that dies between the claim and the end of the
recovery leaves exactly that, and nothing at startup repairs it.

### Proofs: `AgentSessionProofs.tla`

For any number of calls and any number of daemon crashes, from the three
assumptions of `AgentSession.tla` (`CallsAssumption`: calls are finitely many and
not `None`; `NoneAssumption`: nor is a row; `MaxCrashesAssumption`: the bound is a
natural number):

* `TypeCorrectness`: `Spec => []TypeOK`;
* `RunsOwnTheirNames`: `Spec => []RunKeepsItsRow`;
* `ReportsAreAccepted`: `Spec => []RunCanComplete`;
* `RunsAreUndisturbed`: both, `Spec => []RunIsUndisturbed`;
* `PreparationsAreLeftAlone`: `Spec => []PreparationKeepsItsRow`;
* `PidsStayWithExecutions`: `Spec => []PidIsOfExecution`;
* `RunsAreFinalizedAlone`: `Spec => []RunFinalizedAlone`;
* `FailuresBlockNoName`: `Spec => []NameIsNotBlockedByFailures`.

The properties are not inductive. Handlers write whole
records by id, so it is not enough that the row is right: no *other* handler may
hold a record of the same row to put back. `HeldIsKept` says both of a run from
its insertion to its first report (`Held`): its row is its own, in a status that
no guard of another call accepts (`RowIsKept`), and nobody else holds a record
with its id (`NoRivalRecord`). Its step is the heart of the proof: every claim is
refused because the owner or the provider that the row names is alive, and every
blind write is of another id. It rests on what a handler knows of its own call
(`HoldsRecord`, `Stages`, `OwnRecord`), on ids being fresh when a row is inserted
(`IdsAreInserted`), and on pids and executions staying paired in the records that
wait in handlers (`RecordsPair`). `RunFinalizedAlone` adds that only a recovery
that has just claimed holds a record that says `recovering`
(`RecoveringIsRecovery`). `NameIsNotBlockedByFailures` adds that whoever marked
the row as recovering is still there to take the mark back as long as the daemon
has not died (`RecoveryGoesOn`; the crash is the one step that breaks it, which
`AgentRecovering` shows), and that an execution is of a call that has begun, so
that a command which nobody can find any more is known to be dead
(`ExecutionsBegan`). TLC checked `IInv` on the instance of `AgentOwnership` first.

## 5. The daemon and its commands: `DaemonLifecycle.tla`

Nothing but files, a TCP port and signals is shared between the commands of the
CLI and the daemons, and no lock guards them. Commands and daemons are processes;
a command starts at most one daemon, which therefore bears its name, and `Old` is
the daemon of an earlier day: it still serves, was killed with its files left
behind, or never was (`Init`).

| variables | code |
|---|---|
| `kind`, `pc`, `seen`, `healthy` | what a command is, where it waits, the pid record it read, what its probe of `/health` was told |
| `phase`, `signalled`, `killed` | how far `runMuximod`, `server.start` or `server.stop` is in a daemon; SIGTERM; SIGKILL, a crash or a reboot |
| `port`, `listening`, `path` | who has the HTTP port, whose control server listens, whose listener the control socket file leads to |
| `rec`, `launch`, `marker` | the daemon named by the pid record and by the launch record, the command that wrote the restart marker |
| `interrupted`, `overlapped`, `crossed` | history: commands stopped half way; daemons that listened while another was still to remove the socket file; daemons that published their record while somebody was about to unlink an earlier one |

| actions | code |
|---|---|
| `Begin`, `Probe` | the first reads of each use case; `isHealthy`, `isProcessHealthy` |
| `EnsureDecides`, `StopDecides`, `StatusDecides` | what each use case makes of them |
| `StopReturns`, `StopTimesOut` | `waitFor` after SIGTERM |
| `StartReturns`, `StartExits`, `StartTimesOut` | `waitForHealthyOrExit` |
| `Clear`, `Erase`, `Tidy`, `Sweep` | `removePidRecord` in a command: read the pid record, unlink it, the same for the launch record |
| `Bind`, `ControlProbe`, `ControlListen`, `Restore`, `Publish`, `StartFails` | `server.start` and the end of `runMuximod`'s start, and how it fails |
| `Shutdown`, `Unlink`, `Drained`, `Erased`, `Tidied`, `Swept`, `Exit` | `server.stop` and the end of `runMuximod`, which removes both records in the same four steps |
| `DiesBooting`, `Kill`, `Interrupt` | signals |

`DaemonCommands` runs two commands of any kind beside `Old`, with one daemon
killed outright at any time: a command acts on what it read while the other
starts or stops something. Removing a record is two steps, as in
`process-files.ts:14-22`: the record is read and compared, then whatever lies at
the path is unlinked, and any process may write another one in between. Two pairs
of steps are still one: the start of a child and the write of its launch record
(`launch.ts:535` and `543`), and reading the pid record for a probe and sending
it. A pid is not given out twice.

* `ServingIsFound`: the daemon that serves is the one in the pid record
  (`ServingIsRecorded`), although losers of the port, stopping commands and
  `status` all remove records, and the control socket file leads to it
  (`ServingIsReachable`). The two exceptions are real. `overlapped`: the old daemon
  gives up the port before it removes the socket file (`server.ts:647`,
  `control.ts:172`), so a daemon that starts in between has its own file removed
  and can be reached over HTTP only. `crossed`: a `stop`, a `status` or a dying
  daemon reads a stale record, a new daemon publishes its own, and that one is
  unlinked (`process-files.ts:15` and `18`). Without either TLC finds the trace.
* `MarkerIsPending`: a marker is left over only while nobody serves who could be
  found. A serving daemon without a record (`crossed`) is not found by a restart
  either: its child loses the port, and its marker stays.
* `ExitLeavesNoRecord`: a daemon that ended in its own time left no record.
* `FailedStartEnds` (liveness): a start that was reported as failed leaves no
  daemon for long.

Fairness: processes run, and deadlines pass when nothing else ends a wait.

`stop-daemon.ts:11` has a case for a daemon that is healthy without a pid record.
It is in `StopDecides`, but it is hardly ever met: `isHealthy` (`launch.ts:573`)
itself needs a record.

**Proofs** (`DaemonLifecycleProofs`), for any number of commands and kills:
`TypeCorrectness`, `RecordedWhileServing`, `ReachableWhileServing` and, of both,
`FoundWhileServing`, `MarkerWaits`, `ExitIsClean`. The first two properties hang
together through the port: whoever is past `Bind` holds it until it has given up
serving, so nobody else publishes in between; a record is read for removal only by
its own daemon or after that daemon was seen dead (`SeenInv`), and whoever serves
and is not in `crossed` has published when nobody was past that reading, so that
nobody's unlink can meet its record (`RecordInv`). Left to TLC: `FailedStartEnds`.

## 6. Events and the pages they refresh: `EventDelivery.tla`

The daemon polls tmux, compares with the last snapshot and publishes an event per
changed session; a subscriber has room for one event that it has not read. A web
client shares one event stream among its views and fetches again whatever an
event or a new stream invalidates. Events carry no data and may be lost, so the
question is whether a page that shows something old is always owed a fetch.

| variables | code |
|---|---|
| `tmux`, `servers`, `changes` | tmux and its users, external; a new server has new pane ids |
| `baseline`, `synced` | `previous` and `lastSuccessfulLiveFingerprint` of `TmuxStateMonitor` |
| `sub`, `pending` | subscribers of the hub; events that a client has not got. Which events were read before the next one replaced them is left open |
| `phase`, `live`, `timer`, `refused`, `viewers` | `connect()` of the coordinator per stream, its generation, its timer, an error after which it gives up, its subscribers |
| `page` | a TanStack query per session: its fetch, the answer on the way, what it shows, and whether either may be wrong without anybody knowing |
| `troubles` | bounds failures, restarts and mounts |

| actions | code |
|---|---|
| `Poll`, `PollFindsNone`, `Restart` | `reconcile` of the monitor and its first call |
| `Subscribes`, `Answer` | the RPC handlers |
| `View`, `Leave`, `OpenReturns`, `StreamEnds`, `TimerFires`, `Closed`, `Deliver` | `muximod-event-coordinator.ts` |
| `Arrive`, `FetchFails` | the query library; `Invalidated` is what an invalidation does, a query's first fetch being left to run |
| `PanesChange`, `AgentMoves`, `ServerExits`, `ServerStarts` | tmux |

The reads of tmux and the writes to SQLite are synchronous behind their promises,
so one `reconcile` is one action.

`EventPages`: two sessions (an event names one of them), an agent in one, two
contents, two streams (of two generations), and two changes, two troubles and two
views at a time. Two changes are needed to undo one; two troubles to lose a stream
and then the next.

* `RefreshIsOwed`: a page that shows something old while somebody looks is being
  fetched, or the monitor will see the difference, or the news is on its way.
* `OneStream`: the views share one stream, and what is left of earlier
  generations never reaches the pages.
* `PagesConverge` (liveness): once all is quiet, every page shows what tmux shows.

`Unannounced` lists what no event announces; TLC finds a counterexample when any
of the three is dropped:

1. the last tmux server going away: `tmux-state.ts:102` returns before the
   comparison that its comment (134-136) speaks of;
2. a state that a page read but the monitor never compared: it was undone before
   the next poll, or it was read while the monitor had nothing to compare with
   (118-120);
3. an event during a page's very first fetch.

Views that set `refetchInterval` (3 or 5 s) repair these by themselves. Streams
that are half open, heartbeats and the hub's cleanup are not modelled.

Fairness: the monitor's interval and the reconnection timer fire, and requests,
answers and events that do not fail arrive.

**Proofs** (`EventDeliveryProofs`), for any number of sessions, streams, views,
changes and troubles: `TypeCorrectness`, `ViewsShareAStream`,
`PagesAreToldOfChanges`. `RefreshIsOwed` compares a page with tmux, which changes
under it; the invariant `OwedInv` compares it with the monitor's baseline: where
the two differ, the news is on its way. Left to TLC: `PagesConverge`.

## 7. Pairing: `Pairing.tla`

`muximo pair` asks the daemon for a pairing, shows its code, waits for the claim
of a browser that scanned it, asks its user about the claim's fingerprint and
answers. A CLI makes one pairing and has one request under way, so pairings bear
the names of CLIs.

| variables | code |
|---|---|
| `run`, `up` | the daemon, stopped and started up to `MaxStops` times |
| `row`, `device` | `auth_pairings` and the key registered from it; `live` says that its time has not run out |
| `clients`, `owners`, `creating` | open sockets of `MuximodControlServer`, `pairingOwners`, `create_pairing` waiting for the store |
| `request`, `response`, `claims` | the wire; `claims` as far as `pendingClaims` of the client |
| `cli`, `asked`, `confirmed`, `shown` | `PairDevice.execute` and its user |
| `browser` | `pairBrowserFromQr` |

`create_pairing` is two steps because its port is asynchronous, although today's
SQLite answers at once. A socket that times out, an interrupted CLI and a page
that cannot be opened are all `Fails`; the daemon reads what a CLI wrote before it
notices that it is gone. What `claimPairing` and `approvePairing` find overdue they
mark expired inside a transaction, and the throw that follows rolls the mark back.
The poll of a browser has no transaction (`auth.ts:136`, `339-353`): it marks an
overdue claim `expired` for good, and the user who answers after that gets an
error instead of a rejection. The run contains both orders.

`PairingClaims` has two CLIs, two browsers and one stop: two browsers scan one
code, one browser the code of each CLI.

* `RegisteredIsConfirmed`: a device gets the key whose fingerprint the user of
  that CLI said yes to.
* `PendingIsOwned`: somebody can answer for every pending pairing of the daemon
  that runs. Those of an earlier run stay pending: `stop` forgets the owners
  before it closes their sockets, so a browser may claim one and waits until it
  expires.
* `RejectedByItsOwner`: the end of one CLI rejects nobody else's pairing.
* `EndsAgree`: a browser that stored its key, or a CLI that printed "Approved",
  finds the device registered; "rejected" leaves none. The converse does not
  hold: the token of a claim expires with it although the claim was approved, and
  the browser then gives up a key that is registered.
* `ClaimReachesUser` (liveness): the user is asked about a claim, or the pairing
  is settled, unless the daemon stops.

Fairness: the daemon and the CLIs act on what they have read. No user has to
answer, no browser to claim, no time to pass.

**Proofs** (`PairingProofs`), for any number of CLIs, browsers and stops: type
correctness and the four invariants. The invariant says at which stage of a CLI
its request, response, row and owner can be (`StageInv`), that a claim waits only
where its row names it (`ClaimInv`), what a waiting browser knows (`WaitInv`), and
that rows are of this or an earlier run (`RunInv`). Left to TLC:
`ClaimReachesUser`.

## 8. The web client's connection: `WebConnection.tla`

The other end of the sockets of `TerminalSession`: the view model that keeps one
WebSocket for the pane on the screen. Each callback runs to its end; an aborted
ticket request settles in the same step, and only the wait for the detach of the
pane left before cannot be aborted.

| variables | code |
|---|---|
| `app`, `mounted`, `target` | `appStateRef`, the effect that owns the terminal, the pane on the screen, if its data is there |
| `closed`, `ready`, `status`, `current`, `input` | `terminalClosedRef`, `terminalReadyRef`, the status shown, `socketRef`, what `socketInputQueueRef` is attached to |
| `attempt`, `retry` | `connect()`: `connectInFlight`, what it awaits, whether it is out of date; `retryScheduledRef` |
| `pending` | `pendingDetachRef`, once no attempt follows that awaits it |
| `resume`, `kept`, `paste` | `resumeRef`, the `terminalResumeStore`, the binding of a paste that is being read |
| `sock` | WebSockets, their wires, the daemon's end, `detachSocketAndWait` (`leaving`) and the handshake timer; a name stands for one socket at a time |
| `left`, `stranded`, `faults` | history, and the bound on what goes wrong |

| actions | code |
|---|---|
| `RetryFires`, `TicketArrives`, `TicketFails`, `Opens`, `TimesOut`, `ClosesAtLast` | `connect`, `scheduleReconnect`, `failHandshake` and the events of a socket |
| `OnReady`, `OnClosed`, `OnResumeNotFound`, `OnRefused`, `OnFailed`, `OnDetached`, `DetachTimesOut` | the messages of the daemon |
| `Show`, `Switch`, `Remount`, `Hide`, `Vanish` | the effect and its cleanup: with another pane, with the same one, with none and the session kept (the surface leaves the screen), with none and the session detached (the view stays, the data of its pane is gone) |
| `Background`, `Foreground`, `GoesOnline`, `PressReconnect`, `Detach` | the app, the network and the user; `Detach` is the view model's `detach`, to which no button is wired today |
| `AskPaste`, `PasteRead` | paste |
| `Answers`, `Fails`, `EndsSession`, `ClosesUnattached`, `ConnectionLost`, `FallsSilent` | the daemon and the network |

A socket that is closing is reduced to its close event, one that is left to its
`closed` message; timers fire only on a socket that fell silent.

A cleanup leaves the status as it was; only the effect that follows, if any, sets
it. A hook that stays awaits the promise of its last detach before it connects
again (`pending`), a hook that was discarded has lost it; `Show` has both.

`WebTerminal`: two panes, two sockets (one may linger while the next opens) and
one fault. There have to be more sockets than faults: a socket that falls silent
after its session ended is never closed and keeps its name, and a fault for each
would use the names up, which no browser does. The invariants were also checked
once with two faults (814 thousand states, with no error).

* `OneConnection`: an open socket is the view model's, or was told to detach, or
  its session has ended.
* `InputReachesItsPane`: keys go only to the socket that serves the pane shown
  (`KeysReachTheScreen`), and a paste reaches the connection it was asked on, or
  none (`PasteStays`).
* `ClosedStaysClosed`: after a detach nothing connects by itself.
* `StatusIsHonest`: of a terminal on the screen, "connected" is said only while
  the pane is served or a good connection is being replaced; "connecting" only
  while something is under way that will end.
* `Connected` (liveness): a pane that stays is served in the end, or the user is
  told that it is not. It is stated of whoever waits for ever: he changes panes
  for ever.

Fairness: timers fire, requests and handshakes end, messages that were sent are
read. No user has to do anything.

Where the properties bend to the code:

* `stranded`: a switch of panes followed by a trip to the background while the
  attempt still awaits the detach (at most 2 s). `connect` returns early
  (`viewmodel.ts:745`), the attempt that was awaiting is out of date (756), and
  nobody connects although the status says "connecting".
* The late close of a socket that was given up schedules a retry (1030) that
  `onReady` does not clear; it later tears down a good connection, while the
  status still says "connected" (the second disjunct of `ConnectedIsServed`).
* A `ready` that overtakes `detach()` sets `terminalClosedRef` back (931), and so
  does every new effect (658), the remount of the same pane included: both connect
  a terminal that the user had left. The variable `left` is reset in `OnReady` and
  in `Mounts`, so `ClosedStaysClosed` speaks of neither.
* When the data of a pane goes away (`-pane-board/viewmodel.ts:66-68`), the cleanup
  detaches and closes, while the view stays and goes on showing what it showed,
  "connected" included. `StatusIsHonest` asks for a terminal (`mounted`). There
  `reconnect()` has no `connect` to call: `PressReconnect` changes the status only.
* `OneConnection` holds in the face of the late retry above; that the retry costs a
  good connection is excepted in `StatusIsHonest`. An attempt that ends stranded is
  excepted in `StatusIsHonest` and in `Connected`.

**Proofs** (`WebConnectionProofs`), for any number of panes, sockets and faults:
type correctness and the four invariants, the second in its two parts. The
inductive invariant says what the sockets that were given up still are
(`SocketInv`), what the view model knows of its own (`CurrentInv`), what `ready`,
the input queue, `closed`, an unmounted view and a detach nobody awaits yet imply
(`ReadyInv`, `InputInv`, `ClosedInv`, `HiddenInv`, `PendingInv`). Left to TLC:
`Connected`.

## 9. The registry of OpenCode servers: `OpenCodeRegistry.tla`

`ensure()` reuses the OpenCode server that is recorded for a project root, or
starts one and leaves it running. The registry is a file that daemons share. It
is guarded by a lock file; the lock of a dead process is removed under a second
file, the barrier, and the barrier of a dead process by anybody. A call bears the
name of its process and of the server it starts. `Old` are calls of processes
that died before; `Init` has what they may have left.

| variables | code |
|---|---|
| `pc`, `root` | where a call is in `withFileLock`, `tryAcquireLock`, `tryReclaimStaleLock` or the operation of `ensure`; its `workspaceRoot` |
| `file`, `signed` | who created the lock and the barrier, and whether the record has been written (`readLockRecord` knows nobody before) |
| `registry`, `copy`, `port` | the registry file, the one a call read and changes, the port it starts a server on |
| `server` | the process it started, external: it binds its port or exits |
| `unmarked`, `unrecorded`, `usurped`, `crashes` | history: calls that could not write the barrier; calls that started a server and could not record it; a barrier in use was removed; the bound |

| actions | code |
|---|---|
| `Try`, `OpenLock`, `LockTaken`, `Sign`, `SignFails`, `Check`, `Back` | `tryAcquireLock` |
| `OpenBarrier`, `BarrierTaken`, `Mark`, `MarkFails`, `Look`, `UnlinkLock`, `Leave`, `Stale`, `UnlinkBarrier` | `tryReclaimStaleLock`, `removeLockIfUnchanged` |
| `Sleep`, `GiveUp`, `Release` | `withFileLock` |
| `ReadRegistry`, `Reuse`, `Forget`, `Allocate`, `Spawn`, `SpawnFails`, `Record`, `RecordFails`, `Ready`, `Throws` | the operation of `ensure` |
| `ErrorUnheard`, `Crash`, `Binds`, `ServerExits` | Node, the host, the server |

Each access to a file is a step, because other processes run between any two;
that a comparison and the unlink that follows it are two steps is the point of
the model.

`OpenCodeServers` has three calls, one of which died before, two roots (a write
puts back the entries of both), two ports and one more crash: two processes meet
over what a third left, and one of them dies over it too.

* `OneHolder`: one call at a time is past the lock.
* `LiveServersAreReferenced`: a server that lives is the one its root is recorded
  with once its call has written the registry, although calls time out, abort and
  die while it comes up, ports change hands and entries are written back whole.
* `FilesAreReleased`: a process that lives leaves no lock and no barrier behind.
* `DeadLocksGo` (liveness): the lock of a dead process goes if anybody keeps
  trying.

The exceptions in them are real, see `usurped`, `unmarked`, `unrecorded` and
`Stuck` in the next section. Calls run out, so deadlock is not checked.

Fairness: processes that live get on with their calls. A call may give up at any
time, may be the only one, and its server may never answer.

**Proofs** (`OpenCodeRegistryProofs`), for any number of calls, roots, ports and
crashes: `TypeCorrectness`, `OneCallAtATime`, `ServersAreFound`, `FilesGo`. None
of the properties is inductive. `LockInv` says that a call between creating a
file and removing it is the one the file names, and that what `UnlinkLock` is
about to remove was left by a dead process; `SignedInv`, that its record is
there by then. `CopyInv` says how the copy of the call under the lock differs
from the registry: only in its own entry, which stands for no server that lives
when it is about to start one (`Replaceable`). So writing the whole copy back
loses nobody's server. Left to TLC: `DeadLocksGo`.

## 10. What the runs leave out

Found while modelling, true of the code, and outside the instances or the
properties of the runs:

* `viewport-manager.ts:567-570` and `720-721` assign `latestDesktop` before
  `resizeWindow`. When that command fails, the next poll compares with the new
  value and sees no change, although the comment at 726-727 says that a later poll
  retries. `DesktopFollowed` fails with `MaxFailures = 1`; it is checked with 0.
* `viewport-manager.ts:239`: when `latestDesktop` is unknown, a key press only
  becomes the baseline. On a window that a takeover made manual, with the client
  gone and back, the window keeps the size of an old snapshot. `DesktopSized`
  fails with the event `move`; it is checked without.
* `RunFinalizedAlone` and `RunKeepsItsRow` speak of runs. A resume has neither
  guarantee: recovery consults the completions of `RunAgentSession` only, so it
  may claim a row whose resume is being completed (after the command died), and
  `CleanupAgentSession` and the end of an earlier completion wait for their hooks
  on an exited row that a resume can claim meanwhile.
* A window that tmux refuses to restore stays the phone's although its session is
  parked or meant it to go back (`viewport-manager.ts:592-602`): nothing tries again until the
  desktop takes it, a claim and its return come, or the session is released.
  `IntentHonoured` and `ParkedHandsBack` except exactly these sessions (`kept`).
* The record of a new daemon can be unlinked in the place of a stale one
  (`crossed`, section 5): it serves, and every command takes it for stopped.
* An attach that meets a conflict releases every parked session of the device,
  also on windows it does not want, while `terminal-session.ts:70` speaks of the
  session that blocks it.
* When a pane of the snapshot closed, `claimDesktop` throws before it changes the
  owner, on this and every later key press, against
  `docs/shell-stability-audit.md:469-470`.
* A daemon that drains still has the database open while its successor opens it:
  the port is free long before the end (`server.ts:562`, `667`), against the
  single writer of `docs/architecture-decisions.md:275`.
* Output handed to a socket that still reads open but whose connection is dead is
  neither buffered nor repainted after the resume (`terminal-session.ts:647`),
  while `docs/shell-stability-audit.md:475` promises a correct terminal. The
  sockets of `TerminalSession` deliver while they are open.
* `usurped`: two processes may find the barrier of a dead one, and the slower one
  then removes the barrier that a third has put there (`server.ts:503-508`). Two
  calls may pass the lock after that, against the comment at `server.ts:380`.
  Without the exception TLC finds it in `OneHolder`.
* `Stuck`: a process that dies between creating a lock or a barrier and writing
  its record, or fails to write the barrier (`unmarked`, `server.ts:468-470`),
  leaves an empty file that nobody ever takes for stale (`readLockRecord`): every
  later call times out, until somebody removes the file.
* `unrecorded`: a process that dies between `spawnServer` and `writeRegistry`
  (`server.ts:231-242`), or cannot write, leaves a server that no entry names.
* A server that cannot be started is recorded with pid 0 (`server.ts:536`), which
  `readRegistry` refuses from then on, for every root; and nobody listens to the
  child's `error` event.
* Two calls that wait for the lock may keep each other waiting, each meeting the
  other's barrier, until one gives up.

Abstracted throughout: wording, logging, audit, sizes and text of output, tokens
(compared for equality only), clocks (a timer may fire at any time once armed).

## 11. Plan

Done, in this order: what decides who owns something (`TerminalSession` with
`ViewportLease`, `ViewportManager`, `AgentSession`), what everything needs
(`DaemonLifecycle`), how news travels (`EventDelivery`), how a client gets in and
stays connected (`Pairing`, `WebConnection`), what daemons share
(`OpenCodeRegistry`).

Left:

1. `WebDaemon` (`infrastructure/src/web-daemon.ts`): the lock directory of start,
   stop and restart, which no process takes over after a crash, and a status that
   removes records without it.
2. `OpenCodeMonitor` (`agents/opencode/monitor.ts`, `provider-monitors.ts`): an
   event stream that reconnects, and the states it must not take back.
3. `WebProxySocket`: the bound of the frames that wait for the upstream.
4. `Auth`: sessions, challenges, tickets. Its transactions never wait, and
   `revokeDevice` and `revokeSession` have no caller, so that a revocation does not
   meet a ticket in use today.
5. `SqliteTransactions`: as long as everything that runs inside one answers at once,
   transactions do not interleave either.
6. `PaneInventory`: `reconcilePanes` as it is run today never interleaves, since
   its port answers in the same turn; `EventDelivery` takes it as one step.

Not modelled, and why: argument parsing, views, the keyboard editor, iOS shell,
styling, contract schemas, instance configuration and workspaces (values that are
checked, shown or written whole; no protocol of several steps); launching and
observing agents (it translates what a provider prints; in the models a provider
succeeds or fails); git and tmux themselves (external).
