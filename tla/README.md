# Open Codex UI in TLA+

Open Codex UI is a web front end for Codex. A Python service (`yier_web`) keeps
Codex sessions open through a bridge library and serves browsers over WebSockets;
a Vue application (`web`) shows one thread at a time; a package of messaging
channels (`packages/yier-channel`) and a set of commands (daemon, tunnel, speech
models) surround them. The center of this directory is the part where most things happen
at once, **a thread's state on its way from Codex to the browser that shows it**:

    Codex --bridge--> session --watcher--> event hub --> outbox --frames--> browser
                      |ThreadSessions -----------| |TurnSync|WsOutbox|  |BrowserConnection|

Around it stand eight components that share no state with that path or with each
other: `RemoteHosts`, `SettingsStore`, `EventStream`, `SpeechRecognition` and
`SpeechModels` of the server, `Tunnel` and `Daemon` of the command line, and
`WeixinChannel` of the channel package.

- [Inventory](#inventory): every part of the system, its state and its hazards
- [Modules](#modules): what models what
- [Runs](#runs): what TLC checks, on which instance, and what that shows
- [Proofs](#proofs): what TLAPS proves for every instance
- [Found](#found): where the code and what is said of it disagree
- [Left out](#left-out) and [Plan](#plan)

Paths are relative to the repository; `codex/` stands for `yier_web/codex/`, and
`lib/` and `composables/` for those directories of `web/src/codex/`.

## Inventory

| Part | State | Operations | Talks to | What is hard | What makes it correct |
|---|---|---|---|---|---|
| **Outbox and connection loop** `codex/ws_outbox.py`, `routes/codex.py` | a deque of entries, an index of the entry that may still be coalesced for each key, an event, one `get()` task | `put`, `get`; wait for a command or a message, handle, send | the hub and the command handlers put; the loop sends | coalescing against ordered events, `get()` pops long before the send, wake-ups, a busy client | nothing lost, nothing overtakes, bounded, every message is sent |
| **Turn deltas** `codex/turn_sync.py`, `codex/ws_outbox.py`, `lib/codexTurnSync.ts`, `lib/codexTurnCache.ts` | what the projector last sent and which turns may change; the deltas that wait; the browser's turns and their cache | project, compose, apply, persist, ask again | one projector for a subscription; outbox; browser | a delta is relative to a base that three places track separately, across lost connections and stale caches | the browser converges to the published state and shows no mixture |
| **Thread sessions and event hub** `codex/ipc_manager.py`, `codex/session_events.py`, `codex/ws_commands.py` | registered sessions, subscriber queues, a lock, each connection's book of subscriptions | subscribe, unsubscribe, prompt, start, fork, archive, restart a host, leave | the bridge (external), the outboxes | every operation is cut in pieces by awaits, any bridge call may raise | one running, watched session for a registered thread, none leaked; acknowledged subscriptions are kept; every command ends |
| **Workspace sessions, remote statuses** `codex/ipc_manager.py` | a session for each host to list threads with, a status for each connection | list, use, connect, restart, edit, delete, test, install, time out, stop | the bridge, settings | in the table before started, closed by a timeout while shared, late results | a session taken out is stopped; none talks to an old address |
| **Browser connection** `lib/codexSocket.ts`, `lib/codexReconnect.ts`, `composables/useCodexWorkspace.ts` | socket, timer, attempt number, published state, active thread, believed subscription | connect, reconnect, hide, go offline, select, new chat, unmount | the server's commands, browser events | attempts overlap events, tasks overlap each other | no reconnection forgotten; the thread shown is subscribed |
| **Browser workspace** `composables/useCodexWorkspace.ts`, `lib/*.ts` | what is displayed | projections of a thread's state | browser connection | little: synchronous | unit tests |
| **Settings store** `yier_web/config.py`, `schemas.py`, `auth.py` | `settings.json`, the server's copy of the password | load and repair, read-modify-write | every service, and the CLI as another process | references between sections, stale pages, a crash inside a write or one that raises | what the file refers to is there; projects survive edits |
| **Event stream** `yier_web/event_stream.py`, `routes/core.py` | a queue for each page, a getter task | subscribe, publish, wait, shut down | channels, `/api/events/stream` | an event and a timeout at once | each event once, in order |
| **Channels** `packages/yier-channel` | accounts, login and polling tasks, a saved cursor | log in, start, stop, poll, send | a Weixin service (external) | tasks that overlap, cursor saved before the work, failing sinks | handed on at most once; every poll can be stopped |
| **Tunnel** `yier_web/tunnel.py`, `tunnel_cloudflare.py` | state, pid and log files, a detached process | start, stop, status | `cloudflared` | crashes between spawning and saving, reused process ids | no orphan; no stranger killed that the check could have told apart |
| **Speech models** `yier_web/speech_models.py` | model directory, partial archive, link, status | download, verify, install, remove | a download server | kills between two renames, two installers | a usable model stays usable, and is verified |
| **Dictation** `yier_web/speech.py`, `routes/speech.py` | cached recognizer, its lock, a stream for each client | connect, decode, finish, reconfigure | the browser, a recognizer library | reconfiguration while loading | the recognizer is the configured one |
| **Daemon** `yier_web/daemon.py`, `system_services.py` | plist, unit or task; environment and state files | install, start, stop, update, uninstall | launchd, systemd, the task scheduler | asynchronous bootout, failures, some of them ignored, and interrupts between steps | a command that succeeds has done it |
| **CLI, frontend, pickers, npm launcher, Vue components** | little or none | | | sequential, I/O, presentation | unit tests |

`PROJECT.json` lists every part with its sources and its status, and every hazard at
the line where it bites, with the properties that would notice it.

## Modules

### `StateChannel` and `WsOutbox` - one connection's messages

`StateChannel` says what a connection promises, whatever queue carries the
messages: a frame delivers messages of one key, once, and leaves nothing behind
that it is ordered after. `WsOutbox` is the code: `items`, `coalesced` and
`available` are the three fields of `CodexWebSocketOutbox`; `PutNowait`, `GetWait`
and `GetPop` its methods between two awaits; `SelectCommand`, `HandlerDone`,
`SelectSend`, `Sent` and `Disconnect` the loop of `websocket_handler`. A message is
its number in the history `log`, and a coalesced entry holds the *set* of the
messages folded into it, so that the order and the loss of every message can be
stated although states replace each other. `MCWsOutbox` gives the keys.

### `TurnSync` - what the messages say

The contents that `WsOutbox` leaves out: the projector turns each published state
into whole turns and patches (`Delta`, of which `SaysAnything` tells whether it is
sent, and `TurnPatch`) and notes what it sent (`Projected`); the outbox composes the
deltas that wait (`Compose`, `Patched`), the browser applies them (`Applied`) and,
after a lost connection, a reload or a new selection, asks again from what it has
(`Request`, `Register`, `Acknowledge`). A delta keeps its patches by turn, since a
turn is patched at most once in it. Turns are fields and item texts; the rest of
the state is one value, `live`. Assumed of Codex (external): only running turns
change, and taking a turn back changes the rest of the state too. Not
composing two deltas, which happens behind a message of another kind, is a choice.
Turns without an id and the keys of an item other than its text are left out.

### `ThreadSessions` - the life of a session

`CodexIpcManager` with its hub and the handler of each connection. An action is the
code between two awaits of one task; `task[k]` is the await a task is suspended in.
A bridge call takes effect when it is made and returns later, and `Faults` says
which may raise. `LockTurn` re-reads the registry after the lock, `OpenDone`
registers or gives up a second session, `AfterRaise` undoes a subscription,
`RestartDone` pops whatever is registered by then - as the code does. A session is
`left` (`GivenUp`) when its stop raised, or when one of its watchers raised first and the
stop was never reached: it may run on, in the table or out of it.
Abstractions: starting, following and hydrating a session nobody can see yet is one
await, and so is waiting for the watchers and stopping, which together return or raise;
all threads are on the host that is restarted, in any order; a stopped session is `Unused`
and may be reused; `fork_thread` is `start_thread`; a command that only needs an open thread is
`prompt`. The finally clause of a connection, `Leave`, walks its book as the code does.

### `BrowserConnection` - the other end

`CodexReconnectController` is the record `ctl`, and each of its methods an operator
from the controller it finds to the one it leaves, with the same name. The async
functions of `useCodexWorkspace` that touch the connection are tasks (`boot`, `retry`,
one for each click); a settled promise is continued before the browser dispatches
another event (`EventLoop`), and the close event of a failed socket follows its error
event at once. `navigator.onLine` changes before the event that says so, and such
events queue up. The server answers in order - what `WsOutbox` proves of
acknowledgements - and forgets the subscriptions of a connection that ends -
what `NoOrphanQueue` checks. An error event before the close event of an open socket
changes nothing the close event does not, and is left out; `pageshow` and a database
read may take place at any time. The thread shown is assumed to stay listed. The
embedded page, which connects on demand and selects no first thread, is not modelled.

### The components beside that path

Each of the following is a module of its own, with the state of the code as its
variables and an action for each piece of a handler between two awaits, or of a
command between two steps that may fail. What an action abstracts is said above it.

- `RemoteHosts`: `table` is `_workspace_sessions`, `session` every session opened,
  with the version of the connection it was opened with, `status` the statuses, and
  `task` the requests in flight. `BeginListing`, `BeginUse`, `BeginRestart`,
  `BeginUpdate`, `BeginDelete`, `BeginAutoConnect` and `BeginRemote` (test, install)
  run to the first await; `Existing`, `EnsureOpens`, `Started` and `StartFails` are
  `_ensure_workspace_session`; `Close` and `Stopping` are `_close_workspace_session`,
  with what the caller does next in `Closed`. `Told` is a stop that may raise, which the
  code passes over; `TimesOut` may come in the middle of one; `ThreadsRaise` is a restart
  that ends before it comes to the table. `SaveApp` is `PUT /api/config/app`, which changes
  connections and closes nothing. `Stop` finds no request in flight.
- `SettingsStore`: `file` is `settings.json`, and each handler is `Save` of what it
  changes in `Loaded`, which repairs what it reads (`Finalize`) as the code does. A
  connection's id is made from its host, so ids are drawn from `Hosts`. `page` is the
  copy a page may save much later; `auth` is the password `AuthService` enforces. A write
  is torn by a crash (`CrashInWrite`) or raises in a server that goes on (`WriteRaises`, and
  `SaveAuth` when the chmod raises); what it leaves loads as no file, or, torn inside a
  character, cannot be loaded (`Unreadable`).
- `EventStream`: one queue for each page; `getter` is the task of `queue.get()`, which
  the generator must cancel when a timeout or the shutdown comes first. What asyncio
  does with a cancelled `get` is modelled as the library does it (external).
- `SpeechModels`: `Request`, `Transfer`, `Verify`, `Extract`, `Rename`, `Replace`,
  `Activate` and `Finish` are the steps of `install` by the command line or by the
  server's thread; each may fail and each worker may be killed between two. Contents
  are what tells them apart: whole or not, right or wrong.
- `SpeechRecognition`: threads that load the recognizer against the event loop that
  saves the settings; while the loop waits for the lock it serves nobody.
- `Tunnel`: three commands in two terminals over the three files, with the process ids
  behind them. `Reused` gives a free id to somebody else at any moment, between the check
  of a stop and its signals too (`passed`); only the id of a child that a start has not
  given up is kept for it, by the kernel. `Prepare` makes a directory that is not there yet,
  as `mkdtemp` does.
- `Daemon`: a command is a sequence of steps (`Install`, `Uninstall`, `Program`), each
  an action; a step may fail and end the command (`StepRaises`), or, where the code runs it
  with `check=False` (`Unchecked`), fail and be passed over (`FailureIgnored`). The service
  manager unloads, restarts and logs in by itself.
- `WeixinChannel`: tasks are numbered; `polls` and `logins` are the adapter's tables,
  `stopper` the task that a stop awaits, `manager` and `todo` the manager's loops. Files
  (`saved`, `cursor`) survive a `Crash`, everything else does not.

`MCComponents` composes the eight for model checking. `part` says which of them runs in
a behaviour; the others stay as they begin. As none reads what another writes, a
property of one holds beside the others exactly if it holds alone, and the run explores
the sum of their state spaces, not the product.

## Runs

TLC, two workers. Every run but the violations checks its whole state space.

| Run | Instance | States | Shows |
|---|---|---|---|
| `outbox` | 3 keys, 6 messages | 86 000 | Ordered delivery, no loss, no lost wake-up, one entry for a key between barriers, the sender waits for two commands at most, every message is sent; `WsOutbox` implements `StateChannel`. |
| `turn_sync` | 2 turns, 1 item, texts up to 2, 4 edits, 2 waiting deltas, 1 loss | 1 051 000 | `Converges`: applying what waits leads from what the browser has to what was published. `ShowsPublishedState`: it never shows a mixture of two states. |
| `sessions` | 1 thread, 2 connections, 1 request, 2 sessions; subscribe, unsubscribe, archive, start; every call may raise | 483 000 | A registered session runs and is watched, none runs unregistered but one whose stop raised, and every command ends. |
| `subscriptions` | 2 threads, 3 connections; no call raises | 5 500 | Codex streams a thread exactly while somebody subscribes; acknowledged subscriptions are kept. |
| `restarts` | 2 threads, 2 connections, 1 restarting request, 4 sessions; open, follow and stop may raise | 1 521 000 | The subscribers of a quiet thread have a registered session of it that runs and is watched, or that a failed restart has left; no queue outlives its connection. |
| `browser` | 2 threads, 1 click beside the first connection and the retry, 2 faults, 2 changes of the page or network, 1 refusal | 465 000 | No reconnection is forgotten, the controller knows the socket, retries back off, an unmounted workspace is left alone; the browser ends up connected and subscribed to what it shows. |
| `components` | the eight components, see below | 1 221 000 | Each one's type invariant and its properties, see below. |
| `restart_leak`, `archive_race`, `first_open_fails`, `new_chat`, `duplicate_ids` | as small as the case allows | | violated: see [Found](#found) |

`components`, one component at a time:

| Component | Instance | Properties |
|---|---|---|
| `RemoteHosts` | 1 host, 3 requests (symmetric) but for those that make a connection, 2 sessions, 2 versions of the connection | `NoneDropped`: a session that is not stopped is in the table, or a request is about to stop it. `CurrentSettings`: none in the table was opened for an address the connection no longer has, unless an update is about to close it. |
| `SettingsStore` | 2 hosts, 1 project, 2 threads of which one the desktop lists, 4 saves, 1 crash | `CopiesAgree`: references in the file, and the password in force, agree, after torn and raising writes too. `EditKeepsProjects`: only a deletion drops a project. |
| `EventStream` | 2 pages, 3 events, 2 timeouts | `NothingLost`: each event once and in order. |
| `SpeechModels` | the server and a terminal, 5 jobs | `OnlyVerifiedInstalled`, `StaysUsable`. |
| `SpeechRecognition` | 2 dictations, 2 configurations, 2 saves, 1 word | `CopiesAgree`: the cached recognizer is of the configuration in force. |
| `Tunnel` | 2 terminals, 2 process ids, 2 starts | `OnlyOursSignalled`, `NothingLeftBehind`. |
| `Daemon` | 3 platforms, 2 addresses, 4 commands, 1 crash | `EnvironmentPresent`: the service always finds its environment. `EndsAsAsked`: a command that reports success has done it. |
| `WeixinChannel` | 1 account, 2 messages, 3 tasks, 1 crash | `HandledOnce`, `PollsAreTracked`. |

Properties name their exceptions, cases in which the code does not keep them: interrupted and overlapping tunnel
commands, a process id passed on between the check and the signal of a stop, installs that
overlap between verification and extraction, a kill between two renames or inside a
removal, the save of an old page, a server in which a write has raised, a stop or removal
of the service that fails unnoticed. In `RemoteHosts` they are a session reopened while its
connection is deleted, one whose connection `PUT /api/config/app` changed or whose update
ended in a thread's failing stop, a stop that raises or is cancelled, and a start that fails
after another session has taken its place.

**Why the bounds are enough.** Six messages are a folded entry, a barrier, state
behind it and a second barrier, while a message popped earlier waits to be sent; the
proofs remove this bound. Two turns let one end as the next begins, two frames let a
patch wait behind a full turn, and a second subscription overlap the first. In
`ThreadSessions` two connections and a request give three tasks, one
that holds the lock, one that waits, and one that closes the thread; a second thread
matters where a command walks several (leaving, restarting). In `browser` the
first connection, a retry and a click are three selections at once; the second fault
breaks the connection the first retry makes. Bounded are only the faults, the
environment's changes and the user's choices, never the program's own steps.

In `components`: three requests are one that holds a session, one that closes it and one
that opens the next, all on one host because nothing is shared between hosts but the
`Report` of a listing, which touches others only to forget unknown ones. Four saves are
two connections, an edit and a project between them. Two terminals let a start
overlap any other command, and two process ids let one be reused while the other runs.
Four daemon commands are an install, a stop that gives up, and two after it. Three
tasks are a poll that is being cancelled, the next one, and a login or one more poll.
Five model jobs are an install, a removal that is cut off, two that overlap and a forced
one: with four, what a removal cut off leaves behind cannot come back from a backup.

**Fairness.** `WsOutbox`: the event loop runs every ready task, and a handler and a
send return; putting, commands and disconnecting are not fair, so `EventuallySent`
holds for a connection that lasts. `ThreadSessions`: `Resume(k)` is weakly fair for
each task, i.e. each bridge call returns or raises - the code bounds only listings by
a timeout, so a host that never answers is outside `CommandsEnd`. `BrowserConnection`:
timers fire, events are dispatched, microtasks run and a connection attempt that does
not fail succeeds; nothing is assumed of the user or the network, and `Recovers`
and `Resubscribes` speak of pages that stay visible and online. No strong fairness
is assumed. The components of `MCComponents` are checked for safety only: their
liveness rests on programs outside (ssh, cloudflared, a download, the Weixin service) of
which the code assumes nothing. They may stop, when their bounds are used up, so that
run does not check for deadlock.

**Mutants.** Each property has a mutant: a definition with a plausible bug (a
dropped re-read, a missing reset, an off-by-one, patches composed in the wrong
place), kept beside the original, under which TLC finds the property violated. A
property that no bug could break is not listed.

## Proofs

TLAPS proves every safety property that a passing run checks, for all values of the
constants: any number of keys, threads, connections, sessions, turns, faults, jobs and
commands. The state space that a run
explores shows that a property is meant; the theorem shows that the bound hid nothing.

| Module | Theorems | Rest on |
|---|---|---|
| `WsOutboxProofs` | `TypeInvariant`, `OrderInvariant`, `CausalDeliveryHolds`, `NothingLostHolds`, `ChannelRefinement`, `NoLostWakeupHolds`, `SenderNotStarvedHolds`, `PendingBoundedHolds` | `Inv`, `Patience`, `Bounded` |
| `TurnSyncProofs` | `PatchRestores`, `TypeInvariant`, `ConvergesHolds`, `ShowsPublishedStateHolds` | `Inv` = `Past`, `Flow`, `Linked` |
| `ThreadSessionsProofs` | `TypeInvariant`, `LockInvariant`, one for each safety property of the three runs, and `NoSessionLeakApart`, `OneSessionPerThreadApart`, `RegisteredIsRunningAfter`, `OneWayToOrphan`, `ThreeWaysToLose` | `Base`, `LockIsHeld`, `Running`, `Tidy`, `OthersRun`, `UnfedIsDropped`, `Booked`, `Acked`, `AllNoted`, `Following` |
| `BrowserConnectionProofs` | `TypeInvariant`, `RetryPendingHolds`, `StatusIsTrueHolds`, `LeftAloneHolds`, `RetriesBackOffHolds` | `Typed`, `Linked` |
| `ComponentsProofs` | `EachAlone` | |
| `ServerProofs` | `RecognizerIsCurrentHolds`, `NothingLostHolds`, `PollsAreTrackedHolds`, `HandledOnceHolds`, `CurrentSettingsHolds`, `NoneDroppedHolds` | `Loading`, `Streams`, `Channel`, `Listings` |
| `HostProofs` | `OnlyOursSignalledHolds`, `NothingLeftBehindHolds`, `EnvironmentPresentHolds`, `EndsAsAskedHolds`, `OnlyVerifiedInstalledHolds`, `StaysUsableHolds`, `ComponentTypes` | `Signals`, `Orderly`, `Course`, `Verified`, `Lasting` |
| `SettingsProofs` | `CopiesAgreeHolds`, `EditKeepsProjectsHolds`, `OneWayToDouble` | `Stored`, `OneIdEach` |

Hardly any property is inductive as it stands; what follows says what had to be added.

**The outbox.** `CausalDelivery` speaks of what was sent, and what may be sent next
depends on the queue. `Inv` adds that entries hold pending messages of their key
(`Entries`), that what `get()` returned is of one key and not sent (`Held`), and that
queue, hands and wire are in the order of the puts wherever two messages are related
(`ItemsOrdered`, `HeldFirst`, `GotFirst`). Folding keeps the order only because of
`MapOk`: the indexed entry is the last of its key and no ordered event lies behind it.
A barrier clears the index and so keeps `MapOk`; `get()` keeps it because it removes the
index only of the entry it pops. For the refinement every step is `Accept`,
`Deliver(held)` or a stutter. `Patience` counts: a command handled while `get()` was
done, and one more, whose wait sees it. `PendingBounded` needs the converse of `MapOk`
(`Indexed`): state with no barrier behind it is always what its key's next message is
folded into.

**The turns.** `PatchRestores`: the patch of two versions of a turn, applied to the older,
gives the newer; `ComposeTakes`: if one delta takes turns `c` to `d` and another `d` to
`e`, their composition takes `c` to `e`. `Linked` puts them to use: there is a chain of
published states from what the browser shows to the last one queued, each delta
taking one to the next, and at its end either the projector is in step with what was
published (`Synced`), or it waits to answer a request that says enough of what the browser
has (`ToldAll`). `Past` is why an old cache is told enough by
its ids: no id returns, and turns that do not run stay as they are. Applying the
queue is then a walk along the chain, which is `Converges`, and every place of it was
published, which is `ShowsPublishedState`.

**The sessions.** `LockIsHeld`: the first in the queue holds the lock, opens or
follows, or is about to run; the others wait, each once. `OneHandler`: a session that is
opening or closing belongs to one task. With the lock, which lets nobody register a
thread that another opens, these give `RegisteredIsRunning` and `NoSessionLeak`.
With restarts, whose list is old by the time they come to the end of it, `Tidy` keeps
what is left of that: a registered session is in nobody's hands and registered once
(`OwnThread`), and what a restart has listed is registered still (`Listed`). `OthersRun`
adds that what is registered is watched unless a restart has it in hand, or has left it.
`UnfedIsDropped` and `Booked` say who will still do something about a queue of the hub: its
connection opens the thread for it, or has it in its book, or a closing is about to drop
it. `Asks` says the same of following.

A theorem with a hypothesis on `Commands` or `Faults` covers what its run checks. Those
with a hypothesis on the behaviour (`[]Apart`, `[][~Orphans]_vars`) name the steps
without which the property cannot break, whatever the commands and failures:

| Property | Holds if | With all commands and failures: holds unless |
|---|---|---|
| `NoSessionLeak` | nothing is restarted | a thread that a restart has still to close is closed by another restart or an archiving (`restart_leak`) |
| `RegisteredIsRunning` | nothing is restarted | the same, or a restart is under way, or one has failed |
| `OneSessionPerThread` | | closings overlap in that way, or a stop raises |
| `SubscribersAreFed` | | closings overlap in that way, or an archived thread's stop raises and its queues stay |
| `NoOrphanQueue` | nothing is archived | a subscription that has had its thread followed finds it archived (`Orphans`) |
| `AckedStaysSubscribed` | nothing is archived or restarted | it was made while the archived thread's session is stopped (`archive_race`), a restart closed the thread, or it was repeated and raised (`Loses`) |
| `FollowingTracksSubscribers` | the commands are subscriptions, their ends and prompts, and opening, following and stopping succeed (`first_open_fails`) | |

**The browser.** Each method of the controller has a lemma about the record it leaves.
`Good` says that attempts are counted upwards from the last one tried, so that a connection
that is down has a higher number ahead; `Told` that the controller knows the
socket, `Latest` that the last event waiting tells what the browser is now. When no event
waits, a connection that could be made has a timer or an attempt (`Waits`).

**The components.** `EachAlone`: a behaviour of `MCComponents` is a behaviour of each
component, so their theorems are proved of each alone and hold in the composition.

- *Server:* who loads a recognizer holds the lock and loads the configuration in force
  (`Loading`); what a page got, what its generator holds and what is queued are together
  what was published since it came (`Streams`); a poll's batch lies between what was handed
  on and the cursor (`Ahead`, `InTheirOrder`), and only the tracked poll has one
  (`Tracked`); every session of the table has its connection's version, or an update is
  about to close it, or it is known that none will (`behind`; `CurrentSettings` with
  `Roster`, and with `NoneDropped` in `Listings`).
- *Tunnel:* a command about to signal has checked a process that is not a stranger's; when
  the id goes to one since, `passed` says so (`Signals`). The one command at work and the
  state file name every process and directory there is (`Orderly`).
- *Daemon:* `Course` says where each command may be and what it has made sure of by then:
  an install no longer has a bootout under way when it writes, and has the environment
  there; an uninstall has the server down when it unlinks, and the definition gone when it
  deletes the environment, or what failed is in `ignored`. Both properties follow. `Life` is
  why the manager cannot undo that: launchd restarts only what it has loaded, the
  others only what is installed.
- *Speech models:* bytes past the verification are right unless installs overlapped
  (`Verified`); an installed model is in its place, or in the backup of the
  install that is about to put a new one there (`Lasting`).
- *Types:* `ComponentTypes` puts the eight type invariants together. Most rest on the
  invariants above: what a poll holds was sent to it because the cursor is not past what
  arrived (`Tables`), what a getter has taken is an event (`Shape`), a thread loads a
  configuration there is (`Loading`), a daemon command has steps left only where `Course`
  says it may be. What refers to sessions and tasks by number stays right as they become
  more (`RemoteTypes`, `PointsStill`).
- *Settings:* the file is `Sound` - loading it changes nothing, and its ids are those its
  hosts give - and the password in force is the file's, or a
  write has raised (`Stored`). That an edit keeps a
  connection's id wherever it moves is an induction over the list. `OneWayToDouble` is
  what the run `duplicate_ids` leaves of unique ids (`OneIdEach`): only adding a
  connection to a host whose name is an id already repeats one.

**Found by proving.** `StaysUsable` as first stated was not inductive, and false: a removal
that is killed leaves half a model, which an install takes for its backup and
puts back when it fails. That takes five jobs; the run had four. The property
now excepts it (`torn`, which `PutInPlace` takes back only when no such remains are
left), and the run has five. In the same way `Prepare` was wrong to reuse the directory
of a start that had been cut off.

**Assumptions.** Of constants only what tells values apart - `None`, `NoKey`, `NoThread`,
`NoFile`, `Unreadable` and the like are no value of the sets they stand beside, connections are no
requests, clicks no built-in tasks - that bounds are natural numbers, that there is a
thread to show, a host to connect to and an address to serve, that the service is one
of the workers, and that texts may have a character.

**How data are dealt with.** The recursive definitions that proofs are about (applying
a list of patches, giving ids to a list of connections) are recursive functions; their values
are reached by induction on sets of numbers, from the well-foundedness of `<` on `Nat`.
Induction with an operator as a parameter, `RECURSIVE` operators, and the folds that take
one are beyond the provers here, and the modules that are proved about have none.

*Only model-checked:* the liveness properties (`EventuallySent`, `CommandsEnd`,
`Recovers`, `Resubscribes`), since fairness and ENABLED are out of the prover's reach.

## Found

| Run | Code | What happens |
|---|---|---|
| `restart_leak` | `codex/ipc_manager.py:1360` | Two restarts of a host overlap (settings saved twice). The second pops a session that a subscriber opened after the first had finished with the thread; it runs on, unregistered, and the thread is opened again. |
| `archive_race` | `codex/ipc_manager.py:1347` | A thread is archived; a browser subscribes while its session stops; then all subscribers are cleared. The browser believes it is subscribed and is told nothing. |
| `first_open_fails` | `codex/ipc_manager.py:873` | The first subscriber fails to open the thread; the second, queued behind it, opens it without following, and its states are not streamed. |
| `new_chat` | `composables/useCodexWorkspace.ts:721` | "New chat" is chosen while a selection or a list is awaited, or before a reconnection: an existing thread becomes active again and receives the next message. |
| `duplicate_ids` | `config.py:461` | Two connections to one host name (two users, or two ports) get one id: the second look for a free id makes the same id again. Editing or deleting the one takes both. |

Met while modelling, and not the subject of a run; hardly any is contradicted by a text of
the repository:

- Browser and sessions: two quick clicks leave both threads subscribed; clicking B and
  at once A again shows B; the number of the attempt shown may drop from 2 to 1 when the
  network goes as the page is hidden; a restart whose `stop()` raises leaves later threads
  registered and unwatched, and a session that may run on; an archiving in which a watcher
  or the stop raises leaves one that nothing refers to, and its subscribers in the hub
  (`codex/ipc_manager.py:1345`).
- SSH hosts: a start that fails removes a newer session from the table without stopping
  it (`codex/ipc_manager.py:1206`); a listing that times out closes the session another
  request is using; a listing during a deletion reopens a session that outlives it. A
  listing whose 5 seconds end inside the stop of a failed start loses the session (line
  1208: `suppress(Exception)` does not catch the cancellation). An update or restart in which
  closing a thread's session raises does not come to the workspace session, which goes on
  serving the old address, and so it does after `PUT /api/config/app`.
- Settings: a torn file is replaced by defaults, password included; a page that saves
  old connections drops the projects of newer ones (`config.py:151`; the application's own
  pages do not call that route); two server processes overwrite each other's changes. A write
  that raises (a full disk) tears the file too, and the server goes on with the old password
  while the next save writes a file without one; a file torn inside a character is not
  text, which `config.py:91` does not catch: every handler raises and a server does not start.
- Tunnel: Ctrl-C while a start waits, and two starts at once, leave a `cloudflared` that
  no command knows of; on Windows a reused process id is taken for the tunnel. Between
  the check (`tunnel.py:384`) and SIGTERM (413), and in the five seconds before SIGKILL (422),
  the id may go to another process, which is then signalled.
- Daemon: `stop` in the seconds before a crashed server is restarted reports that it is
  stopped already; a reinstallation on systemd and Windows leaves the old server running,
  although `daemon.py:196` prints the new address. Where a stop or removal fails unnoticed,
  `stop` and `uninstall` report success while the server runs or the task is still
  registered, by then without its environment file, and `update` reports a restart while the
  old release runs.
- Speech: overlapping installs may make unverified bytes the model; saving the settings
  while a model loads stops the event loop until it is loaded.
- Weixin: messages between the cursor and a crash are lost; a second login under one
  key makes the first one's end forget it; an account started while its stop is awaited
  polls and is shown as stopped; a poll that failed makes the manager's stop give up
  before the other accounts; `login` of the command line ends before the code is confirmed,
  and `send` and `stop` run in a process that has neither the context token nor the poll.

## Left out

- *Codex sessions:* a stop of the manager that overtakes requests, cancellation of
  commands, a watcher that ends by itself, a started thread whose project assignment raises
  anything but OSError (its session is then stopped and stays registered, line 817), and
  the local host's workspace session, which is never restarted.
- *Browser:* the decoding of frames and gzip, the IndexedDB cache beyond one durable map,
  starting, forking and archiving threads, the embedded page, the microphone, and the
  projections of what is displayed: sequential functions with unit tests.
- *Turns:* a rollback that changes nothing but the turns, which the projector does not send.
- *Speech models:* a failure of the rename that puts the old model back.
- *Settings:* a second process on the file. *Daemon:* commands that overlap. *Tunnel:* the
  Windows branch of the process check. *Channels:* media, and the command line.
- *Authentication:* hashing and session cookies are stateless; the saved password and its
  copy are in `SettingsStore`.
- Argument parsing, the static frontend, the directory picker, the npm launcher and the
  Vue components are I/O and presentation.

`PROJECT.json` gives the reason for each part, and for each hazard that no property
covers.

## Plan

1. **Composition**: `BrowserConnection` over the subscriptions of `ThreadSessions`, to
   replace the external `AfterCommand`.
2. **Theorems with weaker hypotheses**: `FollowingTracksSubscribers` with archivings and
   with openings that fail while nobody else waits for the thread.
