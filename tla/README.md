# Verification of loncher

TLA+ models of the loncher daemon, its clients, its window and launched children,
its socket file and its sync engine, checked with TLC on small instances and, for
the properties that matter most, proved with TLAPS for every value of the constants.

`PROJECT.json` lists the components, the runs, the hazards, the theorems, and,
for every definition, the source lines it translates.

## 1. The system

loncher is an application launcher in Rust: a daemon per user session that owns
the launcher's state and a window, short-lived command-line clients that send it
one command each over a Unix socket, and a library for replicating operations
between devices that the daemon does not use yet.

| component | source | state | operations |
|---|---|---|---|
| reducer | `crates/domain` | `DaemonSnapshot`: visibility, mode, query, generation, selection | `validate`, `reduce` |
| IPC server | `crates/runtime/src/server.rs` | connections, `JoinSet` of handlers, bounded request channel, oneshots, cancellation token, the reducer's state | accept, read a frame, queue a request, route it, write the reply, drain, shut down |
| IPC client | `crates/runtime/src/lib.rs` | one call | connect, write a frame, read a reply, compare ids, all under one timeout |
| socket ownership | `bind_listener`, `SocketCleanup` in `server.rs` | the directory, the socket file, who listens | bind, recover a stale socket, clean up |
| UI contract | `crates/ui-contract` | the last snapshot | `dispatch`, events, `HeadlessBackend` |
| GUI adapter | `crates/ui-iced` | snapshot channel (32), event channel (64), what the window draws | dispatch, snapshot stream, update, keys |
| GUI process | `run_daemon_gui` in `crates/runtime/src/lib.rs`, `app/src/main.rs` | the daemon task, the window's thread | discover, bind, open the window, let each side end the other, report |
| search | `crates/search` | the sorted index | match, cut to the limit |
| application discovery | `discover_with_options` in `crates/applications` | ids met, applications, diagnostics | walk the data directories, parse, sort |
| child registry | `ProcessLaunchBackend` in `crates/applications` | a `Vec` of children | launch, reap, shut down |
| sync protocol and engine | `crates/sync-protocol`, `crates/sync-engine` | log, id index, highest sequence numbers | `push_batch`, `pull_after` |
| command line, packaging | `app`, `packaging`, CI | none | arguments, signals, systemd unit |

How they interact. A client connects; the **listener** task accepts, compares the
peer's uid and spawns a **handler**; the handler reads and decodes one frame,
sends the request with a oneshot into the bounded channel, and waits for reply or
cancellation; the **router** task, the only owner of the state, takes requests and
UI events in turn, asks the reducer for the next state, dispatches it to the UI
backend, and only then assigns it and answers. A shutdown request, a signal and a
router that ended all cancel one token, on which the listener stops accepting and
waits for its handlers, the router hides the window and returns, and the entry
point joins both and removes the socket file. With a window, `run_daemon_gui` first
finds the applications, starts all that as one task, and opens the window on a
thread of its own once the socket is bound; snapshots go to the window and events
come back through bounded channels that refuse when they are full. Whichever of
the two ends first ends the other. The router also owns the launcher's children:
it reaps them before every event and once a second, and kills them when it leaves.

What is hard here, and what correctness means:

- *Interleaving and atomicity*: reply against cancellation in the handler; requests
  queued behind a shutdown; probe, removal, bind and listen of two daemons; batches
  that take turns on a lock. The daemon must behave as one atomic state machine,
  and one daemon must own the socket.
- *Timeouts and partial failure*: a caller or a handler gives up while its request
  is queued; the backend refuses a snapshot; `accept` fails; a batch is refused in
  the middle. State, frontend and replies must agree, a refused request must have
  had no effect, and nothing may be left behind.
- *Liveness and limits*: silent clients that fill every slot; a full queue at
  cancellation; clients that do not read. The daemon must end when it is told to.
- *Crashes*: a daemon dies between any two system calls. The next start must
  recover what it left, and nothing more.
- *Stale views*: the window draws what is typed before the daemon has it, while
  snapshots of older queries are on their way. Once nothing is, both must agree.
- *Children*: waits that fail, children that exit at any time, a launch whose
  reaping fails. None may be lost while the daemon lives or left when it ends well.
- *Numbers*: saturating counters, a selection cast from `usize` to `i32`.

The properties that make each component correct are those of section 4.

## 2. Modules

| module | models | kind |
|---|---|---|
| `DaemonState` | `validate` and `reduce`, as operators | detailed |
| `UiProjection` | `to_ui_snapshot`, and the command a UI event stands for | detailed |
| `DaemonIpc` | clients, listener, handlers, router, UI backend, cancellation, exit; EXTENDS `UiProjection`, refines `DaemonService` | detailed |
| `DaemonService` | what the daemon promises its callers | abstract |
| `SocketOwnership` | daemon processes over one socket path, a system call a step | detailed |
| `DesktopFiles`, `Discovery` | the files there may be; the walk through them, a file a step | detailed |
| `ChildRegistry` | launch, reaping and shutdown of children | detailed |
| `GuiProcess` | the whole daemon process: EXTENDS `UiProjection` and `DesktopFiles`, composes `Discovery` and `ChildRegistry` with both channels, the window and the supervisor | detailed |
| `Subsequences` | `Among`, what filtering a sequence leaves | helper |
| `SyncEngine` | `push_batch` under the write lock, `pull_after`, replicas; refines `SyncLog` | detailed |
| `SyncLog` | one log that grows by whole batches | abstract |
| `DaemonStateProofs`, `DaemonIpcProofs`, `DaemonPromiseProofs`, `SocketOwnershipProofs`, `DiscoveryProofs`, `ChildRegistryProofs`, `GuiProcessProofs`, `SyncEngineProofs` | section 6 | proofs |
| `MCDaemonIpc`, `MCSocketOwnership`, `MCGuiProcess`, `MCSyncEngine` | instances for TLC | model checking |

Operators marked "Mutant:" stand before the definition they alter and are used by
no specification. Each is a plausible bug, and with it in place one property of
one run fails (`"mutants"` in `PROJECT.json`).

### DaemonState

A text is one of `Words`, `Blank` or `NoText`: the reducer asks only whether
something is left after trimming, and whether two texts are equal. `Transition`
holds the arms of the match, `Reduce` compares the `Observable` part and counts
the generation, which saturates at `MaxU64`.

### UiProjection

Shared by `DaemonIpc` and `GuiProcess`: `ToUiSnapshot` is what a frontend is shown
of a state and a list of names (a marker beyond the list is shown on its last
name), `EventCommands` the command that an event stands for. `HandleEvent` of
`DaemonIpc` and `RouterEvent` of `GuiProcess` add the routing. The code's
`saturating_add` needs no counterpart, since the clamp that follows absorbs it, but
the cast before it has one (`AsI32`).

### DaemonIpc

| variables | code |
|---|---|
| `stage`, `frame`, `wire`, `result` | one call of `dispatch_command_with_config`, and the two directions of its stream |
| `backlog`, `conn`, `reply`, `tasks` | connections that the kernel holds, the handler of each, its oneshot, the listener's `JoinSet` |
| `queue` | the `mpsc` channel of routed requests |
| `listener`, `router`, `cancelled`, `exit` | the two tasks, the token, the entry point's result |
| `state`, `ui` | the router's `DaemonState`, the last snapshot that the backend accepted |
| `uiEvents`, `ledger` | history: a count that bounds the model; the commands routed with their replies |

There is one action for each point where a task may be suspended or another task
may see a difference. A handler goes `reading`, `sending`, `waiting`, `replying`,
`finished`. The biased `select!` of `handle_connection` is two steps on a
multi-thread runtime (`PollReply`, then `PollCancelled` from `polled`), because the
router runs between the two polls there, and one step on a current-thread runtime
(`MultiThreaded = FALSE`). `RouterCancel` is a step after `RouteRequest`, as the
call of `cancel()` comes after the send of the reply.

What the environment may do is a constant: `Frames` (other programs than loncher
may write to the socket), `UiOutcome` (what a dispatch may return: the headless
backend, a window whose channel fills, a reliable one), `UiEvents`, `Foreign`,
`AcceptFaults`, `Signals`.

Left out, on purpose: the bytes of a frame (it is a command, malformed, or of
another version); the deadline arithmetic (a timeout may fire at any await);
tasks that panic; the client's own validation of what it sends, which only
narrows `Frames`; the launcher's children, which `GuiProcess` has. A handler that
is aborted or times out stops at once.

### DaemonService

Callers invoke, the service performs a request at most once and atomically on the
state that all earlier effects left, and a caller is told that outcome, a
rejection (no effect, then or ever) or nothing (`closed`, `timeout`).
`DaemonIpc!Service` maps a caller's request to the frame it wrote, its outcome to
its entry in `ledger`, and `stopped` to a routed shutdown.

### SocketOwnership

Each system call of `bind_listener`, `prepare_parent_directory`,
`recover_stale_socket` and `SocketCleanup` is a step; the path is absent, a file
that is no socket, a relic of an earlier session, or the socket of a daemon;
`listening` says whose socket is open. `UnixListener::bind` is two steps, `bind(2)`
and `listen(2)`. A daemon may crash at every step. `overlaps`, chosen once from
`Disciplines`, says what a start may overlap: other starts, stops, or nothing. The
systemd unit allows nothing (one instance, `Restart=on-failure`), which is
`Managed`; a shell allows everything. `Probe` has the three outcomes of the code: a
listening socket answers (or the connect times out), which is reported as a daemon that
runs; its backlog is full, which is reported as a failed probe; nobody listens, and
the file is removed.

### DesktopFiles and Discovery

A file is its data directory, its place among the sorted paths there, its desktop
id, a name, and what `parse_entry` makes of it (an application, one that is not
shown, broken), or a directory that cannot be read. Two files of one directory may
have the same id (`sub/a.desktop` and `sub-a.desktop`). `Look` is one turn of the
walk: the file that is first among those left is diagnosed, remembered, hidden by
an earlier one of its id, or listed.

### ChildRegistry

`proc` is what the kernel knows of each child, `registry` the `Vec`. Each call of
the code drains the `Vec` and puts back what still runs, so the child at which a
wait fails takes the ones behind it with it: `Reaped` and `ShutDown` are that, as
functions of processes and registry, since the router calls them inside larger
steps. A wait fails for a child that the kernel does not know any more, which
happens where `SIGCHLD` was ignored when the daemon was started (`autoReap`).
`Spawned` includes the reaping that ends `launch`, whose error the code returns
although the child runs.

### GuiProcess

| variables | code |
|---|---|
| those of `Discovery` and `ChildRegistry` | `discover_with_options`, and the registry that the router owns |
| `main`, `process` | where `run_daemon_gui` is and what it returned; `main` dropping its runtime |
| `daemon`, `listener`, `router`, `cancelled` | the daemon task, the two parts of it that matter here, the token |
| `catalog`, `state` | the names of the search index in their order, the router's `DaemonState` |
| `snapshots`, `parked` | the `futures` channel: its buffer, and whether the router's sender overfilled it |
| `window`, `shown`, `events` | the window's thread, the snapshot it draws, the tokio channel of events |
| `lost` | history: a typed query found the event channel full, and nothing was shown since |
| `requests`, `keys` | counts that bound the model |

One turn of the router is a step: a request of a client, an event with the reaping
before it, the timer. Clients are the environment here, whose requests `DaemonIpc`
models in full. `Put` is `try_send`: a `futures` channel admits one message beyond
its buffer for each sender, then parks the sender until the next receive. The
supervisor's sender is a clone that sends once. `Close` is the snapshot that stands
for `UiCommand::Shutdown` on the channel, told by its generation alone, as `update`
does. The router leaves in three steps (`EndChildren`, `RouterHide`,
`RouterClose`), each of which the window may overtake. `DropRuntime` is the end of
`main`: tasks that still run are dropped, and a dropped `Child` is neither killed
nor waited for; `ProcessExits` waits for the window's thread, which is a blocking
one. `Faults` says what else may go wrong: the configuration, the bind, the
listener, the window.

### SyncLog

`TakeOver` and `Refuse` are a push that takes effect at one instant: the batch's
new operations are appended in one piece, or the pusher is told a cause that is
true of the log at that instant. `Follow` lets a replica go on where it is.
`SyncEngine!Log` maps a batch to what its pusher submitted once it was answered.

### SyncEngine

Pushers validate, wait for the lock, work on copies operation by operation and
swap them in, or return early. Replicas pull with a limit, keep operations and
cursor together, and lose answers. The engine compares whole operations, so entity
and payload are one `body`.

`Among` and `SyncLog!Fresh` are recursive functions over the positions of a
sequence, and the filter's test is a set: so stated, facts about them can be proved.

## 3. Scheduling and fairness

`DaemonIpc!Fairness`: the daemon's own tasks run (tokio polls every ready task)
and its timers fire (`HandlerTimeout`, for the clients in `Slow`). Nothing is
assumed of clients, UI events, signals, accept errors, or a write to a client that
does not read: `WriteReply` is unfair, and a stuck handler ends by its timeout.

`GuiProcess!Fairness`: the tasks and the window's thread go on, and the timer
fires. The last is an assumption on clients: each turn of the router's loop starts
the second anew, so requests that keep coming starve it. The model's requests are
bounded, and so they pause. Nothing is assumed of clients, keys, signals, faults,
children, or a window that somebody should close.

`SocketOwnership!Fairness`: a started daemon goes on starting, a stopping one
stopping. Crashes are unfair.

`SyncEngine!Fairness`: tokio's `RwLock` is fair, so pushers get it. A replica keeps
pulling, and an answer that is possible again and again arrives at last (strong
fairness on `Pull` and `Deliver`); that is up to the callers of the library.

`Rest` in `DaemonIpc`, `SocketOwnership` and `GuiProcess` is the stutter of a system with
nothing left to do, so that TLC's deadlock check stays on and finds everyone
waiting on everyone.

## 4. Runs

| run | checks | shows |
|---|---|---|
| `protocol` | `TypeOK`, `RefusedWasNotRouted`, `SilenceMeansStopping`, `NothingLeftBehind`, `ImplementsService` | two clients that may time out, good, malformed and foreign-version frames, a queue of one, a backend that refuses, signals and a listener that fails: one atomic at-most-once service, no handler in time ends without a reply unless the daemon stops, and nothing left at exit |
| `foreign` | `RoutedAtMostOnce` | a third client, of another user: it is never routed, and nobody is routed twice |
| `views` | `UiInSync`, `GenerationIdentifiesView`, `ShutdownIsLast`, `ShutdownAnswered`, `ArrowsFollow`, `ImplementsService` | a current-thread runtime, two callers and two key presses that change view and list while the backend refuses some snapshots; a selection beyond the list; neither a queued request nor a key follows a shutdown, whose caller gets its reply |
| `stops` | `CancelledStops`, `ShutdownStops`, `BacklogMoves` | under fairness the daemon ends, whoever holds a connection, and silent clients give their slots up |
| `parallel` | `ShutdownAnswered`, violated | finding 1 |
| `wraps` | `ArrowsFollow`, violated | finding 2 |
| `sockets` | `TypeOK`, `ServingIsReachable`, `OnlyCrashesLeaveSockets`, `ManagedSocketStays`, `StartFailsForCause`, `StaleIsRecovered`, `StartEnds` | three daemons with crashes anywhere, from any file and directory. One after the other, one serves, clients reach it, and a start recovers what a crash left; in any overlap, every start ends and only crashes leave a file |
| `start_race` | `SingleInstance`, violated | finding 3 |
| `stop_race` | `ActiveSocketNeverRemoved`, violated | finding 4 |
| `sync` | `TypeOK`, `GapFree`, `IdsAreIdempotent`, `ReplicaIsPrefix`, `ImplementsLog`, `Converges` | three pushers with overlapping, repeated, colliding, gapped and invalid batches, a replica that pulls with limits 0 and 2 and loses answers: the engine is one atomic log, and the replica gets all of it |
| `gui` | `TypeOK`, `FirstIdWins`, `WindowAgrees`, `ChildrenAreOwned`, `SuccessIsClean`, `EnterHidesOnLaunch`, `ProcessEnds`, `FinishedAreReaped` | the whole process over three trees of desktop files, with a user who types and launches, a client, two children and every fault: the catalog is right, window and daemon agree once nothing is on its way, no child is lost, success means that nothing is left, and the process ends whichever side ends first |
| `graceful` | `StopsGracefully`, violated | finding 5 |

### Bounds, and why they are enough

- *Clients*: two, three with a foreign one. Handlers share only queue, slots and
  state, so two bring every pair in conflict; with `Capacity = 1` the second one
  waits at every limit (slot, queue). `views` has `Capacity = 2`, so that two
  requests are queued at once.
- *`Slow`*: which calls may last until a timeout; both clients except in `views` and
  `wraps`, which are about values, not about time.
- *`MaxUiEvents = 2`*: enough to change the list and then use the stale selection.
- *`MaxU64`*: 9 for the generation, which no behaviour of these instances reaches;
  5 for sequence numbers, of which the batches use 0 to 3; what happens at the
  largest number is left to the theorems (`LogIsGapFree`, `ReplicasArePrefixes`).
- *`MaxI32`*: 9, above every selection, in the passing runs; 1 in `wraps`, so that
  the index 3 is beyond it.
- *Texts and results*: two applications; the blank query lists both, a word lists
  one: lists shrink, grow and differ, and a selection may lie beyond them.
- *Window*: `Slots = 1`, `EventSlots = 1`: both channels fill and refuse within two
  requests and two keys (`MaxRequests`, `MaxKeys`); `graceful` has the real sizes,
  32 and 64. `MaxU64 = 9` is above every real generation, so `Close` stands for
  nothing else.
- *Children*: two, so that one is behind another in the registry when a wait fails.
- *Trees*: three, with every kind of file: a hidden one at home before the system's,
  a broken one, a directory that cannot be read, two paths with one id.
- *Daemons*: three, each runs once: one that crashed, one that serves and one that
  starts. Two suffice for both races.
- *Sync*: two devices, three ids, at most three operations in a batch; a limit of 2
  cuts inside a batch and between the devices.

## 5. Findings

1. **A shutdown may stay unanswered** (`parallel`, `server.rs` 309). The handler
   polls its empty oneshot, the router sends the reply and cancels, the handler
   polls the token and returns without writing. `src/docs/IPC-PROTOCOL.md:3`
   promises one reply for one request. The integration tests run on a
   current-thread runtime, on which `views` shows that it cannot happen. What holds
   on either runtime is `SilenceMeansStopping`: while the daemon serves, a handler
   that is not timed out does not end without a reply.
2. **An arrow may jump** (`wraps`, `server.rs` 458). `selected as i32` wraps for an
   index that a `Select` request may carry: arrow down takes the marker from the
   last entry to the first. `src/docs/PHASE-1A-LAUNCHER.md:36` says that arrows
   clamp.
3. **Two daemons started together may both serve** (`start_race`, `server.rs` 169).
   A socket between `bind(2)` and `listen(2)` refuses connections like a stale one,
   is removed by the other daemon, and both go on.
   `src/docs/PHASE-0-DAEMON.md:13` says a second daemon creates no second instance.
4. **A daemon that stops may remove its successor's socket** (`stop_race`,
   `server.rs` 573). The cleanup goes by name; the successor recovered the closed
   socket in between. `src/docs/PHASE-0-DAEMON.md:95` says an active socket is never
   removed.

5. **A graceful shutdown may be reported as a failure** (`graceful`,
   `crates/runtime/src/lib.rs` 79). The router itself tells the window to close. When
   the window is closed before the supervisor sees the daemon's end, the
   supervisor's own `dispatch(Shutdown)` meets a closed channel, and its error
   is returned though both sides ended well: the process fails and the unit's
   `Restart=on-failure` starts it again. `src/app/src/main.rs:46` says "Gracefully
   stop the running daemon".

Findings 3 and 4 need starts or stops that overlap; under the service manager's
discipline the theorems of section 6 exclude them.

## 6. What is proved

For any number of clients, daemons, children and pushers, any capacity and channel
size, any frames, trees, backend and events, either runtime, with and without
faults and signals, from the named assumptions of the modules.

**`DaemonStateProofs`.** `TransitionType` and `ReduceType`: the reducer stays in
`DaemonSnapshot`. `ReduceGeneration`: the generation never decreases, and below the
maximum a changed view has a greater one. `ProjectionType` and `EventCommandsType`:
what a frontend is shown and may ask for.

**`DaemonIpcProofs`.**

- `TypeCorrect`, `AtMostOnce`, `FrontendInSync` follow from `Inv`. `TypeOK` alone is
  not inductive: that a reply on the wire is a reply envelope needs that a
  handler which writes holds one (`ConnInv`). `RoutedAtMostOnce` needs to know
  where a request can still be: `BacklogInv` (a connection is in the backlog once,
  and only while `conn` says so), `QueueInv` (a request is in the queue at most
  once, belongs to no foreign client, has a decoded command, and is not in the
  ledger) and `LedgerInv` (routed requests are past the queue, and no client has
  two entries). The step lemma has one step for each action.
- `GenerationsIdentify` adds `ViewInv`: every snapshot that was given out
  `Precedes` the current state (it has a smaller generation, or the same one and
  the same view). `ReduceGeneration` keeps that, and it holds of two snapshots
  because the later one was the current state when it was given out.

**`DaemonPromiseProofs`**, on top of `Inv`.

- `NothingIsLeft` from `LeftInv`: handlers that run are in the `JoinSet`, a listener
  that returned has none and no backlog, a router that returned has no queue, and
  the process exits last.
- `ShutdownEndsRouting` from `ShutdownLeaves`: with a shutdown in the ledger the
  router has left its loop.
- `RefusalsHaveNoEffect` from `RefusalInv`: a handler, a stream or a caller that has
  a refusal belongs to a `Spared` connection, one whose request is in neither queue
  nor ledger and whose handler will not give it away any more.
- `DaemonIsService`: the refinement. `ReplyInv` says that what a handler or a stream
  holds is the `Outcome` of that very client, or one of the two errors that a
  handler makes up. Each step then is one of the service's, or shows nothing:
  `SendInvokes`, `ReturnsTell`, `RoutingIsPerforming`, `EventsAct`. A service step
  must not follow a shutdown (`ShutdownLeaves`) nor concern a caller that was told a
  refusal (`RefusalInv`).
- `SilenceIsStopping`, on either runtime: a handler that is ended neither by its
  timeout nor by the listener gives up without a reply only when the daemon is
  cancelled, or when the router returned without having routed the request.
  `SilenceInv` says why: until something is cancelled, the handler of a queued
  request waits and has no reply yet (`QueuedWait`, `NoReplyYet`), that of a routed
  one has its reply, whatever the backend said (`RoutedHaveReplies`), and a oneshot
  is dropped empty only by a router that returns (`DropsMeanStopping`). That the
  caller of a shutdown itself is answered (`ShutdownAnswered`) is not a theorem: it
  is false on the binary's runtime (finding 1), and `views` checks it on that of the
  tests.
- `ArrowsFollowTheirKey`, an action property: by `SelectionFits` the selection
  survives the cast to `i32`. Its hypothesis `IndexesFit` (no index in a frame and no
  list beyond `MaxI32`) is what finding 2 breaks.

**`SocketOwnershipProofs`.**

- `OneDaemonServes`, `ServiceIsReachable`, `ActiveSocketStays`, `StartsFailForCause`:
  each says `Managed =>`, that is, neither starts nor stops overlap. The first is
  about `SingleInstance`, which `start_race` shows false for starts that overlap.
  `IInv` says that then one daemon at most starts or stops (`OneInTransit`), nobody
  serves while one is past its probe (`NobodyServesMeanwhile`), and what the path
  names at each program counter (`PathFollowsStart`).
- `TypeCorrect` and `CrashesAlone` hold however starts and stops overlap.

**`DiscoveryProofs`** and **`ChildRegistryProofs`** are about the two components by
themselves. `FirstDecides`: the files looked at come before the others
(`LookedComeFirst`), the ids seen are those met, and what was listed or diagnosed
is exactly what the files looked at decide. `NoChildIsLost`: the registry is
inductive together with its type, by a lemma on what a reaping leaves.

**`GuiProcessProofs`** takes both over by `INSTANCE`, so that the process needs no
second proof of them: `WalkInv` holds until the report is taken apart, `ChildInv`
until the runtime is dropped. `StageInv` orders the stages of task, router and
supervisor. From these: `FirstDecides`, `NoChildIsLost`, `SuccessLeavesNothing`
(success needs both sides joined and a router that ended its children) and
`EnterNeedsLaunch`. `LinkInv` is about the two channels:

- `TypeCorrect`: who sends when (`FillInv`: the router's sender is parked only while
  the buffer is overfull, and the supervisor's message comes once the router sends
  no more) bounds the channel of snapshots to its buffer and a message of each
  sender. That the names found are a list of words, and no longer than the limit, is
  an induction over the positions of the index.
- `WindowAgreesWithDaemon`: while the router runs, the last snapshot under way is
  its view (`Told`); when none is, the window `Draws` that view, but for the query
  that was typed last and is still under way in the other direction (`AgreeInv`).
  With nothing under way that is the property. A snapshot that the full channel
  refuses does no harm: the sender is parked only while the buffer holds something
  (`FillInv`), and what is drawn at the end is what the router last got through.

**`SyncEngineProofs`.**

- `TypeCorrect`, `LogIsGapFree`, `IdsNameOneOperation`. What is sound of the log must
  hold of a writer's working copy at every operation of its batch (`StagedIsSound`),
  and only the holder of the lock stages (`LockIsHeld`). `ExtensionIsSound` is the
  one argument: the log with one more operation that passed the checks.
- `ReplicasArePrefixes` from `RInv`: numbers of a device rise along the log and along
  what is staged (`LogRises`); each replica has, per device, the log up to its cursor
  (`Copied`), and an answer on its way carries the next piece of what lies beyond the
  cursor it was asked with (`Travels`). `PullTravels` is the cut at the limit:
  because numbers rise, the largest number in the piece tells what else of that
  device is in it. `GrowthKeeps` says that a log which grows meanwhile changes none
  of that, since what is new lies beyond every cursor.
- `EngineImplementsLog`, the refinement, from `LInv`: what is staged is what is
  `Fresh` of the operations that the loop has been through (`StagedIsFresh`), and
  `highest` counts a device's operations in a log without gaps (`LogIsCounted`), which
  ties the code's comparison of numbers to `Skips`. A commit then is `TakeOver`; the
  operation at which a batch is refused collides or skips in whatever follows it
  (`RejectMaps`); an answer that arrives is `Follow` (`DeliverMaps`, by
  `BeyondIsMissing`); all else shows nothing.

The last two have the hypothesis `LastNumberOnce`: no device gives the number
`u64::MAX` to two operations that are pushed. The code accepts such operations, as
`saturating_add` expects the largest number again, and then a pull that is cut
between them advances the cursor past both: the replica never gets the second one.
So both statements are false without it, and with it only a device that has pushed
2^64 operations is left out.

Facts about recursive functions (`Among`, `Fresh`, `Found`) are proved by induction in
a first-order form: `Induction` is about a set of numbers that has 0 and with n also
n + 1, `SequenceInduction` about a set of sequences.

**Only model-checked**: the liveness properties (`CancelledStops`, `ShutdownStops`,
`BacklogMoves`, `StaleIsRecovered`, `StartEnds`, `Converges`, `ProcessEnds`,
`FinishedAreReaped`), since liveness under fairness and ENABLED are out of the
prover's reach, and `ShutdownAnswered`, for the reason given above. Every other
property of a passing run is a theorem, three of them under a hypothesis that
finding 2 or the largest number makes necessary.

## 7. What is not modelled

- Parsing of desktop files (keys, locales, `Exec` words, icons): a pure conversion,
  which `Discovery` has as the kind of a file. Serialisation, tracing, arguments and
  configuration: input and output, about which no property is stated.
- Rendering, the fuzzy matcher, tokio, iced and the kernel's sockets are libraries,
  modelled as far as the code sees them. Matches are listed in the catalog's order,
  not by score. iced's own buffer of subscription messages is part of `Slots`, and
  `window::latest()` is taken to find the window.
- A panicking task (`JoinError`), a poisoned lock, and an error of
  `shutdown_signal`, which leaves the daemon uncancelled.
- `accept_if_current` and `search_async`: nothing in the program calls them.
- Counters at the end of `u64`: reached by no run; `GenerationIdentifiesView` is
  stated below the maximum, and `GapFree` admits what happens at it.
- Which of two things wins when a key is pressed before a hide request and handled
  after it, and whether two queued Enters may launch twice: the code does what it
  does, and no document says what it should.

## 8. Plan

Done: the core of the first plan (`DaemonState`, `DaemonIpc`, `DaemonService`,
`SocketOwnership`, `SyncEngine`) and its extension (`UiProjection`, `Discovery`,
`ChildRegistry`, `GuiProcess`, `SyncLog`), with their runs, and the proofs of
section 6: every property of a passing run but liveness and `ShutdownAnswered`, both
refinements included.

Left, in order of worth:

1. What the liveness properties need and can be proved: that a state in which the
   daemon has to move and no step of its own is enabled does not exist.
2. `parse_entry` as an operator over the keys of an entry, from which the kind of a
   file follows.
