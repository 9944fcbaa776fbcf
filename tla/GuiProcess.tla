----------------------------- MODULE GuiProcess -----------------------------
(***************************************************************************)
(* The daemon process with a window: run_daemon_process (app),              *)
(* run_daemon_gui (crates/runtime), which finds the applications and then   *)
(* runs the daemon task and the window's thread, each of which ends the     *)
(* other, the channels between the two (crates/ui-iced), and the children   *)
(* that the launcher spawns.  The requests that DaemonIpc models come from  *)
(* the environment here.                                                    *)
(***************************************************************************)
EXTENDS UiProjection, DesktopFiles, FiniteSets

CONSTANTS
  Alphabet,      \* Words in the order of their lower-case forms
  Matches,       \* Matches[w]: the names that the fuzzy search finds for w
  ResultLimit,   \* results that a search returns at most
  Unsupported,   \* applications that launch refuses: a terminal, D-Bus activation
  MaxChildren,   \* bound: children spawned in one behaviour
  Requests,      \* commands that clients send
  MaxRequests,   \* bound: requests in one behaviour
  Keys,          \* events that the user's keys cause
  MaxKeys,       \* bound: keys pressed in one behaviour
  Slots,         \* the buffer of the snapshot channel
  EventSlots,    \* the capacity of the event channel
  Faults         \* what may go wrong: "config", "bind", "listener", "window", "closed"

ASSUME IdsAreNumbers     == Ids \subseteq Nat
ASSUME NamesAreWords     == Names \subseteq Words
ASSUME AlphabetIsOfWords == Alphabet \in Seq(Words) /\ Words \subseteq {Alphabet[i] : i \in DOMAIN Alphabet}
ASSUME MatchesAreWords   == Matches \in [Words -> SUBSET Words]
ASSUME BoundsAreCounts   == {ResultLimit, MaxChildren, MaxRequests, MaxKeys, Slots, EventSlots} \subseteq Nat
ASSUME CommandsAreKnown  == Requests \subseteq DaemonCommand /\ Keys \subseteq UiEvent

VARIABLES
  tree, looked, seen, applications, diagnostics,   \* the walk of Discovery
  proc, registry, autoReap,                        \* the children of ChildRegistry
  main,       \* where run_daemon_gui is, and what it returned
  process,    \* the process: running, dropping its runtime, over
  daemon,     \* the daemon task
  listener,   \* its listener
  router,     \* its router
  cancelled,  \* the cancellation token
  catalog,    \* the names in the search index
  state,      \* the router's DaemonState
  snapshots,  \* the snapshot channel
  parked,     \* the router's sender found the channel full and must wait for a receive
  window,     \* the window's thread
  shown,      \* the snapshot that the window draws
  events,     \* the event channel
  lost,       \* history: a typed query found the event channel full, nothing was shown since
  requests, keys   \* how many there were (bounds the model)

Walk     == INSTANCE Discovery
Children == INSTANCE ChildRegistry

walkVars   == <<tree, looked, seen, applications, diagnostics>>
childVars  == <<proc, registry, autoReap>>
taskVars   == <<main, process, daemon, listener, cancelled>>
routerVars == <<router, state, requests>>
windowVars == <<window, shown, keys>>
linkVars   == <<snapshots, parked, events, lost>>
vars == <<walkVars, childVars, taskVars, routerVars, windowVars, linkVars, catalog>>

Close == [DefaultUi EXCEPT !.generation = MaxU64]     \* UiCommand::Shutdown on the channel

Ended == {"ok", "failed"}

Init ==
  /\ Walk!Init
  /\ Children!Init
  /\ main = "discovering"
  /\ process = "running"
  /\ daemon = "none"
  /\ listener = "open"
  /\ router = "none"
  /\ cancelled = FALSE
  /\ catalog = <<>>
  /\ state = DefaultSnapshot
  /\ snapshots = <<>>
  /\ parked = FALSE
  /\ window = "none"
  /\ shown = DefaultUi
  /\ events = <<>>
  /\ lost = FALSE
  /\ requests = 0
  /\ keys = 0

----------------------------------------------------------------------------
(* Starting: discovery, then the daemon task up to its socket, then the window *)

\* RuntimeConfig::from_env fails.
ConfigFails ==
  /\ "config" \in Faults
  /\ main = "discovering" /\ looked = {}
  /\ main' = "failed"
  /\ UNCHANGED <<walkVars, childVars, process, daemon, listener, cancelled, routerVars,
                 windowVars, linkVars, catalog>>

Discover ==
  /\ main = "discovering"
  /\ Walk!Step
  /\ UNCHANGED <<childVars, taskVars, routerVars, windowVars, linkVars, catalog>>

Rank(w) == CHOOSE i \in DOMAIN Alphabet : Alphabet[i] = w

\* report.applications.sort_by: the name, then the desktop id.
InCatalogOrder(f, g) == Rank(f.name) < Rank(g.name) \/ (f.name = g.name /\ f.id < g.id)

\* The report is taken apart: the search index keeps the applications.
SpawnDaemon ==
  /\ main = "discovering"
  /\ Walk!Finished
  /\ \E order \in [1..Cardinality(applications) -> applications] :
       /\ \A i, j \in DOMAIN order : i < j => InCatalogOrder(order[i], order[j])
       /\ catalog' = [i \in DOMAIN order |-> order[i].name]
  /\ tree' = {} /\ looked' = {} /\ seen' = {} /\ applications' = {} /\ diagnostics' = {}
  /\ main' = "binding"
  /\ daemon' = "binding"
  /\ UNCHANGED <<childVars, process, listener, cancelled, routerVars, windowVars, linkVars>>

\* bind_listener; `ready` is sent when it succeeds and dropped when it fails.
Bind ==
  /\ daemon = "binding"
  /\ \/ daemon' = "serving" /\ router' = "starting"
     \/ "bind" \in Faults /\ daemon' = "failed" /\ UNCHANGED router
  /\ UNCHANGED <<walkVars, childVars, main, process, listener, cancelled, state, requests,
                 windowVars, linkVars, catalog>>

\* ready_rx.await: the window is opened, or the daemon's error is returned.
AwaitReady ==
  /\ main = "binding"
  /\ daemon # "binding"
  /\ IF router = "none"
     THEN main' = "failed" /\ UNCHANGED window
     ELSE main' = "selecting" /\ window' = "open"
  /\ UNCHANGED <<walkVars, childVars, process, daemon, listener, cancelled, routerVars,
                 shown, keys, linkVars, catalog>>

----------------------------------------------------------------------------
(* The snapshot channel: IcedUiBackend::dispatch over futures' mpsc         *)

\* The receiver lives as long as the window; a sender that overfilled the buffer
\* is parked until the next receive.
ReceiverLives == window \in {"none", "open"}
Accepts       == ReceiverLives /\ ~parked

\* Mutant: the sender is never parked.
PutUnbounded(m) == snapshots' = Append(snapshots, m) /\ parked' = FALSE

\* try_send by the router.
Put(m) ==
  /\ snapshots' = Append(snapshots, m)
  /\ parked' = (Len(snapshots) >= Slots)

Unsent == UNCHANGED <<snapshots, parked>>

----------------------------------------------------------------------------
(* The router: run_router with a window                                    *)

\* SearchService::search over an index: its hits, in order, up to the limit.
Found(index, q) ==
  LET hits[i \in 0..Len(index)] ==
        IF i = 0 THEN <<>>
        ELSE IF Len(hits[i - 1]) < ResultLimit /\ (q = Blank \/ index[i] \in Matches[q])
             THEN Append(hits[i - 1], index[i])
             ELSE hits[i - 1]
  IN  hits[Len(index)]

NamesFor(s) == Found(catalog, QueryText(s.query))

\* A command changes something when it is valid and the state is not the same after it.
Changes(c) == Valid(c) /\ Reduce(state, c) # state

\* Mutant: the state is assigned though the window was not told.
RouteUntold(c) ==
  /\ state' = IF Changes(c) THEN Reduce(state, c) ELSE state
  /\ IF Changes(c) /\ Accepts THEN Put(ToUiSnapshot(Reduce(state, c), NamesFor(Reduce(state, c)))) ELSE Unsent

\* route_command: the window is told first, and the state follows when it takes it.
Route(c) ==
  IF Changes(c) /\ Accepts
  THEN /\ state' = Reduce(state, c)
       /\ Put(ToUiSnapshot(Reduce(state, c), NamesFor(Reduce(state, c))))
  ELSE UNCHANGED state /\ Unsent

RouterReturns(r) == router' = r /\ events' = <<>>

\* The first dispatch, of the hidden default state.
RouterStart ==
  /\ router = "starting"
  /\ IF Accepts
     THEN Put(ToUiSnapshot(state, NamesFor(state))) /\ router' = "running" /\ UNCHANGED events
     ELSE RouterReturns("failed") /\ Unsent
  /\ UNCHANGED <<walkVars, childVars, taskVars, state, requests, windowVars, lost, catalog>>

\* A request of a client; a shutdown cancels and ends the loop.
RouterRequest ==
  /\ router = "running"
  /\ listener = "open"
  /\ requests < MaxRequests
  /\ requests' = requests + 1
  /\ \E c \in Requests :
       /\ Route(c)
       /\ IF c.kind = "shutdown"
          THEN router' = "leaving" /\ cancelled' = TRUE
          ELSE UNCHANGED <<router, cancelled>>
  /\ UNCHANGED <<walkVars, childVars, main, process, daemon, listener, windowVars, events, lost, catalog>>

Ignore == Unsent /\ UNCHANGED state

\* The application at the marker.
Marked == NamesFor(state)[Clamp(state.selected, LastIndex(NamesFor(state))) + 1]

\* Mutant: the launcher hides whatever became of the launch.
SubmitHidesAlways(p, r) ==
  \/ NamesFor(state) = <<>> /\ Children!Becomes([proc |-> p, registry |-> r]) /\ Ignore
  \/ NamesFor(state) # <<>> /\ Children!Becomes([proc |-> p, registry |-> r]) /\ Route([kind |-> "hide"])
  \/ /\ NamesFor(state) # <<>> /\ Marked \notin Unsupported
     /\ \E o \in Children!Spawned(p, r) : Children!Becomes(o) /\ Route([kind |-> "hide"])

\* Enter, after the reaping has left processes p and registry r: the launch is
\* refused, fails to spawn, spawns and hides, or spawns and fails to reap.
Submit(p, r) ==
  \/ Children!Becomes([proc |-> p, registry |-> r]) /\ Ignore
  \/ /\ NamesFor(state) # <<>> /\ Marked \notin Unsupported
     /\ \E o \in Children!Spawned(p, r) :
          /\ Children!Becomes(o)
          /\ IF o.ok THEN Route([kind |-> "hide"]) ELSE Ignore

\* An event from the window: reap_finished, then handle_ui_event.  When the command
\* that it stands for is refused, nobody is told.
RouterEvent ==
  /\ router = "running"
  /\ events # <<>>
  /\ events' = Tail(events)
  /\ LET e        == Head(events)
         o        == Children!Reaped(proc, registry)
         commands == EventCommands(state, NamesFor(state), e)
     IN  IF e.kind = "submit" THEN Submit(o.proc, o.registry)
         ELSE /\ Children!Becomes(o)
              /\ IF commands = {} THEN Ignore ELSE \E c \in commands : Route(c)
  /\ UNCHANGED <<walkVars, taskVars, router, requests, windowVars, lost, catalog>>

\* The timer of one second, which every turn of the loop starts anew.
RouterTick ==
  /\ router = "running"
  /\ Children!ReapFinished
  /\ UNCHANGED <<walkVars, taskVars, routerVars, windowVars, linkVars, catalog>>

\* Cancelled, or the listener and with it every request sender is gone.
RouterBreak ==
  /\ router = "running"
  /\ cancelled \/ listener = "failed"
  /\ router' = "leaving"
  /\ UNCHANGED <<walkVars, childVars, taskVars, state, requests, windowVars, linkVars, catalog>>

\* Mutant: the children are left to themselves.
LeaveChildren ==
  /\ router = "leaving"
  /\ router' = "hiding"
  /\ UNCHANGED <<walkVars, childVars, taskVars, state, requests, windowVars, linkVars, catalog>>

EndChildren ==
  /\ router = "leaving"
  /\ Children!Shutdown
  /\ router' = "hiding"
  /\ UNCHANGED <<walkVars, taskVars, state, requests, windowVars, linkVars, catalog>>

\* The default snapshot, and then the window's end; either may be refused.
Farewell(stage, m, next) ==
  /\ router = stage
  /\ IF Accepts
     THEN Put(m) /\ IF next = "ok" THEN RouterReturns("ok") ELSE router' = next /\ UNCHANGED events
     ELSE RouterReturns("failed") /\ Unsent
  /\ UNCHANGED <<walkVars, childVars, taskVars, state, requests, windowVars, lost, catalog>>

RouterHide  == Farewell("hiding", DefaultUi, "closing")
RouterClose == Farewell("closing", Close, "ok")

----------------------------------------------------------------------------
(* The daemon task after its router                                        *)

\* `accepted?` fails: the handlers are aborted, no request comes any more.
ListenerFails ==
  /\ "listener" \in Faults
  /\ daemon = "serving" /\ listener = "open"
  /\ listener' = "failed"
  /\ UNCHANGED <<walkVars, childVars, main, process, daemon, cancelled, routerVars, windowVars,
                 linkVars, catalog>>

\* The token is cancelled, the listener drains, and its failure comes first.
DaemonEnds ==
  /\ daemon = "serving"
  /\ router \in Ended
  /\ cancelled' = TRUE
  /\ daemon' = IF listener = "failed" THEN "failed" ELSE router
  /\ UNCHANGED <<walkVars, childVars, main, process, listener, routerVars, windowVars,
                 linkVars, catalog>>

----------------------------------------------------------------------------
(* The window: update and snapshot_stream of crates/ui-iced                *)

\* The receiver is dropped with the application, before the thread returns.
Leave(to) ==
  /\ window' = to
  /\ snapshots' = <<>>
  /\ parked' = FALSE

WindowReceives ==
  /\ window = "open"
  /\ snapshots # <<>>
  /\ IF Head(snapshots).generation = MaxU64
     THEN Leave("closed") /\ UNCHANGED <<shown, lost>>
     ELSE /\ shown' = Head(snapshots)
          /\ lost' = FALSE
          /\ snapshots' = Tail(snapshots)
          /\ parked' = FALSE
          /\ UNCHANGED window
  /\ UNCHANGED <<walkVars, childVars, taskVars, routerVars, keys, events, catalog>>

\* The compositor closes the window, or is gone.
WindowLeaves ==
  /\ window = "open"
  /\ \/ "closed" \in Faults /\ Leave("closed")
     \/ "window" \in Faults /\ Leave("broken")
  /\ UNCHANGED <<walkVars, childVars, taskVars, routerVars, shown, keys, events, lost, catalog>>

WindowReturns ==
  /\ \/ window = "closed" /\ window' = "ok"
     \/ window = "broken" /\ window' = "failed"
  /\ UNCHANGED <<walkVars, childVars, taskVars, routerVars, shown, keys, linkVars, catalog>>

\* A key: what is typed is drawn at once, and the event is dropped when the
\* channel is full or the router gone.
Press(e) ==
  LET taken == router \notin Ended \cup {"dropped"} /\ Len(events) < EventSlots
  IN  /\ window = "open" /\ shown.visibility = "visible"
      /\ keys < MaxKeys
      /\ keys' = keys + 1
      /\ events' = IF taken THEN Append(events, e) ELSE events
      /\ IF e.kind = "query_changed"
         THEN shown' = [shown EXCEPT !.query = e.text] /\ lost' = (lost \/ ~taken)
         ELSE UNCHANGED <<shown, lost>>
      /\ UNCHANGED <<walkVars, childVars, taskVars, routerVars, window, snapshots, parked, catalog>>

----------------------------------------------------------------------------
(* Which of the two ends first: the select of run_daemon_gui               *)

\* The supervisor's own sender is never parked, but the window may be gone;
\* then that is the error, and neither is waited for.
DaemonFirst ==
  /\ main = "selecting"
  /\ daemon \in Ended
  /\ IF ReceiverLives
     THEN snapshots' = Append(snapshots, Close) /\ main' = "awaiting_window"
     ELSE main' = "failed" /\ UNCHANGED snapshots
  /\ UNCHANGED <<walkVars, childVars, process, daemon, listener, cancelled, routerVars,
                 windowVars, parked, events, lost, catalog>>

WindowJoined ==
  /\ main = "awaiting_window"
  /\ window \in Ended
  /\ main' = IF window = "ok" THEN daemon ELSE "failed"
  /\ UNCHANGED <<walkVars, childVars, process, daemon, listener, cancelled, routerVars,
                 windowVars, linkVars, catalog>>

\* Mutant: the daemon is not told that the window is gone.
WindowFirstSilent ==
  /\ main = "selecting"
  /\ window \in Ended
  /\ main' = IF window = "ok" THEN "awaiting_daemon" ELSE "failed"
  /\ UNCHANGED <<walkVars, childVars, process, daemon, listener, cancelled, routerVars, windowVars,
                 linkVars, catalog>>

\* A window that failed is reported at once: the daemon task is not waited for.
WindowFirst ==
  /\ main = "selecting"
  /\ window \in Ended
  /\ cancelled' = TRUE
  /\ main' = IF window = "ok" THEN "awaiting_daemon" ELSE "failed"
  /\ UNCHANGED <<walkVars, childVars, process, daemon, listener, routerVars, windowVars,
                 linkVars, catalog>>

DaemonJoined ==
  /\ main = "awaiting_daemon"
  /\ daemon \in Ended
  /\ main' = daemon
  /\ UNCHANGED <<walkVars, childVars, process, daemon, listener, cancelled, routerVars,
                 windowVars, linkVars, catalog>>

----------------------------------------------------------------------------
(* The process: run_daemon_process and main                                *)

\* SIGINT or SIGTERM.
Signal ==
  /\ process = "running" /\ main \notin Ended
  /\ ~cancelled
  /\ cancelled' = TRUE
  /\ UNCHANGED <<walkVars, childVars, main, process, daemon, listener, routerVars, windowVars,
                 linkVars, catalog>>

\* main returns, and the runtime drops the tasks that still run, with what they
\* own: a dropped Child is neither killed nor waited for.
DropRuntime ==
  /\ process = "running" /\ main \in Ended
  /\ process' = "unwinding"
  /\ daemon' = IF daemon = "serving" THEN "dropped" ELSE daemon
  /\ router' = IF daemon = "serving" THEN "dropped" ELSE router
  /\ registry' = {}
  /\ events' = <<>>
  /\ UNCHANGED <<walkVars, proc, autoReap, main, listener, cancelled, state, requests, windowVars,
                 snapshots, parked, lost, catalog>>

\* The runtime waits for its blocking thread, which the window runs on.
ProcessExits ==
  /\ process = "unwinding"
  /\ window \in Ended \cup {"none"}
  /\ process' = "over"
  /\ UNCHANGED <<walkVars, childVars, main, daemon, listener, cancelled, routerVars, windowVars,
                 linkVars, catalog>>

\* The process is over; its children may go on.
Rest == process = "over" /\ UNCHANGED vars

ChildExits ==
  /\ \E c \in Children!Child : Children!Exits(c)
  /\ UNCHANGED <<walkVars, taskVars, routerVars, windowVars, linkVars, catalog>>

StartStep  == ConfigFails \/ Discover \/ SpawnDaemon \/ Bind \/ AwaitReady
RouterStep ==
  RouterStart \/ RouterRequest \/ RouterEvent \/ RouterTick \/ RouterBreak
  \/ EndChildren \/ RouterHide \/ RouterClose
WindowStep ==
  WindowReceives \/ WindowLeaves \/ WindowReturns \/ \E e \in Keys : Press(e)
EndStep ==
  DaemonFirst \/ WindowJoined \/ WindowFirst \/ DaemonJoined \/ DropRuntime \/ ProcessExits

Next ==
  StartStep \/ RouterStep \/ ListenerFails \/ DaemonEnds \/ WindowStep \/ EndStep
  \/ Signal \/ ChildExits \/ Rest

Spec == Init /\ [][Next]_vars

\* The process' own tasks and its window go on, and the clients pause for a
\* second now and then, so that the timer fires.  Nothing is assumed of clients,
\* keys, signals, faults and children.
Fairness ==
  /\ WF_vars(Discover) /\ WF_vars(SpawnDaemon) /\ WF_vars(Bind) /\ WF_vars(AwaitReady)
  /\ WF_vars(RouterStart) /\ WF_vars(RouterEvent) /\ WF_vars(RouterTick) /\ WF_vars(RouterBreak)
  /\ WF_vars(EndChildren) /\ WF_vars(RouterHide) /\ WF_vars(RouterClose) /\ WF_vars(DaemonEnds)
  /\ WF_vars(WindowReceives) /\ WF_vars(WindowReturns)
  /\ WF_vars(EndStep)

FairSpec == Spec /\ Fairness

----------------------------------------------------------------------------
(* Properties                                                              *)

\* The stages of the tasks, the contents of the channels, and how far the latter fill.
TypeOK ==
  /\ Children!TypeOK
  /\ main \in {"discovering", "binding", "selecting", "awaiting_window", "awaiting_daemon"} \cup Ended
  /\ process \in {"running", "unwinding", "over"}
  /\ daemon \in {"none", "binding", "serving", "dropped"} \cup Ended
  /\ router \in {"none", "starting", "running", "leaving", "hiding", "closing", "dropped"} \cup Ended
  /\ window \in {"none", "open", "closed", "broken"} \cup Ended
  /\ state \in DaemonSnapshot
  /\ Len(snapshots) <= Slots + 2       \* one slot more for each of the two senders
  /\ Len(events) <= EventSlots
  /\ catalog \in Seq(Words)

\* Discovery!FirstIdWins: of every desktop id the first file decides.
FirstIdWins == Walk!FirstIdWins

\* The window agrees with the daemon whenever nothing is on its way between them:
\* what was typed, what clients asked for and what the full snapshot channel made the
\* daemon refuse meet in one view.  Excepted is a typed query that the full event
\* channel dropped, until the next snapshot (update draws it before it is sent).
WindowAgrees ==
  /\ router = "running" /\ window = "open"
  /\ snapshots = <<>> /\ events = <<>>
  /\ ~lost
  => shown = ToUiSnapshot(state, NamesFor(state))

\* Unless waits fail, a child that lives is in the registry as long as the daemon
\* task does, whatever launches, reapings and shutdown do in between.
ChildrenAreOwned == router # "dropped" => Children!ChildrenAreOwned

Quiet == ~autoReap => \A c \in Children!Child : proc[c] \notin Children!Alive

\* Success is reported only by a process that ended well and left nothing: both
\* sides were joined and succeeded, and no child is left (run_daemon_gui returns
\* the errors of both, and the router ends its children first).
SuccessIsClean == main = "ok" => daemon = "ok" /\ window = "ok" /\ Quiet

\* Enter hides the window only together with a child that was just spawned from
\* the application that the marker is on.
EnterHidesOnLaunch ==
  [][ /\ router = "running" /\ events # <<>> /\ events' = Tail(events)
      /\ Head(events) = [kind |-> "submit"]
      /\ state' # state
      => /\ Marked \notin Unsupported
         /\ \E c \in Children!Child : proc[c] = "none" /\ proc'[c] # "none" ]_vars

\* The process comes to an end as soon as it is told to, or one of its two sides
\* ends, whichever is first and however many others fail meanwhile.
ProcessEnds == (cancelled \/ daemon \in Ended \/ window \in Ended) ~> process = "over"

\* A child that exits is reaped, unless the process ends first.
FinishedAreReaped ==
  \A c \in Children!Child : proc[c] = "zombie" ~> proc[c] = "gone" \/ process = "over"

\* A daemon that is told to stop, and to which nothing else happens, stops
\* without an error.
StopsGracefully == process = "over" => main = "ok"
=============================================================================
