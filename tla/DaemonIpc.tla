----------------------------- MODULE DaemonIpc -----------------------------
(***************************************************************************)
(* One running loncher daemon and the command-line clients that talk to it  *)
(* over its Unix socket: the listener task, one handler task per accepted   *)
(* connection, the router task that owns the state and drives the UI        *)
(* backend, the shared cancellation token and the shutdown sequence of      *)
(* run_daemon_with_ui_and_applications_ready (crates/runtime/src/server.rs).*)
(*                                                                          *)
(* A client is one call of dispatch_command_with_config: one connection,    *)
(* one request frame, one reply frame.                                      *)
(***************************************************************************)
EXTENDS UiProjection, FiniteSets, Functions

CONSTANTS
  Clients,        \* client calls, each with a connection of its own
  Foreign,        \* the clients that another user runs
  Slow,           \* bound: the clients whose calls may last until a timeout
  RequestId,      \* RequestId[c]: the id c numbers its request with
  Frames,         \* the request frames that are sent, by loncher or by another program
  Capacity,       \* command_queue_capacity: queue slots, and connection slots
  Results,        \* Results[t]: names that the search returns for text t
  UiOutcome,      \* UiOutcome[v]: what dispatching a snapshot with visibility v may return
  UiEvents,       \* events the GUI may send; empty for a backend without events
  MaxUiEvents,    \* bound: UI events in one behaviour
  MultiThreaded,  \* the tokio runtime runs tasks in parallel
  AcceptFaults,   \* accept() or peer_cred() may fail
  Signals         \* the process may be sent SIGINT or SIGTERM

Malformed    == [kind |-> "malformed"]       \* oversized, or not a request
WrongVersion == [kind |-> "wrong_version"]   \* another protocol version

ASSUME ClientsAreFinite  == IsFiniteSet(Clients) /\ Foreign \subseteq Clients /\ Slow \subseteq Clients
ASSUME CapacityIsPositive == Capacity \in Nat \ {0}
ASSUME RequestIdsAreKnown == RequestId \in [Clients -> Nat \ {0}]
ASSUME FramesAreRequests == Frames \subseteq DaemonCommand \cup {Malformed, WrongVersion}
ASSUME EventsAreUiEvents == UiEvents \subseteq UiEvent /\ MaxUiEvents \in Nat
ASSUME ResultsAreNames   == Results \in [Text -> Seq(Words)]
ASSUME UiOutcomesAreKnown ==
  UiOutcome \in [Visibility -> (SUBSET {"ok", "unavailable", "rejected"}) \ {{}}]

VARIABLES
  stage,      \* stage[c]: where client c is in its call
  frame,      \* frame[c]: the frame c wrote to its stream
  wire,       \* wire[c]: the reply frame on c's stream
  result,     \* result[c]: what the call returned
  backlog,    \* connections the kernel holds for accept(), in order
  conn,       \* conn[c]: the server's side of c's connection
  reply,      \* reply[c]: the reply that c's handler holds or can receive
  tasks,      \* connections: the JoinSet of handler tasks not yet joined
  queue,      \* the bounded channel of routed requests, by client
  listener,   \* the listener task
  router,     \* the router task
  cancelled,  \* the cancellation token
  state,      \* the router's DaemonState
  ui,         \* the last snapshot that the UI backend accepted
  exit,       \* what the daemon's entry point returned
  uiEvents,   \* UI events handled so far (bounds the model)
  ledger      \* history: the commands routed, in order, with their replies

clientVars == <<stage, frame, wire, result>>
serverVars == <<backlog, conn, reply, tasks, queue, listener>>
routerVars == <<router, state, ui, uiEvents, ledger>>
vars == <<clientVars, serverVars, routerVars, cancelled, exit>>

----------------------------------------------------------------------------
(* Frames and replies                                                      *)

NoFrame == [kind |-> "no_frame"]
NoReply == [kind |-> "no_reply"]
Dropped == [kind |-> "dropped"]      \* the oneshot's sender is gone

UnknownId == 0                       \* RequestId::UNKNOWN

\* Mutant: replies lose the id of their request.
SuccessForgetsId(id, s) == [kind |-> "success", id |-> UnknownId, snapshot |-> s]
Success(id, s)  == [kind |-> "success", id |-> id, snapshot |-> s]
Error(id, code) == [kind |-> "error", id |-> id, code |-> code]

ErrorCode ==
  {"invalid_frame", "unsupported_version", "invalid_command", "ui_unavailable", "internal"}

ReplyEnvelope ==
       [kind : {"success"}, id : Nat, snapshot : DaemonSnapshot]
  \cup [kind : {"error"}, id : Nat, code : ErrorCode]

\* How a call ends when no reply answers it.
Failure == [kind : {"refused", "closed", "timeout", "id_mismatch"}]

NoResult == [kind |-> "pending"]

----------------------------------------------------------------------------
(* Routing one command: route_command                                      *)

\* to_ui_snapshot, with what the search returns.
UiSnapshot(s) == ToUiSnapshot(s, Results[QueryText(s.query)])

PublicCode(outcome) == IF outcome = "unavailable" THEN "ui_unavailable" ELSE "internal"

\* Mutant: the state is assigned before the UI is asked.
RouteAssignsFirst(s, shown, id, c) ==
  LET next  == Reduce(s, c)
  IN  IF ~Valid(c)
      THEN {[state |-> s, ui |-> shown, reply |-> Error(id, "invalid_command")]}
      ELSE { [state |-> next, ui |-> IF o = "ok" THEN UiSnapshot(next) ELSE shown,
              reply |-> IF o = "ok" THEN Success(id, next) ELSE Error(id, PublicCode(o))]
             : o \in UiOutcome[next.visibility] }

\* What routing command c under id may do: the next state, the snapshot the
\* UI shows, and the reply.  The UI is asked first and may refuse.  Status and
\* Shutdown return early; Reduce leaves them the state they would return.
RouteOutcomes(s, shown, id, c) ==
  LET next  == Reduce(s, c)
      Keep(r) == [state |-> s, ui |-> shown, reply |-> r]
  IN  CASE ~Valid(c)             -> {Keep(Error(id, "invalid_command"))}
        [] Valid(c) /\ next = s  -> {Keep(Success(id, s))}
        [] Valid(c) /\ next # s  ->
             { IF o = "ok"
               THEN [state |-> next, ui |-> UiSnapshot(next), reply |-> Success(id, next)]
               ELSE Keep(Error(id, PublicCode(o))) : o \in UiOutcome[next.visibility] }

----------------------------------------------------------------------------
(* States of the parts                                                     *)

Live     == {"reading", "sending", "waiting", "polled", "replying"}  \* handler running
Awaiting == {"waiting", "polled"}                 \* its oneshot receiver is alive
Ended    == {"finished", "expired"}               \* task over, not yet joined
Closed   == Ended \cup {"dropped", "joined"}      \* the server closed the stream

RouterDone == router \in {"ok", "failed"}

\* Some clone of request_tx is still alive.
SendersExist == listener = "open" \/ \E c \in tasks : conn[c] \in Live

Init ==
  /\ stage = [c \in Clients |-> "idle"]
  /\ frame = [c \in Clients |-> NoFrame]
  /\ wire = [c \in Clients |-> NoReply]
  /\ result = [c \in Clients |-> NoResult]
  /\ backlog = <<>>
  /\ conn = [c \in Clients |-> "none"]
  /\ reply = [c \in Clients |-> NoReply]
  /\ tasks = {}
  /\ queue = <<>>
  /\ listener = "open"
  /\ router = "starting"
  /\ cancelled = FALSE
  /\ state = DefaultSnapshot
  /\ ui = DefaultUi
  /\ exit = "running"
  /\ uiEvents = 0
  /\ ledger = <<>>

----------------------------------------------------------------------------
(* Clients: dispatch_command_with_config                                   *)

Return(c, r) ==
  /\ stage' = [stage EXCEPT ![c] = "done"]
  /\ result' = [result EXCEPT ![c] = r]

\* The kernel completes the connection before the daemon accepts it.
Connect(c) ==
  /\ stage[c] = "idle"
  /\ listener \in {"open", "draining"}
  /\ stage' = [stage EXCEPT ![c] = "connected"]
  /\ conn' = [conn EXCEPT ![c] = "backlog"]
  /\ backlog' = Append(backlog, c)
  /\ UNCHANGED <<frame, wire, result, reply, tasks, queue, listener, routerVars, cancelled, exit>>

ConnectRefused(c) ==
  /\ stage[c] = "idle"
  /\ listener \notin {"open", "draining"}
  /\ Return(c, [kind |-> "refused"])
  /\ UNCHANGED <<frame, wire, serverVars, routerVars, cancelled, exit>>

SendFrame(c) ==
  /\ stage[c] = "connected"
  /\ conn[c] \notin Closed
  /\ \E f \in Frames : frame' = [frame EXCEPT ![c] = f]
  /\ stage' = [stage EXCEPT ![c] = "sent"]
  /\ UNCHANGED <<wire, result, serverVars, routerVars, cancelled, exit>>

Receive(c) ==
  /\ stage[c] = "sent"
  /\ wire[c] # NoReply
  /\ Return(c, IF wire[c].id = RequestId[c] THEN wire[c] ELSE [kind |-> "id_mismatch"])
  /\ UNCHANGED <<frame, wire, serverVars, routerVars, cancelled, exit>>

ServerClosed(c) ==
  /\ stage[c] \in {"connected", "sent"}
  /\ conn[c] \in Closed
  /\ wire[c] = NoReply
  /\ Return(c, [kind |-> "closed"])
  /\ UNCHANGED <<frame, wire, serverVars, routerVars, cancelled, exit>>

\* The whole call is under one timeout, so it may expire at any await.
ClientTimeout(c) ==
  /\ c \in Slow
  /\ stage[c] \in {"connected", "sent"}
  /\ Return(c, [kind |-> "timeout"])
  /\ UNCHANGED <<frame, wire, serverVars, routerVars, cancelled, exit>>

----------------------------------------------------------------------------
(* The listener task: run_listener                                         *)

\* Mutant: the peer's uid is not compared.
AcceptAnyUser ==
  /\ listener = "open"
  /\ Cardinality(tasks) < Capacity
  /\ backlog # <<>>
  /\ backlog' = Tail(backlog)
  /\ conn' = [conn EXCEPT ![Head(backlog)] = "reading"]
  /\ tasks' = tasks \cup {Head(backlog)}
  /\ UNCHANGED <<clientVars, reply, queue, listener, routerVars, cancelled, exit>>

Accept ==
  /\ listener = "open"
  /\ Cardinality(tasks) < Capacity
  /\ backlog # <<>>
  /\ backlog' = Tail(backlog)
  /\ LET c == Head(backlog)
     IN  IF c \in Foreign
         THEN /\ conn' = [conn EXCEPT ![c] = "dropped"]
              /\ tasks' = tasks
         ELSE /\ conn' = [conn EXCEPT ![c] = "reading"]
              /\ tasks' = tasks \cup {c}
  /\ UNCHANGED <<clientVars, reply, queue, listener, routerVars, cancelled, exit>>

\* join_next in the accept loop, and again while draining.
Join(c) ==
  /\ listener \in {"open", "draining"}
  /\ c \in tasks
  /\ conn[c] \in Ended
  /\ tasks' = tasks \ {c}
  /\ conn' = [conn EXCEPT ![c] = "joined"]
  /\ UNCHANGED <<clientVars, backlog, reply, queue, listener, routerVars, cancelled, exit>>

ListenerBreak ==
  /\ listener = "open"
  /\ cancelled
  /\ listener' = "draining"
  /\ UNCHANGED <<clientVars, backlog, conn, reply, tasks, queue, routerVars, cancelled, exit>>

\* The listening socket closes with the task: what it never accepted is reset.
ResetBacklog(hit) ==
  /\ backlog' = <<>>
  /\ conn' = [c \in Clients |-> IF conn[c] \in hit THEN "dropped" ELSE conn[c]]

\* Mutant: the listener does not wait for its handlers.
ListenerLeavesTasks ==
  /\ listener = "draining"
  /\ listener' = "ok"
  /\ ResetBacklog({"backlog"})
  /\ UNCHANGED <<clientVars, reply, tasks, queue, routerVars, cancelled, exit>>

ListenerDrained ==
  /\ listener = "draining"
  /\ tasks = {}
  /\ listener' = "ok"
  /\ ResetBacklog({"backlog"})
  /\ UNCHANGED <<clientVars, reply, tasks, queue, routerVars, cancelled, exit>>

\* `accepted?` or `peer_cred()?` fails: the JoinSet is dropped and aborts its tasks.
ListenerFail ==
  /\ AcceptFaults
  /\ listener = "open"
  /\ Cardinality(tasks) < Capacity
  /\ listener' = "failed"
  /\ tasks' = {}
  /\ ResetBacklog({"backlog"} \cup Live)
  /\ UNCHANGED <<clientVars, reply, queue, routerVars, cancelled, exit>>

----------------------------------------------------------------------------
(* A handler task: handle_connection under its timeout                     *)

Finish(c) == conn' = [conn EXCEPT ![c] = "finished"]

Answering(c, r) ==
  /\ conn' = [conn EXCEPT ![c] = "replying"]
  /\ reply' = [reply EXCEPT ![c] = r]

\* The frame is read and decoded; a client that hung up without sending one
\* is treated like a malformed frame.
ReadFrame(c) ==
  /\ conn[c] = "reading"
  /\ frame[c] # NoFrame \/ stage[c] = "done"
  /\ \/ /\ frame[c] \in {NoFrame, Malformed}
        /\ Answering(c, Error(UnknownId, "invalid_frame"))
     \/ /\ frame[c] = WrongVersion
        /\ Answering(c, Error(RequestId[c], "unsupported_version"))
     \/ /\ frame[c] \notin {NoFrame, Malformed, WrongVersion}
        /\ conn' = [conn EXCEPT ![c] = "sending"]
        /\ UNCHANGED reply
  /\ UNCHANGED <<clientVars, backlog, tasks, queue, listener, routerVars, cancelled, exit>>

\* request_tx.send: waits for a free slot.
Enqueue(c) ==
  /\ conn[c] = "sending"
  /\ Len(queue) < Capacity
  /\ ~RouterDone
  /\ queue' = Append(queue, c)
  /\ conn' = [conn EXCEPT ![c] = "waiting"]
  /\ UNCHANGED <<clientVars, backlog, reply, tasks, listener, routerVars, cancelled, exit>>

EnqueueFails(c) ==
  /\ conn[c] = "sending"
  /\ RouterDone
  /\ Finish(c)
  /\ UNCHANGED <<clientVars, backlog, reply, tasks, queue, listener, routerVars, cancelled, exit>>

\* The two selects that also wait for the cancellation token.
HandlerCancelled(c) ==
  /\ conn[c] \in {"reading", "sending"}
  /\ cancelled
  /\ Finish(c)
  /\ UNCHANGED <<clientVars, backlog, reply, tasks, queue, listener, routerVars, cancelled, exit>>

\* Mutant: a closed oneshot is taken for a reply.
PollTakesDropped(c) ==
  /\ conn[c] = "waiting"
  /\ reply[c] # NoReply
  /\ conn' = [conn EXCEPT ![c] = "replying"]
  /\ UNCHANGED <<clientVars, backlog, reply, tasks, queue, listener, routerVars, cancelled, exit>>

\* Mutant: the select polls the token before reply_rx.
PollTokenFirst(c) ==
  /\ conn[c] = "waiting"
  /\ conn' = [conn EXCEPT ![c] =
       IF cancelled \/ reply[c] = Dropped THEN "finished"
       ELSE IF reply[c] = NoReply THEN "waiting" ELSE "replying"]
  /\ UNCHANGED <<clientVars, backlog, reply, tasks, queue, listener, routerVars, cancelled, exit>>

\* The biased select polls reply_rx first.  On a current-thread runtime
\* nothing runs between that poll and the poll of the token.
PollReply(c) ==
  /\ conn[c] = "waiting"
  /\ conn' = [conn EXCEPT ![c] =
       CASE reply[c] = Dropped                -> "finished"
         [] reply[c] \notin {NoReply, Dropped} -> "replying"
         [] reply[c] = NoReply /\ MultiThreaded -> "polled"
         [] OTHER -> IF cancelled THEN "finished" ELSE "waiting"]
  /\ UNCHANGED <<clientVars, backlog, reply, tasks, queue, listener, routerVars, cancelled, exit>>

PollCancelled(c) ==
  /\ conn[c] = "polled"
  /\ conn' = [conn EXCEPT ![c] = IF cancelled THEN "finished" ELSE "waiting"]
  /\ UNCHANGED <<clientVars, backlog, reply, tasks, queue, listener, routerVars, cancelled, exit>>

\* Writing fails when the client has dropped its end of the stream.
WriteReply(c) ==
  /\ conn[c] = "replying"
  /\ wire' = IF stage[c] = "done" THEN wire ELSE [wire EXCEPT ![c] = reply[c]]
  /\ Finish(c)
  /\ UNCHANGED <<stage, frame, result, backlog, reply, tasks, queue, listener,
                 routerVars, cancelled, exit>>

\* Mutant: the timeout ends where the reply is written.
TimeoutSparesWrite(c) ==
  /\ c \in Slow
  /\ conn[c] \in Live \ {"replying"}
  /\ conn' = [conn EXCEPT ![c] = "expired"]
  /\ UNCHANGED <<clientVars, backlog, reply, tasks, queue, listener, routerVars, cancelled, exit>>

\* Mutant: the timeout begins once the frame is read.
TimeoutSparesRead(c) ==
  /\ c \in Slow
  /\ conn[c] \in Live \ {"reading"}
  /\ conn' = [conn EXCEPT ![c] = "expired"]
  /\ UNCHANGED <<clientVars, backlog, reply, tasks, queue, listener, routerVars, cancelled, exit>>

HandlerTimeout(c) ==
  /\ c \in Slow
  /\ conn[c] \in Live
  /\ conn' = [conn EXCEPT ![c] = "expired"]
  /\ UNCHANGED <<clientVars, backlog, reply, tasks, queue, listener, routerVars, cancelled, exit>>

----------------------------------------------------------------------------
(* The router task: run_router                                             *)

\* The receiver goes with the router: the oneshots of queued requests close.
DropRequests ==
  /\ queue' = <<>>
  /\ reply' = [c \in Clients |->
       IF c \in Range(queue) /\ conn[c] \in Awaiting THEN Dropped ELSE reply[c]]

\* The first dispatch; if the backend refuses it the router returns at once.
RouterStart ==
  /\ router = "starting"
  /\ \E o \in UiOutcome["hidden"] :
       IF o = "ok"
       THEN router' = "running" /\ ui' = UiSnapshot(state) /\ UNCHANGED <<queue, reply>>
       ELSE router' = "failed" /\ UNCHANGED ui /\ DropRequests
  /\ UNCHANGED <<clientVars, backlog, conn, tasks, listener, state, uiEvents, ledger,
                 cancelled, exit>>

\* Mutant: the router stays in its loop after a shutdown request.
GoesOn(c) == "running"
AfterRequest(c) == IF frame[c].kind = "shutdown" THEN "cancelling" ELSE "running"

\* Mutant: an error is logged by the router and not sent to the caller.
RouteKeepsErrors ==
  /\ router = "running"
  /\ queue # <<>>
  /\ LET c == Head(queue)
     IN  /\ queue' = Tail(queue)
         /\ \E r \in RouteOutcomes(state, ui, RequestId[c], frame[c]) :
              /\ state' = r.state
              /\ ui' = r.ui
              /\ reply' = IF conn[c] \in Awaiting
                          THEN [reply EXCEPT ![c] = IF r.reply.kind = "error" THEN Dropped ELSE r.reply]
                          ELSE reply
              /\ ledger' = Append(ledger, [client |-> c, command |-> frame[c], reply |-> r.reply])
         /\ router' = AfterRequest(c)
  /\ UNCHANGED <<clientVars, backlog, conn, tasks, listener, uiEvents, cancelled, exit>>

\* One request: route it, answer through the oneshot when its receiver is
\* still there, and stop after a shutdown request.
RouteRequest ==
  /\ router = "running"
  /\ queue # <<>>
  /\ LET c == Head(queue)
     IN  /\ queue' = Tail(queue)
         /\ \E r \in RouteOutcomes(state, ui, RequestId[c], frame[c]) :
              /\ state' = r.state
              /\ ui' = r.ui
              /\ reply' = IF conn[c] \in Awaiting
                          THEN [reply EXCEPT ![c] = r.reply] ELSE reply
              /\ ledger' = Append(ledger, [client |-> c, command |-> frame[c], reply |-> r.reply])
         /\ router' = AfterRequest(c)
  /\ UNCHANGED <<clientVars, backlog, conn, tasks, listener, uiEvents, cancelled, exit>>

\* cancellation.cancel() after the reply to a shutdown request.
RouterCancel ==
  /\ router = "cancelling"
  /\ cancelled' = TRUE
  /\ router' = "closing"
  /\ UNCHANGED <<clientVars, serverVars, state, ui, uiEvents, ledger, exit>>

\* The loop ends on cancellation, or when every request sender is gone.
RouterBreak ==
  /\ router = "running"
  /\ cancelled \/ (queue = <<>> /\ ~SendersExist)
  /\ router' = "closing"
  /\ UNCHANGED <<clientVars, serverVars, state, ui, uiEvents, ledger, cancelled, exit>>

\* The command that a UI event stands for, if it stands for one.
UiCommands(e) == EventCommands(state, Results[QueryText(state.query)], e)

\* A launch may fail, and then a submit does nothing more.
HandleEvent(e) ==
  /\ router = "running"
  /\ uiEvents < MaxUiEvents
  /\ uiEvents' = uiEvents + 1
  /\ \/ \E c \in UiCommands(e) : \E r \in RouteOutcomes(state, ui, UnknownId, c) :
          state' = r.state /\ ui' = r.ui
     \/ (e.kind = "submit" \/ UiCommands(e) = {}) /\ UNCHANGED <<state, ui>>
  /\ UNCHANGED <<clientVars, serverVars, router, ledger, cancelled, exit>>

HandleUiEvent == \E e \in UiEvents : HandleEvent(e)

\* The hidden default snapshot, then Shutdown; requests still queued are dropped.
RouterClose ==
  /\ router = "closing"
  /\ \E first, second \in UiOutcome["hidden"] :
       /\ ui' = IF first = "ok" THEN DefaultUi ELSE ui
       /\ router' = IF first = "ok" /\ second = "ok" THEN "ok" ELSE "failed"
  /\ DropRequests
  /\ UNCHANGED <<clientVars, backlog, conn, tasks, listener, state, uiEvents, ledger,
                 cancelled, exit>>

----------------------------------------------------------------------------
(* The entry point and the process                                         *)

MainCancel ==
  /\ RouterDone
  /\ ~cancelled
  /\ cancelled' = TRUE
  /\ UNCHANGED <<clientVars, serverVars, routerVars, exit>>

\* A failure of the listener is reported before one of the router.
Exit ==
  /\ exit = "running"
  /\ RouterDone /\ cancelled
  /\ listener \in {"ok", "failed"}
  /\ exit' = IF listener = "failed" THEN "failed" ELSE router
  /\ UNCHANGED <<clientVars, serverVars, routerVars, cancelled>>

\* SIGINT or SIGTERM.
Signal ==
  /\ Signals
  /\ exit = "running"
  /\ ~cancelled
  /\ cancelled' = TRUE
  /\ UNCHANGED <<clientVars, serverVars, routerVars, exit>>

\* Nothing to do: every call has returned and the daemon has stopped or is idle.
Rest ==
  /\ \A c \in Clients : stage[c] = "done"
  /\ exit # "running" \/ (router = "running" /\ ~cancelled /\ queue = <<>> /\ tasks = {})
  /\ UNCHANGED vars

----------------------------------------------------------------------------
ClientStep(c) ==
  \/ Connect(c) \/ ConnectRefused(c) \/ SendFrame(c) \/ Receive(c)
  \/ ServerClosed(c) \/ ClientTimeout(c)

HandlerStep(c) ==
  \/ ReadFrame(c) \/ Enqueue(c) \/ EnqueueFails(c) \/ HandlerCancelled(c)
  \/ PollReply(c) \/ PollCancelled(c) \/ WriteReply(c) \/ HandlerTimeout(c)

ListenerStep ==
  \/ Accept \/ ListenerBreak \/ ListenerDrained \/ ListenerFail
  \/ \E c \in Clients : Join(c)

RouterStep ==
  \/ RouterStart \/ RouteRequest \/ RouterCancel \/ RouterBreak
  \/ HandleUiEvent \/ RouterClose

ProcessStep == MainCancel \/ Exit \/ Signal

Next ==
  \/ \E c \in Clients : ClientStep(c) \/ HandlerStep(c)
  \/ ListenerStep \/ RouterStep \/ ProcessStep \/ Rest

Spec == Init /\ [][Next]_vars

\* The daemon's own tasks keep running and its timers fire.  Nothing is assumed
\* of clients, UI events, signals, accept errors, or a write to a client's stream.
Fairness ==
  /\ \A c \in Clients :
       /\ WF_vars(ReadFrame(c)) /\ WF_vars(Enqueue(c)) /\ WF_vars(EnqueueFails(c))
       /\ WF_vars(HandlerCancelled(c)) /\ WF_vars(PollReply(c)) /\ WF_vars(PollCancelled(c))
       /\ WF_vars(HandlerTimeout(c)) /\ WF_vars(Join(c))
  /\ WF_vars(Accept) /\ WF_vars(ListenerBreak) /\ WF_vars(ListenerDrained)
  /\ WF_vars(RouterStart) /\ WF_vars(RouteRequest) /\ WF_vars(RouterCancel)
  /\ WF_vars(RouterBreak) /\ WF_vars(RouterClose)
  /\ WF_vars(MainCancel) /\ WF_vars(Exit)

FairSpec == Spec /\ Fairness

----------------------------------------------------------------------------
(* Properties                                                              *)

LedgerEntry ==
  [client : Clients, command : DaemonCommand, reply : ReplyEnvelope]

\* Every variable stays in its type: the shapes of frames, replies and task states.
TypeOK ==
  /\ stage \in [Clients -> {"idle", "connected", "sent", "done"}]
  /\ frame \in [Clients -> Frames \cup {NoFrame}]
  /\ wire \in [Clients -> ReplyEnvelope \cup {NoReply}]
  /\ result \in [Clients -> ReplyEnvelope \cup Failure \cup {NoResult}]
  /\ backlog \in Seq(Clients)
  /\ conn \in [Clients -> {"none", "backlog"} \cup Live \cup Closed]
  /\ reply \in [Clients -> ReplyEnvelope \cup {NoReply, Dropped}]
  /\ tasks \subseteq Clients
  /\ queue \in Seq(Clients)
  /\ listener \in {"open", "draining", "ok", "failed"}
  /\ router \in {"starting", "running", "cancelling", "closing", "ok", "failed"}
  /\ cancelled \in BOOLEAN
  /\ state \in DaemonSnapshot
  /\ ui \in [visibility : Visibility, mode : Mode, query : OptText,
             generation : 0..MaxU64, results : Seq(Words), selected : Nat]
  /\ exit \in {"running", "ok", "failed"}
  /\ uiEvents \in 0..MaxUiEvents
  /\ ledger \in Seq(LedgerEntry)

Routed == {ledger[i].client : i \in DOMAIN ledger}
RoutedCommands(c) == {ledger[i].command.kind : i \in {j \in DOMAIN ledger : ledger[j].client = c}}

\* The router executes a connection's request at most once, and never one of
\* another user's connections, whatever timeouts and cancellations happen on the
\* way (run_listener's uid check, the single send of handle_connection).
RoutedAtMostOnce ==
  /\ \A i, j \in DOMAIN ledger : ledger[i].client = ledger[j].client => i = j
  /\ Routed \cap Foreign = {}

\* A caller that is told its request was refused before routing (no daemon, bad
\* frame, bad version, foreign reply id) can retry: the request had no effect.
RefusedWasNotRouted ==
  \A c \in Clients :
    \/ result[c].kind \in {"refused", "id_mismatch"}
    \/ result[c].kind = "error" /\ result[c].code \in {"invalid_frame", "unsupported_version"}
    => c \notin Routed

\* Snapshots that clients are given name their view by its generation: equal
\* generations mean equal visibility, mode and query, across all clients, UI
\* events and refused dispatches in between (reduce, route_command).
GenerationIdentifiesView ==
  \A i, j \in DOMAIN ledger :
    LET a == ledger[i].reply
        b == ledger[j].reply
    IN  /\ a.kind = "success" /\ b.kind = "success"
        /\ a.snapshot.generation = b.snapshot.generation
        /\ a.snapshot.generation < MaxU64      \* where the counter sticks
        => Observable(a.snapshot) = Observable(b.snapshot)

\* While the router serves, the frontend shows exactly the router's state: no
\* change is kept that the backend refused, none is shown that was not kept
\* (route_command dispatches before it assigns).
UiInSync == router \in {"running", "cancelling"} => ui = UiSnapshot(state)

\* An arrow never moves the marker against its direction, whatever index other
\* callers selected and however the list shrank meanwhile (handle_ui_event
\* clamps; to_ui_snapshot shows the last entry for an index beyond the list).
ArrowsFollow ==
  [][ \A e \in {f \in UiEvents : f.kind = "move"} :
        HandleEvent(e) => \/ e.delta >= 0 /\ ui'.selected >= ui.selected
                          \/ e.delta <= 0 /\ ui'.selected <= ui.selected ]_vars

\* When the daemon returns, nothing is left behind: no task, no connection in
\* the backlog, and no caller that only its own timeout can release
\* (run_listener's drain, the drop of the router's queue).
NothingLeftBehind ==
  exit # "running" =>
    /\ tasks = {} /\ backlog = <<>> /\ queue = <<>>
    /\ \A c \in Clients : conn[c] \in {"none"} \cup Closed

\* Commands that UI events turn into: HandleUiEvent never selects past the list.
FrontendCommands ==
       [kind : {"hide"}] \cup [kind : {"query"}, text : Text]
  \cup [kind : {"select"}, index : UNION {0..LastIndex(Results[t]) : t \in Text}]

Outcome(c) ==
  IF c \in Routed
  THEN ledger[CHOOSE i \in DOMAIN ledger : ledger[i].client = c].reply ELSE NoReply

\* The daemon is one atomic, at-most-once state machine (DaemonService): every
\* reply a caller gets is the outcome of its own request, performed once on the
\* state the earlier ones left, and every refused dispatch leaves no trace.
Service == INSTANCE DaemonService WITH
  Requests <- Frames \ {Malformed, WrongVersion},
  Local    <- FrontendCommands,
  request  <- [c \in Clients |-> IF frame[c] \in {Malformed, WrongVersion} THEN NoFrame ELSE frame[c]],
  outcome  <- [c \in Clients |-> Outcome(c)],
  stopped  <- \E c \in Clients : "shutdown" \in RoutedCommands(c)

ImplementsService == Service!Spec

\* After a shutdown request nothing is routed and the state no longer moves
\* (run_router breaks out of its loop before the next request or UI event).
ShutdownIsLast ==
  [][ (\E c \in Clients : "shutdown" \in RoutedCommands(c))
      => UNCHANGED <<state, ledger, uiEvents>> ]_vars

\* On either runtime, a handler that ends by itself under a caller who still waits has
\* written a reply, unless the daemon is told to stop: nothing but the cancellation
\* swallows the answer to a request that was routed, and one that was not is also
\* given up with the router (handle_connection, run_router).  A handler that its
\* timeout or the listener ends is excepted.
SilenceMeansStopping ==
  \A c \in Clients :
    conn[c] = "finished" /\ stage[c] # "done" /\ wire[c] = NoReply
    => cancelled \/ (RouterDone /\ c \notin Routed)

\* The caller of a shutdown that was routed gets its reply: its handler only
\* ends without writing it when a timeout ends it, or a signal came first (the biased select of
\* handle_connection takes the reply before the cancellation).
ShutdownAnswered ==
  \A c \in Clients :
    "shutdown" \in RoutedCommands(c) /\ stage[c] = "sent" /\ conn[c] = "finished"
    => wire[c] # NoReply

\* Once cancelled, by a signal, by a shutdown request or because a task failed,
\* the daemon returns, even when clients hold their connections open.
CancelledStops == cancelled ~> exit # "running"

\* A shutdown request that was routed, or a listener that failed, stops the daemon.
ShutdownStops ==
  (listener = "failed" \/ \E c \in Clients : "shutdown" \in RoutedCommands(c)) ~> exit # "running"

\* Clients that connect and then say nothing cannot keep the others waiting for
\* ever: every connection leaves the backlog, since handlers time out.
BacklogMoves == \A c \in Clients : conn[c] = "backlog" ~> conn[c] # "backlog"
=============================================================================
