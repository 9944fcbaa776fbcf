------------------------ MODULE DaemonPromiseProofs ------------------------
(***************************************************************************)
(* What callers can rely on, for any set of them: the daemon leaves no      *)
(* task, queue or connection when it stops, it does nothing after a         *)
(* shutdown request, a refusal means that nothing happened, silence means   *)
(* that it stops, and it is the atomic state machine of DaemonService.      *)
(***************************************************************************)
EXTENDS DaemonIpcProofs

----------------------------------------------------------------------------
(* Nothing is left behind                                                  *)

\* A handler that runs is in the listener's JoinSet.
HandlersAreTasks == \A c \in Clients : conn[c] \in Live => c \in tasks

\* The listener returns without tasks, and without connections it might still accept.
ListenerLeaves ==
  listener \in {"ok", "failed"} =>
    tasks = {} /\ backlog = <<>> /\ \A c \in Clients : conn[c] # "backlog"

\* The router takes its queue with it, and the entry point waits for both.
RouterLeaves == RouterDone => queue = <<>>
ExitIsLast   == exit # "running" => RouterDone /\ listener \in {"ok", "failed"}

LeftInv == HandlersAreTasks /\ ListenerLeaves /\ RouterLeaves /\ ExitIsLast

\* The clients' own steps, and those of handlers.
LEMMA ClientLeaves ==
  ASSUME TypeOK, LeftInv, NEW c \in Clients, ClientStep(c) \/ HandlerStep(c) PROVE LeftInv'
<1>. USE DEF LeftInv, HandlersAreTasks, ListenerLeaves, RouterLeaves, ExitIsLast, RouterDone, Live,
            TypeOK
<1>1. CASE Connect(c)
  BY <1>1 DEF Connect, routerVars
<1>2. CASE ConnectRefused(c) \/ SendFrame(c) \/ Receive(c) \/ ServerClosed(c) \/ ClientTimeout(c)
  BY <1>2 DEF ConnectRefused, SendFrame, Receive, ServerClosed, ClientTimeout, serverVars, routerVars
<1>3. CASE Enqueue(c)
  BY <1>3 DEF Enqueue, routerVars
<1>4. CASE \/ ReadFrame(c) \/ EnqueueFails(c) \/ HandlerCancelled(c) \/ PollReply(c)
           \/ PollCancelled(c) \/ WriteReply(c) \/ HandlerTimeout(c)
  <2>1. /\ UNCHANGED <<backlog, tasks, queue, listener, routerVars, exit>>
        /\ conn[c] \in Live
        /\ conn' = [conn EXCEPT ![c] = conn'[c]] /\ conn'[c] # "backlog"
    BY <1>4 DEF ReadFrame, Answering, EnqueueFails, HandlerCancelled, PollReply, PollCancelled,
       WriteReply, HandlerTimeout, Finish
  <2>. QED
    BY <2>1 DEF routerVars
<1>. QED
  BY <1>1, <1>2, <1>3, <1>4 DEF ClientStep, HandlerStep

\* The listener ends its tasks, or waits for them.
LEMMA ListenerStepLeaves == ASSUME TypeOK, LeftInv, ListenerStep PROVE LeftInv'
<1>. USE DEF LeftInv, HandlersAreTasks, ListenerLeaves, RouterLeaves, ExitIsLast, RouterDone, Live,
            Ended, TypeOK
<1>1. CASE Accept
  BY <1>1 DEF Accept, routerVars
<1>2. ASSUME NEW c \in Clients, Join(c) PROVE LeftInv'
  BY <1>2 DEF Join, routerVars
<1>3. CASE ListenerBreak
  BY <1>3 DEF ListenerBreak, routerVars
<1>4. CASE ListenerDrained \/ ListenerFail
  BY <1>4 DEF ListenerDrained, ListenerFail, ResetBacklog, routerVars
<1>. QED
  BY <1>1, <1>2, <1>3, <1>4 DEF ListenerStep

\* The router ends with an empty queue.
LEMMA RouterStepLeaves == ASSUME LeftInv, RouterStep \/ ProcessStep PROVE LeftInv'
<1>. USE DEF LeftInv, HandlersAreTasks, ListenerLeaves, RouterLeaves, ExitIsLast, RouterDone
<1>1. CASE RouterStart
  BY <1>1 DEF RouterStart, DropRequests
<1>2. CASE RouteRequest
  BY <1>2 DEF RouteRequest, AfterRequest
<1>3. CASE RouterCancel \/ RouterBreak \/ HandleUiEvent
  BY <1>3 DEF RouterCancel, RouterBreak, HandleUiEvent, HandleEvent, serverVars
<1>4. CASE RouterClose
  BY <1>4 DEF RouterClose, DropRequests
<1>5. CASE ProcessStep
  BY <1>5 DEF ProcessStep, MainCancel, Exit, Signal, serverVars, routerVars
<1>. QED
  BY <1>1, <1>2, <1>3, <1>4, <1>5 DEF RouterStep

\* When the daemon returns no task, no connection and no caller is left waiting
\* (run_listener's drain, the drop of the router's queue).
THEOREM NothingIsLeft == Spec => []NothingLeftBehind
<1>1. Init => LeftInv
  BY DEF Init, LeftInv, HandlersAreTasks, ListenerLeaves, RouterLeaves, ExitIsLast, RouterDone, Live
<1>2. TypeOK /\ LeftInv /\ [Next]_vars => LeftInv'
  <2>1. LeftInv /\ UNCHANGED vars => LeftInv'
    BY DEF LeftInv, HandlersAreTasks, ListenerLeaves, RouterLeaves, ExitIsLast, RouterDone, vars,
       serverVars, routerVars
  <2>. QED
    BY <2>1, ClientLeaves, ListenerStepLeaves, RouterStepLeaves DEF Next, Rest
<1>3. TypeOK /\ LeftInv => NothingLeftBehind
  BY DEF NothingLeftBehind, LeftInv, HandlersAreTasks, ListenerLeaves, RouterLeaves, ExitIsLast, TypeOK
<1>. QED
  BY <1>1, <1>2, <1>3, TypeCorrect, PTL DEF Spec

----------------------------------------------------------------------------
(* Shutdown is last                                                        *)

\* The router has left its loop.
ShutdownLeaves ==
  (\E k \in DOMAIN ledger : ledger[k].command.kind = "shutdown") => router \notin {"starting", "running"}

\* A shutdown in the ledger was routed for a client.
LEMMA RoutedShutdown ==
  ASSUME NEW c, "shutdown" \in RoutedCommands(c)
  PROVE  \E k \in DOMAIN ledger : ledger[k].command.kind = "shutdown"
BY DEF RoutedCommands

\* Only the loop moves state and ledger.
LEMMA LoopMoves ==
  ASSUME [Next]_vars PROVE router = "running" \/ UNCHANGED <<state, ledger, uiEvents>>
<1>1. CASE UNCHANGED routerVars
  BY <1>1 DEF routerVars
<1>2. CASE RouterStep
  BY <1>2 DEF RouterStep, RouterStart, RouteRequest, RouterCancel, RouterBreak, HandleUiEvent,
     HandleEvent, RouterClose
<1>. QED
  BY <1>1, <1>2, OnlyTheRouterMoves

\* A step keeps a router that has routed a shutdown out of its loop.
LEMMA ShutdownStep == ASSUME Inv, ShutdownLeaves, [Next]_vars PROVE ShutdownLeaves'
<1>1. CASE UNCHANGED routerVars
  BY <1>1 DEF ShutdownLeaves, routerVars
<1>2. CASE RouteRequest
  <2>1. PICK c \in Clients : \E r \in RouteOutcomes(state, ui, RequestId[c], frame[c]) :
          /\ c = queue[1] /\ 1 \in DOMAIN queue
          /\ frame[c] \in DaemonCommand /\ r.reply \in ReplyEnvelope
          /\ ledger' = Append(ledger, [client |-> c, command |-> frame[c], reply |-> r.reply])
    BY <1>2, RouteRequestFacts
  <2>2. PICK entry \in LedgerEntry : ledger' = Append(ledger, entry) /\ entry.command = frame[c]
    BY <2>1 DEF LedgerEntry
  <2>3. c = Head(queue) /\ router' = AfterRequest(c) /\ router = "running"
    BY <1>2, <2>1 DEF RouteRequest, Inv, TypeOK
  <2>4. /\ DOMAIN ledger' = DOMAIN ledger \cup {Len(ledger) + 1}
        /\ \A k \in DOMAIN ledger : ledger'[k] = ledger[k]
        /\ ledger'[Len(ledger) + 1] = entry
    BY <2>2, LedgerAppend DEF Inv, TypeOK
  <2>. QED
    BY <2>2, <2>3, <2>4 DEF ShutdownLeaves, AfterRequest
<1>3. CASE RouterStep /\ ~RouteRequest
  BY <1>3 DEF RouterStep, RouterStart, RouterCancel, RouterBreak, HandleUiEvent, HandleEvent,
     RouterClose, ShutdownLeaves
<1>. QED
  BY <1>1, <1>2, <1>3, OnlyTheRouterMoves

\* After a shutdown request nothing is routed and the state no longer moves
\* (run_router breaks out of its loop before the next request or UI event).
THEOREM ShutdownEndsRouting == Spec => ShutdownIsLast
<1>1. Init => ShutdownLeaves
  BY DEF Init, ShutdownLeaves
<1>2. Inv /\ ShutdownLeaves /\ [Next]_vars => ShutdownLeaves'
  BY ShutdownStep
<1>3. ShutdownLeaves /\ [Next]_vars
      => [(\E c \in Clients : "shutdown" \in RoutedCommands(c)) => UNCHANGED <<state, ledger, uiEvents>>]_vars
  BY RoutedShutdown, LoopMoves DEF ShutdownLeaves
<1>. QED
  BY <1>1, <1>2, <1>3, InvHolds, PTL DEF Spec, ShutdownIsLast

----------------------------------------------------------------------------
(* What is refused was not routed                                          *)

\* Replies that the handler itself makes up, and foreign ids.
Early == {"invalid_frame", "unsupported_version"}
Refuses(c, r) ==
  /\ r.kind \in {"success", "error"}
  /\ r.id # RequestId[c] \/ (r.kind = "error" /\ r.code \in Early)

\* The connection's request was never given away, and never will be.
Spared(c) ==
  /\ conn[c] \in {"replying", "dropped", "joined"} \cup Ended
  /\ \A i \in DOMAIN queue : queue[i] # c
  /\ \A k \in DOMAIN ledger : ledger[k].client # c

\* A refusal stays true, in the handler, on the wire and for the caller.
RefusalInv ==
  \A c \in Clients :
    /\ reply[c] # NoReply => conn[c] \notin {"none", "backlog", "reading", "sending"}
    /\ Refuses(c, reply[c]) => Spared(c)
    /\ Refuses(c, wire[c]) => Spared(c)
    /\ result[c].kind = "refused" => stage[c] = "done" /\ conn[c] = "none"
    /\ result[c].kind = "id_mismatch" \/ (result[c].kind = "error" /\ result[c].code \in Early)
       => Spared(c)

\* Routing answers under the request's id, and with no early code.
LEMMA RoutingRefusesNothing ==
  ASSUME NEW c \in Clients, NEW s, NEW shown, NEW command,
         NEW r \in RouteOutcomes(s, shown, RequestId[c], command)
  PROVE  ~Refuses(c, r.reply)
<1>1. \/ \E t : r.reply = Success(RequestId[c], t)
      \/ \E code \in {"invalid_command", "ui_unavailable", "internal"} : r.reply = Error(RequestId[c], code)
  <2>. DEFINE next == Reduce(s, command)
  <2>1. CASE ~Valid(command)
    BY <2>1 DEF RouteOutcomes
  <2>2. CASE Valid(command) /\ next = s
    BY <2>2 DEF RouteOutcomes
  <2>3. CASE Valid(command) /\ next # s
    <3>1. PICK o \in UiOutcome[next.visibility] :
            r = IF o = "ok"
                THEN [state |-> next, ui |-> UiSnapshot(next), reply |-> Success(RequestId[c], next)]
                ELSE [state |-> s, ui |-> shown, reply |-> Error(RequestId[c], PublicCode(o))]
      BY <2>3 DEF RouteOutcomes
    <3>. QED
      BY <3>1 DEF PublicCode
  <2>. QED
    BY <2>1, <2>2, <2>3
<1>2. ASSUME NEW t, r.reply = Success(RequestId[c], t) PROVE ~Refuses(c, r.reply)
  <2>1. r.reply.kind = "success" /\ r.reply.id = RequestId[c]
    BY <1>2 DEF Success
  <2>. QED
    BY <2>1 DEF Refuses
<1>3. ASSUME NEW code \in {"invalid_command", "ui_unavailable", "internal"},
             r.reply = Error(RequestId[c], code)
      PROVE  ~Refuses(c, r.reply)
  <2>1. r.reply.id = RequestId[c] /\ r.reply.code = code
    BY <1>3 DEF Error
  <2>. QED
    BY <2>1 DEF Refuses, Early
<1>. QED
  BY <1>1, <1>2, <1>3

\* Being spared lasts: a handler past its request gives nothing away any more.
LEMMA SparedStays ==
  ASSUME Inv, NEW c \in Clients, Spared(c),
         \/ UNCHANGED <<queue, ledger>>
         \/ \E b \in Clients \ {c} : queue' = Append(queue, b) /\ UNCHANGED ledger
         \/ queue' = <<>> /\ UNCHANGED ledger
         \/ \E entry \in LedgerEntry : /\ queue # <<>> /\ queue' = Tail(queue)
                                       /\ entry.client = Head(queue)
                                       /\ ledger' = Append(ledger, entry),
         conn'[c] \in {"replying", "dropped", "joined"} \cup Ended
  PROVE  Spared(c)'
<1>. USE DEF Spared
<1>0. queue \in Seq(Clients) /\ ledger \in Seq(LedgerEntry)
  BY DEF Inv, TypeOK
<1>1. CASE UNCHANGED <<queue, ledger>>
  BY <1>1
<1>2. ASSUME NEW b \in Clients \ {c}, queue' = Append(queue, b), UNCHANGED ledger PROVE Spared(c)'
  BY <1>0, <1>2, AppendProperties, LenProperties
<1>3. CASE queue' = <<>> /\ UNCHANGED ledger
  BY <1>3
<1>4. ASSUME NEW entry \in LedgerEntry, queue # <<>>, queue' = Tail(queue),
             entry.client = Head(queue), ledger' = Append(ledger, entry)
      PROVE  Spared(c)'
  <2>1. Head(queue) = queue[1] /\ 1 \in DOMAIN queue
    BY <1>0, <1>4, LenProperties, EmptySeq
  <2>2. \A i \in DOMAIN Tail(queue) : i + 1 \in DOMAIN queue /\ Tail(queue)[i] = queue[i + 1]
    BY <1>0, <1>4, HeadTailProperties, LenProperties
  <2>3. /\ DOMAIN ledger' = DOMAIN ledger \cup {Len(ledger) + 1}
        /\ \A k \in DOMAIN ledger : ledger'[k] = ledger[k]
        /\ ledger'[Len(ledger) + 1] = entry
    BY <1>0, <1>4, LedgerAppend
  <2>. QED
    BY <1>4, <2>1, <2>2, <2>3
<1>. QED
  BY <1>1, <1>2, <1>3, <1>4

\* A reply that the handler makes up is about a request that nobody has.
LEMMA HandlerRefuses ==
  ASSUME Inv, RefusalInv, NEW c \in Clients, HandlerStep(c) PROVE RefusalInv'
<1>. USE DEF RefusalInv
<1>0. /\ \A b \in Clients : Spared(b) => conn[b] \in {"replying", "dropped", "joined"} \cup Ended
      /\ conn \in [Clients -> {"none", "backlog"} \cup Live \cup Closed]
      /\ reply \in [Clients -> ReplyEnvelope \cup {NoReply, Dropped}]
      /\ wire \in [Clients -> ReplyEnvelope \cup {NoReply}]
  BY DEF Spared, Inv, TypeOK
<1>1. CASE ReadFrame(c)
  <2>1. /\ UNCHANGED <<clientVars, queue, ledger>> /\ conn[c] = "reading"
        /\ \/ /\ conn' = [conn EXCEPT ![c] = "replying"]
              /\ \E r : reply' = [reply EXCEPT ![c] = r]
           \/ conn' = [conn EXCEPT ![c] = "sending"] /\ UNCHANGED reply
    BY <1>1 DEF ReadFrame, Answering, routerVars
  <2>2. /\ \A i \in DOMAIN queue : queue[i] # c
        /\ \A k \in DOMAIN ledger : ledger[k].client # c
    BY <2>1 DEF Inv, QueueInv, LedgerInv, HandedOver, Awaiting, Ended
  <2>3. ~Spared(c) /\ reply[c] = NoReply
    BY <2>1 DEF Spared, Ended
  <2>4. conn'[c] = "replying" => Spared(c)'
    BY <2>1, <2>2 DEF Spared
  <2>5. \A b \in Clients \ {c} : Spared(b) => Spared(b)'
    BY <1>0, <2>1 DEF Spared
  <2>. QED
    BY <1>0, <2>1, <2>3, <2>4, <2>5 DEF clientVars
<1>2. CASE Enqueue(c)
  <2>1. /\ queue' = Append(queue, c) /\ UNCHANGED <<clientVars, reply, ledger>>
        /\ conn[c] = "sending" /\ conn' = [conn EXCEPT ![c] = "waiting"]
    BY <1>2 DEF Enqueue, routerVars
  <2>2. ~Spared(c)
    BY <2>1 DEF Spared, Ended
  <2>3. \A b \in Clients \ {c} : Spared(b) => Spared(b)'
    BY <1>0, <2>1, SparedStays
  <2>. QED
    BY <1>0, <2>1, <2>2, <2>3 DEF clientVars
<1>3. CASE \/ EnqueueFails(c) \/ HandlerCancelled(c) \/ PollReply(c) \/ PollCancelled(c)
           \/ WriteReply(c) \/ HandlerTimeout(c)
  <2>1. /\ UNCHANGED <<stage, frame, result, reply, queue, ledger>>
        /\ conn[c] \in Live /\ (conn[c] = "reading" => conn'[c] \in Ended)
        /\ conn' = [conn EXCEPT ![c] = conn'[c]] /\ conn'[c] \in Ended \cup {"replying", "waiting", "polled"}
        /\ conn[c] = "replying" => conn'[c] \in Ended
        /\ wire' \in {wire, [wire EXCEPT ![c] = reply[c]]}
    BY <1>0, <1>3 DEF EnqueueFails, HandlerCancelled, PollReply, PollCancelled, WriteReply,
       HandlerTimeout, Finish, Ended, Live, clientVars, routerVars
  <2>2. \A b \in Clients : Spared(b) => Spared(b)'
    BY <1>0, <2>1 DEF Spared, Live, Ended
  <2>. QED
    BY <1>0, <2>1, <2>2 DEF Live, Ended
<1>. QED
  BY <1>1, <1>2, <1>3 DEF HandlerStep

\* A client returns what is on its wire; one that is refused has no connection.
LEMMA ClientRefused ==
  ASSUME Inv, RefusalInv, NEW c \in Clients, ClientStep(c) PROVE RefusalInv'
<1>. USE DEF RefusalInv
<1>0. /\ \A b \in Clients : Spared(b) => conn[b] \in {"replying", "dropped", "joined"} \cup Ended
      /\ conn \in [Clients -> {"none", "backlog"} \cup Live \cup Closed]
      /\ result \in [Clients -> ReplyEnvelope \cup Failure \cup {NoResult}]
      /\ stage \in [Clients -> {"idle", "connected", "sent", "done"}]
      /\ wire \in [Clients -> ReplyEnvelope \cup {NoReply}]
  BY DEF Spared, Inv, TypeOK
<1>1. CASE Connect(c)
  <2>1. /\ UNCHANGED <<wire, result, reply, queue, ledger>>
        /\ stage' = [stage EXCEPT ![c] = "connected"] /\ stage[c] = "idle"
        /\ conn' = [conn EXCEPT ![c] = "backlog"] /\ conn[c] = "none"
    BY <1>1 DEF Connect, routerVars, Inv, ConnInv
  <2>2. \A b \in Clients : Spared(b) => Spared(b)'
    BY <1>0, <2>1 DEF Spared, Ended
  <2>3. ~Spared(c)
    BY <2>1 DEF Spared, Ended
  <2>. QED
    BY <1>0, <2>1, <2>2, <2>3
<1>2. CASE ConnectRefused(c)
  <2>1. /\ UNCHANGED <<wire, conn, reply, queue, ledger>> /\ conn[c] = "none"
        /\ stage' = [stage EXCEPT ![c] = "done"]
        /\ result' = [result EXCEPT ![c] = [kind |-> "refused"]]
    BY <1>2 DEF ConnectRefused, Return, serverVars, routerVars, Inv, ConnInv
  <2>2. \A b \in Clients : Spared(b) => Spared(b)'
    BY <2>1 DEF Spared
  <2>. QED
    BY <1>0, <2>1, <2>2
<1>3. CASE SendFrame(c) \/ ServerClosed(c) \/ ClientTimeout(c)
  <2>1. /\ UNCHANGED <<wire, conn, reply, queue, ledger>> /\ stage[c] # "done"
        /\ \A b \in Clients \ {c} : stage'[b] = stage[b] /\ result'[b] = result[b]
        /\ result'[c] \in {result[c], [kind |-> "closed"], [kind |-> "timeout"]}
    BY <1>0, <1>3 DEF SendFrame, ServerClosed, ClientTimeout, Return, serverVars, routerVars
  <2>2. \A b \in Clients : Spared(b) => Spared(b)'
    BY <2>1 DEF Spared
  <2>. QED
    BY <1>0, <2>1, <2>2
<1>4. CASE Receive(c)
  <2>1. /\ UNCHANGED <<wire, conn, reply, queue, ledger>> /\ wire[c] \in ReplyEnvelope
        /\ stage' = [stage EXCEPT ![c] = "done"]
        /\ result' = [result EXCEPT ![c] = IF wire[c].id = RequestId[c] THEN wire[c]
                                           ELSE [kind |-> "id_mismatch"]]
    BY <1>0, <1>4 DEF Receive, Return, serverVars, routerVars
  <2>2. \A b \in Clients : Spared(b) => Spared(b)'
    BY <2>1 DEF Spared
  <2>3. wire[c].kind \in {"success", "error"}
    BY <2>1 DEF ReplyEnvelope
  <2>4. /\ wire[c].id # RequestId[c] => Spared(c)
        /\ wire[c].kind = "error" /\ wire[c].code \in Early => Spared(c)
    BY <2>3 DEF Refuses
  <2>5. \/ result'[c] = wire[c]
        \/ result'[c] = [kind |-> "id_mismatch"] /\ Spared(c)
    BY <1>0, <2>1, <2>4
  <2>6. /\ result'[c].kind # "refused"
        /\ result'[c].kind = "id_mismatch" \/ (result'[c].kind = "error" /\ result'[c].code \in Early)
           => Spared(c)
    BY <2>3, <2>4, <2>5
  <2>7. \A b \in Clients \ {c} : stage'[b] = stage[b] /\ result'[b] = result[b]
    BY <1>0, <2>1
  <2>. QED
    BY <2>1, <2>2, <2>6, <2>7
<1>. QED
  BY <1>1, <1>2, <1>3, <1>4 DEF ClientStep

\* The listener moves connections, and closes those it drops.
LEMMA ListenerSpares == ASSUME Inv, RefusalInv, ListenerStep PROVE RefusalInv'
<1>. USE DEF RefusalInv
<1>0. conn \in [Clients -> {"none", "backlog"} \cup Live \cup Closed]
  BY DEF Inv, TypeOK
<1>1. UNCHANGED <<stage, wire, result, reply, queue, ledger>>
  BY DEF ListenerStep, Accept, Join, ListenerBreak, ListenerDrained, ListenerFail, clientVars, routerVars
<1>2. \A c \in Clients :
        \/ conn'[c] = conn[c]
        \/ conn[c] = "backlog" /\ conn'[c] \in {"dropped", "reading"}
        \/ conn[c] \in Live /\ conn'[c] = "dropped"
        \/ conn[c] \in Ended /\ conn'[c] = "joined"
  <2>1. CASE Accept
    <3>1. Head(backlog) \in Clients /\ conn[Head(backlog)] = "backlog"
      BY <2>1, HeadTailProperties, LenProperties, EmptySeq DEF Accept, Inv, TypeOK, BacklogInv
    <3>2. \/ conn' = [conn EXCEPT ![Head(backlog)] = "dropped"]
          \/ conn' = [conn EXCEPT ![Head(backlog)] = "reading"]
      BY <2>1 DEF Accept
    <3>. QED
      BY <1>0, <3>1, <3>2
  <2>2. ASSUME NEW b \in Clients, Join(b)
        PROVE  \A c \in Clients : conn'[c] = conn[c] \/ (conn[c] \in Ended /\ conn'[c] = "joined")
    BY <1>0, <2>2 DEF Join
  <2>3. CASE ListenerBreak \/ ListenerDrained \/ ListenerFail
    BY <1>0, <2>3 DEF ListenerBreak, ListenerDrained, ListenerFail, ResetBacklog
  <2>. QED
    BY <2>1, <2>2, <2>3 DEF ListenerStep
<1>3. \A c \in Clients : Spared(c) => Spared(c)'
  BY <1>1, <1>2 DEF Spared, Ended
<1>4. \A c \in Clients : reply[c] # NoReply => conn'[c] \notin {"none", "backlog", "reading", "sending"}
  BY <1>2, <1>1 DEF Ended
<1>. QED
  BY <1>1, <1>2, <1>3, <1>4 DEF Ended, Live

\* The router answers what it takes from the queue, and drops the rest.
LEMMA RouterSpares == ASSUME Inv, RefusalInv, RouterStep PROVE RefusalInv'
<1>. USE DEF RefusalInv
<1>0. /\ \A b \in Clients : Spared(b) => conn[b] \in {"replying", "dropped", "joined"} \cup Ended
      /\ reply \in [Clients -> ReplyEnvelope \cup {NoReply, Dropped}]
  BY DEF Spared, Inv, TypeOK
<1>1. CASE RouteRequest
  <2>1. PICK c \in Clients : \E r \in RouteOutcomes(state, ui, RequestId[c], frame[c]) :
          /\ c = queue[1] /\ 1 \in DOMAIN queue /\ conn[c] \in HandedOver
          /\ queue' = Tail(queue) /\ frame[c] \in DaemonCommand /\ r.reply \in ReplyEnvelope
          /\ ledger' = Append(ledger, [client |-> c, command |-> frame[c], reply |-> r.reply])
          /\ reply' = IF conn[c] \in Awaiting THEN [reply EXCEPT ![c] = r.reply] ELSE reply
    BY <1>1, RouteRequestFacts
  <2>2. PICK r \in RouteOutcomes(state, ui, RequestId[c], frame[c]) :
          /\ r.reply \in ReplyEnvelope
          /\ ledger' = Append(ledger, [client |-> c, command |-> frame[c], reply |-> r.reply])
          /\ reply' = IF conn[c] \in Awaiting THEN [reply EXCEPT ![c] = r.reply] ELSE reply
    BY <2>1
  <2>3. UNCHANGED <<stage, wire, result, conn>>
    BY <1>1 DEF RouteRequest, clientVars
  <2>4. ~Refuses(c, r.reply)
    BY RoutingRefusesNothing
  <2>5. \A b \in Clients : Spared(b) => Spared(b)'
    <3>1. PICK entry \in LedgerEntry : ledger' = Append(ledger, entry) /\ entry.client = c
      BY <2>1, <2>2 DEF LedgerEntry
    <3>2. queue # <<>> /\ c = Head(queue) /\ queue' = Tail(queue)
      BY <1>1, <2>1 DEF RouteRequest, Inv, TypeOK
    <3>. QED
      BY <1>0, <2>3, <3>1, <3>2, SparedStays
  <2>6. \A b \in Clients : reply'[b] = reply[b] \/ (b = c /\ reply'[b] = r.reply /\ conn[c] \in Awaiting)
    BY <1>0, <2>2
  <2>. QED
    BY <2>3, <2>4, <2>5, <2>6 DEF Awaiting
<1>2. CASE RouterStart \/ RouterClose
  <2>1. /\ UNCHANGED <<stage, wire, result, conn, ledger>>
        /\ UNCHANGED <<queue, reply>> \/ DropRequests
    BY <1>2 DEF RouterStart, RouterClose, clientVars
  <2>2. UNCHANGED queue \/ queue' = <<>>
    BY <2>1 DEF DropRequests
  <2>3. \A b \in Clients : reply'[b] = reply[b] \/ (conn[b] \in Awaiting /\ reply'[b] = Dropped)
    BY <2>1 DEF DropRequests
  <2>4. \A b \in Clients : Spared(b) => Spared(b)'
    BY <2>1, <2>2 DEF Spared
  <2>5. \A b \in Clients : ~Refuses(b, Dropped)
    BY DEF Refuses, Dropped
  <2>. QED
    BY <2>1, <2>3, <2>4, <2>5 DEF Awaiting
<1>3. CASE RouterCancel \/ RouterBreak \/ HandleUiEvent
  <2>1. UNCHANGED <<clientVars, conn, reply, queue, ledger>>
    BY <1>3 DEF RouterCancel, RouterBreak, HandleUiEvent, HandleEvent, serverVars
  <2>. QED
    BY <2>1 DEF clientVars, Spared
<1>. QED
  BY <1>1, <1>2, <1>3 DEF RouterStep

\* Every step keeps refusals true.
LEMMA RefusalStep == ASSUME Inv, RefusalInv, [Next]_vars PROVE RefusalInv'
<1>1. RefusalInv /\ UNCHANGED <<clientVars, serverVars, routerVars>> => RefusalInv'
  BY DEF RefusalInv, Spared, clientVars, serverVars, routerVars
<1>2. ProcessStep \/ Rest \/ UNCHANGED vars => UNCHANGED <<clientVars, serverVars, routerVars>>
  BY DEF ProcessStep, MainCancel, Exit, Signal, Rest, vars
<1>. QED
  BY <1>1, <1>2, ClientRefused, HandlerRefuses, ListenerSpares, RouterSpares DEF Next

\* A caller that is told its request was refused before routing can retry: the
\* request had no effect and will have none (handle_connection, dispatch_command_with_config).
THEOREM RefusalsHaveNoEffect == Spec => []RefusedWasNotRouted
<1>1. Init => RefusalInv
  BY DEF Init, RefusalInv, Refuses, NoReply, NoResult, Ended
<1>2. Inv /\ RefusalInv /\ [Next]_vars => RefusalInv'
  BY RefusalStep
<1>3. Inv /\ RefusalInv => RefusedWasNotRouted
  <2>. SUFFICES ASSUME Inv, RefusalInv, NEW c \in Clients, c \in Routed PROVE
         /\ result[c].kind \notin {"refused", "id_mismatch"}
         /\ ~(result[c].kind = "error" /\ result[c].code \in Early)
    BY DEF RefusedWasNotRouted, Early
  <2>1. PICK k \in DOMAIN ledger : ledger[k].client = c
    BY DEF Routed
  <2>2. ~Spared(c) /\ conn[c] # "none"
    BY <2>1 DEF Spared, Inv, LedgerInv, HandedOver, Awaiting, Ended
  <2>. QED
    BY <2>2 DEF RefusalInv
<1>. QED
  BY <1>1, <1>2, <1>3, InvHolds, PTL DEF Spec

----------------------------------------------------------------------------
(* The refinement: the daemon implements DaemonService                     *)

\* What DaemonService sees of the daemon (the instance Service of DaemonIpc).
Request == [c \in Clients |-> IF frame[c] \in {Malformed, WrongVersion} THEN NoFrame ELSE frame[c]]
Told    == [c \in Clients |-> Outcome(c)]
Stopped == \E c \in Clients : "shutdown" \in RoutedCommands(c)

\* What a caller may be answered: the outcome of its own request, or an error
\* that its handler made up.
Answers(c) ==
  {NoReply, Dropped, Outcome(c), Error(UnknownId, "invalid_frame"),
   Error(RequestId[c], "unsupported_version")}

\* Replies are answers, and a call that goes on has no result.
ReplyInv ==
  \A c \in Clients :
    /\ reply[c] \in Answers(c) /\ wire[c] \in Answers(c)
    /\ stage[c] # "done" => result[c] = NoResult

\* DaemonService has a reducer of its own, which is the same.
LEMMA SameReducer ==
  /\ \A s, c : Service!Reduce(s, c) = Reduce(s, c)
  /\ \A c : Service!Valid(c) <=> Valid(c)
  /\ Service!DefaultSnapshot = DefaultSnapshot
BY DEF Service!Reduce, Reduce, Service!Transition, Transition, Service!Show, Show, Service!Hide, Hide,
       Service!Observable, Observable, Service!SaturatingInc, SaturatingInc, Service!Valid, Valid,
       Service!DefaultSnapshot, DefaultSnapshot

\* The reply that ledger l holds for c, which is Outcome(c) of l = ledger.
ReplyTo(l, c) ==
  IF \E i \in DOMAIN l : l[i].client = c
  THEN l[CHOOSE i \in DOMAIN l : l[i].client = c].reply ELSE NoReply

\* The outcome of DaemonIpc, before and after a step.
LEMMA OutcomeIsReply ==
  ASSUME NEW c PROVE Outcome(c) = ReplyTo(ledger, c) /\ Outcome(c)' = ReplyTo(ledger', c)
BY DEF Outcome, Routed, ReplyTo

\* One more entry, of a client that had none, is that client's reply, and no other's.
LEMMA AppendReplies ==
  ASSUME NEW l \in Seq(LedgerEntry), NEW entry \in LedgerEntry, NEW b,
         \A k \in DOMAIN l : l[k].client # entry.client,
         \A j, k \in DOMAIN l : l[j].client = l[k].client => j = k
  PROVE  ReplyTo(Append(l, entry), b) = IF b = entry.client THEN entry.reply ELSE ReplyTo(l, b)
<1>. DEFINE m == Append(l, entry)
            n == Len(l) + 1
            I(i) == m[i].client = b
            J(i) == l[i].client = b
<1>1. /\ DOMAIN m = DOMAIN l \cup {n}
      /\ \A k \in DOMAIN l : m[k] = l[k] /\ k # n
      /\ m[n] = entry
  BY AppendProperties, LenProperties
<1>2. CASE b = entry.client
  <2>1. \A i \in DOMAIN m : I(i) <=> i = n
    BY <1>1, <1>2
  <2>2. (CHOOSE i \in DOMAIN m : I(i)) = n /\ n \in DOMAIN m
    BY <1>1, <2>1
  <2>. QED
    BY <1>1, <1>2, <2>2 DEF ReplyTo
<1>3. CASE b # entry.client /\ \E k \in DOMAIN l : J(k)
  <2>1. PICK k \in DOMAIN l : J(k)
    BY <1>3
  <2>2. /\ \A i \in DOMAIN l : J(i) <=> i = k
        /\ \A i \in DOMAIN m : I(i) <=> i = k
    BY <1>1, <1>3, <2>1
  <2>3. (CHOOSE i \in DOMAIN l : J(i)) = k /\ (CHOOSE i \in DOMAIN m : I(i)) = k
    BY <1>1, <2>1, <2>2
  <2>. QED
    BY <1>1, <1>3, <2>1, <2>3 DEF ReplyTo
<1>4. CASE b # entry.client /\ ~\E k \in DOMAIN l : J(k)
  <2>1. ~\E i \in DOMAIN m : I(i)
    BY <1>1, <1>4
  <2>. QED
    BY <1>4, <2>1 DEF ReplyTo
<1>. QED
  BY <1>2, <1>3, <1>4

\* Routing succeeds and applies the command, or fails and changes nothing.
LEMMA RoutingPerforms ==
  ASSUME NEW s, NEW shown, NEW id, NEW c, NEW r \in RouteOutcomes(s, shown, id, c)
  PROVE  \/ Valid(c) /\ r.state = Reduce(s, c) /\ r.reply = Success(id, r.state)
         \/ /\ r.state = s
            /\ \E code \in {"invalid_command", "ui_unavailable", "internal"} : r.reply = Error(id, code)
<1>. DEFINE next == Reduce(s, c)
<1>1. CASE ~Valid(c)
  BY <1>1 DEF RouteOutcomes
<1>2. CASE Valid(c) /\ next = s
  BY <1>2 DEF RouteOutcomes
<1>3. CASE Valid(c) /\ next # s
  <2>1. PICK o \in UiOutcome[next.visibility] :
          r = IF o = "ok"
              THEN [state |-> next, ui |-> UiSnapshot(next), reply |-> Success(id, next)]
              ELSE [state |-> s, ui |-> shown, reply |-> Error(id, PublicCode(o))]
    BY <1>3 DEF RouteOutcomes
  <2>. QED
    BY <1>3, <2>1 DEF PublicCode
<1>. QED
  BY <1>1, <1>2, <1>3
\* A step that routes nothing leaves every outcome.
LEMMA OutcomesStay ==
  ASSUME UNCHANGED ledger
  PROVE  /\ \A c \in Clients : Outcome(c)' = Outcome(c) /\ Answers(c)' = Answers(c)
         /\ UNCHANGED <<Told, Stopped>>
BY DEF Outcome, Routed, Answers, Told, Stopped, RoutedCommands

\* Routing c gives c its outcome, and no other client a new one.
LEMMA OutcomeIsGiven ==
  ASSUME Inv, NEW c \in Clients, NEW entry \in LedgerEntry, entry.client = c,
         \A k \in DOMAIN ledger : ledger[k].client # c,
         ledger' = Append(ledger, entry)
  PROVE  /\ Outcome(c)' = entry.reply
         /\ \A b \in Clients \ {c} : Outcome(b)' = Outcome(b)
<1>1. \A b : ReplyTo(ledger', b) = IF b = c THEN entry.reply ELSE ReplyTo(ledger, b)
  <2>1. /\ ledger \in Seq(LedgerEntry)
        /\ \A j, k \in DOMAIN ledger : ledger[j].client = ledger[k].client => j = k
    BY DEF Inv, TypeOK, LedgerInv
  <2>2. \A k \in DOMAIN ledger : ledger[k].client # entry.client
    OBVIOUS
  <2>3. ASSUME NEW b
        PROVE  ReplyTo(Append(ledger, entry), b) = IF b = entry.client THEN entry.reply ELSE ReplyTo(ledger, b)
    BY <2>1, <2>2, AppendReplies
  <2>. QED
    BY <2>3
<1>2. Outcome(c)' = ReplyTo(ledger', c)
  BY OutcomeIsReply
<1>3. ASSUME NEW b \in Clients \ {c} PROVE Outcome(b)' = Outcome(b)
  <2>1. Outcome(b)' = ReplyTo(ledger', b) /\ Outcome(b) = ReplyTo(ledger, b)
    BY OutcomeIsReply
  <2>. QED
    BY <1>1, <2>1
<1>. QED
  BY <1>1, <1>2, <1>3
\* A step that routes nothing and writes only such answers keeps ReplyInv.
LEMMA AnswersStay ==
  ASSUME ReplyInv, UNCHANGED ledger,
         \A c \in Clients : reply'[c] \in Answers(c) \cup {reply[c]},
         \A c \in Clients : wire'[c] \in {wire[c], reply[c]},
         \A c \in Clients : stage'[c] # "done" => stage[c] # "done" /\ result'[c] = result[c]
  PROVE  ReplyInv'
BY OutcomesStay DEF ReplyInv

\* Every step keeps replies answers.
LEMMA ReplyStep == ASSUME Inv, RefusalInv, ReplyInv, [Next]_vars PROVE ReplyInv'
<1>0. /\ reply \in [Clients -> ReplyEnvelope \cup {NoReply, Dropped}]
      /\ wire \in [Clients -> ReplyEnvelope \cup {NoReply}]
      /\ stage \in [Clients -> {"idle", "connected", "sent", "done"}]
      /\ result \in [Clients -> ReplyEnvelope \cup Failure \cup {NoResult}]
  BY DEF Inv, TypeOK
<1>1. CASE UNCHANGED <<clientVars, reply, ledger>>
  BY <1>1, AnswersStay DEF clientVars
<1>2. ASSUME NEW c \in Clients, ClientStep(c) PROVE ReplyInv'
  <2>1. UNCHANGED <<wire, reply, ledger>>
    BY <1>2 DEF ClientStep, Connect, ConnectRefused, SendFrame, Receive, ServerClosed, ClientTimeout,
       serverVars, routerVars
  <2>2. \A b \in Clients : stage'[b] # "done" => stage[b] # "done" /\ result'[b] = result[b]
    BY <1>0, <1>2 DEF ClientStep, Connect, ConnectRefused, SendFrame, Receive, ServerClosed,
       ClientTimeout, Return
  <2>. QED
    BY <2>1, <2>2, AnswersStay
<1>3. ASSUME NEW c \in Clients, HandlerStep(c) PROVE ReplyInv'
  <2>1. UNCHANGED <<stage, result, ledger>>
    BY <1>3 DEF HandlerStep, ReadFrame, Enqueue, EnqueueFails, HandlerCancelled, PollReply,
       PollCancelled, WriteReply, HandlerTimeout, clientVars, routerVars
  <2>2. CASE ReadFrame(c)
    <3>1. /\ UNCHANGED wire
          /\ \E r \in {reply[c], Error(UnknownId, "invalid_frame"), Error(RequestId[c], "unsupported_version")} :
               reply' = [reply EXCEPT ![c] = r]
      BY <1>0, <2>2 DEF ReadFrame, Answering, clientVars
    <3>2. \A b \in Clients : reply'[b] \in Answers(b) \cup {reply[b]}
      BY <1>0, <3>1 DEF Answers
    <3>. QED
      BY <2>1, <3>1, <3>2, AnswersStay
  <2>3. CASE WriteReply(c)
    <3>1. UNCHANGED reply /\ wire' \in {wire, [wire EXCEPT ![c] = reply[c]]}
      BY <2>3 DEF WriteReply
    <3>2. \A b \in Clients : wire'[b] \in {wire[b], reply[b]}
      BY <1>0, <3>1
    <3>. QED
      BY <2>1, <3>1, <3>2, AnswersStay
  <2>4. CASE \/ Enqueue(c) \/ EnqueueFails(c) \/ HandlerCancelled(c) \/ PollReply(c)
             \/ PollCancelled(c) \/ HandlerTimeout(c)
    BY <1>1, <2>4 DEF Enqueue, EnqueueFails, HandlerCancelled, PollReply, PollCancelled,
       HandlerTimeout, routerVars
  <2>. QED
    BY <1>3, <2>2, <2>3, <2>4 DEF HandlerStep
<1>4. CASE ListenerStep
  BY <1>1, <1>4 DEF ListenerStep, Accept, Join, ListenerBreak, ListenerDrained, ListenerFail, routerVars
<1>5. CASE RouterStart \/ RouterClose
  <2>1. UNCHANGED <<clientVars, ledger>> /\ (UNCHANGED reply \/ DropRequests)
    BY <1>5 DEF RouterStart, RouterClose
  <2>2. \A c \in Clients : reply'[c] \in Answers(c) \cup {reply[c]}
    BY <2>1 DEF DropRequests, Answers
  <2>. QED
    BY <2>1, <2>2, AnswersStay DEF clientVars
<1>6. CASE RouteRequest
  <2>1. PICK c \in Clients : \E r \in RouteOutcomes(state, ui, RequestId[c], frame[c]) :
          /\ \A k \in DOMAIN ledger : ledger[k].client # c
          /\ frame[c] \in DaemonCommand /\ r.reply \in ReplyEnvelope
          /\ ledger' = Append(ledger, [client |-> c, command |-> frame[c], reply |-> r.reply])
          /\ reply' = IF conn[c] \in Awaiting THEN [reply EXCEPT ![c] = r.reply] ELSE reply
    BY <1>6, RouteRequestFacts
  <2>2. PICK entry \in LedgerEntry :
          /\ entry.client = c /\ ledger' = Append(ledger, entry)
          /\ reply' = IF conn[c] \in Awaiting THEN [reply EXCEPT ![c] = entry.reply] ELSE reply
    <3>1. PICK r :
            /\ r.reply \in ReplyEnvelope
            /\ ledger' = Append(ledger, [client |-> c, command |-> frame[c], reply |-> r.reply])
            /\ reply' = IF conn[c] \in Awaiting THEN [reply EXCEPT ![c] = r.reply] ELSE reply
      BY <2>1
    <3>2. [client |-> c, command |-> frame[c], reply |-> r.reply] \in LedgerEntry
      BY <2>1, <3>1 DEF LedgerEntry
    <3>. QED
      BY <3>1, <3>2
  <2>3. Outcome(c)' = entry.reply /\ \A b \in Clients \ {c} : Outcome(b)' = Outcome(b)
    BY <2>1, <2>2, OutcomeIsGiven
  <2>4. Outcome(c) = NoReply
    BY <2>1 DEF Outcome, Routed
  <2>5. \A b \in Clients : Answers(b) \subseteq Answers(b)'
    <3>1. Answers(c) \subseteq Answers(c)'
      BY <2>4 DEF Answers
    <3>2. ASSUME NEW b \in Clients \ {c} PROVE Answers(b)' = Answers(b)
      BY <2>3 DEF Answers
    <3>. QED
      BY <3>1, <3>2
  <2>6. reply'[c] \in Answers(c)' \cup {reply[c]} /\ \A b \in Clients \ {c} : reply'[b] = reply[b]
    BY <1>0, <2>2, <2>3 DEF Answers
  <2>7. UNCHANGED <<stage, wire, result>>
    BY <1>6 DEF RouteRequest, clientVars
  <2>. QED
    BY <2>5, <2>6, <2>7 DEF ReplyInv
<1>7. CASE RouterCancel \/ RouterBreak \/ HandleUiEvent
  BY <1>1, <1>7 DEF RouterCancel, RouterBreak, HandleUiEvent, HandleEvent, serverVars
<1>8. CASE ProcessStep \/ Rest \/ UNCHANGED vars
  BY <1>1, <1>8 DEF ProcessStep, MainCancel, Exit, Signal, Rest, vars, serverVars, routerVars
<1>. QED
  BY <1>2, <1>3, <1>4, <1>5, <1>6, <1>7, <1>8 DEF Next, RouterStep
\* A user's event never selects past the list.
LEMMA EventsAreFrontendCommands ==
  ASSUME TypeOK, NEW e \in UiEvents, NEW c \in UiCommands(e) PROVE c \in FrontendCommands
<1>1. QueryText(state.query) \in Text
  BY DEF TypeOK, DaemonSnapshot, QueryText, OptText, Text
<1>2. CASE c.kind = "select"
  <2>1. c.index \in UNION {0..LastIndex(Results[t]) : t \in Text}
    BY <1>1, <1>2, UiCommandsAreCommands
  <2>. QED
    BY <1>2, <2>1, UiCommandsAreCommands DEF FrontendCommands, DaemonCommand
<1>3. CASE c.kind # "select"
  BY <1>3, UiCommandsAreCommands DEF FrontendCommands, DaemonCommand
<1>. QED
  BY <1>2, <1>3

\* A frame that the daemon can route is a request; the others are none.
LEMMA SendInvokes ==
  ASSUME Inv, NEW c \in Clients, SendFrame(c)
  PROVE  Service!Invoke(c) \/ UNCHANGED <<Request, Told, result, state, Stopped>>
<1>1. /\ frame \in [Clients -> Frames \cup {NoFrame}] /\ frame[c] = NoFrame
      /\ NoFrame \notin {Malformed, WrongVersion}
  BY DEF Inv, TypeOK, ConnInv, SendFrame, NoFrame, Malformed, WrongVersion
<1>2. PICK f \in Frames : frame' = [frame EXCEPT ![c] = f]
  BY DEF SendFrame
<1>3. UNCHANGED <<result, state, ledger>>
  BY DEF SendFrame, routerVars
<1>4. UNCHANGED <<Told, Stopped>>
  BY <1>3, OutcomesStay
<1>5. CASE f \in {Malformed, WrongVersion}
  <2>1. Request' = Request
    BY <1>1, <1>2, <1>5 DEF Request
  <2>. QED
    BY <1>3, <1>4, <2>1
<1>6. CASE f \notin {Malformed, WrongVersion}
  <2>1. Request[c] = NoFrame /\ Request' = [Request EXCEPT ![c] = f]
    BY <1>1, <1>2, <1>6 DEF Request
  <2>. QED
    BY <1>3, <1>4, <1>6, <2>1 DEF Service!Invoke, Service!NoRequest, NoFrame, Request, Told, Stopped
<1>. QED
  BY <1>5, <1>6

\* What a call returns is its outcome, a refusal of what was not routed, or silence.
LEMMA ReturnsTell ==
  ASSUME Inv, RefusalInv, ReplyInv, NEW c \in Clients,
         Receive(c) \/ ServerClosed(c) \/ ClientTimeout(c) \/ ConnectRefused(c)
  PROVE  Service!Return(c)
<1>1. /\ wire \in [Clients -> ReplyEnvelope \cup {NoReply}]
      /\ result \in [Clients -> ReplyEnvelope \cup Failure \cup {NoResult}]
      /\ stage \in [Clients -> {"idle", "connected", "sent", "done"}]
      /\ RequestId[c] \in Nat \ {0}
  BY RequestIdsAreKnown DEF Inv, TypeOK
<1>2. UNCHANGED <<frame, state, ledger>> /\ stage[c] # "done"
  BY DEF Receive, ServerClosed, ClientTimeout, ConnectRefused, routerVars
<1>3. UNCHANGED <<Request, Told, Stopped>> /\ result[c] = NoResult
  BY <1>2, OutcomesStay DEF Request, ReplyInv
<1>4. Told[c] = Outcome(c)
  BY DEF Told
<1>5. CASE ServerClosed(c) \/ ClientTimeout(c)
  <2>1. \E r \in Service!Silences : result' = [result EXCEPT ![c] = r]
    BY <1>5 DEF ServerClosed, ClientTimeout, Return, Service!Silences
  <2>. QED
    BY <1>2, <1>3, <2>1 DEF Service!Return, Service!NoResult, NoResult, Request, Told, Stopped
<1>6. CASE ConnectRefused(c)
  <2>1. \E r \in Service!Rejections : result' = [result EXCEPT ![c] = r]
    BY <1>6 DEF ConnectRefused, Return, Service!Rejections
  <2>2. conn[c] = "none"
    BY <1>6 DEF ConnectRefused, Inv, ConnInv
  <2>3. c \notin Routed
    BY <2>2 DEF Inv, LedgerInv, Routed, HandedOver, Awaiting, Ended
  <2>4. Told[c] = NoReply
    BY <1>4, <2>3 DEF Outcome
  <2>. QED
    BY <1>2, <1>3, <2>1, <2>4 DEF Service!Return, Service!NoResult, Service!NoOutcome, NoResult, NoReply,
       Request, Told, Stopped
<1>7. CASE Receive(c)
  <2>1. /\ wire[c] \in ReplyEnvelope /\ wire[c] \in Answers(c) /\ wire[c] \notin {NoReply, Dropped}
        /\ result' = [result EXCEPT ![c] = IF wire[c].id = RequestId[c] THEN wire[c]
                                           ELSE [kind |-> "id_mismatch"]]
    <3>1. wire[c] \in ReplyEnvelope
      BY <1>1, <1>7 DEF Receive
    <3>2. wire[c].kind \in {"success", "error"}
      BY <3>1 DEF ReplyEnvelope
    <3>. QED
      BY <1>7, <3>1, <3>2 DEF Receive, Return, ReplyInv, NoReply, Dropped
  <2>2. CASE Refuses(c, wire[c])
    <3>1. Outcome(c) = NoReply
      BY <2>2 DEF RefusalInv, Spared, Outcome, Routed
    <3>2. wire[c] \in {Error(UnknownId, "invalid_frame"), Error(RequestId[c], "unsupported_version")}
      BY <2>1, <3>1 DEF Answers
    <3>3. \E r \in Service!Rejections : result' = [result EXCEPT ![c] = r]
      <4>1. CASE wire[c].id = RequestId[c]
        <5>1. wire[c] = Error(RequestId[c], "unsupported_version")
          BY <1>1, <3>2, <4>1 DEF Error, UnknownId
        <5>2. Error(RequestId[c], "unsupported_version") \in Service!Rejections
          BY DEF Service!Rejections, Error
        <5>. QED
          BY <2>1, <4>1, <5>1, <5>2
      <4>2. CASE wire[c].id # RequestId[c]
        <5>1. [kind |-> "id_mismatch"] \in Service!Rejections
          BY DEF Service!Rejections
        <5>. QED
          BY <2>1, <4>2, <5>1
      <4>. QED
        BY <4>1, <4>2
    <3>. QED
      BY <1>2, <1>3, <1>4, <3>1, <3>3 DEF Service!Return, Service!NoResult, Service!NoOutcome, NoResult,
         NoReply, Request, Told, Stopped
  <2>3. CASE ~Refuses(c, wire[c])
    <3>1. wire[c].kind \in {"success", "error"}
      BY <2>1 DEF ReplyEnvelope
    <3>2. wire[c].id = RequestId[c] /\ ~(wire[c].kind = "error" /\ wire[c].code \in Early)
      BY <2>3, <3>1 DEF Refuses
    <3>3. wire[c] = Outcome(c)
      BY <2>1, <3>2 DEF Answers, Error, Early
    <3>4. Told[c] # NoReply /\ result' = [result EXCEPT ![c] = Told[c]]
      BY <1>4, <2>1, <3>2, <3>3
    <3>. QED
      BY <1>2, <1>3, <3>4 DEF Service!Return, Service!NoResult, Service!NoOutcome, NoResult, NoReply,
         Request, Told, Stopped
  <2>. QED
    BY <2>2, <2>3
<1>. QED
  BY <1>5, <1>6, <1>7
\* Routing a request performs it, and its caller was told no refusal.
LEMMA RoutingIsPerforming ==
  ASSUME Inv, RefusalInv, ShutdownLeaves, RouteRequest PROVE \E c \in Clients : Service!Perform(c)
<1>1. PICK c \in Clients : \E r \in RouteOutcomes(state, ui, RequestId[c], frame[c]) :
        /\ c = queue[1] /\ 1 \in DOMAIN queue
        /\ frame[c] \in DaemonCommand /\ \A k \in DOMAIN ledger : ledger[k].client # c
        /\ state' = r.state /\ r.reply \in ReplyEnvelope
        /\ ledger' = Append(ledger, [client |-> c, command |-> frame[c], reply |-> r.reply])
  BY RouteRequestFacts
<1>2. PICK r \in RouteOutcomes(state, ui, RequestId[c], frame[c]) :
        /\ state' = r.state /\ r.reply \in ReplyEnvelope
        /\ ledger' = Append(ledger, [client |-> c, command |-> frame[c], reply |-> r.reply])
  BY <1>1
<1>. DEFINE entry == [client |-> c, command |-> frame[c], reply |-> r.reply]
<1>3. /\ entry \in LedgerEntry /\ ledger' = Append(ledger, entry)
      /\ entry.client = c /\ entry.command = frame[c] /\ entry.reply = r.reply
  BY <1>1, <1>2 DEF LedgerEntry
<1>. HIDE DEF entry
<1>4. UNCHANGED <<frame, result>> /\ router = "running"
  BY DEF RouteRequest, clientVars
<1>5. Request' = Request /\ Request[c] = frame[c] /\ frame[c] # NoFrame
  BY <1>1, <1>4, NoFrameIsNoCommand DEF Request, DaemonCommand, Malformed, WrongVersion
<1>6. Told[c] = NoReply /\ Told' = [Told EXCEPT ![c] = r.reply]
  <2>1. Outcome(c) = NoReply
    BY <1>1 DEF Outcome, Routed
  <2>2. Outcome(c)' = r.reply /\ \A b \in Clients \ {c} : Outcome(b)' = Outcome(b)
    BY <1>1, <1>3, OutcomeIsGiven
  <2>. QED
    BY <2>1, <2>2 DEF Told
<1>7. ~Stopped
  BY <1>4, RoutedShutdown DEF ShutdownLeaves, Stopped
<1>8. Stopped' <=> frame[c].kind = "shutdown"
  <2>1. /\ DOMAIN ledger' = DOMAIN ledger \cup {Len(ledger) + 1}
        /\ \A k \in DOMAIN ledger : ledger'[k] = ledger[k]
        /\ ledger'[Len(ledger) + 1] = entry
    BY <1>3, LedgerAppend DEF Inv, TypeOK
  <2>2. \A k \in DOMAIN ledger : ledger[k].client \in Clients
    BY MembersAreClients DEF Inv
  <2>3. \A k \in DOMAIN ledger : ledger[k].command.kind # "shutdown"
    BY <1>4 DEF ShutdownLeaves
  <2>4. (\E b \in Clients : "shutdown" \in RoutedCommands(b)')
        <=> \E k \in DOMAIN ledger' : ledger'[k].client \in Clients /\ ledger'[k].command.kind = "shutdown"
    BY DEF RoutedCommands
  <2>. QED
    BY <1>3, <2>1, <2>2, <2>3, <2>4 DEF Stopped
<1>9. result[c] \notin Service!Rejections
  <2>1. ~Spared(c) /\ conn[c] # "none"
    BY <1>1 DEF Spared, Inv, QueueInv, HandedOver, Awaiting, Ended
  <2>2. /\ result[c].kind \notin {"refused", "id_mismatch"}
        /\ ~(result[c].kind = "error" /\ result[c].code \in Early)
    BY <2>1 DEF RefusalInv
  <2>. QED
    BY <2>2 DEF Service!Rejections, Early
<1>10. \/ Valid(frame[c]) /\ state' = Reduce(state, frame[c]) /\ r.reply = Success(RequestId[c], state')
       \/ /\ state' = state
          /\ \E code \in {"invalid_command", "ui_unavailable", "internal"} : r.reply = Error(RequestId[c], code)
  BY <1>2, RoutingPerforms
<1>11. \/ /\ Service!Valid(Request[c])
          /\ state' = Service!Reduce(state, Request[c])
          /\ Told' = [Told EXCEPT ![c] = Service!Done(state', RequestId[c])]
       \/ /\ \E f \in Service!Failed(RequestId[c], {"invalid_command", "ui_unavailable", "internal"}) :
               Told' = [Told EXCEPT ![c] = f]
          /\ state' = state
  <2>1. CASE Valid(frame[c]) /\ state' = Reduce(state, frame[c]) /\ r.reply = Success(RequestId[c], state')
    BY <1>5, <1>6, <2>1, SameReducer DEF Service!Done, Success
  <2>2. ASSUME NEW code \in {"invalid_command", "ui_unavailable", "internal"},
               state' = state, r.reply = Error(RequestId[c], code)
        PROVE  /\ \E f \in Service!Failed(RequestId[c], {"invalid_command", "ui_unavailable", "internal"}) :
                    Told' = [Told EXCEPT ![c] = f]
               /\ state' = state
    BY <1>6, <2>2 DEF Service!Failed, Error
  <2>. QED
    BY <1>10, <2>1, <2>2
<1>12. Stopped' = (Request[c].kind = "shutdown")
  BY <1>5, <1>8
<1>13. Service!Perform(c)
  BY <1>4, <1>5, <1>6, <1>7, <1>9, <1>11, <1>12
     DEF Service!Perform, Service!NoRequest, Service!NoOutcome, NoFrame, NoReply, Request, Told, Stopped
<1>. QED
  BY <1>13

\* What the user does in the window is an action of the frontend, or nothing.
LEMMA EventsAct ==
  ASSUME Inv, ShutdownLeaves, HandleUiEvent
  PROVE  Service!Act \/ UNCHANGED <<Request, Told, result, state, Stopped>>
<1>1. UNCHANGED <<frame, result, ledger>> /\ router = "running"
  BY DEF HandleUiEvent, HandleEvent, clientVars
<1>2. UNCHANGED <<Request, Told, result, Stopped>>
  BY <1>1, OutcomesStay DEF Request
<1>3. ~Stopped
  BY <1>1, RoutedShutdown DEF ShutdownLeaves, Stopped
<1>4. PICK e \in UiEvents :
        \/ \E c \in UiCommands(e) : \E r \in RouteOutcomes(state, ui, UnknownId, c) : state' = r.state
        \/ state' = state
  BY DEF HandleUiEvent, HandleEvent
<1>5. ASSUME NEW c \in UiCommands(e), NEW r \in RouteOutcomes(state, ui, UnknownId, c), state' = r.state
      PROVE  state' = state \/ \E a \in FrontendCommands : state' = Service!Reduce(state, a)
  <2>1. c \in FrontendCommands
    BY EventsAreFrontendCommands DEF Inv
  <2>2. state' = state \/ state' = Reduce(state, c)
    BY <1>5, RoutingPerforms
  <2>. QED
    BY <2>1, <2>2, SameReducer
<1>6. CASE \E a \in FrontendCommands : state' = Service!Reduce(state, a)
  BY <1>2, <1>3, <1>6 DEF Service!Act, Request, Told, Stopped
<1>. QED
  BY <1>2, <1>4, <1>5, <1>6

\* Every step of the daemon is one of the service's, or none that it shows.
LEMMA ServiceStep ==
  ASSUME Inv, RefusalInv, ReplyInv, ShutdownLeaves, [Next]_vars
  PROVE  Service!Next \/ UNCHANGED <<Request, Told, result, state, Stopped>>
<1>1. CASE UNCHANGED <<frame, result, state, ledger>>
  BY <1>1, OutcomesStay DEF Request
<1>2. ASSUME NEW c \in Clients, ClientStep(c)
      PROVE  Service!Next \/ UNCHANGED <<Request, Told, result, state, Stopped>>
  <2>1. CASE Connect(c)
    BY <1>1, <2>1 DEF Connect, routerVars
  <2>2. CASE SendFrame(c)
    BY <2>2, SendInvokes DEF Service!Next
  <2>3. CASE Receive(c) \/ ServerClosed(c) \/ ClientTimeout(c) \/ ConnectRefused(c)
    BY <2>3, ReturnsTell DEF Service!Next
  <2>. QED
    BY <1>2, <2>1, <2>2, <2>3 DEF ClientStep
<1>3. ASSUME NEW c \in Clients, HandlerStep(c) PROVE UNCHANGED <<frame, result, state, ledger>>
  BY <1>3 DEF HandlerStep, ReadFrame, Enqueue, EnqueueFails, HandlerCancelled, PollReply,
     PollCancelled, WriteReply, HandlerTimeout, clientVars, routerVars
<1>4. CASE ListenerStep
  BY <1>1, <1>4 DEF ListenerStep, Accept, Join, ListenerBreak, ListenerDrained, ListenerFail,
     clientVars, routerVars
<1>5. CASE RouteRequest
  BY <1>5, RoutingIsPerforming DEF Service!Next
<1>6. CASE HandleUiEvent
  BY <1>6, EventsAct DEF Service!Next
<1>7. CASE RouterStart \/ RouterCancel \/ RouterBreak \/ RouterClose
  BY <1>1, <1>7 DEF RouterStart, RouterCancel, RouterBreak, RouterClose, clientVars
<1>8. CASE ProcessStep \/ Rest \/ UNCHANGED vars
  BY <1>1, <1>8 DEF ProcessStep, MainCancel, Exit, Signal, Rest, vars, clientVars, routerVars
<1>. QED
  BY <1>1, <1>2, <1>3, <1>4, <1>5, <1>6, <1>7, <1>8 DEF Next, RouterStep

\* The daemon is one atomic, at-most-once state machine: whatever clients,
\* handlers, listener, router, timeouts and signals do, callers see each request
\* performed at most once, at one instant, on the state the earlier ones left.
THEOREM DaemonIsService == Spec => ImplementsService
<1>1. Init => Service!Init
  <2>. SUFFICES ASSUME Init PROVE Service!Init
    OBVIOUS
  <2>1. /\ Request = [c \in Clients |-> NoFrame] /\ Told = [c \in Clients |-> NoReply]
        /\ Stopped = FALSE /\ result = [c \in Clients |-> NoResult] /\ state = DefaultSnapshot
    BY DEF Init, Request, Told, Stopped, Outcome, Routed, RoutedCommands
  <2>. QED
    BY <2>1, SameReducer DEF Service!Init, Service!NoRequest, Service!NoOutcome, Service!NoResult, NoFrame,
       NoReply, NoResult, Request, Told, Stopped
<1>2. Inv /\ RefusalInv /\ ReplyInv /\ ShutdownLeaves /\ [Next]_vars => [Service!Next]_(Service!vars)
  BY ServiceStep DEF Service!vars, Request, Told, Stopped
<1>3. Init => RefusalInv /\ ReplyInv /\ ShutdownLeaves
  BY DEF Init, RefusalInv, Refuses, NoReply, NoResult, Ended, ReplyInv, Answers, ShutdownLeaves
<1>4. Inv /\ RefusalInv /\ ReplyInv /\ ShutdownLeaves /\ [Next]_vars
      => (RefusalInv /\ ReplyInv /\ ShutdownLeaves)'
  BY RefusalStep, ReplyStep, ShutdownStep
<1>. QED
  BY <1>1, <1>2, <1>3, <1>4, InvHolds, PTL DEF Spec, ImplementsService, Service!Spec

----------------------------------------------------------------------------
(* Silence means that the daemon stops                                     *)

\* The handler was ended from outside: by its timeout, or with the listener.
Aborted(c) == conn[c] \in {"expired", "dropped", "joined"}

\* A handler that has not handed its request over has no reply yet.
NoReplyYet ==
  \A c \in Clients : conn[c] \in {"none", "backlog", "reading", "sending"} => reply[c] = NoReply

\* Until something is cancelled, the handler of a queued request waits for its reply ...
QueuedWait ==
  \A i \in DOMAIN queue :
    Aborted(queue[i]) \/ cancelled \/ (conn[queue[i]] \in Awaiting /\ reply[queue[i]] = NoReply)

\* ... and that of a routed request has it.
RoutedHaveReplies ==
  \A k \in DOMAIN ledger :
    Aborted(ledger[k].client) \/ cancelled \/ reply[ledger[k].client] \notin {NoReply, Dropped}

\* Only a router that returns drops requests.
DropsMeanStopping == \A c \in Clients : reply[c] = Dropped => cancelled \/ RouterDone

SilenceInv ==
  NoReplyYet /\ QueuedWait /\ RoutedHaveReplies /\ DropsMeanStopping /\ SilenceMeansStopping

\* What is cancelled stays so, and a router that has returned does not come back.
LEMMA StopsStay ==
  ASSUME [Next]_vars PROVE (cancelled => cancelled') /\ (RouterDone => UNCHANGED router)
<1>1. CASE RouterStep
  BY <1>1 DEF RouterStep, RouterStart, RouteRequest, RouterCancel, RouterBreak, HandleUiEvent, HandleEvent,
     RouterClose, RouterDone
<1>2. CASE ProcessStep
  BY <1>2 DEF ProcessStep, MainCancel, Exit, Signal, routerVars
<1>3. CASE ListenerStep
  BY <1>3 DEF ListenerStep, Accept, Join, ListenerBreak, ListenerDrained, ListenerFail, routerVars
<1>4. ASSUME NEW c \in Clients, ClientStep(c) \/ HandlerStep(c) PROVE UNCHANGED <<router, cancelled>>
  BY <1>4 DEF ClientStep, Connect, ConnectRefused, SendFrame, Receive, ServerClosed, ClientTimeout,
     HandlerStep, ReadFrame, Enqueue, EnqueueFails, HandlerCancelled, PollReply, PollCancelled,
     WriteReply, HandlerTimeout, serverVars, routerVars
<1>. QED
  BY <1>1, <1>2, <1>3, <1>4 DEF Next, Rest, vars, routerVars

\* Neither clients nor the listener end a handler in any other way than by aborting it.
LEMMA OthersAbort ==
  ASSUME Inv, SilenceInv, [Next]_vars,
         (\E c \in Clients : ClientStep(c)) \/ ListenerStep \/ ProcessStep \/ Rest \/ UNCHANGED vars
  PROVE  SilenceInv'
<1>1. /\ conn \in [Clients -> {"none", "backlog"} \cup Live \cup Closed]
      /\ stage \in [Clients -> {"idle", "connected", "sent", "done"}]
      /\ \A i \in DOMAIN queue : queue[i] \in Clients /\ conn[queue[i]] \in HandedOver
      /\ \A k \in DOMAIN ledger : ledger[k].client \in Clients /\ conn[ledger[k].client] \in HandedOver
  BY MembersAreClients DEF Inv, TypeOK, QueueInv, LedgerInv
<1>2. UNCHANGED <<wire, reply, queue, ledger, router>>
  BY DEF ClientStep, Connect, ConnectRefused, SendFrame, Receive, ServerClosed, ClientTimeout,
     ListenerStep, Accept, Join, ListenerBreak, ListenerDrained, ListenerFail,
     ProcessStep, MainCancel, Exit, Signal, Rest, vars, clientVars, serverVars, routerVars
<1>3. ASSUME NEW d \in Clients PROVE stage'[d] # "done" => stage[d] # "done"
  <2>1. ASSUME NEW c \in Clients, ClientStep(c) PROVE stage'[d] # "done" => stage[d] # "done"
    BY <1>1, <2>1 DEF ClientStep, Connect, ConnectRefused, SendFrame, Receive, ServerClosed, ClientTimeout, Return
  <2>2. CASE ListenerStep \/ ProcessStep \/ Rest \/ UNCHANGED vars
    BY <2>2 DEF ListenerStep, Accept, Join, ListenerBreak, ListenerDrained, ListenerFail,
       ProcessStep, MainCancel, Exit, Signal, Rest, vars, clientVars
  <2>. QED
    BY <2>1, <2>2
<1>4. ASSUME NEW d \in Clients
      PROVE  \/ conn'[d] = conn[d] \/ Aborted(d)'
             \/ conn[d] \in {"none", "backlog"} /\ conn'[d] \in {"backlog", "reading"}
  <2>. USE DEF Aborted
  <2>1. ASSUME NEW c \in Clients, ClientStep(c)
        PROVE  conn'[d] = conn[d] \/ (conn[d] \in {"none", "backlog"} /\ conn'[d] \in {"backlog", "reading"})
    <3>1. CASE Connect(c)
      <4>1. conn[c] = "none" /\ conn' = [conn EXCEPT ![c] = "backlog"]
        BY <3>1 DEF Connect, Inv, ConnInv
      <4>. QED
        BY <1>1, <4>1
    <3>2. CASE ~Connect(c)
      BY <2>1, <3>2 DEF ClientStep, ConnectRefused, SendFrame, Receive, ServerClosed, ClientTimeout, serverVars
    <3>. QED
      BY <3>1, <3>2
  <2>2. CASE Accept
    <3>1. Head(backlog) = backlog[1] /\ 1 \in DOMAIN backlog
      BY <2>2, LenProperties, EmptySeq DEF Accept, Inv, TypeOK
    <3>2. conn[Head(backlog)] = "backlog"
      BY <3>1 DEF Inv, BacklogInv
    <3>3. \E there \in {"dropped", "reading"} : conn' = [conn EXCEPT ![Head(backlog)] = there]
      BY <2>2 DEF Accept
    <3>. QED
      BY <1>1, <3>2, <3>3
  <2>3. ASSUME NEW c \in Clients, Join(c) PROVE conn'[d] = conn[d] \/ Aborted(d)'
    BY <1>1, <2>3 DEF Join
  <2>4. CASE ListenerBreak \/ ProcessStep \/ Rest \/ UNCHANGED vars
    BY <2>4 DEF ListenerBreak, ProcessStep, MainCancel, Exit, Signal, Rest, vars, serverVars
  <2>5. CASE ListenerDrained \/ ListenerFail
    <3>1. \A c \in Clients : conn'[c] \in {"dropped", conn[c]}
      BY <2>5 DEF ListenerDrained, ListenerFail, ResetBacklog
    <3>. QED
      BY <3>1
  <2>. QED
    BY <2>1, <2>2, <2>3, <2>4, <2>5 DEF ListenerStep
<1>5. /\ cancelled => cancelled'
      /\ \A d \in Clients : Aborted(d) => conn[d] \in HandedOver
      /\ \A d \in Clients : conn[d] \in HandedOver => conn[d] \notin {"none", "backlog"}
  BY StopsStay DEF Aborted, HandedOver, Awaiting, Ended
<1>6. NoReplyYet'
  BY <1>2, <1>4 DEF SilenceInv, NoReplyYet, Aborted
<1>7. QueuedWait' /\ RoutedHaveReplies'
  BY <1>1, <1>2, <1>4, <1>5 DEF SilenceInv, QueuedWait, RoutedHaveReplies, Aborted
<1>8. DropsMeanStopping'
  BY <1>2, <1>5 DEF SilenceInv, DropsMeanStopping, RouterDone
<1>9. SilenceMeansStopping'
  BY <1>2, <1>3, <1>4, <1>5 DEF SilenceInv, SilenceMeansStopping, Aborted, RouterDone, Routed
<1>. QED
  BY <1>6, <1>7, <1>8, <1>9 DEF SilenceInv

\* A handler gives up only when it is cancelled or its request was dropped, and it
\* writes the reply that it has.
LEMMA HandlersAnswer ==
  ASSUME Inv, SilenceInv, NEW c \in Clients, HandlerStep(c) PROVE SilenceInv'
<1>1. UNCHANGED <<stage, ledger, router, cancelled>>
  BY DEF HandlerStep, ReadFrame, Enqueue, EnqueueFails, HandlerCancelled, PollReply, PollCancelled,
     WriteReply, HandlerTimeout, clientVars, routerVars
<1>2. /\ conn \in [Clients -> {"none", "backlog"} \cup Live \cup Closed]
      /\ reply \in [Clients -> ReplyEnvelope \cup {NoReply, Dropped}]
      /\ wire \in [Clients -> ReplyEnvelope \cup {NoReply}]
      /\ conn[c] = "replying" => reply[c] \in ReplyEnvelope
      /\ conn[c] = "sending" => \A k \in DOMAIN ledger : ledger[k].client # c
  BY DEF Inv, TypeOK, ConnInv, LedgerInv, HandedOver, Awaiting, Ended
<1>3. NoReply \notin ReplyEnvelope /\ Dropped \notin ReplyEnvelope /\ NoReply # Dropped
  BY DEF ReplyEnvelope, NoReply, Dropped
<1>4. PICK there : conn' = [conn EXCEPT ![c] = there]
  BY DEF HandlerStep, ReadFrame, Answering, Enqueue, EnqueueFails, HandlerCancelled, PollReply, PollCancelled,
     WriteReply, HandlerTimeout, Finish
<1>5. \/ /\ conn[c] = "reading" /\ there \in {"replying", "sending"} /\ UNCHANGED <<queue, wire>>
         /\ there = "sending" => UNCHANGED reply
         /\ \E r \in ReplyEnvelope \cup {reply[c]} : reply' = [reply EXCEPT ![c] = r]
      \/ Enqueue(c)
      \/ /\ conn[c] \in {"reading", "sending", "waiting", "polled"} /\ there = "finished"
         /\ \/ cancelled
            \/ conn[c] = "sending" /\ RouterDone
            \/ conn[c] = "waiting" /\ reply[c] = Dropped
         /\ UNCHANGED <<queue, reply, wire>>
      \/ /\ conn[c] \in Awaiting /\ there \in {"waiting", "polled", "replying"}
         /\ there = "replying" => reply[c] \in ReplyEnvelope
         /\ UNCHANGED <<queue, reply, wire>>
      \/ /\ conn[c] = "replying" /\ there = "finished" /\ UNCHANGED <<queue, reply>>
         /\ wire' = IF stage[c] = "done" THEN wire ELSE [wire EXCEPT ![c] = reply[c]]
      \/ /\ conn[c] \in Live /\ there = "expired" /\ UNCHANGED <<queue, reply, wire>>
  <2>1. CASE ReadFrame(c)
    <3>1. Error(UnknownId, "invalid_frame") \in ReplyEnvelope
      BY ErrorIsTyped DEF UnknownId, ErrorCode
    <3>2. Error(RequestId[c], "unsupported_version") \in ReplyEnvelope
      BY ErrorIsTyped, RequestIdsAreKnown DEF ErrorCode
    <3>3. \E there2 \in {"replying", "sending"} :
            /\ conn' = [conn EXCEPT ![c] = there2]
            /\ there2 = "sending" => UNCHANGED reply
            /\ \E r \in ReplyEnvelope \cup {reply[c]} : reply' = [reply EXCEPT ![c] = r]
      BY <1>2, <2>1, <3>1, <3>2 DEF ReadFrame, Answering
    <3>4. conn[c] = "reading" /\ UNCHANGED <<queue, wire>>
      BY <2>1 DEF ReadFrame, clientVars
    <3>. QED
      BY <1>2, <1>4, <3>3, <3>4
  <2>2. CASE EnqueueFails(c) \/ HandlerCancelled(c)
    BY <1>2, <1>4, <2>2 DEF EnqueueFails, HandlerCancelled, Finish, clientVars
  <2>3. CASE PollReply(c)
    BY <1>2, <1>3, <1>4, <2>3 DEF PollReply, Awaiting, clientVars
  <2>4. CASE PollCancelled(c)
    BY <1>2, <1>4, <2>4 DEF PollCancelled, Awaiting, clientVars
  <2>5. CASE WriteReply(c)
    BY <1>2, <1>4, <2>5 DEF WriteReply, Finish
  <2>6. CASE HandlerTimeout(c)
    BY <1>2, <1>4, <2>6 DEF HandlerTimeout, clientVars
  <2>. QED
    BY <2>1, <2>2, <2>3, <2>4, <2>5, <2>6 DEF HandlerStep
<1>6. \A d \in Clients : d # c => conn'[d] = conn[d] /\ reply'[d] = reply[d] /\ wire'[d] = wire[d]
  BY <1>2, <1>4, <1>5 DEF Enqueue, clientVars
<1>7. conn'[c] = there
  BY <1>2, <1>4
<1>8. NoReplyYet'
  BY <1>2, <1>5, <1>6, <1>7 DEF SilenceInv, NoReplyYet, Enqueue, Awaiting
<1>9. DropsMeanStopping'
  BY <1>1, <1>2, <1>3, <1>5, <1>6 DEF SilenceInv, DropsMeanStopping, Enqueue, RouterDone
<1>10. RoutedHaveReplies'
  <2>. SUFFICES ASSUME NEW k \in DOMAIN ledger, ~cancelled
                PROVE  (Aborted(ledger[k].client) \/ reply[ledger[k].client] \notin {NoReply, Dropped})'
    BY <1>1 DEF RoutedHaveReplies, Aborted
  <2>. DEFINE d == ledger[k].client
  <2>1. d \in Clients /\ conn[d] \in HandedOver /\ (Aborted(d) \/ reply[d] \notin {NoReply, Dropped})
    BY MembersAreClients DEF Inv, LedgerInv, SilenceInv, RoutedHaveReplies
  <2>2. d = c => conn[c] \notin {"reading", "sending"} /\ ~Aborted(c)
    BY <1>5, <2>1 DEF Enqueue, HandedOver, Awaiting, Ended, Aborted, Live
  <2>3. d = c => reply'[c] = reply[c]
    BY <1>2, <1>5, <2>2 DEF Enqueue
  <2>. QED
    BY <1>1, <1>6, <2>1, <2>2, <2>3 DEF Aborted
<1>11. QueuedWait'
  <2>. SUFFICES ASSUME NEW i \in DOMAIN queue', ~cancelled
                PROVE  /\ queue'[i] \in Clients
                       /\ \/ Aborted(queue[i])'
                          \/ (conn[queue[i]] \in Awaiting /\ reply[queue[i]] = NoReply)'
    BY <1>1 DEF QueuedWait
  <2>1. CASE Enqueue(c)
    <3>1. queue' = Append(queue, c) /\ queue \in Seq(Clients) /\ reply' = reply /\ conn[c] = "sending" /\ there = "waiting"
      BY <1>2, <1>4, <2>1 DEF Enqueue, Inv, TypeOK
    <3>2. CASE i \in DOMAIN queue
      <4>1. queue'[i] = queue[i] /\ queue[i] \in Clients
        BY <3>1, <3>2, AppendProperties, LenProperties
      <4>2. conn[queue[i]] \in HandedOver /\ (Aborted(queue[i]) \/ (conn[queue[i]] \in Awaiting /\ reply[queue[i]] = NoReply))
        BY <3>2 DEF Inv, QueueInv, SilenceInv, QueuedWait
      <4>3. queue[i] # c
        BY <3>1, <4>2 DEF HandedOver, Awaiting, Ended
      <4>. QED
        BY <1>6, <4>1, <4>2, <4>3 DEF Aborted
    <3>3. CASE i \notin DOMAIN queue
      <4>1. queue'[i] = c
        BY <3>1, <3>3, AppendProperties, LenProperties
      <4>2. reply[c] = NoReply
        BY <3>1 DEF SilenceInv, NoReplyYet
      <4>. QED
        BY <1>7, <3>1, <4>1, <4>2 DEF Awaiting
    <3>. QED
      BY <3>2, <3>3
  <2>2. CASE ~Enqueue(c)
    <3>. DEFINE d == queue[i]
    <3>1. queue' = queue
      BY <1>5, <2>2
    <3>2. d \in Clients /\ conn[d] \in HandedOver /\ (Aborted(d) \/ (conn[d] \in Awaiting /\ reply[d] = NoReply))
      BY <3>1, MembersAreClients DEF Inv, QueueInv, SilenceInv, QueuedWait
    <3>3. d = c => /\ conn[c] \in Awaiting /\ reply[c] = NoReply /\ reply' = reply
                   /\ there \in {"waiting", "polled", "expired"}
      BY <1>3, <1>5, <2>2, <3>2 DEF HandedOver, Awaiting, Ended, Aborted, Live
    <3>. QED
      BY <1>6, <1>7, <3>1, <3>2, <3>3 DEF Aborted, Awaiting
  <2>. QED
    BY <2>1, <2>2
<1>12. SilenceMeansStopping'
  <2>. SUFFICES ASSUME NEW d \in Clients, conn'[d] = "finished", stage[d] # "done", wire'[d] = NoReply, ~cancelled
                PROVE  RouterDone /\ d \notin Routed
    BY <1>1 DEF SilenceMeansStopping, RouterDone, Routed
  <2>1. CASE d # c
    BY <1>6, <2>1 DEF SilenceInv, SilenceMeansStopping
  <2>2. CASE d = c
    <3>1. wire'[c] = reply[c] \/ conn[c] # "replying"
      BY <1>2, <1>5, <1>7, <2>2 DEF Enqueue, Awaiting
    <3>2. conn[c] # "replying"
      BY <1>2, <1>3, <2>2, <3>1
    <3>3. \/ conn[c] = "sending" /\ RouterDone
          \/ conn[c] = "waiting" /\ reply[c] = Dropped
      BY <1>2, <1>4, <1>5, <1>7, <2>2, <3>2 DEF Enqueue
    <3>4. RouterDone
      BY <3>3 DEF SilenceInv, DropsMeanStopping
    <3>5. c \notin Routed
      BY <1>2, <3>3 DEF SilenceInv, RoutedHaveReplies, Aborted, Routed
    <3>. QED
      BY <2>2, <3>4, <3>5
  <2>. QED
    BY <2>1, <2>2
<1>. QED
  BY <1>8, <1>9, <1>10, <1>11, <1>12 DEF SilenceInv

\* Routing answers a handler that waits; a router that returns drops the others.
LEMMA RouterAnswers ==
  ASSUME Inv, SilenceInv, RouterStep PROVE SilenceInv'
<1>0. /\ reply \in [Clients -> ReplyEnvelope \cup {NoReply, Dropped}]
      /\ UNCHANGED <<stage, wire, conn>> /\ (cancelled => cancelled')
  <2>1. /\ UNCHANGED <<stage, wire, conn>> /\ (cancelled => cancelled')
    BY DEF RouterStep, RouterStart, RouteRequest, RouterCancel, RouterBreak, HandleUiEvent, HandleEvent,
       RouterClose, clientVars, serverVars
  <2>. QED
    BY <2>1 DEF Inv, TypeOK
<1>1. CASE RouteRequest
  <2>1. PICK c \in Clients : \E r \in RouteOutcomes(state, ui, RequestId[c], frame[c]) :
          /\ c = queue[1] /\ 1 \in DOMAIN queue
          /\ frame[c] \in DaemonCommand /\ r.reply \in ReplyEnvelope
          /\ \A k \in DOMAIN ledger : ledger[k].client # c
          /\ ledger' = Append(ledger, [client |-> c, command |-> frame[c], reply |-> r.reply])
          /\ reply' = IF conn[c] \in Awaiting THEN [reply EXCEPT ![c] = r.reply] ELSE reply
    BY <1>1, RouteRequestFacts
  <2>2. PICK a \in ReplyEnvelope :
          /\ ledger' = Append(ledger, [client |-> c, command |-> frame[c], reply |-> a])
          /\ reply' = IF conn[c] \in Awaiting THEN [reply EXCEPT ![c] = a] ELSE reply
    BY <2>1
  <2>3. /\ router = "running" /\ queue' = Tail(queue) /\ queue \in Seq(Clients) /\ queue # <<>>
        /\ UNCHANGED cancelled
    BY <1>1 DEF RouteRequest, Inv, TypeOK
  <2>4. PICK entry \in LedgerEntry : ledger' = Append(ledger, entry) /\ entry.client = c
    BY <2>1, <2>2 DEF LedgerEntry
  <2>5. /\ DOMAIN ledger' = DOMAIN ledger \cup {Len(ledger) + 1}
        /\ \A k \in DOMAIN ledger : ledger'[k] = ledger[k]
        /\ ledger'[Len(ledger) + 1] = entry
    BY <2>4, LedgerAppend DEF Inv, TypeOK
  <2>6. Aborted(c) \/ cancelled \/ (conn[c] \in Awaiting /\ reply[c] = NoReply)
    BY <2>1 DEF SilenceInv, QueuedWait
  <2>7. a \notin {NoReply, Dropped}
    BY DEF ReplyEnvelope, NoReply, Dropped
  <2>8. (Aborted(c) \/ cancelled \/ reply[c] \notin {NoReply, Dropped})'
    BY <1>0, <2>2, <2>3, <2>6, <2>7 DEF Aborted, Awaiting
  <2>9. \A d \in Clients \ {c} : reply'[d] = reply[d]
    BY <1>0, <2>2
  <2>10. ASSUME NEW i \in DOMAIN queue'
         PROVE  i + 1 \in DOMAIN queue /\ queue'[i] = queue[i + 1] /\ queue'[i] \in Clients \ {c}
    <3>1. i + 1 \in DOMAIN queue /\ queue'[i] = queue[i + 1] /\ i + 1 # 1
      BY <2>3, HeadTailProperties, LenProperties
    <3>. QED
      BY <2>1, <3>1, MembersAreClients DEF Inv, QueueInv
  <2>11. QueuedWait'
    BY <1>0, <2>3, <2>9, <2>10 DEF SilenceInv, QueuedWait, Aborted
  <2>12. \A k \in DOMAIN ledger : ledger[k].client \in Clients \ {c}
    BY <2>1, MembersAreClients DEF Inv
  <2>13. RoutedHaveReplies'
    BY <1>0, <2>3, <2>4, <2>5, <2>8, <2>9, <2>12 DEF SilenceInv, RoutedHaveReplies, Aborted
  <2>14. ~RouterDone
    BY <2>3 DEF RouterDone
  <2>15. DropsMeanStopping'
    BY <1>0, <2>2, <2>3, <2>7, <2>9, <2>14 DEF SilenceInv, DropsMeanStopping
  <2>16. SilenceMeansStopping'
    BY <1>0, <2>3, <2>14 DEF SilenceInv, SilenceMeansStopping
  <2>17. NoReplyYet'
    BY <1>0, <2>2, <2>9 DEF SilenceInv, NoReplyYet, Awaiting
  <2>. QED
    BY <2>11, <2>13, <2>15, <2>16, <2>17 DEF SilenceInv
<1>2. CASE DropRequests /\ RouterDone' /\ ~RouterDone /\ UNCHANGED <<ledger, cancelled>>
  <2>1. /\ queue' = <<>>
        /\ reply' = [c \in Clients |->
             IF c \in Range(queue) /\ conn[c] \in Awaiting THEN Dropped ELSE reply[c]]
    BY <1>2 DEF DropRequests
  <2>2. \A k \in DOMAIN ledger : reply'[ledger[k].client] = reply[ledger[k].client]
    <3>. SUFFICES ASSUME NEW k \in DOMAIN ledger PROVE reply'[ledger[k].client] = reply[ledger[k].client]
      OBVIOUS
    <3>1. ledger[k].client \in Clients /\ ledger[k].client \notin Range(queue)
      BY MembersAreClients DEF Inv, QueueInv, Range
    <3>. QED
      BY <2>1, <3>1
  <2>3. NoReplyYet'
    BY <1>0, <2>1 DEF SilenceInv, NoReplyYet, Awaiting
  <2>4. QueuedWait'
    BY <2>1 DEF QueuedWait
  <2>5. RoutedHaveReplies'
    BY <1>0, <1>2, <2>2 DEF SilenceInv, RoutedHaveReplies, Aborted
  <2>6. DropsMeanStopping'
    BY <1>2 DEF DropsMeanStopping
  <2>7. SilenceMeansStopping'
    BY <1>0, <1>2 DEF SilenceInv, SilenceMeansStopping
  <2>. QED
    BY <2>3, <2>4, <2>5, <2>6, <2>7 DEF SilenceInv
<1>3. CASE UNCHANGED <<queue, reply, ledger>> /\ ~RouterDone
  BY <1>0, <1>3 DEF SilenceInv, NoReplyYet, QueuedWait, RoutedHaveReplies, DropsMeanStopping,
     SilenceMeansStopping, Aborted
<1>4. CASE RouterStart \/ RouterClose
  BY <1>2, <1>3, <1>4 DEF RouterStart, RouterClose, RouterDone
<1>5. CASE RouterCancel \/ RouterBreak \/ HandleUiEvent
  BY <1>3, <1>5 DEF RouterCancel, RouterBreak, HandleUiEvent, HandleEvent, serverVars, RouterDone
<1>. QED
  BY <1>1, <1>4, <1>5 DEF RouterStep

\* On either runtime a caller who still waits, and whose handler has neither timed out
\* nor been aborted, is left without a reply only by a daemon that stops: the answer to
\* a routed request is lost to the cancellation alone (handle_connection, run_router).
THEOREM SilenceIsStopping == Spec => []SilenceMeansStopping
<1>1. Init => SilenceInv
  BY DEF Init, SilenceInv, NoReplyYet, QueuedWait, RoutedHaveReplies, DropsMeanStopping,
     SilenceMeansStopping, NoReply, Dropped
<1>2. Inv /\ SilenceInv /\ [Next]_vars => SilenceInv'
  BY OthersAbort, HandlersAnswer, RouterAnswers DEF Next
<1>3. SilenceInv => SilenceMeansStopping
  BY DEF SilenceInv
<1>. QED
  BY <1>1, <1>2, <1>3, InvHolds, PTL DEF Spec

----------------------------------------------------------------------------
(* Arrows                                                                  *)

\* No caller selects an index beyond i32::MAX, and no list of names is longer.
Fits(c) == c.kind = "select" => c.index <= MaxI32
IndexesFit ==
  /\ \A f \in Frames : Fits(f)
  /\ \A t \in Text : LastIndex(Results[t]) <= MaxI32

\* The selection survives the cast to i32.
SelectionFits == state.selected <= MaxI32

\* The cast changes nothing up to i32::MAX.
LEMMA AsI32IsSame == ASSUME NEW n \in 0..MaxI32 PROVE AsI32(n) = n
<1>1. n % (2 * (MaxI32 + 1)) = n
  BY MaxI32IsNatural
<1>. QED
  BY <1>1, MaxI32IsNatural DEF AsI32

\* A command selects its own index, or the first, or leaves the selection.
LEMMA ReduceSelects ==
  ASSUME NEW s \in DaemonSnapshot, NEW c \in DaemonCommand
  PROVE  /\ Reduce(s, c).selected \in {s.selected, 0} \/ c.kind = "select"
         /\ c.kind = "select" => Reduce(s, c) = [s EXCEPT !.selected = c.index]
<1>1. /\ Transition(s, c).selected \in {s.selected, 0} \/ c.kind = "select"
      /\ c.kind = "select" => Transition(s, c) = [s EXCEPT !.selected = c.index]
  BY DEF Transition, Show, Hide, DaemonSnapshot, DaemonCommand
<1>2. Transition(s, c) \in DaemonSnapshot
  BY TransitionType
<1>3. Reduce(s, c).selected = Transition(s, c).selected
  BY <1>2 DEF Reduce, DaemonSnapshot
<1>4. c.kind = "select" => Observable(Transition(s, c)) = Observable(s)
  BY <1>1 DEF Observable, DaemonSnapshot
<1>. QED
  BY <1>1, <1>3, <1>4 DEF Reduce

\* The command of an arrow selects within the list.
LEMMA MoveSelects ==
  ASSUME TypeOK, NEW e \in UiEvents, e.kind = "move", NEW c \in UiCommands(e)
  PROVE  /\ e.delta \in Int
         /\ c.kind = "select"
         /\ c.index = Clamp(AsI32(state.selected) + e.delta,
                            LastIndex(Results[QueryText(state.query)]))
<1>1. e \in UiEvent
  BY EventsAreUiEvents
<1>2. e.delta \in Int
  BY <1>1 DEF UiEvent
<1>. QED
  BY <1>2 DEF UiCommands, EventCommands

\* Nobody's command makes the selection outgrow the cast.
LEMMA SelectionStep ==
  ASSUME IndexesFit, Inv, SelectionFits, [Next]_vars PROVE SelectionFits'
<1>. USE DEF SelectionFits
<1>0. state \in DaemonSnapshot /\ MaxI32 \in Nat
  BY MaxI32IsNatural DEF Inv, TypeOK
<1>1. ASSUME NEW c \in DaemonCommand, Fits(c), state' \in {state, Reduce(state, c)}
      PROVE  SelectionFits'
  <2>1. c.kind = "select" => Reduce(state, c).selected = c.index
    BY <1>0, ReduceSelects DEF DaemonSnapshot
  <2>. QED
    BY <1>0, <1>1, <2>1, ReduceSelects DEF Fits
<1>2. CASE RouteRequest
  <2>1. PICK c \in Clients : \E r \in RouteOutcomes(state, ui, RequestId[c], frame[c]) :
          frame[c] \in DaemonCommand /\ state' = r.state
    BY <1>2, RouteRequestFacts
  <2>2. PICK r \in RouteOutcomes(state, ui, RequestId[c], frame[c]) :
          frame[c] \in DaemonCommand /\ state' = r.state
    BY <2>1
  <2>3. r.state \in {state, Reduce(state, frame[c])}
    BY <1>0, <2>2, RoutingMoves, RequestIdsAreKnown
  <2>4. frame[c] \in Frames
    BY <2>2, NoFrameIsNoCommand DEF Inv, TypeOK
  <2>. QED
    BY <1>1, <2>2, <2>3, <2>4 DEF IndexesFit
<1>3. CASE HandleUiEvent
  <2>1. PICK e \in UiEvents :
          \/ \E c \in UiCommands(e) : \E r \in RouteOutcomes(state, ui, UnknownId, c) : state' = r.state
          \/ state' = state
    BY <1>3 DEF HandleUiEvent, HandleEvent
  <2>2. ASSUME NEW c \in UiCommands(e), NEW r \in RouteOutcomes(state, ui, UnknownId, c), state' = r.state
        PROVE  SelectionFits'
    <3>1. c \in DaemonCommand /\ c \in FrontendCommands
      BY UiCommandsAreCommands, EventsAreFrontendCommands DEF Inv
    <3>2. r.state \in {state, Reduce(state, c)}
      BY <1>0, <3>1, RoutingMoves DEF UnknownId
    <3>3. Fits(c)
      <4>1. ASSUME c.kind = "select" PROVE c.index <= MaxI32
        <5>1. PICK t \in Text : c.index \in 0..LastIndex(Results[t])
          BY <3>1, <4>1 DEF FrontendCommands
        <5>2. LastIndex(Results[t]) \in Int
          BY ResultsAreNames, LenProperties DEF LastIndex
        <5>. QED
          BY <1>0, <5>1, <5>2 DEF IndexesFit
      <4>. QED
        BY <4>1 DEF Fits
    <3>. QED
      BY <1>1, <2>2, <3>1, <3>2, <3>3
  <2>. QED
    BY <2>1, <2>2
<1>4. CASE RouterStart \/ RouterCancel \/ RouterBreak \/ RouterClose \/ UNCHANGED routerVars
  BY <1>4 DEF RouterStart, RouterCancel, RouterBreak, RouterClose, routerVars
<1>. QED
  BY <1>2, <1>3, <1>4, OnlyTheRouterMoves DEF RouterStep

\* An arrow selects from where the marker is.
LEMMA MoveFollows ==
  ASSUME Inv, UiInSync, SelectionFits, NEW e \in UiEvents, e.kind = "move", HandleEvent(e)
  PROVE  \/ e.delta >= 0 /\ ui'.selected >= ui.selected
         \/ e.delta <= 0 /\ ui'.selected <= ui.selected
<1>. DEFINE last == LastIndex(Results[QueryText(state.query)])
<1>1. /\ state \in DaemonSnapshot /\ QueryText(state.query) \in Text
      /\ state.selected \in Nat /\ MaxI32 \in Nat
  BY MaxI32IsNatural DEF Inv, TypeOK, DaemonSnapshot, QueryText, OptText, Text
<1>2. last \in Nat
  BY <1>1, ResultsAreNames, LenProperties, EmptySeq DEF LastIndex
<1>3. ui.selected = Clamp(state.selected, last) /\ ui = UiSnapshot(state)
  BY DEF UiInSync, HandleEvent, UiSnapshot, ToUiSnapshot
<1>4. e.delta \in Int
  BY EventsAreUiEvents DEF UiEvent
<1>5. CASE ui' = ui
  BY <1>2, <1>3, <1>4, <1>5, <1>1 DEF Clamp
<1>6. ASSUME NEW c \in UiCommands(e), NEW r \in RouteOutcomes(state, ui, UnknownId, c), ui' = r.ui, ui' # ui
      PROVE  \/ e.delta >= 0 /\ ui'.selected >= ui.selected
             \/ e.delta <= 0 /\ ui'.selected <= ui.selected
  <2>1. c \in DaemonCommand /\ c.kind = "select" /\ c.index = Clamp(state.selected + e.delta, last)
    <3>1. AsI32(state.selected) = state.selected
      BY <1>1, AsI32IsSame DEF SelectionFits
    <3>. QED
      BY <3>1, UiCommandsAreCommands, MoveSelects DEF Inv
  <2>2. r.ui = UiSnapshot(Reduce(state, c))
    BY <1>1, <1>6, <2>1, RoutingIsAtomic DEF UnknownId
  <2>3. Reduce(state, c) = [state EXCEPT !.selected = c.index]
    BY <1>1, <2>1, ReduceSelects
  <2>4. Reduce(state, c).query = state.query /\ Reduce(state, c).selected = c.index
    BY <1>1, <2>3 DEF DaemonSnapshot
  <2>5. ui'.selected = Clamp(c.index, last)
    BY <1>6, <2>2, <2>4 DEF UiSnapshot, ToUiSnapshot
  <2>. HIDE DEF last
  <2>. QED
    BY <1>1, <1>2, <1>3, <1>4, <2>1, <2>5 DEF Clamp
<1>. QED
  BY <1>5, <1>6 DEF HandleEvent

\* An arrow never moves the marker against its direction, whatever other callers
\* selected and however the list shrank meanwhile, as long as no index exceeds
\* i32::MAX (handle_ui_event casts the selection, to_ui_snapshot clamps it).
THEOREM ArrowsFollowTheirKey == IndexesFit => (Spec => ArrowsFollow)
<1>. SUFFICES ASSUME IndexesFit PROVE Spec => ArrowsFollow
  OBVIOUS
<1>1. Init => UiInSync /\ SelectionFits
  BY MaxI32IsNatural DEF Init, UiInSync, SelectionFits, DefaultSnapshot
<1>2. Inv /\ UiInSync /\ SelectionFits /\ [Next]_vars => UiInSync' /\ SelectionFits'
  BY SyncStep, SelectionStep
<1>3. Inv /\ UiInSync /\ SelectionFits =>
        [ \A e \in {f \in UiEvents : f.kind = "move"} :
            HandleEvent(e) => \/ e.delta >= 0 /\ ui'.selected >= ui.selected
                              \/ e.delta <= 0 /\ ui'.selected <= ui.selected ]_vars
  BY MoveFollows
<1>. QED
  BY <1>1, <1>2, <1>3, InvHolds, PTL DEF Spec, ArrowsFollow
=============================================================================
