-------------------------- MODULE DaemonIpcProofs --------------------------
(***************************************************************************)
(* Theorems about one running daemon, for any set of clients, any queue     *)
(* capacity, any UI backend and any number of timeouts, faults and signals. *)
(***************************************************************************)
EXTENDS DaemonIpc, DaemonStateProofs

\* The projection of a state to the frontend.
LEMMA UiSnapshotIsTyped ==
  ASSUME NEW s \in DaemonSnapshot PROVE UiSnapshot(s) \in UiSnapshotType
<1>1. QueryText(s.query) \in Text
  BY DEF QueryText, DaemonSnapshot, OptText, Text
<1>2. Results[QueryText(s.query)] \in Seq(Words)
  BY <1>1, ResultsAreNames
<1>. QED
  BY <1>2, ProjectionType DEF UiSnapshot

\* What routing a command gives: the command is applied, shown and reported, or
\* nothing changes; and then the reply is an error or tells the unchanged state.
LEMMA RoutingIsAtomic ==
  ASSUME NEW s \in DaemonSnapshot, NEW shown, NEW id \in Nat, NEW c \in DaemonCommand,
         NEW r \in RouteOutcomes(s, shown, id, c)
  PROVE  \/ /\ r.state = Reduce(s, c) /\ r.ui = UiSnapshot(r.state)
            /\ r.reply = Success(id, r.state)
         \/ /\ r.state = s /\ r.ui = shown
            /\ \/ r.reply = Success(id, s)
               \/ r.reply \in [kind : {"error"}, id : {id}, code : ErrorCode]
<1>. DEFINE next == Reduce(s, c)
            Keep(a) == [state |-> s, ui |-> shown, reply |-> a]
<1>1. CASE ~Valid(c)
  <2>1. r = Keep(Error(id, "invalid_command"))
    BY <1>1 DEF RouteOutcomes
  <2>. QED  BY <2>1 DEF Error, ErrorCode
<1>2. CASE Valid(c) /\ next = s
  <2>1. r = Keep(Success(id, s))
    BY <1>2 DEF RouteOutcomes
  <2>. QED  BY <2>1
<1>3. CASE Valid(c) /\ next # s
  <2>1. PICK o \in UiOutcome[next.visibility] :
          r = IF o = "ok" THEN [state |-> next, ui |-> UiSnapshot(next), reply |-> Success(id, next)]
              ELSE Keep(Error(id, PublicCode(o)))
    BY <1>3 DEF RouteOutcomes
  <2>. QED  BY <2>1 DEF Error, ErrorCode, PublicCode
<1>. QED
  BY <1>1, <1>2, <1>3

\* Routing keeps the types of state, frontend and reply.
LEMMA RoutingIsTyped ==
  ASSUME NEW s \in DaemonSnapshot, NEW shown \in UiSnapshotType, NEW id \in Nat,
         NEW c \in DaemonCommand, NEW r \in RouteOutcomes(s, shown, id, c)
  PROVE  r.state \in DaemonSnapshot /\ r.ui \in UiSnapshotType /\ r.reply \in ReplyEnvelope
<1>1. Reduce(s, c) \in DaemonSnapshot
  BY ReduceType
<1>2. UiSnapshot(Reduce(s, c)) \in UiSnapshotType
  BY <1>1, UiSnapshotIsTyped
<1>3. \A t \in DaemonSnapshot : Success(id, t) \in ReplyEnvelope
  BY DEF Success, ReplyEnvelope
<1>4. [kind : {"error"}, id : {id}, code : ErrorCode] \subseteq ReplyEnvelope
  BY DEF ReplyEnvelope
<1>5. CASE /\ r.state = Reduce(s, c) /\ r.ui = UiSnapshot(r.state)
           /\ r.reply = Success(id, r.state)
  BY <1>1, <1>2, <1>3, <1>5
<1>6. CASE /\ r.state = s /\ r.ui = shown
           /\ r.reply = Success(id, s) \/ r.reply \in [kind : {"error"}, id : {id}, code : ErrorCode]
  BY <1>3, <1>4, <1>6
<1>. QED
  BY <1>5, <1>6, RoutingIsAtomic

----------------------------------------------------------------------------
(* The inductive invariant                                                 *)

\* What is known of a connection by the state of its handler.
ConnInv ==
  \A c \in Clients :
    /\ stage[c] = "idle" => conn[c] = "none"
    /\ stage[c] \in {"idle", "connected"} => frame[c] = NoFrame
    /\ conn[c] \in {"sending"} \cup Awaiting => frame[c] \in DaemonCommand
    /\ conn[c] = "replying" => reply[c] \in ReplyEnvelope
    /\ conn[c] \notin {"none", "backlog", "dropped"} => c \notin Foreign

\* A connection waits at most once to be accepted, and before anything else.
BacklogInv ==
  /\ \A i \in DOMAIN backlog : conn[backlog[i]] = "backlog"
  /\ \A i, j \in DOMAIN backlog : backlog[i] = backlog[j] => i = j

\* Handlers in these states have given their request away.
HandedOver == Awaiting \cup {"replying", "dropped", "joined"} \cup Ended

\* A handler gives its request away once; it is in the queue or in the ledger.
QueueInv ==
  /\ \A i \in DOMAIN queue :
       /\ conn[queue[i]] \in HandedOver
       /\ queue[i] \notin Foreign
       /\ frame[queue[i]] \in DaemonCommand
       /\ \A k \in DOMAIN ledger : ledger[k].client # queue[i]
  /\ \A i, j \in DOMAIN queue : queue[i] = queue[j] => i = j

LedgerInv ==
  /\ \A k \in DOMAIN ledger : conn[ledger[k].client] \in HandedOver /\ ledger[k].client \notin Foreign
  /\ \A j, k \in DOMAIN ledger : ledger[j].client = ledger[k].client => j = k

Inv == TypeOK /\ ConnInv /\ BacklogInv /\ QueueInv /\ LedgerInv

\* Elements of a sequence, by index.
LEMMA ElementType == ASSUME NEW S, NEW s \in Seq(S), NEW i \in DOMAIN s PROVE s[i] \in S
BY ElementOfSeq, LenProperties

\* Backlog, queue and ledger are about clients.
LEMMA MembersAreClients ==
  ASSUME TypeOK
  PROVE  /\ \A i \in DOMAIN backlog : backlog[i] \in Clients
         /\ \A i \in DOMAIN queue : queue[i] \in Clients
         /\ \A k \in DOMAIN ledger : ledger[k].client \in Clients
<1>1. backlog \in Seq(Clients) /\ queue \in Seq(Clients) /\ ledger \in Seq(LedgerEntry)
  BY DEF TypeOK
<1>2. \A k \in DOMAIN ledger : ledger[k] \in LedgerEntry
  BY <1>1, ElementType
<1>. QED
  BY <1>1, <1>2, ElementType DEF LedgerEntry

\* A client that has not written its frame has no command in the daemon.
LEMMA NoFrameIsNoCommand == NoFrame \notin DaemonCommand
BY DEF NoFrame, DaemonCommand

\* A daemon that starts has no connections.
LEMMA InitInv == Init => Inv
<1>. SUFFICES ASSUME Init PROVE Inv
  OBVIOUS
<1>1. DefaultSnapshot \in DaemonSnapshot
  BY MaxU64IsPositive DEF DefaultSnapshot, DaemonSnapshot, Visibility, Mode, OptText
<1>2. DefaultUi \in UiSnapshotType
  BY MaxU64IsPositive, EmptySeq DEF DefaultUi, UiSnapshotType, Visibility, Mode, OptText
<1>3. TypeOK
  <2>1. <<>> \in Seq(Clients) /\ <<>> \in Seq(LedgerEntry)
    BY EmptySeq
  <2>2. 0 \in 0..MaxUiEvents
    BY EventsAreUiEvents
  <2>3. ui \in UiSnapshotType /\ state \in DaemonSnapshot
    BY <1>1, <1>2 DEF Init
  <2>. QED
    BY <2>1, <2>2, <2>3 DEF Init, TypeOK, UiSnapshotType
<1>. QED
  BY <1>3 DEF Init, Inv, ConnInv, BacklogInv, QueueInv, LedgerInv, Awaiting, Ended

\* What a client does never moves a request that was handed over.
LEMMA ClientStepInv == ASSUME Inv, NEW c \in Clients, ClientStep(c) PROVE Inv'
<1>. USE DEF Inv, TypeOK, ConnInv, BacklogInv, QueueInv, LedgerInv, HandedOver, Awaiting, Ended,
            Live, Closed, Return
<1>1. CASE Connect(c)
  BY <1>1, AppendProperties DEF Connect, routerVars
<1>2. CASE ConnectRefused(c)
  BY <1>2 DEF ConnectRefused, serverVars, routerVars, Failure
<1>3. CASE SendFrame(c)
  BY <1>3, NoFrameIsNoCommand DEF SendFrame, serverVars, routerVars
<1>4. CASE Receive(c)
  BY <1>4 DEF Receive, serverVars, routerVars, Failure
<1>5. CASE ServerClosed(c)
  BY <1>5 DEF ServerClosed, serverVars, routerVars, Failure
<1>6. CASE ClientTimeout(c)
  BY <1>6 DEF ClientTimeout, serverVars, routerVars, Failure
<1>. QED
  BY <1>1, <1>2, <1>3, <1>4, <1>5, <1>6 DEF ClientStep

\* Every reply that the daemon makes up itself is an envelope.
LEMMA ErrorIsTyped == \A id \in Nat : \A code \in ErrorCode : Error(id, code) \in ReplyEnvelope
BY DEF Error, ReplyEnvelope

\* A handler hands its request over once, and answers with an envelope.
LEMMA HandlerStepInv == ASSUME Inv, NEW c \in Clients, HandlerStep(c) PROVE Inv'
<1>. USE DEF Inv, TypeOK, ConnInv, BacklogInv, QueueInv, LedgerInv, HandedOver, Awaiting, Ended,
            Live, Closed, Finish
<1>1. CASE ReadFrame(c)
  <2>1. Error(UnknownId, "invalid_frame") \in ReplyEnvelope
    BY ErrorIsTyped DEF UnknownId, ErrorCode
  <2>2. Error(RequestId[c], "unsupported_version") \in ReplyEnvelope
    BY ErrorIsTyped, RequestIdsAreKnown DEF ErrorCode
  <2>3. frame[c] \notin {NoFrame, Malformed, WrongVersion} => frame[c] \in DaemonCommand
    BY FramesAreRequests
  <2>4. PICK there \in {"replying", "sending"} :
          /\ conn' = [conn EXCEPT ![c] = there]
          /\ there = "sending" => frame[c] \in DaemonCommand
          /\ \E r \in ReplyEnvelope \cup {reply[c]} :
               /\ reply' = [reply EXCEPT ![c] = r]
               /\ there = "replying" => r \in ReplyEnvelope
    BY <1>1, <2>1, <2>2, <2>3 DEF ReadFrame, Answering
  <2>. QED
    BY <1>1, <2>4 DEF ReadFrame, clientVars, routerVars
<1>2. CASE Enqueue(c)
  <2>1. /\ \A i \in DOMAIN queue : queue[i] # c
        /\ \A k \in DOMAIN ledger : ledger[k].client # c
    BY <1>2 DEF Enqueue
  <2>2. /\ queue' \in Seq(Clients) /\ DOMAIN queue' = DOMAIN queue \cup {Len(queue) + 1}
        /\ \A i \in DOMAIN queue : queue'[i] = queue[i] /\ i # Len(queue) + 1
        /\ queue'[Len(queue) + 1] = c
    BY <1>2, AppendProperties, LenProperties DEF Enqueue
  <2>. /\ conn' = [conn EXCEPT ![c] = "waiting"] /\ UNCHANGED <<frame, ledger>>
       /\ c \notin Foreign /\ frame[c] \in DaemonCommand
    BY <1>2 DEF Enqueue, clientVars, routerVars
  <2>3. QueueInv'
    BY <2>1, <2>2
  <2>. QED
    BY <1>2, <2>2, <2>3 DEF Enqueue, clientVars, routerVars
<1>3. CASE EnqueueFails(c)
  BY <1>3 DEF EnqueueFails, clientVars, routerVars
<1>4. CASE HandlerCancelled(c)
  BY <1>4 DEF HandlerCancelled, clientVars, routerVars
<1>5. CASE PollReply(c)
  <2>1. conn' = [conn EXCEPT ![c] = conn'[c]] /\ conn'[c] \in {"finished", "replying", "polled", "waiting"}
    BY <1>5 DEF PollReply
  <2>2. conn'[c] = "replying" => reply[c] \in ReplyEnvelope
    BY <1>5 DEF PollReply
  <2>. QED
    BY <1>5, <2>1, <2>2 DEF PollReply, clientVars, routerVars
<1>6. CASE PollCancelled(c)
  BY <1>6 DEF PollCancelled, clientVars, routerVars
<1>7. CASE WriteReply(c)
  BY <1>7 DEF WriteReply, routerVars
<1>8. CASE HandlerTimeout(c)
  BY <1>8 DEF HandlerTimeout, clientVars, routerVars
<1>. QED
  BY <1>1, <1>2, <1>3, <1>4, <1>5, <1>6, <1>7, <1>8 DEF HandlerStep

\* The listener starts a handler for a connection of the daemon's owner only.
LEMMA ListenerStepInv == ASSUME Inv, ListenerStep PROVE Inv'
<1>. USE DEF Inv, TypeOK, ConnInv, BacklogInv, QueueInv, LedgerInv, HandedOver, Awaiting, Ended,
            Live, Closed
<1>1. CASE Accept
  <2>. DEFINE c == Head(backlog)
  <2>1. /\ c \in Clients /\ c = backlog[1] /\ 1 \in DOMAIN backlog
        /\ backlog' \in Seq(Clients)
        /\ \A i \in DOMAIN backlog' : i + 1 \in DOMAIN backlog /\ backlog'[i] = backlog[i + 1] /\ i + 1 # 1
        /\ DOMAIN backlog' \subseteq Nat
    BY <1>1, HeadTailProperties, LenProperties, EmptySeq DEF Accept
  <2>2. conn[c] = "backlog"
    BY <2>1
  <2>3. PICK there \in {"dropped", "reading"} :
          conn' = [conn EXCEPT ![c] = there] /\ (there = "reading" => c \notin Foreign)
    BY <1>1 DEF Accept
  <2>4. tasks' \subseteq Clients
    BY <1>1, <2>1 DEF Accept
  <2>5. BacklogInv'
    BY <2>1, <2>2, <2>3
  <2>6. ConnInv'
    BY <1>1, <2>1, <2>2, <2>3 DEF Accept, clientVars
  <2>. QED
    BY <1>1, <2>1, <2>2, <2>3, <2>4, <2>5, <2>6 DEF Accept, clientVars, routerVars
<1>2. CASE ListenerBreak
  BY <1>2 DEF ListenerBreak, clientVars, routerVars
<1>3. CASE ListenerDrained
  <2>1. /\ backlog' = <<>> /\ backlog' \in Seq(Clients)
        /\ conn' = [c \in Clients |-> IF conn[c] \in {"backlog"} THEN "dropped" ELSE conn[c]]
    BY <1>3, EmptySeq DEF ListenerDrained, ResetBacklog
  <2>2. \A c \in Clients : (conn'[c] = "dropped" /\ conn[c] # "none") \/ (conn'[c] = conn[c] /\ conn[c] # "backlog")
    BY <2>1
  <2>3. UNCHANGED <<stage, frame, wire, result, reply, queue, router, cancelled, state, ui, exit, uiEvents, ledger>>
    BY <1>3 DEF ListenerDrained, clientVars, routerVars
  <2>4. conn' \in [Clients -> {"none", "backlog"} \cup Live \cup Closed]
    BY <2>1
  <2>5. TypeOK'
    BY <1>3, <2>1, <2>3, <2>4 DEF ListenerDrained
  <2>6. BacklogInv'
    BY <2>1
  <2>7. ConnInv'
    BY <2>2, <2>3
  <2>8. \A c \in Clients : conn[c] \in HandedOver => conn'[c] \in HandedOver
    BY <2>2
  <2>9. /\ \A i \in DOMAIN queue : queue[i] \in Clients
        /\ \A k \in DOMAIN ledger : ledger[k].client \in Clients
    BY MembersAreClients
  <2>10. QueueInv' /\ LedgerInv'
    BY <2>3, <2>8, <2>9
  <2>. QED
    BY <2>5, <2>6, <2>7, <2>10
<1>4. CASE ListenerFail
  <2>1. /\ backlog' = <<>> /\ backlog' \in Seq(Clients)
        /\ conn' = [c \in Clients |-> IF conn[c] \in {"backlog"} \cup Live THEN "dropped" ELSE conn[c]]
    BY <1>4, EmptySeq DEF ListenerFail, ResetBacklog
  <2>2. \A c \in Clients : (conn'[c] = "dropped" /\ conn[c] # "none") \/ (conn'[c] = conn[c] /\ conn[c] # "backlog")
    BY <2>1
  <2>3. UNCHANGED <<stage, frame, wire, result, reply, queue, router, cancelled, state, ui, exit, uiEvents, ledger>>
    BY <1>4 DEF ListenerFail, clientVars, routerVars
  <2>4. conn' \in [Clients -> {"none", "backlog"} \cup Live \cup Closed]
    BY <2>1
  <2>5. TypeOK'
    BY <1>4, <2>1, <2>3, <2>4 DEF ListenerFail
  <2>6. BacklogInv'
    BY <2>1
  <2>7. ConnInv'
    BY <2>2, <2>3
  <2>8. \A c \in Clients : conn[c] \in HandedOver => conn'[c] \in HandedOver
    BY <2>2
  <2>9. /\ \A i \in DOMAIN queue : queue[i] \in Clients
        /\ \A k \in DOMAIN ledger : ledger[k].client \in Clients
    BY MembersAreClients
  <2>10. QueueInv' /\ LedgerInv'
    BY <2>3, <2>8, <2>9
  <2>. QED
    BY <2>5, <2>6, <2>7, <2>10
<1>5. ASSUME NEW c \in Clients, Join(c) PROVE Inv'
  BY <1>5 DEF Join, clientVars, routerVars
<1>. QED
  BY <1>1, <1>2, <1>3, <1>4, <1>5 DEF ListenerStep

\* The receiver's queue is dropped: oneshots close, and nothing else moves.
LEMMA DropKeepsReplies ==
  ASSUME Inv, DropRequests
  PROVE  /\ queue' = <<>>
         /\ reply' \in [Clients -> ReplyEnvelope \cup {NoReply, Dropped}]
         /\ \A c \in Clients : conn[c] = "replying" => reply'[c] = reply[c]
BY DEF DropRequests, Inv, TypeOK, Awaiting

\* Routing takes the head of the queue, and puts it in the ledger with its reply.
LEMMA RouteRequestFacts ==
  ASSUME Inv, RouteRequest
  PROVE  \E c \in Clients : \E r \in RouteOutcomes(state, ui, RequestId[c], frame[c]) :
           /\ c = queue[1] /\ 1 \in DOMAIN queue
           /\ c \notin Foreign /\ conn[c] \in HandedOver /\ frame[c] \in DaemonCommand
           /\ \A k \in DOMAIN ledger : ledger[k].client # c
           /\ queue' = Tail(queue)
           /\ state' = r.state /\ ui' = r.ui
           /\ state' \in DaemonSnapshot /\ ui' \in UiSnapshotType /\ r.reply \in ReplyEnvelope
           /\ ledger' = Append(ledger, [client |-> c, command |-> frame[c], reply |-> r.reply])
           /\ reply' = IF conn[c] \in Awaiting THEN [reply EXCEPT ![c] = r.reply] ELSE reply
<1>. DEFINE c == Head(queue)
<1>1. queue \in Seq(Clients) /\ queue # <<>>
  BY DEF RouteRequest, Inv, TypeOK
<1>2. c = queue[1] /\ 1 \in DOMAIN queue /\ c \in Clients
  BY <1>1, HeadTailProperties, LenProperties, EmptySeq
<1>3. /\ c \notin Foreign /\ conn[c] \in HandedOver /\ frame[c] \in DaemonCommand
      /\ \A k \in DOMAIN ledger : ledger[k].client # c
  BY <1>2 DEF Inv, QueueInv
<1>4. PICK r \in RouteOutcomes(state, ui, RequestId[c], frame[c]) :
           /\ queue' = Tail(queue)
           /\ state' = r.state /\ ui' = r.ui
           /\ ledger' = Append(ledger, [client |-> c, command |-> frame[c], reply |-> r.reply])
           /\ reply' = IF conn[c] \in Awaiting THEN [reply EXCEPT ![c] = r.reply] ELSE reply
  BY DEF RouteRequest
<1>5. state \in DaemonSnapshot /\ ui \in UiSnapshotType /\ RequestId[c] \in Nat
  BY <1>2, RequestIdsAreKnown DEF Inv, TypeOK, UiSnapshotType
<1>6. r.state \in DaemonSnapshot /\ r.ui \in UiSnapshotType /\ r.reply \in ReplyEnvelope
  BY <1>3, <1>5, RoutingIsTyped
<1>. QED
  BY <1>2, <1>3, <1>4, <1>6

\* The entries of a ledger that has one more.
LEMMA LedgerAppend ==
  ASSUME NEW entry, ledger \in Seq(LedgerEntry), entry \in LedgerEntry,
         ledger' = Append(ledger, entry)
  PROVE  /\ ledger' \in Seq(LedgerEntry)
         /\ DOMAIN ledger' = DOMAIN ledger \cup {Len(ledger) + 1}
         /\ \A k \in DOMAIN ledger : ledger'[k] = ledger[k] /\ k # Len(ledger) + 1
         /\ ledger'[Len(ledger) + 1] = entry
BY AppendProperties, LenProperties

\* A routed request leaves the queue for the ledger, and no connection moves.
LEMMA RouteRequestInv == ASSUME Inv, RouteRequest PROVE Inv'
<1>c. PICK c \in Clients : \E r \in RouteOutcomes(state, ui, RequestId[c], frame[c]) :
           /\ c = queue[1] /\ 1 \in DOMAIN queue
           /\ c \notin Foreign /\ conn[c] \in HandedOver /\ frame[c] \in DaemonCommand
           /\ \A k \in DOMAIN ledger : ledger[k].client # c
           /\ queue' = Tail(queue)
           /\ state' = r.state /\ ui' = r.ui
           /\ state' \in DaemonSnapshot /\ ui' \in UiSnapshotType /\ r.reply \in ReplyEnvelope
           /\ ledger' = Append(ledger, [client |-> c, command |-> frame[c], reply |-> r.reply])
           /\ reply' = IF conn[c] \in Awaiting THEN [reply EXCEPT ![c] = r.reply] ELSE reply
  BY RouteRequestFacts
<1>1. PICK r \in RouteOutcomes(state, ui, RequestId[c], frame[c]) :
           /\ c = queue[1] /\ 1 \in DOMAIN queue
           /\ c \notin Foreign /\ conn[c] \in HandedOver /\ frame[c] \in DaemonCommand
           /\ \A k \in DOMAIN ledger : ledger[k].client # c
           /\ queue' = Tail(queue)
           /\ state' = r.state /\ ui' = r.ui
           /\ state' \in DaemonSnapshot /\ ui' \in UiSnapshotType /\ r.reply \in ReplyEnvelope
           /\ ledger' = Append(ledger, [client |-> c, command |-> frame[c], reply |-> r.reply])
           /\ reply' = IF conn[c] \in Awaiting THEN [reply EXCEPT ![c] = r.reply] ELSE reply
  BY <1>c
<1>. DEFINE entry == [client |-> c, command |-> frame[c], reply |-> r.reply]
<1>2. UNCHANGED <<stage, frame, wire, result, backlog, conn, tasks, listener, uiEvents, cancelled, exit>>
  BY DEF RouteRequest, clientVars
<1>3. entry \in LedgerEntry
  BY <1>1 DEF LedgerEntry
<1>4. /\ ledger' \in Seq(LedgerEntry)
      /\ DOMAIN ledger' = DOMAIN ledger \cup {Len(ledger) + 1}
      /\ \A k \in DOMAIN ledger : ledger'[k] = ledger[k] /\ k # Len(ledger) + 1
      /\ ledger'[Len(ledger) + 1] = entry
  BY <1>1, <1>3, LedgerAppend DEF Inv, TypeOK
<1>5. /\ queue' \in Seq(Clients)
      /\ \A i \in DOMAIN queue' : i + 1 \in DOMAIN queue /\ queue'[i] = queue[i + 1] /\ i + 1 # 1
      /\ DOMAIN queue' \subseteq Nat
  BY <1>1, HeadTailProperties, LenProperties, EmptySeq DEF Inv, TypeOK
<1>6. reply' \in [Clients -> ReplyEnvelope \cup {NoReply, Dropped}]
      /\ \A d \in Clients : conn[d] = "replying" => reply'[d] = reply[d]
  BY <1>1 DEF Inv, TypeOK, Awaiting
<1>7. router' \in {"running", "cancelling"}
  BY DEF RouteRequest, AfterRequest
<1>8. TypeOK'
  BY <1>1, <1>2, <1>4, <1>5, <1>6, <1>7 DEF Inv, TypeOK, UiSnapshotType
<1>9. ConnInv' /\ BacklogInv'
  BY <1>2, <1>6 DEF Inv, ConnInv, BacklogInv
<1>10. QueueInv'
  <2>1. \A i \in DOMAIN queue' : queue'[i] # c
    BY <1>1, <1>5 DEF Inv, QueueInv
  <2>2. \A i \in DOMAIN queue', k \in DOMAIN ledger' : ledger'[k].client # queue'[i]
    BY <2>1, <1>4, <1>5 DEF Inv, QueueInv
  <2>. QED
    BY <2>2, <1>2, <1>5 DEF Inv, QueueInv
<1>11. LedgerInv'
  BY <1>1, <1>2, <1>4 DEF Inv, LedgerInv
<1>. QED
  BY <1>8, <1>9, <1>10, <1>11 DEF Inv

\* The user's events become commands, and none selects past the list.
LEMMA UiCommandsAreCommands ==
  ASSUME TypeOK, NEW e \in UiEvents, NEW c \in UiCommands(e)
  PROVE  /\ c \in DaemonCommand
         /\ c.kind \in {"hide", "query", "select"}
         /\ c.kind = "select" => c.index \in 0..LastIndex(Results[QueryText(state.query)])
<1>1. e \in UiEvent /\ state \in DaemonSnapshot /\ QueryText(state.query) \in Text
  BY EventsAreUiEvents DEF TypeOK, DaemonSnapshot, QueryText, OptText, Text
<1>2. Results[QueryText(state.query)] \in Seq(Words)
  BY <1>1, ResultsAreNames
<1>. QED
  BY <1>1, <1>2, EventCommandsType DEF UiCommands

\* A UI event routes a command, or changes neither state nor frontend.
LEMMA UiEventFacts ==
  ASSUME Inv, HandleUiEvent
  PROVE  \/ \E c \in DaemonCommand : \E r \in RouteOutcomes(state, ui, UnknownId, c) :
              state' = r.state /\ ui' = r.ui
         \/ UNCHANGED <<state, ui>>
<1>1. PICK e \in UiEvents :
        \/ \E c \in UiCommands(e) : \E r \in RouteOutcomes(state, ui, UnknownId, c) :
             state' = r.state /\ ui' = r.ui
        \/ UNCHANGED <<state, ui>>
  BY DEF HandleUiEvent, HandleEvent
<1>2. \A c \in UiCommands(e) : c \in DaemonCommand
  BY UiCommandsAreCommands DEF Inv
<1>. QED
  BY <1>1, <1>2

\* A UI event changes state and frontend only, within their types.
LEMMA UiEventInv == ASSUME Inv, HandleUiEvent PROVE Inv'
<1>1. state \in DaemonSnapshot /\ ui \in UiSnapshotType /\ UnknownId \in Nat
  BY DEF Inv, TypeOK, UiSnapshotType, UnknownId
<1>2. state' \in DaemonSnapshot /\ ui' \in UiSnapshotType
  <2>1. ASSUME NEW c \in DaemonCommand, NEW r \in RouteOutcomes(state, ui, UnknownId, c),
               state' = r.state, ui' = r.ui
        PROVE  state' \in DaemonSnapshot /\ ui' \in UiSnapshotType
    BY <1>1, <2>1, RoutingIsTyped
  <2>. QED
    BY <1>1, <2>1, UiEventFacts
<1>3. UNCHANGED <<clientVars, serverVars, router, ledger, cancelled, exit>>
      /\ uiEvents' \in 0..MaxUiEvents
  BY EventsAreUiEvents DEF HandleUiEvent, HandleEvent, Inv, TypeOK
<1>4. TypeOK'
  BY <1>2, <1>3 DEF Inv, TypeOK, UiSnapshotType, clientVars, serverVars
<1>. QED
  BY <1>3, <1>4 DEF Inv, ConnInv, BacklogInv, QueueInv, LedgerInv, clientVars, serverVars

\* Dropping the queued requests keeps the invariant.
LEMMA DropInv ==
  ASSUME Inv, DropRequests,
         UNCHANGED <<clientVars, backlog, conn, tasks, listener, state, uiEvents, ledger,
                     cancelled, exit>>,
         ui' \in UiSnapshotType, router' \in {"ok", "failed"}
  PROVE  Inv'
<1>1. /\ queue' = <<>> /\ queue' \in Seq(Clients) /\ DOMAIN queue' = {}
      /\ reply' \in [Clients -> ReplyEnvelope \cup {NoReply, Dropped}]
      /\ \A c \in Clients : conn[c] = "replying" => reply'[c] = reply[c]
  BY DropKeepsReplies, EmptySeq
<1>2. TypeOK'
  BY <1>1 DEF Inv, TypeOK, UiSnapshotType, clientVars
<1>3. ConnInv' /\ BacklogInv'
  BY <1>1 DEF Inv, ConnInv, BacklogInv, clientVars
<1>4. QueueInv' /\ LedgerInv'
  BY <1>1 DEF Inv, QueueInv, LedgerInv, clientVars
<1>. QED
  BY <1>2, <1>3, <1>4 DEF Inv

\* The router drops what is queued, and hands nothing over.
LEMMA RouterStepInv == ASSUME Inv, RouterStep PROVE Inv'
<1>. USE DEF Inv
<1>1. CASE RouterStart
  <2>1. PICK o \in UiOutcome["hidden"] :
          IF o = "ok"
          THEN router' = "running" /\ ui' = UiSnapshot(state) /\ UNCHANGED <<queue, reply>>
          ELSE router' = "failed" /\ UNCHANGED ui /\ DropRequests
    BY <1>1 DEF RouterStart
  <2>2. UNCHANGED <<clientVars, backlog, conn, tasks, listener, state, uiEvents, ledger,
                    cancelled, exit>>
    BY <1>1 DEF RouterStart
  <2>3. CASE o = "ok"
    <3>1. ui' \in UiSnapshotType
      BY <2>1, <2>3, UiSnapshotIsTyped DEF TypeOK
    <3>. QED
      BY <2>1, <2>2, <2>3, <3>1
         DEF TypeOK, ConnInv, BacklogInv, QueueInv, LedgerInv, clientVars, UiSnapshotType
  <2>4. CASE o # "ok"
    <3>1. ui' \in UiSnapshotType
      BY <2>1, <2>4 DEF TypeOK, UiSnapshotType
    <3>. QED
      BY <2>1, <2>2, <2>4, <3>1, DropInv
  <2>. QED
    BY <2>3, <2>4
<1>2. CASE RouteRequest
  BY <1>2, RouteRequestInv
<1>3. CASE RouterCancel
  BY <1>3 DEF RouterCancel, TypeOK, ConnInv, BacklogInv, QueueInv, LedgerInv, clientVars, serverVars
<1>4. CASE RouterBreak
  BY <1>4 DEF RouterBreak, TypeOK, ConnInv, BacklogInv, QueueInv, LedgerInv, clientVars, serverVars
<1>5. CASE HandleUiEvent
  BY <1>5, UiEventInv
<1>6. CASE RouterClose
  <2>1. DefaultUi \in UiSnapshotType
    BY MaxU64IsPositive, EmptySeq DEF DefaultUi, UiSnapshotType, Visibility, Mode, OptText
  <2>2. ui' \in {DefaultUi, ui} /\ router' \in {"ok", "failed"}
    BY <1>6 DEF RouterClose
  <2>3. DropRequests
        /\ UNCHANGED <<clientVars, backlog, conn, tasks, listener, state, uiEvents, ledger,
                       cancelled, exit>>
    BY <1>6 DEF RouterClose
  <2>4. ui' \in UiSnapshotType
    BY <2>1, <2>2 DEF TypeOK, UiSnapshotType
  <2>. QED
    BY <2>2, <2>3, <2>4, DropInv
<1>. QED
  BY <1>1, <1>2, <1>3, <1>4, <1>5, <1>6 DEF RouterStep

\* The invariant holds in every reachable state.
LEMMA NextInv == ASSUME Inv, [Next]_vars PROVE Inv'
<1>1. CASE ProcessStep
  <2>1. UNCHANGED <<clientVars, serverVars, routerVars>>
    BY <1>1 DEF ProcessStep, MainCancel, Exit, Signal
  <2>2. cancelled' \in BOOLEAN /\ exit' \in {"running", "ok", "failed"}
    BY <1>1 DEF ProcessStep, MainCancel, Exit, Signal, RouterDone, Inv, TypeOK
  <2>3. TypeOK'
    BY <2>1, <2>2 DEF Inv, TypeOK, clientVars, serverVars, routerVars
  <2>. QED
    BY <2>1, <2>3 DEF Inv, ConnInv, BacklogInv, QueueInv, LedgerInv,
                      clientVars, serverVars, routerVars
<1>2. CASE UNCHANGED vars
  BY <1>2 DEF Inv, TypeOK, ConnInv, BacklogInv, QueueInv, LedgerInv,
              vars, clientVars, serverVars, routerVars
<1>3. ASSUME NEW c \in Clients, ClientStep(c) \/ HandlerStep(c) PROVE Inv'
  BY <1>3, ClientStepInv, HandlerStepInv
<1>4. CASE ListenerStep \/ RouterStep
  BY <1>4, ListenerStepInv, RouterStepInv
<1>. QED
  BY <1>1, <1>2, <1>3, <1>4 DEF Next, Rest

\* The types, and that every connection's request is handed over once.
LEMMA InvHolds == Spec => []Inv
<1>1. Inv /\ [Next]_vars => Inv'
  BY NextInv
<1>. QED
  BY <1>1, InitInv, PTL DEF Spec

\* Every variable of the daemon and its clients stays in its type.
THEOREM TypeCorrect == Spec => []TypeOK
<1>1. Inv => TypeOK
  BY DEF Inv
<1>. QED
  BY <1>1, InvHolds, PTL

\* No request is executed twice, and none of another user's connections, for
\* any number of clients and any interleaving of timeouts, faults and signals.
THEOREM AtMostOnce == Spec => []RoutedAtMostOnce
<1>1. Inv => RoutedAtMostOnce
  BY DEF Inv, LedgerInv, RoutedAtMostOnce, Routed
<1>. QED
  BY <1>1, InvHolds, PTL

----------------------------------------------------------------------------
(* State, frontend and generation                                          *)

\* A step that moves the state or the frontend is one of the router's.
LEMMA OnlyTheRouterMoves ==
  ASSUME [Next]_vars
  PROVE  RouterStep \/ UNCHANGED routerVars
BY DEF Next, Rest, ProcessStep, MainCancel, Exit, Signal, vars,
       ClientStep, Connect, ConnectRefused, SendFrame, Receive, ServerClosed, ClientTimeout,
       HandlerStep, ReadFrame, Enqueue, EnqueueFails, HandlerCancelled, PollReply, PollCancelled,
       WriteReply, HandlerTimeout,
       ListenerStep, Accept, Join, ListenerBreak, ListenerDrained, ListenerFail

\* Routing leaves a frontend that shows the state showing it.
LEMMA RoutingKeepsSync ==
  ASSUME NEW s \in DaemonSnapshot, NEW id \in Nat, NEW c \in DaemonCommand,
         NEW shown, shown = UiSnapshot(s), NEW r \in RouteOutcomes(s, shown, id, c)
  PROVE  r.ui = UiSnapshot(r.state)
BY RoutingIsAtomic

\* A request or a UI event leaves the frontend showing the state.
LEMMA RoutedInSync ==
  ASSUME Inv, ui = UiSnapshot(state), RouteRequest \/ HandleUiEvent
  PROVE  ui' = UiSnapshot(state')
<1>1. state \in DaemonSnapshot /\ UnknownId \in Nat /\ \A c \in Clients : RequestId[c] \in Nat
  BY RequestIdsAreKnown DEF Inv, TypeOK, UnknownId
<1>2. CASE RouteRequest
  <2>1. PICK c \in Clients : \E r \in RouteOutcomes(state, ui, RequestId[c], frame[c]) :
          frame[c] \in DaemonCommand /\ state' = r.state /\ ui' = r.ui
    BY <1>2, RouteRequestFacts
  <2>2. PICK r \in RouteOutcomes(state, ui, RequestId[c], frame[c]) :
          frame[c] \in DaemonCommand /\ state' = r.state /\ ui' = r.ui
    BY <2>1
  <2>3. r.ui = UiSnapshot(r.state)
    BY <1>1, <2>2, RoutingKeepsSync
  <2>. QED
    BY <2>2, <2>3
<1>3. CASE HandleUiEvent
  <2>1. ASSUME NEW c \in DaemonCommand, NEW r \in RouteOutcomes(state, ui, UnknownId, c),
               state' = r.state, ui' = r.ui
        PROVE  ui' = UiSnapshot(state')
    <3>1. r.ui = UiSnapshot(r.state)
      BY <1>1, RoutingKeepsSync
    <3>. QED
      BY <2>1, <3>1
  <2>2. UNCHANGED <<state, ui>> => ui' = UiSnapshot(state')
    OBVIOUS
  <2>. QED
    BY <1>3, <2>1, <2>2, UiEventFacts
<1>. QED
  BY <1>2, <1>3

\* The frontend shows the state from the first dispatch until the router closes.
LEMMA SyncStep == ASSUME Inv, UiInSync, [Next]_vars PROVE UiInSync'
<1>1. CASE UNCHANGED routerVars
  BY <1>1 DEF UiInSync, routerVars
<1>2. CASE RouterStart
  <2>1. router' \in {"running", "cancelling"} => ui' = UiSnapshot(state) /\ state' = state
    BY <1>2 DEF RouterStart
  <2>. QED
    BY <2>1 DEF UiInSync
<1>3. CASE RouteRequest \/ HandleUiEvent
  <2>1. router = "running"
    BY <1>3 DEF RouteRequest, HandleUiEvent, HandleEvent
  <2>. QED
    BY <1>3, <2>1, RoutedInSync DEF UiInSync
<1>4. CASE RouterCancel \/ RouterBreak \/ RouterClose
  BY <1>4 DEF RouterCancel, RouterBreak, RouterClose, UiInSync
<1>. QED
  BY <1>1, <1>2, <1>3, <1>4, OnlyTheRouterMoves DEF RouterStep

\* The frontend never shows a state the daemon is not in, whichever snapshots
\* its backend refuses.
THEOREM FrontendInSync == Spec => []UiInSync
<1>1. Init => UiInSync
  BY DEF Init, UiInSync
<1>2. Inv /\ UiInSync /\ [Next]_vars => UiInSync'
  BY SyncStep
<1>. QED
  BY <1>1, <1>2, InvHolds, PTL DEF Spec

\* A snapshot told earlier against the state now.
Precedes(snapshot, s) ==
  /\ snapshot.generation <= s.generation
  /\ snapshot.generation = s.generation /\ s.generation < MaxU64
     => Observable(snapshot) = Observable(s)

\* The state has moved on from every snapshot told, or still has its view.
ViewInv ==
  \A k \in DOMAIN ledger :
    ledger[k].reply.kind = "success" =>
      /\ ledger[k].reply.snapshot \in DaemonSnapshot
      /\ Precedes(ledger[k].reply.snapshot, state)

\* A command keeps what precedes the state preceding it.
LEMMA ReducePrecedes ==
  ASSUME NEW old \in DaemonSnapshot, NEW s \in DaemonSnapshot, NEW c \in DaemonCommand,
         Precedes(old, s)
  PROVE  Precedes(old, Reduce(s, c))
<1>1. /\ Reduce(s, c).generation \in Int /\ s.generation \in Int /\ old.generation \in Int
      /\ s.generation <= MaxU64 /\ MaxU64 \in Int
  BY ReduceType, MaxU64IsPositive DEF DaemonSnapshot
<1>. QED
  BY <1>1, ReduceGeneration DEF Precedes

\* Routing moves the state by at most one command, and a success tells the new state.
LEMMA RoutingMoves ==
  ASSUME NEW s \in DaemonSnapshot, NEW shown, NEW id \in Nat, NEW c \in DaemonCommand,
         NEW r \in RouteOutcomes(s, shown, id, c)
  PROVE  /\ r.state \in {s, Reduce(s, c)}
         /\ r.reply.kind = "success" => r.reply.snapshot = r.state
<1>1. CASE r.state = Reduce(s, c) /\ r.reply = Success(id, r.state)
  BY <1>1 DEF Success
<1>2. CASE r.state = s /\ r.reply = Success(id, s)
  BY <1>2 DEF Success
<1>3. CASE r.state = s /\ r.reply \in [kind : {"error"}, id : {id}, code : ErrorCode]
  BY <1>3
<1>. QED
  BY <1>1, <1>2, <1>3, RoutingIsAtomic

\* The state changes by a command or not at all, and the ledger grows by a
\* reply that tells the new state, or by an error, or not at all.
LEMMA StateMoves ==
  ASSUME Inv, [Next]_vars
  PROVE  /\ state' = state \/ \E c \in DaemonCommand : state' = Reduce(state, c)
         /\ \/ UNCHANGED ledger
            \/ \E entry \in LedgerEntry :
                 /\ ledger' = Append(ledger, entry)
                 /\ entry.reply.kind = "success" => entry.reply.snapshot = state'
<1>1. CASE UNCHANGED routerVars
  BY <1>1 DEF routerVars
<1>2. CASE RouteRequest
  <2>1. state \in DaemonSnapshot /\ \A c \in Clients : RequestId[c] \in Nat
    BY RequestIdsAreKnown DEF Inv, TypeOK
  <2>2. PICK c \in Clients : \E r \in RouteOutcomes(state, ui, RequestId[c], frame[c]) :
          /\ frame[c] \in DaemonCommand /\ state' = r.state /\ r.reply \in ReplyEnvelope
          /\ ledger' = Append(ledger, [client |-> c, command |-> frame[c], reply |-> r.reply])
    BY <1>2, RouteRequestFacts
  <2>3. PICK r \in RouteOutcomes(state, ui, RequestId[c], frame[c]) :
          /\ frame[c] \in DaemonCommand /\ state' = r.state /\ r.reply \in ReplyEnvelope
          /\ ledger' = Append(ledger, [client |-> c, command |-> frame[c], reply |-> r.reply])
    BY <2>2
  <2>4. /\ r.state \in {state, Reduce(state, frame[c])}
        /\ r.reply.kind = "success" => r.reply.snapshot = r.state
    BY <2>1, <2>3, RoutingMoves
  <2>. DEFINE entry == [client |-> c, command |-> frame[c], reply |-> r.reply]
  <2>5. entry \in LedgerEntry /\ entry.reply = r.reply
    BY <2>3 DEF LedgerEntry
  <2>. HIDE DEF entry
  <2>6. ledger' = Append(ledger, entry)
    BY <2>3 DEF entry
  <2>. QED
    BY <2>3, <2>4, <2>5, <2>6
<1>3. CASE HandleUiEvent
  <2>1. state \in DaemonSnapshot /\ UnknownId \in Nat
    BY DEF Inv, TypeOK, UnknownId
  <2>2. ASSUME NEW c \in DaemonCommand, NEW r \in RouteOutcomes(state, ui, UnknownId, c), state' = r.state
        PROVE  state' = state \/ \E d \in DaemonCommand : state' = Reduce(state, d)
    BY <2>1, <2>2, RoutingMoves
  <2>3. UNCHANGED ledger
    BY <1>3 DEF HandleUiEvent, HandleEvent
  <2>. QED
    BY <1>3, <2>2, <2>3, UiEventFacts
<1>4. CASE RouterStart \/ RouterCancel \/ RouterBreak \/ RouterClose
  BY <1>4 DEF RouterStart, RouterCancel, RouterBreak, RouterClose
<1>. QED
  BY <1>1, <1>2, <1>3, <1>4, OnlyTheRouterMoves DEF RouterStep

\* What was told precedes the state, before and after every step.
LEMMA ViewStep ==
  ASSUME Inv, ViewInv, GenerationIdentifiesView, [Next]_vars
  PROVE  ViewInv' /\ GenerationIdentifiesView'
<1>1. state \in DaemonSnapshot /\ ledger \in Seq(LedgerEntry) /\ state' \in DaemonSnapshot
  BY NextInv DEF Inv, TypeOK
<1>2. \A old \in DaemonSnapshot : Precedes(old, state) => Precedes(old, state')
  BY <1>1, StateMoves, ReducePrecedes
<1>3. Precedes(state', state')
  BY <1>1 DEF Precedes, DaemonSnapshot
<1>4. CASE UNCHANGED ledger
  BY <1>2, <1>4 DEF ViewInv, GenerationIdentifiesView
<1>5. ASSUME NEW entry \in LedgerEntry, ledger' = Append(ledger, entry),
             entry.reply.kind = "success" => entry.reply.snapshot = state'
      PROVE  ViewInv' /\ GenerationIdentifiesView'
  <2>1. /\ DOMAIN ledger' = DOMAIN ledger \cup {Len(ledger) + 1}
        /\ \A k \in DOMAIN ledger : ledger'[k] = ledger[k]
        /\ ledger'[Len(ledger) + 1] = entry
    BY <1>1, <1>5, LedgerAppend
  <2>2. ViewInv'
    BY <1>1, <1>2, <1>3, <1>5, <2>1 DEF ViewInv
  <2>3. \A k \in DOMAIN ledger :
          /\ ledger[k].reply.kind = "success" /\ entry.reply.kind = "success"
          /\ ledger[k].reply.snapshot.generation = entry.reply.snapshot.generation
          /\ entry.reply.snapshot.generation < MaxU64
          => Observable(ledger[k].reply.snapshot) = Observable(entry.reply.snapshot)
    BY <1>2, <1>5 DEF ViewInv, Precedes
  <2>. QED
    BY <2>1, <2>2, <2>3 DEF GenerationIdentifiesView
<1>. QED
  BY <1>4, <1>5, StateMoves

\* Two callers given equal generations were given equal views, for any number
\* of clients and whatever the UI and its backend do in between.
THEOREM GenerationsIdentify == Spec => []GenerationIdentifiesView
<1>1. Init => ViewInv /\ GenerationIdentifiesView
  BY DEF Init, ViewInv, GenerationIdentifiesView
<1>2. Inv /\ ViewInv /\ GenerationIdentifiesView /\ [Next]_vars
      => ViewInv' /\ GenerationIdentifiesView'
  BY ViewStep
<1>. QED
  BY <1>1, <1>2, InvHolds, PTL DEF Spec
=============================================================================
