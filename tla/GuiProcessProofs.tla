-------------------------- MODULE GuiProcessProofs --------------------------
(***************************************************************************)
(* The daemon process with a window, for every catalog, channel capacity    *)
(* and choice of faults: the walk of Discovery and the registry of          *)
(* ChildRegistry keep what their own modules prove of them inside the       *)
(* process, Enter hides the window only with a launch, success is reported  *)
(* only by a process that left nothing behind, and the window agrees with   *)
(* the daemon whenever nothing is under way between them.                   *)
(***************************************************************************)
EXTENDS GuiProcess, DaemonStateProofs, FiniteSetTheorems, WellFoundedInduction

W == INSTANCE DiscoveryProofs
C == INSTANCE ChildRegistryProofs

\* The walk, until its report is taken apart.
WalkInv ==
  \/ W!IInv
  \/ tree = {} /\ looked = {} /\ seen = {} /\ applications = {} /\ diagnostics = {}

\* Children are spawned only while the router runs, and none outlives its loop.
NoneYet      == {"none", "starting"}
Past         == {"hiding", "closing"} \cup Ended
ChildrenEnd  == router \in NoneYet \cup Past => registry = {}
ChildInv     == Children!TypeOK /\ ChildrenAreOwned /\ ChildrenEnd

\* What the stages of the tasks say of one another.
DaemonFollows == main = "discovering" => daemon = "none"
RouterFollows ==
  /\ daemon \in {"none", "binding"} => router = "none"
  /\ daemon # "serving" => router \in {"none", "dropped"} \cup Ended
SuccessIsTold == daemon = "ok" => router = "ok"
JoinedInOrder ==
  /\ main = "awaiting_window" => daemon \in Ended
  /\ main = "awaiting_daemon" => window = "ok"
  /\ main = "ok" => daemon = "ok" /\ window = "ok"
StageInv == DaemonFollows /\ RouterFollows /\ SuccessIsTold /\ JoinedInOrder

EventsAreKeys == events \in Seq(Keys)

IInv == WalkInv /\ ChildInv /\ StageInv /\ EventsAreKeys

----------------------------------------------------------------------------
\* The walk inside the process is the one that DiscoveryProofs is about.
LEMMA SameWalk ==
  /\ Walk!Init <=> W!Init
  /\ \A f : Walk!Look(f) <=> W!Look(f)
  /\ Walk!FirstIdWins <=> W!FirstIdWins
  /\ W!TreesAreFiles
BY TreesAreFiles
   DEF Walk!Init, W!Init, Walk!Look, W!Look, Walk!IsNext, W!IsNext, Walk!FirstIdWins,
       W!FirstIdWins, Walk!Precedes, W!Precedes, Walk!Finished, W!Finished, Walk!Decides,
       W!Decides, TreesAreFiles, File, W!TreesAreFiles, W!File

\* And so is the registry.
LEMMA SameChildren ==
  /\ Children!Child = C!Child
  /\ Children!Status = C!Status
  /\ Children!Alive = C!Alive
  /\ \A p, r : Children!Reaped(p, r) = C!Reaped(p, r)
BY DEF Children!Child, C!Child, Children!Status, C!Status, Children!Alive, C!Alive,
       Children!Reaped, C!Reaped

\* Reaping loses no child that can be waited for (ChildRegistryProofs).
LEMMA ReapingIsExact ==
  ASSUME NEW p \in [Children!Child -> Children!Status], NEW r \in SUBSET Children!Child
  PROVE  /\ Children!Reaped(p, r).proc \in [Children!Child -> Children!Status]
         /\ Children!Reaped(p, r).registry \in SUBSET Children!Child
         /\ r = {c \in Children!Child : p[c] \in Children!Alive}
            => /\ Children!Reaped(p, r).ok
               /\ Children!Reaped(p, r).registry
                    = {c \in Children!Child : Children!Reaped(p, r).proc[c] \in Children!Alive}
BY SameChildren, C!ReapingIsExact

\* A step that leaves the walk alone.
LEMMA Stutters == ASSUME UNCHANGED walkVars, WalkInv PROVE WalkInv'
<1>1. CASE W!IInv
  BY <1>1 DEF WalkInv, walkVars, W!IInv, W!TypeOK, W!LookedComeFirst, W!SeenAreMet,
     W!GivenAreDecided, W!DiagnosedAreBad, W!Decides, W!Precedes, W!Readable
<1>2. CASE ~W!IInv
  BY <1>2 DEF WalkInv, walkVars
<1>. QED
  BY <1>1, <1>2

\* One more file (DiscoveryProofs).
LEMMA WalkGoesOn == ASSUME Walk!Step, WalkInv PROVE WalkInv'
<1>1. PICK f \in tree : Walk!Look(f)
  BY DEF Walk!Step
<1>2. W!Look(f) /\ W!TreesAreFiles
  BY <1>1, SameWalk
<1>3. W!IInv
  BY <1>1 DEF WalkInv
<1>4. W!IInv'
  BY <1>1, <1>2, <1>3, W!LookKeeps
<1>. QED
  BY <1>4 DEF WalkInv

----------------------------------------------------------------------------
(* The children                                                            *)

\* A reaping of what the registry holds loses nothing.
LEMMA ReapKeeps ==
  ASSUME ChildInv, Children!Becomes(Children!Reaped(proc, registry))
  PROVE  /\ Children!TypeOK'
         /\ router # "dropped" => Children!ChildrenAreOwned'
BY ReapingIsExact
   DEF ChildInv, ChildrenAreOwned, Children!ChildrenAreOwned, Children!TypeOK, Children!Becomes

\* What launch makes of processes p and registry r that the reaping has left.
LEMMA LaunchOf ==
  ASSUME NEW p \in [Children!Child -> Children!Status], NEW r \in SUBSET Children!Child,
         autoReap \in BOOLEAN, NEW o \in Children!Spawned(p, r)
  PROVE  /\ o.proc \in [Children!Child -> Children!Status]
         /\ o.registry \in SUBSET Children!Child
         /\ ~autoReap /\ r = {c \in Children!Child : p[c] \in Children!Alive}
            => o.registry = {c \in Children!Child : o.proc[c] \in Children!Alive}
         /\ \E c \in Children!Child : p[c] = "none" /\ o.proc[c] # "none"
<1>1. PICK c \in Children!Unspawned(p), s \in {"running", Children!Remains} :
        o = Children!Registered(p, r, c, s)
  BY DEF Children!Spawned
<1>. DEFINE q == [p EXCEPT ![c] = s]
            t == r \cup {c}
<1>2. /\ c \in Children!Child /\ p[c] = "none"
      /\ s \in Children!Status /\ s # "none" /\ (~autoReap => s \in Children!Alive)
  BY DEF Children!Unspawned, Children!Remains, Children!Status, Children!Alive
<1>3. q \in [Children!Child -> Children!Status] /\ t \in SUBSET Children!Child /\ q[c] = s
  BY <1>2
<1>4. ~autoReap /\ r = {b \in Children!Child : p[b] \in Children!Alive}
      => t = {b \in Children!Child : q[b] \in Children!Alive}
  <2>1. \A b \in Children!Child \ {c} : q[b] = p[b]
    OBVIOUS
  <2>. HIDE DEF q
  <2>. QED
    BY <1>2, <1>3, <2>1
<1>. HIDE DEF q, t
<1>5. o = Children!Reaped(q, t)
  BY <1>1 DEF q, t, Children!Registered
<1>6. Children!Reaped(q, t).proc[c] \in {s, "gone"}
  BY <1>2, <1>3 DEF Children!Reaped
<1>7. o.proc[c] # "none"
  BY <1>2, <1>5, <1>6
<1>. QED
  BY <1>2, <1>3, <1>4, <1>5, <1>7, ReapingIsExact

\* An event: the children are reaped, and Enter may spawn one.
LEMMA EventKeepsChildren == ASSUME ChildInv, RouterEvent PROVE ChildInv'
<1>. DEFINE o == Children!Reaped(proc, registry)
<1>1. \E n \in {o} \cup Children!Spawned(o.proc, o.registry) : Children!Becomes(n)
  <2>1. CASE Head(events).kind = "submit"
    <3>1. Submit(o.proc, o.registry)
      BY <2>1 DEF RouterEvent
    <3>2. \/ Children!Becomes([proc |-> o.proc, registry |-> o.registry])
          \/ \E n \in Children!Spawned(o.proc, o.registry) : Children!Becomes(n)
      BY <3>1 DEF Submit
    <3>3. Children!Becomes([proc |-> o.proc, registry |-> o.registry]) => Children!Becomes(o)
      BY DEF Children!Becomes
    <3>. HIDE DEF o
    <3>. QED
      BY <3>2, <3>3
  <2>2. CASE Head(events).kind # "submit"
    BY <2>2 DEF RouterEvent
  <2>. QED
    BY <2>1, <2>2
<1>0. PICK n \in {o} \cup Children!Spawned(o.proc, o.registry) : Children!Becomes(n)
  BY <1>1
<1>2. /\ o.proc \in [Children!Child -> Children!Status]
      /\ o.registry \in SUBSET Children!Child
      /\ ~autoReap => o.registry = {c \in Children!Child : o.proc[c] \in Children!Alive}
  BY ReapingIsExact DEF ChildInv, Children!TypeOK, ChildrenAreOwned, Children!ChildrenAreOwned, RouterEvent
<1>. HIDE DEF o
<1>3. /\ n.proc \in [Children!Child -> Children!Status]
      /\ n.registry \in SUBSET Children!Child
      /\ ~autoReap => n.registry = {c \in Children!Child : n.proc[c] \in Children!Alive}
  BY <1>2, LaunchOf DEF ChildInv, Children!TypeOK
<1>4. router' = "running"
  BY DEF RouterEvent
<1>. QED
  BY <1>0, <1>3, <1>4
     DEF ChildInv, ChildrenAreOwned, ChildrenEnd, NoneYet, Past, Ended, Children!TypeOK,
         Children!ChildrenAreOwned, Children!Becomes

\* The timer reaps, and nothing more.
LEMMA TickKeepsChildren == ASSUME ChildInv, RouterTick PROVE ChildInv'
<1>1. router = "running" /\ router' = "running" /\ Children!Becomes(Children!Reaped(proc, registry))
  BY DEF RouterTick, routerVars, Children!ReapFinished
<1>. QED
  BY <1>1, ReapKeeps
     DEF ChildInv, ChildrenAreOwned, ChildrenEnd, NoneYet, Past, Ended, Children!ChildrenAreOwned

\* The children are ended; nothing is left in the registry.
LEMMA EndKeepsChildren == ASSUME ChildInv, EndChildren PROVE ChildInv'
<1>. DEFINE failing == IF autoReap THEN registry ELSE {c \in registry : proc[c] = "gone"}
            reached == {c \in registry : \A f \in failing : c <= f}
<1>1. /\ proc' = [c \in Children!Child |-> IF c \in reached THEN "gone" ELSE proc[c]]
      /\ registry' = {} /\ autoReap' = autoReap /\ router = "leaving"
  BY DEF EndChildren, Children!Shutdown, Children!ShutDown, Children!Becomes
<1>2. ASSUME ~autoReap PROVE reached = registry
  BY <1>1, <1>2 DEF ChildInv, ChildrenAreOwned, Children!ChildrenAreOwned, Children!Alive
<1>. HIDE DEF reached
<1>. QED
  BY <1>1, <1>2
     DEF ChildInv, ChildrenAreOwned, ChildrenEnd, Children!TypeOK, Children!ChildrenAreOwned,
         Children!Alive, Children!Status

\* A child that exits by itself is still to be waited for.
LEMMA ExitKeepsChildren == ASSUME ChildInv, ChildExits PROVE ChildInv'
<1>1. PICK c \in Children!Child : Children!Exits(c)
  BY DEF ChildExits
<1>2. router' = router /\ registry' = registry /\ autoReap' = autoReap
  BY <1>1 DEF ChildExits, routerVars, Children!Exits
<1>. QED
  BY <1>1, <1>2
     DEF ChildInv, ChildrenAreOwned, ChildrenEnd, Children!TypeOK, Children!ChildrenAreOwned,
         Children!Exits, Children!Remains, Children!Alive, Children!Status

\* The runtime drops the registry with the router; a daemon that has ended has
\* none any more.
LEMMA DropKeepsChildren == ASSUME ChildInv, StageInv, DropRuntime PROVE ChildInv'
<1>1. proc' = proc /\ autoReap' = autoReap /\ registry' = {}
  BY DEF DropRuntime
<1>2. router' # "dropped" => registry = {} /\ router # "dropped"
  BY DEF DropRuntime, ChildInv, ChildrenEnd, StageInv, RouterFollows, NoneYet, Past, Ended
<1>. QED
  BY <1>1, <1>2
     DEF ChildInv, ChildrenAreOwned, ChildrenEnd, Children!TypeOK, Children!ChildrenAreOwned,
         Children!Alive

----------------------------------------------------------------------------
(* One step                                                                *)

\* Only two steps touch the walk: one goes on with it, one takes its report apart.
LEMMA WalkKeeps == ASSUME WalkInv, Next PROVE WalkInv'
<1>1. CASE Discover
  BY <1>1, WalkGoesOn DEF Discover
<1>2. CASE SpawnDaemon
  BY <1>2 DEF SpawnDaemon, WalkInv
<1>3. ASSUME ~Discover, ~SpawnDaemon PROVE UNCHANGED walkVars
  <2>1. CASE StartStep
    BY <1>3, <2>1 DEF StartStep, ConfigFails, Bind, AwaitReady
  <2>2. CASE RouterStep
    BY <2>2 DEF RouterStep, RouterStart, RouterRequest, RouterEvent, RouterTick, RouterBreak,
       EndChildren, RouterHide, RouterClose, Farewell
  <2>3. CASE ListenerFails \/ DaemonEnds \/ Signal \/ ChildExits \/ Rest
    BY <2>3 DEF ListenerFails, DaemonEnds, Signal, ChildExits, Rest, vars
  <2>4. CASE WindowStep
    BY <2>4 DEF WindowStep, WindowReceives, WindowLeaves, WindowReturns, Press
  <2>5. CASE EndStep
    BY <2>5 DEF EndStep, DaemonFirst, WindowJoined, WindowFirst, DaemonJoined, DropRuntime,
       ProcessExits
  <2>. QED
    BY <2>1, <2>2, <2>3, <2>4, <2>5 DEF Next
<1>. QED
  BY <1>1, <1>2, <1>3, Stutters

\* A step that leaves the children alone, and does not take the router back.
LEMMA ChildrenStay ==
  ASSUME ChildInv, UNCHANGED childVars,
         router' \in NoneYet \cup Past => router \in NoneYet \cup Past,
         router' # "dropped" => router # "dropped"
  PROVE  ChildInv'
BY DEF ChildInv, childVars, ChildrenAreOwned, ChildrenEnd, Children!TypeOK,
       Children!ChildrenAreOwned

\* The registry is what it should be after every step.
LEMMA ChildrenKeep == ASSUME ChildInv, StageInv, Next PROVE ChildInv'
<1>. USE DEF NoneYet, Past, Ended
<1>1. CASE StartStep
  BY <1>1, ChildrenStay DEF StartStep, ConfigFails, Discover, SpawnDaemon, Bind, AwaitReady,
     routerVars, taskVars, StageInv, RouterFollows
<1>2. CASE RouterStart \/ RouterRequest \/ RouterBreak \/ RouterHide \/ RouterClose
  BY <1>2, ChildrenStay DEF RouterStart, RouterRequest, RouterBreak, RouterHide, RouterClose,
     Farewell, RouterReturns
<1>3. CASE RouterEvent \/ RouterTick \/ EndChildren
  BY <1>3, EventKeepsChildren, TickKeepsChildren, EndKeepsChildren
<1>4. CASE ListenerFails \/ DaemonEnds \/ Signal \/ Rest
  BY <1>4, ChildrenStay DEF ListenerFails, DaemonEnds, Signal, Rest, vars, routerVars
<1>5. CASE WindowStep
  BY <1>5, ChildrenStay DEF WindowStep, WindowReceives, WindowLeaves, WindowReturns, Press,
     routerVars
<1>6. CASE EndStep /\ ~DropRuntime
  BY <1>6, ChildrenStay DEF EndStep, DaemonFirst, WindowJoined, WindowFirst, DaemonJoined,
     ProcessExits, routerVars
<1>7. CASE DropRuntime \/ ChildExits
  BY <1>7, DropKeepsChildren, ExitKeepsChildren
<1>. QED
  BY <1>1, <1>2, <1>3, <1>4, <1>5, <1>6, <1>7 DEF Next, RouterStep

\* The stages go forward.
LEMMA StagesKeep == ASSUME StageInv, Next PROVE StageInv'
<1>. USE DEF StageInv, DaemonFollows, RouterFollows, SuccessIsTold, JoinedInOrder, Ended
<1>1. CASE StartStep
  BY <1>1 DEF StartStep, ConfigFails, Discover, SpawnDaemon, Bind, AwaitReady, routerVars,
     taskVars, windowVars
<1>2. CASE RouterStep
  BY <1>2 DEF RouterStep, RouterStart, RouterRequest, RouterEvent, RouterTick, RouterBreak,
     EndChildren, RouterHide, RouterClose, Farewell, RouterReturns, routerVars, taskVars,
     windowVars
<1>3. CASE ListenerFails \/ DaemonEnds \/ Signal \/ ChildExits \/ Rest
  BY <1>3 DEF ListenerFails, DaemonEnds, Signal, ChildExits, Rest, vars, routerVars, taskVars,
     windowVars
<1>4. CASE WindowStep
  BY <1>4 DEF WindowStep, WindowReceives, WindowLeaves, WindowReturns, Press, Leave, routerVars,
     taskVars
<1>5. CASE EndStep
  BY <1>5 DEF EndStep, DaemonFirst, WindowJoined, WindowFirst, DaemonJoined, DropRuntime,
     ProcessExits, routerVars, windowVars
<1>. QED
  BY <1>1, <1>2, <1>3, <1>4, <1>5 DEF Next

\* The window's keys are what the event channel carries.
LEMMA EventsKeep == ASSUME EventsAreKeys, Next PROVE EventsAreKeys'
<1>. USE DEF EventsAreKeys
<1>0. <<>> \in Seq(Keys)
  OBVIOUS
<1>1. CASE StartStep
  BY <1>1 DEF StartStep, ConfigFails, Discover, SpawnDaemon, Bind, AwaitReady, linkVars
<1>2. CASE RouterStep
  <2>1. CASE RouterEvent
    <3>1. events # <<>> /\ events' = Tail(events)
      BY <2>1 DEF RouterEvent
    <3>. QED
      BY <3>1, HeadTailProperties
  <2>2. CASE RouterStart \/ RouterHide \/ RouterClose
    <3>1. events' = events \/ events' = <<>>
      BY <2>2 DEF RouterStart, RouterHide, RouterClose, Farewell, RouterReturns
    <3>. QED
      BY <1>0, <3>1
  <2>3. CASE RouterRequest \/ RouterTick \/ RouterBreak \/ EndChildren
    BY <2>3 DEF RouterRequest, RouterTick, RouterBreak, EndChildren, linkVars
  <2>. QED
    BY <1>2, <2>1, <2>2, <2>3 DEF RouterStep
<1>3. CASE ListenerFails \/ DaemonEnds \/ Signal \/ ChildExits \/ Rest
  BY <1>3 DEF ListenerFails, DaemonEnds, Signal, ChildExits, Rest, vars, linkVars
<1>4. CASE WindowStep
  <2>1. CASE WindowReceives \/ WindowLeaves \/ WindowReturns
    BY <2>1 DEF WindowReceives, WindowLeaves, WindowReturns, linkVars
  <2>2. ASSUME NEW e \in Keys, Press(e) PROVE events \in Seq(Keys) => events' \in Seq(Keys)
    <3>1. events' = events \/ events' = Append(events, e)
      BY <2>2 DEF Press
    <3>. QED
      BY <3>1, AppendProperties
  <2>. QED
    BY <1>4, <2>1, <2>2, Zenon DEF WindowStep
<1>5. CASE EndStep
  <2>1. events' = events \/ events' = <<>>
    BY <1>5 DEF EndStep, DaemonFirst, WindowJoined, WindowFirst, DaemonJoined, DropRuntime,
       ProcessExits, linkVars
  <2>. QED
    BY <1>0, <2>1
<1>. QED
  BY <1>1, <1>2, <1>3, <1>4, <1>5 DEF Next

----------------------------------------------------------------------------
\* Nothing has been found, spawned or pressed.
LEMMA InitHolds == Init => IInv
<1>. SUFFICES ASSUME Init PROVE IInv
  OBVIOUS
<1>1. WalkInv
  <2>1. W!Init
    BY SameWalk DEF Init
  <2>. QED
    BY <2>1 DEF WalkInv, W!IInv, W!Init, W!TypeOK, W!LookedComeFirst, W!SeenAreMet,
       W!GivenAreDecided, W!DiagnosedAreBad
<1>2. ChildInv
  BY DEF Init, Children!Init, ChildInv, ChildrenAreOwned, ChildrenEnd, Children!TypeOK,
     Children!ChildrenAreOwned, Children!Child, Children!Status, Children!Alive
<1>3. StageInv /\ EventsAreKeys
  BY DEF Init, StageInv, DaemonFollows, RouterFollows, SuccessIsTold, JoinedInOrder, Ended,
     EventsAreKeys
<1>. QED
  BY <1>1, <1>2, <1>3 DEF IInv

\* The invariant, step by step.
LEMMA InvariantHolds == Spec => []IInv
<1>1. IInv /\ Next => IInv'
  BY WalkKeeps, ChildrenKeep, StagesKeep, EventsKeep DEF IInv
<1>2. IInv /\ UNCHANGED vars => IInv'
  <2>. SUFFICES ASSUME IInv, UNCHANGED vars PROVE IInv'
    OBVIOUS
  <2>1. WalkInv'
    BY Stutters DEF IInv, vars
  <2>2. ChildInv'
    BY ChildrenStay DEF IInv, vars, routerVars
  <2>3. StageInv' /\ EventsAreKeys'
    BY DEF IInv, vars, routerVars, taskVars, windowVars, linkVars, StageInv, DaemonFollows,
       RouterFollows, SuccessIsTold, JoinedInOrder, EventsAreKeys
  <2>. QED
    BY <2>1, <2>2, <2>3 DEF IInv
<1>. QED
  BY <1>1, <1>2, InitHolds, PTL DEF Spec

\* Of every desktop id the first file in order of precedence decides, in the
\* walk that run_daemon_gui starts with.
THEOREM FirstDecides == Spec => []FirstIdWins
<1>1. WalkInv => Walk!FirstIdWins
  <2>1. W!IInv => W!FirstIdWins
    BY DEF W!IInv, W!FirstIdWins, W!Finished, W!GivenAreDecided, W!DiagnosedAreBad
  <2>2. tree = {} /\ applications = {} /\ diagnostics = {} => Walk!FirstIdWins
    BY DEF Walk!FirstIdWins
  <2>. QED
    BY <2>1, <2>2, SameWalk DEF WalkInv
<1>2. IInv => FirstIdWins
  BY <1>1 DEF IInv, FirstIdWins
<1>. QED
  BY <1>2, InvariantHolds, PTL

\* As long as the daemon task lives no child that can be waited for is lost,
\* however launches, the reaping of every turn and the shutdown follow one another.
THEOREM NoChildIsLost == Spec => []ChildrenAreOwned
<1>1. IInv => ChildrenAreOwned
  BY DEF IInv, ChildInv
<1>. QED
  BY <1>1, InvariantHolds, PTL

\* Success means that both sides ended well and that no child is left.
THEOREM SuccessLeavesNothing == Spec => []SuccessIsClean
<1>1. IInv => SuccessIsClean
  BY DEF IInv, ChildInv, ChildrenAreOwned, ChildrenEnd, Past, Ended, StageInv, JoinedInOrder,
     SuccessIsTold, SuccessIsClean, Quiet, Children!ChildrenAreOwned
<1>. QED
  BY <1>1, InvariantHolds, PTL

\* Only requests and events change the daemon's state, and a request leaves the
\* events where they are.
LEMMA EventsChange ==
  ASSUME IInv, [Next]_vars, events # <<>>, events' = Tail(events), state' # state
  PROVE  RouterEvent
<1>1. CASE UNCHANGED vars
  BY <1>1 DEF vars, routerVars
<1>2. CASE RouterRequest
  <2>1. events' = events
    BY <1>2 DEF RouterRequest
  <2>2. events \in Seq(Keys)
    BY DEF IInv, EventsAreKeys
  <2>3. Len(Tail(events)) = Len(events) - 1 /\ Len(events) \in Nat
    BY <2>2, HeadTailProperties, LenProperties
  <2>. QED
    BY <2>1, <2>3
<1>3. CASE StartStep
  BY <1>3 DEF StartStep, ConfigFails, Discover, SpawnDaemon, Bind, AwaitReady, routerVars
<1>4. CASE RouterStep /\ ~RouterRequest
  BY <1>4 DEF RouterStep, RouterStart, RouterTick, RouterBreak, EndChildren, RouterHide,
     RouterClose, Farewell, routerVars
<1>5. CASE ListenerFails \/ DaemonEnds \/ Signal \/ ChildExits \/ Rest
  BY <1>5 DEF ListenerFails, DaemonEnds, Signal, ChildExits, Rest, vars, routerVars
<1>6. CASE WindowStep
  BY <1>6 DEF WindowStep, WindowReceives, WindowLeaves, WindowReturns, Press, routerVars
<1>7. CASE EndStep
  BY <1>7 DEF EndStep, DaemonFirst, WindowJoined, WindowFirst, DaemonJoined, DropRuntime,
     ProcessExits, routerVars
<1>. QED
  BY <1>1, <1>2, <1>3, <1>4, <1>5, <1>6, <1>7 DEF Next

\* Enter changes the daemon's state only together with a child that it spawns
\* from the application at the marker (handle_ui_event, Submit).
THEOREM EnterNeedsLaunch == Spec => EnterHidesOnLaunch
<1>. DEFINE Hides == /\ router = "running" /\ events # <<>> /\ events' = Tail(events)
                     /\ Head(events) = [kind |-> "submit"] /\ state' # state
            Launches == /\ Marked \notin Unsupported
                        /\ \E c \in Children!Child : proc[c] = "none" /\ proc'[c] # "none"
<1>1. ASSUME IInv, [Next]_vars, Hides PROVE Launches
  <2>. DEFINE o == Children!Reaped(proc, registry)
  <2>1. Submit(o.proc, o.registry)
    BY <1>1, EventsChange DEF RouterEvent
  <2>2. /\ o.proc \in [Children!Child -> Children!Status]
        /\ o.registry \in SUBSET Children!Child
        /\ autoReap \in BOOLEAN
        /\ \A c \in Children!Child : o.proc[c] = "none" => proc[c] = "none"
    <3>1. proc \in [Children!Child -> Children!Status] /\ registry \in SUBSET Children!Child
          /\ autoReap \in BOOLEAN
      BY <1>1 DEF IInv, ChildInv, Children!TypeOK
    <3>2. \A c \in Children!Child : o.proc[c] = "none" => proc[c] = "none"
      BY DEF Children!Reaped
    <3>. QED
      BY <3>1, <3>2, ReapingIsExact
  <2>. HIDE DEF o
  <2>3. PICK n \in Children!Spawned(o.proc, o.registry) : Children!Becomes(n)
    BY <1>1, <2>1 DEF Submit, Ignore
  <2>4. Marked \notin Unsupported
    BY <1>1, <2>1 DEF Submit, Ignore
  <2>5. PICK c \in Children!Child : o.proc[c] = "none" /\ n.proc[c] # "none"
    BY <2>2, LaunchOf
  <2>. QED
    BY <2>2, <2>3, <2>4, <2>5 DEF Children!Becomes
<1>2. IInv /\ [Next]_vars => [Hides => Launches]_vars
  BY <1>1
<1>. QED
  BY <1>2, InvariantHolds, PTL DEF Spec, EnterHidesOnLaunch

----------------------------------------------------------------------------
(* What the search finds                                                   *)

Below == {p \in Nat \X Nat : p[1] < p[2]}

\* Induction over the natural numbers, for a set of them.
LEMMA Induction ==
  ASSUME NEW T, 0 \in T, \A n \in Nat : n \in T => n + 1 \in T PROVE Nat \subseteq T
<1>1. IsWellFoundedOn(Below, Nat)
  <2>1. OpToRel(<, Nat) = Below
    BY DEF OpToRel, Below
  <2>. QED
    BY <2>1, NatLessThanWellFounded
<1>2. SUFFICES ASSUME Nat \ T # {} PROVE FALSE
  OBVIOUS
<1>3. PICK x \in Nat \ T : \A y \in Nat \ T : <<y, x>> \notin Below
  <2>1. IsWellFoundedOn(Below, Nat \ T)
    BY <1>1, IsWellFoundedOnSubset
  <2>. QED
    BY <1>1, <1>2, WFMin
<1>4. x # 0 /\ x - 1 \in Nat /\ <<x - 1, x>> \in Below
  BY <1>3 DEF Below
<1>. QED
  BY <1>3, <1>4

\* The hits that item i of the index leads to, after those before it.
Hit(index, q, i, hits) ==
  IF Len(hits) < ResultLimit /\ (q = Blank \/ index[i] \in Matches[q])
  THEN Append(hits, index[i]) ELSE hits

Searches(f, index, q, n) ==
  f = [i \in 0..n |-> IF i = 0 THEN <<>> ELSE Hit(index, q, i, f[i - 1])]

\* The search goes through any index.
LEMMA SearchEnds ==
  ASSUME NEW index, NEW q, NEW n \in Nat PROVE \E f : Searches(f, index, q, n)
<1>. DEFINE T == {k \in Nat : \E f : Searches(f, index, q, k)}
<1>1. 0 \in T
  <2>. DEFINE f == [i \in 0..0 |-> <<>>]
  <2>1. Searches(f, index, q, 0)
    BY DEF Searches
  <2>. QED
    BY <2>1
<1>2. ASSUME NEW k \in Nat, k \in T PROVE k + 1 \in T
  <2>1. PICK f : Searches(f, index, q, k)
    BY <1>2
  <2>. DEFINE g == [i \in 0..(k + 1) |-> IF i = k + 1 THEN Hit(index, q, k + 1, f[k]) ELSE f[i]]
  <2>2. \A i \in 0..k : f[i] = IF i = 0 THEN <<>> ELSE Hit(index, q, i, f[i - 1])
    BY <2>1 DEF Searches
  <2>3. \A i \in 0..(k + 1) : g[i] = IF i = 0 THEN <<>> ELSE Hit(index, q, i, g[i - 1])
    BY <2>2
  <2>4. Searches(g, index, q, k + 1)
    BY <2>3 DEF Searches
  <2>. QED
    BY <2>4
<1>. HIDE DEF T
<1>3. Nat \subseteq T
  BY <1>1, <1>2, Induction
<1>. QED
  BY <1>3 DEF T

\* The search returns items of the index that match, and no more than the limit.
LEMMA FoundAreHits ==
  ASSUME NEW index \in Seq(Words), NEW q
  PROVE  /\ Found(index, q) \in Seq({w \in Words : q = Blank \/ w \in Matches[q]})
         /\ Len(Found(index, q)) <= ResultLimit
<1>. DEFINE S == {w \in Words : q = Blank \/ w \in Matches[q]}
            Good(hits) == hits \in Seq(S) /\ Len(hits) <= ResultLimit
<1>0. Len(index) \in Nat /\ ResultLimit \in Nat
  BY LenProperties, BoundsAreCounts
<1>1. PICK f : Searches(f, index, q, Len(index)) /\ Found(index, q) = f[Len(index)]
  <2>1. \E f : Searches(f, index, q, Len(index))
    BY <1>0, SearchEnds
  <2>2. Found(index, q) = (CHOOSE f : Searches(f, index, q, Len(index)))[Len(index)]
    BY DEF Found, Searches, Hit
  <2>. QED
    BY <2>1, <2>2
<1>. DEFINE T == {k \in Nat : k <= Len(index) => Good(f[k])}
<1>2. 0 \in T
  BY <1>0, <1>1 DEF Searches
<1>3. ASSUME NEW k \in Nat, k \in T PROVE k + 1 \in T
  <2>. SUFFICES ASSUME k + 1 <= Len(index) PROVE Good(f[k + 1])
    OBVIOUS
  <2>1. f[k + 1] = Hit(index, q, k + 1, f[k]) /\ Good(f[k])
    BY <1>0, <1>1, <1>3 DEF Searches
  <2>2. index[k + 1] \in Words
    BY <1>0, ElementOfSeq
  <2>3. CASE f[k + 1] = f[k]
    BY <2>1, <2>3
  <2>4. CASE f[k + 1] # f[k]
    <3>1. index[k + 1] \in S /\ Len(f[k]) < ResultLimit /\ f[k + 1] = Append(f[k], index[k + 1])
      BY <2>1, <2>2, <2>4 DEF Hit
    <3>. HIDE DEF S
    <3>2. /\ Append(f[k], index[k + 1]) \in Seq(S) /\ Len(f[k]) \in Nat
          /\ Len(Append(f[k], index[k + 1])) = Len(f[k]) + 1
      BY <2>1, <3>1, AppendProperties, LenProperties
    <3>. QED
      BY <1>0, <3>1, <3>2
  <2>. QED
    BY <2>3, <2>4
<1>. HIDE DEF T
<1>4. Nat \subseteq T
  BY <1>2, <1>3, Induction
<1>. HIDE DEF Good
<1>5. Good(f[Len(index)])
  BY <1>0, <1>4 DEF T
<1>. QED
  BY <1>1, <1>5 DEF Good

----------------------------------------------------------------------------
(* The types                                                               *)

StageTypes ==
  /\ main \in {"discovering", "binding", "selecting", "awaiting_window", "awaiting_daemon"} \cup Ended
  /\ process \in {"running", "unwinding", "over"}
  /\ daemon \in {"none", "binding", "serving", "dropped"} \cup Ended
  /\ router \in {"none", "starting", "running", "leaving", "hiding", "closing", "dropped"} \cup Ended
  /\ window \in {"none", "open", "closed", "broken"} \cup Ended
  /\ main \in {"discovering", "binding"} => window = "none"

DataInv == state \in DaemonSnapshot /\ catalog \in Seq(Words) /\ IsFiniteSet(applications)

\* The stages stay in their types, and the window is not opened twice.
LEMMA StageTypesKeep == ASSUME StageTypes, StageInv, Next PROVE StageTypes'
<1>. USE DEF StageTypes, Ended
<1>1. CASE StartStep
  BY <1>1 DEF StartStep, ConfigFails, Discover, SpawnDaemon, Bind, AwaitReady, routerVars,
     taskVars, windowVars
<1>2. CASE RouterStep
  BY <1>2 DEF RouterStep, RouterStart, RouterRequest, RouterEvent, RouterTick, RouterBreak,
     EndChildren, RouterHide, RouterClose, Farewell, RouterReturns, routerVars, taskVars,
     windowVars
<1>3. CASE ListenerFails \/ DaemonEnds \/ Signal \/ ChildExits \/ Rest
  BY <1>3 DEF ListenerFails, DaemonEnds, Signal, ChildExits, Rest, vars, routerVars, taskVars,
     windowVars
<1>4. CASE WindowStep
  BY <1>4 DEF WindowStep, WindowReceives, WindowLeaves, WindowReturns, Press, Leave, routerVars,
     taskVars
<1>5. CASE EndStep
  BY <1>5 DEF EndStep, DaemonFirst, WindowJoined, WindowFirst, DaemonJoined, DropRuntime,
     ProcessExits, routerVars, windowVars, StageInv, JoinedInOrder
<1>. QED
  BY <1>1, <1>2, <1>3, <1>4, <1>5 DEF Next

\* The names that the search finds for a state.
LEMMA NamesAreTyped ==
  ASSUME DataInv PROVE NamesFor(state) \in Seq(Words)
<1>1. Found(catalog, QueryText(state.query)) \in
        Seq({w \in Words : QueryText(state.query) = Blank \/ w \in Matches[QueryText(state.query)]})
  BY FoundAreHits DEF DataInv
<1>. QED
  BY <1>1 DEF NamesFor

\* An event is the key of a user; it is ignored or routed, and then it has a command.
LEMMA EventRoutes ==
  ASSUME DataInv, EventsAreKeys, RouterEvent
  PROVE  /\ router = "running" /\ events # <<>> /\ events' = Tail(events)
         /\ Head(events) \in UiEvent
         /\ UNCHANGED <<walkVars, taskVars, router, requests, windowVars, lost, catalog>>
         /\ \/ Ignore /\ Head(events).kind # "query_changed"
            \/ \E c \in EventCommands(state, NamesFor(state), Head(events)) :
                 c \in DaemonCommand /\ Route(c)
<1>. DEFINE e == Head(events)
            commands == EventCommands(state, NamesFor(state), e)
<1>1. /\ router = "running" /\ events # <<>> /\ events' = Tail(events)
      /\ UNCHANGED <<walkVars, taskVars, router, requests, windowVars, lost, catalog>>
  BY DEF RouterEvent
<1>2. e \in UiEvent
  <2>1. e \in Keys
    BY <1>1, HeadTailProperties DEF EventsAreKeys
  <2>. QED
    BY <2>1, CommandsAreKnown
<1>3. \A c \in commands : c \in DaemonCommand
  BY <1>2, NamesAreTyped, EventCommandsType DEF DataInv
<1>4. CASE e.kind = "submit"
  <2>1. Ignore \/ (NamesFor(state) # <<>> /\ Route([kind |-> "hide"]))
    BY <1>4 DEF RouterEvent, Submit
  <2>2. NamesFor(state) # <<>> => [kind |-> "hide"] \in commands
    BY <1>4 DEF EventCommands
  <2>. HIDE DEF commands, e
  <2>3. NamesFor(state) # <<>> /\ Route([kind |-> "hide"])
        => \E c \in commands : c \in DaemonCommand /\ Route(c)
    BY <1>3, <2>2
  <2>. QED
    BY <1>1, <1>2, <1>4, <2>1, <2>3 DEF commands, e
<1>5. CASE e.kind # "submit"
  <2>1. IF commands = {} THEN Ignore ELSE \E c \in commands : Route(c)
    BY <1>5 DEF RouterEvent
  <2>2. e.kind = "query_changed" => commands # {}
    BY DEF EventCommands
  <2>. HIDE DEF commands, e
  <2>3. (commands # {} /\ \E c \in commands : Route(c))
        => \E c \in commands : c \in DaemonCommand /\ Route(c)
    BY <1>3
  <2>. QED
    BY <1>1, <1>2, <2>1, <2>2, <2>3 DEF commands, e
<1>. QED
  BY <1>4, <1>5

\* Routing a command leads from a state to a state.
LEMMA RouteKeepsState ==
  ASSUME state \in DaemonSnapshot, NEW c \in DaemonCommand, Route(c)
  PROVE  state' \in DaemonSnapshot
BY ReduceType DEF Route

\* The catalog is the report's applications in some order.
LEMMA CatalogIsOfNames ==
  ASSUME WalkInv, DataInv, SpawnDaemon PROVE catalog' \in Seq(Words)
<1>1. PICK order \in [1..Cardinality(applications) -> applications] :
        catalog' = [i \in DOMAIN order |-> order[i].name]
  BY DEF SpawnDaemon
<1>2. Cardinality(applications) \in Nat
  BY FS_CardinalityType DEF DataInv
<1>3. \A f \in applications : f.name \in Words
  <2>1. applications \subseteq tree /\ (tree \in Trees \/ tree = {})
    BY DEF WalkInv, W!IInv, W!TypeOK
  <2>2. applications \subseteq File
    BY <2>1, TreesAreFiles
  <2>. QED
    BY <2>2, NamesAreWords DEF File
<1>4. catalog' \in [1..Cardinality(applications) -> Words]
  BY <1>1, <1>3
<1>. QED
  BY <1>2, <1>4

\* The data stays in its types.
LEMMA DataKeeps == ASSUME IInv, DataInv, Next PROVE DataInv'
<1>. USE DEF DataInv
<1>1. CASE Discover
  <2>1. applications' = applications \/ \E f : applications' = applications \cup {f}
    BY <1>1 DEF Discover, Walk!Step, Walk!Look
  <2>. QED
    BY <1>1, <2>1, FS_AddElement DEF Discover, routerVars
<1>2. CASE SpawnDaemon
  BY <1>2, CatalogIsOfNames, FS_EmptySet DEF IInv, SpawnDaemon, routerVars
<1>3. CASE RouterRequest
  BY <1>3, RouteKeepsState, CommandsAreKnown DEF RouterRequest, walkVars
<1>4. CASE RouterEvent
  <2>1. state' = state \/ \E c \in DaemonCommand : Route(c)
    BY <1>4, EventRoutes DEF IInv, Ignore
  <2>2. state' \in DaemonSnapshot
    BY <2>1, RouteKeepsState
  <2>. QED
    BY <1>4, <2>2, EventRoutes DEF IInv, walkVars
<1>5. CASE ConfigFails \/ Bind \/ AwaitReady
  BY <1>5 DEF ConfigFails, Bind, AwaitReady, routerVars, walkVars
<1>6. CASE RouterStep /\ ~RouterRequest /\ ~RouterEvent
  BY <1>6 DEF RouterStep, RouterStart, RouterTick, RouterBreak, EndChildren, RouterHide,
     RouterClose, Farewell, routerVars, walkVars
<1>7. CASE ListenerFails \/ DaemonEnds \/ Signal \/ ChildExits \/ Rest
  BY <1>7 DEF ListenerFails, DaemonEnds, Signal, ChildExits, Rest, vars, routerVars, walkVars
<1>8. CASE WindowStep
  BY <1>8 DEF WindowStep, WindowReceives, WindowLeaves, WindowReturns, Press, routerVars, walkVars
<1>9. CASE EndStep
  BY <1>9 DEF EndStep, DaemonFirst, WindowJoined, WindowFirst, DaemonJoined, DropRuntime,
     ProcessExits, routerVars, walkVars
<1>. QED
  BY <1>1, <1>2, <1>3, <1>4, <1>5, <1>6, <1>7, <1>8, <1>9 DEF Next, StartStep

----------------------------------------------------------------------------
(* The channel of snapshots                                                *)

Active == {"starting", "running", "leaving", "hiding", "closing"}
Early  == {"discovering", "binding", "selecting"}

\* A sender that has overfilled the buffer is parked, and only it may have.  The
\* supervisor's message comes when the router sends no more.
FillInv ==
  /\ snapshots \in Seq(UiSnapshotType)
  /\ parked \in BOOLEAN
  /\ Len(snapshots) <= Slots + 2
  /\ daemon \in {"none", "binding"} => snapshots = <<>> /\ ~parked
  /\ parked => snapshots # <<>>
  /\ router \in Active \/ main \in Early =>
       Len(snapshots) <= Slots + 1 /\ (~parked => Len(snapshots) <= Slots)

\* One more snapshot of the router.
LEMMA PutFills ==
  ASSUME FillInv, NEW m \in UiSnapshotType, Put(m), ~parked, router \in Active,
         daemon' \notin {"none", "binding"}
  PROVE  FillInv'
<1>1. /\ snapshots' \in Seq(UiSnapshotType) /\ Len(snapshots') = Len(snapshots) + 1
      /\ Len(snapshots) \in Nat /\ Slots \in Nat
  BY AppendProperties, LenProperties, BoundsAreCounts DEF FillInv, Put
<1>2. parked' = (Len(snapshots) >= Slots)
  BY DEF Put
<1>3. parked' \in BOOLEAN
  BY <1>2
<1>4. ~parked' => ~(Len(snapshots) >= Slots)
  BY <1>2
<1>5. Len(snapshots) <= Slots
  BY DEF FillInv
<1>6. Len(snapshots)' <= Slots + 1 /\ (~parked' => Len(snapshots)' <= Slots)
  BY <1>1, <1>4, <1>5
<1>. QED
  BY <1>1, <1>3, <1>6 DEF FillInv

\* The window takes the oldest snapshot, and so frees the sender.
LEMMA ReceiveDrains ==
  ASSUME FillInv, snapshots # <<>>, snapshots' = Tail(snapshots), parked' = FALSE,
         UNCHANGED <<daemon, router, main>>
  PROVE  FillInv'
<1>1. /\ snapshots' \in Seq(UiSnapshotType) /\ Len(snapshots') = Len(snapshots) - 1
      /\ Len(snapshots) \in Nat /\ Slots \in Nat
  BY HeadTailProperties, LenProperties, BoundsAreCounts DEF FillInv
<1>2. daemon \notin {"none", "binding"}
  BY DEF FillInv
<1>3. /\ Len(snapshots)' <= Slots + 2
      /\ router \in Active \/ main \in Early => Len(snapshots)' <= Slots
  BY <1>1 DEF FillInv
<1>4. parked' \in BOOLEAN /\ ~parked'
  OBVIOUS
<1>5. UNCHANGED <<daemon, router, main>>
  OBVIOUS
<1>. QED
  BY <1>1, <1>2, <1>3, <1>4, <1>5 DEF FillInv

\* A channel that is left alone, or is gone with its window.
LEMMA FillStays ==
  ASSUME FillInv,
         UNCHANGED <<snapshots, parked>> \/ (snapshots' = <<>> /\ parked' = FALSE),
         daemon' \in {"none", "binding"} => daemon \in {"none", "binding"},
         router' \in Active => router \in Active \/ daemon \in {"none", "binding"},
         main' \in Early => main \in Early
  PROVE  FillInv'
<1>1. /\ Slots \in Nat /\ <<>> \in Seq(UiSnapshotType) /\ Len(<<>>) = 0
      /\ Len(snapshots) \in Nat
  BY BoundsAreCounts, LenProperties, EmptySeq DEF FillInv
<1>2. CASE UNCHANGED <<snapshots, parked>>
  <2>1. (router \in Active \/ main \in Early)' =>
          \/ router \in Active \/ main \in Early
          \/ snapshots = <<>>
    BY DEF FillInv
  <2>. QED
    BY <1>1, <1>2, <2>1 DEF FillInv
<1>3. CASE snapshots' = <<>> /\ parked' = FALSE
  <2>1. parked' \in BOOLEAN /\ ~parked'
    BY <1>3
  <2>2. snapshots' \in Seq(UiSnapshotType) /\ Len(snapshots)' = 0
    BY <1>1, <1>3
  <2>3. snapshots' = <<>>
    BY <1>3
  <2>. QED
    BY <1>1, <2>1, <2>2, <2>3 DEF FillInv
<1>. QED
  BY <1>2, <1>3

\* What the router sends is typed.
LEMMA SentIsTyped ==
  ASSUME DataInv
  PROVE  /\ DefaultUi \in UiSnapshotType /\ Close \in UiSnapshotType
         /\ ToUiSnapshot(state, NamesFor(state)) \in UiSnapshotType
         /\ \A s \in DaemonSnapshot : ToUiSnapshot(s, NamesFor(s)) \in UiSnapshotType
<1>1. DefaultUi \in UiSnapshotType
  BY MaxU64IsPositive, EmptySeq DEF DefaultUi, UiSnapshotType, Visibility, Mode, OptText
<1>2. Close \in UiSnapshotType
  BY <1>1, MaxU64IsPositive DEF Close, UiSnapshotType
<1>3. ASSUME NEW s \in DaemonSnapshot PROVE ToUiSnapshot(s, NamesFor(s)) \in UiSnapshotType
  <2>. DEFINE q == QueryText(s.query)
  <2>1. Found(catalog, q) \in Seq({w \in Words : q = Blank \/ w \in Matches[q]})
    BY FoundAreHits DEF DataInv
  <2>2. Found(catalog, q) \in Seq(Words)
    BY <2>1
  <2>. QED
    BY <2>2, ProjectionType DEF NamesFor
<1>. QED
  BY <1>1, <1>2, <1>3 DEF DataInv

\* Routing a command sends one snapshot, or none.
LEMMA RouteFills ==
  ASSUME FillInv, DataInv, NEW c \in DaemonCommand, Route(c), router \in Active,
         UNCHANGED <<daemon, main>>, router' \in Active, daemon \notin {"none", "binding"}
  PROVE  FillInv'
<1>1. CASE Changes(c) /\ Accepts
  <2>1. ToUiSnapshot(Reduce(state, c), NamesFor(Reduce(state, c))) \in UiSnapshotType
    BY SentIsTyped, ReduceType DEF DataInv
  <2>. QED
    BY <1>1, <2>1, PutFills DEF Route, Accepts
<1>2. CASE ~(Changes(c) /\ Accepts)
  BY <1>2, FillStays DEF Route, Unsent
<1>. QED
  BY <1>1, <1>2

\* The channel fills no further than its buffer and one message of each sender.
LEMMA FillKeeps ==
  ASSUME StageTypes, StageInv, EventsAreKeys, DataInv, FillInv, Next PROVE FillInv'
<1>0. router \in Active => daemon = "serving"
  BY DEF StageTypes, StageInv, RouterFollows, Active, Ended
<1>. USE DEF Ended
<1>1. CASE StartStep
  <2>1. CASE ConfigFails \/ Discover \/ SpawnDaemon \/ AwaitReady
    <3>1. /\ UNCHANGED <<snapshots, parked, router>>
          /\ daemon' \in {"none", "binding"} => daemon \in {"none", "binding"}
      BY <2>1 DEF ConfigFails, Discover, SpawnDaemon, AwaitReady, linkVars, routerVars, taskVars,
         StageInv, DaemonFollows
    <3>2. main' \in Early => main \in Early
      BY <2>1 DEF ConfigFails, Discover, SpawnDaemon, AwaitReady, taskVars, Early
    <3>. QED
      BY <3>1, <3>2, FillStays
  <2>2. CASE Bind
    BY <2>2, FillStays DEF Bind, linkVars
  <2>. QED
    BY <1>1, <2>1, <2>2 DEF StartStep
<1>2. CASE RouterStart \/ RouterHide \/ RouterClose
  <2>1. router \in Active /\ UNCHANGED taskVars
    BY <1>2 DEF RouterStart, RouterHide, RouterClose, Farewell, Active
  <2>2. CASE Accepts
    <3>1. \E m \in UiSnapshotType : Put(m)
      BY <1>2, <2>2, SentIsTyped DEF RouterStart, RouterHide, RouterClose, Farewell
    <3>. QED
      BY <1>0, <2>1, <2>2, <3>1, PutFills DEF Accepts, taskVars
  <2>3. CASE ~Accepts
    BY <1>2, <2>1, <2>3, FillStays DEF RouterStart, RouterHide, RouterClose, Farewell, Unsent, taskVars
  <2>. QED
    BY <2>2, <2>3
<1>3. CASE RouterRequest
  <2>1. router = "running" /\ router' \in {"running", "leaving"} /\ UNCHANGED <<daemon, main>>
    BY <1>3 DEF RouterRequest
  <2>. QED
    BY <1>0, <1>3, <2>1, RouteFills, CommandsAreKnown DEF RouterRequest, Active
<1>4. CASE RouterEvent
  <2>1. router = "running" /\ router' = router /\ UNCHANGED <<daemon, main>>
    BY <1>4 DEF RouterEvent, taskVars
  <2>2. CASE Ignore
    BY <2>1, <2>2, FillStays DEF Ignore, Unsent
  <2>3. ASSUME NEW c \in DaemonCommand, Route(c) PROVE FillInv'
    BY <1>0, <2>1, <2>3, RouteFills DEF Active
  <2>. QED
    BY <1>4, <2>2, <2>3, EventRoutes
<1>5. CASE RouterTick \/ RouterBreak \/ EndChildren
  BY <1>5, FillStays DEF RouterTick, RouterBreak, EndChildren, linkVars, routerVars, taskVars, Active
<1>6. CASE ListenerFails \/ DaemonEnds \/ Signal \/ ChildExits \/ Rest
  BY <1>6, FillStays DEF ListenerFails, DaemonEnds, Signal, ChildExits, Rest, vars, routerVars,
     taskVars, linkVars
<1>7. CASE WindowReceives
  BY <1>7, FillStays, ReceiveDrains DEF WindowReceives, Leave, routerVars, taskVars
<1>8. CASE WindowLeaves \/ WindowReturns \/ \E e \in Keys : Press(e)
  BY <1>8, FillStays DEF WindowLeaves, WindowReturns, Press, Leave, linkVars, routerVars, taskVars
<1>9. CASE DaemonFirst
  <2>1. CASE ReceiverLives
    <3>1. router \notin Active /\ daemon \in Ended
      BY <1>0, <1>9 DEF DaemonFirst
    <3>2. snapshots' = Append(snapshots, Close) /\ main = "selecting" /\ main' = "awaiting_window"
          /\ UNCHANGED <<daemon, router, parked>>
      BY <1>9, <2>1 DEF DaemonFirst, routerVars
    <3>3. Len(snapshots) <= Slots + 1 /\ Len(snapshots) \in Nat /\ Slots \in Nat
      BY <3>2, LenProperties, BoundsAreCounts DEF FillInv, Early
    <3>4. snapshots' \in Seq(UiSnapshotType) /\ Len(snapshots') = Len(snapshots) + 1
      BY <3>2, SentIsTyped, AppendProperties DEF FillInv
    <3>. QED
      BY <3>1, <3>2, <3>3, <3>4 DEF FillInv, Early
  <2>2. CASE ~ReceiverLives
    BY <1>9, <2>2, FillStays DEF DaemonFirst, routerVars, Early
  <2>. QED
    BY <2>1, <2>2
<1>10. CASE EndStep /\ ~DaemonFirst
  <2>1. /\ UNCHANGED <<snapshots, parked>>
        /\ daemon' \in {"none", "binding"} => daemon \in {"none", "binding"}
        /\ router' \in Active => router \in Active
    BY <1>10 DEF EndStep, WindowJoined, WindowFirst, DaemonJoined, DropRuntime,
       ProcessExits, linkVars, routerVars, Active
  <2>2. main' \in Early => main \in Early
    BY <1>10 DEF EndStep, WindowJoined, WindowFirst, DaemonJoined, DropRuntime,
       ProcessExits, Early, StageInv, JoinedInOrder
  <2>. QED
    BY <2>1, <2>2, FillStays
<1>. QED
  BY <1>1, <1>2, <1>3, <1>4, <1>5, <1>6, <1>7, <1>8, <1>9, <1>10 DEF Next, RouterStep, WindowStep

----------------------------------------------------------------------------
(* What the window draws                                                   *)

TypedIn(ev) == {i \in DOMAIN ev : ev[i].kind = "query_changed"}

\* The snapshot sent last is v.
Told(sent, v) == sent # <<>> => sent[Len(sent)] = v

\* The window draws v, or v with what was typed last and is still under way.
Draws(ev, drawn, v) ==
  \/ drawn = v
  \/ \E i \in TypedIn(ev) : /\ \A j \in TypedIn(ev) : j <= i
                            /\ drawn = [v EXCEPT !.query = ev[i].text]

View == ToUiSnapshot(state, NamesFor(state))

\* The last snapshot under way is the router's view; when none is, the window draws
\* that view, but for what was typed and is under way in the other direction.
AgreeInv ==
  router = "running" /\ window \in {"none", "open"} =>
    /\ Told(snapshots, View)
    /\ snapshots = <<>> /\ ~lost => Draws(events, shown, View)

\* A snapshot that was just sent is the last.
LEMMA SentIsTold ==
  ASSUME NEW sent \in Seq(UiSnapshotType), NEW m \in UiSnapshotType
  PROVE  Told(Append(sent, m), m) /\ Append(sent, m) # <<>>
BY AppendProperties, LenProperties DEF Told

\* The window draws the snapshot that it takes, and none is told after it.
LEMMA TakenIsDrawn ==
  ASSUME NEW sent \in Seq(UiSnapshotType), sent # <<>>, NEW v, NEW ev, Told(sent, v)
  PROVE  Told(Tail(sent), v) /\ (Tail(sent) = <<>> => Draws(ev, Head(sent), v))
<1>1. Len(sent) \in Nat /\ Len(sent) # 0 /\ Head(sent) = sent[1] /\ Len(Tail(sent)) = Len(sent) - 1
  BY LenProperties, EmptySeq, HeadTailProperties
<1>2. Tail(sent) # <<>> => Tail(sent)[Len(sent) - 1] = sent[Len(sent)]
  <2>1. Tail(sent) \in Seq(UiSnapshotType)
    BY HeadTailProperties
  <2>2. Tail(sent) # <<>> => Len(sent) - 1 \in 1..(Len(sent) - 1)
    BY <1>1, <2>1, EmptySeq
  <2>3. \A i \in 1..(Len(sent) - 1) : Tail(sent)[i] = sent[i + 1]
    BY HeadTailProperties
  <2>. QED
    BY <1>1, <2>2, <2>3
<1>3. Tail(sent) = <<>> => Len(sent) = 1
  <2>1. Len(<<>>) = 0
    BY EmptySeq
  <2>. QED
    BY <1>1, <2>1
<1>. QED
  BY <1>1, <1>2, <1>3 DEF Told, Draws

\* One key more: what is typed is drawn and is the last that is under way.
LEMMA TypingIsDrawn ==
  ASSUME NEW ev \in Seq(Keys), NEW e \in Keys, NEW drawn, NEW v \in UiSnapshotType,
         Draws(ev, drawn, v)
  PROVE  /\ e.kind = "query_changed" => Draws(Append(ev, e), [drawn EXCEPT !.query = e.text], v)
         /\ e.kind # "query_changed" => Draws(Append(ev, e), drawn, v)
<1>. DEFINE n == Len(ev) + 1
<1>1. /\ DOMAIN Append(ev, e) = DOMAIN ev \cup {n} /\ Append(ev, e)[n] = e
      /\ \A i \in DOMAIN ev : Append(ev, e)[i] = ev[i] /\ i <= n /\ i # n
      /\ n <= n
  BY AppendProperties, LenProperties
<1>2. CASE e.kind = "query_changed"
  <2>1. TypedIn(Append(ev, e)) = TypedIn(ev) \cup {n}
    BY <1>1, <1>2 DEF TypedIn
  <2>2. \A j \in TypedIn(Append(ev, e)) : j <= n
    BY <1>1, <2>1 DEF TypedIn
  <2>3. drawn = v \/ \E x : drawn = [v EXCEPT !.query = x]
    BY DEF Draws
  <2>4. [drawn EXCEPT !.query = e.text] = [v EXCEPT !.query = e.text]
    BY <2>3 DEF UiSnapshotType
  <2>. QED
    BY <1>1, <1>2, <2>1, <2>2, <2>4 DEF Draws
<1>3. CASE e.kind # "query_changed"
  <2>1. TypedIn(Append(ev, e)) = TypedIn(ev)
    BY <1>1, <1>3 DEF TypedIn
  <2>2. \A i \in TypedIn(ev) : Append(ev, e)[i] = ev[i]
    BY <1>1 DEF TypedIn
  <2>. QED
    BY <1>3, <2>1, <2>2 DEF Draws
<1>. QED
  BY <1>2, <1>3

\* One key less, when its query is what the view has anyway.
LEMMA HandledIsDrawn ==
  ASSUME NEW ev \in Seq(Keys), ev # <<>>, NEW drawn, NEW v \in UiSnapshotType,
         Draws(ev, drawn, v),
         Head(ev).kind = "query_changed" => v.query = Head(ev).text
  PROVE  Draws(Tail(ev), drawn, v)
<1>1. /\ \A i \in DOMAIN ev : i \in Nat /\ (i = 1 \/ i - 1 \in DOMAIN Tail(ev))
      /\ \A i \in DOMAIN Tail(ev) : i \in Nat /\ i + 1 \in DOMAIN ev /\ Tail(ev)[i] = ev[i + 1]
      /\ Head(ev) = ev[1]
  BY HeadTailProperties, LenProperties
<1>2. CASE drawn = v
  BY <1>2 DEF Draws
<1>3. ASSUME NEW i \in TypedIn(ev), \A j \in TypedIn(ev) : j <= i,
             drawn = [v EXCEPT !.query = ev[i].text]
      PROVE  Draws(Tail(ev), drawn, v)
  <2>1. CASE i = 1
    <3>1. ev[i].text = v.query
      BY <1>1, <2>1 DEF TypedIn
    <3>2. drawn = v
      BY <1>3, <3>1 DEF UiSnapshotType
    <3>. QED
      BY <3>2 DEF Draws
  <2>2. CASE i # 1
    <3>1. i - 1 \in DOMAIN Tail(ev) /\ Tail(ev)[i - 1] = ev[i] /\ i \in Nat
      BY <1>1, <2>2 DEF TypedIn
    <3>2. i - 1 \in TypedIn(Tail(ev))
      BY <3>1 DEF TypedIn
    <3>3. \A j \in TypedIn(Tail(ev)) : j + 1 \in TypedIn(ev) /\ j \in Nat
      BY <1>1 DEF TypedIn
    <3>4. \A j \in TypedIn(Tail(ev)) : j <= i - 1
      BY <1>3, <3>1, <3>3
    <3>. QED
      BY <1>3, <3>1, <3>2, <3>4 DEF Draws
  <2>. QED
    BY <2>1, <2>2
<1>. QED
  BY <1>2, <1>3 DEF Draws

\* Routing tells the window the new state, or leaves state and channel alone; it does
\* the latter for a command that changes something only while an earlier snapshot is
\* on its way.
LEMMA RouteTells ==
  ASSUME DataInv, FillInv, NEW c \in DaemonCommand, Route(c), catalog' = catalog
  PROVE  \/ Told(snapshots', View') /\ snapshots' # <<>>
         \/ /\ UNCHANGED <<state, snapshots, parked>> /\ View' = View
            /\ window \in {"none", "open"} /\ snapshots = <<>> => ~Changes(c)
<1>1. CASE Changes(c) /\ Accepts
  <2>. DEFINE s == Reduce(state, c)
              m == ToUiSnapshot(s, NamesFor(s))
  <2>1. m \in UiSnapshotType
    BY SentIsTyped, ReduceType DEF DataInv
  <2>2. snapshots' = Append(snapshots, m) /\ state' = s
    BY <1>1 DEF Route, Put
  <2>3. View' = m
    BY <2>2 DEF View, NamesFor
  <2>. HIDE DEF m
  <2>. QED
    BY <1>1, <2>1, <2>2, <2>3, SentIsTold DEF FillInv
<1>2. CASE ~(Changes(c) /\ Accepts)
  <2>1. UNCHANGED <<state, snapshots, parked>> /\ View' = View
    BY <1>2 DEF Route, Unsent, View, NamesFor
  <2>2. window \in {"none", "open"} /\ snapshots = <<>> => Accepts
    BY DEF FillInv, Accepts, ReceiverLives
  <2>. QED
    BY <1>2, <2>1, <2>2
<1>. QED
  BY <1>1, <1>2

\* A query that changes nothing is the state's own.
LEMMA SameQuery ==
  ASSUME state \in DaemonSnapshot, NEW t \in Text, ~Changes([kind |-> "query", text |-> t])
  PROVE  state.query = t
<1>. DEFINE c == [kind |-> "query", text |-> t]
<1>1. Reduce(state, c) = state
  BY DEF Changes, Valid
<1>2. Transition(state, c) = Show(state, t)
  BY DEF Transition
<1>3. Show(state, t).query = t
  BY DEF Show, DaemonSnapshot
<1>4. Show(state, t) \in DaemonSnapshot
  BY DEF Show, DaemonSnapshot, Visibility, Mode, OptText
<1>5. Reduce(state, c).query = t
  BY <1>2, <1>3, <1>4 DEF Reduce, DaemonSnapshot
<1>. QED
  BY <1>1, <1>5

\* The view and the channels are left as they are.
LEMMA AgreeStays ==
  ASSUME AgreeInv, UNCHANGED <<snapshots, events, shown, lost, state, catalog>>,
         router' = "running" => router = "running",
         window' \in {"none", "open"} => window \in {"none", "open"}
  PROVE  AgreeInv'
<1>1. View' = View
  BY DEF View, NamesFor
<1>. QED
  BY <1>1 DEF AgreeInv

\* An event that the router handles.
LEMMA EventAgrees ==
  ASSUME IInv, DataInv, FillInv, AgreeInv, RouterEvent PROVE AgreeInv'
<1>. DEFINE e == Head(events)
<1>1. /\ router = "running" /\ events # <<>> /\ events' = Tail(events) /\ e \in UiEvent
      /\ UNCHANGED <<window, shown, lost, catalog>>
      /\ \/ Ignore /\ e.kind # "query_changed"
         \/ \E c \in EventCommands(state, NamesFor(state), e) : c \in DaemonCommand /\ Route(c)
  BY EventRoutes DEF IInv, windowVars
<1>2. events \in Seq(Keys) /\ View \in UiSnapshotType
  BY SentIsTyped DEF IInv, EventsAreKeys, View
<1>. SUFFICES ASSUME window \in {"none", "open"}
              PROVE  /\ Told(snapshots', View')
                     /\ snapshots' = <<>> /\ ~lost' => Draws(events', shown', View')
  BY <1>1 DEF AgreeInv
<1>3. Told(snapshots, View) /\ (snapshots = <<>> /\ ~lost => Draws(events, shown, View))
  BY <1>1 DEF AgreeInv
<1>4. CASE Ignore /\ e.kind # "query_changed"
  <2>1. UNCHANGED <<snapshots, state, lost>> /\ View' = View
    BY <1>1, <1>4 DEF Ignore, Unsent, View, NamesFor
  <2>2. snapshots = <<>> /\ ~lost => Draws(Tail(events), shown, View)
    BY <1>1, <1>2, <1>3, <1>4, HandledIsDrawn
  <2>. QED
    BY <1>1, <1>3, <2>1, <2>2
<1>5. ASSUME NEW c \in EventCommands(state, NamesFor(state), e), c \in DaemonCommand, Route(c)
      PROVE  /\ Told(snapshots', View')
             /\ snapshots' = <<>> /\ ~lost' => Draws(events', shown', View')
  <2>1. CASE Told(snapshots', View') /\ snapshots' # <<>>
    BY <2>1
  <2>2. CASE /\ UNCHANGED <<state, snapshots, parked>> /\ View' = View
             /\ snapshots = <<>> => ~Changes(c)
    <3>1. ASSUME ~lost, snapshots = <<>> PROVE Draws(Tail(events), shown, View)
      <4>1. ASSUME e.kind = "query_changed" PROVE View.query = e.text
        <5>1. c = [kind |-> "query", text |-> e.text] /\ e.text \in Text
          BY <1>1, <1>5, <4>1 DEF EventCommands, UiEvent
        <5>2. state.query = e.text
          BY <2>2, <3>1, <5>1, SameQuery DEF DataInv
        <5>. QED
          BY <5>2 DEF View, ToUiSnapshot
      <4>. QED
        BY <1>1, <1>2, <1>3, <3>1, <4>1, HandledIsDrawn
    <3>. QED
      BY <1>1, <1>3, <2>2, <3>1
  <2>. QED
    BY <1>1, <1>5, <2>1, <2>2, RouteTells
<1>. QED
  BY <1>1, <1>4, <1>5

\* A key that is pressed.
LEMMA PressAgrees ==
  ASSUME IInv, DataInv, AgreeInv, NEW e \in Keys, Press(e) PROVE AgreeInv'
<1>1. /\ UNCHANGED <<router, window, snapshots, state, catalog>> /\ View' = View
      /\ events' = events \/ events' = Append(events, e)
      /\ IF e.kind = "query_changed"
         THEN /\ shown' = [shown EXCEPT !.query = e.text]
              /\ ~lost' => ~lost /\ (router = "running" => events' = Append(events, e))
         ELSE UNCHANGED <<shown, lost>>
  BY DEF Press, Ended, routerVars, View, NamesFor
<1>2. events \in Seq(Keys) /\ View \in UiSnapshotType
  BY SentIsTyped DEF IInv, EventsAreKeys, View
<1>. SUFFICES ASSUME router = "running", window \in {"none", "open"}
              PROVE  /\ Told(snapshots, View)
                     /\ snapshots = <<>> /\ ~lost' => Draws(events', shown', View)
  BY <1>1 DEF AgreeInv
<1>3. Told(snapshots, View) /\ (snapshots = <<>> /\ ~lost => Draws(events, shown, View))
  BY DEF AgreeInv
<1>. QED
  BY <1>1, <1>2, <1>3, TypingIsDrawn

\* The window and the router's view agree on what is neither way.
LEMMA AgreeKeeps ==
  ASSUME IInv, StageTypes, DataInv, FillInv, AgreeInv, Next PROVE AgreeInv'
<1>0. router = "running" => daemon = "serving"
  BY DEF IInv, StageTypes, StageInv, RouterFollows, Ended
<1>1. CASE StartStep
  <2>1. CASE ConfigFails \/ Discover \/ Bind \/ AwaitReady
    <3>1. /\ UNCHANGED <<snapshots, events, shown, lost, state, catalog>>
          /\ router' = "running" => router = "running"
          /\ window' \in {"none", "open"} => window \in {"none", "open"}
      BY <2>1 DEF ConfigFails, Discover, Bind, AwaitReady, linkVars, routerVars, windowVars, StageTypes
    <3>. QED
      BY <3>1, AgreeStays
  <2>2. CASE SpawnDaemon
    BY <1>0, <2>2 DEF SpawnDaemon, AgreeInv, routerVars, IInv, StageInv, DaemonFollows
  <2>. QED
    BY <1>1, <2>1, <2>2 DEF StartStep
<1>2. CASE RouterStart
  <2>1. CASE Accepts
    <3>1. snapshots' = Append(snapshots, View) /\ UNCHANGED <<state, catalog>>
      BY <1>2, <2>1 DEF RouterStart, Put, View
    <3>2. View' = View /\ View \in UiSnapshotType
      BY <3>1, SentIsTyped DEF View, NamesFor
    <3>. QED
      BY <3>1, <3>2, SentIsTold DEF AgreeInv, FillInv
  <2>2. CASE ~Accepts
    BY <1>2, <2>2 DEF RouterStart, RouterReturns, AgreeInv
  <2>. QED
    BY <2>1, <2>2
<1>3. CASE RouterRequest
  <2>1. PICK c \in Requests : Route(c)
    BY <1>3 DEF RouterRequest
  <2>2. c \in DaemonCommand
    BY CommandsAreKnown
  <2>3. router = "running" /\ UNCHANGED <<window, shown, events, lost, catalog>>
    BY <1>3 DEF RouterRequest, windowVars
  <2>. QED
    BY <2>1, <2>2, <2>3, RouteTells DEF AgreeInv
<1>4. CASE RouterEvent
  BY <1>4, EventAgrees
<1>5. CASE RouterTick
  BY <1>5, AgreeStays DEF RouterTick, routerVars, windowVars, linkVars
<1>6. CASE RouterBreak \/ EndChildren \/ RouterHide \/ RouterClose
  <2>1. router' # "running"
    BY <1>6 DEF RouterBreak, EndChildren, RouterHide, RouterClose, Farewell, RouterReturns
  <2>. QED
    BY <2>1 DEF AgreeInv
<1>7. CASE ListenerFails \/ DaemonEnds \/ Signal \/ ChildExits \/ Rest
  BY <1>7, AgreeStays DEF ListenerFails, DaemonEnds, Signal, ChildExits, Rest, vars, routerVars,
     windowVars, linkVars
<1>8. CASE WindowReceives
  <2>1. window = "open" /\ snapshots # <<>> /\ UNCHANGED <<router, state, events, catalog>>
    BY <1>8 DEF WindowReceives, routerVars
  <2>2. View' = View
    BY <2>1 DEF View, NamesFor
  <2>3. CASE window' = "closed"
    BY <2>3 DEF AgreeInv
  <2>4. CASE shown' = Head(snapshots) /\ snapshots' = Tail(snapshots) /\ window' = window
    BY <2>1, <2>2, <2>4, TakenIsDrawn DEF AgreeInv, FillInv
  <2>. QED
    BY <1>8, <2>3, <2>4 DEF WindowReceives, Leave
<1>9. CASE WindowLeaves \/ WindowReturns
  <2>1. window' \notin {"none", "open"}
    BY <1>9 DEF WindowLeaves, WindowReturns, Leave
  <2>. QED
    BY <2>1 DEF AgreeInv
<1>10. ASSUME NEW e \in Keys, Press(e) PROVE AgreeInv'
  BY <1>10, PressAgrees
<1>11. CASE DaemonFirst
  <2>1. router' # "running"
    BY <1>0, <1>11 DEF DaemonFirst, routerVars, Ended
  <2>. QED
    BY <2>1 DEF AgreeInv
<1>12. CASE DropRuntime
  <2>1. router' # "running"
    BY <1>0, <1>12 DEF DropRuntime
  <2>. QED
    BY <2>1 DEF AgreeInv
<1>13. CASE EndStep /\ ~DaemonFirst /\ ~DropRuntime
  BY <1>13, AgreeStays DEF EndStep, WindowJoined, WindowFirst, DaemonJoined, ProcessExits,
     routerVars, windowVars, linkVars
<1>. QED
  BY <1>1, <1>2, <1>3, <1>4, <1>5, <1>6, <1>7, <1>8, <1>9, <1>10, <1>11, <1>12, <1>13
     DEF Next, RouterStep, WindowStep

----------------------------------------------------------------------------
\* The window adds to the event channel only while there is room.
EventsFit == Len(events) <= EventSlots

\* Nobody else fills it.
LEMMA EventsFitKeep == ASSUME EventsAreKeys, EventsFit, Next PROVE EventsFit'
<1>0. Len(events) \in Nat /\ EventSlots \in Nat /\ Len(<<>>) = 0
  BY LenProperties, EmptySeq, BoundsAreCounts DEF EventsAreKeys
<1>1. \/ events' = events \/ events' = <<>>
      \/ events # <<>> /\ events' = Tail(events)
      \/ Len(events) < EventSlots /\ \E e \in Keys : events' = Append(events, e)
  <2>1. CASE StartStep
    BY <2>1 DEF StartStep, ConfigFails, Discover, SpawnDaemon, Bind, AwaitReady, linkVars
  <2>2. CASE RouterStep
    BY <2>2 DEF RouterStep, RouterStart, RouterRequest, RouterEvent, RouterTick, RouterBreak,
       EndChildren, RouterHide, RouterClose, Farewell, RouterReturns, linkVars
  <2>3. CASE ListenerFails \/ DaemonEnds \/ Signal \/ ChildExits \/ Rest
    BY <2>3 DEF ListenerFails, DaemonEnds, Signal, ChildExits, Rest, vars, linkVars
  <2>4. CASE WindowStep
    BY <2>4 DEF WindowStep, WindowReceives, WindowLeaves, WindowReturns, Press, linkVars
  <2>5. CASE EndStep
    BY <2>5 DEF EndStep, DaemonFirst, WindowJoined, WindowFirst, DaemonJoined, DropRuntime,
       ProcessExits, linkVars
  <2>. QED
    BY <2>1, <2>2, <2>3, <2>4, <2>5 DEF Next
<1>2. events # <<>> => Len(Tail(events)) = Len(events) - 1
  BY HeadTailProperties DEF EventsAreKeys
<1>3. \A e \in Keys : Len(Append(events, e)) = Len(events) + 1
  BY AppendProperties DEF EventsAreKeys
<1>. QED
  BY <1>0, <1>1, <1>2, <1>3 DEF EventsFit

LinkInv == StageTypes /\ DataInv /\ FillInv /\ EventsFit /\ AgreeInv

\* The invariant of the channels, step by step.
LEMMA LinkHolds == Spec => []LinkInv
<1>1. Init => LinkInv
  <2>. SUFFICES ASSUME Init PROVE LinkInv
    OBVIOUS
  <2>1. /\ DefaultSnapshot \in DaemonSnapshot
        /\ Slots \in Nat /\ EventSlots \in Nat /\ Len(<<>>) = 0
        /\ <<>> \in Seq(UiSnapshotType) /\ <<>> \in Seq(Words)
    BY MaxU64IsPositive, BoundsAreCounts, EmptySeq
       DEF DefaultSnapshot, DaemonSnapshot, Visibility, Mode, OptText
  <2>2. StageTypes
    BY DEF Init, StageTypes
  <2>3. DataInv
    BY <2>1, FS_EmptySet DEF Init, Walk!Init, DataInv
  <2>4. FillInv
    <3>1. snapshots = <<>> /\ parked \in BOOLEAN /\ ~parked
      BY DEF Init
    <3>. QED
      BY <2>1, <3>1 DEF FillInv
  <2>5. EventsFit /\ AgreeInv
    BY <2>1 DEF Init, EventsFit, AgreeInv
  <2>. QED
    BY <2>2, <2>3, <2>4, <2>5 DEF LinkInv
<1>2. IInv /\ LinkInv /\ Next => LinkInv'
  BY StageTypesKeep, DataKeeps, FillKeeps, EventsFitKeep, AgreeKeeps DEF LinkInv, IInv
<1>3. LinkInv /\ UNCHANGED vars => LinkInv'
  <2>. SUFFICES ASSUME LinkInv, UNCHANGED vars PROVE LinkInv'
    OBVIOUS
  <2>1. AgreeInv'
    BY AgreeStays DEF LinkInv, vars, linkVars, windowVars, routerVars
  <2>2. StageTypes' /\ DataInv' /\ FillInv' /\ EventsFit'
    BY DEF LinkInv, vars, linkVars, windowVars, routerVars, taskVars, walkVars, StageTypes,
       DataInv, FillInv, EventsFit
  <2>. QED
    BY <2>1, <2>2 DEF LinkInv
<1>. QED
  BY <1>1, <1>2, <1>3, InvariantHolds, PTL DEF Spec

\* The stages, the children, the state and the catalog keep their types, and the
\* channels fill no further than their buffers and a message of each sender.
THEOREM TypeCorrect == Spec => []TypeOK
<1>1. IInv /\ LinkInv => TypeOK
  BY DEF IInv, ChildInv, LinkInv, StageTypes, DataInv, FillInv, EventsFit, TypeOK
<1>. QED
  BY <1>1, InvariantHolds, LinkHolds, PTL

\* The window agrees with the daemon whenever nothing is on its way between them,
\* whatever was typed, asked for and refused, for any catalog, search and buffers.
THEOREM WindowAgreesWithDaemon == Spec => []WindowAgrees
<1>1. LinkInv => WindowAgrees
  <2>. SUFFICES ASSUME LinkInv, router = "running", window = "open", snapshots = <<>>,
                       events = <<>>, ~lost
                PROVE  shown = View
    BY DEF WindowAgrees, View
  <2>1. Draws(events, shown, View)
    BY DEF LinkInv, AgreeInv
  <2>2. TypedIn(events) = {}
    BY DEF TypedIn
  <2>. QED
    BY <2>1, <2>2 DEF Draws
<1>. QED
  BY <1>1, LinkHolds, PTL
=============================================================================
