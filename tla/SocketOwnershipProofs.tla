----------------------- MODULE SocketOwnershipProofs -----------------------
(***************************************************************************)
(* Under a service manager, one daemon at most serves, its socket is the    *)
(* one the path names, and no step takes it away: for any number of daemons *)
(* and any number of crashes.  However starts and stops overlap, a socket   *)
(* file is only left over by a crash.                                       *)
(***************************************************************************)
EXTENDS SocketOwnership, TLAPS

\* At most one daemon starts or stops.
OneInTransit ==
  \A d, e \in Daemons :
    pc[d] \in Starting \cup Stopping /\ pc[e] \in Starting \cup Stopping => d = e

\* Past the probe, and until the cleanup is done, nobody serves.
PastProbe == {"remove", "bind", "listen", "chmod", "owner", "unbind", "stopping"}
NobodyServesMeanwhile ==
  \A d, e \in Daemons : pc[d] \in PastProbe => pc[e] # "serving"

\* What the path names, by where the starting daemon is.
PathFollowsStart ==
  \A d \in Daemons :
    /\ pc[d] \in {"probe", "remove"} => path \notin {Absent, Junk}
    /\ pc[d] = "remove" => path \notin listening
    /\ pc[d] = "bind" => path = Absent
    /\ pc[d] \in {"listen", "chmod", "owner", "unbind", "serving", "stopping"} => path = d
    /\ pc[d] = "stopping" => d \notin listening
    /\ pc[d] \in {"chmod", "owner", "serving"} <=> d \in listening

IInv == TypeOK /\ (Managed => OneInTransit /\ NobodyServesMeanwhile /\ PathFollowsStart)

\* The strengthening is enough: who serves owns the path, so two cannot.
LEMMA InvariantSuffices == IInv => (Managed => SingleInstance) /\ ServingIsReachable
BY DEF IInv, PathFollowsStart, SingleInstance, ServingIsReachable

\* No daemon has started.
LEMMA InitHolds == Init => IInv
BY EntriesAreDistinct
DEF Init, IInv, TypeOK, OneInTransit, NobodyServesMeanwhile, PathFollowsStart, PastProbe,
    Starting, Stopping, Over, Dir, NoDir

\* Every step keeps the invariant.
LEMMA StepKeeps == IInv /\ [Next]_vars => IInv'
<1>. SUFFICES ASSUME IInv, [Next]_vars PROVE IInv'
  OBVIOUS
<1>. USE EntriesAreDistinct
     DEF Managed, IInv, TypeOK, OneInTransit, NobodyServesMeanwhile, PathFollowsStart, PastProbe,
         Starting, Stopping, Over, Dir, NoDir, Goto, Fail, Others, DropListener, ParentIsValid
<1>1. ASSUME NEW d \in Daemons, Begin(d), UNCHANGED overlaps PROVE IInv'
  BY <1>1 DEF Begin
<1>2. ASSUME NEW d \in Daemons, InspectParent(d), UNCHANGED overlaps PROVE IInv'
  BY <1>2 DEF InspectParent
<1>3. ASSUME NEW d \in Daemons, MakeParent(d), UNCHANGED overlaps PROVE IInv'
  BY <1>3 DEF MakeParent
<1>4. ASSUME NEW d \in Daemons, Revalidate(d), UNCHANGED overlaps PROVE IInv'
  BY <1>4 DEF Revalidate
<1>5. ASSUME NEW d \in Daemons, Lookup(d), UNCHANGED overlaps PROVE IInv'
  BY <1>5 DEF Lookup
<1>6. ASSUME NEW d \in Daemons, Probe(d), UNCHANGED overlaps PROVE IInv'
  BY <1>6 DEF Probe
<1>7. ASSUME NEW d \in Daemons, RemoveStale(d), UNCHANGED overlaps PROVE IInv'
  BY <1>7 DEF RemoveStale
<1>8. ASSUME NEW d \in Daemons, Bind(d), UNCHANGED overlaps PROVE IInv'
  BY <1>8 DEF Bind
<1>9. ASSUME NEW d \in Daemons, Listen(d), UNCHANGED overlaps PROVE IInv'
  BY <1>9 DEF Listen
<1>10. ASSUME NEW d \in Daemons, Restrict(d), UNCHANGED overlaps PROVE IInv'
  BY <1>10 DEF Restrict
<1>11. ASSUME NEW d \in Daemons, CompareOwners(d), UNCHANGED overlaps PROVE IInv'
  BY <1>11 DEF CompareOwners
<1>12. ASSUME NEW d \in Daemons, Unbind(d), UNCHANGED overlaps PROVE IInv'
  BY <1>12 DEF Unbind
<1>13. ASSUME NEW d \in Daemons, CloseListener(d), UNCHANGED overlaps PROVE IInv'
  BY <1>13 DEF CloseListener
<1>14. ASSUME NEW d \in Daemons, Cleanup(d), UNCHANGED overlaps PROVE IInv'
  BY <1>14 DEF Cleanup
<1>15. ASSUME NEW d \in Daemons, Crash(d), UNCHANGED overlaps PROVE IInv'
  BY <1>15 DEF Crash
<1>16. CASE UNCHANGED vars
  BY <1>16 DEF vars
<1>. QED
  BY <1>1, <1>2, <1>3, <1>4, <1>5, <1>6, <1>7, <1>8, <1>9, <1>10, <1>11, <1>12, <1>13, <1>14,
     <1>15, <1>16 DEF Next, DaemonStep, StartStep, Rest

\* The invariant holds throughout every behaviour.
LEMMA InvariantHolds == Spec => []IInv
BY InitHolds, StepKeeps, PTL DEF Spec

\* Under a service manager a second daemon never comes to serve beside the first
\* (bind_listener).
THEOREM OneDaemonServes == Spec => [](Managed => SingleInstance)
BY InvariantSuffices, InvariantHolds, PTL

\* Under a service manager the daemon that serves is the one clients reach
\* (bind_listener, SocketCleanup).
THEOREM ServiceIsReachable == Spec => []ServingIsReachable
BY InvariantSuffices, InvariantHolds, PTL

\* Under a service manager no step takes a listening socket from the path:
\* recovery removes what the probe found dead, and cleanup removes the daemon's own closed socket.
THEOREM ActiveSocketStays == Spec => ManagedSocketStays
<1>1. ASSUME IInv, [Next]_vars PROVE [Managed => ~StealsPath]_vars
  <2>. SUFFICES ASSUME Managed, path \in listening, path \in listening', path' # path PROVE FALSE
    BY DEF StealsPath
  <2>. PICK d \in Daemons : RemoveStale(d) \/ Bind(d) \/ Unbind(d) \/ Cleanup(d)
    BY <1>1 DEF Next, DaemonStep, StartStep, Rest, vars, Begin, InspectParent, MakeParent, Revalidate,
      Lookup, Probe, Listen, Restrict, CompareOwners, CloseListener, Crash
  <2>. QED
    BY <1>1, EntriesAreDistinct
    DEF IInv, TypeOK, PathFollowsStart, RemoveStale, Bind, Unbind, Cleanup, Fail, Goto
<1>. QED
  BY <1>1, InvariantHolds, PTL DEF Spec, ManagedSocketStays

\* Under a service manager a start is refused as "already running", or fails in its
\* probe, only when a daemon serves, and never because another process moved the path.
THEOREM StartsFailForCause == Spec => StartFailsForCause
<1>. DEFINE Cause(d) ==
       /\ error[d] = "none" /\ error'[d] \in {"already_running", "probe"}
          => \E e \in Daemons \ {d} : pc[e] = "serving"
       /\ error[d] = "none" => error'[d] # "io"
<1>1. ASSUME IInv, [Next]_vars PROVE [Managed => \A d \in Daemons : Cause(d)]_vars
  <2>. SUFFICES ASSUME Managed, NEW d \in Daemons, error[d] = "none" PROVE Cause(d)
    BY DEF Cause
  <2>1. CASE error' = error
    BY <2>1
  <2>2. CASE \E e \in Daemons : InspectParent(e) \/ Revalidate(e) \/ Lookup(e)
    BY <1>1, <2>2 DEF IInv, TypeOK, InspectParent, Revalidate, Lookup, Fail
  <2>3. CASE \E e \in Daemons : Probe(e)
    BY <1>1, <2>3 DEF IInv, TypeOK, PathFollowsStart, OneInTransit, Starting, Probe, Fail
  <2>4. CASE \E e \in Daemons : RemoveStale(e) \/ Bind(e)
    BY <1>1, <2>4 DEF IInv, TypeOK, PathFollowsStart, RemoveStale, Bind, Fail
  <2>5. CASE \E e \in Daemons : Restrict(e) \/ CompareOwners(e) \/ Unbind(e)
    BY <1>1, <2>5, EntriesAreDistinct
    DEF IInv, TypeOK, PathFollowsStart, Restrict, CompareOwners, Unbind, Fail
  <2>. QED
    BY <1>1, <2>1, <2>2, <2>3, <2>4, <2>5
    DEF Next, DaemonStep, StartStep, Rest, vars, Begin, MakeParent, Listen, CloseListener, Cleanup, Crash
<1>. QED
  BY <1>1, InvariantHolds, PTL DEF Spec, StartFailsForCause, Cause

----------------------------------------------------------------------------
(* What holds however starts and stops overlap                             *)

\* A daemon whose file the path names has not come to an end by itself.
FileIsOwned ==
  path \in Daemons => pc[path] \in {"listen", "chmod", "owner", "unbind", "serving", "stopping", "crashed"}

\* Every step keeps the types and the owner of the file.
LEMMA AnyStepKeeps == TypeOK /\ FileIsOwned /\ [Next]_vars => (TypeOK /\ FileIsOwned)'
<1>. SUFFICES ASSUME TypeOK, FileIsOwned, [Next]_vars PROVE (TypeOK /\ FileIsOwned)'
  OBVIOUS
<1>. USE EntriesAreDistinct DEF TypeOK, FileIsOwned, Starting, Stopping, Over, Goto, Fail, DropListener
<1>1. ASSUME NEW d \in Daemons, Begin(d) \/ InspectParent(d) \/ Revalidate(d), UNCHANGED overlaps
      PROVE  (TypeOK /\ FileIsOwned)'
  BY <1>1 DEF Begin, InspectParent, Revalidate
<1>2. ASSUME NEW d \in Daemons, MakeParent(d), UNCHANGED overlaps PROVE (TypeOK /\ FileIsOwned)'
  BY <1>2 DEF MakeParent, Dir
<1>3. ASSUME NEW d \in Daemons, Lookup(d) \/ Probe(d) \/ RemoveStale(d) \/ Bind(d) \/ Listen(d), UNCHANGED overlaps
      PROVE  (TypeOK /\ FileIsOwned)'
  BY <1>3 DEF Lookup, Probe, RemoveStale, Bind, Listen
<1>4. ASSUME NEW d \in Daemons, Restrict(d) \/ CompareOwners(d) \/ Unbind(d), UNCHANGED overlaps
      PROVE  (TypeOK /\ FileIsOwned)'
  BY <1>4 DEF Restrict, CompareOwners, Unbind
<1>5. ASSUME NEW d \in Daemons, CloseListener(d) \/ Cleanup(d) \/ Crash(d), UNCHANGED overlaps
      PROVE  (TypeOK /\ FileIsOwned)'
  BY <1>5 DEF CloseListener, Cleanup, Crash
<1>6. CASE UNCHANGED vars
  BY <1>6 DEF vars
<1>. QED
  BY <1>1, <1>2, <1>3, <1>4, <1>5, <1>6 DEF Next, DaemonStep, StartStep, Rest

\* Types and owners hold of every reachable state.
LEMMA AnyStateKeeps == Spec => [](TypeOK /\ FileIsOwned)
<1>1. Init => TypeOK /\ FileIsOwned
  BY EntriesAreDistinct DEF Init, TypeOK, FileIsOwned, NoDir, Dir
<1>. QED
  BY <1>1, AnyStepKeeps, PTL DEF Spec

\* Program counters, path and directory stay in their types.
THEOREM TypeCorrect == Spec => []TypeOK
BY AnyStateKeeps, PTL

\* Only a crash leaves a socket file that nobody will remove, in any overlap of
\* any number of daemons.
THEOREM CrashesAlone == Spec => []OnlyCrashesLeaveSockets
<1>1. FileIsOwned => OnlyCrashesLeaveSockets
  BY DEF FileIsOwned, OnlyCrashesLeaveSockets
<1>. QED
  BY <1>1, AnyStateKeeps, PTL
=============================================================================
