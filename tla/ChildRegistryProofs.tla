------------------------ MODULE ChildRegistryProofs ------------------------
(***************************************************************************)
(* Unless waits fail, the registry holds exactly the children that are      *)
(* still to be waited for: for any number of children, and whatever order   *)
(* they are launched, exit, are reaped and shut down in.                    *)
(***************************************************************************)
EXTENDS ChildRegistry, TLAPS

IInv == TypeOK /\ ChildrenAreOwned

\* No child has been spawned.
LEMMA InitHolds == Init => IInv
BY DEF Init, IInv, TypeOK, ChildrenAreOwned, Child, Status, Alive

\* Where every registered child can be waited for, no wait fails.
LEMMA ReapingIsExact ==
  ASSUME NEW p \in [Child -> Status], NEW r \in SUBSET Child
  PROVE  /\ Reaped(p, r).proc \in [Child -> Status]
         /\ Reaped(p, r).registry \in SUBSET Child
         /\ r = {c \in Child : p[c] \in Alive}
            => /\ Reaped(p, r).ok
               /\ Reaped(p, r).registry = {c \in Child : Reaped(p, r).proc[c] \in Alive}
<1>. DEFINE failing == {c \in r : p[c] = "gone"}
            looked  == {c \in r : \A f \in failing : c < f}
            after   == [c \in Child |-> IF c \in looked /\ p[c] = "zombie" THEN "gone" ELSE p[c]]
            kept    == IF failing = {} THEN {c \in r : p[c] = "running"} ELSE {}
<1>1. Reaped(p, r) = [proc |-> after, registry |-> kept, ok |-> failing = {}]
  BY DEF Reaped
<1>2. after \in [Child -> Status] /\ kept \in SUBSET Child
  BY DEF Status
<1>3. ASSUME r = {c \in Child : p[c] \in Alive}
      PROVE  failing = {} /\ kept = {c \in Child : after[c] \in Alive}
  <2>1. failing = {} /\ looked = r
    BY <1>3 DEF Alive
  <2>2. kept = {c \in r : p[c] = "running"}
    BY <2>1
  <2>3. \A c \in Child : after[c] \in Alive <=> c \in r /\ p[c] = "running"
    BY <1>3, <2>1 DEF Alive
  <2>. QED
    BY <2>1, <2>2, <2>3
<1>. HIDE DEF after, kept, failing
<1>4. /\ Reaped(p, r).proc = after
      /\ Reaped(p, r).registry = kept
      /\ Reaped(p, r).ok = (failing = {})
  BY <1>1
<1>. QED
  BY <1>2, <1>3, <1>4

\* A launch registers its child before the reaping that may follow its exit.
LEMMA LaunchKeeps == ASSUME IInv, Launch PROVE IInv'
<1>0. PICK o \in Spawned(proc, registry) : Becomes(o)
  BY DEF Launch
<1>1. PICK c \in Unspawned(proc), s \in {"running", Remains} :
        o = Registered(proc, registry, c, s)
  BY DEF Spawned
<1>. DEFINE p == [proc EXCEPT ![c] = s]
            r == registry \cup {c}
<1>2. p \in [Child -> Status] /\ r \in SUBSET Child
  BY DEF IInv, TypeOK, Unspawned, Remains, Status
<1>3. ~autoReap => r = {b \in Child : p[b] \in Alive}
  <2>. SUFFICES ASSUME ~autoReap PROVE r = {b \in Child : p[b] \in Alive}
    OBVIOUS
  <2>1. c \in Child /\ p[c] \in Alive /\ \A b \in Child \ {c} : p[b] = proc[b]
    BY DEF IInv, TypeOK, Unspawned, Remains, Alive
  <2>2. registry = {b \in Child : proc[b] \in Alive}
    BY DEF IInv, ChildrenAreOwned
  <2>. HIDE DEF p
  <2>. QED
    BY <2>1, <2>2
<1>. HIDE DEF p, r
<1>4. Becomes(Reaped(p, r))
  BY <1>0, <1>1 DEF p, r, Registered
<1>. QED
  BY <1>2, <1>3, <1>4, ReapingIsExact DEF IInv, TypeOK, ChildrenAreOwned, Becomes

\* Reaping takes the finished children off the registry, and no others.
LEMMA ReapingKeeps == ASSUME IInv, ReapFinished PROVE IInv'
BY ReapingIsExact DEF IInv, TypeOK, ChildrenAreOwned, ReapFinished, Becomes

\* Shutting down leaves neither children nor entries, when no wait fails.
LEMMA ShutdownKeeps == ASSUME IInv, Shutdown PROVE IInv'
<1>. DEFINE failing == IF autoReap THEN registry ELSE {c \in registry : proc[c] = "gone"}
            reached == {c \in registry : \A f \in failing : c <= f}
<1>1. proc' = [c \in Child |-> IF c \in reached THEN "gone" ELSE proc[c]]
      /\ registry' = {} /\ autoReap' = autoReap
  BY DEF Shutdown, ShutDown, Becomes
<1>2. ASSUME ~autoReap PROVE reached = registry
  BY <1>2 DEF IInv, ChildrenAreOwned, Alive
<1>. HIDE DEF reached
<1>. QED
  BY <1>1, <1>2 DEF IInv, TypeOK, ChildrenAreOwned, Alive, Status

\* A child that exits is still to be waited for.
LEMMA ExitKeeps == ASSUME IInv, NEW c \in Child, Exits(c) PROVE IInv'
BY DEF IInv, TypeOK, ChildrenAreOwned, Exits, Remains, Alive, Status

\* The invariant holds throughout every behaviour.
LEMMA InvariantHolds == Spec => []IInv
<1>1. IInv /\ [Next]_vars => IInv'
  <2>1. IInv /\ UNCHANGED vars => IInv'
    BY DEF vars, IInv, TypeOK, ChildrenAreOwned
  <2>. QED
    BY <2>1, LaunchKeeps, ReapingKeeps, ShutdownKeeps, ExitKeeps DEF Next
<1>. QED
  BY <1>1, InitHolds, PTL DEF Spec

\* Processes and registry stay in their types.
THEOREM TypeCorrect == Spec => []TypeOK
<1>1. IInv => TypeOK
  BY DEF IInv
<1>. QED
  BY <1>1, InvariantHolds, PTL

\* Unless waits fail, no child is lost and none is waited for twice
\* (ProcessLaunchBackend: launch, reap_finished, shutdown).
THEOREM NoChildIsLost == Spec => []ChildrenAreOwned
<1>1. IInv => ChildrenAreOwned
  BY DEF IInv
<1>. QED
  BY <1>1, InvariantHolds, PTL
=============================================================================
