--------------------------- MODULE ChildRegistry ---------------------------
(***************************************************************************)
(* The children that the launcher has spawned: launch, reap_finished and    *)
(* shutdown of ProcessLaunchBackend in crates/applications.  The registry   *)
(* is a Vec that is drained by each call, so the child at which a call      *)
(* fails takes the ones behind it with it.  Children are numbered in the    *)
(* order in which they are spawned, which is their order in the Vec.        *)
(***************************************************************************)
EXTENDS Naturals

CONSTANT MaxChildren   \* bound: children spawned in one behaviour

VARIABLES
  proc,      \* proc[c]: the process of child c, as the kernel has it
  registry,  \* the children in the Vec
  autoReap   \* SIGCHLD was ignored when the daemon was started: the kernel reaps

vars == <<proc, registry, autoReap>>

Child  == 1..MaxChildren
Status == {"none", "running", "zombie", "gone"}
Alive  == {"running", "zombie"}       \* there is something left to wait for

Init ==
  /\ proc = [c \in Child |-> "none"]
  /\ registry = {}
  /\ autoReap \in BOOLEAN

\* What is left of a child that exits.
Remains == IF autoReap THEN "gone" ELSE "zombie"

----------------------------------------------------------------------------
\* Mutant: a finished child is dropped without waiting for it.
ReapedWithoutWait(p, r) ==
  [proc |-> p, registry |-> {c \in r : p[c] = "running"}, ok |-> TRUE]

\* reap_finished on processes p and registry r.  try_wait fails for a child that
\* the kernel does not know any more, and then the whole Vec is lost.
Reaped(p, r) ==
  LET failing == {c \in r : p[c] = "gone"}
      looked  == {c \in r : \A f \in failing : c < f}
  IN  [proc     |-> [c \in Child |-> IF c \in looked /\ p[c] = "zombie" THEN "gone" ELSE p[c]],
       registry |-> IF failing = {} THEN {c \in r : p[c] = "running"} ELSE {},
       ok       |-> failing = {}]

Unspawned(p) == {c \in Child : p[c] = "none" /\ \A b \in Child : p[b] = "none" => c <= b}

\* Child c enters the Vec in status s, and everyone is reaped.
Registered(p, r, c, s) == Reaped([p EXCEPT ![c] = s], r \cup {c})

\* Mutant: the child is spawned and never registered.
SpawnedUnregistered(p, r) ==
  {Reaped([p EXCEPT ![c] = "running"], r) : c \in Unspawned(p)}

\* launch, from `spawn` on; the child may be over before it is registered.  `ok`
\* is the result of the reaping.
Spawned(p, r) ==
  {Registered(p, r, c, s) : c \in Unspawned(p), s \in {"running", Remains}}

\* shutdown: kill and wait for each, up to the first whose wait fails.
ShutDown(p, r) ==
  LET failing == IF autoReap THEN r ELSE {c \in r : p[c] = "gone"}
      reached == {c \in r : \A f \in failing : c <= f}
  IN  [proc |-> [c \in Child |-> IF c \in reached THEN "gone" ELSE p[c]], registry |-> {}]

----------------------------------------------------------------------------
Becomes(o) == proc' = o.proc /\ registry' = o.registry /\ UNCHANGED autoReap

Launch       == \E o \in Spawned(proc, registry) : Becomes(o)
ReapFinished == Becomes(Reaped(proc, registry))
Shutdown     == Becomes(ShutDown(proc, registry))

\* A child exits by itself, registered or not.
Exits(c) ==
  /\ proc[c] = "running"
  /\ proc' = [proc EXCEPT ![c] = Remains]
  /\ UNCHANGED <<registry, autoReap>>

Next == Launch \/ ReapFinished \/ Shutdown \/ \E c \in Child : Exits(c)

Spec == Init /\ [][Next]_vars

----------------------------------------------------------------------------
\* The states of the processes, and who can be registered.
TypeOK ==
  /\ proc \in [Child -> Status]
  /\ registry \subseteq Child
  /\ autoReap \in BOOLEAN

\* Unless waits fail, the registry holds exactly the children that run or are
\* still to be reaped: none is lost, none is waited for twice.
ChildrenAreOwned == ~autoReap => registry = {c \in Child : proc[c] \in Alive}
=============================================================================
