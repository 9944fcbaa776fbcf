------------------------- MODULE DaemonStateProofs -------------------------
(***************************************************************************)
(* Facts about DaemonState::reduce for every state and command, and about   *)
(* what a frontend is shown and may ask for, whatever the search returns.   *)
(***************************************************************************)
EXTENDS UiProjection, SequenceTheorems, TLAPS

\* The arms of `reduce` write fields with values of their types, and leave the
\* generation alone.
LEMMA TransitionType ==
  ASSUME NEW s \in DaemonSnapshot, NEW c \in DaemonCommand
  PROVE  /\ Transition(s, c) \in DaemonSnapshot
         /\ Transition(s, c).generation = s.generation
<1>1. \A q \in OptText :
        Show(s, q) \in DaemonSnapshot /\ Show(s, q).generation = s.generation
  BY DEF Show, DaemonSnapshot, Visibility, Mode
<1>2. Hide(s) \in DaemonSnapshot /\ Hide(s).generation = s.generation
  BY DEF Hide, DaemonSnapshot, Visibility
<1>. QED
  BY <1>1, <1>2 DEF Transition, DaemonCommand, DaemonSnapshot, OptText, Visibility, Mode

\* A command leads from a snapshot to a snapshot.
LEMMA ReduceType ==
  ASSUME NEW s \in DaemonSnapshot, NEW c \in DaemonCommand
  PROVE  Reduce(s, c) \in DaemonSnapshot
<1>1. SaturatingInc(s.generation) \in 0..MaxU64
  BY MaxU64IsPositive DEF SaturatingInc, DaemonSnapshot
<1>2. [Transition(s, c) EXCEPT !.generation = SaturatingInc(s.generation)] \in DaemonSnapshot
  BY TransitionType, <1>1 DEF DaemonSnapshot
<1>. QED
  BY TransitionType, <1>2 DEF Reduce

\* The generation never falls, and below its maximum it stands still exactly
\* when visibility, mode and query do.
LEMMA ReduceGeneration ==
  ASSUME NEW s \in DaemonSnapshot, NEW c \in DaemonCommand
  PROVE  /\ Reduce(s, c).generation >= s.generation
         /\ s.generation < MaxU64 =>
              (Reduce(s, c).generation = s.generation <=> Observable(Reduce(s, c)) = Observable(s))
<1>. DEFINE next == Transition(s, c)
<1>1. CASE Observable(next) = Observable(s)
  BY TransitionType, <1>1 DEF Reduce, DaemonSnapshot
<1>2. CASE Observable(next) # Observable(s)
  <2>1. Reduce(s, c) = [next EXCEPT !.generation = SaturatingInc(s.generation)]
    BY <1>2 DEF Reduce
  <2>2. /\ Reduce(s, c).generation = SaturatingInc(s.generation)
        /\ Observable(Reduce(s, c)) = Observable(next)
    BY TransitionType, <2>1 DEF Observable, DaemonSnapshot
  <2>. QED
    BY <1>2, <2>2, MaxU64IsPositive DEF SaturatingInc, DaemonSnapshot
<1>. QED
  BY <1>1, <1>2

----------------------------------------------------------------------------
(* The projection to a frontend                                            *)

UiSnapshotType ==
  [visibility : Visibility, mode : Mode, query : OptText,
   generation : 0..MaxU64, results : Seq(Words), selected : Nat]

\* The last index of a list, and what the clamp makes of any other.
LEMMA LastIndexType ==
  ASSUME NEW names \in Seq(Words)
  PROVE  /\ LastIndex(names) \in Nat
         /\ names # <<>> => LastIndex(names) + 1 = Len(names) /\ Len(names) \in Nat
         /\ \A i \in Int : Clamp(i, LastIndex(names)) \in 0..LastIndex(names)
<1>1. /\ LastIndex(names) \in Nat
      /\ names # <<>> => LastIndex(names) + 1 = Len(names) /\ Len(names) \in Nat
  BY LenProperties, EmptySeq DEF LastIndex
<1>. QED
  BY <1>1 DEF Clamp

\* A frontend is shown a snapshot of its own type.
LEMMA ProjectionType ==
  ASSUME NEW s \in DaemonSnapshot, NEW names \in Seq(Words)
  PROVE  ToUiSnapshot(s, names) \in UiSnapshotType
<1>1. Clamp(s.selected, LastIndex(names)) \in Nat
  BY LastIndexType DEF Clamp, DaemonSnapshot
<1>. QED
  BY <1>1 DEF ToUiSnapshot, UiSnapshotType, DaemonSnapshot

\* The user's events become commands, and none selects past the list.
LEMMA EventCommandsType ==
  ASSUME NEW s \in DaemonSnapshot, NEW names \in Seq(Words), NEW e \in UiEvent,
         NEW c \in EventCommands(s, names, e)
  PROVE  /\ c \in DaemonCommand
         /\ c.kind \in {"hide", "query", "select"}
         /\ c.kind = "select" => c.index \in 0..LastIndex(names)
<1>. DEFINE Kept(i) == Clamp(i, LastIndex(names))
<1>1. CASE e.kind = "dismiss" \/ e.kind = "submit"
  BY <1>1 DEF EventCommands, DaemonCommand
<1>2. CASE e.kind = "query_changed"
  <2>1. c = [kind |-> "query", text |-> e.text] /\ e.text \in Text
    BY <1>2 DEF EventCommands, UiEvent
  <2>. QED
    BY <2>1 DEF DaemonCommand
<1>3. CASE e.kind = "move"
  <2>1. c = [kind |-> "select", index |-> Kept(AsI32(s.selected) + e.delta)]
    BY <1>3 DEF EventCommands
  <2>2. e.delta \in Int
    BY <1>3 DEF UiEvent
  <2>3. AsI32(s.selected) + e.delta \in Int
    BY <2>2, MaxI32IsNatural DEF AsI32, DaemonSnapshot
  <2>4. Kept(AsI32(s.selected) + e.delta) \in 0..LastIndex(names)
    BY <2>3, LastIndexType
  <2>5. Kept(AsI32(s.selected) + e.delta) \in Nat
    BY <2>4, LastIndexType
  <2>. QED
    BY <2>1, <2>4, <2>5 DEF DaemonCommand
<1>4. CASE e.kind = "complete"
  <2>. DEFINE k == Kept(s.selected)
  <2>1. names # <<>> /\ c = [kind |-> "query", text |-> names[k + 1]]
    BY <1>4 DEF EventCommands
  <2>2. k \in 0..LastIndex(names)
    BY LastIndexType DEF DaemonSnapshot
  <2>. HIDE DEF k
  <2>3. k + 1 \in 1..Len(names)
    BY <2>1, <2>2, LastIndexType
  <2>4. names[k + 1] \in Words
    BY <2>3, ElementOfSeq
  <2>. QED
    BY <2>1, <2>4 DEF DaemonCommand, Text
<1>. QED
  BY <1>1, <1>2, <1>3, <1>4 DEF UiEvent
=============================================================================
