---------------------------- MODULE UiProjection ----------------------------
(***************************************************************************)
(* What a frontend is shown of the daemon's state, and which command each   *)
(* of its events stands for: to_ui_snapshot and handle_ui_event of          *)
(* crates/runtime/src/server.rs over the types of crates/ui-contract.       *)
(* `names` is what the search returns for the state's query.                *)
(***************************************************************************)
EXTENDS DaemonState, Sequences

CONSTANT MaxI32   \* i32::MAX, which a selection is cast to

ASSUME MaxI32IsNatural == MaxI32 \in Nat

\* The events of a frontend.
UiEvent ==
       [kind : {"dismiss", "complete", "submit"}]
  \cup [kind : {"query_changed"}, text : Text] \cup [kind : {"move"}, delta : Int]

QueryText(q) == IF q = NoText THEN Blank ELSE q

\* The last index of a list of names, 0 when it is empty.
LastIndex(names) == IF names = <<>> THEN 0 ELSE Len(names) - 1

\* Mutant: only the lower end is kept.
ClampBelowOnly(i, hi) == IF i < 0 THEN 0 ELSE i
Clamp(i, hi) == IF i < 0 THEN 0 ELSE IF i > hi THEN hi ELSE i

\* Mutant: the selection is shown as it was requested.
UnclampedUiSnapshot(s, names) ==
  [visibility |-> s.visibility, mode |-> s.mode, query |-> s.query,
   generation |-> s.generation, results |-> names, selected |-> s.selected]

\* to_ui_snapshot: the marker is on the last name when the selection lies beyond it.
ToUiSnapshot(s, names) ==
  [visibility |-> s.visibility, mode |-> s.mode, query |-> s.query,
   generation |-> s.generation, results |-> names,
   selected |-> Clamp(s.selected, LastIndex(names))]

\* UiSnapshot::default(): what a frontend shows before it is told anything.
DefaultUi ==
  [visibility |-> "hidden", mode |-> "launcher", query |-> NoText,
   generation |-> 0, results |-> <<>>, selected |-> 0]

\* `selected as i32`, which wraps; the clamp absorbs the saturating addition.
AsI32(n) ==
  LET m == n % (2 * (MaxI32 + 1))
  IN  IF m > MaxI32 THEN m - 2 * (MaxI32 + 1) ELSE m

\* The command that event e stands for, if it stands for one.
EventCommands(s, names, e) ==
  LET Kept(i) == Clamp(i, LastIndex(names))
  IN  CASE e.kind = "dismiss"       -> {[kind |-> "hide"]}
        [] e.kind = "query_changed" -> {[kind |-> "query", text |-> e.text]}
        [] e.kind = "move"          -> {[kind |-> "select", index |-> Kept(AsI32(s.selected) + e.delta)]}
        [] e.kind = "complete"      ->
             IF names = <<>> THEN {} ELSE {[kind |-> "query", text |-> names[Kept(s.selected) + 1]]}
        [] e.kind = "submit"        ->     \* hides when the launch succeeds
             IF names = <<>> THEN {} ELSE {[kind |-> "hide"]}
=============================================================================
