---------------------------- MODULE DaemonState ----------------------------
(***************************************************************************)
(* The pure state machine of the loncher daemon: `DaemonState::reduce` of   *)
(* crates/domain.  A text is a member of Words (something is left after     *)
(* trimming), Blank (only white space, or nothing) or NoText (the `None` of *)
(* an `Option<String>`): the reducer tells no more apart.                   *)
(***************************************************************************)
EXTENDS Integers

CONSTANTS Words,     \* texts that are not blank
          Blank,     \* a text that `trim` leaves empty
          NoText,    \* Option::None
          MaxU64     \* u64::MAX, where the generation counter saturates

ASSUME TextsAreDistinct == Blank \notin Words /\ NoText \notin Words \cup {Blank}
ASSUME MaxU64IsPositive == MaxU64 \in Nat \ {0}

Text    == Words \cup {Blank}
OptText == Text \cup {NoText}

Visibility == {"hidden", "visible"}
Mode       == {"launcher", "terminal", "agent"}

DaemonSnapshot ==
  [visibility : Visibility, mode : Mode, query : OptText,
   generation : 0..MaxU64, selected : Nat]

DefaultSnapshot ==
  [visibility |-> "hidden", mode |-> "launcher", query |-> NoText,
   generation |-> 0, selected |-> 0]

(***************************************************************************)
(* Commands.  `text` is the query, prompt or desktop id of the variant.     *)
(***************************************************************************)
DaemonCommand ==
       [kind : {"show", "toggle", "open_agent"}, text : OptText]
  \cup [kind : {"query", "launch"}, text : Text]
  \cup [kind : {"select"}, index : Nat]
  \cup [kind : {"hide", "status", "shutdown"}]

\* A query may be blank: clearing the search box is legal.
Valid(c) == c.kind \in {"show", "toggle", "open_agent", "launch"} => c.text # Blank

----------------------------------------------------------------------------
Show(s, q) ==
  [s EXCEPT !.visibility = "visible", !.mode = "launcher", !.query = q, !.selected = 0]

Hide(s) == [s EXCEPT !.visibility = "hidden"]

\* The fields an effective command writes; the generation is left to Reduce.
Transition(s, c) ==
  CASE c.kind \in {"show", "query"} -> Show(s, c.text)
    [] c.kind = "hide"              -> Hide(s)
    [] c.kind = "toggle"            -> IF s.visibility = "visible" THEN Hide(s) ELSE Show(s, c.text)
    [] c.kind = "open_agent"        ->
         [s EXCEPT !.visibility = "visible", !.mode = "agent", !.query = c.text]
    [] c.kind = "select"            -> [s EXCEPT !.selected = c.index]
    [] OTHER                        -> s

Observable(s) == <<s.visibility, s.mode, s.query>>

SaturatingInc(n) == IF n = MaxU64 THEN n ELSE n + 1

\* Mutant: visibility is left out of what makes a change observable.
ReduceIgnoresVisibility(s, c) ==
  LET next == Transition(s, c)
  IN  IF next.mode = s.mode /\ next.query = s.query
      THEN next
      ELSE [next EXCEPT !.generation = SaturatingInc(s.generation)]

\* `reduce` of a command that passes Valid.
Reduce(s, c) ==
  LET next == Transition(s, c)
  IN  IF Observable(next) = Observable(s)
      THEN next
      ELSE [next EXCEPT !.generation = SaturatingInc(s.generation)]
=============================================================================
