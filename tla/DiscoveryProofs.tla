-------------------------- MODULE DiscoveryProofs --------------------------
(***************************************************************************)
(* Of every desktop id the first file decides, for all trees of files: the  *)
(* files that were looked at come before the others, so an id that was met  *)
(* was met in a file that comes first.                                      *)
(***************************************************************************)
EXTENDS Discovery, TLAPS

Readable(f) == f.kind # "unreadable"

\* The walk has looked at a first part of the tree.
LookedComeFirst == \A f \in looked : \A g \in tree \ looked : Precedes(f, g)

\* What it met there, and what it made of it.
SeenAreMet      == \A i \in Ids : i \in seen <=> \E f \in looked : Readable(f) /\ f.id = i
GivenAreDecided == applications = {f \in looked : Decides(f) /\ f.kind = "application"}
DiagnosedAreBad ==
  diagnostics = {f \in looked : f.kind = "unreadable" \/ (Decides(f) /\ f.kind = "broken")}

IInv == TypeOK /\ LookedComeFirst /\ SeenAreMet /\ GivenAreDecided /\ DiagnosedAreBad

\* Files have places in an order.
LEMMA TreeIsOfFiles == TypeOK => tree \subseteq File
BY TreesAreFiles DEF TypeOK

\* The order of the walk is strict.
LEMMA PrecedesIsStrict ==
  ASSUME NEW f \in File, NEW g \in File PROVE ~(Precedes(f, g) /\ (f = g \/ Precedes(g, f)))
BY DEF Precedes, File

\* The next file decides about its id exactly when the id was not met before.
LEMMA NextDecides ==
  ASSUME IInv, NEW f \in tree, IsNext(f), Readable(f) PROVE Decides(f) <=> f.id \notin seen
<1>. USE TreeIsOfFiles DEF IInv, TypeOK
<1>1. f \in File /\ f.id \in Ids /\ f \notin looked
  BY DEF File, IsNext
<1>2. ASSUME f.id \in seen PROVE ~Decides(f)
  <2>. PICK g \in looked : Readable(g) /\ g.id = f.id
    BY <1>1, <1>2 DEF SeenAreMet
  <2>. QED
    BY <1>1 DEF Decides, LookedComeFirst, Readable
<1>3. ASSUME ~Decides(f) PROVE f.id \in seen
  <2>. PICK g \in tree : g.id = f.id /\ Readable(g) /\ Precedes(g, f)
    BY <1>3 DEF Decides, Readable
  <2>1. g \in looked
    BY <1>1, PrecedesIsStrict DEF IsNext
  <2>. QED
    BY <1>1, <2>1 DEF SeenAreMet
<1>. QED
  BY <1>2, <1>3

\* One more file.
LEMMA LookKeeps == ASSUME IInv, NEW f \in tree, Look(f) PROVE IInv'
<1>. USE DEF Look
<1>1. f \in File /\ f.id \in Ids /\ f \notin looked /\ IsNext(f) /\ tree' = tree /\ looked' = looked \cup {f}
  BY TreeIsOfFiles DEF IInv, File, IsNext
<1>2. \A g : Decides(g)' <=> Decides(g)
  BY <1>1 DEF Decides, Precedes
<1>3. Readable(f) => (Decides(f) <=> f.id \notin seen)
  BY <1>1, NextDecides
<1>4. TypeOK'
  BY <1>1 DEF IInv, TypeOK
<1>5. LookedComeFirst'
  <2>. SUFFICES ASSUME NEW a \in looked', NEW g \in tree' \ looked' PROVE Precedes(a, g)
    BY DEF LookedComeFirst, Precedes
  <2>. QED
    BY <1>1 DEF IInv, LookedComeFirst, IsNext
<1>6. SeenAreMet'
  BY <1>1 DEF IInv, SeenAreMet, Readable
<1>7. GivenAreDecided'
  BY <1>1, <1>2, <1>3 DEF IInv, GivenAreDecided, Readable
<1>8. DiagnosedAreBad'
  BY <1>1, <1>2, <1>3 DEF IInv, DiagnosedAreBad, Readable
<1>. QED
  BY <1>4, <1>5, <1>6, <1>7, <1>8 DEF IInv

\* The invariant holds throughout every walk.
LEMMA InvariantHolds == Spec => []IInv
<1>1. Init => IInv
  BY DEF Init, IInv, TypeOK, LookedComeFirst, SeenAreMet, GivenAreDecided, DiagnosedAreBad
<1>2. IInv /\ UNCHANGED vars => IInv'
  BY DEF vars, IInv, TypeOK, LookedComeFirst, SeenAreMet, GivenAreDecided, DiagnosedAreBad,
     Decides, Precedes, Readable
<1>3. IInv /\ [Step]_vars => IInv'
  BY <1>2, LookKeeps DEF Step
<1>. QED
  BY <1>1, <1>3, PTL DEF Spec

\* What was looked at is in the tree, and what came of it was looked at.
THEOREM TypeCorrect == Spec => []TypeOK
<1>1. IInv => TypeOK
  BY DEF IInv
<1>. QED
  BY <1>1, InvariantHolds, PTL

\* Of every desktop id the first file in order of precedence decides
\* (discover_with_options).
THEOREM FirstDecides == Spec => []FirstIdWins
<1>1. IInv => FirstIdWins
  BY DEF IInv, FirstIdWins, Finished, GivenAreDecided, DiagnosedAreBad
<1>. QED
  BY <1>1, InvariantHolds, PTL
=============================================================================
