-------------------------- MODULE SyncEngineProofs --------------------------
(***************************************************************************)
(* What the engine keeps for any pushers, batches, limits and replicas.     *)
(* The log stays gap-free per device and its ids stay unique: the copies    *)
(* that a push works on are as sound as the log they were made from,        *)
(* operation by operation, and what is committed is the log that they       *)
(* describe.  A replica has, per device, the log up to its cursor, because  *)
(* numbers rise along the log and a pull cuts what lies beyond the cursor   *)
(* where it pleases.  And the engine implements SyncLog: what is staged is  *)
(* what is fresh of the operations that the loop has been through.          *)
(***************************************************************************)
EXTENDS SyncEngine, SequenceTheorems, FiniteSetTheorems, WellFoundedInduction, TLAPS

Below == {p \in Nat \X Nat : p[1] < p[2]}

\* Induction over the natural numbers, for a set of them.
LEMMA Induction ==
  ASSUME NEW T, 0 \in T, \A n \in Nat : n \in T => n + 1 \in T PROVE Nat \subseteq T
<1>1. IsWellFoundedOn(Below, Nat)
  <2>1. OpToRel(<, Nat) = Below
    BY DEF OpToRel, Below
  <2>. QED
    BY <2>1, NatLessThanWellFounded
<1>2. SUFFICES ASSUME Nat \ T # {} PROVE FALSE
  OBVIOUS
<1>3. PICK x \in Nat \ T : \A y \in Nat \ T : <<y, x>> \notin Below
  <2>1. IsWellFoundedOn(Below, Nat \ T)
    BY <1>1, IsWellFoundedOnSubset
  <2>. QED
    BY <1>1, <1>2, WFMin
<1>4. x # 0 /\ x - 1 \in Nat /\ <<x - 1, x>> \in Below
  BY <1>3 DEF Below
<1>. QED
  BY <1>3, <1>4

\* Induction over the sequences of a set, for a set of them.
LEMMA SequenceInduction ==
  ASSUME NEW X, NEW T, <<>> \in T, \A s \in Seq(X), e \in X : s \in T => Append(s, e) \in T
  PROVE  Seq(X) \subseteq T
<1>. DEFINE L == {n \in Nat : \A s \in Seq(X) : Len(s) = n => s \in T}
<1>1. 0 \in L
  BY EmptySeq
<1>2. ASSUME NEW n \in Nat, n \in L PROVE n + 1 \in L
  <2>1. ASSUME NEW s \in Seq(X), Len(s) = n + 1 PROVE s \in T
    <3>1. s # <<>>
      BY <2>1, EmptySeq
    <3>2. PICK t \in Seq(X), e \in X : s = Append(t, e)
      BY <3>1, SequenceEmptyOrAppend
    <3>3. Len(t) = n
      BY <2>1, <3>2, AppendProperties, LenProperties
    <3>. QED
      BY <1>2, <3>2, <3>3
  <2>. QED
    BY <2>1
<1>. HIDE DEF L
<1>3. Nat \subseteq L
  BY <1>1, <1>2, Induction
<1>. QED
  BY <1>3, LenProperties DEF L

----------------------------------------------------------------------------
(* What filtering leaves                                                   *)

Keep(kept, e, S) == IF e \in S THEN Append(kept, e) ELSE kept

Keeps(f, s, S, n) == f = [i \in 0..n |-> IF i = 0 THEN <<>> ELSE Keep(f[i - 1], s[i], S)]

\* The filter goes through any sequence, prefix by prefix.
LEMMA FilterEnds == ASSUME NEW s, NEW S, NEW n \in Nat PROVE \E f : Keeps(f, s, S, n)
<1>. DEFINE T == {k \in Nat : \E f : Keeps(f, s, S, k)}
<1>1. 0 \in T
  <2>. DEFINE f == [i \in 0..0 |-> <<>>]
  <2>1. Keeps(f, s, S, 0)
    BY DEF Keeps
  <2>. QED
    BY <2>1
<1>2. ASSUME NEW k \in Nat, k \in T PROVE k + 1 \in T
  <2>1. PICK f : Keeps(f, s, S, k)
    BY <1>2
  <2>. DEFINE g == [i \in 0..(k + 1) |-> IF i = k + 1 THEN Keep(f[k], s[k + 1], S) ELSE f[i]]
  <2>2. \A i \in 0..k : f[i] = IF i = 0 THEN <<>> ELSE Keep(f[i - 1], s[i], S)
    BY <2>1 DEF Keeps
  <2>3. \A i \in 0..(k + 1) : g[i] = IF i = 0 THEN <<>> ELSE Keep(g[i - 1], s[i], S)
    BY <2>2
  <2>4. Keeps(g, s, S, k + 1)
    BY <2>3 DEF Keeps
  <2>. QED
    BY <2>4
<1>. HIDE DEF T
<1>3. Nat \subseteq T
  BY <1>1, <1>2, Induction
<1>. QED
  BY <1>3 DEF T

\* Two filters agree on the prefixes that their sequences share.
LEMMA FiltersAgree ==
  ASSUME NEW s, NEW t, NEW S, NEW m \in Nat, NEW n \in Nat, NEW f, NEW g,
         Keeps(f, s, S, m), Keeps(g, t, S, n), m <= n, \A i \in 1..m : s[i] = t[i]
  PROVE  f[m] = g[m]
<1>. DEFINE T == {k \in Nat : k <= m => f[k] = g[k]}
<1>1. 0 \in T
  BY DEF Keeps
<1>2. ASSUME NEW k \in Nat, k \in T PROVE k + 1 \in T
  <2>. SUFFICES ASSUME k + 1 <= m PROVE f[k + 1] = g[k + 1]
    OBVIOUS
  <2>1. f[k] = g[k] /\ s[k + 1] = t[k + 1]
    BY <1>2
  <2>2. f[k + 1] = Keep(f[k], s[k + 1], S)
    BY DEF Keeps
  <2>3. g[k + 1] = Keep(g[k], t[k + 1], S)
    BY DEF Keeps
  <2>. QED
    BY <2>1, <2>2, <2>3
<1>. HIDE DEF T
<1>3. Nat \subseteq T
  BY <1>1, <1>2, Induction
<1>. QED
  BY <1>3 DEF T

\* A filter is its own last value.
LEMMA AmongIsLast ==
  ASSUME NEW s, NEW S, Len(s) \in Nat
  PROVE  \E f : Keeps(f, s, S, Len(s)) /\ Among(s, S) = f[Len(s)]
<1>1. \E f : Keeps(f, s, S, Len(s))
  BY FilterEnds
<1>2. Among(s, S) = (CHOOSE f : Keeps(f, s, S, Len(s)))[Len(s)]
  BY DEF Among, Keeps, Keep
<1>. QED
  BY <1>1, <1>2

\* Filtering item by item, from the front.
LEMMA AmongEmpty == ASSUME NEW S PROVE Among(<<>>, S) = <<>>
<1>1. Len(<<>>) = 0
  BY EmptySeq
<1>2. PICK f : Keeps(f, <<>>, S, 0) /\ Among(<<>>, S) = f[0]
  BY <1>1, AmongIsLast
<1>. QED
  BY <1>2 DEF Keeps

\* One item more is kept or left out.
LEMMA AmongAppend ==
  ASSUME NEW X, NEW s \in Seq(X), NEW e \in X, NEW S
  PROVE  Among(Append(s, e), S) = IF e \in S THEN Append(Among(s, S), e) ELSE Among(s, S)
<1>1. PICK n \in Nat : n = Len(s)
  BY LenProperties
<1>2. PICK t : t = Append(s, e)
  OBVIOUS
<1>3. /\ Len(t) = n + 1 /\ t[n + 1] = e /\ \A i \in 1..n : s[i] = t[i]
  BY <1>1, <1>2, AppendProperties
<1>4. PICK f : Keeps(f, s, S, n) /\ Among(s, S) = f[n]
  BY <1>1, AmongIsLast
<1>5. PICK g : Keeps(g, t, S, n + 1) /\ Among(t, S) = g[n + 1]
  BY <1>3, AmongIsLast
<1>6. f[n] = g[n]
  BY <1>3, <1>4, <1>5, FiltersAgree
<1>7. g[n + 1] = Keep(g[n], e, S)
  BY <1>3, <1>5 DEF Keeps
<1>. QED
  BY <1>2, <1>4, <1>5, <1>6, <1>7 DEF Keep

\* The range of a sequence that grows.
LEMMA RangeAppend ==
  ASSUME NEW X, NEW s \in Seq(X), NEW e \in X
  PROVE  Range(Append(s, e)) = Range(s) \cup {e}
<1>1. PICK t : t = Append(s, e)
  OBVIOUS
<1>2. PICK n \in Nat : n = Len(s)
  BY LenProperties
<1>3. t \in Seq(X) /\ Len(t) = n + 1 /\ t[n + 1] = e /\ \A i \in 1..n : t[i] = s[i]
  BY <1>1, <1>2, AppendProperties
<1>4. Range(t) = {t[i] : i \in 1..(n + 1)}
  BY <1>3, RangeEquality
<1>5. Range(s) = {s[i] : i \in 1..n}
  BY <1>2, RangeEquality
<1>6. Range(t) = Range(s) \cup {e}
  BY <1>3, <1>4, <1>5
<1>. QED
  BY <1>1, <1>6

\* The empty sequence has no range.
LEMMA RangeEmpty == Range(<<>>) = {}
<1>1. <<>> \in Seq({}) /\ Len(<<>>) = 0
  BY EmptySeq
<1>2. Range(<<>>) = {<<>>[i] : i \in 1..Len(<<>>)}
  BY <1>1, RangeEquality
<1>. QED
  BY <1>1, <1>2

\* Appending to a concatenation appends to its second part.
LEMMA AppendToConcat ==
  ASSUME NEW X, NEW s \in Seq(X), NEW t \in Seq(X), NEW e \in X
  PROVE  /\ s \o t \in Seq(X) /\ Append(t, e) \in Seq(X)
         /\ s \o Append(t, e) = Append(s \o t, e)
BY ConcatProperties, AppendProperties

\* What is left is what is in both.
LEMMA AmongType ==
  ASSUME NEW X, NEW S
  PROVE  \A s \in Seq(X) : Among(s, S) \in Seq(X) /\ Range(Among(s, S)) = Range(s) \cap S
<1>. DEFINE T == {s \in Seq(X) : Among(s, S) \in Seq(X) /\ Range(Among(s, S)) = Range(s) \cap S}
<1>1. <<>> \in T
  BY AmongEmpty, RangeEmpty, EmptySeq
<1>2. ASSUME NEW s \in Seq(X), NEW e \in X, s \in T PROVE Append(s, e) \in T
  <2>1. /\ Append(s, e) \in Seq(X) /\ Range(Append(s, e)) = Range(s) \cup {e}
        /\ Among(s, S) \in Seq(X) /\ Range(Among(s, S)) = Range(s) \cap S
    BY <1>2, RangeAppend, AppendProperties
  <2>2. Among(Append(s, e), S) = IF e \in S THEN Append(Among(s, S), e) ELSE Among(s, S)
    BY AmongAppend
  <2>3. Append(Among(s, S), e) \in Seq(X)
        /\ Range(Append(Among(s, S), e)) = Range(Among(s, S)) \cup {e}
    BY <2>1, RangeAppend, AppendProperties
  <2>. QED
    BY <2>1, <2>2, <2>3
<1>. HIDE DEF T
<1>3. Seq(X) \subseteq T
  BY <1>1, <1>2, SequenceInduction
<1>. QED
  BY <1>3 DEF T

\* A filter of a concatenation filters its parts.
LEMMA AmongConcat ==
  ASSUME NEW X, NEW s \in Seq(X), NEW S
  PROVE  \A t \in Seq(X) : Among(s \o t, S) = Among(s, S) \o Among(t, S)
<1>. DEFINE T == {t \in Seq(X) : Among(s \o t, S) = Among(s, S) \o Among(t, S)}
<1>0. Among(s, S) \in Seq(X)
  BY AmongType
<1>1. <<>> \in T
  BY <1>0, AmongEmpty, ConcatEmptySeq, EmptySeq
<1>2. ASSUME NEW t \in Seq(X), NEW e \in X, t \in T PROVE Append(t, e) \in T
  <2>1. s \o t \in Seq(X) /\ s \o Append(t, e) = Append(s \o t, e) /\ Append(t, e) \in Seq(X)
    BY AppendToConcat
  <2>2. Among(t, S) \in Seq(X)
    BY AmongType
  <2>3. Among(s \o Append(t, e), S)
         = IF e \in S THEN Append(Among(s \o t, S), e) ELSE Among(s \o t, S)
    BY <2>1, AmongAppend
  <2>4. Among(Append(t, e), S) = IF e \in S THEN Append(Among(t, S), e) ELSE Among(t, S)
    BY AmongAppend
  <2>5. Among(s, S) \o Append(Among(t, S), e) = Append(Among(s, S) \o Among(t, S), e)
    BY <1>0, <2>2
  <2>. QED
    BY <1>2, <2>1, <2>3, <2>4, <2>5
<1>. HIDE DEF T
<1>3. Seq(X) \subseteq T
  BY <1>1, <1>2, SequenceInduction
<1>. QED
  BY <1>3 DEF T

\* To filter twice is to filter by both.
LEMMA AmongTwice ==
  ASSUME NEW X, NEW S, NEW U
  PROVE  \A s \in Seq(X) : Among(Among(s, S), U) = Among(s, S \cap U)
<1>0. PICK V : V = S \cap U
  OBVIOUS
<1>. DEFINE T == {s \in Seq(X) : Among(Among(s, S), U) = Among(s, V)}
<1>1. <<>> \in T
  BY AmongEmpty, EmptySeq
<1>2. ASSUME NEW s \in Seq(X), NEW e \in X, s \in T PROVE Append(s, e) \in T
  <2>1. Among(s, S) \in Seq(X) /\ Append(s, e) \in Seq(X)
    BY AmongType, AppendProperties
  <2>2. Among(Append(s, e), S) = IF e \in S THEN Append(Among(s, S), e) ELSE Among(s, S)
    BY AmongAppend
  <2>3. Among(Append(Among(s, S), e), U)
         = IF e \in U THEN Append(Among(Among(s, S), U), e) ELSE Among(Among(s, S), U)
    BY <2>1, AmongAppend
  <2>4. Among(Append(s, e), V) = IF e \in V THEN Append(Among(s, V), e) ELSE Among(s, V)
    BY AmongAppend
  <2>5. e \in V <=> e \in S /\ e \in U
    BY <1>0
  <2>. QED
    BY <1>2, <2>1, <2>2, <2>3, <2>4, <2>5
<1>. HIDE DEF T
<1>3. Seq(X) \subseteq T
  BY <1>1, <1>2, SequenceInduction
<1>. QED
  BY <1>0, <1>3 DEF T

\* Only what the sequence has decides.
LEMMA AmongAgree ==
  ASSUME NEW X, NEW S, NEW U
  PROVE  \A s \in Seq(X) : Range(s) \cap S = Range(s) \cap U => Among(s, S) = Among(s, U)
<1>. DEFINE T == {s \in Seq(X) : Range(s) \cap S = Range(s) \cap U => Among(s, S) = Among(s, U)}
<1>1. <<>> \in T
  BY AmongEmpty, EmptySeq
<1>2. ASSUME NEW s \in Seq(X), NEW e \in X, s \in T PROVE Append(s, e) \in T
  <2>1. Append(s, e) \in Seq(X) /\ Range(Append(s, e)) = Range(s) \cup {e}
    BY RangeAppend, AppendProperties
  <2>2. Among(Append(s, e), S) = IF e \in S THEN Append(Among(s, S), e) ELSE Among(s, S)
    BY AmongAppend
  <2>3. Among(Append(s, e), U) = IF e \in U THEN Append(Among(s, U), e) ELSE Among(s, U)
    BY AmongAppend
  <2>. SUFFICES ASSUME Range(Append(s, e)) \cap S = Range(Append(s, e)) \cap U
                PROVE  Among(Append(s, e), S) = Among(Append(s, e), U)
    BY <2>1
  <2>4. e \in S <=> e \in U
    BY <2>1
  <2>5. Range(s) \cap S = Range(s) \cap U
    BY <2>1
  <2>. QED
    BY <1>2, <2>2, <2>3, <2>4, <2>5
<1>. HIDE DEF T
<1>3. Seq(X) \subseteq T
  BY <1>1, <1>2, SequenceInduction
<1>. QED
  BY <1>3 DEF T

\* A filter that nothing passes.
LEMMA AmongNone ==
  ASSUME NEW X, NEW s \in Seq(X), NEW S, Range(s) \cap S = {} PROVE Among(s, S) = <<>>
<1>1. PICK t \in Seq(X) : t = Among(s, S) /\ Range(t) = {}
  BY AmongType
<1>2. Range(t) = {t[i] : i \in 1..Len(t)}
  BY RangeEquality
<1>3. ASSUME Len(t) # 0 PROVE FALSE
  <2>1. Len(t) \in Nat /\ 1 \in 1..Len(t)
    BY <1>3, LenProperties
  <2>2. t[1] \in Range(t)
    BY <1>2, <2>1
  <2>. QED
    BY <1>1, <2>2
<1>. QED
  BY <1>1, <1>3, EmptySeq

Splits(X, S, s, n) ==
  \E a, z \in Seq(X) : s = a \o z /\ SubSeq(Among(s, S), 1, n) = Among(a, S)

\* The first items that are left come from the front.
LEMMA AmongFirst ==
  ASSUME NEW X, NEW S
  PROVE  \A s \in Seq(X) : \A n \in 0..Len(Among(s, S)) : Splits(X, S, s, n)
<1>. DEFINE T == {s \in Seq(X) : \A n \in 0..Len(Among(s, S)) : Splits(X, S, s, n)}
<1>0. ASSUME NEW s \in Seq(X) PROVE Splits(X, S, s, Len(Among(s, S)))
  <2>1. s = s \o <<>> /\ <<>> \in Seq(X)
    BY ConcatEmptySeq, EmptySeq
  <2>2. SubSeq(Among(s, S), 1, Len(Among(s, S))) = Among(s, S)
    BY AmongType, SubSeqFull
  <2>. QED
    BY <2>1, <2>2 DEF Splits
<1>1. <<>> \in T
  <2>1. Len(Among(<<>>, S)) = 0 /\ <<>> \in Seq(X)
    BY AmongEmpty, EmptySeq
  <2>2. Splits(X, S, <<>>, 0)
    BY <1>0, <2>1
  <2>. QED
    BY <2>1, <2>2
<1>2. ASSUME NEW s \in Seq(X), NEW e \in X, s \in T PROVE Append(s, e) \in T
  <2>1. /\ Append(s, e) \in Seq(X) /\ Among(s, S) \in Seq(X) /\ Among(Append(s, e), S) \in Seq(X)
    BY AmongType, AppendProperties
  <2>2. Among(Append(s, e), S) = IF e \in S THEN Append(Among(s, S), e) ELSE Among(s, S)
    BY AmongAppend
  <2>3. \A n \in 0..Len(Among(s, S)) : Splits(X, S, s, n)
    BY <1>2
  <2>4. ASSUME NEW n \in 0..Len(Among(Append(s, e), S)) PROVE Splits(X, S, Append(s, e), n)
    <3>1. CASE n = Len(Among(Append(s, e), S))
      <4>. QED
        BY <1>0, <2>1, <3>1
    <3>2. CASE n # Len(Among(Append(s, e), S))
      <4>1. n \in 0..Len(Among(s, S))
        BY <2>1, <2>2, <3>2, LenProperties, AppendProperties
      <4>2. PICK a \in Seq(X), z \in Seq(X) : s = a \o z /\ SubSeq(Among(s, S), 1, n) = Among(a, S)
        BY <2>3, <4>1 DEF Splits
      <4>3. a \o Append(z, e) = Append(a \o z, e) /\ Append(z, e) \in Seq(X)
        BY AppendToConcat
      <4>4. SubSeq(Among(Append(s, e), S), 1, n) = SubSeq(Among(s, S), 1, n)
        BY <2>1, <2>2, <4>1
      <4>. QED
        BY <4>2, <4>3, <4>4 DEF Splits
    <3>. QED
      BY <3>1, <3>2
  <2>. QED
    BY <2>1, <2>4
<1>. HIDE DEF T
<1>3. Seq(X) \subseteq T
  BY <1>1, <1>2, SequenceInduction
<1>. QED
  BY <1>3 DEF T

----------------------------------------------------------------------------
(* The log, its index and what is staged                                   *)

ValidOperation == {op \in SyncOperation : Valid(op)}
Index          == [Ids -> SyncOperation \cup {NoOperation}]
Numbers        == [Devices -> 0..MaxU64]

\* The index knows the operations of the log, and no id is there twice.
Indexed(log, ids) ==
  /\ \A i, j \in DOMAIN log : log[i].id = log[j].id => i = j
  /\ \A i \in DOMAIN log : ids[log[i].id] = log[i]
  /\ \A x \in Ids : ids[x] # NoOperation =>
       \E i \in DOMAIN log : log[i] = ids[x] /\ log[i].id = x

\* The highest number of a device is that of an operation, and none is higher.
Numbered(log, high) ==
  /\ \A i \in DOMAIN log : log[i].seq <= high[log[i].device]
  /\ \A d \in Devices : high[d] # 0 => \E i \in DOMAIN log : log[i].device = d /\ log[i].seq = high[d]

Sound(log, ids, high) ==
  /\ log \in Seq(ValidOperation) /\ ids \in Index /\ high \in Numbers
  /\ GapFreeLog(log) /\ Indexed(log, ids) /\ Numbered(log, high)

LockIsHeld == \A p \in Pushers : call[p] = "staging" <=> writer = p

BatchesAreValid ==
  \A p \in Pushers : call[p] \in {"locking", "staging"} => batch[p] \in Seq(ValidOperation)

StagedIsSound ==
  writer # Nobody => Sound(operations \o staged.accepted, staged.byId, staged.highest)

IInv ==
  /\ TypeOK /\ LockIsHeld /\ BatchesAreValid
  /\ staged.accepted \in Seq(ValidOperation)
  /\ Sound(operations, byId, highest)
  /\ StagedIsSound

----------------------------------------------------------------------------
\* One accepted operation more leaves log, index and numbers sound, at the
\* largest number too.
LEMMA ExtensionIsSound ==
  ASSUME NEW log, NEW ids, NEW high, Sound(log, ids, high),
         NEW op \in ValidOperation,
         ids[op.id] = NoOperation, op.seq = SaturatingInc(high[op.device])
  PROVE  Sound(Append(log, op), [ids EXCEPT ![op.id] = op], [high EXCEPT ![op.device] = op.seq])
<1>. DEFINE n  == Len(log)
            l  == Append(log, op)
            i2 == [ids EXCEPT ![op.id] = op]
            h2 == [high EXCEPT ![op.device] = op.seq]
<1>1. /\ op \in SyncOperation /\ op.id \in Ids /\ op.device \in Devices
      /\ op.seq \in 1..MaxU64 /\ MaxU64 \in Nat \ {0}
  BY BoundsArePositive DEF ValidOperation, SyncOperation, Valid
<1>2. /\ log \in Seq(ValidOperation) /\ n \in Nat /\ DOMAIN log = 1..n
      /\ ids \in Index /\ high \in Numbers
  BY DEF Sound
<1>3. /\ l \in Seq(ValidOperation) /\ Len(l) = n + 1 /\ DOMAIN l = 1..(n + 1)
      /\ l[n + 1] = op /\ \A i \in 1..n : l[i] = log[i]
  BY <1>2
<1>4. \A i \in 1..n : /\ log[i] \in SyncOperation /\ log[i].id \in Ids /\ log[i].device \in Devices
                      /\ log[i].seq \in 1..MaxU64
  BY <1>2, <1>1 DEF ValidOperation, SyncOperation, Valid
<1>5. i2 \in Index /\ h2 \in Numbers
  BY <1>1, <1>2 DEF Index, Numbers
<1>6. high[op.device] \in 0..MaxU64
  BY <1>1, <1>2 DEF Numbers
<1>. HIDE DEF l
<1>7. GapFreeLog(l)
  <2>1. ASSUME NEW i \in DOMAIN l, l[i].seq > 1
        PROVE  \E j \in 1..(i - 1) : l[j].device = l[i].device /\ l[j].seq = l[i].seq - 1
    <3>1. CASE i \in 1..n
      <4>. PICK j \in 1..(i - 1) : log[j].device = log[i].device /\ log[j].seq = log[i].seq - 1
        BY <1>2, <1>3, <2>1, <3>1 DEF Sound, GapFreeLog
      <4>. QED
        BY <1>2, <1>3, <3>1
    <3>2. CASE i = n + 1
      <4>1. high[op.device] # 0
        BY <1>1, <1>3, <1>6, <2>1, <3>2 DEF SaturatingInc
      <4>. PICK k \in 1..n : log[k].device = op.device /\ log[k].seq = high[op.device]
        BY <1>1, <1>2, <4>1 DEF Sound, Numbered
      <4>2. CASE high[op.device] # MaxU64
        BY <1>1, <1>2, <1>3, <1>6, <3>2, <4>2 DEF SaturatingInc
      <4>3. CASE high[op.device] = MaxU64
        <5>. PICK j \in 1..(k - 1) : log[j].device = log[k].device /\ log[j].seq = log[k].seq - 1
          BY <1>1, <1>2, <1>3, <2>1, <3>2, <4>3 DEF Sound, GapFreeLog, SaturatingInc
        <5>. QED
          BY <1>1, <1>2, <1>3, <3>2, <4>3 DEF SaturatingInc
      <4>. QED
        BY <4>2, <4>3
    <3>. QED
      BY <1>2, <1>3, <3>1, <3>2
  <2>2. ASSUME NEW i \in DOMAIN l, NEW j \in DOMAIN l, i < j, l[i].device = l[j].device
        PROVE  l[i].seq < l[j].seq \/ l[i].seq = MaxU64
    <3>1. CASE j \in 1..n
      BY <1>2, <1>3, <2>2, <3>1 DEF Sound, GapFreeLog
    <3>2. CASE j = n + 1
      <4>1. i \in 1..n /\ log[i].seq <= high[op.device]
        BY <1>2, <1>3, <2>2, <3>2 DEF Sound, Numbered
      <4>. QED
        BY <1>1, <1>3, <1>4, <1>6, <3>2, <4>1 DEF SaturatingInc
    <3>. QED
      BY <1>2, <1>3, <3>1, <3>2
  <2>. QED
    BY <2>1, <2>2 DEF GapFreeLog
<1>8. Indexed(l, i2)
  <2>1. \A i \in 1..n : log[i].id # op.id /\ i2[log[i].id] = log[i]
    BY <1>1, <1>2, <1>4, NoOperationIsNone DEF Sound, Indexed, Index
  <2>2. i2[op.id] = op
    BY <1>1, <1>2 DEF Index
  <2>3. \A i, j \in DOMAIN l : l[i].id = l[j].id => i = j
    BY <1>2, <1>3, <2>1 DEF Sound, Indexed
  <2>4. ASSUME NEW x \in Ids, i2[x] # NoOperation PROVE \E i \in DOMAIN l : l[i] = i2[x] /\ l[i].id = x
    <3>1. CASE x = op.id
      BY <1>2, <1>3, <2>2, <3>1
    <3>2. CASE x # op.id
      <4>. PICK i \in 1..n : log[i] = ids[x] /\ log[i].id = x
        BY <1>2, <2>4, <3>2 DEF Sound, Indexed, Index
      <4>. QED
        BY <1>2, <1>3, <3>2 DEF Index
    <3>. QED
      BY <3>1, <3>2
  <2>. QED
    BY <1>2, <1>3, <2>1, <2>2, <2>3, <2>4 DEF Indexed
<1>9. Numbered(l, h2)
  <2>1. h2[op.device] = op.seq /\ high[op.device] <= op.seq
        /\ \A d \in Devices \ {op.device} : h2[d] = high[d]
    BY <1>1, <1>2, <1>6 DEF Numbers, SaturatingInc
  <2>. HIDE DEF h2
  <2>2. \A i \in DOMAIN l : l[i].seq <= h2[l[i].device]
    BY <1>1, <1>2, <1>3, <1>4, <1>6, <2>1 DEF Sound, Numbered
  <2>3. ASSUME NEW d \in Devices, h2[d] # 0
        PROVE  \E i \in DOMAIN l : l[i].device = d /\ l[i].seq = h2[d]
    BY <1>1, <1>2, <1>3, <2>1, <2>3 DEF Sound, Numbered
  <2>. QED
    BY <2>2, <2>3 DEF Numbered
<1>. QED
  BY <1>3, <1>5, <1>7, <1>8, <1>9 DEF Sound, l

----------------------------------------------------------------------------
\* The engine starts empty.
LEMMA InitHolds == Init => IInv
<1>. SUFFICES ASSUME Init PROVE IInv
  OBVIOUS
<1>. USE DEF Init
<1>1. TypeOK
  BY BoundsArePositive DEF TypeOK, NothingStaged, Nobody
<1>2. Sound(operations, byId, highest)
  BY BoundsArePositive DEF Sound, Index, Numbers, GapFreeLog, Indexed, Numbered
<1>. QED
  BY <1>1, <1>2, NobodyPushes
  DEF IInv, LockIsHeld, BatchesAreValid, StagedIsSound, NothingStaged, Nobody

\* What a push has not committed is its own.
LEMMA StagingKeeps ==
  ASSUME IInv, NEW p \in Pushers, StageDuplicate(p) \/ StageAccept(p) PROVE IInv'
<1>1. writer = p /\ writer # Nobody /\ call[p] = "staging"
  BY NobodyPushes DEF IInv, LockIsHeld, Nobody, StageDuplicate, StageAccept, Staging
<1>2. /\ staged.next \in Nat \ {0} /\ staged.duplicates \in Nat /\ staged.next <= Len(batch[p])
      /\ staged.accepted \in Seq(ValidOperation) /\ staged.accepted \in Seq(SyncOperation)
      /\ staged.byId \in Index /\ staged.highest \in Numbers
      /\ staged = [byId |-> staged.byId, highest |-> staged.highest, accepted |-> staged.accepted,
                   duplicates |-> staged.duplicates, next |-> staged.next]
  BY DEF IInv, TypeOK, Index, Numbers, StageDuplicate, StageAccept, Staging
<1>3. Current(p) \in ValidOperation
  BY <1>1, <1>2 DEF IInv, BatchesAreValid, Current
<1>4. ASSUME StageDuplicate(p) PROVE IInv'
  <2>1. /\ staged' = [byId |-> staged.byId, highest |-> staged.highest, accepted |-> staged.accepted,
                      duplicates |-> staged.duplicates + 1, next |-> staged.next + 1]
        /\ UNCHANGED <<operations, byId, highest, writer, call, batch, ack>>
    BY <1>2, <1>4 DEF StageDuplicate
  <2>. QED
    BY <1>2, <2>1 DEF IInv, TypeOK, LockIsHeld, BatchesAreValid, StagedIsSound, Index, Numbers
<1>5. ASSUME StageAccept(p) PROVE IInv'
  <2>. DEFINE op == Current(p)
              i2 == [staged.byId EXCEPT ![op.id] = op]
              h2 == [staged.highest EXCEPT ![op.device] = op.seq]
              a2 == Append(staged.accepted, op)
  <2>1. /\ staged' = [byId |-> i2, highest |-> h2, accepted |-> a2,
                      duplicates |-> staged.duplicates, next |-> staged.next + 1]
        /\ UNCHANGED <<operations, byId, highest, writer, call, batch, ack>>
    BY <1>2, <1>5 DEF StageAccept
  <2>2. Sound(Append(operations \o staged.accepted, op), i2, h2)
    BY <1>1, <1>3, <1>5, ExtensionIsSound DEF IInv, StagedIsSound, StageAccept, Known
  <2>3. Append(operations \o staged.accepted, op) = operations \o a2
    BY <1>2, <1>3 DEF IInv, Sound
  <2>4. i2 \in Index /\ h2 \in Numbers /\ a2 \in Seq(ValidOperation) /\ a2 \in Seq(SyncOperation)
    BY <1>2, <1>3, <2>2 DEF Sound, ValidOperation
  <2>. HIDE DEF op, i2, h2, a2
  <2>5. TypeOK'
    BY <1>2, <2>1, <2>4 DEF IInv, TypeOK, Index, Numbers
  <2>6. LockIsHeld' /\ BatchesAreValid' /\ staged'.accepted \in Seq(ValidOperation)
        /\ Sound(operations, byId, highest)'
    BY <2>1, <2>4 DEF IInv, LockIsHeld, BatchesAreValid
  <2>7. StagedIsSound'
    BY <2>1, <2>2, <2>3 DEF StagedIsSound
  <2>. QED
    BY <2>5, <2>6, <2>7 DEF IInv
<1>. QED
  BY <1>4, <1>5

\* A push begins with copies of what is sound.
LEMMA AcquireKeeps == ASSUME IInv, NEW p \in Pushers, Acquire(p) PROVE IInv'
<1>1. /\ staged' = [byId |-> byId, highest |-> highest, accepted |-> <<>>, duplicates |-> 0, next |-> 1]
      /\ writer' = p /\ writer = Nobody
      /\ call' = [call EXCEPT ![p] = "staging"] /\ call[p] = "locking"
      /\ UNCHANGED <<operations, byId, highest, batch, ack>>
  BY DEF Acquire
<1>2. TypeOK' /\ BatchesAreValid' /\ staged'.accepted \in Seq(ValidOperation)
  BY <1>1 DEF IInv, TypeOK, BatchesAreValid
<1>3. LockIsHeld'
  BY <1>1, NobodyPushes DEF IInv, TypeOK, LockIsHeld, Nobody
<1>4. operations \o <<>> = operations
  BY DEF IInv, Sound
<1>. QED
  BY <1>1, <1>2, <1>3, <1>4 DEF IInv, StagedIsSound

\* Nothing staged is sound when nobody holds the lock.
LEMMA ReleaseKeeps ==
  ASSUME IInv, NEW p \in Pushers, Reject(p) \/ Commit(p) PROVE IInv'
<1>1. writer = p /\ writer # Nobody /\ call[p] = "staging"
  BY NobodyPushes DEF IInv, LockIsHeld, Nobody, Reject, Commit, Staging
<1>2. /\ staged' = NothingStaged /\ writer' = Nobody /\ call' = [call EXCEPT ![p] = "answered"]
      /\ UNCHANGED batch
  BY DEF Reject, Commit, Release, Answered
<1>3. Sound(operations, byId, highest)'
  <2>1. CASE Reject(p)
    BY <2>1 DEF IInv, Reject
  <2>2. CASE Commit(p)
    BY <1>1, <2>2 DEF IInv, StagedIsSound, Commit
  <2>. QED
    BY <2>1, <2>2
<1>4. NothingStaged.accepted \in Seq(ValidOperation)
      /\ NothingStaged \in [byId : Index, highest : Numbers, accepted : Seq(SyncOperation),
                            duplicates : Nat, next : Nat \ {0}]
  BY BoundsArePositive DEF NothingStaged, Index, Numbers
<1>5. TypeOK'
  BY <1>2, <1>3, <1>4 DEF IInv, TypeOK, Sound, Index, Numbers, ValidOperation
<1>6. LockIsHeld' /\ BatchesAreValid'
  BY <1>1, <1>2, NobodyPushes DEF IInv, TypeOK, LockIsHeld, BatchesAreValid, Nobody
<1>. QED
  BY <1>2, <1>3, <1>4, <1>5, <1>6 DEF IInv, StagedIsSound

\* A push that waits, and a pull, change nothing of the log.
LEMMA OutsideKeeps ==
  ASSUME IInv,
         \/ \E p \in Pushers : Submit(p) \/ Abandon(p)
         \/ \E r \in Replicas : PullStep(r)
         \/ UNCHANGED vars
  PROVE  IInv'
<1>1. CASE UNCHANGED pushVars
  BY <1>1 DEF pushVars, IInv, TypeOK, LockIsHeld, BatchesAreValid, StagedIsSound
<1>2. ASSUME NEW p \in Pushers, Submit(p) PROVE IInv'
  <2>. PICK b \in Batches :
         /\ batch' = [batch EXCEPT ![p] = b]
         /\ IF \A i \in DOMAIN b : Valid(b[i])
            THEN call' = [call EXCEPT ![p] = "locking"]
            ELSE call' = [call EXCEPT ![p] = "answered"]
    BY <1>2 DEF Submit, Answered
  <2>1. /\ call[p] = "idle" /\ b \in Seq(SyncOperation)
        /\ UNCHANGED <<operations, byId, highest, writer, staged>>
    BY <1>2, BatchesAreSequences DEF Submit
  <2>2. (\A i \in DOMAIN b : Valid(b[i])) => b \in Seq(ValidOperation)
    <3>. SUFFICES ASSUME \A i \in DOMAIN b : Valid(b[i]) PROVE b \in Seq(ValidOperation)
      OBVIOUS
    <3>1. \A i \in 1..Len(b) : b[i] \in ValidOperation
      BY <2>1 DEF ValidOperation
    <3>. QED
      BY <2>1, <3>1, IsASeq
  <2>3. TypeOK'
    BY <2>1 DEF IInv, TypeOK
  <2>4. LockIsHeld' /\ BatchesAreValid'
    BY <2>1, <2>2 DEF IInv, TypeOK, LockIsHeld, BatchesAreValid
  <2>. QED
    BY <2>1, <2>3, <2>4 DEF IInv, StagedIsSound
<1>3. ASSUME NEW p \in Pushers, Abandon(p) PROVE IInv'
  BY <1>3 DEF Abandon, IInv, TypeOK, LockIsHeld, BatchesAreValid, StagedIsSound
<1>. QED
  BY <1>1, <1>2, <1>3 DEF PullStep, Pull, Deliver, Lose, vars

\* The invariant holds throughout every behaviour.
LEMMA InvariantHolds == Spec => []IInv
<1>1. IInv /\ [Next]_vars => IInv'
  BY StagingKeeps, AcquireKeeps, ReleaseKeeps, OutsideKeeps DEF Next, PushStep
<1>. QED
  BY <1>1, InitHolds, PTL DEF Spec

\* The log holds operations that validate, and the copies stay in their types.
THEOREM TypeCorrect == Spec => []TypeOK
<1>1. IInv => TypeOK
  BY DEF IInv
<1>. QED
  BY <1>1, InvariantHolds, PTL

\* The log is gap-free per device, and only repeats the number at which u64
\* saturates (push_batch).
THEOREM LogIsGapFree == Spec => []GapFree
<1>1. IInv => GapFree
  BY DEF IInv, Sound, GapFree
<1>. QED
  BY <1>1, InvariantHolds, PTL

\* An id names one operation for ever (push_batch: operations_by_id).
THEOREM IdsNameOneOperation == Spec => []IdsAreIdempotent
<1>1. IInv => IdsAreIdempotent
  BY DEF IInv, Sound, Indexed, IdsAreIdempotent
<1>. QED
  BY <1>1, InvariantHolds, PTL

----------------------------------------------------------------------------
(* What replicas have and get                                              *)

\* The operations of d with numbers above m up to n, and what lies behind a cursor.
Own(d)           == {op \in SyncOperation : op.device = d}
Between(d, m, n) == {op \in SyncOperation : op.device = d /\ op.seq > m /\ op.seq <= n}
Upto(d, n)       == {op \in SyncOperation : op.device = d /\ op.seq <= n}
Beyond(c)        == {op \in SyncOperation : Unseen(c, op)}

\* Numbers of a device never repeat.
Rising(log) ==
  \A i, j \in DOMAIN log : i < j /\ log[i].device = log[j].device => log[i].seq < log[j].seq

Pushed == UNION {Range(b) : b \in Batches}

\* No device gives the largest number to two operations.
LastNumberOnce ==
  \A x, y \in Pushed : x.device = y.device /\ x.seq = MaxU64 /\ y.seq = MaxU64 => x = y

\* The fields of an operation of the log.
LEMMA OperationTypes ==
  \A op \in ValidOperation : /\ op \in SyncOperation /\ op.id \in Ids /\ op.device \in Devices
                             /\ op.seq \in 1..MaxU64
BY BoundsArePositive DEF ValidOperation, SyncOperation, Valid

\* What the lock's holder accepts has a number of its own, if the largest one does not repeat.
LEMMA ExtensionRises ==
  ASSUME LastNumberOnce, NEW log, NEW ids, NEW high, Sound(log, ids, high), Rising(log),
         Range(log) \subseteq Pushed, NEW op \in ValidOperation, op \in Pushed,
         ids[op.id] = NoOperation, op.seq = SaturatingInc(high[op.device])
  PROVE  Rising(Append(log, op))
<1>1. /\ log \in Seq(ValidOperation) /\ Len(log) \in Nat /\ DOMAIN log = 1..Len(log)
      /\ high[op.device] \in 0..MaxU64 /\ MaxU64 \in Nat \ {0}
  BY OperationTypes, LenProperties, BoundsArePositive DEF Sound, Numbers
<1>2. \A i \in 1..Len(log) : log[i] \in ValidOperation /\ log[i].seq \in 1..MaxU64
  BY <1>1, ElementOfSeq, OperationTypes
<1>3. high[op.device] < op.seq
  <2>. SUFFICES ASSUME high[op.device] = MaxU64 PROVE FALSE
    BY <1>1 DEF SaturatingInc
  <2>1. op.seq = MaxU64 /\ high[op.device] # 0
    BY <1>1 DEF SaturatingInc
  <2>2. PICK i \in 1..Len(log) : log[i].device = op.device /\ log[i].seq = MaxU64
    BY <1>1, <2>1, OperationTypes DEF Sound, Numbered
  <2>3. log[i] \in Pushed
    BY <1>1, <2>2 DEF Range
  <2>4. log[i] = op
    BY <2>1, <2>2, <2>3 DEF LastNumberOnce
  <2>5. ids[log[i].id] = log[i]
    BY <1>1, <2>2 DEF Sound, Indexed
  <2>6. op \in SyncOperation
    BY OperationTypes
  <2>. QED
    BY <2>4, <2>5, <2>6, NoOperationIsNone
<1>4. \A i \in 1..Len(log) : log[i].seq <= high[log[i].device]
  BY <1>1 DEF Sound, Numbered
<1>5. PICK t : t = Append(log, op)
  OBVIOUS
<1>6. /\ DOMAIN t = 1..(Len(log) + 1) /\ t[Len(log) + 1] = op
      /\ \A i \in 1..Len(log) : t[i] = log[i]
  BY <1>1, <1>5, AppendProperties, LenProperties
<1>7. ASSUME NEW i \in DOMAIN t, NEW j \in DOMAIN t, i < j, t[i].device = t[j].device
      PROVE  t[i].seq < t[j].seq
  <2>1. CASE j \in 1..Len(log)
    BY <1>1, <1>6, <1>7, <2>1 DEF Rising
  <2>2. CASE j = Len(log) + 1
    <3>1. i \in 1..Len(log) /\ t[i] = log[i] /\ t[j] = op
      BY <1>1, <1>6, <1>7, <2>2
    <3>2. log[i].seq <= high[op.device] /\ log[i].seq \in 1..MaxU64 /\ op.seq \in 1..MaxU64
      BY <1>2, <1>4, <1>7, <3>1, OperationTypes
    <3>. QED
      BY <1>1, <1>3, <3>1, <3>2
  <2>. QED
    BY <1>1, <1>6, <2>1, <2>2
<1>. QED
  BY <1>5, <1>7 DEF Rising

\* A part of a rising log rises.
LEMMA RisingParts ==
  ASSUME NEW s \in Seq(ValidOperation), NEW t \in Seq(ValidOperation), Rising(s \o t)
  PROVE  /\ Rising(s)
         /\ \A x \in Range(s), y \in Range(t) : x.device = y.device => x.seq < y.seq
<1>1. PICK u : u = s \o t
  OBVIOUS
<1>2. /\ Len(s) \in Nat /\ Len(t) \in Nat /\ DOMAIN s = 1..Len(s) /\ DOMAIN t = 1..Len(t)
      /\ DOMAIN u = 1..(Len(s) + Len(t))
      /\ \A i \in 1..Len(s) : u[i] = s[i]
      /\ \A i \in 1..Len(t) : u[Len(s) + i] = t[i]
  BY <1>1, ConcatProperties, LenProperties
<1>3. \A i, j \in DOMAIN u : i < j /\ u[i].device = u[j].device => u[i].seq < u[j].seq
  BY <1>1 DEF Rising
<1>4. Rising(s)
  BY <1>2, <1>3 DEF Rising
<1>5. ASSUME NEW x \in Range(s), NEW y \in Range(t), x.device = y.device PROVE x.seq < y.seq
  <2>1. PICK i \in 1..Len(s) : x = s[i]
    BY <1>2 DEF Range
  <2>2. PICK j \in 1..Len(t) : y = t[j]
    BY <1>2 DEF Range
  <2>3. i \in DOMAIN u /\ Len(s) + j \in DOMAIN u /\ i < Len(s) + j /\ u[i] = x /\ u[Len(s) + j] = y
    BY <1>2, <2>1, <2>2
  <2>. QED
    BY <1>3, <1>5, <2>3
<1>. QED
  BY <1>4, <1>5

\* In a rising log the numbers up to n are those up to m and then the others.
LEMMA RisingSplits ==
  ASSUME NEW d, NEW m \in Nat, NEW n \in Nat, m <= n
  PROVE  \A s \in Seq(ValidOperation) :
           Rising(s) => Among(s, Upto(d, n)) = Among(s, Upto(d, m)) \o Among(s, Between(d, m, n))
<1>0. PICK A, B, C : A = Upto(d, n) /\ B = Upto(d, m) /\ C = Between(d, m, n)
  OBVIOUS
<1>. DEFINE T == {s \in Seq(ValidOperation) :
                   Rising(s) => Among(s, A) = Among(s, B) \o Among(s, C)}
<1>1. <<>> \in T
  BY AmongEmpty, ConcatEmptySeq, EmptySeq
<1>2. ASSUME NEW s \in Seq(ValidOperation), NEW e \in ValidOperation, s \in T
      PROVE  Append(s, e) \in T
  <2>. SUFFICES ASSUME Rising(Append(s, e))
                PROVE  Among(Append(s, e), A) = Among(Append(s, e), B) \o Among(Append(s, e), C)
    BY AppendProperties
  <2>1. Append(s, e) = s \o <<e>> /\ <<e>> \in Seq(ValidOperation)
    BY AppendIsConcat
  <2>2. e \in Range(<<e>>)
    BY DEF Range
  <2>3. Rising(s) /\ \A x \in Range(s) : x.device = e.device => x.seq < e.seq
    BY <2>1, <2>2, RisingParts
  <2>4. Among(s, A) = Among(s, B) \o Among(s, C)
    BY <1>2, <2>3
  <2>5. /\ Among(s, A) \in Seq(ValidOperation) /\ Among(s, B) \in Seq(ValidOperation)
        /\ Among(s, C) \in Seq(ValidOperation)
    BY AmongType
  <2>6. /\ Among(Append(s, e), A) = IF e \in A THEN Append(Among(s, A), e) ELSE Among(s, A)
        /\ Among(Append(s, e), B) = IF e \in B THEN Append(Among(s, B), e) ELSE Among(s, B)
        /\ Among(Append(s, e), C) = IF e \in C THEN Append(Among(s, C), e) ELSE Among(s, C)
    BY AmongAppend
  <2>7. /\ e \in SyncOperation /\ e.seq \in Nat
        /\ \A x \in Range(s) : x \in SyncOperation /\ x.seq \in Nat
    BY OperationTypes, RangeOfSeq
  <2>8. CASE e \in B
    <3>1. e \in A /\ e \notin C /\ e.device = d /\ e.seq <= m
      BY <1>0, <2>7, <2>8 DEF Upto, Between
    <3>2. Range(s) \cap C = {}
      BY <1>0, <2>3, <2>7, <3>1 DEF Between
    <3>3. Among(s, C) = <<>>
      BY <3>2, AmongNone
    <3>. QED
      BY <2>4, <2>5, <2>6, <2>8, <3>1, <3>3, ConcatEmptySeq, AppendProperties
  <2>9. CASE e \in C
    <3>1. e \in A /\ e \notin B
      BY <1>0, <2>7, <2>9 DEF Upto, Between
    <3>2. Among(s, B) \o Append(Among(s, C), e) = Append(Among(s, B) \o Among(s, C), e)
      BY <2>5, AppendToConcat
    <3>. QED
      BY <2>4, <2>6, <2>9, <3>1, <3>2
  <2>10. CASE e \notin B /\ e \notin C
    <3>1. e \notin A
      BY <1>0, <2>7, <2>10 DEF Upto, Between
    <3>. QED
      BY <2>4, <2>6, <2>10, <3>1
  <2>. QED
    BY <2>8, <2>9, <2>10
<1>. HIDE DEF T
<1>3. Seq(ValidOperation) \subseteq T
  BY <1>1, <1>2, SequenceInduction
<1>. QED
  BY <1>0, <1>3 DEF T

\* Bounded numbers have a largest one.
LEMMA LargestOne ==
  ASSUME NEW n \in Nat, NEW S \in SUBSET (0..n), S # {}
  PROVE  \E m \in S : \A k \in S : k <= m
<1>. DEFINE T == {i \in Nat : (\E k \in S : n - i <= k) => \E m \in S : \A k \in S : k <= m}
<1>1. 0 \in T
  BY Z3
<1>2. ASSUME NEW i \in Nat, i \in T PROVE i + 1 \in T
  <2>. SUFFICES ASSUME NEW k \in S, n - (i + 1) <= k, ~\E j \in S : n - i <= j
                PROVE  \E m \in S : \A j \in S : j <= m
    BY <1>2
  <2>1. \A j \in S : j <= k
    BY Z3
  <2>. QED
    BY <2>1
<1>. HIDE DEF T
<1>3. Nat \subseteq T
  BY <1>1, <1>2, Induction
<1>4. n \in T
  BY <1>3
<1>5. PICK k \in S : n - n <= k
  <2>. PICK k \in S : k \in 0..n
    OBVIOUS
  <2>. QED
    BY Z3
<1>. QED
  BY <1>4, <1>5 DEF T

\* advance leads to the largest number of a device, at or after the cursor.
LEMMA AdvanceIsLargest ==
  ASSUME NEW c \in Numbers, NEW ops \in Seq(ValidOperation)
  PROVE  /\ Advance(c, ops) \in Numbers
         /\ \A d \in Devices :
              /\ c[d] <= Advance(c, ops)[d]
              /\ \A x \in Range(ops) : x.device = d => x.seq <= Advance(c, ops)[d]
              /\ Advance(c, ops)[d] = c[d]
                 \/ \E x \in Range(ops) : x.device = d /\ x.seq = Advance(c, ops)[d]
<1>. DEFINE Seqs(e) == {c[e]} \cup {ops[i].seq : i \in {j \in DOMAIN ops : ops[j].device = e}}
            Top(e)  == CHOOSE m \in Seqs(e) : \A n \in Seqs(e) : Larger(m, n) = m
<1>1. Advance(c, ops) = [e \in Devices |-> Top(e)]
  BY DEF Advance
<1>2. ASSUME NEW e \in Devices
      PROVE  /\ Seqs(e) \subseteq 0..MaxU64
             /\ Top(e) \in Seqs(e) /\ \A n \in Seqs(e) : n <= Top(e)
  <2>1. Seqs(e) \subseteq 0..MaxU64
    <3>1. \A i \in DOMAIN ops : ops[i].seq \in 0..MaxU64
      BY LenProperties, ElementOfSeq, OperationTypes
    <3>2. c[e] \in 0..MaxU64
      BY DEF Numbers
    <3>. QED
      BY <3>1, <3>2
  <2>2. PICK S : S = Seqs(e)
    OBVIOUS
  <2>3. S \in SUBSET (0..MaxU64) /\ S # {}
    BY <2>1, <2>2
  <2>4. \E m \in S : \A k \in S : k <= m
    BY <2>3, LargestOne, BoundsArePositive
  <2>5. \E m \in S : \A n \in S : Larger(m, n) = m
    BY <2>3, <2>4, BoundsArePositive DEF Larger
  <2>6. PICK m : m = CHOOSE x \in S : \A n \in S : Larger(x, n) = x
    OBVIOUS
  <2>7. m \in S /\ \A n \in S : Larger(m, n) = m
    BY <2>5, <2>6
  <2>8. \A n \in S : n <= m
    BY <2>3, <2>7, BoundsArePositive DEF Larger
  <2>9. Top(e) = m
    BY <2>2, <2>6
  <2>. HIDE DEF Top, Seqs
  <2>. QED
    BY <2>1, <2>2, <2>7, <2>8, <2>9
<1>3. Advance(c, ops) \in Numbers
  <2>. HIDE DEF Top, Seqs
  <2>. QED
    BY <1>1, <1>2 DEF Numbers
<1>4. ASSUME NEW d \in Devices
      PROVE  /\ c[d] <= Advance(c, ops)[d]
             /\ \A x \in Range(ops) : x.device = d => x.seq <= Advance(c, ops)[d]
             /\ Advance(c, ops)[d] = c[d]
                \/ \E x \in Range(ops) : x.device = d /\ x.seq = Advance(c, ops)[d]
  <2>1. Advance(c, ops)[d] = Top(d)
    BY <1>1
  <2>. HIDE DEF Top
  <2>2. c[d] \in Seqs(d) /\ \A x \in Range(ops) : x.device = d => x.seq \in Seqs(d)
    BY DEF Range
  <2>3. Top(d) = c[d] \/ \E x \in Range(ops) : x.device = d /\ x.seq = Top(d)
    BY <1>2 DEF Range
  <2>. HIDE DEF Seqs
  <2>. QED
    BY <1>2, <2>1, <2>2, <2>3
<1>. QED
  BY <1>3, <1>4

\* A replica's copy has, of every device, the log up to the cursor.
Copied(copy, log, c) ==
  \A d \in Devices : Among(copy, Own(d)) = Among(log, Upto(d, c[d]))

\* A cursor that no device's number falls behind.
Reaches(c, high) == c \in Numbers /\ \A d \in Devices : c[d] <= high[d]

\* An answer to a pull from cursor c carries what follows c in the log, of every
\* device up to the cursor that comes with it.
Travels(ops, next, log, c, high) ==
  /\ ops \in Seq(ValidOperation) /\ Reaches(next, high)
  /\ \A d \in Devices : c[d] <= next[d]
                        /\ Among(ops, Own(d)) = Among(log, Between(d, c[d], next[d]))
  /\ \E z \in Seq(ValidOperation) : Among(log, Beyond(c)) = ops \o z

\* What is accepted is beyond every cursor.
LEMMA NewIsHigher ==
  ASSUME NEW log, NEW ids, NEW high, Sound(log, ids, high),
         NEW new \in Seq(ValidOperation), Rising(log \o new)
  PROVE  \A op \in Range(new) : op.seq > high[op.device]
<1>. TAKE op \in Range(new)
<1>1. log \in Seq(ValidOperation) /\ op \in ValidOperation
  BY RangeOfSeq DEF Sound
<1>2. op.device \in Devices /\ op.seq \in 1..MaxU64 /\ high[op.device] \in 0..MaxU64
  BY <1>1, OperationTypes DEF Sound, Numbers
<1>3. CASE high[op.device] = 0
  BY <1>2, <1>3
<1>4. CASE high[op.device] # 0
  <2>1. PICK i \in DOMAIN log : log[i].device = op.device /\ log[i].seq = high[op.device]
    BY <1>2, <1>4 DEF Sound, Numbered
  <2>2. log[i] \in Range(log)
    BY DEF Range
  <2>3. log[i].seq < op.seq
    BY <1>1, <2>1, <2>2, RisingParts
  <2>. QED
    BY <1>2, <2>1, <2>3
<1>. QED
  BY <1>3, <1>4

\* A log that grows takes nothing from copies and answers.
LEMMA GrowthKeeps ==
  ASSUME NEW log \in Seq(ValidOperation), NEW new \in Seq(ValidOperation), NEW high, NEW copy,
         high \in Numbers, \A op \in Range(new) : op.seq > high[op.device],
         NEW c, Reaches(c, high)
  PROVE  /\ Copied(copy, log, c) => Copied(copy, log \o new, c)
         /\ \A ops, next : Travels(ops, next, log, c, high) => Travels(ops, next, log \o new, c, high)
<1>0. \A op \in Range(new) : /\ op.device \in Devices /\ op.seq \in Nat /\ high[op.device] \in Nat
                             /\ op.seq > high[op.device]
  BY RangeOfSeq, OperationTypes DEF Numbers
<1>1. ASSUME NEW S, Range(new) \cap S = {} PROVE Among(log \o new, S) = Among(log, S)
  <2>1. Among(new, S) = <<>>
    BY <1>1, AmongNone
  <2>2. Among(log \o new, S) = Among(log, S) \o Among(new, S)
    BY AmongConcat
  <2>3. Among(log, S) \in Seq(ValidOperation)
    BY AmongType
  <2>. QED
    BY <2>1, <2>2, <2>3, ConcatEmptySeq
<1>2. ASSUME NEW d \in Devices, NEW n \in Nat, n <= high[d]
      PROVE  Among(log \o new, Upto(d, n)) = Among(log, Upto(d, n))
  <2>1. Range(new) \cap Upto(d, n) = {}
    BY <1>0, <1>2 DEF Upto
  <2>. QED
    BY <1>1, <2>1
<1>3. ASSUME NEW d \in Devices, NEW m, NEW n \in Nat, n <= high[d]
      PROVE  Among(log \o new, Between(d, m, n)) = Among(log, Between(d, m, n))
  <2>1. Range(new) \cap Between(d, m, n) = {}
    BY <1>0, <1>3 DEF Between
  <2>. QED
    BY <1>1, <2>1
<1>4. Copied(copy, log, c) => Copied(copy, log \o new, c)
  BY <1>2 DEF Copied, Reaches, Numbers
<1>5. ASSUME NEW ops, NEW next, Travels(ops, next, log, c, high)
      PROVE  Travels(ops, next, log \o new, c, high)
  <2>1. \A d \in Devices : next[d] \in Nat /\ next[d] <= high[d]
    BY <1>5 DEF Travels, Reaches, Numbers
  <2>2. \A d \in Devices : Among(ops, Own(d)) = Among(log \o new, Between(d, c[d], next[d]))
    BY <1>3, <1>5, <2>1 DEF Travels
  <2>3. PICK z \in Seq(ValidOperation) : Among(log, Beyond(c)) = ops \o z
    BY <1>5 DEF Travels
  <2>4. PICK y \in Seq(ValidOperation) : y = Among(new, Beyond(c))
    BY AmongType
  <2>5. Among(log \o new, Beyond(c)) = Among(log, Beyond(c)) \o Among(new, Beyond(c))
    BY AmongConcat
  <2>6. ops \in Seq(ValidOperation)
    BY <1>5 DEF Travels
  <2>7. (ops \o z) \o y = ops \o (z \o y) /\ z \o y \in Seq(ValidOperation)
    BY <2>6, ConcatAssociative, ConcatProperties
  <2>8. \E x \in Seq(ValidOperation) : Among(log \o new, Beyond(c)) = ops \o x
    BY <2>3, <2>4, <2>5, <2>7
  <2>. QED
    BY <1>5, <2>2, <2>8 DEF Travels
<1>. QED
  BY <1>4, <1>5

\* What a pull answers travels.
LEMMA PullTravels ==
  ASSUME NEW log, NEW ids, NEW high, Sound(log, ids, high), Rising(log),
         NEW c, Reaches(c, high), NEW limit \in Nat, NEW ops,
         ops = Take(Among(log, Beyond(c)), limit)
  PROVE  Travels(ops, Advance(c, ops), log, c, high)
<1>1. log \in Seq(ValidOperation) /\ c \in Numbers /\ high \in Numbers
  BY DEF Sound, Reaches
<1>2. PICK u \in Seq(ValidOperation) : u = Among(log, Beyond(c)) /\ Range(u) = Range(log) \cap Beyond(c)
  BY <1>1, AmongType
<1>3. PICK n \in 0..Len(u) : ops = SubSeq(u, 1, n)
  BY <1>2, LenProperties DEF Take, Smaller
<1>4. Splits(ValidOperation, Beyond(c), log, n)
  BY <1>1, <1>2, AmongFirst
<1>5. PICK a \in Seq(ValidOperation), z \in Seq(ValidOperation) :
        log = a \o z /\ ops = Among(a, Beyond(c))
  BY <1>2, <1>3, <1>4 DEF Splits
<1>6. ops \in Seq(ValidOperation) /\ Range(ops) = Range(a) \cap Beyond(c)
  BY <1>5, AmongType
<1>7. \E y \in Seq(ValidOperation) : Among(log, Beyond(c)) = ops \o y
  <2>1. Among(a \o z, Beyond(c)) = Among(a, Beyond(c)) \o Among(z, Beyond(c))
    BY AmongConcat
  <2>2. Among(z, Beyond(c)) \in Seq(ValidOperation)
    BY AmongType
  <2>. QED
    BY <1>5, <2>1, <2>2
<1>8. Rising(a) /\ \A x \in Range(a), y \in Range(z) : x.device = y.device => x.seq < y.seq
  BY <1>5, RisingParts
<1>9. Range(log) = Range(a) \cup Range(z)
  BY <1>5, RangeConcatenation
<1>10. \A x \in Range(log) : x \in SyncOperation /\ x.device \in Devices /\ x.seq \in Nat /\ x.seq <= high[x.device]
  <2>1. \A x \in Range(log) : \E i \in DOMAIN log : x = log[i]
    BY DEF Range
  <2>. QED
    BY <1>1, <2>1, RangeOfSeq, OperationTypes DEF Sound, Numbered
<1>. DEFINE next == Advance(c, ops)
<1>11. ASSUME NEW d \in Devices
       PROVE  /\ next[d] \in 0..MaxU64 /\ next[d] <= high[d] /\ c[d] <= next[d]
              /\ Among(ops, Own(d)) = Among(log, Between(d, c[d], next[d]))
  <2>1. /\ next \in Numbers /\ c[d] <= next[d]
        /\ \A x \in Range(ops) : x.device = d => x.seq <= next[d]
        /\ next[d] = c[d] \/ \E x \in Range(ops) : x.device = d /\ x.seq = next[d]
    BY <1>1, <1>6, AdvanceIsLargest
  <2>. HIDE DEF next
  <2>2. next[d] \in 0..MaxU64 /\ c[d] \in 0..MaxU64
    BY <1>1, <2>1 DEF Numbers
  <2>3. next[d] <= high[d]
    BY <1>6, <1>9, <1>10, <2>1 DEF Reaches
  <2>4. Range(z) \cap Between(d, c[d], next[d]) = {}
    <3>. SUFFICES ASSUME NEW y \in Range(z), y \in Between(d, c[d], next[d]) PROVE FALSE
      OBVIOUS
    <3>1. y.device = d /\ y.seq > c[d] /\ y.seq <= next[d] /\ y.seq \in Nat
      BY <1>9, <1>10 DEF Between
    <3>2. PICK x \in Range(ops) : x.device = d /\ x.seq = next[d]
      BY <2>1, <2>2, <3>1
    <3>3. x.seq < y.seq
      BY <1>6, <1>8, <3>1, <3>2
    <3>. QED
      BY <2>2, <3>1, <3>2, <3>3
  <2>5. Range(a) \cap Between(d, c[d], next[d]) = Range(a) \cap (Beyond(c) \cap Own(d))
    <3>1. \A x \in Range(a) : x \in Beyond(c) => x \in Range(ops)
      BY <1>6
    <3>. QED
      BY <1>9, <1>10, <2>1, <3>1 DEF Between, Beyond, Own, Unseen
  <2>6. Among(a, Between(d, c[d], next[d])) = Among(a, Beyond(c) \cap Own(d))
    BY <2>5, AmongAgree
  <2>7. Among(ops, Own(d)) = Among(a, Beyond(c) \cap Own(d))
    BY <1>5, AmongTwice
  <2>8. Among(a \o z, Between(d, c[d], next[d]))
          = Among(a, Between(d, c[d], next[d])) \o Among(z, Between(d, c[d], next[d]))
    BY AmongConcat
  <2>9. Among(z, Between(d, c[d], next[d])) = <<>>
    BY <2>4, AmongNone
  <2>10. Among(a, Between(d, c[d], next[d])) \in Seq(ValidOperation)
    BY AmongType
  <2>11. Among(ops, Own(d)) = Among(log, Between(d, c[d], next[d]))
    BY <1>5, <2>6, <2>7, <2>8, <2>9, <2>10, ConcatEmptySeq
  <2>. QED
    BY <2>1, <2>2, <2>3, <2>11
<1>12. next \in Numbers
  BY <1>1, <1>6, AdvanceIsLargest
<1>. HIDE DEF next
<1>13. Reaches(next, high)
  BY <1>11, <1>12 DEF Reaches
<1>14. Travels(ops, next, log, c, high)
  BY <1>5, <1>6, <1>7, <1>11, <1>13 DEF Travels
<1>. QED
  BY <1>14 DEF next

\* A copy that takes an answer over has the log up to the answer's cursor.
LEMMA DeliveryCopies ==
  ASSUME NEW log \in Seq(ValidOperation), Rising(log), NEW high, NEW c \in Numbers,
         NEW copy \in Seq(ValidOperation), Copied(copy, log, c),
         NEW ops, NEW next, Travels(ops, next, log, c, high)
  PROVE  Copied(copy \o ops, log, next)
<1>1. ops \in Seq(ValidOperation) /\ next \in Numbers
  BY DEF Travels, Reaches
<1>2. ASSUME NEW d \in Devices
      PROVE  Among(copy \o ops, Own(d)) = Among(log, Upto(d, next[d]))
  <2>1. c[d] \in Nat /\ next[d] \in Nat /\ c[d] <= next[d]
    BY <1>1 DEF Travels, Numbers
  <2>2. Among(log, Upto(d, next[d])) = Among(log, Upto(d, c[d])) \o Among(log, Between(d, c[d], next[d]))
    BY <2>1, RisingSplits
  <2>3. Among(copy \o ops, Own(d)) = Among(copy, Own(d)) \o Among(ops, Own(d))
    BY <1>1, AmongConcat
  <2>. QED
    BY <2>2, <2>3 DEF Copied, Travels
<1>. QED
  BY <1>2 DEF Copied

----------------------------------------------------------------------------
(* Where replicas stand in the log                                         *)

Answers ==
  {NoAnswer, Refusal("zero_limit")}
    \cup [kind : {"batch"}, operations : Seq(ValidOperation), cursor : Numbers]

\* The log, with what is staged, has pushed operations only and its numbers rise.
Rises(log) == Range(log) \subseteq Pushed /\ Rising(log)

LogRises ==
  /\ \A p \in Pushers : batch[p] = <<>> \/ batch[p] \in Batches
  /\ Rises(operations)
  /\ writer # Nobody => Rises(operations \o staged.accepted)

\* Where replica r stands.
Stands(copy, c, a, log, high) ==
  /\ Reaches(c, high) /\ Copied(copy, log, c)
  /\ a.kind = "batch" => Travels(a.operations, a.cursor, log, c, high)

ReplicasStand ==
  /\ cursor \in [Replicas -> Numbers]
  /\ replica \in [Replicas -> Seq(ValidOperation)]
  /\ answer \in [Replicas -> Answers]
  /\ \A r \in Replicas : Stands(replica[r], cursor[r], answer[r], operations, highest)

RInv == IInv /\ LogRises /\ ReplicasStand

\* Replicas start with nothing, at cursors of zero.
LEMMA ReplicasStartEmpty == Init => RInv
<1>. SUFFICES ASSUME Init PROVE RInv
  OBVIOUS
<1>1. <<>> \in Seq(ValidOperation) /\ Len(<<>>) = 0 /\ Range(<<>>) = {}
  BY EmptySeq, RangeEmpty
<1>2. LogRises
  <2>1. Rising(<<>>)
    BY DEF Rising
  <2>. QED
    BY <1>1, <2>1 DEF Init, LogRises, Rises
<1>3. [d \in Devices |-> 0] \in Numbers
  BY BoundsArePositive DEF Numbers
<1>4. NoAnswer \in Answers /\ NoAnswer.kind # "batch"
  BY DEF Answers, NoAnswer
<1>5. ASSUME NEW r \in Replicas PROVE Stands(replica[r], cursor[r], answer[r], operations, highest)
  <2>1. Reaches(cursor[r], highest)
    BY <1>3 DEF Init, Reaches
  <2>2. Copied(replica[r], operations, cursor[r])
    BY AmongEmpty DEF Init, Copied
  <2>. QED
    BY <1>4, <2>1, <2>2 DEF Init, Stands
<1>6. ReplicasStand
  BY <1>1, <1>3, <1>4, <1>5 DEF Init, ReplicasStand
<1>. QED
  BY <1>2, <1>6, InitHolds DEF RInv

\* The numbers only grow with the log.
LEMMA NumbersGrow ==
  ASSUME NEW log, NEW new \in Seq(ValidOperation), NEW ids, NEW high, NEW ids2, NEW high2,
         Sound(log, ids, high), Sound(log \o new, ids2, high2)
  PROVE  \A d \in Devices : high[d] <= high2[d]
<1>. TAKE d \in Devices
<1>1. log \in Seq(ValidOperation) /\ high[d] \in 0..MaxU64 /\ high2[d] \in 0..MaxU64
  BY DEF Sound, Numbers
<1>2. CASE high[d] = 0
  BY <1>1, <1>2
<1>3. CASE high[d] # 0
  <2>1. PICK i \in DOMAIN log : log[i].device = d /\ log[i].seq = high[d]
    BY <1>3 DEF Sound, Numbered
  <2>2. PICK l : l = log \o new
    OBVIOUS
  <2>3. i \in DOMAIN l /\ l[i] = log[i]
    BY <1>1, <2>1, <2>2, ConcatProperties, LenProperties
  <2>4. l[i].seq <= high2[l[i].device]
    BY <2>2, <2>3 DEF Sound, Numbered
  <2>. QED
    BY <2>1, <2>3, <2>4
<1>. QED
  BY <1>2, <1>3

\* A replica stands where it stood when the log grows.
LEMMA GrowthLeavesStanding ==
  ASSUME NEW log, NEW new \in Seq(ValidOperation), NEW ids, NEW high, NEW ids2, NEW high2,
         Sound(log, ids, high), Sound(log \o new, ids2, high2), Rising(log \o new),
         NEW copy, NEW c, NEW a, Stands(copy, c, a, log, high)
  PROVE  Stands(copy, c, a, log \o new, high2)
<1>1. log \in Seq(ValidOperation) /\ high \in Numbers /\ high2 \in Numbers
  BY DEF Sound
<1>2. \A op \in Range(new) : op.seq > high[op.device]
  BY NewIsHigher
<1>3. \A d \in Devices : high[d] <= high2[d]
  BY NumbersGrow
<1>4. \A x : Reaches(x, high) => Reaches(x, high2)
  BY <1>1, <1>3 DEF Reaches, Numbers
<1>5. Reaches(c, high) /\ Copied(copy, log, c)
  BY DEF Stands
<1>6. Copied(copy, log \o new, c)
  BY <1>1, <1>2, <1>5, GrowthKeeps
<1>7. ASSUME a.kind = "batch" PROVE Travels(a.operations, a.cursor, log \o new, c, high2)
  <2>1. Travels(a.operations, a.cursor, log, c, high)
    BY <1>7 DEF Stands
  <2>2. Travels(a.operations, a.cursor, log \o new, c, high)
    BY <1>1, <1>2, <1>5, <2>1, GrowthKeeps
  <2>. QED
    BY <1>4, <2>2 DEF Travels
<1>. QED
  BY <1>4, <1>5, <1>6, <1>7 DEF Stands

\* A push that stages: the log rises with what it accepts.
LEMMA StagingRises ==
  ASSUME LastNumberOnce, RInv, NEW p \in Pushers, Acquire(p) \/ StageDuplicate(p) \/ StageAccept(p)
  PROVE  LogRises' /\ ReplicasStand'
<1>1. UNCHANGED <<operations, highest, batch, cursor, answer, replica>>
  BY DEF Acquire, StageDuplicate, StageAccept, pullVars
<1>2. ReplicasStand'
  BY <1>1 DEF RInv, ReplicasStand
<1>3. CASE Acquire(p)
  <2>1. staged'.accepted = <<>>
    BY <1>3 DEF Acquire
  <2>2. operations \o <<>> = operations
    BY ConcatEmptySeq DEF RInv, IInv, Sound
  <2>. QED
    BY <1>1, <1>2, <2>1, <2>2 DEF RInv, LogRises
<1>4. CASE StageDuplicate(p)
  <2>1. staged'.accepted = staged.accepted /\ writer' = writer
    BY <1>4 DEF StageDuplicate, RInv, IInv, TypeOK
  <2>. QED
    BY <1>1, <1>2, <2>1 DEF RInv, LogRises
<1>5. CASE StageAccept(p)
  <2>1. PICK op : op = Current(p)
    OBVIOUS
  <2>2. /\ writer = p /\ writer # Nobody /\ writer' = writer /\ call[p] = "staging"
        /\ staged.next \in Nat \ {0} /\ staged.next <= Len(batch[p])
    BY <1>5, NobodyPushes DEF RInv, IInv, TypeOK, LockIsHeld, Nobody, StageAccept, Staging
  <2>3. batch[p] \in Seq(ValidOperation)
    BY <2>2 DEF RInv, IInv, BatchesAreValid
  <2>4. staged.next \in DOMAIN batch[p] /\ op = batch[p][staged.next] /\ op \in ValidOperation
    BY <2>1, <2>2, <2>3, LenProperties, ElementOfSeq DEF Current
  <2>5. batch[p] \in Batches
    <3>1. batch[p] # <<>>
      BY <2>4
    <3>. QED
      BY <3>1 DEF RInv, LogRises
  <2>6. op \in Pushed
    BY <2>4, <2>5 DEF Pushed, Range
  <2>7. /\ staged'.accepted = Append(staged.accepted, op)
        /\ staged.byId[op.id] = NoOperation /\ op.seq = SaturatingInc(staged.highest[op.device])
    BY <1>5, <2>1 DEF StageAccept, Known, RInv, IInv, TypeOK
  <2>8. /\ operations \in Seq(ValidOperation) /\ staged.accepted \in Seq(ValidOperation)
        /\ Sound(operations \o staged.accepted, staged.byId, staged.highest)
        /\ Rises(operations \o staged.accepted)
    BY <2>2 DEF RInv, IInv, Sound, StagedIsSound, LogRises
  <2>9. Rising(Append(operations \o staged.accepted, op))
    BY <2>4, <2>6, <2>7, <2>8, ExtensionRises DEF Rises
  <2>10. /\ operations \o staged.accepted \in Seq(ValidOperation)
         /\ operations \o Append(staged.accepted, op) = Append(operations \o staged.accepted, op)
    BY <2>4, <2>8, AppendToConcat
  <2>11. Range(Append(operations \o staged.accepted, op)) = Range(operations \o staged.accepted) \cup {op}
    <3>1. PICK l \in Seq(ValidOperation) : l = operations \o staged.accepted
      BY <2>10
    <3>2. Range(Append(l, op)) = Range(l) \cup {op}
      BY <2>4, RangeAppend
    <3>. QED
      BY <3>1, <3>2
  <2>12. Rises(operations \o Append(staged.accepted, op))
    BY <2>6, <2>8, <2>9, <2>10, <2>11 DEF Rises
  <2>. QED
    BY <1>1, <1>2, <2>7, <2>12 DEF RInv, LogRises
<1>. QED
  BY <1>3, <1>4, <1>5

\* What is committed rises, and no replica loses its place.
LEMMA CommitRises == ASSUME RInv, NEW p \in Pushers, Commit(p) PROVE LogRises' /\ ReplicasStand'
<1>1. /\ writer # Nobody /\ writer' = Nobody
      /\ operations' = operations \o staged.accepted /\ highest' = staged.highest
      /\ UNCHANGED <<batch, cursor, answer, replica>>
  BY NobodyPushes DEF RInv, IInv, LockIsHeld, Nobody, Commit, Release, pullVars
<1>2. LogRises'
  BY <1>1 DEF RInv, LogRises
<1>3. /\ Sound(operations, byId, highest) /\ Rising(operations \o staged.accepted)
      /\ Sound(operations \o staged.accepted, staged.byId, staged.highest)
      /\ staged.accepted \in Seq(ValidOperation)
  BY <1>1 DEF RInv, IInv, StagedIsSound, LogRises, Rises
<1>4. ASSUME NEW r \in Replicas
      PROVE  Stands(replica[r], cursor[r], answer[r], operations \o staged.accepted, staged.highest)
  <2>1. Stands(replica[r], cursor[r], answer[r], operations, highest)
    BY DEF RInv, ReplicasStand
  <2>. QED
    BY <1>3, <2>1, GrowthLeavesStanding
<1>5. ReplicasStand'
  BY <1>1, <1>4 DEF RInv, ReplicasStand
<1>. QED
  BY <1>2, <1>5

\* The steps of a push outside the lock, and its refusal.
LEMMA OthersRise ==
  ASSUME RInv, NEW p \in Pushers, Submit(p) \/ Abandon(p) \/ Reject(p)
  PROVE  LogRises' /\ ReplicasStand'
<1>1. UNCHANGED <<operations, highest, cursor, answer, replica>>
  BY DEF Submit, Abandon, Reject, pullVars
<1>2. ReplicasStand'
  BY <1>1 DEF RInv, ReplicasStand
<1>3. CASE Submit(p)
  <2>1. PICK b \in Batches : batch' = [batch EXCEPT ![p] = b]
    BY <1>3 DEF Submit
  <2>2. batch \in [Pushers -> Seq(SyncOperation)]
    BY DEF RInv, IInv, TypeOK
  <2>3. \A q \in Pushers : batch'[q] = <<>> \/ batch'[q] \in Batches
    BY <2>1, <2>2 DEF RInv, LogRises
  <2>4. UNCHANGED <<writer, staged>>
    BY <1>3 DEF Submit
  <2>. QED
    BY <1>1, <1>2, <2>3, <2>4 DEF RInv, LogRises
<1>4. CASE Abandon(p)
  BY <1>1, <1>2, <1>4 DEF Abandon, RInv, LogRises
<1>5. CASE Reject(p)
  BY <1>1, <1>2, <1>5 DEF Reject, Release, RInv, LogRises
<1>. QED
  BY <1>3, <1>4, <1>5

\* A pull answers what follows the cursor.
LEMMA PullStands ==
  ASSUME RInv, NEW r \in Replicas, NEW limit \in Limits, Pull(r, limit)
  PROVE  ReplicasStand'
<1>. DEFINE c == cursor[r]
            ops == Take(Among(operations, Beyond(c)), limit)
            a == [kind |-> "batch", operations |-> ops, cursor |-> Advance(c, ops)]
<1>1. /\ answer' = [answer EXCEPT ![r] = IF limit = 0 THEN Refusal("zero_limit") ELSE a]
      /\ UNCHANGED <<operations, highest, cursor, replica>>
  BY DEF Pull, Beyond, pushVars
<1>2. limit \in Nat
  BY LimitsAreCounts
<1>3. /\ Sound(operations, byId, highest) /\ Rising(operations) /\ Reaches(c, highest)
      /\ Copied(replica[r], operations, c)
  BY DEF RInv, IInv, LogRises, Rises, ReplicasStand, Stands
<1>4. Travels(ops, Advance(c, ops), operations, c, highest)
  BY <1>2, <1>3, PullTravels
<1>5. a \in Answers /\ Stands(replica[r], c, a, operations, highest)
  <2>. HIDE DEF c, ops
  <2>1. a.kind = "batch" /\ a.operations = ops /\ a.cursor = Advance(c, ops)
    OBVIOUS
  <2>2. ops \in Seq(ValidOperation) /\ Advance(c, ops) \in Numbers
    BY <1>4 DEF Travels, Reaches
  <2>3. a \in Answers
    BY <2>2 DEF Answers
  <2>. HIDE DEF a
  <2>. QED
    BY <1>3, <1>4, <2>1, <2>3 DEF Stands
<1>6. Refusal("zero_limit") \in Answers
      /\ Stands(replica[r], c, Refusal("zero_limit"), operations, highest)
  BY <1>3 DEF Answers, Refusal, Stands
<1>. HIDE DEF a
<1>7. PICK b \in Answers : /\ answer' = [answer EXCEPT ![r] = b]
                           /\ Stands(replica[r], c, b, operations, highest)
  BY <1>1, <1>5, <1>6
<1>. QED
  BY <1>1, <1>7 DEF RInv, ReplicasStand

\* A replica that takes an answer over stands at the answer's cursor.
LEMMA DeliverStands == ASSUME RInv, NEW r \in Replicas, Deliver(r) PROVE ReplicasStand'
<1>1. PICK ops, next : ops = answer[r].operations /\ next = answer[r].cursor
  OBVIOUS
<1>2. /\ replica' = [replica EXCEPT ![r] = replica[r] \o ops]
      /\ cursor' = [cursor EXCEPT ![r] = next]
      /\ answer' = [answer EXCEPT ![r] = NoAnswer]
      /\ UNCHANGED <<operations, highest>>
  BY <1>1 DEF Deliver, pushVars
<1>3. /\ Sound(operations, byId, highest) /\ Rising(operations)
      /\ replica[r] \in Seq(ValidOperation) /\ Reaches(cursor[r], highest)
      /\ Copied(replica[r], operations, cursor[r])
      /\ Travels(ops, next, operations, cursor[r], highest)
  BY <1>1 DEF Deliver, RInv, IInv, LogRises, Rises, ReplicasStand, Stands
<1>4. operations \in Seq(ValidOperation) /\ cursor[r] \in Numbers
  BY <1>3 DEF Sound, Reaches
<1>5. Copied(replica[r] \o ops, operations, next)
  BY <1>3, <1>4, DeliveryCopies
<1>6. ops \in Seq(ValidOperation) /\ next \in Numbers /\ Reaches(next, highest)
  BY <1>3 DEF Travels, Reaches
<1>7. replica[r] \o ops \in Seq(ValidOperation)
  BY <1>3, <1>6, ConcatProperties
<1>8. NoAnswer \in Answers /\ Stands(replica[r] \o ops, next, NoAnswer, operations, highest)
  BY <1>5, <1>6 DEF Answers, NoAnswer, Stands
<1>. QED
  BY <1>2, <1>6, <1>7, <1>8 DEF RInv, ReplicasStand

\* A lost answer leaves its replica where it was.
LEMMA LoseStands == ASSUME RInv, NEW r \in Replicas, Lose(r) PROVE ReplicasStand'
<1>1. /\ answer' = [answer EXCEPT ![r] = NoAnswer]
      /\ UNCHANGED <<operations, highest, cursor, replica>>
  BY DEF Lose, pushVars
<1>2. NoAnswer \in Answers /\ Stands(replica[r], cursor[r], NoAnswer, operations, highest)
  BY DEF RInv, ReplicasStand, Answers, NoAnswer, Stands
<1>. QED
  BY <1>1, <1>2 DEF RInv, ReplicasStand

\* No step moves a replica from where it stands to the log.
LEMMA StandingKeeps == ASSUME LastNumberOnce, RInv, [Next]_vars PROVE RInv'
<1>1. IInv'
  BY StagingKeeps, AcquireKeeps, ReleaseKeeps, OutsideKeeps DEF RInv, Next, PushStep
<1>2. ASSUME NEW p \in Pushers, PushStep(p) PROVE LogRises' /\ ReplicasStand'
  BY <1>2, StagingRises, CommitRises, OthersRise DEF PushStep
<1>3. ASSUME NEW r \in Replicas, PullStep(r) PROVE LogRises' /\ ReplicasStand'
  <2>1. LogRises'
    BY <1>3 DEF PullStep, Pull, Deliver, Lose, pushVars, RInv, LogRises
  <2>. QED
    BY <1>3, <2>1, PullStands, DeliverStands, LoseStands DEF PullStep
<1>4. CASE UNCHANGED vars
  <2>1. /\ UNCHANGED <<operations, highest, writer, staged, batch>>
        /\ UNCHANGED <<cursor, answer, replica>>
    BY <1>4 DEF vars, pushVars, pullVars
  <2>2. LogRises'
    BY <2>1 DEF RInv, LogRises
  <2>3. ReplicasStand'
    BY <2>1 DEF RInv, ReplicasStand
  <2>. QED
    BY <1>1, <2>2, <2>3 DEF RInv
<1>. QED
  BY <1>1, <1>2, <1>3, <1>4 DEF RInv, Next

\* Replicas always stand at their cursors.
LEMMA ReplicasAlwaysStand == LastNumberOnce => (Spec => []RInv)
<1>. SUFFICES ASSUME LastNumberOnce PROVE Spec => []RInv
  OBVIOUS
<1>1. RInv /\ [Next]_vars => RInv'
  BY StandingKeeps
<1>. QED
  BY <1>1, ReplicasStartEmpty, PTL DEF Spec

\* A replica holds, per device, exactly the log up to its cursor, whatever limits and
\* losses cut its pulls, while no device numbers two operations u64::MAX (pull_after).
THEOREM ReplicasArePrefixes == LastNumberOnce => (Spec => []ReplicaIsPrefix)
<1>. SUFFICES ASSUME LastNumberOnce PROVE Spec => []ReplicaIsPrefix
  OBVIOUS
<1>1. RInv => ReplicaIsPrefix
  <2>. SUFFICES ASSUME RInv, NEW r \in Replicas, NEW d \in Devices
                PROVE  LET own    == {op \in SyncOperation : op.device = d}
                           behind == {op \in own : op.seq <= cursor[r][d]}
                       IN  Among(replica[r], own) = Among(operations, behind)
    BY DEF ReplicaIsPrefix
  <2>1. Among(replica[r], Own(d)) = Among(operations, Upto(d, cursor[r][d]))
    BY DEF RInv, ReplicasStand, Stands, Copied
  <2>2. Upto(d, cursor[r][d]) = {op \in Own(d) : op.seq <= cursor[r][d]}
    BY DEF Upto, Own
  <2>. QED
    BY <2>1, <2>2 DEF Own
<1>2. Spec => []RInv
  BY ReplicasAlwaysStand
<1>. QED
  BY <1>1, <1>2, PTL

----------------------------------------------------------------------------
(* What is fresh of a batch                                                *)

Add(fresh, e, l) == IF e \in Range(l) \cup Range(fresh) THEN fresh ELSE Append(fresh, e)

Adds(f, l, b, n) == f = [i \in 0..n |-> IF i = 0 THEN <<>> ELSE Add(f[i - 1], b[i], l)]

\* What is fresh is found batch by batch, prefix by prefix.
LEMMA FreshEnds == ASSUME NEW l, NEW b, NEW n \in Nat PROVE \E f : Adds(f, l, b, n)
<1>. DEFINE T == {k \in Nat : \E f : Adds(f, l, b, k)}
<1>1. 0 \in T
  <2>. DEFINE f == [i \in 0..0 |-> <<>>]
  <2>1. Adds(f, l, b, 0)
    BY DEF Adds
  <2>. QED
    BY <2>1
<1>2. ASSUME NEW k \in Nat, k \in T PROVE k + 1 \in T
  <2>1. PICK f : Adds(f, l, b, k)
    BY <1>2
  <2>. DEFINE g == [i \in 0..(k + 1) |-> IF i = k + 1 THEN Add(f[k], b[k + 1], l) ELSE f[i]]
  <2>2. \A i \in 0..k : f[i] = IF i = 0 THEN <<>> ELSE Add(f[i - 1], b[i], l)
    BY <2>1 DEF Adds
  <2>3. \A i \in 0..(k + 1) : g[i] = IF i = 0 THEN <<>> ELSE Add(g[i - 1], b[i], l)
    BY <2>2
  <2>4. Adds(g, l, b, k + 1)
    BY <2>3 DEF Adds
  <2>. QED
    BY <2>4
<1>. HIDE DEF T
<1>3. Nat \subseteq T
  BY <1>1, <1>2, Induction
<1>. QED
  BY <1>3 DEF T

\* It is the same for batches that begin alike.
LEMMA FreshAgrees ==
  ASSUME NEW l, NEW b, NEW t, NEW m \in Nat, NEW n \in Nat, NEW f, NEW g,
         Adds(f, l, b, m), Adds(g, l, t, n), m <= n, \A i \in 1..m : b[i] = t[i]
  PROVE  f[m] = g[m]
<1>. DEFINE T == {k \in Nat : k <= m => f[k] = g[k]}
<1>1. 0 \in T
  BY DEF Adds
<1>2. ASSUME NEW k \in Nat, k \in T PROVE k + 1 \in T
  <2>. SUFFICES ASSUME k + 1 <= m PROVE f[k + 1] = g[k + 1]
    OBVIOUS
  <2>1. f[k] = g[k] /\ b[k + 1] = t[k + 1]
    BY <1>2
  <2>2. f[k + 1] = Add(f[k], b[k + 1], l)
    BY DEF Adds
  <2>3. g[k + 1] = Add(g[k], t[k + 1], l)
    BY DEF Adds
  <2>. QED
    BY <2>1, <2>2, <2>3
<1>. HIDE DEF T
<1>3. Nat \subseteq T
  BY <1>1, <1>2, Induction
<1>. QED
  BY <1>3 DEF T

\* What is fresh of a batch is what the last step through it leaves.
LEMMA FreshIsLast ==
  ASSUME NEW l, NEW b, Len(b) \in Nat
  PROVE  \E f : Adds(f, l, b, Len(b)) /\ Log!Fresh(l, b) = f[Len(b)]
<1>1. \E f : Adds(f, l, b, Len(b))
  BY FreshEnds
<1>2. Log!Fresh(l, b) = (CHOOSE f : Adds(f, l, b, Len(b)))[Len(b)]
  BY DEF Log!Fresh, Log!Range, Range, Adds, Add
<1>. QED
  BY <1>1, <1>2

\* Nothing is fresh of an empty batch.
LEMMA FreshOfEmpty == ASSUME NEW l PROVE Log!Fresh(l, <<>>) = <<>>
<1>1. Len(<<>>) = 0
  BY EmptySeq
<1>2. PICK f : Adds(f, l, <<>>, 0) /\ Log!Fresh(l, <<>>) = f[0]
  BY <1>1, FreshIsLast
<1>. QED
  BY <1>2 DEF Adds

\* One operation more is fresh unless log or batch have it.
LEMMA FreshOfAppend ==
  ASSUME NEW X, NEW l, NEW b \in Seq(X), NEW e \in X
  PROVE  Log!Fresh(l, Append(b, e))
           = IF e \in Range(l) \cup Range(Log!Fresh(l, b)) THEN Log!Fresh(l, b)
             ELSE Append(Log!Fresh(l, b), e)
<1>1. PICK n \in Nat : n = Len(b)
  BY LenProperties
<1>2. PICK t : t = Append(b, e)
  OBVIOUS
<1>3. /\ Len(t) = n + 1 /\ t[n + 1] = e /\ \A i \in 1..n : b[i] = t[i]
  BY <1>1, <1>2, AppendProperties
<1>4. PICK f : Adds(f, l, b, n) /\ Log!Fresh(l, b) = f[n]
  BY <1>1, FreshIsLast
<1>5. PICK g : Adds(g, l, t, n + 1) /\ Log!Fresh(l, t) = g[n + 1]
  BY <1>3, FreshIsLast
<1>6. f[n] = g[n]
  BY <1>3, <1>4, <1>5, FreshAgrees
<1>7. g[n + 1] = Add(g[n], e, l)
  BY <1>3, <1>5 DEF Adds
<1>. QED
  BY <1>2, <1>4, <1>5, <1>6, <1>7 DEF Add

\* What is fresh is of the batch.
LEMMA FreshType ==
  ASSUME NEW X, NEW l PROVE \A b \in Seq(X) : Log!Fresh(l, b) \in Seq(X)
<1>. DEFINE T == {b \in Seq(X) : Log!Fresh(l, b) \in Seq(X)}
<1>1. <<>> \in T
  BY FreshOfEmpty, EmptySeq
<1>2. ASSUME NEW b \in Seq(X), NEW e \in X, b \in T PROVE Append(b, e) \in T
  <2>1. Append(b, e) \in Seq(X) /\ Append(Log!Fresh(l, b), e) \in Seq(X)
    BY <1>2, AppendProperties
  <2>2. Log!Fresh(l, Append(b, e)) \in {Log!Fresh(l, b), Append(Log!Fresh(l, b), e)}
    BY FreshOfAppend
  <2>. QED
    BY <1>2, <2>1, <2>2
<1>. HIDE DEF T
<1>3. Seq(X) \subseteq T
  BY <1>1, <1>2, SequenceInduction
<1>. QED
  BY <1>3 DEF T

\* Three parts, put together in either order.
LEMMA Regrouped ==
  ASSUME NEW X, NEW u \in Seq(X), NEW v \in Seq(X), NEW w \in Seq(X)
  PROVE  (u \o v) \o w = u \o (v \o w) /\ v \o w \in Seq(X)
BY ConcatAssociative, ConcatProperties

\* The first operations of a batch.
LEMMA PrefixIsASeq ==
  ASSUME NEW X, NEW b \in Seq(X), NEW n \in 0..Len(b) PROVE SubSeq(b, 1, n) \in Seq(X)
<1>1. \A i \in 1..n : b[i] \in X
  BY LenProperties, ElementOfSeq
<1>2. 1 \in Int /\ n \in Int
  BY LenProperties
<1>. QED
  BY <1>1, <1>2, SubSeqProperties

Begins(X, l, b, n) ==
  \E z \in Seq(X) : Log!Fresh(l, b) = Log!Fresh(l, SubSeq(b, 1, n)) \o z

\* What is fresh of a batch begins with what is fresh of its first operations.
LEMMA FreshGrows ==
  ASSUME NEW X, NEW l
  PROVE  \A b \in Seq(X) : \A n \in 0..Len(b) : Begins(X, l, b, n)
<1>. DEFINE T == {b \in Seq(X) : \A n \in 0..Len(b) : Begins(X, l, b, n)}
<1>0. ASSUME NEW b \in Seq(X) PROVE Begins(X, l, b, Len(b))
  <2>1. SubSeq(b, 1, Len(b)) = b
    BY SubSeqFull
  <2>2. Log!Fresh(l, b) = Log!Fresh(l, b) \o <<>> /\ <<>> \in Seq(X)
    BY FreshType, ConcatEmptySeq, EmptySeq
  <2>. QED
    BY <2>1, <2>2 DEF Begins
<1>1. <<>> \in T
  <2>1. <<>> \in Seq(X) /\ Len(<<>>) = 0
    BY EmptySeq
  <2>2. Begins(X, l, <<>>, 0)
    BY <1>0, <2>1
  <2>. QED
    BY <2>1, <2>2
<1>2. ASSUME NEW b \in Seq(X), NEW e \in X, b \in T PROVE Append(b, e) \in T
  <2>1. PICK t : t \in Seq(X) /\ t = Append(b, e)
    BY AppendProperties
  <2>2. PICK s : s \in Seq(X) /\ s = Log!Fresh(l, b)
    BY FreshType
  <2>3. PICK y : y \in Seq(X) /\ Log!Fresh(l, t) = s \o y
    <3>1. s \o <<>> = s /\ <<>> \in Seq(X)
      BY <2>2, ConcatEmptySeq, EmptySeq
    <3>2. s \o <<e>> = Append(s, e) /\ <<e>> \in Seq(X)
      BY <2>2, AppendIsConcat
    <3>3. Log!Fresh(l, t) = s \/ Log!Fresh(l, t) = Append(s, e)
      BY <2>1, <2>2, FreshOfAppend
    <3>. QED
      BY <3>1, <3>2, <3>3
  <2>4. Len(b) \in Nat /\ Len(t) = Len(b) + 1
    BY <2>1, LenProperties, AppendProperties
  <2>5. ASSUME NEW n \in 0..Len(t), n # Len(t) PROVE Begins(X, l, t, n)
    <3>1. n \in 0..Len(b)
      BY <2>4, <2>5
    <3>2. PICK q : q \in Seq(X) /\ q = SubSeq(b, 1, n)
      BY <3>1, PrefixIsASeq
    <3>3. SubSeq(t, 1, n) = q
      BY <2>1, <3>1, <3>2
    <3>4. PICK r : r \in Seq(X) /\ r = Log!Fresh(l, q)
      BY <3>2, FreshType
    <3>5. PICK z : z \in Seq(X) /\ s = r \o z
      BY <1>2, <2>2, <3>1, <3>2, <3>4 DEF Begins
    <3>6. (r \o z) \o y = r \o (z \o y) /\ z \o y \in Seq(X)
      <4>1. r \in Seq(X) /\ z \in Seq(X) /\ y \in Seq(X)
        BY <2>3, <3>4, <3>5
      <4>. QED
        BY <4>1, Regrouped
    <3>7. Log!Fresh(l, t) = Log!Fresh(l, SubSeq(t, 1, n)) \o (z \o y)
      BY <2>3, <3>3, <3>4, <3>5, <3>6
    <3>. QED
      BY <3>6, <3>7 DEF Begins
  <2>. QED
    BY <1>0, <2>1, <2>5
<1>. HIDE DEF T
<1>3. Seq(X) \subseteq T
  BY <1>1, <1>2, SequenceInduction
<1>. QED
  BY <1>3 DEF T

----------------------------------------------------------------------------
(* How devices number their operations                                     *)

OfDevice(log, d, n) == {j \in 1..n : log[j].device = d}

\* The number of an operation before which its device has n others.
NextNumber(n) == IF n < MaxU64 THEN n + 1 ELSE MaxU64

\* highest is the count of a device's operations, and every operation has its place.
Counted(log, high) ==
  \A d \in Devices : high[d] = Smaller(Cardinality(OfDevice(log, d, Len(log))), MaxU64)
Gapless(log) ==
  \A i \in DOMAIN log : log[i].seq = NextNumber(Cardinality(OfDevice(log, log[i].device, i - 1)))

\* The instance counts as the library does.
LEMMA SameCardinality == ASSUME NEW S PROVE Log!Cardinality(S) = Cardinality(S)
BY DEF Log!Cardinality, Cardinality

\* A log without gaps is one that skips nothing.
LEMMA GaplessIsNoSkip == ASSUME NEW log PROVE Log!Skips(log) <=> ~Gapless(log)
<1>1. \A i : Log!Cardinality(OfDevice(log, log[i].device, i - 1))
               = Cardinality(OfDevice(log, log[i].device, i - 1))
  BY SameCardinality
<1>. QED
  BY <1>1 DEF Log!Skips, Gapless, NextNumber, OfDevice

\* The operations of a device can be counted.
LEMMA CountsAreNatural ==
  ASSUME NEW log, NEW d, NEW n \in Nat
  PROVE  IsFiniteSet(OfDevice(log, d, n)) /\ Cardinality(OfDevice(log, d, n)) \in Nat
<1>1. IsFiniteSet(1..n)
  BY FS_Interval
<1>2. OfDevice(log, d, n) \in SUBSET (1..n)
  BY DEF OfDevice
<1>. QED
  BY <1>1, <1>2, FS_Subset, FS_CardinalityType

\* One operation more counts for its own device.
LEMMA CountOfAppend ==
  ASSUME NEW log \in Seq(ValidOperation), NEW op \in ValidOperation, NEW d
  PROVE  Cardinality(OfDevice(Append(log, op), d, Len(log) + 1))
           = Cardinality(OfDevice(log, d, Len(log))) + (IF op.device = d THEN 1 ELSE 0)
<1>1. PICK n \in Nat : n = Len(log)
  BY LenProperties
<1>2. PICK l : l = Append(log, op)
  OBVIOUS
<1>3. l[n + 1] = op /\ \A i \in 1..n : l[i] = log[i]
  BY <1>1, <1>2, AppendProperties
<1>4. IsFiniteSet(OfDevice(log, d, n)) /\ Cardinality(OfDevice(log, d, n)) \in Nat
  BY CountsAreNatural
<1>5. CASE op.device = d
  <2>1. OfDevice(l, d, n + 1) = OfDevice(log, d, n) \cup {n + 1} /\ n + 1 \notin OfDevice(log, d, n)
    BY <1>3, <1>5 DEF OfDevice
  <2>2. Cardinality(OfDevice(log, d, n) \cup {n + 1}) = Cardinality(OfDevice(log, d, n)) + 1
    BY <1>4, <2>1, FS_AddElement
  <2>. QED
    BY <1>1, <1>2, <1>5, <2>1, <2>2
<1>6. CASE op.device # d
  <2>1. OfDevice(l, d, n + 1) = OfDevice(log, d, n)
    BY <1>3, <1>6 DEF OfDevice
  <2>. QED
    BY <1>1, <1>2, <1>4, <1>6, <2>1
<1>. QED
  BY <1>5, <1>6

\* An accepted operation is counted and leaves no gap.
LEMMA ExtensionIsCounted ==
  ASSUME NEW log, NEW ids, NEW high, Sound(log, ids, high), Counted(log, high), Gapless(log),
         NEW op \in ValidOperation, op.seq = SaturatingInc(high[op.device])
  PROVE  /\ Counted(Append(log, op), [high EXCEPT ![op.device] = op.seq])
         /\ Gapless(Append(log, op))
<1>1. log \in Seq(ValidOperation) /\ high \in Numbers
  BY DEF Sound
<1>2. PICK n \in Nat : n = Len(log) /\ DOMAIN log = 1..n
  BY <1>1, LenProperties
<1>3. PICK l : l = Append(log, op)
  OBVIOUS
<1>4. l[n + 1] = op /\ (\A i \in 1..n : l[i] = log[i]) /\ Len(l) = n + 1 /\ DOMAIN l = 1..(n + 1)
  BY <1>1, <1>2, <1>3, AppendProperties, LenProperties
<1>5. \A d, m : m \in 0..n => OfDevice(l, d, m) = OfDevice(log, d, m)
  BY <1>2, <1>4 DEF OfDevice
<1>6. \A d : Cardinality(OfDevice(log, d, n)) \in Nat
  BY CountsAreNatural
<1>7. op.device \in Devices /\ MaxU64 \in Nat \ {0}
  BY OperationTypes, BoundsArePositive
<1>8. \A d \in Devices : high[d] = Smaller(Cardinality(OfDevice(log, d, n)), MaxU64)
  BY <1>2 DEF Counted
<1>9. op.seq = NextNumber(Cardinality(OfDevice(log, op.device, n)))
  BY <1>6, <1>7, <1>8 DEF SaturatingInc, Smaller, NextNumber
<1>10. Gapless(l)
  <2>1. ASSUME NEW i \in 1..n
        PROVE  l[i].seq = NextNumber(Cardinality(OfDevice(l, l[i].device, i - 1)))
    BY <1>2, <1>4, <1>5 DEF Gapless
  <2>2. l[n + 1].seq = NextNumber(Cardinality(OfDevice(l, l[n + 1].device, (n + 1) - 1)))
    BY <1>4, <1>5, <1>9
  <2>. QED
    BY <1>4, <2>1, <2>2 DEF Gapless
<1>11. ASSUME NEW d \in Devices
       PROVE  [high EXCEPT ![op.device] = op.seq][d]
                = Smaller(Cardinality(OfDevice(l, d, n + 1)), MaxU64)
  <2>1. Cardinality(OfDevice(l, d, n + 1))
          = Cardinality(OfDevice(log, d, n)) + (IF op.device = d THEN 1 ELSE 0)
    BY <1>1, <1>2, <1>3, CountOfAppend
  <2>2. Cardinality(OfDevice(log, d, n)) \in Nat
    BY <1>6
  <2>3. CASE op.device = d
    <3>1. [high EXCEPT ![op.device] = op.seq][d] = op.seq
      BY <1>1, <1>7, <2>3 DEF Numbers
    <3>. QED
      BY <1>7, <1>9, <2>1, <2>2, <2>3, <3>1 DEF NextNumber, Smaller
  <2>4. CASE op.device # d
    <3>1. [high EXCEPT ![op.device] = op.seq][d] = high[d]
      BY <1>1, <1>7, <2>4 DEF Numbers
    <3>. QED
      BY <1>8, <2>1, <2>2, <2>4, <3>1
  <2>. QED
    BY <2>3, <2>4
<1>. QED
  BY <1>3, <1>4, <1>10, <1>11 DEF Counted

\* An operation whose number is not the next one leaves a gap, whatever follows it.
LEMMA WrongNumberSkips ==
  ASSUME NEW log, NEW ids, NEW high, Sound(log, ids, high), Counted(log, high),
         NEW op \in ValidOperation, op.seq # SaturatingInc(high[op.device]),
         NEW z \in Seq(ValidOperation)
  PROVE  ~Gapless(Append(log, op) \o z)
<1>1. log \in Seq(ValidOperation) /\ Append(log, op) \in Seq(ValidOperation)
  BY AppendProperties DEF Sound
<1>2. PICK n \in Nat : n = Len(log)
  BY <1>1, LenProperties
<1>3. PICK l : l = Append(log, op) \o z
  OBVIOUS
<1>4. Len(Append(log, op)) = n + 1 /\ Append(log, op)[n + 1] = op
      /\ \A i \in 1..n : Append(log, op)[i] = log[i]
  BY <1>1, <1>2, AppendProperties
<1>5. n + 1 \in DOMAIN l /\ l[n + 1] = op /\ \A i \in 1..n : l[i] = log[i]
  <2>1. /\ Len(z) \in Nat /\ l \in Seq(ValidOperation) /\ Len(l) = (n + 1) + Len(z)
        /\ \A i \in 1..(n + 1) : l[i] = Append(log, op)[i]
    BY <1>1, <1>2, <1>3, <1>4, ConcatProperties, LenProperties
  <2>2. DOMAIN l = 1..Len(l)
    BY <2>1, LenProperties
  <2>. QED
    BY <1>4, <2>1, <2>2
<1>6. OfDevice(l, op.device, n) = OfDevice(log, op.device, n)
  BY <1>5 DEF OfDevice
<1>7. Cardinality(OfDevice(log, op.device, n)) \in Nat /\ op.device \in Devices /\ MaxU64 \in Nat \ {0}
  BY CountsAreNatural, OperationTypes, BoundsArePositive
<1>8. high[op.device] = Smaller(Cardinality(OfDevice(log, op.device, n)), MaxU64)
  BY <1>2, <1>7 DEF Counted
<1>9. op.seq # NextNumber(Cardinality(OfDevice(log, op.device, n)))
  BY <1>7, <1>8 DEF SaturatingInc, Smaller, NextNumber
<1>. SUFFICES ASSUME Gapless(l) PROVE FALSE
  BY <1>3
<1>10. l[n + 1].seq = NextNumber(Cardinality(OfDevice(l, l[n + 1].device, (n + 1) - 1)))
  BY <1>5 DEF Gapless
<1>. QED
  BY <1>5, <1>6, <1>9, <1>10

----------------------------------------------------------------------------
(* The engine implements SyncLog                                           *)

Errors == {"protocol", "collision", "sequence"}
Acks ==
  {NoAnswer} \cup [kind : {"ack"}, accepted : Nat, duplicates : Nat]
             \cup [kind : {"refused"}, error : Errors]

\* A push has its answer when it is through, and a batch from its submission on.
PushesAreTold ==
  /\ ack \in [Pushers -> Acks]
  /\ \A p \in Pushers : /\ ack[p] = NoAnswer <=> call[p] # "answered"
                        /\ call[p] # "idle" => batch[p] \in Batches

\* What is staged is what is fresh of the operations that were looked at.
StagesFresh(s, log, b) ==
  LET done == SubSeq(b, 1, s.next - 1)
  IN  /\ s.next - 1 \in 0..Len(b)
      /\ s.accepted = Log!Fresh(log, done)
      /\ s.duplicates = s.next - 1 - Len(s.accepted)

StagedIsFresh ==
  \A p \in Pushers : call[p] = "staging" => StagesFresh(staged, operations, batch[p])

LogIsCounted ==
  /\ Counted(operations, highest) /\ Gapless(operations)
  /\ writer # Nobody => /\ Counted(operations \o staged.accepted, staged.highest)
                        /\ Gapless(operations \o staged.accepted)

LInv == RInv /\ PushesAreTold /\ StagedIsFresh /\ LogIsCounted

\* The batches that the log knows of.
Told == [p \in Pushers |-> IF ack[p] = NoAnswer THEN <<>> ELSE batch[p]]

\* The engine starts as an empty log.
LEMMA LogStarts == Init => Log!Init /\ LInv
<1>. SUFFICES ASSUME Init PROVE Log!Init /\ LInv
  OBVIOUS
<1>1. Log!Init
  BY DEF Init, Log!Init, Log!NoAnswer, NoAnswer
<1>2. PushesAreTold /\ StagedIsFresh
  BY DEF Init, PushesAreTold, StagedIsFresh, Acks
<1>3. LogIsCounted
  <2>1. Len(<<>>) = 0 /\ DOMAIN <<>> = {}
    BY EmptySeq
  <2>2. \A d : OfDevice(<<>>, d, 0) = {}
    BY DEF OfDevice
  <2>3. Cardinality({}) = 0
    BY FS_EmptySet
  <2>4. Counted(<<>>, [d \in Devices |-> 0])
    BY <2>1, <2>2, <2>3, BoundsArePositive DEF Counted, Smaller
  <2>5. Gapless(<<>>)
    BY <2>1 DEF Gapless
  <2>. QED
    BY <2>4, <2>5 DEF Init, LogIsCounted
<1>. QED
  BY <1>1, <1>2, <1>3, ReplicasStartEmpty DEF LInv

\* An answer ends a push of the log.
LEMMA AnswerEnds ==
  ASSUME ack \in [Pushers -> Acks], batch \in [Pushers -> Seq(SyncOperation)],
         NEW p \in Pushers, ack[p] = NoAnswer,
         NEW a, a # NoAnswer, ack' = [ack EXCEPT ![p] = a],
         NEW b, batch' = [batch EXCEPT ![p] = b], UNCHANGED replica
  PROVE  Log!Ends(p, b)
<1>1. Told' = [Told EXCEPT ![p] = b]
  BY DEF Told
<1>. QED
  BY <1>1 DEF Log!Ends, Log!NoAnswer, NoAnswer, Told

\* A step of the log, or none, for every step of the engine.
LEMMA SubmitMaps ==
  ASSUME LInv, NEW p \in Pushers, Submit(p) PROVE [Log!Next]_(Log!vars)
<1>1. PICK b \in Batches :
        /\ batch' = [batch EXCEPT ![p] = b]
        /\ IF \A i \in DOMAIN b : Valid(b[i])
           THEN call' = [call EXCEPT ![p] = "locking"] /\ UNCHANGED ack
           ELSE Answered(p, Refusal("protocol"))
  BY DEF Submit
<1>2. /\ ack[p] = NoAnswer /\ ack \in [Pushers -> Acks] /\ batch \in [Pushers -> Seq(SyncOperation)]
      /\ UNCHANGED <<operations, replica>>
  BY DEF Submit, LInv, RInv, IInv, TypeOK, PushesAreTold, pullVars
<1>3. CASE \A i \in DOMAIN b : Valid(b[i])
  <2>1. UNCHANGED ack
    BY <1>1, <1>3
  <2>2. Told' = Told
    BY <1>1, <1>2, <2>1 DEF Told
  <2>. QED
    BY <1>2, <2>1, <2>2 DEF Log!vars, Told
<1>4. CASE ~\A i \in DOMAIN b : Valid(b[i])
  <2>1. ack' = [ack EXCEPT ![p] = Refusal("protocol")]
    BY <1>1, <1>4 DEF Answered
  <2>2. Refusal("protocol") # NoAnswer
    BY DEF Refusal, NoAnswer
  <2>3. Log!Ends(p, b)
    BY <1>1, <1>2, <2>1, <2>2, AnswerEnds
  <2>4. Log!Refuse(p, b, "protocol")
    BY <1>2, <1>4, <2>1, <2>3 DEF Log!Refuse, Refusal
  <2>. QED
    BY <2>4 DEF Log!Next
<1>. QED
  BY <1>3, <1>4

\* Waiting, staging and giving up are no steps of the log.
LEMMA WaitingStutters ==
  ASSUME NEW p \in Pushers, Abandon(p) \/ Acquire(p) \/ StageDuplicate(p) \/ StageAccept(p)
  PROVE  UNCHANGED Log!vars
BY DEF Abandon, Acquire, StageDuplicate, StageAccept, pullVars, Log!vars

\* The operation that the lock's holder looks at, and what is fresh with it.
LEMMA CurrentIsNext ==
  ASSUME LInv, NEW p \in Pushers, Staging(p)
  PROVE  /\ writer = p /\ writer # Nobody /\ batch[p] \in Batches /\ batch[p] \in Seq(ValidOperation)
         /\ Current(p) \in ValidOperation /\ staged.next \in 1..Len(batch[p])
         /\ SubSeq(batch[p], 1, staged.next) = Append(SubSeq(batch[p], 1, staged.next - 1), Current(p))
         /\ SubSeq(batch[p], 1, staged.next - 1) \in Seq(ValidOperation)
         /\ operations \in Seq(ValidOperation) /\ staged.accepted \in Seq(ValidOperation)
         /\ Sound(operations \o staged.accepted, staged.byId, staged.highest)
         /\ Counted(operations \o staged.accepted, staged.highest)
         /\ Gapless(operations \o staged.accepted)
         /\ StagesFresh(staged, operations, batch[p])
<1>1. writer = p /\ writer # Nobody /\ call[p] = "staging" /\ staged.next \in Nat \ {0}
      /\ staged.next <= Len(batch[p])
  BY NobodyPushes DEF LInv, RInv, IInv, TypeOK, LockIsHeld, Nobody, Staging
<1>2. batch[p] \in Seq(ValidOperation) /\ batch[p] \in Batches
  BY <1>1 DEF LInv, RInv, IInv, BatchesAreValid, PushesAreTold
<1>3. staged.next \in 1..Len(batch[p]) /\ Current(p) \in ValidOperation
  BY <1>1, <1>2, LenProperties, ElementOfSeq DEF Current
<1>4. SubSeq(batch[p], 1, staged.next - 1) \in Seq(ValidOperation)
  BY <1>2, <1>3, LenProperties, PrefixIsASeq
<1>5. SubSeq(batch[p], 1, staged.next) = SubSeq(batch[p], 1, staged.next - 1) \o <<Current(p)>>
  <2>1. Len(batch[p]) \in Nat /\ 1 \in 1..Len(batch[p]) /\ staged.next \in 1..Len(batch[p])
    BY <1>2, <1>3, LenProperties
  <2>. QED
    BY <1>2, <2>1, SubSeqRecursiveSecond DEF Current
<1>6. SubSeq(batch[p], 1, staged.next - 1) \o <<Current(p)>>
        = Append(SubSeq(batch[p], 1, staged.next - 1), Current(p))
  BY <1>3, <1>4, AppendIsConcat
<1>. QED
  BY <1>1, <1>2, <1>3, <1>4, <1>5, <1>6
  DEF LInv, RInv, IInv, Sound, StagedIsSound, LogIsCounted, StagedIsFresh

\* An operation that the index knows as another, or not at all, is fresh.
LEMMA CurrentIsFresh ==
  ASSUME LInv, NEW p \in Pushers, Staging(p)
  PROVE  /\ staged.byId[Current(p).id] = Current(p)
            => Log!Fresh(operations, SubSeq(batch[p], 1, staged.next)) = staged.accepted
         /\ staged.byId[Current(p).id] # Current(p)
            => Log!Fresh(operations, SubSeq(batch[p], 1, staged.next))
                 = Append(staged.accepted, Current(p))
<1>1. PICK op : op = Current(p)
  OBVIOUS
<1>2. PICK l : l = operations \o staged.accepted
  OBVIOUS
<1>3. /\ operations \in Seq(ValidOperation) /\ staged.accepted \in Seq(ValidOperation)
      /\ op \in ValidOperation /\ Sound(l, staged.byId, staged.highest)
      /\ staged.accepted = Log!Fresh(operations, SubSeq(batch[p], 1, staged.next - 1))
      /\ SubSeq(batch[p], 1, staged.next - 1) \in Seq(ValidOperation)
      /\ SubSeq(batch[p], 1, staged.next) = Append(SubSeq(batch[p], 1, staged.next - 1), op)
  BY <1>1, <1>2, CurrentIsNext DEF StagesFresh
<1>4. Range(l) = Range(operations) \cup Range(staged.accepted)
  BY <1>2, <1>3, RangeConcatenation
<1>5. Log!Fresh(operations, SubSeq(batch[p], 1, staged.next))
        = IF op \in Range(l) THEN staged.accepted ELSE Append(staged.accepted, op)
  <2>1. PICK done : done \in Seq(ValidOperation) /\ done = SubSeq(batch[p], 1, staged.next - 1)
    BY <1>3
  <2>2. Log!Fresh(operations, Append(done, op))
          = IF op \in Range(operations) \cup Range(Log!Fresh(operations, done))
            THEN Log!Fresh(operations, done) ELSE Append(Log!Fresh(operations, done), op)
    <3>1. done \in Seq(ValidOperation) /\ op \in ValidOperation
      BY <1>3, <2>1
    <3>. QED
      BY <3>1, FreshOfAppend
  <2>. QED
    BY <1>3, <1>4, <2>1, <2>2
<1>6. op.id \in Ids /\ op # NoOperation
  BY <1>3, OperationTypes, NoOperationIsNone
<1>7. op \in Range(l) <=> staged.byId[op.id] = op
  <2>1. ASSUME op \in Range(l) PROVE staged.byId[op.id] = op
    <3>1. PICK i \in DOMAIN l : l[i] = op
      BY <2>1 DEF Range
    <3>. QED
      BY <1>3, <3>1 DEF Sound, Indexed
  <2>2. ASSUME staged.byId[op.id] = op PROVE op \in Range(l)
    <3>1. PICK i \in DOMAIN l : l[i] = op
      BY <1>3, <1>6, <2>2 DEF Sound, Indexed
    <3>. QED
      BY <3>1 DEF Range
  <2>. QED
    BY <2>1, <2>2
<1>. QED
  BY <1>1, <1>5, <1>7

\* What is refused would have collided or left a gap.
LEMMA RejectMaps == ASSUME LInv, NEW p \in Pushers, Reject(p) PROVE [Log!Next]_(Log!vars)
<1>1. PICK op, b, acc : op = Current(p) /\ b = batch[p] /\ acc = staged.accepted
  OBVIOUS
<1>2. Staging(p)
  BY DEF Reject
<1>3. PICK l : l = operations \o acc
  OBVIOUS
<1>4. /\ b \in Batches /\ b \in Seq(ValidOperation) /\ op \in ValidOperation
      /\ staged.next \in 0..Len(b)
      /\ operations \in Seq(ValidOperation) /\ acc \in Seq(ValidOperation)
      /\ Sound(l, staged.byId, staged.highest) /\ Counted(l, staged.highest)
  BY <1>1, <1>2, <1>3, CurrentIsNext
<1>5. op.id \in Ids /\ op # NoOperation
  BY <1>4, OperationTypes, NoOperationIsNone
<1>6. staged.byId[op.id] # op
  BY <1>1, <1>5 DEF Reject, Known
<1>7. Log!Fresh(operations, SubSeq(b, 1, staged.next)) = Append(acc, op)
  BY <1>1, <1>2, <1>6, CurrentIsFresh
<1>8. PICK z : z \in Seq(ValidOperation) /\ Log!Fresh(operations, b) = Append(acc, op) \o z
  <2>1. Begins(ValidOperation, operations, b, staged.next)
    BY <1>4, FreshGrows
  <2>. QED
    BY <1>7, <2>1 DEF Begins
<1>9. Log!Extended(b) = Append(l, op) \o z
  <2>1. /\ operations \in Seq(ValidOperation) /\ acc \in Seq(ValidOperation)
        /\ op \in ValidOperation /\ z \in Seq(ValidOperation)
    BY <1>4, <1>8
  <2>2. /\ Append(acc, op) \in Seq(ValidOperation)
        /\ operations \o Append(acc, op) = Append(operations \o acc, op)
    BY <2>1, AppendToConcat
  <2>3. PICK s : s \in Seq(ValidOperation) /\ s = Append(acc, op)
    BY <2>2
  <2>4. (operations \o s) \o z = operations \o (s \o z)
    <3>1. operations \in Seq(ValidOperation) /\ s \in Seq(ValidOperation) /\ z \in Seq(ValidOperation)
      BY <2>1, <2>3
    <3>. QED
      BY <3>1, Regrouped
  <2>. QED
    BY <1>3, <1>8, <2>2, <2>3, <2>4 DEF Log!Extended
<1>10. \/ Answered(p, Refusal("collision")) /\ staged.byId[op.id] # NoOperation
       \/ Answered(p, Refusal("sequence")) /\ op.seq # SaturatingInc(staged.highest[op.device])
  BY <1>1 DEF Reject, Known
<1>11. /\ ack[p] = NoAnswer /\ ack \in [Pushers -> Acks] /\ batch \in [Pushers -> Seq(SyncOperation)]
       /\ UNCHANGED <<operations, replica>> /\ batch' = [batch EXCEPT ![p] = b]
  BY <1>1, <1>2 DEF Staging, Reject, LInv, RInv, IInv, TypeOK, PushesAreTold, pullVars
<1>12. ASSUME NEW e \in Errors, Answered(p, Refusal(e))
       PROVE  Log!Ends(p, b) /\ ack' = [ack EXCEPT ![p] = [kind |-> "refused", error |-> e]]
  <2>1. Refusal(e) # NoAnswer /\ ack' = [ack EXCEPT ![p] = Refusal(e)]
    BY <1>12 DEF Refusal, NoAnswer, Answered
  <2>2. Log!Ends(p, b)
    BY <1>11, <2>1, AnswerEnds
  <2>. QED
    BY <2>1, <2>2 DEF Refusal
<1>13. CASE Answered(p, Refusal("collision")) /\ staged.byId[op.id] # NoOperation
  <2>1. PICK i \in DOMAIN l : l[i].id = op.id /\ l[i] # op
    BY <1>4, <1>5, <1>6, <1>13 DEF Sound, Indexed
  <2>2. PICK m : m = Append(l, op)
    OBVIOUS
  <2>3. PICK n : n = m \o z
    OBVIOUS
  <2>4. /\ i \in 1..Len(l) /\ Len(l) \in Nat /\ m \in Seq(ValidOperation) /\ Len(m) = Len(l) + 1
        /\ m[i] = l[i] /\ m[Len(l) + 1] = op
    <3>1. l \in Seq(ValidOperation)
      BY <1>4 DEF Sound
    <3>. QED
      BY <1>4, <2>2, <3>1, AppendProperties, LenProperties
  <2>5. /\ i \in DOMAIN n /\ Len(l) + 1 \in DOMAIN n /\ n[i] = l[i] /\ n[Len(l) + 1] = op
    <3>1. /\ Len(z) \in Nat /\ n \in Seq(ValidOperation) /\ Len(n) = Len(m) + Len(z)
          /\ \A j \in 1..Len(m) : n[j] = m[j]
      <4>1. z \in Seq(ValidOperation) /\ m \in Seq(ValidOperation)
        BY <1>8, <2>4
      <4>. QED
        BY <2>3, <4>1, ConcatProperties, LenProperties
    <3>2. DOMAIN n = 1..Len(n)
      BY <3>1, LenProperties
    <3>. QED
      BY <2>4, <3>1, <3>2
  <2>6. Log!Collides(Log!Extended(b))
    BY <1>9, <2>1, <2>2, <2>3, <2>5 DEF Log!Collides
  <2>7. Log!Refuse(p, b, "collision")
    BY <1>11, <1>12, <1>13, <2>6 DEF Log!Refuse, Errors
  <2>. QED
    BY <1>4, <2>7 DEF Log!Next
<1>14. CASE Answered(p, Refusal("sequence")) /\ op.seq # SaturatingInc(staged.highest[op.device])
  <2>1. Log!Skips(Log!Extended(b))
    BY <1>4, <1>8, <1>9, <1>14, WrongNumberSkips, GaplessIsNoSkip
  <2>2. Log!Refuse(p, b, "sequence")
    BY <1>11, <1>12, <1>14, <2>1 DEF Log!Refuse, Errors
  <2>. QED
    BY <1>4, <2>2 DEF Log!Next
<1>. QED
  BY <1>10, <1>13, <1>14

\* What is committed is what is fresh of the whole batch.
LEMMA CommitMaps == ASSUME LInv, NEW p \in Pushers, Commit(p) PROVE [Log!Next]_(Log!vars)
<1>1. PICK b, acc : b = batch[p] /\ acc = staged.accepted
  OBVIOUS
<1>2. /\ call[p] = "staging" /\ writer = p /\ writer # Nobody /\ staged.next > Len(b)
      /\ staged.next \in Nat \ {0}
  BY <1>1, NobodyPushes DEF Commit, LInv, RInv, IInv, TypeOK, LockIsHeld, Nobody
<1>3. b \in Batches /\ b \in Seq(ValidOperation)
  BY <1>1, <1>2 DEF LInv, RInv, IInv, BatchesAreValid, PushesAreTold
<1>4. /\ Sound(operations \o acc, staged.byId, staged.highest)
      /\ Gapless(operations \o acc)
      /\ StagesFresh(staged, operations, b)
      /\ acc \in Seq(ValidOperation)
  BY <1>1, <1>2 DEF LInv, RInv, IInv, StagedIsSound, LogIsCounted, StagedIsFresh
<1>5. Len(b) \in Nat /\ staged.next - 1 = Len(b)
  BY <1>2, <1>3, <1>4, LenProperties DEF StagesFresh
<1>6. SubSeq(b, 1, staged.next - 1) = b
  BY <1>3, <1>5, SubSeqFull
<1>7. acc = Log!Fresh(operations, b) /\ staged.duplicates = Len(b) - Len(acc)
  BY <1>1, <1>4, <1>5, <1>6 DEF StagesFresh
<1>8. Log!Extended(b) = operations \o acc
  BY <1>7 DEF Log!Extended
<1>9. \A i \in DOMAIN b : Valid(b[i])
  BY <1>3, LenProperties, ElementOfSeq DEF ValidOperation
<1>10. ~Log!Collides(operations \o acc)
  BY <1>4 DEF Log!Collides, Sound, Indexed
<1>11. ~Log!Skips(operations \o acc)
  BY <1>4, GaplessIsNoSkip
<1>12. /\ ack[p] = NoAnswer /\ ack \in [Pushers -> Acks] /\ batch \in [Pushers -> Seq(SyncOperation)]
       /\ batch' = [batch EXCEPT ![p] = b] /\ UNCHANGED replica
       /\ operations' = operations \o acc
       /\ ack' = [ack EXCEPT ![p] = Ack(Len(acc), staged.duplicates)]
  BY <1>1, <1>2 DEF Commit, Answered, LInv, RInv, IInv, TypeOK, PushesAreTold, pullVars
<1>13. Ack(Len(acc), staged.duplicates) # NoAnswer
  BY DEF Ack, NoAnswer
<1>14. Log!Ends(p, b)
  BY <1>12, <1>13, AnswerEnds
<1>15. Log!TakeOver(p, b)
  BY <1>7, <1>8, <1>9, <1>10, <1>11, <1>12, <1>14 DEF Log!TakeOver, Ack
<1>. QED
  BY <1>3, <1>15 DEF Log!Next

\* What lies beyond a replica's cursor is what its copy does not have.
LEMMA BeyondIsMissing ==
  ASSUME NEW log \in Seq(ValidOperation), NEW copy \in Seq(ValidOperation),
         NEW c \in Numbers, Copied(copy, log, c)
  PROVE  Among(log, Range(log) \ Range(copy)) = Among(log, Beyond(c))
<1>1. ASSUME NEW x \in Range(log) PROVE x \in Beyond(c) <=> x \notin Range(copy)
  <2>1. x \in ValidOperation /\ x \in SyncOperation /\ x.device \in Devices /\ x.seq \in Nat
    BY RangeOfSeq, OperationTypes
  <2>2. Among(copy, Own(x.device)) = Among(log, Upto(x.device, c[x.device]))
    BY <2>1 DEF Copied
  <2>3. Range(Among(copy, Own(x.device))) = Range(copy) \cap Own(x.device)
    BY AmongType
  <2>4. Range(Among(log, Upto(x.device, c[x.device]))) = Range(log) \cap Upto(x.device, c[x.device])
    BY AmongType
  <2>5. x \in Own(x.device)
    BY <2>1 DEF Own
  <2>6. x \in Range(copy) <=> x \in Upto(x.device, c[x.device])
    BY <2>2, <2>3, <2>4, <2>5
  <2>7. x \in Upto(x.device, c[x.device]) <=> x.seq <= c[x.device]
    BY <2>1 DEF Upto
  <2>8. x \in Beyond(c) <=> x.seq > c[x.device]
    BY <2>1 DEF Beyond, Unseen
  <2>9. c[x.device] \in Nat
    BY <2>1, BoundsArePositive DEF Numbers
  <2>. QED
    BY <2>1, <2>6, <2>7, <2>8, <2>9
<1>2. Range(log) \cap (Range(log) \ Range(copy)) = Range(log) \cap Beyond(c)
  BY <1>1
<1>. QED
  BY <1>2, AmongAgree

\* A replica follows the log, or takes over nothing.
LEMMA DeliverMaps == ASSUME LInv, NEW r \in Replicas, Deliver(r) PROVE [Log!Next]_(Log!vars)
<1>1. PICK ops, next : ops = answer[r].operations /\ next = answer[r].cursor
  OBVIOUS
<1>2. /\ replica' = [replica EXCEPT ![r] = replica[r] \o ops]
      /\ UNCHANGED <<operations, batch, ack>>
  BY <1>1 DEF Deliver, pushVars
<1>3. /\ operations \in Seq(ValidOperation) /\ replica \in [Replicas -> Seq(ValidOperation)]
      /\ Copied(replica[r], operations, cursor[r])
      /\ Travels(ops, next, operations, cursor[r], highest)
      /\ cursor[r] \in Numbers
  BY <1>1 DEF Deliver, LInv, RInv, IInv, Sound, ReplicasStand, Stands
<1>4. PICK z : /\ ops \in Seq(ValidOperation) /\ z \in Seq(ValidOperation)
               /\ Among(operations, Beyond(cursor[r])) = ops \o z
  BY <1>3 DEF Travels
<1>5. Among(operations, Range(operations) \ Range(replica[r])) = ops \o z
  BY <1>3, <1>4, BeyondIsMissing
<1>6. CASE Len(ops) = 0
  <2>1. ops = <<>>
    BY <1>4, <1>6, EmptySeq
  <2>2. replica[r] \o ops = replica[r]
    BY <1>3, <2>1, ConcatEmptySeq
  <2>3. replica' = replica
    BY <1>2, <1>3, <2>2
  <2>. QED
    BY <1>2, <2>3 DEF Log!vars
<1>7. CASE Len(ops) # 0
  <2>1. Len(ops) \in Nat /\ Len(z) \in Nat /\ Len(ops \o z) = Len(ops) + Len(z)
    BY <1>4, ConcatProperties, LenProperties
  <2>2. Len(ops) \in 1..Len(ops \o z) /\ 1 \in 1..Len(ops) /\ Len(ops) \in 1..Len(ops)
    BY <1>7, <2>1
  <2>3. SubSeq(ops \o z, 1, Len(ops)) = ops
    <3>1. SubSeq(ops \o z, 1, Len(ops)) = SubSeq(ops, 1, Len(ops))
      BY <1>4, <2>2, SubSeqOfConcat1
    <3>. QED
      BY <1>4, <3>1, SubSeqFull
  <2>4. PICK rest : rest = Among(operations, Range(operations) \ Range(replica[r]))
    OBVIOUS
  <2>5. rest = Log!Among(operations, Log!Range(operations) \ Log!Range(replica[r]))
    BY <2>4 DEF Log!Among, Among, Log!Range, Range
  <2>6. \E n \in 1..Len(rest) : replica' = [replica EXCEPT ![r] = replica[r] \o SubSeq(rest, 1, n)]
    BY <1>2, <1>5, <2>2, <2>3, <2>4
  <2>7. Log!Follow(r)
    BY <1>2, <2>5, <2>6 DEF Log!Follow
  <2>. QED
    BY <2>7 DEF Log!Next
<1>. QED
  BY <1>4, <1>6, <1>7, LenProperties

\* Every step of the engine is one of the log, or none.
LEMMA StepsMap == ASSUME LInv, [Next]_vars PROVE [Log!Next]_(Log!vars)
<1>1. ASSUME NEW p \in Pushers, PushStep(p) PROVE [Log!Next]_(Log!vars)
  BY <1>1, SubmitMaps, WaitingStutters, RejectMaps, CommitMaps DEF PushStep
<1>2. ASSUME NEW r \in Replicas, PullStep(r) PROVE [Log!Next]_(Log!vars)
  <2>1. CASE Deliver(r)
    BY <2>1, DeliverMaps
  <2>2. CASE Lose(r) \/ \E limit \in Limits : Pull(r, limit)
    BY <2>2 DEF Lose, Pull, pushVars, Log!vars
  <2>. QED
    BY <1>2, <2>1, <2>2 DEF PullStep
<1>3. CASE UNCHANGED vars
  BY <1>3 DEF vars, pushVars, pullVars, Log!vars
<1>. QED
  BY <1>1, <1>2, <1>3 DEF Next

----------------------------------------------------------------------------
\* A push is told when it is through.
LEMMA TellingKeeps == ASSUME LInv, [Next]_vars PROVE PushesAreTold'
<1>0. /\ call \in [Pushers -> {"idle", "locking", "staging", "answered", "abandoned"}]
      /\ batch \in [Pushers -> Seq(SyncOperation)] /\ PushesAreTold
  BY DEF LInv, RInv, IInv, TypeOK
<1>1. CASE UNCHANGED <<call, batch, ack>>
  BY <1>0, <1>1 DEF PushesAreTold
<1>2. ASSUME NEW p \in Pushers, call[p] # "idle", UNCHANGED <<batch, ack>>, NEW s,
             s \notin {"idle", "answered"}, call[p] # "answered", call' = [call EXCEPT ![p] = s]
      PROVE  PushesAreTold'
  BY <1>0, <1>2 DEF PushesAreTold
<1>3. ASSUME NEW p \in Pushers, call[p] # "idle", UNCHANGED batch, NEW a \in Acks \ {NoAnswer},
             Answered(p, a)
      PROVE  PushesAreTold'
  BY <1>0, <1>3 DEF PushesAreTold, Answered
<1>4. ASSUME NEW p \in Pushers, Submit(p) PROVE PushesAreTold'
  <2>1. PICK b \in Batches :
        /\ batch' = [batch EXCEPT ![p] = b]
        /\ IF \A i \in DOMAIN b : Valid(b[i])
           THEN call' = [call EXCEPT ![p] = "locking"] /\ UNCHANGED ack
           ELSE Answered(p, Refusal("protocol"))
    BY <1>4 DEF Submit
  <2>2. call[p] = "idle"
    BY <1>4 DEF Submit
  <2>3. Refusal("protocol") \in Acks /\ Refusal("protocol") # NoAnswer
    BY DEF Refusal, Acks, Errors, NoAnswer
  <2>4. CASE call' = [call EXCEPT ![p] = "locking"] /\ UNCHANGED ack
    BY <1>0, <2>1, <2>2, <2>4 DEF PushesAreTold
  <2>5. CASE Answered(p, Refusal("protocol"))
    BY <1>0, <2>1, <2>2, <2>3, <2>5 DEF PushesAreTold, Answered
  <2>. QED
    BY <2>1, <2>4, <2>5
<1>5. ASSUME NEW p \in Pushers, Abandon(p) PROVE PushesAreTold'
  BY <1>2, <1>5 DEF Abandon
<1>6. ASSUME NEW p \in Pushers, Acquire(p) PROVE PushesAreTold'
  BY <1>2, <1>6 DEF Acquire
<1>7. ASSUME NEW p \in Pushers, StageDuplicate(p) \/ StageAccept(p) PROVE PushesAreTold'
  BY <1>1, <1>7 DEF StageDuplicate, StageAccept
<1>8. ASSUME NEW p \in Pushers, Reject(p) PROVE PushesAreTold'
  <2>1. \A e \in Errors : Refusal(e) \in Acks \ {NoAnswer}
    BY DEF Refusal, Acks, NoAnswer
  <2>2. \E e \in Errors : Answered(p, Refusal(e))
    BY <1>8 DEF Reject, Errors
  <2>. QED
    BY <1>3, <1>8, <2>1, <2>2 DEF Reject, Staging
<1>9. ASSUME NEW p \in Pushers, Commit(p) PROVE PushesAreTold'
  <2>1. Len(staged.accepted) \in Nat /\ staged.duplicates \in Nat
    BY LenProperties DEF LInv, RInv, IInv, TypeOK
  <2>2. Ack(Len(staged.accepted), staged.duplicates) \in Acks \ {NoAnswer}
    BY <2>1 DEF Ack, Acks, NoAnswer
  <2>. QED
    BY <1>3, <1>9, <2>2 DEF Commit
<1>10. ASSUME NEW r \in Replicas, PullStep(r) PROVE PushesAreTold'
  BY <1>1, <1>10 DEF PullStep, Pull, Deliver, Lose, pushVars
<1>11. CASE UNCHANGED vars
  BY <1>1, <1>11 DEF vars, pushVars
<1>. QED
  BY <1>4, <1>5, <1>6, <1>7, <1>8, <1>9, <1>10, <1>11 DEF Next, PushStep

\* A push begins with nothing staged, and stages as its loop goes on.
LEMMA StagingIsFresh ==
  ASSUME LInv, NEW p \in Pushers, Acquire(p) \/ StageDuplicate(p) \/ StageAccept(p)
  PROVE  StagedIsFresh' /\ LogIsCounted'
<1>1. CASE Acquire(p)
  <2>1. /\ staged' = [byId |-> byId, highest |-> highest, accepted |-> <<>>, duplicates |-> 0, next |-> 1]
        /\ writer = Nobody /\ call' = [call EXCEPT ![p] = "staging"] /\ call[p] = "locking"
        /\ UNCHANGED <<operations, highest, batch>>
    BY <1>1 DEF Acquire
  <2>2. \A q \in Pushers : call'[q] = "staging" => q = p
    BY <2>1, NobodyPushes DEF LInv, RInv, IInv, TypeOK, LockIsHeld, Nobody
  <2>3. StagesFresh(staged', operations', batch'[p])
    <3>1. batch[p] \in Seq(ValidOperation) /\ Len(batch[p]) \in Nat
      BY <2>1, LenProperties DEF LInv, RInv, IInv, BatchesAreValid
    <3>2. SubSeq(batch[p], 1, 0) = <<>> /\ Len(<<>>) = 0
      BY <3>1, SubSeqEmpty, EmptySeq
    <3>3. PICK s : s = staged'
      OBVIOUS
    <3>4. s.next - 1 = 0 /\ s.accepted = <<>> /\ s.duplicates = 0
      BY <2>1, <3>3
    <3>5. Log!Fresh(operations, SubSeq(batch[p], 1, s.next - 1)) = <<>>
      BY <3>2, <3>4, FreshOfEmpty
    <3>6. StagesFresh(s, operations, batch[p])
      BY <3>1, <3>2, <3>4, <3>5 DEF StagesFresh
    <3>. QED
      BY <2>1, <3>3, <3>6
  <2>4. operations \o <<>> = operations
    BY ConcatEmptySeq DEF LInv, RInv, IInv, Sound
  <2>5. LogIsCounted'
    BY <2>1, <2>4 DEF LInv, LogIsCounted
  <2>. QED
    BY <2>2, <2>3, <2>5 DEF StagedIsFresh
<1>2. ASSUME Staging(p), UNCHANGED <<operations, highest, writer, call, batch>>,
             StagesFresh(staged', operations, batch[p]),
             Counted(operations \o staged'.accepted, staged'.highest),
             Gapless(operations \o staged'.accepted)
      PROVE  StagedIsFresh' /\ LogIsCounted'
  <2>1. \A q \in Pushers : call[q] = "staging" => q = p
    BY <1>2, NobodyPushes DEF LInv, RInv, IInv, TypeOK, LockIsHeld, Nobody, Staging
  <2>2. StagedIsFresh'
    BY <1>2, <2>1 DEF StagedIsFresh
  <2>. QED
    BY <1>2, <2>2 DEF LInv, LogIsCounted
<1>3. CASE StageDuplicate(p)
  <2>1. Staging(p) /\ staged.byId[Current(p).id] = Current(p)
        /\ UNCHANGED <<operations, highest, writer, call, batch>>
    BY <1>3 DEF StageDuplicate
  <2>2. /\ staged'.accepted = staged.accepted /\ staged'.highest = staged.highest
        /\ staged'.duplicates = staged.duplicates + 1 /\ staged'.next = staged.next + 1
    BY <1>3 DEF StageDuplicate, LInv, RInv, IInv, TypeOK
  <2>3. /\ Counted(operations \o staged.accepted, staged.highest) /\ Gapless(operations \o staged.accepted)
        /\ StagesFresh(staged, operations, batch[p]) /\ staged.next \in 1..Len(batch[p])
        /\ Len(batch[p]) \in Nat /\ Len(staged.accepted) \in Nat
    BY <2>1, CurrentIsNext, LenProperties
  <2>4. Log!Fresh(operations, SubSeq(batch[p], 1, staged.next)) = staged.accepted
    BY <2>1, CurrentIsFresh
  <2>5. StagesFresh(staged', operations, batch[p])
    BY <2>2, <2>3, <2>4 DEF StagesFresh
  <2>. QED
    BY <1>2, <2>1, <2>2, <2>3, <2>5
<1>4. CASE StageAccept(p)
  <2>1. PICK op, acc : op = Current(p) /\ acc = staged.accepted
    OBVIOUS
  <2>2. /\ Staging(p) /\ staged.byId[op.id] = NoOperation
        /\ op.seq = SaturatingInc(staged.highest[op.device])
        /\ UNCHANGED <<operations, highest, writer, call, batch>>
    BY <1>4, <2>1 DEF StageAccept, Known
  <2>3. /\ staged'.accepted = Append(acc, op)
        /\ staged'.highest = [staged.highest EXCEPT ![op.device] = op.seq]
        /\ staged'.duplicates = staged.duplicates /\ staged'.next = staged.next + 1
    BY <1>4, <2>1 DEF StageAccept, LInv, RInv, IInv, TypeOK
  <2>4. /\ Sound(operations \o acc, staged.byId, staged.highest)
        /\ Counted(operations \o acc, staged.highest) /\ Gapless(operations \o acc)
        /\ StagesFresh(staged, operations, batch[p]) /\ staged.next \in 1..Len(batch[p])
        /\ Len(batch[p]) \in Nat
        /\ operations \in Seq(ValidOperation) /\ acc \in Seq(ValidOperation) /\ op \in ValidOperation
    BY <2>1, <2>2, CurrentIsNext, LenProperties
  <2>5. op # NoOperation
    BY <2>4, OperationTypes, NoOperationIsNone
  <2>6. Log!Fresh(operations, SubSeq(batch[p], 1, staged.next)) = Append(acc, op)
    BY <2>1, <2>2, <2>5, CurrentIsFresh
  <2>7. Len(Append(acc, op)) = Len(acc) + 1 /\ Len(acc) \in Nat
    BY <2>4, AppendProperties, LenProperties
  <2>8. StagesFresh(staged', operations, batch[p])
    BY <2>1, <2>3, <2>4, <2>6, <2>7 DEF StagesFresh
  <2>9. operations \o Append(acc, op) = Append(operations \o acc, op)
    BY <2>4, AppendToConcat
  <2>10. /\ Counted(operations \o staged'.accepted, staged'.highest)
         /\ Gapless(operations \o staged'.accepted)
    BY <2>2, <2>3, <2>4, <2>9, ExtensionIsCounted
  <2>. QED
    BY <1>2, <2>2, <2>8, <2>10
<1>. QED
  BY <1>1, <1>3, <1>4

\* Nothing is staged when nobody holds the lock.
LEMMA ReleasingIsFresh ==
  ASSUME LInv, NEW p \in Pushers, Reject(p) \/ Commit(p)
  PROVE  StagedIsFresh' /\ LogIsCounted'
<1>1. writer = p /\ writer # Nobody /\ call[p] = "staging"
  BY NobodyPushes DEF LInv, RInv, IInv, LockIsHeld, Nobody, Reject, Commit, Staging
<1>2. writer' = Nobody /\ call' = [call EXCEPT ![p] = "answered"]
  BY DEF Reject, Commit, Release, Answered
<1>3. \A q \in Pushers : call'[q] # "staging"
  BY <1>1, <1>2 DEF LInv, RInv, IInv, TypeOK, LockIsHeld
<1>4. StagedIsFresh'
  BY <1>3 DEF StagedIsFresh
<1>5. Counted(operations', highest') /\ Gapless(operations')
  BY <1>1 DEF Reject, Commit, LInv, LogIsCounted
<1>. QED
  BY <1>2, <1>4, <1>5 DEF LogIsCounted

\* Whoever does not stage leaves what is staged, and the log, alone.
LEMMA WaitingIsFresh ==
  ASSUME LInv, \/ \E p \in Pushers : Submit(p) \/ Abandon(p)
               \/ \E r \in Replicas : PullStep(r)
               \/ UNCHANGED vars
  PROVE  StagedIsFresh' /\ LogIsCounted'
<1>1. UNCHANGED <<operations, highest, writer, staged>>
  BY DEF Submit, Abandon, PullStep, Pull, Deliver, Lose, vars, pushVars
<1>2. \A q \in Pushers : call'[q] = "staging" => call[q] = "staging" /\ batch'[q] = batch[q]
  <2>1. CASE UNCHANGED <<call, batch>>
    BY <2>1
  <2>2. ASSUME NEW p \in Pushers, Submit(p)
        PROVE  \A q \in Pushers : call'[q] = "staging" => call[q] = "staging" /\ batch'[q] = batch[q]
    BY <2>2 DEF Submit, Answered, LInv, RInv, IInv, TypeOK
  <2>3. ASSUME NEW p \in Pushers, Abandon(p)
        PROVE  \A q \in Pushers : call'[q] = "staging" => call[q] = "staging" /\ batch'[q] = batch[q]
    BY <2>3 DEF Abandon, LInv, RInv, IInv, TypeOK
  <2>. QED
    BY <2>1, <2>2, <2>3 DEF PullStep, Pull, Deliver, Lose, vars, pushVars
<1>3. StagedIsFresh'
  BY <1>1, <1>2 DEF LInv, StagedIsFresh
<1>. QED
  BY <1>1, <1>3 DEF LInv, LogIsCounted

\* The invariant of the refinement is inductive.
LEMMA LogInvariantKeeps == ASSUME LastNumberOnce, LInv, [Next]_vars PROVE LInv'
<1>1. RInv'
  BY StandingKeeps DEF LInv
<1>2. StagedIsFresh' /\ LogIsCounted'
  BY StagingIsFresh, ReleasingIsFresh, WaitingIsFresh DEF Next, PushStep
<1>. QED
  BY <1>1, <1>2, TellingKeeps DEF LInv

\* The engine is one log: every push takes effect at one instant, whole or not at all,
\* and is told so, and replicas only take over what follows in the log, while no device
\* numbers two operations u64::MAX (push_batch, pull_after).
THEOREM EngineImplementsLog == LastNumberOnce => (Spec => ImplementsLog)
<1>. SUFFICES ASSUME LastNumberOnce PROVE Spec => ImplementsLog
  OBVIOUS
<1>1. Init => Log!Init /\ LInv
  BY LogStarts
<1>2. LInv /\ [Next]_vars => LInv'
  BY LogInvariantKeeps
<1>3. LInv /\ [Next]_vars => [Log!Next]_(Log!vars)
  BY StepsMap
<1>. QED
  BY <1>1, <1>2, <1>3, PTL DEF Spec, ImplementsLog, Log!Spec
=============================================================================
