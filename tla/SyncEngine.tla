----------------------------- MODULE SyncEngine -----------------------------
(***************************************************************************)
(* The replication engine of crates/sync-engine: pushers append batches of  *)
(* operations under the write lock, replicas pull what lies after their     *)
(* cursor under the read lock.  Callers may give up, and answers to a pull  *)
(* may be lost, in which case the replica asks again from its old cursor.   *)
(***************************************************************************)
EXTENDS Subsequences

CONSTANTS Pushers,      \* calls of push_batch
          Replicas,     \* callers of pull_after, each with a cursor
          Devices,      \* DeviceId
          Ids,          \* OperationId
          Bodies,       \* entity and payload, which the engine only compares
          NoOperation,  \* a missing entry of operations_by_id
          Batches,      \* the batches that are pushed
          Limits,       \* the limits that replicas pull with
          MaxU64        \* u64::MAX

VARIABLES
  operations,   \* the log
  byId,         \* operations_by_id
  highest,      \* highest_sequence, 0 for a device without operations
  writer,       \* who holds the write lock
  staged,       \* the copies that the lock's holder works on
  call,         \* call[p]: where push p is
  batch,        \* batch[p]: the operations p pushes
  ack,          \* ack[p]: the answer to p
  cursor,       \* cursor[r]: the SyncCursor that replica r keeps
  answer,       \* answer[r]: the PullBatch on its way to r
  replica       \* replica[r]: the operations that r took over, in order

pushVars == <<operations, byId, highest, writer, staged, call, batch, ack>>
pullVars == <<cursor, answer, replica>>
vars == <<pushVars, pullVars>>

SyncOperation ==
  [schema : {"current", "other"}, id : Ids, device : Devices, seq : 0..MaxU64, body : Bodies]

ASSUME BoundsArePositive   == MaxU64 \in Nat \ {0}
ASSUME NoOperationIsNone   == NoOperation \notin SyncOperation
ASSUME BatchesAreSequences == Batches \subseteq Seq(SyncOperation)
ASSUME LimitsAreCounts     == Limits \subseteq Nat
ASSUME NobodyPushes        == "nobody" \notin Pushers

Nobody   == "nobody"
NoAnswer == [kind |-> "none"]
Ack(accepted, duplicates) == [kind |-> "ack", accepted |-> accepted, duplicates |-> duplicates]
Refusal(error)            == [kind |-> "refused", error |-> error]

\* SyncOperation::validate
Valid(op) == op.schema = "current" /\ op.seq # 0

SaturatingInc(n) == IF n = MaxU64 THEN n ELSE n + 1

NothingStaged ==
  [byId |-> [i \in Ids |-> NoOperation], highest |-> [d \in Devices |-> 0],
   accepted |-> <<>>, duplicates |-> 0, next |-> 1]

Init ==
  /\ operations = <<>>
  /\ byId = [i \in Ids |-> NoOperation]
  /\ highest = [d \in Devices |-> 0]
  /\ writer = Nobody
  /\ staged = NothingStaged
  /\ call = [p \in Pushers |-> "idle"]
  /\ batch = [p \in Pushers |-> <<>>]
  /\ ack = [p \in Pushers |-> NoAnswer]
  /\ cursor = [r \in Replicas |-> [d \in Devices |-> 0]]
  /\ answer = [r \in Replicas |-> NoAnswer]
  /\ replica = [r \in Replicas |-> <<>>]

----------------------------------------------------------------------------
(* push_batch                                                              *)

Answered(p, a) ==
  /\ call' = [call EXCEPT ![p] = "answered"]
  /\ ack' = [ack EXCEPT ![p] = a]

\* Mutant: nothing is validated.
SubmitUnchecked(p) ==
  /\ call[p] = "idle"
  /\ \E b \in Batches : batch' = [batch EXCEPT ![p] = b]
  /\ call' = [call EXCEPT ![p] = "locking"]
  /\ UNCHANGED <<operations, byId, highest, writer, staged, ack, pullVars>>

\* The whole batch is validated before the lock is asked for.
Submit(p) ==
  /\ call[p] = "idle"
  /\ \E b \in Batches :
       /\ batch' = [batch EXCEPT ![p] = b]
       /\ IF \A i \in DOMAIN b : Valid(b[i])
          THEN call' = [call EXCEPT ![p] = "locking"] /\ UNCHANGED ack
          ELSE Answered(p, Refusal("protocol"))
  /\ UNCHANGED <<operations, byId, highest, writer, staged, pullVars>>

\* The caller drops the future where it awaits the lock.
Abandon(p) ==
  /\ call[p] = "locking"
  /\ call' = [call EXCEPT ![p] = "abandoned"]
  /\ UNCHANGED <<operations, byId, highest, writer, staged, batch, ack, pullVars>>

Acquire(p) ==
  /\ call[p] = "locking"
  /\ writer = Nobody
  /\ writer' = p
  /\ staged' = [byId |-> byId, highest |-> highest, accepted |-> <<>>, duplicates |-> 0, next |-> 1]
  /\ call' = [call EXCEPT ![p] = "staging"]
  /\ UNCHANGED <<operations, byId, highest, batch, ack, pullVars>>

\* The operation that the loop looks at.
Staging(p) == call[p] = "staging" /\ staged.next <= Len(batch[p])
Current(p) == batch[p][staged.next]

\* Mutant: the index is read as it was before the batch.
KnownBefore(op) == byId[op.id] # NoOperation
Known(op)  == staged.byId[op.id] # NoOperation

StageDuplicate(p) ==
  /\ Staging(p)
  /\ staged.byId[Current(p).id] = Current(p)
  /\ staged' = [staged EXCEPT !.duplicates = @ + 1, !.next = @ + 1]
  /\ UNCHANGED <<operations, byId, highest, writer, call, batch, ack, pullVars>>

\* Mutant: the sequence number is not compared.
AcceptAnySequence(p) ==
  /\ Staging(p)
  /\ ~Known(Current(p))
  /\ LET op == Current(p)
     IN  staged' = [staged EXCEPT !.highest[op.device] = op.seq, !.byId[op.id] = op,
                                  !.accepted = Append(@, op), !.next = @ + 1]
  /\ UNCHANGED <<operations, byId, highest, writer, call, batch, ack, pullVars>>

StageAccept(p) ==
  /\ Staging(p)
  /\ ~Known(Current(p))
  /\ LET op == Current(p)
     IN  /\ op.seq = SaturatingInc(staged.highest[op.device])
         /\ staged' = [staged EXCEPT !.highest[op.device] = op.seq, !.byId[op.id] = op,
                                     !.accepted = Append(@, op), !.next = @ + 1]
  /\ UNCHANGED <<operations, byId, highest, writer, call, batch, ack, pullVars>>

\* An early return drops the copies and releases the lock.
Release == writer' = Nobody /\ staged' = NothingStaged

\* Mutant: the operations before the refused one stay.
RejectKeepsPrefix(p) ==
  /\ Staging(p)
  /\ ~Known(Current(p)) /\ Current(p).seq # SaturatingInc(staged.highest[Current(p).device])
  /\ Answered(p, Refusal("sequence"))
  /\ operations' = operations \o staged.accepted
  /\ byId' = staged.byId /\ highest' = staged.highest
  /\ Release
  /\ UNCHANGED <<batch, pullVars>>

Reject(p) ==
  /\ Staging(p)
  /\ LET op == Current(p)
     IN  \/ /\ Known(op) /\ staged.byId[op.id] # op
            /\ Answered(p, Refusal("collision"))
         \/ /\ ~Known(op) /\ op.seq # SaturatingInc(staged.highest[op.device])
            /\ Answered(p, Refusal("sequence"))
  /\ Release
  /\ UNCHANGED <<operations, byId, highest, batch, pullVars>>

Commit(p) ==
  /\ call[p] = "staging"
  /\ staged.next > Len(batch[p])
  /\ byId' = staged.byId
  /\ highest' = staged.highest
  /\ operations' = operations \o staged.accepted
  /\ Answered(p, Ack(Len(staged.accepted), staged.duplicates))
  /\ Release
  /\ UNCHANGED <<batch, pullVars>>

----------------------------------------------------------------------------
(* pull_after, and the replica that calls it                               *)

Smaller(a, b) == IF a < b THEN a ELSE b
Larger(a, b)  == IF a < b THEN b ELSE a

Take(s, n) == SubSeq(s, 1, Smaller(n, Len(s)))

\* advance for every operation of a batch, whatever its order: per device the maximum
Advance(c, ops) ==
  [d \in Devices |->
     LET seqs == {c[d]} \cup {ops[i].seq : i \in {j \in DOMAIN ops : ops[j].device = d}}
     IN  CHOOSE m \in seqs : \A n \in seqs : Larger(m, n) = m]

\* Mutants: the cursor's own operation comes again; one cursor for all devices.
UnseenOrLast(c, op) == op.seq >= c[op.device]
UnseenByAll(c, op)  == \A d \in Devices : op.seq > c[d]
Unseen(c, op) == op.seq > c[op.device]

\* A limit of zero is refused before the lock is asked for.  The read lock is
\* shared, so a pull only waits for a writer.
Pull(r, limit) ==
  /\ answer[r] = NoAnswer
  /\ limit # 0 => writer = Nobody
  /\ LET after == {op \in SyncOperation : Unseen(cursor[r], op)}
         ops   == Take(Among(operations, after), limit)
     IN  answer' = [answer EXCEPT ![r] =
           IF limit = 0 THEN Refusal("zero_limit")
           ELSE [kind |-> "batch", operations |-> ops, cursor |-> Advance(cursor[r], ops)]]
  /\ UNCHANGED <<pushVars, cursor, replica>>

\* The replica keeps operations and cursor together.
Deliver(r) ==
  /\ answer[r].kind = "batch"
  /\ replica' = [replica EXCEPT ![r] = @ \o answer[r].operations]
  /\ cursor' = [cursor EXCEPT ![r] = answer[r].cursor]
  /\ answer' = [answer EXCEPT ![r] = NoAnswer]
  /\ UNCHANGED pushVars

Lose(r) ==
  /\ answer[r] # NoAnswer
  /\ answer' = [answer EXCEPT ![r] = NoAnswer]
  /\ UNCHANGED <<pushVars, cursor, replica>>

PushStep(p) ==
  \/ Submit(p) \/ Abandon(p) \/ Acquire(p) \/ StageDuplicate(p) \/ StageAccept(p)
  \/ Reject(p) \/ Commit(p)

PullStep(r) == (\E limit \in Limits : Pull(r, limit)) \/ Deliver(r) \/ Lose(r)

Next == (\E p \in Pushers : PushStep(p)) \/ (\E r \in Replicas : PullStep(r))

Spec == Init /\ [][Next]_vars

----------------------------------------------------------------------------
(* Properties                                                              *)

\* The log holds operations that validate; types of its index, the staged copies and the replicas.
TypeOK ==
  /\ operations \in Seq({op \in SyncOperation : Valid(op)})
  /\ byId \in [Ids -> SyncOperation \cup {NoOperation}]
  /\ highest \in [Devices -> 0..MaxU64]
  /\ writer \in Pushers \cup {Nobody}
  /\ staged \in [byId : [Ids -> SyncOperation \cup {NoOperation}], highest : [Devices -> 0..MaxU64],
                 accepted : Seq(SyncOperation), duplicates : Nat, next : Nat \ {0}]
  /\ call \in [Pushers -> {"idle", "locking", "staging", "answered", "abandoned"}]
  /\ batch \in [Pushers -> Seq(SyncOperation)]

\* In a log every sequence number follows its predecessor of the same device,
\* and the device's numbers only repeat where u64 saturates (push_batch).
GapFreeLog(log) ==
  /\ \A i \in DOMAIN log :
       log[i].seq > 1 =>
         \E j \in 1..(i - 1) : log[j].device = log[i].device /\ log[j].seq = log[i].seq - 1
  /\ \A i, j \in DOMAIN log :
       i < j /\ log[i].device = log[j].device => log[i].seq < log[j].seq \/ log[i].seq = MaxU64

\* The log is gap-free per device however batches of several pushers, duplicates
\* and refusals interleave.
GapFree == GapFreeLog(operations)

\* An id names one operation for ever: the log has no id twice, and the index
\* knows exactly the operations of the log, each by its own id.
IdsAreIdempotent ==
  /\ \A i, j \in DOMAIN operations : operations[i].id = operations[j].id => i = j
  /\ \A i \in DOMAIN operations : byId[operations[i].id] = operations[i]
  /\ \A x \in Ids : byId[x] # NoOperation =>
       \E i \in DOMAIN operations : operations[i] = byId[x] /\ operations[i].id = x

Log == INSTANCE SyncLog WITH
  log   <- operations,
  batch <- [p \in Pushers |-> IF ack[p] = NoAnswer THEN <<>> ELSE batch[p]],
  copy  <- replica

\* The engine is one log: a push takes effect at one instant while it holds the
\* lock, whole or not at all, and is told so, with the numbers of new and repeated
\* operations or a cause; a replica's copy only grows by what follows in the log.
ImplementsLog == Log!Spec

\* A replica holds, per device, exactly the log up to its cursor: nothing is
\* skipped by a limit, nothing comes twice after a lost answer (pull_after).
ReplicaIsPrefix ==
  \A r \in Replicas : \A d \in Devices :
    LET own    == {op \in SyncOperation : op.device = d}
        behind == {op \in own : op.seq <= cursor[r][d]}
    IN  Among(replica[r], own) = Among(operations, behind)

\* A replica that keeps pulling with a positive limit, and whose answers
\* now and then arrive: that much is up to the transport.
Fairness ==
  /\ \A p \in Pushers :
       /\ WF_vars(Acquire(p)) /\ WF_vars(StageDuplicate(p)) /\ WF_vars(StageAccept(p))
       /\ WF_vars(Reject(p)) /\ WF_vars(Commit(p))
  /\ \A r \in Replicas :
       /\ \A limit \in Limits \ {0} : SF_vars(Pull(r, limit))
       /\ SF_vars(Deliver(r)) /\ WF_vars(Lose(r))

FairSpec == Spec /\ Fairness

\* What a pull saw is not lost: every replica gets every operation of the log.
Converges ==
  \A r \in Replicas : \A x \in Ids :
    byId[x] # NoOperation ~> \E i \in DOMAIN replica[r] : replica[r][i].id = x
=============================================================================
