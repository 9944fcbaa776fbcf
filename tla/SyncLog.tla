------------------------------ MODULE SyncLog ------------------------------
(***************************************************************************)
(* What the replication engine promises: one log.  A push takes effect at   *)
(* one instant, whole or not at all, and its pusher is told which; a        *)
(* replica's copy grows by what follows in the log.                         *)
(***************************************************************************)
EXTENDS Subsequences, FiniteSets, Functions

CONSTANTS Pushers,   \* pushers, one batch each
          Replicas,
          Devices,
          Batches,   \* the batches that are pushed
          Valid(_),  \* whether an operation validates
          MaxU64     \* where sequence numbers saturate

VARIABLES log,     \* the operations, in the order in which they were taken over
          batch,   \* batch[p]: what p pushed, once it took effect or was refused
          ack,     \* ack[p]: what p was told then
          copy     \* copy[r]: what replica r has of the log

vars == <<log, batch, ack, copy>>

NoAnswer == [kind |-> "none"]

\* The operations of batch b that log l does not have, each once.
Fresh(l, b) ==
  LET fresh[n \in 0..Len(b)] ==
        IF n = 0 THEN <<>>
        ELSE IF b[n] \in Range(l) \cup Range(fresh[n - 1]) THEN fresh[n - 1]
        ELSE Append(fresh[n - 1], b[n])
  IN  fresh[Len(b)]

Extended(b) == log \o Fresh(log, b)

\* An id names one operation, and a device numbers its own without a gap.
Collides(l) == \E i, j \in DOMAIN l : l[i].id = l[j].id /\ l[i] # l[j]

Skips(l) ==
  \E i \in DOMAIN l :
    LET before == Cardinality({j \in 1..(i - 1) : l[j].device = l[i].device})
    IN  l[i].seq # IF before < MaxU64 THEN before + 1 ELSE MaxU64

----------------------------------------------------------------------------
Init ==
  /\ log = <<>>
  /\ batch = [p \in Pushers |-> <<>>]
  /\ ack = [p \in Pushers |-> NoAnswer]
  /\ copy = [r \in Replicas |-> <<>>]

\* p's push of b comes to its end.
Ends(p, b) ==
  /\ ack[p] = NoAnswer
  /\ ack'[p] # NoAnswer
  /\ batch' = [batch EXCEPT ![p] = b]
  /\ UNCHANGED copy

TakeOver(p, b) ==
  /\ Ends(p, b)
  /\ \A i \in DOMAIN b : Valid(b[i])
  /\ ~Collides(Extended(b)) /\ ~Skips(Extended(b))
  /\ log' = Extended(b)
  /\ ack' = [ack EXCEPT ![p] = [kind |-> "ack", accepted |-> Len(Fresh(log, b)),
                                duplicates |-> Len(b) - Len(Fresh(log, b))]]

\* A refusal has its cause, and no effect.
Refuse(p, b, error) ==
  /\ Ends(p, b)
  /\ ack' = [ack EXCEPT ![p] = [kind |-> "refused", error |-> error]]
  /\ \/ error = "protocol" /\ \E i \in DOMAIN b : ~Valid(b[i])
     \/ error = "collision" /\ Collides(Extended(b))
     \/ error = "sequence" /\ Skips(Extended(b))
  /\ UNCHANGED log

\* A replica goes on where it is, device by device.
Follow(r) ==
  LET rest == Among(log, Range(log) \ Range(copy[r]))
  IN  /\ \E n \in 1..Len(rest) : copy' = [copy EXCEPT ![r] = @ \o SubSeq(rest, 1, n)]
      /\ UNCHANGED <<log, batch, ack>>

Next ==
  \/ \E p \in Pushers, b \in Batches :
       TakeOver(p, b) \/ \E e \in {"protocol", "collision", "sequence"} : Refuse(p, b, e)
  \/ \E r \in Replicas : Follow(r)

Spec == Init /\ [][Next]_vars
=============================================================================
