---------------------------- MODULE MCSyncEngine ----------------------------
(* Two devices whose batches overlap, collide, skip numbers and repeat. *)
EXTENDS SyncEngine

CONSTANTS desk, lap, p1, p2, p3, r1, r2, a, b, c, red, blue

Op(schema, id, device, seq, body) ==
  [schema |-> schema, id |-> id, device |-> device, seq |-> seq, body |-> body]

Desk1 == Op("current", a, desk, 1, red)
Desk2 == Op("current", b, desk, 2, red)
Lap1  == Op("current", c, lap, 1, red)

\* Retries of overlapping batches, a repetition within one, and the empty one.
GoodBatches == {<<Desk1, Desk2>>, <<Desk1, Lap1>>, <<Lap1, Lap1>>, <<>>}

\* A number is skipped; an id comes back with other content; a bad schema; number 0.
BadBatches ==
  {<<Desk1, Op("current", c, desk, 3, red)>>,
   <<Lap1, Desk1, Op("current", a, desk, 2, blue)>>,
   <<Desk1, Op("other", b, desk, 2, red)>>,
   <<Op("current", b, desk, 0, red)>>}

MixedBatches == GoodBatches \cup BadBatches
=============================================================================
