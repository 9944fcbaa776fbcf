SPECIFICATION FairSpec
CONSTANTS
  desk = desk
  lap = lap
  p1 = p1
  p2 = p2
  p3 = p3
  r1 = r1
  r2 = r2
  a = a
  b = b
  c = c
  red = red
  blue = blue
  Pushers = {p1, p2, p3}
  Replicas = {r1}
  Devices = {desk, lap}
  Ids = {a, b, c}
  Bodies = {red, blue}
  NoOperation = none
  Batches <- MixedBatches
  Limits = {0, 2}
  MaxU64 = 5
INVARIANTS
  TypeOK
  GapFree
  IdsAreIdempotent
  ReplicaIsPrefix
PROPERTIES
  ImplementsLog
  Converges
