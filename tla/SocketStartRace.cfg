SPECIFICATION Spec
CONSTANTS
  d1 = d1
  d2 = d2
  d3 = d3
  Daemons = {d1, d2, d3}
  Absent = absent
  Junk = junk
  Relic = relic
  Uid = "user"
  Disciplines <- OnlyStarts
INVARIANTS
  SingleInstance
