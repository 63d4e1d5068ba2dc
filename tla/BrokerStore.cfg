SPECIFICATION FairSpec
CONSTANTS
  s1 = s1
  s2 = s2
  Servers = {s1, s2}
  Slots = {1, 2}
  Gens = {1, 2}
  MaxRevision = 2
  MaxRollbacks = 1
INVARIANT MarksMatchChanges
PROPERTIES ShownIsNotOlder OutageIsReal CatchesUp
