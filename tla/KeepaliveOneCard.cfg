SPECIFICATION FairSpec
CONSTANTS
  c1 = c1
  c2 = c2
  Cards = {c1}
  Ids = {1, 2}
  Job = 100
  None = 0
  Disturbed = {c1}
  MaxCrashes = 1
INVARIANT OnMeansOnlyKeeperSeen
PROPERTY SwitchedOffServerIsFreed
