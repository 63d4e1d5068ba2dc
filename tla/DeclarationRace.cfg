SPECIFICATION Spec
CONSTANTS
  Calls = {c1, c2}
  Cards = {g1, g2}
  MaxLeases = 2
  MaxCount = 2
SYMMETRY Symmetric
INVARIANT OneLeaseForTask
PROPERTY TakenLeaseOutOfReach
