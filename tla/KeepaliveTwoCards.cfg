SPECIFICATION Spec
CONSTANTS
  c1 = c1
  c2 = c2
  Cards = {c1, c2}
  Ids = {1, 2}
  Job = 100
  None = 0
  Disturbed = {}
  MaxCrashes = 0
PROPERTIES WorkersStayAccountedFor StartsOnlyOnUnclaimed
SYMMETRY Alike
