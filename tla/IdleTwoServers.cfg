SPECIFICATION Spec
CONSTANTS
  A = A
  B = B
  a1 = a1
  a2 = a2
  b1 = b1
  Servers = {A, B}
  Cards = {a1, b1}
  HostOf <- Placed
  Movable = {a1, b1}
  Stale = 1
  OutageReset = 2
  Alert = 1
  CardReclaim = 1
  LeaseReclaim = 2
  MaxWindows = 1
  Grace = 1
  Horizon = 2
PROPERTIES QuietServerKeepsCards SeenProcessHoldsCard
