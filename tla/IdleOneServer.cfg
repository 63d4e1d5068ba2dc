SPECIFICATION Spec
CONSTANTS
  A = A
  B = B
  a1 = a1
  a2 = a2
  b1 = b1
  Servers = {A}
  Cards = {a1, a2}
  HostOf <- Placed
  Movable = {}
  Stale = 1
  OutageReset = 3
  Alert = 1
  CardReclaim = 1
  LeaseReclaim = 2
  MaxWindows = 3
  Grace = 1
  Horizon = 4
INVARIANT ClockIsObservedTime
PROPERTIES TakenAfterObservedIdleness KeepingIsBounded
