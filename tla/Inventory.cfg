SPECIFICATION Spec
CONSTANTS
  Servers = {"A", "B"}
  Clusters = {"B"}
  NodesOf <- Nodes
  Views <- Seen
  Stale = 1
  MaxProbe = 1
  MaxReadings <- UnderWay
INVARIANTS OneOwner KeepersHaveCards
PROPERTIES CardIsNotTakenWhileSeen OldNewsChangesNothing CardFindsItsServer
