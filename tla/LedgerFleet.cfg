SPECIFICATION Spec
CONSTANTS
  A = A
  B = B
  a1 = a1
  a2 = a2
  b1 = b1
  s1 = s1
  s2 = s2
  app = app
  p1 = p1
  p2 = p2
  None = None
  Locals = {app}
  Leases = {l1}
  Tasks = {t}
  HostOf <- TwoServers
  ProjectOf <- SessionProjects
  LabelOf <- CallerLabels
  Servers = {A, B}
  Cards = {a1, a2, b1}
  Sessions = {s1}
  Projects = {p1}
  Quota <- OpenBudget
  Limit <- OpenBudget
INVARIANTS LiveHoldsCards LeasedCardsExist CommitmentsCover
PROPERTIES CardsLeaveOnEvidence
