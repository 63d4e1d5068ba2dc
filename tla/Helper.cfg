SPECIFICATION Spec
CONSTANTS
  c1 = c1
  c2 = c2
  h1 = h1
  h2 = h2
  p1 = p1
  p2 = p2
  Cards = {c1, c2}
  Calls = {h1, h2}
  Pids = {p1, p2}
  Nobody = Nobody
  MaxTicks = 3
  MaxBoots = 1
SYMMETRY Alike
INVARIANT RunningWorkersAreOnRecord
PROPERTIES StoppedMeansStopped OnlyTheWorkerIsSignalled
