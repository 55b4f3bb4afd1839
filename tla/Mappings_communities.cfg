SPECIFICATION MCSpec
CONSTANTS
  N = 4
  Threads = {0, 1}
  Kinds = {"Original", "Random", "Random_v2", "Map"}
  Parts = {"brew"}
  NineRows <- SharedTargets
  GOrderKinds = {"gorder"}
  Window = 2
  Brewed <- Alternating
  Thresholds = {2}
  Algorithms = {"rabbit"}
  Levels = {2}
INVARIANTS ClusteredByLeiden
