SPECIFICATION MCSpec
CONSTANTS
  N = 4
  Threads = {0, 1}
  Kinds = {"Original", "Random", "Random_v2", "Map"}
  Parts = {"random", "degree", "corder", "gorder", "brew", "by-rabbit", "by-leiden", "digraph"}
  NineRows <- RowsOfNine
  GOrderKinds = {"gorder", "rcm"}
  Window = 2
  Brewed <- Clustered
  Thresholds = {0, 2}
  Algorithms = {"rabbit", "other"}
  Levels = {1, 2}
INVARIANTS OnlyPermutationsPass OrderedByDegree HeapKept CommunitiesStayTogether GraphHandedOver
PROPERTIES NumberedOnce
