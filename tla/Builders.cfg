SPECIFICATION MCSpec
CONSTANTS
  Parts = {"build", "in-place", "reorder", "relabel", "partition", "slice", "triangles", "intersect", "convert", "tiles", "generate", "options", "trials"}
  N = 3
  M = 4
  L = 5
  Inputs <- Lists
  Kinds = {"directed", "symmetrized", "local"}
  KeepSelf = {TRUE, FALSE}
  BlockSize = 2
  Threads = {0, 1}
  Reorderings = {2}
  ReorderingGraphs <- UnweightedGraphs
  SizeValues = 32
  IdLimit = 8
  RelabelGraphs <- RelabelledGraphs
  NumTrials = 2
  Iters = {1, 2}
  Streams <- SomeStreams
  MaxScore = 2
  K = 2
  Segments <- SomeSegments
  Runs = 3
  Reorders = 1
  Programs = {"bfs", "sssp", "converter"}
  Options = {"f", "u", "g", "s", "h", "o", "j", "b", "e", "r", "w", "m"}
  Length = 3
INVARIANTS CellsClaimedOnce BuiltGraph InPlaceGraph SameGraph PartsHoldTheGraph TrianglesCounted FilesAgree SameInputEverywhere OptionsMeanWhatHelpSays TrialsAreVerified
