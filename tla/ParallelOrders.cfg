SPECIFICATION MCFairSpec
CONSTANTS
  N = 7
  Threads = {0, 1, 2}
  Kinds = {"HubSort", "HubCluster"}
  Inputs <- Mixed
  Parts = {"hubs", "rabbit", "leiden"}
  RabbitN = 4
  Graphs <- FourVertices
  RabbitThreads = {0, 1}
  LeidenN = 4
  LeidenInputs <- SmallCommunities
  Chunk = 2
  MaxIterations = 2
  MaxPasses = 3
  LeidenThreads = {0, 1}
INVARIANTS Permutation HubsFirst CommunitiesAddUp CommunitiesAreSound
PROPERTIES MergesStand Terminates
CHECK_DEADLOCK FALSE
