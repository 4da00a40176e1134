SPECIFICATION FairSpec
CONSTANTS
  n1 = n1
  n2 = n2
  r1 = r1
  r2 = r2
  r3 = r3
  d1 = d1
  p1 = p1
  p2 = p2
  Results <- TwoResults
  Replicas <- TwoReplicas
  Readers <- ThreeReaders
  Removers <- OneRemover
  Home <- Split
  Wants <- Choices
  ArtifactPermits = 1
  Threads = 1
INVARIANTS NothingOutlivesTheResult
PROPERTIES OthersAreServed
CHECK_DEADLOCK FALSE
