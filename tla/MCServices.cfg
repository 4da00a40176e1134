SPECIFICATION FairSpec
CONSTANTS
  u1 = u1
  u2 = u2
  u3 = u3
  k1 = k1
  k2 = k2
  c1 = c1
  c2 = c2
  Nothing = Nothing
  Uploads <- ThreeUploads
  Keys <- TwoKeys
  Contents <- TwoContents
  Submissions <- Crossed
  MaxUploads = 2
  Threads = 1
  Processes = 1
INVARIANTS NothingAcceptedIsLost
PROPERTIES ExitFollows
CHECK_DEADLOCK FALSE
