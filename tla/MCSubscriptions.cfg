SPECIFICATION FairStreamSpec
CONSTANTS
  k1 = k1
  k2 = k2
  Clients <- TwoClients
  MaxVersion = 2
  MaxChannels = 2
INVARIANTS StreamsEndWithOutcome
PROPERTIES RevisionsAdvance StreamsEnd
CHECK_DEADLOCK FALSE
