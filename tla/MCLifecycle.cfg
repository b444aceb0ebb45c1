CONSTANTS
  Workers = {w1, w2, w3}
  MaxQueue = 2
SPECIFICATION FairSpec
INVARIANTS CachesFirst AwaitedInformersRun
PROPERTIES StartUpEnds StopEnds InsistenceEnds
CHECK_DEADLOCK FALSE
