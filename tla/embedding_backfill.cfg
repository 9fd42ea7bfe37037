CONSTANTS
  r1 = r1
  r2 = r2
  Bodies = {{1, 3}, {2}, {4}}
  Refused = {1}
  Runners = {r1, r2}
  BatchSize = 2
  Limit = 3
  MaxCrashes = 1
SPECIFICATION FairSpec
INVARIANTS NoCircularWait SuccessMeansEmbedded
PROPERTIES MissingIsEmbedded
