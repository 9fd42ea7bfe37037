CONSTANTS
  r1 = r1
  r2 = r2
  Hubs = {1, 2, 3}
  Types = {"related", "parent"}
  Asked = {"manual"}
  Items = {1, 2, 3}
  Mentions <- SomeMentions
  FirstLinks <- SomeLinks
  Runs = {r1}
  MinShared = 1
  MinCooccur = 1
  MaxProposals = 2
  Cap = 20
  MaxWrites = 3
SPECIFICATION Spec
INVARIANTS NoDuplicateRelation
CHECK_DEADLOCK FALSE
