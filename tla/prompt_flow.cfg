CONSTANTS
  Clients = {c1, f1}
  Flows = {f1}
  w1 = w1
  w2 = w2
  Workspaces = {w1, w2}
  Contents = {1, 2}
  Records = {3}
  Unset = unset
  Malformed = malformed
  Statuses = {"draft", "active"}
  Tiers = {"persistent"}
  Requests <- SomeRequests
  FlowRequests <- SomeFlowRequests
  Score <- Scores
  Size <- Sizes
  Limit = 2
  MaxCandidates = 2
  MaxContext = 7
  Vectors = TRUE
  ApiText = "first"
  MaxCalls = 2
  MaxSaves = 1
  MaxFaults = 2
SPECIFICATION FlowSpec
INVARIANTS VectorOfItsText OwnTextIsOffered
PROPERTIES KeepsContract
CHECK_DEADLOCK FALSE
