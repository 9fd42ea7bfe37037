CONSTANTS
  blank = blank
  lf = lf
  cr = cr
  stop = stop
  wide = wide
  Char = {blank, lf, cr, stop, wide}
  LF = lf
  CR = cr
  Blanks = {blank}
  Stops = {stop}
  WideStops = {wide}
  MinChars = 2
  TargetChars = 3
  MaxChars = 4
  Overlap = 2
  MaxChunks = 3
  MaxLength = 7
  Rare = {cr, wide}
  MaxRare = 1
  c1 = c1
  c2 = c2
  h1 = h1
  h2 = h2
  Contents = {c1, c2}
  Hubs = {h1, h2}
  Relations <- SomeRelations
  HubPairs <- SomePairs
  Labels = {"one", "One", "uno", "two"}
  Norm <- SomeNorms
  FirstDatabases <- SomeDatabases
  SavedBodies <- SomeBodies
  MaxHealthWrites = 2
  NoRows = NoRows
  NoId = NoId
  SuppliedRows <- SomeRows
  Processes = {p1, p2}
  Threads = {t1, t2}
  failure_threshold = 2
  window_seconds = 2
  open_duration_seconds = 2
  MaxTime = 4
  MaxCalls = 3
  MaxRestarts = 1
  ClassifyProcesses = {p1, p2}
  Orders <- SomeOrders
  Submissions <- SomeContents
  breaker <- SomeBreaker
  policy <- SomePolicy
  FirstStates = {"closed", "open", "half_open"}
  Histories <- SomeHistories
  Instants = {4, 6}
  Scores <- SomeScores
  None = None
  Entries = {1, 2, 3, 4}
  Foreign = {3}
  Topics = {h1, h2}
  Letters <- SomeLetters
  Adjacent <- SomeNeighbours
  Memories = {"decision", "fact"}
  FirstCatalogs <- SomeCatalogs
  Questions <- SomeQuestions
  NewChunks <- SomePieces
  Distances = {20}
  RowLimit = 4
  MaxTerms = 2
  MaxCatalogWrites = 2
  Writers = {w1, w2}
  Concerns = {h1}
  Asked = {"active"}
  DepthLimit = 2
  MaxDecisions = 4
SPECIFICATION PartsSpec
INVARIANTS ChunksCoverBody BodyComesBack VerifiedIsComplete ReportedWasSo ScoresAreSound ReportsAgree OpenIsRespected OpensForCause DisagreeOnlyOnTies RefusesForCause AnswersItsScope LastSuccessorWins CutOffIsReported ReplacedDoesNotConflict
CHECK_DEADLOCK FALSE
