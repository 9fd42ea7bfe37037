CONSTANTS
  b1 = b1
  b2 = b2
  t1 = t1
  t2 = t2
  w1 = w1
  w2 = w2
  w3 = w3
  Bodies = {b1, b2}
  Types = {t1, t2}
  Workers = {w1, w2, w3}
  NoBody = NoBody
  NoType = NoType
  Batches <- MixedBatches
  Traffic = {"save", "promotion", "catchup"}
  MaxRequests = 3
SPECIFICATION Spec
SYMMETRY Symmetry
INVARIANTS CreatedIsWhole ClassifiedOnRecord
PROPERTIES CatchUpNeverReclassifies
CHECK_DEADLOCK FALSE
