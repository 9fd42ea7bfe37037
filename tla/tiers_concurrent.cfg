CONSTANTS
  c1 = c1
  c2 = c2
  w1 = w1
  w2 = w2
  noItem = noItem
  Content = {c1, c2}
  Workers = {w1, w2}
  NoItem = noItem
  MaxTickets = 2
SPECIFICATION FairSpec
INVARIANTS AuditHeadMatchesTier QuarantineBacked
PROPERTIES OverrulesOnlyMeanwhile CleanupSparesPending RequestsEnd
CHECK_DEADLOCK FALSE
