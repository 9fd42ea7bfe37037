CONSTANTS
  c1 = c1
  c2 = c2
  w1 = w1
  w2 = w2
  noItem = noItem
  Content = {c1}
  Workers = {w1, w2}
  NoItem = noItem
  MaxTickets = 3
SPECIFICATION Spec
PROPERTIES EscalationResolvedOnce
CHECK_DEADLOCK FALSE
