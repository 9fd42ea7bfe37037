CONSTANTS
  c1 = c1
  c2 = c2
  c3 = c3
  c4 = c4
  i1 = i1
  i2 = i2
  s1 = s1
  s2 = s2
  w1 = w1
  w2 = w2
  Content = {c1, c2}
  Identities = {i1}
  Scopes = {s1}
  Workers = {w1, w2}
  NoItem = NoItem
  NoIdentity = NoIdentity
  NoScope = NoScope
  Traffic = {"promotion", "save", "catchup"}
  MaxResolves = 2
SPECIFICATION Spec
INVARIANTS AtMostOneActive
CHECK_DEADLOCK FALSE
