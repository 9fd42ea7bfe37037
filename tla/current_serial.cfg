CONSTANTS
  c1 = c1
  c2 = c2
  c3 = c3
  c4 = c4
  i1 = i1
  i2 = i2
  s1 = s1
  s2 = s2
  w1 = w1
  w2 = w2
  Content = {c1, c2, c3}
  Identities = {i1, i2}
  Scopes = {s1, s2}
  Workers = {w1}
  NoItem = NoItem
  NoIdentity = NoIdentity
  NoScope = NoScope
  Traffic = {"promotion", "save", "catchup", "reconcile"}
  MaxResolves = 4
SPECIFICATION Spec
SYMMETRY Symmetry
PROPERTIES SupersededByItsIdentity IsRegister
CHECK_DEADLOCK FALSE
