CONSTANTS
  i1 = i1
  i2 = i2
  u1 = u1
  t1 = t1
  c1 = c1
  c2 = c2
  c3 = c3
  Addresses = {i1, i2}
  Accounts = {u1}
  GlobalMax = 2
  SensitiveMax = 1
  WindowTicks = 2
  Tabs = {t1}
  Calls = {c1, c2, c3}
  MaxSecret = 4
SPECIFICATION Spec
SYMMETRY Symmetry
INVARIANTS
  Budgets
PROPERTY
  RefusedOnlyAfterTrouble
