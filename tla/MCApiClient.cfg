CONSTANTS
  t1 = t1
  t2 = t2
  c1 = c1
  c2 = c2
  Tabs = {t1, t2}
  Calls = {c1, c2}
  Tokens = {1, 2, 3, 4, 5}
  NoToken = 0
  NoCall = NoCall
  MaxLogins = 2
  MaxBusy = 2
SPECIFICATION Spec
SYMMETRY Symmetry
VIEW HeldRows
CONSTRAINT OneTrouble
INVARIANTS
  TypeOK
  OneRefresh
  AlarmUnlessOverlap
  CookieOfSession
  WaitsForARefresh
PROPERTIES
  EjectedOnlyWhenGone
