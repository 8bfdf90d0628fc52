CONSTANTS
  u1 = u1
  u2 = u2
  plain = plain
  other = other
  markup = markup
  r1 = r1
  r2 = r2
  Users = {u1, u2}
  Nobody = Nobody
  Editors = {u1}
  Names = {plain, other, markup}
  Sanitized <- Stripped
  Keys = {1, 2, 3, 4, 5, 6, 7}
  NoKey = 0
  Requests = {r1, r2}
SPECIFICATION PageSpec
SYMMETRY Symmetry
VIEW InForce
CONSTRAINT OneTrouble
INVARIANTS
  ShownIsStored
  ShowsTheSession
  CodesShownWork
  CodesWereTold
