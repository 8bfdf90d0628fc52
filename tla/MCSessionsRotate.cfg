CONSTANTS
  u1 = u1
  u2 = u2
  p1 = p1
  p2 = p2
  t1 = t1
  t2 = t2
  t3 = t3
  t4 = t4
  r1 = r1
  r2 = r2
  r3 = r3
  Users = {u1}
  MfaUsers = {u1}
  Passwords = {p1}
  Tokens = {t1, t2, t3}
  Requests = {r1, r2, r3}
  Workload <- RotationWorkload
  NoToken = NoToken
  NoUser = NoUser
  NoPassword = NoPassword
  NoRequest = NoRequest
SPECIFICATION Spec
SYMMETRY Symmetry
INVARIANTS
  OneLiveToken
  AlarmEndsFamily
PROPERTY
  FamilyStaysDead
