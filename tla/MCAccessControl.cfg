CONSTANTS
  u1 = u1
  u2 = u2
  r1 = r1
  r2 = r2
  Users = {u1, u2}
  Admins = {u1, u2}
  Roles = {"admin", "user"}
  Ttl = 2
  Requests = {r1, r2}
  NoUser = NoUser
SPECIFICATION Spec
SYMMETRY Symmetry
VIEW StaleRows
INVARIANTS
  StaleAtMostTtl
PROPERTY
  AnAdminRemains
