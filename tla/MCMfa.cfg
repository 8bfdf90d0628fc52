CONSTANTS
  s1 = s1
  s2 = s2
  s3 = s3
  c1 = c1
  c2 = c2
  c3 = c3
  c4 = c4
  r1 = r1
  r2 = r2
  r3 = r3
  Secrets = {s1, s2}
  Codes = {c1, c2, c3, c4}
  CodeCount = 2
  Workload = {"setup", "enable", "disable", "verify"}
  Requests = {r1, r2}
  NoSecret = NoSecret
  NoFactor = NoFactor
SPECIFICATION Spec
SYMMETRY Symmetry
CONSTRAINT OneCodeUsed
INVARIANTS
  CodeAdmitsOnce
  CodesComplete
  ProvenUnlessTorn
