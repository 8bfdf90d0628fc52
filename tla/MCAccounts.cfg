CONSTANTS
  p1 = p1
  p2 = p2
  p3 = p3
  p4 = p4
  r1 = r1
  r2 = r2
  r3 = r3
  Passwords = {p1, p2, p3}
  NoPassword = NoPassword
  MaxAttempts = 3
  HistoryDepth = 2
  Requests = {r1, r2}
  Workload = {"register", "verify_email", "login", "verify_mfa", "change_password",
              "suspend", "reactivate", "delete"}
SPECIFICATION Spec
SYMMETRY Symmetry
INVARIANTS
  CanBeVerified
  SuspensionStands
  GuessesBounded
  NoReuse
