CONSTANTS
  u1 = u1
  u2 = u2
  u3 = u3
  e1 = e1
  e2 = e2
  r1 = r1
  r2 = r2
  r3 = r3
  Users = {u1, u2}
  Events = {e1}
  InitialEvents = {e1}
  Requests = {r1, r2, r3}
  Capacities = {1, 2}
  Admins = {u2}
  Organizer <- MCOrganizer
  Workload <- BookingWorkload
  Nobody = Nobody
  NoRequest = NoRequest
SPECIFICATION Spec
SYMMETRY RequestSymmetry
INVARIANTS
  SeatsCountBookings
  SeatStillFree
  OnlyDeletionsDeadlock
  BookAndCancelNeverFail
  AuditHonest
