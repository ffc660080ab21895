SPECIFICATION Spec
CONSTANTS
  ann = ann
  bob = bob
  r1 = r1
  r2 = r2
  r3 = r3
  e1 = e1
  e2 = e2
  p1 = p1
  p2 = p2
  Requests <- Three
  Existing <- Users
  Backends <- FreshOrNot
  Emails = {e1, e2}
  Passwords = {p1, p2}
  Subjects = {"s"}
  Routes = {"register", "callback", "login", "change", "request", "issue", "confirm"}
  MaxDeletes = 1
  None = None
CHECK_DEADLOCK FALSE
SYMMETRY RequestSymmetry
INVARIANTS
  SessionsAreEarned
  RacesAreRecovered
  CreatedOnce
  FirstIsAdmin
  ResetsByLastToken
