SPECIFICATION Spec
CONSTANTS
  ann = ann
  bob = bob
  cy = cy
  gold = gold
  r1 = r1
  r2 = r2
  r3 = r3
  Requests <- MCRequests
  Users = {ann, cy}
  Admins = {ann}
  Guest = Guest
  Fields = {"owner", "badge", "parent"}
  Readonly = {"badge"}
  Objects = {"badge"}
  Unique = {"badge"}
  Refs = {"parent"}
  Values <- MCValues
  Null = Null
  Rules <- MCRules
  Inputs <- MCInputs
  Malformed = Malformed
  NoRow = NoRow
  NoCall = NoCall
CHECK_DEADLOCK FALSE
SYMMETRY RequestSymmetry
INVARIANTS
  ServerManaged
  NoOracle
  AnswersTellRows
  EventsTellRows
