SPECIFICATION Spec
CONSTANTS
  Browsers = {b1, b2}
  Flows = {f1, f2}
  Callbacks = {c1, c2}
  Requests = {r1}
  Users = {ann, bob}
  Unverified = {bob}
  Attempts = {a1, a2}
  Bearers <- MCBearers
  Life = 1
  MaxNow = 1
  MaxFaults = 2
  MaxEdits = 1
  None = None
CHECK_DEADLOCK FALSE
SYMMETRY Alike
INVARIANTS
  SignedInByOwnFlow
  DiscoveryHeals
  IdentityIsCurrent
