SPECIFICATION MCSpec
CONSTANTS
  Keys = {"a1", "a2", "A2"}
  Values = {"json", "text"}
  Json = {"json"}
  Families <- MCFamilies
  Ttls <- MCTtls
  Floor = 1
  Page = 1
  MaxNow = 2
  Forever = Forever
  Nothing = Nothing
  Uploads = {u1, u2}
  Gets = {g1}
  Users = {ann, bob}
  Guest = Guest
  Admins = {ann}
  Bodies <- MCBodies
  MaxRows = 2
  Requests = {r1, r2}
  Plugins = {h1}
  Bridge = Bridge
  Hosts = {"node", "worker", "hono", "pipeline"}
  MaxStamp = 3
  MaxFaults = 1
  None = None
INVARIANTS
  FilesAreWhole
  HandlersRan
  AuditKept
  OnePlace
PROPERTIES
  KeepsContract
