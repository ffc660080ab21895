SPECIFICATION Spec
CONSTANTS
  users = users
  notes = notes
  tags = tags
  Tables = {users, notes, tags}
  Earlier <- MCEarlier
  Versions <- MCOne
  Hosts = {"worker", "next-node", "next-edge"}
  Isolates = {i1, i2}
  Requests = {r1, r2}
  MaxFaults = 1
  None = None
INVARIANTS
  OneBuild
  FailureForgotten
  SnapshotTrue
  UpIsWhole
PROPERTIES
  RetriesServe
