SPECIFICATION SafetySpec
CONSTANTS
  users = users
  notes = notes
  tags = tags
  Tables = {users, notes, tags}
  Earlier <- MCBase
  Versions <- MCTwo
  Hosts = {"next-node"}
  Isolates = {i1, i2}
  Requests = {r1, r2}
  MaxFaults = 0
  None = None
INVARIANTS
  RetriesCleanly
