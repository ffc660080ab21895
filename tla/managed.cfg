SPECIFICATION Spec
CONSTANTS
  users = users
  notes = notes
  comments = comments
  tags = tags
  bad = bad
  User <- MCUser
  Plugin <- MCPlugin
  Refs <- MCRefs
  Malformed <- MCMalformed
  Configs <- MCConfigs
  Calls = {c1, c2}
  Boot = Boot
  Requests = {r1}
  NoStore = NoStore
  Down = Down
  NoJob = NoJob
INVARIANTS
  OneMigration
  SchemaAtomic
  Durable
  LiveIsStored
  LastOkWins
  TablesServeLive
PROPERTIES
  Authority
  Settles
