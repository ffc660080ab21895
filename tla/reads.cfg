SPECIFICATION ReadSpec
CONSTANTS
  ann = ann
  bob = bob
  cal = cal
  p1 = p1
  p2 = p2
  p3 = p3
  t1 = t1
  t2 = t2
  Users <- MCUsers
  Vals <- MCVals
  RoleOf <- MCRoleOf
  Fields = {"author"}
  Guest = Guest
  Null = Null
  MaxCalls = 2
  Posts <- MCPosts
  Topics <- MCTopics
  TopicOwner <- MCTopicOwner
  PostRows <- MCPostRows
  Tables <- MCTables
  Queries <- MCQueries
  Numeral <- MCNumeral
  Hidden = {"secret", "origin"}
  Less <- MCLess
  Callees = {ann, bob, Guest}
  MaxRule = 0
  MaxWrites = 1
  DefaultLimit = 1
  MaxLimit = 2
  Missing = Missing
CHECK_DEADLOCK FALSE
INVARIANTS
  FilterIsRowCheck
  MeansWhatItSays
  FilterSurvivesTheWire
  PageFitsTotal
  HiddenInvisible
