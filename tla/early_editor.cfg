SPECIFICATION MCSpec
CONSTANTS
  posts = posts
  notes = notes
  users = users
  u1 = u1
  u2 = u2
  Tabs = {t1}
  Entities = {posts, notes}
  Plugins = {users}
  Fields = {"author", "writer"}
  Actions = {"read", "edit"}
  Leaves = {"own", "public"}
  Target <- MCTarget
  OwnerField <- MCOwner
  Given <- MCGiven
  MaxSaves = 1
  MaxEdits = 1
  MaxFaults = 0
  Turns = {"shell"}
  Ids = {u1, u2}
  Stored <- MCStored
  Typed <- MCTyped
  Roles = {"admin", "member"}
  PageSize = 1
  MaxLoads = 2
  MaxClicks = 3
  MaxFormClicks = 2
  None = None
CHECK_DEADLOCK FALSE
PROPERTIES
  PermissionsSurvive
