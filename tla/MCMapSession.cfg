CONSTANTS
  s1 = s1
  s2 = s2
  Servers <- MCServers
  Lists <- MCLists
  Calls = {c1, c2}
  NoCall = NoCall
  Null = Null
  MaxSaves = 2
SPECIFICATION Spec
INVARIANTS
  TypeOK
  DialogTellsTruth
  FilterKept
PROPERTIES
  NoReloadInUse
  Recovers
