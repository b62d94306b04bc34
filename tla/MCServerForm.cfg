CONSTANTS
  s1 = s1
  s2 = s2
  t1 = t1
  t2 = t2
  c1 = c1
  c2 = c2
  Null = Null
  Servers <- MCServers
  Tags <- MCTags
  Circuits <- MCCircuits
  Databases <- MCDatabases
  MaxRestarts = 1
  MaxVisits = 3
SPECIFICATION Spec
INVARIANTS
  NothingHalfDone
PROPERTIES
  SavedWithItsTags
  AuditComplete
  NewServersLand
