CONSTANTS
  s1 = s1
  s2 = s2
  s3 = s3
  v1 = v1
  v2 = v2
  k1 = k1
  Null = Null
  Servers = {s1, s2}
  Services = {v1, v2}
  Conns = {k1}
  ListRank <- ByList
  NameRank <- ByName
  Inventories <- PlacedOrShared
  MaxFades = 2
  MaxSelected = 1
SPECIFICATION Spec
INVARIANTS Converged HandlersSurvive
PROPERTY LoneFadeIsSafe
