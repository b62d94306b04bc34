CONSTANTS
  s1 = s1
  s2 = s2
  s3 = s3
  v1 = v1
  v2 = v2
  k1 = k1
  Null = Null
  Servers = {s1, s2, s3}
  Services = {v1, v2}
  Conns = {k1}
  ListRank <- ByList
  NameRank <- ByName
  Inventories <- OnlySpread
  MaxFades = 1
  MaxSelected = 0
SPECIFICATION Spec
INVARIANT NoScriptErrors
