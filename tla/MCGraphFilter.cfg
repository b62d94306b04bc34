CONSTANTS
  s1 = s1
  s2 = s2
  s3 = s3
  Null = Null
  Servers = {s1, s2, s3}
  Services = {v1, v2}
  Conns = {k1}
  ListRank <- ByList
  NameRank <- ByName
SYMMETRY Symmetry
SPECIFICATION FilterSpec
INVARIANTS Drawable NothingHidden
PROPERTIES OneWay
