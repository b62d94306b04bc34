CONSTANTS
  Null = Null
  s1 = s1
  v1 = v1
  v2 = v2
  Circuits = {a}
  Servers = {s1, s2}
  Services = {v1, v2}
  Conns = {k1}
  Offers <- Row
  Retired <- NoneRetired
SYMMETRY KeySymmetry
SPECIFICATION Spec
PROPERTIES SourceLostOnlyIfDeleted
