CONSTANTS
  Null = Null
  s1 = s1
  v1 = v1
  v2 = v2
  Circuits = {a, b}
  Servers = {s1}
  Services = {v1, v2}
  Conns = {k1}
  Offers <- Sources
  Retired <- OneOrOther
SYMMETRY Symmetry
SPECIFICATION Spec
PROPERTY NewServiceCanHaveServers
