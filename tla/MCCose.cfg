CONSTANTS
  S1 = S1  S2 = S2  S3 = S3  V1 = V1  V2 = V2  V3 = V3  root = root  Null = Null
  Node <- MCNode
  Edge <- MCEdge
  RootNode <- root
  Maps <- MCMaps
  ConnLimit = 3
  SampleSize = 25
  MaxIterations = 3
  CheckPeriod = 2
  GridPeriod = 2
  GrowPeriod = 2
  Cooldown = 2
SPECIFICATION Spec
INVARIANTS
  WellFormed
  SpectralSound
  ListsSound
  ForcesSound
  EverythingBack
PROPERTIES
  Terminates
