CONSTANTS
  MemberLists <- MCMemberLists
  Labels <- MCLabels
  Spots <- MCSpots
  Moves <- MCMoves
  Centres <- MCCentres
  MemberLimit = 3
  Ticks = 1
  ServiceSize <- MCServiceSize
  LeafSize <- MCLeafSize
  ServerLabel <- MCServerLabel
  EdgeLength = 24
  Padding = 6
  TilePadding = 2
  GraphMargin = 3
  Null = Null
SPECIFICATION Spec
INVARIANTS
  TypeOK
  GridSound
  SeparationClears
  ClipsOnBorder
  LeafInPlace
  TilesInPlace
  CentreKept
