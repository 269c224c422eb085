SPECIFICATION Spec
CONSTANTS
  MaxNode = 3
  VirtualNodes = 2
  HashSpace = 4
  NoOwner = NoOwner
  NodeName <- MCNodeName
  HashedKeys <- MCHashedKeys
  HashedIndexes <- MCHashedIndexes
  KnownKeys <- MCKnownKeys
  KnownNodes <- MCKnownNodes
INVARIANTS
  OwnerByMembership
  EncodingUnambiguous
  PositionsApart
  PlacementPinned
PROPERTIES
  MinimalMovement
