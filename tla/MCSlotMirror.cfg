SPECIFICATION MirrorSpec

CONSTANTS
  ta = ta
  tb = tb
  n1 = n1
  n2 = n2
  n3 = n3
  n4 = n4
  r1 = r1
  r2 = r2
  r3 = r3
  TypeOrder <- MCTypeOrder
  Nodes <- MCNodes
  TypeOf <- MCTypeOf
  Relations <- MCRelations
  Source <- MCSource
  Target <- MCTarget
  MetaLinks <- MCMetaLinks
  Tombstone = Tombstone
  NoRelation = NoRelation
  MinSlots = 5
  RatioNum = 3
  RatioDen = 10
  MaxLoadedNodes = 3
  MaxLoadedEdges = 2
  MaxInFlight = 2

INVARIANTS
  TypeOK
  SlotsAgree
  LinksFaithful
  SpaceBounded
  ReplayAgrees

PROPERTIES
  SlotKeepsItsEntry
