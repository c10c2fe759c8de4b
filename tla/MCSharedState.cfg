SPECIFICATION SharedSpec

CONSTANTS
  ta = ta
  n1 = n1
  n2 = n2
  r1 = r1
  fancy = fancy
  geo = geo
  TypeOrder <- MCTypeOrder
  Nodes <- MCNodes
  TypeOf <- MCTypeOf
  Relations <- MCRelations
  Source <- MCSource
  Target <- MCTarget
  MetaLinks <- MCMetaLinks
  Tombstone = Tombstone
  NoRelation = NoRelation
  MinSlots = 3
  RatioNum = 3
  RatioDen = 10
  MaxLoadedNodes = 2
  MaxLoadedEdges = 1
  PredicateSets <- MCPredicateSets
  Plain = Plain
  Appearances = {Plain, fancy}
  NoCaption = NoCaption
  Captions = {NoCaption}
  Simulation = Simulation
  Here = "here"
  StaticKernels = {geo}
  Timings = {1, 2}
  CalculationKinds <- MCKinds
  MaxCalculations = 1
  MaxCheckpoints = 2
  MaxWeight = 5
  Bookmarks = {b1}
  NoMarker = NoMarker
  MaxPicked = 1
  MaxRevision = 4

INVARIANTS
  NothingStale
  CalculationsHonest
  MarkerHonest

PROPERTIES
  RevisionsNameTheirParts
  RestoreExact
  ChangesRecoverable

\* The bound on revisions ends every behaviour.
CHECK_DEADLOCK FALSE
