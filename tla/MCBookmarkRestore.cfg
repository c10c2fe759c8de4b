SPECIFICATION BookmarkSpec

CONSTANTS
  ta = ta
  n1 = n1
  n2 = n2
  r1 = r1
  geo = geo
  TypeOrder <- MCTypeOrder
  Nodes <- MCNodes
  TypeOf <- MCTypeOf
  Relations <- MCRelations
  Source <- MCSource
  Target <- MCTarget
  MetaLinks <- MCMetaLinks
  Tombstone = Tombstone
  NoRelation = NoRelation
  MinSlots = 3
  RatioNum = 3
  RatioDen = 10
  MaxLoadedNodes = 2
  MaxLoadedEdges = 1
  PredicateSets <- MCPredicateSets
  Plain = Plain
  Appearances = {Plain}
  NoCaption = NoCaption
  Captions = {NoCaption}
  Simulation = Simulation
  Here = "here"
  StaticKernels = {geo}
  Timings = {1}
  CalculationKinds <- MCKinds
  MaxCalculations = 1
  MaxCheckpoints = 1
  MaxWeight = 5
  Bookmarks = {b1}
  NoMarker = NoMarker
  MaxPicked = 0
  Elsewhere <- MCElsewhere
  Foreign <- MCForeign
  MaxCaptures = 1
  MaxRevision = 4

INVARIANTS
  RestoresWhatWasSaved

\* The bound on revisions ends every behaviour.
CHECK_DEADLOCK FALSE
