SPECIFICATION DoorsSpec

CONSTANTS
  ta = ta
  n1 = n1
  n2 = n2
  r1 = r1
  TypeOrder <- MCTypeOrder
  Nodes <- MCNodes
  TypeOf <- MCTypeOf
  Relations <- MCRelations
  Source <- MCSource
  Target <- MCTarget
  MetaLinks <- MCMetaLinks
  Tombstone = Tombstone
  NoRelation = NoRelation
  MinSlots = 3
  RatioNum = 3
  RatioDen = 10
  MaxLoadedNodes = 2
  MaxLoadedEdges = 2
  PredicateSets <- MCPredicateSets
  Plain <- MCPlain
  Appearances <- MCAppearances
  NoCaption = NoCaption
  Captions = {NoCaption}
  Simulation = Simulation
  Here = "here"
  There = "there"
  StaticKernels = {}
  Timings = {1}
  CalculationKinds <- MCKinds
  MaxCalculations = 1
  MaxCheckpoints = 1
  MaxWeight = 5
  Bookmarks = {}
  NoMarker = NoMarker
  MaxPicked = 0
  MaxRevision = 3
  Needles <- MCNeedles
  Choices <- MCChoices
  Images <- MCImages
  JsonFile = "json"
  Colliding = {r1}
  Weighs <- MCWeighs
  MaxCopied = 2
  NoField = NoField
  Absent = Absent
  StyleArgs <- MCStyleArgs

INVARIANTS
  CurrentAnswersHold
  ActsOnWhatItRead
  FinalIsItsPreview

\* The bound on revisions ends every behaviour.
CHECK_DEADLOCK FALSE
