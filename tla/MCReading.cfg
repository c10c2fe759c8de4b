SPECIFICATION ReadSpec

CONSTANTS
  MaxCell = 30
  MaxItems = 5
  MaxDepth = 2
  Charge = 2
  NodeCharge = 3
  RelCharge = 4
  Tag = 1
  MaxHandles = 4
  MaxFields = 1
  MaxRows = 3
  RecordBytes = 70
  RecordHead = 4
  MaxPageItems = 2
  PageBytes = 31
  TextBytes = 4
  QueryRows = 3
  QueryBytes = 115
  QueryHead = 5
  MaxColumns = 2
  ColumnBytes = 4
  MaxWork = 6
  MaxNesting = 2
  MaxReferences = 2
  LoadedNodes = 2
  LoadedEdges = 1
  SearchHits = 2
  LabelChars = 4
  TopTypes = 2
  MetaLinks = 2
  MetaBytes = 20
  TypeBytes = 7
  LinkBytes = 5
  MaxDistinct = 2
  SampleSize = 3
  Exact = 3
  CaptionChars = 2
  Schemas <- MCSchemas
  Graphs <- MCGraphs
  Columns <- MCColumns
  Values <- MCValues
  Tables <- MCTables
  Texts <- MCTexts
  Queries <- MCQueries
  HeaderBytes = 24
  ArrayRecord = 8
  ProtocolVersion = 10
  Talks <- MCTalks
  Targets = {5, 20}
  MinIslands = 4
  DominantPercent = 80
  MinEgo = 3
  EgoPercent = 60
  MinShells = 4
  MinSide = 2
  FanThreshold = 1
  FoldAbove = 20
  PlacedPercent = 60
  MinPlaces = 2
  CellWidth = 4
  CellHeight = 3
  ChipHeight = 2
  CellsPerName = 2
  StatusRows = 1
  LegendLine = 1
  MinDimension = 10
  MaxDimension = 40
  Shapes <- MCShapes
  Sources <- MCSources
  Requests <- MCRequests
  Names <- MCNames
  Views <- MCViews
  IntLimit = 8
  MaxCategories = 3
  Fields <- MCFields
  Predicates <- MCPredicates
  Limits = {0, 1, 2, 9}

INVARIANTS
  CellsAreWholeOrMarked
  PagesMeet
  AnswersArePrefixes
  SchemaIsSound
  ColoursCoverTheType
  ResponsesArriveWhole
  PicturesAreHonest

\* A reader that has its answer stops.
CHECK_DEADLOCK FALSE
