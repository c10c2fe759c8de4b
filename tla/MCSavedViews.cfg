SPECIFICATION Spec

CONSTANTS
  j1 = j1
  j2 = j2
  Jobs <- MCJobs
  a = a
  b = b
  Names <- MCNames
  x = x
  s = s
  Works = {x, y}
  Selections = {s, t}
  Initial <- MCInitial
  Absent = Absent
  NoMarker = NoMarker
  MaxViews = 1
  Durable = TRUE
  MaxRevision = 3

SYMMETRY MCSymmetry

INVARIANTS
  CleanMarkerNamesItsPayload

PROPERTIES
  StoresWhatItCaptured
  NothingLostUnasked

\* The bound on revisions ends every behaviour.
CHECK_DEADLOCK FALSE
