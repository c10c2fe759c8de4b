SPECIFICATION Spec

CONSTANTS
  j1 = j1
  j2 = j2
  Jobs <- MCJobs
  a = a
  b = b
  Names <- MCNames
  x = x
  s = s
  Works = {x, y}
  Selections = {s}
  Initial <- MCInitial
  Absent = Absent
  NoMarker = NoMarker
  MaxViews = 1
  Durable = FALSE
  MaxRevision = 4

INVARIANTS
  NoOlderPayloadUnderCleanMarker

\* The bound on revisions ends every behaviour.
CHECK_DEADLOCK FALSE
