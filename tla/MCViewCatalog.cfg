SPECIFICATION Spec

CONSTANTS
  Viewers = {v1, v2}
  NoOne = NoOne
  Names = {a, b}
  Payloads = {p1, p2}
  Strange = {old}
  Absent = Absent
  Unreadable = Unreadable
  MaxViews = 1
  MaxRequests = 3
  MaxLosses = 1

INVARIANTS
  AcknowledgedSurvives

PROPERTIES
  ImplementsCatalog
  RequestsAreAnswered

\* The bound on requests ends every behaviour.
CHECK_DEADLOCK FALSE
