SPECIFICATION Spec

CONSTANTS
  c1 = c1
  c2 = c2
  c3 = c3
  s1 = s1
  s2 = s2
  p1 = p1
  p2 = p2
  Callers = {c1, c2, c3}
  Stores = {s1, s2}
  Processes = {p1, p2}
  NoOne = NoOne
  StoreOf <- MCStoreOf
  ProcessOf <- Apart
  Names = {a, b}
  Queries = {q1, q2}
  TooLong = {long}
  Nothing = Nothing
  Torn = Torn
  Strange = Strange
  MaxSaved = 2
  MaxHistory = 1
  MaxEntries = 2
  MaxRequests = 2

INVARIANTS
  NeverHalfWritten

PROPERTIES
  LosesNothingElse
  StoreAnswers

\* The bound on requests ends every behaviour.
CHECK_DEADLOCK FALSE
