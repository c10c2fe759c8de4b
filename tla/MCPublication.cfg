SPECIFICATION Spec

CONSTANTS
  k1 = k1
  k2 = k2
  o1 = o1
  Clients <- MCClients
  Others <- MCOthers
  BusCapacity = 1
  MaxRequests = 1
  MaxAttaches = 2

INVARIANTS
  ShownMeetsTheBus

PROPERTIES
  KeepsThePromise
  ClientsCatchUp
  RequestsEnd

\* Once every caller has made its requests and every client has left for the
\* last time, nothing is left to do.
CHECK_DEADLOCK FALSE
