SPECIFICATION LockSpec

CONSTANTS
  picture = picture
  change = change
  look = look
  saving = saving
  socket = socket
  Nobody = Nobody
  Callers <- MCCallers
  Calls <- MCCalls

PROPERTIES
  PicturesHoldUpNobody

\* Callers that are done stop.
CHECK_DEADLOCK FALSE
