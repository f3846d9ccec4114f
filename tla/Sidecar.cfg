CONSTANTS
  Conns = {c1}
  MaxRequests = 3
  MaxCancels = 1
SPECIFICATION Spec
CHECK_DEADLOCK FALSE
INVARIANTS TableIsTrue
PROPERTIES CancelEndsTheCall LetGoCursorsClose UnheldProcessEnds
