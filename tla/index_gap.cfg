SPECIFICATION Spec
CONSTANTS
  Procs = {1, 2}
  Ids = {1}
  Texts = {"a", "b"}
  Scenarios <- Updating
  Retries = 1
INVARIANTS
  IndexFollows
CHECK_DEADLOCK FALSE
