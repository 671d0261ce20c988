SPECIFICATION Spec
CONSTANTS
  Procs = {1, 2}
  Ids = {1}
  Texts = {"a", "b"}
  Scenarios <- Starting
  Retries = 1
INVARIANTS
  TypeOK
  BuildersAlone
  IndexComplete
CHECK_DEADLOCK FALSE
PROPERTIES
  BootSurvives
  ClusterRecovers
  StopEnds
