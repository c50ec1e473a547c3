SPECIFICATION FairSpec
CONSTANTS
  n1 = n1
  n2 = n2
  Runners = {n1, n2}
  MaxTasks = 2
INVARIANTS
  DispatchedOnce
  OneRunnerExecutes
PROPERTIES
  EndedStaysEnded
  ActiveTaskEnds
CHECK_DEADLOCK FALSE
