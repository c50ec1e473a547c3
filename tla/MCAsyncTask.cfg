SPECIFICATION FairSpec
CONSTANTS
  n1 = n1
  n2 = n2
  Nodes = {n1, n2}
  PollersOf <- OverlappingPollers
  Platforms = {"suno", "video", "gemini"}
  Quotas = {0, 1}
  Targets = {1, 2}
  MaxFaults = 2
INVARIANTS
  PaidOnce
PROPERTIES
  EndedStaysEnded
  DecisionIsCharged
  EventuallyBilled
CHECK_DEADLOCK FALSE
