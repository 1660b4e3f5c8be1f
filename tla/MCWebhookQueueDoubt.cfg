\* One call whose push is carried out and reported as failed.
CONSTANTS
  p1 = p1
  Event <- OneEvent
  Post = {p1}
  EventOf <- Brought
  Worker = {w1}
  MaxAttempts = 3
  None = None
  FaultSets <- Doubtful
SPECIFICATION Spec
PROPERTIES ProcessedIsFinal
CHECK_DEADLOCK FALSE
