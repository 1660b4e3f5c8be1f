\* Three calls of one event and two workers; every process may die at any
\* point and replies to BLPOP be lost while Redis refuses pushes or is sent them
\* twice, or its errors may be wrong.
CONSTANTS
  p1 = p1
  Event <- OneEvent
  Post = {p1, p2, p3}
  EventOf <- Brought
  Worker = {w1, w2}
  MaxAttempts = 3
  None = None
  FaultSets <- DyingOrDoubtful
SPECIFICATION FairSpec
INVARIANTS QueueInvariant ClaimIsExclusive AttemptsBounded UnfinishedIsCarried
PROPERTIES ProcessedIsKept EventsConclude
CHECK_DEADLOCK FALSE
