\* Passes over messages and settings of every kind, alone or overlapping, failing
\* at any point, slow or punctual.
CONSTANTS
  p1 = p1
  p2 = p2
  safe = safe
  priced = priced
  risky = risky
  sound = sound
  unsound = unsound
  question = question
  complaint = complaint
  offer = offer
  greeting = greeting
  Evidence = {complaint, offer, greeting}
  NoText = NoText
  Pass = {p1, p2}
  Content = {safe, risky}
  LowRisk = {safe}
  Question = question
  Draft = {sound, unsound}
  Supported <- SafeTexts
  Proper = {question, sound}
  Setups <- AllSetups
  FaultSets <- AllFaults
  None = None
SPECIFICATION FairSpec
INVARIANTS LeaseHolderCalls ResultOfLastClaim StagedAfterGeneration PipelineInvariant
PROPERTIES GenerationIsFinal VerifiedIfAlone LeftToSomebody MessageSettled
CHECK_DEADLOCK FALSE
