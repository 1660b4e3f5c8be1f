\* One pass that does not fail.
CONSTANTS
  p1 = p1
  p2 = p2
  safe = safe
  priced = priced
  risky = risky
  sound = sound
  unsound = unsound
  question = question
  complaint = complaint
  offer = offer
  greeting = greeting
  Evidence = {complaint, offer, greeting}
  NoText = NoText
  Pass = {p1}
  Content = {safe, priced, risky}
  LowRisk <- SafeAndPriced
  Question = question
  Draft = {sound, unsound}
  Supported <- SupportedTexts
  Proper = {question, sound}
  Setups <- AnyAnswer
  FaultSets <- NoFault
  None = None
SPECIFICATION FairSpec
PROPERTIES HandoffReachesPerson
CHECK_DEADLOCK FALSE
