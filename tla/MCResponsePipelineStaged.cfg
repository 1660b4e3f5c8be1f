\* Two passes that overlap and do not fail.
CONSTANTS
  p1 = p1
  p2 = p2
  safe = safe
  priced = priced
  risky = risky
  sound = sound
  unsound = unsound
  question = question
  complaint = complaint
  offer = offer
  greeting = greeting
  Evidence = {complaint, offer, greeting}
  NoText = NoText
  Pass = {p1, p2}
  Content = {safe, priced}
  LowRisk <- SafeAndPriced
  Question = question
  Draft = {sound, unsound}
  Supported <- SupportedTexts
  Proper = {question, sound}
  Setups <- DraftedAnswer
  FaultSets <- OverlapOnly
  None = None
SPECIFICATION Spec
PROPERTIES StagedTextWasVerified
CHECK_DEADLOCK FALSE
