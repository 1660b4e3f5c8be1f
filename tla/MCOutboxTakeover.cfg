\* A message approved before an operator takes its conversation.
CONSTANTS
  Outbound = {o1}
  c1 = c1
  Conversation <- OneConversation
  ConversationOf <- AllOfOne
  Request = {r1}
  Body = {b1}
  OutboundModes = {"REVIEW_REQUIRED", "AUTO_LOW_RISK"}
  None = None
  Crashes = FALSE
  Punctual = TRUE
SPECIFICATION Spec
PROPERTIES SilentAfterTakeover
