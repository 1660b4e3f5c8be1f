\* One message, three calls of the send endpoint that may die or outlive
\* their leases.
CONSTANTS
  Outbound = {o1}
  c1 = c1
  Conversation <- OneConversation
  ConversationOf <- AllOfOne
  Request = {r1, r2, r3}
  Body = {b1}
  OutboundModes = {"REVIEW_REQUIRED"}
  None = None
  Crashes = TRUE
  Punctual = FALSE
SPECIFICATION Spec
SYMMETRY Interchangeable
INVARIANTS SendInvariant OutcomeOfNewestAttempt LeaseOfNewestAttempt
  SentWasAccepted FailedWasNotAccepted DeliveryIsFurthestReported EndedCallsConclude
PROPERTIES DecisionsAreFinal ImplementsReviewedSend
CONSTRAINT SourcesSettled
