\* One message under review in every mode while its plan is rewritten and its
\* conversation moves; two calls that neither die nor outlive their leases.
CONSTANTS
  Outbound = {o1}
  c1 = c1
  Conversation <- OneConversation
  ConversationOf <- AllOfOne
  Request = {r1, r2}
  Body = {b1, b2}
  OutboundModes = {"DISABLED", "REVIEW_REQUIRED", "AUTO_LOW_RISK"}
  None = None
  Crashes = FALSE
  Punctual = TRUE
SPECIFICATION FairSpec
INVARIANTS OnlyApprovedPosted AcceptedAtMostOnce
PROPERTIES ClaimedCallConcludes ImplementsReviewedSend
