\* Two webhooks that bring the messages of two contacts in opposite orders, so
\* that each message comes twice and locks are taken in both orders, while two
\* operators and the assistant move the conversations.
CONSTANTS
  m1 = m1
  m2 = m2
  k1 = k1
  k2 = k2
  d1 = d1
  d2 = d2
  Message = {m1, m2}
  Contact = {k1, k2}
  ContactOf <- ContactOfMessage
  Delivery = {d1, d2}
  Batch <- Opposite
  Conversation = {c1, c2, c3, c4}
  Handoff = {h1, h2}
  Operator = {op1, op2}
  Agent = agent
  None = None
SPECIFICATION FairSpec
INVARIANTS HandoffMatchesState OneOpenConversation PersistInvariant
  DoneStoredAll
PROPERTIES HistoryIsKept DeliveriesEnd ImplementsInbox
CHECK_DEADLOCK FALSE
