\* An operator closes a conversation while a message is being stored in it.
CONSTANTS
  m1 = m1
  m2 = m2
  k1 = k1
  k2 = k2
  d1 = d1
  d2 = d2
  Message = {m1, m2}
  Contact = {k1}
  ContactOf <- SameContact
  Delivery = {d1, d2}
  Batch <- Separate
  Conversation = {c1, c2}
  Handoff = {h1}
  Operator = {op1}
  Agent = agent
  None = None
SPECIFICATION Spec
PROPERTIES ClosedReceivesNothing
CHECK_DEADLOCK FALSE
