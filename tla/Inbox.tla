-------------------------------- MODULE Inbox --------------------------------
(***************************************************************************)
(* What storing a webhook promises, without transactions, locks or         *)
(* workers: the messages of a batch appear all at once, each in a          *)
(* conversation of its sender that everybody sees, and a conversation is   *)
(* opened for a sender who has none open and for nobody else.  Between     *)
(* batches people move conversations along their states.                   *)
(***************************************************************************)
EXTENDS ConversationStates

CONSTANTS
  Conversation,
  Contact,
  Message,
  ContactOf,      \* the sender of a message
  Batches,        \* the sets of messages that webhooks bring
  None

VARIABLES
  conversation,   \* contact and state of each conversation
  message         \* the conversation each message is in

vars == <<conversation, message>>

NoConversation == [contact |-> None, state |-> "AUTOMATED"]

Init ==
  /\ conversation = [c \in Conversation |-> NoConversation]
  /\ message = [m \in Message |-> None]

Move(c) ==
  /\ conversation[c].contact # None
  /\ \E target \in AllowedFrom(conversation[c].state) :
       conversation' = [conversation EXCEPT ![c] = [conversation[c] EXCEPT !.state = target]]
  /\ UNCHANGED message

\* c is opened for a sender of the batch.
Opens(c, batch) ==
  /\ conversation[c] = NoConversation
  /\ \E m \in batch : conversation'[c] = [NoConversation EXCEPT !.contact = ContactOf[m]]

OneOpen ==
  \A c1, c2 \in Conversation :
    /\ conversation[c1].contact # None
    /\ conversation[c1].contact = conversation[c2].contact
    /\ conversation[c1].state # "CLOSED"
    /\ conversation[c2].state # "CLOSED"
    => c1 = c2

Deliver(batch) ==
  /\ conversation' \in
       [Conversation -> [contact : Contact \cup {None}, state : ConversationState]]
  /\ message' \in [Message -> Conversation \cup {None}]
  /\ \A c \in Conversation : conversation'[c] = conversation[c] \/ Opens(c, batch)
  /\ OneOpen'
  /\ \A m \in Message :
       IF m \in batch /\ message[m] = None
       THEN /\ message'[m] # None
            /\ conversation'[message'[m]].contact = ContactOf[m]
       ELSE message'[m] = message[m]

Next == (\E c \in Conversation : Move(c)) \/ (\E batch \in Batches : Deliver(batch))

Spec == Init /\ [][Next]_vars
=============================================================================
