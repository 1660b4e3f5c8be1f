---------------------------- MODULE Conversations ----------------------------
(***************************************************************************)
(* Conversations, their handoffs and the inbound messages stored in them   *)
(* (repositories/conversations.py, repositories/messages.py).              *)
(*                                                                         *)
(* A transition of the state machine locks the conversation's row and is   *)
(* one step.  Storing the messages of a webhook is one transaction too,    *)
(* but it finds the open conversation of a contact without locking its     *)
(* row, so it is three steps here: it selects (or inserts) a conversation, *)
(* inserts the message, and commits.  Each delivery of a webhook to a      *)
(* worker is a process; a webhook Meta or a worker repeats is several.     *)
(*                                                                         *)
(* An uncommitted row carries the transaction that wrote it in its field   *)
(* tx and is visible to nobody else.  The columns that follow from the     *)
(* state (automation_suspended_at, closed_at), the version counter, the    *)
(* notes and the audit records are left out.                               *)
(***************************************************************************)
EXTENDS Naturals, Sequences, ConversationStates

CONSTANTS
  Conversation,   \* ids of conversations
  Handoff,        \* ids of handoffs: they bound how often automation is suspended
  Contact,
  Message,        \* provider_message_id of inbound messages
  ContactOf,      \* the sender of a message
  Delivery,       \* runs of persist_inbound_messages_with_context
  Batch,          \* the messages of the webhook each run stores
  Operator,       \* display names of operators
  Agent,          \* settings.agent_name, which requests handoffs
  None

ASSUME ConversationsAssumption ==
  /\ ContactOf \in [Message -> Contact]
  /\ Batch \in [Delivery -> Seq(Message)]
  /\ None \notin Conversation \cup Contact \cup Delivery \cup Operator \cup {Agent}

VARIABLES
  conversation,   \* conversations
  handoff,        \* handoffs
  message,        \* messages with direction INBOUND
  delivery        \* the transaction of each delivery

vars == <<conversation, handoff, message, delivery>>
-----------------------------------------------------------------------------
\* contact = None: no row.  tx: the delivery that has inserted the row and not committed.
ConversationRow ==
  [contact          : Contact \cup {None},
   state            : ConversationState,
   assignedOperator : Operator \cup {None},
   tx               : Delivery \cup {None}]

\* conversation = None: no row
HandoffRow ==
  [conversation : Conversation \cup {None},
   status       : {"OPEN", "TAKEN", "RESOLVED"},
   takenBy      : Operator \cup {None}]

MessageRow ==
  [conversation : Conversation \cup {None},
   tx           : Delivery \cup {None}]

\* next: index of the next message of the batch; chosen: the conversation
\* found for it; locks: contacts whose row and advisory lock it holds.
Transaction ==
  [phase  : {"new", "running", "selected", "done", "aborted"},
   next   : Nat \ {0},
   chosen : Conversation \cup {None},
   locks  : SUBSET Contact]

NoConversation ==
  [contact |-> None, state |-> "AUTOMATED", assignedOperator |-> None, tx |-> None]
NoHandoff == [conversation |-> None, status |-> "OPEN", takenBy |-> None]
NoMessage == [conversation |-> None, tx |-> None]

Init ==
  /\ conversation = [c \in Conversation |-> NoConversation]
  /\ handoff = [h \in Handoff |-> NoHandoff]
  /\ message = [m \in Message |-> NoMessage]
  /\ delivery = [d \in Delivery |->
                   [phase |-> "new", next |-> 1, chosen |-> None, locks |-> {}]]
-----------------------------------------------------------------------------
(***************************************************************************)
(* The state machine.                                                      *)
(***************************************************************************)
ActiveHandoffs(c) ==
  {h \in Handoff : handoff[h].conversation = c /\ handoff[h].status \in {"OPEN", "TAKEN"}}

\* INSERT INTO handoffs
InsertHandoff(c, status, actor) ==
  \E h \in Handoff :
    /\ handoff[h] = NoHandoff
    /\ handoff' = [handoff EXCEPT
         ![h] = [conversation |-> c, status |-> status, takenBy |-> actor]]

\* Mutant of SynchronizeHandoff: taking a conversation does not look for the
\* handoff that was requested.
AlwaysInserts(c, target, actor) ==
  CASE target = "HUMAN_REQUIRED" -> InsertHandoff(c, "OPEN", None)
    [] target = "HUMAN_ACTIVE" -> InsertHandoff(c, "TAKEN", actor)
    [] OTHER ->
         handoff' = [h \in Handoff |->
           IF h \in ActiveHandoffs(c) THEN [handoff[h] EXCEPT !.status = "RESOLVED"]
           ELSE handoff[h]]

\* _synchronize_handoff; the active handoff it looks for is the newest one.
SynchronizeHandoff(c, target, actor) ==
  LET active == ActiveHandoffs(c) IN
  CASE target = "HUMAN_REQUIRED" ->
         IF active = {} THEN InsertHandoff(c, "OPEN", None) ELSE UNCHANGED handoff
    [] target = "HUMAN_ACTIVE" ->
         IF active = {} THEN InsertHandoff(c, "TAKEN", actor)
         ELSE \E h \in active :
                handoff' = [handoff EXCEPT
                  ![h] = [handoff[h] EXCEPT !.status = "TAKEN", !.takenBy = actor]]
    [] OTHER ->
         handoff' = [h \in Handoff |->
           IF h \in active THEN [handoff[h] EXCEPT !.status = "RESOLVED"] ELSE handoff[h]]

\* SELECT ... FOR UPDATE waits for a transaction that has inserted a message
\* into the conversation, whose foreign key holds a lock on the row.
RowFree(c) ==
  /\ conversation[c].contact # None
  /\ conversation[c].tx = None
  /\ \A m \in Message : message[m].conversation = c => message[m].tx = None

\* Mutant of AllowedHere: every state can be left.
AnyMove(c, target) == target # conversation[c].state

\* A move the state machine allows.  Moving to the state it is in changes
\* nothing, and any other move raises InvalidConversationTransition.
AllowedHere(c, target) == target \in AllowedFrom(conversation[c].state)

\* transition_conversation
TransitionConversation(c, target, actor) ==
  /\ RowFree(c)
  /\ AllowedHere(c, target)
  /\ conversation' = [conversation EXCEPT
       ![c] = [conversation[c] EXCEPT
                 !.state = target,
                 !.assignedOperator = IF target = "HUMAN_ACTIVE" THEN actor ELSE None]]
  /\ SynchronizeHandoff(c, target, actor)
  /\ UNCHANGED <<message, delivery>>

\* services/conversation_state.py
RequestHandoff(c, actor)    == TransitionConversation(c, "HUMAN_REQUIRED", actor)
TakeConversation(c, op)     == TransitionConversation(c, "HUMAN_ACTIVE", op)
ReturnToAutomation(c, op)   == TransitionConversation(c, "AUTOMATED", op)
CloseConversation(c, op)    == TransitionConversation(c, "CLOSED", op)
-----------------------------------------------------------------------------
(***************************************************************************)
(* Storing the messages of a webhook.                                      *)
(***************************************************************************)
NextMessage(d) == Batch[d][delivery[d].next]
MoreMessages(d) == delivery[d].next <= Len(Batch[d])

BeginPersist(d) ==
  /\ delivery[d].phase = "new"
  /\ delivery' = [delivery EXCEPT ![d].phase = "running"]
  /\ UNCHANGED <<conversation, handoff, message>>

\* Mutant of LockFree: there is no lock on the contact.
NotLocked(d, k) == TRUE

\* The lock on the contact's row and pg_advisory_xact_lock on its id
LockFree(d, k) == \A e \in Delivery \ {d} : k \notin delivery[e].locks

\* Mutant of OpenConversations: any open conversation of the tenant will do.
OfAnyContact(d, k) ==
  {c \in Conversation : /\ conversation[c].contact # None
                        /\ conversation[c].state # "CLOSED"
                        /\ conversation[c].tx \in {None, d}}

\* What d sees of the open conversations of k
OpenConversations(d, k) ==
  {c \in Conversation : /\ conversation[c].contact = k
                        /\ conversation[c].state # "CLOSED"
                        /\ conversation[c].tx \in {None, d}}

\* _get_or_create_active_conversation: the open conversation of the contact k,
\* or a new one of delivery d
Selects(d, k, c) ==
  /\ \/ /\ c \in OpenConversations(d, k)
        /\ UNCHANGED conversation
     \/ /\ OpenConversations(d, k) = {}
        /\ conversation[c] = NoConversation
        /\ conversation' = [conversation EXCEPT
             ![c] = [NoConversation EXCEPT !.contact = k, !.tx = d]]
  /\ delivery' = [delivery EXCEPT
       ![d] = [delivery[d] EXCEPT
                 !.phase = "selected", !.chosen = c, !.locks = delivery[d].locks \cup {k}]]

\* _upsert_contact, then the conversation
SelectConversation(d) ==
  LET k == ContactOf[NextMessage(d)] IN
  /\ delivery[d].phase = "running"
  /\ MoreMessages(d)
  /\ LockFree(d, k)
  /\ \E c \in Conversation : Selects(d, k, c)
  /\ UNCHANGED <<handoff, message>>

\* INSERT INTO messages ... ON CONFLICT DO NOTHING
Stored(d, m) ==
  IF message[m].conversation = None
  THEN [message EXCEPT ![m] = [conversation |-> delivery[d].chosen, tx |-> d]]
  ELSE message

InsertMessage(d) ==
  /\ delivery[d].phase = "selected"
  /\ message' = Stored(d, NextMessage(d))
  /\ delivery' = [delivery EXCEPT
       ![d] = [delivery[d] EXCEPT
                 !.phase = "running", !.next = delivery[d].next + 1, !.chosen = None]]
  /\ UNCHANGED <<conversation, handoff>>

\* Mutant of Ended: pg_advisory_lock, which outlives the transaction.
EndedKeepingLocks(d, phase) == [delivery[d] EXCEPT !.phase = phase, !.chosen = None]

\* pg_advisory_xact_lock releases with the transaction, whichever way it ends.
Ended(d, phase) == [delivery[d] EXCEPT !.phase = phase, !.locks = {}, !.chosen = None]

CommitPersist(d) ==
  /\ delivery[d].phase = "running"
  /\ ~MoreMessages(d)
  /\ conversation' = [c \in Conversation |->
       IF conversation[c].tx = d THEN [conversation[c] EXCEPT !.tx = None] ELSE conversation[c]]
  /\ message' = [m \in Message |->
       IF message[m].tx = d THEN [message[m] EXCEPT !.tx = None] ELSE message[m]]
  /\ delivery' = [delivery EXCEPT ![d] = Ended(d, "done")]
  /\ UNCHANGED handoff

\* The rows a transaction has written disappear with it.
Rollback(d) ==
  /\ conversation' = [c \in Conversation |->
       IF conversation[c].tx = d THEN NoConversation ELSE conversation[c]]
  /\ message' = [m \in Message |-> IF message[m].tx = d THEN NoMessage ELSE message[m]]
  /\ delivery' = [delivery EXCEPT ![d] = Ended(d, "aborted")]
  /\ UNCHANGED handoff

\* A database error or the death of the worker
AbortPersist(d) ==
  /\ delivery[d].phase \in {"running", "selected"}
  /\ Rollback(d)

\* d waits for a contact that e holds.
WaitsFor(d, e) ==
  /\ d # e
  /\ delivery[d].phase = "running"
  /\ MoreMessages(d)
  /\ ContactOf[NextMessage(d)] \in delivery[e].locks

\* d and other deliveries wait for each other in a circle.
InWaitCycle(d) ==
  \E circle \in SUBSET Delivery :
    /\ d \in circle
    /\ \A e \in circle : /\ \E f \in circle : WaitsFor(e, f)
                         /\ \E f \in circle : WaitsFor(f, e)

\* PostgreSQL ends a transaction of a deadlock.
DetectDeadlock(d) ==
  /\ InWaitCycle(d)
  /\ Rollback(d)
-----------------------------------------------------------------------------
People ==
  \E c \in Conversation :
    \/ \E actor \in Operator \cup {Agent} : RequestHandoff(c, actor)
    \/ \E op \in Operator :
         \/ TakeConversation(c, op)
         \/ ReturnToAutomation(c, op)
         \/ CloseConversation(c, op)

PersistStep(d) ==
  \/ SelectConversation(d)
  \/ InsertMessage(d)
  \/ CommitPersist(d)
  \/ DetectDeadlock(d)

Workers == \E d \in Delivery : BeginPersist(d) \/ PersistStep(d) \/ AbortPersist(d)

Next == People \/ Workers

Spec == Init /\ [][Next]_vars

\* A running worker goes on, and so does the database.
FairSpec == Spec /\ \A d \in Delivery : WF_vars(PersistStep(d))
-----------------------------------------------------------------------------
TypeOK ==
  /\ conversation \in [Conversation -> ConversationRow]
  /\ handoff \in [Handoff -> HandoffRow]
  /\ message \in [Message -> MessageRow]
  /\ delivery \in [Delivery -> Transaction]

\* One handoff is active, with this status and taken by this operator.
OneActive(c, status, operator) ==
  \E h \in Handoff : /\ ActiveHandoffs(c) = {h}
                     /\ handoff[h].status = status
                     /\ handoff[h].takenBy = operator

HandoffMatches(c) ==
  LET row == conversation[c] IN
  CASE row.state = "HUMAN_REQUIRED" -> OneActive(c, "OPEN", None)
    [] row.state = "HUMAN_ACTIVE" -> /\ row.assignedOperator # None
                                     /\ OneActive(c, "TAKEN", row.assignedOperator)
    [] OTHER -> ActiveHandoffs(c) = {} /\ row.assignedOperator = None

\* The handoffs of a conversation mirror its state: one open while a human is
\* required, one taken by the assigned operator while he is active, and none
\* active otherwise.
HandoffMatchesState == \A c \in Conversation : HandoffMatches(c)

\* A contact never has two conversations that are not closed, however many
\* workers store messages of the contact at once.
OneOpenConversation ==
  \A c1, c2 \in Conversation :
    /\ conversation[c1].contact # None
    /\ conversation[c1].contact = conversation[c2].contact
    /\ conversation[c1].state # "CLOSED"
    /\ conversation[c2].state # "CLOSED"
    => c1 = c2

\* A stored message is in a conversation of its sender, and whoever sees the
\* message sees the conversation.
MessageOfItsContact ==
  \A m \in Message :
    LET c == message[m].conversation IN
    c # None => /\ conversation[c].contact = ContactOf[m]
                /\ conversation[c].tx \in {None, message[m].tx}

\* The first messages of a delivery's batch are stored, by an earlier delivery or
\* by this one.
StoredBefore(d) ==
  \A i \in 1 .. Len(Batch[d]) :
    i < delivery[d].next => /\ message[Batch[d][i]].conversation # None
                            /\ message[Batch[d][i]].tx \in {None, d}

\* A delivery that has ended well has lost no message: all of its batch are stored
\* for everybody to see, those that it found stored already included, whichever
\* delivery inserted them and however that one ended.
DoneStoredAll ==
  \A d \in Delivery :
    delivery[d].phase = "done" =>
      \A i \in 1 .. Len(Batch[d]) :
        message[Batch[d][i]].conversation # None /\ message[Batch[d][i]].tx = None

\* Until a delivery ends, what it has gone past is stored: what makes
\* DoneStoredAll inductive.
PrefixStored ==
  \A d \in Delivery : delivery[d].phase \in {"new", "running", "selected"} => StoredBefore(d)

\* A contact is locked by one transaction at a time, and only while it runs.
LocksExclusive ==
  \A d \in Delivery :
    /\ delivery[d].phase \notin {"running", "selected"} => delivery[d].locks = {}
    /\ \A e \in Delivery \ {d} : delivery[d].locks \cap delivery[e].locks = {}

\* Whatever a transaction has written belongs to a contact it has locked.
UncommittedIsLocked ==
  \A d \in Delivery :
    /\ \A c \in Conversation :
         conversation[c].tx = d => /\ conversation[c].contact \in delivery[d].locks
                                  /\ conversation[c].state = "AUTOMATED"
    /\ \A m \in Message : message[m].tx = d => ContactOf[m] \in delivery[d].locks

\* The conversation chosen for a message is one of its sender, and its lock is
\* held until the message is in it.
ChosenIsLocked ==
  \A d \in Delivery :
    delivery[d].phase = "selected" =>
      /\ MoreMessages(d)
      /\ delivery[d].chosen \in Conversation
      /\ conversation[delivery[d].chosen].contact = ContactOf[NextMessage(d)]
      /\ conversation[delivery[d].chosen].tx \in {None, d}
      /\ ContactOf[NextMessage(d)] \in delivery[d].locks

\* A row that is not there has no content, and handoffs are those of
\* conversations everybody sees.
RowsConsistent ==
  /\ \A c \in Conversation :
       conversation[c].contact = None => conversation[c] = NoConversation
  /\ \A m \in Message : message[m].conversation = None => message[m] = NoMessage
  /\ \A h \in Handoff : \A c \in Conversation :
       handoff[h].conversation = c =>
         conversation[c].contact # None /\ conversation[c].tx = None

\* With the properties above, the inductive invariant of ConversationsProofs.
PersistRules ==
  /\ LocksExclusive
  /\ UncommittedIsLocked
  /\ ChosenIsLocked
  /\ RowsConsistent

PersistInvariant == TypeOK /\ PersistRules

\* What is over stays over: a closed conversation and a resolved handoff do
\* not change, a stored message stays where it is, and an active operator is
\* replaced only after the conversation went back or was closed.
HistoryIsKept ==
  [][/\ \A c \in Conversation :
          /\ conversation[c].state = "CLOSED" => conversation'[c] = conversation[c]
          /\ conversation[c].state = "HUMAN_ACTIVE" /\ conversation'[c].state = "HUMAN_ACTIVE" =>
               conversation'[c] = conversation[c]
     /\ \A h \in Handoff : handoff[h].status = "RESOLVED" => handoff'[h] = handoff[h]
     /\ \A m \in Message :
          message[m].conversation # None /\ message[m].tx = None => message'[m] = message[m]]_vars

\* No delivery hangs: contacts locked in opposite orders end as an aborted
\* transaction, whose event is tried again, and never as a standstill.
DeliveriesEnd ==
  \A d \in Delivery :
    delivery[d].phase = "running" ~> delivery[d].phase \in {"done", "aborted"}

\* A closed conversation receives no message.
ClosedReceivesNothing ==
  [][\A m \in Message :
       message[m].conversation = None /\ message'[m].conversation # None =>
         conversation[message'[m].conversation].state # "CLOSED"]_vars
-----------------------------------------------------------------------------
\* The messages of the webhook that d stores
Brought(d) == {Batch[d][i] : i \in 1 .. Len(Batch[d])}

\* A delivery locks and writes for the senders of its own messages only: with the
\* invariants above, what makes its commit a step of Inbox.
TouchesItsBatch ==
  \A d \in Delivery :
    /\ delivery[d].locks \subseteq {ContactOf[m] : m \in Brought(d)}
    /\ \A m \in Message : message[m].tx = d => m \in Brought(d)

\* What everybody sees of the conversations and of the messages
SeenConversations ==
  [c \in Conversation |->
     IF conversation[c].tx = None
     THEN [contact |-> conversation[c].contact, state |-> conversation[c].state]
     ELSE [contact |-> None, state |-> "AUTOMATED"]]
SeenMessages ==
  [m \in Message |-> IF message[m].tx = None THEN message[m].conversation ELSE None]

(***************************************************************************)
(* However deliveries, retries, deadlocks and operators interleave, what   *)
(* is committed changes as Inbox says: a webhook appears as a whole or not *)
(* at all, and no two of its workers open a conversation for one contact.  *)
(***************************************************************************)
Committed == INSTANCE Inbox WITH
  Batches <- {Brought(d) : d \in Delivery},
  conversation <- SeenConversations,
  message <- SeenMessages

ImplementsInbox == Committed!Spec
=============================================================================
