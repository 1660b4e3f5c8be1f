------------------------- MODULE ConversationsProofs -------------------------
(***************************************************************************)
(* Proofs about Conversations, for any number of contacts, conversations,  *)
(* messages, deliveries and operators.                                     *)
(***************************************************************************)
EXTENDS Conversations, TLAPS

\* The moves people can make, as transitions with their targets and actors
LEMMA PeopleMove ==
  ASSUME People
  PROVE  \E c \in Conversation, target \in ConversationState, actor \in Operator \cup {Agent} :
           /\ TransitionConversation(c, target, actor)
           /\ target = "HUMAN_ACTIVE" => actor \in Operator
BY DEF People, RequestHandoff, TakeConversation, ReturnToAutomation, CloseConversation,
       ConversationState

\* Every step of the module, one action per line
LEMMA NextCases ==
  ASSUME Next
  PROVE  \/ \E c \in Conversation, target \in ConversationState,
                actor \in Operator \cup {Agent} :
              /\ TransitionConversation(c, target, actor)
              /\ target = "HUMAN_ACTIVE" => actor \in Operator
         \/ \E d \in Delivery : BeginPersist(d)
         \/ \E d \in Delivery : SelectConversation(d)
         \/ \E d \in Delivery : InsertMessage(d)
         \/ \E d \in Delivery : CommitPersist(d)
         \/ \E d \in Delivery : Rollback(d)
BY PeopleMove DEF Next, Workers, PersistStep, AbortPersist, DetectDeadlock

LEMMA NextMessageType ==
  ASSUME TypeOK, NEW d \in Delivery, MoreMessages(d)
  PROVE  NextMessage(d) \in Message /\ ContactOf[NextMessage(d)] \in Contact
<1>1. Batch[d] \in Seq(Message) /\ ContactOf \in [Message -> Contact]
  BY ConversationsAssumption
<1>2. delivery[d].next \in Nat \ {0}
  BY DEF TypeOK, Transaction
<1>3. delivery[d].next \in 1 .. Len(Batch[d])
  BY <1>1, <1>2 DEF MoreMessages
<1>4. Batch[d][delivery[d].next] \in Message
  BY <1>1, <1>3
<1>5. QED
  BY <1>1, <1>4 DEF NextMessage

-----------------------------------------------------------------------------
(***************************************************************************)
(* Type correctness.                                                       *)
(***************************************************************************)

LEMMA TypeInit == Init => TypeOK
BY DEF Init, TypeOK, ConversationRow, HandoffRow, MessageRow, Transaction, NoConversation,
       NoHandoff, NoMessage, ConversationState

\* Synchronizing a conversation's handoffs keeps the type of the table.
LEMMA SynchronizedType ==
  ASSUME TypeOK, NEW c \in Conversation, NEW target \in ConversationState,
         NEW actor \in Operator \cup {Agent},
         target = "HUMAN_ACTIVE" => actor \in Operator,
         SynchronizeHandoff(c, target, actor)
  PROVE  handoff' \in [Handoff -> HandoffRow]
<1> USE DEF TypeOK, HandoffRow
<1>1. CASE target = "HUMAN_REQUIRED"
  BY <1>1 DEF SynchronizeHandoff, InsertHandoff
<1>2. CASE target = "HUMAN_ACTIVE"
  <2>1. CASE ActiveHandoffs(c) = {}
    BY <1>2, <2>1 DEF SynchronizeHandoff, InsertHandoff
  <2>2. CASE ActiveHandoffs(c) # {}
    <3>1. PICK h \in ActiveHandoffs(c) :
            handoff' = [handoff EXCEPT
              ![h] = [handoff[h] EXCEPT !.status = "TAKEN", !.takenBy = actor]]
      BY <1>2, <2>2 DEF SynchronizeHandoff
    <3>2. h \in Handoff
      BY DEF ActiveHandoffs
    <3>3. QED
      BY <1>2, <3>1, <3>2
  <2>3. QED
    BY <2>1, <2>2
<1>3. CASE target \notin {"HUMAN_REQUIRED", "HUMAN_ACTIVE"}
  <2>1. handoff' = [h \in Handoff |->
          IF h \in ActiveHandoffs(c) THEN [handoff[h] EXCEPT !.status = "RESOLVED"]
          ELSE handoff[h]]
    BY <1>3 DEF SynchronizeHandoff
  <2>2. QED
    BY <2>1
<1>4. QED
  BY <1>1, <1>2, <1>3

LEMMA TypeStep == TypeOK /\ [Next]_vars => TypeOK'
<1> SUFFICES ASSUME TypeOK, [Next]_vars PROVE TypeOK'
  OBVIOUS
<1>1. ASSUME NEW c \in Conversation, NEW target \in ConversationState,
             NEW actor \in Operator \cup {Agent}, TransitionConversation(c, target, actor),
             target = "HUMAN_ACTIVE" => actor \in Operator
      PROVE  TypeOK'
  <2>1. conversation' \in [Conversation -> ConversationRow]
    BY <1>1 DEF TransitionConversation, TypeOK, ConversationRow
  <2>2. handoff' \in [Handoff -> HandoffRow]
    BY <1>1, SynchronizedType DEF TransitionConversation
  <2>3. QED
    BY <1>1, <2>1, <2>2 DEF TransitionConversation, TypeOK
<1>2. ASSUME NEW d \in Delivery, BeginPersist(d) PROVE TypeOK'
  BY <1>2 DEF BeginPersist, TypeOK, Transaction
<1>3. ASSUME NEW d \in Delivery, SelectConversation(d) PROVE TypeOK'
  <2>1. ContactOf[NextMessage(d)] \in Contact
    BY <1>3, NextMessageType DEF SelectConversation
  <2> DEFINE k == ContactOf[NextMessage(d)]
  <2>5. PICK c \in Conversation : Selects(d, k, c)
    BY <1>3 DEF SelectConversation
  <2>2. conversation' \in [Conversation -> ConversationRow]
    <3>1. [NoConversation EXCEPT !.contact = k, !.tx = d] \in ConversationRow
      BY <2>1 DEF ConversationRow, NoConversation, ConversationState
    <3>2. QED
      BY <2>5, <3>1 DEF Selects, TypeOK
  <2>3. delivery' \in [Delivery -> Transaction]
    <3>1. [delivery[d] EXCEPT !.phase = "selected", !.chosen = c,
                              !.locks = delivery[d].locks \cup {k}] \in Transaction
      BY <2>1 DEF TypeOK, Transaction
    <3>2. QED
      BY <2>5, <3>1 DEF Selects, TypeOK
  <2>4. QED
    BY <1>3, <2>2, <2>3 DEF SelectConversation, TypeOK
<1>4. ASSUME NEW d \in Delivery, InsertMessage(d) PROVE TypeOK'
  <2>1. message' \in [Message -> MessageRow]
    BY <1>4 DEF InsertMessage, Stored, TypeOK, MessageRow, Transaction
  <2>2. delivery' \in [Delivery -> Transaction]
    <3>1. [delivery[d] EXCEPT !.phase = "running", !.next = delivery[d].next + 1,
                              !.chosen = None] \in Transaction
      <4>1. /\ delivery[d] \in Transaction
            /\ delivery[d].next + 1 \in Nat \ {0}
        BY DEF TypeOK, Transaction
      <4>2. PICK n \in Nat \ {0} : n = delivery[d].next + 1
        BY <4>1
      <4>3. [delivery[d] EXCEPT !.phase = "running", !.next = n, !.chosen = None] \in Transaction
        BY <4>1 DEF Transaction
      <4>4. QED
        BY <4>2, <4>3
    <3>2. QED
      BY <1>4, <3>1 DEF InsertMessage, TypeOK
  <2>3. QED
    BY <1>4, <2>1, <2>2 DEF InsertMessage, TypeOK
<1>5. ASSUME NEW d \in Delivery, CommitPersist(d) PROVE TypeOK'
  <2>1. conversation' \in [Conversation -> ConversationRow]
    BY <1>5 DEF CommitPersist, TypeOK, ConversationRow
  <2>2. message' \in [Message -> MessageRow]
    BY <1>5 DEF CommitPersist, TypeOK, MessageRow
  <2>3. delivery' \in [Delivery -> Transaction]
    BY <1>5 DEF CommitPersist, Ended, TypeOK, Transaction
  <2>4. QED
    BY <1>5, <2>1, <2>2, <2>3 DEF CommitPersist, TypeOK
<1>6. ASSUME NEW d \in Delivery, Rollback(d) PROVE TypeOK'
  <2>1. conversation' \in [Conversation -> ConversationRow]
    BY <1>6 DEF Rollback, TypeOK, ConversationRow, NoConversation, ConversationState
  <2>2. message' \in [Message -> MessageRow]
    BY <1>6 DEF Rollback, TypeOK, MessageRow, NoMessage
  <2>3. delivery' \in [Delivery -> Transaction]
    BY <1>6 DEF Rollback, Ended, TypeOK, Transaction
  <2>4. QED
    BY <1>6, <2>1, <2>2, <2>3 DEF Rollback, TypeOK
<1>7. CASE UNCHANGED vars
  BY <1>7 DEF TypeOK, vars
<1>8. QED
  BY <1>1, <1>2, <1>3, <1>4, <1>5, <1>6, <1>7, NextCases

\* The variables keep their types.
THEOREM TypeCorrect == Spec => []TypeOK
BY TypeInit, TypeStep, PTL DEF Spec

-----------------------------------------------------------------------------
(***************************************************************************)
(* What the steps do to the rows, one field at a time.                     *)
(***************************************************************************)

LEMMA NoneIsNobody ==
  /\ None \notin Conversation
  /\ None \notin Contact
  /\ None \notin Delivery
  /\ None \notin Operator
BY ConversationsAssumption

\* A transition changes the state and the operator of a conversation everybody sees.
LEMMA TransitionRows ==
  ASSUME TypeOK, NEW c \in Conversation, NEW target, NEW actor,
         TransitionConversation(c, target, actor)
  PROVE  /\ conversation[c].contact # None
         /\ conversation[c].tx = None
         /\ conversation'[c].contact = conversation[c].contact
         /\ conversation'[c].tx = None
         /\ conversation'[c].state = target
         /\ conversation'[c].assignedOperator
              = IF target = "HUMAN_ACTIVE" THEN actor ELSE None
         /\ \A x \in Conversation \ {c} : conversation'[x] = conversation[x]
BY DEF TransitionConversation, RowFree, TypeOK, ConversationRow

\* Synchronizing leaves every handoff alone but the active ones of the
\* conversation and a row that was not there.
LEMMA SynchronizedRows ==
  ASSUME TypeOK, NEW c \in Conversation, NEW target, NEW actor,
         SynchronizeHandoff(c, target, actor)
  PROVE  \A h \in Handoff :
           \/ handoff'[h] = handoff[h]
           \/ h \in ActiveHandoffs(c) /\ handoff'[h].conversation = c
           \/ handoff[h] = NoHandoff /\ handoff'[h].conversation = c
<1> USE DEF TypeOK, HandoffRow
<1>1. ASSUME NEW status, NEW a, InsertHandoff(c, status, a)
      PROVE  \A h \in Handoff :
               \/ handoff'[h] = handoff[h]
               \/ handoff[h] = NoHandoff /\ handoff'[h].conversation = c
  BY <1>1 DEF InsertHandoff
<1>2. CASE target = "HUMAN_REQUIRED"
  BY <1>1, <1>2 DEF SynchronizeHandoff
<1>3. CASE target = "HUMAN_ACTIVE"
  <2>1. CASE ActiveHandoffs(c) = {}
    BY <1>1, <1>3, <2>1 DEF SynchronizeHandoff
  <2>2. CASE ActiveHandoffs(c) # {}
    <3>1. PICK g \in ActiveHandoffs(c) :
            handoff' = [handoff EXCEPT
              ![g] = [handoff[g] EXCEPT !.status = "TAKEN", !.takenBy = actor]]
      BY <1>3, <2>2 DEF SynchronizeHandoff
    <3>2. g \in Handoff /\ handoff[g].conversation = c
      BY DEF ActiveHandoffs
    <3>3. QED
      BY <3>1, <3>2
  <2>3. QED
    BY <2>1, <2>2
<1>4. CASE target \notin {"HUMAN_REQUIRED", "HUMAN_ACTIVE"}
  <2>1. handoff' = [h \in Handoff |->
          IF h \in ActiveHandoffs(c) THEN [handoff[h] EXCEPT !.status = "RESOLVED"]
          ELSE handoff[h]]
    BY <1>4 DEF SynchronizeHandoff
  <2>2. \A h \in ActiveHandoffs(c) : h \in Handoff /\ handoff[h].conversation = c
    BY DEF ActiveHandoffs
  <2>3. QED
    BY <2>1, <2>2
<1>5. QED
  BY <1>2, <1>3, <1>4

\* A conversation that is closed is not left, and no move is to where it is.
LEMMA TransitionMoves ==
  ASSUME TypeOK, NEW c \in Conversation, NEW target, NEW actor,
         TransitionConversation(c, target, actor)
  PROVE  /\ conversation[c].state # "CLOSED"
         /\ target # conversation[c].state
         /\ target = "HUMAN_REQUIRED" => conversation[c].state = "AUTOMATED"
<1>1. conversation[c].state \in ConversationState
  BY DEF TypeOK, ConversationRow
<1>2. QED
  BY <1>1 DEF TransitionConversation, AllowedHere, AllowedFrom, ConversationState

\* Selecting leaves every conversation alone but a row that was not there.
LEMMA SelectRows ==
  ASSUME TypeOK, NEW d \in Delivery, SelectConversation(d)
  PROVE  \E c \in Conversation, k \in Contact :
           /\ k = ContactOf[NextMessage(d)]
           /\ LockFree(d, k)
           /\ delivery[d].phase = "running" /\ MoreMessages(d)
           /\ delivery'[d].phase = "selected"
           /\ delivery'[d].chosen = c
           /\ delivery'[d].next = delivery[d].next
           /\ delivery'[d].locks = delivery[d].locks \cup {k}
           /\ \A e \in Delivery \ {d} : delivery'[e] = delivery[e]
           /\ conversation'[c].contact = k
           /\ conversation'[c].tx \in {None, d}
           /\ \A x \in Conversation \ {c} : conversation'[x] = conversation[x]
           /\ \/ conversation' = conversation
              \/ /\ conversation[c] = NoConversation
                 /\ OpenConversations(d, k) = {}
                 /\ conversation'[c].state = "AUTOMATED"
                 /\ conversation'[c].assignedOperator = None
                 /\ conversation'[c].tx = d
<1>1. PICK k \in Contact : k = ContactOf[NextMessage(d)]
  BY NextMessageType DEF SelectConversation
<1>2. PICK c \in Conversation : Selects(d, k, c)
  BY <1>1 DEF SelectConversation
<1>3. /\ LockFree(d, k)
      /\ delivery[d].phase = "running" /\ MoreMessages(d)
  BY <1>1 DEF SelectConversation
<1>4. /\ delivery'[d].phase = "selected"
      /\ delivery'[d].chosen = c
      /\ delivery'[d].next = delivery[d].next
      /\ delivery'[d].locks = delivery[d].locks \cup {k}
      /\ \A e \in Delivery \ {d} : delivery'[e] = delivery[e]
  BY <1>2 DEF Selects, TypeOK, Transaction
<1>5. CASE c \in OpenConversations(d, k) /\ UNCHANGED conversation
  BY <1>1, <1>3, <1>4, <1>5 DEF OpenConversations
<1>6. CASE /\ OpenConversations(d, k) = {}
           /\ conversation[c] = NoConversation
           /\ conversation' = [conversation EXCEPT
                ![c] = [NoConversation EXCEPT !.contact = k, !.tx = d]]
  <2>1. conversation'[c] = [NoConversation EXCEPT !.contact = k, !.tx = d]
    BY <1>6 DEF TypeOK
  <2>2. \A x \in Conversation \ {c} : conversation'[x] = conversation[x]
    BY <1>6 DEF TypeOK
  <2>3. /\ conversation'[c].contact = k
        /\ conversation'[c].tx = d
        /\ conversation'[c].state = "AUTOMATED"
        /\ conversation'[c].assignedOperator = None
    BY <2>1 DEF NoConversation
  <2>4. QED
    BY <1>1, <1>3, <1>4, <1>6, <2>2, <2>3
<1>7. QED
  BY <1>2, <1>5, <1>6 DEF Selects

\* Inserting writes one message, or none.
LEMMA InsertRows ==
  ASSUME TypeOK, NEW d \in Delivery, InsertMessage(d)
  PROVE  /\ delivery[d].phase = "selected"
         /\ delivery'[d].phase = "running"
         /\ delivery'[d].locks = delivery[d].locks
         /\ \A e \in Delivery \ {d} : delivery'[e] = delivery[e]
         /\ conversation' = conversation
         /\ handoff' = handoff
         /\ \A m \in Message :
              \/ message'[m] = message[m]
              \/ /\ m = NextMessage(d)
                 /\ message[m].conversation = None
                 /\ message'[m].conversation = delivery[d].chosen
                 /\ message'[m].tx = d
BY DEF InsertMessage, Stored, TypeOK, MessageRow, Transaction

\* Committing makes the rows of the transaction visible as they are.
LEMMA CommitRows ==
  ASSUME TypeOK, NEW d \in Delivery, CommitPersist(d)
  PROVE  /\ delivery'[d].phase = "done"
         /\ delivery'[d].locks = {}
         /\ \A e \in Delivery \ {d} : delivery'[e] = delivery[e]
         /\ handoff' = handoff
         /\ \A c \in Conversation :
              /\ conversation'[c].contact = conversation[c].contact
              /\ conversation'[c].state = conversation[c].state
              /\ conversation'[c].assignedOperator = conversation[c].assignedOperator
              /\ conversation'[c].tx = IF conversation[c].tx = d THEN None
                                       ELSE conversation[c].tx
              /\ conversation[c].tx # d => conversation'[c] = conversation[c]
         /\ \A m \in Message :
              /\ message'[m].conversation = message[m].conversation
              /\ message'[m].tx = IF message[m].tx = d THEN None ELSE message[m].tx
              /\ message[m].tx # d => message'[m] = message[m]
BY DEF CommitPersist, Ended, TypeOK, ConversationRow, MessageRow, Transaction

\* Rolling back removes them.
LEMMA RollbackRows ==
  ASSUME TypeOK, NEW d \in Delivery, Rollback(d)
  PROVE  /\ delivery'[d].phase = "aborted"
         /\ delivery'[d].locks = {}
         /\ \A e \in Delivery \ {d} : delivery'[e] = delivery[e]
         /\ handoff' = handoff
         /\ \A c \in Conversation :
              conversation'[c] = IF conversation[c].tx = d THEN NoConversation
                                 ELSE conversation[c]
         /\ \A m \in Message :
              message'[m] = IF message[m].tx = d THEN NoMessage ELSE message[m]
BY DEF Rollback, Ended, TypeOK, Transaction

\* Beginning only starts the transaction.
LEMMA BeginRows ==
  ASSUME TypeOK, NEW d \in Delivery, BeginPersist(d)
  PROVE  /\ delivery[d].phase = "new"
         /\ delivery'[d].phase = "running"
         /\ delivery'[d].locks = delivery[d].locks
         /\ \A e \in Delivery \ {d} : delivery'[e] = delivery[e]
         /\ UNCHANGED <<conversation, handoff, message>>
BY DEF BeginPersist, TypeOK, Transaction

-----------------------------------------------------------------------------
(***************************************************************************)
(* The parts of the inductive invariant.                                   *)
(***************************************************************************)

LEMMA PersistInit == Init => PersistRules
<1> SUFFICES ASSUME Init PROVE PersistRules
  OBVIOUS
<1>1. LocksExclusive
  BY DEF Init, LocksExclusive
<1>2. UncommittedIsLocked
  BY NoneIsNobody DEF Init, UncommittedIsLocked, NoConversation, NoMessage
<1>3. ChosenIsLocked
  BY DEF Init, ChosenIsLocked
<1>4. RowsConsistent
  BY NoneIsNobody DEF Init, RowsConsistent, NoHandoff
<1>5. QED
  BY <1>1, <1>2, <1>3, <1>4 DEF PersistRules

\* Selecting takes a free lock; committing and rolling back give all locks up.
LEMMA LocksStep == TypeOK /\ LocksExclusive /\ [Next]_vars => LocksExclusive'
<1> SUFFICES ASSUME TypeOK, LocksExclusive, [Next]_vars PROVE LocksExclusive'
  OBVIOUS
<1>1. ASSUME NEW d \in Delivery, BeginPersist(d) PROVE LocksExclusive'
  BY <1>1, BeginRows DEF LocksExclusive
<1>2. ASSUME NEW d \in Delivery, SelectConversation(d) PROVE LocksExclusive'
  <2>1. PICK k \in Contact :
          /\ LockFree(d, k)
          /\ delivery'[d].phase = "selected"
          /\ delivery'[d].locks = delivery[d].locks \cup {k}
          /\ \A e \in Delivery \ {d} : delivery'[e] = delivery[e]
    BY <1>2, SelectRows
  <2>2. QED
    BY <2>1 DEF LocksExclusive, LockFree
<1>3. ASSUME NEW d \in Delivery, InsertMessage(d) PROVE LocksExclusive'
  BY <1>3, InsertRows DEF LocksExclusive
<1>4. ASSUME NEW d \in Delivery, CommitPersist(d) PROVE LocksExclusive'
  BY <1>4, CommitRows DEF LocksExclusive
<1>5. ASSUME NEW d \in Delivery, Rollback(d) PROVE LocksExclusive'
  BY <1>5, RollbackRows DEF LocksExclusive
<1>6. CASE UNCHANGED delivery
  BY <1>6 DEF LocksExclusive
<1>7. QED
  BY <1>1, <1>2, <1>3, <1>4, <1>5, <1>6, NextCases DEF TransitionConversation, vars

\* A row is written under the lock of its contact, and the lock is given up
\* with the last such row.
LEMMA UncommittedStep ==
  TypeOK /\ PersistRules /\ [Next]_vars => UncommittedIsLocked'
<1> SUFFICES ASSUME TypeOK, PersistRules, [Next]_vars PROVE UncommittedIsLocked'
  OBVIOUS
<1> USE NoneIsNobody
<1>u. UncommittedIsLocked
  BY DEF PersistRules
<1>1. ASSUME NEW c \in Conversation, NEW target, NEW actor,
             TransitionConversation(c, target, actor)
      PROVE  UncommittedIsLocked'
  <2>1. /\ conversation'[c].tx = None
        /\ \A x \in Conversation \ {c} : conversation'[x] = conversation[x]
        /\ message' = message /\ delivery' = delivery
    BY <1>1, TransitionRows DEF TransitionConversation
  <2>2. QED
    BY <1>u, <2>1 DEF UncommittedIsLocked
<1>2. ASSUME NEW d \in Delivery, BeginPersist(d) PROVE UncommittedIsLocked'
  BY <1>u, <1>2, BeginRows DEF UncommittedIsLocked
<1>3. ASSUME NEW d \in Delivery, SelectConversation(d) PROVE UncommittedIsLocked'
  <2>1. PICK c \in Conversation, k \in Contact :
          /\ delivery'[d].locks = delivery[d].locks \cup {k}
          /\ \A e \in Delivery \ {d} : delivery'[e] = delivery[e]
          /\ \A x \in Conversation \ {c} : conversation'[x] = conversation[x]
          /\ \/ conversation' = conversation
             \/ /\ conversation'[c].contact = k
                /\ conversation'[c].state = "AUTOMATED"
                /\ conversation'[c].tx = d
    BY <1>3, SelectRows
  <2>2. message' = message
    BY <1>3 DEF SelectConversation
  <2>3. \A e \in Delivery : delivery[e].locks \subseteq delivery'[e].locks
    BY <2>1
  <2>4. QED
    BY <1>u, <2>1, <2>2, <2>3 DEF UncommittedIsLocked
<1>4. ASSUME NEW d \in Delivery, InsertMessage(d) PROVE UncommittedIsLocked'
  <2>1. ContactOf[NextMessage(d)] \in delivery[d].locks
    BY <1>4, InsertRows DEF PersistRules, ChosenIsLocked
  <2>2. \A e \in Delivery : delivery'[e].locks = delivery[e].locks
    BY <1>4, InsertRows
  <2>3. QED
    BY <1>u, <1>4, <2>1, <2>2, InsertRows DEF UncommittedIsLocked
<1>5. ASSUME NEW d \in Delivery, CommitPersist(d) PROVE UncommittedIsLocked'
  BY <1>u, <1>5, CommitRows DEF UncommittedIsLocked
<1>6. ASSUME NEW d \in Delivery, Rollback(d) PROVE UncommittedIsLocked'
  BY <1>u, <1>6, RollbackRows DEF UncommittedIsLocked, NoConversation, NoMessage
<1>7. CASE UNCHANGED vars
  BY <1>u, <1>7 DEF UncommittedIsLocked, vars
<1>8. QED
  BY <1>1, <1>2, <1>3, <1>4, <1>5, <1>6, <1>7, NextCases

\* Nobody else touches the conversation a transaction has chosen.
LEMMA ChosenStep ==
  TypeOK /\ PersistRules /\ [Next]_vars => ChosenIsLocked'
<1> SUFFICES ASSUME TypeOK, PersistRules, [Next]_vars,
                    NEW d \in Delivery, delivery'[d].phase = "selected"
             PROVE  /\ MoreMessages(d)'
                    /\ delivery'[d].chosen \in Conversation
                    /\ conversation'[delivery'[d].chosen].contact = (ContactOf[NextMessage(d)])'
                    /\ conversation'[delivery'[d].chosen].tx \in {None, d}
                    /\ (ContactOf[NextMessage(d)])' \in delivery'[d].locks
  BY DEF ChosenIsLocked
<1> USE NoneIsNobody
<1>c. delivery[d].phase = "selected" =>
        /\ MoreMessages(d)
        /\ delivery[d].chosen \in Conversation
        /\ conversation[delivery[d].chosen].contact = ContactOf[NextMessage(d)]
        /\ conversation[delivery[d].chosen].contact \in Contact
        /\ conversation[delivery[d].chosen].tx \in {None, d}
        /\ ContactOf[NextMessage(d)] \in delivery[d].locks
  BY NextMessageType DEF PersistRules, ChosenIsLocked
<1>s. ASSUME delivery'[d] = delivery[d],
             \A x \in Conversation :
               conversation[x].contact # None /\ conversation[x].tx \in {None, d} =>
                 /\ conversation'[x].contact = conversation[x].contact
                 /\ conversation'[x].tx \in {None, d}
      PROVE  /\ MoreMessages(d)'
             /\ delivery'[d].chosen \in Conversation
             /\ conversation'[delivery'[d].chosen].contact = (ContactOf[NextMessage(d)])'
             /\ conversation'[delivery'[d].chosen].tx \in {None, d}
             /\ (ContactOf[NextMessage(d)])' \in delivery'[d].locks
  BY <1>c, <1>s DEF MoreMessages, NextMessage
<1>1. ASSUME NEW c \in Conversation, NEW target, NEW actor,
             TransitionConversation(c, target, actor)
      PROVE  /\ delivery'[d] = delivery[d]
             /\ \A x \in Conversation :
                  conversation[x].contact # None /\ conversation[x].tx \in {None, d} =>
                    /\ conversation'[x].contact = conversation[x].contact
                    /\ conversation'[x].tx \in {None, d}
  BY <1>1, TransitionRows DEF TransitionConversation
<1>2. ASSUME NEW e \in Delivery, BeginPersist(e)
      PROVE  delivery'[d] = delivery[d] /\ UNCHANGED conversation
  BY <1>2, BeginRows
<1>3. ASSUME NEW e \in Delivery \ {d}, SelectConversation(e)
      PROVE  /\ delivery'[d] = delivery[d]
             /\ \A x \in Conversation :
                  conversation[x].contact # None /\ conversation[x].tx \in {None, d} =>
                    /\ conversation'[x].contact = conversation[x].contact
                    /\ conversation'[x].tx \in {None, d}
  <2>1. PICK c \in Conversation :
          /\ \A x \in Delivery \ {e} : delivery'[x] = delivery[x]
          /\ \A x \in Conversation \ {c} : conversation'[x] = conversation[x]
          /\ conversation' = conversation \/ conversation[c] = NoConversation
    BY <1>3, SelectRows
  <2>2. QED
    BY <1>3, <2>1 DEF NoConversation
<1>4. ASSUME SelectConversation(d)
      PROVE  /\ MoreMessages(d)'
             /\ delivery'[d].chosen \in Conversation
             /\ conversation'[delivery'[d].chosen].contact = (ContactOf[NextMessage(d)])'
             /\ conversation'[delivery'[d].chosen].tx \in {None, d}
             /\ (ContactOf[NextMessage(d)])' \in delivery'[d].locks
  <2>1. PICK c \in Conversation, k \in Contact :
          /\ k = ContactOf[NextMessage(d)]
          /\ MoreMessages(d)
          /\ delivery'[d].chosen = c
          /\ delivery'[d].next = delivery[d].next
          /\ delivery'[d].locks = delivery[d].locks \cup {k}
          /\ conversation'[c].contact = k
          /\ conversation'[c].tx \in {None, d}
    BY <1>4, SelectRows
  <2>2. QED
    BY <2>1 DEF MoreMessages, NextMessage
<1>5. ASSUME NEW e \in Delivery, InsertMessage(e)
      PROVE  delivery'[d] = delivery[d] /\ UNCHANGED conversation
  BY <1>5, InsertRows
<1>6. ASSUME NEW e \in Delivery, CommitPersist(e)
      PROVE  /\ delivery'[d] = delivery[d]
             /\ \A x \in Conversation :
                  conversation[x].contact # None /\ conversation[x].tx \in {None, d} =>
                    /\ conversation'[x].contact = conversation[x].contact
                    /\ conversation'[x].tx \in {None, d}
  BY <1>6, CommitRows
<1>7. ASSUME NEW e \in Delivery, Rollback(e)
      PROVE  /\ delivery'[d] = delivery[d]
             /\ \A x \in Conversation :
                  conversation[x].contact # None /\ conversation[x].tx \in {None, d} =>
                    /\ conversation'[x].contact = conversation[x].contact
                    /\ conversation'[x].tx \in {None, d}
  BY <1>7, RollbackRows
<1>8. CASE UNCHANGED vars
  BY <1>8, <1>s DEF vars
<1>9. QED
  BY <1>s, <1>1, <1>2, <1>3, <1>4, <1>5, <1>6, <1>7, <1>8, NextCases

\* A handoff belongs to a conversation that can no longer be rolled back.
LEMMA RowsStep ==
  TypeOK /\ PersistRules /\ [Next]_vars => RowsConsistent'
<1> SUFFICES ASSUME TypeOK, PersistRules, [Next]_vars PROVE RowsConsistent'
  OBVIOUS
<1> USE NoneIsNobody
<1>r. RowsConsistent /\ UncommittedIsLocked
  BY DEF PersistRules
<1>l. \A d \in Delivery : None \notin delivery[d].locks
  BY DEF TypeOK, Transaction
<1>1. ASSUME NEW c \in Conversation, NEW target, NEW actor,
             TransitionConversation(c, target, actor)
      PROVE  RowsConsistent'
  <2>1. \A h \in Handoff :
          handoff'[h].conversation = handoff[h].conversation \/ handoff'[h].conversation = c
    BY <1>1, SynchronizedRows DEF TransitionConversation
  <2>2. message' = message
    BY <1>1 DEF TransitionConversation
  <2>3. QED
    BY <1>1, <1>r, <2>1, <2>2, TransitionRows DEF RowsConsistent
<1>2. ASSUME NEW d \in Delivery, BeginPersist(d) PROVE RowsConsistent'
  BY <1>2, <1>r, BeginRows DEF RowsConsistent
<1>3. ASSUME NEW d \in Delivery, SelectConversation(d) PROVE RowsConsistent'
  <2>1. PICK c \in Conversation, k \in Contact :
          /\ conversation'[c].contact = k
          /\ \A x \in Conversation \ {c} : conversation'[x] = conversation[x]
          /\ conversation' = conversation \/ conversation[c] = NoConversation
    BY <1>3, SelectRows
  <2>2. UNCHANGED <<handoff, message>>
    BY <1>3 DEF SelectConversation
  <2>3. QED
    BY <1>r, <2>1, <2>2 DEF RowsConsistent, NoConversation
<1>4. ASSUME NEW d \in Delivery, InsertMessage(d) PROVE RowsConsistent'
  <2>1. delivery[d].chosen \in Conversation
    BY <1>4, InsertRows DEF PersistRules, ChosenIsLocked
  <2>2. QED
    BY <1>4, <1>r, <2>1, InsertRows DEF RowsConsistent
<1>5. ASSUME NEW d \in Delivery, CommitPersist(d) PROVE RowsConsistent'
  <2>1. \A c \in Conversation : conversation[c].tx = d => conversation[c].contact # None
    BY <1>r, <1>l DEF UncommittedIsLocked
  <2>2. \A m \in Message : message[m].tx = d => message[m].conversation # None
    BY <1>r DEF RowsConsistent, NoMessage
  <2>3. QED
    BY <1>5, <1>r, <2>1, <2>2, CommitRows DEF RowsConsistent
<1>6. ASSUME NEW d \in Delivery, Rollback(d) PROVE RowsConsistent'
  BY <1>6, <1>r, RollbackRows DEF RowsConsistent, NoConversation
<1>7. CASE UNCHANGED vars
  BY <1>7, <1>r DEF RowsConsistent, vars
<1>8. QED
  BY <1>1, <1>2, <1>3, <1>4, <1>5, <1>6, <1>7, NextCases

LEMMA PersistStepsKeepInvariant ==
  TypeOK /\ PersistRules /\ [Next]_vars => PersistRules'
BY LocksStep, UncommittedStep, ChosenStep, RowsStep DEF PersistRules

\* The bookkeeping of the transactions, on which the properties below rest
THEOREM PersistInvariantHolds == Spec => []PersistInvariant
<1>1. Init => TypeOK /\ PersistRules
  BY TypeInit, PersistInit
<1>2. TypeOK /\ PersistRules /\ [Next]_vars => (TypeOK /\ PersistRules)'
  BY TypeStep, PersistStepsKeepInvariant
<1>3. QED
  BY <1>1, <1>2, PTL DEF Spec, PersistInvariant

-----------------------------------------------------------------------------
(***************************************************************************)
(* A contact has one open conversation.                                    *)
(***************************************************************************)

LEMMA OneOpenStep ==
  TypeOK /\ PersistRules /\ OneOpenConversation /\ [Next]_vars => OneOpenConversation'
<1> SUFFICES ASSUME TypeOK, PersistRules, OneOpenConversation, [Next]_vars
             PROVE  OneOpenConversation'
  OBVIOUS
<1> USE NoneIsNobody
<1>1. ASSUME NEW c \in Conversation, NEW target, NEW actor,
             TransitionConversation(c, target, actor)
      PROVE  OneOpenConversation'
  BY <1>1, TransitionRows, TransitionMoves DEF OneOpenConversation
\* A conversation of the contact that d does not see would be that of a
\* transaction holding the contact's lock.
<1>2. ASSUME NEW d \in Delivery, SelectConversation(d) PROVE OneOpenConversation'
  <2>1. PICK c \in Conversation, k \in Contact :
          /\ LockFree(d, k)
          /\ conversation'[c].contact = k
          /\ \A x \in Conversation \ {c} : conversation'[x] = conversation[x]
          /\ conversation' = conversation \/ OpenConversations(d, k) = {}
    BY <1>2, SelectRows
  <2>2. CASE conversation' = conversation
    BY <2>2 DEF OneOpenConversation
  <2>3. CASE OpenConversations(d, k) = {}
    <3>1. ASSUME NEW x \in Conversation, conversation[x].contact = k,
                 conversation[x].state # "CLOSED"
          PROVE  FALSE
      <4>1. conversation[x].tx \in Delivery \ {d}
        BY <2>3, <3>1 DEF OpenConversations, TypeOK, ConversationRow
      <4>2. k \in delivery[conversation[x].tx].locks
        BY <3>1, <4>1 DEF PersistRules, UncommittedIsLocked
      <4>3. QED
        BY <2>1, <4>1, <4>2 DEF LockFree
    <3>2. QED
      BY <2>1, <3>1 DEF OneOpenConversation
  <2>4. QED
    BY <2>1, <2>2, <2>3
<1>3. ASSUME NEW d \in Delivery, CommitPersist(d) PROVE OneOpenConversation'
  BY <1>3, CommitRows DEF OneOpenConversation
<1>4. ASSUME NEW d \in Delivery, Rollback(d) PROVE OneOpenConversation'
  BY <1>4, RollbackRows DEF OneOpenConversation, NoConversation
<1>5. CASE UNCHANGED conversation
  BY <1>5 DEF OneOpenConversation
<1>6. QED
  BY <1>1, <1>2, <1>3, <1>4, <1>5, NextCases DEF BeginPersist, InsertMessage, vars

\* However many workers store messages of a contact at once, it never has two
\* conversations that are not closed: the lock taken in
\* _get_or_create_active_conversation is enough.
THEOREM OneOpenConversationHolds == Spec => []OneOpenConversation
<1>1. Init => OneOpenConversation
  BY NoneIsNobody DEF Init, OneOpenConversation, NoConversation
<1>2. QED
  BY <1>1, OneOpenStep, PersistInvariantHolds, PTL DEF PersistInvariant, Spec

-----------------------------------------------------------------------------
(***************************************************************************)
(* A message is in a conversation of its sender.                           *)
(***************************************************************************)

LEMMA MessageOfItsContactStep ==
  TypeOK /\ PersistRules /\ MessageOfItsContact /\ [Next]_vars => MessageOfItsContact'
<1> SUFFICES ASSUME TypeOK, PersistRules, MessageOfItsContact, [Next]_vars,
                    NEW m \in Message, message'[m].conversation # None
             PROVE  /\ conversation'[message'[m].conversation].contact = ContactOf[m]
                    /\ conversation'[message'[m].conversation].tx \in {None, message'[m].tx}
  BY DEF MessageOfItsContact
<1> USE NoneIsNobody
<1>m. message[m].conversation # None =>
        /\ message[m].conversation \in Conversation
        /\ conversation[message[m].conversation].contact = ContactOf[m]
        /\ conversation[message[m].conversation].contact # None
        /\ conversation[message[m].conversation].tx \in {None, message[m].tx}
  BY ConversationsAssumption DEF MessageOfItsContact, TypeOK, MessageRow
<1>1. ASSUME NEW c \in Conversation, NEW target, NEW actor,
             TransitionConversation(c, target, actor)
      PROVE  /\ conversation'[message'[m].conversation].contact = ContactOf[m]
             /\ conversation'[message'[m].conversation].tx \in {None, message'[m].tx}
  <2>1. message' = message
    BY <1>1 DEF TransitionConversation
  <2>2. QED
    BY <1>m, <1>1, <2>1, TransitionRows
<1>2. ASSUME NEW d \in Delivery, SelectConversation(d)
      PROVE  /\ conversation'[message'[m].conversation].contact = ContactOf[m]
             /\ conversation'[message'[m].conversation].tx \in {None, message'[m].tx}
  <2>1. PICK c \in Conversation :
          /\ \A x \in Conversation \ {c} : conversation'[x] = conversation[x]
          /\ conversation' = conversation \/ conversation[c] = NoConversation
    BY <1>2, SelectRows
  <2>2. message' = message
    BY <1>2 DEF SelectConversation
  <2>3. QED
    BY <1>m, <2>1, <2>2 DEF NoConversation
<1>3. ASSUME NEW d \in Delivery, InsertMessage(d)
      PROVE  /\ conversation'[message'[m].conversation].contact = ContactOf[m]
             /\ conversation'[message'[m].conversation].tx \in {None, message'[m].tx}
  <2>1. /\ conversation[delivery[d].chosen].contact = ContactOf[NextMessage(d)]
        /\ conversation[delivery[d].chosen].tx \in {None, d}
    BY <1>3, InsertRows DEF PersistRules, ChosenIsLocked
  <2>2. QED
    BY <1>m, <1>3, <2>1, InsertRows
<1>4. ASSUME NEW d \in Delivery, CommitPersist(d)
      PROVE  /\ conversation'[message'[m].conversation].contact = ContactOf[m]
             /\ conversation'[message'[m].conversation].tx \in {None, message'[m].tx}
  BY <1>m, <1>4, CommitRows
<1>5. ASSUME NEW d \in Delivery, Rollback(d)
      PROVE  /\ conversation'[message'[m].conversation].contact = ContactOf[m]
             /\ conversation'[message'[m].conversation].tx \in {None, message'[m].tx}
  <2>1. message[m].tx # d /\ message'[m] = message[m]
    BY <1>5, RollbackRows DEF NoMessage
  <2>2. QED
    BY <1>m, <1>5, <2>1, RollbackRows
<1>6. CASE UNCHANGED <<conversation, message>>
  BY <1>m, <1>6
<1>7. QED
  BY <1>1, <1>2, <1>3, <1>4, <1>5, <1>6, NextCases DEF BeginPersist, vars

\* A stored message is in a conversation of its sender, which nobody who sees
\* the message can miss: the conversation was locked between the SELECT and
\* the INSERT.
THEOREM MessageOfItsContactHolds == Spec => []MessageOfItsContact
<1>1. Init => MessageOfItsContact
  BY DEF Init, MessageOfItsContact, NoMessage
<1>2. QED
  BY <1>1, MessageOfItsContactStep, PersistInvariantHolds, PTL DEF PersistInvariant, Spec

-----------------------------------------------------------------------------
(***************************************************************************)
(* The handoffs of a conversation mirror its state.                        *)
(***************************************************************************)

\* Only the conversation's own row and handoffs matter.
LEMMA MatchesUnchanged ==
  ASSUME TypeOK, NEW x \in Conversation, HandoffMatches(x),
         conversation'[x].state = conversation[x].state,
         conversation'[x].assignedOperator = conversation[x].assignedOperator,
         ActiveHandoffs(x)' = ActiveHandoffs(x),
         \A h \in ActiveHandoffs(x) : handoff'[h] = handoff[h]
  PROVE  HandoffMatches(x)'
<1>1. ASSUME NEW status, NEW operator, OneActive(x, status, operator)
      PROVE  \E h \in Handoff : /\ ActiveHandoffs(x)' = {h}
                                /\ handoff'[h].status = status
                                /\ handoff'[h].takenBy = operator
  <2>1. PICK h \in Handoff : /\ ActiveHandoffs(x) = {h}
                             /\ handoff[h].status = status
                             /\ handoff[h].takenBy = operator
    BY <1>1 DEF OneActive
  <2>2. handoff'[h] = handoff[h]
    BY <2>1
  <2>3. QED
    BY <2>1, <2>2
<1>2. CASE conversation[x].state = "HUMAN_REQUIRED"
  <2>1. OneActive(x, "OPEN", None)
    BY <1>2 DEF HandoffMatches
  <2>2. OneActive(x, "OPEN", None)'
    BY <2>1, <1>1 DEF OneActive
  <2>3. QED
    BY <1>2, <2>2 DEF HandoffMatches
<1>3. CASE conversation[x].state = "HUMAN_ACTIVE"
  <2>1. /\ conversation[x].assignedOperator # None
        /\ OneActive(x, "TAKEN", conversation[x].assignedOperator)
    BY <1>3 DEF HandoffMatches
  <2>2. \E h \in Handoff : /\ ActiveHandoffs(x)' = {h}
                           /\ handoff'[h].status = "TAKEN"
                           /\ handoff'[h].takenBy = conversation'[x].assignedOperator
    BY <2>1, <1>1
  <2>3. QED
    BY <1>3, <2>1, <2>2 DEF HandoffMatches, OneActive
<1>4. CASE conversation[x].state \notin {"HUMAN_REQUIRED", "HUMAN_ACTIVE"}
  BY <1>4 DEF HandoffMatches
<1>5. QED
  BY <1>2, <1>3, <1>4

\* The handoffs of another conversation are left alone.
LEMMA OtherHandoffs ==
  ASSUME TypeOK, NEW c \in Conversation, NEW target, NEW actor,
         SynchronizeHandoff(c, target, actor), NEW x \in Conversation \ {c}
  PROVE  /\ ActiveHandoffs(x)' = ActiveHandoffs(x)
         /\ \A h \in ActiveHandoffs(x) : handoff'[h] = handoff[h]
<1>1. \A h \in Handoff :
        \/ handoff'[h] = handoff[h]
        \/ handoff[h].conversation # x /\ handoff'[h].conversation # x
  BY SynchronizedRows, NoneIsNobody DEF ActiveHandoffs, NoHandoff
<1>2. QED
  BY <1>1 DEF ActiveHandoffs

\* The handoff inserted for a conversation without one is its only active one.
LEMMA InsertedIsOnlyOne ==
  ASSUME TypeOK, NEW c \in Conversation, ActiveHandoffs(c) = {},
         NEW status \in {"OPEN", "TAKEN"}, NEW operator,
         InsertHandoff(c, status, operator)
  PROVE  \E h \in Handoff : /\ ActiveHandoffs(c)' = {h}
                            /\ handoff'[h].status = status
                            /\ handoff'[h].takenBy = operator
<1>1. PICK h \in Handoff :
        handoff' = [handoff EXCEPT
          ![h] = [conversation |-> c, status |-> status, takenBy |-> operator]]
  BY DEF InsertHandoff
<1>2. /\ handoff'[h] = [conversation |-> c, status |-> status, takenBy |-> operator]
      /\ \A g \in Handoff \ {h} : handoff'[g] = handoff[g]
  BY <1>1 DEF TypeOK
<1>3. \A g \in Handoff : g \in ActiveHandoffs(c)' <=> g = h
  BY <1>2 DEF ActiveHandoffs
<1>4. ActiveHandoffs(c)' = {h}
  BY <1>3 DEF ActiveHandoffs
<1>5. QED
  BY <1>2, <1>4

\* A transition brings the conversation's handoffs in line with its new state.
LEMMA TransitionMatches ==
  ASSUME TypeOK, NEW c \in Conversation, NEW target \in ConversationState,
         NEW actor \in Operator \cup {Agent}, target = "HUMAN_ACTIVE" => actor \in Operator,
         HandoffMatches(c), TransitionConversation(c, target, actor)
  PROVE  HandoffMatches(c)'
<1>1. /\ conversation'[c].state = target
      /\ conversation'[c].assignedOperator = IF target = "HUMAN_ACTIVE" THEN actor ELSE None
      /\ target # conversation[c].state
      /\ target = "HUMAN_REQUIRED" => conversation[c].state = "AUTOMATED"
      /\ SynchronizeHandoff(c, target, actor)
  <2>1. SynchronizeHandoff(c, target, actor)
    BY DEF TransitionConversation
  <2>2. QED
    BY <2>1, TransitionRows, TransitionMoves
<1>2. CASE target = "HUMAN_REQUIRED"
  <2>1. ActiveHandoffs(c) = {}
    BY <1>1, <1>2 DEF HandoffMatches
  <2>2. InsertHandoff(c, "OPEN", None)
    BY <1>1, <1>2, <2>1 DEF SynchronizeHandoff
  <2>3. OneActive(c, "OPEN", None)'
    BY <2>1, <2>2, InsertedIsOnlyOne DEF OneActive
  <2>4. QED
    BY <1>1, <1>2, <2>3 DEF HandoffMatches
<1>3. CASE target = "HUMAN_ACTIVE"
  <2>1. \E h \in Handoff : /\ ActiveHandoffs(c)' = {h}
                           /\ handoff'[h].status = "TAKEN"
                           /\ handoff'[h].takenBy = actor
    <3>1. CASE ActiveHandoffs(c) = {}
      <4>1. InsertHandoff(c, "TAKEN", actor)
        BY <1>1, <1>3, <3>1 DEF SynchronizeHandoff
      <4>2. QED
        BY <3>1, <4>1, InsertedIsOnlyOne
    \* It was requested: the handoff that waits is the one taken.
    <3>2. CASE ActiveHandoffs(c) # {}
      <4>1. PICK h \in ActiveHandoffs(c) :
              handoff' = [handoff EXCEPT
                ![h] = [handoff[h] EXCEPT !.status = "TAKEN", !.takenBy = actor]]
        BY <1>1, <1>3, <3>2 DEF SynchronizeHandoff
      <4>2. h \in Handoff /\ handoff[h].conversation = c
        BY DEF ActiveHandoffs
      <4>3. ActiveHandoffs(c) = {h}
        BY <1>1, <1>3, <4>1 DEF HandoffMatches, OneActive
      <4>4. /\ handoff'[h].conversation = c
            /\ handoff'[h].status = "TAKEN"
            /\ handoff'[h].takenBy = actor
            /\ \A g \in Handoff \ {h} : handoff'[g] = handoff[g]
        BY <4>1, <4>2 DEF TypeOK, HandoffRow
      <4>5. \A g \in Handoff : g \in ActiveHandoffs(c)' <=> g \in ActiveHandoffs(c)
        BY <4>3, <4>4 DEF ActiveHandoffs
      <4>6. ActiveHandoffs(c)' = {h}
        BY <4>3, <4>5 DEF ActiveHandoffs
      <4>7. QED
        BY <4>2, <4>4, <4>6
    <3>3. QED
      BY <3>1, <3>2
  <2>2. actor # None
    BY <1>3, NoneIsNobody
  <2>3. QED
    BY <1>1, <1>3, <2>1, <2>2 DEF HandoffMatches, OneActive
<1>4. CASE target \notin {"HUMAN_REQUIRED", "HUMAN_ACTIVE"}
  <2>1. handoff' = [h \in Handoff |->
          IF h \in ActiveHandoffs(c) THEN [handoff[h] EXCEPT !.status = "RESOLVED"]
          ELSE handoff[h]]
    BY <1>1, <1>4 DEF SynchronizeHandoff
  <2>2. \A h \in Handoff : h \notin ActiveHandoffs(c)'
    BY <2>1 DEF ActiveHandoffs, TypeOK, HandoffRow
  <2>3. ActiveHandoffs(c)' = {}
    BY <2>2 DEF ActiveHandoffs
  <2>4. QED
    BY <1>1, <1>4, <2>3 DEF HandoffMatches
<1>5. QED
  BY <1>2, <1>3, <1>4

\* A conversation without a handoff, automated and assigned to nobody
LEMMA NewMatches ==
  ASSUME NEW x \in Conversation, handoff' = handoff,
         \A h \in Handoff : handoff[h].conversation # x,
         conversation'[x].state = "AUTOMATED", conversation'[x].assignedOperator = None
  PROVE  HandoffMatches(x)'
<1>1. ActiveHandoffs(x)' = {}
  BY DEF ActiveHandoffs
<1>2. QED
  BY <1>1 DEF HandoffMatches

LEMMA HandoffMatchesStep ==
  TypeOK /\ PersistRules /\ HandoffMatchesState /\ [Next]_vars => HandoffMatchesState'
<1> SUFFICES ASSUME TypeOK, PersistRules, HandoffMatchesState, [Next]_vars,
                    NEW x \in Conversation
             PROVE  HandoffMatches(x)'
  BY DEF HandoffMatchesState
<1>h. HandoffMatches(x)
  BY DEF HandoffMatchesState
<1>r. \A h \in Handoff :
        handoff[h].conversation = x => conversation[x].contact # None /\ conversation[x].tx = None
  BY DEF PersistRules, RowsConsistent
\* Outside a transition nothing that matters to the conversation changes.
<1>s. ASSUME handoff' = handoff,
             conversation'[x].state = conversation[x].state,
             conversation'[x].assignedOperator = conversation[x].assignedOperator
      PROVE  HandoffMatches(x)'
  <2>1. ActiveHandoffs(x)' = ActiveHandoffs(x)
    BY <1>s DEF ActiveHandoffs
  <2>2. QED
    BY <1>h, <1>s, <2>1, MatchesUnchanged
<1>1. ASSUME NEW c \in Conversation, NEW target \in ConversationState,
             NEW actor \in Operator \cup {Agent}, TransitionConversation(c, target, actor),
             target = "HUMAN_ACTIVE" => actor \in Operator
      PROVE  HandoffMatches(x)'
  <2>1. CASE x = c
    BY <1>h, <1>1, <2>1, TransitionMatches
  <2>2. CASE x # c
    <3>1. /\ ActiveHandoffs(x)' = ActiveHandoffs(x)
          /\ \A h \in ActiveHandoffs(x) : handoff'[h] = handoff[h]
      BY <1>1, <2>2, OtherHandoffs DEF TransitionConversation
    <3>2. conversation'[x] = conversation[x]
      BY <1>1, <2>2, TransitionRows
    <3>3. QED
      BY <1>h, <3>1, <3>2, MatchesUnchanged
  <2>3. QED
    BY <2>1, <2>2
<1>2. ASSUME NEW d \in Delivery, BeginPersist(d) PROVE HandoffMatches(x)'
  BY <1>2, <1>s, BeginRows
<1>3. ASSUME NEW d \in Delivery, SelectConversation(d) PROVE HandoffMatches(x)'
  <2>1. PICK c \in Conversation :
          /\ \A y \in Conversation \ {c} : conversation'[y] = conversation[y]
          /\ \/ conversation' = conversation
             \/ /\ conversation[c] = NoConversation
                /\ conversation'[c].state = "AUTOMATED"
                /\ conversation'[c].assignedOperator = None
    BY <1>3, SelectRows
  <2>2. handoff' = handoff
    BY <1>3 DEF SelectConversation
  <2>3. QED
    BY <1>r, <1>s, <2>1, <2>2, NewMatches DEF NoConversation
<1>4. ASSUME NEW d \in Delivery, InsertMessage(d) PROVE HandoffMatches(x)'
  BY <1>4, <1>s, InsertRows
<1>5. ASSUME NEW d \in Delivery, CommitPersist(d) PROVE HandoffMatches(x)'
  BY <1>5, <1>s, CommitRows
<1>6. ASSUME NEW d \in Delivery, Rollback(d) PROVE HandoffMatches(x)'
  <2>1. CASE conversation[x].tx = d
    <3>1. conversation'[x] = NoConversation /\ handoff' = handoff
      BY <1>6, <2>1, RollbackRows
    <3>2. QED
      BY <1>r, <2>1, <3>1, NoneIsNobody, NewMatches DEF NoConversation
  <2>2. CASE conversation[x].tx # d
    BY <1>6, <1>s, <2>2, RollbackRows
  <2>3. QED
    BY <2>1, <2>2
<1>7. CASE UNCHANGED vars
  BY <1>7, <1>s DEF vars
<1>8. QED
  BY <1>1, <1>2, <1>3, <1>4, <1>5, <1>6, <1>7, NextCases

\* However people request, take, return and close a conversation while
\* messages arrive, its handoffs say what its state says.
THEOREM HandoffMatchesStateHolds == Spec => []HandoffMatchesState
<1>1. Init => HandoffMatchesState
  <2> SUFFICES ASSUME Init, NEW c \in Conversation PROVE HandoffMatches(c)
    BY DEF HandoffMatchesState
  <2>1. ActiveHandoffs(c) = {}
    BY NoneIsNobody DEF Init, ActiveHandoffs, NoHandoff
  <2>2. QED
    BY <2>1 DEF Init, HandoffMatches, NoConversation
<1>2. QED
  BY <1>1, HandoffMatchesStep, PersistInvariantHolds, PTL DEF PersistInvariant, Spec

-----------------------------------------------------------------------------
(***************************************************************************)
(* What is over stays over.                                                *)
(***************************************************************************)

LEMMA HistoryStep ==
  ASSUME TypeOK, PersistRules, [Next]_vars
  PROVE  /\ \A c \in Conversation :
              /\ conversation[c].state = "CLOSED" => conversation'[c] = conversation[c]
              /\ conversation[c].state = "HUMAN_ACTIVE"
                   /\ conversation'[c].state = "HUMAN_ACTIVE" =>
                   conversation'[c] = conversation[c]
         /\ \A h \in Handoff : handoff[h].status = "RESOLVED" => handoff'[h] = handoff[h]
         /\ \A m \in Message :
              message[m].conversation # None /\ message[m].tx = None => message'[m] = message[m]
<1> USE NoneIsNobody
<1>1. ASSUME NEW c \in Conversation,
             conversation[c].state = "CLOSED"
               \/ (/\ conversation[c].state = "HUMAN_ACTIVE"
                   /\ conversation'[c].state = "HUMAN_ACTIVE")
      PROVE  conversation'[c] = conversation[c]
  <2>1. ASSUME NEW x \in Conversation, NEW target, NEW actor,
               TransitionConversation(x, target, actor)
        PROVE  conversation'[c] = conversation[c]
    BY <1>1, <2>1, TransitionRows, TransitionMoves
  <2>2. ASSUME NEW d \in Delivery, SelectConversation(d)
        PROVE  conversation'[c] = conversation[c]
    <3>1. PICK x \in Conversation :
            /\ \A y \in Conversation \ {x} : conversation'[y] = conversation[y]
            /\ conversation' = conversation \/ conversation[x] = NoConversation
      BY <2>2, SelectRows
    <3>2. QED
      BY <1>1, <3>1 DEF NoConversation
  <2>3. \A d \in Delivery : conversation[c].tx # d
    BY <1>1 DEF PersistRules, UncommittedIsLocked
  <2>4. ASSUME NEW d \in Delivery, CommitPersist(d) PROVE conversation'[c] = conversation[c]
    BY <2>3, <2>4, CommitRows
  <2>5. ASSUME NEW d \in Delivery, Rollback(d) PROVE conversation'[c] = conversation[c]
    BY <2>3, <2>5, RollbackRows
  <2>6. QED
    BY <2>1, <2>2, <2>4, <2>5, NextCases DEF BeginPersist, InsertMessage, vars
<1>2. ASSUME NEW h \in Handoff, handoff[h].status = "RESOLVED"
      PROVE  handoff'[h] = handoff[h]
  <2>1. ASSUME NEW c \in Conversation, NEW target, NEW actor,
               TransitionConversation(c, target, actor)
        PROVE  handoff'[h] = handoff[h]
    BY <1>2, <2>1, SynchronizedRows DEF TransitionConversation, ActiveHandoffs, NoHandoff
  <2>2. QED
    BY <2>1, NextCases
       DEF BeginPersist, SelectConversation, InsertMessage, CommitPersist, Rollback, vars
<1>3. ASSUME NEW m \in Message, message[m].conversation # None, message[m].tx = None
      PROVE  message'[m] = message[m]
  <2>1. ASSUME NEW d \in Delivery, InsertMessage(d) PROVE message'[m] = message[m]
    BY <1>3, <2>1, InsertRows
  <2>2. ASSUME NEW d \in Delivery, CommitPersist(d) PROVE message'[m] = message[m]
    BY <1>3, <2>2, CommitRows
  <2>3. ASSUME NEW d \in Delivery, Rollback(d) PROVE message'[m] = message[m]
    BY <1>3, <2>3, RollbackRows
  <2>4. QED
    BY <2>1, <2>2, <2>3, NextCases
       DEF TransitionConversation, BeginPersist, SelectConversation, vars
<1>4. QED
  BY <1>1, <1>2, <1>3

\* A closed conversation, a resolved handoff and a stored message do not
\* change, and an operator is not replaced while he is active.
THEOREM HistoryKept == Spec => HistoryIsKept
<1>1. TypeOK /\ PersistRules /\ [Next]_vars =>
        [/\ \A c \in Conversation :
              /\ conversation[c].state = "CLOSED" => conversation'[c] = conversation[c]
              /\ conversation[c].state = "HUMAN_ACTIVE" /\ conversation'[c].state = "HUMAN_ACTIVE" =>
                   conversation'[c] = conversation[c]
         /\ \A h \in Handoff : handoff[h].status = "RESOLVED" => handoff'[h] = handoff[h]
         /\ \A m \in Message :
              message[m].conversation # None /\ message[m].tx = None =>
                message'[m] = message[m]]_vars
  BY HistoryStep
<1>2. QED
  BY <1>1, PersistInvariantHolds, PTL DEF PersistInvariant, Spec, HistoryIsKept

-----------------------------------------------------------------------------
(***************************************************************************)
(* No message of a delivery that has ended well is lost.                   *)
(***************************************************************************)

LEMMA BatchMessages ==
  ASSUME NEW d \in Delivery
  PROVE  Len(Batch[d]) \in Nat /\ \A i \in 1 .. Len(Batch[d]) : Batch[d][i] \in Message
<1>1. Batch[d] \in Seq(Message)
  BY ConversationsAssumption
<1>2. QED
  BY <1>1

\* A row that d has found or written is taken back only by a rollback of d
\* itself: whoever could have inserted it without committing holds the contact.
LEMMA StoredStays ==
  ASSUME TypeOK, PersistRules, [Next]_vars, NEW d \in Delivery, ~Rollback(d),
         NEW m \in Message, message[m].conversation # None, message[m].tx \in {None, d}
  PROVE  message'[m].conversation # None /\ message'[m].tx \in {None, d}
<1>1. ASSUME NEW e \in Delivery, InsertMessage(e) PROVE message'[m] = message[m]
  BY <1>1, InsertRows
<1>2. ASSUME NEW e \in Delivery, CommitPersist(e)
      PROVE  message'[m].conversation # None /\ message'[m].tx \in {None, d}
  BY <1>2, CommitRows
<1>3. ASSUME NEW e \in Delivery, Rollback(e) PROVE message'[m] = message[m]
  <2>1. e # d
    BY <1>3
  <2>2. message[m].tx # e
    BY <2>1, NoneIsNobody
  <2>3. QED
    BY <1>3, <2>2, RollbackRows
<1>4. QED
  BY <1>1, <1>2, <1>3, NextCases
     DEF TransitionConversation, BeginPersist, SelectConversation, vars

\* What d has gone past stays stored while d only waits, begins or selects.
LEMMA PrefixStays ==
  ASSUME TypeOK, PersistRules, [Next]_vars, NEW d \in Delivery, ~Rollback(d),
         StoredBefore(d), delivery'[d].next = delivery[d].next
  PROVE  StoredBefore(d)'
<1> SUFFICES ASSUME NEW i \in 1 .. Len(Batch[d]), i < delivery[d].next
             PROVE  message'[Batch[d][i]].conversation # None /\ message'[Batch[d][i]].tx \in {None, d}
  BY DEF StoredBefore
<1>1. PICK m \in Message : m = Batch[d][i]
  BY BatchMessages
<1>2. message[m].conversation # None /\ message[m].tx \in {None, d}
  BY <1>1 DEF StoredBefore
<1>3. QED
  BY <1>1, <1>2, StoredStays

\* A message that d finds stored is committed or its own: another transaction
\* that had inserted it would still hold the lock on the contact.
LEMMA InsertExtends ==
  ASSUME TypeOK, PersistRules, NEW d \in Delivery, InsertMessage(d), StoredBefore(d)
  PROVE  StoredBefore(d)'
<1>n. PICK n \in Nat \ {0} : n = delivery[d].next
  BY DEF TypeOK, Transaction
<1>1. delivery[d].phase = "selected" /\ delivery'[d].next = n + 1
  BY <1>n DEF InsertMessage, TypeOK, Transaction
<1>2. /\ MoreMessages(d)
      /\ delivery[d].chosen \in Conversation
      /\ ContactOf[NextMessage(d)] \in delivery[d].locks
  BY <1>1 DEF PersistRules, ChosenIsLocked
<1>3. PICK m \in Message : m = NextMessage(d)
  BY <1>2, NextMessageType
<1>4. m = Batch[d][n]
  BY <1>n, <1>3 DEF NextMessage
<1>5. message'[m].conversation # None /\ message'[m].tx \in {None, d}
  <2>1. CASE message[m].conversation = None
    <3>1. message' = [message EXCEPT ![m] = [conversation |-> delivery[d].chosen, tx |-> d]]
      BY <1>3, <2>1 DEF InsertMessage, Stored
    <3>2. QED
      BY <1>2, <3>1, NoneIsNobody DEF TypeOK
  <2>2. CASE message[m].conversation # None
    <3>1. message' = message
      BY <1>3, <2>2 DEF InsertMessage, Stored
    <3>2. message[m].tx \in Delivery \cup {None}
      BY DEF TypeOK, MessageRow
    <3>3. ASSUME NEW e \in Delivery \ {d} PROVE message[m].tx # e
      BY <1>2, <1>3 DEF PersistRules, LocksExclusive, UncommittedIsLocked
    <3>4. QED
      BY <2>2, <3>1, <3>2, <3>3
  <2>3. QED
    BY <2>1, <2>2
<1>6. ASSUME NEW i \in 1 .. Len(Batch[d]), i < n + 1
      PROVE  message'[Batch[d][i]].conversation # None /\ message'[Batch[d][i]].tx \in {None, d}
  <2>1. CASE i = n
    BY <1>4, <1>5, <2>1
  <2>2. CASE i # n
    <3>1. PICK x \in Message : x = Batch[d][i]
      BY BatchMessages
    <3>2. i < n
      BY <1>6, <2>2, BatchMessages
    <3>3. message[x].conversation # None /\ message[x].tx \in {None, d}
      BY <1>n, <3>1, <3>2 DEF StoredBefore
    <3>4. message'[x] = message[x] \/ x = m
      BY <1>3, InsertRows
    <3>5. QED
      BY <1>5, <3>1, <3>3, <3>4
  <2>3. QED
    BY <2>1, <2>2
<1>7. QED
  BY <1>1, <1>6 DEF StoredBefore

LEMMA PrefixStep ==
  TypeOK /\ PersistRules /\ PrefixStored /\ [Next]_vars => PrefixStored'
<1> SUFFICES ASSUME TypeOK, PersistRules, PrefixStored, [Next]_vars, NEW d \in Delivery,
                    delivery'[d].phase \in {"new", "running", "selected"}
             PROVE  StoredBefore(d)'
  BY DEF PrefixStored
<1>0. ~Rollback(d)
  BY RollbackRows
<1>1. CASE delivery'[d] = delivery[d]
  BY <1>0, <1>1, PrefixStays DEF PrefixStored
<1>2. CASE BeginPersist(d)
  <2>1. delivery[d].phase = "new" /\ delivery'[d].next = delivery[d].next
    BY <1>2 DEF BeginPersist, TypeOK, Transaction
  <2>2. QED
    BY <1>0, <2>1, PrefixStays DEF PrefixStored
<1>3. CASE SelectConversation(d)
  BY <1>0, <1>3, SelectRows, PrefixStays DEF PrefixStored
<1>4. CASE InsertMessage(d)
  BY <1>4, InsertRows, InsertExtends DEF PrefixStored
<1>5. ~CommitPersist(d)
  BY CommitRows
<1>6. \/ delivery'[d] = delivery[d]
      \/ BeginPersist(d) \/ SelectConversation(d) \/ InsertMessage(d)
  <2>1. ASSUME NEW e \in Delivery, BeginPersist(e), e # d PROVE delivery'[d] = delivery[d]
    BY <2>1, BeginRows
  <2>2. ASSUME NEW e \in Delivery, SelectConversation(e), e # d PROVE delivery'[d] = delivery[d]
    BY <2>2, SelectRows
  <2>3. ASSUME NEW e \in Delivery, InsertMessage(e), e # d PROVE delivery'[d] = delivery[d]
    BY <2>3, InsertRows
  <2>4. ASSUME NEW e \in Delivery, CommitPersist(e), e # d PROVE delivery'[d] = delivery[d]
    BY <2>4, CommitRows
  <2>5. ASSUME NEW e \in Delivery, Rollback(e), e # d PROVE delivery'[d] = delivery[d]
    BY <2>5, RollbackRows
  <2>6. QED
    BY <1>0, <1>5, <2>1, <2>2, <2>3, <2>4, <2>5, NextCases DEF TransitionConversation, vars
<1>7. QED
  BY <1>1, <1>2, <1>3, <1>4, <1>6

LEMMA DoneStep ==
  TypeOK /\ PersistRules /\ PrefixStored /\ DoneStoredAll /\ [Next]_vars => DoneStoredAll'
<1> SUFFICES ASSUME TypeOK, PersistRules, PrefixStored, DoneStoredAll, [Next]_vars,
                    NEW d \in Delivery, delivery'[d].phase = "done",
                    NEW i \in 1 .. Len(Batch[d])
             PROVE  message'[Batch[d][i]].conversation # None /\ message'[Batch[d][i]].tx = None
  BY DEF DoneStoredAll
<1>1. PICK m \in Message : m = Batch[d][i]
  BY BatchMessages
<1>2. CASE delivery[d].phase = "done"
  <2>1. message[m].conversation # None /\ message[m].tx = None
    BY <1>1, <1>2 DEF DoneStoredAll
  <2>2. message'[m] = message[m]
    BY <2>1, HistoryStep
  <2>3. QED
    BY <1>1, <2>1, <2>2
<1>3. CASE CommitPersist(d)
  <2>1. delivery[d].phase = "running" /\ ~MoreMessages(d) /\ delivery[d].next \in Nat
    BY <1>3 DEF CommitPersist, TypeOK, Transaction
  <2>2. i < delivery[d].next
    BY <2>1, BatchMessages DEF MoreMessages
  <2>3. message[m].conversation # None /\ message[m].tx \in {None, d}
    BY <1>1, <2>1, <2>2 DEF PrefixStored, StoredBefore
  <2>4. QED
    BY <1>1, <1>3, <2>3, CommitRows
<1>4. CASE delivery[d].phase # "done" /\ ~CommitPersist(d)
  <2>1. ASSUME NEW e \in Delivery, BeginPersist(e) PROVE FALSE
    BY <1>4, <2>1, BeginRows
  <2>2. ASSUME NEW e \in Delivery, SelectConversation(e) PROVE FALSE
    BY <1>4, <2>2, SelectRows
  <2>3. ASSUME NEW e \in Delivery, InsertMessage(e) PROVE FALSE
    BY <1>4, <2>3, InsertRows
  <2>4. ASSUME NEW e \in Delivery, CommitPersist(e), e # d PROVE FALSE
    BY <1>4, <2>4, CommitRows
  <2>5. ASSUME NEW e \in Delivery, Rollback(e) PROVE FALSE
    BY <1>4, <2>5, RollbackRows
  <2>6. QED
    BY <1>4, <2>1, <2>2, <2>3, <2>4, <2>5, NextCases DEF TransitionConversation, vars
<1>5. QED
  BY <1>2, <1>3, <1>4

\* Once a webhook's delivery has ended well all its messages are stored for
\* everybody to see, whoever inserted them.
THEOREM NoMessageIsLost == Spec => []DoneStoredAll
<1>1. Init => PrefixStored /\ DoneStoredAll
  <2> SUFFICES ASSUME Init PROVE PrefixStored /\ DoneStoredAll
    OBVIOUS
  <2>1. \A d \in Delivery : delivery[d].phase = "new" /\ delivery[d].next = 1
    BY DEF Init
  <2>2. QED
    BY <2>1 DEF PrefixStored, StoredBefore, DoneStoredAll
<1>2. TypeOK /\ PersistRules /\ PrefixStored /\ DoneStoredAll /\ [Next]_vars
           => (PrefixStored /\ DoneStoredAll)'
  BY PrefixStep, DoneStep
<1>3. QED
  BY <1>1, <1>2, PersistInvariantHolds, PTL DEF PersistInvariant, Spec

-----------------------------------------------------------------------------
(***************************************************************************)
(* What everybody sees changes as Inbox says.                              *)
(***************************************************************************)

LEMMA TouchesStep ==
  TypeOK /\ PersistRules /\ TouchesItsBatch /\ [Next]_vars => TouchesItsBatch'
<1> SUFFICES ASSUME TypeOK, PersistRules, TouchesItsBatch, [Next]_vars,
                    NEW e \in Delivery
             PROVE  /\ delivery'[e].locks \subseteq {ContactOf[m] : m \in Brought(e)}
                    /\ \A m \in Message : message'[m].tx = e => m \in Brought(e)
  BY DEF TouchesItsBatch, Brought
<1> USE NoneIsNobody
<1>t. /\ delivery[e].locks \subseteq {ContactOf[m] : m \in Brought(e)}
      /\ \A m \in Message : message[m].tx = e => m \in Brought(e)
  BY DEF TouchesItsBatch
<1>n. ASSUME NEW d \in Delivery, MoreMessages(d) PROVE NextMessage(d) \in Brought(d)
  <2>1. delivery[d].next \in Nat \ {0} /\ Len(Batch[d]) \in Nat
    BY BatchMessages DEF TypeOK, Transaction
  <2>2. delivery[d].next \in 1 .. Len(Batch[d])
    BY <1>n, <2>1 DEF MoreMessages
  <2>3. QED
    BY <2>2 DEF NextMessage, Brought
<1>1. ASSUME NEW d \in Delivery, BeginPersist(d)
      PROVE  delivery'[e].locks = delivery[e].locks /\ message' = message
  BY <1>1, BeginRows
<1>2. ASSUME NEW d \in Delivery, SelectConversation(d)
      PROVE  /\ delivery'[e].locks \subseteq {ContactOf[m] : m \in Brought(e)}
             /\ message' = message
  <2>1. message' = message
    BY <1>2 DEF SelectConversation
  <2>2. PICK k \in Contact :
          /\ k = ContactOf[NextMessage(d)]
          /\ MoreMessages(d)
          /\ delivery'[d].locks = delivery[d].locks \cup {k}
          /\ \A x \in Delivery \ {d} : delivery'[x] = delivery[x]
    BY <1>2, SelectRows
  <2>3. CASE d = e
    BY <1>t, <1>n, <2>1, <2>2, <2>3
  <2>4. CASE d # e
    BY <1>t, <2>1, <2>2, <2>4
  <2>5. QED
    BY <2>3, <2>4
<1>3. ASSUME NEW d \in Delivery, InsertMessage(d)
      PROVE  /\ delivery'[e].locks = delivery[e].locks
             /\ \A m \in Message : message'[m].tx = e => m \in Brought(e)
  <2>1. MoreMessages(d)
    BY <1>3, InsertRows DEF PersistRules, ChosenIsLocked
  <2>2. NextMessage(d) \in Brought(d)
    BY <1>n, <2>1
  <2>3. delivery'[e].locks = delivery[e].locks
    BY <1>3, InsertRows
  <2>4. QED
    BY <1>t, <1>3, <2>2, <2>3, InsertRows
<1>4. ASSUME NEW d \in Delivery, CommitPersist(d)
      PROVE  /\ delivery'[e].locks \subseteq delivery[e].locks
             /\ \A m \in Message : message'[m].tx = e => message[m].tx = e
  BY <1>4, CommitRows
<1>5. ASSUME NEW d \in Delivery, Rollback(d)
      PROVE  /\ delivery'[e].locks \subseteq delivery[e].locks
             /\ \A m \in Message : message'[m].tx = e => message[m].tx = e
  BY <1>5, RollbackRows DEF NoMessage
<1>6. CASE delivery' = delivery /\ message' = message
  BY <1>t, <1>6
<1>7. QED
  BY <1>t, <1>1, <1>2, <1>3, <1>4, <1>5, <1>6, NextCases DEF TransitionConversation, vars

LEMMA RefinementInit ==
  ASSUME Init
  PROVE  Committed!Init
<1>1. SeenConversations = [c \in Conversation |-> [contact |-> None, state |-> "AUTOMATED"]]
  BY DEF Init, SeenConversations, NoConversation
<1>2. SeenMessages = [m \in Message |-> None]
  BY DEF Init, SeenMessages, NoMessage
<1>3. QED
  BY <1>1, <1>2 DEF Committed!Init, Committed!NoConversation

\* Moving a conversation, which only the delivery that inserts it could hide, is
\* seen as that move.
LEMMA RefinementMove ==
  ASSUME TypeOK, NEW c \in Conversation, NEW target, NEW actor,
         TransitionConversation(c, target, actor)
  PROVE  Committed!Next
<1>1. message' = message /\ target \in AllowedFrom(conversation[c].state)
  BY DEF TransitionConversation, AllowedHere
<1>2. SeenMessages' = SeenMessages
  BY <1>1 DEF SeenMessages
<1>3. /\ SeenConversations[c].contact = conversation[c].contact
      /\ SeenConversations[c].state = conversation[c].state
      /\ conversation[c].contact # None
  BY TransitionRows DEF SeenConversations
<1>4. SeenConversations' =
        [SeenConversations EXCEPT ![c] = [SeenConversations[c] EXCEPT !.state = target]]
  <2>1. SeenConversations'[c] = [SeenConversations[c] EXCEPT !.state = target]
    BY TransitionRows DEF SeenConversations
  <2>2. ASSUME NEW x \in Conversation, x # c
        PROVE  SeenConversations'[x] = SeenConversations[x]
    BY <2>2, TransitionRows DEF SeenConversations
  <2>3. QED
    BY <2>1, <2>2 DEF SeenConversations
<1>5. Committed!AllowedFrom(SeenConversations[c].state) = AllowedFrom(conversation[c].state)
  BY <1>3 DEF Committed!AllowedFrom, AllowedFrom
<1>6. Committed!Move(c)
  BY <1>1, <1>2, <1>3, <1>4, <1>5 DEF Committed!Move
<1>7. QED
  BY <1>6 DEF Committed!Next

\* What a delivery writes is not seen before its commit, nor ever if it is rolled back.
LEMMA RefinementHidden ==
  ASSUME \A c \in Conversation :
           \/ conversation'[c] = conversation[c]
           \/ /\ conversation[c] = NoConversation \/ conversation[c].tx # None
              /\ conversation'[c] = NoConversation \/ conversation'[c].tx # None,
         \A m \in Message :
           \/ message'[m] = message[m]
           \/ /\ message[m].conversation = None \/ message[m].tx # None
              /\ message'[m].conversation = None \/ message'[m].tx # None
  PROVE  UNCHANGED Committed!vars
<1>1. SeenConversations' = SeenConversations
  BY DEF SeenConversations, NoConversation
<1>2. SeenMessages' = SeenMessages
  BY DEF SeenMessages
<1>3. QED
  BY <1>1, <1>2 DEF Committed!vars

\* The conversations a commit shows are open ones of senders of its batch.
LEMMA CommitOpens ==
  ASSUME TypeOK, PersistRules, TouchesItsBatch, NEW d \in Delivery, CommitPersist(d),
         NEW c \in Conversation
  PROVE  \/ SeenConversations'[c] = SeenConversations[c]
         \/ Committed!Opens(c, Brought(d))
<1> USE NoneIsNobody
<1>1. CASE conversation[c].tx # d
  BY <1>1, CommitRows DEF SeenConversations
<1>2. CASE conversation[c].tx = d
  <2>1. /\ conversation[c].contact \in delivery[d].locks
        /\ conversation[c].state = "AUTOMATED"
    BY <1>2 DEF PersistRules, UncommittedIsLocked
  <2>2. PICK m \in Brought(d) : conversation[c].contact = ContactOf[m]
    BY <2>1 DEF TouchesItsBatch
  <2>3. SeenConversations[c] = Committed!NoConversation
    BY <1>2 DEF SeenConversations, Committed!NoConversation
  <2>4. SeenConversations'[c] = [contact |-> ContactOf[m], state |-> "AUTOMATED"]
    BY <1>2, <2>1, <2>2, CommitRows DEF SeenConversations
  <2>5. SeenConversations'[c] = [Committed!NoConversation EXCEPT !.contact = ContactOf[m]]
    BY <2>4 DEF Committed!NoConversation
  <2>6. QED
    BY <2>3, <2>5 DEF Committed!Opens
<1>3. QED
  BY <1>1, <1>2

\* Every message of the batch is seen after it, in a conversation of its sender, and
\* no other message is seen that was not.
LEMMA CommitShows ==
  ASSUME TypeOK, PersistRules, TouchesItsBatch, NEW d \in Delivery, CommitPersist(d),
         TypeOK', MessageOfItsContact', DoneStoredAll', NEW m \in Message
  PROVE  IF m \in Brought(d) /\ SeenMessages[m] = None
         THEN /\ SeenMessages'[m] # None
              /\ SeenConversations'[SeenMessages'[m]].contact = ContactOf[m]
         ELSE SeenMessages'[m] = SeenMessages[m]
<1> USE NoneIsNobody
<1>1. CASE m \in Brought(d) /\ SeenMessages[m] = None
  <2>1. PICK i \in 1 .. Len(Batch[d]) : m = Batch[d][i]
    BY <1>1 DEF Brought
  <2>2. delivery'[d].phase = "done"
    BY CommitRows
  <2>3. message'[m].conversation # None /\ message'[m].tx = None
    BY <2>1, <2>2 DEF DoneStoredAll
  <2>4. /\ conversation'[message'[m].conversation].contact = ContactOf[m]
        /\ conversation'[message'[m].conversation].tx = None
    BY <2>3 DEF MessageOfItsContact
  <2>5. message'[m].conversation \in Conversation
    BY <2>3 DEF TypeOK, MessageRow
  <2>6. SeenMessages'[m] = message'[m].conversation
    BY <2>3 DEF SeenMessages
  <2>7. QED
    BY <1>1, <2>3, <2>4, <2>5, <2>6 DEF SeenConversations
<1>2. CASE m \in Brought(d) /\ SeenMessages[m] # None
  <2>1. message[m].tx = None
    BY <1>2 DEF SeenMessages
  <2>2. message'[m] = message[m]
    BY <2>1, CommitRows
  <2>3. QED
    BY <1>2, <2>2 DEF SeenMessages
<1>3. CASE m \notin Brought(d)
  <2>1. message[m].tx # d
    BY <1>3 DEF TouchesItsBatch
  <2>2. message'[m] = message[m]
    BY <2>1, CommitRows
  <2>3. QED
    BY <1>3, <2>2 DEF SeenMessages
<1>4. QED
  BY <1>1, <1>2, <1>3

LEMMA RefinementCommit ==
  ASSUME TypeOK, PersistRules, TouchesItsBatch, NEW d \in Delivery, CommitPersist(d),
         TypeOK', OneOpenConversation', MessageOfItsContact', DoneStoredAll'
  PROVE  Committed!Next
<1> USE NoneIsNobody
<1>1. SeenConversations' \in
        [Conversation -> [contact : Contact \cup {None}, state : ConversationState]]
  <2>1. ASSUME NEW c \in Conversation
        PROVE  SeenConversations'[c] \in [contact : Contact \cup {None}, state : ConversationState]
    BY DEF SeenConversations, TypeOK, ConversationRow, ConversationState
  <2>2. QED
    BY <2>1 DEF SeenConversations
<1>2. SeenMessages' \in [Message -> Conversation \cup {None}]
  BY DEF SeenMessages, TypeOK, MessageRow
<1>3. Committed!OneOpen'
  <2>1. ASSUME NEW c \in Conversation, SeenConversations'[c].contact # None
        PROVE  /\ SeenConversations'[c].contact = conversation'[c].contact
               /\ SeenConversations'[c].state = conversation'[c].state
    BY <2>1 DEF SeenConversations
  <2>2. QED
    BY <2>1 DEF Committed!OneOpen, OneOpenConversation
<1>4. Committed!ConversationState = ConversationState
  BY DEF Committed!ConversationState, ConversationState
<1>5. Committed!Deliver(Brought(d))
  BY <1>1, <1>2, <1>3, <1>4, CommitOpens, CommitShows DEF Committed!Deliver
<1>6. QED
  BY <1>5 DEF Committed!Next

\* Storing a webhook is one step to everybody else: its messages appear together, each
\* in a conversation of its sender, and a contact with an open conversation gets no
\* second one; a transaction that is rolled back is never seen.
THEOREM DeliveryIsAtomic == Spec => ImplementsInbox
<1>1. Init => Committed!Init
  BY RefinementInit
<1>2. Init => TouchesItsBatch
  BY NoneIsNobody DEF Init, TouchesItsBatch, NoMessage
<1>3. (/\ TypeOK /\ PersistRules /\ TouchesItsBatch /\ [Next]_vars
       /\ TypeOK' /\ OneOpenConversation' /\ MessageOfItsContact' /\ DoneStoredAll')
        => [Committed!Next]_(Committed!vars)
  <2> SUFFICES ASSUME TypeOK, PersistRules, TouchesItsBatch, [Next]_vars,
                      TypeOK', OneOpenConversation', MessageOfItsContact', DoneStoredAll'
               PROVE  [Committed!Next]_(Committed!vars)
    OBVIOUS
  <2> USE NoneIsNobody
  <2>1. ASSUME NEW c \in Conversation, NEW target, NEW actor,
               TransitionConversation(c, target, actor)
        PROVE  Committed!Next
    BY <2>1, RefinementMove
  <2>2. ASSUME NEW d \in Delivery, SelectConversation(d)
        PROVE  UNCHANGED Committed!vars
    <3>1. message' = message
      BY <2>2 DEF SelectConversation
    <3>2. PICK c \in Conversation :
            /\ \A x \in Conversation \ {c} : conversation'[x] = conversation[x]
            /\ \/ conversation' = conversation
               \/ conversation[c] = NoConversation /\ conversation'[c].tx = d
      BY <2>2, SelectRows
    <3>3. QED
      BY <3>1, <3>2, RefinementHidden
  <2>3. ASSUME NEW d \in Delivery, InsertMessage(d)
        PROVE  UNCHANGED Committed!vars
    BY <2>3, InsertRows, RefinementHidden
  <2>4. ASSUME NEW d \in Delivery, CommitPersist(d)
        PROVE  Committed!Next
    BY <2>4, RefinementCommit
  <2>5. ASSUME NEW d \in Delivery, Rollback(d)
        PROVE  UNCHANGED Committed!vars
    <3>1. \A m \in Message :
            message'[m] = message[m] \/ (message[m].tx # None /\ message'[m] = NoMessage)
      BY <2>5, RollbackRows
    <3>2. \A c \in Conversation :
            \/ conversation'[c] = conversation[c]
            \/ conversation[c].tx # None /\ conversation'[c] = NoConversation
      BY <2>5, RollbackRows
    <3>3. QED
      BY <3>1, <3>2, RefinementHidden DEF NoMessage
  <2>6. CASE UNCHANGED <<conversation, message>>
    BY <2>6, RefinementHidden
  <2>7. QED
    BY <2>1, <2>2, <2>3, <2>4, <2>5, <2>6, NextCases DEF BeginPersist, vars
<1>4. QED
  BY <1>1, <1>2, <1>3, TouchesStep, PersistInvariantHolds, OneOpenConversationHolds,
     MessageOfItsContactHolds, NoMessageIsLost, PTL
     DEF PersistInvariant, Spec, ImplementsInbox, Committed!Spec
=============================================================================
