---------------------------- MODULE OutboxProofs ----------------------------
(***************************************************************************)
(* Proofs about Outbox, for any number of messages, send calls and texts.  *)
(***************************************************************************)
EXTENDS Outbox, TLAPS

\* Every step of the module, one action per line: the form in which the
\* proofs below take Next apart.
LEMMA NextCases ==
  ASSUME Next
  PROVE  \/ \E o \in Outbound, d \in Body \cup {None} : UpsertResponsePlan(o, d)
         \/ \E o \in Outbound, s \in {"APPROVED", "REJECTED"} : UpsertResponseVerification(o, s)
         \/ \E c \in Conversation, s \in ConversationState : TransitionConversation(c, s)
         \/ \E o \in Outbound : CreateOutboundDraft(o)
         \/ \E o \in Outbound : ApproveOutboundMessage(o)
         \/ \E o \in Outbound : RejectOutboundMessage(o)
         \/ \E r \in Request, o \in Outbound : ClaimOutboundForSend(r, o)
         \/ \E r \in Request, o \in Outbound : SendNotClaimed(r, o)
         \/ \E o \in Outbound : LeaseExpires(o)
         \/ \E r \in Request : ConnectFails(r)
         \/ \E r \in Request : PostMessage(r)
         \/ \E r \in Request, a \in Answer : SendTextEnds(r, a)
         \/ \E r \in Request : CrashRequest(r)
         \/ \E r \in Request : MarkOutbound(r)
         \/ \E r \in Request : MarkRefused(r)
         \/ \E r \in Request, v \in {"accepted", "refused"} : MetaDecides(r, v)
         \/ \E r \in Request, s \in DeliveryStatus : RecordOutboundDeliveryStatus(r, s)
BY DEF Next, Sources, Review, Send, Meta

\* The steps that change a row of a message
LEMMA OutboxCases ==
  ASSUME [Next]_vars
  PROVE  \/ UNCHANGED outbox
         \/ \E o \in Outbound :
              \/ CreateOutboundDraft(o)
              \/ ApproveOutboundMessage(o)
              \/ RejectOutboundMessage(o)
              \/ LeaseExpires(o)
         \/ \E r \in Request, o \in Outbound : ClaimOutboundForSend(r, o)
         \/ \E r \in Request : MarkOutbound(r)
         \/ \E r \in Request, s \in DeliveryStatus : RecordOutboundDeliveryStatus(r, s)
BY NextCases
DEF vars, UpsertResponsePlan, UpsertResponseVerification, TransitionConversation,
    SendNotClaimed, ConnectFails, PostMessage, SendTextEnds, CrashRequest, MarkRefused,
    MetaDecides

\* The steps that change a row of an attempt
LEMMA AttemptCases ==
  ASSUME [Next]_vars
  PROVE  \/ UNCHANGED attempt
         \/ \E r \in Request, o \in Outbound : ClaimOutboundForSend(r, o)
         \/ \E r \in Request : MarkOutbound(r)
BY NextCases
DEF vars, sendVars, UpsertResponsePlan, UpsertResponseVerification, TransitionConversation,
    CreateOutboundDraft, ApproveOutboundMessage, RejectOutboundMessage, SendNotClaimed,
    LeaseExpires, ConnectFails, PostMessage, SendTextEnds, CrashRequest, MarkRefused,
    MetaDecides, RecordOutboundDeliveryStatus

-----------------------------------------------------------------------------
(***************************************************************************)
(* Type correctness.                                                       *)
(***************************************************************************)

LEMMA TypeInit == Init => TypeOK
<1>1. NoOutbound \in OutboundRow
  BY DEF NoOutbound, OutboundRow, OutboundStatus, Outcome
<1>2. NoAttempt \in AttemptRow
  BY DEF NoAttempt, AttemptRow
<1>3. QED
  BY <1>1, <1>2 DEF Init, TypeOK, ConversationState, Phase

LEMMA RowType ==
  ASSUME TypeOK, NEW o \in Outbound
  PROVE  outbox[o] \in OutboundRow
BY DEF TypeOK

LEMMA RowUpdateType ==
  ASSUME TypeOK, NEW o \in Outbound, NEW row \in OutboundRow,
         outbox' = [outbox EXCEPT ![o] = row]
  PROVE  outbox' \in [Outbound -> OutboundRow]
BY DEF TypeOK

LEMMA MarkedRowType ==
  ASSUME NEW row \in OutboundRow, NEW r \in Request, NEW outcome \in Outcome
  PROVE  Marked(row, r, outcome) \in OutboundRow
<1> DEFINE id == IF outcome = "SENT" THEN r ELSE row.providerMessageId
           delivery == IF outcome = "SENT" /\ row.deliveryStatus = None
                       THEN "SENT" ELSE row.deliveryStatus
<1>1. id \in Request \cup {None} /\ delivery \in DeliveryStatus \cup {None}
  BY DEF OutboundRow, DeliveryStatus
<1>2. outcome \in OutboundStatus
  BY DEF OutboundStatus
<1>3. Released(row) \in OutboundRow
  BY DEF Released, OutboundRow
<1>4. [Released(row) EXCEPT !.status = outcome, !.providerMessageId = id,
                            !.deliveryStatus = delivery] \in OutboundRow
  <2> HIDE DEF id, delivery
  <2> QED BY <1>1, <1>2, <1>3 DEF OutboundRow
<1>5. QED
  BY <1>4 DEF Marked

\* The columns that an approval, a rejection, the clock and a report write.
LEMMA RowFieldTypes ==
  ASSUME NEW row \in OutboundRow
  PROVE  /\ [row EXCEPT !.status = "APPROVED", !.approvedBy = "operator"] \in OutboundRow
         /\ [row EXCEPT !.status = "REJECTED"] \in OutboundRow
         /\ [row EXCEPT !.leaseExpired = TRUE] \in OutboundRow
         /\ \A s \in DeliveryStatus : [row EXCEPT !.deliveryStatus = s] \in OutboundRow
<1>1. "APPROVED" \in OutboundStatus /\ "REJECTED" \in OutboundStatus
  BY DEF OutboundStatus
<1>2. [row EXCEPT !.status = "APPROVED", !.approvedBy = "operator"] \in OutboundRow
  BY <1>1 DEF OutboundRow
<1>3. [row EXCEPT !.status = "REJECTED"] \in OutboundRow
  BY <1>1 DEF OutboundRow
<1>4. [row EXCEPT !.leaseExpired = TRUE] \in OutboundRow
  BY DEF OutboundRow
<1>5. \A s \in DeliveryStatus : [row EXCEPT !.deliveryStatus = s] \in OutboundRow
  BY DEF OutboundRow
<1>6. QED
  BY <1>2, <1>3, <1>4, <1>5

LEMMA AnsweredType ==
  ASSUME TypeOK, NEW r \in Request, NEW a \in Answer, Answered(r, a)
  PROVE  request' \in [Request -> [phase : Phase, answer : Answer \cup {None}]]
<1>1. request \in [Request -> [phase : Phase, answer : Answer \cup {None}]]
  BY DEF TypeOK
<1>2. "answered" \in Phase
  BY DEF Phase
<1>3. QED
  BY <1>1, <1>2 DEF Answered

LEMMA TypeStep == TypeOK /\ [Next]_vars => TypeOK'
<1> SUFFICES ASSUME TypeOK, [Next]_vars PROVE TypeOK'
  OBVIOUS
<1> USE DEF TypeOK, sourceVars, sendVars
<1>1. ASSUME NEW o \in Outbound, NEW d \in Body \cup {None}, UpsertResponsePlan(o, d)
      PROVE  TypeOK'
  BY <1>1 DEF UpsertResponsePlan
<1>2. ASSUME NEW o \in Outbound, NEW s \in {"APPROVED", "REJECTED"},
             UpsertResponseVerification(o, s)
      PROVE  TypeOK'
  BY <1>2 DEF UpsertResponseVerification
<1>3. ASSUME NEW c \in Conversation, NEW s \in ConversationState, TransitionConversation(c, s)
      PROVE  TypeOK'
  BY <1>3 DEF TransitionConversation
<1>4. ASSUME NEW o \in Outbound, CreateOutboundDraft(o) PROVE TypeOK'
  BY <1>4 DEF CreateOutboundDraft, NoOutbound, OutboundRow, OutboundStatus, Outcome
<1>5. ASSUME NEW o \in Outbound, ApproveOutboundMessage(o) PROVE TypeOK'
  <2> DEFINE row == [outbox[o] EXCEPT !.status = "APPROVED", !.approvedBy = "operator"]
  <2>1. row \in OutboundRow
    BY RowType, RowFieldTypes
  <2>2. outbox' = [outbox EXCEPT ![o] = row]
    BY <1>5 DEF ApproveOutboundMessage
  <2>3. QED
    BY <1>5, <2>1, <2>2, RowUpdateType DEF ApproveOutboundMessage
<1>6. ASSUME NEW o \in Outbound, RejectOutboundMessage(o) PROVE TypeOK'
  <2> DEFINE row == [outbox[o] EXCEPT !.status = "REJECTED"]
  <2>1. row \in OutboundRow
    BY RowType, RowFieldTypes
  <2>2. outbox' = [outbox EXCEPT ![o] = row]
    BY <1>6 DEF RejectOutboundMessage
  <2>3. QED
    BY <1>6, <2>1, <2>2, RowUpdateType DEF RejectOutboundMessage
<1>7. ASSUME NEW r \in Request, NEW o \in Outbound, ClaimOutboundForSend(r, o) PROVE TypeOK'
  BY <1>7 DEF ClaimOutboundForSend, NextAttemptNumber, OutboundRow, OutboundStatus, Outcome,
              AttemptRow, Phase
<1>8. ASSUME NEW r \in Request, NEW o \in Outbound, SendNotClaimed(r, o) PROVE TypeOK'
  BY <1>8 DEF SendNotClaimed, Phase
<1>9. ASSUME NEW o \in Outbound, LeaseExpires(o) PROVE TypeOK'
  <2> DEFINE row == [outbox[o] EXCEPT !.leaseExpired = TRUE]
  <2>1. row \in OutboundRow
    BY RowType, RowFieldTypes
  <2>2. outbox' = [outbox EXCEPT ![o] = row]
    BY <1>9 DEF LeaseExpires
  <2>3. QED
    BY <1>9, <2>1, <2>2, RowUpdateType DEF LeaseExpires
<1>10. ASSUME NEW r \in Request, ConnectFails(r) PROVE TypeOK'
  BY <1>10, AnsweredType DEF ConnectFails, Answer
<1>11. ASSUME NEW r \in Request, PostMessage(r) PROVE TypeOK'
  BY <1>11 DEF PostMessage, Phase
<1>12. ASSUME NEW r \in Request, NEW a \in Answer, SendTextEnds(r, a) PROVE TypeOK'
  BY <1>12, AnsweredType DEF SendTextEnds
<1>13. ASSUME NEW r \in Request, CrashRequest(r) PROVE TypeOK'
  BY <1>13 DEF CrashRequest, Phase
<1>14. ASSUME NEW r \in Request, MarkOutbound(r) PROVE TypeOK'
  <2> DEFINE o == attempt[r].outbound
             outcome == OutcomeOf(request[r].answer)
             row == Marked(outbox[o], r, outcome)
  <2>1. outcome \in Outcome
    BY DEF OutcomeOf, Outcome
  <2>2. ASSUME o \in Outbound PROVE row \in OutboundRow
    BY <2>1, <2>2, RowType, MarkedRowType
  <2>3. outbox' = [outbox EXCEPT ![o] = row]
    BY <1>14 DEF MarkOutbound
  <2>4. outbox' \in [Outbound -> OutboundRow]
    <3> HIDE DEF o, row
    <3>1. CASE o \in Outbound
      BY <3>1, <2>2, <2>3, RowUpdateType
    <3>2. CASE o \notin Outbound
      BY <3>2, <2>3
    <3> QED BY <3>1, <3>2
  <2>5. attempt' \in [Request -> AttemptRow]
    BY <1>14, <2>1 DEF MarkOutbound, AttemptRow
  <2>6. QED
    BY <1>14, <2>4, <2>5 DEF MarkOutbound, Phase
<1>15. ASSUME NEW r \in Request, MarkRefused(r) PROVE TypeOK'
  BY <1>15 DEF MarkRefused, Phase
<1>16. ASSUME NEW r \in Request, NEW v \in {"accepted", "refused"}, MetaDecides(r, v)
       PROVE  TypeOK'
  BY <1>16 DEF MetaDecides
<1>17. ASSUME NEW r \in Request, NEW s \in DeliveryStatus, RecordOutboundDeliveryStatus(r, s)
       PROVE  TypeOK'
  <2>1. PICK o \in Outbound :
          /\ outbox' = IF Supersedes(s, outbox[o].deliveryStatus)
                       THEN [outbox EXCEPT ![o].deliveryStatus = s]
                       ELSE outbox
          /\ deliveryEvents' = deliveryEvents \cup {<<r, s>>}
          /\ UNCHANGED <<sourceVars, sendVars>>
    BY <1>17 DEF RecordOutboundDeliveryStatus
  <2> DEFINE row == [outbox[o] EXCEPT !.deliveryStatus = s]
  <2>2. row \in OutboundRow
    BY RowType, RowFieldTypes
  <2>3. outbox' = [outbox EXCEPT ![o] = row] \/ outbox' = outbox
    BY <2>1
  <2>4. outbox' \in [Outbound -> OutboundRow]
    BY <2>2, <2>3, RowUpdateType
  <2>5. QED
    BY <2>1, <2>4
<1>18. CASE UNCHANGED vars
  BY <1>18 DEF vars
<1>19. QED
  BY <1>1, <1>2, <1>3, <1>4, <1>5, <1>6, <1>7, <1>8, <1>9, <1>10, <1>11, <1>12, <1>13,
     <1>14, <1>15, <1>16, <1>17, <1>18, NextCases

\* Every variable keeps its type: in particular no claim, answer or report can
\* put a value in a row that the columns' CHECK constraints would refuse.
THEOREM TypeCorrect == Spec => []TypeOK
<1>1. Init => TypeOK
  BY TypeInit
<1>2. TypeOK /\ [Next]_vars => TypeOK'
  BY TypeStep
<1>3. QED
  BY <1>1, <1>2, PTL DEF Spec
-----------------------------------------------------------------------------
(***************************************************************************)
(* The send invariant.  It speaks of the mode, the rows of messages and    *)
(* attempts, the calls and the wire; each lemma below takes one group of   *)
(* actions by what they change of these.                                   *)
(***************************************************************************)
Calls == \A r \in Request : CallConsistent(r)
Rows  == \A o \in Outbound : RowConsistent(o)

LEMMA SendInit == Init => SendRules
<1> SUFFICES ASSUME Init PROVE SendRules
  OBVIOUS
<1> USE OutboxAssumption DEF Init, NoOutbound, NoAttempt, AttemptsOf
<1>1. Calls
  BY DEF Calls, CallConsistent
<1>2. Rows
  BY DEF Rows, RowConsistent, Outcome
<1>3. AttemptsNumbered
  BY DEF AttemptsNumbered
<1>4. OutcomeOfNewestAttempt
  BY DEF OutcomeOfNewestAttempt
<1>5. LeaseOfNewestAttempt
  BY DEF LeaseOfNewestAttempt
<1>6. QED
  BY <1>1, <1>2, <1>3, <1>4, <1>5 DEF SendRules, Calls, Rows

\* Steps that change neither rows nor attempts: what remains is the calls.
LEMMA RowsFrame ==
  ASSUME SendRules, UNCHANGED <<mode, outbox, attempt>>
  PROVE  Rows' /\ AttemptsNumbered' /\ OutcomeOfNewestAttempt' /\ LeaseOfNewestAttempt'
<1> USE DEF SendRules, AttemptsOf
<1>1. Rows'
  BY DEF Rows, RowConsistent
<1>2. AttemptsNumbered'
  BY DEF AttemptsNumbered
<1>3. OutcomeOfNewestAttempt'
  BY DEF OutcomeOfNewestAttempt
<1>4. LeaseOfNewestAttempt'
  BY DEF LeaseOfNewestAttempt
<1>5. QED
  BY <1>1, <1>2, <1>3, <1>4

\* Steps that change neither calls nor attempts, and of one message's row only
\* what the numbering of its attempts and its lease do not depend on.
LEMMA ReviewFrame ==
  ASSUME TypeOK, SendRules, UNCHANGED <<attempt, request, wire>>,
         NEW o \in Outbound, NEW row, outbox' = [outbox EXCEPT ![o] = row],
         row.attemptCount = outbox[o].attemptCount,
         row.leaseOwner = outbox[o].leaseOwner,
         row.currentAttempt = outbox[o].currentAttempt,
         \/ row.status = outbox[o].status
         \/ outbox[o].attemptCount = 0 /\ row.status # "QUEUED"
  PROVE  Calls' /\ AttemptsNumbered' /\ OutcomeOfNewestAttempt' /\ LeaseOfNewestAttempt'
<1> USE DEF AttemptsOf
<1>1. /\ outbox'[o] = row
      /\ \A p \in Outbound : p # o => outbox'[p] = outbox[p]
  BY DEF TypeOK
<1>2. Calls'
  BY DEF SendRules, Calls, CallConsistent
<1>3. AttemptsNumbered'
  BY <1>1 DEF SendRules, AttemptsNumbered
<1>4. OutcomeOfNewestAttempt'
  <2>1. outbox[o].attemptCount = 0 => AttemptsOf(o) = {}
    BY DEF SendRules, AttemptsNumbered
  <2>2. QED
    BY <1>1, <2>1 DEF SendRules, OutcomeOfNewestAttempt
<1>5. LeaseOfNewestAttempt'
  <2>1. outbox[o].attemptCount = 0 => outbox[o].status # "QUEUED"
    BY DEF SendRules, RowConsistent
  <2>2. QED
    BY <1>1, <2>1 DEF SendRules, LeaseOfNewestAttempt
<1>6. QED
  BY <1>2, <1>3, <1>4, <1>5

\* Steps of a call, or of Meta, that change neither rows nor attempts
LEMMA CallSteps ==
  ASSUME TypeOK, SendRules, NEW r \in Request,
         \/ \E o \in Outbound : SendNotClaimed(r, o)
         \/ ConnectFails(r)
         \/ PostMessage(r)
         \/ \E a \in Answer : SendTextEnds(r, a)
         \/ CrashRequest(r)
         \/ MarkRefused(r)
         \/ \E v \in {"accepted", "refused"} : MetaDecides(r, v)
  PROVE  SendRules'
<1> USE OutboxAssumption DEF TypeOK
<1>1. UNCHANGED <<mode, outbox, attempt>>
  BY DEF SendNotClaimed, ConnectFails, PostMessage, SendTextEnds, CrashRequest, MarkRefused,
         MetaDecides, sourceVars
<1>2. \A q \in Request : q # r => request'[q] = request[q] /\ wire'[q] = wire[q]
  BY DEF SendNotClaimed, ConnectFails, PostMessage, SendTextEnds, CrashRequest, MarkRefused,
         MetaDecides, Answered
<1>3. \A q \in Request : q # r => CallConsistent(q)'
  BY <1>1, <1>2 DEF SendRules, CallConsistent
<1>4. CallConsistent(r)
  BY DEF SendRules
<1>5. CallConsistent(r)'
  <2>1. CASE \E o \in Outbound : SendNotClaimed(r, o)
    BY <1>1, <1>4, <2>1 DEF SendNotClaimed, CallConsistent
  <2>2. CASE ConnectFails(r)
    BY <1>1, <1>4, <2>2 DEF ConnectFails, Answered, CallConsistent
  <2>3. CASE PostMessage(r)
    BY <1>1, <1>4, <2>3 DEF PostMessage, CallConsistent
  <2>4. CASE \E a \in Answer : SendTextEnds(r, a)
    BY <1>1, <1>4, <2>4 DEF SendTextEnds, AnswerPossible, Answered, Answer, CallConsistent
  <2>5. CASE CrashRequest(r)
    BY <1>1, <1>4, <2>5 DEF CrashRequest, CallConsistent
  <2>6. CASE MarkRefused(r)
    BY <1>1, <1>4, <2>6 DEF MarkRefused, CallConsistent
  <2>7. CASE \E v \in {"accepted", "refused"} : MetaDecides(r, v)
    BY <1>1, <1>4, <2>7 DEF MetaDecides, CallConsistent
  <2>8. QED
    BY <2>1, <2>2, <2>3, <2>4, <2>5, <2>6, <2>7
<1>6. QED
  BY <1>1, <1>3, <1>5, RowsFrame DEF SendRules, Rows

\* Review, the end of a lease and delivery reports, which change one row
LEMMA RowSteps ==
  ASSUME TypeOK, SendRules,
         \/ \E o \in Outbound : CreateOutboundDraft(o)
         \/ \E o \in Outbound : ApproveOutboundMessage(o)
         \/ \E o \in Outbound : RejectOutboundMessage(o)
         \/ \E o \in Outbound : LeaseExpires(o)
         \/ \E r \in Request, s \in DeliveryStatus : RecordOutboundDeliveryStatus(r, s)
  PROVE  SendRules'
<1>1. PICK o \in Outbound :
        \/ CreateOutboundDraft(o)
        \/ ApproveOutboundMessage(o)
        \/ RejectOutboundMessage(o)
        \/ LeaseExpires(o)
        \/ \E r \in Request, s \in DeliveryStatus :
             /\ outbox[o].providerMessageId = r
             /\ outbox' = IF Supersedes(s, outbox[o].deliveryStatus)
                          THEN [outbox EXCEPT ![o].deliveryStatus = s]
                          ELSE outbox
             /\ UNCHANGED <<sourceVars, sendVars>>
  BY DEF RecordOutboundDeliveryStatus
<1> DEFINE row == outbox'[o]
<1>2. /\ UNCHANGED <<mode, attempt, request, wire>>
      /\ outbox' = [outbox EXCEPT ![o] = row]
  BY <1>1 DEF TypeOK, CreateOutboundDraft, ApproveOutboundMessage, RejectOutboundMessage,
              LeaseExpires, sourceVars, sendVars
<1>3. RowConsistent(o) /\ outbox[o] \in OutboundRow /\ outbox \in [Outbound -> OutboundRow]
  BY DEF SendRules, TypeOK
<1>4. outbox[o].status # "QUEUED" => outbox[o].leaseOwner = None /\ outbox[o].currentAttempt = 0
  BY DEF SendRules, LeaseOfNewestAttempt
<1>5. /\ row.attemptCount = outbox[o].attemptCount
      /\ row.leaseOwner = outbox[o].leaseOwner
      /\ row.currentAttempt = outbox[o].currentAttempt
      /\ \/ row.status = outbox[o].status
         \/ outbox[o].attemptCount = 0 /\ row.status # "QUEUED"
      /\ RowConsistent(o)'
  <2>1. CASE CreateOutboundDraft(o)
    <3>1. /\ row.status = IF mode = "AUTO_LOW_RISK" THEN "APPROVED" ELSE "PENDING_REVIEW"
          /\ row.approvedBy = IF mode = "AUTO_LOW_RISK" THEN "system" ELSE None
          /\ row.attemptCount = 0 /\ row.leaseOwner = None /\ row.currentAttempt = 0
          /\ row.providerMessageId = None /\ row.leaseExpired = FALSE
      BY <1>3, <2>1 DEF CreateOutboundDraft, NoOutbound
    <3>2. outbox[o].status = "ABSENT" /\ outbox[o].attemptCount = 0
      <4>1. outbox[o].status = "ABSENT"
        BY <2>1 DEF CreateOutboundDraft
      <4>2. outbox[o].attemptCount \in Nat
        BY <1>3 DEF OutboundRow
      <4>3. QED
        BY <1>3, <4>1, <4>2 DEF RowConsistent, Outcome
    <3> HIDE DEF row
    <3>3. RowConsistent(o)'
      BY <1>2, <1>3, <3>1 DEF RowConsistent, Outcome
    <3>4. QED
      BY <1>4, <3>1, <3>2, <3>3
  <2>2. CASE ApproveOutboundMessage(o)
    BY <1>2, <1>3, <2>2 DEF ApproveOutboundMessage, OutboundRow, Outcome, RowConsistent
  <2>3. CASE RejectOutboundMessage(o)
    <3>1. row = [outbox[o] EXCEPT !.status = "REJECTED"] /\ outbox[o].status = "PENDING_REVIEW"
      BY <1>3, <2>3 DEF RejectOutboundMessage
    <3>2. /\ row.status = "REJECTED"
          /\ row.attemptCount = outbox[o].attemptCount
          /\ row.leaseOwner = outbox[o].leaseOwner
          /\ row.currentAttempt = outbox[o].currentAttempt
          /\ row.providerMessageId = outbox[o].providerMessageId
          /\ row.leaseExpired = outbox[o].leaseExpired
      BY <1>3, <3>1 DEF OutboundRow
    <3>3. outbox[o].attemptCount = 0
      BY <1>3, <3>1 DEF RowConsistent, OutboundRow, Outcome
    <3> HIDE DEF row
    <3>4. RowConsistent(o)'
      BY <1>2, <1>3, <3>1, <3>2 DEF RowConsistent, Outcome
    <3>5. QED
      BY <3>2, <3>3, <3>4
  <2>4. CASE LeaseExpires(o)
    <3>1. row = [outbox[o] EXCEPT !.leaseExpired = TRUE] /\ outbox[o].status = "QUEUED"
      BY <1>3, <2>4 DEF LeaseExpires
    <3>2. /\ row.status = "QUEUED"
          /\ row.approvedBy = outbox[o].approvedBy
          /\ row.attemptCount = outbox[o].attemptCount
          /\ row.leaseOwner = outbox[o].leaseOwner
          /\ row.currentAttempt = outbox[o].currentAttempt
          /\ row.providerMessageId = outbox[o].providerMessageId
      BY <1>3, <3>1 DEF OutboundRow
    <3> HIDE DEF row
    <3>3. RowConsistent(o)'
      BY <1>2, <1>3, <3>1, <3>2 DEF RowConsistent, Outcome
    <3>4. QED
      BY <3>1, <3>2, <3>3
  <2>5. CASE \E r \in Request, s \in DeliveryStatus :
               /\ outbox[o].providerMessageId = r
               /\ outbox' = IF Supersedes(s, outbox[o].deliveryStatus)
                            THEN [outbox EXCEPT ![o].deliveryStatus = s]
                            ELSE outbox
    <3>1. /\ row.status = outbox[o].status
          /\ row.approvedBy = outbox[o].approvedBy
          /\ row.attemptCount = outbox[o].attemptCount
          /\ row.leaseOwner = outbox[o].leaseOwner
          /\ row.leaseExpired = outbox[o].leaseExpired
          /\ row.currentAttempt = outbox[o].currentAttempt
          /\ row.providerMessageId = outbox[o].providerMessageId
      BY <1>3, <2>5 DEF OutboundRow
    <3> HIDE DEF row
    <3>2. RowConsistent(o)'
      <4> HIDE <1>1, <2>5
      <4> QED BY <1>2, <1>3, <3>1 DEF RowConsistent, AttemptsOf
    <3>3. QED
      BY <3>1, <3>2
  <2>6. QED
    BY <1>1, <2>1, <2>2, <2>3, <2>4, <2>5
<1>6. Calls' /\ AttemptsNumbered' /\ OutcomeOfNewestAttempt' /\ LeaseOfNewestAttempt'
  <2> HIDE DEF row
  <2> QED BY <1>2, <1>5, ReviewFrame
<1>7. Rows'
  BY <1>2, <1>3, <1>5 DEF SendRules, Rows, RowConsistent, AttemptsOf
<1>8. QED
  BY <1>6, <1>7 DEF SendRules, Calls, Rows

\* A claim adds the next attempt; the earlier ones, if any, were given up.
LEMMA ClaimStep ==
  ASSUME TypeOK, SendRules, NEW r \in Request, NEW o \in Outbound,
         ClaimOutboundForSend(r, o)
  PROVE  SendRules'
<1> USE OutboxAssumption
<1> DEFINE n == outbox[o].attemptCount + 1
<1>1. /\ n \in Nat /\ n > 0
      /\ outbox[o].attemptCount \in Nat
      /\ \A p \in Outbound : outbox[p].attemptCount \in Nat
      /\ \A q \in Request : attempt[q].number \in Nat
  BY DEF TypeOK, OutboundRow, AttemptRow
<1>2. /\ attempt[r].outbound = None
      /\ request[r].answer = None
      /\ wire[r] = "unsent"
  BY DEF SendRules, CallConsistent, ClaimOutboundForSend
<1>3. /\ outbox[o].status \in {"APPROVED", "QUEUED"}
      /\ outbox[o].providerMessageId = None
  BY DEF ClaimOutboundForSend, Claimable
<1>4. /\ UNCHANGED <<mode, wire>>
      /\ attempt'[r] = [outbound |-> o, number |-> n, status |-> "CLAIMED"]
      /\ \A q \in Request : q # r => attempt'[q] = attempt[q] /\ request'[q] = request[q]
      /\ request'[r].phase = "claimed" /\ request'[r].answer = request[r].answer
  BY DEF ClaimOutboundForSend, NextAttemptNumber, TypeOK, sourceVars
<1>5. /\ \A p \in Outbound : p # o => outbox'[p] = outbox[p]
      /\ outbox'[o] = [outbox[o] EXCEPT !.status = "QUEUED", !.attemptCount = n,
                           !.leaseOwner = r, !.leaseExpired = FALSE, !.currentAttempt = n]
  BY DEF ClaimOutboundForSend, NextAttemptNumber, TypeOK
<1>6. /\ outbox'[o].status = "QUEUED"
      /\ outbox'[o].attemptCount = n
      /\ outbox'[o].leaseOwner = r
      /\ outbox'[o].currentAttempt = n
      /\ outbox'[o].providerMessageId = None
      /\ outbox'[o].approvedBy = outbox[o].approvedBy
  <2>1. outbox[o] \in OutboundRow
    BY DEF TypeOK
  <2>2. QED
    BY <1>3, <1>5, <2>1 DEF OutboundRow
<1> HIDE DEF n
<1>7. Calls'
  BY <1>2, <1>4 DEF SendRules, Calls, CallConsistent
<1>8. Rows'
  <2>1. RowConsistent(o)'
    BY <1>1, <1>3, <1>4, <1>6 DEF SendRules, RowConsistent, Outcome
  <2>2. ASSUME NEW p \in Outbound, p # o PROVE RowConsistent(p)'
    BY <1>2, <1>4, <1>5, <2>2 DEF SendRules, RowConsistent, AttemptsOf
  <2>3. QED
    BY <2>1, <2>2 DEF Rows
<1>9. AttemptsNumbered'
  <2> DEFINE Numbered(p) ==
        /\ \A q \in AttemptsOf(p) : attempt[q].number \in 1 .. outbox[p].attemptCount
        /\ \A k \in 1 .. outbox[p].attemptCount : \E q \in AttemptsOf(p) : attempt[q].number = k
        /\ \A q1, q2 \in AttemptsOf(p) : attempt[q1].number = attempt[q2].number => q1 = q2
  <2>1. Numbered(o)'
    <3>1. \A q \in AttemptsOf(o) : q # r /\ q \in AttemptsOf(o)' /\ attempt'[q] = attempt[q]
      BY <1>2, <1>4 DEF AttemptsOf
    <3>2. \A q \in AttemptsOf(o)' : q = r \/ q \in AttemptsOf(o)
      BY <1>4 DEF AttemptsOf
    <3>3. r \in AttemptsOf(o)' /\ attempt'[r].number = n
      BY <1>4 DEF AttemptsOf
    <3>4. \A k \in 1 .. n : k = n \/ k \in 1 .. outbox[o].attemptCount
      BY <1>1 DEF n
    <3>5. \A k \in 1 .. outbox[o].attemptCount : k \in 1 .. n /\ k # n
      BY <1>1 DEF n
    <3>6. Numbered(o)
      BY DEF SendRules, AttemptsNumbered
    <3>7. \A q \in AttemptsOf(o)' : attempt'[q].number \in 1 .. n
      BY <1>1, <3>1, <3>2, <3>3, <3>5, <3>6
    <3>8. \A k \in 1 .. n : \E q \in AttemptsOf(o)' : attempt'[q].number = k
      BY <3>1, <3>3, <3>4, <3>6
    <3>9. \A q1, q2 \in AttemptsOf(o)' : attempt'[q1].number = attempt'[q2].number => q1 = q2
      BY <3>1, <3>2, <3>3, <3>5, <3>6
    <3>10. QED
      BY <1>6, <3>7, <3>8, <3>9
  <2>2. ASSUME NEW p \in Outbound, p # o PROVE Numbered(p)'
    <3>1. AttemptsOf(p)' = AttemptsOf(p)
      BY <1>2, <1>4, <2>2 DEF AttemptsOf
    <3>2. \A q \in AttemptsOf(p) : attempt'[q] = attempt[q]
      BY <1>2, <1>4, <2>2 DEF AttemptsOf
    <3>3. Numbered(p)
      BY DEF SendRules, AttemptsNumbered
    <3>4. QED
      BY <1>5, <2>2, <3>1, <3>2, <3>3
  <2>3. QED
    BY <2>1, <2>2 DEF AttemptsNumbered
<1>10. OutcomeOfNewestAttempt'
  <2> SUFFICES ASSUME NEW p \in Outbound, NEW q \in Request, attempt'[q].outbound = p
               PROVE  attempt'[q].status =
                        IF attempt'[q].number = outbox'[p].attemptCount /\ outbox'[p].status # "QUEUED"
                        THEN outbox'[p].status ELSE "CLAIMED"
    BY DEF OutcomeOfNewestAttempt
  <2>1. CASE q = r
    BY <1>4, <1>6, <2>1
  <2>2. CASE q # r /\ p # o
    BY <1>4, <1>5, <2>2 DEF SendRules, OutcomeOfNewestAttempt
  <2>3. CASE q # r /\ p = o
    <3>1. attempt'[q] = attempt[q] /\ attempt[q].outbound = o
      BY <1>4, <2>3
    <3>2. attempt[q].number \in 1 .. outbox[o].attemptCount
      BY <3>1 DEF SendRules, AttemptsNumbered, AttemptsOf
    <3>3. outbox[o].attemptCount > 0
      BY <1>1, <3>2
    <3>4. outbox[o].status = "QUEUED"
      BY <1>3, <3>3 DEF SendRules, RowConsistent, Outcome
    <3>5. attempt[q].status = "CLAIMED"
      BY <3>1, <3>4 DEF SendRules, OutcomeOfNewestAttempt
    <3>6. QED
      BY <1>6, <2>3, <3>1, <3>5
  <2>4. QED
    BY <2>1, <2>2, <2>3
<1>11. LeaseOfNewestAttempt'
  <2>1. r \in AttemptsOf(o)' /\ attempt'[r].number = n
    BY <1>4 DEF AttemptsOf
  <2>2. \A p \in Outbound : p # o =>
          \A q \in AttemptsOf(p) : q \in AttemptsOf(p)' /\ attempt'[q] = attempt[q]
    BY <1>2, <1>4 DEF AttemptsOf
  <2> DEFINE Leased(p) ==
        IF outbox[p].status = "QUEUED"
        THEN \E q \in AttemptsOf(p) :
               /\ outbox[p].leaseOwner = q
               /\ attempt[q].number = outbox[p].attemptCount
               /\ outbox[p].currentAttempt = outbox[p].attemptCount
        ELSE outbox[p].leaseOwner = None /\ outbox[p].currentAttempt = 0
  <2>3. Leased(o)'
    BY <1>6, <2>1
  <2>4. ASSUME NEW p \in Outbound, p # o PROVE Leased(p)'
    <3>1. Leased(p)
      BY DEF SendRules, LeaseOfNewestAttempt
    <3>2. QED
      BY <1>5, <2>2, <2>4, <3>1
  <2>5. QED
    BY <2>3, <2>4 DEF LeaseOfNewestAttempt
<1>12. QED
  BY <1>7, <1>8, <1>9, <1>10, <1>11 DEF SendRules, Calls, Rows

\* An outcome is recorded by the call of the newest attempt.
LEMMA MarkStep ==
  ASSUME TypeOK, SendRules, NEW r \in Request, MarkOutbound(r)
  PROVE  SendRules'
<1> USE OutboxAssumption
<1> DEFINE outcome == OutcomeOf(request[r].answer)
<1>1. /\ request[r].phase = "answered"
      /\ request[r].answer # None
      /\ attempt[r].outbound \in Outbound
  BY DEF MarkOutbound, SendRules, CallConsistent, TypeOK, AttemptRow
<1> PICK o \in Outbound : attempt[r].outbound = o
  BY <1>1
<1>2. outcome \in Outcome
  BY DEF OutcomeOf, Outcome
<1>3. /\ outbox[o].status = "QUEUED"
      /\ outbox[o].leaseOwner = r
      /\ attempt[r].number = outbox[o].attemptCount
      /\ attempt[r].status = "CLAIMED"
  BY <1>1 DEF MarkOutbound, HoldsLease, SendRules, LeaseOfNewestAttempt,
              OutcomeOfNewestAttempt
<1>4. /\ UNCHANGED <<mode, wire>>
      /\ \A q \in Request : /\ attempt'[q].outbound = attempt[q].outbound
                             /\ attempt'[q].number = attempt[q].number
                             /\ request'[q].answer = request[q].answer
      /\ \A q \in Request : q # r => attempt'[q] = attempt[q] /\ request'[q] = request[q]
      /\ attempt'[r].status = outcome
      /\ request'[r].phase = "done"
  BY DEF MarkOutbound, TypeOK, AttemptRow, sourceVars
<1>5. /\ \A p \in Outbound : p # o => outbox'[p] = outbox[p]
      /\ outbox'[o] = Marked(outbox[o], r, outcome)
  BY <1>1 DEF MarkOutbound, TypeOK
<1>6. /\ outbox'[o].status = outcome
      /\ outbox'[o].attemptCount = outbox[o].attemptCount
      /\ outbox'[o].leaseOwner = None
      /\ outbox'[o].currentAttempt = 0
      /\ outbox'[o].leaseExpired = FALSE
      /\ outbox'[o].providerMessageId =
           IF outcome = "SENT" THEN r ELSE outbox[o].providerMessageId
      /\ outbox'[o].approvedBy = outbox[o].approvedBy
  <2>1. outbox[o] \in OutboundRow
    BY <1>1 DEF TypeOK
  <2>2. QED
    BY <1>5, <2>1 DEF OutboundRow, Marked, Released
<1>7. \A p \in Outbound : AttemptsOf(p)' = AttemptsOf(p)
  BY <1>4 DEF AttemptsOf
<1>8. Calls'
  BY <1>1, <1>4 DEF SendRules, Calls, CallConsistent
<1> HIDE DEF outcome
<1>9. r \in AttemptsOf(o)
  BY DEF AttemptsOf
<1>10. Rows'
  <2>1. RowConsistent(o)'
    <3>1. RowConsistent(o)
      BY <1>1 DEF SendRules
    <3>2. /\ outbox[o].attemptCount > 0
          /\ outbox[o].approvedBy = IF mode = "AUTO_LOW_RISK" THEN "system" ELSE "operator"
          /\ outbox[o].providerMessageId = None
      BY <1>3, <3>1 DEF RowConsistent, Outcome
    <3>3. IF outcome = "SENT"
          THEN /\ outbox'[o].providerMessageId = r
               /\ r \in AttemptsOf(o)'
               /\ attempt'[r].status = "SENT"
          ELSE outbox'[o].providerMessageId = None
      BY <1>1, <1>4, <1>6, <1>7, <1>9, <3>2
    <3>4. QED
      BY <1>2, <1>4, <1>6, <3>2, <3>3 DEF RowConsistent, Outcome
  <2>2. ASSUME NEW p \in Outbound, p # o PROVE RowConsistent(p)'
    <3>1. RowConsistent(p)
      BY DEF SendRules
    <3>2. \A q \in AttemptsOf(p) : q \in AttemptsOf(p)' /\ attempt'[q] = attempt[q]
      BY <1>4, <1>7, <1>9, <2>2 DEF AttemptsOf
    <3>3. QED
      BY <1>4, <1>5, <2>2, <3>1, <3>2 DEF RowConsistent
  <2>3. QED
    BY <2>1, <2>2 DEF Rows
<1>11. AttemptsNumbered'
  <2>1. \A p \in Outbound : outbox'[p].attemptCount = outbox[p].attemptCount
    BY <1>5, <1>6
  <2>2. \A p \in Outbound : \A q \in AttemptsOf(p) : attempt'[q].number = attempt[q].number
    BY <1>4 DEF AttemptsOf
  <2>3. QED
    BY <1>7, <2>1, <2>2 DEF SendRules, AttemptsNumbered
<1>12. OutcomeOfNewestAttempt'
  <2> SUFFICES ASSUME NEW p \in Outbound, NEW q \in Request, attempt'[q].outbound = p
               PROVE  attempt'[q].status =
                        IF attempt'[q].number = outbox'[p].attemptCount /\ outbox'[p].status # "QUEUED"
                        THEN outbox'[p].status ELSE "CLAIMED"
    BY DEF OutcomeOfNewestAttempt
  <2>1. CASE p # o
    BY <1>4, <1>5, <1>9, <2>1 DEF SendRules, OutcomeOfNewestAttempt, AttemptsOf
  <2>2. CASE p = o /\ q = r
    BY <1>2, <1>3, <1>4, <1>6, <2>2 DEF Outcome
  <2>3. CASE p = o /\ q # r
    <3>1. q \in AttemptsOf(o)
      BY <1>4, <2>3 DEF AttemptsOf
    <3>2. attempt[q].number # outbox[o].attemptCount
      BY <1>1, <1>3, <1>9, <2>3, <3>1 DEF SendRules, AttemptsNumbered
    <3>3. QED
      BY <1>3, <1>4, <1>6, <2>3, <3>2 DEF SendRules, OutcomeOfNewestAttempt
  <2>4. QED
    BY <2>1, <2>2, <2>3
<1>13. LeaseOfNewestAttempt'
  <2>1. outbox'[o].status # "QUEUED"
    BY <1>2, <1>6 DEF Outcome
  <2>2. \A p \in Outbound : p # o =>
          \A q \in AttemptsOf(p) : q \in AttemptsOf(p)' /\ attempt'[q].number = attempt[q].number
    BY <1>4, <1>7 DEF AttemptsOf
  <2>3. QED
    BY <1>5, <1>6, <2>1, <2>2 DEF SendRules, LeaseOfNewestAttempt
<1>14. QED
  BY <1>8, <1>10, <1>11, <1>12, <1>13 DEF SendRules, Calls, Rows

LEMMA SendStep == TypeOK /\ SendRules /\ [Next]_vars => SendRules'
<1> SUFFICES ASSUME TypeOK, SendRules, [Next]_vars PROVE SendRules'
  OBVIOUS
<1>1. CASE UNCHANGED <<mode, outbox, attempt, request, wire>>
  <2>1. Calls'
    BY <1>1 DEF SendRules, Calls, CallConsistent
  <2>2. QED
    BY <1>1, <2>1, RowsFrame DEF SendRules, Calls, Rows
<1>2. UNCHANGED vars => UNCHANGED <<mode, outbox, attempt, request, wire>>
  BY DEF vars, sourceVars, sendVars
<1>3. \/ \E o \in Outbound, d \in Body \cup {None} : UpsertResponsePlan(o, d)
      \/ \E o \in Outbound, s \in {"APPROVED", "REJECTED"} : UpsertResponseVerification(o, s)
      \/ \E c \in Conversation, s \in ConversationState : TransitionConversation(c, s)
      => UNCHANGED <<mode, outbox, attempt, request, wire>>
  BY DEF UpsertResponsePlan, UpsertResponseVerification, TransitionConversation, sendVars
<1>4. QED
  BY <1>1, <1>2, <1>3, NextCases, CallSteps, RowSteps, ClaimStep, MarkStep

\* The send protocol keeps its books: the attempts of a message, the lease it
\* is queued under, its recorded outcome and the state of every call agree,
\* whatever calls die or outlive their leases.
THEOREM SendInvariantHolds == Spec => []SendInvariant
<1>1. Init => TypeOK /\ SendRules
  BY TypeInit, SendInit
<1>2. TypeOK /\ SendRules /\ [Next]_vars => (TypeOK /\ SendRules)'
  BY TypeStep, SendStep
<1>3. QED
  BY <1>1, <1>2, PTL DEF Spec, SendInvariant

\* No claim can fail on the UNIQUE constraint of attempt_number.
THEOREM AttemptsAreNumbered == Spec => []AttemptsNumbered
<1>1. SendRules => AttemptsNumbered
  BY DEF SendRules
<1>2. QED
  BY <1>1, SendInvariantHolds, PTL DEF SendInvariant

\* Only the newest attempt of a message ever records an outcome, and the
\* message has that outcome.
THEOREM OnlyNewestConcludes == Spec => []OutcomeOfNewestAttempt
<1>1. SendRules => OutcomeOfNewestAttempt
  BY DEF SendRules
<1>2. QED
  BY <1>1, SendInvariantHolds, PTL DEF SendInvariant

\* The lease of a queued message is that of its newest attempt.
THEOREM NewestHoldsLease == Spec => []LeaseOfNewestAttempt
<1>1. SendRules => LeaseOfNewestAttempt
  BY DEF SendRules
<1>2. QED
  BY <1>1, SendInvariantHolds, PTL DEF SendInvariant
-----------------------------------------------------------------------------
(***************************************************************************)
(* What the invariant means for Meta and for the reviewers.                *)
(***************************************************************************)

\* A message with an attempt was claimed, hence approved before.
LEMMA AttemptedWasApproved ==
  ASSUME TypeOK, SendRules, NEW r \in Request, attempt[r].outbound # None
  PROVE  /\ attempt[r].outbound \in Outbound
         /\ outbox[attempt[r].outbound].status \in {"QUEUED"} \cup Outcome
         /\ outbox[attempt[r].outbound].approvedBy =
              IF mode = "AUTO_LOW_RISK" THEN "system" ELSE "operator"
<1>1. attempt[r].outbound \in Outbound
  BY DEF TypeOK, AttemptRow
<1> PICK o \in Outbound : attempt[r].outbound = o
  BY <1>1
<1>2. attempt[r].number \in 1 .. outbox[o].attemptCount /\ outbox[o].attemptCount \in Nat
  BY DEF SendRules, AttemptsNumbered, AttemptsOf, TypeOK, OutboundRow
<1>3. outbox[o].attemptCount > 0
  BY <1>2
<1>4. RowConsistent(o)
  BY DEF SendRules
<1>5. QED
  BY <1>1, <1>3, <1>4 DEF RowConsistent, Outcome

\* Nothing is posted to Meta that the tenant's mode or an operator did not
\* approve, however the plan, its verification and the conversation change.
THEOREM NothingUnapprovedPosted == Spec => []OnlyApprovedPosted
<1>1. TypeOK /\ SendRules => OnlyApprovedPosted
  <2> SUFFICES ASSUME TypeOK, SendRules, NEW r \in Request, wire[r] # "unsent"
               PROVE  /\ attempt[r].outbound # None
                      /\ outbox[attempt[r].outbound].approvedBy =
                           IF mode = "AUTO_LOW_RISK" THEN "system" ELSE "operator"
                      /\ outbox[attempt[r].outbound].status
                           \notin {"ABSENT", "PENDING_REVIEW", "REJECTED"}
    BY DEF OnlyApprovedPosted
  <2>1. attempt[r].outbound # None
    BY DEF SendRules, CallConsistent
  <2>2. QED
    BY <2>1, AttemptedWasApproved DEF Outcome
<1>2. QED
  BY <1>1, SendInvariantHolds, PTL DEF SendInvariant

\* A row says SENT only if Meta accepted the call whose id it stores.
THEOREM SentMeansAccepted == Spec => []SentWasAccepted
<1>1. TypeOK /\ SendRules => SentWasAccepted
  <2> SUFFICES ASSUME TypeOK, SendRules, NEW o \in Outbound, outbox[o].status = "SENT"
               PROVE  \E r \in AttemptsOf(o) :
                        outbox[o].providerMessageId = r /\ wire[r] = "accepted"
    BY DEF SentWasAccepted
  <2>1. PICK r \in AttemptsOf(o) : outbox[o].providerMessageId = r /\ attempt[r].status = "SENT"
    BY DEF SendRules, RowConsistent
  <2>2. OutcomeOf(request[r].answer) = "SENT" /\ CallConsistent(r)
    BY <2>1 DEF SendRules, CallConsistent, AttemptsOf
  <2>3. request[r].answer = "id"
    BY <2>2 DEF OutcomeOf
  <2>4. QED
    BY <2>1, <2>2, <2>3 DEF CallConsistent
<1>2. QED
  BY <1>1, SendInvariantHolds, PTL DEF SendInvariant

\* A FAILED attempt was never accepted, but for a 5xx answer and for one
\* without a message id.
THEOREM FailedMeansNotAccepted == Spec => []FailedWasNotAccepted
<1>1. TypeOK /\ SendRules => FailedWasNotAccepted
  <2> SUFFICES ASSUME TypeOK, SendRules, NEW r \in Request,
                      attempt[r].status = "FAILED",
                      request[r].answer \notin {"noId", "serverError"}
               PROVE  wire[r] \in {"unsent", "refused"}
    BY DEF FailedWasNotAccepted
  <2>1. CallConsistent(r)
    BY DEF SendRules
  <2>2. /\ OutcomeOf(request[r].answer) = "FAILED"
        /\ request[r].answer # None
        /\ request[r].answer \in Answer \cup {None}
    BY <2>1 DEF CallConsistent, TypeOK
  <2>3. request[r].answer \in {"preSend", "httpError"}
    BY <2>2 DEF OutcomeOf, Answer
  <2>4. QED
    BY <2>1, <2>3 DEF CallConsistent
<1>2. QED
  BY <1>1, SendInvariantHolds, PTL DEF SendInvariant
-----------------------------------------------------------------------------
(***************************************************************************)
(* What a step may do to the row of a message, to its attempts and to the  *)
(* wire.  Finality and the refinement both follow from this table.         *)
(***************************************************************************)
Advances(o) ==
  LET old == outbox[o].status
      new == outbox'[o].status IN
  \/ new = old
  \/ old = "ABSENT" /\ new \in {"APPROVED", "PENDING_REVIEW"}
  \/ old = "PENDING_REVIEW" /\ new \in {"APPROVED", "REJECTED"}
  \/ old = "APPROVED" /\ new = "QUEUED"
  \/ old = "QUEUED" /\ new \in Outcome

\* A step moves at most one message along the table.
LEMMA StatusStep ==
  ASSUME TypeOK, SendRules, [Next]_vars
  PROVE  \/ \A p \in Outbound : outbox'[p].status = outbox[p].status
         \/ \E o \in Outbound :
              /\ Advances(o)
              /\ UNCHANGED wire
              /\ \A r \in Request :
                   \/ attempt'[r].outbound = attempt[r].outbound
                   \/ attempt[r].outbound = None /\ wire[r] = "unsent"
              /\ \A p \in Outbound : p # o => outbox'[p].status = outbox[p].status
<1> USE DEF TypeOK, sendVars, sourceVars
<1>1. UNCHANGED outbox => \A p \in Outbound : outbox'[p].status = outbox[p].status
  OBVIOUS
<1>2. ASSUME NEW o \in Outbound,
             \/ CreateOutboundDraft(o)
             \/ ApproveOutboundMessage(o)
             \/ RejectOutboundMessage(o)
             \/ LeaseExpires(o)
      PROVE  /\ Advances(o) /\ UNCHANGED <<wire, attempt>>
             /\ \A p \in Outbound : p # o => outbox'[p].status = outbox[p].status
  <2>1. outbox[o] \in OutboundRow
    OBVIOUS
  <2>2. CASE CreateOutboundDraft(o)
    BY <2>2 DEF CreateOutboundDraft, NoOutbound, Advances
  <2>3. CASE ApproveOutboundMessage(o)
    BY <2>1, <2>3 DEF ApproveOutboundMessage, OutboundRow, Advances
  <2>4. CASE RejectOutboundMessage(o)
    BY <2>1, <2>4 DEF RejectOutboundMessage, OutboundRow, Advances
  <2>5. CASE LeaseExpires(o)
    BY <2>1, <2>5 DEF LeaseExpires, OutboundRow, Advances
  <2>6. QED
    BY <1>2, <2>2, <2>3, <2>4, <2>5
<1>3. ASSUME NEW r \in Request, NEW o \in Outbound, ClaimOutboundForSend(r, o)
      PROVE  /\ Advances(o) /\ UNCHANGED wire
             /\ \A q \in Request : q # r => attempt'[q] = attempt[q]
             /\ attempt[r].outbound = None /\ wire[r] = "unsent"
             /\ \A p \in Outbound : p # o => outbox'[p].status = outbox[p].status
  <2>1. outbox[o] \in OutboundRow
    OBVIOUS
  <2>2. outbox'[o].status = "QUEUED" /\ outbox[o].status \in {"APPROVED", "QUEUED"}
    BY <1>3, <2>1 DEF ClaimOutboundForSend, Claimable, OutboundRow
  <2>3. Advances(o)
    BY <2>2 DEF Advances
  <2>4. attempt[r].outbound = None /\ wire[r] = "unsent"
    BY <1>3 DEF ClaimOutboundForSend, SendRules, CallConsistent
  <2>5. QED
    BY <1>3, <2>3, <2>4 DEF ClaimOutboundForSend
<1>4. ASSUME NEW r \in Request, MarkOutbound(r)
      PROVE  \E o \in Outbound :
               /\ Advances(o) /\ UNCHANGED wire
               /\ \A q \in Request : attempt'[q].outbound = attempt[q].outbound
               /\ \A p \in Outbound : p # o => outbox'[p].status = outbox[p].status
  <2>1. attempt[r].outbound \in Outbound
    BY <1>4 DEF MarkOutbound, SendRules, CallConsistent, AttemptRow
  <2>2. PICK o \in Outbound : attempt[r].outbound = o
    BY <2>1
  <2> DEFINE outcome == OutcomeOf(request[r].answer)
  <2>3. outcome \in Outcome
    BY DEF OutcomeOf, Outcome
  <2>4. /\ outbox[o].status = "QUEUED"
        /\ outbox' = [outbox EXCEPT ![o] = Marked(outbox[o], r, outcome)]
        /\ UNCHANGED wire
    BY <1>4, <2>2 DEF MarkOutbound, HoldsLease
  <2>5. Marked(outbox[o], r, outcome).status = outcome
    <3>1. outbox[o] \in OutboundRow
      OBVIOUS
    <3> HIDE DEF outcome
    <3>2. QED
      BY <3>1 DEF Marked, Released, OutboundRow
  <2>6. Advances(o)
    BY <2>3, <2>4, <2>5 DEF Advances
  <2>7. \A q \in Request : attempt'[q].outbound = attempt[q].outbound
    BY <1>4 DEF MarkOutbound, AttemptRow
  <2>8. QED
    BY <2>4, <2>6, <2>7
<1>5. ASSUME NEW r \in Request, NEW s \in DeliveryStatus, RecordOutboundDeliveryStatus(r, s)
      PROVE  \A p \in Outbound : outbox'[p].status = outbox[p].status
  BY <1>5 DEF RecordOutboundDeliveryStatus, OutboundRow
<1>6. QED
  BY <1>1, <1>2, <1>3, <1>4, <1>5, OutboxCases

\* A step leaves the row of a finished attempt as it is.
LEMMA AttemptStep ==
  ASSUME TypeOK, SendRules, [Next]_vars, NEW r \in Request, attempt[r].status # "CLAIMED"
  PROVE  attempt'[r] = attempt[r]
<1>1. ASSUME NEW q \in Request, NEW o \in Outbound, ClaimOutboundForSend(q, o)
      PROVE  attempt'[r] = attempt[r]
  <2>1. request[r].phase = "done"
    BY DEF SendRules, CallConsistent
  <2>2. QED
    BY <1>1, <2>1 DEF ClaimOutboundForSend, TypeOK
<1>2. ASSUME NEW q \in Request, MarkOutbound(q) PROVE attempt'[r] = attempt[r]
  <2>1. request[r].phase = "done"
    BY DEF SendRules, CallConsistent
  <2>2. QED
    BY <1>2, <2>1 DEF MarkOutbound, TypeOK
<1>3. QED
  BY <1>1, <1>2, AttemptCases

\* A rejection, a recorded outcome and a finished attempt are final.
THEOREM FinalDecisions == Spec => DecisionsAreFinal
<1>1. TypeOK /\ SendRules /\ [Next]_vars =>
        /\ \A o \in Outbound :
             outbox[o].status \in Outcome \cup {"REJECTED"} =>
               outbox'[o].status = outbox[o].status
        /\ \A r \in Request : attempt[r].status # "CLAIMED" => attempt'[r] = attempt[r]
  <2> SUFFICES ASSUME TypeOK, SendRules, [Next]_vars
               PROVE  \A o \in Outbound :
                        outbox[o].status \in Outcome \cup {"REJECTED"} =>
                          outbox'[o].status = outbox[o].status
    BY AttemptStep
  <2>1. CASE \A p \in Outbound : outbox'[p].status = outbox[p].status
    BY <2>1
  <2>2. CASE \E o \in Outbound :
               /\ Advances(o)
               /\ \A p \in Outbound : p # o => outbox'[p].status = outbox[p].status
    <3>1. PICK o \in Outbound :
            /\ Advances(o)
            /\ \A p \in Outbound : p # o => outbox'[p].status = outbox[p].status
      BY <2>2
    <3>2. outbox[o].status \in Outcome \cup {"REJECTED"} => outbox'[o].status = outbox[o].status
      <4>1. Advances(o)
        BY <3>1
      <4>2. QED
        BY <4>1 DEF Advances, Outcome
    <3>3. QED
      BY <3>1, <3>2
  <2>3. QED
    BY <2>1, <2>2, StatusStep
<1>2. QED
  BY <1>1, SendInvariantHolds, PTL DEF SendInvariant, Spec, DecisionsAreFinal
-----------------------------------------------------------------------------
(***************************************************************************)
(* No answer is lost.                                                      *)
(***************************************************************************)

\* The attempts of a message only become more.
LEMMA AttemptsGrow ==
  ASSUME TypeOK, SendRules, [Next]_vars, NEW p \in Outbound
  PROVE  outbox'[p].attemptCount >= outbox[p].attemptCount
<1>1. outbox[p] \in OutboundRow /\ outbox \in [Outbound -> OutboundRow] /\ RowConsistent(p)
  BY DEF TypeOK, SendRules
<1>2. outbox[p].attemptCount \in Nat
  BY <1>1 DEF OutboundRow
<1>3. ASSUME NEW o \in Outbound, CreateOutboundDraft(o)
      PROVE  outbox'[p].attemptCount >= outbox[p].attemptCount
  <2>1. outbox[o].status = "ABSENT" /\ RowConsistent(o) /\ outbox[o].attemptCount \in Nat
    BY <1>3 DEF CreateOutboundDraft, SendRules, TypeOK, OutboundRow
  <2>2. outbox[o].attemptCount = 0
    BY <2>1 DEF RowConsistent, Outcome
  <2>3. outbox'[o].attemptCount = 0
    BY <1>1, <1>3 DEF CreateOutboundDraft, NoOutbound
  <2>4. p # o => outbox'[p] = outbox[p]
    BY <1>3 DEF CreateOutboundDraft
  <2>5. QED
    BY <1>2, <2>2, <2>3, <2>4
<1>4. ASSUME NEW o \in Outbound,
             ApproveOutboundMessage(o) \/ RejectOutboundMessage(o) \/ LeaseExpires(o)
      PROVE  outbox'[p].attemptCount = outbox[p].attemptCount
  BY <1>1, <1>4 DEF ApproveOutboundMessage, RejectOutboundMessage, LeaseExpires, OutboundRow
<1>5. ASSUME NEW r \in Request, NEW o \in Outbound, ClaimOutboundForSend(r, o)
      PROVE  outbox'[p].attemptCount >= outbox[p].attemptCount
  <2>1. outbox'[p].attemptCount \in {outbox[p].attemptCount, outbox[p].attemptCount + 1}
    BY <1>1, <1>5 DEF ClaimOutboundForSend, NextAttemptNumber, OutboundRow
  <2>2. QED
    BY <1>2, <2>1
<1>6. ASSUME NEW r \in Request, MarkOutbound(r)
      PROVE  outbox'[p].attemptCount = outbox[p].attemptCount
  <2> DEFINE outcome == OutcomeOf(request[r].answer)
  <2>1. Marked(outbox[p], r, outcome).attemptCount = outbox[p].attemptCount
    <3> HIDE DEF outcome
    <3> QED BY <1>1 DEF Marked, Released, OutboundRow
  <2>2. outbox'[p] \in {outbox[p], Marked(outbox[p], r, outcome)}
    <3>1. outbox' = [outbox EXCEPT ![attempt[r].outbound] = Marked(outbox[attempt[r].outbound], r, outcome)]
      BY <1>6 DEF MarkOutbound
    <3> HIDE DEF outcome
    <3>2. QED
      BY <1>1, <3>1
  <2>3. QED
    BY <2>1, <2>2
<1>7. ASSUME NEW r \in Request, NEW s \in DeliveryStatus, RecordOutboundDeliveryStatus(r, s)
      PROVE  outbox'[p].attemptCount = outbox[p].attemptCount
  BY <1>1, <1>7 DEF RecordOutboundDeliveryStatus, OutboundRow
<1>8. QED
  BY <1>2, <1>3, <1>4, <1>5, <1>6, <1>7, OutboxCases

\* A call that cannot record its answer is not of the newest attempt.
LEMMA RefusedIsSuperseded ==
  ASSUME TypeOK, SendRules, NEW r \in Request, MarkRefused(r)
  PROVE  /\ attempt[r].outbound \in Outbound
         /\ attempt[r].number < outbox[attempt[r].outbound].attemptCount
<1>1. request[r].phase = "answered" /\ ~HoldsLease(r) /\ CallConsistent(r)
  BY DEF MarkRefused, SendRules
<1>2. attempt[r].outbound # None /\ attempt[r].status = "CLAIMED"
  BY <1>1 DEF CallConsistent
<1>3. /\ attempt[r].outbound \in Outbound
      /\ outbox[attempt[r].outbound].status \in {"QUEUED"} \cup Outcome
  BY <1>2, AttemptedWasApproved
<1>4. PICK o \in Outbound : attempt[r].outbound = o
  BY <1>3
<1>5. /\ r \in AttemptsOf(o) /\ attempt[r].number \in 1 .. outbox[o].attemptCount
      /\ outbox[o].attemptCount \in Nat
  BY <1>4 DEF AttemptsOf, SendRules, AttemptsNumbered, TypeOK, OutboundRow
<1>6. ASSUME attempt[r].number = outbox[o].attemptCount PROVE FALSE
  <2>1. outbox[o].status = "QUEUED"
    BY <1>2, <1>3, <1>4, <1>6 DEF SendRules, OutcomeOfNewestAttempt, Outcome
  <2>2. PICK q \in AttemptsOf(o) :
          /\ outbox[o].leaseOwner = q
          /\ attempt[q].number = outbox[o].attemptCount
          /\ outbox[o].currentAttempt = outbox[o].attemptCount
    BY <2>1 DEF SendRules, LeaseOfNewestAttempt
  <2>3. q = r
    BY <1>5, <1>6, <2>2 DEF SendRules, AttemptsNumbered
  <2>4. QED
    BY <1>1, <1>4, <1>6, <2>1, <2>2, <2>3 DEF HoldsLease
<1>7. QED
  BY <1>4, <1>5, <1>6

\* The steps that end a call, or leave it where it is
LEMMA PhaseDone ==
  ASSUME TypeOK, [Next]_vars, NEW r \in Request, request[r].phase # "done"
  PROVE  \/ request'[r].phase # "done"
         \/ \E o \in Outbound : SendNotClaimed(r, o)
         \/ MarkOutbound(r) \/ MarkRefused(r)
<1> USE DEF TypeOK
<1>1. CASE UNCHANGED request
  BY <1>1
<1>2. ASSUME NEW q \in Request, NEW o \in Outbound,
             ClaimOutboundForSend(q, o) \/ SendNotClaimed(q, o)
      PROVE  (q = r /\ SendNotClaimed(q, o)) \/ request'[r].phase # "done"
  BY <1>2 DEF ClaimOutboundForSend, SendNotClaimed
<1>3. ASSUME NEW q \in Request, ConnectFails(q) \/ PostMessage(q) \/ CrashRequest(q)
      PROVE  request'[r].phase # "done"
  BY <1>3 DEF ConnectFails, Answered, PostMessage, CrashRequest
<1>4. ASSUME NEW q \in Request, NEW a \in Answer, SendTextEnds(q, a)
      PROVE  request'[r].phase # "done"
  BY <1>4 DEF SendTextEnds, Answered
<1>5. ASSUME NEW q \in Request, MarkOutbound(q) \/ MarkRefused(q)
      PROVE  q = r \/ request'[r].phase # "done"
  BY <1>5 DEF MarkOutbound, MarkRefused
<1>6. \/ UNCHANGED request
      \/ \E q \in Request, o \in Outbound : ClaimOutboundForSend(q, o) \/ SendNotClaimed(q, o)
      \/ \E q \in Request : ConnectFails(q) \/ PostMessage(q) \/ CrashRequest(q)
      \/ \E q \in Request, a \in Answer : SendTextEnds(q, a)
      \/ \E q \in Request : MarkOutbound(q) \/ MarkRefused(q)
  BY NextCases
  DEF vars, sendVars, UpsertResponsePlan, UpsertResponseVerification, TransitionConversation,
      CreateOutboundDraft, ApproveOutboundMessage, RejectOutboundMessage, LeaseExpires,
      MetaDecides, RecordOutboundDeliveryStatus
<1>7. QED
  BY <1>1, <1>2, <1>3, <1>4, <1>5, <1>6

\* What keeps the conclusion of one call
ConcludedOrSuperseded(r) ==
  \/ attempt[r].status \in Outcome
  \/ attempt[r].number < outbox[attempt[r].outbound].attemptCount

LEMMA EndedCallsStep ==
  TypeOK /\ SendRules /\ EndedCallsConclude /\ [Next]_vars => EndedCallsConclude'
<1> SUFFICES ASSUME TypeOK, SendRules, EndedCallsConclude, [Next]_vars, NEW r \in Request,
                    request'[r].phase = "done", attempt'[r].outbound # None
             PROVE  ConcludedOrSuperseded(r)'
  BY DEF EndedCallsConclude, ConcludedOrSuperseded
<1>1. CallConsistent(r) /\ attempt[r] \in AttemptRow
  BY DEF SendRules, TypeOK
<1>2. CASE attempt'[r] = attempt[r] /\ attempt[r].outbound # None /\ ConcludedOrSuperseded(r)
  <2>1. PICK o \in Outbound : attempt[r].outbound = o
    BY <1>1, <1>2 DEF AttemptRow
  <2>2. /\ outbox'[o].attemptCount >= outbox[o].attemptCount
        /\ outbox[o].attemptCount \in Nat /\ outbox'[o].attemptCount \in Nat
        /\ attempt[r].number \in Nat
    BY <1>1, AttemptsGrow, TypeStep DEF TypeOK, OutboundRow, AttemptRow
  <2>3. QED
    BY <1>2, <2>1, <2>2 DEF ConcludedOrSuperseded
<1>3. CASE request[r].phase = "done"
  <2>1. ASSUME NEW q \in Request, NEW o \in Outbound, ClaimOutboundForSend(q, o)
        PROVE  attempt'[r] = attempt[r]
    BY <1>3, <2>1 DEF ClaimOutboundForSend, TypeOK
  <2>2. ASSUME NEW q \in Request, MarkOutbound(q) PROVE attempt'[r] = attempt[r]
    BY <1>3, <2>2 DEF MarkOutbound, TypeOK
  <2>3. attempt'[r] = attempt[r]
    BY <2>1, <2>2, AttemptCases
  <2>4. QED
    BY <1>2, <1>3, <2>3 DEF EndedCallsConclude, ConcludedOrSuperseded
<1>4. CASE request[r].phase # "done"
  <2>1. ASSUME NEW o \in Outbound, SendNotClaimed(r, o) PROVE FALSE
    BY <1>1, <2>1 DEF SendNotClaimed, CallConsistent
  <2>2. CASE MarkOutbound(r)
    <3>1. OutcomeOf(request[r].answer) \in Outcome
      BY DEF OutcomeOf, Outcome
    <3>2. attempt'[r].status = OutcomeOf(request[r].answer)
      BY <1>1, <2>2 DEF MarkOutbound, TypeOK, AttemptRow
    <3>3. QED
      BY <3>1, <3>2 DEF ConcludedOrSuperseded
  <2>3. CASE MarkRefused(r)
    <3>1. UNCHANGED attempt
      BY <2>3 DEF MarkRefused
    <3>2. ConcludedOrSuperseded(r)
      BY <2>3, RefusedIsSuperseded DEF ConcludedOrSuperseded
    <3>3. QED
      BY <1>2, <3>1, <3>2
  <2>4. \/ request'[r].phase # "done"
        \/ \E o \in Outbound : SendNotClaimed(r, o)
        \/ MarkOutbound(r) \/ MarkRefused(r)
    BY <1>4, PhaseDone
  <2>5. QED
    BY <2>1, <2>2, <2>3, <2>4
<1>5. QED
  BY <1>3, <1>4

\* No answer of Meta is lost: the call that gets it records the outcome, or its
\* message went on to a newer attempt, whichever calls die or outlive their
\* leases (EndedCallsConclude).
THEOREM AnswersAreNotLost == Spec => []EndedCallsConclude
<1>1. Init => EndedCallsConclude
  BY DEF Init, EndedCallsConclude
<1>2. QED
  BY <1>1, EndedCallsStep, SendInvariantHolds, PTL DEF SendInvariant, Spec
-----------------------------------------------------------------------------
(***************************************************************************)
(* The delivery status.                                                    *)
(***************************************************************************)

LEMMA RankBounds ==
  /\ DeliveryRank(None) = 0
  /\ \A s \in DeliveryStatus : DeliveryRank(s) \in 1 .. 4
BY OutboxAssumption DEF DeliveryRank, DeliveryStatus

\* A message that is not SENT has no id, and hence no report and no status.
LEMMA UnsentHasNoStatus ==
  ASSUME TypeOK, SendRules, DeliveryIsFurthestReported, NEW o \in Outbound,
         outbox[o].status # "SENT"
  PROVE  outbox[o].providerMessageId = None /\ outbox[o].deliveryStatus = None
<1>1. outbox[o].providerMessageId = None
  BY DEF SendRules, RowConsistent
<1>2. \A s : <<None, s>> \notin deliveryEvents
  BY OutboxAssumption DEF TypeOK
<1>3. Reported(o) = {}
  BY <1>1, <1>2 DEF Reported
<1>4. QED
  BY <1>1, <1>3 DEF DeliveryIsFurthestReported

\* An id belongs to one message.
LEMMA IdOfOneMessage ==
  ASSUME SendRules, NEW o \in Outbound, NEW p \in Outbound, NEW r \in Request,
         outbox[o].providerMessageId = r, outbox[p].providerMessageId = r
  PROVE  o = p /\ outbox[o].status = "SENT" /\ attempt[r].status = "SENT"
BY OutboxAssumption DEF SendRules, RowConsistent, AttemptsOf

DeliveryRules == EventsOfMessages /\ DeliveryIsFurthestReported

\* Steps that report nothing and send nothing
LEMMA DeliveryFrame ==
  ASSUME DeliveryRules, UNCHANGED deliveryEvents,
         \A o \in Outbound :
           /\ outbox'[o].providerMessageId = outbox[o].providerMessageId
           /\ outbox'[o].deliveryStatus = outbox[o].deliveryStatus
           /\ outbox'[o].status = "SENT" <=> outbox[o].status = "SENT"
  PROVE  DeliveryRules'
<1>1. \A o \in Outbound : Reported(o)' = Reported(o)
  BY DEF Reported
<1>2. EventsOfMessages'
  BY DEF DeliveryRules, EventsOfMessages
<1>3. DeliveryIsFurthestReported'
  BY <1>1 DEF DeliveryRules, DeliveryIsFurthestReported
<1>4. QED
  BY <1>2, <1>3 DEF DeliveryRules

\* The outcome of the newest attempt, whose id no report has named before
LEMMA MarkKeepsDelivery ==
  ASSUME TypeOK, SendRules, DeliveryRules, NEW r \in Request, MarkOutbound(r)
  PROVE  DeliveryRules'
<1> DEFINE outcome == OutcomeOf(request[r].answer)
<1>1. /\ request[r].phase = "answered" /\ HoldsLease(r) /\ UNCHANGED deliveryEvents
      /\ CallConsistent(r) /\ attempt[r] \in AttemptRow
  BY DEF MarkOutbound, SendRules, TypeOK
<1>2. PICK o \in Outbound : attempt[r].outbound = o
  BY <1>1 DEF CallConsistent, AttemptRow
<1>3. /\ outbox' = [outbox EXCEPT ![o] = Marked(outbox[o], r, outcome)]
      /\ outbox[o] \in OutboundRow /\ outbox[o].status = "QUEUED"
  BY <1>1, <1>2 DEF MarkOutbound, HoldsLease, TypeOK
<1>4. outbox[o].providerMessageId = None /\ outbox[o].deliveryStatus = None
  BY <1>3, UnsentHasNoStatus DEF DeliveryRules
<1> HIDE DEF outcome
<1>5. /\ outbox'[o].status = outcome
      /\ outbox'[o].providerMessageId = IF outcome = "SENT" THEN r ELSE None
      /\ outbox'[o].deliveryStatus = IF outcome = "SENT" THEN "SENT" ELSE None
      /\ \A p \in Outbound : p # o => outbox'[p] = outbox[p]
  BY <1>3, <1>4 DEF TypeOK, Marked, Released, OutboundRow
<1>6. CASE outcome # "SENT"
  BY <1>1, <1>3, <1>4, <1>5, <1>6, DeliveryFrame
<1>7. CASE outcome = "SENT"
  <2>1. attempt[r].status = "CLAIMED"
    BY <1>1 DEF CallConsistent
  <2>2. \A s \in DeliveryStatus : <<r, s>> \notin deliveryEvents
    BY <2>1, IdOfOneMessage DEF DeliveryRules, EventsOfMessages
  <2>3. Reported(o)' = {"SENT"}
    BY <1>1, <1>5, <1>7, <2>2 DEF Reported, DeliveryStatus
  <2>4. \A p \in Outbound : p # o => Reported(p)' = Reported(p)
    BY <1>1, <1>5 DEF Reported
  <2>5. EventsOfMessages'
    <3> SUFFICES ASSUME NEW q \in Request, NEW s \in DeliveryStatus, <<q, s>> \in deliveryEvents
                 PROVE  \E p \in Outbound : outbox'[p].providerMessageId = q
      BY <1>1 DEF EventsOfMessages
    <3>1. PICK p \in Outbound : outbox[p].providerMessageId = q
      BY DEF DeliveryRules, EventsOfMessages
    <3>2. p # o
      BY <1>4, <3>1, OutboxAssumption
    <3>3. QED
      BY <1>5, <3>1, <3>2
  <2>6. DeliveryRank("SENT") <= DeliveryRank("SENT")
    BY RankBounds DEF DeliveryStatus
  <2>7. DeliveryIsFurthestReported'
    BY <1>5, <1>7, <2>3, <2>4, <2>6 DEF DeliveryRules, DeliveryIsFurthestReported
  <2>8. QED
    BY <2>5, <2>7 DEF DeliveryRules
<1>8. QED
  BY <1>6, <1>7

\* A report about the message that has the id
LEMMA RecordKeepsDelivery ==
  ASSUME TypeOK, SendRules, DeliveryRules, NEW r \in Request, NEW s \in DeliveryStatus,
         RecordOutboundDeliveryStatus(r, s)
  PROVE  DeliveryRules'
<1>1. PICK o \in Outbound :
        /\ outbox[o].providerMessageId = r
        /\ deliveryEvents' = deliveryEvents \cup {<<r, s>>}
        /\ outbox' = IF Supersedes(s, outbox[o].deliveryStatus)
                     THEN [outbox EXCEPT ![o].deliveryStatus = s]
                     ELSE outbox
  BY DEF RecordOutboundDeliveryStatus
<1> DEFINE old == outbox[o].deliveryStatus
<1>2. /\ \A p \in Outbound : /\ outbox'[p].providerMessageId = outbox[p].providerMessageId
                             /\ outbox'[p].status = outbox[p].status
      /\ \A p \in Outbound : p # o => outbox'[p] = outbox[p]
      /\ outbox'[o].deliveryStatus = IF Supersedes(s, old) THEN s ELSE old
      /\ old \in DeliveryStatus \cup {None}
  BY <1>1 DEF TypeOK, OutboundRow
<1>3. \A p \in Outbound : p # o => outbox[p].providerMessageId # r
  BY <1>1, IdOfOneMessage
<1>4. EventsOfMessages'
  BY <1>1, <1>2 DEF DeliveryRules, EventsOfMessages
<1>5. /\ Reported(o)' = Reported(o) \cup {s}
      /\ \A p \in Outbound : p # o => Reported(p)' = Reported(p)
  BY <1>1, <1>2, <1>3 DEF Reported
<1>6. /\ \A t \in Reported(o) : DeliveryRank(t) <= DeliveryRank(old) /\ t \in DeliveryStatus
      /\ old # None => old \in Reported(o)
  BY DEF DeliveryRules, DeliveryIsFurthestReported, Reported
<1>7. /\ DeliveryRank(s) \in Nat /\ DeliveryRank(old) \in Nat
      /\ \A t \in DeliveryStatus : DeliveryRank(t) \in Nat
      /\ DeliveryRank(s) > 0 /\ DeliveryRank(None) = 0
  BY <1>2, RankBounds
<1>8. \A t \in Reported(o)' : DeliveryRank(t) <= DeliveryRank(outbox'[o].deliveryStatus)
  BY <1>2, <1>5, <1>6, <1>7 DEF Supersedes
<1>9. outbox'[o].deliveryStatus \in Reported(o)'
  BY <1>2, <1>5, <1>6, <1>7 DEF Supersedes
<1>10. DeliveryIsFurthestReported'
  BY <1>2, <1>5, <1>8, <1>9 DEF DeliveryRules, DeliveryIsFurthestReported
<1>11. QED
  BY <1>4, <1>10 DEF DeliveryRules

LEMMA DeliveryStep == TypeOK /\ SendRules /\ DeliveryRules /\ [Next]_vars => DeliveryRules'
<1> SUFFICES ASSUME TypeOK, SendRules, DeliveryRules, [Next]_vars PROVE DeliveryRules'
  OBVIOUS
<1>1. ASSUME NEW o \in Outbound,
             \/ CreateOutboundDraft(o)
             \/ ApproveOutboundMessage(o)
             \/ RejectOutboundMessage(o)
             \/ LeaseExpires(o)
      PROVE  DeliveryRules'
  <2>1. outbox[o] \in OutboundRow /\ outbox \in [Outbound -> OutboundRow]
    BY DEF TypeOK
  <2>2. outbox[o].status # "SENT" /\ UNCHANGED deliveryEvents
    BY <1>1 DEF CreateOutboundDraft, ApproveOutboundMessage, RejectOutboundMessage, LeaseExpires
  <2>3. outbox[o].providerMessageId = None /\ outbox[o].deliveryStatus = None
    BY <2>2, UnsentHasNoStatus DEF DeliveryRules
  <2>4. /\ \A p \in Outbound : p # o => outbox'[p] = outbox[p]
        /\ outbox'[o].status # "SENT"
        /\ outbox'[o].providerMessageId = None /\ outbox'[o].deliveryStatus = None
    <3>1. CASE CreateOutboundDraft(o)
      BY <2>1, <3>1 DEF CreateOutboundDraft, NoOutbound
    <3>2. CASE ApproveOutboundMessage(o)
      BY <2>1, <2>3, <3>2 DEF ApproveOutboundMessage, OutboundRow
    <3>3. CASE RejectOutboundMessage(o)
      BY <2>1, <2>3, <3>3 DEF RejectOutboundMessage, OutboundRow
    <3>4. CASE LeaseExpires(o)
      BY <2>1, <2>2, <2>3, <3>4 DEF LeaseExpires, OutboundRow
    <3>5. QED
      BY <1>1, <3>1, <3>2, <3>3, <3>4
  <2>5. QED
    BY <2>2, <2>3, <2>4, DeliveryFrame
<1>2. ASSUME NEW r \in Request, NEW o \in Outbound, ClaimOutboundForSend(r, o)
      PROVE  DeliveryRules'
  <2>1. outbox[o] \in OutboundRow /\ outbox \in [Outbound -> OutboundRow]
    BY DEF TypeOK
  <2>2. /\ UNCHANGED deliveryEvents
        /\ outbox[o].status # "SENT" /\ outbox'[o].status # "SENT"
        /\ outbox'[o].providerMessageId = outbox[o].providerMessageId
        /\ outbox'[o].deliveryStatus = outbox[o].deliveryStatus
        /\ \A p \in Outbound : p # o => outbox'[p] = outbox[p]
    BY <1>2, <2>1 DEF ClaimOutboundForSend, Claimable, OutboundRow
  <2>3. QED
    BY <2>2, DeliveryFrame
<1>3. CASE UNCHANGED <<outbox, deliveryEvents>>
  BY <1>3, DeliveryFrame
<1>4. UNCHANGED outbox /\ (\A r \in Request, s \in DeliveryStatus : ~RecordOutboundDeliveryStatus(r, s))
        => UNCHANGED deliveryEvents
  BY NextCases
  DEF vars, UpsertResponsePlan, UpsertResponseVerification, TransitionConversation,
      CreateOutboundDraft, ApproveOutboundMessage, RejectOutboundMessage, ClaimOutboundForSend,
      SendNotClaimed, LeaseExpires, ConnectFails, PostMessage, SendTextEnds, CrashRequest,
      MarkOutbound, MarkRefused, MetaDecides
<1>5. QED
  BY <1>1, <1>2, <1>3, <1>4, OutboxCases, MarkKeepsDelivery, RecordKeepsDelivery

\* The delivery status of a message is the furthest that Meta has reported about
\* it, in whatever order and however often the reports come, and none is
\* mixed up with those of another message (DeliveryIsFurthestReported).
THEOREM FurthestReportWins == Spec => []DeliveryIsFurthestReported
<1>1. Init => DeliveryRules
  BY OutboxAssumption
  DEF Init, NoOutbound, DeliveryRules, EventsOfMessages, DeliveryIsFurthestReported, Reported
<1>2. DeliveryRules => DeliveryIsFurthestReported
  BY DEF DeliveryRules
<1>3. QED
  BY <1>1, <1>2, DeliveryStep, SendInvariantHolds, PTL DEF SendInvariant, Spec
-----------------------------------------------------------------------------
(***************************************************************************)
(* The outbox implements ReviewedSend.                                     *)
(***************************************************************************)
StagedNow == [o \in Outbound |-> outbox[o].body]
StageNow == [o \in Outbound |-> StageOf(outbox[o].status)]
Handed   == {o \in Outbound : \E r \in AttemptsOf(o) : wire[r] # "unsent"}

\* A message concluded as SENT or UNKNOWN was handed to Meta before.
ConcludedWasHanded ==
  \A o \in Outbound : outbox[o].status \in {"SENT", "UNKNOWN"} => o \in Handed

LEMMA HandedBeforeOutcome == TypeOK /\ SendRules => ConcludedWasHanded
<1> SUFFICES ASSUME TypeOK, SendRules, NEW o \in Outbound,
                    outbox[o].status \in {"SENT", "UNKNOWN"}
             PROVE  o \in Handed
  BY DEF ConcludedWasHanded
<1>1. outbox[o].attemptCount \in Nat /\ outbox[o].attemptCount > 0
  BY DEF TypeOK, OutboundRow, SendRules, RowConsistent, Outcome
<1>2. PICK r \in AttemptsOf(o) : attempt[r].number = outbox[o].attemptCount
  BY <1>1 DEF SendRules, AttemptsNumbered
<1>3. attempt[r].status = outbox[o].status
  BY <1>2 DEF SendRules, OutcomeOfNewestAttempt, AttemptsOf
<1>4. /\ CallConsistent(r)
      /\ OutcomeOf(request[r].answer) \in {"SENT", "UNKNOWN"}
  BY <1>3 DEF SendRules, CallConsistent, AttemptsOf
<1>5. request[r].answer \in {"id", "uncertain"}
  BY <1>4 DEF OutcomeOf
<1>6. wire[r] # "unsent"
  BY <1>4, <1>5 DEF CallConsistent
<1>7. QED
  BY <1>6 DEF Handed

\* A message gets its text when its row is created, from the plan.
LEMMA TextStep ==
  ASSUME TypeOK, [Next]_vars
  PROVE  \/ StagedNow' = StagedNow
         \/ \E o \in Outbound : CreateOutboundDraft(o)
<1> USE DEF TypeOK
<1>1. \A o \in Outbound : outbox[o] \in OutboundRow
  OBVIOUS
<1>2. CASE UNCHANGED outbox
  BY <1>2 DEF StagedNow
<1>3. ASSUME NEW o \in Outbound,
             ApproveOutboundMessage(o) \/ RejectOutboundMessage(o) \/ LeaseExpires(o)
      PROVE  StagedNow' = StagedNow
  <2>1. ASSUME NEW p \in Outbound PROVE outbox'[p].body = outbox[p].body
    <3>1. CASE ApproveOutboundMessage(o)
      BY <1>1, <3>1 DEF ApproveOutboundMessage, OutboundRow
    <3>2. CASE RejectOutboundMessage(o)
      BY <1>1, <3>2 DEF RejectOutboundMessage, OutboundRow
    <3>3. CASE LeaseExpires(o)
      BY <1>1, <3>3 DEF LeaseExpires, OutboundRow
    <3>4. QED
      BY <1>3, <3>1, <3>2, <3>3
  <2>2. QED
    BY <2>1 DEF StagedNow
<1>4. ASSUME NEW r \in Request, NEW o \in Outbound, ClaimOutboundForSend(r, o)
      PROVE  StagedNow' = StagedNow
  BY <1>1, <1>4 DEF StagedNow, ClaimOutboundForSend, OutboundRow
<1>5. ASSUME NEW r \in Request, MarkOutbound(r)
      PROVE  StagedNow' = StagedNow
  <2> DEFINE outcome == OutcomeOf(request[r].answer)
             o == attempt[r].outbound
  <2>1. outbox' = [outbox EXCEPT ![o] = Marked(outbox[o], r, outcome)]
    BY <1>5 DEF MarkOutbound
  <2> HIDE DEF outcome, o
  <2>2. ASSUME NEW p \in Outbound PROVE outbox'[p].body = outbox[p].body
    BY <1>1, <2>1 DEF Marked, Released, OutboundRow
  <2>3. QED
    BY <2>2 DEF StagedNow
<1>6. ASSUME NEW r \in Request, NEW s \in DeliveryStatus, RecordOutboundDeliveryStatus(r, s)
      PROVE  StagedNow' = StagedNow
  BY <1>1, <1>6 DEF StagedNow, RecordOutboundDeliveryStatus, OutboundRow
<1>7. QED
  BY <1>2, <1>3, <1>4, <1>5, <1>6, OutboxCases

\* The steps that stage a message, and the one by which an operator approves it
LEMMA DecisionStep ==
  ASSUME TypeOK, SendRules, [Next]_vars, NEW o \in Outbound
  PROVE  /\ outbox[o].status = "ABSENT" /\ outbox'[o].status # "ABSENT" =>
              CreateOutboundDraft(o)
         /\ outbox[o].status = "PENDING_REVIEW" /\ outbox'[o].status = "APPROVED" =>
              ApproveOutboundMessage(o)
<1> SUFFICES ASSUME \/ /\ outbox[o].status = "ABSENT" /\ outbox'[o].status # "ABSENT"
                       /\ ~CreateOutboundDraft(o)
                    \/ /\ outbox[o].status = "PENDING_REVIEW" /\ outbox'[o].status = "APPROVED"
                       /\ ~ApproveOutboundMessage(o)
             PROVE  FALSE
  OBVIOUS
<1> USE DEF TypeOK
<1>1. outbox[o] \in OutboundRow
  OBVIOUS
<1>2. ASSUME NEW p \in Outbound, CreateOutboundDraft(p) PROVE FALSE
  BY <1>2 DEF CreateOutboundDraft
<1>3. ASSUME NEW p \in Outbound, ApproveOutboundMessage(p) PROVE FALSE
  BY <1>1, <1>3 DEF ApproveOutboundMessage
<1>4. ASSUME NEW p \in Outbound, RejectOutboundMessage(p) \/ LeaseExpires(p) PROVE FALSE
  BY <1>1, <1>4 DEF RejectOutboundMessage, LeaseExpires, OutboundRow
<1>5. ASSUME NEW r \in Request, NEW p \in Outbound, ClaimOutboundForSend(r, p) PROVE FALSE
  BY <1>1, <1>5 DEF ClaimOutboundForSend, Claimable
<1>6. ASSUME NEW r \in Request, MarkOutbound(r) PROVE FALSE
  <2>1. outbox'[o] = outbox[o] \/ outbox[o].status = "QUEUED"
    BY <1>6 DEF MarkOutbound, HoldsLease
  <2>2. QED
    BY <2>1
<1>7. ASSUME NEW r \in Request, NEW s \in DeliveryStatus, RecordOutboundDeliveryStatus(r, s)
      PROVE  FALSE
  BY <1>1, <1>7 DEF RecordOutboundDeliveryStatus, OutboundRow
<1>8. QED
  BY <1>2, <1>3, <1>4, <1>5, <1>6, <1>7, OutboxCases

\* Only a plan that is written has another text.
LEMMA PlanStep ==
  ASSUME [Next]_vars
  PROVE  \/ UNCHANGED draft
         \/ \E o \in Outbound, d \in Body \cup {None} : UpsertResponsePlan(o, d)
BY NextCases
DEF vars, sourceVars, UpsertResponseVerification, TransitionConversation,
    CreateOutboundDraft, ApproveOutboundMessage, RejectOutboundMessage,
    ClaimOutboundForSend, SendNotClaimed, LeaseExpires, ConnectFails, PostMessage,
    SendTextEnds, CrashRequest, MarkOutbound, MarkRefused, MetaDecides,
    RecordOutboundDeliveryStatus

LEMMA SimulationInit == Init => Promise!Init
<1> SUFFICES ASSUME Init
             PROVE  /\ draft = [o \in Outbound |-> None]
                    /\ StagedNow = [o \in Outbound |-> None]
                    /\ StageNow = [o \in Outbound |-> "absent"]
                    /\ Handed = {}
  BY DEF Promise!Init, StagedNow, StageNow, Handed
<1>1. /\ draft = [o \in Outbound |-> None]
      /\ StagedNow = [o \in Outbound |-> None]
      /\ StageNow = [o \in Outbound |-> "absent"]
  BY DEF Init, NoOutbound, StagedNow, StageNow, StageOf
<1>2. Handed = {}
  BY DEF Init, Handed, AttemptsOf
<1>3. QED
  BY <1>1, <1>2

LEMMA SimulationStep ==
  TypeOK /\ SendRules /\ ConcludedWasHanded' /\ [Next]_vars =>
    [Promise!Next]_(Promise!vars)
<1> SUFFICES ASSUME TypeOK, SendRules, ConcludedWasHanded', [Next]_vars
             PROVE  [Promise!Next]_(Promise!vars)
  OBVIOUS
<1>1. /\ \A o, s : Promise!Move(o, s, StageOf(outbox'[o].status)) <=>
                   /\ StageNow[o] = s
                   /\ StageNow' = [StageNow EXCEPT ![o] = StageOf(outbox'[o].status)]
                   /\ draft' = draft
                   /\ Handed' = Handed
      /\ \A o : Promise!HandOver(o) <=>
                /\ StageNow[o] \in {"approved"} \cup {"sent", "failed", "unknown"}
                /\ Handed' = Handed \cup {o}
                /\ draft' = draft /\ StagedNow' = StagedNow /\ StageNow' = StageNow
      /\ draft' = draft /\ StagedNow' = StagedNow /\ StageNow' = StageNow /\ Handed' = Handed =>
           UNCHANGED Promise!vars
  BY DEF Promise!Move, Promise!HandOver, Promise!Concluded, Promise!vars, StagedNow, StageNow,
         Handed
<1>0. ASSUME NEW o \in Outbound, NEW d \in Body \cup {None}, UpsertResponsePlan(o, d)
      PROVE  Promise!Next
  <2>1. /\ draft' = [draft EXCEPT ![o] = d]
        /\ UNCHANGED <<outbox, attempt, wire>>
    BY <1>0 DEF UpsertResponsePlan, sendVars
  <2>2. Promise!Plan(o, d)
    BY <2>1 DEF Promise!Plan, AttemptsOf
  <2>3. QED
    BY <2>2 DEF Promise!Next
<1> SUFFICES ASSUME UNCHANGED draft
             PROVE  [Promise!Next]_(Promise!vars)
  BY <1>0, PlanStep
<1>2. CASE \E o \in Outbound :
             /\ Advances(o)
             /\ UNCHANGED wire
             /\ \A r \in Request :
                  \/ attempt'[r].outbound = attempt[r].outbound
                  \/ attempt[r].outbound = None /\ wire[r] = "unsent"
             /\ \A p \in Outbound : p # o => outbox'[p].status = outbox[p].status
  <2>1. PICK o \in Outbound :
             /\ Advances(o)
             /\ UNCHANGED wire
             /\ \A r \in Request :
                  \/ attempt'[r].outbound = attempt[r].outbound
                  \/ attempt[r].outbound = None /\ wire[r] = "unsent"
             /\ \A p \in Outbound : p # o => outbox'[p].status = outbox[p].status
    BY <1>2
  <2>2. Handed' = Handed
    BY <2>1 DEF Handed, AttemptsOf
  <2> DEFINE new == StageOf(outbox'[o].status)
  <2>3. StageNow' = [StageNow EXCEPT ![o] = new] /\ StageNow[o] = StageOf(outbox[o].status)
    BY <2>1 DEF StageNow
  <2>4. \A s : StageNow[o] = s => Promise!Move(o, s, new)
    BY <1>1, <2>2, <2>3
  <2>5. CASE outbox'[o].status = outbox[o].status
    <3>1. StageNow' = StageNow
      BY <2>1, <2>5 DEF StageNow
    <3>2. ASSUME NEW p \in Outbound, CreateOutboundDraft(p) PROVE FALSE
      BY <2>1, <2>5, <3>2 DEF CreateOutboundDraft, NoOutbound, TypeOK
    <3>3. QED
      BY <1>1, <2>2, <3>1, <3>2, TextStep
  <2>6. CASE /\ outbox[o].status = "ABSENT"
             /\ outbox'[o].status \in {"APPROVED", "PENDING_REVIEW"}
    <3>1. StageNow[o] = "absent" /\ new \in {"approved", "pending"}
      BY <2>3, <2>6 DEF StageOf
    <3>2. Promise!Move(o, "absent", new)
      BY <2>4, <3>1
    <3>3. CreateOutboundDraft(o)
      BY <2>6, DecisionStep
    <3>4. draft[o] # None /\ StagedNow' = [StagedNow EXCEPT ![o] = draft[o]]
      BY <3>3 DEF CreateOutboundDraft, NoOutbound, StagedNow, TypeOK
    <3> HIDE DEF new
    <3>5. Promise!StageApproved(o) \/ Promise!StageForReview(o)
      BY <3>1, <3>2, <3>4
      DEF Promise!StageApproved, Promise!StageForReview, Promise!Stages, StagedNow
    <3>6. QED
      BY <3>5 DEF Promise!Next
  <2>7. CASE /\ outbox[o].status = "PENDING_REVIEW"
             /\ outbox'[o].status \in {"APPROVED", "REJECTED"}
    <3>1. StageNow[o] = "pending" /\ new \in {"approved", "rejected"}
      BY <2>3, <2>7 DEF StageOf
    <3>2. Promise!Move(o, "pending", new)
      BY <2>4, <3>1
    <3>3. \A p \in Outbound : ~CreateOutboundDraft(p)
      BY <2>1, <2>7 DEF CreateOutboundDraft, NoOutbound, TypeOK
    <3>4. StagedNow' = StagedNow
      BY <3>3, TextStep
    <3>5. new = "approved" => StagedNow[o] = draft[o]
      BY <2>7, DecisionStep DEF ApproveOutboundMessage, StagedNow, StageOf
    <3> HIDE DEF new
    <3>6. Promise!Approve(o) \/ Promise!Reject(o)
      BY <3>1, <3>2, <3>4, <3>5 DEF Promise!Approve, Promise!Reject, StagedNow
    <3>7. QED
      BY <3>6 DEF Promise!Next
  <2>8. CASE outbox[o].status = "APPROVED" /\ outbox'[o].status = "QUEUED"
    <3>1. StageNow[o] = "approved" /\ new = "approved"
      BY <2>3, <2>8 DEF StageOf
    <3>2. StageNow' = StageNow
      BY <2>3, <3>1 DEF StageNow
    <3>3. \A p \in Outbound : ~CreateOutboundDraft(p)
      BY <2>1, <2>8 DEF CreateOutboundDraft, NoOutbound, TypeOK
    <3>4. QED
      BY <1>1, <2>2, <3>2, <3>3, TextStep
  <2>9. CASE outbox[o].status = "QUEUED" /\ outbox'[o].status \in Outcome
    <3>1. StageNow[o] = "approved" /\ new \in {"sent", "failed", "unknown"}
      BY <2>3, <2>9 DEF StageOf, Outcome
    <3>2. new \in {"sent", "unknown"} => o \in Handed'
      BY <2>9 DEF StageOf, Outcome, ConcludedWasHanded
    <3>3. Promise!Move(o, "approved", new)
      BY <2>4, <3>1
    <3>4. \A p \in Outbound : ~CreateOutboundDraft(p)
      BY <2>1, <2>9 DEF CreateOutboundDraft, NoOutbound, TypeOK, Outcome
    <3>5. StagedNow' = StagedNow
      BY <3>4, TextStep
    <3>6. Promise!Conclude(o, new)
      BY <2>2, <3>2, <3>3, <3>5 DEF Promise!Conclude, Handed, StagedNow
    <3>7. QED
      BY <3>1, <3>6 DEF Promise!Next, Promise!Concluded
  <2>10. QED
    BY <2>1, <2>5, <2>6, <2>7, <2>8, <2>9 DEF Advances
<1>3. CASE \A p \in Outbound : outbox'[p].status = outbox[p].status
  <2>0. ASSUME NEW p \in Outbound, CreateOutboundDraft(p) PROVE FALSE
    <3>1. outbox[p].status = "ABSENT" /\ outbox'[p].status # "ABSENT"
      BY <2>0 DEF CreateOutboundDraft, NoOutbound, TypeOK
    <3>2. QED
      BY <1>3, <3>1
  <2>1. StageNow' = StageNow /\ StagedNow' = StagedNow
    BY <1>3, <2>0, TextStep DEF StageNow
  <2>2. ASSUME NEW r \in Request, PostMessage(r)
        PROVE  [Promise!Next]_(Promise!vars)
    <3>1. request[r].phase = "claimed" /\ UNCHANGED attempt /\ wire' = [wire EXCEPT ![r] = "inFlight"]
      BY <2>2 DEF PostMessage
    <3>2. attempt[r].outbound # None
      BY <3>1 DEF SendRules, CallConsistent
    <3>3. /\ attempt[r].outbound \in Outbound
          /\ outbox[attempt[r].outbound].status \in {"QUEUED"} \cup Outcome
      BY <3>2, AttemptedWasApproved
    <3>4. PICK o \in Outbound : attempt[r].outbound = o
      BY <3>3
    <3>5. Handed' = Handed \cup {o}
      BY <3>1, <3>4 DEF Handed, AttemptsOf, TypeOK
    <3>6. StageNow[o] \in {"approved", "sent", "failed", "unknown"}
      BY <3>3, <3>4 DEF StageNow, StageOf, Outcome
    <3>7. Promise!HandOver(o)
      BY <1>1, <2>1, <3>5, <3>6
    <3>8. QED
      BY <3>7 DEF Promise!Next
  <2>3. CASE ~\E r \in Request : PostMessage(r)
    <3>1. \A q \in Request : wire'[q] = "unsent" <=> wire[q] = "unsent"
      BY <2>3, NextCases
      DEF vars, sendVars, UpsertResponsePlan, UpsertResponseVerification, TransitionConversation,
          CreateOutboundDraft, ApproveOutboundMessage, RejectOutboundMessage,
          ClaimOutboundForSend, SendNotClaimed, LeaseExpires, ConnectFails, SendTextEnds,
          CrashRequest, MarkOutbound, MarkRefused, MetaDecides, RecordOutboundDeliveryStatus,
          TypeOK
    <3>2. \A q \in Request : \/ attempt'[q].outbound = attempt[q].outbound
                             \/ wire[q] = "unsent"
      <4>1. ASSUME NEW q \in Request, NEW o \in Outbound, ClaimOutboundForSend(q, o)
            PROVE  <3>2
        BY <4>1 DEF ClaimOutboundForSend, SendRules, CallConsistent, TypeOK
      <4>2. ASSUME NEW q \in Request, MarkOutbound(q) PROVE <3>2
        BY <4>2 DEF MarkOutbound, TypeOK, AttemptRow
      <4>3. QED
        BY <4>1, <4>2, AttemptCases
    <3>3. Handed' = Handed
      BY <3>1, <3>2 DEF Handed, AttemptsOf
    <3>4. QED
      BY <1>1, <2>1, <3>3
  <2>4. QED
    BY <2>2, <2>3
<1>4. QED
  BY <1>2, <1>3, StatusStep

\* Under leases, crashes, late calls and plans that are rewritten the outbox
\* still does what ReviewedSend says: one decision, about the text the plan has
\* at that moment, only approved text handed over, one outcome.
THEOREM Refinement == Spec => ImplementsReviewedSend
<1>1. Init => Promise!Init
  BY SimulationInit
<1>2. TypeOK /\ SendRules => ConcludedWasHanded
  BY HandedBeforeOutcome
<1>3. TypeOK /\ SendRules /\ ConcludedWasHanded' /\ [Next]_vars =>
        [Promise!Next]_(Promise!vars)
  BY SimulationStep
<1>4. QED
  BY <1>1, <1>2, <1>3, SendInvariantHolds, PTL
  DEF SendInvariant, Spec, ImplementsReviewedSend, Promise!Spec
-----------------------------------------------------------------------------
(***************************************************************************)
(* The guarantee of the customer's side, under its assumption: no call     *)
(* dies between claim and outcome, and none outlives its lease.            *)
(***************************************************************************)

\* No lease runs out, hence no message is claimed twice.
OneClaim ==
  /\ \A r \in Request : request[r].phase # "crashed"
  /\ \A o \in Outbound : ~outbox[o].leaseExpired /\ outbox[o].attemptCount \in {0, 1}

LEMMA OneClaimStep ==
  ASSUME Punctual, ~Crashes, TypeOK, SendRules, OneClaim, [Next]_vars
  PROVE  OneClaim'
<1> USE DEF OneClaim, TypeOK
<1>1. \A r \in Request : request'[r].phase # "crashed"
  <2> SUFFICES ASSUME NEW q \in Request PROVE request'[q].phase # "crashed"
    OBVIOUS
  <2>1. CASE UNCHANGED request
    BY <2>1
  <2>2. ASSUME NEW r \in Request, NEW o \in Outbound,
               ClaimOutboundForSend(r, o) \/ SendNotClaimed(r, o)
        PROVE  request'[q].phase # "crashed"
    BY <2>2 DEF ClaimOutboundForSend, SendNotClaimed
  <2>3. ASSUME NEW r \in Request,
               ConnectFails(r) \/ PostMessage(r) \/ MarkOutbound(r) \/ MarkRefused(r)
        PROVE  request'[q].phase # "crashed"
    BY <2>3 DEF ConnectFails, Answered, PostMessage, MarkOutbound, MarkRefused
  <2>4. ASSUME NEW r \in Request, NEW a \in Answer, SendTextEnds(r, a)
        PROVE  request'[q].phase # "crashed"
    BY <2>4 DEF SendTextEnds, Answered
  <2>5. \A r \in Request : ~CrashRequest(r)
    BY DEF CrashRequest
  <2>6. \/ UNCHANGED request
        \/ \E r \in Request, o \in Outbound : ClaimOutboundForSend(r, o) \/ SendNotClaimed(r, o)
        \/ \E r \in Request :
             ConnectFails(r) \/ PostMessage(r) \/ MarkOutbound(r) \/ MarkRefused(r)
        \/ \E r \in Request, a \in Answer : SendTextEnds(r, a)
    BY <2>5, NextCases
    DEF vars, sendVars, UpsertResponsePlan, UpsertResponseVerification, TransitionConversation,
        CreateOutboundDraft, ApproveOutboundMessage, RejectOutboundMessage, LeaseExpires,
        MetaDecides, RecordOutboundDeliveryStatus
  <2>7. QED
    BY <2>1, <2>2, <2>3, <2>4, <2>6
<1>2. \A o \in Outbound : outbox[o] \in OutboundRow /\ RowConsistent(o)
  BY DEF SendRules
<1>3. ASSUME NEW o \in Outbound, CreateOutboundDraft(o)
      PROVE  \A p \in Outbound : ~outbox'[p].leaseExpired /\ outbox'[p].attemptCount \in {0, 1}
  BY <1>3 DEF CreateOutboundDraft, NoOutbound
<1>4. ASSUME NEW o \in Outbound, ApproveOutboundMessage(o) \/ RejectOutboundMessage(o)
      PROVE  \A p \in Outbound : ~outbox'[p].leaseExpired /\ outbox'[p].attemptCount \in {0, 1}
  BY <1>2, <1>4 DEF ApproveOutboundMessage, RejectOutboundMessage, OutboundRow
<1>5. ASSUME NEW r \in Request, NEW o \in Outbound, ClaimOutboundForSend(r, o)
      PROVE  \A p \in Outbound : ~outbox'[p].leaseExpired /\ outbox'[p].attemptCount \in {0, 1}
  <2>1. outbox[o].status = "APPROVED"
    BY <1>5 DEF ClaimOutboundForSend, Claimable
  <2>2. outbox[o].attemptCount = 0
    BY <1>2, <2>1 DEF RowConsistent, Outcome
  <2>3. outbox'[o].leaseExpired = FALSE /\ outbox'[o].attemptCount = 1
    BY <1>2, <1>5, <2>2 DEF ClaimOutboundForSend, NextAttemptNumber, OutboundRow
  <2>4. QED
    BY <1>5, <2>3 DEF ClaimOutboundForSend
<1>6. \A o \in Outbound : ~LeaseExpires(o)
  <2> SUFFICES ASSUME NEW o \in Outbound, LeaseExpires(o) PROVE FALSE
    OBVIOUS
  <2>1. outbox[o].leaseOwner \in Request
    BY DEF LeaseExpires, SendRules, LeaseOfNewestAttempt, AttemptsOf
  <2>2. QED
    BY <2>1 DEF LeaseExpires
<1>7. ASSUME NEW r \in Request, MarkOutbound(r)
      PROVE  \A p \in Outbound : ~outbox'[p].leaseExpired /\ outbox'[p].attemptCount \in {0, 1}
  <2> DEFINE outcome == OutcomeOf(request[r].answer)
  <2>1. PICK o \in Outbound : attempt[r].outbound = o
    BY <1>7 DEF MarkOutbound, SendRules, CallConsistent, AttemptRow
  <2>2. /\ Marked(outbox[o], r, outcome).leaseExpired = FALSE
        /\ Marked(outbox[o], r, outcome).attemptCount = outbox[o].attemptCount
    <3> HIDE DEF outcome
    <3> QED BY <1>2 DEF Marked, Released, OutboundRow
  <2>3. outbox' = [outbox EXCEPT ![o] = Marked(outbox[o], r, outcome)]
    BY <1>7, <2>1 DEF MarkOutbound
  <2>4. QED
    <3> HIDE DEF outcome
    <3> QED BY <2>2, <2>3
<1>8. ASSUME NEW r \in Request, NEW s \in DeliveryStatus, RecordOutboundDeliveryStatus(r, s)
      PROVE  \A p \in Outbound : ~outbox'[p].leaseExpired /\ outbox'[p].attemptCount \in {0, 1}
  BY <1>2, <1>8 DEF RecordOutboundDeliveryStatus, OutboundRow
<1>9. QED
  BY <1>1, <1>3, <1>4, <1>5, <1>6, <1>7, <1>8, OutboxCases

\* With punctual calls that do not die, no message reaches a customer twice,
\* however many send requests are made for it.
THEOREM NoDuplicateDelivery ==
  ASSUME Punctual, ~Crashes
  PROVE  Spec => []AcceptedAtMostOnce
<1>1. Init => OneClaim
  BY DEF Init, OneClaim, NoOutbound
<1>2. TypeOK /\ SendRules /\ OneClaim /\ [Next]_vars => OneClaim'
  BY OneClaimStep
<1>3. TypeOK /\ SendRules /\ OneClaim => AcceptedAtMostOnce
  <2> SUFFICES ASSUME TypeOK, SendRules, OneClaim,
                      NEW r1 \in Request, NEW r2 \in Request,
                      wire[r1] = "accepted",
                      attempt[r1].outbound = attempt[r2].outbound
               PROVE  r1 = r2
    BY DEF AcceptedAtMostOnce
  <2>1. attempt[r1].outbound # None
    BY DEF SendRules, CallConsistent
  <2>2. PICK o \in Outbound : attempt[r1].outbound = o
    BY <2>1, AttemptedWasApproved
  <2>3. /\ attempt[r1].number \in 1 .. outbox[o].attemptCount
        /\ attempt[r2].number \in 1 .. outbox[o].attemptCount
        /\ attempt[r1].number = attempt[r2].number => r1 = r2
    <3>1. r1 \in AttemptsOf(o) /\ r2 \in AttemptsOf(o)
      BY <2>2 DEF AttemptsOf
    <3>2. QED
      BY <3>1 DEF SendRules, AttemptsNumbered
  <2>4. attempt[r1].number = 1 /\ attempt[r2].number = 1
    <3>1. outbox[o].attemptCount \in {0, 1}
      BY DEF OneClaim
    <3>2. attempt[r1].number \in Nat /\ attempt[r2].number \in Nat
      BY DEF TypeOK, AttemptRow
    <3>3. QED
      BY <2>3, <3>1, <3>2
  <2>5. QED
    BY <2>3, <2>4
<1>4. QED
  BY <1>1, <1>2, <1>3, SendInvariantHolds, PTL DEF SendInvariant, Spec
=============================================================================
