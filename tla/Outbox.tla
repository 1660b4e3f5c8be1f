------------------------------- MODULE Outbox -------------------------------
(***************************************************************************)
(* The outbound message of a verified response plan, from its creation in  *)
(* the review queue to the delivery statuses Meta reports for it           *)
(* (repositories/outbox.py, services/whatsapp_sender.py,                   *)
(* whatsapp_provider.py).                                                  *)
(*                                                                         *)
(* A row of outbound_messages is claimed for sending under a lease in one  *)
(* transaction, the HTTP call to Meta runs outside any transaction, and a  *)
(* second transaction records its outcome if the caller still holds the    *)
(* lease.  Every call of the send endpoint is a process of this module.    *)
(*                                                                         *)
(* Abstractions: one tenant, with WHATSAPP_SEND_ENABLED; the hash of a     *)
(* body is the body itself; a timestamp is dropped where only its          *)
(* presence, already told by another column, matters; the error_code of a  *)
(* delivery event and the audit records are left out.                      *)
(***************************************************************************)
EXTENDS Naturals, FiniteSets, ConversationStates

CONSTANTS
  Outbound,        \* verified plans: UNIQUE (tenant_id, verification_id) gives each at most one row
  Conversation,    \* conversations of the tenant
  ConversationOf,  \* the conversation an outbound message belongs to
  Request,         \* calls of POST /operator/outbox/{id}/send; each draws its own lease owner
  Body,            \* texts a draft can have
  OutboundModes,   \* values of tenants.outbound_mode to start from
  None,            \* SQL NULL
  Crashes,         \* may a call die between its claim and its outcome?
  Punctual         \* does every live call end before its lease does?

ASSUME OutboxAssumption ==
  /\ ConversationOf \in [Outbound -> Conversation]
  /\ OutboundModes \subseteq {"DISABLED", "REVIEW_REQUIRED", "AUTO_LOW_RISK"}
  /\ None \notin Body /\ None \notin Request /\ None \notin Outbound
  /\ None \notin {"operator", "system", "SENT", "FAILED", "DELIVERED", "READ",
                  "APPROVED", "REJECTED",
                  "id", "preSend", "httpError", "serverError", "noId", "uncertain"}
  /\ Crashes \in BOOLEAN
  /\ Punctual \in BOOLEAN

VARIABLES
  mode,            \* tenants.outbound_mode
  conversation,    \* conversations.state
  draft,           \* response_plans.draft_reply; None unless the decision is ANSWER or ASK
  verification,    \* response_verifications.status; None before the first verification.
                   \* SKIPPED is treated here as REJECTED is: both are not APPROVED.
  outbox,          \* outbound_messages
  attempt,         \* outbound_send_attempts, by the request that inserted the row
  request,         \* local state of each call of send_approved_outbound
  wire,            \* what became of the HTTP request of a call, as Meta knows it
  deliveryEvents   \* outbound_delivery_events, by (provider_message_id, delivery_status)

sourceVars == <<mode, conversation, draft, verification>>
sendVars   == <<attempt, request, wire>>
vars == <<sourceVars, outbox, sendVars, deliveryEvents>>
-----------------------------------------------------------------------------
DeliveryStatus == {"SENT", "FAILED", "DELIVERED", "READ"}
Outcome        == {"SENT", "FAILED", "UNKNOWN"}
OutboundStatus == {"ABSENT", "PENDING_REVIEW", "APPROVED", "REJECTED", "QUEUED"} \cup Outcome

\* A row of outbound_messages.  A message with status ABSENT has no row yet.
OutboundRow ==
  [status            : OutboundStatus,
   body              : Body \cup {None},
   approvedBy        : {"operator", "system", None},
   attemptCount      : Nat,
   leaseOwner        : Request \cup {None},
   leaseExpired      : BOOLEAN,
   currentAttempt    : Nat,
   providerMessageId : Request \cup {None},   \* Meta's id for the call it accepted
   deliveryStatus    : DeliveryStatus \cup {None}]

\* A row of outbound_send_attempts; outbound = None: the call has inserted none.
AttemptRow ==
  [outbound : Outbound \cup {None},
   number   : Nat,
   status   : {"CLAIMED"} \cup Outcome]

\* What provider.send_text returned or raised: a message id, no connection, a
\* 4xx answer, a 5xx answer, another answer without a message id, or a request
\* that timed out or lost its connection after it had started.
Answer == {"id", "preSend", "httpError", "serverError", "noId", "uncertain"}

Phase == {"new", "claimed", "posted", "answered", "done", "crashed"}

NoOutbound ==
  [status |-> "ABSENT", body |-> None, approvedBy |-> None, attemptCount |-> 0,
   leaseOwner |-> None, leaseExpired |-> FALSE, currentAttempt |-> 0,
   providerMessageId |-> None, deliveryStatus |-> None]

NoAttempt == [outbound |-> None, number |-> 0, status |-> "CLAIMED"]

Init ==
  /\ mode \in OutboundModes
  /\ conversation = [c \in Conversation |-> "AUTOMATED"]
  /\ draft = [o \in Outbound |-> None]
  /\ verification = [o \in Outbound |-> None]
  /\ outbox = [o \in Outbound |-> NoOutbound]
  /\ attempt = [r \in Request |-> NoAttempt]
  /\ request = [r \in Request |-> [phase |-> "new", answer |-> None]]
  /\ wire = [r \in Request |-> "unsent"]
  /\ deliveryEvents = {}
-----------------------------------------------------------------------------
(***************************************************************************)
(* The rows an outbound message is built from.  They are written by the    *)
(* webhook worker and by operators, each in a transaction of its own; a    *)
(* reprocessed webhook writes the plan and its verification again.         *)
(***************************************************************************)

\* upsert_response_plan, update_response_plan_draft
UpsertResponsePlan(o, d) ==
  /\ draft' = [draft EXCEPT ![o] = d]
  /\ UNCHANGED <<mode, conversation, verification, outbox, sendVars, deliveryEvents>>

\* upsert_response_verification
UpsertResponseVerification(o, s) ==
  /\ verification' = [verification EXCEPT ![o] = s]
  /\ UNCHANGED <<mode, conversation, draft, outbox, sendVars, deliveryEvents>>

\* transition_conversation
TransitionConversation(c, s) ==
  /\ s \in AllowedFrom(conversation[c])
  /\ conversation' = [conversation EXCEPT ![c] = s]
  /\ UNCHANGED <<mode, draft, verification, outbox, sendVars, deliveryEvents>>
-----------------------------------------------------------------------------
(***************************************************************************)
(* Review.                                                                 *)
(***************************************************************************)

\* create_outbound_draft.  ON CONFLICT DO NOTHING: an existing row is
\* returned as it is, whatever the plan says now.
CreateOutboundDraft(o) ==
  /\ outbox[o].status = "ABSENT"
  /\ verification[o] = "APPROVED"
  /\ conversation[ConversationOf[o]] = "AUTOMATED"
  /\ mode # "DISABLED"
  /\ draft[o] # None
  /\ LET automatic == mode = "AUTO_LOW_RISK" IN
     outbox' = [outbox EXCEPT
       ![o] = [NoOutbound EXCEPT
                 !.body = draft[o],
                 !.status = IF automatic THEN "APPROVED" ELSE "PENDING_REVIEW",
                 !.approvedBy = IF automatic THEN "system" ELSE None]]
  /\ UNCHANGED <<sourceVars, sendVars, deliveryEvents>>

\* Mutant of ApproveOutboundMessage: the plan is not compared again.
ApproveStagedText(o) ==
  /\ outbox[o].status = "PENDING_REVIEW"
  /\ conversation[ConversationOf[o]] = "AUTOMATED"
  /\ verification[o] = "APPROVED"
  /\ outbox' = [outbox EXCEPT ![o].status = "APPROVED", ![o].approvedBy = "operator"]
  /\ UNCHANGED <<sourceVars, sendVars, deliveryEvents>>

\* approve_outbound_message: an operator approves the text that was staged,
\* provided that the plan still has that text and is still verified.
ApproveOutboundMessage(o) ==
  /\ outbox[o].status = "PENDING_REVIEW"
  /\ conversation[ConversationOf[o]] = "AUTOMATED"
  /\ verification[o] = "APPROVED"
  /\ draft[o] = outbox[o].body
  /\ outbox' = [outbox EXCEPT ![o].status = "APPROVED", ![o].approvedBy = "operator"]
  /\ UNCHANGED <<sourceVars, sendVars, deliveryEvents>>

\* Mutant of RejectOutboundMessage: an approved message can be rejected too.
RejectUnlessSent(o) ==
  /\ outbox[o].status \in {"PENDING_REVIEW", "APPROVED"}
  /\ outbox' = [outbox EXCEPT ![o].status = "REJECTED"]
  /\ UNCHANGED <<sourceVars, sendVars, deliveryEvents>>

\* reject_outbound_message
RejectOutboundMessage(o) ==
  /\ outbox[o].status = "PENDING_REVIEW"
  /\ outbox' = [outbox EXCEPT ![o].status = "REJECTED"]
  /\ UNCHANGED <<sourceVars, sendVars, deliveryEvents>>
-----------------------------------------------------------------------------
(***************************************************************************)
(* Sending: send_approved_outbound and claim_outbound_for_send.            *)
(***************************************************************************)

\* Mutants of Claimable: a failed message is retried; the lease is not looked
\* at; a message under review is sent.
ClaimableAfterFailure(o) ==
  \/ outbox[o].status \in {"APPROVED", "FAILED"}
  \/ outbox[o].status = "QUEUED" /\ outbox[o].leaseExpired
ClaimableWhileLeased(o) == outbox[o].status \in {"APPROVED", "QUEUED"}
ClaimableUnreviewed(o) == outbox[o].status \in {"PENDING_REVIEW", "APPROVED"}

\* The row may be claimed: it is approved, or it is queued under a lease
\* that has run out.
Claimable(o) ==
  /\ \/ outbox[o].status = "APPROVED"
     \/ outbox[o].status = "QUEUED" /\ outbox[o].leaseExpired
  /\ outbox[o].providerMessageId = None

\* Mutant of NextAttemptNumber: taking over a lease goes on with its attempt.
SameAttemptNumber(o) ==
  IF outbox[o].status = "QUEUED" THEN outbox[o].attemptCount ELSE outbox[o].attemptCount + 1

NextAttemptNumber(o) == outbox[o].attemptCount + 1

ClaimOutboundForSend(r, o) ==
  /\ request[r].phase = "new"
  /\ Claimable(o)
  /\ LET n == NextAttemptNumber(o) IN
     /\ attempt' = [attempt EXCEPT
                      ![r] = [outbound |-> o, number |-> n, status |-> "CLAIMED"]]
     /\ outbox' = [outbox EXCEPT
                     ![o].status = "QUEUED",
                     ![o].attemptCount = n,
                     ![o].leaseOwner = r,
                     ![o].leaseExpired = FALSE,
                     ![o].currentAttempt = n]
  /\ request' = [request EXCEPT ![r].phase = "claimed"]
  /\ UNCHANGED <<sourceVars, wire, deliveryEvents>>

\* The call returns a message that is SENT already, or raises
\* OutboxTransitionError; either way it changes nothing.
SendNotClaimed(r, o) ==
  /\ request[r].phase = "new"
  /\ outbox[o].status # "ABSENT"
  /\ ~Claimable(o)
  /\ request' = [request EXCEPT ![r].phase = "done"]
  /\ UNCHANGED <<sourceVars, outbox, attempt, wire, deliveryEvents>>

\* Time passes lease_expires_at.
LeaseExpires(o) ==
  /\ outbox[o].status = "QUEUED"
  /\ ~outbox[o].leaseExpired
  /\ Punctual => request[outbox[o].leaseOwner].phase = "crashed"
  /\ outbox' = [outbox EXCEPT ![o].leaseExpired = TRUE]
  /\ UNCHANGED <<sourceVars, sendVars, deliveryEvents>>
-----------------------------------------------------------------------------
(***************************************************************************)
(* The provider call, outside any transaction, and Meta's side of it.      *)
(***************************************************************************)

Answered(r, a) == request' = [request EXCEPT ![r].phase = "answered", ![r].answer = a]

\* Not configured, or no connection: WhatsAppProviderPreSendError
ConnectFails(r) ==
  /\ request[r].phase = "claimed"
  /\ Answered(r, "preSend")
  /\ UNCHANGED <<sourceVars, outbox, attempt, wire, deliveryEvents>>

PostMessage(r) ==
  /\ request[r].phase = "claimed"
  /\ request' = [request EXCEPT ![r].phase = "posted"]
  /\ wire' = [wire EXCEPT ![r] = "inFlight"]
  /\ UNCHANGED <<sourceVars, outbox, attempt, deliveryEvents>>

\* Meta decides about a request it received; the caller may be gone by then.
MetaDecides(r, verdict) ==
  /\ wire[r] = "inFlight"
  /\ wire' = [wire EXCEPT ![r] = verdict]
  /\ UNCHANGED <<sourceVars, outbox, attempt, request, deliveryEvents>>

\* What send_text makes of the exchange: a message id or a 4xx answer says what
\* Meta decided; an answer that cannot be read, a 5xx answer, a time-out or a
\* lost connection says nothing.
AnswerPossible(r, a) ==
  \/ a = "id" /\ wire[r] = "accepted"
  \/ a = "httpError" /\ wire[r] = "refused"
  \/ a \in {"noId", "serverError", "uncertain"}

SendTextEnds(r, a) ==
  /\ request[r].phase = "posted"
  /\ AnswerPossible(r, a)
  /\ Answered(r, a)
  /\ UNCHANGED <<sourceVars, outbox, attempt, wire, deliveryEvents>>

\* The process of a call dies, or a database error ends it: nothing is recorded.
CrashRequest(r) ==
  /\ Crashes
  /\ request[r].phase \in {"claimed", "posted", "answered"}
  /\ request' = [request EXCEPT ![r].phase = "crashed"]
  /\ UNCHANGED <<sourceVars, outbox, attempt, wire, deliveryEvents>>
-----------------------------------------------------------------------------
(***************************************************************************)
(* Recording the outcome: mark_outbound_sent, mark_outbound_send_failed    *)
(* and mark_outbound_send_unknown share their guard and, but for the       *)
(* columns below, their update.                                            *)
(***************************************************************************)

\* Mutants of HoldsLease: any queued message may be marked; the message is
\* looked up by the status it had before the claim.
StillQueued(r) == outbox[attempt[r].outbound].status = "QUEUED"
StillApproved(r) ==
  /\ outbox[attempt[r].outbound].status = "APPROVED"
  /\ outbox[attempt[r].outbound].leaseOwner = r

\* The WHERE clause of the three updates
HoldsLease(r) ==
  LET row == outbox[attempt[r].outbound] IN
  /\ row.status = "QUEUED"
  /\ row.currentAttempt = attempt[r].number
  /\ row.leaseOwner = r

\* Mutants of OutcomeOf: a time-out counts as a failure, or as a success.
UncertainIsFailed(a) == IF a = "id" THEN "SENT" ELSE "FAILED"
UncertainIsSent(a) == IF a \in {"id", "uncertain"} THEN "SENT" ELSE "FAILED"

\* The exception handler of send_approved_outbound chooses the outcome.
OutcomeOf(a) ==
  CASE a = "id"        -> "SENT"
    [] a = "uncertain" -> "UNKNOWN"
    [] OTHER           -> "FAILED"

\* Mutant of Released: the row goes on naming the owner of its lease.
KeepsLeaseOwner(row) == [row EXCEPT !.leaseExpired = FALSE, !.currentAttempt = 0]

\* The columns of a lease, reset
Released(row) ==
  [row EXCEPT !.leaseOwner = None, !.leaseExpired = FALSE, !.currentAttempt = 0]

\* A row with its outcome; delivery_status is COALESCEd with SENT.
Marked(row, r, outcome) ==
  [Released(row) EXCEPT
     !.status = outcome,
     !.providerMessageId = IF outcome = "SENT" THEN r ELSE row.providerMessageId,
     !.deliveryStatus = IF outcome = "SENT" /\ row.deliveryStatus = None
                        THEN "SENT" ELSE row.deliveryStatus]

MarkOutbound(r) ==
  LET o == attempt[r].outbound
      outcome == OutcomeOf(request[r].answer) IN
  /\ request[r].phase = "answered"
  /\ HoldsLease(r)
  /\ outbox' = [outbox EXCEPT ![o] = Marked(outbox[o], r, outcome)]
  /\ attempt' = [attempt EXCEPT ![r].status = outcome]
  /\ request' = [request EXCEPT ![r].phase = "done"]
  /\ UNCHANGED <<sourceVars, wire, deliveryEvents>>

\* The update matched no row: OutboxTransitionError, the attempt stays CLAIMED.
MarkRefused(r) ==
  /\ request[r].phase = "answered"
  /\ ~HoldsLease(r)
  /\ request' = [request EXCEPT ![r].phase = "done"]
  /\ UNCHANGED <<sourceVars, outbox, attempt, wire, deliveryEvents>>
-----------------------------------------------------------------------------
(***************************************************************************)
(* Delivery statuses, which Meta reports about the messages it accepted,   *)
(* in any order and more than once.                                        *)
(***************************************************************************)

\* _delivery_rank
DeliveryRank(s) ==
  CASE s = "SENT"      -> 1
    [] s = "FAILED"    -> 2
    [] s = "DELIVERED" -> 3
    [] s = "READ"      -> 4
    [] OTHER           -> 0

\* Mutant of Supersedes: the latest report wins.
IsLater(s, current) == s # current

Supersedes(s, current) == DeliveryRank(s) > DeliveryRank(current)

\* record_outbound_delivery_status.  A status whose message id no row has
\* yet, and one that was recorded before, change nothing.
RecordOutboundDeliveryStatus(r, s) ==
  \E o \in Outbound :
    /\ wire[r] = "accepted"
    /\ outbox[o].providerMessageId = r
    /\ <<r, s>> \notin deliveryEvents
    /\ deliveryEvents' = deliveryEvents \cup {<<r, s>>}
    /\ outbox' = IF Supersedes(s, outbox[o].deliveryStatus)
                 THEN [outbox EXCEPT ![o].deliveryStatus = s]
                 ELSE outbox
    /\ UNCHANGED <<sourceVars, sendVars>>
-----------------------------------------------------------------------------
Sources ==
  \/ \E o \in Outbound, d \in Body \cup {None} : UpsertResponsePlan(o, d)
  \/ \E o \in Outbound, s \in {"APPROVED", "REJECTED"} :
       UpsertResponseVerification(o, s)
  \/ \E c \in Conversation, s \in ConversationState : TransitionConversation(c, s)

Review ==
  \E o \in Outbound :
    \/ CreateOutboundDraft(o)
    \/ ApproveOutboundMessage(o)
    \/ RejectOutboundMessage(o)

Meta ==
  \E r \in Request :
    \/ \E verdict \in {"accepted", "refused"} : MetaDecides(r, verdict)
    \/ \E s \in DeliveryStatus : RecordOutboundDeliveryStatus(r, s)

Send ==
  \/ \E r \in Request, o \in Outbound : ClaimOutboundForSend(r, o) \/ SendNotClaimed(r, o)
  \/ \E o \in Outbound : LeaseExpires(o)
  \/ \E r \in Request :
       \/ ConnectFails(r)
       \/ PostMessage(r)
       \/ \E a \in Answer : SendTextEnds(r, a)
       \/ CrashRequest(r)
       \/ MarkOutbound(r)
       \/ MarkRefused(r)

Next == Sources \/ Review \/ Send \/ Meta

Spec == Init /\ [][Next]_vars

\* The steps of a call that the API server takes on its own once the row is
\* claimed: the HTTP client has a time-out, so that send_text ends.
CallStep(r) ==
  \/ PostMessage(r)
  \/ SendTextEnds(r, "uncertain")
  \/ MarkOutbound(r)
  \/ MarkRefused(r)

FairSpec == Spec /\ \A r \in Request : WF_vars(CallStep(r))
-----------------------------------------------------------------------------
TypeOK ==
  /\ mode \in OutboundModes
  /\ conversation \in [Conversation -> ConversationState]
  /\ draft \in [Outbound -> Body \cup {None}]
  /\ verification \in [Outbound -> {"APPROVED", "REJECTED", None}]
  /\ outbox \in [Outbound -> OutboundRow]
  /\ attempt \in [Request -> AttemptRow]
  /\ request \in [Request -> [phase : Phase, answer : Answer \cup {None}]]
  /\ wire \in [Request -> {"unsent", "inFlight", "accepted", "refused"}]
  /\ deliveryEvents \subseteq Request \X DeliveryStatus

\* The send calls that have inserted an attempt for o
AttemptsOf(o) == {r \in Request : attempt[r].outbound = o}

\* The attempts of a message are numbered 1, 2, ... without a gap and without
\* a repetition, and send_attempt_count counts them (the UNIQUE constraint on
\* attempt_number can never make a claim fail).
AttemptsNumbered ==
  \A o \in Outbound :
    /\ \A r \in AttemptsOf(o) : attempt[r].number \in 1 .. outbox[o].attemptCount
    /\ \A n \in 1 .. outbox[o].attemptCount : \E r \in AttemptsOf(o) : attempt[r].number = n
    /\ \A r1, r2 \in AttemptsOf(o) : attempt[r1].number = attempt[r2].number => r1 = r2

\* An outcome is recorded once, by the newest attempt, and the message and
\* that attempt agree on it: every attempt before the newest was given up
\* when its lease ran out and stays CLAIMED, however late its call returns.
OutcomeOfNewestAttempt ==
  \A o \in Outbound, r \in Request :
    attempt[r].outbound = o =>
      attempt[r].status =
        IF attempt[r].number = outbox[o].attemptCount /\ outbox[o].status # "QUEUED"
        THEN outbox[o].status ELSE "CLAIMED"

\* A message is leased exactly while it is QUEUED, and the lease belongs to
\* the call of its newest attempt.
LeaseOfNewestAttempt ==
  \A o \in Outbound :
    IF outbox[o].status = "QUEUED"
    THEN \E r \in AttemptsOf(o) :
           /\ outbox[o].leaseOwner = r
           /\ attempt[r].number = outbox[o].attemptCount
           /\ outbox[o].currentAttempt = outbox[o].attemptCount
    ELSE outbox[o].leaseOwner = None /\ outbox[o].currentAttempt = 0

\* Nothing reaches Meta that was not approved, by the low-risk mode of the
\* tenant or, without it, by an operator, and a rejected text never does.
OnlyApprovedPosted ==
  \A r \in Request :
    wire[r] # "unsent" =>
      /\ attempt[r].outbound # None
      /\ outbox[attempt[r].outbound].approvedBy =
           IF mode = "AUTO_LOW_RISK" THEN "system" ELSE "operator"
      /\ outbox[attempt[r].outbound].status \notin {"ABSENT", "PENDING_REVIEW", "REJECTED"}

\* A message is SENT only if Meta accepted the very call whose id the row
\* stores.
SentWasAccepted ==
  \A o \in Outbound :
    outbox[o].status = "SENT" =>
      \E r \in AttemptsOf(o) : outbox[o].providerMessageId = r /\ wire[r] = "accepted"

\* An attempt recorded as FAILED was not accepted by Meta, now or later: a
\* call that may still be accepted is recorded as UNKNOWN.  The two answers the
\* code treats otherwise are left out, a 5xx and one without a message id: after
\* either, a message marked FAILED may have been delivered.
FailedWasNotAccepted ==
  \A r \in Request :
    /\ attempt[r].outbound # None
    /\ attempt[r].status = "FAILED"
    /\ request[r].answer \notin {"noId", "serverError"}
    => wire[r] \in {"unsent", "refused"}

\* What Meta has said of a message: the reports about its id, and that it was
\* sent.
Reported(o) ==
  {s \in DeliveryStatus :
    \/ <<outbox[o].providerMessageId, s>> \in deliveryEvents
    \/ outbox[o].status = "SENT" /\ s = "SENT"}

\* The delivery status of a message is the furthest one Meta has reported and
\* the table of events has kept, in whatever order the reports arrived.
DeliveryIsFurthestReported ==
  \A o \in Outbound :
    /\ \A s \in Reported(o) : DeliveryRank(s) <= DeliveryRank(outbox[o].deliveryStatus)
    /\ outbox[o].deliveryStatus # None => outbox[o].deliveryStatus \in Reported(o)

\* Every event that was kept is one of the message that has its id.
EventsOfMessages ==
  \A r \in Request, s \in DeliveryStatus :
    <<r, s>> \in deliveryEvents => \E o \in Outbound : outbox[o].providerMessageId = r

\* An answer is never lost: a call that has ended has recorded its outcome, or
\* the message went on without it, to a newer attempt whose outcome counts.
EndedCallsConclude ==
  \A r \in Request :
    request[r].phase = "done" /\ attempt[r].outbound # None =>
      \/ attempt[r].status \in Outcome
      \/ attempt[r].number < outbox[attempt[r].outbound].attemptCount

\* A customer receives a message at most once, as long as no call dies
\* between its claim and its outcome or outlives its lease (see Punctual).
AcceptedAtMostOnce ==
  \A r1, r2 \in Request :
    /\ wire[r1] = "accepted"
    /\ wire[r2] = "accepted"
    /\ attempt[r1].outbound = attempt[r2].outbound
    => r1 = r2

\* The local state of a call, its attempt and Meta's view of it: nothing is
\* posted without an attempt, an answer never contradicts what Meta decided,
\* and an outcome is that of the answer the call ended with.
CallConsistent(r) ==
  LET phase == request[r].phase
      answer == request[r].answer IN
  /\ attempt[r].outbound = None =>
       phase \in {"new", "done"} /\ answer = None /\ attempt[r] = NoAttempt /\ wire[r] = "unsent"
  /\ phase = "new" => attempt[r].outbound = None
  /\ phase = "claimed" => wire[r] = "unsent"
  /\ phase \in {"claimed", "posted"} => answer = None
  /\ phase = "answered" => answer # None
  /\ answer = "preSend" => wire[r] = "unsent"
  /\ answer = "id" => wire[r] = "accepted"
  /\ answer = "httpError" => wire[r] = "refused"
  /\ phase = "posted" \/ answer = "uncertain" => wire[r] # "unsent"
  /\ attempt[r].status # "CLAIMED" =>
       phase = "done" /\ answer # None /\ attempt[r].status = OutcomeOf(answer)

\* The columns of a message: it has attempts exactly from its first claim on,
\* was approved before that, and stores the id of the attempt that sent it.
RowConsistent(o) ==
  LET row == outbox[o] IN
  /\ row.attemptCount > 0 <=> row.status \in {"QUEUED"} \cup Outcome
  /\ row.status \in {"APPROVED", "QUEUED"} \cup Outcome =>
       row.approvedBy = IF mode = "AUTO_LOW_RISK" THEN "system" ELSE "operator"
  /\ IF row.status = "SENT"
     THEN row.providerMessageId \in AttemptsOf(o) /\ attempt[row.providerMessageId].status = "SENT"
     ELSE row.providerMessageId = None
  /\ row.status # "QUEUED" => ~row.leaseExpired
  /\ row.status = "PENDING_REVIEW" => mode # "AUTO_LOW_RISK"

\* The inductive invariant of the send protocol, from which OutboxProofs
\* derives the properties above.
SendRules ==
  /\ \A r \in Request : CallConsistent(r)
  /\ \A o \in Outbound : RowConsistent(o)
  /\ AttemptsNumbered
  /\ OutcomeOfNewestAttempt
  /\ LeaseOfNewestAttempt

SendInvariant == TypeOK /\ SendRules
-----------------------------------------------------------------------------
\* What was decided about a message stays decided: a rejection and a recorded
\* outcome are final, and so is every finished attempt.
DecisionsAreFinal ==
  [][/\ \A o \in Outbound :
          outbox[o].status \in Outcome \cup {"REJECTED"} =>
            outbox'[o].status = outbox[o].status
     /\ \A r \in Request :
          attempt[r].status # "CLAIMED" => attempt'[r] = attempt[r]]_vars

\* An operator who has taken a conversation is alone in it: no send of an
\* assistant's draft begins after that.
SilentAfterTakeover ==
  [][\A o \in Outbound :
       conversation[ConversationOf[o]] = "HUMAN_ACTIVE" =>
         outbox'[o].attemptCount = outbox[o].attemptCount]_vars

\* Every claimed call either records its outcome, or dies, or loses its lease
\* to a newer attempt.
ClaimedCallConcludes ==
  \A r \in Request :
    request[r].phase = "claimed" ~>
      \/ attempt[r].status \in Outcome
      \/ request[r].phase = "crashed"
      \/ \E o \in Outbound :
           attempt[r].outbound = o /\ attempt[r].number < outbox[o].attemptCount
-----------------------------------------------------------------------------
(***************************************************************************)
(* The outbox implements ReviewedSend.  A leased message is one approved   *)
(* and not concluded; it was handed over once a call has posted it.  The   *)
(* planned text is that of the response plan, which workers rewrite.       *)
(***************************************************************************)
StageOf(status) ==
  CASE status = "ABSENT"         -> "absent"
    [] status = "PENDING_REVIEW" -> "pending"
    [] status = "REJECTED"       -> "rejected"
    [] status = "SENT"           -> "sent"
    [] status = "FAILED"         -> "failed"
    [] status = "UNKNOWN"        -> "unknown"
    [] OTHER                     -> "approved"

Promise == INSTANCE ReviewedSend WITH
  Text    <- Body,
  planned <- draft,
  staged  <- [o \in Outbound |-> outbox[o].body],
  stage   <- [o \in Outbound |-> StageOf(outbox[o].status)],
  handed  <- {o \in Outbound : \E r \in AttemptsOf(o) : wire[r] # "unsent"}

\* Every behaviour of the outbox is one of ReviewedSend: one decision, which an
\* operator takes about the text that the plan has at that moment, only approved
\* and unchanged text handed to Meta, one outcome.
ImplementsReviewedSend == Promise!Spec
=============================================================================
