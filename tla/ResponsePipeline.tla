-------------------------- MODULE ResponsePipeline --------------------------
(***************************************************************************)
(* One inbound message on its way from the policy rules to the outbox      *)
(* (services/webhook_processor.py and the services it calls).              *)
(*                                                                         *)
(* A worker that processes a webhook takes each of its messages through    *)
(* policy, planner, drafting, verifier and staging.  That is a pass over   *)
(* the message; a webhook tried again, and another webhook that brings the *)
(* message again, are further passes, which may overlap.  Each step is one *)
(* transaction, or the call of the drafting provider.  The rows a pass     *)
(* writes are keyed by the message (response_plans), by the plan           *)
(* (response_generations, response_verifications) and by the verification  *)
(* (outbound_messages), so that a message has at most one of each.         *)
(*                                                                         *)
(* Abstractions: a text is a model value, and what the verifier's checks   *)
(* say of it is a constant; the knowledge the planner finds is one item of *)
(* which one version is published; the policy's record and the audit       *)
(* records, which nothing reads, are left out; outbound_mode is not        *)
(* DISABLED (see Outbox for the review that follows).                      *)
(***************************************************************************)
EXTENDS Naturals, ConversationStates

CONSTANTS
  Pass,        \* the times the message is processed
  Content,     \* texts of the versions of the knowledge item
  LowRisk,     \* the versions whose risk_class is low
  Question,    \* the question the planner asks for missing data
  Draft,       \* texts the provider writes
  Supported,   \* <<t, c>>: no check finds a problem in answer t with source c
  Proper,      \* the texts without a problem as a request for data
  Setups,      \* the messages and settings to start from
  FaultSets,   \* the combinations of faults to start from
  None

Text == Content \cup Draft \cup {Question}

ASSUME ResponsePipelineAssumption ==
  /\ LowRisk \subseteq Content
  /\ Supported \subseteq Text \X Content
  /\ Proper \subseteq Text
  /\ Setups \subseteq [policy : {"ALLOW", "HANDOFF", "IGNORE"},
                       intake : BOOLEAN, drafting : BOOLEAN]
  /\ FaultSets \subseteq SUBSET {"failure", "slow", "overlap"}
  /\ None \notin Text \cup Pass

VARIABLES
  setup,          \* what the rules say of the message, whether it asks for a
                  \* project, and llm_drafting_enabled
  faults,         \* what may go wrong in this behaviour
  conversation,   \* conversations.state
  published,      \* the content of the published version, or None
  plan,           \* response_plans
  generation,     \* response_generations
  verification,   \* response_verifications
  outbound,       \* outbound_messages.body_text, None without a row
  pass            \* local state of each pass

vars == <<setup, faults, conversation, published,
          plan, generation, verification, outbound, pass>>
tables == <<plan, generation, verification, outbound>>
others == <<setup, faults, conversation, published>>
-----------------------------------------------------------------------------
(***************************************************************************)
(* The faults.  A pass ends by an exception (its webhook is FAILED) or     *)
(* with its process; the provider's call outlasts the lease, which the     *)
(* defaults exclude (10 and 60 s); two webhooks bring the message at once. *)
(***************************************************************************)
Fails    == "failure" \in faults
Slow     == "slow" \in faults
Overlaps == "overlap" \in faults

\* decision = NONE: no row
PlanRow ==
  [decision : {"NONE", "ANSWER", "ASK", "HANDOFF", "IGNORE"}, draft : Text \cup {None}]

Replies == {"ANSWER", "ASK"}

\* owner: lease_owner is new in each call; a pass makes one.  ABSENT: no row
GenerationRow ==
  [status  : {"ABSENT", "IN_PROGRESS", "COMPLETED", "HANDOFF", "FAILED"},
   owner   : Pass \cup {None},
   expired : BOOLEAN,
   output  : Text \cup {None}]

Concluded == {"COMPLETED", "HANDOFF", "FAILED"}

\* judged: the text the verifier has checked, which the row does not store
VerificationRow ==
  [status : {"ABSENT", "APPROVED", "REJECTED", "SKIPPED"}, judged : Text \cup {None}]

\* What the provider's call ends with; FAILED is an error or an invalid output.
Answer == [status : Concluded, output : Text \cup {None}]

NoAnswer == [status |-> "FAILED", output |-> None]
NoPlan == [decision |-> "NONE", draft |-> None]

\* suspended: the state the planner has read was not AUTOMATED.  plan: the
\* plan as the worker has it in memory.
PassState ==
  [at : {"new", "policy", "policyHandoff", "read", "search", "plan", "draft", "call",
         "finish", "redraft", "verify", "record", "handoff", "stage",
         "done", "deferred", "failed"},
   suspended : BOOLEAN,
   plan      : PlanRow,
   answer    : Answer,
   verdict   : VerificationRow]

Ended == {"done", "deferred", "failed"}
Running(p) == pass[p].at \notin Ended \cup {"new"}

Init ==
  /\ setup \in Setups
  /\ faults \in FaultSets
  /\ conversation \in ConversationState \ {"CLOSED"}
  /\ published \in Content \cup {None}
  /\ plan = NoPlan
  /\ generation =
       [status |-> "ABSENT", owner |-> None, expired |-> FALSE, output |-> None]
  /\ verification = [status |-> "ABSENT", judged |-> None]
  /\ outbound = None
  /\ pass = [p \in Pass |->
               [at |-> "new", suspended |-> FALSE, plan |-> NoPlan, answer |-> NoAnswer,
                verdict |-> [status |-> "ABSENT", judged |-> None]]]
-----------------------------------------------------------------------------
(***************************************************************************)
(* Operators and the knowledge base, at any time.                          *)
(***************************************************************************)
TransitionConversation ==
  /\ conversation' \in AllowedFrom(conversation)
  /\ UNCHANGED <<setup, faults, published, tables, pass>>

\* A published version is only ever replaced by another.
PublishKnowledgeItem ==
  /\ published' \in Content \ {published}
  /\ UNCHANGED <<setup, faults, conversation, tables, pass>>
-----------------------------------------------------------------------------
(***************************************************************************)
(* Policy and planner.                                                     *)
(***************************************************************************)
Goes(p, next) == pass' = [pass EXCEPT ![p].at = next]

\* Without overlaps, after the pass before has ended
Start(p) ==
  /\ pass[p].at = "new"
  /\ Overlaps \/ \A q \in Pass : ~Running(q)
  /\ Goes(p, "policy")
  /\ UNCHANGED <<others, tables>>

EvaluateAndApplyPolicy(p) ==
  /\ pass[p].at = "policy"
  /\ Goes(p, IF setup.policy = "HANDOFF" /\ conversation = "AUTOMATED"
             THEN "policyHandoff" ELSE "read")
  /\ UNCHANGED <<others, tables>>

\* request_handoff: transition_conversation raises when it is not allowed.
HandoffAllowed ==
  conversation = "HUMAN_REQUIRED" \/ "HUMAN_REQUIRED" \in AllowedFrom(conversation)

RequestHandoff(p) ==
  /\ pass[p].at \in {"policyHandoff", "handoff"}
  /\ IF HandoffAllowed
     THEN /\ conversation' = "HUMAN_REQUIRED"
          /\ Goes(p, IF pass[p].at = "policyHandoff" THEN "read" ELSE "done")
     ELSE /\ Goes(p, "failed")
          /\ UNCHANGED conversation
  /\ UNCHANGED <<setup, faults, published, tables>>

ReadConversation(p) ==
  /\ pass[p].at = "read"
  /\ pass' = [pass EXCEPT ![p] = [pass[p] EXCEPT
       !.at = "search", !.suspended = conversation # "AUTOMATED"]]
  /\ UNCHANGED <<others, tables>>

\* _build_plan
BuildPlan(suspended, content) ==
  LET Silent(decision) == [decision |-> decision, draft |-> None]
  IN  CASE setup.policy = "HANDOFF" -> Silent("HANDOFF")
        [] setup.policy = "IGNORE"  -> Silent("IGNORE")
        [] OTHER ->
             IF suspended THEN Silent("IGNORE")
             ELSE IF content \notin LowRisk THEN Silent("HANDOFF")
             ELSE IF setup.intake THEN [decision |-> "ASK", draft |-> Question]
             ELSE [decision |-> "ANSWER", draft |-> content]

SearchPublishedKnowledge(p) ==
  /\ pass[p].at = "search"
  /\ pass' = [pass EXCEPT ![p] = [pass[p] EXCEPT
       !.at = "plan", !.plan = BuildPlan(pass[p].suspended, published)]]
  /\ UNCHANGED <<others, tables>>

\* ON CONFLICT (tenant_id, message_id) DO UPDATE
UpsertResponsePlan(p) ==
  /\ pass[p].at = "plan"
  /\ plan' = pass[p].plan
  /\ Goes(p, IF pass[p].plan.decision \in Replies /\ setup.drafting
             THEN "draft" ELSE "verify")
  /\ UNCHANGED <<others, generation, verification, outbound>>
-----------------------------------------------------------------------------
(***************************************************************************)
(* Drafting: one generation for the plan, under a lease.                   *)
(***************************************************************************)

\* The lease has run out by now().
LeaseExpires ==
  /\ generation.status = "IN_PROGRESS"
  /\ ~generation.expired
  /\ Slow \/ pass[generation.owner].at \notin {"call", "finish"}
  /\ generation' = [generation EXCEPT !.expired = TRUE]
  /\ UNCHANGED <<others, plan, verification, outbound, pass>>

\* Mutant of Claimable: a lease is taken over before it has run out.
ClaimableUnfinished == generation.status \in {"ABSENT", "IN_PROGRESS"}

\* The INSERT and the UPDATE of claim_response_generation
Claimable ==
  \/ generation.status = "ABSENT"
  \/ generation.status = "IN_PROGRESS" /\ generation.expired

\* Mutants of AfterGeneration: a provider that failed is waited for like one that
\* is still being asked; a provider that asks for a person is treated like
\* one that failed.
DefersOnFailure(status, draft) ==
  CASE status = "HANDOFF"   -> "handoff"
    [] status = "COMPLETED" -> "redraft"
    [] OTHER                -> "deferred"
FallsBackOnHandoff(status, draft) ==
  CASE status = "IN_PROGRESS" -> "deferred"
    [] status = "COMPLETED"   -> "redraft"
    [] OTHER -> IF draft # None THEN "verify" ELSE "handoff"

\* _apply_existing_generation: what a pass with this plan does about a
\* generation in this status
AfterGeneration(status, draft) ==
  CASE status = "HANDOFF"     -> "handoff"
    [] status = "IN_PROGRESS" -> "deferred"
    [] status = "COMPLETED"   -> "redraft"
    [] OTHER                  -> IF draft # None THEN "verify" ELSE "handoff"

\* A pass applies a row it has read.
Applies(p, row) ==
  pass' = [pass EXCEPT ![p] = [pass[p] EXCEPT
    !.at = AfterGeneration(row.status, pass[p].plan.draft),
    !.answer = [status |-> pass[p].answer.status, output |-> row.output]]]

ClaimResponseGeneration(p) ==
  /\ pass[p].at = "draft"
  /\ Claimable
  /\ generation' = [status |-> "IN_PROGRESS", owner |-> p, expired |-> FALSE, output |-> None]
  /\ Goes(p, "call")
  /\ UNCHANGED <<others, plan, verification, outbound>>

GenerationExists(p) ==
  /\ pass[p].at = "draft"
  /\ ~Claimable
  /\ Applies(p, generation)
  /\ UNCHANGED <<others, tables>>

\* provider.draft and validate_drafting_output
ProviderAnswers(p) ==
  /\ pass[p].at = "call"
  /\ \E a \in {NoAnswer, [status |-> "HANDOFF", output |-> None]}
              \cup [status : {"COMPLETED"}, output : Draft \cup {None}] :
       pass' = [pass EXCEPT ![p] = [pass[p] EXCEPT !.at = "finish", !.answer = a]]
  /\ UNCHANGED <<others, tables>>

\* Mutants of HoldsGeneration: the row is not compared; any call finishes it
\* while it is in progress; the lease must not have run out.
AnyGeneration(p) == TRUE
StillInProgress(p) == generation.status = "IN_PROGRESS"
HoldsUnexpired(p) ==
  generation.status = "IN_PROGRESS" /\ generation.owner = p /\ ~generation.expired

\* The WHERE clause of finish_response_generation_claim
HoldsGeneration(p) == generation.status = "IN_PROGRESS" /\ generation.owner = p

FinishResponseGenerationClaim(p) ==
  /\ pass[p].at = "finish"
  /\ generation' =
       IF HoldsGeneration(p)
       THEN [generation EXCEPT !.status = pass[p].answer.status, !.expired = FALSE,
                               !.output = pass[p].answer.output]
       ELSE generation
  /\ Applies(p, generation')
  /\ UNCHANGED <<others, plan, verification, outbound>>

\* Mutant of UpdateResponsePlanDraft: the worker goes on with the plan it had.
UpdateDraftOfRowOnly(p) ==
  /\ pass[p].at = "redraft"
  /\ plan' = [plan EXCEPT !.draft = pass[p].answer.output]
  /\ Goes(p, "verify")
  /\ UNCHANGED <<others, generation, verification, outbound>>

\* The row is returned, and is the worker's plan from now on.
UpdateResponsePlanDraft(p) ==
  /\ pass[p].at = "redraft"
  /\ plan' = [plan EXCEPT !.draft = pass[p].answer.output]
  /\ pass' = [pass EXCEPT ![p] = [pass[p] EXCEPT !.at = "verify", !.plan = plan']]
  /\ UNCHANGED <<others, generation, verification, outbound>>
-----------------------------------------------------------------------------
(***************************************************************************)
(* Verifier and staging.                                                   *)
(***************************************************************************)

\* _verify
Verdict(reply, content) ==
  CASE reply.decision = "ASK" ->
         IF reply.draft \in Proper THEN "APPROVED" ELSE "REJECTED"
    [] reply.decision = "ANSWER" ->
         IF content \in LowRisk /\ <<reply.draft, content>> \in Supported
         THEN "APPROVED" ELSE "REJECTED"
    [] OTHER -> "SKIPPED"

VerifyResponse(p) ==
  /\ pass[p].at = "verify"
  /\ pass' = [pass EXCEPT ![p] = [pass[p] EXCEPT
       !.at = "record",
       !.verdict = [status |-> Verdict(pass[p].plan, published),
                    judged |-> pass[p].plan.draft]]]
  /\ UNCHANGED <<others, tables>>

AfterVerdict(p) ==
  CASE pass[p].verdict.status = "APPROVED" -> "stage"
    [] pass[p].verdict.status = "REJECTED" -> "handoff"
    [] OTHER                               -> "done"

\* ON CONFLICT (tenant_id, plan_id) DO UPDATE
UpsertResponseVerification(p) ==
  /\ pass[p].at = "record"
  /\ verification' = pass[p].verdict
  /\ Goes(p, AfterVerdict(p))
  /\ UNCHANGED <<others, plan, generation, outbound>>

\* create_outbound_draft reads plan, verification and conversation again.
Stageable ==
  /\ verification.status = "APPROVED"
  /\ plan.decision \in Replies
  /\ plan.draft # None
  /\ conversation = "AUTOMATED"

StageVerifiedResponse(p) ==
  /\ pass[p].at = "stage"
  /\ outbound' = IF Stageable /\ outbound = None THEN plan.draft ELSE outbound
  /\ Goes(p, "done")
  /\ UNCHANGED <<others, plan, generation, verification>>

PassFails(p) ==
  /\ Fails
  /\ Running(p)
  /\ Goes(p, "failed")
  /\ UNCHANGED <<others, tables>>
-----------------------------------------------------------------------------
Step(p) ==
  \/ EvaluateAndApplyPolicy(p)
  \/ RequestHandoff(p)
  \/ ReadConversation(p)
  \/ SearchPublishedKnowledge(p)
  \/ UpsertResponsePlan(p)
  \/ ClaimResponseGeneration(p)
  \/ GenerationExists(p)
  \/ ProviderAnswers(p)
  \/ FinishResponseGenerationClaim(p)
  \/ UpdateResponsePlanDraft(p)
  \/ VerifyResponse(p)
  \/ UpsertResponseVerification(p)
  \/ StageVerifiedResponse(p)

Next ==
  \/ TransitionConversation
  \/ PublishKnowledgeItem
  \/ LeaseExpires
  \/ \E p \in Pass : Start(p) \/ Step(p) \/ PassFails(p)

Spec == Init /\ [][Next]_vars

\* A worker goes on with the message it has; nothing makes a pass start, a
\* person act, or a lease run out.
FairSpec == Spec /\ \A p \in Pass : WF_vars(Step(p))
-----------------------------------------------------------------------------
TypeOK ==
  /\ setup \in Setups
  /\ faults \in FaultSets
  /\ conversation \in ConversationState
  /\ published \in Content \cup {None}
  /\ plan \in PlanRow
  /\ generation \in GenerationRow
  /\ verification \in VerificationRow
  /\ outbound \in Text \cup {None}
  /\ pass \in [Pass -> PassState]

\* The provider is called for one pass at a time, and never again once its
\* answer is recorded, unless a call outlasts its lease.
LeaseHolderCalls ==
  ~Slow => \A p \in Pass : pass[p].at \in {"call", "finish"} =>
             generation.status = "IN_PROGRESS" /\ generation.owner = p

\* What is recorded is the answer of the call that claimed the generation
\* last, even if an earlier one outlasted its lease and answers later.
ResultOfLastClaim ==
  generation.status \in Concluded =>
    /\ generation.owner \in Pass
    /\ pass[generation.owner].answer =
         [status |-> generation.status, output |-> generation.output]

\* A recorded answer is neither replaced nor asked for again.
GenerationIsFinal ==
  [][generation.status \in Concluded => generation' = generation]_vars

\* With drafting enabled nothing is staged before the provider's answer, and
\* nothing at all if it asks for a person, whatever other passes do.
StagedAfterGeneration ==
  setup.drafting /\ outbound # None => generation.status \in {"COMPLETED", "FAILED"}

\* The inductive invariant behind these: who holds the generation in progress,
\* when a lease may have run out, and what a pass relies on that goes on to stage.
HolderIsCalling ==
  generation.status = "IN_PROGRESS" =>
    /\ generation.owner \in Pass
    /\ pass[generation.owner].at \in {"call", "finish", "failed"}
    /\ ~Slow /\ generation.expired => pass[generation.owner].at = "failed"
    /\ pass[generation.owner].at = "failed" => Fails

ConcludedByItsOwner ==
  generation.status \in Concluded => pass[generation.owner].at # "call"

ReliesOnGeneration(p) ==
  /\ pass[p].at \in {"call", "finish"} => generation.status # "ABSENT"
  /\ pass[p].at = "redraft" => generation.status = "COMPLETED"
  /\ \/ pass[p].at = "stage"
     \/ pass[p].at = "record" /\ pass[p].verdict.status = "APPROVED"
     \/ pass[p].at = "verify" /\ pass[p].plan.decision \in Replies
     => generation.status \in {"COMPLETED", "FAILED"}

DraftingInvariant ==
  /\ LeaseHolderCalls
  /\ ResultOfLastClaim
  /\ StagedAfterGeneration
  /\ HolderIsCalling
  /\ ConcludedByItsOwner
  /\ setup.drafting => \A p \in Pass : ReliesOnGeneration(p)

\* Without overlaps the rows are those of the pass that runs.
StagingInvariant ==
  ~Overlaps =>
    /\ \A p, q \in Pass : Running(p) /\ Running(q) => p = q
    /\ \A p \in Pass :
         /\ pass[p].at \in {"draft", "call", "finish", "redraft", "verify", "record", "stage"} =>
              plan = pass[p].plan
         /\ pass[p].at \in {"record", "stage"} => pass[p].verdict.judged = plan.draft
         /\ pass[p].at = "stage" =>
              verification = pass[p].verdict /\ verification.status = "APPROVED"

\* What a pass stages has a verification.
RecordedBeforeStaging ==
  \A p \in Pass :
    /\ pass[p].at = "record" => pass[p].verdict.status # "ABSENT"
    /\ pass[p].at = "stage" => verification.status # "ABSENT"

PipelineInvariant ==
  TypeOK /\ DraftingInvariant /\ StagingInvariant /\ RecordedBeforeStaging

\* What enters the outbox is the text the verifier approved.
StagedTextWasVerified ==
  [][outbound' # outbound =>
       verification.status = "APPROVED" /\ outbound' = verification.judged]_vars

\* It is, as long as passes do not overlap, although some fail half way and
\* the knowledge changes between them.
VerifiedIfAlone ==
  [][~Overlaps /\ outbound' # outbound =>
       verification.status = "APPROVED" /\ outbound' = verification.judged]_vars

\* A pass that ends leaves the message verified, or to a person, or to the pass
\* that is calling the provider for it, unless passes end by other faults.
LeftToSomebody ==
  [][~Fails =>
       \A p \in Pass : Running(p) /\ ~Running(p)' =>
         \/ verification'.status # "ABSENT"
         \/ conversation' # "AUTOMATED"
         \/ /\ generation'.status = "IN_PROGRESS"
            /\ pass'[generation'.owner].at \in {"call", "finish"}]_vars

\* No message is forgotten: a pass that defers to another's generation, or
\* fails, leaves the message to somebody who verifies its response, or to a
\* person, as long as passes do not end by other faults.
MessageSettled ==
  ~Fails => (\E p \in Pass : Running(p)) ~>
              (verification.status # "ABSENT" \/ conversation # "AUTOMATED")

\* A message planned as HANDOFF is handed to a person.
HandoffReachesPerson == plan.decision = "HANDOFF" ~> conversation # "AUTOMATED"
=============================================================================
