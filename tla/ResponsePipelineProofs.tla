----------------------- MODULE ResponsePipelineProofs -----------------------
(***************************************************************************)
(* Proofs about ResponsePipeline, for any number of passes, any texts and  *)
(* whatever the verifier thinks of them.                                   *)
(***************************************************************************)
EXTENDS ResponsePipeline, TLAPS

\* The actions, so that each proof about a step has one case for each.
LEMMA NextCases ==
  ASSUME [Next]_vars
  PROVE  \/ TransitionConversation
         \/ PublishKnowledgeItem
         \/ LeaseExpires
         \/ \E p \in Pass : Start(p)
         \/ \E p \in Pass : EvaluateAndApplyPolicy(p)
         \/ \E p \in Pass : RequestHandoff(p)
         \/ \E p \in Pass : ReadConversation(p)
         \/ \E p \in Pass : SearchPublishedKnowledge(p)
         \/ \E p \in Pass : UpsertResponsePlan(p)
         \/ \E p \in Pass : ClaimResponseGeneration(p)
         \/ \E p \in Pass : GenerationExists(p)
         \/ \E p \in Pass : ProviderAnswers(p)
         \/ \E p \in Pass : FinishResponseGenerationClaim(p)
         \/ \E p \in Pass : UpdateResponsePlanDraft(p)
         \/ \E p \in Pass : VerifyResponse(p)
         \/ \E p \in Pass : UpsertResponseVerification(p)
         \/ \E p \in Pass : StageVerifiedResponse(p)
         \/ \E p \in Pass : PassFails(p)
         \/ UNCHANGED vars
  BY DEF Next, Step
-----------------------------------------------------------------------------
LEMMA InitType == Init => TypeOK
  BY ResponsePipelineAssumption
     DEF Init, TypeOK, NoPlan, NoAnswer, PlanRow, GenerationRow, VerificationRow, PassState,
         Answer, Concluded, ConversationState

\* Moving a pass, the only change most actions make to it.
LEMMA GoesType ==
  ASSUME pass \in [Pass -> PassState], NEW p \in Pass, NEW next,
         next \in {"new", "policy", "policyHandoff", "read", "search", "plan", "draft", "call",
                   "finish", "redraft", "verify", "record", "handoff", "stage",
                   "done", "deferred", "failed"},
         Goes(p, next)
  PROVE  pass' \in [Pass -> PassState]
  BY DEF Goes, PassState

LEMMA BuildPlanType ==
  ASSUME NEW suspended, NEW content \in Content \cup {None}
  PROVE  BuildPlan(suspended, content) \in PlanRow
  BY ResponsePipelineAssumption DEF BuildPlan, PlanRow, Text

LEMMA AfterGenerationType ==
  ASSUME NEW status, NEW draft
  PROVE  AfterGeneration(status, draft) \in {"handoff", "deferred", "redraft", "verify"}
  BY DEF AfterGeneration

LEMMA AppliesType ==
  ASSUME pass \in [Pass -> PassState], NEW p \in Pass, NEW row, row.output \in Text \cup {None},
         Applies(p, row)
  PROVE  pass' \in [Pass -> PassState]
<1> DEFINE next == AfterGeneration(row.status, pass[p].plan.draft)
<1>1. next \in {"handoff", "deferred", "redraft", "verify"}
  BY AfterGenerationType
<1>2. pass' = [pass EXCEPT ![p] = [pass[p] EXCEPT
                 !.at = next, !.answer = [status |-> pass[p].answer.status, output |-> row.output]]]
  BY DEF Applies
<1> HIDE DEF next
<1>3. [status |-> pass[p].answer.status, output |-> row.output] \in Answer
  BY DEF PassState, Answer
<1>4. [pass[p] EXCEPT !.at = next,
         !.answer = [status |-> pass[p].answer.status, output |-> row.output]] \in PassState
  BY <1>1, <1>3 DEF PassState
<1>5. QED
  BY <1>2, <1>4

LEMMA StepType == TypeOK /\ [Next]_vars => TypeOK'
<1> SUFFICES ASSUME TypeOK, [Next]_vars PROVE TypeOK'
  OBVIOUS
<1> USE DEF TypeOK
<1>1. CASE TransitionConversation
  BY <1>1 DEF TransitionConversation, tables, AllowedFrom, ConversationState
<1>2. CASE PublishKnowledgeItem
  BY <1>2 DEF PublishKnowledgeItem, tables
<1>3. CASE LeaseExpires
  BY <1>3 DEF LeaseExpires, others, GenerationRow
<1>4. ASSUME NEW p \in Pass, Start(p) PROVE TypeOK'
  BY <1>4, GoesType DEF Start, tables, others
<1>5. ASSUME NEW p \in Pass, EvaluateAndApplyPolicy(p) PROVE TypeOK'
  BY <1>5, GoesType DEF EvaluateAndApplyPolicy, tables, others
<1>6. ASSUME NEW p \in Pass, RequestHandoff(p) PROVE TypeOK'
  <2>1. conversation' \in ConversationState /\ \E next \in {"read", "done", "failed"} : Goes(p, next)
    BY <1>6 DEF RequestHandoff, ConversationState
  <2>2. pass' \in [Pass -> PassState]
    BY <2>1, GoesType
  <2>3. QED
    BY <1>6, <2>1, <2>2 DEF RequestHandoff, tables
<1>7. ASSUME NEW p \in Pass, ReadConversation(p) PROVE TypeOK'
  <2> DEFINE row == [pass[p] EXCEPT !.at = "search", !.suspended = conversation # "AUTOMATED"]
  <2>1. row \in PassState
    BY DEF TypeOK, PassState
  <2>2. pass' = [pass EXCEPT ![p] = row]
    BY <1>7 DEF ReadConversation
  <2>3. pass' \in [Pass -> PassState]
    BY <2>1, <2>2 DEF TypeOK
  <2>4. QED
    BY <1>7, <2>3 DEF ReadConversation, TypeOK, tables, others
<1>8. ASSUME NEW p \in Pass, SearchPublishedKnowledge(p) PROVE TypeOK'
  <2>1. BuildPlan(pass[p].suspended, published) \in PlanRow
    BY BuildPlanType
  <2>2. QED
    BY <1>8, <2>1 DEF SearchPublishedKnowledge, tables, others, PassState
<1>9. ASSUME NEW p \in Pass, UpsertResponsePlan(p) PROVE TypeOK'
  <2>1. plan' \in PlanRow
    BY <1>9 DEF UpsertResponsePlan, PassState
  <2>2. QED
    BY <1>9, <2>1, GoesType DEF UpsertResponsePlan, others
<1>10. ASSUME NEW p \in Pass, ClaimResponseGeneration(p) PROVE TypeOK'
  BY <1>10, GoesType DEF ClaimResponseGeneration, others, GenerationRow
<1>11. ASSUME NEW p \in Pass, GenerationExists(p) PROVE TypeOK'
  BY <1>11, AppliesType DEF GenerationExists, others, tables, GenerationRow
<1>12. ASSUME NEW p \in Pass, ProviderAnswers(p) PROVE TypeOK'
  <2>1. PICK a \in Answer :
               pass' = [pass EXCEPT ![p] = [pass[p] EXCEPT !.at = "finish", !.answer = a]]
    BY <1>12 DEF ProviderAnswers, NoAnswer, Answer, Concluded, Text
  <2>2. pass' \in [Pass -> PassState]
    BY <2>1 DEF PassState
  <2>3. QED
    BY <1>12, <2>2 DEF ProviderAnswers, others, tables
<1>13. ASSUME NEW p \in Pass, FinishResponseGenerationClaim(p) PROVE TypeOK'
  <2>1. pass[p].answer \in Answer
    BY DEF PassState
  <2>2. generation' \in GenerationRow
    BY <1>13, <2>1 DEF FinishResponseGenerationClaim, GenerationRow, Answer, Concluded
  <2>3. generation'.output \in Text \cup {None}
    BY <2>2 DEF GenerationRow
  <2>4. pass' \in [Pass -> PassState]
    BY <1>13, <2>3, AppliesType DEF FinishResponseGenerationClaim
  <2>5. QED
    BY <1>13, <2>2, <2>4 DEF FinishResponseGenerationClaim, others
<1>14. ASSUME NEW p \in Pass, UpdateResponsePlanDraft(p) PROVE TypeOK'
  <2>1. plan' \in PlanRow
    BY <1>14 DEF UpdateResponsePlanDraft, PassState, PlanRow, Answer
  <2> DEFINE row == [pass[p] EXCEPT !.at = "verify", !.plan = plan']
  <2>2. row \in PassState
    BY <2>1 DEF PassState
  <2>3. pass' = [pass EXCEPT ![p] = row]
    BY <1>14 DEF UpdateResponsePlanDraft
  <2>4. pass' \in [Pass -> PassState]
    BY <2>2, <2>3
  <2>5. QED
    BY <1>14, <2>1, <2>4 DEF UpdateResponsePlanDraft, others
<1>15. ASSUME NEW p \in Pass, VerifyResponse(p) PROVE TypeOK'
  <2>1. Verdict(pass[p].plan, published) \in {"APPROVED", "REJECTED", "SKIPPED"}
    BY DEF Verdict
  <2>2. [status |-> Verdict(pass[p].plan, published), judged |-> pass[p].plan.draft]
          \in VerificationRow
    BY <2>1 DEF VerificationRow, PassState, PlanRow
  <2>3. QED
    BY <1>15, <2>2 DEF VerifyResponse, others, tables, PassState
<1>16. ASSUME NEW p \in Pass, UpsertResponseVerification(p) PROVE TypeOK'
  <2>1. verification' \in VerificationRow
    BY <1>16 DEF UpsertResponseVerification, PassState
  <2>2. AfterVerdict(p) \in {"stage", "handoff", "done"}
    BY DEF AfterVerdict
  <2>3. QED
    BY <1>16, <2>1, <2>2, GoesType DEF UpsertResponseVerification, others
<1>17. ASSUME NEW p \in Pass, StageVerifiedResponse(p) PROVE TypeOK'
  <2>1. outbound' \in Text \cup {None}
    BY <1>17 DEF StageVerifiedResponse, PlanRow
  <2>2. QED
    BY <1>17, <2>1, GoesType DEF StageVerifiedResponse, others
<1>18. ASSUME NEW p \in Pass, PassFails(p) PROVE TypeOK'
  BY <1>18, GoesType DEF PassFails, others, tables
<1>19. CASE UNCHANGED vars
  BY <1>19 DEF vars
<1>20. QED
  BY <1>1, <1>2, <1>3, <1>4, <1>5, <1>6, <1>7, <1>8, <1>9, <1>10, <1>11, <1>12, <1>13,
     <1>14, <1>15, <1>16, <1>17, <1>18, <1>19, NextCases
-----------------------------------------------------------------------------
(***************************************************************************)
(* The generation and its lease (DraftingInvariant).                       *)
(***************************************************************************)
LEMMA InitDrafting == Init => DraftingInvariant
  BY ResponsePipelineAssumption
     DEF Init, DraftingInvariant, LeaseHolderCalls, ResultOfLastClaim, StagedAfterGeneration,
         HolderIsCalling, ConcludedByItsOwner, ReliesOnGeneration, Concluded, NoPlan

\* A pass that moves on while the generation stays as it is keeps the
\* invariant, if it neither enters a call nor relies on an unfinished one.
LEMMA PassMoves ==
  ASSUME TypeOK, DraftingInvariant, NEW p \in Pass,
         setup' = setup, faults' = faults, generation' = generation,
         \/ outbound' = outbound
         \/ setup.drafting => generation.status \in {"COMPLETED", "FAILED"},
         \A q \in Pass \ {p} : pass'[q] = pass[q],
         generation.status \in Concluded /\ generation.owner = p =>
           pass'[p].answer = pass[p].answer,
         pass[p].at # "failed",
         pass'[p].at # "call",
         pass'[p].at = "finish" => pass[p].at = "call",
         pass[p].at \in {"call", "finish"} => pass'[p].at \in {"finish", "failed"},
         pass[p].at \in {"call", "finish"} /\ pass'[p].at = "failed" => Fails,
         setup.drafting => ReliesOnGeneration(p)'
  PROVE  DraftingInvariant'
<1> USE DEF DraftingInvariant
<1>1. LeaseHolderCalls'
  BY DEF LeaseHolderCalls, Slow
<1>2. ResultOfLastClaim'
  BY DEF ResultOfLastClaim
<1>3. StagedAfterGeneration'
  BY DEF StagedAfterGeneration
<1>4. HolderIsCalling'
  BY DEF HolderIsCalling, Slow, Fails
<1>5. ConcludedByItsOwner'
  BY DEF ConcludedByItsOwner, ResultOfLastClaim
<1>6. ASSUME setup.drafting, NEW q \in Pass PROVE ReliesOnGeneration(q)'
  BY <1>6 DEF ReliesOnGeneration
<1>7. QED
  BY <1>1, <1>2, <1>3, <1>4, <1>5, <1>6

LEMMA ClaimKeepsDrafting ==
  ASSUME TypeOK, DraftingInvariant, NEW p \in Pass, ClaimResponseGeneration(p)
  PROVE  DraftingInvariant'
<1> USE DEF DraftingInvariant
<1>1. /\ setup' = setup /\ faults' = faults /\ outbound' = outbound
      /\ generation' = [status |-> "IN_PROGRESS", owner |-> p, expired |-> FALSE, output |-> None]
      /\ pass[p].at = "draft"
      /\ pass' = [pass EXCEPT ![p].at = "call"]
  BY DEF ClaimResponseGeneration, others, Goes
<1>2. pass'[p].at = "call" /\ \A q \in Pass \ {p} : pass'[q] = pass[q]
  BY <1>1 DEF TypeOK, PassState
<1>3. \/ generation.status = "ABSENT"
      \/ generation.status = "IN_PROGRESS" /\ generation.expired
  BY DEF ClaimResponseGeneration, Claimable
<1>4. LeaseHolderCalls'
  BY <1>1, <1>2, <1>3 DEF LeaseHolderCalls, Slow, HolderIsCalling
<1>5. ResultOfLastClaim' /\ ConcludedByItsOwner'
  BY <1>1 DEF ResultOfLastClaim, ConcludedByItsOwner, Concluded
<1>6. StagedAfterGeneration'
  BY <1>1, <1>3 DEF StagedAfterGeneration
<1>7. HolderIsCalling'
  BY <1>1, <1>2 DEF HolderIsCalling
<1>8. ASSUME setup.drafting, NEW q \in Pass PROVE ReliesOnGeneration(q)'
  BY <1>1, <1>2, <1>3, <1>8 DEF ReliesOnGeneration
<1>9. QED
  BY <1>1, <1>4, <1>5, <1>6, <1>7, <1>8

\* A late answer changes nothing; the holder's concludes the generation.
LEMMA FinishKeepsDrafting ==
  ASSUME TypeOK, DraftingInvariant, NEW p \in Pass, FinishResponseGenerationClaim(p)
  PROVE  DraftingInvariant'
<1> USE DEF DraftingInvariant
<1> DEFINE next == AfterGeneration(generation'.status, pass[p].plan.draft)
<1>1. /\ setup' = setup /\ faults' = faults /\ outbound' = outbound
      /\ pass[p].at = "finish"
  BY DEF FinishResponseGenerationClaim, others
<1>2. /\ pass' = [pass EXCEPT ![p] = [pass[p] EXCEPT
                    !.at = next,
                    !.answer = [status |-> pass[p].answer.status, output |-> generation'.output]]]
  BY DEF FinishResponseGenerationClaim, Applies
<1>3. /\ next \in {"handoff", "deferred", "redraft", "verify"}
      /\ next = "redraft" => generation'.status = "COMPLETED"
      /\ next = "verify" => generation'.status \notin {"HANDOFF", "IN_PROGRESS"}
  BY DEF AfterGeneration
<1> HIDE DEF next
<1>4. /\ pass'[p].at = next
      /\ pass'[p].answer = [status |-> pass[p].answer.status, output |-> generation'.output]
      /\ \A q \in Pass \ {p} : pass'[q] = pass[q]
  BY <1>2 DEF TypeOK, PassState
<1>5. pass[p].answer \in Answer /\ generation \in GenerationRow
  BY DEF TypeOK, PassState
<1>6. CASE HoldsGeneration(p)
  <2>1. /\ generation.status = "IN_PROGRESS" /\ generation.owner = p
        /\ generation'.status = pass[p].answer.status
        /\ generation'.output = pass[p].answer.output
        /\ generation'.owner = p
        /\ generation'.status \in {"COMPLETED", "HANDOFF", "FAILED"}
    BY <1>5, <1>6 DEF FinishResponseGenerationClaim, HoldsGeneration, Answer, Concluded,
                      GenerationRow
  <2>2. LeaseHolderCalls'
    BY <1>1, <1>3, <1>4, <2>1 DEF LeaseHolderCalls, Slow
  <2>3. pass'[p].answer = [status |-> generation'.status, output |-> generation'.output]
    BY <1>4, <2>1
  <2>4. ResultOfLastClaim' /\ ConcludedByItsOwner'
    BY <1>3, <1>4, <2>1, <2>3 DEF ResultOfLastClaim, ConcludedByItsOwner
  <2>5. StagedAfterGeneration'
    BY <1>1, <2>1 DEF StagedAfterGeneration
  <2>6. HolderIsCalling'
    BY <2>1 DEF HolderIsCalling
  <2>7. ASSUME setup.drafting, NEW q \in Pass PROVE ReliesOnGeneration(q)'
    BY <1>3, <1>4, <2>1, <2>7 DEF ReliesOnGeneration
  <2>8. QED
    BY <1>1, <2>2, <2>4, <2>5, <2>6, <2>7
<1>7. CASE ~HoldsGeneration(p)
  <2>1. generation' = generation
    BY <1>7 DEF FinishResponseGenerationClaim
  <2>2. generation.status \in Concluded \/ generation.owner # p \/ generation.status = "ABSENT"
    BY <1>5, <1>7 DEF HoldsGeneration, GenerationRow, Concluded
  <2>3. LeaseHolderCalls'
    BY <1>1, <1>3, <1>4, <2>1 DEF LeaseHolderCalls, Slow
  <2>4. ResultOfLastClaim' /\ ConcludedByItsOwner'
    <3>1. CASE generation.status \in Concluded /\ generation.owner = p
      <4>1. pass'[p].answer = [status |-> generation.status, output |-> generation.output]
        BY <1>4, <2>1, <3>1 DEF ResultOfLastClaim
      <4>2. QED
        BY <1>3, <1>4, <2>1, <3>1, <4>1 DEF ResultOfLastClaim, ConcludedByItsOwner
    <3>2. CASE ~(generation.status \in Concluded /\ generation.owner = p)
      BY <1>4, <2>1, <3>2 DEF ResultOfLastClaim, ConcludedByItsOwner
    <3>3. QED
      BY <3>1, <3>2
  <2>5. StagedAfterGeneration'
    BY <1>1, <2>1 DEF StagedAfterGeneration
  <2>6. HolderIsCalling'
    BY <1>1, <1>4, <2>1, <2>2 DEF HolderIsCalling, Slow, Fails, Concluded
  <2>7. ASSUME setup.drafting, NEW q \in Pass PROVE ReliesOnGeneration(q)'
    <3>1. generation.status # "ABSENT"
      BY <1>1, <2>7 DEF ReliesOnGeneration
    <3>2. QED
      BY <1>3, <1>4, <1>5, <2>1, <2>7, <3>1 DEF ReliesOnGeneration, GenerationRow
  <2>8. QED
    BY <1>1, <2>3, <2>4, <2>5, <2>6, <2>7
<1>8. QED
  BY <1>6, <1>7

\* What moving a pass does to the passes
LEMMA GoesRows ==
  ASSUME TypeOK, NEW p \in Pass, NEW next, Goes(p, next)
  PROVE  /\ pass'[p] = [pass[p] EXCEPT !.at = next]
         /\ pass'[p].at = next
         /\ pass'[p].plan = pass[p].plan
         /\ pass'[p].answer = pass[p].answer
         /\ pass'[p].verdict = pass[p].verdict
         /\ \A q \in Pass \ {p} : pass'[q] = pass[q]
  BY DEF Goes, TypeOK, PassState

\* PassMoves for a pass that only moves, and to no step of drafting
LEMMA PassGoes ==
  ASSUME TypeOK, DraftingInvariant, NEW p \in Pass, NEW next, Goes(p, next),
         setup' = setup, faults' = faults, generation' = generation,
         \/ outbound' = outbound
         \/ setup.drafting => generation.status \in {"COMPLETED", "FAILED"},
         pass[p].at # "failed",
         pass[p].at \in {"call", "finish"} => next = "failed" /\ Fails,
         next \notin {"call", "finish", "redraft"},
         next = "verify" => ~(setup.drafting /\ pass[p].plan.decision \in Replies),
         next = "stage" => pass[p].at = "record" /\ pass[p].verdict.status = "APPROVED",
         next # "record"
  PROVE  DraftingInvariant'
<1>1. /\ pass'[p].at = next /\ pass'[p].answer = pass[p].answer
      /\ pass'[p].plan = pass[p].plan
      /\ \A q \in Pass \ {p} : pass'[q] = pass[q]
  BY GoesRows
<1>2. ASSUME setup.drafting PROVE ReliesOnGeneration(p)'
  <2>1. next = "stage" => generation.status \in {"COMPLETED", "FAILED"}
    BY <1>2 DEF DraftingInvariant, ReliesOnGeneration
  <2>2. QED
    BY <1>1, <1>2, <2>1 DEF ReliesOnGeneration
<1>3. QED
  BY <1>1, <1>2, PassMoves

LEMMA StepDrafting == TypeOK /\ DraftingInvariant /\ [Next]_vars => DraftingInvariant'
<1> SUFFICES ASSUME TypeOK, DraftingInvariant, [Next]_vars PROVE DraftingInvariant'
  OBVIOUS
<1>1. CASE TransitionConversation \/ PublishKnowledgeItem
  BY <1>1 DEF TransitionConversation, PublishKnowledgeItem, tables, DraftingInvariant,
              LeaseHolderCalls, ResultOfLastClaim, StagedAfterGeneration, HolderIsCalling,
              ConcludedByItsOwner, ReliesOnGeneration, Slow, Fails
<1>2. CASE LeaseExpires
  <2>1. /\ setup' = setup /\ faults' = faults /\ outbound' = outbound /\ pass' = pass
        /\ generation.status = "IN_PROGRESS"
        /\ Slow \/ pass[generation.owner].at \notin {"call", "finish"}
        /\ generation'.status = generation.status /\ generation'.owner = generation.owner
    BY <1>2 DEF LeaseExpires, others, TypeOK, GenerationRow
  <2>2. QED
    BY <2>1 DEF DraftingInvariant, LeaseHolderCalls, ResultOfLastClaim, StagedAfterGeneration,
                HolderIsCalling, ConcludedByItsOwner, ReliesOnGeneration, Slow, Fails, Concluded
<1>4. ASSUME NEW p \in Pass, Start(p) PROVE DraftingInvariant'
  <2>1. /\ setup' = setup /\ faults' = faults /\ generation' = generation /\ outbound' = outbound
        /\ pass[p].at = "new"
    BY <1>4 DEF Start, others, tables
  <2>2. Goes(p, "policy")
    BY <1>4 DEF Start
  <2>3. QED
    BY <2>1, <2>2, PassGoes
<1>5. ASSUME NEW p \in Pass, EvaluateAndApplyPolicy(p) PROVE DraftingInvariant'
  <2>1. /\ setup' = setup /\ faults' = faults /\ generation' = generation /\ outbound' = outbound
        /\ pass[p].at = "policy"
    BY <1>5 DEF EvaluateAndApplyPolicy, others, tables
  <2>2. \E next \in {"policyHandoff", "read"} : Goes(p, next)
    BY <1>5 DEF EvaluateAndApplyPolicy
  <2>3. QED
    BY <2>1, <2>2, PassGoes
<1>6. ASSUME NEW p \in Pass, RequestHandoff(p) PROVE DraftingInvariant'
  <2>1. /\ setup' = setup /\ faults' = faults /\ generation' = generation /\ outbound' = outbound
        /\ pass[p].at \in {"policyHandoff", "handoff"}
    BY <1>6 DEF RequestHandoff, tables
  <2>2. \E next \in {"read", "done", "failed"} : Goes(p, next)
    BY <1>6 DEF RequestHandoff
  <2>3. QED
    BY <2>1, <2>2, PassGoes
<1>7. ASSUME NEW p \in Pass, ReadConversation(p) PROVE DraftingInvariant'
  <2>1. /\ pass'[p].at = "search" /\ pass'[p].answer = pass[p].answer
        /\ \A q \in Pass \ {p} : pass'[q] = pass[q]
    BY <1>7 DEF ReadConversation, TypeOK, PassState
  <2>2. ReliesOnGeneration(p)'
    BY <2>1 DEF ReliesOnGeneration
  <2>3. QED
    BY <1>7, <2>1, <2>2, PassMoves DEF ReadConversation, others, tables
<1>8. ASSUME NEW p \in Pass, SearchPublishedKnowledge(p) PROVE DraftingInvariant'
  <2>1. /\ pass'[p].at = "plan" /\ pass'[p].answer = pass[p].answer
        /\ \A q \in Pass \ {p} : pass'[q] = pass[q]
    BY <1>8 DEF SearchPublishedKnowledge, TypeOK, PassState
  <2>2. ReliesOnGeneration(p)'
    BY <2>1 DEF ReliesOnGeneration
  <2>3. QED
    BY <1>8, <2>1, <2>2, PassMoves DEF SearchPublishedKnowledge, others, tables
<1>9. ASSUME NEW p \in Pass, UpsertResponsePlan(p) PROVE DraftingInvariant'
  <2>1. /\ setup' = setup /\ faults' = faults /\ generation' = generation /\ outbound' = outbound
        /\ pass[p].at = "plan"
    BY <1>9 DEF UpsertResponsePlan, others
  <2>2. \/ Goes(p, "draft")
        \/ Goes(p, "verify") /\ ~(setup.drafting /\ pass[p].plan.decision \in Replies)
    BY <1>9 DEF UpsertResponsePlan
  <2>3. QED
    BY <2>1, <2>2, PassGoes
<1>10. ASSUME NEW p \in Pass, ClaimResponseGeneration(p) PROVE DraftingInvariant'
  BY <1>10, ClaimKeepsDrafting
<1>11. ASSUME NEW p \in Pass, GenerationExists(p) PROVE DraftingInvariant'
  <2> DEFINE next == AfterGeneration(generation.status, pass[p].plan.draft)
  <2>1. pass' = [pass EXCEPT ![p] = [pass[p] EXCEPT
                   !.at = next,
                   !.answer = [status |-> pass[p].answer.status, output |-> generation.output]]]
    BY <1>11 DEF GenerationExists, Applies
  <2>2. /\ next \in {"handoff", "deferred", "redraft", "verify"}
        /\ next = "redraft" => generation.status = "COMPLETED"
        /\ next = "verify" => generation.status \notin {"HANDOFF", "IN_PROGRESS"}
    BY DEF AfterGeneration
  <2> HIDE DEF next
  <2>3. /\ pass'[p].at = next
        /\ pass'[p].answer = [status |-> pass[p].answer.status, output |-> generation.output]
        /\ \A q \in Pass \ {p} : pass'[q] = pass[q]
    BY <2>1 DEF TypeOK, PassState
  <2>4. generation.status \in {"IN_PROGRESS", "COMPLETED", "HANDOFF", "FAILED"}
    BY <1>11 DEF GenerationExists, Claimable, TypeOK, GenerationRow
  <2>5. generation' = generation
    BY <1>11 DEF GenerationExists, tables
  <2>6. ReliesOnGeneration(p)'
    BY <2>2, <2>3, <2>4, <2>5 DEF ReliesOnGeneration
  <2>7. generation.status \in Concluded /\ generation.owner = p =>
          pass'[p].answer = pass[p].answer
    BY <2>3 DEF DraftingInvariant, ResultOfLastClaim
  <2>8. QED
    BY <1>11, <2>2, <2>3, <2>6, <2>7, PassMoves DEF GenerationExists, others, tables
<1>12. ASSUME NEW p \in Pass, ProviderAnswers(p) PROVE DraftingInvariant'
  <2>1. /\ pass[p].at = "call" /\ pass'[p].at = "finish"
        /\ \A q \in Pass \ {p} : pass'[q] = pass[q]
    BY <1>12 DEF ProviderAnswers, TypeOK, PassState
  <2>2. ~(generation.status \in Concluded /\ generation.owner = p)
    BY <2>1 DEF DraftingInvariant, ConcludedByItsOwner
  <2>3. setup.drafting => ReliesOnGeneration(p)'
    BY <1>12, <2>1 DEF DraftingInvariant, ReliesOnGeneration, ProviderAnswers, tables
  <2>4. /\ setup' = setup /\ faults' = faults /\ generation' = generation /\ outbound' = outbound
    BY <1>12 DEF ProviderAnswers, others, tables
  <2>5. QED
    BY <2>1, <2>2, <2>3, <2>4, PassMoves
<1>13. ASSUME NEW p \in Pass, FinishResponseGenerationClaim(p) PROVE DraftingInvariant'
  BY <1>13, FinishKeepsDrafting
<1>14. ASSUME NEW p \in Pass, UpdateResponsePlanDraft(p) PROVE DraftingInvariant'
  <2>1. /\ pass[p].at = "redraft" /\ pass'[p].at = "verify" /\ pass'[p].answer = pass[p].answer
        /\ \A q \in Pass \ {p} : pass'[q] = pass[q]
    BY <1>14 DEF UpdateResponsePlanDraft, TypeOK, PassState
  <2>2. setup.drafting => ReliesOnGeneration(p)'
    BY <1>14, <2>1 DEF DraftingInvariant, ReliesOnGeneration, UpdateResponsePlanDraft
  <2>3. QED
    BY <1>14, <2>1, <2>2, PassMoves DEF UpdateResponsePlanDraft, others
<1>15. ASSUME NEW p \in Pass, VerifyResponse(p) PROVE DraftingInvariant'
  <2>1. /\ pass[p].at = "verify" /\ pass'[p].at = "record" /\ pass'[p].answer = pass[p].answer
        /\ pass'[p].verdict.status = Verdict(pass[p].plan, published)
        /\ \A q \in Pass \ {p} : pass'[q] = pass[q]
    BY <1>15 DEF VerifyResponse, TypeOK, PassState
  <2>2. Verdict(pass[p].plan, published) = "APPROVED" => pass[p].plan.decision \in Replies
    BY DEF Verdict, Replies
  <2>3. generation' = generation
    BY <1>15 DEF VerifyResponse, tables
  <2>4. setup.drafting => ReliesOnGeneration(p)'
    BY <2>1, <2>2, <2>3 DEF DraftingInvariant, ReliesOnGeneration
  <2>5. QED
    BY <1>15, <2>1, <2>4, PassMoves DEF VerifyResponse, others, tables
<1>16. ASSUME NEW p \in Pass, UpsertResponseVerification(p) PROVE DraftingInvariant'
  <2>1. /\ setup' = setup /\ faults' = faults /\ generation' = generation /\ outbound' = outbound
        /\ pass[p].at = "record"
    BY <1>16 DEF UpsertResponseVerification, others
  <2>2. \/ Goes(p, "handoff") \/ Goes(p, "done")
        \/ Goes(p, "stage") /\ pass[p].verdict.status = "APPROVED"
    BY <1>16 DEF UpsertResponseVerification, AfterVerdict
  <2>3. QED
    BY <2>1, <2>2, PassGoes
<1>17. ASSUME NEW p \in Pass, StageVerifiedResponse(p) PROVE DraftingInvariant'
  <2>1. /\ setup' = setup /\ faults' = faults /\ generation' = generation
        /\ pass[p].at = "stage" /\ Goes(p, "done")
    BY <1>17 DEF StageVerifiedResponse, others
  <2>2. setup.drafting => generation.status \in {"COMPLETED", "FAILED"}
    BY <2>1 DEF DraftingInvariant, ReliesOnGeneration
  <2>3. QED
    BY <2>1, <2>2, PassGoes
<1>18. ASSUME NEW p \in Pass, PassFails(p) PROVE DraftingInvariant'
  <2>1. /\ setup' = setup /\ faults' = faults /\ generation' = generation /\ outbound' = outbound
        /\ pass[p].at # "failed" /\ Goes(p, "failed") /\ Fails
    BY <1>18 DEF PassFails, Running, Ended, others, tables
  <2>2. QED
    BY <2>1, PassGoes
<1>19. CASE UNCHANGED vars
  BY <1>19 DEF vars, DraftingInvariant, LeaseHolderCalls, ResultOfLastClaim,
               StagedAfterGeneration, HolderIsCalling, ConcludedByItsOwner,
               ReliesOnGeneration, Slow, Fails
<1>20. QED
  BY <1>1, <1>2, <1>4, <1>5, <1>6, <1>7, <1>8, <1>9, <1>10, <1>11, <1>12, <1>13,
     <1>14, <1>15, <1>16, <1>17, <1>18, <1>19, NextCases
-----------------------------------------------------------------------------
(***************************************************************************)
(* The rows of a pass that runs alone (StagingInvariant).                  *)
(***************************************************************************)
LEMMA InitStaging == Init => StagingInvariant
  BY DEF Init, StagingInvariant, Running

\* What a step of p leaves of the passes that run, and what it must provide
\* for p itself.
LEMMA StagingStep ==
  ASSUME TypeOK, StagingInvariant, NEW p \in Pass, faults' = faults,
         Running(p) \/ \A q \in Pass : ~Running(q),
         \A q \in Pass \ {p} : pass'[q] = pass[q],
         ~Overlaps /\ (\A q \in Pass : Running(q) => q = p) =>
           /\ pass'[p].at \in {"draft", "call", "finish", "redraft", "verify", "record", "stage"} =>
                plan' = pass'[p].plan
           /\ pass'[p].at \in {"record", "stage"} => pass'[p].verdict.judged = plan'.draft
           /\ pass'[p].at = "stage" =>
                verification' = pass'[p].verdict /\ verification'.status = "APPROVED"
  PROVE  StagingInvariant'
<1> SUFFICES ASSUME ~Overlaps PROVE StagingInvariant'
  BY DEF StagingInvariant, Overlaps
<1>1. \A q \in Pass : Running(q) => q = p
  BY DEF StagingInvariant
<1>2. \A q \in Pass : Running(q)' => q = p
  BY <1>1 DEF Running
<1>3. \A q \in Pass \ {p} : pass'[q].at \in Ended \cup {"new"}
  BY <1>2 DEF Running
<1>4. QED
  BY <1>1, <1>2, <1>3 DEF StagingInvariant, Ended

\* The same for a pass that only moves, while the rows stay as they are.
LEMMA StagingGoes ==
  ASSUME TypeOK, StagingInvariant, NEW p \in Pass, NEW next, Goes(p, next),
         faults' = faults, plan' = plan, verification' = verification,
         Running(p) \/ \A q \in Pass : ~Running(q),
         next \notin {"record", "stage"},
         next \in {"draft", "call", "finish", "redraft", "verify"} =>
           pass[p].at \in {"draft", "call", "finish", "redraft", "verify"}
  PROVE  StagingInvariant'
<1>1. /\ pass'[p].at = next /\ pass'[p].plan = pass[p].plan
      /\ \A q \in Pass \ {p} : pass'[q] = pass[q]
  BY GoesRows
<1>2. ~Overlaps /\ next \in {"draft", "call", "finish", "redraft", "verify"} =>
        plan = pass[p].plan
  BY DEF StagingInvariant
<1>3. QED
  BY <1>1, <1>2, StagingStep

\* A generation is applied: the plan and the pass's copy of it stay.
LEMMA StagingApplies ==
  ASSUME TypeOK, StagingInvariant, NEW p \in Pass, NEW row, Applies(p, row),
         faults' = faults, plan' = plan, verification' = verification,
         pass[p].at \in {"draft", "finish"}
  PROVE  StagingInvariant'
<1> DEFINE next == AfterGeneration(row.status, pass[p].plan.draft)
<1>1. pass' = [pass EXCEPT ![p] = [pass[p] EXCEPT
                 !.at = next, !.answer = [status |-> pass[p].answer.status, output |-> row.output]]]
  BY DEF Applies
<1>2. next \in {"handoff", "deferred", "redraft", "verify"}
  BY AfterGenerationType
<1> HIDE DEF next
<1>3. /\ pass'[p].at = next /\ pass'[p].plan = pass[p].plan
      /\ \A q \in Pass \ {p} : pass'[q] = pass[q]
  BY <1>1 DEF TypeOK, PassState
<1>4. ~Overlaps => plan = pass[p].plan
  BY DEF StagingInvariant
<1>5. Running(p)
  BY DEF Running, Ended
<1>6. QED
  BY <1>2, <1>3, <1>4, <1>5, StagingStep

LEMMA StepStaging == TypeOK /\ StagingInvariant /\ [Next]_vars => StagingInvariant'
<1> SUFFICES ASSUME TypeOK, StagingInvariant, [Next]_vars PROVE StagingInvariant'
  OBVIOUS
<1>r. ASSUME NEW p \in Pass, pass[p].at \notin {"new", "done", "deferred", "failed"}
      PROVE  Running(p)
  BY <1>r DEF Running, Ended
<1>1. CASE TransitionConversation \/ PublishKnowledgeItem \/ LeaseExpires
  BY <1>1 DEF TransitionConversation, PublishKnowledgeItem, LeaseExpires, tables, others,
              StagingInvariant, Overlaps, Running
<1>4. ASSUME NEW p \in Pass, Start(p) PROVE StagingInvariant'
  <2>1. /\ faults' = faults /\ plan' = plan /\ verification' = verification
        /\ Goes(p, "policy")
        /\ Overlaps \/ \A q \in Pass : ~Running(q)
    BY <1>4 DEF Start, others, tables
  <2>2. CASE Overlaps
    BY <2>1, <2>2 DEF StagingInvariant, Overlaps
  <2>3. CASE ~Overlaps
    BY <2>1, <2>3, StagingGoes
  <2>4. QED
    BY <2>2, <2>3
<1>5. ASSUME NEW p \in Pass, EvaluateAndApplyPolicy(p) PROVE StagingInvariant'
  <2>1. /\ faults' = faults /\ plan' = plan /\ verification' = verification /\ Running(p)
        /\ \E next \in {"policyHandoff", "read"} : Goes(p, next)
    BY <1>5, <1>r DEF EvaluateAndApplyPolicy, others, tables
  <2>2. QED
    BY <2>1, StagingGoes
<1>6. ASSUME NEW p \in Pass, RequestHandoff(p) PROVE StagingInvariant'
  <2>1. /\ faults' = faults /\ plan' = plan /\ verification' = verification /\ Running(p)
        /\ \E next \in {"read", "done", "failed"} : Goes(p, next)
    BY <1>6, <1>r DEF RequestHandoff, tables
  <2>2. QED
    BY <2>1, StagingGoes
<1>7. ASSUME NEW p \in Pass, ReadConversation(p) PROVE StagingInvariant'
  <2>1. /\ faults' = faults /\ Running(p) /\ pass'[p].at = "search"
        /\ \A q \in Pass \ {p} : pass'[q] = pass[q]
    BY <1>7, <1>r DEF ReadConversation, others, TypeOK, PassState
  <2>2. QED
    BY <2>1, StagingStep
<1>8. ASSUME NEW p \in Pass, SearchPublishedKnowledge(p) PROVE StagingInvariant'
  <2>1. /\ faults' = faults /\ Running(p) /\ pass'[p].at = "plan"
        /\ \A q \in Pass \ {p} : pass'[q] = pass[q]
    BY <1>8, <1>r DEF SearchPublishedKnowledge, others, TypeOK, PassState
  <2>2. QED
    BY <2>1, StagingStep
<1>9. ASSUME NEW p \in Pass, UpsertResponsePlan(p) PROVE StagingInvariant'
  <2>1. /\ faults' = faults /\ Running(p) /\ plan' = pass[p].plan
        /\ \E next \in {"draft", "verify"} : Goes(p, next)
    BY <1>9, <1>r DEF UpsertResponsePlan, others
  <2>2. /\ pass'[p].at \in {"draft", "verify"} /\ plan' = pass'[p].plan
        /\ \A q \in Pass \ {p} : pass'[q] = pass[q]
    BY <2>1, GoesRows
  <2>3. QED
    BY <2>1, <2>2, StagingStep
<1>10. ASSUME NEW p \in Pass, ClaimResponseGeneration(p) PROVE StagingInvariant'
  <2>1. /\ faults' = faults /\ plan' = plan /\ verification' = verification /\ Running(p)
        /\ pass[p].at = "draft" /\ Goes(p, "call")
    BY <1>10, <1>r DEF ClaimResponseGeneration, others
  <2>2. QED
    BY <2>1, StagingGoes
<1>11. ASSUME NEW p \in Pass, GenerationExists(p) PROVE StagingInvariant'
  BY <1>11, StagingApplies DEF GenerationExists, others, tables
<1>12. ASSUME NEW p \in Pass, ProviderAnswers(p) PROVE StagingInvariant'
  <2>1. /\ faults' = faults /\ plan' = plan /\ Running(p)
        /\ pass[p].at = "call" /\ pass'[p].at = "finish" /\ pass'[p].plan = pass[p].plan
        /\ \A q \in Pass \ {p} : pass'[q] = pass[q]
    BY <1>12, <1>r DEF ProviderAnswers, others, tables, TypeOK, PassState
  <2>2. ~Overlaps => plan = pass[p].plan
    BY <2>1 DEF StagingInvariant
  <2>3. QED
    BY <2>1, <2>2, StagingStep
<1>13. ASSUME NEW p \in Pass, FinishResponseGenerationClaim(p) PROVE StagingInvariant'
  <2>1. /\ faults' = faults /\ plan' = plan /\ verification' = verification
        /\ pass[p].at = "finish" /\ Applies(p, generation')
    BY <1>13 DEF FinishResponseGenerationClaim, others
  <2>2. QED
    BY <2>1, StagingApplies
<1>14. ASSUME NEW p \in Pass, UpdateResponsePlanDraft(p) PROVE StagingInvariant'
  <2>1. /\ faults' = faults /\ Running(p) /\ pass'[p].at = "verify" /\ pass'[p].plan = plan'
        /\ \A q \in Pass \ {p} : pass'[q] = pass[q]
    BY <1>14, <1>r DEF UpdateResponsePlanDraft, others, TypeOK, PassState
  <2>2. QED
    BY <2>1, StagingStep
<1>15. ASSUME NEW p \in Pass, VerifyResponse(p) PROVE StagingInvariant'
  <2>1. /\ faults' = faults /\ plan' = plan /\ Running(p)
        /\ pass[p].at = "verify" /\ pass'[p].at = "record" /\ pass'[p].plan = pass[p].plan
        /\ pass'[p].verdict.judged = pass[p].plan.draft
        /\ \A q \in Pass \ {p} : pass'[q] = pass[q]
    BY <1>15, <1>r DEF VerifyResponse, others, tables, TypeOK, PassState
  <2>2. ~Overlaps => plan = pass[p].plan
    BY <2>1 DEF StagingInvariant
  <2>3. QED
    BY <2>1, <2>2, StagingStep
<1>16. ASSUME NEW p \in Pass, UpsertResponseVerification(p) PROVE StagingInvariant'
  <2>1. /\ faults' = faults /\ plan' = plan /\ Running(p) /\ pass[p].at = "record"
        /\ verification' = pass[p].verdict
        /\ \/ Goes(p, "handoff") \/ Goes(p, "done")
           \/ Goes(p, "stage") /\ pass[p].verdict.status = "APPROVED"
    BY <1>16, <1>r DEF UpsertResponseVerification, AfterVerdict, others
  <2>2. /\ pass'[p].at \in {"handoff", "done", "stage"}
        /\ pass'[p].at = "stage" => pass[p].verdict.status = "APPROVED"
        /\ pass'[p].plan = pass[p].plan /\ pass'[p].verdict = pass[p].verdict
        /\ \A q \in Pass \ {p} : pass'[q] = pass[q]
    BY <2>1, GoesRows
  <2>3. ~Overlaps => plan = pass[p].plan /\ pass[p].verdict.judged = plan.draft
    BY <2>1 DEF StagingInvariant
  <2>4. QED
    BY <2>1, <2>2, <2>3, StagingStep
<1>17. ASSUME NEW p \in Pass, StageVerifiedResponse(p) PROVE StagingInvariant'
  <2>1. /\ faults' = faults /\ plan' = plan /\ verification' = verification /\ Running(p)
        /\ Goes(p, "done")
    BY <1>17, <1>r DEF StageVerifiedResponse, others
  <2>2. QED
    BY <2>1, StagingGoes
<1>18. ASSUME NEW p \in Pass, PassFails(p) PROVE StagingInvariant'
  <2>1. /\ faults' = faults /\ plan' = plan /\ verification' = verification /\ Running(p)
        /\ Goes(p, "failed")
    BY <1>18 DEF PassFails, others, tables
  <2>2. QED
    BY <2>1, StagingGoes
<1>19. CASE UNCHANGED vars
  BY <1>19 DEF vars, StagingInvariant, Overlaps, Running
<1>20. QED
  BY <1>1, <1>4, <1>5, <1>6, <1>7, <1>8, <1>9, <1>10, <1>11, <1>12, <1>13,
     <1>14, <1>15, <1>16, <1>17, <1>18, <1>19, NextCases
-----------------------------------------------------------------------------
(***************************************************************************)
(* The steps that record an answer and those that stage a text.            *)
(***************************************************************************)
LEMMA StepGeneration ==
  ASSUME TypeOK, [Next]_vars, generation.status \in Concluded
  PROVE  generation' = generation
<1>1. ASSUME NEW p \in Pass, ClaimResponseGeneration(p) PROVE FALSE
  BY <1>1 DEF ClaimResponseGeneration, Claimable, Concluded
<1>2. ASSUME NEW p \in Pass, FinishResponseGenerationClaim(p) PROVE generation' = generation
  BY <1>2 DEF FinishResponseGenerationClaim, HoldsGeneration, Concluded
<1>3. ~LeaseExpires
  BY DEF LeaseExpires, Concluded
<1>4. QED
  BY <1>1, <1>2, <1>3, NextCases
     DEF TransitionConversation, PublishKnowledgeItem, Start, EvaluateAndApplyPolicy,
         RequestHandoff, ReadConversation, SearchPublishedKnowledge, UpsertResponsePlan,
         GenerationExists, ProviderAnswers, UpdateResponsePlanDraft, VerifyResponse,
         UpsertResponseVerification, StageVerifiedResponse, PassFails, tables, vars

LEMMA StepStages ==
  ASSUME TypeOK, StagingInvariant, [Next]_vars, ~Overlaps, outbound' # outbound
  PROVE  verification.status = "APPROVED" /\ outbound' = verification.judged
<1>1. PICK p \in Pass : StageVerifiedResponse(p)
  BY NextCases
     DEF TransitionConversation, PublishKnowledgeItem, LeaseExpires, Start,
         EvaluateAndApplyPolicy, RequestHandoff, ReadConversation, SearchPublishedKnowledge,
         UpsertResponsePlan, ClaimResponseGeneration, GenerationExists, ProviderAnswers,
         FinishResponseGenerationClaim, UpdateResponsePlanDraft, VerifyResponse,
         UpsertResponseVerification, PassFails, tables, others, vars
<1>2. outbound' = plan.draft /\ pass[p].at = "stage"
  BY <1>1 DEF StageVerifiedResponse
<1>3. /\ verification = pass[p].verdict /\ verification.status = "APPROVED"
      /\ pass[p].verdict.judged = plan.draft
  BY <1>2 DEF StagingInvariant
<1>4. QED
  BY <1>2, <1>3
-----------------------------------------------------------------------------
(***************************************************************************)
(* What is staged has a verification (RecordedBeforeStaging).              *)
(***************************************************************************)
LEMMA RecordedStep ==
  ASSUME RecordedBeforeStaging, NEW p \in Pass,
         \A q \in Pass \ {p} : pass'[q] = pass[q],
         verification.status # "ABSENT" => verification'.status # "ABSENT",
         pass'[p].at = "record" => pass'[p].verdict.status # "ABSENT",
         pass'[p].at = "stage" => verification'.status # "ABSENT"
  PROVE  RecordedBeforeStaging'
  BY DEF RecordedBeforeStaging

\* A pass that goes elsewhere
LEMMA RecordedGoes ==
  ASSUME TypeOK, RecordedBeforeStaging, NEW p \in Pass, NEW next, Goes(p, next),
         next \notin {"record", "stage"}, verification' = verification
  PROVE  RecordedBeforeStaging'
<1>1. /\ pass'[p].at = next
      /\ \A q \in Pass \ {p} : pass'[q] = pass[q]
  BY GoesRows
<1>2. QED
  BY <1>1, RecordedStep

LEMMA RecordedApplies ==
  ASSUME TypeOK, RecordedBeforeStaging, NEW p \in Pass, NEW row, Applies(p, row),
         verification' = verification
  PROVE  RecordedBeforeStaging'
<1> DEFINE next == AfterGeneration(row.status, pass[p].plan.draft)
<1>1. pass' = [pass EXCEPT ![p] = [pass[p] EXCEPT
                 !.at = next, !.answer = [status |-> pass[p].answer.status, output |-> row.output]]]
  BY DEF Applies
<1>2. next \in {"handoff", "deferred", "redraft", "verify"}
  BY AfterGenerationType
<1> HIDE DEF next
<1>3. pass'[p].at = next /\ \A q \in Pass \ {p} : pass'[q] = pass[q]
  BY <1>1 DEF TypeOK, PassState
<1>4. QED
  BY <1>2, <1>3, RecordedStep

\* Where the steps go that also change what the pass has in memory
LEMMA ComputesRows ==
  ASSUME TypeOK, NEW p \in Pass,
         \/ ReadConversation(p) \/ SearchPublishedKnowledge(p) \/ ProviderAnswers(p)
         \/ UpdateResponsePlanDraft(p) \/ VerifyResponse(p)
  PROVE  /\ verification' = verification
         /\ pass'[p].at \in {"search", "plan", "finish", "verify", "record"}
         /\ pass'[p].at = "record" => VerifyResponse(p)
         /\ \A q \in Pass \ {p} : pass'[q] = pass[q]
<1> USE DEF TypeOK, PassState, tables
<1>1. CASE ReadConversation(p)
  BY <1>1 DEF ReadConversation
<1>2. CASE SearchPublishedKnowledge(p)
  BY <1>2 DEF SearchPublishedKnowledge
<1>3. CASE ProviderAnswers(p)
  BY <1>3 DEF ProviderAnswers
<1>4. CASE UpdateResponsePlanDraft(p)
  BY <1>4 DEF UpdateResponsePlanDraft
<1>5. CASE VerifyResponse(p)
  BY <1>5 DEF VerifyResponse
<1>6. QED
  BY <1>1, <1>2, <1>3, <1>4, <1>5

LEMMA VerdictGiven ==
  ASSUME NEW reply, NEW content
  PROVE  Verdict(reply, content) \in {"APPROVED", "REJECTED", "SKIPPED"}
  BY DEF Verdict

LEMMA StepRecorded ==
  TypeOK /\ RecordedBeforeStaging /\ [Next]_vars => RecordedBeforeStaging'
<1> SUFFICES ASSUME TypeOK, RecordedBeforeStaging, [Next]_vars PROVE RecordedBeforeStaging'
  OBVIOUS
<1>1. CASE UNCHANGED <<verification, pass>>
  BY <1>1 DEF RecordedBeforeStaging
<1>2. TransitionConversation \/ PublishKnowledgeItem \/ LeaseExpires \/ UNCHANGED vars =>
        UNCHANGED <<verification, pass>>
  BY DEF TransitionConversation, PublishKnowledgeItem, LeaseExpires, tables, others, vars
<1>3. ASSUME NEW p \in Pass,
             \/ Start(p) \/ EvaluateAndApplyPolicy(p) \/ RequestHandoff(p) \/ UpsertResponsePlan(p)
             \/ ClaimResponseGeneration(p) \/ StageVerifiedResponse(p) \/ PassFails(p)
      PROVE  RecordedBeforeStaging'
  <2>1. /\ verification' = verification
        /\ \E next \in {"policy", "policyHandoff", "read", "done", "failed", "draft", "verify", "call"} :
             Goes(p, next)
    BY <1>3 DEF Start, EvaluateAndApplyPolicy, RequestHandoff, UpsertResponsePlan,
                ClaimResponseGeneration, StageVerifiedResponse, PassFails, tables
  <2>2. QED
    BY <2>1, RecordedGoes
<1>4. ASSUME NEW p \in Pass,
             \/ ReadConversation(p) \/ SearchPublishedKnowledge(p) \/ ProviderAnswers(p)
             \/ UpdateResponsePlanDraft(p) \/ VerifyResponse(p)
      PROVE  RecordedBeforeStaging'
  <2>1. ASSUME VerifyResponse(p) PROVE pass'[p].verdict.status = Verdict(pass[p].plan, published)
    BY <2>1 DEF VerifyResponse, TypeOK, PassState
  <2>2. QED
    BY <1>4, <2>1, ComputesRows, VerdictGiven, RecordedStep
<1>5. ASSUME NEW p \in Pass, GenerationExists(p) \/ FinishResponseGenerationClaim(p)
      PROVE  RecordedBeforeStaging'
  BY <1>5, RecordedApplies DEF GenerationExists, FinishResponseGenerationClaim, tables
<1>6. ASSUME NEW p \in Pass, UpsertResponseVerification(p) PROVE RecordedBeforeStaging'
  <2>1. /\ verification' = pass[p].verdict /\ pass[p].at = "record"
        /\ Goes(p, AfterVerdict(p))
    BY <1>6 DEF UpsertResponseVerification
  <2>2. AfterVerdict(p) \in {"stage", "handoff", "done"}
    BY DEF AfterVerdict
  <2>3. verification'.status # "ABSENT"
    BY <2>1 DEF RecordedBeforeStaging
  <2>4. QED
    BY <2>1, <2>2, <2>3, GoesRows, RecordedStep
<1>7. QED
  BY <1>1, <1>2, <1>3, <1>4, <1>5, <1>6, NextCases

(***************************************************************************)
(* Who is left with a message when a pass over it ends (LeftToSomebody).   *)
(***************************************************************************)
SomebodyHasIt ==
  \/ verification.status # "ABSENT"
  \/ conversation # "AUTOMATED"
  \/ generation.status = "IN_PROGRESS" /\ pass[generation.owner].at \in {"call", "finish"}

\* A pass that applies a generation ends only if another pass is asking for it.
LEMMA AppliedIsInProgress ==
  ASSUME TypeOK, HolderIsCalling, ~Fails, NEW p \in Pass, pass[p].at \in {"draft", "finish"},
         NEW row, row.status = "IN_PROGRESS" => generation' = generation /\ generation = row,
         row.status = "IN_PROGRESS" => generation.owner # p,
         Applies(p, row), ~Running(p)'
  PROVE  SomebodyHasIt'
<1> DEFINE next == AfterGeneration(row.status, pass[p].plan.draft)
<1>1. pass' = [pass EXCEPT ![p] = [pass[p] EXCEPT
                 !.at = next, !.answer = [status |-> pass[p].answer.status, output |-> row.output]]]
  BY DEF Applies
<1>2. /\ next \in {"handoff", "deferred", "redraft", "verify"}
      /\ next = "deferred" => row.status = "IN_PROGRESS"
  BY DEF AfterGeneration
<1> HIDE DEF next
<1>3. pass'[p].at = next /\ \A q \in Pass \ {p} : pass'[q] = pass[q]
  BY <1>1 DEF TypeOK, PassState
<1>4. next = "deferred"
  BY <1>2, <1>3 DEF Running, Ended
<1>5. /\ generation' = generation /\ generation.status = "IN_PROGRESS"
      /\ generation.owner \in Pass \ {p}
      /\ pass[generation.owner].at \in {"call", "finish"}
  BY <1>2, <1>4 DEF HolderIsCalling
<1>6. QED
  BY <1>3, <1>5 DEF SomebodyHasIt

LEMMA EndsWithSomebody ==
  ASSUME PipelineInvariant, [Next]_vars, ~Fails, NEW p \in Pass, Running(p), ~Running(p)'
  PROVE  SomebodyHasIt'
<1> USE DEF PipelineInvariant
<1>1. pass'[p].at \in Ended \cup {"new"} /\ pass[p].at \notin Ended \cup {"new"}
  BY DEF Running
<1>2. ASSUME NEW q \in Pass, NEW next, Goes(q, next), next \notin Ended \cup {"new"} PROVE FALSE
  BY <1>1, <1>2, GoesRows
<1>3. ASSUME NEW q \in Pass,
             \/ Start(q) \/ EvaluateAndApplyPolicy(q) \/ UpsertResponsePlan(q)
             \/ ClaimResponseGeneration(q) \/ PassFails(q)
      PROVE  FALSE
  <2>1. \E next \in {"policy", "policyHandoff", "read", "draft", "verify", "call"} : Goes(q, next)
    BY <1>3 DEF Start, EvaluateAndApplyPolicy, UpsertResponsePlan, ClaimResponseGeneration,
                PassFails
  <2>2. QED
    BY <1>2, <2>1 DEF Ended
<1>4. ASSUME NEW q \in Pass,
             \/ ReadConversation(q) \/ SearchPublishedKnowledge(q) \/ ProviderAnswers(q)
             \/ UpdateResponsePlanDraft(q) \/ VerifyResponse(q)
      PROVE  FALSE
  <2>1. /\ pass'[q].at \in {"search", "plan", "finish", "verify", "record"}
        /\ \A r \in Pass \ {q} : pass'[r] = pass[r]
    BY <1>4, ComputesRows
  <2>2. QED
    BY <1>1, <2>1 DEF Ended
<1>5. ASSUME NEW q \in Pass, RequestHandoff(q) PROVE SomebodyHasIt'
  <2>1. HandoffAllowed \/ conversation # "AUTOMATED"
    BY DEF HandoffAllowed, AllowedFrom
  <2>2. conversation' # "AUTOMATED"
    BY <1>5, <2>1 DEF RequestHandoff
  <2>3. QED
    BY <2>2 DEF SomebodyHasIt
<1>6. ASSUME NEW q \in Pass, GenerationExists(q) \/ FinishResponseGenerationClaim(q)
      PROVE  SomebodyHasIt'
  <2>1. PICK row : Applies(q, row) /\ row = generation'
    BY <1>6 DEF GenerationExists, FinishResponseGenerationClaim, tables
  <2>2. q = p
    BY <1>1, <2>1 DEF Applies, TypeOK
  <2>3. CASE GenerationExists(q)
    <3>1. /\ pass[q].at = "draft" /\ generation' = generation
      BY <2>3 DEF GenerationExists, tables
    <3>2. generation.status = "IN_PROGRESS" => generation.owner # q
      BY <3>1 DEF DraftingInvariant, HolderIsCalling
    <3>3. QED
      BY <2>1, <2>2, <3>1, <3>2, AppliedIsInProgress DEF DraftingInvariant
  <2>4. CASE FinishResponseGenerationClaim(q)
    <3>1. pass[q].at = "finish" /\ pass[q].answer \in Answer /\ generation \in GenerationRow
      BY <2>4 DEF FinishResponseGenerationClaim, TypeOK, PassState
    <3>2. generation'.status = "IN_PROGRESS" =>
            generation' = generation /\ generation.owner # q
      BY <2>4, <3>1 DEF FinishResponseGenerationClaim, HoldsGeneration, GenerationRow, Answer,
                        Concluded
    <3>3. QED
      BY <2>1, <2>2, <3>1, <3>2, AppliedIsInProgress DEF DraftingInvariant
  <2>5. QED
    BY <1>6, <2>3, <2>4
<1>7. ASSUME NEW q \in Pass, UpsertResponseVerification(q) \/ StageVerifiedResponse(q)
      PROVE  SomebodyHasIt'
  <2>1. verification'.status # "ABSENT"
    BY <1>7 DEF UpsertResponseVerification, StageVerifiedResponse, RecordedBeforeStaging
  <2>2. QED
    BY <2>1 DEF SomebodyHasIt
<1>8. UNCHANGED pass => FALSE
  BY <1>1
<1>9. TransitionConversation \/ PublishKnowledgeItem \/ LeaseExpires \/ UNCHANGED vars =>
        UNCHANGED pass
  BY DEF TransitionConversation, PublishKnowledgeItem, LeaseExpires, vars
<1>10. QED
  BY <1>3, <1>4, <1>5, <1>6, <1>7, <1>8, <1>9, NextCases
-----------------------------------------------------------------------------
(***************************************************************************)
(* The theorems.                                                           *)
(***************************************************************************)

\* The tables and the passes keep their types, whatever the message, the
\* settings and the faults (TypeOK).
THEOREM TypeCorrect == Spec => []TypeOK
  BY InitType, StepType, PTL DEF Spec

\* The inductive invariant of the generation's lease and of the rows a pass
\* relies on, for any number of passes (PipelineInvariant).
THEOREM PipelineInvariantHolds == Spec => []PipelineInvariant
<1>1. Init => PipelineInvariant
  <2>1. Init => RecordedBeforeStaging
    BY DEF Init, RecordedBeforeStaging
  <2>2. QED
    BY <2>1, InitType, InitDrafting, InitStaging DEF PipelineInvariant
<1>2. PipelineInvariant /\ [Next]_vars => PipelineInvariant'
  BY StepType, StepDrafting, StepStaging, StepRecorded DEF PipelineInvariant
<1>3. QED
  BY <1>1, <1>2, PTL DEF Spec

\* With calls that end within their lease, the provider is never called for two
\* passes, nor after its answer is recorded (LeaseHolderCalls).
THEOREM LeaseHolderCallsHolds == Spec => []LeaseHolderCalls
<1>1. PipelineInvariant => LeaseHolderCalls
  BY DEF PipelineInvariant, DraftingInvariant
<1>2. QED
  BY <1>1, PipelineInvariantHolds, PTL

\* The recorded answer is that of the call that claimed the generation last,
\* however slow the calls are (ResultOfLastClaim).
THEOREM ResultOfLastClaimHolds == Spec => []ResultOfLastClaim
<1>1. PipelineInvariant => ResultOfLastClaim
  BY DEF PipelineInvariant, DraftingInvariant
<1>2. QED
  BY <1>1, PipelineInvariantHolds, PTL

\* With drafting enabled nothing is staged before the provider's answer, or
\* after one that asks for a person, however passes overlap and fail
\* (StagedAfterGeneration).
THEOREM StagedAfterGenerationHolds == Spec => []StagedAfterGeneration
<1>1. PipelineInvariant => StagedAfterGeneration
  BY DEF PipelineInvariant, DraftingInvariant
<1>2. QED
  BY <1>1, PipelineInvariantHolds, PTL

\* A recorded answer stays (GenerationIsFinal).
THEOREM GenerationStays == Spec => GenerationIsFinal
<1>1. TypeOK /\ [Next]_vars => [generation.status \in Concluded => generation' = generation]_vars
  BY StepGeneration
<1>2. QED
  BY <1>1, TypeCorrect, PTL DEF Spec, GenerationIsFinal

\* As long as passes do not overlap, only the text the verifier approved enters
\* the outbox, although passes fail and knowledge changes at any point
\* (VerifiedIfAlone).
THEOREM VerifiedAlone == Spec => VerifiedIfAlone
<1>1. PipelineInvariant /\ [Next]_vars =>
        [~Overlaps /\ outbound' # outbound =>
           verification.status = "APPROVED" /\ outbound' = verification.judged]_vars
  BY StepStages DEF PipelineInvariant
<1>2. QED
  BY <1>1, PipelineInvariantHolds, PTL DEF Spec, VerifiedIfAlone

\* A pass that ends without a fault of its own leaves the message verified, or
\* to a person, or to the pass that is calling the provider for it: whatever
\* plan it finds, and however long other passes have been at the message
\* (LeftToSomebody).
THEOREM MessageLeftToSomebody == Spec => LeftToSomebody
<1>1. PipelineInvariant /\ [Next]_vars =>
        [~Fails =>
           \A p \in Pass : Running(p) /\ ~Running(p)' =>
             \/ verification'.status # "ABSENT"
             \/ conversation' # "AUTOMATED"
             \/ /\ generation'.status = "IN_PROGRESS"
                /\ pass'[generation'.owner].at \in {"call", "finish"}]_vars
  BY EndsWithSomebody DEF SomebodyHasIt
<1>2. QED
  BY <1>1, PipelineInvariantHolds, PTL DEF Spec, LeftToSomebody
=============================================================================
