----------------------------- MODULE PolicyRules -----------------------------
(***************************************************************************)
(* What the policy decides about a text (policy_engine.py,                 *)
(* repositories/policies.py): the first enabled rule, by priority and then *)
(* by key, that finds its evidence.                                        *)
(*                                                                         *)
(* Abstractions: a text is the set of the terms and patterns that occur in *)
(* it, NoText if nothing is to be evaluated; a rule's key is its place in  *)
(* the order of keys; its lists are sets, as every entry of a list is      *)
(* looked for and counted once; a blank term, or a list that is none, is   *)
(* evidence that occurs in no text; risk levels and reasons are left out.  *)
(***************************************************************************)
EXTENDS Naturals

CONSTANTS
  Evidence,   \* the terms and patterns of all rules
  NoText

ASSUME PolicyRulesAssumption == \A text \in SUBSET Evidence : text # NoText

\* action: what PolicyAction admits
Rule ==
  [key : Nat, priority : Nat, enabled : BOOLEAN, action : {"ALLOW", "HANDOFF", "IGNORE"},
   matchMode : {"any", "all"}, evidence : SUBSET Evidence]

\* UNIQUE (tenant_id, rule_key)
KeysUnique(rules) == \A r, s \in rules : r.key = s.key => r = s

\* ORDER BY priority ASC, rule_key ASC
Before(r, s) == r.priority < s.priority \/ (r.priority = s.priority /\ r.key < s.key)

\* _match_rule finds something.
Matches(rule, text) ==
  /\ rule.evidence \cap text # {}
  /\ rule.matchMode = "all" => rule.evidence \subseteq text

Matching(rules, text) == {r \in rules : r.enabled /\ Matches(r, text)}

\* evaluate_text returns at the first match.
Deciding(rules, text) ==
  CHOOSE r \in Matching(rules, text) : \A s \in Matching(rules, text) \ {r} : Before(r, s)

EvaluateText(rules, text) ==
  IF text = NoText THEN "IGNORE"
  ELSE IF Matching(rules, text) = {} THEN "ALLOW"
  ELSE Deciding(rules, text).action
-----------------------------------------------------------------------------
\* A matching rule that is before all others is the one that evaluate_text returns:
\* the order of keys leaves no second one.
LEMMA FirstMatchDecides ==
  ASSUME NEW rules \in SUBSET Rule, KeysUnique(rules), NEW text \in SUBSET Evidence,
         NEW r \in Matching(rules, text),
         \A s \in Matching(rules, text) \ {r} : Before(r, s)
  PROVE  EvaluateText(rules, text) = r.action
<1>1. Deciding(rules, text) \in Matching(rules, text)
  BY DEF Deciding
<1>2. \A s \in Matching(rules, text) \ {Deciding(rules, text)} : Before(Deciding(rules, text), s)
  BY DEF Deciding
<1>3. \A s, t \in rules : ~(Before(s, t) /\ Before(t, s))
  BY DEF Before, Rule
<1>4. Deciding(rules, text) = r
  BY <1>1, <1>2, <1>3 DEF Matching
<1>5. text # NoText
  BY PolicyRulesAssumption
<1>6. QED
  BY <1>4, <1>5 DEF EvaluateText

\* A later rule cannot lift what an earlier one asks for: where every enabled rule of
\* a list is before every enabled rule added to it, a text that the list matches is
\* decided as before.
THEOREM LaterRulesDoNotDecide ==
  ASSUME NEW rules \in SUBSET Rule, NEW added \in SUBSET Rule, KeysUnique(rules \cup added),
         NEW text \in SUBSET Evidence,
         NEW r \in Matching(rules, text),
         \A s \in Matching(rules, text) \ {r} : Before(r, s),
         \A s \in rules, t \in added : Before(s, t)
  PROVE  EvaluateText(rules \cup added, text) = EvaluateText(rules, text)
<1>1. EvaluateText(rules, text) = r.action
  BY FirstMatchDecides DEF KeysUnique
<1>2. r \in Matching(rules \cup added, text)
  BY DEF Matching
<1>3. \A s \in Matching(rules \cup added, text) \ {r} : Before(r, s)
  BY DEF Matching
<1>4. EvaluateText(rules \cup added, text) = r.action
  BY <1>2, <1>3, FirstMatchDecides
<1>5. QED
  BY <1>1, <1>4
=============================================================================
