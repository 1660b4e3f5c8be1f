------------------------- MODULE MCResponsePipeline -------------------------
(***************************************************************************)
(* Instances of ResponsePipeline for TLC: messages that PolicyRules        *)
(* decides about; a safe and a priced version of the knowledge, of which   *)
(* the second does not pass its own verification, a risky one, and drafts  *)
(* with and without support.                                               *)
(***************************************************************************)
EXTENDS ResponsePipeline, PolicyRules, TLC

CONSTANTS p1, p2, safe, priced, risky, sound, unsound, question, complaint, offer, greeting

SafeAndPriced == {safe, priced}
SafeTexts == {<<safe, safe>>, <<sound, safe>>}
SupportedTexts == {<<safe, safe>>, <<sound, safe>>, <<sound, priced>>}

\* Complaints go to a person, whatever else the text says; so would offers, were the
\* rule enabled.
Rules ==
  {[key |-> 1, priority |-> 20, enabled |-> TRUE, action |-> "IGNORE",
    matchMode |-> "all", evidence |-> {offer, greeting}],
   [key |-> 2, priority |-> 10, enabled |-> TRUE, action |-> "HANDOFF",
    matchMode |-> "any", evidence |-> {complaint}],
   [key |-> 3, priority |-> 10, enabled |-> FALSE, action |-> "HANDOFF",
    matchMode |-> "any", evidence |-> {offer}]}

\* A message with this text, which asks for a project or not
Setup(text, intake, drafting) ==
  [policy |-> EvaluateText(Rules, text), intake |-> intake, drafting |-> drafting]

AllSetups ==
  {Setup({offer}, i, d) : i, d \in BOOLEAN}
    \cup {Setup(t, FALSE, TRUE) :
            t \in {{complaint, offer, greeting}, {complaint}, {offer, greeting}, NoText}}
DraftedAnswer == {Setup({greeting}, FALSE, TRUE)}
AnyAnswer == {Setup({greeting}, FALSE, d) : d \in BOOLEAN}

AllFaults == SUBSET {"failure", "slow", "overlap"}
OverlapOnly == {{"overlap"}}
NoFault == {{}}
=============================================================================
