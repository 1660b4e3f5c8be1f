-------------------------- MODULE ApprovedKnowledge --------------------------
(***************************************************************************)
(* What the knowledge base promises to the planner, the drafter and the    *)
(* verifier, without drafts, locks or transactions: a version enters only  *)
(* by a publication, its text is then fixed for good, and a version leaves *)
(* only when another one of its key enters.  A key that can be cited once  *)
(* can be cited ever after.                                                *)
(***************************************************************************)
EXTENDS Naturals

CONSTANTS
  Key,          \* external_key
  Text,         \* what an item says, with its claims and its risk class
  MaxVersion,
  None

VARIABLES
  published,    \* the versions of a key that searches find
  approved      \* the text of every version that was ever published

vars == <<published, approved>>

Version == 1 .. MaxVersion

Init ==
  /\ published = [k \in Key |-> {}]
  /\ approved = [k \in Key |-> [v \in Version |-> None]]

\* Version v enters with text t; the versions in A, which may be all others,
\* leave.
Publish(k, v, t, A) ==
  /\ approved[k][v] \in {None, t}
  /\ A \subseteq published[k] \ {v}
  /\ published' = [published EXCEPT ![k] = (published[k] \ A) \cup {v}]
  /\ approved' = [approved EXCEPT ![k] = [approved[k] EXCEPT ![v] = t]]

Next ==
  \E k \in Key, v \in Version, t \in Text : \E A \in SUBSET Version : Publish(k, v, t, A)

Spec == Init /\ [][Next]_vars
=============================================================================
