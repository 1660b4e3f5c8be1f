-------------------------- MODULE MCConversations --------------------------
(***************************************************************************)
(* Instances of Conversations for TLC: two messages, of one contact or of  *)
(* two, in webhooks of their own or in two that bring both.                *)
(***************************************************************************)
EXTENDS Conversations, TLC

CONSTANTS m1, m2, k1, k2, d1, d2

SameContact == (m1 :> k1) @@ (m2 :> k1)
ContactOfMessage == (m1 :> k1) @@ (m2 :> k2)
Opposite == (d1 :> <<m1, m2>>) @@ (d2 :> <<m2, m1>>)
Separate == (d1 :> <<m1>>) @@ (d2 :> <<m2>>)
=============================================================================
