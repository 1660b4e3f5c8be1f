------------------------------ MODULE MCOutbox ------------------------------
(***************************************************************************)
(* Instances of Outbox for TLC: all messages belong to one conversation.   *)
(***************************************************************************)
EXTENDS Outbox, TLC

CONSTANT c1

OneConversation == {c1}
AllOfOne == [o \in Outbound |-> c1]

\* No send reads the plan, the verification or the conversation of a message,
\* so nothing is lost by leaving out their changes once a message is claimed.
SourcesSettled ==
  \A o \in Outbound :
    outbox[o].attemptCount > 0 =>
      /\ draft[o] = outbox[o].body
      /\ verification[o] = "APPROVED"
      /\ conversation[ConversationOf[o]] = "AUTOMATED"

\* The calls of the send endpoint are interchangeable, and so are the texts.
Interchangeable == Permutations(Request) \cup Permutations(Body)
=============================================================================
