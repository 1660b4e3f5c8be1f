------------------------- MODULE ConversationStates -------------------------
(***************************************************************************)
(* The states of a conversation and the transitions between them that      *)
(* services/conversation_state.py and repositories/conversations.py allow. *)
(***************************************************************************)

\* ConversationState, the CHECK constraint on conversations.state
ConversationState == {"AUTOMATED", "HUMAN_REQUIRED", "HUMAN_ACTIVE", "CLOSED"}

\* ALLOWED_TRANSITIONS: a conversation in state s may move to AllowedFrom(s)
AllowedFrom(s) ==
  CASE s = "AUTOMATED"      -> {"HUMAN_REQUIRED", "HUMAN_ACTIVE", "CLOSED"}
    [] s = "HUMAN_REQUIRED" -> {"HUMAN_ACTIVE", "AUTOMATED", "CLOSED"}
    [] s = "HUMAN_ACTIVE"   -> {"AUTOMATED", "CLOSED"}
    [] s = "CLOSED"         -> {}
=============================================================================
