---------------------------- MODULE ReviewedSend ----------------------------
(***************************************************************************)
(* What the outbox promises, without leases, attempts and processes: the   *)
(* text that a plan has is staged, somebody decides about it once and      *)
(* approves it only while it still is what the plan says, the provider is  *)
(* handed only what was approved, which nobody changes any more, and at    *)
(* most one outcome is ever recorded.                                      *)
(*                                                                         *)
(* Handing over and concluding are steps of their own, and in no fixed     *)
(* order: a call that was thought dead may still reach the provider after  *)
(* another call has concluded the message.                                 *)
(***************************************************************************)
CONSTANTS
  Outbound,
  Text,      \* texts a plan can have
  None       \* no text

VARIABLES
  planned,   \* the text of each plan, which others may change at any time
  staged,    \* the text of each message
  stage,     \* what was decided about each message
  handed     \* the messages the provider has been handed

vars == <<planned, staged, stage, handed>>

Concluded == {"sent", "failed", "unknown"}
Stage == {"absent", "pending", "approved", "rejected"} \cup Concluded

Init ==
  /\ planned = [o \in Outbound |-> None]
  /\ staged = [o \in Outbound |-> None]
  /\ stage = [o \in Outbound |-> "absent"]
  /\ handed = {}

Plan(o, text) ==
  /\ planned' = [planned EXCEPT ![o] = text]
  /\ UNCHANGED <<staged, stage, handed>>

Move(o, from, to) ==
  /\ stage[o] = from
  /\ stage' = [stage EXCEPT ![o] = to]
  /\ UNCHANGED <<planned, handed>>

Stages(o, to) ==
  /\ planned[o] # None
  /\ staged' = [staged EXCEPT ![o] = planned[o]]
  /\ Move(o, "absent", to)

StageForReview(o) == Stages(o, "pending")
StageApproved(o)  == Stages(o, "approved")

Approve(o) ==
  /\ staged[o] = planned[o]
  /\ Move(o, "pending", "approved")
  /\ UNCHANGED staged

Reject(o) == Move(o, "pending", "rejected") /\ UNCHANGED staged

HandOver(o) ==
  /\ stage[o] \in {"approved"} \cup Concluded
  /\ handed' = handed \cup {o}
  /\ UNCHANGED <<planned, staged, stage>>

Conclude(o, outcome) ==
  /\ outcome \in {"sent", "unknown"} => o \in handed
  /\ Move(o, "approved", outcome)
  /\ UNCHANGED staged

Next ==
  \E o \in Outbound :
    \/ \E text \in Text \cup {None} : Plan(o, text)
    \/ StageForReview(o)
    \/ StageApproved(o)
    \/ Approve(o)
    \/ Reject(o)
    \/ HandOver(o)
    \/ \E outcome \in Concluded : Conclude(o, outcome)

Spec == Init /\ [][Next]_vars
=============================================================================
