--------------------------- MODULE MCWebhookQueue ---------------------------
(***************************************************************************)
(* Instances of WebhookQueue for TLC: calls that bring one event, as its   *)
(* two messages and its status are batched in one webhook or another.      *)
(***************************************************************************)
EXTENDS WebhookQueue, TLC

CONSTANT p1

Meta == INSTANCE WebhookIdentity WITH
  Id <- {"hello", "price", "reply"}, Contact <- {"ana"}, Time <- {10}, Detail <- {"any"},
  Body <- {"raw"}

Said(id) == [id |-> id, from |-> "ana", detail |-> "any"]
Delivered == [id |-> "reply", status |-> "delivered", timestamp |-> 10, detail |-> "any"]
Brings(M, S) == [field |-> "messages", messages |-> M, statuses |-> S]

\* The first call brings everything in one change, others in three.
PayloadOf(p) ==
  IF p = p1 THEN {Brings({Said("hello"), Said("price")}, {Delivered})}
  ELSE {Brings({Said("hello")}, {}), Brings({Said("price")}, {}), Brings({}, {Delivered})}

Brought == [p \in Post |-> Meta!Identity(PayloadOf(p), "raw")]

OneEvent == {Brought[p1]}

\* Processes die and pops are lost while Redis refuses pushes, or is sent them
\* twice; or nothing dies or is lost, but errors are reported for pushes that
\* were carried out, be they sent once or twice.
DyingOrDoubtful ==
  {{"crash", "lost", "refused"}, {"crash", "lost", "repeated"},
   {"doubtful"}, {"doubtful", "repeated"}}

Doubtful == {{"doubtful"}}
=============================================================================
