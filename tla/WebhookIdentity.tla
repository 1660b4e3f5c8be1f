--------------------------- MODULE WebhookIdentity ---------------------------
(***************************************************************************)
(* What identifies a webhook (webhooks.py) and what is read from it        *)
(* (normalization.py).  A webhook whose identity is in the table is        *)
(* dropped, with whatever it brings.                                       *)
(*                                                                         *)
(* Abstractions: a payload is a set of changes, an order or a repetition   *)
(* in it being lost in the identity too; the ids joined and hashed are the *)
(* set itself, as they hold no separator; what else a message or a status  *)
(* says is its detail.                                                     *)
(***************************************************************************)

CONSTANTS
  Id,        \* ids that Meta gives to messages, of customers and of ours
  Contact,   \* wa_id
  Time,      \* timestamps
  Detail,    \* text, type, error: everything that is only passed on
  Body,      \* raw request bodies
  None       \* what a payload does not say

Message == [id : Id \cup {None}, from : Contact \cup {None}, detail : Detail]

Status ==
  [id : Id \cup {None}, status : {"sent", "delivered", "read", "failed", None},
   timestamp : Time \cup {None}, detail : Detail]

Change ==
  [field : {"messages", "other"}, messages : SUBSET Message, statuses : SUBSET Status]

Payload == SUBSET Change
-----------------------------------------------------------------------------
MessagesOf(payload) == UNION {change.messages : change \in payload}
StatusesOf(payload) == UNION {change.statuses : change \in payload}

StatusKey(s) == <<s.id, IF s.status = None THEN "unknown" ELSE s.status, s.timestamp>>

\* Whatever the field of a change is
MessageIds(payload) == {m.id : m \in {n \in MessagesOf(payload) : n.id # None}}
StatusKeys(payload) == {StatusKey(s) : s \in {t \in StatusesOf(payload) : t.id # None}}

\* extract_whatsapp_event_identity: the ids, or the body if there is none
Identity(payload, body) ==
  IF MessageIds(payload) = {} /\ StatusKeys(payload) = {}
  THEN [prefix |-> "sha256", of |-> body]
  ELSE [prefix |-> "wa", of |-> <<MessageIds(payload), StatusKeys(payload)>>]

EventKind(payload) ==
  CASE MessageIds(payload) # {} /\ StatusKeys(payload) = {} -> "message"
    [] MessageIds(payload) = {} /\ StatusKeys(payload) # {} -> "status"
    [] MessageIds(payload) # {} /\ StatusKeys(payload) # {} -> "mixed"
    [] OTHER -> "unknown"
-----------------------------------------------------------------------------
OfMessages(payload) == {change \in payload : change.field = "messages"}

NormalizeWhatsappMessages(payload) ==
  {m \in MessagesOf(OfMessages(payload)) : m.id # None /\ m.from # None}

NormalizeWhatsappStatuses(payload) ==
  {s \in StatusesOf(OfMessages(payload)) : s.id # None /\ s.status # None}
-----------------------------------------------------------------------------
(***************************************************************************)
(* What Meta is taken to send: only changes of messages, complete ones;    *)
(* one message by an id, and one status by what the identity has of it.    *)
(***************************************************************************)
Complete(payload) ==
  /\ \A change \in payload : change.field = "messages"
  /\ \A m \in MessagesOf(payload) : m.id # None /\ m.from # None
  /\ \A s \in StatusesOf(payload) : s.id # None /\ s.status # None

Consistent(p, q) ==
  /\ \A m \in MessagesOf(p), n \in MessagesOf(q) : m.id = n.id => m = n
  /\ \A s \in StatusesOf(p), t \in StatusesOf(q) : StatusKey(s) = StatusKey(t) => s = t

\* Webhooks with one identity bring the same messages and statuses: the one that
\* store_webhook_event drops, batched or ordered otherwise, has nothing of its own.
THEOREM DuplicateBringsNothing ==
  ASSUME NEW p \in Payload, NEW q \in Payload, NEW b \in Body, NEW c \in Body,
         Complete(p), Complete(q), Consistent(p, q), Identity(p, b) = Identity(q, c)
  PROVE  /\ NormalizeWhatsappMessages(p) = NormalizeWhatsappMessages(q)
         /\ NormalizeWhatsappStatuses(p) = NormalizeWhatsappStatuses(q)
         /\ EventKind(p) = EventKind(q)
<1>1. MessageIds(p) = MessageIds(q) /\ StatusKeys(p) = StatusKeys(q)
  <2>1. CASE MessageIds(p) = {} /\ StatusKeys(p) = {}
    BY <2>1 DEF Identity
  <2>2. CASE ~(MessageIds(p) = {} /\ StatusKeys(p) = {})
    BY <2>2 DEF Identity
  <2>3. QED
    BY <2>1, <2>2
<1>2. \A x \in {p, q} :
        /\ NormalizeWhatsappMessages(x) = MessagesOf(x)
        /\ NormalizeWhatsappStatuses(x) = StatusesOf(x)
        /\ MessageIds(x) = {m.id : m \in MessagesOf(x)}
        /\ StatusKeys(x) = {StatusKey(s) : s \in StatusesOf(x)}
  <2>1. ASSUME NEW x \in {p, q}
        PROVE  OfMessages(x) = x
    BY DEF OfMessages, Complete
  <2>2. ASSUME NEW x \in {p, q}
        PROVE  /\ {m \in MessagesOf(x) : m.id # None} = MessagesOf(x)
               /\ {m \in MessagesOf(x) : m.id # None /\ m.from # None} = MessagesOf(x)
    BY DEF Complete
  <2>3. ASSUME NEW x \in {p, q}
        PROVE  /\ {s \in StatusesOf(x) : s.id # None} = StatusesOf(x)
               /\ {s \in StatusesOf(x) : s.id # None /\ s.status # None} = StatusesOf(x)
    BY DEF Complete
  <2>4. QED
    BY <2>1, <2>2, <2>3
    DEF NormalizeWhatsappMessages, NormalizeWhatsappStatuses, MessageIds, StatusKeys
<1>3. MessagesOf(p) = MessagesOf(q)
  <2>1. ASSUME NEW m
        PROVE  m \in MessagesOf(p) <=> m \in MessagesOf(q)
    BY <1>1, <1>2 DEF Consistent
  <2>2. QED
    BY <2>1
<1>4. StatusesOf(p) = StatusesOf(q)
  <2>1. ASSUME NEW s
        PROVE  s \in StatusesOf(p) <=> s \in StatusesOf(q)
    BY <1>1, <1>2 DEF Consistent
  <2>2. QED
    BY <2>1
<1>5. QED
  BY <1>1, <1>2, <1>3, <1>4 DEF EventKind
=============================================================================
