# Stöll Assist: TLA+ specifications

Stöll Assist answers WhatsApp messages for a tenant. Meta posts webhooks to the
API; a worker stores the messages, plans, drafts and verifies a reply; an
operator reviews it; the API sends it through Meta's Graph API. Operators can
take a conversation over at any time, and the assistant must then be silent.

These modules model the parts of the system whose correctness depends on the
order in which transactions, HTTP calls, Redis commands and crashes happen.
Paths below are relative to `services/api/app/` unless they say otherwise.

## The system

| Component | State | Operations | Module |
|---|---|---|---|
| Webhook ingestion (`main.py`, `repositories/webhook_events.py`, `queue.py`) | `webhook_events.status`, `attempt_count`; a Redis list | store, mark queued, push, fail | `WebhookQueue` |
| Worker (`worker.py`) | the event in its hands | pop, claim, read, process, complete, requeue, push again | `WebhookQueue` |
| Inbound persistence (`repositories/messages.py`) | `contacts`, `conversations`, `messages`; advisory locks | one transaction per webhook | `Conversations` |
| Conversation state machine (`repositories/conversations.py`, `services/conversation_state.py`) | `conversations.state`, `assigned_operator`; `handoffs` | request handoff, take, return, close | `Conversations` |
| Response pipeline (`services/policy_service.py`, `response_planner.py`, `llm_drafting.py`, `response_verifier.py`, `outbound_pipeline.py`) | `policy_evaluations`, `response_plans`, `response_generations`, `response_verifications` | evaluate, plan, draft under a generation lease, verify, stage | `ResponsePipeline` |
| Outbox (`repositories/outbox.py`, `services/whatsapp_sender.py`, `whatsapp_provider.py`) | `outbound_messages`, `outbound_send_attempts`, `outbound_delivery_events` | stage, approve, reject, claim, send, record outcome, record delivery status | `Outbox` |
| Webhook identity and normalization (`webhooks.py`, `normalization.py`) | none | which event a payload is, what is read from it | `WebhookIdentity` |
| Policy rules (`policy_engine.py`, `repositories/policies.py`) | `policy_rules` | the first rule that matches decides | `PolicyRules` |
| Knowledge base (`repositories/knowledge.py`) | `knowledge_items` | import a directory, publish, archive, search | `Knowledge` (`ResponsePipeline` has the published version) |
| Sessions and roles (`auth.py`, `bootstrap_owner.py`, `routers/users.py`) | `users`, `tenant_memberships`, `auth_sessions` | log in, log out, save an account, bootstrap the owner | `Sessions` |
| Operator dashboard (`repositories/operator_dashboard.py`, `apps/dashboard`) | none | queries, forms | not modelled |

How they interact:

- The API and the workers share PostgreSQL rows and a Redis list. No transaction
  spans the two, nor a database write and a call to Meta or to the LLM provider.
- The worker runs the pipeline step by step, each step a transaction of its own:
  a webhook that fails half-way is processed again from the start, on rows that
  the first run has already written.
- The pipeline hands a verified plan to the outbox by inserting a row; from then
  on operators drive it. Meta's delivery statuses come back as webhooks.
- Operators change a conversation's state while all of this is going on.

What makes each component correct:

- *Webhook queue*: an event is in the hands of one worker at a time, is tried a
  bounded number of times, is never processed again once processed, and is not
  forgotten.
- *Conversations*: state and handoff rows agree; a contact has one open
  conversation; a message is in a conversation of its sender; the messages of a webhook
  appear together, and all of them once a delivery ends well; closed
  conversations, resolved handoffs and stored messages do not change.
- *Outbox*: a text is approved only while it is the plan's, and only approved text is sent; a message has one lease holder and one
  outcome; what Meta may still deliver is never recorded as failed; a delivery
  status never goes back; a call that lives loses no answer; a customer gets a message at most once as long as no
  call dies or outlives its lease.
- *Response pipeline*: the provider is called by one worker at a time, and its
  answer is recorded once; the text staged is the text verified; nothing is staged
  for a message the provider hands to a person; no message is left to nobody.
- *Knowledge*: what is published is never rewritten, a key that can be cited
  stays citable, one version of a key is in force, and an import that commits has stored
  what it has read.
- *Sessions*: a session that a log-out has answered for is not used again; saves
  of one account go one at a time.
- *Webhook identity*: a webhook dropped as a duplicate brings nothing new.
- *Policy rules*: no rule after the first that matches has a say.

The hard behaviours, each at its line, are listed under `hazards` in
`PROJECT.json`, with the properties that cover them or the reason why none does.

## Modules

### Outbox, ReviewedSend

`Outbox` follows an outbound message from the review queue to its delivery
statuses. Each row of `outbound_messages` is a record in `outbox`, each call of
`POST /operator/outbox/{id}/send` a process in `request`, and the row of
`outbound_send_attempts` that call inserts is `attempt[r]`. `wire[r]` is what
became of the call's HTTP request as Meta knows it.

A send is three steps, as in `send_approved_outbound`: `ClaimOutboundForSend`
(one transaction), the HTTP call (`ConnectFails`, or `PostMessage`,
`MetaDecides`, `SendTextEnds`), and `MarkOutbound` or `MarkRefused` (another
transaction, guarded by `HoldsLease`, the `WHERE` clause of the three marking
updates). `LeaseExpires` may happen at any time after the claim, `CrashRequest`
at any time after that. An answer tells what Meta decided only when it is a
message id or a 4xx: after a 5xx, an unreadable answer, a time-out or a lost
connection Meta may have accepted the message or not, and may do so later.

Plans, verifications and conversation states are written by other components;
here they change at any time (`UpsertResponsePlan`,
`UpsertResponseVerification`, `TransitionConversation`), which is more than the
pipeline does and all that the review has to withstand.

`ReviewedSend` is what the outbox promises, without leases and processes: the text
staged is the plan's, it is decided about once and approved only while the plan still
says the same, it is not changed afterwards, only approved text is handed over, and at
most one outcome is recorded. `Outbox` implements it under the mapping at the end of
the module.

Left out: tenants other than one, `WHATSAPP_SEND_ENABLED` being off (a guard
before the first step), audit records, timestamps, the body's hash (the body
itself stands for it), the error code in a delivery event's key.

### ConversationStates, Conversations, Inbox

`ConversationStates` holds the transition table; `Conversations` the rows.
`transition_conversation` locks the conversation's row, so a transition with its
handoff rows is one step. `persist_inbound_messages_with_context` is a
transaction of several steps: `SelectConversation` (contact upsert, advisory
lock, `SELECT` without a row lock, perhaps an `INSERT`), `InsertMessage`
(`ON CONFLICT DO NOTHING`), for every message of the batch, then
`CommitPersist`; or `AbortPersist`, or `DetectDeadlock`, PostgreSQL's choice of a
victim. A row written by an uncommitted transaction carries it in `tx` and is
seen by that transaction only. `RowFree` is the wait of `SELECT ... FOR UPDATE`
for the key lock that an uncommitted message holds on its conversation.

`Inbox` is what storing a webhook promises, without transactions, locks or workers: the
messages of a webhook appear all at once, each in a conversation of its sender, and a
conversation is opened for a sender of the webhook who has none open, and for nobody
else. `Conversations` implements it under a mapping that sees committed rows only:
`CommitPersist` is the delivery, a transition of the state machine the same transition,
and everything else stutters. A repeated delivery may open a conversation that stays
empty (see below); that is a behaviour of `Inbox` too.

Left out: notes, timestamps, the version counter, `last_message_at` (an open
conversation is the only one of its contact, so the order it gives is never
used), audit records.

### WebhookQueue

Each call of the webhook endpoint is a process in `post`, each worker one in
`worker`; `event` is the table, `queue` the Redis list. A step is one
transaction or one Redis command. The call: `StoreWebhookEvent`,
`MarkWebhookQueued` or `AcceptDuplicate`, `EnqueueWebhookEvent`, or
`EnqueueFails` and `RefusePost`. The worker: `DequeueWebhookEvent` (or
`DequeueReplyLost`, below), `ClaimWebhookEvent` or `SkipEvent`, `GetWebhookEvent`, `ProcessingEnds` or
`ProcessingFails`, then `GiveUp`, or `RequeueFailedWebhookEvent` and
`EnqueueAgain`.

`faults` is chosen in the initial state and says what may go wrong: processes
die or lose their database between any two steps (`crash`); Redis refuses a push
(`refused`); the client repeats a push whose reply it has not seen (`repeated`,
what redis-py 6 does by default; `pyproject.toml` asks for 5.2 or later); a push
that was carried out is reported as an error (`doubtful`); a `BLPOP` is carried out and
its reply is lost (`lost`): `dequeue_webhook_event` takes the time-out for an empty
queue, or redis-py 6 sends the command again, which is this step followed by another
pop. Either way the popped id is gone.

The properties of exclusive and bounded processing are stated under
`ErrorsAreTrue`: no wrong error reports, and pushes that are refused or repeated but
not both. Finding 3 says what happens otherwise. `UnfinishedIsCarried` and
`EventsConclude` are stated for behaviours in which nothing dies, no push is refused and
no popped id is lost (`NothingIsLost`), doubtful or repeated as the pushes may be: each
of the three leaves an event `QUEUED` that no list holds, and the code has no sweeper.

The events of the runs are the identities that `WebhookIdentity` gives to payloads
which bring the same messages and statuses in different batches.

Left out: signature and JSON checks, the delay before a retry, graceful
shutdown, what processing does to other tables.

### WebhookIdentity

Operators without state: `Identity` and `EventKind` are
`extract_whatsapp_event_identity`, `NormalizeWhatsappMessages` and
`NormalizeWhatsappStatuses` what processing reads from the same payload. The two
disagree about what counts (the identity takes ids from changes of every field and
from messages without a sender), so the theorem names what Meta is taken to send:
`Complete` payloads, and one message by an id (`Consistent`).

Left out: the text of a message, its type, its error; the hash, taken to be
injective.

### ResponsePipeline

One message and the passes that process it: policy, planner, drafting, verifier,
staging, as `process_whatsapp_webhook` calls them. A second pass is a retry of the
webhook or another webhook that brings the same message (`include_existing`). Each
step is one transaction, or the provider's call: what a pass has read is in `pass[p]`
while others change the rows, which are one per message (`plan`, `generation`,
`verification`, `outbound`). `ClaimResponseGeneration`, `GenerationExists`,
`ProviderAnswers` and `FinishResponseGenerationClaim` are the generation's lease:
`Claimable` is what its `INSERT` and `UPDATE` test, `HoldsGeneration` the `WHERE` clause
of the finish, `AfterGeneration` what `_apply_existing_generation` does about the row it
is given, whoever's answer that holds. `TransitionConversation` and
`PublishKnowledgeItem` are the operators, at any time.

`faults` says what may go wrong, alone or together: a pass fails between any two steps
(`failure`), a call outlasts its lease (`slow`), passes overlap (`overlap`).

Texts are model values. What the policy's rules and the planner's word lists find in
the message is `setup`; what the verifier's textual checks find in a text is
`Supported` and `Proper`. `verification.judged` is not stored by the code: it remembers
which text the verdict is about, for the properties. The planner finds one knowledge
item, whose published version is replaced at any time and which is never withdrawn:
that a key in force stays in force is what `Knowledge` is shown to implement
(`ImplementsApprovedKnowledge`). So the keys a recorded generation names stay available,
and `validate_drafting_output` does not fail when one is used again. What the policy
decides about the run's messages is computed by `PolicyRules`.

Left out: policy and audit records, knowledge ids, the drafting provider's history and
prompt, `outbound_mode = DISABLED`, a second message in the same webhook (a failure of
one message ends the pass of both).

### PolicyRules

`EvaluateText` is `evaluate_text` over the rows `list_policy_rules` returns: the
enabled rules that match, the first by priority and then by key. A text is the set of
terms and patterns that occur in it; accents, case and the search for substrings and
regular expressions are what makes them occur. `match_mode` `all` compares how many
entries of the rule were found with how many there are: an entry given twice is found
and counted twice, which the set of entries does not change; a blank term is counted
and never found, so it is an entry that occurs in no text, and so is a list that is
none (its length is counted). The `UNIQUE` constraint on keys is what
makes the order total, and a hypothesis of the theorems.

### Knowledge, ApprovedKnowledge

`publication[p]` is a call of `publish_knowledge_item`, `import[i]` one of
`import_knowledge_directory`; `item[k][v]` is a row as it is committed (`now`), as the
transaction that has locked it has made it (`next`), and that transaction (`owner`).
PostgreSQL runs these transactions under READ COMMITTED, so a statement that chooses
rows and then waits for their locks is two steps: `SelectItem`, then `LockItem`, which
also starts the archiving statement and fixes the rows it will visit; `ArchiveItem` for
each, which looks at the row again once it has it; `PublishItem` with the commit. An
import goes file by file: `SelectLatest` (`ORDER BY version DESC LIMIT 1`), `LockLatest`
(`_upsert_draft`'s comparison, its update of a draft, or the version to insert),
`InsertDraft` or `InsertFails` (the `UNIQUE` constraint), and one `CommitImport` for all
files. Either may be rolled back anywhere, which is also what ends a deadlock.

`ApprovedKnowledge` is what readers are promised: a version enters by a publication
only, with the text it had if it was ever in force, and a version leaves only when
another one of its key enters. `Knowledge` implements it under a mapping that sees
committed rows only. That holds for all interleavings.

`serial` is chosen in the initial state. The archiving statement does not see a version
that another publication of the key has published but not committed when it starts, and
there is no partial unique index: two overlapping publications of different versions
leave both in force. `OnePublishedVersion` is therefore stated for behaviours
in which publications of one key do not overlap, while imports may overlap with
everything.

Left out: `approved_by`, metadata, search logs, ranking, audit records.

### Sessions

`account[e]` is a user with the membership, `session[s]` a log-in with its row of
`auth_sessions`, `request[r]` a request with a session cookie. The FastAPI dependencies
are transactions of their own, so a request goes through `LoadSession` and
`TouchSession` (the `SELECT` of `load_session_context`, and its `UPDATE` of
`last_seen_at`, which may wait for a log-out that has the row), `CheckCsrf` (`session_has_csrf`, for a change), and then its
handler: `Logout`, `LogoutAll` and `RevokeAll` (the `UPDATE` chooses its rows, then has
their locks), `CreateUser`, or `Serve` for any other. `FindUser`, `LockUser`,
`InsertUser`, `CommitSave` and `FailSave` are `create_or_update_tenant_user`, called by
`CreateUser` and by `BootstrapOwner`, the script that gives a tenant its first owner.

`ClosedForGood` is about what the look-ups find: a request whose `SELECT` came before
the log-out may pass `load_session_context` after it. The bootstrap script reads the
owners in a transaction before the one that writes, so overlapping saves can leave two
owners; no property speaks of it.

Left out: password hashes and tokens (a wrong one is a refused request),
the value of `last_seen_at`, names, other tenants, the disabling of a user, for which the
code has no operation.

## Runs

| Run | Question | Instance |
|---|---|---|
| `outbox_send` | Do leases, attempts and outcomes stay consistent when calls die, are slow and are repeated? Does every call that lives store its answer? Is `ReviewedSend` implemented? | one message, three calls, crashes, leases that expire at any time |
| `outbox_review` | Is anything approved that is no longer the plan's, or sent that was not approved? Is a message delivered once if calls are punctual, and does each record its outcome? | one message, two texts, three outbound modes, two calls |
| `outbox_takeover` | Is the assistant silent once an operator has taken the conversation? **No.** | one message, one call |
| `conversations` | Do states and handoffs agree? Is what is committed what `Inbox` says, and is all of a webhook stored once its delivery ends? Can deliveries wait for each other for ever? | two webhooks that bring two contacts' messages in opposite orders, four conversations, two handoffs, two operators |
| `conversations_closed` | Does a closed conversation receive messages? **Yes.** | two messages of one contact |
| `webhook` | Is processing exclusive, bounded and final when processes die, Redis refuses or repeats pushes and replies to pops are lost? Is an event with somebody, and concluded, if none of this but repeated or doubtful pushes happens? | one event posted three times in different batches, two workers, three attempts |
| `webhook_doubt` | Is processing still final when a push is wrongly reported as an error? **No.** | one post, one worker |
| `pipeline` | Is one answer of the provider recorded, and only verified text staged? Does a pass leave its message to somebody, and is it settled? | two passes, six settings, all combinations of faults, a safe and a risky version |
| `pipeline_staged` | Is the staged text verified when passes overlap? **No.** | two passes, two low-risk versions |
| `pipeline_handoff` | Does every `HANDOFF` plan reach a person? **No.** | one pass without faults |
| `knowledge` | Does what readers find change only as `ApprovedKnowledge` says? Is one version of a key in force? Does an import store what it has read? | two keys, three versions, three imports of a changing directory, four publications |
| `sessions` | Is a session used again after a log-out? Do saves of one e-mail go one at a time? | two people, two log-ins, two requests, two bootstraps |

### Bounds

No counter is capped: the number of calls, deliveries, posts and handoffs bounds
every run.

- *Three send calls* are what it takes for a lease to be lost twice, so that a
  late answer meets a message that has been taken over and concluded by others.
  One message is enough because no action relates two rows of the outbox.
- `outbox_send` has the constraint `SourcesSettled`: once a message is claimed,
  its plan, verification and conversation change no more. No send step reads
  them, so no behaviour of the send protocol is lost; `outbox_review` has no
  such constraint.
- *Two deliveries that bring the same two messages in opposite orders* meet every
  case of the persistence: both contact locks taken in both orders, a message that
  is already stored, and a conversation the other delivery has just created.
- *Four conversations* let two contacts have a closed one and a new one each;
  two handoffs let automation be suspended again after a return. Without a spare
  id the corresponding operation is disabled, which only ends a behaviour early.
- *Three posts and two workers* let an event be queued again by a repeated post
  while one worker retries it and another has it in work.
- *Two passes* are what it takes to take over a lease, to answer late, to find the rows
  of a failed pass and to change rows under another. The safe version is supported by
  itself, the risky one is refused by planner and verifier; the provider may write a
  sound text, an unsound one or none. A version that fails its own verification
  (`priced`) is added where the violation needs one. Six settings meet every decision
  of the policy, with and without a request for a project and a drafting provider.
- *Three versions and three imports* (a directory with two files of one key and one of
  another between them; then a file that says `t2`; then one that says `t1`)
  let an import rewrite its own draft, a draft be rewritten before, while and after it is
  published, and a version be inserted twice; *four publications* let two versions replace each other while a third
  is waited for. `MaxVersion` is the only bound on a counter: an import that needs a
  fourth version can only be aborted.
- *Two requests and two log-ins* let a log-out of all sessions run while the other
  session is used or being opened. Two people and two bootstraps let a save overlap
  with a bootstrap for the same or for another address.
- Symmetry is used for interchangeable calls, texts and ids, and only in
  runs without liveness properties.

`CHECK_DEADLOCK FALSE` is set where the system stops: when all deliveries are over
and all conversations closed, or all posts answered and the list empty.

### Fairness

- `Outbox!FairSpec`: a call that holds a claim goes on. `send_text` has a
  time-out, so that it ends, if only with an uncertain answer. Nothing is assumed
  of operators or of Meta.
- `Conversations!FairSpec`: a transaction in progress goes on, and PostgreSQL
  resolves a deadlock. Nothing is assumed of operators or of deliveries starting.
- `WebhookQueue!FairSpec`: a call that has stored its event goes on, and a worker's
  loop does too. Nothing is assumed of Meta posting again.
- `ResponsePipeline!FairSpec`: a pass goes on, since the provider's call has a time-out.
  Nothing is assumed of further passes, of operators, or of a lease running out.

## Where the code and its documents differ

1. `outbox_takeover`: the claim for sending does not look at the conversation, so
   a message approved earlier is sent after a take-over (README.md:211, ADR-002).
2. `conversations_closed`: the open conversation is selected without a row lock, so
   a message can be inserted into one that was closed meanwhile (README.md:212).
3. `webhook_doubt`: when Redis reports an error for a push it carried out, the API
   overwrites whatever the worker has made of the event with `FAILED`, and the
   503 it answers has the event processed again (README.md:183).
   The same happens, without a wrong report, when one push is repeated by the
   client and a later one refused: the entry left over lets a worker claim the
   event whose own push has failed. This is why `webhook` does not combine the
   two faults.
4. `pipeline_staged`: staging takes the text from the plan as it is then and asks only
   whether some verification of it is `APPROVED`. If two workers have the same message,
   one rewrites the plan between the other's verification and its staging
   (README.md:296). The operator's approval compares the staged text with the same plan
   and does not notice. Passes that follow each other, as the retries of one event do,
   are safe: `VerifiedIfAlone`.
5. `pipeline_handoff`: a plan that decides `HANDOFF` because the knowledge is missing or
   not of low risk is recorded and skipped; no handoff is requested (README.md:9,
   `services/response_planner.py:178`).

Two more things the models show, which no document speaks about, are listed as hazards
without a property: a delivery repeated after its conversation was closed leaves a new,
empty conversation; and a pass that dies inside the provider's call is retried before
its lease has run out, so that the retry defers to a generation nobody will finish.

## Proofs

Every safety property of the passing runs is a theorem, and so is every refinement. Each
`...Invariant` that a run checks has the type invariant as its first conjunct.

`OutboxProofs` proves, for any number of messages, calls, texts and conversations,
with crashes and leases that expire at any time unless stated otherwise:

- `TypeCorrect`, the type invariant;
- `SendInvariantHolds`: `SendInvariant` is inductive. The
  properties alone are not: that a late call cannot record its outcome needs that
  attempts are numbered without repetition, that the lease is the newest
  attempt's, and that a call's local state, its attempt and the state of its
  request agree (`CallConsistent`), and that approval comes before the first
  attempt (`RowConsistent`);
- from it `AttemptsAreNumbered`, `OnlyNewestConcludes`, `NewestHoldsLease`,
  `NothingUnapprovedPosted`, `SentMeansAccepted`, `FailedMeansNotAccepted`, and the
  action property `FinalDecisions`;
- `AnswersAreNotLost`: a call that ended without dying has stored its outcome, or a newer
  attempt has taken the message over (from `SendInvariant`: the lease a live call loses is
  lost to a newer attempt only);
- `FurthestReportWins`: the delivery status is the furthest one reported for the message's
  provider id. What it needs besides is that an event kept is one of the message that has
  its id (`EventsOfMessages`), and that two messages never get one id, so that
  `mark_outbound_sent` finds no events of a message before it has the id;
- `Refinement`: every step of `Outbox` is a step of `ReviewedSend` or a stutter. With
  the approval that asks whether the plan still has the staged text, this is what no
  invariant says: the plan may change again later, and the text may not;
- `NoDuplicateDelivery`: if no call dies and none outlives its lease, Meta accepts
  a message at most once. Its invariant is that a message has a single claim.

`ConversationsProofs` proves, for any number of contacts, conversations, webhooks,
deliveries and operators, with deliveries that die and deadlocks:

- `TypeCorrect`, the type invariant;
- `PersistInvariantHolds`: `PersistInvariant` is inductive. It
  is the bookkeeping of PostgreSQL's transactions that the code relies on: locks
  are exclusive and end with their transaction (`LocksExclusive`), whatever is
  uncommitted belongs to a contact whose lock is held (`UncommittedIsLocked`), the
  conversation chosen for a message is still one of its sender when the message is
  inserted (`ChosenIsLocked`), and handoffs belong to committed conversations
  (`RowsConsistent`);
- from it `OneOpenConversationHolds` (a conversation of the contact which the
  transaction does not see would be that of a holder of the contact's lock),
  `MessageOfItsContactHolds`, `HandoffMatchesStateHolds` (an uncommitted conversation is
  automated and has no handoff, so a rollback leaves none behind), and the action
  property `HistoryKept`;
- `NoMessageIsLost`: a delivery that has ended well has all its messages stored for
  everybody, with `PrefixStored`, what it has gone past. `ON CONFLICT DO NOTHING` passes
  over a message another delivery has inserted, which would be lost if that one rolled
  back: it cannot, since it would still hold the lock on the contact;
- `DeliveryIsAtomic`: every step of `Conversations` is a step of `Inbox` or a stutter. The
  commit is a step of `Inbox` because of the four theorems above and of `TouchesItsBatch`:
  a delivery locks and writes for senders of its own webhook only.

`WebhookQueueProofs` proves, for any number of events and workers, finitely many
calls and any `MAX_ATTEMPTS`, with crashes, and with pushes that are refused or
repeated but not both (`ErrorsAreTrue`, which also excludes wrong error reports; the
type invariant and `NoEventIsLeft` do not need it):

- `TypeCorrect`, the type invariant, with the fact that a worker that is not idle has
  an event;
- `QueueInvariantHolds`: `QueueInvariant` is inductive. Exclusive
  processing is not inductive alone, because a call that reports a failed push
  overwrites the status: the invariant says who carries the id of an event (a call
  that has not pushed it, an entry of the list, a worker before its claim or before
  its second push), and that there is one of them at most, and only while the event is
  `QUEUED`. Where pushes are repeated there may be more, but no call reports a
  failure then;
- from it `ClaimExclusive`, the action property `ProcessedStays`, and
  `BoundedAttempts`. For the last one the invariant counts: the attempts made, the one
  that is due, and the attempts that may still lead to a retry
  (`MayLeadToRetry`) are together no more than the calls that queued the event plus
  `MAX_ATTEMPTS - 1`. Attempts are numbered without repetition, so that each leads to
  one retry at most, although the number is read in a later transaction;
- `NoEventIsLeft`: without crashes, refused pushes and lost replies to pops, an event
  that is not concluded is with somebody who goes on with it (`IsCarried`), even if pushes are repeated or wrongly
  reported. This is inductive with the types alone; with the fairness of the calls and
  workers it is why `EventsConclude` holds.

`ResponsePipelineProofs` proves, for any number of passes, any texts, verdicts and
settings, and every combination of faults unless the property names one:

- `TypeCorrect`, the type invariant;
- `PipelineInvariantHolds`: `PipelineInvariant` is inductive. Its
  first half, `DraftingInvariant`, adds to the properties that the owner of a
  generation in progress is still calling, or has failed, and that only the latter's
  lease runs out unless calls are slow (`HolderIsCalling`), that a recorded answer is
  its owner's (`ConcludedByItsOwner`), and what a pass that will stage relies on
  (`ReliesOnGeneration`): once past the generation it must never meet one that is in
  progress again or was handed to a person. The second half, `StagingInvariant`, says
  that without overlaps plan and verification are those of the pass that runs, also
  after a pass that failed half-way;
- from it `LeaseHolderCallsHolds`, `ResultOfLastClaimHolds`, `StagedAfterGenerationHolds`,
  and the action properties `GenerationStays` and `VerifiedAlone`;
- `MessageLeftToSomebody`: a pass that does not fail ends with the message verified, with a
  person, or with a generation whose owner is still calling. It needs `HolderIsCalling`,
  and `RecordedBeforeStaging`: what a pass stages has a verification.

`KnowledgeProofs` proves, for any keys, texts, files, imports and publications:

- `TypeCorrect`, the type invariant;
- `KnowledgeInvariantHolds`: `KnowledgeInvariant` is inductive.
  What it adds to `OnePublishedVersion` is what row locks protect: a publication at
  work has locked its row (`PublicationsLock`), an import knows a version that exists
  (`ImportsSelect`), an uncommitted change is one of those a call may make, and invisible
  (`ChangesAllowed`), and a publication without rivals has archived or will visit every
  other version in force (`RestIsInForce`);
- from it `OnePublishedHolds`;
- `ImportStored`: the commit of an import stores every file it has read. Its invariant
  (`ReadIsLocked`) is that each of them is, as the import saw, rewrote or inserted it, in a
  row the import has locked, or was replaced by a later file of the same key: a
  publication cannot change the text behind its back;
- `Refinement`: every step of `Knowledge` is a step of `ApprovedKnowledge` or a stutter.

`SessionsProofs` proves, for any people, log-ins, requests and bootstraps:

- `SessionsInvariantHolds`: types; a save that found, locked or inserted its row still
  has it (`SaversLock`); sessions in use are open and belong to an account; what a
  log-out answered for is revoked (`ClosedAreRevoked`);
- from it the action property `ClosedSessionsStayClosed`.

`WebhookIdentity` proves `DuplicateBringsNothing` for any payloads, and `PolicyRules`
that rules added behind a list do not change what it decides about a text that it
matches (`LaterRulesDoNotDecide`), for any rules and texts.

The only assumptions are the modules' ASSUMEs on their constants
(`OutboxAssumption`, `ConversationsAssumption`, `WebhookQueueAssumption`,
`ResponsePipelineAssumption`, `KnowledgeAssumption`, `SessionsAssumption`,
`PolicyRulesAssumption`), which TLC evaluates in the runs, and the hypotheses the
theorems state.

Only model-checked: the liveness properties (`ClaimedCallConcludes`, `DeliveriesEnd`,
`EventsConclude`, `MessageSettled`), which rest on fairness and ENABLED, out of this
prover's reach. `AnswersAreNotLost`, `NoMessageIsLost`, `NoEventIsLeft` and
`MessageLeftToSomebody` are their safety halves: whoever ends has done what he promised,
and whatever is unfinished is somebody's.

## Plan

Done, with their proofs: 1. `Outbox`, 2. `Conversations`, 3. `WebhookQueue`,
4. `ResponsePipeline`, 5. `Knowledge` and `Sessions`, 6. `WebhookIdentity` and
`PolicyRules`.

7. A composition of `WebhookQueue` with `Conversations`: processing an event twice
   stores its messages once. Both ends are there: `Inbox` and `HistoryIsKept` hold when
   any number of deliveries bring the same messages, which is all that the queue may ask
   of the persistence.
8. The planner's decision order against a reference definition, as for the policy.

Theorems to come: an abstract specification of an event's life for `WebhookQueue`, and
its refinement; that the recorded answer of the provider is the last claim's as a
refinement of `ResponsePipeline`.

## What the models show besides

Nothing in the repository promises the following, so no property is stated; each is a
behaviour of the code that a reader of the models should know:

- A session whose user loses the membership is refused, and works again if the
  membership is made active again before it expires: only log-outs revoke.
- The role a handler checks is the one `load_session_context` has read; a role
  withdrawn between that and the handler's transaction still counts for this request.
- A log-in whose row is not committed when the log-out of all sessions chooses its
  rows stays open.
- The only owner can be given another role; the next bootstrap then makes a new one.
- A bootstrap that overlaps with another save can give a tenant a second owner.
- An event whose id was popped by a `BLPOP` with a lost reply stays `QUEUED`; a repeated
  post of it is accepted as a duplicate.
- Two overlapping publications of a key leave two versions in force, until the next
  publication archives one of them or both.
- A delivery status whose message has not got its provider id yet matches no row and
  its webhook is not tried again.

## Not modelled

- *Dashboard and its queries* (`apps/dashboard`, `repositories/operator_dashboard.py`):
  no state of their own; the queries only read what the modelled operations write.
- *Message contents* (`normalization.py` from line 123): parsing of one message; what
  becomes of it is `detail` in `WebhookIdentity`.
- *Signature check and OpenAI client*: one request's hashing and I/O; the client's
  outcomes are those of `ProviderAnswers`.
- *Request and response schemas, configuration, scripts*: validation and wiring.
- *Migrations*: covered only as the constraints they leave on the modelled tables.
