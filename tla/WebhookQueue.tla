---------------------------- MODULE WebhookQueue ----------------------------
(***************************************************************************)
(* A webhook event from Meta's POST to the end of its processing (main.py, *)
(* repositories/webhook_events.py, queue.py, worker.py).                   *)
(*                                                                         *)
(* The row of webhook_events is the durable state, a Redis list carries    *)
(* its id to the workers, and no transaction spans both.  Every POST is a  *)
(* process, a repeated one of the same event too, and so is every worker.  *)
(* Each step is one transaction or one Redis command.                      *)
(*                                                                         *)
(* Abstractions: signature and JSON checks come before the first step;     *)
(* processing an event is one step here, whatever it does to other tables  *)
(* (see Conversations and Outbox); the delay before a retry is dropped.    *)
(***************************************************************************)
EXTENDS Naturals, Sequences, FiniteSets

CONSTANTS
  Event,         \* provider_event_id: UNIQUE with the tenant and the provider
  Post,          \* calls of POST /webhooks/whatsapp that pass the checks
  EventOf,       \* the event a call brings
  Worker,
  MaxAttempts,   \* MAX_ATTEMPTS
  FaultSets,     \* the combinations of faults to start from
  None

ASSUME WebhookQueueAssumption ==
  /\ EventOf \in [Post -> Event]
  /\ MaxAttempts \in Nat \ {0}
  /\ None \notin Event
  /\ FaultSets \subseteq SUBSET {"crash", "refused", "repeated", "doubtful", "lost"}

VARIABLES
  faults,   \* what may go wrong in this behaviour
  event,    \* webhook_events
  queue,    \* the Redis list
  post,     \* local state of each call
  worker    \* local state of each worker

vars == <<faults, event, queue, post, worker>>
-----------------------------------------------------------------------------
(***************************************************************************)
(* The faults.  A process dies, or loses its database, between two steps;  *)
(* Redis refuses an RPUSH; the client repeats one whose reply it has not   *)
(* seen; it reports one that was carried out as an error; or it does not   *)
(* see the reply to a BLPOP that was carried out.                          *)
(***************************************************************************)
Crashes     == "crash" \in faults
QueueFails  == "refused" \in faults
Resends     == "repeated" \in faults
RepliesLost == "doubtful" \in faults
PopsLost    == "lost" \in faults

\* ABSENT: no row
EventStatus ==
  {"ABSENT", "RECEIVED", "QUEUED", "PROCESSING", "PROCESSED", "IGNORED", "FAILED"}

EventRow == [status : EventStatus, attempts : Nat]

\* claimed: what mark_webhook_queued returned
PostState ==
  [phase   : {"new", "stored", "marked", "failing", "accepted", "refused", "crashed"},
   claimed : BOOLEAN]

\* attempt: event.attempt_count as the worker has read it
WorkerState ==
  [phase   : {"idle", "popped", "claimed", "processing", "failed", "requeued"},
   event   : Event \cup {None},
   attempt : Nat]

Idle == [phase |-> "idle", event |-> None, attempt |-> 0]

Init ==
  /\ faults \in FaultSets
  /\ event = [e \in Event |-> [status |-> "ABSENT", attempts |-> 0]]
  /\ queue = <<>>
  /\ post = [p \in Post |-> [phase |-> "new", claimed |-> FALSE]]
  /\ worker = [w \in Worker |-> Idle]
-----------------------------------------------------------------------------
\* RPUSH
Pushed(e) ==
  \/ queue' = Append(queue, e)
  \/ Resends /\ queue' = queue \o <<e, e>>

PushFailed(e) ==
  \/ QueueFails /\ UNCHANGED queue
  \/ RepliesLost /\ queue' = Append(queue, e)

\* complete_webhook_event: the row is updated whatever its status is.
Completed(e, status) == event' = [event EXCEPT ![e].status = status]
-----------------------------------------------------------------------------
(***************************************************************************)
(* receive_whatsapp_webhook.                                               *)
(***************************************************************************)

\* store_webhook_event: ON CONFLICT DO NOTHING
StoreWebhookEvent(p) ==
  /\ post[p].phase = "new"
  /\ event' = IF event[EventOf[p]].status = "ABSENT"
              THEN [event EXCEPT ![EventOf[p]].status = "RECEIVED"]
              ELSE event
  /\ post' = [post EXCEPT ![p].phase = "stored"]
  /\ UNCHANGED <<faults, queue, worker>>

\* Mutants of Markable: an event is queued again while it is processed; also
\* after that.
UnlessProcessed(e) == event[e].status \notin {"PROCESSED", "IGNORED"}
InAnyStatus(e) == TRUE

\* The WHERE clause of mark_webhook_queued
Markable(e) == event[e].status \in {"RECEIVED", "FAILED"}

MarkWebhookQueued(p) ==
  /\ post[p].phase = "stored"
  /\ Markable(EventOf[p])
  /\ event' = [event EXCEPT ![EventOf[p]].status = "QUEUED"]
  /\ post' = [post EXCEPT ![p] = [phase |-> "marked", claimed |-> TRUE]]
  /\ UNCHANGED <<faults, queue, worker>>

\* The event is queued, in work or done: 200 without another entry.
AcceptDuplicate(p) ==
  /\ post[p].phase = "stored"
  /\ ~Markable(EventOf[p])
  /\ post' = [post EXCEPT ![p].phase = "accepted"]
  /\ UNCHANGED <<faults, event, queue, worker>>

EnqueueWebhookEvent(p) ==
  /\ post[p].phase = "marked"
  /\ Pushed(EventOf[p])
  /\ post' = [post EXCEPT ![p].phase = "accepted"]
  /\ UNCHANGED <<faults, event, worker>>

\* RedisError
EnqueueFails(p) ==
  /\ post[p].phase = "marked"
  /\ PushFailed(EventOf[p])
  /\ post' = [post EXCEPT ![p].phase = "failing"]
  /\ UNCHANGED <<faults, event, worker>>

\* "Queue unavailable": the event is FAILED and the call answers 503.
RefusePost(p) ==
  /\ post[p].phase = "failing"
  /\ Completed(EventOf[p], "FAILED")
  /\ post' = [post EXCEPT ![p].phase = "refused"]
  /\ UNCHANGED <<faults, queue, worker>>

CrashPost(p) ==
  /\ Crashes
  /\ post[p].phase \in {"stored", "marked", "failing"}
  /\ post' = [post EXCEPT ![p].phase = "crashed"]
  /\ UNCHANGED <<faults, event, queue, worker>>
-----------------------------------------------------------------------------
(***************************************************************************)
(* The worker: _process_event and the loop of run.                         *)
(***************************************************************************)

\* BLPOP
DequeueWebhookEvent(w) ==
  /\ worker[w].phase = "idle"
  /\ queue # <<>>
  /\ queue' = Tail(queue)
  /\ worker' = [worker EXCEPT
       ![w] = [Idle EXCEPT !.phase = "popped", !.event = Head(queue)]]
  /\ UNCHANGED <<faults, event, post>>

\* Redis has taken an entry off the list, and no worker sees it: the client
\* repeats the BLPOP, or its time-out passes for an empty queue, or the loop logs
\* the error.
DequeueReplyLost(w) ==
  /\ PopsLost
  /\ worker[w].phase = "idle"
  /\ queue # <<>>
  /\ queue' = Tail(queue)
  /\ UNCHANGED <<faults, event, post, worker>>

\* Mutants of Claimable: the worker trusts the queue; it takes new events only.
UnlessDone(e) == event[e].status \notin {"PROCESSED", "IGNORED"}
FirstAttempt(e) == event[e].status = "QUEUED" /\ event[e].attempts = 0

\* The WHERE clause of claim_webhook_event
Claimable(e) == event[e].status = "QUEUED"

Claimed(row) == [row EXCEPT !.status = "PROCESSING", !.attempts = row.attempts + 1]

ClaimWebhookEvent(w) ==
  LET e == worker[w].event IN
  /\ worker[w].phase = "popped"
  /\ Claimable(e)
  /\ event' = [event EXCEPT ![e] = Claimed(event[e])]
  /\ worker' = [worker EXCEPT ![w].phase = "claimed"]
  /\ UNCHANGED <<faults, queue, post>>

SkipEvent(w) ==
  /\ worker[w].phase = "popped"
  /\ ~Claimable(worker[w].event)
  /\ worker' = [worker EXCEPT ![w] = Idle]
  /\ UNCHANGED <<faults, event, queue, post>>

\* get_webhook_event_for_processing, a transaction of its own
GetWebhookEvent(w) ==
  /\ worker[w].phase = "claimed"
  /\ worker' = [worker EXCEPT
       ![w] = [worker[w] EXCEPT !.phase = "processing",
                                !.attempt = event[worker[w].event].attempts]]
  /\ UNCHANGED <<faults, event, queue, post>>

\* process_whatsapp_webhook returns.
ProcessingEnds(w, status) ==
  /\ worker[w].phase = "processing"
  /\ Completed(worker[w].event, status)
  /\ worker' = [worker EXCEPT ![w] = Idle]
  /\ UNCHANGED <<faults, queue, post>>

\* It raises, after it has stored FAILED or, when the database is lost,
\* without that.
ProcessingFails(w) ==
  /\ worker[w].phase = "processing"
  /\ \/ Completed(worker[w].event, "FAILED")
     \/ Crashes /\ UNCHANGED event
  /\ worker' = [worker EXCEPT ![w].phase = "failed"]
  /\ UNCHANGED <<faults, queue, post>>

\* Mutant of MayRetry: one retry more.
MayRetryOnceMore(w) == worker[w].attempt <= MaxAttempts

MayRetry(w) == worker[w].attempt < MaxAttempts

\* requeue_failed_webhook_event
RequeueFailedWebhookEvent(w) ==
  /\ worker[w].phase = "failed"
  /\ MayRetry(w)
  /\ event[worker[w].event].status = "FAILED"
  /\ event' = [event EXCEPT ![worker[w].event].status = "QUEUED"]
  /\ worker' = [worker EXCEPT ![w].phase = "requeued"]
  /\ UNCHANGED <<faults, queue, post>>

\* The attempts are used up, or the event is not FAILED any more.
GiveUp(w) ==
  /\ worker[w].phase = "failed"
  /\ ~MayRetry(w) \/ event[worker[w].event].status # "FAILED"
  /\ worker' = [worker EXCEPT ![w] = Idle]
  /\ UNCHANGED <<faults, event, queue, post>>

\* A push that fails is logged by the loop, and the event forgotten.
EnqueueAgain(w) ==
  /\ worker[w].phase = "requeued"
  /\ Pushed(worker[w].event) \/ PushFailed(worker[w].event)
  /\ worker' = [worker EXCEPT ![w] = Idle]
  /\ UNCHANGED <<faults, event, post>>

\* The worker dies and starts anew, or the loop catches a database error.
WorkerFails(w) ==
  /\ Crashes
  /\ worker[w].phase # "idle"
  /\ worker' = [worker EXCEPT ![w] = Idle]
  /\ UNCHANGED <<faults, event, queue, post>>
-----------------------------------------------------------------------------
\* What a call does once it has stored the event
PostStep(p) ==
  \/ MarkWebhookQueued(p)
  \/ AcceptDuplicate(p)
  \/ EnqueueWebhookEvent(p)
  \/ EnqueueFails(p)
  \/ RefusePost(p)

WorkerStep(w) ==
  \/ DequeueWebhookEvent(w)
  \/ ClaimWebhookEvent(w)
  \/ SkipEvent(w)
  \/ GetWebhookEvent(w)
  \/ \E status \in {"PROCESSED", "IGNORED"} : ProcessingEnds(w, status)
  \/ ProcessingFails(w)
  \/ RequeueFailedWebhookEvent(w)
  \/ GiveUp(w)
  \/ EnqueueAgain(w)

Next ==
  \/ \E p \in Post : StoreWebhookEvent(p) \/ PostStep(p) \/ CrashPost(p)
  \/ \E w \in Worker : WorkerStep(w) \/ DequeueReplyLost(w) \/ WorkerFails(w)

Spec == Init /\ [][Next]_vars

\* A call that has stored its event goes on, and so does every worker; whether
\* Meta calls is up to Meta.
FairSpec ==
  /\ Spec
  /\ \A p \in Post : WF_vars(PostStep(p))
  /\ \A w \in Worker : WF_vars(WorkerStep(w))
-----------------------------------------------------------------------------
TypeOK ==
  /\ faults \in FaultSets
  /\ event \in [Event -> EventRow]
  /\ queue \in Seq(Event)
  /\ post \in [Post -> PostState]
  /\ worker \in [Worker -> WorkerState]

InWork(w) == worker[w].phase \in {"claimed", "processing"}

\* What the properties below need of Redis: the errors it reports for pushes
\* are true, and it does not both refuse and repeat pushes.
ErrorsAreTrue == ~RepliesLost /\ ~(QueueFails /\ Resends)

ExclusiveClaims ==
  \A w \in Worker :
    InWork(w) =>
      /\ event[worker[w].event].status = "PROCESSING"
      /\ worker[w].phase = "processing" =>
           worker[w].attempt = event[worker[w].event].attempts
      /\ \A v \in Worker \ {w} : InWork(v) => worker[v].event # worker[w].event

\* An event is in the hands of at most one worker, however often it is posted,
\* queued and retried; meanwhile it stays PROCESSING, and the attempt number
\* the worker reads after its claim is the one its claim made.
ClaimIsExclusive == ErrorsAreTrue => ExclusiveClaims

\* The calls that have queued an event
Marks(e) == {p \in Post : EventOf[p] = e /\ post[p].claimed}

\* An event is tried once for every call that queues it, and all its retries
\* together are fewer than MAX_ATTEMPTS, however the calls, several workers
\* and their retries interleave.
AttemptsBounded ==
  ErrorsAreTrue =>
    \A e \in Event :
      event[e].attempts > 0 => event[e].attempts < Cardinality(Marks(e)) + MaxAttempts

\* The documented idempotence of webhooks: an event that was processed or
\* ignored stays so; it is neither processed again nor reported as failed.
ProcessedIsFinal ==
  [][\A e \in Event :
       event[e].status \in {"PROCESSED", "IGNORED"} => event'[e] = event[e]]_vars

\* It holds as long as Redis tells the truth about its errors.
ProcessedIsKept ==
  [][ErrorsAreTrue =>
       \A e \in Event :
         event[e].status \in {"PROCESSED", "IGNORED"} => event'[e] = event[e]]_vars

\* A worker that is not idle has an event.
WorkersHaveEvents ==
  \A w \in Worker : worker[w].phase # "idle" => worker[w].event \in Event

\* The id of the event is on its way to the list, or from there to a claim.
Pushing(p, e)  == EventOf[p] = e /\ post[p].phase \in {"marked", "failing"}
Carrying(w, e) == worker[w].event = e /\ worker[w].phase \in {"popped", "requeued"}
Listed(e) == \E i \in DOMAIN queue : queue[i] = e

\* Without repeated pushes a single call, worker or entry of the list has the
\* event, and only while it is QUEUED.
OneCarrierOf(e) ==
  /\ \A p \in Post : Pushing(p, e) =>
       /\ event[e].status = "QUEUED"
       /\ ~Listed(e)
       /\ \A w \in Worker : ~Carrying(w, e)
       /\ \A q \in Post \ {p} : ~Pushing(q, e)
  /\ \A w \in Worker : Carrying(w, e) =>
       /\ event[e].status = "QUEUED"
       /\ ~Listed(e)
       /\ \A v \in Worker \ {w} : ~Carrying(v, e)
  /\ Listed(e) => event[e].status = "QUEUED"
  /\ \A i, j \in DOMAIN queue : queue[i] = e /\ queue[j] = e => i = j

\* Where pushes are repeated the list may hold an event at any time; no call
\* is then about to report it as failed.
CarriersOK ==
  IF Resends THEN \A p \in Post : post[p].phase # "failing" ELSE \A e \in Event : OneCarrierOf(e)

\* The worker has an attempt at the event, or has had it and may retry.
Trying(w, e) == worker[w].event = e /\ worker[w].phase \in {"claimed", "processing", "failed"}
AttemptOf(w) == IF worker[w].phase = "claimed" THEN event[worker[w].event].attempts
                ELSE worker[w].attempt

\* No attempt is had by two workers, so that it leads to one retry.
AttemptsDistinctOf(e) ==
  \A w \in Worker : Trying(w, e) =>
    /\ AttemptOf(w) \in 1 .. event[e].attempts
    /\ \A v \in Worker \ {w} : Trying(v, e) => AttemptOf(v) # AttemptOf(w)

\* The attempts at e that may still lead to a retry
MayLeadToRetry(e) ==
  {n \in 1 .. MaxAttempts - 1 :
    n > event[e].attempts \/ \E w \in Worker : Trying(w, e) /\ AttemptOf(w) = n}

\* Every attempt made or due was started by a call or by an attempt that can
\* no longer lead to a retry.
AttemptsCountedOf(e) ==
  event[e].attempts + (IF event[e].status = "QUEUED" THEN 1 ELSE 0)
      + Cardinality(MayLeadToRetry(e))
    <= Cardinality(Marks(e)) + MaxAttempts - 1

\* A call queues its event at most once.
CallsMarkOnce ==
  \A p \in Post : post[p].phase \in {"new", "stored"} => ~post[p].claimed

\* The inductive invariant of WebhookQueueProofs: who carries the id of an
\* event to a worker, who works on it, and what started each attempt.
QueueRules ==
  /\ WorkersHaveEvents
  /\ ErrorsAreTrue =>
       /\ ExclusiveClaims
       /\ CarriersOK
       /\ CallsMarkOnce
       /\ \A e \in Event : AttemptsDistinctOf(e) /\ AttemptsCountedOf(e)

QueueInvariant == TypeOK /\ QueueRules

\* An event that is not concluded is in somebody's hands: of a call that will
\* queue it, of one that will push it, in the list, of a worker that will claim
\* or push it, or of one that has it in work.
IsCarried(e) ==
  /\ event[e].status = "RECEIVED" =>
       \E p \in Post : EventOf[p] = e /\ post[p].phase = "stored"
  /\ event[e].status = "QUEUED" =>
       \/ \E p \in Post : EventOf[p] = e /\ post[p].phase = "marked"
       \/ Listed(e)
       \/ \E w \in Worker : Carrying(w, e)
  /\ event[e].status = "PROCESSING" =>
       \E w \in Worker : InWork(w) /\ worker[w].event = e

\* Nothing dies, no push is refused, and workers see what they take off the list.
NothingIsLost == ~Crashes /\ ~QueueFails /\ ~PopsLost

\* Every step that makes an event wait leaves it with the one who goes on with
\* it, even if pushes are repeated or wrongly reported as errors: without
\* crashes, refused pushes and lost replies to BLPOP no row of webhook_events is
\* left that nobody will touch.
UnfinishedIsCarried == NothingIsLost => \A e \in Event : IsCarried(e)

\* No event is forgotten: once stored, it is processed, ignored or FAILED in
\* the end, even if pushes are repeated or wrongly reported as errors, as long
\* as nothing crashes, Redis accepts the pushes and its replies to BLPOP arrive.
EventsConclude ==
  NothingIsLost =>
    \A e \in Event :
      event[e].status \in {"RECEIVED", "QUEUED", "PROCESSING"} ~>
        event[e].status \in {"PROCESSED", "IGNORED", "FAILED"}
=============================================================================
