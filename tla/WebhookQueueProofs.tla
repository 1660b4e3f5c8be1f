------------------------- MODULE WebhookQueueProofs -------------------------
(***************************************************************************)
(* Proofs about WebhookQueue, for any number of events, calls and workers  *)
(* and any MAX_ATTEMPTS.                                                   *)
(***************************************************************************)
EXTENDS WebhookQueue, FiniteSetTheorems, SequenceTheorems, TLAPS

\* What is left of the list when its head is taken
LEMMA TailRows ==
  ASSUME NEW q \in Seq(Event), q # <<>>
  PROVE  /\ Head(q) \in Event
         /\ Head(q) = q[1]
         /\ 1 \in DOMAIN q
         /\ Tail(q) \in Seq(Event)
         /\ \A i \in DOMAIN Tail(q) : i + 1 \in DOMAIN q /\ Tail(q)[i] = q[i + 1]
OBVIOUS

LEMMA AppendRows ==
  ASSUME NEW q \in Seq(Event), NEW e \in Event
  PROVE  /\ Append(q, e) \in Seq(Event)
         /\ DOMAIN Append(q, e) = DOMAIN q \cup {Len(q) + 1}
         /\ Len(q) + 1 \notin DOMAIN q
         /\ Append(q, e)[Len(q) + 1] = e
         /\ \A i \in DOMAIN q : Append(q, e)[i] = q[i]
OBVIOUS

-----------------------------------------------------------------------------
(***************************************************************************)
(* Type correctness.                                                       *)
(***************************************************************************)

LEMMA TypeInit == Init => TypeOK
BY WebhookQueueAssumption DEF Init, TypeOK, EventRow, EventStatus, PostState, WorkerState, Idle

\* Whatever a push does, the list keeps its type.
LEMMA PushType ==
  ASSUME TypeOK, NEW e \in Event, Pushed(e) \/ PushFailed(e)
  PROVE  queue' \in Seq(Event)
<1>1. queue \in Seq(Event)
  BY DEF TypeOK
<1>2. queue' \in {queue, Append(queue, e), queue \o <<e, e>>}
  BY DEF Pushed, PushFailed
<1>3. <<e, e>> \in Seq(Event)
  OBVIOUS
<1>4. queue \o <<e, e>> \in Seq(Event)
  BY <1>1, <1>3, ConcatProperties
<1>5. Append(queue, e) \in Seq(Event)
  BY <1>1, AppendRows
<1>6. QED
  BY <1>1, <1>2, <1>4, <1>5

LEMMA CompletedType ==
  ASSUME TypeOK, NEW e \in Event, NEW status \in EventStatus, Completed(e, status)
  PROVE  event' \in [Event -> EventRow]
BY DEF TypeOK, Completed, EventRow

LEMMA PostStepType ==
  ASSUME TypeOK, NEW p \in Post,
         StoreWebhookEvent(p) \/ PostStep(p) \/ CrashPost(p)
  PROVE  TypeOK'
<1>e. EventOf[p] \in Event
  BY WebhookQueueAssumption
<1>p. ASSUME NEW phase \in {"new", "stored", "marked", "failing", "accepted", "refused", "crashed"},
             post' = [post EXCEPT ![p].phase = phase]
      PROVE  post' \in [Post -> PostState]
  BY <1>p DEF TypeOK, PostState
<1>1. CASE StoreWebhookEvent(p)
  BY <1>1, <1>e, <1>p DEF StoreWebhookEvent, TypeOK, EventRow, EventStatus
<1>2. CASE MarkWebhookQueued(p)
  BY <1>2, <1>e DEF MarkWebhookQueued, TypeOK, EventRow, EventStatus, PostState
<1>3. CASE AcceptDuplicate(p)
  BY <1>3, <1>p DEF AcceptDuplicate, TypeOK
<1>4. CASE EnqueueWebhookEvent(p)
  BY <1>4, <1>e, <1>p, PushType DEF EnqueueWebhookEvent, TypeOK
<1>5. CASE EnqueueFails(p)
  BY <1>5, <1>e, <1>p, PushType DEF EnqueueFails, TypeOK
<1>6. CASE RefusePost(p)
  <2>1. event' \in [Event -> EventRow]
    BY <1>6, <1>e, CompletedType DEF RefusePost, EventStatus
  <2>2. QED
    BY <1>6, <1>p, <2>1 DEF RefusePost, TypeOK
<1>7. CASE CrashPost(p)
  BY <1>7, <1>p DEF CrashPost, TypeOK
<1>8. QED
  BY <1>1, <1>2, <1>3, <1>4, <1>5, <1>6, <1>7 DEF PostStep

LEMMA WorkerStepType ==
  ASSUME TypeOK, WorkersHaveEvents, NEW w \in Worker,
         WorkerStep(w) \/ DequeueReplyLost(w) \/ WorkerFails(w)
  PROVE  TypeOK' /\ WorkersHaveEvents'
<1>e. worker[w].phase # "idle" => worker[w].event \in Event
  BY DEF WorkersHaveEvents
<1>w. /\ worker \in [Worker -> WorkerState]
      /\ \A v \in Worker : worker[v].phase # "idle" => worker[v].event \in Event
  BY DEF TypeOK, WorkersHaveEvents
<1>i. ASSUME worker' = [worker EXCEPT ![w] = Idle]
      PROVE  worker' \in [Worker -> WorkerState] /\ WorkersHaveEvents'
  BY <1>i, <1>w DEF Idle, WorkerState, WorkersHaveEvents
<1>p. ASSUME NEW phase \in {"claimed", "failed", "requeued"}, worker[w].phase # "idle",
             worker' = [worker EXCEPT ![w].phase = phase]
      PROVE  worker' \in [Worker -> WorkerState] /\ WorkersHaveEvents'
  BY <1>p, <1>w DEF WorkerState, WorkersHaveEvents
<1>1. CASE DequeueWebhookEvent(w)
  <2>1. Head(queue) \in Event /\ queue' \in Seq(Event)
    BY <1>1, TailRows DEF DequeueWebhookEvent, TypeOK
  <2>2. [Idle EXCEPT !.phase = "popped", !.event = Head(queue)] \in WorkerState
    BY <2>1 DEF Idle, WorkerState
  <2>5. /\ worker'[w] = [Idle EXCEPT !.phase = "popped", !.event = Head(queue)]
        /\ worker' \in [Worker -> WorkerState]
        /\ \A v \in Worker \ {w} : worker'[v] = worker[v]
    BY <1>1, <1>w, <2>2 DEF DequeueWebhookEvent
  <2>6. worker'[w].event = Head(queue)
    BY <2>5 DEF Idle
  <2>3. worker' \in [Worker -> WorkerState] /\ WorkersHaveEvents'
    BY <1>w, <2>1, <2>5, <2>6 DEF WorkersHaveEvents
  <2>4. QED
    BY <1>1, <2>1, <2>3 DEF DequeueWebhookEvent, TypeOK
<1>2. CASE ClaimWebhookEvent(w)
  <2>1. event[worker[w].event] \in EventRow
    BY <1>2, <1>e DEF ClaimWebhookEvent, TypeOK
  <2>2. Claimed(event[worker[w].event]) \in EventRow
    <3>1. PICK n \in Nat : n = event[worker[w].event].attempts + 1
      BY <2>1 DEF EventRow
    <3>2. [event[worker[w].event] EXCEPT !.status = "PROCESSING", !.attempts = n] \in EventRow
      BY <2>1 DEF EventRow, EventStatus
    <3>3. QED
      BY <3>1, <3>2 DEF Claimed
  <2>3. worker' \in [Worker -> WorkerState] /\ WorkersHaveEvents'
    BY <1>2, <1>p DEF ClaimWebhookEvent
  <2>4. QED
    BY <1>2, <2>2, <2>3 DEF ClaimWebhookEvent, TypeOK
<1>3. CASE SkipEvent(w)
  BY <1>3, <1>i DEF SkipEvent, TypeOK
<1>4. CASE GetWebhookEvent(w)
  <2>1. event[worker[w].event].attempts \in Nat
    BY <1>4, <1>e DEF GetWebhookEvent, TypeOK, EventRow
  <2>2. worker' \in [Worker -> WorkerState] /\ WorkersHaveEvents'
    BY <1>4, <1>w, <2>1 DEF GetWebhookEvent, WorkerState, WorkersHaveEvents
  <2>3. QED
    BY <1>4, <2>2 DEF GetWebhookEvent, TypeOK
<1>5. ASSUME NEW status \in {"PROCESSED", "IGNORED"}, ProcessingEnds(w, status)
      PROVE  TypeOK' /\ WorkersHaveEvents'
  <2>1. event' \in [Event -> EventRow]
    BY <1>5, <1>e, CompletedType DEF ProcessingEnds, EventStatus
  <2>2. QED
    BY <1>5, <1>i, <2>1 DEF ProcessingEnds, TypeOK
<1>6. CASE ProcessingFails(w)
  <2>1. event' \in [Event -> EventRow]
    BY <1>6, <1>e, CompletedType DEF ProcessingFails, EventStatus, TypeOK
  <2>2. worker' \in [Worker -> WorkerState] /\ WorkersHaveEvents'
    BY <1>6, <1>p DEF ProcessingFails
  <2>3. QED
    BY <1>6, <2>1, <2>2 DEF ProcessingFails, TypeOK
<1>7. CASE RequeueFailedWebhookEvent(w)
  <2>1. event' \in [Event -> EventRow]
    BY <1>7 DEF RequeueFailedWebhookEvent, TypeOK, EventRow, EventStatus
  <2>2. worker' \in [Worker -> WorkerState] /\ WorkersHaveEvents'
    BY <1>7, <1>p DEF RequeueFailedWebhookEvent
  <2>3. QED
    BY <1>7, <2>1, <2>2 DEF RequeueFailedWebhookEvent, TypeOK
<1>8. CASE GiveUp(w)
  BY <1>8, <1>i DEF GiveUp, TypeOK
<1>9. CASE EnqueueAgain(w)
  <2>1. queue' \in Seq(Event)
    BY <1>9, <1>e, PushType DEF EnqueueAgain
  <2>2. QED
    BY <1>9, <1>i, <2>1 DEF EnqueueAgain, TypeOK
<1>10. CASE WorkerFails(w)
  BY <1>10, <1>i DEF WorkerFails, TypeOK
<1>11. CASE DequeueReplyLost(w)
  BY <1>11, TailRows DEF DequeueReplyLost, TypeOK, WorkersHaveEvents
<1>12. QED
  BY <1>1, <1>2, <1>3, <1>4, <1>5, <1>6, <1>7, <1>8, <1>9, <1>10, <1>11 DEF WorkerStep

LEMMA TypeStep ==
  TypeOK /\ WorkersHaveEvents /\ [Next]_vars => TypeOK' /\ WorkersHaveEvents'
<1> SUFFICES ASSUME TypeOK, WorkersHaveEvents, [Next]_vars
             PROVE  TypeOK' /\ WorkersHaveEvents'
  OBVIOUS
<1>1. ASSUME NEW p \in Post, StoreWebhookEvent(p) \/ PostStep(p) \/ CrashPost(p)
      PROVE  TypeOK' /\ WorkersHaveEvents'
  <2>1. TypeOK'
    BY <1>1, PostStepType
  <2>2. worker' = worker
    BY <1>1 DEF StoreWebhookEvent, PostStep, CrashPost, MarkWebhookQueued, AcceptDuplicate,
                EnqueueWebhookEvent, EnqueueFails, RefusePost
  <2>3. QED
    BY <2>1, <2>2 DEF WorkersHaveEvents
<1>2. ASSUME NEW w \in Worker, WorkerStep(w) \/ DequeueReplyLost(w) \/ WorkerFails(w)
      PROVE  TypeOK' /\ WorkersHaveEvents'
  BY <1>2, WorkerStepType
<1>3. CASE UNCHANGED vars
  BY <1>3 DEF TypeOK, WorkersHaveEvents, vars
<1>4. QED
  BY <1>1, <1>2, <1>3 DEF Next

\* The variables keep their types, and a worker that is not idle has an event.
THEOREM TypeCorrect == Spec => [](TypeOK /\ WorkersHaveEvents)
<1>1. Init => WorkersHaveEvents
  BY DEF Init, WorkersHaveEvents, Idle
<1>2. QED
  BY <1>1, TypeInit, TypeStep, PTL DEF Spec

-----------------------------------------------------------------------------
(***************************************************************************)
(* What the steps do to one event, one call and one worker.                *)
(***************************************************************************)

LEMMA PostMoves ==
  ASSUME TypeOK, NEW p \in Post, NEW phase,
         post' = [post EXCEPT ![p].phase = phase]
  PROVE  /\ post'[p].phase = phase
         /\ post'[p].claimed = post[p].claimed
         /\ \A q \in Post \ {p} : post'[q] = post[q]
BY DEF TypeOK, PostState

\* A call stores its event or leaves it; then it queues it, once.
LEMMA StoreRows ==
  ASSUME TypeOK, NEW p \in Post, StoreWebhookEvent(p)
  PROVE  /\ post[p].phase = "new" /\ post'[p].phase = "stored"
         /\ post'[p].claimed = post[p].claimed
         /\ \A q \in Post \ {p} : post'[q] = post[q]
         /\ queue' = queue /\ worker' = worker
         /\ \A e \in Event :
              /\ event'[e].attempts = event[e].attempts
              /\ \/ event'[e] = event[e]
                 \/ event[e].status = "ABSENT" /\ event'[e].status = "RECEIVED"
<1>1. \A e \in Event :
        /\ event'[e].attempts = event[e].attempts
        /\ \/ event'[e] = event[e]
           \/ event[e].status = "ABSENT" /\ event'[e].status = "RECEIVED"
  BY DEF StoreWebhookEvent, TypeOK, EventRow
<1>2. /\ post[p].phase = "new" /\ post' = [post EXCEPT ![p].phase = "stored"]
      /\ queue' = queue /\ worker' = worker
  BY DEF StoreWebhookEvent
<1>3. QED
  BY <1>1, <1>2, PostMoves

LEMMA MarkRows ==
  ASSUME TypeOK, NEW p \in Post, MarkWebhookQueued(p)
  PROVE  /\ EventOf[p] \in Event
         /\ event[EventOf[p]].status \in {"RECEIVED", "FAILED"}
         /\ event'[EventOf[p]].status = "QUEUED"
         /\ event'[EventOf[p]].attempts = event[EventOf[p]].attempts
         /\ \A e \in Event \ {EventOf[p]} : event'[e] = event[e]
         /\ post[p].phase = "stored" /\ post'[p].phase = "marked" /\ post'[p].claimed
         /\ \A q \in Post \ {p} : post'[q] = post[q]
         /\ queue' = queue /\ worker' = worker
<1>1. EventOf[p] \in Event
  BY WebhookQueueAssumption
<1>2. /\ event[EventOf[p]].status \in {"RECEIVED", "FAILED"}
      /\ event'[EventOf[p]].status = "QUEUED"
      /\ event'[EventOf[p]].attempts = event[EventOf[p]].attempts
      /\ \A e \in Event \ {EventOf[p]} : event'[e] = event[e]
  BY <1>1 DEF MarkWebhookQueued, Markable, TypeOK, EventRow
<1>3. /\ post'[p] = [phase |-> "marked", claimed |-> TRUE]
      /\ \A q \in Post \ {p} : post'[q] = post[q]
  BY DEF MarkWebhookQueued, TypeOK
<1>4. post'[p].phase = "marked" /\ post'[p].claimed
  BY <1>3
<1>5. QED
  BY <1>1, <1>2, <1>3, <1>4 DEF MarkWebhookQueued

\* A call ends without touching its event.
LEMMA PostEndsRows ==
  ASSUME TypeOK, NEW p \in Post, AcceptDuplicate(p) \/ CrashPost(p)
  PROVE  /\ post'[p].phase \in {"accepted", "crashed"}
         /\ post'[p].claimed = post[p].claimed
         /\ \A q \in Post \ {p} : post'[q] = post[q]
         /\ event' = event /\ queue' = queue /\ worker' = worker
BY DEF AcceptDuplicate, CrashPost, TypeOK, PostState

LEMMA EnqueueRows ==
  ASSUME TypeOK, NEW p \in Post, EnqueueWebhookEvent(p)
  PROVE  /\ EventOf[p] \in Event
         /\ post[p].phase = "marked" /\ post'[p].phase = "accepted"
         /\ post'[p].claimed = post[p].claimed
         /\ \A q \in Post \ {p} : post'[q] = post[q]
         /\ event' = event /\ worker' = worker
         /\ Pushed(EventOf[p])
BY WebhookQueueAssumption, PostMoves DEF EnqueueWebhookEvent

LEMMA EnqueueFailsRows ==
  ASSUME TypeOK, NEW p \in Post, EnqueueFails(p), ~RepliesLost
  PROVE  /\ EventOf[p] \in Event
         /\ QueueFails
         /\ post[p].phase = "marked" /\ post'[p].phase = "failing"
         /\ post'[p].claimed = post[p].claimed
         /\ \A q \in Post \ {p} : post'[q] = post[q]
         /\ event' = event /\ worker' = worker /\ queue' = queue
BY WebhookQueueAssumption, PostMoves DEF EnqueueFails, PushFailed

LEMMA RefuseRows ==
  ASSUME TypeOK, NEW p \in Post, RefusePost(p)
  PROVE  /\ EventOf[p] \in Event
         /\ post[p].phase = "failing" /\ post'[p].phase = "refused"
         /\ post'[p].claimed = post[p].claimed
         /\ \A q \in Post \ {p} : post'[q] = post[q]
         /\ event'[EventOf[p]].status = "FAILED"
         /\ event'[EventOf[p]].attempts = event[EventOf[p]].attempts
         /\ \A e \in Event \ {EventOf[p]} : event'[e] = event[e]
         /\ queue' = queue /\ worker' = worker
<1>1. EventOf[p] \in Event
  BY WebhookQueueAssumption
<1>2. /\ event'[EventOf[p]].status = "FAILED"
      /\ event'[EventOf[p]].attempts = event[EventOf[p]].attempts
      /\ \A e \in Event \ {EventOf[p]} : event'[e] = event[e]
  BY <1>1 DEF RefusePost, Completed, TypeOK, EventRow
<1>3. QED
  BY <1>1, <1>2, PostMoves DEF RefusePost

LEMMA DequeueRows ==
  ASSUME TypeOK, NEW w \in Worker, DequeueWebhookEvent(w)
  PROVE  /\ queue # <<>> /\ queue' = Tail(queue)
         /\ worker'[w].phase = "popped" /\ worker'[w].event = Head(queue)
         /\ \A v \in Worker \ {w} : worker'[v] = worker[v]
         /\ event' = event /\ post' = post
<1>1. worker'[w] = [Idle EXCEPT !.phase = "popped", !.event = Head(queue)]
  BY DEF DequeueWebhookEvent, TypeOK
<1>2. worker'[w].phase = "popped" /\ worker'[w].event = Head(queue)
  BY <1>1 DEF Idle
<1>3. QED
  BY <1>2 DEF DequeueWebhookEvent, TypeOK

LEMMA ClaimRows ==
  ASSUME TypeOK, WorkersHaveEvents, NEW w \in Worker, ClaimWebhookEvent(w)
  PROVE  /\ worker[w].event \in Event
         /\ event[worker[w].event].status = "QUEUED"
         /\ event'[worker[w].event].status = "PROCESSING"
         /\ event'[worker[w].event].attempts = event[worker[w].event].attempts + 1
         /\ \A e \in Event \ {worker[w].event} : event'[e] = event[e]
         /\ worker[w].phase = "popped" /\ worker'[w].phase = "claimed"
         /\ worker'[w].event = worker[w].event
         /\ \A v \in Worker \ {w} : worker'[v] = worker[v]
         /\ queue' = queue /\ post' = post
<1>1. worker[w].event \in Event /\ event[worker[w].event] \in EventRow
  BY DEF ClaimWebhookEvent, WorkersHaveEvents, TypeOK
<1>2. event'[worker[w].event] = Claimed(event[worker[w].event])
  BY <1>1 DEF ClaimWebhookEvent, TypeOK
<1>3. /\ event'[worker[w].event].status = "PROCESSING"
      /\ event'[worker[w].event].attempts = event[worker[w].event].attempts + 1
  BY <1>1, <1>2 DEF Claimed, EventRow
<1>4. QED
  BY <1>1, <1>3 DEF ClaimWebhookEvent, Claimable, TypeOK, WorkerState

\* A worker drops its event.
LEMMA DropRows ==
  ASSUME TypeOK, NEW w \in Worker, SkipEvent(w) \/ GiveUp(w) \/ WorkerFails(w)
  PROVE  /\ worker'[w].phase = "idle"
         /\ \A v \in Worker \ {w} : worker'[v] = worker[v]
         /\ event' = event /\ queue' = queue /\ post' = post
BY DEF SkipEvent, GiveUp, WorkerFails, TypeOK, Idle

LEMMA GetRows ==
  ASSUME TypeOK, NEW w \in Worker, GetWebhookEvent(w)
  PROVE  /\ worker[w].phase = "claimed" /\ worker'[w].phase = "processing"
         /\ worker'[w].event = worker[w].event
         /\ worker'[w].attempt = event[worker[w].event].attempts
         /\ \A v \in Worker \ {w} : worker'[v] = worker[v]
         /\ event' = event /\ queue' = queue /\ post' = post
BY DEF GetWebhookEvent, TypeOK, WorkerState

LEMMA ProcessingEndsRows ==
  ASSUME TypeOK, WorkersHaveEvents, NEW w \in Worker,
         NEW status \in {"PROCESSED", "IGNORED"}, ProcessingEnds(w, status)
  PROVE  /\ worker[w].event \in Event
         /\ worker[w].phase = "processing" /\ worker'[w].phase = "idle"
         /\ \A v \in Worker \ {w} : worker'[v] = worker[v]
         /\ event'[worker[w].event].status \in {"PROCESSED", "IGNORED"}
         /\ event'[worker[w].event].attempts = event[worker[w].event].attempts
         /\ \A e \in Event \ {worker[w].event} : event'[e] = event[e]
         /\ queue' = queue /\ post' = post
BY DEF ProcessingEnds, Completed, WorkersHaveEvents, TypeOK, Idle, EventRow

LEMMA ProcessingFailsRows ==
  ASSUME TypeOK, WorkersHaveEvents, NEW w \in Worker, ProcessingFails(w)
  PROVE  /\ worker[w].event \in Event
         /\ worker[w].phase = "processing" /\ worker'[w].phase = "failed"
         /\ worker'[w].event = worker[w].event /\ worker'[w].attempt = worker[w].attempt
         /\ \A v \in Worker \ {w} : worker'[v] = worker[v]
         /\ event'[worker[w].event].status \in {"FAILED", event[worker[w].event].status}
         /\ event'[worker[w].event].attempts = event[worker[w].event].attempts
         /\ \A e \in Event \ {worker[w].event} : event'[e] = event[e]
         /\ queue' = queue /\ post' = post
BY DEF ProcessingFails, Completed, WorkersHaveEvents, TypeOK, EventRow, WorkerState

LEMMA RequeueRows ==
  ASSUME TypeOK, WorkersHaveEvents, NEW w \in Worker, RequeueFailedWebhookEvent(w)
  PROVE  /\ worker[w].event \in Event
         /\ worker[w].attempt < MaxAttempts
         /\ worker[w].phase = "failed" /\ worker'[w].phase = "requeued"
         /\ worker'[w].event = worker[w].event
         /\ \A v \in Worker \ {w} : worker'[v] = worker[v]
         /\ event[worker[w].event].status = "FAILED"
         /\ event'[worker[w].event].status = "QUEUED"
         /\ event'[worker[w].event].attempts = event[worker[w].event].attempts
         /\ \A e \in Event \ {worker[w].event} : event'[e] = event[e]
         /\ queue' = queue /\ post' = post
BY DEF RequeueFailedWebhookEvent, MayRetry, WorkersHaveEvents, TypeOK, EventRow, WorkerState

LEMMA EnqueueAgainRows ==
  ASSUME TypeOK, WorkersHaveEvents, NEW w \in Worker, EnqueueAgain(w)
  PROVE  /\ worker[w].event \in Event
         /\ worker[w].phase = "requeued" /\ worker'[w].phase = "idle"
         /\ \A v \in Worker \ {w} : worker'[v] = worker[v]
         /\ event' = event /\ post' = post
         /\ Pushed(worker[w].event) \/ PushFailed(worker[w].event)
BY DEF EnqueueAgain, WorkersHaveEvents, TypeOK, Idle

\* Every step of the module, one action per line
LEMMA NextCases ==
  ASSUME Next
  PROVE  /\ faults' = faults
         /\ \/ \E p \in Post : StoreWebhookEvent(p)
            \/ \E p \in Post : MarkWebhookQueued(p)
            \/ \E p \in Post : AcceptDuplicate(p) \/ CrashPost(p)
            \/ \E p \in Post : EnqueueWebhookEvent(p)
            \/ \E p \in Post : EnqueueFails(p)
            \/ \E p \in Post : RefusePost(p)
            \/ \E w \in Worker : DequeueWebhookEvent(w)
            \/ \E w \in Worker : DequeueReplyLost(w)
            \/ \E w \in Worker : ClaimWebhookEvent(w)
            \/ \E w \in Worker : SkipEvent(w) \/ GiveUp(w) \/ WorkerFails(w)
            \/ \E w \in Worker : GetWebhookEvent(w)
            \/ \E w \in Worker : \E status \in {"PROCESSED", "IGNORED"} : ProcessingEnds(w, status)
            \/ \E w \in Worker : ProcessingFails(w)
            \/ \E w \in Worker : RequeueFailedWebhookEvent(w)
            \/ \E w \in Worker : EnqueueAgain(w)
<1>1. CASE \E p \in Post : StoreWebhookEvent(p) \/ PostStep(p) \/ CrashPost(p)
  BY <1>1 DEF PostStep, StoreWebhookEvent, MarkWebhookQueued, AcceptDuplicate, CrashPost,
              EnqueueWebhookEvent, EnqueueFails, RefusePost
<1>2. CASE \E w \in Worker : WorkerStep(w) \/ DequeueReplyLost(w) \/ WorkerFails(w)
  BY <1>2 DEF WorkerStep, DequeueWebhookEvent, DequeueReplyLost, ClaimWebhookEvent, SkipEvent,
              GiveUp, WorkerFails, GetWebhookEvent, ProcessingEnds, ProcessingFails,
              RequeueFailedWebhookEvent, EnqueueAgain
<1>3. QED
  BY <1>1, <1>2 DEF Next

-----------------------------------------------------------------------------
(***************************************************************************)
(* Who carries an event to a claim.                                        *)
(***************************************************************************)

\* An event nobody carries is as the invariant says.
LEMMA NoCarrier ==
  ASSUME NEW e \in Event, \A p \in Post : ~Pushing(p, e),
         \A w \in Worker : ~Carrying(w, e), ~Listed(e)
  PROVE  OneCarrierOf(e)
BY DEF OneCarrierOf, Listed

\* If carriers only disappear and the status stays, so does the invariant.
LEMMA FewerCarriers ==
  ASSUME NEW e \in Event, OneCarrierOf(e),
         event'[e].status = event[e].status, queue' = queue,
         \A p \in Post : Pushing(p, e)' => Pushing(p, e),
         \A w \in Worker : Carrying(w, e)' => Carrying(w, e)
  PROVE  OneCarrierOf(e)'
BY DEF OneCarrierOf, Listed

\* What a push without repetition and without a wrong report does
LEMMA PushedOnce ==
  ASSUME TypeOK, ~Resends, ~RepliesLost, NEW e \in Event, Pushed(e) \/ PushFailed(e)
  PROVE  queue' = queue \/ queue' = Append(queue, e)
BY DEF Pushed, PushFailed

\* The carrier of e becomes an entry of the list, or is lost.
LEMMA CarrierPushes ==
  ASSUME TypeOK, ~Resends, ~RepliesLost, NEW e \in Event, OneCarrierOf(e),
         Pushed(e) \/ PushFailed(e), event' = event, ~Listed(e),
         event[e].status = "QUEUED",
         \A p \in Post : ~Pushing(p, e)',
         \A w \in Worker : ~Carrying(w, e)'
  PROVE  OneCarrierOf(e)'
<1>1. queue \in Seq(Event)
  BY DEF TypeOK
<1>2. CASE queue' = queue
  BY <1>2, FewerCarriers
<1>3. CASE queue' = Append(queue, e)
  <2>1. \A i \in DOMAIN queue' : queue'[i] = e => i = Len(queue) + 1
    BY <1>1, <1>3, AppendRows DEF Listed
  <2>2. QED
    BY <2>1 DEF OneCarrierOf
<1>4. QED
  BY <1>2, <1>3, PushedOnce

\* The carrier of another event pushes it.
LEMMA OtherPushes ==
  ASSUME TypeOK, ~Resends, ~RepliesLost, NEW f \in Event, NEW e \in Event \ {f},
         OneCarrierOf(e), Pushed(f) \/ PushFailed(f),
         event' = event,
         \A p \in Post : Pushing(p, e)' => Pushing(p, e),
         \A w \in Worker : Carrying(w, e)' => Carrying(w, e)
  PROVE  OneCarrierOf(e)'
<1>1. queue \in Seq(Event)
  BY DEF TypeOK
<1>2. CASE queue' = queue
  BY <1>2, FewerCarriers
<1>3. CASE queue' = Append(queue, f)
  <2>1. \A i \in DOMAIN queue' : queue'[i] = e => i \in DOMAIN queue /\ queue[i] = e
    BY <1>1, <1>3, AppendRows
  <2>2. Listed(e)' => Listed(e)
    BY <2>1 DEF Listed
  <2>3. QED
    BY <2>1, <2>2 DEF OneCarrierOf
<1>4. QED
  BY <1>2, <1>3, PushedOnce

\* A call has queued the event, which nobody carried: it is the carrier.
LEMMA PostBecomesCarrier ==
  ASSUME TypeOK, NEW e \in Event, OneCarrierOf(e), event[e].status # "QUEUED",
         event'[e].status = "QUEUED", queue' = queue, worker' = worker,
         NEW p \in Post, \A q \in Post \ {p} : Pushing(q, e)' <=> Pushing(q, e)
  PROVE  OneCarrierOf(e)'
<1>1. /\ ~Listed(e)
      /\ \A q \in Post : ~Pushing(q, e)
      /\ \A w \in Worker : ~Carrying(w, e)
  BY DEF OneCarrierOf
<1>2. ~Listed(e)' /\ \A w \in Worker : ~Carrying(w, e)'
  BY <1>1 DEF Listed, Carrying
<1>3. \A q \in Post \ {p} : ~Pushing(q, e)'
  BY <1>1
<1>4. \A i \in DOMAIN queue' : queue'[i] # e
  BY <1>2 DEF Listed
<1>5. QED
  BY <1>2, <1>3, <1>4 DEF OneCarrierOf

\* A worker retries the event, which nobody carried.
LEMMA WorkerBecomesCarrier ==
  ASSUME TypeOK, NEW e \in Event, OneCarrierOf(e), event[e].status # "QUEUED",
         event'[e].status = "QUEUED", queue' = queue, post' = post,
         NEW w \in Worker, \A v \in Worker \ {w} : Carrying(v, e)' <=> Carrying(v, e)
  PROVE  OneCarrierOf(e)'
<1>1. /\ ~Listed(e)
      /\ \A q \in Post : ~Pushing(q, e)
      /\ \A v \in Worker : ~Carrying(v, e)
  BY DEF OneCarrierOf
<1>2. ~Listed(e)' /\ \A q \in Post : ~Pushing(q, e)'
  BY <1>1 DEF Listed, Pushing
<1>3. \A v \in Worker \ {w} : ~Carrying(v, e)'
  BY <1>1
<1>4. \A i \in DOMAIN queue' : queue'[i] # e
  BY <1>2 DEF Listed
<1>5. QED
  BY <1>2, <1>3, <1>4 DEF OneCarrierOf

\* A worker takes the head of the list: if that is e, the worker is the
\* carrier now, and there is no other entry.
LEMMA HeadIsTaken ==
  ASSUME TypeOK, NEW e \in Event, OneCarrierOf(e),
         event' = event, post' = post, queue # <<>>, queue' = Tail(queue),
         NEW w \in Worker, worker'[w].event = Head(queue), worker'[w].phase = "popped",
         worker[w].phase = "idle",
         \A v \in Worker \ {w} : worker'[v] = worker[v]
  PROVE  OneCarrierOf(e)'
<1>1. queue \in Seq(Event)
  BY DEF TypeOK
<1>2. /\ Head(queue) = queue[1]
      /\ 1 \in DOMAIN queue
      /\ queue' \in Seq(Event)
      /\ \A i \in DOMAIN queue' : i + 1 \in DOMAIN queue /\ queue'[i] = queue[i + 1]
  BY <1>1, TailRows
<1>3. \A i \in DOMAIN queue' : i \in Nat \ {0}
  BY <1>2
<1>4. Listed(e)' => Listed(e)
  BY <1>2 DEF Listed
<1>5. \A i, j \in DOMAIN queue' : queue'[i] = e /\ queue'[j] = e => i = j
  BY <1>2, <1>3 DEF OneCarrierOf
<1>6. \A p \in Post : Pushing(p, e)' <=> Pushing(p, e)
  BY DEF Pushing
<1>7. \A v \in Worker \ {w} : Carrying(v, e)' <=> Carrying(v, e)
  BY DEF Carrying
<1>8. CASE Head(queue) = e
  <2>1. ~Listed(e)'
    BY <1>2, <1>3, <1>8 DEF Listed, OneCarrierOf
  <2>2. Listed(e)
    BY <1>2, <1>8 DEF Listed
  <2>3. /\ event[e].status = "QUEUED"
        /\ \A p \in Post : ~Pushing(p, e)
        /\ \A v \in Worker : ~Carrying(v, e)
    BY <2>2 DEF OneCarrierOf
  <2>4. QED
    BY <1>5, <1>6, <1>7, <2>1, <2>3 DEF OneCarrierOf
<1>9. CASE Head(queue) # e
  <2>1. ~Carrying(w, e)'
    BY <1>9 DEF Carrying
  <2>2. QED
    BY <1>4, <1>5, <1>6, <1>7, <2>1 DEF OneCarrierOf
<1>10. QED
  BY <1>8, <1>9

\* The head of the list is lost, and e may have been that.
LEMMA HeadIsLost ==
  ASSUME TypeOK, NEW e \in Event, OneCarrierOf(e),
         event' = event, post' = post, worker' = worker, queue # <<>>, queue' = Tail(queue)
  PROVE  OneCarrierOf(e)'
<1>1. queue \in Seq(Event)
  BY DEF TypeOK
<1>2. /\ queue' \in Seq(Event)
      /\ \A i \in DOMAIN queue' : i + 1 \in DOMAIN queue /\ queue'[i] = queue[i + 1]
  BY <1>1, TailRows
<1>3. \A i \in DOMAIN queue' : i \in Nat \ {0}
  BY <1>2
<1>4. Listed(e)' => Listed(e)
  BY <1>2 DEF Listed
<1>5. \A i, j \in DOMAIN queue' : queue'[i] = e /\ queue'[j] = e => i = j
  BY <1>2, <1>3 DEF OneCarrierOf
<1>6. QED
  BY <1>4, <1>5 DEF OneCarrierOf, Pushing, Carrying

-----------------------------------------------------------------------------
(***************************************************************************)
(* The carriers and the claims keep the invariant.                         *)
(***************************************************************************)

LEMMA TrueErrors ==
  ASSUME TypeOK, ErrorsAreTrue
  PROVE  ~RepliesLost /\ (Resends => ~QueueFails)
BY DEF ErrorsAreTrue

\* An event somebody works on has no carriers.
LEMMA InWorkNoCarriers ==
  ASSUME ExclusiveClaims, NEW w \in Worker, InWork(w), OneCarrierOf(worker[w].event)
  PROVE  /\ \A p \in Post : ~Pushing(p, worker[w].event)
         /\ \A v \in Worker : ~Carrying(v, worker[w].event)
         /\ ~Listed(worker[w].event)
BY DEF ExclusiveClaims, OneCarrierOf

LEMMA CarriersOfStep ==
  ASSUME TypeOK, WorkersHaveEvents, ExclusiveClaims, ErrorsAreTrue, ~Resends, Next,
         NEW e \in Event, OneCarrierOf(e)
  PROVE  OneCarrierOf(e)'
<1>f. ~RepliesLost
  BY TrueErrors
<1>1. ASSUME NEW p \in Post, StoreWebhookEvent(p) PROVE OneCarrierOf(e)'
  <2>1. \A q \in Post : Pushing(q, e)' => Pushing(q, e)
    BY <1>1, StoreRows DEF Pushing
  <2>2. \A w \in Worker : Carrying(w, e)' => Carrying(w, e)
    BY <1>1, StoreRows DEF Carrying
  <2>3. CASE event'[e].status = event[e].status
    BY <1>1, <2>1, <2>2, <2>3, StoreRows, FewerCarriers
  <2>4. CASE event[e].status = "ABSENT"
    <3>1. /\ \A q \in Post : ~Pushing(q, e)'
          /\ \A w \in Worker : ~Carrying(w, e)'
          /\ ~Listed(e)'
      BY <1>1, <2>1, <2>2, <2>4, StoreRows DEF OneCarrierOf, Listed
    <3>2. \A i \in DOMAIN queue' : queue'[i] # e
      BY <3>1 DEF Listed
    <3>3. QED
      BY <3>1, <3>2 DEF OneCarrierOf
  <2>5. QED
    BY <1>1, <2>3, <2>4, StoreRows
<1>2. ASSUME NEW p \in Post, MarkWebhookQueued(p) PROVE OneCarrierOf(e)'
  <2>1. CASE EventOf[p] = e
    BY <1>2, <2>1, MarkRows, PostBecomesCarrier DEF Pushing
  <2>2. CASE EventOf[p] # e
    BY <1>2, <2>2, MarkRows, FewerCarriers DEF Pushing, Carrying
  <2>3. QED
    BY <2>1, <2>2
<1>3. ASSUME NEW p \in Post, AcceptDuplicate(p) \/ CrashPost(p) PROVE OneCarrierOf(e)'
  <2>1. \A q \in Post : Pushing(q, e)' => Pushing(q, e)
    BY <1>3, PostEndsRows DEF Pushing
  <2>2. QED
    BY <1>3, <2>1, PostEndsRows, FewerCarriers DEF Carrying
<1>4. ASSUME NEW p \in Post, EnqueueWebhookEvent(p) PROVE OneCarrierOf(e)'
  <2>1. CASE EventOf[p] = e
    <3>1. Pushing(p, e)
      BY <1>4, <2>1, EnqueueRows DEF Pushing
    <3>2. /\ event[e].status = "QUEUED" /\ ~Listed(e)
          /\ \A q \in Post \ {p} : ~Pushing(q, e)
          /\ \A w \in Worker : ~Carrying(w, e)
      BY <3>1 DEF OneCarrierOf
    <3>3. \A q \in Post : ~Pushing(q, e)'
      BY <1>4, <3>2, EnqueueRows DEF Pushing
    <3>4. \A w \in Worker : ~Carrying(w, e)'
      BY <1>4, <3>2, EnqueueRows DEF Carrying
    <3>5. QED
      BY <1>4, <1>f, <2>1, <3>2, <3>3, <3>4, EnqueueRows, CarrierPushes
  <2>2. CASE EventOf[p] # e
    BY <1>4, <1>f, <2>2, EnqueueRows, OtherPushes DEF Pushing, Carrying
  <2>3. QED
    BY <2>1, <2>2
<1>5. ASSUME NEW p \in Post, EnqueueFails(p) PROVE OneCarrierOf(e)'
  <2>1. \A q \in Post : Pushing(q, e)' => Pushing(q, e)
    BY <1>5, <1>f, EnqueueFailsRows DEF Pushing
  <2>2. QED
    BY <1>5, <1>f, <2>1, EnqueueFailsRows, FewerCarriers DEF Carrying
<1>6. ASSUME NEW p \in Post, RefusePost(p) PROVE OneCarrierOf(e)'
  <2>1. CASE EventOf[p] = e
    <3>1. Pushing(p, e)
      BY <1>6, <2>1, RefuseRows DEF Pushing
    <3>2. /\ ~Listed(e)
          /\ \A q \in Post \ {p} : ~Pushing(q, e)
          /\ \A w \in Worker : ~Carrying(w, e)
      BY <3>1 DEF OneCarrierOf
    <3>3. /\ \A q \in Post : ~Pushing(q, e)'
          /\ \A w \in Worker : ~Carrying(w, e)'
          /\ \A i \in DOMAIN queue' : queue'[i] # e
      BY <1>6, <3>2, RefuseRows DEF Pushing, Carrying, Listed
    <3>4. QED
      BY <3>3 DEF OneCarrierOf, Listed
  <2>2. CASE EventOf[p] # e
    BY <1>6, <2>2, RefuseRows, FewerCarriers DEF Pushing, Carrying
  <2>3. QED
    BY <2>1, <2>2
<1>7. ASSUME NEW w \in Worker, DequeueWebhookEvent(w) PROVE OneCarrierOf(e)'
  <2>1. worker[w].phase = "idle"
    BY <1>7 DEF DequeueWebhookEvent
  <2>2. QED
    BY <1>7, <2>1, DequeueRows, HeadIsTaken
<1>8. ASSUME NEW w \in Worker, ClaimWebhookEvent(w) PROVE OneCarrierOf(e)'
  <2>1. CASE worker[w].event = e
    <3>1. Carrying(w, e)
      BY <1>8, <2>1, ClaimRows DEF Carrying
    <3>2. /\ ~Listed(e)
          /\ \A q \in Post : ~Pushing(q, e)
          /\ \A v \in Worker \ {w} : ~Carrying(v, e)
      BY <3>1 DEF OneCarrierOf
    <3>3. /\ \A q \in Post : ~Pushing(q, e)'
          /\ \A v \in Worker : ~Carrying(v, e)'
          /\ \A i \in DOMAIN queue' : queue'[i] # e
      BY <1>8, <3>2, ClaimRows DEF Pushing, Carrying, Listed
    <3>4. QED
      BY <3>3 DEF OneCarrierOf, Listed
  <2>2. CASE worker[w].event # e
    BY <1>8, <2>2, ClaimRows, FewerCarriers DEF Pushing, Carrying
  <2>3. QED
    BY <2>1, <2>2
<1>9. ASSUME NEW w \in Worker, SkipEvent(w) \/ GiveUp(w) \/ WorkerFails(w)
      PROVE  OneCarrierOf(e)'
  <2>1. \A v \in Worker : Carrying(v, e)' => Carrying(v, e)
    BY <1>9, DropRows DEF Carrying
  <2>2. QED
    BY <1>9, <2>1, DropRows, FewerCarriers DEF Pushing
<1>10. ASSUME NEW w \in Worker, GetWebhookEvent(w) PROVE OneCarrierOf(e)'
  <2>1. \A v \in Worker : Carrying(v, e)' => Carrying(v, e)
    BY <1>10, GetRows DEF Carrying
  <2>2. QED
    BY <1>10, <2>1, GetRows, FewerCarriers DEF Pushing
\* Completing an event that is in work: nobody carries it.
<1>11. ASSUME NEW w \in Worker, InWork(w), ~Carrying(w, e)',
              \A v \in Worker \ {w} : worker'[v] = worker[v],
              \A f \in Event \ {worker[w].event} : event'[f] = event[f],
              queue' = queue, post' = post
       PROVE  OneCarrierOf(e)'
  <2>1. /\ \A v \in Worker : Carrying(v, e)' => Carrying(v, e)
        /\ \A q \in Post : Pushing(q, e)' => Pushing(q, e)
    BY <1>11 DEF Carrying, Pushing
  <2>2. CASE worker[w].event = e
    <3>1. /\ \A q \in Post : ~Pushing(q, e)'
          /\ \A v \in Worker : ~Carrying(v, e)'
          /\ \A i \in DOMAIN queue' : queue'[i] # e
      BY <1>11, <2>1, <2>2, InWorkNoCarriers DEF Listed
    <3>2. QED
      BY <3>1 DEF OneCarrierOf, Listed
  <2>3. CASE worker[w].event # e
    BY <1>11, <2>1, <2>3, FewerCarriers
  <2>4. QED
    BY <2>2, <2>3
<1>12. ASSUME NEW w \in Worker, NEW status \in {"PROCESSED", "IGNORED"}, ProcessingEnds(w, status)
       PROVE  OneCarrierOf(e)'
  BY <1>11, <1>12, ProcessingEndsRows DEF InWork, Carrying
<1>13. ASSUME NEW w \in Worker, ProcessingFails(w) PROVE OneCarrierOf(e)'
  BY <1>11, <1>13, ProcessingFailsRows DEF InWork, Carrying
<1>14. ASSUME NEW w \in Worker, RequeueFailedWebhookEvent(w) PROVE OneCarrierOf(e)'
  <2>1. CASE worker[w].event = e
    BY <1>14, <2>1, RequeueRows, WorkerBecomesCarrier DEF Carrying
  <2>2. CASE worker[w].event # e
    BY <1>14, <2>2, RequeueRows, FewerCarriers DEF Pushing, Carrying
  <2>3. QED
    BY <2>1, <2>2
<1>15. ASSUME NEW w \in Worker, EnqueueAgain(w) PROVE OneCarrierOf(e)'
  <2>1. CASE worker[w].event = e
    <3>1. Carrying(w, e)
      BY <1>15, <2>1, EnqueueAgainRows DEF Carrying
    <3>2. /\ event[e].status = "QUEUED" /\ ~Listed(e)
          /\ \A q \in Post : ~Pushing(q, e)
          /\ \A v \in Worker \ {w} : ~Carrying(v, e)
      BY <3>1 DEF OneCarrierOf
    <3>3. /\ \A q \in Post : ~Pushing(q, e)'
          /\ \A v \in Worker : ~Carrying(v, e)'
      BY <1>15, <3>2, EnqueueAgainRows DEF Pushing, Carrying
    <3>4. QED
      BY <1>15, <1>f, <2>1, <3>2, <3>3, EnqueueAgainRows, CarrierPushes
  <2>2. CASE worker[w].event # e
    <3>1. \A v \in Worker : Carrying(v, e)' => Carrying(v, e)
      BY <1>15, EnqueueAgainRows DEF Carrying
    <3>2. QED
      BY <1>15, <1>f, <2>2, <3>1, EnqueueAgainRows, OtherPushes DEF Pushing
  <2>3. QED
    BY <2>1, <2>2
<1>16. ASSUME NEW w \in Worker, DequeueReplyLost(w) PROVE OneCarrierOf(e)'
  BY <1>16, HeadIsLost DEF DequeueReplyLost
<1>17. QED
  BY <1>1, <1>2, <1>3, <1>4, <1>5, <1>6, <1>7, <1>8, <1>9, <1>10, <1>12, <1>13, <1>14,
     <1>15, <1>16, NextCases

LEMMA CarriersStep ==
  ASSUME TypeOK, WorkersHaveEvents, ExclusiveClaims, ErrorsAreTrue, CarriersOK, [Next]_vars
  PROVE  CarriersOK'
<1>1. CASE UNCHANGED vars
  BY <1>1 DEF vars, CarriersOK, OneCarrierOf, Pushing, Carrying, Listed, Resends
<1>2. CASE Next /\ Resends
  <2>1. Resends'
    BY <1>2, NextCases DEF Resends
  <2>2. \A p \in Post : post'[p].phase # "failing"
    <3>1. /\ ~RepliesLost
          /\ \A p \in Post : ~EnqueueFails(p)
          /\ \A p \in Post : post[p].phase # "failing"
      BY <1>2, TrueErrors, EnqueueFailsRows DEF CarriersOK
    <3>2. CASE \E p \in Post : StoreWebhookEvent(p)
      BY <3>1, <3>2, StoreRows
    <3>3. CASE \E p \in Post : MarkWebhookQueued(p)
      BY <3>1, <3>3, MarkRows
    <3>4. CASE \E p \in Post : AcceptDuplicate(p) \/ CrashPost(p)
      BY <3>1, <3>4, PostEndsRows
    <3>5. CASE \E p \in Post : EnqueueWebhookEvent(p)
      BY <3>1, <3>5, EnqueueRows
    <3>6. CASE \E p \in Post : RefusePost(p)
      BY <3>1, <3>6, RefuseRows
    <3>7. CASE post' = post
      BY <3>1, <3>7
    <3>8. QED
      BY <1>2, <3>1, <3>2, <3>3, <3>4, <3>5, <3>6, <3>7, NextCases
         DEF DequeueWebhookEvent, DequeueReplyLost, ClaimWebhookEvent, SkipEvent, GiveUp,
             WorkerFails, GetWebhookEvent, ProcessingEnds, ProcessingFails,
             RequeueFailedWebhookEvent, EnqueueAgain
  <2>3. QED
    BY <2>1, <2>2 DEF CarriersOK
<1>3. CASE Next /\ ~Resends
  <2>1. ~Resends'
    BY <1>3, NextCases DEF Resends
  <2>2. \A e \in Event : OneCarrierOf(e)'
    BY <1>3, CarriersOfStep DEF CarriersOK
  <2>3. QED
    BY <2>1, <2>2 DEF CarriersOK
<1>4. QED
  BY <1>1, <1>2, <1>3

\* Workers go on as they are, and events in work are left alone.
LEMMA ClaimsUntouched ==
  ASSUME WorkersHaveEvents, ExclusiveClaims, worker' = worker,
         \A e \in Event : event[e].status = "PROCESSING" => event'[e] = event[e]
  PROVE  ExclusiveClaims'
<1>1. \A v \in Worker : InWork(v) =>
        /\ worker[v].event \in Event
        /\ event[worker[v].event].status = "PROCESSING"
  BY DEF WorkersHaveEvents, ExclusiveClaims, InWork
<1>2. QED
  BY <1>1 DEF ExclusiveClaims, InWork

\* A worker is not in work after its step, and the events of others are left alone.
LEMMA ClaimGivenUp ==
  ASSUME WorkersHaveEvents, ExclusiveClaims, NEW w \in Worker, ~InWork(w)',
         \A v \in Worker \ {w} :
           /\ worker'[v] = worker[v]
           /\ InWork(v) => event'[worker[v].event] = event[worker[v].event]
  PROVE  ExclusiveClaims'
BY DEF ExclusiveClaims, InWork

\* The event of another worker is not the one that is in work here.
LEMMA OthersElsewhere ==
  ASSUME WorkersHaveEvents, ExclusiveClaims, NEW w \in Worker, InWork(w),
         NEW v \in Worker \ {w}, InWork(v)
  PROVE  /\ worker[v].event \in Event \ {worker[w].event}
BY DEF WorkersHaveEvents, ExclusiveClaims, InWork

\* The event of a call that is about to report a failure is not in work.
LEMMA FailingNotInWork ==
  ASSUME CarriersOK, NEW p \in Post, EventOf[p] \in Event, post[p].phase = "failing"
  PROVE  event[EventOf[p]].status = "QUEUED"
<1>1. OneCarrierOf(EventOf[p])
  BY DEF CarriersOK
<1>2. Pushing(p, EventOf[p])
  BY DEF Pushing
<1>3. QED
  BY <1>1, <1>2 DEF OneCarrierOf

LEMMA ClaimStep ==
  ASSUME TypeOK, WorkersHaveEvents, ExclusiveClaims, ErrorsAreTrue, CarriersOK, [Next]_vars
  PROVE  ExclusiveClaims'
<1>1. ASSUME NEW p \in Post, StoreWebhookEvent(p) PROVE ExclusiveClaims'
  BY <1>1, StoreRows, ClaimsUntouched
<1>2. ASSUME NEW p \in Post, MarkWebhookQueued(p) PROVE ExclusiveClaims'
  BY <1>2, MarkRows, ClaimsUntouched
<1>3. ASSUME NEW p \in Post, RefusePost(p) PROVE ExclusiveClaims'
  BY <1>3, RefuseRows, FailingNotInWork, ClaimsUntouched
<1>4. CASE UNCHANGED <<event, worker>>
  BY <1>4, ClaimsUntouched
<1>5. ASSUME NEW w \in Worker, DequeueWebhookEvent(w) PROVE ExclusiveClaims'
  BY <1>5, DequeueRows, ClaimGivenUp DEF InWork
<1>6. ASSUME NEW w \in Worker, ClaimWebhookEvent(w) PROVE ExclusiveClaims'
  <2>1. \A v \in Worker : InWork(v) => worker[v].event \in Event \ {worker[w].event}
    BY <1>6, ClaimRows DEF ExclusiveClaims, WorkersHaveEvents, InWork
  <2>2. \A v \in Worker \ {w} :
          /\ worker'[v] = worker[v]
          /\ InWork(v) => /\ event'[worker[v].event] = event[worker[v].event]
                          /\ worker[v].event # worker'[w].event
    BY <1>6, <2>1, ClaimRows
  <2>3. /\ worker'[w].phase = "claimed"
        /\ event'[worker'[w].event].status = "PROCESSING"
    BY <1>6, ClaimRows
  <2>4. QED
    BY <2>2, <2>3 DEF ExclusiveClaims, InWork
<1>7. ASSUME NEW w \in Worker, SkipEvent(w) \/ GiveUp(w) \/ WorkerFails(w)
      PROVE  ExclusiveClaims'
  BY <1>7, DropRows, ClaimGivenUp DEF InWork
<1>8. ASSUME NEW w \in Worker, GetWebhookEvent(w) PROVE ExclusiveClaims'
  BY <1>8, GetRows DEF ExclusiveClaims, InWork
<1>9. ASSUME NEW w \in Worker, NEW status \in {"PROCESSED", "IGNORED"}, ProcessingEnds(w, status)
      PROVE  ExclusiveClaims'
  <2>1. InWork(w) /\ ~InWork(w)'
    BY <1>9, ProcessingEndsRows DEF InWork
  <2>2. QED
    BY <1>9, <2>1, ProcessingEndsRows, OthersElsewhere, ClaimGivenUp
<1>10. ASSUME NEW w \in Worker, ProcessingFails(w) PROVE ExclusiveClaims'
  <2>1. InWork(w) /\ ~InWork(w)'
    BY <1>10, ProcessingFailsRows DEF InWork
  <2>2. QED
    BY <1>10, <2>1, ProcessingFailsRows, OthersElsewhere, ClaimGivenUp
<1>11. ASSUME NEW w \in Worker, RequeueFailedWebhookEvent(w) PROVE ExclusiveClaims'
  <2>1. \A v \in Worker : InWork(v) => worker[v].event \in Event \ {worker[w].event}
    BY <1>11, RequeueRows DEF ExclusiveClaims, WorkersHaveEvents, InWork
  <2>2. ~InWork(w)'
    BY <1>11, RequeueRows DEF InWork
  <2>3. QED
    BY <1>11, <2>1, <2>2, RequeueRows, ClaimGivenUp
<1>12. ASSUME NEW w \in Worker, EnqueueAgain(w) PROVE ExclusiveClaims'
  BY <1>12, EnqueueAgainRows, ClaimGivenUp DEF InWork
<1>13. QED
  BY <1>1, <1>2, <1>3, <1>4, <1>5, <1>6, <1>7, <1>8, <1>9, <1>10, <1>11, <1>12, NextCases
     DEF AcceptDuplicate, CrashPost, EnqueueWebhookEvent, EnqueueFails, DequeueReplyLost, vars

-----------------------------------------------------------------------------
(***************************************************************************)
(* Attempts and retries.                                                   *)
(***************************************************************************)

LEMMA CallsMarkOnceStep ==
  ASSUME TypeOK, CallsMarkOnce, ~RepliesLost, [Next]_vars
  PROVE  CallsMarkOnce'
<1>1. ASSUME NEW p \in Post, StoreWebhookEvent(p) PROVE CallsMarkOnce'
  BY <1>1, StoreRows DEF CallsMarkOnce
<1>2. ASSUME NEW p \in Post, MarkWebhookQueued(p) PROVE CallsMarkOnce'
  BY <1>2, MarkRows DEF CallsMarkOnce
<1>3. ASSUME NEW p \in Post, AcceptDuplicate(p) \/ CrashPost(p) PROVE CallsMarkOnce'
  BY <1>3, PostEndsRows DEF CallsMarkOnce
<1>4. ASSUME NEW p \in Post, EnqueueWebhookEvent(p) PROVE CallsMarkOnce'
  BY <1>4, EnqueueRows DEF CallsMarkOnce
<1>5. ASSUME NEW p \in Post, EnqueueFails(p) PROVE CallsMarkOnce'
  BY <1>5, EnqueueFailsRows DEF CallsMarkOnce
<1>6. ASSUME NEW p \in Post, RefusePost(p) PROVE CallsMarkOnce'
  BY <1>6, RefuseRows DEF CallsMarkOnce
<1>7. CASE post' = post
  BY <1>7 DEF CallsMarkOnce
<1>8. QED
  BY <1>1, <1>2, <1>3, <1>4, <1>5, <1>6, <1>7, NextCases
     DEF DequeueWebhookEvent, DequeueReplyLost, ClaimWebhookEvent, SkipEvent, GiveUp,
         WorkerFails, GetWebhookEvent, ProcessingEnds, ProcessingFails,
         RequeueFailedWebhookEvent, EnqueueAgain, vars

\* Nobody starts an attempt at e, and somebody may lose one.
AttemptsOnlyLost(e) ==
  /\ event'[e].attempts = event[e].attempts
  /\ \A v \in Worker : Trying(v, e)' => Trying(v, e) /\ AttemptOf(v)' = AttemptOf(v)

LEMMA DistinctIfLost ==
  ASSUME NEW e \in Event, AttemptsDistinctOf(e), AttemptsOnlyLost(e)
  PROVE  AttemptsDistinctOf(e)'
BY DEF AttemptsDistinctOf, AttemptsOnlyLost

LEMMA RetriesIfLost ==
  ASSUME NEW e \in Event, AttemptsOnlyLost(e)
  PROVE  MayLeadToRetry(e)' \subseteq MayLeadToRetry(e)
BY DEF MayLeadToRetry, AttemptsOnlyLost

\* Every step but a claim of e only loses attempts at e.
LEMMA OnlyClaimsStartAttempts ==
  ASSUME TypeOK, WorkersHaveEvents, ExclusiveClaims, ErrorsAreTrue, [Next]_vars,
         NEW e \in Event,
         ~ \E w \in Worker : ClaimWebhookEvent(w) /\ worker[w].event = e
  PROVE  AttemptsOnlyLost(e)
<1>r. ~RepliesLost
  BY TrueErrors
<1>s. ASSUME worker' = worker, event'[e].attempts = event[e].attempts
      PROVE  AttemptsOnlyLost(e)
  BY <1>s DEF AttemptsOnlyLost, Trying, AttemptOf
<1>w. ASSUME NEW w \in Worker, \A v \in Worker \ {w} : worker'[v] = worker[v],
             event'[e].attempts = event[e].attempts,
             Trying(w, e)' => Trying(w, e) /\ AttemptOf(w)' = AttemptOf(w)
      PROVE  AttemptsOnlyLost(e)
  BY <1>w DEF AttemptsOnlyLost, Trying, AttemptOf
<1>1. ASSUME NEW p \in Post, StoreWebhookEvent(p) PROVE AttemptsOnlyLost(e)
  BY <1>1, <1>s, StoreRows
<1>2. ASSUME NEW p \in Post, MarkWebhookQueued(p) PROVE AttemptsOnlyLost(e)
  BY <1>2, <1>s, MarkRows
<1>3. ASSUME NEW p \in Post, RefusePost(p) PROVE AttemptsOnlyLost(e)
  BY <1>3, <1>s, RefuseRows
<1>4. CASE UNCHANGED <<event, worker>>
  BY <1>4, <1>s
<1>5. ASSUME NEW w \in Worker, DequeueWebhookEvent(w) PROVE AttemptsOnlyLost(e)
  BY <1>5, <1>w, DequeueRows DEF Trying
<1>6. ASSUME NEW w \in Worker, ClaimWebhookEvent(w) PROVE AttemptsOnlyLost(e)
  <2>1. worker[w].event # e
    BY <1>6
  <2>2. QED
    BY <1>6, <1>w, <2>1, ClaimRows DEF Trying
<1>7. ASSUME NEW w \in Worker, SkipEvent(w) \/ GiveUp(w) \/ WorkerFails(w)
      PROVE  AttemptsOnlyLost(e)
  BY <1>7, <1>w, DropRows DEF Trying
<1>8. ASSUME NEW w \in Worker, GetWebhookEvent(w) PROVE AttemptsOnlyLost(e)
  <2>1. AttemptOf(w)' = AttemptOf(w)
    BY <1>8, GetRows DEF AttemptOf
  <2>2. QED
    BY <1>8, <1>w, <2>1, GetRows DEF Trying
<1>9. ASSUME NEW w \in Worker, NEW status \in {"PROCESSED", "IGNORED"}, ProcessingEnds(w, status)
      PROVE  AttemptsOnlyLost(e)
  <2>1. event'[e].attempts = event[e].attempts
    BY <1>9, ProcessingEndsRows
  <2>2. QED
    BY <1>9, <1>w, <2>1, ProcessingEndsRows DEF Trying
<1>10. ASSUME NEW w \in Worker, ProcessingFails(w) PROVE AttemptsOnlyLost(e)
  <2>1. event'[e].attempts = event[e].attempts
    BY <1>10, ProcessingFailsRows
  <2>2. AttemptOf(w)' = AttemptOf(w)
    BY <1>10, ProcessingFailsRows DEF AttemptOf
  <2>3. QED
    BY <1>10, <1>w, <2>1, <2>2, ProcessingFailsRows DEF Trying
<1>11. ASSUME NEW w \in Worker, RequeueFailedWebhookEvent(w) PROVE AttemptsOnlyLost(e)
  <2>1. event'[e].attempts = event[e].attempts
    BY <1>11, RequeueRows
  <2>2. QED
    BY <1>11, <1>w, <2>1, RequeueRows DEF Trying
<1>12. ASSUME NEW w \in Worker, EnqueueAgain(w) PROVE AttemptsOnlyLost(e)
  BY <1>12, <1>w, EnqueueAgainRows DEF Trying
<1>13. QED
  BY <1>1, <1>2, <1>3, <1>4, <1>5, <1>6, <1>7, <1>8, <1>9, <1>10, <1>11, <1>12, NextCases
     DEF AcceptDuplicate, CrashPost, EnqueueWebhookEvent, EnqueueFails, DequeueReplyLost, vars

\* A claim of e starts the next attempt, which nobody has had.
LEMMA ClaimStartsNext ==
  ASSUME TypeOK, WorkersHaveEvents, ExclusiveClaims, NEW e \in Event, NEW w \in Worker,
         AttemptsDistinctOf(e), ClaimWebhookEvent(w), worker[w].event = e
  PROVE  /\ event[e].attempts \in Nat
         /\ AttemptOf(w)' = event[e].attempts + 1
         /\ \A v \in Worker \ {w} : Trying(v, e)' =>
              Trying(v, e) /\ AttemptOf(v)' = AttemptOf(v)
<1>1. event[e].attempts \in Nat
  BY DEF TypeOK, EventRow
<1>2. AttemptOf(w)' = event[e].attempts + 1
  BY ClaimRows DEF AttemptOf
<1>3. ASSUME NEW v \in Worker \ {w}, Trying(v, e)'
      PROVE  Trying(v, e) /\ AttemptOf(v)' = AttemptOf(v)
  <2>1. worker'[v] = worker[v]
    BY ClaimRows
  <2>2. worker[v].phase # "claimed"
    BY <1>3, <2>1, ClaimRows DEF ExclusiveClaims, InWork, Trying
  <2>3. QED
    BY <1>3, <2>1, <2>2 DEF Trying, AttemptOf
<1>4. QED
  BY <1>1, <1>2, <1>3

LEMMA DistinctStep ==
  ASSUME TypeOK, WorkersHaveEvents, ExclusiveClaims, ErrorsAreTrue, [Next]_vars,
         NEW e \in Event, AttemptsDistinctOf(e)
  PROVE  AttemptsDistinctOf(e)'
<1>1. ASSUME NEW w \in Worker, ClaimWebhookEvent(w), worker[w].event = e
      PROVE  AttemptsDistinctOf(e)'
  <2>1. PICK n \in Nat : n = event[e].attempts
    BY <1>1, ClaimStartsNext
  <2>2. event'[e].attempts = n + 1
    BY <1>1, <2>1, ClaimRows
  <2>3. /\ AttemptOf(w)' = n + 1
        /\ \A v \in Worker \ {w} : Trying(v, e)' => Trying(v, e) /\ AttemptOf(v)' = AttemptOf(v)
    BY <1>1, <2>1, ClaimStartsNext
  <2>4. \A v \in Worker : Trying(v, e) => AttemptOf(v) \in 1 .. n
    BY <2>1 DEF AttemptsDistinctOf
  <2>5. ASSUME NEW v \in Worker, Trying(v, e)'
        PROVE  /\ AttemptOf(v)' \in 1 .. n + 1
               /\ \A u \in Worker \ {v} : Trying(u, e)' => AttemptOf(u)' # AttemptOf(v)'
    <3>1. CASE v = w
      BY <2>1, <2>3, <2>4, <3>1
    <3>2. CASE v # w
      <4>1. AttemptOf(v)' = AttemptOf(v) /\ AttemptOf(v) \in 1 .. n /\ Trying(v, e)
        BY <2>3, <2>4, <2>5, <3>2
      <4>2. ASSUME NEW u \in Worker \ {v}, Trying(u, e)' PROVE AttemptOf(u)' # AttemptOf(v)'
        <5>1. CASE u = w
          BY <2>1, <2>3, <4>1, <5>1
        <5>2. CASE u # w
          BY <2>3, <4>1, <4>2, <5>2 DEF AttemptsDistinctOf
        <5>3. QED
          BY <5>1, <5>2
      <4>3. QED
        BY <2>1, <4>1, <4>2
    <3>3. QED
      BY <3>1, <3>2
  <2>6. QED
    BY <2>2, <2>5 DEF AttemptsDistinctOf
<1>2. CASE ~ \E w \in Worker : ClaimWebhookEvent(w) /\ worker[w].event = e
  BY <1>2, OnlyClaimsStartAttempts, DistinctIfLost
<1>3. QED
  BY <1>1, <1>2

\* What is counted is finite.
LEMMA CountsFinite ==
  ASSUME IsFiniteSet(Post), NEW e \in Event
  PROVE  /\ IsFiniteSet(Marks(e)) /\ IsFiniteSet(Marks(e)')
         /\ IsFiniteSet(MayLeadToRetry(e)) /\ IsFiniteSet(MayLeadToRetry(e)')
<1>1. IsFiniteSet(1 .. MaxAttempts - 1)
  BY WebhookQueueAssumption, FS_Interval
<1>2. /\ MayLeadToRetry(e) \in SUBSET (1 .. MaxAttempts - 1)
      /\ MayLeadToRetry(e)' \in SUBSET (1 .. MaxAttempts - 1)
      /\ Marks(e) \in SUBSET Post
      /\ Marks(e)' \in SUBSET Post
  BY DEF MayLeadToRetry, Marks
<1>3. QED
  BY <1>1, <1>2, FS_Subset

\* A call that has queued its event does not take that back.
LEMMA MarksGrow ==
  ASSUME TypeOK, ~RepliesLost, CallsMarkOnce, [Next]_vars, NEW e \in Event
  PROVE  Marks(e) \subseteq Marks(e)'
<1> SUFFICES ASSUME NEW q \in Post, post[q].claimed PROVE post'[q].claimed
  BY DEF Marks
<1>1. ASSUME NEW p \in Post, StoreWebhookEvent(p) PROVE post'[q].claimed
  BY <1>1, StoreRows
<1>2. ASSUME NEW p \in Post, MarkWebhookQueued(p) PROVE post'[q].claimed
  BY <1>2, MarkRows
<1>3. ASSUME NEW p \in Post, AcceptDuplicate(p) \/ CrashPost(p) PROVE post'[q].claimed
  BY <1>3, PostEndsRows
<1>4. ASSUME NEW p \in Post, EnqueueWebhookEvent(p) PROVE post'[q].claimed
  BY <1>4, EnqueueRows
<1>5. ASSUME NEW p \in Post, EnqueueFails(p) PROVE post'[q].claimed
  BY <1>5, EnqueueFailsRows
<1>6. ASSUME NEW p \in Post, RefusePost(p) PROVE post'[q].claimed
  BY <1>6, RefuseRows
<1>7. CASE post' = post
  BY <1>7
<1>8. QED
  BY <1>1, <1>2, <1>3, <1>4, <1>5, <1>6, <1>7, NextCases
     DEF DequeueWebhookEvent, DequeueReplyLost, ClaimWebhookEvent, SkipEvent, GiveUp,
         WorkerFails, GetWebhookEvent, ProcessingEnds, ProcessingFails,
         RequeueFailedWebhookEvent, EnqueueAgain, vars

\* Only a call that queues e and a worker that retries e make it QUEUED.
LEMMA BecomesQueued ==
  ASSUME TypeOK, WorkersHaveEvents, ~RepliesLost, [Next]_vars,
         NEW e \in Event, event[e].status # "QUEUED", event'[e].status = "QUEUED"
  PROVE  \/ \E p \in Post : MarkWebhookQueued(p) /\ EventOf[p] = e
         \/ \E w \in Worker : RequeueFailedWebhookEvent(w) /\ worker[w].event = e
<1>1. ASSUME NEW p \in Post, StoreWebhookEvent(p) PROVE FALSE
  BY <1>1, StoreRows
<1>2. ASSUME NEW p \in Post, MarkWebhookQueued(p) PROVE EventOf[p] = e
  BY <1>2, MarkRows
<1>3. ASSUME NEW p \in Post, RefusePost(p) PROVE FALSE
  BY <1>3, RefuseRows
<1>4. ASSUME NEW w \in Worker, ClaimWebhookEvent(w) PROVE FALSE
  BY <1>4, ClaimRows
<1>5. ASSUME NEW w \in Worker, NEW status \in {"PROCESSED", "IGNORED"}, ProcessingEnds(w, status)
      PROVE  FALSE
  BY <1>5, ProcessingEndsRows
<1>6. ASSUME NEW w \in Worker, ProcessingFails(w) PROVE FALSE
  BY <1>6, ProcessingFailsRows
<1>7. ASSUME NEW w \in Worker, RequeueFailedWebhookEvent(w) PROVE worker[w].event = e
  BY <1>7, RequeueRows
<1>8. QED
  BY <1>1, <1>2, <1>3, <1>4, <1>5, <1>6, <1>7, NextCases
     DEF AcceptDuplicate, CrashPost, EnqueueWebhookEvent, EnqueueFails, DequeueWebhookEvent,
         DequeueReplyLost, SkipEvent, GiveUp, WorkerFails, GetWebhookEvent, EnqueueAgain, vars

\* A mark pays for the attempt it makes due, a claim turns an attempt that is
\* due into one that is made, and a retry uses its attempt up.
LEMMA CountedStep ==
  ASSUME TypeOK, WorkersHaveEvents, ExclusiveClaims, ErrorsAreTrue, CallsMarkOnce,
         IsFiniteSet(Post), [Next]_vars,
         NEW e \in Event, AttemptsDistinctOf(e), AttemptsCountedOf(e)
  PROVE  AttemptsCountedOf(e)'
<1>f. ~RepliesLost
  BY TrueErrors
<1>t. /\ event[e].attempts \in Nat
      /\ MaxAttempts \in Nat \ {0}
      /\ Cardinality(Marks(e)) \in Nat
      /\ Cardinality(Marks(e)') \in Nat
      /\ Cardinality(MayLeadToRetry(e)) \in Nat
      /\ Cardinality(MayLeadToRetry(e)') \in Nat
  BY WebhookQueueAssumption, CountsFinite, FS_CardinalityType DEF TypeOK, EventRow
<1>m. Cardinality(Marks(e)) <= Cardinality(Marks(e)')
  BY <1>f, MarksGrow, CountsFinite, FS_Subset
<1>1. ASSUME NEW w \in Worker, ClaimWebhookEvent(w), worker[w].event = e
      PROVE  AttemptsCountedOf(e)'
  <2>1. PICK n \in Nat : n = event[e].attempts
    BY <1>t
  <2>2. /\ event'[e].attempts = n + 1
        /\ event[e].status = "QUEUED" /\ event'[e].status = "PROCESSING"
    BY <1>1, <2>1, ClaimRows
  <2>3. MayLeadToRetry(e)' \subseteq MayLeadToRetry(e)
    <3>1. /\ AttemptOf(w)' = n + 1
          /\ \A v \in Worker \ {w} : Trying(v, e)' =>
               Trying(v, e) /\ AttemptOf(v)' = AttemptOf(v)
      BY <1>1, <2>1, ClaimStartsNext
    <3>2. ASSUME NEW k \in MayLeadToRetry(e)' PROVE k \in MayLeadToRetry(e)
      <4>1. /\ k \in 1 .. MaxAttempts - 1
            /\ \/ k > n + 1
               \/ \E v \in Worker : Trying(v, e)' /\ AttemptOf(v)' = k
        BY <2>2, <3>2 DEF MayLeadToRetry
      <4>2. CASE k > n
        BY <2>1, <4>1, <4>2 DEF MayLeadToRetry
      <4>3. CASE ~(k > n)
        <5>1. PICK v \in Worker : Trying(v, e)' /\ AttemptOf(v)' = k
          BY <1>t, <4>1, <4>3
        <5>2. v # w
          BY <1>t, <3>1, <4>1, <4>3, <5>1
        <5>3. Trying(v, e) /\ AttemptOf(v) = k
          BY <3>1, <5>1, <5>2
        <5>4. QED
          BY <4>1, <5>3 DEF MayLeadToRetry
      <4>4. QED
        BY <4>2, <4>3
    <3>3. QED
      BY <3>2
  <2>4. Cardinality(MayLeadToRetry(e)') <= Cardinality(MayLeadToRetry(e))
    BY <2>3, CountsFinite, FS_Subset
  <2>5. QED
    BY <1>t, <1>m, <2>1, <2>2, <2>4 DEF AttemptsCountedOf
<1>2. CASE ~ \E w \in Worker : ClaimWebhookEvent(w) /\ worker[w].event = e
  <2>1. AttemptsOnlyLost(e)
    BY <1>2, OnlyClaimsStartAttempts
  <2>2. event'[e].attempts = event[e].attempts
    BY <2>1 DEF AttemptsOnlyLost
  <2>3. Cardinality(MayLeadToRetry(e)') <= Cardinality(MayLeadToRetry(e))
    BY <2>1, RetriesIfLost, CountsFinite, FS_Subset
  <2>4. CASE event'[e].status # "QUEUED" \/ event[e].status = "QUEUED"
    BY <1>t, <1>m, <2>2, <2>3, <2>4 DEF AttemptsCountedOf
  <2>5. ASSUME event[e].status # "QUEUED", event'[e].status = "QUEUED",
               NEW p \in Post, MarkWebhookQueued(p), EventOf[p] = e
        PROVE  AttemptsCountedOf(e)'
    <3>1. p \notin Marks(e)
      BY <2>5, MarkRows DEF Marks, CallsMarkOnce
    <3>2. Marks(e) \cup {p} \subseteq Marks(e)'
      BY <1>f, <2>5, MarksGrow, MarkRows DEF Marks
    <3>3. Cardinality(Marks(e)) + 1 <= Cardinality(Marks(e)')
      <4>1. Cardinality(Marks(e) \cup {p}) = Cardinality(Marks(e)) + 1
        BY <3>1, CountsFinite, FS_AddElement
      <4>2. Cardinality(Marks(e) \cup {p}) <= Cardinality(Marks(e)')
        BY <3>2, CountsFinite, FS_Subset
      <4>3. QED
        BY <4>1, <4>2
    <3>4. QED
      BY <1>t, <2>2, <2>3, <2>5, <3>3 DEF AttemptsCountedOf
  <2>6. ASSUME event[e].status # "QUEUED", event'[e].status = "QUEUED",
               NEW w \in Worker, RequeueFailedWebhookEvent(w), worker[w].event = e
        PROVE  AttemptsCountedOf(e)'
    <3>1. PICK n \in Nat : n = worker[w].attempt
      BY DEF TypeOK, WorkerState
    <3>2. /\ Trying(w, e) /\ AttemptOf(w) = n /\ n < MaxAttempts
          /\ ~Trying(w, e)'
      BY <2>6, <3>1, RequeueRows DEF Trying, AttemptOf
    <3>3. n \in 1 .. event[e].attempts
      BY <3>2 DEF AttemptsDistinctOf
    <3>4. n \in MayLeadToRetry(e)
      BY <1>t, <3>2, <3>3 DEF MayLeadToRetry
    <3>5. n \notin MayLeadToRetry(e)'
      <4>1. ~(n > event'[e].attempts)
        BY <1>t, <2>2, <3>3
      <4>2. \A v \in Worker : Trying(v, e)' => AttemptOf(v)' # n
        BY <2>1, <3>2 DEF AttemptsOnlyLost, AttemptsDistinctOf
      <4>3. QED
        BY <4>1, <4>2 DEF MayLeadToRetry
    <3>6. MayLeadToRetry(e)' \subseteq MayLeadToRetry(e) \ {n}
      BY <2>1, <3>5, RetriesIfLost
    <3>7. Cardinality(MayLeadToRetry(e)') <= Cardinality(MayLeadToRetry(e)) - 1
      <4>1. /\ IsFiniteSet(MayLeadToRetry(e) \ {n})
            /\ Cardinality(MayLeadToRetry(e) \ {n}) = Cardinality(MayLeadToRetry(e)) - 1
        BY <3>4, CountsFinite, FS_RemoveElement
      <4>2. Cardinality(MayLeadToRetry(e)') <= Cardinality(MayLeadToRetry(e) \ {n})
        BY <3>6, <4>1, FS_Subset
      <4>3. QED
        BY <4>1, <4>2
    <3>8. QED
      BY <1>t, <1>m, <2>2, <2>6, <3>7 DEF AttemptsCountedOf
  <2>7. QED
    BY <1>f, <2>4, <2>5, <2>6, BecomesQueued
<1>3. QED
  BY <1>1, <1>2

-----------------------------------------------------------------------------
(***************************************************************************)
(* The theorems.                                                           *)
(***************************************************************************)

LEMMA QueueInvariantInit == Init => QueueRules
<1> SUFFICES ASSUME Init PROVE QueueRules
  OBVIOUS
<1>1. /\ \A w \in Worker : worker[w].phase = "idle"
      /\ \A p \in Post : post[p].phase = "new" /\ ~post[p].claimed
      /\ \A e \in Event : event[e].status = "ABSENT" /\ event[e].attempts = 0
      /\ queue = <<>>
  BY DEF Init, Idle
<1>2. WorkersHaveEvents /\ ExclusiveClaims /\ CallsMarkOnce
  BY <1>1 DEF WorkersHaveEvents, ExclusiveClaims, InWork, CallsMarkOnce
<1>3. CarriersOK
  BY <1>1 DEF CarriersOK, OneCarrierOf, Pushing, Carrying, Listed
<1>4. ASSUME NEW e \in Event PROVE AttemptsDistinctOf(e)
  BY <1>1 DEF AttemptsDistinctOf, Trying
<1>5. ASSUME NEW e \in Event PROVE AttemptsCountedOf(e)
  <2>1. Marks(e) = {}
    BY <1>1 DEF Marks
  <2>2. Cardinality(MayLeadToRetry(e)) <= MaxAttempts - 1
    <3>1. MayLeadToRetry(e) \in SUBSET (1 .. MaxAttempts - 1)
      BY DEF MayLeadToRetry
    <3>2. /\ IsFiniteSet(1 .. MaxAttempts - 1)
          /\ Cardinality(1 .. MaxAttempts - 1) = MaxAttempts - 1
      BY WebhookQueueAssumption, FS_Interval
    <3>3. QED
      BY <3>1, <3>2, FS_Subset
  <2>3. Cardinality(MayLeadToRetry(e)) \in Nat
    <3>1. IsFiniteSet(MayLeadToRetry(e))
      <4>1. IsFiniteSet(1 .. MaxAttempts - 1)
        BY WebhookQueueAssumption, FS_Interval
      <4>2. MayLeadToRetry(e) \in SUBSET (1 .. MaxAttempts - 1)
        BY DEF MayLeadToRetry
      <4>3. QED
        BY <4>1, <4>2, FS_Subset
    <3>2. QED
      BY <3>1, FS_CardinalityType
  <2>4. Cardinality(Marks(e)) = 0
    BY <2>1, FS_EmptySet
  <2>5. QED
    BY <1>1, <2>2, <2>3, <2>4, WebhookQueueAssumption DEF AttemptsCountedOf
<1>6. QED
  BY <1>2, <1>3, <1>4, <1>5 DEF QueueRules

\* The faults are those of the initial state.
LEMMA FaultsConstant ==
  ASSUME [Next]_vars
  PROVE  faults' = faults
BY NextCases DEF vars, StoreWebhookEvent, MarkWebhookQueued, AcceptDuplicate, EnqueueWebhookEvent,
       EnqueueFails, RefusePost, CrashPost, DequeueWebhookEvent, DequeueReplyLost,
       ClaimWebhookEvent, SkipEvent, GetWebhookEvent, ProcessingEnds, ProcessingFails,
       RequeueFailedWebhookEvent, GiveUp, EnqueueAgain, WorkerFails

LEMMA QueueInvariantStep ==
  ASSUME IsFiniteSet(Post)
  PROVE  TypeOK /\ QueueRules /\ [Next]_vars => QueueRules'
<1> SUFFICES ASSUME TypeOK, QueueRules, [Next]_vars PROVE QueueRules'
  OBVIOUS
<1>1. WorkersHaveEvents
  BY DEF QueueRules
<1>2. WorkersHaveEvents'
  BY <1>1, TypeStep
<1>3. ASSUME ErrorsAreTrue'
      PROVE  /\ ExclusiveClaims' /\ CarriersOK' /\ CallsMarkOnce'
             /\ \A e \in Event : AttemptsDistinctOf(e)' /\ AttemptsCountedOf(e)'
  <2>1. ErrorsAreTrue
    BY <1>3, FaultsConstant DEF ErrorsAreTrue, RepliesLost, QueueFails, Resends
  <2>2. /\ ExclusiveClaims /\ CarriersOK /\ CallsMarkOnce
        /\ \A e \in Event : AttemptsDistinctOf(e) /\ AttemptsCountedOf(e)
    BY <2>1 DEF QueueRules
  <2>3. ExclusiveClaims' /\ CarriersOK' /\ CallsMarkOnce'
    BY <1>1, <2>1, <2>2, ClaimStep, CarriersStep, CallsMarkOnceStep, TrueErrors
  <2>4. ASSUME NEW e \in Event PROVE AttemptsDistinctOf(e)' /\ AttemptsCountedOf(e)'
    BY <1>1, <2>1, <2>2, DistinctStep, CountedStep
  <2>5. QED
    BY <2>3, <2>4
<1>4. QED
  BY <1>2, <1>3 DEF QueueRules

\* With finitely many calls, and as long as Redis tells the truth about its
\* errors and does not both refuse and repeat pushes, one worker at a time has
\* an event, and its attempts are accounted for: in spite of crashes,
\* repeated calls and retries.
THEOREM QueueInvariantHolds ==
  ASSUME IsFiniteSet(Post)
  PROVE  Spec => []QueueInvariant
<1>1. Init => TypeOK /\ QueueRules
  BY TypeInit, QueueInvariantInit
<1>2. TypeOK /\ QueueRules /\ [Next]_vars => (TypeOK /\ QueueRules)'
  <2>1. QueueRules => WorkersHaveEvents
    BY DEF QueueRules
  <2>2. QED
    BY <2>1, TypeStep, QueueInvariantStep
<1>3. QED
  BY <1>1, <1>2, PTL DEF Spec, QueueInvariant

\* No two workers have the same event in work.
THEOREM ClaimExclusive ==
  ASSUME IsFiniteSet(Post)
  PROVE  Spec => []ClaimIsExclusive
<1>1. QueueRules => ClaimIsExclusive
  BY DEF QueueRules, ClaimIsExclusive
<1>2. QED
  BY <1>1, QueueInvariantHolds, PTL DEF QueueInvariant

\* The retries of an event are bounded by MAX_ATTEMPTS, however many workers
\* retry it and however often it is posted.
THEOREM BoundedAttempts ==
  ASSUME IsFiniteSet(Post)
  PROVE  Spec => []AttemptsBounded
<1>1. TypeOK /\ QueueRules => AttemptsBounded
  <2> SUFFICES ASSUME TypeOK, QueueRules, ErrorsAreTrue, NEW e \in Event
               PROVE  event[e].attempts < Cardinality(Marks(e)) + MaxAttempts
    BY DEF AttemptsBounded
  <2>1. /\ event[e].attempts \in Nat
        /\ Cardinality(Marks(e)) \in Nat
        /\ Cardinality(MayLeadToRetry(e)) \in Nat
        /\ MaxAttempts \in Nat \ {0}
    BY WebhookQueueAssumption, CountsFinite, FS_CardinalityType DEF TypeOK, EventRow
  <2>2. AttemptsCountedOf(e)
    BY DEF QueueRules
  <2>3. QED
    BY <2>1, <2>2 DEF AttemptsCountedOf
<1>2. QED
  BY <1>1, QueueInvariantHolds, PTL DEF QueueInvariant

LEMMA ProcessedStep ==
  ASSUME TypeOK, QueueRules, ErrorsAreTrue, [Next]_vars,
         NEW e \in Event, event[e].status \in {"PROCESSED", "IGNORED"}
  PROVE  event'[e] = event[e]
<1>1. WorkersHaveEvents /\ ExclusiveClaims /\ CarriersOK
  BY DEF QueueRules
<1>2. ASSUME NEW p \in Post, StoreWebhookEvent(p) PROVE event'[e] = event[e]
  BY <1>2, StoreRows
<1>3. ASSUME NEW p \in Post, MarkWebhookQueued(p) PROVE event'[e] = event[e]
  BY <1>3, MarkRows
\* The event of a call that failed to push it is still QUEUED.
<1>4. ASSUME NEW p \in Post, RefusePost(p) PROVE event'[e] = event[e]
  BY <1>1, <1>4, RefuseRows, FailingNotInWork
<1>5. ASSUME NEW w \in Worker, ClaimWebhookEvent(w) PROVE event'[e] = event[e]
  BY <1>1, <1>5, ClaimRows
<1>6. ASSUME NEW w \in Worker, NEW status \in {"PROCESSED", "IGNORED"}, ProcessingEnds(w, status)
      PROVE  event'[e] = event[e]
  <2>1. event[worker[w].event].status = "PROCESSING"
    BY <1>1, <1>6, ProcessingEndsRows DEF ExclusiveClaims, InWork
  <2>2. QED
    BY <1>1, <1>6, <2>1, ProcessingEndsRows
<1>7. ASSUME NEW w \in Worker, ProcessingFails(w) PROVE event'[e] = event[e]
  <2>1. event[worker[w].event].status = "PROCESSING"
    BY <1>1, <1>7, ProcessingFailsRows DEF ExclusiveClaims, InWork
  <2>2. QED
    BY <1>1, <1>7, <2>1, ProcessingFailsRows
<1>8. ASSUME NEW w \in Worker, RequeueFailedWebhookEvent(w) PROVE event'[e] = event[e]
  BY <1>1, <1>8, RequeueRows
<1>9. QED
  BY <1>2, <1>3, <1>4, <1>5, <1>6, <1>7, <1>8, NextCases
     DEF AcceptDuplicate, CrashPost, EnqueueWebhookEvent, EnqueueFails, DequeueWebhookEvent,
         DequeueReplyLost, SkipEvent, GiveUp, WorkerFails, GetWebhookEvent, EnqueueAgain, vars

\* A processed event is neither processed again nor reported as failed, as long
\* as Redis tells the truth about its errors.
THEOREM ProcessedStays ==
  ASSUME IsFiniteSet(Post)
  PROVE  Spec => ProcessedIsKept
<1>1. TypeOK /\ QueueRules /\ [Next]_vars =>
        [ErrorsAreTrue =>
           \A e \in Event :
             event[e].status \in {"PROCESSED", "IGNORED"} => event'[e] = event[e]]_vars
  BY ProcessedStep
<1>2. QED
  BY <1>1, QueueInvariantHolds, PTL DEF QueueInvariant, Spec, ProcessedIsKept

-----------------------------------------------------------------------------
(***************************************************************************)
(* No event is left that nobody will touch.                                *)
(***************************************************************************)

\* A push Redis does not refuse puts the event into the list, however it is
\* reported, and takes nothing out.
LEMMA PushLists ==
  ASSUME TypeOK, ~QueueFails, NEW e \in Event, Pushed(e) \/ PushFailed(e)
  PROVE  /\ Listed(e)'
         /\ \A f \in Event : Listed(f) => Listed(f)'
<1>1. queue \in Seq(Event) /\ Len(queue) \in Nat /\ DOMAIN queue = 1 .. Len(queue)
  BY DEF TypeOK
<1>2. CASE queue' = Append(queue, e)
  BY <1>1, <1>2, AppendRows DEF Listed
<1>3. CASE queue' = queue \o <<e, e>>
  <2>1. /\ Len(queue) + 1 \in DOMAIN queue'
        /\ queue'[Len(queue) + 1] = e
        /\ \A i \in DOMAIN queue : i \in DOMAIN queue' /\ queue'[i] = queue[i]
    BY <1>1, <1>3
  <2>2. QED
    BY <2>1 DEF Listed
<1>4. QED
  BY <1>2, <1>3 DEF Pushed, PushFailed

\* BLPOP hands the head of the list to a worker.
LEMMA TailLists ==
  ASSUME NEW w \in Worker, TypeOK, DequeueWebhookEvent(w), NEW e \in Event, Listed(e)
  PROVE  Listed(e)' \/ Carrying(w, e)'
<1>1. /\ queue \in Seq(Event) /\ queue # <<>> /\ queue' = Tail(queue)
      /\ worker'[w].phase = "popped" /\ worker'[w].event = Head(queue)
  BY DequeueRows DEF TypeOK
<1>2. PICK i \in DOMAIN queue : queue[i] = e
  BY DEF Listed
<1>3. CASE i = 1
  BY <1>1, <1>2, <1>3 DEF Carrying
<1>4. CASE i # 1
  <2>1. i - 1 \in DOMAIN Tail(queue) /\ Tail(queue)[i - 1] = queue[i]
    BY <1>1, <1>2, <1>4
  <2>2. QED
    BY <1>1, <1>2, <2>1 DEF Listed
<1>5. QED
  BY <1>3, <1>4

\* A step that neither changes an event nor takes it from anybody
LEMMA StillCarried ==
  ASSUME NEW e \in Event, IsCarried(e), event'[e].status = event[e].status,
         \A p \in Post : post[p].phase \in {"stored", "marked"} /\ EventOf[p] = e =>
                           post'[p].phase = post[p].phase,
         Listed(e) => Listed(e)',
         \A w \in Worker : worker[w].event = e =>
           /\ Carrying(w, e) => Carrying(w, e)' \/ Listed(e)'
           /\ InWork(w) => InWork(w)' /\ worker'[w].event = e
  PROVE  IsCarried(e)'
BY DEF IsCarried, Carrying

LEMMA PostLeavesCarried ==
  ASSUME TypeOK, WorkersHaveEvents, NothingIsLost,
         NEW p \in Post, StoreWebhookEvent(p) \/ PostStep(p),
         NEW e \in Event, IsCarried(e)
  PROVE  IsCarried(e)'
<1>f. ~QueueFails
  BY DEF NothingIsLost
<1>1. CASE StoreWebhookEvent(p)
  <2>1. CASE event[e].status = "ABSENT" /\ EventOf[p] = e
    <3>1. event'[e].status = "RECEIVED"
      BY <1>1, <2>1 DEF StoreWebhookEvent, TypeOK, EventRow
    <3>2. QED
      BY <1>1, <2>1, <3>1, StoreRows DEF IsCarried
  <2>2. CASE ~(event[e].status = "ABSENT" /\ EventOf[p] = e)
    <3>1. event'[e] = event[e]
      BY <1>1, <2>2 DEF StoreWebhookEvent, TypeOK
    <3>2. QED
      BY <1>1, <3>1, StoreRows, StillCarried DEF Carrying, InWork, Listed
  <2>3. QED
    BY <2>1, <2>2
<1>2. CASE MarkWebhookQueued(p)
  <2>1. CASE EventOf[p] = e
    BY <1>2, <2>1, MarkRows DEF IsCarried
  <2>2. CASE EventOf[p] # e
    BY <1>2, <2>2, MarkRows, StillCarried DEF Carrying, InWork, Listed
  <2>3. QED
    BY <2>1, <2>2
\* A call leaves an event to another only if it is not RECEIVED any more.
<1>3. CASE AcceptDuplicate(p)
  <2>1. /\ post[p].phase = "stored"
        /\ EventOf[p] = e => event[e].status # "RECEIVED"
        /\ \A q \in Post \ {p} : post'[q] = post[q]
        /\ event' = event /\ queue' = queue /\ worker' = worker
    BY <1>3, PostEndsRows DEF AcceptDuplicate, Markable
  <2>2. \A q \in Post : q # p => post'[q] = post[q]
    BY <2>1
  <2>3. CASE EventOf[p] = e
    BY <2>1, <2>2, <2>3 DEF IsCarried, Listed, Carrying, InWork
  <2>4. CASE EventOf[p] # e
    BY <2>1, <2>4, StillCarried DEF Carrying, InWork, Listed
  <2>5. QED
    BY <2>3, <2>4
<1>4. CASE EnqueueWebhookEvent(p) \/ EnqueueFails(p)
  <2>1. /\ EventOf[p] \in Event /\ post[p].phase = "marked"
        /\ Pushed(EventOf[p]) \/ PushFailed(EventOf[p])
        /\ \A q \in Post \ {p} : post'[q] = post[q]
        /\ event' = event /\ worker' = worker
    BY <1>4, WebhookQueueAssumption, PostMoves DEF EnqueueWebhookEvent, EnqueueFails
  <2>2. /\ Listed(EventOf[p])'
        /\ Listed(e) => Listed(e)'
    BY <1>f, <2>1, PushLists
  <2>3. CASE EventOf[p] = e
    BY <2>1, <2>2, <2>3 DEF IsCarried, Carrying, InWork
  <2>4. CASE EventOf[p] # e
    BY <2>1, <2>2, <2>4, StillCarried DEF Carrying, InWork
  <2>5. QED
    BY <2>3, <2>4
<1>5. CASE RefusePost(p)
  <2>1. CASE EventOf[p] = e
    BY <1>5, <2>1, RefuseRows DEF IsCarried
  <2>2. CASE EventOf[p] # e
    BY <1>5, <2>2, RefuseRows, StillCarried DEF Carrying, InWork, Listed
  <2>3. QED
    BY <2>1, <2>2
<1>6. QED
  BY <1>1, <1>2, <1>3, <1>4, <1>5 DEF PostStep

LEMMA WorkerLeavesCarried ==
  ASSUME TypeOK, WorkersHaveEvents, NothingIsLost,
         NEW w \in Worker, WorkerStep(w), NEW e \in Event, IsCarried(e)
  PROVE  IsCarried(e)'
<1>f. ~Crashes /\ ~QueueFails
  BY DEF NothingIsLost
<1>1. CASE DequeueWebhookEvent(w)
  <2>1. worker[w].phase = "idle"
    BY <1>1 DEF DequeueWebhookEvent
  <2>2. Listed(e) => Listed(e)' \/ Carrying(w, e)'
    BY <1>1, TailLists
  <2>3. /\ event' = event /\ post' = post
        /\ \A v \in Worker : v # w => worker'[v] = worker[v]
    BY <1>1, DequeueRows
  <2>4. \A v \in Worker : Carrying(v, e) => Carrying(v, e)'
    BY <2>1, <2>3 DEF Carrying
  <2>5. \A v \in Worker : InWork(v) /\ worker[v].event = e => InWork(v)' /\ worker'[v].event = e
    BY <2>1, <2>3 DEF InWork
  <2>6. QED
    BY <2>2, <2>3, <2>4, <2>5 DEF IsCarried
<1>2. CASE ClaimWebhookEvent(w)
  <2>1. CASE worker[w].event = e
    BY <1>2, <2>1, ClaimRows DEF IsCarried, InWork
  <2>2. CASE worker[w].event # e
    <3>1. /\ event'[e] = event[e] /\ queue' = queue /\ post' = post
          /\ \A v \in Worker : v # w => worker'[v] = worker[v]
      BY <1>2, <2>2, ClaimRows
    <3>2. \A v \in Worker : worker[v].event = e => worker'[v] = worker[v]
      BY <2>2, <3>1
    <3>3. QED
      BY <3>1, <3>2, StillCarried DEF Carrying, InWork, Listed
  <2>3. QED
    BY <2>1, <2>2
\* The worker skips an event only if it is not QUEUED any more, and gives up one
\* that it has not in work any more.
<1>3. CASE SkipEvent(w) \/ GiveUp(w)
  <2>1. /\ event' = event /\ queue' = queue /\ post' = post
        /\ \A v \in Worker : v # w => worker'[v] = worker[v]
    BY <1>3, DropRows
  <2>2. /\ ~InWork(w)
        /\ Carrying(w, e) => event[e].status # "QUEUED"
    BY <1>3 DEF SkipEvent, GiveUp, Claimable, InWork, Carrying
  <2>3. QED
    BY <2>1, <2>2 DEF IsCarried, Listed, Carrying, InWork
<1>4. CASE GetWebhookEvent(w)
  <2>1. /\ event' = event /\ queue' = queue /\ post' = post
        /\ \A v \in Worker : v # w => worker'[v] = worker[v]
        /\ InWork(w) /\ InWork(w)' /\ worker'[w].event = worker[w].event /\ ~Carrying(w, e)
    BY <1>4, GetRows DEF InWork, Carrying
  <2>2. QED
    BY <2>1, StillCarried DEF Carrying, InWork, Listed
<1>5. ASSUME NEW status \in {"PROCESSED", "IGNORED"}, ProcessingEnds(w, status)
      PROVE  IsCarried(e)'
  <2>1. CASE worker[w].event = e
    BY <1>5, <2>1, ProcessingEndsRows DEF IsCarried
  <2>2. CASE worker[w].event # e
    <3>1. /\ event'[e] = event[e] /\ queue' = queue /\ post' = post
          /\ \A v \in Worker : v # w => worker'[v] = worker[v]
      BY <1>5, <2>2, ProcessingEndsRows
    <3>2. \A v \in Worker : worker[v].event = e => worker'[v] = worker[v]
      BY <2>2, <3>1
    <3>3. QED
      BY <3>1, <3>2, StillCarried DEF Carrying, InWork, Listed
  <2>3. QED
    BY <2>1, <2>2
\* Without a crash the failure is stored.
<1>6. CASE ProcessingFails(w)
  <2>0. event'[worker[w].event].status = "FAILED"
    BY <1>f, <1>6 DEF ProcessingFails, Completed, WorkersHaveEvents, TypeOK, EventRow
  <2>1. CASE worker[w].event = e
    BY <2>0, <2>1 DEF IsCarried
  <2>2. CASE worker[w].event # e
    <3>1. /\ event'[e] = event[e] /\ queue' = queue /\ post' = post
          /\ \A v \in Worker : v # w => worker'[v] = worker[v]
      BY <1>6, <2>2, ProcessingFailsRows
    <3>2. \A v \in Worker : worker[v].event = e => worker'[v] = worker[v]
      BY <2>2, <3>1
    <3>3. QED
      BY <3>1, <3>2, StillCarried DEF Carrying, InWork, Listed
  <2>3. QED
    BY <2>1, <2>2
<1>7. CASE RequeueFailedWebhookEvent(w)
  <2>1. CASE worker[w].event = e
    BY <1>7, <2>1, RequeueRows DEF IsCarried, Carrying
  <2>2. CASE worker[w].event # e
    <3>1. /\ event'[e] = event[e] /\ queue' = queue /\ post' = post
          /\ \A v \in Worker : v # w => worker'[v] = worker[v]
      BY <1>7, <2>2, RequeueRows
    <3>2. \A v \in Worker : worker[v].event = e => worker'[v] = worker[v]
      BY <2>2, <3>1
    <3>3. QED
      BY <3>1, <3>2, StillCarried DEF Carrying, InWork, Listed
  <2>3. QED
    BY <2>1, <2>2
<1>8. CASE EnqueueAgain(w)
  <2>1. PICK f \in Event : f = worker[w].event
    BY <1>8, EnqueueAgainRows
  <2>2. /\ event' = event /\ post' = post /\ worker[w].phase = "requeued"
        /\ Pushed(f) \/ PushFailed(f)
        /\ \A v \in Worker : v # w => worker'[v] = worker[v]
    BY <1>8, <2>1, EnqueueAgainRows
  <2>3. /\ Listed(f)'
        /\ Listed(e) => Listed(e)'
    BY <1>f, <2>2, PushLists
  <2>4. QED
    BY <2>1, <2>2, <2>3, StillCarried DEF Carrying, InWork
<1>9. QED
  BY <1>1, <1>2, <1>3, <1>4, <1>5, <1>6, <1>7, <1>8 DEF WorkerStep

\* The safety core of EventsConclude: without crashes, refused pushes and lost
\* replies to BLPOP an event that is RECEIVED, QUEUED or PROCESSING is with a
\* call, a worker or in the list, whichever pushes Redis repeats or reports
\* wrongly.
THEOREM NoEventIsLeft == Spec => []UnfinishedIsCarried
<1>1. Init => UnfinishedIsCarried
  BY DEF Init, UnfinishedIsCarried, IsCarried
<1>2. TypeOK /\ WorkersHaveEvents /\ UnfinishedIsCarried /\ [Next]_vars => UnfinishedIsCarried'
  <2> SUFFICES ASSUME TypeOK, WorkersHaveEvents, UnfinishedIsCarried, [Next]_vars,
                      NothingIsLost', NEW e \in Event
               PROVE  IsCarried(e)'
    BY DEF UnfinishedIsCarried
  <2>1. NothingIsLost
    BY FaultsConstant DEF NothingIsLost, Crashes, QueueFails, PopsLost
  <2>2. IsCarried(e)
    BY <2>1 DEF UnfinishedIsCarried
  <2>3. ~Crashes /\ ~PopsLost
    BY <2>1 DEF NothingIsLost
  <2>4. ASSUME NEW p \in Post, StoreWebhookEvent(p) \/ PostStep(p) \/ CrashPost(p)
        PROVE  IsCarried(e)'
    BY <2>1, <2>2, <2>3, <2>4, PostLeavesCarried DEF CrashPost
  <2>5. ASSUME NEW w \in Worker, WorkerStep(w) \/ DequeueReplyLost(w) \/ WorkerFails(w)
        PROVE  IsCarried(e)'
    BY <2>1, <2>2, <2>3, <2>5, WorkerLeavesCarried DEF DequeueReplyLost, WorkerFails
  <2>6. CASE UNCHANGED vars
    BY <2>2, <2>6 DEF vars, IsCarried, Listed, Carrying, InWork
  <2>7. QED
    BY <2>4, <2>5, <2>6 DEF Next
<1>3. QED
  BY <1>1, <1>2, TypeCorrect, PTL DEF Spec
=============================================================================
