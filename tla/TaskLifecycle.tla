---------------------------- MODULE TaskLifecycle ----------------------------
(***************************************************************************)
(* The durable task queue: rows of agent_tasks and task_outbox in          *)
(* PostgreSQL (store.py), the ready signals in a Redis list, the outbox    *)
(* dispatcher (dispatcher.py) and the lease-holding workers (worker.py;    *)
(* action_worker.py and job_worker.py run the same loop).                  *)
(*                                                                         *)
(* One action is one database transaction, one Redis command, or one local *)
(* step of a process between two of those.  Clocks are abstracted to what  *)
(* the guards compare: "due", "available" and "stale" are the outcomes of  *)
(* the comparisons with now(), and leaseLeft counts the heartbeat periods  *)
(* left before lease_expires_at.                                           *)
(***************************************************************************)
EXTENDS Naturals, Sequences, FiniteSets

CONSTANTS
  Tasks,          \* identities of agent_tasks rows
  HighRisk,       \* the tasks whose effective risk needs a person's approval
  Paced,          \* of those, the emails: their sends are scheduled and may be put off
  MaxAttempts,    \* MaxAttempts[t]: capability_max_attempts of the task's kind
  Workers,        \* worker processes
  Dispatchers,    \* dispatcher processes
  LeaseIds,       \* values of gen_random_uuid()
  NoTask, NoLease,
  LeaseTicks,     \* heartbeat periods in a lease
  MaxGeneration,  \* bound: outbox generations per task
  MaxDeferrals,   \* bound: the generation up to which a send is put off; in the
                  \* code no send is put off past the expiry of its approval
  MaxQueue,       \* bound: ready signals in the Redis list
  MaxFaults       \* bound: crashes, losses, database errors and long stalls

ASSUME LifecycleAssumption ==
  /\ HighRisk \subseteq Tasks /\ Paced \subseteq HighRisk
  /\ MaxAttempts \in [Tasks -> Nat \ {0}]
  /\ NoTask \notin Tasks
  /\ NoLease \notin LeaseIds
  /\ LeaseTicks \in Nat \ {0}
  /\ MaxGeneration \in Nat /\ MaxDeferrals \in Nat /\ MaxQueue \in Nat /\ MaxFaults \in Nat

VARIABLES
  (* agent_tasks *)
  status,           \* column status; "absent" before the INSERT
  attempts,         \* column attempt_count
  cancelRequested,  \* cancellation_requested_at IS NOT NULL
  due,              \* next_attempt_at <= now()
  lease,            \* column lease_id
  leaseLeft,        \* 0 when lease_expires_at <= now()
  (* task_outbox *)
  outbox,           \* the row of the task
  (* Redis *)
  queue,            \* the list: LPUSH appends, BRPOP takes the head
  (* processes *)
  worker,           \* local state of each worker
  dispatcher,       \* local state of each dispatcher
  (* observation *)
  announced,        \* a signal was pushed since the outbox row was last armed
  faults            \* faults so far

taskVars == <<status, attempts, cancelRequested, due, lease, leaseLeft>>
vars == <<taskVars, outbox, queue, worker, dispatcher, announced, faults>>

Final == {"succeeded", "failed", "rejected", "cancelled", "dead_lettered"}
Statuses == {"absent", "pending_approval", "queued", "running"} \cup Final

OutboxStates == {"absent", "unpublished", "published"}
OutboxRow ==
  [state: OutboxStates, generation: Nat, available: BOOLEAN, stale: BOOLEAN]

WorkerSteps == {"idle", "popped", "executing", "returned", "interrupted", "raised"}
Reasons == {"none", "lost", "cancel_requested", "heartbeat_failed"}
WorkerState ==
  [step: WorkerSteps, task: Tasks \cup {NoTask}, lease: LeaseIds \cup {NoLease},
   reason: Reasons]
IdleWorker == [step |-> "idle", task |-> NoTask, lease |-> NoLease, reason |-> "none"]

DispatcherSteps == {"recover_queued", "recover_expired", "poll", "publish", "pushed", "failed"}
Event == [task: Tasks, generation: Nat]
NoEvent == [task |-> NoTask, generation |-> 0]
DispatcherState ==
  [step: DispatcherSteps, batch: SUBSET Event, event: Event \cup {NoEvent}]
LoopStart == [step |-> "recover_queued", batch |-> {}, event |-> NoEvent]

TypeOK ==
  /\ status \in [Tasks -> Statuses]
  /\ attempts \in [Tasks -> Nat]
  /\ cancelRequested \in [Tasks -> BOOLEAN]
  /\ due \in [Tasks -> BOOLEAN]
  /\ lease \in [Tasks -> LeaseIds \cup {NoLease}]
  /\ leaseLeft \in [Tasks -> 0..LeaseTicks]
  /\ outbox \in [Tasks -> OutboxRow]
  /\ queue \in Seq(Tasks)
  /\ worker \in [Workers -> WorkerState]
  /\ dispatcher \in [Dispatchers -> DispatcherState]
  /\ announced \in [Tasks -> BOOLEAN]
  /\ faults \in Nat

NoOutboxRow ==
  [state |-> "absent", generation |-> 0, available |-> FALSE, stale |-> FALSE]

Init ==
  /\ status = [t \in Tasks |-> "absent"]
  /\ attempts = [t \in Tasks |-> 0]
  /\ cancelRequested = [t \in Tasks |-> FALSE]
  /\ due = [t \in Tasks |-> TRUE]
  /\ lease = [t \in Tasks |-> NoLease]
  /\ leaseLeft = [t \in Tasks |-> 0]
  /\ outbox = [t \in Tasks |-> NoOutboxRow]
  /\ queue = <<>>
  /\ worker = [w \in Workers |-> IdleWorker]
  /\ dispatcher = [d \in Dispatchers |-> LoopStart]
  /\ announced = [t \in Tasks |-> FALSE]
  /\ faults = 0

Fault ==
  /\ faults < MaxFaults
  /\ faults' = faults + 1

-----------------------------------------------------------------------------
(* The outbox.                                                             *)

\* Mutant of Armed: the new event is available at once, backoff or not.
ArmedAtOnce(row, isDue) ==
  [state |-> "unpublished", generation |-> row.generation + 1,
   available |-> TRUE, stale |-> FALSE]

\* _add_outbox: insert the row, or arm the existing one under a new
\* generation; available_at is the task's next_attempt_at.
Armed(row, isDue) ==
  [state |-> "unpublished", generation |-> row.generation + 1,
   available |-> isDue, stale |-> FALSE]

AddOutbox(S, isDue) ==
  /\ \A t \in S : outbox[t].generation < MaxGeneration
  /\ outbox' = [t \in Tasks |-> IF t \in S THEN Armed(outbox[t], isDue) ELSE outbox[t]]
  /\ announced' = [t \in Tasks |-> t \notin S /\ announced[t]]

-----------------------------------------------------------------------------
(* The API: create_task, decide_task, cancel_task.                         *)

\* A repeated idempotency key returns the row that exists: no step.
CreateTask(t) ==
  /\ status[t] = "absent"
  /\ IF t \in HighRisk
       THEN /\ status' = [status EXCEPT ![t] = "pending_approval"]
            /\ UNCHANGED <<outbox, announced>>
       ELSE /\ status' = [status EXCEPT ![t] = "queued"]
            /\ AddOutbox({t}, due[t])
  /\ UNCHANGED <<attempts, cancelRequested, due, lease, leaseLeft>>
  /\ UNCHANGED <<queue, worker, dispatcher, faults>>

\* The approval of an email reserves its slot: next_attempt_at is that slot.
ApproveTask(t) ==
  /\ status[t] = "pending_approval"
  /\ status' = [status EXCEPT ![t] = "queued"]
  /\ \E isDue \in IF t \in Paced THEN BOOLEAN ELSE {due[t]} :
       due' = [due EXCEPT ![t] = isDue] /\ AddOutbox({t}, isDue)
  /\ UNCHANGED <<attempts, cancelRequested, lease, leaseLeft>>
  /\ UNCHANGED <<queue, worker, dispatcher, faults>>

RejectTask(t) ==
  /\ status[t] = "pending_approval"
  /\ status' = [status EXCEPT ![t] = "rejected"]
  /\ UNCHANGED <<attempts, cancelRequested, due, lease, leaseLeft>>
  /\ UNCHANGED <<outbox, announced, queue, worker, dispatcher, faults>>

\* Nobody runs the task: cancelled at once and the outbox row deleted.  A
\* signal already in Redis stays there.
CancelWaitingTask(t) ==
  /\ status[t] \in {"pending_approval", "queued"}
  /\ status' = [status EXCEPT ![t] = "cancelled"]
  /\ cancelRequested' = [cancelRequested EXCEPT ![t] = TRUE]
  /\ lease' = [lease EXCEPT ![t] = NoLease]
  /\ leaseLeft' = [leaseLeft EXCEPT ![t] = 0]
  /\ outbox' = [outbox EXCEPT ![t] = NoOutboxRow]
  /\ announced' = [announced EXCEPT ![t] = FALSE]
  /\ UNCHANGED <<attempts, due, queue, worker, dispatcher, faults>>

\* A running task is only asked to stop.
RequestCancellation(t) ==
  /\ status[t] = "running"
  /\ cancelRequested' = [cancelRequested EXCEPT ![t] = TRUE]
  /\ UNCHANGED <<status, attempts, due, lease, leaseLeft>>
  /\ UNCHANGED <<outbox, announced, queue, worker, dispatcher, faults>>

-----------------------------------------------------------------------------
(* The worker.                                                             *)

\* Mutant of Owns: whoever runs the task may report, lease or not.
OwnsAnyLease(w) == status[worker[w].task] = "running"

Owns(w) ==
  LET t == worker[w].task
  IN  status[t] = "running" /\ lease[t] = worker[w].lease

LeaseValid(t) == leaseLeft[t] > 0

Goto(w, step) == worker' = [worker EXCEPT ![w].step = step]
ToIdle(w) == worker' = [worker EXCEPT ![w] = IdleWorker]

\* claim_next: BRPOP takes the signal out of Redis before any durable claim.
PopSignal(w) ==
  /\ worker[w].step = "idle"
  /\ queue # <<>>
  /\ queue' = Tail(queue)
  /\ worker' = [worker EXCEPT ![w].step = "popped", ![w].task = Head(queue)]
  /\ UNCHANGED <<taskVars, outbox, announced, dispatcher, faults>>

Claimable(t) == status[t] = "queued" /\ due[t]

\* transition_to_running: the claim, with a fresh lease_id.
ClaimTask(w) ==
  LET t == worker[w].task
  IN  /\ worker[w].step = "popped"
      /\ Claimable(t)
      /\ \E l \in LeaseIds :
           /\ \A v \in Workers : worker[v].task = t => worker[v].lease # l
           /\ lease' = [lease EXCEPT ![t] = l]
           /\ worker' = [worker EXCEPT ![w].step = "executing", ![w].lease = l]
      /\ status' = [status EXCEPT ![t] = "running"]
      /\ attempts' = [attempts EXCEPT ![t] = @ + 1]
      /\ leaseLeft' = [leaseLeft EXCEPT ![t] = LeaseTicks]
      /\ UNCHANGED <<cancelRequested, due>>
      /\ UNCHANGED <<outbox, announced, queue, dispatcher, faults>>

DiscardSignal(w) ==
  /\ worker[w].step = "popped"
  /\ ~Claimable(worker[w].task)
  /\ ToIdle(w)
  /\ UNCHANGED <<taskVars, outbox, announced, queue, dispatcher, faults>>

\* Mutant of HeartbeatState: an expired lease can still be renewed.
HeartbeatRevives(w) ==
  IF ~Owns(w) THEN "lost"
  ELSE IF cancelRequested[worker[w].task] THEN "cancel_requested"
  ELSE "renewed"

\* heartbeat_task, called by the LeaseHeartbeat thread while the handler runs
\* and until it is answered with anything but "renewed".
HeartbeatState(w) ==
  IF ~(Owns(w) /\ LeaseValid(worker[w].task)) THEN "lost"
  ELSE IF cancelRequested[worker[w].task] THEN "cancel_requested"
  ELSE "renewed"

Beating(w) == worker[w].step = "executing" /\ worker[w].reason = "none"

HeartbeatRenews(w) ==
  /\ Beating(w)
  /\ HeartbeatState(w) = "renewed"
  /\ leaseLeft' = [leaseLeft EXCEPT ![worker[w].task] = LeaseTicks]
  /\ UNCHANGED <<status, attempts, cancelRequested, due, lease>>
  /\ UNCHANGED <<outbox, announced, queue, worker, dispatcher, faults>>

HeartbeatStops(w) ==
  /\ Beating(w)
  /\ HeartbeatState(w) # "renewed"
  /\ worker' = [worker EXCEPT ![w].reason = HeartbeatState(w)]
  /\ UNCHANGED <<taskVars, outbox, announced, queue, dispatcher, faults>>

HeartbeatFails(w) ==
  /\ Beating(w)
  /\ Fault
  /\ worker' = [worker EXCEPT ![w].reason = "heartbeat_failed"]
  /\ UNCHANGED <<taskVars, outbox, announced, queue, dispatcher>>

\* The handler returns, notices the interrupt, or raises something else.
HandlerEnds(w) ==
  /\ worker[w].step = "executing"
  /\ \/ Goto(w, "returned")
     \/ worker[w].reason # "none" /\ Goto(w, "interrupted")
     \/ Goto(w, "raised")
  /\ UNCHANGED <<taskVars, outbox, announced, queue, dispatcher, faults>>

\* What complete_task, fail_task and _finalize_cancellation write to the row.
EndRunAs(w, final) ==
  LET t == worker[w].task
  IN  /\ status' = [status EXCEPT ![t] = final]
      /\ lease' = [lease EXCEPT ![t] = NoLease]
      /\ leaseLeft' = [leaseLeft EXCEPT ![t] = 0]
      /\ ToIdle(w)
      /\ UNCHANGED <<attempts, cancelRequested, due>>
      /\ UNCHANGED <<outbox, announced, queue, dispatcher, faults>>

Completing(w) == worker[w].step = "returned" /\ worker[w].reason = "none"
Finalizing(w) ==
  worker[w].step \in {"returned", "interrupted"} /\ worker[w].reason = "cancel_requested"
Failing(w) == worker[w].step = "raised"

MayReport(w) ==
  Owns(w) /\ ~cancelRequested[worker[w].task] /\ LeaseValid(worker[w].task)
MayCancel(w) == Owns(w) /\ cancelRequested[worker[w].task]

\* Mutant of Refunded: a send that was put off has spent its attempt.
NotRefunded(n) == n

\* GREATEST(attempt_count-1, 0)
Refunded(n) == IF n > 0 THEN n - 1 ELSE 0

\* _defer_email_send, at the boundary inside the handler: the task waits again
\* for a later slot, its attempt is given back, and the handler is left with
\* nothing to report (EmailPacingDeferred).
PutOff(w) ==
  LET t == worker[w].task
  IN  /\ worker[w].step = "executing" /\ t \in Paced
      /\ MayReport(w)
      /\ outbox[t].generation <= MaxDeferrals
      /\ status' = [status EXCEPT ![t] = "queued"]
      /\ attempts' = [attempts EXCEPT ![t] = Refunded(attempts[t])]
      /\ due' = [due EXCEPT ![t] = FALSE]
      /\ lease' = [lease EXCEPT ![t] = NoLease]
      /\ leaseLeft' = [leaseLeft EXCEPT ![t] = 0]
      /\ AddOutbox({t}, FALSE)
      /\ ToIdle(w)
      /\ UNCHANGED <<cancelRequested, queue, dispatcher, faults>>

CompleteTask(w) == Completing(w) /\ MayReport(w) /\ EndRunAs(w, "succeeded")

FailTask(w) == Failing(w) /\ MayReport(w) /\ EndRunAs(w, "failed")

FinalizeCancellation(w) ==
  /\ Completing(w) \/ Finalizing(w) \/ Failing(w)
  /\ MayCancel(w)
  /\ EndRunAs(w, "cancelled")

\* InvalidTaskStateError: caught by "except Exception", which calls fail_task;
\* a refusal there is only logged.  Raised inside the TaskInterruptedError
\* handler it ends the process, and the container starts a new one.
RefuseResult(w) ==
  /\ \/ (Completing(w) \/ Failing(w)) /\ ~MayReport(w) /\ ~MayCancel(w)
     \/ Finalizing(w) /\ ~MayCancel(w)
  /\ IF worker[w].step = "returned" THEN Goto(w, "raised") ELSE ToIdle(w)
  /\ UNCHANGED <<taskVars, outbox, announced, queue, dispatcher, faults>>

\* The lease was lost or could not be renewed: the output is dropped.
DropResult(w) ==
  /\ worker[w].step \in {"returned", "interrupted"}
  /\ worker[w].reason \in {"lost", "heartbeat_failed"}
  /\ ToIdle(w)
  /\ UNCHANGED <<taskVars, outbox, announced, queue, dispatcher, faults>>

\* The process dies and is restarted.  The same step stands for a database
\* error in the claim and in fail_task, which are logged and forgotten.
WorkerCrash(w) ==
  /\ worker[w].step # "idle"
  /\ Fault
  /\ ToIdle(w)
  /\ UNCHANGED <<taskVars, outbox, announced, queue, dispatcher>>

\* A database error in complete_task or finalize_cancellation.
ResultNotStored(w) ==
  /\ worker[w].step = "returned"
  /\ worker[w].reason \in {"none", "cancel_requested"}
  /\ Fault
  /\ Goto(w, "raised")
  /\ UNCHANGED <<taskVars, outbox, announced, queue, dispatcher>>

-----------------------------------------------------------------------------
(* The dispatcher.                                                         *)

DispatcherTo(d, step) == dispatcher' = [dispatcher EXCEPT ![d].step = step]

\* recover_queued_tasks: signals published long ago for tasks still waiting.
\* Mutant of LostSignals: signals lost by Redis or a worker are not replayed.
NoLostSignals == {}

LostSignals ==
  {t \in Tasks : Claimable(t) /\ outbox[t].state = "published" /\ outbox[t].stale}

RecoverQueued(d) ==
  /\ dispatcher[d].step = "recover_queued"
  /\ AddOutbox(LostSignals, TRUE)
  /\ DispatcherTo(d, "recover_expired")
  /\ UNCHANGED <<taskVars, queue, worker, faults>>

\* Mutant of Expired: the last attempt is left to its worker.
ExpiredWithBudget ==
  {t \in Tasks : status[t] = "running" /\ ~LeaseValid(t) /\ attempts[t] < MaxAttempts[t]}

Expired == {t \in Tasks : status[t] = "running" /\ ~LeaseValid(t)}

\* Mutant of AfterExpiry: one attempt too many.
AfterExpiryOffByOne(t) ==
  IF cancelRequested[t] THEN "cancelled"
  ELSE IF attempts[t] > MaxAttempts[t] THEN "dead_lettered"
  ELSE "queued"

\* Mutant of AfterExpiry: recovery forgets the cancellation request.
AfterExpiryUncancelled(t) ==
  IF attempts[t] >= MaxAttempts[t] THEN "dead_lettered" ELSE "queued"

AfterExpiry(t) ==
  IF cancelRequested[t] THEN "cancelled"
  ELSE IF attempts[t] >= MaxAttempts[t] THEN "dead_lettered"
  ELSE "queued"

\* recover_expired_tasks: one transaction over every expired lease.  A retry
\* waits for its backoff.
RecoverExpired(d) ==
  LET Retried == {t \in Expired : AfterExpiry(t) = "queued"}
  IN  /\ dispatcher[d].step = "recover_expired"
      /\ status' = [t \in Tasks |-> IF t \in Expired THEN AfterExpiry(t) ELSE status[t]]
      /\ lease' = [t \in Tasks |-> IF t \in Expired THEN NoLease ELSE lease[t]]
      /\ due' = [t \in Tasks |-> t \notin Retried /\ due[t]]
      /\ AddOutbox(Retried, FALSE)
      /\ DispatcherTo(d, "poll")
      /\ UNCHANGED <<attempts, cancelRequested, leaseLeft>>
      /\ UNCHANGED <<queue, worker, faults>>

\* pending_outbox: the batch is read once and published from memory.
Pending == {t \in Tasks : outbox[t].state = "unpublished" /\ outbox[t].available}

PollOutbox(d) ==
  /\ dispatcher[d].step = "poll"
  /\ dispatcher' = [dispatcher EXCEPT
       ![d].step = IF Pending = {} THEN "recover_queued" ELSE "publish",
       ![d].batch = {[task |-> t, generation |-> outbox[t].generation] : t \in Pending}]
  /\ UNCHANGED <<taskVars, outbox, announced, queue, worker, faults>>

\* LPUSH of one event of the batch.
PushSignal(d) ==
  /\ dispatcher[d].step = "publish"
  /\ Len(queue) < MaxQueue
  /\ \E e \in dispatcher[d].batch :
       /\ queue' = Append(queue, e.task)
       /\ dispatcher' = [dispatcher EXCEPT ![d].step = "pushed", ![d].event = e]
       /\ announced' = [announced EXCEPT
            ![e.task] = @ \/ e.generation = outbox[e.task].generation]
  /\ UNCHANGED <<taskVars, outbox, worker, faults>>

PushFails(d) ==
  /\ dispatcher[d].step = "publish"
  /\ Fault
  /\ \E e \in dispatcher[d].batch :
       dispatcher' = [dispatcher EXCEPT ![d].step = "failed", ![d].event = e]
  /\ UNCHANGED <<taskVars, outbox, announced, queue, worker>>

\* The UPDATE of a mark is fenced: it touches the generation that was read,
\* and only while that is unpublished.
\* Mutant of Fenced: any unpublished generation is marked.
FencedByState(e) == outbox[e.task].state = "unpublished"

Fenced(e) ==
  /\ outbox[e.task].generation = e.generation
  /\ outbox[e.task].state = "unpublished"

NextEvent(d) ==
  LET rest == dispatcher[d].batch \ {dispatcher[d].event}
  IN  dispatcher' = [dispatcher EXCEPT
        ![d] = IF rest = {} THEN LoopStart
               ELSE [step |-> "publish", batch |-> rest, event |-> NoEvent]]

MarkPublished(d) ==
  LET e == dispatcher[d].event
  IN  /\ dispatcher[d].step = "pushed"
      /\ outbox' = IF Fenced(e)
                     THEN [outbox EXCEPT ![e.task].state = "published",
                                         ![e.task].stale = FALSE]
                     ELSE outbox
      /\ NextEvent(d)
      /\ UNCHANGED <<taskVars, announced, queue, worker, faults>>

\* mark_outbox_published raises: the event is reported as failed although its
\* signal is in Redis.
MarkRaises(d) ==
  /\ dispatcher[d].step = "pushed"
  /\ Fault
  /\ DispatcherTo(d, "failed")
  /\ UNCHANGED <<taskVars, outbox, announced, queue, worker>>

\* mark_outbox_failed: the event waits for its backoff.
MarkFailed(d) ==
  LET e == dispatcher[d].event
  IN  /\ dispatcher[d].step = "failed"
      /\ outbox' = IF Fenced(e)
                     THEN [outbox EXCEPT ![e.task].available = FALSE]
                     ELSE outbox
      /\ NextEvent(d)
      /\ UNCHANGED <<taskVars, announced, queue, worker, faults>>

\* An exception outside the publish loop, or a kill: the batch is forgotten.
DispatcherCrash(d) ==
  /\ dispatcher[d] # LoopStart
  /\ Fault
  /\ dispatcher' = [dispatcher EXCEPT ![d] = LoopStart]
  /\ UNCHANGED <<taskVars, outbox, announced, queue, worker>>

-----------------------------------------------------------------------------
(* Redis and time.                                                         *)

RedisLosesSignals ==
  /\ queue # <<>>
  /\ Fault
  /\ queue' = <<>>
  /\ UNCHANGED <<taskVars, outbox, announced, worker, dispatcher>>

\* A heartbeat period passes on a lease.
LeaseTick(t) ==
  /\ status[t] = "running"
  /\ leaseLeft[t] > 0
  /\ leaseLeft' = [leaseLeft EXCEPT ![t] = @ - 1]
  /\ UNCHANGED <<status, attempts, cancelRequested, due, lease>>
  /\ UNCHANGED <<outbox, announced, queue, worker, dispatcher, faults>>

\* next_attempt_at passes, and available_at with it.
BecomeDue(t) ==
  /\ ~due[t]
  /\ due' = [due EXCEPT ![t] = TRUE]
  /\ outbox' = [outbox EXCEPT ![t].available = outbox[t].state # "absent"]
  /\ UNCHANGED <<status, attempts, cancelRequested, lease, leaseLeft>>
  /\ UNCHANGED <<announced, queue, worker, dispatcher, faults>>

\* The backoff of a failed publication passes.
BecomeAvailable(t) ==
  /\ due[t]
  /\ outbox[t].state = "unpublished" /\ ~outbox[t].available
  /\ outbox' = [outbox EXCEPT ![t].available = TRUE]
  /\ UNCHANGED <<taskVars, announced, queue, worker, dispatcher, faults>>

InFlight(t) ==
  \/ \E i \in 1..Len(queue) : queue[i] = t
  \/ \E w \in Workers : worker[w].step = "popped" /\ worker[w].task = t

\* The publication is older than the staleness limit.  While its signal is
\* still on its way this takes an overloaded or stalled worker: a fault.
BecomeStale(t) ==
  /\ outbox[t].state = "published" /\ ~outbox[t].stale
  /\ status[t] = "queued"
  /\ outbox' = [outbox EXCEPT ![t].stale = TRUE]
  /\ IF InFlight(t) THEN Fault ELSE UNCHANGED faults
  /\ UNCHANGED <<taskVars, announced, queue, worker, dispatcher>>

-----------------------------------------------------------------------------

Api(t) ==
  \/ CreateTask(t) \/ ApproveTask(t) \/ RejectTask(t)
  \/ CancelWaitingTask(t) \/ RequestCancellation(t)

Settle(w) ==
  \/ CompleteTask(w) \/ FailTask(w) \/ FinalizeCancellation(w)
  \/ RefuseResult(w) \/ DropResult(w)

WorkerStep(w) ==
  \/ PopSignal(w) \/ ClaimTask(w) \/ DiscardSignal(w)
  \/ HeartbeatRenews(w) \/ HeartbeatStops(w) \/ HandlerEnds(w) \/ PutOff(w) \/ Settle(w)

DispatcherStep(d) ==
  \/ RecoverQueued(d) \/ RecoverExpired(d) \/ PollOutbox(d)
  \/ PushSignal(d) \/ MarkPublished(d) \/ MarkFailed(d)

TimeStep(t) ==
  \/ LeaseTick(t) \/ BecomeDue(t) \/ BecomeAvailable(t) \/ BecomeStale(t)

FaultStep ==
  \/ \E w \in Workers : HeartbeatFails(w) \/ WorkerCrash(w) \/ ResultNotStored(w)
  \/ \E d \in Dispatchers : PushFails(d) \/ MarkRaises(d) \/ DispatcherCrash(d)
  \/ RedisLosesSignals

Next ==
  \/ \E t \in Tasks : Api(t) \/ TimeStep(t)
  \/ \E w \in Workers : WorkerStep(w)
  \/ \E d \in Dispatchers : DispatcherStep(d)
  \/ FaultStep

Spec == Init /\ [][Next]_vars

\* The processes are restarted when they die and every loop polls with a
\* timeout; a handler has bounded input and bounded network calls; clocks
\* advance.  Nobody is obliged to submit, approve or cancel anything, a fault
\* need not happen, and a lease somebody still renews need not run out.
Orphaned(t) == \A w \in Workers : ~(worker[w].task = t /\ worker[w].lease = lease[t])

WorkerFairness(w) ==
  /\ WF_vars(PopSignal(w))
  /\ WF_vars(ClaimTask(w) \/ DiscardSignal(w))
  /\ WF_vars(HandlerEnds(w))
  /\ WF_vars(Settle(w))

TimeFairness(t) ==
  /\ WF_vars(BecomeDue(t))
  /\ WF_vars(BecomeAvailable(t))
  /\ WF_vars(BecomeStale(t) /\ ~InFlight(t))
  /\ WF_vars(LeaseTick(t) /\ Orphaned(t))

Fairness ==
  /\ \A w \in Workers : WorkerFairness(w)
  /\ \A d \in Dispatchers : WF_vars(DispatcherStep(d))
  /\ \A t \in Tasks : TimeFairness(t)

FairSpec == Spec /\ Fairness

-----------------------------------------------------------------------------
(* Properties.                                                             *)

\* Every start of a handler is paid from the retry budget, and a task goes
\* back to the queue only while another start is left: the claim itself does
\* not look at the budget.  A send that pacing puts off has not started
\* (transition_to_running, recover_expired_tasks, _defer_email_send).
WithinBudget ==
  \A t \in Tasks :
    /\ attempts[t] <= MaxAttempts[t]
    /\ status[t] = "queued" => attempts[t] < MaxAttempts[t]

\* Once somebody asked to cancel a task it never waits again and never ends in
\* any other way: no retry, success, failure or dead letter overtakes the
\* request (complete_task, fail_task, recover_expired_tasks).
CancellationWins ==
  \A t \in Tasks : cancelRequested[t] => status[t] \in {"running", "cancelled"}

\* A task that waits can always be found again: its outbox row exists, is
\* still to be published or was published with a signal that really was
\* pushed, so that the staleness clock of recover_queued_tasks runs from a real
\* publication.  A late acknowledgement of an older generation by another
\* dispatcher must not mark the new one (mark_outbox_published).
PublishedMeansAnnounced ==
  \A t \in Tasks :
    /\ status[t] = "queued" => outbox[t].state # "absent"
    /\ outbox[t].state = "published" => announced[t]

\* The outcome of a run is recorded by the worker that holds the lease of that
\* run and held it without a gap; a worker whose lease expired and was handed
\* to another one cannot report its result (complete_task, fail_task).
NoStaleResult ==
  [][\A t \in Tasks :
       status[t] = "running" /\ status'[t] \in {"succeeded", "failed"}
         => \E w \in Workers : /\ worker[w].task = t
                              /\ worker[w].lease = lease[t]
                              /\ LeaseValid(t)
                              /\ worker'[w] = IdleWorker]_vars

\* A lease is extended only while it is valid and nobody asked to cancel; an
\* expired lease is never revived, so a run that was asked to stop ends within
\* one lease whatever its handler does (heartbeat_task).
LeaseExtension ==
  [][\A t \in Tasks :
       leaseLeft'[t] > leaseLeft[t] /\ lease[t] # NoLease
         => leaseLeft[t] > 0 /\ ~cancelRequested[t]]_vars

\* A signal is published only for work that may start: a retry whose backoff
\* runs, or a send whose slot is to come, is not announced (the available_at of
\* _add_outbox).
BackoffBeforeAnnouncement ==
  \A t \in Tasks : outbox[t].state = "published" /\ status[t] = "queued" => due[t]

\* TaskLifecycle implements the contract of a task, its liveness included:
\* queued work is started although signals are lost and processes die, and
\* every run ends.
C == INSTANCE TaskContract
ImplementsContractSafety == C!ContractSafety
ImplementsContract == C!Contract

\* Work that was accepted reaches a final state.
AcceptedWorkSettles ==
  \A t \in Tasks : status[t] \in {"queued", "running"} ~> status[t] \in Final

-----------------------------------------------------------------------------
(* The inductive invariant behind the theorems of TaskLifecycleProofs.     *)

\* Before the first claim nothing is spent and nobody can have cancelled.
FreshTasks ==
  \A t \in Tasks : status[t] \in {"absent", "pending_approval"} => attempts[t] = 0

\* A row carries a lease exactly while it runs.
LeaseWhileRunning ==
  \A t \in Tasks :
    /\ status[t] = "running" => lease[t] \in LeaseIds
    /\ status[t] # "running" => lease[t] = NoLease /\ leaseLeft[t] = 0

\* A task has an outbox row from its acceptance on and keeps it while it is active.
OutboxFollowsTask ==
  \A t \in Tasks :
    /\ status[t] \in {"queued", "running"} => outbox[t].state # "absent"
    /\ status[t] \in {"absent", "pending_approval"} => outbox[t].state = "absent"

WorkerShape ==
  \A w \in Workers :
    /\ worker[w].step = "idle" <=> worker[w].task = NoTask
    /\ worker[w].step \in {"idle", "popped"} <=> worker[w].lease = NoLease

Held(d) ==
  dispatcher[d].batch \cup
  (IF dispatcher[d].step \in {"pushed", "failed"} THEN {dispatcher[d].event} ELSE {})

DispatcherShape ==
  \A d \in Dispatchers :
    dispatcher[d].step \in {"pushed", "failed"} => dispatcher[d].event \in Event

\* An event in a dispatcher's memory names a generation that was armed
\* earlier or is armed now, and the current one only if it may start.
HeldEvents ==
  \A d \in Dispatchers : \A e \in Held(d) :
    /\ status[e.task] \notin {"absent", "pending_approval"}
    /\ outbox[e.task].state # "absent" => e.generation <= outbox[e.task].generation
    /\ Fenced(e) /\ status[e.task] = "queued" => due[e.task]

\* An acknowledgement that will pass the fence follows a push of that generation.
PushedEvents ==
  \A d \in Dispatchers :
    dispatcher[d].step = "pushed" /\ Fenced(dispatcher[d].event)
      => announced[dispatcher[d].event.task]

AvailableIsDue ==
  \A t \in Tasks :
    outbox[t].state = "unpublished" /\ outbox[t].available /\ status[t] = "queued"
      => due[t]

IInv ==
  /\ TypeOK
  /\ FreshTasks /\ WithinBudget /\ CancellationWins
  /\ LeaseWhileRunning /\ OutboxFollowsTask /\ WorkerShape
  /\ DispatcherShape /\ HeldEvents /\ PushedEvents
  /\ AvailableIsDue /\ PublishedMeansAnnounced /\ BackoffBeforeAnnouncement
=============================================================================
