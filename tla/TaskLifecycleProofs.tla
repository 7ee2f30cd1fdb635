------------------------ MODULE TaskLifecycleProofs ------------------------
(***************************************************************************)
(* Proofs about TaskLifecycle, for every value of its constants.           *)
(***************************************************************************)
EXTENDS TaskLifecycle, TLAPS

-----------------------------------------------------------------------------
(* Types.                                                                  *)

\* Arming outbox rows keeps the table and the observation well-typed.
LEMMA ArmedType ==
  ASSUME NEW row \in OutboxRow, NEW isDue, isDue \in BOOLEAN
  PROVE  Armed(row, isDue) \in OutboxRow
BY DEF Armed, OutboxRow, OutboxStates

LEMMA AddOutboxType ==
  ASSUME TypeOK, NEW S,
         \/ \E t \in Tasks : AddOutbox(S, due[t])
         \/ AddOutbox(S, TRUE) \/ AddOutbox(S, FALSE)
  PROVE  outbox' \in [Tasks -> OutboxRow] /\ announced' \in [Tasks -> BOOLEAN]
<1>0. outbox \in [Tasks -> OutboxRow] /\ due \in [Tasks -> BOOLEAN]
  BY DEF TypeOK
<1>1. ASSUME NEW t \in Tasks, AddOutbox(S, due[t])
      PROVE  outbox' \in [Tasks -> OutboxRow]
  <2>1. \A u \in Tasks : Armed(outbox[u], due[t]) \in OutboxRow
    BY <1>0, ArmedType
  <2>2. QED
    BY <1>0, <1>1, <2>1 DEF AddOutbox
<1>2. ASSUME AddOutbox(S, TRUE)
      PROVE  outbox' \in [Tasks -> OutboxRow]
  <2>1. \A u \in Tasks : Armed(outbox[u], TRUE) \in OutboxRow
    BY <1>0, ArmedType
  <2>2. QED
    BY <1>0, <1>2, <2>1 DEF AddOutbox
<1>3. ASSUME AddOutbox(S, FALSE)
      PROVE  outbox' \in [Tasks -> OutboxRow]
  <2>1. \A u \in Tasks : Armed(outbox[u], FALSE) \in OutboxRow
    BY <1>0, ArmedType
  <2>2. QED
    BY <1>0, <1>3, <2>1 DEF AddOutbox
<1>4. announced' \in [Tasks -> BOOLEAN]
  BY DEF AddOutbox
<1>5. QED
  BY <1>1, <1>2, <1>3, <1>4

\* An approval arms the row for the moment it schedules the task for.
LEMMA ApprovalArms ==
  ASSUME NEW t \in Tasks, ApproveTask(t), due \in [Tasks -> BOOLEAN]
  PROVE  \/ due' = [due EXCEPT ![t] = TRUE] /\ AddOutbox({t}, TRUE)
         \/ due' = [due EXCEPT ![t] = FALSE] /\ AddOutbox({t}, FALSE)
<1>1. PICK isDue \in BOOLEAN : due' = [due EXCEPT ![t] = isDue] /\ AddOutbox({t}, isDue)
  BY DEF ApproveTask
<1>2. CASE isDue = TRUE
  BY <1>1, <1>2
<1>3. CASE isDue = FALSE
  BY <1>1, <1>3
<1>4. QED
  BY <1>2, <1>3

LEMMA ApiType ==
  ASSUME LifecycleAssumption, TypeOK, NEW t \in Tasks, Api(t)
  PROVE  TypeOK'
<1>1. CASE CreateTask(t)
  <2>1. outbox' \in [Tasks -> OutboxRow] /\ announced' \in [Tasks -> BOOLEAN]
    BY <1>1, AddOutboxType DEF CreateTask, TypeOK
  <2>2. QED
    BY <1>1, <2>1 DEF CreateTask, TypeOK, Statuses
<1>2. CASE ApproveTask(t)
  <2>1. /\ due' \in [Tasks -> BOOLEAN]
        /\ AddOutbox({t}, TRUE) \/ AddOutbox({t}, FALSE)
    BY <1>2, ApprovalArms DEF TypeOK
  <2>2. outbox' \in [Tasks -> OutboxRow] /\ announced' \in [Tasks -> BOOLEAN]
    BY <2>1, AddOutboxType
  <2>3. QED
    BY <1>2, <2>1, <2>2 DEF ApproveTask, TypeOK, Statuses
<1>3. CASE RejectTask(t)
  BY <1>3 DEF RejectTask, TypeOK, Statuses, Final
<1>4. CASE CancelWaitingTask(t)
  <2>1. NoOutboxRow \in OutboxRow
    BY DEF NoOutboxRow, OutboxRow, OutboxStates
  <2>2. QED
    BY <1>4, <2>1, SMTT(30) DEF CancelWaitingTask, TypeOK, Statuses, Final, LifecycleAssumption
<1>5. CASE RequestCancellation(t)
  BY <1>5 DEF RequestCancellation, TypeOK
<1>6. QED
  BY <1>1, <1>2, <1>3, <1>4, <1>5 DEF Api

\* A worker that is not idle has a task.
LEMMA WorkerHasTask ==
  ASSUME TypeOK, WorkerShape, NEW w \in Workers, worker[w].step # "idle"
  PROVE  worker[w].task \in Tasks
BY DEF TypeOK, WorkerShape, WorkerState

LEMMA IdleWorkerType == IdleWorker \in WorkerState
BY DEF IdleWorker, WorkerState, WorkerSteps, Reasons

\* Changing the fields of one worker keeps the table of workers well-typed.
LEMMA WorkerUpdate ==
  ASSUME worker \in [Workers -> WorkerState], NEW w \in Workers
  PROVE  /\ ToIdle(w) => worker' \in [Workers -> WorkerState]
         /\ \A step \in WorkerSteps :
              Goto(w, step) => worker' \in [Workers -> WorkerState]
         /\ \A t \in Tasks :
              worker' = [worker EXCEPT ![w].step = "popped", ![w].task = t]
                => worker' \in [Workers -> WorkerState]
         /\ \A l \in LeaseIds :
              worker' = [worker EXCEPT ![w].step = "executing", ![w].lease = l]
                => worker' \in [Workers -> WorkerState]
         /\ \A r \in Reasons :
              worker' = [worker EXCEPT ![w].reason = r]
                => worker' \in [Workers -> WorkerState]
<1>1. ToIdle(w) => worker' \in [Workers -> WorkerState]
  BY IdleWorkerType DEF ToIdle
<1>2. ASSUME NEW step \in WorkerSteps, Goto(w, step)
      PROVE  worker' \in [Workers -> WorkerState]
  BY <1>2 DEF Goto, WorkerState
<1>3. ASSUME NEW t \in Tasks,
             worker' = [worker EXCEPT ![w].step = "popped", ![w].task = t]
      PROVE  worker' \in [Workers -> WorkerState]
  BY <1>3, ZenonT(30) DEF WorkerState, WorkerSteps
<1>4. ASSUME NEW l \in LeaseIds,
             worker' = [worker EXCEPT ![w].step = "executing", ![w].lease = l]
      PROVE  worker' \in [Workers -> WorkerState]
  BY <1>4, ZenonT(30) DEF WorkerState, WorkerSteps
<1>5. ASSUME NEW r \in Reasons, worker' = [worker EXCEPT ![w].reason = r]
      PROVE  worker' \in [Workers -> WorkerState]
  BY <1>5 DEF WorkerState
<1>6. QED
  BY <1>1, <1>2, <1>3, <1>4, <1>5

\* A step that changes no row of the database, only the worker itself.
LEMMA WorkerLocal ==
  ASSUME TypeOK, worker' \in [Workers -> WorkerState], faults' \in Nat,
         UNCHANGED <<taskVars, outbox, announced, queue, dispatcher>>
  PROVE  TypeOK'
BY DEF TypeOK, taskVars

LEMMA WorkerType ==
  ASSUME LifecycleAssumption, TypeOK, WorkerShape, NEW w \in Workers, WorkerStep(w)
  PROVE  TypeOK'
<1> DEFINE t == worker[w].task
<1>0. worker \in [Workers -> WorkerState] /\ faults \in Nat
  BY DEF TypeOK
<1>1. CASE PopSignal(w)
  <2>1. Head(queue) \in Tasks /\ queue' \in Seq(Tasks)
    BY <1>1 DEF PopSignal, TypeOK
  <2>2. worker' \in [Workers -> WorkerState]
    BY <1>0, <1>1, <2>1, WorkerUpdate DEF PopSignal
  <2>3. QED
    BY <1>1, <2>1, <2>2 DEF PopSignal, TypeOK, taskVars
<1>2. CASE ClaimTask(w)
  <2>1. t \in Tasks
    BY <1>2, WorkerHasTask DEF ClaimTask
  <2>2. worker' \in [Workers -> WorkerState]
    BY <1>0, <1>2, WorkerUpdate DEF ClaimTask
  <2>3. /\ status' = [status EXCEPT ![t] = "running"]
        /\ attempts' = [attempts EXCEPT ![t] = attempts[t] + 1]
        /\ \E l \in LeaseIds : lease' = [lease EXCEPT ![t] = l]
        /\ leaseLeft' = [leaseLeft EXCEPT ![t] = LeaseTicks]
    BY <1>2 DEF ClaimTask
  <2>4. /\ status' \in [Tasks -> Statuses] /\ attempts' \in [Tasks -> Nat]
        /\ lease' \in [Tasks -> LeaseIds \cup {NoLease}] /\ leaseLeft' \in [Tasks -> 0 .. LeaseTicks]
    BY <2>1, <2>3 DEF TypeOK, Statuses, LifecycleAssumption
  <2>5. QED
    BY <1>2, <2>2, <2>4 DEF ClaimTask, TypeOK
<1>3. CASE DiscardSignal(w)
  BY <1>0, <1>3, WorkerUpdate, WorkerLocal DEF DiscardSignal
<1>4. CASE HeartbeatRenews(w)
  <2>1. t \in Tasks
    BY <1>4, WorkerHasTask DEF HeartbeatRenews, Beating
  <2>2. QED
    BY <1>4, <2>1 DEF HeartbeatRenews, TypeOK, LifecycleAssumption
<1>5. CASE HeartbeatStops(w)
  <2>1. HeartbeatState(w) \in Reasons
    BY <1>5 DEF HeartbeatStops, HeartbeatState, Reasons
  <2>2. worker' \in [Workers -> WorkerState]
    BY <1>0, <1>5, <2>1, WorkerUpdate DEF HeartbeatStops
  <2>3. QED
    BY <1>0, <1>5, <2>2, WorkerLocal DEF HeartbeatStops
<1>6. CASE HandlerEnds(w)
  <2>1. worker' \in [Workers -> WorkerState]
    BY <1>0, <1>6, WorkerUpdate DEF HandlerEnds, WorkerSteps
  <2>2. QED
    BY <1>0, <1>6, <2>1, WorkerLocal DEF HandlerEnds
<1>7. ASSUME NEW final \in {"succeeded", "failed", "cancelled"}, EndRunAs(w, final)
      PROVE  TypeOK'
  <2>1. worker' \in [Workers -> WorkerState]
    BY <1>0, <1>7, WorkerUpdate DEF EndRunAs
  <2>2. final \in Statuses
    BY DEF Statuses, Final
  <2>3. 0 \in 0..LeaseTicks
    BY DEF LifecycleAssumption
  <2>4. status' \in [Tasks -> Statuses] /\ leaseLeft' \in [Tasks -> 0..LeaseTicks]
    BY <1>7, <2>2, <2>3 DEF EndRunAs, TypeOK
  <2>5. QED
    BY <1>7, <2>1, <2>4 DEF EndRunAs, TypeOK
<1>8. CASE CompleteTask(w) \/ FailTask(w) \/ FinalizeCancellation(w)
  BY <1>7, <1>8 DEF CompleteTask, FailTask, FinalizeCancellation
<1>9. CASE RefuseResult(w)
  <2>1. worker' \in [Workers -> WorkerState]
    BY <1>0, <1>9, WorkerUpdate DEF RefuseResult, WorkerSteps
  <2>2. QED
    BY <1>0, <1>9, <2>1, WorkerLocal DEF RefuseResult
<1>10. CASE DropResult(w)
  BY <1>0, <1>10, WorkerUpdate, WorkerLocal DEF DropResult
<1>11. CASE PutOff(w)
  <2>1. worker' \in [Workers -> WorkerState]
    BY <1>0, <1>11, WorkerUpdate DEF PutOff
  <2>2. outbox' \in [Tasks -> OutboxRow] /\ announced' \in [Tasks -> BOOLEAN]
    BY <1>11, AddOutboxType DEF PutOff
  <2>3. /\ t \in Tasks
        /\ status' = [status EXCEPT ![t] = "queued"]
        /\ attempts' = [attempts EXCEPT ![t] = Refunded(attempts[t])]
        /\ due' = [due EXCEPT ![t] = FALSE]
        /\ lease' = [lease EXCEPT ![t] = NoLease]
        /\ leaseLeft' = [leaseLeft EXCEPT ![t] = 0]
        /\ UNCHANGED <<cancelRequested, queue, dispatcher, faults>>
    BY <1>11, WorkerHasTask DEF PutOff
  <2>4. Refunded(attempts[t]) \in Nat /\ 0 \in 0..LeaseTicks
    BY <2>3 DEF Refunded, TypeOK, LifecycleAssumption
  <2>5. QED
    BY <2>1, <2>2, <2>3, <2>4 DEF TypeOK, Statuses
<1>12. QED
  BY <1>1, <1>2, <1>3, <1>4, <1>5, <1>6, <1>8, <1>9, <1>10, <1>11 DEF WorkerStep, Settle

\* Changing the fields of one dispatcher keeps their table well-typed.
LEMMA DispatcherUpdate ==
  ASSUME dispatcher \in [Dispatchers -> DispatcherState], NEW d \in Dispatchers
  PROVE  /\ \A step \in DispatcherSteps :
              DispatcherTo(d, step) => dispatcher' \in [Dispatchers -> DispatcherState]
         /\ \A step \in DispatcherSteps, B \in SUBSET Event :
              dispatcher' = [dispatcher EXCEPT ![d].step = step, ![d].batch = B]
                => dispatcher' \in [Dispatchers -> DispatcherState]
         /\ \A step \in DispatcherSteps, e \in dispatcher[d].batch :
              dispatcher' = [dispatcher EXCEPT ![d].step = step, ![d].event = e]
                => dispatcher' \in [Dispatchers -> DispatcherState]
         /\ NextEvent(d) => dispatcher' \in [Dispatchers -> DispatcherState]
         /\ dispatcher' = [dispatcher EXCEPT ![d] = LoopStart]
              => dispatcher' \in [Dispatchers -> DispatcherState]
<1>1. ASSUME NEW step \in DispatcherSteps, DispatcherTo(d, step)
      PROVE  dispatcher' \in [Dispatchers -> DispatcherState]
  BY <1>1 DEF DispatcherTo, DispatcherState
<1>2. ASSUME NEW step \in DispatcherSteps, NEW B \in SUBSET Event,
             dispatcher' = [dispatcher EXCEPT ![d].step = step, ![d].batch = B]
      PROVE  dispatcher' \in [Dispatchers -> DispatcherState]
  BY <1>2 DEF DispatcherState
<1>3. ASSUME NEW step \in DispatcherSteps, NEW e \in dispatcher[d].batch,
             dispatcher' = [dispatcher EXCEPT ![d].step = step, ![d].event = e]
      PROVE  dispatcher' \in [Dispatchers -> DispatcherState]
  BY <1>3 DEF DispatcherState
<1>4. LoopStart \in DispatcherState
  BY DEF LoopStart, DispatcherState, DispatcherSteps
<1>5. ASSUME NextEvent(d)
      PROVE  dispatcher' \in [Dispatchers -> DispatcherState]
  <2> DEFINE rest == dispatcher[d].batch \ {dispatcher[d].event}
  <2>1. [step |-> "publish", batch |-> rest, event |-> NoEvent] \in DispatcherState
    BY DEF DispatcherState, DispatcherSteps
  <2>2. QED
    BY <1>4, <1>5, <2>1 DEF NextEvent
<1>6. ASSUME dispatcher' = [dispatcher EXCEPT ![d] = LoopStart]
      PROVE  dispatcher' \in [Dispatchers -> DispatcherState]
  BY <1>4, <1>6
<1>7. QED
  BY <1>1, <1>2, <1>3, <1>5, <1>6

\* Writing a state or a flag into one outbox row keeps the table well-typed.
LEMMA OutboxUpdate ==
  ASSUME outbox \in [Tasks -> OutboxRow], NEW t \in Tasks
  PROVE  /\ [outbox EXCEPT ![t].state = "published", ![t].stale = FALSE]
              \in [Tasks -> OutboxRow]
         /\ \A b \in BOOLEAN :
              /\ [outbox EXCEPT ![t].available = b] \in [Tasks -> OutboxRow]
              /\ [outbox EXCEPT ![t].stale = b] \in [Tasks -> OutboxRow]
BY DEF OutboxRow, OutboxStates

\* The events a dispatcher handles are events of tasks.
LEMMA DispatcherEvents ==
  ASSUME TypeOK, DispatcherShape, NEW d \in Dispatchers
  PROVE  \A e \in Held(d) : e.task \in Tasks /\ e.generation \in Nat
BY DEF TypeOK, DispatcherShape, DispatcherState, Held, Event

LEMMA DispatcherType ==
  ASSUME LifecycleAssumption, TypeOK, DispatcherShape,
         NEW d \in Dispatchers, DispatcherStep(d)
  PROVE  TypeOK'
<1> DEFINE e == dispatcher[d].event
<1>0. dispatcher \in [Dispatchers -> DispatcherState]
  BY DEF TypeOK
<1>1. CASE RecoverQueued(d)
  <2>1. dispatcher' \in [Dispatchers -> DispatcherState]
    BY <1>0, <1>1, DispatcherUpdate DEF RecoverQueued, DispatcherSteps
  <2>2. outbox' \in [Tasks -> OutboxRow] /\ announced' \in [Tasks -> BOOLEAN]
    BY <1>1, AddOutboxType DEF RecoverQueued
  <2>3. QED
    BY <1>1, <2>1, <2>2 DEF RecoverQueued, TypeOK, taskVars
<1>2. CASE RecoverExpired(d)
  <2>1. dispatcher' \in [Dispatchers -> DispatcherState]
    BY <1>0, <1>2, DispatcherUpdate DEF RecoverExpired, DispatcherSteps
  <2>2. outbox' \in [Tasks -> OutboxRow] /\ announced' \in [Tasks -> BOOLEAN]
    BY <1>2, AddOutboxType DEF RecoverExpired
  <2>3. \A t \in Tasks : AfterExpiry(t) \in Statuses
    BY DEF AfterExpiry, Statuses, Final
  <2>4. QED
    BY <1>2, <2>1, <2>2, <2>3 DEF RecoverExpired, TypeOK
<1>3. CASE PollOutbox(d)
  <2>1. \A t \in Tasks : [task |-> t, generation |-> outbox[t].generation] \in Event
    BY DEF TypeOK, OutboxRow, Event
  <2>2. {[task |-> t, generation |-> outbox[t].generation] : t \in Pending} \in SUBSET Event
    BY <2>1 DEF Pending
  <2>3. dispatcher' \in [Dispatchers -> DispatcherState]
    BY <1>0, <1>3, <2>2, DispatcherUpdate DEF PollOutbox, DispatcherSteps
  <2>4. QED
    BY <1>3, <2>3 DEF PollOutbox, TypeOK, taskVars
<1>4. CASE PushSignal(d)
  <2>1. PICK p \in dispatcher[d].batch :
          /\ queue' = Append(queue, p.task)
          /\ dispatcher' = [dispatcher EXCEPT ![d].step = "pushed", ![d].event = p]
          /\ announced' = [announced EXCEPT
               ![p.task] = @ \/ p.generation = outbox[p.task].generation]
    BY <1>4 DEF PushSignal
  <2>2. p.task \in Tasks
    BY <2>1, DispatcherEvents DEF Held
  <2>3. dispatcher' \in [Dispatchers -> DispatcherState]
    BY <1>0, <2>1, DispatcherUpdate DEF DispatcherSteps
  <2>4. queue' \in Seq(Tasks)
    BY <2>1, <2>2 DEF TypeOK
  <2>5. announced' \in [Tasks -> BOOLEAN]
    BY <2>1, <2>2 DEF TypeOK
  <2>6. QED
    BY <1>4, <2>3, <2>4, <2>5 DEF PushSignal, TypeOK, taskVars
<1>5. CASE MarkPublished(d)
  <2>1. dispatcher' \in [Dispatchers -> DispatcherState]
    BY <1>0, <1>5, DispatcherUpdate DEF MarkPublished
  <2>2. outbox' \in [Tasks -> OutboxRow]
    <3>1. outbox \in [Tasks -> OutboxRow] /\ e.task \in Tasks
      BY <1>5, DispatcherEvents DEF MarkPublished, Held, TypeOK
    <3>2. QED
      BY <1>5, <3>1, OutboxUpdate DEF MarkPublished
  <2>3. QED
    BY <1>5, <2>1, <2>2 DEF MarkPublished, TypeOK, taskVars
<1>6. CASE MarkFailed(d)
  <2>1. dispatcher' \in [Dispatchers -> DispatcherState]
    BY <1>0, <1>6, DispatcherUpdate DEF MarkFailed
  <2>2. outbox' \in [Tasks -> OutboxRow]
    <3>1. outbox \in [Tasks -> OutboxRow] /\ e.task \in Tasks
      BY <1>6, DispatcherEvents DEF MarkFailed, Held, TypeOK
    <3>2. QED
      BY <1>6, <3>1, OutboxUpdate DEF MarkFailed
  <2>3. QED
    BY <1>6, <2>1, <2>2 DEF MarkFailed, TypeOK, taskVars
<1>7. QED
  BY <1>1, <1>2, <1>3, <1>4, <1>5, <1>6 DEF DispatcherStep

LEMMA TimeType ==
  ASSUME LifecycleAssumption, TypeOK, NEW t \in Tasks, TimeStep(t)
  PROVE  TypeOK'
<1>1. CASE LeaseTick(t)
  BY <1>1 DEF LeaseTick, TypeOK, LifecycleAssumption
<1>2. CASE BecomeDue(t)
  <2>1. outbox' \in [Tasks -> OutboxRow]
    <3>1. outbox \in [Tasks -> OutboxRow]
      BY DEF TypeOK
    <3>2. CASE outbox[t].state = "absent"
      <4>1. outbox' = [outbox EXCEPT ![t].available = FALSE]
        BY <1>2, <3>2 DEF BecomeDue
      <4>2. QED
        BY <3>1, <4>1, OutboxUpdate
    <3>3. CASE outbox[t].state # "absent"
      <4>1. outbox' = [outbox EXCEPT ![t].available = TRUE]
        BY <1>2, <3>3 DEF BecomeDue
      <4>2. QED
        BY <3>1, <4>1, OutboxUpdate
    <3>4. QED
      BY <3>2, <3>3
  <2>2. QED
    BY <1>2, <2>1 DEF BecomeDue, TypeOK
<1>3. CASE BecomeAvailable(t)
  <2>1. outbox' \in [Tasks -> OutboxRow]
    <3>1. outbox \in [Tasks -> OutboxRow]
      BY DEF TypeOK
    <3>2. outbox' = [outbox EXCEPT ![t].available = TRUE]
      BY <1>3 DEF BecomeAvailable
    <3>3. QED
      BY <3>1, <3>2, OutboxUpdate
  <2>2. QED
    BY <1>3, <2>1 DEF BecomeAvailable, TypeOK, taskVars
<1>4. CASE BecomeStale(t)
  <2>1. outbox' \in [Tasks -> OutboxRow]
    <3>1. outbox \in [Tasks -> OutboxRow]
      BY DEF TypeOK
    <3>2. outbox' = [outbox EXCEPT ![t].stale = TRUE]
      BY <1>4 DEF BecomeStale
    <3>3. QED
      BY <3>1, <3>2, OutboxUpdate
  <2>2. faults' \in Nat
    BY <1>4 DEF BecomeStale, TypeOK, Fault
  <2>3. QED
    BY <1>4, <2>1, <2>2 DEF BecomeStale, TypeOK, taskVars
<1>5. QED
  BY <1>1, <1>2, <1>3, <1>4 DEF TimeStep

LEMMA FaultType ==
  ASSUME TypeOK, FaultStep
  PROVE  TypeOK'
<1>1. worker \in [Workers -> WorkerState] /\ dispatcher \in [Dispatchers -> DispatcherState]
  BY DEF TypeOK
<1>2. Fault => faults' \in Nat
  BY DEF TypeOK, Fault
<1>3. ASSUME NEW w \in Workers, HeartbeatFails(w) \/ WorkerCrash(w) \/ ResultNotStored(w)
      PROVE  TypeOK'
  <2>1. worker' \in [Workers -> WorkerState]
    BY <1>1, <1>3, WorkerUpdate
    DEF HeartbeatFails, WorkerCrash, ResultNotStored, WorkerSteps, Reasons
  <2>2. QED
    BY <1>2, <1>3, <2>1, WorkerLocal DEF HeartbeatFails, WorkerCrash, ResultNotStored
<1>4. ASSUME NEW d \in Dispatchers, PushFails(d) \/ MarkRaises(d) \/ DispatcherCrash(d)
      PROVE  TypeOK'
  <2>1. dispatcher' \in [Dispatchers -> DispatcherState]
    BY <1>1, <1>4, DispatcherUpdate
    DEF PushFails, MarkRaises, DispatcherCrash, DispatcherSteps
  <2>2. QED
    BY <1>2, <1>4, <2>1 DEF PushFails, MarkRaises, DispatcherCrash, TypeOK, taskVars
<1>5. CASE RedisLosesSignals
  BY <1>2, <1>5 DEF RedisLosesSignals, TypeOK, taskVars
<1>6. QED
  BY <1>3, <1>4, <1>5 DEF FaultStep

-----------------------------------------------------------------------------
(* The columns of agent_tasks.                                             *)

TaskRows == FreshTasks /\ WithinBudget /\ CancellationWins /\ LeaseWhileRunning

\* What the rows promise depends on the rows alone.
LEMMA TaskRowsStutter ==
  ASSUME TaskRows, UNCHANGED <<status, attempts, cancelRequested, lease, leaseLeft>>
  PROVE  TaskRows'
BY DEF TaskRows, FreshTasks, WithinBudget, CancellationWins, LeaseWhileRunning

LEMMA ApiTaskRows ==
  ASSUME LifecycleAssumption, TypeOK, TaskRows, NEW t \in Tasks, Api(t)
  PROVE  TaskRows'
<1> USE DEF TaskRows, FreshTasks, WithinBudget, CancellationWins, LeaseWhileRunning
<1>1. CASE CreateTask(t)
  <2>1. PICK new \in {"queued", "pending_approval"} : status' = [status EXCEPT ![t] = new]
    BY <1>1 DEF CreateTask
  <2>2. /\ status[t] = "absent"
        /\ UNCHANGED <<attempts, cancelRequested, lease, leaseLeft>>
    BY <1>1 DEF CreateTask
  <2>3. QED
    BY <2>1, <2>2 DEF TypeOK, LifecycleAssumption
<1>2. CASE ApproveTask(t)
  BY <1>2 DEF ApproveTask, TypeOK, LifecycleAssumption
<1>3. CASE RejectTask(t)
  BY <1>3 DEF RejectTask, TypeOK
<1>4. CASE CancelWaitingTask(t)
  BY <1>4 DEF CancelWaitingTask, TypeOK
<1>5. CASE RequestCancellation(t)
  BY <1>5 DEF RequestCancellation, TypeOK
<1>6. QED
  BY <1>1, <1>2, <1>3, <1>4, <1>5 DEF Api

LEMMA WorkerTaskRows ==
  ASSUME LifecycleAssumption, TypeOK, WorkerShape, TaskRows,
         NEW w \in Workers, WorkerStep(w)
  PROVE  TaskRows'
<1> DEFINE t == worker[w].task
<1>1. CASE PopSignal(w) \/ DiscardSignal(w) \/ HeartbeatStops(w) \/ HandlerEnds(w)
           \/ RefuseResult(w) \/ DropResult(w)
  BY <1>1, TaskRowsStutter
  DEF PopSignal, DiscardSignal, HeartbeatStops, HandlerEnds, RefuseResult, DropResult, taskVars
<1>2. CASE ClaimTask(w)
  <2>1. t \in Tasks
    BY <1>2, WorkerHasTask DEF ClaimTask
  <2>2. PICK l \in LeaseIds : lease' = [lease EXCEPT ![t] = l]
    BY <1>2 DEF ClaimTask
  <2>3. status[t] = "queued" /\ ~cancelRequested[t]
    BY <1>2, <2>1 DEF ClaimTask, Claimable, TaskRows, CancellationWins
  <2>4. QED
    BY <1>2, <2>1, <2>2, <2>3
    DEF ClaimTask, TypeOK, LifecycleAssumption,
        TaskRows, FreshTasks, WithinBudget, CancellationWins, LeaseWhileRunning
<1>3. CASE HeartbeatRenews(w)
  <2>1. t \in Tasks /\ status[t] = "running"
    BY <1>3, WorkerHasTask DEF HeartbeatRenews, Beating, HeartbeatState, Owns
  <2>2. QED
    BY <1>3, <2>1
    DEF HeartbeatRenews, TypeOK,
        TaskRows, FreshTasks, WithinBudget, CancellationWins, LeaseWhileRunning
<1>4. ASSUME NEW final \in {"succeeded", "failed", "cancelled"}, EndRunAs(w, final),
             t \in Tasks, cancelRequested[t] => final = "cancelled"
      PROVE  TaskRows'
  BY <1>4
  DEF EndRunAs, TypeOK,
      TaskRows, FreshTasks, WithinBudget, CancellationWins, LeaseWhileRunning
<1>5. CASE CompleteTask(w) \/ FailTask(w) \/ FinalizeCancellation(w)
  <2>1. t \in Tasks
    BY <1>5, WorkerHasTask
    DEF CompleteTask, FailTask, FinalizeCancellation, Completing, Finalizing, Failing
  <2>2. QED
    BY <1>4, <1>5, <2>1 DEF CompleteTask, FailTask, FinalizeCancellation, MayReport, MayCancel
<1>6. CASE PutOff(w)
  <2>1. /\ t \in Tasks /\ status[t] = "running" /\ ~cancelRequested[t]
        /\ status' = [status EXCEPT ![t] = "queued"]
        /\ attempts' = [attempts EXCEPT ![t] = Refunded(attempts[t])]
        /\ lease' = [lease EXCEPT ![t] = NoLease]
        /\ leaseLeft' = [leaseLeft EXCEPT ![t] = 0]
        /\ UNCHANGED cancelRequested
    BY <1>6, WorkerHasTask DEF PutOff, MayReport, Owns
  <2>2. Refunded(attempts[t]) \in Nat /\ Refunded(attempts[t]) < MaxAttempts[t]
    BY <2>1 DEF Refunded, TypeOK, LifecycleAssumption, TaskRows, WithinBudget
  <2>3. QED
    BY <2>1, <2>2
    DEF TypeOK, LifecycleAssumption,
        TaskRows, FreshTasks, WithinBudget, CancellationWins, LeaseWhileRunning
<1>7. QED
  BY <1>1, <1>2, <1>3, <1>5, <1>6 DEF WorkerStep, Settle

LEMMA DispatcherTaskRows ==
  ASSUME LifecycleAssumption, TypeOK, TaskRows, NEW d \in Dispatchers, DispatcherStep(d)
  PROVE  TaskRows'
<1>1. CASE RecoverExpired(d)
  <2>1. ASSUME NEW t \in Tasks, t \notin Expired
        PROVE  status'[t] = status[t] /\ lease'[t] = lease[t]
    BY <1>1, <2>1 DEF RecoverExpired
  <2>2. ASSUME NEW t \in Tasks, t \in Expired
        PROVE  /\ status'[t] = AfterExpiry(t) /\ lease'[t] = NoLease
               /\ leaseLeft[t] = 0
    BY <1>1, <2>2 DEF RecoverExpired, Expired, LeaseValid, TypeOK, LifecycleAssumption
  <2>3. ASSUME NEW t \in Tasks
        PROVE  /\ AfterExpiry(t) \in {"cancelled", "dead_lettered", "queued"}
               /\ cancelRequested[t] => AfterExpiry(t) = "cancelled"
               /\ AfterExpiry(t) = "queued" => attempts[t] < MaxAttempts[t]
    BY DEF AfterExpiry, TypeOK, LifecycleAssumption
  <2>4. UNCHANGED <<attempts, cancelRequested, leaseLeft>>
    BY <1>1 DEF RecoverExpired
  <2>5. QED
    BY <2>1, <2>2, <2>3, <2>4
    DEF TaskRows, FreshTasks, WithinBudget, CancellationWins, LeaseWhileRunning
<1>2. CASE ~RecoverExpired(d)
  BY <1>2, TaskRowsStutter
  DEF DispatcherStep, RecoverQueued, PollOutbox, PushSignal, MarkPublished, MarkFailed, taskVars
<1>3. QED
  BY <1>1, <1>2

LEMMA OtherTaskRows ==
  ASSUME LifecycleAssumption, TypeOK, TaskRows,
         (\E t \in Tasks : TimeStep(t)) \/ FaultStep \/ UNCHANGED vars
  PROVE  TaskRows'
<1>1. ASSUME NEW t \in Tasks, LeaseTick(t)
      PROVE  TaskRows'
  BY <1>1
  DEF LeaseTick, TypeOK, LifecycleAssumption,
      TaskRows, FreshTasks, WithinBudget, CancellationWins, LeaseWhileRunning
<1>2. ASSUME NEW t \in Tasks, BecomeDue(t) \/ BecomeAvailable(t) \/ BecomeStale(t)
      PROVE  TaskRows'
  BY <1>2, TaskRowsStutter DEF BecomeDue, BecomeAvailable, BecomeStale, taskVars
<1>3. CASE FaultStep \/ UNCHANGED vars
  BY <1>3, TaskRowsStutter
  DEF FaultStep, HeartbeatFails, WorkerCrash, ResultNotStored, PushFails, MarkRaises,
      DispatcherCrash, RedisLosesSignals, vars, taskVars
<1>4. QED
  BY <1>1, <1>2, <1>3 DEF TimeStep

-----------------------------------------------------------------------------
(* The workers.                                                            *)

LEMMA WorkerShapePreserved ==
  ASSUME LifecycleAssumption, TypeOK, WorkerShape, [Next]_vars
  PROVE  WorkerShape'
<1> USE DEF WorkerShape
<1>1. worker \in [Workers -> WorkerState]
  BY DEF TypeOK
<1>2. CASE UNCHANGED worker
  BY <1>2
<1>3. ASSUME NEW w \in Workers, ToIdle(w)
      PROVE  WorkerShape'
  BY <1>1, <1>3 DEF ToIdle, IdleWorker
<1>4. ASSUME NEW w \in Workers, NEW step \in {"returned", "interrupted", "raised"},
             Goto(w, step), worker[w].step \notin {"idle", "popped"}
      PROVE  WorkerShape'
  BY <1>1, <1>4 DEF Goto, WorkerState
<1>5. ASSUME NEW w \in Workers, NEW r \in Reasons, worker' = [worker EXCEPT ![w].reason = r]
      PROVE  WorkerShape'
  BY <1>1, <1>5 DEF WorkerState
<1>6. ASSUME NEW w \in Workers, PopSignal(w)
      PROVE  WorkerShape'
  <2>1. Head(queue) \in Tasks
    BY <1>6 DEF PopSignal, TypeOK
  <2>2. worker' = [worker EXCEPT ![w].step = "popped", ![w].task = Head(queue)]
        /\ worker[w].step = "idle"
    BY <1>6 DEF PopSignal
  <2>3. QED
    BY <1>1, <2>1, <2>2 DEF WorkerState, LifecycleAssumption
<1>7. ASSUME NEW w \in Workers, ClaimTask(w)
      PROVE  WorkerShape'
  <2>1. PICK l \in LeaseIds :
          worker' = [worker EXCEPT ![w].step = "executing", ![w].lease = l]
    BY <1>7 DEF ClaimTask
  <2>2. worker[w].step = "popped"
    BY <1>7 DEF ClaimTask
  <2>3. QED
    BY <1>1, <2>1, <2>2 DEF WorkerState, LifecycleAssumption
<1>8. ASSUME NEW w \in Workers, WorkerStep(w)
      PROVE  WorkerShape'
  <2>1. CASE DiscardSignal(w) \/ DropResult(w) \/ CompleteTask(w) \/ FailTask(w)
             \/ FinalizeCancellation(w) \/ PutOff(w)
    BY <1>3, <2>1
    DEF DiscardSignal, DropResult, PutOff, CompleteTask, FailTask, FinalizeCancellation, EndRunAs
  <2>2. CASE HeartbeatRenews(w)
    BY <1>2, <2>2 DEF HeartbeatRenews
  <2>3. CASE HeartbeatStops(w)
    BY <1>5, <2>3 DEF HeartbeatStops, HeartbeatState, Reasons
  <2>4. CASE HandlerEnds(w)
    BY <1>4, <2>4 DEF HandlerEnds
  <2>5. CASE RefuseResult(w)
    BY <1>3, <1>4, <2>5 DEF RefuseResult
  <2>6. QED
    BY <1>6, <1>7, <1>8, <2>1, <2>2, <2>3, <2>4, <2>5 DEF WorkerStep, Settle
<1>9. CASE FaultStep
  <2>1. ASSUME NEW w \in Workers, HeartbeatFails(w) \/ WorkerCrash(w) \/ ResultNotStored(w)
        PROVE  WorkerShape'
    BY <1>3, <1>4, <1>5, <2>1
    DEF HeartbeatFails, WorkerCrash, ResultNotStored, Reasons
  <2>2. QED
    BY <1>2, <1>9, <2>1
    DEF FaultStep, PushFails, MarkRaises, DispatcherCrash, RedisLosesSignals
<1>10. ASSUME NEW t \in Tasks, Api(t) \/ TimeStep(t)
       PROVE  WorkerShape'
  BY <1>2, <1>10
  DEF Api, CreateTask, ApproveTask, RejectTask, CancelWaitingTask, RequestCancellation,
      TimeStep, LeaseTick, BecomeDue, BecomeAvailable, BecomeStale
<1>11. ASSUME NEW d \in Dispatchers, DispatcherStep(d)
       PROVE  WorkerShape'
  BY <1>2, <1>11
  DEF DispatcherStep, RecoverQueued, RecoverExpired, PollOutbox, PushSignal,
      MarkPublished, MarkFailed
<1>12. CASE UNCHANGED vars
  BY <1>2, <1>12 DEF vars
<1>13. QED
  BY <1>8, <1>9, <1>10, <1>11, <1>12 DEF Next

-----------------------------------------------------------------------------
(* The outbox and the dispatchers.                                         *)

Delivery ==
  /\ OutboxFollowsTask /\ DispatcherShape /\ HeldEvents /\ PushedEvents
  /\ AvailableIsDue /\ PublishedMeansAnnounced /\ BackoffBeforeAnnouncement

\* No dispatcher takes up an event or reports a push.
HeldShrinks ==
  \A d \in Dispatchers :
    /\ Held(d)' \subseteq Held(d)
    /\ dispatcher'[d].step = "pushed"
         => dispatcher[d].step = "pushed" /\ dispatcher'[d].event = dispatcher[d].event
    /\ dispatcher'[d].step \in {"pushed", "failed"} => dispatcher'[d].event \in Event

\* The row of t is armed under a new generation for a task that waits.
ArmStep(t) ==
  /\ status[t] \notin Final /\ status'[t] = "queued"
  /\ outbox'[t].state = "unpublished"
  /\ outbox'[t].generation = outbox[t].generation + 1
  /\ outbox'[t].available => due'[t]

\* The row of t is left alone, or dropped with its task.
KeepStep(t) ==
  /\ \/ status'[t] = status[t]
     \/ status'[t] \in Final
     \/ status'[t] = "pending_approval" /\ status[t] = "absent"
     \/ status'[t] = "running" /\ status[t] = "queued"
  /\ \/ /\ outbox'[t].state = outbox[t].state
        /\ outbox'[t].generation = outbox[t].generation
        /\ outbox'[t].available => outbox[t].available \/ due'[t]
     \/ outbox'[t].state = "absent" /\ status'[t] \in Final
  /\ outbox'[t].state # "absent" /\ announced[t] => announced'[t]
  /\ due[t] => due'[t]

\* Every step that takes up no event and publishes nothing keeps the delivery
\* invariant: an event still in somebody's memory names an older generation
\* of every row that is armed.
LEMMA DeliveryStep ==
  ASSUME TypeOK, Delivery, HeldShrinks,
         \A t \in Tasks : ArmStep(t) \/ KeepStep(t)
  PROVE  Delivery'
<1>1. ASSUME NEW t \in Tasks
      PROVE  outbox[t].generation \in Nat
  BY DEF TypeOK, OutboxRow
<1>2. OutboxFollowsTask'
  BY DEF Delivery, OutboxFollowsTask, ArmStep, KeepStep, Final
<1>3. DispatcherShape'
  BY DEF HeldShrinks, DispatcherShape
<1>4. ASSUME NEW d \in Dispatchers, NEW e \in Held(d)', e \in Held(d)
      PROVE  /\ status'[e.task] \notin {"absent", "pending_approval"}
             /\ outbox'[e.task].state # "absent" => e.generation <= outbox'[e.task].generation
             /\ Fenced(e)' => Fenced(e) /\ KeepStep(e.task)
             /\ Fenced(e)' /\ status'[e.task] = "queued" => due'[e.task]
  <2>1. e.task \in Tasks /\ e.generation \in Nat
    BY <1>4, DispatcherEvents DEF Delivery
  <2>2. /\ status[e.task] \notin {"absent", "pending_approval"}
        /\ outbox[e.task].state # "absent" => e.generation <= outbox[e.task].generation
        /\ Fenced(e) /\ status[e.task] = "queued" => due[e.task]
    BY <1>4 DEF Delivery, HeldEvents
  <2>3. CASE ArmStep(e.task)
    <3>1. outbox[e.task].state # "absent"
      BY <2>1, <2>2, <2>3 DEF ArmStep, Delivery, OutboxFollowsTask, TypeOK, Statuses
    <3>2. QED
      BY <1>1, <2>1, <2>2, <2>3, <3>1 DEF ArmStep, Fenced
  <2>4. CASE KeepStep(e.task)
    BY <2>1, <2>2, <2>4 DEF KeepStep, Fenced, Final
  <2>5. QED
    BY <2>1, <2>3, <2>4
<1>5. HeldEvents'
  BY <1>4 DEF HeldEvents, HeldShrinks
<1>6. PushedEvents'
  <2>1. SUFFICES ASSUME NEW d \in Dispatchers, dispatcher'[d].step = "pushed",
                        Fenced(dispatcher[d].event)'
                 PROVE  announced'[dispatcher'[d].event.task]
    BY DEF PushedEvents
  <2>0. PICK e : e = dispatcher[d].event
    OBVIOUS
  <2>2. dispatcher[d].step = "pushed" /\ dispatcher'[d].event = e
    BY <2>0, <2>1 DEF HeldShrinks
  <2>3. e \in Held(d) /\ e \in Held(d)'
    BY <2>0, <2>1, <2>2 DEF Held
  <2>4. Fenced(e)'
    BY <2>1, <2>2 DEF Fenced
  <2>5. Fenced(e) /\ KeepStep(e.task)
    BY <1>4, <2>3, <2>4
  <2>6. announced[e.task]
    BY <2>0, <2>2, <2>5 DEF Delivery, PushedEvents
  <2>7. QED
    BY <2>2, <2>4, <2>5, <2>6 DEF KeepStep, Fenced
<1>7. AvailableIsDue'
  BY DEF Delivery, AvailableIsDue, ArmStep, KeepStep, Final, OutboxFollowsTask
<1>8. PublishedMeansAnnounced'
  BY <1>2 DEF Delivery, PublishedMeansAnnounced, OutboxFollowsTask, ArmStep, KeepStep, Final
<1>9. BackoffBeforeAnnouncement'
  BY DEF Delivery, BackoffBeforeAnnouncement, ArmStep, KeepStep, Final, OutboxFollowsTask
<1>10. QED
  BY <1>2, <1>3, <1>5, <1>6, <1>7, <1>8, <1>9 DEF Delivery

\* What _add_outbox does to the row of one task.
LEMMA AddOutboxRows ==
  ASSUME NEW S, NEW isDue, AddOutbox(S, isDue), NEW t \in Tasks
  PROVE  /\ t \in S => /\ outbox'[t].state = "unpublished"
                       /\ outbox'[t].generation = outbox[t].generation + 1
                       /\ outbox'[t].available = isDue
         /\ t \notin S => outbox'[t] = outbox[t] /\ (announced[t] => announced'[t])
BY DEF AddOutbox, Armed

\* A task put into the queue for a given moment, and the row armed for it.
LEMMA RearmedRow ==
  ASSUME TypeOK, NEW t \in Tasks, status[t] \notin Final,
         status' = [status EXCEPT ![t] = "queued"],
         \/ due' = [due EXCEPT ![t] = TRUE] /\ AddOutbox({t}, TRUE)
         \/ due' = [due EXCEPT ![t] = FALSE] /\ AddOutbox({t}, FALSE)
  PROVE  \A u \in Tasks : ArmStep(u) \/ KeepStep(u)
<1>1. status \in [Tasks -> Statuses] /\ due \in [Tasks -> BOOLEAN]
  BY DEF TypeOK
<1>2. ArmStep(t)
  <2>1. CASE due' = [due EXCEPT ![t] = TRUE] /\ AddOutbox({t}, TRUE)
    BY <1>1, <2>1, AddOutboxRows, ZenonT(30) DEF ArmStep
  <2>2. CASE due' = [due EXCEPT ![t] = FALSE] /\ AddOutbox({t}, FALSE)
    BY <1>1, <2>2, AddOutboxRows, ZenonT(30) DEF ArmStep
  <2>3. QED
    BY <2>1, <2>2
<1>3. ASSUME NEW u \in Tasks, u # t
      PROVE  KeepStep(u)
  <2>1. status'[u] = status[u] /\ due'[u] = due[u]
    BY <1>1, <1>3
  <2>2. AddOutbox({t}, TRUE) \/ AddOutbox({t}, FALSE)
    OBVIOUS
  <2>3. outbox'[u] = outbox[u] /\ (announced[u] => announced'[u])
    BY <1>3, <2>2 DEF AddOutbox
  <2>4. QED
    BY <2>1, <2>3 DEF KeepStep
<1>4. QED
  BY <1>2, <1>3

LEMMA HeldStutter ==
  ASSUME TypeOK, Delivery, UNCHANGED dispatcher
  PROVE  HeldShrinks
BY DEF HeldShrinks, Held, Delivery, DispatcherShape

LEMMA ApiDelivery ==
  ASSUME LifecycleAssumption, TypeOK, Delivery, NEW t \in Tasks, Api(t)
  PROVE  Delivery'
<1>1. HeldShrinks
  BY HeldStutter
  DEF Api, CreateTask, ApproveTask, RejectTask, CancelWaitingTask, RequestCancellation
<1>2. ASSUME AddOutbox({t}, due[t]), status' = [status EXCEPT ![t] = "queued"],
             UNCHANGED due, status[t] \in {"absent", "pending_approval"}
      PROVE  \A u \in Tasks : ArmStep(u) \/ KeepStep(u)
  BY <1>2, AddOutboxRows DEF TypeOK, ArmStep, KeepStep, Final
<1>3. \A u \in Tasks : ArmStep(u) \/ KeepStep(u)
  <2>1. CASE CreateTask(t) /\ t \notin HighRisk
    BY <1>2, <2>1 DEF CreateTask
  <2>2. CASE CreateTask(t) /\ t \in HighRisk
    BY <2>2 DEF CreateTask, KeepStep, TypeOK
  <2>3. CASE ApproveTask(t)
    <3>1. /\ status[t] = "pending_approval"
          /\ status' = [status EXCEPT ![t] = "queued"]
      BY <2>3 DEF ApproveTask
    <3>2. \/ due' = [due EXCEPT ![t] = TRUE] /\ AddOutbox({t}, TRUE)
          \/ due' = [due EXCEPT ![t] = FALSE] /\ AddOutbox({t}, FALSE)
      BY <2>3, ApprovalArms DEF TypeOK
    <3>3. QED
      BY <3>1, <3>2, RearmedRow DEF Final
  <2>4. CASE RejectTask(t)
    BY <2>4 DEF RejectTask, KeepStep, TypeOK, Final
  <2>5. CASE CancelWaitingTask(t)
    BY <2>5 DEF CancelWaitingTask, KeepStep, TypeOK, Final, NoOutboxRow
  <2>6. CASE RequestCancellation(t)
    BY <2>6 DEF RequestCancellation, KeepStep, TypeOK
  <2>7. QED
    BY <2>1, <2>2, <2>3, <2>4, <2>5, <2>6 DEF Api
<1>4. QED
  BY <1>1, <1>3, DeliveryStep

LEMMA WorkerDelivery ==
  ASSUME LifecycleAssumption, TypeOK, WorkerShape, Delivery, NEW w \in Workers, WorkerStep(w)
  PROVE  Delivery'
<1> USE DEF WorkerStep, PopSignal, ClaimTask, DiscardSignal, HeartbeatRenews, HeartbeatStops,
      HandlerEnds, Settle, CompleteTask, FailTask, FinalizeCancellation, RefuseResult,
      DropResult, EndRunAs
<1>1. CASE PutOff(w)
  <2>1. /\ worker[w].task \in Tasks
        /\ status[worker[w].task] = "running"
        /\ status' = [status EXCEPT ![worker[w].task] = "queued"]
        /\ due' = [due EXCEPT ![worker[w].task] = FALSE]
        /\ AddOutbox({worker[w].task}, FALSE)
        /\ UNCHANGED dispatcher
    BY <1>1, WorkerHasTask DEF PutOff, MayReport, Owns
  <2>2. \A u \in Tasks : ArmStep(u) \/ KeepStep(u)
    BY <2>1, RearmedRow DEF Final
  <2>3. QED
    BY <2>1, <2>2, HeldStutter, DeliveryStep
<1>2. CASE ~ PutOff(w)
  <2>1. UNCHANGED <<dispatcher, outbox, announced, due>>
    BY <1>2 DEF taskVars
  <2>2. \A u \in Tasks :
          \/ status'[u] = status[u] \/ status'[u] \in Final
          \/ status'[u] = "running" /\ status[u] = "queued"
    BY <1>2 DEF taskVars, TypeOK, Claimable, Final
  <2>3. \A u \in Tasks : KeepStep(u)
    BY <2>1, <2>2 DEF KeepStep
  <2>4. QED
    BY <2>1, <2>3, HeldStutter, DeliveryStep
<1>3. QED
  BY <1>1, <1>2

LEMMA TimeDelivery ==
  ASSUME LifecycleAssumption, TypeOK, Delivery, NEW t \in Tasks, TimeStep(t)
  PROVE  Delivery'
<1>1. HeldShrinks
  BY HeldStutter DEF TimeStep, LeaseTick, BecomeDue, BecomeAvailable, BecomeStale
<1>2. outbox \in [Tasks -> OutboxRow] /\ due \in [Tasks -> BOOLEAN]
  BY DEF TypeOK
<1>3. \A u \in Tasks : KeepStep(u)
  <2>1. CASE LeaseTick(t)
    BY <2>1 DEF LeaseTick, KeepStep
  <2>2. CASE BecomeDue(t)
    BY <1>2, <2>2 DEF BecomeDue, KeepStep, OutboxRow
  <2>3. CASE BecomeAvailable(t)
    BY <1>2, <2>3 DEF BecomeAvailable, KeepStep, OutboxRow, taskVars
  <2>4. CASE BecomeStale(t)
    BY <1>2, <2>4 DEF BecomeStale, KeepStep, OutboxRow, taskVars
  <2>5. QED
    BY <2>1, <2>2, <2>3, <2>4 DEF TimeStep
<1>4. QED
  BY <1>1, <1>3, DeliveryStep

LEMMA FaultDelivery ==
  ASSUME LifecycleAssumption, TypeOK, Delivery, FaultStep
  PROVE  Delivery'
<1>1. HeldShrinks
  <2>1. CASE UNCHANGED dispatcher
    BY <2>1, HeldStutter
  <2>2. ASSUME NEW d \in Dispatchers, PushFails(d) \/ MarkRaises(d) \/ DispatcherCrash(d)
        PROVE  HeldShrinks
    <3>1. dispatcher \in [Dispatchers -> DispatcherState]
      BY DEF TypeOK
    <3>2. \A x \in Dispatchers : x # d => dispatcher'[x] = dispatcher[x]
      BY <2>2, <3>1 DEF PushFails, MarkRaises, DispatcherCrash, DispatcherTo
    <3>3. CASE PushFails(d)
      <4>1. PICK e \in dispatcher[d].batch :
              dispatcher' = [dispatcher EXCEPT ![d].step = "failed", ![d].event = e]
        BY <3>3 DEF PushFails
      <4>2. dispatcher'[d] = [dispatcher[d] EXCEPT !.step = "failed", !.event = e]
        BY <3>1, <4>1
      <4>3. e \in Event
        BY <3>1 DEF DispatcherState
      <4>4. /\ dispatcher'[d].step = "failed" /\ dispatcher'[d].event = e
            /\ dispatcher'[d].batch = dispatcher[d].batch
        BY <3>1, <4>2 DEF DispatcherState
      <4>5. Held(d)' \subseteq Held(d)
        BY <4>1, <4>4 DEF Held
      <4>6. QED
        BY <3>2, <4>3, <4>4, <4>5 DEF HeldShrinks, Held, Delivery, DispatcherShape
    <3>4. CASE MarkRaises(d)
      <4>1. dispatcher'[d] = [dispatcher[d] EXCEPT !.step = "failed"]
            /\ dispatcher[d].step = "pushed"
        BY <3>1, <3>4 DEF MarkRaises, DispatcherTo
      <4>2. QED
        BY <3>1, <3>2, <4>1
        DEF HeldShrinks, Held, DispatcherState, Delivery, DispatcherShape
    <3>5. CASE DispatcherCrash(d)
      <4>1. dispatcher'[d] = LoopStart
        BY <3>1, <3>5 DEF DispatcherCrash
      <4>2. QED
        BY <3>1, <3>2, <4>1 DEF HeldShrinks, Held, LoopStart, Delivery, DispatcherShape
    <3>6. QED
      BY <2>2, <3>3, <3>4, <3>5
  <2>3. QED
    BY <2>1, <2>2
    DEF FaultStep, HeartbeatFails, WorkerCrash, ResultNotStored, RedisLosesSignals
<1>2. UNCHANGED <<taskVars, outbox, announced>>
  BY DEF FaultStep, HeartbeatFails, WorkerCrash, ResultNotStored, RedisLosesSignals,
         PushFails, MarkRaises, DispatcherCrash
<1>3. \A u \in Tasks : KeepStep(u)
  BY <1>2 DEF KeepStep, taskVars
<1>4. QED
  BY <1>1, <1>3, DeliveryStep

\* Going on to another step of the loop, or to the next event, takes up none.
LEMMA LoopHeldShrinks ==
  ASSUME TypeOK, Delivery, NEW d \in Dispatchers,
         \/ \E step \in {"recover_expired", "poll"} : DispatcherTo(d, step)
         \/ NextEvent(d)
  PROVE  HeldShrinks
<1>1. dispatcher \in [Dispatchers -> DispatcherState]
  BY DEF TypeOK
<1>2. \A x \in Dispatchers : x # d => dispatcher'[x] = dispatcher[x]
  BY <1>1 DEF DispatcherTo, NextEvent
<1>3. ASSUME NEW step \in {"recover_expired", "poll"}, DispatcherTo(d, step)
      PROVE  HeldShrinks
  <2>1. dispatcher'[d] = [dispatcher[d] EXCEPT !.step = step]
    BY <1>1, <1>3 DEF DispatcherTo
  <2>2. QED
    BY <1>1, <1>2, <2>1 DEF HeldShrinks, Held, DispatcherState, Delivery, DispatcherShape
<1>4. ASSUME NextEvent(d)
      PROVE  HeldShrinks
  <2>1. /\ dispatcher'[d].step \in {"recover_queued", "publish"}
        /\ dispatcher'[d].batch \subseteq dispatcher[d].batch
    BY <1>1, <1>4 DEF NextEvent, LoopStart
  <2>2. QED
    BY <1>1, <1>2, <2>1 DEF HeldShrinks, Held, Delivery, DispatcherShape
<1>5. QED
  BY <1>3, <1>4

LEMMA RecoverQueuedDelivery ==
  ASSUME TypeOK, Delivery, NEW d \in Dispatchers, RecoverQueued(d)
  PROVE  Delivery'
<1>1. HeldShrinks
  BY LoopHeldShrinks DEF RecoverQueued
<1>2. ASSUME NEW t \in Tasks
      PROVE  ArmStep(t) \/ KeepStep(t)
  <2>1. UNCHANGED <<status, due>> /\ AddOutbox(LostSignals, TRUE)
    BY DEF RecoverQueued, taskVars
  <2>2. CASE t \in LostSignals
    BY <2>1, <2>2, AddOutboxRows DEF LostSignals, Claimable, ArmStep, Final
  <2>3. CASE t \notin LostSignals
    BY <2>1, <2>3, AddOutboxRows DEF KeepStep
  <2>4. QED
    BY <2>2, <2>3
<1>3. QED
  BY <1>1, <1>2, DeliveryStep

LEMMA RecoverExpiredDelivery ==
  ASSUME TypeOK, Delivery, NEW d \in Dispatchers, RecoverExpired(d)
  PROVE  Delivery'
<1>1. PICK Retried : Retried = {t \in Expired : AfterExpiry(t) = "queued"}
  OBVIOUS
<1>2. HeldShrinks
  BY LoopHeldShrinks DEF RecoverExpired
<1>3. /\ status' = [u \in Tasks |-> IF u \in Expired THEN AfterExpiry(u) ELSE status[u]]
      /\ due' = [u \in Tasks |-> u \notin Retried /\ due[u]]
      /\ AddOutbox(Retried, FALSE)
  BY <1>1 DEF RecoverExpired
<1>4. ASSUME NEW t \in Tasks
      PROVE  ArmStep(t) \/ KeepStep(t)
  <2>1. CASE t \in Retried
    <3>1. status[t] = "running" /\ status'[t] = "queued"
      BY <1>1, <1>3, <2>1 DEF Expired
    <3>2. /\ outbox'[t].state = "unpublished"
          /\ outbox'[t].generation = outbox[t].generation + 1
          /\ outbox'[t].available = FALSE
      BY <1>3, <2>1, AddOutboxRows
    <3>3. QED
      BY <3>1, <3>2 DEF ArmStep, Final
  <2>2. CASE t \notin Retried
    <3>1. outbox'[t] = outbox[t] /\ (announced[t] => announced'[t])
      BY <1>3, <2>2, AddOutboxRows
    <3>2. QED
      BY <1>1, <1>3, <2>2, <3>1 DEF KeepStep, AfterExpiry, Final
  <2>3. QED
    BY <2>1, <2>2
<1>5. QED
  BY <1>2, <1>4, DeliveryStep

\* The batch names the current generation of rows whose tasks may start.
LEMMA PollDelivery ==
  ASSUME TypeOK, Delivery, NEW d \in Dispatchers, PollOutbox(d)
  PROVE  Delivery'
<1> DEFINE fresh == {[task |-> t, generation |-> outbox[t].generation] : t \in Pending}
<1>1. dispatcher \in [Dispatchers -> DispatcherState]
  BY DEF TypeOK
<1>2. UNCHANGED <<status, due, outbox, announced>>
  BY DEF PollOutbox, taskVars
<1>3. \A x \in Dispatchers : x # d => dispatcher'[x] = dispatcher[x]
  BY <1>1 DEF PollOutbox
<1>4. dispatcher'[d].step \in {"recover_queued", "publish"} /\ dispatcher'[d].batch = fresh
  BY <1>1 DEF PollOutbox, DispatcherState
<1>5. ASSUME NEW e \in fresh
      PROVE  /\ status[e.task] \notin {"absent", "pending_approval"}
             /\ e.generation = outbox[e.task].generation
             /\ status[e.task] = "queued" => due[e.task]
             /\ outbox[e.task].generation \in Nat
  <2>1. PICK t \in Pending : e = [task |-> t, generation |-> outbox[t].generation]
    OBVIOUS
  <2>2. t \in Tasks /\ outbox[t].state = "unpublished" /\ outbox[t].available
    BY DEF Pending
  <2>3. QED
    BY <2>1, <2>2 DEF Delivery, OutboxFollowsTask, AvailableIsDue, TypeOK, OutboxRow
<1>6. HeldEvents'
  <2>1. SUFFICES ASSUME NEW x \in Dispatchers, NEW e \in Held(x)'
                 PROVE  /\ status[e.task] \notin {"absent", "pending_approval"}
                        /\ outbox[e.task].state # "absent"
                             => e.generation <= outbox[e.task].generation
                        /\ Fenced(e) /\ status[e.task] = "queued" => due[e.task]
    BY <1>2 DEF HeldEvents, Fenced
  <2>2. CASE x = d
    <3>1. e \in fresh
      BY <1>4, <2>2 DEF Held
    <3>2. QED
      BY <1>5, <3>1
  <2>3. CASE x # d
    BY <1>3, <2>3 DEF Held, Delivery, HeldEvents
  <2>4. QED
    BY <2>2, <2>3
<1>7. DispatcherShape' /\ PushedEvents'
  BY <1>2, <1>3, <1>4 DEF Delivery, DispatcherShape, PushedEvents, Fenced
<1>8. QED
  BY <1>2, <1>6, <1>7
  DEF Delivery, OutboxFollowsTask, AvailableIsDue, PublishedMeansAnnounced,
      BackoffBeforeAnnouncement

\* The push of the current generation is the announcement of that generation.
LEMMA PushDelivery ==
  ASSUME TypeOK, Delivery, NEW d \in Dispatchers, PushSignal(d)
  PROVE  Delivery'
<1>1. dispatcher \in [Dispatchers -> DispatcherState]
  BY DEF TypeOK
<1>2. UNCHANGED <<status, due, outbox>>
  BY DEF PushSignal, taskVars
<1>3. PICK p \in dispatcher[d].batch :
        /\ dispatcher' = [dispatcher EXCEPT ![d].step = "pushed", ![d].event = p]
        /\ announced' = [announced EXCEPT
             ![p.task] = @ \/ p.generation = outbox[p.task].generation]
  BY DEF PushSignal
<1>4. p \in Event /\ p.task \in Tasks
  BY <1>1, <1>3 DEF DispatcherState, Event
<1>5. \A x \in Dispatchers : x # d => dispatcher'[x] = dispatcher[x]
  BY <1>1, <1>3
<1>6. dispatcher'[d] = [dispatcher[d] EXCEPT !.step = "pushed", !.event = p]
  BY <1>1, <1>3
<1>7. announced \in [Tasks -> BOOLEAN]
  BY DEF TypeOK
<1>8. \A t \in Tasks : announced[t] => announced'[t]
  BY <1>3, <1>7
<1>9. p.generation = outbox[p.task].generation => announced'[p.task]
  BY <1>3, <1>4, <1>7
<1>10. \A x \in Dispatchers : Held(x)' \subseteq Held(x)
  <2>1. /\ dispatcher'[d].step = "pushed" /\ dispatcher'[d].event = p
        /\ dispatcher'[d].batch = dispatcher[d].batch
    BY <1>1, <1>6 DEF DispatcherState
  <2>2. Held(d)' \subseteq Held(d)
    BY <1>3, <2>1 DEF Held
  <2>3. QED
    BY <1>5, <2>2 DEF Held
<1>11. DispatcherShape'
  BY <1>1, <1>4, <1>5, <1>6, ZenonT(30) DEF Delivery, DispatcherShape, DispatcherState
<1>12. HeldEvents'
  BY <1>2, <1>10 DEF Delivery, HeldEvents, Fenced
<1>13. PushedEvents'
  <2>1. SUFFICES ASSUME NEW x \in Dispatchers, dispatcher'[x].step = "pushed",
                        Fenced(dispatcher[x].event)'
                 PROVE  announced'[dispatcher'[x].event.task]
    BY DEF PushedEvents
  <2>2. CASE x = d
    <3>1. dispatcher'[d].event = p
      BY <1>1, <1>6 DEF DispatcherState
    <3>2. QED
      BY <1>2, <1>9, <2>1, <2>2, <3>1 DEF Fenced
  <2>3. CASE x # d
    <3>1. dispatcher[x].step = "pushed" /\ dispatcher'[x].event = dispatcher[x].event
      BY <1>5, <2>1, <2>3
    <3>2. Fenced(dispatcher[x].event)
      BY <1>2, <2>1, <3>1 DEF Fenced
    <3>3. dispatcher[x].event.task \in Tasks
      BY <3>1 DEF Delivery, DispatcherShape, Event
    <3>4. QED
      BY <1>8, <3>1, <3>2, <3>3 DEF Delivery, PushedEvents
  <2>4. QED
    BY <2>2, <2>3
<1>14. QED
  BY <1>2, <1>8, <1>11, <1>12, <1>13
  DEF Delivery, OutboxFollowsTask, AvailableIsDue, PublishedMeansAnnounced,
      BackoffBeforeAnnouncement

\* A mark that passes the fence publishes a generation that was pushed and may start.
LEMMA MarkPublishedDelivery ==
  ASSUME TypeOK, Delivery, NEW d \in Dispatchers, MarkPublished(d)
  PROVE  Delivery'
<1>1. PICK e : e = dispatcher[d].event
  OBVIOUS
<1>2. UNCHANGED <<status, due, announced>> /\ NextEvent(d) /\ dispatcher[d].step = "pushed"
  BY DEF MarkPublished, taskVars
<1>3. e \in Held(d) /\ e.task \in Tasks
  BY <1>1, <1>2, DispatcherEvents DEF Held, Delivery
<1>4. HeldShrinks
  BY <1>2, LoopHeldShrinks
<1>5. outbox \in [Tasks -> OutboxRow]
  BY DEF TypeOK
<1>6. CASE ~Fenced(e)
  <2>1. outbox' = outbox
    BY <1>1, <1>6 DEF MarkPublished
  <2>2. QED
    BY <1>2, <1>4, <2>1, DeliveryStep DEF KeepStep
<1>7. CASE Fenced(e)
  <2>1. outbox' = [outbox EXCEPT ![e.task].state = "published", ![e.task].stale = FALSE]
    BY <1>1, <1>7 DEF MarkPublished
  <2>2. announced[e.task]
    BY <1>1, <1>2, <1>7 DEF Delivery, PushedEvents
  <2>3. status[e.task] = "queued" => due[e.task]
    BY <1>3, <1>7 DEF Delivery, HeldEvents
  <2>4. \A t \in Tasks : t # e.task => outbox'[t] = outbox[t]
    BY <1>5, <2>1
  <2>5. /\ outbox'[e.task].state = "published"
        /\ outbox'[e.task].generation = outbox[e.task].generation
        /\ outbox[e.task].state = "unpublished"
    BY <1>3, <1>5, <1>7, <2>1 DEF OutboxRow, Fenced
  <2>6. DispatcherShape'
    BY <1>4 DEF HeldShrinks, DispatcherShape
  <2>7. HeldEvents'
    <3>1. SUFFICES ASSUME NEW x \in Dispatchers, NEW h \in Held(x)'
                   PROVE  /\ status'[h.task] \notin {"absent", "pending_approval"}
                          /\ outbox'[h.task].state # "absent"
                               => h.generation <= outbox'[h.task].generation
                          /\ Fenced(h)' /\ status'[h.task] = "queued" => due'[h.task]
      BY DEF HeldEvents
    <3>2. h \in Held(x) /\ h.task \in Tasks
      BY <1>4, DispatcherEvents DEF HeldShrinks, Delivery
    <3>3. QED
      BY <1>2, <2>4, <2>5, <3>2 DEF Delivery, HeldEvents, Fenced
  <2>8. PushedEvents'
    <3>1. SUFFICES ASSUME NEW x \in Dispatchers, dispatcher'[x].step = "pushed",
                          Fenced(dispatcher[x].event)'
                   PROVE  announced'[dispatcher'[x].event.task]
      BY DEF PushedEvents
    <3>2. dispatcher[x].step = "pushed" /\ dispatcher'[x].event = dispatcher[x].event
      BY <1>4, <3>1 DEF HeldShrinks
    <3>3. dispatcher[x].event.task \in Tasks
      BY <3>2 DEF Delivery, DispatcherShape, Event
    <3>4. Fenced(dispatcher[x].event)
      BY <2>4, <2>5, <3>1, <3>2, <3>3 DEF Fenced
    <3>5. QED
      BY <1>2, <3>2, <3>4 DEF Delivery, PushedEvents
  <2>9. OutboxFollowsTask' /\ AvailableIsDue' /\ PublishedMeansAnnounced'
        /\ BackoffBeforeAnnouncement'
    BY <1>2, <1>3, <2>2, <2>3, <2>4, <2>5
    DEF Delivery, OutboxFollowsTask, AvailableIsDue, PublishedMeansAnnounced,
        BackoffBeforeAnnouncement
  <2>10. QED
    BY <2>6, <2>7, <2>8, <2>9 DEF Delivery
<1>8. QED
  BY <1>6, <1>7

LEMMA MarkFailedDelivery ==
  ASSUME TypeOK, Delivery, NEW d \in Dispatchers, MarkFailed(d)
  PROVE  Delivery'
<1>1. UNCHANGED <<status, due, announced>> /\ NextEvent(d)
  BY DEF MarkFailed, taskVars
<1>2. HeldShrinks
  BY <1>1, LoopHeldShrinks
<1>3. outbox \in [Tasks -> OutboxRow]
  BY DEF TypeOK
<1>4. \A t \in Tasks : KeepStep(t)
  <2>1. CASE UNCHANGED outbox
    BY <1>1, <2>1 DEF KeepStep
  <2>2. ASSUME NEW u, outbox' = [outbox EXCEPT ![u].available = FALSE]
        PROVE  \A t \in Tasks : KeepStep(t)
    BY <1>1, <1>3, <2>2 DEF KeepStep, OutboxRow
  <2>3. QED
    BY <2>1, <2>2 DEF MarkFailed
<1>5. QED
  BY <1>2, <1>4, DeliveryStep

-----------------------------------------------------------------------------
(* The invariant and what follows from it.                                 *)

LEMMA InitEstablishes ==
  ASSUME LifecycleAssumption, Init
  PROVE  IInv
<1>1. TypeOK
  BY DEF LifecycleAssumption, Init, TypeOK, Statuses, OutboxRow, OutboxStates, NoOutboxRow,
         WorkerState, WorkerSteps, Reasons, IdleWorker,
         DispatcherState, DispatcherSteps, LoopStart, NoEvent
<1>2. FreshTasks /\ WithinBudget /\ CancellationWins /\ LeaseWhileRunning
  BY DEF LifecycleAssumption, Init, FreshTasks, WithinBudget, CancellationWins, LeaseWhileRunning
<1>3. /\ OutboxFollowsTask /\ WorkerShape /\ AvailableIsDue
      /\ PublishedMeansAnnounced /\ BackoffBeforeAnnouncement
  BY DEF Init, OutboxFollowsTask, WorkerShape, AvailableIsDue, PublishedMeansAnnounced,
         BackoffBeforeAnnouncement, NoOutboxRow, IdleWorker
<1>4. ASSUME NEW d \in Dispatchers
      PROVE  dispatcher[d].step = "recover_queued" /\ dispatcher[d].batch = {}
  BY DEF Init, LoopStart
<1>5. DispatcherShape /\ HeldEvents /\ PushedEvents
  BY <1>4 DEF DispatcherShape, HeldEvents, PushedEvents, Held
<1>6. QED
  BY <1>1, <1>2, <1>3, <1>5 DEF IInv

LEMMA TypeStep ==
  ASSUME LifecycleAssumption, TypeOK, WorkerShape, DispatcherShape, [Next]_vars
  PROVE  TypeOK'
<1>1. CASE UNCHANGED vars
  BY <1>1 DEF vars, taskVars, TypeOK
<1>2. QED
  BY <1>1, ApiType, TimeType, WorkerType, DispatcherType, FaultType DEF Next

LEMMA TaskRowsStep ==
  ASSUME LifecycleAssumption, TypeOK, WorkerShape, TaskRows, [Next]_vars
  PROVE  TaskRows'
BY ApiTaskRows, WorkerTaskRows, DispatcherTaskRows, OtherTaskRows DEF Next

LEMMA DeliveryPreserved ==
  ASSUME LifecycleAssumption, TypeOK, WorkerShape, Delivery, [Next]_vars
  PROVE  Delivery'
<1>1. ASSUME NEW d \in Dispatchers, DispatcherStep(d)
      PROVE  Delivery'
  BY <1>1, RecoverQueuedDelivery, RecoverExpiredDelivery, PollDelivery, PushDelivery,
     MarkPublishedDelivery, MarkFailedDelivery
  DEF DispatcherStep
<1>2. CASE UNCHANGED vars
  <2>1. HeldShrinks
    BY <1>2, HeldStutter DEF vars
  <2>2. \A t \in Tasks : KeepStep(t)
    BY <1>2 DEF vars, taskVars, KeepStep
  <2>3. QED
    BY <2>1, <2>2, DeliveryStep
<1>3. QED
  BY <1>1, <1>2, ApiDelivery, TimeDelivery, WorkerDelivery, FaultDelivery DEF Next

LEMMA InvariantParts == IInv <=> TypeOK /\ WorkerShape /\ TaskRows /\ Delivery
BY DEF IInv, TaskRows, Delivery

LEMMA StepPreserves ==
  ASSUME LifecycleAssumption, IInv, [Next]_vars
  PROVE  IInv'
<1>1. TypeOK /\ WorkerShape /\ TaskRows /\ Delivery
  BY InvariantParts
<1>2. TypeOK'
  BY <1>1, TypeStep DEF Delivery
<1>3. WorkerShape'
  BY <1>1, WorkerShapePreserved
<1>4. TaskRows' /\ Delivery'
  BY <1>1, TaskRowsStep, DeliveryPreserved
<1>5. QED
  BY <1>2, <1>3, <1>4 DEF IInv, TaskRows, Delivery

\* The inductive invariant of the queue: rows, outbox, dispatchers and workers
\* stay consistent whatever the interleaving, the crashes and the losses
\* (store.py, dispatcher.py, worker.py).
THEOREM LifecycleInvariant == Spec => []IInv
<1>1. Init => IInv
  BY LifecycleAssumption, InitEstablishes
<1>2. IInv /\ [Next]_vars => IInv'
  BY LifecycleAssumption, StepPreserves
<1>3. QED
  BY <1>1, <1>2, PTL DEF Spec

\* Every variable keeps its type.
THEOREM TypeCorrect == Spec => []TypeOK
<1>1. IInv => TypeOK
  BY DEF IInv
<1>2. QED
  BY <1>1, LifecycleInvariant, PTL

\* No task is started more often than max_attempts allows, although the claim
\* itself does not look at the budget.
THEOREM BudgetKept == Spec => []WithinBudget
<1>1. IInv => WithinBudget
  BY DEF IInv
<1>2. QED
  BY <1>1, LifecycleInvariant, PTL

\* Nothing overtakes a cancellation request.
THEOREM CancellationKept == Spec => []CancellationWins
<1>1. IInv => CancellationWins
  BY DEF IInv
<1>2. QED
  BY <1>1, LifecycleInvariant, PTL

\* A waiting task can be found again, and an outbox row is acknowledged only
\* after a push of the generation it carries.
THEOREM AnnouncementsAreReal == Spec => []PublishedMeansAnnounced
<1>1. IInv => PublishedMeansAnnounced
  BY DEF IInv
<1>2. QED
  BY <1>1, LifecycleInvariant, PTL

\* A retry is not announced before its backoff is over.
THEOREM BackoffKept == Spec => []BackoffBeforeAnnouncement
<1>1. IInv => BackoffBeforeAnnouncement
  BY DEF IInv
<1>2. QED
  BY <1>1, LifecycleInvariant, PTL

-----------------------------------------------------------------------------
(* What a step may never do.                                               *)

\* Only complete_task and fail_task write a result.
LEMMA ResultStep ==
  ASSUME LifecycleAssumption, IInv, Next,
         NEW t \in Tasks, status[t] = "running", status'[t] \in {"succeeded", "failed"}
  PROVE  \E w \in Workers : CompleteTask(w) \/ FailTask(w)
<1>1. status \in [Tasks -> Statuses]
  BY DEF IInv, TypeOK
<1>2. ~ \E u \in Tasks : Api(u) \/ TimeStep(u)
  BY <1>1
  DEF Api, CreateTask, ApproveTask, RejectTask, CancelWaitingTask, RequestCancellation,
      TimeStep, LeaseTick, BecomeDue, BecomeAvailable, BecomeStale, taskVars
<1>3. ~ \E d \in Dispatchers : DispatcherStep(d)
  BY <1>1
  DEF DispatcherStep, RecoverQueued, RecoverExpired, AfterExpiry, PollOutbox, PushSignal,
      MarkPublished, MarkFailed, taskVars
<1>4. ~ FaultStep
  BY DEF FaultStep, HeartbeatFails, WorkerCrash, ResultNotStored, PushFails, MarkRaises,
         DispatcherCrash, RedisLosesSignals, taskVars
<1>5. PICK w \in Workers : WorkerStep(w)
  BY <1>2, <1>3, <1>4 DEF Next
<1>6. ~ ClaimTask(w)
  BY <1>1 DEF ClaimTask
<1>7. ~ FinalizeCancellation(w)
  BY <1>1 DEF FinalizeCancellation, EndRunAs
<1>8. ~ PutOff(w)
  BY <1>1 DEF PutOff
<1>9. QED
  BY <1>5, <1>6, <1>7, <1>8
  DEF WorkerStep, Settle, PopSignal, DiscardSignal, HeartbeatRenews, HeartbeatStops,
      HandlerEnds, RefuseResult, DropResult, taskVars

\* Only the claim and a renewal give a row more lease time.
LEMMA ExtensionStep ==
  ASSUME LifecycleAssumption, IInv, Next, NEW t \in Tasks, leaseLeft'[t] > leaseLeft[t]
  PROVE  \E w \in Workers : worker[w].task = t /\ (ClaimTask(w) \/ HeartbeatRenews(w))
<1>1. leaseLeft \in [Tasks -> 0..LeaseTicks] /\ leaseLeft[t] \in Nat
  BY DEF IInv, TypeOK, LifecycleAssumption
<1>2. leaseLeft'[t] # leaseLeft[t] /\ leaseLeft' # leaseLeft
  BY <1>1
<1>3. ASSUME NEW u \in Tasks, leaseLeft' = [leaseLeft EXCEPT ![u] = 0]
      PROVE  FALSE
  BY <1>1, <1>3
<1>4. ASSUME NEW u \in Tasks
      PROVE  ~ (Api(u) \/ TimeStep(u))
  <2>1. ~ LeaseTick(u)
    BY <1>1 DEF LeaseTick
  <2>2. QED
    BY <1>2, <1>3, <2>1
    DEF Api, CreateTask, ApproveTask, RejectTask, CancelWaitingTask, RequestCancellation,
        TimeStep, BecomeDue, BecomeAvailable, BecomeStale, taskVars
<1>5. ~ (\E d \in Dispatchers : DispatcherStep(d)) /\ ~ FaultStep
  BY <1>2
  DEF DispatcherStep, RecoverQueued, RecoverExpired, PollOutbox, PushSignal,
      MarkPublished, MarkFailed,
      FaultStep, HeartbeatFails, WorkerCrash, ResultNotStored, PushFails, MarkRaises,
      DispatcherCrash, RedisLosesSignals, taskVars
<1>6. PICK w \in Workers : WorkerStep(w)
  BY <1>4, <1>5 DEF Next
<1>7. ~ Settle(w) /\ ~ PutOff(w)
  <2>1. ~ PutOff(w)
    <3>1. SUFFICES ASSUME PutOff(w)
                   PROVE  FALSE
      OBVIOUS
    <3>2. leaseLeft' = [leaseLeft EXCEPT ![worker[w].task] = 0]
          /\ worker[w].task \in Tasks
      BY <3>1, WorkerHasTask DEF PutOff, IInv
    <3>3. QED
      BY <1>3, <3>2
  <2>2. QED
    BY <1>1, <1>2, <2>1
    DEF Settle, CompleteTask, FailTask, FinalizeCancellation, RefuseResult, DropResult,
        EndRunAs, taskVars
<1>8. ClaimTask(w) \/ HeartbeatRenews(w)
  BY <1>2, <1>6, <1>7
  DEF WorkerStep, PopSignal, DiscardSignal, HeartbeatStops, HandlerEnds, taskVars
<1>9. worker[w].task = t
  BY <1>1, <1>2, <1>8 DEF ClaimTask, HeartbeatRenews
<1>10. QED
  BY <1>8, <1>9

\* A result is recorded by the worker that still holds the lease of the run.
THEOREM StaleResultsRefused == Spec => NoStaleResult
<1> DEFINE Reported(t) == \E w \in Workers : /\ worker[w].task = t
                                            /\ worker[w].lease = lease[t]
                                            /\ LeaseValid(t)
                                            /\ worker'[w] = IdleWorker
<1>1. IInv /\ [Next]_vars
        => [\A t \in Tasks :
              status[t] = "running" /\ status'[t] \in {"succeeded", "failed"}
                => Reported(t)]_vars
  <2>1. SUFFICES ASSUME IInv, Next, NEW t \in Tasks,
                        status[t] = "running", status'[t] \in {"succeeded", "failed"}
                 PROVE  Reported(t)
    OBVIOUS
  <2>2. PICK w \in Workers : CompleteTask(w) \/ FailTask(w)
    BY <2>1, ResultStep, LifecycleAssumption
  <2>3. status \in [Tasks -> Statuses] /\ worker \in [Workers -> WorkerState]
    BY <2>1 DEF IInv, TypeOK
  <2>4. worker[w].task = t
    BY <2>1, <2>2, <2>3 DEF CompleteTask, FailTask, EndRunAs
  <2>5. QED
    BY <2>2, <2>3, <2>4 DEF CompleteTask, FailTask, EndRunAs, MayReport, Owns, ToIdle
<1>2. QED
  BY <1>1, LifecycleInvariant, PTL DEF Spec, NoStaleResult

\* A lease is extended only while it is valid and not asked to stop.
THEOREM LeasesNeverRevived == Spec => LeaseExtension
<1>1. IInv /\ [Next]_vars
        => [\A t \in Tasks :
              leaseLeft'[t] > leaseLeft[t] /\ lease[t] # NoLease
                => leaseLeft[t] > 0 /\ ~cancelRequested[t]]_vars
  <2>1. SUFFICES ASSUME IInv, Next, NEW t \in Tasks,
                        leaseLeft'[t] > leaseLeft[t], lease[t] # NoLease
                 PROVE  leaseLeft[t] > 0 /\ ~cancelRequested[t]
    OBVIOUS
  <2>2. PICK w \in Workers : worker[w].task = t /\ (ClaimTask(w) \/ HeartbeatRenews(w))
    BY <2>1, ExtensionStep, LifecycleAssumption
  <2>3. ~ ClaimTask(w)
    BY <2>1, <2>2 DEF ClaimTask, Claimable, IInv, LeaseWhileRunning
  <2>4. QED
    BY <2>2, <2>3 DEF HeartbeatRenews, HeartbeatState, LeaseValid
<1>2. QED
  BY <1>1, LifecycleInvariant, PTL DEF Spec, LeaseExtension

-----------------------------------------------------------------------------
(* The queue implements the contract of a task (safety).                   *)

\* One run ended, by its worker.
LEMMA EndOfRun ==
  ASSUME LifecycleAssumption, IInv, NEW w \in Workers,
         CompleteTask(w) \/ FailTask(w) \/ FinalizeCancellation(w)
  PROVE  C!ContractNext
<1> DEFINE t == worker[w].task
<1>1. /\ t \in Tasks
      /\ status \in [Tasks -> Statuses]
      /\ status[t] = "running"
  BY WorkerHasTask
  DEF IInv, TypeOK, CompleteTask, FailTask, FinalizeCancellation, Completing, Finalizing,
      Failing, MayReport, MayCancel, Owns
<1>2. PICK final \in C!Outcomes(t) :
        status' = [status EXCEPT ![t] = final] /\ UNCHANGED <<attempts, cancelRequested>>
  BY DEF C!Outcomes, CompleteTask, FailTask, FinalizeCancellation, MayReport, MayCancel, EndRunAs
<1>3. final \in C!Statuses
  BY DEF C!Outcomes, C!Statuses, C!Final
<1>4. [u \in {t} |-> final] \in [{t} -> C!Statuses]
  BY <1>3
<1>5. status' = [u \in Tasks |-> IF u \in {t} THEN [v \in {t} |-> final][u] ELSE status[u]]
  BY <1>1, <1>2
<1>6. C!EndRuns({t})
  BY <1>1, <1>2, <1>4, <1>5 DEF C!EndRuns
<1>7. QED
  BY <1>1, <1>6 DEF C!ContractNext

\* A sweep ends every run whose lease expired, or none.
LEMMA EndOfLeases ==
  ASSUME LifecycleAssumption, IInv, NEW d \in Dispatchers, RecoverExpired(d)
  PROVE  [C!ContractNext]_(C!contractVars)
<1>1. /\ status' = [t \in Tasks |-> IF t \in Expired THEN AfterExpiry(t) ELSE status[t]]
      /\ UNCHANGED <<attempts, cancelRequested>>
      /\ Expired \subseteq Tasks
      /\ \A t \in Expired : status[t] = "running"
  BY DEF RecoverExpired, Expired
<1>2. status \in [Tasks -> Statuses]
  BY DEF IInv, TypeOK
<1>3. CASE Expired = {}
  BY <1>1, <1>2, <1>3 DEF C!contractVars
<1>4. CASE Expired # {}
  <2>1. \A t \in Expired : AfterExpiry(t) \in C!Outcomes(t) /\ AfterExpiry(t) \in C!Statuses
    <3>1. SUFFICES ASSUME NEW t \in Expired
                   PROVE  AfterExpiry(t) \in C!Outcomes(t) /\ AfterExpiry(t) \in C!Statuses
      OBVIOUS
    <3>2. attempts[t] \in Nat /\ MaxAttempts[t] \in Nat
      BY <1>1 DEF IInv, TypeOK, LifecycleAssumption
    <3>3. QED
      BY <3>2 DEF AfterExpiry, C!Outcomes, C!Statuses, C!Final
  <2>2. [t \in Expired |-> AfterExpiry(t)] \in [Expired -> C!Statuses]
    BY <2>1
  <2>3. status' = [t \in Tasks |->
          IF t \in Expired THEN [u \in Expired |-> AfterExpiry(u)][t] ELSE status[t]]
    BY <1>1
  <2>4. \A t \in Expired : [u \in Expired |-> AfterExpiry(u)][t] \in C!Outcomes(t)
    BY <2>1
  <2>5. C!EndRuns(Expired)
    BY <1>1, <1>4, <2>2, <2>3, <2>4 DEF C!EndRuns
  <2>6. QED
    BY <1>1, <2>5 DEF C!ContractNext
<1>5. QED
  BY <1>3, <1>4

LEMMA ContractStep ==
  ASSUME LifecycleAssumption, IInv, [Next]_vars
  PROVE  [C!ContractNext]_(C!contractVars)
<1>1. ASSUME UNCHANGED <<status, attempts, cancelRequested>>
      PROVE  [C!ContractNext]_(C!contractVars)
  BY <1>1 DEF C!contractVars
<1>2. ASSUME NEW t \in Tasks, Api(t)
      PROVE  C!ContractNext
  <2>1. C!Submit(t) \/ C!Approve(t) \/ C!Reject(t) \/ C!CancelWaiting(t) \/ C!RequestCancel(t)
    BY <1>2
    DEF Api, CreateTask, ApproveTask, RejectTask, CancelWaitingTask, RequestCancellation,
        C!Submit, C!Approve, C!Reject, C!CancelWaiting, C!RequestCancel, C!Move
  <2>2. QED
    BY <2>1 DEF C!ContractNext
<1>3. ASSUME NEW w \in Workers, WorkerStep(w)
      PROVE  [C!ContractNext]_(C!contractVars)
  <2>1. CASE ClaimTask(w)
    <3>1. worker[w].task \in Tasks
      BY <2>1, WorkerHasTask DEF ClaimTask, IInv
    <3>2. C!Start(worker[w].task)
      BY <2>1, <3>1 DEF ClaimTask, Claimable, C!Start, C!Move, IInv, WithinBudget
    <3>3. QED
      BY <3>1, <3>2 DEF C!ContractNext
  <2>2. CASE CompleteTask(w) \/ FailTask(w) \/ FinalizeCancellation(w)
    BY <2>2, EndOfRun
  <2>3. CASE PutOff(w)
    <3>1. worker[w].task \in Tasks
      BY <2>3, WorkerHasTask DEF PutOff, IInv
    <3>2. C!PutOff(worker[w].task)
      BY <2>3, <3>1 DEF PutOff, MayReport, Owns, Refunded, C!PutOff, C!Move
    <3>3. QED
      BY <3>1, <3>2 DEF C!ContractNext
  <2>4. CASE ~ (ClaimTask(w) \/ CompleteTask(w) \/ FailTask(w) \/ FinalizeCancellation(w)
                \/ PutOff(w))
    BY <1>1, <1>3, <2>4
    DEF WorkerStep, Settle, PopSignal, DiscardSignal, HeartbeatRenews, HeartbeatStops,
        HandlerEnds, RefuseResult, DropResult, taskVars
  <2>5. QED
    BY <2>1, <2>2, <2>3, <2>4
<1>4. ASSUME NEW d \in Dispatchers, DispatcherStep(d)
      PROVE  [C!ContractNext]_(C!contractVars)
  <2>1. CASE RecoverExpired(d)
    BY <2>1, EndOfLeases
  <2>2. CASE ~ RecoverExpired(d)
    BY <1>1, <1>4, <2>2
    DEF DispatcherStep, RecoverQueued, PollOutbox, PushSignal, MarkPublished, MarkFailed, taskVars
  <2>3. QED
    BY <2>1, <2>2
<1>5. ASSUME (\E t \in Tasks : TimeStep(t)) \/ FaultStep \/ UNCHANGED vars
      PROVE  [C!ContractNext]_(C!contractVars)
  BY <1>1, <1>5
  DEF TimeStep, LeaseTick, BecomeDue, BecomeAvailable, BecomeStale,
      FaultStep, HeartbeatFails, WorkerCrash, ResultNotStored, PushFails, MarkRaises,
      DispatcherCrash, RedisLosesSignals, vars, taskVars
<1>6. QED
  BY <1>2, <1>3, <1>4, <1>5 DEF Next

\* Every behaviour of the queue is one the contract of a task allows: leases,
\* signals, workers and dispatchers add no transition of their own.
THEOREM LifecycleImplementsContract == Spec => ImplementsContractSafety
<1>1. Init => C!ContractInit
  BY DEF Init, C!ContractInit
<1>2. IInv /\ [Next]_vars => [C!ContractNext]_(C!contractVars)
  BY ContractStep, LifecycleAssumption
<1>3. QED
  BY <1>1, <1>2, LifecycleInvariant, PTL DEF Spec, ImplementsContractSafety, C!ContractSafety
=============================================================================
