----------------------- MODULE ExternalActionsProofs -----------------------
(***************************************************************************)
(* Proofs about ExternalActions, for every value of its constants: the     *)
(* three tables agree, one email at most is unresolved, what is submitted  *)
(* is what was approved, and the contract about effects is implemented.    *)
(***************************************************************************)
EXTENDS ExternalActions, FiniteSetTheorems, TLAPS

-----------------------------------------------------------------------------
(* The inductive invariant.                                                *)

Waiting == {"absent", "pending_approval", "queued"}

\* Only an email has a row of the schedule.
SchedulesOfEmails == \A a \in Actions : schedule[a] # "none" => a \in Paced

\* An action and its task are created and decided in one transaction, and the
\* single attempt of a task is spent while it runs.
RowsTogether ==
  \A a \in Actions :
    /\ status[a] = "absent" <=> action[a] = "absent"
    /\ status[a] = "pending_approval" <=> action[a] = "pending_approval"
    /\ status[a] \in Waiting => attempts[a] = 0
    /\ status[a] = "running" => attempts[a] = 1

\* A task that a worker has in hand is not claimed by another one.
HandsApart ==
  /\ \A w \in Workers :
       /\ worker[w].step = "idle" <=> worker[w].action = NoAction
       /\ worker[w].action \in Actions => status[worker[w].action] \notin Waiting
  /\ \A v, w \in Workers :
       worker[v].action \in Actions /\ worker[v].action = worker[w].action => v = w

\* A fingerprint has one receipt, and a target is reached under its receipt.
OneReceipt ==
  /\ \A a, b \in Actions :
       Target[a] = Target[b] /\ receipt[a] # "none" /\ receipt[b] # "none" => a = b
  /\ \A g \in Targets :
       reached[g] = 0 \/ \E a \in Actions : Target[a] = g /\ receipt[a] # "none"

\* What a worker past the boundary knows to be true.
Begun ==
  \A w \in Workers :
    worker[w].step \in {"begun", "accepted"} =>
      LET a == worker[w].action
      IN  /\ action[a] = "executing" /\ receipt[a] = "executing"
          /\ worker[w].step = "begun" => reached[Target[a]] = 0
          /\ worker[w].step = "accepted" /\ a \notin Applications => reached[Target[a]] = 1

\* No two emails are between their receipt and their outcome.
EmailsApart ==
  \A a, b \in Paced : receipt[a] = "executing" /\ receipt[b] = "executing" => a = b

\* What a worker loads and fills is what the packet binds.
HeldAsBound ==
  \A w \in Workers : worker[w].action \in Applications =>
    LET context == bound[worker[w].action]
    IN  /\ worker[w].step \in {"material", "filled", "begun"} =>
             worker[w].material = context.material
        /\ worker[w].step \in {"filled", "begun"} =>
             Forms[worker[w].page].signature = Forms[context.form].signature

IInv ==
  /\ scene \in DOMAIN Scenes
  /\ TypeOK
  /\ TablesAgree
  /\ SchedulesOfEmails
  /\ RowsTogether
  /\ HandsApart
  /\ OneReceipt
  /\ Begun
  /\ EmailsApart
  /\ HeldAsBound

-----------------------------------------------------------------------------
(* The scene.                                                              *)

\* What the assumption says of the scene of a behaviour.
LEMMA SceneFacts ==
  ASSUME ActionsAssumption, scene \in DOMAIN Scenes
  PROVE  /\ Target \in [Actions -> Targets]
         /\ Paced \subseteq Actions /\ Applications \subseteq Actions /\ Applications \cap Paced = {}
         /\ MaxForm \in 0 .. Len(Forms)
BY DEF ActionsAssumption, Target, Paced, Applications, MaxForm

\* A step that keeps the scene keeps everything that is read from it.
LEMMA SceneStays ==
  ASSUME scene' = scene
  PROVE  /\ Target' = Target /\ Paced' = Paced /\ Applications' = Applications
         /\ MaxForm' = MaxForm
BY DEF Target, Paced, Applications, MaxForm

LEMMA SceneNeverChanges ==
  ASSUME Next PROVE scene' = scene
<1>1. ASSUME NEW a \in Actions, Api(a) \/ Surroundings(a) PROVE scene' = scene
  BY <1>1 DEF Api, Surroundings, PrepareEmail, PrepareApplication, Prepare, Approve, Reject,
       CancelWaiting, RequestCancellation, Recover, LeaseExpires, PacketExpires, FactChanges,
       BecomeDue, factVars
<1>2. ASSUME NEW w \in Workers, NEW a \in Actions, Claim(w, a) PROVE scene' = scene
  BY <1>2 DEF Claim, factVars
<1>3. ASSUME NEW w \in Workers,
             WorkerStep(w) \/ HeartbeatStops(w) \/ Crash(w) \/ DatabaseError(w)
      PROVE  scene' = scene
  BY <1>3 DEF WorkerStep, HeartbeatStops, Crash, DatabaseError, PreparationFails, LoadMaterial,
       FillForm, CommitReceipt, Defer, RefuseBoundary, Deliver, CompleteSideEffect,
       FailExternalAction, FailTask, Settle, factVars
<1>4. PageStep => scene' = scene
  BY DEF PageStep, Preflight, FormChanges, PreflightAges, MaterialChanges, ReadContext, ReturnPrepared
<1>5. QED
  BY <1>1, <1>2, <1>3, <1>4 DEF Next

-----------------------------------------------------------------------------
(* Types.                                                                  *)

\* What a worker learns and holds is well-typed.
LEMMA RecordType ==
  ASSUME NEW r \in WorkerState, NEW step \in WorkerSteps, NEW n \in Nat,
         NEW reason \in {"none", "lost", "cancel_requested"}
  PROVE  /\ [r EXCEPT !.step = step, !.material = n] \in WorkerState
         /\ [r EXCEPT !.step = step, !.page = n] \in WorkerState
         /\ [r EXCEPT !.reason = reason] \in WorkerState
BY DEF WorkerState

\* Wherever a worker goes its record stays well-typed.
LEMMA GotoType ==
  ASSUME TypeOK, NEW w \in Workers,
         \/ \E step \in WorkerSteps : Goto(w, step)
         \/ ToIdle(w)
  PROVE  worker' \in [Workers -> WorkerState]
<1>1. worker \in [Workers -> WorkerState]
  BY DEF TypeOK
<1>2. QED
  BY <1>1 DEF Goto, ToIdle, WorkerState, IdleWorker, WorkerSteps

\* The empty context is well-typed.
LEMMA NoContextType ==
  ASSUME ActionsAssumption PROVE NoContext \in Contexts
<1>1. NoAnswer \in Answers
  BY DEF ActionsAssumption
<1>2. QED
  BY <1>1 DEF NoContext, Contexts

LEMMA ApiType ==
  ASSUME ActionsAssumption, TypeOK, NEW a \in Actions, Api(a)
  PROVE  TypeOK'
<1>1. CASE PrepareEmail(a)
  BY <1>1 DEF PrepareEmail, Prepare, TypeOK, ActionStates, Statuses, pageVars
<1>2. CASE PrepareApplication(a)
  <2>1. bound' \in [Actions -> Contexts] /\ planning' \in Contexts
    BY <1>2, NoContextType DEF PrepareApplication, TypeOK
  <2>2. QED
    BY <1>2, <2>1 DEF PrepareApplication, Prepare, TypeOK, ActionStates, Statuses
<1>3. CASE Approve(a)
  BY <1>3 DEF Approve, TypeOK, ActionStates, Statuses, ScheduleStates, factVars, pageVars
<1>4. CASE Reject(a)
  BY <1>4 DEF Reject, TypeOK, ActionStates, Statuses, Final, factVars, pageVars
<1>5. CASE CancelWaiting(a)
  BY <1>5 DEF CancelWaiting, SkipSchedule, TypeOK, ActionStates, Statuses, Final, ScheduleStates,
              factVars, pageVars
<1>6. CASE RequestCancellation(a)
  BY <1>6 DEF RequestCancellation, TypeOK, actionVars, factVars, pageVars
<1>7. QED
  BY <1>1, <1>2, <1>3, <1>4, <1>5, <1>6 DEF Api

LEMMA SurroundingsType ==
  ASSUME ActionsAssumption, TypeOK, NEW a \in Actions, Surroundings(a)
  PROVE  TypeOK'
<1>1. CASE Recover(a)
  BY <1>1 DEF Recover, TypeOK, Statuses, Final, actionVars, factVars, pageVars
<1>2. CASE LeaseExpires(a)
  BY <1>2 DEF LeaseExpires, Fault, TypeOK, actionVars, factVars, pageVars
<1>3. CASE PacketExpires(a)
  BY <1>3 DEF PacketExpires, TypeOK, taskVars, actionVars, pageVars
<1>4. CASE FactChanges(a)
  BY <1>4 DEF FactChanges, TypeOK, taskVars, actionVars, pageVars
<1>5. CASE BecomeDue(a)
  BY <1>5 DEF BecomeDue, TypeOK, actionVars, factVars, pageVars
<1>6. QED
  BY <1>1, <1>2, <1>3, <1>4, <1>5 DEF Surroundings

LEMMA PageType ==
  ASSUME ActionsAssumption, scene \in DOMAIN Scenes, TypeOK,
         PageStep
  PROVE  TypeOK'
<1>1. CASE Preflight
  <2>1. DOMAIN Forms \subseteq Nat
    BY DEF ActionsAssumption
  <2>2. seen' \in [preflight: Nat, form: Nat, fresh: BOOLEAN]
    BY <1>1, <2>1 DEF Preflight, Inspection, TypeOK
  <2>3. QED
    BY <1>1, <2>2 DEF Preflight, TypeOK, taskVars, actionVars
<1>2. CASE FormChanges
  <2>1. Len(Forms) \in Nat /\ DOMAIN Forms = 1 .. Len(Forms)
    BY DEF ActionsAssumption
  <2>2. form \in DOMAIN Forms /\ form < MaxForm /\ form' = form + 1
    BY <1>2 DEF FormChanges, TypeOK
  <2>3. form' \in DOMAIN Forms
    BY <2>1, <2>2, SceneFacts
  <2>4. QED
    BY <1>2, <2>3 DEF FormChanges, TypeOK, taskVars, actionVars
<1>3. CASE PreflightAges
  BY <1>3 DEF PreflightAges, TypeOK, taskVars, actionVars
<1>4. CASE MaterialChanges
  BY <1>4 DEF MaterialChanges, TypeOK, taskVars, actionVars
<1>5. ASSUME NEW answer \in Answers, ReadContext(answer) PROVE TypeOK'
  <2>1. planning' \in Contexts
    BY <1>5 DEF ReadContext, Contexts, TypeOK
  <2>2. QED
    BY <1>5, <2>1 DEF ReadContext, TypeOK, taskVars, actionVars
<1>6. CASE ReturnPrepared
  BY <1>6, NoContextType DEF ReturnPrepared, TypeOK, taskVars, actionVars
<1>7. QED
  BY <1>1, <1>2, <1>3, <1>4, <1>5, <1>6 DEF PageStep

LEMMA ClaimType ==
  ASSUME TypeOK, RowsTogether, NEW w \in Workers, NEW a \in Actions, Claim(w, a)
  PROVE  TypeOK'
<1>1. attempts' \in [Actions -> {0, 1}]
  BY DEF Claim, RowsTogether, Waiting, TypeOK
<1>2. worker' \in [Workers -> WorkerState]
  BY DEF Claim, TypeOK, WorkerState, WorkerSteps, HandlerSteps, IdleWorker
<1>3. QED
  BY <1>1, <1>2 DEF Claim, TypeOK, Statuses, actionVars, factVars, pageVars

\* A run that ends leaves well-typed rows.
LEMMA EndRunType ==
  ASSUME TypeOK, NEW w \in Workers, worker[w].action \in Actions,
         NEW final \in Final, EndRun(w, final)
  PROVE  /\ status' \in [Actions -> Statuses] /\ holder' \in [Actions -> Workers \cup {NoWorker}]
         /\ leaseValid' \in [Actions -> BOOLEAN] /\ worker' \in [Workers -> WorkerState]
         /\ attempts' = attempts /\ cancelRequested' = cancelRequested /\ due' = due
<1>1. worker' \in [Workers -> WorkerState]
  BY GotoType DEF EndRun
<1>2. QED
  BY <1>1 DEF EndRun, TypeOK, Statuses

LEMMA WorkerType ==
  ASSUME ActionsAssumption, TypeOK, HandsApart, NEW w \in Workers,
         WorkerStep(w) \/ HeartbeatStops(w) \/ Crash(w) \/ DatabaseError(w)
  PROVE  TypeOK'
<1> DEFINE a == worker[w].action
<1>a. worker[w].step # "idle" => a \in Actions
  BY DEF HandsApart, TypeOK, WorkerState
<1>g. \A step \in WorkerSteps : Goto(w, step) => worker' \in [Workers -> WorkerState]
  BY GotoType
<1>i. ToIdle(w) => worker' \in [Workers -> WorkerState]
  BY GotoType
<1>s. {"raised", "reported", "returned", "begun", "accepted"} \subseteq WorkerSteps
  BY DEF WorkerSteps, HandlerSteps
<1>1. CASE PreparationFails(w)
  BY <1>1, <1>g, <1>s DEF PreparationFails, TypeOK, taskVars, actionVars, factVars, pageVars
<1>2. CASE LoadMaterial(w)
  <2> DEFINE record == [worker[w] EXCEPT !.step = "material", !.material = material]
  <2>a. record \in WorkerState
    <3>1. worker[w] \in WorkerState /\ material \in Nat /\ "material" \in WorkerSteps
      BY DEF TypeOK, WorkerSteps, HandlerSteps
    <3>2. QED
      BY <3>1, RecordType
  <2>b. worker' = [worker EXCEPT ![w] = record]
    BY <1>2 DEF LoadMaterial
  <2>1. worker' \in [Workers -> WorkerState]
    BY <2>a, <2>b DEF TypeOK
  <2>2. QED
    BY <1>2, <2>1 DEF LoadMaterial, TypeOK, taskVars, actionVars, factVars, pageVars
<1>3. CASE FillForm(w)
  <2> DEFINE record == [worker[w] EXCEPT !.step = "filled", !.page = form]
  <2>1. form \in Nat
    BY DEF TypeOK, ActionsAssumption
  <2>a. record \in WorkerState
    <3>1. worker[w] \in WorkerState /\ "filled" \in WorkerSteps
      BY DEF TypeOK, WorkerSteps, HandlerSteps
    <3>2. QED
      BY <2>1, <3>1, RecordType
  <2>b. worker' = [worker EXCEPT ![w] = record]
    BY <1>3 DEF FillForm
  <2>2. worker' \in [Workers -> WorkerState]
    BY <2>a, <2>b DEF TypeOK
  <2>3. QED
    BY <1>3, <2>2 DEF FillForm, TypeOK, taskVars, actionVars, factVars, pageVars
<1>4. CASE CommitReceipt(w)
  <2>1. a \in Actions
    BY <1>4, <1>a DEF CommitReceipt, AtBoundary
  <2>2. QED
    BY <1>4, <2>1, <1>g, <1>s DEF CommitReceipt, TypeOK, taskVars, factVars, pageVars,
                                 ActionStates, ReceiptStates, ScheduleStates
<1>5. CASE Defer(w)
  <2>1. a \in Actions
    BY <1>5, <1>a DEF Defer, AtBoundary
  <2>2. Refund(a) \in {0, 1}
    BY <2>1 DEF Refund, TypeOK
  <2>3. attempts' \in [Actions -> {0, 1}]
    BY <1>5, <2>1, <2>2 DEF Defer, TypeOK
  <2>4. QED
    BY <1>5, <2>1, <2>3, <1>i DEF Defer, TypeOK, actionVars, factVars, pageVars, Statuses
<1>6. CASE RefuseBoundary(w)
  BY <1>6, <1>g, <1>s DEF RefuseBoundary, TypeOK, taskVars, actionVars, factVars, pageVars
<1>7. CASE Deliver(w)
  <2>1. worker' \in [Workers -> WorkerState]
    BY <1>7, <1>g, <1>s DEF Deliver, Heard
  <2>a. PICK n \in {reached[Target[a]], reached[Target[a]] + 1} :
          reached' = [reached EXCEPT ![Target[a]] = n]
    BY <1>7 DEF Deliver
  <2>b. \A g \in Targets : reached'[g] \in Nat
    BY <2>a DEF TypeOK
  <2>2. reached' \in [Targets -> Nat]
    BY <2>a, <2>b DEF TypeOK
  <2>3. QED
    BY <1>7, <2>1, <2>2 DEF Deliver, TypeOK, taskVars, actionVars, factVars, pageVars
<1>8. CASE CompleteSideEffect(w)
  <2>1. a \in Actions
    BY <1>8, <1>a DEF CompleteSideEffect
  <2>2. worker' \in [Workers -> WorkerState]
    BY <1>8, <1>g, <1>s DEF CompleteSideEffect
  <2>3. /\ action' \in [Actions -> ActionStates] /\ receipt' \in [Actions -> ReceiptStates]
        /\ schedule' \in [Actions -> ScheduleStates]
    <3>1. CASE UNCHANGED actionVars
      BY <3>1 DEF TypeOK, actionVars
    <3>2. CASE ~UNCHANGED actionVars
      <4>1. /\ action' = [action EXCEPT ![a] = "succeeded"]
            /\ receipt' = [receipt EXCEPT ![a] = "succeeded"]
            /\ schedule' \in [Actions -> ScheduleStates]
        BY <1>8, <2>1, <3>2 DEF CompleteSideEffect, TypeOK, ScheduleStates
      <4>2. QED
        BY <4>1 DEF TypeOK, ActionStates, ReceiptStates
    <3>3. QED
      BY <3>1, <3>2
  <2>4. QED
    BY <1>8, <2>2, <2>3 DEF CompleteSideEffect, TypeOK, taskVars, factVars, pageVars
<1>9. CASE FailExternalAction(w)
  <2>1. a \in Actions
    BY <1>9, <1>a DEF FailExternalAction
  <2>2. worker' \in [Workers -> WorkerState]
    BY <1>9, <1>g, <1>s DEF FailExternalAction
  <2>3. /\ action' \in [Actions -> ActionStates] /\ receipt' \in [Actions -> ReceiptStates]
        /\ schedule' \in [Actions -> ScheduleStates]
    <3>1. CASE UNCHANGED actionVars
      BY <3>1 DEF TypeOK, actionVars
    <3>2. CASE ~UNCHANGED actionVars
      <4>1. action' = [action EXCEPT ![a] = FailedState(a)] /\ FailedState(a) \in ActionStates
        BY <1>9, <3>2 DEF FailExternalAction, FailedState, ActionStates
      <4>2. PICK r \in ReceiptStates : receipt' = [receipt EXCEPT ![a] = r]
        BY <1>9, <2>1, <3>2 DEF FailExternalAction, TypeOK, ReceiptStates
      <4>3. PICK s \in ScheduleStates : schedule' = [schedule EXCEPT ![a] = s]
        BY <1>9, <2>1, <3>2 DEF FailExternalAction, TypeOK, ScheduleStates
      <4>4. QED
        BY <4>1, <4>2, <4>3 DEF TypeOK
    <3>3. QED
      BY <3>1, <3>2
  <2>4. QED
    BY <1>9, <2>2, <2>3 DEF FailExternalAction, TypeOK, taskVars, factVars, pageVars
<1>10. CASE FailTask(w)
  <2>1. a \in Actions
    BY <1>10, <1>a DEF FailTask
  <2>2. {"cancelled", "failed"} \subseteq Final
    BY DEF Final
  <2>3. QED
    BY <1>10, <2>1, <2>2, <1>i, EndRunType DEF FailTask, TypeOK, taskVars, actionVars, factVars, pageVars
<1>11. CASE Settle(w)
  <2>1. a \in Actions
    BY <1>11, <1>a DEF Settle
  <2>2. {"cancelled", "succeeded"} \subseteq Final
    BY DEF Final
  <2>3. /\ status' \in [Actions -> Statuses] /\ holder' \in [Actions -> Workers \cup {NoWorker}]
        /\ leaseValid' \in [Actions -> BOOLEAN] /\ worker' \in [Workers -> WorkerState]
        /\ attempts' = attempts /\ cancelRequested' = cancelRequested /\ due' = due
    BY <1>11, <2>1, <2>2, <1>i, <1>g, <1>s, EndRunType DEF Settle, TypeOK, taskVars
  <2>4. QED
    BY <1>11, <2>3 DEF Settle, TypeOK, actionVars, factVars, pageVars
<1>12. CASE HeartbeatStops(w)
  <2> DEFINE state == IF ~(Owns(w) /\ leaseValid[a]) THEN "lost"
                      ELSE IF cancelRequested[a] THEN "cancel_requested" ELSE "none"
             record == [worker[w] EXCEPT !.reason = state]
  <2>a. record \in WorkerState
    <3>1. worker[w] \in WorkerState /\ "idle" \in WorkerSteps
      BY DEF TypeOK, WorkerSteps
    <3>2. QED
      BY <3>1, RecordType
  <2>b. worker' = [worker EXCEPT ![w] = record]
    BY <1>12 DEF HeartbeatStops, TypeOK, WorkerState
  <2>1. worker' \in [Workers -> WorkerState]
    BY <2>a, <2>b DEF TypeOK
  <2>2. QED
    BY <1>12, <2>1 DEF HeartbeatStops, TypeOK, taskVars, actionVars, factVars, pageVars
<1>13. CASE Crash(w)
  BY <1>13, <1>i DEF Crash, Fault, TypeOK, taskVars, actionVars, factVars, pageVars
<1>14. CASE DatabaseError(w)
  BY <1>14, <1>i, <1>g, <1>s DEF DatabaseError, Fault, TypeOK, taskVars, actionVars, factVars, pageVars
<1>15. QED
  BY <1>1, <1>2, <1>3, <1>4, <1>5, <1>6, <1>7, <1>8, <1>9, <1>10, <1>11, <1>12, <1>13, <1>14
  DEF WorkerStep

-----------------------------------------------------------------------------
(* The API keeps the invariant.                                            *)

\* What a step of the API on action a leaves alone: the workers, the receipts,
\* the outside, and every other action.
ApiFrame(a) ==
  /\ UNCHANGED <<worker, receipt, reached, scene, attempts>>
  /\ \A b \in Actions \ {a} :
       /\ status'[b] = status[b] /\ action'[b] = action[b]
       /\ schedule'[b] = schedule[b] /\ bound'[b] = bound[b]

LEMMA ApiLeavesAlone ==
  ASSUME TypeOK, NEW a \in Actions, Api(a)
  PROVE  ApiFrame(a)
<1>1. CASE PrepareEmail(a)
  BY <1>1 DEF PrepareEmail, Prepare, ApiFrame, TypeOK
<1>2. CASE PrepareApplication(a)
  BY <1>2 DEF PrepareApplication, Prepare, ApiFrame, TypeOK
<1>3. CASE Approve(a)
  BY <1>3 DEF Approve, ApiFrame, TypeOK, factVars
<1>4. CASE Reject(a)
  BY <1>4 DEF Reject, ApiFrame, TypeOK, factVars
<1>5. CASE CancelWaiting(a)
  BY <1>5 DEF CancelWaiting, ApiFrame, TypeOK, factVars
<1>6. CASE RequestCancellation(a)
  BY <1>6 DEF RequestCancellation, ApiFrame, TypeOK, actionVars, factVars
<1>7. QED
  BY <1>1, <1>2, <1>3, <1>4, <1>5, <1>6 DEF Api

\* What becomes of the rows of the action itself.
LEMMA ApiRows ==
  ASSUME ActionsAssumption, scene \in DOMAIN Scenes, TypeOK, TablesAgree, SchedulesOfEmails,
         RowsTogether, NEW a \in Actions, Api(a)
  PROVE  /\ Agree(a)' /\ (schedule'[a] # "none" => a \in Paced)
         /\ status'[a] = "absent" <=> action'[a] = "absent"
         /\ status'[a] = "pending_approval" <=> action'[a] = "pending_approval"
         /\ status'[a] \in Waiting => status[a] \in Waiting
         /\ status'[a] = "running" => status[a] = "running"
         /\ bound'[a] # bound[a] => status[a] = "absent"
         /\ receipt[a] # "none" => action'[a] = action[a]
<1> USE DEF Agree
<1>0. Paced' = Paced
  BY ApiLeavesAlone, SceneStays DEF ApiFrame
<1>a. Agree(a) /\ (schedule[a] # "none" => a \in Paced)
  BY DEF TablesAgree, SchedulesOfEmails
<1>r. /\ status[a] = "absent" <=> action[a] = "absent"
      /\ status[a] = "pending_approval" <=> action[a] = "pending_approval"
  BY DEF RowsTogether
<1>1. CASE PrepareEmail(a)
  BY <1>0, <1>1, <1>a, <1>r DEF PrepareEmail, Prepare, TypeOK, Waiting
<1>2. ASSUME PrepareApplication(a)
      PROVE  /\ Agree(a)' /\ (schedule'[a] # "none" => a \in Paced)
             /\ status'[a] = "pending_approval" /\ action'[a] = "pending_approval"
             /\ status[a] = "absent" /\ receipt[a] = "none"
  BY <1>0, <1>2, <1>a, <1>r DEF PrepareApplication, Prepare, TypeOK
<1>3. CASE Approve(a)
  BY <1>0, <1>3, <1>a, <1>r DEF Approve, TypeOK, Waiting, factVars
<1>4. CASE Reject(a)
  BY <1>0, <1>4, <1>a, <1>r DEF Reject, TypeOK, Waiting, factVars
<1>5. CASE CancelWaiting(a)
  BY <1>0, <1>5, <1>a, <1>r DEF CancelWaiting, SkipSchedule, TypeOK, Waiting, factVars
<1>6. CASE RequestCancellation(a)
  BY <1>0, <1>6, <1>a, <1>r DEF RequestCancellation, TypeOK, Waiting, actionVars, factVars
<1>7. QED
  BY <1>1, <1>2, <1>3, <1>4, <1>5, <1>6 DEF Api, Waiting

LEMMA ApiKeeps ==
  ASSUME ActionsAssumption, IInv, NEW a \in Actions, Api(a)
  PROVE  IInv'
<1>i. /\ scene \in DOMAIN Scenes /\ TypeOK /\ TablesAgree /\ SchedulesOfEmails /\ RowsTogether
      /\ HandsApart /\ OneReceipt /\ Begun /\ EmailsApart /\ HeldAsBound
  BY DEF IInv
<1>t. TypeOK'
  BY <1>i, ApiType
<1>f. ApiFrame(a)
  BY <1>i, ApiLeavesAlone
<1>s. scene' = scene /\ Target' = Target /\ Paced' = Paced /\ Applications' = Applications
  BY <1>f, SceneStays DEF ApiFrame
<1>h. \A w \in Workers : worker[w].action \in Actions => status[worker[w].action] \notin Waiting
  BY <1>i DEF HandsApart
<1>r. /\ Agree(a)' /\ (schedule'[a] # "none" => a \in Paced)
      /\ status'[a] = "absent" <=> action'[a] = "absent"
      /\ status'[a] = "pending_approval" <=> action'[a] = "pending_approval"
      /\ status'[a] \in Waiting => status[a] \in Waiting
      /\ status'[a] = "running" => status[a] = "running"
      /\ bound'[a] # bound[a] => status[a] = "absent"
      /\ receipt[a] # "none" => action'[a] = action[a]
  BY <1>i, ApiRows
<1>1. TablesAgree'
  <2>1. ASSUME NEW b \in Actions, b # a PROVE Agree(b)'
    BY <1>i, <1>f, <1>s, <2>1 DEF ApiFrame, TablesAgree, Agree
  <2>2. QED
    BY <1>r, <2>1 DEF TablesAgree
<1>2. SchedulesOfEmails'
  BY <1>i, <1>f, <1>s, <1>r DEF ApiFrame, SchedulesOfEmails
<1>3. RowsTogether'
  BY <1>i, <1>f, <1>r DEF ApiFrame, RowsTogether
<1>4. HandsApart'
  BY <1>i, <1>f, <1>r DEF ApiFrame, HandsApart
<1>5. OneReceipt'
  BY <1>i, <1>f, <1>s DEF ApiFrame, OneReceipt
<1>6. Begun'
  <2>1. \A b \in Actions : receipt[b] # "none" => action'[b] = action[b]
    BY <1>f, <1>r DEF ApiFrame
  <2>2. ASSUME NEW w \in Workers, worker[w].step \in {"begun", "accepted"}
        PROVE  worker[w].action \in Actions
    BY <1>i, <2>2 DEF HandsApart, TypeOK, WorkerState
  <2>3. QED
    BY <1>i, <1>f, <1>s, <2>1, <2>2 DEF ApiFrame, Begun
<1>7. EmailsApart'
  BY <1>i, <1>f, <1>s DEF ApiFrame, EmailsApart
<1>8. HeldAsBound'
  <2>1. ASSUME NEW w \in Workers, worker[w].action \in Applications
        PROVE  bound'[worker[w].action] = bound[worker[w].action]
    BY <1>i, <1>f, <1>r, <1>h, <2>1, SceneFacts DEF ApiFrame, Waiting
  <2>2. QED
    BY <1>i, <1>f, <1>s, <2>1, SMTT(30) DEF ApiFrame, HeldAsBound
<1>9. QED
  BY <1>i, <1>t, <1>s, <1>1, <1>2, <1>3, <1>4, <1>5, <1>6, <1>7, <1>8 DEF IInv

-----------------------------------------------------------------------------
(* Time, other people and recovery keep it.                                *)

\* The surroundings know nothing of the tables of actions; recovery, which
\* finds the single attempt spent, ends a task and never frees it.
OutsideFrame ==
  /\ UNCHANGED <<actionVars, worker, reached, bound, scene, attempts>>
  /\ \A b \in Actions :
       \/ status'[b] = status[b]
       \/ status[b] = "running" /\ status'[b] \in Final

LEMMA OutsideLeavesAlone ==
  ASSUME TypeOK, RowsTogether,
         \/ \E a \in Actions : Surroundings(a)
         \/ PageStep
  PROVE  OutsideFrame
<1>1. ASSUME NEW a \in Actions, Recover(a) PROVE OutsideFrame
  <2>1. attempts[a] = 1
    BY <1>1 DEF Recover, RowsTogether
  <2>2. QED
    BY <1>1, <2>1 DEF Recover, OutsideFrame, TypeOK, factVars, Final
<1>2. ASSUME NEW a \in Actions,
             LeaseExpires(a) \/ PacketExpires(a) \/ FactChanges(a) \/ BecomeDue(a)
      PROVE  OutsideFrame
  BY <1>2 DEF LeaseExpires, PacketExpires, FactChanges, BecomeDue, OutsideFrame, taskVars, factVars
<1>3. PageStep => OutsideFrame
  BY DEF PageStep, Preflight, FormChanges, PreflightAges, MaterialChanges, ReadContext,
         ReturnPrepared, OutsideFrame, taskVars
<1>4. QED
  BY <1>1, <1>2, <1>3 DEF Surroundings

LEMMA OutsideKeeps ==
  ASSUME IInv, TypeOK', OutsideFrame
  PROVE  IInv'
<1>i. /\ scene \in DOMAIN Scenes /\ TypeOK /\ TablesAgree /\ SchedulesOfEmails /\ RowsTogether
      /\ HandsApart /\ OneReceipt /\ Begun /\ EmailsApart /\ HeldAsBound
  BY DEF IInv
<1>s. scene' = scene /\ Target' = Target /\ Paced' = Paced /\ Applications' = Applications
  BY SceneStays DEF OutsideFrame
<1>1. TablesAgree' /\ SchedulesOfEmails' /\ EmailsApart'
  BY <1>i, <1>s DEF OutsideFrame, actionVars, TablesAgree, Agree, SchedulesOfEmails, EmailsApart
<1>2. RowsTogether'
  BY <1>i DEF OutsideFrame, actionVars, RowsTogether, Waiting, Final
<1>3. HandsApart'
  BY <1>i DEF OutsideFrame, HandsApart, Waiting, Final
<1>4. OneReceipt' /\ Begun'
  BY <1>i, <1>s DEF OutsideFrame, actionVars, OneReceipt, Begun
<1>5. HeldAsBound'
  BY <1>i, <1>s DEF OutsideFrame, HeldAsBound
<1>6. QED
  BY <1>i, <1>s, <1>1, <1>2, <1>3, <1>4, <1>5 DEF IInv

-----------------------------------------------------------------------------
(* The workers keep it.                                                    *)

LEMMA ClaimKeeps ==
  ASSUME ActionsAssumption, IInv, NEW w \in Workers, NEW a \in Actions, Claim(w, a)
  PROVE  IInv'
<1>i. /\ scene \in DOMAIN Scenes /\ TypeOK /\ TablesAgree /\ SchedulesOfEmails /\ RowsTogether
      /\ HandsApart /\ OneReceipt /\ Begun /\ EmailsApart /\ HeldAsBound
  BY DEF IInv
<1>t. TypeOK'
  BY <1>i, ClaimType
<1>s. /\ scene' = scene /\ Target' = Target /\ Paced' = Paced /\ Applications' = Applications
      /\ UNCHANGED <<action, receipt, schedule, bound, reached>>
  BY SceneStays DEF Claim, factVars, actionVars
<1>w. /\ worker'[w].step = "preparing" /\ worker'[w].action = a
      /\ \A v \in Workers \ {w} : worker'[v] = worker[v]
  BY <1>i DEF Claim, TypeOK, IdleWorker
<1>a. /\ status[a] = "queued" /\ status'[a] = "running" /\ attempts'[a] = attempts[a] + 1
      /\ \A b \in Actions \ {a} : status'[b] = status[b] /\ attempts'[b] = attempts[b]
  BY <1>i DEF Claim, TypeOK
<1>1. TablesAgree' /\ SchedulesOfEmails' /\ EmailsApart'
  BY <1>i, <1>s DEF TablesAgree, Agree, SchedulesOfEmails, EmailsApart
<1>2. RowsTogether'
  BY <1>i, <1>s, <1>a DEF RowsTogether, Waiting
<1>3. HandsApart'
  <2>1. \A v \in Workers : worker[v].action # a
    BY <1>i, <1>a DEF HandsApart, Waiting
  <2>2. a # NoAction
    BY DEF ActionsAssumption
  <2>3. QED
    BY <1>i, <1>w, <1>a, <2>1, <2>2, SMTT(30) DEF HandsApart, Waiting
<1>4. OneReceipt' /\ Begun'
  BY <1>i, <1>s, <1>w DEF OneReceipt, Begun
<1>5. HeldAsBound'
  BY <1>i, <1>s, <1>w DEF HeldAsBound
<1>6. QED
  BY <1>i, <1>t, <1>s, <1>1, <1>2, <1>3, <1>4, <1>5 DEF IInv

\* What a step of worker w leaves alone: the other workers and the rows of
\* every action but the one it has in hand.
WorkerFrame(w) ==
  LET a == worker[w].action
  IN  /\ UNCHANGED <<bound, scene>>
      /\ \A v \in Workers \ {w} : worker'[v] = worker[v]
      /\ \A b \in Actions \ {a} :
           /\ status'[b] = status[b] /\ attempts'[b] = attempts[b] /\ action'[b] = action[b]
           /\ receipt'[b] = receipt[b] /\ schedule'[b] = schedule[b]

\* How worker w and its task may end up: it keeps its task, or drops it; only a
\* send that is deferred waits again.
HandsFrame(w) ==
  LET a == worker[w].action
  IN  /\ \/ worker'[w].action = a /\ worker'[w].step # "idle"
         \/ worker'[w].action = NoAction /\ worker'[w].step = "idle"
      /\ \/ status'[a] = status[a] /\ attempts'[a] = attempts[a]
         \/ status[a] = "running" /\ status'[a] \in Final
         \/ /\ status[a] = "running" /\ status'[a] = "queued" /\ attempts'[a] = 0
            /\ worker'[w].action = NoAction

\* The rows of the action: as they were, begun, completed, or failed.
RowsFrame(w) ==
  LET a == worker[w].action
  IN  \/ UNCHANGED <<action, receipt, schedule>>
      \/ /\ action[a] = "queued" /\ action'[a] = "executing"
         /\ receipt[a] = "none" /\ receipt'[a] = "executing"
         /\ schedule'[a] = IF a \in Paced THEN "sending" ELSE schedule[a]
         /\ ~Taken(a) /\ (a \in Paced => ~Unresolved(a))
      \/ /\ action[a] = "executing" /\ action'[a] = "succeeded"
         /\ receipt[a] = "executing" /\ receipt'[a] = "succeeded"
         /\ schedule'[a] = IF a \in Paced THEN "accepted" ELSE schedule[a]
      \/ /\ status[a] = "running" /\ receipt[a] = "none" /\ receipt'[a] = "none"
         /\ action'[a] = "failed"
         /\ schedule'[a] = IF schedule[a] \notin {"scheduled", "sending"} THEN schedule[a]
                           ELSE "skipped"
      \/ /\ receipt[a] \in {"executing", "ambiguous"}
         /\ receipt'[a] = "ambiguous" /\ action'[a] = "ambiguous"
         /\ schedule'[a] = IF schedule[a] \notin {"scheduled", "sending"} THEN schedule[a]
                           ELSE "ambiguous"

\* Where worker w is past a check, it was there before, and what it holds and
\* what the tables say is as it was.
HeldFrame(w) ==
  /\ reached' = reached
  /\ worker'[w].step \in {"material", "filled", "begun", "accepted"} =>
       /\ UNCHANGED actionVars
       /\ worker'[w].step = worker[w].step /\ worker'[w].action = worker[w].action
       /\ worker'[w].material = worker[w].material /\ worker'[w].page = worker[w].page

StepDone(w) == WorkerStep(w) \/ HeartbeatStops(w) \/ Crash(w) \/ DatabaseError(w)

\* A worker that takes a step has an action in hand.
LEMMA InHand ==
  ASSUME TypeOK, HandsApart, NEW w \in Workers, StepDone(w)
  PROVE  worker[w].action \in Actions /\ worker[w].step # "idle"
<1>1. worker[w].step # "idle"
  BY DEF StepDone, WorkerStep, HeartbeatStops, Crash, DatabaseError, PreparationFails, LoadMaterial,
         FillForm, CommitReceipt, Defer, RefuseBoundary, AtBoundary, Deliver, CompleteSideEffect,
         FailExternalAction, FailTask, Settle, HandlerSteps
<1>2. QED
  BY <1>1 DEF HandsApart, TypeOK, WorkerState

\* Going on and stopping, for the worker itself and for the others.
LEMMA GotoFrame ==
  ASSUME ActionsAssumption, TypeOK, NEW w \in Workers, worker[w].action \in Actions
  PROVE  /\ \A step \in WorkerSteps : Goto(w, step) =>
              /\ worker'[w].step = step /\ worker'[w].action = worker[w].action
              /\ worker'[w].material = worker[w].material /\ worker'[w].page = worker[w].page
              /\ \A v \in Workers \ {w} : worker'[v] = worker[v]
         /\ ToIdle(w) =>
              /\ worker'[w].step = "idle" /\ worker'[w].action = NoAction
              /\ \A v \in Workers \ {w} : worker'[v] = worker[v]
BY DEF Goto, ToIdle, IdleWorker, TypeOK, WorkerState

LEMMA StepFrames ==
  ASSUME ActionsAssumption, TypeOK, HandsApart, TablesAgree, NEW w \in Workers, StepDone(w)
  PROVE  WorkerFrame(w) /\ HandsFrame(w) /\ RowsFrame(w)
<1> DEFINE a == worker[w].action
           Frames == WorkerFrame(w) /\ HandsFrame(w) /\ RowsFrame(w)
<1>a. a \in Actions /\ worker[w].step # "idle"
  BY InHand
<1>g. /\ \A step \in WorkerSteps : Goto(w, step) =>
           /\ worker'[w].step = step /\ worker'[w].action = worker[w].action
           /\ \A v \in Workers \ {w} : worker'[v] = worker[v]
      /\ ToIdle(w) =>
           /\ worker'[w].step = "idle" /\ worker'[w].action = NoAction
           /\ \A v \in Workers \ {w} : worker'[v] = worker[v]
  BY <1>a, GotoFrame
<1>s. {"raised", "reported", "returned", "begun", "accepted"} \subseteq WorkerSteps
  BY DEF WorkerSteps, HandlerSteps
<1>1. CASE PreparationFails(w)
  BY <1>1, <1>g, <1>s DEF PreparationFails, WorkerFrame, HandsFrame, RowsFrame, taskVars, actionVars,
                          factVars
<1>2. CASE LoadMaterial(w)
  BY <1>2, <1>a DEF LoadMaterial, WorkerFrame, HandsFrame, RowsFrame, taskVars, actionVars, factVars,
                    TypeOK, WorkerState
<1>3. CASE FillForm(w)
  BY <1>3, <1>a DEF FillForm, WorkerFrame, HandsFrame, RowsFrame, taskVars, actionVars, factVars,
                    TypeOK, WorkerState
<1>4. CASE CommitReceipt(w)
  <2>1. receipt[a] = "none" /\ action[a] = "queued"
    BY <1>4, <1>a DEF CommitReceipt, MayBegin, TablesAgree, Agree
  <2>2. QED
    BY <1>4, <1>a, <1>g, <1>s, <2>1
    DEF CommitReceipt, MayBegin, WorkerFrame, HandsFrame, RowsFrame, taskVars, factVars, TypeOK
<1>5. CASE Defer(w)
  <2>1. Refund(a) = 0
    BY <1>a DEF Refund, TypeOK
  <2>2. QED
    BY <1>5, <1>a, <1>g, <2>1
    DEF Defer, MayBegin, Owns, WorkerFrame, HandsFrame, RowsFrame, actionVars, factVars, TypeOK
<1>6. CASE RefuseBoundary(w)
  BY <1>6, <1>g, <1>s DEF RefuseBoundary, WorkerFrame, HandsFrame, RowsFrame, taskVars, actionVars,
                          factVars
<1>7. CASE Deliver(w)
  <2>1. Goto(w, "accepted") \/ Goto(w, "raised")
    BY <1>7 DEF Deliver, Heard
  <2>2. QED
    BY <1>7, <1>g, <1>s, <2>1 DEF Deliver, WorkerFrame, HandsFrame, RowsFrame, taskVars, actionVars,
                                  factVars
<1>8. CASE CompleteSideEffect(w)
  <2>1. Goto(w, "returned") \/ Goto(w, "raised")
    BY <1>8 DEF CompleteSideEffect
  <2>2. WorkerFrame(w) /\ HandsFrame(w)
    BY <1>8, <1>a, <1>g, <1>s, <2>1
    DEF CompleteSideEffect, WorkerFrame, HandsFrame, taskVars, actionVars, factVars, TypeOK
  <2>3. RowsFrame(w)
    BY <1>8, <1>a DEF CompleteSideEffect, RowsFrame, actionVars, TypeOK
  <2>4. QED
    BY <2>2, <2>3
<1>9. CASE FailExternalAction(w)
  <2>1. WorkerFrame(w) /\ HandsFrame(w)
    BY <1>9, <1>a, <1>g, <1>s
    DEF FailExternalAction, WorkerFrame, HandsFrame, taskVars, actionVars, factVars, TypeOK
  <2>2. ASSUME action[a] # "succeeded", receipt[a] # "succeeded", Owns(w),
               action' = [action EXCEPT ![a] = FailedState(a)],
               receipt' = [receipt EXCEPT ![a] = IF @ # "none" THEN "ambiguous" ELSE @],
               schedule' = [schedule EXCEPT ![a] =
                     IF @ \notin {"scheduled", "sending"} THEN @
                     ELSE IF receipt[a] # "none" THEN "ambiguous" ELSE "skipped"]
        PROVE  RowsFrame(w)
    <3>1. CASE receipt[a] = "none"
      BY <1>a, <2>2, <3>1 DEF RowsFrame, FailedState, Owns, TypeOK
    <3>2. CASE receipt[a] # "none"
      <4>1. receipt[a] \in {"executing", "ambiguous"}
        BY <1>a, <2>2, <3>2 DEF TypeOK, ReceiptStates
      <4>2. receipt'[a] = "ambiguous" /\ action'[a] = "ambiguous"
        BY <1>a, <2>2, <3>2 DEF FailedState, TypeOK
      <4>3. schedule'[a] = IF schedule[a] \notin {"scheduled", "sending"} THEN schedule[a]
                           ELSE "ambiguous"
        BY <1>a, <2>2, <3>2 DEF TypeOK
      <4>4. QED
        BY <4>1, <4>2, <4>3 DEF RowsFrame
    <3>3. QED
      BY <3>1, <3>2
  <2>3. RowsFrame(w)
    <3>1. CASE UNCHANGED actionVars
      BY <3>1 DEF RowsFrame, actionVars
    <3>2. CASE ~UNCHANGED actionVars
      BY <1>9, <2>2, <3>2 DEF FailExternalAction, KnownAccepted
    <3>3. QED
      BY <3>1, <3>2
  <2>4. QED
    BY <2>1, <2>3
<1>e. \A final \in Final : EndRun(w, final) /\ Owns(w) =>
        /\ ToIdle(w) /\ attempts' = attempts
        /\ status[a] = "running" /\ status'[a] \in Final
        /\ \A b \in Actions \ {a} : status'[b] = status[b]
  BY <1>a DEF EndRun, Owns, TypeOK
<1>10. CASE FailTask(w)
  <2>1. {"cancelled", "failed"} \subseteq Final
    BY DEF Final
  <2>2. QED
    BY <1>10, <1>e, <1>g, <2>1
    DEF FailTask, WorkerFrame, HandsFrame, RowsFrame, taskVars, actionVars, factVars
<1>11. CASE Settle(w)
  <2>1. {"cancelled", "succeeded"} \subseteq Final
    BY DEF Final
  <2>2. QED
    BY <1>11, <1>e, <1>g, <1>s, <2>1
    DEF Settle, WorkerFrame, HandsFrame, RowsFrame, taskVars, actionVars, factVars
<1>12. CASE HeartbeatStops(w)
  BY <1>12, <1>a DEF HeartbeatStops, WorkerFrame, HandsFrame, RowsFrame, taskVars, actionVars,
                     factVars, TypeOK, WorkerState
<1>13. CASE Crash(w)
  BY <1>13, <1>g DEF Crash, WorkerFrame, HandsFrame, RowsFrame, taskVars, actionVars, factVars
<1>14. CASE DatabaseError(w)
  BY <1>14, <1>g, <1>s DEF DatabaseError, WorkerFrame, HandsFrame, RowsFrame, taskVars, actionVars,
                           factVars
<1>15. QED
  BY <1>1, <1>2, <1>3, <1>4, <1>5, <1>6, <1>7, <1>8, <1>9, <1>10, <1>11, <1>12, <1>13, <1>14
  DEF StepDone, WorkerStep

\* Either a step is one of the four that get past a check, or it shows no more
\* than was known.
LEMMA StepHeld ==
  ASSUME ActionsAssumption, TypeOK, HandsApart, NEW w \in Workers, StepDone(w)
  PROVE  HeldFrame(w) \/ LoadMaterial(w) \/ FillForm(w) \/ CommitReceipt(w) \/ Deliver(w)
<1> DEFINE a == worker[w].action
<1>a. a \in Actions
  BY InHand
<1>g. /\ \A step \in WorkerSteps : Goto(w, step) => worker'[w].step = step
      /\ ToIdle(w) => worker'[w].step = "idle"
  BY <1>a, GotoFrame
<1>s. {"raised", "reported", "returned"} \subseteq WorkerSteps
  BY DEF WorkerSteps
<1>1. CASE PreparationFails(w) \/ RefuseBoundary(w)
  BY <1>1, <1>g, <1>s DEF PreparationFails, RefuseBoundary, HeldFrame
<1>2. CASE Defer(w) \/ Crash(w)
  BY <1>2, <1>g DEF Defer, Crash, HeldFrame
<1>3. CASE CompleteSideEffect(w) \/ FailExternalAction(w)
  BY <1>3, <1>g, <1>s DEF CompleteSideEffect, FailExternalAction, HeldFrame
<1>4. CASE FailTask(w) \/ Settle(w)
  BY <1>4, <1>g, <1>s DEF FailTask, Settle, EndRun, HeldFrame
<1>5. CASE DatabaseError(w)
  BY <1>5, <1>g, <1>s DEF DatabaseError, HeldFrame
<1>6. CASE HeartbeatStops(w)
  BY <1>6 DEF HeartbeatStops, HeldFrame, TypeOK, WorkerState
<1>7. QED
  BY <1>1, <1>2, <1>3, <1>4, <1>5, <1>6 DEF StepDone, WorkerStep

LEMMA StepKeepsTables ==
  ASSUME ActionsAssumption, IInv, NEW w \in Workers, StepDone(w)
  PROVE  TablesAgree' /\ SchedulesOfEmails' /\ EmailsApart'
<1>i. /\ scene \in DOMAIN Scenes /\ TypeOK /\ TablesAgree /\ SchedulesOfEmails /\ RowsTogether
      /\ HandsApart /\ EmailsApart
  BY DEF IInv
<1>a. PICK a \in Actions : a = worker[w].action
  BY <1>i, InHand
<1>f. WorkerFrame(w) /\ HandsFrame(w) /\ RowsFrame(w)
  BY <1>i, StepFrames
<1>s. Paced' = Paced /\ Paced \subseteq Actions
  BY <1>i, <1>f, SceneStays, SceneFacts DEF WorkerFrame
<1>b. \A b \in Actions \ {a} :
        action'[b] = action[b] /\ receipt'[b] = receipt[b] /\ schedule'[b] = schedule[b]
  BY <1>a, <1>f DEF WorkerFrame
<1>1. TablesAgree'
  <2>1. ASSUME NEW b \in Actions, b # a PROVE Agree(b)'
    BY <1>i, <1>s, <1>b, <2>1 DEF TablesAgree, Agree
  <2>2. Agree(a)'
    <3> USE DEF Agree
    <3>0. Agree(a) /\ (schedule[a] # "none" => a \in Paced)
      BY <1>i, <1>a DEF TablesAgree, SchedulesOfEmails
    <3>r. status[a] = "running" => action[a] \notin {"absent", "pending_approval"}
      BY <1>i, <1>a DEF RowsTogether
    <3>1. CASE UNCHANGED <<action, receipt, schedule>>
      BY <3>0, <3>1, <1>s
    <3>2. CASE action'[a] = "executing" /\ receipt'[a] = "executing"
                 /\ receipt[a] = "none"
                 /\ schedule'[a] = IF a \in Paced THEN "sending" ELSE schedule[a]
      BY <3>0, <3>2, <1>s
    <3>3. CASE action'[a] = "succeeded" /\ receipt'[a] = "succeeded"
                 /\ receipt[a] = "executing"
                 /\ schedule'[a] = IF a \in Paced THEN "accepted" ELSE schedule[a]
      BY <3>0, <3>3, <1>s
    <3>4. CASE receipt[a] = "none" /\ receipt'[a] = "none" /\ action'[a] = "failed"
                 /\ schedule'[a] = IF schedule[a] \notin {"scheduled", "sending"} THEN schedule[a]
                                   ELSE "skipped"
      BY <3>0, <3>4, <1>s
    <3>5. CASE receipt[a] \in {"executing", "ambiguous"}
                 /\ receipt'[a] = "ambiguous" /\ action'[a] = "ambiguous"
                 /\ schedule'[a] = IF schedule[a] \notin {"scheduled", "sending"} THEN schedule[a]
                                   ELSE "ambiguous"
      BY <3>0, <3>5, <1>s
    <3>6. QED
      BY <1>a, <1>f, <3>1, <3>2, <3>3, <3>4, <3>5 DEF RowsFrame
  <2>3. QED
    BY <2>1, <2>2 DEF TablesAgree
<1>2. SchedulesOfEmails'
  <2>1. ASSUME NEW b \in Actions, schedule'[b] # "none" PROVE schedule[b] # "none" \/ b \in Paced
    <3>1. CASE b # a
      BY <1>b, <2>1, <3>1
    <3>2. CASE b = a
      BY <1>a, <1>f, <2>1, <3>2 DEF RowsFrame
    <3>3. QED
      BY <3>1, <3>2
  <2>2. QED
    BY <1>i, <1>s, <2>1 DEF SchedulesOfEmails
<1>3. EmailsApart'
  <2>1. \A b \in Actions \ {a} : receipt'[b] = "executing" => receipt[b] = "executing"
    BY <1>b
  <2>2. CASE receipt'[a] = "executing" => receipt[a] = "executing"
    BY <1>i, <1>s, <2>1, <2>2 DEF EmailsApart
  <2>3. CASE receipt'[a] = "executing" /\ receipt[a] # "executing"
    <3>1. a \in Paced => ~Unresolved(a)
      BY <1>a, <1>f, <2>3 DEF RowsFrame
    <3>2. a \in Paced => \A b \in Paced : receipt[b] # "executing" \/ b = a
      BY <3>1 DEF Unresolved
    <3>3. QED
      BY <1>i, <1>s, <2>1, <2>3, <3>2 DEF EmailsApart
  <2>4. QED
    BY <2>2, <2>3
<1>4. QED
  BY <1>1, <1>2, <1>3

LEMMA StepKeepsHands ==
  ASSUME ActionsAssumption, IInv, NEW w \in Workers, StepDone(w)
  PROVE  RowsTogether' /\ HandsApart'
<1> DEFINE a == worker[w].action
<1>i. TypeOK /\ TablesAgree /\ RowsTogether /\ HandsApart
  BY DEF IInv
<1>a. a \in Actions /\ a # NoAction /\ worker[w].step # "idle"
  BY <1>i, InHand DEF ActionsAssumption
<1>f. WorkerFrame(w) /\ HandsFrame(w) /\ RowsFrame(w)
  BY <1>i, StepFrames
<1>b. /\ \A v \in Workers \ {w} : worker'[v] = worker[v]
      /\ \A b \in Actions \ {a} :
           status'[b] = status[b] /\ attempts'[b] = attempts[b] /\ action'[b] = action[b]
  BY <1>f DEF WorkerFrame
<1>c. status[a] \notin Waiting /\ \A v \in Workers \ {w} : worker[v].action # a
  BY <1>i, <1>a DEF HandsApart
<1>1. RowsTogether'
  <2>1. action[a] \notin {"absent", "pending_approval"}
    BY <1>i, <1>a, <1>c DEF RowsTogether, Waiting
  <2>2. action'[a] \notin {"absent", "pending_approval"}
    BY <1>f, <2>1 DEF RowsFrame
  <2>3. status'[a] \notin {"absent", "pending_approval"}
    BY <1>c, <1>f DEF HandsFrame, Waiting, Final
  <2>4. /\ status'[a] \in Waiting => attempts'[a] = 0
        /\ status'[a] = "running" => attempts'[a] = 1
    BY <1>i, <1>a, <1>c, <1>f DEF HandsFrame, RowsTogether, Waiting, Final
  <2>5. QED
    BY <1>i, <1>b, <2>2, <2>3, <2>4 DEF RowsTogether
<1>2. HandsApart'
  <2>1. worker'[w].step = "idle" <=> worker'[w].action = NoAction
    BY <1>a, <1>f DEF HandsFrame
  <2>2. worker'[w].action \in Actions => worker'[w].action = a /\ status'[a] \notin Waiting
    <3>1. NoAction \notin Actions
      BY DEF ActionsAssumption
    <3>2. QED
      BY <1>a, <1>c, <1>f, <3>1 DEF HandsFrame, Waiting, Final
  <2>3. QED
    BY <1>i, <1>b, <1>c, <2>1, <2>2 DEF HandsApart
<1>3. QED
  BY <1>1, <1>2

\* A target has one receipt, so nobody else may reach the target of an action.
LEMMA StepKeepsReceipts ==
  ASSUME ActionsAssumption, IInv, NEW w \in Workers, StepDone(w)
  PROVE  OneReceipt' /\ Begun'
<1> DEFINE a == worker[w].action
<1>i. /\ scene \in DOMAIN Scenes /\ TypeOK /\ TablesAgree /\ RowsTogether /\ HandsApart
      /\ OneReceipt /\ Begun
  BY DEF IInv
<1>a. a \in Actions /\ worker[w].step # "idle"
  BY <1>i, InHand
<1>f. WorkerFrame(w) /\ HandsFrame(w) /\ RowsFrame(w)
  BY <1>i, StepFrames
<1>s. Target' = Target /\ Target \in [Actions -> Targets] /\ Applications' = Applications
  BY <1>i, <1>f, SceneStays, SceneFacts DEF WorkerFrame
<1>b. /\ \A v \in Workers \ {w} : worker'[v] = worker[v]
      /\ \A b \in Actions \ {a} : action'[b] = action[b] /\ receipt'[b] = receipt[b]
  BY <1>f DEF WorkerFrame
<1>c. \A v \in Workers \ {w} : worker[v].action # a
  BY <1>i, <1>a DEF HandsApart
<1>r. receipt[a] # "none" => receipt'[a] # "none"
  BY <1>f DEF RowsFrame
<1>v. ASSUME NEW v \in Workers, v # w, worker[v].step \in {"begun", "accepted"}
      PROVE  worker[v].action \in Actions \ {a} /\ receipt[worker[v].action] = "executing"
             /\ action[worker[v].action] = "executing"
  BY <1>i, <1>c, <1>v DEF Begun, HandsApart, TypeOK, WorkerState
<1>1. \A b, c \in Actions :
        Target[b] = Target[c] /\ receipt'[b] # "none" /\ receipt'[c] # "none" => b = c
  <2>1. CASE receipt[a] # "none" \/ receipt'[a] = "none"
    BY <1>i, <1>b, <2>1 DEF OneReceipt
  <2>2. CASE receipt[a] = "none" /\ receipt'[a] # "none"
    <3>1. ~Taken(a)
      BY <1>f, <2>2 DEF RowsFrame
    <3>2. \A b \in Actions \ {a} : Target[b] = Target[a] => receipt'[b] = "none"
      BY <1>b, <3>1 DEF Taken
    <3>3. QED
      BY <1>i, <1>b, <3>2 DEF OneReceipt
  <2>3. QED
    BY <2>1, <2>2
<1>o. reached' = reached => OneReceipt'
  <2>1. \A b \in Actions : receipt[b] # "none" => receipt'[b] # "none"
    BY <1>b, <1>r
  <2>2. QED
    BY <1>i, <1>s, <1>1, <2>1 DEF OneReceipt
<1>2. CASE HeldFrame(w)
  <2>1. worker'[w].step \in {"begun", "accepted"} =>
          /\ action'[a] = "executing" /\ receipt'[a] = "executing"
          /\ worker'[w].action = a
          /\ worker'[w].step = "begun" => reached'[Target[a]] = 0
          /\ worker'[w].step = "accepted" /\ a \notin Applications => reached'[Target[a]] = 1
    BY <1>i, <1>2 DEF HeldFrame, Begun, actionVars
  <2>2. Begun'
    BY <1>i, <1>2, <1>s, <1>b, <1>v, <2>1, SMTT(30) DEF HeldFrame, Begun
  <2>3. QED
    BY <1>2, <1>o, <2>2 DEF HeldFrame
<1>3. CASE LoadMaterial(w) \/ FillForm(w)
  <2>1. UNCHANGED <<action, receipt, reached>> /\ worker'[w].step \in {"material", "filled"}
    <3>1. worker[w] \in WorkerState
      BY <1>i DEF TypeOK
    <3>2. ASSUME NEW r \in {[worker[w] EXCEPT !.step = "material", !.material = material],
                             [worker[w] EXCEPT !.step = "filled", !.page = form]},
                 worker' = [worker EXCEPT ![w] = r]
          PROVE  worker'[w].step \in {"material", "filled"}
      BY <1>i, <3>1, <3>2 DEF TypeOK, WorkerState
    <3>3. QED
      BY <1>3, <3>2 DEF LoadMaterial, FillForm, actionVars
  <2>2. Begun'
    BY <1>i, <1>s, <1>b, <2>1 DEF Begun
  <2>3. QED
    BY <1>o, <2>1, <2>2
<1>4. CASE CommitReceipt(w)
  <2>1. action'[a] = "executing" /\ receipt'[a] = "executing" /\ reached' = reached
    BY <1>4, <1>a, <1>i DEF CommitReceipt, TypeOK
  <2>2. reached[Target[a]] = 0
    BY <1>4, <1>i, <1>a, <1>s DEF CommitReceipt, MayBegin, Taken, OneReceipt
  <2>3. worker'[w].step = "begun" /\ worker'[w].action = a
    BY <1>4, <1>a, <1>i, GotoFrame DEF CommitReceipt, WorkerSteps, HandlerSteps
  <2>4. Begun'
    BY <1>i, <1>s, <1>b, <1>v, <2>1, <2>2, <2>3 DEF Begun
  <2>5. QED
    BY <1>o, <2>1, <2>4
<1>5. CASE Deliver(w)
  <2>1. UNCHANGED <<action, receipt>>
    BY <1>5 DEF Deliver, actionVars
  <2>2. action[a] = "executing" /\ receipt[a] = "executing" /\ reached[Target[a]] = 0
    BY <1>5, <1>i DEF Deliver, Begun
  <2>3. PICK delivered \in BOOLEAN :
          /\ reached' = [reached EXCEPT ![Target[a]] = IF delivered THEN @ + 1 ELSE @]
          /\ \E answer \in Heard(a, delivered) : Goto(w, answer)
    BY <1>5 DEF Deliver
  <2>4. /\ \A g \in Targets \ {Target[a]} : reached'[g] = reached[g]
        /\ delivered => reached'[Target[a]] = 1
    BY <1>s, <1>a, <1>i, <2>2, <2>3 DEF TypeOK
  <2>5. /\ worker'[w].step \in Heard(a, delivered) /\ worker'[w].action = a
    BY <1>a, <1>i, <2>3, GotoFrame DEF Heard, WorkerSteps, HandlerSteps
  <2>6. OneReceipt'
    BY <1>i, <1>a, <1>s, <2>1, <2>2, <2>4 DEF OneReceipt
  <2>7. ASSUME NEW v \in Workers, v # w, worker[v].step \in {"begun", "accepted"}
        PROVE  reached'[Target[worker[v].action]] = reached[Target[worker[v].action]]
    <3>1. Target[worker[v].action] # Target[a]
      BY <1>i, <1>a, <1>v, <2>2, <2>7 DEF OneReceipt
    <3>2. QED
      BY <1>s, <1>v, <2>4, <2>7, <3>1
  <2>8. worker'[w].step = "accepted" /\ a \notin Applications => reached'[Target[a]] = 1
    BY <2>4, <2>5 DEF Heard
  <2>9. worker'[w].step # "begun"
    BY <2>5 DEF Heard
  <2>10. Begun'
    BY <1>i, <1>s, <1>b, <2>1, <2>2, <2>5, <2>7, <2>8, <2>9 DEF Begun
  <2>11. QED
    BY <2>6, <2>10
<1>6. QED
  BY <1>i, <1>2, <1>3, <1>4, <1>5, StepHeld

LEMMA StepKeepsHeld ==
  ASSUME ActionsAssumption, IInv, NEW w \in Workers, StepDone(w)
  PROVE  HeldAsBound'
<1> DEFINE a == worker[w].action
<1>i. scene \in DOMAIN Scenes /\ TypeOK /\ TablesAgree /\ HandsApart /\ HeldAsBound
  BY DEF IInv
<1>a. a \in Actions
  BY <1>i, InHand
<1>f. WorkerFrame(w)
  BY <1>i, StepFrames
<1>s. Applications' = Applications /\ bound' = bound
  BY <1>f, SceneStays DEF WorkerFrame
<1>1. SUFFICES ASSUME a \in Applications, worker'[w].action = a
               PROVE  /\ worker'[w].step \in {"material", "filled", "begun"} =>
                           worker'[w].material = bound[a].material
                      /\ worker'[w].step \in {"filled", "begun"} =>
                           Forms[worker'[w].page].signature = Forms[bound[a].form].signature
  <2>1. \A v \in Workers \ {w} : worker'[v] = worker[v]
    BY <1>f DEF WorkerFrame
  <2>2. worker'[w].action \in Applications => worker'[w].action = a
    BY <1>i, <1>f, StepFrames, SceneFacts DEF HandsFrame, ActionsAssumption
  <2>3. ASSUME NEW v \in Workers, worker'[v].action \in Applications
        PROVE  LET context == bound[worker'[v].action]
               IN  /\ worker'[v].step \in {"material", "filled", "begun"} =>
                        worker'[v].material = context.material
                   /\ worker'[v].step \in {"filled", "begun"} =>
                        Forms[worker'[v].page].signature = Forms[context.form].signature
    <3>1. CASE v = w
      BY <1>1, <2>2, <2>3, <3>1
    <3>2. CASE v # w
      BY <1>i, <2>1, <2>3, <3>2 DEF HeldAsBound
    <3>3. QED
      BY <3>1, <3>2
  <2>4. QED
    BY <1>s, <2>3 DEF HeldAsBound
<1>h. /\ worker[w].step \in {"material", "filled", "begun"} => worker[w].material = bound[a].material
      /\ worker[w].step \in {"filled", "begun"} =>
           Forms[worker[w].page].signature = Forms[bound[a].form].signature
  BY <1>i, <1>1 DEF HeldAsBound
<1>2. CASE HeldFrame(w)
  BY <1>2, <1>h DEF HeldFrame
<1>3. CASE LoadMaterial(w)
  BY <1>3, <1>i DEF LoadMaterial, MaterialStands, TypeOK, WorkerState
<1>4. CASE FillForm(w)
  BY <1>4, <1>h, <1>i DEF FillForm, FormStands, TypeOK, WorkerState
<1>5. CASE CommitReceipt(w)
  <2>1. worker[w].step = "filled"
    BY <1>5, <1>1 DEF CommitReceipt, AtBoundary
  <2>2. worker'[w].material = worker[w].material /\ worker'[w].page = worker[w].page
    BY <1>5, <1>a, <1>i, GotoFrame DEF CommitReceipt, WorkerSteps, HandlerSteps
  <2>3. QED
    BY <1>h, <2>1, <2>2
<1>6. CASE Deliver(w)
  <2>1. worker'[w].step \in {"accepted", "raised"}
    BY <1>6, <1>a, <1>i, GotoFrame DEF Deliver, Heard, WorkerSteps, HandlerSteps
  <2>2. QED
    BY <2>1
<1>7. QED
  BY <1>i, <1>2, <1>3, <1>4, <1>5, <1>6, StepHeld

LEMMA StepKeeps ==
  ASSUME ActionsAssumption, IInv, NEW w \in Workers, StepDone(w)
  PROVE  IInv'
<1>1. TypeOK'
  BY WorkerType DEF IInv, StepDone
<1>2. scene' = scene
  BY StepFrames DEF IInv, WorkerFrame
<1>3. TablesAgree' /\ SchedulesOfEmails' /\ EmailsApart'
  BY StepKeepsTables
<1>4. RowsTogether' /\ HandsApart'
  BY StepKeepsHands
<1>5. OneReceipt' /\ Begun'
  BY StepKeepsReceipts
<1>6. HeldAsBound'
  BY StepKeepsHeld
<1>7. QED
  BY <1>1, <1>2, <1>3, <1>4, <1>5, <1>6 DEF IInv

-----------------------------------------------------------------------------
(* What holds of every behaviour.                                          *)

LEMMA InitHolds ==
  ASSUME ActionsAssumption, Init
  PROVE  IInv
<1>1. TypeOK
  <2>1. 1 \in DOMAIN Forms
    BY DEF ActionsAssumption
  <2>2. IdleWorker \in WorkerState /\ NoContext \in Contexts
    BY DEF IdleWorker, WorkerState, WorkerSteps, NoContext, Contexts, ActionsAssumption
  <2>3. QED
    BY <2>1, <2>2 DEF Init, TypeOK, Statuses, ActionStates, ReceiptStates, ScheduleStates
<1>2. TablesAgree /\ SchedulesOfEmails /\ RowsTogether
  BY DEF Init, TablesAgree, Agree, SchedulesOfEmails, RowsTogether, Waiting
<1>3. \A w \in Workers : worker[w].step = "idle" /\ worker[w].action = NoAction
  BY DEF Init, IdleWorker
<1>4. HandsApart /\ Begun
  BY <1>3 DEF HandsApart, Begun, ActionsAssumption
<1>5. OneReceipt /\ EmailsApart
  <2>1. Paced \subseteq Actions
    BY SceneFacts DEF Init
  <2>2. QED
    BY <2>1 DEF Init, OneReceipt, EmailsApart
<1>6. HeldAsBound
  BY <1>3 DEF HeldAsBound
<1>7. QED
  BY <1>1, <1>2, <1>4, <1>5, <1>6 DEF Init, IInv

LEMMA NextKeeps ==
  ASSUME ActionsAssumption, IInv, [Next]_vars
  PROVE  IInv'
<1>1. CASE UNCHANGED vars
  <2>1. UNCHANGED <<status, attempts, cancelRequested, due, holder, leaseValid, action, receipt,
                    schedule, expired, withdrawn, form, seen, material, planning, bound, scene, worker,
                    reached, faults>>
    BY <1>1 DEF vars, taskVars, actionVars, factVars, pageVars
  <2>2. Target' = Target /\ Paced' = Paced /\ Applications' = Applications
    BY <2>1, SceneStays
  <2>3. TypeOK' /\ TablesAgree' /\ SchedulesOfEmails' /\ RowsTogether' /\ HandsApart'
    BY <2>1, <2>2 DEF IInv, TypeOK, TablesAgree, Agree, SchedulesOfEmails, RowsTogether, HandsApart
  <2>4. OneReceipt' /\ Begun' /\ EmailsApart' /\ HeldAsBound'
    BY <2>1, <2>2 DEF IInv, OneReceipt, Begun, EmailsApart, HeldAsBound
  <2>5. QED
    BY <2>1, <2>3, <2>4 DEF IInv
<1>2. ASSUME NEW a \in Actions, Api(a) PROVE IInv'
  BY <1>2, ApiKeeps
<1>3. CASE \/ \E a \in Actions : Surroundings(a)
           \/ PageStep
  <2>1. TypeOK'
    BY <1>3, SurroundingsType, PageType DEF IInv
  <2>2. OutsideFrame
    BY <1>3, OutsideLeavesAlone DEF IInv
  <2>3. QED
    BY <2>1, <2>2, OutsideKeeps
<1>4. ASSUME NEW w \in Workers, NEW a \in Actions, Claim(w, a) PROVE IInv'
  BY <1>4, ClaimKeeps
<1>5. ASSUME NEW w \in Workers, StepDone(w) PROVE IInv'
  BY <1>5, StepKeeps
<1>6. QED
  BY <1>1, <1>2, <1>3, <1>4, <1>5 DEF Next, StepDone

\* The inductive invariant holds in every state of every behaviour.
THEOREM ActionsInvariant == Spec => []IInv
<1>1. Init => IInv
  BY ActionsAssumption, InitHolds
<1>2. IInv /\ [Next]_vars => IInv'
  BY ActionsAssumption, NextKeeps
<1>3. QED
  BY <1>1, <1>2, PTL DEF Spec

\* Every row, every worker and every packet is well-typed, the single attempt of
\* a task included: nothing a worker, recovery or a refused send does takes it
\* beyond one.
THEOREM ActionsTypeCorrect == Spec => []TypeOK
<1>1. IInv => TypeOK
  BY DEF IInv
<1>2. QED
  BY <1>1, ActionsInvariant, PTL

\* The action, its receipt and its row of the schedule agree at every moment,
\* however many workers, crashes, lost leases and late errors there are
\* (begin_side_effect, complete_side_effect, fail_external_action).
THEOREM TablesAlwaysAgree == Spec => []TablesAgree
<1>1. IInv => TablesAgree
  BY DEF IInv
<1>2. QED
  BY <1>1, ActionsInvariant, PTL

\* One email at most is between its receipt and its outcome, so the sends of
\* all workers are apart (_email_send_slots under the pacing lock).
THEOREM OneEmailUnresolved == Spec => []OneUnresolvedSend
<1>1. IInv => OneUnresolvedSend
  <2> SUFFICES ASSUME IInv PROVE OneUnresolvedSend
    OBVIOUS
  <2> DEFINE S == {a \in Paced : receipt[a] = "executing"}
  <2>1. \A a, b \in S : a = b
    BY DEF IInv, EmailsApart
  <2>2. CASE S = {}
    BY <2>2, FS_EmptySet DEF OneUnresolvedSend
  <2>3. ASSUME NEW a \in S PROVE Cardinality(S) = 1
    <3>1. S = {a}
      BY <2>1, <2>3
    <3>2. QED
      BY <3>1, FS_Singleton
  <2>4. QED
    BY <2>2, <2>3 DEF OneUnresolvedSend
<1>2. QED
  BY <1>1, ActionsInvariant, PTL

\* What a worker submits to an employer is what was approved: the questions of
\* the page it filled are those of the preflight in the packet, the resume and
\* the draft it holds are those of the packet, whatever changed meanwhile.
THEOREM SubmissionsAsApproved == Spec => SubmittedAsApproved
<1> DEFINE Submitted ==
      \A w \in Workers :
        worker[w].step = "begun" /\ worker[w].action \in Applications /\ reached' # reached
        /\ worker'[w].step # "begun" =>
        LET context == bound[worker[w].action]
        IN  /\ Forms[worker[w].page].signature = Forms[context.form].signature
            /\ worker[w].material = context.material
<1>1. IInv => Submitted
  BY DEF IInv, HeldAsBound
<1>2. IInv /\ [Next]_vars => [Submitted]_vars
  BY <1>1
<1>3. QED
  BY <1>2, ActionsInvariant, PTL DEF Spec, SubmittedAsApproved

-----------------------------------------------------------------------------
(* The contract about effects is implemented.                              *)

\* Which rows the contract sees.
SameRow(b) ==
  /\ action'[b] = action[b] /\ cancelRequested'[b] = cancelRequested[b]
  /\ expired'[b] = expired[b] /\ withdrawn'[b] = withdrawn[b]
  /\ receipt'[b] = receipt[b]
OthersSame(a) ==
  Target' = Target /\ Applications' = Applications /\ \A b \in Actions \ {a} : SameRow(b)

AuthorityMap == [a \in Actions |-> Authority(a)]
AcknowledgedMap == [a \in Actions |-> a \notin Applications]
BegunMap == [a \in Actions |-> receipt[a] # "none"]
OutcomeMap == [a \in Actions |-> Reported(a)]

LEMMA MapsOfOthers ==
  ASSUME NEW a \in Actions, OthersSame(a)
  PROVE  /\ AuthorityMap' = [AuthorityMap EXCEPT ![a] = Authority(a)']
         /\ BegunMap' = [BegunMap EXCEPT ![a] = (receipt'[a] # "none")]
         /\ OutcomeMap' = [OutcomeMap EXCEPT ![a] = Reported(a)']
         /\ (Authority(a)' <=> Authority(a)) => AuthorityMap' = AuthorityMap
         /\ (receipt'[a] # "none" <=> receipt[a] # "none") => BegunMap' = BegunMap
         /\ Reported(a)' = Reported(a) => OutcomeMap' = OutcomeMap
<1>1. \A b \in Actions \ {a} : Authority(b)' <=> Authority(b)
  BY DEF OthersSame, SameRow, Authority
<1>2. \A b \in Actions \ {a} : Reported(b)' = Reported(b)
  BY DEF OthersSame, SameRow, Reported
<1>3. \A b \in Actions \ {a} : receipt'[b] # "none" <=> receipt[b] # "none"
  BY DEF OthersSame, SameRow
<1>4. Authority(a) \in BOOLEAN /\ Authority(a)' \in BOOLEAN
      /\ \A b \in Actions : Authority(b) \in BOOLEAN /\ Authority(b)' \in BOOLEAN
  BY DEF Authority
<1>5. /\ AuthorityMap' = [AuthorityMap EXCEPT ![a] = Authority(a)']
      /\ (Authority(a)' <=> Authority(a)) => AuthorityMap' = AuthorityMap
  BY <1>1, <1>4 DEF AuthorityMap
<1>6. /\ BegunMap' = [BegunMap EXCEPT ![a] = (receipt'[a] # "none")]
      /\ (receipt'[a] # "none" <=> receipt[a] # "none") => BegunMap' = BegunMap
  BY <1>3 DEF BegunMap
<1>7. /\ OutcomeMap' = [OutcomeMap EXCEPT ![a] = Reported(a)']
      /\ Reported(a)' = Reported(a) => OutcomeMap' = OutcomeMap
  BY <1>2 DEF OutcomeMap
<1>8. QED
  BY <1>5, <1>6, <1>7

\* A step that changes no more than whether an action may begin.
LEMMA AuthorityChanges ==
  ASSUME NEW a \in Actions, OthersSame(a), reached' = reached,
         receipt'[a] # "none" <=> receipt[a] # "none", Reported(a)' = Reported(a)
  PROVE  E!ContractNext
<1>1. Authority(a)' \in BOOLEAN /\ Target' = Target /\ AcknowledgedMap' = AcknowledgedMap
  BY DEF Authority, OthersSame, AcknowledgedMap
<1>2. E!ChangeAuthority(a, Authority(a)')
  BY MapsOfOthers DEF E!ChangeAuthority, AuthorityMap, BegunMap, OutcomeMap
<1>3. QED
  BY <1>1, <1>2 DEF E!ContractNext, AcknowledgedMap

LEMMA Abandoned ==
  ASSUME NEW a \in Actions, OthersSame(a), reached' = reached,
         receipt[a] = "none", receipt'[a] = "none",
         Reported(a) = "open", Reported(a)' = "not_done", ~Authority(a)'
  PROVE  E!ContractNext
<1>1. Target' = Target /\ AcknowledgedMap' = AcknowledgedMap
  BY DEF OthersSame, AcknowledgedMap
<1>2. AuthorityMap' = [AuthorityMap EXCEPT ![a] = FALSE]
  <2>1. Authority(a)' = FALSE
    BY DEF Authority
  <2>2. QED
    BY <2>1, MapsOfOthers
<1>3. OutcomeMap' = [OutcomeMap EXCEPT ![a] = "not_done"] /\ BegunMap' = BegunMap
  BY MapsOfOthers
<1>4. E!Abandon(a)
  BY <1>2, <1>3 DEF E!Abandon, AuthorityMap, BegunMap, OutcomeMap
<1>5. QED
  BY <1>1, <1>4 DEF E!ContractNext, AcknowledgedMap

LEMMA EffectBegins ==
  ASSUME NEW a \in Actions, OthersSame(a), reached' = reached,
         receipt[a] = "none", receipt'[a] # "none", ~Taken(a),
         Authority(a), Authority(a)', Reported(a) = "open", Reported(a)' = "open"
  PROVE  E!ContractNext
<1>1. Target' = Target /\ AcknowledgedMap' = AcknowledgedMap
  BY DEF OthersSame, AcknowledgedMap
<1>2. AuthorityMap' = AuthorityMap /\ OutcomeMap' = OutcomeMap
  BY MapsOfOthers
<1>3. BegunMap' = [BegunMap EXCEPT ![a] = TRUE]
  <2>1. (receipt'[a] # "none") = TRUE
    OBVIOUS
  <2>2. QED
    BY <2>1, MapsOfOthers
<1>4. \A b \in Actions : BegunMap[b] => Target[b] # Target[a]
  BY DEF BegunMap, Taken
<1>5. E!Begin(a)
  BY <1>2, <1>3, <1>4 DEF E!Begin, AuthorityMap, BegunMap, OutcomeMap
<1>6. QED
  BY <1>1, <1>5 DEF E!ContractNext, AcknowledgedMap

LEMMA TargetReached ==
  ASSUME NEW a \in Actions, OthersSame(a), SameRow(a),
         receipt[a] # "none", Reported(a) = "open",
         reached[Target[a]] = 0, reached' = [reached EXCEPT ![Target[a]] = 1]
  PROVE  E!ContractNext
<1>1. Target' = Target /\ AcknowledgedMap' = AcknowledgedMap
  BY DEF OthersSame, AcknowledgedMap
<1>2. (Authority(a)' <=> Authority(a)) /\ Reported(a)' = Reported(a) /\ receipt'[a] = receipt[a]
  BY DEF SameRow, Authority, Reported
<1>3. AuthorityMap' = AuthorityMap /\ OutcomeMap' = OutcomeMap /\ BegunMap' = BegunMap
  BY <1>2, MapsOfOthers
<1>4. E!Reach(a)
  BY <1>3 DEF E!Reach, AuthorityMap, BegunMap, OutcomeMap
<1>5. QED
  BY <1>1, <1>4 DEF E!ContractNext, AcknowledgedMap

LEMMA EffectReported ==
  ASSUME NEW a \in Actions, OthersSame(a), reached' = reached,
         receipt'[a] # "none" <=> receipt[a] # "none",
         Authority(a)' <=> Authority(a),
         Reported(a) = "open",
         \/ /\ Reported(a)' = "done" /\ receipt[a] # "none"
            /\ a \notin Applications => reached[Target[a]] = 1
         \/ Reported(a)' = "not_done" /\ receipt[a] = "none"
         \/ Reported(a)' = "uncertain" /\ receipt[a] # "none"
  PROVE  E!ContractNext
<1>1. Target' = Target /\ AcknowledgedMap' = AcknowledgedMap
  BY DEF OthersSame, AcknowledgedMap
<1>2. PICK o \in {"done", "not_done", "uncertain"} : o = Reported(a)'
  OBVIOUS
<1>3. /\ AuthorityMap' = AuthorityMap /\ BegunMap' = BegunMap
      /\ OutcomeMap' = [OutcomeMap EXCEPT ![a] = o]
  BY <1>2, MapsOfOthers
<1>4. E!Report(a, o)
  BY <1>2, <1>3 DEF E!Report, AuthorityMap, AcknowledgedMap, BegunMap, OutcomeMap
<1>5. QED
  BY <1>1, <1>2, <1>4 DEF E!ContractNext, AcknowledgedMap, E!Outcomes

\* A step the contract does not see.
LEMMA ContractStutters ==
  ASSUME Target' = Target, Applications' = Applications, reached' = reached,
         \A b \in Actions : SameRow(b)
  PROVE  UNCHANGED E!contractVars
<1>1. \A b \in Actions : (Authority(b)' <=> Authority(b)) /\ Reported(b)' = Reported(b)
                         /\ receipt'[b] = receipt[b]
  BY DEF SameRow, Authority, Reported
<1>2. \A b \in Actions : Authority(b) \in BOOLEAN /\ Authority(b)' \in BOOLEAN
  BY DEF Authority
<1>3. AuthorityMap' = AuthorityMap
  BY <1>1, <1>2 DEF AuthorityMap
<1>4. BegunMap' = BegunMap /\ OutcomeMap' = OutcomeMap /\ AcknowledgedMap' = AcknowledgedMap
  BY <1>1 DEF BegunMap, OutcomeMap, AcknowledgedMap
<1>5. QED
  BY <1>3, <1>4 DEF E!contractVars, AuthorityMap, BegunMap, OutcomeMap, AcknowledgedMap

LEMMA ApiImplements ==
  ASSUME IInv, NEW a \in Actions, Api(a)
  PROVE  E!ContractNext
<1>i. TypeOK /\ Agree(a) /\ (status[a] = "absent" <=> action[a] = "absent")
      /\ (status[a] = "pending_approval" <=> action[a] = "pending_approval")
  BY DEF IInv, TablesAgree, RowsTogether
<1>f. ApiFrame(a)
  BY <1>i, ApiLeavesAlone
<1>s. reached' = reached /\ receipt' = receipt /\ Target' = Target /\ Applications' = Applications
  BY <1>f, SceneStays DEF ApiFrame
<1>o. OthersSame(a)
  <2>1. \A b \in Actions \ {a} : cancelRequested'[b] = cancelRequested[b]
                                /\ expired' = expired /\ withdrawn' = withdrawn
    BY <1>i DEF Api, PrepareEmail, PrepareApplication, Prepare, Approve, Reject, CancelWaiting,
                RequestCancellation, factVars, TypeOK
  <2>2. QED
    BY <1>f, <1>s, <2>1 DEF OthersSame, SameRow, ApiFrame
<1>1. CASE PrepareEmail(a) \/ PrepareApplication(a)
  <2>1. action[a] = "absent" /\ action'[a] = "pending_approval"
    BY <1>1, <1>i DEF PrepareEmail, PrepareApplication, Prepare, TypeOK
  <2>2. Reported(a)' = Reported(a)
    BY <2>1 DEF Reported
  <2>3. QED
    BY <1>o, <1>s, <2>2, AuthorityChanges
<1>2. CASE Approve(a)
  <2>1. action[a] = "pending_approval" /\ action'[a] = "queued"
    BY <1>2, <1>i DEF Approve, TypeOK
  <2>2. Reported(a)' = Reported(a)
    BY <2>1 DEF Reported
  <2>3. QED
    BY <1>o, <1>s, <2>2, AuthorityChanges
<1>3. CASE Reject(a)
  <2>1. action[a] = "pending_approval" /\ action'[a] = "rejected"
    BY <1>3, <1>i DEF Reject, TypeOK
  <2>2. receipt[a] = "none"
    BY <1>i, <2>1 DEF Agree
  <2>3. Reported(a) = "open" /\ Reported(a)' = "not_done" /\ ~Authority(a)'
    BY <2>1 DEF Reported, Authority
  <2>4. QED
    BY <1>o, <1>s, <2>2, <2>3, Abandoned
<1>4. CASE CancelWaiting(a)
  <2>1. CASE action[a] \in {"pending_approval", "queued"}
    <3>1. action'[a] = "cancelled"
      BY <1>4, <1>i, <2>1 DEF CancelWaiting, TypeOK
    <3>2. receipt[a] = "none"
      BY <1>i, <2>1 DEF Agree
    <3>3. Reported(a) = "open" /\ Reported(a)' = "not_done" /\ ~Authority(a)'
      BY <2>1, <3>1 DEF Reported, Authority
    <3>4. QED
      BY <1>o, <1>s, <3>2, <3>3, Abandoned
  <2>2. CASE action[a] \notin {"pending_approval", "queued"}
    <3>1. action'[a] = action[a]
      BY <1>4, <1>i, <2>2 DEF CancelWaiting, TypeOK
    <3>2. Reported(a)' = Reported(a)
      BY <3>1 DEF Reported
    <3>3. QED
      BY <1>o, <1>s, <3>2, AuthorityChanges
  <2>3. QED
    BY <2>1, <2>2
<1>5. CASE RequestCancellation(a)
  <2>1. Reported(a)' = Reported(a)
    BY <1>5 DEF RequestCancellation, actionVars, Reported
  <2>2. QED
    BY <1>o, <1>s, <2>1, AuthorityChanges
<1>6. QED
  BY <1>1, <1>2, <1>3, <1>4, <1>5 DEF Api

LEMMA OutsideImplements ==
  ASSUME IInv, \/ \E a \in Actions : Surroundings(a)
               \/ PageStep
  PROVE  E!ContractNext \/ UNCHANGED E!contractVars
<1>i. TypeOK /\ RowsTogether
  BY DEF IInv
<1>f. /\ UNCHANGED <<action, receipt, schedule, reached>>
      /\ Target' = Target /\ Applications' = Applications
  BY <1>i, OutsideLeavesAlone, SceneStays DEF OutsideFrame, actionVars
<1>1. ASSUME NEW a \in Actions, PacketExpires(a) \/ FactChanges(a)
      PROVE  E!ContractNext
  <2>1. /\ cancelRequested' = cancelRequested
        /\ \A b \in Actions \ {a} : expired'[b] = expired[b] /\ withdrawn'[b] = withdrawn[b]
    BY <1>1, <1>i DEF PacketExpires, FactChanges, taskVars, TypeOK
  <2>2. OthersSame(a) /\ Reported(a)' = Reported(a)
    BY <1>f, <2>1 DEF OthersSame, SameRow, Reported
  <2>3. QED
    BY <1>f, <2>2, AuthorityChanges
<1>2. CASE \/ \E a \in Actions : Recover(a) \/ LeaseExpires(a) \/ BecomeDue(a)
           \/ PageStep
  <2>1. UNCHANGED <<cancelRequested, expired, withdrawn>>
    BY <1>2 DEF Recover, LeaseExpires, BecomeDue, PageStep, Preflight, FormChanges, PreflightAges,
                MaterialChanges, ReadContext, ReturnPrepared, taskVars, factVars
  <2>2. \A b \in Actions : SameRow(b)
    BY <1>f, <2>1 DEF SameRow
  <2>3. QED
    BY <1>f, <2>2, ContractStutters
<1>3. QED
  BY <1>1, <1>2 DEF Surroundings

LEMMA ClaimImplements ==
  ASSUME NEW w \in Workers, NEW a \in Actions, Claim(w, a)
  PROVE  UNCHANGED E!contractVars
<1>1. UNCHANGED <<action, receipt, cancelRequested, expired, withdrawn, reached, scene>>
  BY DEF Claim, actionVars, factVars
<1>2. \A b \in Actions : SameRow(b)
  BY <1>1 DEF SameRow
<1>3. QED
  BY <1>1, <1>2, SceneStays, ContractStutters

LEMMA StepImplements ==
  ASSUME ActionsAssumption, IInv, NEW w \in Workers, StepDone(w)
  PROVE  E!ContractNext \/ UNCHANGED E!contractVars
<1>i. /\ scene \in DOMAIN Scenes /\ TypeOK /\ TablesAgree /\ RowsTogether /\ HandsApart /\ Begun
  BY DEF IInv
<1>a. PICK a \in Actions : a = worker[w].action
  BY <1>i, InHand
<1>f. WorkerFrame(w) /\ RowsFrame(w)
  BY <1>i, StepFrames
<1>t. Agree(a)
  BY <1>i DEF TablesAgree
<1>s. Target' = Target /\ Applications' = Applications /\ Target \in [Actions -> Targets]
  BY <1>f, <1>i, SceneStays, SceneFacts DEF WorkerFrame
<1>u. UNCHANGED <<cancelRequested, expired, withdrawn>>
  BY DEF StepDone, WorkerStep, HeartbeatStops, Crash, DatabaseError, PreparationFails, LoadMaterial,
         FillForm, CommitReceipt, Defer, RefuseBoundary, Deliver, CompleteSideEffect,
         FailExternalAction, FailTask, Settle, EndRun, taskVars, factVars
<1>o. OthersSame(a)
  BY <1>a, <1>f, <1>s, <1>u DEF OthersSame, SameRow, WorkerFrame
<1>1. CASE CommitReceipt(w)
  <2>1. /\ action[a] = "queued" /\ action'[a] = "executing" /\ reached' = reached
        /\ receipt[a] = "none" /\ receipt'[a] = "executing"
    BY <1>1, <1>a, <1>i, <1>t DEF CommitReceipt, MayBegin, Agree, TypeOK
  <2>2. ~Taken(a) /\ ~cancelRequested[a] /\ ~expired[a] /\ ~withdrawn[a]
    BY <1>1, <1>a DEF CommitReceipt, MayBegin
  <2>3. Authority(a) /\ Authority(a)' /\ Reported(a) = "open" /\ Reported(a)' = "open"
    BY <1>u, <2>1, <2>2 DEF Authority, Reported
  <2>4. QED
    BY <1>o, <2>1, <2>2, <2>3, EffectBegins
<1>2. CASE Deliver(w)
  <2>1. action[a] = "executing" /\ receipt[a] = "executing" /\ reached[Target[a]] = 0
    BY <1>2, <1>a, <1>i DEF Deliver, Begun
  <2>2. SameRow(a)
    BY <1>2, <1>u DEF Deliver, actionVars, SameRow
  <2>3. PICK delivered \in BOOLEAN :
          reached' = [reached EXCEPT ![Target[a]] = IF delivered THEN @ + 1 ELSE @]
    BY <1>2, <1>a DEF Deliver
  <2>4. CASE delivered
    <3>1. reached' = [reached EXCEPT ![Target[a]] = 1]
      BY <2>1, <2>3, <2>4
    <3>2. Reported(a) = "open"
      BY <2>1 DEF Reported
    <3>3. QED
      BY <1>o, <2>1, <2>2, <3>1, <3>2, TargetReached
  <2>5. CASE ~delivered
    <3>1. reached' = reached
      BY <1>i, <2>3, <2>5 DEF TypeOK
    <3>2. \A b \in Actions : SameRow(b)
      BY <1>o, <2>2 DEF OthersSame
    <3>3. QED
      BY <1>s, <3>1, <3>2, ContractStutters
  <2>6. QED
    BY <2>4, <2>5
<1>3. CASE CompleteSideEffect(w)
  <2>1. /\ action[a] = "executing" /\ receipt[a] = "executing" /\ reached' = reached
        /\ a \notin Applications => reached[Target[a]] = 1
    BY <1>3, <1>a, <1>i DEF CompleteSideEffect, Begun
  <2>2. CASE UNCHANGED <<action, receipt>>
    <3>1. \A b \in Actions : SameRow(b)
      BY <1>u, <2>2 DEF SameRow
    <3>2. QED
      BY <1>s, <2>1, <3>1, ContractStutters
  <2>3. CASE ~UNCHANGED <<action, receipt>>
    <3>1. action'[a] = "succeeded" /\ receipt'[a] = "succeeded"
      BY <1>3, <1>a, <1>i, <2>3 DEF CompleteSideEffect, actionVars, TypeOK
    <3>2. Reported(a) = "open" /\ Reported(a)' = "done"
      BY <2>1, <3>1 DEF Reported
    <3>3. Authority(a)' <=> Authority(a)
      BY <1>u, <2>1, <3>1 DEF Authority
    <3>4. QED
      BY <1>o, <2>1, <3>1, <3>2, <3>3, EffectReported
  <2>4. QED
    BY <2>2, <2>3
<1>4. CASE FailExternalAction(w)
  <2>0. reached' = reached
    BY <1>4 DEF FailExternalAction
  <2>1. CASE UNCHANGED <<action, receipt>>
    <3>1. \A b \in Actions : SameRow(b)
      BY <1>u, <2>1 DEF SameRow
    <3>2. QED
      BY <1>s, <2>0, <3>1, ContractStutters
  <2>2. CASE ~UNCHANGED <<action, receipt>>
    <3>1. /\ status[a] = "running" /\ action[a] # "succeeded" /\ receipt[a] # "succeeded"
          /\ action'[a] = FailedState(a)
          /\ receipt'[a] = IF receipt[a] # "none" THEN "ambiguous" ELSE "none"
      BY <1>4, <1>a, <1>i, <2>2 DEF FailExternalAction, KnownAccepted, Owns, actionVars, TypeOK
    <3>2. action[a] \notin {"absent", "pending_approval"}
      BY <1>i, <3>1 DEF RowsTogether
    <3>3. CASE receipt[a] = "none"
      <4>1. receipt'[a] = "none" /\ action'[a] = "failed"
        BY <3>1, <3>3 DEF FailedState
      <4>2. action[a] \in {"queued", "failed", "rejected", "cancelled"}
        BY <1>t, <3>2, <3>3 DEF Agree
      <4>3. CASE action[a] = "queued"
        <5>1. Reported(a) = "open" /\ Reported(a)' = "not_done" /\ (Authority(a)' <=> Authority(a))
          BY <1>u, <4>1, <4>3 DEF Reported, Authority
        <5>2. QED
          BY <1>o, <2>0, <3>3, <4>1, <5>1, EffectReported
      <4>4. CASE action[a] # "queued"
        <5>1. Reported(a) = "not_done" /\ Reported(a)' = "not_done"
          BY <4>1, <4>2, <4>4 DEF Reported
        <5>2. QED
          BY <1>o, <2>0, <3>3, <4>1, <5>1, AuthorityChanges
      <4>5. QED
        BY <4>3, <4>4
    <3>4. CASE receipt[a] # "none"
      <4>1. receipt'[a] = "ambiguous" /\ action'[a] = "ambiguous"
        BY <3>1, <3>4 DEF FailedState
      <4>2. action[a] = receipt[a] /\ action[a] \in {"executing", "ambiguous"}
        BY <1>i, <1>t, <3>1, <3>4 DEF Agree, TypeOK, ReceiptStates
      <4>3. Authority(a)' <=> Authority(a)
        BY <1>u, <4>1, <4>2 DEF Authority
      <4>4. CASE action[a] = "executing"
        <5>1. Reported(a) = "open" /\ Reported(a)' = "uncertain"
          BY <4>1, <4>4 DEF Reported
        <5>2. QED
          BY <1>o, <2>0, <3>4, <4>1, <4>3, <5>1, EffectReported
      <4>5. CASE action[a] = "ambiguous"
        <5>1. Reported(a)' = Reported(a)
          BY <4>1, <4>5 DEF Reported
        <5>2. QED
          BY <1>o, <2>0, <3>4, <4>1, <5>1, AuthorityChanges
      <4>6. QED
        BY <4>2, <4>4, <4>5
    <3>5. QED
      BY <3>3, <3>4
  <2>3. QED
    BY <2>1, <2>2
<1>5. CASE ~(CommitReceipt(w) \/ Deliver(w) \/ CompleteSideEffect(w) \/ FailExternalAction(w))
  <2>1. UNCHANGED <<action, receipt, reached>>
    BY <1>5 DEF StepDone, WorkerStep, HeartbeatStops, Crash, DatabaseError, PreparationFails,
                LoadMaterial, FillForm, Defer, RefuseBoundary, FailTask, Settle, actionVars
  <2>2. \A b \in Actions : SameRow(b)
    BY <1>u, <2>1 DEF SameRow
  <2>3. QED
    BY <1>s, <2>1, <2>2, ContractStutters
<1>6. QED
  BY <1>1, <1>2, <1>3, <1>4, <1>5

LEMMA InitImplements ==
  ASSUME ActionsAssumption, Init
  PROVE  E!ContractInit
<1>1. Target \in [Actions -> Targets]
  BY SceneFacts DEF Init
<1>2. \A a \in Actions : Authority(a) = FALSE /\ Reported(a) = "open" /\ receipt[a] = "none"
  BY DEF Init, Authority, Reported
<1>3. QED
  BY <1>1, <1>2 DEF Init, E!ContractInit

\* ExternalActions implements the contract about effects for every number of
\* actions, targets and workers: what begins has authority at that moment, a
\* target is reached once at most, what is reported as not done never began, and
\* an email that is reported as sent was taken by the server.
THEOREM EffectsKeepContract == Spec => ImplementsEffectContract
<1>1. Init => E!ContractInit
  BY ActionsAssumption, InitImplements
<1>2. IInv /\ [Next]_vars => [E!ContractNext]_(E!contractVars)
  <2> SUFFICES ASSUME IInv, [Next]_vars
               PROVE  E!ContractNext \/ UNCHANGED E!contractVars
    OBVIOUS
  <2>1. CASE UNCHANGED vars
    <3>1. UNCHANGED <<action, receipt, cancelRequested, expired, withdrawn, reached, scene>>
      BY <2>1 DEF vars, taskVars, actionVars, factVars
    <3>2. \A b \in Actions : SameRow(b)
      BY <3>1 DEF SameRow
    <3>3. QED
      BY <3>1, <3>2, SceneStays, ContractStutters
  <2>2. CASE Next
    BY <2>2, ActionsAssumption, ApiImplements, OutsideImplements, ClaimImplements, StepImplements
    DEF Next, StepDone
  <2>3. QED
    BY <2>1, <2>2
<1>3. QED
  BY <1>1, <1>2, ActionsInvariant, PTL DEF Spec, ImplementsEffectContract, E!Contract
=============================================================================
