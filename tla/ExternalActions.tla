--------------------------- MODULE ExternalActions ---------------------------
(***************************************************************************)
(* Side effects outside the service: job applications submitted in a       *)
(* browser and emails handed to an SMTP server (action_store.py,           *)
(* action_worker.py, application_browser.py, and the parts of store.py     *)
(* that touch an action).                                                  *)
(*                                                                         *)
(* An action has one task of one attempt.  How the task reaches a worker   *)
(* is the matter of TaskLifecycle: here any idle worker may claim a task   *)
(* that waits.  The lease of a run is represented by its holder and a flag.*)
(* The applications of a behaviour are all to one opportunity, whose page  *)
(* at the employer goes through the versions in Forms.                     *)
(***************************************************************************)
EXTENDS Naturals, FiniteSets, Sequences

CONSTANTS
  Actions,     \* rows of external_actions, each with its row of agent_tasks
  Targets,     \* fingerprints: an opportunity, or the context of an email
  Workers, NoWorker, NoAction,
  Forms,       \* versions of the employer's page: [signature, asks, blocked, single]
  Answers,     \* what a person may answer to the question of a form, or NoAnswer
  NoAnswer,
  Scenes       \* Scenes[s]: what a behaviour may be about, see the fields below

VARIABLE scene                       \* chosen at the start, never changed

Target == Scenes[scene].target       \* Target[a]: the fingerprint the worker computes for a
Paced == Scenes[scene].paced         \* the emails, when the SMTP transport is paced
Changeable == Scenes[scene].changeable  \* bound: the actions whose facts may change
MaxFaults == Scenes[scene].faults    \* bound: crashes, database errors, stalls beyond a lease
MaxForm == Scenes[scene].forms       \* bound: versions of the form that are ever served
MaxPreflights == Scenes[scene].preflights  \* bound: inspections of the form
Ages == Scenes[scene].ages           \* bound: whether six hours pass over a preflight
MaxMaterial == Scenes[scene].material  \* bound: versions of the resume and the draft

\* Nothing but emails and applications is in external_actions; emails are
\* taken to be paced, as on a transport that is not a test fixture.
Applications == Scenes[scene].applications

ASSUME ActionsAssumption ==
  /\ NoWorker \notin Workers
  /\ NoAction \notin Actions
  /\ NoAnswer \in Answers
  /\ Forms \in Seq([signature: Nat, asks: BOOLEAN, blocked: BOOLEAN, single: BOOLEAN])
  /\ Forms # <<>>
  /\ \A n \in DOMAIN Scenes : LET s == Scenes[n] IN
       /\ s.target \in [Actions -> Targets]
       /\ s.paced \subseteq Actions /\ s.applications \subseteq Actions \ s.paced
       /\ s.changeable \subseteq Actions
       /\ \A a, b \in s.applications : s.target[a] = s.target[b]
       /\ s.faults \in Nat /\ s.preflights \in Nat /\ s.material \in Nat
       /\ s.forms \in 0 .. Len(Forms) /\ s.ages \in BOOLEAN

VARIABLES
  (* agent_tasks *)
  status, attempts, cancelRequested,
  due,         \* next_attempt_at <= now()
  holder,      \* the worker with the current lease_id
  leaseValid,  \* lease_expires_at > now()
  (* external_actions, side_effect_receipts, outbound_email_schedule *)
  action, receipt, schedule,
  (* what else the guards of begin_side_effect read *)
  expired,     \* expires_at <= now()
  withdrawn,   \* a bound fact changed: opt-out, paused run, edited material
  (* the employer's page, job_application_preflights, and what packets bind *)
  form,        \* the version of the page that is served
  seen,        \* the latest preflight: its number, the version, whether within 6 hours
  material,    \* the version of the resume and of the draft
  planning,    \* the context a request has read and not stored yet, or NoContext
  bound,       \* bound[a]: the preflight, version, answer and material of its context
  (* processes and the outside *)
  worker,
  reached,     \* how often the outside got to see a target: no table has it
  faults

taskVars == <<status, attempts, cancelRequested, due, holder, leaseValid>>
actionVars == <<action, receipt, schedule>>
pageVars == <<form, seen, material, planning>>
factVars == <<expired, withdrawn, pageVars, bound, scene>>
vars == <<taskVars, actionVars, factVars, worker, reached, faults>>

Final == {"succeeded", "failed", "rejected", "cancelled", "dead_lettered"}
Statuses == {"absent", "pending_approval", "queued", "running"} \cup Final
ActionStates ==
  {"absent", "pending_approval", "queued", "executing", "succeeded", "failed",
   "rejected", "cancelled", "ambiguous"}
ReceiptStates == {"none", "executing", "succeeded", "ambiguous"}
ScheduleStates == {"none", "scheduled", "sending", "accepted", "skipped", "ambiguous"}

HandlerSteps == {"preparing", "material", "filled", "begun", "accepted"}
WorkerSteps == HandlerSteps \cup {"idle", "returned", "raised", "reported"}
WorkerState ==
  [step: WorkerSteps, action: Actions \cup {NoAction},
   reason: {"none", "lost", "cancel_requested"},
   material: Nat, page: Nat]   \* what it holds of the resume and of the form
IdleWorker ==
  [step |-> "idle", action |-> NoAction, reason |-> "none", material |-> 0, page |-> 0]

NoContext == [preflight |-> 0, form |-> 0, answer |-> NoAnswer, material |-> 0]
Contexts == [preflight: Nat, form: Nat, answer: Answers, material: Nat]

TypeOK ==
  /\ status \in [Actions -> Statuses]
  /\ attempts \in [Actions -> {0, 1}]
  /\ cancelRequested \in [Actions -> BOOLEAN]
  /\ due \in [Actions -> BOOLEAN]
  /\ holder \in [Actions -> Workers \cup {NoWorker}]
  /\ leaseValid \in [Actions -> BOOLEAN]
  /\ action \in [Actions -> ActionStates]
  /\ receipt \in [Actions -> ReceiptStates]
  /\ schedule \in [Actions -> ScheduleStates]
  /\ expired \in [Actions -> BOOLEAN]
  /\ withdrawn \in [Actions -> BOOLEAN]
  /\ form \in DOMAIN Forms /\ material \in Nat
  /\ seen \in [preflight: Nat, form: Nat, fresh: BOOLEAN]
  /\ planning \in Contexts
  /\ bound \in [Actions -> Contexts]
  /\ worker \in [Workers -> WorkerState]
  /\ reached \in [Targets -> Nat]
  /\ faults \in Nat

Init ==
  /\ scene \in DOMAIN Scenes
  /\ status = [a \in Actions |-> "absent"]
  /\ attempts = [a \in Actions |-> 0]
  /\ cancelRequested = [a \in Actions |-> FALSE]
  /\ due = [a \in Actions |-> TRUE]
  /\ holder = [a \in Actions |-> NoWorker]
  /\ leaseValid = [a \in Actions |-> FALSE]
  /\ action = [a \in Actions |-> "absent"]
  /\ receipt = [a \in Actions |-> "none"]
  /\ schedule = [a \in Actions |-> "none"]
  /\ expired = [a \in Actions |-> FALSE]
  /\ withdrawn = [a \in Actions |-> FALSE]
  /\ form = 1 /\ material = 1
  /\ seen = [preflight |-> 0, form |-> 0, fresh |-> FALSE]
  /\ planning = NoContext
  /\ bound = [a \in Actions |-> NoContext]
  /\ worker = [w \in Workers |-> IdleWorker]
  /\ reached = [g \in Targets |-> 0]
  /\ faults = 0

Fault ==
  /\ faults < MaxFaults
  /\ faults' = faults + 1

-----------------------------------------------------------------------------
(* The API.                                                                *)

\* inspect_application_form: what a browser finds on the page now.
Inspection == [preflight |-> seen.preflight + 1, form |-> form, fresh |-> TRUE]

\* career.application_preflight: save_preflight makes it the latest row.
Preflight ==
  /\ Applications # {} /\ seen.preflight < MaxPreflights
  /\ seen' = Inspection
  /\ UNCHANGED <<taskVars, actionVars, expired, withdrawn, form, material, planning, bound, scene>>
  /\ UNCHANGED <<worker, reached, faults>>

\* _create_external_action: the row and its task in one transaction.
Prepare(a) ==
  /\ action[a] = "absent"
  /\ action' = [action EXCEPT ![a] = "pending_approval"]
  /\ status' = [status EXCEPT ![a] = "pending_approval"]
  /\ UNCHANGED <<attempts, cancelRequested, due, holder, leaseValid>>
  /\ UNCHANGED <<receipt, schedule, expired, withdrawn, form, seen, material, scene>>
  /\ UNCHANGED <<worker, reached, faults>>

PrepareEmail(a) == a \in Paced /\ Prepare(a) /\ UNCHANGED <<bound, planning>>

\* resolve_application_fields: every required question has an answer.
Resolved(version, answer) == Forms[version].asks => answer # NoAnswer

\* What create_application_action asks of the latest preflight.
Plannable(answer) ==
  /\ seen.form # 0 /\ seen.fresh
  /\ ~Forms[seen.form].blocked
  /\ Resolved(seen.form, answer)

\* create_application_action, by a person or, with no answers, by
\* try_create_automatic_application_action once a preflight is saved: the page,
\* the resume and the draft are read in a transaction of their own.  Bound: one
\* request at a time is between its read and its insert.
ReadContext(answer) ==
  /\ planning = NoContext
  /\ \E a \in Applications : action[a] = "absent"
  /\ Plannable(answer)
  /\ planning' = [preflight |-> seen.preflight, form |-> seen.form,
                  answer |-> answer, material |-> material]
  /\ UNCHANGED <<taskVars, actionVars, expired, withdrawn, form, seen, material, bound, scene>>
  /\ UNCHANGED <<worker, reached, faults>>

Planned(context) == \E b \in Actions : bound[b] = context

\* The packet binds what was read, whatever is on the page by now.
PrepareApplication(a) ==
  /\ a \in Applications
  /\ planning # NoContext /\ ~Planned(planning)
  /\ Prepare(a)
  /\ bound' = [bound EXCEPT ![a] = planning]
  /\ planning' = NoContext

\* The idempotency key: a context that was prepared before is returned as it is.
ReturnPrepared ==
  /\ planning # NoContext /\ Planned(planning)
  /\ planning' = NoContext
  /\ UNCHANGED <<taskVars, actionVars, expired, withdrawn, form, seen, material, bound, scene>>
  /\ UNCHANGED <<worker, reached, faults>>

\* decide_task: an approval of a paced email reserves its slot.  A slot that
\* falls behind the packet's expiry refuses the approval: no step.
Approve(a) ==
  /\ status[a] = "pending_approval" /\ ~expired[a]
  /\ status' = [status EXCEPT ![a] = "queued"]
  /\ action' = [action EXCEPT ![a] = "queued"]
  /\ IF a \in Paced
       THEN /\ schedule' = [schedule EXCEPT ![a] = "scheduled"]
            /\ due' = [due EXCEPT ![a] = FALSE]
       ELSE UNCHANGED <<schedule, due>>
  /\ UNCHANGED <<attempts, cancelRequested, holder, leaseValid>>
  /\ UNCHANGED <<receipt, factVars, worker, reached, faults>>

Reject(a) ==
  /\ status[a] = "pending_approval"
  /\ status' = [status EXCEPT ![a] = "rejected"]
  /\ action' = [action EXCEPT ![a] = "rejected"]
  /\ UNCHANGED <<attempts, cancelRequested, due, holder, leaseValid>>
  /\ UNCHANGED <<receipt, schedule, factVars, worker, reached, faults>>

SkipSchedule(a) == IF schedule[a] = "scheduled" THEN "skipped" ELSE schedule[a]

CancelWaiting(a) ==
  /\ status[a] \in {"pending_approval", "queued"}
  /\ status' = [status EXCEPT ![a] = "cancelled"]
  /\ cancelRequested' = [cancelRequested EXCEPT ![a] = TRUE]
  /\ action' = [action EXCEPT ![a] =
                  IF @ \in {"pending_approval", "queued"} THEN "cancelled" ELSE @]
  /\ schedule' = [schedule EXCEPT ![a] = SkipSchedule(a)]
  /\ UNCHANGED <<attempts, due, holder, leaseValid>>
  /\ UNCHANGED <<receipt, factVars, worker, reached, faults>>

RequestCancellation(a) ==
  /\ status[a] = "running" /\ ~cancelRequested[a]
  /\ cancelRequested' = [cancelRequested EXCEPT ![a] = TRUE]
  /\ UNCHANGED <<status, attempts, due, holder, leaseValid>>
  /\ UNCHANGED <<actionVars, factVars, worker, reached, faults>>

-----------------------------------------------------------------------------
(* The action worker, up to the irreversible boundary.                     *)

Goto(w, step) == worker' = [worker EXCEPT ![w].step = step]
ToIdle(w) == worker' = [worker EXCEPT ![w] = IdleWorker]

Claim(w, a) ==
  /\ worker[w].step = "idle"
  /\ status[a] = "queued" /\ due[a]
  /\ status' = [status EXCEPT ![a] = "running"]
  /\ attempts' = [attempts EXCEPT ![a] = @ + 1]
  /\ holder' = [holder EXCEPT ![a] = w]
  /\ leaseValid' = [leaseValid EXCEPT ![a] = TRUE]
  /\ worker' = [worker EXCEPT ![w] =
                  [IdleWorker EXCEPT !.step = "preparing", !.action = a]]
  /\ UNCHANGED <<cancelRequested, due>>
  /\ UNCHANGED <<actionVars, factVars, reached, faults>>

\* The sender is another one now, the SMTP session fails (_open_smtp), the
\* page cannot be loaded or filled, or it is not what was approved.
PreparationFails(w) ==
  /\ worker[w].step \in {"preparing", "material", "filled"}
  /\ Goto(w, "raised")
  /\ UNCHANGED <<taskVars, actionVars, factVars, reached, faults>>

\* Mutant of MaterialStands: the hashes are not compared.
AnyMaterial(a) == TRUE

MaterialStands(a) == material = bound[a].material

\* get_application_execution_material.
LoadMaterial(w) ==
  LET a == worker[w].action
  IN  /\ worker[w].step = "preparing" /\ a \in Applications
      /\ MaterialStands(a)
      /\ worker' = [worker EXCEPT ![w] = [@ EXCEPT !.step = "material", !.material = material]]
      /\ UNCHANGED <<taskVars, actionVars, factVars, reached, faults>>

\* Mutant of FormStands: the signature is not compared.
AnyForm(a) == Resolved(form, bound[a].answer)

\* The fields have the approved signature, and the approved values resolve them.
FormStands(a) ==
  /\ Forms[form].signature = Forms[bound[a].form].signature
  /\ Resolved(form, bound[a].answer)

\* submit_application_form up to the click: the page is loaded, compared and
\* filled, and has one final submit control.  A captcha or a login that the page
\* has by now is not looked for: only the preflight was refused for it.
FillForm(w) ==
  LET a == worker[w].action
  IN  /\ worker[w].step = "material"
      /\ FormStands(a) /\ Forms[form].single
      /\ worker' = [worker EXCEPT ![w] = [@ EXCEPT !.step = "filled", !.page = form]]
      /\ UNCHANGED <<taskVars, actionVars, factVars, reached, faults>>

\* begin_side_effect is the next call.
AtBoundary(w) ==
  worker[w].step = IF worker[w].action \in Applications THEN "filled" ELSE "preparing"

Owns(w) ==
  LET a == worker[w].action
  IN  status[a] = "running" /\ holder[a] = w

\* Mutant of Taken: only the action's own receipt is looked up.
TakenByItself(a) == receipt[a] # "none"

\* Somebody has a receipt for the same fingerprint.
Taken(a) == \E b \in Actions : Target[b] = Target[a] /\ receipt[b] # "none"

\* Mutant of MayBegin: the facts behind the approval are not read again.
MayBeginOnApproval(w) ==
  LET a == worker[w].action
  IN  /\ Owns(w) /\ leaseValid[a]
      /\ action[a] = "queued"
      /\ ~cancelRequested[a] /\ ~expired[a]
      /\ ~Taken(a)
      /\ a \in Paced => schedule[a] = "scheduled"

\* The guards of begin_side_effect, all under the row locks it takes.
MayBegin(w) ==
  LET a == worker[w].action
  IN  /\ Owns(w) /\ leaseValid[a]
      /\ action[a] = "queued"
      /\ ~cancelRequested[a] /\ ~expired[a] /\ ~withdrawn[a]
      /\ ~Taken(a)
      /\ a \in Paced => schedule[a] = "scheduled"

\* Mutant of Unresolved: a receipt whose run is over no longer counts.
UnresolvedRuns(a) ==
  \E b \in Paced \ {a} : schedule[b] = "sending" /\ status[b] = "running"

\* Another email is on its way, or nobody knows what became of it.
Unresolved(a) ==
  \E b \in Paced \ {a} : schedule[b] = "sending" \/ receipt[b] = "executing"

\* The receipt is committed: whatever happens next is not repeated.
CommitReceipt(w) ==
  LET a == worker[w].action
  IN  /\ AtBoundary(w)
      /\ MayBegin(w)
      /\ a \in Paced => ~Unresolved(a)
      /\ receipt' = [receipt EXCEPT ![a] = "executing"]
      /\ action' = [action EXCEPT ![a] = "executing"]
      /\ schedule' = [schedule EXCEPT ![a] = IF a \in Paced THEN "sending" ELSE @]
      /\ Goto(w, "begun")
      /\ UNCHANGED <<taskVars, factVars, reached, faults>>

Refund(a) == IF attempts[a] > 0 THEN attempts[a] - 1 ELSE 0

\* _defer_email_send: a safe time is later.  The task waits again and the
\* attempt is given back; the worker loop has nothing to finish.
Defer(w) ==
  LET a == worker[w].action
  IN  /\ AtBoundary(w)
      /\ a \in Paced
      /\ MayBegin(w)
      /\ status' = [status EXCEPT ![a] = "queued"]
      /\ attempts' = [attempts EXCEPT ![a] = Refund(a)]
      /\ due' = [due EXCEPT ![a] = FALSE]
      /\ holder' = [holder EXCEPT ![a] = NoWorker]
      /\ leaseValid' = [leaseValid EXCEPT ![a] = FALSE]
      /\ ToIdle(w)
      /\ UNCHANGED <<cancelRequested, actionVars, factVars, reached, faults>>

\* A guard refuses, or no safe time is left before the packet expires.
RefuseBoundary(w) ==
  /\ AtBoundary(w)
  /\ ~MayBegin(w) \/ worker[w].action \in Paced
  /\ Goto(w, "raised")
  /\ UNCHANGED <<taskVars, actionVars, factVars, reached, faults>>

-----------------------------------------------------------------------------
(* Beyond the boundary.                                                    *)

\* Mutant of Heard: whatever send_message returns is taken for acceptance, the
\* recipients it refused included.
HeardByReturn(a, delivered) == {"accepted", "raised"}

\* What the worker hears of a delivery.  An SMTP server that did not take the
\* message answers with an error or with the refused recipient, and an answer
\* may be lost.  Of a form the worker only sees the page after the click: another
\* address counts as acceptance, also when it is the employer's page of errors or
\* when the POST was stopped by the worker's own filter of requests.
Heard(a, delivered) ==
  {"raised"} \cup IF delivered \/ a \in Applications THEN {"accepted"} ELSE {}

\* send_message or the click.
Deliver(w) ==
  /\ worker[w].step = "begun"
  /\ \E delivered \in BOOLEAN :
       /\ reached' = [reached EXCEPT ![Target[worker[w].action]] =
                        IF delivered THEN @ + 1 ELSE @]
       /\ \E answer \in Heard(worker[w].action, delivered) : Goto(w, answer)
  /\ UNCHANGED <<taskVars, actionVars, factVars, faults>>

\* complete_side_effect asks for no lease: an accepted message is recorded
\* whatever became of the task.
CompleteSideEffect(w) ==
  LET a == worker[w].action
  IN  /\ worker[w].step = "accepted"
      /\ IF action[a] = "executing" /\ receipt[a] = "executing"
              /\ (a \in Paced => schedule[a] = "sending")
           THEN /\ action' = [action EXCEPT ![a] = "succeeded"]
                /\ receipt' = [receipt EXCEPT ![a] = "succeeded"]
                /\ schedule' = [schedule EXCEPT ![a] = IF a \in Paced THEN "accepted" ELSE @]
                /\ Goto(w, "returned")
           ELSE Goto(w, "raised") /\ UNCHANGED actionVars
      /\ UNCHANGED <<taskVars, factVars, reached, faults>>

\* Mutant of KnownAccepted: a late error overwrites what is known.
NeverKnown(a) == FALSE

KnownAccepted(a) == action[a] = "succeeded" \/ receipt[a] = "succeeded"

\* Mutant of FailedState: an error after the boundary is an ordinary failure.
AlwaysFailed(a) == "failed"

FailedState(a) == IF receipt[a] # "none" THEN "ambiguous" ELSE "failed"

\* fail_external_action: the first call of the handler of exceptions.
FailExternalAction(w) ==
  LET a == worker[w].action
  IN  /\ worker[w].step = "raised"
      /\ IF ~KnownAccepted(a) /\ Owns(w) /\ leaseValid[a]
           THEN /\ action' = [action EXCEPT ![a] = FailedState(a)]
                /\ receipt' = [receipt EXCEPT ![a] = IF @ # "none" THEN "ambiguous" ELSE @]
                /\ schedule' = [schedule EXCEPT ![a] =
                     IF @ \notin {"scheduled", "sending"} THEN @
                     ELSE IF receipt[a] # "none" THEN "ambiguous" ELSE "skipped"]
           ELSE UNCHANGED actionVars
      /\ Goto(w, "reported")
      /\ UNCHANGED <<taskVars, factVars, reached, faults>>

EndRun(w, final) ==
  LET a == worker[w].action
  IN  /\ status' = [status EXCEPT ![a] = final]
      /\ holder' = [holder EXCEPT ![a] = NoWorker]
      /\ leaseValid' = [leaseValid EXCEPT ![a] = FALSE]
      /\ UNCHANGED <<attempts, cancelRequested, due>>
      /\ ToIdle(w)

\* fail_task: the second call of the handler of exceptions.
FailTask(w) ==
  LET a == worker[w].action
  IN  /\ worker[w].step = "reported"
      /\ IF Owns(w) /\ cancelRequested[a] THEN EndRun(w, "cancelled")
         ELSE IF Owns(w) /\ leaseValid[a] THEN EndRun(w, "failed")
         ELSE ToIdle(w) /\ UNCHANGED taskVars
      /\ UNCHANGED <<actionVars, factVars, reached, faults>>

\* The handler returned: finalize_cancellation, complete_task, or nothing when
\* the lease was lost; a refusal goes to the handler of exceptions.
Settle(w) ==
  LET a == worker[w].action
  IN  /\ worker[w].step = "returned"
      /\ IF worker[w].reason = "lost" THEN ToIdle(w) /\ UNCHANGED taskVars
         ELSE IF Owns(w) /\ cancelRequested[a] THEN EndRun(w, "cancelled")
         ELSE IF Owns(w) /\ leaseValid[a] THEN EndRun(w, "succeeded")
         ELSE Goto(w, "raised") /\ UNCHANGED taskVars
      /\ UNCHANGED <<actionVars, factVars, reached, faults>>

-----------------------------------------------------------------------------
(* Heartbeats, recovery, time and faults.                                  *)

\* The heartbeat stops; the handler of an action does not look at it.
HeartbeatStops(w) ==
  LET a == worker[w].action
      state == IF ~(Owns(w) /\ leaseValid[a]) THEN "lost"
               ELSE IF cancelRequested[a] THEN "cancel_requested" ELSE "none"
  IN  /\ worker[w].step \in HandlerSteps /\ worker[w].reason = "none"
      /\ state # "none"
      /\ worker' = [worker EXCEPT ![w].reason = state]
      /\ UNCHANGED <<taskVars, actionVars, factVars, reached, faults>>

\* recover_expired_tasks knows nothing of actions, receipts and schedules.
Recover(a) ==
  /\ status[a] = "running" /\ ~leaseValid[a]
  /\ status' = [status EXCEPT ![a] =
       IF cancelRequested[a] THEN "cancelled"
       ELSE IF attempts[a] >= 1 THEN "dead_lettered" ELSE "queued"]
  /\ holder' = [holder EXCEPT ![a] = NoWorker]
  /\ UNCHANGED <<attempts, cancelRequested, due, leaseValid>>
  /\ UNCHANGED <<actionVars, factVars, worker, reached, faults>>

\* The heartbeat thread lives as long as the handler runs.
Renewed(a) ==
  \E w \in Workers :
    worker[w].action = a /\ worker[w].step \in HandlerSteps /\ worker[w].reason = "none"

\* A lease that a living worker renews ends only when that worker stalls.
LeaseExpires(a) ==
  /\ leaseValid[a]
  /\ leaseValid' = [leaseValid EXCEPT ![a] = FALSE]
  /\ IF Renewed(a) THEN Fault ELSE UNCHANGED faults
  /\ UNCHANGED <<status, attempts, cancelRequested, due, holder>>
  /\ UNCHANGED <<actionVars, factVars, worker, reached>>

PacketExpires(a) ==
  /\ action[a] # "absent" /\ ~expired[a]
  /\ expired' = [expired EXCEPT ![a] = TRUE]
  /\ UNCHANGED <<taskVars, actionVars, withdrawn, pageVars, bound, scene, worker, reached, faults>>

\* An opt-out, a paused or resumed run, an edited campaign.
FactChanges(a) ==
  /\ a \in Changeable /\ action[a] # "absent"
  /\ withdrawn' = [withdrawn EXCEPT ![a] = ~@]
  /\ UNCHANGED <<taskVars, actionVars, expired, pageVars, bound, scene, worker, reached, faults>>

\* The employer publishes another version of the page.
FormChanges ==
  /\ form < MaxForm
  /\ form' = form + 1
  /\ UNCHANGED <<taskVars, actionVars, expired, withdrawn, seen, material, planning, bound, scene>>
  /\ UNCHANGED <<worker, reached, faults>>

\* Six hours pass over the latest preflight.
PreflightAges ==
  /\ Ages /\ seen.fresh
  /\ seen' = [seen EXCEPT !.fresh = FALSE]
  /\ UNCHANGED <<taskVars, actionVars, expired, withdrawn, form, material, planning, bound, scene>>
  /\ UNCHANGED <<worker, reached, faults>>

\* The resume is edited, or the draft is.
MaterialChanges ==
  /\ material < MaxMaterial
  /\ material' = material + 1
  /\ UNCHANGED <<taskVars, actionVars, expired, withdrawn, form, seen, planning, bound, scene>>
  /\ UNCHANGED <<worker, reached, faults>>

BecomeDue(a) ==
  /\ ~due[a]
  /\ due' = [due EXCEPT ![a] = TRUE]
  /\ UNCHANGED <<status, attempts, cancelRequested, holder, leaseValid>>
  /\ UNCHANGED <<actionVars, factVars, worker, reached, faults>>

Crash(w) ==
  /\ worker[w].step # "idle"
  /\ Fault
  /\ ToIdle(w)
  /\ UNCHANGED <<taskVars, actionVars, factVars, reached>>

\* The database fails under complete_side_effect, complete_task,
\* fail_external_action or fail_task: the exception takes the next handler.
DatabaseError(w) ==
  /\ Fault
  /\ \/ worker[w].step \in {"accepted", "returned"} /\ Goto(w, "raised")
     \/ worker[w].step = "raised" /\ Goto(w, "reported")
     \/ worker[w].step = "reported" /\ ToIdle(w)
  /\ UNCHANGED <<taskVars, actionVars, factVars, reached>>

-----------------------------------------------------------------------------

Api(a) ==
  \/ PrepareEmail(a) \/ PrepareApplication(a)
  \/ Approve(a) \/ Reject(a) \/ CancelWaiting(a) \/ RequestCancellation(a)

WorkerStep(w) ==
  \/ PreparationFails(w) \/ LoadMaterial(w) \/ FillForm(w) \/ CommitReceipt(w) \/ Defer(w) \/ RefuseBoundary(w)
  \/ Deliver(w) \/ CompleteSideEffect(w) \/ FailExternalAction(w) \/ FailTask(w)
  \/ Settle(w)

Surroundings(a) ==
  Recover(a) \/ LeaseExpires(a) \/ PacketExpires(a) \/ FactChanges(a) \/ BecomeDue(a)

\* What happens to the page, the material and the request that reads them.
PageStep ==
  \/ Preflight \/ FormChanges \/ PreflightAges \/ MaterialChanges
  \/ (\E answer \in Answers : ReadContext(answer)) \/ ReturnPrepared

Next ==
  \/ \E a \in Actions : Api(a) \/ Surroundings(a)
  \/ \E w \in Workers :
       \/ \E a \in Actions : Claim(w, a)
       \/ WorkerStep(w) \/ HeartbeatStops(w) \/ Crash(w) \/ DatabaseError(w)
  \/ PageStep

Spec == Init /\ [][Next]_vars

-----------------------------------------------------------------------------
(* Properties.                                                             *)

\* ExternalActions keeps the promise about effects: no action begins without
\* an approval that is in force at that moment, a target is reached at most
\* once although plans overlap, workers crash and answers get lost, what is
\* reported as not done never began, and an email that is reported as sent was
\* taken by the server (begin_side_effect, complete_side_effect,
\* fail_external_action).  Of an application "succeeded" says no more than that
\* it was tried: the page after the click is all the worker knows.
Authority(a) ==
  /\ action[a] \notin {"absent", "pending_approval", "rejected", "cancelled"}
  /\ ~cancelRequested[a] /\ ~expired[a] /\ ~withdrawn[a]
Reported(a) ==
  CASE action[a] = "succeeded" -> "done"
    [] action[a] = "ambiguous" -> "uncertain"
    [] action[a] \in {"failed", "rejected", "cancelled"} -> "not_done"
    [] OTHER -> "open"

E == INSTANCE EffectContract WITH
       target <- Target,
       acknowledged <- [a \in Actions |-> a \notin Applications],
       authority <- [a \in Actions |-> Authority(a)],
       begun <- [a \in Actions |-> receipt[a] # "none"],
       outcome <- [a \in Actions |-> Reported(a)]
ImplementsEffectContract == E!Contract

\* The three tables agree about an email or a submission at every moment,
\* whichever of the calls between them was lost: the schedule is what pacing
\* reads, the receipt what idempotency reads, the action what people read.
Agree(a) ==
  /\ receipt[a] = "none" <=>
       action[a] \in {"absent", "pending_approval", "queued", "failed", "rejected", "cancelled"}
  /\ receipt[a] # "none" => receipt[a] = action[a]
  /\ schedule[a] = "sending" <=> a \in Paced /\ receipt[a] = "executing"
  /\ schedule[a] = "accepted" <=> a \in Paced /\ receipt[a] = "succeeded"
  /\ schedule[a] = "ambiguous" <=> a \in Paced /\ receipt[a] = "ambiguous"
TablesAgree == \A a \in Actions : Agree(a)

\* While the outcome of an email is unknown no other email leaves
\* (_email_send_slots): two workers cannot be past the boundary together, and
\* a crash there keeps the others waiting.
OneUnresolvedSend ==
  Cardinality({a \in Paced : receipt[a] = "executing"}) <= 1

\* The application that reaches an employer is the one that was approved: the
\* page that is submitted asks what the approved one asked, and the resume in it
\* is the approved one, although page, resume, draft and preflights change while
\* packets wait and workers fill (get_application_execution_material,
\* submit_application_form).
SubmittedAsApproved ==
  [][\A w \in Workers :
       worker[w].step = "begun" /\ worker[w].action \in Applications /\ reached' # reached
       /\ worker'[w].step # "begun" =>
       LET context == bound[worker[w].action]
       IN  /\ Forms[worker[w].page].signature = Forms[context.form].signature
           /\ worker[w].material = context.material]_vars

\* What docs/decisions/ADR-0010-exact-external-actions.md says: "a failure
\* after the boundary becomes `ambiguous` and requires investigation", once
\* nobody works on the action any more (recover_expired_tasks).
BoundaryFailureIsAmbiguous ==
  \A a \in Actions :
    /\ status[a] \in {"failed", "dead_lettered"}
    /\ \A w \in Workers : worker[w].action # a
    => receipt[a] # "executing"
=============================================================================
