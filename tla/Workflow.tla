------------------------------- MODULE Workflow -------------------------------
(***************************************************************************)
(* One durable workflow (workflow_store.py, workflow_models.py): a plan of *)
(* steps with dependencies that a reconciler turns into tasks.  The tasks  *)
(* are those of TaskContract, which TaskLifecycle implements: between two  *)
(* passes of the reconciler they do whatever that contract allows.         *)
(*                                                                         *)
(* A pass is one transaction that locks the workflow and then its tasks.   *)
(***************************************************************************)
EXTENDS Naturals, FiniteSets

CONSTANTS
  NumSteps,       \* steps are known by their position
  Plans,          \* submitted depends_on columns: functions to sets of steps
  Capacities,     \* submitted max_parallel columns
  NeedsApproval,  \* steps whose risk asks for a person
  MaxAttempts     \* max_attempts of each step's task

Steps == 1 .. NumSteps

ASSUME WorkflowAssumption ==
  /\ NumSteps \in Nat \ {0}
  /\ Plans \subseteq [Steps -> SUBSET Steps]
  /\ Capacities \subseteq 1 .. 4
  /\ NeedsApproval \subseteq Steps
  /\ MaxAttempts \in [Steps -> Nat \ {0}]

VARIABLES
  (* agent_workflows *)
  workflow,     \* the column status; "absent" before the row exists
  stopReason,
  maxParallel,
  overdue,      \* clock_timestamp() >= deadline_at
  (* workflow_steps *)
  plan,         \* the column depends_on
  step,         \* the column status
  (* agent_tasks: the task of a step has its name *)
  status, attempts, cancelRequested,
  late,         \* completed_at > deadline_at
  passed,       \* output_matches(output, expect_output)
  (* policy.py *)
  forbidden     \* steps that WorkflowStepCreate no longer accepts

workflowVars == <<workflow, stopReason, maxParallel, plan, step>>
taskVars == <<status, attempts, cancelRequested>>
outputVars == <<late, passed>>
vars == <<workflowVars, overdue, taskVars, outputVars, forbidden>>

\* No kind of step is paced: WorkflowKind knows no emails.
T == INSTANCE TaskContract WITH Tasks <- Steps, Paced <- {}

TerminalSteps == {"succeeded", "failed", "skipped", "cancelled"}
Failures == {"failed", "skipped", "cancelled"}
Ended == {"succeeded", "failed", "cancelled", "timed_out"}

TypeOK ==
  /\ workflow \in {"absent", "running", "cancelling"} \cup Ended
  /\ stopReason \in {"none", "cancelled", "timed_out"}
  /\ overdue \in BOOLEAN
  /\ maxParallel \in 1 .. 4
  /\ plan \in [Steps -> SUBSET Steps]
  /\ step \in [Steps -> {"pending", "dispatched"} \cup TerminalSteps]
  /\ status \in [Steps -> T!Statuses]
  /\ attempts \in [Steps -> Nat]
  /\ cancelRequested \in [Steps -> BOOLEAN]
  /\ late \in [Steps -> BOOLEAN]
  /\ passed \in [Steps -> BOOLEAN]
  /\ forbidden \subseteq Steps

Init ==
  /\ T!ContractInit
  /\ workflow = "absent" /\ stopReason = "none" /\ overdue = FALSE
  /\ maxParallel = 1
  /\ plan = [s \in Steps |-> {}]
  /\ step = [s \in Steps |-> "pending"]
  /\ late = [s \in Steps |-> FALSE]
  /\ passed = [s \in Steps |-> FALSE]
  /\ forbidden = {}

-----------------------------------------------------------------------------
(* The API: validate_plan and create_workflow.                             *)

\* Mutant of Valid: cycles are accepted.
AnyPlan(p) == TRUE

\* The steps whose dependencies are all in R.
Resolvable(p, R) == {s \in Steps : p[s] \subseteq R}

\* validate_plan resolves, round after round, the steps whose dependencies are
\* resolved; a cycle leaves some of them behind.
Valid(p) ==
  LET Resolved[n \in Nat] == IF n = 0 THEN {} ELSE Resolvable(p, Resolved[n - 1])
  IN  Resolved[NumSteps] = Steps

CreateWorkflow(p, capacity) ==
  /\ workflow = "absent"
  /\ Valid(p)
  /\ workflow' = "running"
  /\ plan' = p /\ maxParallel' = capacity
  /\ UNCHANGED <<stopReason, step, overdue, taskVars, outputVars, forbidden>>

-----------------------------------------------------------------------------
(* One pass, _reconcile_one: first what the tasks did.                     *)

\* Only a result that passes the step's own check counts as success.
Observed(s) ==
  IF ~(step[s] = "dispatched" /\ status[s] \in T!Final) THEN step[s]
  ELSE IF status[s] = "succeeded" /\ passed[s] THEN "succeeded"
  ELSE IF status[s] = "cancelled" THEN "cancelled" ELSE "failed"

ObservedIn(S) == {s \in Steps : Observed(s) \in S}

\* Mutant of Overran: what counts is only whether something is left to do.
OverranNow == overdue /\ ObservedIn(TerminalSteps) # Steps

\* The deadline stops unfinished work and condemns work that ended late; a
\* pass that merely comes late condemns nothing.
Overran ==
  /\ overdue
  /\ \/ \E s \in Steps : status[s] \in T!Final /\ late[s]
     \/ ObservedIn(TerminalSteps) # Steps

StopAfter(reason) ==
  IF reason # "none" THEN reason ELSE IF Overran THEN "timed_out" ELSE "none"

-----------------------------------------------------------------------------
(* A stopped workflow: what has not begun never will.                      *)

\* Mutant of CancelledNow: work that waits for a person is left to wait.
CancelledUnlessPending(s) ==
  Observed(s) = "dispatched" /\ ~cancelRequested[s] /\ status[s] = "queued"

\* _cancel_task_record ends a waiting task at once and asks a running one.
CancelledNow(s) ==
  /\ Observed(s) = "dispatched" /\ ~cancelRequested[s]
  /\ status[s] \in {"pending_approval", "queued"}

\* Mutant of StoppedState: a step is cancelled with the request.
StoppedAtOnce(s) ==
  IF Observed(s) \in {"pending", "dispatched"} THEN "cancelled" ELSE Observed(s)

StoppedState(s) ==
  IF Observed(s) = "pending" \/ CancelledNow(s) THEN "cancelled" ELSE Observed(s)

-----------------------------------------------------------------------------
(* A workflow that goes on.                                                *)

\* Mutant of Doomed: the first failure takes every waiting step with it.
DoomedAll == IF ObservedIn(Failures) = {} THEN {} ELSE Steps

\* Waiting steps join the steps they depend on.
Spread(R) == R \cup {s \in ObservedIn({"pending"}) : plan[s] \cap R # {}}

\* Failures spread along dependencies to a fixed point, whatever the order in
\* which the steps were submitted.
Doomed ==
  LET Reached[n \in Nat] ==
        IF n = 0 THEN ObservedIn(Failures) ELSE Spread(Reached[n - 1])
  IN  Reached[NumSteps]

\* Mutant of Ready: a task that succeeded is enough, its output is not checked.
ReadyUnchecked(s) ==
  Observed(s) = "pending" /\ \A d \in plan[s] : status[d] = "succeeded"

Ready(s) == Observed(s) = "pending" /\ plan[s] \subseteq ObservedIn({"succeeded"})

\* Mutant of InReach: every pass has the whole capacity.
InReachAfresh(s) ==
  Cardinality({r \in Steps : Ready(r) /\ r \notin forbidden /\ r < s}) < maxParallel

\* The loop over the steps comes to s before the capacity is used up; a step
\* that is refused uses none.
InReach(s) ==
  Cardinality(ObservedIn({"dispatched"}))
    + Cardinality({r \in Steps : Ready(r) /\ r \notin forbidden /\ r < s}) < maxParallel

Dispatched(s) == Ready(s) /\ InReach(s) /\ s \notin forbidden
Refused(s) == Ready(s) /\ InReach(s) /\ s \in forbidden

AdvancedState(s) ==
  IF Observed(s) = "pending" /\ s \in Doomed THEN "skipped"
  ELSE IF Dispatched(s) THEN "dispatched"
  ELSE IF Refused(s) THEN "failed"
  ELSE Observed(s)

-----------------------------------------------------------------------------
(* The pass as one transaction.                                            *)

Stop ==
  /\ step' = [s \in Steps |-> StoppedState(s)]
  /\ status' = [s \in Steps |-> IF CancelledNow(s) THEN "cancelled" ELSE status[s]]
  /\ cancelRequested' =
       [s \in Steps |-> cancelRequested[s] \/ Observed(s) = "dispatched"]
  /\ late' = [s \in Steps |-> IF CancelledNow(s) THEN overdue ELSE late[s]]

Advance ==
  /\ step' = [s \in Steps |-> AdvancedState(s)]
  /\ status' = [s \in Steps |->
       IF ~Dispatched(s) THEN status[s]
       ELSE IF s \in NeedsApproval THEN "pending_approval" ELSE "queued"]
  /\ UNCHANGED <<cancelRequested, late>>

Verdict(stop) ==
  IF \E s \in Steps : step'[s] \notin TerminalSteps
    THEN IF stop = "none" THEN "running" ELSE "cancelling"
    ELSE IF stop # "none" THEN stop
    ELSE IF \A s \in Steps : step'[s] = "succeeded" THEN "succeeded" ELSE "failed"

Pass(reason) ==
  /\ workflow \in {"running", "cancelling"}
  /\ stopReason' = StopAfter(reason)
  /\ IF StopAfter(reason) # "none" THEN Stop ELSE Advance
  /\ workflow' = Verdict(StopAfter(reason))
  /\ UNCHANGED <<maxParallel, plan, overdue, attempts, passed, forbidden>>

\* reconcile_workflows, called by the dispatcher's loop.
ReconcileWorkflow == Pass(stopReason)

\* cancel_workflow: the first reason to stop is the one that stays.
CancelWorkflow == Pass(IF stopReason = "none" THEN "cancelled" ELSE stopReason)

-----------------------------------------------------------------------------
(* What happens around the reconciler.                                     *)

TaskRuns(s) ==
  /\ T!Approve(s) \/ T!Start(s) \/ T!RequestCancel(s)
  /\ UNCHANGED <<workflowVars, overdue, outputVars, forbidden>>

TaskEnds(s) ==
  /\ T!Reject(s) \/ T!CancelWaiting(s) \/ T!EndRuns({s})
  /\ late' = [late EXCEPT ![s] = overdue]
  /\ \E matches \in BOOLEAN : passed' = [passed EXCEPT ![s] = matches]
  /\ UNCHANGED <<workflowVars, overdue, forbidden>>

DeadlinePasses ==
  /\ workflow # "absent" /\ ~overdue
  /\ overdue' = TRUE
  /\ UNCHANGED <<workflowVars, taskVars, outputVars, forbidden>>

\* A release narrows the policy while the workflow is under way.
PolicyChanges(s) ==
  /\ s \notin forbidden
  /\ forbidden' = forbidden \cup {s}
  /\ UNCHANGED <<workflowVars, overdue, taskVars, outputVars>>

Next ==
  \/ \E p \in Plans, capacity \in Capacities : CreateWorkflow(p, capacity)
  \/ ReconcileWorkflow \/ CancelWorkflow
  \/ \E s \in Steps : TaskRuns(s) \/ TaskEnds(s) \/ PolicyChanges(s)
  \/ DeadlinePasses

Spec == Init /\ [][Next]_vars

\* The dispatcher polls, clocks advance, and tasks keep their contract: what
\* is queued is started and what runs ends.
Fairness ==
  /\ WF_vars(ReconcileWorkflow)
  /\ WF_vars(DeadlinePasses)
  /\ \A s \in Steps :
       /\ WF_vars(T!Start(s) /\ TaskRuns(s))
       /\ WF_vars(T!EndRuns({s}) /\ TaskEnds(s))

FairSpec == Spec /\ Fairness

-----------------------------------------------------------------------------
(* Properties.                                                             *)

Active(s) == status[s] \notin T!Final \cup {"absent"}

\* A task exists only after every task its step depends on succeeded and
\* passed the step's check, in whatever order the steps were submitted and
\* however task ends, passes and policy changes interleave (_reconcile_one).
DependenciesFirst ==
  \A s \in Steps : status[s] # "absent" =>
    \A d \in plan[s] : status[d] = "succeeded" /\ passed[d]

\* Never more than max_parallel tasks of a workflow are open, cancellations
\* that a worker has not honoured yet included.
WithinCapacity == Cardinality({s \in Steps : Active(s)}) <= maxParallel

\* A workflow that is reported as over left nothing behind that still waits
\* for a person or runs: the cancellation of a step is not the end of its task.
FinishedIsQuiet == workflow \in Ended => \A s \in Steps : ~Active(s)

\* What is reported is right.  Success says that every task did what was asked
\* of it, in time; failure, that some step did not and nobody stopped the rest;
\* a skipped step, that a step it depends on failed, was cancelled or was
\* skipped itself: a failure stops its own branch and no other.
VerdictIsRight ==
  /\ workflow = "succeeded" =>
       \A s \in Steps : status[s] = "succeeded" /\ passed[s] /\ ~late[s]
  /\ workflow = "failed" =>
       /\ \E s \in Steps : step[s] \in Failures
       /\ \A s \in Steps : step[s] \notin {"succeeded", "skipped"} =>
            \/ status[s] \in T!Final
            \/ s \in forbidden
  /\ \A s \in Steps : step[s] = "skipped" => \E d \in plan[s] : step[d] \in Failures

\* A plan that was accepted is never stuck: some task is open, or the next
\* pass has a step to settle or to dispatch (validate_plan).
NeverStuck ==
  workflow = "running" =>
    \E s \in Steps :
      \/ step[s] = "dispatched"
      \/ step[s] = "pending" /\ \A d \in plan[s] : step[d] \in TerminalSteps

\* A workflow ends, whatever its tasks, its people and its policy do: at the
\* latest its deadline ends what waits and the workers end what runs.
WorkflowSettles == workflow = "running" ~> workflow \in Ended
=============================================================================
