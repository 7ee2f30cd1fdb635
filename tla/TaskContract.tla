---------------------------- MODULE TaskContract ----------------------------
(***************************************************************************)
(* What one row of agent_tasks promises to the people and the services     *)
(* that submit work: the life of a task seen from outside, without leases, *)
(* signals, workers or a dispatcher.  TaskLifecycle implements it.         *)
(***************************************************************************)
EXTENDS Naturals

CONSTANTS
  Tasks,         \* identities of the tasks
  Paced,         \* those whose start may be put off: approved emails
  MaxAttempts    \* MaxAttempts[t]: the column max_attempts

VARIABLES
  status,           \* the column status; "absent" before the row exists
  attempts,         \* the column attempt_count
  cancelRequested   \* cancellation_requested_at IS NOT NULL

contractVars == <<status, attempts, cancelRequested>>

Final == {"succeeded", "failed", "rejected", "cancelled", "dead_lettered"}

Statuses == {"absent", "pending_approval", "queued", "running"} \cup Final

ContractInit ==
  /\ status = [t \in Tasks |-> "absent"]
  /\ attempts = [t \in Tasks |-> 0]
  /\ cancelRequested = [t \in Tasks |-> FALSE]

Move(t, from, to) ==
  /\ status[t] = from
  /\ status' = [status EXCEPT ![t] = to]

\* Low-risk work is queued at once, high-risk work waits for a person.
Submit(t) ==
  /\ Move(t, "absent", "queued") \/ Move(t, "absent", "pending_approval")
  /\ UNCHANGED <<attempts, cancelRequested>>

Approve(t) ==
  /\ Move(t, "pending_approval", "queued")
  /\ UNCHANGED <<attempts, cancelRequested>>

Reject(t) ==
  /\ Move(t, "pending_approval", "rejected")
  /\ UNCHANGED <<attempts, cancelRequested>>

\* Nobody is working on the task: cancellation takes effect at once.
CancelWaiting(t) ==
  /\ Move(t, "pending_approval", "cancelled") \/ Move(t, "queued", "cancelled")
  /\ cancelRequested' = [cancelRequested EXCEPT ![t] = TRUE]
  /\ UNCHANGED attempts

RequestCancel(t) ==
  /\ status[t] = "running"
  /\ cancelRequested' = [cancelRequested EXCEPT ![t] = TRUE]
  /\ UNCHANGED <<status, attempts>>

\* An attempt starts only within the budget.
Start(t) ==
  /\ attempts[t] < MaxAttempts[t]
  /\ Move(t, "queued", "running")
  /\ attempts' = [attempts EXCEPT ![t] = @ + 1]
  /\ UNCHANGED cancelRequested

\* Where a run may end: cancelled when somebody asked for it; otherwise with
\* a result, back in the queue, or given up once the budget is spent.
Outcomes(t) ==
  IF cancelRequested[t] THEN {"cancelled"}
  ELSE {"succeeded", "failed"} \cup
       (IF attempts[t] < MaxAttempts[t] THEN {"queued"} ELSE {"dead_lettered"})

\* Runs end, one by its worker or several in one sweep of the dispatcher.
EndRuns(S) ==
  /\ S # {}
  /\ \A t \in S : status[t] = "running"
  /\ \E outcome \in [S -> Statuses] :
       /\ \A t \in S : outcome[t] \in Outcomes(t)
       /\ status' = [t \in Tasks |-> IF t \in S THEN outcome[t] ELSE status[t]]
  /\ UNCHANGED <<attempts, cancelRequested>>

\* A paced task that has begun too early waits again and is given its attempt back.
PutOff(t) ==
  /\ t \in Paced /\ ~cancelRequested[t]
  /\ Move(t, "running", "queued")
  /\ attempts' = [attempts EXCEPT ![t] = IF @ > 0 THEN @ - 1 ELSE 0]
  /\ UNCHANGED cancelRequested

ContractNext ==
  \/ \E S \in SUBSET Tasks : EndRuns(S)
  \/ \E t \in Tasks :
       \/ Submit(t) \/ Approve(t) \/ Reject(t)
       \/ CancelWaiting(t) \/ RequestCancel(t)
       \/ Start(t) \/ PutOff(t)

ContractSafety == ContractInit /\ [][ContractNext]_contractVars

\* Queued work is started and a run ends; nobody is obliged to approve.
ContractFairness ==
  \A t \in Tasks :
    /\ WF_contractVars(Start(t))
    /\ WF_contractVars(\E S \in SUBSET Tasks : t \in S /\ EndRuns(S))

Contract == ContractSafety /\ ContractFairness
=============================================================================
