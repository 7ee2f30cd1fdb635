---------------------------- MODULE InferenceTasks ----------------------------
(***************************************************************************)
(* Tasks that ask a model for something and store what it answered: goal   *)
(* proposals (planning.py, planning_store.py), introductions to creators   *)
(* (creator_drafting.py, creator_draft_store.py), curated replies          *)
(* (creator_reply_drafting.py, creator_reply_draft_store.py) and           *)
(* application drafts (job_worker.py), with the router of the hosted       *)
(* models (inference.py) and the ledger of calls (career_store.py).        *)
(*                                                                         *)
(* One action is one transaction, or the sending or the end of one call of *)
(* a model; the local work between two of them belongs to the first.       *)
(* Everything about leases that TaskLifecycle models in detail is reduced  *)
(* here to a number, the flag of its validity, and a recovery.  What a     *)
(* result says is abstracted to whether it was accepted.                   *)
(***************************************************************************)
EXTENDS Integers, Sequences, FiniteSets, SequencesExt

CONSTANTS
  Tasks,       \* rows of agent_tasks
  Parent,      \* Parent[t]: the reply draft a recovery t would repeat (retry_of_id)
  Workers,     \* job worker processes
  Catalog,     \* the models the provider lists, as records (Listing)
  MaxModels,   \* openrouter_max_models
  DailyLimit,  \* OpenRouterPlan.daily_limit
  MaxLeases,   \* capability_max_attempts
  LastDay,     \* bound: midnights that pass
  MaxChanges,  \* bound: cancellations, edits, crashes and leases that run out
  Scenarios    \* bound: the kinds of the tasks, the settings, how much happens

Kinds == {"plan", "demo", "creator", "local_creator", "reply", "recovery", "application", "none"}
Days == 0..LastDay
Benchmarks == {"intelligence", "coding", "agentic"}
Abilities == {"structured_outputs", "response_format", "tools", "reasoning"}
Unlisted == 99

\* What rank_free_models reads of a model; a name is its place in the order of
\* names, listed its index in the priority list (none: its length), a benchmark
\* outside 0..100 is one that is missing or cannot be read.
Listing == [name : Nat, suffix : BOOLEAN, text : BOOLEAN, withheld : BOOLEAN,
            prices : SUBSET {"zero", "positive", "unreadable"}, routable : BOOLEAN,
            listed : Nat \cup {Unlisted}, supports : SUBSET Abilities, context : Nat,
            index : [Benchmarks -> Int]]

\* is_zero_cost_text_model; withheld: "content-safety", "moderation", "embedding".
Free(m) == m.suffix /\ m.text /\ ~m.withheld /\ m.prices \subseteq {"zero"}

\* _finite_benchmark, model_power_score: in tenths; what is missing counts
\* nothing as long as something was measured.
Measured(m) == \E b \in Benchmarks : m.index[b] \in 0..100
Power(m) ==
  LET score == [b \in Benchmarks |-> IF m.index[b] \in 0..100 THEN m.index[b] ELSE 0]
  IN  5 * score["intelligence"] + 3 * score["coding"] + 2 * score["agentic"]

\* In halves.
Capability(m) ==
  LET worth == [a \in Abilities |->
        CASE a = "structured_outputs" -> 4 [] a = "reasoning" -> 1 [] OTHER -> 2]
  IN  FoldFunctionOnSet(+, 0, worth, m.supports)

RankOf(m) ==
  <<IF m.listed = Unlisted THEN 1 ELSE 0, m.listed, IF Measured(m) THEN 0 ELSE 1,
    -Power(m), -Capability(m), -m.context, m.name>>

Precedes(m, n) ==
  \E i \in 1..7 : /\ RankOf(m)[i] < RankOf(n)[i]
                  /\ \A j \in 1..(i - 1) : RankOf(m)[j] = RankOf(n)[j]

\* rank_free_models; routable: available_models holds it, or none were asked for.
RankFree(models) ==
  LET eligible == {m \in models : Free(m) /\ m.routable}
      place(m) == Cardinality({n \in eligible : Precedes(n, m)})
  IN  [i \in 1..Min({MaxModels, Cardinality(eligible)}) |->
         (CHOOSE m \in eligible : place(m) = i - 1).name]

Ranked == RankFree(Catalog)

ASSUME InferenceAssumption ==
  /\ IsFiniteSet(Catalog) /\ \A m \in Catalog : m \in Listing
  /\ MaxModels \in Nat
  /\ \A m, n \in Catalog : m.name = n.name => m = n
  /\ Parent \in [Tasks -> Tasks]
  /\ DailyLimit \in Nat /\ MaxLeases \in Nat \ {0} /\ LastDay \in Nat /\ MaxChanges \in Nat
  /\ Scenarios \subseteq [kind: [Tasks -> Kinds], hosted: BOOLEAN, fallback: BOOLEAN,
                          changes: 0..MaxChanges, days: Days, workers: SUBSET Workers]

VARIABLES
  scenario,
  task,     \* agent_tasks: status, lease (its number), valid (not expired), cancel
  result,   \* the row the task fills: goal_plans, creator_email_drafts, ...
  fresh,    \* its context is what it was when the row was created
  hosted,   \* inference_invocations of the hosted provider, by day of created_at
  calls,    \* calls[t][n]: requests sent for task t under its n-th lease
  local,    \* local[t]: inference_invocations of the local provider for t
  recover,  \* a local invocation of t failed with a recoverable error
  worker,   \* the processes
  cooling,  \* cooling[w]: models the client of w keeps at the end of its list
  today,
  changes

rows == <<task, result, fresh, recover>>
ledger == <<hosted, calls, local>>
vars == <<scenario, rows, ledger, worker, cooling, today, changes>>

Models == Range(Ranked)
Kind(t) == scenario.kind[t]
Final == {"succeeded", "failed", "cancelled", "dead_lettered"}
Ready == {"ready", "unsupported", "used"}
Steps == {"idle", "start", "route", "ask", "reserve", "send", "answer", "local", "assess",
          "save", "done", "failing", "conflict", "raised", "interrupted"}
Leases == 0..MaxLeases
Idle == [step |-> "idle", task |-> "none", lease |-> 0, route |-> <<>>, tries |-> 0,
         day |-> 0, onLocal |-> FALSE, repair |-> FALSE, told |-> "none"]

TypeOK ==
  /\ scenario \in Scenarios
  /\ \A t \in Tasks : task[t] \in
       [status: {"absent", "queued", "running"} \cup Final, lease: Leases,
        valid: BOOLEAN, cancel: BOOLEAN]
  /\ result \in [Tasks -> {"none", "queued", "failed", "refused"} \cup Ready]
  /\ fresh \in [Tasks -> BOOLEAN] /\ recover \in [Tasks -> BOOLEAN]
  /\ hosted \in [Days -> Nat]
  /\ calls \in [Tasks -> [Leases -> Nat]] /\ local \in [Tasks -> Nat]
  /\ cooling \in [Workers -> SUBSET Models]
  /\ \A w \in Workers : /\ worker[w].step \in Steps
                        /\ worker[w].lease \in Leases
                        /\ Range(worker[w].route) \subseteq Models
                        /\ worker[w].told \in {"none", "cancel", "lost"}
  /\ today \in Days /\ changes \in 0..MaxChanges

\* A plan and a recovery are created by an action; the other rows are there.
Init ==
  /\ scenario \in Scenarios
  /\ task = [t \in Tasks |->
       [status |-> IF Kind(t) \in {"plan", "demo", "recovery", "none"}
                     THEN "absent" ELSE "queued",
        lease |-> 0, valid |-> FALSE, cancel |-> FALSE]]
  /\ result = [t \in Tasks |-> IF task[t].status = "absent" THEN "none" ELSE "queued"]
  /\ fresh = [t \in Tasks |-> TRUE]
  /\ recover = [t \in Tasks |-> FALSE]
  /\ hosted = [d \in Days |-> 0]
  /\ calls = [t \in Tasks |-> [n \in Leases |-> 0]]
  /\ local = [t \in Tasks |-> 0]
  /\ worker = [w \in Workers |-> Idle]
  /\ cooling = [w \in Workers |-> {}]
  /\ today = 0
  /\ changes = 0

Change == changes < scenario.changes /\ changes' = changes + 1
Goto(w, step) == worker' = [worker EXCEPT ![w].step = step]

-----------------------------------------------------------------------------
(* The task and its lease.                                                 *)

\* transition_to_running
Claim(w, t) ==
  /\ w \in scenario.workers
  /\ worker[w].step = "idle" /\ task[t].status = "queued"
  /\ task' = [task EXCEPT ![t] = [@ EXCEPT !.status = "running", !.valid = TRUE,
                                           !.lease = task[t].lease + 1]]
  /\ worker' = [worker EXCEPT ![w] = [Idle EXCEPT !.step = "start", !.task = t,
                                                  !.lease = task[t].lease + 1]]
  /\ UNCHANGED <<scenario, result, fresh, recover, ledger, cooling, today, changes>>

Holds(w) ==
  LET t == worker[w].task
  IN  task[t].status = "running" /\ task[t].lease = worker[w].lease

\* _owned_task, _owned_reply_task: under the row lock, on the clock after it.
Owned(w) ==
  LET t == worker[w].task
  IN  Holds(w) /\ task[t].valid /\ ~task[t].cancel

\* LeaseHeartbeat: the interrupt of the handler is set, with its reason.
Told(w) ==
  LET t == worker[w].task
  IN  /\ worker[w].step # "idle" /\ worker[w].told = "none"
      /\ ~Owned(w)
      /\ worker' = [worker EXCEPT ![w].told =
           IF Holds(w) /\ task[t].valid THEN "cancel" ELSE "lost"]
      /\ UNCHANGED <<scenario, rows, ledger, cooling, today, changes>>

Interrupted(w) == worker[w].told # "none"

Ends(w, status) ==
  /\ task' = [task EXCEPT ![worker[w].task] = [@ EXCEPT !.status = status, !.valid = FALSE]]
  /\ worker' = [worker EXCEPT ![w] = Idle]
  /\ UNCHANGED <<scenario, result, fresh, recover, ledger, cooling, today, changes>>

Dropped(w) ==
  /\ worker' = [worker EXCEPT ![w] = Idle]
  /\ UNCHANGED <<scenario, rows, ledger, cooling, today, changes>>

\* The loop of run() after the handler returned: complete_task, or
\* finalize_cancellation when that is what the heartbeat was told.
Done(w) ==
  LET t == worker[w].task
  IN  /\ worker[w].step = "done"
      /\ \/ /\ worker[w].told = "none" /\ Owned(w)
            /\ Ends(w, "succeeded")
         \/ /\ worker[w].told # "lost" /\ Holds(w) /\ task[t].cancel
            /\ Ends(w, "cancelled")
         \/ /\ worker[w].told = "lost" \/ ~Holds(w) \/ ~(task[t].valid \/ task[t].cancel)
            /\ Dropped(w)

\* fail_task: final at once, or the cancellation that was asked for.
Raised(w) ==
  LET t == worker[w].task
  IN  /\ worker[w].step = "raised"
      /\ \/ Owned(w) /\ Ends(w, "failed")
         \/ Holds(w) /\ task[t].cancel /\ Ends(w, "cancelled")
         \/ ~Owned(w) /\ ~(Holds(w) /\ task[t].cancel) /\ Dropped(w)

\* except TaskInterruptedError
Stopped(w) ==
  LET t == worker[w].task
  IN  /\ worker[w].step = "interrupted"
      /\ \/ worker[w].told = "cancel" /\ Holds(w) /\ task[t].cancel /\ Ends(w, "cancelled")
         \/ ~(worker[w].told = "cancel" /\ Holds(w) /\ task[t].cancel) /\ Dropped(w)

\* recover_expired_tasks of the dispatcher.
Recover(t) ==
  /\ task[t].status = "running" /\ ~task[t].valid
  /\ task' = [task EXCEPT ![t].status =
       IF task[t].cancel THEN "cancelled"
       ELSE IF task[t].lease >= MaxLeases THEN "dead_lettered" ELSE "queued"]
  /\ UNCHANGED <<scenario, result, fresh, recover, ledger, worker, cooling, today, changes>>

-----------------------------------------------------------------------------
(* The checks of a handler.                                                *)

Checked(t) == Kind(t) # "application"
ContextChecked(t) == Kind(t) \in {"creator", "local_creator", "reply", "recovery"}

\* _check_interrupted, then get_plan_for_execution, _execution_row or
\* _reply_execution_row.  The step a handler goes to when a check fails.
Refusal(w) ==
  LET t == worker[w].task
  IN  IF Interrupted(w) THEN "interrupted"
      ELSE IF ~Owned(w) THEN "raised"
      ELSE "conflict"

Passes(w) ==
  LET t == worker[w].task
  IN  Checked(t) => ~Interrupted(w) /\ Owned(w) /\ (ContextChecked(t) => fresh[t])

Refused(w) ==
  /\ ~Passes(w)
  /\ Goto(w, Refusal(w))
  /\ UNCHANGED <<scenario, rows, ledger, cooling, today, changes>>

\* Where a handler asks first.
FirstRoute(t) ==
  IF Kind(t) = "demo" THEN "save"
  ELSE IF scenario.hosted /\ Kind(t) \in {"plan", "creator", "application"} THEN "route"
  ELSE "local"

\* The hosted route is exhausted or closed.
Fallback(t) ==
  IF scenario.fallback THEN "local"
  ELSE IF Checked(t) THEN "failing" ELSE "raised"

\* Mutant of AfterRead: the result that is there is not looked at.
AfterReadBlindly(t) ==
  IF Checked(t) /\ result[t] \in {"failed", "refused"} THEN "raised" ELSE FirstRoute(t)

\* "A crash after proposal persistence cannot spend a second model call."
AfterRead(t) ==
  IF ~Checked(t) \/ result[t] = "queued" THEN FirstRoute(t)
  ELSE IF result[t] \in Ready THEN "done"
  ELSE "raised"

Starts(w) ==
  /\ Goto(w, AfterRead(worker[w].task))
  /\ UNCHANGED <<scenario, rows, ledger, cooling, today, changes>>

\* The first read of execute_planning_task, of execute_creator_draft_task and of
\* execute_creator_reply_draft_task.
StartChecked(w, kinds) ==
  /\ worker[w].step = "start" /\ Kind(worker[w].task) \in kinds
  /\ \/ Passes(w) /\ Starts(w)
     \/ Refused(w)

StartPlan(w) == StartChecked(w, {"plan", "demo"})
StartDraft(w) == StartChecked(w, {"creator", "local_creator"})
StartReply(w) == StartChecked(w, {"reply", "recovery"})

\* get_draft_context reads without a check of the lease.
StartApplication(w) ==
  /\ worker[w].step = "start" /\ Kind(worker[w].task) = "application"
  /\ \/ ~Interrupted(w) /\ Starts(w)
     \/ /\ Interrupted(w)
        /\ Goto(w, "interrupted")
        /\ UNCHANGED <<scenario, rows, ledger, cooling, today, changes>>

-----------------------------------------------------------------------------
(* The hosted models.                                                      *)

\* Models that still cool down come last, each part in its order.
Arranged(still) ==
  LET place(i) == Cardinality({j \in DOMAIN Ranked :
        \/ Ranked[j] \notin still /\ Ranked[i] \in still
        \/ (Ranked[j] \in still <=> Ranked[i] \in still) /\ j <= i})
  IN  [k \in DOMAIN Ranked |-> Ranked[CHOOSE i \in DOMAIN Ranked : place(i) = k]]

\* OpenRouterFreeClient.plan: the catalog may be out of reach.
Route(w) ==
  /\ worker[w].step = "route"
  /\ \/ /\ Ranked # <<>>
        /\ \E still \in SUBSET cooling[w] :
             /\ cooling' = [cooling EXCEPT ![w] = still]
             /\ worker' = [worker EXCEPT ![w].step = "ask", ![w].route = Arranged(still)]
     \/ Goto(w, Fallback(worker[w].task)) /\ UNCHANGED cooling
  /\ UNCHANGED <<scenario, rows, ledger, today, changes>>

\* The check before an attempt, and the begin of start_inference_invocation:
\* now() is fixed here, before the advisory lock is granted.
Ask(w) ==
  /\ worker[w].step = "ask"
  /\ \/ /\ Passes(w)
        /\ worker' = [worker EXCEPT ![w].step = "reserve", ![w].day = today]
        /\ UNCHANGED <<scenario, rows, ledger, cooling, today, changes>>
     \/ Refused(w)

\* The rows with created_at >= date_trunc('day', now()), numbered within their day.
RowsSince(d) == UNION {{e} \X (1..hosted[e]) : e \in d..LastDay}

\* Mutant of Counted: the day is that of the count, not of the row.
CountedToday(w) == Cardinality(RowsSince(today))

Counted(w) == Cardinality(RowsSince(worker[w].day))

\* pg_advisory_xact_lock is granted; count, insert and commit under it.
Reserve(w) ==
  /\ worker[w].step = "reserve"
  /\ \/ /\ Counted(w) < DailyLimit
        /\ hosted' = [hosted EXCEPT ![worker[w].day] = @ + 1]
        /\ Goto(w, "send")
     \/ /\ Counted(w) >= DailyLimit
        /\ Goto(w, IF worker[w].repair THEN "save" ELSE Fallback(worker[w].task))
        /\ UNCHANGED hosted
  /\ UNCHANGED <<scenario, rows, calls, local, cooling, today, changes>>

\* Plans and first application drafts send at once; creator drafts and replies
\* check again first, a repair looks at the interrupt.
ChecksAgain(w) == ContextChecked(worker[w].task) \/ worker[w].repair

MaySend(w) ==
  ChecksAgain(w) => Passes(w) /\ ~Interrupted(w)

Send(w) ==
  LET t == worker[w].task
  IN  /\ worker[w].step = "send"
      /\ \/ /\ MaySend(w)
            /\ calls' = [calls EXCEPT ![t][worker[w].lease] = @ + 1]
            /\ Goto(w, "answer")
         \/ /\ ~MaySend(w)
            /\ Goto(w, Refusal(w))
            /\ UNCHANGED calls
      /\ UNCHANGED <<scenario, rows, hosted, local, cooling, today, changes>>

\* remaining[remaining.index(selected_route) + 1:]
After(s, i) == SubSeq(s, i + 1, Len(s))

\* The checks after a reply was parsed and before it is saved are those of Save.
AfterAnswer(w) ==
  IF Checked(worker[w].task) \/ worker[w].repair THEN "save" ELSE "assess"

Answered(w, onLocal) ==
  /\ worker[w].step = "answer" /\ worker[w].onLocal = onLocal
  /\ UNCHANGED <<scenario, task, result, fresh, ledger, today, changes>>

\* complete: the i-th model answers, those before it were not available.
HostedAccepted(w) ==
  LET s == worker[w].route
  IN  /\ Answered(w, FALSE)
      /\ \E i \in DOMAIN s :
           /\ cooling' = [cooling EXCEPT ![w] =
                (@ \cup {s[j] : j \in 1..(i - 1)}) \ {s[i]}]
           /\ worker' = [worker EXCEPT ![w].step = AfterAnswer(w), ![w].route = <<s[i]>>]
      /\ UNCHANGED recover

\* The answer of the i-th model is empty, or the parser refuses it: reject_model,
\* and the next attempt starts behind it.
ModelRefused(w) ==
  LET s == worker[w].route
  IN  /\ Answered(w, FALSE) /\ ~worker[w].repair
      /\ \E i \in DOMAIN s : \E bad \in {{s[i]}, {s[j] : j \in 1..i}} :
           /\ cooling' = [cooling EXCEPT ![w] = @ \cup bad]
           /\ worker' = [worker EXCEPT
                ![w].route = After(s, i),
                ![w].step = IF After(s, i) = <<>> THEN Fallback(worker[w].task) ELSE "ask"]
      /\ UNCHANGED recover

\* An error that names no model ends the route; a repair that fails in any way
\* leaves the draft as it was.
RouteFails(w) ==
  /\ Answered(w, FALSE)
  /\ Goto(w, IF worker[w].repair THEN "save" ELSE Fallback(worker[w].task))
  /\ UNCHANGED <<recover, cooling>>

-----------------------------------------------------------------------------
(* The local model.                                                        *)

\* Mutant of MayAskLocally: a run does not look for the call of an earlier one.
MayAskAgain(t) == TRUE

\* start_reply_inference_invocation: one call per attempt, in all its leases.
MayAskLocally(t) == Kind(t) \in {"reply", "recovery"} => local[t] = 0

\* The check and start_inference_invocation for the local provider.
Local(w) ==
  LET t == worker[w].task
  IN  /\ worker[w].step = "local"
      /\ \/ /\ Passes(w) /\ MayAskLocally(t)
            /\ local' = [local EXCEPT ![t] = @ + 1]
            /\ worker' = [worker EXCEPT ![w].step = "send", ![w].onLocal = TRUE,
                                        ![w].tries = @ + 1]
            /\ UNCHANGED <<scenario, rows, hosted, calls, cooling, today, changes>>
         \/ /\ Passes(w) /\ ~MayAskLocally(t)
            /\ Goto(w, "failing")
            /\ UNCHANGED <<scenario, rows, ledger, cooling, today, changes>>
         \/ Refused(w)

\* One repair of a copy that broke the contract, for introductions only.
MayRepairCopy(w) == Kind(worker[w].task) \in {"creator", "local_creator"} /\ worker[w].tries = 1

LocalAccepted(w) ==
  /\ Answered(w, TRUE)
  /\ Goto(w, AfterAnswer(w))
  /\ UNCHANGED <<recover, cooling>>

GivesUp(w) ==
  IF worker[w].repair THEN "save"
  ELSE IF Checked(worker[w].task) THEN "failing" ELSE "raised"

LocalRefused(w) ==
  /\ Answered(w, TRUE)
  /\ Goto(w, IF MayRepairCopy(w) THEN "local" ELSE GivesUp(w))
  /\ UNCHANGED <<recover, cooling>>

\* local_draft_completion, local_reply_completion, local_plan_completion: the
\* endpoint is not reached or its answer is not complete.
EndpointFails(w) ==
  /\ Answered(w, TRUE)
  /\ Goto(w, GivesUp(w))
  /\ recover' = [recover EXCEPT ![worker[w].task] = TRUE]
  /\ UNCHANGED cooling

\* assess_application_quality: findings a rewrite can fix are worth one call.
Assess(w) ==
  /\ worker[w].step = "assess"
  /\ \/ /\ Interrupted(w)
        /\ Goto(w, "interrupted")
     \/ /\ ~Interrupted(w)
        /\ \/ Goto(w, "save")
           \/ worker' = [worker EXCEPT ![w].step = IF worker[w].onLocal THEN "local" ELSE "ask",
                                       ![w].repair = TRUE]
  /\ UNCHANGED <<scenario, rows, ledger, cooling, today, changes>>

-----------------------------------------------------------------------------
(* Results.                                                                *)

MaySave(w) == Passes(w) /\ result[worker[w].task] = "queued"

Saved(w, as) ==
  /\ result' = [result EXCEPT ![worker[w].task] = as]
  /\ Goto(w, "done")
  /\ UNCHANGED <<scenario, task, fresh, recover, ledger, cooling, today, changes>>

Saving(w, kinds) == worker[w].step = "save" /\ Kind(worker[w].task) \in kinds

\* The step a handler goes to is the one of a failed check; a row that waits no
\* more is a conflict, which execute_planning_task does not catch.
NotSaved(w, step) ==
  /\ ~MaySave(w)
  /\ Goto(w, step)
  /\ UNCHANGED <<scenario, rows, ledger, cooling, today, changes>>

SaveProposal(w) ==
  /\ Saving(w, {"plan", "demo"})
  /\ \/ /\ MaySave(w)
        /\ \E as \in {"ready"} \cup
             (IF Kind(worker[w].task) = "plan" THEN {"unsupported"} ELSE {}) : Saved(w, as)
     \/ NotSaved(w, IF Passes(w) THEN "raised" ELSE Refusal(w))

SaveDraft(w) ==
  /\ Saving(w, {"creator", "local_creator"})
  /\ \/ MaySave(w) /\ Saved(w, "ready")
     \/ NotSaved(w, Refusal(w))

SaveReplyDraft(w) ==
  /\ Saving(w, {"reply", "recovery"})
  /\ \/ MaySave(w) /\ Saved(w, "ready")
     \/ NotSaved(w, Refusal(w))

\* save_application_draft: the interrupt is looked at, the lease is not; what an
\* earlier run wrote is written over.
SaveApplicationDraft(w) ==
  /\ Saving(w, {"application"})
  /\ \/ ~Interrupted(w) /\ Saved(w, "ready")
     \/ /\ Interrupted(w)
        /\ Goto(w, "interrupted")
        /\ UNCHANGED <<scenario, rows, ledger, cooling, today, changes>>

\* fail_plan, fail_draft, fail_reply_draft with the code of the error, a model
\* that failed or a context that changed; then the error is raised again.
Fails(w) ==
  LET t    == worker[w].task
      code == IF worker[w].step = "failing" THEN "failed" ELSE "refused"
  IN  /\ worker[w].step \in {"failing", "conflict"}
      /\ result' = IF Owned(w) /\ result[t] = "queued"
                     THEN [result EXCEPT ![t] = code] ELSE result
      /\ Goto(w, "raised")
      /\ UNCHANGED <<scenario, task, fresh, recover, ledger, cooling, today, changes>>

-----------------------------------------------------------------------------
(* What people ask for.                                                    *)

\* create_plan; the same idempotency key again returns the row that is there.
CreatePlan(t) ==
  /\ Kind(t) \in {"plan", "demo"} /\ task[t].status = "absent"
  /\ task' = [task EXCEPT ![t].status = "queued"]
  /\ result' = [result EXCEPT ![t] = "queued"]
  /\ UNCHANGED <<scenario, fresh, recover, ledger, worker, cooling, today, changes>>

\* reply_recovery_status: the attempt ended because the model could not be
\* reached; five minutes are not told apart from the step itself.
Recoverable(t) ==
  /\ Kind(t) = "reply" /\ recover[t]
  /\ task[t].status = "failed" /\ ~task[t].cancel
  /\ result[t] = "failed"
  /\ fresh[t]

\* queue_reply_draft_retry: one child, found again when it is asked for twice.
RetryReply(t) ==
  /\ Kind(t) = "recovery" /\ task[t].status = "absent"
  /\ Recoverable(Parent[t])
  /\ task' = [task EXCEPT ![t].status = "queued"]
  /\ result' = [result EXCEPT ![t] = "queued"]
  /\ UNCHANGED <<scenario, fresh, recover, ledger, worker, cooling, today, changes>>

\* Mutant of MayUse: a result is as good as a finished task.
MayUseReady(t) == result[t] = "ready" /\ fresh[t]

MayUse(t) == result[t] = "ready" /\ task[t].status = "succeeded" /\ fresh[t]

\* adopt_plan: task, proposal, and the inventory compiled again, in one
\* transaction; lock_draft_for_prepare with check_draft_context.
Use(t) ==
  /\ Kind(t) \in {"plan", "demo", "creator", "local_creator"}
  /\ MayUse(t)
  /\ result' = [result EXCEPT ![t] = "used"]
  /\ UNCHANGED <<scenario, task, fresh, recover, ledger, worker, cooling, today, changes>>

\* _plan_view: what the operator is shown.
View(t) ==
  IF task[t].status \in Final \ {"succeeded"} THEN "failed"
  ELSE IF task[t].status # "succeeded" /\ result[t] \in {"ready", "unsupported"} THEN "queued"
  ELSE result[t]

CancelTask(t) ==
  /\ task[t].status \in {"queued", "running"} /\ ~task[t].cancel
  /\ Change
  /\ task' = [task EXCEPT ![t].cancel = TRUE,
       ![t].status = IF task[t].status = "queued" THEN "cancelled" ELSE "running"]
  /\ UNCHANGED <<scenario, result, fresh, recover, ledger, worker, cooling, today>>

\* Profile, campaign, creator or reply is edited, or the row expires.
Edit(t) ==
  /\ Kind(t) \notin {"demo", "none"} /\ task[t].status # "absent"
  /\ Change
  /\ fresh' = [u \in Tasks |-> IF u = t THEN ~fresh[t] ELSE fresh[u]]
  /\ UNCHANGED <<scenario, task, result, recover, ledger, worker, cooling, today>>

-----------------------------------------------------------------------------

LeaseRunsOut(t) ==
  /\ task[t].status = "running" /\ task[t].valid
  /\ Change
  /\ task' = [task EXCEPT ![t].valid = FALSE]
  /\ UNCHANGED <<scenario, result, fresh, recover, ledger, worker, cooling, today>>

\* The process dies with its client; its lease runs out.
Crash(w) ==
  LET t == worker[w].task
  IN  /\ worker[w].step # "idle" /\ Holds(w)
      /\ Change
      /\ worker' = [worker EXCEPT ![w] = Idle]
      /\ cooling' = [cooling EXCEPT ![w] = {}]
      /\ task' = [task EXCEPT ![t].valid = FALSE]
      /\ UNCHANGED <<scenario, result, fresh, recover, ledger, today>>

Midnight ==
  /\ today < scenario.days
  /\ today' = today + 1
  /\ UNCHANGED <<scenario, rows, ledger, worker, cooling, changes>>

Begin(w) == StartPlan(w) \/ StartDraft(w) \/ StartReply(w) \/ StartApplication(w)
Hosted(w) ==
  Route(w) \/ Ask(w) \/ Reserve(w) \/ HostedAccepted(w) \/ ModelRefused(w) \/ RouteFails(w)
OnLocal(w) == Local(w) \/ LocalAccepted(w) \/ LocalRefused(w) \/ EndpointFails(w)
Save(w) == SaveProposal(w) \/ SaveDraft(w) \/ SaveReplyDraft(w) \/ SaveApplicationDraft(w)

Work(w) ==
  \/ Begin(w) \/ Hosted(w) \/ OnLocal(w) \/ Send(w) \/ Assess(w)
  \/ Save(w) \/ Fails(w) \/ Done(w) \/ Raised(w) \/ Stopped(w)

People(t) == CreatePlan(t) \/ RetryReply(t) \/ Use(t) \/ CancelTask(t) \/ Edit(t)

Next ==
  \/ \E w \in Workers : (\E t \in Tasks : Claim(w, t)) \/ Work(w) \/ Told(w) \/ Crash(w)
  \/ \E t \in Tasks : People(t) \/ Recover(t) \/ LeaseRunsOut(t)
  \/ Midnight

Spec == Init /\ [][Next]_vars

-----------------------------------------------------------------------------
(* Properties.                                                             *)

MostCalls(t) ==
  CASE Kind(t) = "application"   -> Len(Ranked) + 2
    [] Kind(t) = "plan"          -> Len(Ranked) + 1
    [] Kind(t) = "creator"       -> Len(Ranked) + 2
    [] Kind(t) = "local_creator" -> 2
    [] Kind(t) \in {"reply", "recovery"} -> 1
    [] OTHER                     -> 0

\* What is spent is bounded, for a day and for a task.  No day has more calls of
\* the hosted models than the plan of the client allows, whichever workers start
\* them at once and although a transaction that began before midnight may get the
\* lock after it (start_inference_invocation).  One run of a task asks every
\* hosted model once at most, then the local one, which may repair a copy or an
\* application once; a reply is put to a model once in all the runs of its task,
\* and once more in the one recovery an operator can ask for
\* (start_reply_inference_invocation).
LimitKept ==
  /\ \A d \in Days : hosted[d] <= DailyLimit
  /\ \A t \in Tasks :
       /\ \A n \in Leases : calls[t][n] <= MostCalls(t)
       /\ Kind(t) \in {"reply", "recovery"} =>
            \A m, n \in Leases : calls[t][m] > 0 /\ calls[t][n] > 0 => m = n

\* The row of a task and the row it fills agree: a task succeeds only with a
\* result in place, and what became a workflow or an email came out of a task
\* that succeeded, not out of one that was cancelled or failed after it had
\* saved (complete_task after save_proposal; adopt_plan).
ResultFollowsTask ==
  \A t \in Tasks :
    /\ task[t].status = "succeeded" => result[t] \in Ready
    /\ result[t] = "used" => task[t].status = "succeeded"

\* A run never asks a model for what an earlier run of the task has stored,
\* although that run died before it could report ("A crash after proposal
\* persistence cannot spend a second model call").
NoCallAfterResult ==
  [][\A t \in Tasks : \A n \in Leases :
       calls'[t][n] > calls[t][n] /\ n = task[t].lease /\ Checked(t)
         => result[t] = "queued"]_vars
===============================================================================
