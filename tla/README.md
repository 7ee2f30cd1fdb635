# Verification of the durable agent services

The repository is a self-hosted agent workspace: a control API, a dispatcher and
workers around one PostgreSQL database and one Redis instance. People and
schedulers submit tasks; workers carry them out; some of them send email or
submit applications, which cannot be taken back. This directory models the
services under `src/services/control-api/app` in TLA+ and checks the models with TLC
on small instances. TLAPS proves every safety property that the passing runs check,
of all nine models, for every value of the constants: any number of tasks, workers,
emails, creators, messages, jobs, models, any plan, any settings.

`PROJECT.json` says which source lines each definition stands for, which run
checks which property, and which deliberate bug (*mutant*) each property catches.

- [Inventory](#inventory): the system's parts, and what makes each correct
- [How it is modelled](#how-it-is-modelled): modules, and how they correspond to the code
- [What the runs show](#what-the-runs-show): bounds, fairness, results
- [What is proved](#what-is-proved): theorems and the inductive invariant
- [Where the code and its documents disagree](#where-the-code-and-its-documents-disagree)
- [What is not modelled](#what-is-not-modelled)
- [Plan](#plan)

To check it, in this directory:

    tlc -workers 2 -config lifecycle_safety.cfg MCTaskLifecycle.tla
    tlapm TaskLifecycleProofs.tla     # likewise ExternalActionsProofs, WorkflowProofs,
                                      # MailProofs, CreatorAutomationProofs, InferenceTasksProofs,
                                      # CareerAutopilotProofs, CreatorPreparationProofs

## Inventory

### How the parts interact

    people, schedulers --HTTP--> control API --+
                                               |  transactions
      dispatcher --recover, publish----------> PostgreSQL <---- workers
          |                                                       ^
          +------ LPUSH task id -----> Redis list ----- BRPOP ----+---> SMTP, ATS forms

PostgreSQL owns all state. Redis carries task ids only, may lose them, and may
deliver them twice. A worker that pops an id claims the task under a lease, keeps
the lease with a heartbeat thread, and reports the outcome. The dispatcher
publishes the outbox, reconciles workflows, and recovers queued tasks whose
signal was lost and running tasks whose lease expired.

### Components

| Component | State it keeps | Operations | What is hard | What makes it correct |
|---|---|---|---|---|
| **Task queue** (`store.py`) | `agent_tasks`, `task_outbox` | create, decide, cancel, claim, heartbeat, complete, fail, finalize a cancellation, recover, publish | two workers on one task, results after a lost lease, cancellation against completion, duplicated and lost signals | retries stay in budget; cancellation wins; stale results are refused; nothing accepted is forgotten |
| **Dispatcher and worker loops** (`dispatcher.py`, `worker.py`) | local variables, a heartbeat thread | poll, push, acknowledge; pop, claim, run, report | crashes between any two calls; acting on rows read earlier | the loops keep the promises of the queue whatever the order |
| **External actions** (`action_store.py`, `action_worker.py`) | `external_actions`, `side_effect_receipts` | prepare, decide, begin, complete, fail, defer | a crash while the message may or may not have left; authority that ends meanwhile | at most one effect per target, only with authority in force; "failed" never began, an email reported as sent was taken by the server |
| **Email pacing** (`email_pacing.py`) | `outbound_email_schedule` | reserve at approval, check again and defer at the boundary | backlogs after an outage, off-by-one windows, changed settings | distances and caps hold between the sends themselves |
| **Durable workflows** (`workflow_store.py`, `workflow_models.py`) | `agent_workflows`, `workflow_steps` | create, reconcile, cancel | tasks move between two passes; deadlines against late passes | dependencies, capacity, truthful verdicts, an end |
| **Creator automation** (`creator_automation*.py`) | runs, reservations, replies, sync state | start, pause, tick, authorize, cancel what stopped runs left, review replies | several campaigns, runs and operators write to one creator; facts change between reading and sending | one introduction per creator; a daily allowance; replies are read before anything is sent |
| **Creator outreach** (`marketing*.py`) | campaigns, prospects, messages, suppressions | plan, authorize a contact, record an outcome, edit | duplicates across campaigns, opt-outs | nothing after an opt-out; handover only after reviewed interest |
| **Mailbox sync** (`career_tracking*.py`, `creator_automation_gmail.py`) | cursor, pending ids, revision, messages | list a page, save, finalize, review | overlapping syncs, pages that move, changed labels | nothing that is listed falls out; what a complete pass vouches for has been read |
| **Career autopilot** (`career_autopilot*.py`) | runs, items | play, pause, schedule, advance, guard | expiry and pause against the boundary; an item that fails every time | daily capacity; nothing leaves outside of the scope |
| **Goal planning** (`planning_store.py`, `planning_models.py`) | `goal_plans` | request, prepare, adopt | adoption twice, late, or after a change | one workflow per proposal, the one that was reviewed |
| **Draft batches, reply drafts, pilot research** (`creator_draft*`, `creator_reply*`, `creator_pilot*`) | drafts, tasks whose payload reserves slots | reserve, issue children, recover, review | locks that outlive leases; retried batches | the budgets of thirty; each child once |
| **Inference ledger** (`career_store.py`, `inference.py`) | `inference_invocations` | start, complete | many workers on one daily limit | the limit; one outcome per call |
| **Career search, contacts, tracking** (`career_*.py`) | profiles, opportunities, drafts, contacts, events | discover, score, draft, mark | mostly text rules | the schedule and the states of an opportunity |
| **Application browser** (`application_browser.py`) | none; a preflight is a row | inspect, fill, submit | a page that changes between inspection and click | what is submitted was inspected and approved |
| **API, authentication, settings, web, deployment** | requests, configuration | routes, sessions | I/O | outside of the models; the transactions behind the routes are inside |

## How it is modelled

| Module | Lines of the code | Role |
|---|---|---|
| `TaskContract` | `agent_tasks` as its users see it | abstract: the life of a task without leases, signals, workers |
| `TaskLifecycle` | `store.py`, `dispatcher.py`, `worker.py` | the queue, its outbox, Redis, both loops, faults |
| `TaskLifecycleProofs` | | the theorems about `TaskLifecycle` |
| `EffectContract` | what approving an action means | abstract: authority, one effect per target, reports as true as the target lets them be |
| `ExternalActions` | `action_store.py`, `action_worker.py`, the part of `store.py` they use | the path of an action through three tables and a worker |
| `ExternalActionsProofs` | | the theorems about `ExternalActions` |
| `EmailPacing` | `email_pacing.py` and its two callers | slots, rolling windows and settings on a clock |
| `Workflow` | `workflow_store.py`, `workflow_models.py` | the reconciler on top of `TaskContract` |
| `WorkflowProofs` | | the theorems about `Workflow` |
| `OutreachContract` | what a creator may expect | abstract: one introduction, one handover after interest, silence |
| `CreatorAutomation` | `creator_automation*.py`, `marketing*.py` | campaigns, runs, operators, packets, replies |
| `CreatorAutomationProofs` | | the theorems about `CreatorAutomation` |
| `CareerAutopilot` | `career_autopilot*.py`, `career_contact*.py`, the tables of `career_store.py` they share | runs that apply on a person's behalf, beside people and contacts |
| `CareerAutopilotProofs` | | the theorems about `CareerAutopilot` |
| `InferenceTasks` | `planning*.py`, `creator_draft*.py`, `creator_reply_draft*.py`, `inference.py`, the handlers of `job_worker.py` | tasks that ask a model, the router of the models, the ledger of calls |
| `InferenceTasksProofs` | | the theorems about `InferenceTasks` |
| `CreatorPreparation` | `creator_draft_store.py`, `creator_draft_batch_store.py`, `creator_reply_draft_store.py`, `creator_pilot*.py`, discovery in `marketing_store.py` | drafts, batches, replies and research on one budget and shared identities |
| `CreatorPreparationProofs` | | the theorems about `CreatorPreparation` |
| `MailSync` | `career_tracking*.py`, `creator_automation_gmail.py`, the reply half of `creator_automation_store.py` | paging, matching, reviewing and bodies of two mailbox readers |
| `MailProofs` | | the theorems about `EmailPacing` and `MailSync`, and lemmas on iteration and search that both need |
| `MC...` | | the instances that TLC checks |

A transaction is one step: the code takes row locks or advisory locks before it
reads what it decides on. Where it does not (a SELECT in one transaction and the
update in another), the model has two steps. Times are facts: `due`, `available`,
`stale`, `expired` and the remaining ticks of a lease say whether a timestamp lies
in the past, and steps of their own let time pass. Only `EmailPacing` has a
clock of its own, because distances between times are what it is about, and
`CreatorPreparation` a coarse one, because its budgets are rolling days.

Several modules play *scenes*: the constant `Scenes` (or `Scenarios`) lists small
worlds (who is there, what may happen and how often), the initial state picks
one, and it never changes. A scene is a bound, not a restriction of the actions:
each is there to make certain things happen together without the product of all.

### TaskLifecycle

`status`, `attempts`, `cancelRequested`, `due`, `lease`, `leaseLeft` are columns of
`agent_tasks`; `outbox[t]` is the row of `task_outbox` with its `publish_generation`;
`queue` is the Redis list. `worker[w]` and `dispatcher[d]` hold the local variables of
the loops: what was popped, the lease, the outcome of the handler, the reason of
the heartbeat thread; the batch of events a dispatcher read and has not worked off.

| Steps | Code |
|---|---|
| `CreateTask`, `ApproveTask`, `RejectTask`, `CancelWaitingTask`, `RequestCancellation` | `_create_task_record`, `decide_task`, `_cancel_task_record` |
| `PopSignal`, `ClaimTask`, `DiscardSignal` | `BRPOP`, `transition_to_running` |
| `HeartbeatRenews`, `HeartbeatStops`, `HeartbeatFails` | `heartbeat_task`, `LeaseHeartbeat` |
| `HandlerEnds`, `PutOff`, `CompleteTask`, `FailTask`, `FinalizeCancellation`, `RefuseResult`, `DropResult` | the body of `worker.run`, its exception handlers; `_defer_email_send` |
| `RecoverQueued`, `RecoverExpired`, `PollOutbox`, `PushSignal`, `PushFails`, `MarkPublished`, `MarkRaises`, `MarkFailed` | the body of `dispatcher.run`, one call each |
| `WorkerCrash`, `DispatcherCrash`, `ResultNotStored`, `RedisLosesSignals` | faults, bounded by `MaxFaults` |
| `LeaseTick`, `BecomeDue`, `BecomeAvailable`, `BecomeStale` | time |

An email (`Paced`) waits for the slot that its approval reserved, and may be put off
at the boundary, inside its handler (`PutOff`, `_defer_email_send`): it waits again, with
its attempt given back, and the worker has nothing to report. Both are steps of
`TaskContract` too. How often is bounded by `MaxDeferrals`; in the code the expiry of the
approval ends it. Workflows have no paced steps.

`LeaseIds` are recycled when nobody holds them, as uuids never need to be.
`announced` is the only variable no table has: a signal was pushed since the row
was last armed.

### ExternalActions

Three tables (`action`, `receipt`, `schedule`) beside the task, a worker between
*preparing*, *begun*, *accepted* and *reported*, and `reached`, how often the outside
got to see a target. The queue is abstracted to what its contract and its leases
mean here: any idle worker may claim a waiting task whose time has come. A
`Target` is the fingerprint under which receipts are unique: the opportunity of a
submission, the context of an email. The facts that the guards of
`begin_side_effect` bind for emails (opt-out, paused run, revoked contact) are one
Boolean, `withdrawn`; `CreatorAutomation` and `CareerAutopilot` spell them out.

An application binds more, and the model says what: the number of the `Preflight` and
the version of the form it saw, the answer a person gave, and the version of the
resume and draft. They are read in one transaction (`ReadContext`, whose result is
`planning`) and bound in another (`PrepareApplication`), or found bound already
(`ReturnPrepared`). The worker loads the material (`LoadMaterial`), opens the page and
fills it (`FillForm`, which compares signature and questions and wants a single submit
control), passes the boundary, and clicks. Blockers are looked for by the preflight
only. The page changes at any time (`FormChanges`), and so does the material
(`MaterialChanges`), between any two of these steps.

What the worker hears (`Heard`) depends on the target. An SMTP server answers; that
answer may be lost, but a message that was not taken is not reported as sent. Of a
form the worker sees the page after the click, and another address counts as
success, whether or not anything was submitted. The contract therefore has
`acknowledged`: "done" means *reached* for emails, and *begun* for applications.

### EmailPacing

One clock, three emails, the formulas of `email_pacing.py` as they are. A slot is
reserved within the approval; at the boundary the next safe time is computed anew
from what really was sent. `completed_at` is the time of the commit, since a
transaction is an instant. The columns of a skipped row are reset, because
nobody reads them again. Its `PacingInit`, `PacingNext` and `PacingSpec` say *Pacing*
because `MailProofs` extends it beside `MailSync`.

### Workflow

A pass of `_reconcile_one` is one step, as in the code: observe the tasks, then stop
or advance, then the verdict. Between passes the tasks do what `TaskContract`
allows, which is what `TaskLifecycle` is shown to implement: this is how the two
compose. Steps may be submitted in any order, so that plans are functions from
steps to sets of steps.

### CreatorAutomation

A prospect is a creator in one campaign; two campaigns may have the same creator,
who has one address and one channel. A packet is an external action with its
message, and is known by its context (prospect, stage, run, wording, the campaign
content it quotes, the authorization it relies on), because the idempotency key of
`external_actions` is a hash of that context: the same one is never prepared
twice. A worker's tick is `Begin` (the candidates and the allowance it reads become
stale), then `Plan` or `Reuse`, then `Authorize`, in transactions of their own as in
the code, with crashes and lost leases in between. `SelectStopped` and
`CancelStopped` are the two halves of `_cancel_stopped_packets`. `Send` has the guards
of the boundary that concern creators; `Refuse` stands for any guard, here or in
`ExternalActions`, that says no.

The allowance is a column of the run, the count one of the campaign: two runs may
have different limits on one count. A reply is matched by its sender and its subject
(`Matched`): `answers` has whom its sender had got an email as when it came, `About`
whom its subject was used for.

Scenes: *pair* and *relay* are about the allowance, *shared* about one creator in two
campaigns, *label*, *untitled* and *answered* about replies.

Abstracted: the stages *question_reply* and *paid_offer*; what a reply says (reviews
choose); the pages, cursor and bodies of the mailbox sync; the limit of ten
prospects per tick. "open" stands for *discovered* and *qualified*, "question" also
for *declined_unpaid*, "suppressed" also for *bounced*.

### CareerAutopilot

`Play` starts a run and binds it to the version of the profile; versions stand for the
hashes of what they version (`profile_hash`, `opportunity_hash`, the content of a
draft). A pass ends the run (`EndRun`) or adds items within the rolling capacity
(`Reconcile`); it reads the open items in a transaction of its own (`SelectItems`).
`Inspect`, `PrepareAction`, `SettleItem` and `Authorize` are the transactions of one
item, so that people (`UpdateProfile`, `Decide`, `Pause`, contacts) and a second
scheduler come in between. `AuthorizationRaises` is an exception out of an item: it
ends the whole pass. `BeginSideEffect` has the guards of the boundary; `EndSideEffect`
is any outcome, since execution is the matter of `ExternalActions`. A task of a run
that lost its lease may still store its draft (`SaveApplicationDraft`), because that
transaction asks for no lease.

### InferenceTasks

A worker's steps are the transactions, calls and checks of the four handlers, which
share their router and ledger: read and check the context, `Route`, `Ask` (the
check before an attempt, and the begin of the transaction, where `now()` is fixed),
`Reserve` (the count and the insert under the advisory lock), `Send`, the answer, the
repair, `Save`, `Done`. `calls[t][n]` counts what was sent for task *t* under its *n*-th
lease. A lease is a number and whether it is valid; a worker that lost it goes on
until a check stops it. `RankFree` is `rank_free_models` with its sort key as a
tuple; `RankingIsRight` (an assumption that TLC evaluates) compares it, over all subsets of
ten models beside six that must be refused, with what the order is for, said
without the key.

### CreatorPreparation

A creator is a row of one campaign; rows share an identity when they share an
address, and an address may also be a candidate on the row (`Known`). A packet keeps the
address it was made for: `contact[c][a]` is the state of the packet of row *c* to address
*a*, whatever address the row has by now, and `Duplicate` compares with that stored
recipient, as `outreach_duplicate_action` does. `packed` are the drafts that became
packets: from then on the packet protects the evidence, as long as it is open. Locks that may
be waited for are the point: the worker of a batch takes the budget's advisory
lock in one action and issues the child in another (`TakeSlot`, `Issue`), an explicit
selection waits for its identity locks (`ApplyExplicit`, `CreateExplicit`), a new batch for
the senders of the rows it comes to (`CreateBatch`), research is
fetched, then saved (`Fetch`, `StartSave`, `SaveResearch`), and a sender holds the
identities between planning and commit (`StartSend`, `EndSend`). Everything else may
happen in between: leases run out, people edit, discovery adds rows
(`Discover`, `AddCreator`, `Refresh`). The budget of research is `Researched`, one place for
each creator of each audit of the day, whose number is the sum of their `batch_size`.

### MailSync

The same walk in two programs. A message is a label and a position; Gmail lists
from the newest down, so that a page is an interval. `cursor` is the row of the sync
state with its revision, `pending` the ids listed and not yet read. An execution
lists (`List`), reads some (`Fetch`), matches them with the applications on a view of the
bindings taken before (`Outcome`), and saves under the revision (`StartSave`,
`CommitSave`, `SaveReplies`); executions overlap, lose their lease and go on, mail arrives
and vanishes, the label changes. The creator desk also claims, fetches and stores
full bodies (`Claim`, `ReadFull`, `SaveBody`) before it finalizes. Its second
`gmail_context` (`Reopen`) asks for no lease and compares no revision, so that it goes
on, on whatever row it finds or resets. Two history components say what a
`last_complete_at` is worth: `top`, the newest message when the pass began (none when no
page was listed since the row was made or reset), and `overtaken`, whether the
execution that wrote it had found another revision than it had saved.

## What the runs show

Twelve runs: ten pass, two show where the code and its documents disagree.

| Run | Instance | Distinct states | Properties |
|---|---|---|---|
| `lifecycle_safety` | one task retried once, two workers, two dispatchers, two leases, one fault | 259 597 | `WithinBudget`, `CancellationWins`, `PublishedMeansAnnounced`, `BackoffBeforeAnnouncement`, `NoStaleResult`, `LeaseExtension` |
| `lifecycle_liveness` | a retried task and an email with one attempt that is put off once, one worker, one dispatcher, one fault | 311 761 | `ImplementsContract`, `AcceptedWorkSettles` |
| `external_actions` | two paced emails; two applications to one opportunity; one application whose page and material change; two workers, one fault | 1 856 397 | `TablesAgree`, `OneUnresolvedSend`, `ImplementsEffectContract`, `SubmittedAsApproved` |
| `external_boundary` | two applications to one opportunity | | `BoundaryFailureIsAmbiguous` (violated) |
| `pacing` | three emails, two of one domain, two settings | 882 757 | `SendsSpaced`, `CapsKept`, `DeferralHolds` |
| `workflow` | a diamond and a cycle of four steps, one or two at a time | 209 184 | `DependenciesFirst`, `WithinCapacity`, `FinishedIsQuiet`, `VerdictIsRight`, `NeverStuck`, `WorkflowSettles` |
| `creator_outreach` | six scenes of at most two campaigns, creators, runs and workers | 472 830 | `ImplementsOutreachContract`, `BudgetKept`, `RepliesReadFirst` |
| `creator_decisions` | one creator, one run, one operator | | `DecisionsStand` (violated) |
| `career` | five scenes of two listings, one or two runs, one or two schedulers, at most two changes | 723 826 | `BudgetsKept`, `StaysInScope`, `NothingTwice`, `ItemsSettle` |
| `inference` | eight scenes of one or two tasks, two workers, two models, two calls a day | 944 071 | `LimitKept`, `ResultFollowsTask`, `NoCallAfterResult`, and the assumption `RankingIsRight` |
| `preparation` | nine scenes of three creators, at most two batches or selections, two workers | 737 405 | `BudgetKept`, `IssuedWhileOwned`, `OneIntroduction`, `EvidenceStands` |
| `mail` | six scenes of at most three messages in a label and three executions | 1 104 051 | `PassKept`, `CompleteMeansRead`, `ThreadsAgree`, `DecisionsStand`, `BodyStands` |

Each run takes at most three and a half minutes on two cores. `TypeOK` holds in every one of
these instances; it is not among the properties of the runs, which are about
behaviour. Where there are proofs it is part of the inductive invariant `IInv`, which
TLC checked on the same instances before it was proved.

### What the properties say

- **Budget, cancellation, results.** The claim does not look at `max_attempts`: that
  no task starts too often follows from every other transaction (`WithinBudget`). A
  cancellation that commits between a handler's return and its report still wins
  (`CancellationWins`). A worker that stalled past its lease cannot report
  (`NoStaleResult`), nor revive the lease (`LeaseExtension`).
- **Nothing is forgotten.** A waiting task has an outbox row, and a row counts as
  published only when a signal for it was pushed after it was last armed
  (`PublishedMeansAnnounced`): the sweep for lost signals relies on that. Retries
  are not announced before their backoff is over.
- **Effects.** No action begins without approval in force at that moment; a target
  is reached at most once; "failed" never began; an email that "succeeded" was taken by
  the server, an application that "succeeded" was begun, and no more is known of it
  (`ImplementsEffectContract`). While nobody knows what became of an email, no other
  one leaves (`OneUnresolvedSend`). What is submitted is the form that was inspected,
  with the answers and the material that were approved, though page and material
  change until the last moment (`SubmittedAsApproved`). `TablesAgree` says which
  states of task, action, receipt and schedule go together.
- **Pacing.** Spacing and caps hold between the sends themselves, counted from the
  end of the earlier one, under the settings of the approval or stricter ones.
- **Workflows.** Work starts on checked results only; a finished workflow leaves
  nothing running; a pass that merely comes late condemns nothing.
- **Creators.** Across campaigns, runs and operators a creator gets one introduction
  and, after reviewed interest, one handover; nothing after an opt-out. Two runs,
  and a worker that lost its lease, stay within a day's allowance: whoever reserved
  last had counted no more than its own run allows (`BudgetKept`). A monitoring run
  writes to nobody while a reply that its last complete pass found is unreviewed.
- **Applications on a person's behalf.** A grant is used only in the scope it was
  given for (`StaysInScope`); allowances belong to the person, however often Play is
  pressed and however many schedulers work (`BudgetsKept`); one vacancy is not
  applied for twice under two listings, nor one address written to twice
  (`NothingTwice`); an item that fails in every pass does not hold up the others for
  longer than its packet lives (`ItemsSettle`).
- **Models.** No day has more hosted calls than the plan allows, although a
  transaction that began before midnight may count after it; a run of a task asks
  each model once at most, and a reply is put to a model once in all runs of its
  task (`LimitKept`). A worker that died after it stored a result costs no second
  call (`NoCallAfterResult`), and only what a succeeded task produced is used
  (`ResultFollowsTask`).
- **Preparation.** Drafts, promised slots and replies together stay within one rolling
  budget, so that a promised slot is never refused for it (`BudgetKept`). A batch
  issues only while it is owned, whatever its worker waited for (`IssuedWhileOwned`),
  and never for somebody who is being written to: no row, whatever its address is now,
  has a packet to the address the draft is for, nor a draft for the same identity
  (`OneIntroduction`). Research and discovery leave alone what an introduction was
  built on (`EvidenceStands`).
- **Mail.** The paging loses no message (`PassKept`); a pass recorded as complete has
  read what was there when it began, and a completion that vouches for no pass is
  written only by an execution that another label's reset overtook
  (`CompleteMeansRead`). Threads agree with their messages and events although batches
  are matched on bindings read before a review (`ThreadsAgree`); what a person decided
  stands (`DecisionsStand` of `MailSync`), and so does a captured body (`BodyStands`).

### Bounds, and why they are enough

- *Lifecycle:* `MaxGeneration` 5 lets a task be armed by creation, retry, two losses
  and one more, or by a deferral (`MaxDeferrals` is 1); `MaxQueue` 2 allows a
  duplicate signal in front of a fresh one; a lease of one tick expires at any time a
  heartbeat does not come first, since time is free; one fault beside the interleaving
  of two workers and two dispatchers. Symmetry is used for safety only (of workers,
  dispatchers, leases; of the workers of one scene and of its two creators in
  `creator_outreach`, of the workers in `external_actions` and `inference`: nothing
  tells them apart). The theorems hold without these bounds on tasks, workers,
  dispatchers, leases and attempts.
- *External actions:* two actions are the fewest that compete for a target or for
  the road; one fault loses an answer, or the worker that should say so. Four
  versions of the page: another question, a blocker that no field shows, a second
  submit control. One request at a time is between the read of its context and the
  insert.
- *Workflow:* a diamond has a fork, a join and a chain; capacity one and two make
  its branches wait and run together; one step asks for a person, one is retried.
- *Pacing:* windows of three and five units, six ticks: the third email of a day
  falls due within the clock; both parities of the jitter.
- *Creators:* `maxPackets`, `maxEdits` (of campaigns, contacts, research and
  outcomes) and `byHand` (for whom operators prepare packets) bound what people do;
  three packets are an introduction, a handover and a rival for either. Limits of one and
  of two make the order of two runs matter.
- *Career:* an allowance of one a day and two jobs make the second wait; two listings
  of one job are the fewest that can be applied for twice; `changes` bounds edits,
  late results and crashes, two of which surround one grant.
- *Inference:* two models give a refusal, a fallback and a last one; a limit of two
  is reached by two tasks; two leases are a run and the one that took it over; one
  midnight lies between two days.
- *Preparation:* a budget of three (`DailyDrafts`), two per creator, and four ticks of
  which two are a day: reservations leave the window one by one while a batch is at
  work. Three creators, of which two may share an address and one is of another
  campaign.
- *Mail:* pages of two messages and one read per execution make a pass span
  several executions; a third message in a thread comes from another domain.

`CHECK_DEADLOCK FALSE` stands where the system may really stop: a finished workflow,
the end of the clock, campaigns whose packets and grants are used up. Elsewhere
deadlock is checked.

### Fairness

Safety is checked without any. For liveness:

- *Workers and dispatchers* take a step that stays enabled: they loop for ever and
  are restarted by their containers. Crashes are bounded by `MaxFaults`, handlers end
  because every network call in them has a timeout.
- *Time:* what is due becomes due; a lease that nobody renews expires
  (`LeaseTick /\ Orphaned`, `LeaseExpires /\ ~Renewed`). A renewed lease need not.
- *Sweeps* (`RecoverQueued`, `RecoverExpired`, `ReconcileWorkflow`, `Pass` and
  `SchedulerStep` of the autopilot) run in loops that poll.
- *Career:* preparation ends one way or the other, which is `AcceptedWorkSettles` of the
  queue; packets expire and rolling days pass.
- *People* owe nothing: approvals, reviews and cancellations are never fair, so work
  that waits for a person may wait for ever. A workflow still ends, by its deadline.
- *Workflow* takes its tasks' fairness from the fairness of `TaskContract`, which
  `lifecycle_liveness` checks of the queue.

## What is proved

### The task queue

`TaskLifecycleProofs` proves, from `LifecycleAssumption` alone (`MaxAttempts` are
positive numbers, the sentinels are not members of their sets):

| Theorem | States |
|---|---|
| `LifecycleInvariant` | `Spec => []IInv`, the inductive invariant |
| `TypeCorrect`, `BudgetKept`, `CancellationKept` | `TypeOK`, `WithinBudget`, `CancellationWins` |
| `AnnouncementsAreReal`, `BackoffKept` | `PublishedMeansAnnounced`, `BackoffBeforeAnnouncement` |
| `StaleResultsRefused`, `LeasesNeverRevived` | the action properties `NoStaleResult`, `LeaseExtension` |
| `LifecycleImplementsContract` | every step is a step of `TaskContract` or a stutter |

**Why the invariant is what it is.** None of the properties is inductive alone.

- `WithinBudget` depends on rows that no property speaks about: the claim adds an
  attempt without a check, so what was never claimed must be unspent and
  uncancelled (`FreshTasks`), and a task that runs must have a lease
  (`LeaseWhileRunning`), for otherwise recovery would not find it.
- A worker reports for `worker[w].task` under `worker[w].lease`; `WorkerShape` says
  which of its local variables are meaningful at which step, so that the guards of
  the store apply to a real row.
- `PublishedMeansAnnounced` is the delicate one. A dispatcher marks events it read
  earlier; in between the row may have been armed again. `HeldEvents` says that an
  event a dispatcher holds is not newer than the row, `PushedEvents` that one it
  has pushed and that is still current was announced: the generation that
  `mark_outbox_published` compares is all that protects the new row.
  `DispatcherShape` relates its step to what it holds.
- `AvailableIsDue` ties the outbox's backoff to the task's.

`TypeOK` is proved on its own, one lemma per group of actions. The rows of the tasks
(`TaskRows`) and the delivery (`Delivery`) follow, each from the small part of a step
that can disturb it: `OtherTaskRows` and `HeldStutter` dispose of the rest.
`StepPreserves` puts them together. The step simulation of the contract goes
through `EndOfRun` and `EndOfLeases`, since one sweep of the dispatcher may end
several runs.

### External actions

`ExternalActionsProofs` proves, from `ActionsAssumption` (the scenes are well formed, the
sentinels are not members of their sets):

| Theorem | States |
|---|---|
| `ActionsInvariant` | `Spec => []IInv`, the inductive invariant |
| `TablesAlwaysAgree` | `TablesAgree` |
| `OneEmailUnresolved` | `OneUnresolvedSend` |
| `SubmissionsAsApproved` | the action property `SubmittedAsApproved` |
| `EffectsKeepContract` | `ImplementsEffectContract`: every step is a step of `EffectContract` or a stutter |

The contract counts effects per target, and the code has no such count: it has
receipts. `OneReceipt` ties the two, a fingerprint has one receipt and nothing is
reached without it, and `Begun` says that a worker past the boundary has reached the
target exactly as often as its step says, as far as the target answers. Both would
fail if two workers had one task in hand; that they do not (`HandsApart`) rests on the
single attempt of such a task, which is spent while it runs (`RowsTogether`).
`HeldAsBound` carries what a worker loaded and filled, several transactions earlier,
to the click.

### Email pacing

`MailProofs` proves, from `PacingAssumption` (finitely many emails; the settings
are within the limits that `settings.py` enforces):

| Theorem | States |
|---|---|
| `PacingInvariant` | `PacingSpec => []PacingIInv`, the inductive invariant |
| `SendsAlwaysSpaced`, `CapsAlwaysKept` | `SendsSpaced`, `CapsKept` |
| `DeferralsHold` | `DeferralHolds` |

First the search: `LimitRespected` and `NextSendFits` say that both loops of
`email_pacing.py` end, that the time found keeps every distance and limit, and that
it is the present if that does. Loops that stop are recursive functions on the
numbers, and `SearchExists` and `SearchFinds` say of any search that
only moves up and has a bound that there is such a function and where it stops.
`FoundKeeps` then shows that the sends the code leaves out, those of more than a
day ago, would not change the result: that is where the limits on settings are
needed. For `CapsKept` a window is counted at each send only, and a send that
begins later than a window began cannot enter it: the boundary refuses while
another send has no outcome, so that each begins after the end of the earlier ones
(`Timed`). `DeferralFits` remembers for each deferral what it was computed from; a
time that kept the limits keeps them later (`KeepsOn`), and is found again without
jitter (`KeptIsFound`).

### Durable workflows

`WorkflowProofs` proves, from `WorkflowAssumption` alone:

| Theorem | States |
|---|---|
| `WorkflowInvariant` | `Spec => []IInv`, the inductive invariant |
| `DependenciesComeFirst`, `CapacityIsKept` | `DependenciesFirst`, `WithinCapacity` |
| `OverMeansQuiet`, `VerdictsAreRight` | `FinishedIsQuiet`, `VerdictIsRight` |
| `PlansAreNeverStuck` | `NeverStuck` |

`StepsFollowTasks` says what the status of a step means for its task, though tasks
move between passes and a cancelled step need not have ended. That an accepted plan
is never stuck is an argument about the loop of `validate_plan`, which removes what
depends on nothing left: if it empties the plan, the round in which a step left
ranks it (`PlanRanked`), and an unsettled step of least rank waits for nobody. The
loop and the spreading of failures are functions on the number of rounds, and
`SetInduction` does the induction on it.

### Emails to creators

`CreatorAutomationProofs` proves, from `AutomationAssumption` (each scene is well formed, a
creator is once in a campaign):

| Theorem | States |
|---|---|
| `AutomationInvariant` | `Spec => []IInv`, the inductive invariant |
| `CreatorBudgetKept` | `BudgetKept` |
| `RepliesAreReadFirst` | the action property `RepliesReadFirst` |
| `OutreachKeepsContract` | `ImplementsOutreachContract`: every step is a step of `OutreachContract` or a stutter |

The contract counts what a creator was sent; the code looks for another packet before
it sends. `SentOnce` is the count, and `IntroducedFirst` says that whoever got,
answered or is interested in anything has been introduced, so that a handover after
interest, and interest after a reply, come second. A step then has one of three
effects on a creator (`Effect`): a send, after which exactly the packet has left
(`SendLeaves`); an answer of somebody introduced (`Answered`); or at most opt-outs,
which take the interest with them (`Quiet`). The budget is counted over a campaign,
but limits and reservations belong to runs: `OwnCampaign` and `WorkersInCampaign`
carry the campaign from the list that a tick reads over the packet it prepares or
finds again to the reservation, also in the hands of a worker that has lost its lease.
The count of the day in `_authorize` is what keeps the budget
(`AuthorizeKeepsBudget`): the allowance that the worker has left plays no part in the
proof. `PassesRead` says that what a pass has listed and taken off its list is stored
or answers others; the send boundary adds that what is stored is reviewed.

### Tasks that ask a model

`InferenceTasksProofs` proves of `InferenceTasks`, for all tasks, workers, leases,
models and scenarios (`InferenceAssumption` serves `LimitsAreKept` only: the catalog is
finite, the limits are natural numbers):

| Theorem | States |
|---|---|
| `TasksInvariant` | `Spec => []IInv`, the inductive invariant |
| `ResultsFollow` | `ResultFollowsTask` |
| `NoSecondCall` | the action property `NoCallAfterResult` |
| `LimitsAreKept` | `LimitKept` |

A worker reports success without looking at the row it filled, so `AtWork` says that
a worker that is done left a result. That no model is asked again rests on more: the
result was read several transactions before the request leaves. `LeasesDiffer` says
that no number of a lease is held twice, and none that is in force once the task
succeeded; `StillWaiting` says that from the read to the writing, under the lease in
force, the result is still awaited, since every handler but that of applications
writes under `_owned_task` only, and results are used after success only. Most
steps are instances of one lemma about a worker that keeps its task (`MovesKeeps`).

For the limits, `Left` says what a run may still ask for where it is: the models left
on its route and the local ones behind them, or what its repair is given. No step
raises it, a request lowers it by one, and with the calls of the lease it stays within
what the kind of the task allows (`KeepsToLeft`); a new lease starts with none
(`NewLeases`). A reply is bounded over all its runs instead: whoever may send wrote the
row of the call under the lock, alone, and nothing was sent before it (`AskedOnce`).
The count of a day needs no more than that a transaction counts its own day, whatever
midnight passed since it began (`DayIsCounted`).

### Mailbox readers

`MailProofs` proves, from `MailAssumption` (scenes and messages are well formed,
pages are not empty), for any mailbox, labels, page size and number of executions:

| Theorem | States |
|---|---|
| `MailInvariant` | `Spec => []IInv`, the inductive invariant |
| `NothingFallsOut`, `CompleteIsRead` | `PassKept`, `CompleteMeansRead` |
| `ThreadsAlwaysAgree` | `ThreadsAgree` |
| `DecisionsAlwaysStand`, `BodiesStand` | the action properties `DecisionsStand`, `BodyStands` |

What is between a page token and the top of a pass is pending or settled (`Covers`):
of the cursor, and of every execution that pages, also of one whose cursor has moved
on since. A cursor without a top has listed nothing yet; that it is not found where a
pass is finalized, unless the execution was overtaken, is `KeepsPass`, from the save
over the second `gmail_context` to the end, and `Vouched` of what was written before.
An execution that read messages saves only on the revision it started from, and on
that revision holds nothing that has a row (`GoesBy`, `ReadsItsPage`), or else it
would bring back what another one has removed from the pending ids. That a batch
matched on old bindings leaves threads, links and events in agreement is shown per
message of the batch, by induction on how many were matched
(`IndexedIterationExists`).

### Applications on a person's behalf

`CareerAutopilotProofs` proves, from `CareerAssumption` (finitely many listings, scenes that
are well formed, an allowance of at least one), for any listings, runs, schedulers
and limits:

| Theorem | States |
|---|---|
| `PassesFollowTables` | `Spec => []IInv`, the inductive invariant |
| `CareerTyped`, `CareerBudgets` | `TypeOK`, `BudgetsKept` |
| `ScopeHolds`, `NothingIsDoneTwice` | the action properties `StaysInScope`, `NothingTwice` |

A pass goes over an item in several transactions, so that what a scheduler remembers
may be stale in every way but a few, and those few are `Passes`: the item is there,
its material was prepared when an action is made of it, the action is there when
it comes to be approved. They survive whatever people and a second scheduler do
(`StepsGoOn`): items and actions are never removed, and a preparation that succeeded
stays so. `Material` says that such a preparation left a draft, without
which `PrepareAction` would have no version to name. The budgets are counted anew
in the transaction that adds to them. That a count is a number at all rests on the
ledger being finite (`Grants`), though nothing bounds the drafts that may be named. What
can become of actions and ledger is four things (`GrantSteps`): an action is put
there, moves, is reserved, or its reservation leaves the day. Nothing but the
boundary begins an action (`BegunWithGuards`), and nothing but the approval reserves
one (`ReservedWithGuards`); no pass, listing or late draft has another way.

### Preparations for creators

`CreatorPreparationProofs` proves, from `PreparationAssumption` (finitely many creators,
well-formed scenes, at least one lease, names that do not collide), for any
creators, requests, workers and limits:

| Theorem | States |
|---|---|
| `PreparationsConsistent` | `Spec => []IInv`, the inductive invariant |
| `PreparationTyped`, `PreparationBudgets` | `TypeOK`, `BudgetKept` |
| `IssuedByOwner` | the action property `IssuedWhileOwned` |
| `OnlyOneIntroduction`, `EvidenceRemains` | the action properties `OneIntroduction`, `EvidenceStands` |

`BudgetKept` counts the slots that are still promised; the code counts all that are
reserved, also by batches that stopped, and the proof follows the code. `BudgetHeld`
counts drafts and reserved slots in one set (`Held`): a draft that a batch issues takes
the place of its own slot there, and so costs nothing; that is the `reservation_key`
which the count of the code leaves out. A promised slot is among the reserved ones
(`PromisedReserved`) only because a draft of a batch belongs to an item whose outcome is
recorded (`Prepared`): otherwise one item could count as a draft and as a promise.
A step of a worker or a person makes no request
(`NoneMade`) and adds at most one draft (`DraftFits`), or one answer per reply (`AnswersFit`),
counted under the budget lock; a batch (`BatchFits`) and an audit (`PilotFits`) reserve no more
than is free. Time takes members out of these sets and never in (`DraftsOfTheDay` and
its likes). That a slot is of the batch its worker thinks it is (`WorkOf`), though
the worker may have lost its lease long ago, lets `Issue` be about an item that was
asked for. The action properties are then about who can write: a draft of a batch
comes from `Issue` alone (`IssuedCases`), which checks owner, slot and identities when it
has waited, and a new version of a creator from a person, from discovery, or from a save
of research under the locks it took (`VersionCases`, `SavedExplicitly`).

### Only model-checked

- *Everything with fairness* (`AcceptedWorkSettles`, `WorkflowSettles`, `ItemsSettle`, and the
  fairness of the contract in `ImplementsContract`): liveness and `ENABLED` are beyond
  the prover. The safety half of `ImplementsContract` is `LifecycleImplementsContract`.
- *The operators that need induction for themselves* (`RankFree` of `InferenceTasks`, compared
  with its reference by TLC): the library's induction theorems take an operator as a
  parameter, which no installed prover instantiates. `SetInduction` goes over sets of
  numbers instead, which covers loops with a counter or a bound.
- *The two properties that the code breaks* (`BoundaryFailureIsAmbiguous`, `DecisionsStand`
  of `CreatorAutomation`), of course: TLC has the counterexamples.

## Where the code and its documents disagree

1. **`external_boundary`.** ADR-0010 says that "a failure after the boundary becomes
   `ambiguous` and requires investigation". When the *process* dies there,
   `recover_expired_tasks` (`store.py:773`) dead-letters the task and leaves the action
   and its receipt *executing*, and the schedule *sending*, for ever. It errs on the
   safe side: nothing is sent twice, and no other email leaves. But nothing asks
   for the investigation, and all later emails are deferred until they expire.
2. **`creator_decisions`.** `_cancel_stopped_packets` selects pending packets in one
   transaction and cancels each in another. `_cancel_task_record` cancels queued tasks
   too, so that an operator's approval between the two is cancelled, although the
   comment at `creator_automation_store.py:209` says that "a concurrent operator
   decision or completed action is never overwritten".

The models show more, without a run of its own:

3. *A completed sync that read nothing* (`MailSync`, `Reopen` and `Finalize`). An
   execution for label A saves its page; one for label B, which may have lost its
   lease, resets the row (`creator_automation_store.py:936`, where no lease is
   checked); the first comes to its second `gmail_context`, which resets the row back,
   and `finalize_reply_sync` (`creator_automation_store.py:815`) finds neither a page
   token nor a pending message and stamps `last_complete_at`, with listed mail unread.
   `scripts/creator-automation-smoke.py:257` checks one execution alone for "Metadata
   progress incorrectly marked a full sync complete", and ADR-0037 says (lines 64 to
   66) that "a known completed read failure newer than the last complete sync blocks
   sending readiness and delegated authority until a later complete sync": a stamp of
   this kind would lift such a hold. `CompleteMeansRead` allows it to overtaken
   executions and to nobody else. `CreatorAutomation` does not follow it: there a
   complete pass has read its list.
4. *A submission that is reported and did not happen* (`ExternalActions`, `Heard`). ADR-0010
   says (lines 27 and 28) that "a failure after the boundary becomes `ambiguous`";
   `application_browser.py:440` returns normally whenever the address of the page has
   changed, confirmation or not, also when the POST was stopped by the filter of requests,
   and `action_worker.py:245` records success.
5. *A captcha that comes after the preflight* (`ExternalActions`, `FillForm`). ADR-0010 says
   (lines 30 and 31) that "CAPTCHA, login, multi-step flows, missing legal/consent answers,
   unknown required questions, and changed forms stop before submission"; captcha
   and login are looked for by the inspection (`application_browser.py:253`) and not again
   before the click (`application_browser.py:356` to 424).

Two observations that no document contradicts: a reserved packet that the boundary
refuses keeps its creator and stage reserved, so that no run writes to that
creator again; and `_authorize` does not read the address ledger, which only the
boundary does.

## What is not modelled

- *Text and scoring* (discovery, eligibility by wording, grounding, quality,
  composition and classification of messages, parsing of bodies and questions,
  `creator_intelligence.py`, `creator_learning.py`): pure functions of text. Their
  outcomes are inputs.
- *I/O* (SMTP dialogue, browser, OAuth, HTTP, public pages, health files, logs,
  readiness): the models have their outcomes, such as accepted, refused, lost,
  raised, or what a page showed.
- *Searches* (the handlers of `career.search` and `marketing.discover`, their source
  and request budgets, the due times of the periodic jobs): fetching and scoring; the
  rows they write appear by actions of their own (`SaveOpportunity`, `Discover`).
- *The accounting of tokens*, the tier of the account and the caches of the router.
- *Idempotent re-submission* of an existing key returns the stored row and changes
  nothing; it is left out of the queue and the workflows.
- *The stages question_reply and paid_offer* of creators.
- *The order of locks:* a transaction is atomic here, so that a cycle of waits cannot
  be seen. PostgreSQL breaks one by aborting a transaction, which the models cover
  as a step that does not happen.
- *Liveness of single external actions and of stopped creator runs*: a send that is
  never resolved stops later ones for ever (first finding), which makes the statement
  conditional on people, whom no fairness binds.
- *Views, web client, deployment, backups, MCP configuration*: no state of the services.

## Plan

Done, in this order:

1. `TaskContract`, `TaskLifecycle`, `TaskLifecycleProofs`: everything else runs on them.
2. `EffectContract`, `ExternalActions`: the irreversible part, then with the form of
   an application.
3. `EmailPacing`: the clock that 2 leaves out.
4. `Workflow`, composed with `TaskContract`.
5. `OutreachContract`, `CreatorAutomation`: the guards that 2 takes as facts.
6. `CareerAutopilot`: the other user of 2, with the states of opportunities and contacts.
7. `MailSync`: the passes that 5 takes as complete, and when they are not.
8. `InferenceTasks`, `InferenceTasksProofs`: goal planning, drafts and the ledger.
9. `CreatorPreparation`: reservations, batches, pilots.

Left: the stages *question_reply* and *paid_offer*; `LockOrder`, each transaction as the
sequence of locks it takes; an abstract specification of `MailSync` that
`CreatorAutomation` instantiates.

Proofs: every safety property of the nine models has its theorem. What is left of
them is listed under [only model-checked](#only-model-checked).
