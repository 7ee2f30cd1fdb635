--------------------------- MODULE CareerAutopilot ---------------------------
(***************************************************************************)
(* The career autopilot (career_autopilot_store.py, career_autopilot.py)   *)
(* with the tables it shares with people: one profile, its opportunities   *)
(* and drafts (career_store.py), and the emails to reviewed contacts       *)
(* (career_contact_store.py, career_contacts.py).                          *)
(*                                                                         *)
(* A run is started by Play and bound to the profile as it was then.  A    *)
(* periodic pass adds items for eligible opportunities, has their material *)
(* prepared and, in mode apply, approves the exact application on behalf   *)
(* of the run.  Versions stand for the hashes of what they version; the    *)
(* rolling 24 hours are a flag of each row that time takes away.  How an   *)
(* approved action executes is the matter of ExternalActions: here it      *)
(* passes the boundary or is refused there, and then has an outcome.       *)
(***************************************************************************)
EXTENDS Naturals, FiniteSets

CONSTANTS
  Opps,         \* rows of job_opportunities of the profile
  Target,       \* Target[o]: target_key of its apply_url
  Emailed,      \* no form on an allowed host, but a published hiring address
  MaxRuns,      \* bound: how often Play is pressed
  Scenarios,    \* bound: what a behaviour may consist of, see below
  DailyLimit,   \* DailyLimit[r]: max_applications_per_day of the r-th run
  PrepareLimit, \* PREPARATION_PROFILE_LIMIT
  BatchSize,    \* items advanced in one pass (LIMIT 10)
  Schedulers,   \* processes that run the periodic jobs
  MaxChanges    \* bound: edits by people, scans, late results, crashes

ASSUME CareerAssumption ==
  /\ IsFiniteSet(Opps) /\ Emailed \subseteq Opps
  /\ Scenarios \subseteq
       [plays: UNION {[1..n -> {"prepare", "apply"}] : n \in 1..MaxRuns},
        listed: SUBSET Opps, contacted: SUBSET Opps, changes: 0..MaxChanges,
        long: BOOLEAN, passes: SUBSET Schedulers]
  /\ MaxRuns \in Nat /\ PrepareLimit \in Nat /\ BatchSize \in Nat \ {0}
  /\ DailyLimit \in [1..MaxRuns -> Nat \ {0}]
  /\ MaxChanges \in Nat

Runs == 1..MaxRuns
Versions == 0..(MaxChanges + 1)

\* An action is named by what its idempotency key covers: who plans it, the
\* draft it uses (one per run and opportunity) and the content of that draft.
ActionIds == [opp: Opps, kind: {"apply", "contact"}, origin: Runs, version: Versions]
NoAction == [opp |-> "none"]

VARIABLES
  profile,     \* career_profiles: active, and the version of the scope fields
  runs,        \* career_autopilot_runs
  opps,        \* job_opportunities: version; new and in the posting window
  items,       \* career_autopilot_items
  prep,        \* the draft and preflight tasks of an item
  drafts,      \* drafts[o][r]: version of the content, 0 when there is none
  latest,      \* the run whose draft of an opportunity is the latest, or 0
  actions,     \* external_actions; ended: rejected, cancelled, expired or failed
  ledger,      \* career_autopilot_actions: reserved "recent"ly or the day is over
  contacts,    \* career_contacts, one for an opportunity
  scheduler,   \* the passes under way
  scenario,    \* the modes Play is pressed with, in order; the listings found,
               \* the contacts to review, the number of changes, and whether
               \* it is long enough for packets to expire and a day to pass;
               \* the schedulers at work
  changes      \* those that happened

careerVars == <<profile, opps, prep, drafts, latest, contacts>>
grantVars == <<runs, items, ledger>>
vars == <<careerVars, grantVars, actions, scheduler, scenario, changes>>

ItemStates ==
  {"none", "preparing", "waiting_budget", "needs_review", "prepared", "authorized"}
Open == {"preparing", "waiting_budget"}
\* Not to be done twice, whoever approved it.
Out == {"queued", "executing", "succeeded", "ambiguous"}
Put(f, x, value) == [y \in DOMAIN f \cup {x} |-> IF y = x THEN value ELSE f[y]]
Idle == [step |-> "idle", run |-> 0, todo |-> {}, opp |-> "none", verdict |-> "none",
         action |-> NoAction]

TypeOK ==
  /\ profile \in [active: BOOLEAN, version: Nat]
  /\ runs \in [Runs -> [state: {"none", "running", "paused", "expired"},
                        mode: {"none", "prepare", "apply"}, version: Nat, expired: BOOLEAN]]
  /\ opps \in [Opps -> [version: Nat, open: BOOLEAN]]
  /\ items \in [Runs -> [Opps -> [state: ItemStates, version: Nat, created: Nat,
                                  recent: BOOLEAN]]]
  /\ prep \in [Runs -> [Opps -> {"none", "open", "succeeded", "failed"}]]
  /\ drafts \in [Opps -> [Runs -> Versions]]
  /\ latest \in [Opps -> 0..MaxRuns]
  /\ DOMAIN actions \subseteq ActionIds /\ DOMAIN ledger \subseteq DOMAIN actions
  /\ \A a \in DOMAIN actions : actions[a] \in {"pending_approval", "ended"} \cup Out
  /\ \A a \in DOMAIN ledger : ledger[a] \in {"recent", "old"}
  /\ contacts \in [Opps -> [state: {"none", "reviewed", "ended"}, profile: Nat, opp: Nat]]
  /\ \A s \in Schedulers : scheduler[s].step \in
       {"idle", "select", "inspect", "prepare", "settle", "authorize"}

Init ==
  /\ profile = [active |-> TRUE, version |-> 0]
  /\ runs = [r \in Runs |->
       [state |-> "none", mode |-> "none", version |-> 0, expired |-> FALSE]]
  /\ scenario \in Scenarios
  /\ opps = [o \in Opps |-> [version |-> 0, open |-> o \in scenario.listed]]
  /\ items = [r \in Runs |-> [o \in Opps |->
       [state |-> "none", version |-> 0, created |-> 0, recent |-> FALSE]]]
  /\ prep = [r \in Runs |-> [o \in Opps |-> "none"]]
  /\ drafts = [o \in Opps |-> [r \in Runs |-> 0]]
  /\ latest = [o \in Opps |-> 0]
  /\ actions = <<>>
  /\ ledger = <<>>
  /\ contacts = [o \in Opps |-> [state |-> "none", profile |-> 0, opp |-> 0]]
  /\ scheduler = [s \in Schedulers |-> Idle]
  /\ changes = 0

Change == changes < scenario.changes /\ changes' = changes + 1

-----------------------------------------------------------------------------
(* What people do with the profile, the runs and the opportunities.        *)

\* play: the run before is paused, the new one is bound to the profile.
Play(r) ==
  /\ r \in DOMAIN scenario.plays
  /\ runs[r].state = "none" /\ \A q \in 1..(r - 1) : runs[q].state # "none"
  /\ runs' = [q \in Runs |->
       IF q = r THEN [state |-> "running", mode |-> scenario.plays[r], version |-> profile.version,
                      expired |-> FALSE]
       ELSE IF runs[q].state = "running" THEN [runs[q] EXCEPT !.state = "paused"]
       ELSE runs[q]]
  /\ profile' = [profile EXCEPT !.active = TRUE]
  /\ UNCHANGED <<opps, prep, drafts, latest, contacts>>
  /\ UNCHANGED <<items, ledger, actions, scheduler, scenario, changes>>

Pause ==
  /\ \E r \in Runs : runs[r].state = "running"
  /\ runs' = [r \in Runs |->
       IF runs[r].state = "running" THEN [runs[r] EXCEPT !.state = "paused"] ELSE runs[r]]
  /\ profile' = [profile EXCEPT !.active = FALSE]
  /\ UNCHANGED <<opps, prep, drafts, latest, contacts>>
  /\ UNCHANGED <<items, ledger, actions, scheduler, scenario, changes>>

\* update_profile replaces the fields a run is bound to, or only the switch.
UpdateProfile ==
  /\ Change
  /\ \E active \in BOOLEAN : \E version \in {profile.version, profile.version + 1} :
       profile' = [active |-> active, version |-> version]
  /\ profile' # profile
  /\ UNCHANGED <<opps, prep, drafts, latest, contacts>>
  /\ UNCHANGED <<grantVars, actions, scheduler, scenario>>

\* A person dismisses a listing or takes it up again; or it leaves the posting
\* window.
UpdateOpportunityState(o) ==
  /\ Change
  /\ o \in scenario.listed
  /\ opps' = [opps EXCEPT ![o].open = ~@]
  /\ UNCHANGED <<profile, prep, drafts, latest, contacts>>
  /\ UNCHANGED <<grantVars, actions, scheduler, scenario>>

\* save_opportunities: a scan found the listing again with other details.  It
\* keeps the status.
SaveOpportunity(o) ==
  /\ Change
  /\ opps' = [opps EXCEPT ![o].version = @ + 1]
  /\ UNCHANGED <<profile, prep, drafts, latest, contacts>>
  /\ UNCHANGED <<grantVars, actions, scheduler, scenario>>

-----------------------------------------------------------------------------
(* Material: the job worker runs the draft and preflight tasks.            *)

\* The tasks of an item end: its first draft is stored and the form inspected,
\* or one of them fails.
PreparationEnds(r, o) ==
  /\ prep[r][o] = "open"
  /\ \/ /\ prep' = [prep EXCEPT ![r][o] = "succeeded"]
        /\ drafts' = [drafts EXCEPT ![o][r] = 1]
        /\ latest' = [latest EXCEPT ![o] = r]
     \/ /\ prep' = [prep EXCEPT ![r][o] = "failed"]
        /\ UNCHANGED <<drafts, latest>>
  /\ UNCHANGED <<profile, opps, contacts>>
  /\ UNCHANGED <<grantVars, actions, scheduler, scenario, changes>>

\* save_application_draft asks for no lease: a run of the task that lost its
\* lease comes back later and replaces the content of the same row.
SaveApplicationDraft(r, o) ==
  /\ Change
  /\ drafts[o][r] > 0
  /\ drafts' = [drafts EXCEPT ![o][r] = @ + 1]
  /\ UNCHANGED <<profile, opps, prep, latest, contacts>>
  /\ UNCHANGED <<grantVars, actions, scheduler, scenario>>

-----------------------------------------------------------------------------
(* The periodic pass over one run.                                         *)

\* The action made of the latest draft of o.
PlannedAction(o, kind) ==
  [opp |-> o, kind |-> kind, origin |-> latest[o], version |-> drafts[o][latest[o]]]

\* eligibility_reason, for a scope of given state, expiry and profile version.
InScope(state, expired, version, o) ==
  /\ state = "running" /\ ~expired
  /\ profile.active /\ profile.version = version
  /\ opps[o].open

Eligible(r, o) == InScope(runs[r].state, runs[r].expired, runs[r].version, o)

\* Mutant of PreparedRecently: every run has an allowance of its own.
PreparedOfNewest ==
  {x \in Runs \X Opps : items[x[1]][x[2]].recent /\ runs[x[1]].state = "running"}

PreparedRecently == {x \in Runs \X Opps : items[x[1]][x[2]].recent}

Smaller(m, n) == IF m < n THEN m ELSE n

\* preparation_capacity
Capacity(r) ==
  LET own == {x \in PreparedRecently : x[1] = r}
      left(limit, n) == IF n < limit THEN limit - n ELSE 0
  IN  Smaller(left(PrepareLimit, Cardinality(PreparedRecently)),
              left(Smaller(PrepareLimit, 2 * DailyLimit[r]), Cardinality(own)))

Ending(r) == runs[r].expired \/ ~profile.active \/ profile.version # runs[r].version

\* The run is over: the profile's switch goes off with it.
EndRun(s, r) ==
  /\ scheduler[s].step = "idle"
  /\ runs[r].state = "running" /\ Ending(r)
  /\ runs' = [runs EXCEPT ![r].state =
       IF ~profile.active \/ profile.version # runs[r].version THEN "paused" ELSE "expired"]
  /\ profile' = [profile EXCEPT !.active = FALSE]
  /\ UNCHANGED <<opps, prep, drafts, latest, contacts>>
  /\ UNCHANGED <<items, ledger, actions, scheduler, scenario, changes>>

\* Items for eligible opportunities up to the capacity, and the tasks that
\* prepare them, in one transaction.
Reconcile(s, r) ==
  /\ scheduler[s].step = "idle"
  /\ runs[r].state = "running" /\ ~Ending(r)
  /\ LET fresh == {o \in Opps : Eligible(r, o) /\ items[r][o].state = "none"}
         number == Smaller(Capacity(r), Cardinality(fresh))
         stamp == 1 + Cardinality({o \in Opps : items[r][o].state # "none"})
     IN  \E new \in SUBSET fresh :
           /\ Cardinality(new) = number
           /\ items' = [items EXCEPT ![r] = [o \in Opps |->
                IF o \in new
                  THEN [state |-> "preparing", version |-> opps[o].version,
                        created |-> stamp, recent |-> TRUE]
                  ELSE @[o]]]
           /\ prep' = [prep EXCEPT ![r] = [o \in Opps |->
                IF o \in new THEN "open" ELSE @[o]]]
  /\ scheduler' = [scheduler EXCEPT ![s] = [Idle EXCEPT !.step = "select", !.run = r]]
  /\ UNCHANGED <<profile, opps, drafts, latest, contacts>>
  /\ UNCHANGED <<runs, ledger, actions, scenario, changes>>

\* The open items, the oldest first, as they are after the commit.
SelectItems(s) ==
  LET r == scheduler[s].run
      open == {o \in Opps : items[r][o].state \in Open}
  IN  /\ scheduler[s].step = "select"
      /\ \E todo \in SUBSET open :
           /\ Cardinality(todo) = Smaller(BatchSize, Cardinality(open))
           /\ \A o \in todo, p \in open \ todo : items[r][o].created <= items[r][p].created
           /\ scheduler' = [scheduler EXCEPT ![s] =
                IF todo = {} THEN Idle
                ELSE [Idle EXCEPT !.step = "inspect", !.run = r, !.todo = todo]]
      /\ UNCHANGED <<careerVars, grantVars, actions, scenario, changes>>

\* The pass goes on with the next item, or is done.
NextItem(s) ==
  LET todo == scheduler[s].todo \ {scheduler[s].opp}
  IN  scheduler' = [scheduler EXCEPT ![s] =
        IF todo = {} THEN Idle
        ELSE [Idle EXCEPT !.step = "inspect", !.run = scheduler[s].run, !.todo = todo]]

ToSettle(s, verdict) ==
  scheduler' = [scheduler EXCEPT ![s].step = "settle", ![s].verdict = verdict]

\* _advance_item looks at the tasks and at the listing.
Inspect(s) ==
  LET r == scheduler[s].run
  IN  /\ scheduler[s].step = "inspect"
      /\ \E o \in scheduler[s].todo :
           /\ \A p \in scheduler[s].todo : items[r][o].created <= items[r][p].created
           /\ LET here == [scheduler[s] EXCEPT !.opp = o]
                  rest == scheduler[s].todo \ {o}
                  changed == opps[o].version # items[r][o].version
              IN  scheduler' = [scheduler EXCEPT ![s] =
                    IF prep[r][o] = "open"
                      THEN IF rest = {} THEN Idle ELSE [here EXCEPT !.opp = "none", !.todo = rest]
                    ELSE IF prep[r][o] = "failed" \/ changed
                      THEN [here EXCEPT !.step = "settle", !.verdict = "needs_review"]
                    ELSE [here EXCEPT !.step = "prepare"]]
      /\ UNCHANGED <<careerVars, grantVars, actions, scenario, changes>>

\* Mutant of Verdict: an action that ended undecided is waited for.
VerdictWaits(state) ==
  CASE state \in {"queued", "executing", "succeeded"} -> "prepared"
    [] state = "ambiguous" -> "needs_review"
    [] OTHER -> "authorize"

\* What becomes of an item, by the state of its exact action.
Verdict(state) ==
  CASE state \in {"queued", "executing", "succeeded"} -> "prepared"
    [] state \in {"ended", "ambiguous"} -> "needs_review"
    [] OTHER -> "authorize"

\* The exact action is created, or found when it was created before.
PrepareAction(s) ==
  LET r == scheduler[s].run
      o == scheduler[s].opp
      a == PlannedAction(o, "apply")
      state == IF a \in DOMAIN actions THEN actions[a] ELSE "pending_approval"
  IN  /\ scheduler[s].step = "prepare"
      /\ actions' = Put(actions, a, state)
      /\ IF Verdict(state) # "authorize"
           THEN ToSettle(s, Verdict(state)) /\ UNCHANGED items
         ELSE IF runs[r].mode = "prepare"
           THEN ToSettle(s, "prepared") /\ UNCHANGED items
         ELSE /\ scheduler' = [scheduler EXCEPT ![s].step = "authorize", ![s].action = a]
              /\ items' = [items EXCEPT ![r][o].state = IF @ \in Open THEN "preparing" ELSE @]
      /\ UNCHANGED <<careerVars, runs, ledger, scenario, changes>>

\* A question without an answer, a stale form, weak material, no address.
PreparationRefused(s) ==
  /\ scheduler[s].step = "prepare"
  /\ ToSettle(s, "needs_review")
  /\ UNCHANGED <<careerVars, grantVars, actions, scenario, changes>>

\* _item_state touches open items only.
SettleItem(s) ==
  LET r == scheduler[s].run
      o == scheduler[s].opp
  IN  /\ scheduler[s].step = "settle"
      /\ items' = [items EXCEPT ![r][o].state =
                     IF @ \in Open THEN scheduler[s].verdict ELSE @]
      /\ NextItem(s)
      /\ UNCHANGED <<careerVars, runs, ledger, actions, scenario, changes>>

-----------------------------------------------------------------------------
(* Approval on behalf of the run.                                          *)

\* Mutant of Used: a new run starts with a full budget.
UsedByRun(r) == {a \in DOMAIN ledger : ledger[a] = "recent" /\ a.origin = r}

\* Reservations of the profile in the rolling day, whichever run made them.
Used(r) == {a \in DOMAIN ledger : ledger[a] = "recent"}

\* Mutant of OutBefore: a listing imported twice counts as two jobs.
OutForListing(a) ==
  \E b \in DOMAIN actions \ {a} : b.opp = a.opp /\ actions[b] \in Out

OutBefore(a) ==
  \E b \in DOMAIN actions \ {a} :
    Target[b.opp] = Target[a.opp] /\ actions[b] \in Out

Reserved(o) == \E b \in DOMAIN ledger : Target[b.opp] = Target[o]

\* The scope, read again under the locks of the profile and of the run.
Authorized(r, o, a) ==
  /\ Eligible(r, o) /\ runs[r].mode = "apply"
  /\ opps[o].version = items[r][o].version
  /\ a.origin = r
  /\ ~OutBefore(a)

SetItem(r, o, state) == items' = [items EXCEPT ![r][o].state = state]

Authorize(s) ==
  LET r == scheduler[s].run
      o == scheduler[s].opp
      a == scheduler[s].action
      scoped == Eligible(r, o) /\ opps[o].version = items[r][o].version
      full == Cardinality(Used(r)) >= DailyLimit[r]
  IN  /\ scheduler[s].step = "authorize"
      /\ \/ /\ items[r][o].state \notin Open
            /\ NextItem(s) /\ UNCHANGED <<items, ledger, actions>>
         \/ /\ items[r][o].state \in Open /\ scoped /\ full
            /\ SetItem(r, o, "waiting_budget")
            /\ NextItem(s) /\ UNCHANGED <<ledger, actions>>
         \/ /\ items[r][o].state \in Open
            /\ ~Authorized(r, o, a) /\ ~(scoped /\ full)
            /\ ToSettle(s, "needs_review") /\ UNCHANGED <<items, ledger, actions>>
         \/ /\ items[r][o].state \in Open
            /\ Authorized(r, o, a) /\ ~full /\ Reserved(o)
            /\ SetItem(r, o, "needs_review")
            /\ NextItem(s) /\ UNCHANGED <<ledger, actions>>
         \/ /\ items[r][o].state \in Open
            /\ Authorized(r, o, a) /\ ~full /\ ~Reserved(o)
            /\ actions[a] = "pending_approval"
            /\ ledger' = Put(ledger, a, "recent")
            /\ actions' = [actions EXCEPT ![a] = "queued"]
            /\ SetItem(r, o, "authorized")
            /\ NextItem(s)
      /\ UNCHANGED <<careerVars, runs, scenario, changes>>

\* decide_task refuses: a person decided meanwhile, the packet expired, or an
\* email has no slot before it does.  The exception ends the whole pass.
AuthorizationRaises(s) ==
  LET r == scheduler[s].run
      o == scheduler[s].opp
      a == scheduler[s].action
  IN  /\ scheduler[s].step = "authorize"
      /\ items[r][o].state \in Open
      /\ Authorized(r, o, a) /\ Cardinality(Used(r)) < DailyLimit[r] /\ ~Reserved(o)
      /\ actions[a] # "pending_approval" \/ o \in Emailed
      /\ scheduler' = [scheduler EXCEPT ![s] = Idle]
      /\ UNCHANGED <<careerVars, grantVars, actions, scenario, changes>>

CrashScheduler(s) ==
  /\ Change
  /\ scheduler[s].step # "idle"
  /\ scheduler' = [scheduler EXCEPT ![s] = Idle]
  /\ UNCHANGED <<careerVars, grantVars, actions, scenario>>

-----------------------------------------------------------------------------
(* Contacts a person reviewed, and decisions a person takes.               *)

\* A review is bound to the profile and the listing as they are.
ReviewContact(o) ==
  /\ Change
  /\ o \in scenario.contacted
  /\ contacts[o].state # "reviewed"
  /\ InScope("running", FALSE, profile.version, o)
  /\ contacts' = [contacts EXCEPT ![o] =
       [state |-> "reviewed", profile |-> profile.version, opp |-> opps[o].version]]
  /\ UNCHANGED <<profile, opps, prep, drafts, latest>>
  /\ UNCHANGED <<grantVars, actions, scheduler, scenario>>

\* Revoked, or the validity is over.
RevokeContact(o) ==
  /\ Change
  /\ contacts[o].state = "reviewed"
  /\ contacts' = [contacts EXCEPT ![o].state = "ended"]
  /\ UNCHANGED <<profile, opps, prep, drafts, latest>>
  /\ UNCHANGED <<grantVars, actions, scheduler, scenario>>

\* contact_scope_error
ContactInScope(o) ==
  /\ contacts[o].state = "reviewed"
  /\ contacts[o].opp = opps[o].version
  /\ InScope("running", FALSE, contacts[o].profile, o)

Mail(a) == a.kind = "contact" \/ a.opp \in Emailed
Active == {"pending_approval"} \cup Out

\* prepare_contact_email: one packet for a job and address, ever.
PrepareContactEmail(o) ==
  LET a == PlannedAction(o, "contact")
  IN  /\ ContactInScope(o)
      /\ latest[o] # 0
      /\ \A b \in DOMAIN actions :
           /\ b.kind = "contact" => Target[b.opp] # Target[o]
           /\ b.opp = o /\ Mail(b) => actions[b] \notin Active
      /\ actions' = Put(actions, a, "pending_approval")
      /\ UNCHANGED <<careerVars, grantVars, scheduler, scenario, changes>>

\* decide_task for a person.
Decide(a) ==
  /\ actions[a] = "pending_approval"
  /\ \E decision \in {"queued", "ended"} : actions' = [actions EXCEPT ![a] = decision]
  /\ UNCHANGED <<careerVars, grantVars, scheduler, scenario, changes>>

-----------------------------------------------------------------------------
(* The boundary, as the action worker passes it.                           *)

Begun == {"executing", "succeeded", "ambiguous"}

DraftIntact(a) == drafts[a.opp][a.origin] = a.version

\* Mutant of AutopilotGuard: an approval stays good until it is used.
GuardOnApproval(a) == a \in DOMAIN ledger => DraftIntact(a)

\* guard_autopilot_action
AutopilotGuard(a) ==
  a \in DOMAIN ledger =>
    /\ Eligible(a.origin, a.opp) /\ runs[a.origin].mode = "apply"
    /\ opps[a.opp].version = items[a.origin][a.opp].version
    /\ DraftIntact(a)

\* guard_career_contact_action
ContactGuard(a) == a.kind = "contact" => ContactInScope(a.opp) /\ DraftIntact(a)

\* guard_email_suppression for emails about a job; the receipt for its form.
SentBefore(a) ==
  \E b \in DOMAIN actions \ {a} :
    /\ actions[b] \in Begun
    /\ \/ Mail(a) /\ Mail(b) /\ Target[b.opp] = Target[a.opp]
       \/ ~Mail(a) /\ ~Mail(b) /\ b.opp = a.opp

MayBegin(a) ==
  AutopilotGuard(a) /\ ContactGuard(a) /\ ~SentBefore(a)

BeginSideEffect(a) ==
  /\ actions[a] = "queued"
  /\ actions' = [actions EXCEPT ![a] = IF MayBegin(a) THEN "executing" ELSE "ended"]
  /\ UNCHANGED <<careerVars, grantVars, scheduler, scenario, changes>>

\* An accepted application marks its listing; a person's email does not,
\* unless it went to a reviewed contact or was the autopilot's.
EndSideEffect(a) ==
  /\ actions[a] = "executing"
  /\ \/ /\ actions' = [actions EXCEPT ![a] = "succeeded"]
        /\ opps' = IF a.opp \notin Emailed \/ a.kind = "contact" \/ a \in DOMAIN ledger
                     THEN [opps EXCEPT ![a.opp].open = FALSE] ELSE opps
     \/ /\ actions' = [actions EXCEPT ![a] = "ambiguous"]
        /\ UNCHANGED opps
  /\ UNCHANGED <<profile, prep, drafts, latest, contacts>>
  /\ UNCHANGED <<grantVars, scheduler, scenario, changes>>

-----------------------------------------------------------------------------
(* Time.                                                                   *)

RunExpires(r) ==
  /\ Change
  /\ runs[r].state = "running" /\ ~runs[r].expired
  /\ runs' = [runs EXCEPT ![r].expired = TRUE]
  /\ UNCHANGED <<careerVars, items, ledger, actions, scheduler, scenario>>

\* An expired packet can be neither approved nor executed.
PacketExpires(a) ==
  /\ scenario.long
  /\ actions[a] \in {"pending_approval", "queued"}
  /\ actions' = [actions EXCEPT ![a] = "ended"]
  /\ UNCHANGED <<careerVars, grantVars, scheduler, scenario, changes>>

\* A day passed since the items of one pass were inserted, the oldest first.
ItemsLeaveWindow(r, stamp) ==
  LET oldest == {o \in Opps : items[r][o].recent /\ items[r][o].created = stamp}
  IN  /\ scenario.long
      /\ oldest # {}
      /\ \A x \in PreparedRecently :
           x[1] > r \/ (x[1] = r /\ items[r][x[2]].created >= stamp)
      /\ items' = [items EXCEPT ![r] = [o \in Opps |->
           IF o \in oldest THEN [@[o] EXCEPT !.recent = FALSE] ELSE @[o]]]
      /\ UNCHANGED <<careerVars, runs, ledger, actions, scheduler, scenario, changes>>

\* A reservation is younger than its item.
ReservationLeavesWindow(a) ==
  /\ scenario.long
  /\ ledger[a] = "recent" /\ ~items[a.origin][a.opp].recent
  /\ ledger' = [ledger EXCEPT ![a] = "old"]
  /\ UNCHANGED <<careerVars, runs, items, actions, scheduler, scenario, changes>>

-----------------------------------------------------------------------------

SchedulerStep(s) ==
  \/ SelectItems(s) \/ Inspect(s) \/ PrepareAction(s) \/ PreparationRefused(s)
  \/ SettleItem(s) \/ Authorize(s) \/ AuthorizationRaises(s)

Pass(s) == s \in scenario.passes /\ \E r \in Runs : EndRun(s, r) \/ Reconcile(s, r)

People ==
  \/ Pause \/ UpdateProfile
  \/ \E r \in Runs : Play(r)
  \/ \E o \in Opps :
       \/ UpdateOpportunityState(o) \/ ReviewContact(o) \/ RevokeContact(o)
       \/ PrepareContactEmail(o)
  \/ \E a \in DOMAIN actions : Decide(a)

Workers ==
  \/ \E o \in Opps : SaveOpportunity(o)
  \/ \E r \in Runs, o \in Opps : SaveApplicationDraft(r, o) \/ PreparationEnds(r, o)
  \/ \E a \in DOMAIN actions : BeginSideEffect(a) \/ EndSideEffect(a)

Day ==
  \/ \E a \in DOMAIN actions : PacketExpires(a)
  \/ \E a \in DOMAIN ledger : ReservationLeavesWindow(a)
  \/ \E r \in Runs, stamp \in 1..Cardinality(Opps) : ItemsLeaveWindow(r, stamp)

Time == Day \/ \E r \in Runs : RunExpires(r)

Next ==
  \/ People \/ Workers \/ Time
  \/ \E s \in Schedulers : SchedulerStep(s) \/ Pass(s) \/ CrashScheduler(s)

Spec == Init /\ [][Next]_vars

\* The scheduler thread polls, preparation ends one way or the other
\* (AcceptedWorkSettles of TaskLifecycle), and time passes.
Fairness ==
  /\ \A s \in Schedulers : WF_vars(SchedulerStep(s)) /\ WF_vars(Pass(s))
  /\ WF_vars(\E r \in Runs, o \in Opps : PreparationEnds(r, o))
  /\ WF_vars(Day)

FairSpec == Spec /\ Fairness

-----------------------------------------------------------------------------
(* Properties.                                                             *)

\* What a run approved begins only while the run goes on, for the profile, the
\* listing and the draft it was approved for: a pause, an edit, a dismissal or
\* a late draft of a lost lease between approval and boundary stops it
\* (guard_autopilot_action).
StaysInScope ==
  [][\A a \in DOMAIN ledger :
       actions[a] = "queued" /\ actions'[a] = "executing"
       => /\ runs[a.origin].state = "running" /\ ~runs[a.origin].expired
          /\ profile = [active |-> TRUE, version |-> runs[a.origin].version]
          /\ opps[a.opp].open
          /\ opps[a.opp].version = items[a.origin][a.opp].version
          /\ DraftIntact(a)]_vars

\* In no rolling day more applications are reserved, or more items prepared,
\* than allowed, however often Play is pressed and however many schedulers
\* work (preparation_capacity, _authorize).  A run reserves under the limit of
\* its own settings: the largest of them is the bound.
BudgetsKept ==
  /\ Cardinality({x \in Runs \X Opps : items[x[1]][x[2]].recent}) <= PrepareLimit
  /\ \E r \in Runs : Cardinality({a \in DOMAIN ledger : ledger[a] = "recent"}) <= DailyLimit[r]

\* The autopilot approves nothing for a job that something else is out for,
\* under whatever listing; and one address gets one email about a job,
\* whether a run or a reviewed contact planned it (_authorize,
\* guard_email_suppression).
NothingTwice ==
  [][\A a \in DOMAIN actions :
       /\ a \in DOMAIN ledger' \ DOMAIN ledger =>
            \A b \in DOMAIN actions \ {a} :
              Target[b.opp] = Target[a.opp] => actions[b] \notin Out
       /\ Mail(a) /\ actions[a] = "queued" /\ actions'[a] = "executing" =>
            \A b \in DOMAIN actions \ {a} :
              Mail(b) /\ Target[b.opp] = Target[a.opp] => actions[b] \notin Begun]_vars

\* Every item of a run is settled or the run ends: an item whose approval
\* fails in every pass, and takes the pass with it, does so no longer than
\* its packet lives, and a full budget is not full for ever
\* (_reconcile_run, _advance_item).
ItemsSettle ==
  LET unsettled ==
        \E r \in Runs : runs[r].state = "running" /\ \E o \in Opps : items[r][o].state \in Open
  IN  scenario.long /\ unsettled ~> ~unsettled
=============================================================================
