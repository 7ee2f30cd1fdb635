------------------------ MODULE CareerAutopilotProofs ------------------------
(***************************************************************************)
(* Proofs about CareerAutopilot: what a pass is at is what the tables say, *)
(* the budgets of a rolling day hold across runs and schedulers, what a    *)
(* run approved begins only in its scope, and nothing is done twice.       *)
(***************************************************************************)
EXTENDS CareerAutopilot, FiniteSetTheorems, TLAPS

-----------------------------------------------------------------------------
(* The inductive invariant.                                                *)

\* The rows of the tables.
RunRow == [state: {"none", "running", "paused", "expired"},
           mode: {"none", "prepare", "apply"}, version: Nat, expired: BOOLEAN]
ContactRow == [state: {"none", "reviewed", "ended"}, profile: Nat, opp: Nat]
ItemRow == [state: ItemStates, version: Nat, created: Nat, recent: BOOLEAN]
States == {"pending_approval", "ended"} \cup Out
PassRow == [step: {"idle", "select", "inspect", "prepare", "settle", "authorize"},
            run: 0..MaxRuns, todo: SUBSET Opps, opp: Opps \cup {"none"},
            verdict: {"none", "needs_review", "prepared"}, action: ActionIds \cup {NoAction}]

\* The scene a behaviour plays, and what people and time change.
Frame ==
  /\ scenario \in Scenarios
  /\ changes \in 0..MaxChanges
  /\ profile \in [active: BOOLEAN, version: Nat]
  /\ runs \in [Runs -> RunRow]
  /\ opps \in [Opps -> [version: Nat, open: BOOLEAN]]
  /\ contacts \in [Opps -> ContactRow]

\* An item is there as long as its tasks are, and material that was prepared
\* left a draft.
Material ==
  /\ items \in [Runs -> [Opps -> ItemRow]]
  /\ prep \in [Runs -> [Opps -> {"none", "open", "succeeded", "failed"}]]
  /\ drafts \in [Opps -> [Runs -> Nat]]
  /\ latest \in [Opps -> 0..MaxRuns]
  /\ \A r \in Runs, o \in Opps :
       /\ drafts[o][r] <= changes + 1
       /\ items[r][o].state # "none" => prep[r][o] # "none"
       /\ prep[r][o] = "succeeded" => latest[o] \in Runs

\* Every reservation is one of an action that is there, and there are finitely
\* many.
Grants ==
  /\ DOMAIN actions \subseteq ActionIds /\ DOMAIN ledger \subseteq DOMAIN actions
  /\ IsFiniteSet(DOMAIN ledger)
  /\ \A a \in DOMAIN actions : actions[a] \in States
  /\ \A a \in DOMAIN ledger : ledger[a] \in {"recent", "old"}

\* What a scheduler remembers of the item it is at.
PassOf(row) ==
  /\ row.step \in {"idle", "select", "inspect", "prepare", "settle", "authorize"}
  /\ row.step # "idle" =>
       row.run \in Runs /\ row.todo \in SUBSET Opps
       /\ \A o \in row.todo : items[row.run][o].state # "none"
  /\ row.step \in {"prepare", "settle", "authorize"} =>
       row.opp \in Opps /\ items[row.run][row.opp].state # "none"
  /\ row.step = "prepare" => prep[row.run][row.opp] = "succeeded"
  /\ row.step = "settle" => row.verdict \in {"needs_review", "prepared"}
  /\ row.step = "authorize" => row.action \in DOMAIN actions

Passes ==
  /\ DOMAIN scheduler = Schedulers
  /\ \A s \in Schedulers :
       scheduler[s] \in PassRow /\ PassOf(scheduler[s])

IInv == Frame /\ Material /\ Grants /\ Passes /\ BudgetsKept
-----------------------------------------------------------------------------
(* What a step may touch.                                                  *)

\* The mode Play is pressed with.
LEMMA PlaysTyped ==
  ASSUME scenario \in Scenarios
  PROVE  /\ scenario.changes \in 0..MaxChanges
         /\ 1 \in Runs
         /\ \A r \in DOMAIN scenario.plays : scenario.plays[r] \in {"prepare", "apply"}
<1> DEFINE Plays == UNION {[1..n -> {"prepare", "apply"}] : n \in 1..MaxRuns}
<1>1. scenario \in [plays: Plays, listed: SUBSET Opps, contacted: SUBSET Opps,
                    changes: 0..MaxChanges, long: BOOLEAN, passes: SUBSET Schedulers]
  BY CareerAssumption
<1>2. scenario.plays \in Plays /\ scenario.changes \in 0..MaxChanges
  BY <1>1
<1>3. PICK n \in 1..MaxRuns : scenario.plays \in [1..n -> {"prepare", "apply"}]
  BY <1>2
<1>4. QED
  BY <1>2, <1>3, CareerAssumption DEF Runs

\* A step of a pass leaves profile, listings, material, contacts and runs alone.
LEMMA PassesTouch ==
  ASSUME NEW s \in Schedulers, SchedulerStep(s) \/ CrashScheduler(s)
  PROVE  UNCHANGED <<careerVars, runs, scenario>> /\ (changes' = changes \/ Change)
<1>1. CASE Inspect(s)
  BY <1>1 DEF Inspect, grantVars
<1>2. CASE PrepareAction(s)
  BY <1>2 DEF PrepareAction
<1>3. CASE PreparationRefused(s)
  BY <1>3 DEF PreparationRefused, grantVars
<1>4. CASE SettleItem(s)
  BY <1>4 DEF SettleItem
<1>5. CASE Authorize(s)
  BY <1>5 DEF Authorize
<1>6. CASE AuthorizationRaises(s)
  BY <1>6 DEF AuthorizationRaises, grantVars
<1>7. CASE CrashScheduler(s)
  BY <1>7 DEF CrashScheduler, grantVars
<1>8. CASE SelectItems(s)
  BY <1>8 DEF SelectItems, grantVars
<1>9. QED
  BY <1>1, <1>2, <1>3, <1>4, <1>5, <1>6, <1>7, <1>8 DEF SchedulerStep

\* Changes are counted.
Counted == scenario' = scenario /\ changes' \in {changes} \cup ({changes + 1} \cap 0..MaxChanges)

\* No step exceeds the changes of the scene.
LEMMA ChangesCounted ==
  ASSUME Frame, [Next]_vars
  PROVE  Counted
<1>1. scenario.changes \in 0..MaxChanges /\ MaxChanges \in Nat /\ changes \in 0..MaxChanges
  BY PlaysTyped, CareerAssumption DEF Frame
<1>2. Change => changes' \in {changes} \cup ({changes + 1} \cap 0..MaxChanges)
  BY <1>1 DEF Change
<1> USE DEF Counted
<1>3. CASE UNCHANGED vars
  BY <1>3 DEF vars
<1>4. CASE People
  BY <1>2, <1>4 DEF People, Pause, UpdateProfile, Play, UpdateOpportunityState, ReviewContact,
     RevokeContact, PrepareContactEmail, Decide
<1>5. CASE Workers
  BY <1>2, <1>5 DEF Workers, SaveOpportunity, SaveApplicationDraft, PreparationEnds,
     BeginSideEffect, EndSideEffect
<1>6. CASE Time
  BY <1>2, <1>6 DEF Time, Day, PacketExpires, ReservationLeavesWindow, ItemsLeaveWindow, RunExpires
<1>7. ASSUME NEW s \in Schedulers, SchedulerStep(s) \/ CrashScheduler(s) PROVE Counted
  BY <1>2, <1>7, PassesTouch
<1>8. ASSUME NEW s \in Schedulers, NEW r \in Runs, EndRun(s, r) \/ Reconcile(s, r) PROVE Counted
  <2>1. EndRun(s, r) => scenario' = scenario /\ changes' = changes
    BY DEF EndRun
  <2>2. Reconcile(s, r) => scenario' = scenario /\ changes' = changes
    BY DEF Reconcile
  <2>3. QED
    BY <1>8, <2>1, <2>2
<1>9. QED
  BY <1>3, <1>4, <1>5, <1>6, <1>7, <1>8 DEF Next, Pass

\* The profile and the listings: people, scans and outcomes.
LEMMA ListingsKept ==
  ASSUME Frame, [Next]_vars
  PROVE  /\ profile' \in [active: BOOLEAN, version: Nat]
         /\ opps' \in [Opps -> [version: Nat, open: BOOLEAN]]
<1> DEFINE P == profile \in [active: BOOLEAN, version: Nat]
           O == opps \in [Opps -> [version: Nat, open: BOOLEAN]]
<1>1. P /\ O
  BY DEF Frame
<1>2. (profile' = profile => P') /\ (opps' = opps => O')
  BY <1>1
<1>3. CASE UNCHANGED vars
  BY <1>2, <1>3 DEF vars, careerVars
<1>4. CASE People
  <2>1. CASE Pause \/ \E r \in Runs : Play(r)
    BY <1>1, <2>1 DEF Pause, Play
  <2>2. CASE UpdateProfile
    BY <1>1, <2>2 DEF UpdateProfile
  <2>3. ASSUME NEW o \in Opps, UpdateOpportunityState(o) PROVE P' /\ O'
    <3>1. PICK q : q = opps[o] /\ q \in [version: Nat, open: BOOLEAN]
      BY <1>1
    <3>2. O'
      BY <1>1, <2>3 DEF UpdateOpportunityState
    <3>3. QED
      BY <1>2, <2>3, <3>2 DEF UpdateOpportunityState
  <2>4. ASSUME NEW o \in Opps, ReviewContact(o) \/ RevokeContact(o) PROVE P' /\ O'
    <3>1. profile' = profile /\ opps' = opps
      BY <2>4 DEF ReviewContact, RevokeContact
    <3>2. QED
      BY <1>2, <3>1
  <2>5. CASE (\E o \in Opps : PrepareContactEmail(o)) \/ (\E a \in DOMAIN actions : Decide(a))
    <3>1. profile' = profile /\ opps' = opps
      BY <2>5 DEF PrepareContactEmail, Decide, careerVars
    <3>2. QED
      BY <1>2, <3>1
  <2>6. QED
    BY <1>4, <2>1, <2>2, <2>3, <2>4, <2>5 DEF People
<1>5. CASE Workers
  <2>1. ASSUME NEW o \in Opps, SaveOpportunity(o) PROVE P' /\ O'
    <3>1. O'
      BY <1>1, <2>1 DEF SaveOpportunity
    <3>2. QED
      BY <1>2, <2>1, <3>1 DEF SaveOpportunity
  <2>2. ASSUME NEW r \in Runs, NEW o \in Opps, SaveApplicationDraft(r, o) \/ PreparationEnds(r, o)
        PROVE P' /\ O'
    <3>1. profile' = profile /\ opps' = opps
      BY <2>2 DEF SaveApplicationDraft, PreparationEnds
    <3>2. QED
      BY <1>2, <3>1
  <2>3. ASSUME NEW a \in DOMAIN actions, BeginSideEffect(a) PROVE P' /\ O'
    <3>1. profile' = profile /\ opps' = opps
      BY <2>3 DEF BeginSideEffect, careerVars
    <3>2. QED
      BY <1>2, <3>1
  <2>4. ASSUME NEW a \in DOMAIN actions, EndSideEffect(a) PROVE P' /\ O'
    <3>1. profile' = profile /\ (opps' = opps \/ opps' = [opps EXCEPT ![a.opp].open = FALSE])
      BY <2>4 DEF EndSideEffect
    <3> DEFINE closed == [opps EXCEPT ![a.opp].open = FALSE]
    <3>2. closed \in [Opps -> [version: Nat, open: BOOLEAN]]
      <4>1. \A o \in Opps : closed[o] = IF o = a.opp THEN [opps[o] EXCEPT !.open = FALSE] ELSE opps[o]
        BY <1>1
      <4>2. \A o \in Opps : closed[o] \in [version: Nat, open: BOOLEAN]
        BY <1>1, <4>1
      <4>3. QED
        BY <1>1, <4>2
    <3>3. QED
      BY <1>2, <3>1, <3>2
  <2>5. QED
    BY <1>5, <2>1, <2>2, <2>3, <2>4 DEF Workers
<1>6. CASE Time
  <2>1. profile' = profile /\ opps' = opps
    BY <1>6 DEF Time, Day, PacketExpires, ReservationLeavesWindow, ItemsLeaveWindow,
       RunExpires, careerVars
  <2>2. QED
    BY <1>2, <2>1
<1>7. ASSUME NEW s \in Schedulers, SchedulerStep(s) \/ CrashScheduler(s) PROVE P' /\ O'
  <2>1. profile' = profile /\ opps' = opps
    BY <1>7, PassesTouch DEF careerVars
  <2>2. QED
    BY <1>2, <2>1
<1>8. ASSUME NEW s \in Schedulers, NEW r \in Runs, EndRun(s, r) PROVE P' /\ O'
  BY <1>1, <1>8 DEF EndRun
<1>9. ASSUME NEW s \in Schedulers, NEW r \in Runs, Reconcile(s, r) PROVE P' /\ O'
  <2>1. profile' = profile /\ opps' = opps
    BY <1>9 DEF Reconcile
  <2>2. QED
    BY <1>2, <2>1
<1>10. QED
  BY <1>3, <1>4, <1>5, <1>6, <1>7, <1>8, <1>9 DEF Next, Pass

\* The runs and the contacts.
LEMMA RunsKept ==
  ASSUME Frame, [Next]_vars
  PROVE  runs' \in [Runs -> RunRow] /\ contacts' \in [Opps -> ContactRow]
<1> DEFINE R == runs \in [Runs -> RunRow]
           C == contacts \in [Opps -> ContactRow]
<1>1. R /\ C
  BY DEF Frame, RunRow, ContactRow
<1>2. (runs' = runs => R') /\ (contacts' = contacts => C')
  BY <1>1
<1>3. ASSUME NEW q \in RunRow PROVE [q EXCEPT !.state = "paused"] \in RunRow
                                    /\ [q EXCEPT !.expired = TRUE] \in RunRow
  BY <1>3 DEF RunRow
<1>4. CASE UNCHANGED vars
  BY <1>2, <1>4 DEF vars, careerVars, grantVars
<1>5. CASE People
  <2>1. CASE Pause
    BY <1>1, <1>3, <2>1 DEF Pause
  <2>2. ASSUME NEW r \in Runs, Play(r) PROVE R' /\ C'
    <3>1. [state |-> "running", mode |-> scenario.plays[r], version |-> profile.version,
           expired |-> FALSE] \in RunRow
      BY <2>2, PlaysTyped DEF Play, Frame, RunRow
    <3>2. runs' \in [Runs -> RunRow]
      BY <1>1, <1>3, <2>2, <3>1 DEF Play
    <3>3. QED
      BY <1>2, <2>2, <3>2 DEF Play
  <2>3. ASSUME NEW o \in Opps, ReviewContact(o) PROVE R' /\ C'
    <3>1. [state |-> "reviewed", profile |-> profile.version, opp |-> opps[o].version] \in ContactRow
      BY DEF Frame, ContactRow
    <3>2. C'
      BY <1>1, <2>3, <3>1 DEF ReviewContact
    <3>3. QED
      BY <1>2, <2>3, <3>2 DEF ReviewContact, grantVars
  <2>4. ASSUME NEW o \in Opps, RevokeContact(o) PROVE R' /\ C'
    <3>1. C'
      BY <1>1, <2>4 DEF RevokeContact, ContactRow
    <3>2. QED
      BY <1>2, <2>4, <3>1 DEF RevokeContact, grantVars
  <2>5. CASE \/ UpdateProfile \/ \E o \in Opps : UpdateOpportunityState(o) \/ PrepareContactEmail(o)
             \/ \E a \in DOMAIN actions : Decide(a)
    <3>1. runs' = runs /\ contacts' = contacts
      BY <2>5 DEF UpdateProfile, UpdateOpportunityState, PrepareContactEmail, Decide, careerVars,
         grantVars
    <3>2. QED
      BY <1>2, <3>1
  <2>6. QED
    BY <1>5, <2>1, <2>2, <2>3, <2>4, <2>5 DEF People
<1>6. CASE Workers
  <2>1. runs' = runs /\ contacts' = contacts
    BY <1>6 DEF Workers, SaveOpportunity, SaveApplicationDraft, PreparationEnds,
       BeginSideEffect, EndSideEffect, careerVars, grantVars
  <2>2. QED
    BY <1>2, <2>1
<1>7. CASE Day
  <2>1. runs' = runs /\ contacts' = contacts
    BY <1>7 DEF Day, PacketExpires, ReservationLeavesWindow, ItemsLeaveWindow, careerVars, grantVars
  <2>2. QED
    BY <1>2, <2>1
<1>8. ASSUME NEW r \in Runs, RunExpires(r) PROVE R' /\ C'
  <2>1. [runs[r] EXCEPT !.expired = TRUE] \in RunRow
    BY <1>1, <1>3
  <2>2. R'
    BY <1>1, <1>8, <2>1 DEF RunExpires
  <2>3. QED
    BY <1>2, <1>8, <2>2 DEF RunExpires, careerVars
<1>9. ASSUME NEW s \in Schedulers, SchedulerStep(s) \/ CrashScheduler(s) PROVE R' /\ C'
  <2>1. runs' = runs /\ contacts' = contacts
    BY <1>9, PassesTouch DEF careerVars
  <2>2. QED
    BY <1>2, <2>1
<1>10. ASSUME NEW s \in Schedulers, NEW r \in Runs, EndRun(s, r) PROVE R' /\ C'
  <2>1. R'
    BY <1>1, <1>10 DEF EndRun, RunRow
  <2>2. QED
    BY <1>2, <1>10, <2>1 DEF EndRun
<1>11. ASSUME NEW s \in Schedulers, NEW r \in Runs, Reconcile(s, r) PROVE R' /\ C'
  <2>1. runs' = runs /\ contacts' = contacts
    BY <1>11 DEF Reconcile
  <2>2. QED
    BY <1>2, <2>1
<1>12. QED
  BY <1>4, <1>5, <1>6, <1>7, <1>8, <1>9, <1>10, <1>11 DEF Next, Pass, Time

\* The frame keeps its types.
LEMMA FrameKept ==
  ASSUME Frame, [Next]_vars
  PROVE  Frame'
<1>1. Counted
  BY ChangesCounted
<1>2. scenario' \in Scenarios /\ changes' \in 0..MaxChanges
  BY <1>1 DEF Frame, Counted
<1>3. QED
  BY <1>2, ListingsKept, RunsKept DEF Frame, RunRow, ContactRow

-----------------------------------------------------------------------------
(* Items and their material.                                               *)

\* A pass moves one item on, and only its state.
Resettled ==
  \/ items' = items
  \/ \E r \in Runs, o \in Opps, x \in ItemStates \ {"none"} :
       items[r][o].state # "none" /\ items' = [items EXCEPT ![r][o].state = x]

\* What stays of the items while they move on.
ItemsStay ==
  /\ items' \in [Runs -> [Opps -> ItemRow]]
  /\ \A r \in Runs, o \in Opps :
       /\ items'[r][o].recent = items[r][o].recent
       /\ items'[r][o].state = "none" <=> items[r][o].state = "none"

\* An item that moves to another state stays an item.
LEMMA ResettledStays ==
  ASSUME items \in [Runs -> [Opps -> ItemRow]], Resettled
  PROVE  ItemsStay
<1>1. CASE items' = items
  BY <1>1 DEF ItemsStay
<1>2. ASSUME NEW r \in Runs, NEW o \in Opps, NEW x \in ItemStates \ {"none"},
             items[r][o].state # "none", items' = [items EXCEPT ![r][o].state = x]
      PROVE  ItemsStay
  <2> DEFINE row == [items[r][o] EXCEPT !.state = x]
             own == [items[r] EXCEPT ![o] = row]
  <2>1. items[r] \in [Opps -> ItemRow] /\ items[r][o] \in ItemRow
    OBVIOUS
  <2>2. row \in ItemRow /\ row.recent = items[r][o].recent /\ row.state # "none"
    BY <2>1, <1>2 DEF ItemRow
  <2>3. items' = [items EXCEPT ![r] = own]
    BY <1>2, <2>1
  <2>4. own \in [Opps -> ItemRow] /\ own[o] = row /\ \A p \in Opps \ {o} : own[p] = items[r][p]
    BY <2>1, <2>2
  <2>5. /\ items' \in [Runs -> [Opps -> ItemRow]]
        /\ items'[r] = own /\ \A q \in Runs \ {r} : items'[q] = items[q]
    BY <2>3, <2>4
  <2>6. QED
    BY <2>2, <2>4, <2>5, <1>2 DEF ItemsStay
<1>3. QED
  BY <1>1, <1>2 DEF Resettled

\* All that a pass does to items is to resettle them.
LEMMA PassesResettle ==
  ASSUME items \in [Runs -> [Opps -> ItemRow]], Passes,
         NEW s \in Schedulers, SchedulerStep(s) \/ CrashScheduler(s)
  PROVE  Resettled
<1> DEFINE r == scheduler[s].run
           o == scheduler[s].opp
<1>1. PassOf(scheduler[s])
  BY DEF Passes
<1>2. CASE \/ SelectItems(s) \/ Inspect(s) \/ PreparationRefused(s) \/ AuthorizationRaises(s)
           \/ CrashScheduler(s)
  <2>1. items' = items
    <3>1. CASE Inspect(s)
      BY <3>1 DEF Inspect, grantVars
    <3>2. CASE AuthorizationRaises(s)
      BY <3>2 DEF AuthorizationRaises, grantVars
    <3>3. CASE SelectItems(s)
      BY <3>3 DEF SelectItems, grantVars
    <3>4. QED
      BY <1>2, <3>1, <3>2, <3>3 DEF PreparationRefused, CrashScheduler, grantVars
  <2>2. QED
    BY <2>1 DEF Resettled
<1>3. CASE PrepareAction(s)
  <2>1. r \in Runs /\ o \in Opps /\ items[r][o].state # "none" /\ items[r][o].state \in ItemStates
    <3>1. scheduler[s].step = "prepare"
      BY <1>3 DEF PrepareAction
    <3>2. r \in Runs /\ o \in Opps /\ items[r][o].state # "none"
      BY <1>1, <3>1 DEF PassOf
    <3>3. items[r][o] \in ItemRow
      BY <3>2
    <3>4. QED
      BY <3>2, <3>3 DEF ItemRow
  <2> DEFINE x == IF items[r][o].state \in Open THEN "preparing" ELSE items[r][o].state
  <2>2. x \in ItemStates \ {"none"}
    BY <2>1 DEF ItemStates
  <2>3. items' = items \/ items' = [items EXCEPT ![r][o].state = x]
    BY <1>3 DEF PrepareAction
  <2> HIDE DEF x
  <2>4. QED
    BY <2>1, <2>2, <2>3 DEF Resettled
<1>4. CASE SettleItem(s)
  <2>1. /\ r \in Runs /\ o \in Opps /\ items[r][o].state # "none" /\ items[r][o].state \in ItemStates
        /\ scheduler[s].verdict \in {"needs_review", "prepared"}
    BY <1>1, <1>4 DEF PassOf, SettleItem, ItemRow
  <2> DEFINE x == IF items[r][o].state \in Open THEN scheduler[s].verdict ELSE items[r][o].state
  <2>2. x \in ItemStates \ {"none"}
    BY <2>1 DEF ItemStates
  <2>3. items' = [items EXCEPT ![r][o].state = x]
    BY <1>4 DEF SettleItem
  <2> HIDE DEF x
  <2>4. QED
    BY <2>1, <2>2, <2>3 DEF Resettled
<1>5. CASE Authorize(s)
  <2>1. r \in Runs /\ o \in Opps /\ items[r][o].state # "none"
    BY <1>1, <1>5 DEF PassOf, Authorize
  <2>2. \/ items' = items \/ SetItem(r, o, "waiting_budget") \/ SetItem(r, o, "needs_review")
        \/ SetItem(r, o, "authorized")
    BY <1>5 DEF Authorize
  <2>3. {"waiting_budget", "needs_review", "authorized"} \subseteq ItemStates \ {"none"}
    BY DEF ItemStates
  <2>4. QED
    BY <2>1, <2>2, <2>3 DEF Resettled, SetItem
<1>6. QED
  BY <1>2, <1>3, <1>4, <1>5 DEF SchedulerStep

\* What a new pass adds: items that were not there, with their tasks.
ReconcileAdds(r, new) ==
  /\ new \subseteq Opps /\ Cardinality(new) <= Capacity(r)
  /\ \A o \in new : items[r][o].state = "none"
  /\ items' \in [Runs -> [Opps -> ItemRow]]
  /\ prep' \in [Runs -> [Opps -> {"none", "open", "succeeded", "failed"}]]
  /\ \A q \in Runs, o \in Opps :
       IF q = r /\ o \in new
         THEN items'[q][o].state = "preparing" /\ items'[q][o].recent /\ prep'[q][o] = "open"
         ELSE items'[q][o] = items[q][o] /\ prep'[q][o] = prep[q][o]

\* The first transaction of a pass only adds items, each with its task.
LEMMA ReconcileIsAddition ==
  ASSUME Frame, Material, NEW s \in Schedulers, NEW r \in Runs, Reconcile(s, r)
  PROVE  \E new \in SUBSET Opps : ReconcileAdds(r, new)
<1> DEFINE fresh == {o \in Opps : Eligible(r, o) /\ items[r][o].state = "none"}
           stamp == 1 + Cardinality({o \in Opps : items[r][o].state # "none"})
           number == Smaller(Capacity(r), Cardinality(fresh))
           row(o) == [state |-> "preparing", version |-> opps[o].version, created |-> stamp,
                      recent |-> TRUE]
<1>1. IsFiniteSet(Opps) /\ IsFiniteSet(fresh) /\ Cardinality(fresh) \in Nat
      /\ stamp \in Nat
  BY CareerAssumption, FS_Subset, FS_CardinalityType
<1>2. PICK new \in SUBSET fresh :
        /\ Cardinality(new) = number
        /\ items' = [items EXCEPT ![r] = [o \in Opps |-> IF o \in new THEN row(o) ELSE @[o]]]
        /\ prep' = [prep EXCEPT ![r] = [o \in Opps |-> IF o \in new THEN "open" ELSE @[o]]]
  BY DEF Reconcile
<1>3. Cardinality(new) <= Capacity(r)
  <2>1. Capacity(r) \in Nat \/ Capacity(r) \in Int
    <3>1. DailyLimit[r] \in Nat /\ PrepareLimit \in Nat
      BY CareerAssumption DEF Runs
    <3>2. PreparedRecently \in SUBSET (Runs \X Opps) /\ IsFiniteSet(Runs)
      BY CareerAssumption, FS_Interval DEF PreparedRecently, Runs
    <3>3. /\ Cardinality(PreparedRecently) \in Nat
          /\ Cardinality({x \in PreparedRecently : x[1] = r}) \in Nat
      BY <3>2, <1>1, FS_Product, FS_Subset, FS_CardinalityType
    <3>4. QED
      BY <3>1, <3>3 DEF Capacity, Smaller
  <2>2. QED
    BY <1>1, <1>2, <2>1 DEF Smaller
<1>4. new \in SUBSET Opps /\ \A o \in new : items[r][o].state = "none"
  BY <1>2
<1> HIDE DEF fresh, stamp
<1>5. \A o \in Opps : row(o) \in ItemRow /\ row(o).state = "preparing" /\ row(o).recent
  BY <1>1 DEF Frame, ItemRow, ItemStates
<1> HIDE DEF row
<1> DEFINE mine == [o \in Opps |-> IF o \in new THEN row(o) ELSE items[r][o]]
           tasks == [o \in Opps |-> IF o \in new THEN "open" ELSE prep[r][o]]
<1>6. items \in [Runs -> [Opps -> ItemRow]]
      /\ prep \in [Runs -> [Opps -> {"none", "open", "succeeded", "failed"}]]
  BY DEF Material, ItemRow
<1>7. items' = [items EXCEPT ![r] = mine] /\ prep' = [prep EXCEPT ![r] = tasks]
  BY <1>2
<1>8. mine \in [Opps -> ItemRow] /\ tasks \in [Opps -> {"none", "open", "succeeded", "failed"}]
  BY <1>5, <1>6
<1>9. /\ items' \in [Runs -> [Opps -> ItemRow]] /\ items'[r] = mine
      /\ prep' \in [Runs -> [Opps -> {"none", "open", "succeeded", "failed"}]] /\ prep'[r] = tasks
      /\ \A q \in Runs \ {r} : items'[q] = items[q] /\ prep'[q] = prep[q]
  <2> HIDE DEF mine, tasks
  <2>1. QED
    BY <1>6, <1>7, <1>8
<1>10. QED
  BY <1>3, <1>4, <1>5, <1>9 DEF ReconcileAdds

\* A day passed for the items of one pass.
LEMMA WindowMoves ==
  ASSUME items \in [Runs -> [Opps -> ItemRow]], NEW r \in Runs, NEW stamp, ItemsLeaveWindow(r, stamp)
  PROVE  /\ items' \in [Runs -> [Opps -> ItemRow]]
         /\ \A q \in Runs, o \in Opps :
              /\ items'[q][o].state = items[q][o].state
              /\ items'[q][o].recent => items[q][o].recent
<1> DEFINE oldest == {o \in Opps : items[r][o].recent /\ items[r][o].created = stamp}
           mine == [o \in Opps |-> IF o \in oldest THEN [items[r][o] EXCEPT !.recent = FALSE]
                                                  ELSE items[r][o]]
<1>1. items' = [items EXCEPT ![r] = mine]
  BY DEF ItemsLeaveWindow
<1>2. \A o \in Opps : /\ mine[o] \in ItemRow /\ mine[o].state = items[r][o].state
                      /\ mine[o].recent => items[r][o].recent
  <2> SUFFICES ASSUME NEW o \in Opps
               PROVE  /\ mine[o] \in ItemRow /\ mine[o].state = items[r][o].state
                      /\ mine[o].recent => items[r][o].recent
    OBVIOUS
  <2>1. items[r][o] \in ItemRow
    OBVIOUS
  <2>2. /\ [items[r][o] EXCEPT !.recent = FALSE] \in ItemRow
        /\ [items[r][o] EXCEPT !.recent = FALSE].state = items[r][o].state
        /\ [items[r][o] EXCEPT !.recent = FALSE].recent = FALSE
    BY <2>1 DEF ItemRow
  <2>3. QED
    BY <2>1, <2>2
<1>3. mine \in [Opps -> ItemRow]
  BY <1>2
<1> HIDE DEF mine
<1>4. /\ items' \in [Runs -> [Opps -> ItemRow]] /\ items'[r] = mine
      /\ \A q \in Runs \ {r} : items'[q] = items[q]
  BY <1>1, <1>3
<1>5. QED
  BY <1>2, <1>4

\* Everything else leaves the items alone.
LEMMA OthersTouch ==
  ASSUME [Next]_vars
  PROVE  \/ \E s \in Schedulers : SchedulerStep(s) \/ CrashScheduler(s)
         \/ \E s \in Schedulers, r \in Runs : Reconcile(s, r)
         \/ \E r \in Runs, stamp \in Nat : ItemsLeaveWindow(r, stamp)
         \/ UNCHANGED <<items, prep, drafts, latest>>
         \/ items' = items /\ \E r \in Runs, o \in Opps :
              SaveApplicationDraft(r, o) \/ PreparationEnds(r, o)
<1>1. CASE UNCHANGED vars
  BY <1>1 DEF vars, careerVars, grantVars
<1>2. CASE People
  BY <1>2 DEF People, Pause, UpdateProfile, Play, UpdateOpportunityState, ReviewContact,
     RevokeContact, PrepareContactEmail, Decide, careerVars, grantVars
<1>3. CASE Workers
  BY <1>3 DEF Workers, SaveOpportunity, SaveApplicationDraft, PreparationEnds,
     BeginSideEffect, EndSideEffect, careerVars, grantVars
<1>4. CASE Time
  <2>1. 1..Cardinality(Opps) \subseteq Nat
    BY CareerAssumption, FS_CardinalityType
  <2>2. QED
    BY <1>4, <2>1 DEF Time, Day, PacketExpires, ReservationLeavesWindow, RunExpires, careerVars, grantVars
<1>5. ASSUME NEW s \in Schedulers, NEW r \in Runs, EndRun(s, r)
      PROVE UNCHANGED <<items, prep, drafts, latest>>
  BY <1>5 DEF EndRun
<1>6. QED
  BY <1>1, <1>2, <1>3, <1>4, <1>5 DEF Next, Pass

\* Whatever happens, an item has its task and prepared material its draft.
LEMMA MaterialKept ==
  ASSUME Frame, Material, Passes, [Next]_vars
  PROVE  Material'
<1> DEFINE Items == items \in [Runs -> [Opps -> ItemRow]]
           Tasks == prep \in [Runs -> [Opps -> {"none", "open", "succeeded", "failed"}]]
           Drafts == drafts \in [Opps -> [Runs -> Nat]]
           Latest == latest \in [Opps -> 0..MaxRuns]
           Few == \A r \in Runs, o \in Opps : drafts[o][r] <= changes + 1
           Both == \A r \in Runs, o \in Opps :
                     /\ items[r][o].state # "none" => prep[r][o] # "none"
                     /\ prep[r][o] = "succeeded" => latest[o] \in Runs
<1>1. Items /\ Tasks /\ Drafts /\ Latest /\ Few /\ Both
  BY DEF Material, ItemRow
<1>2. changes \in Nat /\ changes' \in Nat /\ changes' >= changes
  BY ChangesCounted DEF Frame, Counted
<1>3. drafts' = drafts => Drafts' /\ Few'
  BY <1>1, <1>2
<1>4. (prep' = prep => Tasks') /\ (latest' = latest => Latest')
  BY <1>1
<1>5. SUFFICES Items' /\ Tasks' /\ Drafts' /\ Latest' /\ Few' /\ Both'
  BY <1>1 DEF Material, ItemRow
<1> HIDE DEF Drafts, Few
<1>6. ASSUME NEW s \in Schedulers, SchedulerStep(s) \/ CrashScheduler(s)
      PROVE  Items' /\ Tasks' /\ Drafts' /\ Latest' /\ Few' /\ Both'
  <2>1. prep' = prep /\ drafts' = drafts /\ latest' = latest
    BY <1>6, PassesTouch DEF careerVars
  <2>2. ItemsStay
    BY <1>1, <1>6, PassesResettle, ResettledStays
  <2>3. QED
    BY <1>1, <1>3, <1>4, <2>1, <2>2 DEF ItemsStay
<1>7. ASSUME NEW s \in Schedulers, NEW r \in Runs, Reconcile(s, r)
      PROVE  Items' /\ Tasks' /\ Drafts' /\ Latest' /\ Few' /\ Both'
  <2>1. drafts' = drafts /\ latest' = latest
    BY <1>7 DEF Reconcile
  <2>2. PICK new \in SUBSET Opps : ReconcileAdds(r, new)
    BY <1>7, ReconcileIsAddition
  <2>3. Items' /\ Tasks'
    BY <2>2 DEF ReconcileAdds
  <2>4. ASSUME NEW q \in Runs, NEW o \in Opps
        PROVE  /\ items'[q][o].state # "none" => prep'[q][o] # "none"
               /\ prep'[q][o] = "succeeded" => latest'[o] \in Runs
    BY <1>1, <2>1, <2>2, SMTT(30) DEF ReconcileAdds
  <2>5. QED
    BY <1>3, <1>4, <2>1, <2>3, <2>4
<1>8. ASSUME NEW r \in Runs, NEW stamp \in Nat, ItemsLeaveWindow(r, stamp)
      PROVE  Items' /\ Tasks' /\ Drafts' /\ Latest' /\ Few' /\ Both'
  <2>1. prep' = prep /\ drafts' = drafts /\ latest' = latest
    BY <1>8 DEF ItemsLeaveWindow, careerVars
  <2>2. QED
    BY <1>1, <1>3, <1>4, <1>8, <2>1, WindowMoves
<1>9. CASE UNCHANGED <<items, prep, drafts, latest>>
  BY <1>1, <1>3, <1>4, <1>9
<1>10. ASSUME NEW r \in Runs, NEW o \in Opps, SaveApplicationDraft(r, o), items' = items
       PROVE  Items' /\ Tasks' /\ Drafts' /\ Latest' /\ Few' /\ Both'
  <2>1. /\ prep' = prep /\ latest' = latest
        /\ drafts' = [drafts EXCEPT ![o][r] = @ + 1] /\ changes' = changes + 1
    BY <1>10 DEF SaveApplicationDraft, Change
  <2>2. drafts \in [Opps -> [Runs -> Nat]] /\ drafts[o][r] <= changes + 1
    BY <1>1 DEF Drafts, Few
  <2>3. \A p \in Opps, q \in Runs :
          drafts'[p][q] = IF p = o /\ q = r THEN drafts[o][r] + 1 ELSE drafts[p][q]
    BY <2>1, <2>2
  <2>4. drafts' \in [Opps -> [Runs -> Nat]]
    BY <2>1, <2>2
  <2>5. Few'
    BY <1>1, <1>2, <2>1, <2>2, <2>3 DEF Few
  <2>6. QED
    BY <1>1, <1>4, <1>10, <2>1, <2>4, <2>5 DEF Drafts
<1>11. ASSUME NEW r \in Runs, NEW o \in Opps, PreparationEnds(r, o), items' = items
       PROVE  Items' /\ Tasks' /\ Drafts' /\ Latest' /\ Few' /\ Both'
  <2>1. \E x \in {"succeeded", "failed"} :
          /\ prep' = [prep EXCEPT ![r][o] = x]
          /\ x = "succeeded" => /\ drafts' = [drafts EXCEPT ![o][r] = 1]
                                /\ latest' = [latest EXCEPT ![o] = r]
          /\ x = "failed" => drafts' = drafts /\ latest' = latest
    BY <1>11 DEF PreparationEnds
  <2>2. PICK x \in {"succeeded", "failed"} :
          /\ prep' = [prep EXCEPT ![r][o] = x]
          /\ x = "succeeded" => /\ drafts' = [drafts EXCEPT ![o][r] = 1]
                                /\ latest' = [latest EXCEPT ![o] = r]
          /\ x = "failed" => drafts' = drafts /\ latest' = latest
    BY <2>1
  <2>3. /\ Tasks'
        /\ \A q \in Runs, p \in Opps : prep'[q][p] = IF q = r /\ p = o THEN x ELSE prep[q][p]
    BY <1>1, <2>2
  <2>4. CASE x = "failed"
    BY <1>1, <1>3, <1>4, <1>11, <2>2, <2>3, <2>4
  <2>5. CASE x = "succeeded"
    <3>1. drafts \in [Opps -> [Runs -> Nat]]
      BY <1>1 DEF Drafts
    <3>2. /\ drafts' \in [Opps -> [Runs -> Nat]]
          /\ \A p \in Opps, q \in Runs : drafts'[p][q] = IF p = o /\ q = r THEN 1 ELSE drafts[p][q]
      BY <2>2, <2>5, <3>1
    <3>3. Few'
      <4>1. \A p \in Opps, q \in Runs : drafts[p][q] <= changes + 1 /\ drafts[p][q] \in Nat
        BY <1>1, <3>1 DEF Few
      <4>2. \A p \in Opps, q \in Runs : drafts'[p][q] <= changes' + 1
        BY <1>2, <3>2, <4>1
      <4>3. QED
        BY <4>2 DEF Few
    <3>4. r \in 0..MaxRuns
      BY CareerAssumption DEF Runs
    <3>5. /\ Latest' /\ latest'[o] = r /\ \A p \in Opps \ {o} : latest'[p] = latest[p]
      BY <1>1, <2>2, <2>5, <3>4
    <3>6. Both'
      BY <1>1, <1>11, <2>3, <3>5, SMTT(30)
    <3>7. QED
      BY <1>1, <1>11, <2>3, <3>2, <3>3, <3>5, <3>6 DEF Drafts
  <2>6. QED
    BY <2>4, <2>5
<1>12. QED
  BY <1>6, <1>7, <1>8, <1>9, <1>10, <1>11, OthersTouch

-----------------------------------------------------------------------------
(* Actions and reservations.                                               *)

\* What is planned is an action of the model.
LEMMA PlannedTyped ==
  ASSUME Frame, Material, NEW o \in Opps, NEW kind \in {"apply", "contact"}, latest[o] \in Runs
  PROVE  PlannedAction(o, kind) \in ActionIds
<1>1. drafts[o][latest[o]] \in Nat /\ drafts[o][latest[o]] <= changes + 1
  BY DEF Material
<1>2. changes \in 0..MaxChanges /\ MaxChanges \in Nat
  BY CareerAssumption DEF Frame
<1>3. drafts[o][latest[o]] \in Versions
  BY <1>1, <1>2 DEF Versions
<1>4. QED
  BY <1>3 DEF PlannedAction, ActionIds

\* The ways an action, or a reservation, comes and goes on.
ActionPut(a, state) ==
  /\ a \in ActionIds /\ state \in States /\ actions' = Put(actions, a, state)
  /\ a \in DOMAIN actions => state = actions[a]
  /\ a \notin DOMAIN actions => state = "pending_approval"
  /\ ledger' = ledger
ActionMoves(a) ==
  /\ a \in DOMAIN actions /\ ledger' = ledger
  /\ \/ \E state \in States \ {"executing"} : actions' = [actions EXCEPT ![a] = state]
     \/ actions[a] = "queued" /\ MayBegin(a) /\ actions' = [actions EXCEPT ![a] = "executing"]
ActionReserved(r, a) ==
  /\ r \in Runs /\ a \in DOMAIN actions
  /\ Cardinality(Used(r)) < DailyLimit[r] /\ ~OutBefore(a)
  /\ actions' = [actions EXCEPT ![a] = "queued"] /\ ledger' = Put(ledger, a, "recent")
ReservationAges(a) ==
  a \in DOMAIN ledger /\ ledger' = [ledger EXCEPT ![a] = "old"] /\ actions' = actions

\* The four things that can become of actions and ledger.
LEMMA GrantSteps ==
  ASSUME Frame, Material, Grants, Passes, [Next]_vars
  PROVE  \/ UNCHANGED <<actions, ledger>>
         \/ \E a, state : ActionPut(a, state)
         \/ \E a : ActionMoves(a) \/ ReservationAges(a)
         \/ \E r, a : ActionReserved(r, a)
<1> DEFINE Goal == \/ UNCHANGED <<actions, ledger>>
                   \/ \E a, state : ActionPut(a, state)
                   \/ \E a : ActionMoves(a) \/ ReservationAges(a)
                   \/ \E r, a : ActionReserved(r, a)
<1>1. UNCHANGED <<actions, ledger>> => Goal
  OBVIOUS
<1>2. \A a, state : ActionPut(a, state) => Goal
  OBVIOUS
<1>3. \A a : ActionMoves(a) \/ ReservationAges(a) => Goal
  OBVIOUS
<1>4. \A r, a : ActionReserved(r, a) => Goal
  OBVIOUS
<1>5. \A a \in DOMAIN actions : actions[a] \in States
  BY DEF Grants, States
<1>6. {"queued", "ended", "succeeded", "ambiguous"} \subseteq States \ {"executing"}
      /\ "pending_approval" \in States
  BY DEF States, Out
<1> SUFFICES Goal
  OBVIOUS
<1> HIDE DEF Goal
<1>7. CASE UNCHANGED vars
  BY <1>1, <1>7 DEF vars, grantVars
<1>8. CASE People
  <2>1. CASE \/ Pause \/ UpdateProfile \/ \E r \in Runs : Play(r)
             \/ \E o \in Opps : UpdateOpportunityState(o) \/ ReviewContact(o) \/ RevokeContact(o)
    <3>1. UNCHANGED <<actions, ledger>>
      BY <2>1 DEF Pause, UpdateProfile, Play, UpdateOpportunityState, ReviewContact, RevokeContact,
         grantVars
    <3>2. QED
      BY <1>1, <3>1
  <2>2. ASSUME NEW o \in Opps, PrepareContactEmail(o) PROVE Goal
    <3> DEFINE a == PlannedAction(o, "contact")
    <3>1. /\ latest[o] # 0 /\ actions' = Put(actions, a, "pending_approval") /\ ledger' = ledger
          /\ \A b \in DOMAIN actions : b.kind = "contact" => Target[b.opp] # Target[o]
      BY <2>2 DEF PrepareContactEmail, grantVars
    <3>2. latest[o] \in Runs
      BY <3>1, CareerAssumption DEF Material, Runs
    <3>3. a \in ActionIds /\ a.kind = "contact" /\ a.opp = o
      BY <3>2, PlannedTyped DEF PlannedAction
    <3>4. ActionPut(a, "pending_approval")
      <4>1. a \notin DOMAIN actions
        BY <3>1, <3>3
      <4>2. QED
        BY <1>6, <3>1, <3>3, <4>1 DEF ActionPut
    <3>5. QED
      BY <1>2, <3>4
  <2>3. ASSUME NEW a \in DOMAIN actions, Decide(a) PROVE Goal
    <3>1. ActionMoves(a)
      BY <1>6, <2>3 DEF Decide, ActionMoves, grantVars
    <3>2. QED
      BY <1>3, <3>1
  <2>4. QED
    BY <1>8, <2>1, <2>2, <2>3 DEF People
<1>9. CASE Workers
  <2>1. CASE \/ \E o \in Opps : SaveOpportunity(o)
             \/ \E r \in Runs, o \in Opps : SaveApplicationDraft(r, o) \/ PreparationEnds(r, o)
    <3>1. UNCHANGED <<actions, ledger>>
      BY <2>1 DEF SaveOpportunity, SaveApplicationDraft, PreparationEnds, grantVars
    <3>2. QED
      BY <1>1, <3>1
  <2>2. ASSUME NEW a \in DOMAIN actions, BeginSideEffect(a) PROVE Goal
    <3>1. ActionMoves(a)
      BY <1>6, <2>2 DEF BeginSideEffect, ActionMoves, grantVars
    <3>2. QED
      BY <1>3, <3>1
  <2>3. ASSUME NEW a \in DOMAIN actions, EndSideEffect(a) PROVE Goal
    <3>1. ActionMoves(a)
      BY <1>6, <2>3 DEF EndSideEffect, ActionMoves, grantVars
    <3>2. QED
      BY <1>3, <3>1
  <2>4. QED
    BY <1>9, <2>1, <2>2, <2>3 DEF Workers
<1>10. CASE Time
  <2>1. ASSUME NEW a \in DOMAIN actions, PacketExpires(a) PROVE Goal
    <3>1. ActionMoves(a)
      BY <1>6, <2>1 DEF PacketExpires, ActionMoves, grantVars
    <3>2. QED
      BY <1>3, <3>1
  <2>2. ASSUME NEW a \in DOMAIN ledger, ReservationLeavesWindow(a) PROVE Goal
    <3>1. ReservationAges(a)
      BY <2>2 DEF ReservationLeavesWindow, ReservationAges
    <3>2. QED
      BY <1>3, <3>1
  <2>3. ASSUME NEW r \in Runs, NEW stamp, ItemsLeaveWindow(r, stamp) \/ RunExpires(r) PROVE Goal
    BY <1>1, <2>3 DEF ItemsLeaveWindow, RunExpires
  <2>4. QED
    BY <1>10, <2>1, <2>2, <2>3 DEF Time, Day
<1>11. ASSUME NEW s \in Schedulers, SchedulerStep(s) PROVE Goal
  <2> DEFINE r == scheduler[s].run
             o == scheduler[s].opp
  <2>1. PassOf(scheduler[s])
    BY DEF Passes
  <2>2. CASE \/ SelectItems(s) \/ Inspect(s) \/ PreparationRefused(s) \/ SettleItem(s)
             \/ AuthorizationRaises(s)
    <3>1. UNCHANGED <<actions, ledger>>
      <4>1. CASE Inspect(s)
        BY <4>1 DEF Inspect, grantVars
      <4>2. CASE AuthorizationRaises(s)
        BY <4>2 DEF AuthorizationRaises, grantVars
      <4>3. CASE SelectItems(s)
        BY <4>3 DEF SelectItems, grantVars
      <4>4. QED
        BY <2>2, <4>1, <4>2, <4>3 DEF PreparationRefused, SettleItem, grantVars
    <3>2. QED
      BY <1>1, <3>1
  <2>3. CASE PrepareAction(s)
    <3> DEFINE a == PlannedAction(o, "apply")
               state == IF a \in DOMAIN actions THEN actions[a] ELSE "pending_approval"
    <3>1. actions' = Put(actions, a, state) /\ ledger' = ledger /\ scheduler[s].step = "prepare"
      BY <2>3 DEF PrepareAction
    <3>2. o \in Opps /\ r \in Runs /\ prep[r][o] = "succeeded"
      BY <2>1, <3>1 DEF PassOf
    <3>3. latest[o] \in Runs
      BY <3>2 DEF Material
    <3>4. a \in ActionIds
      BY <3>2, <3>3, PlannedTyped
    <3>5. state \in States
      BY <1>5, <1>6
    <3>6. ActionPut(a, state)
      BY <3>1, <3>4, <3>5 DEF ActionPut
    <3>7. QED
      BY <1>2, <3>6
  <2>4. CASE Authorize(s)
    <3> DEFINE a == scheduler[s].action
    <3>1. scheduler[s].step = "authorize"
      BY <2>4 DEF Authorize
    <3>2. r \in Runs /\ o \in Opps /\ a \in DOMAIN actions
      BY <2>1, <3>1 DEF PassOf
    <3>3. \/ UNCHANGED <<ledger, actions>>
          \/ /\ Authorized(r, o, a) /\ ~(Cardinality(Used(r)) >= DailyLimit[r])
             /\ ledger' = Put(ledger, a, "recent")
             /\ actions' = [actions EXCEPT ![a] = "queued"]
      BY <2>4 DEF Authorize
    <3>4. CASE UNCHANGED <<ledger, actions>>
      BY <1>1, <3>4
    <3>5. CASE /\ Authorized(r, o, a) /\ ~(Cardinality(Used(r)) >= DailyLimit[r])
               /\ ledger' = Put(ledger, a, "recent")
               /\ actions' = [actions EXCEPT ![a] = "queued"]
      <4>1. Cardinality(Used(r)) \in Nat /\ DailyLimit[r] \in Nat
        <5>1. Used(r) \in SUBSET DOMAIN ledger
          BY DEF Used
        <5>2. QED
          BY <3>2, <5>1, FS_Subset, FS_CardinalityType, CareerAssumption DEF Grants, Runs
      <4>2. Cardinality(Used(r)) < DailyLimit[r] /\ ~OutBefore(a)
        BY <3>5, <4>1 DEF Authorized
      <4>3. ActionReserved(r, a)
        BY <3>2, <3>5, <4>2 DEF ActionReserved
      <4>4. QED
        BY <1>4, <4>3
    <3>6. QED
      BY <3>3, <3>4, <3>5
  <2>5. QED
    BY <1>11, <2>2, <2>3, <2>4 DEF SchedulerStep
<1>12. ASSUME NEW s \in Schedulers, Pass(s) \/ CrashScheduler(s) PROVE Goal
  <2>1. UNCHANGED <<actions, ledger>>
    <3>1. CASE CrashScheduler(s)
      BY <3>1 DEF CrashScheduler, grantVars
    <3>2. ASSUME NEW r \in Runs, EndRun(s, r) PROVE UNCHANGED <<actions, ledger>>
      BY <3>2 DEF EndRun
    <3>3. ASSUME NEW r \in Runs, Reconcile(s, r) PROVE UNCHANGED <<actions, ledger>>
      BY <3>3 DEF Reconcile
    <3>4. QED
      BY <1>12, <3>1, <3>2, <3>3 DEF Pass
  <2>2. QED
    BY <1>1, <2>1
<1>13. QED
  BY <1>7, <1>8, <1>9, <1>10, <1>11, <1>12 DEF Next

\* Actions and reservations stay what they are, and none goes away.
LEMMA GrantsKept ==
  ASSUME Frame, Material, Grants, Passes, [Next]_vars
  PROVE  Grants' /\ DOMAIN actions \subseteq DOMAIN actions'
<1> DEFINE Goal == Grants' /\ DOMAIN actions \subseteq DOMAIN actions'
<1>1. CASE UNCHANGED <<actions, ledger>>
  BY <1>1 DEF Grants
<1>2. ASSUME NEW a, NEW state, ActionPut(a, state) PROVE Goal
  <2>1. /\ DOMAIN actions' = DOMAIN actions \cup {a} /\ ledger' = ledger
        /\ \A b \in DOMAIN actions' : actions'[b] = IF b = a THEN state ELSE actions[b]
    BY <1>2 DEF ActionPut, Put
  <2>2. QED
    BY <1>2, <2>1 DEF ActionPut, Grants, States
<1>3. ASSUME NEW a, ActionMoves(a) PROVE Goal
  <2>1. PICK state \in States : actions' = [actions EXCEPT ![a] = state]
    BY <1>3 DEF ActionMoves, States, Out
  <2>2. /\ DOMAIN actions' = DOMAIN actions /\ ledger' = ledger
        /\ \A b \in DOMAIN actions' : actions'[b] = IF b = a THEN state ELSE actions[b]
    BY <1>3, <2>1 DEF ActionMoves
  <2>3. QED
    BY <2>1, <2>2 DEF Grants, States
<1>4. ASSUME NEW a, ReservationAges(a) PROVE Goal
  <2>1. /\ DOMAIN ledger' = DOMAIN ledger /\ actions' = actions
        /\ \A b \in DOMAIN ledger' : ledger'[b] = IF b = a THEN "old" ELSE ledger[b]
    BY <1>4 DEF ReservationAges
  <2>2. QED
    BY <2>1 DEF Grants
<1>5. ASSUME NEW r, NEW a, ActionReserved(r, a) PROVE Goal
  <2>1. /\ DOMAIN actions' = DOMAIN actions
        /\ \A b \in DOMAIN actions' : actions'[b] = IF b = a THEN "queued" ELSE actions[b]
    BY <1>5 DEF ActionReserved
  <2>2. /\ DOMAIN ledger' = DOMAIN ledger \cup {a}
        /\ \A b \in DOMAIN ledger' : ledger'[b] = IF b = a THEN "recent" ELSE ledger[b]
    BY <1>5 DEF ActionReserved, Put
  <2>3. IsFiniteSet(DOMAIN ledger')
    BY <2>2, FS_AddElement DEF Grants
  <2>4. a \in DOMAIN actions /\ "queued" \in States
    BY <1>5 DEF ActionReserved, States, Out
  <2>5. QED
    BY <2>1, <2>2, <2>3, <2>4 DEF Grants, States
<1>6. QED
  BY <1>1, <1>2, <1>3, <1>4, <1>5, GrantSteps

-----------------------------------------------------------------------------
(* What a pass remembers.                                                  *)

\* Items, material and actions do not go away under a pass.
Onward ==
  /\ \A r \in Runs, o \in Opps :
       items[r][o].state # "none" =>
         /\ items'[r][o].state # "none"
         /\ prep[r][o] = "succeeded" => prep'[r][o] = "succeeded"
  /\ DOMAIN actions \subseteq DOMAIN actions'

\* Items, finished preparations and actions outlive every step.
LEMMA StepsGoOn ==
  ASSUME Frame, Material, Grants, Passes, [Next]_vars
  PROVE  Onward
<1> DEFINE Goal == \A r \in Runs, o \in Opps :
                     items[r][o].state # "none" =>
                       /\ items'[r][o].state # "none"
                       /\ prep[r][o] = "succeeded" => prep'[r][o] = "succeeded"
<1>1. items \in [Runs -> [Opps -> ItemRow]]
  BY DEF Material, ItemRow
<1>2. SUFFICES Goal
  BY GrantsKept DEF Onward
<1>3. ASSUME NEW s \in Schedulers, SchedulerStep(s) \/ CrashScheduler(s) PROVE Goal
  <2>1. prep' = prep
    BY <1>3, PassesTouch DEF careerVars
  <2>2. ItemsStay
    BY <1>1, <1>3, PassesResettle, ResettledStays
  <2>3. QED
    BY <2>1, <2>2 DEF ItemsStay
<1>4. ASSUME NEW s \in Schedulers, NEW r \in Runs, Reconcile(s, r) PROVE Goal
  <2>1. PICK new \in SUBSET Opps : ReconcileAdds(r, new)
    BY <1>4, ReconcileIsAddition
  <2>2. QED
    BY <2>1 DEF ReconcileAdds
<1>5. ASSUME NEW r \in Runs, NEW stamp \in Nat, ItemsLeaveWindow(r, stamp) PROVE Goal
  <2>1. prep' = prep
    BY <1>5 DEF ItemsLeaveWindow, careerVars
  <2>2. QED
    BY <1>1, <1>5, <2>1, WindowMoves
<1>6. CASE UNCHANGED <<items, prep, drafts, latest>>
  BY <1>6
<1>7. ASSUME NEW r \in Runs, NEW o \in Opps, SaveApplicationDraft(r, o) \/ PreparationEnds(r, o),
             items' = items
      PROVE  Goal
  <2>1. \/ prep' = prep
        \/ prep[r][o] = "open" /\ \E x \in {"succeeded", "failed"} : prep' = [prep EXCEPT ![r][o] = x]
    BY <1>7 DEF SaveApplicationDraft, PreparationEnds
  <2>2. prep \in [Runs -> [Opps -> {"none", "open", "succeeded", "failed"}]]
    BY DEF Material
  <2>3. \A q \in Runs, p \in Opps : prep[q][p] = "succeeded" => prep'[q][p] = "succeeded"
    BY <2>1, <2>2
  <2>4. QED
    BY <1>7, <2>3
<1>8. QED
  BY <1>3, <1>4, <1>5, <1>6, <1>7, OthersTouch

\* A row that was right stays right.
LEMMA RowStays ==
  ASSUME Onward, NEW row, PassOf(row), row.step # "idle" => row.run \in Runs
  PROVE  PassOf(row)'
BY DEF Onward, PassOf

\* One scheduler goes on, the others stay where they are.
LEMMA OneGoesOn ==
  ASSUME Onward, Passes, NEW s \in Schedulers, NEW row \in PassRow, PassOf(row)',
         scheduler' = [scheduler EXCEPT ![s] = row]
  PROVE  Passes'
<1>1. DOMAIN scheduler' = Schedulers
  BY DEF Passes
<1>2. ASSUME NEW t \in Schedulers
      PROVE  scheduler'[t] \in PassRow /\ PassOf(scheduler[t])'
  <2>1. CASE t = s
    <3>1. scheduler'[t] = row
      BY <2>1 DEF Passes
    <3>2. QED
      BY <3>1 DEF PassOf
  <2>2. CASE t # s
    <3>1. PICK other : other = scheduler[t]
      OBVIOUS
    <3>2. scheduler'[t] = other
      BY <2>2, <3>1 DEF Passes
    <3>3. other \in PassRow /\ PassOf(other)
      BY <3>1 DEF Passes, PassRow
    <3>4. PassOf(other)'
      BY <3>3, RowStays DEF PassOf
    <3>5. QED
      BY <3>2, <3>3, <3>4 DEF PassOf
  <2>3. QED
    BY <2>1, <2>2
<1>3. QED
  BY <1>1, <1>2 DEF Passes, PassRow

\* What every scheduler remembers stays right while the tables go on.
LEMMA NoneGoesOn ==
  ASSUME Onward, Passes, scheduler' = scheduler
  PROVE  Passes'
<1>1. ASSUME NEW t \in Schedulers PROVE scheduler'[t] \in PassRow /\ PassOf(scheduler[t])'
  <2>1. PICK other : other = scheduler[t]
    OBVIOUS
  <2>2. scheduler'[t] = other /\ other \in PassRow /\ PassOf(other)
    BY <2>1 DEF Passes, PassRow
  <2>3. PassOf(other)'
    BY <2>2, RowStays DEF PassOf
  <2>4. QED
    BY <2>2, <2>3 DEF PassOf
<1>2. QED
  BY <1>1 DEF Passes, PassRow

\* A scheduler that is idle remembers nothing that could be wrong.
LEMMA IdleIsRight == Idle \in PassRow /\ PassOf(Idle)'
<1>1. 0 \in 0..MaxRuns
  BY CareerAssumption
<1>2. QED
  BY <1>1 DEF Idle, PassRow, PassOf

\* The next item, or the end of the pass.
LEMMA NextItemIsRight ==
  ASSUME Onward, Passes, NEW s \in Schedulers, scheduler[s].step # "idle", NextItem(s)
  PROVE  Passes'
<1> DEFINE rest == scheduler[s].todo \ {scheduler[s].opp}
           next == [Idle EXCEPT !.step = "inspect", !.run = scheduler[s].run, !.todo = rest]
<1>1. PICK old : old = scheduler[s]
  OBVIOUS
<1>2. old \in PassRow /\ PassOf(old)
  BY <1>1 DEF Passes, PassRow
<1>3. PassOf(old)'
  BY <1>2, RowStays DEF PassOf
<1>4. old.step # "idle" /\ old.run \in Runs /\ old.todo \in SUBSET Opps
  BY <1>1, <1>2 DEF PassOf
<1>5. PICK row : row = next
  OBVIOUS
<1>6. row = [step |-> "inspect", run |-> old.run, todo |-> old.todo \ {old.opp}, opp |-> "none",
             verdict |-> "none", action |-> NoAction]
  BY <1>1, <1>5 DEF Idle
<1>7. row \in PassRow
  BY <1>2, <1>4, <1>6 DEF PassRow
<1>8. PassOf(row)'
  BY <1>3, <1>4, <1>6 DEF PassOf
<1>9. CASE scheduler' = [scheduler EXCEPT ![s] = Idle]
  BY <1>9, IdleIsRight, OneGoesOn
<1>10. CASE scheduler' = [scheduler EXCEPT ![s] = row]
  BY <1>7, <1>8, <1>10, OneGoesOn
<1>11. QED
  BY <1>5, <1>9, <1>10 DEF NextItem

\* An item goes to be settled with the verdict that was found.
LEMMA SettleIsRight ==
  ASSUME Onward, Passes, NEW s \in Schedulers, scheduler[s].step \in {"prepare", "authorize"},
         NEW verdict \in {"needs_review", "prepared"}, ToSettle(s, verdict)
  PROVE  Passes'
<1>1. PICK old : old = scheduler[s]
  OBVIOUS
<1>2. old \in PassRow /\ PassOf(old)
  BY <1>1 DEF Passes, PassRow
<1>3. PassOf(old)'
  BY <1>2, RowStays DEF PassOf
<1>4. PICK row : row = [old EXCEPT !.step = "settle", !.verdict = verdict]
  OBVIOUS
<1>5. /\ row \in PassRow /\ row.step = "settle" /\ row.verdict = verdict
      /\ row.run = old.run /\ row.todo = old.todo /\ row.opp = old.opp
  BY <1>2, <1>4 DEF PassRow
<1>6. PassOf(row)'
  BY <1>1, <1>3, <1>5 DEF PassOf
<1>7. scheduler' = [scheduler EXCEPT ![s] = row]
  BY <1>1, <1>4 DEF ToSettle, Passes
<1>8. QED
  BY <1>5, <1>6, <1>7, OneGoesOn

\* What an inspection finds is what its next transaction relies on.
LEMMA InspectIsRight ==
  ASSUME Onward, Material, Passes, NEW s \in Schedulers, Inspect(s)
  PROVE  Passes'
<1>1. PICK old : old = scheduler[s]
  OBVIOUS
<1>2. old \in PassRow /\ PassOf(old)
  BY <1>1 DEF Passes, PassRow
<1>3. PassOf(old)'
  BY <1>2, RowStays DEF PassOf
<1>4. old.step = "inspect" /\ old.run \in Runs /\ old.todo \in SUBSET Opps
  BY <1>1, <1>2 DEF Inspect, PassOf
<1>5. PICK o \in old.todo :
        LET here == [old EXCEPT !.opp = o]
            rest == old.todo \ {o}
            changed == opps[o].version # items[old.run][o].version
        IN  scheduler' = [scheduler EXCEPT ![s] =
              IF prep[old.run][o] = "open"
                THEN IF rest = {} THEN Idle ELSE [here EXCEPT !.opp = "none", !.todo = rest]
              ELSE IF prep[old.run][o] = "failed" \/ changed
                THEN [here EXCEPT !.step = "settle", !.verdict = "needs_review"]
              ELSE [here EXCEPT !.step = "prepare"]]
  <2>1. \E o \in scheduler[s].todo :
          LET here == [scheduler[s] EXCEPT !.opp = o]
              rest == scheduler[s].todo \ {o}
              changed == opps[o].version # items[scheduler[s].run][o].version
          IN  scheduler' = [scheduler EXCEPT ![s] =
                IF prep[scheduler[s].run][o] = "open"
                  THEN IF rest = {} THEN Idle ELSE [here EXCEPT !.opp = "none", !.todo = rest]
                ELSE IF prep[scheduler[s].run][o] = "failed" \/ changed
                  THEN [here EXCEPT !.step = "settle", !.verdict = "needs_review"]
                ELSE [here EXCEPT !.step = "prepare"]]
    BY Zenon DEF Inspect
  <2>2. QED
    BY <1>1, <2>1, Zenon
<1>6. o \in Opps /\ items[old.run][o].state # "none" /\ items'[old.run][o].state # "none"
  BY <1>2, <1>3, <1>4 DEF PassOf
<1>7. prep' = prep
  BY DEF Inspect, careerVars
<1> DEFINE here == [old EXCEPT !.opp = o]
           rest == old.todo \ {o}
<1>8. PICK later : later = [here EXCEPT !.opp = "none", !.todo = rest]
  OBVIOUS
<1>9. PICK settle : settle = [here EXCEPT !.step = "settle", !.verdict = "needs_review"]
  OBVIOUS
<1>10. PICK prepare : prepare = [here EXCEPT !.step = "prepare"]
  OBVIOUS
<1>11. /\ later \in PassRow /\ later.step = "inspect" /\ later.run = old.run /\ later.todo = rest
       /\ settle \in PassRow /\ settle.step = "settle" /\ settle.run = old.run
       /\ settle.todo = old.todo /\ settle.opp = o /\ settle.verdict = "needs_review"
       /\ prepare \in PassRow /\ prepare.step = "prepare" /\ prepare.run = old.run
       /\ prepare.todo = old.todo /\ prepare.opp = o
  BY <1>2, <1>4, <1>6, <1>8, <1>9, <1>10 DEF PassRow
<1>12. PassOf(later)'
  BY <1>3, <1>4, <1>11 DEF PassOf
<1>13. PassOf(settle)'
  BY <1>3, <1>4, <1>6, <1>11 DEF PassOf
<1>14. \/ scheduler' = [scheduler EXCEPT ![s] = Idle]
       \/ scheduler' = [scheduler EXCEPT ![s] = later]
       \/ scheduler' = [scheduler EXCEPT ![s] = settle]
       \/ /\ prep[old.run][o] \notin {"open", "failed"}
          /\ scheduler' = [scheduler EXCEPT ![s] = prepare]
  BY <1>5, <1>8, <1>9, <1>10
<1>15. CASE /\ prep[old.run][o] \notin {"open", "failed"}
            /\ scheduler' = [scheduler EXCEPT ![s] = prepare]
  <2>1. prep[old.run][o] \in {"none", "open", "succeeded", "failed"} /\ prep[old.run][o] # "none"
    BY <1>4, <1>6 DEF Material
  <2>2. prep'[old.run][o] = "succeeded"
    BY <1>7, <1>15, <2>1
  <2>3. PassOf(prepare)'
    BY <1>3, <1>4, <1>6, <1>11, <2>2 DEF PassOf
  <2>4. QED
    BY <1>11, <1>15, <2>3, OneGoesOn
<1>16. QED
  BY <1>11, <1>12, <1>13, <1>14, <1>15, IdleIsRight, OneGoesOn

\* An action that goes to be approved has been put there.
LEMMA PrepareIsRight ==
  ASSUME Onward, Grants', Passes, NEW s \in Schedulers, PrepareAction(s)
  PROVE  Passes'
<1> DEFINE r == scheduler[s].run
           a == PlannedAction(scheduler[s].opp, "apply")
           state == IF a \in DOMAIN actions THEN actions[a] ELSE "pending_approval"
<1>1. scheduler[s].step = "prepare"
  BY DEF PrepareAction
<1>2. \/ Verdict(state) # "authorize" /\ ToSettle(s, Verdict(state))
      \/ ToSettle(s, "prepared")
      \/ scheduler' = [scheduler EXCEPT ![s].step = "authorize", ![s].action = a]
  BY DEF PrepareAction
<1>3. Verdict(state) \in {"prepared", "needs_review", "authorize"}
  BY DEF Verdict
<1>4. CASE Verdict(state) # "authorize" /\ ToSettle(s, Verdict(state))
  BY <1>1, <1>3, <1>4, SettleIsRight
<1>5. CASE ToSettle(s, "prepared")
  BY <1>1, <1>5, SettleIsRight
<1>6. CASE scheduler' = [scheduler EXCEPT ![s].step = "authorize", ![s].action = a]
  <2>1. PICK old : old = scheduler[s]
    OBVIOUS
  <2>2. old \in PassRow /\ PassOf(old)
    BY <2>1 DEF Passes, PassRow
  <2>3. PassOf(old)'
    BY <2>2, RowStays DEF PassOf
  <2>4. PICK planned : planned = a
    OBVIOUS
  <2>5. planned \in DOMAIN actions'
    BY <2>4 DEF PrepareAction, Put
  <2>6. planned \in ActionIds
    BY <2>5 DEF Grants
  <2>7. PICK row : row = [old EXCEPT !.step = "authorize", !.action = planned]
    OBVIOUS
  <2>8. /\ row \in PassRow /\ row.step = "authorize" /\ row.action = planned
        /\ row.run = old.run /\ row.todo = old.todo /\ row.opp = old.opp
    BY <2>2, <2>6, <2>7 DEF PassRow
  <2>9. PassOf(row)'
    BY <1>1, <2>1, <2>3, <2>5, <2>8 DEF PassOf
  <2>10. scheduler' = [scheduler EXCEPT ![s] = row]
    BY <1>6, <2>1, <2>4, <2>7 DEF Passes
  <2>11. QED
    BY <2>8, <2>9, <2>10, OneGoesOn
<1>7. QED
  BY <1>2, <1>4, <1>5, <1>6

\* A pass that added its items has nothing to go through yet.
LEMMA ReconcileIsRight ==
  ASSUME Onward, Passes, NEW s \in Schedulers, NEW r \in Runs, Reconcile(s, r)
  PROVE  Passes'
<1>1. PICK row : row = [Idle EXCEPT !.step = "select", !.run = r]
  OBVIOUS
<1>2. row = [step |-> "select", run |-> r, todo |-> {}, opp |-> "none",
             verdict |-> "none", action |-> NoAction]
  BY <1>1 DEF Idle
<1>3. r \in 0..MaxRuns
  BY CareerAssumption DEF Runs
<1>4. row \in PassRow
  BY <1>2, <1>3 DEF PassRow
<1>5. PassOf(row)'
  BY <1>2 DEF PassOf
<1>6. scheduler' = [scheduler EXCEPT ![s] = row]
  BY <1>1 DEF Reconcile
<1>7. QED
  BY <1>4, <1>5, <1>6, OneGoesOn

\* The items a pass goes through are there.
LEMMA SelectItemsIsRight ==
  ASSUME Onward, Passes, NEW s \in Schedulers, SelectItems(s)
  PROVE  Passes'
<1>1. PICK r : r = scheduler[s].run
  OBVIOUS
<1>2. r \in Runs
  BY <1>1 DEF SelectItems, Passes, PassOf
<1>3. PICK todo \in SUBSET {o \in Opps : items[r][o].state \in {"preparing", "waiting_budget"}} :
        scheduler' = [scheduler EXCEPT ![s] =
                IF todo = {} THEN Idle
                ELSE [Idle EXCEPT !.step = "inspect", !.run = r, !.todo = todo]]
  BY <1>1, Zenon DEF SelectItems, Open
<1>4. items' = items
  BY DEF SelectItems, grantVars
<1>5. PICK row : row = [Idle EXCEPT !.step = "inspect", !.run = r, !.todo = todo]
  OBVIOUS
<1>6. row = [step |-> "inspect", run |-> r, todo |-> todo, opp |-> "none",
             verdict |-> "none", action |-> NoAction]
  BY <1>5 DEF Idle
<1>7. r \in 0..MaxRuns
  BY <1>2, CareerAssumption DEF Runs
<1>8. row \in PassRow
  BY <1>3, <1>6, <1>7 DEF PassRow
<1>9. PassOf(row)'
  BY <1>2, <1>3, <1>4, <1>6 DEF PassOf
<1>10. scheduler' = [scheduler EXCEPT ![s] = Idle] \/ scheduler' = [scheduler EXCEPT ![s] = row]
  BY <1>3, <1>5
<1>11. QED
  BY <1>8, <1>9, <1>10, IdleIsRight, OneGoesOn

\* After every step the schedulers remember what the tables bear out.
LEMMA PassesKept ==
  ASSUME Frame, Material, Grants, Passes, [Next]_vars
  PROVE  Passes'
<1>1. Onward /\ Grants'
  BY StepsGoOn, GrantsKept
<1>2. ASSUME NEW s \in Schedulers, SchedulerStep(s) \/ CrashScheduler(s) PROVE Passes'
  <2>1. CASE Inspect(s)
    BY <1>1, <2>1, InspectIsRight
  <2>2. CASE PrepareAction(s)
    BY <1>1, <2>2, PrepareIsRight
  <2>3. CASE PreparationRefused(s)
    <3>1. scheduler[s].step = "prepare" /\ ToSettle(s, "needs_review")
      BY <2>3 DEF PreparationRefused
    <3>2. QED
      BY <1>1, <3>1, SettleIsRight
  <2>4. CASE SettleItem(s)
    <3>1. scheduler[s].step # "idle" /\ NextItem(s)
      BY <2>4 DEF SettleItem
    <3>2. QED
      BY <1>1, <3>1, NextItemIsRight
  <2>5. CASE Authorize(s)
    <3>1. scheduler[s].step = "authorize" /\ (NextItem(s) \/ ToSettle(s, "needs_review"))
      BY <2>5 DEF Authorize
    <3>2. QED
      BY <1>1, <3>1, NextItemIsRight, SettleIsRight
  <2>6. CASE AuthorizationRaises(s) \/ CrashScheduler(s)
    <3>1. scheduler' = [scheduler EXCEPT ![s] = Idle]
      BY <2>6 DEF AuthorizationRaises, CrashScheduler
    <3>2. QED
      BY <1>1, <3>1, IdleIsRight, OneGoesOn
  <2>7. CASE SelectItems(s)
    BY <1>1, <2>7, SelectItemsIsRight
  <2>8. QED
    BY <1>2, <2>1, <2>2, <2>3, <2>4, <2>5, <2>6, <2>7 DEF SchedulerStep
<1>3. ASSUME NEW s \in Schedulers, NEW r \in Runs, Reconcile(s, r) PROVE Passes'
  BY <1>1, <1>3, ReconcileIsRight
<1>4. CASE scheduler' = scheduler
  BY <1>1, <1>4, NoneGoesOn
<1>5. CASE UNCHANGED vars
  BY <1>4, <1>5 DEF vars
<1>6. CASE People
  BY <1>4, <1>6 DEF People, Pause, UpdateProfile, Play, UpdateOpportunityState, ReviewContact,
     RevokeContact, PrepareContactEmail, Decide
<1>7. CASE Workers
  BY <1>4, <1>7 DEF Workers, SaveOpportunity, SaveApplicationDraft, PreparationEnds,
     BeginSideEffect, EndSideEffect
<1>8. CASE Time
  BY <1>4, <1>8 DEF Time, Day, PacketExpires, ReservationLeavesWindow, ItemsLeaveWindow, RunExpires
<1>9. ASSUME NEW s \in Schedulers, NEW r \in Runs, EndRun(s, r) PROVE Passes'
  BY <1>4, <1>9 DEF EndRun
<1>10. QED
  BY <1>2, <1>3, <1>5, <1>6, <1>7, <1>8, <1>9 DEF Next, Pass

-----------------------------------------------------------------------------
(* The budgets.                                                            *)

\* There are finitely many items, and reservations.
LEMMA CountsAreNumbers ==
  ASSUME Grants, NEW r \in Runs
  PROVE  /\ IsFiniteSet(PreparedRecently) /\ Cardinality(PreparedRecently) \in Nat
         /\ IsFiniteSet(Used(r)) /\ Cardinality(Used(r)) \in Nat
         /\ DailyLimit[r] \in Nat \ {0} /\ PrepareLimit \in Nat
<1>1. IsFiniteSet(Runs) /\ IsFiniteSet(Opps)
  BY CareerAssumption, FS_Interval DEF Runs
<1>2. PreparedRecently \in SUBSET (Runs \X Opps)
  BY DEF PreparedRecently
<1>3. IsFiniteSet(PreparedRecently)
  BY <1>1, <1>2, FS_Product, FS_Subset
<1>4. Used(r) \in SUBSET DOMAIN ledger /\ IsFiniteSet(DOMAIN ledger)
  BY DEF Used, Grants
<1>5. IsFiniteSet(Used(r))
  BY <1>4, FS_Subset
<1>6. QED
  BY <1>3, <1>5, FS_CardinalityType, CareerAssumption DEF Runs

\* No more than the limit are prepared, whatever runs there are.
LEMMA PreparationKept ==
  ASSUME Frame, Material, Grants, Passes, [Next]_vars,
         Cardinality(PreparedRecently) <= PrepareLimit
  PROVE  Cardinality(PreparedRecently') <= PrepareLimit
<1>1. /\ IsFiniteSet(PreparedRecently) /\ Cardinality(PreparedRecently) \in Nat
      /\ PrepareLimit \in Nat
  BY PlaysTyped, CountsAreNumbers DEF Frame
<1>2. CASE PreparedRecently' \subseteq PreparedRecently
  <2>1. PICK after : after = PreparedRecently'
    OBVIOUS
  <2>2. Cardinality(after) <= Cardinality(PreparedRecently) /\ Cardinality(after) \in Nat
    BY <1>1, <1>2, <2>1, FS_Subset, FS_CardinalityType
  <2>3. QED
    BY <1>1, <2>1, <2>2
<1>3. items \in [Runs -> [Opps -> ItemRow]]
  BY DEF Material, ItemRow
<1>4. ASSUME NEW s \in Schedulers, SchedulerStep(s) \/ CrashScheduler(s)
      PROVE  PreparedRecently' \subseteq PreparedRecently
  <2>1. ItemsStay
    BY <1>3, <1>4, PassesResettle, ResettledStays
  <2>2. QED
    BY <2>1 DEF ItemsStay, PreparedRecently
<1>5. ASSUME NEW s \in Schedulers, NEW r \in Runs, Reconcile(s, r)
      PROVE  Cardinality(PreparedRecently') <= PrepareLimit
  <2>1. PICK new \in SUBSET Opps : ReconcileAdds(r, new)
    BY <1>5, ReconcileIsAddition
  <2>2. PreparedRecently' \subseteq PreparedRecently \cup ({r} \X new)
    BY <2>1 DEF PreparedRecently, ReconcileAdds
  <2>3. IsFiniteSet(new) /\ Cardinality(new) \in Nat
    BY CareerAssumption, FS_Subset, FS_CardinalityType
  <2>4. IsFiniteSet({r}) /\ Cardinality({r}) = 1
    BY FS_Singleton
  <2> DEFINE added == {r} \X new
  <2>5. IsFiniteSet(added) /\ Cardinality(added) = Cardinality({r}) * Cardinality(new)
    BY <2>3, <2>4, FS_Product
  <2>6. Cardinality(added) = Cardinality(new)
    BY <2>3, <2>4, <2>5
  <2>7. Cardinality(new) <= IF Cardinality(PreparedRecently) < PrepareLimit
                              THEN PrepareLimit - Cardinality(PreparedRecently) ELSE 0
    <3>1. DailyLimit[r] \in Nat
      BY CountsAreNumbers
    <3>2. Cardinality({x \in PreparedRecently : x[1] = r}) \in Nat
      BY <1>1, FS_Subset, FS_CardinalityType
    <3>3. QED
      BY <1>1, <2>1, <2>3, <3>1, <3>2 DEF ReconcileAdds, Capacity, Smaller
  <2> HIDE DEF added
  <2>8. /\ IsFiniteSet(PreparedRecently \cup added)
        /\ Cardinality(PreparedRecently \cup added) <= Cardinality(PreparedRecently) + Cardinality(added)
        /\ Cardinality(PreparedRecently \cup added) \in Nat
    <3>1. IsFiniteSet(PreparedRecently \cup added)
      BY <1>1, <2>5, FS_Union
    <3>2. Cardinality(PreparedRecently \cup added)
            = Cardinality(PreparedRecently) + Cardinality(added)
              - Cardinality(PreparedRecently \cap added)
      BY <1>1, <2>5, FS_Union
    <3>3. Cardinality(PreparedRecently \cap added) \in Nat
      BY <1>1, FS_Subset, FS_CardinalityType
    <3>4. QED
      BY <1>1, <2>3, <2>6, <3>1, <3>2, <3>3, FS_CardinalityType
  <2>9. PICK after : after = PreparedRecently'
    OBVIOUS
  <2>10. Cardinality(after) <= Cardinality(PreparedRecently \cup added) /\ Cardinality(after) \in Nat
    BY <2>2, <2>8, <2>9, FS_Subset, FS_CardinalityType DEF added
  <2>11. QED
    BY <1>1, <2>3, <2>6, <2>7, <2>8, <2>9, <2>10
<1>6. ASSUME NEW r \in Runs, NEW stamp \in Nat, ItemsLeaveWindow(r, stamp)
      PROVE  PreparedRecently' \subseteq PreparedRecently
  BY <1>3, <1>6, WindowMoves DEF PreparedRecently
<1>7. ASSUME items' = items PROVE PreparedRecently' \subseteq PreparedRecently
  BY <1>7 DEF PreparedRecently
<1>8. QED
  BY <1>2, <1>4, <1>5, <1>6, <1>7, OthersTouch

\* No more than the limit of some run are reserved.
LEMMA ReservationsKept ==
  ASSUME Frame, Material, Grants, Passes, [Next]_vars,
         NEW r \in Runs, Cardinality(Used(r)) <= DailyLimit[r]
  PROVE  \E q \in Runs : Cardinality(Used(q)') <= DailyLimit[q]
<1>1. /\ IsFiniteSet(Used(r)) /\ Cardinality(Used(r)) \in Nat /\ DailyLimit[r] \in Nat
  BY CountsAreNumbers
<1>2. ASSUME Used(r)' \subseteq Used(r) PROVE Cardinality(Used(r)') <= DailyLimit[r]
  <2>1. PICK after : after = Used(r)'
    OBVIOUS
  <2>2. Cardinality(after) <= Cardinality(Used(r)) /\ Cardinality(after) \in Nat
    BY <1>1, <1>2, <2>1, FS_Subset, FS_CardinalityType
  <2>3. QED
    BY <1>1, <2>1, <2>2
<1>3. CASE ledger' = ledger
  BY <1>2, <1>3 DEF Used
<1>4. ASSUME NEW a, ReservationAges(a) PROVE Used(r)' \subseteq Used(r)
  BY <1>4 DEF Used, ReservationAges
<1>5. ASSUME NEW q, NEW a, ActionReserved(q, a) PROVE Cardinality(Used(q)') <= DailyLimit[q]
  <2>1. q \in Runs /\ Cardinality(Used(q)) < DailyLimit[q] /\ ledger' = Put(ledger, a, "recent")
    BY <1>5 DEF ActionReserved
  <2>2. /\ IsFiniteSet(Used(q)) /\ Cardinality(Used(q)) \in Nat /\ DailyLimit[q] \in Nat
    BY <2>1, CountsAreNumbers
  <2>3. PICK after : after = Used(q)'
    OBVIOUS
  <2>4. after \subseteq Used(q) \cup {a}
    BY <2>1, <2>3 DEF Used, Put
  <2>5. /\ IsFiniteSet(Used(q) \cup {a}) /\ Cardinality(Used(q) \cup {a}) \in Nat
        /\ Cardinality(Used(q) \cup {a}) <= Cardinality(Used(q)) + 1
    BY <2>2, FS_AddElement, FS_CardinalityType
  <2>6. Cardinality(after) <= Cardinality(Used(q) \cup {a}) /\ Cardinality(after) \in Nat
    BY <2>4, <2>5, FS_Subset, FS_CardinalityType
  <2>7. QED
    BY <2>1, <2>2, <2>3, <2>5, <2>6
<1>6. ASSUME NEW q, NEW a, ActionReserved(q, a) PROVE q \in Runs
  BY <1>6 DEF ActionReserved
<1>7. ASSUME NEW a, NEW state, ActionPut(a, state) \/ ActionMoves(a) PROVE ledger' = ledger
  BY <1>7 DEF ActionPut, ActionMoves
<1>8. QED
  BY <1>2, <1>3, <1>4, <1>5, <1>6, <1>7, GrantSteps

\* No step exceeds a budget.
LEMMA BudgetsKeptByStep ==
  ASSUME Frame, Material, Grants, Passes, BudgetsKept, [Next]_vars
  PROVE  BudgetsKept'
<1>1. Cardinality(PreparedRecently) <= PrepareLimit
  BY DEF BudgetsKept, PreparedRecently
<1>2. PICK r \in Runs : Cardinality(Used(r)) <= DailyLimit[r]
  BY DEF BudgetsKept, Used
<1>3. Cardinality(PreparedRecently') <= PrepareLimit
  BY <1>1, PreparationKept
<1>4. \E q \in Runs : Cardinality(Used(q)') <= DailyLimit[q]
  BY <1>2, ReservationsKept
<1>5. QED
  BY <1>3, <1>4 DEF BudgetsKept, PreparedRecently, Used

\* The first states satisfy the invariant.
LEMMA InitIInv == Init => IInv
<1> SUFFICES ASSUME Init PROVE IInv
  OBVIOUS
<1>1. /\ MaxChanges \in Nat /\ MaxRuns \in Nat /\ 0 \in 0..MaxRuns /\ 0 \in 0..MaxChanges
  BY CareerAssumption
<1>2. Frame
  BY <1>1 DEF Init, Frame, RunRow, ContactRow
<1>3. DOMAIN actions = {} /\ DOMAIN ledger = {}
  BY DEF Init
<1>4. Material
  BY <1>1 DEF Init, Material, ItemRow, ItemStates
<1>5. Grants
  BY <1>3, FS_EmptySet DEF Grants
<1>6. Passes
  <2>1. Idle \in PassRow /\ PassOf(Idle)
    BY <1>1 DEF Idle, PassRow, PassOf
  <2>2. scheduler = [s \in Schedulers |-> Idle]
    BY DEF Init
  <2>3. QED
    BY <2>1, <2>2 DEF Passes, PassRow
<1>7. BudgetsKept
  <2>1. 1 \in Runs
    BY <1>2, PlaysTyped DEF Frame
  <2>2. DailyLimit[1] \in Nat /\ PrepareLimit \in Nat
    BY <2>1, CareerAssumption DEF Runs
  <2>3. {x \in Runs \X Opps : items[x[1]][x[2]].recent} = {}
    BY DEF Init
  <2>4. {a \in DOMAIN ledger : ledger[a] = "recent"} = {}
    BY <1>3
  <2>5. Cardinality({x \in Runs \X Opps : items[x[1]][x[2]].recent}) = 0
        /\ Cardinality({a \in DOMAIN ledger : ledger[a] = "recent"}) = 0
    BY <2>3, <2>4, FS_EmptySet
  <2>6. \E r \in Runs : Cardinality({a \in DOMAIN ledger : ledger[a] = "recent"}) <= DailyLimit[r]
    <3>1. Cardinality({a \in DOMAIN ledger : ledger[a] = "recent"}) <= DailyLimit[1]
      <4>1. 0 <= DailyLimit[1]
        BY <2>2
      <4>2. QED
        BY <2>5, <4>1, Zenon
    <3>2. QED
      BY <2>1, <3>1
  <2>7. Cardinality({x \in Runs \X Opps : items[x[1]][x[2]].recent}) <= PrepareLimit
    <3>1. 0 <= PrepareLimit
      BY <2>2
    <3>2. QED
      BY <2>5, <3>1, Zenon
  <2>8. QED
    BY <2>6, <2>7, Zenon DEF BudgetsKept
<1>8. QED
  BY <1>2, <1>4, <1>5, <1>6, <1>7 DEF IInv

\* Every step keeps the invariant.
LEMMA NextIInv == IInv /\ [Next]_vars => IInv'
BY FrameKept, MaterialKept, GrantsKept, PassesKept, BudgetsKeptByStep DEF IInv

\* The invariant holds in every state.
THEOREM PassesFollowTables == Spec => []IInv
BY InitIInv, NextIInv, PTL DEF Spec

\* Every value has its type: an approval is one of an action that is there,
\* its version is the one of a draft, and no draft is replaced more often than
\* there are changes.
THEOREM CareerTyped == Spec => []TypeOK
<1>1. IInv => TypeOK
  <2> SUFFICES ASSUME IInv PROVE TypeOK
    OBVIOUS
  <2>1. drafts \in [Opps -> [Runs -> Versions]]
    <3>1. drafts \in [Opps -> [Runs -> Nat]] /\ \A r \in Runs, o \in Opps : drafts[o][r] <= changes + 1
      BY DEF IInv, Material
    <3>2. changes \in 0..MaxChanges /\ MaxChanges \in Nat
      BY CareerAssumption DEF IInv, Frame
    <3>3. \A r \in Runs, o \in Opps : drafts[o][r] \in Versions
      BY <3>1, <3>2 DEF Versions
    <3>4. QED
      BY <3>1, <3>3
  <2>2. \A s \in Schedulers : scheduler[s].step \in {"idle", "select", "inspect", "prepare", "settle", "authorize"}
    BY DEF IInv, Passes, PassOf
  <2>3. QED
    BY <2>1, <2>2 DEF IInv, Frame, Material, Grants, TypeOK, RunRow, ContactRow, ItemRow, States
<1>2. QED
  BY <1>1, PassesFollowTables, PTL

\* In no rolling day more is prepared or reserved than allowed, whatever the
\* runs, the schedulers and the listings are (preparation_capacity,
\* _authorize).
THEOREM CareerBudgets == Spec => []BudgetsKept
<1>1. IInv => BudgetsKept
  BY DEF IInv
<1>2. QED
  BY <1>1, PassesFollowTables, PTL

-----------------------------------------------------------------------------
(* The boundary and the approval.                                          *)

\* Nothing but the boundary begins an action, with its guards.
LEMMA BegunWithGuards ==
  ASSUME IInv, [Next]_vars, NEW a \in DOMAIN actions,
         actions[a] = "queued", actions'[a] = "executing"
  PROVE  MayBegin(a)
<1>1. ASSUME NEW b, NEW state, ActionPut(b, state) PROVE FALSE
  <2>1. actions'[a] = IF a = b THEN state ELSE actions[a]
    BY <1>1 DEF ActionPut, Put
  <2>2. QED
    BY <1>1, <2>1 DEF ActionPut
<1>2. ASSUME NEW b, ActionMoves(b) PROVE MayBegin(a)
  <2>1. ASSUME NEW state \in States \ {"executing"}, actions' = [actions EXCEPT ![b] = state]
        PROVE FALSE
    BY <2>1
  <2>2. CASE /\ actions[b] = "queued" /\ MayBegin(b)
             /\ actions' = [actions EXCEPT ![b] = "executing"]
    <3>1. a = b
      BY <2>2
    <3>2. QED
      BY <2>2, <3>1
  <2>3. QED
    BY <1>2, <2>1, <2>2 DEF ActionMoves
<1>3. ASSUME NEW r, NEW b, ActionReserved(r, b) PROVE FALSE
  BY <1>3 DEF ActionReserved
<1>4. ASSUME NEW b, ReservationAges(b) PROVE FALSE
  BY <1>4 DEF ReservationAges
<1>5. QED
  BY <1>1, <1>2, <1>3, <1>4, GrantSteps DEF IInv

\* Nothing but the approval reserves, and not for a job that something is out
\* for.
LEMMA ReservedWithGuards ==
  ASSUME IInv, [Next]_vars, NEW a \in DOMAIN ledger' \ DOMAIN ledger
  PROVE  ~OutBefore(a)
<1>1. ASSUME NEW b, NEW state, ActionPut(b, state) PROVE FALSE
  BY <1>1 DEF ActionPut
<1>2. ASSUME NEW b, ActionMoves(b) \/ ReservationAges(b) PROVE FALSE
  BY <1>2 DEF ActionMoves, ReservationAges
<1>3. ASSUME NEW r, NEW b, ActionReserved(r, b) PROVE ~OutBefore(a)
  <2>1. DOMAIN ledger' = DOMAIN ledger \cup {b}
    BY <1>3 DEF ActionReserved, Put
  <2>2. a = b
    BY <2>1
  <2>3. QED
    BY <1>3, <2>2 DEF ActionReserved
<1>4. QED
  BY <1>1, <1>2, <1>3, GrantSteps DEF IInv

\* What a run approved begins only in the scope it was approved for, whatever
\* happens between approval and boundary (guard_autopilot_action).
THEOREM ScopeHolds == Spec => StaysInScope
<1> DEFINE InItsScope(a) ==
             /\ runs[a.origin].state = "running" /\ ~runs[a.origin].expired
             /\ profile = [active |-> TRUE, version |-> runs[a.origin].version]
             /\ opps[a.opp].open
             /\ opps[a.opp].version = items[a.origin][a.opp].version
             /\ DraftIntact(a)
           Step == \A a \in DOMAIN ledger :
                     actions[a] = "queued" /\ actions'[a] = "executing" => InItsScope(a)
<1>1. IInv /\ [Next]_vars => [Step]_vars
  <2> SUFFICES ASSUME IInv, [Next]_vars, NEW a \in DOMAIN ledger,
                      actions[a] = "queued", actions'[a] = "executing"
               PROVE  InItsScope(a)
    OBVIOUS
  <2>1. a \in DOMAIN actions
    BY DEF IInv, Grants
  <2>2. AutopilotGuard(a)
    BY <2>1, BegunWithGuards DEF MayBegin
  <2>3. Eligible(a.origin, a.opp) /\ opps[a.opp].version = items[a.origin][a.opp].version
        /\ DraftIntact(a)
    BY <2>2 DEF AutopilotGuard
  <2>4. profile \in [active: BOOLEAN, version: Nat]
    BY DEF IInv, Frame
  <2>5. profile = [active |-> TRUE, version |-> runs[a.origin].version]
    BY <2>3, <2>4 DEF Eligible, InScope
  <2>6. QED
    BY <2>3, <2>5 DEF Eligible, InScope
<1>2. QED
  BY <1>1, PassesFollowTables, PTL DEF Spec, StaysInScope

\* Nothing is approved for a job that something is out for, and one address
\* gets one email about a job (_authorize, guard_email_suppression).
THEOREM NothingIsDoneTwice == Spec => NothingTwice
<1> DEFINE Step == \A a \in DOMAIN actions :
       /\ a \in DOMAIN ledger' \ DOMAIN ledger =>
            \A b \in DOMAIN actions \ {a} :
              Target[b.opp] = Target[a.opp] => actions[b] \notin Out
       /\ Mail(a) /\ actions[a] = "queued" /\ actions'[a] = "executing" =>
            \A b \in DOMAIN actions \ {a} :
              Mail(b) /\ Target[b.opp] = Target[a.opp] => actions[b] \notin Begun
<1>1. IInv /\ [Next]_vars => [Step]_vars
  <2> SUFFICES ASSUME IInv, [Next]_vars PROVE Step
    OBVIOUS
  <2>1. ASSUME NEW a \in DOMAIN actions, a \in DOMAIN ledger' \ DOMAIN ledger,
               NEW b \in DOMAIN actions \ {a}, Target[b.opp] = Target[a.opp]
        PROVE  actions[b] \notin Out
    BY <2>1, ReservedWithGuards DEF OutBefore
  <2>2. ASSUME NEW a \in DOMAIN actions, Mail(a), actions[a] = "queued", actions'[a] = "executing",
               NEW b \in DOMAIN actions \ {a}, Mail(b), Target[b.opp] = Target[a.opp]
        PROVE  actions[b] \notin Begun
    <3>1. MayBegin(a)
      BY <2>2, BegunWithGuards
    <3>2. QED
      BY <2>2, <3>1 DEF MayBegin, SentBefore
  <2>3. QED
    BY <2>1, <2>2
<1>2. QED
  BY <1>1, PassesFollowTables, PTL DEF Spec, NothingTwice
=============================================================================
