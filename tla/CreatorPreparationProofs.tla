----------------------- MODULE CreatorPreparationProofs -----------------------
(***************************************************************************)
(* Proofs about CreatorPreparation: the budgets of a rolling day hold, a   *)
(* batch issues drafts only while its worker owns it and to nobody who is  *)
(* being written to, and evidence under an introduction stands.            *)
(***************************************************************************)
EXTENDS CreatorPreparation, FiniteSetTheorems, TLAPS

-----------------------------------------------------------------------------
(* The inductive invariant.                                                *)

\* The rows of the tables.
CreatorRow == [version: Nat, by: Requests \cup {None, "discovery"},
               status: {"absent", "open", "answered", "closed"},
               candidates: SUBSET Addresses, address: Addresses \cup {None}]
DraftRow == [hash: Nat \X Nat, at: Nat, live: BOOLEAN]
Hashes == {<<>>} \cup UNION {[S -> Nat \X Nat] : S \in SUBSET Creators}
TaskRow == [status: {"absent", "queued", "running", "succeeded", "failed", "cancelled",
                     "dead_lettered"},
            lease: 0..MaxLeases, valid: BOOLEAN, cancel: BOOLEAN, at: Nat, edition: Nat,
            items: Hashes, done: SUBSET Creators, explicit: BOOLEAN]
WorkerRow == [step: {"idle", "start", "next", "slot", "fetch", "save", "saving"},
              task: Requests \cup {None}, lease: Nat, left: SUBSET Creators,
              item: Creators \cup {None}, found: SUBSET Addresses,
              keys: SUBSET (Creators \cup Addresses), quota: BOOLEAN]

\* The scene a behaviour plays, the creators and the clock.
Frame ==
  /\ scenario \in Scenarios
  /\ edition \in [Campaigns -> Nat]
  /\ creator \in [Creators -> CreatorRow]
  /\ contact \in [Creators -> [Addresses -> {"none", "pending", "sent", "void"}]]
  /\ clock \in 0..LastHour /\ changes \in 0..MaxChanges

\* A request is taken once, and taken up as often as it may be leased.
Tasks ==
  /\ task \in [Requests -> TaskRow]
  /\ IsFiniteSet({r \in Requests : task[r].status # "absent"})
  /\ \A r \in Requests :
       /\ task[r].status = "absent" => task[r].done = {}
       /\ task[r].status = "queued" => task[r].lease < MaxLeases

\* A draft of a batch belongs to an item whose outcome is recorded.
Prepared ==
  /\ DOMAIN draft \subseteq (Batches \cup PersonKeys) \X Creators
  /\ IsFiniteSet(DOMAIN draft) /\ IsFiniteSet(DOMAIN reply)
  /\ \A k \in DOMAIN draft :
       draft[k] \in DraftRow /\ (k[1] \in Batches => k[2] \in task[k[1]].done)
  /\ \A k \in DOMAIN reply : reply[k] \in Nat

\* A selection that waits for its locks is of a request that is not there yet.
Locks ==
  /\ budget \in {None} \cup Workers \cup Pilots
  /\ applying # None =>
       /\ applying.pilot \in Pilots /\ applying.picks \in SUBSET Creators
       /\ task[applying.pilot].status = "absent"

\* What a worker is at is an item of its request.
WorkOf(row) ==
  /\ row.step # "idle" => row.task \in Requests /\ task[row.task].status # "absent"
  /\ row.step \notin {"idle", "start"} => row.left \subseteq DOMAIN task[row.task].items
  /\ row.step \in {"slot", "fetch", "save", "saving"} => row.item \in row.left
  /\ row.step = "slot" => row.task \in Batches

Workings == worker \in [Workers -> WorkerRow] /\ \A w \in Workers : WorkOf(worker[w])

\* What counts against the budget: drafts of the day, and slots.
Held == RecentDrafts \cup Reservations

BudgetHeld ==
  /\ Cardinality(Held) + Cardinality(RecentReplies) <= DailyDrafts
  /\ \A c \in Creators :
       Cardinality({k \in RecentDrafts : k[2] = c})
         + Cardinality({k \in RecentReplies : k[1] = c}) <= DraftsPerCreator
  /\ ResearchUsed <= DailyResearch

IInv == Frame /\ Tasks /\ Prepared /\ Locks /\ Workings /\ BudgetHeld

-----------------------------------------------------------------------------
(* What a step may touch.                                                  *)

\* What the limits are.
LEMMA Limits ==
  /\ DailyDrafts \in Nat /\ DraftsPerCreator \in Nat /\ DailyResearch \in Nat /\ PerSync \in Nat
  /\ Day \in Nat /\ LastHour \in Nat /\ MaxChanges \in Nat /\ MaxLeases \in Nat \ {0}
BY PreparationAssumption

\* None is no row, request or worker, and requests of different kinds differ.
LEMMA Names ==
  /\ \A x \in Creators \cup Requests : Home[x] \in Campaigns
  /\ None \notin Creators /\ None \notin Requests /\ None \notin Workers /\ None # "discovery"
  /\ \A r \in Requests, c \in Creators : None # <<r, c>>
  /\ Batches \cap Pilots = {} /\ Batches \cap PersonKeys = {} /\ "discovery" \notin Requests
BY PreparationAssumption DEF Campaigns, Range, Requests

\* The scene is one of the model.
LEMMA SceneTyped ==
  ASSUME scenario \in Scenarios
  PROVE  /\ scenario.changes \in 0..MaxChanges /\ scenario.hours \in 0..LastHour
         /\ scenario.finds \in SUBSET SUBSET Addresses
         /\ scenario.requests \in SUBSET Requests
         /\ \A c \in Creators : /\ scenario.status[c] \in {"absent", "open", "answered"}
                                /\ scenario.address[c] \in Addresses
<1>1. scenario \in [requests: SUBSET Requests, status: [Creators -> {"absent", "open", "answered"}],
        address: [Creators -> Addresses], may: SUBSET STRING, changes: 0..MaxChanges,
        hours: 0..LastHour, workers: SUBSET Workers, finds: SUBSET SUBSET Addresses]
  BY PreparationAssumption
<1>2. QED
  BY <1>1

\* What identifies a creator are rows and addresses.
LEMMA KeysTyped ==
  ASSUME Frame
  PROVE  /\ \A c \in Creators : Identity(c) \subseteq Creators \cup Addresses
                                /\ Known(c) \subseteq Creators \cup Addresses
         /\ \A keys \in SUBSET (Creators \cup Addresses) :
              SenderKeys(keys) \subseteq Creators \cup Addresses
<1>1. \A c \in Creators : creator[c].address \in Addresses \cup {None}
                          /\ creator[c].candidates \subseteq Addresses
  BY DEF Frame, CreatorRow
<1>2. \A c \in Creators : Identity(c) \subseteq Creators \cup Addresses
                          /\ Known(c) \subseteq Creators \cup Addresses
  BY <1>1 DEF Identity, Known
<1>3. ASSUME NEW keys \in SUBSET (Creators \cup Addresses), NEW x \in SenderKeys(keys)
      PROVE  x \in Creators \cup Addresses
  <2>1. x \in keys \/ \E d \in Creators : x \in Known(d)
    BY <1>3 DEF SenderKeys, Matching
  <2>2. QED
    BY <1>2, <2>1
<1>4. QED
  BY <1>2, <1>3

\* The steps of a worker, with the three that stop it as one.
LEMMA WorkerCases ==
  ASSUME NEW w \in Workers, (\E r \in Requests : Claim(w, r)) \/ Work(w) \/ Crash(w)
  PROVE  \/ \E r \in Requests : Claim(w, r)
         \/ \E c \in worker[w].left : Recorded(w, c) \/ TakeSlot(w, c) \/ Look(w, c)
         \/ Begin(w) \/ Finish(w) \/ Issue(w) \/ Fetch(w) \/ StartSave(w) \/ SaveResearch(w)
         \/ (Stop(w) /\ worker[w].step # "idle") \/ Crash(w)
<1>1. Fail(w) => Stop(w) /\ worker[w].step # "idle"
  BY DEF Fail
<1>2. SlotLost(w) \/ SaveRefused(w) => Stop(w) /\ worker[w].step # "idle"
  BY DEF SlotLost, SaveRefused
<1>3. QED
  BY <1>1, <1>2 DEF Work, BatchWork, PilotWork

\* A worker changes requests, its lock, and one row of research or one draft.
LEMMA WorkerTouches ==
  ASSUME NEW w \in Workers, (\E r \in Requests : Claim(w, r)) \/ Work(w) \/ Crash(w)
  PROVE  /\ UNCHANGED <<scenario, edition, contact, packed, sender, reply, applying, clock>>
         /\ changes' = changes \/ Change
         /\ creator' = creator \/ SaveResearch(w)
         /\ draft' = draft \/ Issue(w)
<1>1. ASSUME NEW r \in Requests, Claim(w, r)
      PROVE UNCHANGED <<scenario, facts, sender, prepared, applying, clock, changes>>
  <2>1. UNCHANGED <<scenario, facts, sender, prepared, budget, applying, clock, changes>>
    BY <1>1, Zenon DEF Claim
  <2>2. QED
    BY <2>1
<1>2. ASSUME NEW c, Recorded(w, c) \/ TakeSlot(w, c) \/ Look(w, c)
      PROVE UNCHANGED <<scenario, facts, sender, prepared, applying, clock, changes>>
  BY <1>2 DEF Recorded, TakeSlot, Look
<1>3. ASSUME Begin(w) \/ Finish(w)
      PROVE UNCHANGED <<scenario, facts, sender, prepared, applying, clock, changes>>
  BY <1>3 DEF Begin, Finish
<1>4. CASE Issue(w)
  BY <1>4 DEF Issue, facts, prepared
<1>5. ASSUME Fetch(w)
      PROVE UNCHANGED <<scenario, facts, sender, prepared, applying, clock, changes>>
  <2>1. UNCHANGED <<scenario, facts, sender, prepared, task, budget, applying, clock, changes>>
    BY <1>5, Zenon DEF Fetch
  <2>2. QED
    BY <2>1
<1>6. CASE StartSave(w)
  BY <1>6 DEF StartSave, facts, prepared
<1>7. CASE SaveResearch(w)
  BY <1>7 DEF SaveResearch, facts, prepared
<1>8. ASSUME Stop(w)
      PROVE UNCHANGED <<scenario, facts, sender, prepared, applying, clock, changes>>
  BY <1>8 DEF Stop
<1>9. CASE Crash(w)
  BY <1>9 DEF Crash, facts, prepared
<1>10. QED
  BY <1>1, <1>2, <1>3, <1>4, <1>5, <1>6, <1>7, <1>8, <1>9, WorkerCases DEF facts, prepared

\* People and discovery change creators, packets and campaigns.
LEMMA PeopleTouch ==
  ASSUME People \/ \E c \in Creators : Discover(c)
  PROVE  /\ UNCHANGED <<scenario, draft, reply, task, worker, budget, applying, clock>>
         /\ changes' = changes \/ Change
<1> DEFINE Rest == /\ UNCHANGED <<scenario, prepared, task, worker, budget, applying, clock>>
                   /\ changes' = changes \/ Change
<1>1. ASSUME NEW c, StartSend(c) PROVE Rest
  <2>1. UNCHANGED <<scenario, facts, prepared, task, worker, budget, applying, clock>> /\ Change
    BY <1>1, Zenon DEF StartSend
  <2>2. QED
    BY <2>1
<1>2. ASSUME NEW c, NEW a, PacketEnds(c, a) PROVE Rest
  <2>1. UNCHANGED <<scenario, edition, creator, packed, sender, prepared, task, worker, budget, applying, clock>> /\ Change
    BY <1>2, Zenon DEF PacketEnds
  <2>2. QED
    BY <2>1
<1>3. ASSUME NEW c, AddCreator(c) PROVE Rest
  <2>1. UNCHANGED <<scenario, edition, contact, packed, sender, prepared, task, worker, budget, applying, clock>> /\ Change
    BY <1>3, Zenon DEF AddCreator
  <2>2. QED
    BY <2>1
<1>4. ASSUME NEW c, Refresh(c) PROVE Rest
  <2>1. UNCHANGED <<scenario, edition, contact, packed, sender, prepared, task, worker, budget, applying, clock>> /\ Change
    BY <1>4, Zenon DEF Refresh
  <2>2. QED
    BY <2>1
<1>5. ASSUME NEW c, EditCreator(c) PROVE Rest
  <2>1. UNCHANGED <<scenario, edition, contact, packed, sender, prepared, task, worker, budget, applying, clock>> /\ Change
    BY <1>5, Zenon DEF EditCreator
  <2>2. QED
    BY <2>1
<1>6. ASSUME NEW c, Close(c) PROVE Rest
  <2>1. UNCHANGED <<scenario, edition, contact, packed, sender, prepared, task, worker, budget, applying, clock>> /\ Change
    BY <1>6, Zenon DEF Close
  <2>2. QED
    BY <2>1
<1>7. ASSUME NEW c, Discover(c) PROVE Rest
  <2>1. UNCHANGED <<scenario, edition, contact, packed, sender, prepared, task, worker, budget, applying, clock>> /\ Change
    BY <1>7, Zenon DEF Discover
  <2>2. QED
    BY <2>1
<1>8. ASSUME NEW g, EditCampaign(g) PROVE Rest
  <2>1. UNCHANGED <<scenario, creator, contact, packed, sender, prepared, task, worker, budget, applying, clock>> /\ Change
    BY <1>8, Zenon DEF EditCampaign
  <2>2. QED
    BY <2>1
<1>9. ASSUME EndSend PROVE Rest
  BY <1>9 DEF EndSend
<1>10. Rest => UNCHANGED <<draft, reply>>
  BY DEF prepared
<1>11. Rest
  BY <1>1, <1>2, <1>3, <1>4, <1>5, <1>6, <1>7, <1>8, <1>9, Zenon DEF People
<1>12. QED
  BY <1>10, <1>11

\* Requests are cancelled, lose their lease and are recovered.
LEMMA RequestsTouch ==
  ASSUME NEW r \in Requests, CancelTask(r) \/ LeaseRunsOut(r) \/ Recover(r)
  PROVE  /\ UNCHANGED <<scenario, facts, sender, prepared, worker, budget, applying, clock>>
         /\ changes' = changes \/ Change
<1>1. CASE CancelTask(r)
  BY <1>1 DEF CancelTask
<1>2. CASE LeaseRunsOut(r)
  BY <1>2 DEF LeaseRunsOut
<1>3. CASE Recover(r)
  BY <1>3 DEF Recover
<1>4. QED
  BY <1>1, <1>2, <1>3

\* Drafts and replies change nothing else.
LEMMA DraftsTouch ==
  ASSUME Drafts
  PROVE  /\ UNCHANGED <<scenario, facts, sender, task, worker, budget, applying, clock>>
         /\ changes' = changes \/ Change
<1>1. ASSUME NEW c \in Creators, CreateReply(c) \/ RetryReply(c)
      PROVE  /\ UNCHANGED <<scenario, facts, sender, task, worker, budget, applying, clock>>
             /\ changes' = changes \/ Change
  BY <1>1 DEF CreateReply, RetryReply
<1>2. ASSUME NEW c \in Creators, NEW k \in PersonKeys, CreateDraft(k, c)
      PROVE  /\ UNCHANGED <<scenario, facts, sender, task, worker, budget, applying, clock>>
             /\ changes' = changes \/ Change
  BY <1>2 DEF CreateDraft
<1>3. ASSUME NEW k, DraftEnds(k)
      PROVE  /\ UNCHANGED <<scenario, facts, sender, task, worker, budget, applying, clock>>
             /\ changes' = changes \/ Change
  <2>1. UNCHANGED <<scenario, facts, sender, reply, task, worker, budget, applying, clock>> /\ Change
    BY <1>3, Zenon DEF DraftEnds
  <2>2. QED
    BY <2>1
<1>4. ASSUME NEW g, AutomaticReplies(g)
      PROVE  /\ UNCHANGED <<scenario, facts, sender, task, worker, budget, applying, clock>>
             /\ changes' = changes \/ Change
  BY <1>4 DEF AutomaticReplies
<1>5. QED
  BY <1>1, <1>2, <1>3, <1>4 DEF Drafts

\* Requests are made, and an explicit selection takes its locks.
LEMMA ApplyTouches ==
  ASSUME Apply
  PROVE  UNCHANGED <<scenario, facts, sender, prepared, worker, clock, changes>>
<1>1. ASSUME NEW b, NEW limit, CreateBatch(b, limit)
      PROVE  UNCHANGED <<scenario, facts, sender, prepared, worker, clock, changes>>
  BY <1>1 DEF CreateBatch
<1>2. ASSUME NEW p, NEW limit, CreatePilot(p, limit)
      PROVE  UNCHANGED <<scenario, facts, sender, prepared, worker, clock, changes>>
  BY <1>2 DEF CreatePilot
<1>3. ASSUME NEW p, NEW picks, ApplyExplicit(p, picks)
      PROVE  UNCHANGED <<scenario, facts, sender, prepared, worker, clock, changes>>
  BY <1>3 DEF ApplyExplicit
<1>4. CASE CreateExplicit
  BY <1>4 DEF CreateExplicit
<1>5. QED
  BY <1>1, <1>2, <1>3, <1>4 DEF Apply

\* The scene, the creators, packets and clock keep their types.
LEMMA ChangeBounded ==
  ASSUME Frame, Change
  PROVE  changes' \in 0..MaxChanges
<1>1. scenario.changes \in 0..MaxChanges /\ changes \in 0..MaxChanges
  BY SceneTyped DEF Frame
<1>2. changes < scenario.changes /\ changes' = changes + 1
  BY DEF Change
<1>3. QED
  BY <1>1, <1>2, Limits

\* A creator with merged evidence is a row of the table.
LEMMA MergedTyped ==
  ASSUME Frame, NEW c \in Creators, NEW found \in SUBSET Addresses
  PROVE  /\ Merged(c, found) \in CreatorRow
         /\ \A by \in Requests \cup {None, "discovery"} :
              [Merged(c, found) EXCEPT !.by = by] \in CreatorRow
<1>2. PICK old : old = creator[c]
  OBVIOUS
<1>3. old \in CreatorRow /\ old.version + 1 \in Nat
  BY <1>2 DEF Frame, CreatorRow
<1>4. Merged(c, found) = [old EXCEPT !.version = old.version + 1, !.candidates = found]
  BY <1>2, Zenon DEF Merged
<1>5. Merged(c, found) \in CreatorRow
  <2>1. PICK n \in Nat : n = old.version + 1
    BY <1>3
  <2>2. [old EXCEPT !.version = n, !.candidates = found] \in CreatorRow
    BY <1>3, <2>1 DEF CreatorRow
  <2>3. QED
    BY <1>4, <2>1, <2>2, Zenon
<1>6. \A row \in CreatorRow, by \in Requests \cup {None, "discovery"} :
        [row EXCEPT !.by = by] \in CreatorRow
  BY DEF CreatorRow
<1>7. QED
  BY <1>5, <1>6

\* One row of the creators is written, by somebody.
LEMMA CreatorsTyped ==
  ASSUME Frame, Workings,
         NEW c \in Creators,
         \/ AddCreator(c) \/ Refresh(c) \/ EditCreator(c) \/ Close(c) \/ Discover(c)
         \/ \E w \in Workers : SaveResearch(w) /\ c = worker[w].item
  PROVE  creator' \in [Creators -> CreatorRow]
<1> SUFFICES \E row \in CreatorRow : creator' = [creator EXCEPT ![c] = row]
  BY DEF Frame
<1>1. creator[c] \in CreatorRow
  BY DEF Frame
<1>2. scenario.finds \in SUBSET SUBSET Addresses
  BY SceneTyped DEF Frame
<1>3. CASE AddCreator(c)
  <2>1. PICK a \in Addresses :
          creator' = [creator EXCEPT ![c] = [@ EXCEPT !.status = "open", !.address = a]]
    BY <1>3, Zenon DEF AddCreator
  <2>2. [creator[c] EXCEPT !.status = "open", !.address = a] \in CreatorRow
    BY <1>1 DEF CreatorRow
  <2>3. creator' = [creator EXCEPT ![c] = [creator[c] EXCEPT !.status = "open", !.address = a]]
    BY <2>1 DEF Frame
  <2>4. QED
    BY <2>2, <2>3
<1>4. CASE Refresh(c)
  <2>1. PICK found \in scenario.finds :
          creator' = [creator EXCEPT ![c] = [Merged(c, found) EXCEPT !.by = None]]
    BY <1>4, Zenon DEF Refresh
  <2>2. QED
    BY <1>2, <2>1, MergedTyped
<1>5. CASE EditCreator(c)
  <2>1. PICK a \in Addresses, evidence \in {creator[c].candidates, {}} :
          creator' = [creator EXCEPT ![c] = [creator[c] EXCEPT
            !.version = creator[c].version + 1, !.by = None, !.address = a,
            !.candidates = evidence]]
    BY <1>5, Zenon DEF EditCreator
  <2>2. PICK old : old = creator[c]
    OBVIOUS
  <2>3. /\ old \in CreatorRow /\ old.version + 1 \in Nat
        /\ evidence \in SUBSET Addresses
    BY <1>1, <2>1, <2>2 DEF CreatorRow
  <2>4. creator' = [creator EXCEPT ![c] = [old EXCEPT
            !.version = old.version + 1, !.by = None, !.address = a, !.candidates = evidence]]
    BY <2>1, <2>2, Zenon
  <2>5. [old EXCEPT !.version = old.version + 1, !.by = None, !.address = a,
                    !.candidates = evidence] \in CreatorRow
    BY <2>3 DEF CreatorRow
  <2>6. QED
    BY <2>4, <2>5
<1>6. CASE Close(c)
  <2>1. creator' = [creator EXCEPT ![c].status = "closed"]
    BY <1>6, Zenon DEF Close
  <2>2. [creator[c] EXCEPT !.status = "closed"] \in CreatorRow
    BY <1>1 DEF CreatorRow
  <2>3. creator' = [creator EXCEPT ![c] = [creator[c] EXCEPT !.status = "closed"]]
    BY <2>1 DEF Frame
  <2>4. QED
    BY <2>2, <2>3
<1>7. CASE Discover(c)
  <2>1. PICK found \in scenario.finds :
          creator' = [creator EXCEPT ![c] = [Merged(c, found) EXCEPT
            !.by = "discovery", !.status = IF @ = "absent" THEN "open" ELSE @]]
    BY <1>7, Zenon DEF Discover
  <2>2. PICK new : new = Merged(c, found)
    OBVIOUS
  <2>3. new \in CreatorRow
    BY <1>2, <2>2, MergedTyped
  <2>4. PICK status : status = IF new.status = "absent" THEN "open" ELSE new.status
    OBVIOUS
  <2>5. creator' = [creator EXCEPT ![c] = [new EXCEPT !.by = "discovery", !.status = status]]
    BY <2>1, <2>2, <2>4, Zenon
  <2>6. status \in {"absent", "open", "answered", "closed"}
    BY <2>3, <2>4 DEF CreatorRow
  <2>7. [new EXCEPT !.by = "discovery", !.status = status] \in CreatorRow
    BY <2>3, <2>6 DEF CreatorRow
  <2>8. QED
    BY <2>5, <2>7
<1>8. ASSUME NEW w \in Workers, SaveResearch(w), c = worker[w].item
      PROVE \E row \in CreatorRow : creator' = [creator EXCEPT ![c] = row]
  <2>1. /\ worker[w].step = "saving"
        /\ creator' = [creator EXCEPT ![c] = [Merged(c, worker[w].found) EXCEPT !.by = worker[w].task]]
    BY <1>8, Zenon DEF SaveResearch
  <2>2. worker[w] \in WorkerRow /\ WorkOf(worker[w])
    BY DEF Workings
  <2>3. worker[w].found \in SUBSET Addresses
    BY <2>2 DEF WorkerRow
  <2>4. worker[w].task \in Requests
    BY <2>1, <2>2 DEF WorkOf
  <2>5. QED
    BY <2>1, <2>3, <2>4, MergedTyped
<1>9. QED
  BY <1>3, <1>4, <1>5, <1>6, <1>7, <1>8

\* The item a worker is at is a creator of its request.
LEMMA ItemTyped ==
  ASSUME Workings, NEW w \in Workers, worker[w].step \in {"slot", "fetch", "save", "saving"}
  PROVE  /\ worker[w].task \in Requests /\ task[worker[w].task].status # "absent"
         /\ worker[w].item \in worker[w].left /\ worker[w].item \in Creators
         /\ worker[w].item \in DOMAIN task[worker[w].task].items
<1>1. worker[w] \in WorkerRow /\ WorkOf(worker[w])
  BY DEF Workings
<1>2. worker[w].left \in SUBSET Creators
  BY <1>1 DEF WorkerRow
<1>3. QED
  BY <1>1, <1>2 DEF WorkOf

\* Creators, contacts and clock keep their types.
LEMMA FrameKept ==
  ASSUME IInv, [Next]_vars
  PROVE  Frame'
<1> USE DEF IInv
<1>1. CASE UNCHANGED vars
  BY <1>1 DEF vars, facts, Frame
<1>2. ASSUME Next, UNCHANGED <<scenario, edition, creator, contact, packed, clock>>, changes' = changes \/ Change
      PROVE  Frame'
  BY <1>2, ChangeBounded DEF Frame
<1>3. ASSUME NEW w \in Workers, (\E r \in Requests : Claim(w, r)) \/ Work(w) \/ Crash(w)
      PROVE  Frame'
  <2>1. ASSUME SaveResearch(w) PROVE creator' \in [Creators -> CreatorRow]
    <3>1. worker[w].item \in Creators
      BY <2>1, ItemTyped DEF SaveResearch
    <3>2. QED
      BY <2>1, <3>1, CreatorsTyped
  <2>2. creator' \in [Creators -> CreatorRow]
    BY <1>3, <2>1, WorkerTouches DEF Frame
  <2>3. QED
    BY <1>3, <2>2, WorkerTouches, ChangeBounded DEF Frame
<1>4. ASSUME People \/ \E c \in Creators : Discover(c) PROVE Frame'
  <2>1. UNCHANGED <<scenario, clock>> /\ changes' \in 0..MaxChanges
    BY <1>4, PeopleTouch, ChangeBounded DEF Frame
  <2>2. ASSUME NEW c \in Creators,
               AddCreator(c) \/ Refresh(c) \/ EditCreator(c) \/ Close(c) \/ Discover(c)
        PROVE  UNCHANGED <<edition, contact, packed>> /\ creator' \in [Creators -> CreatorRow]
    <3>1. UNCHANGED <<edition, contact, packed>>
      BY <2>2, Zenon DEF AddCreator, Refresh, EditCreator, Close, Discover
    <3>2. QED
      BY <2>2, <3>1, CreatorsTyped
  <2>3. ASSUME NEW c \in Creators, StartSend(c)
        PROVE  UNCHANGED <<edition, creator, contact, packed>>
    BY <2>3 DEF StartSend, facts
  <2>4. ASSUME NEW c \in Creators, NEW a \in Addresses, PacketEnds(c, a)
        PROVE  /\ UNCHANGED <<edition, creator>>
               /\ contact' \in [Creators -> [Addresses -> {"none", "pending", "sent", "void"}]]
    BY <2>4 DEF PacketEnds, Frame
  <2>5. ASSUME EndSend
        PROVE  /\ UNCHANGED <<edition, creator>>
               /\ contact' \in [Creators -> [Addresses -> {"none", "pending", "sent", "void"}]]
    BY <2>5 DEF EndSend, Frame
  <2>6. ASSUME NEW g \in Campaigns, EditCampaign(g)
        PROVE  UNCHANGED <<creator, contact, packed>> /\ edition' \in [Campaigns -> Nat]
    <3>1. UNCHANGED <<creator, contact, packed>> /\ edition' = [edition EXCEPT ![g] = @ + 1]
      BY <2>6, Zenon DEF EditCampaign
    <3>2. QED
      BY <3>1 DEF Frame
  <2>7. /\ edition' \in [Campaigns -> Nat]
        /\ creator' \in [Creators -> CreatorRow]
        /\ contact' \in [Creators -> [Addresses -> {"none", "pending", "sent", "void"}]]
    BY <1>4, <2>2, <2>3, <2>4, <2>5, <2>6 DEF People, Frame
  <2>8. QED
    BY <2>1, <2>7 DEF Frame
<1>5. ASSUME Tick PROVE Frame'
  <2>1. UNCHANGED <<scenario, edition, creator, contact, packed, changes>> /\ clock < scenario.hours
        /\ clock' = clock + 1
    BY <1>5 DEF Tick, facts
  <2>2. scenario.hours \in 0..LastHour
    BY SceneTyped DEF Frame
  <2>3. QED
    BY <2>1, <2>2, Limits DEF Frame
<1>6. ASSUME NEW r \in Requests, CancelTask(r) \/ LeaseRunsOut(r) \/ Recover(r) PROVE Frame'
  BY <1>6, RequestsTouch, ChangeBounded DEF facts, Frame
<1>7. ASSUME Drafts PROVE Frame'
  BY <1>7, DraftsTouch, ChangeBounded DEF facts, Frame
<1>8. ASSUME Apply PROVE Frame'
  BY <1>8, ApplyTouches DEF facts, Frame
<1>9. QED
  BY <1>1, <1>3, <1>4, <1>5, <1>6, <1>7, <1>8 DEF Next

-----------------------------------------------------------------------------
(* Requests.                                                               *)

\* A row of a request after a step that does not make it.
Continues(old, new) ==
  /\ old.status # "absent" /\ new.status # "absent"
  /\ new.at = old.at /\ new.items = old.items /\ new.edition = old.edition
  /\ new.explicit = old.explicit /\ old.done \subseteq new.done
  /\ new.status = "queued" => new.lease < MaxLeases

GoesOn(r) == \E row \in TaskRow : task' = [task EXCEPT ![r] = row] /\ Continues(task[r], row)

\* A request is made of items.
Made(r, S) ==
  /\ task[r].status = "absent"
  /\ \E row \in TaskRow :
       /\ task' = [task EXCEPT ![r] = row]
       /\ row.status = "queued" /\ row.at = clock /\ DOMAIN row.items = S
       /\ row.done = {} /\ row.lease = 0

\* The columns of a request.
LEMMA TaskTyped ==
  ASSUME Tasks, NEW r \in Requests
  PROVE  /\ task[r] \in TaskRow /\ task[r].items \in Hashes /\ task[r].at \in Nat
         /\ DOMAIN task[r].items \subseteq Creators
<1>1. task[r] \in TaskRow
  BY DEF Tasks
<1>2. task[r].items \in Hashes /\ task[r].at \in Nat
  BY <1>1 DEF TaskRow
<1>3. QED
  BY <1>1, <1>2 DEF Hashes

\* People, leases and recovery let a request go on, with its items and outcomes.
LEMMA RequestsGoOn ==
  ASSUME Tasks, NEW r \in Requests, CancelTask(r) \/ LeaseRunsOut(r) \/ Recover(r)
  PROVE  GoesOn(r)
<1>1. PICK old : old = task[r]
  OBVIOUS
<1>2. old \in TaskRow
  BY <1>1 DEF Tasks
<1>3. CASE CancelTask(r)
  <2>1. /\ old.status \in {"queued", "running"}
        /\ task' = [task EXCEPT ![r] = [old EXCEPT !.cancel = TRUE,
                      !.status = IF @ = "queued" THEN "cancelled" ELSE @]]
    BY <1>1, <1>3, Zenon DEF CancelTask, Active
  <2>2. PICK status : status = IF old.status = "queued" THEN "cancelled" ELSE old.status
    OBVIOUS
  <2>3. task' = [task EXCEPT ![r] = [old EXCEPT !.cancel = TRUE, !.status = status]]
    BY <2>1, <2>2, Zenon
  <2>4. status \in {"cancelled", "running"}
    BY <2>1, <2>2
  <2>5. [old EXCEPT !.cancel = TRUE, !.status = status] \in TaskRow
    BY <1>2, <2>4 DEF TaskRow
  <2>6. Continues(old, [old EXCEPT !.cancel = TRUE, !.status = status])
    BY <1>2, <2>1, <2>4 DEF Continues, TaskRow
  <2>7. QED
    BY <1>1, <2>3, <2>5, <2>6, Zenon DEF GoesOn
<1>4. CASE LeaseRunsOut(r)
  <2>1. old.status = "running" /\ task' = [task EXCEPT ![r] = [old EXCEPT !.valid = FALSE]]
    BY <1>1, <1>4 DEF LeaseRunsOut, Tasks
  <2>2. [old EXCEPT !.valid = FALSE] \in TaskRow
    BY <1>2 DEF TaskRow
  <2>3. Continues(old, [old EXCEPT !.valid = FALSE])
    BY <1>2, <2>1 DEF Continues, TaskRow
  <2>4. QED
    BY <1>1, <2>1, <2>2, <2>3, Zenon DEF GoesOn
<1>5. CASE Recover(r)
  <2>1. PICK status : status = IF old.cancel THEN "cancelled"
                               ELSE IF old.lease >= MaxLeases THEN "dead_lettered" ELSE "queued"
    OBVIOUS
  <2>2. old.status = "running" /\ task' = [task EXCEPT ![r].status = status]
    BY <1>1, <1>5, <2>1, Zenon DEF Recover
  <2>3. task' = [task EXCEPT ![r] = [old EXCEPT !.status = status]]
    BY <1>1, <2>2 DEF Tasks
  <2>4. /\ status \in {"cancelled", "dead_lettered", "queued"}
        /\ status = "queued" => old.lease < MaxLeases
    BY <1>2, <2>1, Limits DEF TaskRow
  <2>5. [old EXCEPT !.status = status] \in TaskRow
    BY <1>2, <2>4 DEF TaskRow
  <2>6. Continues(old, [old EXCEPT !.status = status])
    BY <1>2, <2>2, <2>4 DEF Continues, TaskRow
  <2>7. QED
    BY <1>1, <2>3, <2>5, <2>6, Zenon DEF GoesOn
<1>6. QED
  BY <1>3, <1>4, <1>5

\* A worker's steps that change its request.
LEMMA WorkerGoesOn ==
  ASSUME Tasks, Workings, NEW w \in Workers, worker[w].step # "idle",
         Stop(w) \/ Finish(w) \/ Issue(w) \/ Crash(w)
  PROVE  GoesOn(worker[w].task)
<1>1. PICK r \in Requests : r = worker[w].task
  BY DEF Workings, WorkOf
<1>2. PICK old : old = task[r]
  OBVIOUS
<1>3. old \in TaskRow /\ old.status # "absent"
  BY <1>1, <1>2 DEF Tasks, Workings, WorkOf
<1>4. CASE Stop(w)
  <2>1. PICK status : status = IF Holds(w) /\ old.cancel THEN "cancelled"
                               ELSE IF Holds(w) /\ old.valid THEN "failed" ELSE old.status
    OBVIOUS
  <2>2. task' = [task EXCEPT ![r].status = IF Holds(w) /\ task[r].cancel THEN "cancelled"
                               ELSE IF Holds(w) /\ task[r].valid THEN "failed" ELSE @]
    BY <1>1, <1>4, Zenon DEF Stop
  <2>3. task' = [task EXCEPT ![r] = [old EXCEPT !.status = status]]
    BY <1>2, <2>1, <2>2 DEF Tasks
  <2>4. status \in {"cancelled", "failed", old.status}
    BY <2>1
  <2>5. [old EXCEPT !.status = status] \in TaskRow
    BY <1>3, <2>4 DEF TaskRow
  <2>6. old.status = "queued" => old.lease < MaxLeases
    BY <1>2 DEF Tasks
  <2>7. Continues(old, [old EXCEPT !.status = status])
    BY <1>3, <2>4, <2>6 DEF Continues, TaskRow
  <2>8. QED
    BY <1>1, <1>2, <2>3, <2>5, <2>7, Zenon DEF GoesOn
<1>5. CASE Finish(w)
  <2>1. task' = [task EXCEPT ![r] = [old EXCEPT !.status = "succeeded"]]
    BY <1>1, <1>2, <1>5 DEF Finish, Tasks
  <2>2. [old EXCEPT !.status = "succeeded"] \in TaskRow
    BY <1>3 DEF TaskRow
  <2>3. Continues(old, [old EXCEPT !.status = "succeeded"])
    BY <1>3 DEF Continues, TaskRow
  <2>4. QED
    BY <1>1, <1>2, <2>1, <2>2, <2>3, Zenon DEF GoesOn
<1>6. CASE Issue(w)
  <2>1. PICK c : c = worker[w].item
    OBVIOUS
  <2>2. worker[w].step = "slot" /\ task' = [task EXCEPT ![r].done = @ \cup {c}]
    BY <1>1, <1>6, <2>1, Zenon DEF Issue
  <2>3. task' = [task EXCEPT ![r] = [old EXCEPT !.done = old.done \cup {c}]]
    BY <1>2, <2>2 DEF Tasks
  <2>4. c \in Creators
    BY <2>1, <2>2, ItemTyped
  <2>5. [old EXCEPT !.done = old.done \cup {c}] \in TaskRow
    BY <1>3, <2>4 DEF TaskRow
  <2>6. old.status = "queued" => old.lease < MaxLeases
    BY <1>2 DEF Tasks
  <2>7. Continues(old, [old EXCEPT !.done = old.done \cup {c}])
    BY <1>3, <2>6 DEF Continues, TaskRow
  <2>8. QED
    BY <1>1, <1>2, <2>3, <2>5, <2>7, Zenon DEF GoesOn
<1>7. CASE Crash(w)
  <2>1. PICK valid : valid = IF Holds(w) THEN FALSE ELSE old.valid
    OBVIOUS
  <2>2. task' = [task EXCEPT ![r].valid = IF Holds(w) THEN FALSE ELSE @]
    BY <1>1, <1>7, Zenon DEF Crash
  <2>3. task' = [task EXCEPT ![r] = [old EXCEPT !.valid = valid]]
    BY <1>2, <2>1, <2>2 DEF Tasks
  <2>4. valid \in BOOLEAN
    BY <1>3, <2>1 DEF TaskRow
  <2>5. [old EXCEPT !.valid = valid] \in TaskRow
    BY <1>3, <2>4 DEF TaskRow
  <2>6. old.status = "queued" => old.lease < MaxLeases
    BY <1>2 DEF Tasks
  <2>7. Continues(old, [old EXCEPT !.valid = valid])
    BY <1>3, <2>6 DEF Continues, TaskRow
  <2>8. QED
    BY <1>1, <1>2, <2>3, <2>5, <2>7, Zenon DEF GoesOn
<1>8. QED
  BY <1>4, <1>5, <1>6, <1>7

\* So does a claim.
LEMMA ClaimGoesOn ==
  ASSUME Tasks, NEW w \in Workers, NEW r \in Requests, Claim(w, r)
  PROVE  GoesOn(r)
<1>1. PICK old : old = task[r]
  OBVIOUS
<1>2. PICK lease : lease = old.lease + 1
  OBVIOUS
<1>3. /\ old.status = "queued"
      /\ task' = [task EXCEPT ![r] = [old EXCEPT !.status = "running", !.valid = TRUE,
                                                 !.lease = lease]]
  BY <1>1, <1>2, Zenon DEF Claim
<1>4. old \in TaskRow /\ old.lease < MaxLeases
  BY <1>1, <1>3 DEF Tasks
<1>5. lease \in 0..MaxLeases
  BY <1>2, <1>4, Limits DEF TaskRow
<1>6. [old EXCEPT !.status = "running", !.valid = TRUE, !.lease = lease] \in TaskRow
  BY <1>4, <1>5 DEF TaskRow
<1>7. Continues(old, [old EXCEPT !.status = "running", !.valid = TRUE, !.lease = lease])
  BY <1>3, <1>4 DEF Continues, TaskRow
<1>8. QED
  BY <1>1, <1>3, <1>6, <1>7, Zenon DEF GoesOn

\* What a worker does to the requests.
LEMMA WorkerRequests ==
  ASSUME Tasks, Workings, NEW w \in Workers,
         (\E r \in Requests : Claim(w, r)) \/ Work(w) \/ Crash(w)
  PROVE  task' = task \/ \E r \in Requests : GoesOn(r)
<1>1. ASSUME NEW c, Recorded(w, c) \/ TakeSlot(w, c) \/ Look(w, c) PROVE task' = task
  BY <1>1 DEF Recorded, TakeSlot, Look
<1>2. ASSUME Begin(w) \/ StartSave(w) \/ SaveResearch(w) PROVE task' = task
  BY <1>2 DEF Begin, StartSave, SaveResearch
<1>3. ASSUME Fetch(w) PROVE task' = task
  <2>1. UNCHANGED <<scenario, facts, sender, prepared, task, budget, applying, clock, changes>>
    BY <1>3, Zenon DEF Fetch
  <2>2. QED
    BY <2>1
<1>4. ASSUME worker[w].step # "idle", Stop(w) \/ Finish(w) \/ Issue(w) \/ Crash(w)
      PROVE  \E r \in Requests : GoesOn(r)
  <2>1. worker[w].task \in Requests
    BY <1>4 DEF Workings, WorkOf
  <2>2. QED
    BY <1>4, <2>1, WorkerGoesOn
<1>5. Finish(w) \/ Issue(w) \/ Crash(w) => worker[w].step # "idle"
  BY DEF Finish, Issue, Crash
<1>6. QED
  BY <1>1, <1>2, <1>3, <1>4, <1>5, ClaimGoesOn, WorkerCases

\* The requests that are made, of creators.
LEMMA PilotMade ==
  ASSUME Frame, Tasks, NEW p \in Pilots, NEW S \in SUBSET Creators, NEW chosen \in BOOLEAN,
         task[p].status = "absent", NewPilot(p, S, chosen)
  PROVE  Made(p, S)
<1> DEFINE hashes == [c \in S |-> Hash(c)]
           row == [Absent EXCEPT !.status = "queued", !.at = clock, !.edition = edition[Home[p]],
                                 !.items = hashes, !.explicit = chosen]
<1>1. task' = [task EXCEPT ![p] = row]
  BY Zenon DEF NewPilot
<1>2. hashes \in Hashes /\ DOMAIN hashes = S
  <2>1. \A c \in S : Hash(c) \in Nat \X Nat
    BY Names DEF Hash, Frame, CreatorRow
  <2>2. QED
    BY <2>1 DEF Hashes
<1>3. edition[Home[p]] \in Nat /\ clock \in Nat
  BY Names, Limits DEF Frame, Requests
<1> HIDE DEF hashes
<1>4. row \in TaskRow /\ row.status = "queued" /\ row.at = clock /\ row.items = hashes
      /\ row.done = {} /\ row.lease = 0
  <2>1. PICK version \in Nat : version = edition[Home[p]]
    BY <1>2, <1>3
  <2>2. Absent \in TaskRow /\ Absent.done = {} /\ Absent.lease = 0
    BY Limits DEF Absent, TaskRow, Hashes
  <2>3. PICK none : none = Absent
    OBVIOUS
  <2>4. row = [none EXCEPT !.status = "queued", !.at = clock, !.edition = version,
                           !.items = hashes, !.explicit = chosen]
    BY <2>1, <2>3
  <2>5. QED
    BY <1>2, <1>3, <2>2, <2>3, <2>4 DEF TaskRow
<1>5. QED
  BY <1>1, <1>2, <1>4, Zenon DEF Made

\* A batch takes candidates, no more than the budget has left.
LEMMA BatchMade ==
  ASSUME Frame, Tasks, NEW b \in Batches, NEW limit, CreateBatch(b, limit)
  PROVE  \E S \in SUBSET Creators :
           /\ Made(b, S) /\ S \subseteq Candidates(Home[b])
           /\ Cardinality(S) \in 1..Min({limit, DailyDrafts - Total(None)})
<1>1. /\ task[b].status = "absent"
      /\ \E S \in {S \in SUBSET Candidates(Home[b]) :
                     /\ Cardinality(S) \in 1..Min({limit, DailyDrafts - Total(None)})
                     /\ Apart(S, [c \in Creators |-> Identity(c)])} :
           task' = [task EXCEPT ![b] = [Absent EXCEPT
                !.status = "queued", !.at = clock, !.edition = edition[Home[b]],
                !.items = [c \in S |-> Hash(c)]]]
  BY Zenon DEF CreateBatch
<1>2. PICK S \in SUBSET Candidates(Home[b]) :
        /\ Cardinality(S) \in 1..Min({limit, DailyDrafts - Total(None)})
        /\ task' = [task EXCEPT ![b] = [Absent EXCEPT
                !.status = "queued", !.at = clock, !.edition = edition[Home[b]],
                !.items = [c \in S |-> Hash(c)]]]
  BY <1>1, Zenon
<1>3. S \in SUBSET Creators
  BY DEF Candidates, Considered
<1> DEFINE hashes == [c \in S |-> Hash(c)]
           row == [Absent EXCEPT !.status = "queued", !.at = clock, !.edition = edition[Home[b]],
                                 !.items = hashes]
<1>4. task' = [task EXCEPT ![b] = row]
  BY <1>2
<1>5. hashes \in Hashes /\ DOMAIN hashes = S
  <2>1. \A c \in S : Hash(c) \in Nat \X Nat
    BY <1>3, Names DEF Hash, Frame, CreatorRow
  <2>2. QED
    BY <1>3, <2>1 DEF Hashes
<1>6. edition[Home[b]] \in Nat /\ clock \in Nat
  BY Names, Limits DEF Frame, Requests
<1> HIDE DEF hashes
<1>7. row \in TaskRow /\ row.status = "queued" /\ row.at = clock /\ row.items = hashes
      /\ row.done = {} /\ row.lease = 0
  <2>1. PICK version \in Nat : version = edition[Home[b]]
    BY <1>5, <1>6
  <2>2. Absent \in TaskRow /\ Absent.done = {} /\ Absent.lease = 0
    BY Limits DEF Absent, TaskRow, Hashes
  <2>3. PICK none : none = Absent
    OBVIOUS
  <2>4. row = [none EXCEPT !.status = "queued", !.at = clock, !.edition = version,
                           !.items = hashes]
    BY <2>1, <2>3
  <2>5. QED
    BY <1>5, <1>6, <2>2, <2>3, <2>4 DEF TaskRow
<1> HIDE DEF row
<1>8. Made(b, S)
  BY <1>1, <1>4, <1>5, <1>7, Zenon DEF Made
<1>9. QED
  BY <1>2, <1>3, <1>8

\* What an application does to the requests.
LEMMA ApplyRequests ==
  ASSUME Frame, Tasks, Locks, Apply
  PROVE  \/ task' = task
         \/ \E b \in Batches : \E limit \in 1..MaxBatch : CreateBatch(b, limit)
         \/ \E p \in Pilots, S \in SUBSET Creators, chosen \in BOOLEAN :
              task[p].status = "absent" /\ NewPilot(p, S, chosen)
<1>1. ASSUME NEW p \in Pilots, NEW limit, CreatePilot(p, limit)
      PROVE  \E S \in SUBSET Creators : task[p].status = "absent" /\ NewPilot(p, S, FALSE)
  <2> DEFINE pool == {c \in Creators : Home[c] = Home[p] /\ creator[c].status = "open"
                                                  /\ Unwritten(c)}
  <2>1. /\ MayApply(p)
        /\ \E S \in kSubset(Min({limit, Cardinality(pool)}), pool) : NewPilot(p, S, FALSE)
    BY <1>1, Zenon DEF CreatePilot
  <2>2. QED
    BY <2>1 DEF MayApply, kSubset
<1>2. ASSUME NEW p \in Pilots, NEW picks, ApplyExplicit(p, picks) PROVE task' = task
  BY <1>2 DEF ApplyExplicit
<1>3. ASSUME CreateExplicit
      PROVE  \/ task' = task
             \/ \E p \in Pilots, S \in SUBSET Creators :
                  task[p].status = "absent" /\ NewPilot(p, S, TRUE)
  BY <1>3 DEF CreateExplicit, Locks
<1>4. QED
  BY <1>1, <1>2, <1>3 DEF Apply

\* A request is made, or one goes on, or there is nothing new.
TasksStep ==
  \/ task' = task
  \/ \E r \in Requests : GoesOn(r)
  \/ \E r \in Requests, S \in SUBSET Creators : Made(r, S)

\* Where nothing is applied for, requests only go on.
LEMMA TasksGoOn ==
  ASSUME IInv, [Next]_vars, ~Apply
  PROVE  task' = task \/ \E r \in Requests : GoesOn(r)
<1>1. ASSUME NEW w \in Workers, (\E r \in Requests : Claim(w, r)) \/ Work(w) \/ Crash(w)
      PROVE  task' = task \/ \E r \in Requests : GoesOn(r)
  BY <1>1, WorkerRequests DEF IInv
<1>2. ASSUME NEW r \in Requests, CancelTask(r) \/ LeaseRunsOut(r) \/ Recover(r)
      PROVE  GoesOn(r)
  BY <1>2, RequestsGoOn DEF IInv
<1>3. Drafts \/ People \/ (\E c \in Creators : Discover(c)) => task' = task
  BY DraftsTouch, PeopleTouch
<1>4. Tick \/ UNCHANGED vars => task' = task
  BY DEF Tick, vars
<1>5. QED
  BY <1>1, <1>2, <1>3, <1>4 DEF Next

\* Every step makes one request, or lets one go on.
LEMMA TasksStepTaken ==
  ASSUME IInv, [Next]_vars
  PROVE  TasksStep
<1>1. ASSUME Apply PROVE TasksStep
  BY <1>1, ApplyRequests, PilotMade, BatchMade DEF TasksStep, Requests, IInv
<1>2. QED
  BY <1>1, TasksGoOn DEF TasksStep

\* Nothing about a request is forgotten.
LEMMA RequestsRemain ==
  ASSUME Tasks, TasksStep, NEW r \in Requests, task[r].status # "absent"
  PROVE  /\ task'[r].status # "absent" /\ task'[r].at = task[r].at
         /\ task'[r].items = task[r].items /\ task[r].done \subseteq task'[r].done
         /\ task'[r].explicit = task[r].explicit
BY DEF TasksStep, GoesOn, Made, Continues, Tasks

\* Requests keep their types and leases.
LEMMA TasksKept ==
  ASSUME Tasks, TasksStep
  PROVE  Tasks'
<1>1. CASE task' = task
  BY <1>1 DEF Tasks
<1>2. ASSUME NEW r \in Requests, NEW row \in TaskRow, task' = [task EXCEPT ![r] = row],
             row.status # "absent", row.status = "queued" => row.lease < MaxLeases
      PROVE  Tasks'
  <2>1. IsFiniteSet({x \in Requests : task[x].status # "absent"} \cup {r})
    BY FS_AddElement DEF Tasks
  <2>2. PICK after : after = {x \in Requests : task'[x].status # "absent"}
    OBVIOUS
  <2>3. after \subseteq {x \in Requests : task[x].status # "absent"} \cup {r}
    BY <1>2, <2>2 DEF Tasks
  <2>4. IsFiniteSet(after)
    BY <2>1, <2>3, FS_Subset
  <2>5. QED
    BY <1>2, <2>2, <2>4 DEF Tasks
<1>3. QED
  BY <1>1, <1>2, Limits DEF TasksStep, GoesOn, Made, Continues

-----------------------------------------------------------------------------
(* Drafts, locks and workers.                                              *)

\* A draft is added under its key.
Added(k) ==
  /\ k \in (Batches \cup PersonKeys) \X Creators
  /\ draft' = Insert(draft, {k}, NewDraft(k[2]))

\* A new draft is a row of the table.
LEMMA HashTyped ==
  ASSUME Frame, NEW c \in Creators
  PROVE  Hash(c) \in Nat \X Nat /\ NewDraft(c) \in DraftRow /\ clock \in Nat
<1>1. Hash(c) \in Nat \X Nat
  BY Names DEF Hash, Frame, CreatorRow
<1>2. clock \in Nat
  BY Limits DEF Frame
<1>3. QED
  BY <1>1, <1>2 DEF NewDraft, DraftRow

\* A slot becomes a draft, or the item is skipped.
LEMMA IssueAdds ==
  ASSUME Tasks, Workings, NEW w \in Workers, Issue(w)
  PROVE  LET k == <<worker[w].task, worker[w].item>>
         IN  /\ k \in Batches \X Creators
             /\ k[2] \in task'[k[1]].done
             /\ draft' = draft \/ (Added(k) /\ BatchEligible(k[2], k) /\ WithinBudget(k[2], k))
<1>1. PICK b, c : b = worker[w].task /\ c = worker[w].item
  OBVIOUS
<1>2. worker[w].step = "slot"
  BY DEF Issue
<1>3. b \in Batches /\ c \in Creators
  BY <1>1, <1>2, ItemTyped DEF Workings, WorkOf
<1>4. PICK reserved \in BOOLEAN :
        draft' = IF reserved /\ BatchEligible(c, <<b, c>>) /\ WithinBudget(c, <<b, c>>)
                   THEN Insert(draft, {<<b, c>>}, NewDraft(c)) ELSE draft
  <2> DEFINE reserved == edition[Home[b]] = task[b].edition /\ Hash(c) = task[b].items[c]
  <2>1. draft' = IF reserved /\ BatchEligible(c, <<b, c>>) /\ WithinBudget(c, <<b, c>>)
                   THEN Insert(draft, {<<b, c>>}, NewDraft(c)) ELSE draft
    BY <1>1, Zenon DEF Issue
  <2>2. reserved \in BOOLEAN
    OBVIOUS
  <2> HIDE DEF reserved
  <2>3. QED
    BY <2>1, <2>2
<1>5. draft' = draft
      \/ (Added(<<b, c>>) /\ BatchEligible(c, <<b, c>>) /\ WithinBudget(c, <<b, c>>))
  BY <1>3, <1>4 DEF Added
<1>6. c \in task'[b].done
  <2>1. task' = [task EXCEPT ![b].done = @ \cup {c}]
    BY <1>1, Zenon DEF Issue
  <2>2. QED
    BY <1>3, <2>1 DEF Tasks, Requests
<1>7. QED
  BY <1>1, <1>3, <1>5, <1>6

\* A person's draft is added within the budget.
LEMMA CreateDraftAdds ==
  ASSUME NEW k \in PersonKeys, NEW c \in Creators, CreateDraft(k, c)
  PROVE  Added(<<k, c>>) /\ <<k, c>> \notin DOMAIN draft /\ WithinBudget(c, None)
BY DEF CreateDraft, Added

\* How the drafts change.
LEMMA DraftSteps ==
  ASSUME [Next]_vars
  PROVE  \/ draft' = draft
         \/ \E k \in DOMAIN draft : draft' = [draft EXCEPT ![k].live = FALSE]
         \/ \E k \in PersonKeys, c \in Creators : CreateDraft(k, c)
         \/ \E w \in Workers : Issue(w)
<1>1. ASSUME NEW w \in Workers, (\E r \in Requests : Claim(w, r)) \/ Work(w) \/ Crash(w)
      PROVE  draft' = draft \/ Issue(w)
  BY <1>1, WorkerTouches
<1>2. ASSUME NEW r \in Requests, CancelTask(r) \/ LeaseRunsOut(r) \/ Recover(r)
      PROVE  draft' = draft
  BY <1>2, RequestsTouch DEF prepared
<1>3. People \/ (\E c \in Creators : Discover(c)) => draft' = draft
  BY PeopleTouch
<1>4. Apply => draft' = draft
  BY ApplyTouches DEF prepared
<1>5. Tick \/ UNCHANGED vars => draft' = draft
  BY DEF Tick, vars, prepared
<1>6. ASSUME NEW c \in Creators, CreateReply(c) \/ RetryReply(c) PROVE draft' = draft
  BY <1>6 DEF CreateReply, RetryReply
<1>7. ASSUME NEW g \in Campaigns, AutomaticReplies(g) PROVE draft' = draft
  BY <1>7 DEF AutomaticReplies
<1>8. ASSUME NEW k \in DOMAIN draft, DraftEnds(k)
      PROVE  draft' = [draft EXCEPT ![k].live = FALSE]
  BY <1>8, Zenon DEF DraftEnds
<1>9. QED
  BY <1>1, <1>2, <1>3, <1>4, <1>5, <1>6, <1>7, <1>8 DEF Next, Drafts

\* How the replies change.
LEMMA ReplySteps ==
  ASSUME [Next]_vars
  PROVE  \/ reply' = reply
         \/ \E c \in Creators : CreateReply(c) \/ RetryReply(c)
         \/ \E g \in Campaigns : AutomaticReplies(g)
<1>1. ASSUME NEW w \in Workers, (\E r \in Requests : Claim(w, r)) \/ Work(w) \/ Crash(w)
      PROVE  reply' = reply
  BY <1>1, WorkerTouches
<1>2. ASSUME NEW r \in Requests, CancelTask(r) \/ LeaseRunsOut(r) \/ Recover(r)
      PROVE  reply' = reply
  BY <1>2, RequestsTouch DEF prepared
<1>3. People \/ (\E c \in Creators : Discover(c)) => reply' = reply
  BY PeopleTouch
<1>4. Apply => reply' = reply
  BY ApplyTouches DEF prepared
<1>5. Tick \/ UNCHANGED vars => reply' = reply
  BY DEF Tick, vars, prepared
<1>6. ASSUME NEW k \in DOMAIN draft, DraftEnds(k) PROVE reply' = reply
  <2>1. UNCHANGED <<scenario, facts, sender, reply, task, worker, budget, applying, clock>>
    BY <1>6, Zenon DEF DraftEnds
  <2>2. QED
    BY <2>1
<1>7. ASSUME NEW k \in PersonKeys, NEW c \in Creators, CreateDraft(k, c) PROVE reply' = reply
  BY <1>7 DEF CreateDraft
<1>8. QED
  BY <1>1, <1>2, <1>3, <1>4, <1>5, <1>6, <1>7 DEF Next, Drafts

\* Keys of new replies, and what they add.
Answers(keys) ==
  /\ keys \subseteq {ReplyKey(c, n) : c \in Creators, n \in {1, 2}}
  /\ reply' = Insert(reply, keys, clock)

\* Replies are added one at a time within the budget, or by a sync.
LEMMA AnswersAdded ==
  ASSUME [Next]_vars, reply' # reply
  PROVE  \/ \E c \in Creators, n \in {1, 2} :
              Answers({ReplyKey(c, n)}) /\ WithinBudget(c, None)
         \/ \E g \in Campaigns : AutomaticReplies(g)
<1>1. ASSUME NEW c \in Creators, CreateReply(c)
      PROVE  Answers({ReplyKey(c, 1)}) /\ WithinBudget(c, None)
  BY <1>1 DEF CreateReply, Answers
<1>2. ASSUME NEW c \in Creators, RetryReply(c)
      PROVE  Answers({ReplyKey(c, 2)}) /\ WithinBudget(c, None)
  BY <1>2 DEF RetryReply, Answers
<1>3. QED
  BY <1>1, <1>2, ReplySteps

\* A mailbox sync prepares no more than there is room for.
LEMMA SyncAnswers ==
  ASSUME NEW g \in Campaigns, AutomaticReplies(g)
  PROVE  \E room, waiting, S :
           /\ waiting \subseteq {c \in Creators : For(c, None) < DraftsPerCreator}
           /\ room = Min({PerSync, Cardinality(waiting), Max({DailyDrafts - Total(None), 0})})
           /\ room > 0 /\ S \subseteq waiting /\ Cardinality(S) = room
           /\ Answers({ReplyKey(c, 1) : c \in S})
<1> DEFINE waiting == {c \in Creators : Home[c] = g /\ ReplyWaits(c)
                                         /\ For(c, None) < DraftsPerCreator}
           room == Min({PerSync, Cardinality(waiting), Max({DailyDrafts - Total(None), 0})})
<1>1. room > 0 /\ \E S \in kSubset(room, waiting) :
                    reply' = Insert(reply, {ReplyKey(c, 1) : c \in S}, clock)
  BY Zenon DEF AutomaticReplies
<1>2. waiting \subseteq {c \in Creators : For(c, None) < DraftsPerCreator}
  OBVIOUS
<1> HIDE DEF waiting
<1>3. PICK S : /\ S \subseteq waiting /\ Cardinality(S) = room
               /\ reply' = Insert(reply, {ReplyKey(c, 1) : c \in S}, clock)
  BY <1>1 DEF kSubset
<1>4. {ReplyKey(c, 1) : c \in S} \subseteq {ReplyKey(c, n) : c \in Creators, n \in {1, 2}}
  BY <1>2, <1>3
<1>5. Answers({ReplyKey(c, 1) : c \in S})
  BY <1>3, <1>4 DEF Answers
<1>6. room > 0
  BY <1>1
<1>7. QED
  BY <1>2, <1>3, <1>5, <1>6, Zenon

\* A sync adds one reply for each creator who waits for one, at most.
LEMMA AnswerKeys ==
  ASSUME NEW S \in SUBSET Creators
  PROVE  LET keys == {ReplyKey(c, 1) : c \in S}
         IN  IsFiniteSet(S) /\ IsFiniteSet(keys) /\ Cardinality(keys) <= Cardinality(S)
<1> DEFINE keys == {ReplyKey(c, 1) : c \in S}
           key == [c \in S |-> ReplyKey(c, 1)]
<1>1. IsFiniteSet(S)
  BY PreparationAssumption, FS_Subset
<1>2. key \in Surjection(S, keys)
  BY DEF Surjection
<1>3. QED
  BY <1>1, <1>2, FS_Surjection

\* After every step the drafts of a batch are of items with an outcome.
LEMMA PreparedKept ==
  ASSUME IInv, [Next]_vars
  PROVE  Prepared'
<1> USE DEF IInv
<1>1. \A k \in DOMAIN draft : k[1] \in Batches => k[2] \in task'[k[1]].done
  <2>1. ASSUME NEW k \in DOMAIN draft, k[1] \in Batches PROVE k[2] \in task'[k[1]].done
    <3>1. k[1] \in Requests /\ k[2] \in task[k[1]].done
      BY <2>1 DEF Prepared, Requests
    <3>2. task[k[1]].status # "absent"
      BY <3>1 DEF Tasks
    <3>3. QED
      BY <3>1, <3>2, TasksStepTaken, RequestsRemain
  <2>2. QED
    BY <2>1
<1>2. ASSUME NEW k, Added(k), k[1] \in Batches => k[2] \in task'[k[1]].done
      PROVE  /\ DOMAIN draft' \subseteq (Batches \cup PersonKeys) \X Creators
             /\ IsFiniteSet(DOMAIN draft')
             /\ \A x \in DOMAIN draft' :
                  draft'[x] \in DraftRow /\ (x[1] \in Batches => x[2] \in task'[x[1]].done)
  <2>1. DOMAIN draft' = DOMAIN draft \cup {k} /\ k[2] \in Creators
    BY <1>2 DEF Added, Insert
  <2>2. NewDraft(k[2]) \in DraftRow
    BY <2>1, HashTyped
  <2>3. IsFiniteSet(DOMAIN draft \cup {k})
    BY FS_AddElement DEF Prepared
  <2>4. QED
    BY <1>1, <1>2, <2>1, <2>2, <2>3 DEF Added, Insert, Prepared
<1>3. ASSUME NEW k \in DOMAIN draft, draft' = [draft EXCEPT ![k].live = FALSE]
      PROVE  DOMAIN draft' = DOMAIN draft /\ \A x \in DOMAIN draft : draft'[x] \in DraftRow
  <2>1. PICK old : old = draft[k]
    OBVIOUS
  <2>2. old \in DraftRow /\ \A x \in DOMAIN draft : draft[x] \in DraftRow
    BY <2>1 DEF Prepared
  <2>3. [old EXCEPT !.live = FALSE] \in DraftRow
    BY <2>2 DEF DraftRow
  <2>4. \A x \in DOMAIN draft :
          draft'[x] = IF x = k THEN [old EXCEPT !.live = FALSE] ELSE draft[x]
    BY <1>3, <2>1
  <2>5. QED
    BY <1>3, <2>2, <2>3, <2>4
<1>4. /\ DOMAIN draft' \subseteq (Batches \cup PersonKeys) \X Creators
      /\ IsFiniteSet(DOMAIN draft')
      /\ \A x \in DOMAIN draft' :
           draft'[x] \in DraftRow /\ (x[1] \in Batches => x[2] \in task'[x[1]].done)
  <2>1. CASE draft' = draft
    BY <1>1, <2>1 DEF Prepared
  <2>2. ASSUME NEW k \in DOMAIN draft, draft' = [draft EXCEPT ![k].live = FALSE] PROVE <1>4!:
    BY <1>1, <1>3, <2>2 DEF Prepared
  <2>3. ASSUME NEW k \in PersonKeys, NEW c \in Creators, CreateDraft(k, c) PROVE <1>4!:
    <3>1. Added(<<k, c>>) /\ k \notin Batches
      BY <2>3, CreateDraftAdds, Names
    <3>2. QED
      BY <1>2, <3>1
  <2>4. ASSUME NEW w \in Workers, Issue(w), draft' # draft PROVE <1>4!:
    BY <1>2, <2>4, IssueAdds
  <2>5. QED
    BY <2>1, <2>2, <2>3, <2>4, DraftSteps
<1>5. ASSUME NEW keys, Answers(keys), IsFiniteSet(keys)
      PROVE  IsFiniteSet(DOMAIN reply') /\ \A k \in DOMAIN reply' : reply'[k] \in Nat
  <2>1. DOMAIN reply' = DOMAIN reply \cup keys
    BY <1>5 DEF Answers, Insert
  <2>2. IsFiniteSet(DOMAIN reply \cup keys)
    BY <1>5, FS_Union DEF Prepared
  <2>3. clock \in Nat
    BY Limits DEF Frame
  <2>4. QED
    BY <1>5, <2>1, <2>2, <2>3 DEF Answers, Insert, Prepared
<1>6. IsFiniteSet(DOMAIN reply') /\ \A k \in DOMAIN reply' : reply'[k] \in Nat
  <2>1. CASE reply' = reply
    BY <2>1 DEF Prepared
  <2>2. ASSUME NEW g \in Campaigns, AutomaticReplies(g) PROVE <1>6!:
    <3>1. PICK S : S \subseteq Creators /\ Answers({ReplyKey(c, 1) : c \in S})
      BY <2>2, SyncAnswers, Zenon
    <3>2. QED
      BY <1>5, <3>1, AnswerKeys
  <2>3. ASSUME NEW k, Answers({k}) PROVE <1>6!:
    BY <1>5, <2>3, FS_Singleton
  <2>4. QED
    BY <2>1, <2>2, <2>3, AnswersAdded
<1>7. QED
  BY <1>4, <1>6 DEF Prepared

\* Who holds the lock of the budget.
LEMMA BudgetSteps ==
  ASSUME [Next]_vars, Locks
  PROVE  budget' \in {None} \cup Workers \cup Pilots
<1>1. ASSUME NEW w \in Workers, (\E r \in Requests : Claim(w, r)) \/ Work(w) \/ Crash(w)
      PROVE  budget' \in {budget, None, w}
  <2>1. ASSUME NEW r \in Requests, Claim(w, r) PROVE budget' = budget
    <3>1. UNCHANGED <<scenario, facts, sender, prepared, budget, applying, clock, changes>>
      BY <2>1, Zenon DEF Claim
    <3>2. QED
      BY <3>1
  <2>2. ASSUME NEW c, Recorded(w, c) \/ TakeSlot(w, c) \/ Look(w, c) PROVE budget' \in {budget, w}
    BY <2>2 DEF Recorded, TakeSlot, Look
  <2>3. ASSUME Fetch(w) PROVE budget' = budget
    <3>1. UNCHANGED <<scenario, facts, sender, prepared, task, budget, applying, clock, changes>>
      BY <2>3, Zenon DEF Fetch
    <3>2. QED
      BY <3>1
  <2>4. ASSUME Begin(w) \/ Finish(w) PROVE budget' = budget
    BY <2>4 DEF Begin, Finish
  <2>5. ASSUME StartSave(w) \/ SaveResearch(w) PROVE budget' \in {budget, None, w}
    BY <2>5 DEF StartSave, SaveResearch
  <2>6. ASSUME Issue(w) \/ Stop(w) \/ Crash(w) PROVE budget' \in {budget, None}
    BY <2>6 DEF Issue, Stop, Crash
  <2>7. QED
    BY <1>1, <2>1, <2>2, <2>3, <2>4, <2>5, <2>6, WorkerCases
<1>2. ASSUME NEW r \in Requests, CancelTask(r) \/ LeaseRunsOut(r) \/ Recover(r)
      PROVE  budget' = budget
  BY <1>2, RequestsTouch
<1>3. Drafts \/ People \/ (\E c \in Creators : Discover(c)) => budget' = budget
  BY DraftsTouch, PeopleTouch
<1>4. ASSUME NEW b \in Batches, NEW limit, CreateBatch(b, limit) PROVE budget' = budget
  BY <1>4 DEF CreateBatch
<1>5. ASSUME NEW p \in Pilots, NEW limit, CreatePilot(p, limit) PROVE budget' = budget
  BY <1>5 DEF CreatePilot
<1>6. ASSUME NEW p \in Pilots, NEW picks, ApplyExplicit(p, picks) PROVE budget' = p
  BY <1>6 DEF ApplyExplicit
<1>7. CreateExplicit => budget' = None
  BY DEF CreateExplicit
<1>8. Tick \/ UNCHANGED vars => budget' = budget
  BY DEF Tick, vars
<1>9. QED
  BY <1>1, <1>2, <1>3, <1>4, <1>5, <1>6, <1>7, <1>8 DEF Next, Apply, Locks

\* A selection that waits for its locks has made no request.
LEMMA LocksKept ==
  ASSUME IInv, [Next]_vars
  PROVE  Locks'
<1> USE DEF IInv
<1> DEFINE Kept == applying' # None =>
                     /\ applying'.pilot \in Pilots /\ applying'.picks \in SUBSET Creators
                     /\ task'[applying'.pilot].status = "absent"
<1>1. ASSUME ~Apply PROVE Kept
  <2>1. applying' = applying
    <3>1. ASSUME NEW w \in Workers, (\E r \in Requests : Claim(w, r)) \/ Work(w) \/ Crash(w)
          PROVE  applying' = applying
      BY <3>1, WorkerTouches
    <3>2. ASSUME NEW r \in Requests, CancelTask(r) \/ LeaseRunsOut(r) \/ Recover(r)
          PROVE  applying' = applying
      BY <3>2, RequestsTouch
    <3>3. Drafts \/ People \/ (\E c \in Creators : Discover(c)) => applying' = applying
      BY DraftsTouch, PeopleTouch
    <3>4. Tick \/ UNCHANGED vars => applying' = applying
      BY DEF Tick, vars
    <3>5. QED
      BY <1>1, <3>1, <3>2, <3>3, <3>4 DEF Next
  <2>2. ASSUME applying # None PROVE task'[applying.pilot] = task[applying.pilot]
    <3>1. applying.pilot \in Requests /\ task[applying.pilot].status = "absent"
      BY <2>2 DEF Locks, Requests
    <3>2. QED
      BY <1>1, <3>1, TasksGoOn DEF GoesOn, Continues, Tasks
  <2>3. QED
    BY <2>1, <2>2 DEF Locks
<1>2. ASSUME NEW b \in Batches, NEW limit, CreateBatch(b, limit) PROVE Kept
  <2>1. PICK S : Made(b, S)
    BY <1>2, BatchMade
  <2>2. applying' = applying
    BY <1>2 DEF CreateBatch
  <2>3. applying # None => b # applying.pilot /\ applying.pilot \in Requests
    BY Names DEF Locks, Requests
  <2>4. QED
    BY <2>1, <2>2, <2>3 DEF Locks, Made, Tasks
<1>3. ASSUME NEW p \in Pilots, NEW limit, CreatePilot(p, limit) PROVE Kept
  BY <1>3 DEF CreatePilot, MayApply
<1>4. ASSUME NEW p \in Pilots, NEW picks \in SUBSET Creators, ApplyExplicit(p, picks) PROVE Kept
  <2>1. /\ applying' = [pilot |-> p, picks |-> picks, keys |-> SenderKeys(KnownOf(picks))]
        /\ task' = task /\ task[p].status = "absent"
    BY <1>4 DEF ApplyExplicit, MayApply
  <2>2. applying'.pilot = p /\ applying'.picks = picks
    BY <2>1
  <2>3. QED
    BY <2>1, <2>2
<1>5. CreateExplicit => Kept
  BY DEF CreateExplicit
<1>6. Apply => Kept
  BY <1>2, <1>3, <1>4, <1>5 DEF Apply
<1>7. QED
  BY <1>1, <1>6, BudgetSteps DEF Locks

\* What a worker is at, after a step.
WorkNext(row) ==
  /\ row.step # "idle" => row.task \in Requests /\ task'[row.task].status # "absent"
  /\ row.step \notin {"idle", "start"} => row.left \subseteq DOMAIN task'[row.task].items
  /\ row.step \in {"slot", "fetch", "save", "saving"} => row.item \in row.left
  /\ row.step = "slot" => row.task \in Batches

\* What a worker is at stays an item of its request whatever others do.
LEMMA WorkRemains ==
  ASSUME Tasks, TasksStep, NEW row \in WorkerRow, WorkOf(row)
  PROVE  WorkNext(row)
<1>1. CASE row.step = "idle"
  BY <1>1 DEF WorkNext, WorkOf
<1>2. CASE row.step # "idle"
  <2>1. row.task \in Requests /\ task[row.task].status # "absent"
    BY <1>2 DEF WorkOf
  <2>2. task'[row.task].status # "absent" /\ task'[row.task].items = task[row.task].items
    BY <2>1, RequestsRemain
  <2>3. QED
    BY <2>1, <2>2 DEF WorkOf, WorkNext
<1>3. QED
  BY <1>1, <1>2

\* A worker goes on with a row.
Works(w) == \E row \in WorkerRow : worker' = [worker EXCEPT ![w] = row] /\ WorkNext(row)

\* A worker that is through with an item goes on with the others.
LEMMA AfterWorks ==
  ASSUME Tasks, Workings, TasksStep, NEW w \in Workers, NEW c,
         worker[w].step \notin {"idle", "start"}, After(w, c)
  PROVE  Works(w)
<1>1. PICK old : old = worker[w]
  OBVIOUS
<1>2. PICK left : left = old.left \ {c}
  OBVIOUS
<1> DEFINE row == [old EXCEPT !.step = "next", !.left = left, !.item = None, !.found = {},
                              !.keys = {}]
<1>4. worker' = [worker EXCEPT ![w] = row]
  BY <1>1, <1>2, Zenon DEF After
<1>5. old \in WorkerRow /\ WorkNext(old)
  BY <1>1, WorkRemains DEF Workings
<1>6. left \subseteq old.left /\ left \in SUBSET Creators
  BY <1>2, <1>5 DEF WorkerRow
<1>7. row \in WorkerRow
  BY <1>5, <1>6 DEF WorkerRow
<1>8. WorkNext(row)
  BY <1>1, <1>5, <1>6 DEF WorkNext, WorkerRow
<1>9. QED
  BY <1>4, <1>7, <1>8 DEF Works

\* A worker that stops is at nothing.
LEMMA IdleWorks ==
  ASSUME NEW w \in Workers, worker' = [worker EXCEPT ![w] = Idle]
  PROVE  Works(w)
<1>1. Idle \in WorkerRow /\ Idle.step = "idle"
  BY DEF Idle, WorkerRow
<1>2. WorkNext(Idle)
  BY <1>1 DEF WorkNext
<1>3. QED
  BY <1>1, <1>2 DEF Works

\* Every step of a worker leaves a row of a worker.
LEMMA WorkerWorks ==
  ASSUME Frame, Tasks, Workings, TasksStep, NEW w \in Workers,
         (\E r \in Requests : Claim(w, r)) \/ Work(w) \/ Crash(w)
  PROVE  Works(w)
<1>1. PICK old : old = worker[w]
  OBVIOUS
<1>2. old \in WorkerRow /\ WorkOf(old) /\ WorkNext(old)
  BY <1>1, WorkRemains DEF Workings
<1>3. ASSUME NEW r \in Requests, Claim(w, r) PROVE Works(w)
  <2>1. PICK lease : lease = task[r].lease + 1
    OBVIOUS
  <2>2. /\ task[r].status = "queued"
        /\ worker' = [worker EXCEPT ![w] = [Idle EXCEPT !.step = "start", !.task = r,
                                                        !.lease = lease]]
    BY <1>3, <2>1, Zenon DEF Claim
  <2>3. lease \in Nat
    BY <2>1, Limits DEF Tasks, TaskRow
  <2>4. [Idle EXCEPT !.step = "start", !.task = r, !.lease = lease] \in WorkerRow
    BY <2>3 DEF Idle, WorkerRow
  <2>5. task'[r].status # "absent"
    BY <2>2, RequestsRemain
  <2>6. WorkNext([Idle EXCEPT !.step = "start", !.task = r, !.lease = lease])
    BY <2>5 DEF WorkNext, Idle
  <2>7. QED
    BY <2>2, <2>4, <2>6, Zenon DEF Works
<1>4. ASSUME NEW c \in worker[w].left, Recorded(w, c) PROVE Works(w)
  BY <1>4, AfterWorks DEF Recorded
<1>5. ASSUME NEW c \in worker[w].left, TakeSlot(w, c) PROVE Works(w)
  <2>1. /\ old.step = "next" /\ old.task \in Batches /\ c \in old.left
        /\ worker' = [worker EXCEPT ![w] = [old EXCEPT !.step = "slot", !.item = c]]
    BY <1>1, <1>5, Zenon DEF TakeSlot
  <2>2. c \in Creators
    BY <1>2, <2>1 DEF WorkerRow
  <2>3. [old EXCEPT !.step = "slot", !.item = c] \in WorkerRow
    BY <1>2, <2>2 DEF WorkerRow
  <2>4. WorkNext([old EXCEPT !.step = "slot", !.item = c])
    BY <1>2, <2>1 DEF WorkNext, WorkerRow
  <2>5. QED
    BY <2>1, <2>3, <2>4, Zenon DEF Works
<1>6. ASSUME NEW c \in worker[w].left, Look(w, c) PROVE Works(w)
  <2>1. /\ old.step = "next" /\ c \in old.left
        /\ After(w, c)
           \/ worker' = [worker EXCEPT ![w] = [old EXCEPT !.step = "fetch", !.item = c]]
    BY <1>1, <1>6, Zenon DEF Look
  <2>2. c \in Creators
    BY <1>2, <2>1 DEF WorkerRow
  <2>3. [old EXCEPT !.step = "fetch", !.item = c] \in WorkerRow
    BY <1>2, <2>2 DEF WorkerRow
  <2>4. WorkNext([old EXCEPT !.step = "fetch", !.item = c])
    BY <1>2, <2>1 DEF WorkNext, WorkerRow
  <2>5. After(w, c) => Works(w)
    BY <1>1, <2>1, AfterWorks
  <2>6. QED
    BY <2>1, <2>3, <2>4, <2>5, Zenon DEF Works
<1>7. ASSUME Begin(w) PROVE Works(w)
  <2>1. PICK left : left = DOMAIN task[old.task].items
    OBVIOUS
  <2>2. /\ old.step = "start"
        /\ worker' = [worker EXCEPT ![w] = [old EXCEPT !.step = "next", !.left = left]]
    BY <1>1, <1>7, <2>1, Zenon DEF Begin
  <2>3. old.task \in Requests /\ task[old.task].status # "absent"
    BY <1>2, <2>2 DEF WorkOf
  <2>4. left \in SUBSET Creators /\ left = DOMAIN task'[old.task].items
    BY <2>1, <2>3, TaskTyped, RequestsRemain
  <2>5. [old EXCEPT !.step = "next", !.left = left] \in WorkerRow
    BY <1>2, <2>4 DEF WorkerRow
  <2>6. WorkNext([old EXCEPT !.step = "next", !.left = left])
    BY <1>2, <2>2, <2>4 DEF WorkNext, WorkerRow
  <2>7. QED
    BY <2>2, <2>5, <2>6, Zenon DEF Works
<1>8. ASSUME Finish(w) \/ Stop(w) \/ Crash(w) PROVE Works(w)
  <2>1. worker' = [worker EXCEPT ![w] = Idle]
    BY <1>8, Zenon DEF Finish, Stop, Crash
  <2>2. QED
    BY <2>1, IdleWorks
<1>9. ASSUME Issue(w) \/ SaveResearch(w) PROVE Works(w)
  <2>1. worker[w].step \notin {"idle", "start"} /\ After(w, worker[w].item)
    BY <1>9 DEF Issue, SaveResearch
  <2>2. QED
    BY <2>1, AfterWorks
<1>10. ASSUME Fetch(w) PROVE Works(w)
  <2>1. PICK left : left = old.left \ {old.item}
    OBVIOUS
  <2>2. /\ old.step = "fetch"
        /\ \/ \E found \in scenario.finds :
                worker' = [worker EXCEPT ![w] = [@ EXCEPT !.step = "save", !.found = found]]
           \/ After(w, old.item)
           \/ worker' = [worker EXCEPT ![w] = [old EXCEPT
                !.step = "next", !.quota = TRUE, !.left = left, !.item = None]]
    BY <1>1, <1>10, <2>1, Zenon DEF Fetch
  <2>3. /\ left \subseteq old.left /\ left \in SUBSET Creators
        /\ old.task \in Requests /\ task'[old.task].status # "absent"
        /\ old.left \subseteq DOMAIN task'[old.task].items /\ old.item \in old.left
    <3>1. old.step = "fetch"
      BY <2>2, Zenon
    <3>2. QED
      BY <1>2, <2>1, <3>1 DEF WorkerRow, WorkNext
  <2>4. ASSUME NEW found \in scenario.finds,
               worker' = [worker EXCEPT ![w] = [@ EXCEPT !.step = "save", !.found = found]]
        PROVE  Works(w)
    <3>1. worker' = [worker EXCEPT ![w] = [old EXCEPT !.step = "save", !.found = found]]
      BY <1>1, <2>4, Zenon
    <3>2. found \in SUBSET Addresses
      BY SceneTyped DEF Frame
    <3>3. [old EXCEPT !.step = "save", !.found = found] \in WorkerRow
      BY <1>2, <3>2 DEF WorkerRow
    <3>4. WorkNext([old EXCEPT !.step = "save", !.found = found])
      BY <1>2, <2>3 DEF WorkNext, WorkerRow
    <3>5. QED
      BY <3>1, <3>3, <3>4, Zenon DEF Works
  <2>5. After(w, old.item) => Works(w)
    BY <1>1, <2>2, AfterWorks
  <2>6. [old EXCEPT !.step = "next", !.quota = TRUE, !.left = left, !.item = None] \in WorkerRow
    BY <1>2, <2>3 DEF WorkerRow
  <2>7. WorkNext([old EXCEPT !.step = "next", !.quota = TRUE, !.left = left, !.item = None])
    BY <1>2, <2>3 DEF WorkNext, WorkerRow
  <2>8. QED
    BY <2>2, <2>4, <2>5, <2>6, <2>7, Zenon DEF Works
<1>11. ASSUME StartSave(w) PROVE Works(w)
  <2>1. PICK keys : keys = SenderKeys(Known(old.item) \cup old.found)
    OBVIOUS
  <2>2. /\ old.step = "save"
        /\ worker' = [worker EXCEPT ![w] = [old EXCEPT !.step = "saving", !.keys = keys]]
    BY <1>1, <1>11, <2>1, Zenon DEF StartSave
  <2>3. old.item \in Creators /\ old.found \in SUBSET Addresses
    BY <1>1, <1>2, <2>2, ItemTyped DEF WorkerRow
  <2>4. keys \in SUBSET (Creators \cup Addresses)
    <3>1. Known(old.item) \cup old.found \in SUBSET (Creators \cup Addresses)
      BY <2>3, KeysTyped
    <3>2. QED
      BY <2>1, <3>1, KeysTyped
  <2>5. [old EXCEPT !.step = "saving", !.keys = keys] \in WorkerRow
    BY <1>2, <2>4 DEF WorkerRow
  <2>6. WorkNext([old EXCEPT !.step = "saving", !.keys = keys])
    BY <1>2, <2>2 DEF WorkNext, WorkerRow
  <2>7. QED
    BY <2>2, <2>5, <2>6, Zenon DEF Works
<1>12. QED
  BY <1>3, <1>4, <1>5, <1>6, <1>7, <1>8, <1>9, <1>10, <1>11, WorkerCases

\* Only a worker's own steps change what it remembers.
LEMMA WorkersTouch ==
  ASSUME [Next]_vars
  PROVE  worker' = worker
         \/ \E w \in Workers : (\E r \in Requests : Claim(w, r)) \/ Work(w) \/ Crash(w)
<1>1. ASSUME NEW r \in Requests, CancelTask(r) \/ LeaseRunsOut(r) \/ Recover(r)
      PROVE  worker' = worker
  BY <1>1, RequestsTouch
<1>2. Drafts \/ Apply \/ People \/ (\E c \in Creators : Discover(c)) => worker' = worker
  BY DraftsTouch, ApplyTouches, PeopleTouch
<1>3. Tick \/ UNCHANGED vars => worker' = worker
  BY DEF Tick, vars
<1>4. QED
  BY <1>1, <1>2, <1>3 DEF Next

\* After every step the workers are at items of their requests.
LEMMA WorkingsKept ==
  ASSUME IInv, [Next]_vars
  PROVE  Workings'
<1>1. Frame /\ Tasks /\ Workings /\ TasksStep
  BY TasksStepTaken DEF IInv
<1>2. \A w \in Workers : worker[w] \in WorkerRow /\ WorkNext(worker[w])
  BY <1>1, WorkRemains DEF Workings
<1>3. worker' = worker \/ \E w \in Workers : Works(w)
  BY <1>1, WorkersTouch, WorkerWorks
<1>4. worker' \in [Workers -> WorkerRow] /\ \A w \in Workers : WorkNext(worker'[w])
  BY <1>1, <1>2, <1>3 DEF Works, Workings
<1>5. QED
  BY <1>4 DEF Workings, WorkNext, WorkOf

-----------------------------------------------------------------------------
(* The budget.                                                             *)

\* A set within two finite ones has no more members than these together.
LEMMA UnionBound ==
  ASSUME NEW S, NEW T, NEW U, IsFiniteSet(S), IsFiniteSet(T), U \subseteq S \cup T
  PROVE  /\ IsFiniteSet(U) /\ Cardinality(U) \in Nat
         /\ Cardinality(S) \in Nat /\ Cardinality(T) \in Nat
         /\ Cardinality(U) <= Cardinality(S) + Cardinality(T)
<1>1. /\ IsFiniteSet(S \cup T) /\ Cardinality(S \cup T) \in Nat
      /\ Cardinality(S) \in Nat /\ Cardinality(T) \in Nat /\ Cardinality(S \cap T) \in Nat
  BY FS_Union, FS_Intersection, FS_CardinalityType
<1>2. Cardinality(S \cup T) = Cardinality(S) + Cardinality(T) - Cardinality(S \cap T)
  BY FS_Union
<1>3. IsFiniteSet(U) /\ Cardinality(U) <= Cardinality(S \cup T) /\ Cardinality(U) \in Nat
  BY <1>1, FS_Subset, FS_CardinalityType
<1>4. QED
  BY <1>1, <1>2, <1>3

\* A reserved slot is of a batch of the day, and of one of its creators.
LEMMA SlotRows ==
  \A k : k \in Reservations <=>
    \E b \in Batches : \E c \in DOMAIN task[b].items :
      k = <<b, c>> /\ k \notin DOMAIN draft /\ task[b].status # "absent" /\ Recent(task[b].at)
BY DEF Reservations, Slots

\* The reserved slots after a step, row by row.
LEMMA SlotRowsNext ==
  \A k : k \in Reservations' <=>
    \E b \in Batches : \E c \in DOMAIN task'[b].items :
      k = <<b, c>> /\ k \notin DOMAIN draft' /\ task'[b].status # "absent"
      /\ task'[b].at + Day > clock'
BY DEF Reservations, Slots, Recent

\* What the budgets count is finite.
LEMMA BudgetFinite ==
  ASSUME IInv
  PROVE  /\ IsFiniteSet(RecentDrafts) /\ IsFiniteSet(RecentReplies)
         /\ IsFiniteSet(Reservations) /\ IsFiniteSet(Held) /\ IsFiniteSet(Researched)
         /\ Reservations \subseteq Batches \X Creators
<1> USE DEF IInv
<1>1. IsFiniteSet(RecentDrafts) /\ IsFiniteSet(RecentReplies)
  BY FS_Subset DEF RecentDrafts, RecentReplies, Prepared
<1>2. PICK made : made = {r \in Requests : task[r].status # "absent"}
  OBVIOUS
<1>3. IsFiniteSet(made) /\ IsFiniteSet(Creators)
  BY <1>2, PreparationAssumption DEF Tasks
<1>4. IsFiniteSet(made \X Creators)
  BY <1>3, FS_Product
<1>5. ASSUME NEW k \in Reservations PROVE k \in Batches \X Creators /\ k \in made \X Creators
  <2>1. PICK b \in Batches : \E c \in DOMAIN task[b].items :
          k = <<b, c>> /\ task[b].status # "absent"
    BY <1>5, SlotRows
  <2>2. b \in Requests /\ DOMAIN task[b].items \subseteq Creators
    BY TaskTyped DEF Requests
  <2>3. QED
    BY <1>2, <2>1, <2>2
<1>6. Researched \subseteq made \X Creators
  BY <1>2 DEF Researched, Requests
<1>7. IsFiniteSet(Reservations) /\ IsFiniteSet(Researched)
  BY <1>4, <1>5, <1>6, FS_Subset
<1>8. IsFiniteSet(Held)
  BY <1>1, <1>7, FS_Union DEF Held
<1>9. QED
  BY <1>1, <1>5, <1>7, <1>8

\* The counts are numbers, and slots only add to those of a creator.
LEMMA TotalTyped ==
  ASSUME IInv, NEW own
  PROVE  /\ Total(own) \in Nat
         /\ \A c : For(c, own) \in Nat
                   /\ Cardinality({k \in RecentDrafts : k[2] = c})
                        + Cardinality({k \in RecentReplies : k[1] = c}) <= For(c, own)
<1>1. IsFiniteSet(Reservations \ {own})
  BY BudgetFinite, FS_Subset
<1>2. Total(own) \in Nat
  BY <1>1, BudgetFinite, FS_CardinalityType DEF Total
<1>3. ASSUME NEW c
      PROVE  /\ For(c, own) \in Nat
             /\ Cardinality({k \in RecentDrafts : k[2] = c})
                  + Cardinality({k \in RecentReplies : k[1] = c}) <= For(c, own)
  <2>1. IsFiniteSet({k \in Reservations \ {own} : k[2] = c})
    BY <1>1, FS_Subset
  <2>2. IsFiniteSet({k \in RecentDrafts : k[2] = c}) /\ IsFiniteSet({k \in RecentReplies : k[1] = c})
    BY BudgetFinite, FS_Subset
  <2>3. QED
    BY <2>1, <2>2, FS_CardinalityType DEF For
<1>4. QED
  BY <1>2, <1>3

\* New drafts or slots D and replies A fit where the total leaves room.
LEMMA TotalFits ==
  ASSUME IInv, NEW own, NEW D, NEW A, IsFiniteSet(D), IsFiniteSet(A),
         Held' \subseteq (RecentDrafts \cup (Reservations \ {own})) \cup D,
         RecentReplies' \subseteq RecentReplies \cup A,
         Total(own) + Cardinality(D) + Cardinality(A) <= DailyDrafts
  PROVE  (Cardinality(Held) + Cardinality(RecentReplies) <= DailyDrafts)'
<1>1. PICK held, answers : held = Held' /\ answers = RecentReplies'
  OBVIOUS
<1>2. PICK rest : rest = Reservations \ {own}
  OBVIOUS
<1>3. IsFiniteSet(rest)
  BY <1>2, BudgetFinite, FS_Subset
<1>4. PICK base : base = RecentDrafts \cup rest
  OBVIOUS
<1>5. /\ IsFiniteSet(base) /\ Cardinality(base) \in Nat
      /\ Cardinality(RecentDrafts) \in Nat /\ Cardinality(rest) \in Nat
      /\ Cardinality(base) <= Cardinality(RecentDrafts) + Cardinality(rest)
  BY <1>3, <1>4, BudgetFinite, UnionBound
<1>6. /\ Cardinality(held) \in Nat /\ Cardinality(D) \in Nat
      /\ Cardinality(held) <= Cardinality(base) + Cardinality(D)
  BY <1>1, <1>2, <1>4, <1>5, UnionBound
<1>7. /\ Cardinality(answers) \in Nat /\ Cardinality(A) \in Nat /\ Cardinality(RecentReplies) \in Nat
      /\ Cardinality(answers) <= Cardinality(RecentReplies) + Cardinality(A)
  BY <1>1, BudgetFinite, UnionBound
<1>8. Cardinality(held) + Cardinality(answers) <= DailyDrafts
  BY <1>2, <1>5, <1>6, <1>7, Limits DEF Total
<1>9. QED
  BY <1>1, <1>8

\* A step that counts nothing new keeps the limit of all.
LEMMA TotalStays ==
  ASSUME IInv, Held' \subseteq Held, RecentReplies' \subseteq RecentReplies
  PROVE  (Cardinality(Held) + Cardinality(RecentReplies) <= DailyDrafts)'
<1>1. PICK held, answers : held = Held' /\ answers = RecentReplies'
  OBVIOUS
<1>2. /\ Cardinality(held) <= Cardinality(Held) /\ Cardinality(held) \in Nat
      /\ Cardinality(answers) <= Cardinality(RecentReplies) /\ Cardinality(answers) \in Nat
      /\ Cardinality(Held) \in Nat /\ Cardinality(RecentReplies) \in Nat
  BY <1>1, BudgetFinite, FS_Subset, FS_CardinalityType
<1>3. Cardinality(held) + Cardinality(answers) <= DailyDrafts
  BY <1>2, Limits DEF IInv, BudgetHeld
<1>4. QED
  BY <1>1, <1>3

\* The same for one creator.
LEMMA CreatorFits ==
  ASSUME IInv, NEW c \in Creators, NEW D, NEW A, IsFiniteSet(D), IsFiniteSet(A),
         {k \in RecentDrafts' : k[2] = c} \subseteq {k \in RecentDrafts : k[2] = c} \cup D,
         {k \in RecentReplies' : k[1] = c} \subseteq {k \in RecentReplies : k[1] = c} \cup A,
         \/ D = {} /\ A = {}
         \/ \E own : For(c, own) + Cardinality(D) + Cardinality(A) <= DraftsPerCreator
  PROVE  (Cardinality({k \in RecentDrafts : k[2] = c})
            + Cardinality({k \in RecentReplies : k[1] = c}) <= DraftsPerCreator)'
<1>1. PICK before, replied : /\ before = {k \in RecentDrafts : k[2] = c}
                             /\ replied = {k \in RecentReplies : k[1] = c}
  OBVIOUS
<1>2. PICK after, answered : /\ after = {k \in RecentDrafts' : k[2] = c}
                             /\ answered = {k \in RecentReplies' : k[1] = c}
  OBVIOUS
<1>3. IsFiniteSet(before) /\ IsFiniteSet(replied)
  BY <1>1, BudgetFinite, FS_Subset
<1>4. /\ Cardinality(after) \in Nat /\ Cardinality(before) \in Nat /\ Cardinality(D) \in Nat
      /\ Cardinality(after) <= Cardinality(before) + Cardinality(D)
  BY <1>1, <1>2, <1>3, UnionBound
<1>5. /\ Cardinality(answered) \in Nat /\ Cardinality(replied) \in Nat /\ Cardinality(A) \in Nat
      /\ Cardinality(answered) <= Cardinality(replied) + Cardinality(A)
  BY <1>1, <1>2, <1>3, UnionBound
<1>6. Cardinality(before) + Cardinality(replied) + Cardinality(D) + Cardinality(A) <= DraftsPerCreator
  <2>1. CASE D = {} /\ A = {}
    <3>1. Cardinality(D) = 0 /\ Cardinality(A) = 0
      BY <2>1, FS_EmptySet
    <3>2. Cardinality(before) + Cardinality(replied) <= DraftsPerCreator
      BY <1>1 DEF IInv, BudgetHeld
    <3>3. QED
      BY <1>4, <1>5, <3>1, <3>2, Limits
  <2>2. ASSUME NEW own, For(c, own) + Cardinality(D) + Cardinality(A) <= DraftsPerCreator
        PROVE  <1>6!:
    <3>1. PICK n : n = For(c, own)
      OBVIOUS
    <3>2. n \in Nat /\ Cardinality(before) + Cardinality(replied) <= n
      BY <1>1, <3>1, TotalTyped
    <3>3. QED
      BY <1>4, <1>5, <2>2, <3>1, <3>2, Limits
  <2>3. QED
    BY <2>1, <2>2
<1>7. Cardinality(after) + Cardinality(answered) <= DraftsPerCreator
  BY <1>4, <1>5, <1>6, Limits
<1>8. QED
  BY <1>2, <1>7

\* Research that was checked against its limit keeps it.
LEMMA ResearchFits ==
  ASSUME IInv, NEW D, IsFiniteSet(D), Researched' \subseteq Researched \cup D,
         D = {} \/ ResearchUsed + Cardinality(D) <= DailyResearch
  PROVE  (ResearchUsed <= DailyResearch)'
<1>1. PICK after : after = Researched'
  OBVIOUS
<1>2. /\ Cardinality(after) \in Nat /\ Cardinality(Researched) \in Nat /\ Cardinality(D) \in Nat
      /\ Cardinality(after) <= Cardinality(Researched) + Cardinality(D)
  BY <1>1, BudgetFinite, UnionBound
<1>3. D = {} => Cardinality(D) = 0
  BY FS_EmptySet
<1>4. Cardinality(Researched) <= DailyResearch
  BY DEF IInv, BudgetHeld, ResearchUsed
<1>5. Cardinality(after) <= DailyResearch
  BY <1>2, <1>3, <1>4, Limits DEF ResearchUsed
<1>6. QED
  BY <1>1, <1>5 DEF ResearchUsed

\* The clock only goes on.
LEMMA ClockGoesOn ==
  ASSUME IInv, [Next]_vars
  PROVE  clock' \in Nat /\ clock \in Nat /\ clock <= clock'
<1>1. ASSUME NEW w \in Workers, (\E r \in Requests : Claim(w, r)) \/ Work(w) \/ Crash(w)
      PROVE  clock' = clock
  BY <1>1, WorkerTouches
<1>2. ASSUME NEW r \in Requests, CancelTask(r) \/ LeaseRunsOut(r) \/ Recover(r)
      PROVE  clock' = clock
  BY <1>2, RequestsTouch
<1>3. Drafts \/ Apply \/ People \/ (\E c \in Creators : Discover(c)) => clock' = clock
  BY DraftsTouch, ApplyTouches, PeopleTouch
<1>4. UNCHANGED vars => clock' = clock
  BY DEF vars
<1>5. Tick => clock' = clock + 1
  BY DEF Tick
<1>6. clock \in Nat
  BY Limits DEF IInv, Frame
<1>7. QED
  BY <1>1, <1>2, <1>3, <1>4, <1>5, <1>6 DEF Next

\* What is prepared stays, with its time.
LEMMA DraftsRemain ==
  ASSUME IInv, [Next]_vars
  PROVE  \A k \in DOMAIN draft : k \in DOMAIN draft' /\ draft'[k].at = draft[k].at
<1>1. ASSUME NEW x, Added(x)
      PROVE  \A k \in DOMAIN draft : k \in DOMAIN draft' /\ draft'[k].at = draft[k].at
  BY <1>1 DEF Added, Insert
<1>2. ASSUME NEW x \in DOMAIN draft, draft' = [draft EXCEPT ![x].live = FALSE]
      PROVE  \A k \in DOMAIN draft : k \in DOMAIN draft' /\ draft'[k].at = draft[k].at
  <2>1. draft[x] \in DraftRow
    BY DEF IInv, Prepared
  <2>2. [draft[x] EXCEPT !.live = FALSE].at = draft[x].at
    BY <2>1 DEF DraftRow
  <2>3. QED
    BY <1>2, <2>2
<1>3. QED
  BY <1>1, <1>2, DraftSteps, CreateDraftAdds, IssueAdds DEF IInv

\* No step removes or changes a reply.
LEMMA RepliesRemain ==
  ASSUME IInv, [Next]_vars
  PROVE  \A k \in DOMAIN reply : k \in DOMAIN reply' /\ reply'[k] = reply[k]
<1>1. ASSUME NEW keys, Answers(keys)
      PROVE  \A k \in DOMAIN reply : k \in DOMAIN reply' /\ reply'[k] = reply[k]
  BY <1>1 DEF Answers, Insert
<1>2. QED
  BY <1>1, AnswersAdded, SyncAnswers

\* What counts against the budgets was there, or is new.
LEMMA DraftsOfTheDay ==
  ASSUME IInv, [Next]_vars, NEW k \in RecentDrafts'
  PROVE  k \in RecentDrafts \/ k \in DOMAIN draft' \ DOMAIN draft
<1>1. k \in DOMAIN draft' /\ draft'[k].at + Day > clock'
  BY DEF RecentDrafts, Recent
<1>2. CASE k \in DOMAIN draft
  <2>1. draft'[k].at = draft[k].at /\ draft[k].at \in Nat
    BY <1>2, DraftsRemain DEF IInv, Prepared, DraftRow
  <2>2. draft[k].at + Day > clock
    BY <1>1, <2>1, ClockGoesOn, Limits
  <2>3. QED
    BY <1>2, <2>2 DEF RecentDrafts, Recent
<1>3. QED
  BY <1>1, <1>2

\* Time brings no reply back into the day.
LEMMA RepliesOfTheDay ==
  ASSUME IInv, [Next]_vars, NEW k \in RecentReplies'
  PROVE  k \in RecentReplies \/ k \in DOMAIN reply' \ DOMAIN reply
<1>1. k \in DOMAIN reply' /\ reply'[k] + Day > clock'
  BY DEF RecentReplies, Recent
<1>2. CASE k \in DOMAIN reply
  <2>1. reply'[k] = reply[k] /\ reply[k] \in Nat
    BY <1>2, RepliesRemain DEF IInv, Prepared
  <2>2. reply[k] + Day > clock
    BY <1>1, <2>1, ClockGoesOn, Limits
  <2>3. QED
    BY <1>2, <2>2 DEF RecentReplies, Recent
<1>3. QED
  BY <1>1, <1>2

\* Nor a slot; a slot that is new belongs to a batch that is.
LEMMA SlotsOfTheDay ==
  ASSUME IInv, [Next]_vars, NEW k \in Reservations'
  PROVE  /\ k[1] \in Batches /\ k[2] \in DOMAIN task'[k[1]].items /\ k = <<k[1], k[2]>>
         /\ k \notin DOMAIN draft'
         /\ k \in Reservations \/ task[k[1]].status = "absent"
<1>1. PICK b \in Batches : \E c \in DOMAIN task'[b].items :
        /\ k = <<b, c>> /\ k \notin DOMAIN draft' /\ task'[b].status # "absent"
        /\ task'[b].at + Day > clock'
  BY SlotRowsNext
<1>2. PICK c \in DOMAIN task'[b].items :
        /\ k = <<b, c>> /\ k \notin DOMAIN draft' /\ task'[b].status # "absent"
        /\ task'[b].at + Day > clock'
  BY <1>1
<1>3. CASE task[b].status # "absent"
  <2>1. b \in Requests /\ task[b].at \in Nat
    BY TaskTyped DEF IInv, Requests
  <2>2. task'[b].at = task[b].at /\ task'[b].items = task[b].items
    BY <1>3, <2>1, TasksStepTaken, RequestsRemain DEF IInv
  <2>3. task[b].at + Day > clock
    BY <1>2, <2>1, <2>2, ClockGoesOn, Limits
  <2>4. k \notin DOMAIN draft
    BY <1>2, DraftsRemain
  <2>5. k \in Reservations
    BY <1>2, <1>3, <2>2, <2>3, <2>4, SlotRows DEF Recent
  <2>6. QED
    BY <1>2, <2>5
<1>4. QED
  BY <1>2, <1>3

\* Nor a place of research; one that is new belongs to an audit that is.
LEMMA PlacesOfTheDay ==
  ASSUME IInv, [Next]_vars, NEW x \in Researched'
  PROVE  /\ x \in Pilots \X Creators /\ x[2] \in DOMAIN task'[x[1]].items
         /\ x \in Researched \/ task[x[1]].status = "absent"
<1>1. /\ x \in Pilots \X Creators
      /\ task'[x[1]].status # "absent" /\ task'[x[1]].at + Day > clock'
      /\ x[2] \in DOMAIN task'[x[1]].items
  BY DEF Researched, Recent
<1>2. CASE task[x[1]].status # "absent"
  <2>1. x[1] \in Requests /\ task[x[1]].at \in Nat
    BY <1>1, TaskTyped DEF IInv, Requests
  <2>2. task'[x[1]].at = task[x[1]].at /\ task'[x[1]].items = task[x[1]].items
    BY <1>2, <2>1, TasksStepTaken, RequestsRemain DEF IInv
  <2>3. task[x[1]].at + Day > clock
    BY <1>1, <2>1, <2>2, ClockGoesOn, Limits
  <2>4. x \in Researched
    BY <1>1, <1>2, <2>2, <2>3 DEF Researched, Recent
  <2>5. QED
    BY <1>1, <2>4
<1>3. QED
  BY <1>1, <1>2

\* Without new requests no slots and no places of research are new.
NoneMade == \A r \in Requests : task[r].status = "absent" => task'[r].status = "absent"

\* Without a new request no slot and no place is new.
LEMMA NoneMadeThen ==
  ASSUME IInv, [Next]_vars, NoneMade
  PROVE  /\ Reservations' \subseteq Reservations /\ Researched' \subseteq Researched
         /\ (ResearchUsed <= DailyResearch)'
<1>1. ASSUME NEW k \in Reservations' PROVE k \in Reservations
  <2>1. PICK b \in Batches :
          (\E c \in DOMAIN task'[b].items : k = <<b, c>>) /\ task'[b].status # "absent"
    BY SlotRowsNext
  <2>2. task[b].status # "absent"
    BY <2>1 DEF NoneMade, Requests
  <2>3. QED
    BY <2>1, <2>2, SlotsOfTheDay
<1>2. ASSUME NEW x \in Researched' PROVE x \in Researched
  <2>1. x[1] \in Pilots /\ task'[x[1]].status # "absent"
    BY DEF Researched
  <2>2. QED
    BY <2>1, PlacesOfTheDay DEF NoneMade, Requests
<1>3. (ResearchUsed <= DailyResearch)'
  BY <1>2, ResearchFits, FS_EmptySet
<1>4. QED
  BY <1>1, <1>2, <1>3

\* Without a new draft or reply every creator stays within the limit.
LEMMA SlotsOfOthersStay ==
  ASSUME IInv, [Next]_vars, draft' = draft, reply' = reply
  PROVE  /\ RecentDrafts' \subseteq RecentDrafts /\ RecentReplies' \subseteq RecentReplies
         /\ \A c \in Creators :
              (Cardinality({k \in RecentDrafts : k[2] = c})
                 + Cardinality({k \in RecentReplies : k[1] = c}) <= DraftsPerCreator)'
<1>1. RecentDrafts' \subseteq RecentDrafts /\ RecentReplies' \subseteq RecentReplies
  BY DraftsOfTheDay, RepliesOfTheDay
<1>2. ASSUME NEW c \in Creators
      PROVE  (Cardinality({k \in RecentDrafts : k[2] = c})
                + Cardinality({k \in RecentReplies : k[1] = c}) <= DraftsPerCreator)'
  <2>1. PICK none : none = {}
    OBVIOUS
  <2>2. /\ {k \in RecentDrafts' : k[2] = c} \subseteq {k \in RecentDrafts : k[2] = c} \cup none
        /\ {k \in RecentReplies' : k[1] = c} \subseteq {k \in RecentReplies : k[1] = c} \cup none
    BY <1>1
  <2>3. QED
    BY <2>1, <2>2, CreatorFits, FS_EmptySet
<1>3. QED
  BY <1>1, <1>2

\* Without a new row the budgets hold as they did.
LEMMA NothingNew ==
  ASSUME IInv, [Next]_vars, NoneMade,
         DOMAIN draft' = DOMAIN draft, DOMAIN reply' = DOMAIN reply
  PROVE  BudgetHeld'
<1>1. RecentDrafts' \subseteq RecentDrafts /\ RecentReplies' \subseteq RecentReplies
  BY DraftsOfTheDay, RepliesOfTheDay
<1>2. Held' \subseteq Held
  BY <1>1, NoneMadeThen DEF Held
<1>3. ASSUME NEW c \in Creators
      PROVE  (Cardinality({k \in RecentDrafts : k[2] = c})
                + Cardinality({k \in RecentReplies : k[1] = c}) <= DraftsPerCreator)'
  <2>1. PICK none : none = {}
    OBVIOUS
  <2>2. /\ {k \in RecentDrafts' : k[2] = c} \subseteq {k \in RecentDrafts : k[2] = c} \cup none
        /\ {k \in RecentReplies' : k[1] = c} \subseteq {k \in RecentReplies : k[1] = c} \cup none
    BY <1>1
  <2>3. QED
    BY <2>1, <2>2, CreatorFits, FS_EmptySet
<1>4. QED
  BY <1>1, <1>2, <1>3, NoneMadeThen, TotalStays DEF BudgetHeld

\* A draft is added that there is room for.
LEMMA DraftFits ==
  ASSUME IInv, [Next]_vars, NoneMade, reply' = reply,
         NEW k, Added(k), NEW own, own \in {None, k}, WithinBudget(k[2], own)
  PROVE  BudgetHeld'
<1>1. DOMAIN draft' = DOMAIN draft \cup {k} /\ k[2] \in Creators
  BY DEF Added, Insert
<1>2. RecentDrafts' \subseteq RecentDrafts \cup {k} /\ RecentReplies' \subseteq RecentReplies
  BY <1>1, DraftsOfTheDay, RepliesOfTheDay
<1>3. Reservations' \subseteq Reservations \ {own}
  <2>1. ASSUME NEW x \in Reservations' PROVE x \in Reservations \ {own}
    <3>1. x \in Reservations /\ x \notin DOMAIN draft' /\ x \in Batches \X Creators
      BY NoneMadeThen, SlotsOfTheDay, BudgetFinite
    <3>2. x # None /\ x # k
      BY <1>1, <3>1, Names DEF Requests
    <3>3. QED
      BY <3>1, <3>2
  <2>2. QED
    BY <2>1
<1>4. Held' \subseteq (RecentDrafts \cup (Reservations \ {own})) \cup {k}
  BY <1>2, <1>3 DEF Held
<1>5. PICK new, none : new = {k} /\ none = {}
  OBVIOUS
<1>6. /\ IsFiniteSet(new) /\ Cardinality(new) = 1
      /\ IsFiniteSet(none) /\ Cardinality(none) = 0
  BY <1>5, FS_Singleton, FS_EmptySet
<1>7. PICK total : total = Total(own)
  OBVIOUS
<1>8. total + Cardinality(new) + Cardinality(none) <= DailyDrafts
  <2>1. total \in Nat /\ total < DailyDrafts
    BY <1>7, TotalTyped DEF WithinBudget
  <2>2. QED
    BY <1>6, <2>1, Limits
<1>9. (Cardinality(Held) + Cardinality(RecentReplies) <= DailyDrafts)'
  BY <1>2, <1>4, <1>5, <1>6, <1>7, <1>8, TotalFits
<1>10. ASSUME NEW c \in Creators
      PROVE  (Cardinality({x \in RecentDrafts : x[2] = c})
                + Cardinality({x \in RecentReplies : x[1] = c}) <= DraftsPerCreator)'
  <2>1. CASE c = k[2]
    <3>1. PICK used : used = For(c, own)
      OBVIOUS
    <3>2. used \in Nat /\ used < DraftsPerCreator
      BY <2>1, <3>1, TotalTyped DEF WithinBudget
    <3>3. used + Cardinality(new) + Cardinality(none) <= DraftsPerCreator
      BY <1>6, <3>2, Limits
    <3>4. /\ {x \in RecentDrafts' : x[2] = c} \subseteq {x \in RecentDrafts : x[2] = c} \cup new
          /\ {x \in RecentReplies' : x[1] = c} \subseteq {x \in RecentReplies : x[1] = c} \cup none
      BY <1>2, <1>5
    <3>5. QED
      BY <1>6, <3>1, <3>3, <3>4, CreatorFits
  <2>2. CASE c # k[2]
    <3>1. /\ {x \in RecentDrafts' : x[2] = c} \subseteq {x \in RecentDrafts : x[2] = c} \cup none
          /\ {x \in RecentReplies' : x[1] = c} \subseteq {x \in RecentReplies : x[1] = c} \cup none
      BY <1>2, <2>2
    <3>2. QED
      BY <1>5, <1>6, <3>1, CreatorFits
  <2>3. QED
    BY <2>1, <2>2
<1>11. QED
  BY <1>9, <1>10, NoneMadeThen DEF BudgetHeld

\* Replies are prepared as far as there is room, once for each creator.
LEMMA AnswersFit ==
  ASSUME IInv, [Next]_vars, NoneMade, draft' = draft,
         NEW keys, Answers(keys), IsFiniteSet(keys),
         Total(None) + Cardinality(keys) <= DailyDrafts,
         \A k \in keys : For(k[1], None) < DraftsPerCreator,
         \A k, l \in keys : k[1] = l[1] => k = l
  PROVE  BudgetHeld'
<1>1. DOMAIN reply' = DOMAIN reply \cup keys
  BY DEF Answers, Insert
<1>2. RecentReplies' \subseteq RecentReplies \cup keys /\ RecentDrafts' \subseteq RecentDrafts
  BY <1>1, DraftsOfTheDay, RepliesOfTheDay
<1>3. Reservations = Reservations \ {None}
  BY BudgetFinite, Names DEF Requests
<1>4. PICK none : none = {}
  OBVIOUS
<1>5. IsFiniteSet(none) /\ Cardinality(none) = 0
  BY <1>4, FS_EmptySet
<1>6. Held' \subseteq (RecentDrafts \cup (Reservations \ {None})) \cup none
  BY <1>2, <1>3, NoneMadeThen DEF Held
<1>7. PICK total, n : total = Total(None) /\ n = Cardinality(keys)
  OBVIOUS
<1>8. total + Cardinality(none) + n <= DailyDrafts
  <2>1. total \in Nat /\ n \in Nat /\ total + n <= DailyDrafts
    BY <1>7, TotalTyped, FS_CardinalityType
  <2>2. QED
    BY <1>5, <2>1, Limits
<1>9. (Cardinality(Held) + Cardinality(RecentReplies) <= DailyDrafts)'
  BY <1>2, <1>5, <1>6, <1>7, <1>8, TotalFits
<1>10. ASSUME NEW c \in Creators
      PROVE  (Cardinality({x \in RecentDrafts : x[2] = c})
                + Cardinality({x \in RecentReplies : x[1] = c}) <= DraftsPerCreator)'
  <2>1. {x \in RecentDrafts' : x[2] = c} \subseteq {x \in RecentDrafts : x[2] = c} \cup none
    BY <1>2
  <2>2. ASSUME NEW k \in keys, k[1] = c
        PROVE  (Cardinality({x \in RecentDrafts : x[2] = c})
                + Cardinality({x \in RecentReplies : x[1] = c}) <= DraftsPerCreator)'
    <3>1. PICK new : new = {k}
      OBVIOUS
    <3>2. IsFiniteSet(new) /\ Cardinality(new) = 1
      BY <3>1, FS_Singleton
    <3>3. {x \in RecentReplies' : x[1] = c} \subseteq {x \in RecentReplies : x[1] = c} \cup new
      BY <1>2, <2>2, <3>1
    <3>4. PICK used : used = For(c, None)
      OBVIOUS
    <3>5. used \in Nat /\ used < DraftsPerCreator
      BY <2>2, <3>4, TotalTyped
    <3>6. used + Cardinality(none) + Cardinality(new) <= DraftsPerCreator
      BY <1>5, <3>2, <3>5, Limits
    <3>7. QED
      BY <1>5, <2>1, <3>2, <3>3, <3>4, <3>6, CreatorFits
  <2>3. CASE \A k \in keys : k[1] # c
    <3>1. {x \in RecentReplies' : x[1] = c} \subseteq {x \in RecentReplies : x[1] = c} \cup none
      BY <1>2, <2>3
    <3>2. QED
      BY <1>4, <1>5, <2>1, <3>1, CreatorFits
  <2>4. QED
    BY <2>2, <2>3
<1>11. QED
  BY <1>9, <1>10, NoneMadeThen DEF BudgetHeld

\* One place for each creator of a request.
LEMMA OfRequest ==
  ASSUME NEW r, NEW S \in SUBSET Creators
  PROVE  LET places == {<<r, c>> : c \in S}
         IN  IsFiniteSet(places) /\ Cardinality(places) <= Cardinality(S)
             /\ Cardinality(S) \in Nat /\ Cardinality(places) \in Nat
<1> DEFINE places == {<<r, c>> : c \in S}
           place == [c \in S |-> <<r, c>>]
<1>1. IsFiniteSet(S)
  BY PreparationAssumption, FS_Subset
<1>2. place \in Surjection(S, places)
  BY DEF Surjection
<1>3. IsFiniteSet(places) /\ Cardinality(places) <= Cardinality(S)
  BY <1>1, <1>2, FS_Surjection
<1>4. QED
  BY <1>1, <1>3, FS_CardinalityType

\* The lesser of two numbers.
LEMMA MinBound ==
  ASSUME NEW m \in Int, NEW n \in Int
  PROVE  Min({m, n}) \in {m, n} /\ Min({m, n}) <= m /\ Min({m, n}) <= n
<1>1. \E x \in {m, n} : \A y \in {m, n} : x <= y
  OBVIOUS
<1>2. QED
  BY <1>1 DEF Min

\* Slots of a new batch that the total leaves room for.
LEMMA BatchFits ==
  ASSUME IInv, [Next]_vars, draft' = draft, reply' = reply,
         NEW b \in Batches, NEW limit \in 1..MaxBatch, CreateBatch(b, limit)
  PROVE  BudgetHeld'
<1>1. PICK S \in SUBSET Creators :
        Made(b, S) /\ Cardinality(S) \in 1..Min({limit, DailyDrafts - Total(None)})
  BY BatchMade DEF IInv
<1>2. PICK total, n : total = Total(None) /\ n = Cardinality(S)
  OBVIOUS
<1>3. total \in Nat /\ MaxBatch \in Nat
  BY <1>2, TotalTyped, PreparationAssumption
<1>4. n \in Nat /\ total + n <= DailyDrafts
  <2>1. Min({limit, DailyDrafts - total}) \in Int
        /\ Min({limit, DailyDrafts - total}) <= DailyDrafts - total
    <3>1. limit \in Int /\ DailyDrafts - total \in Int
      BY <1>3, Limits
    <3>2. QED
      BY <3>1, MinBound
  <2>2. n \in 1..Min({limit, DailyDrafts - total})
    BY <1>1, <1>2
  <2>3. QED
    BY <1>3, <2>1, <2>2, Limits
<1>5. PICK new, none : new = {<<b, c>> : c \in S} /\ none = {}
  OBVIOUS
<1>6. /\ IsFiniteSet(new) /\ Cardinality(new) \in Nat /\ Cardinality(new) <= n
      /\ IsFiniteSet(none) /\ Cardinality(none) = 0
  BY <1>2, <1>5, OfRequest, FS_EmptySet
<1>7. /\ task[b].status = "absent" /\ DOMAIN task'[b].items = S
      /\ \A r \in Requests \ {b} : task'[r] = task[r]
  BY <1>1 DEF Made, IInv, Tasks, Requests
<1>8. Reservations' \subseteq Reservations \cup new
  <2>1. ASSUME NEW k \in Reservations', task[k[1]].status = "absent" PROVE k \in new
    <3>1. PICK x \in Batches : \E c \in DOMAIN task'[x].items :
            k = <<x, c>> /\ task'[x].status # "absent"
      BY SlotRowsNext
    <3>2. x = b
      BY <1>7, <2>1, <3>1 DEF Requests
    <3>3. QED
      BY <1>5, <1>7, <3>1, <3>2
  <2>2. QED
    BY <2>1, SlotsOfTheDay
<1>9. RecentDrafts' \subseteq RecentDrafts /\ RecentReplies' \subseteq RecentReplies
  BY SlotsOfOthersStay
<1>10. Held' \subseteq (RecentDrafts \cup (Reservations \ {None})) \cup new
  <2>1. Reservations = Reservations \ {None}
    BY BudgetFinite, Names DEF Requests
  <2>2. QED
    BY <1>8, <1>9, <2>1 DEF Held
<1>11. total + Cardinality(new) + Cardinality(none) <= DailyDrafts
  BY <1>3, <1>4, <1>6, Limits
<1>12. (Cardinality(Held) + Cardinality(RecentReplies) <= DailyDrafts)'
  BY <1>2, <1>6, <1>9, <1>10, <1>11, TotalFits
<1>13. Researched' \subseteq Researched \cup none
  <2>1. ASSUME NEW x \in Researched' PROVE x \in Researched
    <3>1. x[1] \in Pilots /\ task'[x[1]].status # "absent"
      BY DEF Researched
    <3>2. x[1] \in Requests \ {b}
      BY <3>1, Names DEF Requests
    <3>3. QED
      BY <1>7, <3>1, <3>2, PlacesOfTheDay
  <2>2. QED
    BY <2>1
<1>14. (ResearchUsed <= DailyResearch)'
  BY <1>5, <1>6, <1>13, ResearchFits
<1>15. QED
  BY <1>12, <1>14, SlotsOfOthersStay DEF BudgetHeld

\* Creators of a new pilot that the day leaves room for.
LEMMA PilotFits ==
  ASSUME IInv, [Next]_vars, draft' = draft, reply' = reply,
         NEW p \in Pilots, NEW S \in SUBSET Creators, NEW chosen \in BOOLEAN,
         task[p].status = "absent", NewPilot(p, S, chosen)
  PROVE  BudgetHeld'
<1>1. Made(p, S)
  BY PilotMade DEF IInv
<1>2. /\ DOMAIN task'[p].items = S
      /\ \A r \in Requests \ {p} : task'[r] = task[r]
  BY <1>1 DEF Made, IInv, Tasks, Requests
<1>3. PICK new : new = {<<p, c>> : c \in S}
  OBVIOUS
<1>4. /\ IsFiniteSet(new) /\ Cardinality(new) \in Nat
      /\ Cardinality(new) <= Cardinality(S) /\ Cardinality(S) \in Nat
  BY <1>3, OfRequest
<1>5. Reservations' \subseteq Reservations
  <2>1. ASSUME NEW k \in Reservations' PROVE k \in Reservations
    <3>1. PICK b \in Batches : \E c \in DOMAIN task'[b].items :
            k = <<b, c>> /\ task'[b].status # "absent"
      BY SlotRowsNext
    <3>2. b \in Requests \ {p}
      BY Names DEF Requests
    <3>3. QED
      BY <1>2, <3>1, <3>2, SlotsOfTheDay
  <2>2. QED
    BY <2>1
<1>6. RecentDrafts' \subseteq RecentDrafts /\ RecentReplies' \subseteq RecentReplies
  BY SlotsOfOthersStay
<1>7. (Cardinality(Held) + Cardinality(RecentReplies) <= DailyDrafts)'
  BY <1>5, <1>6, TotalStays DEF Held
<1>8. Researched' \subseteq Researched \cup new
  <2>1. ASSUME NEW x \in Researched', task[x[1]].status = "absent" PROVE x \in new
    <3>1. x \in Pilots \X Creators /\ task'[x[1]].status # "absent" /\ x[2] \in DOMAIN task'[x[1]].items
      BY DEF Researched
    <3>2. x[1] = p /\ x = <<x[1], x[2]>>
      BY <1>2, <2>1, <3>1 DEF Requests
    <3>3. QED
      BY <1>2, <1>3, <3>1, <3>2
  <2>2. QED
    BY <2>1, PlacesOfTheDay
<1>9. ResearchUsed + Cardinality(new) <= DailyResearch
  <2>1. PICK used, n : used = ResearchUsed /\ n = Cardinality(S)
    OBVIOUS
  <2>2. used \in Nat /\ used + n <= DailyResearch
    BY <2>1, BudgetFinite, FS_CardinalityType DEF NewPilot, ResearchUsed
  <2>3. QED
    BY <1>4, <2>1, <2>2, Limits
<1>10. (ResearchUsed <= DailyResearch)'
  BY <1>4, <1>8, <1>9, ResearchFits
<1>11. QED
  BY <1>7, <1>10, SlotsOfOthersStay DEF BudgetHeld

\* A request that goes on is none that is new.
LEMMA GoesOnMakesNone ==
  ASSUME Tasks, task' = task \/ \E r \in Requests : GoesOn(r)
  PROVE  NoneMade
BY DEF NoneMade, GoesOn, Continues, Tasks

\* New replies fit the budget they were checked against.
LEMMA RepliesFit ==
  ASSUME IInv, [Next]_vars, NoneMade, draft' = draft,
         \/ \E c \in Creators, n \in {1, 2} : Answers({ReplyKey(c, n)}) /\ WithinBudget(c, None)
         \/ \E g \in Campaigns : AutomaticReplies(g)
  PROVE  BudgetHeld'
<1>1. ASSUME NEW c \in Creators, NEW n \in {1, 2},
             Answers({ReplyKey(c, n)}), WithinBudget(c, None)
      PROVE  BudgetHeld'
  <2>1. PICK k : k = ReplyKey(c, n)
    OBVIOUS
  <2>2. k[1] = c /\ IsFiniteSet({k}) /\ Cardinality({k}) = 1
    BY <2>1, FS_Singleton DEF ReplyKey
  <2>3. PICK total, one : total = Total(None) /\ one = Cardinality({k})
    OBVIOUS
  <2>4. total + one <= DailyDrafts /\ For(k[1], None) < DraftsPerCreator
    BY <1>1, <2>2, <2>3, TotalTyped, Limits DEF WithinBudget
  <2>5. QED
    BY <1>1, <2>1, <2>2, <2>3, <2>4, AnswersFit
<1>2. ASSUME NEW g \in Campaigns, AutomaticReplies(g)
      PROVE  BudgetHeld'
  <2>1. PICK room, waiting, S :
          /\ waiting \subseteq {c \in Creators : For(c, None) < DraftsPerCreator}
          /\ room = Min({PerSync, Cardinality(waiting), Max({DailyDrafts - Total(None), 0})})
          /\ room > 0 /\ S \subseteq waiting /\ Cardinality(S) = room
          /\ Answers({ReplyKey(c, 1) : c \in S})
    BY <1>2, SyncAnswers
  <2>2. PICK total, n : total = Total(None) /\ n = Cardinality(waiting)
    OBVIOUS
  <2>3. total \in Nat /\ n \in Nat
    BY <2>1, <2>2, TotalTyped, PreparationAssumption, FS_Subset, FS_CardinalityType
  <2>4. PICK most : most = Max({DailyDrafts - total, 0})
    OBVIOUS
  <2>5. most \in Int /\ (most > 0 => most <= DailyDrafts - total)
    <3>1. DailyDrafts - total \in Int
      BY <2>3, Limits
    <3>2. \E x \in {DailyDrafts - total, 0} : \A y \in {DailyDrafts - total, 0} : x >= y
      BY <3>1
    <3>3. most \in {DailyDrafts - total, 0}
      BY <2>4, <3>2 DEF Max
    <3>4. QED
      BY <3>1, <3>3
  <2>6. room \in Int /\ room <= most
    <3>1. PICK m \in {PerSync, n, most} : \A y \in {PerSync, n, most} : m <= y
      BY <2>3, <2>5, Limits
    <3>2. room = Min({PerSync, n, most})
      BY <2>1, <2>2, <2>4
    <3>3. room \in {PerSync, n, most} /\ \A y \in {PerSync, n, most} : room <= y
      BY <3>1, <3>2 DEF Min
    <3>4. QED
      BY <2>3, <2>5, <3>3, Limits
  <2>7. total + room <= DailyDrafts
    BY <2>1, <2>3, <2>5, <2>6, Limits
  <2>8. PICK keys : keys = {ReplyKey(c, 1) : c \in S}
    OBVIOUS
  <2>9. S \in SUBSET Creators
    BY <2>1
  <2>10. IsFiniteSet(keys) /\ Cardinality(keys) <= Cardinality(S)
    BY <2>8, <2>9, AnswerKeys
  <2>11. Cardinality(keys) \in Nat
    BY <2>10, FS_CardinalityType
  <2>12. total + Cardinality(keys) <= DailyDrafts
    BY <2>1, <2>3, <2>6, <2>7, <2>10, <2>11, Limits
  <2>13. \A k \in keys : For(k[1], None) < DraftsPerCreator
    BY <2>1, <2>8 DEF ReplyKey
  <2>14. \A k, l \in keys : k[1] = l[1] => k = l
    BY <2>8 DEF ReplyKey
  <2>15. QED
    BY <2>1, <2>2, <2>8, <2>10, <2>12, <2>13, <2>14, AnswersFit
<1>3. QED
  BY <1>1, <1>2

\* No step exceeds a budget.
LEMMA BudgetHeldKept ==
  ASSUME IInv, [Next]_vars
  PROVE  BudgetHeld'
<1>1. ~Apply => NoneMade
  BY TasksGoOn, GoesOnMakesNone DEF IInv
<1>2. ASSUME NEW w \in Workers, (\E r \in Requests : Claim(w, r)) \/ Work(w) \/ Crash(w)
      PROVE  BudgetHeld'
  <2>1. NoneMade
    BY <1>2, WorkerRequests, GoesOnMakesNone DEF IInv
  <2>2. reply' = reply /\ (draft' = draft \/ Issue(w))
    BY <1>2, WorkerTouches
  <2>3. CASE draft' = draft
    BY <2>1, <2>2, <2>3, NothingNew
  <2>4. CASE Issue(w) /\ draft' # draft
    <3>1. PICK k : /\ k = <<worker[w].task, worker[w].item>>
                   /\ Added(k) /\ WithinBudget(k[2], k)
      BY <2>4, IssueAdds DEF IInv
    <3>2. QED
      BY <2>1, <2>2, <3>1, DraftFits
  <2>5. QED
    BY <2>2, <2>3, <2>4
<1>3. ASSUME NEW r \in Requests, CancelTask(r) \/ LeaseRunsOut(r) \/ Recover(r)
      PROVE  BudgetHeld'
  <2>1. NoneMade
    BY <1>3, RequestsGoOn, GoesOnMakesNone DEF IInv
  <2>2. draft' = draft /\ reply' = reply
    BY <1>3, RequestsTouch DEF prepared
  <2>3. QED
    BY <2>1, <2>2, NothingNew
<1>4. ASSUME Drafts PROVE BudgetHeld'
  <2>1. NoneMade
    BY <1>4, DraftsTouch, GoesOnMakesNone DEF IInv
  <2>2. ASSUME NEW c \in Creators, CreateReply(c) PROVE BudgetHeld'
    <3>1. draft' = draft /\ Answers({ReplyKey(c, 1)}) /\ WithinBudget(c, None)
      BY <2>2 DEF CreateReply, Answers
    <3>2. QED
      BY <2>1, <3>1, RepliesFit
  <2>3. ASSUME NEW c \in Creators, RetryReply(c) PROVE BudgetHeld'
    <3>1. draft' = draft /\ Answers({ReplyKey(c, 2)}) /\ WithinBudget(c, None)
      BY <2>3 DEF RetryReply, Answers
    <3>2. QED
      BY <2>1, <3>1, RepliesFit
  <2>4. ASSUME NEW g \in Campaigns, AutomaticReplies(g) PROVE BudgetHeld'
    <3>1. draft' = draft
      BY <2>4 DEF AutomaticReplies
    <3>2. QED
      BY <2>1, <2>4, <3>1, RepliesFit
  <2>5. ASSUME NEW k \in PersonKeys, NEW c \in Creators, CreateDraft(k, c) PROVE BudgetHeld'
    <3>1. reply' = reply
      BY <2>5 DEF CreateDraft
    <3>2. PICK x : x = <<k, c>>
      OBVIOUS
    <3>3. Added(x) /\ WithinBudget(x[2], None)
      BY <2>5, <3>2, CreateDraftAdds
    <3>4. QED
      BY <2>1, <3>1, <3>3, DraftFits
  <2>6. ASSUME NEW k \in DOMAIN draft, DraftEnds(k) PROVE BudgetHeld'
    <3>1. /\ draft' = [draft EXCEPT ![k].live = FALSE]
          /\ UNCHANGED <<scenario, facts, sender, reply, task, worker, budget, applying, clock>>
      BY <2>6, Zenon DEF DraftEnds
    <3>2. DOMAIN draft' = DOMAIN draft /\ reply' = reply
      BY <3>1
    <3>3. QED
      BY <2>1, <3>2, NothingNew
  <2>7. QED
    BY <1>4, <2>2, <2>3, <2>4, <2>5, <2>6 DEF Drafts
<1>5. ASSUME Apply PROVE BudgetHeld'
  <2>1. draft' = draft /\ reply' = reply
    BY <1>5, ApplyTouches DEF prepared
  <2>2. ASSUME NEW b \in Batches, NEW limit \in 1..MaxBatch, CreateBatch(b, limit)
        PROVE  BudgetHeld'
    BY <2>1, <2>2, BatchFits
  <2>3. ASSUME task' = task PROVE BudgetHeld'
    BY <2>1, <2>3, GoesOnMakesNone, NothingNew DEF IInv
  <2>4. ASSUME NEW p \in Pilots, NEW S \in SUBSET Creators, NEW chosen \in BOOLEAN,
               task[p].status = "absent", NewPilot(p, S, chosen)
        PROVE  BudgetHeld'
    BY <2>1, <2>4, PilotFits
  <2>5. QED
    BY <1>5, <2>2, <2>3, <2>4, ApplyRequests DEF IInv
<1>6. ASSUME People \/ (\E c \in Creators : Discover(c)) \/ Tick \/ UNCHANGED vars
      PROVE  BudgetHeld'
  <2>1. task' = task /\ draft' = draft /\ reply' = reply
    BY <1>6, PeopleTouch DEF Tick, vars, prepared
  <2>2. QED
    BY <2>1, GoesOnMakesNone, NothingNew DEF IInv
<1>7. QED
  BY <1>2, <1>3, <1>4, <1>5, <1>6 DEF Next

-----------------------------------------------------------------------------
(* The theorems.                                                           *)

\* The first states satisfy the invariant: creators and clock,
LEMMA InitFrame == Init => Frame
<1> SUFFICES ASSUME Init PROVE Frame
  OBVIOUS
<1>1. scenario \in Scenarios
  BY DEF Init
<1>2. edition \in [Campaigns -> Nat]
  BY DEF Init
<1>3. creator \in [Creators -> CreatorRow]
  <2>1. ASSUME NEW c \in Creators
        PROVE  [version |-> 0, by |-> None, status |-> scenario.status[c], candidates |-> {},
                address |-> IF scenario.status[c] = "absent" THEN None ELSE scenario.address[c]]
                 \in CreatorRow
    BY <1>1, SceneTyped DEF CreatorRow
  <2>2. QED
    BY <2>1 DEF Init
<1>4. contact \in [Creators -> [Addresses -> {"none", "pending", "sent", "void"}]]
  BY DEF Init
<1>5. clock \in 0..LastHour /\ changes \in 0..MaxChanges
  BY Limits DEF Init
<1>6. QED
  BY <1>1, <1>2, <1>3, <1>4, <1>5 DEF Frame

\* the tables and workers,
LEMMA InitRows == Init => Tasks /\ Prepared /\ Locks /\ Workings
<1> SUFFICES ASSUME Init PROVE Tasks /\ Prepared /\ Locks /\ Workings
  OBVIOUS
<1>1. Absent \in TaskRow /\ Absent.status = "absent" /\ Absent.done = {}
  BY Limits DEF Absent, TaskRow, Hashes
<1>2. task = [r \in Requests |-> Absent]
  BY DEF Init
<1>3. PICK made : made = {r \in Requests : task[r].status # "absent"}
  OBVIOUS
<1>4. IsFiniteSet(made)
  <2>1. made = {}
    BY <1>1, <1>2, <1>3
  <2>2. QED
    BY <2>1, FS_EmptySet
<1>5. Tasks
  BY <1>1, <1>2, <1>3, <1>4 DEF Tasks
<1>6. DOMAIN draft = {} /\ DOMAIN reply = {}
  BY DEF Init
<1>7. Prepared
  BY <1>6, FS_EmptySet DEF Prepared
<1>8. Locks
  BY DEF Init, Locks
<1>9. Idle \in WorkerRow /\ WorkOf(Idle)
  BY DEF Idle, WorkerRow, WorkOf
<1>10. Workings
  BY <1>9 DEF Init, Workings
<1>11. QED
  BY <1>5, <1>7, <1>8, <1>10

\* and the budgets, of which nothing is used.
LEMMA InitBudget == Init => BudgetHeld
<1> SUFFICES ASSUME Init PROVE BudgetHeld
  OBVIOUS
<1>1. DOMAIN draft = {} /\ DOMAIN reply = {}
  BY DEF Init
<1>2. RecentDrafts = {} /\ RecentReplies = {}
  BY <1>1 DEF RecentDrafts, RecentReplies
<1>3. \A r \in Requests : task[r].status = "absent"
  BY DEF Init, Absent
<1>4. Reservations = {} /\ Researched = {}
  BY <1>3 DEF Reservations, Researched, Requests
<1>5. PICK none : none = {}
  BY Zenon
<1>6. Cardinality(none) = 0
  BY <1>5, FS_EmptySet
<1>7. Held = none /\ RecentReplies = none /\ Researched = none
  BY <1>2, <1>4, <1>5 DEF Held
<1>8. ASSUME NEW c \in Creators
      PROVE  Cardinality({k \in RecentDrafts : k[2] = c})
               + Cardinality({k \in RecentReplies : k[1] = c}) <= DraftsPerCreator
  <2>1. PICK drafts, replies : /\ drafts = {k \in RecentDrafts : k[2] = c}
                               /\ replies = {k \in RecentReplies : k[1] = c}
    OBVIOUS
  <2>2. drafts = none /\ replies = none
    BY <1>2, <1>5, <2>1
  <2>3. Cardinality(drafts) + Cardinality(replies) <= DraftsPerCreator
    BY <1>6, <2>2, Limits
  <2>4. QED
    BY <2>1, <2>3
<1>9. /\ Cardinality(Held) + Cardinality(RecentReplies) <= DailyDrafts
      /\ ResearchUsed <= DailyResearch
  BY <1>6, <1>7, Limits DEF ResearchUsed
<1>10. QED
  BY <1>8, <1>9 DEF BudgetHeld

\* The rows stay consistent with each other and with the budgets, whatever
\* people, workers, leases and the clock do in between.
THEOREM PreparationsConsistent == Spec => []IInv
<1>1. Init => IInv
  BY InitFrame, InitRows, InitBudget DEF IInv
<1>2. ASSUME IInv, [Next]_vars PROVE IInv'
  <2>1. Tasks'
    BY <1>2, TasksKept, TasksStepTaken DEF IInv
  <2>2. QED
    BY <1>2, <2>1, FrameKept, PreparedKept, LocksKept, WorkingsKept, BudgetHeldKept DEF IInv
<1>3. QED
  BY <1>1, <1>2, PTL DEF Spec

\* The tables hold what their columns may, in every reachable state.
THEOREM PreparationTyped == Spec => []TypeOK
<1>1. ASSUME IInv PROVE TypeOK
  <2>1. \A c \in Creators : creator[c] \in CreatorRow
    BY <1>1 DEF IInv, Frame
  <2>2. \A c \in Creators :
          creator[c].status \in {"absent", "open", "answered", "closed"}
          /\ creator[c].address \in Addresses \cup {None} /\ creator[c].candidates \subseteq Addresses
    BY <2>1 DEF CreatorRow
  <2>3. \A r \in Requests : task[r].lease \in 0..MaxLeases
    BY <1>1 DEF IInv, Tasks, TaskRow
  <2>4. QED
    BY <1>1, <2>2, <2>3 DEF IInv, Frame, Prepared, Locks, TypeOK
<1>2. QED
  BY <1>1, PreparationsConsistent, PTL

\* What is promised is reserved: an item without a recorded outcome has no draft.
LEMMA PromisedReserved ==
  ASSUME IInv
  PROVE  Promised \subseteq Reservations
<1>1. ASSUME NEW k \in Promised PROVE k \in Reservations
  <2>1. /\ k[1] \in Batches /\ k = <<k[1], k[2]>>
        /\ task[k[1]].status # "absent" /\ Recent(task[k[1]].at)
        /\ k[2] \in DOMAIN task[k[1]].items /\ k[2] \notin task[k[1]].done
    BY DEF Promised
  <2>2. k \notin DOMAIN draft
    BY <2>1 DEF IInv, Prepared
  <2>3. QED
    BY <2>1, <2>2, SlotRows
<1>2. QED
  BY <1>1

\* Introductions, reply drafts and promised slots of a rolling day stay within
\* their limits together, each creator's preparations within theirs, and the
\* creators researched within theirs (_draft_budget_counts, create_batch,
\* create_pilot).
THEOREM PreparationBudgets == Spec => []BudgetKept
<1>1. ASSUME IInv PROVE BudgetKept
  <2>1. IsFiniteSet(Promised) /\ IsFiniteSet(RecentDrafts) /\ IsFiniteSet(Held)
    BY <1>1, PromisedReserved, BudgetFinite, FS_Subset
  <2>2. RecentDrafts \cap Promised = {}
    BY <1>1, PromisedReserved, SlotRows DEF RecentDrafts
  <2>3. PICK both : both = RecentDrafts \cup Promised
    OBVIOUS
  <2>4. PICK common : common = RecentDrafts \cap Promised
    OBVIOUS
  <2>5. /\ Cardinality(both) = Cardinality(RecentDrafts) + Cardinality(Promised) - Cardinality(common)
        /\ Cardinality(common) = 0 /\ IsFiniteSet(both)
    BY <2>1, <2>2, <2>3, <2>4, FS_Union, FS_EmptySet
  <2>6. Cardinality(both) <= Cardinality(Held)
    BY <1>1, <2>1, <2>3, PromisedReserved, FS_Subset DEF Held
  <2>7. /\ Cardinality(Held) \in Nat /\ Cardinality(both) \in Nat
        /\ Cardinality(RecentDrafts) \in Nat /\ Cardinality(Promised) \in Nat
        /\ Cardinality(RecentReplies) \in Nat
    BY <1>1, <2>1, <2>5, BudgetFinite, FS_CardinalityType
  <2>8. Cardinality(Held) + Cardinality(RecentReplies) <= DailyDrafts
    BY <1>1 DEF IInv, BudgetHeld
  <2>9. Cardinality(RecentDrafts) + Cardinality(RecentReplies) + Cardinality(Promised) <= DailyDrafts
    BY <2>5, <2>6, <2>7, <2>8, Limits
  <2>10. Researched = {x \in Pilots \X Creators :
                        /\ task[x[1]].status # "absent" /\ Recent(task[x[1]].at)
                        /\ x[2] \in DOMAIN task[x[1]].items}
    BY DEF Researched
  <2>11. QED
    BY <1>1, <2>9, <2>10 DEF IInv, BudgetHeld, BudgetKept, ResearchUsed
<1>2. QED
  BY <1>1, PreparationsConsistent, PTL

\* Only a worker that issues a slot drafts for a batch.
LEMMA IssuedCases ==
  ASSUME IInv, [Next]_vars, NEW k \in DOMAIN draft', Issued(k)
  PROVE  \E w \in Workers :
           /\ Issue(w) /\ k = <<worker[w].task, worker[w].item>>
           /\ k \in Batches \X Creators /\ k \notin DOMAIN draft
           /\ draft'[k] = NewDraft(k[2]) /\ BatchEligible(k[2], k)
<1>1. k \notin DOMAIN draft /\ k[1] \in Batches
  BY DEF Issued
<1>2. draft' # draft /\ ~\E x \in DOMAIN draft : draft' = [draft EXCEPT ![x].live = FALSE]
  BY <1>1
<1>3. ASSUME NEW x \in PersonKeys, NEW c \in Creators, CreateDraft(x, c) PROVE FALSE
  <2>1. DOMAIN draft' = DOMAIN draft \cup {<<x, c>>}
    BY <1>3, CreateDraftAdds DEF Added, Insert
  <2>2. k[1] = x
    BY <1>1, <2>1
  <2>3. QED
    BY <1>1, <2>2, Names
<1>4. PICK w \in Workers : Issue(w)
  BY <1>2, <1>3, DraftSteps
<1>5. PICK own : own = <<worker[w].task, worker[w].item>>
  OBVIOUS
<1>6. own \in Batches \X Creators /\ Added(own) /\ BatchEligible(own[2], own)
  BY <1>2, <1>4, <1>5, IssueAdds DEF IInv
<1>7. k = own /\ draft'[k] = NewDraft(own[2])
  BY <1>1, <1>6 DEF Added, Insert
<1>8. QED
  BY <1>1, <1>4, <1>5, <1>6, <1>7

\* The slot was still as it was reserved.
LEMMA IssuedAsReserved ==
  ASSUME NEW w \in Workers, Issue(w), draft' # draft
  PROVE  LET b == worker[w].task
             c == worker[w].item
         IN  Hash(c) = task[b].items[c] /\ Clear(Identity(c)) /\ Owned(w)
<1> DEFINE b == worker[w].task
           c == worker[w].item
           reserved == edition[Home[b]] = task[b].edition /\ Hash(c) = task[b].items[c]
<1>1. /\ reserved => Clear(Identity(c))
      /\ MayRecord(w)
      /\ draft' = IF reserved /\ BatchEligible(c, <<b, c>>) /\ WithinBudget(c, <<b, c>>)
                    THEN Insert(draft, {<<b, c>>}, NewDraft(c)) ELSE draft
  BY Zenon DEF Issue
<1>2. reserved
  BY <1>1, Zenon
<1>3. QED
  BY <1>1, <1>2 DEF MayRecord

\* However long the locks are waited for, a draft comes out of a batch only
\* while its worker has the lease of a request nobody has cancelled, and for a
\* slot that is as it was reserved (_queue_reserved_child).
THEOREM IssuedByOwner == Spec => IssuedWhileOwned
<1> DEFINE Step ==
      \A k \in DOMAIN draft' :
        Issued(k) =>
          LET t == task[k[1]]
          IN  /\ t.status = "running" /\ t.valid /\ ~t.cancel
              /\ Recent(t.at) /\ k[2] \in DOMAIN t.items
              /\ draft'[k].hash = t.items[k[2]]
<1>1. IInv /\ [Next]_vars => [Step]_vars
  <2>1. ASSUME IInv, [Next]_vars, NEW k \in DOMAIN draft', Issued(k)
        PROVE  LET t == task[k[1]]
               IN  /\ t.status = "running" /\ t.valid /\ ~t.cancel
                   /\ Recent(t.at) /\ k[2] \in DOMAIN t.items
                   /\ draft'[k].hash = t.items[k[2]]
    <3>1. PICK w \in Workers :
            /\ Issue(w) /\ k = <<worker[w].task, worker[w].item>>
            /\ k \in Batches \X Creators /\ k \notin DOMAIN draft
            /\ draft'[k] = NewDraft(k[2])
      BY <2>1, IssuedCases
    <3>2. k[1] = worker[w].task /\ k[2] = worker[w].item /\ draft' # draft
      BY <2>1, <3>1
    <3>3. Hash(k[2]) = task[k[1]].items[k[2]] /\ Owned(w)
      BY <3>1, <3>2, IssuedAsReserved
    <3>4. k[2] \in DOMAIN task[k[1]].items
      BY <2>1, <3>1, <3>2, ItemTyped DEF Issue, IInv
    <3>5. /\ task[k[1]].status = "running" /\ task[k[1]].valid /\ ~task[k[1]].cancel
          /\ Recent(task[k[1]].at)
      BY <3>1, <3>2, <3>3 DEF Owned, Holds
    <3>6. draft'[k].hash = Hash(k[2])
      BY <3>1 DEF NewDraft
    <3>7. QED
      BY <3>3, <3>4, <3>5, <3>6
  <2>2. QED
    BY <2>1
<1>2. QED
  BY <1>1, PreparationsConsistent, PTL DEF Spec, IssuedWhileOwned

\* A batch drafts for nobody who has an introduction under way: no packet of the
\* creator, no packet of any row that was addressed to where the draft would
\* go, no sender at work, no current draft under the same identity
\* (_batch_eligibility when the slot is used).
THEOREM OnlyOneIntroduction == Spec => OneIntroduction
<1> DEFINE Step ==
      \A k \in DOMAIN draft' :
        Issued(k) =>
          /\ Clear(Identity(k[2]))
          /\ \A c \in Creators, a \in Addresses :
               Out(c, a) => c # k[2] /\ a # creator[k[2]].address
          /\ \A l \in DOMAIN draft :
               LiveDraft(l) /\ draft[l].hash = Hash(l[2])
                 => Identity(l[2]) \cap Identity(k[2]) = {}
<1>1. IInv /\ [Next]_vars => [Step]_vars
  <2>1. ASSUME IInv, [Next]_vars, NEW k \in DOMAIN draft', Issued(k)
        PROVE  /\ Clear(Identity(k[2]))
               /\ \A c \in Creators, a \in Addresses :
                    Out(c, a) => c # k[2] /\ a # creator[k[2]].address
               /\ \A l \in DOMAIN draft :
                    LiveDraft(l) /\ draft[l].hash = Hash(l[2])
                      => Identity(l[2]) \cap Identity(k[2]) = {}
    <3>1. PICK w \in Workers :
            /\ Issue(w) /\ k = <<worker[w].task, worker[w].item>>
            /\ k \in Batches \X Creators /\ k \notin DOMAIN draft
            /\ BatchEligible(k[2], k)
      BY <2>1, IssuedCases
    <3>2. k[1] = worker[w].task /\ k[2] = worker[w].item /\ draft' # draft
      BY <2>1, <3>1
    <3>3. Clear(Identity(k[2]))
      BY <3>1, <3>2, IssuedAsReserved
    <3>4. ~Duplicate(k[2]) /\ Identity(k[2]) \cap Occupied(k) = {}
      BY <3>1 DEF BatchEligible
    <3>5. ASSUME NEW l \in DOMAIN draft, LiveDraft(l), draft[l].hash = Hash(l[2])
          PROVE  Identity(l[2]) \subseteq Occupied(k)
      <4>1. CurrentDraft(l) /\ l # k
        BY <3>1, <3>5 DEF CurrentDraft
      <4>2. QED
        BY <4>1 DEF Occupied
    <3>6. QED
      BY <3>3, <3>4, <3>5 DEF Duplicate
  <2>2. QED
    BY <2>1
<1>2. QED
  BY <1>1, PreparationsConsistent, PTL DEF Spec, OneIntroduction

\* Who writes a new version of a creator, and under which conditions.
LEMMA VersionCases ==
  ASSUME IInv, [Next]_vars, NEW c \in Creators, creator'[c].version # creator[c].version
  PROVE  \/ creator'[c].by = None
         \/ Discover(c) /\ creator'[c].by = "discovery"
         \/ \E w \in Workers :
              /\ SaveResearch(w) /\ c = worker[w].item /\ worker[w].task \in Requests
              /\ creator'[c].by = worker[w].task /\ creator'[c].candidates = worker[w].found
<1>1. creator \in [Creators -> CreatorRow] /\ creator[c] \in CreatorRow
  BY DEF IInv, Frame
<1>2. ASSUME NEW w \in Workers, (\E r \in Requests : Claim(w, r)) \/ Work(w) \/ Crash(w)
      PROVE  /\ SaveResearch(w) /\ c = worker[w].item /\ worker[w].task \in Requests
             /\ creator'[c].by = worker[w].task /\ creator'[c].candidates = worker[w].found
  <2>1. SaveResearch(w)
    BY <1>2, WorkerTouches
  <2>2. worker[w].item \in Creators /\ worker[w].task \in Requests
    BY <2>1, ItemTyped DEF SaveResearch, IInv
  <2>3. PICK item, found, by : item = worker[w].item /\ found = worker[w].found /\ by = worker[w].task
    OBVIOUS
  <2>4. creator' = [creator EXCEPT ![item] = [Merged(item, found) EXCEPT !.by = by]]
    BY <2>1, <2>3, Zenon DEF SaveResearch
  <2>5. c = item
    BY <1>1, <2>4
  <2>6. worker[w].found \in SUBSET Addresses
    BY DEF IInv, Workings, WorkerRow
  <2>7. PICK new : new = Merged(item, found)
    OBVIOUS
  <2>8. new \in CreatorRow
    BY <2>2, <2>3, <2>6, <2>7, MergedTyped DEF IInv
  <2>9. new.candidates = found
    <3>1. new = [creator[item] EXCEPT !.version = @ + 1, !.candidates = found]
      BY <2>7, Zenon DEF Merged
    <3>2. QED
      BY <1>1, <2>5, <3>1 DEF CreatorRow
  <2>10. creator'[c] = [new EXCEPT !.by = by]
    BY <1>1, <2>4, <2>5, <2>7
  <2>11. creator'[c].by = by /\ creator'[c].candidates = found
    BY <2>8, <2>9, <2>10 DEF CreatorRow
  <2>12. QED
    BY <2>1, <2>2, <2>3, <2>5, <2>11
<1>3. ASSUME NEW r \in Requests, CancelTask(r) \/ LeaseRunsOut(r) \/ Recover(r)
      PROVE  creator' = creator
  BY <1>3, RequestsTouch DEF facts
<1>4. Drafts \/ Apply => creator' = creator
  BY DraftsTouch, ApplyTouches DEF facts
<1>5. Tick \/ UNCHANGED vars \/ EndSend => creator' = creator
  BY DEF Tick, vars, facts, EndSend
<1>6. ASSUME NEW d \in Creators, StartSend(d) PROVE creator' = creator
  BY <1>6 DEF StartSend, facts
<1>7. ASSUME NEW d \in Creators, NEW a \in Addresses, PacketEnds(d, a) PROVE creator' = creator
  <2>1. UNCHANGED <<scenario, edition, creator, packed, sender, prepared, task, worker, budget, applying, clock>>
    BY <1>7, Zenon DEF PacketEnds
  <2>2. QED
    BY <2>1
<1>8. ASSUME NEW g \in Campaigns, EditCampaign(g) PROVE creator' = creator
  <2>1. UNCHANGED <<scenario, creator, contact, packed, sender, prepared, task, worker, budget, applying, clock>>
    BY <1>8, Zenon DEF EditCampaign
  <2>2. QED
    BY <2>1
<1>9. ASSUME NEW d \in Creators, AddCreator(d) PROVE FALSE
  <2>1. PICK a \in Addresses :
          creator' = [creator EXCEPT ![d] = [@ EXCEPT !.status = "open", !.address = a]]
    BY <1>9, Zenon DEF AddCreator
  <2>2. QED
    BY <1>1, <2>1 DEF CreatorRow
<1>10. ASSUME NEW d \in Creators, Close(d) PROVE FALSE
  <2>1. creator' = [creator EXCEPT ![d].status = "closed"]
    BY <1>10, Zenon DEF Close
  <2>2. QED
    BY <1>1, <2>1 DEF CreatorRow
<1>11. ASSUME NEW d \in Creators, Refresh(d) PROVE creator'[c].by = None
  <2>1. PICK found \in scenario.finds :
          creator' = [creator EXCEPT ![d] = [Merged(d, found) EXCEPT !.by = None]]
    BY <1>11, Zenon DEF Refresh
  <2>2. PICK new : new = Merged(d, found)
    OBVIOUS
  <2>3. new \in CreatorRow
    BY <2>2, SceneTyped, MergedTyped DEF IInv, Frame
  <2>4. creator' = [creator EXCEPT ![d] = [new EXCEPT !.by = None]]
    BY <2>1, <2>2, Zenon
  <2>5. QED
    BY <1>1, <2>3, <2>4 DEF CreatorRow
<1>12. ASSUME NEW d \in Creators, EditCreator(d) PROVE creator'[c].by = None
  <2>1. PICK old : old = creator[d]
    OBVIOUS
  <2>2. PICK a \in Addresses, evidence \in {old.candidates, {}} :
          creator' = [creator EXCEPT ![d] = [old EXCEPT
            !.version = old.version + 1, !.by = None, !.address = a, !.candidates = evidence]]
    BY <1>12, <2>1, Zenon DEF EditCreator
  <2>3. old \in CreatorRow
    BY <1>1, <2>1
  <2>4. QED
    BY <1>1, <2>2, <2>3 DEF CreatorRow
<1>13. ASSUME NEW d \in Creators, Discover(d)
       PROVE  Discover(c) /\ creator'[c].by = "discovery"
  <2>1. PICK found \in scenario.finds :
          creator' = [creator EXCEPT ![d] = [Merged(d, found) EXCEPT
            !.by = "discovery", !.status = IF @ = "absent" THEN "open" ELSE @]]
    BY <1>13, Zenon DEF Discover
  <2>2. PICK new : new = Merged(d, found)
    OBVIOUS
  <2>3. new \in CreatorRow
    BY <2>2, SceneTyped, MergedTyped DEF IInv, Frame
  <2>4. PICK status : status = IF new.status = "absent" THEN "open" ELSE new.status
    OBVIOUS
  <2>5. creator' = [creator EXCEPT ![d] = [new EXCEPT !.by = "discovery", !.status = status]]
    BY <2>1, <2>2, <2>4, Zenon
  <2>6. c = d
    BY <1>1, <2>5
  <2>7. creator'[c].by = "discovery"
    BY <1>1, <2>3, <2>5, <2>6 DEF CreatorRow
  <2>8. QED
    BY <1>13, <2>6, <2>7
<1>14. ASSUME People \/ (\E d \in Creators : Discover(d))
       PROVE  creator' = creator \/ creator'[c].by = None
              \/ (Discover(c) /\ creator'[c].by = "discovery")
  BY <1>5, <1>6, <1>7, <1>8, <1>9, <1>10, <1>11, <1>12, <1>13, <1>14, Zenon DEF People
<1>15. QED
  BY <1>2, <1>3, <1>4, <1>5, <1>14 DEF Next

\* An explicit selection saves under locked identities nobody is busy with.
LEMMA SavedExplicitly ==
  ASSUME IInv, NEW w \in Workers, SaveResearch(w), task[worker[w].task].explicit
  PROVE  LET c == worker[w].item
             keys == Known(c) \cup worker[w].found
         IN  /\ Clear(SenderKeys(keys))
             /\ \A d \in Creators, a \in worker[w].found \cap Addresses : contact[d][a] = "none"
             /\ \A d \in Creators : Known(d) \cap keys # {} =>
                  /\ Unwritten(d) /\ ~Protected(d)
                  /\ \A k \in Reservations : k[2] # d
<1> DEFINE c == worker[w].item
           keys == Known(c) \cup worker[w].found
<1>1. /\ Clear(worker[w].keys)
      /\ Eligible({c}, worker[w].found, worker[w].keys, worker[w].task)
  BY DEF SaveResearch, MaySave
<1>2. KnownOf({c}) = Known(c)
  BY DEF KnownOf
<1>3. SenderKeys(keys) \subseteq worker[w].keys /\ ~Conflict(keys, worker[w].task)
  BY <1>1, <1>2 DEF Eligible
<1>4. Clear(SenderKeys(keys))
  BY <1>1, <1>3 DEF Clear
<1>5. ASSUME NEW d \in Creators, Known(d) \cap keys # {}
      PROVE  Unwritten(d) /\ ~Protected(d) /\ \A k \in Reservations : k[2] # d
  <2>1. d \in Matching(keys)
    BY <1>5 DEF Matching
  <2>2. QED
    BY <1>3, <2>1 DEF Conflict
<1>6. \A d \in Creators, a \in worker[w].found \cap Addresses : contact[d][a] = "none"
  BY <1>3 DEF Conflict
<1>7. QED
  BY <1>4, <1>5, <1>6

\* Discovery leaves creators under an introduction alone, and research of an
\* explicit selection saves nothing while somebody known by one of its
\* addresses is prepared for or written to (_discovery_evidence_protected,
\* _explicit_group_ineligibility).
THEOREM EvidenceRemains == Spec => EvidenceStands
<1> DEFINE Saved(c) ==
      /\ creator'[c].by = "discovery" =>
           /\ \A a \in Addresses : contact[c][a] # "pending"
           /\ \A k \in DOMAIN draft \ packed : k[2] = c => ~LiveDraft(k)
      /\ creator'[c].by \in Pilots /\ task[creator'[c].by].explicit =>
           /\ Clear(SenderKeys(Known(c) \cup creator'[c].candidates))
           /\ \A d \in Creators, a \in creator'[c].candidates : contact[d][a] = "none"
           /\ \A d \in Creators :
                Known(d) \cap (Known(c) \cup creator'[c].candidates) # {} =>
                  /\ Unwritten(d)
                  /\ \A k \in DOMAIN draft \ packed : k[2] = d => ~LiveDraft(k)
                  /\ \A k \in Promised : k[2] # d
<1>1. IInv /\ [Next]_vars =>
        [\A c \in Creators : creator'[c].version # creator[c].version => Saved(c)]_vars
  <2>1. ASSUME IInv, [Next]_vars, NEW c \in Creators, creator'[c].version # creator[c].version
        PROVE  Saved(c)
    <3>1. None # "discovery" /\ None \notin Pilots /\ "discovery" \notin Requests
          /\ Pilots \subseteq Requests
      BY Names DEF Requests
    <3>2. CASE creator'[c].by = None
      BY <3>1, <3>2
    <3>3. CASE Discover(c) /\ creator'[c].by = "discovery"
      <4>1. ~Protected(c)
        BY <3>3, Zenon DEF Discover
      <4>2. QED
        BY <3>1, <3>3, <4>1 DEF Protected
    <3>4. ASSUME NEW w \in Workers, SaveResearch(w), c = worker[w].item,
                 worker[w].task \in Requests, creator'[c].by = worker[w].task,
                 creator'[c].candidates = worker[w].found
          PROVE  Saved(c)
      <4>1. ASSUME task[worker[w].task].explicit
            PROVE  LET keys == Known(c) \cup creator'[c].candidates
                   IN  /\ Clear(SenderKeys(keys))
                       /\ \A d \in Creators, a \in creator'[c].candidates : contact[d][a] = "none"
                       /\ \A d \in Creators : Known(d) \cap keys # {} =>
                            /\ Unwritten(d) /\ ~Protected(d)
                            /\ \A k \in Reservations : k[2] # d
        <5>1. worker[w].found \subseteq Addresses
          BY <2>1 DEF IInv, Workings, WorkerRow
        <5>2. QED
          BY <2>1, <3>4, <4>1, <5>1, SavedExplicitly
      <4>2. QED
        BY <2>1, <3>1, <3>4, <4>1, PromisedReserved DEF Protected
    <3>5. QED
      BY <2>1, <3>2, <3>3, <3>4, VersionCases
  <2>2. QED
    BY <2>1
<1>2. QED
  BY <1>1, PreparationsConsistent, PTL DEF Spec, EvidenceStands
=============================================================================
