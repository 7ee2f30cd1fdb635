-------------------------- MODULE CreatorPreparation --------------------------
(***************************************************************************)
(* What is prepared for creators before anybody writes to them: single     *)
(* introduction drafts (creator_draft_store.py), batches of them that a    *)
(* worker issues from reserved slots (creator_draft_batch_store.py), reply *)
(* drafts (creator_reply_draft_store.py), and pilot research of selected   *)
(* creators (creator_pilot_store.py, creator_pilot_runner.py).  They share *)
(* a budget per rolling day under one advisory lock, and the identities of *)
(* the creators with the sender of the introductions (marketing.py).       *)
(*                                                                         *)
(* One action is one transaction, except the two transactions of a worker  *)
(* and the one of an explicit selection that may wait for locks while      *)
(* leases run out and other transactions commit: those are two actions.    *)
(* A creator is a row of one campaign; rows share an identity when they    *)
(* share an address.  What a draft or a profile says is a version number.  *)
(***************************************************************************)
EXTENDS Integers, FiniteSets, FiniteSetsExt, Functions

CONSTANTS
  Creators,        \* rows of marketing_prospects
  Batches, Pilots, \* idempotency keys of the two kinds of requests
  PersonKeys,      \* idempotency keys of single drafts
  Home,            \* campaign of a creator or a request
  Addresses, Workers, None,
  DailyDrafts, DraftsPerCreator, MaxBatch,  \* 30, 3, MAX_BATCH
  DailyResearch, MaxResearch,               \* DAILY_CREATORS, MAX_CREATORS
  PerSync,         \* reply drafts one mailbox sync may create: 3
  Day,             \* ticks of the clock in 24 hours
  LastHour,        \* bound: ticks that pass
  MaxLeases,       \* capability_max_attempts
  MaxChanges,      \* bound: what people do, crashes, leases that run out
  Scenarios        \* bound: where the system starts and what may happen

Requests == Batches \cup Pilots
Campaigns == Range(Home)

ASSUME PreparationAssumption ==
  /\ DOMAIN Home = Creators \cup Requests /\ IsFiniteSet(Creators)
  /\ None \notin Creators \cup Requests \cup Workers \cup ((Requests \cup PersonKeys) \X Creators) \cup {"discovery"}
  /\ Batches \cap (Pilots \cup PersonKeys) = {} /\ "discovery" \notin Requests
  /\ {DailyDrafts, DraftsPerCreator, MaxBatch, DailyResearch, MaxResearch,
      PerSync, Day, LastHour, MaxChanges} \subseteq Nat
  /\ MaxLeases \in Nat \ {0}
  /\ Scenarios \subseteq
       [requests: SUBSET Requests, status: [Creators -> {"absent", "open", "answered"}],
        address: [Creators -> Addresses], may: SUBSET STRING, changes: 0..MaxChanges,
        hours: 0..LastHour, workers: SUBSET Workers, finds: SUBSET SUBSET Addresses]

VARIABLES
  scenario,
  edition,   \* edition[g]: version of campaign g
  creator,   \* marketing_prospects: version, status, address (None: no contact_email),
             \* the addresses of the contact_candidates, and by: who wrote last
  contact,   \* marketing_outreach_messages: the state of a creator's packet to the
             \* address that is stored in it
  packed,    \* creator_email_drafts.action_id: drafts that became packets
  sender,    \* plan_outreach_email between its identity locks and its commit
  draft,     \* creator_email_drafts by idempotency key
  reply,     \* creator_reply_drafts by creator, input hash and attempt
  task,      \* agent_tasks of the requests, with payload and recorded items
  worker,
  budget,    \* who holds the advisory lock 'creator-draft-budget'
  applying,  \* an explicit selection that waits for its identity locks
  clock, changes

facts == <<edition, creator, contact, packed>>
prepared == <<draft, reply>>
vars == <<scenario, facts, sender, prepared, task, worker, budget, applying, clock, changes>>

Absent == [status |-> "absent", lease |-> 0, valid |-> FALSE, cancel |-> FALSE, at |-> 0,
           edition |-> 0, items |-> <<>>, done |-> {}, explicit |-> FALSE]
Idle == [step |-> "idle", task |-> None, lease |-> 0, left |-> {}, item |-> None,
         found |-> {}, keys |-> {}, quota |-> FALSE]

Init ==
  /\ scenario \in Scenarios
  /\ edition = [g \in Campaigns |-> 0]
  /\ creator = [c \in Creators |-> [version |-> 0, by |-> None,
       status |-> scenario.status[c], candidates |-> {},
       address |-> IF scenario.status[c] = "absent" THEN None ELSE scenario.address[c]]]
  /\ contact = [c \in Creators |-> [a \in Addresses |->
       IF scenario.status[c] = "answered" /\ a = scenario.address[c] THEN "sent" ELSE "none"]]
  /\ packed = {}
  /\ sender = None
  /\ draft = <<>> /\ reply = <<>>
  /\ task = [r \in Requests |-> Absent]
  /\ worker = [w \in Workers |-> Idle]
  /\ budget = None /\ applying = None
  /\ clock = 0 /\ changes = 0

Change == changes < scenario.changes /\ changes' = changes + 1
May(what) == what \in scenario.may
Recent(at) == at + Day > clock
\* New rows of a table; those that are there stay.
Insert(table, keys, row) ==
  [k \in DOMAIN table \cup keys |-> IF k \in DOMAIN table THEN table[k] ELSE row]

-----------------------------------------------------------------------------
(* Identities, rows and their locks.                                       *)

\* creator_identity_keys; the keys outreach_duplicate_action locks
Identity(c) ==
  IF creator[c].status = "absent" THEN {} ELSE {c} \cup ({creator[c].address} \ {None})
\* research_identity
Known(c) == Identity(c) \cup creator[c].candidates
\* _matching_creators of somebody known by these keys
Matching(keys) == {d \in Creators : Known(d) \cap keys # {}}
\* A packet that may still go out, or has; no packet at all.
Out(c, a) == contact[c][a] \in {"pending", "sent"}
Unwritten(c) == \A a \in Addresses : contact[c][a] = "none"
\* _explicit_sender_keys, with those of the matching creators
SenderKeys(keys) == keys \cup UNION {Known(d) : d \in Matching(keys)}
KnownOf(picks) == UNION {Known(c) : c \in picks}
\* No two of them share a key, given the keys of each.
Apart(S, keys) == \A c, d \in S : keys[c] \cap keys[d] # {} => c = d

\* outreach_duplicate_action waits for the sender that holds one of the keys.
Clear(keys) == sender # None => sender.keys \cap keys = {}

Saving(g) == {w \in Workers : worker[w].step = "saving" /\ Home[worker[w].task] = g}
\* FOR SHARE of the campaign, and FOR UPDATE of campaign and creator.
MayShare(g) == sender # None => Home[sender.creator] # g
MayLock(g) ==
  MayShare(g) /\ Saving(g) = {} /\ (applying # None => Home[applying.pilot] # g)
TaskLocked(r) == \E w \in Workers : worker[w].task = r /\ worker[w].step \in {"slot", "saving"}

-----------------------------------------------------------------------------
(* The budget of a rolling day.                                            *)

Hash(c) == <<edition[Home[c]], creator[c].version>>

LiveDraft(k) == draft[k].live /\ Recent(draft[k].at)
\* A live draft whose context is what it was.
CurrentDraft(k) == LiveDraft(k) /\ draft[k].hash = Hash(k[2])

Slots(b) == {<<b, c>> : c \in DOMAIN task[b].items}

\* Mutant of Reservations: slots of a batch nobody works on are free.
ReservationsRunning ==
  UNION {Slots(b) \ DOMAIN draft : b \in {b \in Batches : task[b].status = "running"}}

\* "Count issued batch slots until materialization, including stopped batches."
Reservations ==
  UNION {Slots(b) \ DOMAIN draft :
         b \in {b \in Batches : task[b].status # "absent" /\ Recent(task[b].at)}}

RecentDrafts == {k \in DOMAIN draft : Recent(draft[k].at)}
RecentReplies == {k \in DOMAIN reply : Recent(reply[k])}

\* _draft_budget_counts: "total" and "creator", without the caller's own slot
Total(own) ==
  Cardinality(RecentDrafts) + Cardinality(RecentReplies) + Cardinality(Reservations \ {own})
For(c, own) ==
  Cardinality({k \in RecentDrafts : k[2] = c}) + Cardinality({k \in RecentReplies : k[1] = c})
    + Cardinality({k \in Reservations \ {own} : k[2] = c})
WithinBudget(c, own) == Total(own) < DailyDrafts /\ For(c, own) < DraftsPerCreator

\* The row of a draft whose task was just created.
NewDraft(c) == [hash |-> Hash(c), at |-> clock, live |-> TRUE]

\* _eligible: somebody with a reviewed contact.
Draftable(c) == creator[c].status = "open" /\ creator[c].address # None

\* create_draft; a key that is there returns its row.
CreateDraft(k, c) ==
  /\ May("draft")
  /\ budget = None /\ MayLock(Home[c])
  /\ \A d \in Creators : <<k, d>> \notin DOMAIN draft
  /\ Draftable(c) /\ WithinBudget(c, None)
  /\ draft' = Insert(draft, {<<k, c>>}, NewDraft(c))
  /\ UNCHANGED <<scenario, facts, sender, reply, task, worker, budget, applying, clock, changes>>

\* The drafting task fails, is cancelled or dead-lettered.
DraftEnds(k) ==
  /\ May("draft ends") /\ Change
  /\ draft[k].live
  /\ draft' = [draft EXCEPT ![k].live = FALSE]
  /\ UNCHANGED <<scenario, facts, sender, reply, task, worker, budget, applying, clock>>

ReplyKey(c, n) == <<c, Hash(c), n>>
\* _reply_context, and no row of this input yet
ReplyWaits(c) == creator[c].status = "answered" /\ ReplyKey(c, 1) \notin DOMAIN reply

\* queue_reply_draft
CreateReply(c) ==
  /\ May("reply")
  /\ budget = None /\ MayLock(Home[c])
  /\ ReplyWaits(c) /\ WithinBudget(c, None)
  /\ reply' = Insert(reply, {ReplyKey(c, 1)}, clock)
  /\ UNCHANGED <<scenario, facts, sender, draft, task, worker, budget, applying, clock, changes>>

\* queue_reply_draft_retry: one recovery of a draft that failed; when it may be
\* asked for is modelled in InferenceTasks.
RetryReply(c) ==
  /\ May("reply")
  /\ budget = None /\ MayLock(Home[c])
  /\ creator[c].status = "answered"
  /\ ReplyKey(c, 1) \in DOMAIN reply /\ ReplyKey(c, 2) \notin DOMAIN reply
  /\ WithinBudget(c, None)
  /\ reply' = Insert(reply, {ReplyKey(c, 2)}, clock)
  /\ UNCHANGED <<scenario, facts, sender, draft, task, worker, budget, applying, clock, changes>>

\* queue_automatic_reply_drafts after a completed sync: the newest replies of a
\* campaign that still need a draft, as far as PerSync and the budget go.
AutomaticReplies(g) ==
  /\ May("sync")
  /\ budget = None /\ MayLock(g)
  /\ LET waiting == {c \in Creators : Home[c] = g /\ ReplyWaits(c)
                                       /\ For(c, None) < DraftsPerCreator}
         room    == Min({PerSync, Cardinality(waiting), Max({DailyDrafts - Total(None), 0})})
     IN  /\ room > 0
         /\ \E S \in kSubset(room, waiting) :
              reply' = Insert(reply, {ReplyKey(c, 1) : c \in S}, clock)
  /\ UNCHANGED <<scenario, facts, sender, draft, task, worker, budget, applying, clock, changes>>

-----------------------------------------------------------------------------
(* Batches of introduction drafts.                                         *)

\* _occupied_identities
Occupied(own) ==
  UNION {Identity(k[2]) : k \in (Reservations \cup {k \in DOMAIN draft : CurrentDraft(k)}) \ {own}}

\* Mutant of Duplicate: the address of the row of a packet, not the packet's own.
DuplicateNow(c) ==
  \E d \in Creators, a \in Addresses : Out(d, a) /\ Identity(d) \cap Identity(c) # {}

\* outreach_duplicate_action: a packet of the row itself, or one whose stored
\* recipient is the address the row has now.
Duplicate(c) ==
  \E d \in Creators, a \in Addresses : Out(d, a) /\ (d = c \/ a = creator[c].address)

\* Mutant of BatchEligible: what was checked when the slot was reserved.
BatchEligibleOnce(c, own) ==
  Draftable(c) /\ (own = None => Identity(c) \cap Occupied(own) = {})

\* _batch_eligibility, with _has_current_draft
BatchEligible(c, own) ==
  /\ Draftable(c)
  /\ ~Duplicate(c)
  /\ Identity(c) \cap Occupied(own) = {}

\* The rows create_batch goes through, and those it may choose.
Considered(g) ==
  {c \in Creators : /\ Home[c] = g /\ Draftable(c)
                    /\ \A k \in Reservations : k[2] # c
                    /\ Cardinality({k \in RecentDrafts : k[2] = c}) < DraftsPerCreator}
Candidates(g) == {c \in Considered(g) : BatchEligible(c, None)}

\* create_batch.  Which of the rows come first is a score; those that share an
\* identity with a chosen one are passed over.  It waits for the senders of the
\* rows it comes to: all of them, unless it finds enough.
CreateBatch(b, limit) ==
  LET g    == Home[b]
      keys == [c \in Creators |-> Identity(c)]
      most == Min({limit, DailyDrafts - Total(None)})
      fit  == {S \in SUBSET Candidates(g) : Cardinality(S) \in 1..most /\ Apart(S, keys)}
  IN  /\ budget = None /\ MayLock(g)
      /\ task[b].status = "absent"
      /\ \E S \in fit :
           /\ Clear(UNION {Identity(c) : c \in IF Cardinality(S) = most THEN S ELSE Considered(g)})
           /\ Cardinality(S) = most \/ \A c \in Candidates(g) \ S : ~Apart(S \cup {c}, keys)
           /\ task' = [task EXCEPT ![b] = [Absent EXCEPT
                !.status = "queued", !.at = clock, !.edition = edition[g],
                !.items = [c \in S |-> Hash(c)]]]
      /\ UNCHANGED <<scenario, facts, sender, prepared, worker, budget, applying, clock, changes>>

-----------------------------------------------------------------------------
(* Pilot research of selected creators.                                    *)

Active(r) == task[r].status \in {"queued", "running"}

\* _discovery_evidence_protected: a draft that became a packet protects as long
\* as the packet does.
Protected(c) ==
  \/ \E a \in Addresses : contact[c][a] = "pending"
  \/ \E k \in DOMAIN draft \ packed : k[2] = c /\ LiveDraft(k)

\* _explicit_conflict of somebody known by these keys; own is the pilot that asks.
Conflict(keys, own) ==
  \/ \E d \in Creators, a \in Addresses \cap keys : contact[d][a] # "none"
  \/ \E d \in Matching(keys) :
       \/ creator[d].status = "closed" \/ ~Unwritten(d) \/ Protected(d)
       \/ \E k \in Reservations : k[2] = d
       \/ \E p \in Pilots \ {own} : Active(p) /\ d \in DOMAIN task[p].items

\* One place for each creator of an audit of the day: their number is the sum
\* of batch_size.
Researched ==
  {x \in Pilots \X Creators :
     LET t == task[x[1]]
     IN  t.status # "absent" /\ Recent(t.at) /\ x[2] \in DOMAIN t.items}

ResearchUsed == Cardinality(Researched)

NewPilot(p, S, chosen) ==
  /\ ResearchUsed + Cardinality(S) <= DailyResearch
  /\ task' = [task EXCEPT ![p] = [Absent EXCEPT
       !.status = "queued", !.at = clock, !.edition = edition[Home[p]],
       !.items = [c \in S |-> Hash(c)], !.explicit = chosen]]

\* Under the lock 'creator-pilot-budget'; one active pilot per campaign.
MayApply(p) ==
  /\ applying = None /\ MayShare(Home[p])
  /\ task[p].status = "absent"
  /\ ~\E q \in Pilots : Home[q] = Home[p] /\ Active(q)

\* create_pilot with _automatic_candidates
CreatePilot(p, limit) ==
  LET pool == {c \in Creators : Home[c] = Home[p] /\ creator[c].status = "open"
                                                  /\ Unwritten(c)}
  IN  /\ May("automatic") /\ MayApply(p) /\ pool # {}
      /\ \E S \in kSubset(Min({limit, Cardinality(pool)}), pool) : NewPilot(p, S, FALSE)
      /\ UNCHANGED <<scenario, facts, sender, prepared, worker, budget, applying, clock, changes>>

\* create_pilot with prospect_ids, up to the wait in _lock_explicit_identities.
ApplyExplicit(p, picks) ==
  /\ May("explicit") /\ MayApply(p) /\ budget = None
  /\ \A c \in picks : Home[c] = Home[p] /\ creator[c].status = "open"
  /\ Apart(picks, [c \in picks |-> Known(c)]) /\ Saving(Home[p]) = {}
  /\ applying' = [pilot |-> p, picks |-> picks, keys |-> SenderKeys(KnownOf(picks))]
  /\ budget' = p
  /\ UNCHANGED <<scenario, facts, sender, prepared, task, worker, clock, changes>>

\* Mutant of Eligible: what the last checkpoint saw, if nobody new appeared.
EligibleBefore(picks, found, held, own) ==
  /\ SenderKeys(KnownOf(picks) \cup found) \subseteq held
  /\ \A c \in picks : creator[c].status = "open"

\* _explicit_group_ineligibility once the locks are held: what is known is read
\* again, and never extended.  found are addresses that research just found.
Eligible(picks, found, held, own) ==
  /\ SenderKeys(KnownOf(picks) \cup found) \subseteq held
  /\ \A c \in picks : creator[c].status = "open" /\ ~Conflict(Known(c) \cup found, own)

\* The rest of create_pilot, or its refusal.
CreateExplicit ==
  LET p == applying.pilot
  IN  /\ applying # None /\ Clear(applying.keys)
      /\ \/ /\ Eligible(applying.picks, {}, applying.keys, p)
            /\ NewPilot(p, applying.picks, TRUE)
         \/ /\ ~Eligible(applying.picks, {}, applying.keys, p)
               \/ ResearchUsed + Cardinality(applying.picks) > DailyResearch
            /\ UNCHANGED task
      /\ applying' = None /\ budget' = None
      /\ UNCHANGED <<scenario, facts, sender, prepared, worker, clock, changes>>

-----------------------------------------------------------------------------
(* The worker and its lease.                                               *)

Claim(w, r) ==
  /\ w \in scenario.workers
  /\ worker[w].step = "idle" /\ task[r].status = "queued"
  /\ task' = [task EXCEPT ![r] = [task[r] EXCEPT !.status = "running", !.valid = TRUE,
                                                 !.lease = task[r].lease + 1]]
  /\ worker' = [worker EXCEPT ![w] = [Idle EXCEPT !.step = "start", !.task = r,
                                                  !.lease = task[r].lease + 1]]
  /\ UNCHANGED <<scenario, facts, sender, prepared, budget, applying, clock, changes>>

Holds(w) ==
  LET t == task[worker[w].task]
  IN  t.status = "running" /\ t.lease = worker[w].lease

\* _owned_batch of a batch, _owned_task of a pilot
Owned(w) ==
  LET r == worker[w].task
  IN  /\ Holds(w) /\ task[r].valid /\ ~task[r].cancel
      /\ r \in Batches => Recent(task[r].at)

\* _context: what a pilot may still look at.  An explicit selection is checked
\* again as when it was made; its save waits for the locks, see SaveResearch.
PilotMay(w, c) ==
  LET r == worker[w].task
  IN  /\ Owned(w)
      /\ edition[Home[r]] = task[r].edition
      /\ creator[c].status = "open" /\ Unwritten(c)

Passes(w, c) ==
  LET r == worker[w].task
  IN  PilotMay(w, c) /\ (task[r].explicit => Clear(SenderKeys(Known(c))) /\ ~Conflict(Known(c), r))

\* The exception leaves execute_batch or execute_creator_pilot; fail_task or
\* finalize_cancellation, or nothing when the lease is gone.
Stop(w) ==
  LET r == worker[w].task
  IN  /\ task' = [task EXCEPT ![r].status =
           IF Holds(w) /\ task[r].cancel THEN "cancelled"
           ELSE IF Holds(w) /\ task[r].valid THEN "failed" ELSE @]
      /\ worker' = [worker EXCEPT ![w] = Idle]
      /\ budget' = IF budget = w THEN None ELSE budget
      /\ UNCHANGED <<scenario, facts, sender, prepared, applying, clock, changes>>

After(w, c) ==
  worker' = [worker EXCEPT ![w] = [worker[w] EXCEPT
    !.step = "next", !.left = worker[w].left \ {c}, !.item = None, !.found = {}, !.keys = {}]]

\* The first checkpoint reads the payload.
Begin(w) ==
  LET r == worker[w].task
  IN  /\ worker[w].step = "start" /\ Owned(w)
      /\ r \in Pilots => edition[Home[r]] = task[r].edition
      /\ worker' = [worker EXCEPT ![w] = [@ EXCEPT !.step = "next", !.left = DOMAIN task[r].items]]
      /\ UNCHANGED <<scenario, facts, sender, prepared, task, budget, applying, clock, changes>>

\* A checkpoint between two items, or one of a callback, fails.
Fail(w) ==
  LET r == worker[w].task
  IN  /\ worker[w].step \in {"start", "next", "fetch", "save"}
      /\ \/ ~Owned(w)
         \/ r \in Pilots /\ edition[Home[r]] # task[r].edition
         \/ r \in Pilots /\ \E c \in IF worker[w].step = "next" THEN worker[w].left
                                                              ELSE {worker[w].item} \ {None} :
              ~PilotMay(w, c) \/ (task[r].explicit /\ Clear(SenderKeys(Known(c))) /\ Conflict(Known(c), r))
      /\ Stop(w)

\* The last checkpoint, and complete_task.
Finish(w) ==
  LET r == worker[w].task
  IN  /\ worker[w].step = "next" /\ worker[w].left = {} /\ Owned(w)
      /\ r \in Pilots => edition[Home[r]] = task[r].edition
      /\ task' = [task EXCEPT ![r].status = "succeeded"]
      /\ worker' = [worker EXCEPT ![w] = Idle]
      /\ UNCHANGED <<scenario, facts, sender, prepared, budget, applying, clock, changes>>

-----------------------------------------------------------------------------
(* execute_batch                                                           *)

\* A recorded outcome is returned as it is.
Recorded(w, c) ==
  /\ worker[w].step = "next" /\ worker[w].task \in Batches /\ c \in worker[w].left
  /\ Owned(w) /\ budget = None
  /\ c \in task[worker[w].task].done
  /\ After(w, c)
  /\ UNCHANGED <<scenario, facts, sender, prepared, task, budget, applying, clock, changes>>

\* _queue_reserved_child up to the locks of the campaign, the creator and its
\* identities.
TakeSlot(w, c) ==
  /\ worker[w].step = "next" /\ worker[w].task \in Batches /\ c \in worker[w].left
  /\ Owned(w) /\ budget = None
  /\ c \notin task[worker[w].task].done
  /\ budget' = w
  /\ worker' = [worker EXCEPT ![w] = [@ EXCEPT !.step = "slot", !.item = c]]
  /\ UNCHANGED <<scenario, facts, sender, prepared, task, applying, clock, changes>>

\* Mutant of MayRecord: ownership was checked before the locks.
MayRecordBefore(w) == Holds(w)

\* "Locks may wait longer than the execution lease.  Never issue a child
\* afterwards."
MayRecord(w) == Owned(w)

\* The rest of _queue_reserved_child: a draft, or an item that is skipped.
\* A skipped item keeps its slot.
Issue(w) ==
  LET b   == worker[w].task
      c   == worker[w].item
      own == <<b, c>>
      asReserved == edition[Home[b]] = task[b].edition /\ Hash(c) = task[b].items[c]
  IN  /\ worker[w].step = "slot"
      /\ MayLock(Home[b]) /\ (asReserved => Clear(Identity(c)))
      /\ MayRecord(w)
      /\ draft' = IF asReserved /\ BatchEligible(c, own) /\ WithinBudget(c, own)
                    THEN Insert(draft, {own}, NewDraft(c)) ELSE draft
      /\ task' = [task EXCEPT ![b].done = @ \cup {c}]
      /\ After(w, c)
      /\ budget' = None
      /\ UNCHANGED <<scenario, facts, sender, reply, applying, clock, changes>>

\* The transaction is rolled back.
SlotLost(w) == worker[w].step = "slot" /\ ~MayRecord(w) /\ Stop(w)

-----------------------------------------------------------------------------
(* execute_creator_pilot                                                   *)

\* The checkpoint before the requests; none is sent after a quota answer.
Look(w, c) ==
  /\ worker[w].step = "next" /\ worker[w].task \in Pilots /\ c \in worker[w].left
  /\ Passes(w, c) /\ (task[worker[w].task].explicit => budget = None)
  /\ IF worker[w].quota THEN After(w, c)
     ELSE worker' = [worker EXCEPT ![w] = [@ EXCEPT !.step = "fetch", !.item = c]]
  /\ UNCHANGED <<scenario, facts, sender, prepared, task, budget, applying, clock, changes>>

\* fetch_youtube_prospect and its checkpoints
Fetch(w) ==
  /\ worker[w].step = "fetch"
  /\ \/ /\ Passes(w, worker[w].item)
        /\ \E found \in scenario.finds :
             worker' = [worker EXCEPT ![w] = [@ EXCEPT !.step = "save", !.found = found]]
     \/ After(w, worker[w].item)
     \/ worker' = [worker EXCEPT ![w] = [worker[w] EXCEPT
          !.step = "next", !.quota = TRUE, !.left = worker[w].left \ {worker[w].item},
          !.item = None]]
  /\ UNCHANGED <<scenario, facts, sender, prepared, task, budget, applying, clock, changes>>

\* save_pilot_research up to the wait for the identities of an explicit
\* selection; the others save in one go, see SaveResearch.
StartSave(w) ==
  LET r == worker[w].task
      c == worker[w].item
  IN  /\ worker[w].step = "save"
      /\ MayLock(Home[r]) /\ PilotMay(w, c)
      /\ task[r].explicit => budget = None
      /\ budget' = IF task[r].explicit THEN w ELSE budget
      /\ worker' = [worker EXCEPT ![w] = [@ EXCEPT !.step = "saving",
                      !.keys = SenderKeys(Known(c) \cup worker[w].found)]]
      /\ UNCHANGED <<scenario, facts, sender, prepared, task, applying, clock, changes>>

MaySave(w) ==
  LET r == worker[w].task
  IN  Owned(w) /\ (task[r].explicit => 
                   Eligible({worker[w].item}, worker[w].found, worker[w].keys, r))

\* merge_contact_history: the candidates are those found now.  The earlier ones
\* become history, which is for reading only: it is no part of an identity.
Merged(c, found) == [creator[c] EXCEPT !.version = @ + 1, !.candidates = found]

SaveResearch(w) ==
  LET c == worker[w].item
  IN  /\ worker[w].step = "saving"
      /\ task[worker[w].task].explicit => Clear(worker[w].keys)
      /\ MaySave(w)
      /\ creator' = [creator EXCEPT ![c] = [Merged(c, worker[w].found) EXCEPT
           !.by = worker[w].task]]
      /\ After(w, c)
      /\ budget' = IF budget = w THEN None ELSE budget
      /\ UNCHANGED <<scenario, edition, contact, packed, sender, prepared, task, applying, clock, changes>>

SaveRefused(w) ==
  /\ worker[w].step = "saving"
  /\ task[worker[w].task].explicit => Clear(worker[w].keys)
  /\ ~MaySave(w) /\ Stop(w)

-----------------------------------------------------------------------------
(* Discovery, senders and people.                                          *)

\* save_discovered_prospects, for one creator: a row that is new, or found again.
Discover(c) ==
  /\ May("discovery") /\ Change
  /\ MayLock(Home[c])
  /\ creator[c].status # "closed" /\ ~Protected(c)
  /\ \E found \in scenario.finds :
       creator' = [creator EXCEPT ![c] = [Merged(c, found) EXCEPT
         !.by = "discovery", !.status = IF @ = "absent" THEN "open" ELSE @]]
  /\ UNCHANGED <<scenario, edition, contact, packed, sender, prepared, task, worker, budget, applying, clock>>

\* plan_outreach_email: a reviewed draft, if it is sent, the rows, then the keys
\* of the identity, ...
StartSend(c) ==
  /\ May("send") /\ Change
  /\ sender = None /\ MayLock(Home[c])
  /\ Draftable(c)
  /\ \E k \in {None} \cup {k \in DOMAIN draft \ packed : k[2] = c /\ LiveDraft(k)} :
       sender' = [creator |-> c, keys |-> Identity(c), draft |-> k]
  /\ UNCHANGED <<scenario, facts, prepared, task, worker, budget, applying, clock>>

\* ... then the packet, unless one is there or the draft is not what it was.
EndSend ==
  LET c  == sender.creator
      ok == ~Duplicate(c) /\ (sender.draft # None => CurrentDraft(sender.draft))
  IN  /\ sender # None
      /\ contact' = IF ok THEN [contact EXCEPT ![c][creator[c].address] = "pending"] ELSE contact
      /\ packed' = packed \cup (IF ok THEN {sender.draft} \ {None} ELSE {})
      /\ sender' = None
      /\ UNCHANGED <<scenario, edition, creator, prepared, task, worker, budget, applying, clock, changes>>

\* The packet is refused, expires or fails; its address stays with it.
PacketEnds(c, a) ==
  /\ May("send") /\ Change
  /\ contact[c][a] = "pending"
  /\ contact' = [contact EXCEPT ![c][a] = "void"]
  /\ UNCHANGED <<scenario, edition, creator, packed, sender, prepared, task, worker, budget, applying, clock>>

\* The row is there and nobody holds it.
RowFree(c) ==
  /\ creator[c].status # "absent"
  /\ \A w \in Workers : ~(worker[w].step = "saving" /\ worker[w].item = c)
  /\ applying # None => c \notin applying.picks
  /\ sender # None => sender.creator # c

\* create_prospect: a person adds a row; its foreign key shares the campaign.
AddCreator(c) ==
  /\ May("edit") /\ Change
  /\ MayShare(Home[c]) /\ creator[c].status = "absent"
  /\ \E a \in Addresses :
       creator' = [creator EXCEPT ![c] = [@ EXCEPT !.status = "open", !.address = a]]
  /\ UNCHANGED <<scenario, edition, contact, packed, sender, prepared, task, worker, budget, applying, clock>>

\* save_prospect_research: a person has one creator looked at again, also
\* under an introduction, whose draft is outdated then.
Refresh(c) ==
  /\ May("edit") /\ Change
  /\ RowFree(c) /\ creator[c].status # "closed"
  /\ \E found \in scenario.finds :
       creator' = [creator EXCEPT ![c] = [Merged(c, found) EXCEPT !.by = None]]
  /\ UNCHANGED <<scenario, edition, contact, packed, sender, prepared, task, worker, budget, applying, clock>>

\* update_prospect with another address; another profile empties the evidence.
EditCreator(c) ==
  /\ May("edit") /\ Change
  /\ RowFree(c)
  /\ \E a \in Addresses, evidence \in {creator[c].candidates, {}} :
       creator' = [creator EXCEPT ![c] = [creator[c] EXCEPT
         !.version = creator[c].version + 1, !.by = None, !.address = a, !.candidates = evidence]]
  /\ UNCHANGED <<scenario, edition, contact, packed, sender, prepared, task, worker, budget, applying, clock>>

\* The creator is suppressed.
Close(c) ==
  /\ May("edit") /\ Change
  /\ RowFree(c) /\ creator[c].status # "closed"
  /\ creator' = [creator EXCEPT ![c].status = "closed"]
  /\ UNCHANGED <<scenario, edition, contact, packed, sender, prepared, task, worker, budget, applying, clock>>

\* update_campaign
EditCampaign(g) ==
  /\ May("edit campaign") /\ Change
  /\ MayLock(g)
  /\ edition' = [edition EXCEPT ![g] = @ + 1]
  /\ UNCHANGED <<scenario, creator, contact, packed, sender, prepared, task, worker, budget, applying, clock>>

CancelTask(r) ==
  /\ May("cancel") /\ Change
  /\ Active(r) /\ ~task[r].cancel /\ ~TaskLocked(r)
  /\ task' = [task EXCEPT ![r] = [task[r] EXCEPT !.cancel = TRUE,
       !.status = IF @ = "queued" THEN "cancelled" ELSE @]]
  /\ UNCHANGED <<scenario, facts, sender, prepared, worker, budget, applying, clock>>

\* Time passes while a worker computes, or waits for a lock.
LeaseRunsOut(r) ==
  /\ May("lease") /\ Change
  /\ task[r].status = "running" /\ task[r].valid
  /\ task' = [task EXCEPT ![r].valid = FALSE]
  /\ UNCHANGED <<scenario, facts, sender, prepared, worker, budget, applying, clock>>

\* recover_expired_tasks
Recover(r) ==
  /\ task[r].status = "running" /\ ~task[r].valid /\ ~TaskLocked(r)
  /\ task' = [task EXCEPT ![r].status =
       IF task[r].cancel THEN "cancelled"
       ELSE IF task[r].lease >= MaxLeases THEN "dead_lettered" ELSE "queued"]
  /\ UNCHANGED <<scenario, facts, sender, prepared, worker, budget, applying, clock, changes>>

\* The process dies; its transaction is rolled back, its lease runs out.
Crash(w) ==
  /\ May("lease") /\ Change
  /\ worker[w].step # "idle"
  /\ task' = [task EXCEPT ![worker[w].task].valid = IF Holds(w) THEN FALSE ELSE @]
  /\ worker' = [worker EXCEPT ![w] = Idle]
  /\ budget' = IF budget = w THEN None ELSE budget
  /\ UNCHANGED <<scenario, facts, sender, prepared, applying, clock>>

Tick ==
  /\ clock < scenario.hours
  /\ clock' = clock + 1
  /\ UNCHANGED <<scenario, facts, sender, prepared, task, worker, budget, applying, changes>>

BatchWork(w) ==
  \/ \E c \in worker[w].left : Recorded(w, c) \/ TakeSlot(w, c)
  \/ Issue(w) \/ SlotLost(w)
PilotWork(w) ==
  \/ \E c \in worker[w].left : Look(w, c)
  \/ Fetch(w) \/ StartSave(w) \/ SaveResearch(w) \/ SaveRefused(w)
Work(w) == Begin(w) \/ Fail(w) \/ Finish(w) \/ BatchWork(w) \/ PilotWork(w)

Drafts ==
  \/ \E c \in Creators : CreateReply(c) \/ RetryReply(c) \/ \E k \in PersonKeys : CreateDraft(k, c)
  \/ \E k \in DOMAIN draft : DraftEnds(k)
  \/ \E g \in Campaigns : AutomaticReplies(g)
Apply ==
  \/ \E b \in scenario.requests \cap Batches : \E limit \in 1..MaxBatch : CreateBatch(b, limit)
  \/ \E p \in scenario.requests \cap Pilots :
       \/ \E limit \in 1..MaxResearch : CreatePilot(p, limit)
       \/ \E picks \in (SUBSET Creators) \ {{}} :
            Cardinality(picks) <= MaxResearch /\ ApplyExplicit(p, picks)
  \/ CreateExplicit
People ==
  \/ \E c \in Creators : StartSend(c) \/ \E a \in Addresses : PacketEnds(c, a)
  \/ \E c \in Creators : AddCreator(c) \/ Refresh(c) \/ EditCreator(c) \/ Close(c)
  \/ \E g \in Campaigns : EditCampaign(g)
  \/ EndSend

Next ==
  \/ \E w \in Workers : (\E r \in Requests : Claim(w, r)) \/ Work(w) \/ Crash(w)
  \/ \E r \in Requests : CancelTask(r) \/ LeaseRunsOut(r) \/ Recover(r)
  \/ Drafts \/ Apply \/ People \/ \E c \in Creators : Discover(c)
  \/ Tick

Spec == Init /\ [][Next]_vars

-----------------------------------------------------------------------------
(* Properties.                                                             *)

TypeOK ==
  /\ scenario \in Scenarios
  /\ \A c \in Creators :
       creator[c].status \in {"absent", "open", "answered", "closed"}
       /\ creator[c].address \in Addresses \cup {None} /\ creator[c].candidates \subseteq Addresses
  /\ contact \in [Creators -> [Addresses -> {"none", "pending", "sent", "void"}]]
  /\ DOMAIN draft \subseteq (Batches \cup PersonKeys) \X Creators
  /\ \A r \in Requests : task[r].lease \in 0..MaxLeases
  /\ budget \in {None} \cup Workers \cup Pilots
  /\ clock \in 0..LastHour /\ changes \in 0..MaxChanges

\* Slots a batch may still turn into drafts.
Promised ==
  {k \in Batches \X Creators :
     LET t == task[k[1]]
     IN  t.status \in {"queued", "running"} /\ Recent(t.at) /\ k[2] \in DOMAIN t.items \ t.done}

\* In any rolling day there are no more preparations than the limits say,
\* counting those a reserved slot still promises, so that no slot is refused
\* for the budget; no creator is drafted for too often; no more creators are
\* researched than the limit says (_draft_budget_counts, create_batch,
\* create_pilot).
BudgetKept ==
  /\ Cardinality(RecentDrafts) + Cardinality(RecentReplies) + Cardinality(Promised) <= DailyDrafts
  /\ \A c \in Creators :
       Cardinality({k \in RecentDrafts : k[2] = c})
         + Cardinality({k \in RecentReplies : k[1] = c}) <= DraftsPerCreator
  /\ Cardinality({x \in Pilots \X Creators :
       /\ task[x[1]].status # "absent" /\ Recent(task[x[1]].at)
       /\ x[2] \in DOMAIN task[x[1]].items}) <= DailyResearch

Issued(k) == k \in DOMAIN draft' \ DOMAIN draft /\ k[1] \in Batches

\* A draft comes out of a batch only while its worker has the lease, nobody has
\* cancelled it, its day is not over, and campaign and creator are what they
\* were when the slot was reserved, however long the locks were waited for
\* (_queue_reserved_child).
IssuedWhileOwned ==
  [][\A k \in DOMAIN draft' :
       Issued(k) =>
         LET t == task[k[1]]
         IN  /\ t.status = "running" /\ t.valid /\ ~t.cancel
             /\ Recent(t.at) /\ k[2] \in DOMAIN t.items
             /\ draft'[k].hash = t.items[k[2]]]_vars

\* A batch never drafts for somebody who is being written to, or for whom there
\* is a current draft: there is no packet of the creator, and none under any row
\* that was addressed to where the draft would go, whatever address that row has
\* by now; no sender at work; and no draft of a row with the same identity that
\* could still be sent (_batch_eligibility when the slot is used, not only when
\* it is reserved; outreach_duplicate_action by the recipient of the packet).
OneIntroduction ==
  [][\A k \in DOMAIN draft' :
       Issued(k) =>
         /\ Clear(Identity(k[2]))
         /\ \A c \in Creators, a \in Addresses :
              Out(c, a) => c # k[2] /\ a # creator[k[2]].address
         /\ \A l \in DOMAIN draft :
              LiveDraft(l) /\ draft[l].hash = Hash(l[2])
                => Identity(l[2]) \cap Identity(k[2]) = {}]_vars

\* Evidence under an introduction stays what it is: discovery leaves a creator
\* with a live draft or packet alone, and research of an explicit selection
\* saves nothing while somebody known by one of its addresses, new ones among
\* them, has a packet, a live draft or a reserved slot, or is just being
\* written to, or one of the addresses is that of a packet
\* (_discovery_evidence_protected, _explicit_group_ineligibility).
EvidenceStands ==
  [][\A c \in Creators :
       creator'[c].version # creator[c].version =>
         /\ creator'[c].by = "discovery" =>
              /\ \A a \in Addresses : contact[c][a] # "pending"
              /\ \A k \in DOMAIN draft \ packed : k[2] = c => ~LiveDraft(k)
         /\ creator'[c].by \in Pilots /\ task[creator'[c].by].explicit =>
              /\ Clear(SenderKeys(Known(c) \cup creator'[c].candidates))
              /\ \A d \in Creators, a \in creator'[c].candidates : contact[d][a] = "none"
              /\ \A d \in Creators :
                   Known(d) \cap (Known(c) \cup creator'[c].candidates) # {} =>
                     /\ Unwritten(d)
                     /\ \A k \in DOMAIN draft \ packed : k[2] = d => ~LiveDraft(k)
                     /\ \A k \in Promised : k[2] # d]_vars
===============================================================================
