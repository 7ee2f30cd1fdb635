-------------------------- MODULE CreatorAutomation --------------------------
(***************************************************************************)
(* Emails to creators, sent by scoped runs and by operators                *)
(* (creator_automation_store.py, creator_automation.py, and the parts of   *)
(* marketing_store.py, marketing.py and action_store.py they rely on).     *)
(*                                                                         *)
(* A prospect is a creator in one campaign; two campaigns may have the     *)
(* same creator, who has one address and one channel.  A packet is an      *)
(* external action with its outreach message, known by its context: the    *)
(* same context is never prepared twice.  ExternalActions says how a       *)
(* queued packet reaches the send boundary, here the guards are the ones   *)
(* of the outreach.  Each transaction is one step; the locks it takes make *)
(* it so.                                                                  *)
(***************************************************************************)
EXTENDS Naturals, FiniteSets

CONSTANTS
  Creators,
  Scenes,              \* Scenes[s]: what a behaviour may be about, see the fields below
  FirstVersion,
  Texts,               \* wordings of a packet
  NoRun                \* a packet planned by an operator

VARIABLE scene         \* chosen at the start, never changed

Campaigns == Scenes[scene].campaigns
Prospects == Scenes[scene].prospects
Runs == Scenes[scene].runs
Replies == Scenes[scene].replies
Workers == Scenes[scene].workers
Campaign == Scenes[scene].campaign          \* of a prospect
Creator == Scenes[scene].creator
Grantee == Scenes[scene].grantee            \* Grantee[r]: the campaign run r is started for
From == Scenes[scene].from                  \* From[m]: the creator who writes reply m
About == Scenes[scene].about                \* About[m]: the prospects written to under its subject
OptOuts == Scenes[scene].optOuts            \* the replies that classify_creator_reply recognises
AutoHandoff == Scenes[scene].autoHandoff    \* the runs with auto_handoff
Monitored == Scenes[scene].monitored        \* the runs with monitor_gmail
MaxInitials == Scenes[scene].maxInitials    \* MaxInitials[r]: max_initials_per_day of run r
Synced == Scenes[scene].synced      \* bound: the campaigns whose label is read, if Gmail is enabled
Versions == Scenes[scene].versions          \* contents of a campaign that a run's hash tells apart
Pitch == Scenes[scene].pitch                \* Pitch[v]: the part of it that a packet's hash covers
ByHand == Scenes[scene].byHand              \* bound: the prospects operators prepare packets for
MaxPackets == Scenes[scene].maxPackets      \* bound: packets that are ever prepared
MaxEdits == Scenes[scene].maxEdits          \* bound: edits of campaigns, contacts, research, outcomes

ASSUME AutomationAssumption ==
  \A n \in DOMAIN Scenes : LET s == Scenes[n] IN
    /\ s.campaign \in [s.prospects -> s.campaigns] /\ s.creator \in [s.prospects -> Creators]
    /\ s.grantee \in [s.runs -> s.campaigns] /\ s.from \in [s.replies -> Creators]
    /\ s.about \in [s.replies -> SUBSET s.prospects]
    /\ s.synced \subseteq s.campaigns /\ \A r \in s.monitored : s.grantee[r] \in s.synced
    /\ s.optOuts \subseteq s.replies
    /\ s.autoHandoff \subseteq s.runs /\ s.monitored \subseteq s.runs
    /\ s.maxInitials \in [s.runs -> Nat \ {0}]
    /\ s.maxPackets \in Nat /\ s.maxEdits \in Nat \ {0}
    /\ FirstVersion \in s.versions /\ s.pitch \in [s.versions -> s.versions]
    /\ NoRun \notin s.runs /\ s.byHand \subseteq s.prospects
    \* marketing_prospects is unique in campaign and creator.
    /\ \A p, q \in s.prospects :
         s.campaign[p] = s.campaign[q] /\ s.creator[p] = s.creator[q] => p = q

VARIABLES
  run,          \* creator_automation_runs
  lapsed,       \* the runs with expires_at <= now()
  version,      \* marketing_campaigns: what its hash covers
  status,       \* marketing_prospects.status
  authorized,   \* the review that authorized the contact, 0 for none
  researched,   \* the prospects whose evidence makes them eligible
  noted,        \* the prospects with interested evidence on record
  suppressed,   \* creator_contact_suppressions
  packet,       \* external_actions.status, by context
  reserved,     \* creator_automation_actions
  recent,       \* the reservations of the last 24 hours
  doomed,       \* the packets _cancel_stopped_packets has selected
  worker,       \* workers that run jobs of kind marketing.creator_automation
  arrived,      \* the replies in the mailbox
  answers,      \* answers[m]: the prospects who had got an email when m came
  sync,         \* creator_gmail_sync_state
  stored, reviewed,  \* creator_reply_messages
  edits

runVars == <<run, lapsed>>
factVars == <<version, status, authorized, researched, noted, suppressed>>
packetVars == <<packet, reserved, recent, doomed>>
mailVars == <<arrived, answers, sync, stored, reviewed>>
vars == <<scene, runVars, factVars, packetVars, worker, mailVars, edits>>

Stages == {"initial", "handoff"}
\* "open" stands for discovered and qualified, "question" for the other answers
\* that end the automatic conversation, "suppressed" also for bounced.
Statuses == {"open", "question", "interested", "converted", "handed_off", "suppressed"}
PacketStates == {"pending", "queued", "executing", "succeeded", "ambiguous",
                 "failed", "cancelled"}
Active == {"pending", "queued", "executing", "succeeded", "ambiguous"}
Beyond == {"executing", "succeeded", "ambiguous"}

Contexts == [prospect : Prospects, stage : Stages, run : Runs \cup {NoRun},
             text : Texts, pitch : Versions, authorization : 1 .. MaxEdits]
Items == Prospects \X Stages

Idle == [step |-> "idle"]
Unread == [open |-> FALSE, listed |-> {}, left |-> {}, fresh |-> FALSE, complete |-> {}]

Init ==
  /\ scene \in DOMAIN Scenes
  /\ run = [r \in Runs |-> [state |-> "none", version |-> FirstVersion]]
  /\ lapsed = {}
  /\ version = [c \in Campaigns |-> FirstVersion]
  /\ status = [p \in Prospects |-> "open"]
  /\ authorized = [p \in Prospects |-> 1]
  /\ researched = Prospects /\ noted = {} /\ suppressed = {}
  /\ packet = [k \in {} |-> "pending"]
  /\ reserved = {} /\ recent = {} /\ doomed = {}
  /\ worker = [w \in Workers |-> Idle]
  /\ arrived = {} /\ answers = [m \in Replies |-> {}]
  /\ sync = [c \in Campaigns |-> Unread]
  /\ stored = {} /\ reviewed = {}
  /\ edits = 1

-----------------------------------------------------------------------------
(* The rules that several transactions share.                              *)

Packets == DOMAIN packet

Are(k, x, stage, states) ==
  /\ Creator[k.prospect] = x /\ k.stage = stage /\ packet[k] \in states

\* Mutant of Duplicate: only the prospect's own campaign is searched.
DuplicateHere(p, stage, own) ==
  \E k \in Packets \ own :
    /\ k.prospect = p /\ packet[k] \in Active
    /\ stage = "initial" \/ k.stage = "handoff"

\* outreach_duplicate_action: an introduction tolerates no other packet to the
\* creator in any campaign, a handover no other handover.
Duplicate(p, stage, own) ==
  \E k \in Packets \ own :
    /\ Creator[k.prospect] = Creator[p] /\ packet[k] \in Active
    /\ stage = "initial" \/ k.stage = "handoff"

StageStatus(stage) == IF stage = "initial" THEN "open" ELSE "interested"

\* run_block_reason.
RunPermits(r) ==
  /\ run[r].state = "running" /\ r \notin lapsed
  /\ run[r].version = version[Grantee[r]]

\* correlate_creator_reply: whoever had got an email at the address that
\* replies, under the subject it replies to.
Matched(m) == answers[m] \cap About[m]

\* Mutant of RepliesPending: only the replies that match a prospect count.
MatchedPending(c) ==
  \E m \in Replies : <<m, c>> \in stored \ reviewed /\ Matched(m) # {}

\* pending_reply_reason.
RepliesPending(c) == \E m \in Replies : <<m, c>> \in stored \ reviewed

\* creator_mailbox_is_fresh, for a run that asks for it.
MailboxFresh(r) == r \in Monitored => sync[Grantee[r]].fresh

\* Mutant of UsedToday: only what was sent counts.
UsedSent(c) ==
  Cardinality({k \in recent : k.stage = "initial" /\ Campaign[k.prospect] = c /\ packet[k] \in Beyond})

UsedToday(c) ==
  Cardinality({k \in recent : k.stage = "initial" /\ Campaign[k.prospect] = c})

\* The unique keys of creator_automation_actions.
Reserved(p, stage) ==
  \E k \in reserved : k.stage = stage /\ Creator[k.prospect] = Creator[p]

\* What a run may write to a prospect now.
Due(r, p, stage) ==
  \/ stage = "handoff" /\ r \in AutoHandoff /\ status[p] = "interested" /\ p \in noted
  \/ stage = "initial" /\ status[p] = "open" /\ p \in researched

-----------------------------------------------------------------------------
(* Runs.                                                                   *)

\* CreatorAutomationStore.start replaces the running run of the campaign.
Start(r) ==
  /\ run[r].state = "none"
  /\ run' = [s \in Runs |->
       IF s = r THEN [state |-> "running", version |-> version[Grantee[r]]]
       ELSE IF Grantee[s] = Grantee[r] /\ run[s].state = "running"
            THEN [run[s] EXCEPT !.state = "paused"] ELSE run[s]]
  /\ UNCHANGED <<lapsed, factVars, packetVars, worker, mailVars, edits, scene>>

Pause(r) ==
  /\ run[r].state = "running"
  /\ run' = [run EXCEPT ![r].state = "paused"]
  /\ UNCHANGED <<lapsed, factVars, packetVars, worker, mailVars, edits, scene>>

\* The clock passes expires_at; the next schedule says so.
Lapse(r) ==
  /\ run[r].state = "running" /\ r \notin lapsed
  /\ lapsed' = lapsed \cup {r}
  /\ UNCHANGED <<run, factVars, packetVars, worker, mailVars, edits, scene>>

Expire(r) ==
  /\ run[r].state = "running" /\ r \in lapsed
  /\ run' = [run EXCEPT ![r].state = "expired"]
  /\ UNCHANGED <<lapsed, factVars, packetVars, worker, mailVars, edits, scene>>

Stopped(r) == run[r].state # "running" \/ r \in lapsed

StoppedPackets ==
  {k \in Packets \ reserved : packet[k] = "pending" /\ k.run # NoRun /\ Stopped(k.run)}

\* _cancel_stopped_packets, after start, pause and every schedule, in
\* transactions of its own: a SELECT ...
SelectStopped ==
  /\ ~ StoppedPackets \subseteq doomed
  /\ doomed' = doomed \cup StoppedPackets
  /\ UNCHANGED <<runVars, factVars, packet, reserved, recent, worker, mailVars, edits, scene>>

Cancelled(k) == IF packet[k] \in {"pending", "queued"} THEN "cancelled" ELSE packet[k]

\* ... and a cancel_task for each task it returned.
CancelStopped(k) ==
  /\ k \in doomed
  /\ doomed' = doomed \ {k}
  /\ packet' = [packet EXCEPT ![k] = Cancelled(k)]
  /\ UNCHANGED <<runVars, factVars, reserved, recent, worker, mailVars, edits, scene>>

-----------------------------------------------------------------------------
(* A worker executes a tick of a run: CreatorAutomationStore.execute.      *)

\* One job per campaign at a time; a worker whose lease was taken over goes on
\* until a check of it fails.
JobFree(c) ==
  \A w \in Workers : worker[w].step # "idle" /\ worker[w].owns => Grantee[worker[w].run] # c

Hindered(r) ==
  ~ RunPermits(r) \/ RepliesPending(Grantee[r]) \/ ~ MailboxFresh(r)

\* The SELECT of prospects, with what is left of the daily allowance.
Candidates(r) ==
  {i \in Items :
     LET p == i[1] IN
     /\ Campaign[p] = Grantee[r]
     /\ authorized[p] > 0 /\ status[p] # "suppressed" /\ Creator[p] \notin suppressed
     /\ Due(r, p, i[2]) /\ ~ Reserved(p, i[2])
     /\ ~ Duplicate(p, i[2], {k \in Packets : packet[k] = "pending" /\ k.run = r})}

Allowance(r) ==
  IF UsedToday(Grantee[r]) < MaxInitials[r] THEN MaxInitials[r] - UsedToday(Grantee[r]) ELSE 0

Begin(w, r) ==
  /\ worker[w].step = "idle" /\ JobFree(Grantee[r])
  /\ ~ Hindered(r) /\ Candidates(r) # {}
  /\ worker' = [worker EXCEPT ![w] =
       [step |-> "loop", run |-> r, owns |-> TRUE, todo |-> Candidates(r), left |-> Allowance(r)]]
  /\ UNCHANGED <<runVars, factVars, packetVars, mailVars, edits, scene>>

\* A hindered tick writes the reason, and blocks a run whose campaign changed.
Block(r) ==
  /\ JobFree(Grantee[r])
  /\ run[r].state = "running" /\ run[r].version # version[Grantee[r]]
  /\ run' = [run EXCEPT ![r].state = "blocked"]
  /\ UNCHANGED <<lapsed, factVars, packetVars, worker, mailVars, edits, scene>>

\* The packet is prepared: plan_outreach_email.
PlanAllows(k) ==
  /\ k \notin Packets /\ Cardinality(Packets) < MaxPackets
  /\ Creator[k.prospect] \notin suppressed
  /\ authorized[k.prospect] > 0
  /\ status[k.prospect] = StageStatus(k.stage)
  /\ ~ Duplicate(k.prospect, k.stage, {})

NewContext(p, stage, r, text) ==
  [prospect |-> p, stage |-> stage, run |-> r, text |-> text,
   pitch |-> Pitch[version[Campaign[p]]], authorization |-> authorized[p]]

With(k, state) == [j \in Packets \cup {k} |-> IF j = k THEN state ELSE packet[j]]

\* The pending packets that a tick of run r may use again.
Reusable(r, i) ==
  {k \in Packets : packet[k] = "pending" /\ k.run = r /\ <<k.prospect, k.stage>> = i}

\* The allowance read at the start ends the loop at the first introduction
\* beyond it; handovers come first.
WithinAllowance(w, i) ==
  /\ i \in worker[w].todo
  /\ i[2] = "initial" => worker[w].left > 0 /\ \A j \in worker[w].todo : j[2] = "initial"

ToAuthorize(w, i, k) ==
  [step |-> "authorize", run |-> worker[w].run, owns |-> worker[w].owns,
   todo |-> worker[w].todo \ {i}, left |-> worker[w].left, item |-> k]

\* A crash before the approval leaves a packet that the next tick finds.
Reuse(w) ==
  /\ worker[w].step = "loop"
  /\ \E i \in worker[w].todo : \E k \in Reusable(worker[w].run, i) :
       /\ WithinAllowance(w, i)
       /\ worker' = [worker EXCEPT ![w] = ToAuthorize(w, i, k)]
  /\ UNCHANGED <<runVars, factVars, packetVars, mailVars, edits, scene>>

Plan(w) ==
  /\ worker[w].step = "loop"
  /\ \E i \in worker[w].todo, text \in Texts :
       LET k == NewContext(i[1], i[2], worker[w].run, text) IN
       /\ WithinAllowance(w, i) /\ Reusable(worker[w].run, i) = {}
       /\ PlanAllows(k)
       /\ packet' = With(k, "pending")
       /\ worker' = [worker EXCEPT ![w] = ToAuthorize(w, i, k)]
  /\ UNCHANGED <<runVars, factVars, reserved, recent, doomed, mailVars, edits, scene>>

BackToLoop(w) ==
  [step |-> "loop", run |-> worker[w].run, owns |-> worker[w].owns,
   todo |-> worker[w].todo, left |-> worker[w].left]

\* _authorize, one transaction with decide_task; it does not look at the
\* address ledger, nor whether the packet still says what the facts say.
MayAuthorize(w) ==
  LET r == worker[w].run
      k == worker[w].item IN
  /\ worker[w].owns /\ packet[k] = "pending"
  /\ ~ Hindered(r)
  /\ status[k.prospect] # "suppressed" /\ authorized[k.prospect] > 0
  /\ Due(r, k.prospect, k.stage)
  /\ k.stage = "initial" => UsedToday(Grantee[r]) < MaxInitials[r]
  /\ ~ \E j \in Packets \ {k} : Are(j, Creator[k.prospect], k.stage, Active \ {"pending"})
  /\ ~ Reserved(k.prospect, k.stage)

Authorize(w) ==
  /\ worker[w].step = "authorize" /\ MayAuthorize(w)
  /\ packet' = [packet EXCEPT ![worker[w].item] = "queued"]
  /\ reserved' = reserved \cup {worker[w].item}
  /\ recent' = recent \cup {worker[w].item}
  /\ worker' = [worker EXCEPT ![w] =
       IF worker[w].item.stage = "initial"
       THEN [BackToLoop(w) EXCEPT !.left = @ - 1] ELSE BackToLoop(w)]
  /\ UNCHANGED <<runVars, factVars, doomed, mailVars, edits, scene>>

\* A guard fails: the tick notes the reason and takes the next prospect.
PassOver(w) ==
  /\ \/ /\ worker[w].step = "authorize" /\ ~ MayAuthorize(w)
        /\ worker' = [worker EXCEPT ![w] = BackToLoop(w)]
     \/ /\ worker[w].step = "loop"
        /\ \E i \in worker[w].todo :
             /\ WithinAllowance(w, i) /\ Reusable(worker[w].run, i) = {}
             /\ \A text \in Texts : ~ PlanAllows(NewContext(i[1], i[2], worker[w].run, text))
             /\ worker' = [worker EXCEPT ![w].todo = @ \ {i}]
  /\ UNCHANGED <<runVars, factVars, packetVars, mailVars, edits, scene>>

\* The tick ends, or its process dies.
Leave(w) ==
  /\ worker[w].step # "idle"
  /\ worker' = [worker EXCEPT ![w] = Idle]
  /\ UNCHANGED <<runVars, factVars, packetVars, mailVars, edits, scene>>

LoseLease(w) ==
  /\ worker[w].step # "idle" /\ worker[w].owns
  /\ worker' = [worker EXCEPT ![w].owns = FALSE]
  /\ UNCHANGED <<runVars, factVars, packetVars, mailVars, edits, scene>>

-----------------------------------------------------------------------------
(* Operators prepare, approve and cancel packets too.                      *)

OperatorPlans(p, stage, text) ==
  LET k == NewContext(p, stage, NoRun, text) IN
  /\ PlanAllows(k)
  /\ packet' = With(k, "pending")
  /\ UNCHANGED <<runVars, factVars, reserved, recent, doomed, worker, mailVars, edits, scene>>

Becomes(k, state) ==
  /\ packet' = [packet EXCEPT ![k] = state]
  /\ UNCHANGED <<runVars, reserved, recent, doomed, worker, mailVars, edits, scene>>

\* decide_task: an operator may approve a run's packet too.
Approve(k) == packet[k] = "pending" /\ Becomes(k, "queued") /\ UNCHANGED factVars

\* decide_task, cancel_task, or an approval window that ends.
Withdraw(k) ==
  packet[k] \in {"pending", "queued"} /\ Becomes(k, "cancelled") /\ UNCHANGED factVars

-----------------------------------------------------------------------------
(* The send boundary and what it reports.                                  *)

\* outreach_context_error.
ContextHolds(k) ==
  /\ authorized[k.prospect] > 0 /\ k.authorization = authorized[k.prospect]
  /\ k.pitch = Pitch[version[Campaign[k.prospect]]]
  /\ status[k.prospect] = StageStatus(k.stage)

\* validate_creator_automation.
RunAllows(k) ==
  /\ ~ RepliesPending(Campaign[k.prospect])
  /\ k.run # NoRun =>
       /\ k \in reserved
       /\ RunPermits(k.run) /\ MailboxFresh(k.run)
       /\ k.stage = "initial" => k.prospect \in researched
       /\ k.stage = "handoff" => k.run \in AutoHandoff

Send(k) ==
  /\ packet[k] = "queued"
  /\ ContextHolds(k) /\ RunAllows(k)
  /\ Creator[k.prospect] \notin suppressed
  /\ ~ Duplicate(k.prospect, k.stage, {k})
  /\ Becomes(k, "executing") /\ UNCHANGED factVars

\* A guard of the boundary, one here or one of ExternalActions, refuses.
Refuse(k) == packet[k] = "queued" /\ Becomes(k, "failed") /\ UNCHANGED factVars

Ambiguous(k) == packet[k] = "executing" /\ Becomes(k, "ambiguous") /\ UNCHANGED factVars

HandedOver(p) ==
  IF status[p] \in {"suppressed", "converted"} THEN status[p] ELSE "handed_off"

\* complete_side_effect, on handovers, takes the prospect along.
Succeed(k) ==
  /\ packet[k] = "executing" /\ Becomes(k, "succeeded")
  /\ status' = IF k.stage = "handoff"
               THEN [status EXCEPT ![k.prospect] = HandedOver(k.prospect)] ELSE status
  /\ UNCHANGED <<version, authorized, researched, noted, suppressed>>

\* A day passes over a reservation.
Ages(k) ==
  /\ k \in recent
  /\ recent' = recent \ {k}
  /\ UNCHANGED <<runVars, factVars, packet, reserved, doomed, worker, mailVars, edits, scene>>

-----------------------------------------------------------------------------
(* Replies.                                                                *)

GotEmail(p) == \E k \in Packets : k.prospect = p /\ packet[k] = "succeeded"

Arrive(m) ==
  /\ m \notin arrived
  /\ arrived' = arrived \cup {m}
  /\ answers' = [answers EXCEPT ![m] = {p \in Prospects : Creator[p] = From[m] /\ GotEmail(p)}]
  /\ UNCHANGED <<runVars, factVars, packetVars, worker, sync, stored, reviewed, edits, scene>>

\* execute_creator_gmail_sync lists the label when nothing is left to fetch ...
ListReplies(c) ==
  /\ c \in Synced /\ sync[c].left = {}
  /\ sync' = [sync EXCEPT ![c].open = TRUE, ![c].listed = arrived,
                          ![c].left = {m \in arrived : <<m, c>> \notin stored}]
  /\ UNCHANGED <<runVars, factVars, packetVars, worker, arrived, answers, stored, reviewed, edits, scene>>

\* Mutant of Foreign: a reply that matches nothing is foreign everywhere.
ForeignUnknown(m, c) == \A p \in Matched(m) : Campaign[p] # c

\* Mutant of Foreign: the sender decides alone.
ForeignSender(m, c) == \E p \in Prospects : answers[m] = {p} /\ Campaign[p] # c

\* There is one match, and it is in another campaign.
Foreign(m, c) == \E p \in Prospects : Matched(m) = {p} /\ Campaign[p] # c

Suppress(X) ==
  /\ suppressed' = suppressed \cup X
  /\ status' = [p \in Prospects |-> IF Creator[p] \in X THEN "suppressed" ELSE status[p]]
  /\ authorized' = [p \in Prospects |-> IF Creator[p] \in X THEN 0 ELSE authorized[p]]
  /\ UNCHANGED <<version, researched, noted>>

\* ... save_gmail stores what was fetched of it, and obeys clear opt-outs ...
SaveReplies(c, T) ==
  /\ sync[c].open /\ T # {} /\ T \subseteq sync[c].left
  /\ sync' = [sync EXCEPT ![c].left = @ \ T]
  /\ stored' = stored \cup {<<m, c>> : m \in {n \in T : ~ Foreign(n, c)}}
  /\ Suppress({From[m] : m \in T \cap OptOuts})
  /\ UNCHANGED <<runVars, packetVars, worker, arrived, answers, reviewed, edits, scene>>

\* ... and finalize_reply_sync marks the pass complete.
FinalizeSync(c) ==
  /\ sync[c].open /\ sync[c].left = {}
  /\ sync' = [sync EXCEPT ![c].open = FALSE, ![c].fresh = TRUE, ![c].complete = sync[c].listed]
  /\ UNCHANGED <<runVars, factVars, packetVars, worker, arrived, answers, stored, reviewed, edits, scene>>

\* Half an hour passes, or a sync fails after the last complete one.
GoStale(c) ==
  /\ sync[c].fresh
  /\ sync' = [sync EXCEPT ![c].fresh = FALSE]
  /\ UNCHANGED <<runVars, factVars, packetVars, worker, arrived, answers, stored, reviewed, edits, scene>>

\* The effect of an answer on its prospect, by a review or by an outcome.
Answer(p, class) ==
  /\ status' = [status EXCEPT ![p] = class]
  /\ UNCHANGED <<version, authorized, researched, suppressed>>

\* review_reply.
ReviewReply(m, c, class) ==
  /\ <<m, c>> \in stored \ reviewed
  /\ reviewed' = reviewed \cup {<<m, c>>}
  /\ \/ class = "ignore" /\ UNCHANGED factVars
     \/ \E p \in Prospects :
          /\ Campaign[p] = c /\ Creator[p] = From[m]
          /\ \/ class = "do_not_contact" /\ Suppress({From[m]})
             \/ /\ class \in {"question", "interested"}
                /\ p \in answers[m]
                /\ status[p] \notin {"suppressed", "handed_off", "converted"}
                /\ Answer(p, class)
                /\ noted' = IF class = "interested" THEN noted \cup {p} ELSE noted
  /\ UNCHANGED <<runVars, packetVars, worker, arrived, answers, sync, stored, edits, scene>>

-----------------------------------------------------------------------------
(* Campaigns and prospects change.                                         *)

Edit == edits < MaxEdits /\ edits' = edits + 1 /\ UNCHANGED scene

\* record_outcome: an operator notes an answer got elsewhere, with a note or
\* without.  An opt-out suppresses this prospect and the address.
RecordOutcome(p, class) ==
  /\ Edit /\ status[p] # "suppressed" /\ \E k \in Packets : k.prospect = p
  /\ \/ /\ class = "do_not_contact"
        /\ status' = [status EXCEPT ![p] = "suppressed"]
        /\ authorized' = [authorized EXCEPT ![p] = 0]
        /\ suppressed' = suppressed \cup {Creator[p]}
        /\ UNCHANGED <<version, researched, noted>>
     \/ /\ class \in {"question", "interested", "converted"} /\ GotEmail(p)
        /\ Answer(p, IF status[p] = "handed_off" /\ class # "converted"
                     THEN "handed_off" ELSE class)
        /\ noted' \in {noted, IF class = "interested" THEN noted \cup {p} ELSE noted}
  /\ UNCHANGED <<runVars, packetVars, worker, mailVars>>

\* update_campaign.
UpdateCampaign(c, v) ==
  /\ Edit /\ v # version[c]
  /\ version' = [version EXCEPT ![c] = v]
  /\ UNCHANGED <<runVars, status, authorized, researched, noted, suppressed, packetVars, worker, mailVars>>

\* update_prospect, which authorizes the contact or does not.
UpdateProspect(p, authorize) ==
  /\ Edit
  /\ authorize => status[p] # "suppressed" /\ Creator[p] \notin suppressed
  /\ authorized' = [authorized EXCEPT ![p] = IF authorize THEN edits + 1 ELSE 0]
  /\ UNCHANGED <<runVars, version, status, researched, noted, suppressed, packetVars, worker, mailVars>>

\* Evidence ages; research refreshes it.
ResearchChanges(p) ==
  /\ Edit
  /\ researched' = (researched \ {p}) \cup ({p} \ researched)
  /\ UNCHANGED <<runVars, version, status, authorized, noted, suppressed, packetVars, worker, mailVars>>

-----------------------------------------------------------------------------
Classes == {"question", "interested", "converted", "do_not_contact", "ignore"}

RunStep ==
  \/ \E r \in Runs : Start(r) \/ Pause(r) \/ Lapse(r) \/ Expire(r) \/ Block(r)
  \/ SelectStopped
  \/ \E k \in doomed : CancelStopped(k)

WorkerStep ==
  \E w \in Workers :
    \/ \E r \in Runs : Begin(w, r)
    \/ Reuse(w) \/ Plan(w) \/ Authorize(w) \/ PassOver(w) \/ Leave(w) \/ LoseLease(w)

OperatorStep ==
  \/ \E p \in ByHand, stage \in Stages, text \in Texts : OperatorPlans(p, stage, text)
  \/ \E k \in Packets : Approve(k) \/ Withdraw(k)
  \/ \E p \in Prospects, class \in Classes : RecordOutcome(p, class)
  \/ \E m \in Replies, c \in Campaigns, class \in Classes : ReviewReply(m, c, class)
  \/ \E c \in Campaigns, v \in Versions : UpdateCampaign(c, v)
  \/ \E p \in Prospects, authorize \in BOOLEAN : UpdateProspect(p, authorize)

Surroundings ==
  \/ \E k \in Packets : Send(k) \/ Refuse(k) \/ Ambiguous(k) \/ Succeed(k) \/ Ages(k)
  \/ \E m \in Replies : Arrive(m)
  \/ \E c \in Campaigns :
       \/ ListReplies(c) \/ FinalizeSync(c) \/ GoStale(c)
       \/ \E T \in SUBSET Replies : SaveReplies(c, T)
  \/ \E p \in Prospects : ResearchChanges(p)

Next == RunStep \/ WorkerStep \/ OperatorStep \/ Surroundings

Spec == Init /\ [][Next]_vars

-----------------------------------------------------------------------------
(* Properties.                                                             *)

\* At most one run of a campaign is running.
RunsOK ==
  /\ run \in [Runs -> [state : {"none", "running", "paused", "expired", "blocked"},
                       version : Versions]]
  /\ \A r, s \in Runs :
       run[r].state = "running" /\ run[s].state = "running" /\ Grantee[r] = Grantee[s] => r = s
  /\ lapsed \subseteq Runs

FactsOK ==
  /\ version \in [Campaigns -> Versions]
  /\ status \in [Prospects -> Statuses] /\ authorized \in [Prospects -> 0 .. MaxEdits]
  /\ researched \subseteq Prospects /\ noted \subseteq Prospects
  /\ suppressed \subseteq Creators
  /\ edits \in 1 .. MaxEdits

\* A reservation exists for decided packets only, for one per creator and stage.
PacketsOK ==
  /\ packet \in [Packets -> PacketStates] /\ Packets \subseteq Contexts
  /\ reserved \subseteq Packets /\ recent \subseteq reserved /\ doomed \subseteq Packets
  /\ \A k \in reserved : k.run # NoRun /\ packet[k] # "pending"
  /\ \A j, k \in reserved :
       j.stage = k.stage /\ Creator[j.prospect] = Creator[k.prospect] => j = k

\* A worker at its list, and one about to reserve a packet.
AtWork == [step : {"loop"}, run : Runs, owns : BOOLEAN, todo : SUBSET Items, left : Nat]
Authorizing == [step : {"authorize"}, run : Runs, owns : BOOLEAN, todo : SUBSET Items,
                left : Nat, item : Packets]
WorkersOK == worker \in [Workers -> {Idle} \cup AtWork \cup Authorizing]

MailOK ==
  /\ arrived \subseteq Replies /\ answers \in [Replies -> SUBSET Prospects]
  /\ sync \in [Campaigns -> [open : BOOLEAN, listed : SUBSET arrived, left : SUBSET arrived,
                            fresh : BOOLEAN, complete : SUBSET arrived]]
  /\ \A c \in Campaigns : sync[c].left \subseteq sync[c].listed
  /\ reviewed \subseteq stored /\ stored \subseteq arrived \X Campaigns

\* Type invariant of the tables of 007_creator_outreach.sql and
\* 021_creator_automation.sql and of the workers' local state.
TypeOK == RunsOK /\ FactsOK /\ PacketsOK /\ WorkersOK /\ MailOK

\* Of what the runs of a campaign reserve within a day, whoever reserved last
\* was within the allowance of its own run, introductions of other runs with a
\* larger one counted.  Two runs, and a worker that lost its lease, may be about
\* to authorize at once (the count is repeated in _authorize, under the
\* automation lock).
BudgetKept ==
  \A c \in Campaigns : \A K \in (SUBSET recent) \ {{}} :
    (\A k \in K : k.stage = "initial" /\ Campaign[k.prospect] = c)
      => \E k \in K : Cardinality(K) <= MaxInitials[k.run]

\* The packets that cross the boundary in this step.
Crossing == {k \in Packets : packet[k] = "queued" /\ packet'[k] = "executing"}

AnswersOthersOnly(m, c) == Matched(m) # {} /\ \A p \in Matched(m) : Campaign[p] # c

\* When a run that monitors the mailbox writes to anyone, an operator has
\* reviewed every reply that the last complete pass found, those that match no
\* sent message included; only answers to other campaigns are left out.
RepliesReadFirst ==
  [][\A k \in Crossing : k.run \in Monitored =>
       \A m \in sync[Grantee[k.run]].complete :
         \/ AnswersOthersOnly(m, Grantee[k.run])
         \/ <<m, Grantee[k.run]>> \in reviewed]_vars

\* creator_automation_store.py:209 says a concurrent operator decision is never
\* overwritten by the cancellation of stopped runs' packets.
DecisionsStand ==
  [][\A k \in Packets : packet[k] = "queued" /\ k \in doomed /\ k \notin doomed'
       => packet'[k] = "queued"]_vars

\* All campaigns, runs and operators together keep the promise to a creator.
Sent(stage) ==
  [x \in Creators |-> Cardinality({k \in Packets : Are(k, x, stage, Beyond)})]
Interested == {Creator[p] : p \in {q \in Prospects : status[q] = "interested"}}

Outreach == INSTANCE OutreachContract WITH
  introductions <- Sent("initial"), handovers <- Sent("handoff"),
  interested <- Interested, silenced <- suppressed

\* One introduction per creator, one handover after reviewed interest, nothing
\* after an opt-out: across campaigns, runs, operators and their interleavings.
ImplementsOutreachContract == Outreach!Contract
=============================================================================
