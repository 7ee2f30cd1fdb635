------------------------------ MODULE MailSync ------------------------------
(***************************************************************************)
(* The two read-only mailbox readers: replies to job applications          *)
(* (career_tracking.py, career_tracking_store.py) and replies of creators  *)
(* (creator_automation_gmail.py, the reply half of                         *)
(* creator_automation_store.py).  Both walk a Gmail label page by page     *)
(* under a cursor kept in one row with a revision; several executions of   *)
(* a sync task may be under way at once, because a person may ask for one  *)
(* at any time and because an execution that lost its lease goes on until  *)
(* it next touches the database.                                           *)
(*                                                                         *)
(* A behaviour plays one scene, chosen at the start: which desk it is      *)
(* about ("career" matches messages with applications and binds threads to *)
(* them, "creator" also captures full reply bodies), how much mail each    *)
(* label gets and how often the surroundings interfere.  A message is      *)
(* <<label, position>>, position 1 being the oldest; Gmail lists a label   *)
(* from the newest message down.                                           *)
(***************************************************************************)
EXTENDS Naturals, FiniteSets, FiniteSetsExt

CONSTANTS
    Scenes,         \* records [desk, mail, runs, relabels, losses, reviews]: the
                    \* desk, messages per label, executions, and how often the
                    \* label changes, a message vanishes, a person interferes
    Labels,         \* the labels an operator may configure
    Runs,           \* 1..n: executions of a sync task, each under one lease
    Apps,           \* recorded job opportunities
    Applied0,       \* those already applied for
    Thread, Domain, \* the thread and the sender's domain of a message
    Evidence,       \* the applications whose sender and wording it names
    Dated,          \* the applications it is not too old for
    Foreign,        \* messages that answer another campaign's outreach
    PageSize,       \* MAX_LIST
    MaxGet,         \* MAX_GET: messages read in one execution
    MaxReads,       \* MAX_FULL_READS: bodies read in one execution
    MaxAttempts,    \* attempts at one body
    None

Mailbox(s) == UNION {{<<l, i>> : i \in 1 .. s.mail[l]} : l \in Labels}
Messages == UNION {Mailbox(s) : s \in Scenes}

Tops == Nat \union {None}
Stamps == [top : Tops, overtaken : BOOLEAN]
Cursors == [label : Labels, token : Nat, pending : SUBSET Messages, revision : Nat,
            top : Tops, done : Stamps \union {None}]
Bindings == [app : Apps, domain : Range(Domain), by : {"gmail", "manual"}]

ASSUME MailAssumption ==
    /\ \A s \in Scenes : s.desk \in {"career", "creator"} /\ s.mail \in [Labels -> Nat]
    /\ DOMAIN Thread = Messages /\ DOMAIN Domain = Messages
    /\ Applied0 \subseteq Apps
    /\ PageSize \in Nat \ {0} /\ MaxGet \in Nat \ {0}
    /\ MaxReads \in Nat /\ MaxAttempts \in Nat
    /\ None \notin Nat \union Runs \union Apps \union Cursors \union Bindings

VARIABLES
    scene,      \* which of the two readers this behaviour is about, and its bounds
    label,      \* the configured label (settings)
    relabels,   \* how often it was changed
    reviews,    \* how often a person has stepped in
    arrived,    \* per label, how many messages the mailbox holds
    lost,       \* messages deleted, moved out of the label or sent by the owner
    cursor,     \* the sync state row
    stored,     \* the messages with a row
    link,       \* the application of a stored message
    threads,    \* the thread bindings
    applied,    \* the opportunities with applied_at
    events,     \* <<application, message>> of the recorded events
    body,       \* per message the captured body and the review of the reply
    wanted,     \* the messages whose creator may still be written to
    runs        \* the executions

mailboxVars == <<label, relabels, arrived, lost>>
linkVars == <<link, threads, applied, events>>
bodyVars == <<body, wanted>>
vars == <<scene, reviews, mailboxVars, cursor, stored, linkVars, bodyVars, runs>>

desk == scene.desk

Blank == [pc |-> "new", live |-> FALSE, label |-> None, rev |-> 0, token |-> 0,
          pending |-> {}, top |-> None, got |-> {}, eaten |-> {}, overtaken |-> FALSE,
          view |-> [t \in {} |-> None], known |-> {}, todo |-> {}, claim |-> None,
          full |-> None]

(* token 0 is a missing page token.  top is a history component: the       *)
(* newest message there was when the pass under way began, None when no    *)
(* page was listed since the row was made or reset.  done is               *)
(* last_complete_at (None: never), kept as the top of the pass it was      *)
(* written for and whether the execution that wrote it had been overtaken. *)
FreshCursor(l, r) == [label |-> l, token |-> 0, pending |-> {}, revision |-> r,
                      top |-> None, done |-> None]

Init ==
    /\ scene \in Scenes /\ reviews = 0
    /\ label \in Labels /\ relabels = 0
    /\ arrived = [l \in Labels |-> 0] /\ lost = {}
    /\ cursor = None
    /\ stored = {} /\ link = [m \in Messages |-> None]
    /\ threads = [t \in Range(Thread) |-> None]
    /\ applied = Applied0 /\ events = {}
    /\ body = [m \in Messages |-> [status |-> "missing", attempts |-> 0, rested |-> TRUE,
                                   owner |-> None, review |-> TRUE]]
    /\ wanted = Messages
    /\ runs = [r \in Runs |-> Blank]

-----------------------------------------------------------------------------
(* Executions                                                              *)

SetRun(r, f) == runs' = [runs EXCEPT ![r] = f]
End(r) == [Blank EXCEPT !.pc = "done"]
At(r, pc) == runs[r].pc = pc

(* A career save holds the row of the sync state from its first lock to    *)
(* its commit; nobody opens or saves meanwhile.                            *)
RowFree == \A r \in Runs : ~ At(r, "saving")

(* A person's request is never refused for career; creator syncs are       *)
(* queued only while the campaign has none queued or running.              *)
MayBegin(r) ==
    /\ At(r, "new") /\ r <= scene.runs /\ \A q \in Runs : q < r => ~ At(q, "new")
    /\ desk = "creator" => \A q \in Runs : ~ runs[q].live

Begin(r) ==
    /\ MayBegin(r)
    /\ SetRun(r, [Blank EXCEPT !.pc = "opening", !.live = TRUE, !.label = label])
    /\ UNCHANGED <<scene, reviews, mailboxVars, cursor, stored, linkVars, bodyVars>>

(* Lease expiry, cancellation or a takeover by another worker; never while *)
(* the save holds the task's row.                                          *)
LoseLease(r) ==
    /\ runs[r].live /\ ~ At(r, "saving")
    /\ SetRun(r, [runs[r] EXCEPT !.live = FALSE])
    /\ UNCHANGED <<scene, reviews, mailboxVars, cursor, stored, linkVars, bodyVars>>

(* An interrupt, a refused Gmail response or a malformed message ends the  *)
(* execution with nothing further written.                                 *)
Fail(r) ==
    /\ runs[r].pc \notin {"new", "done", "saving"}
    /\ SetRun(r, End(r))
    /\ UNCHANGED <<scene, reviews, mailboxVars, cursor, stored, linkVars, bodyVars>>

(* gmail_sync_context, gmail_context: the row is made, or the paging of a  *)
(* changed label begins anew; the answer is what the execution goes by.    *)
Opened(l) ==
    IF cursor = None THEN FreshCursor(l, 0)
    ELSE IF cursor.label # l THEN FreshCursor(l, cursor.revision + 1)
    ELSE cursor

Open(r) ==
    /\ At(r, "opening") /\ RowFree
    /\ cursor' = Opened(runs[r].label)
    /\ SetRun(r, [runs[r] EXCEPT !.pc = "listing", !.rev = cursor'.revision,
                                 !.token = cursor'.token, !.pending = cursor'.pending,
                                 !.top = cursor'.top])
    /\ UNCHANGED <<scene, reviews, mailboxVars, stored, linkVars, bodyVars>>

(* Gmail's messages.list: the next PageSize messages below the page token  *)
(* and the token of what is left.                                          *)
From(l, token) == IF token = 0 THEN arrived[l] ELSE token - 1
Page(l, token) ==
    LET high == From(l, token)
        low  == IF high > PageSize THEN high - PageSize + 1 ELSE 1
    IN  [ids |-> {<<l, i>> : i \in low .. high}, token |-> IF low > 1 THEN low ELSE 0]

(* Nothing pending: the next page.  Messages with a row are left out.      *)
List(r) ==
    /\ At(r, "listing")
    /\ LET run  == runs[r]
           page == Page(run.label, run.token)
           turn == run.pending = {}
       IN  SetRun(r, [run EXCEPT
               !.pc = "fetching",
               !.pending = (IF turn THEN page.ids ELSE run.pending) \ stored,
               !.token = IF turn THEN page.token ELSE run.token,
               !.top = IF turn /\ run.token = 0 THEN arrived[run.label] ELSE run.top])
    /\ UNCHANGED <<scene, reviews, mailboxVars, cursor, stored, linkVars, bodyVars>>

Left(r) == runs[r].pending \ runs[r].eaten
Newest(S) == CHOOSE m \in S : \A n \in S : n[2] <= m[2]
Oldest(S) == CHOOSE m \in S : \A n \in S : n[2] >= m[2]

(* One messages.get.  A message that is gone, or that normalize_message    *)
(* finds outside the label, is consumed and not stored.                    *)
Fetch(r) ==
    /\ At(r, "fetching") /\ Left(r) # {} /\ Cardinality(runs[r].eaten) < MaxGet
    /\ LET m == Newest(Left(r))
       IN  SetRun(r, [runs[r] EXCEPT !.eaten = runs[r].eaten \union {m},
                                     !.got = runs[r].got \union ({m} \ lost)])
    /\ UNCHANGED <<scene, reviews, mailboxVars, cursor, stored, linkVars, bodyVars>>

Fetched(r) == At(r, "fetching") /\ (Left(r) = {} \/ Cardinality(runs[r].eaten) = MaxGet)

Advanced(r) == [cursor EXCEPT !.token = runs[r].token, !.pending = Left(r),
                              !.revision = cursor.revision + 1, !.top = runs[r].top]

-----------------------------------------------------------------------------
(* Replies to applications                                                 *)

(* correlate_message: a bound thread decides, else exactly one application *)
(* must be named.                                                          *)
Correlate(m, apps, bindings) ==
    LET b    == bindings[Thread[m]]
        hits == Evidence[m] \intersect Dated[m] \intersect apps
    IN  IF b # None
        THEN IF b.app \in apps /\ b.domain = Domain[m] /\ b.app \in Dated[m]
             THEN b.app ELSE None
        ELSE IF Cardinality(hits) = 1 THEN CHOOSE a \in hits : TRUE ELSE None

(* _bind_thread: a thread keeps its application and its sender, and a      *)
(* person's binding stays a person's; otherwise the statement returns no   *)
(* row and the caller's transaction is rolled back.                        *)
MayBindAny(ts, m, a) == TRUE
MayBind(ts, m, a) ==
    ts[Thread[m]] # None => ts[Thread[m]].app = a /\ ts[Thread[m]].domain = Domain[m]
BindLatest(ts, m, a, by) ==
    [ts EXCEPT ![Thread[m]] = [app |-> a, domain |-> Domain[m], by |-> by]]
Bind(ts, m, a, by) ==
    LET b == ts[Thread[m]]
    IN  [ts EXCEPT ![Thread[m]] =
            [app |-> a, domain |-> Domain[m],
             by |-> IF b # None /\ b.by = "manual" THEN "manual" ELSE by]]

(* save_gmail_sync, up to the reading of applications and bindings: the    *)
(* task row and the sync state row stay locked.                            *)
CursorHoldsByLabel(r) == cursor # None /\ cursor.label = runs[r].label
CursorHolds(r) ==
    cursor # None /\ cursor.revision = runs[r].rev /\ cursor.label = runs[r].label

StartSave(r) ==
    /\ desk = "career" /\ Fetched(r) /\ RowFree
    /\ runs[r].live /\ CursorHolds(r)
    /\ SetRun(r, [runs[r] EXCEPT !.pc = "saving", !.view = threads, !.known = applied])
    /\ UNCHANGED <<scene, reviews, mailboxVars, cursor, stored, linkVars, bodyVars>>

(* One message of the batch: the row unless there is one, then the binding *)
(* and the event of a matched application.  view is the list of bindings   *)
(* the transaction read, with its own additions; acc.threads is the table. *)
Store(r, acc, m) ==
    LET a == Correlate(m, runs[r].known, acc.view)
    IN  IF m \in stored \/ ~ acc.ok THEN acc
        ELSE IF a = None THEN [acc EXCEPT !.rows = acc.rows \union {m}]
        ELSE IF ~ MayBind(acc.threads, m, a) THEN [acc EXCEPT !.ok = FALSE]
        ELSE [ok |-> TRUE, rows |-> acc.rows \union {m}, link |-> [acc.link EXCEPT ![m] = a],
              threads |-> Bind(acc.threads, m, a, "gmail"),
              view |-> IF acc.view[Thread[m]] = None THEN Bind(acc.view, m, a, "gmail")
                       ELSE acc.view,
              events |-> acc.events \union {<<a, m>>}]

(* The batch is saved from the newest message down.                        *)
Unsaved(r) == [ok |-> TRUE, rows |-> stored, link |-> link, threads |-> threads,
               view |-> runs[r].view, events |-> events]
SaveAt(r, acc, i) ==
    LET m == <<runs[r].label, i>>
    IN  IF m \in runs[r].got THEN Store(r, acc, m) ELSE acc
Outcome(r) ==
    LET mail == arrived[runs[r].label]
        Saved[n \in Nat] ==
            IF n = 0 THEN Unsaved(r) ELSE SaveAt(r, Saved[n - 1], mail + 1 - n)
    IN  Saved[mail]

(* The commit, or the rollback when a thread got another application since *)
(* its bindings were read.                                                 *)
CommitSave(r) ==
    /\ At(r, "saving")
    /\ LET out == Outcome(r)
       IN  IF out.ok
           THEN /\ stored' = out.rows /\ link' = out.link
                /\ threads' = out.threads /\ events' = out.events
                /\ cursor' = Advanced(r)
           ELSE UNCHANGED <<stored, link, threads, events, cursor>>
    /\ SetRun(r, End(r))
    /\ UNCHANGED <<scene, reviews, mailboxVars, applied, bodyVars>>

(* A person steps in; how often is bounded by the scene.                   *)
Interferes == reviews < scene.reviews /\ reviews' = reviews + 1

(* record_application_event with a message a person has reviewed.          *)
RecordReviewed(a, m) ==
    /\ Interferes
    /\ desk = "career" /\ m \in stored
    /\ link[m] \in {None, a} /\ MayBind(threads, m, a)
    /\ threads' = Bind(threads, m, a, "manual")
    /\ link' = [link EXCEPT ![m] = a]
    /\ events' = events \union {<<a, m>>}
    /\ \/ a \in applied /\ applied' = applied
       \/ applied' = applied \union {a}
    /\ UNCHANGED <<scene, mailboxVars, cursor, stored, bodyVars, runs>>

(* record_application_event of a submission, with no message.              *)
RecordSubmitted(a) ==
    /\ Interferes
    /\ desk = "career" /\ a \notin applied
    /\ applied' = applied \union {a}
    /\ UNCHANGED <<scene, mailboxVars, cursor, stored, link, threads, events, bodyVars, runs>>

-----------------------------------------------------------------------------
(* Replies of creators                                                     *)

(* save_gmail, under the automation lock: only the revision is compared.   *)
(* A confident answer to another campaign gets no row.                     *)
RevisionHolds(r) == cursor # None /\ cursor.revision = runs[r].rev

SaveReplies(r) ==
    /\ desk = "creator" /\ Fetched(r)
    /\ runs[r].live /\ RevisionHolds(r)
    /\ stored' = stored \union (runs[r].got \ Foreign)
    /\ cursor' = Advanced(r)
    /\ SetRun(r, [runs[r] EXCEPT !.pc = "reopening", !.rev = cursor'.revision])
    /\ UNCHANGED <<scene, reviews, mailboxVars, linkVars, bodyVars>>

(* gmail_context once more, for the revision the body reads go by.  It     *)
(* asks for no lease and compares no revision: an execution whose row was  *)
(* changed since its save is overtaken (a history component), and goes on. *)
Reopen(r) ==
    /\ At(r, "reopening")
    /\ cursor' = Opened(runs[r].label)
    /\ SetRun(r, [runs[r] EXCEPT !.pc = "choosing", !.rev = cursor'.revision,
                                 !.overtaken = cursor.revision # runs[r].rev])
    /\ UNCHANGED <<scene, reviews, mailboxVars, stored, linkVars, bodyVars>>

(* _body_state: the lease and the cursor row are still the ones read.      *)
BodyState(r) == runs[r].live /\ CursorHolds(r)

LiveReader(m) == body[m].owner # None /\ runs[body[m].owner].live
Readable(m) ==
    /\ m \in stored /\ body[m].review /\ body[m].attempts < MaxAttempts /\ body[m].rested
    /\ \/ body[m].status = "missing"
       \/ body[m].status = "reading" /\ ~ LiveReader(m)

Budget(r) == Min({MaxReads, MaxGet - Cardinality(runs[r].eaten)})
OldestOf(S, n) == {T \in SUBSET S :
    /\ Cardinality(T) = Min({n, Cardinality(S)})
    /\ \A m \in T, k \in S \ T : m[2] <= k[2]}

(* body_capture_candidates; none where the capture is not enabled.         *)
Choose(r) ==
    /\ At(r, "choosing") /\ BodyState(r)
    /\ \E T \in OldestOf({m \in Messages : Readable(m) /\ m \in wanted}, Budget(r)) :
         SetRun(r, [runs[r] EXCEPT !.pc = "bodies", !.todo = T])
    /\ UNCHANGED <<scene, reviews, mailboxVars, cursor, stored, linkVars, bodyVars>>

(* claim_reply_body of the next candidate, or passing it over.             *)
MayClaim(m) == Readable(m) /\ m \in wanted

Claim(r) ==
    /\ At(r, "bodies") /\ runs[r].todo # {} /\ BodyState(r)
    /\ LET m == Oldest(runs[r].todo)
       IN  IF MayClaim(m)
           THEN LET attempt == body[m].attempts + 1
                IN  /\ body' = [body EXCEPT ![m] = [status |-> "reading", attempts |-> attempt,
                            rested |-> FALSE, owner |-> r, review |-> TRUE]]
                    /\ SetRun(r, [runs[r] EXCEPT !.pc = "reading", !.todo = runs[r].todo \ {m},
                                                 !.claim = [id |-> m, attempt |-> attempt]])
           ELSE /\ body' = body
                /\ SetRun(r, [runs[r] EXCEPT !.todo = runs[r].todo \ {m}])
    /\ UNCHANGED <<scene, reviews, mailboxVars, cursor, stored, linkVars, wanted>>

(* The full message: complete, changed or gone, or a refused response,     *)
(* after which the execution stops.                                        *)
ReadFull(r) ==
    /\ At(r, "reading")
    /\ \E f \in {"unavailable", "error"} \union
                (IF runs[r].claim.id \in lost THEN {} ELSE {"complete"}) :
         SetRun(r, [runs[r] EXCEPT !.pc = "capturing", !.full = f])
    /\ UNCHANGED <<scene, reviews, mailboxVars, cursor, stored, linkVars, bodyVars>>

(* save_reply_body: only for the claim that is still this execution's.     *)
OwnsCapture(r) ==
    LET c == runs[r].claim
    IN  /\ BodyState(r)
        /\ body[c.id].review /\ body[c.id].status = "reading"
        /\ body[c.id].owner = r /\ body[c.id].attempts = c.attempt

CapturedAsClaimed(r) == IF runs[r].full = "complete" THEN "complete" ELSE "unavailable"
Captured(r) == IF runs[r].full = "complete" /\ runs[r].claim.id \in wanted
               THEN "complete" ELSE "unavailable"

SaveBody(r) ==
    /\ At(r, "capturing") /\ OwnsCapture(r)
    /\ body' = [body EXCEPT ![runs[r].claim.id].status = Captured(r)]
    /\ IF runs[r].full = "error" THEN SetRun(r, End(r))
       ELSE SetRun(r, [runs[r] EXCEPT !.pc = "bodies", !.claim = None, !.full = None])
    /\ UNCHANGED <<scene, reviews, mailboxVars, cursor, stored, linkVars, wanted>>

(* finalize_reply_sync: the mailbox counts as read through when no page    *)
(* and no listed message is left, which is also true of a row just reset.  *)
ReadThroughPages == cursor.token = 0
ReadThrough == cursor.token = 0 /\ cursor.pending = {}

Finalize(r) ==
    /\ At(r, "bodies") /\ runs[r].todo = {} /\ BodyState(r)
    /\ cursor' = [cursor EXCEPT !.done =
                    IF ReadThrough THEN [top |-> cursor.top, overtaken |-> runs[r].overtaken]
                    ELSE cursor.done]
    /\ SetRun(r, End(r))
    /\ UNCHANGED <<scene, reviews, mailboxVars, stored, linkVars, bodyVars>>

(* queue_reply_body_read: a person asks for another attempt.               *)
RequestRead(m) ==
    /\ Interferes
    /\ desk = "creator" /\ m \in stored /\ body[m].review /\ m \in wanted
    /\ body[m].status # "complete" /\ body[m].attempts < MaxAttempts /\ body[m].rested
    /\ ~ (body[m].status = "reading" /\ LiveReader(m))
    /\ body' = [body EXCEPT ![m].status = "missing"]
    /\ UNCHANGED <<scene, mailboxVars, cursor, stored, linkVars, wanted, runs>>

(* review_reply settles a reply; the five minutes between two attempts     *)
(* pass; the creator opts out, is handed over or changes address.          *)
Review(m) ==
    /\ Interferes
    /\ desk = "creator" /\ m \in stored /\ body[m].review
    /\ body' = [body EXCEPT ![m].review = FALSE]
    /\ UNCHANGED <<scene, mailboxVars, cursor, stored, linkVars, wanted, runs>>

Rest(m) ==
    /\ ~ body[m].rested
    /\ body' = [body EXCEPT ![m].rested = TRUE]
    /\ UNCHANGED <<scene, reviews, mailboxVars, cursor, stored, linkVars, wanted, runs>>

OptOut(m) ==
    /\ Interferes
    /\ desk = "creator" /\ m \in wanted /\ m \in stored
    /\ wanted' = wanted \ {m}
    /\ UNCHANGED <<scene, mailboxVars, cursor, stored, linkVars, body, runs>>

-----------------------------------------------------------------------------
(* The mailbox and its configuration                                       *)

Arrive(l) ==
    /\ arrived[l] < scene.mail[l]
    /\ arrived' = [arrived EXCEPT ![l] = @ + 1]
    /\ UNCHANGED <<scene, reviews, label, relabels, lost, cursor, stored, linkVars, bodyVars, runs>>

Vanish(m) ==
    /\ m[2] <= arrived[m[1]] /\ m \notin lost /\ Cardinality(lost) < scene.losses
    /\ lost' = lost \union {m}
    /\ UNCHANGED <<scene, reviews, label, relabels, arrived, cursor, stored, linkVars, bodyVars, runs>>

Relabel ==
    /\ relabels < scene.relabels
    /\ \E l \in Labels \ {label} : label' = l
    /\ relabels' = relabels + 1
    /\ UNCHANGED <<scene, reviews, arrived, lost, cursor, stored, linkVars, bodyVars, runs>>

SyncStep(r) ==
    \/ Begin(r) \/ Open(r) \/ List(r) \/ Fetch(r) \/ Fail(r) \/ LoseLease(r)
    \/ StartSave(r) \/ CommitSave(r)
    \/ SaveReplies(r) \/ Reopen(r) \/ Choose(r) \/ Claim(r) \/ ReadFull(r)
    \/ SaveBody(r) \/ Finalize(r)

PersonStep ==
    \/ \E a \in Apps : RecordSubmitted(a) \/ \E m \in Messages : RecordReviewed(a, m)
    \/ \E m \in Messages : RequestRead(m) \/ Review(m) \/ OptOut(m)

MailboxStep ==
    \/ \E l \in Labels : Arrive(l)
    \/ \E m \in Messages : Vanish(m) \/ Rest(m)
    \/ Relabel

Next == (\E r \in Runs : SyncStep(r)) \/ PersonStep \/ MailboxStep

Spec == Init /\ [][Next]_vars

-----------------------------------------------------------------------------
Executions ==
    [pc : {"new", "opening", "listing", "fetching", "saving", "reopening", "choosing",
           "bodies", "reading", "capturing", "done"},
     live : BOOLEAN, label : Labels \union {None}, rev : Nat, token : Nat,
     pending : SUBSET Messages, top : Tops, got : SUBSET Messages, eaten : SUBSET Messages,
     overtaken : BOOLEAN,
     view : [Range(Thread) -> Bindings \union {None}] \union {Blank.view},
     known : SUBSET Apps, todo : SUBSET Messages,
     claim : [id : Messages, attempt : Nat] \union {None},
     full : {"unavailable", "error", "complete", None}]

TypeOK ==
    /\ scene \in Scenes /\ reviews \in Nat
    /\ label \in Labels /\ relabels \in Nat
    /\ arrived \in [Labels -> Nat] /\ \A l \in Labels : arrived[l] <= scene.mail[l]
    /\ lost \subseteq Messages /\ stored \subseteq Messages /\ wanted \subseteq Messages
    /\ cursor \in Cursors \union {None}
    /\ link \in [Messages -> Apps \union {None}]
    /\ threads \in [Range(Thread) -> Bindings \union {None}]
    /\ applied \subseteq Apps /\ events \subseteq Apps \X Messages
    /\ body \in [Messages -> [status : {"missing", "reading", "complete", "unavailable"},
                              attempts : 0 .. MaxAttempts, rested : BOOLEAN,
                              owner : Runs \union {None}, review : BOOLEAN]]
    /\ runs \in [Runs -> Executions]

(* No message of the label falls out of the paging: whatever the pass      *)
(* under way has listed has a row, is still to be read, was gone when it   *)
(* was read or answers another campaign; and nothing that has a row is     *)
(* waiting to be read again.  Syncs overlap, mail arrives between two      *)
(* pages and the label changes.                                            *)
Settled(m) == m \in stored \/ m \in lost \/ (desk = "creator" /\ m \in Foreign)
PassKept ==
    cursor # None =>
        /\ cursor.pending \intersect stored = {}
        /\ cursor.top # None =>
             \A i \in (IF cursor.token = 0 THEN 1 ELSE cursor.token) .. cursor.top :
               <<cursor.label, i>> \in cursor.pending \/ Settled(<<cursor.label, i>>)

(* What last_complete_at vouches for has been read: every message that was *)
(* in the label when the completed pass began.  The last check before a    *)
(* message to a creator relies on it.  A stamp that vouches for no pass at *)
(* all is written only by an execution that was overtaken, that is whose   *)
(* row was reset by an execution for another label between its save and    *)
(* its second gmail_context.                                               *)
CompleteMeansRead ==
    cursor # None /\ cursor.done # None =>
        IF cursor.done.top = None THEN cursor.done.overtaken
        ELSE \A i \in 1 .. cursor.done.top : Settled(<<cursor.label, i>>)

(* A message linked with an application agrees with the binding of its     *)
(* thread and with every event recorded for it, although a sync matches    *)
(* its batch on bindings it read before a person's review was committed.   *)
ThreadsAgree ==
    /\ \A m \in stored : link[m] # None =>
         /\ threads[Thread[m]] # None
         /\ threads[Thread[m]].app = link[m] /\ threads[Thread[m]].domain = Domain[m]
         /\ <<link[m], m>> \in events
    /\ \A e \in events : link[e[2]] = e[1]

(* What a person has decided about a thread, and what a message has been   *)
(* recorded for, no later sync takes back.                                 *)
DecisionsStand ==
    [][/\ \A m \in Messages : link[m] # None => link'[m] = link[m]
       /\ \A t \in DOMAIN threads :
            threads[t] # None => /\ threads'[t] # None /\ threads'[t].app = threads[t].app
                                 /\ threads[t].by = "manual" => threads'[t].by = "manual"
      ]_<<link, threads>>

(* A complete body is the evidence a reply is reviewed against: it is      *)
(* captured only while the reply is unreviewed, its creator may be written *)
(* to and the execution that asked for it still holds its lease, and it    *)
(* never changes afterwards.                                               *)
BodyStands ==
    [][\A m \in Messages :
         /\ body[m].status = "complete" => body'[m].status = "complete"
         /\ body'[m].status = "complete" /\ body[m].status # "complete" =>
              /\ body[m].review /\ m \in wanted
              /\ body[m].owner # None /\ runs[body[m].owner].live
      ]_body
=============================================================================
