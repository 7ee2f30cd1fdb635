------------------------ MODULE CreatorAutomationProofs ------------------------
(***************************************************************************)
(* Proofs about CreatorAutomation, for any number of campaigns, creators,  *)
(* runs, operators, workers and replies.                                   *)
(***************************************************************************)
EXTENDS CreatorAutomation, FiniteSetTheorems, TLAPS

-----------------------------------------------------------------------------
(* The inductive invariant.                                                *)

\* A run writes to prospects of its own campaign.
OwnCampaign == \A k \in Packets : k.run # NoRun => Campaign[k.prospect] = Grantee[k.run]

\* What of a stage has left for a creator.
SentTo(x, stage) == {k \in Packets : Are(k, x, stage, Beyond)}
Introduced(x) == SentTo(x, "initial") # {}

SentOnce == \A x \in Creators, stage \in Stages : \A j, k \in SentTo(x, stage) : j = k

\* Whoever got, answered or is interested in anything was introduced before.
IntroducedFirst ==
  /\ \A k \in Packets : packet[k] \in Beyond => Introduced(Creator[k.prospect])
  /\ \A p \in Prospects : status[p] = "interested" => Introduced(Creator[p])
  /\ \A m \in Replies : \A p \in answers[m] : Introduced(Creator[p])

\* A worker is at prospects of its run's campaign, and at an introduction only
\* while the allowance it read is not used up.
WorkersInCampaign ==
  \A w \in Workers : worker[w].step # "idle" =>
    /\ \A i \in worker[w].todo : Campaign[i[1]] = Grantee[worker[w].run]
    /\ worker[w].step = "authorize" =>
         /\ worker[w].item.run = worker[w].run
         /\ worker[w].item.stage = "initial" => worker[w].left > 0

\* What a pass has listed and taken off its list is stored or answers others.
Read(m, c) == <<m, c>> \in stored \/ AnswersOthersOnly(m, c)
PassesRead ==
  \A c \in Campaigns :
    /\ \A m \in sync[c].listed \ sync[c].left : Read(m, c)
    /\ \A m \in sync[c].complete : Read(m, c)

IInv ==
  /\ scene \in DOMAIN Scenes
  /\ TypeOK
  /\ OwnCampaign
  /\ SentOnce
  /\ IntroducedFirst
  /\ WorkersInCampaign
  /\ PassesRead
  /\ IsFiniteSet(recent)
  /\ BudgetKept

-----------------------------------------------------------------------------
(* The scene.                                                              *)

\* What the assumption says of the scene of a behaviour.
LEMMA SceneFacts ==
  ASSUME scene \in DOMAIN Scenes
  PROVE  /\ Campaign \in [Prospects -> Campaigns] /\ Creator \in [Prospects -> Creators]
         /\ Grantee \in [Runs -> Campaigns] /\ From \in [Replies -> Creators]
         /\ Synced \subseteq Campaigns
         /\ MaxInitials \in [Runs -> Nat \ {0}] /\ MaxEdits \in Nat \ {0}
         /\ FirstVersion \in Versions /\ Pitch \in [Versions -> Versions]
         /\ NoRun \notin Runs /\ ByHand \subseteq Prospects
  BY AutomationAssumption
     DEF Campaign, Prospects, Campaigns, Creator, Grantee, Runs, From, Replies, Synced,
         MaxInitials, MaxEdits, Versions, Pitch, ByHand

LEMMA MonitoredAreRuns ==
  ASSUME scene \in DOMAIN Scenes
  PROVE  Monitored \subseteq Runs
  BY AutomationAssumption DEF Monitored, Runs

LEMMA SceneStays ==
  ASSUME scene' = scene
  PROVE  /\ Campaigns' = Campaigns /\ Prospects' = Prospects /\ Runs' = Runs
         /\ Replies' = Replies /\ Workers' = Workers /\ Campaign' = Campaign
         /\ Creator' = Creator /\ Grantee' = Grantee /\ From' = From
         /\ About' = About /\ MaxInitials' = MaxInitials /\ Versions' = Versions /\ MaxEdits' = MaxEdits
         /\ Items' = Items /\ Contexts' = Contexts
  BY DEF Campaigns, Prospects, Runs, Replies, Workers, Campaign, Creator, Grantee, From,
         About, MaxInitials, Versions, MaxEdits, Items, Contexts

-----------------------------------------------------------------------------
(* What a step leaves alone.                                               *)

LEMMA RunsStay ==
  ASSUME IInv, scene' = scene, UNCHANGED runVars
  PROVE  RunsOK'
  BY SceneStays DEF IInv, TypeOK, RunsOK, runVars

LEMMA FactsStay ==
  ASSUME IInv, scene' = scene, UNCHANGED <<factVars, edits>>
  PROVE  FactsOK'
  BY SceneStays DEF IInv, TypeOK, FactsOK, factVars

LEMMA MailStays ==
  ASSUME IInv, scene' = scene, UNCHANGED mailVars
  PROVE  MailOK' /\ PassesRead'
<1>1. MailOK'
  BY SceneStays DEF IInv, TypeOK, MailOK, mailVars
<1>2. PassesRead'
  <2>1. \A m, c : Read(m, c)' = Read(m, c)
    BY SceneStays DEF Read, AnswersOthersOnly, Matched, mailVars
  <2>2. QED
    BY <2>1, SceneStays DEF IInv, PassesRead, mailVars
<1>3. QED
  BY <1>1, <1>2

\* Workers do not mind more packets.
LEMMA WorkersStay ==
  ASSUME IInv, scene' = scene, UNCHANGED worker, Packets \subseteq Packets'
  PROVE  WorkersOK' /\ WorkersInCampaign'
<1>1. AtWork' = AtWork /\ Authorizing \subseteq Authorizing'
  BY SceneStays DEF AtWork, Authorizing
<1>2. WorkersOK'
  BY <1>1, SceneStays DEF IInv, TypeOK, WorkersOK
<1>3. WorkersInCampaign'
  BY SceneStays DEF IInv, WorkersInCampaign
<1>4. QED
  BY <1>2, <1>3

\* Nothing leaves in a step, and nothing that left is called back.
NothingLeaves == \A x, stage : SentTo(x, stage)' = SentTo(x, stage)

LEMMA AnswerersStay ==
  ASSUME IInv, scene' = scene, NothingLeaves,
         \A p \in Prospects : status'[p] = "interested" => Introduced(Creator[p]),
         \A m \in Replies : \A p \in answers'[m] : Introduced(Creator[p])
  PROVE  SentOnce' /\ IntroducedFirst'
<1>1. \A x : Introduced(x)' = Introduced(x)
  BY DEF Introduced, NothingLeaves
<1>2. SentOnce'
  BY DEF IInv, SentOnce, NothingLeaves
<1>3. \A k \in Packets' : packet'[k] \in Beyond => Introduced(Creator[k.prospect])'
  <2> SUFFICES ASSUME NEW k \in Packets', packet'[k] \in Beyond
               PROVE  Introduced(Creator[k.prospect])'
    OBVIOUS
  <2>1. k \in SentTo(Creator[k.prospect], k.stage)'
    BY SceneStays DEF SentTo, Are
  <2>2. k \in SentTo(Creator[k.prospect], k.stage)
    BY <2>1, SceneStays DEF NothingLeaves
  <2>3. Introduced(Creator[k.prospect])
    BY <2>2 DEF SentTo, Are, IInv, IntroducedFirst
  <2>4. QED
    BY <1>1, <2>3, SceneStays
<1>4. QED
  BY <1>1, <1>2, <1>3, SceneStays DEF IntroducedFirst

\* A step that touches no packet.
LEMMA PacketsStay ==
  ASSUME IInv, scene' = scene, UNCHANGED packetVars
  PROVE  /\ PacketsOK' /\ OwnCampaign' /\ NothingLeaves /\ Packets' = Packets
         /\ IsFiniteSet(recent)' /\ BudgetKept'
<1>1. Packets' = Packets
  BY DEF Packets, packetVars
<1>2. PacketsOK' /\ OwnCampaign'
  BY <1>1, SceneStays DEF IInv, TypeOK, PacketsOK, OwnCampaign, packetVars
<1>3. NothingLeaves
  BY <1>1, SceneStays DEF NothingLeaves, SentTo, Are, packetVars
<1>4. IsFiniteSet(recent)' /\ BudgetKept'
  BY SceneStays DEF IInv, BudgetKept, packetVars
<1>5. QED
  BY <1>1, <1>2, <1>3, <1>4

\* The same without new answers.
LEMMA AnsweredAsBefore ==
  ASSUME IInv, scene' = scene, NothingLeaves, UNCHANGED <<status, answers>>
  PROVE  SentOnce' /\ IntroducedFirst'
  BY AnswerersStay DEF IInv, IntroducedFirst

\* What a step does to the facts of creators at most: opt-outs, which take the
\* interest with them ...
Quiet ==
  /\ suppressed \subseteq suppressed'
  /\ \A p \in Prospects : status'[p] = "interested" => status[p] = "interested"
  /\ \A p \in Prospects :
       status[p] = "interested" /\ status'[p] # "interested" => Creator[p] \in suppressed'

\* ... or another status for one prospect who had been introduced.
Answered ==
  /\ suppressed' = suppressed
  /\ \E p \in Prospects :
       Introduced(Creator[p]) /\ \A q \in Prospects \ {p} : status'[q] = status[q]

LEMMA SameFactsAreQuiet ==
  ASSUME UNCHANGED <<status, suppressed>>
  PROVE  Quiet
  BY DEF Quiet

-----------------------------------------------------------------------------
(* Packets.                                                                *)

\* The budget is about reservations of the last day only.
LEMMA BudgetStays ==
  ASSUME IInv, scene' = scene, recent' \subseteq recent
  PROVE  IsFiniteSet(recent)' /\ BudgetKept'
<1>1. IsFiniteSet(recent')
  BY FS_Subset DEF IInv
<1>2. BudgetKept'
  BY SceneStays DEF IInv, BudgetKept
<1>3. QED
  BY <1>1, <1>2

\* A decided packet gets another state on its side of the boundary.
LEMMA PacketMoves ==
  ASSUME IInv, scene' = scene, NEW k \in Packets, NEW state \in PacketStates \ {"pending"},
         packet' = [packet EXCEPT ![k] = state], state \in Beyond <=> packet[k] \in Beyond,
         reserved' = reserved, recent' = recent, doomed' \subseteq doomed
  PROVE  /\ PacketsOK' /\ OwnCampaign' /\ NothingLeaves /\ Packets' = Packets
         /\ IsFiniteSet(recent)' /\ BudgetKept'
<1>1. packet \in [Packets -> PacketStates] /\ Packets' = Packets
  BY DEF IInv, TypeOK, PacketsOK, Packets
<1>2. packet' \in [Packets -> PacketStates]
  BY <1>1
<1>3. PacketsOK'
  <2>1. \A j \in reserved : j.run # NoRun /\ packet'[j] # "pending"
    BY <1>1 DEF IInv, TypeOK, PacketsOK
  <2>2. QED
    BY <1>1, <1>2, <2>1, SceneStays DEF IInv, TypeOK, PacketsOK
<1>4. OwnCampaign'
  BY <1>1, SceneStays DEF IInv, OwnCampaign
<1>5. NothingLeaves
  <2>1. \A j \in Packets : packet'[j] \in Beyond <=> packet[j] \in Beyond
    BY <1>1
  <2>2. QED
    BY <1>1, <2>1, SceneStays DEF NothingLeaves, SentTo, Are
<1>6. IsFiniteSet(recent)' /\ BudgetKept'
  BY BudgetStays
<1>7. QED
  BY <1>1, <1>3, <1>4, <1>5, <1>6

\* A packet is prepared, by a run for its own campaign or by an operator.
LEMMA PacketAdded ==
  ASSUME IInv, scene' = scene, NEW k \in Contexts, k \notin Packets,
         k.run # NoRun => Campaign[k.prospect] = Grantee[k.run],
         packet' = With(k, "pending"), UNCHANGED <<reserved, recent, doomed>>
  PROVE  /\ PacketsOK' /\ OwnCampaign' /\ NothingLeaves /\ Packets \subseteq Packets'
         /\ k \in Packets' /\ IsFiniteSet(recent)' /\ BudgetKept'
<1>1. packet \in [Packets -> PacketStates]
  BY DEF IInv, TypeOK, PacketsOK
<1>2. Packets' = Packets \cup {k}
  BY DEF Packets, With
<1>3. packet'[k] = "pending" /\ \A j \in Packets : packet'[j] = packet[j]
  BY DEF With
<1>4. packet' \in [Packets \cup {k} -> PacketStates]
  BY <1>1 DEF With, PacketStates
<1>5. PacketsOK'
  BY <1>2, <1>3, <1>4, SceneStays DEF IInv, TypeOK, PacketsOK
<1>6. OwnCampaign'
  BY <1>2, SceneStays DEF IInv, OwnCampaign
<1>7. NothingLeaves
  BY <1>2, <1>3, SceneStays DEF NothingLeaves, SentTo, Are, Beyond
<1>8. IsFiniteSet(recent)' /\ BudgetKept'
  BY BudgetStays
<1>9. QED
  BY <1>2, <1>5, <1>6, <1>7, <1>8

\* A packet whose context is complete.
LEMMA NewContextIs ==
  ASSUME IInv, NEW p \in Prospects, NEW stage \in Stages, NEW r \in Runs \cup {NoRun},
         NEW text \in Texts, PlanAllows(NewContext(p, stage, r, text))
  PROVE  LET k == NewContext(p, stage, r, text)
         IN  /\ k \in Contexts /\ k \notin Packets
             /\ k.prospect = p /\ k.stage = stage /\ k.run = r
<1>1. PICK pitch : pitch = Pitch[version[Campaign[p]]]
  OBVIOUS
<1>2. PICK a : a = authorized[p]
  OBVIOUS
<1>3. Campaign[p] \in Campaigns /\ version \in [Campaigns -> Versions]
      /\ Pitch \in [Versions -> Versions]
  BY SceneFacts DEF IInv, TypeOK, FactsOK
<1>4. pitch \in Versions
  BY <1>1, <1>3
<1>5. NewContext(p, stage, r, text)
        = [prospect |-> p, stage |-> stage, run |-> r, text |-> text, pitch |-> pitch,
           authorization |-> a]
  BY <1>1, <1>2 DEF NewContext
<1>6. a \in 1 .. MaxEdits
  <2>1. a > 0
    BY <1>2, <1>5 DEF PlanAllows
  <2>2. a \in 0 .. MaxEdits /\ MaxEdits \in Nat
    BY <1>2, SceneFacts DEF IInv, TypeOK, FactsOK
  <2>3. QED
    BY <2>1, <2>2
<1>7. NewContext(p, stage, r, text) \notin Packets
  BY DEF PlanAllows
<1>8. QED
  BY <1>4, <1>5, <1>6, <1>7 DEF Contexts

\* A send: nothing of its stage had left for the creator; an introduction is the
\* first of all, a handover follows the introduction.
LEMMA SendLeaves ==
  ASSUME IInv, NEW k \in Packets, Send(k)
  PROVE  /\ k.prospect \in Prospects /\ k.stage \in Stages /\ Packets' = Packets
         /\ SentTo(Creator[k.prospect], k.stage) = {}
         /\ k.stage = "initial" => SentTo(Creator[k.prospect], "handoff") = {}
         /\ k.stage = "handoff" => /\ status[k.prospect] = "interested"
                                  /\ Introduced(Creator[k.prospect])
         /\ Creator[k.prospect] \notin suppressed
         /\ \A x, stage : SentTo(x, stage)' =
              IF x = Creator[k.prospect] /\ stage = k.stage THEN {k} ELSE SentTo(x, stage)
<1>1. k.prospect \in Prospects /\ k.stage \in Stages
  BY DEF IInv, TypeOK, PacketsOK, Contexts
<1>2. /\ packet \in [Packets -> PacketStates] /\ packet' = [packet EXCEPT ![k] = "executing"]
      /\ packet[k] = "queued" /\ scene' = scene
  BY DEF Send, Becomes, IInv, TypeOK, PacketsOK
<1>3. Packets' = Packets
  BY <1>2 DEF Packets
<1>4. \A j \in Packets : Creator[j.prospect] = Creator[k.prospect] /\ packet[j] \in Beyond
        => k.stage # "initial" /\ j.stage # "handoff"
  BY <1>2 DEF Send, Duplicate, Beyond, Active
<1>5. /\ SentTo(Creator[k.prospect], k.stage) = {}
      /\ k.stage = "initial" => SentTo(Creator[k.prospect], "handoff") = {}
  BY <1>1, <1>4 DEF SentTo, Are, Stages
<1>6. k.stage = "handoff" => status[k.prospect] = "interested"
  BY DEF Send, ContextHolds, StageStatus
<1>7. k.stage = "handoff" => Introduced(Creator[k.prospect])
  BY <1>1, <1>6 DEF IInv, IntroducedFirst
<1>8. ASSUME NEW x, NEW stage
      PROVE  SentTo(x, stage)' =
               IF x = Creator[k.prospect] /\ stage = k.stage THEN {k} ELSE SentTo(x, stage)
  <2>1. SentTo(x, stage)' = {j \in Packets : Creator[j.prospect] = x /\ j.stage = stage
                                          /\ packet'[j] \in Beyond}
    BY <1>2, <1>3, SceneStays DEF SentTo, Are
  <2>2. \A j \in Packets : packet'[j] \in Beyond <=> packet[j] \in Beyond \/ j = k
    BY <1>2 DEF Beyond
  <2>3. CASE x = Creator[k.prospect] /\ stage = k.stage
    BY <1>5, <2>1, <2>2, <2>3 DEF SentTo, Are
  <2>4. CASE ~ (x = Creator[k.prospect] /\ stage = k.stage)
    BY <2>1, <2>2, <2>4 DEF SentTo, Are
  <2>5. QED
    BY <2>3, <2>4
<1>9. Creator[k.prospect] \notin suppressed
  BY DEF Send
<1>10. QED
  BY <1>1, <1>3, <1>5, <1>6, <1>7, <1>8, <1>9

-----------------------------------------------------------------------------
(* The steps.                                                              *)

LEMMA InitIInv == Init => IInv
<1> SUFFICES ASSUME Init PROVE IInv
  OBVIOUS
<1>1. scene \in DOMAIN Scenes
  BY DEF Init
<1>2. packet = [k \in {} |-> "pending"] /\ Packets = {}
  BY DEF Init, Packets
<1>3. RunsOK
  BY <1>1, SceneFacts DEF Init, RunsOK
<1>4. FactsOK
  BY <1>1, SceneFacts DEF Init, FactsOK, Statuses
<1>5. PacketsOK
  BY <1>2 DEF Init, PacketsOK
<1>6. WorkersOK
  BY DEF Init, WorkersOK
<1>7. MailOK
  BY DEF Init, MailOK, Unread
<1>8. OwnCampaign /\ SentOnce /\ IntroducedFirst
  BY <1>2 DEF Init, OwnCampaign, SentOnce, SentTo, IntroducedFirst
<1>9. WorkersInCampaign /\ PassesRead
  BY DEF Init, WorkersInCampaign, Idle, PassesRead, Unread
<1>10. IsFiniteSet(recent) /\ BudgetKept
  <2>1. recent = {}
    BY DEF Init
  <2>2. (SUBSET recent) \ {{}} = {}
    BY <2>1
  <2>3. QED
    BY <2>1, <2>2, FS_EmptySet DEF BudgetKept
<1>11. QED
  BY <1>1, <1>3, <1>4, <1>5, <1>6, <1>7, <1>8, <1>9, <1>10 DEF IInv, TypeOK

LEMMA StartKeepsRuns ==
  ASSUME IInv, NEW r \in Runs, Start(r)
  PROVE  RunsOK'
<1>1. run \in [Runs -> [state : {"none", "running", "paused", "expired", "blocked"},
                       version : Versions]]
  BY DEF IInv, TypeOK, RunsOK
<1>2. PICK v : v = version[Grantee[r]]
  OBVIOUS
<1>3. v \in Versions
  BY <1>2, SceneFacts DEF IInv, TypeOK, FactsOK
<1>4. run' = [s \in Runs |->
         IF s = r THEN [state |-> "running", version |-> v]
         ELSE IF Grantee[s] = Grantee[r] /\ run[s].state = "running"
              THEN [run[s] EXCEPT !.state = "paused"] ELSE run[s]]
  BY <1>2 DEF Start
<1>5. run' \in [Runs -> [state : {"none", "running", "paused", "expired", "blocked"},
                        version : Versions]]
  BY <1>1, <1>3, <1>4
<1>6. \A s, q \in Runs : run'[s].state = "running" /\ run'[q].state = "running"
                          /\ Grantee[s] = Grantee[q] => s = q
  <2>1. \A s \in Runs \ {r} : run'[s].state = "running" =>
          Grantee[s] # Grantee[r] /\ run[s].state = "running"
    BY <1>1, <1>4
  <2>2. QED
    BY <2>1 DEF IInv, TypeOK, RunsOK
<1>7. QED
  BY <1>5, <1>6, SceneStays DEF IInv, TypeOK, RunsOK, Start

LEMMA RunKeeps ==
  ASSUME IInv, NEW r \in Runs, Start(r) \/ Pause(r) \/ Lapse(r) \/ Expire(r) \/ Block(r)
  PROVE  IInv' /\ NothingLeaves
<1>1. scene' = scene /\ UNCHANGED <<factVars, packetVars, worker, mailVars, edits>>
  BY DEF Start, Pause, Lapse, Expire, Block
<1>2. RunsOK'
  <2>1. CASE Start(r)
    BY <2>1, StartKeepsRuns
  <2>2. ASSUME NEW state \in {"paused", "expired", "blocked"},
               run' = [run EXCEPT ![r].state = state], UNCHANGED lapsed
        PROVE  RunsOK'
    BY <1>1, <2>2, SceneStays DEF IInv, TypeOK, RunsOK
  <2>3. CASE Lapse(r)
    BY <1>1, <2>3, SceneStays DEF IInv, TypeOK, RunsOK, Lapse
  <2>4. QED
    BY <2>1, <2>2, <2>3 DEF Pause, Expire, Block
<1>3. /\ FactsOK' /\ MailOK' /\ PassesRead'
  BY <1>1, FactsStay, MailStays
<1>4. /\ PacketsOK' /\ OwnCampaign' /\ NothingLeaves /\ Packets' = Packets
      /\ IsFiniteSet(recent)' /\ BudgetKept'
  BY <1>1, PacketsStay
<1>5. WorkersOK' /\ WorkersInCampaign'
  BY <1>1, <1>4, WorkersStay
<1>6. SentOnce' /\ IntroducedFirst'
  BY <1>1, <1>4, AnsweredAsBefore DEF factVars, mailVars
<1>7. QED
  BY <1>1, <1>2, <1>3, <1>4, <1>5, <1>6 DEF IInv, TypeOK

\* Steps that change nothing but packets in the tables.
LEMMA PacketStepKeeps ==
  ASSUME IInv, scene' = scene, UNCHANGED <<runVars, factVars, worker, mailVars, edits>>,
         PacketsOK', OwnCampaign', NothingLeaves, Packets \subseteq Packets',
         IsFiniteSet(recent)', BudgetKept'
  PROVE  IInv'
<1>1. RunsOK' /\ FactsOK' /\ MailOK' /\ PassesRead'
  BY RunsStay, FactsStay, MailStays
<1>2. WorkersOK' /\ WorkersInCampaign'
  BY WorkersStay
<1>3. SentOnce' /\ IntroducedFirst'
  BY AnsweredAsBefore DEF factVars, mailVars
<1>4. QED
  BY <1>1, <1>2, <1>3 DEF IInv, TypeOK

LEMMA CancellationKeeps ==
  ASSUME IInv, SelectStopped \/ \E k \in doomed : CancelStopped(k)
  PROVE  IInv' /\ NothingLeaves
<1>1. scene' = scene /\ UNCHANGED <<runVars, factVars, worker, mailVars, edits>>
  BY DEF SelectStopped, CancelStopped
<1>2. CASE SelectStopped
  <2>1. packet' = packet /\ reserved' = reserved /\ recent' = recent
        /\ doomed' = doomed \cup StoppedPackets
    BY <1>2 DEF SelectStopped
  <2>2. Packets' = Packets /\ doomed' \subseteq Packets
    BY <2>1 DEF Packets, StoppedPackets, IInv, TypeOK, PacketsOK
  <2>3. PacketsOK' /\ OwnCampaign'
    BY <1>1, <2>1, <2>2, SceneStays DEF IInv, TypeOK, PacketsOK, OwnCampaign
  <2>4. NothingLeaves
    BY <1>1, <2>1, <2>2, SceneStays DEF NothingLeaves, SentTo, Are
  <2>5. IsFiniteSet(recent)' /\ BudgetKept'
    BY <1>1, <2>1, BudgetStays
  <2>6. QED
    BY <1>1, <2>2, <2>3, <2>4, <2>5, PacketStepKeeps
<1>3. ASSUME NEW k \in doomed, CancelStopped(k) PROVE IInv' /\ NothingLeaves
  <2>1. /\ k \in Packets /\ packet \in [Packets -> PacketStates]
        /\ packet' = [packet EXCEPT ![k] = Cancelled(k)]
        /\ reserved' = reserved /\ recent' = recent /\ doomed' \subseteq doomed
    BY <1>3 DEF CancelStopped, IInv, TypeOK, PacketsOK
  <2>2. /\ Cancelled(k) \in PacketStates \ {"pending"}
        /\ Cancelled(k) \in Beyond <=> packet[k] \in Beyond
    BY <2>1 DEF Cancelled, PacketStates, Beyond
  <2>3. /\ PacketsOK' /\ OwnCampaign' /\ NothingLeaves /\ Packets' = Packets
        /\ IsFiniteSet(recent)' /\ BudgetKept'
    BY <1>1, <2>1, <2>2, PacketMoves
  <2>4. QED
    BY <1>1, <2>3, PacketStepKeeps
<1>4. QED
  BY <1>2, <1>3

\* Operators decide; a guard refuses; a send ends without an answer.
LEMMA DecisionKeeps ==
  ASSUME IInv, NEW k \in Packets, Approve(k) \/ Withdraw(k) \/ Refuse(k) \/ Ambiguous(k)
  PROVE  IInv' /\ NothingLeaves
<1>1. scene' = scene /\ UNCHANGED <<runVars, factVars, worker, mailVars, edits>>
  BY DEF Approve, Withdraw, Refuse, Ambiguous, Becomes
<1>2. PICK state \in PacketStates \ {"pending"} :
        /\ packet' = [packet EXCEPT ![k] = state]
        /\ state \in Beyond <=> packet[k] \in Beyond
        /\ reserved' = reserved /\ recent' = recent /\ doomed' = doomed
  BY DEF Approve, Withdraw, Refuse, Ambiguous, Becomes, PacketStates, Beyond
<1>3. /\ PacketsOK' /\ OwnCampaign' /\ NothingLeaves /\ Packets' = Packets
      /\ IsFiniteSet(recent)' /\ BudgetKept'
  BY <1>1, <1>2, PacketMoves
<1>4. QED
  BY <1>1, <1>3, PacketStepKeeps

LEMMA AgesKeeps ==
  ASSUME IInv, NEW k \in Packets, Ages(k)
  PROVE  IInv' /\ NothingLeaves
<1>1. /\ scene' = scene /\ UNCHANGED <<runVars, factVars, worker, mailVars, edits>>
      /\ UNCHANGED <<packet, reserved, doomed>> /\ recent' = recent \ {k}
  BY DEF Ages
<1>2. Packets' = Packets
  BY <1>1 DEF Packets
<1>3. PacketsOK' /\ OwnCampaign' /\ NothingLeaves
  BY <1>1, <1>2, SceneStays DEF IInv, TypeOK, PacketsOK, OwnCampaign, NothingLeaves, SentTo, Are
<1>4. IsFiniteSet(recent)' /\ BudgetKept'
  BY <1>1, BudgetStays
<1>5. QED
  BY <1>1, <1>2, <1>3, <1>4, PacketStepKeeps

LEMMA OperatorPlansKeeps ==
  ASSUME IInv, NEW p \in Prospects, NEW stage \in Stages, NEW text \in Texts,
         OperatorPlans(p, stage, text)
  PROVE  IInv' /\ NothingLeaves
<1>1. PICK k : k = NewContext(p, stage, NoRun, text)
  OBVIOUS
<1>2. /\ scene' = scene /\ UNCHANGED <<runVars, factVars, worker, mailVars, edits>>
      /\ UNCHANGED <<reserved, recent, doomed>> /\ packet' = With(k, "pending")
      /\ PlanAllows(k)
  BY <1>1 DEF OperatorPlans
<1>3. k \in Contexts /\ k \notin Packets /\ k.run = NoRun
  BY <1>1, <1>2, NewContextIs
<1>4. /\ PacketsOK' /\ OwnCampaign' /\ NothingLeaves /\ Packets \subseteq Packets'
      /\ IsFiniteSet(recent)' /\ BudgetKept'
  BY <1>2, <1>3, PacketAdded
<1>5. QED
  BY <1>2, <1>4, PacketStepKeeps

LEMMA SendKeeps ==
  ASSUME IInv, NEW k \in Packets, Send(k)
  PROVE  IInv'
<1>1. /\ scene' = scene /\ UNCHANGED <<runVars, factVars, worker, mailVars, edits>>
      /\ UNCHANGED <<reserved, recent, doomed>>
      /\ packet' = [packet EXCEPT ![k] = "executing"]
  BY DEF Send, Becomes
<1>2. PICK x, stage : x = Creator[k.prospect] /\ stage = k.stage
  OBVIOUS
<1>3. /\ k.prospect \in Prospects /\ stage \in Stages /\ Packets' = Packets
      /\ SentTo(x, stage) = {}
      /\ stage = "handoff" => Introduced(x)
      /\ \A y, other : SentTo(y, other)' = IF y = x /\ other = stage THEN {k} ELSE SentTo(y, other)
  BY <1>2, SendLeaves
<1>4. packet \in [Packets -> PacketStates]
  BY DEF IInv, TypeOK, PacketsOK
<1>5. PacketsOK'
  <2>1. packet' \in [Packets -> PacketStates]
    BY <1>1, <1>4 DEF PacketStates
  <2>2. \A j \in reserved : j.run # NoRun /\ packet'[j] # "pending"
    BY <1>1, <1>4 DEF IInv, TypeOK, PacketsOK
  <2>3. QED
    BY <1>1, <1>3, <2>1, <2>2, SceneStays DEF IInv, TypeOK, PacketsOK
<1>6. OwnCampaign'
  BY <1>1, <1>3, SceneStays DEF IInv, OwnCampaign
<1>7. IsFiniteSet(recent)' /\ BudgetKept'
  BY <1>1, BudgetStays
<1>8. SentOnce'
  BY <1>3 DEF IInv, SentOnce
<1>9. IntroducedFirst'
  <2>1. \A y : Introduced(y) => Introduced(y)'
    BY <1>3 DEF Introduced
  <2>2. Introduced(x)'
    BY <1>2, <1>3, <2>1 DEF Introduced, Stages
  <2>3. ASSUME NEW j \in Packets', packet'[j] \in Beyond PROVE Introduced(Creator[j.prospect])'
    <3>1. CASE j = k
      BY <1>1, <1>2, <2>2, <3>1, SceneStays
    <3>2. CASE j # k
      BY <1>1, <1>3, <1>4, <2>1, <2>3, <3>2, SceneStays DEF IInv, IntroducedFirst
    <3>3. QED
      BY <3>1, <3>2
  <2>4. /\ \A p \in Prospects : status'[p] = "interested" => Introduced(Creator[p])'
        /\ \A m \in Replies : \A p \in answers'[m] : Introduced(Creator[p])'
    BY <1>1, <2>1, SceneStays DEF IInv, IntroducedFirst, factVars, mailVars
  <2>5. QED
    BY <1>1, <2>3, <2>4, SceneStays DEF IntroducedFirst
<1>10. RunsOK' /\ FactsOK' /\ MailOK' /\ PassesRead'
  BY <1>1, RunsStay, FactsStay, MailStays
<1>11. WorkersOK' /\ WorkersInCampaign'
  BY <1>1, <1>3, WorkersStay
<1>12. QED
  BY <1>1, <1>5, <1>6, <1>7, <1>8, <1>9, <1>10, <1>11 DEF IInv, TypeOK

LEMMA SucceedKeeps ==
  ASSUME IInv, NEW k \in Packets, Succeed(k)
  PROVE  IInv' /\ NothingLeaves /\ Answered
<1>1. /\ scene' = scene /\ UNCHANGED <<runVars, worker, mailVars, edits>>
      /\ UNCHANGED <<reserved, recent, doomed>> /\ packet[k] = "executing"
      /\ packet' = [packet EXCEPT ![k] = "succeeded"]
      /\ UNCHANGED <<version, authorized, researched, noted, suppressed>>
  BY DEF Succeed, Becomes
<1>2. /\ PacketsOK' /\ OwnCampaign' /\ NothingLeaves /\ Packets' = Packets
      /\ IsFiniteSet(recent)' /\ BudgetKept'
  BY <1>1, PacketMoves DEF PacketStates, Beyond
<1>3. /\ status' \in [Prospects -> Statuses]
      /\ \A p \in Prospects : status'[p] = "interested" => status[p] = "interested"
  <2>1. status \in [Prospects -> Statuses]
    BY DEF IInv, TypeOK, FactsOK
  <2>2. k.prospect \in Prospects => HandedOver(k.prospect) \in Statuses \ {"interested"}
    BY <2>1 DEF HandedOver, Statuses
  <2>3. QED
    BY <2>1, <2>2 DEF Succeed
<1>4. FactsOK'
  BY <1>1, <1>3, SceneStays DEF IInv, TypeOK, FactsOK
<1>5. SentOnce' /\ IntroducedFirst'
  BY <1>1, <1>2, <1>3, AnswerersStay DEF IInv, IntroducedFirst, mailVars
<1>6. RunsOK' /\ MailOK' /\ PassesRead'
  BY <1>1, RunsStay, MailStays
<1>7. WorkersOK' /\ WorkersInCampaign'
  BY <1>1, <1>2, WorkersStay
<1>8. Answered
  <2>1. k.prospect \in Prospects /\ Introduced(Creator[k.prospect])
    BY <1>1 DEF IInv, TypeOK, PacketsOK, Contexts, IntroducedFirst, Beyond
  <2>2. \A q \in Prospects \ {k.prospect} : status'[q] = status[q]
    BY <2>1 DEF Succeed, IInv, TypeOK, FactsOK
  <2>3. QED
    BY <1>1, <2>1, <2>2 DEF Answered
<1>9. QED
  BY <1>1, <1>2, <1>4, <1>5, <1>6, <1>7, <1>8 DEF IInv, TypeOK

-----------------------------------------------------------------------------
(* Workers.                                                                *)

\* What a worker is at, by its step.
LEMMA WorkerIs ==
  ASSUME IInv, NEW w \in Workers
  PROVE  /\ worker \in [Workers -> {Idle} \cup AtWork \cup Authorizing]
         /\ worker[w].step = "loop" => worker[w] \in AtWork
         /\ worker[w].step = "authorize" => worker[w] \in Authorizing
         /\ worker[w].step # "idle" => worker[w] \in AtWork \cup Authorizing
         /\ worker[w] \in AtWork \cup Authorizing => worker[w].step # "idle"
<1>1. worker \in [Workers -> {Idle} \cup AtWork \cup Authorizing]
  BY DEF IInv, TypeOK, WorkersOK
<1>2. /\ Idle.step = "idle" /\ \A x \in AtWork : x.step = "loop"
      /\ \A x \in Authorizing : x.step = "authorize"
  BY DEF Idle, AtWork, Authorizing
<1>3. worker[w] \in {Idle} \cup AtWork \cup Authorizing
  BY <1>1
<1>4. QED
  BY <1>1, <1>2, <1>3

\* A worker may be at this record of a run's tick.
InCampaign(x) ==
  x.step # "idle" =>
    /\ \A i \in x.todo : Campaign[i[1]] = Grantee[x.run]
    /\ x.step = "authorize" =>
         x.item.run = x.run /\ (x.item.stage = "initial" => x.left > 0)

LEMMA WorkerMoves ==
  ASSUME IInv, scene' = scene, UNCHANGED <<runVars, factVars, mailVars, edits>>,
         NEW w \in Workers, NEW x, worker' = [worker EXCEPT ![w] = x], InCampaign(x),
         x \in {Idle} \cup AtWork \cup Authorizing \/ x \in Authorizing',
         PacketsOK', OwnCampaign', NothingLeaves, Packets \subseteq Packets',
         IsFiniteSet(recent)', BudgetKept'
  PROVE  IInv'
<1>1. worker \in [Workers -> {Idle} \cup AtWork \cup Authorizing]
  BY WorkerIs
<1>2. AtWork' = AtWork /\ Authorizing \subseteq Authorizing'
  BY SceneStays DEF AtWork, Authorizing
<1>3. worker' \in [Workers -> {Idle} \cup AtWork' \cup Authorizing']
  BY <1>1, <1>2
<1>4. WorkersOK'
  BY <1>3, SceneStays DEF WorkersOK
<1>5. WorkersInCampaign'
  <2>1. \A v \in Workers : InCampaign(worker'[v])
    BY <1>1 DEF IInv, WorkersInCampaign, InCampaign
  <2>2. QED
    BY <2>1, SceneStays DEF WorkersInCampaign, InCampaign
<1>6. RunsOK' /\ FactsOK' /\ MailOK' /\ PassesRead'
  BY RunsStay, FactsStay, MailStays
<1>7. SentOnce' /\ IntroducedFirst'
  BY AnsweredAsBefore DEF factVars, mailVars
<1>8. QED
  BY <1>4, <1>5, <1>6, <1>7 DEF IInv, TypeOK

LEMMA BeginKeeps ==
  ASSUME IInv, NEW w \in Workers, NEW r \in Runs, Begin(w, r)
  PROVE  IInv' /\ NothingLeaves
<1>1. PICK todo, left : todo = Candidates(r) /\ left = Allowance(r)
  OBVIOUS
<1>2. PICK x : x = [step |-> "loop", run |-> r, owns |-> TRUE, todo |-> todo, left |-> left]
  OBVIOUS
<1>3. /\ scene' = scene /\ UNCHANGED <<runVars, factVars, packetVars, mailVars, edits>>
      /\ worker' = [worker EXCEPT ![w] = x]
  BY <1>1, <1>2 DEF Begin
<1>4. todo \in SUBSET Items /\ \A i \in todo : Campaign[i[1]] = Grantee[r]
  BY <1>1 DEF Candidates
<1>5. left \in Nat
  <2>1. MaxInitials[r] \in Nat
    BY SceneFacts DEF IInv
  <2>2. UsedToday(Grantee[r]) \in Nat
    BY FS_Subset, FS_CardinalityType DEF IInv, UsedToday
  <2>3. QED
    BY <1>1, <2>1, <2>2 DEF Allowance
<1>6. x \in AtWork /\ InCampaign(x)
  BY <1>2, <1>4, <1>5 DEF AtWork, InCampaign
<1>7. /\ PacketsOK' /\ OwnCampaign' /\ NothingLeaves /\ Packets' = Packets
      /\ IsFiniteSet(recent)' /\ BudgetKept'
  BY <1>3, PacketsStay
<1>8. QED
  BY <1>3, <1>6, <1>7, WorkerMoves

\* An item of the loop, taken up with a packet of the same run.
LEMMA TakenUp ==
  ASSUME IInv, NEW w \in Workers, worker[w].step = "loop", NEW i \in worker[w].todo,
         WithinAllowance(w, i), NEW k, k.run = worker[w].run, k.stage = i[2]
  PROVE  /\ InCampaign(ToAuthorize(w, i, k))
         /\ k \in Packets => ToAuthorize(w, i, k) \in Authorizing
         /\ (scene' = scene /\ k \in Packets') => ToAuthorize(w, i, k) \in Authorizing'
<1>1. worker[w] \in AtWork
  BY WorkerIs
<1>2. PICK r, owns, todo, left :
        /\ r = worker[w].run /\ owns = worker[w].owns /\ todo = worker[w].todo \ {i}
        /\ left = worker[w].left
  OBVIOUS
<1>3. r \in Runs /\ owns \in BOOLEAN /\ todo \in SUBSET Items /\ left \in Nat
  BY <1>1, <1>2 DEF AtWork
<1>4. PICK x : x = [step |-> "authorize", run |-> r, owns |-> owns, todo |-> todo, left |-> left,
                    item |-> k]
  OBVIOUS
<1>5. ToAuthorize(w, i, k) = x
  BY <1>2, <1>4 DEF ToAuthorize
<1>6. \A j \in todo : Campaign[j[1]] = Grantee[r]
  BY <1>2 DEF IInv, WorkersInCampaign
<1>7. i[2] = "initial" => left > 0
  BY <1>2 DEF WithinAllowance
<1>8. InCampaign(x)
  BY <1>2, <1>4, <1>6, <1>7 DEF InCampaign
<1>9. k \in Packets => x \in Authorizing
  BY <1>3, <1>4 DEF Authorizing
<1>10. (scene' = scene /\ k \in Packets') => x \in Authorizing'
  BY <1>3, <1>4, SceneStays DEF Authorizing
<1>11. QED
  BY <1>5, <1>8, <1>9, <1>10

LEMMA ReuseKeeps ==
  ASSUME IInv, NEW w \in Workers, Reuse(w)
  PROVE  IInv' /\ NothingLeaves
<1>0. PICK i \in worker[w].todo :
        \E k \in Reusable(worker[w].run, i) :
          WithinAllowance(w, i) /\ worker' = [worker EXCEPT ![w] = ToAuthorize(w, i, k)]
  BY DEF Reuse
<1>1. PICK k \in Reusable(worker[w].run, i) :
        WithinAllowance(w, i) /\ worker' = [worker EXCEPT ![w] = ToAuthorize(w, i, k)]
  BY <1>0
<1>2. /\ worker[w].step = "loop" /\ scene' = scene
      /\ UNCHANGED <<runVars, factVars, packetVars, mailVars, edits>>
  BY DEF Reuse
<1>3. k \in Packets /\ k.run = worker[w].run /\ k.stage = i[2]
  BY <1>1 DEF Reusable
<1>4. PICK x : x = ToAuthorize(w, i, k)
  OBVIOUS
<1>5. x \in Authorizing /\ InCampaign(x)
  BY <1>1, <1>2, <1>3, <1>4, TakenUp
<1>6. /\ PacketsOK' /\ OwnCampaign' /\ NothingLeaves /\ Packets' = Packets
      /\ IsFiniteSet(recent)' /\ BudgetKept'
  BY <1>2, PacketsStay
<1>7. QED
  BY <1>1, <1>2, <1>4, <1>5, <1>6, WorkerMoves

LEMMA PlanKeeps ==
  ASSUME IInv, NEW w \in Workers, Plan(w)
  PROVE  IInv' /\ NothingLeaves
<1>1. PICK i \in worker[w].todo, text \in Texts :
        LET k == NewContext(i[1], i[2], worker[w].run, text) IN
        /\ WithinAllowance(w, i) /\ PlanAllows(k)
        /\ packet' = With(k, "pending")
        /\ worker' = [worker EXCEPT ![w] = ToAuthorize(w, i, k)]
  BY DEF Plan
<1>2. PICK k : k = NewContext(i[1], i[2], worker[w].run, text)
  OBVIOUS
<1>3. /\ worker[w].step = "loop" /\ scene' = scene
      /\ UNCHANGED <<runVars, factVars, reserved, recent, doomed, mailVars, edits>>
  BY DEF Plan
<1>4. worker[w] \in AtWork
  BY <1>3, WorkerIs
<1>5. /\ i[1] \in Prospects /\ i[2] \in Stages /\ worker[w].run \in Runs
      /\ Campaign[i[1]] = Grantee[worker[w].run]
  BY <1>3, <1>4 DEF AtWork, Items, IInv, WorkersInCampaign
<1>6. k \in Contexts /\ k \notin Packets /\ k.prospect = i[1] /\ k.stage = i[2]
      /\ k.run = worker[w].run
  BY <1>1, <1>2, <1>5, NewContextIs
<1>7. /\ PacketsOK' /\ OwnCampaign' /\ NothingLeaves /\ Packets \subseteq Packets'
      /\ k \in Packets' /\ IsFiniteSet(recent)' /\ BudgetKept'
  BY <1>1, <1>2, <1>3, <1>5, <1>6, PacketAdded
<1>8. PICK x : x = ToAuthorize(w, i, k)
  OBVIOUS
<1>9. x \in Authorizing' /\ InCampaign(x)
  BY <1>1, <1>3, <1>6, <1>7, <1>8, TakenUp
<1>10. worker' = [worker EXCEPT ![w] = x]
  BY <1>1, <1>2, <1>8
<1>11. QED
  BY <1>3, <1>7, <1>9, <1>10, WorkerMoves

\* A worker that goes on with its tick.
LEMMA BackInLoop ==
  ASSUME IInv, NEW w \in Workers, worker[w].step # "idle"
  PROVE  /\ BackToLoop(w) \in AtWork /\ InCampaign(BackToLoop(w))
         /\ worker[w].left > 0 =>
              /\ [BackToLoop(w) EXCEPT !.left = @ - 1] \in AtWork
              /\ InCampaign([BackToLoop(w) EXCEPT !.left = @ - 1])
<1>1. worker[w] \in AtWork \cup Authorizing
  BY WorkerIs
<1>2. PICK r, owns, todo, left :
        /\ r = worker[w].run /\ owns = worker[w].owns /\ todo = worker[w].todo
        /\ left = worker[w].left
  OBVIOUS
<1>3. r \in Runs /\ owns \in BOOLEAN /\ todo \in SUBSET Items /\ left \in Nat
  BY <1>1, <1>2 DEF AtWork, Authorizing
<1>4. \A j \in todo : Campaign[j[1]] = Grantee[r]
  BY <1>2 DEF IInv, WorkersInCampaign
<1>5. BackToLoop(w) = [step |-> "loop", run |-> r, owns |-> owns, todo |-> todo, left |-> left]
  BY <1>2 DEF BackToLoop
<1>6. [BackToLoop(w) EXCEPT !.left = @ - 1]
        = [step |-> "loop", run |-> r, owns |-> owns, todo |-> todo, left |-> left - 1]
  BY <1>5
<1>7. left > 0 => left - 1 \in Nat
  BY <1>3
<1>8. BackToLoop(w) \in AtWork /\ InCampaign(BackToLoop(w))
  BY <1>3, <1>4, <1>5 DEF AtWork, InCampaign
<1>9. ASSUME left > 0
      PROVE  /\ [BackToLoop(w) EXCEPT !.left = @ - 1] \in AtWork
             /\ InCampaign([BackToLoop(w) EXCEPT !.left = @ - 1])
  BY <1>3, <1>4, <1>6, <1>7, <1>9 DEF AtWork, InCampaign
<1>10. QED
  BY <1>2, <1>8, <1>9

\* The count of the day, repeated at the reservation, leaves room for one.
LEMMA AuthorizeKeepsBudget ==
  ASSUME IInv, NEW k, IsFiniteSet(recent), scene' = scene, recent' = recent \cup {k},
         k.run \in Runs,
         k.stage = "initial" => UsedToday(Campaign[k.prospect]) < MaxInitials[k.run]
  PROVE  IsFiniteSet(recent)' /\ BudgetKept'
<1>1. IsFiniteSet(recent')
  BY FS_AddElement
<1>2. MaxInitials[k.run] \in Nat
  BY SceneFacts DEF IInv
<1>3. ASSUME NEW c \in Campaigns, NEW K \in (SUBSET recent') \ {{}},
             \A j \in K : j.stage = "initial" /\ Campaign[j.prospect] = c
      PROVE  \E j \in K : Cardinality(K) <= MaxInitials[j.run]
  <2>1. CASE k \notin K
    <3>1. K \in (SUBSET recent) \ {{}}
      BY <2>1
    <3>2. QED
      BY <1>3, <3>1 DEF IInv, BudgetKept
  <2>2. CASE k \in K
    <3>1. PICK U : U = {j \in recent : j.stage = "initial" /\ Campaign[j.prospect] = c}
      OBVIOUS
    <3>2. Cardinality(U) < MaxInitials[k.run]
      BY <1>3, <2>2, <3>1 DEF UsedToday
    <3>3. IsFiniteSet(U) /\ Cardinality(U) \in Nat
      BY <3>1, FS_Subset, FS_CardinalityType
    <3>4. K \subseteq U \cup {k}
      BY <1>3, <3>1
    <3>5. IsFiniteSet(U \cup {k})
          /\ (Cardinality(U \cup {k}) = Cardinality(U) \/ Cardinality(U \cup {k}) = Cardinality(U) + 1)
      BY <3>3, FS_AddElement
    <3>6. IsFiniteSet(K) /\ Cardinality(K) <= Cardinality(U \cup {k})
      BY <3>4, <3>5, FS_Subset
    <3>7. Cardinality(K) \in Nat
      BY <3>6, FS_CardinalityType
    <3>8. Cardinality(K) <= MaxInitials[k.run]
      BY <1>2, <3>2, <3>3, <3>5, <3>6, <3>7
    <3>9. QED
      BY <2>2, <3>8
  <2>3. QED
    BY <2>1, <2>2
<1>4. BudgetKept'
  BY <1>3, SceneStays DEF BudgetKept
<1>5. QED
  BY <1>1, <1>4

LEMMA AuthorizeKeeps ==
  ASSUME IInv, NEW w \in Workers, Authorize(w)
  PROVE  IInv' /\ NothingLeaves
<1>1. PICK k : k = worker[w].item
  OBVIOUS
<1>2. PICK x : x = IF k.stage = "initial" THEN [BackToLoop(w) EXCEPT !.left = @ - 1] ELSE BackToLoop(w)
  OBVIOUS
<1>3. /\ worker[w].step = "authorize" /\ MayAuthorize(w) /\ scene' = scene
      /\ UNCHANGED <<runVars, factVars, doomed, mailVars, edits>>
      /\ packet' = [packet EXCEPT ![k] = "queued"]
      /\ reserved' = reserved \cup {k} /\ recent' = recent \cup {k}
      /\ worker' = [worker EXCEPT ![w] = x]
  BY <1>1, <1>2 DEF Authorize
<1>4. worker[w] \in Authorizing
  BY <1>3, WorkerIs
<1>5. /\ k \in Packets /\ k.run = worker[w].run /\ k.run \in Runs /\ k.run # NoRun
      /\ Campaign[k.prospect] = Grantee[k.run]
      /\ k.stage = "initial" => worker[w].left > 0
  <2>1. k \in Packets /\ worker[w].run \in Runs
    BY <1>1, <1>4 DEF Authorizing
  <2>2. k.run = worker[w].run /\ (k.stage = "initial" => worker[w].left > 0)
    BY <1>1, <1>3 DEF IInv, WorkersInCampaign
  <2>3. NoRun \notin Runs
    BY SceneFacts DEF IInv
  <2>4. QED
    BY <2>1, <2>2, <2>3 DEF IInv, OwnCampaign
<1>6. /\ packet[k] = "pending" /\ ~ Reserved(k.prospect, k.stage)
      /\ k.stage = "initial" => UsedToday(Campaign[k.prospect]) < MaxInitials[k.run]
  BY <1>1, <1>3, <1>5 DEF MayAuthorize
<1>7. packet \in [Packets -> PacketStates] /\ Packets' = Packets
  BY <1>3 DEF IInv, TypeOK, PacketsOK, Packets
<1>8. PacketsOK'
  <2>1. packet' \in [Packets -> PacketStates]
    BY <1>3, <1>7 DEF PacketStates
  <2>2. \A j \in reserved' : j.run # NoRun /\ packet'[j] # "pending"
    BY <1>3, <1>5, <1>7 DEF IInv, TypeOK, PacketsOK
  <2>3. \A i, j \in reserved' :
          i.stage = j.stage /\ Creator[i.prospect] = Creator[j.prospect] => i = j
    BY <1>3, <1>6 DEF Reserved, IInv, TypeOK, PacketsOK
  <2>4. reserved' \subseteq Packets /\ recent' \subseteq reserved' /\ doomed' \subseteq Packets
    BY <1>3, <1>5 DEF IInv, TypeOK, PacketsOK
  <2>5. Packets \subseteq Contexts
    BY DEF IInv, TypeOK, PacketsOK
  <2>6. QED
    BY <1>3, <1>7, <2>1, <2>2, <2>3, <2>4, <2>5, SceneStays DEF PacketsOK
<1>9. OwnCampaign'
  BY <1>3, <1>7, SceneStays DEF IInv, OwnCampaign
<1>10. NothingLeaves
  <2>1. \A j \in Packets : packet'[j] \in Beyond <=> packet[j] \in Beyond
    BY <1>3, <1>6, <1>7 DEF Beyond
  <2>2. QED
    BY <1>3, <1>7, <2>1, SceneStays DEF NothingLeaves, SentTo, Are
<1>11. IsFiniteSet(recent)' /\ BudgetKept'
  BY <1>3, <1>5, <1>6, AuthorizeKeepsBudget DEF IInv
<1>12. x \in AtWork /\ InCampaign(x)
  BY <1>2, <1>3, <1>5, BackInLoop
<1>13. QED
  BY <1>3, <1>7, <1>8, <1>9, <1>10, <1>11, <1>12, WorkerMoves

LEMMA OtherWorkerKeeps ==
  ASSUME IInv, NEW w \in Workers, PassOver(w) \/ Leave(w) \/ LoseLease(w)
  PROVE  IInv' /\ NothingLeaves
<1>1. scene' = scene /\ UNCHANGED <<runVars, factVars, packetVars, mailVars, edits>>
  BY DEF PassOver, Leave, LoseLease
<1>2. /\ PacketsOK' /\ OwnCampaign' /\ NothingLeaves /\ Packets' = Packets
      /\ IsFiniteSet(recent)' /\ BudgetKept'
  BY <1>1, PacketsStay
<1>3. worker[w].step # "idle" /\ worker[w] \in AtWork \cup Authorizing
      /\ worker \in [Workers -> {Idle} \cup AtWork \cup Authorizing]
  BY WorkerIs DEF PassOver, Leave, LoseLease
<1>4. InCampaign(worker[w])
  BY DEF IInv, WorkersInCampaign, InCampaign
<1>5. \E x \in {Idle} \cup AtWork \cup Authorizing :
        worker' = [worker EXCEPT ![w] = x] /\ InCampaign(x)
  <2>1. CASE Leave(w)
    <3>1. InCampaign(Idle)
      BY DEF InCampaign, Idle
    <3>2. worker' = [worker EXCEPT ![w] = Idle]
      BY <2>1 DEF Leave
    <3>3. QED
      BY <3>1, <3>2
  <2>2. CASE LoseLease(w)
    <3>1. PICK x : x = [worker[w] EXCEPT !.owns = FALSE]
      OBVIOUS
    <3>2. worker' = [worker EXCEPT ![w] = x]
      BY <1>3, <2>2, <3>1 DEF LoseLease
    <3>3. x \in AtWork \cup Authorizing
      BY <1>3, <3>1 DEF AtWork, Authorizing
    <3>4. InCampaign(x)
      BY <1>3, <1>4, <3>1 DEF InCampaign, AtWork, Authorizing
    <3>5. QED
      BY <3>2, <3>3, <3>4
  <2>3. CASE PassOver(w) /\ worker' = [worker EXCEPT ![w] = BackToLoop(w)]
    BY <1>3, <2>3, BackInLoop
  <2>4. ASSUME NEW i, worker[w].step = "loop", worker' = [worker EXCEPT ![w].todo = @ \ {i}]
        PROVE  \E x \in {Idle} \cup AtWork \cup Authorizing :
                 worker' = [worker EXCEPT ![w] = x] /\ InCampaign(x)
    <3>1. PICK x : x = [worker[w] EXCEPT !.todo = @ \ {i}]
      OBVIOUS
    <3>2. worker' = [worker EXCEPT ![w] = x]
      BY <1>3, <2>4, <3>1
    <3>3. worker[w] \in AtWork
      BY <2>4, WorkerIs
    <3>4. x \in AtWork
      BY <3>1, <3>3 DEF AtWork
    <3>5. InCampaign(x)
      BY <1>3, <1>4, <2>4, <3>1, <3>3 DEF InCampaign, AtWork
    <3>6. QED
      BY <3>2, <3>4, <3>5
  <2>5. QED
    BY <2>1, <2>2, <2>3, <2>4 DEF PassOver
<1>6. QED
  BY <1>1, <1>2, <1>5, WorkerMoves

-----------------------------------------------------------------------------
(* Replies, answers and edits.                                             *)

\* A step that touches neither packets nor workers nor runs.
LEMMA FactStepKeeps ==
  ASSUME IInv, scene' = scene, UNCHANGED <<runVars, packetVars, worker>>,
         FactsOK', MailOK', PassesRead',
         \A p \in Prospects : status'[p] = "interested" => Introduced(Creator[p]),
         \A m \in Replies : \A p \in answers'[m] : Introduced(Creator[p])
  PROVE  IInv' /\ NothingLeaves
<1>1. RunsOK'
  BY RunsStay
<1>2. /\ PacketsOK' /\ OwnCampaign' /\ NothingLeaves /\ Packets' = Packets
      /\ IsFiniteSet(recent)' /\ BudgetKept'
  BY PacketsStay
<1>3. WorkersOK' /\ WorkersInCampaign'
  BY <1>2, WorkersStay
<1>4. SentOnce' /\ IntroducedFirst'
  BY <1>2, AnswerersStay
<1>5. QED
  BY <1>1, <1>2, <1>3, <1>4 DEF IInv, TypeOK

LEMMA SuppressKeeps ==
  ASSUME IInv, scene' = scene, edits' = edits, NEW X \in SUBSET Creators, Suppress(X)
  PROVE  /\ FactsOK' /\ Quiet
         /\ \A p \in Prospects : status'[p] = "interested" => Introduced(Creator[p])
<1>1. MaxEdits \in Nat
  BY SceneFacts DEF IInv
<1>2. /\ status \in [Prospects -> Statuses] /\ authorized \in [Prospects -> 0 .. MaxEdits]
      /\ suppressed \subseteq Creators
  BY DEF IInv, TypeOK, FactsOK
<1>3. status' \in [Prospects -> Statuses]
  BY <1>2 DEF Suppress, Statuses
<1>4. authorized' \in [Prospects -> 0 .. MaxEdits]
  BY <1>1, <1>2 DEF Suppress
<1>5. FactsOK'
  BY <1>2, <1>3, <1>4, SceneStays DEF IInv, TypeOK, FactsOK, Suppress
<1>6. Quiet
  BY <1>2 DEF Suppress, Quiet
<1>7. QED
  BY <1>5, <1>6 DEF Quiet, IInv, IntroducedFirst

LEMMA AnswerKeeps ==
  ASSUME IInv, scene' = scene, edits' \in 1 .. MaxEdits, NEW p \in Prospects,
         NEW class \in Statuses, Answer(p, class), Introduced(Creator[p]),
         noted' \subseteq Prospects
  PROVE  /\ FactsOK' /\ Answered
         /\ \A q \in Prospects : status'[q] = "interested" => Introduced(Creator[q])
<1>1. /\ status \in [Prospects -> Statuses] /\ status' = [status EXCEPT ![p] = class]
      /\ UNCHANGED <<version, authorized, researched, suppressed>>
  BY DEF IInv, TypeOK, FactsOK, Answer
<1>2. status' \in [Prospects -> Statuses] /\ \A q \in Prospects \ {p} : status'[q] = status[q]
  BY <1>1
<1>3. FactsOK'
  BY <1>1, <1>2, SceneStays DEF IInv, TypeOK, FactsOK
<1>4. QED
  BY <1>1, <1>2, <1>3 DEF Answered, IInv, IntroducedFirst

\* Whoever got an email was introduced.
LEMMA GotEmailIntroduced ==
  ASSUME IInv, NEW p \in Prospects, GotEmail(p)
  PROVE  Introduced(Creator[p])
  BY DEF GotEmail, Beyond, IInv, IntroducedFirst

LEMMA ArriveKeeps ==
  ASSUME IInv, NEW m \in Replies, Arrive(m)
  PROVE  IInv' /\ NothingLeaves
<1>1. /\ scene' = scene /\ UNCHANGED <<runVars, factVars, packetVars, worker, edits>>
      /\ UNCHANGED <<sync, stored, reviewed>>
      /\ m \notin arrived /\ arrived' = arrived \cup {m}
  BY DEF Arrive
<1>2. PICK A : A = {p \in Prospects : Creator[p] = From[m] /\ GotEmail(p)}
  OBVIOUS
<1>3. /\ answers \in [Replies -> SUBSET Prospects] /\ A \in SUBSET Prospects
      /\ answers' = [answers EXCEPT ![m] = A]
  BY <1>2 DEF Arrive, IInv, TypeOK, MailOK
<1>4. answers' \in [Replies -> SUBSET Prospects] /\ \A n \in Replies \ {m} : answers'[n] = answers[n]
  BY <1>3
<1>5. MailOK'
  <2>1. [open : BOOLEAN, listed : SUBSET arrived, left : SUBSET arrived,
         fresh : BOOLEAN, complete : SUBSET arrived]
          \subseteq [open : BOOLEAN, listed : SUBSET arrived', left : SUBSET arrived',
                     fresh : BOOLEAN, complete : SUBSET arrived']
    BY <1>1
  <2>2. sync' \in [Campaigns -> [open : BOOLEAN, listed : SUBSET arrived', left : SUBSET arrived',
                                fresh : BOOLEAN, complete : SUBSET arrived']]
    BY <1>1, <2>1 DEF IInv, TypeOK, MailOK
  <2>3. QED
    BY <1>1, <1>4, <2>2, SceneStays DEF IInv, TypeOK, MailOK
<1>6. PassesRead'
  <2>1. \A c \in Campaigns : sync[c].listed \subseteq arrived /\ sync[c].complete \subseteq arrived
    BY DEF IInv, TypeOK, MailOK
  <2>2. \A n \in arrived : n \in Replies \ {m}
    BY <1>1 DEF IInv, TypeOK, MailOK
  <2>3. \A n \in arrived : \A c : Read(n, c)' = Read(n, c)
    BY <1>1, <1>4, <2>2, SceneStays DEF Read, AnswersOthersOnly, Matched
  <2>4. QED
    BY <1>1, <2>1, <2>3, SceneStays DEF IInv, PassesRead
<1>7. FactsOK' /\ \A p \in Prospects : status'[p] = "interested" => Introduced(Creator[p])
  BY <1>1, FactsStay DEF factVars, IInv, IntroducedFirst
<1>8. \A n \in Replies : \A p \in answers'[n] : Introduced(Creator[p])
  <2>1. \A p \in A : Introduced(Creator[p])
    BY <1>2, GotEmailIntroduced
  <2>2. QED
    BY <1>3, <1>4, <2>1 DEF IInv, IntroducedFirst
<1>9. QED
  BY <1>1, <1>5, <1>6, <1>7, <1>8, FactStepKeeps

\* A pass of one label goes on.
SyncStates == [open : BOOLEAN, listed : SUBSET arrived, left : SUBSET arrived,
               fresh : BOOLEAN, complete : SUBSET arrived]

LEMMA PassGoesOn ==
  ASSUME IInv, scene' = scene, UNCHANGED <<arrived, answers>>,
         NEW c \in Campaigns, NEW y \in SyncStates, y.left \subseteq y.listed,
         sync' = [sync EXCEPT ![c] = y],
         stored \subseteq stored', stored' \subseteq arrived \X Campaigns,
         reviewed' \subseteq stored',
         \A m \in y.listed \ y.left : Read(m, c)',
         \A m \in y.complete : Read(m, c)'
  PROVE  MailOK' /\ PassesRead'
<1>1. sync \in [Campaigns -> SyncStates] /\ \A d \in Campaigns : sync[d].left \subseteq sync[d].listed
  BY DEF IInv, TypeOK, MailOK, SyncStates
<1>2. sync' \in [Campaigns -> SyncStates]
  BY <1>1
<1>3. sync'[c] = y /\ \A d \in Campaigns \ {c} : sync'[d] = sync[d]
  BY <1>1
<1>4. MailOK'
  BY <1>1, <1>2, <1>3, SceneStays DEF IInv, TypeOK, MailOK, SyncStates
<1>5. \A m, d : Read(m, d) => Read(m, d)'
  BY SceneStays DEF Read, AnswersOthersOnly, Matched
<1>6. PassesRead'
  <2>1. \A d \in Campaigns \ {c} :
          /\ \A m \in sync'[d].listed \ sync'[d].left : Read(m, d)'
          /\ \A m \in sync'[d].complete : Read(m, d)'
    BY <1>3, <1>5 DEF IInv, PassesRead
  <2>2. QED
    BY <1>3, <2>1, SceneStays DEF PassesRead
<1>7. QED
  BY <1>4, <1>6

\* The label is listed, a pass is complete or no longer fresh.
LEMMA PassKeeps ==
  ASSUME IInv, NEW c \in Campaigns, ListReplies(c) \/ FinalizeSync(c) \/ GoStale(c)
  PROVE  IInv' /\ NothingLeaves
<1>1. /\ scene' = scene /\ UNCHANGED <<runVars, factVars, packetVars, worker, edits>>
      /\ UNCHANGED <<arrived, answers, stored, reviewed>>
  BY DEF ListReplies, FinalizeSync, GoStale
<1>2. /\ sync \in [Campaigns -> SyncStates] /\ sync[c].left \subseteq sync[c].listed
      /\ reviewed \subseteq stored /\ stored \subseteq arrived \X Campaigns
  BY DEF IInv, TypeOK, MailOK, SyncStates
<1>3. /\ \A m \in sync[c].listed \ sync[c].left : Read(m, c)
      /\ \A m \in sync[c].complete : Read(m, c)
      /\ \A m : Read(m, c)' = Read(m, c)
  BY <1>1, SceneStays DEF IInv, PassesRead, Read, AnswersOthersOnly, Matched
<1>4. \E y \in SyncStates :
        /\ y.left \subseteq y.listed /\ sync' = [sync EXCEPT ![c] = y]
        /\ \A m \in (y.listed \ y.left) \cup y.complete : Read(m, c)
  <2>1. CASE ListReplies(c)
    <3>1. PICK L : L = {m \in arrived : <<m, c>> \notin stored}
      OBVIOUS
    <3>2. PICK y : y = [sync[c] EXCEPT !.open = TRUE, !.listed = arrived, !.left = L]
      OBVIOUS
    <3>3. sync' = [sync EXCEPT ![c] = y]
      BY <1>2, <2>1, <3>1, <3>2 DEF ListReplies
    <3>4. y \in SyncStates /\ y.listed = arrived /\ y.left = L /\ y.complete = sync[c].complete
      BY <1>2, <3>1, <3>2 DEF SyncStates
    <3>5. QED
      BY <1>3, <3>1, <3>3, <3>4 DEF Read
  <2>2. CASE FinalizeSync(c)
    <3>1. PICK L : L = sync[c].listed
      OBVIOUS
    <3>2. PICK y : y = [sync[c] EXCEPT !.open = FALSE, !.fresh = TRUE, !.complete = L]
      OBVIOUS
    <3>3. sync' = [sync EXCEPT ![c] = y] /\ sync[c].left = {}
      BY <1>2, <2>2, <3>1, <3>2 DEF FinalizeSync
    <3>4. y \in SyncStates /\ y.listed = L /\ y.left = {} /\ y.complete = L
      BY <1>2, <3>1, <3>2, <3>3 DEF SyncStates
    <3>5. QED
      BY <1>3, <3>1, <3>3, <3>4
  <2>3. CASE GoStale(c)
    <3>1. PICK y : y = [sync[c] EXCEPT !.fresh = FALSE]
      OBVIOUS
    <3>2. sync' = [sync EXCEPT ![c] = y]
      BY <1>2, <2>3, <3>1 DEF GoStale
    <3>3. /\ y \in SyncStates /\ y.listed = sync[c].listed /\ y.left = sync[c].left
          /\ y.complete = sync[c].complete
      BY <1>2, <3>1 DEF SyncStates
    <3>4. QED
      BY <1>2, <1>3, <3>2, <3>3
  <2>4. QED
    BY <2>1, <2>2, <2>3
<1>5. MailOK' /\ PassesRead'
  BY <1>1, <1>2, <1>3, <1>4, PassGoesOn
<1>6. FactsOK' /\ \A p \in Prospects : status'[p] = "interested" => Introduced(Creator[p])
  BY <1>1, FactsStay DEF factVars, IInv, IntroducedFirst
<1>7. \A m \in Replies : \A p \in answers'[m] : Introduced(Creator[p])
  BY <1>1 DEF IInv, IntroducedFirst
<1>8. QED
  BY <1>1, <1>5, <1>6, <1>7, FactStepKeeps

LEMMA SaveRepliesKeeps ==
  ASSUME IInv, NEW c \in Campaigns, NEW T \in SUBSET Replies, SaveReplies(c, T)
  PROVE  IInv' /\ NothingLeaves /\ Quiet
<1>1. PICK X, N : /\ X = {From[m] : m \in T \cap OptOuts}
                  /\ N = {<<m, c>> : m \in {n \in T : ~ Foreign(n, c)}}
  OBVIOUS
<1>2. /\ scene' = scene /\ UNCHANGED <<runVars, packetVars, worker, edits>>
      /\ UNCHANGED <<arrived, answers, reviewed>>
      /\ T \subseteq sync[c].left
      /\ sync' = [sync EXCEPT ![c].left = @ \ T]
      /\ stored' = stored \cup N /\ Suppress(X)
  BY <1>1 DEF SaveReplies
<1>3. X \in SUBSET Creators
  BY <1>1, SceneFacts DEF IInv
<1>4. /\ FactsOK' /\ Quiet
      /\ \A p \in Prospects : status'[p] = "interested" => Introduced(Creator[p])
  BY <1>2, <1>3, SuppressKeeps
<1>5. /\ sync \in [Campaigns -> SyncStates] /\ sync[c].left \subseteq sync[c].listed
      /\ sync[c].left \subseteq arrived
      /\ reviewed \subseteq stored /\ stored \subseteq arrived \X Campaigns
  BY DEF IInv, TypeOK, MailOK, SyncStates
<1>6. PICK y : y = [sync[c] EXCEPT !.left = @ \ T]
  OBVIOUS
<1>7. sync' = [sync EXCEPT ![c] = y]
  BY <1>2, <1>5, <1>6
<1>8. /\ y \in SyncStates /\ y.listed = sync[c].listed /\ y.left = sync[c].left \ T
      /\ y.complete = sync[c].complete
  BY <1>5, <1>6 DEF SyncStates
<1>9. stored' \subseteq arrived \X Campaigns
  BY <1>1, <1>2, <1>5
<1>10. \A m \in T : Read(m, c)'
  <2> SUFFICES ASSUME NEW m \in T PROVE Read(m, c)'
    OBVIOUS
  <2>1. CASE Foreign(m, c)
    <3>1. AnswersOthersOnly(m, c)
      BY <2>1 DEF Foreign, AnswersOthersOnly, Matched
    <3>2. QED
      BY <1>2, <3>1, SceneStays DEF Read, AnswersOthersOnly, Matched
  <2>2. CASE ~ Foreign(m, c)
    BY <1>1, <1>2, <2>2 DEF Read
  <2>3. QED
    BY <2>1, <2>2
<1>11. \A m : Read(m, c) => Read(m, c)'
  BY <1>2, SceneStays DEF Read, AnswersOthersOnly, Matched
<1>12. /\ \A m \in y.listed \ y.left : Read(m, c)'
       /\ \A m \in y.complete : Read(m, c)'
  BY <1>8, <1>10, <1>11 DEF IInv, PassesRead
<1>13. MailOK' /\ PassesRead'
  <2>1. y.left \subseteq y.listed /\ reviewed' \subseteq stored' /\ stored \subseteq stored'
    BY <1>2, <1>5, <1>8
  <2>2. QED
    BY <1>2, <1>7, <1>8, <1>9, <1>12, <2>1, PassGoesOn
<1>14. \A m \in Replies : \A p \in answers'[m] : Introduced(Creator[p])
  BY <1>2 DEF IInv, IntroducedFirst
<1>15. QED
  BY <1>2, <1>4, <1>13, <1>14, FactStepKeeps

LEMMA ReviewReplyKeeps ==
  ASSUME IInv, NEW m \in Replies, NEW c \in Campaigns, NEW class, ReviewReply(m, c, class)
  PROVE  IInv' /\ NothingLeaves /\ (Quiet \/ Answered)
<1>1. /\ scene' = scene /\ UNCHANGED <<runVars, packetVars, worker, edits>>
      /\ UNCHANGED <<arrived, answers, sync, stored>>
      /\ <<m, c>> \in stored /\ reviewed' = reviewed \cup {<<m, c>>}
  BY DEF ReviewReply
<1>2. MailOK' /\ PassesRead'
  <2>1. MailOK'
    BY <1>1, SceneStays DEF IInv, TypeOK, MailOK
  <2>2. \A n : \A d : Read(n, d)' = Read(n, d)
    BY <1>1, SceneStays DEF Read, AnswersOthersOnly, Matched
  <2>3. PassesRead'
    BY <1>1, <2>2, SceneStays DEF IInv, PassesRead
  <2>4. QED
    BY <2>1, <2>3
<1>3. \A n \in Replies : \A p \in answers'[n] : Introduced(Creator[p])
  BY <1>1 DEF IInv, IntroducedFirst
<1>4. /\ FactsOK' /\ (Quiet \/ Answered)
      /\ \A p \in Prospects : status'[p] = "interested" => Introduced(Creator[p])
  <2>1. CASE UNCHANGED factVars
    <3>1. FactsOK' /\ Quiet
      BY <1>1, <2>1, FactsStay, SameFactsAreQuiet DEF factVars
    <3>2. QED
      BY <2>1, <3>1 DEF factVars, IInv, IntroducedFirst
  <2>2. CASE Suppress({From[m]})
    <3>1. {From[m]} \in SUBSET Creators
      BY SceneFacts DEF IInv
    <3>2. QED
      BY <1>1, <2>2, <3>1, SuppressKeeps
  <2>3. ASSUME NEW p \in Prospects, class \in {"question", "interested"}, p \in answers[m],
               Answer(p, class), noted' = IF class = "interested" THEN noted \cup {p} ELSE noted
        PROVE  /\ FactsOK' /\ Answered
               /\ \A q \in Prospects : status'[q] = "interested" => Introduced(Creator[q])
    <3>1. class \in Statuses /\ Introduced(Creator[p])
      BY <2>3 DEF Statuses, IInv, IntroducedFirst
    <3>2. noted' \subseteq Prospects /\ edits' \in 1 .. MaxEdits
      BY <1>1, <2>3 DEF IInv, TypeOK, FactsOK
    <3>3. QED
      BY <1>1, <2>3, <3>1, <3>2, AnswerKeeps
  <2>4. QED
    BY <2>1, <2>2, <2>3 DEF ReviewReply
<1>5. QED
  BY <1>1, <1>2, <1>3, <1>4, FactStepKeeps

LEMMA EditCounts ==
  ASSUME IInv, Edit
  PROVE  /\ scene' = scene /\ edits' = edits + 1 /\ edits' \in 1 .. MaxEdits
         /\ edits \in Nat /\ MaxEdits \in Nat
<1>1. MaxEdits \in Nat /\ edits \in 1 .. MaxEdits
  BY SceneFacts DEF IInv, TypeOK, FactsOK
<1>2. QED
  BY <1>1 DEF Edit

LEMMA RecordOutcomeKeeps ==
  ASSUME IInv, NEW p \in Prospects, NEW class, RecordOutcome(p, class)
  PROVE  IInv' /\ NothingLeaves /\ (Quiet \/ Answered)
<1>1. /\ scene' = scene /\ edits' \in 1 .. MaxEdits
      /\ UNCHANGED <<runVars, packetVars, worker, mailVars>>
  BY EditCounts DEF RecordOutcome
<1>2. /\ status \in [Prospects -> Statuses] /\ authorized \in [Prospects -> 0 .. MaxEdits]
      /\ suppressed \subseteq Creators /\ noted \subseteq Prospects /\ MaxEdits \in Nat
      /\ Creator[p] \in Creators
  BY SceneFacts DEF IInv, TypeOK, FactsOK
<1>3. /\ FactsOK' /\ (Quiet \/ Answered)
      /\ \A q \in Prospects : status'[q] = "interested" => Introduced(Creator[q])
  <2>1. CASE /\ status' = [status EXCEPT ![p] = "suppressed"]
             /\ authorized' = [authorized EXCEPT ![p] = 0]
             /\ suppressed' = suppressed \cup {Creator[p]}
             /\ UNCHANGED <<version, researched, noted>>
    <3>1. status' \in [Prospects -> Statuses] /\ authorized' \in [Prospects -> 0 .. MaxEdits]
      BY <1>2, <2>1 DEF Statuses
    <3>2. FactsOK'
      BY <1>1, <1>2, <2>1, <3>1, SceneStays DEF IInv, TypeOK, FactsOK
    <3>3. Quiet
      BY <1>2, <2>1 DEF Quiet
    <3>4. QED
      BY <3>2, <3>3 DEF Quiet, IInv, IntroducedFirst
  <2>2. CASE /\ class \in {"question", "interested", "converted"} /\ GotEmail(p)
             /\ Answer(p, IF status[p] = "handed_off" /\ class # "converted"
                          THEN "handed_off" ELSE class)
             /\ noted' \in {noted, IF class = "interested" THEN noted \cup {p} ELSE noted}
    <3>1. PICK answer \in Statuses : Answer(p, answer)
      BY <2>2 DEF Statuses
    <3>2. noted' \subseteq Prospects /\ Introduced(Creator[p])
      BY <1>2, <2>2, GotEmailIntroduced
    <3>3. QED
      BY <1>1, <3>1, <3>2, AnswerKeeps
  <2>3. QED
    BY <2>1, <2>2 DEF RecordOutcome
<1>4. MailOK' /\ PassesRead'
  BY <1>1, MailStays
<1>5. \A n \in Replies : \A q \in answers'[n] : Introduced(Creator[q])
  BY <1>1 DEF IInv, IntroducedFirst, mailVars
<1>6. QED
  BY <1>1, <1>3, <1>4, <1>5, FactStepKeeps

LEMMA EditKeeps ==
  ASSUME IInv,
         \/ \E c \in Campaigns, v \in Versions : UpdateCampaign(c, v)
         \/ \E p \in Prospects, authorize \in BOOLEAN : UpdateProspect(p, authorize)
         \/ \E p \in Prospects : ResearchChanges(p)
  PROVE  IInv' /\ NothingLeaves /\ Quiet
<1>1. /\ UNCHANGED <<status, noted, suppressed, runVars, packetVars, worker, mailVars>> /\ Edit
  BY DEF UpdateCampaign, UpdateProspect, ResearchChanges
<1>2. /\ scene' = scene /\ edits' = edits + 1 /\ edits' \in 1 .. MaxEdits
      /\ edits \in Nat /\ MaxEdits \in Nat
  BY <1>1, EditCounts
<1>3. version \in [Campaigns -> Versions] /\ authorized \in [Prospects -> 0 .. MaxEdits]
  BY DEF IInv, TypeOK, FactsOK
<1>4. version' \in [Campaigns -> Versions]
  BY <1>3 DEF UpdateCampaign, UpdateProspect, ResearchChanges
<1>5. authorized' \in [Prospects -> 0 .. MaxEdits]
  <2>1. ASSUME NEW p \in Prospects, NEW authorize \in BOOLEAN, UpdateProspect(p, authorize)
        PROVE  authorized' \in [Prospects -> 0 .. MaxEdits]
    <3>1. PICK a : a = IF authorize THEN edits + 1 ELSE 0
      OBVIOUS
    <3>2. a \in 0 .. MaxEdits
      BY <1>2, <3>1
    <3>3. authorized' = [authorized EXCEPT ![p] = a]
      BY <2>1, <3>1 DEF UpdateProspect
    <3>4. QED
      BY <1>3, <3>2, <3>3
  <2>2. QED
    BY <1>3, <2>1 DEF UpdateCampaign, ResearchChanges
<1>6. researched' \subseteq Prospects
  BY DEF UpdateCampaign, UpdateProspect, ResearchChanges, IInv, TypeOK, FactsOK
<1>7. FactsOK'
  BY <1>1, <1>2, <1>4, <1>5, <1>6, SceneStays DEF IInv, TypeOK, FactsOK
<1>8. MailOK' /\ PassesRead'
  BY <1>1, <1>2, MailStays
<1>9. /\ \A p \in Prospects : status'[p] = "interested" => Introduced(Creator[p])
      /\ \A m \in Replies : \A p \in answers'[m] : Introduced(Creator[p])
  BY <1>1 DEF IInv, IntroducedFirst, mailVars
<1>10. Quiet
  BY <1>1, SameFactsAreQuiet
<1>11. QED
  BY <1>1, <1>2, <1>7, <1>8, <1>9, <1>10, FactStepKeeps

-----------------------------------------------------------------------------
(* The invariant, and what any step does to a creator.                     *)

Effect ==
  \/ NothingLeaves /\ (Quiet \/ Answered)
  \/ \E k \in Packets : Send(k)

LEMMA SceneKept == [Next]_vars => scene' = scene
<1>1. CASE RunStep
  BY <1>1 DEF RunStep, Start, Pause, Lapse, Expire, Block, SelectStopped, CancelStopped
<1>2. CASE WorkerStep
  BY <1>2 DEF WorkerStep, Begin, Reuse, Plan, Authorize, PassOver, Leave, LoseLease
<1>3. CASE OperatorStep
  BY <1>3 DEF OperatorStep, OperatorPlans, Approve, Withdraw, Becomes, RecordOutcome,
              ReviewReply, UpdateCampaign, UpdateProspect, Edit
<1>4. CASE Surroundings
  BY <1>4 DEF Surroundings, Send, Refuse, Ambiguous, Succeed, Becomes, Ages, Arrive,
              ListReplies, FinalizeSync, GoStale, SaveReplies, ResearchChanges, Edit
<1>5. CASE UNCHANGED vars
  BY <1>5 DEF vars
<1>6. QED
  BY <1>1, <1>2, <1>3, <1>4, <1>5 DEF Next

LEMMA RunStepKeeps ==
  ASSUME IInv, RunStep
  PROVE  IInv' /\ Effect
<1>1. ASSUME NEW r \in Runs, Start(r) \/ Pause(r) \/ Lapse(r) \/ Expire(r) \/ Block(r)
      PROVE  IInv' /\ Effect
  <2>1. UNCHANGED <<status, suppressed>>
    BY <1>1 DEF Start, Pause, Lapse, Expire, Block, factVars
  <2>2. QED
    BY <1>1, <2>1, RunKeeps, SameFactsAreQuiet DEF Effect
<1>2. CASE SelectStopped \/ \E k \in doomed : CancelStopped(k)
  <2>1. UNCHANGED <<status, suppressed>>
    BY <1>2 DEF SelectStopped, CancelStopped, factVars
  <2>2. QED
    BY <1>2, <2>1, CancellationKeeps, SameFactsAreQuiet DEF Effect
<1>3. QED
  BY <1>1, <1>2 DEF RunStep

LEMMA WorkerStepKeeps ==
  ASSUME IInv, WorkerStep
  PROVE  IInv' /\ Effect
<1>1. UNCHANGED <<status, suppressed>>
  BY DEF WorkerStep, Begin, Reuse, Plan, Authorize, PassOver, Leave, LoseLease, factVars
<1>2. Quiet
  BY <1>1, SameFactsAreQuiet
<1>3. PICK w \in Workers :
        \/ \E r \in Runs : Begin(w, r)
        \/ Reuse(w) \/ Plan(w) \/ Authorize(w) \/ PassOver(w) \/ Leave(w) \/ LoseLease(w)
  BY DEF WorkerStep
<1>4. IInv' /\ NothingLeaves
  BY <1>3, BeginKeeps, ReuseKeeps, PlanKeeps, AuthorizeKeeps, OtherWorkerKeeps
<1>5. QED
  BY <1>2, <1>4 DEF Effect

LEMMA OperatorStepKeeps ==
  ASSUME IInv, OperatorStep
  PROVE  IInv' /\ Effect
<1>1. ASSUME NEW p \in ByHand, NEW stage \in Stages, NEW text \in Texts,
             OperatorPlans(p, stage, text)
      PROVE  IInv' /\ Effect
  <2>1. p \in Prospects
    BY SceneFacts DEF IInv
  <2>2. Quiet
    BY <1>1, SameFactsAreQuiet DEF OperatorPlans, factVars
  <2>3. QED
    BY <1>1, <2>1, <2>2, OperatorPlansKeeps DEF Effect
<1>2. ASSUME NEW k \in Packets, Approve(k) \/ Withdraw(k)
      PROVE  IInv' /\ Effect
  <2>1. Quiet
    BY <1>2, SameFactsAreQuiet DEF Approve, Withdraw, factVars
  <2>2. QED
    BY <1>2, <2>1, DecisionKeeps DEF Effect
<1>3. ASSUME NEW p \in Prospects, NEW class \in Classes, RecordOutcome(p, class)
      PROVE  IInv' /\ Effect
  BY <1>3, RecordOutcomeKeeps DEF Effect
<1>4. ASSUME NEW m \in Replies, NEW c \in Campaigns, NEW class \in Classes,
             ReviewReply(m, c, class)
      PROVE  IInv' /\ Effect
  BY <1>4, ReviewReplyKeeps DEF Effect
<1>5. CASE \/ \E c \in Campaigns, v \in Versions : UpdateCampaign(c, v)
           \/ \E p \in Prospects, authorize \in BOOLEAN : UpdateProspect(p, authorize)
  BY <1>5, EditKeeps DEF Effect
<1>6. QED
  BY <1>1, <1>2, <1>3, <1>4, <1>5 DEF OperatorStep

LEMMA SurroundingsKeep ==
  ASSUME IInv, Surroundings
  PROVE  IInv' /\ Effect
<1>1. ASSUME NEW k \in Packets, Send(k) PROVE IInv' /\ Effect
  BY <1>1, SendKeeps DEF Effect
<1>2. ASSUME NEW k \in Packets, Refuse(k) \/ Ambiguous(k) PROVE IInv' /\ Effect
  <2>1. Quiet
    BY <1>2, SameFactsAreQuiet DEF Refuse, Ambiguous, factVars
  <2>2. QED
    BY <1>2, <2>1, DecisionKeeps DEF Effect
<1>3. ASSUME NEW k \in Packets, Succeed(k) PROVE IInv' /\ Effect
  BY <1>3, SucceedKeeps DEF Effect
<1>4. ASSUME NEW k \in Packets, Ages(k) PROVE IInv' /\ Effect
  <2>1. Quiet
    BY <1>4, SameFactsAreQuiet DEF Ages, factVars
  <2>2. QED
    BY <1>4, <2>1, AgesKeeps DEF Effect
<1>5. ASSUME NEW m \in Replies, Arrive(m) PROVE IInv' /\ Effect
  <2>1. Quiet
    BY <1>5, SameFactsAreQuiet DEF Arrive, factVars
  <2>2. QED
    BY <1>5, <2>1, ArriveKeeps DEF Effect
<1>6. ASSUME NEW c \in Campaigns, ListReplies(c) \/ FinalizeSync(c) \/ GoStale(c)
      PROVE  IInv' /\ Effect
  <2>1. Quiet
    BY <1>6, SameFactsAreQuiet DEF ListReplies, FinalizeSync, GoStale, factVars
  <2>2. QED
    BY <1>6, <2>1, PassKeeps DEF Effect
<1>7. ASSUME NEW c \in Campaigns, NEW T \in SUBSET Replies, SaveReplies(c, T)
      PROVE  IInv' /\ Effect
  BY <1>7, SaveRepliesKeeps DEF Effect
<1>8. CASE \E p \in Prospects : ResearchChanges(p)
  BY <1>8, EditKeeps DEF Effect
<1>9. QED
  BY <1>1, <1>2, <1>3, <1>4, <1>5, <1>6, <1>7, <1>8 DEF Surroundings

LEMMA StepKeepsIInv ==
  ASSUME IInv, [Next]_vars
  PROVE  IInv' /\ Effect /\ scene' = scene
<1>1. CASE UNCHANGED vars
  <2>1. scene' = scene /\ UNCHANGED <<runVars, factVars, packetVars, worker, mailVars, edits>>
    BY <1>1 DEF vars
  <2>2. /\ PacketsOK' /\ OwnCampaign' /\ NothingLeaves /\ Packets' = Packets
        /\ IsFiniteSet(recent)' /\ BudgetKept'
    BY <2>1, PacketsStay
  <2>3. IInv'
    BY <2>1, <2>2, PacketStepKeeps
  <2>4. Quiet
    BY <2>1, SameFactsAreQuiet DEF factVars
  <2>5. QED
    BY <2>1, <2>2, <2>3, <2>4 DEF Effect
<1>2. CASE Next
  BY <1>2, SceneKept, RunStepKeeps, WorkerStepKeeps, OperatorStepKeeps, SurroundingsKeep DEF Next
<1>3. QED
  BY <1>1, <1>2

\* The types of the tables, that the reservations of a day stay within the
\* campaign's allowance, that nobody is sent anything twice or out of order and
\* that a pass over a mailbox leaves nothing unread hold together in every state.
THEOREM AutomationInvariant == Spec => []IInv
<1>1. Init => IInv
  BY InitIInv
<1>2. IInv /\ [Next]_vars => IInv'
  BY StepKeepsIInv
<1>3. QED
  BY <1>1, <1>2, PTL DEF Spec

\* BudgetKept: _authorize counts the reservations of the day again under the
\* automation lock, so that no interleaving of runs and of workers that lost
\* their lease reserves more introductions than max_initials_per_day.
THEOREM CreatorBudgetKept == Spec => []BudgetKept
<1>1. IInv => BudgetKept
  BY DEF IInv
<1>2. QED
  BY <1>1, AutomationInvariant, PTL

\* Contexts are never forgotten.
LEMMA PacketsNeverGo == [Next]_vars => Packets \subseteq Packets'
<1>1. ASSUME NEW k, NEW state, packet' = [packet EXCEPT ![k] = state]
      PROVE  Packets' = Packets
  BY <1>1 DEF Packets
<1>2. ASSUME NEW k, packet' = With(k, "pending")
      PROVE  Packets \subseteq Packets'
  BY <1>2 DEF With, Packets
<1>3. ASSUME packet' = packet
      PROVE  Packets' = Packets
  BY <1>3 DEF Packets
<1>4. CASE RunStep
  BY <1>1, <1>3, <1>4 DEF RunStep, Start, Pause, Lapse, Expire, Block, SelectStopped,
     CancelStopped, packetVars
<1>5. CASE WorkerStep
  BY <1>1, <1>2, <1>3, <1>5 DEF WorkerStep, Begin, Reuse, Plan, Authorize, PassOver, Leave,
     LoseLease, packetVars
<1>6. CASE OperatorStep
  BY <1>1, <1>2, <1>3, <1>6 DEF OperatorStep, OperatorPlans, Approve, Withdraw, Becomes,
     RecordOutcome, ReviewReply, UpdateCampaign, UpdateProspect, packetVars
<1>7. CASE Surroundings
  BY <1>1, <1>3, <1>7 DEF Surroundings, Send, Refuse, Ambiguous, Succeed, Becomes, Ages,
     Arrive, ListReplies, FinalizeSync, GoStale, SaveReplies, ResearchChanges, packetVars
<1>8. CASE UNCHANGED vars
  BY <1>3, <1>8 DEF vars, packetVars
<1>9. QED
  BY <1>4, <1>5, <1>6, <1>7, <1>8 DEF Next

\* Only a send crosses the boundary.
LEMMA CrossingIsSend ==
  ASSUME IInv, [Next]_vars, NEW k \in Crossing
  PROVE  Send(k)
<1>1. Effect /\ scene' = scene /\ IInv'
  BY StepKeepsIInv
<1>2. k \in Packets /\ packet[k] = "queued" /\ packet'[k] = "executing"
  BY DEF Crossing
<1>3. CASE NothingLeaves /\ k \in Packets'
  <2>1. k \in SentTo(Creator[k.prospect], k.stage)'
    BY <1>1, <1>2, <1>3, SceneStays DEF SentTo, Are, Beyond
  <2>2. k \in SentTo(Creator[k.prospect], k.stage)
    BY <1>1, <1>3, <2>1, SceneStays DEF NothingLeaves
  <2>3. QED
    BY <1>2, <2>2 DEF SentTo, Are, Beyond
<1>4. CASE \E j \in Packets : Send(j)
  <2>1. PICK j \in Packets : Send(j)
    BY <1>4
  <2>2. packet' = [packet EXCEPT ![j] = "executing"] /\ packet \in [Packets -> PacketStates]
    BY <2>1 DEF Send, Becomes, IInv, TypeOK, PacketsOK
  <2>3. k = j
    BY <1>2, <2>2
  <2>4. QED
    BY <2>1, <2>3
<1>5. Packets \subseteq Packets'
  BY PacketsNeverGo
<1>6. QED
  BY <1>1, <1>2, <1>3, <1>4, <1>5 DEF Effect

\* RepliesReadFirst: pending_reply_reason and creator_mailbox_is_fresh, asked
\* again at the send boundary (validate_creator_automation), together with what
\* save_gmail stores, keep a monitoring run from writing past an unread reply.
THEOREM RepliesAreReadFirst == Spec => RepliesReadFirst
<1>1. ASSUME IInv, [Next]_vars, NEW k \in Crossing, k.run \in Monitored,
             NEW m \in sync[Grantee[k.run]].complete
      PROVE  AnswersOthersOnly(m, Grantee[k.run]) \/ <<m, Grantee[k.run]>> \in reviewed
  <2>1. Send(k) /\ k \in Packets
    BY <1>1, CrossingIsSend DEF Crossing
  <2>2. k.run \in Runs /\ k.run # NoRun /\ Grantee[k.run] \in Campaigns
    BY <1>1, SceneFacts, MonitoredAreRuns DEF IInv
  <2>3. Campaign[k.prospect] = Grantee[k.run]
    BY <1>1, <2>1, <2>2 DEF IInv, OwnCampaign
  <2>4. ~ RepliesPending(Grantee[k.run])
    BY <2>1, <2>3 DEF Send, RunAllows
  <2>5. m \in Replies
    BY <1>1, <2>2 DEF IInv, TypeOK, MailOK
  <2>6. Read(m, Grantee[k.run])
    BY <1>1, <2>2 DEF IInv, PassesRead
  <2>7. QED
    BY <2>4, <2>5, <2>6 DEF Read, RepliesPending
<1>2. IInv /\ [Next]_vars =>
        [\A k \in Crossing : k.run \in Monitored =>
           \A m \in sync[Grantee[k.run]].complete :
             \/ AnswersOthersOnly(m, Grantee[k.run])
             \/ <<m, Grantee[k.run]>> \in reviewed]_vars
  BY <1>1
<1>3. QED
  BY <1>2, AutomationInvariant, PTL DEF Spec, RepliesReadFirst

-----------------------------------------------------------------------------
(* The promise to a creator.                                               *)

LEMMA SentCounts ==
  ASSUME NEW stage
  PROVE  /\ Sent(stage) = [x \in Creators |-> Cardinality(SentTo(x, stage))]
         /\ Sent(stage)' = [x \in Creators |-> Cardinality(SentTo(x, stage)')]
  BY DEF Sent, SentTo

\* Each step of the outreach is one of the contract.
LEMMA StepIsPromised ==
  ASSUME IInv, [Next]_vars
  PROVE  Outreach!ContractNext \/ UNCHANGED Outreach!contractVars
<1>1. Effect /\ scene' = scene /\ Creator' = Creator /\ Prospects' = Prospects
  BY StepKeepsIInv, SceneStays
<1>2. \A p \in Prospects : Creator[p] \in Creators
  BY SceneFacts DEF IInv
<1>3. CASE NothingLeaves /\ Quiet
  <2>1. Sent("initial")' = Sent("initial") /\ Sent("handoff")' = Sent("handoff")
    BY <1>3, SentCounts DEF NothingLeaves
  <2>2. Interested' \subseteq Interested /\ Interested \ Interested' \subseteq suppressed'
    BY <1>1, <1>3 DEF Quiet, Interested
  <2>3. Outreach!Silence
    BY <1>3, <2>1, <2>2 DEF Outreach!Silence, Quiet
  <2>4. QED
    BY <2>3 DEF Outreach!ContractNext
<1>4. CASE NothingLeaves /\ Answered
  <2>1. Sent("initial")' = Sent("initial") /\ Sent("handoff")' = Sent("handoff")
    BY <1>4, SentCounts DEF NothingLeaves
  <2>2. PICK p \in Prospects : /\ Introduced(Creator[p])
                               /\ \A q \in Prospects \ {p} : status'[q] = status[q]
    BY <1>4 DEF Answered
  <2>3. PICK x \in Creators : x = Creator[p]
    BY <1>2
  <2>4. Sent("initial")[x] > 0
    <3>1. PICK k : k \in SentTo(x, "initial")
      BY <2>2, <2>3 DEF Introduced
    <3>2. SentTo(x, "initial") = {k}
      BY <3>1 DEF IInv, SentOnce, Stages
    <3>3. Cardinality(SentTo(x, "initial")) = 1
      BY <3>2, FS_Singleton
    <3>4. Sent("initial")[x] = Cardinality(SentTo(x, "initial"))
      BY SentCounts
    <3>5. QED
      BY <3>3, <3>4
  <2>5. Interested' \in {Interested, Interested \cup {x}, Interested \ {x}}
    <3>1. Interested' \ {x} = Interested \ {x}
      BY <1>1, <2>2, <2>3 DEF Interested
    <3>2. QED
      BY <3>1
  <2>6. Interested' \in {Interested \cup {x}, Interested \ {x}}
    BY <2>5
  <2>7. Outreach!Review(x)
    BY <1>4, <2>1, <2>4, <2>6 DEF Outreach!Review, Answered
  <2>8. QED
    BY <2>7 DEF Outreach!ContractNext
<1>5. ASSUME NEW k \in Packets, Send(k)
      PROVE  Outreach!ContractNext
  <2>1. PICK x, stage : x = Creator[k.prospect] /\ stage = k.stage
    OBVIOUS
  <2>2. /\ x \in Creators /\ stage \in Stages
        /\ SentTo(x, stage) = {} /\ x \notin suppressed
        /\ stage = "initial" => SentTo(x, "handoff") = {}
        /\ stage = "handoff" => x \in Interested
        /\ \A y, other : SentTo(y, other)' = IF y = x /\ other = stage THEN {k} ELSE SentTo(y, other)
    BY <1>2, <1>5, <2>1, SendLeaves DEF Interested
  <2>3. /\ Cardinality(SentTo(x, stage)) = 0
        /\ \A y : Cardinality(SentTo(y, stage)') = IF y = x THEN 1 ELSE Cardinality(SentTo(y, stage))
    BY <2>2, FS_EmptySet, FS_Singleton
  <2>4. /\ Sent(stage)[x] = 0
        /\ Sent(stage)' = [Sent(stage) EXCEPT ![x] = 1]
    <3>1. /\ Sent(stage) = [y \in Creators |-> Cardinality(SentTo(y, stage))]
          /\ Sent(stage)' = [y \in Creators |-> Cardinality(SentTo(y, stage)')]
      BY SentCounts
    <3>2. \A y \in Creators : Sent(stage)'[y] = IF y = x THEN 1 ELSE Sent(stage)[y]
      BY <2>3, <3>1
    <3>3. Sent(stage)[x] = 0
      BY <2>2, <2>3, <3>1
    <3>4. QED
      BY <3>1, <3>2, <3>3
  <2>5. \A other : other # stage => Sent(other)' = Sent(other)
    BY <2>2, SentCounts
  <2>6. suppressed' = suppressed /\ Interested' = Interested
    BY <1>1, <1>5 DEF Send, factVars, Interested
  <2>7. CASE stage = "initial"
    <3>1. Sent("handoff")[x] = 0
      <4>1. Cardinality(SentTo(x, "handoff")) = 0
        BY <2>2, <2>7, FS_EmptySet
      <4>2. Sent("handoff") = [y \in Creators |-> Cardinality(SentTo(y, "handoff"))]
        BY SentCounts
      <4>3. QED
        BY <2>2, <4>1, <4>2
    <3>2. Outreach!Introduce(x)
      BY <2>2, <2>4, <2>5, <2>6, <2>7, <3>1 DEF Outreach!Introduce
    <3>3. QED
      BY <2>2, <3>2 DEF Outreach!ContractNext
  <2>8. CASE stage = "handoff"
    <3>1. Outreach!HandOver(x)
      BY <2>2, <2>4, <2>5, <2>6, <2>8 DEF Outreach!HandOver
    <3>2. QED
      BY <2>2, <3>1 DEF Outreach!ContractNext
  <2>9. QED
    BY <2>2, <2>7, <2>8 DEF Stages
<1>6. QED
  BY <1>1, <1>3, <1>4, <1>5 DEF Effect

LEMMA InitIsPromised == Init => Outreach!ContractInit
<1> SUFFICES ASSUME Init PROVE Outreach!ContractInit
  OBVIOUS
<1>1. Packets = {} /\ suppressed = {} /\ Interested = {}
  BY DEF Init, Packets, Interested
<1>2. \A x, stage : Cardinality(SentTo(x, stage)) = 0
  BY <1>1, FS_EmptySet DEF SentTo
<1>3. Sent("initial") = [x \in Creators |-> 0] /\ Sent("handoff") = [x \in Creators |-> 0]
  BY <1>2, SentCounts
<1>4. QED
  BY <1>1, <1>3 DEF Outreach!ContractInit

\* ImplementsOutreachContract: outreach_duplicate_action under the lock of the
\* creator, the context that is compared again at the boundary and the address
\* ledger make all campaigns, runs and operators together one sender that
\* introduces a creator once, hands over once and after reviewed interest, and
\* writes nothing to who opted out.
THEOREM OutreachKeepsContract == Spec => ImplementsOutreachContract
<1>1. IInv /\ [Next]_vars => [Outreach!ContractNext]_(Outreach!contractVars)
  BY StepIsPromised
<1>2. QED
  BY <1>1, InitIsPromised, AutomationInvariant, PTL
     DEF Spec, ImplementsOutreachContract, Outreach!Contract
================================================================================
