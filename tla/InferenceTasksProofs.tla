------------------------ MODULE InferenceTasksProofs ------------------------
(***************************************************************************)
(* Proofs that a task and the row it fills agree (ResultFollowsTask), that *)
(* no model is asked for a result that is there (NoCallAfterResult), and   *)
(* that what is spent is bounded (LimitKept), for all tasks, workers,      *)
(* models, leases and scenarios.                                           *)
(***************************************************************************)
EXTENDS InferenceTasks, FiniteSetTheorems, SequenceTheorems, TLAPS

TaskRow ==
  [status: {"absent", "queued", "running"} \cup Final, lease: Nat, valid: BOOLEAN, cancel: BOOLEAN]
Results == {"none", "queued", "failed", "refused"} \cup Ready

\* The local variables of a worker; R has the routes.
Row(R) ==
  [step: Steps, task: Tasks \cup {"none"}, lease: Nat, route: R, tries: Nat, day: Nat,
   onLocal: BOOLEAN, repair: BOOLEAN, told: {"none", "cancel", "lost"}]

Shape ==
  /\ task \in [Tasks -> TaskRow]
  /\ result \in [Tasks -> Results]
  /\ today \in Nat
  /\ \E R : worker \in [Workers -> Row(R)]

\* A worker that is at work has a task; what it is done with has a result; a
\* task nobody asked for has none.
AtWork ==
  /\ \A w \in Workers : worker[w].step # "idle" =>
       worker[w].task \in Tasks /\ task[worker[w].task].status # "absent"
  /\ \A w \in Workers : worker[w].step = "done" => result[worker[w].task] \in Ready
  /\ \A t \in Tasks : task[t].status = "absent" => result[t] = "none"

\* Leases are numbered, and a number is held once: a worker that lost its task
\* is told from the one that has it, also after the task succeeded.
LeasesDiffer ==
  \A w \in Workers : worker[w].step # "idle" =>
    /\ worker[w].lease <= task[worker[w].task].lease
    /\ task[worker[w].task].status = "succeeded" =>
         worker[w].lease # task[worker[w].task].lease
    /\ \A v \in Workers \ {w} :
         worker[v].step # "idle" /\ worker[v].task = worker[w].task
           => worker[v].lease # worker[w].lease

\* The steps between the read of the result and its writing: under the lease
\* that is in force, nobody else wrote it meanwhile.
Asking == {"route", "ask", "reserve", "send", "answer", "local", "assess", "save"}
StillWaiting ==
  \A w \in Workers :
    /\ worker[w].step \in Asking /\ Checked(worker[w].task)
    /\ worker[w].lease = task[worker[w].task].lease
    => result[worker[w].task] = "queued"

IInv == Shape /\ AtWork /\ LeasesDiffer /\ StillWaiting /\ ResultFollowsTask

\* A worker may begin to ask, or go on.
MayAsk(w) ==
  \/ worker[w].step \in Asking
  \/ ~Checked(worker[w].task) \/ result[worker[w].task] = "queued"

\* What a step of w may do as long as it keeps its task.
Moves(w) ==
  /\ task' = task /\ today' = today /\ scenario' = scenario
  /\ worker'[w].lease = worker[w].lease
  /\ worker'[w].step \in Asking => MayAsk(w)
  /\ result'[worker[w].task] # result[worker[w].task] =>
       ~Checked(worker[w].task) \/ (Holds(w) /\ worker'[w].step \notin Asking)
  /\ \E R : worker' \in [Workers -> Row(R)]
  /\ \A v \in Workers \ {w} : worker'[v] = worker[v]
  /\ worker'[w].task = worker[w].task /\ worker[w].step # "idle"
  /\ worker'[w].step = "done" => result'[worker[w].task] \in Ready
  /\ result' \in [Tasks -> Results]
  /\ \A t \in Tasks : t # worker[w].task => result'[t] = result[t]
  /\ result[worker[w].task] \in Ready => result'[worker[w].task] \in Ready
  /\ result'[worker[w].task] = "used" => result[worker[w].task] = "used"

\* What every step but the ends of a run, Saved and Fails leaves alone.
Same == task' = task /\ result' = result /\ today' = today /\ scenario' = scenario

\* A worker that keeps its task keeps the invariant: a stale one writes nothing.
LEMMA MovesKeeps ==
  ASSUME IInv, NEW w \in Workers, Moves(w)
  PROVE  IInv'
<1>1. Shape'
  BY DEF IInv, Shape, Moves
<1>2. worker[w].task \in Tasks /\ task[worker[w].task].status # "absent"
  BY DEF IInv, AtWork, Moves
<1>3. ASSUME NEW v \in Workers, worker'[v].step # "idle"
      PROVE  worker'[v].task \in Tasks /\ task'[worker'[v].task].status # "absent"
  BY <1>2, <1>3 DEF IInv, AtWork, Moves
<1>4. ASSUME NEW v \in Workers, worker'[v].step = "done"
      PROVE  result'[worker'[v].task] \in Ready
  <2>1. CASE v = w
    BY <1>4, <2>1 DEF Moves
  <2>2. CASE v # w
    <3>1. worker'[v] = worker[v]
      BY <2>2 DEF Moves
    <3>2. worker[v].task \in Tasks /\ result[worker[v].task] \in Ready
      BY <1>4, <3>1 DEF IInv, AtWork
    <3>3. QED
      BY <3>1, <3>2 DEF Moves
  <2>3. QED
    BY <2>1, <2>2
<1>5. ASSUME NEW t \in Tasks, task'[t].status = "absent"
      PROVE  result'[t] = "none"
  BY <1>2, <1>5 DEF IInv, AtWork, Moves
<1>6. ResultFollowsTask'
  BY <1>2 DEF IInv, ResultFollowsTask, Moves
<1>7. \A v \in Workers :
        /\ worker'[v].task = worker[v].task /\ worker'[v].lease = worker[v].lease
        /\ worker'[v].step # "idle" => worker[v].step # "idle"
  BY DEF Moves
<1>8. LeasesDiffer'
  BY <1>7 DEF IInv, LeasesDiffer, Moves
<1>9. ASSUME NEW v \in Workers, worker'[v].step \in Asking, Checked(worker[v].task),
             worker[v].lease = task[worker[v].task].lease
      PROVE  result'[worker[v].task] = "queued"
  <2>1. CASE v = w
    <3>1. result'[worker[w].task] = result[worker[w].task] /\ MayAsk(w)
      BY <1>9, <2>1 DEF Moves
    <3>2. QED
      BY <1>9, <2>1, <3>1 DEF MayAsk, IInv, StillWaiting
  <2>2. CASE v # w
    <3>1. worker[v].step \in Asking /\ worker[v].step # "idle"
      BY <1>9, <2>2 DEF Moves, Asking
    <3>2. worker[v].task \in Tasks /\ result[worker[v].task] = "queued"
      BY <1>9, <3>1 DEF IInv, AtWork, StillWaiting
    <3>3. worker[v].task = worker[w].task => ~Holds(w)
      BY <1>9, <2>2, <3>1 DEF IInv, LeasesDiffer, Holds, Moves
    <3>4. QED
      BY <1>9, <3>2, <3>3 DEF Moves
  <2>3. QED
    BY <2>1, <2>2
<1>10. StillWaiting'
  BY <1>7, <1>9 DEF StillWaiting, Moves, Checked, Kind
<1>11. QED
  BY <1>1, <1>3, <1>4, <1>5, <1>6, <1>8, <1>10 DEF IInv, AtWork

\* A step that changes only where w is.
LEMMA GotoMoves ==
  ASSUME IInv, NEW w \in Workers, NEW s \in Steps, Goto(w, s), Same,
         worker[w].step # "idle", s \in Asking => MayAsk(w),
         s = "done" => result[worker[w].task] \in Ready
  PROVE  Moves(w)
<1>1. PICK R : worker \in [Workers -> Row(R)]
  BY DEF IInv, Shape
<1>2. worker' = [worker EXCEPT ![w].step = s]
  BY DEF Goto
<1>3. worker' \in [Workers -> Row(R)]
  BY <1>1, <1>2 DEF Row
<1>4. /\ \A v \in Workers \ {w} : worker'[v] = worker[v]
      /\ worker'[w].task = worker[w].task /\ worker'[w].lease = worker[w].lease
      /\ worker'[w].step = s
  BY <1>1, <1>2 DEF Row
<1>5. result \in [Tasks -> Results]
  BY DEF IInv, Shape
<1>6. QED
  BY <1>3, <1>4, <1>5 DEF Moves, Same

\* A step that changes several variables of w, or its route.
LEMMA WorkerMoves ==
  ASSUME IInv, NEW w \in Workers, NEW R, worker \in [Workers -> Row(R)],
         NEW Q, NEW row \in Row(Q), worker' = [worker EXCEPT ![w] = row],
         row.task = worker[w].task, row.lease = worker[w].lease, row.step # "done",
         row.step \in Asking => MayAsk(w), worker[w].step # "idle", Same
  PROVE  Moves(w)
<1> DEFINE S == R \cup Q
<1>1. worker \in [Workers -> Row(S)]
  BY DEF Row
<1>2. row \in Row(S)
  BY DEF Row
<1>3. worker' \in [Workers -> Row(S)]
  BY <1>1, <1>2
<1>4. /\ worker'[w] = row
      /\ \A v \in Workers \ {w} : worker'[v] = worker[v]
  BY <1>1
<1>5. result \in [Tasks -> Results]
  BY DEF IInv, Shape
<1>6. QED
  BY <1>3, <1>4, <1>5 DEF Moves, Same

-----------------------------------------------------------------------------
(* The steps of a run.                                                     *)

\* A failed check ends the asking.
LEMMA Refusals ==
  ASSUME NEW w
  PROVE  Refusal(w) \in Steps \ ({"done", "idle"} \cup Asking)
BY DEF Refusal, Steps, Asking

LEMMA RefusedMoves ==
  ASSUME IInv, NEW w \in Workers, Refused(w), worker[w].step # "idle"
  PROVE  Moves(w)
<1>1. Goto(w, Refusal(w)) /\ Same
  BY DEF Refused, rows, Same
<1>2. QED
  BY <1>1, Refusals, GotoMoves

LEMMA StartsMoves ==
  ASSUME IInv, NEW w \in Workers, Starts(w), worker[w].step # "idle"
  PROVE  Moves(w)
<1> DEFINE s == AfterRead(worker[w].task)
<1>1. s \in Steps
  BY DEF AfterRead, FirstRoute, Steps
<1>2. s = "done" => result[worker[w].task] \in Ready
  BY DEF AfterRead, FirstRoute
<1>3. s \in Asking => MayAsk(w)
  BY DEF AfterRead, Asking, MayAsk
<1>4. Goto(w, s) /\ Same
  BY DEF Starts, rows, Same
<1>5. QED
  BY <1>1, <1>2, <1>3, <1>4, GotoMoves

LEMMA BeginMoves ==
  ASSUME IInv, NEW w \in Workers, Begin(w)
  PROVE  Moves(w)
<1>1. worker[w].step = "start"
  BY DEF Begin, StartPlan, StartDraft, StartReply, StartApplication, StartChecked
<1>2. CASE Starts(w)
  BY <1>1, <1>2, StartsMoves
<1>3. CASE Refused(w)
  BY <1>1, <1>3, RefusedMoves
<1>4. CASE Goto(w, "interrupted") /\ UNCHANGED <<scenario, rows, ledger, cooling, today, changes>>
  <2>1. Same
    BY <1>4 DEF rows, Same
  <2>2. QED
    BY <1>1, <1>4, <2>1, GotoMoves DEF Steps, Asking
<1>5. QED
  BY <1>2, <1>3, <1>4
     DEF Begin, StartPlan, StartDraft, StartReply, StartApplication, StartChecked

LEMMA Fallbacks ==
  ASSUME NEW t
  PROVE  Fallback(t) \in Steps \ {"done", "idle"}
BY DEF Fallback, Steps

\* The steps that change more of a row than its step.
NewRoute(x, s, r) == [x EXCEPT !.step = s, !.route = r]
ToLocal(x) == [x EXCEPT !.step = "send", !.onLocal = TRUE, !.tries = x.tries + 1]

LEMMA NewRouteRow ==
  ASSUME NEW R, NEW x \in Row(R), NEW s \in Steps, NEW r
  PROVE  /\ NewRoute(x, s, r) \in Row({r})
         /\ NewRoute(x, s, r).task = x.task /\ NewRoute(x, s, r).lease = x.lease
         /\ NewRoute(x, s, r).step = s
BY DEF Row, NewRoute

LEMMA ToLocalRow ==
  ASSUME NEW R, NEW x \in Row(R)
  PROVE  /\ ToLocal(x) \in Row(R)
         /\ ToLocal(x).task = x.task /\ ToLocal(x).lease = x.lease
         /\ ToLocal(x).step = "send"
<1>1. x.tries + 1 \in Nat
  BY DEF Row
<1>2. QED
  BY <1>1 DEF Row, ToLocal, Steps

LEMMA NewRouteMoves ==
  ASSUME IInv, NEW w \in Workers, NEW s \in Steps \ {"done", "idle"}, NEW r,
         worker' = [worker EXCEPT ![w] = NewRoute(worker[w], s, r)],
         worker[w].step # "idle", MayAsk(w), Same
  PROVE  Moves(w)
<1>1. PICK R : worker \in [Workers -> Row(R)]
  BY DEF IInv, Shape
<1>2. worker[w] \in Row(R)
  BY <1>1
<1> DEFINE row == NewRoute(worker[w], s, r)
<1>3. /\ row \in Row({r}) /\ row.step = s
      /\ row.task = worker[w].task /\ row.lease = worker[w].lease
  BY <1>2, NewRouteRow
<1>4. worker' = [worker EXCEPT ![w] = row]
  OBVIOUS
<1>5. QED
  BY <1>1, <1>3, <1>4, WorkerMoves

LEMMA RouteMoves ==
  ASSUME IInv, NEW w \in Workers, Route(w)
  PROVE  Moves(w)
<1>1. worker[w].step = "route" /\ MayAsk(w) /\ Same
  BY DEF Route, rows, MayAsk, Asking, Same
<1>2. CASE Goto(w, Fallback(worker[w].task))
  BY <1>1, <1>2, Fallbacks, GotoMoves
<1>3. ASSUME NEW r, worker' = [worker EXCEPT ![w].step = "ask", ![w].route = r]
      PROVE  Moves(w)
  <2>1. PICK R : worker \in [Workers -> Row(R)]
    BY DEF IInv, Shape
  <2>2. worker' = [worker EXCEPT ![w] = NewRoute(worker[w], "ask", r)]
    BY <1>3, <2>1 DEF Row, NewRoute
  <2>3. QED
    BY <1>1, <2>2, NewRouteMoves DEF Steps
<1>4. QED
  BY <1>2, <1>3 DEF Route

LEMMA AskMoves ==
  ASSUME IInv, NEW w \in Workers, Ask(w)
  PROVE  Moves(w)
<1>1. PICK R : worker \in [Workers -> Row(R)]
  BY DEF IInv, Shape
<1>2. worker[w].step = "ask" /\ MayAsk(w) /\ today \in Nat
  BY DEF Ask, IInv, Shape, MayAsk, Asking
<1>3. CASE Refused(w)
  BY <1>2, <1>3, RefusedMoves
<1>4. CASE /\ worker' = [worker EXCEPT ![w].step = "reserve", ![w].day = today]
           /\ UNCHANGED <<scenario, rows, ledger, cooling, today, changes>>
  <2> DEFINE row == [worker[w] EXCEPT !.step = "reserve", !.day = today]
  <2>1. /\ row \in Row(R) /\ row.step # "done"
        /\ row.task = worker[w].task /\ row.lease = worker[w].lease
    BY <1>1, <1>2 DEF Row, Steps
  <2>2. worker' = [worker EXCEPT ![w] = row]
    BY <1>1, <1>4 DEF Row
  <2>3. Same
    BY <1>4 DEF rows, Same
  <2>4. QED
    BY <1>1, <1>2, <2>1, <2>2, <2>3, WorkerMoves
<1>5. QED
  BY <1>3, <1>4 DEF Ask

LEMMA ReserveMoves ==
  ASSUME IInv, NEW w \in Workers, Reserve(w)
  PROVE  Moves(w)
<1>1. worker[w].step = "reserve" /\ MayAsk(w) /\ Same
  BY DEF Reserve, rows, MayAsk, Asking, Same
<1>2. PICK s \in Steps \ {"done", "idle"} : Goto(w, s)
  BY Fallbacks DEF Reserve, Steps
<1>3. QED
  BY <1>1, <1>2, GotoMoves

LEMMA SendMoves ==
  ASSUME IInv, NEW w \in Workers, Send(w)
  PROVE  Moves(w)
<1>1. worker[w].step = "send" /\ MayAsk(w) /\ Same
  BY DEF Send, rows, MayAsk, Asking, Same
<1>2. PICK s \in Steps \ {"done", "idle"} : Goto(w, s)
  BY Refusals DEF Send, Steps
<1>3. QED
  BY <1>1, <1>2, GotoMoves

LEMMA HostedMoves ==
  ASSUME IInv, NEW w \in Workers, HostedAccepted(w) \/ ModelRefused(w) \/ RouteFails(w)
  PROVE  Moves(w)
<1>1. worker[w].step = "answer" /\ MayAsk(w) /\ Same
  BY DEF HostedAccepted, ModelRefused, RouteFails, Answered, rows, MayAsk, Asking, Same
<1>2. CASE HostedAccepted(w)
  <2>1. PICK i : worker' = [worker EXCEPT ![w].step = AfterAnswer(w),
                                          ![w].route = <<worker[w].route[i]>>]
    BY <1>2 DEF HostedAccepted
  <2>2. AfterAnswer(w) \in Steps \ {"done", "idle"}
    BY DEF AfterAnswer, Steps
  <2>3. PICK R : worker \in [Workers -> Row(R)]
    BY DEF IInv, Shape
  <2>4. worker' = [worker EXCEPT ![w] = NewRoute(worker[w], AfterAnswer(w), <<worker[w].route[i]>>)]
    BY <2>1, <2>3 DEF Row, NewRoute
  <2>5. QED
    BY <1>1, <2>2, <2>4, NewRouteMoves
<1>3. CASE ModelRefused(w)
  <2> DEFINE rest(i) == After(worker[w].route, i)
             s(i) == IF rest(i) = <<>> THEN Fallback(worker[w].task) ELSE "ask"
  <2>1. PICK i : worker' = [worker EXCEPT ![w].route = rest(i), ![w].step = s(i)]
    BY <1>3 DEF ModelRefused
  <2>2. s(i) \in Steps \ {"done", "idle"}
    BY Fallbacks DEF Steps
  <2>3. PICK R : worker \in [Workers -> Row(R)]
    BY DEF IInv, Shape
  <2>4. worker' = [worker EXCEPT ![w] = NewRoute(worker[w], s(i), rest(i))]
    BY <2>1, <2>3 DEF Row, NewRoute
  <2>5. QED
    BY <1>1, <2>2, <2>4, NewRouteMoves
<1>4. CASE RouteFails(w)
  <2>1. PICK s \in Steps \ {"done", "idle"} : Goto(w, s)
    BY <1>4, Fallbacks DEF RouteFails, Steps
  <2>2. QED
    BY <1>1, <2>1, GotoMoves
<1>5. QED
  BY <1>2, <1>3, <1>4

LEMMA LocalMoves ==
  ASSUME IInv, NEW w \in Workers, OnLocal(w)
  PROVE  Moves(w)
<1>1. worker[w].step # "idle" /\ MayAsk(w) /\ Same
  BY DEF OnLocal, Local, LocalAccepted, LocalRefused, EndpointFails, Answered, Refused, rows,
         MayAsk, Asking, Same
<1>2. CASE Local(w)
  <2>1. CASE Refused(w)
    BY <1>1, <2>1, RefusedMoves
  <2>2. CASE Goto(w, "failing")
    BY <1>1, <2>2, GotoMoves DEF Steps
  <2>3. CASE worker' = [worker EXCEPT ![w].step = "send", ![w].onLocal = TRUE, ![w].tries = @ + 1]
    <3>1. PICK R : worker \in [Workers -> Row(R)]
      BY DEF IInv, Shape
    <3>2. worker[w] \in Row(R)
      BY <3>1
    <3>3. worker' = [worker EXCEPT ![w] = ToLocal(worker[w])]
      BY <2>3, <3>1, <3>2 DEF Row, ToLocal
    <3>4. QED
      BY <1>1, <3>1, <3>2, <3>3, ToLocalRow, WorkerMoves
  <2>4. QED
    BY <1>2, <2>1, <2>2, <2>3 DEF Local
<1>3. CASE LocalAccepted(w) \/ LocalRefused(w) \/ EndpointFails(w)
  <2>1. PICK s \in Steps \ {"done", "idle"} : Goto(w, s)
    BY <1>3 DEF LocalAccepted, LocalRefused, EndpointFails, AfterAnswer, GivesUp, Steps
  <2>2. QED
    BY <1>1, <2>1, GotoMoves
<1>4. QED
  BY <1>2, <1>3 DEF OnLocal

LEMMA AssessMoves ==
  ASSUME IInv, NEW w \in Workers, Assess(w)
  PROVE  Moves(w)
<1>1. worker[w].step = "assess" /\ MayAsk(w) /\ Same
  BY DEF Assess, rows, MayAsk, Asking, Same
<1> DEFINE s == IF worker[w].onLocal THEN "local" ELSE "ask"
<1>2. CASE worker' = [worker EXCEPT ![w].step = s, ![w].repair = TRUE]
  <2>1. PICK R : worker \in [Workers -> Row(R)]
    BY DEF IInv, Shape
  <2> DEFINE row == [worker[w] EXCEPT !.step = s, !.repair = TRUE]
  <2>2. /\ row \in Row(R) /\ row.step # "done"
        /\ row.task = worker[w].task /\ row.lease = worker[w].lease
    BY <2>1, ZenonT(30) DEF Row, Steps
  <2>3. worker' = [worker EXCEPT ![w] = row]
    BY <1>2, <2>1 DEF Row
  <2>4. QED
    BY <1>1, <2>1, <2>2, <2>3, WorkerMoves
<1>3. CASE Goto(w, "interrupted") \/ Goto(w, "save")
  BY <1>1, <1>3, GotoMoves DEF Steps
<1>4. QED
  BY <1>2, <1>3 DEF Assess

LEMMA ToldMoves ==
  ASSUME IInv, NEW w \in Workers, Told(w)
  PROVE  Moves(w)
<1>1. PICK R : worker \in [Workers -> Row(R)]
  BY DEF IInv, Shape
<1>2. worker[w].step # "idle" /\ Same
  BY DEF Told, rows, Same
<1>3. PICK reason \in {"cancel", "lost"} : worker' = [worker EXCEPT ![w].told = reason]
  BY DEF Told
<1>4. /\ worker' \in [Workers -> Row(R)]
      /\ \A v \in Workers \ {w} : worker'[v] = worker[v]
      /\ worker'[w].task = worker[w].task /\ worker'[w].lease = worker[w].lease
      /\ worker'[w].step = worker[w].step
  BY <1>1, <1>3 DEF Row
<1>5. QED
  BY <1>2, <1>4 DEF Moves, Same, MayAsk, IInv, Shape, AtWork

\* What is stored is a result, and worker and row say so together.
LEMMA SavedMoves ==
  ASSUME IInv, NEW w \in Workers, NEW as \in {"ready", "unsupported"}, Saved(w, as),
         worker[w].step # "idle", Checked(worker[w].task) => Holds(w)
  PROVE  Moves(w)
<1>1. PICK R : worker \in [Workers -> Row(R)]
  BY DEF IInv, Shape
<1>2. /\ worker' = [worker EXCEPT ![w].step = "done"]
      /\ task' = task /\ today' = today /\ scenario' = scenario
  BY DEF Saved, Goto
<1>3. /\ worker' \in [Workers -> Row(R)]
      /\ \A v \in Workers \ {w} : worker'[v] = worker[v]
      /\ worker'[w].task = worker[w].task /\ worker'[w].lease = worker[w].lease
      /\ worker'[w].step = "done"
  BY <1>1, <1>2 DEF Row, Steps
<1>4. worker[w].task \in Tasks /\ result \in [Tasks -> Results]
  BY DEF IInv, Shape, AtWork
<1>5. /\ result' \in [Tasks -> Results] /\ result'[worker[w].task] = as
      /\ \A t \in Tasks : t # worker[w].task => result'[t] = result[t]
  BY <1>4 DEF Saved, Results, Ready
<1>6. QED
  BY <1>2, <1>3, <1>5 DEF Moves, Ready, Asking

LEMMA SaveMoves ==
  ASSUME IInv, NEW w \in Workers, Save(w)
  PROVE  Moves(w)
<1>1. worker[w].step = "save"
  BY DEF Save, SaveProposal, SaveDraft, SaveReplyDraft, SaveApplicationDraft, Saving
<1>2. ASSUME NEW as \in {"ready", "unsupported"}, Saved(w, as), MaySave(w)
      PROVE  Moves(w)
  <2>1. Checked(worker[w].task) => Holds(w)
    BY <1>2 DEF MaySave, Passes, Owned
  <2>2. QED
    BY <1>1, <1>2, <2>1, SavedMoves
<1>3. ASSUME NEW s \in Steps \ ({"done", "idle"} \cup Asking), Goto(w, s),
             UNCHANGED <<scenario, rows, ledger, cooling, today, changes>>
      PROVE  Moves(w)
  <2>1. Same
    BY <1>3 DEF rows, Same
  <2>2. QED
    BY <1>1, <1>3, <2>1, GotoMoves
<1>4. CASE \E s \in Steps \ ({"done", "idle"} \cup Asking) : NotSaved(w, s)
  BY <1>3, <1>4 DEF NotSaved
<1>5. CASE SaveProposal(w)
  <2>1. (IF Passes(w) THEN "raised" ELSE Refusal(w))
           \in Steps \ ({"done", "idle"} \cup Asking)
    BY Refusals DEF Steps, Asking
  <2>2. QED
    BY <1>2, <1>4, <1>5, <2>1 DEF SaveProposal
<1>6. CASE SaveDraft(w) \/ SaveReplyDraft(w)
  BY <1>2, <1>4, <1>6, Refusals DEF SaveDraft, SaveReplyDraft
<1>7. CASE SaveApplicationDraft(w)
  <2>1. ~Checked(worker[w].task)
    BY <1>7 DEF SaveApplicationDraft, Saving, Checked
  <2>2. CASE Saved(w, "ready")
    BY <1>1, <2>1, <2>2, SavedMoves
  <2>3. QED
    BY <1>3, <1>7, <2>2 DEF SaveApplicationDraft, Steps, Asking
<1>8. QED
  BY <1>5, <1>6, <1>7 DEF Save

LEMMA FailsMoves ==
  ASSUME IInv, NEW w \in Workers, Fails(w)
  PROVE  Moves(w)
<1>1. PICK R : worker \in [Workers -> Row(R)]
  BY DEF IInv, Shape
<1>2. /\ worker[w].step # "idle" /\ worker' = [worker EXCEPT ![w].step = "raised"]
      /\ task' = task /\ today' = today /\ scenario' = scenario
  BY DEF Fails, Goto
<1>3. /\ worker' \in [Workers -> Row(R)]
      /\ \A v \in Workers \ {w} : worker'[v] = worker[v]
      /\ worker'[w].task = worker[w].task /\ worker'[w].lease = worker[w].lease
      /\ worker'[w].step = "raised"
  BY <1>1, <1>2 DEF Row, Steps
<1>4. worker[w].task \in Tasks /\ result \in [Tasks -> Results]
  BY <1>2 DEF IInv, Shape, AtWork
<1>5. /\ result' \in [Tasks -> Results]
      /\ \A t \in Tasks : t # worker[w].task => result'[t] = result[t]
      /\ result'[worker[w].task] # result[worker[w].task] =>
           /\ result[worker[w].task] = "queued" /\ Holds(w)
           /\ result'[worker[w].task] \in {"failed", "refused"}
  BY <1>4 DEF Fails, Results, Ready, Owned
<1>6. QED
  BY <1>2, <1>3, <1>4, <1>5 DEF Moves, Ready, Asking

LEMMA TellOrWork ==
  ASSUME IInv, NEW w \in Workers, Work(w) \/ Told(w)
  PROVE  Moves(w) \/ Done(w) \/ Raised(w) \/ Stopped(w)
BY BeginMoves, RouteMoves, AskMoves, ReserveMoves, SendMoves, HostedMoves, LocalMoves,
   AssessMoves, SaveMoves, FailsMoves, ToldMoves
   DEF Work, Hosted

-----------------------------------------------------------------------------
(* The ends of a run, and what others do.                                  *)

\* A worker lets go of its task, whose row may change with it.
LEMMA LetsGo ==
  ASSUME IInv, NEW w \in Workers, worker' = [worker EXCEPT ![w] = Idle],
         result' = result, today' = today, scenario' = scenario,
         task' \in [Tasks -> TaskRow],
         \A t \in Tasks :
           /\ task'[t].lease = task[t].lease
           /\ task'[t].status = "succeeded" =>
                \/ task[t].status = "succeeded"
                \/ t = worker[w].task /\ worker[w].step # "idle"
                   /\ worker[w].lease = task[t].lease
           /\ task[t].status # "absent" => task'[t].status # "absent"
           /\ task[t].status = "absent" => task'[t].status = "absent"
           /\ task[t].status = "succeeded" => task'[t].status = "succeeded"
           /\ task'[t].status = "succeeded" => result[t] \in Ready
  PROVE  IInv'
<1>1. PICK R : worker \in [Workers -> Row(R)]
  BY DEF IInv, Shape
<1> DEFINE S == R \cup {<<>>}
<1>2. worker \in [Workers -> Row(S)]
  BY <1>1 DEF Row
<1>3. Idle \in Row(S) /\ Idle.step = "idle"
  BY DEF Idle, Row, Steps
<1>4. worker' \in [Workers -> Row(S)]
  BY <1>2, <1>3
<1>5. \A v \in Workers : worker'[v].step # "idle" => worker'[v] = worker[v] /\ v # w
  BY <1>1, <1>3
<1>6. Shape'
  BY <1>4 DEF IInv, Shape
<1>7. AtWork'
  <2>1. \A v \in Workers : worker'[v].step = "done" => worker'[v] = worker[v]
    BY <1>5
  <2>2. QED
    BY <1>5, <2>1 DEF IInv, AtWork
<1>8. ResultFollowsTask'
  BY DEF IInv, ResultFollowsTask
<1>9. \A v \in Workers : worker'[v].step # "idle" => worker[v].task \in Tasks
  BY <1>5 DEF IInv, AtWork
<1>10. LeasesDiffer'
  BY <1>5, <1>9 DEF IInv, LeasesDiffer
<1>11. \A v \in Workers : worker'[v].step \in Asking => worker'[v].step # "idle"
  BY DEF Asking
<1>12. StillWaiting'
  BY <1>5, <1>9, <1>11 DEF IInv, StillWaiting, Checked, Kind
<1>13. QED
  BY <1>6, <1>7, <1>8, <1>10, <1>12 DEF IInv

LEMMA EndsKeeps ==
  ASSUME IInv, NEW w \in Workers, worker[w].step # "idle",
         NEW s \in Final, Ends(w, s), Holds(w),
         s = "succeeded" => worker[w].step = "done"
  PROVE  IInv'
<1>1. worker[w].task \in Tasks /\ task \in [Tasks -> TaskRow]
  BY DEF IInv, Shape, AtWork
<1>2. task' = [task EXCEPT ![worker[w].task] = [@ EXCEPT !.status = s, !.valid = FALSE]]
  BY DEF Ends
<1>3. task' \in [Tasks -> TaskRow]
  BY <1>1, <1>2 DEF TaskRow, Final
<1>4. /\ task'[worker[w].task].status = s
      /\ task'[worker[w].task].lease = task[worker[w].task].lease
      /\ \A t \in Tasks : t # worker[w].task => task'[t] = task[t]
  BY <1>1, <1>2 DEF TaskRow
<1>5. s = "succeeded" => result[worker[w].task] \in Ready
  BY DEF IInv, AtWork
<1>6. \A t \in Tasks :
        /\ task'[t].lease = task[t].lease
        /\ task'[t].status = "succeeded" =>
             \/ task[t].status = "succeeded"
             \/ t = worker[w].task /\ worker[w].step # "idle"
                /\ worker[w].lease = task[t].lease
        /\ task[t].status # "absent" => task'[t].status # "absent"
        /\ task[t].status = "absent" => task'[t].status = "absent"
        /\ task[t].status = "succeeded" => task'[t].status = "succeeded"
        /\ task'[t].status = "succeeded" => result[t] \in Ready
  BY <1>1, <1>4, <1>5 DEF Final, Holds, IInv, ResultFollowsTask
<1>7. QED
  BY <1>3, <1>6, LetsGo DEF Ends

LEMMA DroppedKeeps ==
  ASSUME IInv, NEW w \in Workers, Dropped(w)
  PROVE  IInv'
<1>1. /\ worker' = [worker EXCEPT ![w] = Idle]
      /\ task' = task /\ result' = result /\ today' = today /\ scenario' = scenario
  BY DEF Dropped, rows
<1>2. \A t \in Tasks : task[t].status = "succeeded" => result[t] \in Ready
  BY DEF IInv, ResultFollowsTask
<1>3. task' \in [Tasks -> TaskRow]
  BY <1>1 DEF IInv, Shape
<1>4. QED
  BY <1>1, <1>2, <1>3, LetsGo

LEMMA OutcomeKeeps ==
  ASSUME IInv, NEW w \in Workers, Done(w) \/ Raised(w) \/ Stopped(w)
  PROVE  IInv'
<1>1. worker[w].step # "idle"
  BY DEF Done, Raised, Stopped
<1>2. \/ Dropped(w)
      \/ Holds(w) /\ worker[w].step = "done" /\ Ends(w, "succeeded")
      \/ Holds(w) /\ (Ends(w, "failed") \/ Ends(w, "cancelled"))
  BY DEF Done, Raised, Stopped, Owned
<1>3. QED
  BY <1>1, <1>2, DroppedKeeps, EndsKeeps DEF Final

\* The new lease has a number nobody holds.
LEMMA ClaimKeeps ==
  ASSUME IInv, NEW w \in Workers, NEW t \in Tasks, Claim(w, t)
  PROVE  IInv'
<1>1. PICK R : worker \in [Workers -> Row(R)]
  BY DEF IInv, Shape
<1>2. task \in [Tasks -> TaskRow] /\ task[t].status = "queued"
  BY DEF IInv, Shape, Claim
<1> DEFINE row == [Idle EXCEPT !.step = "start", !.task = t, !.lease = task[t].lease + 1]
           S == R \cup {<<>>}
<1>3. task[t].lease + 1 \in Nat
  BY <1>2 DEF TaskRow
<1>4. /\ row \in Row(S) /\ row.task = t /\ row.step = "start"
      /\ row.lease = task[t].lease + 1
  BY <1>3 DEF Idle, Row, Steps
<1>5. worker \in [Workers -> Row(S)]
  BY <1>1 DEF Row
<1>6. /\ worker' = [worker EXCEPT ![w] = row]
      /\ result' = result /\ today' = today /\ scenario' = scenario
  BY DEF Claim
<1>7. /\ worker' \in [Workers -> Row(S)] /\ worker'[w] = row
      /\ \A v \in Workers \ {w} : worker'[v] = worker[v]
  BY <1>4, <1>5, <1>6
<1>8. /\ task' \in [Tasks -> TaskRow] /\ task'[t].status = "running"
      /\ task'[t].lease = task[t].lease + 1
      /\ \A u \in Tasks \ {t} : task'[u] = task[u]
  BY <1>2, <1>3 DEF Claim, TaskRow
<1>9. Shape'
  BY <1>6, <1>7, <1>8 DEF IInv, Shape
<1>10. \A u \in Tasks : /\ task'[u].status = "absent" <=> task[u].status = "absent"
                        /\ task'[u].status = "succeeded" <=> task[u].status = "succeeded"
  BY <1>2, <1>8
<1>11. AtWork'
  BY <1>2, <1>4, <1>6, <1>7, <1>8, <1>10 DEF IInv, AtWork
<1>12. ResultFollowsTask'
  BY <1>6, <1>10 DEF IInv, ResultFollowsTask
<1>13. ASSUME NEW v \in Workers \ {w}, worker[v].step # "idle", worker[v].task = t
       PROVE  worker[v].lease \in Nat /\ worker[v].lease < task'[t].lease
  <2>1. worker[v].lease \in Nat
    BY <1>5 DEF Row
  <2>2. worker[v].lease <= task[t].lease /\ task[t].lease \in Nat
    BY <1>2, <1>13 DEF IInv, LeasesDiffer, TaskRow
  <2>3. QED
    BY <1>8, <2>1, <2>2
<1>14. LeasesDiffer'
  <2>1. ASSUME NEW v \in Workers, worker'[v].step # "idle"
        PROVE  /\ worker'[v].lease <= task'[worker'[v].task].lease
               /\ task'[worker'[v].task].status = "succeeded" =>
                    worker'[v].lease # task'[worker'[v].task].lease
               /\ \A u \in Workers \ {v} :
                    worker'[u].step # "idle" /\ worker'[u].task = worker'[v].task
                      => worker'[u].lease # worker'[v].lease
    <3>1. CASE v = w
      <4>1. \A u \in Workers \ {w} :
              worker[u].step # "idle" /\ worker[u].task = t => worker[u].lease # task'[t].lease
        BY <1>13
      <4>2. task'[t].lease \in Nat
        BY <1>3, <1>8
      <4>3. worker'[v].task = t /\ worker'[v].lease = task'[t].lease
        BY <1>4, <1>7, <1>8, <3>1
      <4>4. \A u \in Workers \ {v} : worker'[u] = worker[u]
        BY <1>7, <3>1
      <4>5. task'[t].status # "succeeded"
        BY <1>8
      <4>6. QED
        BY <3>1, <4>1, <4>2, <4>3, <4>4, <4>5
    <3>2. CASE v # w
      <4>1. worker'[v] = worker[v] /\ worker[v].step # "idle" /\ worker[v].task \in Tasks
        BY <1>7, <2>1, <3>2 DEF IInv, AtWork
      <4>2. CASE worker[v].task = t
        <5>1. worker[v].lease # row.lease /\ worker[v].lease <= task'[t].lease
          BY <1>4, <1>8, <1>13, <3>2, <4>1, <4>2, <1>3
        <5>2. \A u \in Workers \ {v} :
                u # w /\ worker[u].step # "idle" /\ worker[u].task = t
                  => worker[u].lease # worker[v].lease
          BY <4>1, <4>2 DEF IInv, LeasesDiffer
        <5>3. QED
          BY <1>7, <1>8, <4>1, <4>2, <5>1, <5>2, ZenonT(30)
      <4>3. CASE worker[v].task # t
        <5>1. task'[worker[v].task] = task[worker[v].task]
          BY <1>8, <4>1, <4>3
        <5>2. /\ worker[v].lease <= task[worker[v].task].lease
              /\ task[worker[v].task].status = "succeeded" =>
                   worker[v].lease # task[worker[v].task].lease
              /\ \A u \in Workers \ {v} :
                   worker[u].step # "idle" /\ worker[u].task = worker[v].task
                     => worker[u].lease # worker[v].lease
          BY <4>1 DEF IInv, LeasesDiffer
        <5>3. QED
          BY <1>4, <1>7, <4>1, <4>3, <5>1, <5>2, ZenonT(30)
      <4>4. QED
        BY <4>2, <4>3
    <3>3. QED
      BY <3>1, <3>2
  <2>2. QED
    BY <2>1 DEF LeasesDiffer
<1>15. ASSUME NEW v \in Workers, worker'[v].step \in Asking, Checked(worker'[v].task),
              worker'[v].lease = task'[worker'[v].task].lease
       PROVE  result[worker'[v].task] = "queued"
  <2>1. v # w /\ worker'[v] = worker[v] /\ worker[v].step # "idle"
    BY <1>4, <1>7, <1>15 DEF Asking
  <2>2. worker[v].task \in Tasks \ {t}
    BY <1>13, <1>15, <2>1 DEF IInv, AtWork
  <2>3. task'[worker[v].task] = task[worker[v].task]
    BY <1>8, <2>2
  <2>4. QED
    BY <1>15, <2>1, <2>3 DEF IInv, StillWaiting
<1>16. StillWaiting'
  BY <1>6, <1>15 DEF StillWaiting, Checked, Kind
<1>17. QED
  BY <1>9, <1>11, <1>12, <1>14, <1>16 DEF IInv

LEMMA CrashKeeps ==
  ASSUME IInv, NEW w \in Workers, Crash(w)
  PROVE  IInv'
<1>1. worker[w].task \in Tasks /\ task \in [Tasks -> TaskRow]
  BY DEF IInv, Shape, AtWork, Crash
<1>2. task' = [task EXCEPT ![worker[w].task].valid = FALSE]
  BY DEF Crash
<1>3. /\ task' \in [Tasks -> TaskRow]
      /\ \A t \in Tasks : task'[t].status = task[t].status /\ task'[t].lease = task[t].lease
  BY <1>1, <1>2 DEF TaskRow
<1>4. /\ worker' = [worker EXCEPT ![w] = Idle]
      /\ result' = result /\ today' = today /\ scenario' = scenario
  BY DEF Crash
<1>5. \A t \in Tasks : task[t].status = "succeeded" => result[t] \in Ready
  BY DEF IInv, ResultFollowsTask
<1>6. QED
  BY <1>3, <1>4, <1>5, LetsGo

\* A task changes and its result does not, nor does it start or succeed.
LEMMA TaskKeeps ==
  ASSUME IInv, worker' = worker, result' = result, today' \in Nat, scenario' = scenario,
         task' \in [Tasks -> TaskRow],
         \A t \in Tasks :
           /\ task'[t].lease = task[t].lease
           /\ task'[t].status = "absent" <=> task[t].status = "absent"
           /\ task'[t].status = "succeeded" <=> task[t].status = "succeeded"
  PROVE  IInv'
<1>1. Shape'
  BY DEF IInv, Shape
<1>2. AtWork'
  BY DEF IInv, AtWork
<1>3. ResultFollowsTask'
  BY DEF IInv, ResultFollowsTask
<1>4. LeasesDiffer'
  BY DEF IInv, AtWork, LeasesDiffer
<1>5. \A w \in Workers : worker[w].step \in Asking => worker[w].task \in Tasks
  BY DEF IInv, AtWork, Asking
<1>6. StillWaiting'
  BY <1>5 DEF IInv, StillWaiting, Checked, Kind
<1>7. QED
  BY <1>1, <1>2, <1>3, <1>4, <1>6 DEF IInv

LEMMA SurroundingsKeep ==
  ASSUME IInv, NEW t \in Tasks,
         CancelTask(t) \/ Edit(t) \/ Recover(t) \/ LeaseRunsOut(t) \/ Midnight
  PROVE  IInv'
<1>1. task \in [Tasks -> TaskRow] /\ today \in Nat
  BY DEF IInv, Shape
<1>2. CASE Edit(t) \/ Midnight
  <2>1. /\ worker' = worker /\ result' = result /\ task' = task /\ today' \in Nat
        /\ scenario' = scenario
    BY <1>1, <1>2 DEF Edit, Midnight, rows
  <2>2. QED
    BY <1>1, <2>1, TaskKeeps
<1>3. CASE CancelTask(t) \/ Recover(t) \/ LeaseRunsOut(t)
  <2>1. worker' = worker /\ result' = result /\ today' \in Nat /\ scenario' = scenario
    BY <1>1, <1>3 DEF CancelTask, Recover, LeaseRunsOut
  <2>2. task' \in [Tasks -> TaskRow]
    <3>1. CASE CancelTask(t)
      BY <1>1, <3>1, ZenonT(30) DEF CancelTask, TaskRow, Final
    <3>2. CASE Recover(t)
      BY <1>1, <3>2 DEF Recover, TaskRow, Final
    <3>3. CASE LeaseRunsOut(t)
      BY <1>1, <3>3 DEF LeaseRunsOut, TaskRow
    <3>4. QED
      BY <1>3, <3>1, <3>2, <3>3
  <2>3. \A u \in Tasks : /\ task'[u].lease = task[u].lease
                         /\ task'[u].status = "absent" <=> task[u].status = "absent"
                         /\ task'[u].status = "succeeded" <=> task[u].status = "succeeded"
    BY <1>1, <1>3 DEF CancelTask, Recover, LeaseRunsOut, TaskRow, Final
  <2>4. QED
    BY <2>1, <2>2, <2>3, TaskKeeps
<1>4. QED
  BY <1>2, <1>3

\* create_plan and queue_reply_draft_retry: nobody works on a new task.
LEMMA CreateKeeps ==
  ASSUME IInv, NEW t \in Tasks, CreatePlan(t) \/ RetryReply(t)
  PROVE  IInv'
<1>1. task \in [Tasks -> TaskRow] /\ result \in [Tasks -> Results] /\ task[t].status = "absent"
  BY DEF IInv, Shape, CreatePlan, RetryReply
<1>2. /\ task' = [task EXCEPT ![t].status = "queued"]
      /\ result' = [result EXCEPT ![t] = "queued"] /\ worker' = worker /\ today' = today
      /\ scenario' = scenario
  BY DEF CreatePlan, RetryReply
<1>3. task' \in [Tasks -> TaskRow] /\ result' \in [Tasks -> Results]
  BY <1>1, <1>2 DEF TaskRow, Results
<1>4. /\ task'[t].status = "queued" /\ result'[t] = "queued"
      /\ \A u \in Tasks : task'[u].lease = task[u].lease
      /\ \A u \in Tasks \ {t} : task'[u] = task[u] /\ result'[u] = result[u]
  BY <1>1, <1>2 DEF TaskRow
<1>5. Shape'
  BY <1>2, <1>3 DEF IInv, Shape
<1>6. result[t] = "none" /\ "none" \notin Ready
  BY <1>1 DEF IInv, AtWork, Ready
<1>7. \A w \in Workers : worker[w].step # "idle" => worker[w].task # t
  BY <1>1 DEF IInv, AtWork
<1>8. \A w \in Workers : worker[w].step = "done" => worker[w].task \in Tasks \ {t}
  BY <1>7 DEF IInv, AtWork
<1>9. AtWork'
  BY <1>2, <1>4, <1>7, <1>8 DEF IInv, AtWork
<1>10. ResultFollowsTask'
  BY <1>4 DEF IInv, ResultFollowsTask
<1>11. LeasesDiffer'
  <2>1. \A w \in Workers : worker[w].step # "idle" => worker[w].task \in Tasks \ {t}
    BY <1>7 DEF IInv, AtWork
  <2>2. QED
    BY <1>2, <1>4, <2>1 DEF IInv, LeasesDiffer
<1>12. \A w \in Workers : worker[w].step \in Asking => worker[w].task \in Tasks \ {t}
  BY <1>7 DEF IInv, AtWork, Asking
<1>13. StillWaiting'
  BY <1>2, <1>4, <1>12 DEF IInv, StillWaiting, Checked, Kind
<1>14. QED
  BY <1>5, <1>9, <1>10, <1>11, <1>13 DEF IInv

\* adopt_plan and lock_draft_for_prepare.
LEMMA UseKeeps ==
  ASSUME IInv, NEW t \in Tasks, Use(t)
  PROVE  IInv'
<1>1. /\ task[t].status = "succeeded" /\ result \in [Tasks -> Results]
      /\ result' = [result EXCEPT ![t] = "used"]
      /\ task' = task /\ worker' = worker /\ today' = today /\ scenario' = scenario
  BY DEF IInv, Shape, Use, MayUse
<1>2. /\ result' \in [Tasks -> Results] /\ result'[t] = "used" /\ "used" \in Ready
      /\ \A u \in Tasks \ {t} : result'[u] = result[u]
  BY <1>1 DEF Results, Ready
<1>3. Shape'
  BY <1>1, <1>2 DEF IInv, Shape
<1>4. \A w \in Workers : worker[w].step = "done" => worker[w].task \in Tasks
  BY DEF IInv, AtWork
<1>5. AtWork'
  BY <1>1, <1>2, <1>4 DEF IInv, AtWork
<1>6. ResultFollowsTask'
  BY <1>1, <1>2 DEF IInv, ResultFollowsTask
<1>7. LeasesDiffer'
  BY <1>1 DEF IInv, LeasesDiffer
<1>8. ASSUME NEW w \in Workers, worker[w].step \in Asking,
             worker[w].lease = task[worker[w].task].lease
      PROVE  worker[w].task \in Tasks \ {t}
  BY <1>1, <1>8 DEF IInv, AtWork, LeasesDiffer, Asking
<1>9. StillWaiting'
  BY <1>1, <1>2, <1>8 DEF IInv, StillWaiting, Checked, Kind
<1>10. QED
  BY <1>3, <1>5, <1>6, <1>7, <1>9 DEF IInv

LEMMA InitKeeps == Init => IInv
<1> SUFFICES ASSUME Init
             PROVE  IInv
  OBVIOUS
<1>1. \A t \in Tasks : /\ task[t] \in TaskRow
                       /\ task[t].status \in {"absent", "queued"}
  BY DEF Init, TaskRow
<1>2. task \in [Tasks -> TaskRow]
  BY <1>1 DEF Init
<1>3. /\ result \in [Tasks -> Results]
      /\ \A t \in Tasks : /\ result[t] \in {"none", "queued"}
                          /\ task[t].status = "absent" => result[t] = "none"
  BY DEF Init, Results
<1>4. Idle \in Row({<<>>}) /\ Idle.step = "idle"
  BY DEF Idle, Row, Steps
<1>5. worker \in [Workers -> Row({<<>>})] /\ \A w \in Workers : worker[w].step = "idle"
  BY <1>4 DEF Init
<1>6. Shape
  BY <1>2, <1>3, <1>5 DEF Init, Shape
<1>7. AtWork
  <2>1. \A w \in Workers : worker[w].step = "idle"
    BY <1>5
  <2>2. \A t \in Tasks : task[t].status = "absent" => result[t] = "none"
    BY <1>3
  <2>3. QED
    BY <2>1, <2>2 DEF AtWork
<1>8. ResultFollowsTask
  <2>1. \A t \in Tasks : task[t].status \in {"absent", "queued"}
    BY <1>1
  <2>2. \A t \in Tasks : result[t] \in {"none", "queued"}
    BY <1>3
  <2>3. QED
    BY <2>1, <2>2 DEF ResultFollowsTask
<1>9. LeasesDiffer /\ StillWaiting
  BY <1>5 DEF LeasesDiffer, StillWaiting, Asking
<1>10. QED
  BY <1>6, <1>7, <1>8, <1>9 DEF IInv

LEMMA StutterKeeps ==
  ASSUME IInv, UNCHANGED vars
  PROVE  IInv'
<1>1. /\ task' = task /\ result' = result /\ worker' = worker /\ today' = today
      /\ scenario' = scenario
  BY DEF vars, rows
<1>2. task \in [Tasks -> TaskRow] /\ today \in Nat
  BY DEF IInv, Shape
<1>3. QED
  BY <1>1, <1>2, TaskKeeps

LEMMA StepKeeps ==
  ASSUME IInv, [Next]_vars
  PROVE  IInv'
<1>1. CASE UNCHANGED vars
  BY <1>1, StutterKeeps
<1>2. ASSUME NEW w \in Workers, NEW t \in Tasks, Claim(w, t)
      PROVE  IInv'
  BY <1>2, ClaimKeeps
<1>3. ASSUME NEW w \in Workers, Work(w) \/ Told(w)
      PROVE  IInv'
  BY <1>3, TellOrWork, MovesKeeps, OutcomeKeeps
<1>4. ASSUME NEW w \in Workers, Crash(w)
      PROVE  IInv'
  BY <1>4, CrashKeeps
<1>5. ASSUME NEW t \in Tasks, People(t) \/ Recover(t) \/ LeaseRunsOut(t)
      PROVE  IInv'
  BY <1>5, CreateKeeps, UseKeeps, SurroundingsKeep DEF People
<1>6. CASE Midnight
  <2>1. /\ worker' = worker /\ result' = result /\ task' = task /\ today' = today + 1
        /\ scenario' = scenario
    BY <1>6 DEF Midnight, rows
  <2>2. task \in [Tasks -> TaskRow] /\ today' \in Nat
    BY <2>1 DEF IInv, Shape
  <2>3. QED
    BY <2>1, <2>2, TaskKeeps
<1>7. QED
  BY <1>1, <1>2, <1>3, <1>4, <1>5, <1>6 DEF Next

\* The invariant behind the two theorems below: who is at work on what, under
\* which lease, and what has come of it (planning_store.py,
\* creator_draft_store.py, job_worker.py).
THEOREM TasksInvariant == Spec => []IInv
<1>1. Init => IInv
  BY InitKeeps
<1>2. IInv /\ [Next]_vars => IInv'
  BY StepKeeps
<1>3. QED
  BY <1>1, <1>2, PTL DEF Spec

\* Whatever workers die, lose their leases or come late: a task that succeeded
\* has its result, and what was adopted or prepared for sending came out of a
\* task that succeeded (complete_task, adopt_plan, lock_draft_for_prepare).
THEOREM ResultsFollow == Spec => []ResultFollowsTask
<1>1. IInv => ResultFollowsTask
  BY DEF IInv
<1>2. QED
  BY <1>1, TasksInvariant, PTL

-----------------------------------------------------------------------------
(* What is asked of a model.                                               *)

CallsShape == calls \in [Tasks -> [Leases -> Nat]]

\* A request is sent by a worker that is about to send, for its task under its lease.
Sends(w) ==
  /\ worker[w].step = "send"
  /\ calls' = [calls EXCEPT ![worker[w].task][worker[w].lease] = @ + 1]

LEMMA WorkCalls ==
  ASSUME NEW w \in Workers, Work(w)
  PROVE  calls' = calls \/ Sends(w)
<1>1. CASE Begin(w)
  BY <1>1 DEF Begin, StartPlan, StartDraft, StartReply, StartApplication, StartChecked,
              Starts, Refused, ledger
<1>2. CASE Hosted(w)
  BY <1>2 DEF Hosted, Route, Ask, Reserve, HostedAccepted, ModelRefused, RouteFails,
              Answered, Refused, ledger
<1>3. CASE OnLocal(w)
  BY <1>3 DEF OnLocal, Local, LocalAccepted, LocalRefused, EndpointFails, Answered, Refused,
              ledger
<1>4. CASE Send(w)
  BY <1>4 DEF Send, Sends
<1>5. CASE Assess(w) \/ Fails(w)
  BY <1>5 DEF Assess, Fails, ledger
<1>6. CASE Save(w)
  BY <1>6 DEF Save, SaveProposal, SaveDraft, SaveReplyDraft, SaveApplicationDraft,
              Saved, NotSaved, ledger
<1>7. CASE Done(w) \/ Raised(w) \/ Stopped(w)
  BY <1>7 DEF Done, Raised, Stopped, Ends, Dropped, ledger
<1>8. QED
  BY <1>1, <1>2, <1>3, <1>4, <1>5, <1>6, <1>7 DEF Work

LEMMA NextCalls ==
  ASSUME [Next]_vars
  PROVE  calls' = calls \/ \E w \in Workers : Sends(w)
<1>1. CASE UNCHANGED vars
  BY <1>1 DEF vars, ledger
<1>2. ASSUME NEW w \in Workers, Told(w) \/ Crash(w) \/ \E t \in Tasks : Claim(w, t)
      PROVE  calls' = calls
  BY <1>2 DEF Told, Crash, Claim, ledger
<1>3. ASSUME NEW t \in Tasks, People(t) \/ Recover(t) \/ LeaseRunsOut(t)
      PROVE  calls' = calls
  BY <1>3 DEF People, CreatePlan, RetryReply, Use, CancelTask, Edit, Recover, LeaseRunsOut,
              ledger
<1>4. CASE Midnight
  BY <1>4 DEF Midnight, ledger
<1>5. QED
  BY <1>1, <1>2, <1>3, <1>4, WorkCalls DEF Next

LEMMA OneCall ==
  ASSUME CallsShape, NEW w \in Workers, Sends(w), NEW t \in Tasks, NEW n \in Leases,
         calls'[t][n] > calls[t][n]
  PROVE  t = worker[w].task /\ n = worker[w].lease
<1>1. calls[t][n] \in Nat /\ ~(calls[t][n] > calls[t][n])
  BY DEF CallsShape
<1>2. CASE t # worker[w].task
  <2>1. calls'[t] = calls[t]
    BY <1>2 DEF Sends, CallsShape
  <2>2. QED
    BY <1>1, <2>1
<1>3. CASE t = worker[w].task /\ n # worker[w].lease
  <2>1. calls'[t][n] = calls[t][n]
    BY <1>3 DEF Sends, CallsShape
  <2>2. QED
    BY <1>1, <2>1
<1>4. QED
  BY <1>2, <1>3

\* One call more leaves the counters counters.
LEMMA OneMore ==
  ASSUME NEW f \in [Leases -> Nat], NEW l
  PROVE  [f EXCEPT ![l] = f[l] + 1] \in [Leases -> Nat]
<1>1. ASSUME NEW n \in Leases
      PROVE  [f EXCEPT ![l] = f[l] + 1][n] \in Nat
  <2>1. CASE n = l
    <3>1. f[l] \in Nat
      BY <2>1
    <3>2. QED
      BY <2>1, <3>1
  <2>2. CASE n # l
    BY <2>2
  <2>3. QED
    BY <2>1, <2>2
<1>2. QED
  BY <1>1

LEMMA CallsKeep ==
  ASSUME CallsShape, [Next]_vars
  PROVE  CallsShape'
<1>1. CASE calls' = calls
  BY <1>1 DEF CallsShape
<1>2. ASSUME NEW w \in Workers, Sends(w)
      PROVE  CallsShape'
  <2> DEFINE f == calls[worker[w].task]
             g == [f EXCEPT ![worker[w].lease] = @ + 1]
  <2>1. calls' = [calls EXCEPT ![worker[w].task] = g]
    BY <1>2 DEF Sends
  <2>2. worker[w].task \in Tasks => f \in [Leases -> Nat]
    BY DEF CallsShape
  <2>3. worker[w].task \in Tasks => g \in [Leases -> Nat]
    BY <2>2, OneMore
  <2> HIDE DEF g
  <2>4. QED
    BY <2>1, <2>3 DEF CallsShape
<1>3. QED
  BY <1>1, <1>2, NextCalls

\* For all workers, and whatever leases are lost: a request for a task, under the
\* lease that is in force, leaves only while its result is awaited
\* (get_plan_for_execution, _execution_row: "A crash after proposal persistence
\* cannot spend a second model call").
THEOREM NoSecondCall == Spec => NoCallAfterResult
<1> DEFINE Awaited == \A t \in Tasks : \A n \in Leases :
      calls'[t][n] > calls[t][n] /\ n = task[t].lease /\ Checked(t) => result[t] = "queued"
<1>1. Init => CallsShape
  BY DEF Init, CallsShape
<1>2. CallsShape /\ [Next]_vars => CallsShape'
  BY CallsKeep
<1>3. IInv /\ CallsShape /\ [Next]_vars => [Awaited]_vars
  <2> SUFFICES ASSUME IInv, CallsShape, [Next]_vars, NEW t \in Tasks, NEW n \in Leases,
                      calls'[t][n] > calls[t][n], n = task[t].lease, Checked(t)
               PROVE  result[t] = "queued"
    OBVIOUS
  <2>1. calls[t][n] \in Nat
    BY DEF CallsShape
  <2>2. PICK w \in Workers : Sends(w)
    BY <2>1, NextCalls
  <2>3. t = worker[w].task /\ n = worker[w].lease
    BY <2>2, OneCall
  <2>4. worker[w].step \in Asking
    BY <2>2 DEF Sends, Asking
  <2>5. QED
    BY <2>3, <2>4 DEF IInv, StillWaiting
<1>4. QED
  BY <1>1, <1>2, <1>3, TasksInvariant, PTL DEF Spec, NoCallAfterResult
-----------------------------------------------------------------------------
(* What is spent.                                                          *)

\* A list of models; how many there are is all that is needed of it.
IsRoute(r) == \E S : r \in Seq(S)

HostedKinds == {"plan", "creator", "application"}
HostedMost(kind) == IF kind \in HostedKinds THEN Len(Ranked) ELSE 0
LocalMost(kind) ==
  CASE kind \in {"plan", "reply", "recovery"}                 -> 1
    [] kind \in {"creator", "local_creator", "application"}   -> 2
    [] OTHER                                                  -> 0
Most(kind) == HostedMost(kind) + LocalMost(kind)

\* A run that asks the hosted models, and one that asks the local one.
OnHosted(x) ==
  x.step \in {"ask", "reserve"} \/ (x.step \in {"send", "answer"} /\ ~x.onLocal)
AtLocal(x) == x.step = "local" \/ (x.step \in {"send", "answer"} /\ x.onLocal)

\* What a run x of a task of this kind may still ask for: the models left on its
\* route and then the local ones, or what a repair is given.
Left(x, kind) ==
  IF x.step \in {"start", "route"} THEN Most(kind)
  ELSE IF OnHosted(x)
    THEN (IF x.repair THEN 1 ELSE Len(x.route) + LocalMost(kind))
           - (IF x.step = "answer" THEN 1 ELSE 0)
  ELSE IF AtLocal(x)
    THEN LocalMost(kind) - x.tries + (IF x.step = "send" THEN 1 ELSE 0)
  ELSE IF x.step = "assess" THEN 1 ELSE 0

\* Where a run can be, by what it has tried.
Fits(x, kind) ==
  /\ IsRoute(x.route) /\ x.tries \in Nat /\ (x.tries = 0 <=> ~x.onLocal)
  /\ x.step = "start" => ~x.onLocal /\ ~x.repair
  /\ x.step = "route" => kind \in HostedKinds /\ ~x.onLocal /\ ~x.repair
  /\ x.step \in {"ask", "reserve"} => ~x.onLocal
  /\ OnHosted(x) => kind \in HostedKinds /\ (x.repair \/ Len(x.route) >= 1)
  /\ x.step = "local" => x.tries < LocalMost(kind)
  /\ AtLocal(x) => x.tries <= LocalMost(kind)
  /\ x.repair => kind = "application"
  /\ kind = "application" /\ ~x.repair =>
       /\ x.step = "local" => x.tries = 0
       /\ AtLocal(x) => x.tries <= 1
  /\ x.step = "assess" => kind = "application" /\ ~x.repair /\ x.tries <= 1

\* A reply: whoever may send wrote the row of the call first, alone, and none of
\* the runs sent anything before it.
AskedOnce(t) ==
  /\ local[t] = 0 => \A n \in Leases : calls[t][n] = 0
  /\ \A w \in Workers : worker[w].step = "send" /\ worker[w].task = t =>
       /\ local[t] # 0
       /\ \A n \in Leases : calls[t][n] = 0
       /\ \A v \in Workers : worker[v].step = "send" /\ worker[v].task = t => v = w
  /\ \A m, n \in Leases : calls[t][m] > 0 /\ calls[t][n] > 0 => m = n

AllFit == \A w \in Workers : worker[w].step # "idle" => Fits(worker[w], Kind(worker[w].task))

\* What a run has asked for and may still ask for is within what its kind allows.
KeepsToLeft ==
  \A w \in Workers : worker[w].step # "idle" => \A n \in Leases : n = worker[w].lease =>
    calls[worker[w].task][n] + Left(worker[w], Kind(worker[w].task))
      <= Most(Kind(worker[w].task))

WithinMost == \A t \in Tasks : \A n \in Leases : calls[t][n] <= Most(Kind(t))

\* A lease nobody had yet has no calls.
NewLeases == \A t \in Tasks : \A n \in Leases : n > task[t].lease => calls[t][n] = 0

RepliesOnce == \A t \in Tasks : Kind(t) \in {"reply", "recovery"} => AskedOnce(t)

Spent ==
  AllFit /\ KeepsToLeft /\ WithinMost /\ NewLeases /\ RepliesOnce /\ local \in [Tasks -> Nat]

LEMMA RouteLength ==
  ASSUME NEW r, IsRoute(r)
  PROVE  /\ Len(r) \in Nat /\ DOMAIN r = 1..Len(r)
         /\ r = <<>> <=> Len(r) = 0
<1>1. PICK S : r \in Seq(S)
  BY DEF IsRoute
<1>2. QED
  BY <1>1, EmptySeq, LenProperties

\* A list of n names.
LEMMA ListIsRoute ==
  ASSUME NEW n \in Nat, NEW S, NEW r \in [1..n -> S]
  PROVE  IsRoute(r) /\ Len(r) = n
<1>1. r \in Seq(S)
  BY SeqDef
<1>2. Len(r) \in Nat /\ DOMAIN r = 1..Len(r)
  BY <1>1, LenProperties
<1>3. DOMAIN r = 1..n
  OBVIOUS
<1>4. Len(r) = n
  BY <1>2, <1>3
<1>5. QED
  BY <1>1, <1>4 DEF IsRoute

LEMMA RankedIsRoute == IsRoute(Ranked)
<1> DEFINE eligible == {m \in Catalog : Free(m) /\ m.routable}
           place(m) == Cardinality({n \in eligible : Precedes(n, m)})
           c == Cardinality(eligible)
           k == Min({MaxModels, c})
           e(i) == (CHOOSE m \in eligible : place(m) = i - 1).name
           S == {e(i) : i \in 1..k}
<1>1. c \in Nat
  BY InferenceAssumption, FS_Subset, FS_CardinalityType
<1>2. k \in Nat
  <2>1. \E x \in {MaxModels, c} : \A y \in {MaxModels, c} : x <= y
    BY <1>1, InferenceAssumption
  <2>2. k \in {MaxModels, c}
    BY <2>1 DEF Min
  <2>3. QED
    BY <1>1, <2>2, InferenceAssumption
<1>3. Ranked = [i \in 1..k |-> e(i)]
  BY DEF Ranked, RankFree
<1> HIDE DEF k, e
<1>4. Ranked \in [1..k -> S]
  BY <1>3
<1> HIDE DEF S
<1>5. QED
  BY <1>2, <1>4, ListIsRoute

LEMMA MostModels == Len(Ranked) \in Nat
BY RankedIsRoute, RouteLength

\* Whatever cools down, all models are asked.
LEMMA ArrangedIsRoute ==
  ASSUME NEW still
  PROVE  IsRoute(Arranged(still)) /\ Len(Arranged(still)) = Len(Ranked)
<1> DEFINE place(i) == Cardinality({j \in DOMAIN Ranked :
             \/ Ranked[j] \notin still /\ Ranked[i] \in still
             \/ (Ranked[j] \in still <=> Ranked[i] \in still) /\ j <= i})
           e(i) == Ranked[CHOOSE j \in DOMAIN Ranked : place(j) = i]
           S == {e(i) : i \in 1..Len(Ranked)}
<1>1. Arranged(still) = [i \in DOMAIN Ranked |-> e(i)]
  BY DEF Arranged
<1>2. DOMAIN Ranked = 1..Len(Ranked)
  BY RankedIsRoute, RouteLength
<1> HIDE DEF e
<1>3. Arranged(still) \in [1..Len(Ranked) -> S]
  BY <1>1, <1>2
<1> HIDE DEF S
<1>4. QED
  BY <1>3, MostModels, ListIsRoute

\* What is left of a route behind its i-th model.
LEMMA RestIsRoute ==
  ASSUME NEW r, IsRoute(r), NEW i \in DOMAIN r
  PROVE  /\ IsRoute(After(r, i)) /\ Len(After(r, i)) = Len(r) - i
         /\ i \in 1..Len(r)
         /\ After(r, i) = <<>> <=> i = Len(r)
<1>1. PICK S : r \in Seq(S)
  BY DEF IsRoute
<1>2. i \in 1..Len(r) /\ Len(r) \in Nat
  BY RouteLength
<1>3. /\ SubSeq(r, i + 1, Len(r)) \in Seq(S)
      /\ Len(SubSeq(r, i + 1, Len(r))) =
           IF i + 1 <= Len(r) THEN Len(r) - (i + 1) + 1 ELSE 0
  <2>1. \A j \in (i + 1)..Len(r) : r[j] \in S
    BY <1>1, <1>2, ElementOfSeq
  <2>2. i + 1 \in Int /\ Len(r) \in Int
    BY <1>2
  <2>3. QED
    BY <2>1, <2>2, SubSeqProperties
<1>4. IsRoute(After(r, i)) /\ Len(After(r, i)) = Len(r) - i
  BY <1>2, <1>3 DEF After, IsRoute
<1>5. QED
  BY <1>2, <1>4, RouteLength

\* One model alone.
LEMMA OneIsRoute ==
  ASSUME NEW m
  PROVE  IsRoute(<<m>>) /\ Len(<<m>>) = 1
<1>1. <<m>> \in Seq({m})
  OBVIOUS
<1>2. QED
  BY <1>1 DEF IsRoute

-----------------------------------------------------------------------------
(* What one step of a run spends.                                          *)

\* A run that goes somewhere else and is otherwise as it was.
Kept(x, y) ==
  /\ y.task = x.task /\ y.lease = x.lease
  /\ y.route = x.route /\ y.tries = x.tries /\ y.onLocal = x.onLocal /\ y.repair = x.repair

\* The steps that ask for nothing any more.
Halts == Steps \ {"start", "route", "ask", "reserve", "send", "answer", "local", "assess"}

\* From x to y nothing is asked.
Spares(x, y, kind) == Fits(y, kind) /\ Left(y, kind) <= Left(x, kind)

LEMMA LeftIsNat ==
  ASSUME NEW x, NEW kind, Fits(x, kind)
  PROVE  Left(x, kind) \in Nat
<1>1. Len(x.route) \in Nat /\ x.tries \in Nat /\ Len(Ranked) \in Nat
  BY RouteLength, MostModels DEF Fits
<1>2. LocalMost(kind) \in 0..2 /\ Most(kind) \in Nat
  <2>1. LocalMost(kind) \in 0..2
    BY DEF LocalMost
  <2>2. QED
    BY <1>1, <2>1 DEF Most, HostedMost
<1>3. CASE x.step \in {"start", "route"}
  BY <1>2, <1>3 DEF Left
<1>4. CASE OnHosted(x)
  BY <1>1, <1>2, <1>4 DEF Left, Fits, OnHosted
<1>5. CASE AtLocal(x)
  <2>1. x.step \notin {"start", "route"} /\ ~OnHosted(x) /\ x.tries <= LocalMost(kind)
    BY <1>5 DEF Fits, OnHosted, AtLocal
  <2>2. QED
    BY <1>1, <1>2, <1>5, <2>1 DEF Left
<1>6. CASE x.step \notin {"start", "route"} /\ ~OnHosted(x) /\ ~AtLocal(x)
  BY <1>6 DEF Left
<1>7. QED
  BY <1>3, <1>4, <1>5, <1>6

LEMMA HaltSpares ==
  ASSUME NEW x, NEW y, NEW kind, Fits(x, kind), Kept(x, y), y.step \in Halts
  PROVE  Spares(x, y, kind)
<1>1. Fits(y, kind)
  BY DEF Fits, Kept, Halts, OnHosted, AtLocal
<1>2. Left(y, kind) = 0
  BY DEF Left, Halts, OnHosted, AtLocal
<1>3. QED
  BY <1>1, <1>2, LeftIsNat DEF Spares

\* The local models come after the hosted ones.
LEMMA FallbackSpares ==
  ASSUME NEW x, NEW y, NEW kind, Fits(x, kind), y.step \in {"local"} \cup Halts,
         y.task = x.task, y.tries = x.tries, y.onLocal = x.onLocal, y.repair = x.repair,
         IsRoute(y.route), x.step = "route" \/ OnHosted(x),
         y.step = "local" => ~x.repair
  PROVE  Spares(x, y, kind)
<1>1. Len(x.route) \in Nat /\ Len(Ranked) \in Nat
  BY RouteLength, MostModels DEF Fits
<1>2. kind \in HostedKinds /\ LocalMost(kind) \in {1, 2} /\ x.tries = 0 /\ ~x.onLocal
  BY DEF Fits, HostedKinds, LocalMost, OnHosted
<1>3. CASE y.step = "local"
  <2>1. Fits(y, kind)
    BY <1>2, <1>3 DEF Fits, OnHosted, AtLocal
  <2>2. Left(y, kind) = LocalMost(kind)
    BY <1>2, <1>3 DEF Left, OnHosted, AtLocal
  <2>3. CASE x.step = "route"
    BY <1>1, <1>2, <2>1, <2>2, <2>3 DEF Left, Spares, Most, HostedMost
  <2>4. CASE OnHosted(x)
    <3>1. Left(x, kind) = Len(x.route) + LocalMost(kind) - (IF x.step = "answer" THEN 1 ELSE 0)
      BY <1>1, <1>2, <1>3, <2>4 DEF Left, OnHosted
    <3>2. Len(x.route) >= 1
      BY <1>3, <2>4 DEF Fits
    <3>3. QED
      BY <1>1, <1>2, <2>1, <2>2, <3>1, <3>2 DEF Spares
  <2>5. QED
    BY <2>3, <2>4
<1>4. CASE y.step \in Halts
  <2>1. Fits(y, kind)
    BY <1>4 DEF Fits, Halts, OnHosted, AtLocal
  <2>2. Left(y, kind) = 0
    BY <1>4 DEF Left, Halts, OnHosted, AtLocal
  <2>3. QED
    BY <2>1, <2>2, LeftIsNat DEF Spares
<1>5. QED
  BY <1>3, <1>4

LEMMA StartSpares ==
  ASSUME NEW x, NEW y, NEW kind, Fits(x, kind), Kept(x, y), x.step = "start",
         \/ y.step \in Halts
         \/ y.step = "route" /\ kind \in HostedKinds
         \/ y.step = "local" /\ LocalMost(kind) > 0
  PROVE  Spares(x, y, kind)
<1>1. Len(Ranked) \in Nat /\ LocalMost(kind) \in 0..2
  BY MostModels DEF LocalMost
<1>2. ~x.onLocal /\ ~x.repair /\ x.tries = 0
  BY DEF Fits
<1>3. Left(x, kind) = Most(kind) /\ Most(kind) >= LocalMost(kind)
  BY <1>1 DEF Left, Most, HostedMost
<1>4. CASE y.step = "route"
  <2>1. kind \in HostedKinds /\ ~y.onLocal /\ ~y.repair /\ y.tries = 0
    BY <1>2, <1>4 DEF Halts, Kept
  <2>2. Fits(y, kind)
    BY <1>4, <2>1 DEF Fits, Kept, OnHosted, AtLocal
  <2>3. Left(y, kind) = Most(kind)
    BY <1>4 DEF Left
  <2>4. QED
    BY <1>1, <1>3, <2>2, <2>3, LeftIsNat DEF Spares
<1>5. CASE y.step = "local"
  <2>1. LocalMost(kind) > 0 /\ ~y.onLocal /\ ~y.repair /\ y.tries = 0
    BY <1>2, <1>5 DEF Halts, Kept
  <2>2. Fits(y, kind)
    BY <1>1, <1>5, <2>1 DEF Fits, Kept, OnHosted, AtLocal
  <2>3. Left(y, kind) = LocalMost(kind)
    BY <1>1, <1>2, <1>5 DEF Left, Kept, OnHosted, AtLocal
  <2>4. QED
    BY <1>3, <2>2, <2>3 DEF Spares
<1>6. QED
  BY <1>4, <1>5, HaltSpares

LEMMA RouteSpares ==
  ASSUME NEW x, NEW y, NEW kind, Fits(x, kind), x.step = "route", y.step = "ask",
         y.tries = x.tries, y.onLocal = x.onLocal, y.repair = x.repair,
         IsRoute(y.route), Len(y.route) = Len(Ranked), Len(Ranked) >= 1
  PROVE  Spares(x, y, kind)
<1>1. kind \in HostedKinds /\ x.tries = 0 /\ ~x.onLocal /\ ~x.repair
  BY DEF Fits
<1>2. Fits(y, kind)
  BY <1>1 DEF Fits, OnHosted, AtLocal
<1>3. Left(y, kind) = Len(Ranked) + LocalMost(kind)
  BY <1>1, MostModels DEF Left, OnHosted, LocalMost
<1>4. Left(x, kind) = Len(Ranked) + LocalMost(kind)
  BY <1>1 DEF Left, Most, HostedMost
<1>5. QED
  BY <1>2, <1>3, <1>4, MostModels DEF Spares, LocalMost

\* ask, reserve and send have the same to come.
LEMMA HostedSpares ==
  ASSUME NEW x, NEW y, NEW kind, Fits(x, kind), Kept(x, y),
         \/ x.step = "ask" /\ y.step = "reserve"
         \/ x.step = "reserve" /\ y.step = "send"
  PROVE  Spares(x, y, kind)
<1>1. ~x.onLocal /\ ~y.onLocal /\ OnHosted(x) /\ OnHosted(y)
  BY DEF Fits, Kept, OnHosted
<1>2. Fits(y, kind)
  BY <1>1 DEF Fits, Kept, AtLocal
<1>3. Left(y, kind) = Left(x, kind)
  BY <1>1 DEF Left, Kept
<1>4. QED
  BY <1>2, <1>3, LeftIsNat DEF Spares

\* The next model of the list.
LEMMA NextModelSpares ==
  ASSUME NEW x, NEW y, NEW kind, Fits(x, kind), x.step = "answer", ~x.onLocal, ~x.repair,
         y.step = "ask", y.tries = x.tries, y.onLocal = x.onLocal, y.repair = x.repair,
         IsRoute(y.route), Len(y.route) < Len(x.route), Len(y.route) >= 1
  PROVE  Spares(x, y, kind)
<1>1. Len(x.route) \in Nat /\ Len(y.route) \in Nat /\ LocalMost(kind) \in 0..2
  BY RouteLength DEF Fits, LocalMost
<1>2. OnHosted(x) /\ OnHosted(y)
  BY DEF OnHosted
<1>3. Fits(y, kind)
  BY <1>2 DEF Fits, AtLocal
<1>4. /\ Left(x, kind) = Len(x.route) + LocalMost(kind) - 1
      /\ Left(y, kind) = Len(y.route) + LocalMost(kind)
  BY <1>1, <1>2 DEF Left, OnHosted
<1>5. QED
  BY <1>1, <1>3, <1>4 DEF Spares

\* An application is assessed once, and may be repaired once.
LEMMA AssessSpares ==
  ASSUME NEW x, NEW y, NEW kind, Fits(x, kind), x.step = "answer", y.step = "assess",
         kind = "application", ~x.repair,
         y.tries = x.tries, y.onLocal = x.onLocal, y.repair = x.repair, IsRoute(y.route)
  PROVE  Spares(x, y, kind)
<1>1. Len(x.route) \in Nat /\ LocalMost(kind) = 2 /\ x.tries \in Nat
  BY RouteLength DEF Fits, LocalMost
<1>2. Left(y, kind) = 1
  BY DEF Left, OnHosted, AtLocal
<1>3. CASE x.onLocal
  <2>1. AtLocal(x) /\ ~OnHosted(x)
    BY <1>3 DEF AtLocal, OnHosted
  <2>2. x.tries <= 1
    BY <2>1 DEF Fits
  <2>3. Fits(y, kind)
    BY <1>3, <2>2 DEF Fits, OnHosted, AtLocal
  <2>4. Left(x, kind) = 2 - x.tries
    BY <1>1, <2>1 DEF Left
  <2>5. QED
    BY <1>1, <1>2, <2>2, <2>3, <2>4 DEF Spares
<1>4. CASE ~x.onLocal
  <2>1. OnHosted(x) /\ x.tries = 0 /\ Len(x.route) >= 1
    BY <1>4 DEF OnHosted, Fits
  <2>2. Fits(y, kind)
    BY <1>4, <2>1 DEF Fits, OnHosted, AtLocal
  <2>3. Left(x, kind) = Len(x.route) + 2 - 1
    BY <1>1, <2>1 DEF Left
  <2>4. QED
    BY <1>1, <1>2, <2>1, <2>2, <2>3 DEF Spares
<1>5. QED
  BY <1>3, <1>4

LEMMA RepairSpares ==
  ASSUME NEW x, NEW y, NEW kind, Fits(x, kind), x.step = "assess", y.repair,
         y.step = IF x.onLocal THEN "local" ELSE "ask",
         y.tries = x.tries, y.onLocal = x.onLocal, y.route = x.route
  PROVE  Spares(x, y, kind)
<1>1. kind = "application" /\ LocalMost(kind) = 2 /\ x.tries \in 0..1 /\ kind \in HostedKinds
  BY DEF Fits, LocalMost, HostedKinds
<1>2. Left(x, kind) = 1
  BY DEF Left, OnHosted, AtLocal
<1>3. CASE x.onLocal
  <2>1. x.tries = 1 /\ y.step = "local"
    BY <1>1, <1>3 DEF Fits
  <2>2. Fits(y, kind)
    BY <1>1, <1>3, <2>1 DEF Fits, OnHosted, AtLocal
  <2>3. Left(y, kind) = 1
    BY <1>1, <2>1 DEF Left, OnHosted, AtLocal
  <2>4. QED
    BY <1>2, <2>2, <2>3 DEF Spares
<1>4. CASE ~x.onLocal
  <2>1. y.step = "ask"
    BY <1>4
  <2>2. Fits(y, kind)
    BY <1>1, <1>4, <2>1 DEF Fits, OnHosted, AtLocal
  <2>3. Left(y, kind) = 1
    BY <2>1 DEF Left, OnHosted
  <2>4. QED
    BY <1>2, <2>2, <2>3 DEF Spares
<1>5. QED
  BY <1>3, <1>4

LEMMA LocalSpares ==
  ASSUME NEW x, NEW y, NEW kind, Fits(x, kind), x.step = "local", y.step = "send",
         y.onLocal = TRUE, y.tries = x.tries + 1, y.repair = x.repair, y.route = x.route
  PROVE  Spares(x, y, kind)
<1>1. x.tries \in Nat /\ LocalMost(kind) \in 0..2 /\ x.tries < LocalMost(kind)
  BY DEF Fits, LocalMost
<1>2. AtLocal(y) /\ ~OnHosted(y) /\ AtLocal(x) /\ ~OnHosted(x)
  BY DEF AtLocal, OnHosted
<1>3. Fits(y, kind)
  BY <1>1, <1>2 DEF Fits
<1>4. Left(x, kind) = LocalMost(kind) - x.tries /\ Left(y, kind) = LocalMost(kind) - y.tries + 1
  BY <1>1, <1>2 DEF Left
<1>5. QED
  BY <1>1, <1>3, <1>4 DEF Spares

\* A copy that broke the contract is asked for again.
LEMMA CopySpares ==
  ASSUME NEW x, NEW y, NEW kind, Fits(x, kind), Kept(x, y), x.step = "answer", x.onLocal,
         kind \in {"creator", "local_creator"}, x.tries = 1, y.step = "local"
  PROVE  Spares(x, y, kind)
<1>1. LocalMost(kind) = 2
  BY DEF LocalMost
<1>2. AtLocal(y) /\ ~OnHosted(y) /\ AtLocal(x) /\ ~OnHosted(x)
  BY DEF AtLocal, OnHosted, Kept
<1>3. Fits(y, kind)
  BY <1>1, <1>2 DEF Fits, Kept
<1>4. Left(x, kind) = 1 /\ Left(y, kind) = 1
  BY <1>1, <1>2 DEF Left, Kept
<1>5. QED
  BY <1>3, <1>4 DEF Spares

\* A request is sent, and there is one less to come.
LEMMA SendSpends ==
  ASSUME NEW x, NEW y, NEW kind, Fits(x, kind), Kept(x, y), x.step = "send", y.step = "answer"
  PROVE  Fits(y, kind) /\ Left(y, kind) + 1 <= Left(x, kind)
<1>1. Len(x.route) \in Nat /\ LocalMost(kind) \in 0..2 /\ x.tries \in Nat
  BY RouteLength DEF Fits, LocalMost
<1>2. CASE x.onLocal
  <2>1. AtLocal(y) /\ ~OnHosted(y) /\ AtLocal(x) /\ ~OnHosted(x)
    BY <1>2 DEF AtLocal, OnHosted, Kept
  <2>2. Fits(y, kind)
    BY <2>1, <1>2 DEF Fits, Kept
  <2>3. /\ Left(x, kind) = LocalMost(kind) - x.tries + 1
        /\ Left(y, kind) = LocalMost(kind) - x.tries
    BY <1>1, <2>1 DEF Left, Kept
  <2>4. QED
    BY <1>1, <2>2, <2>3
<1>3. CASE ~x.onLocal
  <2>1. OnHosted(x) /\ OnHosted(y) /\ ~AtLocal(x) /\ ~AtLocal(y)
    BY <1>3 DEF AtLocal, OnHosted, Kept
  <2>2. Fits(y, kind)
    BY <2>1, <1>3 DEF Fits, Kept
  <2> DEFINE n == IF x.repair THEN 1 ELSE Len(x.route) + LocalMost(kind)
  <2>3. Left(x, kind) = n - 0 /\ Left(y, kind) = n - 1
    BY <2>1 DEF Left, Kept
  <2>4. n \in Nat
    BY <1>1
  <2> HIDE DEF n
  <2>5. QED
    BY <2>2, <2>3, <2>4
<1>4. QED
  BY <1>2, <1>3

\* What a step of w that keeps its task does to the counters: nothing; the row of
\* a local call, written by one that may; or a request.
SparesCalls(w) ==
  /\ calls' = calls /\ local' = local
  /\ Spares(worker[w], worker'[w], Kind(worker[w].task))
  /\ worker'[w].step = "send" =>
       worker[w].step = "send" \/ Kind(worker[w].task) \in HostedKinds

AsksLocally(w) ==
  /\ calls' = calls /\ local' = [local EXCEPT ![worker[w].task] = @ + 1]
  /\ Spares(worker[w], worker'[w], Kind(worker[w].task))
  /\ MayAskLocally(worker[w].task) /\ worker[w].step = "local"

Requests(w) ==
  /\ Sends(w) /\ local' = local /\ worker'[w].step = "answer"
  /\ Fits(worker'[w], Kind(worker[w].task))
  /\ Left(worker'[w], Kind(worker[w].task)) + 1 <= Left(worker[w], Kind(worker[w].task))

Spends(w) == SparesCalls(w) \/ AsksLocally(w) \/ Requests(w)

LEMMA GotoKept ==
  ASSUME IInv, NEW w \in Workers, NEW s, Goto(w, s)
  PROVE  Kept(worker[w], worker'[w]) /\ worker'[w].step = s
<1>1. PICK R : worker \in [Workers -> Row(R)]
  BY DEF IInv, Shape
<1>2. worker' = [worker EXCEPT ![w].step = s]
  BY DEF Goto
<1>3. QED
  BY <1>1, <1>2 DEF Row, Kept

\* The handler goes on to something that asks for nothing.
LEMMA HaltSpends ==
  ASSUME IInv, AllFit, NEW w \in Workers, worker[w].step # "idle", NEW s \in Halts, Goto(w, s),
         calls' = calls, local' = local
  PROVE  Spends(w)
<1>1. Kept(worker[w], worker'[w]) /\ worker'[w].step = s
  BY GotoKept
<1>2. Spares(worker[w], worker'[w], Kind(worker[w].task))
  BY <1>1, HaltSpares DEF AllFit
<1>3. QED
  BY <1>1, <1>2 DEF Spends, SparesCalls, Halts

LEMMA RefusalHalts ==
  ASSUME NEW w
  PROVE  Refusal(w) \in Halts
BY DEF Refusal, Halts, Steps

LEMMA RefusedSpends ==
  ASSUME IInv, AllFit, NEW w \in Workers, worker[w].step # "idle", Refused(w)
  PROVE  Spends(w)
BY RefusalHalts, HaltSpends DEF Refused, ledger

LEMMA StartsSpends ==
  ASSUME IInv, AllFit, NEW w \in Workers, worker[w].step = "start", Starts(w),
         Kind(worker[w].task) \in Kinds \ {"none"}
  PROVE  Spends(w)
<1> DEFINE k == Kind(worker[w].task)
           s == AfterRead(worker[w].task)
<1>1. k \in Kinds \ {"none"}
  OBVIOUS
<1>2. Goto(w, s) /\ calls' = calls /\ local' = local
  BY DEF Starts, ledger
<1>3. \/ s \in Halts
      \/ s = "route" /\ k \in HostedKinds
      \/ s = "local" /\ LocalMost(k) > 0
  BY <1>1 DEF AfterRead, FirstRoute, Halts, Steps, HostedKinds, LocalMost, Kinds
<1>4. Kept(worker[w], worker'[w]) /\ worker'[w].step = s
  BY <1>2, GotoKept
<1>5. Fits(worker[w], k)
  BY DEF AllFit
<1> HIDE DEF k, s
<1>6. Spares(worker[w], worker'[w], k)
  BY <1>3, <1>4, <1>5, StartSpares
<1>7. s # "send"
  BY <1>3 DEF Halts
<1>8. QED
  BY <1>2, <1>4, <1>6, <1>7 DEF Spends, SparesCalls, k

LEMMA BeginSpends ==
  ASSUME IInv, AllFit, NEW w \in Workers, Begin(w)
  PROVE  Spends(w)
<1>1. worker[w].step = "start" /\ Kind(worker[w].task) \in Kinds \ {"none"}
  BY DEF Kinds, Begin, StartPlan, StartDraft, StartReply, StartApplication, StartChecked
<1>2. CASE Starts(w)
  BY <1>1, <1>2, StartsSpends
<1>3. CASE Refused(w)
  BY <1>1, <1>3, RefusedSpends
<1>4. CASE Goto(w, "interrupted") /\ UNCHANGED <<scenario, rows, ledger, cooling, today, changes>>
  <2>1. "interrupted" \in Halts /\ calls' = calls /\ local' = local
    BY <1>4 DEF Halts, Steps, ledger
  <2>2. QED
    BY <1>1, <1>4, <2>1, HaltSpends
<1>5. QED
  BY <1>2, <1>3, <1>4
     DEF Begin, StartPlan, StartDraft, StartReply, StartApplication, StartChecked

LEMMA FallbackIs ==
  ASSUME NEW t
  PROVE  Fallback(t) \in {"local"} \cup Halts
BY DEF Fallback, Halts, Steps

\* Where the hosted models are done with.
LEMMA FallbackSpends ==
  ASSUME IInv, AllFit, NEW w \in Workers, worker[w].step = "route" \/ OnHosted(worker[w]),
         calls' = calls, local' = local, IsRoute(worker'[w].route),
         worker'[w].step \in {"local"} \cup Halts,
         worker'[w].step = "local" => ~worker[w].repair,
         worker'[w].task = worker[w].task, worker'[w].tries = worker[w].tries,
         worker'[w].onLocal = worker[w].onLocal, worker'[w].repair = worker[w].repair
  PROVE  Spends(w)
<1>1. Fits(worker[w], Kind(worker[w].task))
  BY DEF AllFit, OnHosted
<1>2. Spares(worker[w], worker'[w], Kind(worker[w].task))
  BY <1>1, FallbackSpares
<1>3. QED
  BY <1>2 DEF Spends, SparesCalls, Halts

\* Leaving the hosted models with the route as it is.
LEMMA LeavesSpends ==
  ASSUME IInv, AllFit, NEW w \in Workers, worker[w].step = "route" \/ OnHosted(worker[w]),
         NEW s \in {"local"} \cup Halts, Goto(w, s), s = "local" => ~worker[w].repair,
         calls' = calls, local' = local
  PROVE  Spends(w)
<1>1. Kept(worker[w], worker'[w]) /\ worker'[w].step = s
  BY GotoKept
<1>2. IsRoute(worker[w].route)
  BY DEF AllFit, Fits, OnHosted
<1>3. QED
  BY <1>1, <1>2, FallbackSpends DEF Kept

\* The fields of a worker that got a route.
LEMMA NewRouteKept ==
  ASSUME IInv, NEW w \in Workers, NEW s, NEW r,
         worker' = [worker EXCEPT ![w].step = s, ![w].route = r]
  PROVE  /\ worker'[w].step = s /\ worker'[w].route = r
         /\ worker'[w].task = worker[w].task /\ worker'[w].tries = worker[w].tries
         /\ worker'[w].onLocal = worker[w].onLocal /\ worker'[w].repair = worker[w].repair
<1>1. PICK R : worker \in [Workers -> Row(R)]
  BY DEF IInv, Shape
<1>2. QED
  BY <1>1 DEF Row

LEMMA RouteSpends ==
  ASSUME IInv, AllFit, NEW w \in Workers, Route(w)
  PROVE  Spends(w)
<1>1. worker[w].step = "route" /\ calls' = calls /\ local' = local
  BY DEF Route, ledger
<1>2. Fits(worker[w], Kind(worker[w].task)) /\ ~worker[w].repair
  BY <1>1 DEF AllFit, Fits
<1>3. CASE Goto(w, Fallback(worker[w].task))
  BY <1>1, <1>2, <1>3, FallbackIs, LeavesSpends
<1>4. ASSUME NEW still, Ranked # <<>>,
             worker' = [worker EXCEPT ![w].step = "ask", ![w].route = Arranged(still)]
      PROVE  Spends(w)
  <2> DEFINE r == Arranged(still)
  <2>1. IsRoute(r) /\ Len(r) = Len(Ranked)
    BY ArrangedIsRoute
  <2>2. Len(Ranked) >= 1
    BY <1>4, RankedIsRoute, RouteLength
  <2>3. /\ worker'[w].step = "ask" /\ worker'[w].route = r
        /\ worker'[w].task = worker[w].task /\ worker'[w].tries = worker[w].tries
        /\ worker'[w].onLocal = worker[w].onLocal /\ worker'[w].repair = worker[w].repair
    BY <1>4, NewRouteKept
  <2> HIDE DEF r
  <2>4. Spares(worker[w], worker'[w], Kind(worker[w].task))
    BY <1>1, <1>2, <2>1, <2>2, <2>3, RouteSpares
  <2>5. QED
    BY <1>1, <2>3, <2>4 DEF Spends, SparesCalls
<1>5. QED
  BY <1>3, <1>4 DEF Route

LEMMA AskSpends ==
  ASSUME IInv, AllFit, NEW w \in Workers, Ask(w)
  PROVE  Spends(w)
<1>1. PICK R : worker \in [Workers -> Row(R)]
  BY DEF IInv, Shape
<1>2. worker[w].step = "ask"
  BY DEF Ask
<1>3. CASE Refused(w)
  BY <1>2, <1>3, RefusedSpends
<1>4. CASE /\ worker' = [worker EXCEPT ![w].step = "reserve", ![w].day = today]
           /\ UNCHANGED <<scenario, rows, ledger, cooling, today, changes>>
  <2>1. Kept(worker[w], worker'[w]) /\ worker'[w].step = "reserve"
    BY <1>1, <1>4 DEF Row, Kept
  <2>2. Spares(worker[w], worker'[w], Kind(worker[w].task))
    BY <1>2, <2>1, HostedSpares DEF AllFit
  <2>3. calls' = calls /\ local' = local
    BY <1>4 DEF ledger
  <2>4. QED
    BY <2>1, <2>2, <2>3 DEF Spends, SparesCalls
<1>5. QED
  BY <1>3, <1>4 DEF Ask

LEMMA ReserveSpends ==
  ASSUME IInv, AllFit, NEW w \in Workers, Reserve(w)
  PROVE  Spends(w)
<1>1. worker[w].step = "reserve" /\ calls' = calls /\ local' = local /\ OnHosted(worker[w])
  BY DEF Reserve, OnHosted
<1>2. Fits(worker[w], Kind(worker[w].task))
  BY <1>1 DEF AllFit
<1>3. CASE Goto(w, "send")
  <2>1. Kept(worker[w], worker'[w]) /\ worker'[w].step = "send"
    BY <1>3, GotoKept
  <2>2. Spares(worker[w], worker'[w], Kind(worker[w].task))
    BY <1>1, <1>2, <2>1, HostedSpares
  <2>3. Kind(worker[w].task) \in HostedKinds
    BY <1>1, <1>2 DEF Fits
  <2>4. QED
    BY <1>1, <2>2, <2>3 DEF Spends, SparesCalls
<1>4. CASE Goto(w, IF worker[w].repair THEN "save" ELSE Fallback(worker[w].task))
  <2> DEFINE s == IF worker[w].repair THEN "save" ELSE Fallback(worker[w].task)
  <2>1. s \in {"local"} \cup Halts /\ (s = "local" => ~worker[w].repair)
    BY FallbackIs DEF Halts, Steps
  <2> HIDE DEF s
  <2>2. Goto(w, s)
    BY <1>4 DEF s
  <2>3. QED
    BY <1>1, <2>1, <2>2, LeavesSpends
<1>5. QED
  BY <1>3, <1>4 DEF Reserve

LEMMA RequestSpends ==
  ASSUME IInv, AllFit, NEW w \in Workers, Send(w)
  PROVE  Spends(w)
<1>1. worker[w].step = "send" /\ local' = local
  BY DEF Send
<1>2. CASE Goto(w, Refusal(w)) /\ UNCHANGED calls
  BY <1>1, <1>2, RefusalHalts, HaltSpends
<1>3. CASE /\ calls' = [calls EXCEPT ![worker[w].task][worker[w].lease] = @ + 1]
           /\ Goto(w, "answer")
  <2>1. Kept(worker[w], worker'[w]) /\ worker'[w].step = "answer"
    BY <1>3, GotoKept
  <2>2. Fits(worker[w], Kind(worker[w].task))
    BY <1>1 DEF AllFit
  <2>3. /\ Fits(worker'[w], Kind(worker[w].task))
        /\ Left(worker'[w], Kind(worker[w].task)) + 1 <= Left(worker[w], Kind(worker[w].task))
    BY <1>1, <2>1, <2>2, SendSpends
  <2>4. QED
    BY <1>1, <1>3, <2>1, <2>3 DEF Spends, Requests, Sends
<1>4. QED
  BY <1>2, <1>3 DEF Send

LEMMA HostedAnswerSpends ==
  ASSUME IInv, AllFit, NEW w \in Workers, HostedAccepted(w) \/ ModelRefused(w) \/ RouteFails(w)
  PROVE  Spends(w)
<1> DEFINE x == worker[w]
           y == worker'[w]
           k == Kind(worker[w].task)
<1>1. /\ x.step = "answer" /\ ~x.onLocal /\ calls' = calls /\ local' = local
      /\ OnHosted(x)
  BY DEF HostedAccepted, ModelRefused, RouteFails, Answered, ledger, OnHosted
<1>2. Fits(x, k) /\ IsRoute(x.route)
  BY <1>1 DEF AllFit, Fits
<1>3. CASE HostedAccepted(w)
  <2>1. PICK m : worker' = [worker EXCEPT ![w].step = AfterAnswer(w), ![w].route = <<m>>]
    BY <1>3 DEF HostedAccepted
  <2>2. /\ y.step = AfterAnswer(w) /\ y.route = <<m>>
        /\ y.task = x.task /\ y.tries = x.tries
        /\ y.onLocal = x.onLocal /\ y.repair = x.repair
    BY <2>1, NewRouteKept
  <2>3. IsRoute(y.route)
    BY <2>2, OneIsRoute
  <2>4. CASE y.step = "save"
    BY <1>1, <2>2, <2>3, <2>4, FallbackSpends DEF Halts, Steps
  <2>5. CASE y.step # "save"
    <3>1. y.step = "assess" /\ k = "application" /\ ~x.repair
      BY <2>2, <2>5 DEF AfterAnswer, Checked
    <3>2. Spares(x, y, k)
      BY <1>1, <1>2, <2>2, <2>3, <3>1, AssessSpares
    <3>3. QED
      BY <1>1, <3>1, <3>2 DEF Spends, SparesCalls
  <2>6. QED
    BY <2>4, <2>5
<1>4. CASE ModelRefused(w)
  <2> DEFINE rest(i) == After(worker[w].route, i)
             s(i) == IF rest(i) = <<>> THEN Fallback(worker[w].task) ELSE "ask"
  <2>1. ~x.repair
    BY <1>4 DEF ModelRefused
  <2>2. PICK i \in DOMAIN x.route :
          worker' = [worker EXCEPT ![w].route = rest(i), ![w].step = s(i)]
    BY <1>4 DEF ModelRefused
  <2> DEFINE r == rest(i)
             go == s(i)
  <2>3. /\ IsRoute(r) /\ Len(r) = Len(x.route) - i /\ i \in 1..Len(x.route)
        /\ r = <<>> <=> i = Len(x.route)
    BY <1>2, RestIsRoute
  <2>4. Len(x.route) \in Nat
    BY <1>2, RouteLength
  <2>5. worker' = [worker EXCEPT ![w].step = go, ![w].route = r]
    <3>1. PICK R : worker \in [Workers -> Row(R)]
      BY DEF IInv, Shape
    <3>2. QED
      BY <2>2, <3>1 DEF Row
  <2> HIDE DEF go, r
  <2>6. /\ y.step = go /\ y.route = r
        /\ y.task = x.task /\ y.tries = x.tries
        /\ y.onLocal = x.onLocal /\ y.repair = x.repair
    BY <2>5, NewRouteKept
  <2>7. CASE r = <<>>
    <3>1. go \in {"local"} \cup Halts
      BY <2>7, FallbackIs DEF go, r
    <3>2. QED
      BY <1>1, <2>1, <2>3, <2>6, <3>1, FallbackSpends
  <2>8. CASE r # <<>>
    <3>1. go = "ask" /\ Len(r) >= 1 /\ Len(r) < Len(x.route)
      BY <2>3, <2>4, <2>8 DEF go, r
    <3>2. Spares(x, y, k)
      BY <1>1, <1>2, <2>1, <2>3, <2>6, <3>1, NextModelSpares
    <3>3. QED
      BY <1>1, <2>6, <3>1, <3>2 DEF Spends, SparesCalls
  <2>9. QED
    BY <2>7, <2>8
<1>5. CASE RouteFails(w)
  <2> DEFINE s == IF worker[w].repair THEN "save" ELSE Fallback(worker[w].task)
  <2>1. s \in {"local"} \cup Halts /\ (s = "local" => ~worker[w].repair)
    BY FallbackIs DEF Halts, Steps
  <2>2. Goto(w, s)
    BY <1>5 DEF RouteFails
  <2> HIDE DEF s
  <2>3. QED
    BY <1>1, <2>1, <2>2, LeavesSpends
<1>6. QED
  BY <1>3, <1>4, <1>5

LEMMA LocalCallSpends ==
  ASSUME IInv, AllFit, NEW w \in Workers, Local(w)
  PROVE  Spends(w)
<1>1. worker[w].step = "local"
  BY DEF Local
<1>2. Fits(worker[w], Kind(worker[w].task))
  BY <1>1 DEF AllFit
<1>3. CASE Refused(w)
  BY <1>1, <1>3, RefusedSpends
<1>4. CASE Goto(w, "failing") /\ UNCHANGED ledger
  BY <1>1, <1>4, HaltSpends DEF Halts, Steps, ledger
<1>5. CASE /\ MayAskLocally(worker[w].task)
           /\ local' = [local EXCEPT ![worker[w].task] = @ + 1] /\ calls' = calls
           /\ worker' = [worker EXCEPT ![w].step = "send", ![w].onLocal = TRUE, ![w].tries = @ + 1]
  <2>1. PICK R : worker \in [Workers -> Row(R)]
    BY DEF IInv, Shape
  <2>2. worker[w] \in Row(R)
    BY <2>1
  <2>3. /\ worker'[w].step = "send" /\ worker'[w].onLocal = TRUE
        /\ worker'[w].tries = worker[w].tries + 1
        /\ worker'[w].repair = worker[w].repair /\ worker'[w].route = worker[w].route
    BY <1>5, <2>1, <2>2 DEF Row
  <2>4. Spares(worker[w], worker'[w], Kind(worker[w].task))
    BY <1>1, <1>2, <2>3, LocalSpares
  <2>5. QED
    BY <1>1, <1>5, <2>4 DEF Spends, AsksLocally
<1>6. QED
  BY <1>3, <1>4, <1>5 DEF Local, ledger

LEMMA LocalAnswerSpends ==
  ASSUME IInv, AllFit, NEW w \in Workers,
         LocalAccepted(w) \/ LocalRefused(w) \/ EndpointFails(w)
  PROVE  Spends(w)
<1> DEFINE x == worker[w]
           y == worker'[w]
           k == Kind(worker[w].task)
<1>1. x.step = "answer" /\ x.onLocal /\ calls' = calls /\ local' = local
  BY DEF LocalAccepted, LocalRefused, EndpointFails, Answered, ledger
<1>2. Fits(x, k) /\ IsRoute(x.route)
  BY <1>1 DEF AllFit, Fits
<1>3. CASE LocalAccepted(w)
  <2>1. Goto(w, AfterAnswer(w))
    BY <1>3 DEF LocalAccepted
  <2>2. CASE AfterAnswer(w) = "save"
    BY <1>1, <2>1, <2>2, HaltSpends DEF Halts, Steps
  <2>3. CASE AfterAnswer(w) # "save"
    <3>1. AfterAnswer(w) = "assess" /\ k = "application" /\ ~x.repair
      BY <2>3 DEF AfterAnswer, Checked
    <3>2. Kept(x, y) /\ y.step = "assess"
      BY <2>1, <3>1, GotoKept
    <3>3. Spares(x, y, k)
      BY <1>1, <1>2, <3>1, <3>2, AssessSpares DEF Kept
    <3>4. QED
      BY <1>1, <3>2, <3>3 DEF Spends, SparesCalls
  <2>4. QED
    BY <2>2, <2>3
<1>4. GivesUp(w) \in Halts
  BY DEF GivesUp, Halts, Steps
<1>5. CASE LocalRefused(w)
  <2>1. CASE MayRepairCopy(w)
    <3>1. Goto(w, "local")
      BY <1>5, <2>1 DEF LocalRefused
    <3>2. Kept(x, y) /\ y.step = "local"
      BY <3>1, GotoKept
    <3>3. Spares(x, y, k)
      BY <1>1, <1>2, <2>1, <3>2, CopySpares DEF MayRepairCopy
    <3>4. QED
      BY <1>1, <3>2, <3>3 DEF Spends, SparesCalls
  <2>2. CASE ~MayRepairCopy(w)
    BY <1>1, <1>4, <1>5, <2>2, HaltSpends DEF LocalRefused
  <2>3. QED
    BY <2>1, <2>2
<1>6. CASE EndpointFails(w)
  BY <1>1, <1>4, <1>6, HaltSpends DEF EndpointFails
<1>7. QED
  BY <1>3, <1>5, <1>6

LEMMA AssessSpends ==
  ASSUME IInv, AllFit, NEW w \in Workers, Assess(w)
  PROVE  Spends(w)
<1>1. worker[w].step = "assess" /\ calls' = calls /\ local' = local
  BY DEF Assess, ledger
<1>2. Fits(worker[w], Kind(worker[w].task))
  BY <1>1 DEF AllFit
<1>3. CASE Goto(w, "interrupted") \/ Goto(w, "save")
  BY <1>1, <1>3, HaltSpends DEF Halts, Steps
<1> DEFINE s == IF worker[w].onLocal THEN "local" ELSE "ask"
<1>4. CASE worker' = [worker EXCEPT ![w].step = s, ![w].repair = TRUE]
  <2>1. PICK R : worker \in [Workers -> Row(R)]
    BY DEF IInv, Shape
  <2>2. /\ worker'[w].step = s /\ worker'[w].repair = TRUE
        /\ worker'[w].tries = worker[w].tries /\ worker'[w].onLocal = worker[w].onLocal
        /\ worker'[w].route = worker[w].route
    BY <1>4, <2>1 DEF Row
  <2>3. Spares(worker[w], worker'[w], Kind(worker[w].task))
    BY <1>1, <1>2, <2>2, RepairSpares
  <2>4. QED
    BY <1>1, <2>2, <2>3 DEF Spends, SparesCalls
<1>5. QED
  BY <1>3, <1>4 DEF Assess

LEMMA SaveSpends ==
  ASSUME IInv, AllFit, NEW w \in Workers, Save(w) \/ Fails(w)
  PROVE  Spends(w)
<1>1. worker[w].step # "idle" /\ calls' = calls /\ local' = local
  BY DEF Save, SaveProposal, SaveDraft, SaveReplyDraft, SaveApplicationDraft, Saving, Saved,
         NotSaved, Fails, ledger
<1>2. PICK s \in Halts : Goto(w, s)
  <2>1. {"raised", "interrupted", "done"} \subseteq Halts /\ Refusal(w) \in Halts
    BY RefusalHalts DEF Halts, Steps
  <2>2. QED
    BY <2>1 DEF Save, SaveProposal, SaveDraft, SaveReplyDraft, SaveApplicationDraft, Saved,
                NotSaved, Fails
<1>3. QED
  BY <1>1, <1>2, HaltSpends

LEMMA ToldSpends ==
  ASSUME IInv, AllFit, NEW w \in Workers, Told(w)
  PROVE  Spends(w)
<1>1. PICK R : worker \in [Workers -> Row(R)]
  BY DEF IInv, Shape
<1>2. worker[w].step # "idle" /\ calls' = calls /\ local' = local
  BY DEF Told, ledger
<1>3. PICK reason : worker' = [worker EXCEPT ![w].told = reason]
  BY DEF Told
<1>4. Kept(worker[w], worker'[w]) /\ worker'[w].step = worker[w].step
  BY <1>1, <1>3 DEF Row, Kept
<1>5. Fits(worker[w], Kind(worker[w].task))
  BY <1>2 DEF AllFit
<1>6. /\ Fits(worker'[w], Kind(worker[w].task))
      /\ Left(worker'[w], Kind(worker[w].task)) = Left(worker[w], Kind(worker[w].task))
  BY <1>4, <1>5 DEF Kept, Fits, Left, OnHosted, AtLocal
<1>7. Spares(worker[w], worker'[w], Kind(worker[w].task))
  BY <1>5, <1>6, LeftIsNat DEF Spares
<1>8. QED
  BY <1>2, <1>4, <1>7 DEF Spends, SparesCalls

LEMMA WorkSpends ==
  ASSUME IInv, AllFit, NEW w \in Workers, Work(w) \/ Told(w)
  PROVE  (Moves(w) /\ Spends(w)) \/ Done(w) \/ Raised(w) \/ Stopped(w)
<1>1. CASE Begin(w)
  BY <1>1, BeginMoves, BeginSpends
<1>2. CASE Hosted(w)
  BY <1>2, RouteMoves, RouteSpends, AskMoves, AskSpends, ReserveMoves, ReserveSpends,
     HostedMoves, HostedAnswerSpends DEF Hosted
<1>3. CASE OnLocal(w)
  BY <1>3, LocalMoves, LocalCallSpends, LocalAnswerSpends DEF OnLocal
<1>4. CASE Send(w)
  BY <1>4, SendMoves, RequestSpends
<1>5. CASE Assess(w)
  BY <1>5, AssessMoves, AssessSpends
<1>6. CASE Save(w) \/ Fails(w)
  BY <1>6, SaveMoves, FailsMoves, SaveSpends
<1>7. CASE Told(w)
  BY <1>7, ToldMoves, ToldSpends
<1>8. QED
  BY <1>1, <1>2, <1>3, <1>4, <1>5, <1>6, <1>7 DEF Work

-----------------------------------------------------------------------------
(* What all runs spend.                                                    *)

LEMMA SendsAre ==
  ASSUME CallsShape, NEW w \in Workers, worker[w].task \in Tasks, Sends(w),
         NEW t \in Tasks, NEW n \in Leases
  PROVE  calls'[t][n] = IF t = worker[w].task /\ n = worker[w].lease
                          THEN calls[t][n] + 1 ELSE calls[t][n]
<1> DEFINE f == calls[worker[w].task]
           g == [f EXCEPT ![worker[w].lease] = @ + 1]
<1>1. calls' = [calls EXCEPT ![worker[w].task] = g]
  BY DEF Sends
<1>2. f \in [Leases -> Nat]
  BY DEF CallsShape
<1>3. g[n] = IF n = worker[w].lease THEN f[n] + 1 ELSE f[n]
  BY <1>2
<1>4. calls'[t] = IF t = worker[w].task THEN g ELSE calls[t]
  BY <1>1 DEF CallsShape
<1>5. QED
  BY <1>3, <1>4

\* Only the run of w can have asked for something more.
LEMMA OthersAskNothing ==
  ASSUME CallsShape, NEW w \in Workers, worker[w].task \in Tasks, Spends(w),
         NEW t \in Tasks, NEW n \in Leases
  PROVE  /\ t # worker[w].task \/ n # worker[w].lease => calls'[t][n] = calls[t][n]
         /\ calls'[t][n] \in {calls[t][n], calls[t][n] + 1}
         /\ calls'[t][n] # calls[t][n] => Requests(w)
BY SendsAre DEF Spends, SparesCalls, AsksLocally, Requests

LEMMA MostIsNat ==
  ASSUME NEW kind
  PROVE  Most(kind) \in Nat
<1>1. LocalMost(kind) \in 0..2
  BY DEF LocalMost
<1>2. QED
  BY <1>1, MostModels DEF Most, HostedMost

\* A reply is put to a model once, whichever of its runs gets there.
LEMMA AskedOnceKept ==
  ASSUME IInv, CallsShape, Spent, NEW w \in Workers, Moves(w), Spends(w),
         NEW t \in Tasks, Kind(t) \in {"reply", "recovery"}
  PROVE  AskedOnce(t)'
<1>1. AskedOnce(t) /\ local \in [Tasks -> Nat]
  BY DEF Spent, RepliesOnce
<1>2. /\ worker[w].task \in Tasks /\ worker'[w].task = worker[w].task
      /\ \A v \in Workers \ {w} : worker'[v] = worker[v]
  BY DEF Moves, IInv, AtWork
<1>3. CASE t # worker[w].task
  <2>1. \A n \in Leases : calls'[t][n] = calls[t][n]
    BY <1>2, <1>3, OthersAskNothing
  <2>2. local'[t] = local[t]
    BY <1>1, <1>3 DEF Spends, SparesCalls, AsksLocally, Requests
  <2>3. \A v \in Workers : worker'[v].task = t => worker'[v] = worker[v]
    BY <1>2, <1>3
  <2>4. QED
    BY <1>1, <2>1, <2>2, <2>3 DEF AskedOnce
<1>4. CASE t = worker[w].task /\ SparesCalls(w)
  <2>1. calls' = calls /\ local' = local
    BY <1>4 DEF SparesCalls
  <2>2. \A v \in Workers : worker'[v].step = "send" /\ worker'[v].task = t =>
          worker[v].step = "send" /\ worker[v].task = t
    BY <1>2, <1>4 DEF SparesCalls, HostedKinds
  <2>3. QED
    BY <1>1, <2>1, <2>2 DEF AskedOnce
<1>5. CASE t = worker[w].task /\ AsksLocally(w)
  <2>1. local[t] = 0 /\ calls' = calls
    BY <1>5 DEF AsksLocally, MayAskLocally
  <2>2. local'[t] = 1
    BY <1>1, <1>5, <2>1 DEF AsksLocally
  <2>3. \A n \in Leases : calls'[t][n] = 0
    BY <1>1, <2>1 DEF AskedOnce
  <2>4. \A v \in Workers : ~(worker[v].step = "send" /\ worker[v].task = t)
    BY <1>1, <2>1 DEF AskedOnce
  <2>5. \A v \in Workers : worker'[v].step = "send" /\ worker'[v].task = t => v = w
    BY <1>2, <2>4
  <2>6. QED
    BY <2>2, <2>3, <2>5 DEF AskedOnce
<1>6. CASE t = worker[w].task /\ Requests(w)
  <2>1. worker[w].step = "send" /\ local' = local /\ worker'[w].step = "answer"
    BY <1>6 DEF Requests, Sends
  <2>2. /\ local[t] # 0 /\ \A n \in Leases : calls[t][n] = 0
        /\ \A v \in Workers : worker[v].step = "send" /\ worker[v].task = t => v = w
    BY <1>1, <1>6, <2>1 DEF AskedOnce
  <2>3. \A v \in Workers : ~(worker'[v].step = "send" /\ worker'[v].task = t)
    BY <1>2, <2>1, <2>2
  <2>4. \A n \in Leases : n # worker[w].lease => calls'[t][n] = 0
    BY <1>2, <2>2, OthersAskNothing
  <2>5. \A m, n \in Leases : calls'[t][m] > 0 /\ calls'[t][n] > 0 => m = n
    BY <2>4
  <2>6. QED
    BY <2>1, <2>2, <2>3, <2>5 DEF AskedOnce
<1>7. QED
  BY <1>3, <1>4, <1>5, <1>6 DEF Spends

LEMMA SpendsKeeps ==
  ASSUME IInv, CallsShape, Spent, NEW w \in Workers, Moves(w), Spends(w)
  PROVE  Spent'
<1> DEFINE t == worker[w].task
           k == Kind(worker[w].task)
<1>1. /\ t \in Tasks /\ worker[w].step # "idle"
      /\ worker'[w].task = t /\ worker'[w].lease = worker[w].lease
      /\ \A v \in Workers \ {w} : worker'[v] = worker[v]
      /\ task' = task /\ scenario' = scenario
  BY DEF Moves, IInv, AtWork
<1>2. \A u : Kind(u)' = Kind(u)
  BY <1>1 DEF Kind
<1>3. /\ Fits(worker[w], k) /\ Fits(worker'[w], k)
      /\ Left(worker'[w], k) <= Left(worker[w], k)
      /\ Requests(w) => Left(worker'[w], k) + 1 <= Left(worker[w], k)
  <2>1. Fits(worker[w], k)
    BY <1>1 DEF Spent, AllFit
  <2>2. Fits(worker'[w], k)
    BY DEF Spends, SparesCalls, AsksLocally, Requests, Spares
  <2>3. Left(worker[w], k) \in Nat /\ Left(worker'[w], k) \in Nat
    BY <2>1, <2>2, LeftIsNat
  <2>4. Left(worker'[w], k) <= Left(worker[w], k)
    BY <2>3 DEF Spends, SparesCalls, AsksLocally, Requests, Spares
  <2>5. Requests(w) => Left(worker'[w], k) + 1 <= Left(worker[w], k)
    BY DEF Requests
  <2>6. QED
    BY <2>1, <2>2, <2>4, <2>5
<1>4. Left(worker[w], k) \in Nat /\ Left(worker'[w], k) \in Nat /\ Most(k) \in Nat
  BY <1>3, LeftIsNat, MostIsNat
<1>5. AllFit'
  <2>1. ASSUME NEW v \in Workers, worker'[v].step # "idle"
        PROVE  Fits(worker'[v], Kind(worker'[v].task))
    BY <1>1, <1>3, <2>1 DEF Spent, AllFit
  <2>2. QED
    BY <1>2, <2>1 DEF AllFit
<1>6. ASSUME NEW n \in Leases, n = worker[w].lease
      PROVE  calls'[t][n] + Left(worker'[w], k) <= Most(k)
  <2>1. calls[t][n] \in Nat /\ calls[t][n] + Left(worker[w], k) <= Most(k)
    BY <1>1, <1>6 DEF Spent, KeepsToLeft, CallsShape
  <2>2. calls'[t][n] \in {calls[t][n], calls[t][n] + 1} /\ (calls'[t][n] # calls[t][n] => Requests(w))
    BY <1>1, OthersAskNothing
  <2>3. QED
    BY <1>3, <1>4, <2>1, <2>2
<1>7. KeepsToLeft'
  <2>1. ASSUME NEW v \in Workers, worker'[v].step # "idle", NEW n \in Leases,
               n = worker'[v].lease
        PROVE  calls'[worker'[v].task][n] + Left(worker'[v], Kind(worker'[v].task))
                 <= Most(Kind(worker'[v].task))
    <3>1. CASE v = w
      BY <1>1, <1>6, <2>1, <3>1
    <3>2. CASE v # w
      <4>1. worker'[v] = worker[v] /\ worker[v].task \in Tasks
        BY <1>1, <2>1, <3>2 DEF IInv, AtWork
      <4>2. worker[v].task # t \/ n # worker[w].lease
        BY <1>1, <2>1, <3>2, <4>1 DEF IInv, LeasesDiffer
      <4>3. calls'[worker[v].task][n] = calls[worker[v].task][n]
        BY <1>1, <4>1, <4>2, OthersAskNothing
      <4>4. QED
        BY <2>1, <4>1, <4>3 DEF Spent, KeepsToLeft
    <3>3. QED
      BY <3>1, <3>2
  <2>2. QED
    BY <1>2, <2>1 DEF KeepsToLeft
<1>8. WithinMost'
  <2>1. ASSUME NEW u \in Tasks, NEW n \in Leases
        PROVE  calls'[u][n] <= Most(Kind(u))
    <3>1. CASE u = t /\ n = worker[w].lease
      <4>1. calls'[t][n] \in Nat
        <5>1. calls[t][n] \in Nat
          BY <1>1 DEF CallsShape
        <5>2. QED
          BY <1>1, <5>1, OthersAskNothing
      <4>2. QED
        BY <1>4, <1>6, <3>1, <4>1
    <3>2. CASE u # t \/ n # worker[w].lease
      BY <1>1, <3>2, OthersAskNothing DEF Spent, WithinMost
    <3>3. QED
      BY <3>1, <3>2
  <2>2. QED
    BY <1>2, <2>1 DEF WithinMost
<1>9. NewLeases'
  <2>1. ASSUME NEW u \in Tasks, NEW n \in Leases, n > task[u].lease
        PROVE  calls'[u][n] = 0
    <3>1. worker[w].lease <= task[t].lease /\ task[u].lease \in Nat
      BY <1>1 DEF IInv, Shape, TaskRow, LeasesDiffer
    <3>2. u # t \/ n # worker[w].lease
      BY <2>1, <3>1 DEF Leases
    <3>3. QED
      BY <1>1, <2>1, <3>2, OthersAskNothing DEF Spent, NewLeases
  <2>2. QED
    BY <1>1, <2>1 DEF NewLeases
<1>10. RepliesOnce'
  <2>1. \A u \in Tasks : Kind(u) \in {"reply", "recovery"} => AskedOnce(u)'
    BY AskedOnceKept
  <2>2. QED
    BY <1>2, <2>1 DEF RepliesOnce
<1>11. local' \in [Tasks -> Nat]
  <2>1. local \in [Tasks -> Nat]
    BY DEF Spent
  <2>2. CASE local' = local
    BY <2>1, <2>2
  <2>3. CASE local' = [local EXCEPT ![t] = @ + 1]
    <3>1. local[t] + 1 \in Nat
      BY <1>1, <2>1
    <3>2. QED
      BY <2>1, <2>3, <3>1
  <2>4. QED
    BY <2>2, <2>3 DEF Spends, SparesCalls, AsksLocally, Requests
<1>12. QED
  BY <1>5, <1>7, <1>8, <1>9, <1>10, <1>11 DEF Spent

\* Nothing is asked, and no run goes anywhere but out.
LEMMA QuietKeeps ==
  ASSUME IInv, Spent, calls' = calls, local' = local, scenario' = scenario,
         \A t \in Tasks : task'[t].lease = task[t].lease,
         \A w \in Workers : worker'[w].step # "idle" => worker'[w] = worker[w]
  PROVE  Spent'
<1>1. \A u : Kind(u)' = Kind(u)
  BY DEF Kind
<1>2. AllFit'
  BY <1>1 DEF Spent, AllFit
<1>3. KeepsToLeft'
  <2>1. ASSUME NEW w \in Workers, worker'[w].step # "idle", NEW n \in Leases,
               n = worker'[w].lease
        PROVE  calls[worker'[w].task][n] + Left(worker'[w], Kind(worker'[w].task))
                 <= Most(Kind(worker'[w].task))
    BY <2>1 DEF Spent, KeepsToLeft
  <2>2. QED
    BY <1>1, <2>1 DEF KeepsToLeft
<1>4. WithinMost' /\ NewLeases'
  BY <1>1 DEF Spent, WithinMost, NewLeases
<1>5. \A w \in Workers : worker'[w].step = "send" => worker'[w] = worker[w]
  OBVIOUS
<1>6. RepliesOnce'
  <2>1. ASSUME NEW t \in Tasks, AskedOnce(t)
        PROVE  AskedOnce(t)'
    BY <1>5, <2>1 DEF AskedOnce
  <2>2. QED
    BY <1>1, <2>1 DEF Spent, RepliesOnce
<1>7. QED
  BY <1>2, <1>3, <1>4, <1>6 DEF Spent

\* A worker lets go of its task.
LEMMA IdleKeeps ==
  ASSUME IInv, Spent, NEW w \in Workers, worker' = [worker EXCEPT ![w] = Idle],
         calls' = calls, local' = local, scenario' = scenario,
         \A t \in Tasks : task'[t].lease = task[t].lease
  PROVE  Spent'
<1>1. PICK R : worker \in [Workers -> Row(R)]
  BY DEF IInv, Shape
<1>2. Idle.step = "idle"
  BY DEF Idle
<1>3. \A v \in Workers : worker'[v].step # "idle" => worker'[v] = worker[v]
  BY <1>1, <1>2
<1>4. QED
  BY <1>3, QuietKeeps

LEMMA OutcomeSpares ==
  ASSUME IInv, Spent, NEW w \in Workers, Done(w) \/ Raised(w) \/ Stopped(w) \/ Crash(w)
  PROVE  Spent'
<1>1. /\ worker' = [worker EXCEPT ![w] = Idle]
      /\ calls' = calls /\ local' = local /\ scenario' = scenario
  BY DEF Done, Raised, Stopped, Crash, Ends, Dropped, ledger
<1>2. task \in [Tasks -> TaskRow]
  BY DEF IInv, Shape
<1>3. \A t \in Tasks : task'[t].lease = task[t].lease
  <2>1. CASE Dropped(w)
    BY <2>1 DEF Dropped, rows
  <2>2. ASSUME NEW s, Ends(w, s)
        PROVE  \A t \in Tasks : task'[t].lease = task[t].lease
    BY <1>2, <2>2 DEF Ends, TaskRow
  <2>3. CASE Crash(w)
    BY <1>2, <2>3 DEF Crash, TaskRow
  <2>4. Dropped(w) \/ Crash(w) \/ \E s : Ends(w, s)
    BY DEF Done, Raised, Stopped
  <2>5. QED
    BY <2>1, <2>2, <2>3, <2>4
<1>4. QED
  BY <1>1, <1>3, IdleKeeps

LEMMA OthersSpare ==
  ASSUME IInv, Spent, NEW t \in Tasks, People(t) \/ Recover(t) \/ LeaseRunsOut(t)
  PROVE  Spent'
<1>1. worker' = worker /\ calls' = calls /\ local' = local /\ scenario' = scenario
  BY DEF People, CreatePlan, RetryReply, Use, CancelTask, Edit, Recover, LeaseRunsOut, ledger
<1>2. task \in [Tasks -> TaskRow]
  BY DEF IInv, Shape
<1>3. \A u \in Tasks : task'[u].lease = task[u].lease
  BY <1>2 DEF TaskRow, People, CreatePlan, RetryReply, Use, CancelTask, Edit, Recover,
              LeaseRunsOut
<1>4. QED
  BY <1>1, <1>3, QuietKeeps

LEMMA IdleRoute == IsRoute(<<>>)
<1>1. <<>> \in Seq({})
  BY EmptySeq
<1>2. QED
  BY <1>1 DEF IsRoute

\* A new lease starts with all that its kind allows.
LEMMA ClaimSpares ==
  ASSUME IInv, CallsShape, Spent, NEW w \in Workers, NEW t \in Tasks, Claim(w, t)
  PROVE  Spent'
<1>1. PICK R : worker \in [Workers -> Row(R)]
  BY DEF IInv, Shape
<1> DEFINE row == [Idle EXCEPT !.step = "start", !.task = t, !.lease = task[t].lease + 1]
<1>2. /\ row.step = "start" /\ row.task = t /\ row.lease = task[t].lease + 1
      /\ row.route = <<>> /\ row.tries = 0 /\ row.onLocal = FALSE /\ row.repair = FALSE
  BY DEF Idle
<1> HIDE DEF row
<1>3. worker' = [worker EXCEPT ![w] = row]
  BY DEF Claim, row
<1>4. worker'[w] = row /\ \A v \in Workers \ {w} : worker'[v] = worker[v]
  BY <1>1, <1>3
<1>5. task \in [Tasks -> TaskRow]
  BY DEF IInv, Shape
<1>6. task[t].lease \in Nat
  BY <1>5 DEF TaskRow
<1>7. /\ task'[t].lease = task[t].lease + 1
      /\ \A u \in Tasks \ {t} : task'[u].lease = task[u].lease
  BY <1>5, <1>6 DEF Claim, TaskRow
<1>8. calls' = calls /\ local' = local /\ scenario' = scenario
  BY DEF Claim, ledger
<1>9. \A u : Kind(u)' = Kind(u)
  BY <1>8 DEF Kind
<1>10. Fits(row, Kind(t)) /\ Left(row, Kind(t)) = Most(Kind(t))
  BY <1>2, IdleRoute DEF Fits, Left, OnHosted, AtLocal
<1>11. \A n \in Leases : n > task[t].lease => calls[t][n] = 0
  BY DEF Spent, NewLeases
<1>12. AllFit'
  <2>1. ASSUME NEW v \in Workers, worker'[v].step # "idle"
        PROVE  Fits(worker'[v], Kind(worker'[v].task))
    BY <1>2, <1>4, <1>10, <2>1 DEF Spent, AllFit
  <2>2. QED
    BY <1>9, <2>1 DEF AllFit
<1>13. KeepsToLeft'
  <2>1. ASSUME NEW v \in Workers, worker'[v].step # "idle", NEW n \in Leases,
               n = worker'[v].lease
        PROVE  calls[worker'[v].task][n] + Left(worker'[v], Kind(worker'[v].task))
                 <= Most(Kind(worker'[v].task))
    <3>1. CASE v = w
      <4>1. calls[t][n] = 0
        BY <1>2, <1>4, <1>6, <1>11, <2>1, <3>1
      <4>2. QED
        BY <1>2, <1>4, <1>10, <3>1, <4>1, MostIsNat
    <3>2. CASE v # w
      BY <1>4, <2>1, <3>2 DEF Spent, KeepsToLeft
    <3>3. QED
      BY <3>1, <3>2
  <2>2. QED
    BY <1>8, <1>9, <2>1 DEF KeepsToLeft
<1>14. WithinMost'
  BY <1>8, <1>9 DEF Spent, WithinMost
<1>15. NewLeases'
  <2>1. ASSUME NEW u \in Tasks, NEW n \in Leases, n > task'[u].lease
        PROVE  calls[u][n] = 0
    <3>1. CASE u = t
      <4>1. n > task[t].lease
        BY <1>6, <1>7, <2>1, <3>1 DEF Leases
      <4>2. QED
        BY <1>11, <3>1, <4>1
    <3>2. CASE u # t
      BY <1>7, <2>1, <3>2 DEF Spent, NewLeases
    <3>3. QED
      BY <3>1, <3>2
  <2>2. QED
    BY <1>8, <2>1 DEF NewLeases
<1>16. RepliesOnce'
  <2>1. \A v \in Workers : worker'[v].step = "send" => worker'[v] = worker[v]
    BY <1>2, <1>4
  <2>2. ASSUME NEW u \in Tasks, AskedOnce(u)
        PROVE  AskedOnce(u)'
    BY <1>8, <2>1, <2>2 DEF AskedOnce
  <2>3. QED
    BY <1>9, <2>2 DEF Spent, RepliesOnce
<1>17. QED
  BY <1>8, <1>12, <1>13, <1>14, <1>15, <1>16 DEF Spent

LEMMA SpentStart == Init => Spent
<1> SUFFICES ASSUME Init
             PROVE  Spent
  OBVIOUS
<1>1. Idle.step = "idle"
  BY DEF Idle
<1>2. \A w \in Workers : worker[w].step = "idle"
  BY <1>1 DEF Init
<1>3. \A t \in Tasks : \A n \in Leases : calls[t][n] = 0
  BY DEF Init
<1>4. WithinMost /\ NewLeases
  BY <1>3, MostIsNat DEF WithinMost, NewLeases
<1>5. AllFit /\ KeepsToLeft
  BY <1>2 DEF AllFit, KeepsToLeft
<1>6. RepliesOnce
  BY <1>2, <1>3 DEF RepliesOnce, AskedOnce
<1>7. QED
  BY <1>4, <1>5, <1>6 DEF Spent, Init

LEMMA SpentKept ==
  ASSUME IInv, CallsShape, Spent, [Next]_vars
  PROVE  Spent'
<1>1. CASE UNCHANGED vars \/ Midnight
  <2>1. /\ calls' = calls /\ local' = local /\ scenario' = scenario /\ task' = task
        /\ worker' = worker
    BY <1>1 DEF vars, rows, ledger, Midnight
  <2>2. QED
    BY <2>1, QuietKeeps
<1>2. ASSUME NEW w \in Workers, NEW t \in Tasks, Claim(w, t)
      PROVE  Spent'
  BY <1>2, ClaimSpares
<1>3. ASSUME NEW w \in Workers, Work(w) \/ Told(w)
      PROVE  Spent'
  <2>1. AllFit
    BY DEF Spent
  <2>2. QED
    BY <1>3, <2>1, WorkSpends, SpendsKeeps, OutcomeSpares
<1>4. ASSUME NEW w \in Workers, Crash(w)
      PROVE  Spent'
  BY <1>4, OutcomeSpares
<1>5. ASSUME NEW t \in Tasks, People(t) \/ Recover(t) \/ LeaseRunsOut(t)
      PROVE  Spent'
  BY <1>5, OthersSpare
<1>6. QED
  BY <1>1, <1>2, <1>3, <1>4, <1>5 DEF Next

-----------------------------------------------------------------------------
(* The calls of a day.                                                     *)

DaysKept == hosted \in [Days -> Nat] /\ \A d \in Days : hosted[d] <= DailyLimit

LEMMA RowsOfDay ==
  ASSUME NEW d, NEW n \in Nat
  PROVE  Cardinality({d} \X (1..n)) = n
<1>1. IsFiniteSet(1..n) /\ Cardinality(1..n) = n
  BY FS_Interval
<1>2. IsFiniteSet({d}) /\ Cardinality({d}) = 1
  BY FS_Singleton
<1>3. Cardinality({d} \X (1..n)) = Cardinality({d}) * Cardinality(1..n)
  BY <1>1, <1>2, FS_Product
<1>4. Cardinality({d} \X (1..n)) = 1 * n
  BY <1>1, <1>2, <1>3, Zenon
<1>5. QED
  BY <1>4

\* The rows of a day are among those a transaction of that day counts.
LEMMA DayIsCounted ==
  ASSUME DaysKept, NEW d \in Days
  PROVE  Cardinality(RowsSince(d)) \in Nat /\ hosted[d] <= Cardinality(RowsSince(d))
<1>1. /\ hosted[d] \in Nat /\ DailyLimit \in Nat /\ d \in d..LastDay
      /\ d \in Int /\ LastDay \in Int
      /\ \A e \in d..LastDay : hosted[e] \in Nat /\ hosted[e] <= DailyLimit
  BY InferenceAssumption DEF DaysKept, Days
<1> DEFINE all == (d..LastDay) \X (1..DailyLimit)
           own == {d} \X (1..hosted[d])
<1>2. IsFiniteSet(all)
  <2>1. IsFiniteSet(d..LastDay) /\ IsFiniteSet(1..DailyLimit)
    BY <1>1, FS_Interval
  <2>2. QED
    BY <2>1, FS_Product
<1>3. own \subseteq RowsSince(d)
  BY <1>1 DEF RowsSince
<1>4. RowsSince(d) \subseteq all
  <2>1. \A e \in d..LastDay : 1..hosted[e] \subseteq 1..DailyLimit
    BY <1>1
  <2>2. QED
    BY <2>1 DEF RowsSince
<1>5. Cardinality(own) = hosted[d]
  BY <1>1, RowsOfDay
<1> HIDE DEF all, own
<1>6. IsFiniteSet(RowsSince(d))
  BY <1>2, <1>4, FS_Subset
<1>7. Cardinality(own) <= Cardinality(RowsSince(d))
  BY <1>3, <1>6, FS_Subset
<1>8. QED
  BY <1>5, <1>6, <1>7, FS_CardinalityType

LEMMA ReserveKeepsDays ==
  ASSUME DaysKept, NEW w \in Workers, Reserve(w)
  PROVE  DaysKept'
<1> DEFINE d == worker[w].day
<1>1. CASE hosted' = hosted
  BY <1>1 DEF DaysKept
<1>2. CASE Counted(w) < DailyLimit /\ hosted' = [hosted EXCEPT ![d] = @ + 1]
  <2>1. CASE d \in Days
    <3>1. hosted[d] \in Nat /\ DailyLimit \in Nat
      BY <2>1, InferenceAssumption DEF DaysKept
    <3>2. hosted[d] + 1 <= DailyLimit
      BY <1>2, <2>1, <3>1, DayIsCounted DEF Counted
    <3>3. QED
      BY <1>2, <2>1, <3>1, <3>2 DEF DaysKept
  <2>2. CASE d \notin Days
    BY <1>2, <2>2 DEF DaysKept
  <2>3. QED
    BY <2>1, <2>2
<1>3. QED
  BY <1>1, <1>2 DEF Reserve

LEMMA DaysStay ==
  ASSUME DaysKept, [Next]_vars
  PROVE  DaysKept'
<1>1. CASE hosted' = hosted
  BY <1>1 DEF DaysKept
<1>2. CASE UNCHANGED vars \/ Midnight
  BY <1>1, <1>2 DEF vars, ledger, Midnight
<1>3. ASSUME NEW w \in Workers, Told(w) \/ Crash(w) \/ \E t \in Tasks : Claim(w, t)
      PROVE  hosted' = hosted
  <2>1. CASE Told(w) \/ Crash(w)
    BY <2>1 DEF Told, Crash, ledger
  <2>2. CASE \E t \in Tasks : Claim(w, t)
    BY <2>2 DEF Claim, ledger
  <2>3. QED
    BY <1>3, <2>1, <2>2
<1>4. ASSUME NEW t \in Tasks, People(t) \/ Recover(t) \/ LeaseRunsOut(t)
      PROVE  hosted' = hosted
  BY <1>4 DEF People, CreatePlan, RetryReply, Use, CancelTask, Edit, Recover, LeaseRunsOut,
              ledger
<1>5. ASSUME NEW w \in Workers, Work(w), ~Reserve(w)
      PROVE  hosted' = hosted
  <2>1. CASE Begin(w)
    BY <2>1 DEF Begin, StartPlan, StartDraft, StartReply, StartApplication, StartChecked,
                Starts, Refused, ledger
  <2>2. CASE Hosted(w)
    BY <1>5, <2>2 DEF Hosted, Route, Ask, HostedAccepted, ModelRefused, RouteFails, Answered,
                      Refused, ledger
  <2>3. CASE OnLocal(w)
    BY <2>3 DEF OnLocal, Local, LocalAccepted, LocalRefused, EndpointFails, Answered, Refused,
                ledger
  <2>4. CASE Send(w) \/ Assess(w) \/ Fails(w)
    BY <2>4 DEF Send, Assess, Fails, ledger
  <2>5. CASE Save(w)
    BY <2>5 DEF Save, SaveProposal, SaveDraft, SaveReplyDraft, SaveApplicationDraft, Saved,
                NotSaved, ledger
  <2>6. CASE Done(w) \/ Raised(w) \/ Stopped(w)
    BY <2>6 DEF Done, Raised, Stopped, Ends, Dropped, ledger
  <2>7. QED
    BY <1>5, <2>1, <2>2, <2>3, <2>4, <2>5, <2>6 DEF Work
<1>6. QED
  BY <1>1, <1>2, <1>3, <1>4, <1>5, ReserveKeepsDays DEF Next

\* The calls of a run, as the property counts them.
LEMMA MostCallsAre ==
  ASSUME NEW t
  PROVE  MostCalls(t) = Most(Kind(t))
<1> DEFINE k == Kind(t)
<1>1. CASE k \in HostedKinds
  BY <1>1, MostModels DEF MostCalls, Most, HostedMost, LocalMost, HostedKinds
<1>2. ASSUME k \notin HostedKinds
      PROVE  Most(k) = LocalMost(k) /\ MostCalls(t) = LocalMost(k)
  <2>1. LocalMost(k) \in 0..2
    BY DEF LocalMost
  <2>2. Most(k) = LocalMost(k)
    BY <1>2, <2>1 DEF Most, HostedMost
  <2>3. CASE k = "local_creator"
    BY <2>2, <2>3 DEF MostCalls, LocalMost
  <2>4. CASE k \in {"reply", "recovery"}
    BY <2>2, <2>4 DEF MostCalls, LocalMost
  <2>5. CASE k \notin {"local_creator", "reply", "recovery"}
    BY <1>2, <2>2, <2>5 DEF MostCalls, LocalMost, HostedKinds
  <2>6. QED
    BY <2>2, <2>3, <2>4, <2>5
<1>3. QED
  BY <1>1, <1>2

\* For all numbers of workers, tasks, models and leases, and whatever the limit of a
\* day: no day has more hosted calls than it allows, no run asks more often than its
\* list of models and its one repair allow, and a reply is put to a model once in
\* all its runs (start_inference_invocation, start_reply_inference_invocation,
\* execute_planning_task, execute_creator_draft_task, _generate_draft).
THEOREM LimitsAreKept == Spec => []LimitKept
<1>1. Init => CallsShape /\ Spent /\ DaysKept
  <2>1. Init => DaysKept
    BY InferenceAssumption DEF Init, DaysKept
  <2>2. Init => CallsShape
    BY DEF Init, CallsShape
  <2>3. QED
    BY <2>1, <2>2, SpentStart
<1>2. IInv /\ CallsShape /\ Spent /\ DaysKept /\ [Next]_vars
        => CallsShape' /\ Spent' /\ DaysKept'
  BY CallsKeep, SpentKept, DaysStay
<1>3. Spent /\ DaysKept => LimitKept
  BY MostCallsAre DEF LimitKept, Spent, WithinMost, RepliesOnce, AskedOnce, DaysKept
<1>4. QED
  BY <1>1, <1>2, <1>3, TasksInvariant, PTL DEF Spec
=============================================================================
