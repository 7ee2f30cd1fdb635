--------------------------- MODULE WorkflowProofs ---------------------------
(***************************************************************************)
(* Proofs about Workflow, for every number of steps, every plan and every  *)
(* capacity.                                                               *)
(***************************************************************************)
EXTENDS Workflow, WellFoundedInduction, FiniteSetTheorems, TLAPS

-----------------------------------------------------------------------------
(* Induction over sets, and what a recursive definition iterates.          *)

\* A set of numbers that is not empty has a least one.
LEMMA LeastNumber ==
  ASSUME NEW Candidates \in SUBSET Nat, Candidates # {}
  PROVE  \E n \in Candidates : \A m \in Candidates : n <= m
<1>1. PICK x \in Candidates : \A y \in Candidates : ~(<<y, x>> \in OpToRel(<, Nat))
  BY NatLessThanWellFounded, WFMin
<1>2. \A y \in Candidates : ~(y < x)
  BY <1>1 DEF OpToRel
<1>3. QED
  BY <1>2

\* Induction: a set with 0 that is closed under successors has every number.
LEMMA SetInduction ==
  ASSUME NEW S, 0 \in S, \A n \in Nat : n \in S => n + 1 \in S
  PROVE  \A n \in Nat : n \in S
<1> DEFINE Candidates == {n \in Nat : n \notin S}
<1>1. SUFFICES ASSUME Candidates # {} PROVE FALSE
  OBVIOUS
<1>2. PICK n \in Candidates : \A m \in Candidates : n <= m
  BY <1>1, LeastNumber
<1>3. n # 0 /\ n - 1 \in Nat /\ n - 1 \notin Candidates
  BY <1>2
<1>4. QED
  BY <1>2, <1>3

\* g is what becomes of x0 in up to n applications of F.
Iterates(X, x0, F, n, g) ==
  g \in [0 .. n -> X] /\ g[0] = x0 /\ \A i \in 0 .. n - 1 : g[i + 1] = F[g[i]]

\* Longer iterations go on where shorter ones end.
LEMMA IteratesAgree ==
  ASSUME NEW X, NEW x0, NEW F, NEW n \in Nat, NEW g, NEW h,
         Iterates(X, x0, F, n, g), Iterates(X, x0, F, n + 1, h)
  PROVE  g[n] = h[n]
<1> DEFINE U == {i \in Nat : i <= n => g[i] = h[i]}
<1>1. 0 \in U
  BY DEF Iterates
<1>2. ASSUME NEW i \in Nat, i \in U PROVE i + 1 \in U
  <2> SUFFICES ASSUME i + 1 <= n PROVE g[i + 1] = h[i + 1]
    OBVIOUS
  <2>1. g[i] = h[i] /\ i \in 0 .. n - 1 /\ i \in 0 .. (n + 1) - 1
    BY <1>2
  <2>2. QED
    BY <2>1 DEF Iterates
<1>3. \A i \in Nat : i \in U
  <2> HIDE DEF U
  <2>1. QED
    BY <1>1, <1>2, SetInduction
<1>4. QED
  BY <1>3

\* There is an iteration of every length.
LEMMA IteratesExist ==
  ASSUME NEW X, NEW x0 \in X, NEW F \in [X -> X]
  PROVE  \A n \in Nat : \E g : Iterates(X, x0, F, n, g)
<1> DEFINE S == {n \in Nat : \E g : Iterates(X, x0, F, n, g)}
<1>1. 0 \in S
  <2>1. Iterates(X, x0, F, 0, [i \in 0 .. 0 |-> x0])
    BY DEF Iterates
  <2>2. QED
    BY <2>1
<1>2. ASSUME NEW n \in Nat, n \in S PROVE n + 1 \in S
  <2>1. PICK g : Iterates(X, x0, F, n, g)
    BY <1>2
  <2> DEFINE h == [i \in 0 .. n + 1 |-> IF i = n + 1 THEN F[g[n]] ELSE g[i]]
  <2>2. h \in [0 .. n + 1 -> X] /\ h[0] = x0
    BY <2>1 DEF Iterates
  <2>3. ASSUME NEW i \in 0 .. (n + 1) - 1 PROVE h[i + 1] = F[h[i]]
    BY <2>1, <2>3 DEF Iterates
  <2>4. Iterates(X, x0, F, n + 1, h)
    BY <2>2, <2>3 DEF Iterates
  <2>5. \E k : Iterates(X, x0, F, n + 1, k)
    BY <2>4
  <2>6. QED
    BY <2>5
<1>3. \A n \in Nat : n \in S
  <2> HIDE DEF S
  <2>1. QED
    BY <1>1, <1>2, SetInduction
<1>4. QED
  BY <1>3

\* f tells what becomes of x0 in any number of applications of F.
Iteration(X, x0, F, f) ==
  f \in [Nat -> X] /\ f[0] = x0 /\ \A n \in Nat : f[n + 1] = F[f[n]]

\* What is done to a thing again and again is a function of how often.
LEMMA IterationExists ==
  ASSUME NEW X, NEW x0 \in X, NEW F \in [X -> X]
  PROVE  \E f : Iteration(X, x0, F, f)
<1> DEFINE G == [n \in Nat |-> CHOOSE g : Iterates(X, x0, F, n, g)]
           f == [n \in Nat |-> G[n][n]]
<1>1. \A n \in Nat : Iterates(X, x0, F, n, G[n])
  BY IteratesExist
<1>2. \A n \in Nat : f[n] = G[n][n]
  OBVIOUS
<1> HIDE DEF G
<1>3. f \in [Nat -> X] /\ f[0] = x0
  BY <1>1 DEF Iterates
<1>4. ASSUME NEW n \in Nat PROVE f[n + 1] = F[f[n]]
  <2>1. G[n][n] = G[n + 1][n]
    BY <1>1, IteratesAgree
  <2>2. n \in 0 .. (n + 1) - 1 /\ n + 1 \in Nat
    OBVIOUS
  <2>3. G[n + 1][n + 1] = F[G[n + 1][n]]
    BY <1>1, <2>2 DEF Iterates
  <2>4. QED
    BY <1>2, <2>1, <2>2, <2>3
<1>5. Iteration(X, x0, F, f)
  BY <1>3, <1>4 DEF Iteration
<1>6. QED
  BY <1>5

-----------------------------------------------------------------------------
(* The inductive invariant.                                                *)

\* Before its row exists a workflow has no tasks.
NothingBefore ==
  workflow = "absent" =>
    /\ stopReason = "none"
    /\ \A s \in Steps : step[s] = "pending"

\* What the status of a step says of its task.
StepsFollowTasks ==
  \A s \in Steps :
    /\ step[s] \in {"pending", "skipped"} => status[s] = "absent"
    /\ step[s] = "dispatched" => status[s] # "absent"
    /\ step[s] = "succeeded" => status[s] = "succeeded" /\ passed[s]
    /\ step[s] = "failed" => status[s] \in T!Final \/ (status[s] = "absent" /\ s \in forbidden)
    /\ step[s] = "cancelled" => status[s] \in T!Final \cup {"absent"}

\* Only a workflow that is stopped cancels steps that have no task.
CancelledByStop ==
  stopReason = "none" => \A s \in Steps : step[s] = "cancelled" => status[s] \in T!Final

\* A task that ended before the deadline did not end late.
LateAfterDeadline == \A s \in Steps : late[s] => overdue

\* A workflow goes on as long as, and no longer than, some step is not settled.
EndedWhenSettled ==
  /\ workflow \in Ended => \A s \in Steps : step[s] \in TerminalSteps
  /\ workflow = "running" => \E s \in Steps : step[s] \notin TerminalSteps

\* The steps of an accepted plan can be ranked so that dependencies come first.
Ranked(p) ==
  \E rank \in [Steps -> 0 .. NumSteps] : \A s \in Steps : \A d \in p[s] : rank[d] < rank[s]
PlanRanked == workflow # "absent" => Ranked(plan)

DispatchedSteps == {s \in Steps : step[s] = "dispatched"}
CapacityKept == Cardinality(DispatchedSteps) <= maxParallel

IInv ==
  /\ TypeOK
  /\ NothingBefore
  /\ StepsFollowTasks
  /\ CancelledByStop
  /\ LateAfterDeadline
  /\ EndedWhenSettled
  /\ PlanRanked
  /\ CapacityKept
  /\ DependenciesFirst
  /\ VerdictIsRight

-----------------------------------------------------------------------------
(* Recursion: failures spread and plans are resolved in rounds.            *)

\* Doomed is what failures reach after as many rounds as there are steps.
LEMMA DoomedRounds ==
  \E f : /\ f[0] = ObservedIn(Failures)
         /\ \A n \in Nat : f[n + 1] = Spread(f[n])
         /\ Doomed = f[NumSteps]
<1> DEFINE F == [R \in SUBSET Steps |-> Spread(R)]
           Reached[n \in Nat] == IF n = 0 THEN ObservedIn(Failures) ELSE Spread(Reached[n - 1])
<1>1. ObservedIn(Failures) \in SUBSET Steps /\ F \in [SUBSET Steps -> SUBSET Steps]
  BY DEF ObservedIn, Spread
<1>2. \A R \in SUBSET Steps : F[R] = Spread(R)
  OBVIOUS
<1> HIDE DEF F
<1>3. PICK f \in [Nat -> SUBSET Steps] :
        f[0] = ObservedIn(Failures) /\ \A n \in Nat : f[n + 1] = F[f[n]]
  <2> HIDE DEF Reached
  <2>1. PICK f : Iteration(SUBSET Steps, ObservedIn(Failures), F, f)
    BY <1>1, IterationExists
  <2>2. QED
    BY <2>1 DEF Iteration
<1>4. f = [n \in Nat |-> IF n = 0 THEN ObservedIn(Failures) ELSE Spread(f[n - 1])]
  <2>1. ASSUME NEW n \in Nat PROVE f[n] = IF n = 0 THEN ObservedIn(Failures) ELSE Spread(f[n - 1])
    <3>1. CASE n = 0
      BY <1>3, <3>1
    <3>2. CASE n # 0
      <4>1. n - 1 \in Nat /\ (n - 1) + 1 = n
        BY <3>2
      <4>2. f[n] = F[f[n - 1]] /\ f[n - 1] \in SUBSET Steps
        BY <1>3, <4>1
      <4>3. QED
        BY <1>2, <3>2, <4>2
    <3>3. QED
      BY <3>1, <3>2
  <2>2. QED
    BY <2>1
<1>5. Reached = [n \in Nat |-> IF n = 0 THEN ObservedIn(Failures) ELSE Spread(Reached[n - 1])]
  BY <1>4, Zenon
<1>6. Doomed = Reached[NumSteps]
  BY Zenon DEF Doomed
<1> HIDE DEF Reached
<1>7. Reached[0] = ObservedIn(Failures)
  BY <1>5
<1>8. ASSUME NEW n \in Nat PROVE Reached[n + 1] = Spread(Reached[n])
  <2>1. n + 1 \in Nat /\ n + 1 # 0 /\ (n + 1) - 1 = n
    OBVIOUS
  <2>2. QED
    BY <1>5, <2>1
<1>9. QED
  BY <1>6, <1>7, <1>8

\* What a failure takes with it waited for something that failed or is taken
\* with it as well.
LEMMA DoomedSteps ==
  ASSUME NumSteps \in Nat
  PROVE  \A s \in Doomed :
           \/ s \in ObservedIn(Failures)
           \/ s \in ObservedIn({"pending"}) /\ plan[s] \cap Doomed # {}
<1>1. PICK f : /\ f[0] = ObservedIn(Failures)
               /\ \A n \in Nat : f[n + 1] = Spread(f[n])
               /\ Doomed = f[NumSteps]
  BY DoomedRounds
<1> DEFINE Good(n) == \A s \in f[n] :
             \/ s \in ObservedIn(Failures)
             \/ s \in ObservedIn({"pending"}) /\ plan[s] \cap f[n] # {}
           S == {n \in Nat : Good(n)}
<1>2. 0 \in S
  BY <1>1
<1>3. ASSUME NEW n \in Nat, n \in S PROVE n + 1 \in S
  <2>1. f[n + 1] = f[n] \cup {s \in ObservedIn({"pending"}) : plan[s] \cap f[n] # {}}
    BY <1>1 DEF Spread
  <2>2. Good(n)
    BY <1>3
  <2>3. Good(n + 1)
    BY <2>1, <2>2
  <2>4. QED
    BY <2>3
<1>4. \A n \in Nat : n \in S
  <2> HIDE DEF S
  <2>1. QED
    BY <1>2, <1>3, SetInduction
<1>5. Good(NumSteps)
  BY <1>4
<1>6. QED
  BY <1>1, <1>5

\* A plan is accepted when as many rounds as there are steps resolve them all.
LEMMA ResolvedRounds ==
  ASSUME NEW p
  PROVE  \E f : /\ f[0] = {}
                /\ \A n \in Nat : f[n + 1] = Resolvable(p, f[n])
                /\ Valid(p) <=> f[NumSteps] = Steps
<1> DEFINE Resolved[n \in Nat] == IF n = 0 THEN {} ELSE Resolvable(p, Resolved[n - 1])
<1>1. PICK F \in [SUBSET Steps -> SUBSET Steps] : \A R \in SUBSET Steps : F[R] = Resolvable(p, R)
  <2> DEFINE G == [R \in SUBSET Steps |-> Resolvable(p, R)]
  <2>1. G \in [SUBSET Steps -> SUBSET Steps] /\ \A R \in SUBSET Steps : G[R] = Resolvable(p, R)
    BY DEF Resolvable
  <2>2. QED
    BY <2>1
<1>2. {} \in SUBSET Steps
  OBVIOUS
<1>3. PICK f \in [Nat -> SUBSET Steps] : f[0] = {} /\ \A n \in Nat : f[n + 1] = F[f[n]]
  <2> HIDE DEF Resolved
  <2>1. PICK f : Iteration(SUBSET Steps, {}, F, f)
    BY <1>2, IterationExists
  <2>2. QED
    BY <2>1 DEF Iteration
<1>4. f = [n \in Nat |-> IF n = 0 THEN {} ELSE Resolvable(p, f[n - 1])]
  <2>1. ASSUME NEW n \in Nat PROVE f[n] = IF n = 0 THEN {} ELSE Resolvable(p, f[n - 1])
    <3>1. CASE n = 0
      BY <1>3, <3>1
    <3>2. CASE n # 0
      <4>1. n - 1 \in Nat /\ (n - 1) + 1 = n
        BY <3>2
      <4>2. f[n] = F[f[n - 1]] /\ f[n - 1] \in SUBSET Steps
        BY <1>3, <4>1
      <4>3. QED
        BY <1>1, <3>2, <4>2
    <3>3. QED
      BY <3>1, <3>2
  <2>2. QED
    BY <2>1
<1>5. Resolved = [n \in Nat |-> IF n = 0 THEN {} ELSE Resolvable(p, Resolved[n - 1])]
  BY <1>4, Zenon
<1>6. Valid(p) <=> Resolved[NumSteps] = Steps
  BY Zenon DEF Valid
<1> HIDE DEF Resolved
<1>7. Resolved[0] = {}
  BY <1>5
<1>8. ASSUME NEW n \in Nat PROVE Resolved[n + 1] = Resolvable(p, Resolved[n])
  <2>1. n + 1 \in Nat /\ n + 1 # 0 /\ (n + 1) - 1 = n
    OBVIOUS
  <2>2. QED
    BY <1>5, <2>1
<1>9. QED
  BY <1>6, <1>7, <1>8

\* The round in which validate_plan resolves a step ranks it behind the steps
\* it depends on: an accepted plan has no circle.
LEMMA ValidPlansAreRanked ==
  ASSUME NumSteps \in Nat, NEW p \in [Steps -> SUBSET Steps], Valid(p)
  PROVE  Ranked(p)
<1>1. PICK f : /\ f[0] = {}
               /\ \A n \in Nat : f[n + 1] = Resolvable(p, f[n])
               /\ f[NumSteps] = Steps
  BY ResolvedRounds
<1>2. \A s \in Steps : \E n \in 0 .. NumSteps : s \in f[n] /\ \A m \in 0 .. n - 1 : s \notin f[m]
  <2> SUFFICES ASSUME NEW s \in Steps
               PROVE  \E n \in 0 .. NumSteps : s \in f[n] /\ \A m \in 0 .. n - 1 : s \notin f[m]
    OBVIOUS
  <2> DEFINE Rounds == {n \in Nat : s \in f[n]}
  <2>1. NumSteps \in Rounds
    BY <1>1
  <2>2. PICK n \in Rounds : \A m \in Rounds : n <= m
    BY <2>1, LeastNumber
  <2>3. n \in 0 .. NumSteps /\ s \in f[n]
    BY <2>1, <2>2
  <2>4. \A m \in 0 .. n - 1 : s \notin f[m]
    BY <2>2
  <2>5. QED
    BY <2>3, <2>4
<1> DEFINE rank == [s \in Steps |-> CHOOSE n \in 0 .. NumSteps :
                      s \in f[n] /\ \A m \in 0 .. n - 1 : s \notin f[m]]
<1>3. \A s \in Steps : /\ rank[s] \in 0 .. NumSteps /\ s \in f[rank[s]]
                       /\ \A m \in 0 .. rank[s] - 1 : s \notin f[m]
  BY <1>2
<1>4. rank \in [Steps -> 0 .. NumSteps]
  BY <1>3
<1> HIDE DEF rank
<1>5. ASSUME NEW s \in Steps, NEW d \in p[s] PROVE rank[d] < rank[s]
  <2>1. rank[s] # 0
    BY <1>1, <1>3
  <2>2. rank[s] - 1 \in Nat /\ (rank[s] - 1) + 1 = rank[s]
    BY <1>3, <2>1
  <2>3. s \in Resolvable(p, f[rank[s] - 1])
    BY <1>1, <1>3, <2>2
  <2>4. d \in Steps /\ d \in f[rank[s] - 1]
    BY <1>5, <2>3 DEF Resolvable
  <2>5. rank[s] - 1 \notin 0 .. rank[d] - 1
    BY <1>3, <2>4
  <2>6. QED
    BY <1>3, <2>2, <2>4, <2>5
<1>6. QED
  BY <1>4, <1>5 DEF Ranked

-----------------------------------------------------------------------------
(* The initial states, and what changes around the reconciler.             *)

\* An empty set of steps takes no place.
LEMMA NoSteps == Cardinality({}) = 0
<1>1. QED
  BY FS_EmptySet

\* The steps are finitely many.
LEMMA StepsAreFinite == IsFiniteSet(Steps)
<1>1. QED
  BY WorkflowAssumption, FS_Interval DEF Steps

\* The invariant holds before the workflow exists.
LEMMA InitIInv == Init => IInv
<1> SUFFICES ASSUME Init PROVE IInv
  OBVIOUS
<1> USE DEF Init, T!ContractInit
<1>1. TypeOK
  <2>1. maxParallel \in 1 .. 4 /\ attempts \in [Steps -> Nat]
    OBVIOUS
  <2>2. status \in [Steps -> T!Statuses] /\ step \in [Steps -> {"pending", "dispatched"} \cup TerminalSteps]
    BY DEF T!Statuses
  <2>3. /\ cancelRequested \in [Steps -> BOOLEAN] /\ late \in [Steps -> BOOLEAN]
        /\ passed \in [Steps -> BOOLEAN] /\ plan \in [Steps -> SUBSET Steps]
    OBVIOUS
  <2>4. QED
    BY <2>1, <2>2, <2>3 DEF TypeOK
<1>2. DispatchedSteps = {}
  BY DEF DispatchedSteps
<1>3. CapacityKept
  BY <1>2, NoSteps DEF CapacityKept
<1>4. NothingBefore /\ StepsFollowTasks /\ CancelledByStop /\ LateAfterDeadline /\ PlanRanked
  BY DEF NothingBefore, StepsFollowTasks, CancelledByStop, LateAfterDeadline, PlanRanked
<1>5. EndedWhenSettled /\ DependenciesFirst /\ VerdictIsRight
  BY DEF EndedWhenSettled, DependenciesFirst, VerdictIsRight, Ended
<1>6. QED
  BY <1>1, <1>3, <1>4, <1>5 DEF IInv

\* Only tasks, their output and the policy change: the workflow and its plan stand.
WorkflowStands == UNCHANGED <<workflow, stopReason, maxParallel, plan, step>>

\* An open task of s takes a step of its own.
TaskMoves(s) ==
  /\ status[s] \in T!Statuses \ (T!Final \cup {"absent"})
  /\ status'[s] # "absent"
  /\ \A r \in Steps \ {s} : status'[r] = status[r] /\ passed'[r] = passed[r]
  /\ \A r \in Steps : late'[r] => late[r] \/ overdue
  /\ WorkflowStands /\ UNCHANGED <<overdue, forbidden>>

\* An approval, a start and a request to cancel are moves of one open task.
LEMMA TaskRunsMoves ==
  ASSUME TypeOK, NEW s \in Steps, TaskRuns(s)
  PROVE  TypeOK' /\ TaskMoves(s)
<1> USE DEF TaskRuns, workflowVars, outputVars, T!Move
<1>1. WorkflowStands /\ UNCHANGED <<overdue, forbidden, late, passed>>
  BY DEF WorkflowStands
<1>2. CASE T!Approve(s)
  BY <1>1, <1>2 DEF T!Approve, TypeOK, TaskMoves, T!Statuses, T!Final, WorkflowStands
<1>3. CASE T!Start(s)
  BY <1>1, <1>3 DEF T!Start, TypeOK, TaskMoves, T!Statuses, T!Final, WorkflowStands
<1>4. CASE T!RequestCancel(s)
  BY <1>1, <1>4 DEF T!RequestCancel, TypeOK, TaskMoves, T!Statuses, T!Final, WorkflowStands
<1>5. QED
  BY <1>2, <1>3, <1>4

\* The end of a task is a move of one open task.
LEMMA TaskEndsMoves ==
  ASSUME TypeOK, NEW s \in Steps, TaskEnds(s)
  PROVE  TypeOK' /\ TaskMoves(s)
<1> USE DEF TaskEnds, workflowVars
<1>1. /\ WorkflowStands /\ UNCHANGED <<overdue, forbidden>>
      /\ late' \in [Steps -> BOOLEAN] /\ passed' \in [Steps -> BOOLEAN]
      /\ \A r \in Steps \ {s} : passed'[r] = passed[r]
      /\ \A r \in Steps : late'[r] => late[r] \/ overdue
  BY DEF WorkflowStands, TypeOK
<1>2. /\ status[s] \in T!Statuses \ (T!Final \cup {"absent"})
      /\ status'[s] # "absent"
      /\ \A r \in Steps \ {s} : status'[r] = status[r]
      /\ status' \in [Steps -> T!Statuses]
      /\ attempts' = attempts /\ cancelRequested' \in [Steps -> BOOLEAN]
  <2>1. CASE T!Reject(s)
    BY <2>1 DEF T!Reject, T!Move, TypeOK, T!Statuses, T!Final
  <2>2. CASE T!CancelWaiting(s)
    BY <2>2 DEF T!CancelWaiting, T!Move, TypeOK, T!Statuses, T!Final
  <2>3. CASE T!EndRuns({s})
    <3>1. PICK outcome \in [{s} -> T!Statuses] :
            /\ outcome[s] \in T!Outcomes(s)
            /\ status' = [t \in Steps |-> IF t \in {s} THEN outcome[t] ELSE status[t]]
      BY <2>3 DEF T!EndRuns
    <3>2. outcome[s] # "absent"
      BY <3>1 DEF T!Outcomes
    <3>3. status[s] = "running" /\ UNCHANGED <<attempts, cancelRequested>>
      BY <2>3 DEF T!EndRuns
    <3>4. QED
      BY <3>1, <3>2, <3>3 DEF TypeOK, T!Statuses, T!Final
  <2>4. QED
    BY <2>1, <2>2, <2>3
<1>3. QED
  BY <1>1, <1>2 DEF TypeOK, TaskMoves, WorkflowStands

\* Only the task of a dispatched step is open.
LEMMA OpenIsDispatched ==
  ASSUME TypeOK, StepsFollowTasks, NEW s \in Steps, Active(s)
  PROVE  step[s] = "dispatched"
<1>1. QED
  BY DEF TypeOK, StepsFollowTasks, Active, TerminalSteps, T!Final

\* A task that moves touches nothing that was decided about other steps.
LEMMA TaskMovesIInv ==
  ASSUME IInv, NEW s \in Steps, TypeOK', TaskMoves(s)
  PROVE  IInv'
<1> USE DEF TaskMoves, WorkflowStands
<1>1. step[s] = "dispatched" /\ step'[s] = "dispatched"
  BY OpenIsDispatched DEF IInv, Active
<1>2. \A r \in Steps \ {s} : status'[r] = status[r] /\ passed'[r] = passed[r]
  OBVIOUS
<1>3. StepsFollowTasks'
  BY <1>1, <1>2 DEF IInv, StepsFollowTasks
<1>4. NothingBefore' /\ CancelledByStop' /\ LateAfterDeadline'
  BY <1>1, <1>2 DEF IInv, NothingBefore, CancelledByStop, LateAfterDeadline
<1>5. EndedWhenSettled' /\ CapacityKept' /\ PlanRanked'
  BY DEF IInv, EndedWhenSettled, CapacityKept, DispatchedSteps, PlanRanked, Ranked
<1>6. DependenciesFirst'
  <2> SUFFICES ASSUME NEW r \in Steps, status'[r] # "absent", NEW d \in plan[r]
               PROVE  status'[d] = "succeeded" /\ passed'[d]
    BY DEF DependenciesFirst
  <2>1. d \in Steps /\ status[r] # "absent"
    BY <1>2 DEF IInv, TypeOK
  <2>2. status[d] = "succeeded" /\ passed[d]
    BY <2>1 DEF IInv, DependenciesFirst
  <2>3. d # s
    BY <2>2 DEF T!Final
  <2>4. QED
    BY <1>2, <2>1, <2>2, <2>3
<1>7. VerdictIsRight'
  <2>1. workflow \notin Ended
    BY <1>1 DEF IInv, EndedWhenSettled, TerminalSteps
  <2>2. \A r \in Steps : step'[r] = "skipped" => \E d \in plan'[r] : step'[d] \in Failures
    BY DEF IInv, VerdictIsRight
  <2>3. QED
    BY <2>1, <2>2 DEF VerdictIsRight, Ended
<1>8. QED
  BY <1>3, <1>4, <1>5, <1>6, <1>7 DEF IInv

\* Time and policy only move on: a step that was refused stays refused.
LEMMA AroundIInv ==
  ASSUME IInv, DeadlinePasses \/ \E s \in Steps : PolicyChanges(s)
  PROVE  IInv'
<1>1. /\ WorkflowStands /\ UNCHANGED <<status, attempts, cancelRequested, late, passed>>
      /\ overdue => overdue'
      /\ forbidden \subseteq forbidden'
      /\ overdue' \in BOOLEAN /\ forbidden' \subseteq Steps
  BY DEF IInv, TypeOK, DeadlinePasses, PolicyChanges, WorkflowStands, workflowVars, taskVars,
         outputVars
<1> USE <1>1 DEF WorkflowStands
<1>2. TypeOK'
  BY DEF IInv, TypeOK
<1>3. NothingBefore' /\ CancelledByStop' /\ LateAfterDeadline'
  BY DEF IInv, NothingBefore, CancelledByStop, LateAfterDeadline
<1>4. StepsFollowTasks'
  BY DEF IInv, StepsFollowTasks
<1>5. EndedWhenSettled' /\ CapacityKept' /\ PlanRanked' /\ DependenciesFirst'
  BY DEF IInv, EndedWhenSettled, CapacityKept, DispatchedSteps, PlanRanked, Ranked,
         DependenciesFirst
<1>6. VerdictIsRight'
  BY DEF IInv, VerdictIsRight
<1>7. QED
  BY <1>2, <1>3, <1>4, <1>5, <1>6 DEF IInv

\* An accepted plan starts with nothing done and an order in which to do it.
LEMMA CreateWorkflowIInv ==
  ASSUME IInv, NEW p \in Plans, NEW capacity \in Capacities, CreateWorkflow(p, capacity)
  PROVE  IInv'
<1>1. /\ workflow = "absent" /\ workflow' = "running" /\ plan' = p /\ maxParallel' = capacity
      /\ UNCHANGED <<stopReason, step, overdue, status, attempts, cancelRequested, late, passed,
                     forbidden>>
      /\ Valid(p)
  BY DEF CreateWorkflow, taskVars, outputVars
<1>2. p \in [Steps -> SUBSET Steps] /\ capacity \in 1 .. 4 /\ NumSteps \in Nat /\ 1 \in Steps
  BY WorkflowAssumption DEF Steps
<1>3. \A s \in Steps : step[s] = "pending" /\ status[s] = "absent"
  BY <1>1 DEF IInv, NothingBefore, StepsFollowTasks
<1>4. TypeOK'
  BY <1>1, <1>2 DEF IInv, TypeOK
<1>5. Ranked(p)
  BY <1>1, <1>2, ValidPlansAreRanked
<1>6. PlanRanked'
  BY <1>1, <1>5 DEF PlanRanked, Ranked
<1>7. NothingBefore' /\ StepsFollowTasks' /\ CancelledByStop' /\ LateAfterDeadline'
  BY <1>1, <1>3 DEF IInv, NothingBefore, StepsFollowTasks, CancelledByStop, LateAfterDeadline
<1>8. EndedWhenSettled' /\ DependenciesFirst' /\ VerdictIsRight'
  BY <1>1, <1>2, <1>3 DEF EndedWhenSettled, DependenciesFirst, VerdictIsRight, Ended, TerminalSteps
<1>9. CapacityKept'
  <2>1. DispatchedSteps' = {}
    BY <1>1, <1>3 DEF DispatchedSteps
  <2>2. QED
    BY <1>1, <1>2, <2>1, NoSteps DEF CapacityKept
<1>10. QED
  BY <1>4, <1>6, <1>7, <1>8, <1>9 DEF IInv

-----------------------------------------------------------------------------
(* A pass of the reconciler.                                               *)

\* What a pass makes of a step, from the step and its task.
Seen(s) ==
  /\ Observed(s) \in {"pending", "dispatched"} \cup TerminalSteps
  /\ Observed(s) = "pending" <=> step[s] = "pending"
  /\ Observed(s) = "skipped" <=> step[s] = "skipped"
  /\ Observed(s) = "dispatched" => step[s] = "dispatched" /\ Active(s)
  /\ step[s] \in TerminalSteps => Observed(s) = step[s]
  /\ Observed(s) \in {"pending", "skipped"} => status[s] = "absent"
  /\ Observed(s) = "succeeded" => status[s] = "succeeded" /\ passed[s]
  /\ Observed(s) = "failed" =>
       status[s] \in T!Final \/ (status[s] = "absent" /\ s \in forbidden)
  /\ Observed(s) = "cancelled" =>
       /\ status[s] \in T!Final \cup {"absent"}
       /\ stopReason = "none" => status[s] \in T!Final

\* What a pass makes of a step agrees with its row and its task.
LEMMA StepsAreSeen ==
  ASSUME IInv, NEW s \in Steps
  PROVE  Seen(s)
<1> USE DEF IInv, TypeOK, StepsFollowTasks, CancelledByStop, TerminalSteps, Seen, Active
<1>1. CASE step[s] = "dispatched" /\ status[s] \in T!Final
  <2>1. Observed(s) \in {"succeeded", "cancelled", "failed"}
    BY <1>1 DEF Observed
  <2>2. Observed(s) = "succeeded" => status[s] = "succeeded" /\ passed[s]
    BY <1>1 DEF Observed
  <2>3. QED
    BY <1>1, <2>1, <2>2
<1>2. CASE ~(step[s] = "dispatched" /\ status[s] \in T!Final)
  <2>1. Observed(s) = step[s]
    BY <1>2 DEF Observed
  <2>2. step[s] \in {"pending", "dispatched"} \cup TerminalSteps
    OBVIOUS
  <2>3. QED
    BY <1>2, <2>1, <2>2 DEF T!Statuses
<1>3. QED
  BY <1>1, <1>2

\* A pass over a workflow that is under way leaves the rest of it alone.
PassStands ==
  /\ workflow \in {"running", "cancelling"}
  /\ UNCHANGED <<maxParallel, plan, overdue, attempts, passed, forbidden>>

\* What holds of a stop holds of each of its steps.
LEMMA StopSteps ==
  ASSUME IInv, Stop, NEW s \in Steps
  PROVE  /\ step'[s] = StoppedState(s)
         /\ status'[s] = IF CancelledNow(s) THEN "cancelled" ELSE status[s]
         /\ CancelledNow(s) => status[s] \in {"pending_approval", "queued"}
         /\ late'[s] => late[s] \/ overdue
<1>1. QED
  BY DEF Stop, CancelledNow

\* A stop leaves every column with a value of its type.
LEMMA StopTypeOK ==
  ASSUME IInv, Stop, PassStands, workflow' \in {"cancelling"} \cup Ended,
         stopReason' \in {"cancelled", "timed_out"}
  PROVE  TypeOK'
<1>1. \A s \in Steps : StoppedState(s) \in {"pending", "dispatched"} \cup TerminalSteps
  BY StepsAreSeen DEF StoppedState, Seen, TerminalSteps
<1>2. step' \in [Steps -> {"pending", "dispatched"} \cup TerminalSteps]
  BY <1>1 DEF Stop
<1>3. status' \in [Steps -> T!Statuses]
  BY DEF Stop, IInv, TypeOK, T!Statuses, T!Final
<1>4. cancelRequested' \in [Steps -> BOOLEAN] /\ late' \in [Steps -> BOOLEAN]
  BY DEF Stop, IInv, TypeOK
<1>5. QED
  BY <1>2, <1>3, <1>4 DEF IInv, TypeOK, PassStands

\* What a stop leaves undone is under way; the rest is settled.
LEMMA StopIInv ==
  ASSUME IInv, NEW stop \in {"cancelled", "timed_out"}, Stop, PassStands,
         stopReason' = stop, workflow' = Verdict(stop)
  PROVE  IInv'
<1> DEFINE Left == \E s \in Steps : step'[s] \notin TerminalSteps
<1>1. workflow' = IF Left THEN "cancelling" ELSE stop
  BY DEF Verdict
<1>2. workflow' \in {"cancelling", "cancelled", "timed_out"} /\ stopReason' # "none"
  BY <1>1
<1>3. workflow' \in Ended => ~Left
  BY <1>1 DEF Ended
<1> HIDE DEF Left
<1>4. TypeOK'
  BY <1>2, StopTypeOK DEF Ended
<1>5. /\ NothingBefore' /\ CancelledByStop' /\ EndedWhenSettled' /\ PlanRanked'
  BY <1>2, <1>3 DEF NothingBefore, CancelledByStop, EndedWhenSettled, Left, PlanRanked, Ranked,
                    PassStands, IInv
<1>6. StepsFollowTasks'
  <2> SUFFICES ASSUME NEW s \in Steps
               PROVE  /\ step'[s] \in {"pending", "skipped"} => status'[s] = "absent"
                      /\ step'[s] = "dispatched" => status'[s] # "absent"
                      /\ step'[s] = "succeeded" => status'[s] = "succeeded" /\ passed[s]
                      /\ step'[s] = "failed" =>
                           status'[s] \in T!Final \/ (status'[s] = "absent" /\ s \in forbidden)
                      /\ step'[s] = "cancelled" => status'[s] \in T!Final \cup {"absent"}
    BY DEF StepsFollowTasks, PassStands
  <2>1. Seen(s)
    BY StepsAreSeen
  <2>2. CASE CancelledNow(s)
    BY <2>2, StopSteps DEF StoppedState, T!Final
  <2>3. CASE ~CancelledNow(s)
    BY <2>1, <2>3, StopSteps DEF StoppedState, Seen, Active
  <2>4. QED
    BY <2>2, <2>3
<1>7. LateAfterDeadline'
  BY StopSteps DEF LateAfterDeadline, PassStands, IInv
<1>8. CapacityKept'
  <2>1. DispatchedSteps' \subseteq DispatchedSteps
    BY StopSteps, StepsAreSeen DEF DispatchedSteps, StoppedState, Seen
  <2>2. IsFiniteSet(DispatchedSteps) /\ DispatchedSteps' \in SUBSET DispatchedSteps
    BY <2>1, StepsAreFinite, FS_Subset DEF DispatchedSteps
  <2>3. /\ Cardinality(DispatchedSteps') \in Nat /\ Cardinality(DispatchedSteps) \in Nat
        /\ Cardinality(DispatchedSteps') <= Cardinality(DispatchedSteps)
    BY <2>2, FS_Subset, FS_CardinalityType
  <2>4. QED
    BY <2>3 DEF CapacityKept, PassStands, IInv, TypeOK
<1>9. DependenciesFirst'
  <2> SUFFICES ASSUME NEW s \in Steps, status'[s] # "absent", NEW d \in plan[s]
               PROVE  status'[d] = "succeeded" /\ passed[d]
    BY DEF DependenciesFirst, PassStands
  <2>1. d \in Steps /\ status[s] # "absent"
    BY StopSteps DEF IInv, TypeOK
  <2>2. status[d] = "succeeded" /\ passed[d]
    BY <2>1 DEF IInv, DependenciesFirst
  <2>3. QED
    BY <2>1, <2>2, StopSteps
<1>10. VerdictIsRight'
  <2>1. ASSUME NEW s \in Steps, step'[s] = "skipped"
        PROVE  \E d \in plan[s] : step'[d] \in Failures
    <3>1. step[s] = "skipped"
      BY <2>1, StopSteps, StepsAreSeen DEF StoppedState, Seen
    <3>2. PICK d \in plan[s] : step[d] \in Failures
      BY <3>1 DEF IInv, VerdictIsRight
    <3>3. d \in Steps /\ Observed(d) = step[d]
      BY <3>2, StepsAreSeen DEF IInv, TypeOK, Seen, Failures, TerminalSteps
    <3>4. step'[d] \in Failures
      BY <3>2, <3>3, StopSteps DEF StoppedState, Failures
    <3>5. QED
      BY <3>4
  <2>2. QED
    BY <1>2, <2>1 DEF VerdictIsRight, PassStands
<1>11. QED
  BY <1>4, <1>5, <1>6, <1>7, <1>8, <1>9, <1>10 DEF IInv

\* What can be dispatched depends on nothing that failed.
LEMMA DoomedIsNotReady ==
  ASSUME IInv, NEW s \in Steps, s \in Doomed, Observed(s) = "pending"
  PROVE  /\ ~Ready(s)
         /\ \E d \in plan[s] : d \in Doomed
         /\ \A d \in plan[s] : d \in Doomed => Observed(d) \in Failures \cup {"pending"}
<1>1. \A d \in Doomed : \/ d \in ObservedIn(Failures)
                        \/ d \in ObservedIn({"pending"}) /\ plan[d] \cap Doomed # {}
  BY DoomedSteps, WorkflowAssumption
<1>2. plan[s] \cap Doomed # {}
  BY <1>1 DEF ObservedIn, Failures
<1>3. \A d \in Doomed : Observed(d) \in Failures \cup {"pending"}
  BY <1>1 DEF ObservedIn
<1>4. ~Ready(s)
  BY <1>2, <1>3 DEF Ready, ObservedIn, Failures
<1>5. QED
  BY <1>2, <1>3, <1>4

\* What holds of each step when the workflow goes on.
LEMMA AdvanceSteps ==
  ASSUME IInv, Advance, NEW s \in Steps
  PROVE  /\ step'[s] = AdvancedState(s)
         /\ status'[s] = IF ~Dispatched(s) THEN status[s]
                         ELSE IF s \in NeedsApproval THEN "pending_approval" ELSE "queued"
         /\ Dispatched(s) => Observed(s) = "pending" /\ s \notin Doomed
         /\ Refused(s) => Observed(s) = "pending" /\ s \in forbidden
         /\ late'[s] = late[s]
<1>1. Dispatched(s) => Observed(s) = "pending" /\ s \notin Doomed
  BY DoomedIsNotReady DEF Dispatched, Ready
<1>2. QED
  BY <1>1 DEF Advance, Refused, Ready

\* Places are taken by the one, by the other, or by the last.
LEMMA OneMoreThanBoth ==
  ASSUME NEW A, NEW B, NEW x, IsFiniteSet(A), IsFiniteSet(B),
         NEW C \in SUBSET ((A \cup B) \cup {x})
  PROVE  /\ Cardinality(C) <= (Cardinality(A) + Cardinality(B)) + 1
         /\ Cardinality(C) \in Nat /\ Cardinality(A) \in Nat /\ Cardinality(B) \in Nat
<1>1. /\ IsFiniteSet(A \cap B) /\ IsFiniteSet(A \cup B)
      /\ Cardinality(A \cup B) = Cardinality(A) + Cardinality(B) - Cardinality(A \cap B)
  BY FS_Intersection, FS_Union
<1>2. /\ Cardinality(A) \in Nat /\ Cardinality(B) \in Nat
      /\ Cardinality(A \cap B) \in Nat /\ Cardinality(A \cup B) \in Nat
  BY <1>1, FS_CardinalityType
<1>3. /\ IsFiniteSet((A \cup B) \cup {x})
      /\ Cardinality((A \cup B) \cup {x}) <= Cardinality(A \cup B) + 1
      /\ Cardinality((A \cup B) \cup {x}) \in Nat
  <2>1. PICK D : D = A \cup B
    OBVIOUS
  <2>2. IsFiniteSet(D) /\ Cardinality(D) \in Nat
    BY <1>1, <1>2, <2>1
  <2>3. /\ IsFiniteSet(D \cup {x})
        /\ Cardinality(D \cup {x}) = IF x \in D THEN Cardinality(D) ELSE Cardinality(D) + 1
    BY <2>2, FS_AddElement
  <2>4. QED
    BY <2>1, <2>2, <2>3
<1>4. Cardinality(C) <= Cardinality((A \cup B) \cup {x}) /\ Cardinality(C) \in Nat
  BY <1>3, FS_Subset, FS_CardinalityType
<1>5. QED
  BY <1>1, <1>2, <1>3, <1>4

\* The tasks that are open and the steps before s that use a place leave one
\* for s: the last step that a pass dispatches fills the workflow at most.
LEMMA AdvanceKeepsCapacity ==
  ASSUME IInv, Advance, PassStands
  PROVE  CapacityKept'
<1> DEFINE Open == ObservedIn({"dispatched"})
           New == {s \in Steps : Dispatched(s)}
           Before(s) == {r \in Steps : Ready(r) /\ r \notin forbidden /\ r < s}
<1>1. DispatchedSteps' \subseteq Open \cup New
  BY AdvanceSteps DEF DispatchedSteps, AdvancedState, ObservedIn
<1>2. Open \subseteq DispatchedSteps
  BY StepsAreSeen DEF DispatchedSteps, ObservedIn, Seen
<1>3. /\ IsFiniteSet(Open) /\ IsFiniteSet(New) /\ IsFiniteSet(DispatchedSteps)
      /\ IsFiniteSet(Open \cup New) /\ IsFiniteSet(DispatchedSteps')
      /\ \A s : IsFiniteSet(Before(s))
  <2>1. \A S \in SUBSET Steps : IsFiniteSet(S)
    BY StepsAreFinite, FS_Subset
  <2>2. /\ Open \in SUBSET Steps /\ New \in SUBSET Steps /\ DispatchedSteps \in SUBSET Steps
        /\ Open \cup New \in SUBSET Steps /\ DispatchedSteps' \in SUBSET Steps
        /\ \A s : Before(s) \in SUBSET Steps
    BY DEF ObservedIn, DispatchedSteps
  <2> HIDE DEF Open, New, Before
  <2>3. QED
    BY <2>1, <2>2
<1>4. maxParallel' = maxParallel /\ maxParallel \in Nat /\ Cardinality(DispatchedSteps) <= maxParallel
  BY DEF PassStands, IInv, TypeOK, CapacityKept
<1>5. CASE New = {}
  <2>1. DispatchedSteps' \in SUBSET DispatchedSteps
    BY <1>1, <1>2, <1>5
  <2>2. /\ Cardinality(DispatchedSteps') <= Cardinality(DispatchedSteps)
        /\ Cardinality(DispatchedSteps') \in Nat /\ Cardinality(DispatchedSteps) \in Nat
    BY <1>3, <2>1, FS_Subset, FS_CardinalityType
  <2>3. QED
    BY <1>4, <2>2 DEF CapacityKept
<1>6. CASE New # {}
  <2> DEFINE Ends == {NumSteps - r : r \in New}
  <2>1. Ends \in SUBSET Nat /\ Ends # {}
    BY <1>6, WorkflowAssumption DEF Steps
  <2>2. PICK s \in New : \A r \in New : r <= s
    <3>1. PICK n \in Ends : \A m \in Ends : n <= m
      <4> HIDE DEF Ends
      <4>1. QED
        BY <2>1, LeastNumber
    <3>2. PICK s \in New : n = NumSteps - s
      BY <3>1
    <3>3. \A r \in New : NumSteps - s <= NumSteps - r
      BY <3>1, <3>2
    <3>4. \A r \in New : r \in Int /\ s \in Int
      BY WorkflowAssumption DEF Steps
    <3>5. QED
      BY <3>3, <3>4, WorkflowAssumption
  <2>3. s \in Steps /\ InReach(s)
    BY <2>2 DEF Dispatched
  <2>4. Cardinality(Open) + Cardinality(Before(s)) < maxParallel
    BY <2>3 DEF InReach
  <2>5. New \subseteq Before(s) \cup {s}
    BY <2>2 DEF Dispatched, Steps
  <2> HIDE DEF Open, New, Before
  <2>6. DispatchedSteps' \in SUBSET ((Open \cup Before(s)) \cup {s})
    BY <1>1, <2>5
  <2>7. PICK B : B = Before(s)
    OBVIOUS
  <2>8. IsFiniteSet(B) /\ DispatchedSteps' \in SUBSET ((Open \cup B) \cup {s})
    BY <1>3, <2>6, <2>7
  <2>9. /\ Cardinality(DispatchedSteps') <= (Cardinality(Open) + Cardinality(B)) + 1
        /\ Cardinality(DispatchedSteps') \in Nat
        /\ Cardinality(Open) \in Nat /\ Cardinality(B) \in Nat
    BY <1>3, <2>8, OneMoreThanBoth
  <2>10. Cardinality(DispatchedSteps') <= maxParallel
    BY <1>4, <2>4, <2>7, <2>9
  <2>11. QED
    BY <1>4, <2>10 DEF CapacityKept
<1>7. QED
  BY <1>5, <1>6

\* A pass that goes on leaves every column with a value of its type.
LEMMA AdvanceTypeOK ==
  ASSUME IInv, Advance, PassStands, workflow' \in {"running"} \cup Ended, stopReason' = "none"
  PROVE  TypeOK'
<1>1. \A s \in Steps : AdvancedState(s) \in {"pending", "dispatched"} \cup TerminalSteps
  BY StepsAreSeen DEF AdvancedState, Seen, TerminalSteps
<1>2. step' \in [Steps -> {"pending", "dispatched"} \cup TerminalSteps]
  BY <1>1 DEF Advance
<1>3. status' \in [Steps -> T!Statuses]
  BY DEF Advance, IInv, TypeOK, T!Statuses
<1>4. cancelRequested' \in [Steps -> BOOLEAN] /\ late' \in [Steps -> BOOLEAN]
  BY DEF Advance, IInv, TypeOK
<1>5. QED
  BY <1>2, <1>3, <1>4 DEF IInv, TypeOK, PassStands

\* What a pass that goes on leaves skipped depends on what failed.
LEMMA AdvanceSkips ==
  ASSUME IInv, Advance, NEW s \in Steps, step'[s] = "skipped"
  PROVE  /\ status'[s] = "absent"
         /\ \E d \in plan[s] : step'[d] \in Failures
<1>1. \A d \in plan[s] : d \in Steps
  BY DEF IInv, TypeOK
<1>2. \A d \in Steps : Observed(d) \in Failures => step'[d] \in Failures
  BY AdvanceSteps DEF AdvancedState, Failures
<1>3. CASE Observed(s) = "pending"
  <2>1. s \in Doomed
    BY <1>3, AdvanceSteps DEF AdvancedState
  <2>2. PICK d \in plan[s] : d \in Doomed /\ Observed(d) \in Failures \cup {"pending"}
    BY <1>3, <2>1, DoomedIsNotReady
  <2>3. Observed(d) = "pending" => step'[d] = "skipped"
    BY <1>1, <2>2, AdvanceSteps DEF AdvancedState
  <2>4. step'[d] \in Failures
    BY <1>1, <1>2, <2>2, <2>3 DEF Failures
  <2>5. status'[s] = "absent"
    BY <1>3, <2>1, AdvanceSteps, StepsAreSeen DEF Seen
  <2>6. QED
    BY <2>4, <2>5
<1>4. CASE Observed(s) # "pending"
  <2>1. Observed(s) = "skipped" /\ ~Dispatched(s)
    BY <1>4, AdvanceSteps DEF AdvancedState
  <2>2. step[s] = "skipped" /\ status[s] = "absent"
    BY <2>1, StepsAreSeen DEF Seen
  <2>3. PICK d \in plan[s] : step[d] \in Failures
    BY <2>2 DEF IInv, VerdictIsRight
  <2>4. Observed(d) \in Failures
    BY <1>1, <2>3, StepsAreSeen DEF Seen, Failures, TerminalSteps
  <2>5. QED
    BY <1>1, <1>2, <2>1, <2>2, <2>4, AdvanceSteps
<1>5. QED
  BY <1>3, <1>4

\* A pass that goes on keeps the invariant.
LEMMA AdvanceIInv ==
  ASSUME IInv, Advance, PassStands, stopReason = "none", stopReason' = "none",
         ~Overran, workflow' = Verdict("none")
  PROVE  IInv'
<1> DEFINE Left == \E s \in Steps : step'[s] \notin TerminalSteps
           Good == \A s \in Steps : step'[s] = "succeeded"
<1>1. workflow' = IF Left THEN "running" ELSE IF Good THEN "succeeded" ELSE "failed"
  BY DEF Verdict
<1>2. /\ workflow' \in {"running"} \cup Ended
      /\ workflow' = "running" => Left
      /\ workflow' \in Ended => ~Left
      /\ workflow' = "succeeded" => Good
      /\ workflow' = "failed" => ~Left /\ ~Good
  BY <1>1 DEF Ended
<1>3. TypeOK'
  BY <1>2, AdvanceTypeOK
<1>4. NothingBefore' /\ EndedWhenSettled' /\ PlanRanked'
  BY <1>2 DEF NothingBefore, EndedWhenSettled, PlanRanked, Ranked, PassStands, IInv, Ended
<1> HIDE DEF Left, Good
<1>5. ASSUME NEW s \in Steps
      PROVE  /\ step'[s] \in {"pending", "skipped"} => status'[s] = "absent"
             /\ step'[s] = "dispatched" => status'[s] # "absent"
             /\ step'[s] = "succeeded" => status'[s] = "succeeded" /\ passed[s] /\ ~late'[s]
             /\ step'[s] = "failed" =>
                  status'[s] \in T!Final \/ (status'[s] = "absent" /\ s \in forbidden)
             /\ step'[s] = "cancelled" => status'[s] \in T!Final
  <2>1. Seen(s)
    BY StepsAreSeen
  <2>2. CASE Dispatched(s)
    <3>1. step'[s] = "dispatched" /\ status'[s] # "absent"
      BY <2>2, AdvanceSteps DEF AdvancedState
    <3>2. QED
      BY <3>1
  <2>3. CASE ~Dispatched(s) /\ Observed(s) = "pending"
    <3>1. step'[s] \in {"skipped", "failed", "pending"} /\ status'[s] = "absent"
      BY <2>1, <2>3, AdvanceSteps DEF AdvancedState, Seen
    <3>2. step'[s] = "failed" => s \in forbidden
      BY <2>3, AdvanceSteps DEF AdvancedState
    <3>3. QED
      BY <3>1, <3>2
  <2>4. CASE Observed(s) # "pending"
    <3>1. step'[s] = Observed(s) /\ status'[s] = status[s] /\ late'[s] = late[s]
      BY <2>4, AdvanceSteps DEF AdvancedState
    <3>2. status[s] = "succeeded" => ~late[s]
      BY DEF Overran, IInv, LateAfterDeadline, T!Final
    <3>3. QED
      BY <2>1, <3>1, <3>2 DEF Seen, Active
  <2>5. QED
    BY <2>2, <2>3, <2>4
<1>6. StepsFollowTasks' /\ CancelledByStop'
  BY <1>5 DEF StepsFollowTasks, CancelledByStop, PassStands
<1>7. LateAfterDeadline'
  BY AdvanceSteps DEF LateAfterDeadline, PassStands, IInv
<1>8. CapacityKept'
  BY AdvanceKeepsCapacity
<1>9. DependenciesFirst'
  <2> SUFFICES ASSUME NEW s \in Steps, status'[s] # "absent", NEW d \in plan[s]
               PROVE  status'[d] = "succeeded" /\ passed[d]
    BY DEF DependenciesFirst, PassStands
  <2>1. d \in Steps
    BY DEF IInv, TypeOK
  <2>2. status[d] = "succeeded" /\ passed[d]
    <3>1. CASE status[s] # "absent"
      BY <3>1 DEF IInv, DependenciesFirst
    <3>2. CASE status[s] = "absent"
      <4>1. Dispatched(s)
        BY <3>2, AdvanceSteps
      <4>2. Observed(d) = "succeeded"
        BY <4>1 DEF Dispatched, Ready, ObservedIn
      <4>3. QED
        BY <2>1, <4>2, StepsAreSeen DEF Seen
    <3>3. QED
      BY <3>1, <3>2
  <2>3. ~Dispatched(d)
    BY <2>1, <2>2, AdvanceSteps, StepsAreSeen DEF Seen
  <2>4. QED
    BY <2>1, <2>2, <2>3, AdvanceSteps
<1>10. VerdictIsRight'
  <2>1. ASSUME workflow' = "succeeded", NEW s \in Steps
        PROVE  status'[s] = "succeeded" /\ passed[s] /\ ~late'[s]
    BY <1>2, <1>5, <2>1 DEF Good
  <2>2. ASSUME workflow' = "failed" PROVE \E s \in Steps : step'[s] \in Failures
    BY <1>2, <2>2 DEF Left, Good, TerminalSteps, Failures
  <2>3. ASSUME workflow' = "failed", NEW s \in Steps, step'[s] \notin {"succeeded", "skipped"}
        PROVE  status'[s] \in T!Final \/ s \in forbidden
    <3>1. step'[s] \in {"failed", "cancelled"}
      BY <1>2, <2>3 DEF Left, TerminalSteps
    <3>2. QED
      BY <1>5, <3>1
  <2>4. ASSUME NEW s \in Steps, step'[s] = "skipped"
        PROVE  \E d \in plan[s] : step'[d] \in Failures
    BY <2>4, AdvanceSkips
  <2>5. QED
    BY <2>1, <2>2, <2>3, <2>4 DEF VerdictIsRight, PassStands
<1>11. QED
  BY <1>3, <1>4, <1>6, <1>7, <1>8, <1>9, <1>10 DEF IInv

\* Every pass keeps the invariant, whoever asks for it.
LEMMA PassIInv ==
  ASSUME IInv, NEW reason \in {"none", "cancelled", "timed_out"},
         reason = "none" => stopReason = "none", Pass(reason)
  PROVE  IInv'
<1>1. /\ PassStands /\ stopReason' = StopAfter(reason) /\ workflow' = Verdict(StopAfter(reason))
      /\ StopAfter(reason) # "none" => Stop
      /\ StopAfter(reason) = "none" => Advance
  BY DEF Pass, PassStands
<1>2. StopAfter(reason) \in {"none", "cancelled", "timed_out"}
  BY DEF StopAfter
<1>3. CASE StopAfter(reason) = "none"
  <2>1. reason = "none" /\ ~Overran
    BY <1>3 DEF StopAfter
  <2>2. Advance /\ stopReason = "none" /\ stopReason' = "none" /\ workflow' = Verdict("none")
    BY <1>1, <1>3, <2>1
  <2>3. QED
    BY <1>1, <2>1, <2>2, AdvanceIInv
<1>4. CASE StopAfter(reason) # "none"
  <2>1. StopAfter(reason) \in {"cancelled", "timed_out"} /\ Stop
    BY <1>1, <1>2, <1>4
  <2>2. QED
    BY <1>1, <2>1, StopIInv
<1>5. QED
  BY <1>3, <1>4

\* Every step keeps the invariant.
LEMMA NextIInv == IInv /\ [Next]_vars => IInv'
<1> SUFFICES ASSUME IInv, [Next]_vars PROVE IInv'
  OBVIOUS
<1>1. ASSUME NEW p \in Plans, NEW capacity \in Capacities, CreateWorkflow(p, capacity) PROVE IInv'
  BY <1>1, CreateWorkflowIInv
<1>2. CASE ReconcileWorkflow \/ CancelWorkflow
  <2>1. stopReason \in {"none", "cancelled", "timed_out"}
    BY DEF IInv, TypeOK
  <2>2. PICK reason \in {"none", "cancelled", "timed_out"} :
          (reason = "none" => stopReason = "none") /\ Pass(reason)
    BY <1>2, <2>1 DEF ReconcileWorkflow, CancelWorkflow
  <2>3. QED
    BY <2>2, PassIInv
<1>3. ASSUME NEW s \in Steps, TaskRuns(s) \/ TaskEnds(s) PROVE IInv'
  BY <1>3, TaskRunsMoves, TaskEndsMoves, TaskMovesIInv DEF IInv
<1>4. CASE DeadlinePasses \/ \E s \in Steps : PolicyChanges(s)
  BY <1>4, AroundIInv
<1>5. CASE UNCHANGED vars
  <2>1. /\ WorkflowStands
        /\ UNCHANGED <<overdue, status, attempts, cancelRequested, late, passed, forbidden>>
    BY <1>5 DEF vars, workflowVars, taskVars, outputVars, WorkflowStands
  <2> USE <2>1 DEF WorkflowStands
  <2>2. TypeOK' /\ NothingBefore' /\ StepsFollowTasks' /\ CancelledByStop' /\ LateAfterDeadline'
    BY DEF IInv, TypeOK, NothingBefore, StepsFollowTasks, CancelledByStop, LateAfterDeadline
  <2>3. EndedWhenSettled' /\ PlanRanked' /\ CapacityKept' /\ DependenciesFirst' /\ VerdictIsRight'
    BY DEF IInv, EndedWhenSettled, PlanRanked, Ranked, CapacityKept, DispatchedSteps,
           DependenciesFirst, VerdictIsRight
  <2>4. QED
    BY <2>2, <2>3 DEF IInv
<1>6. QED
  BY <1>1, <1>2, <1>3, <1>4, <1>5 DEF Next

-----------------------------------------------------------------------------
(* The theorems.                                                           *)

\* The invariant of workflow_store.py holds in every reachable state: steps
\* agree with their tasks, stops and deadlines are remembered, and a workflow is
\* over exactly when its steps are settled.
THEOREM WorkflowInvariant == Spec => []IInv
<1>1. QED
  BY InitIInv, NextIInv, PTL DEF Spec

\* Every column holds a value of its type (schema: agent_workflows,
\* workflow_steps, agent_tasks).
THEOREM WorkflowTypeCorrect == Spec => []TypeOK
<1>1. IInv => TypeOK
  BY DEF IInv
<1>2. QED
  BY <1>1, WorkflowInvariant, PTL

\* _reconcile_one creates a task only after the tasks that its step depends on
\* succeeded with an output that passed the step's check.
THEOREM DependenciesComeFirst == Spec => []DependenciesFirst
<1>1. IInv => DependenciesFirst
  BY DEF IInv
<1>2. QED
  BY <1>1, WorkflowInvariant, PTL

\* However passes, stops and late cancellations follow one another, no more
\* tasks of a workflow are open than max_parallel allows.
THEOREM CapacityIsKept == Spec => []WithinCapacity
<1>1. IInv => WithinCapacity
  <2> SUFFICES ASSUME IInv PROVE WithinCapacity
    OBVIOUS
  <2>1. {s \in Steps : Active(s)} \in SUBSET DispatchedSteps
    BY OpenIsDispatched DEF IInv, DispatchedSteps
  <2>2. IsFiniteSet(DispatchedSteps)
    BY StepsAreFinite, FS_Subset DEF DispatchedSteps
  <2>3. /\ Cardinality({s \in Steps : Active(s)}) <= Cardinality(DispatchedSteps)
        /\ Cardinality({s \in Steps : Active(s)}) \in Nat /\ Cardinality(DispatchedSteps) \in Nat
    BY <2>1, <2>2, FS_Subset, FS_CardinalityType
  <2>4. maxParallel \in Nat /\ Cardinality(DispatchedSteps) <= maxParallel
    BY DEF IInv, TypeOK, CapacityKept
  <2>5. QED
    BY <2>3, <2>4 DEF WithinCapacity
<1>2. QED
  BY <1>1, WorkflowInvariant, PTL

\* A workflow that _workflow_outcome reports as over has no task left that
\* waits for a person or runs.
THEOREM OverMeansQuiet == Spec => []FinishedIsQuiet
<1>1. IInv => FinishedIsQuiet
  BY OpenIsDispatched DEF IInv, FinishedIsQuiet, EndedWhenSettled, TerminalSteps
<1>2. QED
  BY <1>1, WorkflowInvariant, PTL

\* The status a workflow ends with is what its tasks came to, and a failure
\* skips its own branch only.
THEOREM VerdictsAreRight == Spec => []VerdictIsRight
<1>1. IInv => VerdictIsRight
  BY DEF IInv
<1>2. QED
  BY <1>1, WorkflowInvariant, PTL

\* validate_plan accepts no circle: of the steps that are not settled, one that
\* it resolved first waits for nothing but its own task.
THEOREM PlansAreNeverStuck == Spec => []NeverStuck
<1>1. ASSUME IInv, workflow = "running"
      PROVE  \E s \in Steps :
               \/ step[s] = "dispatched"
               \/ step[s] = "pending" /\ \A d \in plan[s] : step[d] \in TerminalSteps
  <2>1. PICK rank \in [Steps -> 0 .. NumSteps] : \A s \in Steps : \A d \in plan[s] : rank[d] < rank[s]
    BY <1>1 DEF IInv, PlanRanked, Ranked
  <2> DEFINE Left == {s \in Steps : step[s] \notin TerminalSteps}
             Ranks == {rank[s] : s \in Left}
  <2>2. Left # {}
    BY <1>1 DEF IInv, EndedWhenSettled
  <2>3. Ranks \in SUBSET Nat /\ Ranks # {}
    BY <2>1, <2>2, WorkflowAssumption
  <2>4. PICK n \in Ranks : \A m \in Ranks : n <= m
    <3> HIDE DEF Ranks
    <3>1. QED
      BY <2>3, LeastNumber
  <2>5. PICK s \in Left : n = rank[s]
    BY <2>4
  <2>6. ASSUME NEW d \in plan[s] PROVE step[d] \in TerminalSteps
    <3>1. d \in Steps /\ rank[d] < rank[s]
      BY <1>1, <2>1 DEF IInv, TypeOK
    <3>2. d \in Left => rank[s] <= rank[d]
      BY <2>4, <2>5
    <3>3. rank[d] \in Nat /\ rank[s] \in Nat
      BY <2>1, <3>1, WorkflowAssumption
    <3>4. d \notin Left
      BY <3>1, <3>2, <3>3
    <3>5. QED
      BY <3>1, <3>4
  <2>7. step[s] \in {"pending", "dispatched"}
    BY <1>1 DEF IInv, TypeOK
  <2>8. QED
    BY <2>6, <2>7
<1>2. IInv => NeverStuck
  BY <1>1 DEF NeverStuck
<1>3. QED
  BY <1>2, WorkflowInvariant, PTL
=============================================================================
