----------------------------- MODULE MailProofs -----------------------------
(***************************************************************************)
(* Proofs about mail that leaves and mail that arrives: EmailPacing, for   *)
(* any number of emails, any settings that are deployed in any order, and  *)
(* any windows; MailSync, for every mailbox, page size, number of          *)
(* executions and every budget of one execution.                           *)
(***************************************************************************)
EXTENDS MailSync, EmailPacing, WellFoundedInduction, FiniteSetTheorems, TLAPS

-----------------------------------------------------------------------------
(* Natural numbers: the least, induction, and what a recursion iterates,   *)
(* stated over sets and functions instead of operators.                    *)

\* A set of numbers that is not empty has a least one.
LEMMA LeastNumber ==
  ASSUME NEW T \in SUBSET Nat, T # {}
  PROVE  \E n \in T : \A m \in T : n <= m
<1>1. PICK x \in T : \A y \in T : ~(<<y, x>> \in OpToRel(<, Nat))
  BY NatLessThanWellFounded, WFMin
<1>2. \A y \in T : ~(y < x)
  BY <1>1 DEF OpToRel
<1>3. QED
  BY <1>2

\* Induction: a set with 0 that is closed under successors has every number.
LEMMA SetInduction ==
  ASSUME NEW S, 0 \in S, \A n \in Nat : n \in S => n + 1 \in S
  PROVE  \A n \in Nat : n \in S
<1> DEFINE T == {n \in Nat : n \notin S}
<1>1. SUFFICES ASSUME T # {} PROVE FALSE
  OBVIOUS
<1>2. PICK n \in T : \A m \in T : n <= m
  BY <1>1, LeastNumber
<1>3. n # 0 /\ n - 1 \in Nat /\ n - 1 \notin T
  BY <1>2
<1>4. QED
  BY <1>2, <1>3

\* g is what becomes of x0 in up to n applications of F.
Iterates(X, x0, F, n, g) ==
  g \in [0 .. n -> X] /\ g[0] = x0 /\ \A i \in 0 .. n - 1 : g[i + 1] = F[g[i]]

\* Longer iterations go on where shorter ones end.
LEMMA IteratesAgree ==
  ASSUME NEW X, NEW x0, NEW F, NEW n \in Nat, NEW g, NEW h,
         Iterates(X, x0, F, n, g), Iterates(X, x0, F, n + 1, h)
  PROVE  g[n] = h[n]
<1> DEFINE U == {i \in Nat : i <= n => g[i] = h[i]}
<1>1. 0 \in U
  BY DEF Iterates
<1>2. ASSUME NEW i \in Nat, i \in U PROVE i + 1 \in U
  <2> SUFFICES ASSUME i + 1 <= n PROVE g[i + 1] = h[i + 1]
    OBVIOUS
  <2>1. g[i] = h[i] /\ i \in 0 .. n - 1 /\ i \in 0 .. (n + 1) - 1
    BY <1>2
  <2>2. QED
    BY <2>1 DEF Iterates
<1>3. \A i \in Nat : i \in U
  <2> HIDE DEF U
  <2>1. QED
    BY <1>1, <1>2, SetInduction
<1>4. QED
  BY <1>3

\* There is an iteration of every length.
LEMMA IteratesExist ==
  ASSUME NEW X, NEW x0 \in X, NEW F \in [X -> X]
  PROVE  \A n \in Nat : \E g : Iterates(X, x0, F, n, g)
<1> DEFINE S == {n \in Nat : \E g : Iterates(X, x0, F, n, g)}
<1>1. 0 \in S
  <2>1. Iterates(X, x0, F, 0, [i \in 0 .. 0 |-> x0])
    BY DEF Iterates
  <2>2. QED
    BY <2>1
<1>2. ASSUME NEW n \in Nat, n \in S PROVE n + 1 \in S
  <2>1. PICK g : Iterates(X, x0, F, n, g)
    BY <1>2
  <2> DEFINE h == [i \in 0 .. n + 1 |-> IF i = n + 1 THEN F[g[n]] ELSE g[i]]
  <2>2. h \in [0 .. n + 1 -> X] /\ h[0] = x0
    BY <2>1 DEF Iterates
  <2>3. ASSUME NEW i \in 0 .. (n + 1) - 1 PROVE h[i + 1] = F[h[i]]
    BY <2>1, <2>3 DEF Iterates
  <2>4. Iterates(X, x0, F, n + 1, h)
    BY <2>2, <2>3 DEF Iterates
  <2>5. \E k : Iterates(X, x0, F, n + 1, k)
    BY <2>4
  <2>6. QED
    BY <2>5
<1>3. \A n \in Nat : n \in S
  <2> HIDE DEF S
  <2>1. QED
    BY <1>1, <1>2, SetInduction
<1>4. QED
  BY <1>3

\* f tells what becomes of x0 in any number of applications of F.
Iteration(X, x0, F, f) ==
  f \in [Nat -> X] /\ f[0] = x0 /\ \A n \in Nat : f[n + 1] = F[f[n]]

\* What is done to a thing again and again is a function of how often.
LEMMA IterationExists ==
  ASSUME NEW X, NEW x0 \in X, NEW F \in [X -> X]
  PROVE  \E f : Iteration(X, x0, F, f)
<1> DEFINE G == [n \in Nat |-> CHOOSE g : Iterates(X, x0, F, n, g)]
           f == [n \in Nat |-> G[n][n]]
<1>1. \A n \in Nat : Iterates(X, x0, F, n, G[n])
  BY IteratesExist
<1>2. \A n \in Nat : f[n] = G[n][n]
  OBVIOUS
<1> HIDE DEF G
<1>3. f \in [Nat -> X] /\ f[0] = x0
  BY <1>1 DEF Iterates
<1>4. ASSUME NEW n \in Nat PROVE f[n + 1] = F[f[n]]
  <2>1. G[n][n] = G[n + 1][n]
    BY <1>1, IteratesAgree
  <2>2. n \in 0 .. (n + 1) - 1 /\ n + 1 \in Nat
    OBVIOUS
  <2>3. G[n + 1][n + 1] = F[G[n + 1][n]]
    BY <1>1, <2>2 DEF Iterates
  <2>4. QED
    BY <1>2, <2>1, <2>2, <2>3
<1>5. Iteration(X, x0, F, f)
  BY <1>3, <1>4 DEF Iteration
<1>6. QED
  BY <1>5

IndexedIteration(X, x0, F, f) ==
  f \in [Nat -> X] /\ f[0] = x0 /\ \A n \in Nat : f[n + 1] = F[<<n, f[n]>>]

\* The same for what is done to a thing depending on how often it was done.
LEMMA IndexedIterationExists ==
  ASSUME NEW X, NEW x0 \in X, NEW F \in [Nat \X X -> X]
  PROVE  \E f : IndexedIteration(X, x0, F, f)
<1>1. PICK Y : Y = Nat \X X
  OBVIOUS
<1>2. PICK G : G = [y \in Y |-> <<y[1] + 1, F[y]>>]
  OBVIOUS
<1>3. G \in [Y -> Y]
  <2>1. \A y \in Y : y[1] + 1 \in Nat /\ F[y] \in X
    BY <1>1
  <2>2. \A y \in Y : <<y[1] + 1, F[y]>> \in Y
    BY <1>1, <2>1
  <2>3. QED
    BY <1>2, <2>2
<1>4. PICK y0 : y0 = <<0, x0>>
  OBVIOUS
<1>5. PICK g \in [Nat -> Y] : g[0] = y0 /\ \A n \in Nat : g[n + 1] = G[g[n]]
  <2>1. y0 \in Y
    BY <1>1, <1>4
  <2>2. PICK g : Iteration(Y, y0, G, g)
    BY <1>3, <2>1, IterationExists
  <2>3. QED
    BY <2>2 DEF Iteration
<1>6. \A n \in Nat : g[n][1] \in Nat /\ g[n][2] \in X
  BY <1>1
<1>7. ASSUME NEW n \in Nat PROVE g[n + 1][1] = g[n][1] + 1 /\ g[n + 1][2] = F[<<g[n][1], g[n][2]>>]
  <2>1. g[n] \in Y /\ g[n] = <<g[n][1], g[n][2]>> /\ g[n + 1] = G[g[n]]
    BY <1>1, <1>5, SMTT(30)
  <2>2. g[n + 1] = <<g[n][1] + 1, F[g[n]]>>
    BY <1>2, <2>1
  <2>3. QED
    BY <2>1, <2>2
<1> DEFINE S == {n \in Nat : g[n][1] = n}
<1>8. 0 \in S
  BY <1>4, <1>5
<1>9. ASSUME NEW n \in Nat, n \in S PROVE n + 1 \in S
  <2>1. g[n][1] = n /\ n + 1 \in Nat
    BY <1>9
  <2>2. g[n + 1][1] = n + 1
    BY <1>7, <2>1
  <2>3. QED
    BY <2>1, <2>2
<1>10. \A n \in Nat : n \in S
  <2> HIDE DEF S
  <2>1. QED
    BY <1>8, <1>9, SetInduction
<1>11. \A n \in Nat : g[n][1] = n
  BY <1>10
<1> DEFINE f == [n \in Nat |-> g[n][2]]
<1>12. f \in [Nat -> X] /\ f[0] = x0
  BY <1>4, <1>5, <1>6
<1>13. ASSUME NEW n \in Nat PROVE f[n + 1] = F[<<n, f[n]>>]
  BY <1>7, <1>11
<1>14. IndexedIteration(X, x0, F, f)
  BY <1>12, <1>13 DEF IndexedIteration
<1>15. QED
  BY <1>14

\* Numbers with a bound have a greatest one.
LEMMA GreatestNumber ==
  ASSUME NEW T \in SUBSET Nat, T # {}, NEW b \in Nat, \A n \in T : n <= b
  PROVE  \E n \in T : \A m \in T : m <= n
<1>1. PICK U : U = {u \in Nat : b - u \in T}
  OBVIOUS
<1>2. U \in SUBSET Nat /\ U # {}
  <2>1. PICK n : n \in T
    OBVIOUS
  <2>2. b - n \in Nat /\ b - (b - n) = n
    BY <2>1
  <2>3. QED
    BY <1>1, <2>1, <2>2
<1>3. PICK u \in U : \A v \in U : u <= v
  BY <1>2, LeastNumber
<1>4. PICK n \in T : u = b - n
  BY <1>1, <1>2, <1>3
<1>5. ASSUME NEW m \in T PROVE m <= n
  <2>1. b - n <= b - m
    <3>1. b - m \in Nat /\ b - (b - m) = m
      OBVIOUS
    <3>2. b - m \in U
      BY <1>1, <3>1
    <3>3. QED
      BY <1>3, <1>4, <3>2
  <2>2. m \in Nat /\ n \in Nat
    OBVIOUS
  <2>3. QED
    BY <2>1, <2>2
<1>6. QED
  BY <1>5

\* f goes on with G until it comes to a number where it may stop.
Search(Stops, G, f) ==
  \A c \in Nat : f[c] = IF c \in Stops THEN c ELSE f[G[c]]

\* A search that only goes up, and may stop anywhere from b on, is a function.
LEMMA SearchExists ==
  ASSUME NEW Stops \in SUBSET Nat, NEW G \in [Nat -> Nat], NEW b \in Nat,
         \A c \in Nat : c >= b => c \in Stops, \A c \in Nat \ Stops : G[c] > c
  PROVE  \E f \in [Nat -> Nat] : Search(Stops, G, f)
<1> DEFINE X == [Nat -> Nat]
           Round == [f \in X |-> [c \in Nat |-> IF c \in Stops THEN c ELSE f[G[c]]]]
           id == [c \in Nat |-> c]
<1>1. id \in X /\ Round \in [X -> X]
  <2>1. \A f \in X : [c \in Nat |-> IF c \in Stops THEN c ELSE f[G[c]]] \in X
    OBVIOUS
  <2>2. id \in X
    OBVIOUS
  <2> HIDE DEF X
  <2>3. QED
    BY <2>1, <2>2
<1>2. \A f \in X : \A c \in Nat : Round[f][c] = IF c \in Stops THEN c ELSE f[G[c]]
  OBVIOUS
<1>3. \A c \in Nat : id[c] = c
  OBVIOUS
<1> HIDE DEF Round, id
<1>4. PICK h : Iteration(X, id, Round, h)
  BY <1>1, IterationExists
<1>5. /\ h \in [Nat -> X] /\ h[0] = id /\ \A n \in Nat : h[n + 1] = Round[h[n]]
  BY <1>4 DEF Iteration
<1> DEFINE S == {n \in Nat : \A c \in Nat : c + n >= b => Round[h[n]][c] = h[n][c]}
<1>6. 0 \in S
  <2> SUFFICES ASSUME NEW c \in Nat, c + 0 >= b PROVE Round[h[0]][c] = h[0][c]
    OBVIOUS
  <2>1. c \in Stops
    OBVIOUS
  <2>2. Round[id][c] = c /\ id[c] = c
    BY <1>1, <1>2, <1>3, <2>1
  <2>3. QED
    BY <1>5, <2>2
<1>7. ASSUME NEW n \in Nat, n \in S PROVE n + 1 \in S
  <2> SUFFICES ASSUME NEW c \in Nat, c + (n + 1) >= b
               PROVE  Round[h[n + 1]][c] = h[n + 1][c]
    OBVIOUS
  <2>1. h[n] \in X /\ h[n + 1] \in X /\ h[n + 1] = Round[h[n]]
    <3>1. n + 1 \in Nat
      OBVIOUS
    <3> HIDE DEF X
    <3>2. QED
      BY <1>5, <3>1
  <2>2. CASE c \in Stops
    <3>1. Round[h[n + 1]][c] = c /\ Round[h[n]][c] = c
      BY <1>2, <2>1, <2>2
    <3>2. QED
      BY <2>1, <3>1
  <2>3. CASE c \notin Stops
    <3>1. G[c] \in Nat /\ G[c] > c /\ G[c] + n >= b
      BY <2>3
    <3>2. Round[h[n + 1]][c] = h[n + 1][G[c]] /\ Round[h[n]][c] = h[n][G[c]]
      BY <1>2, <2>1, <2>3
    <3>3. Round[h[n]][G[c]] = h[n][G[c]]
      BY <1>7, <3>1
    <3>4. QED
      BY <2>1, <3>2, <3>3
  <2>4. QED
    BY <2>2, <2>3
<1>8. \A n \in Nat : n \in S
  <2> HIDE DEF S
  <2>1. QED
    BY <1>6, <1>7, SetInduction
<1>9. \A c \in Nat : Round[h[b]][c] = h[b][c]
  <2>1. b \in S /\ \A c \in Nat : c + b >= b
    BY <1>8
  <2>2. QED
    BY <2>1
<1>10. h[b] \in X /\ Search(Stops, G, h[b])
  BY <1>2, <1>5, <1>9 DEF Search
<1>11. QED
  BY <1>10

\* It finds a number where it may stop, no lower than where it began.
LEMMA SearchFinds ==
  ASSUME NEW Stops \in SUBSET Nat, NEW G \in [Nat -> Nat], NEW b \in Nat,
         \A c \in Nat : c >= b => c \in Stops, \A c \in Nat \ Stops : G[c] > c,
         NEW f, Search(Stops, G, f), NEW t \in Nat
  PROVE  f[t] \in Stops /\ f[t] >= t
<1> DEFINE S == {n \in Nat : \A c \in Nat : c + n >= b => f[c] \in Stops /\ f[c] >= c}
<1>1. 0 \in S
  BY DEF Search
<1>2. ASSUME NEW n \in Nat, n \in S PROVE n + 1 \in S
  <2> SUFFICES ASSUME NEW c \in Nat, c + (n + 1) >= b PROVE f[c] \in Stops /\ f[c] >= c
    OBVIOUS
  <2>1. CASE c \in Stops
    BY <2>1 DEF Search
  <2>2. CASE c \notin Stops
    <3>1. G[c] \in Nat /\ G[c] > c /\ G[c] + n >= b
      BY <2>2
    <3>2. f[G[c]] \in Stops /\ f[G[c]] \in Nat /\ f[G[c]] >= G[c]
      BY <1>2, <3>1
    <3>3. f[c] = f[G[c]]
      BY <2>2 DEF Search
    <3>4. QED
      BY <3>1, <3>2, <3>3
  <2>3. QED
    BY <2>1, <2>2
<1>3. \A n \in Nat : n \in S
  <2> HIDE DEF S
  <2>1. QED
    BY <1>1, <1>2, SetInduction
<1>4. b \in S /\ t + b >= b
  BY <1>3
<1>5. QED
  BY <1>4

\* The values of a function on a finite set have a bound.
LEMMA FiniteValuesBounded ==
  ASSUME NEW X, IsFiniteSet(X), NEW g \in [X -> Nat]
  PROVE  \E b \in Nat : \A x \in X : g[x] <= b
<1> DEFINE Bounded(Y) == \E b \in Nat : \A x \in Y : g[x] <= b
           S == {n \in Nat : \A Y \in SUBSET X : Cardinality(Y) = n => Bounded(Y)}
<1>1. 0 \in S
  <2> SUFFICES ASSUME NEW Y \in SUBSET X, Cardinality(Y) = 0 PROVE Bounded(Y)
    OBVIOUS
  <2>1. Y = {}
    BY FS_Subset, FS_EmptySet
  <2>2. 0 \in Nat /\ \A x \in Y : g[x] <= 0
    BY <2>1
  <2>3. QED
    BY <2>2
<1>2. ASSUME NEW n \in Nat, n \in S PROVE n + 1 \in S
  <2> SUFFICES ASSUME NEW Y \in SUBSET X, Cardinality(Y) = n + 1 PROVE Bounded(Y)
    OBVIOUS
  <2>1. IsFiniteSet(Y)
    BY FS_Subset
  <2>2. PICK y \in Y : TRUE
    <3>1. Y # {}
      BY FS_EmptySet
    <3>2. QED
      BY <3>1
  <2>3. Cardinality(Y \ {y}) = n
    <3>1. Cardinality(Y \ {y}) = Cardinality(Y) - 1
      BY <2>1, <2>2, FS_RemoveElement
    <3>2. QED
      BY <3>1
  <2>4. PICK b \in Nat : \A x \in Y \ {y} : g[x] <= b
    BY <1>2, <2>3
  <2>5. PICK d \in Nat : d >= b /\ d >= g[y]
    <3>1. g[y] \in Nat
      BY <2>2
    <3>2. b + g[y] \in Nat /\ b + g[y] >= b /\ b + g[y] >= g[y]
      BY <3>1
    <3>3. QED
      BY <3>2
  <2>6. \A x \in Y : g[x] <= d
    BY <2>4, <2>5
  <2>7. QED
    BY <2>6
<1>3. \A n \in Nat : n \in S
  <2> HIDE DEF S
  <2>1. QED
    BY <1>1, <1>2, SetInduction
<1>4. Cardinality(X) \in Nat
  BY FS_CardinalityType
<1>5. QED
  BY <1>3, <1>4

-----------------------------------------------------------------------------
(* EmailPacing: times and windows.                                         *)

\* The latest and the earliest of a set of times.
LEMMA MaxIsGreatest ==
  ASSUME NEW S \in SUBSET Nat, S # {}, NEW b \in Nat, \A x \in S : x <= b
  PROVE  Max(S) \in S /\ \A x \in S : x <= Max(S)
<1>1. PICK m \in S : \A x \in S : x <= m
  BY GreatestNumber
<1>2. m \in S /\ \A x \in S : m >= x
  BY <1>1
<1>3. QED
  BY <1>2 DEF Max

LEMMA MinIsLeast ==
  ASSUME NEW S \in SUBSET Nat, S # {}
  PROVE  Min(S) \in S /\ \A x \in S : Min(S) <= x
<1>1. PICK m \in S : \A x \in S : m <= x
  BY LeastNumber
<1>2. QED
  BY <1>1 DEF Min

\* The moment a row stands for is one of its times, and behind none of them.
LEMMA BoundaryIs ==
  ASSUME PacingTypeOK, NEW f \in Emails
  PROVE  /\ Boundary(f) \in Nat
         /\ state[f] = "sending" => Boundary(f) = now
         /\ state[f] # "sending" => /\ slot[f] <= Boundary(f) /\ started[f] <= Boundary(f)
                                    /\ ended[f] <= Boundary(f)
                                    /\ Boundary(f) \in {slot[f], started[f], ended[f]}
<1> DEFINE S == {slot[f], started[f], ended[f]}
<1>1. now \in Nat /\ slot[f] \in Nat /\ started[f] \in Nat /\ ended[f] \in Nat
  BY DEF PacingTypeOK
<1>2. CASE state[f] = "sending"
  BY <1>1, <1>2 DEF Boundary
<1>3. CASE state[f] # "sending"
  <2>1. PICK b \in Nat : b = slot[f] + started[f] + ended[f]
    BY <1>1
  <2>2. S \in SUBSET Nat /\ S # {} /\ \A x \in S : x <= b
    BY <1>1, <2>1
  <2>3. Max(S) \in S /\ \A x \in S : x <= Max(S)
    <3> HIDE DEF S
    <3>1. QED
      BY <2>2, MaxIsGreatest
  <2>4. Boundary(f) = Max(S)
    BY <1>3 DEF Boundary
  <2>5. QED
    BY <1>1, <1>3, <2>3, <2>4
<1>4. QED
  BY <1>2, <1>3

\* All of them have a bound.
LEMMA BoundariesBounded ==
  ASSUME PacingTypeOK
  PROVE  \E b \in Nat : \A f \in Emails : Boundary(f) <= b
<1> DEFINE g == [f \in Emails |-> Boundary(f)]
<1>1. g \in [Emails -> Nat]
  BY BoundaryIs
<1>2. \A f \in Emails : g[f] = Boundary(f)
  OBVIOUS
<1> HIDE DEF g
<1>3. PICK b \in Nat : \A f \in Emails : g[f] <= b
  BY <1>1, PacingAssumption, FiniteValuesBounded
<1>4. QED
  BY <1>2, <1>3

-----------------------------------------------------------------------------
(* EmailPacing: what the search for a time finds.                          *)

LEMMA InsideFinite ==
  ASSUME NEW S \in SUBSET Emails, NEW t, NEW window
  PROVE  /\ IsFiniteSet(Inside(S, t, window)) /\ Inside(S, t, window) \subseteq S
         /\ Cardinality(Inside(S, t, window)) \in Nat
<1>1. Inside(S, t, window) \in SUBSET Emails /\ Inside(S, t, window) \subseteq S
  BY DEF Inside
<1>2. IsFiniteSet(Inside(S, t, window))
  BY <1>1, PacingAssumption, FS_Subset
<1>3. QED
  BY <1>1, <1>2, FS_CardinalityType

\* From the moment every window has passed there is room.
LEMMA InsideEnds ==
  ASSUME PacingTypeOK, NEW S \in SUBSET Emails, NEW b \in Nat, \A f \in Emails : Boundary(f) <= b,
         NEW window \in Nat \ {0}, NEW t \in Nat, t >= b + window
  PROVE  Cardinality(Inside(S, t, window)) = 0
<1>1. Inside(S, t, window) = {}
  <2> SUFFICES ASSUME NEW f \in Inside(S, t, window) PROVE FALSE
    OBVIOUS
  <2>1. f \in Emails /\ t < Boundary(f) + window
    BY DEF Inside
  <2>2. Boundary(f) \in Nat /\ Boundary(f) <= b
    BY <2>1, BoundaryIs
  <2>3. QED
    BY <2>1, <2>2
<1>2. QED
  BY <1>1, FS_EmptySet

\* The rolling limit is respected at the time found, which is the time asked
\* about if the limit is respected then (_respect_rolling_limit).
LEMMA LimitRespected ==
  ASSUME PacingTypeOK, NEW S \in SUBSET Emails, NEW t \in Nat, NEW window \in Nat \ {0},
         NEW limit \in Nat \ {0}
  PROVE  LET found == RespectLimit(S, t, window, limit)
         IN  /\ found \in Nat /\ found >= t /\ Cardinality(Inside(S, found, window)) < limit
             /\ Cardinality(Inside(S, t, window)) < limit => found = t
<1> DEFINE Start[c \in Nat] ==
             IF Cardinality(Inside(S, c, window)) < limit THEN c
             ELSE Start[Min({Boundary(f) : f \in Inside(S, c, window)}) + window]
           Stops == {c \in Nat : Cardinality(Inside(S, c, window)) < limit}
           G == [c \in Nat |-> IF c \in Stops THEN c
                               ELSE Min({Boundary(f) : f \in Inside(S, c, window)}) + window]
<1>1. RespectLimit(S, t, window, limit) = Start[t]
  BY Zenon DEF RespectLimit
<1>2. PICK b0 \in Nat : \A f \in Emails : Boundary(f) <= b0
  BY BoundariesBounded
<1>3. PICK b \in Nat : b = b0 + window
  OBVIOUS
<1>4. ASSUME NEW c \in Nat, c >= b PROVE c \in Stops
  <2>1. Cardinality(Inside(S, c, window)) = 0
    BY <1>2, <1>3, <1>4, InsideEnds
  <2>2. QED
    BY <2>1
<1>5. ASSUME NEW c \in Nat \ Stops
      PROVE  /\ Min({Boundary(f) : f \in Inside(S, c, window)}) \in Nat
             /\ Min({Boundary(f) : f \in Inside(S, c, window)}) + window > c
  <2>1. /\ IsFiniteSet(Inside(S, c, window)) /\ Inside(S, c, window) \subseteq S
        /\ Cardinality(Inside(S, c, window)) \in Nat
    BY InsideFinite
  <2>2. Inside(S, c, window) # {}
    BY <2>1, FS_EmptySet
  <2>3. PICK B : B = {Boundary(f) : f \in Inside(S, c, window)}
    OBVIOUS
  <2>4. B \in SUBSET Nat /\ B # {}
    BY <2>1, <2>2, <2>3, BoundaryIs
  <2>5. Min(B) \in B
    BY <2>4, MinIsLeast
  <2>6. PICK f \in Inside(S, c, window) : Min(B) = Boundary(f)
    BY <2>3, <2>5
  <2>7. c < Boundary(f) + window
    BY DEF Inside
  <2>8. QED
    BY <2>3, <2>4, <2>5, <2>6, <2>7
<1>6. Stops \in SUBSET Nat /\ G \in [Nat -> Nat] /\ \A c \in Nat \ Stops : G[c] > c
  <2>1. \A c \in Nat : (IF c \in Stops THEN c
           ELSE Min({Boundary(f) : f \in Inside(S, c, window)}) + window) \in Nat
    BY <1>5
  <2>2. QED
    BY <1>5, <2>1
<1>7. \A c \in Nat : c \in Stops <=> Cardinality(Inside(S, c, window)) < limit
  OBVIOUS
<1>8. \A c \in Nat \ Stops : G[c] = Min({Boundary(f) : f \in Inside(S, c, window)}) + window
  OBVIOUS
<1>9. PICK F \in [Nat -> Nat] : Search(Stops, G, F)
  <2> HIDE DEF Stops, G
  <2>1. QED
    BY <1>4, <1>6, SearchExists
<1>10. \A c \in Nat : F[c] = IF Cardinality(Inside(S, c, window)) < limit THEN c
                       ELSE F[Min({Boundary(f) : f \in Inside(S, c, window)}) + window]
  <2> HIDE DEF Stops, G
  <2>1. QED
    BY <1>7, <1>8, <1>9 DEF Search
<1>11. F = [c \in Nat |-> IF Cardinality(Inside(S, c, window)) < limit THEN c
                   ELSE F[Min({Boundary(f) : f \in Inside(S, c, window)}) + window]]
  BY <1>10
<1>12. Start = [c \in Nat |-> IF Cardinality(Inside(S, c, window)) < limit THEN c
                   ELSE Start[Min({Boundary(f) : f \in Inside(S, c, window)}) + window]]
  BY <1>11, Zenon
<1> HIDE DEF Start
<1>13. \A c \in Nat : Start[c] = IF Cardinality(Inside(S, c, window)) < limit THEN c
                       ELSE Start[Min({Boundary(f) : f \in Inside(S, c, window)}) + window]
  BY <1>12
<1> HIDE DEF Stops, G
<1>14. Search(Stops, G, Start)
  BY <1>7, <1>8, <1>13 DEF Search
<1>15. Start[t] \in Stops /\ Start[t] >= t
  BY <1>4, <1>6, <1>14, SearchFinds
<1>16. t \in Stops => Start[t] = t
  BY <1>14 DEF Search
<1>17. QED
  BY <1>1, <1>6, <1>7, <1>15, <1>16

\* A time keeps its distance from the sends of S, and is within the limits.
Spaced(e, S, p, t) ==
  \A f \in S : /\ Boundary(f) + p.gap <= t
               /\ RecipientDomain[f] = RecipientDomain[e] => Boundary(f) + p.domainGap <= t
Roomy(S, p, t) ==
  /\ Cardinality(Inside(S, t, Hour)) < p.hourly
  /\ Cardinality(Inside(S, t, Day)) < p.daily

\* One round for both limits: it stays exactly where both are respected.
Round(S, p, c) == RespectLimit(S, RespectLimit(S, c, Hour, p.hourly), Day, p.daily)

LEMMA RoundStays ==
  ASSUME PacingTypeOK, NEW S \in SUBSET Emails, NEW p \in PolicyType, NEW c \in Nat
  PROVE  Round(S, p, c) \in Nat /\ Round(S, p, c) >= c /\ (Round(S, p, c) = c <=> Roomy(S, p, c))
<1>1. /\ Hour \in Nat \ {0} /\ Day \in Nat \ {0} /\ p.hourly \in Nat \ {0} /\ p.daily \in Nat \ {0}
  BY PacingAssumption DEF PolicyType
<1>2. PICK h : h = RespectLimit(S, c, Hour, p.hourly)
  OBVIOUS
<1>3. /\ h \in Nat /\ h >= c /\ Cardinality(Inside(S, h, Hour)) < p.hourly
      /\ Cardinality(Inside(S, c, Hour)) < p.hourly => h = c
  BY <1>1, <1>2, LimitRespected
<1>4. PICK d : d = RespectLimit(S, h, Day, p.daily)
  OBVIOUS
<1>5. /\ d \in Nat /\ d >= h /\ Cardinality(Inside(S, d, Day)) < p.daily
      /\ Cardinality(Inside(S, h, Day)) < p.daily => d = h
  BY <1>1, <1>3, <1>4, LimitRespected
<1>6. Round(S, p, c) = d
  BY <1>2, <1>4 DEF Round
<1>7. d = c => h = c
  BY <1>3, <1>5
<1>8. d = c <=> Roomy(S, p, c)
  BY <1>3, <1>5, <1>7 DEF Roomy
<1>9. d >= c
  BY <1>3, <1>5
<1>10. QED
  BY <1>5, <1>6, <1>8, <1>9

\* The times a send has to wait for in any case.
Earliest(e, S, p) ==
  {now} \cup {Boundary(f) + p.gap : f \in S}
  \cup {Boundary(f) + p.domainGap : f \in {g \in S : RecipientDomain[g] = RecipientDomain[e]}}

LEMMA EarliestIs ==
  ASSUME PacingTypeOK, NEW e \in Emails, NEW S \in SUBSET Emails, NEW p \in PolicyType
  PROVE  LET base == Max(Earliest(e, S, p))
         IN  /\ base \in Nat /\ base >= now
             /\ \A t \in Nat : t >= base => Spaced(e, S, p, t)
             /\ Spaced(e, S, p, now) => base = now
<1>1. p.gap \in Nat /\ p.domainGap \in Nat /\ now \in Nat
  BY DEF PolicyType, PacingTypeOK
<1>2. PICK b0 \in Nat : \A f \in Emails : Boundary(f) <= b0
  BY BoundariesBounded
<1>3. PICK b \in Nat : b = b0 + p.gap + p.domainGap + now
  BY <1>1
<1>4. PICK T : T = Earliest(e, S, p)
  OBVIOUS
<1>5. /\ now \in T
      /\ \A f \in S : /\ Boundary(f) + p.gap \in T
                      /\ RecipientDomain[f] = RecipientDomain[e] => Boundary(f) + p.domainGap \in T
      /\ \A x \in T : \/ x = now
                      \/ \E f \in S : x = Boundary(f) + p.gap
                      \/ \E f \in S : RecipientDomain[f] = RecipientDomain[e] /\ x = Boundary(f) + p.domainGap
  BY <1>4 DEF Earliest
<1>6. ASSUME NEW x \in T PROVE x \in Nat /\ x <= b
  <2>1. CASE x = now
    BY <1>1, <1>3, <2>1
  <2>2. CASE \E f \in S : x = Boundary(f) + p.gap \/ x = Boundary(f) + p.domainGap
    <3>1. PICK f \in S : x = Boundary(f) + p.gap \/ x = Boundary(f) + p.domainGap
      BY <2>2
    <3>2. Boundary(f) \in Nat /\ Boundary(f) <= b0
      BY <1>2, BoundaryIs
    <3>3. QED
      BY <1>1, <1>3, <3>1, <3>2
  <2>3. QED
    BY <1>5, <2>1, <2>2
<1>7. Max(T) \in T /\ \A x \in T : x <= Max(T)
  BY <1>5, <1>6, MaxIsGreatest
<1>8. Max(T) \in Nat /\ Max(T) >= now
  BY <1>1, <1>5, <1>6, <1>7
<1>9. ASSUME NEW t \in Nat, t >= Max(T) PROVE Spaced(e, S, p, t)
  <2>1. \A x \in T : x <= t
    BY <1>6, <1>7, <1>8, <1>9
  <2>2. QED
    BY <1>5, <2>1 DEF Spaced
<1>10. ASSUME Spaced(e, S, p, now) PROVE Max(T) = now
  <2>1. \A x \in T : x <= now
    BY <1>1, <1>5, <1>10 DEF Spaced
  <2>2. QED
    BY <1>1, <1>7, <1>8, <2>1
<1>11. QED
  BY <1>4, <1>8, <1>9, <1>10

\* The time found keeps all distances and limits, and is now if that does
\* (next_email_send_at, without its jitter).
LEMMA NextSendFits ==
  ASSUME PacingTypeOK, NEW e \in Emails, NEW S \in SUBSET Emails, NEW p \in PolicyType
  PROVE  LET next == NextSendAt(e, S, p)
         IN  /\ next \in Nat /\ next >= now /\ Spaced(e, S, p, next) /\ Roomy(S, p, next)
             /\ Spaced(e, S, p, now) /\ Roomy(S, p, now) => next = now
<1> DEFINE base == Max({now} \cup {Boundary(f) + p.gap : f \in S}
                  \cup {Boundary(f) + p.domainGap : f \in {g \in S : RecipientDomain[g] = RecipientDomain[e]}})
           Start[c \in Nat] ==
             LET next == RespectLimit(S, RespectLimit(S, c, Hour, p.hourly), Day, p.daily)
             IN  IF next = c THEN c ELSE Start[next]
           Stops == {c \in Nat : Round(S, p, c) = c}
           G == [c \in Nat |-> Round(S, p, c)]
<1>1. NextSendAt(e, S, p) = Start[base]
  BY Zenon DEF NextSendAt
<1>2. /\ base \in Nat /\ base >= now /\ now \in Nat
      /\ \A t \in Nat : t >= base => Spaced(e, S, p, t)
      /\ Spaced(e, S, p, now) => base = now
  <2>1. base = Max(Earliest(e, S, p))
    BY DEF Earliest
  <2> HIDE DEF base
  <2>2. QED
    BY <2>1, EarliestIs DEF PacingTypeOK
<1> HIDE DEF base
<1>3. PICK b0 \in Nat : \A f \in Emails : Boundary(f) <= b0
  BY BoundariesBounded
<1>4. Hour \in Nat \ {0} /\ Day \in Nat \ {0} /\ p.hourly \in Nat \ {0} /\ p.daily \in Nat \ {0}
  BY PacingAssumption DEF PolicyType
<1>5. PICK b \in Nat : b = b0 + Hour + Day
  BY <1>4
<1>6. \A c \in Nat : /\ Round(S, p, c) \in Nat /\ Round(S, p, c) >= c
                     /\ Round(S, p, c) = c <=> Roomy(S, p, c)
  BY RoundStays
<1>7. ASSUME NEW c \in Nat, c >= b PROVE c \in Stops
  <2>1. c >= b0 + Hour /\ c >= b0 + Day
    BY <1>4, <1>5, <1>7
  <2>2. Cardinality(Inside(S, c, Hour)) = 0 /\ Cardinality(Inside(S, c, Day)) = 0
    BY <1>3, <1>4, <2>1, InsideEnds
  <2>3. Roomy(S, p, c)
    BY <1>4, <2>2 DEF Roomy
  <2>4. QED
    BY <1>6, <2>3
<1>8. Stops \in SUBSET Nat /\ G \in [Nat -> Nat] /\ \A c \in Nat \ Stops : G[c] > c
  BY <1>6
<1>9. \A c \in Nat : (c \in Stops <=> Round(S, p, c) = c) /\ G[c] = Round(S, p, c)
  OBVIOUS
<1>10. PICK F \in [Nat -> Nat] : Search(Stops, G, F)
  <2> HIDE DEF Stops, G
  <2>1. QED
    BY <1>7, <1>8, SearchExists
<1>11. \A c \in Nat : F[c] = IF Round(S, p, c) = c THEN c ELSE F[Round(S, p, c)]
  <2> HIDE DEF Stops, G
  <2>1. QED
    BY <1>9, <1>10 DEF Search
<1>12. F = [c \in Nat |->
              LET next == RespectLimit(S, RespectLimit(S, c, Hour, p.hourly), Day, p.daily)
              IN  IF next = c THEN c ELSE F[next]]
  <2>1. F = [c \in Nat |-> F[c]]
    OBVIOUS
  <2>2. \A c \in Nat : F[c] =
              LET next == RespectLimit(S, RespectLimit(S, c, Hour, p.hourly), Day, p.daily)
              IN  IF next = c THEN c ELSE F[next]
    BY <1>11 DEF Round
  <2>3. QED
    BY <2>1, <2>2
<1>13. Start = [c \in Nat |->
              LET next == RespectLimit(S, RespectLimit(S, c, Hour, p.hourly), Day, p.daily)
              IN  IF next = c THEN c ELSE Start[next]]
  BY <1>12, Zenon
<1> HIDE DEF Start
<1>14. \A c \in Nat : Start[c] = IF Round(S, p, c) = c THEN c ELSE Start[Round(S, p, c)]
  BY <1>13 DEF Round
<1> HIDE DEF Stops, G
<1>15. Search(Stops, G, Start)
  BY <1>9, <1>14 DEF Search
<1>16. Start[base] \in Stops /\ Start[base] >= base
  BY <1>2, <1>7, <1>8, <1>15, SearchFinds
<1>17. base \in Stops => Start[base] = base
  BY <1>2, <1>15 DEF Search
<1>18. PICK next : next = NextSendAt(e, S, p)
  OBVIOUS
<1>19. next = Start[base] /\ next \in Nat /\ next >= now
  <2>1. next = Start[base]
    BY <1>1, <1>18
  <2>2. next \in Nat /\ next >= base
    BY <1>8, <1>16, <2>1
  <2>3. QED
    BY <1>2, <2>1, <2>2
<1>20. Spaced(e, S, p, next)
  BY <1>2, <1>16, <1>19
<1>21. Roomy(S, p, next)
  BY <1>6, <1>9, <1>16, <1>19
<1>22. Spaced(e, S, p, now) /\ Roomy(S, p, now) => next = now
  BY <1>2, <1>6, <1>9, <1>17, <1>19
<1>23. QED
  BY <1>18, <1>19, <1>20, <1>21, <1>22

\* The settings that decide are as strict as both that they combine.
LEMMA StricterIs ==
  ASSUME NEW current \in Policies, NEW kept \in Policies
  PROVE  LET p == Stricter(current, kept)
         IN  /\ p \in PolicyType /\ p.gap <= Day /\ p.domainGap <= Day
             /\ p.gap >= kept.gap /\ p.domainGap >= kept.domainGap
             /\ p.hourly <= kept.hourly /\ p.daily <= kept.daily
<1>1. /\ current \in PolicyType /\ kept \in PolicyType /\ Day \in Nat
      /\ current.gap <= current.domainGap /\ current.domainGap <= Day
      /\ kept.gap <= kept.domainGap /\ kept.domainGap <= Day
  BY PacingAssumption
<1>2. PICK gap, domainGap, hourly, daily, jitter :
        /\ gap = Later(current.gap, kept.gap) /\ domainGap = Later(current.domainGap, kept.domainGap)
        /\ hourly = IF current.hourly < kept.hourly THEN current.hourly ELSE kept.hourly
        /\ daily = IF current.daily < kept.daily THEN current.daily ELSE kept.daily
        /\ jitter = Later(current.jitter, kept.jitter)
  OBVIOUS
<1>3. Stricter(current, kept) = [gap |-> gap, domainGap |-> domainGap, hourly |-> hourly,
                                 daily |-> daily, jitter |-> jitter]
  BY <1>2 DEF Stricter
<1>4. /\ gap \in Nat \ {0} /\ domainGap \in Nat \ {0} /\ hourly \in Nat \ {0}
      /\ daily \in Nat \ {0} /\ jitter \in Nat /\ gap <= Day /\ domainGap <= Day
      /\ gap >= kept.gap /\ domainGap >= kept.domainGap /\ hourly <= kept.hourly
      /\ daily <= kept.daily
  BY <1>1, <1>2 DEF PolicyType, Later
<1>5. QED
  BY <1>3, <1>4 DEF PolicyType

-----------------------------------------------------------------------------
(* EmailPacing: the inductive invariant.                                   *)

\* An email is sent no earlier than its slot, and ends after it began.
Timed ==
  /\ \A e \in Begun : slot[e] <= started[e] /\ started[e] <= now
  /\ \A e \in Resolved : started[e] <= ended[e] /\ ended[e] <= now

\* A time keeps distances and limits from sends that ended at these times.
Keeps(e, S, p, ends, t) ==
  /\ \A f \in S : /\ ends[f] + p.gap <= t
                  /\ RecipientDomain[f] = RecipientDomain[e] => ends[f] + p.domainGap <= t
  /\ Cardinality({f \in S : t < ends[f] + Hour}) < p.hourly
  /\ Cardinality({f \in S : t < ends[f] + Day}) < p.daily

\* A deferral was computed from the sends there still are.
DeferralOf(e) ==
  settled[e] =>
    /\ state[e] = "scheduled"
    /\ Begun = Resolved => Keeps(e, Actual(e), Stricter(policy, frozen[e]), ended, slot[e])
DeferralFits == \A e \in Emails : DeferralOf(e)

PacingIInv ==
  /\ PacingTypeOK
  /\ Timed
  /\ SendsSpaced
  /\ CapsKept
  /\ DeferralFits

\* What kept distances and limits keeps them later, too.
LEMMA KeepsOn ==
  ASSUME NEW e, NEW S \in SUBSET Emails, NEW p \in PolicyType, NEW ends \in [Emails -> Nat],
         NEW t \in Nat, NEW u \in Nat, t <= u, Keeps(e, S, p, ends, t)
  PROVE  Keeps(e, S, p, ends, u)
<1>1. p.gap \in Nat /\ p.domainGap \in Nat /\ p.hourly \in Nat /\ p.daily \in Nat
  BY DEF PolicyType
<1>2. ASSUME NEW W \in Nat
      PROVE  /\ Cardinality({f \in S : u < ends[f] + W}) \in Nat
             /\ Cardinality({f \in S : t < ends[f] + W}) \in Nat
             /\ Cardinality({f \in S : u < ends[f] + W}) <= Cardinality({f \in S : t < ends[f] + W})
  <2>1. PICK A, B : A = {f \in S : u < ends[f] + W} /\ B = {f \in S : t < ends[f] + W}
    OBVIOUS
  <2>2. \A f \in S : ends[f] \in Nat
    OBVIOUS
  <2>3. A \in SUBSET B /\ B \in SUBSET Emails
    BY <2>1, <2>2
  <2>4. IsFiniteSet(B) /\ IsFiniteSet(A) /\ Cardinality(A) <= Cardinality(B)
    BY <2>3, PacingAssumption, FS_Subset
  <2>5. QED
    BY <2>1, <2>4, FS_CardinalityType
<1>3. Hour \in Nat /\ Day \in Nat
  BY PacingAssumption
<1>4. \A f \in S : ends[f] \in Nat
  OBVIOUS
<1>5. \A f \in S : /\ ends[f] + p.gap <= u
                   /\ RecipientDomain[f] = RecipientDomain[e] => ends[f] + p.domainGap <= u
  BY <1>1, <1>4 DEF Keeps
<1>6. Cardinality({f \in S : u < ends[f] + Hour}) < p.hourly
  <2>1. PICK x, y : /\ x = Cardinality({f \in S : u < ends[f] + Hour})
                    /\ y = Cardinality({f \in S : t < ends[f] + Hour})
    OBVIOUS
  <2>2. x \in Nat /\ y \in Nat /\ x <= y
    BY <1>2, <1>3, <2>1
  <2>3. y < p.hourly
    BY <2>1 DEF Keeps
  <2>4. x < p.hourly
    BY <1>1, <2>2, <2>3
  <2>5. QED
    BY <2>1, <2>4
<1>7. Cardinality({f \in S : u < ends[f] + Day}) < p.daily
  <2>1. PICK x, y : /\ x = Cardinality({f \in S : u < ends[f] + Day})
                    /\ y = Cardinality({f \in S : t < ends[f] + Day})
    OBVIOUS
  <2>2. x \in Nat /\ y \in Nat /\ x <= y
    BY <1>2, <1>3, <2>1
  <2>3. y < p.daily
    BY <2>1 DEF Keeps
  <2>4. x < p.daily
    BY <1>1, <2>2, <2>3
  <2>5. QED
    BY <2>1, <2>4
<1>8. QED
  BY <1>5, <1>6, <1>7 DEF Keeps

\* The row of a send that has its outcome stands for the time of that outcome.
LEMMA OutcomeIsBoundary ==
  ASSUME PacingTypeOK, Timed, NEW f \in Resolved
  PROVE  f \in Emails /\ Boundary(f) = ended[f] /\ ended[f] \in Nat /\ ended[f] <= now
<1>1. f \in Emails /\ f \in Begun /\ state[f] # "sending"
  BY DEF Resolved, Begun
<1>2. slot[f] <= started[f] /\ started[f] <= ended[f] /\ ended[f] <= now
  BY <1>1 DEF Timed
<1>3. slot[f] \in Nat /\ started[f] \in Nat /\ ended[f] \in Nat
  BY <1>1 DEF PacingTypeOK
<1>4. /\ slot[f] <= Boundary(f) /\ started[f] <= Boundary(f) /\ ended[f] <= Boundary(f)
      /\ Boundary(f) \in {slot[f], started[f], ended[f]}
  BY <1>1, BoundaryIs
<1>5. QED
  BY <1>1, <1>2, <1>3, <1>4

\* The sends that decide about a time.
Deciding(e) == {f \in Actual(e) : Recent(f)}

\* With no send under way, the time found for an email keeps its distance from
\* all sends, those of longer ago as well; ...
LEMMA FoundKeeps ==
  ASSUME PacingTypeOK, Timed, NEW e \in Emails, Actual(e) \subseteq Resolved,
         NEW p \in PolicyType, p.gap <= Day, p.domainGap <= Day
  PROVE  Keeps(e, Actual(e), p, ended, NextSendAt(e, Deciding(e), p))
<1>1. PICK S, all, next : S = Deciding(e) /\ all = Actual(e) /\ next = NextSendAt(e, S, p)
  OBVIOUS
<1>2. S \in SUBSET Emails /\ S \subseteq all /\ all \in SUBSET Emails
  BY <1>1 DEF Deciding, Actual, Begun
<1>3. /\ next \in Nat /\ next >= now /\ Spaced(e, S, p, next) /\ Roomy(S, p, next)
  BY <1>1, <1>2, NextSendFits
<1>4. /\ now \in Nat /\ Day \in Nat /\ Hour \in Nat /\ Hour <= Day
      /\ p.gap \in Nat /\ p.domainGap \in Nat /\ p.hourly \in Nat /\ p.daily \in Nat
  BY PacingAssumption DEF PacingTypeOK, PolicyType
<1>5. \A f \in all : Boundary(f) = ended[f] /\ ended[f] \in Nat /\ ended[f] <= now
  BY <1>1, OutcomeIsBoundary
<1>6. \A f \in all : f \in S \/ ended[f] + Day <= now
  <2> SUFFICES ASSUME NEW f \in all, f \notin S PROVE ended[f] + Day <= now
    OBVIOUS
  <2>1. ~(Boundary(f) + Day > now)
    BY <1>1 DEF Deciding, Recent
  <2>2. QED
    BY <1>4, <1>5, <2>1
<1>7. ASSUME NEW f \in all
      PROVE  /\ ended[f] + p.gap <= next
             /\ RecipientDomain[f] = RecipientDomain[e] => ended[f] + p.domainGap <= next
  <2>1. CASE f \in S
    BY <1>3, <1>5, <2>1 DEF Spaced
  <2>2. CASE ended[f] + Day <= now
    BY <1>3, <1>4, <1>5, <2>2
  <2>3. QED
    BY <1>6, <2>1, <2>2
<1>8. ASSUME NEW W \in Nat, W <= Day
      PROVE  /\ Cardinality({f \in all : next < ended[f] + W}) \in Nat
             /\ Cardinality({f \in all : next < ended[f] + W}) <= Cardinality(Inside(S, next, W))
  <2>1. PICK A, B : A = {f \in all : next < ended[f] + W} /\ B = Inside(S, next, W)
    OBVIOUS
  <2>2. A \subseteq B
    <3> SUFFICES ASSUME NEW f \in A PROVE f \in B
      OBVIOUS
    <3>1. f \in all /\ next < ended[f] + W /\ Boundary(f) = ended[f] /\ ended[f] \in Nat
          /\ ended[f] <= now
      BY <1>5, <2>1
    <3>2. f \in S
      BY <1>3, <1>4, <1>6, <1>8, <3>1
    <3>3. Boundary(f) <= next /\ next < Boundary(f) + W
      BY <1>3, <1>4, <3>1
    <3>4. QED
      BY <2>1, <3>2, <3>3 DEF Inside
  <2>3. IsFiniteSet(B)
    BY <1>2, <2>1, InsideFinite
  <2>4. IsFiniteSet(A) /\ Cardinality(A) <= Cardinality(B)
    BY <2>2, <2>3, FS_Subset
  <2>5. QED
    BY <2>1, <2>4, FS_CardinalityType
<1>9. Cardinality(Inside(S, next, Hour)) \in Nat /\ Cardinality(Inside(S, next, Day)) \in Nat
  BY <1>2, InsideFinite
<1>10. /\ Cardinality({f \in all : next < ended[f] + Hour}) < p.hourly
       /\ Cardinality({f \in all : next < ended[f] + Day}) < p.daily
  BY <1>3, <1>4, <1>8, <1>9 DEF Roomy
<1>11. Keeps(e, all, p, ended, next)
  BY <1>7, <1>10 DEF Keeps
<1>12. QED
  BY <1>1, <1>11

\* ... and a time that does is found again.
LEMMA KeptIsFound ==
  ASSUME PacingTypeOK, Timed, NEW e \in Emails, Actual(e) \subseteq Resolved,
         NEW p \in PolicyType, Keeps(e, Actual(e), p, ended, now)
  PROVE  NextSendAt(e, Deciding(e), p) = now
<1>1. PICK S, all : S = Deciding(e) /\ all = Actual(e)
  OBVIOUS
<1>2. S \in SUBSET Emails /\ S \subseteq all /\ all \in SUBSET Emails
  BY <1>1 DEF Deciding, Actual, Begun
<1>3. \A f \in all : Boundary(f) = ended[f] /\ ended[f] \in Nat /\ ended[f] <= now
  BY <1>1, OutcomeIsBoundary
<1>4. Spaced(e, S, p, now)
  BY <1>1, <1>2, <1>3 DEF Spaced, Keeps
<1>5. Hour \in Nat /\ Day \in Nat /\ p.hourly \in Nat /\ p.daily \in Nat
  BY PacingAssumption DEF PolicyType
<1>6. ASSUME NEW W \in Nat
      PROVE  /\ Cardinality({f \in all : now < ended[f] + W}) \in Nat
             /\ Cardinality(Inside(S, now, W)) \in Nat
             /\ Cardinality(Inside(S, now, W)) <= Cardinality({f \in all : now < ended[f] + W})
  <2>1. PICK A, B : A = {f \in all : now < ended[f] + W} /\ B = Inside(S, now, W)
    OBVIOUS
  <2>2. B \subseteq A /\ A \in SUBSET Emails
    BY <1>2, <1>3, <2>1 DEF Inside
  <2>3. IsFiniteSet(A) /\ IsFiniteSet(B) /\ Cardinality(B) <= Cardinality(A)
    BY <2>2, PacingAssumption, FS_Subset
  <2>4. QED
    BY <2>1, <2>3, FS_CardinalityType
<1>7. Roomy(S, p, now)
  BY <1>1, <1>5, <1>6 DEF Roomy, Keeps
<1>8. QED
  BY <1>1, <1>2, <1>4, <1>7, NextSendFits

\* The next attempt: no earlier than the slot and the time found, and after
\* now while any send is under way.
LEMMA AttemptIs ==
  ASSUME PacingTypeOK, NEW e \in Emails
  PROVE  LET p == Stricter(policy, frozen[e])
             at == NextAttemptAt(e)
             next == NextSendAt(e, Deciding(e), p)
         IN  /\ at \in Nat /\ next \in Nat /\ next >= now /\ at >= next
             /\ (\E f \in Actual(e) : state[f] = "sending") => at > now
             /\ ~ (\E f \in Actual(e) : state[f] = "sending") /\ next = now /\ slot[e] <= now
                  => at = now
<1>1. PICK p, next : p = Stricter(policy, frozen[e]) /\ next = NextSendAt(e, Deciding(e), p)
  OBVIOUS
<1>2. p \in PolicyType
  <2>1. policy \in Policies /\ frozen[e] \in Policies
    BY DEF PacingTypeOK
  <2>2. QED
    BY <1>1, <2>1, StricterIs
<1>3. Deciding(e) \in SUBSET Emails
  BY DEF Deciding, Actual, Begun
<1>4. next \in Nat /\ next >= now
  BY <1>1, <1>2, <1>3, NextSendFits
<1>5. now \in Nat /\ slot[e] \in Nat /\ p.gap \in Nat \ {0}
  BY <1>2 DEF PacingTypeOK, PolicyType
<1>6. Jitter(e, p) \in Nat
  <2>1. Hash[e] \in Nat /\ p.jitter \in Nat
    BY <1>2, PacingAssumption DEF PolicyType
  <2>2. QED
    BY <2>1 DEF Jitter
<1>7. PICK safe : safe = Later(slot[e], IF next > now THEN next + Jitter(e, p) ELSE next)
  OBVIOUS
<1>8. NextAttemptAt(e) = IF \E f \in Actual(e) : state[f] = "sending" THEN Later(safe, now + p.gap)
                         ELSE safe
  BY <1>1, <1>7 DEF NextAttemptAt, Deciding
<1>9. safe \in Nat /\ safe >= next /\ (next = now /\ slot[e] <= now => safe = now)
  BY <1>4, <1>5, <1>6, <1>7 DEF Later
<1>10. CASE \E f \in Actual(e) : state[f] = "sending"
  <2>1. NextAttemptAt(e) = Later(safe, now + p.gap)
    BY <1>8, <1>10
  <2>2. Later(safe, now + p.gap) \in Nat /\ Later(safe, now + p.gap) > now
        /\ Later(safe, now + p.gap) >= next
    BY <1>4, <1>5, <1>9 DEF Later
  <2>3. QED
    BY <1>1, <1>4, <1>10, <2>1, <2>2
<1>11. CASE ~ \E f \in Actual(e) : state[f] = "sending"
  BY <1>1, <1>4, <1>8, <1>9, <1>11
<1>12. QED
  BY <1>10, <1>11

-----------------------------------------------------------------------------
(* EmailPacing: the steps.                                                 *)

LEMMA PacingInitIInv == PacingInit => PacingIInv
<1> SUFFICES ASSUME PacingInit PROVE PacingIInv
  OBVIOUS
<1>1. Begun = {} /\ Resolved = {}
  BY DEF PacingInit, Begun, Resolved
<1>2. PacingTypeOK
  BY PacingAssumption DEF PacingInit, PacingTypeOK, States, Unsettled
<1>3. Timed /\ SendsSpaced /\ CapsKept
  BY <1>1 DEF Timed, SendsSpaced, CapsKept
<1>4. DeferralFits
  BY DEF PacingInit, Unsettled, DeferralFits, DeferralOf
<1>5. QED
  BY <1>2, <1>3, <1>4 DEF PacingIInv

\* Distances and limits are about begun sends only: they stay kept while none
\* begins, whatever becomes of the other emails.
LEMMA SendsStand ==
  ASSUME PacingIInv, Begun' = Begun, Resolved \subseteq Resolved', started' = started,
         \A f \in Begun : frozen'[f] = frozen[f], \A f \in Resolved : ended'[f] = ended[f]
  PROVE  SendsSpaced' /\ CapsKept'
<1>1. SendsSpaced'
  <2> SUFFICES ASSUME NEW e \in Begun', NEW f \in Begun', e # f, started'[f] <= started'[e]
               PROVE  /\ f \in Resolved'
                      /\ ended'[f] + frozen'[e].gap <= started'[e]
                      /\ RecipientDomain[f] = RecipientDomain[e] => ended'[f] + frozen'[e].domainGap <= started'[e]
    BY DEF SendsSpaced
  <2>1. /\ f \in Resolved
        /\ ended[f] + frozen[e].gap <= started[e]
        /\ RecipientDomain[f] = RecipientDomain[e] => ended[f] + frozen[e].domainGap <= started[e]
    BY DEF PacingIInv, SendsSpaced
  <2>2. frozen'[e] = frozen[e] /\ ended'[f] = ended[f]
    BY <2>1
  <2>3. QED
    BY <2>1, <2>2
<1>2. CapsKept'
  BY DEF PacingIInv, CapsKept
<1>3. QED
  BY <1>1, <1>2

\* A step that concerns e alone, which is not and does not become a send.
Quiet(e) ==
  /\ e \notin Begun /\ state'[e] \notin {"sending", "accepted", "ambiguous"}
  /\ \A x \in Emails \ {e} : /\ state'[x] = state[x] /\ slot'[x] = slot[x]
                            /\ frozen'[x] = frozen[x] /\ settled'[x] = settled[x]
  /\ UNCHANGED <<now, policy, started, ended>>

LEMMA QuietKeeps ==
  ASSUME PacingIInv, NEW e \in Emails, Quiet(e), PacingTypeOK'
  PROVE  /\ Begun' = Begun /\ Resolved' = Resolved
         /\ DeferralOf(e)' => PacingIInv'
<1>1. Begun' = Begun /\ Resolved' = Resolved
  <2>1. \A x \in Emails : /\ x \in Begun' <=> x \in Begun
                          /\ x \in Resolved' <=> x \in Resolved
    BY DEF Quiet, Begun, Resolved
  <2>2. QED
    BY <2>1 DEF Begun, Resolved
<1>2. e \notin Begun /\ Resolved \subseteq Begun
  BY DEF Quiet, Begun, Resolved
<1>3. SendsSpaced' /\ CapsKept'
  <2>1. \A f \in Begun : frozen'[f] = frozen[f]
    BY <1>2 DEF Quiet, Begun
  <2>2. started' = started /\ ended' = ended
    BY DEF Quiet
  <2>3. QED
    BY <1>1, <2>1, <2>2, SendsStand
<1>4. Timed'
  BY <1>1, <1>2 DEF Quiet, PacingIInv, Timed, Begun
<1>5. ASSUME NEW x \in Emails \ {e} PROVE DeferralOf(x)'
  <2>1. DeferralOf(x)
    BY DEF PacingIInv, DeferralFits
  <2>2. /\ state'[x] = state[x] /\ slot'[x] = slot[x] /\ frozen'[x] = frozen[x]
        /\ settled'[x] = settled[x] /\ policy' = policy /\ ended' = ended
    BY DEF Quiet
  <2>3. Actual(x)' = Actual(x)
    BY <1>1 DEF Actual
  <2>4. Stricter(policy, frozen[x])' = Stricter(policy, frozen[x])
    BY <2>2 DEF Stricter
  <2>5. Keeps(x, Actual(x), Stricter(policy, frozen[x]), ended, slot[x])'
          = Keeps(x, Actual(x), Stricter(policy, frozen[x]), ended, slot[x])
    BY <2>2, <2>3, <2>4 DEF Keeps
  <2>6. QED
    BY <1>1, <2>1, <2>2, <2>5 DEF DeferralOf
<1>6. ASSUME DeferralOf(e)' PROVE PacingIInv'
  BY <1>3, <1>4, <1>5, <1>6 DEF PacingIInv, DeferralFits
<1>7. QED
  BY <1>1, <1>6

LEMMA ApproveKeeps ==
  ASSUME PacingIInv, NEW e \in Emails, Approve(e)
  PROVE  PacingIInv'
<1>1. PacingTypeOK
  BY DEF PacingIInv
<1>2. PICK S, next : /\ S = {f \in Planned(e) : Recent(f)} /\ next = NextSendAt(e, S, policy)
  OBVIOUS
<1>3. policy \in Policies /\ policy \in PolicyType
  BY <1>1, PacingAssumption DEF PacingTypeOK
<1>4. next \in Nat
  <2>1. S \in SUBSET Emails
    BY <1>2 DEF Planned
  <2>2. QED
    BY <1>1, <1>2, <1>3, <2>1, NextSendFits
<1>5. PICK at : at = next + Jitter(e, policy)
  OBVIOUS
<1>6. at \in Nat
  <2>1. Hash[e] \in Nat /\ policy.jitter \in Nat
    BY <1>3, PacingAssumption DEF PolicyType
  <2>2. Jitter(e, policy) \in Nat
    BY <2>1 DEF Jitter
  <2>3. QED
    BY <1>4, <1>5, <2>2
<1>7. /\ state[e] = "none"
      /\ state' = [state EXCEPT ![e] = "scheduled"]
      /\ slot' = [slot EXCEPT ![e] = at]
      /\ frozen' = [frozen EXCEPT ![e] = policy]
      /\ UNCHANGED <<now, policy, started, ended, settled>>
  BY <1>2, <1>5 DEF Approve
<1>8. PacingTypeOK'
  BY <1>1, <1>3, <1>6, <1>7 DEF PacingTypeOK, States
<1>9. Quiet(e)
  BY <1>1, <1>7 DEF Quiet, Begun, PacingTypeOK
<1>10. DeferralOf(e)'
  <2>1. ~ settled[e]
    BY <1>7 DEF PacingIInv, DeferralFits, DeferralOf
  <2>2. QED
    BY <1>7, <2>1 DEF DeferralOf
<1>11. QED
  BY <1>8, <1>9, <1>10, QuietKeeps

LEMMA DeferKeeps ==
  ASSUME PacingIInv, NEW e \in Emails, Defer(e)
  PROVE  PacingIInv'
<1>1. PacingTypeOK /\ Timed
  BY DEF PacingIInv
<1>2. PICK p, at, next : /\ p = Stricter(policy, frozen[e]) /\ at = NextAttemptAt(e)
                         /\ next = NextSendAt(e, Deciding(e), p)
  OBVIOUS
<1>3. at \in Nat /\ next \in Nat /\ at >= next
  BY <1>1, <1>2, AttemptIs
<1>4. /\ state[e] = "scheduled" /\ slot' = [slot EXCEPT ![e] = at]
      /\ settled' = [settled EXCEPT ![e] = TRUE]
      /\ UNCHANGED <<now, policy, state, frozen, started, ended>>
  BY <1>2 DEF Defer, AtBoundary
<1>5. PacingTypeOK'
  BY <1>1, <1>3, <1>4 DEF PacingTypeOK
<1>6. Quiet(e)
  BY <1>1, <1>4 DEF Quiet, Begun, PacingTypeOK
<1>7. Begun' = Begun /\ Resolved' = Resolved
  BY <1>5, <1>6, QuietKeeps
<1>8. ASSUME Begun = Resolved PROVE Keeps(e, Actual(e), p, ended, at)
  <2>1. Actual(e) \subseteq Resolved /\ Actual(e) \in SUBSET Emails
    BY <1>8 DEF Actual, Begun
  <2>2. p \in PolicyType /\ p.gap <= Day /\ p.domainGap <= Day
    <3>1. policy \in Policies /\ frozen[e] \in Policies
      BY <1>1 DEF PacingTypeOK
    <3>2. QED
      BY <1>2, <3>1, StricterIs
  <2>3. Keeps(e, Actual(e), p, ended, next)
    BY <1>1, <1>2, <2>1, <2>2, FoundKeeps
  <2>4. ended \in [Emails -> Nat]
    BY <1>1 DEF PacingTypeOK
  <2>5. PICK S : S = Actual(e)
    OBVIOUS
  <2>6. S \in SUBSET Emails /\ Keeps(e, S, p, ended, next) /\ next <= at
    BY <1>3, <2>1, <2>3, <2>5
  <2>7. Keeps(e, S, p, ended, at)
    BY <1>3, <2>2, <2>4, <2>6, KeepsOn
  <2>8. QED
    BY <2>5, <2>7
<1>9. DeferralOf(e)'
  <2>1. slot'[e] = at /\ state'[e] = "scheduled"
    BY <1>1, <1>4 DEF PacingTypeOK
  <2>2. Actual(e)' = Actual(e) /\ Stricter(policy, frozen[e])' = p
    BY <1>2, <1>4, <1>7 DEF Actual, Stricter
  <2>3. Keeps(e, Actual(e), Stricter(policy, frozen[e]), ended, slot[e])'
          = Keeps(e, Actual(e), p, ended, at)
    BY <1>4, <2>1, <2>2 DEF Keeps
  <2>4. QED
    BY <1>7, <1>8, <2>1, <2>3 DEF DeferralOf
<1>10. QED
  BY <1>5, <1>6, <1>9, QuietKeeps

LEMMA GiveUpKeeps ==
  ASSUME PacingIInv, NEW e \in Emails, state[e] = "scheduled", GiveUp(e)
  PROVE  PacingIInv'
<1>1. PacingTypeOK
  BY DEF PacingIInv
<1>2. PacingTypeOK'
  BY <1>1, PacingAssumption DEF PacingTypeOK, GiveUp, States
<1>3. Quiet(e) /\ DeferralOf(e)'
  BY <1>1 DEF Quiet, Begun, PacingTypeOK, GiveUp, DeferralOf
<1>4. QED
  BY <1>2, <1>3, QuietKeeps

\* What the boundary of a send has established: nothing is under way, and now
\* keeps the distances and limits of the settings that decide.
LEMMA SendIsSafe ==
  ASSUME PacingIInv, NEW e \in Emails, Send(e)
  PROVE  /\ Begun \subseteq Resolved /\ e \notin Begun
         /\ Keeps(e, Begun, Stricter(policy, frozen[e]), ended, now)
<1>1. PacingTypeOK /\ Timed
  BY DEF PacingIInv
<1>2. PICK p, at, next : /\ p = Stricter(policy, frozen[e]) /\ at = NextAttemptAt(e)
                         /\ next = NextSendAt(e, Deciding(e), p)
  OBVIOUS
<1>3. /\ at \in Nat /\ next \in Nat /\ next >= now /\ at >= next
      /\ (\E f \in Actual(e) : state[f] = "sending") => at > now
  BY <1>1, <1>2, AttemptIs
<1>4. e \notin Begun /\ at <= now /\ now \in Nat
  BY <1>1, <1>2 DEF Send, AtBoundary, Begun, PacingTypeOK
<1>5. Actual(e) = Begun
  BY <1>4 DEF Actual
<1>6. ~ (\E f \in Actual(e) : state[f] = "sending") /\ next = now
  BY <1>3, <1>4
<1>7. Begun \subseteq Resolved
  BY <1>5, <1>6 DEF Begun, Resolved
<1>8. p \in PolicyType /\ p.gap <= Day /\ p.domainGap <= Day
  <2>1. policy \in Policies /\ frozen[e] \in Policies
    BY <1>1 DEF PacingTypeOK
  <2>2. QED
    BY <1>2, <2>1, StricterIs
<1>9. Keeps(e, Actual(e), p, ended, next)
  BY <1>1, <1>2, <1>5, <1>7, <1>8, FoundKeeps
<1>10. QED
  BY <1>2, <1>4, <1>5, <1>6, <1>7, <1>9

LEMMA SendKeeps ==
  ASSUME PacingIInv, NEW e \in Emails, Send(e)
  PROVE  PacingIInv'
<1>1. PacingTypeOK /\ Timed /\ SendsSpaced /\ CapsKept
  BY DEF PacingIInv
<1>2. /\ slot[e] <= now /\ state' = [state EXCEPT ![e] = "sending"]
      /\ started' = [started EXCEPT ![e] = now] /\ settled' = Unsettled
      /\ UNCHANGED <<now, policy, slot, frozen, ended>>
  BY DEF Send, AtBoundary
<1>3. Begun \subseteq Resolved /\ e \notin Begun /\ e \notin Resolved /\ Resolved \subseteq Begun
  BY SendIsSafe DEF Begun, Resolved
<1>4. PacingTypeOK'
  BY <1>1, <1>2 DEF PacingTypeOK, States, Unsettled
<1>5. Begun' = Begun \cup {e} /\ Resolved' = Resolved
  <2>1. \A x \in Emails : /\ x \in Begun' <=> x \in Begun \/ x = e
                          /\ x \in Resolved' <=> x \in Resolved
    BY <1>1, <1>2, <1>3 DEF Begun, Resolved, PacingTypeOK
  <2>2. QED
    BY <2>1 DEF Begun, Resolved
<1>6. started'[e] = now /\ \A x \in Begun : started'[x] = started[x]
  BY <1>1, <1>2, <1>3 DEF PacingTypeOK, Begun
<1>7. PICK p : p = Stricter(policy, frozen[e])
  OBVIOUS
<1>8. /\ p.gap \in Nat \ {0} /\ p.domainGap \in Nat /\ p.hourly \in Nat /\ p.daily \in Nat
      /\ p.gap >= frozen[e].gap /\ p.domainGap >= frozen[e].domainGap
      /\ p.hourly <= frozen[e].hourly /\ p.daily <= frozen[e].daily
      /\ frozen[e].gap \in Nat /\ frozen[e].domainGap \in Nat
      /\ frozen[e].hourly \in Nat /\ frozen[e].daily \in Nat
  <2>1. policy \in Policies /\ frozen[e] \in Policies /\ frozen[e] \in PolicyType
    BY <1>1, PacingAssumption DEF PacingTypeOK
  <2>2. p \in PolicyType
    BY <1>7, <2>1, StricterIs
  <2>3. QED
    BY <1>7, <2>1, <2>2, StricterIs DEF PolicyType
<1>9. Keeps(e, Begun, p, ended, now)
  BY <1>7, SendIsSafe
<1>10. \A x \in Begun : /\ x \in Emails /\ started[x] \in Nat /\ ended[x] \in Nat
                        /\ started[x] <= ended[x] /\ ended[x] + p.gap <= now
                        /\ RecipientDomain[x] = RecipientDomain[e] => ended[x] + p.domainGap <= now
  BY <1>1, <1>3, <1>9 DEF PacingTypeOK, Timed, Keeps, Begun
<1>11. now \in Nat /\ Hour \in Nat /\ Day \in Nat
  BY <1>1, PacingAssumption DEF PacingTypeOK
<1>12. \A x \in Begun : started[x] < now
  BY <1>8, <1>10, <1>11
<1>13. Timed'
  <2>1. \A x \in Begun' : slot'[x] <= started'[x] /\ started'[x] <= now'
    BY <1>1, <1>2, <1>5, <1>6, <1>11 DEF Timed
  <2>2. \A x \in Resolved' : started'[x] <= ended'[x] /\ ended'[x] <= now'
    BY <1>1, <1>2, <1>3, <1>5, <1>6 DEF Timed
  <2>3. QED
    BY <2>1, <2>2 DEF Timed
<1>14. SendsSpaced'
  <2> SUFFICES ASSUME NEW x \in Begun', NEW f \in Begun', x # f, started'[f] <= started'[x]
               PROVE  /\ f \in Resolved'
                      /\ ended'[f] + frozen'[x].gap <= started'[x]
                      /\ RecipientDomain[f] = RecipientDomain[x] => ended'[f] + frozen'[x].domainGap <= started'[x]
    BY DEF SendsSpaced
  <2>1. CASE x = e
    <3>1. f \in Begun /\ f \in Resolved'
      BY <1>3, <1>5, <2>1
    <3>2. ended[f] + frozen[e].gap <= now
      BY <1>8, <1>10, <1>11, <3>1
    <3>3. RecipientDomain[f] = RecipientDomain[e] => ended[f] + frozen[e].domainGap <= now
      BY <1>8, <1>10, <1>11, <3>1
    <3>4. QED
      BY <1>2, <1>6, <2>1, <3>1, <3>2, <3>3
  <2>2. CASE x # e /\ f = e
    <3>1. x \in Begun /\ now <= started[x]
      BY <1>5, <1>6, <2>2
    <3>2. QED
      BY <1>10, <1>11, <1>12, <3>1
  <2>3. CASE x # e /\ f # e
    <3>1. x \in Begun /\ f \in Begun
      BY <1>5, <2>3
    <3>2. started[f] <= started[x]
      BY <1>6, <3>1
    <3>3. QED
      BY <1>1, <1>2, <1>5, <1>6, <3>1, <3>2 DEF SendsSpaced
  <2>4. QED
    BY <2>1, <2>2, <2>3
<1>15. ASSUME NEW W \in Nat, NEW limit \in Nat,
              Cardinality({f \in Begun : now < ended[f] + W}) < limit
       PROVE  Cardinality({f \in Begun' : started'[f] <= started'[e]
                                         /\ started'[e] < started'[f] + W}) <= limit
  <2>1. PICK A, B : /\ A = {f \in Begun' : started'[f] <= started'[e]
                                          /\ started'[e] < started'[f] + W}
                    /\ B = {f \in Begun : now < ended[f] + W}
    OBVIOUS
  <2>2. A \subseteq B \cup {e}
    <3> SUFFICES ASSUME NEW f \in A, f # e PROVE f \in B
      OBVIOUS
    <3>1. f \in Begun /\ now < started[f] + W
      BY <1>5, <1>6, <2>1
    <3>2. now < ended[f] + W
      BY <1>10, <1>11, <3>1
    <3>3. QED
      BY <2>1, <3>1, <3>2
  <2>3. B \in SUBSET Emails
    BY <1>10, <2>1
  <2>4. IsFiniteSet(B) /\ Cardinality(B) \in Nat
    BY <2>3, PacingAssumption, FS_Subset, FS_CardinalityType
  <2>5. IsFiniteSet(B \cup {e}) /\ Cardinality(B \cup {e}) <= Cardinality(B) + 1
        /\ Cardinality(B \cup {e}) \in Nat
    <3>1. PICK D, n, m : D = B \cup {e} /\ n = Cardinality(B) /\ m = Cardinality(D)
      OBVIOUS
    <3>2. IsFiniteSet(B)
      BY <2>4
    <3>3. IsFiniteSet(D) /\ m = (IF e \in B THEN n ELSE n + 1)
      BY <3>1, <3>2, FS_AddElement, Zenon
    <3>4. n \in Nat
      BY <2>4, <3>1
    <3>5. m \in Nat /\ m <= n + 1
      BY <3>3, <3>4
    <3>6. QED
      BY <3>1, <3>3, <3>5
  <2>6. IsFiniteSet(A) /\ Cardinality(A) <= Cardinality(B \cup {e})
    BY <2>2, <2>5, FS_Subset
  <2>7. Cardinality(A) \in Nat
    BY <2>6, FS_CardinalityType
  <2>8. Cardinality(B) < limit
    BY <1>15, <2>1
  <2>9. Cardinality(A) <= limit
    BY <2>4, <2>5, <2>6, <2>7, <2>8
  <2>10. QED
    BY <2>1, <2>9
<1>16. ASSUME NEW x \in Begun, NEW W
       PROVE  {f \in Begun' : started'[f] <= started'[x] /\ started'[x] < started'[f] + W}
               = {f \in Begun : started[f] <= started[x] /\ started[x] < started[f] + W}
  <2>1. started'[x] = started[x] /\ ~ (now <= started[x])
    BY <1>6, <1>10, <1>11, <1>12
  <2>2. QED
    BY <1>5, <1>6, <2>1
<1>17. CapsKept'
  <2> SUFFICES ASSUME NEW x \in Begun'
      PROVE  /\ Cardinality({f \in Begun' : started'[f] <= started'[x]
                                /\ started'[x] < started'[f] + Hour}) <= frozen'[x].hourly
             /\ Cardinality({f \in Begun' : started'[f] <= started'[x]
                                /\ started'[x] < started'[f] + Day}) <= frozen'[x].daily
    BY DEF CapsKept
  <2>1. CASE x = e
    <3>1. /\ Cardinality({f \in Begun : now < ended[f] + Hour}) \in Nat
          /\ Cardinality({f \in Begun : now < ended[f] + Day}) \in Nat
      <4>1. \A W : {f \in Begun : now < ended[f] + W} \in SUBSET Emails
        BY <1>10
      <4>2. QED
        BY <4>1, PacingAssumption, FS_Subset, FS_CardinalityType
    <3>2. /\ Cardinality({f \in Begun : now < ended[f] + Hour}) < frozen[e].hourly
          /\ Cardinality({f \in Begun : now < ended[f] + Day}) < frozen[e].daily
      BY <1>8, <1>9, <3>1 DEF Keeps
    <3>3. QED
      BY <1>2, <1>8, <1>11, <1>15, <2>1, <3>2
  <2>2. CASE x # e
    <3>1. x \in Begun
      BY <1>5, <2>2
    <3>2. QED
      BY <1>1, <1>2, <1>16, <3>1 DEF CapsKept
  <2>3. QED
    BY <2>1, <2>2
<1>18. DeferralFits'
  BY <1>2 DEF DeferralFits, DeferralOf, Unsettled
<1>19. QED
  BY <1>4, <1>13, <1>14, <1>17, <1>18 DEF PacingIInv

LEMMA ResolveKeeps ==
  ASSUME PacingIInv, NEW e \in Emails, Resolve(e)
  PROVE  PacingIInv'
<1>1. PacingTypeOK /\ Timed
  BY DEF PacingIInv
<1>2. PICK outcome \in {"accepted", "ambiguous"} : state' = [state EXCEPT ![e] = outcome]
  BY DEF Resolve
<1>3. /\ state[e] = "sending" /\ ended' = [ended EXCEPT ![e] = now] /\ settled' = Unsettled
      /\ UNCHANGED <<now, policy, slot, frozen, started>>
  BY DEF Resolve
<1>4. PacingTypeOK'
  BY <1>1, <1>2, <1>3 DEF PacingTypeOK, States, Unsettled
<1>5. Begun' = Begun /\ Resolved' = Resolved \cup {e} /\ e \in Begun /\ e \notin Resolved
  <2>1. \A x \in Emails : /\ x \in Begun' <=> x \in Begun
                          /\ x \in Resolved' <=> x \in Resolved \/ x = e
    BY <1>1, <1>2, <1>3 DEF Begun, Resolved, PacingTypeOK
  <2>2. QED
    BY <1>3, <2>1 DEF Begun, Resolved
<1>6. ended'[e] = now /\ \A x \in Resolved : ended'[x] = ended[x]
  BY <1>1, <1>3, <1>5 DEF PacingTypeOK, Resolved
<1>7. SendsSpaced' /\ CapsKept'
  BY <1>3, <1>5, <1>6, SendsStand
<1>8. Timed'
  <2>1. started[e] <= now /\ now \in Nat
    BY <1>1, <1>5 DEF Timed, PacingTypeOK
  <2>2. QED
    BY <1>1, <1>3, <1>5, <1>6, <2>1 DEF Timed
<1>9. DeferralFits'
  BY <1>3 DEF DeferralFits, DeferralOf, Unsettled
<1>10. QED
  BY <1>4, <1>7, <1>8, <1>9 DEF PacingIInv

LEMMA DeployKeeps ==
  ASSUME PacingIInv, NEW p \in Policies, Deploy(p)
  PROVE  PacingIInv'
<1>1. Begun' = Begun /\ Resolved' = Resolved
  BY DEF Deploy, Begun, Resolved
<1>2. PacingTypeOK'
  BY DEF PacingIInv, PacingTypeOK, Deploy, Unsettled
<1>3. SendsSpaced' /\ CapsKept'
  BY <1>1, SendsStand DEF Deploy
<1>4. Timed'
  BY <1>1 DEF PacingIInv, Timed, Deploy
<1>5. DeferralFits'
  BY DEF Deploy, DeferralFits, DeferralOf, Unsettled
<1>6. QED
  BY <1>2, <1>3, <1>4, <1>5 DEF PacingIInv

LEMMA TickKeeps ==
  ASSUME PacingIInv, Tick
  PROVE  PacingIInv'
<1>1. Begun' = Begun /\ Resolved' = Resolved
  BY DEF Tick, Begun, Resolved
<1>2. PacingTypeOK'
  BY DEF PacingIInv, PacingTypeOK, Tick
<1>3. SendsSpaced' /\ CapsKept'
  BY <1>1, SendsStand DEF Tick
<1>4. Timed'
  <2>1. now \in Nat /\ now' = now + 1 /\ slot' = slot /\ started' = started /\ ended' = ended
    BY DEF PacingIInv, PacingTypeOK, Tick
  <2>2. \A x \in Begun : slot[x] <= started[x] /\ started[x] <= now /\ started[x] \in Nat
    BY DEF PacingIInv, Timed, PacingTypeOK, Begun
  <2>3. \A x \in Resolved : started[x] <= ended[x] /\ ended[x] <= now /\ ended[x] \in Nat
    BY DEF PacingIInv, Timed, PacingTypeOK, Resolved
  <2>4. QED
    BY <1>1, <2>1, <2>2, <2>3 DEF Timed
<1>5. DeferralFits'
  <2>1. \A e : Actual(e)' = Actual(e)
    BY <1>1 DEF Actual
  <2>2. QED
    BY <1>1, <2>1, ZenonT(30) DEF PacingIInv, DeferralFits, DeferralOf, Keeps, Stricter, Tick
<1>6. QED
  BY <1>2, <1>3, <1>4, <1>5 DEF PacingIInv

LEMMA StepKeepsIInv == PacingIInv /\ [PacingNext]_pacingVars => PacingIInv'
<1> SUFFICES ASSUME PacingIInv, [PacingNext]_pacingVars PROVE PacingIInv'
  OBVIOUS
<1>1. ASSUME NEW e \in Emails, Refuse(e) \/ Skip(e) PROVE PacingIInv'
  BY <1>1, GiveUpKeeps DEF Refuse, Skip, AtBoundary
<1>2. CASE UNCHANGED pacingVars
  <2>1. Begun' = Begun /\ Resolved' = Resolved /\ \A e : Actual(e)' = Actual(e)
    BY <1>2 DEF pacingVars, Begun, Resolved, Actual
  <2>2. PacingTypeOK'
    BY <1>2 DEF PacingIInv, PacingTypeOK, pacingVars
  <2>3. SendsSpaced' /\ CapsKept'
    BY <1>2, <2>1, SendsStand DEF pacingVars
  <2>4. Timed'
    BY <1>2, <2>1 DEF PacingIInv, Timed, pacingVars
  <2>5. DeferralFits'
    BY <1>2, <2>1, ZenonT(30) DEF PacingIInv, DeferralFits, DeferralOf, Keeps, Stricter, pacingVars
  <2>6. QED
    BY <2>2, <2>3, <2>4, <2>5 DEF PacingIInv
<1>3. QED
  BY <1>1, <1>2, ApproveKeeps, SendKeeps, DeferKeeps, ResolveKeeps, DeployKeeps, TickKeeps
     DEF PacingNext

-----------------------------------------------------------------------------
(* EmailPacing: what follows from it.                                      *)

\* An email that comes back at the time it was put off to finds that time.
LEMMA DeferralIsHonoured ==
  ASSUME PacingIInv, NEW e \in Emails, AtBoundary(e), settled[e], Begun = Resolved
  PROVE  NextAttemptAt(e) <= now
<1>1. PacingTypeOK /\ Timed
  BY DEF PacingIInv
<1>2. PICK p, at, S : p = Stricter(policy, frozen[e]) /\ at = NextAttemptAt(e) /\ S = Actual(e)
  OBVIOUS
<1>3. Keeps(e, S, p, ended, slot[e])
  BY <1>2 DEF PacingIInv, DeferralFits, DeferralOf
<1>4. slot[e] \in Nat /\ now \in Nat /\ slot[e] <= now /\ ended \in [Emails -> Nat]
  BY <1>1 DEF PacingTypeOK, AtBoundary
<1>5. p \in PolicyType
  <2>1. policy \in Policies /\ frozen[e] \in Policies
    BY <1>1 DEF PacingTypeOK
  <2>2. QED
    BY <1>2, <2>1, StricterIs
<1>6. S \in SUBSET Emails /\ S \subseteq Resolved
  BY <1>2 DEF Actual, Begun
<1>7. Keeps(e, S, p, ended, now)
  BY <1>3, <1>4, <1>5, <1>6, KeepsOn
<1>8. NextSendAt(e, Deciding(e), p) = now
  BY <1>1, <1>2, <1>5, <1>6, <1>7, KeptIsFound
<1>9. ~ \E f \in Actual(e) : state[f] = "sending"
  BY <1>2, <1>6 DEF Resolved
<1>10. NextAttemptAt(e) = now
  BY <1>1, <1>2, <1>4, <1>8, <1>9, AttemptIs
<1>11. QED
  BY <1>4, <1>10

\* PacingIInv is an invariant: the type invariant, the order of slot, start and end
\* of a send, the three properties below, and where each deferral came from.
THEOREM PacingInvariant == PacingSpec => []PacingIInv
<1>1. PacingInit => PacingIInv
  BY PacingInitIInv
<1>2. PacingIInv /\ [PacingNext]_pacingVars => PacingIInv'
  BY StepKeepsIInv
<1>3. QED
  BY <1>1, <1>2, PTL DEF PacingSpec

\* SendsSpaced: of any two emails the later one began after the earlier one had
\* its outcome, and by the distance its approval was given under, whatever
\* settings the workers ran with in between.
THEOREM SendsAlwaysSpaced == PacingSpec => []SendsSpaced
<1>1. PacingIInv => SendsSpaced
  BY DEF PacingIInv
<1>2. QED
  BY <1>1, PacingInvariant, PTL

\* CapsKept: no window of an hour or of a day that ends with a send holds more
\* sends than the approval of that send allowed.
THEOREM CapsAlwaysKept == PacingSpec => []CapsKept
<1>1. PacingIInv => CapsKept
  BY DEF PacingIInv
<1>2. QED
  BY <1>1, PacingInvariant, PTL

\* DeferralHolds: an email that comes back at the time it was put off to is not
\* put off again, unless a send began, ended or is under way, or settings changed.
THEOREM DeferralsHold == PacingSpec => []DeferralHolds
<1>1. PacingIInv => DeferralHolds
  BY DeferralIsHonoured DEF DeferralHolds
<1>2. QED
  BY <1>1, PacingInvariant, PTL

-----------------------------------------------------------------------------
(* MailSync: the inductive invariant.                                      *)

Paging == {"listing", "fetching", "saving"}
AfterReplies == {"reopening", "choosing", "bodies", "reading", "capturing"}

\* What is settled with these rows and these losses.
SettledBy(d, rows, gone) == rows \union gone \union (IF d = "creator" THEN Foreign ELSE {})

\* Of a label with so much mail, what lies between a page token and the top of
\* its pass is settled or pending; a pass that has not begun has neither.
Covers(mail, handled, l, token, top, pending) ==
  /\ token <= mail
  /\ pending \subseteq {<<l, i>> : i \in 1 .. mail}
  /\ top = None => token = 0 /\ pending = {}
  /\ top # None =>
       /\ top <= mail
       /\ \A i \in (IF token = 0 THEN 1 ELSE token) .. top : <<l, i>> \in pending \union handled

\* A stamp vouches for what is handled, or tells who was overtaken.
Vouched(stamp, l, handled) ==
  IF stamp.top = None THEN stamp.overtaken ELSE \A i \in 1 .. stamp.top : <<l, i>> \in handled

\* The cursor waits for nothing that has a row, and vouches only for what is
\* settled.
SoundCursor(c, d, mail, rows, gone) ==
  c # None =>
    /\ Covers(mail[c.label], SettledBy(d, rows, gone), c.label, c.token, c.top, c.pending)
    /\ c.pending \intersect rows = {}
    /\ c.done # None => Vouched(c.done, c.label, SettledBy(d, rows, gone))

\* Every change of the cursor's label or contents is a new revision; a save is
\* under way only on the revision it was made for.
GoesBy(run, c) ==
  /\ c # None /\ run.rev <= c.revision
  /\ run.rev = c.revision => run.label = c.label
  /\ run.pc = "saving" => run.rev = c.revision

\* After its save an execution finds the row with a pass under way, unless the
\* row was changed meanwhile.
KeepsPass(run, c) ==
  /\ c # None /\ run.rev <= c.revision
  /\ run.rev = c.revision => run.label = c.label
  /\ ~ run.overtaken /\ run.rev = c.revision => c.top # None

\* What an execution has read is its own page, and was there or is lost; only
\* on an old revision does it hold messages that have a row by now.
ReadsItsPage(run, c, rows, gone) ==
  /\ run.top # None
  /\ run.got \subseteq run.eaten /\ run.eaten \subseteq run.pending
  /\ run.eaten \subseteq run.got \union gone
  /\ run.rev = c.revision => run.pending \intersect rows = {}

\* An execution is one of its desk's, and covers its label as it goes.
SoundRun(run, c, d, mail, rows, gone) ==
  /\ run.pc = "saving" => d = "career"
  /\ run.pc \in AfterReplies => d = "creator" /\ KeepsPass(run, c)
  /\ run.pc \in Paging \union {"opening", "reopening"} => ~ run.overtaken
  /\ run.pc \notin {"new", "done"} => run.label \in Labels
  /\ run.pc \in Paging =>
       /\ GoesBy(run, c)
       /\ Covers(mail[run.label], SettledBy(d, rows, gone), run.label, run.token, run.top,
                 run.pending)
  /\ run.pc \in {"opening", "listing"} => run.got = {} /\ run.eaten = {}
  /\ run.pc \in {"fetching", "saving"} => ReadsItsPage(run, c, rows, gone)

CursorSound == SoundCursor(cursor, desk, arrived, stored, lost)
RunsSound == \A r \in Runs : SoundRun(runs[r], cursor, desk, arrived, stored, lost)

OneSaves == \A r, q \in Runs : runs[r].pc = "saving" /\ runs[q].pc = "saving" => r = q

\* Only a message with a row has an application.
LinkedHaveRows == \A m \in Messages : link[m] # None => m \in stored

IInv ==
  /\ TypeOK
  /\ CursorSound
  /\ RunsSound
  /\ OneSaves
  /\ LinkedHaveRows
  /\ ThreadsAgree

-----------------------------------------------------------------------------
(* MailSync: data.                                                         *)

\* What is known of the executions and of a scene.
LEMMA SceneFacts ==
  ASSUME TypeOK
  PROVE  /\ desk \in {"career", "creator"}
         /\ \A l \in Labels : arrived[l] \in Nat /\ scene.mail[l] \in Nat
         /\ \A l \in Labels : \A i \in 1 .. arrived[l] : <<l, i>> \in Messages
<1>1. desk \in {"career", "creator"} /\ scene.mail \in [Labels -> Nat] /\ scene \in Scenes
  BY MailAssumption DEF TypeOK, desk
<1>2. ASSUME NEW l \in Labels, NEW i \in 1 .. arrived[l] PROVE <<l, i>> \in Messages
  <2>1. arrived[l] \in Nat /\ arrived[l] <= scene.mail[l] /\ scene.mail[l] \in Nat
    BY <1>1 DEF TypeOK
  <2>2. i \in 1 .. scene.mail[l]
    BY <2>1
  <2>3. <<l, i>> \in {<<l, j>> : j \in 1 .. scene.mail[l]}
    BY <2>2
  <2>4. <<l, i>> \in Mailbox(scene)
    BY <2>3 DEF Mailbox
  <2>5. QED
    BY <1>1, <2>4 DEF Messages
<1>3. QED
  BY <1>1, <1>2 DEF TypeOK

\* An execution that has not begun or is over.
LEMMA BlankTyped ==
  /\ Blank \in Executions /\ Blank.pc = "new"
  /\ \A r : End(r) \in Executions /\ End(r).pc = "done"
<1> DEFINE V == [Range(Thread) -> Bindings \union {None}] \union {Blank.view}
<1>1. Blank.view \in V
  OBVIOUS
<1> HIDE DEF V
<1>2. Blank \in [pc : {"new", "opening", "listing", "fetching", "saving", "reopening", "choosing",
                       "bodies", "reading", "capturing", "done"},
                 live : BOOLEAN, label : Labels \union {None}, rev : Nat, token : Nat,
                 pending : SUBSET Messages, top : Tops, got : SUBSET Messages,
                 eaten : SUBSET Messages, overtaken : BOOLEAN, view : V, known : SUBSET Apps, todo : SUBSET Messages,
                 claim : [id : Messages, attempt : Nat] \union {None},
                 full : {"unavailable", "error", "complete", None}]
  BY <1>1 DEF Blank, Tops
<1>3. Blank \in Executions
  BY <1>2 DEF Executions, V
<1>4. \A r : End(r) \in Executions /\ End(r).pc = "done"
  BY <1>3 DEF End, Executions, Blank
<1>5. QED
  BY <1>3, <1>4 DEF Blank

\* A step of one execution leaves the others alone.
LEMMA RunSet ==
  ASSUME runs \in [Runs -> Executions], NEW r \in Runs, NEW f \in Executions, SetRun(r, f)
  PROVE  /\ runs' \in [Runs -> Executions]
         /\ runs'[r] = f
         /\ \A q \in Runs \ {r} : runs'[q] = runs[q]
<1>1. QED
  BY DEF SetRun

-----------------------------------------------------------------------------
(* MailSync: coverage.                                                     *)

\* Mail that arrives or is settled uncovers nothing.
LEMMA CoversMore ==
  ASSUME NEW mail \in Nat, NEW more \in Nat, mail <= more,
         NEW handled, NEW larger, handled \subseteq larger,
         NEW l, NEW token \in Nat, NEW top \in Tops, NEW pending,
         Covers(mail, handled, l, token, top, pending)
  PROVE  Covers(more, larger, l, token, top, pending)
<1>1. token <= more /\ (top # None => top <= more)
  BY DEF Covers, Tops
<1>2. pending \subseteq {<<l, i>> : i \in 1 .. more}
  <2>1. \A i \in 1 .. mail : i \in 1 .. more
    OBVIOUS
  <2>2. QED
    BY <2>1 DEF Covers
<1>3. QED
  BY <1>1, <1>2 DEF Covers

\* What is no longer pending because it is settled stays covered.
LEMMA CoversLess ==
  ASSUME NEW mail, NEW handled, NEW l, NEW token, NEW top, NEW pending, NEW left,
         left \subseteq pending, pending \subseteq left \union handled,
         Covers(mail, handled, l, token, top, pending)
  PROVE  Covers(mail, handled, l, token, top, left)
<1>1. top = None => left = {}
  BY DEF Covers
<1>2. QED
  BY <1>1 DEF Covers

\* The next page goes on where the pass under way came to, or begins a new one.
LEMMA PageCovers ==
  ASSUME NEW l \in Labels, arrived[l] \in Nat, NEW handled, NEW token \in Nat, NEW top \in Tops,
         Covers(arrived[l], handled, l, token, top, {})
  PROVE  LET page == Page(l, token)
         IN  /\ page.token \in Nat /\ page.ids \subseteq {<<l, i>> : i \in 1 .. arrived[l]}
             /\ (IF token = 0 THEN arrived[l] ELSE top) \in Nat
             /\ Covers(arrived[l], handled, l, page.token,
                       IF token = 0 THEN arrived[l] ELSE top, page.ids)
<1> DEFINE high == From(l, token)
           low == IF high > PageSize THEN high - PageSize + 1 ELSE 1
           next == IF low > 1 THEN low ELSE 0
           ids == {<<l, i>> : i \in low .. high}
           newTop == IF token = 0 THEN arrived[l] ELSE top
<1>1. /\ Page(l, token).ids = ids /\ Page(l, token).token = next
  BY DEF Page
<1>2. PageSize \in Nat \ {0}
  BY MailAssumption
<1>3. high \in Nat /\ high <= arrived[l] /\ (token # 0 => high = token - 1) /\ (token = 0 => high = arrived[l])
  BY DEF From, Covers
<1> HIDE DEF high
<1>4. low \in Nat \ {0} /\ next \in Nat /\ (next # 0 => next = low) /\ (next = 0 => low = 1) /\ next <= arrived[l]
  BY <1>2, <1>3
<1> HIDE DEF low
<1>5. ids \subseteq {<<l, i>> : i \in 1 .. arrived[l]}
  <2>1. \A i \in low .. high : i \in 1 .. arrived[l]
    BY <1>3, <1>4
  <2>2. QED
    BY <2>1
<1>6. newTop \in Nat /\ newTop <= arrived[l] /\ newTop # None
  BY MailAssumption DEF Covers, Tops
<1>7. ASSUME NEW i \in (IF next = 0 THEN 1 ELSE next) .. newTop
      PROVE  <<l, i>> \in ids \union handled
  <2>1. i \in low .. newTop
    BY <1>4
  <2>2. CASE i <= high
    <3>1. i \in low .. high
      BY <1>3, <1>4, <1>6, <2>1, <2>2
    <3>2. QED
      BY <3>1
  <2>3. CASE i > high
    <3>1. token # 0 /\ newTop = top /\ i \in token .. top
      BY <1>3, <1>4, <1>6, <2>1, <2>3
    <3>2. QED
      BY <1>6, <3>1 DEF Covers
  <2>4. QED
    BY <1>3, <1>4, <1>6, <2>1, <2>2, <2>3
<1> HIDE DEF ids, next, newTop
<1>8. Covers(arrived[l], handled, l, next, newTop, ids)
  BY <1>4, <1>5, <1>6, <1>7 DEF Covers
<1>9. QED
  BY <1>1, <1>4, <1>5, <1>6, <1>8 DEF newTop

-----------------------------------------------------------------------------
(* MailSync: threads and their applications.                               *)

Tables == [Range(Thread) -> Bindings \union {None}]
Links == [Messages -> Apps \union {None}]

\* Rows, links, bindings and events tell the same story.
Agree(rows, links, table, told) ==
  /\ \A m \in rows : links[m] # None =>
       /\ table[Thread[m]] # None
       /\ table[Thread[m]].app = links[m] /\ table[Thread[m]].domain = Domain[m]
       /\ <<links[m], m>> \in told
  /\ \A e \in told : links[e[2]] = e[1]
  /\ \A m \in Messages : links[m] # None => m \in rows

\* What was decided is not taken back.
Stands(links, table, newLinks, newTable) ==
  /\ \A m \in Messages : links[m] # None => newLinks[m] = links[m]
  /\ \A t \in Range(Thread) : table[t] # None =>
       /\ newTable[t] # None /\ newTable[t].app = table[t].app
       /\ table[t].by = "manual" => newTable[t].by = "manual"

\* The tables agree in every state of the invariant.
LEMMA AgreeIsInvariant ==
  ASSUME ThreadsAgree, LinkedHaveRows
  PROVE  Agree(stored, link, threads, events)
<1>1. QED
  BY DEF ThreadsAgree, LinkedHaveRows, Agree

\* A binding keeps the application and the sender of its thread, and a person's
\* decision (_bind_thread).
LEMMA BindKeeps ==
  ASSUME NEW table \in Tables, NEW m \in Messages, NEW a \in Apps, MayBind(table, m, a),
         NEW by \in {"gmail", "manual"}
  PROVE  /\ Bind(table, m, a, by) \in Tables
         /\ Bind(table, m, a, by)[Thread[m]] # None
         /\ Bind(table, m, a, by)[Thread[m]].app = a
         /\ Bind(table, m, a, by)[Thread[m]].domain = Domain[m]
         /\ \A t \in Range(Thread) : table[t] # None =>
              /\ Bind(table, m, a, by)[t] # None
              /\ Bind(table, m, a, by)[t].app = table[t].app
              /\ Bind(table, m, a, by)[t].domain = table[t].domain
              /\ table[t].by = "manual" => Bind(table, m, a, by)[t].by = "manual"
<1>1. Thread[m] \in Range(Thread) /\ Domain[m] \in Range(Domain) /\ None \notin Bindings
  BY MailAssumption DEF Range
<1>2. PICK b : b = [app |-> a, domain |-> Domain[m],
                    by |-> IF table[Thread[m]] # None /\ table[Thread[m]].by = "manual"
                           THEN "manual" ELSE by]
  OBVIOUS
<1>3. b \in Bindings /\ b.app = a /\ b.domain = Domain[m] /\ b # None
  BY <1>1, <1>2 DEF Bindings
<1>4. table[Thread[m]] # None /\ table[Thread[m]].by = "manual" => b.by = "manual"
  BY <1>2
<1>5. Bind(table, m, a, by) = [table EXCEPT ![Thread[m]] = b]
  BY <1>2 DEF Bind
<1>6. table[Thread[m]] # None => table[Thread[m]].app = a /\ table[Thread[m]].domain = Domain[m]
  BY DEF MayBind
<1>7. /\ Bind(table, m, a, by) \in Tables
      /\ Bind(table, m, a, by)[Thread[m]] = b
      /\ \A t \in Range(Thread) \ {Thread[m]} : Bind(table, m, a, by)[t] = table[t]
  BY <1>1, <1>3, <1>5 DEF Tables
<1>8. QED
  BY <1>3, <1>4, <1>6, <1>7

\* A message that is matched with an application agrees with its thread, and no
\* other message is affected.
LEMMA BindAgrees ==
  ASSUME NEW rows \in SUBSET Messages, NEW links \in Links, NEW table \in Tables,
         NEW told \in SUBSET (Apps \X Messages), Agree(rows, links, table, told),
         NEW m \in Messages, NEW a \in Apps, MayBind(table, m, a), links[m] \in {None, a},
         NEW by \in {"gmail", "manual"},
         NEW new, new = Bind(table, m, a, by), NEW bound, bound = [links EXCEPT ![m] = a]
  PROVE  /\ Agree(rows \union {m}, bound, new, told \union {<<a, m>>})
         /\ Stands(links, table, bound, new)
         /\ bound \in Links /\ new \in Tables
         /\ told \union {<<a, m>>} \in SUBSET (Apps \X Messages)
<1>1. new = Bind(table, m, a, by)
  OBVIOUS
<1>2. bound = [links EXCEPT ![m] = a]
  OBVIOUS
<1>3. /\ new \in Tables /\ new[Thread[m]] # None
      /\ new[Thread[m]].app = a /\ new[Thread[m]].domain = Domain[m]
      /\ \A t \in Range(Thread) : table[t] # None =>
           /\ new[t] # None /\ new[t].app = table[t].app /\ new[t].domain = table[t].domain
           /\ table[t].by = "manual" => new[t].by = "manual"
  BY <1>1, BindKeeps
<1>4. bound \in Links /\ bound[m] = a /\ \A k \in Messages \ {m} : bound[k] = links[k]
  BY <1>2 DEF Links
<1>5. \A k \in Messages : Thread[k] \in Range(Thread)
  BY MailAssumption DEF Range
<1>6. a # None
  BY MailAssumption
<1>7. ASSUME NEW k \in rows \union {m}, bound[k] # None
      PROVE  /\ new[Thread[k]] # None
             /\ new[Thread[k]].app = bound[k] /\ new[Thread[k]].domain = Domain[k]
             /\ <<bound[k], k>> \in told \union {<<a, m>>}
  <2>1. CASE k = m
    BY <1>3, <1>4, <2>1
  <2>2. CASE k # m
    <3>1. k \in rows /\ k \in Messages /\ bound[k] = links[k]
      BY <1>4, <2>2
    <3>2. /\ table[Thread[k]] # None /\ <<links[k], k>> \in told
          /\ table[Thread[k]].app = links[k] /\ table[Thread[k]].domain = Domain[k]
      BY <1>7, <3>1 DEF Agree
    <3>3. QED
      BY <1>3, <1>5, <3>1, <3>2
  <2>3. QED
    BY <2>1, <2>2
<1>8. ASSUME NEW e \in told \union {<<a, m>>} PROVE bound[e[2]] = e[1]
  <2>1. CASE e = <<a, m>>
    BY <1>4, <2>1
  <2>2. CASE e \in told
    <3>1. e[2] \in Messages /\ e[1] \in Apps /\ links[e[2]] = e[1]
      BY <2>2 DEF Agree
    <3>2. e[1] # None
      BY <3>1, MailAssumption
    <3>3. QED
      BY <1>4, <3>1, <3>2
  <2>3. QED
    BY <2>1, <2>2
<1>9. \A k \in Messages : bound[k] # None => k \in rows \union {m}
  BY <1>4 DEF Agree
<1>10. Agree(rows \union {m}, bound, new, told \union {<<a, m>>})
  BY <1>7, <1>8, <1>9 DEF Agree
<1>11. Stands(links, table, bound, new)
  BY <1>3, <1>4 DEF Stands
<1>12. QED
  BY <1>1, <1>2, <1>3, <1>4, <1>10, <1>11

\* An application that is matched is one that the transaction read.
LEMMA CorrelateTyped ==
  ASSUME NEW m, NEW apps \in SUBSET Apps, NEW table
  PROVE  Correlate(m, apps, table) \in Apps \union {None}
<1> DEFINE b == table[Thread[m]]
           hits == Evidence[m] \intersect Dated[m] \intersect apps
<1>1. CASE b # None
  BY <1>1 DEF Correlate
<1>2. CASE b = None /\ Cardinality(hits) = 1
  <2>1. hits # {}
    BY <1>2, FS_EmptySet
  <2>2. (CHOOSE a \in hits : TRUE) \in hits
    BY <2>1
  <2>3. Correlate(m, apps, table) = CHOOSE a \in hits : TRUE
    BY <1>2 DEF Correlate
  <2>4. QED
    BY <2>2, <2>3
<1>3. CASE b = None /\ Cardinality(hits) # 1
  BY <1>3 DEF Correlate
<1>4. QED
  BY <1>1, <1>2, <1>3

-----------------------------------------------------------------------------
(* MailSync: the batch of a save, from the newest message down.            *)

Views == Tables \union {Blank.view}
Accounts == [ok : BOOLEAN, rows : SUBSET Messages, link : Links, threads : Tables,
             view : Views, events : SUBSET (Apps \X Messages)]

\* A binding added to the list a transaction has read keeps it typed.
LEMMA ViewTyped ==
  ASSUME NEW view \in Views, NEW m \in Messages, NEW a \in Apps, NEW by \in {"gmail", "manual"}
  PROVE  Bind(view, m, a, by) \in Views
<1>1. Thread[m] \in Range(Thread) /\ Domain[m] \in Range(Domain)
  BY MailAssumption DEF Range
<1>2. PICK b : b = [app |-> a, domain |-> Domain[m],
                    by |-> IF view[Thread[m]] # None /\ view[Thread[m]].by = "manual"
                           THEN "manual" ELSE by]
  OBVIOUS
<1>3. b \in Bindings
  BY <1>1, <1>2 DEF Bindings
<1>4. Bind(view, m, a, by) = [view EXCEPT ![Thread[m]] = b]
  BY <1>2 DEF Bind
<1>5. CASE view \in Tables
  BY <1>1, <1>3, <1>4, <1>5 DEF Tables, Views
<1>6. CASE view = Blank.view
  <2>1. view = [t \in {} |-> None]
    BY <1>6 DEF Blank
  <2>2. [view EXCEPT ![Thread[m]] = b] = view
    BY <2>1
  <2>3. QED
    BY <1>4, <1>6, <2>2 DEF Views
<1>7. QED
  BY <1>5, <1>6 DEF Views

\* An account is made of its parts.
LEMMA AccountTyped ==
  ASSUME NEW ok \in BOOLEAN, NEW rows \in SUBSET Messages, NEW links \in Links,
         NEW table \in Tables, NEW view \in Views, NEW told \in SUBSET (Apps \X Messages)
  PROVE  [ok |-> ok, rows |-> rows, link |-> links, threads |-> table, view |-> view,
          events |-> told] \in Accounts
<1>1. QED
  BY DEF Accounts

\* What is saved of one message: nothing when it has a row, its row, its row
\* with everything that follows from its application, or the end of the save.
LEMMA StoreCases ==
  ASSUME NEW r \in Runs, runs[r].known \in SUBSET Apps, NEW acc \in Accounts, NEW m \in Messages
  PROVE  LET new == Store(r, acc, m)
         IN  /\ new \in Accounts
             /\ m \in stored \/ ~ acc.ok => new = acc
             /\ m \notin stored /\ acc.ok =>
                  \/ ~ new.ok /\ new.rows = acc.rows /\ new.link = acc.link
                     /\ new.threads = acc.threads /\ new.events = acc.events
                  \/ new.ok /\ new.rows = acc.rows \union {m} /\ new.link = acc.link
                     /\ new.threads = acc.threads /\ new.events = acc.events
                  \/ \E a \in Apps :
                       /\ MayBind(acc.threads, m, a)
                       /\ new.ok /\ new.rows = acc.rows \union {m}
                       /\ new.link = [acc.link EXCEPT ![m] = a]
                       /\ new.threads = Bind(acc.threads, m, a, "gmail")
                       /\ new.events = acc.events \union {<<a, m>>}
<1>1. PICK a : a = Correlate(m, runs[r].known, acc.view)
  OBVIOUS
<1>2. a \in Apps \union {None}
  BY <1>1, CorrelateTyped
<1>3. PICK new : new = Store(r, acc, m)
  OBVIOUS
<1>4. CASE m \in stored \/ ~ acc.ok
  <2>1. new = acc
    BY <1>3, <1>4 DEF Store
  <2>2. QED
    BY <1>3, <1>4, <2>1
<1>5. CASE m \notin stored /\ acc.ok /\ a = None
  <2>1. new = [acc EXCEPT !.rows = acc.rows \union {m}]
    BY <1>1, <1>3, <1>5 DEF Store
  <2>2. /\ new \in Accounts /\ new.ok /\ new.rows = acc.rows \union {m} /\ new.link = acc.link
        /\ new.threads = acc.threads /\ new.events = acc.events
    BY <1>5, <2>1 DEF Accounts
  <2>3. QED
    BY <1>3, <1>5, <2>2
<1>6. CASE m \notin stored /\ acc.ok /\ a # None /\ ~ MayBind(acc.threads, m, a)
  <2>1. new = [acc EXCEPT !.ok = FALSE]
    BY <1>1, <1>3, <1>6 DEF Store
  <2>2. /\ new \in Accounts /\ ~ new.ok /\ new.rows = acc.rows /\ new.link = acc.link
        /\ new.threads = acc.threads /\ new.events = acc.events
    BY <1>6, <2>1 DEF Accounts
  <2>3. QED
    BY <1>3, <1>6, <2>2
<1>7. CASE m \notin stored /\ acc.ok /\ a # None /\ MayBind(acc.threads, m, a)
  <2>1. a \in Apps
    BY <1>2, <1>7
  <2>2. PICK view : view = IF acc.view[Thread[m]] = None THEN Bind(acc.view, m, a, "gmail")
                           ELSE acc.view
    OBVIOUS
  <2>3. new = [ok |-> TRUE, rows |-> acc.rows \union {m}, link |-> [acc.link EXCEPT ![m] = a],
               threads |-> Bind(acc.threads, m, a, "gmail"), view |-> view,
               events |-> acc.events \union {<<a, m>>}]
    BY <1>1, <1>3, <1>7, <2>2 DEF Store
  <2>4. /\ acc.rows \in SUBSET Messages /\ acc.link \in Links /\ acc.threads \in Tables
        /\ acc.view \in Views /\ acc.events \in SUBSET (Apps \X Messages)
    BY DEF Accounts
  <2>5. view \in Views
    BY <2>1, <2>2, <2>4, ViewTyped
  <2>6. [acc.link EXCEPT ![m] = a] \in Links
    BY <2>1, <2>4 DEF Links
  <2>7. Bind(acc.threads, m, a, "gmail") \in Tables
    BY <1>7, <2>1, <2>4, BindKeeps
  <2>8. new \in Accounts
    <3>1. PICK links \in Links : links = [acc.link EXCEPT ![m] = a]
      BY <2>6
    <3>2. PICK table \in Tables : table = Bind(acc.threads, m, a, "gmail")
      BY <2>7
    <3>3. PICK rows \in SUBSET Messages : rows = acc.rows \union {m}
      BY <2>4
    <3>4. PICK told \in SUBSET (Apps \X Messages) : told = acc.events \union {<<a, m>>}
      <4>1. acc.events \union {<<a, m>>} \in SUBSET (Apps \X Messages)
        BY <2>1, <2>4
      <4>2. QED
        BY <4>1
    <3>5. new = [ok |-> TRUE, rows |-> rows, link |-> links, threads |-> table, view |-> view,
                 events |-> told]
      BY <2>3, <3>1, <3>2, <3>3, <3>4
    <3>6. QED
      BY <2>5, <3>5 DEF Accounts
  <2>9. /\ new.ok /\ new.rows = acc.rows \union {m}
        /\ new.link = [acc.link EXCEPT ![m] = a]
        /\ new.threads = Bind(acc.threads, m, a, "gmail")
        /\ new.events = acc.events \union {<<a, m>>}
    BY <2>3
  <2>10. QED
    BY <1>3, <1>7, <2>1, <2>8, <2>9
<1>8. QED
  BY <1>2, <1>4, <1>5, <1>6, <1>7

\* The rows saved so far are those of the messages down to a position.
SavedDownTo(r, acc, bottom) ==
  /\ acc \in Accounts
  /\ stored \subseteq acc.rows
  /\ acc.rows \subseteq stored \union {m \in runs[r].got : m[2] > bottom}
  /\ acc.ok => {m \in runs[r].got : m[2] > bottom} \subseteq acc.rows
  /\ Agree(acc.rows, acc.link, acc.threads, acc.events)
  /\ Stands(link, threads, acc.link, acc.threads)

\* What stands through two changes stands through both.
LEMMA StandsOn ==
  ASSUME NEW links, NEW table, NEW links2, NEW table2, NEW links3, NEW table3,
         Stands(links, table, links2, table2), Stands(links2, table2, links3, table3)
  PROVE  Stands(links, table, links3, table3)
<1>1. QED
  BY DEF Stands

\* One message more.
LEMMA SaveOne ==
  ASSUME NEW r \in Runs, runs[r].known \in SUBSET Apps, stored \in SUBSET Messages,
         NEW l, l = runs[r].label, NEW i \in Nat \ {0},
         runs[r].got \subseteq Messages, \A m \in runs[r].got : m = <<l, m[2]>> /\ m[2] \in Nat,
         NEW acc, SavedDownTo(r, acc, i)
  PROVE  SavedDownTo(r, SaveAt(r, acc, i), i - 1)
<1> DEFINE got == runs[r].got
           above == {k \in got : k[2] > i}
           below == {k \in got : k[2] > i - 1}
<1>1. PICK m : m = <<l, i>>
  OBVIOUS
<1>2. PICK new : new = SaveAt(r, acc, i)
  OBVIOUS
<1>3. above \subseteq below /\ (m \in got => m \in below /\ m \notin above)
  BY <1>1
<1>4. below \subseteq above \union {m}
  <2> SUFFICES ASSUME NEW k \in below, k \notin above PROVE k = m
    OBVIOUS
  <2>1. k[2] \in Nat /\ k[2] > i - 1 /\ ~(k[2] > i) /\ k = <<l, k[2]>>
    OBVIOUS
  <2>2. k[2] = i
    BY <2>1
  <2>3. QED
    BY <1>1, <2>1, <2>2
<1>5. /\ acc \in Accounts /\ stored \subseteq acc.rows /\ acc.rows \subseteq stored \union above
      /\ acc.ok => above \subseteq acc.rows
      /\ Agree(acc.rows, acc.link, acc.threads, acc.events)
      /\ Stands(link, threads, acc.link, acc.threads)
  BY DEF SavedDownTo
<1>6. SUFFICES /\ new \in Accounts /\ stored \subseteq new.rows
               /\ new.rows \subseteq stored \union below
               /\ new.ok => below \subseteq new.rows
               /\ Agree(new.rows, new.link, new.threads, new.events)
               /\ Stands(link, threads, new.link, new.threads)
  BY <1>2 DEF SavedDownTo
<1>7. m \in got => new = Store(r, acc, m)
  BY <1>1, <1>2 DEF SaveAt
<1>8. m \notin got => new = acc
  BY <1>1, <1>2 DEF SaveAt
<1> HIDE DEF above, below
<1>9. CASE m \notin got
  <2>1. m \notin below
    BY <1>9 DEF below
  <2>2. QED
    BY <1>3, <1>4, <1>5, <1>8, <1>9, <2>1
<1>10. CASE m \in got /\ (m \in stored \/ ~ acc.ok)
  <2>1. m \in Messages
    BY <1>10
  <2>2. new = acc
    BY <1>5, <1>7, <1>10, <2>1, StoreCases
  <2>3. new.ok => below \subseteq new.rows
    BY <1>4, <1>5, <1>10, <2>2
  <2>4. new.rows \subseteq stored \union below
    BY <1>3, <1>5, <2>2
  <2>5. QED
    BY <1>5, <2>2, <2>3, <2>4
<1>11. CASE m \in got /\ m \notin stored /\ acc.ok
  <2>1. m \in Messages /\ m \notin acc.rows /\ m \in below
    BY <1>3, <1>5, <1>11
  <2>2. acc.link[m] = None
    BY <1>5, <2>1 DEF Agree
  <2>3. /\ acc.rows \in SUBSET Messages /\ acc.link \in Links /\ acc.threads \in Tables
        /\ acc.events \in SUBSET (Apps \X Messages)
    BY <1>5 DEF Accounts
  <2>4. /\ new \in Accounts
        /\ \/ ~ new.ok /\ new.rows = acc.rows /\ new.link = acc.link
              /\ new.threads = acc.threads /\ new.events = acc.events
           \/ new.ok /\ new.rows = acc.rows \union {m} /\ new.link = acc.link
              /\ new.threads = acc.threads /\ new.events = acc.events
           \/ \E a \in Apps :
                /\ MayBind(acc.threads, m, a)
                /\ new.ok /\ new.rows = acc.rows \union {m}
                /\ new.link = [acc.link EXCEPT ![m] = a]
                /\ new.threads = Bind(acc.threads, m, a, "gmail")
                /\ new.events = acc.events \union {<<a, m>>}
    BY <1>5, <1>7, <1>11, <2>1, StoreCases
  <2>5. CASE ~ new.ok /\ new.rows = acc.rows /\ new.link = acc.link
             /\ new.threads = acc.threads /\ new.events = acc.events
    BY <1>3, <1>5, <2>4, <2>5
  <2>6. CASE new.ok /\ new.rows = acc.rows \union {m} /\ new.link = acc.link
             /\ new.threads = acc.threads /\ new.events = acc.events
    <3>1. Agree(acc.rows \union {m}, acc.link, acc.threads, acc.events)
      BY <1>5, <2>2 DEF Agree
    <3>2. QED
      BY <1>3, <1>4, <1>5, <1>11, <2>1, <2>4, <2>6, <3>1
  <2>7. CASE \E a \in Apps :
               /\ MayBind(acc.threads, m, a)
               /\ new.ok /\ new.rows = acc.rows \union {m}
               /\ new.link = [acc.link EXCEPT ![m] = a]
               /\ new.threads = Bind(acc.threads, m, a, "gmail")
               /\ new.events = acc.events \union {<<a, m>>}
    <3>1. PICK a \in Apps :
               /\ MayBind(acc.threads, m, a)
               /\ new.ok /\ new.rows = acc.rows \union {m}
               /\ new.link = [acc.link EXCEPT ![m] = a]
               /\ new.threads = Bind(acc.threads, m, a, "gmail")
               /\ new.events = acc.events \union {<<a, m>>}
      BY <2>7
    <3>2. /\ Agree(acc.rows \union {m}, new.link, new.threads, acc.events \union {<<a, m>>})
          /\ Stands(acc.link, acc.threads, new.link, new.threads)
      <4>1. PICK rows, links, table, told, bound, next :
              /\ rows = acc.rows /\ links = acc.link /\ table = acc.threads /\ told = acc.events
              /\ bound = new.link /\ next = new.threads
        OBVIOUS
      <4>2. /\ rows \in SUBSET Messages /\ links \in Links /\ table \in Tables
            /\ told \in SUBSET (Apps \X Messages) /\ Agree(rows, links, table, told)
        BY <1>5, <2>3, <4>1
      <4>3. /\ MayBind(table, m, a) /\ links[m] \in {None, a}
            /\ next = Bind(table, m, a, "gmail") /\ bound = [links EXCEPT ![m] = a]
        BY <2>2, <3>1, <4>1
      <4>4. "gmail" \in {"gmail", "manual"}
        OBVIOUS
      <4>5. /\ Agree(rows \union {m}, bound, next, told \union {<<a, m>>})
            /\ Stands(links, table, bound, next)
        BY <2>1, <4>2, <4>3, <4>4, BindAgrees
      <4>6. QED
        BY <4>1, <4>5
    <3>3. Agree(new.rows, new.link, new.threads, new.events)
      BY <3>1, <3>2
    <3>4. Stands(acc.link, acc.threads, new.link, new.threads)
      BY <3>2
    <3>5. Stands(link, threads, new.link, new.threads)
      BY <1>5, <3>4, StandsOn
    <3>6. QED
      BY <1>3, <1>4, <1>5, <1>11, <2>1, <2>4, <3>1, <3>3, <3>5
  <2>8. QED
    BY <2>4, <2>5, <2>6, <2>7
<1>12. QED
  BY <1>9, <1>10, <1>11

\* One position of the batch leaves an account.
LEMMA SaveAtTyped ==
  ASSUME NEW r \in Runs, runs[r].known \in SUBSET Apps, runs[r].got \subseteq Messages,
         NEW acc \in Accounts, NEW i
  PROVE  SaveAt(r, acc, i) \in Accounts
<1>1. PICK m : m = <<runs[r].label, i>>
  OBVIOUS
<1>2. CASE m \in runs[r].got
  BY <1>1, <1>2, StoreCases DEF SaveAt
<1>3. CASE m \notin runs[r].got
  BY <1>1, <1>3 DEF SaveAt
<1>4. QED
  BY <1>2, <1>3

\* The outcome of a save is reached message by message.
LEMMA OutcomeRounds ==
  ASSUME NEW r \in Runs, runs[r].known \in SUBSET Apps, runs[r].got \subseteq Messages,
         NEW mail \in Nat, mail = arrived[runs[r].label], Unsaved(r) \in Accounts
  PROVE  \E f : /\ f[0] = Unsaved(r)
                /\ \A n \in Nat : f[n + 1] = SaveAt(r, f[n], mail - n)
                /\ Outcome(r) = f[mail]
<1> DEFINE Saved[n \in Nat] ==
             IF n = 0 THEN Unsaved(r) ELSE SaveAt(r, Saved[n - 1], arrived[runs[r].label] + 1 - n)
<1>1. PICK F \in [Nat \X Accounts -> Accounts] :
        \A n \in Nat : \A acc \in Accounts : F[<<n, acc>>] = SaveAt(r, acc, mail - n)
  <2> DEFINE G == [y \in Nat \X Accounts |-> SaveAt(r, y[2], mail - y[1])]
  <2>1. \A y \in Nat \X Accounts : SaveAt(r, y[2], mail - y[1]) \in Accounts
    BY SaveAtTyped
  <2>2. G \in [Nat \X Accounts -> Accounts]
    BY <2>1
  <2>3. ASSUME NEW n \in Nat, NEW acc \in Accounts
        PROVE  G[<<n, acc>>] = SaveAt(r, acc, mail - n)
    OBVIOUS
  <2> HIDE DEF G
  <2>4. QED
    BY <2>2, <2>3
<1>2. PICK f \in [Nat -> Accounts] :
        f[0] = Unsaved(r) /\ \A n \in Nat : f[n + 1] = F[<<n, f[n]>>]
  <2> HIDE DEF Saved
  <2>1. PICK f : IndexedIteration(Accounts, Unsaved(r), F, f)
    BY IndexedIterationExists
  <2>2. QED
    BY <2>1 DEF IndexedIteration
<1>3. ASSUME NEW n \in Nat
      PROVE  f[n] = IF n = 0 THEN Unsaved(r)
                    ELSE SaveAt(r, f[n - 1], arrived[runs[r].label] + 1 - n)
  <2>1. CASE n = 0
    BY <1>2, <2>1
  <2>2. CASE n # 0
    <3>1. n - 1 \in Nat /\ (n - 1) + 1 = n /\ mail - (n - 1) = mail + 1 - n
      BY <2>2
    <3>2. f[n] = F[<<n - 1, f[n - 1]>>] /\ f[n - 1] \in Accounts
      BY <1>2, <3>1
    <3>3. f[n] = SaveAt(r, f[n - 1], mail - (n - 1))
      BY <1>1, <3>1, <3>2
    <3>4. f[n] = SaveAt(r, f[n - 1], mail + 1 - n)
      BY <3>1, <3>3
    <3>5. QED
      BY <2>2, <3>4
  <2>3. QED
    BY <2>1, <2>2
<1>4. f = [n \in Nat |-> IF n = 0 THEN Unsaved(r)
                         ELSE SaveAt(r, f[n - 1], arrived[runs[r].label] + 1 - n)]
  BY <1>3
<1>5. Saved = [n \in Nat |-> IF n = 0 THEN Unsaved(r)
                             ELSE SaveAt(r, Saved[n - 1], arrived[runs[r].label] + 1 - n)]
  BY <1>4, Zenon
<1>6. Outcome(r) = Saved[arrived[runs[r].label]]
  BY Zenon DEF Outcome
<1> HIDE DEF Saved
<1>7. Saved[0] = Unsaved(r)
  BY <1>5
<1>8. ASSUME NEW n \in Nat PROVE Saved[n + 1] = SaveAt(r, Saved[n], mail - n)
  <2>1. /\ n + 1 \in Nat /\ n + 1 # 0 /\ (n + 1) - 1 = n
        /\ arrived[runs[r].label] + 1 - (n + 1) = mail - n
    OBVIOUS
  <2>2. Saved[n + 1] = SaveAt(r, Saved[(n + 1) - 1], arrived[runs[r].label] + 1 - (n + 1))
    BY <1>5, <2>1
  <2>3. QED
    BY <2>1, <2>2
<1>9. QED
  BY <1>6, <1>7, <1>8

\* A save that is not rolled back gives every message of the batch a row, and
\* rows, links, bindings and events agree after it.
LEMMA OutcomeSaved ==
  ASSUME TypeOK, ThreadsAgree, LinkedHaveRows, NEW r \in Runs, runs[r].view \in Views,
         runs[r].known \in SUBSET Apps, runs[r].label \in Labels,
         runs[r].got \subseteq {<<runs[r].label, i>> : i \in 1 .. arrived[runs[r].label]}
  PROVE  SavedDownTo(r, Outcome(r), 0)
<1>1. PICK l, mail : l = runs[r].label /\ mail = arrived[l]
  OBVIOUS
<1>2. /\ mail \in Nat /\ runs[r].got \subseteq Messages
      /\ \A m \in runs[r].got : m = <<l, m[2]>> /\ m[2] \in 1 .. mail
  BY <1>1, SceneFacts
<1>3. PICK start : start = Unsaved(r)
  OBVIOUS
<1>4. /\ stored \in SUBSET Messages /\ link \in Links /\ threads \in Tables
      /\ events \in SUBSET (Apps \X Messages)
  BY DEF TypeOK, Links, Tables
<1>5. /\ start \in Accounts /\ start.rows = stored /\ start.link = link
      /\ start.threads = threads /\ start.events = events
  BY <1>3, <1>4 DEF Accounts, Unsaved
<1>6. SavedDownTo(r, start, mail)
  <2>1. {m \in runs[r].got : m[2] > mail} = {}
    BY <1>2
  <2>2. Agree(stored, link, threads, events)
    BY AgreeIsInvariant
  <2>3. Stands(link, threads, link, threads)
    BY DEF Stands
  <2>4. QED
    BY <1>5, <2>1, <2>2, <2>3 DEF SavedDownTo
<1>7. PICK f : /\ f[0] = start
               /\ \A n \in Nat : f[n + 1] = SaveAt(r, f[n], mail - n)
               /\ Outcome(r) = f[mail]
  BY <1>1, <1>2, <1>3, <1>5, OutcomeRounds
<1> DEFINE S == {n \in Nat : n <= mail => SavedDownTo(r, f[n], mail - n)}
<1>8. 0 \in S
  BY <1>2, <1>6, <1>7
<1>9. ASSUME NEW n \in Nat, n \in S PROVE n + 1 \in S
  <2> SUFFICES ASSUME n + 1 <= mail PROVE SavedDownTo(r, f[n + 1], mail - (n + 1))
    OBVIOUS
  <2>1. PICK i : i = mail - n
    OBVIOUS
  <2>2. i \in Nat \ {0} /\ n <= mail /\ mail - (n + 1) = i - 1
    BY <1>2, <2>1
  <2>3. SavedDownTo(r, f[n], i)
    BY <1>9, <2>1, <2>2
  <2>4. f[n + 1] = SaveAt(r, f[n], i)
    BY <1>7, <2>1
  <2>5. \A m \in runs[r].got : m = <<l, m[2]>> /\ m[2] \in Nat
    BY <1>2
  <2>6. SavedDownTo(r, SaveAt(r, f[n], i), i - 1)
    BY <1>1, <1>2, <1>4, <2>2, <2>3, <2>5, SaveOne
  <2>7. QED
    BY <2>2, <2>4, <2>6
<1>10. \A n \in Nat : n \in S
  <2> HIDE DEF S
  <2>1. QED
    BY <1>8, <1>9, SetInduction
<1>11. SavedDownTo(r, f[mail], mail - mail)
  BY <1>2, <1>10
<1>12. QED
  BY <1>2, <1>7, <1>11

-----------------------------------------------------------------------------
(* MailSync: what a step leaves sound.                                     *)

\* The columns and settings that the paging does not depend on.
SidesTyped ==
  /\ reviews \in Nat /\ label \in Labels /\ relabels \in Nat
  /\ wanted \subseteq Messages /\ applied \subseteq Apps
  /\ body \in [Messages -> [status : {"missing", "reading", "complete", "unavailable"},
                            attempts : 0 .. MaxAttempts, rested : BOOLEAN,
                            owner : Runs \union {None}, review : BOOLEAN]]

LinksTyped ==
  /\ link \in [Messages -> Apps \union {None}]
  /\ threads \in [Range(Thread) -> Bindings \union {None}]
  /\ events \subseteq Apps \X Messages

MailTyped ==
  /\ scene \in Scenes /\ arrived \in [Labels -> Nat]
  /\ \A l \in Labels : arrived[l] <= scene.mail[l]
  /\ lost \subseteq Messages /\ stored \subseteq Messages

\* The types of the parts are those of the whole.
LEMMA TypesOfParts ==
  TypeOK <=> /\ SidesTyped /\ LinksTyped /\ MailTyped
             /\ cursor \in Cursors \union {None} /\ runs \in [Runs -> Executions]
<1>1. QED
  BY DEF TypeOK, SidesTyped, LinksTyped, MailTyped

\* Mail comes, rows and losses are added, and the cursor moves on only with a
\* new revision: an execution that was sound stays so.
LEMMA SoundRunMoves ==
  ASSUME NEW run \in Executions, NEW d,
         NEW c \in Cursors \union {None}, NEW c2 \in Cursors \union {None},
         NEW mail \in [Labels -> Nat], NEW mail2 \in [Labels -> Nat],
         \A l \in Labels : mail[l] <= mail2[l],
         NEW rows, NEW rows2, rows \subseteq rows2, NEW gone, NEW gone2, gone \subseteq gone2,
         c # None => /\ c2 # None /\ c.revision <= c2.revision
                     /\ c2.revision = c.revision =>
                          c2.label = c.label /\ c2.top = c.top /\ rows2 = rows,
         run.pc = "saving" => c2.revision = c.revision,
         SoundRun(run, c, d, mail, rows, gone)
  PROVE  SoundRun(run, c2, d, mail2, rows2, gone2)
<1>1. /\ run.pc = "saving" => d = "career"
      /\ run.pc \in AfterReplies => d = "creator"
      /\ run.pc \in Paging \union {"opening", "reopening"} => ~ run.overtaken
      /\ run.pc \notin {"new", "done"} => run.label \in Labels
      /\ run.pc \in {"opening", "listing"} => run.got = {} /\ run.eaten = {}
  BY DEF SoundRun
<1>2. run.rev \in Nat /\ run.token \in Nat /\ run.top \in Tops
  BY DEF Executions
<1>3. ASSUME run.pc \in Paging PROVE GoesBy(run, c2)
  <2>1. GoesBy(run, c)
    BY <1>3 DEF SoundRun
  <2>2. c # None /\ c.revision \in Nat /\ c2 # None /\ c2.revision \in Nat
    BY <2>1 DEF GoesBy, Cursors
  <2>3. QED
    BY <1>2, <2>1, <2>2 DEF GoesBy
<1>4. ASSUME run.pc \in Paging
      PROVE  Covers(mail2[run.label], SettledBy(d, rows2, gone2), run.label, run.token, run.top,
                    run.pending)
  <2>1. Covers(mail[run.label], SettledBy(d, rows, gone), run.label, run.token, run.top,
               run.pending)
    BY <1>4 DEF SoundRun
  <2>2. run.label \in Labels
    BY <1>1, <1>4 DEF Paging
  <2>3. SettledBy(d, rows, gone) \subseteq SettledBy(d, rows2, gone2)
    BY DEF SettledBy
  <2>4. mail[run.label] \in Nat /\ mail2[run.label] \in Nat /\ mail[run.label] <= mail2[run.label]
    BY <2>2
  <2>5. QED
    BY <1>2, <2>1, <2>3, <2>4, CoversMore
<1>5. ASSUME run.pc \in {"fetching", "saving"} PROVE ReadsItsPage(run, c2, rows2, gone2)
  <2>1. ReadsItsPage(run, c, rows, gone) /\ GoesBy(run, c)
    BY <1>5 DEF SoundRun, Paging
  <2>2. c # None /\ c.revision \in Nat /\ c2 # None /\ c2.revision \in Nat
    BY <2>1 DEF GoesBy, Cursors
  <2>3. run.rev = c2.revision => run.rev = c.revision /\ rows2 = rows
    BY <1>2, <2>1, <2>2 DEF GoesBy
  <2>4. QED
    BY <2>1, <2>3 DEF ReadsItsPage
<1>6. ASSUME run.pc \in AfterReplies PROVE KeepsPass(run, c2)
  <2>1. KeepsPass(run, c)
    BY <1>6 DEF SoundRun
  <2>2. c # None /\ c.revision \in Nat /\ c2 # None /\ c2.revision \in Nat
    BY <2>1 DEF KeepsPass, Cursors
  <2>3. QED
    BY <1>2, <2>1, <2>2 DEF KeepsPass
<1>7. QED
  BY <1>1, <1>3, <1>4, <1>5, <1>6 DEF SoundRun

\* Mail comes and goes: the cursor stays sound.
LEMMA SoundCursorGrows ==
  ASSUME NEW c \in Cursors \union {None}, NEW d,
         NEW mail \in [Labels -> Nat], NEW mail2 \in [Labels -> Nat],
         \A l \in Labels : mail[l] <= mail2[l],
         NEW rows, NEW gone, NEW gone2, gone \subseteq gone2,
         SoundCursor(c, d, mail, rows, gone)
  PROVE  SoundCursor(c, d, mail2, rows, gone2)
<1> SUFFICES ASSUME c # None PROVE SoundCursor(c, d, mail2, rows, gone2)
  BY DEF SoundCursor
<1>1. c.label \in Labels /\ c.token \in Nat /\ c.top \in Tops
  BY DEF Cursors
<1>2. SettledBy(d, rows, gone) \subseteq SettledBy(d, rows, gone2)
  BY DEF SettledBy
<1>3. Covers(mail2[c.label], SettledBy(d, rows, gone2), c.label, c.token, c.top, c.pending)
  BY <1>1, <1>2, CoversMore DEF SoundCursor
<1>4. c.done # None => Vouched(c.done, c.label, SettledBy(d, rows, gone2))
  BY <1>2 DEF SoundCursor, Vouched
<1>5. QED
  BY <1>2, <1>3, <1>4 DEF SoundCursor

\* A step of one execution that leaves mail, rows and links alone, the cursor
\* possibly moved on.
LEMMA RunStepIInv ==
  ASSUME IInv, NEW r \in Runs, NEW f \in Executions, SetRun(r, f),
         UNCHANGED <<scene, arrived, lost, stored, link, threads, events>>, SidesTyped',
         cursor' \in Cursors \union {None}, CursorSound',
         cursor # None => /\ cursor' # None /\ cursor.revision <= cursor'.revision
                          /\ cursor'.revision = cursor.revision =>
                               cursor'.label = cursor.label /\ cursor'.top = cursor.top,
         \A q \in Runs \ {r} : runs[q].pc = "saving" => cursor'.revision = cursor.revision,
         f.pc = "saving" => \A q \in Runs \ {r} : runs[q].pc # "saving",
         SoundRun(f, cursor', desk, arrived, stored, lost)
  PROVE  IInv'
<1>1. /\ runs' \in [Runs -> Executions] /\ runs'[r] = f
      /\ \A q \in Runs \ {r} : runs'[q] = runs[q]
  BY RunSet DEF IInv, TypeOK
<1>2. TypeOK'
  <2>1. LinksTyped /\ MailTyped
    BY TypesOfParts DEF IInv
  <2>2. LinksTyped' /\ MailTyped'
    BY <2>1 DEF LinksTyped, MailTyped
  <2>3. QED
    BY <1>1, <2>2 DEF TypeOK, SidesTyped, LinksTyped, MailTyped
<1>3. ASSUME NEW q \in Runs
      PROVE  SoundRun(runs'[q], cursor', desk', arrived', stored', lost')
  <2>1. desk' = desk
    BY DEF desk
  <2>2. CASE q = r
    BY <1>1, <2>1, <2>2
  <2>3. CASE q # r
    <3>1. SoundRun(runs[q], cursor, desk, arrived, stored, lost) /\ runs[q] \in Executions
      BY DEF IInv, RunsSound, TypeOK
    <3>2. /\ cursor \in Cursors \union {None} /\ arrived \in [Labels -> Nat]
          /\ \A l \in Labels : arrived[l] <= arrived[l]
      BY DEF IInv, TypeOK
    <3>3. SoundRun(runs[q], cursor', desk, arrived, stored, lost)
      BY <2>3, <3>1, <3>2, SoundRunMoves
    <3>4. QED
      BY <1>1, <2>1, <2>3, <3>3
  <2>4. QED
    BY <2>2, <2>3
<1>4. RunsSound'
  BY <1>3 DEF RunsSound
<1>5. OneSaves'
  BY <1>1 DEF OneSaves, IInv
<1>6. LinkedHaveRows' /\ ThreadsAgree'
  BY DEF LinkedHaveRows, ThreadsAgree, IInv
<1>7. QED
  BY <1>2, <1>4, <1>5, <1>6 DEF IInv

\* The same of a step that leaves the cursor alone.
LEMMA RunOnlyIInv ==
  ASSUME IInv, NEW r \in Runs, NEW f \in Executions, SetRun(r, f),
         UNCHANGED <<scene, arrived, lost, stored, link, threads, events, cursor>>, SidesTyped',
         f.pc = "saving" => \A q \in Runs \ {r} : runs[q].pc # "saving",
         SoundRun(f, cursor, desk, arrived, stored, lost)
  PROVE  IInv'
<1>1. /\ cursor' \in Cursors \union {None}
      /\ cursor # None => /\ cursor' # None /\ cursor.revision <= cursor'.revision
                          /\ cursor'.revision = cursor.revision =>
                               cursor'.label = cursor.label /\ cursor'.top = cursor.top
  BY DEF IInv, TypeOK, Cursors
<1>2. CursorSound'
  BY DEF IInv, CursorSound, desk
<1>3. SoundRun(f, cursor', desk, arrived, stored, lost)
  OBVIOUS
<1>4. QED
  BY <1>1, <1>2, <1>3, RunStepIInv

\* The columns aside are untouched by most steps.
LEMMA SidesKept ==
  ASSUME IInv, UNCHANGED <<reviews, label, relabels, wanted, applied, body>>
  PROVE  SidesTyped'
<1>1. QED
  BY DEF IInv, TypeOK, SidesTyped

\* What an invariant state says of one execution.
LEMMA RunFacts ==
  ASSUME IInv, NEW r \in Runs
  PROVE  /\ runs[r] \in Executions
         /\ SoundRun(runs[r], cursor, desk, arrived, stored, lost)
         /\ desk \in {"career", "creator"} /\ arrived \in [Labels -> Nat]
         /\ cursor \in Cursors \union {None} /\ None \notin Cursors
<1>1. QED
  BY SceneFacts, MailAssumption DEF IInv, TypeOK, RunsSound

-----------------------------------------------------------------------------
(* MailSync: the steps of an execution.                                    *)

\* An empty mailbox, no cursor, no execution begun.
LEMMA InitIInv == Init => IInv
<1> SUFFICES ASSUME Init PROVE IInv
  OBVIOUS
<1>1. runs = [r \in Runs |-> Blank] /\ Blank \in Executions /\ Blank.pc = "new"
  BY BlankTyped DEF Init
<1>2. MailTyped /\ scene.mail \in [Labels -> Nat]
  BY MailAssumption DEF Init, MailTyped
<1>3. SidesTyped /\ LinksTyped
  BY MailAssumption DEF Init, SidesTyped, LinksTyped
<1>4. TypeOK
  BY <1>1, <1>2, <1>3 DEF Init, TypeOK, SidesTyped, LinksTyped, MailTyped
<1>5. CursorSound
  BY DEF Init, CursorSound, SoundCursor
<1>6. RunsSound /\ OneSaves
  BY <1>1 DEF RunsSound, OneSaves, SoundRun, Paging, AfterReplies
<1>7. LinkedHaveRows /\ ThreadsAgree
  BY DEF Init, LinkedHaveRows, ThreadsAgree
<1>8. QED
  BY <1>4, <1>5, <1>6, <1>7 DEF IInv

\* A new execution has listed nothing.
LEMMA BeginIInv ==
  ASSUME IInv, NEW r \in Runs, Begin(r) PROVE IInv'
<1> DEFINE f == [Blank EXCEPT !.pc = "opening", !.live = TRUE, !.label = label]
<1>1. label \in Labels
  BY DEF IInv, TypeOK
<1>2. f \in Executions
  BY <1>1, BlankTyped DEF Executions
<1>3. f.pc = "opening" /\ f.label = label /\ f.got = {} /\ f.eaten = {} /\ ~ f.overtaken
  BY DEF Blank
<1>4. SetRun(r, f)
  BY DEF Begin
<1> HIDE DEF f
<1>5. SoundRun(f, cursor, desk, arrived, stored, lost)
  BY <1>1, <1>3 DEF SoundRun, AfterReplies, Paging
<1>6. SidesTyped'
  BY SidesKept DEF Begin, mailboxVars, linkVars, bodyVars
<1>7. UNCHANGED <<scene, arrived, lost, stored, link, threads, events, cursor>>
  BY DEF Begin, mailboxVars, linkVars, bodyVars
<1>8. QED
  BY <1>2, <1>3, <1>4, <1>5, <1>6, <1>7, RunOnlyIInv

\* Losing a lease changes nothing that the paging knows.
LEMMA LoseLeaseIInv ==
  ASSUME IInv, NEW r \in Runs, LoseLease(r) PROVE IInv'
<1> DEFINE f == [runs[r] EXCEPT !.live = FALSE]
<1>1. runs[r] \in Executions /\ SoundRun(runs[r], cursor, desk, arrived, stored, lost)
  BY RunFacts
<1>2. f \in Executions
  BY <1>1 DEF Executions
<1>3. /\ f.pc = runs[r].pc /\ f.label = runs[r].label /\ f.rev = runs[r].rev
      /\ f.token = runs[r].token /\ f.top = runs[r].top /\ f.pending = runs[r].pending
      /\ f.got = runs[r].got /\ f.eaten = runs[r].eaten /\ f.pc # "saving"
      /\ f.overtaken = runs[r].overtaken
  BY <1>1 DEF Executions, LoseLease, At
<1>4. SetRun(r, f)
  BY DEF LoseLease
<1> HIDE DEF f
<1>5. SoundRun(f, cursor, desk, arrived, stored, lost)
  BY <1>1, <1>3 DEF SoundRun, GoesBy, ReadsItsPage, KeepsPass
<1>6. SidesTyped'
  BY SidesKept DEF LoseLease, mailboxVars, linkVars, bodyVars
<1>7. UNCHANGED <<scene, arrived, lost, stored, link, threads, events, cursor>>
  BY DEF LoseLease, mailboxVars, linkVars, bodyVars
<1>8. QED
  BY <1>2, <1>3, <1>4, <1>5, <1>6, <1>7, RunOnlyIInv

\* An execution that is over has nothing left to keep.
LEMMA EndSound ==
  ASSUME NEW r, NEW c, NEW d, NEW mail, NEW rows, NEW gone
  PROVE  End(r) \in Executions /\ End(r).pc = "done" /\ SoundRun(End(r), c, d, mail, rows, gone)
<1>1. End(r) \in Executions /\ End(r).pc = "done"
  BY BlankTyped
<1>2. QED
  BY <1>1 DEF SoundRun, Paging, AfterReplies

\* An execution that fails is over.
LEMMA FailIInv ==
  ASSUME IInv, NEW r \in Runs, Fail(r) PROVE IInv'
<1>1. /\ End(r) \in Executions /\ End(r).pc = "done"
      /\ SoundRun(End(r), cursor, desk, arrived, stored, lost)
  BY EndSound
<1>2. SetRun(r, End(r))
  BY DEF Fail
<1>3. SidesTyped'
  BY SidesKept DEF Fail, mailboxVars, linkVars, bodyVars
<1>4. UNCHANGED <<scene, arrived, lost, stored, link, threads, events, cursor>>
  BY DEF Fail, mailboxVars, linkVars, bodyVars
<1>5. QED
  BY <1>1, <1>2, <1>3, <1>4, RunOnlyIInv

\* The cursor that is opened for a label is sound and is the label's.
LEMMA OpenedSound ==
  ASSUME IInv, NEW l \in Labels
  PROVE  /\ Opened(l) \in Cursors /\ Opened(l).label = l
         /\ SoundCursor(Opened(l), desk, arrived, stored, lost)
         /\ cursor # None => /\ cursor.revision <= Opened(l).revision
                             /\ Opened(l).revision = cursor.revision => Opened(l) = cursor
<1> DEFINE C == Opened(l)
<1>1. cursor \in Cursors \union {None} /\ arrived[l] \in Nat
  BY DEF IInv, TypeOK
<1>2. \A n \in Nat : /\ FreshCursor(l, n) \in Cursors /\ FreshCursor(l, n).label = l
                     /\ FreshCursor(l, n).revision = n
                     /\ SoundCursor(FreshCursor(l, n), desk, arrived, stored, lost)
  <2> SUFFICES ASSUME NEW n \in Nat
               PROVE  /\ FreshCursor(l, n) \in Cursors /\ FreshCursor(l, n).label = l
                      /\ FreshCursor(l, n).revision = n
                      /\ SoundCursor(FreshCursor(l, n), desk, arrived, stored, lost)
    OBVIOUS
  <2>1. PICK c : c = FreshCursor(l, n)
    OBVIOUS
  <2>2. /\ c \in Cursors /\ c.label = l /\ c.revision = n /\ c.token = 0 /\ c.pending = {}
        /\ c.top = None /\ c.done = None
    BY <2>1 DEF FreshCursor, Cursors, Tops
  <2>3. Covers(arrived[l], SettledBy(desk, stored, lost), l, 0, None, {})
    BY <1>1 DEF Covers
  <2>4. SoundCursor(c, desk, arrived, stored, lost)
    BY <2>2, <2>3 DEF SoundCursor
  <2>5. QED
    BY <2>1, <2>2, <2>4
<1>3. CASE cursor = None
  <2>1. Opened(l) = FreshCursor(l, 0)
    BY <1>3 DEF Opened
  <2>2. QED
    BY <1>2, <1>3, <2>1
<1>4. CASE cursor # None /\ cursor.label # l
  <2>1. Opened(l) = FreshCursor(l, cursor.revision + 1) /\ cursor.revision \in Nat
    BY <1>1, <1>4 DEF Opened, Cursors
  <2>2. cursor.revision + 1 \in Nat /\ cursor.revision + 1 > cursor.revision
    BY <2>1
  <2>3. QED
    BY <1>2, <2>1, <2>2
<1>5. CASE cursor # None /\ cursor.label = l
  <2>1. Opened(l) = cursor /\ cursor.revision \in Nat /\ cursor \in Cursors
    BY <1>1, <1>5 DEF Opened, Cursors
  <2>2. SoundCursor(cursor, desk, arrived, stored, lost)
    BY DEF IInv, CursorSound
  <2>3. QED
    BY <1>5, <2>1, <2>2
<1>6. QED
  BY <1>3, <1>4, <1>5

\* An execution that opens the cursor goes by it from then on.
LEMMA OpenIInv ==
  ASSUME IInv, NEW r \in Runs, Open(r) PROVE IInv'
<1> DEFINE run == runs[r]
<1>1. /\ run \in Executions /\ run.pc = "opening" /\ run.label \in Labels
      /\ run.got = {} /\ run.eaten = {} /\ ~ run.overtaken
  BY RunFacts DEF SoundRun, Open, At
<1>2. PICK c : c = Opened(run.label)
  OBVIOUS
<1>3. cursor' = c
  BY <1>2 DEF Open
<1>4. /\ c \in Cursors /\ c.label = run.label /\ SoundCursor(c, desk, arrived, stored, lost)
      /\ cursor # None => /\ cursor.revision <= c.revision
                          /\ c.revision = cursor.revision => c = cursor
  BY <1>1, <1>2, OpenedSound
<1>5. /\ c.revision \in Nat /\ c.token \in Nat /\ c.pending \in SUBSET Messages /\ c.top \in Tops
      /\ c # None
  BY <1>4, MailAssumption DEF Cursors
<1> DEFINE f == [run EXCEPT !.pc = "listing", !.rev = c.revision, !.token = c.token,
                            !.pending = c.pending, !.top = c.top]
<1>6. SetRun(r, f)
  BY <1>3 DEF Open
<1>7. f \in Executions
  BY <1>1, <1>5 DEF Executions
<1>8. /\ f.pc = "listing" /\ f.rev = c.revision /\ f.token = c.token /\ f.pending = c.pending
      /\ f.top = c.top /\ f.label = run.label /\ f.got = {} /\ f.eaten = {} /\ ~ f.overtaken
  BY <1>1 DEF Executions
<1> HIDE DEF f
<1>9. SoundRun(f, c, desk, arrived, stored, lost)
  <2>1. GoesBy(f, c)
    BY <1>4, <1>5, <1>8 DEF GoesBy
  <2>2. Covers(arrived[f.label], SettledBy(desk, stored, lost), f.label, f.token, f.top, f.pending)
    BY <1>4, <1>5, <1>8 DEF SoundCursor
  <2>3. QED
    BY <1>1, <1>8, <2>1, <2>2 DEF SoundRun, AfterReplies
<1>10. \A q \in Runs : runs[q].pc # "saving"
  BY DEF Open, RowFree, At
<1>11. SidesTyped'
  BY SidesKept DEF Open, mailboxVars, linkVars, bodyVars
<1>12. UNCHANGED <<scene, arrived, lost, stored, link, threads, events>>
  BY DEF Open, mailboxVars, linkVars, bodyVars
<1>13. CursorSound'
  BY <1>3, <1>4, <1>12 DEF CursorSound, desk
<1>14. cursor' \in Cursors \union {None} /\ cursor' # None
  BY <1>3, <1>4, <1>5
<1>15. cursor # None => /\ cursor' # None /\ cursor.revision <= cursor'.revision
                        /\ cursor'.revision = cursor.revision =>
                             cursor'.label = cursor.label /\ cursor'.top = cursor.top
  BY <1>3, <1>4, <1>5
<1>16. f.pc # "saving" /\ SoundRun(f, cursor', desk, arrived, stored, lost)
  BY <1>3, <1>8, <1>9
<1>17. QED
  BY <1>6, <1>7, <1>10, <1>11, <1>12, <1>13, <1>14, <1>15, <1>16, RunStepIInv

\* Opening the cursor again happens while no save holds its row.
LEMMA ReopenIInv ==
  ASSUME IInv, NEW r \in Runs, Reopen(r) PROVE IInv'
<1> DEFINE run == runs[r]
<1>1. /\ run \in Executions /\ run.pc = "reopening" /\ run.label \in Labels /\ desk = "creator"
      /\ ~ run.overtaken /\ KeepsPass(run, cursor)
  BY RunFacts DEF SoundRun, Reopen, At, AfterReplies
<1>2. PICK c : c = Opened(run.label)
  OBVIOUS
<1>3. cursor' = c
  BY <1>2 DEF Reopen
<1>4. /\ c \in Cursors /\ c.label = run.label /\ SoundCursor(c, desk, arrived, stored, lost)
      /\ cursor # None => /\ cursor.revision <= c.revision
                          /\ c.revision = cursor.revision => c = cursor
  BY <1>1, <1>2, OpenedSound
<1>5. c.revision \in Nat /\ c # None
  BY <1>4, MailAssumption DEF Cursors
<1> DEFINE moved == cursor.revision # run.rev
           f == [run EXCEPT !.pc = "choosing", !.rev = c.revision, !.overtaken = moved]
<1>6. SetRun(r, f)
  BY <1>3 DEF Reopen
<1>7. f \in Executions
  BY <1>1, <1>5 DEF Executions
<1>8. f.pc = "choosing" /\ f.label = run.label /\ f.rev = c.revision /\ f.overtaken = moved
  BY <1>1 DEF Executions
<1> HIDE DEF f
<1>9. SoundRun(f, c, desk, arrived, stored, lost)
  <2>1. ~ moved => c = cursor /\ cursor.top # None
    BY <1>1, <1>2 DEF Opened, KeepsPass
  <2>2. f.overtaken = moved /\ (~ moved => c.top # None)
    BY <1>8, <2>1
  <2> HIDE DEF moved
  <2>3. ~ f.overtaken => c.top # None
    BY <2>2
  <2>4. KeepsPass(f, c)
    BY <1>4, <1>5, <1>8, <2>3 DEF KeepsPass
  <2>5. QED
    BY <1>1, <1>8, <2>4 DEF SoundRun, AfterReplies, Paging
<1>10. \A q \in Runs : runs[q].pc # "saving"
  BY <1>1, RunFacts DEF SoundRun
<1>11. SidesTyped'
  BY SidesKept DEF Reopen, mailboxVars, linkVars, bodyVars
<1>12. UNCHANGED <<scene, arrived, lost, stored, link, threads, events>>
  BY DEF Reopen, mailboxVars, linkVars, bodyVars
<1>13. CursorSound'
  BY <1>3, <1>4, <1>12 DEF CursorSound, desk
<1>14. cursor' \in Cursors \union {None} /\ cursor' # None
  BY <1>3, <1>4, <1>5
<1>15. cursor # None => /\ cursor' # None /\ cursor.revision <= cursor'.revision
                        /\ cursor'.revision = cursor.revision =>
                             cursor'.label = cursor.label /\ cursor'.top = cursor.top
  BY <1>3, <1>4, <1>5
<1>16. f.pc # "saving" /\ SoundRun(f, cursor', desk, arrived, stored, lost)
  BY <1>3, <1>8, <1>9
<1>17. QED
  BY <1>6, <1>7, <1>10, <1>11, <1>12, <1>13, <1>14, <1>15, <1>16, RunStepIInv

\* The listed page, less what has a row, is still to be read.
LEMMA ListIInv ==
  ASSUME IInv, NEW r \in Runs, List(r) PROVE IInv'
<1> DEFINE run == runs[r]
           turn == run.pending = {}
           page == Page(run.label, run.token)
<1>1. /\ run \in Executions /\ run.pc = "listing" /\ run.label \in Labels /\ ~ run.overtaken
      /\ run.got = {} /\ run.eaten = {} /\ GoesBy(run, cursor)
      /\ Covers(arrived[run.label], SettledBy(desk, stored, lost), run.label, run.token, run.top,
                run.pending)
  BY RunFacts DEF SoundRun, List, At, Paging
<1>2. arrived[run.label] \in Nat /\ run.token \in Nat /\ run.top \in Tops
  BY <1>1 DEF IInv, TypeOK, Executions
<1>3. PICK ids, token, top : /\ ids = IF turn THEN page.ids ELSE run.pending
                             /\ token = IF turn THEN page.token ELSE run.token
                             /\ top = IF turn /\ run.token = 0 THEN arrived[run.label] ELSE run.top
  OBVIOUS
<1>4. /\ token \in Nat /\ top \in Nat
      /\ ids \subseteq {<<run.label, i>> : i \in 1 .. arrived[run.label]}
      /\ Covers(arrived[run.label], SettledBy(desk, stored, lost), run.label, token, top, ids)
  <2>1. CASE turn
    <3>1. Covers(arrived[run.label], SettledBy(desk, stored, lost), run.label, run.token, run.top,
                 {})
      BY <1>1, <2>1
    <3>2. top = IF run.token = 0 THEN arrived[run.label] ELSE run.top
      BY <1>3, <2>1
    <3>3. /\ page.token \in Nat /\ page.ids \subseteq {<<run.label, i>> : i \in 1 .. arrived[run.label]}
          /\ top \in Nat
          /\ Covers(arrived[run.label], SettledBy(desk, stored, lost), run.label, page.token, top,
                    page.ids)
      BY <1>1, <1>2, <3>1, <3>2, PageCovers
    <3>4. QED
      BY <1>3, <2>1, <3>3
  <2>2. CASE ~ turn
    BY <1>1, <1>2, <1>3, <2>2 DEF Covers, Tops
  <2>3. QED
    BY <2>1, <2>2
<1>5. top \in Tops /\ top # None
  BY <1>4, MailAssumption DEF Tops
<1>6. PICK left : left = ids \ stored
  OBVIOUS
<1>7. left \subseteq Messages
  <2>1. \A i \in 1 .. arrived[run.label] : <<run.label, i>> \in Messages
    BY <1>1, SceneFacts DEF IInv
  <2>2. QED
    BY <1>4, <1>6, <2>1
<1>8. Covers(arrived[run.label], SettledBy(desk, stored, lost), run.label, token, top, left)
  <2>1. left \subseteq ids /\ ids \subseteq left \union SettledBy(desk, stored, lost)
    BY <1>6 DEF SettledBy
  <2>2. QED
    BY <1>4, <2>1, CoversLess
<1> DEFINE f == [run EXCEPT !.pc = "fetching", !.pending = left, !.token = token, !.top = top]
<1>9. SetRun(r, f)
  BY <1>3, <1>6 DEF List
<1>10. f \in Executions
  BY <1>1, <1>4, <1>5, <1>7 DEF Executions
<1>11. /\ f.pc = "fetching" /\ f.label = run.label /\ f.rev = run.rev /\ f.token = token
       /\ f.top = top /\ f.pending = left /\ f.got = {} /\ f.eaten = {} /\ ~ f.overtaken
  BY <1>1 DEF Executions
<1> HIDE DEF f
<1>12. SoundRun(f, cursor, desk, arrived, stored, lost)
  <2>1. GoesBy(f, cursor)
    BY <1>1, <1>11 DEF GoesBy
  <2>2. ReadsItsPage(f, cursor, stored, lost)
    BY <1>5, <1>6, <1>11 DEF ReadsItsPage
  <2>3. QED
    BY <1>1, <1>8, <1>11, <2>1, <2>2 DEF SoundRun, AfterReplies
<1>13. SidesTyped'
  BY SidesKept DEF List, mailboxVars, linkVars, bodyVars
<1>14. UNCHANGED <<scene, arrived, lost, stored, link, threads, events, cursor>>
  BY DEF List, mailboxVars, linkVars, bodyVars
<1>15. f.pc # "saving"
  BY <1>11
<1>16. QED
  BY <1>9, <1>10, <1>12, <1>13, <1>14, <1>15, RunOnlyIInv

\* The newest and the oldest message of a set are in it.
LEMMA NewestIn ==
  ASSUME NEW l, NEW n \in Nat, NEW S, S \subseteq {<<l, i>> : i \in 1 .. n}, S # {}
  PROVE  Newest(S) \in S
<1>1. \A m \in S : m = <<l, m[2]>> /\ m[2] \in 1 .. n
  OBVIOUS
<1> DEFINE P == {m[2] : m \in S}
<1>2. P \subseteq 0 .. n /\ P # {}
  BY <1>1
<1>3. PICK i \in P : \A j \in P : j <= i
  <2>1. P \in SUBSET Nat /\ \A j \in P : j <= n
    BY <1>2
  <2> HIDE DEF P
  <2>2. QED
    BY <1>2, <2>1, GreatestNumber
<1>4. PICK m \in S : i = m[2]
  BY <1>3
<1>5. \A k \in S : k[2] <= m[2]
  BY <1>3, <1>4
<1>6. QED
  BY <1>4, <1>5 DEF Newest

LEMMA OldestIn ==
  ASSUME NEW S \in SUBSET Messages, S # {}
  PROVE  Oldest(S) \in S
<1>1. \A m \in S : m[2] \in Nat
  <2> SUFFICES ASSUME NEW m \in S PROVE m[2] \in Nat
    OBVIOUS
  <2>1. PICK s \in Scenes : m \in Mailbox(s)
    BY DEF Messages
  <2>2. PICK l \in Labels : m \in {<<l, i>> : i \in 1 .. s.mail[l]}
    BY <2>1 DEF Mailbox
  <2>3. QED
    BY <2>2
<1> DEFINE P == {m[2] : m \in S}
<1>2. P \subseteq Nat /\ P # {}
  BY <1>1
<1>3. PICK i \in P : \A j \in P : i <= j
  <2> HIDE DEF P
  <2>1. QED
    BY <1>2, LeastNumber
<1>4. PICK m \in S : i = m[2]
  BY <1>3
<1>5. \A k \in S : k[2] >= m[2]
  BY <1>1, <1>3, <1>4
<1>6. QED
  BY <1>4, <1>5 DEF Oldest

\* The newest message left has been read, or was gone.
LEMMA FetchIInv ==
  ASSUME IInv, NEW r \in Runs, Fetch(r) PROVE IInv'
<1> DEFINE run == runs[r]
<1>1. /\ run \in Executions /\ run.pc = "fetching" /\ run.label \in Labels /\ ~ run.overtaken
      /\ GoesBy(run, cursor) /\ ReadsItsPage(run, cursor, stored, lost)
      /\ Covers(arrived[run.label], SettledBy(desk, stored, lost), run.label, run.token, run.top,
                run.pending)
  BY RunFacts DEF SoundRun, Fetch, At, Paging
<1>2. arrived[run.label] \in Nat /\ run.pending \subseteq Messages
  BY <1>1 DEF IInv, TypeOK, Executions
<1>3. PICK m : m = Newest(Left(r))
  OBVIOUS
<1>4. m \in run.pending
  <2>1. Left(r) \subseteq {<<run.label, i>> : i \in 1 .. arrived[run.label]} /\ Left(r) # {}
    BY <1>1 DEF Left, Covers, Fetch
  <2>2. m \in Left(r)
    BY <1>2, <1>3, <2>1, NewestIn
  <2>3. QED
    BY <2>2 DEF Left
<1> DEFINE f == [run EXCEPT !.eaten = run.eaten \union {m}, !.got = run.got \union ({m} \ lost)]
<1>5. SetRun(r, f)
  BY <1>3 DEF Fetch
<1>6. f \in Executions
  <2>1. m \in Messages
    BY <1>2, <1>4
  <2>2. run.eaten \union {m} \in SUBSET Messages /\ run.got \union ({m} \ lost) \in SUBSET Messages
    BY <1>1, <2>1 DEF Executions
  <2>3. QED
    BY <1>1, <2>2 DEF Executions
<1>7. /\ f.pc = "fetching" /\ f.label = run.label /\ f.rev = run.rev /\ f.token = run.token
      /\ f.top = run.top /\ f.pending = run.pending
      /\ f.got = run.got \union ({m} \ lost) /\ f.eaten = run.eaten \union {m}
      /\ f.overtaken = run.overtaken
  BY <1>1 DEF Executions
<1> HIDE DEF f
<1>8. SoundRun(f, cursor, desk, arrived, stored, lost)
  <2>1. GoesBy(f, cursor)
    BY <1>1, <1>7 DEF GoesBy
  <2>2. ReadsItsPage(f, cursor, stored, lost)
    BY <1>1, <1>4, <1>7 DEF ReadsItsPage
  <2>3. QED
    BY <1>1, <1>7, <2>1, <2>2 DEF SoundRun, AfterReplies
<1>9. SidesTyped'
  BY SidesKept DEF Fetch, mailboxVars, linkVars, bodyVars
<1>10. UNCHANGED <<scene, arrived, lost, stored, link, threads, events, cursor>>
  BY DEF Fetch, mailboxVars, linkVars, bodyVars
<1>11. f.pc # "saving"
  BY <1>7
<1>12. QED
  BY <1>5, <1>6, <1>8, <1>9, <1>10, <1>11, RunOnlyIInv

\* A save begins only on the revision it was made for, and alone.
LEMMA StartSaveIInv ==
  ASSUME IInv, NEW r \in Runs, StartSave(r) PROVE IInv'
<1> DEFINE run == runs[r]
           f == [run EXCEPT !.pc = "saving", !.view = threads, !.known = applied]
<1>1. /\ run \in Executions /\ run.pc = "fetching" /\ run.label \in Labels /\ ~ run.overtaken
      /\ GoesBy(run, cursor) /\ ReadsItsPage(run, cursor, stored, lost)
      /\ Covers(arrived[run.label], SettledBy(desk, stored, lost), run.label, run.token, run.top,
                run.pending)
  BY RunFacts DEF SoundRun, StartSave, Fetched, At, Paging
<1>2. f \in Executions
  <2>1. threads \in [Range(Thread) -> Bindings \union {None}] \union {Blank.view}
        /\ applied \in SUBSET Apps
    BY DEF IInv, TypeOK
  <2>2. QED
    BY <1>1, <2>1 DEF Executions
<1>3. /\ f.pc = "saving" /\ f.label = run.label /\ f.rev = run.rev /\ f.token = run.token
      /\ f.top = run.top /\ f.pending = run.pending /\ f.got = run.got /\ f.eaten = run.eaten
      /\ f.overtaken = run.overtaken
  BY <1>1 DEF Executions
<1>4. SetRun(r, f) /\ desk = "career" /\ run.rev = cursor.revision
  BY DEF StartSave, CursorHolds
<1> HIDE DEF f
<1>5. SoundRun(f, cursor, desk, arrived, stored, lost)
  <2>1. GoesBy(f, cursor)
    BY <1>1, <1>3, <1>4 DEF GoesBy
  <2>2. ReadsItsPage(f, cursor, stored, lost)
    BY <1>1, <1>3 DEF ReadsItsPage
  <2>3. QED
    BY <1>1, <1>3, <1>4, <2>1, <2>2 DEF SoundRun, AfterReplies
<1>6. SidesTyped'
  BY SidesKept DEF StartSave, mailboxVars, linkVars, bodyVars
<1>7. UNCHANGED <<scene, arrived, lost, stored, link, threads, events, cursor>>
  BY DEF StartSave, mailboxVars, linkVars, bodyVars
<1>8. \A q \in Runs : runs[q].pc # "saving"
  BY DEF StartSave, RowFree, At
<1>9. QED
  BY <1>2, <1>4, <1>5, <1>6, <1>7, <1>8, RunOnlyIInv

\* After the replies are saved an execution only reads bodies, which the paging
\* does not depend on.
LEMMA ReadingSound ==
  ASSUME NEW run, NEW f, NEW c, NEW mail, NEW rows, NEW gone,
         SoundRun(run, c, "creator", mail, rows, gone), run.pc \in AfterReplies,
         f.pc \in AfterReplies \ {"reopening"},
         f.label = run.label, f.rev = run.rev, f.overtaken = run.overtaken
  PROVE  SoundRun(f, c, "creator", mail, rows, gone)
<1>1. QED
  BY DEF SoundRun, Paging, AfterReplies, KeepsPass

\* Choosing bodies leaves the paging alone.
LEMMA ChooseIInv ==
  ASSUME IInv, NEW r \in Runs, Choose(r) PROVE IInv'
<1>1. /\ runs[r] \in Executions /\ runs[r].pc = "choosing" /\ runs[r].label \in Labels
      /\ desk = "creator" /\ SoundRun(runs[r], cursor, desk, arrived, stored, lost)
  BY RunFacts DEF SoundRun, Choose, At, AfterReplies
<1>2. PICK T \in OldestOf({m \in Messages : Readable(m) /\ m \in wanted}, Budget(r)) :
        SetRun(r, [runs[r] EXCEPT !.pc = "bodies", !.todo = T])
  BY DEF Choose
<1>3. T \in SUBSET Messages
  BY <1>2 DEF OldestOf
<1> DEFINE f == [runs[r] EXCEPT !.pc = "bodies", !.todo = T]
<1>4. f \in Executions
  BY <1>1, <1>3 DEF Executions
<1>5. /\ f.pc = "bodies" /\ f.label = runs[r].label
      /\ f.rev = runs[r].rev /\ f.overtaken = runs[r].overtaken
  BY <1>1 DEF Executions
<1>6. SetRun(r, f)
  BY <1>2
<1> HIDE DEF f
<1>7. SoundRun(f, cursor, desk, arrived, stored, lost)
  BY <1>1, <1>5, ReadingSound DEF AfterReplies
<1>8. SidesTyped'
  BY SidesKept DEF Choose, mailboxVars, linkVars, bodyVars
<1>9. UNCHANGED <<scene, arrived, lost, stored, link, threads, events, cursor>>
  BY DEF Choose, mailboxVars, linkVars, bodyVars
<1>10. QED
  BY <1>4, <1>5, <1>6, <1>7, <1>8, <1>9, RunOnlyIInv

Captures == [status : {"missing", "reading", "complete", "unavailable"},
             attempts : 0 .. MaxAttempts, rested : BOOLEAN,
             owner : Runs \union {None}, review : BOOLEAN]

\* The body table alone may change.
LEMMA BodyOnly ==
  ASSUME IInv, UNCHANGED <<reviews, label, relabels, wanted, applied>>,
         body' \in [Messages -> Captures]
  PROVE  SidesTyped'
<1>1. QED
  BY DEF IInv, TypeOK, SidesTyped, Captures

\* So do a claim, one attempt more at most, ...
LEMMA ClaimIInv ==
  ASSUME IInv, NEW r \in Runs, Claim(r) PROVE IInv'
<1> DEFINE run == runs[r]
<1>1. /\ run \in Executions /\ run.pc = "bodies" /\ run.label \in Labels /\ desk = "creator"
      /\ SoundRun(run, cursor, desk, arrived, stored, lost)
  BY RunFacts DEF SoundRun, Claim, At, AfterReplies
<1>2. PICK m : m = Oldest(run.todo)
  OBVIOUS
<1>3. m \in Messages /\ run.todo \in SUBSET Messages
  <2>1. run.todo \in SUBSET Messages /\ run.todo # {}
    BY <1>1 DEF Executions, Claim
  <2>2. QED
    BY <1>2, <2>1, OldestIn
<1>4. body \in [Messages -> Captures]
  BY DEF IInv, TypeOK, Captures
<1>5. UNCHANGED <<scene, arrived, lost, stored, link, threads, events, cursor>>
  BY DEF Claim, mailboxVars, linkVars, bodyVars
<1>6. UNCHANGED <<reviews, label, relabels, wanted, applied>>
  BY DEF Claim, mailboxVars, linkVars, bodyVars
<1>7. CASE MayClaim(m)
  <2>1. PICK attempt : attempt = body[m].attempts + 1
    OBVIOUS
  <2>2. attempt \in 0 .. MaxAttempts /\ attempt \in Nat
    <3>1. body[m].attempts \in 0 .. MaxAttempts /\ body[m].attempts < MaxAttempts
      BY <1>3, <1>4, <1>7 DEF MayClaim, Readable, Captures
    <3>2. QED
      BY <2>1, <3>1, MailAssumption
  <2>3. PICK row : row = [status |-> "reading", attempts |-> attempt, rested |-> FALSE,
                          owner |-> r, review |-> TRUE]
    OBVIOUS
  <2>4. row \in Captures
    BY <2>2, <2>3 DEF Captures
  <2>5. body' = [body EXCEPT ![m] = row]
    BY <1>2, <1>7, <2>1, <2>3 DEF Claim
  <2>6. SidesTyped'
    <3>1. body' \in [Messages -> Captures]
      BY <1>4, <2>4, <2>5
    <3>2. QED
      BY <1>6, <3>1, BodyOnly
  <2>7. PICK todo, claim : todo = run.todo \ {m} /\ claim = [id |-> m, attempt |-> attempt]
    OBVIOUS
  <2>8. todo \in SUBSET Messages /\ claim \in [id : Messages, attempt : Nat] \union {None}
    BY <1>3, <2>2, <2>7
  <2> DEFINE f == [run EXCEPT !.pc = "reading", !.todo = todo, !.claim = claim]
  <2>9. f \in Executions
    BY <1>1, <2>8 DEF Executions
  <2>10. /\ f.pc = "reading" /\ f.label = run.label
         /\ f.rev = run.rev /\ f.overtaken = run.overtaken
    BY <1>1 DEF Executions
  <2>11. SetRun(r, f)
    BY <1>2, <1>7, <2>1, <2>7 DEF Claim
  <2> HIDE DEF f
  <2>12. SoundRun(f, cursor, desk, arrived, stored, lost)
    BY <1>1, <2>10, ReadingSound DEF AfterReplies
  <2>13. QED
    BY <1>5, <2>6, <2>9, <2>10, <2>11, <2>12, RunOnlyIInv
<1>8. CASE ~ MayClaim(m)
  <2>1. PICK todo : todo = run.todo \ {m}
    OBVIOUS
  <2>2. todo \in SUBSET Messages
    BY <1>3, <2>1
  <2> DEFINE f == [run EXCEPT !.todo = todo]
  <2>3. f \in Executions
    BY <1>1, <2>2 DEF Executions
  <2>4. /\ f.pc = "bodies" /\ f.label = run.label
        /\ f.rev = run.rev /\ f.overtaken = run.overtaken
    BY <1>1 DEF Executions
  <2>5. SetRun(r, f) /\ body' = body
    BY <1>2, <1>8, <2>1 DEF Claim
  <2> HIDE DEF f
  <2>6. SoundRun(f, cursor, desk, arrived, stored, lost)
    BY <1>1, <2>4, ReadingSound DEF AfterReplies
  <2>7. SidesTyped'
    BY <1>4, <1>6, <2>5, BodyOnly
  <2>8. QED
    BY <1>5, <2>3, <2>4, <2>5, <2>6, <2>7, RunOnlyIInv
<1>9. QED
  BY <1>7, <1>8

\* ... reading the full message ...
LEMMA ReadFullIInv ==
  ASSUME IInv, NEW r \in Runs, ReadFull(r) PROVE IInv'
<1>1. /\ runs[r] \in Executions /\ runs[r].pc = "reading" /\ runs[r].label \in Labels
      /\ desk = "creator" /\ SoundRun(runs[r], cursor, desk, arrived, stored, lost)
  BY RunFacts DEF SoundRun, ReadFull, At, AfterReplies
<1>2. PICK answer \in {"unavailable", "error", "complete"} :
        SetRun(r, [runs[r] EXCEPT !.pc = "capturing", !.full = answer])
  BY DEF ReadFull
<1> DEFINE f == [runs[r] EXCEPT !.pc = "capturing", !.full = answer]
<1>3. f \in Executions
  BY <1>1 DEF Executions
<1>4. /\ f.pc = "capturing" /\ f.label = runs[r].label
      /\ f.rev = runs[r].rev /\ f.overtaken = runs[r].overtaken
  BY <1>1 DEF Executions
<1>5. SetRun(r, f)
  BY <1>2
<1> HIDE DEF f
<1>6. SoundRun(f, cursor, desk, arrived, stored, lost)
  BY <1>1, <1>4, ReadingSound DEF AfterReplies
<1>7. SidesTyped'
  BY SidesKept DEF ReadFull, mailboxVars, linkVars, bodyVars
<1>8. UNCHANGED <<scene, arrived, lost, stored, link, threads, events, cursor>>
  BY DEF ReadFull, mailboxVars, linkVars, bodyVars
<1>9. QED
  BY <1>3, <1>4, <1>5, <1>6, <1>7, <1>8, RunOnlyIInv

\* One column of one body.
LEMMA BodyEdits ==
  ASSUME NEW b \in [Messages -> Captures], NEW m
  PROVE  /\ \A s \in {"missing", "reading", "complete", "unavailable"} :
              [b EXCEPT ![m].status = s] \in [Messages -> Captures]
         /\ \A v \in BOOLEAN : /\ [b EXCEPT ![m].review = v] \in [Messages -> Captures]
                               /\ [b EXCEPT ![m].rested = v] \in [Messages -> Captures]
<1>1. ASSUME NEW s \in {"missing", "reading", "complete", "unavailable"}
      PROVE  [b EXCEPT ![m].status = s] \in [Messages -> Captures]
  <2>1. m \in Messages => [b[m] EXCEPT !.status = s] \in Captures
    BY DEF Captures
  <2>2. QED
    BY <2>1
<1>2. ASSUME NEW v \in BOOLEAN
      PROVE  /\ [b EXCEPT ![m].review = v] \in [Messages -> Captures]
             /\ [b EXCEPT ![m].rested = v] \in [Messages -> Captures]
  <2>1. m \in Messages => /\ [b[m] EXCEPT !.review = v] \in Captures
                          /\ [b[m] EXCEPT !.rested = v] \in Captures
    BY DEF Captures
  <2>2. QED
    BY <2>1
<1>3. QED
  BY <1>1, <1>2

\* ... and saving its body.
LEMMA SaveBodyIInv ==
  ASSUME IInv, NEW r \in Runs, SaveBody(r) PROVE IInv'
<1>1. /\ runs[r] \in Executions /\ runs[r].pc = "capturing" /\ runs[r].label \in Labels
      /\ desk = "creator" /\ SoundRun(runs[r], cursor, desk, arrived, stored, lost)
  BY RunFacts DEF SoundRun, SaveBody, At, AfterReplies
<1>2. PICK m, s : m = runs[r].claim.id /\ s = Captured(r)
  OBVIOUS
<1>3. body \in [Messages -> Captures] /\ s \in {"complete", "unavailable"}
  BY <1>2 DEF IInv, TypeOK, Captures, Captured
<1>4. body' = [body EXCEPT ![m].status = s]
  BY <1>2 DEF SaveBody
<1>5. UNCHANGED <<reviews, label, relabels, wanted, applied>>
  BY DEF SaveBody, mailboxVars, linkVars, bodyVars
<1>6. SidesTyped'
  BY <1>3, <1>4, <1>5, BodyEdits, BodyOnly
<1>7. UNCHANGED <<scene, arrived, lost, stored, link, threads, events, cursor>>
  BY DEF SaveBody, mailboxVars, linkVars, bodyVars
<1>8. CASE runs[r].full = "error"
  <2>1. SetRun(r, End(r))
    BY <1>8 DEF SaveBody
  <2>2. /\ End(r) \in Executions /\ End(r).pc = "done"
        /\ SoundRun(End(r), cursor, desk, arrived, stored, lost)
    BY EndSound
  <2>3. QED
    BY <1>6, <1>7, <2>1, <2>2, RunOnlyIInv
<1>9. CASE runs[r].full # "error"
  <2> DEFINE f == [runs[r] EXCEPT !.pc = "bodies", !.claim = None, !.full = None]
  <2>1. f \in Executions
    BY <1>1 DEF Executions
  <2>2. /\ f.pc = "bodies" /\ f.label = runs[r].label
        /\ f.rev = runs[r].rev /\ f.overtaken = runs[r].overtaken
    BY <1>1 DEF Executions
  <2>3. SetRun(r, f)
    BY <1>9 DEF SaveBody
  <2> HIDE DEF f
  <2>4. SoundRun(f, cursor, desk, arrived, stored, lost)
    BY <1>1, <2>2, ReadingSound DEF AfterReplies
  <2>5. QED
    BY <1>6, <1>7, <2>1, <2>2, <2>3, <2>4, RunOnlyIInv
<1>10. QED
  BY <1>8, <1>9

\* A pass counts as complete only with nothing left to list or to read.
LEMMA FinalizeIInv ==
  ASSUME IInv, NEW r \in Runs, Finalize(r) PROVE IInv'
<1> DEFINE stamp == [top |-> cursor.top, overtaken |-> runs[r].overtaken]
           done == IF ReadThrough THEN stamp ELSE cursor.done
<1>1. /\ cursor # None /\ cursor \in Cursors /\ desk = "creator" /\ runs[r] \in Executions
      /\ SoundCursor(cursor, desk, arrived, stored, lost)
      /\ KeepsPass(runs[r], cursor) /\ runs[r].rev = cursor.revision
  <2>1. runs[r].pc = "bodies"
    BY DEF Finalize, At
  <2>2. QED
    BY <2>1, RunFacts DEF Finalize, BodyState, CursorHolds, IInv, TypeOK, CursorSound, SoundRun,
       AfterReplies
<1>2. cursor.top \in Tops /\ cursor.revision \in Nat /\ done \in Stamps \union {None}
  <2>1. stamp \in Stamps
    BY <1>1 DEF Cursors, Executions, Stamps
  <2>2. QED
    BY <1>1, <2>1 DEF Cursors
<1> HIDE DEF done
<1>3. PICK c : c = [cursor EXCEPT !.done = done]
  OBVIOUS
<1>4. /\ c \in Cursors /\ c.label = cursor.label /\ c.token = cursor.token /\ c.top = cursor.top
      /\ c.pending = cursor.pending /\ c.revision = cursor.revision /\ c.done = done
  BY <1>1, <1>2, <1>3 DEF Cursors
<1>5. SoundCursor(c, desk, arrived, stored, lost)
  <2>1. ASSUME done # None
        PROVE  Vouched(done, cursor.label, SettledBy(desk, stored, lost))
    <3>1. CASE ReadThrough
      <4>1. done.top = cursor.top /\ done.overtaken = runs[r].overtaken
        BY <3>1 DEF done
      <4>2. cursor.top = None => runs[r].overtaken
        BY <1>1 DEF KeepsPass, Executions
      <4>3. ASSUME cursor.top # None, NEW i \in 1 .. cursor.top
            PROVE  <<cursor.label, i>> \in SettledBy(desk, stored, lost)
        BY <1>1, <3>1, <4>3 DEF ReadThrough, SoundCursor, Covers
      <4>4. QED
        BY <4>1, <4>2, <4>3 DEF Vouched
    <3>2. CASE ~ ReadThrough
      BY <1>1, <2>1, <3>2 DEF SoundCursor, done
    <3>3. QED
      BY <3>1, <3>2
  <2>2. QED
    BY <1>1, <1>4, <2>1 DEF SoundCursor
<1>6. cursor' = c /\ SetRun(r, End(r))
  BY <1>3 DEF Finalize, done
<1>7. /\ End(r) \in Executions /\ End(r).pc = "done"
      /\ SoundRun(End(r), c, desk, arrived, stored, lost)
  BY EndSound
<1>8. SidesTyped'
  BY SidesKept DEF Finalize, mailboxVars, linkVars, bodyVars
<1>9. UNCHANGED <<scene, arrived, lost, stored, link, threads, events>>
  BY DEF Finalize, mailboxVars, linkVars, bodyVars
<1>10. CursorSound'
  BY <1>5, <1>6, <1>9 DEF CursorSound, desk
<1>11. /\ cursor' \in Cursors \union {None} /\ cursor' # None
       /\ cursor.revision <= cursor'.revision /\ cursor'.revision = cursor.revision
       /\ cursor'.label = cursor.label /\ cursor'.top = cursor.top
       /\ SoundRun(End(r), cursor', desk, arrived, stored, lost)
  BY <1>2, <1>4, <1>6, <1>7, MailAssumption
<1>12. QED
  BY <1>6, <1>7, <1>8, <1>9, <1>10, <1>11, RunStepIInv

-----------------------------------------------------------------------------
(* MailSync: saves.                                                        *)

\* A save moves the cursor on to where its execution has come.
LEMMA AdvancedIs ==
  ASSUME IInv, NEW r \in Runs, runs[r].pc \in {"fetching", "saving"},
         cursor.revision = runs[r].rev
  PROVE  LET c == Advanced(r)
         IN  /\ c \in Cursors /\ c.label = runs[r].label /\ c.token = runs[r].token
             /\ c.pending = Left(r) /\ c.revision = cursor.revision + 1
             /\ c.top = runs[r].top /\ c.done = cursor.done
<1> DEFINE run == runs[r]
<1>1. run \in Executions /\ GoesBy(run, cursor)
  BY RunFacts DEF SoundRun, Paging
<1>2. cursor # None /\ cursor \in Cursors /\ cursor.label = run.label
  BY <1>1 DEF GoesBy, IInv, TypeOK
<1>3. /\ run.token \in Nat /\ run.top \in Tops /\ run.pending \subseteq Messages
      /\ cursor.revision \in Nat
  BY <1>1, <1>2 DEF Executions, Cursors
<1>4. PICK left, rev, token, top : /\ left = Left(r) /\ rev = cursor.revision + 1
                                   /\ token = run.token /\ top = run.top
  OBVIOUS
<1>5. left \in SUBSET Messages /\ rev \in Nat /\ token \in Nat /\ top \in Tops
  BY <1>3, <1>4 DEF Left
<1>6. PICK c : c = [cursor EXCEPT !.token = token, !.pending = left, !.revision = rev, !.top = top]
  OBVIOUS
<1>7. /\ c \in Cursors /\ c.label = cursor.label /\ c.token = token /\ c.pending = left
      /\ c.revision = rev /\ c.top = top /\ c.done = cursor.done
  BY <1>2, <1>5, <1>6 DEF Cursors
<1>8. Advanced(r) = c
  BY <1>4, <1>6 DEF Advanced
<1>9. QED
  BY <1>2, <1>4, <1>7, <1>8

\* A save gives what was read its rows and moves the cursor on to where the
\* execution has come; whoever else is under way is on an old revision then.
LEMMA SaveIInv ==
  ASSUME IInv, NEW r \in Runs, NEW f \in Executions, SetRun(r, f), f.pc # "saving",
         runs[r].pc \in {"fetching", "saving"}, cursor.revision = runs[r].rev,
         \A q \in Runs \ {r} : runs[q].pc # "saving",
         UNCHANGED <<scene, arrived, lost>>, SidesTyped', LinksTyped', LinkedHaveRows',
         ThreadsAgree', stored \subseteq stored', stored' \subseteq stored \union runs[r].got,
         runs[r].got \subseteq SettledBy(desk, stored', lost), cursor' = Advanced(r),
         SoundRun(f, cursor', desk, arrived, stored', lost)
  PROVE  IInv'
<1> DEFINE run == runs[r]
<1>1. /\ run \in Executions /\ run.label \in Labels
      /\ GoesBy(run, cursor) /\ ReadsItsPage(run, cursor, stored, lost)
      /\ Covers(arrived[run.label], SettledBy(desk, stored, lost), run.label, run.token, run.top,
                run.pending)
  BY RunFacts DEF SoundRun, Paging
<1>2. /\ cursor # None /\ cursor \in Cursors /\ cursor.label = run.label
      /\ SoundCursor(cursor, desk, arrived, stored, lost)
  BY <1>1 DEF GoesBy, IInv, TypeOK, CursorSound
<1>3. /\ run.token \in Nat /\ run.top \in Tops /\ run.pending \subseteq Messages
      /\ run.got \subseteq Messages /\ cursor.revision \in Nat
  BY <1>1, <1>2 DEF Executions, Cursors
<1>4. PICK left : left = Left(r)
  OBVIOUS
<1>5. left = run.pending \ run.eaten /\ left \in SUBSET Messages
  BY <1>3, <1>4 DEF Left
<1>6. PICK c : c = cursor'
  OBVIOUS
<1>7. cursor' = c
  BY <1>6
<1>8. /\ c \in Cursors /\ c.label = run.label /\ c.token = run.token /\ c.pending = left
      /\ c.revision = cursor.revision + 1 /\ c.top = run.top /\ c.done = cursor.done
  BY <1>4, <1>6, AdvancedIs
<1>9. SettledBy(desk, stored, lost) \subseteq SettledBy(desk, stored', lost)
  BY DEF SettledBy
<1>10. SoundCursor(c, desk, arrived, stored', lost)
  <2>1. Covers(arrived[run.label], SettledBy(desk, stored', lost), run.label, run.token, run.top,
               left)
    <3>1. arrived[run.label] \in Nat /\ arrived[run.label] <= arrived[run.label]
      BY <1>1 DEF IInv, TypeOK
    <3>2. Covers(arrived[run.label], SettledBy(desk, stored', lost), run.label, run.token,
                 run.top, run.pending)
      BY <1>1, <1>3, <1>9, <3>1, CoversMore
    <3>3. left \subseteq run.pending /\ run.pending \subseteq left \union SettledBy(desk, stored', lost)
      BY <1>1, <1>5 DEF ReadsItsPage, SettledBy
    <3>4. QED
      BY <3>2, <3>3, CoversLess
  <2>2. left \intersect stored' = {}
    BY <1>1, <1>5 DEF ReadsItsPage
  <2>3. c.done # None => Vouched(c.done, c.label, SettledBy(desk, stored', lost))
    BY <1>2, <1>8, <1>9 DEF SoundCursor, Vouched
  <2>4. QED
    BY <1>8, <2>1, <2>2, <2>3 DEF SoundCursor
<1>11. CursorSound'
  BY <1>7, <1>10 DEF CursorSound, desk
<1>12. /\ runs' \in [Runs -> Executions] /\ runs'[r] = f
       /\ \A q \in Runs \ {r} : runs'[q] = runs[q]
  BY RunSet DEF IInv, TypeOK
<1>13. stored' \subseteq Messages
  BY <1>3 DEF IInv, TypeOK
<1>14. TypeOK'
  <2>1. MailTyped
    BY DEF IInv, TypeOK, MailTyped
  <2>2. MailTyped'
    BY <1>13, <2>1 DEF MailTyped
  <2>3. cursor' \in Cursors
    BY <1>7, <1>8
  <2>4. QED
    BY <1>12, <2>2, <2>3 DEF TypeOK, SidesTyped, LinksTyped, MailTyped
<1>15. ASSUME NEW q \in Runs
       PROVE  SoundRun(runs'[q], cursor', desk', arrived', stored', lost')
  <2>1. desk' = desk
    BY DEF desk
  <2>2. CASE q = r
    BY <1>12, <2>1, <2>2
  <2>3. CASE q # r
    <3>1. /\ SoundRun(runs[q], cursor, desk, arrived, stored, lost) /\ runs[q] \in Executions
          /\ runs[q].pc # "saving" /\ runs'[q] = runs[q]
      BY <1>12, <2>3 DEF IInv, RunsSound, TypeOK
    <3>2. /\ arrived \in [Labels -> Nat] /\ \A l \in Labels : arrived[l] <= arrived[l]
          /\ cursor \in Cursors \union {None} /\ c \in Cursors \union {None} /\ c # None
      BY <1>2, <1>8, MailAssumption DEF IInv, TypeOK
    <3>3. cursor.revision <= c.revision /\ c.revision # cursor.revision
      BY <1>3, <1>8
    <3>4. SoundRun(runs[q], c, desk, arrived, stored', lost)
      BY <3>1, <3>2, <3>3, SoundRunMoves
    <3>5. QED
      BY <1>7, <2>1, <3>1, <3>4
  <2>4. QED
    BY <2>2, <2>3
<1>16. RunsSound'
  BY <1>15 DEF RunsSound
<1>17. OneSaves'
  BY <1>12 DEF OneSaves, IInv
<1>18. QED
  BY <1>11, <1>14, <1>16, <1>17 DEF IInv

\* What a career save commits: the outcome for the batch it holds.
LEMMA CommitOutcome ==
  ASSUME IInv, NEW r \in Runs, At(r, "saving")
  PROVE  SavedDownTo(r, Outcome(r), 0)
<1>1. /\ runs[r] \in Executions /\ runs[r].label \in Labels
      /\ ReadsItsPage(runs[r], cursor, stored, lost)
      /\ Covers(arrived[runs[r].label], SettledBy(desk, stored, lost), runs[r].label,
                runs[r].token, runs[r].top, runs[r].pending)
  BY RunFacts DEF SoundRun, At, Paging
<1>2. runs[r].got \subseteq {<<runs[r].label, i>> : i \in 1 .. arrived[runs[r].label]}
  BY <1>1 DEF ReadsItsPage, Covers
<1>3. runs[r].view \in Views /\ runs[r].known \in SUBSET Apps
  BY <1>1 DEF Executions, Views, Tables
<1>4. QED
  BY <1>1, <1>2, <1>3, OutcomeSaved DEF IInv

\* A career save commits its whole batch or nothing.
LEMMA CommitSaveIInv ==
  ASSUME IInv, NEW r \in Runs, CommitSave(r) PROVE IInv'
<1>1. /\ runs[r] \in Executions /\ runs[r].pc = "saving" /\ GoesBy(runs[r], cursor)
      /\ ReadsItsPage(runs[r], cursor, stored, lost)
  BY RunFacts DEF SoundRun, CommitSave, At, Paging
<1>2. /\ End(r) \in Executions /\ End(r).pc = "done" /\ SetRun(r, End(r))
      /\ \A c, d, rows : SoundRun(End(r), c, d, arrived, rows, lost)
  BY EndSound DEF CommitSave
<1>3. SidesTyped'
  BY SidesKept DEF CommitSave, mailboxVars, bodyVars
<1>4. UNCHANGED <<scene, arrived, lost>>
  BY DEF CommitSave, mailboxVars
<1>5. PICK out : out = Outcome(r)
  OBVIOUS
<1>6. CASE ~ out.ok
  <2>1. UNCHANGED <<stored, link, threads, events, cursor>>
    BY <1>5, <1>6 DEF CommitSave
  <2>2. QED
    BY <1>2, <1>3, <1>4, <2>1, RunOnlyIInv
<1>7. CASE out.ok
  <2>1. /\ stored' = out.rows /\ link' = out.link /\ threads' = out.threads
        /\ events' = out.events /\ cursor' = Advanced(r)
    BY <1>5, <1>7 DEF CommitSave
  <2>2. SavedDownTo(r, out, 0)
    BY <1>5, CommitOutcome DEF CommitSave
  <2>3. /\ out.link \in Links /\ out.threads \in Tables
        /\ out.events \in SUBSET (Apps \X Messages)
    BY <2>2 DEF SavedDownTo, Accounts
  <2>4. LinksTyped'
    BY <2>1, <2>3 DEF LinksTyped, Links, Tables
  <2>5. LinkedHaveRows' /\ ThreadsAgree'
    BY <2>1, <2>2 DEF SavedDownTo, Agree, LinkedHaveRows, ThreadsAgree
  <2>6. stored \subseteq stored' /\ stored' \subseteq stored \union runs[r].got
    BY <2>1, <2>2 DEF SavedDownTo
  <2>7. runs[r].got \subseteq SettledBy(desk, stored', lost)
    <3>1. \A m \in runs[r].got : m[2] > 0
      <4>1. runs[r].got \subseteq {<<runs[r].label, i>> : i \in 1 .. arrived[runs[r].label]}
        BY <1>1, RunFacts DEF SoundRun, Paging, ReadsItsPage, Covers
      <4>2. QED
        BY <4>1
    <3>2. runs[r].got \subseteq stored'
      BY <1>7, <2>1, <2>2, <3>1 DEF SavedDownTo
    <3>3. QED
      BY <3>2 DEF SettledBy
  <2>8. cursor.revision = runs[r].rev
    BY <1>1 DEF GoesBy
  <2>9. \A q \in Runs \ {r} : runs[q].pc # "saving"
    BY <1>1 DEF IInv, OneSaves
  <2>10. End(r).pc # "saving" /\ runs[r].pc \in {"fetching", "saving"}
    BY <1>1, <1>2
  <2>11. QED
    BY <1>2, <1>3, <1>4, <2>1, <2>4, <2>5, <2>6, <2>7, <2>8, <2>9, <2>10, SaveIInv
<1>8. QED
  BY <1>6, <1>7

\* A creator save leaves out only answers to other campaigns.
LEMMA SaveRepliesIInv ==
  ASSUME IInv, NEW r \in Runs, SaveReplies(r) PROVE IInv'
<1>1. /\ runs[r] \in Executions /\ runs[r].pc = "fetching" /\ runs[r].label \in Labels
      /\ ReadsItsPage(runs[r], cursor, stored, lost) /\ desk = "creator"
      /\ ~ runs[r].overtaken
  BY RunFacts DEF SoundRun, SaveReplies, Fetched, At, Paging
<1> DEFINE f == [runs[r] EXCEPT !.pc = "reopening", !.rev = cursor'.revision]
<1>2. /\ f \in Executions /\ f.pc = "reopening" /\ f.label = runs[r].label
      /\ f.rev = cursor'.revision /\ ~ f.overtaken
  <2>1. cursor'.revision \in Nat
    BY <1>1, AdvancedIs DEF Cursors, SaveReplies, RevisionHolds
  <2>2. QED
    BY <1>1, <2>1 DEF Executions
<1>3. SetRun(r, f) /\ cursor' = Advanced(r) /\ cursor.revision = runs[r].rev
  BY DEF SaveReplies, RevisionHolds
<1> HIDE DEF f
<1>4. stored' = stored \union (runs[r].got \ Foreign)
  BY DEF SaveReplies
<1>5. /\ stored \subseteq stored' /\ stored' \subseteq stored \union runs[r].got
      /\ runs[r].got \subseteq SettledBy(desk, stored', lost)
  BY <1>1, <1>4 DEF SettledBy
<1>6. \A q \in Runs : runs[q].pc # "saving"
  BY <1>1, RunFacts DEF SoundRun
<1>7. SoundRun(f, cursor', desk, arrived, stored', lost)
  <2>1. /\ cursor' # None /\ cursor'.label = runs[r].label /\ cursor'.top # None
        /\ cursor'.revision \in Nat
    BY <1>1, <1>3, AdvancedIs, MailAssumption DEF Cursors, ReadsItsPage
  <2>2. KeepsPass(f, cursor')
    BY <1>2, <2>1 DEF KeepsPass
  <2>3. QED
    BY <1>1, <1>2, <2>2 DEF SoundRun, AfterReplies, Paging
<1>8. SidesTyped'
  BY SidesKept DEF SaveReplies, mailboxVars, linkVars, bodyVars
<1>9. UNCHANGED <<scene, arrived, lost, link, threads, events>>
  BY DEF SaveReplies, mailboxVars, linkVars
<1>10. LinksTyped'
  BY <1>9 DEF IInv, TypeOK, LinksTyped
<1>11. LinkedHaveRows'
  BY <1>5, <1>9 DEF IInv, LinkedHaveRows
<1>12. ThreadsAgree'
  <2>1. ASSUME NEW m \in stored', link[m] # None PROVE m \in stored
    <3>1. m \in Messages
      BY <1>1, <1>4, <2>1 DEF IInv, TypeOK, Executions
    <3>2. QED
      BY <2>1, <3>1 DEF IInv, LinkedHaveRows
  <2>2. QED
    BY <1>9, <2>1 DEF IInv, ThreadsAgree
<1>13. f.pc # "saving" /\ runs[r].pc \in {"fetching", "saving"}
  BY <1>1, <1>2
<1>14. QED
  BY <1>2, <1>3, <1>5, <1>6, <1>7, <1>8, <1>9, <1>10, <1>11, <1>12, <1>13, SaveIInv

-----------------------------------------------------------------------------
(* MailSync: persons and the mailbox.                                      *)

\* A step that leaves the paging alone.
LEMMA AsideIInv ==
  ASSUME IInv, UNCHANGED <<scene, arrived, lost, stored, cursor, runs>>,
         SidesTyped', LinksTyped', LinkedHaveRows', ThreadsAgree'
  PROVE  IInv'
<1>1. TypeOK'
  BY DEF IInv, TypeOK, SidesTyped, LinksTyped
<1>2. CursorSound' /\ RunsSound' /\ OneSaves'
  BY DEF IInv, CursorSound, RunsSound, OneSaves, desk
<1>3. QED
  BY <1>1, <1>2 DEF IInv

\* The tables of links are untouched by most steps.
LEMMA LinksKept ==
  ASSUME IInv, UNCHANGED <<stored, link, threads, events>>
  PROVE  LinksTyped' /\ LinkedHaveRows' /\ ThreadsAgree'
<1>1. LinksTyped'
  BY DEF IInv, TypeOK, LinksTyped
<1>2. LinkedHaveRows' /\ ThreadsAgree'
  BY DEF IInv, LinkedHaveRows, ThreadsAgree
<1>3. QED
  BY <1>1, <1>2

\* A person's decision on a message with a row stands with everything that was
\* recorded before.
LEMMA ReviewedStands ==
  ASSUME IInv, NEW a \in Apps, NEW m \in Messages, RecordReviewed(a, m)
  PROVE  /\ LinksTyped' /\ LinkedHaveRows' /\ ThreadsAgree'
         /\ Stands(link, threads, link', threads')
<1>1. /\ stored \in SUBSET Messages /\ link \in Links /\ threads \in Tables
      /\ events \in SUBSET (Apps \X Messages)
  BY DEF IInv, TypeOK, Links, Tables
<1>2. Agree(stored, link, threads, events)
  BY AgreeIsInvariant DEF IInv
<1>3. PICK bound, table : bound = link' /\ table = threads'
  OBVIOUS
<1>4. /\ bound = [link EXCEPT ![m] = a] /\ table = Bind(threads, m, a, "manual")
      /\ link[m] \in {None, a} /\ MayBind(threads, m, a) /\ "manual" \in {"gmail", "manual"}
      /\ stored' = stored /\ events' = events \union {<<a, m>>} /\ stored \union {m} = stored
  BY <1>3 DEF RecordReviewed
<1>5. /\ Agree(stored \union {m}, bound, table, events \union {<<a, m>>})
      /\ Stands(link, threads, bound, table)
      /\ bound \in Links /\ table \in Tables
      /\ events \union {<<a, m>>} \in SUBSET (Apps \X Messages)
  <2>1. PICK rows, links, old, told :
          rows = stored /\ links = link /\ old = threads /\ told = events
    OBVIOUS
  <2>2. /\ rows \in SUBSET Messages /\ links \in Links /\ old \in Tables
        /\ told \in SUBSET (Apps \X Messages) /\ Agree(rows, links, old, told)
    BY <1>1, <1>2, <2>1
  <2>3. /\ bound = [links EXCEPT ![m] = a] /\ table = Bind(old, m, a, "manual")
        /\ links[m] \in {None, a} /\ MayBind(old, m, a)
    BY <1>4, <2>1
  <2>. "manual" \in {"gmail", "manual"}
    OBVIOUS
  <2>4. /\ Agree(rows \union {m}, bound, table, told \union {<<a, m>>})
        /\ Stands(links, old, bound, table)
    BY <2>2, <2>3, BindAgrees
  <2>5. bound \in Links /\ table \in Tables
    BY <2>2, <2>3, BindKeeps DEF Links
  <2>6. told \union {<<a, m>>} \in SUBSET (Apps \X Messages)
    BY <2>2
  <2>7. QED
    BY <2>1, <2>4, <2>5, <2>6
<1>6. LinksTyped'
  BY <1>3, <1>4, <1>5 DEF LinksTyped, Links, Tables
<1>7. Agree(stored, link', threads', events')
  BY <1>3, <1>4, <1>5
<1>8. LinkedHaveRows' /\ ThreadsAgree'
  BY <1>4, <1>7 DEF Agree, LinkedHaveRows, ThreadsAgree
<1>9. QED
  BY <1>3, <1>5, <1>6, <1>8

\* Whatever a person does.
LEMMA PersonIInv ==
  ASSUME IInv, PersonStep PROVE IInv'
<1>1. /\ reviews \in Nat /\ label \in Labels /\ relabels \in Nat
      /\ wanted \subseteq Messages /\ applied \subseteq Apps /\ body \in [Messages -> Captures]
  BY DEF IInv, TypeOK, Captures
<1>2. ASSUME NEW a \in Apps, RecordSubmitted(a) PROVE IInv'
  <2>1. UNCHANGED <<scene, arrived, lost, stored, cursor, runs, link, threads, events>>
    BY <1>2 DEF RecordSubmitted, mailboxVars, bodyVars
  <2>2. SidesTyped'
    BY <1>1, <1>2 DEF RecordSubmitted, Interferes, mailboxVars, bodyVars, SidesTyped, Captures
  <2>3. QED
    BY <2>1, <2>2, LinksKept, AsideIInv
<1>3. ASSUME NEW a \in Apps, NEW m \in Messages, RecordReviewed(a, m) PROVE IInv'
  <2>1. UNCHANGED <<scene, arrived, lost, stored, cursor, runs>>
    BY <1>3 DEF RecordReviewed, mailboxVars, bodyVars
  <2>2. SidesTyped'
    BY <1>1, <1>3 DEF RecordReviewed, Interferes, mailboxVars, bodyVars, SidesTyped, Captures
  <2>3. QED
    BY <1>3, <2>1, <2>2, ReviewedStands, AsideIInv
<1>4. ASSUME NEW m \in Messages, RequestRead(m) \/ Review(m) \/ OptOut(m) PROVE IInv'
  <2>1. UNCHANGED <<scene, arrived, lost, stored, cursor, runs, link, threads, events>>
    BY <1>4 DEF RequestRead, Review, OptOut, mailboxVars, linkVars
  <2>2. /\ UNCHANGED <<label, relabels, applied>> /\ reviews' = reviews + 1
        /\ wanted' \subseteq wanted
    BY <1>4 DEF RequestRead, Review, OptOut, mailboxVars, linkVars, Interferes
  <2>3. body' \in [Messages -> Captures]
    <3>1. CASE RequestRead(m)
      BY <1>1, <3>1, BodyEdits DEF RequestRead
    <3>2. CASE Review(m)
      BY <1>1, <3>2, BodyEdits DEF Review
    <3>3. CASE OptOut(m)
      BY <1>1, <3>3 DEF OptOut
    <3>4. QED
      BY <1>4, <3>1, <3>2, <3>3
  <2>4. SidesTyped'
    BY <1>1, <2>2, <2>3 DEF SidesTyped, Captures
  <2>5. QED
    BY <2>1, <2>4, LinksKept, AsideIInv
<1>5. QED
  BY <1>2, <1>3, <1>4 DEF PersonStep

\* Mail that arrives or is lost leaves everyone sound.
LEMMA MailboxChanges ==
  ASSUME IInv, UNCHANGED <<scene, cursor, stored, runs, link, threads, events>>, SidesTyped',
         arrived' \in [Labels -> Nat],
         \A l \in Labels : arrived[l] <= arrived'[l] /\ arrived'[l] <= scene.mail[l],
         lost \subseteq lost', lost' \subseteq Messages
  PROVE  IInv'
<1>1. TypeOK'
  BY DEF IInv, TypeOK, SidesTyped
<1>2. CursorSound'
  <2>1. SoundCursor(cursor, desk, arrived', stored, lost')
    BY SoundCursorGrows DEF IInv, TypeOK, CursorSound
  <2>2. QED
    BY <2>1 DEF CursorSound, desk
<1>3. ASSUME NEW q \in Runs
      PROVE  SoundRun(runs'[q], cursor', desk', arrived', stored', lost')
  <2>1. SoundRun(runs[q], cursor, desk, arrived, stored, lost) /\ runs[q] \in Executions
    BY DEF IInv, RunsSound, TypeOK
  <2>2. cursor \in Cursors \union {None} /\ arrived \in [Labels -> Nat]
    BY DEF IInv, TypeOK
  <2>3. cursor # None => cursor.revision <= cursor.revision
    BY <2>2 DEF Cursors
  <2>4. SoundRun(runs[q], cursor, desk, arrived', stored, lost')
    BY <2>1, <2>2, <2>3, SoundRunMoves
  <2>5. QED
    BY <2>4 DEF desk
<1>4. RunsSound' /\ OneSaves'
  BY <1>3 DEF RunsSound, OneSaves, IInv
<1>5. LinkedHaveRows' /\ ThreadsAgree'
  BY LinksKept
<1>6. QED
  BY <1>1, <1>2, <1>4, <1>5 DEF IInv

\* Whatever happens to the mailbox.
LEMMA MailboxIInv ==
  ASSUME IInv, MailboxStep PROVE IInv'
<1>1. /\ arrived \in [Labels -> Nat] /\ \A l \in Labels : arrived[l] <= scene.mail[l]
      /\ scene.mail \in [Labels -> Nat] /\ lost \subseteq Messages
      /\ label \in Labels /\ relabels \in Nat
  BY MailAssumption DEF IInv, TypeOK
<1>2. ASSUME NEW l \in Labels, Arrive(l) PROVE IInv'
  <2>1. /\ arrived' = [arrived EXCEPT ![l] = arrived[l] + 1] /\ arrived[l] < scene.mail[l]
        /\ UNCHANGED <<scene, cursor, stored, runs, link, threads, events, lost>>
        /\ UNCHANGED <<reviews, label, relabels, wanted, applied, body>>
    BY <1>2 DEF Arrive, linkVars, bodyVars
  <2>2. arrived[l] \in Nat /\ scene.mail[l] \in Nat
    BY <1>1
  <2>3. /\ arrived' \in [Labels -> Nat]
        /\ \A k \in Labels : arrived[k] <= arrived'[k] /\ arrived'[k] <= scene.mail[k]
    BY <1>1, <2>1, <2>2
  <2>4. QED
    BY <1>1, <2>1, <2>3, SidesKept, MailboxChanges
<1>3. ASSUME NEW m \in Messages, Vanish(m) PROVE IInv'
  <2>1. /\ lost' = lost \union {m}
        /\ UNCHANGED <<scene, cursor, stored, runs, link, threads, events, arrived>>
        /\ UNCHANGED <<reviews, label, relabels, wanted, applied, body>>
    BY <1>3 DEF Vanish, linkVars, bodyVars
  <2>2. /\ arrived' \in [Labels -> Nat]
        /\ \A k \in Labels : arrived[k] <= arrived'[k] /\ arrived'[k] <= scene.mail[k]
    BY <1>1, <2>1
  <2>3. QED
    BY <1>1, <2>1, <2>2, SidesKept, MailboxChanges
<1>4. ASSUME NEW m \in Messages, Rest(m) PROVE IInv'
  <2>1. /\ UNCHANGED <<scene, arrived, lost, stored, cursor, runs, link, threads, events>>
        /\ UNCHANGED <<reviews, label, relabels, wanted, applied>>
        /\ body' = [body EXCEPT ![m].rested = TRUE]
    BY <1>4 DEF Rest, mailboxVars, linkVars
  <2>2. body' \in [Messages -> Captures]
    BY <2>1, BodyEdits DEF IInv, TypeOK, Captures
  <2>3. QED
    BY <2>1, <2>2, BodyOnly, LinksKept, AsideIInv
<1>5. ASSUME Relabel PROVE IInv'
  <2>1. /\ UNCHANGED <<scene, arrived, lost, stored, cursor, runs, link, threads, events>>
        /\ UNCHANGED <<reviews, wanted, applied, body>>
        /\ label' \in Labels /\ relabels' = relabels + 1
    BY <1>5 DEF Relabel, linkVars, bodyVars
  <2>2. SidesTyped'
    BY <1>1, <2>1 DEF IInv, TypeOK, SidesTyped
  <2>3. QED
    BY <2>1, <2>2, LinksKept, AsideIInv
<1>6. QED
  BY <1>2, <1>3, <1>4, <1>5 DEF MailboxStep

\* Every step of an execution.
LEMMA SyncIInv ==
  ASSUME IInv, NEW r \in Runs, SyncStep(r) PROVE IInv'
<1>1. QED
  BY BeginIInv, OpenIInv, ListIInv, FetchIInv, FailIInv, LoseLeaseIInv, StartSaveIInv,
     CommitSaveIInv, SaveRepliesIInv, ReopenIInv, ChooseIInv, ClaimIInv, ReadFullIInv,
     SaveBodyIInv, FinalizeIInv DEF SyncStep

\* No step at all.
LEMMA StutterIInv ==
  ASSUME IInv, UNCHANGED vars PROVE IInv'
<1>1. /\ UNCHANGED <<scene, arrived, lost, stored, cursor, runs, link, threads, events>>
      /\ UNCHANGED <<reviews, label, relabels, wanted, applied, body>>
  BY DEF vars, mailboxVars, linkVars, bodyVars
<1>2. QED
  BY <1>1, SidesKept, LinksKept, AsideIInv

\* The invariant is inductive.
LEMMA NextIInv == IInv /\ [Next]_vars => IInv'
<1>1. QED
  BY SyncIInv, PersonIInv, MailboxIInv, StutterIInv DEF Next

\* The inductive invariant: columns typed, the cursor and every execution sound,
\* one save at a time, and links, threads and events in agreement.
THEOREM MailInvariant == Spec => []IInv
<1>1. QED
  BY InitIInv, NextIInv, PTL DEF Spec

-----------------------------------------------------------------------------
(* MailSync: what follows.                                                 *)

\* The invariant's notion of settled is the property's.
LEMMA SettledIsSettled ==
  ASSUME NEW m PROVE m \in SettledBy(desk, stored, lost) <=> Settled(m)
<1>1. QED
  BY DEF SettledBy, Settled

\* No message of the label falls out of the paging, however syncs overlap with
\* arriving mail and with changes of the label.
THEOREM NothingFallsOut == Spec => []PassKept
<1>1. IInv => PassKept
  BY SettledIsSettled DEF IInv, CursorSound, SoundCursor, Covers, PassKept
<1>2. QED
  BY <1>1, MailInvariant, PTL

\* last_complete_at vouches for a mailbox that has been read.
THEOREM CompleteIsRead == Spec => []CompleteMeansRead
<1>1. IInv => CompleteMeansRead
  BY SettledIsSettled DEF IInv, CursorSound, SoundCursor, Vouched, CompleteMeansRead
<1>2. QED
  BY <1>1, MailInvariant, PTL

\* A linked message agrees with its thread's binding and with its events.
THEOREM ThreadsAlwaysAgree == Spec => []ThreadsAgree
<1>1. QED
  BY MailInvariant, PTL DEF IInv

\* An execution changes links and bindings only by committing a batch.
LEMMA SyncStands ==
  ASSUME IInv, NEW r \in Runs, SyncStep(r)
  PROVE  UNCHANGED <<link, threads>> \/ Stands(link, threads, link', threads')
<1>1. CASE CommitSave(r)
  <2>1. SavedDownTo(r, Outcome(r), 0)
    BY <1>1, CommitOutcome DEF CommitSave
  <2>2. CASE Outcome(r).ok
    BY <1>1, <2>1, <2>2 DEF CommitSave, SavedDownTo
  <2>3. CASE ~ Outcome(r).ok
    BY <1>1, <2>3 DEF CommitSave
  <2>4. QED
    BY <2>2, <2>3
<1>2. CASE ~ CommitSave(r)
  BY <1>2 DEF SyncStep, Begin, Open, List, Fetch, Fail, LoseLease, StartSave, SaveReplies,
     Reopen, Choose, Claim, ReadFull, SaveBody, Finalize, linkVars
<1>3. QED
  BY <1>1, <1>2

\* No sync takes back what a person has decided about a thread, nor what a
\* message has been recorded for.
THEOREM DecisionsAlwaysStand == Spec => DecisionsStand
<1> DEFINE Kept ==
      /\ \A m \in Messages : link[m] # None => link'[m] = link[m]
      /\ \A t \in DOMAIN threads :
           threads[t] # None => /\ threads'[t] # None /\ threads'[t].app = threads[t].app
                                /\ threads[t].by = "manual" => threads'[t].by = "manual"
<1>1. ASSUME IInv, Stands(link, threads, link', threads') PROVE Kept
  <2>1. DOMAIN threads = Range(Thread)
    BY <1>1 DEF IInv, TypeOK
  <2>2. QED
    BY <1>1, <2>1 DEF Stands
<1>2. ASSUME IInv, [Next]_vars PROVE [Kept]_<<link, threads>>
  <2>1. CASE \E r \in Runs : SyncStep(r)
    BY <1>1, <1>2, <2>1, SyncStands
  <2>2. CASE PersonStep
    <3>1. CASE \E a \in Apps, m \in Messages : RecordReviewed(a, m)
      BY <1>1, <1>2, <3>1, ReviewedStands
    <3>2. CASE ~ \E a \in Apps, m \in Messages : RecordReviewed(a, m)
      BY <2>2, <3>2 DEF PersonStep, RecordSubmitted, RequestRead, Review, OptOut, linkVars
    <3>3. QED
      BY <3>1, <3>2
  <2>3. CASE MailboxStep
    BY <2>3 DEF MailboxStep, Arrive, Vanish, Rest, Relabel, linkVars
  <2>4. CASE UNCHANGED vars
    BY <2>4 DEF vars, linkVars
  <2>5. QED
    BY <1>2, <2>1, <2>2, <2>3, <2>4 DEF Next
<1>3. IInv /\ [Next]_vars => [Kept]_<<link, threads>>
  BY <1>2
<1>4. QED
  BY <1>3, MailInvariant, PTL DEF Spec, DecisionsStand

\* A body that has become complete was claimed by an execution that still holds
\* its lease, for a reply nobody had reviewed and a creator who may be written to.
LEMMA CapturedInTime ==
  ASSUME IInv, NEW r \in Runs, SaveBody(r), NEW m \in Messages
  PROVE  /\ body[m].status = "complete" => body'[m].status = "complete"
         /\ body'[m].status = "complete" /\ body[m].status # "complete" =>
              /\ body[m].review /\ m \in wanted
              /\ body[m].owner # None /\ runs[body[m].owner].live
<1>1. PICK k, s : k = runs[r].claim.id /\ s = Captured(r)
  OBVIOUS
<1>2. body \in [Messages -> Captures] /\ r # None
  BY MailAssumption DEF IInv, TypeOK, Captures
<1>3. body' = [body EXCEPT ![k].status = s]
  BY <1>1 DEF SaveBody
<1>4. /\ body[k].review /\ body[k].status = "reading" /\ body[k].owner = r /\ runs[r].live
      /\ s = "complete" => k \in wanted
  BY <1>1 DEF SaveBody, OwnsCapture, BodyState, Captured
<1>5. CASE m = k
  <2>1. body'[m].status = s
    BY <1>2, <1>3, <1>5 DEF Captures
  <2>2. QED
    BY <1>2, <1>4, <1>5, <2>1
<1>6. CASE m # k
  BY <1>2, <1>3, <1>6
<1>7. QED
  BY <1>5, <1>6

\* A captured body stands, and is captured only in time.
THEOREM BodiesStand == Spec => BodyStands
<1> DEFINE Kept ==
      \A m \in Messages :
         /\ body[m].status = "complete" => body'[m].status = "complete"
         /\ body'[m].status = "complete" /\ body[m].status # "complete" =>
              /\ body[m].review /\ m \in wanted
              /\ body[m].owner # None /\ runs[body[m].owner].live
<1>1. ASSUME IInv, [Next]_vars PROVE [Kept]_body
  <2>1. body \in [Messages -> Captures]
    BY <1>1 DEF IInv, TypeOK, Captures
  <2>2. ASSUME NEW r \in Runs, Claim(r) PROVE Kept
    <3>1. PICK k : k = Oldest(runs[r].todo)
      OBVIOUS
    <3>2. CASE MayClaim(k)
      <4>1. PICK row : row.status = "reading" /\ body' = [body EXCEPT ![k] = row]
        BY <2>2, <3>1, <3>2 DEF Claim
      <4>2. body[k].status # "complete"
        BY <3>2 DEF MayClaim, Readable
      <4>3. QED
        BY <2>1, <4>1, <4>2
    <3>3. CASE ~ MayClaim(k)
      BY <2>2, <3>1, <3>3 DEF Claim
    <3>4. QED
      BY <3>2, <3>3
  <2>3. ASSUME NEW r \in Runs, SyncStep(r) PROVE [Kept]_body
    <3>1. CASE SaveBody(r)
      BY <1>1, <3>1, CapturedInTime
    <3>2. CASE Claim(r)
      BY <2>2, <3>2
    <3>3. CASE ~ SaveBody(r) /\ ~ Claim(r)
      BY <2>3, <3>3 DEF SyncStep, Begin, Open, List, Fetch, Fail, LoseLease, StartSave,
         CommitSave, SaveReplies, Reopen, Choose, ReadFull, Finalize, bodyVars
    <3>4. QED
      BY <3>1, <3>2, <3>3
  <2>4. ASSUME NEW k \in Messages, RequestRead(k) \/ Review(k) \/ Rest(k) PROVE Kept
    <3>1. CASE RequestRead(k)
      BY <2>1, <3>1 DEF RequestRead, Captures
    <3>2. CASE Review(k)
      BY <2>1, <3>2 DEF Review, Captures
    <3>3. CASE Rest(k)
      BY <2>1, <3>3 DEF Rest, Captures
    <3>4. QED
      BY <2>4, <3>1, <3>2, <3>3
  <2>5. CASE PersonStep
    BY <2>4, <2>5 DEF PersonStep, RecordSubmitted, RecordReviewed, OptOut, bodyVars
  <2>6. CASE MailboxStep
    BY <2>4, <2>6 DEF MailboxStep, Arrive, Vanish, Relabel, bodyVars
  <2>7. CASE UNCHANGED vars
    BY <2>7 DEF vars, bodyVars
  <2>8. QED
    BY <1>1, <2>3, <2>5, <2>6, <2>7 DEF Next
<1>2. IInv /\ [Next]_vars => [Kept]_body
  BY <1>1
<1>3. QED
  BY <1>2, MailInvariant, PTL DEF Spec, BodyStands
=============================================================================
