--------------------------- MODULE MCInferenceTasks ---------------------------
(* An instance of InferenceTasks for TLC.                                   *)
EXTENDS InferenceTasks, TLC

CONSTANTS t1, t2, w1, w2

TwoTasks == {t1, t2}
Retries == [t \in TwoTasks |-> t1]

Model(name, rank, tools, size, scores) ==
  [name |-> name, suffix |-> TRUE, text |-> TRUE, withheld |-> FALSE, prices |-> {"zero"},
   routable |-> TRUE, listed |-> rank, supports |-> tools, context |-> size,
   index |-> [b \in Benchmarks |->
     IF b = "intelligence" THEN scores[1] ELSE IF b = "coding" THEN scores[2] ELSE scores[3]]]

\* Every criterion of the order decides between two of these, and each test of
\* is_zero_cost_text_model refuses one.
Sound ==
  { Model(1, Unlisted, {}, 8, <<-1, -1, -1>>),
    Model(2, Unlisted, {}, 9, <<-1, -1, -1>>),
    Model(3, Unlisted, {"reasoning", "tools"}, 8, <<120, -1, -1>>),
    Model(4, Unlisted, {"structured_outputs"}, 8, <<-1, -1, -1>>),
    Model(5, Unlisted, {}, 8, <<40, 40, 40>>),
    Model(6, Unlisted, {}, 8, <<-1, 90, -1>>),
    Model(7, 1, {}, 8, <<10, 10, 10>>),
    Model(8, 0, {}, 8, <<-1, -1, -1>>),
    Model(9, Unlisted, {}, 8, <<40, 50, 40>>),
    Model(16, Unlisted, {}, 7, <<0, -1, -1>>) }
Unsound ==
  LET m == Model(10, 0, Abilities, 9, <<100, 100, 100>>)
  IN  { [m EXCEPT !.suffix = FALSE], [m EXCEPT !.text = FALSE, !.name = 11],
        [m EXCEPT !.withheld = TRUE, !.name = 12], [m EXCEPT !.routable = FALSE, !.name = 13],
        [m EXCEPT !.prices = {"zero", "positive"}, !.name = 14],
        [m EXCEPT !.prices = {"unreadable"}, !.name = 15] }

Offers == Sound \cup Unsound

\* What the router is for, said without its key: only free text models that may
\* be used are asked; the owner's list comes first and in its order; of the
\* rest a model nobody measured is asked after one that was; one that is at
\* least as good in every respect, and in one better, is never asked after the
\* other; and what is left out is never better than what is asked.
AtLeast(m, n) ==
  /\ \A b \in Benchmarks : m.index[b] >= n.index[b]
  /\ n.supports \subseteq m.supports /\ m.context >= n.context
Better(m, n) ==
  \/ m.listed < n.listed
  \/ m.listed = Unlisted /\ n.listed = Unlisted /\ Measured(m) /\ ~Measured(n)
  \/ m.listed = n.listed /\ Measured(m) = Measured(n) /\ AtLeast(m, n) /\ ~AtLeast(n, m)

ASSUME RankingIsRight ==
  \A models \in SUBSET Sound : LET asked == RankFree(models \cup Unsound)
                                  Of(name) == CHOOSE m \in models : m.name = name
                              IN
    /\ Range(asked) \subseteq {m.name : m \in models} /\ IsInjective(asked)
    /\ Len(asked) = Min({MaxModels, Cardinality(models)})
    /\ \A i, j \in DOMAIN asked : i < j => ~Better(Of(asked[j]), Of(asked[i]))
    /\ \A i \in DOMAIN asked : \A m \in models :
         m.name \in Range(asked) \/ ~Better(m, Of(asked[i]))

Scene(first, second, hostedOn, localToo, n, midnights, procs) ==
  [kind |-> (t1 :> first) @@ (t2 :> second), hosted |-> hostedOn, fallback |-> localToo,
   changes |-> n, days |-> midnights, workers |-> procs]

\* Two plans around midnight; one task of each kind with the disturbances of
\* its own; a reply and its recovery; an application with its repair, beside
\* a plan that takes the last call of the day.
Scenes ==
  { Scene("plan", "plan", TRUE, TRUE, 0, 1, {w1, w2}),
    Scene("plan", "none", TRUE, FALSE, 3, 0, {w1, w2}),
    Scene("demo", "none", TRUE, TRUE, 2, 0, {w1, w2}),
    Scene("creator", "none", TRUE, TRUE, 2, 0, {w1, w2}),
    Scene("local_creator", "none", TRUE, TRUE, 2, 0, {w1, w2}),
    Scene("reply", "recovery", TRUE, TRUE, 3, 0, {w1, w2}),
    Scene("application", "none", TRUE, TRUE, 2, 0, {w1, w2}),
    Scene("application", "plan", TRUE, FALSE, 0, 1, {w1, w2}) }

\* The two workers run one program and no property names one of them.
Alike == Permutations({w1, w2})
===============================================================================
