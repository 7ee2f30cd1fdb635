-------------------------- MODULE MCCareerAutopilot --------------------------
(* An instance of CareerAutopilot for TLC.                                  *)
EXTENDS CareerAutopilot, TLC

CONSTANTS o1, o2, o3, s1, s2

\* o1 and o2 are two listings of one job; o2 has a hiring address only.
Listings == {o1, o2, o3}
Jobs == [o \in Listings |-> IF o = o2 THEN o1 ELSE o]
OneADay == [r \in 1..MaxRuns |-> 1]

Scene(plays, listed, contacted, n, long, passes) ==
  [plays |-> plays, listed |-> listed, contacted |-> contacted, changes |-> n,
   long |-> long, passes |-> passes]

\* Two listings of one job; two jobs on one day, by two
\* schedulers or by two runs;
\* a run that prepares before the one that applies; and two edits around one
\* application, beside a contact who gets an email about the job.
Scenes ==
  { Scene(<<"apply">>, {o1, o2}, {}, 0, TRUE, {s1}),
    Scene(<<"apply">>, {o1, o3}, {}, 0, FALSE, {s1, s2}),
    Scene(<<"apply", "apply">>, {o1, o3}, {}, 0, FALSE, {s1}),
    Scene(<<"prepare", "apply">>, {o2}, {}, 1, TRUE, {s1}),
    Scene(<<"apply">>, {o2}, {o2}, 2, TRUE, {s1}) }
===============================================================================
