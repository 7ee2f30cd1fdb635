-------------------------- MODULE MCTaskLifecycle --------------------------
(***************************************************************************)
(* Small instances of TaskLifecycle for TLC.                               *)
(***************************************************************************)
EXTENDS TaskLifecycle, TLC

CONSTANTS t1, t2, w1, w2, d1, d2, l1, l2

\* One ordinary task, retried once: the interleavings of two workers and two
\* dispatchers on the same row.
OneRetry == [t \in Tasks |-> 2]

\* An ordinary task next to a side effect that needs approval and is never
\* retried.
RetryOrOnce == [t \in Tasks |-> IF t \in HighRisk THEN 1 ELSE 2]

Symmetry == Permutations(Workers) \cup Permutations(Dispatchers) \cup Permutations(LeaseIds)
=============================================================================
