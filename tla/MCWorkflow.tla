------------------------------ MODULE MCWorkflow ------------------------------
(* Instances of Workflow for TLC.                                            *)
EXTENDS Workflow, TLC

\* A diamond submitted from its end, and a cycle beside a step without
\* dependencies.
Diamond == 1 :> {2, 3} @@ 2 :> {4} @@ 3 :> {4} @@ 4 :> {}
Cycle == 1 :> {} @@ 2 :> {4} @@ 3 :> {2} @@ 4 :> {3}
FourStepPlans == {Diamond, Cycle}

\* The step that the others wait for is tried again.
LastTwice == [s \in Steps |-> IF s = 4 THEN 2 ELSE 1]
===============================================================================
