-------------------------- MODULE MCExternalActions --------------------------
(* Scenes of ExternalActions for TLC.                                       *)
EXTENDS ExternalActions, TLC

CONSTANTS a1, a2, g1, g2, w1, w2

\* The page changes its questions, then gets a captcha that no field shows, then
\* a second submit control.
Page == <<
  [signature |-> 1, asks |-> FALSE, blocked |-> FALSE, single |-> TRUE],
  [signature |-> 2, asks |-> TRUE, blocked |-> FALSE, single |-> TRUE],
  [signature |-> 2, asks |-> TRUE, blocked |-> TRUE, single |-> TRUE],
  [signature |-> 2, asks |-> TRUE, blocked |-> FALSE, single |-> FALSE]>>

\* Two emails with contexts of their own.
Emails ==
  [target |-> a1 :> g1 @@ a2 :> g2, paced |-> {a1, a2}, applications |-> {},
   changeable |-> {a1}, faults |-> 1, forms |-> 0, preflights |-> 0, material |-> 0, ages |-> FALSE]

\* Two applications to one opportunity, with other answers: whichever begins first.
Rivals ==
  [target |-> a1 :> g1 @@ a2 :> g1, paced |-> {}, applications |-> {a1, a2},
   changeable |-> {}, faults |-> 1, forms |-> 0, preflights |-> 1, material |-> 0, ages |-> FALSE]

\* One application; the page and the resume change.
Moving ==
  [target |-> a1 :> g1 @@ a2 :> g1, paced |-> {}, applications |-> {a1},
   changeable |-> {}, faults |-> 1, forms |-> 4, preflights |-> 2, material |-> 2, ages |-> TRUE]

ActionScenes == "emails" :> Emails @@ "rivals" :> Rivals @@ "moving" :> Moving
BoundaryScenes == "rivals" :> Rivals

\* The workers are interchangeable.
WorkerSymmetry == Permutations(Workers)
==============================================================================
