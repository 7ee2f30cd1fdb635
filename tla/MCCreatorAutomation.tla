------------------------- MODULE MCCreatorAutomation -------------------------
(* Scenes of CreatorAutomation for TLC.                                     *)
EXTENDS CreatorAutomation, TLC

CONSTANTS c1, c2, x1, x2, x3, x4, p1, p2, p3, p4, r1, r2, r3, m1, w1, w2, w3, v1, v2

AllCreators == {x1, x2, x3, x4}

Silent == [replies |-> {}, from |-> [m \in {} |-> x1], about |-> [m \in {} |-> {}],
           optOuts |-> {}, monitored |-> {},
           synced |-> {}]

\* Two creators in one campaign, one run and two workers, of which one may
\* have lost its lease.
Pair ==
  [campaigns |-> {c1}, prospects |-> {p1, p2}, runs |-> {r3}, workers |-> {w1, w2},
   campaign |-> p1 :> c1 @@ p2 :> c1, creator |-> p1 :> x1 @@ p2 :> x2,
   grantee |-> r3 :> c1, autoHandoff |-> {}, maxInitials |-> r3 :> 1,
   versions |-> {v1}, pitch |-> v1 :> v1, byHand |-> {}, maxPackets |-> 2, maxEdits |-> 1]
  @@ Silent

\* The same with two runs, in either order, of which one may write to both
\* within a day, and one worker.
Relay ==
  [Pair EXCEPT !.runs = {r1, r2}, !.workers = {w3}, !.grantee = r1 :> c1 @@ r2 :> c1,
               !.maxInitials = r1 :> 1 @@ r2 :> 2]

\* One creator in two campaigns: a run serves the one, operators the other;
\* v2 changes the targeting, not the packets.
Shared ==
  [campaigns |-> {c1, c2}, prospects |-> {p3, p4}, runs |-> {r3}, workers |-> {w3},
   campaign |-> p3 :> c1 @@ p4 :> c2, creator |-> p3 :> x3 @@ p4 :> x3,
   grantee |-> r3 :> c1, autoHandoff |-> {r3}, maxInitials |-> r3 :> 1,
   versions |-> {v1, v2}, pitch |-> v1 :> v1 @@ v2 :> v1, byHand |-> {p4},
   maxPackets |-> 3, maxEdits |-> 2]
  @@ Silent

\* Two campaigns that share a mailbox label, each with a creator of its own;
\* m1 is from the creator of the campaign that the run does not serve.
Label ==
  [campaigns |-> {c1, c2}, prospects |-> {p3, p4}, runs |-> {r3}, workers |-> {w3},
   campaign |-> p3 :> c1 @@ p4 :> c2, creator |-> p3 :> x3 @@ p4 :> x4,
   grantee |-> r3 :> c1, autoHandoff |-> {r3}, maxInitials |-> r3 :> 1,
   versions |-> {v1}, pitch |-> v1 :> v1, byHand |-> {p4}, maxPackets |-> 2, maxEdits |-> 1,
   replies |-> {m1}, from |-> m1 :> x4, about |-> m1 :> {p4}, optOuts |-> {m1}, monitored |-> {r3},
   synced |-> {c1}]

\* The same, but m1 has a subject of its own and asks for nothing.
Untitled == [Label EXCEPT !.about = m1 :> {}, !.optOuts = {}, !.autoHandoff = {}]

\* One campaign, whose creator may answer the run's introduction.
Answered ==
  [campaigns |-> {c1}, prospects |-> {p3}, runs |-> {r3}, workers |-> {w3},
   campaign |-> p3 :> c1, creator |-> p3 :> x3,
   grantee |-> r3 :> c1, autoHandoff |-> {r3}, maxInitials |-> r3 :> 1,
   versions |-> {v1}, pitch |-> v1 :> v1, byHand |-> {}, maxPackets |-> 2, maxEdits |-> 1,
   replies |-> {m1}, from |-> m1 :> x3, about |-> m1 :> {p3}, optOuts |-> {}, monitored |-> {r3},
   synced |-> {c1}]

\* One run, one creator, edits by hand.
Lone ==
  [campaigns |-> {c1}, prospects |-> {p3}, runs |-> {r3}, workers |-> {w3},
   campaign |-> p3 :> c1, creator |-> p3 :> x3,
   grantee |-> r3 :> c1, autoHandoff |-> {}, maxInitials |-> r3 :> 1,
   versions |-> {v1, v2}, pitch |-> v1 :> v1 @@ v2 :> v1, byHand |-> {p3},
   maxPackets |-> 2, maxEdits |-> 2]
  @@ Silent

OutreachScenes == "pair" :> Pair @@ "relay" :> Relay @@ "shared" :> Shared
                  @@ "label" :> Label @@ "untitled" :> Untitled
                  @@ "answered" :> Answered
DecisionScenes == "lone" :> Lone

\* Whatever has two of w1 and w2, or of x1 and x2 with their prospects p1 and
\* p2, has them alike.
Swapped == x1 :> x2 @@ x2 :> x1 @@ p1 :> p2 @@ p2 :> p1
OutreachSymmetry == Permutations({w1, w2}) \cup {Swapped}
==============================================================================
