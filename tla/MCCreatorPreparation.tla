------------------------ MODULE MCCreatorPreparation ------------------------
(* An instance of CreatorPreparation for TLC.                               *)
EXTENDS CreatorPreparation, TLC

CONSTANTS c1, c2, c3, b1, b2, k1, k2, p1, p2, w1, w2, a1, a2, a3

\* c3 is a row of another campaign.
Homes == [x \in {c1, c2, c3, b1, b2, p1, p2} |-> IF x \in {c3, p2} THEN "other" ELSE "main"]

Where(first, second, third) == (c1 :> first) @@ (c2 :> second) @@ (c3 :> third)
Open == Where("open", "open", "open")
Start(requests, status, address, may, n, hours, procs, finds) ==
  [requests |-> requests, status |-> status, address |-> address, may |-> may,
   changes |-> n, hours |-> hours, workers |-> procs, finds |-> finds]
Apart3 == Where(a1, a2, a3)

Scenes ==
  { \* The budget, as time passes.
    Start({b1, b2}, Where("open", "open", "answered"), Apart3, {"reply", "cancel"},
          1, 3, {w1}, {{}}),
    Start({b1}, Where("open", "answered", "answered"), Apart3, {"draft", "sync", "reply"},
          0, 3, {w1}, {{}}),
    \* A batch, its worker's lease, and what people do meanwhile.
    Start({b1}, Open, Apart3, {"lease", "cancel", "edit campaign"}, 2, 2, {w1, w2}, {{}}),
    Start({b1}, Open, Where(a1, a2, a1), {"draft", "draft ends", "send", "edit", "discovery"}, 2, 0, {w1}, {{}}),
    \* Pilots.
    Start({p1, p2}, Open, Apart3, {"automatic", "explicit", "cancel"}, 1, 3, {w1}, {{}}),
    Start({p1}, Open, Apart3, {"explicit", "send", "edit"}, 2, 0, {w1}, {{}, {a3}}),
    Start({p1}, Where("open", "open", "absent"), Apart3, {"explicit", "discovery", "edit"}, 2, 0,
          {w1}, {{}, {a1}}),
    Start({p1, b1}, Open, Where(a1, a2, a1), {"explicit", "draft"}, 0, 0, {w1, w2}, {{}}),
    Start({p1}, Open, Apart3, {"explicit", "automatic", "lease", "cancel", "edit campaign"}, 2, 0, {w1, w2}, {{}}) }
===============================================================================
