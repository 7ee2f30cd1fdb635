----------------------------- MODULE MCMailSync -----------------------------
(***************************************************************************)
(* A small mailbox for MailSync: two labels; the first three messages of   *)
(* label inbox belong to one thread, the third from another domain.        *)
(***************************************************************************)
EXTENDS MailSync

CONSTANTS inbox, other, a1, a2, t1, t2, d1, d2

MCLabels == {inbox, other}
Scene(d, i, o, r, re, lo, rv) ==
    [desk |-> d, mail |-> [l \in MCLabels |-> IF l = inbox THEN i ELSE o],
     runs |-> r, relabels |-> re, losses |-> lo, reviews |-> rv]

(* A thread under review while syncs overlap; paging with mail that comes  *)
(* and goes and a label that changes; the same for creators, with bodies.  *)
MCScenes == {
    Scene("career", 3, 0, 2, 0, 0, 3), Scene("career", 3, 0, 3, 0, 1, 0),
    Scene("career", 2, 1, 3, 1, 0, 0),
    Scene("creator", 2, 0, 3, 0, 0, 2), Scene("creator", 2, 0, 2, 0, 1, 1),
    Scene("creator", 2, 1, 2, 1, 0, 0)}
MCThread == [m \in Messages |-> IF m[1] = inbox THEN t1 ELSE t2]
MCDomain == [m \in Messages |-> IF m = <<inbox, 3>> THEN d2 ELSE d1]
MCEvidence == [m \in Messages |-> IF m = <<inbox, 2>> THEN {a1, a2} ELSE {a1}]
MCDated == [m \in Messages |-> {a1, a2}]
MCForeign == {<<other, 1>>}
=============================================================================
