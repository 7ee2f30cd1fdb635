---------------------------- MODULE MCEmailPacing ----------------------------
(* Instances of EmailPacing for TLC.                                        *)
EXTENDS EmailPacing, TLC

CONSTANTS e1, e2, e3

ThreeEmails == {e1, e2, e3}

\* Two recipients share a domain; the identities give both values of jitter.
Domains == [e \in Emails |-> IF e = e3 THEN "other" ELSE "shared"]
Hashes == [e \in Emails |-> IF e = e1 THEN 1 ELSE 0]
Expiries == [e \in Emails |-> MaxTime]

\* Windows of three and five units.  Wide settings leave room for all three
\* within a day; under tight ones the third has to wait for the next.
Wide == [gap |-> 1, domainGap |-> 2, hourly |-> 2, daily |-> 3, jitter |-> 1]
Tight == [gap |-> 2, domainGap |-> 2, hourly |-> 1, daily |-> 2, jitter |-> 0]
TwoPolicies == {Wide, Tight}
==============================================================================
