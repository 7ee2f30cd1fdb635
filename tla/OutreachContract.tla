-------------------------- MODULE OutreachContract --------------------------
(***************************************************************************)
(* What the outreach promises a creator, whatever campaigns, runs and      *)
(* operators do: one introduction, one handover to the owner and that only *)
(* after reviewed interest, and nothing any more after an opt-out.         *)
(***************************************************************************)
EXTENDS Naturals

CONSTANT Creators

VARIABLES
  introductions, handovers,  \* how many a creator was sent
  interested,                \* the creators whose last answer is interest
  silenced                   \* the creators that must not be written to

contractVars == <<introductions, handovers, interested, silenced>>

ContractInit ==
  /\ introductions = [x \in Creators |-> 0] /\ handovers = [x \in Creators |-> 0]
  /\ interested = {} /\ silenced = {}

Introduce(x) ==
  /\ x \notin silenced /\ introductions[x] = 0 /\ handovers[x] = 0
  /\ introductions' = [introductions EXCEPT ![x] = 1]
  /\ UNCHANGED <<handovers, interested, silenced>>

\* What a creator answers is recorded; it may be recorded otherwise later.
Review(x) ==
  /\ introductions[x] > 0
  /\ interested' \in {interested \cup {x}, interested \ {x}}
  /\ UNCHANGED <<introductions, handovers, silenced>>

HandOver(x) ==
  /\ x \in interested \ silenced /\ handovers[x] = 0
  /\ handovers' = [handovers EXCEPT ![x] = 1]
  /\ UNCHANGED <<introductions, interested, silenced>>

Conclude(x) ==
  /\ interested' = interested \ {x}
  /\ UNCHANGED <<introductions, handovers, silenced>>

\* Creators who ask for it, or whose address bounces, hear nothing any more;
\* their interest goes with it.
Silence ==
  /\ silenced \subseteq silenced'
  /\ interested' \subseteq interested /\ interested \ interested' \subseteq silenced'
  /\ UNCHANGED <<introductions, handovers>>

ContractNext ==
  \/ Silence
  \/ \E x \in Creators : Introduce(x) \/ Review(x) \/ HandOver(x) \/ Conclude(x)

Contract == ContractInit /\ [][ContractNext]_contractVars
=============================================================================
