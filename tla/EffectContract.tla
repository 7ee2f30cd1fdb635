--------------------------- MODULE EffectContract ---------------------------
(***************************************************************************)
(* What the service promises about actions outside of it (an application   *)
(* form, an email): nothing begins without a person's current authority,   *)
(* nothing reaches a target twice, and a reported outcome is not wrong as  *)
(* far as the target lets it be known.                                     *)
(* ExternalActions implements it.                                          *)
(***************************************************************************)
EXTENDS Naturals

CONSTANTS Actions, Targets

VARIABLES
  target,      \* target[a]: what action a is about to reach
  acknowledged,  \* the target of action a answers, so that done can be known
  authority,   \* the action may begin now
  begun,       \* it was begun: from here on the target may have been reached
  reached,     \* how often a target was reached
  outcome      \* what is reported of an action

contractVars == <<target, acknowledged, authority, begun, reached, outcome>>

Outcomes == {"open", "done", "not_done", "uncertain"}

ContractInit ==
  /\ target \in [Actions -> Targets]
  /\ acknowledged \in [Actions -> BOOLEAN]
  /\ authority = [a \in Actions |-> FALSE]
  /\ begun = [a \in Actions |-> FALSE]
  /\ reached = [g \in Targets |-> 0]
  /\ outcome = [a \in Actions |-> "open"]

\* People approve; people, deadlines and changed facts take authority away.
ChangeAuthority(a, may) ==
  /\ authority' = [authority EXCEPT ![a] = may]
  /\ UNCHANGED <<begun, reached, outcome>>

Abandon(a) ==
  /\ ~begun[a] /\ outcome[a] = "open"
  /\ authority' = [authority EXCEPT ![a] = FALSE]
  /\ outcome' = [outcome EXCEPT ![a] = "not_done"]
  /\ UNCHANGED <<begun, reached>>

Begin(a) ==
  /\ authority[a] /\ outcome[a] = "open"
  /\ \A b \in Actions : begun[b] => target[b] # target[a]
  /\ begun' = [begun EXCEPT ![a] = TRUE]
  /\ UNCHANGED <<authority, reached, outcome>>

Reach(a) ==
  /\ begun[a] /\ outcome[a] = "open"
  /\ reached[target[a]] = 0
  /\ reached' = [reached EXCEPT ![target[a]] = 1]
  /\ UNCHANGED <<authority, begun, outcome>>

\* Done is said of what was begun and, where the target answers, reached;
\* not_done of what never began.
Report(a, o) ==
  /\ outcome[a] = "open"
  /\ o = "done" => begun[a] /\ (acknowledged[a] => reached[target[a]] = 1)
  /\ o = "not_done" => ~begun[a]
  /\ o = "uncertain" => begun[a]
  /\ outcome' = [outcome EXCEPT ![a] = o]
  /\ UNCHANGED <<authority, begun, reached>>

ContractNext ==
  /\ UNCHANGED <<target, acknowledged>>
  /\ \E a \in Actions :
       \/ \E may \in BOOLEAN : ChangeAuthority(a, may)
       \/ Abandon(a) \/ Begin(a) \/ Reach(a)
       \/ \E o \in Outcomes : Report(a, o)

Contract == ContractInit /\ [][ContractNext]_contractVars
=============================================================================
