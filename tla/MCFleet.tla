------------------------------ MODULE MCFleet -------------------------------
(* Instances of CloudFleet and Migration for TLC.  The fleet and the       *)
(* one-off migration of its old queue share no state, so each is explored  *)
(* with the other at rest: part names the one that moves.                  *)
EXTENDS CloudFleet, Migration

VARIABLE part

MCInit ==
  /\ part \in { "fleet", "migration" } /\ Init /\ MigrationInit
  /\ part = "fleet" => \A j \in Jobs : rec[j] = "queued"

MCNext ==
  \/ part = "fleet" /\ Next /\ UNCHANGED << part, migrationVars >>
  \/ part = "migration" /\ MigrationNext /\ UNCHANGED << part, vars >>

(* Fairness and MigrationFairSpec, each for its part.                      *)
MCFairness ==
  /\ WF_vars(part = "fleet" /\ Tick)
  /\ \A i \in Invocations : WF_vars(part = "fleet" /\ Scheduled(i)) /\ WF_vars(part = "fleet" /\ Step(i))
  /\ \A m \in Machines : WF_vars(part = "fleet" /\ Machine(m)) /\ SF_vars(part = "fleet" /\ EnterService(m))
  /\ Uncontended
  /\ WF_migrationVars(part = "migration" /\ Start) /\ WF_migrationVars(part = "migration" /\ Script)
  /\ WF_migrationVars(part = "migration" /\ Reappears)
  /\ \A j \in Jobs : WF_migrationVars(part = "migration" /\ Worker(j))

MCSpec == MCInit /\ [][MCNext]_<< part, vars, migrationVars >> /\ MCFairness
=============================================================================
