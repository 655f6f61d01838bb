---------------------------- MODULE MCCloudJobs ----------------------------
(* Instances of CloudJobs for TLC. *)
EXTENDS CloudJobs, TLC

CONSTANTS s1

OneSlot == [ j \in Jobs |-> s1 ]

JobSymmetry == Permutations(Clients) \cup Permutations(Tokens)
               \cup Permutations(Jobs \ Legacy)
=============================================================================
