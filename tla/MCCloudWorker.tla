--------------------------- MODULE MCCloudWorker ---------------------------
(* Instances of CloudWorker for TLC. *)
EXTENDS CloudWorker, TLC

CONSTANTS alice

AllAlice == [ j \in Jobs |-> alice ]

WorkerSymmetry == Permutations(Workers) \cup Permutations(Jobs)
=============================================================================
