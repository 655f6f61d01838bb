---------------------------- MODULE MCLocalPool ----------------------------
(* Instances of LocalPool for TLC. *)
EXTENDS LocalPool, TLC

CONSTANTS alice, bob, j1, j2, j3

AllAlice == [ j \in Jobs |-> alice ]
BobHasOne == [ j \in Jobs |-> IF j = j3 THEN bob ELSE alice ]

PoolSymmetry == Permutations(Pools) \cup Permutations(Threads) \cup Permutations(Jobs)

ThreadSymmetry == Permutations(Threads) \cup Permutations(Jobs)
=============================================================================
