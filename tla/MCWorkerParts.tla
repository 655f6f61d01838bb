---------------------------- MODULE MCWorkerParts ----------------------------
(* CloudWorker from two initial states: the jobs are still to be submitted, *)
(* as a row and a message, or they are of the old queue and are drained,    *)
(* with one fault less.                                                     *)
EXTENDS CloudWorker

CONSTANTS alice

AllAlice == [ j \in Jobs |-> alice ]

Drain == INSTANCE CloudWorker WITH Legacy <- Jobs, faults <- 0

MCInit == Init \/ (Drain!Init /\ faults = 1)

MCSpec == MCInit /\ [][Next]_vars /\ Fairness
=============================================================================
