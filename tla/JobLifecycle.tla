---------------------------- MODULE JobLifecycle ----------------------------
(***************************************************************************)
(* What the cloud queue promises about a job, with no row, revision, lease *)
(* or counter in sight: a job is submitted once, claimed at most once and  *)
(* settled once; a cancellation asked for before it settles wins over the  *)
(* result; and the jobs that count against a daily slot never exceed the   *)
(* cap, a cancelled job giving its place back.                             *)
(***************************************************************************)
EXTENDS Integers, FiniteSets

CONSTANTS Jobs, SlotOf, DailyCap

VARIABLES
  state,      (* state[j]: where job j is in its life                       *)
  wanted,     (* the jobs somebody asked to cancel while they could be      *)
  charged     (* the jobs that hold a place in their daily slot             *)

lifecycleVars == << state, wanted, charged >>

LifecycleInit ==
  /\ state = [ j \in Jobs |-> "absent" ]
  /\ wanted = {}
  /\ charged = {}

Holders(s) == { j \in charged : SlotOf[j] = s }

Submit(j) ==
  /\ state[j] = "absent"
  /\ state' = [ state EXCEPT ![j] = "queued" ]
  /\ \/ charged' = charged
     \/ /\ Cardinality(Holders(SlotOf[j])) < DailyCap
        /\ charged' = charged \cup {j}
  /\ UNCHANGED wanted

Start(j) ==
  /\ state[j] = "queued"
  /\ state' = [ state EXCEPT ![j] = "running" ]
  /\ UNCHANGED << wanted, charged >>

(* Cancelling a queued job settles it; a running one is only marked.       *)
CancelQueued(j) ==
  /\ state[j] = "queued"
  /\ state' = [ state EXCEPT ![j] = "cancelled" ]
  /\ wanted' = wanted \cup {j}
  /\ charged' = charged \ {j}

CancelRunning(j) ==
  /\ state[j] = "running"
  /\ wanted' = wanted \cup {j}
  /\ UNCHANGED << state, charged >>

(* A job that could not be put on the queue fails without having run.      *)
Abandon(j) ==
  /\ state[j] = "queued"
  /\ state' = [ state EXCEPT ![j] = "failed" ]
  /\ UNCHANGED << wanted, charged >>

Finish(j) ==
  /\ state[j] = "running"
  /\ j \notin wanted
  /\ \E result \in {"done", "failed"} : state' = [ state EXCEPT ![j] = result ]
  /\ UNCHANGED << wanted, charged >>

FinishCancelled(j) ==
  /\ state[j] = "running"
  /\ j \in wanted
  /\ state' = [ state EXCEPT ![j] = "cancelled" ]
  /\ charged' = charged \ {j}
  /\ UNCHANGED wanted

LifecycleNext ==
  \E j \in Jobs :
    \/ Submit(j) \/ Start(j) \/ CancelQueued(j) \/ CancelRunning(j)
    \/ Abandon(j) \/ Finish(j) \/ FinishCancelled(j)

LifecycleSpec == LifecycleInit /\ [][LifecycleNext]_lifecycleVars
=============================================================================
