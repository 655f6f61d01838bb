------------------------------ MODULE MCTrials -----------------------------
(* Instances of HarborTrial, CoopTrial and Corpus for TLC.  A trial, the   *)
(* two agents of a cooperative one and the batch that validates a task set *)
(* share no state, so each is explored with the others at rest: part names *)
(* the one that moves.                                                     *)
EXTENDS HarborTrial, CoopTrial, Corpus, TLC

CONSTANTS t1, t2

(* Two tasks of which the second needs more than there is.                 *)
MCNeed == t1 :> 2 @@ t2 :> 9

VARIABLE part

MCInit == part \in { "harbor", "coop", "corpus" } /\ Init /\ CoopInit /\ CorpusInit

MCNext ==
  \/ part = "harbor" /\ Next /\ UNCHANGED << part, coopVars, corpusVars >>
  \/ part = "coop" /\ CoopNext /\ UNCHANGED << part, vars, corpusVars >>
  \/ part = "corpus" /\ CorpusNext /\ UNCHANGED << part, vars, coopVars >>

(* The fairness of the three, each for its part.                           *)
MCFairness ==
  /\ WF_vars(part = "harbor" /\ Step) /\ WF_vars(part = "harbor" /\ Reap)
  /\ WF_coopVars(part = "coop" /\ Coordinator)
  /\ \A a \in Agents : WF_coopVars(part = "coop" /\ Worker(a))
  /\ WF_corpusVars(part = "corpus" /\ Controller)
  /\ \A t \in Tasks : WF_corpusVars(part = "corpus" /\ Thread(t))

MCSpec == MCInit /\ [][MCNext]_<< part, vars, coopVars, corpusVars >> /\ MCFairness

(* A trial, a coordinator and a batch end, whoever dies or hangs.          *)
EverythingEnds == TrialEnds /\ CoordinatorEnds /\ RunsEnd
============================================================================
