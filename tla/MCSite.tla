------------------------------- MODULE MCSite -------------------------------
(* Instances of LocalEvals, Sessions and ReportFold for TLC.  What the     *)
(* site keeps of its evaluations, of its sign-ins and of its reports is    *)
(* kept apart, so each is explored with the others at rest: part names the *)
(* one that moves.                                                         *)
EXTENDS LocalEvals, Sessions, ReportFold

VARIABLE part

MCInit ==
  /\ part \in { "evals", "sessions", "reports" } /\ Init /\ SessionsInit /\ FoldInit
  /\ part # "sessions" => file
  /\ part # "reports" => lag

MCNext ==
  \/ part = "evals" /\ Next /\ UNCHANGED << part, sessionsVars, foldVars >>
  \/ part = "sessions" /\ SessionsNext /\ UNCHANGED << part, vars, foldVars >>
  \/ part = "reports" /\ FoldNext /\ UNCHANGED << part, vars, sessionsVars >>

(* The fairness of FairSpec and FoldFairSpec, each for its part.           *)
MCFairness ==
  /\ WF_vars(part = "evals" /\ Restart)
  /\ \A e \in Evals :
       /\ WF_vars(part = "evals" /\ Save(e)) /\ WF_vars(part = "evals" /\ Settle(e))
       /\ WF_vars(part = "evals" /\ rec[e].cancelled /\ Cancel(e))
       /\ WF_vars(part = "evals" /\ e \in signalled /\ Exits(e))
  /\ WF_foldVars(part = "reports" /\ Sync)
  /\ \A r \in Runs :
       /\ WF_foldVars(part = "reports" /\ Publish(r))
       /\ WF_foldVars(part = "reports" /\ Propagate(r))

MCSpec == MCInit /\ [][MCNext]_<< part, vars, sessionsVars, foldVars >> /\ MCFairness
=============================================================================
