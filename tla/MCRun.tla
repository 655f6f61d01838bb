-------------------------------- MODULE MCRun ------------------------------
(* Instances of RunPipeline, RecipeAgent, Egress, ModelCalls and           *)
(* Translation for TLC.  run.sh waits for the recipe agent and for the     *)
(* harness behind the proxy, and their ends are choices of RunPipeline;    *)
(* the egress side of the proxy, its recording of model calls and its      *)
(* translation of a request share no state.  So each is explored with the  *)
(* others at rest: part names the one that moves.                          *)
EXTENDS RunPipeline, RecipeAgent, Egress, ModelCalls, Translation

MCTasks    == << "t1", "t2" >>
MCSameHost == [ c \in Conns |-> "site" ]
MCTwoHosts == [ c \in Conns |-> IF c = 1 THEN "site" ELSE "cdn" ]
MCSetups   == { [ mode |-> "inspect", host |-> MCSameHost ] }
                \cup [ mode : { "record", "none", "allow" }, host : { MCTwoHosts } ]

VARIABLE part

MCInit ==
  /\ part \in { "run", "agent", "egress", "calls", "translation" }
  /\ Init /\ AgentInit /\ EgressInit /\ CallsInit /\ TranslationInit
  /\ part # "egress" => setup.mode = "inspect"

MCNext ==
  \/ part = "run" /\ Next
     /\ UNCHANGED << part, agentVars, egressVars, callsVars, translationVars >>
  \/ part = "agent" /\ AgentNext
     /\ UNCHANGED << part, vars, egressVars, callsVars, translationVars >>
  \/ part = "egress" /\ EgressNext
     /\ UNCHANGED << part, vars, agentVars, callsVars, translationVars >>
  \/ part = "calls" /\ CallsNext
     /\ UNCHANGED << part, vars, agentVars, egressVars, translationVars >>
  \/ part = "translation" /\ TranslationNext
     /\ UNCHANGED << part, vars, agentVars, egressVars, callsVars >>

(* The fairness of each module's FairSpec, for its part.                   *)
MCFairness ==
  /\ WF_vars(part = "run" /\ Stage)
  /\ \A x \in Sessions : WF_agentVars(part = "agent" /\ Step(x))
  /\ \A c \in Conns : WF_egressVars(part = "egress" /\ Handler(c))
  /\ \A c \in Calls : /\ WF_callsVars(part = "calls" /\ (Throttled(c) \/ Replied(c)))
                      /\ WF_callsVars(part = "calls" /\ (Recorded(c) \/ Send(c) \/ HangsUp(c)))
                      /\ SF_callsVars(part = "calls" /\ Record(c))
  /\ \A r \in Readers : /\ WF_callsVars(part = "calls" /\ Read(r))
                        /\ WF_callsVars(part = "calls" /\ Count(r))

MCSpec ==
  /\ MCInit /\ [][MCNext]_<< part, vars, agentVars, egressVars, callsVars, translationVars >>
  /\ MCFairness

(* Whatever models, hosts and users do, an invocation, a session, a model  *)
(* call and a connection come to their end.                                *)
EverythingEnds == InvocationsEnd /\ SessionsEnd /\ EveryCallEnds /\ ReachedIsLogged
============================================================================
