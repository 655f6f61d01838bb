------------------------------ MODULE HarborTrial ---------------------------
(***************************************************************************)
(* lib/harbor_backend.py run, called by run_harbor: one trial of a Compose *)
(* task.  Harbor itself is external: it starts the stack, runs the agent   *)
(* and the verifier, and reports a result.  The process may be cancelled   *)
(* (SIGTERM) or killed; cancellation is seen where the code awaits.        *)
(***************************************************************************)
EXTENDS Naturals, FiniteSets

CONSTANTS
  Proxied,      (* --proxy-container is given                               *)
  Evaluation    (* HR_LOCAL_EVAL_ID is set, so a worker reaps by its label  *)

ASSUME HarborTrialAssumption == {Proxied, Evaluation} \subseteq BOOLEAN

VARIABLES
  at,           (* where the coroutine is                                   *)
  cancel,       (* a SIGTERM whose cancellation was not delivered yet       *)
  left,         (* what exists in Docker: gateway, proxy's endpoint, stack  *)
  main,         (* networks of the main container                           *)
  phase,        (* the proxy's phase                                        *)
  error,        (* what is being raised, or the trial's own error           *)
  agentrc,      (* agent-exit.json: the harness's exit, 99 if it wrote none *)
  record,       (* harbor-result.json                                       *)
  code,         (* exit code, 99 while running                              *)
  told          (* what run_harbor puts into run.json: RC and INFRA_FAIL    *)

vars == << at, cancel, left, main, phase, error, agentrc, record, code, told >>

NoFile == [ rc |-> 99, error |-> "none" ]
Stack  == { "containers", "networks", "volumes" }
Docker == Stack \union { "gateway", "endpoint" }

(* Errors that Harbor reports of a trial that was graded all the same.     *)
OfAgent == { "none", "AgentTimeoutError", "NonZeroAgentExitCodeError" }

Init ==
  /\ at = "start" /\ cancel = FALSE /\ left = {} /\ main = {} /\ phase = "agent"
  /\ error = "none" /\ agentrc = 99 /\ record = NoFile /\ code = 99 /\ told = << >>

Goes(from, to) == at = from /\ at' = to
Raises(e, to)  == error' = e /\ at' = to
Awaits_InAgent == { "agent", "verify", "down" }
Awaits         == { "prepare", "agent", "verify", "down" }

-----------------------------------------------------------------------------
(* run_trial: the gateway network, the proxy on it, then the trial.        *)

Gateway ==
  /\ at = "start"
  /\ \/ left' = left \union { "gateway" } /\ at' = "connect" /\ UNCHANGED error
     \/ Raises("RuntimeError", "exit") /\ UNCHANGED left
  /\ UNCHANGED << agentrc, cancel, main, phase, record, code, told >>

Connect ==
  /\ at = "connect"
  /\ \/ at' = "prepare" /\ left' = (IF Proxied THEN left \union { "endpoint" } ELSE left) /\ UNCHANGED error
     \/ Proxied /\ Raises("RuntimeError", "endpoint") /\ UNCHANGED left
  /\ UNCHANGED << agentrc, cancel, main, phase, record, code, told >>

(* execute_trial up to trial.run(): resolve, rewrite, stage, build.        *)
Prepare ==
  /\ at = "prepare" /\ ~cancel
  /\ \/ at' = "agent" /\ UNCHANGED error
     \/ Raises("ValueError", "endpoint")
  /\ UNCHANGED << agentrc, cancel, left, main, phase, record, code, told >>

(* Harbor starts the stack, all of it or a part, and runs the agent.       *)
Agent ==
  /\ at = "agent" /\ ~cancel
  /\ \/ \E e \in OfAgent :
          left' = left \union Stack /\ main' = { "gateway" } /\ error' = e /\ at' = "hook"
          /\ agentrc' = (IF e = "none" THEN 0 ELSE IF e = "AgentTimeoutError" THEN 99 ELSE 1)
     \/ \E part \in SUBSET Stack :
          left' = left \union part /\ Raises("EnvironmentStartError", "down") /\ UNCHANGED << main, agentrc >>
  /\ UNCHANGED << cancel, phase, record, code, told >>

(* verify(): the proxy's phase first, then main onto the open network.     *)
Order_NetworkFirst == at = "hook"
Order              == at = "hook" /\ (Proxied => phase = "verify")

Phase ==
  /\ at = "hook" /\ Proxied /\ phase = "agent"
  /\ \/ phase' = "verify" /\ UNCHANGED << at, error >>
     \/ Raises("RuntimeError", "down") /\ UNCHANGED phase
  /\ UNCHANGED << agentrc, cancel, left, main, record, code, told >>

Open ==
  /\ Order /\ at' = "verify" /\ main' = main \union { "verify" }
  /\ UNCHANGED << agentrc, cancel, left, phase, error, record, code, told >>

(* The verifier's end; Harbor then deletes what it can of the stack.       *)
Verified ==
  /\ at = "verify" /\ ~cancel /\ at' = "down"
  /\ error' \in { error, "VerifierTimeoutError" }
  /\ \E part \in SUBSET Stack : left' = left \ part
  /\ main' = {}
  /\ UNCHANGED << agentrc, cancel, phase, record, code, told >>

(* Cancelled at an await: before trial.run() straight to run_trial's       *)
(* finally, inside it through compose down, inside that to the finally.    *)
Cancelled ==
  /\ cancel /\ at \in Awaits
  /\ Raises("CancelledError", IF at \in { "agent", "verify" } THEN "down" ELSE "endpoint")
  /\ cancel' = FALSE
  /\ UNCHANGED << agentrc, left, main, phase, record, code, told >>

(* compose down, in the finally around trial.run().  Only a trial that     *)
(* returned a result is recorded.                                          *)
Returned_Always == TRUE
Returned == error \in OfAgent \union { "EnvironmentStartError", "VerifierTimeoutError" }

Down ==
  /\ at = "down" /\ ~cancel
  /\ \/ left' = left \ Stack /\ at' = (IF Returned THEN "record" ELSE "endpoint") /\ UNCHANGED error
     \/ Raises("TimeoutError", "endpoint") /\ UNCHANGED left
  /\ UNCHANGED << agentrc, cancel, main, phase, record, code, told >>

Rc_OfError == IF error = "none" THEN 0 ELSE 1
Rc == IF error = "AgentTimeoutError" THEN 124 ELSE IF agentrc # 99 THEN agentrc ELSE 1

Record ==
  /\ Goes("record", "endpoint")
  /\ record' = [ rc |-> Rc, error |-> error ]
  /\ UNCHANGED << agentrc, cancel, left, main, phase, error, code, told >>

-----------------------------------------------------------------------------
(* run_trial's finally, which awaits nothing: the proxy's endpoint, then   *)
(* all that has the trial's label, containers before networks.             *)

Labelled_Stack == Stack
Labelled       == Stack \union { "gateway" }

Endpoint ==
  /\ Goes("endpoint", "labels") /\ left' = left \ { "endpoint" }
  /\ UNCHANGED << agentrc, cancel, main, phase, error, record, code, told >>

Labels ==
  /\ Goes("labels", "exit") /\ left' = left \ Labelled
  /\ UNCHANGED << agentrc, cancel, main, phase, error, record, code, told >>

(* The process's exit, and harbor-result.json for an error outside a trial.*)
Written_Never == record
Written == IF error \notin OfAgent \union { "CancelledError" } /\ record = NoFile
           THEN [ rc |-> 1, error |-> error ] ELSE record

Exit ==
  /\ Goes("exit", "over")
  /\ code' = (IF error = "CancelledError" THEN 143 ELSE IF error \in OfAgent THEN 0 ELSE 1)
  /\ record' = Written
  /\ UNCHANGED << agentrc, cancel, left, main, phase, error, told >>

Cancel ==
  /\ at # "over" /\ ~cancel /\ error # "CancelledError" /\ code = 99
  /\ cancel' = TRUE
  /\ UNCHANGED << agentrc, at, left, main, phase, error, record, code, told >>

Kill ==
  /\ code = 99 /\ at' = "over" /\ code' = 137
  /\ UNCHANGED << agentrc, cancel, left, main, phase, error, record, told >>

(* A worker's cleanup by the evaluation's label, the proxy included.       *)
Reap ==
  /\ Evaluation /\ at = "over" /\ left # {} /\ left' = {}
  /\ UNCHANGED << agentrc, at, cancel, main, phase, error, record, code, told >>

-----------------------------------------------------------------------------
(* run_harbor: what the run is said to have done.                          *)

Told ==
  /\ at = "over" /\ told = << >>
  /\ told' = [ rc |-> IF record = NoFile THEN 1 ELSE record.rc, infra |-> code # 0 ]
  /\ UNCHANGED << agentrc, at, cancel, left, main, phase, error, record, code >>

Step == Gateway \/ Connect \/ Prepare \/ Agent \/ Phase \/ Open \/ Verified \/ Cancelled \/ Down
        \/ Record \/ Endpoint \/ Labels \/ Exit \/ Told

Next == Step \/ Cancel \/ Kill \/ Reap

Spec     == Init /\ [][Next]_vars
FairSpec == Spec /\ WF_vars(Step) /\ WF_vars(Reap)

-----------------------------------------------------------------------------

(* And a cancelled trial has no result file.                               *)
TypeOK ==
  /\ left \subseteq Docker /\ main \subseteq { "gateway", "verify" }
  /\ code \in { 0, 1, 99, 137, 143 } /\ (code # 99 <=> at = "over")
  /\ record.error # "CancelledError" /\ (code = 143 => error = "CancelledError")

(* "Normal exit/cancel gets Harbor teardown first and this fallback for a  *)
(* partially created trial": whatever failed, and wherever the signal      *)
(* came, a process that exits leaves nothing in Docker.                    *)
NothingLeft == code \in { 0, 1, 143 } => left = {}

(* run.json calls a trial good only if it was graded: no infrastructure    *)
(* failure means a recorded result, of an agent that ran, and its rc.      *)
ToldTheTruth ==
  told # << >> /\ ~told.infra =>
    /\ record # NoFile /\ record.error \in OfAgent
    /\ told.rc = (IF record.error = "none" THEN 0 ELSE IF record.error = "AgentTimeoutError" THEN 124 ELSE 1)

(* An exit that is neither a cancellation nor a kill has a result file.    *)
AlwaysAResult == code \in { 0, 1 } => record # NoFile

(* While main is on the open network the proxy files calls under verify.   *)
OpenIsVerify == Proxied /\ "verify" \in main => phase = "verify"

(* A trial ends, and with a worker to reap it nothing stays, killed or not.*)
TrialEnds == at # "start" ~> [](told # << >> /\ (Evaluation => left = {}))

(* A trial in every state: what is left, what is told, what was open.      *)
TrialSafety == TypeOK /\ NothingLeft /\ ToldTheTruth /\ AlwaysAResult /\ OpenIsVerify

=============================================================================
