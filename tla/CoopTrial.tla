------------------------------- MODULE CoopTrial ----------------------------
(***************************************************************************)
(* lib/cooperbench.py and lib/cooperbench_message.py: two workers run the  *)
(* harness side by side, message each other through Redis lists, and leave *)
(* patch, exit code and a done file; the coordinator waits for both.       *)
(***************************************************************************)
EXTENDS Naturals, Sequences, SequencesExt, FiniteSets

CONSTANTS
  Agents,       (* agent1 and agent2                                        *)
  Readers,      (* check_messages commands that an agent runs at once       *)
  MaxSent,      (* bound of the model: messages                             *)
  None

ASSUME CoopTrialAssumption ==
  IsFiniteSet(Agents) /\ IsFiniteSet(Readers) /\ MaxSent \in Nat /\ None \notin Nat

VARIABLES
  worker,       (* worker[a]: place in worker.sh, harness status, its rc    *)
  shared,       (* shared[a]: agent.patch, exit-code, agent.done            *)
  inbox,        (* inbox[a]: the Redis list                                 *)
  hand,         (* hand[a][r]: popped by a command, not yet printed         *)
  seen,         (* seen[a]: printed to agent a                              *)
  sent,         (* sent[a]: how many messages were sent to a                *)
  coordinator   (* coordinator.sh: place, agents read, rc                   *)

coopVars  == << worker, shared, inbox, hand, seen, sent, coordinator >>
redis == << inbox, hand, seen, sent >>

CoopInit ==
  /\ worker = [ a \in Agents |-> [ at |-> "boot", harness |-> 99, rc |-> 99 ] ]
  /\ shared = [ a \in Agents |-> [ patch |-> FALSE, code |-> 99, done |-> FALSE ] ]
  /\ inbox = [ a \in Agents |-> << >> ] /\ seen = inbox
  /\ hand = [ a \in Agents |-> [ r \in Readers |-> None ] ] /\ sent = [ a \in Agents |-> 0 ]
  /\ coordinator = [ at |-> "wait", read |-> {}, rc |-> 0 ]

At(a, place)   == worker[a].at = place
Set(a, r)      == worker' = [ worker EXCEPT ![a] = r ]

-----------------------------------------------------------------------------
(* worker.sh.  Before the trap is set an error ends it without a trace.    *)
Boot(a) ==
  /\ At(a, "boot") /\ \E to \in { "run", "dead" } : Set(a, [ worker[a] EXCEPT !.at = to ])
  /\ UNCHANGED << shared, redis, coordinator >>

(* The harness ends, or timeout ends it with 124.                          *)
HarnessEnds(a) ==
  /\ At(a, "run")
  /\ \E rc \in { 0, 1, 124 } : Set(a, [ at |-> "patch", harness |-> rc, rc |-> rc ])
  /\ UNCHANGED << shared, redis, coordinator >>

Patched_KeepsRc(a, whole) == worker[a].rc
Patched(a, whole)         == IF whole THEN worker[a].rc ELSE 1

Patch(a) ==
  /\ At(a, "patch")
  /\ \E whole \in BOOLEAN :
       /\ shared' = [ shared EXCEPT ![a].patch = whole ]
       /\ Set(a, [ worker[a] EXCEPT !.at = "code", !.rc = Patched(a, whole) ])
  /\ UNCHANGED << redis, coordinator >>

Code(a) ==
  /\ At(a, "code") /\ shared' = [ shared EXCEPT ![a].code = worker[a].rc ]
  /\ Set(a, [ worker[a] EXCEPT !.at = "done" ])
  /\ UNCHANGED << redis, coordinator >>

DoneAfter_Patch == "code"
DoneAfter       == "done"

Done(a) ==
  /\ At(a, DoneAfter) /\ shared' = [ shared EXCEPT ![a].done = TRUE ]
  /\ Set(a, [ worker[a] EXCEPT !.at = IF @ = "done" THEN "sleep" ELSE "late" ])
  /\ UNCHANGED << redis, coordinator >>

(* The container is killed; what a command had popped goes with it.        *)
Dies(a) ==
  /\ worker[a].at \in { "run", "patch", "code", "done" } /\ Set(a, [ worker[a] EXCEPT !.at = "dead" ])
  /\ UNCHANGED << shared, redis, coordinator >>

-----------------------------------------------------------------------------
(* send_message: RPUSH to the other agent's inbox.  check_messages: LPOP   *)
(* until the list is empty, printing each.                                 *)

Pushed_Front(a, m) == << m >> \o inbox[a]
Pushed(a, m)       == Append(inbox[a], m)

SentInAll == FoldFunction(+, 0, sent)

Send(a, b) ==
  /\ At(a, "run") /\ a # b /\ SentInAll < MaxSent
  /\ sent' = [ sent EXCEPT ![b] = @ + 1 ] /\ inbox' = [ inbox EXCEPT ![b] = Pushed(b, sent[b] + 1) ]
  /\ UNCHANGED << worker, shared, hand, seen, coordinator >>

Popped(a) == Tail(inbox[a])

Pop(a, r) ==
  /\ At(a, "run") /\ hand[a][r] = None /\ inbox[a] # << >>
  /\ hand' = [ hand EXCEPT ![a][r] = Head(inbox[a]) ] /\ inbox' = [ inbox EXCEPT ![a] = Popped(a) ]
  /\ UNCHANGED << worker, shared, seen, sent, coordinator >>

Show(a, r) ==
  /\ At(a, "run") /\ hand[a][r] # None
  /\ seen' = [ seen EXCEPT ![a] = Append(@, hand[a][r]) ] /\ hand' = [ hand EXCEPT ![a][r] = None ]
  /\ UNCHANGED << worker, shared, inbox, sent, coordinator >>

-----------------------------------------------------------------------------
(* coordinator.sh, until Harbor's agent timeout ends it.                   *)

AllDone == \A a \in Agents : shared[a].done

Wait ==
  /\ coordinator.at = "wait" /\ AllDone
  /\ coordinator' = [ coordinator EXCEPT !.at = "read" ]
  /\ UNCHANGED << worker, shared, redis >>

Read(a) ==
  /\ coordinator.at = "read" /\ a \notin coordinator.read
  /\ coordinator' = [ coordinator EXCEPT !.read = @ \union {a}, !.rc = IF shared[a].code = 0 THEN @ ELSE shared[a].code ]
  /\ UNCHANGED << worker, shared, redis >>

CoordinatorExits ==
  /\ coordinator.at = "read" /\ coordinator.read = Agents
  /\ coordinator' = [ coordinator EXCEPT !.at = "exit" ]
  /\ UNCHANGED << worker, shared, redis >>

Expired_WhileRunning == coordinator.at = "wait" /\ \E a \in Agents : At(a, "run")
Expired              == coordinator.at = "wait"

Timeout ==
  /\ Expired /\ coordinator' = [ coordinator EXCEPT !.at = "exit", !.rc = 124 ]
  /\ UNCHANGED << worker, shared, redis >>

Coordinator == Wait \/ (\E a \in Agents : Read(a)) \/ CoordinatorExits \/ Timeout

Worker(a) == Boot(a) \/ HarnessEnds(a) \/ Patch(a) \/ Code(a) \/ Done(a)

CoopNext ==
  \/ Coordinator
  \/ \E a \in Agents : Worker(a) \/ Dies(a)
  \/ \E a, b \in Agents : Send(a, b)
  \/ \E a \in Agents, r \in Readers : Pop(a, r) \/ Show(a, r)

CoopSpec     == CoopInit /\ [][CoopNext]_coopVars
CoopFairSpec == CoopSpec /\ WF_coopVars(Coordinator) /\ \A a \in Agents : WF_coopVars(Worker(a))

-----------------------------------------------------------------------------

Held(a) == { hand[a][r] : r \in Readers } \ { None }

(* A done file means that the exit code is written, and is the harness's   *)
(* unless the patch is not whole.                                          *)
CoopTypeOK ==
  \A a \in Agents : shared[a].done =>
    /\ shared[a].code # 99
    /\ shared[a].code = IF shared[a].patch THEN worker[a].harness ELSE 1

(* Exit 0 of the coordinator, which Harbor takes for the agent's, is two   *)
(* harnesses that ended with 0 and two whole patches.                      *)
ZeroIsBoth ==
  coordinator.at = "exit" /\ coordinator.rc = 0 =>
    \A a \in Agents : worker[a].harness = 0 /\ shared[a].patch

(* A message is in the inbox, with a command or printed, and in one of     *)
(* them; the inbox keeps the order of sending, whatever runs at once.      *)
MessagesOnce ==
  \A a \in Agents :
    /\ Len(seen[a]) + Cardinality(Held(a)) + Len(inbox[a]) = sent[a]
    /\ ToSet(seen[a]) \union Held(a) \union ToSet(inbox[a]) = 1 .. sent[a]
    /\ \A i \in DOMAIN inbox[a] : inbox[a][i] = sent[a] - Len(inbox[a]) + i

(* The coordinator ends, even if a worker died without its done file.      *)
CoordinatorEnds == (\E a \in Agents : ~At(a, "boot")) ~> coordinator.at = "exit"

(* A cooperative trial in every state.                                     *)
CoopSafety == CoopTypeOK /\ ZeroIsBoth /\ MessagesOnce

=============================================================================
