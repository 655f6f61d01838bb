----------------------------- MODULE TrialProofs -----------------------------
(***************************************************************************)
(* Proofs about HarborTrial, CoopTrial and Corpus: for a trial with or     *)
(* without a proxy, worked by a pool or not, and for every failure,        *)
(* cancellation and kill; for any number of cooperating agents and of      *)
(* commands that read messages at once; for any inventory of tasks, any    *)
(* memory and any pool of threads.                                         *)
(***************************************************************************)
EXTENDS HarborTrial, CoopTrial, Corpus, FiniteSetTheorems, TLAPS

Places == { "start", "connect", "prepare", "agent", "hook", "verify", "down", "record",
            "endpoint", "labels", "exit", "over" }
Errors == OfAgent \union { "RuntimeError", "ValueError", "EnvironmentStartError",
            "VerifierTimeoutError", "CancelledError", "TimeoutError" }

(* The result that a graded trial's error stands for.                      *)
GoodRc(e) == IF e = "none" THEN 0 ELSE IF e = "AgentTimeoutError" THEN 124 ELSE 1

TypeInv ==
  /\ at \in Places /\ cancel \in BOOLEAN /\ left \subseteq Docker
  /\ main \subseteq { "gateway", "verify" } /\ phase \in { "agent", "verify" }
  /\ error \in Errors /\ agentrc \in { 0, 1, 99 }
  /\ record \in [ rc : { 0, 1, 99, 124 }, error : Errors ]
  /\ code \in { 0, 1, 99, 137, 143 } /\ (code # 99 <=> at = "over")

(* What is left in Docker, by where the coroutine is.                      *)
LeftInv ==
  /\ at = "labels" => "endpoint" \notin left
  /\ at \in { "start", "exit" } => left = {}
  /\ NothingLeft

(* What is recorded, by where the coroutine is.  The harness's exit code   *)
(* agrees with the error from the end of the agent on.                     *)
RecordInv ==
  /\ at \notin { "endpoint", "labels", "exit", "over" } => record = NoFile
  /\ record.error # "CancelledError"
  /\ at \in { "hook", "verify", "down", "record" } =>
        (error = "none" => agentrc = 0) /\ (error = "NonZeroAgentExitCodeError" => agentrc = 1)
  /\ at = "record" => Returned
  /\ at \in { "endpoint", "labels", "exit" } /\ error \in OfAgent =>
        record = [ rc |-> GoodRc(error), error |-> error ]
  /\ code = 143 => error = "CancelledError"
  /\ code = 0 => error \in OfAgent /\ record = [ rc |-> GoodRc(error), error |-> error ]
  /\ AlwaysAResult

(* run.json is written when the process is gone, from what it left.        *)
ToldInv ==
  /\ told # << >> => at = "over"
  /\ ToldTheTruth

IInv == TypeInv /\ LeftInv /\ RecordInv /\ ToldInv /\ OpenIsVerify

-----------------------------------------------------------------------------
LEMMA DockerParts ==
  /\ Stack \subseteq Docker /\ "gateway" \in Docker /\ "endpoint" \in Docker
  /\ Docker \ Labelled = { "endpoint" }
  /\ \A x : x \in Docker => x \in Labelled \/ x = "endpoint"
BY DEF Docker, Labelled, Stack

LEMMA NextTypeInv ==
  ASSUME IInv, [Next]_vars
  PROVE  TypeInv'
<1> USE DEF IInv, TypeInv, Places, Errors, OfAgent, NoFile
<1>1. CASE Gateway
  BY <1>1, DockerParts DEF Gateway, Raises
<1>2. CASE Connect
  BY <1>2, DockerParts DEF Connect, Raises
<1>3. CASE Prepare
  BY <1>3, DockerParts DEF Prepare, Raises
<1>4. CASE Agent
  <2>1. /\ UNCHANGED << cancel, phase, record, code >>
        /\ at = "agent" /\ at' \in { "hook", "down" }
        /\ main' \in { main, { "gateway" } }
        /\ error' \in Errors /\ agentrc' \in { 0, 1, 99 }
    BY <1>4 DEF Agent, Raises
  <2>2. \E part \in SUBSET Stack : left' = left \union part
    BY <1>4 DEF Agent
  <2>3. left' \subseteq Docker
    BY <2>2, DockerParts
  <2>4. QED
    BY <2>1, <2>3
<1>5. CASE Phase
  BY <1>5, DockerParts DEF Phase, Raises
<1>6. CASE Open
  BY <1>6, DockerParts DEF Open, Order
<1>7. CASE Verified
  BY <1>7, DockerParts DEF Verified
<1>8. CASE Cancelled
  <2>1. /\ at # "over" /\ at' \in { "down", "endpoint" }
        /\ error' = "CancelledError" /\ cancel' = FALSE
        /\ UNCHANGED << agentrc, left, main, phase, record, code >>
    BY <1>8 DEF Cancelled, Raises, Awaits
  <2>2. at' \in Places /\ error' \in Errors /\ (code' # 99 <=> at' = "over")
    BY <2>1
  <2>3. record' \in [ rc : { 0, 1, 99, 124 }, error : Errors ]
    BY <2>1
  <2>4. QED
    BY <2>1, <2>2, <2>3
<1>9. CASE Down
  BY <1>9, DockerParts DEF Down, Raises, Returned
<1>10. CASE Record
  BY <1>10, DockerParts DEF Record, Goes, Rc
<1>11. CASE Endpoint
  BY <1>11, DockerParts DEF Endpoint, Goes
<1>12. CASE Labels
  BY <1>12, DockerParts DEF Labels, Goes, Labelled
<1>13. CASE Exit
  BY <1>13, DockerParts DEF Exit, Goes, Written
<1>14. CASE Told
  BY <1>14, DockerParts DEF Told
<1>15. CASE Cancel
  BY <1>15, DockerParts DEF Cancel
<1>16. CASE Kill
  BY <1>16, DockerParts DEF Kill
<1>17. CASE Reap
  BY <1>17, DockerParts DEF Reap
<1>18. CASE UNCHANGED vars
  BY <1>18 DEF vars
<1>19. QED
  BY <1>1, <1>2, <1>3, <1>4, <1>5, <1>6, <1>7, <1>8, <1>9, <1>10, <1>11, <1>12, <1>13, <1>14, <1>15, <1>16, <1>17, <1>18 DEF Next, Step

LEMMA NextLeftInv ==
  ASSUME IInv, [Next]_vars
  PROVE  LeftInv'
<1> USE DEF IInv, TypeInv, LeftInv, NothingLeft, Places
<1>1. CASE Gateway
  BY <1>1, DockerParts DEF Gateway, Raises
<1>2. CASE Connect
  BY <1>2, DockerParts DEF Connect, Raises
<1>3. CASE Prepare
  BY <1>3, DockerParts DEF Prepare, Raises
<1>4. CASE Agent
  BY <1>4, DockerParts DEF Agent, Raises
<1>5. CASE Phase
  BY <1>5, DockerParts DEF Phase, Raises
<1>6. CASE Open
  BY <1>6, DockerParts DEF Open, Order
<1>7. CASE Verified
  BY <1>7, DockerParts DEF Verified
<1>8. CASE Cancelled
  BY <1>8, DockerParts DEF Cancelled, Raises, Awaits
<1>9. CASE Down
  <2>1. at = "down" /\ at' \in { "record", "endpoint" } /\ code' = code
    BY <1>9 DEF Down, Raises
  <2>2. QED
    BY <2>1
<1>10. CASE Record
  BY <1>10, DockerParts DEF Record, Goes, Rc
<1>11. CASE Endpoint
  BY <1>11, DockerParts DEF Endpoint, Goes
<1>12. CASE Labels
  BY <1>12, DockerParts DEF Labels, Goes
<1>13. CASE Exit
  BY <1>13, DockerParts DEF Exit, Goes, Written
<1>14. CASE Told
  BY <1>14, DockerParts DEF Told
<1>15. CASE Cancel
  BY <1>15, DockerParts DEF Cancel
<1>16. CASE Kill
  BY <1>16, DockerParts DEF Kill
<1>17. CASE Reap
  BY <1>17, DockerParts DEF Reap
<1>18. CASE UNCHANGED vars
  BY <1>18 DEF vars
<1>19. QED
  BY <1>1, <1>2, <1>3, <1>4, <1>5, <1>6, <1>7, <1>8, <1>9, <1>10, <1>11, <1>12, <1>13, <1>14, <1>15, <1>16, <1>17, <1>18 DEF Next, Step

LEMMA ToldOfRecord ==
  ASSUME NEW e \in Errors, NEW f \in [ rc : { 0, 1, 99, 124 }, error : Errors ], NEW c \in Nat, NEW t,
         t = [ rc |-> IF f = NoFile THEN 1 ELSE f.rc, infra |-> c # 0 ],
         c = 0 => e \in OfAgent /\ f = [ rc |-> GoodRc(e), error |-> e ],
         ~t.infra
  PROVE  f # NoFile /\ f.error \in OfAgent /\ t.rc = GoodRc(f.error)
<1>1. t.infra <=> c # 0
  BY Zenon
<1>2. f.error = e /\ f.rc = GoodRc(e) /\ e \in OfAgent
  BY <1>1
<1>3. GoodRc(e) \in { 0, 1, 124 }
  BY DEF GoodRc
<1>4. f # NoFile
  BY <1>2, <1>3 DEF NoFile
<1>5. t.rc = f.rc
  BY <1>4
<1>6. QED
  BY <1>2, <1>4, <1>5

LEMMA NextRecordInv ==
  ASSUME IInv, [Next]_vars
  PROVE  RecordInv'
<1> USE DEF IInv, TypeInv, RecordInv, AlwaysAResult, Places, Errors, OfAgent, NoFile, GoodRc, Returned
<1>1. CASE Gateway
  BY <1>1 DEF Gateway, Raises
<1>2. CASE Connect
  BY <1>2 DEF Connect, Raises
<1>3. CASE Prepare
  BY <1>3 DEF Prepare, Raises
<1>4. CASE Agent
  BY <1>4 DEF Agent, Raises
<1>5. CASE Phase
  BY <1>5 DEF Phase, Raises
<1>6. CASE Open
  BY <1>6 DEF Open, Order
<1>7. CASE Verified
  BY <1>7 DEF Verified
<1>8. CASE Cancelled
  BY <1>8 DEF Cancelled, Raises, Awaits
<1>9. CASE Down
  BY <1>9 DEF Down, Raises, Returned
<1>10. CASE Record
  BY <1>10 DEF Record, Goes, Rc
<1>11. CASE Endpoint
  BY <1>11 DEF Endpoint, Goes
<1>12. CASE Labels
  BY <1>12 DEF Labels, Goes, Labelled
<1>13. CASE Exit
  BY <1>13 DEF Exit, Goes, Written
<1>14. CASE Told
  BY <1>14 DEF Told
<1>15. CASE Cancel
  BY <1>15 DEF Cancel
<1>16. CASE Kill
  BY <1>16 DEF Kill
<1>17. CASE Reap
  BY <1>17 DEF Reap
<1>18. CASE UNCHANGED vars
  BY <1>18 DEF vars
<1>19. QED
  BY <1>1, <1>2, <1>3, <1>4, <1>5, <1>6, <1>7, <1>8, <1>9, <1>10, <1>11, <1>12, <1>13, <1>14, <1>15, <1>16, <1>17, <1>18 DEF Next, Step

LEMMA NextToldInv ==
  ASSUME IInv, [Next]_vars
  PROVE  ToldInv'
<1> USE DEF IInv, TypeInv, RecordInv, ToldInv, ToldTheTruth, Places, Errors, OfAgent, NoFile, GoodRc
<1>1. CASE Gateway
  BY <1>1 DEF Gateway, Raises
<1>2. CASE Connect
  BY <1>2 DEF Connect, Raises
<1>3. CASE Prepare
  BY <1>3 DEF Prepare, Raises
<1>4. CASE Agent
  BY <1>4 DEF Agent, Raises
<1>5. CASE Phase
  BY <1>5 DEF Phase, Raises
<1>6. CASE Open
  BY <1>6 DEF Open, Order
<1>7. CASE Verified
  BY <1>7 DEF Verified
<1>8. CASE Cancelled
  BY <1>8 DEF Cancelled, Raises, Awaits
<1>9. CASE Down
  BY <1>9 DEF Down, Raises, Returned
<1>10. CASE Record
  BY <1>10 DEF Record, Goes, Rc
<1>11. CASE Endpoint
  BY <1>11 DEF Endpoint, Goes
<1>12. CASE Labels
  BY <1>12 DEF Labels, Goes, Labelled
<1>13. CASE Exit
  BY <1>13 DEF Exit, Goes, Written
<1>14. CASE Told
  <2>1. /\ at' = "over" /\ UNCHANGED << record, code, error >>
        /\ told' = [ rc |-> IF record = NoFile THEN 1 ELSE record.rc, infra |-> code # 0 ]
    BY <1>14 DEF Told
  <2>2. QED
    BY <2>1, ToldOfRecord DEF AlwaysAResult
<1>15. CASE Cancel
  BY <1>15 DEF Cancel
<1>16. CASE Kill
  BY <1>16 DEF Kill
<1>17. CASE Reap
  BY <1>17 DEF Reap
<1>18. CASE UNCHANGED vars
  BY <1>18 DEF vars
<1>19. QED
  BY <1>1, <1>2, <1>3, <1>4, <1>5, <1>6, <1>7, <1>8, <1>9, <1>10, <1>11, <1>12, <1>13, <1>14, <1>15, <1>16, <1>17, <1>18 DEF Next, Step

LEMMA NextOpen ==
  ASSUME IInv, [Next]_vars
  PROVE  OpenIsVerify'
<1> USE DEF IInv, TypeInv, OpenIsVerify, Places
<1>1. CASE Agent
  BY <1>1 DEF Agent, Raises
<1>2. CASE Phase
  BY <1>2 DEF Phase, Raises
<1>3. CASE Open
  BY <1>3 DEF Open, Order
<1>4. CASE Verified
  BY <1>4 DEF Verified
<1>5. CASE Gateway \/ Connect \/ Prepare \/ Cancelled \/ Down
  BY <1>5 DEF Gateway, Connect, Prepare, Cancelled, Down
<1>6. CASE Record \/ Endpoint \/ Labels \/ Exit
  BY <1>6 DEF Record, Endpoint, Labels, Exit
<1>7. CASE Told \/ Cancel \/ Kill \/ Reap
  BY <1>7 DEF Told, Cancel, Kill, Reap
<1>8. CASE UNCHANGED vars
  BY <1>8 DEF vars
<1>9. QED
  BY <1>1, <1>2, <1>3, <1>4, <1>5, <1>6, <1>7, <1>8 DEF Next, Step

LEMMA InitInvariant == Init => IInv
<1> SUFFICES ASSUME Init PROVE IInv
  OBVIOUS
<1> USE DEF Init
<1>1. TypeInv
  BY DEF TypeInv, Places, Errors, OfAgent, NoFile
<1>2. LeftInv
  BY DEF LeftInv, NothingLeft
<1>3. RecordInv
  BY DEF RecordInv, NoFile, AlwaysAResult
<1>4. ToldInv /\ OpenIsVerify
  BY DEF ToldInv, ToldTheTruth, OpenIsVerify
<1>5. QED
  BY <1>1, <1>2, <1>3, <1>4 DEF IInv

LEMMA NextInvariant == IInv /\ [Next]_vars => IInv'
BY NextTypeInv, NextLeftInv, NextRecordInv, NextToldInv, NextOpen DEF IInv

-----------------------------------------------------------------------------

(* The inductive invariant holds of every behaviour.                       *)
THEOREM TrialInvariant == Spec => []IInv
BY InitInvariant, NextInvariant, PTL DEF Spec

(* A trial's process has a place, a code and a result file that fit        *)
(* together: a code iff it is gone, 143 only of a cancelled trial, and no  *)
(* result file of one (run_trial, main's handlers).                        *)
THEOREM TypesHold == Spec => []TypeOK
<1>1. IInv => TypeOK
  BY DEF IInv, TypeInv, RecordInv, TypeOK
<1>2. QED
  BY <1>1, TrialInvariant, PTL

(* run_trial's finally: wherever a step failed or the signal came, a       *)
(* process that exits by itself leaves nothing in Docker.                  *)
THEOREM TeardownHolds == Spec => []NothingLeft
<1>1. IInv => NothingLeft
  BY DEF IInv, LeftInv
<1>2. QED
  BY <1>1, TrialInvariant, PTL

(* run_harbor calls a trial good only if a result of an agent that ran was *)
(* recorded, and tells its exit code.                                      *)
THEOREM ToldHolds == Spec => []ToldTheTruth
<1>1. IInv => ToldTheTruth
  BY DEF IInv, ToldInv
<1>2. QED
  BY <1>1, TrialInvariant, PTL

(* main writes harbor-result.json for what run_trial could not.            *)
THEOREM ResultHolds == Spec => []AlwaysAResult
<1>1. IInv => AlwaysAResult
  BY DEF IInv, RecordInv
<1>2. QED
  BY <1>1, TrialInvariant, PTL

(* verify: the proxy's phase comes before the open network.                *)
THEOREM PhaseFirstHolds == Spec => []OpenIsVerify
<1>1. IInv => OpenIsVerify
  BY DEF IInv
<1>2. QED
  BY <1>1, TrialInvariant, PTL

(* A trial is safe in every state (harbor_backend.py), whatever fails, is  *)
(* cancelled or killed.                                                    *)
THEOREM TrialSafetyHolds == Spec => []TrialSafety
BY TypesHold, TeardownHolds, ToldHolds, ResultHolds, PhaseFirstHolds, PTL DEF TrialSafety

-----------------------------------------------------------------------------
(***************************************************************************)
(* CoopTrial: the files of the workers, the coordinator and the messages.  *)
(***************************************************************************)

WorkerPlaces == { "boot", "run", "patch", "code", "done", "sleep", "dead", "late" }
ExitCodes    == { 0, 1, 99, 124 }
WorkerShape  == [ at : WorkerPlaces, harness : ExitCodes, rc : ExitCodes ]
SharedShape  == [ patch : BOOLEAN, code : ExitCodes, done : BOOLEAN ]

CoopTypeInv ==
  /\ worker \in [ Agents -> WorkerShape ] /\ shared \in [ Agents -> SharedShape ]
  /\ coordinator \in [ at : { "wait", "read", "exit" }, read : SUBSET Agents, rc : ExitCodes ]
  /\ inbox \in [ Agents -> Seq(Nat) ] /\ seen \in [ Agents -> Seq(Nat) ]
  /\ hand \in [ Agents -> [ Readers -> Nat \cup { None } ] ] /\ sent \in [ Agents -> Nat ]

(* What worker.sh reports of a harness that ended.                         *)
Reported(a) == IF shared[a].patch THEN worker[a].harness ELSE 1

(* The three files are written one after the other.                        *)
FilesOK(a) ==
  /\ worker[a].at = "patch" => worker[a].rc = worker[a].harness /\ worker[a].harness # 99
  /\ worker[a].at = "code" => worker[a].rc = Reported(a) /\ worker[a].harness # 99
  /\ worker[a].at \in { "done", "sleep" } => shared[a].code = Reported(a) /\ worker[a].harness # 99
  /\ shared[a].done => worker[a].at = "sleep"

(* The coordinator reads exit codes once both workers are done, and keeps  *)
(* the last that is not 0.                                                 *)
CoordinatorInv ==
  /\ coordinator.at = "wait" => coordinator.read = {}
  /\ coordinator.at = "read" => AllDone
  /\ coordinator.at = "read" /\ coordinator.rc = 0 => \A a \in coordinator.read : shared[a].code = 0
  /\ coordinator.at = "exit" /\ coordinator.rc = 0 => AllDone /\ \A a \in Agents : shared[a].code = 0

(* What was taken from the list is what was sent first, without a gap and  *)
(* in one hand; what is left is the rest, in order.                        *)
Taken(a) == sent[a] - Len(inbox[a])

MailOK(a) ==
  /\ Taken(a) \in Nat
  /\ \A i \in DOMAIN inbox[a] : inbox[a][i] = Taken(a) + i
  /\ ToSet(seen[a]) \cup Held(a) = 1 .. Taken(a)
  /\ Len(seen[a]) + Cardinality(Held(a)) = Taken(a)
  /\ \A r, q \in Readers : hand[a][r] = hand[a][q] /\ hand[a][r] # None => r = q

CoopInv ==
  /\ CoopTypeInv /\ CoordinatorInv
  /\ \A a \in Agents : FilesOK(a) /\ MailOK(a)

-----------------------------------------------------------------------------
(* The sequences of messages.                                              *)

LEMMA ToSetOfAppend ==
  ASSUME NEW s \in Seq(Nat), NEW m \in Nat
  PROVE  ToSet(Append(s, m)) = ToSet(s) \cup { m } /\ Len(Append(s, m)) = Len(s) + 1 /\ Append(s, m) \in Seq(Nat)
<1> DEFINE t == Append(s, m)
           n == Len(s)
<1>1. n \in Nat /\ DOMAIN s = 1 .. n /\ DOMAIN t = 1 .. n + 1 /\ t[n + 1] = m /\ \A k \in 1 .. n : t[k] = s[k]
  OBVIOUS
<1>2. t \in Seq(Nat) /\ Len(t) = n + 1
  OBVIOUS
<1> HIDE DEF t, n
<1>3. ToSet(t) \subseteq ToSet(s) \cup { m }
  <2> SUFFICES ASSUME NEW k \in DOMAIN t PROVE t[k] \in ToSet(s) \cup { m }
    BY DEF ToSet
  <2>1. k = n + 1 \/ k \in 1 .. n
    BY <1>1
  <2>2. QED
    BY <1>1, <2>1 DEF ToSet
<1>4. ToSet(s) \cup { m } \subseteq ToSet(t)
  <2>1. n + 1 \in 1 .. n + 1 /\ \A k \in 1 .. n : k \in 1 .. n + 1
    BY <1>1
  <2>2. QED
    BY <1>1, <2>1 DEF ToSet
<1>5. QED
  BY <1>2, <1>3, <1>4 DEF t, n

LEMMA AppendIs ==
  ASSUME NEW s \in Seq(Nat), NEW m \in Nat
  PROVE  /\ Append(s, m) \in Seq(Nat) /\ Len(Append(s, m)) = Len(s) + 1
         /\ \A i \in DOMAIN Append(s, m) :
              (i \in DOMAIN s /\ Append(s, m)[i] = s[i]) \/ (i = Len(s) + 1 /\ Append(s, m)[i] = m)
OBVIOUS

LEMMA TailIs ==
  ASSUME NEW s \in Seq(Nat), s # << >>
  PROVE  /\ Len(s) \in Nat \ {0} /\ Len(Tail(s)) = Len(s) - 1 /\ Tail(s) \in Seq(Nat) /\ Head(s) = s[1]
         /\ 1 \in DOMAIN s /\ Head(s) \in Nat
         /\ \A i \in DOMAIN Tail(s) : i + 1 \in DOMAIN s /\ Tail(s)[i] = s[i + 1] /\ i \in Nat
OBVIOUS

LEMMA HeldIs ==
  ASSUME CoopTypeInv, NEW a \in Agents
  PROVE  Held(a) \subseteq Nat /\ IsFiniteSet(Held(a)) /\ Cardinality(Held(a)) \in Nat
<1>1. hand[a] \in [ Readers -> Nat \cup { None } ]
  BY DEF CoopTypeInv
<1>2. IsFiniteSet({ hand[a][r] : r \in Readers })
  <2> DEFINE f == [ r \in Readers |-> hand[a][r] ]
  <2>1. f \in Surjection(Readers, { hand[a][r] : r \in Readers })
    BY DEF Surjection
  <2>2. QED
    BY <2>1, FS_Surjection, CoopTrialAssumption
<1>3. IsFiniteSet(Held(a))
  BY <1>2, FS_Subset DEF Held
<1>4. QED
  BY <1>1, <1>3, FS_CardinalityType DEF Held

-----------------------------------------------------------------------------
(* The messages.                                                           *)

LEMMA MailStays ==
  ASSUME NEW a, MailOK(a), UNCHANGED << inbox[a], hand[a], seen[a], sent[a] >>
  PROVE  MailOK(a)'
BY DEF MailOK, Taken, Held, ToSet

LEMMA SendMail ==
  ASSUME CoopInv, NEW a \in Agents, NEW b \in Agents, Send(a, b)
  PROVE  CoopTypeInv' /\ \A c \in Agents : MailOK(c)'
<1> DEFINE m == sent[b] + 1
           t == Append(inbox[b], m)
<1>1. /\ sent[b] \in Nat /\ m \in Nat /\ inbox[b] \in Seq(Nat) /\ Len(inbox[b]) \in Nat
      /\ \A c \in Agents : MailOK(c)
  BY DEF CoopInv, CoopTypeInv
<1>2. sent' = [ sent EXCEPT ![b] = m ] /\ inbox' = [ inbox EXCEPT ![b] = t ] /\ UNCHANGED << worker, shared, hand, seen, coordinator >>
  BY DEF Send, Pushed
<1>3. /\ t \in Seq(Nat) /\ Len(t) = Len(inbox[b]) + 1
      /\ \A i \in DOMAIN t : (i \in DOMAIN inbox[b] /\ t[i] = inbox[b][i]) \/ (i = Len(inbox[b]) + 1 /\ t[i] = m)
  BY <1>1, AppendIs
<1> HIDE DEF t, m
<1>4. /\ CoopTypeInv' /\ sent'[b] = m /\ inbox'[b] = t
      /\ \A c \in Agents : c # b => UNCHANGED << inbox[c], sent[c] >>
  BY <1>1, <1>2, <1>3 DEF CoopInv, CoopTypeInv
<1>5. \A c \in Agents : c # b => MailOK(c)'
  BY <1>1, <1>2, <1>4, MailStays
<1>6. MailOK(b)'
  <2>1. Taken(b)' = Taken(b)
    BY <1>1, <1>3, <1>4 DEF Taken, m
  <2>2. Taken(b) + (Len(inbox[b]) + 1) = m
    BY <1>1 DEF Taken, m
  <2>3. \A i \in DOMAIN t : t[i] = Taken(b) + i
    BY <1>1, <1>3, <2>2 DEF MailOK
  <2>4. UNCHANGED << seen[b], hand[b] >> /\ Held(b)' = Held(b)
    BY <1>2 DEF Held
  <2>5. QED
    BY <1>1, <1>4, <2>1, <2>3, <2>4 DEF MailOK, ToSet
<1>7. QED
  BY <1>4, <1>5, <1>6

LEMMA PopMail ==
  ASSUME CoopInv, NEW a \in Agents, NEW r \in Readers, Pop(a, r)
  PROVE  CoopTypeInv' /\ \A c \in Agents : MailOK(c)'
<1> DEFINE h == Head(inbox[a])
           t == Tail(inbox[a])
           n == Taken(a)
<1>1. /\ inbox[a] \in Seq(Nat) /\ inbox[a] # << >> /\ hand[a][r] = None /\ hand[a] \in [ Readers -> Nat \cup { None } ]
      /\ seen[a] \in Seq(Nat) /\ sent[a] \in Nat /\ \A c \in Agents : MailOK(c)
  BY DEF CoopInv, CoopTypeInv, Pop
<1>2. /\ hand' = [ hand EXCEPT ![a] = [ @ EXCEPT ![r] = h ] ] /\ inbox' = [ inbox EXCEPT ![a] = t ]
      /\ UNCHANGED << worker, shared, seen, sent, coordinator >>
  BY <1>1 DEF Pop, Popped, CoopInv, CoopTypeInv
<1>3. /\ Len(inbox[a]) \in Nat \ {0} /\ Len(t) = Len(inbox[a]) - 1 /\ t \in Seq(Nat) /\ h = inbox[a][1] /\ 1 \in DOMAIN inbox[a] /\ h \in Nat
      /\ \A i \in DOMAIN t : i + 1 \in DOMAIN inbox[a] /\ t[i] = inbox[a][i + 1] /\ i \in Nat
  BY <1>1, TailIs
<1>4. n \in Nat /\ h = n + 1
  BY <1>1, <1>3 DEF MailOK
<1> HIDE DEF h, t
<1>5. /\ CoopTypeInv' /\ inbox'[a] = t /\ hand'[a] = [ hand[a] EXCEPT ![r] = h ]
      /\ \A c \in Agents : c # a => UNCHANGED << inbox[c], hand[c] >>
  <2>1. [ hand[a] EXCEPT ![r] = h ] \in [ Readers -> Nat \cup { None } ]
    BY <1>1, <1>3
  <2>2. QED
    BY <1>2, <1>3, <2>1 DEF CoopInv, CoopTypeInv
<1>6. \A c \in Agents : c # a => MailOK(c)'
  BY <1>1, <1>2, <1>5, MailStays
<1>7. MailOK(a)'
  <2>1. Taken(a)' = n + 1
    <3>1. sent'[a] = sent[a] /\ Len(inbox'[a]) = Len(inbox[a]) - 1
      BY <1>2, <1>3, <1>5
    <3>2. QED
      BY <1>1, <1>3, <3>1 DEF Taken
  <2>2. \A i \in DOMAIN t : t[i] = (n + 1) + i
    <3>1. ASSUME NEW i \in DOMAIN t PROVE t[i] = (n + 1) + i
      <4>1. i \in Nat /\ i + 1 \in DOMAIN inbox[a] /\ t[i] = inbox[a][i + 1]
        BY <1>3
      <4>2. inbox[a][i + 1] = n + (i + 1)
        BY <1>1, <4>1 DEF MailOK
      <4>3. n + (i + 1) = (n + 1) + i
        BY <1>4, <4>1
      <4>4. QED
        BY <4>1, <4>2, <4>3
    <3>2. QED
      BY <3>1
  <2>3. Held(a)' = Held(a) \cup { h }
    <3>1. h # None /\ \A q \in Readers : hand'[a][q] = IF q = r THEN h ELSE hand[a][q]
      BY <1>1, <1>3, <1>5, CoopTrialAssumption
    <3>2. QED
      BY <1>1, <3>1 DEF Held
  <2>4. IsFiniteSet(Held(a)) /\ Cardinality(Held(a)) \in Nat
    BY HeldIs DEF CoopInv
  <2>5. h \notin Held(a) /\ \A q \in Readers : hand[a][q] # h
    <3>1. Held(a) \subseteq 1 .. n /\ h \notin 1 .. n
      BY <1>1, <1>4 DEF MailOK
    <3>2. h # None
      BY <1>3, CoopTrialAssumption
    <3>3. QED
      BY <3>1, <3>2 DEF Held
  <2>6. Cardinality(Held(a)') = Cardinality(Held(a)) + 1
    BY <2>3, <2>4, <2>5, FS_AddElement
  <2>7. ToSet(seen[a]) \cup Held(a)' = 1 .. (n + 1)
    <3>1. 1 .. (n + 1) = (1 .. n) \cup { n + 1 }
      BY <1>4
    <3>2. QED
      BY <1>1, <1>4, <2>3, <3>1 DEF MailOK
  <2>8. Len(seen[a]) + Cardinality(Held(a)') = n + 1
    BY <1>1, <2>4, <2>6, <1>4 DEF MailOK
  <2>9. \A p, q \in Readers : hand'[a][p] = hand'[a][q] /\ hand'[a][p] # None => p = q
    BY <1>1, <1>5, <2>5 DEF MailOK
  <2>10. (ToSet(seen[a]))' = ToSet(seen[a]) /\ (n + 1) \in Nat /\ seen'[a] = seen[a]
    BY <1>2, <1>4 DEF ToSet
  <2> HIDE DEF n
  <2>11. QED
    BY <1>5, <2>1, <2>2, <2>7, <2>8, <2>9, <2>10 DEF MailOK
<1>8. QED
  BY <1>5, <1>6, <1>7

LEMMA ShowMail ==
  ASSUME CoopInv, NEW a \in Agents, NEW r \in Readers, Show(a, r)
  PROVE  CoopTypeInv' /\ \A c \in Agents : MailOK(c)'
<1> DEFINE v == hand[a][r]
           t == Append(seen[a], v)
<1>1. /\ seen[a] \in Seq(Nat) /\ v # None /\ v \in Nat /\ hand[a] \in [ Readers -> Nat \cup { None } ]
      /\ inbox[a] \in Seq(Nat) /\ sent[a] \in Nat /\ \A c \in Agents : MailOK(c)
  BY DEF CoopInv, CoopTypeInv, Show
<1>2. /\ hand' = [ hand EXCEPT ![a] = [ @ EXCEPT ![r] = None ] ] /\ seen' = [ seen EXCEPT ![a] = t ]
      /\ UNCHANGED << worker, shared, inbox, sent, coordinator >>
  BY <1>1 DEF Show, CoopInv, CoopTypeInv
<1>3. t \in Seq(Nat) /\ Len(t) = Len(seen[a]) + 1 /\ ToSet(t) = ToSet(seen[a]) \cup { v } /\ Len(seen[a]) \in Nat
  BY <1>1, ToSetOfAppend
<1>4. v \in Held(a)
  BY <1>1 DEF Held
<1> HIDE DEF t, v
<1>5. /\ CoopTypeInv' /\ seen'[a] = t /\ hand'[a] = [ hand[a] EXCEPT ![r] = None ]
      /\ \A c \in Agents : c # a => UNCHANGED << seen[c], hand[c] >>
  <2>1. [ hand[a] EXCEPT ![r] = None ] \in [ Readers -> Nat \cup { None } ]
    BY <1>1
  <2>2. QED
    BY <1>2, <1>3, <2>1 DEF CoopInv, CoopTypeInv
<1>6. \A c \in Agents : c # a => MailOK(c)'
  BY <1>1, <1>2, <1>5, MailStays
<1>7. MailOK(a)'
  <2>1. Taken(a)' = Taken(a) /\ inbox'[a] = inbox[a]
    BY <1>2 DEF Taken
  <2>2. Held(a)' = Held(a) \ { v }
    <3>1. \A q \in Readers : hand'[a][q] = IF q = r THEN None ELSE hand[a][q]
      BY <1>1, <1>5
    <3>2. \A q \in Readers : q # r => hand[a][q] # v
      BY <1>1 DEF MailOK, v
    <3>3. QED
      BY <1>1, <3>1, <3>2 DEF Held, v
  <2>3. IsFiniteSet(Held(a)) /\ Cardinality(Held(a)) \in Nat
    BY HeldIs DEF CoopInv
  <2>4. Cardinality(Held(a)') = Cardinality(Held(a)) - 1
    BY <1>4, <2>2, <2>3, FS_RemoveElement
  <2>5. ToSet(t) \cup Held(a)' = 1 .. Taken(a)
    BY <1>1, <1>3, <1>4, <2>2 DEF MailOK
  <2>6. Len(t) + Cardinality(Held(a)') = Taken(a)
    BY <1>1, <1>3, <2>3, <2>4 DEF MailOK
  <2>7. \A p, q \in Readers : hand'[a][p] = hand'[a][q] /\ hand'[a][p] # None => p = q
    BY <1>1, <1>5 DEF MailOK
  <2>8. Taken(a) \in Nat /\ \A i \in DOMAIN inbox[a] : inbox[a][i] = Taken(a) + i
    BY <1>1 DEF MailOK
  <2>9. QED
    BY <1>5, <2>1, <2>5, <2>6, <2>7, <2>8 DEF MailOK, ToSet
<1>8. QED
  BY <1>5, <1>6, <1>7

-----------------------------------------------------------------------------
(* The workers and the coordinator.                                        *)

LEMMA SetIs ==
  ASSUME CoopTypeInv, NEW a \in Agents, NEW p \in WorkerShape, Set(a, p)
  PROVE  worker' \in [ Agents -> WorkerShape ] /\ worker'[a] = p /\ \A b \in Agents : b # a => worker'[b] = worker[b]
BY DEF CoopTypeInv, Set

LEMMA FilesStay ==
  ASSUME NEW a, FilesOK(a), UNCHANGED << worker[a], shared[a] >>
  PROVE  FilesOK(a)'
BY DEF FilesOK, Reported

(* A worker that is done changes nothing any more.                         *)
LEMMA WorkerMoves ==
  ASSUME CoopInv, NEW a \in Agents,
         worker' \in [ Agents -> WorkerShape ], shared' \in [ Agents -> SharedShape ], UNCHANGED << redis, coordinator >>,
         \A b \in Agents : b # a => UNCHANGED << worker[b], shared[b] >>,
         FilesOK(a)', worker[a].at # "sleep"
  PROVE  CoopInv'
<1>1. CoopTypeInv'
  BY DEF CoopInv, CoopTypeInv, redis
<1>2. \A b \in Agents : FilesOK(b)'
  BY FilesStay DEF CoopInv
<1>3. \A b \in Agents : MailOK(b)'
  BY MailStays DEF CoopInv, redis
<1>4. ~shared[a].done
  BY DEF CoopInv, FilesOK
<1>5. CoordinatorInv'
  <2>1. ~AllDone
    BY <1>4 DEF AllDone
  <2>2. QED
    BY <2>1 DEF CoopInv, CoordinatorInv
<1>6. QED
  BY <1>1, <1>2, <1>3, <1>5 DEF CoopInv

LEMMA WorkersCoop ==
  ASSUME CoopInv, NEW a \in Agents, Worker(a) \/ Dies(a)
  PROVE  CoopInv'
<1> DEFINE w == worker[a]
           s == shared[a]
<1>1. w \in WorkerShape /\ s \in SharedShape /\ FilesOK(a) /\ CoopTypeInv /\ shared \in [ Agents -> SharedShape ]
  BY DEF CoopInv, CoopTypeInv
<1>2. CASE Boot(a) \/ Dies(a)
  <2>1. PICK to \in { "run", "dead" } : Set(a, [ w EXCEPT !.at = to ])
    BY <1>2 DEF Boot, Dies
  <2>2. w.at \in { "boot", "run", "patch", "code", "done" } /\ UNCHANGED << shared, redis, coordinator >>
    BY <1>2 DEF Boot, Dies, At
  <2> DEFINE p == [ w EXCEPT !.at = to ]
  <2>3. p \in WorkerShape /\ p.at = to
    BY <1>1 DEF WorkerShape, WorkerPlaces
  <2>4. worker' \in [ Agents -> WorkerShape ] /\ worker'[a] = p /\ \A b \in Agents : b # a => worker'[b] = worker[b]
    BY <1>1, <2>1, <2>3, SetIs
  <2> HIDE DEF p
  <2>5. FilesOK(a)'
    BY <1>1, <2>1, <2>2, <2>3, <2>4 DEF FilesOK
  <2>6. QED
    BY <1>1, <2>2, <2>4, <2>5, WorkerMoves
<1>3. CASE HarnessEnds(a)
  <2>1. PICK rc \in { 0, 1, 124 } : Set(a, [ at |-> "patch", harness |-> rc, rc |-> rc ])
    BY <1>3 DEF HarnessEnds
  <2>2. w.at = "run" /\ UNCHANGED << shared, redis, coordinator >>
    BY <1>3 DEF HarnessEnds, At
  <2> DEFINE p == [ at |-> "patch", harness |-> rc, rc |-> rc ]
  <2>3. p \in WorkerShape /\ p.at = "patch" /\ p.rc = p.harness /\ p.harness # 99
    BY DEF WorkerShape, WorkerPlaces, ExitCodes
  <2>4. worker' \in [ Agents -> WorkerShape ] /\ worker'[a] = p /\ \A b \in Agents : b # a => worker'[b] = worker[b]
    BY <1>1, <2>1, <2>3, SetIs
  <2> HIDE DEF p
  <2>5. FilesOK(a)'
    BY <1>1, <2>2, <2>3, <2>4 DEF FilesOK
  <2>6. QED
    BY <1>1, <2>2, <2>4, <2>5, WorkerMoves
<1>4. CASE Patch(a)
  <2>1. PICK whole \in BOOLEAN : /\ shared' = [ shared EXCEPT ![a].patch = whole ]
                                 /\ Set(a, [ worker[a] EXCEPT !.at = "code", !.rc = Patched(a, whole) ])
    BY <1>4 DEF Patch
  <2>2. w.at = "patch" /\ UNCHANGED << redis, coordinator >>
    BY <1>4 DEF Patch, At
  <2> DEFINE c == IF whole THEN w.rc ELSE 1
             p == [ w EXCEPT !.at = "code", !.rc = c ]
             f == [ s EXCEPT !.patch = whole ]
  <2>3. c \in ExitCodes /\ (w.rc = w.harness /\ w.harness # 99)
    BY <1>1, <2>2 DEF WorkerShape, ExitCodes, FilesOK
  <2>4. p \in WorkerShape /\ p.at = "code" /\ p.rc = c /\ p.harness = w.harness
    <3> HIDE DEF c
    <3> QED BY <1>1, <2>3 DEF WorkerShape, WorkerPlaces
  <2>5. f \in SharedShape /\ f.patch = whole /\ f.done = s.done /\ f.code = s.code
    BY <1>1, <2>1 DEF SharedShape
  <2>6. shared' = [ shared EXCEPT ![a] = f ] /\ Set(a, p)
    BY <1>1, <2>1 DEF Patched
  <2> HIDE DEF p, f
  <2>7. worker' \in [ Agents -> WorkerShape ] /\ worker'[a] = p /\ \A b \in Agents : b # a => worker'[b] = worker[b]
    BY <1>1, <2>4, <2>6, SetIs
  <2>8. shared' \in [ Agents -> SharedShape ] /\ shared'[a] = f /\ \A b \in Agents : b # a => shared'[b] = shared[b]
    BY <1>1, <2>5, <2>6
  <2>9. FilesOK(a)'
    BY <1>1, <2>2, <2>3, <2>4, <2>5, <2>7, <2>8 DEF FilesOK, Reported
  <2>10. QED
    BY <1>1, <2>2, <2>7, <2>8, <2>9, WorkerMoves
<1>5. CASE Code(a)
  <2>1. /\ w.at = "code" /\ shared' = [ shared EXCEPT ![a].code = w.rc ] /\ Set(a, [ w EXCEPT !.at = "done" ])
        /\ UNCHANGED << redis, coordinator >>
    BY <1>5 DEF Code, At
  <2> DEFINE c == w.rc
             p == [ w EXCEPT !.at = "done" ]
             f == [ s EXCEPT !.code = c ]
  <2>2. c \in ExitCodes
    BY <1>1 DEF WorkerShape
  <2>3. p \in WorkerShape /\ p.at = "done" /\ p.harness = w.harness
    BY <1>1 DEF WorkerShape, WorkerPlaces
  <2>4. f \in SharedShape /\ f.patch = s.patch /\ f.done = s.done /\ f.code = c
    <3> HIDE DEF c
    <3> QED BY <1>1, <2>2 DEF SharedShape
  <2>5. shared' = [ shared EXCEPT ![a] = f ]
    BY <1>1, <2>1
  <2> HIDE DEF p, f
  <2>6. worker' \in [ Agents -> WorkerShape ] /\ worker'[a] = p /\ \A b \in Agents : b # a => worker'[b] = worker[b]
    BY <1>1, <2>1, <2>3, SetIs DEF p
  <2>7. shared' \in [ Agents -> SharedShape ] /\ shared'[a] = f /\ \A b \in Agents : b # a => shared'[b] = shared[b]
    BY <1>1, <2>4, <2>5
  <2>8. FilesOK(a)'
    BY <1>1, <2>1, <2>3, <2>4, <2>6, <2>7 DEF FilesOK, Reported
  <2>9. QED
    BY <1>1, <2>1, <2>6, <2>7, <2>8, WorkerMoves
<1>6. CASE Done(a)
  <2> DEFINE p == [ w EXCEPT !.at = "sleep" ]
             f == [ s EXCEPT !.done = TRUE ]
  <2>1. /\ w.at = "done" /\ shared' = [ shared EXCEPT ![a] = f ] /\ Set(a, p)
        /\ UNCHANGED << redis, coordinator >>
    BY <1>1, <1>6 DEF Done, DoneAfter, At, WorkerShape
  <2>3. p \in WorkerShape /\ p.at = "sleep" /\ p.harness = w.harness
    BY <1>1 DEF WorkerShape, WorkerPlaces
  <2>4. f \in SharedShape /\ f.patch = s.patch /\ f.code = s.code
    BY <1>1 DEF SharedShape
  <2> HIDE DEF p, f
  <2>6. worker' \in [ Agents -> WorkerShape ] /\ worker'[a] = p /\ \A b \in Agents : b # a => worker'[b] = worker[b]
    BY <1>1, <2>1, <2>3, SetIs
  <2>7. shared' \in [ Agents -> SharedShape ] /\ shared'[a] = f /\ \A b \in Agents : b # a => shared'[b] = shared[b]
    BY <1>1, <2>1, <2>4
  <2>8. FilesOK(a)'
    BY <1>1, <2>1, <2>3, <2>4, <2>6, <2>7 DEF FilesOK, Reported
  <2>9. QED
    BY <1>1, <2>1, <2>6, <2>7, <2>8, WorkerMoves
<1>7. QED
  BY <1>2, <1>3, <1>4, <1>5, <1>6 DEF Worker

LEMMA CoordinatorCoop ==
  ASSUME CoopInv, Coordinator
  PROVE  CoopInv'
<1>1. /\ coordinator \in [ at : { "wait", "read", "exit" }, read : SUBSET Agents, rc : ExitCodes ]
      /\ shared \in [ Agents -> SharedShape ] /\ CoordinatorInv
      /\ UNCHANGED << worker, shared, inbox, hand, seen, sent >>
  BY DEF CoopInv, CoopTypeInv, Coordinator, Wait, Read, CoordinatorExits, Timeout, redis
<1>2. \A a \in Agents : FilesOK(a)' /\ MailOK(a)'
  BY <1>1, FilesStay, MailStays DEF CoopInv
<1>3. AllDone' = AllDone
  BY <1>1 DEF AllDone
<1>4. coordinator' \in [ at : { "wait", "read", "exit" }, read : SUBSET Agents, rc : ExitCodes ] /\ CoordinatorInv'
  <2>1. CASE Wait
    <3>1. AllDone /\ coordinator.read = {} /\ coordinator' = [ coordinator EXCEPT !.at = "read" ]
      BY <1>1, <2>1 DEF Wait, CoordinatorInv
    <3>2. QED
      BY <1>1, <1>3, <3>1 DEF CoordinatorInv
  <2>2. CASE \E a \in Agents : Read(a)
    <3>1. PICK a \in Agents : Read(a)
      BY <2>2
    <3> DEFINE c == IF shared[a].code = 0 THEN coordinator.rc ELSE shared[a].code
    <3>2. c \in ExitCodes /\ (c = 0 => coordinator.rc = 0 /\ shared[a].code = 0)
      BY <1>1 DEF SharedShape
    <3>3. /\ coordinator.at = "read"
          /\ coordinator' = [ coordinator EXCEPT !.read = @ \union {a}, !.rc = c ]
      BY <3>1 DEF Read
    <3> HIDE DEF c
    <3>4. QED
      BY <1>1, <1>3, <3>2, <3>3 DEF CoordinatorInv
  <2>3. CASE CoordinatorExits
    BY <1>1, <1>3, <2>3 DEF CoordinatorExits, CoordinatorInv
  <2>4. CASE Timeout
    <3>1. /\ coordinator'.at = "exit" /\ coordinator'.rc = 124
          /\ coordinator' \in [ at : { "wait", "read", "exit" }, read : SUBSET Agents, rc : ExitCodes ]
      BY <1>1, <2>4 DEF Timeout, ExitCodes
    <3>2. QED
      BY <3>1 DEF CoordinatorInv
  <2>5. QED
    BY <2>1, <2>2, <2>3, <2>4 DEF Coordinator
<1>5. CoopTypeInv'
  BY <1>1, <1>4 DEF CoopInv, CoopTypeInv
<1>6. QED
  BY <1>2, <1>4, <1>5 DEF CoopInv

LEMMA MailCoop ==
  ASSUME CoopInv, UNCHANGED << worker, shared, coordinator >>, CoopTypeInv', \A a \in Agents : MailOK(a)'
  PROVE  CoopInv'
<1>1. \A a \in Agents : FilesOK(a)'
  BY FilesStay DEF CoopInv
<1>2. CoordinatorInv'
  BY DEF CoopInv, CoordinatorInv, AllDone
<1>3. QED
  BY <1>1, <1>2 DEF CoopInv

LEMMA InitCoop == CoopInit => CoopInv
<1> SUFFICES ASSUME CoopInit PROVE CoopInv
  OBVIOUS
<1> USE DEF CoopInit
<1>1. CoopTypeInv
  BY DEF CoopTypeInv, WorkerShape, WorkerPlaces, ExitCodes, SharedShape
<1>2. ASSUME NEW a \in Agents PROVE FilesOK(a) /\ MailOK(a)
  <2>1. FilesOK(a)
    BY DEF FilesOK
  <2>2. Held(a) = {} /\ ToSet(seen[a]) = {} /\ Taken(a) = 0 /\ Len(seen[a]) = 0
    BY DEF Held, ToSet, Taken
  <2>3. Cardinality(Held(a)) = 0 /\ 1 .. 0 = {} /\ inbox[a] = << >>
    BY <2>2, FS_EmptySet
  <2>4. QED
    BY <2>1, <2>2, <2>3 DEF MailOK
<1>3. CoordinatorInv
  BY DEF CoordinatorInv
<1>4. QED
  BY <1>1, <1>2, <1>3 DEF CoopInv

LEMMA NextCoop == CoopInv /\ [CoopNext]_coopVars => CoopInv'
<1> SUFFICES ASSUME CoopInv, [CoopNext]_coopVars PROVE CoopInv'
  OBVIOUS
<1>1. ASSUME NEW a \in Agents, NEW b \in Agents, Send(a, b) PROVE CoopInv'
  BY <1>1, SendMail, MailCoop DEF Send
<1>2. ASSUME NEW a \in Agents, NEW r \in Readers, Pop(a, r) \/ Show(a, r) PROVE CoopInv'
  BY <1>2, PopMail, ShowMail, MailCoop DEF Pop, Show
<1>3. CASE UNCHANGED coopVars
  <2>1. UNCHANGED << worker, shared, inbox, hand, seen, sent, coordinator >>
    BY <1>3 DEF coopVars
  <2>2. QED
    BY <2>1, MailStays, MailCoop DEF CoopInv, CoopTypeInv
<1>4. QED
  BY <1>1, <1>2, <1>3, WorkersCoop, CoordinatorCoop DEF CoopNext

-----------------------------------------------------------------------------

THEOREM CoopInvariantHolds == CoopSpec => []CoopInv
BY InitCoop, NextCoop, PTL DEF CoopSpec

(* coordinator.sh: exit 0 is two harnesses that ended with 0 and two whole *)
(* patches, for any number of agents.                                      *)
THEOREM ZeroIsBothHolds == CoopSpec => [](CoopTypeOK /\ ZeroIsBoth)
<1>1. CoopInv => CoopTypeOK /\ ZeroIsBoth
  <2> SUFFICES ASSUME CoopInv PROVE CoopTypeOK /\ ZeroIsBoth
    OBVIOUS
  <2>1. CoopTypeOK
    BY DEF CoopInv, FilesOK, Reported, CoopTypeOK, CoopTypeInv, WorkerShape, ExitCodes
  <2>2. ZeroIsBoth
    BY DEF CoopInv, FilesOK, Reported, CoordinatorInv, AllDone, ZeroIsBoth
  <2>3. QED
    BY <2>1, <2>2
<1>2. QED
  BY <1>1, CoopInvariantHolds, PTL

(* send_message and check_messages: no message is lost, doubled or passed  *)
(* by another in the list, for any number of agents and of commands that   *)
(* read at once.                                                           *)
THEOREM MessagesOnceHolds == CoopSpec => []MessagesOnce
<1>1. CoopInv => MessagesOnce
  <2> SUFFICES ASSUME CoopInv, NEW a \in Agents
               PROVE  /\ Len(seen[a]) + Cardinality(Held(a)) + Len(inbox[a]) = sent[a]
                      /\ ToSet(seen[a]) \union Held(a) \union ToSet(inbox[a]) = 1 .. sent[a]
                      /\ \A i \in DOMAIN inbox[a] : inbox[a][i] = sent[a] - Len(inbox[a]) + i
    BY DEF MessagesOnce
  <2> DEFINE n == Taken(a)
             k == Len(inbox[a])
  <2>1. inbox[a] \in Seq(Nat) /\ seen[a] \in Seq(Nat) /\ sent[a] \in Nat /\ MailOK(a) /\ Cardinality(Held(a)) \in Nat
    BY HeldIs DEF CoopInv, CoopTypeInv
  <2>2. k \in Nat /\ DOMAIN inbox[a] = 1 .. k /\ n \in Nat /\ sent[a] = n + k /\ Len(seen[a]) \in Nat /\ n = sent[a] - k
    BY <2>1 DEF MailOK, Taken
  <2>3. /\ \A i \in 1 .. k : inbox[a][i] = n + i
        /\ ToSet(seen[a]) \cup Held(a) = 1 .. n /\ Len(seen[a]) + Cardinality(Held(a)) = n
    BY <2>1, <2>2 DEF MailOK
  <2> HIDE DEF n, k
  <2>4. ToSet(inbox[a]) = (n + 1) .. (n + k)
    <3>1. ASSUME NEW i \in 1 .. k PROVE inbox[a][i] \in (n + 1) .. (n + k)
      BY <2>2, <2>3
    <3>2. ASSUME NEW m \in (n + 1) .. (n + k) PROVE \E i \in 1 .. k : inbox[a][i] = m
      <4>1. m - n \in 1 .. k /\ n + (m - n) = m
        BY <2>2
      <4>2. QED
        BY <2>3, <4>1
    <3>3. QED
      BY <2>2, <3>1, <3>2 DEF ToSet
  <2>5. (1 .. n) \cup ((n + 1) .. (n + k)) = 1 .. (n + k)
    BY <2>2
  <2>6. QED
    BY <2>1, <2>2, <2>3, <2>4, <2>5 DEF k
<1>2. QED
  BY <1>1, CoopInvariantHolds, PTL

(* A cooperative trial in every state.                                     *)
THEOREM CoopSafetyHolds == CoopSpec => []CoopSafety
<1>1. CoopTypeOK /\ ZeroIsBoth /\ MessagesOnce => CoopSafety
  BY DEF CoopSafety
<1>2. QED
  BY <1>1, ZeroIsBothHolds, MessagesOnceHolds, PTL

-----------------------------------------------------------------------------
(***************************************************************************)
(* Corpus: Resources, the build lock, the verdicts and what is published.  *)
(***************************************************************************)

(* What the controller and the threads can be.                             *)
Quiet   == { "idle", "pending", "ready", "taken", "cancelled" }
Running == { "queued", "ticket", "lock", "build", "reference", "empty", "clean" }
Rewards == { 0, 1, 9 }

Controls == { "off", "submit", "pool", "check", "drain", "oracle", "runnable", "put" }

ControlShape == [ at : Controls, rows : SUBSET Tasks, after : { "pool", "submit", "check" }, runs : Nat ]

FutureShape == [ at : Quiet \cup Running, status : Statuses, ref : Rewards, empty : Rewards, shown : BOOLEAN ]
RowShape    == [ status : Statuses, ref : Rewards, empty : Rewards ]

CorpusTypes ==
  /\ control \in ControlShape
  /\ future \in [ Tasks -> FutureShape ] /\ results \in [ Tasks -> RowShape ]
  /\ queue \in Seq(Tasks) /\ used \in Nat
  /\ catalog \in [ runnable : SUBSET Tasks, oracle : SUBSET Tasks ]
  /\ cards \in [ task : SUBSET Tasks, run : SUBSET Tasks, count : Nat ]

(* Resources and BUILD.                                                    *)
AccountInv ==
  /\ used = Cardinality(Units(Holding)) /\ used <= Capacity
  /\ builder = { t \in Tasks : AtW(t, "build") }
  /\ \A t, u \in builder : t = u
  /\ ToSet(queue) = { t \in Tasks : AtW(t, "ticket") } /\ IsInjective(queue)

(* The controller reconciles and submits before a thread runs, and is off  *)
(* only when none does.                                                    *)
Reconciles == control.at = "submit" \/ (control.at \in { "oracle", "runnable", "put" } /\ control.after = "submit")

ControlInv ==
  /\ control.at = "off" => \A t \in Tasks : future[t].at \in Quiet
  /\ Reconciles => \A t \in Tasks : future[t].at \in { "idle", "pending" }

(* A verdict and the rewards it comes from.                                *)
Proven(r) == r.ref = 1 /\ r.empty = 0

VerdictInv ==
  \A t \in Tasks :
    /\ results[t].status = "passed" => Proven(results[t])
    /\ future[t].status = "passed" => Proven(future[t])
    /\ future[t].at = "empty" => future[t].ref = 1
    /\ future[t].at \in Running \cup { "pending", "ready" } => results[t].status # "passed"
    /\ future[t].at \in { "reference", "empty" } => Image(t) \in images

(* Only passes are published.                                              *)
Passed == { t \in Tasks : results[t].status = "passed" }

ListedInv == control.rows \cup catalog.oracle \cup catalog.runnable \cup cards.task \cup cards.run \subseteq Passed

CorpusInv == CorpusTypes /\ AccountInv /\ ControlInv /\ VerdictInv /\ ListedInv

(* The order of publishing: oracle.jsonl, runnable.json, the rows.         *)
Publishing == control.at \in { "oracle", "runnable", "put" }

PublishInv ==
  /\ cards.run \subseteq cards.task \cap Live /\ Cardinality(cards.run) <= cards.count
  /\ control.at \in { "runnable", "put" } => control.rows \subseteq catalog.oracle
  /\ control.at = "put" => control.rows \subseteq catalog.runnable
  /\ control.at = "submit" => Passed \subseteq cards.run
  /\ Publishing /\ control.after = "submit" => Passed \subseteq cards.run \cup control.rows

-----------------------------------------------------------------------------
(* The memory of Resources, counted in units.                              *)

LEMMA AmountIs ==
  ASSUME NEW t \in Tasks
  PROVE  Amount(t) \in Nat /\ Amount(t) <= Capacity /\ Capacity \in Nat
BY CorpusAssumption DEF Amount

LEMMA UnitsFinite ==
  ASSUME NEW S \in SUBSET Tasks
  PROVE  IsFiniteSet(Units(S)) /\ Cardinality(Units(S)) \in Nat
<1>1. IsFiniteSet(S) /\ IsFiniteSet(1 .. Capacity)
  BY CorpusAssumption, FS_Subset, FS_Interval
<1>2. IsFiniteSet(S \X (1 .. Capacity))
  BY <1>1, FS_Product
<1>3. Units(S) \subseteq S \X (1 .. Capacity)
  BY DEF Units
<1>4. QED
  BY <1>2, <1>3, FS_Subset, FS_CardinalityType

LEMMA UnitsOfOne ==
  ASSUME NEW t \in Tasks
  PROVE  Cardinality(Units({t})) = Amount(t)
<1>1. Amount(t) \in Nat /\ Amount(t) <= Capacity /\ Capacity \in Nat
  BY AmountIs
<1>2. Units({t}) = {t} \X (1 .. Amount(t))
  <2>1. ASSUME NEW n \in 1 .. Amount(t) PROVE n \in 1 .. Capacity /\ n <= Amount(t)
    BY <1>1
  <2>2. ASSUME NEW n \in 1 .. Capacity, n <= Amount(t) PROVE n \in 1 .. Amount(t)
    BY <1>1, <2>2
  <2>3. QED
    BY <2>1, <2>2 DEF Units
<1>3. IsFiniteSet({t}) /\ Cardinality({t}) = 1
  BY FS_Singleton
<1>4. IsFiniteSet(1 .. Amount(t)) /\ Cardinality(1 .. Amount(t)) = Amount(t)
  BY <1>1, FS_Interval
<1>5. Cardinality({t} \X (1 .. Amount(t))) = Cardinality({t}) * Cardinality(1 .. Amount(t))
  BY <1>3, <1>4, FS_Product
<1>6. 1 * Amount(t) = Amount(t)
  BY <1>1
<1>7. QED
  BY <1>2, <1>3, <1>4, <1>5, <1>6

LEMMA UnitsTaken ==
  ASSUME NEW S \in SUBSET Tasks, NEW t \in Tasks, t \notin S
  PROVE  Cardinality(Units(S \cup {t})) = Cardinality(Units(S)) + Amount(t)
<1>1. Units(S \cup {t}) = Units(S) \cup Units({t}) /\ Units(S) \cap Units({t}) = {}
  BY DEF Units
<1>2. /\ IsFiniteSet(Units(S)) /\ IsFiniteSet(Units({t}))
      /\ Cardinality(Units(S)) \in Nat /\ Cardinality(Units({t})) \in Nat
  BY UnitsFinite
<1>3. Cardinality({}) = 0
  BY FS_EmptySet
<1>4. Cardinality(Units(S) \cup Units({t})) = Cardinality(Units(S)) + Cardinality(Units({t})) - Cardinality(Units(S) \cap Units({t}))
  BY <1>2, FS_Union
<1>5. Cardinality(Units(S \cup {t})) = Cardinality(Units(S)) + Cardinality(Units({t})) - 0
  BY <1>1, <1>3, <1>4
<1>6. QED
  BY <1>2, <1>5, UnitsOfOne

LEMMA UnitsGiven ==
  ASSUME NEW S \in SUBSET Tasks, NEW t \in S
  PROVE  /\ Cardinality(Units(S \ {t})) = Cardinality(Units(S)) - Amount(t)
         /\ Cardinality(Units(S \ {t})) \in Nat
<1>1. S \ {t} \in SUBSET Tasks /\ t \notin S \ {t} /\ (S \ {t}) \cup {t} = S /\ t \in Tasks
  OBVIOUS
<1>2. Cardinality(Units(S)) = Cardinality(Units(S \ {t})) + Amount(t)
  BY <1>1, UnitsTaken
<1>3. QED
  BY <1>1, <1>2, UnitsFinite, AmountIs

LEMMA NoUnits == Cardinality(Units({})) = 0
<1>1. Units({}) = {}
  BY DEF Units
<1>2. QED
  BY <1>1, FS_EmptySet

-----------------------------------------------------------------------------
(* The tickets of Resources.                                               *)

LEMMA TicketAdded ==
  ASSUME NEW q \in Seq(Tasks), IsInjective(q), NEW t \in Tasks, t \notin ToSet(q)
  PROVE  Append(q, t) \in Seq(Tasks) /\ IsInjective(Append(q, t)) /\ ToSet(Append(q, t)) = ToSet(q) \cup {t}
<1> DEFINE p == Append(q, t)
           n == Len(q)
<1>1. n \in Nat /\ DOMAIN q = 1 .. n /\ DOMAIN p = 1 .. n + 1 /\ p[n + 1] = t /\ \A k \in 1 .. n : p[k] = q[k]
  OBVIOUS
<1>2. p \in Seq(Tasks)
  OBVIOUS
<1> HIDE DEF p, n
<1>3. ToSet(p) \subseteq ToSet(q) \cup {t}
  <2> SUFFICES ASSUME NEW k \in DOMAIN p PROVE p[k] \in ToSet(q) \cup {t}
    BY DEF ToSet
  <2>1. k = n + 1 \/ k \in 1 .. n
    BY <1>1
  <2>2. QED
    BY <1>1, <2>1 DEF ToSet
<1>4. ToSet(q) \cup {t} \subseteq ToSet(p)
  <2>1. n + 1 \in 1 .. n + 1 /\ \A k \in 1 .. n : k \in 1 .. n + 1
    BY <1>1
  <2>2. QED
    BY <1>1, <2>1 DEF ToSet
<1>5. IsInjective(p)
  <2> SUFFICES ASSUME NEW k \in DOMAIN p, NEW l \in DOMAIN p, p[k] = p[l] PROVE k = l
    BY DEF IsInjective
  <2>1. (k = n + 1 \/ k \in 1 .. n) /\ (l = n + 1 \/ l \in 1 .. n)
    BY <1>1
  <2>2. \A j \in 1 .. n : q[j] # t
    BY <1>1 DEF ToSet
  <2>3. QED
    BY <1>1, <2>1, <2>2 DEF IsInjective
<1>6. QED
  BY <1>2, <1>3, <1>4, <1>5 DEF p

LEMMA ConcatIs ==
  ASSUME NEW a \in Seq(Tasks), NEW b \in Seq(Tasks)
  PROVE  /\ a \o b \in Seq(Tasks) /\ Len(a \o b) = Len(a) + Len(b) /\ Len(a) \in Nat /\ Len(b) \in Nat
         /\ \A k \in 1 .. Len(a) : (a \o b)[k] = a[k]
         /\ \A k \in 1 .. Len(b) : (a \o b)[Len(a) + k] = b[k]
OBVIOUS

(* popleft of the first ticket, and remove of any other.                   *)
LEMMA TicketRemoved ==
  ASSUME NEW q \in Seq(Tasks), IsInjective(q), NEW i \in DOMAIN q
  PROVE  RemoveAt(q, i) \in Seq(Tasks) /\ IsInjective(RemoveAt(q, i)) /\ ToSet(RemoveAt(q, i)) = ToSet(q) \ { q[i] }
<1> DEFINE p == RemoveAt(q, i)
           n == Len(q)
<1>1. n \in Nat \ {0} /\ DOMAIN q = 1 .. n /\ i \in 1 .. n
  OBVIOUS
<1>2. p \in Seq(Tasks) /\ Len(p) = n - 1 /\ \A k \in 1 .. n - 1 : p[k] = IF k < i THEN q[k] ELSE q[k + 1]
  <2> DEFINE a == SubSeq(q, 1, i - 1)
             b == SubSeq(q, i + 1, n)
  <2>1. a \in Seq(Tasks) /\ Len(a) = i - 1 /\ \A k \in 1 .. i - 1 : a[k] = q[k]
    BY <1>1
  <2>2. b \in Seq(Tasks) /\ Len(b) = n - i /\ \A k \in 1 .. n - i : b[k] = q[i + k]
    BY <1>1
  <2>3. p = a \o b
    BY DEF RemoveAt
  <2> HIDE DEF a, b, p, n
  <2>4. p \in Seq(Tasks) /\ Len(p) = n - 1
    <3>1. p \in Seq(Tasks) /\ Len(p) = Len(a) + Len(b)
      BY <2>1, <2>2, <2>3, ConcatIs
    <3>2. QED
      BY <1>1, <2>1, <2>2, <3>1
  <2>5. ASSUME NEW k \in 1 .. n - 1 PROVE p[k] = IF k < i THEN q[k] ELSE q[k + 1]
    <3>1. CASE k < i
      <4>1. k \in 1 .. i - 1 /\ k \in 1 .. Len(a)
        BY <1>1, <2>1, <3>1
      <4>2. p[k] = a[k]
        BY <2>1, <2>2, <2>3, <4>1, ConcatIs
      <4>3. QED
        BY <2>1, <3>1, <4>1, <4>2
    <3>2. CASE ~(k < i)
      <4> DEFINE l == k - (i - 1)
      <4>1. l \in 1 .. n - i /\ i + l = k + 1 /\ (i - 1) + l = k
        BY <1>1, <3>2
      <4> HIDE DEF l
      <4>2. l \in 1 .. Len(b)
        BY <2>2, <4>1
      <4>3. (a \o b)[Len(a) + l] = b[l]
        BY <2>1, <2>2, <4>2, ConcatIs
      <4>4. p[k] = q[k + 1]
        BY <2>1, <2>2, <2>3, <4>1, <4>3
      <4>5. QED
        BY <3>2, <4>4
    <3>3. QED
      BY <3>1, <3>2
  <2>6. QED
    BY <2>4, <2>5
<1> HIDE DEF p, n
<1>3. DOMAIN p = 1 .. n - 1
  BY <1>1, <1>2
<1> DEFINE old(k) == IF k < i THEN k ELSE k + 1
<1>4. \A k \in 1 .. n - 1 : old(k) \in 1 .. n /\ old(k) # i /\ p[k] = q[old(k)]
  BY <1>1, <1>2
<1>5. \A k, l \in 1 .. n - 1 : old(k) = old(l) => k = l
  BY <1>1
<1>6. \A j \in 1 .. n : j # i => \E k \in 1 .. n - 1 : old(k) = j
  <2> SUFFICES ASSUME NEW j \in 1 .. n, j # i PROVE \E k \in 1 .. n - 1 : old(k) = j
    OBVIOUS
  <2>1. CASE j < i
    <3>1. j \in 1 .. n - 1 /\ old(j) = j
      BY <1>1, <2>1
    <3>2. QED
      BY <3>1
  <2>2. CASE ~(j < i)
    <3>1. j - 1 \in 1 .. n - 1 /\ old(j - 1) = j
      BY <1>1, <2>2
    <3>2. QED
      BY <3>1
  <2>3. QED
    BY <2>1, <2>2
<1> HIDE DEF old
<1>7. IsInjective(p)
  BY <1>1, <1>3, <1>4, <1>5 DEF IsInjective
<1>8. ToSet(p) = ToSet(q) \ { q[i] }
  <2>1. ToSet(p) \subseteq ToSet(q) \ { q[i] }
    BY <1>1, <1>3, <1>4 DEF IsInjective, ToSet
  <2>2. ToSet(q) \ { q[i] } \subseteq ToSet(p)
    <3> SUFFICES ASSUME NEW j \in 1 .. n, q[j] # q[i] PROVE q[j] \in ToSet(p)
      BY <1>1 DEF ToSet
    <3>1. PICK k \in 1 .. n - 1 : old(k) = j
      BY <1>6
    <3>2. p[k] = q[j] /\ k \in DOMAIN p
      BY <1>3, <1>4, <3>1
    <3>3. QED
      BY <3>2 DEF ToSet
  <2>3. QED
    BY <2>1, <2>2
<1>9. QED
  BY <1>2, <1>7, <1>8 DEF p

LEMMA FirstTicket ==
  ASSUME NEW q \in Seq(Tasks), q # << >>
  PROVE  Tail(q) = RemoveAt(q, 1) /\ 1 \in DOMAIN q
<1>1. 1 \in DOMAIN q /\ Len(q) \in Nat \ {0}
  OBVIOUS
<1>2. SubSeq(q, 1, 1 - 1) = << >> /\ SubSeq(q, 1 + 1, Len(q)) = Tail(q)
  BY <1>1
<1>3. << >> \o Tail(q) = Tail(q) /\ Tail(q) \in Seq(Tasks)
  BY <1>1
<1>4. QED
  BY <1>1, <1>2, <1>3 DEF RemoveAt

-----------------------------------------------------------------------------
(* One thread moves.                                                       *)

Holders == { "lock", "build", "reference", "empty" }

LEMMA PlacesMove ==
  ASSUME CorpusTypes, NEW t \in Tasks, NEW f \in FutureShape, future' = [ future EXCEPT ![t] = f ]
  PROVE  /\ future' \in [ Tasks -> FutureShape ] /\ future'[t] = f /\ \A u \in Tasks : u # t => future'[u] = future[u]
         /\ Holding' = IF f.at \in Holders THEN Holding \cup {t} ELSE Holding \ {t}
         /\ { u \in Tasks : AtW(u, "build") }' =
              IF f.at = "build" THEN { u \in Tasks : AtW(u, "build") } \cup {t} ELSE { u \in Tasks : AtW(u, "build") } \ {t}
         /\ { u \in Tasks : AtW(u, "ticket") }' =
              IF f.at = "ticket" THEN { u \in Tasks : AtW(u, "ticket") } \cup {t} ELSE { u \in Tasks : AtW(u, "ticket") } \ {t}
<1>1. future' \in [ Tasks -> FutureShape ] /\ future'[t] = f /\ \A u \in Tasks : u # t => future'[u] = future[u]
  BY DEF CorpusTypes
<1>2. QED
  BY <1>1 DEF Holding, Holders, AtW

(* A thread that stays with, or without, the memory, the lock or a ticket. *)
LEMMA AccountStays ==
  ASSUME CorpusTypes, AccountInv, NEW t \in Tasks, NEW f \in FutureShape, future' = [ future EXCEPT ![t] = f ],
         UNCHANGED << queue, used, builder >>,
         f.at \in Holders <=> future[t].at \in Holders, f.at # "build", future[t].at # "build",
         f.at # "ticket", future[t].at # "ticket"
  PROVE  AccountInv'
<1>1. Holding' = Holding
  BY PlacesMove DEF Holding, Holders
<1>2. /\ { u \in Tasks : AtW(u, "build") }' = { u \in Tasks : AtW(u, "build") }
      /\ { u \in Tasks : AtW(u, "ticket") }' = { u \in Tasks : AtW(u, "ticket") }
  BY PlacesMove DEF AtW
<1>3. Cardinality(Units(Holding))' = Cardinality(Units(Holding))
  BY <1>1 DEF Units, Amount
<1>4. ToSet(queue)' = ToSet(queue) /\ IsInjective(queue)'
  BY DEF AccountInv
<1>5. QED
  BY <1>2, <1>3, <1>4 DEF AccountInv

(* The step of a thread that runs.                                         *)
LEMMA ThreadMoves ==
  ASSUME CorpusInv, NEW t \in Tasks, NEW f \in FutureShape, future' = [ future EXCEPT ![t] = f ],
         UNCHANGED << control, stop, results, catalog, cards >>,
         future[t].at \in Running, f.at \in Running \cup { "ready" },
         f.status = "passed" => Proven(f), f.at = "empty" => f.ref = 1,
         f.at \in { "reference", "empty" } => Image(t) \in images',
         \A u \in Tasks : u # t /\ future[u].at \in { "reference", "empty" } => Image(u) \in images',
         queue' \in Seq(Tasks), used' \in Nat, AccountInv'
  PROVE  CorpusInv'
<1>1. future' \in [ Tasks -> FutureShape ] /\ future'[t] = f /\ \A u \in Tasks : u # t => future'[u] = future[u]
  BY PlacesMove DEF CorpusInv
<1>2. CorpusTypes'
  BY <1>1 DEF CorpusInv, CorpusTypes
<1>3. ControlInv'
  <2>1. control.at # "off" /\ ~Reconciles
    BY DEF CorpusInv, ControlInv, Running, Quiet
  <2>2. QED
    BY <2>1 DEF ControlInv, Reconciles
<1>4. VerdictInv'
  <2> SUFFICES ASSUME NEW u \in Tasks
               PROVE  /\ results[u].status = "passed" => Proven(results[u])
                      /\ future'[u].status = "passed" => Proven(future'[u])
                      /\ future'[u].at = "empty" => future'[u].ref = 1
                      /\ future'[u].at \in Running \cup { "pending", "ready" } => results[u].status # "passed"
                      /\ future'[u].at \in { "reference", "empty" } => Image(u) \in images'
    BY DEF VerdictInv, Proven, Image
  <2>1. VerdictInv
    BY DEF CorpusInv
  <2>2. CASE u = t
    BY <1>1, <2>1, <2>2 DEF VerdictInv, Proven
  <2>3. CASE u # t
    BY <1>1, <2>1, <2>3 DEF VerdictInv
  <2>4. QED
    BY <2>2, <2>3
<1>5. ListedInv'
  BY DEF CorpusInv, ListedInv, Passed
<1>6. QED
  BY <1>2, <1>3, <1>4, <1>5 DEF CorpusInv

(* The way out of a validation that holds memory.                          *)
LEMMA LeaveMoves ==
  ASSUME CorpusInv, NEW t \in Tasks, NEW r \in FutureShape, Leave(t, r),
         future[t].at \in Holders, builder' = builder \ {t},
         UNCHANGED << control, queue, stop, images, results, catalog, cards >>,
         r.status = "passed" => Proven(r)
  PROVE  CorpusInv'
<1> DEFINE f == [ r EXCEPT !.at = "clean" ]
<1>1. f \in FutureShape /\ f.at = "clean" /\ f.status = r.status /\ f.ref = r.ref /\ f.empty = r.empty
  BY DEF FutureShape, Running
<1>2. future' = [ future EXCEPT ![t] = f ] /\ used' = used - Amount(t) /\ CorpusTypes /\ AccountInv /\ VerdictInv
  BY DEF Leave, Released, CorpusInv
<1> HIDE DEF f
<1>3. /\ Holding' = Holding \ {t} /\ t \in Holding /\ Holding \in SUBSET Tasks
      /\ { u \in Tasks : AtW(u, "build") }' = { u \in Tasks : AtW(u, "build") } \ {t}
      /\ { u \in Tasks : AtW(u, "ticket") }' = { u \in Tasks : AtW(u, "ticket") } \ {t}
      /\ t \notin { u \in Tasks : AtW(u, "ticket") }
  BY <1>1, <1>2, PlacesMove DEF Holding, Holders, AtW
<1>4. used' = Cardinality(Units(Holding \ {t})) /\ used' \in Nat /\ used' <= Capacity
  <2>1. used = Cardinality(Units(Holding)) /\ used <= Capacity /\ used \in Nat
    BY <1>2 DEF AccountInv, CorpusTypes
  <2>2. /\ Cardinality(Units(Holding \ {t})) = Cardinality(Units(Holding)) - Amount(t)
        /\ Cardinality(Units(Holding \ {t})) \in Nat
    BY <1>3, UnitsGiven
  <2>3. Amount(t) \in Nat /\ Capacity \in Nat
    BY AmountIs
  <2> DEFINE x == Cardinality(Units(Holding \ {t}))
  <2>4. used' = x
    BY <1>2, <2>1, <2>2
  <2>5. x <= Capacity
    BY <2>1, <2>2, <2>3
  <2>6. QED
    BY <2>2, <2>4, <2>5
<1>5. Cardinality(Units(Holding))' = Cardinality(Units(Holding \ {t}))
  BY <1>3 DEF Units, Amount
<1>6. ToSet(queue)' = ToSet(queue) /\ IsInjective(queue)'
  BY <1>2 DEF AccountInv
<1>7. AccountInv'
  BY <1>2, <1>3, <1>4, <1>5, <1>6 DEF AccountInv
<1>8. /\ future[t].at \in Running /\ f.at \in Running /\ f.at \notin { "reference", "empty" } /\ queue' \in Seq(Tasks)
      /\ (f.status = "passed" => Proven(f))
      /\ \A u \in Tasks : future[u].at \in { "reference", "empty" } => Image(u) \in images'
  BY <1>1, <1>2 DEF Holders, Running, Proven, VerdictInv, CorpusTypes
<1>9. QED
  BY <1>1, <1>2, <1>4, <1>7, <1>8, ThreadMoves

LEMMA BeginMoves ==
  ASSUME CorpusInv, NEW t \in Tasks, Begin(t)
  PROVE  CorpusInv'
<1> DEFINE w == future[t]
<1>1. /\ w.at = "queued" /\ w \in FutureShape /\ UNCHANGED << control, used, builder, stop, images, results, catalog, cards >>
      /\ CorpusTypes /\ AccountInv /\ VerdictInv /\ queue \in Seq(Tasks) /\ used \in Nat
  BY DEF CorpusInv, CorpusTypes, Begin, AtW
<1>2. CASE future' = [ future EXCEPT ![t].at = "ready", ![t].status = "blocked" ] /\ UNCHANGED queue
  <2> DEFINE f == [ w EXCEPT !.at = "ready", !.status = "blocked" ]
  <2>1. f \in FutureShape /\ f.at = "ready" /\ f.status = "blocked"
    BY <1>1 DEF FutureShape, Quiet, Statuses
  <2>2. future' = [ future EXCEPT ![t] = f ]
    BY <1>1, <1>2 DEF CorpusTypes
  <2> HIDE DEF f
  <2>3. AccountInv'
    BY <1>1, <1>2, <2>1, <2>2, AccountStays DEF Holders
  <2>4. \A u \in Tasks : future[u].at \in { "reference", "empty" } => Image(u) \in images'
    BY <1>1 DEF VerdictInv
  <2>5. QED
    BY <1>1, <1>2, <2>1, <2>2, <2>3, <2>4, ThreadMoves DEF Running
<1>3. CASE future' = [ future EXCEPT ![t].at = "ticket" ] /\ queue' = Append(queue, t)
  <2> DEFINE f == [ w EXCEPT !.at = "ticket" ]
  <2>1. f \in FutureShape /\ f.at = "ticket" /\ f.status = w.status /\ f.ref = w.ref /\ f.empty = w.empty
    BY <1>1 DEF FutureShape, Running
  <2>2. future' = [ future EXCEPT ![t] = f ]
    BY <1>1, <1>3 DEF CorpusTypes
  <2> HIDE DEF f
  <2>3. /\ Holding' = Holding \ {t} /\ t \notin Holding
        /\ { u \in Tasks : AtW(u, "build") }' = { u \in Tasks : AtW(u, "build") } \ {t} /\ t \notin { u \in Tasks : AtW(u, "build") }
        /\ { u \in Tasks : AtW(u, "ticket") }' = { u \in Tasks : AtW(u, "ticket") } \cup {t} /\ t \notin { u \in Tasks : AtW(u, "ticket") }
    BY <1>1, <2>1, <2>2, PlacesMove DEF Holding, Holders, AtW
  <2>4. queue' \in Seq(Tasks) /\ IsInjective(queue') /\ ToSet(queue') = ToSet(queue) \cup {t}
    BY <1>1, <1>3, <2>3, TicketAdded DEF AccountInv
  <2>5. Cardinality(Units(Holding))' = Cardinality(Units(Holding)) /\ ToSet(queue)' = ToSet(queue') /\ IsInjective(queue)' = IsInjective(queue')
    <3>1. Holding' = Holding
      BY <2>3
    <3>2. QED
      BY <3>1 DEF Units, Amount, ToSet, IsInjective
  <2>6. AccountInv'
    BY <1>1, <2>3, <2>4, <2>5 DEF AccountInv
  <2>7. /\ \A u \in Tasks : future[u].at \in { "reference", "empty" } => Image(u) \in images'
        /\ (f.status = "passed" => Proven(f))
    BY <1>1, <2>1 DEF VerdictInv, Proven
  <2>8. QED
    BY <1>1, <1>3, <2>1, <2>2, <2>4, <2>6, <2>7, ThreadMoves DEF Running
<1>4. QED
  BY <1>2, <1>3 DEF Begin

LEMMA AcquireMoves ==
  ASSUME CorpusInv, NEW t \in Tasks, Acquire(t)
  PROVE  CorpusInv'
<1> DEFINE w == future[t]
           f == [ w EXCEPT !.at = "lock" ]
<1>1. /\ w.at = "ticket" /\ w \in FutureShape /\ UNCHANGED << control, builder, stop, images, results, catalog, cards >>
      /\ CorpusTypes /\ AccountInv /\ VerdictInv /\ queue \in Seq(Tasks) /\ used \in Nat
      /\ queue' = Tail(queue) /\ used' = used + Amount(t) /\ queue[1] = t /\ used + Amount(t) <= Capacity
      /\ future' = [ future EXCEPT ![t].at = "lock" ]
  BY DEF CorpusInv, CorpusTypes, Acquire, AtW, Fits
<1>2. f \in FutureShape /\ f.at = "lock" /\ f.status = w.status /\ f.ref = w.ref /\ f.empty = w.empty
  BY <1>1 DEF FutureShape, Running
<1>3. future' = [ future EXCEPT ![t] = f ]
  BY <1>1 DEF CorpusTypes
<1> HIDE DEF f
<1>4. /\ Holding' = Holding \cup {t} /\ t \notin Holding /\ Holding \in SUBSET Tasks
      /\ { u \in Tasks : AtW(u, "build") }' = { u \in Tasks : AtW(u, "build") } \ {t} /\ t \notin { u \in Tasks : AtW(u, "build") }
      /\ { u \in Tasks : AtW(u, "ticket") }' = { u \in Tasks : AtW(u, "ticket") } \ {t} /\ t \in { u \in Tasks : AtW(u, "ticket") }
  <2>1. t \notin Holding /\ t \notin { u \in Tasks : AtW(u, "build") } /\ t \in { u \in Tasks : AtW(u, "ticket") }
    BY <1>1 DEF Holding, AtW
  <2>2. Holding \in SUBSET Tasks
    BY DEF Holding
  <2>3. QED
    BY <1>1, <1>2, <1>3, <2>1, <2>2, PlacesMove DEF Holders
<1>5. queue' \in Seq(Tasks) /\ IsInjective(queue') /\ ToSet(queue') = ToSet(queue) \ {t}
  <2>1. queue # << >>
    BY <1>1, <1>4 DEF AccountInv, ToSet
  <2>2. queue' = RemoveAt(queue, 1) /\ 1 \in DOMAIN queue
    BY <1>1, <2>1, FirstTicket
  <2>3. QED
    BY <1>1, <2>2, TicketRemoved DEF AccountInv
<1>6. Cardinality(Units(Holding))' = Cardinality(Units(Holding \cup {t})) /\ ToSet(queue)' = ToSet(queue') /\ IsInjective(queue)' = IsInjective(queue')
  BY <1>4 DEF Units, Amount, ToSet, IsInjective
<1>7. used' = Cardinality(Units(Holding \cup {t})) /\ used' <= Capacity /\ used' \in Nat
  <2>1. Cardinality(Units(Holding \cup {t})) = Cardinality(Units(Holding)) + Amount(t)
    BY <1>4, UnitsTaken
  <2>2. QED
    BY <1>1, <2>1, AmountIs DEF AccountInv
<1>8. AccountInv'
  BY <1>1, <1>4, <1>5, <1>6, <1>7 DEF AccountInv
<1>9. /\ \A u \in Tasks : future[u].at \in { "reference", "empty" } => Image(u) \in images'
      /\ (f.status = "passed" => Proven(f))
  BY <1>1, <1>2 DEF VerdictInv, Proven
<1>10. QED
  BY <1>1, <1>2, <1>3, <1>5, <1>7, <1>8, <1>9, ThreadMoves DEF Running

LEMMA WokenMoves ==
  ASSUME CorpusInv, NEW t \in Tasks, Woken(t)
  PROVE  CorpusInv'
<1> DEFINE w == future[t]
           f == [ w EXCEPT !.at = "clean", !.status = "interrupted" ]
<1>1. /\ w.at = "ticket" /\ w \in FutureShape /\ UNCHANGED << control, used, builder, stop, images, results, catalog, cards >>
      /\ CorpusTypes /\ AccountInv /\ VerdictInv /\ queue \in Seq(Tasks) /\ used \in Nat
      /\ future' = [ future EXCEPT ![t].at = "clean", ![t].status = "interrupted" ]
  BY DEF CorpusInv, CorpusTypes, Woken, AtW
<1>2. f \in FutureShape /\ f.at = "clean" /\ f.status = "interrupted"
  BY <1>1 DEF FutureShape, Running, Statuses
<1>3. future' = [ future EXCEPT ![t] = f ]
  BY <1>1 DEF CorpusTypes
<1> HIDE DEF f
<1>4. /\ Holding' = Holding \ {t} /\ t \notin Holding
      /\ { u \in Tasks : AtW(u, "build") }' = { u \in Tasks : AtW(u, "build") } \ {t} /\ t \notin { u \in Tasks : AtW(u, "build") }
      /\ { u \in Tasks : AtW(u, "ticket") }' = { u \in Tasks : AtW(u, "ticket") } \ {t}
  BY <1>1, <1>2, <1>3, PlacesMove DEF Holding, Holders, AtW
<1>5. queue' \in Seq(Tasks) /\ IsInjective(queue') /\ ToSet(queue') = ToSet(queue) \ {t}
  <2>1. PICK i \in DOMAIN queue : queue[i] = t /\ queue' = RemoveAt(queue, i)
    BY DEF Woken
  <2>2. QED
    BY <1>1, <2>1, TicketRemoved DEF AccountInv
<1>6. Cardinality(Units(Holding))' = Cardinality(Units(Holding)) /\ ToSet(queue)' = ToSet(queue') /\ IsInjective(queue)' = IsInjective(queue')
  <2>1. Holding' = Holding
    BY <1>4
  <2>2. QED
    BY <2>1 DEF Units, Amount, ToSet, IsInjective
<1>7. AccountInv'
  BY <1>1, <1>4, <1>5, <1>6 DEF AccountInv
<1>8. \A u \in Tasks : future[u].at \in { "reference", "empty" } => Image(u) \in images'
  BY <1>1 DEF VerdictInv
<1>9. QED
  BY <1>1, <1>2, <1>3, <1>5, <1>7, <1>8, ThreadMoves DEF Running

LEMMA LockMoves ==
  ASSUME CorpusInv, NEW t \in Tasks, Lock(t)
  PROVE  CorpusInv'
<1> DEFINE w == future[t]
           f == [ w EXCEPT !.at = "build", !.shown = TRUE ]
<1>1. /\ w.at = "lock" /\ w \in FutureShape /\ UNCHANGED << control, queue, used, stop, images, results, catalog, cards >>
      /\ CorpusTypes /\ AccountInv /\ VerdictInv /\ queue \in Seq(Tasks) /\ used \in Nat /\ builder = {} /\ builder' = {t}
      /\ future' = [ future EXCEPT ![t].at = "build", ![t].shown = TRUE ]
  BY DEF CorpusInv, CorpusTypes, Lock, AtW
<1>2. f \in FutureShape /\ f.at = "build" /\ f.status = w.status /\ f.ref = w.ref /\ f.empty = w.empty
  BY <1>1 DEF FutureShape, Running
<1>3. future' = [ future EXCEPT ![t] = f ]
  BY <1>1 DEF CorpusTypes
<1> HIDE DEF f
<1>4. /\ Holding' = Holding \cup {t} /\ t \in Holding
      /\ { u \in Tasks : AtW(u, "build") }' = { u \in Tasks : AtW(u, "build") } \cup {t}
      /\ { u \in Tasks : AtW(u, "ticket") }' = { u \in Tasks : AtW(u, "ticket") } \ {t} /\ t \notin { u \in Tasks : AtW(u, "ticket") }
  BY <1>1, <1>2, <1>3, PlacesMove DEF Holding, Holders, AtW
<1>5. Cardinality(Units(Holding))' = Cardinality(Units(Holding)) /\ ToSet(queue)' = ToSet(queue) /\ IsInjective(queue)' = IsInjective(queue)
  <2>1. Holding' = Holding
    BY <1>4
  <2>2. QED
    BY <1>1, <2>1 DEF Units, Amount, ToSet, IsInjective
<1>6. AccountInv'
  BY <1>1, <1>4, <1>5 DEF AccountInv
<1>7. /\ \A u \in Tasks : future[u].at \in { "reference", "empty" } => Image(u) \in images'
      /\ (f.status = "passed" => Proven(f))
  BY <1>1, <1>2 DEF VerdictInv, Proven
<1>8. QED
  BY <1>1, <1>2, <1>3, <1>6, <1>7, ThreadMoves DEF Running

LEMMA BuildMoves ==
  ASSUME CorpusInv, NEW t \in Tasks, Build(t)
  PROVE  CorpusInv'
<1> DEFINE w == future[t]
<1>1. /\ w.at = "build" /\ w \in FutureShape /\ UNCHANGED << control, queue, stop, results, catalog, cards >>
      /\ CorpusTypes /\ AccountInv /\ VerdictInv /\ queue \in Seq(Tasks) /\ used \in Nat /\ builder' = {}
  BY DEF CorpusInv, CorpusTypes, Build, AtW
<1>2. builder = {t}
  BY <1>1 DEF AccountInv, AtW
<1>3. CASE images' = images \union { Image(t) } /\ future' = [ future EXCEPT ![t].at = "reference" ] /\ UNCHANGED used
  <2> DEFINE f == [ w EXCEPT !.at = "reference" ]
  <2>1. f \in FutureShape /\ f.at = "reference" /\ f.status = w.status /\ f.ref = w.ref /\ f.empty = w.empty
    BY <1>1 DEF FutureShape, Running
  <2>2. future' = [ future EXCEPT ![t] = f ]
    BY <1>1, <1>3 DEF CorpusTypes
  <2> HIDE DEF f
  <2>3. /\ Holding' = Holding \cup {t} /\ t \in Holding
        /\ { u \in Tasks : AtW(u, "build") }' = { u \in Tasks : AtW(u, "build") } \ {t}
        /\ { u \in Tasks : AtW(u, "ticket") }' = { u \in Tasks : AtW(u, "ticket") } \ {t} /\ t \notin { u \in Tasks : AtW(u, "ticket") }
    BY <1>1, <2>1, <2>2, PlacesMove DEF Holding, Holders, AtW
  <2>4. Cardinality(Units(Holding))' = Cardinality(Units(Holding)) /\ ToSet(queue)' = ToSet(queue) /\ IsInjective(queue)' = IsInjective(queue)
    <3>1. Holding' = Holding
      BY <2>3
    <3>2. QED
      BY <1>1, <3>1 DEF Units, Amount, ToSet, IsInjective
  <2>5. AccountInv'
    BY <1>1, <1>2, <1>3, <2>3, <2>4 DEF AccountInv
  <2>6. /\ \A u \in Tasks : future[u].at \in { "reference", "empty" } => Image(u) \in images'
        /\ (f.status = "passed" => Proven(f)) /\ Image(t) \in images'
    BY <1>1, <1>3, <2>1 DEF VerdictInv, Proven
  <2>7. QED
    BY <1>1, <1>3, <2>1, <2>2, <2>5, <2>6, ThreadMoves DEF Running
<1>4. CASE (\E s \in Ends : Leave(t, [ w EXCEPT !.status = s ])) /\ UNCHANGED images
  <2>1. PICK s \in Ends : Leave(t, [ w EXCEPT !.status = s ])
    BY <1>4
  <2> DEFINE r == [ w EXCEPT !.status = s ]
  <2>2. s \in Statuses /\ s # "passed"
    BY <2>1 DEF Ends, Statuses
  <2>3. r \in FutureShape /\ r.status # "passed"
    BY <1>1, <2>2 DEF FutureShape
  <2>4. builder' = builder \ {t} /\ w.at \in Holders
    BY <1>1, <1>2 DEF Holders
  <2> HIDE DEF r
  <2>5. Leave(t, r)
    BY <2>1 DEF r
  <2>6. QED
    BY <1>1, <1>4, <2>3, <2>4, <2>5, LeaveMoves
<1>5. QED
  BY <1>3, <1>4 DEF Build

(* The two cases leave the lock alone.                                     *)
LEMMA CaseLeaves ==
  ASSUME CorpusInv, NEW t \in Tasks, future[t].at \in { "reference", "empty" }, NEW r \in FutureShape, Leave(t, r),
         UNCHANGED << control, queue, builder, stop, images, results, catalog, cards >>, r.status = "passed" => Proven(r)
  PROVE  CorpusInv'
<1>1. builder' = builder \ {t} /\ future[t].at \in Holders
  BY DEF CorpusInv, AccountInv, AtW, Holders
<1>2. QED
  BY <1>1, LeaveMoves

LEMMA ReferenceMoves ==
  ASSUME CorpusInv, NEW t \in Tasks, Reference(t)
  PROVE  CorpusInv'
<1> DEFINE w == future[t]
<1>1. /\ w.at = "reference" /\ w \in FutureShape
      /\ UNCHANGED << control, queue, builder, stop, images, results, catalog, cards >>
      /\ CorpusTypes /\ AccountInv /\ VerdictInv /\ queue \in Seq(Tasks) /\ used \in Nat
  BY DEF CorpusInv, CorpusTypes, Reference, AtW
<1>2. CASE future' = [ future EXCEPT ![t].at = "empty", ![t].ref = 1 ] /\ UNCHANGED used
  <2> DEFINE f == [ w EXCEPT !.at = "empty", !.ref = 1 ]
  <2>1. f \in FutureShape /\ f.at = "empty" /\ f.status = w.status /\ f.ref = 1 /\ f.empty = w.empty
    BY <1>1 DEF FutureShape, Running, Rewards
  <2>2. future' = [ future EXCEPT ![t] = f ]
    BY <1>1, <1>2 DEF CorpusTypes
  <2> HIDE DEF f
  <2>3. AccountInv'
    BY <1>1, <1>2, <2>1, <2>2, AccountStays DEF Holders
  <2>4. /\ \A u \in Tasks : future[u].at \in { "reference", "empty" } => Image(u) \in images'
        /\ (f.status = "passed" => Proven(f)) /\ Image(t) \in images'
    BY <1>1, <2>1 DEF VerdictInv, Proven
  <2>5. QED
    BY <1>1, <1>2, <2>1, <2>2, <2>3, <2>4, ThreadMoves DEF Running
<1>3. CASE Leave(t, [ w EXCEPT !.ref = 0, !.status = "failed" ])
  <2> DEFINE r == [ w EXCEPT !.ref = 0, !.status = "failed" ]
  <2>1. r \in FutureShape /\ r.status # "passed"
    BY <1>1 DEF FutureShape, Statuses, Rewards
  <2> HIDE DEF r
  <2>2. Leave(t, r)
    BY <1>3 DEF r
  <2>3. QED
    BY <1>1, <2>1, <2>2, CaseLeaves
<1>4. CASE \E s \in Ends : Leave(t, [ w EXCEPT !.status = s ])
  <2>1. PICK s \in Ends : Leave(t, [ w EXCEPT !.status = s ])
    BY <1>4
  <2> DEFINE r == [ w EXCEPT !.status = s ]
  <2>2. s \in Statuses /\ s # "passed"
    BY <2>1 DEF Ends, Statuses
  <2>3. r \in FutureShape /\ r.status # "passed"
    BY <1>1, <2>2 DEF FutureShape
  <2> HIDE DEF r
  <2>4. Leave(t, r)
    BY <2>1 DEF r
  <2>5. QED
    BY <1>1, <2>3, <2>4, CaseLeaves
<1>5. QED
  BY <1>2, <1>3, <1>4 DEF Reference

LEMMA EmptyMoves ==
  ASSUME CorpusInv, NEW t \in Tasks, Empty(t)
  PROVE  CorpusInv'
<1> DEFINE w == future[t]
<1>1. /\ w.at = "empty" /\ w \in FutureShape /\ w.ref = 1
      /\ UNCHANGED << control, queue, builder, stop, images, results, catalog, cards >>
  BY DEF CorpusInv, CorpusTypes, VerdictInv, Empty, AtW
<1>2. CASE \E reward \in {0, 1} : Leave(t, [ w EXCEPT !.empty = reward, !.status = Verdict(reward) ])
  <2>1. PICK reward \in {0, 1} : Leave(t, [ w EXCEPT !.empty = reward, !.status = Verdict(reward) ])
    BY <1>2
  <2> DEFINE v == Verdict(reward)
             r == [ w EXCEPT !.empty = reward, !.status = v ]
  <2>2. v \in Statuses /\ (v = "passed" => reward = 0)
    BY DEF Verdict, Statuses
  <2> HIDE DEF v
  <2>3. r \in FutureShape /\ r.status = v /\ r.empty = reward /\ r.ref = 1
    BY <1>1, <2>2 DEF FutureShape, Rewards
  <2> HIDE DEF r
  <2>4. Leave(t, r)
    BY <2>1 DEF r, v
  <2>5. r.status = "passed" => Proven(r)
    BY <2>2, <2>3 DEF Proven
  <2>6. QED
    BY <1>1, <2>3, <2>4, <2>5, CaseLeaves
<1>3. CASE \E s \in Ends : Leave(t, [ w EXCEPT !.status = s ])
  <2>1. PICK s \in Ends : Leave(t, [ w EXCEPT !.status = s ])
    BY <1>3
  <2> DEFINE r == [ w EXCEPT !.status = s ]
  <2>2. s \in Statuses /\ s # "passed"
    BY <2>1 DEF Ends, Statuses
  <2>3. r \in FutureShape /\ r.status # "passed"
    BY <1>1, <2>2 DEF FutureShape
  <2> HIDE DEF r
  <2>4. Leave(t, r)
    BY <2>1 DEF r
  <2>5. QED
    BY <1>1, <2>3, <2>4, CaseLeaves
<1>4. QED
  BY <1>2, <1>3 DEF Empty

LEMMA ImagesDiffer ==
  ASSUME NEW t \in Tasks, NEW u \in Tasks, t # u, t \notin Shared
  PROVE  Image(t) # Image(u)
<1>1. << t >> # << u >> /\ << t >> # << >>
  OBVIOUS
<1>2. QED
  BY <1>1 DEF Image

LEMMA CleanMoves ==
  ASSUME CorpusInv, NEW t \in Tasks, Clean(t)
  PROVE  CorpusInv'
<1> DEFINE w == future[t]
<1>1. /\ w.at = "clean" /\ w \in FutureShape
      /\ UNCHANGED << control, queue, used, builder, stop, results, catalog, cards >>
      /\ CorpusTypes /\ AccountInv /\ VerdictInv /\ queue \in Seq(Tasks) /\ used \in Nat
  BY DEF CorpusInv, CorpusTypes, Clean, AtW
<1>2. \A u \in Tasks : u # t /\ future[u].at \in { "reference", "empty" } => Image(u) \in images'
  <2> SUFFICES ASSUME NEW u \in Tasks, u # t, future[u].at \in { "reference", "empty" } PROVE Image(u) \in images'
    OBVIOUS
  <2>1. Image(u) \in images
    BY <1>1 DEF VerdictInv
  <2>2. images' = images \/ (t \notin Shared /\ images' = images \ { Image(t) })
    BY DEF Clean
  <2>3. QED
    BY <2>1, <2>2, ImagesDiffer
<1>3. CASE future' = [ future EXCEPT ![t].at = "ready", ![t].shown = FALSE ]
  <2> DEFINE f == [ w EXCEPT !.at = "ready", !.shown = FALSE ]
  <2>1. f \in FutureShape /\ f.at = "ready" /\ f.status = w.status /\ f.ref = w.ref /\ f.empty = w.empty
    BY <1>1 DEF FutureShape, Quiet
  <2>2. future' = [ future EXCEPT ![t] = f ]
    BY <1>1, <1>3 DEF CorpusTypes
  <2> HIDE DEF f
  <2>3. AccountInv'
    BY <1>1, <2>1, <2>2, AccountStays DEF Holders
  <2>4. f.status = "passed" => Proven(f)
    BY <1>1, <2>1 DEF VerdictInv, Proven
  <2>5. QED
    BY <1>1, <1>2, <2>1, <2>2, <2>3, <2>4, ThreadMoves DEF Running
<1>4. CASE future' = [ future EXCEPT ![t].at = "ready", ![t].status = "failed", ![t].ref = 9, ![t].empty = 9 ]
  <2> DEFINE f == [ w EXCEPT !.at = "ready", !.status = "failed", !.ref = 9, !.empty = 9 ]
  <2>1. f \in FutureShape /\ f.at = "ready" /\ f.status = "failed"
    BY <1>1 DEF FutureShape, Quiet, Statuses, Rewards
  <2>2. future' = [ future EXCEPT ![t] = f ]
    BY <1>1, <1>4 DEF CorpusTypes
  <2> HIDE DEF f
  <2>3. AccountInv'
    BY <1>1, <2>1, <2>2, AccountStays DEF Holders
  <2>5. QED
    BY <1>1, <1>2, <2>1, <2>2, <2>3, ThreadMoves DEF Running
<1>5. QED
  BY <1>3, <1>4 DEF Clean

LEMMA ThreadsCorpus ==
  ASSUME CorpusInv, NEW t \in Tasks, Thread(t)
  PROVE  CorpusInv'
BY BeginMoves, AcquireMoves, WokenMoves, LockMoves, BuildMoves, ReferenceMoves, EmptyMoves, CleanMoves DEF Thread

-----------------------------------------------------------------------------
(* The controller.                                                         *)

Resting == Quiet \cup { "queued" }

LEMMA AccountRests ==
  ASSUME CorpusInv, UNCHANGED << queue, used, builder >>,
         \A t \in Tasks : future'[t].at = future[t].at \/ (future[t].at \in Resting /\ future'[t].at \in Resting)
  PROVE  AccountInv'
<1>1. Holding' = Holding
  BY DEF Holding, Resting, Quiet
<1>2. /\ { u \in Tasks : AtW(u, "build") }' = { u \in Tasks : AtW(u, "build") }
      /\ { u \in Tasks : AtW(u, "ticket") }' = { u \in Tasks : AtW(u, "ticket") }
  BY DEF AtW, Resting, Quiet
<1>3. Cardinality(Units(Holding))' = Cardinality(Units(Holding)) /\ ToSet(queue)' = ToSet(queue) /\ IsInjective(queue)' = IsInjective(queue)
  BY <1>1 DEF Units, Amount, ToSet, IsInjective
<1>4. QED
  BY <1>2, <1>3 DEF CorpusInv, AccountInv

LEMMA ControlMoves ==
  ASSUME CorpusInv, UNCHANGED << future, queue, used, builder, images, results >>
  PROVE  AccountInv' /\ VerdictInv' /\ Passed' = Passed
<1>1. AccountInv'
  BY AccountRests
<1>2. VerdictInv'
  BY DEF CorpusInv, VerdictInv, Proven, Image
<1>3. QED
  BY <1>1, <1>2 DEF Passed

LEMMA PublishesIs ==
  ASSUME control \in ControlShape, NEW S \in SUBSET Tasks, NEW p \in { "submit", "check" }
  PROVE  /\ Publishes(S, "oracle", p) \in ControlShape
         /\ Publishes(S, "oracle", p).at = IF S = {} THEN p ELSE "oracle"
         /\ Publishes(S, "oracle", p).rows = S /\ Publishes(S, "oracle", p).after = p
BY DEF Publishes, ControlShape, Controls

LEMMA StartIs ==
  ASSUME CorpusInv, Start
  PROVE  /\ \A t \in Tasks : /\ future'[t] \in { Idle, [ Idle EXCEPT !.at = "pending" ] }
                             /\ future'[t].at = "pending" => results[t].status # "passed"
         /\ future' \in [ Tasks -> FutureShape ] /\ control' \in ControlShape
         /\ control'.rows = Unpublished /\ control'.after = "submit"
         /\ control'.at = IF Unpublished = {} THEN "submit" ELSE "oracle"
         /\ UNCHANGED << queue, used, builder, images, results, catalog, cards >>
<1>1. control \in ControlShape /\ Unpublished \in SUBSET Tasks
  BY DEF CorpusInv, CorpusTypes, ControlShape, Unpublished
<1> DEFINE c == Publishes(Unpublished, "oracle", "submit")
<1>2. c \in ControlShape /\ c.at = (IF Unpublished = {} THEN "submit" ELSE "oracle") /\ c.rows = Unpublished /\ c.after = "submit"
  BY <1>1, PublishesIs
<1>3. control' = [ c EXCEPT !.runs = @ + 1 ] /\ UNCHANGED << queue, used, builder, images, results, catalog, cards >>
  BY DEF Start
<1> HIDE DEF c
<1>4. /\ control' \in ControlShape /\ control'.rows = Unpublished /\ control'.after = "submit"
      /\ control'.at = IF Unpublished = {} THEN "submit" ELSE "oracle"
  BY <1>2, <1>3 DEF ControlShape
<1>5. PICK retry \in BOOLEAN :
        future' = [ t \in Tasks |-> IF t \in Pending(retry) THEN [ Idle EXCEPT !.at = "pending" ] ELSE Idle ]
  BY DEF Start
<1>6. \A t \in Pending(retry) : results[t].status # "passed"
  BY DEF Pending
<1>7. Idle \in FutureShape /\ [ Idle EXCEPT !.at = "pending" ] \in FutureShape /\ Idle.at = "idle"
  BY DEF Idle, FutureShape, Quiet, Statuses, Rewards
<1>8. QED
  BY <1>3, <1>4, <1>5, <1>6, <1>7

LEMMA StartCorpus ==
  ASSUME CorpusInv, Start
  PROVE  CorpusInv'
<1> DEFINE p == [ Idle EXCEPT !.at = "pending" ]
<1>1. Idle.at = "idle" /\ Idle.status = "none" /\ p.at = "pending" /\ p.status = "none"
  BY DEF Idle
<1> HIDE DEF p
<1>2. \A t \in Tasks : future'[t] \in { Idle, p } /\ (future'[t].at = "pending" => results[t].status # "passed")
  BY StartIs DEF p
<1>3. \A t \in Tasks : future[t].at \in Quiet
  BY DEF CorpusInv, ControlInv, Start
<1>4. AccountInv'
  BY <1>1, <1>2, <1>3, StartIs, AccountRests DEF Resting, Quiet
<1>5. CorpusTypes'
  BY StartIs DEF CorpusInv, CorpusTypes, ControlShape
<1>6. ControlInv'
  BY <1>1, <1>2, StartIs DEF ControlInv
<1>7. VerdictInv'
  <2>1. \A t \in Tasks : results[t].status = "passed" => Proven(results[t])
    BY DEF CorpusInv, VerdictInv
  <2>2. UNCHANGED results
    BY StartIs
  <2>3. QED
    BY <1>1, <1>2, <2>1, <2>2 DEF VerdictInv, Proven, Running
<1>8. ListedInv'
  <2>1. Unpublished \subseteq Passed
    BY DEF Unpublished, Passed
  <2>2. QED
    BY <2>1, StartIs DEF CorpusInv, ListedInv, Passed
<1>9. QED
  BY <1>4, <1>5, <1>6, <1>7, <1>8 DEF CorpusInv

LEMMA SubmitCorpus ==
  ASSUME CorpusInv, Submit
  PROVE  CorpusInv'
<1>1. /\ control.at = "submit" /\ control \in ControlShape /\ control' = [ control EXCEPT !.at = "pool" ]
      /\ future' = [ t \in Tasks |-> IF AtW(t, "pending") THEN [ future[t] EXCEPT !.at = "queued" ] ELSE future[t] ]
      /\ UNCHANGED << queue, used, builder, stop, images, results, catalog, cards >>
      /\ future \in [ Tasks -> FutureShape ]
  BY DEF Submit, CorpusInv, CorpusTypes, ControlShape
<1>2. control' \in ControlShape /\ control'.at = "pool" /\ control'.rows = control.rows /\ control'.after = control.after
  BY <1>1 DEF ControlShape, Controls
<1>3. ASSUME NEW t \in Tasks
      PROVE  /\ future'[t] \in FutureShape /\ future'[t].status = future[t].status
             /\ future'[t].ref = future[t].ref /\ future'[t].empty = future[t].empty
             /\ (future'[t].at = "queued" /\ future[t].at = "pending") \/ future'[t] = future[t]
  <2>1. CASE AtW(t, "pending")
    BY <1>1, <2>1 DEF FutureShape, Running, AtW
  <2>2. CASE ~AtW(t, "pending")
    BY <1>1, <2>2
  <2>3. QED
    BY <2>1, <2>2
<1>4. AccountInv'
  BY <1>1, <1>3, AccountRests DEF Resting, Quiet
<1>5. CorpusTypes'
  <2>1. future' \in [ Tasks -> FutureShape ]
    BY <1>1, <1>3
  <2>2. QED
    BY <1>1, <1>2, <2>1 DEF CorpusInv, CorpusTypes, ControlShape
<1>6. ControlInv'
  BY <1>2 DEF ControlInv, Reconciles
<1>7. VerdictInv'
  <2>1. VerdictInv
    BY DEF CorpusInv
  <2>2. QED
    BY <1>1, <1>3, <2>1 DEF VerdictInv, Proven, Image, Running
<1>8. ListedInv'
  BY <1>1, <1>2 DEF CorpusInv, ListedInv, Passed
<1>9. QED
  BY <1>4, <1>5, <1>6, <1>7, <1>8 DEF CorpusInv

(* The verdict of a task: it was not passed before, and Passed only grows. *)
LEMMA TakeIs ==
  ASSUME CorpusInv, NEW t \in Tasks, Take(t)
  PROVE  /\ results' \in [ Tasks -> RowShape ] /\ results[t].status # "passed"
         /\ results'[t].status = future[t].status /\ results'[t].ref = future[t].ref /\ results'[t].empty = future[t].empty
         /\ \A u \in Tasks : u # t => results'[u] = results[u]
         /\ Passed' = IF future[t].status = "passed" THEN Passed \cup {t} ELSE Passed
<1>1. future[t] \in FutureShape /\ future[t].at = "ready" /\ results \in [ Tasks -> RowShape ] /\ results[t].status # "passed"
  BY DEF Take, AtW, CorpusInv, CorpusTypes, VerdictInv
<1> DEFINE x == [ status |-> future[t].status, ref |-> future[t].ref, empty |-> future[t].empty ]
<1>2. x \in RowShape /\ x.status = future[t].status /\ x.ref = future[t].ref /\ x.empty = future[t].empty
  BY <1>1 DEF RowShape, FutureShape
<1>3. results' = [ results EXCEPT ![t] = x ]
  BY DEF Take
<1> HIDE DEF x
<1>4. results' \in [ Tasks -> RowShape ] /\ results'[t] = x /\ \A u \in Tasks : u # t => results'[u] = results[u]
  BY <1>1, <1>2, <1>3
<1>5. QED
  BY <1>1, <1>2, <1>4 DEF Passed

LEMMA TakeCorpus ==
  ASSUME CorpusInv, NEW t \in Tasks, Take(t)
  PROVE  CorpusInv'
<1> DEFINE R == IF future[t].status = "passed" THEN {t} ELSE {}
           f == [ future[t] EXCEPT !.at = "taken" ]
<1>1. /\ control.at = "pool" /\ future[t].at = "ready" /\ control \in ControlShape /\ future \in [ Tasks -> FutureShape ]
      /\ UNCHANGED << queue, used, builder, stop, images, catalog, cards >>
      /\ control' = Publishes(R, "oracle", "check") /\ future' = [ future EXCEPT ![t].at = "taken" ]
  BY DEF Take, AtW, CorpusInv, CorpusTypes, ControlShape
<1>2. f \in FutureShape /\ f.at = "taken" /\ f.status = future[t].status /\ f.ref = future[t].ref /\ f.empty = future[t].empty
  BY <1>1 DEF FutureShape, Quiet
<1>3. /\ future' \in [ Tasks -> FutureShape ] /\ future'[t] = f /\ \A u \in Tasks : u # t => future'[u] = future[u]
  BY <1>1, <1>2
<1> HIDE DEF f
<1>4. R \in SUBSET Tasks
  OBVIOUS
<1>5. /\ control' \in ControlShape /\ control'.at \in { "check", "oracle" } /\ control'.rows = R /\ control'.after = "check"
  BY <1>1, <1>4, PublishesIs
<1>6. AccountInv'
  BY <1>1, <1>2, <1>3, AccountRests DEF Resting, Quiet
<1>7. CorpusTypes'
  BY <1>1, <1>3, <1>5, TakeIs DEF CorpusInv, CorpusTypes, ControlShape
<1>8. ControlInv'
  BY <1>5 DEF ControlInv, Reconciles
<1>9. VerdictInv'
  <2>1. VerdictInv
    BY DEF CorpusInv
  <2> SUFFICES ASSUME NEW u \in Tasks
               PROVE  /\ results'[u].status = "passed" => Proven(results'[u])
                      /\ future'[u].status = "passed" => Proven(future'[u])
                      /\ future'[u].at = "empty" => future'[u].ref = 1
                      /\ future'[u].at \in Running \cup { "pending", "ready" } => results'[u].status # "passed"
                      /\ future'[u].at \in { "reference", "empty" } => Image(u) \in images'
    BY DEF VerdictInv, Proven, Image
  <2>2. CASE u = t
    BY <1>2, <1>3, <2>1, <2>2, TakeIs DEF VerdictInv, Proven, Running
  <2>3. CASE u # t
    <3>1. results'[u] = results[u] /\ future'[u] = future[u] /\ UNCHANGED images
      BY <1>1, <1>3, <2>3, TakeIs
    <3>2. QED
      BY <2>1, <3>1 DEF VerdictInv
  <2>4. QED
    BY <2>2, <2>3
<1>10. ListedInv'
  <2>1. Passed \subseteq Passed' /\ R \subseteq Passed'
    BY TakeIs
  <2>2. QED
    BY <1>1, <1>5, <2>1 DEF CorpusInv, ListedInv
<1>11. QED
  BY <1>6, <1>7, <1>8, <1>9, <1>10 DEF CorpusInv

LEMMA CheckCorpus ==
  ASSUME CorpusInv, Check
  PROVE  CorpusInv'
<1>1. /\ control.at = "check" /\ control \in ControlShape
      /\ control' = [ control EXCEPT !.at = IF stop THEN "drain" ELSE "pool" ]
      /\ future' = [ t \in Tasks |-> IF stop /\ AtW(t, "queued") THEN [ future[t] EXCEPT !.at = "cancelled" ] ELSE future[t] ]
      /\ UNCHANGED << queue, used, builder, stop, images, results, catalog, cards >>
      /\ future \in [ Tasks -> FutureShape ]
  BY DEF Check, CorpusInv, CorpusTypes, ControlShape
<1>2. control' \in ControlShape /\ control'.at \in { "drain", "pool" } /\ control'.rows = control.rows /\ control'.after = control.after
  BY <1>1 DEF ControlShape, Controls
<1>3. ASSUME NEW t \in Tasks
      PROVE  /\ future'[t] \in FutureShape /\ future'[t].status = future[t].status
             /\ future'[t].ref = future[t].ref /\ future'[t].empty = future[t].empty
             /\ (future'[t].at = "cancelled" /\ future[t].at = "queued") \/ future'[t] = future[t]
  <2>1. CASE stop /\ AtW(t, "queued")
    BY <1>1, <2>1 DEF FutureShape, Quiet, AtW
  <2>2. CASE ~(stop /\ AtW(t, "queued"))
    BY <1>1, <2>2
  <2>3. QED
    BY <2>1, <2>2
<1>4. AccountInv'
  BY <1>1, <1>3, AccountRests DEF Resting, Quiet
<1>5. CorpusTypes'
  <2>1. future' \in [ Tasks -> FutureShape ]
    BY <1>1, <1>3
  <2>2. QED
    BY <1>1, <1>2, <2>1 DEF CorpusInv, CorpusTypes, ControlShape
<1>6. ControlInv'
  BY <1>2 DEF ControlInv, Reconciles
<1>7. VerdictInv'
  <2>1. VerdictInv
    BY DEF CorpusInv
  <2>2. QED
    BY <1>1, <1>3, <2>1 DEF VerdictInv, Proven, Image, Running
<1>8. ListedInv'
  BY <1>1, <1>2 DEF CorpusInv, ListedInv, Passed
<1>9. QED
  BY <1>4, <1>5, <1>6, <1>7, <1>8 DEF CorpusInv

LEMMA ExhaustedCorpus ==
  ASSUME CorpusInv, Exhausted
  PROVE  CorpusInv'
<1>1. /\ control \in ControlShape /\ control' = [ control EXCEPT !.at = "drain" ]
      /\ UNCHANGED << future, queue, used, builder, stop, images, results, catalog, cards >>
  BY DEF Exhausted, CorpusInv, CorpusTypes
<1>2. control' \in ControlShape /\ control'.at = "drain" /\ control'.rows = control.rows
  BY <1>1 DEF ControlShape, Controls
<1>3. AccountInv' /\ VerdictInv' /\ Passed' = Passed
  BY <1>1, ControlMoves
<1>4. CorpusTypes' /\ ControlInv' /\ ListedInv'
  BY <1>1, <1>2, <1>3 DEF CorpusInv, CorpusTypes, ControlInv, Reconciles, ListedInv
<1>5. QED
  BY <1>3, <1>4 DEF CorpusInv

LEMMA FinishCorpus ==
  ASSUME CorpusInv, Finish
  PROVE  CorpusInv'
<1>1. /\ control \in ControlShape /\ control' = [ control EXCEPT !.at = "off" ] /\ future \in [ Tasks -> FutureShape ]
      /\ UNCHANGED << future, queue, used, builder, stop, results, catalog, cards >>
      /\ Busy = {} /\ \A t \in Tasks : future[t].at # "queued"
  BY DEF Finish, Drained, AtW, CorpusInv, CorpusTypes
<1>2. control' \in ControlShape /\ control'.at = "off" /\ control'.rows = control.rows
  BY <1>1 DEF ControlShape, Controls
<1>3. \A t \in Tasks : future[t].at \in Quiet
  BY <1>1 DEF Busy, FutureShape, Running
<1>4. AccountInv'
  BY <1>1, AccountRests
<1>5. VerdictInv'
  <2>1. \A t \in Tasks : future[t].at \notin { "reference", "empty" }
    BY <1>3 DEF Quiet
  <2>2. QED
    BY <1>1, <2>1 DEF CorpusInv, VerdictInv, Proven
<1>6. CorpusTypes' /\ ControlInv' /\ ListedInv'
  BY <1>1, <1>2, <1>3 DEF CorpusInv, CorpusTypes, ControlInv, Reconciles, ListedInv, Passed
<1>7. QED
  BY <1>4, <1>5, <1>6 DEF CorpusInv

LEMMA FilesCorpus ==
  ASSUME CorpusInv, Oracle \/ Runnable
  PROVE  CorpusInv'
<1>1. PICK p \in { "runnable", "put" } : control' = [ control EXCEPT !.at = p ]
  BY DEF Oracle, Runnable
<1>2. /\ control \in ControlShape /\ control.at \in { "oracle", "runnable" } /\ control.rows \subseteq Tasks
      /\ UNCHANGED << future, queue, used, builder, stop, images, results, cards >>
      /\ catalog \in [ runnable : SUBSET Tasks, oracle : SUBSET Tasks ]
      /\ \/ catalog' = [ catalog EXCEPT !.oracle = @ \union control.rows ]
         \/ catalog' = [ catalog EXCEPT !.runnable = @ \union control.rows ]
  BY DEF Oracle, Runnable, CorpusInv, CorpusTypes, ControlShape
<1>3. control' \in ControlShape /\ control'.at = p /\ control'.rows = control.rows /\ control'.after = control.after
  BY <1>1, <1>2 DEF ControlShape, Controls
<1>4. /\ catalog' \in [ runnable : SUBSET Tasks, oracle : SUBSET Tasks ]
      /\ catalog'.runnable \subseteq catalog.runnable \cup control.rows /\ catalog'.oracle \subseteq catalog.oracle \cup control.rows
  BY <1>2
<1>5. AccountInv' /\ VerdictInv' /\ Passed' = Passed
  BY <1>2, ControlMoves
<1>6. CorpusTypes'
  BY <1>2, <1>3, <1>4 DEF CorpusInv, CorpusTypes
<1>7. ControlInv'
  BY <1>2, <1>3 DEF CorpusInv, ControlInv, Reconciles
<1>8. ListedInv'
  BY <1>2, <1>3, <1>4, <1>5 DEF CorpusInv, ListedInv
<1>9. QED
  BY <1>5, <1>6, <1>7, <1>8 DEF CorpusInv

LEMMA LiveIs ==
  ASSUME CorpusTypes
  PROVE  IsFiniteSet(Live) /\ Cardinality(Live) \in Nat /\ Live \subseteq Tasks
<1>1. Live \subseteq Tasks
  BY DEF CorpusTypes, Live
<1>2. QED
  BY <1>1, CorpusAssumption, FS_Subset, FS_CardinalityType

LEMMA PutCorpus ==
  ASSUME CorpusInv, Put
  PROVE  CorpusInv'
<1>1. /\ control \in ControlShape /\ control.at = "put" /\ control.rows \subseteq Tasks
      /\ UNCHANGED << future, queue, used, builder, stop, images, results, catalog >>
      /\ cards \in [ task : SUBSET Tasks, run : SUBSET Tasks, count : Nat ]
  BY DEF Put, CorpusInv, CorpusTypes, ControlShape
<1>2. /\ cards' \in [ task : SUBSET Tasks, run : SUBSET Tasks, count : Nat ]
      /\ cards'.task \subseteq cards.task \cup control.rows /\ cards'.run \subseteq cards.run \cup control.rows
  <2>1. CASE UNCHANGED cards
    BY <1>1, <2>1
  <2>2. CASE \E a, b \in SUBSET control.rows, n \in { cards.count, Cardinality(Live) } :
               cards' = [ task |-> cards.task \union a, run |-> cards.run \union b, count |-> n ]
    BY <1>1, <2>2, LiveIs DEF CorpusInv
  <2>3. QED
    BY <2>1, <2>2 DEF Put
<1>3. /\ control' \in ControlShape /\ control'.rows = {} /\ control'.at \in { "off", "pool", "submit", "check" }
      /\ control'.at \in { "off", "submit" } => control.after = "submit"
  <2>1. CASE control' = [ control EXCEPT !.at = control.after, !.rows = {} ]
    BY <1>1, <2>1 DEF ControlShape, Controls
  <2>2. CASE control' = Raised
    <3>1. CASE control.after = "submit"
      BY <1>1, <2>2, <3>1 DEF ControlShape, Controls, Raised
    <3>2. CASE control.after # "submit"
      BY <1>1, <2>2, <3>2 DEF ControlShape, Controls, Raised
    <3>3. QED
      BY <3>1, <3>2
  <2>3. QED
    BY <2>1, <2>2 DEF Put
<1>4. AccountInv' /\ VerdictInv' /\ Passed' = Passed
  BY <1>1, ControlMoves
<1>5. CorpusTypes'
  BY <1>1, <1>2, <1>3 DEF CorpusInv, CorpusTypes
<1>6. ControlInv'
  <2>1. control'.at \in { "off", "submit" } => \A t \in Tasks : future[t].at \in { "idle", "pending" }
    BY <1>1, <1>3 DEF CorpusInv, ControlInv, Reconciles
  <2>2. QED
    BY <1>1, <1>3, <2>1 DEF ControlInv, Reconciles, Quiet
<1>7. ListedInv'
  BY <1>1, <1>2, <1>3, <1>4 DEF CorpusInv, ListedInv
<1>8. QED
  BY <1>4, <1>5, <1>6, <1>7 DEF CorpusInv

LEMMA StopCorpus ==
  ASSUME CorpusInv, UNCHANGED << control, future, queue, used, builder, images, results, catalog, cards >>
  PROVE  CorpusInv'
<1>1. AccountInv' /\ VerdictInv' /\ Passed' = Passed
  BY ControlMoves
<1>2. CorpusTypes' /\ ControlInv' /\ ListedInv'
  BY <1>1 DEF CorpusInv, CorpusTypes, ControlInv, Reconciles, ListedInv
<1>3. QED
  BY <1>1, <1>2 DEF CorpusInv

LEMMA NobodyUses ==
  ASSUME \A t \in Tasks : future[t].at \in { "idle" }, queue = << >>, used = 0, builder = {}
  PROVE  AccountInv
<1>1. Holding = {} /\ { u \in Tasks : AtW(u, "build") } = {} /\ { u \in Tasks : AtW(u, "ticket") } = {}
  BY DEF Holding, AtW
<1>2. Cardinality(Units(Holding)) = 0
  BY <1>1, NoUnits
<1>3. ToSet(queue) = {} /\ IsInjective(queue)
  BY DEF ToSet, IsInjective
<1>4. used <= Capacity
  BY CorpusAssumption
<1>5. QED
  BY <1>1, <1>2, <1>3, <1>4 DEF AccountInv

LEMMA CrashCorpus ==
  ASSUME CorpusInv, Crash
  PROVE  CorpusInv'
<1>1. /\ control \in ControlShape /\ control' = [ control EXCEPT !.at = "off", !.rows = {} ]
      /\ future' = [ t \in Tasks |-> Idle ] /\ queue' = << >> /\ used' = 0 /\ builder' = {}
      /\ UNCHANGED << stop, images, results, catalog, cards >>
  BY DEF Crash, CorpusInv, CorpusTypes
<1>2. control' \in ControlShape /\ control'.at = "off" /\ control'.rows = {}
  BY <1>1 DEF ControlShape, Controls
<1>3. Idle \in FutureShape /\ Idle.at = "idle" /\ Idle.status = "none"
  BY DEF Idle, FutureShape, Quiet, Statuses, Rewards
<1>4. AccountInv'
  <2>1. Holding' = {} /\ { u \in Tasks : AtW(u, "build") }' = {} /\ { u \in Tasks : AtW(u, "ticket") }' = {}
    BY <1>1, <1>3 DEF Holding, AtW
  <2>2. Cardinality(Units(Holding))' = Cardinality(Units({}))
    BY <2>1 DEF Units, Amount
  <2>3. ToSet(queue)' = {} /\ IsInjective(queue)' /\ used' <= Capacity
    BY <1>1, CorpusAssumption DEF ToSet, IsInjective
  <2>4. QED
    BY <1>1, <2>1, <2>2, <2>3, NoUnits DEF AccountInv
<1>5. CorpusTypes' /\ ControlInv' /\ ListedInv'
  BY <1>1, <1>2, <1>3 DEF CorpusInv, CorpusTypes, ControlInv, Reconciles, ListedInv, Passed, Quiet
<1>6. VerdictInv'
  BY <1>1, <1>3 DEF CorpusInv, VerdictInv, Proven, Running
<1>7. QED
  BY <1>4, <1>5, <1>6 DEF CorpusInv

LEMMA InitCorpus == CorpusInit => CorpusInv
<1> SUFFICES ASSUME CorpusInit PROVE CorpusInv
  OBVIOUS
<1> USE DEF CorpusInit
<1>1. Idle \in FutureShape /\ Untried \in RowShape /\ Idle.at = "idle" /\ Idle.status = "none" /\ Untried.status = "none"
  BY DEF Idle, Untried, FutureShape, RowShape, Quiet, Statuses, Rewards
<1>2. CorpusTypes
  BY <1>1 DEF CorpusTypes, ControlShape, Controls
<1>3. AccountInv
  BY <1>1, NobodyUses
<1>4. ControlInv
  BY <1>1 DEF ControlInv, Reconciles, Quiet
<1>5. VerdictInv
  BY <1>1 DEF VerdictInv, Running
<1>6. ListedInv
  BY DEF ListedInv
<1>7. QED
  BY <1>2, <1>3, <1>4, <1>5, <1>6 DEF CorpusInv

LEMMA NextCorpus == CorpusInv /\ [CorpusNext]_corpusVars => CorpusInv'
<1> SUFFICES ASSUME CorpusInv, [CorpusNext]_corpusVars PROVE CorpusInv'
  OBVIOUS
<1>1. CASE Controller
  BY <1>1, StartCorpus, SubmitCorpus, TakeCorpus, CheckCorpus, ExhaustedCorpus, FinishCorpus, FilesCorpus, PutCorpus DEF Controller
<1>2. CASE Stop \/ UNCHANGED corpusVars
  BY <1>2, StopCorpus DEF Stop, corpusVars
<1>3. QED
  BY <1>1, <1>2, CrashCorpus, ThreadsCorpus DEF CorpusNext

-----------------------------------------------------------------------------
(* The order of publishing, while the table takes every row.               *)

LEMMA PublishStays ==
  ASSUME PublishInv, UNCHANGED << control, results, catalog, cards >>
  PROVE  PublishInv'
BY DEF PublishInv, Live, Passed, Publishing

LEMMA NextPublish ==
  ASSUME ~Throttled, CorpusInv, PublishInv, [CorpusNext]_corpusVars
  PROVE  PublishInv'
<1>1. control \in ControlShape /\ CorpusTypes /\ ListedInv
  BY DEF CorpusInv, CorpusTypes
<1>2. CASE UNCHANGED << control, results, catalog, cards >>
  BY <1>2, PublishStays
<1>3. CASE Start
  <2>1. Passed \subseteq cards.run \cup Unpublished /\ Passed' = Passed /\ UNCHANGED << catalog, cards >>
    BY <1>3, StartIs DEF Passed, Unpublished
  <2>2. QED
    BY <1>3, <2>1, StartIs DEF PublishInv, Live, Publishing
<1>4. CASE Submit \/ Check \/ Exhausted \/ Finish \/ Crash
  <2>1. control'.at \in { "pool", "drain", "off" } /\ UNCHANGED << results, catalog, cards >>
    BY <1>1, <1>4 DEF Submit, Check, Exhausted, Finish, Crash, ControlShape
  <2>2. QED
    BY <2>1 DEF PublishInv, Live, Publishing
<1>5. ASSUME NEW t \in Tasks, Take(t) PROVE PublishInv'
  <2> DEFINE R == IF future[t].status = "passed" THEN {t} ELSE {}
  <2>1. control' = Publishes(R, "oracle", "check") /\ R \in SUBSET Tasks /\ UNCHANGED << catalog, cards >>
    BY <1>5 DEF Take
  <2> HIDE DEF R
  <2>2. control'.at \in { "check", "oracle" } /\ control'.after = "check"
    BY <1>1, <2>1, PublishesIs
  <2>3. QED
    BY <2>1, <2>2 DEF PublishInv, Live, Publishing
<1>6. CASE Oracle
  <2>1. /\ control.at = "oracle" /\ control'.at = "runnable" /\ control'.rows = control.rows /\ control'.after = control.after
        /\ catalog'.oracle = catalog.oracle \cup control.rows /\ catalog'.runnable = catalog.runnable /\ UNCHANGED << results, cards >>
    BY <1>1, <1>6 DEF Oracle, ControlShape, CorpusTypes
  <2>2. QED
    BY <2>1 DEF PublishInv, Live, Publishing, Passed
<1>7. CASE Runnable
  <2>1. /\ control.at = "runnable" /\ control'.at = "put" /\ control'.rows = control.rows /\ control'.after = control.after
        /\ catalog'.runnable = catalog.runnable \cup control.rows /\ catalog'.oracle = catalog.oracle /\ UNCHANGED << results, cards >>
    BY <1>1, <1>7 DEF Runnable, ControlShape, CorpusTypes
  <2>2. QED
    BY <2>1 DEF PublishInv, Live, Publishing, Passed
<1>8. CASE Put
  <2>1. control.at = "put" /\ UNCHANGED << results, catalog >> /\ Live' = Live /\ Passed' = Passed
    BY <1>8 DEF Put, Live, Passed
  <2>2. CASE UNCHANGED cards /\ control' = Raised
    <3>1. control'.at \in { "off", "pool", "check" }
      BY <1>1, <2>2 DEF Raised, ControlShape
    <3>2. QED
      BY <2>1, <2>2, <3>1 DEF PublishInv, Publishing
  <2>3. CASE /\ cards' = [ task |-> cards.task \union control.rows, run |-> cards.run \union control.rows, count |-> Cardinality(Live) ]
             /\ control' = [ control EXCEPT !.at = control.after, !.rows = {} ]
    <3>1. /\ cards'.task = cards.task \cup control.rows /\ cards'.run = cards.run \cup control.rows /\ cards'.count = Cardinality(Live)
          /\ control'.at = control.after /\ control.after \in { "pool", "submit", "check" }
      BY <1>1, <2>3 DEF ControlShape
    <3>2. cards'.run \subseteq cards'.task \cap Live
      BY <2>1, <3>1 DEF PublishInv, Live
    <3>3. Cardinality(cards'.run) <= cards'.count
      BY <1>1, <3>1, <3>2, LiveIs, FS_Subset
    <3>4. control.after = "submit" => Passed \subseteq cards'.run
      BY <2>1, <3>1 DEF PublishInv, Publishing
    <3>5. QED
      BY <2>1, <3>1, <3>2, <3>3, <3>4 DEF PublishInv, Publishing
  <2>4. QED
    BY <1>8, <2>2, <2>3 DEF Put
<1>9. ASSUME NEW t \in Tasks, Thread(t) PROVE UNCHANGED << control, results, catalog, cards >>
  BY <1>9 DEF Thread, Begin, Acquire, Woken, Lock, Build, Reference, Empty, Clean
<1>10. CASE Stop \/ UNCHANGED corpusVars
  BY <1>2, <1>10 DEF Stop, corpusVars
<1>11. QED
  BY <1>2, <1>3, <1>4, <1>5, <1>6, <1>7, <1>8, <1>9, <1>10 DEF CorpusNext, Controller

LEMMA InitPublish == CorpusInit => PublishInv
BY FS_EmptySet DEF CorpusInit, PublishInv, Publishing, Live

-----------------------------------------------------------------------------

(* Resources and BUILD in validate_corpus.py: the memory used is what the  *)
(* threads hold, and the other parts of the inductive invariant.           *)
THEOREM CorpusInvariantHolds == CorpusSpec => []CorpusInv
BY InitCorpus, NextCorpus, PTL DEF CorpusSpec

(* publish() and validate(): whatever is stopped, killed or repeated, only *)
(* proven tasks are offered, and no image goes while a case runs from it.  *)
THEOREM OnlyProvenHolds == CorpusSpec => [](CorpusTypeOK /\ OnlyProvenIsListed /\ ImagesOutliveCases)
<1>1. CorpusInv => CorpusTypeOK /\ OnlyProvenIsListed /\ ImagesOutliveCases
  <2> SUFFICES ASSUME CorpusInv PROVE CorpusTypeOK /\ OnlyProvenIsListed /\ ImagesOutliveCases
    OBVIOUS
  <2>1. CorpusTypeOK
    BY DEF CorpusInv, CorpusTypes, AccountInv, CorpusTypeOK, RowShape
  <2>2. OnlyProvenIsListed
    BY DEF CorpusInv, VerdictInv, ListedInv, Passed, Proven, OnlyProvenIsListed
  <2>3. ImagesOutliveCases
    BY DEF CorpusInv, VerdictInv, ImagesOutliveCases
  <2>4. QED
    BY <2>1, <2>2, <2>3
<1>2. QED
  BY <1>1, CorpusInvariantHolds, PTL

(* run(): "Reconcile completed passes after any interruption", as long as  *)
(* the table does not hand rows back.                                      *)
THEOREM ReconciledHolds ==
  ASSUME ~Throttled PROVE CorpusSpec => []Reconciled
<1>1. CorpusInit => CorpusInv /\ PublishInv
  BY InitCorpus, InitPublish
<1>2. CorpusInv /\ PublishInv /\ [CorpusNext]_corpusVars => (CorpusInv /\ PublishInv)'
  BY NextCorpus, NextPublish
<1>3. CorpusInv /\ PublishInv => Reconciled
  <2> SUFFICES ASSUME CorpusInv, PublishInv, control.at = "submit"
               PROVE  Passed \subseteq cards.run \intersect cards.task /\ cards.count >= Cardinality(Passed)
    BY DEF Reconciled, Passed
  <2>1. Passed \subseteq cards.run /\ cards.run \subseteq cards.task /\ Cardinality(cards.run) <= cards.count
    BY DEF PublishInv
  <2>2. cards.run \subseteq Tasks /\ cards.count \in Nat
    BY DEF CorpusInv, CorpusTypes
  <2>3. IsFiniteSet(cards.run) /\ Cardinality(cards.run) \in Nat
    BY <2>2, CorpusAssumption, FS_Subset, FS_CardinalityType
  <2>4. Cardinality(Passed) <= Cardinality(cards.run) /\ Cardinality(Passed) \in Nat
    BY <2>1, <2>3, FS_Subset, FS_CardinalityType
  <2>5. QED
    BY <2>1, <2>2, <2>3, <2>4
<1>4. QED
  BY <1>1, <1>2, <1>3, PTL DEF CorpusSpec

(* The validation in every state.                                          *)
THEOREM CorpusSafetyHolds ==
  ASSUME ~Throttled PROVE CorpusSpec => []CorpusSafety
<1>1. CorpusTypeOK /\ OnlyProvenIsListed /\ ImagesOutliveCases /\ Reconciled => CorpusSafety
  BY DEF CorpusSafety
<1>2. QED
  BY <1>1, OnlyProvenHolds, ReconciledHolds, PTL

(* run(): a task that passed is not validated again.                       *)
THEOREM PassesStandHolds == CorpusSpec => PassesStand
<1>1. CorpusInv /\ [CorpusNext]_corpusVars => [\A t \in Tasks : results[t].status = "passed" => results'[t] = results[t]]_corpusVars
  <2> SUFFICES ASSUME CorpusInv, [CorpusNext]_corpusVars, NEW t \in Tasks, results[t].status = "passed", ~UNCHANGED corpusVars
               PROVE  results'[t] = results[t]
    OBVIOUS
  <2>1. CASE UNCHANGED results
    BY <2>1
  <2>2. ASSUME NEW u \in Tasks, Take(u) PROVE results'[t] = results[t]
    BY <2>2, TakeIs
  <2>3. CASE Start \/ Submit \/ Check \/ Exhausted \/ Finish \/ Oracle \/ Runnable \/ Put \/ Stop \/ Crash
    BY <2>3 DEF Start, Submit, Check, Exhausted, Finish, Oracle, Runnable, Put, Stop, Crash
  <2>4. ASSUME NEW u \in Tasks, Thread(u) PROVE UNCHANGED results
    BY <2>4 DEF Thread, Begin, Acquire, Woken, Lock, Build, Reference, Empty, Clean
  <2>5. QED
    BY <2>1, <2>2, <2>3, <2>4 DEF CorpusNext, Controller
<1>2. QED
  BY <1>1, CorpusInvariantHolds, PTL DEF CorpusSpec, PassesStand

==============================================================================
