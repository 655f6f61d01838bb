-------------------------- MODULE CloudWorkerProofs --------------------------
(***************************************************************************)
(* Proofs about CloudWorker for any jobs, owners and workers, any number   *)
(* of deliveries and faults.                                               *)
(***************************************************************************)
EXTENDS CloudWorker, TLAPS

Waits == { "absent", "queued" }

(* The job is the process's own: from its claim on, as long as it has a    *)
(* result to settle or its watcher goes round.                             *)
Holds(p) == p.at \in Watched \cup Closing \/ p.watch # "off"

(* What a process has in hand: a job wherever it needs one, a result from  *)
(* the end of run.sh on, and from its claim on a row that carries its      *)
(* token and waits no more.  Until it starts run.sh, nobody has.           *)
ProcessOK(p, w) ==
  /\ p.at \notin { "off", "poll" } => p.job \in Jobs
  /\ p.at \in { "off", "poll" } => p.watch = "off"
  /\ p.at \in { "wrap", "update", "publish" } => p.result \in Terminal
  /\ Holds(p) => row[p.job].claim = w /\ row[p.job].status \notin Waits
  /\ p.at = "prepare" => started[p.job] = 0

ProcessInv == \A w \in Workers : ProcessOK(worker[w], w)

(* A job that waits was never started.                                     *)
StartedInv ==
  \A j \in Jobs : started[j] <= 1 /\ (row[j].status \in Waits => started[j] = 0)

(* A job without a row that the site shows is of the old queue.            *)
LegacyInv == \A j \in Jobs : row[j].status = "absent" /\ report[j] # "absent" => j \in Legacy

(* A message in flight is the head of its group.                           *)
FlightInv == \A o \in Owners : InFlight(o) => queue[o] # << >>

IInv == TypeOK /\ ProcessInv /\ StartedInv /\ FlightInv /\ LegacyInv

-----------------------------------------------------------------------------
(* What a write makes of a row.                                            *)

LEMMA WrittenIs ==
  ASSUME NEW j, row[j] \in Row, NEW new \in Row
  PROVE  /\ Written(j, new) \in Row /\ Written(j, new).claim = new.claim
         /\ Written(j, new).status = IF (row[j].cancelled \/ new.cancelled) /\ new.status \in { "queued", "done", "failed" }
                                     THEN "cancelled" ELSE new.status
<1> DEFINE c == row[j].cancelled \/ new.cancelled
           st == IF c /\ new.status \in { "queued", "done", "failed" } THEN "cancelled" ELSE new.status
           rev == row[j].revision + 1
           ev == [ new EXCEPT !.revision = rev, !.cancelled = c, !.status = st ]
           lease == IF ev.status = "running" THEN ev.lease ELSE 0
           fin == [ ev EXCEPT !.revision = 1, !.lease = lease ]
<1>1. Settle(row[j], new) = ev
  BY Zenon DEF Settle
<1>2. Written(j, new) = fin
  BY <1>1, Zenon DEF Written
<1>3. c \in BOOLEAN /\ rev \in Nat
  BY DEF Row
<1>4. st \in Live \cup Terminal \cup { "absent" }
  BY DEF Row, Live, Terminal
<1>5. ev \in Row /\ ev.claim = new.claim /\ ev.status = st
  <2> HIDE DEF c, st, rev
  <2> QED BY <1>3, <1>4 DEF Row
<1> HIDE DEF ev
<1>6. lease \in Nat
  BY <1>5 DEF Row
<1>7. fin \in Row /\ fin.claim = ev.claim /\ fin.status = ev.status
  <2> HIDE DEF lease
  <2> QED BY <1>5, <1>6 DEF Row
<1>8. QED
  BY <1>2, <1>5, <1>7

(* How a row may move: a settled one stays, a running one keeps its token, *)
(* and none waits again.                                                   *)
RowMoves(j) ==
  /\ row[j].status \notin Waits => row'[j].status \notin Waits /\ row'[j].claim = row[j].claim
  /\ row[j].status \in Terminal => row'[j].status = row[j].status
  /\ row[j].status = "queued" => row'[j].status # "absent"
  /\ row[j].status = "absent" => row'[j].status \in Waits

RowsMove == row' \in [ Jobs -> Row ] /\ \A j \in Jobs : RowMoves(j)

LEMMA WriteIs ==
  ASSUME row \in [ Jobs -> Row ], NEW j \in Jobs, NEW new \in Row, Write(j, new),
         row[j].status \in Live, new.status \in { "running" } \cup Terminal \/ (new.status = "queued" /\ new.cancelled),
         row[j].status = "running" => new.claim = row[j].claim
  PROVE  /\ RowsMove /\ \A i \in Jobs : i # j => row'[i] = row[i]
         /\ row'[j].claim = new.claim /\ row'[j].status \in { "running" } \cup Terminal
         /\ row'[j].status = "running" <=> new.status = "running"
         /\ row'[j] = Written(j, new)
<1>1. /\ Written(j, new) \in Row /\ Written(j, new).claim = new.claim
      /\ Written(j, new).status = IF (row[j].cancelled \/ new.cancelled) /\ new.status \in { "queued", "done", "failed" }
                                  THEN "cancelled" ELSE new.status
  BY WrittenIs
<1> DEFINE r == Written(j, new)
<1>2. row' = [ row EXCEPT ![j] = r ]
  BY DEF Write
<1>3. r \in Row /\ r.claim = new.claim /\ r.status \in { "running" } \cup Terminal /\ (r.status = "running" <=> new.status = "running")
  BY <1>1 DEF Terminal
<1> HIDE DEF r
<1>4. row' \in [ Jobs -> Row ] /\ row'[j] = r /\ \A i \in Jobs : i # j => row'[i] = row[i]
  BY <1>2, <1>3
<1>5. \A i \in Jobs : i # j => RowMoves(i)
  BY <1>4 DEF RowMoves, Waits, Row
<1>6. RowMoves(j)
  BY <1>3, <1>4 DEF RowMoves, Waits, Live, Terminal
<1>7. QED
  BY <1>3, <1>4, <1>5, <1>6 DEF RowsMove, r

LEMMA WriteStatusIs ==
  ASSUME row \in [ Jobs -> Row ], NEW j \in Jobs, NEW st \in Terminal, WriteStatus(j, st), row[j].status \in Live
  PROVE  /\ RowsMove /\ \A i \in Jobs : i # j => row'[i] = row[i]
         /\ row'[j].status \in Terminal /\ row'[j].claim = row[j].claim
         /\ row'[j] = Written(j, [ row[j] EXCEPT !.status = st ])
<1> DEFINE r == row[j]
           new == [ r EXCEPT !.status = st ]
<1>1. new \in Row /\ new.status = st /\ new.claim = r.claim
  BY DEF Row
<1>2. Write(j, new)
  BY DEF WriteStatus
<1> HIDE DEF new
<1>3. QED
  BY <1>1, <1>2, WriteIs DEF Terminal, new

LEMMA Stays == ASSUME row \in [ Jobs -> Row ], UNCHANGED row PROVE RowsMove
BY DEF RowsMove, RowMoves, Waits, Row

-----------------------------------------------------------------------------
(* The queue.                                                              *)

QueueType ==
  /\ queue \in [ Owners -> Seq(Jobs) ] /\ window \in [ Owners -> { "visible", "held", "lease" } ]
  /\ receives \in [ Jobs -> 0 .. MaxReceives ] /\ dead \subseteq Jobs
  /\ FlightInv

LEMMA HeadIs ==
  ASSUME QueueType, NEW o \in Owners, queue[o] # << >>
  PROVE  Head(queue[o]) \in Jobs
BY DEF QueueType

LEMMA AppendIs ==
  ASSUME NEW q \in Seq(Jobs), NEW j \in Jobs
  PROVE  Append(q, j) \in Seq(Jobs) /\ Append(q, j) # << >>
<1>1. Append(q, j) \in Seq(Jobs) /\ Len(Append(q, j)) = Len(q) + 1 /\ Len(q) \in Nat
  OBVIOUS
<1>2. Len(Append(q, j)) # 0
  BY <1>1
<1>3. QED
  BY <1>1, <1>2

LEMMA QueueSteps ==
  ASSUME QueueType, FifoQueueAssumption,
         \/ \E j \in Jobs : SendMessage(j)
         \/ \E o \in Owners : ReceiveMessage(o) \/ Reappear(o) \/ DeadLetter(o)
         \/ \E j \in Jobs, n \in Nat : DeleteMessage(j, n) \/ ChangeVisibility(j, n, "held") \/ ChangeVisibility(j, n, "lease")
         \/ UNCHANGED queueVars
  PROVE  QueueType'
<1> USE FifoQueueAssumption DEF FifoQueueAssumption, QueueType, FlightInv, InFlight
<1>1. CASE \E j \in Jobs : SendMessage(j)
  <2>1. PICK j \in Jobs : SendMessage(j)
    BY <1>1
  <2>2. OwnerOf[j] \in Owners /\ Append(queue[OwnerOf[j]], j) \in Seq(Jobs) /\ Append(queue[OwnerOf[j]], j) # << >>
    BY AppendIs
  <2>3. QED
    BY <2>1, <2>2 DEF SendMessage
<1>2. CASE \E o \in Owners : ReceiveMessage(o)
  <2>1. PICK o \in Owners : ReceiveMessage(o)
    BY <1>2
  <2>2. Head(queue[o]) \in Jobs /\ receives[Head(queue[o])] + 1 \in 0 .. MaxReceives
    BY <2>1, HeadIs DEF ReceiveMessage, Receivable
  <2>3. QED
    BY <2>1, <2>2 DEF ReceiveMessage, Receivable
<1>3. CASE \E o \in Owners : Reappear(o)
  BY <1>3 DEF Reappear
<1>4. CASE \E o \in Owners : DeadLetter(o)
  <2>1. PICK o \in Owners : DeadLetter(o)
    BY <1>4
  <2>2. Head(queue[o]) \in Jobs /\ Tail(queue[o]) \in Seq(Jobs)
    BY <2>1, HeadIs DEF DeadLetter
  <2>3. QED
    BY <2>1, <2>2 DEF DeadLetter
<1>5. CASE \E j \in Jobs, n \in Nat : DeleteMessage(j, n)
  <2>1. PICK j \in Jobs, n \in Nat : DeleteMessage(j, n)
    BY <1>5
  <2>2. CASE Good(j, n)
    <3> DEFINE o == OwnerOf[j]
               t == Tail(queue[o])
    <3>1. o \in Owners /\ t \in Seq(Jobs) /\ 0 \in 0 .. MaxReceives
      BY <2>2 DEF Good
    <3>2. /\ queue' = [ queue EXCEPT ![o] = t ] /\ window' = [ window EXCEPT ![o] = "visible" ]
          /\ receives' = [ receives EXCEPT ![j] = 0 ] /\ dead' = dead
      BY <2>1, <2>2 DEF DeleteMessage
    <3> HIDE DEF o, t
    <3>3. QED
      BY <3>1, <3>2
  <2>3. CASE ~Good(j, n)
    BY <2>1, <2>3 DEF DeleteMessage, queueVars
  <2>4. QED
    BY <2>2, <2>3
<1>6. CASE \E j \in Jobs, n \in Nat : ChangeVisibility(j, n, "held") \/ ChangeVisibility(j, n, "lease")
  <2>1. PICK j \in Jobs, n \in Nat, u \in { "held", "lease" } : ChangeVisibility(j, n, u)
    BY <1>6
  <2>2. CASE Good(j, n)
    BY <2>1, <2>2 DEF ChangeVisibility, Good
  <2>3. CASE ~Good(j, n)
    BY <2>1, <2>3 DEF ChangeVisibility, queueVars
  <2>4. QED
    BY <2>2, <2>3
<1>7. CASE UNCHANGED queueVars
  BY <1>7 DEF queueVars
<1>8. QED
  BY <1>1, <1>2, <1>3, <1>4, <1>5, <1>6, <1>7

-----------------------------------------------------------------------------
(* The processes.                                                          *)

Others(w) == \A v \in Workers : v # w => worker'[v] = worker[v]

LEMMA StepIs ==
  ASSUME worker \in [ Workers -> Process ], NEW w \in Workers, NEW p \in Process, Step(w, p)
  PROVE  worker' \in [ Workers -> Process ] /\ Others(w) /\ worker'[w] = p /\ UNCHANGED requestVars
BY DEF Step, Others

LEMMA HomeIs ==
  ASSUME NEW p
  PROVE  /\ Home(p) \in Process /\ Home(p).at \in { "off", "poll" } /\ Home(p).watch = "off"
         /\ Off \in Process /\ Off.at = "off" /\ Off.watch = "off"
         /\ Polling \in Process /\ Polling.at = "poll" /\ Polling.watch = "off"
<1>1. Off \in Process /\ Off.at = "off" /\ Off.watch = "off"
  BY DEF Off, Process, Places
<1>2. Polling \in Process /\ Polling.at = "poll" /\ Polling.watch = "off"
  BY DEF Polling, Off, Process, Places
<1>3. QED
  BY <1>1, <1>2 DEF Home

LEMMA RestsOK ==
  ASSUME NEW p, NEW w, p.at \in { "off", "poll" }, p.watch = "off"
  PROVE  ProcessOK(p, w)'
BY DEF ProcessOK, Holds, Watched, Closing

(* What a step of one process, or of a request, leaves to the others.      *)
LEMMA KeepsOthers ==
  ASSUME TypeOK, ProcessInv, RowsMove, NEW w, Others(w),
         \A j \in Jobs : started'[j] # started[j] => row[j].claim = w
  PROVE  \A v \in Workers : v # w => ProcessOK(worker[v], v)'
<1> SUFFICES ASSUME NEW v \in Workers, v # w
             PROVE  ProcessOK(worker[v], v)'
  OBVIOUS
<1>1. ProcessOK(worker[v], v) /\ worker'[v] = worker[v] /\ worker[v].at \in Places
  BY DEF ProcessInv, Others, TypeOK, Process
<1>2. CASE Holds(worker[v])
  <2> DEFINE j == worker[v].job
  <2>1. j \in Jobs /\ row[j].claim = v /\ row[j].status \notin Waits
    BY <1>1, <1>2 DEF ProcessOK, Holds, Watched, Closing
  <2>2. row'[j].claim = v /\ row'[j].status \notin Waits /\ started'[j] = started[j]
    BY <2>1 DEF RowsMove, RowMoves
  <2>3. QED
    BY <1>1, <2>1, <2>2 DEF ProcessOK, Holds
<1>3. CASE ~Holds(worker[v])
  BY <1>1, <1>3 DEF ProcessOK, Holds, Watched
<1>4. QED
  BY <1>2, <1>3

LEMMA StaysOK ==
  ASSUME NEW w \in Workers, NEW p \in Process, NEW q \in Process, p = worker[w], q = worker'[w],
         ProcessOK(p, w), RowsMove, UNCHANGED started, q.job = p.job,
         Holds(q) => Holds(p),
         q.at = "prepare" => p.at = "prepare",
         q.at \in { "wrap", "update", "publish" } => q.result \in Terminal,
         p.at \notin { "off", "poll" }, q.at \notin { "off", "poll" }
  PROVE  ProcessOK(worker[w], w)'
<1>1. p.job \in Jobs
  BY DEF ProcessOK
<1>2. CASE Holds(q)
  <2>1. row'[p.job].claim = w /\ row'[p.job].status \notin Waits
    BY <1>1, <1>2 DEF ProcessOK, RowsMove, RowMoves
  <2>2. QED
    BY <1>1, <1>2, <2>1 DEF ProcessOK, Holds
<1>3. CASE ~Holds(q)
  BY <1>1, <1>3 DEF ProcessOK, Holds, Watched
<1>4. QED
  BY <1>2, <1>3

(* The parts of the invariant that do not depend on a process.             *)
Rest ==
  /\ report \in [ Jobs -> Live \cup Terminal \cup {"absent"} ] /\ started \in [ Jobs -> Nat ]
  /\ sender \in [ Jobs -> { "none", "sending", "abandoning" } ]
  /\ canceller \subseteq Legacy /\ withdrawn \subseteq Jobs /\ lost \subseteq Jobs
  /\ faults \in 0 .. MaxFaults /\ QueueType

(* What the report shows comes with a row, or is of the old queue.         *)
LEMMA ReportsKeep ==
  ASSUME LegacyInv, RowsMove, row \in [ Jobs -> Row ],
         \A j \in Jobs : report'[j] # report[j] => row[j].status # "absent" \/ j \in Legacy
  PROVE  LegacyInv'
BY DEF LegacyInv, RowsMove, RowMoves, Waits, Row, Live, Terminal

LEMMA Facts ==
  ASSUME IInv
  PROVE  /\ row \in [ Jobs -> Row ] /\ worker \in [ Workers -> Process ] /\ Rest
         /\ \A w \in Workers : ProcessOK(worker[w], w) /\ worker[w].at \in Places
BY DEF IInv, TypeOK, ProcessInv, Rest, QueueType, Process

(* A step of a process: what it has to show.                               *)
Moved(w) ==
  /\ RowsMove /\ worker' \in [ Workers -> Process ] /\ Others(w)
  /\ ProcessOK(worker[w], w)' /\ Rest'

LEMMA MovedKeeps ==
  ASSUME IInv, NEW w \in Workers, Moved(w), UNCHANGED started,
         \A j \in Jobs : report'[j] # report[j] => row[j].status # "absent" \/ j \in Legacy
  PROVE  IInv'
<1>1. ProcessInv'
  BY KeepsOthers DEF IInv, Moved, ProcessInv
<1>2. StartedInv'
  BY DEF Moved, RowsMove, RowMoves, IInv, StartedInv
<1>3. TypeOK' /\ FlightInv'
  BY DEF Moved, Rest, QueueType, TypeOK, RowsMove
<1>4. LegacyInv'
  BY ReportsKeep DEF Moved, IInv, TypeOK
<1>5. QED
  BY <1>1, <1>2, <1>3, <1>4 DEF IInv

LEMMA FaultIs ==
  ASSUME faults \in 0 .. MaxFaults, CloudWorkerAssumption, NEW kind, Fault(kind) \/ UNCHANGED faults
  PROVE  faults' \in 0 .. MaxFaults
BY DEF Fault, CloudWorkerAssumption

(* The requests, the clock and the services: no process moves.             *)
LEMMA RowOnly ==
  ASSUME IInv, RowsMove, UNCHANGED << worker, started >>, Rest',
         \A j \in Jobs : report'[j] # report[j] => j \in Legacy
  PROVE  IInv'
<1>1. ProcessInv'
  <2> SUFFICES ASSUME NEW v \in Workers PROVE ProcessOK(worker[v], v)'
    BY DEF ProcessInv
  <2>1. ProcessOK(worker[v], v) /\ worker'[v] = worker[v]
    BY DEF IInv, ProcessInv
  <2>2. CASE Holds(worker[v])
    <3>1. row'[worker[v].job].claim = v /\ row'[worker[v].job].status \notin Waits /\ worker[v].job \in Jobs
      BY <2>1, <2>2 DEF ProcessOK, Holds, Watched, Closing, RowsMove, RowMoves
    <3>2. QED
      BY <2>1, <2>2, <3>1 DEF ProcessOK, Holds
  <2>3. CASE ~Holds(worker[v])
    BY <2>1, <2>3 DEF ProcessOK, Holds, Watched
  <2>4. QED
    BY <2>2, <2>3
<1>2. StartedInv'
  BY DEF RowsMove, RowMoves, IInv, StartedInv
<1>3. TypeOK' /\ FlightInv'
  BY DEF Rest, QueueType, TypeOK, RowsMove, IInv
<1>4. LegacyInv'
  BY ReportsKeep DEF IInv, TypeOK
<1>5. QED
  BY <1>1, <1>2, <1>3, <1>4 DEF IInv

LEMMA RequestsKeep ==
  ASSUME IInv, NEW j \in Jobs,
         \/ Submit(j) \/ Send(j) \/ SendFails(j) \/ Abandon(j) \/ SenderDies(j)
         \/ Cancel(j) \/ CancelLegacy(j) \/ CancelLegacyWrite(j)
         \/ LeaseRunsOut(j) \/ ControllerExpires(j)
  PROVE  IInv' /\ RowsMove /\ UNCHANGED << worker, started >>
<1>0. /\ row \in [ Jobs -> Row ] /\ row[j] \in Row /\ Rest /\ QueueType /\ faults \in 0 .. MaxFaults
      /\ CloudWorkerAssumption /\ FifoQueueAssumption
  BY Facts, CloudWorkerAssumption, FifoQueueAssumption DEF Rest
<1> USE DEF requestVars, outputVars
<1>1. CASE Submit(j)
  <2>1. Submitted(TRUE) \in Row /\ Submitted(TRUE).status = "queued"
    BY DEF Submitted, Row, Live
  <2>2. RowsMove
    <3> DEFINE r == Submitted(TRUE)
    <3>1. row' = [ row EXCEPT ![j] = r ] /\ row[j].status = "absent" /\ r \in Row /\ r.status = "queued"
      BY <1>1, <2>1 DEF Submit
    <3> HIDE DEF r
    <3>2. QED
      BY <1>0, <3>1 DEF RowsMove, RowMoves, Waits, Terminal
  <2>3. Rest' /\ UNCHANGED << worker, started, report >>
    <3>1. QueueType'
      BY <1>0, <1>1, QueueSteps DEF Submit
    <3>2. QED
      BY <1>0, <1>1, <3>1 DEF Submit, Rest
  <2>4. QED
    BY <2>2, <2>3, RowOnly
<1>2. CASE Send(j) \/ SendFails(j) \/ SenderDies(j)
  <2>1. RowsMove
    BY <1>0, <1>2, Stays DEF Send, SendFails, SenderDies
  <2>2. QueueType'
    BY <1>0, <1>2, QueueSteps DEF Send, SendFails, SenderDies
  <2>3. faults' \in 0 .. MaxFaults
    BY <1>0, <1>2, FaultIs DEF Send, SendFails, SenderDies
  <2>4. Rest' /\ UNCHANGED << worker, started, report >>
    BY <1>0, <1>2, <2>2, <2>3 DEF Send, SendFails, SenderDies, Rest
  <2>5. QED
    BY <2>1, <2>4, RowOnly
<1>3. CASE Abandon(j)
  <2>1. RowsMove
    <3>1. CASE row[j].status = "queued"
      BY <1>0, <1>3, <3>1, WriteStatusIs DEF Abandon, GivesUp, Live, Terminal
    <3>2. CASE row[j].status # "queued"
      BY <1>0, <1>3, <3>2, Stays DEF Abandon, GivesUp
    <3>3. QED
      BY <3>1, <3>2
  <2>2. QueueType'
    BY <1>0, <1>3, QueueSteps DEF Abandon
  <2>3. Rest' /\ UNCHANGED << worker, started, report >>
    BY <1>0, <1>3, <2>2 DEF Abandon, Rest
  <2>4. QED
    BY <2>1, <2>3, RowOnly
<1>4. CASE Cancel(j)
  <2>1. RowsMove
    <3> DEFINE r == row[j]
               new == [ r EXCEPT !.cancelled = TRUE ]
    <3>1. r.status \in Live /\ Write(j, new)
      BY <1>4 DEF Cancel, Cancellable
    <3>2. new \in Row /\ new.status = r.status /\ new.claim = r.claim /\ new.cancelled
      <4> HIDE DEF r
      <4> QED BY <1>0 DEF Row, r
    <3> HIDE DEF new
    <3>3. QED
      BY <1>0, <3>1, <3>2, WriteIs DEF Live
  <2>2. QueueType'
    BY <1>0, <1>4, QueueSteps DEF Cancel
  <2>3. Rest' /\ UNCHANGED << worker, started, report >>
    BY <1>0, <1>4, <2>2 DEF Cancel, Rest
  <2>4. QED
    BY <2>1, <2>3, RowOnly
<1>5. CASE CancelLegacy(j)
  <2>1. RowsMove
    BY <1>0, <1>5, Stays DEF CancelLegacy
  <2>2. QueueType'
    BY <1>0, <1>5, QueueSteps DEF CancelLegacy
  <2>3. j \in Legacy
    BY <1>5 DEF CancelLegacy, IInv, LegacyInv
  <2>4. Rest' /\ UNCHANGED << worker, started, report >>
    BY <1>0, <1>5, <2>2, <2>3 DEF CancelLegacy, Rest
  <2>5. QED
    BY <2>1, <2>4, RowOnly
<1>6. CASE CancelLegacyWrite(j)
  <2>1. RowsMove
    BY <1>0, <1>6, Stays DEF CancelLegacyWrite
  <2>2. QueueType'
    BY <1>0, <1>6, QueueSteps DEF CancelLegacyWrite
  <2>3. Rest' /\ UNCHANGED << worker, started >>
    BY <1>0, <1>6, <2>2 DEF CancelLegacyWrite, Rest, Terminal
  <2>4. \A i \in Jobs : report'[i] # report[i] => i \in Legacy
    BY <1>0, <1>6 DEF CancelLegacyWrite, Rest
  <2>5. QED
    BY <2>1, <2>3, <2>4, RowOnly
<1>7. CASE LeaseRunsOut(j)
  <2>1. RowsMove
    <3> DEFINE r == row[j]
               new == [ r EXCEPT !.lease = 0 ]
    <3>1. row' = [ row EXCEPT ![j] = new ]
      BY <1>7 DEF LeaseRunsOut
    <3>2. new \in Row /\ new.status = r.status /\ new.claim = r.claim
      <4> HIDE DEF r
      <4> QED BY <1>0 DEF Row, r
    <3> HIDE DEF new
    <3>3. QED
      BY <1>0, <3>1, <3>2 DEF RowsMove, RowMoves, Waits, Row
  <2>2. QueueType'
    BY <1>0, <1>7, QueueSteps DEF LeaseRunsOut
  <2>3. faults' \in 0 .. MaxFaults
    BY <1>0, <1>7, FaultIs DEF LeaseRunsOut
  <2>4. Rest' /\ UNCHANGED << worker, started, report >>
    BY <1>0, <1>7, <2>2, <2>3 DEF LeaseRunsOut, Rest
  <2>5. QED
    BY <2>1, <2>4, RowOnly
<1>8. CASE ControllerExpires(j)
  <2>1. RowsMove
    BY <1>0, <1>8, WriteStatusIs DEF ControllerExpires, Lapsed, Live, Terminal
  <2>2. QueueType'
    BY <1>0, <1>8, QueueSteps DEF ControllerExpires
  <2>3. Rest' /\ UNCHANGED << worker, started, report >>
    BY <1>0, <1>8, <2>2 DEF ControllerExpires, Rest
  <2>4. QED
    BY <2>1, <2>3, RowOnly
<1>9. QED
  BY <1>1, <1>2, <1>3, <1>4, <1>5, <1>6, <1>7, <1>8

LEMMA ServicesKeep ==
  ASSUME IInv, NEW o \in Owners, WindowCloses(o) \/ Discard(o)
  PROVE  IInv' /\ RowsMove /\ UNCHANGED << worker, started >>
<1>0. /\ row \in [ Jobs -> Row ] /\ Rest /\ QueueType /\ faults \in 0 .. MaxFaults
      /\ CloudWorkerAssumption /\ FifoQueueAssumption
  BY Facts, CloudWorkerAssumption, FifoQueueAssumption DEF Rest
<1> USE DEF requestVars, outputVars
<1>1. RowsMove
  BY <1>0, Stays DEF WindowCloses, Discard
<1>2. QueueType'
  BY <1>0, QueueSteps DEF WindowCloses, Discard
<1>3. faults' \in 0 .. MaxFaults
  BY <1>0, FaultIs DEF WindowCloses, Discard
<1>4. Rest' /\ UNCHANGED << worker, started, report >>
  BY <1>0, <1>2, <1>3 DEF WindowCloses, Discard, Rest
<1>5. QED
  BY <1>1, <1>4, RowOnly

-----------------------------------------------------------------------------
(* The main thread up to its claim.                                        *)

LEMMA Boots ==
  ASSUME IInv, NEW w \in Workers, Boot(w) \/ Leave(w) \/ Crash(w)
  PROVE  Moved(w) /\ UNCHANGED << row, started, report >>
<1>0. /\ row \in [ Jobs -> Row ] /\ worker \in [ Workers -> Process ] /\ Rest /\ QueueType
      /\ faults \in 0 .. MaxFaults /\ CloudWorkerAssumption /\ FifoQueueAssumption
  BY Facts, CloudWorkerAssumption, FifoQueueAssumption DEF Rest
<1>1. UNCHANGED << row, report, started, queue, window, receives, dead >>
  BY DEF Boot, Leave, Crash, outputVars, queueVars
<1>2. PICK q \in { Off, Polling } : Step(w, q)
  BY DEF Boot, Leave, Crash
<1>3. q \in Process /\ q.at \in { "off", "poll" } /\ q.watch = "off"
  BY <1>2, HomeIs
<1>4. worker' \in [ Workers -> Process ] /\ Others(w) /\ worker'[w] = q /\ UNCHANGED requestVars
  BY <1>0, <1>2, <1>3, StepIs
<1>5. ProcessOK(worker[w], w)'
  BY <1>3, <1>4 DEF ProcessOK, Holds, Watched, Closing
<1>6. QueueType'
  BY <1>0, <1>1 DEF QueueType, FlightInv, InFlight
<1>7. faults' \in 0 .. MaxFaults
  BY <1>0, FaultIs DEF Boot, Leave, Crash
<1>8. Rest'
  BY <1>0, <1>1, <1>4, <1>6, <1>7 DEF Rest, requestVars
<1>9. QED
  BY <1>0, <1>1, <1>4, <1>5, <1>8, Stays DEF Moved

Reports == [ Jobs -> Live \cup Terminal \cup {"absent"} ]

LEMMA Takes ==
  ASSUME IInv, NEW w \in Workers, NEW q \in Process, Step(w, q), RowsMove, QueueType',
         report' \in Reports, started' \in [ Jobs -> Nat ], faults' \in 0 .. MaxFaults
  PROVE  /\ worker'[w] = q
         /\ ProcessOK(worker[w], w)' => Moved(w)
         /\ q.at \in { "off", "poll" } /\ q.watch = "off" => Moved(w)
<1>1. worker' \in [ Workers -> Process ] /\ Others(w) /\ worker'[w] = q /\ UNCHANGED requestVars
  BY Facts, StepIs
<1>2. Rest'
  BY <1>1, Facts DEF Rest, requestVars, Reports
<1>3. q.at \in { "off", "poll" } /\ q.watch = "off" => ProcessOK(worker[w], w)'
  BY <1>1 DEF ProcessOK, Holds, Watched, Closing
<1>4. QED
  BY <1>1, <1>2, <1>3 DEF Moved

(* The same for a step within the job the process has in hand.             *)
LEMMA TakesOn ==
  ASSUME IInv, NEW w \in Workers, NEW p \in Process, NEW q \in Process, p = worker[w], Step(w, q),
         RowsMove, QueueType', report' \in Reports, UNCHANGED started, faults' \in 0 .. MaxFaults,
         q.job = p.job, Holds(q) => Holds(p), q.at = "prepare" => p.at = "prepare",
         q.at \in { "wrap", "update", "publish" } => q.result \in Terminal,
         p.at \notin { "off", "poll" }, q.at \notin { "off", "poll" }
  PROVE  Moved(w) /\ worker'[w] = q
<1>1. started' \in [ Jobs -> Nat ] /\ ProcessOK(p, w)
  BY Facts DEF Rest
<1>2. worker'[w] = q /\ (ProcessOK(worker[w], w)' => Moved(w))
  BY <1>1, Takes
<1>3. ProcessOK(worker[w], w)'
  BY <1>1, <1>2, StaysOK
<1>4. QED
  BY <1>2, <1>3

LEMMA Receives ==
  ASSUME IInv, NEW w \in Workers, NEW o \in Owners, Receive(w, o)
  PROVE  Moved(w) /\ UNCHANGED << row, started, report >>
<1> DEFINE p == worker[w]
           j == Head(queue[o])
           n == receives[j] + 1
           q == IF NextPlace(j) = "poll" THEN Home(p) ELSE [ p EXCEPT !.at = NextPlace(j), !.job = j, !.receipt = n ]
<1>0. /\ row \in [ Jobs -> Row ] /\ p \in Process /\ Rest /\ QueueType /\ ProcessOK(p, w)
      /\ faults \in 0 .. MaxFaults /\ FifoQueueAssumption
  BY Facts, FifoQueueAssumption DEF Rest
<1>1. /\ p.at = "poll" /\ ReceiveMessage(o) /\ Step(w, q) /\ queue[o] # << >>
      /\ UNCHANGED << row, report, started, faults >>
  BY DEF Receive, outputVars, ReceiveMessage, Receivable
<1>2. j \in Jobs /\ n \in Nat
  <2>1. j \in Jobs
    BY <1>0, <1>1, HeadIs
  <2>2. receives \in [ Jobs -> 0 .. MaxReceives ] /\ MaxReceives \in Nat
    BY <1>0 DEF QueueType, FifoQueueAssumption
  <2>3. QED
    BY <2>1, <2>2
<1>3. RowsMove /\ QueueType'
  BY <1>0, <1>1, Stays, QueueSteps
<1>4. report' \in Reports /\ started' \in [ Jobs -> Nat ] /\ faults' \in 0 .. MaxFaults
  BY <1>0, <1>1 DEF Rest, Reports
<1>5. CASE NextPlace(j) = "poll"
  <2>1. q \in Process /\ q.at \in { "off", "poll" } /\ q.watch = "off"
    BY <1>5, HomeIs
  <2> HIDE DEF q
  <2>2. QED
    BY <1>1, <1>3, <1>4, <2>1, Takes
<1>6. CASE NextPlace(j) # "poll"
  <2>1. NextPlace(j) \in { "expire", "claim", "enlist", "ack" }
    BY <1>6 DEF NextPlace
  <2> DEFINE r == [ p EXCEPT !.at = NextPlace(j), !.job = j, !.receipt = n ]
  <2>2. r \in Process /\ r.at = NextPlace(j) /\ r.job = j /\ r.watch = p.watch
    <3> HIDE DEF p, j, n
    <3> QED BY <1>0, <1>2, <2>1 DEF Process, Places, Unclaimed
  <2>3. Step(w, r)
    BY <1>1, <1>6
  <2> HIDE DEF r, q
  <2>4. worker'[w] = r /\ (ProcessOK(worker[w], w)' => Moved(w))
    BY <1>3, <1>4, <2>2, <2>3, Takes
  <2>5. CASE p.watch = "off"
    <3>1. ProcessOK(worker[w], w)'
      BY <1>2, <2>1, <2>2, <2>4, <2>5 DEF ProcessOK, Holds, Watched, Closing
    <3>2. QED
      BY <1>1, <2>4, <3>1
  <2>6. CASE p.watch # "off"
    BY <1>0, <1>1, <2>6 DEF ProcessOK
  <2>7. QED
    BY <2>5, <2>6
<1>7. QED
  BY <1>1, <1>5, <1>6

(* What each of them starts from, and what it needs when the queue and the *)
(* counters rest.                                                          *)
LEMMA Start ==
  ASSUME IInv, NEW w \in Workers
  PROVE  /\ row \in [ Jobs -> Row ] /\ worker[w] \in Process /\ ProcessOK(worker[w], w) /\ QueueType
         /\ worker[w].at \notin { "off", "poll" } => worker[w].job \in Jobs /\ row[worker[w].job] \in Row
         /\ worker[w].watch # "off" => worker[w].at \notin { "off", "poll" }
         /\ report \in Reports /\ started \in [ Jobs -> Nat ] /\ faults \in 0 .. MaxFaults
         /\ UNCHANGED queueVars => QueueType'
<1>1. /\ row \in [ Jobs -> Row ] /\ worker[w] \in Process /\ ProcessOK(worker[w], w) /\ QueueType
      /\ report \in Reports /\ started \in [ Jobs -> Nat ] /\ faults \in 0 .. MaxFaults
  BY Facts DEF Rest, Reports
<1>2. UNCHANGED queueVars => QueueType'
  BY <1>1, QueueSteps, FifoQueueAssumption
<1>3. QED
  BY <1>1, <1>2 DEF ProcessOK

LEMMA Enlists ==
  ASSUME IInv, NEW w \in Workers, Enlist(w)
  PROVE  Moved(w) /\ UNCHANGED << started, report >>
<1> DEFINE p == worker[w]
           j == p.job
<1>0. /\ row \in [ Jobs -> Row ] /\ p \in Process /\ j \in Jobs /\ QueueType' /\ p.at = "enlist"
      /\ report' \in Reports /\ started' \in [ Jobs -> Nat ] /\ faults' \in 0 .. MaxFaults
      /\ UNCHANGED << started, report >>
  BY Start DEF Enlist, outputVars
<1>1. CASE row[j].status = "absent"
  <2> DEFINE q == [ p EXCEPT !.at = "claim" ]
             r == Submitted(FALSE)
  <2>1. row' = [ row EXCEPT ![j] = r ] /\ Step(w, q)
    BY <1>1 DEF Enlist, Goto
  <2>2. r \in Row /\ r.status = "queued"
    BY DEF Submitted, Row, Live
  <2>3. q \in Process /\ q.at = "claim" /\ q.job = j /\ q.watch = p.watch
    <3> HIDE DEF p
    <3> QED BY <1>0 DEF Process, Places, Unclaimed
  <2> HIDE DEF q, r, p
  <2>4. RowsMove
    BY <1>0, <1>1, <2>1, <2>2 DEF RowsMove, RowMoves, Waits, Terminal
  <2>5. Holds(q) => Holds(p)
    BY <2>3 DEF Holds, Watched, Closing
  <2>6. QED
    BY <1>0, <2>1, <2>3, <2>4, <2>5, TakesOn DEF p
<1>2. CASE row[j].status # "absent"
  <2>1. Step(w, Home(p)) /\ UNCHANGED row
    BY <1>2 DEF Enlist
  <2>2. QED
    BY <1>0, <2>1, HomeIs, Takes, Stays
<1>3. QED
  BY <1>1, <1>2

LEMMA ExpiresOrHides ==
  ASSUME IInv, NEW w \in Workers, ExpireOrHide(w)
  PROVE  Moved(w) /\ UNCHANGED << started, report >>
<1> DEFINE p == worker[w]
           j == p.job
           q == [ p EXCEPT !.at = "ack" ]
<1>0. /\ row \in [ Jobs -> Row ] /\ p \in Process /\ j \in Jobs /\ p.at = "expire" /\ QueueType
      /\ report' \in Reports /\ started' \in [ Jobs -> Nat ] /\ faults' \in 0 .. MaxFaults
      /\ UNCHANGED << started, report >> /\ (UNCHANGED queueVars => QueueType')
  BY Start DEF ExpireOrHide, outputVars
<1>1. q \in Process /\ q.at = "ack" /\ q.job = j /\ q.watch = p.watch
  <2> HIDE DEF p
  <2> QED BY <1>0 DEF Process, Places
<1>2. CASE Lapsed(row[j], 1) /\ WriteStatus(j, "failed") /\ UNCHANGED queueVars /\ Step(w, q)
  <2>1. RowsMove
    BY <1>0, <1>2, WriteStatusIs DEF Lapsed, Live, Terminal
  <2> HIDE DEF q, p
  <2>2. Holds(q) => Holds(p)
    BY <1>1 DEF Holds, Watched, Closing
  <2>3. QED
    BY <1>0, <1>1, <1>2, <2>1, <2>2, TakesOn DEF p
<1>3. CASE Hide(j, p.receipt) /\ UNCHANGED row /\ Step(w, Home(p))
  <2>1. p.receipt \in Nat
    BY <1>0 DEF Process
  <2>2. QueueType'
    BY <1>0, <1>3, <2>1, QueueSteps, FifoQueueAssumption DEF Hide
  <2>3. QED
    BY <1>0, <1>3, <2>2, HomeIs, Takes, Stays
<1>4. CASE UNCHANGED << row, queueVars >> /\ Step(w, q)
  <2> HIDE DEF q, p
  <2>1. Holds(q) => Holds(p)
    BY <1>1 DEF Holds, Watched, Closing
  <2>2. QED
    BY <1>0, <1>1, <1>4, <2>1, TakesOn, Stays DEF p
<1>5. QED
  BY <1>2, <1>3, <1>4 DEF ExpireOrHide, Goto

(* The write of a claim, answered or not.                                  *)
LEMMA WriteClaimIs ==
  ASSUME row \in [ Jobs -> Row ], NEW j \in Jobs, NEW w \in Workers, Claimable(row[j]), WriteClaim(j, w)
  PROVE  RowsMove /\ row'[j].claim = w /\ row'[j].status = "running" /\ row[j].status = "queued"
<1> DEFINE r == row[j]
           new == [ r EXCEPT !.status = "running", !.claim = w, !.lease = 1 ]
<1>1. r \in Row /\ r.status = "queued" /\ Write(j, new)
  BY DEF Claimable, WriteClaim
<1>2. new \in Row /\ new.status = "running" /\ new.claim = w
  <2> HIDE DEF r
  <2> QED BY <1>1, CloudWorkerAssumption DEF CloudWorkerAssumption, Row, Live
<1> HIDE DEF new
<1>3. RowsMove /\ row'[j].claim = w /\ row'[j].status \in { "running" } \cup Terminal /\ (row'[j].status = "running")
  BY <1>1, <1>2, WriteIs DEF Live
<1>4. QED
  BY <1>1, <1>3

LEMMA Claims ==
  ASSUME IInv, NEW w \in Workers, Claim(w) \/ ClaimUnanswered(w)
  PROVE  Moved(w) /\ UNCHANGED << started, report >>
<1> DEFINE p == worker[w]
           j == p.job
<1>0. /\ row \in [ Jobs -> Row ] /\ p \in Process /\ j \in Jobs /\ p.at = "claim" /\ QueueType'
      /\ report' \in Reports /\ started' \in [ Jobs -> Nat ] /\ UNCHANGED << started, report >>
  BY Start DEF Claim, ClaimUnanswered, outputVars
<1>1. faults' \in 0 .. MaxFaults
  BY Start, FaultIs, CloudWorkerAssumption DEF Claim, ClaimUnanswered
<1>2. CASE Claimable(row[j]) /\ WriteClaim(j, w) /\ Step(w, [ p EXCEPT !.at = "prepare", !.watch = "sleep" ])
  <2> DEFINE q == [ p EXCEPT !.at = "prepare", !.watch = "sleep" ]
  <2>1. RowsMove /\ row'[j].claim = w /\ row'[j].status = "running" /\ row[j].status = "queued"
    BY <1>0, <1>2, WriteClaimIs
  <2>2. q \in Process /\ q.at = "prepare" /\ q.job = j
    <3> HIDE DEF p
    <3> QED BY <1>0 DEF Process, Places, Watched
  <2>3. started'[j] = 0
    BY <1>0, <2>1 DEF IInv, StartedInv, Waits
  <2> HIDE DEF q, p
  <2>4. worker'[w] = q /\ (ProcessOK(worker[w], w)' => Moved(w))
    BY <1>0, <1>1, <1>2, <2>1, <2>2, Takes DEF q, p
  <2>5. ProcessOK(worker[w], w)'
    BY <1>0, <2>1, <2>2, <2>3, <2>4 DEF ProcessOK, Waits
  <2>6. QED
    BY <1>0, <2>4, <2>5
<1>3. CASE Step(w, Home(p)) /\ (UNCHANGED row \/ (Claimable(row[j]) /\ WriteClaim(j, w)))
  <2>1. RowsMove
    BY <1>0, <1>3, WriteClaimIs, Stays
  <2>2. QED
    BY <1>0, <1>1, <1>3, <2>1, HomeIs, Takes
<1>4. QED
  BY <1>2, <1>3 DEF Claim, ClaimUnanswered

-----------------------------------------------------------------------------
(* The main thread after its claim.                                        *)

(* run.sh is started by the one that holds the claim, and by it once.      *)
LEMMA Prepares ==
  ASSUME IInv, NEW w \in Workers, Prepare(w)
  PROVE  /\ IInv' /\ RowsMove /\ Others(w)
         /\ LET j == worker[w].job
            IN  /\ j \in Jobs /\ row[j].claim = w /\ row[j].status \notin Waits
                /\ \A i \in Jobs : i # j => started'[i] = started[i] /\ report'[i] = report[i]
                /\ report'[j] = report[j] \/ report'[j] = "running"
<1> DEFINE p == worker[w]
           j == p.job
<1>0. /\ row \in [ Jobs -> Row ] /\ p \in Process /\ j \in Jobs /\ p.at = "prepare" /\ QueueType' /\ ProcessOK(p, w)
      /\ report \in Reports /\ started \in [ Jobs -> Nat ] /\ faults' \in 0 .. MaxFaults
      /\ UNCHANGED row
  BY Start DEF Prepare
<1>1. RowsMove /\ row[j].claim = w /\ row[j].status \notin Waits /\ started[j] = 0
  BY <1>0, Stays DEF ProcessOK, Holds, Watched
<1>2. CASE UNCHANGED outputVars /\ Step(w, [ p EXCEPT !.at = "wrap", !.result = "failed" ])
  <2> DEFINE q == [ p EXCEPT !.at = "wrap", !.result = "failed" ]
  <2>1. q \in Process /\ q.at = "wrap" /\ q.job = j /\ q.result \in Terminal
    <3> HIDE DEF p
    <3> QED BY <1>0 DEF Process, Places, Watched, Terminal
  <2> HIDE DEF q, p
  <2>2. Holds(p)
    BY <1>0 DEF Holds, Watched
  <2>3. Moved(w)
    BY <1>0, <1>1, <1>2, <2>1, <2>2, TakesOn DEF p, q, outputVars
  <2>4. IInv'
    BY <1>2, <2>3, MovedKeeps DEF outputVars
  <2>5. QED
    BY <1>0, <1>1, <1>2, <2>3, <2>4 DEF p, Moved, outputVars
<1>3. CASE /\ report' = [ report EXCEPT ![j] = "running" ] /\ started' = [ started EXCEPT ![j] = @ + 1 ]
           /\ Step(w, [ p EXCEPT !.at = "run" ])
  <2> DEFINE q == [ p EXCEPT !.at = "run" ]
  <2>1. q \in Process /\ q.at = "run" /\ q.job = j
    <3> HIDE DEF p
    <3> QED BY <1>0 DEF Process, Places, Watched
  <2> HIDE DEF q, p
  <2>2. /\ report' \in Reports /\ started' \in [ Jobs -> Nat ] /\ started'[j] = 1
        /\ \A i \in Jobs : i # j => started'[i] = started[i] /\ report'[i] = report[i]
    BY <1>0, <1>1, <1>3 DEF Reports, Live
  <2>3. worker'[w] = q /\ (ProcessOK(worker[w], w)' => Moved(w))
    BY <1>0, <1>1, <1>3, <2>1, <2>2, Takes DEF p, q
  <2>4. ProcessOK(worker[w], w)'
    BY <1>0, <1>1, <2>1, <2>3 DEF ProcessOK
  <2>5. ProcessInv'
    BY <1>1, <2>2, <2>3, <2>4, KeepsOthers DEF Moved, IInv, ProcessInv
  <2>6. StartedInv'
    BY <1>0, <1>1, <2>2 DEF IInv, StartedInv
  <2>7. LegacyInv'
    BY <1>0, <1>1, <2>2, ReportsKeep DEF IInv, Waits
  <2>8. TypeOK' /\ FlightInv'
    BY <2>3, <2>4 DEF Moved, Rest, QueueType, TypeOK, RowsMove
  <2>9. QED
    BY <1>0, <1>1, <1>3, <2>2, <2>3, <2>4, <2>5, <2>6, <2>7, <2>8 DEF p, IInv, Moved
<1>4. QED
  BY <1>2, <1>3 DEF Prepare, Goto

LEMMA RunsEndIn ==
  ASSUME IInv, NEW w \in Workers, RunEnds(w) \/ WrapUp(w)
  PROVE  Moved(w) /\ UNCHANGED << started, report, row >>
<1> DEFINE p == worker[w]
           j == p.job
<1>0. /\ row \in [ Jobs -> Row ] /\ p \in Process /\ j \in Jobs /\ QueueType' /\ ProcessOK(p, w)
      /\ p.at \in { "run", "wrap" } /\ report' \in Reports /\ faults' \in 0 .. MaxFaults
      /\ UNCHANGED << started, report, row >>
  BY Start DEF RunEnds, WrapUp, outputVars
<1>1. PICK res \in Terminal, at \in { "wrap", "update" } : Step(w, [ p EXCEPT !.at = at, !.result = res ])
  <2>1. CASE RunEnds(w)
    BY <2>1 DEF RunEnds, Results, Terminal
  <2>2. CASE WrapUp(w)
    <3> DEFINE res == IF p.aborted THEN "failed" ELSE p.result
    <3>1. res \in Terminal
      BY <1>0, <2>2 DEF WrapUp, ProcessOK, Terminal
    <3>2. Step(w, [ p EXCEPT !.at = "update", !.result = res ])
      BY <2>2 DEF WrapUp
    <3>3. QED
      BY <3>1, <3>2
  <2>3. QED
    BY <2>1, <2>2
<1> DEFINE q == [ p EXCEPT !.at = at, !.result = res ]
<1>2. q \in Process /\ q.at = at /\ q.job = j /\ q.result = res
  <2> HIDE DEF p
  <2> QED BY <1>0 DEF Process, Places, Watched, Closing
<1> HIDE DEF q, p
<1>3. Holds(p)
  BY <1>0 DEF Holds, Watched
<1>4. QED
  BY <1>0, <1>1, <1>2, <1>3, TakesOn, Stays DEF p, q

LEMMA AloneIs ==
  ASSUME NEW p \in Process
  PROVE  Alone(p) \in Process /\ Alone(p).job = p.job /\ Alone(p).at = p.at
<1> DEFINE q == [ p EXCEPT !.watch = "off" ]
<1>1. q \in Process /\ q.job = p.job /\ q.at = p.at
  BY DEF Process
<1>2. QED
  BY <1>1 DEF Alone

(* The result is written by the holder of the claim, or not at all.        *)
LEMMA Updates ==
  ASSUME IInv, NEW w \in Workers, Update(w)
  PROVE  /\ Moved(w) /\ UNCHANGED << started, report >>
         /\ worker'[w].at = "publish" => /\ worker'[w].job \in Jobs
                                         /\ worker'[w].result = row'[worker'[w].job].status
<1> DEFINE p == worker[w]
           j == p.job
<1>0. /\ row \in [ Jobs -> Row ] /\ p \in Process /\ j \in Jobs /\ QueueType' /\ p.at = "update"
      /\ p.result \in Terminal /\ report' \in Reports /\ started' \in [ Jobs -> Nat ]
      /\ UNCHANGED << started, report >>
  BY Start DEF Update, outputVars, ProcessOK
<1>1. faults' \in 0 .. MaxFaults
  BY Start, FaultIs, CloudWorkerAssumption DEF Update
<1>2. CASE /\ Fenced(row[j], w) /\ WriteStatus(j, p.result)
           /\ Step(w, [ Alone(p) EXCEPT !.at = "publish", !.result = Returned(p) ])
  <2> DEFINE a == Alone(p)
             res == Returned(p)
             q == [ a EXCEPT !.at = "publish", !.result = res ]
  <2>1. RowsMove /\ row'[j].status \in Terminal /\ res = row'[j].status
    BY <1>0, <1>2, WriteStatusIs DEF Fenced, Live, Returned
  <2>2. a \in Process /\ a.job = j
    BY <1>0, AloneIs
  <2>3. q \in Process /\ q.at = "publish" /\ q.job = j /\ q.result = res
    <3> HIDE DEF a, res
    <3> QED BY <2>1, <2>2 DEF Process, Places, Closing, Terminal
  <2>4. Step(w, q)
    BY <1>2
  <2> HIDE DEF q, p, res
  <2>5. Holds(p)
    BY <1>0 DEF Holds, Closing
  <2>6. Moved(w) /\ worker'[w] = q
    BY <1>0, <1>1, <2>1, <2>3, <2>4, <2>5, TakesOn DEF p
  <2>7. QED
    BY <1>0, <2>1, <2>3, <2>6
<1>3. CASE UNCHANGED row /\ Step(w, Home(p))
  <2>1. Moved(w) /\ worker'[w].at # "publish"
    BY <1>0, <1>1, <1>3, HomeIs, Takes, Stays
  <2>2. QED
    BY <1>0, <2>1
<1>4. QED
  BY <1>2, <1>3 DEF Update

LEMMA AfterErrorIs ==
  ASSUME IInv, NEW w \in Workers, worker[w].at \notin { "off", "poll" }, Step(w, AfterError(worker[w])),
         RowsMove, QueueType', UNCHANGED << report, started >>, faults' \in 0 .. MaxFaults
  PROVE  Moved(w) /\ worker'[w].at \in { "wrap", "update", "off", "poll" }
<1> DEFINE p == worker[w]
           q == [ p EXCEPT !.at = "wrap", !.result = "failed" ]
           r == [ p EXCEPT !.at = "update", !.result = "failed", !.salvage = TRUE ]
<1>0. p \in Process /\ report' \in Reports /\ started' \in [ Jobs -> Nat ]
  BY Start
<1>1. /\ q \in Process /\ q.at = "wrap" /\ q.job = p.job /\ q.result \in Terminal
      /\ r \in Process /\ r.at = "update" /\ r.job = p.job /\ r.result \in Terminal
  <2> HIDE DEF p
  <2> QED BY <1>0 DEF Process, Places, Watched, Closing, Terminal
<1>2. CASE AfterError(p) \in { q, r } /\ p.at \in Watched \cup Closing
  <2> HIDE DEF q, r, p
  <2>1. Holds(p)
    BY <1>2 DEF Holds
  <2>2. QED
    BY <1>0, <1>1, <1>2, <2>1, TakesOn DEF p
<1>3. CASE AfterError(p) = Home(p)
  BY <1>0, <1>3, HomeIs, Takes
<1>4. QED
  BY <1>2, <1>3 DEF AfterError, Watched, Closing

LEMMA UpdatesUnanswered ==
  ASSUME IInv, NEW w \in Workers, UpdateUnanswered(w)
  PROVE  Moved(w) /\ UNCHANGED << started, report >> /\ worker'[w].at \in { "wrap", "update", "off", "poll" }
<1> DEFINE j == worker[w].job
<1>0. /\ row \in [ Jobs -> Row ] /\ j \in Jobs /\ QueueType' /\ worker[w].at = "update"
      /\ worker[w].result \in Terminal /\ UNCHANGED << started, report >>
  BY Start DEF UpdateUnanswered, outputVars, ProcessOK
<1>1. faults' \in 0 .. MaxFaults
  BY Start, FaultIs, CloudWorkerAssumption DEF UpdateUnanswered
<1>2. RowsMove
  BY <1>0, WriteStatusIs DEF UpdateUnanswered, Fenced, Live
<1>3. QED
  BY <1>0, <1>1, <1>2, AfterErrorIs DEF UpdateUnanswered

LEMMA Raises ==
  ASSUME IInv, NEW w \in Workers, Raise(w)
  PROVE  Moved(w) /\ UNCHANGED << started, report, row >> /\ worker'[w].at \in { "wrap", "update", "off", "poll" }
<1>0. /\ row \in [ Jobs -> Row ] /\ QueueType' /\ UNCHANGED << started, report, row >>
      /\ worker[w].at \notin { "off", "poll" }
  BY Start DEF Raise, outputVars, MessageAfterError, Unclaimed, Watched
<1>1. faults' \in 0 .. MaxFaults
  BY Start, FaultIs, CloudWorkerAssumption DEF Raise
<1>2. QED
  BY <1>0, <1>1, AfterErrorIs, Stays DEF Raise

LEMMA Publishes ==
  ASSUME IInv, NEW w \in Workers, Publish(w)
  PROVE  /\ Moved(w) /\ UNCHANGED << row, started >> /\ worker[w].at = "publish" /\ worker[w].job \in Jobs
         /\ report' = [ report EXCEPT ![worker[w].job] = worker[w].result ] /\ row[worker[w].job].status \notin Waits
         /\ worker'[w].at = "ack" /\ worker'[w].job = worker[w].job
<1> DEFINE p == worker[w]
           j == p.job
           q == [ p EXCEPT !.at = "ack" ]
<1>0. /\ row \in [ Jobs -> Row ] /\ p \in Process /\ j \in Jobs /\ QueueType' /\ p.at = "publish" /\ ProcessOK(p, w)
      /\ p.result \in Terminal /\ report \in Reports /\ faults' \in 0 .. MaxFaults /\ UNCHANGED << started, row >>
      /\ report' = [ report EXCEPT ![j] = p.result ] /\ Step(w, q)
  BY Start DEF Publish, Goto, ProcessOK
<1>1. q \in Process /\ q.at = "ack" /\ q.job = j
  <2> HIDE DEF p
  <2> QED BY <1>0 DEF Process, Places
<1> HIDE DEF q, p
<1>2. Holds(p) /\ report' \in Reports /\ row[j].status \notin Waits
  BY <1>0 DEF Holds, Closing, Reports, ProcessOK
<1>3. Moved(w) /\ worker'[w] = q
  BY <1>0, <1>1, <1>2, TakesOn, Stays DEF p
<1>4. QED
  BY <1>0, <1>1, <1>2, <1>3 DEF p

LEMMA Acknowledges ==
  ASSUME IInv, NEW w \in Workers, Acknowledge(w)
  PROVE  Moved(w) /\ UNCHANGED << row, started, report >> /\ worker'[w].at \in { "off", "poll" }
<1> DEFINE p == worker[w]
           j == p.job
<1>0. /\ row \in [ Jobs -> Row ] /\ p \in Process /\ j \in Jobs /\ QueueType
      /\ report' \in Reports /\ started' \in [ Jobs -> Nat ] /\ faults' \in 0 .. MaxFaults
      /\ UNCHANGED << row, started, report >> /\ Step(w, Home(p)) /\ DeleteMessage(j, p.receipt)
  BY Start DEF Acknowledge, outputVars
<1>1. p.receipt \in Nat
  BY <1>0 DEF Process
<1>2. QueueType'
  BY <1>0, <1>1, QueueSteps, FifoQueueAssumption
<1>3. QED
  BY <1>0, <1>2, HomeIs, Takes, Stays

-----------------------------------------------------------------------------
(* The watcher: it moves only next to a main thread that holds the claim.  *)

SameMain(q, p) == q \in Process /\ q.job = p.job /\ q.at = p.at /\ q.result = p.result

LEMMA WatchIs ==
  ASSUME NEW p \in Process
  PROVE  /\ SameMain(Abort(p), p) /\ Abort(p).watch = "off" /\ SameMain([ p EXCEPT !.stop = TRUE ], p)
         /\ [ p EXCEPT !.stop = TRUE ].watch = p.watch
         /\ \A v \in { "off", "sleep", "tend", "renew", "publish" } : SameMain([ p EXCEPT !.watch = v ], p)
BY DEF Process, Abort, SameMain

LEMMA Watches ==
  ASSUME IInv, NEW w \in Workers, NEW q, SameMain(q, worker[w]), Step(w, q),
         worker[w].watch # "off", RowsMove, QueueType', report' \in Reports, UNCHANGED started, faults' \in 0 .. MaxFaults
  PROVE  Moved(w) /\ worker'[w] = q
<1> DEFINE p == worker[w]
<1>1. p \in Process /\ ProcessOK(p, w) /\ p.at \notin { "off", "poll" } /\ Holds(p)
  BY Start DEF Holds
<1>2. q.at \in { "wrap", "update", "publish" } => q.result \in Terminal
  BY <1>1 DEF ProcessOK, SameMain
<1> HIDE DEF p
<1>3. QED
  BY <1>1, <1>2, TakesOn DEF p, SameMain

(* The rounds that leave rows and reports alone.                           *)
LEMMA WatcherLooks ==
  ASSUME IInv, NEW w \in Workers, WatchRead(w) \/ WatchLimit(w) \/ WatchExtend(w) \/ WatchFails(w)
  PROVE  /\ Moved(w) /\ UNCHANGED << row, started, report >>
         /\ SameMain(worker'[w], worker[w])
<1> DEFINE p == worker[w]
<1>0. /\ row \in [ Jobs -> Row ] /\ p \in Process /\ ProcessOK(p, w) /\ QueueType /\ p.watch # "off"
      /\ UNCHANGED << row, started, report >> /\ report' \in Reports
  BY Start DEF WatchRead, WatchLimit, WatchExtend, WatchFails, outputVars
<1>1. faults' \in 0 .. MaxFaults
  BY Start, FaultIs, CloudWorkerAssumption DEF WatchRead, WatchLimit, WatchExtend, WatchFails
<1>2. QueueType'
  <2>1. p.job \in Jobs /\ p.receipt \in Nat
    BY <1>0 DEF ProcessOK, Process
  <2>2. UNCHANGED queueVars \/ ChangeVisibility(p.job, p.receipt, "held")
    BY DEF WatchRead, WatchLimit, WatchExtend, WatchFails
  <2>3. QED
    BY <1>0, <2>1, <2>2, QueueSteps, FifoQueueAssumption
<1>3. RowsMove
  BY <1>0, Stays
<1>4. PICK q \in { Abort(p), [ p EXCEPT !.watch = "tend" ], [ p EXCEPT !.watch = "renew" ] } : Step(w, q)
  BY DEF WatchRead, WatchLimit, WatchExtend, WatchFails
<1>5. SameMain(q, p)
  BY <1>0, <1>4, WatchIs
<1>6. Moved(w) /\ worker'[w] = q
  BY <1>0, <1>1, <1>2, <1>3, <1>4, <1>5, Watches
<1>7. QED
  BY <1>0, <1>5, <1>6

LEMMA WatcherRenews ==
  ASSUME IInv, NEW w \in Workers, WatchRenew(w)
  PROVE  /\ Moved(w) /\ UNCHANGED << started, report >>
         /\ SameMain(worker'[w], worker[w])
         /\ \A j \in Jobs : row'[j].status = row[j].status
<1> DEFINE p == worker[w]
           j == p.job
           q == [ p EXCEPT !.watch = "publish" ]
<1>0. /\ row \in [ Jobs -> Row ] /\ p \in Process /\ j \in Jobs /\ row[j] \in Row /\ QueueType' /\ p.watch = "renew"
      /\ UNCHANGED << started, report >> /\ report' \in Reports /\ faults' \in 0 .. MaxFaults
  BY Start DEF WatchRenew, outputVars
<1>1. SameMain(q, p) /\ SameMain(Abort(p), p)
  BY <1>0, WatchIs
<1>2. CASE Fenced(row[j], w) /\ Write(j, [ row[j] EXCEPT !.lease = 1 ]) /\ Step(w, q)
  <2> DEFINE r == row[j]
             new == [ r EXCEPT !.lease = 1 ]
  <2>1. new \in Row /\ new.status = "running" /\ new.claim = r.claim /\ r.status = "running"
    <3>1. r \in Row /\ r.status = "running"
      BY <1>0, <1>2 DEF Fenced
    <3> HIDE DEF r
    <3>2. QED
      BY <3>1 DEF Row
  <2>2. Write(j, new)
    BY <1>2
  <2> HIDE DEF new
  <2>3. /\ RowsMove /\ \A i \in Jobs : i # j => row'[i] = row[i]
        /\ row'[j].status = "running"
    BY <1>0, <2>1, <2>2, WriteIs DEF Live
  <2> HIDE DEF q
  <2>4. Moved(w) /\ worker'[w] = q
    BY <1>0, <1>1, <1>2, <2>3, Watches
  <2>5. \A i \in Jobs : row'[i].status = row[i].status
    BY <2>1, <2>3
  <2>6. QED
    BY <1>0, <1>1, <2>4, <2>5
<1>3. CASE UNCHANGED row /\ Step(w, Abort(p))
  <2>1. Moved(w) /\ worker'[w] = Abort(p)
    BY <1>0, <1>1, <1>3, Watches, Stays
  <2>2. QED
    BY <1>0, <1>1, <1>3, <2>1
<1>4. QED
  BY <1>2, <1>3 DEF WatchRenew

LEMMA WatcherPublishes ==
  ASSUME IInv, NEW w \in Workers, WatchPublish(w)
  PROVE  /\ Moved(w) /\ UNCHANGED << row, started >> /\ worker[w].job \in Jobs
         /\ report' = [ report EXCEPT ![worker[w].job] = "running" ]
         /\ row[worker[w].job].status \notin Waits
         /\ SameMain(worker'[w], worker[w])
<1> DEFINE p == worker[w]
           j == p.job
           v == IF Told(p) THEN "off" ELSE "sleep"
           q == [ p EXCEPT !.watch = v ]
<1>0. /\ row \in [ Jobs -> Row ] /\ p \in Process /\ j \in Jobs /\ QueueType' /\ p.watch # "off" /\ ProcessOK(p, w)
      /\ UNCHANGED << row, started >> /\ report \in Reports /\ faults' \in 0 .. MaxFaults
      /\ report' = [ report EXCEPT ![j] = "running" ] /\ Step(w, q)
  BY Start DEF WatchPublish
<1>1. SameMain(q, p)
  BY <1>0, WatchIs
<1>2. report' \in Reports /\ row[j].status \notin Waits
  BY <1>0 DEF Reports, Live, ProcessOK, Holds
<1> HIDE DEF q
<1>3. Moved(w) /\ worker'[w] = q
  BY <1>0, <1>1, <1>2, Watches, Stays
<1>4. QED
  BY <1>0, <1>1, <1>2, <1>3

LEMMA Signals ==
  ASSUME IInv, NEW w \in Workers, Signal(w)
  PROVE  /\ Moved(w) /\ UNCHANGED << row, started, report >>
         /\ SameMain(worker'[w], worker[w])
<1> DEFINE p == worker[w]
           q == [ p EXCEPT !.stop = TRUE ]
<1>0. /\ row \in [ Jobs -> Row ] /\ p \in Process /\ QueueType' /\ ProcessOK(p, w) /\ p.at # "off"
      /\ UNCHANGED << row, started, report >> /\ report' \in Reports /\ started' \in [ Jobs -> Nat ]
  BY Start DEF Signal, outputVars
<1>1. faults' \in 0 .. MaxFaults /\ Step(w, q)
  BY Start, FaultIs, CloudWorkerAssumption DEF Signal
<1>2. SameMain(q, p) /\ q.watch = p.watch
  BY <1>0, WatchIs
<1>3. q \in Process /\ q.job = p.job /\ q.at = p.at /\ q.result = p.result
  BY <1>2 DEF SameMain
<1> HIDE DEF q, p
<1>4. RowsMove
  BY <1>0, Stays
<1>5. CASE p.at = "poll"
  <2>1. Moved(w) /\ worker'[w] = q
    BY <1>0, <1>1, <1>2, <1>3, <1>4, <1>5, Takes DEF ProcessOK
  <2>2. QED
    BY <1>0, <1>2, <2>1 DEF p
<1>6. CASE p.at # "poll"
  <2>1. Holds(q) => Holds(p)
    BY <1>2, <1>3 DEF Holds
  <2>2. q.at \in { "wrap", "update", "publish" } => q.result \in Terminal
    BY <1>0, <1>3 DEF ProcessOK
  <2>3. Moved(w) /\ worker'[w] = q
    BY <1>0, <1>1, <1>3, <1>4, <1>6, <2>1, <2>2, TakesOn DEF p
  <2>4. QED
    BY <1>0, <1>2, <2>3 DEF p
<1>7. QED
  BY <1>5, <1>6

-----------------------------------------------------------------------------
(* The invariant.                                                          *)

LEMMA InitInvariant == Init => IInv
<1> SUFFICES ASSUME Init
             PROVE  IInv
  OBVIOUS
<1> USE DEF Init
<1>1. NoRow \in Row /\ NoRow.status = "absent" /\ Off \in Process /\ Off.at = "off" /\ Off.watch = "off"
  BY HomeIs DEF NoRow, Row
<1>2. queue \in [ Owners -> Seq(Jobs) ]
  <2>1. \A j \in Legacy : << j >> \in Seq(Jobs)
    BY CloudWorkerAssumption DEF CloudWorkerAssumption
  <2>2. << >> \in Seq(Jobs)
    OBVIOUS
  <2>3. queue \in [ Owners -> { << >> } \cup { << j >> : j \in Legacy } ]
    OBVIOUS
  <2> HIDE DEF Init
  <2>4. \A o \in Owners : queue[o] = << >> \/ \E j \in Legacy : queue[o] = << j >>
    BY <2>3, Zenon
  <2>5. \A o \in Owners : queue[o] \in Seq(Jobs)
    BY <2>1, <2>2, <2>4, Zenon
  <2>6. QED
    BY <2>3, <2>5
<1>3. TypeOK
  <2>1. /\ row \in [ Jobs -> Row ] /\ worker \in [ Workers -> Process ]
    BY <1>1
  <2>2. report \in [ Jobs -> Live \cup Terminal \cup {"absent"} ]
    BY DEF Live, Terminal
  <2>3. /\ sender \in [ Jobs -> { "none", "sending", "abandoning" } ] /\ canceller \subseteq Legacy
        /\ started \in [ Jobs -> Nat ] /\ withdrawn \subseteq Jobs /\ lost \subseteq Jobs
        /\ faults \in 0 .. MaxFaults /\ window \in [ Owners -> { "visible", "held", "lease" } ]
        /\ receives \in [ Jobs -> 0 .. MaxReceives ] /\ dead \subseteq Jobs
    BY CloudWorkerAssumption, FifoQueueAssumption DEF CloudWorkerAssumption, FifoQueueAssumption
  <2>4. QED
    BY <1>2, <2>1, <2>2, <2>3 DEF TypeOK
<1>4. ProcessInv
  BY <1>1 DEF ProcessInv, ProcessOK, Holds, Watched, Closing
<1>5. StartedInv /\ FlightInv /\ LegacyInv
  BY DEF StartedInv, FlightInv, InFlight, LegacyInv
<1>6. QED
  BY <1>3, <1>4, <1>5 DEF IInv

(* What a step of a worker does to the reports: a row is there.            *)
LEMMA WorkersKeep ==
  ASSUME IInv, NEW w \in Workers,
         \/ Boot(w) \/ Leave(w) \/ MainStep(w) \/ WatchStep(w)
         \/ RunEnds(w) \/ WatchLimit(w)
         \/ ClaimUnanswered(w) \/ UpdateUnanswered(w) \/ Raise(w) \/ WatchFails(w)
         \/ Signal(w) \/ Crash(w)
         \/ \E o \in Owners : Receive(w, o)
  PROVE  IInv' /\ RowsMove
<1>1. CASE Prepare(w)
  BY <1>1, Prepares
<1>2. CASE Publish(w) \/ WatchPublish(w)
  <2>1. PICK st : /\ report' = [ report EXCEPT ![worker[w].job] = st ] /\ row[worker[w].job].status \notin Waits
                  /\ Moved(w) /\ UNCHANGED started
    BY <1>2, Publishes, WatcherPublishes
  <2>2. report \in Reports
    BY Start
  <2>3. \A j \in Jobs : report'[j] # report[j] => row[j].status # "absent" \/ j \in Legacy
    BY <2>1, <2>2 DEF Reports, Waits
  <2>4. QED
    BY <2>1, <2>3, MovedKeeps DEF Moved
<1>3. CASE ~Prepare(w) /\ ~Publish(w) /\ ~WatchPublish(w)
  <2>1. Moved(w) /\ UNCHANGED << started, report >>
    <3>1. CASE Boot(w) \/ Leave(w) \/ Crash(w)
      BY <3>1, Boots
    <3>2. CASE \E o \in Owners : Receive(w, o)
      BY <3>2, Receives
    <3>3. CASE Enlist(w)
      BY <3>3, Enlists
    <3>4. CASE ExpireOrHide(w)
      BY <3>4, ExpiresOrHides
    <3>5. CASE Claim(w) \/ ClaimUnanswered(w)
      BY <3>5, Claims
    <3>6. CASE RunEnds(w) \/ WrapUp(w)
      BY <3>6, RunsEndIn
    <3>7. CASE Update(w)
      BY <3>7, Updates
    <3>8. CASE UpdateUnanswered(w)
      BY <3>8, UpdatesUnanswered
    <3>9. CASE Raise(w)
      BY <3>9, Raises
    <3>10. CASE Acknowledge(w)
      BY <3>10, Acknowledges
    <3>11. CASE WatchRead(w) \/ WatchLimit(w) \/ WatchExtend(w) \/ WatchFails(w)
      BY <3>11, WatcherLooks
    <3>12. CASE WatchRenew(w)
      BY <3>12, WatcherRenews
    <3>13. CASE Signal(w)
      BY <3>13, Signals
    <3>14. QED
      BY <1>3, <3>1, <3>2, <3>3, <3>4, <3>5, <3>6, <3>7, <3>8, <3>9, <3>10, <3>11, <3>12, <3>13
         DEF MainStep, WatchStep
  <2>2. QED
    BY <2>1, MovedKeeps DEF Moved
<1>4. QED
  BY <1>1, <1>2, <1>3

LEMMA NextInvariant == IInv /\ [Next]_vars => IInv' /\ RowsMove
<1> SUFFICES ASSUME IInv, [Next]_vars
             PROVE  IInv' /\ RowsMove
  OBVIOUS
<1>1. CASE Next
  BY <1>1, RequestsKeep, ServicesKeep, WorkersKeep DEF Next
<1>2. CASE UNCHANGED vars
  <2>1. RowsMove /\ UNCHANGED << worker, started, report >>
    BY <1>2, Facts, Stays DEF vars, outputVars
  <2>2. QueueType'
    BY <1>2, QueueSteps, FifoQueueAssumption, Facts DEF vars, Rest
  <2>3. Rest'
    BY <1>2, <2>2, Facts DEF vars, Rest, requestVars, outputVars
  <2>4. QED
    BY <2>1, <2>3, RowOnly
<1>3. QED
  BY <1>1, <1>2

THEOREM WorkerInvariant == Spec => []IInv
BY InitInvariant, NextInvariant, PTL DEF Spec

(* "paid model calls are not automatically repeated": however often a      *)
(* message is delivered, and whatever fails, run.sh is started for a job   *)
(* at most once.                                                           *)
THEOREM AtMostOneAttemptHolds == Spec => []AtMostOneAttempt
<1>1. IInv => AtMostOneAttempt
  BY DEF IInv, StartedInv, AtMostOneAttempt
<1>2. QED
  BY <1>1, WorkerInvariant, PTL

(* update() and claim(): a settled job keeps its verdict, whichever        *)
(* worker, expiry or request comes late.                                   *)
THEOREM SettledIsFinalHolds == Spec => SettledIsFinal
<1>1. IInv /\ [Next]_vars => [ \A j \in Jobs : row[j].status \in Terminal => row'[j].status = row[j].status ]_vars
  BY NextInvariant DEF RowsMove, RowMoves
<1>2. QED
  BY <1>1, WorkerInvariant, PTL DEF Spec, SettledIsFinal

-----------------------------------------------------------------------------
(* Once the old queue is drained.  Every message then has a row and every  *)
(* report a worker that stands behind it.                                  *)

Members(q) == { q[i] : i \in DOMAIN q }

(* A place the main thread is at says something of its job: it has waited, *)
(* it has the status that gets published, nobody withdrew it in time.      *)
PlaceOK(p) ==
  /\ p.at # "enlist"
  /\ p.at = "ack" => row[p.job].status \notin Waits
  /\ p.at = "publish" => p.result = row[p.job].status
  /\ p.at = "prepare" => p.job \notin withdrawn

PlacesInv == \A w \in Workers : PlaceOK(worker[w])

WithdrawnInv == \A j \in withdrawn : row[j].status = "cancelled" /\ started[j] = 0

MessageInv ==
  /\ \A o \in Owners : \A j \in Members(queue[o]) : OwnerOf[j] = o /\ row[j].status # "absent"
  /\ \A j \in Jobs : sender[j] # "none" => row[j].status # "absent"

Drained == PlacesInv /\ PublishedIsTrue /\ WithdrawnInv /\ MessageInv /\ QueuedIsQueued

LEMMA MembersOf ==
  ASSUME NEW q \in Seq(Jobs)
  PROVE  /\ Members(q) \subseteq Jobs
         /\ \A j \in Jobs : Members(Append(q, j)) = Members(q) \cup {j}
         /\ q # << >> => /\ Head(q) \in Members(q) /\ Members(Tail(q)) \subseteq Members(q)
                         /\ \A j \in Members(q) : j \in Members(Tail(q)) \/ j = Head(q)
<1>1. Members(q) \subseteq Jobs
  BY DEF Members
<1>2. ASSUME NEW j \in Jobs
      PROVE  Members(Append(q, j)) = Members(q) \cup {j}
  <2> DEFINE r == Append(q, j)
             n == Len(q)
  <2>1. n \in Nat /\ DOMAIN q = 1 .. n /\ DOMAIN r = 1 .. n + 1 /\ r[n + 1] = j /\ \A k \in 1 .. n : r[k] = q[k]
    OBVIOUS
  <2> HIDE DEF r, n
  <2>2. Members(r) \subseteq Members(q) \cup {j}
    <3> SUFFICES ASSUME NEW k \in DOMAIN r PROVE r[k] \in Members(q) \cup {j}
      BY DEF Members
    <3>1. k = n + 1 \/ k \in 1 .. n
      BY <2>1
    <3>2. QED
      BY <2>1, <3>1 DEF Members
  <2>3. Members(q) \cup {j} \subseteq Members(r)
    <3>1. n + 1 \in 1 .. n + 1 /\ \A k \in 1 .. n : k \in 1 .. n + 1
      BY <2>1
    <3>2. QED
      BY <2>1, <3>1 DEF Members
  <2>4. QED
    BY <2>2, <2>3 DEF r
<1>3. ASSUME q # << >>
      PROVE  /\ Head(q) \in Members(q) /\ Members(Tail(q)) \subseteq Members(q)
             /\ \A j \in Members(q) : j \in Members(Tail(q)) \/ j = Head(q)
  <2> DEFINE t == Tail(q)
             n == Len(q)
  <2>1. /\ n \in Nat /\ n # 0 /\ DOMAIN q = 1 .. n /\ DOMAIN t = 1 .. n - 1 /\ Head(q) = q[1]
        /\ \A k \in 1 .. n - 1 : t[k] = q[k + 1]
    BY <1>3
  <2> HIDE DEF t, n
  <2>2. Head(q) \in Members(q)
    BY <2>1 DEF Members
  <2>3. Members(t) \subseteq Members(q)
    <3> SUFFICES ASSUME NEW k \in DOMAIN t PROVE t[k] \in Members(q)
      BY DEF Members
    <3>1. k + 1 \in 1 .. n
      BY <2>1
    <3>2. QED
      BY <2>1, <3>1 DEF Members
  <2>4. ASSUME NEW k \in DOMAIN q
        PROVE  q[k] \in Members(t) \/ q[k] = Head(q)
    <3>1. CASE k = 1
      BY <2>1, <3>1
    <3>2. CASE k # 1
      <4>1. k - 1 \in 1 .. n - 1 /\ (k - 1) + 1 = k
        BY <2>1, <3>2
      <4>2. QED
        BY <2>1, <4>1 DEF Members
    <3>3. QED
      BY <3>1, <3>2
  <2>5. QED
    BY <2>2, <2>3, <2>4 DEF Members, t
<1>4. QED
  BY <1>1, <1>2, <1>3

(* What is on the queue: a message stays unless it is deleted or goes to   *)
(* the dead letters.                                                       *)
QueueKeeps(gone) ==
  /\ dead \subseteq dead'
  /\ \A o \in Owners : /\ Members(queue'[o]) \subseteq Members(queue[o])
                       /\ \A j \in Members(queue[o]) : j \in Members(queue'[o]) \/ j \in gone \/ j \in dead'

LEMMA KeepsMessages ==
  ASSUME QueueType, FifoQueueAssumption,
         \/ UNCHANGED queueVars
         \/ \E o \in Owners : ReceiveMessage(o) \/ Reappear(o) \/ DeadLetter(o)
         \/ \E j \in Jobs, n \in Nat : ChangeVisibility(j, n, "held") \/ ChangeVisibility(j, n, "lease")
  PROVE  QueueKeeps({})
<1>1. CASE UNCHANGED << queue, dead >>
  BY <1>1 DEF QueueKeeps
<1>2. CASE \E o \in Owners : DeadLetter(o)
  <2>1. PICK o \in Owners : DeadLetter(o)
    BY <1>2
  <2> DEFINE q == queue[o]
             t == Tail(q)
  <2>2. queue' = [ queue EXCEPT ![o] = t ] /\ dead' = dead \cup { Head(q) } /\ q # << >> /\ q \in Seq(Jobs)
    BY <2>1 DEF DeadLetter, QueueType
  <2>3. Members(t) \subseteq Members(q) /\ \A j \in Members(q) : j \in Members(t) \/ j = Head(q)
    BY <2>2, MembersOf
  <2>4. queue'[o] = t /\ \A u \in Owners : u # o => queue'[u] = queue[u]
    <3> HIDE DEF t
    <3> QED BY <2>2 DEF QueueType
  <2> HIDE DEF q, t
  <2>5. QED
    BY <2>2, <2>3, <2>4 DEF QueueKeeps, q
<1>3. QED
  BY <1>1, <1>2 DEF queueVars, ReceiveMessage, Reappear, ChangeVisibility

LEMMA DeletesMessage ==
  ASSUME QueueType, FifoQueueAssumption, NEW j \in Jobs, NEW n \in Nat, DeleteMessage(j, n)
  PROVE  QueueKeeps({j})
<1>1. CASE Good(j, n)
  <2> DEFINE o == OwnerOf[j]
             q == queue[o]
             t == Tail(q)
  <2>1. queue' = [ queue EXCEPT ![o] = t ] /\ dead' = dead /\ q # << >> /\ q \in Seq(Jobs) /\ o \in Owners /\ Head(q) = j
    BY <1>1 DEF DeleteMessage, Good, QueueType, FlightInv, FifoQueueAssumption
  <2>2. Members(t) \subseteq Members(q) /\ \A i \in Members(q) : i \in Members(t) \/ i = j
    BY <2>1, MembersOf
  <2>3. queue'[o] = t /\ \A u \in Owners : u # o => queue'[u] = queue[u]
    <3> HIDE DEF t, o
    <3> QED BY <2>1 DEF QueueType
  <2> HIDE DEF q, t, o
  <2>4. QED
    BY <2>1, <2>2, <2>3 DEF QueueKeeps, q
<1>2. CASE ~Good(j, n)
  BY <1>2 DEF DeleteMessage, queueVars, QueueKeeps
<1>3. QED
  BY <1>1, <1>2

LEMMA SendsMessage ==
  ASSUME QueueType, FifoQueueAssumption, NEW j \in Jobs, SendMessage(j)
  PROVE  /\ j \in Members(queue'[OwnerOf[j]]) /\ dead' = dead
         /\ \A o \in Owners : /\ Members(queue[o]) \subseteq Members(queue'[o])
                              /\ \A i \in Members(queue'[o]) : i \in Members(queue[o]) \/ (i = j /\ o = OwnerOf[j])
<1> DEFINE o == OwnerOf[j]
           q == queue[o]
           t == Append(q, j)
<1>1. queue' = [ queue EXCEPT ![o] = t ] /\ dead' = dead /\ q \in Seq(Jobs) /\ o \in Owners
  BY DEF SendMessage, QueueType, FifoQueueAssumption
<1>2. Members(t) = Members(q) \cup {j}
  BY <1>1, MembersOf
<1>3. queue'[o] = t /\ \A u \in Owners : u # o => queue'[u] = queue[u]
  <2> HIDE DEF t, o
  <2> QED BY <1>1 DEF QueueType
<1> HIDE DEF q, t
<1>4. QED
  BY <1>1, <1>2, <1>3 DEF q

(* The messages, whatever a step does to them.                             *)
LEMMA MessagesKeep ==
  ASSUME IInv, MessageInv, QueuedIsQueued, RowsMove, lost \subseteq lost', dead \subseteq dead',
         \A o \in Owners : \A i \in Members(queue'[o]) : i \in Members(queue[o]) \/ (sender[i] # "none" /\ i \in Jobs /\ OwnerOf[i] = o),
         \A i \in Jobs : sender'[i] # "none" => sender[i] # "none" \/ row'[i].status # "absent",
         \A i \in Jobs : row'[i].status = "queued" =>
           /\ row[i].status = "queued" \/ sender'[i] # "none"
           /\ sender[i] # "none" => sender'[i] # "none" \/ i \in lost' \/ i \in Members(queue'[OwnerOf[i]])
           /\ i \in Members(queue[OwnerOf[i]]) => i \in Members(queue'[OwnerOf[i]]) \/ i \in dead'
  PROVE  MessageInv' /\ QueuedIsQueued'
<1>1. \A i \in Jobs : row[i].status # "absent" => row'[i].status # "absent"
  BY DEF RowsMove, RowMoves, Waits
<1>2. \A o \in Owners : Members(queue[o]) \subseteq Jobs
  BY MembersOf DEF IInv, TypeOK
<1>3. MessageInv'
  BY <1>1, <1>2 DEF MessageInv
<1>4. \A i \in Jobs : OnQueue(i) <=> i \in Members(queue[OwnerOf[i]])
  BY DEF OnQueue, Members
<1>5. \A i \in Jobs : OnQueue(i)' <=> i \in Members(queue'[OwnerOf[i]])
  BY DEF OnQueue, Members
<1>6. QueuedIsQueued'
  BY <1>4, <1>5 DEF QueuedIsQueued
<1>7. QED
  BY <1>3, <1>6

(* A process whose main thread stays where it is.                          *)
LEMMA PlaceStays ==
  ASSUME IInv, PlacesInv, RowsMove, NEW w \in Workers, SameMain(worker'[w], worker[w]),
         \A j \in Jobs : j \in withdrawn' => j \in withdrawn \/ row[j].status \in Waits
  PROVE  PlaceOK(worker[w])'
<1> DEFINE p == worker[w]
           q == worker'[w]
<1>1. ProcessOK(p, w) /\ p \in Process /\ PlaceOK(p) /\ q.at = p.at /\ q.job = p.job /\ q.result = p.result
  BY Start DEF PlacesInv, SameMain
<1> HIDE DEF p, q
<1>2. CASE p.at \in { "ack", "publish" }
  <2>1. p.job \in Jobs
    BY <1>1, <1>2 DEF ProcessOK
  <2>2. RowMoves(p.job)
    BY <2>1 DEF RowsMove
  <2>3. QED
    BY <1>1, <1>2, <2>2 DEF PlaceOK, ProcessOK, RowMoves, Terminal, Waits, q
<1>3. CASE p.at = "prepare"
  <2>1. p.job \in Jobs /\ row[p.job].status \notin Waits
    BY <1>1, <1>3 DEF ProcessOK, Holds, Watched
  <2>2. QED
    BY <1>1, <1>3, <2>1 DEF PlaceOK, q
<1>4. CASE p.at \notin { "ack", "publish", "prepare" }
  BY <1>1, <1>4 DEF PlaceOK, q
<1>5. QED
  BY <1>2, <1>3, <1>4

LEMMA WithdrawnStays ==
  ASSUME WithdrawnInv, RowsMove, withdrawn \subseteq Jobs, UNCHANGED withdrawn, \A j \in withdrawn : started'[j] = started[j]
  PROVE  WithdrawnInv'
BY DEF WithdrawnInv, RowsMove, RowMoves, Terminal

LEMMA ReportsStay ==
  ASSUME PublishedIsTrue, RowsMove,
         \A j \in Jobs : report'[j] \in Terminal => report'[j] = report[j] \/ report'[j] = row'[j].status
  PROVE  PublishedIsTrue'
BY DEF PublishedIsTrue, RowsMove, RowMoves

(* Requests, clock and services.                                           *)
LEMMA RequestsDrain ==
  ASSUME Legacy = {}, IInv, Drained, NEW j \in Jobs,
         \/ Submit(j) \/ Send(j) \/ SendFails(j) \/ Abandon(j) \/ SenderDies(j)
         \/ Cancel(j) \/ CancelLegacy(j) \/ CancelLegacyWrite(j)
         \/ LeaseRunsOut(j) \/ ControllerExpires(j)
  PROVE  Drained'
<1>0. /\ row \in [ Jobs -> Row ] /\ QueueType /\ RowsMove /\ UNCHANGED << worker, started >> /\ IInv'
      /\ sender \in [ Jobs -> { "none", "sending", "abandoning" } ] /\ withdrawn \subseteq Jobs
      /\ FifoQueueAssumption
  BY Facts, RequestsKeep, FifoQueueAssumption DEF Rest
<1>1. ~CancelLegacy(j) /\ ~CancelLegacyWrite(j)
  BY DEF CancelLegacy, CancelLegacyWrite, IInv, LegacyInv, TypeOK
<1>2. PublishedIsTrue'
  <2>1. UNCHANGED report
    BY <1>1 DEF Submit, Send, SendFails, Abandon, SenderDies, Cancel, LeaseRunsOut, ControllerExpires, outputVars
  <2>2. QED
    BY <1>0, <2>1, ReportsStay DEF Drained
<1>3. /\ \A i \in Jobs : i \in withdrawn' => i \in withdrawn \/ (i = j /\ Cancel(j) /\ row[j].status = "queued")
      /\ withdrawn \subseteq withdrawn' /\ withdrawn' \subseteq Jobs
  BY <1>0, <1>1 DEF Submit, Send, SendFails, Abandon, SenderDies, Cancel, LeaseRunsOut, ControllerExpires, requestVars
<1>4. PlacesInv'
  <2> SUFFICES ASSUME NEW w \in Workers PROVE PlaceOK(worker[w])'
    BY DEF PlacesInv
  <2>1. SameMain(worker'[w], worker[w])
    BY <1>0, Start DEF SameMain
  <2>2. QED
    BY <1>0, <1>3, <2>1, PlaceStays DEF Drained, Waits
<1>5. WithdrawnInv'
  <2>1. CASE Cancel(j) /\ row[j].status = "queued"
    <3> DEFINE r == row[j]
               new == [ r EXCEPT !.cancelled = TRUE ]
    <3>1. new \in Row /\ new.status = "queued" /\ new.cancelled /\ row[j] \in Row
      <4>1. r \in Row /\ r.status = "queued"
        BY <1>0, <2>1
      <4> HIDE DEF r
      <4>2. QED
        BY <1>0, <4>1 DEF Row
    <3>2. row' = [ row EXCEPT ![j] = Written(j, new) ]
      BY <2>1 DEF Cancel, Write
    <3> HIDE DEF new
    <3>3. Written(j, new).status = "cancelled"
      BY <3>1, WrittenIs
    <3>4. row'[j].status = "cancelled" /\ started'[j] = 0
      BY <1>0, <2>1, <3>2, <3>3 DEF IInv, StartedInv, Waits
    <3>5. \A i \in withdrawn : row'[i].status = "cancelled" /\ started'[i] = 0
      BY <1>0 DEF Drained, WithdrawnInv, RowsMove, RowMoves, Terminal
    <3>6. QED
      BY <1>3, <3>4, <3>5 DEF WithdrawnInv
  <2>2. CASE ~(Cancel(j) /\ row[j].status = "queued")
    BY <1>0, <1>3, <2>2, WithdrawnStays DEF Drained
  <2>3. QED
    BY <2>1, <2>2
<1>6. MessageInv' /\ QueuedIsQueued'
  <2> USE DEF Drained
  <2>1. CASE Submit(j)
    <3>1. /\ row[j].status = "absent" /\ row' = [ row EXCEPT ![j] = Submitted(TRUE) ] /\ Submitted(TRUE).status = "queued"
          /\ sender' = [ sender EXCEPT ![j] = "sending" ] /\ UNCHANGED << queue, dead, lost >>
      BY <2>1 DEF Submit, Submitted, queueVars
    <3>2. \A i \in Jobs : i # j => row'[i] = row[i] /\ sender'[i] = sender[i]
      BY <1>0, <3>1
    <3>3. row'[j].status = "queued" /\ sender'[j] = "sending"
      BY <1>0, <3>1
    <3>4. QED
      BY <1>0, <3>1, <3>2, <3>3, MessagesKeep
  <2>2. CASE Send(j)
    <3>1. sender[j] = "sending" /\ sender' = [ sender EXCEPT ![j] = "none" ] /\ UNCHANGED << row, lost >> /\ SendMessage(j)
      BY <2>2 DEF Send
    <3>2. /\ j \in Members(queue'[OwnerOf[j]]) /\ dead' = dead
          /\ \A o \in Owners : /\ Members(queue[o]) \subseteq Members(queue'[o])
                               /\ \A i \in Members(queue'[o]) : i \in Members(queue[o]) \/ (i = j /\ o = OwnerOf[j])
      BY <1>0, <3>1, SendsMessage
    <3>3. \A i \in Jobs : OwnerOf[i] \in Owners
      BY <1>0 DEF FifoQueueAssumption
    <3>4. \A i \in Jobs : i # j => sender'[i] = sender[i]
      BY <1>0, <3>1
    <3>5. sender'[j] = "none"
      BY <1>0, <3>1
    <3>6. QED
      BY <1>0, <3>1, <3>2, <3>3, <3>4, <3>5, MessagesKeep
  <2>3. CASE SendFails(j)
    <3>1. /\ sender[j] = "sending" /\ sender' = [ sender EXCEPT ![j] = "abandoning" ] /\ UNCHANGED << row, lost >>
          /\ SendMessage(j) \/ UNCHANGED queueVars
      BY <2>3 DEF SendFails
    <3>2. /\ dead' = dead
          /\ \A o \in Owners : /\ Members(queue[o]) \subseteq Members(queue'[o])
                               /\ \A i \in Members(queue'[o]) : i \in Members(queue[o]) \/ (i = j /\ o = OwnerOf[j])
      BY <1>0, <3>1, SendsMessage DEF queueVars
    <3>3. \A i \in Jobs : OwnerOf[i] \in Owners
      BY <1>0 DEF FifoQueueAssumption
    <3>4. \A i \in Jobs : sender'[i] # "none" <=> sender[i] # "none"
      BY <1>0, <3>1
    <3>5. QED
      BY <1>0, <3>1, <3>2, <3>3, <3>4, MessagesKeep
  <2>4. CASE Abandon(j)
    <3>1. /\ sender[j] = "abandoning" /\ sender' = [ sender EXCEPT ![j] = "none" ] /\ UNCHANGED << queue, dead, lost >>
          /\ GivesUp(j)
      BY <2>4 DEF Abandon, queueVars
    <3>2. row[j].status # "absent"
      BY <3>1 DEF MessageInv
    <3>3. row'[j].status # "queued" /\ \A i \in Jobs : i # j => row'[i] = row[i]
      <4>1. CASE row[j].status = "queued"
        BY <1>0, <3>1, <4>1, WriteStatusIs DEF GivesUp, Live, Terminal
      <4>2. CASE row[j].status # "queued"
        BY <1>0, <3>1, <4>2 DEF GivesUp
      <4>3. QED
        BY <4>1, <4>2
    <3>4. \A i \in Jobs : i # j => sender'[i] = sender[i]
      BY <1>0, <3>1
    <3>5. QED
      BY <1>0, <3>1, <3>2, <3>3, <3>4, MessagesKeep
  <2>5. CASE SenderDies(j)
    <3>1. sender[j] # "none" /\ sender' = [ sender EXCEPT ![j] = "none" ] /\ UNCHANGED << queue, dead, row >> /\ lost' = lost \cup {j}
      BY <2>5 DEF SenderDies, queueVars
    <3>2. \A i \in Jobs : i # j => sender'[i] = sender[i]
      BY <1>0, <3>1
    <3>3. sender'[j] = "none"
      BY <1>0, <3>1
    <3>4. QED
      BY <1>0, <3>1, <3>2, <3>3, MessagesKeep
  <2>6. CASE Cancel(j) \/ LeaseRunsOut(j) \/ ControllerExpires(j)
    <3>1. UNCHANGED << queue, dead, sender, lost >> /\ row[j].status \in Live
      BY <2>6 DEF Cancel, Cancellable, LeaseRunsOut, ControllerExpires, Lapsed, Live, queueVars, requestVars
    <3>2. PICK new : row' = [ row EXCEPT ![j] = new ]
      BY <2>6 DEF Cancel, LeaseRunsOut, ControllerExpires, Write, WriteStatus
    <3>3. \A i \in Jobs : i # j => row'[i] = row[i]
      BY <1>0, <3>2
    <3>4. row'[j].status = "queued" => row[j].status = "queued"
      BY <1>0, <3>1 DEF RowsMove, RowMoves, Waits, Live
    <3>5. QED
      BY <1>0, <3>1, <3>3, <3>4, MessagesKeep
  <2>7. QED
    BY <1>1, <2>1, <2>2, <2>3, <2>4, <2>5, <2>6
<1>7. QED
  BY <1>2, <1>4, <1>5, <1>6 DEF Drained

LEMMA ServicesDrain ==
  ASSUME IInv, Drained, NEW o \in Owners, WindowCloses(o) \/ Discard(o)
  PROVE  Drained'
<1>0. /\ row \in [ Jobs -> Row ] /\ QueueType /\ RowsMove /\ UNCHANGED << worker, started >>
      /\ withdrawn \subseteq Jobs /\ FifoQueueAssumption /\ UNCHANGED << row, report, sender, withdrawn, lost >>
  BY Facts, ServicesKeep, FifoQueueAssumption DEF Rest, WindowCloses, Discard, requestVars, outputVars
<1>1. QueueKeeps({})
  BY <1>0, KeepsMessages DEF WindowCloses, Discard
<1>2. \A i \in Jobs : OwnerOf[i] \in Owners
  BY <1>0 DEF FifoQueueAssumption
<1>3. MessageInv' /\ QueuedIsQueued'
  BY <1>0, <1>1, <1>2, MessagesKeep DEF QueueKeeps, Drained
<1>4. PlacesInv'
  BY <1>0, PlaceStays, Start DEF PlacesInv, Drained, SameMain
<1>5. PublishedIsTrue' /\ WithdrawnInv'
  BY <1>0, ReportsStay, WithdrawnStays DEF Drained
<1>6. QED
  BY <1>3, <1>4, <1>5 DEF Drained

(* The steps of a worker.                                                  *)
WorkerStep(w) ==
  \/ Boot(w) \/ Leave(w) \/ MainStep(w) \/ WatchStep(w)
  \/ RunEnds(w) \/ WatchLimit(w)
  \/ ClaimUnanswered(w) \/ UpdateUnanswered(w) \/ Raise(w) \/ WatchFails(w)
  \/ Signal(w) \/ Crash(w)
  \/ \E o \in Owners : Receive(w, o)

(* Where a step can take the main thread, once no message lacks a row.     *)
LEMMA HomeOK ==
  ASSUME NEW p, p.at \in { "off", "poll", "expire", "claim", "run", "wrap", "update" }
  PROVE  PlaceOK(p) /\ PlaceOK(p)'
BY DEF PlaceOK

LEMMA ReceivesWell ==
  ASSUME Legacy = {}, IInv, Drained, NEW w \in Workers, NEW o \in Owners, Receive(w, o)
  PROVE  PlaceOK(worker[w])'
<1> DEFINE p == worker[w]
           j == Head(queue[o])
           n == receives[j] + 1
           q == IF NextPlace(j) = "poll" THEN Home(p) ELSE [ p EXCEPT !.at = NextPlace(j), !.job = j, !.receipt = n ]
<1>0. /\ row \in [ Jobs -> Row ] /\ worker \in [ Workers -> Process ] /\ p \in Process /\ queue[o] \in Seq(Jobs)
  BY Facts DEF Rest, QueueType
<1>1. queue[o] # << >> /\ Step(w, q) /\ UNCHANGED row
  BY DEF Receive, ReceiveMessage, Receivable
<1>2. worker'[w] = q
  <2> HIDE DEF q
  <2> QED BY <1>0, <1>1 DEF Step
<1>3. j \in Jobs /\ row[j].status # "absent"
  BY <1>0, <1>1, MembersOf DEF Drained, MessageInv
<1>4. CASE NextPlace(j) = "poll"
  BY <1>2, <1>4, HomeIs, HomeOK DEF PlaceOK
<1>5. CASE NextPlace(j) # "poll"
  <2>1. q.at = NextPlace(j) /\ q.job = j
    <3> HIDE DEF p, j, n
    <3> QED BY <1>0, <1>5 DEF Process
  <2>2. NextPlace(j) \in { "expire", "claim" } \/ (NextPlace(j) = "ack" /\ row[j].status \notin Waits)
    BY <1>3, <1>5 DEF NextPlace, Waits
  <2> HIDE DEF q
  <2>3. QED
    BY <1>1, <1>2, <2>1, <2>2 DEF PlaceOK
<1>6. QED
  BY <1>4, <1>5

LEMMA GoesWell ==
  ASSUME Legacy = {}, IInv, Drained, NEW w \in Workers, WorkerStep(w)
  PROVE  PlaceOK(worker[w])'
<1> DEFINE p == worker[w]
           j == p.job
<1>0. /\ row \in [ Jobs -> Row ] /\ worker \in [ Workers -> Process ] /\ p \in Process /\ ProcessOK(p, w)
      /\ p.at \notin { "off", "poll" } => j \in Jobs /\ row[j] \in Row
      /\ \A q : Step(w, q) => worker'[w] = q
      /\ p.at # "enlist" /\ withdrawn \subseteq Jobs
  BY Facts, Start DEF Step, Drained, PlacesInv, PlaceOK, Rest
<1>1. RowsMove
  BY WorkersKeep DEF WorkerStep
<1>2. CASE Boot(w) \/ Leave(w) \/ Crash(w)
  BY <1>0, <1>2, HomeIs DEF Boot, Leave, Crash, PlaceOK
<1>3. CASE \E o \in Owners : Receive(w, o)
  BY <1>3, ReceivesWell
<1>4. CASE ExpireOrHide(w)
  <2> DEFINE q == [ p EXCEPT !.at = "ack" ]
  <2>1. q.at = "ack" /\ q.job = j
    <3> HIDE DEF p
    <3> QED BY <1>0 DEF Process
  <2>2. \/ Step(w, q) /\ Lapsed(row[j], 1) /\ WriteStatus(j, "failed")
        \/ Step(w, q) /\ row[j].status \in Terminal /\ UNCHANGED row
        \/ Step(w, Home(p))
    BY <1>4 DEF ExpireOrHide, Goto
  <2>3. j \in Jobs
    BY <1>0, <1>4 DEF ExpireOrHide
  <2> HIDE DEF q, p
  <2>4. CASE Step(w, q) /\ Lapsed(row[j], 1) /\ WriteStatus(j, "failed")
    <3>1. row'[j].status \notin Waits
      BY <1>0, <2>3, <2>4, WriteStatusIs DEF Lapsed, Live, Terminal, Waits
    <3>2. QED
      BY <1>0, <2>1, <2>4, <3>1 DEF PlaceOK
  <2>5. CASE Step(w, q) /\ row[j].status \in Terminal /\ UNCHANGED row
    BY <1>0, <2>1, <2>5 DEF PlaceOK, Terminal, Waits
  <2>6. CASE Step(w, Home(p))
    BY <1>0, <2>6, HomeIs DEF PlaceOK
  <2>7. QED
    BY <2>2, <2>4, <2>5, <2>6
<1>5. CASE Claim(w) \/ ClaimUnanswered(w)
  <2> DEFINE q == [ p EXCEPT !.at = "prepare", !.watch = "sleep" ]
  <2>1. q.at = "prepare" /\ q.job = j
    <3> HIDE DEF p
    <3> QED BY <1>0 DEF Process
  <2>2. (Step(w, q) /\ Claimable(row[j]) /\ UNCHANGED withdrawn) \/ Step(w, Home(p))
    BY <1>5 DEF Claim, ClaimUnanswered, Step, requestVars
  <2> HIDE DEF q, p
  <2>3. row[j].status = "queued" => j \notin withdrawn
    BY DEF Drained, WithdrawnInv
  <2>4. QED
    BY <1>0, <2>1, <2>2, <2>3, HomeIs DEF PlaceOK, Claimable
<1>6. CASE Prepare(w) \/ RunEnds(w) \/ WrapUp(w)
  <2>0. PICK at \in { "run", "wrap", "update" } : \/ \E res : Step(w, [ p EXCEPT !.at = at, !.result = res ])
                                              \/ Step(w, [ p EXCEPT !.at = at ])
    BY <1>6 DEF Prepare, RunEnds, WrapUp, Goto
  <2>1. PICK res : Step(w, [ p EXCEPT !.at = at, !.result = res ]) \/ Step(w, [ p EXCEPT !.at = at ])
    BY <2>0
  <2> DEFINE q == [ p EXCEPT !.at = at, !.result = res ]
             r == [ p EXCEPT !.at = at ]
  <2>2. q.at = at /\ r.at = at
    <3> HIDE DEF p
    <3> QED BY <1>0 DEF Process
  <2> HIDE DEF q, r, p
  <2>3. QED
    BY <1>0, <2>1, <2>2 DEF PlaceOK, q, r
<1>7. CASE Update(w)
  <2>1. /\ worker'[w].at = "publish" => worker'[w].result = row'[worker'[w].job].status
    BY <1>7, Updates
  <2>2. PICK q : worker'[w] = q /\ q.at \in { "publish", "off", "poll" }
    <3> DEFINE a == Alone(p)
               res == Returned(p)
               q == [ a EXCEPT !.at = "publish", !.result = res ]
    <3>1. a \in Process
      BY <1>0, AloneIs
    <3>2. q.at = "publish"
      <4> HIDE DEF a, res
      <4> QED BY <3>1 DEF Process
    <3>3. Step(w, q) \/ Step(w, Home(p))
      BY <1>7 DEF Update
    <3> HIDE DEF q
    <3>4. QED
      BY <1>0, <3>2, <3>3, HomeIs
  <2>3. QED
    BY <2>1, <2>2 DEF PlaceOK
<1>8. CASE UpdateUnanswered(w) \/ Raise(w)
  BY <1>8, UpdatesUnanswered, Raises DEF PlaceOK
<1>9. CASE Publish(w)
  BY <1>1, <1>9, Publishes DEF PlaceOK, RowsMove, RowMoves
<1>10. CASE Acknowledge(w)
  BY <1>10, Acknowledges DEF PlaceOK
<1>11. CASE WatchStep(w) \/ WatchLimit(w) \/ WatchFails(w) \/ Signal(w)
  <2>1. SameMain(worker'[w], worker[w]) /\ UNCHANGED withdrawn
    BY <1>11, WatcherLooks, WatcherRenews, WatcherPublishes, Signals
       DEF WatchStep, WatchRead, WatchLimit, WatchExtend, WatchRenew, WatchPublish, WatchFails, Signal, Step, requestVars
  <2>2. QED
    BY <1>1, <2>1, PlaceStays DEF Drained
<1>12. CASE Enlist(w)
  BY <1>0, <1>12 DEF Enlist
<1>13. QED
  BY <1>2, <1>3, <1>4, <1>5, <1>6, <1>7, <1>8, <1>9, <1>10, <1>11, <1>12 DEF WorkerStep, MainStep

(* What a step of a worker does to the rows, the messages, the starts and  *)
(* the reports.                                                            *)
LEMMA WritesLive ==
  ASSUME IInv, NEW w \in Workers, WorkerStep(w), worker[w].at # "enlist"
  PROVE  \A i \in Jobs : row[i].status = "absent" => row'[i] = row[i]
<1>0. row \in [ Jobs -> Row ]
  BY Facts
<1>1. \/ UNCHANGED row
      \/ \E j, new : row' = [ row EXCEPT ![j] = new ] /\ row[j].status \in Live
  BY Zenon DEF WorkerStep, Boot, Leave, MainStep, WatchStep, RunEnds, WatchLimit, ClaimUnanswered, UpdateUnanswered, Raise,
     WatchFails, Signal, Crash, Receive, Enlist, ExpireOrHide, Claim, Prepare, WrapUp, Update, Publish, Acknowledge,
     WatchRead, WatchExtend, WatchRenew, WatchPublish, Claimable, Fenced, Lapsed, Write, WriteStatus, WriteClaim, Live
<1>2. QED
  BY <1>0, <1>1 DEF Live

LEMMA RequestsRest ==
  ASSUME NEW w, WorkerStep(w)
  PROVE  UNCHANGED requestVars
BY DEF WorkerStep, Boot, Leave, MainStep, WatchStep, RunEnds, WatchLimit, ClaimUnanswered, UpdateUnanswered, Raise,
   WatchFails, Signal, Crash, Receive, Enlist, ExpireOrHide, Claim, Prepare, WrapUp, Update, Publish, Acknowledge,
   WatchRead, WatchExtend, WatchRenew, WatchPublish, Goto, Step

LEMMA QueueRests ==
  ASSUME IInv, NEW w \in Workers, WorkerStep(w), worker[w].at # "ack" \/ row[worker[w].job].status \notin Waits
  PROVE  \E gone : QueueKeeps(gone) /\ \A i \in gone : row[i].status \notin Waits
<1> DEFINE p == worker[w]
           j == p.job
<1>0. /\ QueueType /\ p \in Process /\ FifoQueueAssumption
      /\ p.at \notin { "off", "poll" } => j \in Jobs
      /\ p.watch # "off" => j \in Jobs
  BY Start, FifoQueueAssumption
<1>1. p.receipt \in Nat
  BY <1>0 DEF Process
<1>2. CASE Acknowledge(w)
  <2>1. j \in Jobs /\ DeleteMessage(j, p.receipt) /\ row[j].status \notin Waits
    BY <1>0, <1>2 DEF Acknowledge
  <2>2. QueueKeeps({j})
    BY <1>0, <1>1, <2>1, DeletesMessage
  <2>3. \A i \in {j} : row[i].status \notin Waits
    BY <2>1
  <2>4. QED
    BY <2>2, <2>3
<1>3. CASE ~Acknowledge(w)
  <2>1. \/ UNCHANGED queueVars
        \/ \E o \in Owners : ReceiveMessage(o)
        \/ j \in Jobs /\ (ChangeVisibility(j, p.receipt, "held") \/ ChangeVisibility(j, p.receipt, "lease"))
    <3>1. CASE WatchExtend(w)
      BY <1>0, <3>1 DEF WatchExtend
    <3>2. CASE ExpireOrHide(w)
      BY <1>0, <3>2 DEF ExpireOrHide, Hide
    <3>3. CASE \E o \in Owners : Receive(w, o)
      BY <3>3 DEF Receive
    <3>4. CASE ~WatchExtend(w) /\ ~ExpireOrHide(w) /\ ~\E o \in Owners : Receive(w, o)
      BY <1>3, <3>4 DEF WorkerStep, Boot, Leave, MainStep, WatchStep, RunEnds, WatchLimit, ClaimUnanswered, UpdateUnanswered,
         Raise, MessageAfterError, WatchFails, Signal, Crash, Enlist, Claim, Prepare, WrapUp, Update, Publish, WatchRead,
         WatchRenew, WatchPublish
    <3>5. QED
      BY <3>1, <3>2, <3>3, <3>4
  <2>2. QueueKeeps({})
    BY <1>0, <1>1, <2>1, KeepsMessages
  <2>3. QED
    BY <2>2
<1>4. QED
  BY <1>2, <1>3

LEMMA OutputsMove ==
  ASSUME IInv, Drained, NEW w \in Workers, WorkerStep(w), RowsMove
  PROVE  /\ \A j \in Jobs : report'[j] \in Terminal => report'[j] = report[j] \/ report'[j] = row'[j].status
         /\ \A j \in withdrawn : started'[j] = started[j]
<1> DEFINE p == worker[w]
<1>0. /\ report \in Reports /\ started \in [ Jobs -> Nat ] /\ withdrawn \subseteq Jobs /\ PlaceOK(p)
      /\ p \in Process /\ ProcessOK(p, w)
  BY Facts, Start DEF Drained, PlacesInv, Rest
<1>1. CASE Prepare(w)
  <2>1. p.at = "prepare"
    BY <1>1 DEF Prepare
  <2>2. \A i \in Jobs : i # p.job => started'[i] = started[i] /\ report'[i] = report[i]
    BY <1>1, Prepares
  <2>3. report'[p.job] = report[p.job] \/ report'[p.job] = "running"
    BY <1>1, Prepares
  <2>4. QED
    BY <1>0, <2>1, <2>2, <2>3 DEF PlaceOK, Terminal
<1>2. CASE Publish(w)
  <2>1. /\ UNCHANGED << row, started >> /\ p.at = "publish" /\ p.job \in Jobs
        /\ report' = [ report EXCEPT ![p.job] = p.result ]
    BY <1>2, Publishes
  <2>2. report'[p.job] = row'[p.job].status /\ \A i \in Jobs : i # p.job => report'[i] = report[i]
    BY <1>0, <2>1 DEF PlaceOK, Reports
  <2>3. QED
    BY <2>1, <2>2
<1>3. CASE WatchPublish(w)
  <2>1. UNCHANGED started /\ p.job \in Jobs /\ report' = [ report EXCEPT ![p.job] = "running" ]
    BY <1>3, WatcherPublishes
  <2>2. QED
    BY <1>0, <2>1 DEF Reports, Terminal
<1>4. CASE ~Prepare(w) /\ ~Publish(w) /\ ~WatchPublish(w)
  <2>1. UNCHANGED outputVars
    BY <1>4 DEF WorkerStep, Boot, Leave, MainStep, WatchStep, RunEnds, WatchLimit, ClaimUnanswered, UpdateUnanswered,
       Raise, WatchFails, Signal, Crash, Receive, Enlist, ExpireOrHide, Claim, WrapUp, Update, Acknowledge, WatchRead,
       WatchExtend, WatchRenew
  <2>2. QED
    BY <1>0, <2>1 DEF outputVars
<1>5. QED
  BY <1>1, <1>2, <1>3, <1>4

LEMMA WorkersDrain ==
  ASSUME Legacy = {}, IInv, Drained, NEW w \in Workers, WorkerStep(w)
  PROVE  Drained'
<1>0. /\ row \in [ Jobs -> Row ] /\ IInv' /\ RowsMove /\ withdrawn \subseteq Jobs /\ PlaceOK(worker[w])
      /\ UNCHANGED << sender, withdrawn, lost >> /\ worker \in [ Workers -> Process ]
      /\ FifoQueueAssumption
  BY Facts, WorkersKeep, RequestsRest, FifoQueueAssumption DEF WorkerStep, Rest, requestVars, Drained, PlacesInv
<1>1. PlacesInv'
  <2> SUFFICES ASSUME NEW v \in Workers PROVE PlaceOK(worker[v])'
    BY DEF PlacesInv
  <2>1. CASE v = w
    BY <2>1, GoesWell
  <2>2. CASE v # w
    <3>1. worker'[v] = worker[v]
      <4>1. \E q : worker' = [ worker EXCEPT ![w] = q ]
        BY DEF WorkerStep, Boot, Leave, MainStep, WatchStep, RunEnds, WatchLimit, ClaimUnanswered, UpdateUnanswered, Raise,
           WatchFails, Signal, Crash, Receive, Enlist, ExpireOrHide, Claim, Prepare, WrapUp, Update, Publish, Acknowledge,
           WatchRead, WatchExtend, WatchRenew, WatchPublish, Goto, Step
      <4>2. QED
        BY <1>0, <2>2, <4>1
    <3>2. SameMain(worker'[v], worker[v])
      BY <1>0, <3>1 DEF SameMain
    <3>3. QED
      BY <1>0, <3>2, PlaceStays DEF Drained
  <2>3. QED
    BY <2>1, <2>2
<1>2. PublishedIsTrue' /\ WithdrawnInv'
  BY <1>0, OutputsMove, ReportsStay, WithdrawnStays DEF Drained
<1>3. MessageInv' /\ QueuedIsQueued'
  <2>1. PICK gone : QueueKeeps(gone) /\ \A i \in gone : row[i].status \notin Waits
    BY <1>0, QueueRests DEF PlaceOK
  <2>2. \A i \in Jobs : row'[i].status = "queued" => row[i].status = "queued"
    BY <1>0, WritesLive DEF PlaceOK, RowsMove, RowMoves, Waits, Row
  <2>3. \A i \in Jobs : OwnerOf[i] \in Owners
    BY <1>0 DEF FifoQueueAssumption
  <2>4. QED
    BY <1>0, <2>1, <2>2, <2>3, MessagesKeep DEF QueueKeeps, Drained, Waits
<1>4. QED
  BY <1>1, <1>2, <1>3 DEF Drained

LEMMA InitDrained == ASSUME Legacy = {} PROVE Init => Drained
<1> SUFFICES ASSUME Init
             PROVE  Drained
  OBVIOUS
<1>1. /\ \A j \in Jobs : row[j].status = "absent" /\ report[j] = "absent" /\ sender[j] = "none"
      /\ withdrawn = {} /\ \A w \in Workers : worker[w].at = "off"
  BY HomeIs DEF Init, NoRow
<1>2. \A o \in Owners : queue[o] = << >>
  BY DEF Init
<1>3. \A o \in Owners : Members(queue[o]) = {}
  BY <1>2 DEF Members
<1>4. PlacesInv /\ WithdrawnInv /\ PublishedIsTrue /\ QueuedIsQueued
  BY <1>1 DEF PlacesInv, PlaceOK, WithdrawnInv, PublishedIsTrue, QueuedIsQueued, Terminal
<1>5. MessageInv
  BY <1>1, <1>3 DEF MessageInv
<1>6. QED
  BY <1>4, <1>5 DEF Drained

LEMMA NextDrained == ASSUME Legacy = {} PROVE IInv /\ Drained /\ [Next]_vars => Drained'
<1> SUFFICES ASSUME IInv, Drained, [Next]_vars
             PROVE  Drained'
  OBVIOUS
<1>1. CASE Next
  BY <1>1, RequestsDrain, ServicesDrain, WorkersDrain DEF Next, WorkerStep
<1>2. CASE UNCHANGED vars
  BY <1>2 DEF vars, requestVars, outputVars, queueVars, Drained, PlacesInv, PlaceOK, PublishedIsTrue, WithdrawnInv, MessageInv,
     QueuedIsQueued, OnQueue
<1>3. QED
  BY <1>1, <1>2

(* Updates return the row they wrote, and the fence keeps late ones out:   *)
(* with the old queue drained a final status on the report is the job's.   *)
THEOREM PublishedIsTrueHolds == ASSUME Legacy = {} PROVE Spec => []PublishedIsTrue
<1>1. Drained => PublishedIsTrue
  BY DEF Drained
<1>2. QED
  BY <1>1, WorkerInvariant, InitDrained, NextDrained, PTL DEF Spec

(* "Queued cancellation prevents execution", a queued job is never         *)
(* forgotten, and no attempt is repeated, whatever fails on the way.       *)
THEOREM WorkerSafetyHolds == ASSUME Legacy = {} PROVE Spec => []WorkerSafety
<1>1. IInv /\ Drained => WorkerSafety
  BY DEF IInv, Drained, StartedInv, WithdrawnInv, WorkerSafety, AtMostOneAttempt, QueuedCancellationHolds
<1>2. QED
  BY <1>1, WorkerInvariant, InitDrained, NextDrained, PTL DEF Spec

-----------------------------------------------------------------------------
(* One at a time.  A job that runs is the head of its owner's group, whose *)
(* messages are handed out one by one, unless the queue has given its      *)
(* message up: every delivery of it went wrong.                            *)

AtHead(j) == queue[OwnerOf[j]] # << >> /\ Head(queue[OwnerOf[j]]) = j
InTurn(j) == row[j].status \in Terminal \/ j \in dead \/ AtHead(j)

(* A worker that may still claim a job has received it as the head, and    *)
(* only what has settled is deleted.                                       *)
TurnOK(p) ==
  /\ p.at \in { "expire", "claim" } => InTurn(p.job)
  /\ p.at = "ack" => row[p.job].status \in Terminal

TurnInv ==
  /\ \A j \in Jobs : row[j].status = "running" => InTurn(j)
  /\ \A w \in Workers : TurnOK(worker[w])

OneUnlessDead ==
  \A i, j \in Jobs \ dead :
    OwnerOf[i] = OwnerOf[j] /\ row[i].status = "running" /\ row[j].status = "running" => i = j

(* The head of a group stays until it is deleted or goes to the dead       *)
(* letters.                                                                *)
HeadsKeep(gone) ==
  /\ dead \subseteq dead'
  /\ \A o \in Owners : queue[o] # << >> =>
       \/ queue'[o] # << >> /\ Head(queue'[o]) = Head(queue[o])
       \/ Head(queue[o]) \in gone \cup dead'

LEMMA HeadOfAppend ==
  ASSUME NEW q \in Seq(Jobs), NEW j \in Jobs, q # << >>
  PROVE  Append(q, j) # << >> /\ Head(Append(q, j)) = Head(q)
<1>1. Len(q) \in Nat /\ Len(q) # 0
  OBVIOUS
<1>2. Append(q, j)[1] = q[1] /\ Append(q, j) \in Seq(Jobs)
  BY <1>1
<1>3. Head(Append(q, j)) = Append(q, j)[1] /\ Head(q) = q[1]
  BY <1>2, AppendIs
<1>4. QED
  BY <1>2, <1>3, AppendIs

LEMMA HeadsOfQueue ==
  ASSUME QueueType, FifoQueueAssumption,
         \/ UNCHANGED queueVars
         \/ \E o \in Owners : ReceiveMessage(o) \/ Reappear(o) \/ DeadLetter(o)
         \/ \E j \in Jobs, n \in Nat : ChangeVisibility(j, n, "held") \/ ChangeVisibility(j, n, "lease")
         \/ \E j \in Jobs : SendMessage(j)
  PROVE  HeadsKeep({})
<1>1. CASE UNCHANGED << queue, dead >>
  BY <1>1 DEF HeadsKeep
<1>2. CASE \E o \in Owners : DeadLetter(o)
  <2>1. PICK o \in Owners : DeadLetter(o)
    BY <1>2
  <2>2. /\ dead' = dead \cup { Head(queue[o]) }
        /\ \A u \in Owners : u # o => queue'[u] = queue[u]
    BY <2>1 DEF DeadLetter, QueueType
  <2>3. QED
    BY <2>2 DEF HeadsKeep
<1>3. CASE \E j \in Jobs : SendMessage(j)
  <2>1. PICK j \in Jobs : SendMessage(j)
    BY <1>3
  <2> DEFINE o == OwnerOf[j]
             t == Append(queue[o], j)
  <2>2. queue' = [ queue EXCEPT ![o] = t ] /\ dead' = dead /\ o \in Owners /\ queue[o] \in Seq(Jobs)
    BY <2>1 DEF SendMessage, QueueType, FifoQueueAssumption
  <2>3. queue[o] # << >> => t # << >> /\ Head(t) = Head(queue[o])
    BY <2>2, HeadOfAppend
  <2>4. queue'[o] = t /\ \A u \in Owners : u # o => queue'[u] = queue[u]
    <3> HIDE DEF t, o
    <3> QED BY <2>2 DEF QueueType
  <2> HIDE DEF t, o
  <2>5. QED
    BY <2>2, <2>3, <2>4 DEF HeadsKeep
<1>4. QED
  BY <1>1, <1>2, <1>3 DEF queueVars, ReceiveMessage, Reappear, ChangeVisibility

LEMMA HeadsOfDelete ==
  ASSUME QueueType, FifoQueueAssumption, NEW j \in Jobs, NEW n \in Nat, DeleteMessage(j, n)
  PROVE  HeadsKeep({j})
<1>1. CASE Good(j, n)
  <2>1. /\ dead' = dead /\ Head(queue[OwnerOf[j]]) = j
        /\ \A u \in Owners : u # OwnerOf[j] => queue'[u] = queue[u]
    BY <1>1 DEF DeleteMessage, Good, QueueType, FifoQueueAssumption
  <2>2. QED
    BY <2>1 DEF HeadsKeep
<1>2. CASE ~Good(j, n)
  BY <1>2 DEF DeleteMessage, queueVars, HeadsKeep
<1>3. QED
  BY <1>1, <1>2

LEMMA TurnStays ==
  ASSUME RowsMove, FifoQueueAssumption, NEW gone, HeadsKeep(gone), \A i \in gone : row[i].status \in Terminal
  PROVE  \A j \in Jobs : InTurn(j) => InTurn(j)'
<1> SUFFICES ASSUME NEW j \in Jobs, InTurn(j)
             PROVE  InTurn(j)'
  OBVIOUS
<1>1. RowMoves(j) /\ OwnerOf[j] \in Owners
  BY DEF RowsMove, FifoQueueAssumption
<1>2. CASE row[j].status \in Terminal
  BY <1>1, <1>2 DEF RowMoves, InTurn
<1>3. CASE j \in dead
  BY <1>3 DEF HeadsKeep, InTurn
<1>4. CASE AtHead(j) /\ row[j].status \notin Terminal
  BY <1>1, <1>4 DEF HeadsKeep, InTurn, AtHead
<1>5. QED
  BY <1>2, <1>3, <1>4 DEF InTurn

(* A process whose main thread stays where it is.                          *)
LEMMA TurnOKStays ==
  ASSUME RowsMove, \A j \in Jobs : InTurn(j) => InTurn(j)', NEW p, NEW q, TurnOK(p), SameMain(q, p),
         p.at \notin { "off", "poll" } => p.job \in Jobs
  PROVE  (q.at \in { "expire", "claim" } => InTurn(q.job)') /\ (q.at = "ack" => row'[q.job].status \in Terminal)
BY DEF TurnOK, SameMain, RowsMove, RowMoves

(* What a step of a worker does to the heads of the queue.                 *)
LEMMA WorkersHeads ==
  ASSUME IInv, TurnInv, NEW w \in Workers, WorkerStep(w)
  PROVE  \E gone : HeadsKeep(gone) /\ \A i \in gone : row[i].status \in Terminal
<1> DEFINE p == worker[w]
           j == p.job
<1>0. /\ QueueType /\ p \in Process /\ FifoQueueAssumption
      /\ p.at \notin { "off", "poll" } => j \in Jobs
      /\ p.watch # "off" => j \in Jobs
  BY Start, FifoQueueAssumption
<1>1. p.receipt \in Nat
  BY <1>0 DEF Process
<1>2. CASE Acknowledge(w)
  <2>1. j \in Jobs /\ DeleteMessage(j, p.receipt) /\ row[j].status \in Terminal
    BY <1>0, <1>2 DEF Acknowledge, TurnInv, TurnOK
  <2>2. HeadsKeep({j})
    BY <1>0, <1>1, <2>1, HeadsOfDelete
  <2>3. \A i \in {j} : row[i].status \in Terminal
    BY <2>1
  <2>4. QED
    BY <2>2, <2>3
<1>3. CASE ~Acknowledge(w)
  <2>1. \/ UNCHANGED queueVars
        \/ \E o \in Owners : ReceiveMessage(o)
        \/ j \in Jobs /\ (ChangeVisibility(j, p.receipt, "held") \/ ChangeVisibility(j, p.receipt, "lease"))
    <3>1. CASE WatchExtend(w)
      BY <1>0, <3>1 DEF WatchExtend
    <3>2. CASE ExpireOrHide(w)
      BY <1>0, <3>2 DEF ExpireOrHide, Hide
    <3>3. CASE \E o \in Owners : Receive(w, o)
      BY <3>3 DEF Receive
    <3>4. CASE ~WatchExtend(w) /\ ~ExpireOrHide(w) /\ ~\E o \in Owners : Receive(w, o)
      BY <1>3, <3>4 DEF WorkerStep, Boot, Leave, MainStep, WatchStep, RunEnds, WatchLimit, ClaimUnanswered, UpdateUnanswered,
         Raise, MessageAfterError, WatchFails, Signal, Crash, Enlist, Claim, Prepare, WrapUp, Update, Publish, WatchRead,
         WatchRenew, WatchPublish
    <3>5. QED
      BY <3>1, <3>2, <3>3, <3>4
  <2>2. HeadsKeep({})
    BY <1>0, <1>1, <2>1, HeadsOfQueue
  <2>3. QED
    BY <2>2
<1>4. QED
  BY <1>2, <1>3

(* Where a step takes the main thread.                                     *)
LEMMA TurnElsewhere ==
  ASSUME NEW p, p.at \notin { "expire", "claim", "ack" }
  PROVE  TurnOK(p)'
BY DEF TurnOK

LEMMA ReceivesInTurn ==
  ASSUME Legacy = {}, IInv, Drained, NEW w \in Workers, NEW o \in Owners, Receive(w, o)
  PROVE  TurnOK(worker[w])'
<1> DEFINE p == worker[w]
           j == Head(queue[o])
           n == receives[j] + 1
           q == IF NextPlace(j) = "poll" THEN Home(p) ELSE [ p EXCEPT !.at = NextPlace(j), !.job = j, !.receipt = n ]
<1>0. /\ row \in [ Jobs -> Row ] /\ worker \in [ Workers -> Process ] /\ p \in Process /\ queue[o] \in Seq(Jobs)
  BY Facts DEF Rest, QueueType
<1>1. queue[o] # << >> /\ Step(w, q) /\ UNCHANGED << row, queue >>
  BY DEF Receive, ReceiveMessage, Receivable
<1>2. worker'[w] = q
  <2> HIDE DEF q
  <2> QED BY <1>0, <1>1 DEF Step
<1>3. j \in Jobs /\ row[j].status # "absent" /\ OwnerOf[j] = o
  BY <1>0, <1>1, MembersOf DEF Drained, MessageInv
<1>4. CASE NextPlace(j) = "poll"
  BY <1>2, <1>4, HomeIs, TurnElsewhere
<1>5. CASE NextPlace(j) # "poll"
  <2>1. q.at = NextPlace(j) /\ q.job = j
    <3> HIDE DEF p, j, n
    <3> QED BY <1>0, <1>5 DEF Process
  <2>2. NextPlace(j) \in { "expire", "claim" } \/ (NextPlace(j) = "ack" /\ row[j].status \in Terminal)
    <3>1. row[j].status \in Live \cup Terminal
      BY <1>0, <1>3 DEF Row
    <3>2. QED
      BY <1>3, <1>5, <3>1 DEF NextPlace, Live
  <2>3. queue'[OwnerOf[j]] # << >> /\ Head(queue'[OwnerOf[j]]) = j /\ row'[j].status = row[j].status
    BY <1>1, <1>3
  <2>4. worker'[w].at = NextPlace(j) /\ worker'[w].job = j
    BY <1>2, <2>1
  <2> HIDE DEF q, j
  <2>5. QED
    BY <2>2, <2>3, <2>4 DEF TurnOK, InTurn, AtHead
<1>6. QED
  BY <1>4, <1>5

LEMMA GoesInTurn ==
  ASSUME Legacy = {}, IInv, Drained, TurnInv, NEW w \in Workers, WorkerStep(w)
  PROVE  TurnOK(worker[w])'
<1> DEFINE p == worker[w]
           j == p.job
<1>0. /\ row \in [ Jobs -> Row ] /\ worker \in [ Workers -> Process ] /\ p \in Process /\ ProcessOK(p, w)
      /\ p.at \notin { "off", "poll" } => j \in Jobs /\ row[j] \in Row
      /\ \A q : Step(w, q) => worker'[w] = q
      /\ p.at # "enlist" /\ FifoQueueAssumption
  BY Facts, Start, FifoQueueAssumption DEF Step, Drained, PlacesInv, PlaceOK, Rest
<1>1. RowsMove
  BY WorkersKeep DEF WorkerStep
<1>2. CASE Boot(w) \/ Leave(w) \/ Crash(w)
  BY <1>0, <1>2, HomeIs, TurnElsewhere DEF Boot, Leave, Crash
<1>3. CASE \E o \in Owners : Receive(w, o)
  BY <1>3, ReceivesInTurn
<1>4. CASE ExpireOrHide(w)
  <2> DEFINE q == [ p EXCEPT !.at = "ack" ]
  <2>1. q.at = "ack" /\ q.job = j
    <3> HIDE DEF p
    <3> QED BY <1>0 DEF Process
  <2>2. \/ Step(w, q) /\ Lapsed(row[j], 1) /\ WriteStatus(j, "failed")
        \/ Step(w, q) /\ row[j].status \in Terminal /\ UNCHANGED row
        \/ Step(w, Home(p))
    BY <1>4 DEF ExpireOrHide, Goto
  <2>3. j \in Jobs
    BY <1>0, <1>4 DEF ExpireOrHide
  <2> HIDE DEF q, p
  <2>4. CASE Step(w, q) /\ Lapsed(row[j], 1) /\ WriteStatus(j, "failed")
    <3>1. row'[j].status \in Terminal
      BY <1>0, <2>3, <2>4, WriteStatusIs DEF Lapsed, Live, Terminal
    <3>2. QED
      BY <1>0, <2>1, <2>4, <3>1 DEF TurnOK
  <2>5. CASE Step(w, q) /\ row[j].status \in Terminal /\ UNCHANGED row
    BY <1>0, <2>1, <2>5 DEF TurnOK
  <2>6. CASE Step(w, Home(p))
    BY <1>0, <2>6, HomeIs, TurnElsewhere
  <2>7. QED
    BY <2>2, <2>4, <2>5, <2>6
<1>5. CASE Claim(w) \/ ClaimUnanswered(w)
  <2> DEFINE q == [ p EXCEPT !.at = "prepare", !.watch = "sleep" ]
  <2>1. q.at = "prepare"
    <3> HIDE DEF p
    <3> QED BY <1>0 DEF Process
  <2>2. Step(w, q) \/ Step(w, Home(p))
    BY <1>5 DEF Claim, ClaimUnanswered
  <2> HIDE DEF q, p
  <2>3. QED
    BY <1>0, <2>1, <2>2, HomeIs, TurnElsewhere
<1>6. CASE Prepare(w) \/ RunEnds(w) \/ WrapUp(w)
  <2>0. PICK at \in { "run", "wrap", "update" } : \/ \E res : Step(w, [ p EXCEPT !.at = at, !.result = res ])
                                              \/ Step(w, [ p EXCEPT !.at = at ])
    BY <1>6 DEF Prepare, RunEnds, WrapUp, Goto
  <2>1. PICK res : Step(w, [ p EXCEPT !.at = at, !.result = res ]) \/ Step(w, [ p EXCEPT !.at = at ])
    BY <2>0
  <2> DEFINE q == [ p EXCEPT !.at = at, !.result = res ]
             r == [ p EXCEPT !.at = at ]
  <2>2. q.at = at /\ r.at = at
    <3> HIDE DEF p
    <3> QED BY <1>0 DEF Process
  <2> HIDE DEF q, r, p
  <2>3. QED
    BY <1>0, <2>0, <2>1, <2>2, TurnElsewhere DEF q, r
<1>7. CASE Update(w)
  <2> DEFINE a == Alone(p)
             res == Returned(p)
             q == [ a EXCEPT !.at = "publish", !.result = res ]
  <2>1. a \in Process
    BY <1>0, AloneIs
  <2>2. q.at = "publish"
    <3> HIDE DEF a, res
    <3> QED BY <2>1 DEF Process
  <2>3. Step(w, q) \/ Step(w, Home(p))
    BY <1>7 DEF Update
  <2> HIDE DEF q
  <2>4. QED
    BY <1>0, <2>2, <2>3, HomeIs, TurnElsewhere
<1>8. CASE UpdateUnanswered(w) \/ Raise(w) \/ Acknowledge(w)
  BY <1>8, UpdatesUnanswered, Raises, Acknowledges, TurnElsewhere
<1>9. CASE Publish(w)
  <2>1. /\ UNCHANGED row /\ p.at = "publish" /\ j \in Jobs /\ worker'[w].at = "ack" /\ worker'[w].job = j
    BY <1>9, Publishes
  <2>2. row[j].status \in Terminal
    BY <1>0, <2>1 DEF Drained, PlacesInv, PlaceOK, ProcessOK
  <2>3. QED
    BY <2>1, <2>2 DEF TurnOK
<1>10. CASE WatchStep(w) \/ WatchLimit(w) \/ WatchFails(w) \/ Signal(w)
  <2>1. SameMain(worker'[w], worker[w])
    BY <1>10, WatcherLooks, WatcherRenews, WatcherPublishes, Signals DEF WatchStep
  <2>2. \A i \in Jobs : InTurn(i) => InTurn(i)'
    BY <1>0, <1>1, WorkersHeads, TurnStays
  <2>3. TurnOK(p)
    BY DEF TurnInv
  <2>4. QED
    BY <1>0, <1>1, <2>1, <2>2, <2>3, TurnOKStays DEF TurnOK
<1>11. CASE Enlist(w)
  BY <1>0, <1>11 DEF Enlist
<1>12. QED
  BY <1>2, <1>3, <1>4, <1>5, <1>6, <1>7, <1>8, <1>9, <1>10, <1>11 DEF WorkerStep, MainStep

(* Only a worker that has received the job sets it running.                *)
LEMMA ClaimsInTurn ==
  ASSUME IInv, TurnInv, NEW w \in Workers, WorkerStep(w), RowsMove, worker[w].at # "enlist"
  PROVE  \A i \in Jobs : row'[i].status = "running" => row[i].status = "running" \/ InTurn(i)
<1> DEFINE p == worker[w]
           j == p.job
<1>0. /\ row \in [ Jobs -> Row ] /\ (p.at \notin { "off", "poll" } => j \in Jobs) /\ p \in Process
      /\ p.watch # "off" => j \in Jobs
  BY Start
<1>1. CASE Claim(w) \/ ClaimUnanswered(w)
  <2>1. InTurn(j)
    BY <1>1 DEF Claim, ClaimUnanswered, TurnInv, TurnOK
  <2>2. \A i \in Jobs : i # j => row'[i] = row[i]
    BY <1>0, <1>1 DEF Claim, ClaimUnanswered, WriteClaim, Write
  <2>3. QED
    BY <2>1, <2>2
<1>2. CASE ~Claim(w) /\ ~ClaimUnanswered(w)
  <2>1. \/ UNCHANGED row
        \/ \E i, new : row' = [ row EXCEPT ![i] = new ] /\ row[i].status = "running"
    BY <1>2, Zenon DEF WorkerStep, Boot, Leave, MainStep, WatchStep, RunEnds, WatchLimit, UpdateUnanswered, Raise,
     WatchFails, Signal, Crash, Receive, Enlist, ExpireOrHide, Prepare, WrapUp, Update, Publish, Acknowledge,
     WatchRead, WatchExtend, WatchRenew, WatchPublish, Fenced, Lapsed, Write, WriteStatus
  <2>2. QED
    BY <1>0, <2>1
<1>3. QED
  BY <1>1, <1>2

LEMMA NextTurn ==
  ASSUME Legacy = {}
  PROVE  IInv /\ Drained /\ TurnInv /\ [Next]_vars => TurnInv'
<1> SUFFICES ASSUME IInv, Drained, TurnInv, [Next]_vars PROVE TurnInv'
  OBVIOUS
<1>0. /\ RowsMove /\ row \in [ Jobs -> Row ] /\ worker \in [ Workers -> Process ] /\ QueueType /\ FifoQueueAssumption
  BY NextInvariant, Facts, FifoQueueAssumption DEF Rest
<1>1. ASSUME NEW w \in Workers, WorkerStep(w) PROVE TurnInv'
  <2>1. \A i \in Jobs : InTurn(i) => InTurn(i)'
    BY <1>0, <1>1, WorkersHeads, TurnStays
  <2>2. worker[w].at # "enlist"
    BY DEF Drained, PlacesInv, PlaceOK
  <2>3. \A i \in Jobs : row'[i].status = "running" => InTurn(i)'
    BY <1>0, <1>1, <2>1, <2>2, ClaimsInTurn DEF TurnInv
  <2>4. ASSUME NEW v \in Workers PROVE TurnOK(worker[v])'
    <3>1. CASE v = w
      BY <1>1, <3>1, GoesInTurn
    <3>2. CASE v # w
      <4>1. \E q : worker' = [ worker EXCEPT ![w] = q ]
        BY <1>1 DEF WorkerStep, Boot, Leave, MainStep, WatchStep, RunEnds, WatchLimit, ClaimUnanswered, UpdateUnanswered, Raise,
           WatchFails, Signal, Crash, Receive, Enlist, ExpireOrHide, Claim, Prepare, WrapUp, Update, Publish, Acknowledge,
           WatchRead, WatchExtend, WatchRenew, WatchPublish, Goto, Step
      <4>2. SameMain(worker'[v], worker[v])
        BY <1>0, <3>2, <4>1 DEF SameMain
      <4>3. TurnOK(worker[v]) /\ (worker[v].at \notin { "off", "poll" } => worker[v].job \in Jobs)
        BY Start DEF TurnInv
      <4>4. QED
        BY <1>0, <2>1, <4>2, <4>3, TurnOKStays DEF TurnOK
    <3>3. QED
      BY <3>1, <3>2
  <2>5. QED
    BY <2>3, <2>4 DEF TurnInv
<1>2. ASSUME UNCHANGED worker, HeadsKeep({}), \A i \in Jobs : row'[i].status = "running" => row[i].status = "running"
      PROVE  TurnInv'
  <2>1. \A i \in Jobs : InTurn(i) => InTurn(i)'
    BY <1>0, <1>2, TurnStays
  <2>2. ASSUME NEW v \in Workers PROVE TurnOK(worker[v])'
    <3>1. SameMain(worker'[v], worker[v])
      BY <1>0, <1>2 DEF SameMain
    <3>2. TurnOK(worker[v]) /\ (worker[v].at \notin { "off", "poll" } => worker[v].job \in Jobs)
      BY Start DEF TurnInv
    <3>3. QED
      BY <1>0, <2>1, <3>1, <3>2, TurnOKStays DEF TurnOK
  <2>3. QED
    BY <1>2, <2>1, <2>2 DEF TurnInv
<1>3. ASSUME NEW j \in Jobs,
             \/ Submit(j) \/ Send(j) \/ SendFails(j) \/ Abandon(j) \/ SenderDies(j)
             \/ Cancel(j) \/ CancelLegacy(j) \/ CancelLegacyWrite(j)
             \/ LeaseRunsOut(j) \/ ControllerExpires(j)
      PROVE  TurnInv'
  <2>1. UNCHANGED worker
    BY <1>3, RequestsKeep
  <2>2. HeadsKeep({})
    <3>1. SendMessage(j) \/ UNCHANGED queueVars
      BY <1>3 DEF Submit, Send, SendFails, Abandon, SenderDies, Cancel, CancelLegacy, CancelLegacyWrite, LeaseRunsOut, ControllerExpires
    <3>2. QED
      BY <1>0, <3>1, HeadsOfQueue
  <2>3. \A i \in Jobs : row'[i].status = "running" => row[i].status = "running"
    <3>1. CASE Submit(j)
      BY <1>0, <3>1 DEF Submit, Submitted
    <3>2. CASE Abandon(j) \/ ControllerExpires(j)
      BY <1>0, <3>2, WriteStatusIs DEF Abandon, GivesUp, ControllerExpires, Lapsed, Live, Terminal
    <3>3. CASE Cancel(j)
      <4> DEFINE r == row[j]
                 new == [ r EXCEPT !.cancelled = TRUE ]
      <4>1. r \in Row /\ r.status \in Live /\ Write(j, new)
        BY <1>0, <3>3 DEF Cancel, Cancellable
      <4>2. new \in Row /\ new.status = r.status /\ new.cancelled /\ new.claim = r.claim
        <5> HIDE DEF r
        <5> QED BY <4>1 DEF Row
      <4> HIDE DEF new
      <4>3. QED
        BY <1>0, <4>1, <4>2, WriteIs DEF Live
    <3>4. CASE LeaseRunsOut(j)
      BY <1>0, <3>4 DEF LeaseRunsOut
    <3>5. QED
      BY <1>3, <3>1, <3>2, <3>3, <3>4 DEF Send, SendFails, SenderDies, CancelLegacy, CancelLegacyWrite
  <2>4. QED
    BY <1>2, <2>1, <2>2, <2>3
<1>4. ASSUME NEW o \in Owners, WindowCloses(o) \/ Discard(o) PROVE TurnInv'
  BY <1>0, <1>2, <1>4, HeadsOfQueue DEF WindowCloses, Discard
<1>5. CASE UNCHANGED vars
  BY <1>0, <1>2, <1>5, HeadsOfQueue DEF vars
<1>6. QED
  BY <1>1, <1>3, <1>4, <1>5 DEF Next, WorkerStep

LEMMA InitTurn == Init => TurnInv
<1> SUFFICES ASSUME Init PROVE TurnInv
  OBVIOUS
<1>1. \A j \in Jobs : row[j].status = "absent"
  BY DEF Init, NoRow
<1>2. \A w \in Workers : worker[w].at = "off"
  BY HomeIs DEF Init
<1>3. QED
  BY <1>1, <1>2 DEF TurnInv, TurnOK

(* "each user has one active evaluation at a time": of the jobs whose      *)
(* message the queue has not given up, at most one of an owner runs, with  *)
(* any number of windows that close early and of workers that are lost.    *)
THEOREM OneUnlessDeadHolds == ASSUME Legacy = {} PROVE Spec => []OneUnlessDead
<1>1. TurnInv => OneUnlessDead
  BY DEF TurnInv, InTurn, AtHead, OneUnlessDead, Terminal
<1>2. QED
  BY <1>1, WorkerInvariant, InitDrained, NextDrained, InitTurn, NextTurn, PTL DEF Spec

(* So two run at once only after a message went to the dead letters.       *)
THEOREM OneAtATimeHolds == ASSUME Legacy = {} PROVE Spec => [](dead = {} => OneAtATime)
<1>1. OneUnlessDead => (dead = {} => OneAtATime)
  BY DEF OneUnlessDead, OneAtATime
<1>2. QED
  BY <1>1, OneUnlessDeadHolds, PTL

-----------------------------------------------------------------------------
(* The promise.  A row that waits carries no cancellation, and the result  *)
(* in a worker's hand is one that run.sh or an error gave it.              *)

FlagInv   == \A j \in Jobs : row[j].status \in Waits => ~row[j].cancelled

Verdict(p) == p.at \in { "wrap", "update" } => p.result \in { "done", "failed" }
ResultInv  == \A w \in Workers : Verdict(worker[w])

PromiseInv == FlagInv /\ ResultInv

(* What one write may do to a job, seen from outside.                      *)
Flagless(j) == row'[j].cancelled <=> row[j].cancelled
Same(j)     == row'[j].status = row[j].status /\ Flagless(j)

Enters(j)    == row[j].status = "absent" /\ row'[j].status = "queued" /\ ~row'[j].cancelled /\ ~row[j].cancelled
Starts(j)    == row[j].status = "queued" /\ row'[j].status = "running" /\ Flagless(j)
GivenUp(j)   == row[j].status = "queued" /\ row'[j].status = "failed" /\ Flagless(j)
Withdraws(j) == /\ row[j].status \in Live /\ row'[j].cancelled
                /\ row'[j].status = IF row[j].status = "queued" THEN "cancelled" ELSE "running"
Ends(j)      == /\ row[j].status = "running" /\ Flagless(j)
                /\ IF row[j].cancelled THEN row'[j].status = "cancelled" ELSE row'[j].status \in { "done", "failed" }

Lives(j) == Enters(j) \/ Starts(j) \/ GivenUp(j) \/ Withdraws(j) \/ Ends(j)
OneLives == \E j \in Jobs : Lives(j) /\ \A i \in Jobs : i # j => Same(i)

Promised == (\A j \in Jobs : Same(j)) \/ OneLives

LEMMA RowRests == ASSUME UNCHANGED row PROVE Promised
BY DEF Promised, Same, Flagless

(* The flag of a written row.                                              *)
LEMMA FlagIs ==
  ASSUME NEW j, row[j] \in Row, NEW new \in Row
  PROVE  Written(j, new).cancelled <=> row[j].cancelled \/ new.cancelled
<1> DEFINE c == row[j].cancelled \/ new.cancelled
           st == IF c /\ new.status \in { "queued", "done", "failed" } THEN "cancelled" ELSE new.status
           rev == row[j].revision + 1
           ev == [ new EXCEPT !.revision = rev, !.cancelled = c, !.status = st ]
           lease == IF ev.status = "running" THEN ev.lease ELSE 0
           fin == [ ev EXCEPT !.revision = 1, !.lease = lease ]
<1>1. Settle(row[j], new) = ev
  BY Zenon DEF Settle
<1>2. Written(j, new) = fin
  BY <1>1, Zenon DEF Written
<1>3. c \in BOOLEAN
  BY DEF Row
<1>4. ev.cancelled = c /\ DOMAIN ev = DOMAIN new
  <2> HIDE DEF c, st, rev
  <2> QED BY <1>3 DEF Row
<1> HIDE DEF ev
<1>5. fin.cancelled = ev.cancelled
  BY <1>4 DEF Row
<1>6. QED
  BY <1>2, <1>4, <1>5

LEMMA WriteFields ==
  ASSUME row \in [ Jobs -> Row ], NEW j \in Jobs, NEW new \in Row, Write(j, new)
  PROVE  /\ \A i \in Jobs : i # j => Same(i)
         /\ row'[j].cancelled <=> row[j].cancelled \/ new.cancelled
         /\ row'[j].status = IF (row[j].cancelled \/ new.cancelled) /\ new.status \in { "queued", "done", "failed" }
                             THEN "cancelled" ELSE new.status
<1>1. row'[j] = Written(j, new) /\ \A i \in Jobs : i # j => row'[i] = row[i]
  <2> DEFINE r == Written(j, new)
  <2>1. row' = [ row EXCEPT ![j] = r ]
    BY DEF Write
  <2> HIDE DEF r
  <2>2. QED
    BY <2>1 DEF r
<1>2. row[j] \in Row
  OBVIOUS
<1>3. /\ Written(j, new).cancelled <=> row[j].cancelled \/ new.cancelled
      /\ Written(j, new).status = IF (row[j].cancelled \/ new.cancelled) /\ new.status \in { "queued", "done", "failed" }
                                  THEN "cancelled" ELSE new.status
  BY <1>2, FlagIs, WrittenIs
<1>4. QED
  BY <1>1, <1>3 DEF Same, Flagless

(* A verdict written over a running row is taken, unless it was cancelled. *)
LEMMA VerdictEnds ==
  ASSUME row \in [ Jobs -> Row ], NEW j \in Jobs, row[j].status = "running",
         NEW st \in { "done", "failed" }, WriteStatus(j, st)
  PROVE  Promised
<1> DEFINE r == row[j]
           new == [ r EXCEPT !.status = st ]
<1>1. r \in Row /\ new \in Row /\ new.status = st /\ new.cancelled = r.cancelled
  BY DEF Row, Terminal
<1>2. Write(j, new)
  BY DEF WriteStatus
<1> HIDE DEF new
<1>3. /\ \A i \in Jobs : i # j => Same(i)
      /\ row'[j].cancelled <=> row[j].cancelled
      /\ row'[j].status = IF row[j].cancelled THEN "cancelled" ELSE st
  BY <1>1, <1>2, WriteFields
<1>4. Ends(j)
  BY <1>3 DEF Ends, Flagless
<1>5. QED
  BY <1>3, <1>4 DEF Promised, OneLives, Lives

LEMMA SenderGivesUp ==
  ASSUME row \in [ Jobs -> Row ], FlagInv, NEW j \in Jobs, GivesUp(j)
  PROVE  Promised
<1> DEFINE r == row[j]
           new == [ r EXCEPT !.status = "failed" ]
<1>1. CASE row[j].status = "queued" /\ WriteStatus(j, "failed")
  <2>1. r \in Row /\ new \in Row /\ new.status = "failed" /\ new.cancelled = r.cancelled
    BY DEF Row, Terminal
  <2>2. Write(j, new)
    BY <1>1 DEF WriteStatus
  <2>3. ~r.cancelled
    BY <1>1 DEF FlagInv, Waits
  <2> HIDE DEF new
  <2>4. /\ \A i \in Jobs : i # j => Same(i)
        /\ row'[j].cancelled <=> row[j].cancelled
        /\ row'[j].status = "failed"
    BY <2>1, <2>2, <2>3, WriteFields
  <2>5. GivenUp(j)
    BY <1>1, <2>4 DEF GivenUp, Flagless
  <2>6. QED
    BY <2>4, <2>5 DEF Promised, OneLives, Lives
<1>2. QED
  BY <1>1, RowRests DEF GivesUp

LEMMA ClaimStarts ==
  ASSUME row \in [ Jobs -> Row ], NEW j \in Jobs, NEW w \in Workers, Claimable(row[j]), WriteClaim(j, w)
  PROVE  Promised
<1> DEFINE r == row[j]
           new == [ r EXCEPT !.status = "running", !.claim = w, !.lease = 1 ]
<1>1. r \in Row /\ r.status = "queued" /\ ~r.cancelled /\ Write(j, new)
  BY DEF Claimable, WriteClaim
<1>2. new \in Row /\ new.status = "running" /\ new.cancelled = r.cancelled
  <2> HIDE DEF r
  <2> QED BY <1>1, CloudWorkerAssumption DEF CloudWorkerAssumption, Row, Live
<1> HIDE DEF new
<1>3. /\ \A i \in Jobs : i # j => Same(i)
      /\ row'[j].cancelled <=> row[j].cancelled
      /\ row'[j].status = "running"
  BY <1>1, <1>2, WriteFields
<1>4. Starts(j)
  BY <1>1, <1>3 DEF Starts, Flagless
<1>5. QED
  BY <1>3, <1>4 DEF Promised, OneLives, Lives

LEMMA CancelWithdraws ==
  ASSUME row \in [ Jobs -> Row ], NEW j \in Jobs, Cancel(j)
  PROVE  Promised
<1> DEFINE r == row[j]
           new == [ r EXCEPT !.cancelled = TRUE ]
<1>1. r \in Row /\ r.status \in Live /\ Write(j, new)
  BY DEF Cancel, Cancellable
<1>2. new \in Row /\ new.status = r.status /\ new.cancelled
  BY <1>1 DEF Row
<1> HIDE DEF new
<1>3. /\ \A i \in Jobs : i # j => Same(i)
      /\ row'[j].cancelled
      /\ row'[j].status = IF row[j].status = "queued" THEN "cancelled" ELSE "running"
  BY <1>1, <1>2, WriteFields DEF Live
<1>4. Withdraws(j)
  BY <1>1, <1>3 DEF Withdraws
<1>5. QED
  BY <1>3, <1>4 DEF Promised, OneLives, Lives

(* evals.enqueue and enqueue with cap 0.                                   *)
LEMMA NewRowEnters ==
  ASSUME row \in [ Jobs -> Row ], FlagInv, NEW j \in Jobs, row[j].status = "absent", NEW counted \in BOOLEAN,
         row' = [ row EXCEPT ![j] = Submitted(counted) ]
  PROVE  Promised
<1>1. Submitted(counted).status = "queued" /\ ~Submitted(counted).cancelled
  BY DEF Submitted
<1>2. row'[j] = Submitted(counted) /\ \A i \in Jobs : i # j => row'[i] = row[i]
  <2> HIDE DEF Submitted
  <2> QED OBVIOUS
<1>3. Enters(j) /\ \A i \in Jobs : i # j => Same(i)
  BY <1>1, <1>2 DEF Enters, Same, Flagless, FlagInv, Waits
<1>4. QED
  BY <1>3 DEF Promised, OneLives, Lives

(* A lease that is renewed or runs out does not show.                      *)
LEMMA LeaseShowsNothing ==
  ASSUME row \in [ Jobs -> Row ], NEW j \in Jobs, row[j].status = "running",
         row' = [ row EXCEPT ![j].lease = 0 ] \/ Write(j, [ row[j] EXCEPT !.lease = 1 ])
  PROVE  Promised
<1> DEFINE r == row[j]
           new == [ r EXCEPT !.lease = 1 ]
           old == [ r EXCEPT !.lease = 0 ]
<1>1. r \in Row /\ new \in Row /\ new.status = "running" /\ new.cancelled = r.cancelled
  BY DEF Row
<1>2. CASE row' = [ row EXCEPT ![j].lease = 0 ]
  <2>1. old.status = r.status /\ old.cancelled = r.cancelled
    BY <1>1 DEF Row
  <2>2. row' = [ row EXCEPT ![j] = old ]
    BY <1>2
  <2> HIDE DEF old
  <2>3. row'[j] = old /\ \A i \in Jobs : i # j => row'[i] = row[i]
    BY <2>2
  <2>4. QED
    BY <2>1, <2>3 DEF Promised, Same, Flagless
<1>3. CASE Write(j, new)
  <2> HIDE DEF new
  <2>1. /\ \A i \in Jobs : i # j => Same(i)
        /\ row'[j].cancelled <=> row[j].cancelled
        /\ row'[j].status = "running"
    BY <1>1, <1>3, WriteFields
  <2>2. QED
    BY <2>1 DEF Promised, Same, Flagless
<1>4. QED
  BY <1>2, <1>3

-----------------------------------------------------------------------------
(* Every step keeps the promise for every job.                             *)
LEMMA RowSteps ==
  ASSUME IInv, PromiseInv, Next
  PROVE  Promised
<1>0. /\ row \in [ Jobs -> Row ] /\ FlagInv /\ ResultInv
      /\ \A w \in Workers : ProcessOK(worker[w], w)
  BY Facts DEF PromiseInv
<1>1. ASSUME NEW j \in Jobs, Submit(j) \/ Abandon(j) \/ Cancel(j) \/ LeaseRunsOut(j) \/ ControllerExpires(j) PROVE Promised
  <2>1. CASE Submit(j)
    BY <1>0, <2>1, NewRowEnters DEF Submit
  <2>2. CASE Abandon(j)
    BY <1>0, <2>2, SenderGivesUp DEF Abandon
  <2>3. CASE Cancel(j)
    BY <1>0, <2>3, CancelWithdraws
  <2>4. CASE LeaseRunsOut(j)
    BY <1>0, <2>4, LeaseShowsNothing DEF LeaseRunsOut
  <2>5. CASE ControllerExpires(j)
    BY <1>0, <2>5, VerdictEnds DEF ControllerExpires, Lapsed
  <2>6. QED
    BY <1>1, <2>1, <2>2, <2>3, <2>4, <2>5
<1>2. ASSUME NEW j \in Jobs, Send(j) \/ SendFails(j) \/ SenderDies(j) \/ CancelLegacy(j) \/ CancelLegacyWrite(j) PROVE Promised
  BY <1>2, RowRests DEF Send, SendFails, SenderDies, CancelLegacy, CancelLegacyWrite
<1>3. ASSUME NEW o \in Owners, WindowCloses(o) \/ Discard(o) PROVE Promised
  BY <1>3, RowRests DEF WindowCloses, Discard
<1>4. ASSUME NEW w \in Workers, Enlist(w) \/ ExpireOrHide(w) \/ Claim(w) \/ ClaimUnanswered(w) PROVE Promised
  <2>1. worker[w].at \in { "enlist", "expire", "claim" } => worker[w].job \in Jobs
    BY <1>0 DEF ProcessOK
  <2>2. CASE Enlist(w)
    BY <1>0, <2>1, <2>2, NewRowEnters, RowRests DEF Enlist
  <2>3. CASE ExpireOrHide(w)
    BY <1>0, <2>1, <2>3, VerdictEnds, RowRests DEF ExpireOrHide, Lapsed
  <2>4. CASE Claim(w) \/ ClaimUnanswered(w)
    BY <1>0, <2>1, <2>4, ClaimStarts, RowRests DEF Claim, ClaimUnanswered
  <2>5. QED
    BY <1>4, <2>2, <2>3, <2>4
<1>5. ASSUME NEW w \in Workers, Update(w) \/ UpdateUnanswered(w) PROVE Promised
  <2>1. worker[w].at = "update" /\ worker[w].job \in Jobs /\ worker[w].result \in { "done", "failed" }
    BY <1>0, <1>5 DEF Update, UpdateUnanswered, ProcessOK, ResultInv, Verdict
  <2>2. QED
    BY <1>0, <1>5, <2>1, VerdictEnds, RowRests DEF Update, UpdateUnanswered, Fenced
<1>6. ASSUME NEW w \in Workers, WatchRenew(w) PROVE Promised
  <2>1. worker[w].watch = "renew" /\ worker[w].job \in Jobs
    BY <1>0, <1>6 DEF WatchRenew, ProcessOK
  <2>2. QED
    BY <1>0, <1>6, <2>1, LeaseShowsNothing, RowRests DEF WatchRenew, Fenced
<1>7. ASSUME NEW w \in Workers,
             \/ Boot(w) \/ Leave(w) \/ Prepare(w) \/ WrapUp(w) \/ Publish(w) \/ Acknowledge(w)
             \/ WatchRead(w) \/ WatchExtend(w) \/ WatchPublish(w) \/ RunEnds(w) \/ WatchLimit(w)
             \/ Raise(w) \/ WatchFails(w) \/ Signal(w) \/ Crash(w) \/ \E o \in Owners : Receive(w, o)
      PROVE  Promised
  BY <1>7, RowRests DEF Boot, Leave, Prepare, WrapUp, Publish, Acknowledge, WatchRead, WatchExtend, WatchPublish,
     RunEnds, WatchLimit, Raise, WatchFails, Signal, Crash, Receive
<1>8. QED
  BY <1>1, <1>2, <1>3, <1>4, <1>5, <1>6, <1>7 DEF Next, MainStep, WatchStep

LEMMA FlagStays ==
  ASSUME FlagInv, Promised
  PROVE  FlagInv'
<1> SUFFICES ASSUME NEW j \in Jobs, row'[j].status \in Waits PROVE ~row'[j].cancelled
  BY DEF FlagInv
<1>1. CASE Same(j)
  BY <1>1 DEF Same, Flagless, FlagInv
<1>2. CASE Lives(j)
  BY <1>2 DEF Lives, Enters, Starts, GivenUp, Withdraws, Ends, Flagless, FlagInv, Waits
<1>3. QED
  BY <1>1, <1>2 DEF Promised, OneLives

-----------------------------------------------------------------------------
(* The results.                                                            *)
LEMMA ResultStays ==
  ASSUME IInv, ResultInv, NEW w \in Workers, NEW p, Step(w, p), Verdict(p)
  PROVE  ResultInv'
<1>1. worker' = [ worker EXCEPT ![w] = p ] /\ worker \in [ Workers -> Process ]
  BY Facts DEF Step
<1>2. \A v \in Workers : worker'[v] = IF v = w THEN p ELSE worker[v]
  BY <1>1
<1>3. QED
  BY <1>2 DEF ResultInv, Verdict

(* Where a process goes without a result in hand, or with the one it had.  *)
LEMMA VerdictIs ==
  ASSUME NEW p \in Process, Verdict(p)
  PROVE  /\ Verdict(Home(p)) /\ Verdict(Off) /\ Verdict(Polling) /\ Verdict(AfterError(p))
         /\ \A place \in Places \ { "wrap", "update" } : Verdict([ p EXCEPT !.at = place ])
         /\ Verdict(Abort(p)) /\ Verdict([ p EXCEPT !.stop = TRUE ])
         /\ \A watch : Verdict([ p EXCEPT !.watch = watch ])
         /\ \A result \in { "done", "failed" } : Verdict([ p EXCEPT !.at = "wrap", !.result = result ])
<1>1. Verdict(Home(p)) /\ Verdict(Off) /\ Verdict(Polling)
  BY HomeIs DEF Verdict
<1>2. /\ \A place \in Places \ { "wrap", "update" } : Verdict([ p EXCEPT !.at = place ])
      /\ Verdict(Abort(p)) /\ Verdict([ p EXCEPT !.stop = TRUE ])
      /\ \A watch : Verdict([ p EXCEPT !.watch = watch ])
  BY DEF Verdict, Abort, Process
<1>3. \A result \in { "done", "failed" } : Verdict([ p EXCEPT !.at = "wrap", !.result = result ])
  BY DEF Verdict, Process
<1>4. Verdict([ p EXCEPT !.at = "update", !.result = "failed", !.salvage = TRUE ])
  BY DEF Verdict, Process
<1>5. AfterError(p) \in { Home(p), [ p EXCEPT !.at = "wrap", !.result = "failed" ],
                          [ p EXCEPT !.at = "update", !.result = "failed", !.salvage = TRUE ] }
  BY Zenon DEF AfterError
<1>6. QED
  BY <1>1, <1>2, <1>3, <1>4, <1>5

LEMMA NextResult ==
  ASSUME IInv, ResultInv, Next
  PROVE  ResultInv'
<1>0. \A w \in Workers : worker[w] \in Process /\ Verdict(worker[w]) /\ ProcessOK(worker[w], w)
  BY Facts DEF ResultInv
<1>1. UNCHANGED worker => ResultInv'
  BY DEF ResultInv, Verdict
<1>2. ASSUME NEW j \in Jobs,
             \/ Submit(j) \/ Send(j) \/ SendFails(j) \/ Abandon(j) \/ SenderDies(j)
             \/ Cancel(j) \/ CancelLegacy(j) \/ CancelLegacyWrite(j) \/ LeaseRunsOut(j) \/ ControllerExpires(j)
      PROVE  ResultInv'
  BY <1>1, <1>2 DEF Submit, Send, SendFails, Abandon, SenderDies, Cancel, CancelLegacy, CancelLegacyWrite,
     LeaseRunsOut, ControllerExpires
<1>3. ASSUME NEW o \in Owners, WindowCloses(o) \/ Discard(o) PROVE ResultInv'
  BY <1>1, <1>3 DEF WindowCloses, Discard
<1>4. ASSUME NEW w \in Workers, Boot(w) \/ Leave(w) \/ Crash(w) \/ Signal(w) \/ Raise(w) PROVE ResultInv'
  BY <1>0, <1>4, VerdictIs, ResultStays DEF Boot, Leave, Crash, Signal, Raise
<1>5. ASSUME NEW w \in Workers, NEW o \in Owners, Receive(w, o) PROVE ResultInv'
  <2> DEFINE j == Head(queue[o])
             p == worker[w]
             q == [ p EXCEPT !.at = NextPlace(j), !.job = j, !.receipt = receives[j] + 1 ]
  <2>1. NextPlace(j) \in { "expire", "claim", "enlist", "poll", "ack" }
    BY DEF NextPlace
  <2>2. q.at = NextPlace(j)
    <3> HIDE DEF j
    <3> QED BY <1>0 DEF Process
  <2>3. Verdict(q)
    BY <2>1, <2>2 DEF Verdict
  <2> HIDE DEF q
  <2>4. Step(w, Home(p)) \/ Step(w, q)
    BY <1>5 DEF Receive, q
  <2>5. QED
    BY <1>0, <2>3, <2>4, VerdictIs, ResultStays
<1>6. ASSUME NEW w \in Workers, Enlist(w) \/ ExpireOrHide(w) \/ Acknowledge(w) \/ Publish(w) PROVE ResultInv'
  <2>1. Step(w, Home(worker[w])) \/ \E place \in { "claim", "ack" } : Step(w, [ worker[w] EXCEPT !.at = place ])
    BY <1>6 DEF Enlist, ExpireOrHide, Acknowledge, Publish, Goto
  <2>2. { "claim", "ack" } \subseteq Places \ { "wrap", "update" }
    BY DEF Places, Unclaimed
  <2>3. QED
    BY <1>0, <2>1, <2>2, VerdictIs, ResultStays
<1>7. ASSUME NEW w \in Workers, Claim(w) \/ ClaimUnanswered(w) PROVE ResultInv'
  <2> DEFINE p == worker[w]
             q == [ p EXCEPT !.at = "prepare", !.watch = "sleep" ]
  <2>1. Verdict(q)
    BY <1>0 DEF Verdict, Process
  <2> HIDE DEF q
  <2>2. Step(w, Home(p)) \/ Step(w, q)
    BY <1>7 DEF Claim, ClaimUnanswered, q
  <2>3. QED
    BY <1>0, <2>1, <2>2, VerdictIs, ResultStays
<1>8. ASSUME NEW w \in Workers, Prepare(w) \/ RunEnds(w) PROVE ResultInv'
  <2> DEFINE p == worker[w]
  <2>1. \/ Step(w, [ p EXCEPT !.at = "run" ])
        \/ \E result \in { "done", "failed" } : Step(w, [ p EXCEPT !.at = "wrap", !.result = result ])
    BY <1>8 DEF Prepare, RunEnds, Results, Goto
  <2>2. "run" \in Places \ { "wrap", "update" }
    BY DEF Places, Watched
  <2>3. QED
    BY <1>0, <2>1, <2>2, VerdictIs, ResultStays
<1>9. ASSUME NEW w \in Workers, WrapUp(w) PROVE ResultInv'
  <2> DEFINE p == worker[w]
             st == IF p.aborted THEN "failed" ELSE p.result
             q == [ p EXCEPT !.at = "update", !.result = st ]
  <2>1. p.at = "wrap" /\ Step(w, q)
    BY <1>9 DEF WrapUp
  <2>2. st \in { "done", "failed" }
    BY <1>0, <2>1 DEF Verdict
  <2>3. q.result = st
    <3> HIDE DEF st
    <3> QED BY <1>0 DEF Process
  <2> HIDE DEF q, st
  <2>4. Verdict(q)
    BY <2>2, <2>3 DEF Verdict
  <2>5. QED
    BY <2>1, <2>4, ResultStays
<1>10. ASSUME NEW w \in Workers, Update(w) \/ UpdateUnanswered(w) PROVE ResultInv'
  <2> DEFINE p == worker[w]
             a == Alone(p)
             st == Returned(p)
             q == [ a EXCEPT !.at = "publish", !.result = st ]
  <2>1. Step(w, Home(p)) \/ Step(w, AfterError(p)) \/ Step(w, q)
    BY <1>10 DEF Update, UpdateUnanswered
  <2>2. a \in Process
    BY <1>0, AloneIs
  <2>3. q.at = "publish"
    <3> HIDE DEF a, st
    <3> QED BY <2>2 DEF Process
  <2> HIDE DEF q
  <2>4. Verdict(q)
    BY <2>3 DEF Verdict
  <2>5. QED
    BY <1>0, <2>1, <2>4, VerdictIs, ResultStays
<1>11. ASSUME NEW w \in Workers,
              WatchRead(w) \/ WatchLimit(w) \/ WatchExtend(w) \/ WatchRenew(w) \/ WatchPublish(w) \/ WatchFails(w)
       PROVE  ResultInv'
  <2>1. Step(w, Abort(worker[w])) \/ \E watch : Step(w, [ worker[w] EXCEPT !.watch = watch ])
    BY <1>11 DEF WatchRead, WatchLimit, WatchExtend, WatchRenew, WatchPublish, WatchFails
  <2>2. QED
    BY <1>0, <2>1, VerdictIs, ResultStays
<1>12. QED
  BY <1>2, <1>3, <1>4, <1>5, <1>6, <1>7, <1>8, <1>9, <1>10, <1>11 DEF Next, MainStep, WatchStep

-----------------------------------------------------------------------------
(* The refinement.                                                         *)

Statuses == [ j \in Jobs |-> row[j].status ]
Flagged  == { j \in Jobs : row[j].cancelled }

LEMMA LivesRefines ==
  ASSUME row \in [ Jobs -> Row ], FlagInv, NEW j \in Jobs, Lives(j), \A i \in Jobs : i # j => Same(i)
  PROVE  Lifecycle!LifecycleNext
<1>1. Statuses' = [ Statuses EXCEPT ![j] = row'[j].status ]
  BY DEF Statuses, Same
<1>2. (Flagless(j) => Flagged' = Flagged) /\ (row'[j].cancelled => Flagged' = Flagged \cup {j})
  BY DEF Flagged, Same, Flagless
<1>3. (j \in Flagged <=> row[j].cancelled) /\ Statuses[j] = row[j].status
  BY DEF Flagged, Statuses
<1>4. CASE Enters(j)
  <2>1. Lifecycle!Submit(j)
    BY <1>1, <1>2, <1>3, <1>4 DEF Lifecycle!Submit, Enters, Flagless, Statuses, Flagged
  <2>2. QED
    BY <2>1 DEF Lifecycle!LifecycleNext
<1>5. CASE Starts(j)
  <2>1. Lifecycle!Start(j)
    BY <1>1, <1>2, <1>3, <1>5 DEF Lifecycle!Start, Starts, Statuses, Flagged
  <2>2. QED
    BY <2>1 DEF Lifecycle!LifecycleNext
<1>6. CASE GivenUp(j)
  <2>1. Lifecycle!Abandon(j)
    BY <1>1, <1>2, <1>3, <1>6 DEF Lifecycle!Abandon, GivenUp, Statuses, Flagged
  <2>2. QED
    BY <2>1 DEF Lifecycle!LifecycleNext
<1>7. CASE Withdraws(j) /\ row[j].status = "queued"
  <2>1. Lifecycle!CancelQueued(j)
    BY <1>1, <1>2, <1>3, <1>7 DEF Lifecycle!CancelQueued, Withdraws, Statuses, Flagged
  <2>2. QED
    BY <2>1 DEF Lifecycle!LifecycleNext
<1>8. CASE Withdraws(j) /\ row[j].status = "running"
  <2>1. Statuses' = Statuses
    BY <1>1, <1>8 DEF Withdraws, Statuses
  <2>2. Lifecycle!CancelRunning(j)
    BY <1>2, <1>3, <1>8, <2>1 DEF Lifecycle!CancelRunning, Withdraws, Statuses, Flagged
  <2>3. QED
    BY <2>2 DEF Lifecycle!LifecycleNext
<1>9. CASE Ends(j) /\ ~row[j].cancelled
  <2>1. Lifecycle!Finish(j)
    BY <1>1, <1>2, <1>3, <1>9 DEF Lifecycle!Finish, Ends, Statuses, Flagged
  <2>2. QED
    BY <2>1 DEF Lifecycle!LifecycleNext
<1>10. CASE Ends(j) /\ row[j].cancelled
  <2>1. Lifecycle!FinishCancelled(j)
    BY <1>1, <1>2, <1>3, <1>10 DEF Lifecycle!FinishCancelled, Ends, Statuses, Flagged
  <2>2. QED
    BY <2>1 DEF Lifecycle!LifecycleNext
<1>11. QED
  BY <1>4, <1>5, <1>6, <1>7, <1>8, <1>9, <1>10 DEF Lives, Withdraws, Live

(* cloudqueue.py under cloudrunner.py: whatever workers, watchers, the     *)
(* queue and the controller do, repeat or lose, a job lives as             *)
(* JobLifecycle says, for jobs of the old queue as well.                   *)
THEOREM LifecycleRefinement == Spec => LifecycleSpec
<1>1. Init => Lifecycle!LifecycleInit /\ PromiseInv
  <2> SUFFICES ASSUME Init PROVE Lifecycle!LifecycleInit /\ PromiseInv
    OBVIOUS
  <2>1. \A j \in Jobs : row[j].status = "absent" /\ ~row[j].cancelled
    BY DEF Init, NoRow
  <2>2. \A w \in Workers : worker[w].at = "off"
    BY DEF Init, Off
  <2>3. Lifecycle!LifecycleInit
    BY <2>1 DEF Lifecycle!LifecycleInit
  <2>4. PromiseInv
    BY <2>1, <2>2 DEF PromiseInv, FlagInv, ResultInv, Verdict
  <2>5. QED
    BY <2>3, <2>4
<1>2. IInv /\ PromiseInv /\ [Next]_vars => PromiseInv' /\ [Lifecycle!LifecycleNext]_(Lifecycle!lifecycleVars)
  <2> SUFFICES ASSUME IInv, PromiseInv, [Next]_vars
               PROVE  PromiseInv' /\ [Lifecycle!LifecycleNext]_(Lifecycle!lifecycleVars)
    OBVIOUS
  <2>1. Promised
    BY RowSteps, RowRests DEF vars
  <2>2. ResultInv'
    <3>1. CASE UNCHANGED vars
      BY <3>1 DEF vars, PromiseInv, ResultInv, Verdict
    <3>2. QED
      BY <3>1, NextResult DEF PromiseInv
  <2>3. PromiseInv'
    BY <2>1, <2>2, FlagStays DEF PromiseInv
  <2>4. CASE \A j \in Jobs : Same(j)
    <3>1. Statuses' = Statuses /\ Flagged' = Flagged
      BY <2>4 DEF Statuses, Flagged, Same, Flagless
    <3>2. QED
      BY <2>3, <3>1 DEF Lifecycle!lifecycleVars, Statuses, Flagged
  <2>5. CASE OneLives
    <3>1. PICK j \in Jobs : Lives(j) /\ \A i \in Jobs : i # j => Same(i)
      BY <2>5 DEF OneLives
    <3>2. Lifecycle!LifecycleNext
      BY <3>1, LivesRefines, Facts DEF PromiseInv
    <3>3. QED
      BY <2>3, <3>2
  <2>6. QED
    BY <2>1, <2>3, <2>4, <2>5 DEF Promised
<1>3. QED
  BY <1>1, <1>2, WorkerInvariant, PTL DEF Spec, LifecycleSpec, Lifecycle!LifecycleSpec

=============================================================================
