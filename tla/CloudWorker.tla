----------------------------- MODULE CloudWorker -----------------------------
(***************************************************************************)
(* lib/cloudrunner.py: the workers that take evaluations off the FIFO      *)
(* queue and run them, with the callers that put them there (evals.py) and *)
(* the lease expiry of the capacity controller.                            *)
(*                                                                         *)
(* A worker process has two threads.  Its main thread receives a message,  *)
(* claims the job, runs run.sh, settles the row and publishes; its watcher *)
(* renews message and lease, publishes progress, and aborts the attempt    *)
(* when the job is cancelled, lost, or takes too long.  Processes die,     *)
(* calls fail or lose their answer, and a stalled process outlives its     *)
(* message's window or its lease.                                          *)
(*                                                                         *)
(* The operations of lib/cloudqueue.py are atomic here: CloudJobs checks   *)
(* what their interleaved reads and writes amount to.  Time is abstracted  *)
(* to what is left of a lease: 1 while it lasts, 0 when it has run out.    *)
(***************************************************************************)
EXTENDS JobRows, FifoQueue, FiniteSets

CONSTANTS
  Legacy,       (* jobs of the old queue: a message and a report record,    *)
                (* but no job row until somebody drains them                *)
  Workers,      (* worker VMs: a process claims at most one job, so its     *)
                (* name stands for the uuid4 it draws as claim token        *)
  NoJob,        (* the worker has no message                                *)
  Kinds,        (* the kinds of fault that may happen                       *)
  MaxFaults     (* bound: how many of them in a behaviour                   *)

ASSUME CloudWorkerAssumption ==
  /\ Legacy \subseteq Jobs
  /\ Workers = Tokens
  /\ NoJob \notin Jobs
  /\ Kinds \subseteq { "crash", "error", "signal", "stall", "unanswered" }
  /\ MaxFaults \in Nat

VARIABLES
  row,          (* row[j]: the job row, as JobRows describes it             *)
  report,       (* report[j]: the status the report store shows for j       *)
  sender,       (* sender[j]: the API request submitting j                  *)
  canceller,    (* the legacy jobs a cancel request is about to write       *)
  worker,       (* worker[w]: the process on VM w                           *)
  started,      (* started[j]: how often run.sh was started for j           *)
  withdrawn,    (* the jobs whose cancellation was answered while queued    *)
  lost,         (* the jobs whose submitting process died                   *)
  faults        (* the faults so far                                        *)

requestVars == << sender, canceller, withdrawn, lost >>
outputVars  == << report, started >>
vars == << row, worker, requestVars, outputVars, queueVars, faults >>

-----------------------------------------------------------------------------
(* The states of a process.                                                *)

(* Main thread: "poll" is the long poll, "wrap" follows the end of run.sh, *)
(* "ack" has everything but the deletion of the message behind it.  The    *)
(* watcher: "tend" has read the row, "renew" has extended the message,     *)
(* "publish" has renewed the lease.                                        *)
Unclaimed == { "enlist", "expire", "claim" }
Watched   == { "prepare", "run", "wrap" }
Closing   == { "update", "publish" }
Places    == { "off", "poll", "ack" } \cup Unclaimed \cup Watched \cup Closing

Process == [ at      : Places,
             job     : Jobs \cup {NoJob},
             receipt : Nat,
             watch   : { "off", "sleep", "tend", "renew", "publish" },
             aborted : BOOLEAN,
             stop    : BOOLEAN,
             result  : Terminal \cup {"none"},
             salvage : BOOLEAN ]

Off == [ at |-> "off", job |-> NoJob, receipt |-> 0, watch |-> "off",
         aborted |-> FALSE, stop |-> FALSE, result |-> "none", salvage |-> FALSE ]

Polling == [ Off EXCEPT !.at = "poll" ]

Init ==
  /\ row = [ j \in Jobs |-> NoRow ]
  /\ report \in { f \in [ Jobs -> { "absent", "queued", "running", "done" } ] :
                    \A j \in Jobs : f[j] = "absent" <=> j \notin Legacy }
  /\ sender = [ j \in Jobs |-> "none" ]
  /\ canceller = {}
  /\ worker = [ w \in Workers |-> Off ]
  /\ started = [ j \in Jobs |-> 0 ]
  /\ withdrawn = {}
  /\ lost = {}
  /\ faults = 0
  /\ queue \in { q \in [ Owners -> { << >> } \cup { << j >> : j \in Legacy } ] :
                   \A o \in Owners, j \in Legacy : q[o] = << j >> <=> OwnerOf[j] = o }
  /\ window = [ o \in Owners |-> "visible" ]
  /\ receives = [ j \in Jobs |-> 0 ]
  /\ dead = {}

(* One compare-and-swap of cloudqueue.update that succeeds.  The revision  *)
(* does its work in CloudJobs and is not counted here; a settled row's     *)
(* lease means nothing any more.                                           *)
Written(j, new) ==
  LET ev == Settle(row[j], new)
  IN  [ ev EXCEPT !.revision = 1, !.lease = IF ev.status = "running" THEN @ ELSE 0 ]

Write(j, new)      == row' = [ row EXCEPT ![j] = Written(j, new) ]
WriteStatus(j, st) == Write(j, [ row[j] EXCEPT !.status = st ])

Fault(kind) == kind \in Kinds /\ faults < MaxFaults /\ faults' = faults + 1

(* Main thread and watcher of w go on as process p.                        *)
Step(w, p) == worker' = [ worker EXCEPT ![w] = p ] /\ UNCHANGED requestVars

Goto(w, place) == Step(w, [ worker[w] EXCEPT !.at = place ])

(* run() has returned or raised: with --retire-after-job a process that    *)
(* has worked exits, and so does one that was told to stop.                *)
Worked(p) == p.at \in Watched \cup Closing \/ p.result # "none"
Home(p)   == IF Worked(p) \/ p.stop THEN Off ELSE Polling

-----------------------------------------------------------------------------
(* evals.enqueue: the row first, then the message; a send that fails gives *)
(* the job up unless somebody has claimed it meanwhile.  An error may hide *)
(* a message that was accepted, and the process may die at any point.      *)

Submit(j) ==
  /\ row[j].status = "absent" /\ report[j] = "absent"
  /\ row' = [ row EXCEPT ![j] = Submitted(TRUE) ]
  /\ sender' = [ sender EXCEPT ![j] = "sending" ]
  /\ UNCHANGED << worker, canceller, withdrawn, lost, outputVars, queueVars, faults >>

Send(j) ==
  /\ sender[j] = "sending"
  /\ SendMessage(j)
  /\ sender' = [ sender EXCEPT ![j] = "none" ]
  /\ UNCHANGED << row, worker, canceller, withdrawn, lost, outputVars, faults >>

SendFails(j) ==
  /\ sender[j] = "sending"
  /\ Fault("error")
  /\ SendMessage(j) \/ UNCHANGED queueVars
  /\ sender' = [ sender EXCEPT ![j] = "abandoning" ]
  /\ UNCHANGED << row, worker, canceller, withdrawn, lost, outputVars >>

GivesUp_Never(j) == UNCHANGED row
GivesUp(j)       == IF row[j].status = "queued" THEN WriteStatus(j, "failed") ELSE UNCHANGED row

Abandon(j) ==
  /\ sender[j] = "abandoning"
  /\ GivesUp(j)
  /\ sender' = [ sender EXCEPT ![j] = "none" ]
  /\ UNCHANGED << worker, canceller, withdrawn, lost, outputVars, queueVars, faults >>

SenderDies(j) ==
  /\ sender[j] # "none"
  /\ Fault("crash")
  /\ sender' = [ sender EXCEPT ![j] = "none" ]
  /\ lost' = lost \cup {j}
  /\ UNCHANGED << row, worker, canceller, withdrawn, outputVars, queueVars >>

-----------------------------------------------------------------------------
(* evals.cancel_queued.  Asking again changes nothing but the revision.    *)

Cancel(j) ==
  /\ Cancellable(row[j]) /\ ~row[j].cancelled
  /\ Write(j, [ row[j] EXCEPT !.cancelled = TRUE ])
  /\ withdrawn' = IF row[j].status = "queued" THEN withdrawn \cup {j} ELSE withdrawn
  /\ UNCHANGED << worker, sender, canceller, lost, outputVars, queueVars, faults >>

(* A legacy job has no row: the request reads the report record ...        *)
CancelLegacy(j) ==
  /\ row[j].status = "absent" /\ report[j] = "queued"
  /\ canceller' = canceller \cup {j}
  /\ UNCHANGED << row, worker, sender, withdrawn, lost, outputVars, queueVars, faults >>

(* ... and writes it back as cancelled.                                    *)
CancelLegacyWrite(j) ==
  /\ j \in canceller
  /\ report' = [ report EXCEPT ![j] = "cancelled" ]
  /\ canceller' = canceller \ {j}
  /\ withdrawn' = withdrawn \cup {j}
  /\ UNCHANGED << row, worker, sender, lost, started, queueVars, faults >>

-----------------------------------------------------------------------------
(* Time and the services.  A process that is alive renews its job's lease  *)
(* and extends its message's window every minute, and needs minutes for    *)
(* what it does before and after: outliving either means stalling for a    *)
(* quarter of an hour.                                                     *)

Running(w, j) == worker[w].job = j /\ Fenced(row[j], w)
Attended(j)   == \E w \in Workers : Running(w, j)

Kept(o) ==
  \E w \in Workers : LET j == worker[w].job
                     IN  j \in Jobs /\ OwnerOf[j] = o /\ Good(j, worker[w].receipt)

LeaseRunsOut(j) ==
  /\ row[j].status = "running" /\ row[j].lease > 0
  /\ IF Attended(j) THEN Fault("stall") ELSE UNCHANGED faults
  /\ row' = [ row EXCEPT ![j].lease = 0 ]
  /\ UNCHANGED << worker, requestVars, outputVars, queueVars >>

(* A window set to the job's lease plus five seconds outlasts that lease.  *)
WindowCloses(o) ==
  /\ Reappear(o)
  /\ window[o] = "lease" =>
       LET r == row[Head(queue[o])] IN ~(r.status = "running" /\ r.lease > 0)
  /\ IF Kept(o) THEN Fault("stall") ELSE UNCHANGED faults
  /\ UNCHANGED << row, worker, requestVars, outputVars >>

Discard(o) == DeadLetter(o) /\ UNCHANGED << row, worker, requestVars, outputVars, faults >>

(* The capacity controller's scan of the active jobs.                      *)
ControllerExpires(j) ==
  /\ Lapsed(row[j], 1)
  /\ WriteStatus(j, "failed")
  /\ UNCHANGED << worker, requestVars, outputVars, queueVars, faults >>

-----------------------------------------------------------------------------
(* The main thread: main() and run() before the claim.                     *)

Boot(w) ==
  /\ worker[w] = Off
  /\ Step(w, Polling)
  /\ UNCHANGED << row, outputVars, queueVars, faults >>

(* Nothing arrived for --idle-seconds, or a signal ended the loop.         *)
Leave(w) ==
  /\ worker[w].at = "poll"
  /\ worker[w].stop \/ \A o \in Owners : ~Receivable(o)
  /\ Step(w, Off)
  /\ UNCHANGED << row, outputVars, queueVars, faults >>

(* What run() does with the row it finds; without one it looks at the      *)
(* report record, and refuses a legacy attempt that still runs.            *)
NextPlace_LeavesSettled(j) ==
  CASE row[j].status = "running" -> "expire"
    [] row[j].status = "queued"  -> "claim"
    [] OTHER -> "poll"
NextPlace(j) ==
  CASE row[j].status = "running" -> "expire"
    [] row[j].status = "queued"  -> "claim"
    [] row[j].status = "absent" /\ report[j] = "queued"  -> "enlist"
    [] row[j].status = "absent" /\ report[j] = "running" -> "poll"
    [] OTHER -> "ack"

(* The signal handler only sets a flag: a long poll it arrives in still    *)
(* returns its message.                                                    *)
Receive(w, o) ==
  LET p == worker[w]
      j == Head(queue[o])
  IN  /\ p.at = "poll"
      /\ ReceiveMessage(o)
      /\ Step(w, IF NextPlace(j) = "poll" THEN Home(p)
                 ELSE [ p EXCEPT !.at = NextPlace(j), !.job = j, !.receipt = receives[j] + 1 ])
      /\ UNCHANGED << row, outputVars, faults >>

(* cloudqueue.enqueue with cap 0; it raises if the row exists by now.      *)
Enlist(w) ==
  LET j == worker[w].job
  IN  /\ worker[w].at = "enlist"
      /\ \/ /\ row[j].status = "absent"
            /\ row' = [ row EXCEPT ![j] = Submitted(FALSE) ]
            /\ Goto(w, "claim")
         \/ /\ row[j].status # "absent"
            /\ Step(w, Home(worker[w]))
            /\ UNCHANGED row
      /\ UNCHANGED << outputVars, queueVars, faults >>

(* The message of a running job: settle the job if its lease has run out,  *)
(* otherwise hide the message until it will have.                          *)
Hide_Acknowledges(j, receipt) == DeleteMessage(j, receipt)
Hide(j, receipt)              == ChangeVisibility(j, receipt, "lease")

ExpireOrHide(w) ==
  LET p == worker[w]
      j == p.job
  IN  /\ p.at = "expire"
      /\ \/ /\ Lapsed(row[j], 1)
            /\ WriteStatus(j, "failed") /\ UNCHANGED queueVars
            /\ Goto(w, "ack")
         \/ /\ row[j].status = "running" /\ ~Lapsed(row[j], 1)
            /\ Hide(j, p.receipt) /\ UNCHANGED row
            /\ Step(w, Home(p))
         \/ /\ row[j].status \in Terminal
            /\ Goto(w, "ack")
            /\ UNCHANGED << row, queueVars >>
      /\ UNCHANGED << outputVars, faults >>

WriteClaim(j, w) == Write(j, [ row[j] EXCEPT !.status = "running", !.claim = w, !.lease = 1 ])

(* protect_instance and claim(); winning it starts the watcher.            *)
Claim(w) ==
  LET p == worker[w]
  IN  /\ p.at = "claim"
      /\ \/ /\ Claimable(row[p.job])
            /\ WriteClaim(p.job, w)
            /\ Step(w, [ p EXCEPT !.at = "prepare", !.watch = "sleep" ])
         \/ /\ ~Claimable(row[p.job])
            /\ Step(w, Home(p))
            /\ UNCHANGED row
      /\ UNCHANGED << outputVars, queueVars, faults >>

(* The claim was written, but its answer never arrived.                    *)
ClaimUnanswered(w) ==
  LET p == worker[w]
  IN  /\ p.at = "claim"
      /\ Claimable(row[p.job])
      /\ Fault("unanswered")
      /\ WriteClaim(p.job, w)
      /\ Step(w, Home(p))
      /\ UNCHANGED << outputVars, queueVars >>

-----------------------------------------------------------------------------
(* The main thread: run() after the claim.                                 *)

(* A call fails.  Before the claim and after the result run() ends there;  *)
(* until run.sh has been dealt with the attempt fails; then the except     *)
(* branch tries to settle the job as failed, once.                         *)
AfterError(p) ==
  CASE p.at \in {"prepare", "run"}
         -> [ p EXCEPT !.at = "wrap", !.result = "failed" ]
    [] p.at \in {"wrap", "update", "publish"} /\ ~p.salvage
         -> [ p EXCEPT !.at = "update", !.result = "failed", !.salvage = TRUE ]
    [] OTHER -> Home(p)

Ending(p) == p.aborted \/ p.stop

(* Downloads and credentials; then, unless the attempt is already aborted, *)
(* the job is published as running and run.sh started.                     *)
Prepare(w) ==
  LET p == worker[w]
  IN  /\ p.at = "prepare"
      /\ \/ /\ Ending(p)
            /\ Step(w, [ p EXCEPT !.at = "wrap", !.result = "failed" ])
            /\ UNCHANGED outputVars
         \/ /\ ~Ending(p)
            /\ report' = [ report EXCEPT ![p.job] = "running" ]
            /\ started' = [ started EXCEPT ![p.job] = @ + 1 ]
            /\ Goto(w, "run")
      /\ UNCHANGED << row, queueVars, faults >>

(* run.sh exits by itself, with a finished run.json or without, or its     *)
(* process group is killed.                                                *)
Results_None(p) == IF Ending(p) THEN {p.result} ELSE {"done", "failed"}
Results(p)      == IF Ending(p) THEN {"failed"} ELSE {"done", "failed"}

RunEnds(w) ==
  /\ worker[w].at = "run"
  /\ \E result \in Results(worker[w]) :
       Step(w, [ worker[w] EXCEPT !.at = "wrap", !.result = result ])
  /\ UNCHANGED << row, outputVars, queueVars, faults >>

(* Containers removed, run published and archived: the status is decided   *)
(* and the watcher is told to stop.                                        *)
WrapUp(w) ==
  LET p == worker[w]
  IN  /\ p.at = "wrap"
      /\ Step(w, [ p EXCEPT !.at = "update", !.result = IF p.aborted THEN "failed" ELSE @ ])
      /\ UNCHANGED << row, outputVars, queueVars, faults >>

(* join(timeout=30): a watcher between two rounds stops at once; one that  *)
(* is inside a slow call may be left behind.                               *)
Joined(p) == p.watch \in {"off", "sleep"}
Alone(p)  == IF Joined(p) THEN [ p EXCEPT !.watch = "off" ] ELSE p

(* update() returns the row it wrote, and that is what gets published.     *)
Returned_Asked(p) == p.result
Returned(p)       == Written(p.job, [ row[p.job] EXCEPT !.status = p.result ]).status

(* The fenced write of the result.  A worker whose claim is gone says      *)
(* nothing and leaves its message where it is.                             *)
Update(w) ==
  LET p == worker[w]
  IN  /\ p.at = "update"
      /\ IF Joined(p) THEN UNCHANGED faults ELSE Fault("stall")
      /\ \/ /\ Fenced(row[p.job], w)
            /\ WriteStatus(p.job, p.result)
            /\ Step(w, [ Alone(p) EXCEPT !.at = "publish", !.result = Returned(p) ])
         \/ /\ ~Fenced(row[p.job], w)
            /\ Step(w, Home(p))
            /\ UNCHANGED row
      /\ UNCHANGED << outputVars, queueVars >>

(* The result was written, but its answer never arrived: the except branch *)
(* tries again as a failure and finds its lease gone.                      *)
UpdateUnanswered(w) ==
  LET p == worker[w]
  IN  /\ p.at = "update"
      /\ Fenced(row[p.job], w)
      /\ Fault("unanswered")
      /\ WriteStatus(p.job, p.result)
      /\ Step(w, AfterError(p))
      /\ UNCHANGED << outputVars, queueVars >>

Publish(w) ==
  /\ worker[w].at = "publish"
  /\ report' = [ report EXCEPT ![worker[w].job] = worker[w].result ]
  /\ Goto(w, "ack")
  /\ UNCHANGED << row, started, queueVars, faults >>

Acknowledge(w) ==
  /\ worker[w].at = "ack"
  /\ DeleteMessage(worker[w].job, worker[w].receipt)
  /\ Step(w, Home(worker[w]))
  /\ UNCHANGED << row, outputVars, faults >>

(* An error leaves the message where it is.                                *)
MessageAfterError_Deleted(p) == DeleteMessage(p.job, p.receipt)
MessageAfterError(p)         == UNCHANGED queueVars

Raise(w) ==
  /\ worker[w].at \in Unclaimed \cup Watched \cup {"update", "publish", "ack"}
  /\ Fault("error")
  /\ MessageAfterError(worker[w])
  /\ Step(w, AfterError(worker[w]))
  /\ UNCHANGED << row, outputVars >>

-----------------------------------------------------------------------------
(* The watcher: every two seconds, until the main thread says stop.        *)

Told(p) == p.at \notin Watched

Abort_Silently(p) == [ p EXCEPT !.watch = "off" ]
Abort(p)          == [ p EXCEPT !.watch = "off", !.aborted = TRUE ]

WatchRead(w) ==
  LET p == worker[w]
      r == row[p.job]
  IN  /\ p.watch = "sleep" /\ ~Told(p)
      /\ Step(w, IF ~Fenced(r, w) \/ r.cancelled \/ p.stop
                 THEN Abort(p) ELSE [ p EXCEPT !.watch = "tend" ])
      /\ UNCHANGED << row, outputVars, queueVars, faults >>

(* HR_MAX_JOB_SECONDS have passed.                                         *)
WatchLimit(w) ==
  /\ worker[w].watch = "tend"
  /\ Step(w, Abort(worker[w]))
  /\ UNCHANGED << row, outputVars, queueVars, faults >>

(* Every minute the message's window is extended, then the lease.          *)
WatchExtend(w) ==
  LET p == worker[w]
  IN  /\ p.watch = "tend"
      /\ ChangeVisibility(p.job, p.receipt, "held")
      /\ Step(w, IF Good(p.job, p.receipt) THEN [ p EXCEPT !.watch = "renew" ] ELSE Abort(p))
      /\ UNCHANGED << row, outputVars, faults >>

WatchRenew(w) ==
  LET p == worker[w]
  IN  /\ p.watch = "renew"
      /\ \/ /\ Fenced(row[p.job], w)
            /\ Write(p.job, [ row[p.job] EXCEPT !.lease = 1 ])
            /\ Step(w, [ p EXCEPT !.watch = "publish" ])
         \/ /\ ~Fenced(row[p.job], w)
            /\ Step(w, Abort(p))
            /\ UNCHANGED row
      /\ UNCHANGED << outputVars, queueVars, faults >>

(* No renewal was due, or it is done: what is published is the row as it   *)
(* was read or renewed, running.                                           *)
WatchPublish(w) ==
  LET p == worker[w]
  IN  /\ p.watch \in {"tend", "publish"}
      /\ report' = [ report EXCEPT ![p.job] = "running" ]
      /\ Step(w, [ p EXCEPT !.watch = IF Told(p) THEN "off" ELSE "sleep" ])
      /\ UNCHANGED << row, started, queueVars, faults >>

WatchFails(w) ==
  /\ worker[w].watch # "off"
  /\ Fault("error")
  /\ Step(w, Abort(worker[w]))
  /\ UNCHANGED << row, outputVars, queueVars >>

-----------------------------------------------------------------------------
(* The machine: SIGTERM when the service's time is up or the instance      *)
(* shuts down; or the VM is gone at once, and with it run.sh.              *)

Signal(w) ==
  /\ worker[w].at # "off" /\ ~worker[w].stop
  /\ Fault("signal")
  /\ Step(w, [ worker[w] EXCEPT !.stop = TRUE ])
  /\ UNCHANGED << row, outputVars, queueVars >>

Crash(w) ==
  /\ worker[w].at # "off"
  /\ Fault("crash")
  /\ Step(w, Off)
  /\ UNCHANGED << row, outputVars, queueVars >>

MainStep(w) ==
  \/ Enlist(w) \/ ExpireOrHide(w) \/ Claim(w)
  \/ Prepare(w) \/ WrapUp(w)
  \/ Update(w) \/ Publish(w) \/ Acknowledge(w)

WatchStep(w) ==
  WatchRead(w) \/ WatchExtend(w) \/ WatchRenew(w) \/ WatchPublish(w)

Next ==
  \/ \E j \in Jobs :
       \/ Submit(j) \/ Send(j) \/ SendFails(j) \/ Abandon(j) \/ SenderDies(j)
       \/ Cancel(j) \/ CancelLegacy(j) \/ CancelLegacyWrite(j)
       \/ LeaseRunsOut(j) \/ ControllerExpires(j)
  \/ \E o \in Owners : WindowCloses(o) \/ Discard(o)
  \/ \E w \in Workers :
       \/ Boot(w) \/ Leave(w) \/ MainStep(w) \/ WatchStep(w)
       \/ RunEnds(w) \/ WatchLimit(w)
       \/ ClaimUnanswered(w) \/ UpdateUnanswered(w) \/ Raise(w) \/ WatchFails(w)
       \/ Signal(w) \/ Crash(w)
       \/ \E o \in Owners : Receive(w, o)

Spec == Init /\ [][Next]_vars

(* Threads and requests that are alive go on; the clock goes on; the       *)
(* controller scans every minute, and starts a VM while a job is active.   *)
(* run.sh may hang for ever: only the watcher's limit ends it then, which  *)
(* it reaches however often it comes round to look.                        *)
Fairness ==
  /\ \A j \in Jobs :
       /\ WF_vars(Send(j)) /\ WF_vars(Abandon(j)) /\ WF_vars(CancelLegacyWrite(j))
       /\ WF_vars(LeaseRunsOut(j) /\ UNCHANGED faults)
       /\ WF_vars(ControllerExpires(j))
  /\ \A o \in Owners :
       /\ WF_vars(WindowCloses(o) /\ UNCHANGED faults)
       /\ WF_vars(Discard(o))
       /\ WF_vars(\E w \in Workers : Receive(w, o))
  /\ \A w \in Workers :
       /\ WF_vars(Boot(w))
       /\ WF_vars(MainStep(w) /\ UNCHANGED faults)
       /\ WF_vars(RunEnds(w) /\ Ending(worker[w]))
       /\ WF_vars(WatchStep(w))
       /\ SF_vars(WatchLimit(w))

FairSpec == Spec /\ Fairness

-----------------------------------------------------------------------------
(* The promise.  Which jobs hold a daily slot is left to CloudJobs.        *)

Lifecycle == INSTANCE JobLifecycle WITH
  SlotOf  <- OwnerOf,
  DailyCap <- 0,
  state   <- [ j \in Jobs |-> row[j].status ],
  wanted  <- { j \in Jobs : row[j].cancelled },
  charged <- {}

(* Workers, watchers, deliveries, expiries, lost answers and crashes do to *)
(* a job what the plain life cycle allows, drained or submitted: it never  *)
(* goes back, a cancellation wins over its result, a verdict is final.     *)
LifecycleSpec == Lifecycle!LifecycleSpec

-----------------------------------------------------------------------------
(* Properties.                                                             *)

OnQueue(j) == \E i \in DOMAIN queue[OwnerOf[j]] : queue[OwnerOf[j]][i] = j

TypeOK ==
  /\ row \in [ Jobs -> Row ]
  /\ report \in [ Jobs -> Live \cup Terminal \cup {"absent"} ]
  /\ sender \in [ Jobs -> { "none", "sending", "abandoning" } ]
  /\ canceller \subseteq Legacy
  /\ worker \in [ Workers -> Process ]
  /\ started \in [ Jobs -> Nat ]
  /\ withdrawn \subseteq Jobs
  /\ lost \subseteq Jobs
  /\ faults \in 0 .. MaxFaults
  /\ queue \in [ Owners -> Seq(Jobs) ]
  /\ window \in [ Owners -> { "visible", "held", "lease" } ]
  /\ receives \in [ Jobs -> 0 .. MaxReceives ]
  /\ dead \subseteq Jobs

(* "paid model calls are not automatically repeated" (CLOUD.md): however   *)
(* often a message is delivered, whoever crashes, run.sh is started for a  *)
(* job at most once.                                                       *)
AtMostOneAttempt == \A j \in Jobs : started[j] <= 1

(* A queued job is never forgotten: its message is on the queue or about   *)
(* to be sent, unless the process submitting it died or every delivery the *)
(* queue allows went wrong.                                                *)
QueuedIsQueued ==
  \A j \in Jobs : row[j].status = "queued" =>
    \/ OnQueue(j)
    \/ sender[j] # "none"
    \/ j \in lost \cup dead

(* "each user has one active evaluation at a time" (CLOUD.md): no two jobs *)
(* of one owner are running, even when a window closes too early or a      *)
(* worker is lost.                                                         *)
OneAtATime ==
  \A i, j \in Jobs :
    ( /\ OwnerOf[i] = OwnerOf[j]
      /\ row[i].status = "running"
      /\ row[j].status = "running" ) => i = j

(* A final status on the public report is the status the job really has: a *)
(* worker that lost its lease, or was cancelled while it settled, never    *)
(* publishes the result it had in mind.                                    *)
PublishedIsTrue ==
  \A j \in Jobs : report[j] \in Terminal => report[j] = row[j].status

(* "Queued cancellation prevents execution" (CLOUD.md).                    *)
QueuedCancellationHolds == \A j \in withdrawn : started[j] = 0

(* A job that has settled stays as it is, whichever worker, expiry or      *)
(* request comes late.                                                     *)
SettledIsFinal ==
  [][ \A j \in Jobs : row[j].status \in Terminal => row'[j].status = row[j].status ]_vars

(* Every job that is submitted settles - its worker may crash, hang or     *)
(* lose its messages - unless the process submitting it died.              *)
EveryJobSettles ==
  \A j \in Jobs : row[j].status \in Live ~> (row[j].status \in Terminal \/ j \in lost)

(* run.sh of an attempt that was cancelled, or whose job was given up, is  *)
(* stopped, even when the pipeline itself hangs.                           *)
StaleRunsStop ==
  \A w \in Workers, j \in Jobs :
    (Running(w, j) /\ worker[w].at = "run" /\ row[j].cancelled)
      ~> (worker[w].at # "run" \/ worker[w].job # j)

(* The message of a settled job is deleted, so that the owner's next job   *)
(* is not stuck behind it, and nothing settled is left among the dead.     *)
SettledIsDeleted ==
  \A j \in Jobs : row[j].status \in Terminal ~> (~OnQueue(j) /\ j \notin dead)

(* What holds of the worker and its queue in every state: as long as the   *)
(* queue holds no legacy job, an attempt is never repeated nor started     *)
(* after a cancellation, a queued job is never forgotten and no report is  *)
(* false.                                                                  *)
WorkerSafety ==
  /\ TypeOK /\ AtMostOneAttempt /\ QueuedCancellationHolds /\ QueuedIsQueued
  /\ PublishedIsTrue

=============================================================================
