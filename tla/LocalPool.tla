----------------------------- MODULE LocalPool -----------------------------
(***************************************************************************)
(* lib/localqueue.py and lib/localrunner.py: the SQLite queue of one       *)
(* machine, and the hr-local process that runs its jobs.                   *)
(*                                                                         *)
(* Every operation of the queue is one SQLite transaction.  An hr-local    *)
(* process takes the pool lock, recovers what its predecessor left, and    *)
(* serves with a fixed number of threads; each claims a job, starts run.sh *)
(* in a process group of its own, records its pid, watches it, removes its *)
(* containers and settles the row.  run.sh outlives an hr-local that is    *)
(* killed; containers outlive run.sh.                                      *)
(***************************************************************************)
EXTENDS Naturals, Sequences, FiniteSets

CONSTANTS
  Jobs,         (* evaluation ids                                           *)
  Owners,       (* logins                                                   *)
  OwnerOf,      (* the owner of a job                                       *)
  Pools,        (* hr-local processes that may be started                   *)
  NoPool,       (* nobody holds the pool lock                               *)
  Threads,      (* the worker threads of a pool                             *)
  NoJob,        (* the thread has no job                                    *)
  PerUser,      (* --per-user                                               *)
  DailyCap,     (* HR_DAILY_CAP, 0 for none                                 *)
  Kinds,        (* the kinds of fault that may happen                       *)
  MaxFaults     (* bound: how many of them in a behaviour                   *)

ASSUME LocalPoolAssumption ==
  /\ IsFiniteSet(Jobs)
  /\ OwnerOf \in [ Jobs -> Owners ]
  /\ NoPool \notin Pools
  /\ NoJob \notin Jobs
  /\ PerUser \in Nat \ {0}
  /\ DailyCap \in Nat
  /\ Kinds \subseteq { "crash", "reboot", "error", "signal", "hang" }
  /\ MaxFaults \in Nat

VARIABLES
  row,          (* row[j]: the queue's row for job j                        *)
  created,      (* the jobs with a row, oldest first                        *)
  lock,         (* the pool that holds the flock                            *)
  pool,         (* pool[p]: the main thread of hr-local process p           *)
  thread,       (* thread[p][t]: worker thread t of p                       *)
  proc,         (* proc[j]: the process group of j's run.sh, and whether    *)
                (* it left a finished run.json                              *)
  debris,       (* the jobs with labelled containers, networks or volumes   *)
  saved,        (* saved[j]: the status in j's eval.json                    *)
  launched,     (* launched[j]: how often run.sh was started for j          *)
  orphaned,     (* jobs whose run.sh was running, its pid not yet recorded, *)
                (* when hr-local was killed                                 *)
  dirty,        (* jobs that were settled although cleanup() failed         *)
  hung,         (* jobs whose run.sh will not exit by itself                *)
  faults        (* the faults so far                                        *)

queueVars == << row, created >>
poolVars  == << lock, pool, thread >>
hostVars  == << proc, debris, saved, launched >>
ghostVars == << orphaned, dirty, hung >>
vars      == << queueVars, poolVars, hostVars, ghostVars, faults >>

Terminal == { "done", "failed", "cancelled" }

Row    == [ status : { "absent", "queued", "running" } \cup Terminal,
            cancelled : BOOLEAN, pid : BOOLEAN ]
Pool   == [ at : { "down", "recover", "stop", "clean", "settle", "save", "serve" },
            job : Jobs \cup {NoJob}, stop : BOOLEAN ]
Thread == [ at : { "idle", "launch", "record", "watch", "stopping", "clean",
                   "settle", "save", "ended" },
            job : Jobs \cup {NoJob}, error : BOOLEAN ]

Down == [ at |-> "down", job |-> NoJob, stop |-> FALSE ]
Idle == [ at |-> "idle", job |-> NoJob, error |-> FALSE ]

Init ==
  /\ row = [ j \in Jobs |-> [ status |-> "absent", cancelled |-> FALSE, pid |-> FALSE ] ]
  /\ created = << >>
  /\ lock = NoPool
  /\ pool = [ p \in Pools |-> Down ]
  /\ thread = [ p \in Pools |-> [ t \in Threads |-> Idle ] ]
  /\ proc = [ j \in Jobs |-> "none" ]
  /\ debris = {}
  /\ saved = [ j \in Jobs |-> "absent" ]
  /\ launched = [ j \in Jobs |-> 0 ]
  /\ orphaned = {}
  /\ dirty = {}
  /\ hung = {}
  /\ faults = 0

Fault(kind) == kind \in Kinds /\ faults < MaxFaults /\ faults' = faults + 1

-----------------------------------------------------------------------------
(* The queue's transactions.                                               *)

Having(statuses) == { j \in Jobs : row[j].status \in statuses }
OfOwner(o)       == { j \in Jobs : OwnerOf[j] = o }
Counted(o)       == OfOwner(o) \cap Having({ "queued", "running", "done", "failed" })

Enqueue(j) ==
  /\ row[j].status = "absent"
  /\ DailyCap > 0 => Cardinality(Counted(OwnerOf[j])) < DailyCap
  /\ row' = [ row EXCEPT ![j].status = "queued" ]
  /\ created' = Append(created, j)
  /\ UNCHANGED << poolVars, hostVars, ghostVars, faults >>

Cancel(j) ==
  /\ row[j].status \in { "queued", "running" }
  /\ row' = [ row EXCEPT ![j].cancelled = TRUE,
                         ![j].status = IF @ = "queued" THEN "cancelled" ELSE @ ]
  /\ UNCHANGED << created, poolVars, hostVars, ghostVars, faults >>

(* update() merges against the row as it is: a cancellation survives, and  *)
(* turns a result into "cancelled".                                        *)
Merged_Blind(r, status, pid) == [ status |-> status, cancelled |-> FALSE, pid |-> pid ]
Merged(r, status, pid) ==
  [ r EXCEPT !.pid = pid,
             !.status = IF r.cancelled /\ status \in Terminal THEN "cancelled" ELSE status ]

Update(j, status, pid) ==
  /\ row' = [ row EXCEPT ![j] = Merged(@, status, pid) ]
  /\ UNCHANGED created

Busy_WholePool(o) == Cardinality(Having({"running"})) >= PerUser
Busy(o)           == Cardinality(OfOwner(o) \cap Having({"running"})) >= PerUser

Eligible == { j \in Having({"queued"}) : ~row[j].cancelled /\ ~Busy(OwnerOf[j]) }

Oldest(S, j) ==
  \E i \in DOMAIN created :
    created[i] = j /\ j \in S /\ \A h \in 1 .. i - 1 : created[h] \notin S

-----------------------------------------------------------------------------
(* Runner.run: the lock, recovery, and the end.                            *)

Main(p, new) == pool' = [ pool EXCEPT ![p] = new ]

(* flock: the end of a process, by whatever way, frees it.                 *)
Lockable_Always(p) == TRUE
Lockable(p)        == lock = NoPool

Start(p) ==
  /\ pool[p].at = "down"
  /\ Lockable(p)
  /\ lock' = p
  /\ Main(p, [ Down EXCEPT !.at = "recover" ])
  /\ UNCHANGED << queueVars, thread, hostVars, ghostVars, faults >>

Exit(p) ==
  /\ Main(p, Down)
  /\ thread' = [ thread EXCEPT ![p] = [ t \in Threads |-> Idle ] ]
  /\ lock' = IF lock = p THEN NoPool ELSE lock

Recovers(p, from, to) ==
  /\ pool[p].at = from
  /\ Main(p, [ pool[p] EXCEPT !.at = to ])
  /\ UNCHANGED << lock, thread, launched, ghostVars, faults >>

(* Nobody but the pool starts jobs, so that the rows active() returned are *)
(* the ones still running.                                                 *)
RecoverNext(p) ==
  /\ pool[p].at = "recover"
  /\ LET interrupted == Having({"running"})
     IN  \/ interrupted = {} /\ Main(p, [ pool[p] EXCEPT !.at = "serve", !.job = NoJob ])
         \/ \E j \in Jobs :
              Oldest(interrupted, j) /\ Main(p, [ pool[p] EXCEPT !.at = "stop", !.job = j ])
  /\ UNCHANGED << queueVars, lock, thread, hostVars, ghostVars, faults >>

(* A process group, terminated and then killed; what it leaves in run.json *)
(* no longer matters.                                                      *)
Killed(j) == IF proc[j] = "alive" THEN [ proc EXCEPT ![j] = "unfinished" ] ELSE proc

Signalled_Never(j) == FALSE
Signalled(j)       == row[j].pid

RecoverStop(p) ==
  /\ Recovers(p, "stop", "clean")
  /\ proc' = IF Signalled(pool[p].job) THEN Killed(pool[p].job) ELSE proc
  /\ UNCHANGED << queueVars, debris, saved >>

RecoverClean(p) ==
  /\ Recovers(p, "clean", "settle")
  /\ debris' = debris \ {pool[p].job}
  /\ UNCHANGED << queueVars, proc, saved >>

RecoverSettle_Requeues(p) ==
  /\ Recovers(p, "settle", "save")
  /\ Update(pool[p].job, "queued", FALSE)
  /\ UNCHANGED << proc, debris, saved >>

RecoverSettle(p) ==
  /\ Recovers(p, "settle", "save")
  /\ Update(pool[p].job, "failed", FALSE)
  /\ UNCHANGED << proc, debris, saved >>

RecoverSave(p) ==
  /\ Recovers(p, "save", "recover")
  /\ saved' = [ saved EXCEPT ![pool[p].job] = row[pool[p].job].status ]
  /\ UNCHANGED << queueVars, proc, debris >>

(* cleanup(), update() or _save() raises: hr-local ends.                   *)
RecoverRaises(p) ==
  /\ pool[p].at \in { "clean", "settle", "save" }
  /\ Fault("error")
  /\ Exit(p)
  /\ UNCHANGED << queueVars, hostVars, ghostVars >>

(* SIGINT or SIGTERM, or a thread that ended with an exception.            *)
Stop(p) ==
  /\ pool[p].at # "down" /\ ~pool[p].stop
  /\ \/ Fault("signal")
     \/ (\E t \in Threads : thread[p][t].at = "ended") /\ UNCHANGED faults
  /\ Main(p, [ pool[p] EXCEPT !.stop = TRUE ])
  /\ UNCHANGED << queueVars, lock, thread, hostVars, ghostVars >>

Leave(p) ==
  /\ pool[p].at = "serve" /\ pool[p].stop
  /\ \A t \in Threads : thread[p][t].at \in { "idle", "ended" }
  /\ Exit(p)
  /\ UNCHANGED << queueVars, hostVars, ghostVars, faults >>

-----------------------------------------------------------------------------
(* Runner.worker and Runner.execute.                                       *)

JobOf(p, t) == thread[p][t].job

Step(p, t, new) ==
  /\ thread' = [ thread EXCEPT ![p][t] = new ]
  /\ UNCHANGED << lock, pool, orphaned, hung >>

Moves(p, t, from, to) ==
  /\ thread[p][t].at \in from
  /\ Step(p, t, [ thread[p][t] EXCEPT !.at = to ])
  /\ UNCHANGED << dirty, faults >>

Take(p, t) ==
  /\ pool[p].at = "serve" /\ ~pool[p].stop
  /\ thread[p][t].at = "idle"
  /\ \E j \in Jobs :
       /\ Oldest(Eligible, j)
       /\ Update(j, "running", FALSE)
       /\ Step(p, t, [ Idle EXCEPT !.at = "launch", !.job = j ])
  /\ UNCHANGED << hostVars, dirty, faults >>

(* A cancellation between the look at the row and Popen is seen by the     *)
(* first round of the loop.                                                *)
Launch(p, t) ==
  LET j == JobOf(p, t)
  IN  /\ \/ /\ Moves(p, t, {"launch"}, "clean")
            /\ row[j].cancelled
            /\ UNCHANGED << proc, launched >>
         \/ /\ Moves(p, t, {"launch"}, "record")
            /\ ~row[j].cancelled
            /\ proc' = [ proc EXCEPT ![j] = "alive" ]
            /\ launched' = [ launched EXCEPT ![j] = @ + 1 ]
      /\ UNCHANGED << queueVars, debris, saved >>

(* The pid into the row, the row into eval.json; the loop writes eval.json *)
(* again every two seconds, still running.                                 *)
Record(p, t) ==
  LET j == JobOf(p, t)
  IN  /\ Moves(p, t, {"record"}, "watch")
      /\ Update(j, row[j].status, TRUE)
      /\ saved' = [ saved EXCEPT ![j] = "running" ]
      /\ UNCHANGED << proc, debris, launched >>

Asked_ToStopOnly(p, j) == pool[p].stop
Asked(p, j)            == pool[p].stop \/ row[j].cancelled

Interrupt(p, t) ==
  /\ thread[p][t].at = "watch"
  /\ proc[JobOf(p, t)] = "alive"
  /\ Asked(p, JobOf(p, t))
  /\ Step(p, t, [ thread[p][t] EXCEPT !.at = "stopping", !.error = pool[p].stop ])
  /\ UNCHANGED << queueVars, hostVars, dirty, faults >>

(* SIGKILL, five seconds after SIGTERM.                                    *)
Kill(p, t) ==
  /\ thread[p][t].at = "stopping"
  /\ proc[JobOf(p, t)] = "alive"
  /\ proc' = Killed(JobOf(p, t))
  /\ UNCHANGED << queueVars, poolVars, debris, saved, launched, ghostVars, faults >>

Reap(p, t) ==
  /\ Moves(p, t, {"watch", "stopping"}, "clean")
  /\ proc[JobOf(p, t)] # "alive"
  /\ UNCHANGED << queueVars, hostVars >>

(* Anything raised up to here ends in the finally clause: run.sh is killed.*)
AfterRaise_LeavesRun(j) == proc
AfterRaise(j)           == Killed(j)

Raise(p, t) ==
  /\ thread[p][t].at \in { "launch", "record", "watch", "stopping" }
  /\ Fault("error")
  /\ proc' = AfterRaise(JobOf(p, t))
  /\ Step(p, t, [ thread[p][t] EXCEPT !.at = "clean", !.error = TRUE ])
  /\ UNCHANGED << queueVars, debris, saved, launched, dirty >>

Clean(p, t) ==
  /\ Moves(p, t, {"clean"}, "settle")
  /\ debris' = debris \ {JobOf(p, t)}
  /\ UNCHANGED << queueVars, proc, saved, launched >>

CleanRaises(p, t) ==
  /\ thread[p][t].at = "clean"
  /\ Fault("error")
  /\ Step(p, t, [ thread[p][t] EXCEPT !.at = "settle", !.error = TRUE ])
  /\ dirty' = dirty \cup {JobOf(p, t)}
  /\ UNCHANGED << queueVars, hostVars >>

Result(p, t) == IF proc[JobOf(p, t)] = "finished" /\ ~thread[p][t].error THEN "done" ELSE "failed"

Settle(p, t) ==
  /\ Moves(p, t, {"settle"}, "save")
  /\ Update(JobOf(p, t), Result(p, t), FALSE)
  /\ UNCHANGED hostVars

(* What is saved is the row update() returned.                             *)
Shown_Result(p, t) == Result(p, t)
Shown(p, t)        == row[JobOf(p, t)].status

Save(p, t) ==
  /\ thread[p][t].at = "save"
  /\ saved' = [ saved EXCEPT ![JobOf(p, t)] = Shown(p, t) ]
  /\ Step(p, t, Idle)
  /\ UNCHANGED << queueVars, proc, debris, launched, dirty, faults >>

(* Outside the try block, or in claim(): the thread ends.                  *)
ThreadEnds(p, t) ==
  /\ pool[p].at = "serve"
  /\ thread[p][t].at \in { "idle", "settle", "save" }
  /\ Fault("error")
  /\ Step(p, t, [ Idle EXCEPT !.at = "ended" ])
  /\ UNCHANGED << queueVars, hostVars, dirty >>

-----------------------------------------------------------------------------
(* The host.  run.sh creates labelled containers while it lives, and       *)
(* removes them when it exits in an orderly way.                           *)

RunWorks(j) ==
  /\ proc[j] = "alive" /\ j \notin debris
  /\ debris' = debris \cup {j}
  /\ UNCHANGED << queueVars, poolVars, proc, saved, launched, ghostVars, faults >>

RunExits(j) ==
  /\ proc[j] = "alive" /\ j \notin hung
  /\ \E result \in { "finished", "unfinished" } : proc' = [ proc EXCEPT ![j] = result ]
  /\ debris' \in { debris, debris \ {j} }
  /\ UNCHANGED << queueVars, poolVars, saved, launched, ghostVars, faults >>

RunHangs(j) ==
  /\ proc[j] = "alive" /\ j \notin hung
  /\ Fault("hang")
  /\ hung' = hung \cup {j}
  /\ UNCHANGED << queueVars, poolVars, hostVars, orphaned, dirty >>

(* hr-local is killed; its run.sh processes live on.                       *)
Crash(p) ==
  /\ pool[p].at # "down"
  /\ Fault("crash")
  /\ Exit(p)
  /\ orphaned' = orphaned \cup { JobOf(p, t) : t \in { u \in Threads : thread[p][u].at = "record" } }
  /\ UNCHANGED << queueVars, hostVars, dirty, hung >>

(* The machine goes down and everything on it.                             *)
Reboot ==
  /\ Fault("reboot")
  /\ pool' = [ p \in Pools |-> Down ]
  /\ thread' = [ p \in Pools |-> [ t \in Threads |-> Idle ] ]
  /\ lock' = NoPool
  /\ proc' = [ j \in Jobs |-> IF proc[j] = "alive" THEN "unfinished" ELSE proc[j] ]
  /\ UNCHANGED << queueVars, debris, saved, launched, ghostVars >>

RecoverStep(p) ==
  \/ RecoverNext(p) \/ RecoverStop(p) \/ RecoverClean(p)
  \/ RecoverSettle(p) \/ RecoverSave(p)

ThreadStep(p, t) ==
  \/ Take(p, t) \/ Launch(p, t) \/ Record(p, t) \/ Interrupt(p, t) \/ Kill(p, t)
  \/ Reap(p, t) \/ Clean(p, t) \/ Settle(p, t) \/ Save(p, t)

Next ==
  \/ \E j \in Jobs : Enqueue(j) \/ Cancel(j) \/ RunWorks(j) \/ RunExits(j) \/ RunHangs(j)
  \/ \E p \in Pools :
       \/ Start(p) \/ RecoverStep(p) \/ RecoverRaises(p)
       \/ Stop(p) \/ Leave(p) \/ Crash(p)
       \/ \E t \in Threads :
            ThreadStep(p, t) \/ Raise(p, t) \/ CleanRaises(p, t) \/ ThreadEnds(p, t)
  \/ Reboot

Spec == Init /\ [][Next]_vars

(* Somebody starts hr-local again; its threads run; run.sh ends unless it  *)
(* hangs.                                                                  *)
Fairness ==
  /\ WF_vars(\E p \in Pools : Start(p))
  /\ \A p \in Pools :
       /\ WF_vars(RecoverStep(p))
       /\ WF_vars(Stop(p) /\ UNCHANGED faults)
       /\ WF_vars(Leave(p))
       /\ \A t \in Threads : WF_vars(ThreadStep(p, t))
  /\ \A j \in Jobs : WF_vars(RunExits(j))

FairSpec == Spec /\ Fairness

-----------------------------------------------------------------------------
(* Properties.                                                             *)

TypeOK ==
  /\ row \in [ Jobs -> Row ]
  /\ created \in Seq(Jobs)
  /\ lock \in Pools \cup {NoPool}
  /\ pool \in [ Pools -> Pool ]
  /\ thread \in [ Pools -> [ Threads -> Thread ] ]
  /\ proc \in [ Jobs -> { "none", "alive", "finished", "unfinished" } ]
  /\ debris \subseteq Jobs
  /\ saved \in [ Jobs -> { "absent", "running" } \cup Terminal ]
  /\ launched \in [ Jobs -> Nat ]
  /\ orphaned \subseteq Jobs /\ dirty \subseteq Jobs /\ hung \subseteq Jobs
  /\ faults \in 0 .. MaxFaults

(* "interrupted attempts are cleaned and marked failed rather than         *)
(* silently repeated (which could repeat paid model calls)" (LOCAL.md).    *)
AtMostOneAttempt == \A j \in Jobs : launched[j] <= 1

(* "at most one running job per user", however many pools somebody tries   *)
(* to start and whatever the last one left behind: counted in live run.sh  *)
(* processes, not in rows.                                                 *)
OneRunPerUser ==
  \A o \in Owners :
    Cardinality({ j \in Jobs \ orphaned : OwnerOf[j] = o /\ proc[j] = "alive" }) <= PerUser

(* A settled job has no process and no containers left, unless cleanup()   *)
(* itself failed and said so.                                              *)
SettledIsClean ==
  \A j \in Jobs \ orphaned :
    row[j].status \in Terminal => proc[j] # "alive" /\ (j \in debris => j \in dirty)

(* A running row is somebody's: a live thread's, or the next recovery's.   *)
(* A pool that serves never has a running row no thread works on - except  *)
(* that one of its threads has just ended, and the pool ends with it.      *)
RunningIsWorkedOn ==
  \A p \in Pools :
    (pool[p].at = "serve" /\ \A t \in Threads : thread[p][t].at # "ended") =>
      \A j \in Jobs : row[j].status = "running" =>
        Cardinality({ t \in Threads : thread[p][t].job = j }) = 1

(* eval.json never shows a final status the job does not have: not the     *)
(* result of a run whose cancellation won.                                 *)
SavedIsTrue ==
  \A j \in Jobs : saved[j] \in Terminal => saved[j] = row[j].status

(* The local queue keeps the promise the cloud queue keeps.                *)
Lifecycle == INSTANCE JobLifecycle
  WITH SlotOf  <- OwnerOf,
       state   <- [ j \in Jobs |-> row[j].status ],
       wanted  <- { j \in Jobs : row[j].cancelled },
       charged <- { j \in Jobs : DailyCap > 0 /\ row[j].status \notin { "absent", "cancelled" } }

LifecycleSpec == Lifecycle!LifecycleSpec

(* "a user already at their limit does not prevent another user's job from *)
(* starting": whatever hangs for one user, another user's job settles.     *)
BusyUserBlocksNobody ==
  \A j \in Jobs :
    row[j].status \in { "queued", "running" }
      ~> ( \/ row[j].status \in Terminal
           \/ \E i \in hung : OwnerOf[i] = OwnerOf[j] )

(* "Cancelling an active job stops its process group", hung or not.        *)
CancelledSettles ==
  \A j \in Jobs :
    (row[j].status = "running" /\ row[j].cancelled) ~> row[j].status = "cancelled"

(* What LOCAL.md says without exception: "interrupted attempts are cleaned *)
(* and marked failed".                                                     *)
InterruptedIsStopped ==
  \A j \in Jobs : row[j].status \in Terminal => proc[j] # "alive"

(* What holds of the local pool in every state, however hr-local, its      *)
(* threads or the machine are taken down.                                  *)
PoolSafety ==
  /\ TypeOK /\ AtMostOneAttempt /\ OneRunPerUser
  /\ SettledIsClean /\ RunningIsWorkedOn /\ SavedIsTrue

=============================================================================
