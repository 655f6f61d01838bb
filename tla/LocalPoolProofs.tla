-------------------------- MODULE LocalPoolProofs --------------------------
(***************************************************************************)
(* Theorems about LocalPool for any number of jobs, owners, pools and      *)
(* threads, any limits, and any faults.                                    *)
(***************************************************************************)
EXTENDS LocalPool, FiniteSetTheorems, TLAPS

-----------------------------------------------------------------------------
(* The inductive invariant, in two layers.                                 *)

(* Only the pool that holds the lock does anything, and its threads rest   *)
(* until it has recovered what was left.                                   *)
OnePool ==
  \A p \in Pools :
    /\ pool[p].at # "down" <=> lock = p
    /\ \A t \in Threads :
         /\ pool[p].at # "serve" => thread[p][t].at = "idle"
         /\ thread[p][t].job = NoJob <=> thread[p][t].at \in { "idle", "ended" }

(* A thread's job is running until the thread has settled it, and no other *)
(* thread's.                                                               *)
ThreadsWork ==
  \A p \in Pools, t \in Threads :
    /\ thread[p][t].at \notin { "idle", "ended", "save" } => row[thread[p][t].job].status = "running"
    /\ thread[p][t].at = "save" => row[thread[p][t].job].status \in Terminal
    /\ thread[p][t].job # NoJob =>
         \A u \in Threads : thread[p][u].job = thread[p][t].job => u = t

RecoveryWorks ==
  \A p \in Pools :
    /\ pool[p].at \in { "stop", "clean", "settle", "save" } => pool[p].job \in Jobs
    /\ pool[p].at \in { "stop", "clean", "settle" } => row[pool[p].job].status = "running"
    /\ pool[p].at = "save" => row[pool[p].job].status \in Terminal

(* A running row of a serving pool is a thread's, or a thread has ended.   *)
RunningIsHeld ==
  \A p \in Pools, j \in Jobs :
    (pool[p].at = "serve" /\ row[j].status = "running") =>
      \E t \in Threads : thread[p][t].job = j \/ thread[p][t].at = "ended"

PoolInvariant ==
  TypeOK /\ OnePool /\ ThreadsWork /\ RecoveryWorks /\ RunningIsHeld

(* What was never claimed was never started.                               *)
Untouched(j) == proc[j] = "none" /\ j \notin debris /\ launched[j] = 0

StoppedAndClean(j) == proc[j] # "alive" /\ (j \in debris => j \in dirty)

(* What the thread at a place knows about its job's processes.             *)
PlaceOK(at, j) ==
  /\ at = "launch" => Untouched(j)
  /\ at \in { "watch", "stopping" } => row[j].pid
  /\ at \in { "clean", "settle" } => proc[j] # "alive"
  /\ at = "settle" => StoppedAndClean(j)

(* A live run.sh that recovery would not find is being recorded.           *)
ProcessOK(j) ==
  /\ proc[j] = "alive" =>
       /\ row[j].status = "running"
       /\ row[j].pid \/ \E p \in Pools, t \in Threads : thread[p][t].job = j /\ thread[p][t].at = "record"
  /\ row[j].status \in Terminal => StoppedAndClean(j)
  /\ \A p \in Pools : pool[p].job = j =>
       /\ pool[p].at = "clean" => proc[j] # "alive"
       /\ pool[p].at = "settle" => StoppedAndClean(j)

JobOK(j) ==
  /\ row[j].status \in { "absent", "queued" } => Untouched(j)
  /\ \A p \in Pools, t \in Threads : thread[p][t].job = j => PlaceOK(thread[p][t].at, j)
  /\ j \notin orphaned => ProcessOK(j)
  /\ launched[j] <= 1
  /\ saved[j] \in Terminal => saved[j] = row[j].status

HostInvariant == \A j \in Jobs : JobOK(j)

(* The count claim() takes bounds the rows.                                *)
RunningOf(o) == { j \in OfOwner(o) : row[j].status = "running" }
RunningBound == \A o \in Owners : Cardinality(RunningOf(o)) <= PerUser

-----------------------------------------------------------------------------
(* The functions the actions write.                                        *)

LEMMA StepFields ==
  ASSUME TypeOK, NEW p \in Pools, NEW t \in Threads, NEW new \in Thread, Step(p, t, new)
  PROVE  /\ thread' \in [ Pools -> [ Threads -> Thread ] ]
         /\ thread'[p][t] = new
         /\ \A q \in Pools, u \in Threads :
              q # p \/ u # t => thread'[q][u] = thread[q][u]
BY DEF Step, TypeOK

LEMMA MainFields ==
  ASSUME TypeOK, NEW p \in Pools, NEW new \in Pool, Main(p, new)
  PROVE  /\ pool' \in [ Pools -> Pool ]
         /\ pool'[p] = new
         /\ \A q \in Pools : q # p => pool'[q] = pool[q]
BY DEF Main, TypeOK

LEMMA UpdateFields ==
  ASSUME TypeOK, NEW j \in Jobs, NEW pid \in BOOLEAN,
         NEW status \in { "queued", "running", "done", "failed" },
         Update(j, status, pid)
  PROVE  /\ row' \in [ Jobs -> Row ] /\ created' = created
         /\ row'[j].status = IF row[j].cancelled /\ status \in Terminal THEN "cancelled" ELSE status
         /\ row'[j].cancelled <=> row[j].cancelled
         /\ row'[j].pid <=> pid
         /\ \A i \in Jobs : i # j => row'[i] = row[i]
<1> DEFINE verdict == IF row[j].cancelled /\ status \in Terminal THEN "cancelled" ELSE status
<1>1. row[j] \in Row
  BY DEF TypeOK
<1>2. verdict \in { "absent", "queued", "running" } \cup Terminal
  BY DEF Terminal
<1>3. Merged(row[j], status, pid) = [ row[j] EXCEPT !.pid = pid, !.status = verdict ]
  BY DEF Merged
<1>4. row' = [ row EXCEPT ![j] = [ row[j] EXCEPT !.pid = pid, !.status = verdict ] ]
  BY <1>3 DEF Update
<1> HIDE DEF verdict
<1>5. [ row[j] EXCEPT !.pid = pid, !.status = verdict ] \in Row
  BY <1>1, <1>2 DEF Row
<1>6. row'[j] = [ row[j] EXCEPT !.pid = pid, !.status = verdict ]
  BY <1>4 DEF TypeOK
<1>7. row'[j].status = verdict /\ (row'[j].cancelled <=> row[j].cancelled) /\ (row'[j].pid <=> pid)
  BY <1>1, <1>6 DEF Row
<1>8. row' \in [ Jobs -> Row ] /\ created' = created /\ \A i \in Jobs : i # j => row'[i] = row[i]
  BY <1>4, <1>5 DEF TypeOK, Update
<1>9. QED
  BY <1>7, <1>8 DEF verdict

LEMMA ExitFields ==
  ASSUME TypeOK, NEW p \in Pools, Exit(p)
  PROVE  /\ pool' \in [ Pools -> Pool ] /\ pool'[p].at = "down"
         /\ \A q \in Pools : q # p => pool'[q] = pool[q]
         /\ thread' \in [ Pools -> [ Threads -> Thread ] ]
         /\ \A t \in Threads : thread'[p][t] = Idle
         /\ \A q \in Pools, t \in Threads : q # p => thread'[q][t] = thread[q][t]
         /\ lock' \in Pools \cup {NoPool}
         /\ lock' = IF lock = p THEN NoPool ELSE lock
<1>1. Down \in Pool /\ Idle \in Thread /\ Down.at = "down"
  BY DEF Down, Idle, Pool, Thread
<1>2. QED
  BY <1>1 DEF Exit, Main, TypeOK

-----------------------------------------------------------------------------
(* The first layer.                                                        *)

Structure == OnePool /\ ThreadsWork /\ RecoveryWorks /\ RunningIsHeld

LEMMA ConstantsDiffer ==
  /\ NoJob \notin Jobs /\ NoPool \notin Pools
  /\ Idle.at = "idle" /\ Idle.job = NoJob /\ Idle \in Thread
  /\ Down.at = "down" /\ Down \in Pool
BY LocalPoolAssumption DEF Idle, Down, Thread, Pool

(* A thread at work goes on with its job, or has done with it.             *)
LEMMA ThreadMoves ==
  ASSUME PoolInvariant, NEW p \in Pools, NEW t \in Threads, NEW new \in Thread, Step(p, t, new),
         pool[p].at = "serve",
         thread[p][t].job # NoJob => new.job \in { thread[p][t].job, NoJob },
         thread[p][t].job = NoJob => new.job = NoJob,
         new.job = NoJob <=> new.at \in { "idle", "ended" },
         row' \in [ Jobs -> Row ],
         \A i \in Jobs : i # thread[p][t].job => row'[i].status = row[i].status,
         new.at \notin { "idle", "ended", "save" } => row'[new.job].status = "running",
         new.at = "save" => row'[new.job].status \in Terminal,
         thread[p][t].at = "ended" => new.at = "ended",
         thread[p][t].job # NoJob /\ row'[thread[p][t].job].status = "running"
           => new.job = thread[p][t].job \/ new.at = "ended"
  PROVE  Structure'
<1> USE ConstantsDiffer
<1>0. TypeOK
  BY DEF PoolInvariant
<1>1. /\ pool' = pool /\ lock' = lock
      /\ thread' \in [ Pools -> [ Threads -> Thread ] ]
      /\ thread'[p][t] = new
      /\ \A q \in Pools, u \in Threads : q # p \/ u # t => thread'[q][u] = thread[q][u]
  <2>1. pool' = pool /\ lock' = lock
    BY DEF Step
  <2>2. QED
    BY <1>0, <2>1, StepFields
<1>2. \A q \in Pools : q # p => pool[q].at = "down" /\ \A u \in Threads : thread[q][u].at = "idle"
  BY DEF PoolInvariant, OnePool
<1>3. OnePool'
  BY <1>1 DEF PoolInvariant, OnePool
<1>4. \A q \in Pools, u \in Threads : thread[q][u].job \in Jobs \cup {NoJob}
  BY DEF PoolInvariant, TypeOK, Thread
<1>5. ThreadsWork'
  <2> SUFFICES ASSUME NEW q \in Pools, NEW u \in Threads
               PROVE  /\ thread'[q][u].at \notin { "idle", "ended", "save" } => row'[thread'[q][u].job].status = "running"
                      /\ thread'[q][u].at = "save" => row'[thread'[q][u].job].status \in Terminal
                      /\ thread'[q][u].job # NoJob =>
                           \A v \in Threads : thread'[q][v].job = thread'[q][u].job => v = u
    BY DEF ThreadsWork
  <2>1. CASE q # p
    BY <1>1, <1>2, <2>1 DEF PoolInvariant, OnePool, ThreadsWork
  <2>2. CASE q = p /\ u = t
    BY <1>1, <2>2 DEF PoolInvariant, OnePool, ThreadsWork
  <2>3. CASE q = p /\ u # t
    BY <1>1, <1>4, <2>3 DEF PoolInvariant, OnePool, ThreadsWork
  <2>4. QED
    BY <2>1, <2>2, <2>3
<1>6. RecoveryWorks'
  BY <1>1, <1>2 DEF PoolInvariant, RecoveryWorks
<1>7. RunningIsHeld'
  <2> SUFFICES ASSUME NEW j \in Jobs, row'[j].status = "running"
               PROVE  \E u \in Threads : thread'[p][u].job = j \/ thread'[p][u].at = "ended"
    BY <1>1, <1>2 DEF RunningIsHeld
  <2>1. row[j].status = "running" \/ j = thread[p][t].job
    OBVIOUS
  <2>2. CASE j = thread[p][t].job
    BY <1>1, <2>2
  <2>3. CASE j # thread[p][t].job
    <3>1. PICK u \in Threads : thread[p][u].job = j \/ thread[p][u].at = "ended"
      BY <2>1, <2>3 DEF PoolInvariant, RunningIsHeld
    <3>2. QED
      BY <1>1, <2>3, <3>1
  <2>4. QED
    BY <2>2, <2>3
<1>8. QED
  BY <1>3, <1>5, <1>6, <1>7 DEF Structure

LEMMA RowsKeep ==
  ASSUME PoolInvariant, UNCHANGED << lock, pool, thread >>,
         \A i \in Jobs : /\ row'[i].status = "running" <=> row[i].status = "running"
                         /\ row[i].status \in Terminal => row'[i].status \in Terminal
  PROVE  Structure'
<1>1. \A q \in Pools, u \in Threads :
        thread[q][u].at \notin { "idle", "ended" } => thread[q][u].job \in Jobs
  BY DEF PoolInvariant, TypeOK, Thread, OnePool
<1>0. pool' = pool /\ lock' = lock /\ thread' = thread
  OBVIOUS
<1>2. OnePool'
  BY <1>0 DEF PoolInvariant, OnePool
<1>5. RunningIsHeld'
  BY <1>0 DEF PoolInvariant, RunningIsHeld
<1>3. ThreadsWork'
  BY <1>0, <1>1 DEF PoolInvariant, ThreadsWork
<1>4. RecoveryWorks'
  BY <1>0 DEF PoolInvariant, RecoveryWorks
<1>6. QED
  BY <1>2, <1>3, <1>4, <1>5 DEF Structure

(* Recovery: no thread works yet, and the pool touches the row of the job  *)
(* it has picked.                                                          *)
LEMMA RecoveryMoves ==
  ASSUME PoolInvariant, NEW p \in Pools, NEW new \in Pool, Main(p, new), UNCHANGED << lock, thread >>,
         pool[p].at \notin { "down", "serve" }, new.at # "down",
         \A i \in Jobs : i # pool[p].job => row'[i].status = row[i].status,
         new.at \in { "stop", "clean", "settle", "save" } => new.job \in Jobs,
         new.at \in { "stop", "clean", "settle" } => row'[new.job].status = "running",
         new.at = "save" => row'[new.job].status \in Terminal,
         new.at = "serve" => \A i \in Jobs : row'[i].status # "running"
  PROVE  Structure'
<1> USE ConstantsDiffer
<1>1. /\ pool' \in [ Pools -> Pool ] /\ pool'[p] = new
      /\ \A q \in Pools : q # p => pool'[q] = pool[q]
  BY MainFields DEF PoolInvariant
<1>2. \A q \in Pools : /\ q # p => pool[q].at = "down"
                       /\ \A u \in Threads : thread[q][u].at = "idle" /\ thread[q][u].job = NoJob
  BY DEF PoolInvariant, OnePool
<1>3. OnePool'
  BY <1>1, <1>2 DEF PoolInvariant, OnePool
<1>4. ThreadsWork'
  BY <1>2 DEF ThreadsWork
<1>5. RecoveryWorks'
  BY <1>1, <1>2 DEF RecoveryWorks
<1>6. RunningIsHeld'
  BY <1>1, <1>2 DEF RunningIsHeld
<1>7. QED
  BY <1>3, <1>4, <1>5, <1>6 DEF Structure

(* The end of a process.                                                   *)
LEMMA ExitKeeps ==
  ASSUME PoolInvariant, NEW p \in Pools, Exit(p), UNCHANGED row
  PROVE  Structure'
<1> USE ConstantsDiffer
<1>1. /\ pool' \in [ Pools -> Pool ] /\ pool'[p].at = "down"
      /\ \A q \in Pools : q # p => pool'[q] = pool[q]
      /\ thread' \in [ Pools -> [ Threads -> Thread ] ]
      /\ \A t \in Threads : thread'[p][t] = Idle
      /\ \A q \in Pools, t \in Threads : q # p => thread'[q][t] = thread[q][t]
      /\ lock' = IF lock = p THEN NoPool ELSE lock
  BY ExitFields DEF PoolInvariant
<1>2. OnePool'
  <2> SUFFICES ASSUME NEW q \in Pools
               PROVE  /\ pool'[q].at # "down" <=> lock' = q
                      /\ \A t \in Threads :
                           /\ pool'[q].at # "serve" => thread'[q][t].at = "idle"
                           /\ thread'[q][t].job = NoJob <=> thread'[q][t].at \in { "idle", "ended" }
    BY DEF OnePool
  <2>1. CASE q = p
    BY <1>1, <2>1
  <2>2. CASE q # p
    BY <1>1, <2>2 DEF PoolInvariant, OnePool
  <2>3. QED
    BY <2>1, <2>2
<1>3. ThreadsWork'
  <2> SUFFICES ASSUME NEW q \in Pools, NEW t \in Threads
               PROVE  /\ thread'[q][t].at \notin { "idle", "ended", "save" } => row'[thread'[q][t].job].status = "running"
                      /\ thread'[q][t].at = "save" => row'[thread'[q][t].job].status \in Terminal
                      /\ thread'[q][t].job # NoJob =>
                           \A u \in Threads : thread'[q][u].job = thread'[q][t].job => u = t
    BY DEF ThreadsWork
  <2>1. CASE q = p
    BY <1>1, <2>1
  <2>2. CASE q # p
    <3>1. row' = row /\ \A u \in Threads : thread'[q][u] = thread[q][u]
      BY <1>1, <2>2
    <3>2. QED
      BY <3>1 DEF PoolInvariant, ThreadsWork
  <2>3. QED
    BY <2>1, <2>2
<1>4. RecoveryWorks' /\ RunningIsHeld'
  BY <1>1 DEF PoolInvariant, RecoveryWorks, RunningIsHeld
<1>5. QED
  BY <1>2, <1>3, <1>4 DEF Structure

-----------------------------------------------------------------------------
(* The threads' steps.                                                     *)

Working == { "launch", "record", "watch", "stopping", "clean", "settle", "save" }

LEMMA WorkingThread ==
  ASSUME PoolInvariant, NEW p \in Pools, NEW t \in Threads, thread[p][t].at \in Working
  PROVE  /\ pool[p].at = "serve"
         /\ thread[p][t] \in Thread
         /\ JobOf(p, t) = thread[p][t].job /\ JobOf(p, t) \in Jobs /\ JobOf(p, t) # NoJob
         /\ thread[p][t].at # "save" => row[JobOf(p, t)].status = "running"
         /\ thread[p][t].at = "save" => row[JobOf(p, t)].status \in Terminal
<1>1. thread[p][t] \in Thread
  BY DEF PoolInvariant, TypeOK
<1>2. pool[p].at = "serve" /\ thread[p][t].job # NoJob
  BY DEF PoolInvariant, OnePool, Working
<1>3. /\ thread[p][t].at # "save" => row[thread[p][t].job].status = "running"
      /\ thread[p][t].at = "save" => row[thread[p][t].job].status \in Terminal
  BY DEF PoolInvariant, ThreadsWork, Working
<1>4. QED
  BY <1>1, <1>2, <1>3 DEF JobOf, Thread

(* From one place of execute() to the next.                                *)
LEMMA WorkingStep ==
  ASSUME PoolInvariant, NEW p \in Pools, NEW t \in Threads, thread[p][t].at \in Working,
         NEW new \in Thread, new.at \in Working, new.job = JobOf(p, t),
         Step(p, t, new), row' \in [ Jobs -> Row ],
         \A i \in Jobs : i # JobOf(p, t) => row'[i].status = row[i].status,
         new.at # "save" => row'[JobOf(p, t)].status = "running",
         new.at = "save" => row'[JobOf(p, t)].status \in Terminal
  PROVE  /\ Structure' /\ thread' \in [ Pools -> [ Threads -> Thread ] ] /\ thread'[p][t] = new
         /\ \A q \in Pools, u \in Threads : q # p \/ u # t => thread'[q][u] = thread[q][u]
<1>1. /\ pool[p].at = "serve" /\ thread[p][t] \in Thread
      /\ JobOf(p, t) = thread[p][t].job /\ JobOf(p, t) \in Jobs /\ JobOf(p, t) # NoJob
  BY WorkingThread
<1>2. /\ thread' \in [ Pools -> [ Threads -> Thread ] ] /\ thread'[p][t] = new
      /\ \A q \in Pools, u \in Threads : q # p \/ u # t => thread'[q][u] = thread[q][u]
  BY StepFields DEF PoolInvariant
<1>3. Structure'
  BY <1>1, ThreadMoves DEF Working
<1>4. QED
  BY <1>2, <1>3

LEMMA TakeStep ==
  ASSUME PoolInvariant, NEW p \in Pools, NEW t \in Threads, Take(p, t)
  PROVE  PoolInvariant'
<1> USE ConstantsDiffer
<1>0. TypeOK
  BY DEF PoolInvariant
<1>1. PICK j \in Jobs : /\ Oldest(Eligible, j) /\ Update(j, "running", FALSE)
                        /\ Step(p, t, [ Idle EXCEPT !.at = "launch", !.job = j ])
  BY DEF Take
<1> DEFINE new == [ Idle EXCEPT !.at = "launch", !.job = j ]
<1>2. row[j].status = "queued"
  BY <1>1 DEF Oldest, Eligible, Having
<1>3. new \in Thread /\ new.at = "launch" /\ new.job = j /\ j # NoJob
  BY DEF Idle, Thread
<1> HIDE DEF new
<1>4. /\ row' \in [ Jobs -> Row ] /\ created' = created
      /\ row'[j].status = "running"
      /\ \A i \in Jobs : i # j => row'[i] = row[i]
  BY <1>0, <1>1, UpdateFields DEF Terminal
<1>5. Step(p, t, new)
  BY <1>1 DEF new
<1>6. /\ thread' \in [ Pools -> [ Threads -> Thread ] ] /\ thread'[p][t] = new
      /\ \A q \in Pools, u \in Threads : q # p \/ u # t => thread'[q][u] = thread[q][u]
  BY <1>0, <1>3, <1>5, StepFields
<1>7. pool' = pool /\ lock' = lock /\ pool[p].at = "serve" /\ thread[p][t].at = "idle"
  BY <1>5 DEF Step, Take
<1>8. \A q \in Pools, u \in Threads :
        /\ thread[q][u].job # j
        /\ q # p => thread[q][u].at = "idle"
        /\ thread[q][u].at \notin { "idle", "ended" } => thread[q][u].job \in Jobs
  <2> SUFFICES ASSUME NEW q \in Pools, NEW u \in Threads
               PROVE  /\ thread[q][u].job # j
                      /\ q # p => thread[q][u].at = "idle"
                      /\ thread[q][u].at \notin { "idle", "ended" } => thread[q][u].job \in Jobs
    OBVIOUS
  <2>1. thread[q][u].job = NoJob <=> thread[q][u].at \in { "idle", "ended" }
    BY DEF PoolInvariant, OnePool
  <2>2. thread[q][u].at \notin { "idle", "ended" } =>
          row[thread[q][u].job].status \in { "running" } \cup Terminal
    BY DEF PoolInvariant, ThreadsWork
  <2>3. thread[q][u].job \in Jobs \cup {NoJob}
    BY DEF PoolInvariant, TypeOK, Thread
  <2>4. q # p => thread[q][u].at = "idle"
    BY <1>7 DEF PoolInvariant, OnePool
  <2>5. thread[q][u].job # j
    BY <1>2, <1>3, <2>1, <2>2 DEF Terminal
  <2>6. QED
    BY <2>1, <2>3, <2>4, <2>5
<1>9. OnePool'
  BY <1>3, <1>6, <1>7 DEF PoolInvariant, OnePool
<1>10. ThreadsWork'
  <2> SUFFICES ASSUME NEW q \in Pools, NEW u \in Threads
               PROVE  /\ thread'[q][u].at \notin { "idle", "ended", "save" } => row'[thread'[q][u].job].status = "running"
                      /\ thread'[q][u].at = "save" => row'[thread'[q][u].job].status \in Terminal
                      /\ thread'[q][u].job # NoJob =>
                           \A v \in Threads : thread'[q][v].job = thread'[q][u].job => v = u
    BY DEF ThreadsWork
  <2>1. CASE q = p /\ u = t
    <3>1. thread'[q][u] = new
      BY <1>6, <2>1
    <3>2. ASSUME NEW v \in Threads, v # u PROVE thread'[q][v].job # j
      BY <1>6, <1>8, <2>1, <3>2
    <3>3. QED
      BY <1>3, <1>4, <3>1, <3>2
  <2>2. CASE q # p
    BY <1>6, <1>8, <2>2 DEF PoolInvariant, OnePool
  <2>3. CASE q = p /\ u # t
    <3>1. thread'[q][u] = thread[q][u] /\ thread[q][u].job # j
      BY <1>6, <1>8, <2>3
    <3>2. /\ thread'[q][u].at \notin { "idle", "ended", "save" } => row'[thread'[q][u].job].status = "running"
          /\ thread'[q][u].at = "save" => row'[thread'[q][u].job].status \in Terminal
      BY <1>4, <1>8, <3>1 DEF PoolInvariant, ThreadsWork
    <3>3. ASSUME NEW v \in Threads, thread'[q][v].job = thread'[q][u].job, thread'[q][u].job # NoJob
          PROVE  v = u
      <4>1. v # t
        BY <1>3, <1>6, <2>3, <3>1, <3>3
      <4>2. thread'[q][v] = thread[q][v]
        BY <1>6, <4>1
      <4>3. QED
        BY <3>1, <3>3, <4>2 DEF PoolInvariant, ThreadsWork
    <3>4. QED
      BY <3>2, <3>3
  <2>4. QED
    BY <2>1, <2>2, <2>3
<1>11. RecoveryWorks'
  BY <1>7 DEF PoolInvariant, OnePool, RecoveryWorks
<1>12. RunningIsHeld'
  <2> SUFFICES ASSUME NEW q \in Pools, NEW i \in Jobs, pool[q].at = "serve", row'[i].status = "running"
               PROVE  \E u \in Threads : thread'[q][u].job = i \/ thread'[q][u].at = "ended"
    BY <1>7 DEF RunningIsHeld
  <2>1. q = p
    BY <1>7 DEF PoolInvariant, OnePool
  <2>2. CASE i = j
    BY <1>3, <1>6, <2>1, <2>2
  <2>3. CASE i # j
    <3>1. PICK u \in Threads : thread[p][u].job = i \/ thread[p][u].at = "ended"
      BY <1>4, <1>7, <2>3 DEF PoolInvariant, RunningIsHeld
    <3>2. u # t
      BY <1>7, <3>1 DEF PoolInvariant, OnePool
    <3>3. QED
      BY <1>6, <2>1, <3>1, <3>2
  <2>4. QED
    BY <2>2, <2>3
<1>13. TypeOK'
  BY <1>0, <1>4, <1>6, <1>7 DEF Take, Step, hostVars, TypeOK
<1>14. QED
  BY <1>9, <1>10, <1>11, <1>12, <1>13 DEF PoolInvariant

LEMMA MovesStep ==
  ASSUME PoolInvariant, NEW p \in Pools, NEW t \in Threads,
         NEW from \in SUBSET Working, NEW to \in Working, Moves(p, t, from, to),
         row' \in [ Jobs -> Row ],
         \A i \in Jobs : i # JobOf(p, t) => row'[i].status = row[i].status,
         to # "save" => row'[JobOf(p, t)].status = "running",
         to = "save" => row'[JobOf(p, t)].status \in Terminal
  PROVE  /\ Structure' /\ thread' \in [ Pools -> [ Threads -> Thread ] ]
         /\ thread'[p][t].at = to /\ thread'[p][t].job = JobOf(p, t)
         /\ \A q \in Pools, u \in Threads : q # p \/ u # t => thread'[q][u] = thread[q][u]
         /\ UNCHANGED << lock, pool, orphaned, hung, dirty, faults >>
<1>1. thread[p][t].at \in Working
  BY DEF Moves
<1>2. thread[p][t] \in Thread
  BY <1>1, WorkingThread
<1> DEFINE new == [ thread[p][t] EXCEPT !.at = to ]
<1>3. new \in Thread /\ new.at = to /\ new.job = JobOf(p, t)
  BY <1>2 DEF Thread, JobOf, Working
<1>4. Step(p, t, new)
  BY DEF Moves
<1> HIDE DEF new
<1>6. /\ Structure' /\ thread' \in [ Pools -> [ Threads -> Thread ] ] /\ thread'[p][t] = new
      /\ \A q \in Pools, u \in Threads : q # p \/ u # t => thread'[q][u] = thread[q][u]
  BY <1>1, <1>3, <1>4, WorkingStep
<1>7. UNCHANGED << lock, pool, orphaned, hung >>
  BY <1>4 DEF Step
<1>8. UNCHANGED << dirty, faults >>
  BY DEF Moves
<1>9. QED
  BY <1>3, <1>6, <1>7, <1>8

LEMMA LaunchStep ==
  ASSUME PoolInvariant, NEW p \in Pools, NEW t \in Threads, Launch(p, t)
  PROVE  PoolInvariant'
<1>1. TypeOK /\ thread[p][t].at \in Working /\ JobOf(p, t) \in Jobs /\ row' = row /\ created' = created
  <2>1. thread[p][t].at = "launch" /\ row' = row /\ created' = created
    BY DEF Launch, Moves, queueVars
  <2>2. QED
    BY <2>1, WorkingThread DEF PoolInvariant, Working
<1>2. PICK to \in { "clean", "record" } : Moves(p, t, {"launch"}, to)
  BY DEF Launch
<1>3. row[JobOf(p, t)].status = "running"
  BY <1>1, <1>2, WorkingThread DEF Moves
<1>4. /\ Structure' /\ thread' \in [ Pools -> [ Threads -> Thread ] ]
      /\ UNCHANGED << lock, pool, orphaned, hung, dirty, faults >>
  <2>1. {"launch"} \in SUBSET Working /\ to \in Working /\ to # "save" /\ row' \in [ Jobs -> Row ]
    BY <1>1 DEF Working, TypeOK
  <2> DEFINE from == {"launch"}
  <2>2. Moves(p, t, from, to) /\ from \in SUBSET Working
    BY <1>2, <2>1
  <2> HIDE DEF from
  <2>3. QED
    BY <1>1, <1>3, <2>1, <2>2, MovesStep
<1>5. proc' \in [ Jobs -> { "none", "alive", "finished", "unfinished" } ] /\ launched' \in [ Jobs -> Nat ]
      /\ UNCHANGED << debris, saved >>
  <2>1. UNCHANGED << debris, saved >>
    BY DEF Launch
  <2>2. CASE UNCHANGED << proc, launched >>
    BY <1>1, <2>1, <2>2 DEF TypeOK
  <2>3. CASE /\ proc' = [ proc EXCEPT ![JobOf(p, t)] = "alive" ]
             /\ launched' = [ launched EXCEPT ![JobOf(p, t)] = @ + 1 ]
    BY <1>1, <2>1, <2>3 DEF TypeOK
  <2>4. QED
    BY <2>2, <2>3 DEF Launch
<1>6. TypeOK'
  BY <1>1, <1>4, <1>5 DEF TypeOK
<1>7. QED
  BY <1>4, <1>6 DEF PoolInvariant, Structure

LEMMA RecordStep ==
  ASSUME PoolInvariant, NEW p \in Pools, NEW t \in Threads, Record(p, t)
  PROVE  PoolInvariant'
<1>1. TypeOK /\ thread[p][t].at = "record"
  BY DEF PoolInvariant, Record, Moves
<1>2. JobOf(p, t) \in Jobs /\ row[JobOf(p, t)].status = "running"
  BY <1>1, WorkingThread DEF Working
<1>3. Update(JobOf(p, t), "running", TRUE)
  BY <1>2 DEF Record
<1>4. /\ row' \in [ Jobs -> Row ] /\ created' = created /\ row'[JobOf(p, t)].status = "running"
      /\ \A i \in Jobs : i # JobOf(p, t) => row'[i] = row[i]
  BY <1>1, <1>2, <1>3, UpdateFields DEF Terminal
<1>5. /\ Structure' /\ thread' \in [ Pools -> [ Threads -> Thread ] ]
      /\ UNCHANGED << lock, pool, orphaned, hung, dirty, faults >>
  <2> DEFINE from == {"record"}
             to == "watch"
  <2>1. Moves(p, t, from, to) /\ from \in SUBSET Working /\ to \in Working /\ to # "save"
    BY DEF Record, Working
  <2> HIDE DEF from, to
  <2>2. QED
    BY <1>4, <2>1, MovesStep
<1>6. /\ saved' \in [ Jobs -> { "absent", "running" } \cup Terminal ]
      /\ UNCHANGED << proc, debris, launched >>
  BY <1>1 DEF Record, TypeOK
<1>7. TypeOK'
  BY <1>1, <1>4, <1>5, <1>6 DEF TypeOK
<1>8. QED
  BY <1>5, <1>7 DEF PoolInvariant, Structure

LEMMA ReapStep ==
  ASSUME PoolInvariant, NEW p \in Pools, NEW t \in Threads, Reap(p, t)
  PROVE  PoolInvariant'
<1>1. /\ TypeOK /\ thread[p][t].at \in { "watch", "stopping" }
      /\ UNCHANGED << queueVars, hostVars >>
  BY DEF PoolInvariant, Reap, Moves
<1>2. JobOf(p, t) \in Jobs /\ row[JobOf(p, t)].status = "running" /\ row' = row
  BY <1>1, WorkingThread DEF Working, queueVars
<1>3. /\ Structure' /\ thread' \in [ Pools -> [ Threads -> Thread ] ]
      /\ UNCHANGED << lock, pool, orphaned, hung, dirty, faults >>
  <2> DEFINE from == { "watch", "stopping" }
             to == "clean"
  <2>1. Moves(p, t, from, to) /\ from \in SUBSET Working /\ to \in Working /\ to # "save"
    BY DEF Reap, Working
  <2>2. row' \in [ Jobs -> Row ]
    BY <1>1, <1>2 DEF TypeOK
  <2> HIDE DEF from, to
  <2>3. QED
    BY <1>2, <2>1, <2>2, MovesStep
<1>4. TypeOK'
  BY <1>1, <1>3 DEF TypeOK, queueVars, hostVars
<1>5. QED
  BY <1>3, <1>4 DEF PoolInvariant, Structure

LEMMA CleanStep ==
  ASSUME PoolInvariant, NEW p \in Pools, NEW t \in Threads, Clean(p, t)
  PROVE  PoolInvariant'
<1>1. TypeOK /\ thread[p][t].at = "clean" /\ UNCHANGED << queueVars, proc, saved, launched >>
  BY DEF PoolInvariant, Clean, Moves
<1>2. JobOf(p, t) \in Jobs /\ row[JobOf(p, t)].status = "running" /\ row' = row
  BY <1>1, WorkingThread DEF Working, queueVars
<1>3. /\ Structure' /\ thread' \in [ Pools -> [ Threads -> Thread ] ]
      /\ UNCHANGED << lock, pool, orphaned, hung, dirty, faults >>
  <2> DEFINE from == {"clean"}
             to == "settle"
  <2>1. Moves(p, t, from, to) /\ from \in SUBSET Working /\ to \in Working /\ to # "save"
    BY DEF Clean, Working
  <2>2. row' \in [ Jobs -> Row ]
    BY <1>1, <1>2 DEF TypeOK
  <2> HIDE DEF from, to
  <2>3. QED
    BY <1>2, <2>1, <2>2, MovesStep
<1>4. debris' \subseteq Jobs
  BY <1>1 DEF Clean, TypeOK
<1>5. TypeOK'
  BY <1>1, <1>3, <1>4 DEF TypeOK, queueVars
<1>6. QED
  BY <1>3, <1>5 DEF PoolInvariant, Structure

LEMMA SettleStep ==
  ASSUME PoolInvariant, NEW p \in Pools, NEW t \in Threads, Settle(p, t)
  PROVE  PoolInvariant'
<1>1. TypeOK /\ thread[p][t].at = "settle" /\ UNCHANGED hostVars
  BY DEF PoolInvariant, Settle, Moves
<1>2. JobOf(p, t) \in Jobs /\ row[JobOf(p, t)].status = "running"
  BY <1>1, WorkingThread DEF Working
<1>3. Update(JobOf(p, t), Result(p, t), FALSE) /\ Result(p, t) \in { "done", "failed" }
  BY DEF Settle, Result
<1>4. /\ row' \in [ Jobs -> Row ] /\ created' = created /\ row'[JobOf(p, t)].status \in Terminal
      /\ \A i \in Jobs : i # JobOf(p, t) => row'[i] = row[i]
  BY <1>1, <1>2, <1>3, UpdateFields DEF Terminal
<1>5. /\ Structure' /\ thread' \in [ Pools -> [ Threads -> Thread ] ]
      /\ UNCHANGED << lock, pool, orphaned, hung, dirty, faults >>
  <2> DEFINE from == {"settle"}
             to == "save"
  <2>1. Moves(p, t, from, to) /\ from \in SUBSET Working /\ to \in Working /\ to = "save"
    BY DEF Settle, Working
  <2> HIDE DEF from, to
  <2>2. QED
    BY <1>4, <2>1, MovesStep
<1>6. TypeOK'
  BY <1>1, <1>4, <1>5 DEF TypeOK, hostVars
<1>7. QED
  BY <1>5, <1>6 DEF PoolInvariant, Structure

LEMMA RaisedFields ==
  ASSUME NEW r \in Thread, NEW to \in Working, NEW error \in BOOLEAN
  PROVE  /\ [ r EXCEPT !.at = to, !.error = error ] \in Thread
         /\ [ r EXCEPT !.at = to, !.error = error ].at = to
         /\ [ r EXCEPT !.at = to, !.error = error ].job = r.job
<1>1. to \in { "idle", "launch", "record", "watch", "stopping", "clean", "settle", "save", "ended" }
  BY DEF Working
<1>2. QED
  BY <1>1 DEF Thread

LEMMA InterruptStep ==
  ASSUME PoolInvariant, NEW p \in Pools, NEW t \in Threads, Interrupt(p, t)
  PROVE  PoolInvariant'
<1> DEFINE new == [ thread[p][t] EXCEPT !.at = "stopping", !.error = pool[p].stop ]
<1>1. /\ TypeOK /\ thread[p][t].at \in Working /\ thread[p][t].at # "save"
      /\ UNCHANGED << queueVars, hostVars, dirty, faults >> /\ Step(p, t, new)
  BY DEF PoolInvariant, Interrupt, Working
<1>2. new \in Thread /\ new.at = "stopping" /\ new.job = JobOf(p, t)
  <2> DEFINE stop == pool[p].stop
  <2>1. thread[p][t] \in Thread /\ JobOf(p, t) = thread[p][t].job /\ stop \in BOOLEAN
    BY <1>1, WorkingThread DEF TypeOK, Pool
  <2>2. "stopping" \in Working /\ new = [ thread[p][t] EXCEPT !.at = "stopping", !.error = stop ]
    BY DEF Working
  <2> HIDE DEF stop, new
  <2>3. QED
    BY <2>1, <2>2, RaisedFields
<1> HIDE DEF new
<1>3. row' = row /\ row \in [ Jobs -> Row ] /\ new.at \in Working /\ new.at # "save"
  BY <1>1, <1>2 DEF TypeOK, queueVars, Working
<1>4. row[JobOf(p, t)].status = "running"
  BY <1>1, WorkingThread
<1>5. Structure' /\ thread' \in [ Pools -> [ Threads -> Thread ] ]
  BY <1>1, <1>2, <1>3, <1>4, WorkingStep
<1>6. TypeOK'
  BY <1>1, <1>5 DEF TypeOK, Step, queueVars, hostVars
<1>7. QED
  BY <1>5, <1>6 DEF PoolInvariant, Structure

LEMMA KilledType ==
  ASSUME TypeOK, NEW j \in Jobs
  PROVE  Killed(j) \in [ Jobs -> { "none", "alive", "finished", "unfinished" } ]
BY DEF Killed, TypeOK

LEMMA FaultType ==
  ASSUME TypeOK, NEW kind, Fault(kind)
  PROVE  faults' \in 0 .. MaxFaults
BY LocalPoolAssumption DEF Fault, TypeOK

LEMMA RaiseStep ==
  ASSUME PoolInvariant, NEW p \in Pools, NEW t \in Threads, Raise(p, t)
  PROVE  PoolInvariant'
<1> DEFINE new == [ thread[p][t] EXCEPT !.at = "clean", !.error = TRUE ]
<1>1. /\ TypeOK /\ thread[p][t].at \in Working /\ thread[p][t].at # "save"
      /\ UNCHANGED << queueVars, debris, saved, launched, dirty >> /\ Step(p, t, new)
      /\ proc' = Killed(JobOf(p, t)) /\ Fault("error")
  BY DEF PoolInvariant, Raise, AfterRaise, Working
<1>2. new \in Thread /\ new.at = "clean" /\ new.job = JobOf(p, t)
  <2>1. thread[p][t] \in Thread /\ JobOf(p, t) = thread[p][t].job
    BY <1>1, WorkingThread
  <2>2. "clean" \in Working
    BY DEF Working
  <2>3. QED
    BY <2>1, <2>2, RaisedFields
<1> HIDE DEF new
<1>3. row' = row /\ row \in [ Jobs -> Row ] /\ new.at \in Working /\ new.at # "save"
  BY <1>1, <1>2 DEF TypeOK, queueVars, Working
<1>4. row[JobOf(p, t)].status = "running" /\ JobOf(p, t) \in Jobs
  BY <1>1, WorkingThread
<1>5. Structure' /\ thread' \in [ Pools -> [ Threads -> Thread ] ]
  BY <1>1, <1>2, <1>3, <1>4, WorkingStep
<1>6. proc' \in [ Jobs -> { "none", "alive", "finished", "unfinished" } ] /\ faults' \in 0 .. MaxFaults
  BY <1>1, <1>4, KilledType, FaultType
<1>7. TypeOK'
  BY <1>1, <1>5, <1>6 DEF TypeOK, Step, queueVars
<1>8. QED
  BY <1>5, <1>7 DEF PoolInvariant, Structure

LEMMA CleanRaisesStep ==
  ASSUME PoolInvariant, NEW p \in Pools, NEW t \in Threads, CleanRaises(p, t)
  PROVE  PoolInvariant'
<1> DEFINE new == [ thread[p][t] EXCEPT !.at = "settle", !.error = TRUE ]
<1>1. /\ TypeOK /\ thread[p][t].at \in Working /\ thread[p][t].at # "save"
      /\ UNCHANGED << queueVars, hostVars >> /\ Step(p, t, new)
      /\ dirty' = dirty \cup {JobOf(p, t)} /\ Fault("error")
  BY DEF PoolInvariant, CleanRaises, Working
<1>2. new \in Thread /\ new.at = "settle" /\ new.job = JobOf(p, t)
  <2>1. thread[p][t] \in Thread /\ JobOf(p, t) = thread[p][t].job
    BY <1>1, WorkingThread
  <2>2. "settle" \in Working
    BY DEF Working
  <2>3. QED
    BY <2>1, <2>2, RaisedFields
<1> HIDE DEF new
<1>3. row' = row /\ row \in [ Jobs -> Row ] /\ new.at \in Working /\ new.at # "save"
  BY <1>1, <1>2 DEF TypeOK, queueVars, Working
<1>4. row[JobOf(p, t)].status = "running" /\ JobOf(p, t) \in Jobs
  BY <1>1, WorkingThread
<1>5. Structure' /\ thread' \in [ Pools -> [ Threads -> Thread ] ]
  BY <1>1, <1>2, <1>3, <1>4, WorkingStep
<1>6. dirty' \subseteq Jobs /\ faults' \in 0 .. MaxFaults
  BY <1>1, <1>4, FaultType DEF TypeOK
<1>7. TypeOK'
  BY <1>1, <1>5, <1>6 DEF TypeOK, Step, queueVars, hostVars
<1>8. QED
  BY <1>5, <1>7 DEF PoolInvariant, Structure

LEMMA SaveStep ==
  ASSUME PoolInvariant, NEW p \in Pools, NEW t \in Threads, Save(p, t)
  PROVE  PoolInvariant'
<1> USE ConstantsDiffer
<1>1. /\ TypeOK /\ thread[p][t].at \in Working /\ thread[p][t].at = "save"
      /\ UNCHANGED << queueVars, proc, debris, launched, dirty, faults >> /\ Step(p, t, Idle)
      /\ saved' = [ saved EXCEPT ![JobOf(p, t)] = row[JobOf(p, t)].status ]
  BY DEF PoolInvariant, Save, Shown, Working
<1>2. /\ row[JobOf(p, t)].status \in Terminal /\ JobOf(p, t) \in Jobs
      /\ JobOf(p, t) = thread[p][t].job /\ pool[p].at = "serve"
  BY <1>1, WorkingThread
<1>3. row' = row /\ row \in [ Jobs -> Row ] /\ row[thread[p][t].job].status # "running"
  BY <1>1, <1>2 DEF TypeOK, queueVars, Terminal
<1>4. Structure'
  BY <1>1, <1>2, <1>3, ThreadMoves
<1>5. thread' \in [ Pools -> [ Threads -> Thread ] ]
  BY <1>1, StepFields
<1>6. saved' \in [ Jobs -> { "absent", "running" } \cup Terminal ]
  BY <1>1, <1>2 DEF TypeOK
<1>7. TypeOK'
  BY <1>1, <1>5, <1>6 DEF TypeOK, Step, queueVars
<1>8. QED
  BY <1>4, <1>7 DEF PoolInvariant, Structure

LEMMA ThreadEndsStep ==
  ASSUME PoolInvariant, NEW p \in Pools, NEW t \in Threads, ThreadEnds(p, t)
  PROVE  PoolInvariant'
<1> USE ConstantsDiffer
<1> DEFINE new == [ Idle EXCEPT !.at = "ended" ]
<1>1. /\ TypeOK /\ pool[p].at = "serve" /\ thread[p][t].at # "ended"
      /\ UNCHANGED << queueVars, hostVars, dirty >> /\ Step(p, t, new) /\ Fault("error")
  BY DEF PoolInvariant, ThreadEnds
<1>2. new \in Thread /\ new.at = "ended" /\ new.job = NoJob
  BY DEF Idle, Thread
<1> HIDE DEF new
<1>3. row' = row /\ row \in [ Jobs -> Row ]
  BY <1>1 DEF TypeOK, queueVars
<1>4. Structure'
  BY <1>1, <1>2, <1>3, ThreadMoves
<1>5. thread' \in [ Pools -> [ Threads -> Thread ] ] /\ faults' \in 0 .. MaxFaults
  BY <1>1, <1>2, StepFields, FaultType
<1>6. TypeOK'
  BY <1>1, <1>5 DEF TypeOK, Step, queueVars, hostVars
<1>7. QED
  BY <1>4, <1>6 DEF PoolInvariant, Structure

LEMMA KillStep ==
  ASSUME PoolInvariant, NEW p \in Pools, NEW t \in Threads, Kill(p, t)
  PROVE  PoolInvariant'
<1>1. /\ TypeOK /\ thread[p][t].at \in Working /\ proc' = Killed(JobOf(p, t))
      /\ UNCHANGED << queueVars, poolVars, debris, saved, launched, ghostVars, faults >>
  BY DEF PoolInvariant, Kill, Working
<1>2. proc' \in [ Jobs -> { "none", "alive", "finished", "unfinished" } ]
  BY <1>1, WorkingThread, KilledType
<1>3. Structure'
  BY <1>1, RowsKeep DEF queueVars, poolVars
<1>4. TypeOK'
  BY <1>1, <1>2 DEF TypeOK, queueVars, poolVars, ghostVars
<1>5. QED
  BY <1>3, <1>4 DEF PoolInvariant, Structure

-----------------------------------------------------------------------------
(* The steps of the users and of the host.                                 *)

LEMMA EnqueueStep ==
  ASSUME PoolInvariant, NEW j \in Jobs, Enqueue(j)
  PROVE  PoolInvariant'
<1>1. /\ TypeOK /\ row[j].status = "absent" /\ row' = [ row EXCEPT ![j].status = "queued" ]
      /\ created' = Append(created, j) /\ UNCHANGED << poolVars, hostVars, ghostVars, faults >>
  BY DEF PoolInvariant, Enqueue
<1>2. row' \in [ Jobs -> Row ]
  BY <1>1 DEF TypeOK, Row
<1>3. \A i \in Jobs : /\ row'[i].status = "running" <=> row[i].status = "running"
                      /\ row[i].status \in Terminal => row'[i].status \in Terminal
  BY <1>1 DEF TypeOK, Row, Terminal
<1>4. Structure'
  BY <1>1, <1>3, RowsKeep DEF poolVars
<1>5. created' \in Seq(Jobs)
  BY <1>1 DEF TypeOK
<1>6. TypeOK'
  BY <1>1, <1>2, <1>5 DEF TypeOK, poolVars, hostVars, ghostVars
<1>7. QED
  BY <1>4, <1>6 DEF PoolInvariant, Structure

LEMMA CancelFields ==
  ASSUME TypeOK, NEW j \in Jobs, Cancel(j)
  PROVE  /\ row' \in [ Jobs -> Row ] /\ created' = created
         /\ row[j].status \in { "queued", "running" }
         /\ row'[j].status = IF row[j].status = "queued" THEN "cancelled" ELSE "running"
         /\ row'[j].cancelled
         /\ row'[j].pid <=> row[j].pid
         /\ \A i \in Jobs : i # j => row'[i] = row[i]
         /\ UNCHANGED << poolVars, hostVars, ghostVars, faults >>
<1> DEFINE verdict == IF row[j].status = "queued" THEN "cancelled" ELSE row[j].status
<1>1. row' = [ row EXCEPT ![j] = [ row[j] EXCEPT !.cancelled = TRUE, !.status = verdict ] ]
  BY DEF Cancel, TypeOK, Row
<1>2. row[j].status \in { "queued", "running" } /\ row[j] \in Row
  BY DEF Cancel, TypeOK
<1>3. verdict \in { "running", "cancelled" }
  BY <1>2
<1> HIDE DEF verdict
<1>4. [ row[j] EXCEPT !.cancelled = TRUE, !.status = verdict ] \in Row
  BY <1>2, <1>3 DEF Row, Terminal
<1>5. row'[j] = [ row[j] EXCEPT !.cancelled = TRUE, !.status = verdict ]
  BY <1>1 DEF TypeOK
<1>6. row'[j].status = verdict /\ row'[j].cancelled /\ (row'[j].pid <=> row[j].pid)
  BY <1>2, <1>5 DEF Row
<1>7. row' \in [ Jobs -> Row ] /\ \A i \in Jobs : i # j => row'[i] = row[i]
  BY <1>1, <1>4 DEF TypeOK
<1>8. created' = created /\ UNCHANGED << poolVars, hostVars, ghostVars, faults >>
  BY DEF Cancel
<1>9. QED
  BY <1>2, <1>6, <1>7, <1>8 DEF verdict

LEMMA CancelStep ==
  ASSUME PoolInvariant, NEW j \in Jobs, Cancel(j)
  PROVE  PoolInvariant'
<1>1. TypeOK
  BY DEF PoolInvariant
<1>2. /\ row' \in [ Jobs -> Row ] /\ created' = created
      /\ row[j].status \in { "queued", "running" }
      /\ row'[j].status = IF row[j].status = "queued" THEN "cancelled" ELSE "running"
      /\ \A i \in Jobs : i # j => row'[i] = row[i]
      /\ UNCHANGED << poolVars, hostVars, ghostVars, faults >>
  BY <1>1, CancelFields
<1>3. \A i \in Jobs : /\ row'[i].status = "running" <=> row[i].status = "running"
                      /\ row[i].status \in Terminal => row'[i].status \in Terminal
  BY <1>2 DEF Terminal
<1>4. Structure'
  BY <1>2, <1>3, RowsKeep DEF poolVars
<1>5. TypeOK'
  BY <1>1, <1>2 DEF TypeOK, poolVars, hostVars, ghostVars
<1>6. QED
  BY <1>4, <1>5 DEF PoolInvariant, Structure

LEMMA HostStep ==
  ASSUME PoolInvariant, NEW j \in Jobs, RunWorks(j) \/ RunExits(j) \/ RunHangs(j)
  PROVE  PoolInvariant'
<1>1. TypeOK /\ UNCHANGED << queueVars, poolVars, orphaned, dirty, saved, launched >>
  BY DEF PoolInvariant, RunWorks, RunExits, RunHangs, ghostVars, hostVars
<1>2. Structure'
  BY <1>1, RowsKeep DEF queueVars, poolVars
<1>3. /\ proc' \in [ Jobs -> { "none", "alive", "finished", "unfinished" } ]
      /\ debris' \subseteq Jobs /\ hung' \subseteq Jobs /\ faults' \in 0 .. MaxFaults
  <2>1. CASE RunWorks(j)
    BY <1>1, <2>1 DEF RunWorks, TypeOK, ghostVars
  <2>2. CASE RunExits(j)
    BY <1>1, <2>2 DEF RunExits, TypeOK, ghostVars
  <2>3. CASE RunHangs(j)
    BY <1>1, <2>3, FaultType DEF RunHangs, TypeOK, hostVars
  <2>4. QED
    BY <2>1, <2>2, <2>3
<1>4. TypeOK'
  BY <1>1, <1>3 DEF TypeOK, queueVars, poolVars
<1>5. QED
  BY <1>2, <1>4 DEF PoolInvariant, Structure

-----------------------------------------------------------------------------
(* The steps of the main thread.                                           *)

LEMMA StartStep ==
  ASSUME PoolInvariant, NEW p \in Pools, Start(p)
  PROVE  PoolInvariant'
<1> USE ConstantsDiffer
<1> DEFINE new == [ Down EXCEPT !.at = "recover" ]
<1>1. /\ TypeOK /\ lock = NoPool /\ lock' = p /\ Main(p, new)
      /\ UNCHANGED << queueVars, thread, hostVars, ghostVars, faults >>
  BY DEF PoolInvariant, Start, Lockable
<1>2. new \in Pool /\ new.at = "recover"
  BY DEF Down, Pool
<1> HIDE DEF new
<1>3. /\ pool' \in [ Pools -> Pool ] /\ pool'[p] = new
      /\ \A q \in Pools : q # p => pool'[q] = pool[q]
  BY <1>1, <1>2, MainFields
<1>4. \A q \in Pools : /\ pool[q].at = "down"
                       /\ \A t \in Threads : thread[q][t].at = "idle" /\ thread[q][t].job = NoJob
  BY <1>1 DEF PoolInvariant, OnePool
<1>5. thread' = thread
  BY <1>1
<1>6. OnePool'
  BY <1>1, <1>2, <1>3, <1>4, <1>5 DEF OnePool
<1>7. ThreadsWork' /\ RecoveryWorks' /\ RunningIsHeld'
  BY <1>2, <1>3, <1>4, <1>5 DEF ThreadsWork, RecoveryWorks, RunningIsHeld
<1>8. TypeOK'
  BY <1>1, <1>3 DEF TypeOK, queueVars, hostVars, ghostVars
<1>9. QED
  BY <1>6, <1>7, <1>8 DEF PoolInvariant

LEMMA RecoverNextStep ==
  ASSUME PoolInvariant, NEW p \in Pools, RecoverNext(p)
  PROVE  PoolInvariant'
<1>1. /\ TypeOK /\ pool[p] \in Pool /\ pool[p].at = "recover"
      /\ UNCHANGED << queueVars, lock, thread, hostVars, ghostVars, faults >>
  BY DEF PoolInvariant, TypeOK, RecoverNext
<1>2. PICK new \in Pool :
        /\ Main(p, new) /\ new.at \in { "serve", "stop" }
        /\ new.at = "serve" => \A i \in Jobs : row[i].status # "running"
        /\ new.at = "stop" => new.job \in Jobs /\ row[new.job].status = "running"
  <2>1. CASE Having({"running"}) = {} /\ Main(p, [ pool[p] EXCEPT !.at = "serve", !.job = NoJob ])
    <3> DEFINE to == "serve"
               new == [ pool[p] EXCEPT !.at = to, !.job = NoJob ]
    <3>1. /\ Main(p, new) /\ to \in { "recover", "stop", "clean", "settle", "save", "serve" }
          /\ NoJob \in Jobs \cup {NoJob}
      BY <2>1
    <3>2. \A i \in Jobs : row[i].status # "running"
      BY <2>1 DEF Having
    <3> HIDE DEF to
    <3>3. new \in Pool /\ new.at = to
      BY <1>1, <3>1 DEF Pool
    <3> HIDE DEF new
    <3>4. QED
      BY <3>1, <3>2, <3>3 DEF to
  <2>2. CASE \E j \in Jobs : Oldest(Having({"running"}), j) /\ Main(p, [ pool[p] EXCEPT !.at = "stop", !.job = j ])
    <3>1. PICK j \in Jobs : /\ Oldest(Having({"running"}), j)
                            /\ Main(p, [ pool[p] EXCEPT !.at = "stop", !.job = j ])
      BY <2>2
    <3>2. row[j].status = "running"
      BY <3>1 DEF Oldest, Having
    <3> DEFINE to == "stop"
               new == [ pool[p] EXCEPT !.at = to, !.job = j ]
    <3>3. /\ Main(p, new) /\ to \in { "recover", "stop", "clean", "settle", "save", "serve" }
          /\ j \in Jobs \cup {NoJob}
      BY <3>1
    <3> HIDE DEF to
    <3>4. new \in Pool /\ new.at = to /\ new.job = j
      BY <1>1, <3>3 DEF Pool
    <3> HIDE DEF new
    <3>5. QED
      BY <3>2, <3>3, <3>4 DEF to
  <2>3. QED
    BY <2>1, <2>2 DEF RecoverNext
<1>3. row' = row
  BY <1>1 DEF queueVars
<1>4. Structure'
  BY <1>1, <1>2, <1>3, RecoveryMoves
<1>5. pool' \in [ Pools -> Pool ]
  BY <1>1, <1>2, MainFields
<1>6. TypeOK'
  BY <1>1, <1>5 DEF TypeOK, queueVars, hostVars, ghostVars
<1>7. QED
  BY <1>4, <1>6 DEF PoolInvariant, Structure

(* A step of recover() on one job.                                         *)
LEMMA RecoversStep ==
  ASSUME PoolInvariant, NEW p \in Pools,
         NEW from \in { "stop", "clean", "settle", "save" },
         NEW to \in { "recover", "clean", "settle", "save" }, Recovers(p, from, to),
         \A i \in Jobs : i # pool[p].job => row'[i].status = row[i].status,
         to \in { "clean", "settle" } => row'[pool[p].job].status = "running",
         to = "save" => row'[pool[p].job].status \in Terminal
  PROVE  /\ Structure' /\ pool' \in [ Pools -> Pool ]
         /\ pool'[p].at = to /\ pool'[p].job = pool[p].job
         /\ \A q \in Pools : q # p => pool'[q] = pool[q]
         /\ pool[p].job \in Jobs
         /\ UNCHANGED << lock, thread, launched, ghostVars, faults >>
<1>1. TypeOK /\ pool[p] \in Pool /\ pool[p].at = from
  BY DEF PoolInvariant, TypeOK, Recovers
<1>2. pool[p].job \in Jobs
  BY <1>1 DEF PoolInvariant, RecoveryWorks
<1> DEFINE new == [ pool[p] EXCEPT !.at = to ]
<1>3. new \in Pool /\ new.at = to /\ new.job = pool[p].job
  <2>1. to \in { "recover", "stop", "clean", "settle", "save", "serve" }
    OBVIOUS
  <2>2. QED
    BY <1>1, <1>2, <2>1 DEF Pool
<1>4. Main(p, new) /\ UNCHANGED << lock, thread, launched, ghostVars, faults >>
  BY DEF Recovers
<1> HIDE DEF new
<1>5. /\ pool' \in [ Pools -> Pool ] /\ pool'[p] = new
      /\ \A q \in Pools : q # p => pool'[q] = pool[q]
  BY <1>1, <1>3, <1>4, MainFields
<1>6. Structure'
  BY <1>1, <1>2, <1>3, <1>4, RecoveryMoves
<1>7. QED
  BY <1>2, <1>3, <1>4, <1>5, <1>6

LEMMA RecoverJobStep ==
  ASSUME PoolInvariant, NEW p \in Pools, RecoverStop(p) \/ RecoverClean(p) \/ RecoverSave(p)
  PROVE  PoolInvariant'
<1>1. TypeOK /\ UNCHANGED queueVars /\ row' = row
  BY DEF PoolInvariant, RecoverStop, RecoverClean, RecoverSave, queueVars
<1>2. CASE RecoverStop(p)
  <2>1. Recovers(p, "stop", "clean") /\ pool[p].at = "stop" /\ UNCHANGED << debris, saved >>
    BY <1>2 DEF RecoverStop, Recovers
  <2>2. pool[p].job \in Jobs /\ row[pool[p].job].status = "running"
    BY <2>1 DEF PoolInvariant, RecoveryWorks
  <2>3. Structure' /\ pool' \in [ Pools -> Pool ] /\ UNCHANGED << lock, thread, launched, ghostVars, faults >>
    BY <1>1, <2>1, <2>2, RecoversStep
  <2>4. proc' \in [ Jobs -> { "none", "alive", "finished", "unfinished" } ]
    BY <1>1, <1>2, <2>2, KilledType DEF RecoverStop, TypeOK
  <2>5. TypeOK'
    BY <1>1, <2>1, <2>3, <2>4 DEF TypeOK, queueVars, ghostVars
  <2>6. QED
    BY <2>3, <2>5 DEF PoolInvariant, Structure
<1>3. CASE RecoverClean(p)
  <2>1. Recovers(p, "clean", "settle") /\ pool[p].at = "clean" /\ UNCHANGED << proc, saved >>
    BY <1>3 DEF RecoverClean, Recovers
  <2>2. pool[p].job \in Jobs /\ row[pool[p].job].status = "running"
    BY <2>1 DEF PoolInvariant, RecoveryWorks
  <2>3. Structure' /\ pool' \in [ Pools -> Pool ] /\ UNCHANGED << lock, thread, launched, ghostVars, faults >>
    BY <1>1, <2>1, <2>2, RecoversStep
  <2>4. debris' \subseteq Jobs
    BY <1>1, <1>3 DEF RecoverClean, TypeOK
  <2>5. TypeOK'
    BY <1>1, <2>1, <2>3, <2>4 DEF TypeOK, queueVars, ghostVars
  <2>6. QED
    BY <2>3, <2>5 DEF PoolInvariant, Structure
<1>4. CASE RecoverSave(p)
  <2>1. Recovers(p, "save", "recover") /\ pool[p].at = "save" /\ UNCHANGED << proc, debris >>
    BY <1>4 DEF RecoverSave, Recovers
  <2>2. pool[p].job \in Jobs /\ row[pool[p].job].status \in Terminal
    BY <2>1 DEF PoolInvariant, RecoveryWorks
  <2>3. Structure' /\ pool' \in [ Pools -> Pool ] /\ UNCHANGED << lock, thread, launched, ghostVars, faults >>
    BY <1>1, <2>1, <2>2, RecoversStep
  <2>4. saved' \in [ Jobs -> { "absent", "running" } \cup Terminal ]
    BY <1>1, <1>4, <2>2 DEF RecoverSave, TypeOK
  <2>5. TypeOK'
    BY <1>1, <2>1, <2>3, <2>4 DEF TypeOK, queueVars, ghostVars
  <2>6. QED
    BY <2>3, <2>5 DEF PoolInvariant, Structure
<1>5. QED
  BY <1>2, <1>3, <1>4

LEMMA RecoverSettleStep ==
  ASSUME PoolInvariant, NEW p \in Pools, RecoverSettle(p)
  PROVE  PoolInvariant'
<1>1. /\ TypeOK /\ Recovers(p, "settle", "save") /\ pool[p].at = "settle"
      /\ Update(pool[p].job, "failed", FALSE) /\ UNCHANGED << proc, debris, saved >>
  BY DEF PoolInvariant, RecoverSettle, Recovers
<1>2. pool[p].job \in Jobs
  BY <1>1 DEF PoolInvariant, RecoveryWorks
<1>3. /\ row' \in [ Jobs -> Row ] /\ created' = created /\ row'[pool[p].job].status \in Terminal
      /\ \A i \in Jobs : i # pool[p].job => row'[i] = row[i]
  BY <1>1, <1>2, UpdateFields DEF Terminal
<1>4. Structure' /\ pool' \in [ Pools -> Pool ] /\ UNCHANGED << lock, thread, launched, ghostVars, faults >>
  BY <1>1, <1>3, RecoversStep
<1>5. TypeOK'
  BY <1>1, <1>3, <1>4 DEF TypeOK, ghostVars
<1>6. QED
  BY <1>4, <1>5 DEF PoolInvariant, Structure

LEMMA EndStep ==
  ASSUME PoolInvariant, NEW p \in Pools, Leave(p) \/ Crash(p) \/ RecoverRaises(p)
  PROVE  PoolInvariant'
<1>1. TypeOK /\ Exit(p) /\ row' = row /\ UNCHANGED << queueVars, hostVars, dirty, hung >>
  BY DEF PoolInvariant, Leave, Crash, RecoverRaises, queueVars, ghostVars
<1>2. Structure'
  BY <1>1, ExitKeeps
<1>3. /\ pool' \in [ Pools -> Pool ] /\ thread' \in [ Pools -> [ Threads -> Thread ] ]
      /\ lock' \in Pools \cup {NoPool}
  BY <1>1, ExitFields
<1>4. orphaned' \subseteq Jobs
  <2>1. CASE Crash(p)
    <3>1. \A t \in Threads : thread[p][t].at = "record" => JobOf(p, t) \in Jobs
      BY WorkingThread DEF Working
    <3>2. QED
      BY <1>1, <2>1, <3>1 DEF Crash, TypeOK
  <2>2. CASE Leave(p) \/ RecoverRaises(p)
    BY <1>1, <2>2 DEF Leave, RecoverRaises, ghostVars, TypeOK
  <2>3. QED
    BY <2>1, <2>2
<1>5. faults' \in 0 .. MaxFaults
  BY <1>1, FaultType DEF Leave, Crash, RecoverRaises, TypeOK
<1>6. TypeOK'
  BY <1>1, <1>3, <1>4, <1>5 DEF TypeOK, queueVars, hostVars
<1>7. QED
  BY <1>2, <1>6 DEF PoolInvariant, Structure

LEMMA StopStep ==
  ASSUME PoolInvariant, NEW p \in Pools, Stop(p)
  PROVE  PoolInvariant'
<1> DEFINE new == [ pool[p] EXCEPT !.stop = TRUE ]
<1>1. /\ TypeOK /\ Main(p, new)
      /\ UNCHANGED << queueVars, lock, thread, hostVars, ghostVars >>
  BY DEF PoolInvariant, Stop
<1>2. new \in Pool /\ new.at = pool[p].at /\ new.job = pool[p].job
  BY <1>1 DEF TypeOK, Pool
<1> HIDE DEF new
<1>3. /\ pool' \in [ Pools -> Pool ]
      /\ \A q \in Pools : pool'[q].at = pool[q].at /\ pool'[q].job = pool[q].job
  BY <1>1, <1>2, MainFields
<1>4. row' = row /\ thread' = thread /\ lock' = lock
  BY <1>1 DEF queueVars
<1>5. OnePool' /\ ThreadsWork' /\ RecoveryWorks' /\ RunningIsHeld'
  BY <1>3, <1>4 DEF PoolInvariant, OnePool, ThreadsWork, RecoveryWorks, RunningIsHeld
<1>6. faults' \in 0 .. MaxFaults
  BY <1>1, FaultType DEF Stop, TypeOK
<1>7. TypeOK'
  BY <1>1, <1>3, <1>4, <1>6 DEF TypeOK, queueVars, hostVars, ghostVars
<1>8. QED
  BY <1>5, <1>7 DEF PoolInvariant

LEMMA RebootStep ==
  ASSUME PoolInvariant, Reboot
  PROVE  PoolInvariant'
<1> USE ConstantsDiffer
<1>1. TypeOK /\ UNCHANGED << queueVars, debris, saved, launched, ghostVars >> /\ lock' = NoPool
  BY DEF PoolInvariant, Reboot
<1>2. /\ pool' = [ p \in Pools |-> Down ]
      /\ thread' = [ p \in Pools |-> [ t \in Threads |-> Idle ] ]
  BY DEF Reboot
<1>3. OnePool' /\ ThreadsWork' /\ RecoveryWorks' /\ RunningIsHeld'
  BY <1>1, <1>2 DEF OnePool, ThreadsWork, RecoveryWorks, RunningIsHeld
<1>4. pool' \in [ Pools -> Pool ] /\ thread' \in [ Pools -> [ Threads -> Thread ] ]
  BY <1>2
<1>5. proc' \in [ Jobs -> { "none", "alive", "finished", "unfinished" } ] /\ faults' \in 0 .. MaxFaults
  BY <1>1, FaultType DEF Reboot, TypeOK
<1>6. TypeOK'
  BY <1>1, <1>4, <1>5 DEF TypeOK, queueVars, ghostVars
<1>7. QED
  BY <1>3, <1>6 DEF PoolInvariant

LEMMA InitPool == Init => PoolInvariant
<1> SUFFICES ASSUME Init PROVE PoolInvariant
  OBVIOUS
<1> USE ConstantsDiffer
<1>1. TypeOK
  BY LocalPoolAssumption DEF Init, TypeOK, Row
<1>2. OnePool /\ ThreadsWork /\ RecoveryWorks /\ RunningIsHeld
  BY DEF Init, OnePool, ThreadsWork, RecoveryWorks, RunningIsHeld
<1>3. QED
  BY <1>1, <1>2 DEF PoolInvariant

LEMMA NextPool == PoolInvariant /\ [Next]_vars => PoolInvariant'
<1> SUFFICES ASSUME PoolInvariant, [Next]_vars PROVE PoolInvariant'
  OBVIOUS
<1>1. ASSUME NEW j \in Jobs, Enqueue(j) \/ Cancel(j) \/ RunWorks(j) \/ RunExits(j) \/ RunHangs(j)
      PROVE  PoolInvariant'
  BY <1>1, EnqueueStep, CancelStep, HostStep
<1>2. ASSUME NEW p \in Pools,
             Start(p) \/ RecoverStep(p) \/ RecoverRaises(p) \/ Stop(p) \/ Leave(p) \/ Crash(p)
      PROVE  PoolInvariant'
  BY <1>2, StartStep, RecoverNextStep, RecoverJobStep, RecoverSettleStep, StopStep, EndStep DEF RecoverStep
<1>3. ASSUME NEW p \in Pools, NEW t \in Threads, ThreadStep(p, t)
      PROVE  PoolInvariant'
  BY <1>3, TakeStep, LaunchStep, RecordStep, InterruptStep, KillStep, ReapStep, CleanStep,
     SettleStep, SaveStep DEF ThreadStep
<1>4. ASSUME NEW p \in Pools, NEW t \in Threads, Raise(p, t) \/ CleanRaises(p, t) \/ ThreadEnds(p, t)
      PROVE  PoolInvariant'
  BY <1>4, RaiseStep, CleanRaisesStep, ThreadEndsStep
<1>5. CASE Reboot
  BY <1>5, RebootStep
<1>6. CASE UNCHANGED vars
  <2>1. UNCHANGED << queueVars, poolVars, hostVars, ghostVars, faults >>
    BY <1>6 DEF vars
  <2>2. TypeOK'
    BY <2>1 DEF PoolInvariant, TypeOK, queueVars, poolVars, hostVars, ghostVars
  <2>3. Structure'
    BY <2>1, RowsKeep DEF queueVars, poolVars
  <2>4. QED
    BY <2>2, <2>3 DEF PoolInvariant, Structure
<1>7. QED
  BY <1>1, <1>2, <1>3, <1>4, <1>5, <1>6 DEF Next

(* At most one pool works, a thread's job is running and its own, and a    *)
(* running row of a serving pool is held by a thread.                      *)
THEOREM PoolInvariantHolds == Spec => []PoolInvariant
<1>1. QED
  BY InitPool, NextPool, PTL DEF Spec

(* Every variable keeps its type.                                          *)
THEOREM TypeOKHolds == Spec => []TypeOK
<1>1. PoolInvariant => TypeOK
  BY DEF PoolInvariant
<1>2. QED
  BY <1>1, PoolInvariantHolds, PTL

-----------------------------------------------------------------------------
(* The second layer: a step disturbs what it says of one job at most.      *)

SameHost(j) ==
  /\ row'[j] = row[j] /\ proc'[j] = proc[j] /\ launched'[j] = launched[j] /\ saved'[j] = saved[j]
  /\ j \in debris' <=> j \in debris
  /\ j \in dirty' <=> j \in dirty
  /\ j \in orphaned' <=> j \in orphaned

LEMMA OtherJob ==
  ASSUME NEW i \in Jobs, JobOK(i), SameHost(i),
         \A p \in Pools, t \in Threads :
           thread[p][t].job = i \/ thread'[p][t].job = i => thread'[p][t] = thread[p][t],
         \A p \in Pools :
           pool'[p].job = i /\ pool'[p].at \in { "clean", "settle" } =>
             pool[p].job = i /\ pool[p].at = pool'[p].at
  PROVE  JobOK(i)'
<1>1. Untouched(i)' <=> Untouched(i)
  BY DEF Untouched, SameHost
<1>2. StoppedAndClean(i)' <=> StoppedAndClean(i)
  BY DEF StoppedAndClean, SameHost
<1>3. \A p \in Pools, t \in Threads : thread'[p][t].job = i => PlaceOK(thread[p][t].at, i)'
  BY <1>1, <1>2 DEF JobOK, PlaceOK, SameHost
<1>4. ProcessOK(i) => ProcessOK(i)'
  BY <1>2 DEF ProcessOK, SameHost
<1>5. QED
  BY <1>1, <1>3, <1>4 DEF JobOK, SameHost

(* A step of the thread that works on j, or begins to.                     *)
LEMMA ThreadJobStep ==
  ASSUME PoolInvariant, HostInvariant,
         NEW p \in Pools, NEW t \in Threads, NEW new \in Thread, Step(p, t, new), NEW j \in Jobs,
         pool[p].at = "serve", \A u \in Threads : thread[p][u].job = j => u = t,
         thread[p][t].job \in { j, NoJob }, new.job \in { j, NoJob },
         \A i \in Jobs : i # j => SameHost(i),
         row'[j].status \notin { "absent", "queued" },
         launched'[j] <= 1,
         saved'[j] \in Terminal => saved'[j] = row'[j].status,
         new.job = j => PlaceOK(new.at, j)',
         j \notin orphaned => /\ proc'[j] = "alive" =>
                                  /\ row'[j].status = "running"
                                  /\ row'[j].pid \/ (new.job = j /\ new.at = "record")
                              /\ row'[j].status \in Terminal => StoppedAndClean(j)'
  PROVE  HostInvariant'
<1> USE ConstantsDiffer
<1>1. /\ pool' = pool /\ orphaned' = orphaned
      /\ thread'[p][t] = new
      /\ \A q \in Pools, u \in Threads : q # p \/ u # t => thread'[q][u] = thread[q][u]
  <2>1. pool' = pool /\ orphaned' = orphaned
    BY DEF Step
  <2>2. TypeOK
    BY DEF PoolInvariant
  <2>3. QED
    BY <2>1, <2>2, StepFields
<1>2. \A q \in Pools : /\ q # p => pool[q].at = "down" /\ \A u \in Threads : thread[q][u].job = NoJob
                       /\ pool[q].at \notin { "clean", "settle" }
  BY DEF PoolInvariant, OnePool
<1>3. ASSUME NEW i \in Jobs, i # j PROVE JobOK(i)'
  <2>1. JobOK(i) /\ SameHost(i)
    BY <1>3 DEF HostInvariant
  <2>2. \A q \in Pools, u \in Threads :
          thread[q][u].job = i \/ thread'[q][u].job = i => thread'[q][u] = thread[q][u]
    BY <1>1, <1>3
  <2>3. \A q \in Pools :
           pool'[q].job = i /\ pool'[q].at \in { "clean", "settle" } =>
             pool[q].job = i /\ pool[q].at = pool'[q].at
    BY <1>1
  <2>4. QED
    BY <2>1, <2>2, <2>3, OtherJob
<1>4. JobOK(j)'
  <2>1. \A q \in Pools, u \in Threads : thread'[q][u].job = j => q = p /\ u = t
    BY <1>1, <1>2
  <2>2. \A q \in Pools, u \in Threads : thread'[q][u].job = j => PlaceOK(thread[q][u].at, j)'
    BY <1>1, <2>1 DEF PlaceOK
  <2>3. j \notin orphaned' => ProcessOK(j)'
    <3> SUFFICES ASSUME j \notin orphaned PROVE ProcessOK(j)'
      BY <1>1
    <3>1. proc'[j] = "alive" =>
            /\ row'[j].status = "running"
            /\ row'[j].pid \/ \E q \in Pools, u \in Threads : thread'[q][u].job = j /\ thread'[q][u].at = "record"
      BY <1>1
    <3>2. \A q \in Pools : pool'[q].at \notin { "clean", "settle" }
      BY <1>1, <1>2
    <3>3. QED
      BY <3>1, <3>2 DEF ProcessOK
  <2>4. QED
    BY <2>2, <2>3 DEF JobOK
<1>5. QED
  BY <1>3, <1>4 DEF HostInvariant

(* A step of recover() on j.                                               *)
LEMMA RecoveryJobStep ==
  ASSUME PoolInvariant, HostInvariant, NEW p \in Pools, NEW j \in Jobs,
         thread' = thread, pool[p].at \notin { "down", "serve" },
         \A q \in Pools : q # p => pool'[q] = pool[q],
         pool'[p].job \in Jobs /\ pool'[p].at \in { "clean", "settle" } => pool'[p].job = j,
         \A i \in Jobs : i # j => SameHost(i),
         orphaned' = orphaned, row'[j].status \notin { "absent", "queued" }, launched'[j] = launched[j],
         saved'[j] \in Terminal => saved'[j] = row'[j].status,
         j \notin orphaned => /\ proc'[j] = "alive" => row'[j].status = "running" /\ row'[j].pid
                              /\ row'[j].status \in Terminal => StoppedAndClean(j)'
                              /\ pool'[p].at = "clean" => proc'[j] # "alive"
                              /\ pool'[p].at = "settle" => StoppedAndClean(j)'
  PROVE  HostInvariant'
<1> USE ConstantsDiffer
<1>1. \A q \in Pools : /\ q # p => pool[q].at = "down"
                       /\ \A u \in Threads : thread[q][u].job = NoJob
  BY DEF PoolInvariant, OnePool
<1>2. ASSUME NEW i \in Jobs, i # j PROVE JobOK(i)'
  <2>1. JobOK(i) /\ SameHost(i)
    BY <1>2 DEF HostInvariant
  <2>2. \A q \in Pools :
           pool'[q].job = i /\ pool'[q].at \in { "clean", "settle" } =>
             pool[q].job = i /\ pool[q].at = pool'[q].at
    BY <1>2
  <2>3. \A q \in Pools, u \in Threads :
          thread[q][u].job = i \/ thread'[q][u].job = i => thread'[q][u] = thread[q][u]
    OBVIOUS
  <2>4. QED
    BY <2>1, <2>2, <2>3, OtherJob
<1>3. JobOK(j)'
  <2>1. \A q \in Pools, u \in Threads : thread'[q][u].job # j
    BY <1>1
  <2>2. launched'[j] <= 1
    BY DEF HostInvariant, JobOK
  <2>3. j \notin orphaned' => ProcessOK(j)'
    BY <1>1 DEF ProcessOK
  <2>4. QED
    BY <2>1, <2>2, <2>3 DEF JobOK
<1>4. QED
  BY <1>2, <1>3 DEF HostInvariant

(* A step of a user or of the host.                                        *)
LEMMA LocalJobStep ==
  ASSUME HostInvariant, NEW j \in Jobs,
         thread' = thread, \A q \in Pools : pool'[q].at = pool[q].at /\ pool'[q].job = pool[q].job,
         \A i \in Jobs : i # j => SameHost(i), JobOK(j)'
  PROVE  HostInvariant'
<1>1. ASSUME NEW i \in Jobs, i # j PROVE JobOK(i)'
  <2>1. JobOK(i) /\ SameHost(i)
    BY <1>1 DEF HostInvariant
  <2>2. QED
    BY <2>1, OtherJob
<1>2. QED
  BY <1>1 DEF HostInvariant

(* The thread of a job and what the invariant says of the two.             *)
LEMMA AtWork ==
  ASSUME PoolInvariant, HostInvariant, NEW p \in Pools, NEW t \in Threads, thread[p][t].at \in Working
  PROVE  /\ JobOf(p, t) \in Jobs /\ thread[p][t].job = JobOf(p, t) /\ pool[p].at = "serve"
         /\ \A u \in Threads : thread[p][u].job = JobOf(p, t) => u = t
         /\ row[JobOf(p, t)].status \in { "running" } \cup Terminal
         /\ thread[p][t].at # "save" => row[JobOf(p, t)].status = "running"
         /\ JobOK(JobOf(p, t)) /\ PlaceOK(thread[p][t].at, JobOf(p, t))
<1>1. /\ pool[p].at = "serve" /\ thread[p][t].job = JobOf(p, t)
      /\ JobOf(p, t) \in Jobs /\ JobOf(p, t) # NoJob
      /\ thread[p][t].at # "save" => row[JobOf(p, t)].status = "running"
      /\ thread[p][t].at = "save" => row[JobOf(p, t)].status \in Terminal
  BY WorkingThread
<1>2. \A u \in Threads : thread[p][u].job = JobOf(p, t) => u = t
  BY <1>1 DEF PoolInvariant, ThreadsWork
<1>3. JobOK(JobOf(p, t)) /\ PlaceOK(thread[p][t].at, JobOf(p, t))
  BY <1>1 DEF HostInvariant, JobOK
<1>4. QED
  BY <1>1, <1>2, <1>3

LEMMA MovesRecord ==
  ASSUME PoolInvariant, NEW p \in Pools, NEW t \in Threads,
         NEW from \in SUBSET Working, NEW to \in Working, Moves(p, t, from, to)
  PROVE  \E new \in Thread : Step(p, t, new) /\ new.at = to /\ new.job = JobOf(p, t)
<1>1. thread[p][t] \in Thread /\ Step(p, t, [ thread[p][t] EXCEPT !.at = to ])
  BY WorkingThread DEF Moves
<1>2. to \in { "idle", "launch", "record", "watch", "stopping", "clean", "settle", "save", "ended" }
  BY DEF Working
<1> DEFINE new == [ thread[p][t] EXCEPT !.at = to ]
<1>3. new \in Thread /\ new.at = to /\ new.job = JobOf(p, t)
  BY <1>1, <1>2 DEF Thread, JobOf
<1>4. QED
  BY <1>1, <1>3

LEMMA TakeHost ==
  ASSUME PoolInvariant, HostInvariant, NEW p \in Pools, NEW t \in Threads, Take(p, t)
  PROVE  HostInvariant'
<1> USE ConstantsDiffer
<1>1. PICK j \in Jobs : /\ Oldest(Eligible, j) /\ Update(j, "running", FALSE)
                        /\ Step(p, t, [ Idle EXCEPT !.at = "launch", !.job = j ])
  BY DEF Take
<1> DEFINE new == [ Idle EXCEPT !.at = "launch", !.job = j ]
<1>2. new \in Thread /\ new.at = "launch" /\ new.job = j /\ Step(p, t, new)
  BY <1>1 DEF Idle, Thread
<1> HIDE DEF new
<1>3. row[j].status = "queued" /\ pool[p].at = "serve" /\ thread[p][t].at = "idle"
      /\ UNCHANGED << hostVars, dirty >>
  BY <1>1 DEF Oldest, Eligible, Having, Take
<1>4. /\ row'[j].status = "running"
      /\ \A i \in Jobs : i # j => row'[i] = row[i]
  BY <1>1, UpdateFields DEF PoolInvariant, Terminal
<1>5. /\ \A u \in Threads : thread[p][u].job # j
      /\ thread[p][t].job = NoJob
  BY <1>3 DEF PoolInvariant, OnePool, ThreadsWork, Terminal
<1>6. JobOK(j) /\ Untouched(j)
  BY <1>3 DEF HostInvariant, JobOK
<1>7. \A i \in Jobs : i # j => SameHost(i)
  BY <1>2, <1>3, <1>4 DEF SameHost, hostVars, Step
<1>8. Untouched(j)' /\ PlaceOK(new.at, j)'
  BY <1>2, <1>3, <1>6 DEF Untouched, PlaceOK, hostVars
<1>9. saved'[j] \notin Terminal
  BY <1>3, <1>6 DEF JobOK, Terminal, hostVars
<1>10. QED
  BY <1>2, <1>3, <1>4, <1>5, <1>7, <1>8, <1>9, ThreadJobStep DEF Untouched, Terminal

LEMMA LaunchHost ==
  ASSUME PoolInvariant, HostInvariant, NEW p \in Pools, NEW t \in Threads, Launch(p, t)
  PROVE  HostInvariant'
<1>1. thread[p][t].at = "launch" /\ UNCHANGED << queueVars, debris, saved, dirty >>
  BY DEF Launch, Moves
<1>2. PICK j \in Jobs :
         /\ j = JobOf(p, t) /\ thread[p][t].job = j /\ pool[p].at = "serve"
         /\ \A u \in Threads : thread[p][u].job = j => u = t
         /\ row[j].status = "running" /\ JobOK(j) /\ Untouched(j)
  BY <1>1, AtWork DEF Working, PlaceOK
<1>3. row'[j].status = "running" /\ saved'[j] \notin Terminal
  BY <1>1, <1>2 DEF JobOK, Terminal, queueVars
<1>4. CASE Moves(p, t, {"launch"}, "clean") /\ UNCHANGED << proc, launched >>
  <2> DEFINE from == {"launch"}
             to == "clean"
  <2>1. Moves(p, t, from, to) /\ from \in SUBSET Working /\ to \in Working
    BY <1>4 DEF Working
  <2> HIDE DEF from, to
  <2>2. PICK new \in Thread : Step(p, t, new) /\ new.at = to /\ new.job = j
    BY <2>1, <1>2, MovesRecord
  <2>3. \A i \in Jobs : i # j => SameHost(i)
    BY <1>1, <1>4, <2>2 DEF SameHost, queueVars, Step
  <2>4. Untouched(j)' /\ launched'[j] <= 1 /\ proc'[j] = "none"
    <3>1. debris' = debris /\ proc' = proc /\ launched' = launched
      BY <1>1, <1>4
    <3>2. QED
      BY <1>2, <3>1 DEF Untouched
  <2>5. PlaceOK(new.at, j)'
    BY <2>2, <2>4 DEF PlaceOK, Untouched, to
  <2>6. QED
    <3>1. /\ row'[j].status \notin { "absent", "queued" } /\ row'[j].status \notin Terminal
          /\ thread[p][t].job \in { j, NoJob } /\ new.job \in { j, NoJob }
      BY <1>2, <1>3, <2>2 DEF Terminal
    <3>2. QED
      BY <1>2, <1>3, <2>2, <2>3, <2>4, <2>5, <3>1, ThreadJobStep
<1>5. CASE /\ Moves(p, t, {"launch"}, "record") /\ proc' = [ proc EXCEPT ![j] = "alive" ]
           /\ launched' = [ launched EXCEPT ![j] = @ + 1 ]
  <2> DEFINE from == {"launch"}
             to == "record"
  <2>1. Moves(p, t, from, to) /\ from \in SUBSET Working /\ to \in Working
    BY <1>5 DEF Working
  <2> HIDE DEF from, to
  <2>2. PICK new \in Thread : Step(p, t, new) /\ new.at = to /\ new.job = j
    BY <2>1, <1>2, MovesRecord
  <2>3. \A i \in Jobs : i # j => SameHost(i)
    BY <1>1, <1>5, <2>2 DEF SameHost, queueVars, Step, PoolInvariant, TypeOK
  <2>4. launched'[j] <= 1
    BY <1>2, <1>5 DEF Untouched, PoolInvariant, TypeOK
  <2>5. PlaceOK(new.at, j)' /\ new.at = "record"
    BY <2>2 DEF PlaceOK, to
  <2>6. QED
    <3>1. /\ row'[j].status \notin { "absent", "queued" } /\ row'[j].status \notin Terminal
          /\ thread[p][t].job \in { j, NoJob } /\ new.job \in { j, NoJob }
      BY <1>2, <1>3, <2>2 DEF Terminal
    <3>2. QED
      BY <1>2, <1>3, <2>2, <2>3, <2>4, <2>5, <3>1, ThreadJobStep
<1>6. QED
  BY <1>2, <1>4, <1>5 DEF Launch

LEMMA RecordHost ==
  ASSUME PoolInvariant, HostInvariant, NEW p \in Pools, NEW t \in Threads, Record(p, t)
  PROVE  HostInvariant'
<1>1. /\ thread[p][t].at = "record" /\ UNCHANGED << proc, debris, launched, dirty >>
      /\ Update(JobOf(p, t), row[JobOf(p, t)].status, TRUE)
      /\ saved' = [ saved EXCEPT ![JobOf(p, t)] = "running" ]
  BY DEF Record, Moves
<1>2. PICK j \in Jobs :
         /\ j = JobOf(p, t) /\ thread[p][t].job = j /\ pool[p].at = "serve"
         /\ \A u \in Threads : thread[p][u].job = j => u = t
         /\ JobOK(j) /\ PlaceOK(thread[p][t].at, j) /\ row[j].status = "running"
  BY <1>1, AtWork DEF Working
<1>3. PICK new \in Thread : Step(p, t, new) /\ new.at = "watch" /\ new.job = j
  <2> DEFINE from == {"record"}
             to == "watch"
  <2>1. Moves(p, t, from, to) /\ from \in SUBSET Working /\ to \in Working
    BY DEF Record, Working
  <2> HIDE DEF from, to
  <2>2. \E new \in Thread : Step(p, t, new) /\ new.at = to /\ new.job = j
    BY <1>2, <2>1, MovesRecord
  <2>3. QED
    BY <2>2 DEF to
<1>4. /\ row'[j].status = "running" /\ row'[j].pid
      /\ \A i \in Jobs : i # j => row'[i] = row[i]
  BY <1>1, <1>2, UpdateFields DEF PoolInvariant, Terminal
<1>5. \A i \in Jobs : i # j => SameHost(i)
  BY <1>1, <1>2, <1>3, <1>4 DEF SameHost, Step, PoolInvariant, TypeOK
<1>6. /\ saved'[j] \notin Terminal /\ launched'[j] <= 1
      /\ row'[j].status \notin { "absent", "queued" } /\ row'[j].status \notin Terminal
  BY <1>1, <1>2, <1>4 DEF PoolInvariant, TypeOK, Terminal, JobOK
<1>7. PlaceOK(new.at, j)'
  BY <1>3, <1>4 DEF PlaceOK
<1>8. QED
  BY <1>2, <1>3, <1>4, <1>5, <1>6, <1>7, ThreadJobStep

LEMMA InterruptHost ==
  ASSUME PoolInvariant, HostInvariant, NEW p \in Pools, NEW t \in Threads, Interrupt(p, t)
  PROVE  HostInvariant'
<1>1. /\ thread[p][t].at = "watch" /\ UNCHANGED << queueVars, hostVars, dirty >>
      /\ Step(p, t, [ thread[p][t] EXCEPT !.at = "stopping", !.error = pool[p].stop ])
  BY DEF Interrupt
<1>2. PICK j \in Jobs :
         /\ j = JobOf(p, t) /\ thread[p][t].job = j /\ pool[p].at = "serve"
         /\ \A u \in Threads : thread[p][u].job = j => u = t
         /\ JobOK(j) /\ PlaceOK(thread[p][t].at, j) /\ row[j].status = "running"
  BY <1>1, AtWork DEF Working
<1>3. PICK new \in Thread : Step(p, t, new) /\ new.at = "stopping" /\ new.job = j
  <2> DEFINE to == "stopping"
             stop == pool[p].stop
  <2>1. thread[p][t] \in Thread /\ to \in Working /\ stop \in BOOLEAN
    BY DEF PoolInvariant, TypeOK, Pool, Working
  <2>2. Step(p, t, [ thread[p][t] EXCEPT !.at = to, !.error = stop ])
    BY <1>1
  <2> HIDE DEF to, stop
  <2> DEFINE new == [ thread[p][t] EXCEPT !.at = to, !.error = stop ]
  <2>3. new \in Thread /\ new.at = to /\ new.job = j
    BY <1>2, <2>1, RaisedFields
  <2> HIDE DEF new
  <2>4. Step(p, t, new) /\ new.at = "stopping"
    BY <2>2, <2>3 DEF new, to
  <2>5. QED
    BY <2>3, <2>4
<1>4. \A i \in Jobs : SameHost(i)
  BY <1>1, <1>3 DEF SameHost, queueVars, hostVars, Step
<1>5. /\ saved'[j] \notin Terminal /\ launched'[j] <= 1 /\ row'[j].status = "running" /\ row'[j].pid
      /\ row'[j].status \notin { "absent", "queued" } /\ row'[j].status \notin Terminal
  BY <1>1, <1>2, <1>4 DEF SameHost, Terminal, JobOK, PlaceOK
<1>6. PlaceOK(new.at, j)'
  BY <1>3, <1>5 DEF PlaceOK
<1>7. QED
  BY <1>2, <1>3, <1>4, <1>5, <1>6, ThreadJobStep

LEMMA ReapHost ==
  ASSUME PoolInvariant, HostInvariant, NEW p \in Pools, NEW t \in Threads, Reap(p, t)
  PROVE  HostInvariant'
<1>1. /\ thread[p][t].at \in { "watch", "stopping" } /\ proc[JobOf(p, t)] # "alive"
      /\ UNCHANGED << queueVars, hostVars, dirty >>
  BY DEF Reap, Moves
<1>2. PICK j \in Jobs :
         /\ j = JobOf(p, t) /\ thread[p][t].job = j /\ pool[p].at = "serve"
         /\ \A u \in Threads : thread[p][u].job = j => u = t
         /\ JobOK(j) /\ PlaceOK(thread[p][t].at, j) /\ row[j].status = "running"
  BY <1>1, AtWork DEF Working
<1>3. PICK new \in Thread : Step(p, t, new) /\ new.at = "clean" /\ new.job = j
  <2> DEFINE from == { "watch", "stopping" }
             to == "clean"
  <2>1. Moves(p, t, from, to) /\ from \in SUBSET Working /\ to \in Working
    BY DEF Reap, Working
  <2> HIDE DEF from, to
  <2>2. \E new \in Thread : Step(p, t, new) /\ new.at = to /\ new.job = j
    BY <1>2, <2>1, MovesRecord
  <2>3. QED
    BY <2>2 DEF to
<1>4. \A i \in Jobs : SameHost(i)
  BY <1>1, <1>3 DEF SameHost, queueVars, hostVars, Step
<1>5. /\ saved'[j] \notin Terminal /\ launched'[j] <= 1 /\ proc'[j] # "alive"
      /\ row'[j].status \notin { "absent", "queued" } /\ row'[j].status \notin Terminal
  BY <1>1, <1>2, <1>4 DEF SameHost, Terminal, JobOK
<1>6. PlaceOK(new.at, j)'
  BY <1>3, <1>5 DEF PlaceOK
<1>7. QED
  BY <1>2, <1>3, <1>4, <1>5, <1>6, ThreadJobStep

LEMMA RaiseHost ==
  ASSUME PoolInvariant, HostInvariant, NEW p \in Pools, NEW t \in Threads, Raise(p, t)
  PROVE  HostInvariant'
<1>1. /\ thread[p][t].at \in { "launch", "record", "watch", "stopping" }
      /\ UNCHANGED << queueVars, debris, saved, launched, dirty >>
      /\ proc' = Killed(JobOf(p, t))
      /\ Step(p, t, [ thread[p][t] EXCEPT !.at = "clean", !.error = TRUE ])
  BY DEF Raise, AfterRaise
<1>2. PICK j \in Jobs :
         /\ j = JobOf(p, t) /\ thread[p][t].job = j /\ pool[p].at = "serve"
         /\ \A u \in Threads : thread[p][u].job = j => u = t
         /\ JobOK(j) /\ PlaceOK(thread[p][t].at, j) /\ row[j].status = "running"
  BY <1>1, AtWork DEF Working
<1>3. PICK new \in Thread : Step(p, t, new) /\ new.at = "clean" /\ new.job = j
  <2> DEFINE to == "clean"
             new == [ thread[p][t] EXCEPT !.at = to, !.error = TRUE ]
  <2>1. thread[p][t] \in Thread /\ to \in Working /\ TRUE \in BOOLEAN /\ Step(p, t, new)
    BY <1>1 DEF PoolInvariant, TypeOK, Working
  <2> HIDE DEF to
  <2>2. new \in Thread /\ new.at = to /\ new.job = j
    BY <1>2, <2>1, RaisedFields
  <2> HIDE DEF new
  <2>3. QED
    BY <2>1, <2>2 DEF to
<1>4. \A i \in Jobs : i # j => SameHost(i)
  BY <1>1, <1>2, <1>3 DEF SameHost, queueVars, Step, Killed, PoolInvariant, TypeOK
<1>5. proc'[j] # "alive"
  BY <1>1, <1>2 DEF Killed, PoolInvariant, TypeOK
<1>6. /\ saved'[j] \notin Terminal /\ launched'[j] <= 1
      /\ row'[j].status \notin { "absent", "queued" } /\ row'[j].status \notin Terminal
  BY <1>1, <1>2 DEF queueVars, Terminal, JobOK
<1>7. PlaceOK(new.at, j)'
  BY <1>3, <1>5 DEF PlaceOK
<1>8. QED
  BY <1>2, <1>3, <1>4, <1>5, <1>6, <1>7, ThreadJobStep

LEMMA CleanHost ==
  ASSUME PoolInvariant, HostInvariant, NEW p \in Pools, NEW t \in Threads, Clean(p, t)
  PROVE  HostInvariant'
<1>1. /\ thread[p][t].at = "clean" /\ UNCHANGED << queueVars, proc, saved, launched, dirty >>
      /\ debris' = debris \ {JobOf(p, t)}
  BY DEF Clean, Moves
<1>2. PICK j \in Jobs :
         /\ j = JobOf(p, t) /\ thread[p][t].job = j /\ pool[p].at = "serve"
         /\ \A u \in Threads : thread[p][u].job = j => u = t
         /\ JobOK(j) /\ PlaceOK(thread[p][t].at, j) /\ row[j].status = "running"
  BY <1>1, AtWork DEF Working
<1>3. PICK new \in Thread : Step(p, t, new) /\ new.at = "settle" /\ new.job = j
  <2> DEFINE from == {"clean"}
             to == "settle"
  <2>1. Moves(p, t, from, to) /\ from \in SUBSET Working /\ to \in Working
    BY DEF Clean, Working
  <2> HIDE DEF from, to
  <2>2. \E new \in Thread : Step(p, t, new) /\ new.at = to /\ new.job = j
    BY <1>2, <2>1, MovesRecord
  <2>3. QED
    BY <2>2 DEF to
<1>4. \A i \in Jobs : i # j => SameHost(i)
  BY <1>1, <1>2, <1>3 DEF SameHost, queueVars, Step
<1>5. proc'[j] # "alive" /\ j \notin debris'
  BY <1>1, <1>2 DEF PlaceOK
<1>6. /\ saved'[j] \notin Terminal /\ launched'[j] <= 1
      /\ row'[j].status \notin { "absent", "queued" } /\ row'[j].status \notin Terminal
  BY <1>1, <1>2 DEF queueVars, Terminal, JobOK
<1>7. PlaceOK(new.at, j)'
  BY <1>3, <1>5 DEF PlaceOK, StoppedAndClean
<1>8. QED
  BY <1>2, <1>3, <1>4, <1>5, <1>6, <1>7, ThreadJobStep

LEMMA CleanRaisesHost ==
  ASSUME PoolInvariant, HostInvariant, NEW p \in Pools, NEW t \in Threads, CleanRaises(p, t)
  PROVE  HostInvariant'
<1>1. /\ thread[p][t].at = "clean" /\ UNCHANGED << queueVars, hostVars >>
      /\ dirty' = dirty \cup {JobOf(p, t)}
      /\ Step(p, t, [ thread[p][t] EXCEPT !.at = "settle", !.error = TRUE ])
  BY DEF CleanRaises
<1>2. PICK j \in Jobs :
         /\ j = JobOf(p, t) /\ thread[p][t].job = j /\ pool[p].at = "serve"
         /\ \A u \in Threads : thread[p][u].job = j => u = t
         /\ JobOK(j) /\ PlaceOK(thread[p][t].at, j) /\ row[j].status = "running"
  BY <1>1, AtWork DEF Working
<1>3. PICK new \in Thread : Step(p, t, new) /\ new.at = "settle" /\ new.job = j
  <2> DEFINE to == "settle"
             new == [ thread[p][t] EXCEPT !.at = to, !.error = TRUE ]
  <2>1. thread[p][t] \in Thread /\ to \in Working /\ TRUE \in BOOLEAN /\ Step(p, t, new)
    BY <1>1 DEF PoolInvariant, TypeOK, Working
  <2> HIDE DEF to
  <2>2. new \in Thread /\ new.at = to /\ new.job = j
    BY <1>2, <2>1, RaisedFields
  <2> HIDE DEF new
  <2>3. QED
    BY <2>1, <2>2 DEF to
<1>4. \A i \in Jobs : i # j => SameHost(i)
  BY <1>1, <1>2, <1>3 DEF SameHost, queueVars, hostVars, Step
<1>5. proc'[j] # "alive" /\ j \in dirty'
  BY <1>1, <1>2 DEF PlaceOK, hostVars
<1>6. /\ saved'[j] \notin Terminal /\ launched'[j] <= 1
      /\ row'[j].status \notin { "absent", "queued" } /\ row'[j].status \notin Terminal
  BY <1>1, <1>2 DEF queueVars, hostVars, Terminal, JobOK
<1>7. PlaceOK(new.at, j)'
  BY <1>3, <1>5 DEF PlaceOK, StoppedAndClean
<1>8. QED
  BY <1>2, <1>3, <1>4, <1>5, <1>6, <1>7, ThreadJobStep

LEMMA SettleHost ==
  ASSUME PoolInvariant, HostInvariant, NEW p \in Pools, NEW t \in Threads, Settle(p, t)
  PROVE  HostInvariant'
<1>1. /\ thread[p][t].at = "settle" /\ UNCHANGED << hostVars, dirty >>
      /\ Update(JobOf(p, t), Result(p, t), FALSE) /\ Result(p, t) \in { "done", "failed" }
  BY DEF Settle, Moves, Result
<1>2. PICK j \in Jobs :
         /\ j = JobOf(p, t) /\ thread[p][t].job = j /\ pool[p].at = "serve"
         /\ \A u \in Threads : thread[p][u].job = j => u = t
         /\ JobOK(j) /\ PlaceOK(thread[p][t].at, j) /\ row[j].status = "running"
  BY <1>1, AtWork DEF Working
<1>3. PICK new \in Thread : Step(p, t, new) /\ new.at = "save" /\ new.job = j
  <2> DEFINE from == {"settle"}
             to == "save"
  <2>1. Moves(p, t, from, to) /\ from \in SUBSET Working /\ to \in Working
    BY DEF Settle, Working
  <2> HIDE DEF from, to
  <2>2. \E new \in Thread : Step(p, t, new) /\ new.at = to /\ new.job = j
    BY <1>2, <2>1, MovesRecord
  <2>3. QED
    BY <2>2 DEF to
<1>4. /\ row'[j].status \in Terminal
      /\ \A i \in Jobs : i # j => row'[i] = row[i]
  BY <1>1, <1>2, UpdateFields DEF PoolInvariant, Terminal
<1>5. \A i \in Jobs : i # j => SameHost(i)
  BY <1>1, <1>3, <1>4 DEF SameHost, hostVars, Step
<1>6. StoppedAndClean(j)' /\ proc'[j] # "alive"
  BY <1>1, <1>2 DEF PlaceOK, StoppedAndClean, hostVars
<1>7. /\ saved'[j] \notin Terminal /\ launched'[j] <= 1
      /\ row'[j].status \notin { "absent", "queued" }
  BY <1>1, <1>2, <1>4 DEF hostVars, Terminal, JobOK
<1>8. PlaceOK(new.at, j)'
  BY <1>3 DEF PlaceOK
<1>9. QED
  BY <1>2, <1>3, <1>5, <1>6, <1>7, <1>8, ThreadJobStep

LEMMA SaveHost ==
  ASSUME PoolInvariant, HostInvariant, NEW p \in Pools, NEW t \in Threads, Save(p, t)
  PROVE  HostInvariant'
<1> USE ConstantsDiffer
<1>1. /\ thread[p][t].at = "save" /\ UNCHANGED << queueVars, proc, debris, launched, dirty >>
      /\ saved' = [ saved EXCEPT ![JobOf(p, t)] = row[JobOf(p, t)].status ] /\ Step(p, t, Idle)
  BY DEF Save, Shown
<1>2. PICK j \in Jobs :
         /\ j = JobOf(p, t) /\ thread[p][t].job = j /\ pool[p].at = "serve"
         /\ \A u \in Threads : thread[p][u].job = j => u = t
         /\ JobOK(j) /\ PlaceOK(thread[p][t].at, j) /\ row[j].status \in Terminal
  BY <1>1, AtWork, WorkingThread DEF Working
<1>3. \A i \in Jobs : i # j => SameHost(i)
  BY <1>1, <1>2 DEF SameHost, queueVars, Step, PoolInvariant, TypeOK
<1>4. /\ saved'[j] = row'[j].status /\ launched'[j] <= 1 /\ row' = row
      /\ row'[j].status \notin { "absent", "queued" }
  BY <1>1, <1>2 DEF queueVars, Terminal, JobOK, PoolInvariant, TypeOK
<1>5. j \notin orphaned => StoppedAndClean(j)' /\ proc'[j] # "alive"
  BY <1>1, <1>2 DEF JobOK, ProcessOK, StoppedAndClean
<1>6. PlaceOK(Idle.at, j)'
  BY DEF PlaceOK
<1>7. QED
  BY <1>1, <1>2, <1>3, <1>4, <1>5, <1>6, ThreadJobStep

LEMMA ThreadEndsHost ==
  ASSUME PoolInvariant, HostInvariant, NEW p \in Pools, NEW t \in Threads, ThreadEnds(p, t)
  PROVE  HostInvariant'
<1> USE ConstantsDiffer
<1>1. /\ thread[p][t].at \in { "idle", "settle", "save" } /\ UNCHANGED << queueVars, hostVars, dirty >>
      /\ Step(p, t, [ Idle EXCEPT !.at = "ended" ])
  BY DEF ThreadEnds
<1>2. PICK new \in Thread : Step(p, t, new) /\ new.at = "ended" /\ new.job = NoJob
  <2> DEFINE new == [ Idle EXCEPT !.at = "ended" ]
  <2>1. new \in Thread /\ new.at = "ended" /\ new.job = NoJob /\ Step(p, t, new)
    BY <1>1 DEF Idle, Thread
  <2> HIDE DEF new
  <2>2. QED
    BY <2>1
<1>3. \A i \in Jobs : SameHost(i)
  BY <1>1, <1>2 DEF SameHost, queueVars, hostVars, Step
<1>4. CASE thread[p][t].at = "idle"
  <2>1. thread[p][t].job = NoJob
    BY <1>4 DEF PoolInvariant, OnePool
  <2>2. /\ pool' = pool /\ thread'[p][t] = new
        /\ \A q \in Pools, u \in Threads : q # p \/ u # t => thread'[q][u] = thread[q][u]
    <3>1. TypeOK /\ pool' = pool
      BY <1>2 DEF PoolInvariant, Step
    <3>2. QED
      BY <1>2, <3>1, StepFields
  <2>3. ASSUME NEW i \in Jobs PROVE JobOK(i)'
    <3>1. \A q \in Pools, u \in Threads :
            thread[q][u].job = i \/ thread'[q][u].job = i => thread'[q][u] = thread[q][u]
      BY <1>2, <2>1, <2>2
    <3>2. JobOK(i) /\ SameHost(i)
      BY <1>3 DEF HostInvariant
    <3>3. QED
      BY <2>2, <3>1, <3>2, OtherJob
  <2>4. QED
    BY <2>3 DEF HostInvariant
<1>5. CASE thread[p][t].at \in { "settle", "save" }
  <2>1. PICK j \in Jobs :
           /\ thread[p][t].job = j /\ pool[p].at = "serve"
           /\ \A u \in Threads : thread[p][u].job = j => u = t
           /\ JobOK(j) /\ PlaceOK(thread[p][t].at, j)
           /\ row[j].status \in { "running" } \cup Terminal
           /\ thread[p][t].at # "save" => row[j].status = "running"
    BY <1>5, AtWork DEF Working
  <2>2. /\ row'[j].status \notin { "absent", "queued" } /\ launched'[j] <= 1
        /\ saved'[j] \in Terminal => saved'[j] = row'[j].status
    BY <1>3, <2>1 DEF SameHost, JobOK, Terminal
  <2>3. j \notin orphaned => /\ proc'[j] # "alive"
                             /\ row'[j].status \in Terminal => StoppedAndClean(j)'
    <3>1. CASE thread[p][t].at = "settle"
      BY <1>3, <2>1, <3>1 DEF SameHost, PlaceOK, StoppedAndClean
    <3>2. CASE thread[p][t].at = "save"
      <4>1. row[j].status \in Terminal
        BY <2>1, <3>2, WorkingThread DEF Working, JobOf
      <4>2. QED
        BY <1>3, <2>1, <4>1 DEF SameHost, JobOK, ProcessOK, StoppedAndClean
    <3>3. QED
      BY <1>5, <3>1, <3>2
  <2>4. QED
    <3>1. /\ thread[p][t].job \in { j, NoJob } /\ new.job \in { j, NoJob } /\ new.job # j
          /\ \A i \in Jobs : i # j => SameHost(i)
      BY <1>2, <1>3, <2>1
    <3>2. j \notin orphaned => /\ proc'[j] = "alive" =>
                                  /\ row'[j].status = "running"
                                  /\ row'[j].pid \/ (new.job = j /\ new.at = "record")
                               /\ row'[j].status \in Terminal => StoppedAndClean(j)'
      BY <2>3
    <3>3. QED
      BY <1>2, <2>1, <2>2, <3>1, <3>2, ThreadJobStep
<1>6. QED
  BY <1>1, <1>4, <1>5

LEMMA KillHost ==
  ASSUME PoolInvariant, HostInvariant, NEW p \in Pools, NEW t \in Threads, Kill(p, t)
  PROVE  HostInvariant'
<1>1. PICK j \in Jobs :
         /\ proc[j] = "alive" /\ proc' = [ proc EXCEPT ![j] = "unfinished" ]
         /\ UNCHANGED << queueVars, poolVars, debris, saved, launched, ghostVars >>
  BY WorkingThread DEF Kill, Killed, Working
<1>2. proc'[j] # "alive" /\ \A i \in Jobs : i # j => SameHost(i)
  BY <1>1 DEF SameHost, queueVars, ghostVars, PoolInvariant, TypeOK
<1>3. /\ row' = row /\ launched' = launched /\ saved' = saved /\ debris' = debris
      /\ dirty' = dirty /\ orphaned' = orphaned /\ thread' = thread /\ pool' = pool
  BY <1>1 DEF queueVars, poolVars, ghostVars
<1>4. JobOK(j)'
  <2>1. JobOK(j) /\ ~Untouched(j)
    BY <1>1 DEF HostInvariant, Untouched
  <2>2. ProcessOK(j) => ProcessOK(j)'
    BY <1>1, <1>2, <1>3 DEF ProcessOK, StoppedAndClean
  <2>3. \A q \in Pools, u \in Threads :
          PlaceOK(thread[q][u].at, j) => PlaceOK(thread[q][u].at, j)'
    BY <1>2, <1>3, <2>1 DEF PlaceOK, StoppedAndClean
  <2>4. QED
    BY <1>3, <2>1, <2>2, <2>3 DEF JobOK
<1>5. QED
  BY <1>2, <1>3, <1>4, LocalJobStep

LEMMA UserHost ==
  ASSUME PoolInvariant, HostInvariant, NEW j \in Jobs, Enqueue(j) \/ Cancel(j)
  PROVE  HostInvariant'
<1>1. UNCHANGED << poolVars, hostVars, ghostVars >>
  BY DEF Enqueue, Cancel
<1>2. /\ row[j].status \in { "absent", "queued", "running" }
      /\ row[j].status # "running" => row'[j].status \in { "queued", "cancelled" }
      /\ row[j].status = "running" => row'[j].status = "running"
      /\ row'[j].pid <=> row[j].pid
      /\ \A i \in Jobs : i # j => row'[i] = row[i]
  <2>1. CASE Enqueue(j)
    BY <2>1 DEF Enqueue, PoolInvariant, TypeOK, Row
  <2>2. CASE Cancel(j)
    <3>1. TypeOK
      BY DEF PoolInvariant
    <3>2. QED
      BY <2>2, <3>1, CancelFields
  <2>3. QED
    BY <2>1, <2>2
<1>3. /\ proc' = proc /\ launched' = launched /\ saved' = saved /\ debris' = debris
      /\ dirty' = dirty /\ orphaned' = orphaned /\ thread' = thread /\ pool' = pool
  BY <1>1 DEF hostVars, poolVars, ghostVars
<1>4. \A i \in Jobs : i # j => SameHost(i)
  BY <1>2, <1>3 DEF SameHost
<1>5. JobOK(j)'
  <2>1. JobOK(j)
    BY DEF HostInvariant
  <2>2. (Untouched(j)' <=> Untouched(j)) /\ (StoppedAndClean(j)' <=> StoppedAndClean(j))
    BY <1>3 DEF Untouched, StoppedAndClean
  <2>3. row[j].status # "running" => Untouched(j) /\ StoppedAndClean(j)
    BY <1>2, <2>1 DEF JobOK, Untouched, StoppedAndClean
  <2>4. ProcessOK(j) => ProcessOK(j)'
    BY <1>2, <1>3, <2>2, <2>3 DEF ProcessOK, StoppedAndClean, Terminal
  <2>5. \A q \in Pools, u \in Threads :
          PlaceOK(thread[q][u].at, j) => PlaceOK(thread[q][u].at, j)'
    BY <1>2, <1>3, <2>2 DEF PlaceOK
  <2>6. saved'[j] \notin Terminal
    BY <1>2, <1>3, <2>1 DEF JobOK, Terminal
  <2>7. QED
    BY <1>2, <1>3, <2>1, <2>2, <2>3, <2>4, <2>5, <2>6 DEF JobOK
<1>6. QED
  BY <1>3, <1>4, <1>5, LocalJobStep

LEMMA RunHost ==
  ASSUME PoolInvariant, HostInvariant, NEW j \in Jobs, RunWorks(j) \/ RunExits(j) \/ RunHangs(j)
  PROVE  HostInvariant'
<1>1. /\ row' = row /\ launched' = launched /\ saved' = saved
      /\ dirty' = dirty /\ orphaned' = orphaned /\ thread' = thread /\ pool' = pool
  BY DEF RunWorks, RunExits, RunHangs, queueVars, poolVars, hostVars, ghostVars
<1>2. /\ proc[j] = "alive" /\ debris' \in { debris, debris \cup {j}, debris \ {j} }
      /\ \A i \in Jobs : i # j => proc'[i] = proc[i]
  BY DEF RunWorks, RunExits, RunHangs, hostVars, PoolInvariant, TypeOK
<1>3. \A i \in Jobs : i # j => SameHost(i)
  BY <1>1, <1>2 DEF SameHost
<1>4. JobOK(j)'
  <2>1. JobOK(j) /\ ~Untouched(j) /\ ~StoppedAndClean(j)
    BY <1>2 DEF HostInvariant, Untouched, StoppedAndClean
  <2>2. ProcessOK(j) => ProcessOK(j)'
    BY <1>1, <1>2, <2>1 DEF ProcessOK
  <2>3. \A q \in Pools, u \in Threads :
          PlaceOK(thread[q][u].at, j) => PlaceOK(thread[q][u].at, j)'
    BY <1>1, <1>2, <2>1 DEF PlaceOK
  <2>4. QED
    BY <1>1, <2>1, <2>2, <2>3 DEF JobOK
<1>5. QED
  BY <1>1, <1>3, <1>4, LocalJobStep

LEMMA MainHost ==
  ASSUME PoolInvariant, HostInvariant, NEW p \in Pools, Start(p) \/ RecoverNext(p) \/ Stop(p)
  PROVE  HostInvariant'
<1>1. thread' = thread /\ \A i \in Jobs : SameHost(i)
  BY DEF Start, RecoverNext, Stop, SameHost, queueVars, hostVars, ghostVars
<1>2. /\ \A q \in Pools : q # p => pool'[q] = pool[q]
      /\ pool'[p].at \in { "clean", "settle" } => pool'[p].at = pool[p].at /\ pool'[p].job = pool[p].job
  <2> USE ConstantsDiffer
  <2>1. pool \in [ Pools -> Pool ]
    BY DEF PoolInvariant, TypeOK
  <2>2. CASE Start(p)
    BY <2>1, <2>2 DEF Start, Main, Down, Pool
  <2>3. CASE RecoverNext(p)
    <3>1. CASE Main(p, [ pool[p] EXCEPT !.at = "serve", !.job = NoJob ])
      BY <2>1, <3>1 DEF Main, Pool
    <3>2. ASSUME NEW j \in Jobs, Main(p, [ pool[p] EXCEPT !.at = "stop", !.job = j ])
          PROVE  /\ \A q \in Pools : q # p => pool'[q] = pool[q]
                 /\ pool'[p].at = "stop"
      BY <2>1, <3>2 DEF Main, Pool
    <3>3. QED
      BY <2>3, <3>1, <3>2 DEF RecoverNext
  <2>4. CASE Stop(p)
    BY <2>1, <2>4 DEF Stop, Main, Pool
  <2>5. QED
    BY <2>2, <2>3, <2>4
<1>3. ASSUME NEW i \in Jobs PROVE JobOK(i)'
  <2>1. JobOK(i) /\ SameHost(i)
    BY <1>1 DEF HostInvariant
  <2>2. QED
    BY <1>1, <1>2, <2>1, OtherJob
<1>4. QED
  BY <1>3 DEF HostInvariant

LEMMA RecoverJobHost ==
  ASSUME PoolInvariant, HostInvariant, NEW p \in Pools,
         RecoverStop(p) \/ RecoverClean(p) \/ RecoverSettle(p) \/ RecoverSave(p)
  PROVE  HostInvariant'
<1> USE ConstantsDiffer
<1>1. pool \in [ Pools -> Pool ] /\ TypeOK
  BY DEF PoolInvariant, TypeOK
<1>2. pool[p].at \in { "stop", "clean", "settle", "save" }
  BY DEF RecoverStop, RecoverClean, RecoverSettle, RecoverSave, Recovers
<1>3. PICK j \in Jobs :
         /\ j = pool[p].job /\ JobOK(j)
         /\ pool[p].at # "save" => row[j].status = "running"
         /\ pool[p].at = "save" => row[j].status \in Terminal
  BY <1>2 DEF PoolInvariant, RecoveryWorks, HostInvariant
<1>4. /\ thread' = thread /\ orphaned' = orphaned /\ dirty' = dirty /\ launched' = launched
      /\ \A q \in Pools : q # p => pool'[q] = pool[q]
      /\ pool'[p].job = j
  <2>1. PICK from, to : Recovers(p, from, to)
    BY DEF RecoverStop, RecoverClean, RecoverSettle, RecoverSave
  <2>2. pool' = [ pool EXCEPT ![p] = [ pool[p] EXCEPT !.at = to ] ]
    BY <2>1 DEF Recovers, Main
  <2>3. \A q \in Pools : q # p => pool'[q] = pool[q]
    BY <1>1, <2>2
  <2>4. pool'[p] = [ pool[p] EXCEPT !.at = to ] /\ pool[p] \in Pool
    BY <1>1, <2>2
  <2>5. pool'[p].job = pool[p].job
    BY <2>4 DEF Pool
  <2>6. thread' = thread /\ orphaned' = orphaned /\ dirty' = dirty /\ launched' = launched
    BY <2>1 DEF Recovers, ghostVars
  <2>7. QED
    BY <1>3, <2>3, <2>5, <2>6
<1>5. \A q \in Pools, u \in Threads : thread[q][u].at # "record"
  BY <1>2 DEF PoolInvariant, OnePool
<1>6. j \notin orphaned => /\ ProcessOK(j)
                           /\ proc[j] = "alive" => row[j].status = "running" /\ row[j].pid
  BY <1>3, <1>5 DEF JobOK, ProcessOK
<1>7. CASE RecoverStop(p)
  <2>1. /\ pool'[p].at = "clean" /\ row' = row /\ debris' = debris /\ saved' = saved
        /\ proc' = IF row[j].pid THEN Killed(j) ELSE proc
        /\ pool[p].at = "stop"
    BY <1>1, <1>3, <1>7 DEF RecoverStop, Recovers, Signalled, Main, Pool, queueVars
  <2>2. \A i \in Jobs : i # j => SameHost(i)
    BY <1>1, <1>4, <2>1 DEF SameHost, Killed, TypeOK
  <2>3. j \notin orphaned => proc'[j] # "alive"
    BY <1>1, <1>6, <2>1 DEF Killed, TypeOK
  <2>4. row'[j].status = "running" /\ saved'[j] \notin Terminal
    BY <1>3, <2>1 DEF JobOK, Terminal
  <2>5. /\ row'[j].status \notin { "absent", "queued" } /\ row'[j].status \notin Terminal
        /\ pool'[p].at # "settle"
    BY <2>1, <2>4 DEF Terminal
  <2>6. QED
    BY <1>2, <1>4, <2>2, <2>3, <2>4, <2>5, RecoveryJobStep
<1>8. CASE RecoverClean(p)
  <2>1. /\ pool'[p].at = "settle" /\ row' = row /\ proc' = proc /\ saved' = saved
        /\ debris' = debris \ {j} /\ pool[p].at = "clean"
    BY <1>1, <1>3, <1>8 DEF RecoverClean, Recovers, Main, Pool, queueVars
  <2>2. \A i \in Jobs : i # j => SameHost(i)
    BY <1>4, <2>1 DEF SameHost
  <2>3. j \notin orphaned => proc'[j] # "alive" /\ StoppedAndClean(j)'
    BY <1>3, <1>6, <2>1 DEF ProcessOK, StoppedAndClean
  <2>4. row'[j].status = "running" /\ saved'[j] \notin Terminal
    BY <1>3, <2>1 DEF JobOK, Terminal
  <2>5. row'[j].status \notin { "absent", "queued" }
    BY <2>4
  <2>6. QED
    BY <1>2, <1>4, <2>2, <2>3, <2>4, <2>5, RecoveryJobStep
<1>9. CASE RecoverSettle(p)
  <2>1. /\ pool'[p].at = "save" /\ proc' = proc /\ saved' = saved /\ debris' = debris
        /\ pool[p].at = "settle" /\ Update(j, "failed", FALSE)
    BY <1>1, <1>3, <1>9 DEF RecoverSettle, Recovers, Main, Pool
  <2>2. row'[j].status \in Terminal /\ \A i \in Jobs : i # j => row'[i] = row[i]
    BY <1>1, <2>1, UpdateFields DEF Terminal
  <2>3. \A i \in Jobs : i # j => SameHost(i)
    BY <1>4, <2>1, <2>2 DEF SameHost
  <2>4. j \notin orphaned => proc'[j] # "alive" /\ StoppedAndClean(j)'
    BY <1>3, <1>4, <1>6, <2>1 DEF ProcessOK, StoppedAndClean
  <2>5. saved'[j] \notin Terminal /\ row'[j].status \notin { "absent", "queued" }
    BY <1>3, <2>1, <2>2 DEF JobOK, Terminal
  <2>6. QED
    BY <1>2, <1>4, <2>3, <2>4, <2>5, RecoveryJobStep
<1>10. CASE RecoverSave(p)
  <2>1. /\ pool'[p].at = "recover" /\ proc' = proc /\ row' = row /\ debris' = debris
        /\ saved' = [ saved EXCEPT ![j] = row[j].status ] /\ pool[p].at = "save"
    BY <1>1, <1>3, <1>10 DEF RecoverSave, Recovers, Main, Pool, queueVars
  <2>2. \A i \in Jobs : i # j => SameHost(i)
    BY <1>1, <1>4, <2>1 DEF SameHost, TypeOK
  <2>3. saved'[j] = row'[j].status
    BY <1>1, <2>1 DEF TypeOK
  <2>4. j \notin orphaned => proc'[j] # "alive" /\ StoppedAndClean(j)'
    BY <1>3, <1>4, <1>6, <2>1 DEF ProcessOK, StoppedAndClean
  <2>5. row'[j].status \notin { "absent", "queued" }
    BY <1>3, <2>1 DEF Terminal
  <2>6. QED
    BY <1>2, <1>4, <2>2, <2>3, <2>4, <2>5, RecoveryJobStep
<1>11. QED
  BY <1>7, <1>8, <1>9, <1>10

(* After the end of a process or of the machine, no thread works and no    *)
(* recovery; what was being recorded is orphaned or gone.                  *)
LEMMA AllDown ==
  ASSUME HostInvariant, NEW i \in Jobs,
         row' = row, debris' = debris, dirty' = dirty, launched' = launched, saved' = saved,
         proc'[i] \in { proc[i], "unfinished" }, proc[i] = "none" => proc'[i] = "none",
         orphaned \subseteq orphaned',
         \A p \in Pools, t \in Threads :
           /\ thread'[p][t].job # i
           /\ thread[p][t].at = "record" /\ thread[p][t].job = i => i \in orphaned' \/ proc'[i] # "alive",
         \A p \in Pools : pool'[p].at \notin { "clean", "settle" }
  PROVE  JobOK(i)'
<1>1. JobOK(i)
  BY DEF HostInvariant
<1>2. Untouched(i) => Untouched(i)'
  BY DEF Untouched
<1>3. StoppedAndClean(i) => StoppedAndClean(i)'
  BY DEF StoppedAndClean
<1>4. i \notin orphaned' => ProcessOK(i)'
  BY <1>1, <1>3 DEF JobOK, ProcessOK
<1>5. QED
  BY <1>1, <1>2, <1>4 DEF JobOK

LEMMA EndHost ==
  ASSUME PoolInvariant, HostInvariant, NEW p \in Pools, Leave(p) \/ Crash(p) \/ RecoverRaises(p)
  PROVE  HostInvariant'
<1> USE ConstantsDiffer
<1>1. /\ TypeOK /\ Exit(p) /\ row' = row /\ proc' = proc /\ debris' = debris /\ dirty' = dirty
      /\ launched' = launched /\ saved' = saved /\ pool[p].at # "down"
  BY DEF PoolInvariant, Leave, Crash, RecoverRaises, queueVars, hostVars, ghostVars
<1>2. /\ pool'[p].at = "down" /\ \A q \in Pools : q # p => pool'[q] = pool[q]
      /\ \A t \in Threads : thread'[p][t] = Idle
      /\ \A q \in Pools, t \in Threads : q # p => thread'[q][t] = thread[q][t]
  BY <1>1, ExitFields
<1>3. \A q \in Pools : q # p => pool[q].at = "down" /\ \A t \in Threads : thread[q][t].at = "idle" /\ thread[q][t].job = NoJob
  BY <1>1 DEF PoolInvariant, OnePool
<1>4. \A t \in Threads : thread[p][t].at = "record" => thread[p][t].job \in orphaned'
  <2>1. CASE Leave(p)
    BY <2>1 DEF Leave
  <2>2. CASE RecoverRaises(p)
    BY <2>2 DEF RecoverRaises, PoolInvariant, OnePool
  <2>3. CASE Crash(p)
    BY <2>3 DEF Crash, JobOf
  <2>4. QED
    BY <2>1, <2>2, <2>3
<1>5. orphaned \subseteq orphaned'
  BY DEF Leave, Crash, RecoverRaises, ghostVars
<1>6. ASSUME NEW i \in Jobs PROVE JobOK(i)'
  <2>1. \A q \in Pools, t \in Threads :
          /\ thread'[q][t].job # i
          /\ thread[q][t].at = "record" /\ thread[q][t].job = i => i \in orphaned' \/ proc'[i] # "alive"
    BY <1>2, <1>3, <1>4
  <2>2. \A q \in Pools : pool'[q].at \notin { "clean", "settle" }
    BY <1>2, <1>3
  <2>3. QED
    BY <1>1, <1>5, <2>1, <2>2, AllDown
<1>7. QED
  BY <1>6 DEF HostInvariant

LEMMA RebootHost ==
  ASSUME PoolInvariant, HostInvariant, Reboot
  PROVE  HostInvariant'
<1> USE ConstantsDiffer
<1>1. /\ row' = row /\ debris' = debris /\ dirty' = dirty /\ launched' = launched /\ saved' = saved
      /\ orphaned' = orphaned
      /\ \A q \in Pools : pool'[q] = Down /\ \A t \in Threads : thread'[q][t] = Idle
      /\ \A i \in Jobs : proc'[i] = IF proc[i] = "alive" THEN "unfinished" ELSE proc[i]
  BY DEF Reboot, queueVars, ghostVars
<1>2. ASSUME NEW i \in Jobs PROVE JobOK(i)'
  BY <1>1, AllDown
<1>3. QED
  BY <1>2 DEF HostInvariant

LEMMA InitHost == Init => HostInvariant
<1> SUFFICES ASSUME Init, NEW j \in Jobs PROVE JobOK(j)
  BY DEF HostInvariant
<1> USE ConstantsDiffer
<1>1. Untouched(j) /\ StoppedAndClean(j) /\ proc[j] = "none"
  BY DEF Init, Untouched, StoppedAndClean
<1>2. ProcessOK(j)
  BY <1>1 DEF ProcessOK
<1>3. \A p \in Pools, t \in Threads : thread[p][t].job # j
  BY DEF Init
<1>4. launched[j] <= 1 /\ saved[j] \notin Terminal
  BY DEF Init, Terminal
<1>5. QED
  BY <1>1, <1>2, <1>3, <1>4 DEF JobOK

LEMMA NextHost == PoolInvariant /\ HostInvariant /\ [Next]_vars => HostInvariant'
<1> SUFFICES ASSUME PoolInvariant, HostInvariant, [Next]_vars PROVE HostInvariant'
  OBVIOUS
<1>1. ASSUME NEW j \in Jobs, Enqueue(j) \/ Cancel(j) \/ RunWorks(j) \/ RunExits(j) \/ RunHangs(j)
      PROVE  HostInvariant'
  BY <1>1, UserHost, RunHost
<1>2. ASSUME NEW p \in Pools,
             Start(p) \/ RecoverStep(p) \/ RecoverRaises(p) \/ Stop(p) \/ Leave(p) \/ Crash(p)
      PROVE  HostInvariant'
  BY <1>2, MainHost, RecoverJobHost, EndHost DEF RecoverStep
<1>3. ASSUME NEW p \in Pools, NEW t \in Threads, ThreadStep(p, t)
      PROVE  HostInvariant'
  BY <1>3, TakeHost, LaunchHost, RecordHost, InterruptHost, KillHost, ReapHost, CleanHost,
     SettleHost, SaveHost DEF ThreadStep
<1>4. ASSUME NEW p \in Pools, NEW t \in Threads, Raise(p, t) \/ CleanRaises(p, t) \/ ThreadEnds(p, t)
      PROVE  HostInvariant'
  BY <1>4, RaiseHost, CleanRaisesHost, ThreadEndsHost
<1>5. CASE Reboot
  BY <1>5, RebootHost
<1>6. CASE UNCHANGED vars
  <2>1. thread' = thread /\ pool' = pool /\ \A i \in Jobs : SameHost(i)
    BY <1>6 DEF vars, queueVars, poolVars, hostVars, ghostVars, SameHost
  <2>2. ASSUME NEW i \in Jobs PROVE JobOK(i)'
    BY <2>1, OtherJob DEF HostInvariant
  <2>3. QED
    BY <2>2 DEF HostInvariant
<1>7. QED
  BY <1>1, <1>2, <1>3, <1>4, <1>5, <1>6 DEF Next

(* Whatever is killed, and whenever: no attempt is repeated, a settled job *)
(* is clean, a running one is somebody's, and eval.json is true.           *)
THEOREM HostInvariantHolds == Spec => []HostInvariant
<1>1. QED
  BY InitHost, NextHost, PoolInvariantHolds, PTL DEF Spec

(* No job's run.sh is started twice, however often hr-local is killed and  *)
(* started again.                                                          *)
THEOREM AtMostOneAttemptHolds == Spec => []AtMostOneAttempt
<1>1. HostInvariant => AtMostOneAttempt
  BY DEF HostInvariant, JobOK, AtMostOneAttempt
<1>2. QED
  BY <1>1, HostInvariantHolds, PTL

(* What a settled job leaves behind was reported, or could not be known.   *)
THEOREM SettledIsCleanHolds == Spec => []SettledIsClean
<1>1. HostInvariant => SettledIsClean
  BY DEF HostInvariant, JobOK, ProcessOK, StoppedAndClean, SettledIsClean
<1>2. QED
  BY <1>1, HostInvariantHolds, PTL

(* eval.json never shows a result the queue does not.                      *)
THEOREM SavedIsTrueHolds == Spec => []SavedIsTrue
<1>1. HostInvariant => SavedIsTrue
  BY DEF HostInvariant, JobOK, SavedIsTrue
<1>2. QED
  BY <1>1, HostInvariantHolds, PTL

(* A serving pool has exactly one thread on every running row, unless one  *)
(* of its threads has ended.                                               *)
THEOREM RunningIsWorkedOnHolds == Spec => []RunningIsWorkedOn
<1>1. PoolInvariant => RunningIsWorkedOn
  <2> SUFFICES ASSUME PoolInvariant, NEW p \in Pools, pool[p].at = "serve",
                      \A t \in Threads : thread[p][t].at # "ended",
                      NEW j \in Jobs, row[j].status = "running"
               PROVE  Cardinality({ t \in Threads : thread[p][t].job = j }) = 1
    BY DEF RunningIsWorkedOn
  <2>1. PICK t \in Threads : thread[p][t].job = j
    BY DEF PoolInvariant, RunningIsHeld
  <2>2. \A u \in Threads : thread[p][u].job = j => u = t
    BY <2>1, ConstantsDiffer DEF PoolInvariant, ThreadsWork
  <2>3. { u \in Threads : thread[p][u].job = j } = {t}
    BY <2>1, <2>2
  <2>4. QED
    BY <2>3, FS_Singleton
<1>2. QED
  BY <1>1, PoolInvariantHolds, PTL

-----------------------------------------------------------------------------
(* What a step may do to the rows' verdicts.                               *)

Same(i) == row'[i].status = row[i].status /\ (row'[i].cancelled <=> row[i].cancelled)

Starts(j) ==
  /\ row[j].status = "queued" /\ ~Busy(OwnerOf[j])
  /\ row'[j].status = "running" /\ (row'[j].cancelled <=> row[j].cancelled)

Ends(j) ==
  /\ row[j].status = "running" /\ (row'[j].cancelled <=> row[j].cancelled)
  /\ row[j].cancelled => row'[j].status = "cancelled"
  /\ ~row[j].cancelled => row'[j].status \in { "done", "failed" }

LEMMA SettlingEnds ==
  ASSUME TypeOK, NEW j \in Jobs, row[j].status = "running", NEW pid \in BOOLEAN,
         NEW status \in { "done", "failed" }, Update(j, status, pid)
  PROVE  Ends(j) /\ \A i \in Jobs : i # j => Same(i)
<1>1. /\ row'[j].status = IF row[j].cancelled /\ status \in Terminal THEN "cancelled" ELSE status
      /\ row'[j].cancelled <=> row[j].cancelled
      /\ \A i \in Jobs : i # j => row'[i] = row[i]
  BY UpdateFields
<1>2. status \in Terminal
  BY DEF Terminal
<1>3. QED
  BY <1>1, <1>2 DEF Ends, Same

LEMMA RowSteps ==
  ASSUME PoolInvariant, [Next]_vars
  PROVE  \/ \A i \in Jobs : Same(i)
         \/ \E j \in Jobs : Enqueue(j) \/ Cancel(j)
         \/ \E j \in Jobs : (Starts(j) \/ Ends(j)) /\ \A i \in Jobs : i # j => Same(i)
<1> DEFINE Goal == \/ \A i \in Jobs : Same(i)
                   \/ \E j \in Jobs : Enqueue(j) \/ Cancel(j)
                   \/ \E j \in Jobs : (Starts(j) \/ Ends(j)) /\ \A i \in Jobs : i # j => Same(i)
<1>0. TypeOK
  BY DEF PoolInvariant
<1>1. row' = row => Goal
  BY DEF Same
<1>2. ASSUME NEW p \in Pools, NEW t \in Threads, Take(p, t) PROVE Goal
  <2>1. PICK j \in Jobs : Oldest(Eligible, j) /\ Update(j, "running", FALSE)
    BY <1>2 DEF Take
  <2>2. row[j].status = "queued" /\ ~Busy(OwnerOf[j])
    BY <2>1 DEF Oldest, Eligible, Having
  <2>3. /\ row'[j].status = "running" /\ (row'[j].cancelled <=> row[j].cancelled)
        /\ \A i \in Jobs : i # j => row'[i] = row[i]
    BY <1>0, <2>1, UpdateFields DEF Terminal
  <2>4. QED
    BY <2>2, <2>3 DEF Starts, Same
<1>3. ASSUME NEW p \in Pools, NEW t \in Threads, Record(p, t) PROVE Goal
  <2>1. thread[p][t].at = "record"
    BY <1>3 DEF Record, Moves
  <2>2. PICK j \in Jobs : row[j].status = "running" /\ Update(j, "running", TRUE)
    BY <1>3, <2>1, WorkingThread DEF Record, Working
  <2>3. /\ row'[j].status = "running" /\ (row'[j].cancelled <=> row[j].cancelled)
        /\ \A i \in Jobs : i # j => row'[i] = row[i]
    BY <1>0, <2>2, UpdateFields DEF Terminal
  <2>4. QED
    BY <2>2, <2>3 DEF Same
<1>4. ASSUME NEW p \in Pools, NEW t \in Threads, Settle(p, t) PROVE Goal
  <2>1. thread[p][t].at = "settle" /\ Result(p, t) \in { "done", "failed" }
    BY <1>4 DEF Settle, Moves, Result
  <2>2. PICK j \in Jobs : row[j].status = "running" /\ Update(j, Result(p, t), FALSE)
    BY <1>4, <2>1, WorkingThread DEF Settle, Working
  <2>3. PICK status \in { "done", "failed" } : Update(j, status, FALSE)
    BY <2>1, <2>2
  <2>4. QED
    BY <1>0, <2>2, <2>3, SettlingEnds
<1>5. ASSUME NEW p \in Pools, RecoverSettle(p) PROVE Goal
  <2>1. pool[p].at = "settle" /\ Update(pool[p].job, "failed", FALSE)
    BY <1>5 DEF RecoverSettle, Recovers
  <2>2. PICK j \in Jobs : row[j].status = "running" /\ Update(j, "failed", FALSE)
    BY <2>1 DEF PoolInvariant, RecoveryWorks
  <2>3. QED
    BY <1>0, <2>2, SettlingEnds
<1>6. ASSUME UNCHANGED vars PROVE Goal
  BY <1>1, <1>6 DEF vars, queueVars
<1>7. ASSUME Reboot PROVE Goal
  BY <1>1, <1>7 DEF Reboot, queueVars
<1>8. ASSUME NEW j \in Jobs, Enqueue(j) \/ Cancel(j) \/ RunWorks(j) \/ RunExits(j) \/ RunHangs(j)
      PROVE  Goal
  BY <1>1, <1>8 DEF RunWorks, RunExits, RunHangs, queueVars
<1>9. ASSUME NEW p \in Pools,
             Start(p) \/ RecoverNext(p) \/ RecoverStop(p) \/ RecoverClean(p) \/ RecoverSave(p)
             \/ RecoverRaises(p) \/ Stop(p) \/ Leave(p) \/ Crash(p)
      PROVE  Goal
  BY <1>1, <1>9 DEF Start, RecoverNext, RecoverStop, RecoverClean, RecoverSave, RecoverRaises,
                    Stop, Leave, Crash, queueVars
<1>10. ASSUME NEW p \in Pools, NEW t \in Threads,
              Launch(p, t) \/ Interrupt(p, t) \/ Kill(p, t) \/ Reap(p, t) \/ Clean(p, t) \/ Save(p, t)
              \/ Raise(p, t) \/ CleanRaises(p, t) \/ ThreadEnds(p, t)
       PROVE  Goal
  BY <1>1, <1>10 DEF Launch, Interrupt, Kill, Reap, Clean, Save, Raise, CleanRaises, ThreadEnds, queueVars
<1> HIDE DEF Goal
<1>11. Goal
  BY <1>2, <1>3, <1>4, <1>5, <1>6, <1>7, <1>8, <1>9, <1>10 DEF Next, RecoverStep, ThreadStep
<1>12. QED
  BY <1>11 DEF Goal

LEMMA RunningFinite ==
  ASSUME NEW o \in Owners
  PROVE  IsFiniteSet(RunningOf(o)) /\ Cardinality(RunningOf(o)) \in Nat
<1>1. RunningOf(o) \in SUBSET Jobs
  BY DEF RunningOf, OfOwner
<1>2. IsFiniteSet(RunningOf(o))
  BY <1>1, LocalPoolAssumption, FS_Subset
<1>3. QED
  BY <1>2, FS_CardinalityType

LEMMA RunningStep == PoolInvariant /\ RunningBound /\ [Next]_vars => RunningBound'
<1> SUFFICES ASSUME PoolInvariant, RunningBound, [Next]_vars, NEW o \in Owners
             PROVE  Cardinality(RunningOf(o)') <= PerUser
  BY DEF RunningBound
<1>1. /\ IsFiniteSet(RunningOf(o)) /\ Cardinality(RunningOf(o)) \in Nat
      /\ Cardinality(RunningOf(o)) <= PerUser /\ PerUser \in Nat
  BY RunningFinite, LocalPoolAssumption DEF RunningBound
<1>2. CASE RunningOf(o)' \subseteq RunningOf(o)
  <2>1. IsFiniteSet(RunningOf(o)') /\ Cardinality(RunningOf(o)') <= Cardinality(RunningOf(o))
    BY <1>1, <1>2, FS_Subset
  <2>2. Cardinality(RunningOf(o)') \in Nat
    BY <2>1, FS_CardinalityType
  <2>3. QED
    BY <1>1, <2>1, <2>2
<1>3. ASSUME NEW j \in Jobs, Starts(j), \A i \in Jobs : i # j => Same(i)
      PROVE  Cardinality(RunningOf(o)') <= PerUser
  <2>1. CASE OwnerOf[j] # o
    <3>1. RunningOf(o)' \subseteq RunningOf(o)
      BY <1>3, <2>1 DEF RunningOf, OfOwner, Same
    <3>2. QED
      BY <1>2, <3>1
  <2>2. CASE OwnerOf[j] = o
    <3>1. RunningOf(o)' = RunningOf(o) \cup {j} /\ j \notin RunningOf(o)
      BY <1>3, <2>2 DEF RunningOf, OfOwner, Same, Starts
    <3>2. OfOwner(o) \cap Having({"running"}) = RunningOf(o)
      BY DEF OfOwner, Having, RunningOf
    <3>3. Cardinality(RunningOf(o)) < PerUser
      BY <1>1, <1>3, <2>2, <3>2 DEF Starts, Busy
    <3>4. Cardinality(RunningOf(o)') = Cardinality(RunningOf(o)) + 1
      BY <1>1, <3>1, FS_AddElement
    <3>5. QED
      BY <1>1, <3>3, <3>4
  <2>3. QED
    BY <2>1, <2>2
<1>4. ASSUME NEW j \in Jobs, Ends(j), \A i \in Jobs : i # j => Same(i)
      PROVE  RunningOf(o)' \subseteq RunningOf(o)
  BY <1>4 DEF RunningOf, OfOwner, Same, Ends
<1>5. ASSUME NEW j \in Jobs, Enqueue(j) \/ Cancel(j)
      PROVE  RunningOf(o)' \subseteq RunningOf(o)
  <2>1. CASE Enqueue(j)
    BY <2>1 DEF Enqueue, RunningOf, OfOwner, PoolInvariant, TypeOK, Row
  <2>2. CASE Cancel(j)
    <3>1. TypeOK
      BY DEF PoolInvariant
    <3>2. /\ row[j].status \in { "queued", "running" }
          /\ row'[j].status = IF row[j].status = "queued" THEN "cancelled" ELSE "running"
          /\ \A i \in Jobs : i # j => row'[i] = row[i]
      BY <2>2, <3>1, CancelFields
    <3>3. QED
      BY <3>2 DEF RunningOf, OfOwner
  <2>3. QED
    BY <1>5, <2>1, <2>2
<1>6. CASE \A i \in Jobs : Same(i)
  BY <1>2, <1>6 DEF RunningOf, OfOwner, Same
<1>7. QED
  BY <1>2, <1>3, <1>4, <1>5, <1>6, RowSteps

(* A user's live run.sh processes never exceed --per-user: the count       *)
(* claim() takes is of rows, and every process that recovery can know of   *)
(* has a running row.                                                      *)
THEOREM OneRunPerUserHolds == Spec => []OneRunPerUser
<1>1. Init => RunningBound
  <2> SUFFICES ASSUME Init, NEW o \in Owners PROVE Cardinality(RunningOf(o)) <= PerUser
    BY DEF RunningBound
  <2>1. RunningOf(o) = {}
    BY DEF Init, RunningOf, OfOwner
  <2>2. QED
    BY <2>1, FS_EmptySet, LocalPoolAssumption
<1>2. RunningBound /\ HostInvariant => OneRunPerUser
  <2> SUFFICES ASSUME RunningBound, HostInvariant, NEW o \in Owners
               PROVE  Cardinality({ j \in Jobs \ orphaned : OwnerOf[j] = o /\ proc[j] = "alive" }) <= PerUser
    BY DEF OneRunPerUser
  <2> DEFINE live == { j \in Jobs \ orphaned : OwnerOf[j] = o /\ proc[j] = "alive" }
  <2>1. live \in SUBSET RunningOf(o)
    BY DEF HostInvariant, JobOK, ProcessOK, RunningOf, OfOwner
  <2> HIDE DEF live
  <2>2. /\ IsFiniteSet(live) /\ Cardinality(live) <= Cardinality(RunningOf(o))
        /\ Cardinality(RunningOf(o)) \in Nat
    BY <2>1, RunningFinite, FS_Subset
  <2>3. Cardinality(live) \in Nat /\ Cardinality(RunningOf(o)) <= PerUser
    BY <2>2, FS_CardinalityType DEF RunningBound
  <2>4. Cardinality(live) <= PerUser
    BY <2>2, <2>3, LocalPoolAssumption
  <2>5. QED
    BY <2>4 DEF live
<1>3. QED
  BY <1>1, <1>2, RunningStep, PoolInvariantHolds, HostInvariantHolds, PTL DEF Spec

-----------------------------------------------------------------------------
(* The local queue keeps the promise.                                      *)

Statuses == [ j \in Jobs |-> row[j].status ]
Flagged  == { j \in Jobs : row[j].cancelled }
Charged  == { j \in Jobs : DailyCap > 0 /\ row[j].status \notin { "absent", "cancelled" } }

LEMMA OwnStep ==
  ASSUME PoolInvariant, NEW j \in Jobs, Starts(j) \/ Ends(j), \A i \in Jobs : i # j => Same(i)
  PROVE  Lifecycle!LifecycleNext
<1>1. Statuses' = [ Statuses EXCEPT ![j] = row'[j].status ] /\ Flagged' = Flagged
  BY DEF Statuses, Flagged, Same, Starts, Ends
<1>2. CASE Starts(j)
  <2>1. Charged' = Charged
    BY <1>2 DEF Charged, Same, Starts
  <2>2. Lifecycle!Start(j)
    BY <1>1, <1>2, <2>1 DEF Lifecycle!Start, Statuses, Flagged, Charged, Starts
  <2>3. QED
    BY <2>2 DEF Lifecycle!LifecycleNext
<1>3. CASE Ends(j) /\ ~row[j].cancelled
  <2>1. Charged' = Charged
    BY <1>3 DEF Charged, Same, Ends
  <2>2. PICK result \in { "done", "failed" } : Statuses' = [ Statuses EXCEPT ![j] = result ]
    BY <1>1, <1>3 DEF Ends
  <2>3. Lifecycle!Finish(j)
    BY <1>1, <1>3, <2>1, <2>2 DEF Lifecycle!Finish, Statuses, Flagged, Charged, Ends
  <2>4. QED
    BY <2>3 DEF Lifecycle!LifecycleNext
<1>4. CASE Ends(j) /\ row[j].cancelled
  <2>1. Charged' = Charged \ {j}
    BY <1>4 DEF Charged, Same, Ends
  <2>2. Lifecycle!FinishCancelled(j)
    BY <1>1, <1>4, <2>1 DEF Lifecycle!FinishCancelled, Statuses, Flagged, Charged, Ends
  <2>3. QED
    BY <2>2 DEF Lifecycle!LifecycleNext
<1>5. QED
  BY <1>2, <1>3, <1>4

LEMMA EnqueueRefines ==
  ASSUME PoolInvariant, NEW j \in Jobs, Enqueue(j)
  PROVE  Lifecycle!LifecycleNext
<1>1. /\ row[j].status = "absent" /\ row'[j].status = "queued"
      /\ row'[j].cancelled <=> row[j].cancelled
      /\ \A i \in Jobs : i # j => row'[i] = row[i]
      /\ DailyCap > 0 => Cardinality(Counted(OwnerOf[j])) < DailyCap
  BY DEF Enqueue, PoolInvariant, TypeOK, Row
<1>2. Statuses' = [ Statuses EXCEPT ![j] = "queued" ] /\ Flagged' = Flagged
  BY <1>1 DEF Statuses, Flagged
<1>3. Charged' = IF DailyCap > 0 THEN Charged \cup {j} ELSE Charged
  BY <1>1 DEF Charged
<1>4. DailyCap > 0 => Lifecycle!Cardinality(Lifecycle!Holders(OwnerOf[j])) < DailyCap
  <2>1. \A S : Lifecycle!Cardinality(S) = Cardinality(S)
    BY DEF Cardinality, Lifecycle!Cardinality
  <2>2. DailyCap > 0 => Lifecycle!Holders(OwnerOf[j]) = Counted(OwnerOf[j])
    BY DEF Lifecycle!Holders, Counted, OfOwner, Having, PoolInvariant, TypeOK, Row, Terminal
  <2>3. QED
    BY <1>1, <2>1, <2>2
<1>5. Lifecycle!Submit(j)
  BY <1>1, <1>2, <1>3, <1>4 DEF Lifecycle!Submit, Statuses, Flagged, Charged
<1>6. QED
  BY <1>5 DEF Lifecycle!LifecycleNext

LEMMA CancelRefines ==
  ASSUME PoolInvariant, NEW j \in Jobs, Cancel(j)
  PROVE  Lifecycle!LifecycleNext
<1>1. TypeOK
  BY DEF PoolInvariant
<1>2. /\ row[j].status \in { "queued", "running" }
      /\ row'[j].status = IF row[j].status = "queued" THEN "cancelled" ELSE "running"
      /\ row'[j].cancelled
      /\ \A i \in Jobs : i # j => row'[i] = row[i]
  BY <1>1, CancelFields
<1>3. /\ Statuses' = [ Statuses EXCEPT ![j] = row'[j].status ]
      /\ Flagged' = Flagged \cup {j}
  BY <1>2 DEF Statuses, Flagged
<1>4. CASE row[j].status = "queued"
  <2>1. Charged' = Charged \ {j}
    BY <1>2, <1>4 DEF Charged
  <2>2. Lifecycle!CancelQueued(j)
    BY <1>2, <1>3, <1>4, <2>1 DEF Lifecycle!CancelQueued, Statuses, Flagged, Charged
  <2>3. QED
    BY <2>2 DEF Lifecycle!LifecycleNext
<1>5. CASE row[j].status = "running"
  <2>1. Charged' = Charged /\ Statuses' = Statuses
    BY <1>2, <1>5 DEF Charged, Statuses
  <2>2. Lifecycle!CancelRunning(j)
    BY <1>3, <1>5, <2>1 DEF Lifecycle!CancelRunning, Statuses, Flagged, Charged
  <2>3. QED
    BY <2>2 DEF Lifecycle!LifecycleNext
<1>6. QED
  BY <1>2, <1>4, <1>5

(* Threads, pools, kills, recovery and SQLite are an implementation of the *)
(* plain life cycle of a job: the promise the cloud queue keeps.           *)
THEOREM LifecycleRefinement == Spec => LifecycleSpec
<1>1. Init => Lifecycle!LifecycleInit
  BY DEF Init, Lifecycle!LifecycleInit
<1>2. PoolInvariant /\ [Next]_vars => [Lifecycle!LifecycleNext]_(Lifecycle!lifecycleVars)
  <2> SUFFICES ASSUME PoolInvariant, [Next]_vars
               PROVE  [Lifecycle!LifecycleNext]_(Lifecycle!lifecycleVars)
    OBVIOUS
  <2>1. CASE \A i \in Jobs : Same(i)
    BY <2>1 DEF Lifecycle!lifecycleVars, Same
  <2>2. QED
    BY <2>1, RowSteps, OwnStep, EnqueueRefines, CancelRefines
<1>3. QED
  BY <1>1, <1>2, PoolInvariantHolds, PTL DEF Spec, LifecycleSpec, Lifecycle!LifecycleSpec

(* The local pool is safe in every state (hr-local, localqueue.py): all    *)
(* the invariants of the run localpool_safety, for any limits and faults.  *)
THEOREM PoolSafetyHolds == Spec => []PoolSafety
BY TypeOKHolds, AtMostOneAttemptHolds, OneRunPerUserHolds, SettledIsCleanHolds,
   RunningIsWorkedOnHolds, SavedIsTrueHolds, PTL DEF PoolSafety

=============================================================================
