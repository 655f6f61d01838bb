----------------------------- MODULE CloudJobs -----------------------------
(***************************************************************************)
(* lib/cloudqueue.py: the authoritative job state in DynamoDB.             *)
(*                                                                         *)
(* Any number of processes - API requests, workers and their watcher       *)
(* threads, the capacity controller, the migration script - read a job     *)
(* row, decide, and write it back in one conditional transaction that also *)
(* writes the owner's copy, the scheduling index and the daily counter.    *)
(* The read and the write are separate steps here, as they are there, so   *)
(* every interleaving of two callers between them is explored.             *)
(*                                                                         *)
(* A call of a process is one record: what it was asked to do and the row  *)
(* it last read (old), which its transaction compares with.                *)
(* DynamoDB may cancel any transaction (contention), and a caller may die  *)
(* or lose the answer of a transaction that did commit.                    *)
(***************************************************************************)
EXTENDS JobRows, FiniteSets

CONSTANTS
  Jobs,         (* evaluation ids                                           *)
  Legacy,       (* the ids that come from the old queue: enqueued with cap  *)
                (* 0, possibly by several migrating processes at once       *)
  Slots,        (* (owner, day) pairs: one DAY# counter each                *)
  SlotOf,       (* the slot of a job: its owner and the date in its id      *)
  Clients,      (* the processes that call cloudqueue                       *)
  NoCall,       (* the process is not inside a call                         *)
  DailyCap,     (* HR_DAILY_CAP; 0 switches the limit off                   *)
  LeaseTime,    (* the 900 seconds a claim or a renewal lasts               *)
  MaxAttempts,  (* 12: compare-and-swap attempts before giving up           *)
  MaxTime,      (* bound: the clock stops here                              *)
  MaxRevision   (* bound: no row is written more often than this            *)

ASSUME CloudJobsAssumption ==
  /\ Legacy \subseteq Jobs
  /\ SlotOf \in [ Jobs -> Slots ]
  /\ IsFiniteSet(Jobs)
  /\ DailyCap \in Nat
  /\ LeaseTime \in Nat
  /\ MaxAttempts \in Nat \ {0}
  /\ MaxTime \in Nat
  /\ MaxRevision \in Nat

Operations == { "enqueue", "claim", "renew", "finish", "expire", "abandon",
                "cancel", "touch" }

Call == [ op      : Operations,
          job     : Jobs,
          token   : Tokens \cup {NoToken},
          lease   : Nat,
          result  : {"done", "failed"},
          old     : Row,
          attempt : 1 .. MaxAttempts ]

ASSUME NoCallAssumption == NoCall \notin Call

VARIABLES
  row,        (* row[j]: item JOB#j / META                                  *)
  copy,       (* copy[j]: item JOBS#owner / EVAL#j, the owner's list        *)
  index,      (* index[j]: item JOBS#ACTIVE / j                             *)
  used,       (* used[s]: the DAY# counter of slot s                        *)
  now,        (* time.time()                                                *)
  granted,    (* the <<job, token>> pairs some claim() call returned        *)
  call        (* call[p]: the call process p is in, or NoCall               *)

vars == << row, copy, index, used, now, granted, call >>
store == << row, copy, index, used >>

Init ==
  /\ row     = [ j \in Jobs |-> NoRow ]
  /\ copy    = [ j \in Jobs |-> NoRow ]
  /\ index   = [ j \in Jobs |-> NoEntry ]
  /\ used    = [ s \in Slots |-> 0 ]
  /\ now     = 0
  /\ granted = {}
  /\ call    = [ p \in Clients |-> NoCall ]

-----------------------------------------------------------------------------
(* The first half of update(): read the row, check `expected` or the claim *)
(* token, and keep what was read.  A call whose check fails returns there  *)
(* and then and writes nothing.                                            *)

Accepted(c, r) ==
  CASE c.op = "claim"               -> Claimable(r)
    [] c.op \in {"renew", "finish"} -> Fenced(r, c.token)
    [] c.op = "expire"              -> Lapsed(r, now)
    [] c.op = "abandon"             -> r.status = "queued"
    [] c.op = "cancel"              -> Cancellable(r)
    [] OTHER                        -> r.status # "absent"

Request(op, j, t, until, result) ==
  [ op |-> op, job |-> j, token |-> t, lease |-> until, result |-> result,
    old |-> row[j], attempt |-> 1 ]

Begin(p, c) ==
  /\ call[p] = NoCall
  /\ call' = [ call EXCEPT ![p] = c ]
  /\ UNCHANGED << store, now, granted >>

Update(p, c) == Accepted(c, row[c.job]) /\ Begin(p, c)

(* uuid4 never repeats: not a token somebody may still use.                *)
Fresh(t) ==
  /\ \A j \in Jobs : row[j].claim # t /\ << j, t >> \notin granted
  /\ \A q \in Clients : call[q] # NoCall => call[q].token # t

(* The lease is fixed here, before the first attempt, and not recomputed.  *)
Claim(p, j) ==
  \E t \in Tokens :
    Fresh(t) /\ Update(p, Request("claim", j, t, now + LeaseTime, "failed"))

(* A worker whose claim was answered: its watcher renews, its main thread  *)
(* settles the job, and both may be inside a call at the same time.        *)
Renew(p, j) ==
  \E t \in Tokens :
    /\ << j, t >> \in granted
    /\ Update(p, Request("renew", j, t, now + LeaseTime, "failed"))

Finish(p, j) ==
  \E t \in Tokens, result \in {"done", "failed"} :
    /\ << j, t >> \in granted
    /\ Update(p, Request("finish", j, t, 0, result))

(* The capacity controller, or a worker that was handed the message again. *)
Expire(p, j) == Update(p, Request("expire", j, NoToken, 0, "failed"))

(* The API request whose message could not be sent gives the job up.       *)
AbandonUnsent(p, j) ==
  j \notin Legacy /\ Update(p, Request("abandon", j, NoToken, 0, "failed"))

Cancel(p, j) == Update(p, Request("cancel", j, NoToken, 0, "failed"))

(* The migration script's update(eid, {}), which only rewrites the index.  *)
Touch(p, j) == Update(p, Request("touch", j, NoToken, 0, "failed"))

-----------------------------------------------------------------------------
(* The second half: one conditional transaction, tried again from a new    *)
(* read when DynamoDB cancels it.                                          *)

(* {**old, **changes} *)
Changed(c) ==
  CASE c.op = "claim"  -> [ c.old EXCEPT !.status = "running", !.claim = c.token,
                                         !.lease = c.lease ]
    [] c.op = "renew"  -> [ c.old EXCEPT !.lease = c.lease ]
    [] c.op = "cancel" -> [ c.old EXCEPT !.cancelled = TRUE ]
    [] c.op \in {"finish", "expire", "abandon"}
                       -> [ c.old EXCEPT !.status = c.result ]
    [] OTHER           -> c.old

Written(c) == Settle(c.old, Changed(c))

(* Both copies of the row and its index entry, in one transaction.         *)
Put(j, ev) ==
  /\ row'   = [ row   EXCEPT ![j] = ev ]
  /\ copy'  = [ copy  EXCEPT ![j] = ev ]
  /\ index' = [ index EXCEPT ![j] = Entry(ev) ]

(* The transaction's condition: nobody wrote the row since it was read.    *)
Unchanged_Blind(c) == row[c.job].status # "absent"
Unchanged(c) == row[c.job].revision = c.old.revision

(* claim() returns the row when it carries this call's token; the answer   *)
(* may be lost after the transaction committed.                            *)
Commit(p) ==
  LET c  == call[p]
      ev == Written(c)
      s  == SlotOf[c.job]
  IN  /\ c # NoCall
      /\ c.op # "enqueue"
      /\ Unchanged(c)
      /\ c.old.revision < MaxRevision
      /\ Put(c.job, ev)
      /\ used' = [ used EXCEPT ![s] = IF Refunds(c.old, ev) THEN @ - 1 ELSE @ ]
      /\ \/ UNCHANGED granted
         \/ /\ c.op = "claim"
            /\ granted' = granted \cup { << c.job, c.token >> }
      /\ call' = [ call EXCEPT ![p] = NoCall ]
      /\ UNCHANGED now

Reject(p) ==
  LET c == call[p]
  IN  /\ c # NoCall
      /\ c.op # "enqueue"
      /\ call' = [ call EXCEPT ![p] =
                     IF c.attempt < MaxAttempts /\ Accepted(c, row[c.job])
                     THEN [ c EXCEPT !.old = row[c.job], !.attempt = @ + 1 ]
                     ELSE NoCall ]
      /\ UNCHANGED << store, now, granted >>

-----------------------------------------------------------------------------
(* enqueue(): one transaction that inserts the rows and takes the slot.    *)

Counted(j) == j \notin Legacy /\ DailyCap > 0

(* Ids are random, so only a legacy id can be submitted by two callers.    *)
Enqueue(p, j) ==
  /\ j \in Legacy \/ ( /\ row[j] = NoRow
                       /\ \A q \in Clients : call[q] # NoCall =>
                            ~(call[q].op = "enqueue" /\ call[q].job = j) )
  /\ Begin(p, [ Request("enqueue", j, NoToken, 0, "failed") EXCEPT !.old = NoRow ])

HasRoom_OffByOne(j) == Counted(j) => used[SlotOf[j]] <= DailyCap
HasRoom(j) == Counted(j) => used[SlotOf[j]] < DailyCap

EnqueueCommit(p) ==
  LET c == call[p]
      j == c.job
  IN  /\ c # NoCall
      /\ c.op = "enqueue"
      /\ row[j].status = "absent"
      /\ copy[j].status = "absent"
      /\ HasRoom(j)
      /\ Put(j, Submitted(Counted(j)))
      /\ used' = [ used EXCEPT ![SlotOf[j]] = IF Counted(j) THEN @ + 1 ELSE @ ]
      /\ call' = [ call EXCEPT ![p] = NoCall ]
      /\ UNCHANGED << now, granted >>

(* Limit when the counter is full now, the transaction's own error when    *)
(* the row exists, and otherwise another attempt.                          *)
EnqueueReject(p) ==
  LET c == call[p]
  IN  /\ c # NoCall
      /\ c.op = "enqueue"
      /\ call' = [ call EXCEPT ![p] =
                     IF /\ HasRoom(c.job)
                        /\ row[c.job].status = "absent"
                        /\ c.attempt < MaxAttempts
                     THEN [ c EXCEPT !.attempt = @ + 1 ]
                     ELSE NoCall ]
      /\ UNCHANGED << store, now, granted >>

-----------------------------------------------------------------------------

(* The caller dies, or an error other than a cancelled transaction ends    *)
(* the call before its transaction committed.                              *)
Fail(p) ==
  /\ call[p] # NoCall
  /\ call' = [ call EXCEPT ![p] = NoCall ]
  /\ UNCHANGED << store, now, granted >>

Tick ==
  /\ now < MaxTime
  /\ now' = now + 1
  /\ UNCHANGED << store, granted, call >>

Next ==
  \/ Tick
  \/ \E p \in Clients :
       \/ Commit(p) \/ Reject(p)
       \/ EnqueueCommit(p) \/ EnqueueReject(p)
       \/ Fail(p)
       \/ \E j \in Jobs :
            \/ Enqueue(p, j) \/ Claim(p, j) \/ Renew(p, j) \/ Finish(p, j)
            \/ Expire(p, j) \/ AbandonUnsent(p, j) \/ Cancel(p, j) \/ Touch(p, j)

Spec == Init /\ [][Next]_vars

-----------------------------------------------------------------------------
(* Properties.                                                             *)

ShapeOK ==
  /\ row     \in [ Jobs -> Row ]
  /\ copy    \in [ Jobs -> Row ]
  /\ index   \in [ Jobs -> [ status : Live \cup {"absent"}, lease : Nat ] ]
  /\ used    \in [ Slots -> Int ]
  /\ now     \in Nat
  /\ granted \subseteq Jobs \X Tokens
  /\ call    \in [ Clients -> Call \cup {NoCall} ]

(* The counter is never refunded below zero, which takes more than its     *)
(* type: no job is refunded twice.                                         *)
TypeOK == ShapeOK /\ used \in [ Slots -> Nat ]

(* A process about to write a job.                                         *)
Writing(p, j) == /\ call[p] # NoCall
                 /\ call[p].op # "enqueue"
                 /\ call[p].job = j

(* The compare-and-swap of update() means what it should: a row that still *)
(* has the revision a writer read is the very row it read, so whatever the *)
(* writer checked then is true of the row it replaces.                     *)
SnapshotCoherent ==
  \A p \in Clients, j \in Jobs : Writing(p, j) =>
    /\ call[p].old.revision \in 1 .. row[j].revision
    /\ call[p].old.revision = row[j].revision => call[p].old = row[j]

(* Nothing has been claimed before it was queued, a flagged row is running *)
(* or cancelled, and an absent row is blank.                               *)
RowsSane ==
  \A j \in Jobs :
    /\ row[j].status = "absent" => row[j] = NoRow
    /\ row[j].status # "absent" => row[j].revision > 0
    /\ row[j].status = "queued" => row[j].claim = NoToken
    /\ row[j].status = "running" => row[j].claim # NoToken
    /\ row[j].cancelled => row[j].status \in {"running", "cancelled"}
    /\ row[j].status = "cancelled" => row[j].cancelled
    /\ row[j].counted => j \notin Legacy /\ DailyCap > 0

(* What a writer checked on the row it read, it may still rely on: the     *)
(* claim token of a renewal or a result was granted to it, and a lease     *)
(* that had lapsed stays lapsed.                                           *)
CallsChecked ==
  \A p \in Clients : \A j \in Jobs : Writing(p, j) =>
    /\ Accepted(call[p], call[p].old)
    /\ call[p].op = "claim" => call[p].token \in Tokens
    /\ call[p].op \in {"renew", "finish"} => << j, call[p].token >> \in granted
    /\ call[p].op \in {"expire", "abandon"} => call[p].result = "failed"

(* "Owner lists and the active scheduling index update in the same         *)
(* transaction; terminal jobs leave that index" (CLOUD.md): what the       *)
(* controller and the job list read is never out of step with the row.     *)
ViewsAgree ==
  \A j \in Jobs :
    /\ copy[j] = row[j]
    /\ index[j].status = (IF row[j].status \in Live THEN row[j].status ELSE "absent")
    /\ index[j].status # "absent" => index[j].lease = row[j].lease

(* The jobs that hold a place in slot s: counted on entry, not cancelled.  *)
Charged == { j \in Jobs : row[j].counted /\ row[j].status # "cancelled" }
ChargedIn(s) == { j \in Charged : SlotOf[j] = s }

(* "Daily submission limits are atomic across Lambda requests. Cancelled   *)
(* jobs return their daily slot" (CLOUD.md): the DAY# counter is always    *)
(* the number of jobs that hold a place, neither lost nor refunded twice   *)
(* whichever of cancel, expire and finish settles a cancelled job, and it  *)
(* never exceeds the cap.                                                  *)
QuotaExact ==
  \A s \in Slots :
    /\ used[s] = Cardinality(ChargedIn(s))
    /\ used[s] <= DailyCap

(* "A DynamoDB transaction claims a job exactly once" (CLOUD.md): a claim  *)
(* that was answered is the claim the row carries for ever after, so no    *)
(* two workers ever hold the same job.                                     *)
OneClaim ==
  \A j \in Jobs, t \in Tokens : << j, t >> \in granted =>
    /\ row[j].claim = t
    /\ row[j].status \notin {"absent", "queued"}

(* The inductive invariant behind the theorems of CloudJobsProofs.  A lost *)
(* answer, a death or an exhausted retry between the two halves of a call  *)
(* leaves nothing behind that contradicts it.                              *)
JobsInvariant ==
  /\ ShapeOK
  /\ SnapshotCoherent
  /\ RowsSane
  /\ CallsChecked
  /\ ViewsAgree
  /\ OneClaim

(* A job that has been claimed is never queued again and never changes     *)
(* hands, which is why a paid attempt is not repeated.                     *)
NeverReclaimed ==
  [][ \A j \in Jobs : row[j].claim # NoToken =>
        /\ row'[j].claim = row[j].claim
        /\ row'[j].status # "queued" ]_vars

(* "Cancellation always wins" (update's docstring): once a job carries the *)
(* flag it keeps it, and it can only be still running or cancelled - no    *)
(* late result and no expiry turns it into done or failed.                 *)
CancellationWins ==
  [][ \A j \in Jobs : row[j].cancelled =>
        /\ row'[j].cancelled
        /\ row'[j].status \in {"running", "cancelled"} ]_vars

(* A running job whose current lease has not run out is only ever settled  *)
(* by a worker that holds its claim: an expiry decided on an older lease   *)
(* loses to the renewal that extended it.                                  *)
LeaseRespected ==
  [][ \A j \in Jobs :
        (/\ row[j].status = "running"
         /\ row[j].lease >= now
         /\ row'[j].status # "running")
        => \E p \in Clients : /\ Writing(p, j)
                              /\ call[p].op = "finish"
                              /\ << j, call[p].token >> \in granted ]_vars

(* The queue implements the life cycle of JobLifecycle: the counter is     *)
(* forgotten, the places are read off the rows.                            *)
Lifecycle == INSTANCE JobLifecycle WITH
  state   <- [ j \in Jobs |-> row[j].status ],
  wanted  <- { j \in Jobs : row[j].cancelled },
  charged <- Charged

LifecycleSpec == Lifecycle!LifecycleSpec
=============================================================================
