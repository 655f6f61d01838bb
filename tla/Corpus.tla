-------------------------------- MODULE Corpus ------------------------------
(***************************************************************************)
(* lib/validate_corpus.py run: one controller process validates tasks on a *)
(* pool of threads (the reference must score 1, an empty submission 0),    *)
(* appends each verdict to validation-results.jsonl and publishes the      *)
(* passes to the local catalog and table.  It can be stopped and run again.*)
(***************************************************************************)
EXTENDS Naturals, Sequences, FiniteSets, SequencesExt

CONSTANTS
  Tasks,        (* the inventory, of one taskset                            *)
  Shared,       (* those whose Dockerfile is the shared template            *)
  Need,         (* Need[t]: memory the task asks for                        *)
  Capacity,     (* memory of Resources                                      *)
  Workers,      (* size of the thread pool                                  *)
  Throttled,    (* DynamoDB may keep handing items back                     *)
  MaxRuns       (* bound of the model: controllers started                  *)

ASSUME CorpusAssumption ==
  /\ IsFiniteSet(Tasks) /\ Shared \subseteq Tasks /\ Need \in [Tasks -> Nat \ {0}]
  /\ {Capacity, Workers, MaxRuns} \subseteq Nat \ {0} /\ Throttled \in BOOLEAN

VARIABLES
  control,      (* the controller's thread: place, rows to publish, starts  *)
  future,       (* future[t]: what the thread of task t does, and its row   *)
  queue,        (* Resources.queue: tickets in order                        *)
  used,         (* Resources.used                                           *)
  builder,      (* holders of BUILD                                         *)
  stop,         (* STOP                                                     *)
  images,       (* images the batch made; << >> is the shared one           *)
  results,      (* last line of each task in validation-results.jsonl       *)
  catalog,      (* tasks of runnable.json and of oracle.jsonl               *)
  cards         (* rows of the table: task cards, RUNNABLE, META's count    *)

corpusVars == << control, future, queue, used, builder, stop, images, results, catalog, cards >>

Idle     == [ at |-> "idle", status |-> "none", ref |-> 9, empty |-> 9, shown |-> FALSE ]
Untried  == [ status |-> "none", ref |-> 9, empty |-> 9 ]
Statuses == { "none", "passed", "failed", "blocked", "interrupted" }

CorpusInit ==
  /\ control = [ at |-> "off", rows |-> {}, after |-> "pool", runs |-> 0 ]
  /\ future = [ t \in Tasks |-> Idle ] /\ queue = << >> /\ used = 0 /\ builder = {}
  /\ stop = FALSE /\ images = {} /\ results = [ t \in Tasks |-> Untried ]
  /\ catalog = [ runnable |-> {}, oracle |-> {} ]
  /\ cards = [ task |-> {}, run |-> {}, count |-> 0 ]

AtW(t, place) == future[t].at = place
Busy          == { t \in Tasks : future[t].at \in { "ticket", "lock", "build", "reference", "empty", "clean" } }
Holding       == { t \in Tasks : future[t].at \in { "lock", "build", "reference", "empty" } }
Amount(t)     == IF Need[t] < Capacity THEN Need[t] ELSE Capacity
Image(t)      == IF t \in Shared THEN << >> ELSE << t >>

-----------------------------------------------------------------------------
(* validate(), on a thread of the pool.                                    *)

(* preflight blocks the task; otherwise it takes a ticket.                 *)
Begin(t) ==
  /\ AtW(t, "queued") /\ Cardinality(Busy) < Workers
  /\ \/ future' = [ future EXCEPT ![t].at = "ready", ![t].status = "blocked" ] /\ UNCHANGED queue
     \/ future' = [ future EXCEPT ![t].at = "ticket" ] /\ queue' = Append(queue, t)
  /\ UNCHANGED << control, used, builder, stop, images, results, catalog, cards >>

Fits_Anyone(t) == used < Capacity
Fits(t)        == queue[1] = t /\ used + Amount(t) <= Capacity

Acquire(t) ==
  /\ AtW(t, "ticket") /\ Fits(t)
  /\ queue' = Tail(queue) /\ used' = used + Amount(t)
  /\ future' = [ future EXCEPT ![t].at = "lock" ]
  /\ UNCHANGED << control, builder, stop, images, results, catalog, cards >>

(* A waiter sees STOP when it wakes, and leaves the queue.                 *)
Woken(t) ==
  /\ AtW(t, "ticket") /\ stop
  /\ \E i \in DOMAIN queue : queue[i] = t /\ queue' = RemoveAt(queue, i)
  /\ future' = [ future EXCEPT ![t].at = "clean", ![t].status = "interrupted" ]
  /\ UNCHANGED << control, used, builder, stop, images, results, catalog, cards >>

Lock(t) ==
  /\ AtW(t, "lock") /\ builder = {}
  /\ builder' = {t} /\ future' = [ future EXCEPT ![t].at = "build", ![t].shown = TRUE ]
  /\ UNCHANGED << control, queue, used, stop, images, results, catalog, cards >>

(* How call() ends a validation: a failure or timeout, the disk reserve,   *)
(* or STOP.  The memory is given back on every way out.                    *)
Ends == { "failed", "blocked" } \union (IF stop THEN { "interrupted" } ELSE {})

Released_OnSuccess(t, status) == IF status = "passed" THEN used - Amount(t) ELSE used
Released(t, status)           == used - Amount(t)

Leave(t, r) ==
  /\ used' = Released(t, r.status)
  /\ future' = [ future EXCEPT ![t] = [ r EXCEPT !.at = "clean" ] ]

Build(t) ==
  /\ AtW(t, "build") /\ builder' = {}
  /\ \/ /\ images' = images \union { Image(t) }
        /\ future' = [ future EXCEPT ![t].at = "reference" ] /\ UNCHANGED used
     \/ /\ \E s \in Ends : Leave(t, [ future[t] EXCEPT !.status = s ])
        /\ UNCHANGED images
  /\ UNCHANGED << control, queue, stop, results, catalog, cards >>

Reference(t) ==
  /\ AtW(t, "reference")
  /\ \/ future' = [ future EXCEPT ![t].at = "empty", ![t].ref = 1 ] /\ UNCHANGED used
     \/ Leave(t, [ future[t] EXCEPT !.ref = 0, !.status = "failed" ])
     \/ \E s \in Ends : Leave(t, [ future[t] EXCEPT !.status = s ])
  /\ UNCHANGED << control, queue, builder, stop, images, results, catalog, cards >>

Verdict_RefOnly(reward) == "passed"
Verdict(reward)         == IF reward = 0 THEN "passed" ELSE "failed"

Empty(t) ==
  /\ AtW(t, "empty")
  /\ \/ \E reward \in {0, 1} : Leave(t, [ future[t] EXCEPT !.empty = reward, !.status = Verdict(reward) ])
     \/ \E s \in Ends : Leave(t, [ future[t] EXCEPT !.status = s ])
  /\ UNCHANGED << control, queue, builder, stop, images, results, catalog, cards >>

(* validate()'s finally; a docker command over 60 s raises there and       *)
(* run() records the task as failed.                                       *)
Clean(t) ==
  /\ AtW(t, "clean")
  /\ \/ /\ future' = [ future EXCEPT ![t].at = "ready", ![t].shown = FALSE ]
        /\ images' = IF t \in Shared THEN images ELSE images \ { Image(t) }
     \/ /\ t \notin Shared
        /\ future' = [ future EXCEPT ![t].at = "ready", ![t].status = "failed", ![t].ref = 9, ![t].empty = 9 ]
        /\ UNCHANGED images
  /\ UNCHANGED << control, queue, used, builder, stop, results, catalog, cards >>

-----------------------------------------------------------------------------
(* run(): load the results, publish what passed and is not listed, submit  *)
(* what is pending, take the futures as they complete.                     *)

Pending_All(retry) == Tasks
Pending(retry) ==
  { t \in Tasks : results[t].status \in { "none", "interrupted" } \union (IF retry THEN { "failed", "blocked" } ELSE {}) }

Unpublished_ByFile == { t \in Tasks : results[t].status = "passed" /\ t \notin catalog.runnable }
Unpublished        == { t \in Tasks : results[t].status = "passed" /\ t \notin cards.run }

Publishes(rows, place, after) == [ control EXCEPT !.at = IF rows = {} THEN after ELSE place, !.rows = rows, !.after = after ]

Start ==
  /\ control.at = "off" /\ control.runs < MaxRuns
  /\ \E retry \in BOOLEAN :
       future' = [ t \in Tasks |-> IF t \in Pending(retry) THEN [ Idle EXCEPT !.at = "pending" ] ELSE Idle ]
  /\ control' = [ Publishes(Unpublished, "oracle", "submit") EXCEPT !.runs = @ + 1 ]
  /\ stop' = FALSE
  /\ UNCHANGED << queue, used, builder, images, results, catalog, cards >>

Submit ==
  /\ control.at = "submit" /\ control' = [ control EXCEPT !.at = "pool" ]
  /\ future' = [ t \in Tasks |-> IF AtW(t, "pending") THEN [ future[t] EXCEPT !.at = "queued" ] ELSE future[t] ]
  /\ UNCHANGED << queue, used, builder, stop, images, results, catalog, cards >>

Take(t) ==
  /\ control.at = "pool" /\ AtW(t, "ready")
  /\ LET r == future[t]
     IN /\ results' = [ results EXCEPT ![t] = [ status |-> r.status, ref |-> r.ref, empty |-> r.empty ] ]
        /\ control' = Publishes(IF r.status = "passed" THEN {t} ELSE {}, "oracle", "check")
  /\ future' = [ future EXCEPT ![t].at = "taken" ]
  /\ UNCHANGED << queue, used, builder, stop, images, catalog, cards >>

(* After each future: STOP cancels those not started and ends the loop.    *)
Check ==
  /\ control.at = "check"
  /\ control' = [ control EXCEPT !.at = IF stop THEN "drain" ELSE "pool" ]
  /\ future' = [ t \in Tasks |-> IF stop /\ AtW(t, "queued") THEN [ future[t] EXCEPT !.at = "cancelled" ] ELSE future[t] ]
  /\ UNCHANGED << queue, used, builder, stop, images, results, catalog, cards >>

Drained_Early == TRUE
Drained       == Busy = {} /\ \A t \in Tasks : ~AtW(t, "queued")

Exhausted ==
  /\ control.at = "pool" /\ \A t \in Tasks : future[t].at \in { "idle", "taken" }
  /\ control' = [ control EXCEPT !.at = "drain" ]
  /\ UNCHANGED << future, queue, used, builder, stop, images, results, catalog, cards >>

(* The pool is joined, then run()'s finally removes the shared images.     *)
Finish ==
  /\ control.at = "drain" /\ Drained
  /\ images' = images \ { << >> }
  /\ control' = [ control EXCEPT !.at = "off" ]
  /\ UNCHANGED << future, queue, used, builder, stop, results, catalog, cards >>

-----------------------------------------------------------------------------
(* publish(): oracle.jsonl, runnable.json, then one batch of rows.  An     *)
(* exception ends a run that is reconciling, and is noted in one that is   *)
(* taking futures.                                                         *)

Raised == [ control EXCEPT !.at = IF control.after = "submit" THEN "off" ELSE control.after, !.rows = {} ]

Oracle ==
  /\ control.at = "oracle" /\ control' = [ control EXCEPT !.at = "runnable" ]
  /\ catalog' = [ catalog EXCEPT !.oracle = @ \union control.rows ]
  /\ UNCHANGED << future, queue, used, builder, stop, images, results, cards >>

Runnable ==
  /\ control.at = "runnable" /\ control' = [ control EXCEPT !.at = "put" ]
  /\ catalog' = [ catalog EXCEPT !.runnable = @ \union control.rows ]
  /\ UNCHANGED << future, queue, used, builder, stop, images, results, cards >>

Live == catalog.runnable \intersect catalog.oracle

(* batch_put gives up on unprocessed items without a word.                 *)
Put ==
  /\ control.at = "put"
  /\ \/ /\ \E a, b \in SUBSET control.rows, n \in { cards.count, Cardinality(Live) } :
             /\ ~Throttled => a = control.rows /\ b = control.rows /\ n = Cardinality(Live)
             /\ cards' = [ task |-> cards.task \union a, run |-> cards.run \union b, count |-> n ]
        /\ control' = [ control EXCEPT !.at = control.after, !.rows = {} ]
     \/ control' = Raised /\ UNCHANGED cards
  /\ UNCHANGED << future, queue, used, builder, stop, images, results, catalog >>

-----------------------------------------------------------------------------
(* SIGTERM or SIGINT; and the process killed.                              *)

Stop ==
  /\ control.at # "off" /\ ~stop /\ stop' = TRUE
  /\ UNCHANGED << control, future, queue, used, builder, images, results, catalog, cards >>

Crash ==
  /\ control.at # "off" /\ control' = [ control EXCEPT !.at = "off", !.rows = {} ]
  /\ future' = [ t \in Tasks |-> Idle ] /\ queue' = << >> /\ used' = 0 /\ builder' = {}
  /\ UNCHANGED << stop, images, results, catalog, cards >>

Controller == Start \/ Submit \/ (\E t \in Tasks : Take(t)) \/ Check \/ Exhausted \/ Finish \/ Oracle \/ Runnable \/ Put
Thread(t)  == Begin(t) \/ Acquire(t) \/ Woken(t) \/ Lock(t) \/ Build(t) \/ Reference(t) \/ Empty(t) \/ Clean(t)

CorpusNext == Controller \/ Stop \/ Crash \/ \E t \in Tasks : Thread(t)

CorpusSpec     == CorpusInit /\ [][CorpusNext]_corpusVars
CorpusFairSpec == CorpusSpec /\ WF_corpusVars(Controller) /\ \A t \in Tasks : WF_corpusVars(Thread(t))

-----------------------------------------------------------------------------

(* The units of memory that the tasks of S have asked for, each one a pair. *)
Units(S) == { u \in S \X (1 .. Capacity) : u[2] <= Amount(u[1]) }

(* The account of Resources and of BUILD: what is used is what the threads *)
(* that run have asked for, never over the capacity; one thread builds.    *)
CorpusTypeOK ==
  /\ used = Cardinality(Units(Holding)) /\ used <= Capacity
  /\ builder = { t \in Tasks : AtW(t, "build") }
  /\ ToSet(queue) = { t \in Tasks : AtW(t, "ticket") } /\ IsInjective(queue)
  /\ \A t \in Tasks : results[t].status \in Statuses

(* A task is offered to run only if its reference solution scored 1 and an *)
(* empty submission 0: "Only completed reference=1 / empty=0 pairs are     *)
(* admitted", whatever stops, crashes or is repeated in between.           *)
OnlyProvenIsListed ==
  \A t \in catalog.runnable \union cards.run : results[t].ref = 1 /\ results[t].empty = 0

(* No image is removed while a thread runs containers from it.             *)
ImagesOutliveCases ==
  \A t \in Tasks : future[t].at \in { "reference", "empty" } => Image(t) \in images

(* "Reconcile completed passes after any interruption between validation   *)
(* and publication": when a run submits its tasks, every pass has both its *)
(* cards and is counted.                                                   *)
Reconciled ==
  control.at = "submit" =>
    LET passed == { t \in Tasks : results[t].status = "passed" }
    IN passed \subseteq cards.run \intersect cards.task /\ cards.count >= Cardinality(passed)

(* A verdict is final: a task that passed is never run again.              *)
PassesStand == [][\A t \in Tasks : results[t].status = "passed" => results'[t] = results[t] ]_corpusVars

(* A run ends, stopped or not.                                             *)
RunsEnd == control.at # "off" ~> control.at = "off"

(* The validation in every state, and its verdicts in every step.          *)
CorpusSafety == CorpusTypeOK /\ OnlyProvenIsListed /\ ImagesOutliveCases /\ Reconciled

=============================================================================
