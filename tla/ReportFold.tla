------------------------------ MODULE ReportFold ----------------------------
(***************************************************************************)
(* lib/store.py and lib/recommend.py: what finished runs of one harness on *)
(* one task do to the cards derived from them.  Each publisher writes its  *)
(* run, folds the harness's runs into the harness card and the task's into *)
(* the task card, then profiles its clone; a corpus sync rewrites the task *)
(* card meanwhile.  The folds read an index of the table.                  *)
(***************************************************************************)
EXTENDS Naturals, FiniteSets

CONSTANTS
  Runs,         (* runs of the harness, numbered in the order they started; *)
                (* each has a commit of its own                             *)
  Locked        (* HR_EVALS=local-queue: .publish.lock and refresh_lock     *)

ASSUME ReportFoldAssumption == IsFiniteSet(Runs) /\ Runs \subseteq Nat \ {0} /\ Locked \in BOOLEAN

VARIABLES
  lag,          (* whether a write reaches the indexes later; it is fixed   *)
  row,          (* row[r]: the status on the run's two card rows            *)
  index,        (* index[r]: the same in the harness and task indexes       *)
  harness,      (* the harness card: finished runs folded, latest run       *)
  profile,      (* the run whose commit PROFILE describes                   *)
  task,         (* the task card: runnable, runs folded                     *)
  listed,       (* the RUNNABLE row: {} or {the runs folded into it}        *)
  publisher,    (* publisher[r]: place, and what it has read                *)
  sync,         (* store.py sync --tasks                                    *)
  lock          (* holders of the two locks                                 *)

foldVars == << lag, row, index, harness, profile, task, listed, publisher, sync, lock >>
table == << row, index, harness, profile, task, listed >>

Latest(runs) == CHOOSE r \in runs \union {0} : \A q \in runs : q <= r
Known(i)     == { r \in Runs : i[r] # "none" }
Scored(i)    == { r \in Runs : i[r] = "done" }
CardOf(i)    == [ scored |-> Scored(i), latest |-> Latest(Known(i)) ]

(* The task had been runnable and no longer is, which the sync will see.   *)
FoldInit ==
  /\ lag \in BOOLEAN
  /\ row = [ r \in Runs |-> "none" ] /\ index = row
  /\ harness = [ scored |-> {}, latest |-> 0 ] /\ profile = 0
  /\ task = [ runnable |-> TRUE, results |-> {} ] /\ listed = {{}}
  /\ publisher = [ r \in Runs |-> [ at |-> "begin", card |-> harness, task |-> task ] ]
  /\ sync = [ at |-> "begin", results |-> {} ]
  /\ lock = [ publish |-> {}, refresh |-> {} ]

PublisherAt(r, place)  == publisher[r].at = place
Go(r, place)  == publisher' = [ publisher EXCEPT ![r].at = place ]
Free_Always(which) == TRUE
Free(which)   == Locked => lock[which] = {}
Hold(which, p) == lock' = IF Locked THEN [ lock EXCEPT ![which] = {p} ] ELSE lock
Drop(which)   == lock' = [ lock EXCEPT ![which] = {} ]

Indexed(r, status) ==
  /\ row' = [ row EXCEPT ![r] = status ]
  /\ index' = IF lag THEN index ELSE row'

Propagate(r) ==
  /\ index[r] # row[r] /\ index' = [ index EXCEPT ![r] = row[r] ]
  /\ UNCHANGED << lag, row, harness, profile, task, listed, publisher, sync, lock >>

-----------------------------------------------------------------------------
(* publish_run: the card when the run starts; the whole run when it ends,  *)
(* then publish_harness and refresh_task.                                  *)

Card(r) ==
  /\ PublisherAt(r, "begin") /\ Free("publish") /\ Indexed(r, "running") /\ Go(r, "running")
  /\ UNCHANGED << harness, profile, task, listed, sync, lock >>

PutRun(r) ==
  /\ PublisherAt(r, "running") /\ Free("publish") /\ Hold("publish", r)
  /\ Indexed(r, "done") /\ Go(r, "harness")
  /\ UNCHANGED << harness, profile, task, listed, sync >>

Fold(r) == CardOf(index)

ReadHarness(r, from, to) ==
  /\ PublisherAt(r, from) /\ publisher' = [ publisher EXCEPT ![r].at = to, ![r].card = Fold(r) ]
  /\ UNCHANGED << table, sync, lock >>

WriteHarness(r) ==
  /\ PublisherAt(r, "put") /\ harness' = publisher[r].card /\ Go(r, "row")
  /\ UNCHANGED << row, index, profile, task, listed, sync, lock >>

ReadTask(r) ==
  /\ PublisherAt(r, "row") /\ publisher' = [ publisher EXCEPT ![r].at = "results", ![r].task = task ]
  /\ UNCHANGED << table, sync, lock >>

ReadResults(r) ==
  /\ PublisherAt(r, "results") /\ publisher' = [ publisher EXCEPT ![r].at = "update", ![r].task.results = Scored(index) ]
  /\ UNCHANGED << table, sync, lock >>

WriteTask(r) ==
  /\ PublisherAt(r, "update") /\ task' = publisher[r].task
  /\ listed' = IF task'.runnable THEN { task'.results } ELSE listed
  /\ Drop("publish") /\ Go(r, "refresh")
  /\ UNCHANGED << row, index, harness, profile, sync >>

-----------------------------------------------------------------------------
(* recommend.refresh: a profile only for the latest commit, in one lock.   *)

Current_Always(r) == TRUE
Current(r)        == harness.latest = r /\ profile # r

Refresh(r) ==
  /\ PublisherAt(r, "refresh") /\ Free("refresh") /\ Hold("refresh", r)
  /\ Go(r, IF Current(r) THEN "profile" ELSE "rank")
  /\ UNCHANGED << table, sync >>

(* claude -p answers, and publish_profile writes the row; or it fails.     *)
Profile(r) ==
  /\ PublisherAt(r, "profile")
  /\ \/ profile' = r /\ Go(r, "fold")
     \/ UNCHANGED profile /\ Go(r, "rank")
  /\ UNCHANGED << row, index, harness, task, listed, sync, lock >>

Refold(r) == ReadHarness(r, "fold", "reput")

Reput(r) ==
  /\ PublisherAt(r, "reput") /\ harness' = publisher[r].card /\ Go(r, "rank")
  /\ UNCHANGED << row, index, profile, task, listed, sync, lock >>

Rank(r) ==
  /\ PublisherAt(r, "rank") /\ Drop("refresh") /\ Go(r, "end")
  /\ UNCHANGED << table, sync >>

-----------------------------------------------------------------------------
(* publish_tasks: rows from the corpus, with the results they had; then    *)
(* what is no longer runnable leaves the list.                             *)

SyncRead ==
  /\ sync.at = "begin" /\ Free("publish") /\ Hold("publish", 0)
  /\ sync' = [ at |-> "put", results |-> task.results ]
  /\ UNCHANGED << table, publisher >>

Corpus_Fresh == [ runnable |-> FALSE, results |-> {} ]
Corpus       == [ runnable |-> FALSE, results |-> sync.results ]

SyncPut ==
  /\ sync.at = "put" /\ task' = Corpus
  /\ sync' = [ sync EXCEPT !.at = "stale" ]
  /\ UNCHANGED << row, index, harness, profile, listed, publisher, lock >>

Stale_Kept == listed
Stale      == {}

SyncStale ==
  /\ sync.at = "stale" /\ listed' = Stale /\ Drop("publish")
  /\ sync' = [ sync EXCEPT !.at = "end" ]
  /\ UNCHANGED << row, index, harness, profile, task, publisher >>

-----------------------------------------------------------------------------

Publish(r) ==
  /\ \/ Card(r) \/ PutRun(r) \/ ReadHarness(r, "harness", "put") \/ WriteHarness(r)
     \/ ReadTask(r) \/ ReadResults(r) \/ WriteTask(r)
     \/ Refresh(r) \/ Profile(r) \/ Refold(r) \/ Reput(r) \/ Rank(r)
  /\ UNCHANGED lag

Sync == (SyncRead \/ SyncPut \/ SyncStale) /\ UNCHANGED lag

FoldNext == Sync \/ \E r \in Runs : Publish(r) \/ Propagate(r)

FoldSpec     == FoldInit /\ [][FoldNext]_foldVars
FoldFairSpec ==
  FoldSpec /\ WF_foldVars(Sync) /\ \A r \in Runs : WF_foldVars(Publish(r)) /\ WF_foldVars(Propagate(r))

-----------------------------------------------------------------------------

Folded == \A r \in Runs : publisher[r].at \in { "begin", "running", "refresh", "end" }

(* One holder of each lock; the index shows what was written.              *)
FoldTypeOK ==
  /\ \A w \in DOMAIN lock : Cardinality(lock[w]) <= 1 /\ lock[w] \subseteq Runs \union {0}
  /\ \A r \in Runs : index[r] # "none" => row[r] # "none"
  /\ harness.scored \union task.results \subseteq Scored(row)
  /\ Locked => Cardinality({ r \in Runs : publisher[r].at \in { "harness", "put", "row", "results", "update" } }) <= 1

(* The task card counts every finished run: "`results` - every harness's   *)
(* runs on it, folded in by refresh_task", and the sync keeps them.        *)
TaskCountsEveryRun ==
  ~lag /\ Folded /\ sync.at \in { "begin", "end" } => task.results = Scored(row)

(* "A task that fell out of the runnable pool has to leave the RUNNABLE    *)
(* list too", and stays out.                                               *)
FallenOutStaysOut == Folded /\ sync.at = "end" => listed = {} /\ ~task.runnable

(* "Never label an older clone as the latest one": so, while the indexes   *)
(* keep up.                                                                *)
ProfileIsNotOlder == [][~lag /\ profile' # profile => profile' > profile]_foldVars

(* Once a run was started, every run ends up in its task card and stays,   *)
(* as long as the indexes keep up.                                         *)
EveryRunIsFolded ==
  ~lag /\ (\E r \in Runs : row[r] # "none") ~> [](task.results = Runs)

(* The cards whenever no publisher is at work on them.                     *)
CardsSafety == FoldTypeOK /\ TaskCountsEveryRun /\ FallenOutStaysOut

(* The cards only move forward, and reach every run.                       *)
CardsAdvance == ProfileIsNotOlder /\ EveryRunIsFolded

=============================================================================
