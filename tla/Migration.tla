----------------------------- MODULE Migration -----------------------------
(***************************************************************************)
(* infra/migrate-queue.py: moving the pending jobs of the standard queue   *)
(* to the FIFO queue while users cancel and the new workers already run.   *)
(*                                                                         *)
(* The script may be killed between any two of its calls and is then run   *)
(* again.  A pending job is known by its report record only (`rec'), until *)
(* the script makes a job row of it (`row').                               *)
(***************************************************************************)
EXTENDS Naturals, FiniteSets

CONSTANTS
  Jobs,
  NoJob,
  MaxRuns       (* bound: how often the script is started                   *)

ASSUME MigrationAssumption == NoJob \notin Jobs /\ MaxRuns \in Nat

VARIABLES
  source,       (* jobs with a message on the standard queue                *)
  hidden,       (* those of them that were received and not deleted         *)
  target,       (* jobs with a message on the FIFO queue                    *)
  row, rec,     (* status of a job's row and of its report record           *)
  script,       (* the script: where it is, its message, what it read       *)
  runs,         (* how often it was started                                 *)
  started       (* started[j]: attempts at j                                *)

storeVars  == << row, rec, started >>
scriptVars == << script, runs >>
migrationVars == << source, hidden, target, row, rec, script, runs, started >>

Over  == { "done", "cancelled" }
Ended == [ at |-> "ended", job |-> NoJob, read |-> "absent" ]

MigrationInit ==
  /\ source = Jobs
  /\ hidden = {}
  /\ target = {}
  /\ row = [ j \in Jobs |-> "absent" ]
  /\ rec \in [ Jobs -> { "queued", "done" } ]
  /\ script = Ended
  /\ runs = 0
  /\ started = [ j \in Jobs |-> 0 ]

(* What a reader sees: the row, and the report record where there is none. *)
Known(j) == IF row[j] = "absent" THEN rec[j] ELSE row[j]

MoveTo(place) == script' = [ script EXCEPT !.at = place ] /\ UNCHANGED runs

-----------------------------------------------------------------------------
(* main(): one message after the other.                                    *)

Start ==
  /\ script.at = "ended" /\ source # {} /\ runs < MaxRuns
  /\ script' = [ Ended EXCEPT !.at = "receive" ]
  /\ runs' = runs + 1
  /\ UNCHANGED << source, hidden, target, storeVars >>

Verdict_SkipsRow(status) == IF status = "queued" THEN "send" ELSE "delete"
Verdict(status) ==
  IF status = "queued" THEN "write" ELSE IF status = "running" THEN "ended" ELSE "delete"

(* The script ends at a running job, and when it finds no visible message. *)
Receive ==
  /\ script.at = "receive"
  /\ \/ \E j \in source \ hidden :
          /\ hidden' = hidden \cup {j}
          /\ script' = [ at |-> Verdict(Known(j)), job |-> j, read |-> row[j] ]
     \/ source \ hidden = {} /\ script' = Ended /\ UNCHANGED hidden
  /\ UNCHANGED << source, target, storeVars, runs >>

NextCall_Deletes == "delete"
NextCall         == "send"

(* update(eid, {}) merges into the row as it is by then; enqueue() inserts *)
(* a row, and fails if one has appeared.                                   *)
Merged_Copy(j) == "queued"
Merged(j)      == row[j]

Write ==
  LET j == script.job
  IN  /\ script.at = "write"
      /\ IF script.read # "absent"
         THEN row' = [ row EXCEPT ![j] = Merged(j) ] /\ MoveTo(NextCall)
         ELSE row[j] = "absent" /\ row' = [ row EXCEPT ![j] = "queued" ] /\ MoveTo(NextCall)
      /\ UNCHANGED << source, hidden, target, rec, started >>

Send ==
  /\ script.at = "send"
  /\ target' = target \cup {script.job}
  /\ MoveTo("delete")
  /\ UNCHANGED << source, hidden, storeVars >>

(* The deletion works even when the message has become visible again.      *)
Delete ==
  /\ script.at = "delete"
  /\ source' = source \ {script.job}
  /\ hidden' = hidden \ {script.job}
  /\ MoveTo("receive")
  /\ UNCHANGED << target, storeVars >>

(* It is killed, a call fails, or a check raises.                          *)
Dies ==
  /\ script.at # "ended"
  /\ MoveTo("ended")
  /\ UNCHANGED << source, hidden, target, storeVars >>

(* Sixty seconds are over.                                                 *)
Reappears ==
  /\ hidden # {}
  /\ hidden' = {}
  /\ UNCHANGED << source, target, storeVars, scriptVars >>

-----------------------------------------------------------------------------
(* cancel_queued(), and the workers of the FIFO queue.                     *)

Cancel(j) ==
  /\ IF row[j] # "absent"
     THEN row[j] = "queued" /\ row' = [ row EXCEPT ![j] = "cancelled" ] /\ UNCHANGED rec
     ELSE rec[j] = "queued" /\ rec' = [ rec EXCEPT ![j] = "cancelled" ] /\ UNCHANGED row
  /\ UNCHANGED << source, hidden, target, started, scriptVars >>

Claim(j) ==
  /\ j \in target /\ row[j] = "queued"
  /\ row' = [ row EXCEPT ![j] = "running" ]
  /\ started' = [ started EXCEPT ![j] = @ + 1 ]
  /\ UNCHANGED << source, hidden, target, rec, scriptVars >>

Settle(j) ==
  /\ row[j] = "running"
  /\ row' = [ row EXCEPT ![j] = "done" ]
  /\ rec' = [ rec EXCEPT ![j] = "done" ]
  /\ UNCHANGED << source, hidden, target, started, scriptVars >>

Acknowledge(j) ==
  /\ j \in target /\ row[j] \in Over
  /\ target' = target \ {j}
  /\ UNCHANGED << source, hidden, storeVars, scriptVars >>

-----------------------------------------------------------------------------

Script == \/ Receive \/ Write \/ Send \/ Delete
Worker(j) == \/ Claim(j) \/ Settle(j) \/ Acknowledge(j)

MigrationNext == \/ Start \/ Script \/ Dies \/ Reappears
        \/ \E j \in Jobs : Cancel(j) \/ Worker(j)

MigrationSpec == MigrationInit /\ [][MigrationNext]_migrationVars

(* Workers go on; whoever runs the script lets it finish when it can and   *)
(* starts it again, MaxRuns times, while messages are left.                *)
MigrationFairSpec ==
  /\ MigrationSpec
  /\ WF_migrationVars(Start) /\ WF_migrationVars(Script) /\ WF_migrationVars(Reappears)
  /\ \A j \in Jobs : WF_migrationVars(Worker(j))

-----------------------------------------------------------------------------

(* A message of the FIFO queue always finds a row.                         *)
MigrationTypeOK ==
  /\ source \subseteq Jobs /\ hidden \subseteq source /\ target \subseteq Jobs
  /\ row \in [ Jobs -> { "absent", "queued", "running" } \cup Over ]
  /\ rec \in [ Jobs -> { "queued" } \cup Over ]
  /\ script.at \in { "ended", "receive", "write", "send", "delete" }
  /\ script.job \in Jobs \cup {NoJob}
  /\ \A j \in target : row[j] # "absent"

(* Wherever the script dies, a pending job has a message on one of the     *)
(* queues ("deleted only after FIFO accepts its replacement").             *)
PendingHasMessage == \A j \in Jobs : Known(j) = "queued" => j \in source \cup target

(* A job moved twice, with a message on both queues, is run once.          *)
MovedOnce == \A j \in Jobs : started[j] <= 1

(* A job that had settled when the script met its message is not started:  *)
(* "terminal jobs are acknowledged without rerunning".                     *)
SettledStays == [][ \A j \in Jobs : row[j] \in Over => row'[j] = row[j] ]_migrationVars

(* Once the script was started, a pending job is settled in the end,       *)
(* unless all its runs died before they had moved the job.                 *)
PendingSettles ==
  \A j \in Jobs :
    runs > 0 /\ Known(j) = "queued"
      ~> Known(j) \in Over \/ (j \in source /\ runs = MaxRuns /\ script.at = "ended")

(* The migration in every state: no queued job is lost, none moved twice.  *)
MigrationSafety == MigrationTypeOK /\ PendingHasMessage /\ MovedOnce

(* Every pending job settles, and what has settled is left alone.          *)
MigrationSettles == PendingSettles /\ SettledStays

=============================================================================
