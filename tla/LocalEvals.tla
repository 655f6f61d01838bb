----------------------------- MODULE LocalEvals -----------------------------
(***************************************************************************)
(* evals.py with HR_EVALS=on: serve.py starts run.sh itself, one           *)
(* evaluation at a time, and keeps its record in evals/<id>/eval.json.     *)
(*                                                                         *)
(* LOCK makes start(), cancel(), get() and the waiting threads exclude     *)
(* each other; run.sh, in a session of its own, ends when it likes and     *)
(* outlives a server that is killed.                                       *)
(***************************************************************************)
EXTENDS Naturals, FiniteSets

CONSTANTS
  Evals,
  MaxCrashes    (* bound: kills of the server                               *)

ASSUME LocalEvalsAssumption == IsFiniteSet(Evals) /\ MaxCrashes \in Nat

VARIABLES
  rec,          (* eval.json: its status and its cancelled flag             *)
  proc,         (* run.sh: running, or how it ended                         *)
  signalled,    (* runs that were sent SIGTERM                              *)
  starting,     (* runs started by a start() that has not saved the record  *)
  children,     (* PROCS: the runs this server process started              *)
  up, crashes, orphans

vars == << rec, proc, signalled, starting, children, up, crashes, orphans >>

Terminal == { "done", "failed", "cancelled" }

Init ==
  /\ rec = [ e \in Evals |-> [ status |-> "absent", cancelled |-> FALSE ] ]
  /\ proc = [ e \in Evals |-> "none" ]
  /\ signalled = {}
  /\ starting = {}
  /\ children = {}
  /\ up = TRUE
  /\ crashes = 0
  /\ orphans = {}

(* A run of an earlier server process is looked for by its pid.            *)
Alive_ChildrenOnly(e) == e \in children /\ proc[e] = "running"
Alive(e)              == proc[e] = "running"

Unlocked_Always == up
Unlocked        == up /\ starting = {}

-----------------------------------------------------------------------------

(* start(): _current() has settled what has ended (Settle).                *)
Start(e) ==
  /\ Unlocked
  /\ rec[e].status = "absent" /\ proc[e] = "none"
  /\ \A f \in Evals : rec[f].status # "running"
  /\ proc' = [ proc EXCEPT ![e] = "running" ]
  /\ starting' = starting \cup {e}
  /\ children' = children \cup {e}
  /\ UNCHANGED << rec, signalled, up, crashes, orphans >>

Save(e) ==
  /\ e \in starting
  /\ rec' = [ rec EXCEPT ![e].status = "running" ]
  /\ starting' = starting \ {e}
  /\ UNCHANGED << proc, signalled, children, up, crashes, orphans >>

(* The thread that waits for a child, and every reader: get(), current().  *)
Settling_Waiter(e) == e \in children
Settling(e)        == TRUE

Outcome_ByExit(e) == IF proc[e] = "finished" THEN "done" ELSE "failed"
Outcome(e) ==
  IF rec[e].cancelled THEN "cancelled" ELSE IF proc[e] = "finished" THEN "done" ELSE "failed"

Settle(e) ==
  /\ up /\ starting = {}
  /\ Settling(e)
  /\ rec[e].status = "running" /\ ~Alive(e)
  /\ rec' = [ rec EXCEPT ![e].status = Outcome(e) ]
  /\ children' = children \ {e}
  /\ UNCHANGED << proc, signalled, starting, up, crashes, orphans >>

(* The flag is saved before the signal is sent; run.sh may have ended.     *)
Reached_Children(e) == IF e \in children THEN {e} ELSE {}
Reached(e)          == {e}

Cancel(e) ==
  /\ up /\ starting = {}
  /\ rec[e].status = "running" /\ Alive(e)
  /\ rec' = [ rec EXCEPT ![e].cancelled = TRUE ]
  /\ \/ /\ signalled' = signalled \cup Reached(e)
        /\ UNCHANGED << up, starting, children, crashes, orphans >>
     \/ UNCHANGED << signalled, orphans >> /\ crashes < MaxCrashes /\ crashes' = crashes + 1
        /\ up' = FALSE /\ starting' = {} /\ children' = {}
  /\ UNCHANGED proc

(* A run that was signalled may still finish; without a signal it may hang.*)
Exits(e) ==
  /\ proc[e] = "running"
  /\ \E how \in { "finished", "broken" } : proc' = [ proc EXCEPT ![e] = how ]
  /\ UNCHANGED << rec, signalled, starting, children, up, crashes, orphans >>

Crash ==
  /\ up /\ crashes < MaxCrashes
  /\ up' = FALSE
  /\ crashes' = crashes + 1
  /\ orphans' = orphans \cup starting
  /\ starting' = {}
  /\ children' = {}
  /\ UNCHANGED << rec, proc, signalled >>

Restart ==
  /\ ~up
  /\ up' = TRUE
  /\ UNCHANGED << rec, proc, signalled, starting, children, crashes, orphans >>

Next ==
  \/ Crash \/ Restart
  \/ \E e \in Evals : Start(e) \/ Save(e) \/ Settle(e) \/ Cancel(e) \/ Exits(e)

Spec == Init /\ [][Next]_vars

(* The site asks for the status again and again, and a user who sees a     *)
(* cancelled run still running asks again.  run.sh ends once signalled.    *)
FairSpec ==
  /\ Spec
  /\ WF_vars(Restart)
  /\ \A e \in Evals :
       /\ WF_vars(Save(e)) /\ WF_vars(Settle(e))
       /\ WF_vars(rec[e].cancelled /\ Cancel(e))
       /\ WF_vars(e \in signalled /\ Exits(e))

-----------------------------------------------------------------------------

TypeOK ==
  /\ rec \in [ Evals -> [ status : { "absent", "running" } \cup Terminal, cancelled : BOOLEAN ] ]
  /\ proc \in [ Evals -> { "none", "running", "finished", "broken" } ]
  /\ starting \subseteq children /\ children \subseteq Evals
  /\ Cardinality(starting) <= 1

(* Whatever server started them, two runs never go on together, except     *)
(* those whose server died before it had recorded them (start's Busy).     *)
OneRun ==
  \A e, f \in Evals \ orphans : proc[e] = "running" /\ proc[f] = "running" => e = f

(* A settled record is true: its run has ended, "done" means it finished,  *)
(* and a cancellation that was answered is never reported as done, even    *)
(* if the run finished before the signal or its server was replaced.       *)
SettledIsTrue ==
  \A e \in Evals : rec[e].status \in Terminal =>
    /\ proc[e] # "running"
    /\ rec[e].status = "done" => proc[e] = "finished"
    /\ rec[e].cancelled <=> rec[e].status = "cancelled"

(* A cancelled run is stopped and settled, although the server may be      *)
(* killed between the record and the signal, and the run may hang.         *)
CancelledSettles == \A e \in Evals : rec[e].cancelled ~> rec[e].status = "cancelled"

(* A run that has ended is settled, and the site is free for the next one, *)
(* also when the server that started it is gone.                           *)
EndedSettles ==
  \A e \in Evals : rec[e].status = "running" /\ proc[e] # "running" ~> rec[e].status \in Terminal

(* The single evaluation in every state: one run, and no false outcome.    *)
EvalsSafety == TypeOK /\ OneRun /\ SettledIsTrue

(* A run that was cancelled or has ended is settled in the end.            *)
EvalsSettle == CancelledSettles /\ EndedSettles

=============================================================================
