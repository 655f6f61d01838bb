------------------------------ MODULE JobRows ------------------------------
(***************************************************************************)
(* The authoritative job row of lib/cloudqueue.py and the pure functions   *)
(* its writers apply to it.  CloudJobs interleaves the reads and writes;   *)
(* CloudWorker uses the same functions as atomic operations, which         *)
(* CloudJobs justifies.                                                    *)
(*                                                                         *)
(* A row keeps the fields some decision depends on: status, cancelled,     *)
(* claim (the token of the winning worker), lease_until, revision and      *)
(* cap_counted.  Names, urls, timestamps and error texts are left out.     *)
(***************************************************************************)
EXTENDS Integers

CONSTANTS
  Tokens,     (* claim tokens: the uuid4 values claim() draws               *)
  NoToken     (* "claim" is missing from the row                            *)

ASSUME NoTokenAssumption == NoToken \notin Tokens

Live     == {"queued", "running"}
Terminal == {"done", "failed", "cancelled"}

Row == [ status    : Live \cup Terminal \cup {"absent"},
         cancelled : BOOLEAN,
         claim     : Tokens \cup {NoToken},
         lease     : Nat,
         revision  : Nat,
         counted   : BOOLEAN ]

(* get() returned None. *)
NoRow == [ status |-> "absent", cancelled |-> FALSE, claim |-> NoToken,
           lease |-> 0, revision |-> 0, counted |-> FALSE ]

Submitted(counted) == [ status |-> "queued", cancelled |-> FALSE,
                        claim |-> NoToken, lease |-> 0, revision |-> 1,
                        counted |-> counted ]

(* The conditions update() evaluates on the row it has just read.          *)
Claimable_TakesOver(r) == r.status \in Live /\ ~r.cancelled
Claimable_NotRunning(r) == r.status # "running"
Fenced_AnyHolder(r, t) == r.status # "absent"

Claimable(r)    == r.status = "queued" /\ ~r.cancelled
Cancellable(r)  == r.status \in Live
Fenced(r, t)    == r.status = "running" /\ r.claim = t
Lapsed(r, time) == r.status = "running" /\ r.lease < time

(***************************************************************************)
(* What update() makes of the merged row: one revision further, a sticky   *)
(* cancellation, and a cancelled row that is not running any more becomes  *)
(* "cancelled" whatever status the writer asked for.                       *)
(***************************************************************************)
Settle_LastWriterWins(old, new) ==
  [ new EXCEPT !.revision = old.revision + 1 ]

Settle_ClearsFlag(old, new) ==
  [ new EXCEPT !.revision = old.revision + 1,
               !.cancelled = new.cancelled /\ ~old.cancelled,
               !.status = IF new.cancelled /\ @ = "queued" THEN "cancelled" ELSE @ ]

Settle_SameRevision(old, new) ==
  [ new EXCEPT !.status = IF new.cancelled /\ @ # "running" THEN "cancelled" ELSE @ ]

Settle(old, new) ==
  LET cancelled == old.cancelled \/ new.cancelled
  IN  [ new EXCEPT
          !.revision  = old.revision + 1,
          !.cancelled = cancelled,
          !.status    = IF cancelled /\ @ \in {"queued", "done", "failed"}
                        THEN "cancelled" ELSE @ ]

(* The entry of the scheduling index JOBS#ACTIVE that goes with a row.     *)
NoEntry == [ status |-> "absent", lease |-> 0 ]

Entry_KeepsCancelled(r) ==
  IF r.status \in Live \cup {"cancelled"}
  THEN [ status |-> r.status, lease |-> r.lease ] ELSE NoEntry

Entry(r) == IF r.status \in Live
            THEN [ status |-> r.status, lease |-> r.lease ]
            ELSE NoEntry

(* The daily slot of a job is given back when this write cancels it.       *)
Refunds_EveryTime(old, new) == new.status = "cancelled" /\ old.counted

Refunds(old, new) ==
  new.status = "cancelled" /\ old.status # "cancelled" /\ old.counted
=============================================================================
