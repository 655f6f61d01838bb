------------------------------ MODULE FifoQueue ------------------------------
(***************************************************************************)
(* Amazon SQS as lib/leases.py uses it and infra/queue.tf configures it.   *)
(* The service itself is outside the repository.  One message per          *)
(* evaluation (the evaluation id deduplicates), one message group per      *)
(* owner: the head of a group is handed out, hides its group while it is   *)
(* in flight, and comes back when its visibility window closes.  A message *)
(* that has been handed out MaxReceives times goes to the dead letters.    *)
(*                                                                         *)
(* A receipt is the number of the delivery it came with; only the latest   *)
(* delivery's receipt is good, and only while its window is open.          *)
(***************************************************************************)
EXTENDS Naturals, Sequences

CONSTANTS
  Jobs,         (* evaluation ids                                           *)
  Owners,       (* message groups: one per login                            *)
  OwnerOf,      (* the owner of a job                                       *)
  MaxReceives   (* maxReceiveCount                                          *)

ASSUME FifoQueueAssumption ==
  /\ OwnerOf \in [ Jobs -> Owners ]
  /\ MaxReceives \in Nat \ {0}

VARIABLES
  queue,        (* queue[o]: the messages of a group, oldest first          *)
  window,       (* window[o]: the head of the group is "visible", in flight *)
                (* for a full window ("held"), or in flight until shortly   *)
                (* after the lease of its job ("lease")                     *)
  receives,     (* receives[j]: how often the message of j, while it is on  *)
                (* the queue, was handed out                                *)
  dead          (* the messages in the dead-letter queue                    *)

queueVars == << queue, window, receives, dead >>

InFlight(o)  == window[o] # "visible"
Receivable(o) ==
  /\ queue[o] # << >>
  /\ ~InFlight(o)
  /\ receives[Head(queue[o])] < MaxReceives

Good(j, receipt) ==
  LET o == OwnerOf[j]
  IN  /\ InFlight(o)
      /\ Head(queue[o]) = j
      /\ receives[j] = receipt

SendMessage(j) ==
  /\ queue' = [ queue EXCEPT ![OwnerOf[j]] = Append(@, j) ]
  /\ UNCHANGED << window, receives, dead >>

ReceiveMessage(o) ==
  /\ Receivable(o)
  /\ window' = [ window EXCEPT ![o] = "held" ]
  /\ receives' = [ receives EXCEPT ![Head(queue[o])] = @ + 1 ]
  /\ UNCHANGED << queue, dead >>

(* With a receipt that is no longer good the call fails and nothing        *)
(* changes.                                                                *)
DeleteMessage(j, receipt) ==
  LET o == OwnerOf[j]
  IN  IF Good(j, receipt)
      THEN /\ queue' = [ queue EXCEPT ![o] = Tail(@) ]
           /\ window' = [ window EXCEPT ![o] = "visible" ]
           /\ receives' = [ receives EXCEPT ![j] = 0 ]
           /\ UNCHANGED dead
      ELSE UNCHANGED queueVars

ChangeVisibility(j, receipt, until) ==
  IF Good(j, receipt)
  THEN /\ window' = [ window EXCEPT ![OwnerOf[j]] = until ]
       /\ UNCHANGED << queue, receives, dead >>
  ELSE UNCHANGED queueVars

Reappear(o) ==
  /\ InFlight(o)
  /\ window' = [ window EXCEPT ![o] = "visible" ]
  /\ UNCHANGED << queue, receives, dead >>

DeadLetter(o) ==
  /\ queue[o] # << >>
  /\ ~InFlight(o)
  /\ receives[Head(queue[o])] = MaxReceives
  /\ dead' = dead \cup { Head(queue[o]) }
  /\ queue' = [ queue EXCEPT ![o] = Tail(@) ]
  /\ receives' = [ receives EXCEPT ![Head(queue[o])] = 0 ]
  /\ UNCHANGED window
=============================================================================
