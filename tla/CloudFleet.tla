----------------------------- MODULE CloudFleet -----------------------------
(***************************************************************************)
(* lib/cloudscale.py and infra/runner-lifecycle.py: the capacity           *)
(* controller, a Lambda function that may run several times at once, and   *)
(* the disposable machines it provides.                                    *)
(*                                                                         *)
(* An invocation takes a lock that expires, looks at the Auto Scaling      *)
(* group, retires the machine that asked for it, fails lapsed jobs, and    *)
(* sets the group's capacity.  The group (Amazon's, outside the            *)
(* repository) launches and removes machines; what it shows may be old.    *)
(* Time is relative: an invocation has `left' ticks to live, the lock      *)
(* `ttl' until it expires.                                                 *)
(***************************************************************************)
EXTENDS Naturals, FiniteSets

CONSTANTS
  Machines,     (* EC2 instances                                            *)
  Users,
  Invocations,  (* of the controller, at one time                           *)
  None,
  MaxSize,      (* max_size of the group                                    *)
  Runtime,      (* the Lambda's timeout, in ticks                           *)
  Slack,        (* the five seconds added to it                             *)
  Attempts,     (* retirement calls of a machine                            *)
  MaxJobs,      (* bound: jobs submitted in a behaviour                     *)
  MaxFaults     (* bound: failures, and old descriptions of the group       *)

ASSUME CloudFleetAssumption ==
  /\ None \notin Machines \cup Users \cup Invocations
  /\ Runtime \in Nat
  /\ Slack \in Nat \ {0}
  /\ MaxSize \in Nat /\ MaxJobs \in Nat
  /\ Attempts \in Nat \ {0}
  /\ IsFiniteSet(Machines) /\ IsFiniteSet(Users)

VARIABLES
  group,        (* desired capacity, and each machine's lifecycle state     *)
  seen,         (* the group before its latest change                       *)
  lock,         (* the controller's row: its token and the time it has left *)
  inv,          (* inv[i]: an invocation                                    *)
  vm,           (* vm[m]: the worker service of a machine, its user, how    *)
                (* often it asked to retire, and the invocation it asks     *)
  active,       (* active[u]: queued and running jobs of u                  *)
  running,      (* running[u]: the machine that claimed u's first job       *)
  jobs, faults  (* so far                                                   *)

fleetVars == << group, seen, vm >>
jobVars   == << active, running, jobs >>
vars == << group, seen, lock, inv, vm, active, running, jobs, faults >>

Inside  == { "describe", "retire", "expire", "decide", "set", "release" }
Off     == [ at |-> "off", left |-> 0, retire |-> None, group |-> None, want |-> 0, ok |-> FALSE ]
Removed == [ at |-> "off", user |-> None, calls |-> 0, call |-> None ]

Init ==
  /\ group = [ desired |-> 0, state |-> [ m \in Machines |-> "none" ] ]
  /\ seen = group
  /\ lock = [ token |-> None, ttl |-> 0 ]
  /\ inv = [ i \in Invocations |-> Off ]
  /\ vm = [ m \in Machines |-> Removed ]
  /\ active = [ u \in Users |-> 0 ]
  /\ running = [ u \in Users |-> None ]
  /\ jobs = 0
  /\ faults = 0

Fault == faults < MaxFaults /\ faults' = faults + 1

Members(g) == { m \in Machines : g.state[m] \in { "pending", "service" } }
Callers(i) == { m \in Machines : vm[m].call = i }

-----------------------------------------------------------------------------
(* controller_lock and handler.                                            *)

Free == lock.token = None \/ lock.ttl = 0

Locked_NoSlack(i) == [ token |-> i, ttl |-> Runtime ]
Locked(i)         == [ token |-> i, ttl |-> Runtime + Slack ]

(* The schedule and wake() invoke it at any time, a machine when it        *)
(* retires.  A held lock raises; so does a PutItem that was written but    *)
(* not answered, since its repetition meets the row it wrote.              *)
Invoke(i, m) ==
  /\ inv[i].at = "off"
  /\ Callers(i) = {}
  /\ \/ Free /\ lock' = Locked(i) /\ UNCHANGED faults
        /\ inv' = [ inv EXCEPT ![i] = [ Off EXCEPT !.at = "describe", !.left = Runtime, !.retire = m ] ]
     \/ ~Free /\ UNCHANGED << lock, faults >>
        /\ inv' = [ inv EXCEPT ![i] = [ Off EXCEPT !.retire = m ] ]
     \/ Fault /\ lock' \in { lock, IF Free THEN Locked(i) ELSE lock }
        /\ inv' = [ inv EXCEPT ![i] = [ Off EXCEPT !.retire = m ] ]

Scheduled(i) == Invoke(i, None) /\ UNCHANGED << fleetVars, jobVars >>

(* The release is conditional on the token; it may fail, and then the      *)
(* invocation raises.                                                      *)
Release(i) ==
  /\ inv[i].at = "release"
  /\ \/ /\ lock' = IF lock.token = i THEN [ token |-> None, ttl |-> 0 ] ELSE lock
        /\ inv' = [ inv EXCEPT ![i] = [ Off EXCEPT !.retire = inv[i].retire, !.ok = inv[i].ok ] ]
        /\ UNCHANGED faults
     \/ /\ Fault
        /\ inv' = [ inv EXCEPT ![i] = [ Off EXCEPT !.retire = inv[i].retire ] ]
        /\ UNCHANGED lock
  /\ UNCHANGED << fleetVars, jobVars >>

(* Lambda ends an invocation whose calls took too long, wherever it is.    *)
TimesOut(i) ==
  /\ inv[i].at \in Inside
  /\ inv[i].left = 0
  /\ Fault
  /\ inv' = [ inv EXCEPT ![i] = [ Off EXCEPT !.retire = inv[i].retire ] ]
  /\ UNCHANGED << lock, fleetVars, jobVars >>

Less(n) == IF n = 0 THEN 0 ELSE n - 1

Tick ==
  /\ lock.ttl > 0
  /\ \A i \in Invocations : inv[i].at \in Inside => inv[i].left > 0
  /\ inv' = [ i \in Invocations |-> [ inv[i] EXCEPT !.left = Less(@) ] ]
  /\ lock' = [ lock EXCEPT !.ttl = Less(@) ]
  /\ UNCHANGED << fleetVars, jobVars, faults >>

-----------------------------------------------------------------------------
(* reconcile: any of its calls may fail, and the lock is given back.       *)

Changes(g) == group' = g /\ seen' = group

Goto(i, r) == inv' = [ inv EXCEPT ![i] = r ] /\ UNCHANGED lock

Raises(i) ==
  /\ inv[i].at \in Inside \ { "release" }
  /\ Fault
  /\ Goto(i, [ inv[i] EXCEPT !.at = "release", !.ok = FALSE ])
  /\ UNCHANGED << fleetVars, jobVars >>

Describe(i) ==
  /\ inv[i].at = "describe"
  /\ \E g \in { group, seen } :
       /\ IF g = group THEN UNCHANGED faults ELSE Fault
       /\ Goto(i, [ inv[i] EXCEPT !.group = g,
                 !.at = IF inv[i].retire # None /\ inv[i].retire \in Members(g)
                        THEN "retire" ELSE "expire" ])
  /\ UNCHANGED << fleetVars, jobVars >>

Decremented_Unclipped(n) == n - 1
Decremented(n)           == Less(n)

Without_KeepsRow(g, m) == [ g EXCEPT !.desired = Decremented(@) ]
Without(g, m) ==
  [ desired |-> Decremented(g.desired), state |-> [ g.state EXCEPT ![m] = "none" ] ]

(* terminate_instance_in_auto_scaling_group with the capacity decremented; *)
(* for a machine that is already leaving it fails.                         *)
Retire(i) ==
  LET m == inv[i].retire
  IN  /\ inv[i].at = "retire"
      /\ IF m \in Members(group)
         THEN /\ Changes([ desired |-> Decremented(group.desired),
                            state |-> [ group.state EXCEPT ![m] = "terminating" ] ])
              /\ Goto(i, [ inv[i] EXCEPT !.at = "expire", !.group = Without(@, m) ])
         ELSE /\ Goto(i, [ inv[i] EXCEPT !.at = "release" ])
              /\ UNCHANGED << group, seen >>
      /\ UNCHANGED << vm, jobVars, faults >>

(* A job whose machine is gone has stopped renewing its lease.             *)
Lapsed_Never == {}
Lapsed       == { u \in Users : running[u] # None /\ vm[running[u]].at # "work" }

Expire(i) ==
  /\ inv[i].at = "expire"
  /\ active' = [ u \in Users |-> IF u \in Lapsed THEN active[u] - 1 ELSE active[u] ]
  /\ running' = [ u \in Users |-> IF u \in Lapsed THEN None ELSE running[u] ]
  /\ Goto(i, [ inv[i] EXCEPT !.at = "decide" ])
  /\ UNCHANGED << fleetVars, jobs, faults >>

AtLeast(a, b) == IF a > b THEN a ELSE b
AtMost(a, b)  == IF a < b THEN a ELSE b

(* Every machine counts as protected: runplane.tf launches it so.          *)
Capacity(owners, g) == AtMost(MaxSize, AtLeast(owners, Cardinality(Members(g))))

Owners == Cardinality({ u \in Users : active[u] > 0 })

Decide(i) ==
  LET want == Capacity(Owners, inv[i].group)
  IN  /\ inv[i].at = "decide"
      /\ Goto(i, [ inv[i] EXCEPT !.want = want, !.ok = TRUE,
                                 !.at = IF want = inv[i].group.desired THEN "release" ELSE "set" ])
      /\ UNCHANGED << fleetVars, jobVars, faults >>

Set(i) ==
  /\ inv[i].at = "set"
  /\ Changes([ group EXCEPT !.desired = inv[i].want ])
  /\ Goto(i, [ inv[i] EXCEPT !.at = "release" ])
  /\ UNCHANGED << vm, jobVars, faults >>

-----------------------------------------------------------------------------
(* The machines and the group.                                             *)

Become(m, v) == vm' = [ vm EXCEPT ![m] = v ] /\ UNCHANGED << group, seen, lock, inv >>

Move(m, g, v) ==
  /\ Changes([ group EXCEPT !.state[m] = g ])
  /\ vm' = [ vm EXCEPT ![m] = v ]
  /\ UNCHANGED << lock, inv >>

Submit(u) ==
  /\ jobs < MaxJobs
  /\ jobs' = jobs + 1
  /\ active' = [ active EXCEPT ![u] = @ + 1 ]
  /\ UNCHANGED << fleetVars, lock, inv, running, faults >>

Launch(m) ==
  /\ group.state[m] = "none"
  /\ Cardinality(Members(group)) < group.desired
  /\ \A i \in Invocations : inv[i].retire # m
  /\ Move(m, "pending", [ Removed EXCEPT !.at = "boot" ])
  /\ UNCHANGED << jobVars, faults >>

(* ready() completes the launch hook, and writes READY when it finds the   *)
(* machine in service; what follows may still fail, and then the service   *)
(* does not start but ExecStopPost runs.                                   *)
EnterService(m) ==
  /\ vm[m].at = "boot" /\ group.state[m] = "pending"
  /\ Move(m, "service", vm[m])
  /\ UNCHANGED << jobVars, faults >>

Ready(m) ==
  /\ vm[m].at = "boot" /\ group.state[m] = "service"
  /\ \/ Become(m, [ vm[m] EXCEPT !.at = "poll" ]) /\ UNCHANGED faults
     \/ Become(m, [ vm[m] EXCEPT !.at = "retire" ]) /\ Fault
  /\ UNCHANGED jobVars

Waiting == { u \in Users : active[u] > 0 /\ running[u] = None }

Take(m) ==
  \E u \in Waiting :
    /\ vm[m].at = "poll"
    /\ Become(m, [ vm[m] EXCEPT !.at = "work", !.user = u ])
    /\ running' = [ running EXCEPT ![u] = m ]
    /\ UNCHANGED << active, jobs, faults >>

(* --retire-after-job: the row is settled, what is left is published.      *)
Finish(m) ==
  LET u == vm[m].user
  IN  /\ vm[m].at = "work"
      /\ Become(m, [ vm[m] EXCEPT !.at = "wrap" ])
      /\ IF running[u] = m
         THEN /\ active' = [ active EXCEPT ![u] = @ - 1 ]
              /\ running' = [ running EXCEPT ![u] = None ]
         ELSE UNCHANGED << active, running >>
      /\ UNCHANGED << jobs, faults >>

(* The worker ends after its job, or after a minute without one.           *)
Leave(m) ==
  /\ vm[m].at = "wrap" \/ (vm[m].at = "poll" /\ Waiting = {})
  /\ Become(m, [ vm[m] EXCEPT !.at = "retire" ])
  /\ UNCHANGED << jobVars, faults >>

Call(m, i) ==
  /\ vm[m].at = "retire" /\ vm[m].call = None /\ vm[m].calls < Attempts
  /\ Invoke(i, m)
  /\ vm' = [ vm EXCEPT ![m].call = i ]
  /\ UNCHANGED << group, seen, jobVars >>

(* The machine shuts down when the controller has agreed, and also when    *)
(* its last call has failed.                                               *)
Again(v) == [ v EXCEPT !.call = None, !.calls = @ + 1 ]

AfterCall_Waits(v) == Again(v)
AfterCall(v)       == IF v.calls + 1 = Attempts THEN Removed ELSE Again(v)

Answered(m) ==
  /\ vm[m].call # None
  /\ inv[vm[m].call].at = "off"
  /\ Become(m, IF inv[vm[m].call].ok THEN Removed ELSE AfterCall(vm[m]))
  /\ UNCHANGED << jobVars, faults >>

Unanswered(m) ==
  /\ vm[m].call # None
  /\ Fault
  /\ Become(m, AfterCall(vm[m]))
  /\ UNCHANGED jobVars

Lost(m) ==
  /\ vm[m].at # "off"
  /\ Fault
  /\ Become(m, Removed)
  /\ UNCHANGED jobVars

(* Every machine is launched protected from scale-in, which starts with    *)
(* InService: only booting machines are removed for being too many.        *)
TooMany_Unprotected(m) == Cardinality(Members(group)) > group.desired
TooMany(m) == group.state[m] = "pending" /\ Cardinality(Members(group)) > group.desired

(* Health checks and the hook's timeout remove a machine that is down.     *)
Removes(m) ==
  /\ group.state[m] # "none"
  /\ group.state[m] = "terminating" \/ vm[m].at = "off" \/ TooMany(m)
  /\ Move(m, "none", Removed)
  /\ UNCHANGED << jobVars, faults >>

-----------------------------------------------------------------------------

Step(i) == \/ Describe(i) \/ Retire(i) \/ Expire(i) \/ Decide(i) \/ Set(i) \/ Release(i)

Machine(m) == \/ Launch(m) \/ EnterService(m) \/ Ready(m) \/ Take(m) \/ Finish(m)
              \/ Leave(m) \/ Answered(m) \/ Removes(m)
              \/ \E i \in Invocations : Call(m, i)

Next ==
  \/ Tick
  \/ \E i \in Invocations : Scheduled(i) \/ Step(i) \/ Raises(i) \/ TimesOut(i)
  \/ \E m \in Machines : Machine(m) \/ Unanswered(m) \/ Lost(m)
  \/ \E u \in Users : Submit(u)

Spec == Init /\ [][Next]_vars

(* The schedule fires every minute, calls return, machines boot and the    *)
(* group does what it is asked to; of machines launched again and again    *)
(* one gets into service before the group takes it back.  No fairness for  *)
(* failures or users.                                                      *)
Fairness ==
  /\ WF_vars(Tick)
  /\ \A i \in Invocations : WF_vars(Scheduled(i)) /\ WF_vars(Step(i))
  /\ \A m \in Machines : WF_vars(Machine(m)) /\ SF_vars(EnterService(m))

(* A machine asks five times over fifteen seconds, and a decision takes a  *)
(* few, once a minute or when a job is submitted: the last of the calls is *)
(* not refused again and again.                                            *)
Uncontended ==
  <>[][ \A m \in Machines, i \in Invocations :
          vm[m].calls + 1 = Attempts /\ ~Free => ~Call(m, i) ]_vars

FairSpec == Spec /\ Fairness /\ Uncontended

-----------------------------------------------------------------------------

TypeOK ==
  /\ group \in [ desired : 0 .. MaxSize, state : [ Machines -> { "none", "pending", "service", "terminating" } ] ]
  /\ lock \in [ token : Invocations \cup {None}, ttl : 0 .. Runtime + Slack ]
  /\ \A i \in Invocations :
       /\ inv[i].at \in Inside \cup { "off" }
       /\ inv[i].left \in 0 .. Runtime
       /\ inv[i].retire \in Machines \cup {None}
       /\ inv[i].want \in 0 .. MaxSize
  /\ vm \in [ Machines -> [ at : { "off", "boot", "poll", "work", "wrap", "retire" },
                            user : Users \cup {None}, calls : 0 .. Attempts,
                            call : Invocations \cup {None} ] ]
  /\ active \in [ Users -> 0 .. MaxJobs ]
  /\ running \in [ Users -> Machines \cup {None} ]

(* Two invocations never decide at the same time: the lock outlives the    *)
(* invocation that took it, even when its PutItem or its release failed    *)
(* or Lambda ended it (controller_lock).                                   *)
OneDecider ==
  \A i, k \in Invocations : inv[i].at \in Inside /\ inv[k].at \in Inside => i = k

(* Neither a shrinking demand nor a repeated, late or stale retirement     *)
(* removes a machine that is at work or publishing a result (reconcile).   *)
WorkingIsKept ==
  [][ \A m \in Machines :
        vm[m].at \in { "work", "wrap" } => group'.state[m] \in { "service", group.state[m] } ]_vars

(* A retirement is not answered with a replacement nobody needs: an        *)
(* invocation that has retired its caller asks for machines for the owners *)
(* and for the other members it saw, not for the one it removed            *)
(* (reconcile's use of the acknowledged mutation).                         *)
NotReplaced ==
  [][ \A i \in Invocations :
        LET others == Members(inv[i].group) \ {inv[i].retire}
        IN  inv[i].at = "decide" /\ inv'[i].at = "set"
              => inv'[i].want <= AtLeast(Owners, Cardinality(others)) ]_vars

(* Whatever fails, the jobs of every user are worked off or failed, and    *)
(* the fleet then goes back to no machine at all (the schedule repairs     *)
(* what a notification or a retirement missed).                            *)
DemandIsServed == \A u \in Users : active[u] > 0 ~> active[u] = 0

FleetDrains == <>[](group.desired = 0 /\ Members(group) = {})

(* The controller in every state and in every step: one decides, on a      *)
(* machine that may go, for a capacity that is needed.                     *)
FleetSafety == TypeOK /\ OneDecider
FleetSteps  == WorkingIsKept /\ NotReplaced

(* Both directions of the demand are followed in the end.                  *)
DemandIsFollowed == DemandIsServed /\ FleetDrains

=============================================================================
