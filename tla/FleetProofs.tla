-------------------------- MODULE FleetProofs ---------------------------
(***************************************************************************)
(* Proofs about CloudFleet for any number of machines, users, invocations, *)
(* jobs and failures, any lease of the lock and any size of the group, and *)
(* about Migration for any jobs and any number of runs of the script,      *)
(* killed anywhere.                                                        *)
(***************************************************************************)
EXTENDS CloudFleet, Migration, FiniteSetTheorems, TLAPS

States == { "none", "pending", "service", "terminating" }
Group  == [ desired : 0 .. MaxSize, state : [ Machines -> States ] ]
Inv    == [ at : Inside \cup { "off" }, left : 0 .. Runtime, retire : Machines \cup {None},
            group : Group \cup {None}, want : 0 .. MaxSize, ok : BOOLEAN ]
Vm     == [ at : { "off", "boot", "poll", "work", "wrap", "retire" }, user : Users \cup {None},
            calls : 0 .. Attempts, call : Invocations \cup {None} ]

TypeInv ==
  /\ group \in Group /\ seen \in Group
  /\ lock \in [ token : Invocations \cup {None}, ttl : 0 .. Runtime + Slack ]
  /\ inv \in [ Invocations -> Inv ]
  /\ vm \in [ Machines -> Vm ]
  /\ active \in [ Users -> Nat ] /\ running \in [ Users -> Machines \cup {None} ]
  /\ jobs \in 0 .. MaxJobs

(* Whoever is inside holds the lock, for longer than it can live.          *)
LockInv ==
  \A i \in Invocations : inv[i].at \in Inside => lock.token = i /\ lock.ttl >= inv[i].left + Slack

(* A machine that is, or is about to be, at work is in service; and one    *)
(* that an invocation is to retire has left its work for good.             *)
ServiceInv ==
  \A m \in Machines : vm[m].at \in { "poll", "work", "wrap" } => group.state[m] = "service"

RetireInv ==
  \A i \in Invocations :
    inv[i].at \in Inside /\ inv[i].retire # None => vm[inv[i].retire].at \in { "retire", "off" }

(* What an invocation has in hand of the group, without its caller once    *)
(* that is retired.                                                        *)
SeenBy(r) ==
  /\ r.at \in { "retire", "expire", "decide" } => r.group \in Group
  /\ r.at = "retire" => r.retire \in Machines
  /\ r.at \in { "expire", "decide" } => r.retire \notin Members(r.group)

SeenInv == \A i \in Invocations : SeenBy(inv[i])

(* A claimed job is one of its user's active jobs; calls are counted.      *)
CountInv ==
  /\ \A u \in Users : active[u] <= jobs /\ (running[u] # None => active[u] >= 1)
  /\ \A m \in Machines : vm[m].calls < Attempts

IInv == TypeInv /\ LockInv /\ ServiceInv /\ RetireInv /\ SeenInv /\ CountInv

(* The effect of a step of one invocation, its lock aside: it goes on, or  *)
(* is over.                                                                *)
Proceeds(i) ==
  /\ inv' \in [ Invocations -> Inv ]
  /\ \A k \in Invocations : k # i => inv'[k] = inv[k]
  /\ inv'[i].at \in Inside => inv[i].at \in Inside
  /\ inv'[i].left <= inv[i].left
  /\ inv'[i].retire = inv[i].retire
  /\ SeenBy(inv'[i])

(* The effect of a step of one machine: it may leave its work, and it does *)
(* not go back to it.                                                      *)
Becomes(m, v) ==
  /\ vm' \in [ Machines -> Vm ]
  /\ \A k \in Machines : k # m => vm'[k] = vm[k]
  /\ vm'[m] = v

-----------------------------------------------------------------------------
(* What the constants and the size of the group give.                      *)

LEMMA ConstantsAre ==
  /\ Runtime \in Nat /\ Slack \in Nat \ {0} /\ MaxSize \in Nat /\ MaxJobs \in Nat
  /\ Attempts \in Nat \ {0} /\ None \notin Machines /\ None \notin Invocations
BY CloudFleetAssumption

LEMMA FiniteSizes ==
  ASSUME NEW g
  PROVE  Cardinality(Members(g)) \in Nat /\ Owners \in Nat
<1>1. IsFiniteSet(Members(g))
  BY FS_Subset, CloudFleetAssumption DEF Members
<1>2. IsFiniteSet({ u \in Users : active[u] > 0 })
  BY FS_Subset, CloudFleetAssumption
<1> QED BY <1>1, <1>2, FS_CardinalityType DEF Owners

LEMMA CapacityIs ==
  ASSUME NEW g
  PROVE  /\ Capacity(Owners, g) \in 0 .. MaxSize
         /\ Capacity(Owners, g) <= AtLeast(Owners, Cardinality(Members(g)))
BY FiniteSizes, ConstantsAre DEF Capacity, AtMost, AtLeast

LEMMA LessIs == ASSUME NEW n \in Nat PROVE Less(n) \in 0 .. n /\ (n > 0 => Less(n) = n - 1)
BY DEF Less

LEMMA OffIs == /\ Off \in Inv /\ Off.at = "off" /\ Off.left = 0 /\ Off.retire = None
BY ConstantsAre DEF Off, Inv

LEMMA RemovedIs == /\ Removed \in Vm /\ Removed.at = "off" /\ Removed.calls = 0
BY ConstantsAre DEF Removed, Vm

-----------------------------------------------------------------------------
(* The invocations.                                                        *)

LEMMA InvokeIs ==
  ASSUME TypeInv, NEW i \in Invocations, NEW m \in Machines \cup {None}, Invoke(i, m)
  PROVE  /\ inv' \in [ Invocations -> Inv ]
         /\ \A k \in Invocations : k # i => inv'[k] = inv[k]
         /\ inv[i].at = "off" /\ inv'[i].retire = m /\ inv'[i].at \in { "off", "describe" }
         /\ inv'[i].at = "describe" => Free /\ lock' = Locked(i) /\ inv'[i].left = Runtime
         /\ lock' = lock \/ (Free /\ lock' = Locked(i))
<1> DEFINE a == [ Off EXCEPT !.at = "describe", !.left = Runtime, !.retire = m ]
           b == [ Off EXCEPT !.retire = m ]
<1>1. a \in Inv /\ a.at = "describe" /\ a.left = Runtime /\ a.retire = m
  <2>0. DEFINE o == Off
  <2>1. o \in Inv
    BY OffIs
  <2> HIDE DEF o
  <2>a. "describe" \in Inside \cup { "off" } /\ Runtime \in 0 .. Runtime
    BY ConstantsAre DEF Inside
  <2>2. [ o EXCEPT !.at = "describe", !.left = Runtime, !.retire = m ] \in Inv
    BY <2>1, <2>a DEF Inv
  <2>3. LET r == [ o EXCEPT !.at = "describe", !.left = Runtime, !.retire = m ]
        IN  r.at = "describe" /\ r.left = Runtime /\ r.retire = m
    BY <2>1 DEF Inv
  <2> QED BY <2>2, <2>3 DEF o
<1>2. b \in Inv /\ b.at = "off" /\ b.retire = m
  <2>0. DEFINE o == Off
  <2>1. o \in Inv /\ o.at = "off"
    BY OffIs
  <2> HIDE DEF o
  <2>2. [ o EXCEPT !.retire = m ] \in Inv
    BY <2>1 DEF Inv
  <2>3. [ o EXCEPT !.retire = m ].at = "off" /\ [ o EXCEPT !.retire = m ].retire = m
    BY <2>1 DEF Inv
  <2> QED BY <2>2, <2>3 DEF o
<1>3. inv[i].at = "off"
  BY DEF Invoke
<1>4. \/ Free /\ lock' = Locked(i) /\ inv' = [ inv EXCEPT ![i] = a ]
      \/ inv' = [ inv EXCEPT ![i] = b ] /\ (lock' = lock \/ (Free /\ lock' = Locked(i)))
  BY Zenon DEF Invoke
<1> HIDE DEF a, b
<1> QED BY <1>1, <1>2, <1>3, <1>4 DEF TypeInv

LEMMA ProceedsKeeps ==
  ASSUME IInv, NEW i \in Invocations, Proceeds(i), UNCHANGED lock, UNCHANGED vm
  PROVE  LockInv' /\ RetireInv' /\ SeenInv'
<1>1. LockInv'
  BY ConstantsAre DEF IInv, TypeInv, LockInv, Proceeds, Inv
<1>2. RetireInv'
  BY DEF IInv, TypeInv, RetireInv, Proceeds
<1>3. SeenInv'
  BY DEF IInv, SeenInv, SeenBy, Proceeds, Members
<1> QED BY <1>1, <1>2, <1>3

LEMMA SetIs ==
  ASSUME TypeInv, NEW i \in Invocations, NEW r \in Inv, inv' = [ inv EXCEPT ![i] = r ],
         r.at \in Inside => inv[i].at \in Inside, r.left <= inv[i].left,
         r.retire = inv[i].retire, SeenBy(r)
  PROVE  Proceeds(i) /\ inv'[i] = r
BY DEF TypeInv, Proceeds

LEMMA OverIs ==
  ASSUME TypeInv, NEW i \in Invocations, NEW b \in BOOLEAN, NEW r,
         r = [ Off EXCEPT !.retire = inv[i].retire, !.ok = b ] \/ r = [ Off EXCEPT !.retire = inv[i].retire ]
  PROVE  r \in Inv /\ r.at = "off" /\ r.left = 0 /\ r.retire = inv[i].retire /\ SeenBy(r)
<1>0. DEFINE o == Off
<1>1. o \in Inv /\ o.at = "off" /\ o.left = 0
  BY OffIs
<1>2. inv[i].retire \in Machines \cup {None}
  BY DEF TypeInv, Inv
<1>3. r = [ o EXCEPT !.retire = inv[i].retire, !.ok = b ] \/ r = [ o EXCEPT !.retire = inv[i].retire ]
  OBVIOUS
<1> HIDE DEF o
<1>4. r \in Inv
  BY <1>1, <1>2, <1>3 DEF Inv
<1>5. r.at = "off" /\ r.left = 0 /\ r.retire = inv[i].retire
  BY <1>1, <1>3 DEF Inv
<1> QED BY <1>4, <1>5 DEF SeenBy

Step1(i) == Proceeds(i) /\ UNCHANGED << lock, vm >>

LEMMA ReleaseIs ==
  ASSUME TypeInv, NEW i \in Invocations, Release(i)
  PROVE  /\ Proceeds(i) /\ inv'[i].at = "off" /\ inv[i].at = "release"
         /\ lock' = lock \/ (lock.token = i /\ lock' = [ token |-> None, ttl |-> 0 ])
         /\ UNCHANGED << fleetVars, jobVars >>
<1>1. PICK r : /\ inv' = [ inv EXCEPT ![i] = r ]
               /\ \/ r = [ Off EXCEPT !.retire = inv[i].retire, !.ok = inv[i].ok ]
                  \/ r = [ Off EXCEPT !.retire = inv[i].retire ]
  BY Zenon DEF Release
<1>2. inv[i].ok \in BOOLEAN /\ inv[i].left >= 0
  BY ConstantsAre DEF TypeInv, Inv
<1>3. r \in Inv /\ r.at = "off" /\ r.left = 0 /\ r.retire = inv[i].retire /\ SeenBy(r)
  BY <1>1, <1>2, OverIs
<1>4. Proceeds(i) /\ inv'[i] = r
  BY <1>1, <1>2, <1>3, SetIs DEF Inside
<1>5. inv[i].at = "release" /\ UNCHANGED << fleetVars, jobVars >>
  BY DEF Release
<1>6. lock' = lock \/ (lock.token = i /\ lock' = [ token |-> None, ttl |-> 0 ])
  BY DEF Release
<1> QED BY <1>3, <1>4, <1>5, <1>6

LEMMA TimesOutIs ==
  ASSUME TypeInv, NEW i \in Invocations, TimesOut(i)
  PROVE  Step1(i) /\ inv'[i].at = "off" /\ UNCHANGED << fleetVars, jobVars >>
<1> DEFINE r == [ Off EXCEPT !.retire = inv[i].retire ]
<1>1. r \in Inv /\ r.at = "off" /\ r.left = 0 /\ r.retire = inv[i].retire /\ SeenBy(r)
  BY OverIs
<1>2. inv' = [ inv EXCEPT ![i] = r ] /\ UNCHANGED << lock, fleetVars, jobVars >>
  BY DEF TimesOut
<1>3. inv[i].left >= 0
  BY ConstantsAre DEF TypeInv, Inv
<1> HIDE DEF r
<1>4. Proceeds(i) /\ inv'[i] = r
  BY <1>1, <1>2, <1>3, SetIs DEF Inside
<1> QED BY <1>1, <1>2, <1>4 DEF Step1, fleetVars

LEMMA RaisesIs ==
  ASSUME TypeInv, NEW i \in Invocations, Raises(i)
  PROVE  Step1(i) /\ inv'[i].at = "release" /\ UNCHANGED << fleetVars, jobVars >>
<1> DEFINE q == inv[i]
           r == [ q EXCEPT !.at = "release", !.ok = FALSE ]
<1>1. q \in Inv /\ inv[i].at \in Inside
  BY DEF TypeInv, Raises
<1>2. inv' = [ inv EXCEPT ![i] = r ] /\ UNCHANGED << lock, fleetVars, jobVars >>
  BY DEF Raises, Goto
<1>3. q = inv[i]
  OBVIOUS
<1> HIDE DEF q
<1>4. r \in Inv
  BY <1>1 DEF Inv, Inside
<1>5. r.at = "release" /\ r.left = q.left /\ r.retire = q.retire
  BY <1>1 DEF Inv
<1>6. q.left <= q.left
  BY <1>1, ConstantsAre DEF Inv
<1> HIDE DEF r
<1>7. SeenBy(r)
  BY <1>5 DEF SeenBy
<1>8. Proceeds(i) /\ inv'[i] = r
  BY <1>1, <1>2, <1>3, <1>4, <1>5, <1>6, <1>7, SetIs DEF Inside
<1> QED BY <1>2, <1>5, <1>8 DEF Step1, fleetVars

LEMMA DescribeIs ==
  ASSUME TypeInv, NEW i \in Invocations, Describe(i)
  PROVE  Step1(i) /\ inv'[i].at # "set" /\ UNCHANGED << fleetVars, jobVars >>
<1> DEFINE q == inv[i]
<1>1. q \in Inv /\ inv[i].at \in Inside
  BY DEF TypeInv, Describe, Inside
<1>2. PICK g \in Group, a \in { "retire", "expire" } :
         /\ inv' = [ inv EXCEPT ![i] = [ q EXCEPT !.group = g, !.at = a ] ]
         /\ a = IF q.retire # None /\ q.retire \in Members(g) THEN "retire" ELSE "expire"
  <2>1. PICK g \in { group, seen } :
          inv' = [ inv EXCEPT ![i] = [ inv[i] EXCEPT !.group = g,
                    !.at = IF inv[i].retire # None /\ inv[i].retire \in Members(g)
                           THEN "retire" ELSE "expire" ] ]
    BY DEF Describe, Goto
  <2>2. g \in Group
    BY <2>1 DEF TypeInv
  <2> DEFINE a == IF inv[i].retire # None /\ inv[i].retire \in Members(g) THEN "retire" ELSE "expire"
  <2>3. a \in { "retire", "expire" }
    OBVIOUS
  <2>4. inv' = [ inv EXCEPT ![i] = [ q EXCEPT !.group = g, !.at = a ] ]
    BY <2>1
  <2>5. a = IF q.retire # None /\ q.retire \in Members(g) THEN "retire" ELSE "expire"
    OBVIOUS
  <2> HIDE DEF a, q
  <2> QED BY <2>2, <2>3, <2>4, <2>5
<1>3. UNCHANGED << lock, fleetVars, jobVars >>
  BY DEF Describe, Goto
<1>4. q = inv[i]
  OBVIOUS
<1> HIDE DEF q
<1> DEFINE r == [ q EXCEPT !.group = g, !.at = a ]
<1>5. r \in Inv
  BY <1>1, <1>2 DEF Inv, Inside
<1>6. r.at = a /\ r.left = q.left /\ r.retire = q.retire /\ r.group = g
  BY <1>1 DEF Inv
<1>7. q.left <= q.left /\ q.retire \in Machines \cup {None}
  BY <1>1, ConstantsAre DEF Inv
<1>8. None \notin Members(g)
  BY ConstantsAre DEF Members
<1>9. inv' = [ inv EXCEPT ![i] = r ]
  BY <1>2
<1> HIDE DEF r
<1>10. SeenBy(r)
  BY <1>2, <1>6, <1>7, <1>8 DEF SeenBy
<1>11. Proceeds(i) /\ inv'[i] = r
  BY <1>1, <1>4, <1>5, <1>6, <1>7, <1>9, <1>10, SetIs
<1> QED BY <1>2, <1>3, <1>6, <1>11 DEF Step1, fleetVars

LEMMA WithoutIs ==
  ASSUME NEW g \in Group, NEW m \in Machines
  PROVE  Without(g, m) \in Group /\ m \notin Members(Without(g, m))
BY LessIs, ConstantsAre DEF Without, Decremented, Less, Group, States, Members

LEMMA RetireIs ==
  ASSUME TypeInv, SeenInv, NEW i \in Invocations, Retire(i)
  PROVE  /\ Step1(i) /\ inv'[i].at \in { "expire", "release" } /\ UNCHANGED jobVars
         /\ inv[i].at = "retire" /\ inv[i].retire \in Machines
         /\ group' \in Group /\ seen' \in Group
         /\ \A k \in Machines : k # inv[i].retire => group'.state[k] = group.state[k]
<1> DEFINE q == inv[i]
           m == q.retire
<1>1. q \in Inv /\ q.at = "retire" /\ inv[i].at \in Inside
  BY DEF TypeInv, Retire, Inside
<1>2. m \in Machines /\ q.group \in Group
  BY <1>1 DEF SeenInv, SeenBy
<1>3. UNCHANGED << lock, vm, jobVars >>
  BY DEF Retire, Goto
<1>4. q = inv[i] /\ q.left <= q.left
  BY <1>1, ConstantsAre DEF Inv
<1>5. CASE m \in Members(group)
  <2> DEFINE w == Without(q.group, m)
             r == [ q EXCEPT !.at = "expire", !.group = w ]
             h == [ desired |-> Decremented(group.desired),
                    state |-> [ group.state EXCEPT ![m] = "terminating" ] ]
  <2>1. group' = h /\ seen' = group
    BY <1>5 DEF Retire, Changes
  <2>2. inv' = [ inv EXCEPT ![i] = r ]
    BY <1>5 DEF Retire, Goto
  <2>3. w \in Group /\ m \notin Members(w)
    BY <1>2, WithoutIs
  <2>4. h \in Group
    BY <1>2, LessIs, ConstantsAre DEF TypeInv, Group, States, Decremented, Less
  <2>5. \A k \in Machines : k # m => h.state[k] = group.state[k]
    BY <1>2 DEF TypeInv, Group
  <2> HIDE DEF w, h, q
  <2>6. r \in Inv
    BY <1>1, <2>3 DEF Inv, Inside
  <2>7. r.at = "expire" /\ r.left = q.left /\ r.retire = q.retire /\ r.group = w
    BY <1>1 DEF Inv
  <2> HIDE DEF r
  <2>8. SeenBy(r)
    BY <2>3, <2>7 DEF SeenBy
  <2>9. Proceeds(i) /\ inv'[i] = r
    BY <1>1, <1>4, <2>2, <2>6, <2>7, <2>8, SetIs
  <2>10. seen' \in Group
    BY <2>1 DEF TypeInv
  <2> QED BY <1>1, <1>2, <1>3, <1>4, <2>1, <2>4, <2>5, <2>7, <2>9, <2>10 DEF Step1
<1>6. CASE m \notin Members(group)
  <2> DEFINE r == [ q EXCEPT !.at = "release" ]
  <2>1. group' = group /\ seen' = seen /\ group' \in Group /\ seen' \in Group
    BY <1>6 DEF Retire, TypeInv
  <2>2. inv' = [ inv EXCEPT ![i] = r ]
    BY <1>6 DEF Retire, Goto
  <2> HIDE DEF q
  <2>3. r \in Inv
    BY <1>1 DEF Inv, Inside
  <2>4. r.at = "release" /\ r.left = q.left /\ r.retire = q.retire
    BY <1>1 DEF Inv
  <2> HIDE DEF r
  <2>5. SeenBy(r)
    BY <2>4 DEF SeenBy
  <2>6. Proceeds(i) /\ inv'[i] = r
    BY <1>1, <1>4, <2>2, <2>3, <2>4, <2>5, SetIs
  <2> QED BY <1>1, <1>2, <1>3, <1>4, <2>1, <2>4, <2>6 DEF Step1
<1> QED BY <1>5, <1>6

LEMMA GotoIs ==
  ASSUME TypeInv, SeenInv, NEW i \in Invocations, NEW a \in { "decide", "release" },
         a = "decide" => inv[i].at = "expire", inv[i].at \in Inside,
         Goto(i, [ inv[i] EXCEPT !.at = a ])
  PROVE  Proceeds(i) /\ UNCHANGED lock /\ inv'[i].at = a
<1> DEFINE q == inv[i]
           r == [ q EXCEPT !.at = a ]
<1>1. q \in Inv /\ SeenBy(q)
  BY DEF TypeInv, SeenInv
<1>2. inv' = [ inv EXCEPT ![i] = r ] /\ UNCHANGED lock
  BY DEF Goto
<1>3. q = inv[i] /\ q.left <= q.left
  BY <1>1, ConstantsAre DEF Inv
<1> HIDE DEF q
<1>4. r \in Inv
  BY <1>1 DEF Inv, Inside
<1>5. r.at = a /\ r.left = q.left /\ r.retire = q.retire /\ r.group = q.group
  BY <1>1 DEF Inv
<1> HIDE DEF r
<1>6. SeenBy(r)
  BY <1>1, <1>3, <1>5 DEF SeenBy
<1>7. Proceeds(i) /\ inv'[i] = r
  BY <1>2, <1>3, <1>4, <1>5, <1>6, SetIs
<1> QED BY <1>2, <1>5, <1>7

LEMMA ExpireIs ==
  ASSUME TypeInv, SeenInv, CountInv, NEW i \in Invocations, Expire(i)
  PROVE  /\ Step1(i) /\ inv'[i].at = "decide" /\ inv[i].at = "expire"
         /\ UNCHANGED << fleetVars, jobs >>
         /\ active' \in [ Users -> Nat ] /\ running' \in [ Users -> Machines \cup {None} ]
         /\ \A u \in Users : active'[u] <= active[u] /\ (running'[u] # None => active'[u] >= 1)
<1>1. inv[i].at = "expire" /\ UNCHANGED << fleetVars, jobs >>
  BY DEF Expire
<1>2. Goto(i, [ inv[i] EXCEPT !.at = "decide" ])
  BY DEF Expire
<1>3. Proceeds(i) /\ UNCHANGED lock /\ inv'[i].at = "decide"
  <2>1. \A a \in { "decide", "release" } : a = "decide" => (Goto(i, [ inv[i] EXCEPT !.at = a ]) => Proceeds(i) /\ UNCHANGED lock /\ inv'[i].at = a)
    BY <1>1, GotoIs DEF Inside
  <2> QED BY <1>2, <2>1
<1>4. \A u \in Lapsed : u \in Users /\ active[u] >= 1
  BY DEF Lapsed, CountInv
<1>5. /\ active' = [ u \in Users |-> IF u \in Lapsed THEN active[u] - 1 ELSE active[u] ]
      /\ running' = [ u \in Users |-> IF u \in Lapsed THEN None ELSE running[u] ]
  BY DEF Expire
<1>6. active' \in [ Users -> Nat ]
  BY <1>4, <1>5 DEF TypeInv
<1>7. running' \in [ Users -> Machines \cup {None} ]
  BY <1>5 DEF TypeInv
<1>8. \A u \in Users : active'[u] <= active[u]
  BY <1>4, <1>5 DEF TypeInv
<1>9. \A u \in Users : running'[u] # None => active'[u] >= 1
  BY <1>5 DEF CountInv, TypeInv
<1> QED BY <1>1, <1>3, <1>6, <1>7, <1>8, <1>9 DEF Step1, fleetVars

LEMMA DecideIs ==
  ASSUME TypeInv, SeenInv, NEW i \in Invocations, Decide(i)
  PROVE  /\ Step1(i) /\ inv[i].at = "decide" /\ inv'[i].at \in { "set", "release" }
         /\ inv'[i].want = Capacity(Owners, inv[i].group)
         /\ UNCHANGED << fleetVars, jobVars >>
<1> DEFINE q == inv[i]
           w == Capacity(Owners, q.group)
           a == IF w = q.group.desired THEN "release" ELSE "set"
<1>1. q \in Inv /\ inv[i].at \in Inside /\ inv[i].at = "decide"
  BY DEF TypeInv, Decide, Inside
<1>2. w \in 0 .. MaxSize
  BY CapacityIs
<1>3. a \in { "set", "release" }
  OBVIOUS
<1>4. /\ inv' = [ inv EXCEPT ![i] = [ q EXCEPT !.want = w, !.ok = TRUE, !.at = a ] ]
      /\ UNCHANGED << lock, fleetVars, jobVars >>
  BY DEF Decide, Goto
<1>5. q = inv[i] /\ q.left <= q.left /\ w = Capacity(Owners, inv[i].group)
  BY <1>1, ConstantsAre DEF Inv
<1> DEFINE r == [ q EXCEPT !.want = w, !.ok = TRUE, !.at = a ]
<1> HIDE DEF q, w, a
<1>6. r \in Inv
  BY <1>1, <1>2, <1>3 DEF Inv, Inside
<1>7. r.at = a /\ r.left = q.left /\ r.retire = q.retire /\ r.want = w
  BY <1>1 DEF Inv
<1>8. inv' = [ inv EXCEPT ![i] = r ]
  BY <1>4
<1> HIDE DEF r
<1>9. SeenBy(r)
  BY <1>3, <1>7 DEF SeenBy
<1>10. Proceeds(i) /\ inv'[i] = r
  BY <1>1, <1>5, <1>6, <1>7, <1>8, <1>9, SetIs
<1> QED BY <1>1, <1>3, <1>4, <1>5, <1>7, <1>10 DEF Step1, fleetVars

LEMMA SetStepIs ==
  ASSUME TypeInv, SeenInv, NEW i \in Invocations, Set(i)
  PROVE  /\ Step1(i) /\ inv'[i].at = "release" /\ UNCHANGED jobVars
         /\ group' \in Group /\ seen' \in Group /\ group'.state = group.state
<1>1. inv[i].at = "set" /\ Goto(i, [ inv[i] EXCEPT !.at = "release" ]) /\ UNCHANGED << vm, jobVars >>
  BY DEF Set
<1>2. Proceeds(i) /\ UNCHANGED lock /\ inv'[i].at = "release"
  <2>1. \A a \in { "decide", "release" } : a = "release" => (Goto(i, [ inv[i] EXCEPT !.at = a ]) => Proceeds(i) /\ UNCHANGED lock /\ inv'[i].at = a)
    BY <1>1, GotoIs DEF Inside
  <2> QED BY <1>1, <2>1
<1>3. group' = [ group EXCEPT !.desired = inv[i].want ] /\ seen' = group
  BY DEF Set, Changes
<1>4. inv[i].want \in 0 .. MaxSize
  BY DEF TypeInv, Inv
<1>5. group' \in Group /\ seen' \in Group /\ group'.state = group.state
  BY <1>3, <1>4 DEF TypeInv, Group
<1> QED BY <1>1, <1>2, <1>5 DEF Step1

-----------------------------------------------------------------------------
(* The machines.                                                           *)

LEMMA VmIs ==
  ASSUME TypeInv, NEW m \in Machines, NEW v \in Vm, vm' = [ vm EXCEPT ![m] = v ]
  PROVE  Becomes(m, v)
BY DEF TypeInv, Becomes

LEMMA MoveIs ==
  ASSUME TypeInv, NEW m \in Machines, NEW g \in States, NEW v \in Vm, Move(m, g, v)
  PROVE  /\ Becomes(m, v) /\ UNCHANGED << lock, inv >>
         /\ group' \in Group /\ seen' \in Group /\ group'.state[m] = g
         /\ \A k \in Machines : k # m => group'.state[k] = group.state[k]
<1>1. /\ group' = [ group EXCEPT !.state[m] = g ] /\ seen' = group
      /\ vm' = [ vm EXCEPT ![m] = v ] /\ UNCHANGED << lock, inv >>
  BY DEF Move, Changes
<1>2. group \in Group
  BY DEF TypeInv
<1>3. group' \in Group /\ seen' \in Group /\ group'.state[m] = g
  BY <1>1, <1>2 DEF Group
<1>4. \A k \in Machines : k # m => group'.state[k] = group.state[k]
  BY <1>1, <1>2 DEF Group
<1> QED BY <1>1, <1>3, <1>4, VmIs

(* A machine that may ask again has not asked too often.                   *)
LEMMA AgainIs ==
  ASSUME NEW v \in Vm, v.calls < Attempts, v.calls + 1 # Attempts
  PROVE  Again(v) \in Vm /\ Again(v).at = v.at /\ Again(v).calls < Attempts
<1>1. v.calls \in 0 .. Attempts
  BY DEF Vm
<1>2. PICK n \in 0 .. Attempts : n = v.calls + 1 /\ n < Attempts
  BY <1>1, ConstantsAre
<1>3. Again(v) = [ v EXCEPT !.call = None, !.calls = n ]
  BY <1>2 DEF Again
<1>4. [ v EXCEPT !.call = None, !.calls = n ] \in Vm
  BY DEF Vm
<1>5. [ v EXCEPT !.call = None, !.calls = n ].at = v.at /\ [ v EXCEPT !.call = None, !.calls = n ].calls = n
  BY DEF Vm
<1> QED BY <1>2, <1>3, <1>4, <1>5

LEMMA VmTyped ==
  ASSUME TypeInv, CountInv, NEW m \in Machines
  PROVE  vm[m] \in Vm /\ vm[m].calls < Attempts
BY DEF TypeInv, CountInv

(* A machine that is retired or off stays so, and is not at work after a   *)
(* step that did not find it in service.                                   *)
LEMMA BecomesKeeps ==
  ASSUME IInv, NEW m \in Machines, NEW v \in Vm, Becomes(m, v), v.calls < Attempts,
         UNCHANGED << lock, inv >>,
         \A k \in Machines : k # m => group'.state[k] = group.state[k],
         v.at \in { "poll", "work", "wrap" } => group'.state[m] = "service",
         \/ v.at \in { "retire", "off" }
         \/ vm[m].at \notin { "retire", "off" }
         \/ \A i \in Invocations : inv[i].retire # m
  PROVE  /\ LockInv' /\ ServiceInv' /\ RetireInv' /\ SeenInv'
         /\ \A k \in Machines : vm'[k].calls < Attempts
<1>1. LockInv'
  BY DEF IInv, LockInv
<1>2. ServiceInv'
  BY DEF IInv, ServiceInv, Becomes
<1>3. RetireInv'
  <2> SUFFICES ASSUME NEW i \in Invocations, inv[i].at \in Inside, inv[i].retire # None
               PROVE  vm'[inv[i].retire].at \in { "retire", "off" }
    BY DEF RetireInv
  <2>1. inv[i].retire \in Machines /\ vm[inv[i].retire].at \in { "retire", "off" }
    BY DEF IInv, TypeInv, Inv, RetireInv
  <2> QED BY <2>1 DEF Becomes
<1>4. SeenInv'
  BY DEF IInv, SeenInv, SeenBy, Members
<1>5. \A k \in Machines : vm'[k].calls < Attempts
  BY DEF IInv, CountInv, Becomes
<1> QED BY <1>1, <1>2, <1>3, <1>4, <1>5

-----------------------------------------------------------------------------
(* Each step keeps the invariant.                                          *)

LEMMA InitHolds == Init => IInv
<1> SUFFICES ASSUME Init PROVE IInv
  OBVIOUS
<1> USE DEF Init
<1>1. group \in Group /\ seen \in Group
  BY ConstantsAre DEF Group, States
<1>2. lock \in [ token : Invocations \cup {None}, ttl : 0 .. Runtime + Slack ]
  BY ConstantsAre
<1>3. inv \in [ Invocations -> Inv ] /\ \A i \in Invocations : inv[i].at = "off"
  BY OffIs
<1>4. /\ vm \in [ Machines -> Vm ]
      /\ \A m \in Machines : vm[m].at = "off" /\ vm[m].calls < Attempts
  BY RemovedIs, ConstantsAre
<1>5. active \in [ Users -> Nat ] /\ running \in [ Users -> Machines \cup {None} ] /\ jobs \in 0 .. MaxJobs
  BY ConstantsAre
<1>6. TypeInv
  BY <1>1, <1>2, <1>3, <1>4, <1>5 DEF TypeInv
<1>7. LockInv /\ RetireInv /\ SeenInv
  BY <1>3 DEF LockInv, RetireInv, SeenInv, SeenBy, Inside
<1>8. ServiceInv
  BY <1>4 DEF ServiceInv
<1>9. CountInv
  <2>1. \A u \in Users : active[u] = 0 /\ running[u] = None /\ jobs = 0
    OBVIOUS
  <2> QED BY <1>4, <2>1 DEF CountInv
<1> QED BY <1>6, <1>7, <1>8, <1>9 DEF IInv

LEMMA StutterKeeps == ASSUME IInv, UNCHANGED vars PROVE IInv'
<1>1. /\ group' = group /\ seen' = seen /\ lock' = lock /\ inv' = inv /\ vm' = vm
      /\ active' = active /\ running' = running /\ jobs' = jobs
  BY DEF vars
<1>2. TypeInv' /\ CountInv'
  BY <1>1 DEF IInv, TypeInv, CountInv
<1>3. LockInv' /\ ServiceInv' /\ RetireInv'
  BY <1>1 DEF IInv, LockInv, ServiceInv, RetireInv
<1>4. SeenInv'
  BY <1>1 DEF IInv, SeenInv, SeenBy, Members
<1> QED BY <1>2, <1>3, <1>4 DEF IInv

(* A step that leaves the group and the jobs alone.                        *)
LEMMA QuietKeeps ==
  ASSUME IInv, NEW i \in Invocations, Step1(i), UNCHANGED << fleetVars, jobVars >>
  PROVE  IInv'
<1>1. Proceeds(i) /\ UNCHANGED lock /\ UNCHANGED vm
  BY DEF Step1
<1>2. LockInv' /\ RetireInv' /\ SeenInv'
  BY <1>1, ProceedsKeeps
<1>3. TypeInv' /\ ServiceInv' /\ CountInv'
  BY <1>1 DEF IInv, TypeInv, ServiceInv, CountInv, fleetVars, jobVars, Proceeds
<1> QED BY <1>2, <1>3 DEF IInv

(* An invocation begins: the lock is free, so nobody else is inside.       *)
LEMMA InvokeKeeps ==
  ASSUME IInv, NEW i \in Invocations, NEW m \in Machines \cup {None}, Invoke(i, m),
         m # None => vm[m].at = "retire",
         vm' \in [ Machines -> Vm ],
         \A k \in Machines : vm'[k].at = vm[k].at /\ vm'[k].calls = vm[k].calls,
         UNCHANGED << group, seen, jobVars >>
  PROVE  IInv'
<1>1. /\ inv' \in [ Invocations -> Inv ]
      /\ \A k \in Invocations : k # i => inv'[k] = inv[k]
      /\ inv[i].at = "off" /\ inv'[i].retire = m /\ inv'[i].at \in { "off", "describe" }
      /\ inv'[i].at = "describe" => Free /\ lock' = Locked(i) /\ inv'[i].left = Runtime
      /\ lock' = lock \/ (Free /\ lock' = Locked(i))
  BY InvokeIs DEF IInv
<1>2. /\ Locked(i).token = i /\ Locked(i).ttl = Runtime + Slack
      /\ Locked(i) \in [ token : Invocations \cup {None}, ttl : 0 .. Runtime + Slack ]
  BY ConstantsAre DEF Locked
<1>3. TypeInv'
  <2>1. lock' \in [ token : Invocations \cup {None}, ttl : 0 .. Runtime + Slack ]
    BY <1>1, <1>2 DEF IInv, TypeInv
  <2> QED BY <1>1, <2>1 DEF IInv, TypeInv, jobVars
<1>4. Free => \A k \in Invocations : inv[k].at \notin Inside
  BY ConstantsAre DEF Free, IInv, LockInv, TypeInv, Inv
<1>5. LockInv'
  <2> SUFFICES ASSUME NEW k \in Invocations, inv'[k].at \in Inside
               PROVE  lock'.token = k /\ lock'.ttl >= inv'[k].left + Slack
    BY DEF LockInv
  <2>1. CASE k = i
    <3>1. lock'.token = k /\ lock'.ttl = Runtime + Slack /\ inv'[k].left = Runtime
      BY <1>1, <1>2, <2>1 DEF Inside
    <3> QED BY <3>1, ConstantsAre
  <2>2. CASE k # i
    BY <1>1, <1>4, <2>2 DEF IInv, LockInv
  <2> QED BY <2>1, <2>2
<1>6. ServiceInv'
  BY DEF IInv, ServiceInv
<1>7. RetireInv'
  <2> SUFFICES ASSUME NEW k \in Invocations, inv'[k].at \in Inside, inv'[k].retire # None
               PROVE  vm'[inv'[k].retire].at \in { "retire", "off" }
    BY DEF RetireInv
  <2>1. inv'[k].retire \in Machines
    BY <1>1 DEF Inv
  <2>2. vm[inv'[k].retire].at \in { "retire", "off" }
    BY <1>1 DEF IInv, RetireInv
  <2> QED BY <2>1, <2>2
<1>8. SeenInv'
  BY <1>1 DEF IInv, SeenInv, SeenBy, Members
<1>9. CountInv'
  BY DEF IInv, CountInv, jobVars
<1> QED BY <1>3, <1>5, <1>6, <1>7, <1>8, <1>9 DEF IInv

LEMMA ScheduledKeeps ==
  ASSUME IInv, NEW i \in Invocations, Scheduled(i)
  PROVE  IInv'
<1>1. Invoke(i, None) /\ UNCHANGED << fleetVars, jobVars >>
  BY DEF Scheduled
<1>2. vm' \in [ Machines -> Vm ] /\ vm' = vm /\ UNCHANGED << group, seen, jobVars >>
  BY <1>1 DEF fleetVars, IInv, TypeInv
<1> QED BY <1>1, <1>2, InvokeKeeps

LEMMA CallKeeps ==
  ASSUME IInv, NEW m \in Machines, NEW i \in Invocations, Call(m, i)
  PROVE  IInv'
<1>1. /\ vm[m].at = "retire" /\ Invoke(i, m) /\ vm' = [ vm EXCEPT ![m].call = i ]
      /\ UNCHANGED << group, seen, jobVars >>
  BY DEF Call
<1>2. vm \in [ Machines -> Vm ]
  BY DEF IInv, TypeInv
<1>3. /\ vm' \in [ Machines -> Vm ]
      /\ \A k \in Machines : vm'[k].at = vm[k].at /\ vm'[k].calls = vm[k].calls
  BY <1>1, <1>2 DEF Vm
<1> QED BY <1>1, <1>3, InvokeKeeps

LEMMA ReleaseKeeps ==
  ASSUME IInv, NEW i \in Invocations, Release(i)
  PROVE  IInv'
<1>1. /\ Proceeds(i) /\ inv'[i].at = "off" /\ inv[i].at = "release"
      /\ lock' = lock \/ (lock.token = i /\ lock' = [ token |-> None, ttl |-> 0 ])
      /\ UNCHANGED << fleetVars, jobVars >>
  BY ReleaseIs DEF IInv
<1>2. TypeInv'
  <2>1. [ token |-> None, ttl |-> 0 ] \in [ token : Invocations \cup {None}, ttl : 0 .. Runtime + Slack ]
    BY ConstantsAre
  <2> QED BY <1>1, <2>1 DEF IInv, TypeInv, fleetVars, jobVars, Proceeds
<1>3. LockInv'
  BY <1>1 DEF IInv, LockInv, Proceeds, Inside
<1>4. ServiceInv' /\ CountInv'
  BY <1>1 DEF IInv, ServiceInv, CountInv, fleetVars, jobVars
<1>5. RetireInv'
  BY <1>1 DEF IInv, RetireInv, Proceeds, fleetVars
<1>6. SeenInv'
  BY <1>1 DEF IInv, SeenInv, SeenBy, Proceeds, Members
<1> QED BY <1>2, <1>3, <1>4, <1>5, <1>6 DEF IInv

(* Time passes for the lock and for those inside alike.                    *)
LEMMA TickIs ==
  ASSUME IInv, Tick
  PROVE  /\ inv' \in [ Invocations -> Inv ]
         /\ \A i \in Invocations :
              /\ inv'[i].at = inv[i].at /\ inv'[i].retire = inv[i].retire /\ inv'[i].group = inv[i].group
              /\ inv[i].at \in Inside => inv'[i].left = inv[i].left - 1
         /\ lock'.token = lock.token /\ lock'.ttl = lock.ttl - 1
         /\ lock' \in [ token : Invocations \cup {None}, ttl : 0 .. Runtime + Slack ]
         /\ UNCHANGED << fleetVars, jobVars >>
<1>1. /\ lock.ttl > 0 /\ UNCHANGED << fleetVars, jobVars >>
      /\ \A i \in Invocations : inv[i].at \in Inside => inv[i].left > 0
      /\ inv' = [ i \in Invocations |-> [ inv[i] EXCEPT !.left = Less(@) ] ]
      /\ lock' = [ lock EXCEPT !.ttl = Less(@) ]
  BY DEF Tick
<1>2. inv \in [ Invocations -> Inv ] /\ lock \in [ token : Invocations \cup {None}, ttl : 0 .. Runtime + Slack ]
  BY DEF IInv, TypeInv
<1>3. \A i \in Invocations :
        /\ inv'[i] \in Inv
        /\ inv'[i].at = inv[i].at /\ inv'[i].retire = inv[i].retire /\ inv'[i].group = inv[i].group
        /\ inv'[i].left = Less(inv[i].left)
  <2> SUFFICES ASSUME NEW i \in Invocations
               PROVE  /\ inv'[i] \in Inv
                      /\ inv'[i].at = inv[i].at /\ inv'[i].retire = inv[i].retire /\ inv'[i].group = inv[i].group
                      /\ inv'[i].left = Less(inv[i].left)
    OBVIOUS
  <2> DEFINE q == inv[i]
             n == Less(q.left)
  <2>1. q \in Inv
    BY <1>2
  <2>2. n \in 0 .. Runtime
    <3>1. q.left \in Nat /\ q.left <= Runtime
      BY <2>1, ConstantsAre DEF Inv
    <3> HIDE DEF q
    <3> QED BY <3>1, LessIs, ConstantsAre
  <2>3. inv'[i] = [ q EXCEPT !.left = n ]
    BY <1>1
  <2>4. q = inv[i] /\ n = Less(inv[i].left)
    OBVIOUS
  <2> HIDE DEF q, n
  <2>5. [ q EXCEPT !.left = n ] \in Inv
    BY <2>1, <2>2 DEF Inv
  <2>6. LET r == [ q EXCEPT !.left = n ]
        IN  r.at = q.at /\ r.retire = q.retire /\ r.group = q.group /\ r.left = n
    BY <2>1 DEF Inv
  <2> QED BY <2>3, <2>4, <2>5, <2>6
<1>4. inv' \in [ Invocations -> Inv ]
  BY <1>1, <1>3
<1>5. \A i \in Invocations : inv[i].at \in Inside => inv'[i].left = inv[i].left - 1
  BY <1>1, <1>2, <1>3, LessIs, ConstantsAre DEF Inv
<1>6. lock.ttl \in Nat /\ lock.ttl <= Runtime + Slack
  BY <1>2, ConstantsAre
<1>7. Less(lock.ttl) = lock.ttl - 1
  BY <1>1, <1>6, LessIs
<1>8. lock'.token = lock.token /\ lock'.ttl = lock.ttl - 1
  BY <1>1, <1>2, <1>7
<1>9. lock' \in [ token : Invocations \cup {None}, ttl : 0 .. Runtime + Slack ]
  BY <1>1, <1>2, <1>6, <1>7, ConstantsAre
<1> QED BY <1>1, <1>3, <1>4, <1>5, <1>8, <1>9

LEMMA TickKeeps == ASSUME IInv, Tick PROVE IInv'
<1>1. TypeInv' /\ ServiceInv' /\ CountInv'
  BY TickIs DEF IInv, TypeInv, ServiceInv, CountInv, fleetVars, jobVars
<1>2. LockInv'
  <2> SUFFICES ASSUME NEW i \in Invocations, inv'[i].at \in Inside
               PROVE  lock'.token = i /\ lock'.ttl >= inv'[i].left + Slack
    BY DEF LockInv
  <2>1. lock.token = i /\ lock.ttl >= inv[i].left + Slack
    BY TickIs DEF IInv, LockInv
  <2>2. lock'.ttl = lock.ttl - 1 /\ inv'[i].left = inv[i].left - 1 /\ lock'.token = lock.token
    BY TickIs
  <2>3. lock.ttl \in Int /\ inv[i].left \in Int /\ Slack \in Int
    BY ConstantsAre DEF IInv, TypeInv, Inv
  <2> QED BY <2>1, <2>2, <2>3
<1>3. RetireInv'
  BY TickIs DEF IInv, RetireInv, fleetVars
<1>4. SeenInv'
  BY TickIs DEF IInv, SeenInv, SeenBy, Members
<1> QED BY <1>1, <1>2, <1>3, <1>4 DEF IInv

LEMMA StepKeeps ==
  ASSUME IInv, NEW i \in Invocations, Step(i)
  PROVE  IInv'
<1>1. CASE Describe(i)
  BY <1>1, DescribeIs, QuietKeeps DEF IInv
<1>2. CASE Retire(i)
  <2>1. /\ Proceeds(i) /\ UNCHANGED lock /\ UNCHANGED vm /\ UNCHANGED jobVars
        /\ inv[i].at = "retire" /\ inv[i].retire \in Machines
        /\ group' \in Group /\ seen' \in Group
        /\ \A k \in Machines : k # inv[i].retire => group'.state[k] = group.state[k]
    BY <1>2, RetireIs DEF IInv, Step1
  <2>2. LockInv' /\ RetireInv' /\ SeenInv'
    BY <2>1, ProceedsKeeps
  <2>3. TypeInv' /\ CountInv'
    BY <2>1 DEF IInv, TypeInv, CountInv, jobVars, Proceeds
  <2>4. vm[inv[i].retire].at \in { "retire", "off" }
    BY <2>1, ConstantsAre DEF IInv, RetireInv, Inside
  <2>5. ServiceInv'
    BY <2>1, <2>4 DEF IInv, ServiceInv
  <2> QED BY <2>2, <2>3, <2>5 DEF IInv
<1>3. CASE Expire(i)
  <2>1. /\ Proceeds(i) /\ UNCHANGED lock /\ UNCHANGED vm /\ UNCHANGED << fleetVars, jobs >>
        /\ active' \in [ Users -> Nat ] /\ running' \in [ Users -> Machines \cup {None} ]
        /\ \A u \in Users : active'[u] <= active[u] /\ (running'[u] # None => active'[u] >= 1)
    BY <1>3, ExpireIs DEF IInv, Step1
  <2>2. LockInv' /\ RetireInv' /\ SeenInv'
    BY <2>1, ProceedsKeeps
  <2>3. TypeInv' /\ ServiceInv'
    BY <2>1 DEF IInv, TypeInv, ServiceInv, fleetVars, Proceeds
  <2>4. \A u \in Users : active'[u] \in Nat /\ active[u] \in Nat /\ active[u] <= jobs /\ jobs \in Nat
    BY <2>1, ConstantsAre DEF IInv, TypeInv, CountInv
  <2>5. CountInv'
    BY <2>1, <2>4 DEF IInv, CountInv
  <2> QED BY <2>2, <2>3, <2>5 DEF IInv
<1>4. CASE Decide(i)
  BY <1>4, DecideIs, QuietKeeps DEF IInv
<1>5. CASE Set(i)
  <2>1. /\ Proceeds(i) /\ UNCHANGED lock /\ UNCHANGED vm /\ UNCHANGED jobVars
        /\ group' \in Group /\ seen' \in Group /\ group'.state = group.state
    BY <1>5, SetStepIs DEF IInv, Step1
  <2>2. LockInv' /\ RetireInv' /\ SeenInv'
    BY <2>1, ProceedsKeeps
  <2>3. TypeInv' /\ CountInv' /\ ServiceInv'
    BY <2>1 DEF IInv, TypeInv, CountInv, ServiceInv, jobVars, Proceeds
  <2> QED BY <2>2, <2>3 DEF IInv
<1>6. CASE Release(i)
  BY <1>6, ReleaseKeeps
<1> QED BY <1>1, <1>2, <1>3, <1>4, <1>5, <1>6 DEF Step

LEMMA SubmitKeeps == ASSUME IInv, NEW u \in Users, Submit(u) PROVE IInv'
<1>1. /\ jobs < MaxJobs /\ jobs' = jobs + 1 /\ active' = [ active EXCEPT ![u] = @ + 1 ]
      /\ UNCHANGED << fleetVars, lock, inv, running >>
  BY DEF Submit
<1>2. TypeInv'
  <2>1. active' \in [ Users -> Nat ] /\ jobs' \in 0 .. MaxJobs
    BY <1>1, ConstantsAre DEF IInv, TypeInv
  <2> QED BY <1>1, <2>1 DEF IInv, TypeInv, fleetVars
<1>3. LockInv' /\ ServiceInv' /\ RetireInv'
  BY <1>1 DEF IInv, LockInv, ServiceInv, RetireInv, fleetVars
<1>4. SeenInv'
  BY <1>1 DEF IInv, SeenInv, SeenBy, Members
<1>5. CountInv'
  <2>1. \A k \in Users : active'[k] <= jobs' /\ (running'[k] # None => active'[k] >= 1)
    BY <1>1, ConstantsAre DEF IInv, TypeInv, CountInv
  <2>2. \A m \in Machines : vm'[m].calls < Attempts
    BY <1>1 DEF IInv, CountInv, fleetVars
  <2> QED BY <2>1, <2>2 DEF CountInv
<1> QED BY <1>2, <1>3, <1>4, <1>5 DEF IInv

(* A step of a machine that changes the group or not, and not the jobs.    *)
LEMMA MachineKeeps ==
  ASSUME IInv, NEW m \in Machines, NEW v \in Vm, Becomes(m, v), v.calls < Attempts,
         UNCHANGED << lock, inv >>, UNCHANGED jobVars,
         group' \in Group, seen' \in Group,
         \A k \in Machines : k # m => group'.state[k] = group.state[k],
         v.at \in { "poll", "work", "wrap" } => group'.state[m] = "service",
         \/ v.at \in { "retire", "off" }
         \/ vm[m].at \notin { "retire", "off" }
         \/ \A i \in Invocations : inv[i].retire # m
  PROVE  IInv'
<1>1. /\ LockInv' /\ ServiceInv' /\ RetireInv' /\ SeenInv'
      /\ \A k \in Machines : vm'[k].calls < Attempts
  BY BecomesKeeps
<1>2. TypeInv'
  BY DEF IInv, TypeInv, Becomes, jobVars
<1>3. CountInv'
  BY <1>1 DEF IInv, CountInv, jobVars
<1> QED BY <1>1, <1>2, <1>3 DEF IInv

(* The same for a step that only changes the machine.                      *)
LEMMA BecomeKeeps ==
  ASSUME IInv, NEW m \in Machines, NEW v \in Vm, Become(m, v), v.calls < Attempts, UNCHANGED jobVars,
         v.at \in { "poll", "work", "wrap" } => group.state[m] = "service",
         v.at \in { "retire", "off" } \/ vm[m].at \notin { "retire", "off" }
  PROVE  IInv'
<1>1. vm' = [ vm EXCEPT ![m] = v ] /\ UNCHANGED << group, seen, lock, inv >>
  BY DEF Become
<1>2. TypeInv
  BY DEF IInv
<1>3. Becomes(m, v)
  BY <1>1, <1>2, VmIs
<1>4. group' \in Group /\ seen' \in Group
  BY <1>1 DEF IInv, TypeInv
<1>5. \A k \in Machines : k # m => group'.state[k] = group.state[k]
  BY <1>1
<1>6. v.at \in { "poll", "work", "wrap" } => group'.state[m] = "service"
  BY <1>1
<1>7. UNCHANGED << lock, inv >>
  BY <1>1
<1> QED BY <1>3, <1>4, <1>5, <1>6, <1>7, MachineKeeps

LEMMA MoveKeeps ==
  ASSUME IInv, NEW m \in Machines, NEW g \in States, NEW v \in Vm, Move(m, g, v), v.calls < Attempts,
         UNCHANGED jobVars,
         v.at \in { "poll", "work", "wrap" } => g = "service",
         \/ v.at \in { "retire", "off" }
         \/ vm[m].at \notin { "retire", "off" }
         \/ \A i \in Invocations : inv[i].retire # m
  PROVE  IInv'
<1>1. /\ Becomes(m, v) /\ UNCHANGED << lock, inv >>
      /\ group' \in Group /\ seen' \in Group /\ group'.state[m] = g
      /\ \A k \in Machines : k # m => group'.state[k] = group.state[k]
  BY MoveIs DEF IInv
<1> QED BY <1>1, MachineKeeps

LEMMA LaunchKeeps == ASSUME IInv, NEW m \in Machines, Launch(m) PROVE IInv'
<1> DEFINE o == Removed
           v == [ o EXCEPT !.at = "boot" ]
<1>1. o \in Vm /\ o.calls < Attempts
  BY RemovedIs, ConstantsAre
<1>2. /\ Move(m, "pending", v) /\ UNCHANGED jobVars
      /\ \A i \in Invocations : inv[i].retire # m
  BY DEF Launch
<1> HIDE DEF o
<1>3. v \in Vm /\ v.at = "boot" /\ v.calls < Attempts
  BY <1>1 DEF Vm
<1> HIDE DEF v
<1>4. "pending" \in States
  BY DEF States
<1> QED BY <1>2, <1>3, <1>4, MoveKeeps

LEMMA EnterKeeps == ASSUME IInv, NEW m \in Machines, EnterService(m) PROVE IInv'
<1>1. vm[m] \in Vm /\ vm[m].calls < Attempts
  BY VmTyped DEF IInv
<1>2. vm[m].at = "boot" /\ Move(m, "service", vm[m]) /\ UNCHANGED jobVars
  BY DEF EnterService
<1>3. "service" \in States
  BY DEF States
<1> QED BY <1>1, <1>2, <1>3, MoveKeeps

LEMMA ReadyKeeps == ASSUME IInv, NEW m \in Machines, Ready(m) PROVE IInv'
<1>1. vm[m] \in Vm /\ vm[m].calls < Attempts
  BY VmTyped DEF IInv
<1>2. PICK a \in { "poll", "retire" } : Become(m, [ vm[m] EXCEPT !.at = a ])
  BY DEF Ready
<1>3. vm[m].at = "boot" /\ group.state[m] = "service" /\ UNCHANGED jobVars
  BY DEF Ready
<1> DEFINE v == [ vm[m] EXCEPT !.at = a ]
<1>4. v \in Vm /\ v.at = a /\ v.calls < Attempts
  BY <1>1 DEF Vm
<1>5. Become(m, v)
  BY <1>2
<1> HIDE DEF v
<1> QED BY <1>3, <1>4, <1>5, BecomeKeeps

LEMMA LeaveKeeps == ASSUME IInv, NEW m \in Machines, Leave(m) PROVE IInv'
<1>1. vm[m] \in Vm /\ vm[m].calls < Attempts
  BY VmTyped DEF IInv
<1> DEFINE v == [ vm[m] EXCEPT !.at = "retire" ]
<1>2. v \in Vm /\ v.at = "retire" /\ v.calls < Attempts
  BY <1>1 DEF Vm
<1>3. Become(m, v) /\ UNCHANGED jobVars
  BY DEF Leave
<1> HIDE DEF v
<1> QED BY <1>2, <1>3, BecomeKeeps

LEMMA AskedKeeps == ASSUME IInv, NEW m \in Machines, Answered(m) \/ Unanswered(m) \/ Lost(m) PROVE IInv'
<1>1. vm[m] \in Vm /\ vm[m].calls < Attempts
  BY VmTyped DEF IInv
<1>2. PICK v \in { Removed, AfterCall(vm[m]) } : Become(m, v) /\ UNCHANGED jobVars
  BY DEF Answered, Unanswered, Lost
<1>3. AfterCall(vm[m]) \in Vm /\ AfterCall(vm[m]).at \in { vm[m].at, "off" } /\ AfterCall(vm[m]).calls < Attempts
  <2>1. vm[m].calls + 1 # Attempts =>
          Again(vm[m]) \in Vm /\ Again(vm[m]).at = vm[m].at /\ Again(vm[m]).calls < Attempts
    BY <1>1, AgainIs
  <2>2. Removed \in Vm /\ Removed.at = "off" /\ Removed.calls < Attempts
    BY RemovedIs, ConstantsAre
  <2> QED BY <2>1, <2>2 DEF AfterCall
<1>4. v \in Vm /\ v.calls < Attempts /\ v.at \in { vm[m].at, "off" }
  BY <1>2, <1>3, RemovedIs, ConstantsAre
<1>5. v.at \in { "poll", "work", "wrap" } => group.state[m] = "service"
  BY <1>4 DEF IInv, ServiceInv
<1>6. v.at \in { "retire", "off" } \/ vm[m].at \notin { "retire", "off" }
  BY <1>4
<1> QED BY <1>2, <1>4, <1>5, <1>6, BecomeKeeps

LEMMA RemovesKeeps == ASSUME IInv, NEW m \in Machines, Removes(m) PROVE IInv'
<1>1. Removed \in Vm /\ Removed.at = "off" /\ Removed.calls < Attempts
  BY RemovedIs, ConstantsAre
<1>2. Move(m, "none", Removed) /\ UNCHANGED jobVars
  BY DEF Removes
<1>3. "none" \in States
  BY DEF States
<1> QED BY <1>1, <1>2, <1>3, MoveKeeps

(* The two steps that change the jobs.                                     *)
LEMMA JobStepKeeps ==
  ASSUME IInv, NEW m \in Machines, NEW v \in Vm, Become(m, v), v.calls < Attempts,
         v.at \in { "work", "wrap" }, vm[m].at \in { "poll", "work" },
         active' \in [ Users -> Nat ], running' \in [ Users -> Machines \cup {None} ],
         \A u \in Users : active'[u] <= active[u] /\ (running'[u] # None => active'[u] >= 1),
         jobs' = jobs
  PROVE  IInv'
<1>1. vm' = [ vm EXCEPT ![m] = v ] /\ UNCHANGED << group, seen, lock, inv >>
  BY DEF Become
<1>2. TypeInv
  BY DEF IInv
<1>3. Becomes(m, v)
  BY <1>1, <1>2, VmIs
<1>4. group.state[m] = "service"
  BY DEF IInv, ServiceInv
<1>5. /\ LockInv' /\ ServiceInv' /\ RetireInv' /\ SeenInv'
      /\ \A k \in Machines : vm'[k].calls < Attempts
  <2>1. \A k \in Machines : k # m => group'.state[k] = group.state[k]
    BY <1>1
  <2>2. v.at \in { "poll", "work", "wrap" } => group'.state[m] = "service"
    BY <1>1, <1>4
  <2>3. UNCHANGED << lock, inv >>
    BY <1>1
  <2> QED BY <1>3, <2>1, <2>2, <2>3, BecomesKeeps
<1>6. TypeInv'
  BY <1>1, <1>2, <1>3 DEF TypeInv, Becomes
<1>7. CountInv'
  <2>1. \A u \in Users : active'[u] \in Nat /\ active[u] \in Nat /\ active[u] <= jobs /\ jobs \in Nat
    BY ConstantsAre DEF IInv, TypeInv, CountInv
  <2> QED BY <1>5, <2>1 DEF CountInv
<1> QED BY <1>5, <1>6, <1>7 DEF IInv

LEMMA TakeKeeps == ASSUME IInv, NEW m \in Machines, Take(m) PROVE IInv'
<1>1. vm[m] \in Vm /\ vm[m].calls < Attempts
  BY VmTyped DEF IInv
<1>2. PICK u \in Waiting :
        /\ vm[m].at = "poll"
        /\ Become(m, [ vm[m] EXCEPT !.at = "work", !.user = u ])
        /\ running' = [ running EXCEPT ![u] = m ]
        /\ UNCHANGED << active, jobs >>
  BY DEF Take
<1>3. u \in Users /\ active[u] > 0
  BY <1>2 DEF Waiting
<1> DEFINE v == [ vm[m] EXCEPT !.at = "work", !.user = u ]
<1>4. v \in Vm /\ v.at = "work" /\ v.calls < Attempts
  BY <1>1, <1>3 DEF Vm
<1>5. active' \in [ Users -> Nat ] /\ running' \in [ Users -> Machines \cup {None} ]
  BY <1>2, <1>3 DEF IInv, TypeInv
<1>6. \A k \in Users : active'[k] <= active[k] /\ (running'[k] # None => active'[k] >= 1)
  BY <1>2, <1>3 DEF IInv, TypeInv, CountInv
<1>7. Become(m, v) /\ vm[m].at = "poll" /\ jobs' = jobs
  BY <1>2
<1> HIDE DEF v
<1> QED BY <1>4, <1>5, <1>6, <1>7, JobStepKeeps

LEMMA FinishKeeps == ASSUME IInv, NEW m \in Machines, Finish(m) PROVE IInv'
<1> DEFINE u == vm[m].user
           v == [ vm[m] EXCEPT !.at = "wrap" ]
<1>1. vm[m] \in Vm /\ vm[m].calls < Attempts
  BY VmTyped DEF IInv
<1>2. v \in Vm /\ v.at = "wrap" /\ v.calls < Attempts
  BY <1>1 DEF Vm
<1>3. /\ vm[m].at = "work" /\ Become(m, v) /\ jobs' = jobs
      /\ \/ /\ running[u] = m
            /\ active' = [ active EXCEPT ![u] = @ - 1 ] /\ running' = [ running EXCEPT ![u] = None ]
         \/ UNCHANGED << active, running >>
  BY DEF Finish
<1> HIDE DEF v
<1>4. active \in [ Users -> Nat ] /\ running \in [ Users -> Machines \cup {None} ] /\ m # None
  BY ConstantsAre DEF IInv, TypeInv
<1>5. \A k \in Users : running[k] # None => active[k] >= 1
  BY DEF IInv, CountInv
<1> HIDE DEF u
<1>6. active' \in [ Users -> Nat ] /\ running' \in [ Users -> Machines \cup {None} ]
  BY <1>3, <1>4, <1>5
<1>7. \A k \in Users : active'[k] <= active[k] /\ (running'[k] # None => active'[k] >= 1)
  BY <1>3, <1>4, <1>5
<1> QED BY <1>2, <1>3, <1>6, <1>7, JobStepKeeps

LEMMA NextKeeps == IInv /\ [Next]_vars => IInv'
<1> SUFFICES ASSUME IInv, [Next]_vars PROVE IInv'
  OBVIOUS
<1>1. CASE Tick
  BY <1>1, TickKeeps
<1>2. CASE \E i \in Invocations : Scheduled(i) \/ Step(i) \/ Raises(i) \/ TimesOut(i)
  <2>1. PICK i \in Invocations : Scheduled(i) \/ Step(i) \/ Raises(i) \/ TimesOut(i)
    BY <1>2
  <2>2. CASE Scheduled(i)
    BY <2>2, ScheduledKeeps
  <2>3. CASE Step(i)
    BY <2>3, StepKeeps
  <2>4. CASE Raises(i)
    BY <2>4, RaisesIs, QuietKeeps DEF IInv
  <2>5. CASE TimesOut(i)
    BY <2>5, TimesOutIs, QuietKeeps DEF IInv
  <2> QED BY <2>1, <2>2, <2>3, <2>4, <2>5
<1>3. CASE \E m \in Machines : Machine(m) \/ Unanswered(m) \/ Lost(m)
  <2>1. PICK m \in Machines : Machine(m) \/ Unanswered(m) \/ Lost(m)
    BY <1>3
  <2> QED BY <2>1, LaunchKeeps, EnterKeeps, ReadyKeeps, TakeKeeps, FinishKeeps, LeaveKeeps,
             AskedKeeps, RemovesKeeps, CallKeeps DEF Machine
<1>4. CASE \E u \in Users : Submit(u)
  BY <1>4, SubmitKeeps
<1>5. CASE UNCHANGED vars
  BY <1>5, StutterKeeps
<1> QED BY <1>1, <1>2, <1>3, <1>4, <1>5 DEF Next

(* The invariant the properties follow from: the lock outlives its holder, *)
(* work happens on machines in service, and who asked to be retired has    *)
(* stopped working (CloudFleet, all of Next).                              *)
THEOREM FleetInvariant == Spec => []IInv
<1>1. Init => IInv
  BY InitHolds
<1>2. IInv /\ [Next]_vars => IInv'
  BY NextKeeps
<1> QED BY <1>1, <1>2, PTL DEF Spec

(* Every variable keeps its type; no user has more active jobs than were   *)
(* submitted, and no machine asks more often than it may.                  *)
THEOREM TypesHold == Spec => []TypeOK
<1>1. IInv => TypeOK
  <2> SUFFICES ASSUME IInv PROVE TypeOK
    OBVIOUS
  <2>1. group \in Group /\ \A i \in Invocations : inv[i] \in Inv
    BY DEF IInv, TypeInv
  <2>2. active \in [ Users -> 0 .. MaxJobs ]
    <3>1. \A u \in Users : active[u] \in Nat /\ active[u] <= jobs /\ jobs \in 0 .. MaxJobs
      BY DEF IInv, TypeInv, CountInv
    <3>2. \A u \in Users : active[u] \in 0 .. MaxJobs
      BY <3>1, ConstantsAre
    <3> QED BY <3>2 DEF IInv, TypeInv
  <2>3. \A i \in Invocations :
          /\ inv[i].at \in Inside \cup { "off" }
          /\ inv[i].left \in 0 .. Runtime
          /\ inv[i].retire \in Machines \cup {None}
          /\ inv[i].want \in 0 .. MaxSize
    BY <2>1 DEF Inv
  <2> QED BY <2>1, <2>2, <2>3 DEF TypeOK, IInv, TypeInv, Group, States, Vm
<1> QED BY <1>1, FleetInvariant, PTL

(* Two invocations are never inside the lock together: it cannot expire    *)
(* under its holder, who is ended before (controller_lock).                *)
THEOREM OneDeciderHolds == Spec => []OneDecider
<1>1. IInv => OneDecider
  BY DEF IInv, LockInv, OneDecider
<1> QED BY <1>1, FleetInvariant, PTL

(* No step takes a machine that works, or publishes, out of service        *)
(* (reconcile's retirement, SetDesiredCapacity, the group's removals).     *)
THEOREM WorkingIsKeptHolds == Spec => WorkingIsKept
<1> DEFINE A == \A m \in Machines :
        vm[m].at \in { "work", "wrap" } => group'.state[m] \in { "service", group.state[m] }
<1>1. IInv /\ [Next]_vars => [A]_vars
  <2> SUFFICES ASSUME IInv, [Next]_vars, NEW m \in Machines, vm[m].at \in { "work", "wrap" }
               PROVE  group'.state[m] \in { "service", group.state[m] }
    BY DEF A
  <2>0. TypeInv /\ SeenInv /\ CountInv /\ group.state[m] = "service"
    BY DEF IInv, ServiceInv
  <2>1. CASE UNCHANGED group
    BY <2>1
  <2>2. CASE Tick \/ \E u \in Users : Submit(u)
    BY <2>2, <2>1 DEF Tick, Submit, fleetVars
  <2>3. CASE \E i \in Invocations : Scheduled(i) \/ Step(i) \/ Raises(i) \/ TimesOut(i)
    <3>1. PICK i \in Invocations : Scheduled(i) \/ Step(i) \/ Raises(i) \/ TimesOut(i)
      BY <2>3
    <3>2. CASE Retire(i)
      <4>1. /\ inv[i].at = "retire" /\ inv[i].retire \in Machines
            /\ \A k \in Machines : k # inv[i].retire => group'.state[k] = group.state[k]
        BY <2>0, <3>2, RetireIs
      <4>2. vm[inv[i].retire].at \in { "retire", "off" }
        BY <4>1, ConstantsAre DEF IInv, RetireInv, Inside
      <4> QED BY <4>1, <4>2
    <3>3. CASE Set(i)
      BY <2>0, <3>3, SetStepIs
    <3>4. CASE Scheduled(i) \/ Raises(i) \/ TimesOut(i)
      BY <3>4, <2>1 DEF Scheduled, Raises, TimesOut, fleetVars
    <3>5. CASE Describe(i) \/ Expire(i) \/ Decide(i) \/ Release(i)
      BY <3>5, <2>1 DEF Describe, Expire, Decide, Release, fleetVars
    <3> QED BY <3>1, <3>2, <3>3, <3>4, <3>5 DEF Step
  <2>4. CASE \E k \in Machines : Machine(k) \/ Unanswered(k) \/ Lost(k)
    <3>1. PICK k \in Machines : Machine(k) \/ Unanswered(k) \/ Lost(k)
      BY <2>4
    <3>3. CASE Launch(k)
      <4>1. group.state[k] = "none" /\ Move(k, "pending", [ Removed EXCEPT !.at = "boot" ])
        BY <3>3 DEF Launch
      <4>2. k # m
        BY <2>0, <4>1
      <4>3. group' = [ group EXCEPT !.state[k] = "pending" ]
        BY <4>1 DEF Move, Changes
      <4> QED BY <2>0, <4>2, <4>3 DEF TypeInv, Group
    <3>4. CASE EnterService(k)
      <4>1. group' = [ group EXCEPT !.state[k] = "service" ]
        BY <3>4 DEF EnterService, Move, Changes
      <4> QED BY <2>0, <4>1 DEF TypeInv, Group
    <3>5. CASE Removes(k)
      <4>1. group' = [ group EXCEPT !.state[k] = "none" ]
        BY <3>5 DEF Removes, Move, Changes
      <4>2. k # m
        BY <2>0, <3>5 DEF Removes, TooMany
      <4> QED BY <2>0, <4>1, <4>2 DEF TypeInv, Group
    <3>6. CASE Ready(k) \/ Take(k) \/ Finish(k) \/ Leave(k) \/ Answered(k) \/ Unanswered(k) \/ Lost(k)
      BY <3>6, <2>1 DEF Ready, Take, Finish, Leave, Answered, Unanswered, Lost, Become
    <3>7. CASE \E i \in Invocations : Call(k, i)
      BY <3>7, <2>1 DEF Call
    <3> QED BY <3>1, <3>3, <3>4, <3>5, <3>6, <3>7 DEF Machine
  <2> QED BY <2>1, <2>2, <2>3, <2>4 DEF Next, vars
<1> QED BY <1>1, FleetInvariant, PTL DEF Spec, WorkingIsKept

(* What an invocation asks for is no more than the owners, and the members *)
(* it saw without the one it retired (reconcile's local copy of the group).*)
THEOREM NotReplacedHolds == Spec => NotReplaced
<1> DEFINE A == \A i \in Invocations :
        LET others == Members(inv[i].group) \ {inv[i].retire}
        IN  inv[i].at = "decide" /\ inv'[i].at = "set"
              => inv'[i].want <= AtLeast(Owners, Cardinality(others))
<1>1. IInv /\ [Next]_vars => [A]_vars
  <2> SUFFICES ASSUME IInv, [Next]_vars, NEW i \in Invocations,
                      inv[i].at = "decide", inv'[i].at = "set"
               PROVE  inv'[i].want <= AtLeast(Owners, Cardinality(Members(inv[i].group) \ {inv[i].retire}))
    BY DEF A
  <2>0. TypeInv /\ SeenInv /\ CountInv /\ inv[i] \in Inv
    BY DEF IInv, TypeInv
  <2>1. Members(inv[i].group) \ {inv[i].retire} = Members(inv[i].group)
    BY <2>0 DEF SeenInv, SeenBy
  <2>2. inv' # inv
    OBVIOUS
  <2>3. Decide(i)
    <3>1. ~Tick
      BY TickIs
    <3>2. ~\E u \in Users : Submit(u)
      BY <2>2 DEF Submit
    <3>3. ASSUME NEW m \in Machines PROVE ~(Machine(m) \/ Unanswered(m) \/ Lost(m))
      <4>1. ~\E k \in Invocations : Call(m, k)
        <5> SUFFICES ASSUME NEW k \in Invocations, Call(m, k) PROVE FALSE
          OBVIOUS
        <5>1. Invoke(k, m)
          BY DEF Call
        <5> QED BY <2>0, <5>1, InvokeIs
      <4>2. ~Launch(m) /\ ~EnterService(m) /\ ~Removes(m)
        BY <2>2 DEF Launch, EnterService, Removes, Move
      <4>3. ~Ready(m) /\ ~Take(m) /\ ~Finish(m) /\ ~Leave(m)
        BY <2>2 DEF Ready, Take, Finish, Leave, Become
      <4>4. ~Answered(m) /\ ~Unanswered(m) /\ ~Lost(m)
        BY <2>2 DEF Answered, Unanswered, Lost, Become
      <4> QED BY <4>1, <4>2, <4>3, <4>4 DEF Machine
    <3>4. ASSUME NEW k \in Invocations, Scheduled(k) \/ Step(k) \/ Raises(k) \/ TimesOut(k)
          PROVE  k = i /\ Decide(k)
      <4>1. CASE Scheduled(k)
        BY <2>0, <4>1, InvokeIs DEF Scheduled
      <4>2. CASE Raises(k)
        BY <2>0, <4>2, RaisesIs DEF Step1, Proceeds
      <4>3. CASE TimesOut(k)
        BY <2>0, <4>3, TimesOutIs DEF Step1, Proceeds
      <4>4. CASE Describe(k)
        BY <2>0, <4>4, DescribeIs DEF Step1, Proceeds
      <4>5. CASE Retire(k)
        BY <2>0, <4>5, RetireIs DEF Step1, Proceeds
      <4>6. CASE Expire(k)
        BY <2>0, <4>6, ExpireIs DEF Step1, Proceeds
      <4>7. CASE Set(k)
        BY <2>0, <4>7, SetStepIs DEF Step1, Proceeds
      <4>8. CASE Release(k)
        BY <2>0, <4>8, ReleaseIs DEF Proceeds
      <4>9. CASE Decide(k)
        BY <2>0, <4>9, DecideIs DEF Step1, Proceeds
      <4> QED BY <3>4, <4>1, <4>2, <4>3, <4>4, <4>5, <4>6, <4>7, <4>8, <4>9 DEF Step
    <3> QED BY <2>2, <3>1, <3>2, <3>3, <3>4 DEF Next, vars
  <2>4. inv'[i].want = Capacity(Owners, inv[i].group)
    BY <2>0, <2>3, DecideIs
  <2> QED BY <2>1, <2>4, CapacityIs
<1> QED BY <1>1, FleetInvariant, PTL DEF Spec, NotReplaced

(* The controller is safe in every state: controller_lock holds for as     *)
(* long as anybody decides.                                                *)
THEOREM FleetSafetyHolds == Spec => []FleetSafety
BY TypesHold, OneDeciderHolds, PTL DEF FleetSafety

(* And in every step: no machine at work is taken away, none that went is  *)
(* replaced without need (reconcile).                                      *)
THEOREM FleetStepsHold == Spec => FleetSteps
BY WorkingIsKeptHolds, NotReplacedHolds DEF FleetSteps

-----------------------------------------------------------------------------
(* The migration of the old queue.                                         *)

Status == { "absent", "queued", "running" } \cup Over

MigrationTypeInv ==
  /\ source \subseteq Jobs /\ hidden \subseteq source /\ target \subseteq Jobs
  /\ row \in [ Jobs -> Status ]
  /\ rec \in [ Jobs -> { "queued" } \cup Over ]
  /\ script \in [ at : { "ended", "receive", "write", "send", "delete" },
                  job : Jobs \cup {NoJob}, read : Status ]
  /\ started \in [ Jobs -> Nat ]

(* What the script knows of the job it holds: its message is not deleted;  *)
(* a row that it read is still there; and when the message may go, the job *)
(* has a message on the other queue or has settled.                        *)
ScriptInv ==
  LET j == script.job
  IN  /\ script.at \in { "write", "send", "delete" } => j \in source
      /\ script.at = "write" /\ script.read # "absent" => row[j] # "absent"
      /\ script.at = "send" => row[j] # "absent"
      /\ script.at = "delete" => Known(j) # "queued" \/ j \in target

(* A job is started only from a row that waits, and then once.             *)
StartedInv ==
  \A j \in Jobs :
    /\ started[j] <= 1
    /\ row[j] \in { "absent", "queued" } => started[j] = 0

MigrationInv == MigrationTypeInv /\ ScriptInv /\ StartedInv /\ PendingHasMessage /\ \A j \in target : row[j] # "absent"

-----------------------------------------------------------------------------
LEMMA NextType ==
  ASSUME MigrationInv, [MigrationNext]_migrationVars
  PROVE  MigrationTypeInv'
<1> USE DEF MigrationInv, MigrationTypeInv, ScriptInv, Status, Over, scriptVars, storeVars
<1>1. CASE Start
  BY <1>1 DEF Start, Ended
<1>2. CASE Receive
  BY <1>2 DEF Receive, Ended, Verdict, Known
<1>3. CASE Write
  BY <1>3 DEF Write, MoveTo, NextCall, Merged
<1>4. CASE Send
  BY <1>4 DEF Send, MoveTo
<1>5. CASE Delete
  BY <1>5 DEF Delete, MoveTo
<1>6. CASE Dies
  BY <1>6 DEF Dies, MoveTo
<1>7. CASE Reappears
  BY <1>7 DEF Reappears
<1>8. CASE \E j \in Jobs : Cancel(j)
  <2>1. PICK j \in Jobs : Cancel(j)
    BY <1>8
  <2>2. QED
    BY <2>1 DEF Cancel, Known
<1>9. CASE \E j \in Jobs : Claim(j)
  <2>1. PICK j \in Jobs : Claim(j)
    BY <1>9
  <2>2. QED
    BY <2>1 DEF Claim, Known
<1>10. CASE \E j \in Jobs : Settle(j)
  <2>1. PICK j \in Jobs : Settle(j)
    BY <1>10
  <2>2. QED
    BY <2>1 DEF Settle, Known
<1>11. CASE \E j \in Jobs : Acknowledge(j)
  <2>1. PICK j \in Jobs : Acknowledge(j)
    BY <1>11
  <2>2. QED
    BY <2>1 DEF Acknowledge, Known
<1>12. CASE UNCHANGED migrationVars
  BY <1>12 DEF migrationVars
<1>13. QED
  BY <1>1, <1>2, <1>3, <1>4, <1>5, <1>6, <1>7, <1>8, <1>9, <1>10, <1>11, <1>12 DEF MigrationNext, Script, Worker

LEMMA NextScript ==
  ASSUME MigrationInv, [MigrationNext]_migrationVars
  PROVE  ScriptInv'
<1> USE DEF MigrationInv, MigrationTypeInv, ScriptInv, Known, Status, Over, scriptVars, storeVars
<1>1. CASE Start
  BY <1>1 DEF Start, Ended
<1>2. CASE Receive
  BY <1>2 DEF Receive, Ended, Verdict, Known
<1>3. CASE Write
  BY <1>3 DEF Write, MoveTo, NextCall, Merged
<1>4. CASE Send
  BY <1>4 DEF Send, MoveTo
<1>5. CASE Delete
  BY <1>5 DEF Delete, MoveTo
<1>6. CASE Dies
  BY <1>6 DEF Dies, MoveTo
<1>7. CASE Reappears
  BY <1>7 DEF Reappears
<1>8. CASE \E j \in Jobs : Cancel(j)
  <2>1. PICK j \in Jobs : Cancel(j)
    BY <1>8
  <2>2. QED
    BY <2>1 DEF Cancel, Known
<1>9. CASE \E j \in Jobs : Claim(j)
  <2>1. PICK j \in Jobs : Claim(j)
    BY <1>9
  <2>2. QED
    BY <2>1 DEF Claim, Known
<1>10. CASE \E j \in Jobs : Settle(j)
  <2>1. PICK j \in Jobs : Settle(j)
    BY <1>10
  <2>2. QED
    BY <2>1 DEF Settle, Known
<1>11. CASE \E j \in Jobs : Acknowledge(j)
  <2>1. PICK j \in Jobs : Acknowledge(j)
    BY <1>11
  <2>2. QED
    BY <2>1 DEF Acknowledge, Known
<1>12. CASE UNCHANGED migrationVars
  BY <1>12 DEF migrationVars
<1>13. QED
  BY <1>1, <1>2, <1>3, <1>4, <1>5, <1>6, <1>7, <1>8, <1>9, <1>10, <1>11, <1>12 DEF MigrationNext, Script, Worker

LEMMA NextStarted ==
  ASSUME MigrationInv, [MigrationNext]_migrationVars
  PROVE  StartedInv'
<1> USE DEF MigrationInv, MigrationTypeInv, StartedInv, Status, Over, scriptVars, storeVars
<1>1. CASE Start
  BY <1>1 DEF Start, Ended
<1>2. CASE Receive
  BY <1>2 DEF Receive, Ended, Verdict, Known
<1>3. CASE Write
  BY <1>3 DEF Write, MoveTo, NextCall, Merged
<1>4. CASE Send
  BY <1>4 DEF Send, MoveTo
<1>5. CASE Delete
  BY <1>5 DEF Delete, MoveTo
<1>6. CASE Dies
  BY <1>6 DEF Dies, MoveTo
<1>7. CASE Reappears
  BY <1>7 DEF Reappears
<1>8. CASE \E j \in Jobs : Cancel(j)
  <2>1. PICK j \in Jobs : Cancel(j)
    BY <1>8
  <2>2. QED
    BY <2>1 DEF Cancel, Known
<1>9. CASE \E j \in Jobs : Claim(j)
  <2>1. PICK j \in Jobs : Claim(j)
    BY <1>9
  <2>2. QED
    BY <2>1 DEF Claim, Known
<1>10. CASE \E j \in Jobs : Settle(j)
  <2>1. PICK j \in Jobs : Settle(j)
    BY <1>10
  <2>2. QED
    BY <2>1 DEF Settle, Known
<1>11. CASE \E j \in Jobs : Acknowledge(j)
  <2>1. PICK j \in Jobs : Acknowledge(j)
    BY <1>11
  <2>2. QED
    BY <2>1 DEF Acknowledge, Known
<1>12. CASE UNCHANGED migrationVars
  BY <1>12 DEF migrationVars
<1>13. QED
  BY <1>1, <1>2, <1>3, <1>4, <1>5, <1>6, <1>7, <1>8, <1>9, <1>10, <1>11, <1>12 DEF MigrationNext, Script, Worker

LEMMA NextPending ==
  ASSUME MigrationInv, [MigrationNext]_migrationVars
  PROVE  PendingHasMessage'
<1> USE DEF MigrationInv, MigrationTypeInv, ScriptInv, PendingHasMessage, Known, Status, Over, scriptVars, storeVars
<1>1. CASE Start
  BY <1>1 DEF Start, Ended
<1>2. CASE Receive
  BY <1>2 DEF Receive, Ended, Verdict, Known
<1>3. CASE Write
  BY <1>3 DEF Write, MoveTo, NextCall, Merged
<1>4. CASE Send
  BY <1>4 DEF Send, MoveTo
<1>5. CASE Delete
  BY <1>5 DEF Delete, MoveTo
<1>6. CASE Dies
  BY <1>6 DEF Dies, MoveTo
<1>7. CASE Reappears
  BY <1>7 DEF Reappears
<1>8. CASE \E j \in Jobs : Cancel(j)
  <2>1. PICK j \in Jobs : Cancel(j)
    BY <1>8
  <2>2. QED
    BY <2>1 DEF Cancel, Known
<1>9. CASE \E j \in Jobs : Claim(j)
  <2>1. PICK j \in Jobs : Claim(j)
    BY <1>9
  <2>2. QED
    BY <2>1 DEF Claim, Known
<1>10. CASE \E j \in Jobs : Settle(j)
  <2>1. PICK j \in Jobs : Settle(j)
    BY <1>10
  <2>2. QED
    BY <2>1 DEF Settle, Known
<1>11. CASE \E j \in Jobs : Acknowledge(j)
  <2>1. PICK j \in Jobs : Acknowledge(j)
    BY <1>11
  <2>2. QED
    BY <2>1 DEF Acknowledge, Known
<1>12. CASE UNCHANGED migrationVars
  BY <1>12 DEF migrationVars
<1>13. QED
  BY <1>1, <1>2, <1>3, <1>4, <1>5, <1>6, <1>7, <1>8, <1>9, <1>10, <1>11, <1>12 DEF MigrationNext, Script, Worker

LEMMA NextRows ==
  ASSUME MigrationInv, [MigrationNext]_migrationVars
  PROVE  (\A j \in target : row[j] # "absent")'
<1> USE DEF MigrationInv, MigrationTypeInv, ScriptInv, Status, Over, scriptVars, storeVars
<1>1. CASE Start
  BY <1>1 DEF Start, Ended
<1>2. CASE Receive
  BY <1>2 DEF Receive, Ended, Verdict, Known
<1>3. CASE Write
  BY <1>3 DEF Write, MoveTo, NextCall, Merged
<1>4. CASE Send
  BY <1>4 DEF Send, MoveTo
<1>5. CASE Delete
  BY <1>5 DEF Delete, MoveTo
<1>6. CASE Dies
  BY <1>6 DEF Dies, MoveTo
<1>7. CASE Reappears
  BY <1>7 DEF Reappears
<1>8. CASE \E j \in Jobs : Cancel(j)
  <2>1. PICK j \in Jobs : Cancel(j)
    BY <1>8
  <2>2. QED
    BY <2>1 DEF Cancel, Known
<1>9. CASE \E j \in Jobs : Claim(j)
  <2>1. PICK j \in Jobs : Claim(j)
    BY <1>9
  <2>2. QED
    BY <2>1 DEF Claim, Known
<1>10. CASE \E j \in Jobs : Settle(j)
  <2>1. PICK j \in Jobs : Settle(j)
    BY <1>10
  <2>2. QED
    BY <2>1 DEF Settle, Known
<1>11. CASE \E j \in Jobs : Acknowledge(j)
  <2>1. PICK j \in Jobs : Acknowledge(j)
    BY <1>11
  <2>2. QED
    BY <2>1 DEF Acknowledge, Known
<1>12. CASE UNCHANGED migrationVars
  BY <1>12 DEF migrationVars
<1>13. QED
  BY <1>1, <1>2, <1>3, <1>4, <1>5, <1>6, <1>7, <1>8, <1>9, <1>10, <1>11, <1>12 DEF MigrationNext, Script, Worker

LEMMA InitInvariant == MigrationInit => MigrationInv
<1> SUFFICES ASSUME MigrationInit PROVE MigrationInv
  OBVIOUS
<1> USE DEF MigrationInit, Ended, Over
<1>1. MigrationTypeInv
  BY DEF MigrationTypeInv, Status
<1>2. ScriptInv
  BY DEF ScriptInv
<1>3. StartedInv /\ PendingHasMessage
  BY DEF StartedInv, PendingHasMessage, Known
<1>4. QED
  BY <1>1, <1>2, <1>3 DEF MigrationInv

LEMMA NextInvariant == MigrationInv /\ [MigrationNext]_migrationVars => MigrationInv'
BY NextType, NextScript, NextStarted, NextPending, NextRows DEF MigrationInv

-----------------------------------------------------------------------------

(* The inductive invariant holds of every behaviour.                       *)
THEOREM MigrationInvariant == MigrationSpec => []MigrationInv
BY InitInvariant, NextInvariant, PTL DEF MigrationSpec

(* Every variable keeps its type, and a message on the FIFO queue always   *)
(* finds a row (convert writes the row first).                             *)
THEOREM MigrationTypesHold == MigrationSpec => []MigrationTypeOK
<1>1. MigrationInv => MigrationTypeOK
  BY DEF MigrationInv, MigrationTypeInv, MigrationTypeOK, Status
<1>2. QED
  BY <1>1, MigrationInvariant, PTL

(* Wherever migrate-queue.py dies, a pending job has a message: the old    *)
(* one is deleted after the new one was accepted, or when the job settled. *)
THEOREM PendingHolds == MigrationSpec => []PendingHasMessage
<1>1. MigrationInv => PendingHasMessage
  BY DEF MigrationInv
<1>2. QED
  BY <1>1, MigrationInvariant, PTL

(* A job with a message on each queue is run once.                         *)
THEOREM MovedOnceHolds == MigrationSpec => []MovedOnce
<1>1. MigrationInv => MovedOnce
  BY DEF MigrationInv, StartedInv, MovedOnce
<1>2. QED
  BY <1>1, MigrationInvariant, PTL

(* What had settled is not touched: update() merges into the row as it is, *)
(* and enqueue() inserts one only where there is none.                     *)
THEOREM SettledHolds == MigrationSpec => SettledStays
<1>1. ASSUME MigrationInv, [MigrationNext]_migrationVars
      PROVE  [\A j \in Jobs : row[j] \in Over => row'[j] = row[j]]_migrationVars
  <2> SUFFICES ASSUME NEW j \in Jobs, row[j] \in Over PROVE row'[j] = row[j]
    OBVIOUS
  <2> USE DEF MigrationInv, MigrationTypeInv, Status, Over, storeVars, scriptVars
  <2>1. CASE Write
    BY <1>1, <2>1 DEF Write, Merged
  <2>2. CASE Start \/ Receive \/ Send \/ Delete \/ Dies \/ Reappears
    BY <2>2 DEF Start, Receive, Send, Delete, Dies, Reappears
  <2>3. CASE \E i \in Jobs : Cancel(i) \/ Worker(i)
    <3>1. PICK i \in Jobs : Cancel(i) \/ Worker(i)
      BY <2>3
    <3>2. QED
      BY <1>1, <3>1 DEF Cancel, Worker, Claim, Settle, Acknowledge
  <2>4. CASE UNCHANGED migrationVars
    BY <2>4 DEF migrationVars
  <2>5. QED
    BY <1>1, <2>1, <2>2, <2>3, <2>4 DEF MigrationNext, Script
<1>2. QED
  BY <1>1, MigrationInvariant, PTL DEF MigrationSpec, SettledStays

(* The migration is safe wherever the script dies (migrate-queue.py).      *)
THEOREM MigrationSafetyHolds == MigrationSpec => []MigrationSafety
BY MigrationTypesHold, PendingHolds, MovedOnceHolds, PTL DEF MigrationSafety

=============================================================================
