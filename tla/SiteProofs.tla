------------------------------ MODULE SiteProofs -----------------------------
(***************************************************************************)
(* Proofs about what the web front end keeps: LocalEvals for any number of *)
(* evaluations and of kills of the server, Sessions for any number of      *)
(* sign-ins, requests and refreshes, and ReportFold for any number of runs.*)
(***************************************************************************)
EXTENDS LocalEvals, Sessions, ReportFold, FiniteSetTheorems, TLAPS

Row == [ status : { "absent", "running" } \cup Terminal, cancelled : BOOLEAN ]

TypeInv ==
  /\ rec \in [ Evals -> Row ]
  /\ proc \in [ Evals -> { "none", "running", "finished", "broken" } ]
  /\ starting \subseteq children /\ children \subseteq Evals

(* start() is alone: LOCK is held from the start of run.sh to the record.  *)
StartInv ==
  /\ \A e, f \in starting : e = f
  /\ \A e \in starting : rec[e].status = "absent"
  /\ \A e \in Evals : rec[e].status = "absent" => ~rec[e].cancelled

(* A run that goes on has a record that says so, is about to have one, or  *)
(* lost its server in between.                                             *)
KnownInv ==
  \A e \in Evals :
    proc[e] = "running" => rec[e].status = "running" \/ e \in starting \cup orphans

IInv == TypeInv /\ StartInv /\ KnownInv /\ OneRun /\ SettledIsTrue

-----------------------------------------------------------------------------
LEMMA SetStatus ==
  ASSUME TypeInv, NEW e \in Evals, NEW status \in { "absent", "running" } \cup Terminal,
         rec' = [ rec EXCEPT ![e].status = status ]
  PROVE  /\ rec' \in [ Evals -> Row ] /\ rec'[e].status = status
         /\ rec'[e].cancelled <=> rec[e].cancelled
         /\ \A f \in Evals : f # e => rec'[f] = rec[f]
BY DEF TypeInv, Row

LEMMA SetCancelled ==
  ASSUME TypeInv, NEW e \in Evals, rec' = [ rec EXCEPT ![e].cancelled = TRUE ]
  PROVE  /\ rec' \in [ Evals -> Row ] /\ rec'[e].status = rec[e].status /\ rec'[e].cancelled
         /\ \A f \in Evals : f # e => rec'[f] = rec[f]
BY DEF TypeInv, Row

LEMMA StartKeeps ==
  ASSUME IInv, NEW e \in Evals, Start(e)
  PROVE  IInv'
<1> USE DEF IInv, Start, Unlocked
<1>1. TypeInv'
  BY DEF TypeInv
<1>2. StartInv'
  BY DEF StartInv
<1>3. KnownInv'
  BY DEF KnownInv, TypeInv
<1>4. \A f \in Evals \ orphans : proc[f] # "running"
  BY DEF KnownInv
<1>5. OneRun'
  BY <1>4 DEF OneRun, TypeInv
<1>6. SettledIsTrue'
  BY DEF SettledIsTrue, TypeInv, Terminal
<1>7. QED
  BY <1>1, <1>2, <1>3, <1>5, <1>6

LEMMA SaveKeeps ==
  ASSUME IInv, NEW e \in Evals, Save(e)
  PROVE  IInv'
<1> USE DEF IInv, Save
<1>1. /\ rec' \in [ Evals -> Row ] /\ rec'[e].status = "running"
      /\ rec'[e].cancelled <=> rec[e].cancelled
      /\ \A f \in Evals : f # e => rec'[f] = rec[f]
  BY SetStatus
<1>2. TypeInv'
  BY <1>1 DEF TypeInv
<1>3. StartInv'
  BY <1>1 DEF StartInv, TypeInv
<1>4. KnownInv' /\ OneRun'
  BY <1>1 DEF KnownInv, OneRun
<1>5. SettledIsTrue'
  BY <1>1 DEF SettledIsTrue, Terminal
<1>6. QED
  BY <1>2, <1>3, <1>4, <1>5

LEMMA SettleKeeps ==
  ASSUME IInv, NEW e \in Evals, Settle(e)
  PROVE  IInv'
<1> USE DEF IInv, Settle, Alive
<1>0. Outcome(e) \in Terminal
  BY DEF Outcome, Terminal
<1>1. /\ rec' \in [ Evals -> Row ] /\ rec'[e].status = Outcome(e)
      /\ rec'[e].cancelled <=> rec[e].cancelled
      /\ \A f \in Evals : f # e => rec'[f] = rec[f]
  BY <1>0, SetStatus
<1>2. TypeInv'
  BY <1>1 DEF TypeInv
<1>3. StartInv'
  BY <1>0, <1>1 DEF StartInv, Terminal
<1>4. KnownInv' /\ OneRun'
  BY <1>1 DEF KnownInv, OneRun
<1>5. SettledIsTrue'
  BY <1>0, <1>1 DEF SettledIsTrue, Terminal, Outcome
<1>6. QED
  BY <1>2, <1>3, <1>4, <1>5

LEMMA CancelKeeps ==
  ASSUME IInv, NEW e \in Evals, Cancel(e)
  PROVE  IInv'
<1> USE DEF IInv, Cancel
<1>1. /\ rec' \in [ Evals -> Row ] /\ rec'[e].status = rec[e].status /\ rec'[e].cancelled
      /\ \A f \in Evals : f # e => rec'[f] = rec[f]
  BY SetCancelled
<1>2. starting = {} /\ starting' = {} /\ children' \in { children, {} } /\ proc' = proc /\ orphans' = orphans
  OBVIOUS
<1>3. TypeInv'
  BY <1>1, <1>2 DEF TypeInv
<1>4. StartInv'
  BY <1>1, <1>2 DEF StartInv
<1>5. KnownInv' /\ OneRun'
  BY <1>1, <1>2 DEF KnownInv, OneRun
<1>6. SettledIsTrue'
  BY <1>1, <1>2 DEF SettledIsTrue, Terminal
<1>7. QED
  BY <1>3, <1>4, <1>5, <1>6

LEMMA OthersKeep ==
  ASSUME IInv, Crash \/ Restart \/ (\E e \in Evals : Exits(e)) \/ UNCHANGED vars
  PROVE  IInv'
<1> USE DEF IInv
<1>1. CASE Crash
  BY <1>1 DEF Crash, TypeInv, StartInv, KnownInv, OneRun, SettledIsTrue
<1>2. CASE Restart
  BY <1>2 DEF Restart, TypeInv, StartInv, KnownInv, OneRun, SettledIsTrue
<1>3. CASE \E e \in Evals : Exits(e)
  <2>1. PICK e \in Evals, how \in { "finished", "broken" } :
          /\ proc' = [ proc EXCEPT ![e] = how ] /\ proc[e] = "running"
          /\ UNCHANGED << rec, starting, children, orphans >>
    BY <1>3 DEF Exits
  <2>2. TypeInv' /\ StartInv'
    BY <2>1 DEF TypeInv, StartInv
  <2>3. KnownInv' /\ OneRun'
    BY <2>1 DEF TypeInv, KnownInv, OneRun
  <2>4. SettledIsTrue'
    BY <2>1 DEF TypeInv, SettledIsTrue
  <2>5. QED
    BY <2>2, <2>3, <2>4
<1>4. CASE UNCHANGED vars
  BY <1>4 DEF vars, TypeInv, StartInv, KnownInv, OneRun, SettledIsTrue
<1>5. QED
  BY <1>1, <1>2, <1>3, <1>4

LEMMA InitInvariant == Init => IInv
BY DEF Init, IInv, TypeInv, Row, StartInv, KnownInv, OneRun, SettledIsTrue, Terminal

LEMMA NextInvariant == IInv /\ [Next]_vars => IInv'
BY StartKeeps, SaveKeeps, SettleKeeps, CancelKeeps, OthersKeep DEF Next

-----------------------------------------------------------------------------

(* The inductive invariant holds of every behaviour.                       *)
THEOREM EvalsInvariant == Spec => []IInv
BY InitInvariant, NextInvariant, PTL DEF Spec

(* Every variable keeps its type, and one start() at most is between its   *)
(* run.sh and its record.                                                  *)
THEOREM TypesHold == Spec => []TypeOK
<1>1. IInv => TypeOK
  <2> SUFFICES ASSUME IInv PROVE TypeOK
    OBVIOUS
  <2>1. starting = {} \/ \E e \in starting : starting = {e}
    BY DEF IInv, StartInv
  <2>2. Cardinality(starting) <= 1
    BY <2>1, FS_EmptySet, FS_Singleton
  <2>3. QED
    BY <2>2 DEF IInv, TypeInv, Row, TypeOK
<1>2. QED
  BY <1>1, EvalsInvariant, PTL

(* start's Busy: whatever server started them, two runs never go on        *)
(* together, but for those whose server died before it recorded them.      *)
THEOREM OneRunHolds == Spec => []OneRun
<1>1. IInv => OneRun
  BY DEF IInv
<1>2. QED
  BY <1>1, EvalsInvariant, PTL

(* _settle: a settled record tells how its run ended, and a cancellation   *)
(* that was answered is never reported as done.                            *)
THEOREM SettledHolds == Spec => []SettledIsTrue
<1>1. IInv => SettledIsTrue
  BY DEF IInv
<1>2. QED
  BY <1>1, EvalsInvariant, PTL

(* The single evaluation mode is safe however often the server is killed   *)
(* (evals.py).                                                             *)
THEOREM EvalsSafetyHolds == Spec => []EvalsSafety
BY TypesHold, OneRunHolds, SettledHolds, PTL DEF EvalsSafety

-----------------------------------------------------------------------------
(* Sessions.                                                               *)

Places == { "idle", "fresh", "ask", "put", "end" }
Request == [ at : Places, sid : Sids \cup {0}, pair : Nat ]

SessionsTypes ==
  /\ file \in BOOLEAN /\ known \subseteq Sids
  /\ val \in [ Sids -> Nat ] /\ disk \in [ Sids -> Nat ]
  /\ issued \in [ Sids -> Nat ] /\ expired \in [ Sids -> Nat ]
  /\ request \in [ Requests -> Request ]
  /\ \A r \in Requests : ~At(r, "idle") => request[r].sid \in Sids

(* What is saved is what the dict holds; what is kept was issued.          *)
SavedInv ==
  /\ \A s \in known : val[s] # 0
  /\ file => \A s \in Sids : disk[s] # 0 => disk[s] = val[s]
  /\ file /\ known # {} => \A s \in Sids : disk[s] # 0 <=> s \in known

(* A copy is never newer than the session's pair; a pair about to be put is *)
(* GitHub's last and newer than the session's, and the only one.           *)
PairInv ==
  /\ \A s \in Sids : val[s] <= issued[s] /\ expired[s] <= issued[s]
  /\ \A r \in Requests : At(r, "fresh") \/ At(r, "ask") => request[r].pair <= val[request[r].sid]
  /\ \A r \in Requests : At(r, "put") => val[request[r].sid] < request[r].pair /\ request[r].pair = issued[request[r].sid]
  /\ \A q, r \in Requests : At(q, "put") /\ At(r, "put") /\ request[q].sid = request[r].sid => q = r

(* Only a granted pair that is on its way, or was lost, is not the session's. *)
LastInv == \A s \in Sids \ cut : ~Refreshing(s) => val[s] = issued[s]

SessionsInvariant == SessionsTypes /\ SavedInv /\ PairInv /\ LastInv

-----------------------------------------------------------------------------
(* A set whose members are all the same has one at most.                   *)
LEMMA OneAtMost ==
  ASSUME NEW S, \A p, q \in S : p = q
  PROVE  IsFiniteSet(S) /\ Cardinality(S) <= 1
<1>1. CASE S = {}
  BY <1>1, FS_EmptySet
<1>2. CASE S # {}
  <2>1. PICK p \in S : TRUE
    BY <1>2
  <2>2. S = {p}
    BY <2>1
  <2>3. IsFiniteSet({p}) /\ Cardinality({p}) = 1
    BY FS_Singleton
  <2>4. QED
    BY <2>2, <2>3
<1>3. QED
  BY <1>1, <1>2

(* What is loaded from the file is what the dict held.                     *)
LEMMA LoadedValues ==
  ASSUME SessionsInvariant
  PROVE  /\ Values = val /\ Loaded \subseteq Sids /\ \A s \in Loaded : val[s] # 0
         /\ file /\ known # {} => Loaded = known
         /\ file /\ known = {} => Loaded = { s \in Sids : disk[s] # 0 }
         /\ ~file => Loaded = known
BY DEF SessionsInvariant, SessionsTypes, SavedInv, Values, Loaded

(* One request goes on, and leaves the others where they are.              *)
LEMMA RequestMoves ==
  ASSUME SessionsInvariant, NEW r \in Requests, NEW place \in Places, NEW pair \in Nat,
         \/ Goes(r, place) /\ pair = request[r].pair
         \/ request' = [ request EXCEPT ![r].at = place, ![r].pair = pair ]
  PROVE  /\ request' \in [ Requests -> Request ]
         /\ request'[r].at = place /\ request'[r].sid = request[r].sid /\ request'[r].pair = pair
         /\ \A q \in Requests : q # r => request'[q] = request[q]
BY DEF SessionsInvariant, SessionsTypes, Request, Goes

(* The session's value is set and saved.                                   *)
LEMMA StoreKeeps ==
  ASSUME SessionsInvariant, file' = file, NEW keys \in SUBSET Sids, NEW values \in [ Sids -> Nat ],
         Store(keys, values), \A s \in keys : values[s] # 0
  PROVE  /\ known' \subseteq Sids /\ val' = values /\ disk' \in [ Sids -> Nat ] /\ SavedInv'
BY DEF SessionsInvariant, SessionsTypes, SavedInv, Store, Saved

LEMMA LoginKeeps ==
  ASSUME SessionsInvariant, file' = file, NEW s \in Sids, Login(s)
  PROVE  SessionsInvariant'
<1> DEFINE values == [ val EXCEPT ![s] = 1 ]
<1>1. values \in [ Sids -> Nat ] /\ values[s] = 1 /\ \A t \in Sids : t # s => values[t] = val[t]
  BY DEF SessionsInvariant, SessionsTypes
<1>2. /\ issued' \in [ Sids -> Nat ] /\ issued'[s] = 1 /\ issued[s] = 0
      /\ \A t \in Sids : t # s => issued'[t] = issued[t]
  BY DEF Login, SessionsInvariant, SessionsTypes
<1>3. Store(known \cup {s}, values) /\ UNCHANGED << expired, out, cut, request >>
  BY DEF Login
<1> HIDE DEF values
<1>4. /\ known' \subseteq Sids /\ val' = values /\ disk' \in [ Sids -> Nat ] /\ SavedInv'
  <2>1. (known \cup {s}) \in SUBSET Sids /\ \A t \in known \cup {s} : values[t] # 0
    BY <1>1 DEF SessionsInvariant, SessionsTypes, SavedInv
  <2>2. QED
    BY <1>1, <1>3, <2>1, StoreKeeps
<1>5. SessionsTypes'
  BY <1>2, <1>3, <1>4, <1>1 DEF SessionsInvariant, SessionsTypes, At
<1>6. val[s] = 0 /\ expired[s] = 0
  BY <1>2 DEF SessionsInvariant, SessionsTypes, PairInv
<1>7. \A t \in Sids : val[t] <= val'[t] /\ issued[t] <= issued'[t] /\ val'[t] <= issued'[t] /\ expired'[t] <= issued'[t]
  BY <1>1, <1>2, <1>3, <1>4, <1>6 DEF SessionsInvariant, SessionsTypes, PairInv
<1>8. \A r \in Requests : At(r, "put") => request[r].sid # s
  BY <1>2, <1>6 DEF SessionsInvariant, SessionsTypes, PairInv, At, Request
<1>9. PairInv'
  <2>1. \A r \in Requests : At(r, "fresh") \/ At(r, "ask") => request[r].sid \in Sids /\ request[r].pair \in Nat
    BY DEF SessionsInvariant, SessionsTypes, At, Request
  <2>2. \A r \in Requests : At(r, "fresh")' \/ At(r, "ask")' => request'[r].pair <= val'[request'[r].sid]
    BY <2>1, <1>3, <1>4, <1>1, <1>7 DEF SessionsInvariant, PairInv, SessionsTypes, At
  <2>3. \A r \in Requests : At(r, "put")' => val'[request'[r].sid] < request'[r].pair /\ request'[r].pair = issued'[request'[r].sid]
    BY <1>1, <1>2, <1>3, <1>4, <1>8 DEF SessionsInvariant, PairInv, SessionsTypes, At
  <2>4. \A q, r \in Requests : At(q, "put")' /\ At(r, "put")' /\ request'[q].sid = request'[r].sid => q = r
    BY <1>3 DEF SessionsInvariant, PairInv, At
  <2>5. QED
    BY <2>2, <2>3, <2>4, <1>7 DEF PairInv
<1>10. LastInv'
  BY <1>1, <1>2, <1>3, <1>4 DEF SessionsInvariant, LastInv, Refreshing, At
<1>11. QED
  BY <1>4, <1>5, <1>9, <1>10 DEF SessionsInvariant

LEMMA EnterKeeps ==
  ASSUME SessionsInvariant, file' = file, NEW r \in Requests, NEW s \in Sids, Enter(r, s)
  PROVE  SessionsInvariant'
<1>1. known' = Loaded /\ val' = val /\ UNCHANGED << disk, issued, expired, out, cut >>
  BY LoadedValues DEF Enter
<1>2. /\ request' \in [ Requests -> Request ]
      /\ request'[r].at \in { "fresh", "end" } /\ request'[r].sid = s /\ request'[r].pair = val[s]
      /\ \A q \in Requests : q # r => request'[q] = request[q]
  BY LoadedValues DEF Enter, SessionsInvariant, SessionsTypes, Request, Places
<1>3. At(r, "idle")
  BY DEF Enter
<1>4. SessionsTypes'
  BY <1>1, <1>2, LoadedValues DEF SessionsInvariant, SessionsTypes, At
<1>5. SavedInv'
  BY <1>1, LoadedValues DEF SessionsInvariant, SessionsTypes, SavedInv
<1>6. PairInv'
  <2>1. val[s] <= val[s]
    BY DEF SessionsInvariant, SessionsTypes
  <2>2. QED
    BY <1>1, <1>2, <1>3, <2>1 DEF SessionsInvariant, PairInv, At
<1>7. LastInv'
  BY <1>1, <1>2, <1>3 DEF SessionsInvariant, LastInv, Refreshing, At
<1>8. QED
  BY <1>4, <1>5, <1>6, <1>7 DEF SessionsInvariant

LEMMA FreshKeeps ==
  ASSUME SessionsInvariant, file' = file, NEW r \in Requests, Fresh(r)
  PROVE  SessionsInvariant'
<1>1. PICK place \in { "end", "ask" } : Goes(r, place)
  BY DEF Fresh
<1>2. At(r, "fresh") /\ UNCHANGED << known, val, disk, issued, expired, out, cut >>
  BY DEF Fresh
<1>3. request[r].pair \in Nat
  BY DEF SessionsInvariant, SessionsTypes, Request
<1>4. /\ request' \in [ Requests -> Request ]
      /\ request'[r].at = place /\ request'[r].sid = request[r].sid /\ request'[r].pair = request[r].pair
      /\ \A q \in Requests : q # r => request'[q] = request[q]
  <2>1. place \in Places
    BY <1>1 DEF Places
  <2>2. QED
    BY <1>1, <1>3, <2>1, RequestMoves
<1>5. SessionsTypes' /\ SavedInv'
  BY <1>2, <1>4 DEF SessionsInvariant, SessionsTypes, SavedInv, At
<1>6. PairInv'
  BY <1>2, <1>4 DEF SessionsInvariant, PairInv, At
<1>7. LastInv'
  BY <1>2, <1>4 DEF SessionsInvariant, LastInv, Refreshing, At
<1>8. QED
  BY <1>5, <1>6, <1>7 DEF SessionsInvariant

LEMMA AskKeeps ==
  ASSUME SessionsInvariant, file' = file, NEW r \in Requests, Ask(r)
  PROVE  SessionsInvariant'
<1> DEFINE s == request[r].sid
<1>1. At(r, "ask") /\ UNCHANGED << known, val, disk, expired, out >> /\ s \in Sids
  BY DEF Ask, SessionsInvariant, SessionsTypes, At
<1>2. request[r].pair \in Nat /\ issued[s] \in Nat /\ val[s] \in Nat /\ issued[s] + 1 \in Nat
  BY <1>1 DEF SessionsInvariant, SessionsTypes, Request
<1>3. Pair(r) <= val[s]
  BY <1>1, <1>2 DEF Pair, SessionsInvariant, PairInv
<1>4. CASE Pair(r) # issued[s] /\ Goes(r, "end") /\ UNCHANGED << issued, cut >>
  <2>1. /\ request' \in [ Requests -> Request ]
        /\ request'[r].at = "end" /\ request'[r].sid = s /\ request'[r].pair = request[r].pair
        /\ \A q \in Requests : q # r => request'[q] = request[q]
    BY <1>2, <1>4, RequestMoves DEF Places
  <2>2. SessionsTypes' /\ SavedInv'
    BY <1>1, <1>4, <2>1 DEF SessionsInvariant, SessionsTypes, SavedInv, At
  <2>3. PairInv'
    BY <1>1, <1>4, <2>1 DEF SessionsInvariant, PairInv, At
  <2>4. LastInv'
    BY <1>1, <1>4, <2>1 DEF SessionsInvariant, LastInv, Refreshing, At
  <2>5. QED
    BY <2>2, <2>3, <2>4 DEF SessionsInvariant
<1>5. CASE Pair(r) = issued[s] /\ issued' = [ issued EXCEPT ![s] = @ + 1 ]
  <2>1. val[s] = issued[s]
    BY <1>1, <1>2, <1>3, <1>5 DEF SessionsInvariant, PairInv
  <2>2. /\ issued' \in [ Sids -> Nat ] /\ issued'[s] = issued[s] + 1
        /\ \A t \in Sids : t # s => issued'[t] = issued[t]
    BY <1>1, <1>5 DEF SessionsInvariant, SessionsTypes
  <2>3. \A q \in Requests : At(q, "put") => request[q].sid # s
    BY <2>1, <1>2 DEF SessionsInvariant, PairInv, SessionsTypes, At, Request
  <2>4. \/ /\ request' = [ request EXCEPT ![r].at = "put", ![r].pair = issued[s] + 1 ] /\ cut' = cut
        \/ Goes(r, "end") /\ cut' = cut \cup {s}
    BY <1>5, <1>2 DEF Ask, Refreshed
  <2>5. PICK place \in { "put", "end" }, pair \in Nat :
          /\ request'[r].at = place /\ request'[r].sid = s /\ request'[r].pair = pair
          /\ request' \in [ Requests -> Request ]
          /\ \A q \in Requests : q # r => request'[q] = request[q]
          /\ place = "put" => pair = issued[s] + 1 /\ cut' = cut
          /\ place = "end" => cut' = cut \cup {s}
    <3>1. CASE request' = [ request EXCEPT ![r].at = "put", ![r].pair = issued[s] + 1 ] /\ cut' = cut
      <4>1. /\ request' \in [ Requests -> Request ]
            /\ request'[r].at = "put" /\ request'[r].sid = request[r].sid /\ request'[r].pair = issued[s] + 1
            /\ \A q \in Requests : q # r => request'[q] = request[q]
        BY <1>2, <3>1, RequestMoves DEF Places
      <4>2. QED
        BY <4>1, <3>1, <1>2
    <3>2. CASE Goes(r, "end") /\ cut' = cut \cup {s}
      <4>1. /\ request' \in [ Requests -> Request ]
            /\ request'[r].at = "end" /\ request'[r].sid = request[r].sid /\ request'[r].pair = request[r].pair
            /\ \A q \in Requests : q # r => request'[q] = request[q]
        BY <1>2, <3>2, RequestMoves DEF Places
      <4>2. QED
        BY <4>1, <3>2, <1>2
    <3>3. QED
      BY <3>1, <3>2, <2>4
  <2> HIDE DEF s
  <2>6. \A q \in Requests : At(q, "fresh")' \/ At(q, "ask")' \/ At(q, "put")' => q = r \/ request'[q] = request[q]
    BY <2>5
  <2>7. SessionsTypes' /\ SavedInv'
    BY <1>1, <2>2, <2>5 DEF SessionsInvariant, SessionsTypes, SavedInv, At
  <2>8. PairInv'
    <3>1. \A t \in Sids : val'[t] <= issued'[t] /\ expired'[t] <= issued'[t]
      BY <1>1, <1>2, <2>2 DEF SessionsInvariant, SessionsTypes, PairInv
    <3>2. \A q \in Requests : At(q, "fresh")' \/ At(q, "ask")' => request'[q].pair <= val'[request'[q].sid]
      BY <1>1, <2>5 DEF SessionsInvariant, PairInv, At
    <3>3. \A q \in Requests : At(q, "put")' => val'[request'[q].sid] < request'[q].pair /\ request'[q].pair = issued'[request'[q].sid]
      <4>1. At(r, "put")' => val'[s] < request'[r].pair /\ request'[r].pair = issued'[s]
        BY <1>1, <1>2, <2>1, <2>2, <2>5 DEF At
      <4>2. \A q \in Requests : q # r /\ At(q, "put")' => val'[request'[q].sid] < request'[q].pair /\ request'[q].pair = issued'[request'[q].sid]
        BY <1>1, <2>2, <2>3, <2>5 DEF SessionsInvariant, PairInv, SessionsTypes, At
      <4>3. QED
        BY <4>1, <4>2, <2>5
    <3>4. \A q, p \in Requests : At(q, "put")' /\ At(p, "put")' /\ request'[q].sid = request'[p].sid => q = p
      BY <2>3, <2>5 DEF SessionsInvariant, PairInv, At
    <3>5. QED
      BY <3>1, <3>2, <3>3, <3>4 DEF PairInv
  <2>9. LastInv'
    <3>1. ASSUME NEW t \in Sids \ cut', ~Refreshing(t)' PROVE val'[t] = issued'[t]
      <4>1. t # s
        <5>1. place = "end" => t # s
          BY <2>5, <3>1
        <5>2. place = "put" => t # s
          BY <2>5, <3>1 DEF Refreshing, At
        <5>3. QED
          BY <5>1, <5>2
      <4>2. ~Refreshing(t)
        BY <3>1, <2>5, <1>1 DEF Refreshing, At
      <4>3. QED
        BY <4>1, <4>2, <3>1, <2>2, <2>5, <1>1 DEF SessionsInvariant, LastInv
    <3>2. QED
      BY <3>1 DEF LastInv
  <2>10. QED
    BY <2>7, <2>8, <2>9 DEF SessionsInvariant
<1>6. QED
  BY <1>4, <1>5 DEF Ask

LEMMA PutKeeps ==
  ASSUME SessionsInvariant, file' = file, NEW r \in Requests, Put(r)
  PROVE  SessionsInvariant'
<1> DEFINE s == request[r].sid
           values == [ val EXCEPT ![s] = request[r].pair ]
<1>1. At(r, "put") /\ s \in Sids /\ request[r].pair \in Nat /\ val[s] \in Nat /\ UNCHANGED << issued, expired, out, cut >>
  BY DEF Put, SessionsInvariant, SessionsTypes, At, Request
<1>2. val[s] < request[r].pair /\ request[r].pair = issued[s]
  BY <1>1 DEF SessionsInvariant, PairInv
<1>3. values \in [ Sids -> Nat ] /\ values[s] = request[r].pair /\ \A t \in Sids : t # s => values[t] = val[t]
  BY <1>1 DEF SessionsInvariant, SessionsTypes
<1>4. Store(known \cup {s}, values)
  BY DEF Put
<1>5. /\ request' \in [ Requests -> Request ]
      /\ request'[r].at = "end" /\ request'[r].sid = s /\ request'[r].pair = request[r].pair
      /\ \A q \in Requests : q # r => request'[q] = request[q]
  BY <1>1, RequestMoves DEF Put, Places
<1> HIDE DEF values, s
<1>6. /\ known' \subseteq Sids /\ val' = values /\ disk' \in [ Sids -> Nat ] /\ SavedInv'
  <2>1. (known \cup {s}) \in SUBSET Sids /\ \A t \in known \cup {s} : values[t] # 0
    BY <1>1, <1>2, <1>3 DEF SessionsInvariant, SessionsTypes, SavedInv
  <2>2. QED
    BY <1>3, <1>4, <2>1, StoreKeeps
<1>7. SessionsTypes'
  BY <1>1, <1>3, <1>5, <1>6 DEF SessionsInvariant, SessionsTypes, At
<1>8. \A q \in Requests : q # r /\ At(q, "put") => request[q].sid # s
  BY <1>1 DEF SessionsInvariant, PairInv, s
<1>9. PairInv'
  <2>1. \A t \in Sids : val'[t] <= issued'[t] /\ expired'[t] <= issued'[t] /\ val[t] <= val'[t]
    BY <1>1, <1>2, <1>3, <1>6 DEF SessionsInvariant, SessionsTypes, PairInv
  <2>2. \A q \in Requests : At(q, "fresh")' \/ At(q, "ask")' => request'[q].pair <= val'[request'[q].sid]
    <3>1. SUFFICES ASSUME NEW q \in Requests, At(q, "fresh")' \/ At(q, "ask")' PROVE request'[q].pair <= val'[request'[q].sid]
      OBVIOUS
    <3>2. q # r /\ request'[q] = request[q] /\ (At(q, "fresh") \/ At(q, "ask"))
      BY <3>1, <1>5 DEF At
    <3>3. request[q].pair <= val[request[q].sid] /\ request[q].sid \in Sids /\ request[q].pair \in Nat
      BY <3>2 DEF SessionsInvariant, SessionsTypes, PairInv, At, Request
    <3>4. val[request[q].sid] \in Nat /\ val'[request[q].sid] \in Nat
      BY <3>3, <1>3, <1>6 DEF SessionsInvariant, SessionsTypes
    <3>5. QED
      BY <3>2, <3>3, <3>4, <2>1
  <2>3. \A q \in Requests : At(q, "put")' => val'[request'[q].sid] < request'[q].pair /\ request'[q].pair = issued'[request'[q].sid]
    BY <1>1, <1>3, <1>5, <1>6, <1>8 DEF SessionsInvariant, PairInv, SessionsTypes, At
  <2>4. \A q, p \in Requests : At(q, "put")' /\ At(p, "put")' /\ request'[q].sid = request'[p].sid => q = p
    BY <1>5 DEF SessionsInvariant, PairInv, At
  <2>5. QED
    BY <2>1, <2>2, <2>3, <2>4 DEF PairInv
<1>10. LastInv'
  <2>1. ASSUME NEW t \in Sids \ cut', ~Refreshing(t)' PROVE val'[t] = issued'[t]
    <3>1. CASE t = s
      BY <3>1, <1>1, <1>2, <1>3, <1>6
    <3>2. CASE t # s
      <4>1. ~Refreshing(t)
        BY <3>2, <2>1, <1>5 DEF Refreshing, At, s
      <4>2. QED
        BY <4>1, <3>2, <2>1, <1>1, <1>3, <1>6 DEF SessionsInvariant, LastInv
    <3>3. QED
      BY <3>1, <3>2
  <2>2. QED
    BY <2>1 DEF LastInv
<1>11. QED
  BY <1>6, <1>7, <1>9, <1>10 DEF SessionsInvariant

LEMMA OtherSessionsKeep ==
  ASSUME SessionsInvariant, file' = file,
         \/ \E s \in Sids : Logout(s) \/ Expire(s)
         \/ \E r \in Requests : End(r)
         \/ ServerRestarts
         \/ UNCHANGED sessionsVars
  PROVE  SessionsInvariant'
<1>1. CASE \E s \in Sids : Logout(s)
  <2>1. PICK s \in Sids : Logout(s)
    BY <1>1
  <2>2. /\ UNCHANGED << issued, expired, cut, request >> /\ val' = val
        /\ known' \subseteq Sids /\ disk' \in [ Sids -> Nat ] /\ SavedInv'
    <3>1. CASE Store(Loaded \ {s}, Values)
      <4>1. (Loaded \ {s}) \in SUBSET Sids /\ Values \in [ Sids -> Nat ] /\ \A t \in Loaded \ {s} : Values[t] # 0
        BY LoadedValues DEF SessionsInvariant, SessionsTypes
      <4>2. QED
        BY <3>1, <4>1, <2>1, StoreKeeps, LoadedValues DEF Logout
    <3>2. CASE UNCHANGED << known, val, disk >>
      BY <3>2, <2>1 DEF Logout, SessionsInvariant, SessionsTypes, SavedInv
    <3>3. QED
      BY <3>1, <3>2, <2>1 DEF Logout
  <2>3. SessionsTypes'
    BY <2>2 DEF SessionsInvariant, SessionsTypes, At
  <2>4. PairInv'
    BY <2>2 DEF SessionsInvariant, PairInv, At
  <2>5. LastInv'
    BY <2>2 DEF SessionsInvariant, LastInv, Refreshing, At
  <2>6. QED
    BY <2>2, <2>3, <2>4, <2>5 DEF SessionsInvariant
<1>2. CASE \E s \in Sids : Expire(s)
  <2>0. PICK s \in Sids : Expire(s)
    BY <1>2
  <2>1. PICK n \in Nat : n <= issued[s] /\ expired' = [ expired EXCEPT ![s] = n ]
    <3>1. PICK n \in expired[s] + 1 .. issued[s] : expired' = [ expired EXCEPT ![s] = n ]
      BY <2>0 DEF Expire
    <3>2. n \in Nat /\ n <= issued[s]
      BY <3>1 DEF SessionsInvariant, SessionsTypes
    <3>3. QED
      BY <3>1, <3>2
  <2>2. UNCHANGED << known, val, disk, issued, out, cut, request >>
    BY <2>0 DEF Expire
  <2>3. SessionsTypes' /\ SavedInv'
    BY <2>1, <2>2 DEF SessionsInvariant, SessionsTypes, SavedInv, At
  <2>4. PairInv'
    BY <2>1, <2>2 DEF SessionsInvariant, SessionsTypes, PairInv, At
  <2>5. LastInv'
    BY <2>2 DEF SessionsInvariant, LastInv, Refreshing, At
  <2>6. QED
    BY <2>3, <2>4, <2>5 DEF SessionsInvariant
<1>3. CASE \E r \in Requests : End(r)
  <2>1. PICK r \in Requests : End(r)
    BY <1>3
  <2>2. /\ request' \in [ Requests -> Request ] /\ request'[r].at = "idle" /\ At(r, "end")
        /\ \A q \in Requests : q # r => request'[q] = request[q]
        /\ UNCHANGED << known, val, disk, issued, expired, out, cut >>
    BY <2>1 DEF End, Idle, SessionsInvariant, SessionsTypes, Request, Places
  <2>3. SessionsTypes' /\ SavedInv'
    BY <2>2 DEF SessionsInvariant, SessionsTypes, SavedInv, At
  <2>4. PairInv'
    BY <2>2 DEF SessionsInvariant, PairInv, At
  <2>5. LastInv'
    BY <2>2 DEF SessionsInvariant, LastInv, Refreshing, At
  <2>6. QED
    BY <2>3, <2>4, <2>5 DEF SessionsInvariant
<1>4. CASE ServerRestarts
  <2>1. /\ request' \in [ Requests -> Request ] /\ \A q \in Requests : request'[q].at = "idle"
        /\ known' = {} /\ file /\ UNCHANGED << val, disk, issued, expired, out >>
        /\ cut' = cut \cup { request[r].sid : r \in { q \in Requests : At(q, "put") } }
    BY <1>4 DEF ServerRestarts, Idle, Request, Places
  <2>2. SessionsTypes' /\ SavedInv'
    BY <2>1 DEF SessionsInvariant, SessionsTypes, SavedInv, At
  <2>3. PairInv'
    BY <2>1 DEF SessionsInvariant, PairInv, At
  <2>4. \A s \in Sids \ cut' : s \notin cut /\ ~Refreshing(s)
    BY <2>1 DEF Refreshing
  <2>5. LastInv'
    BY <2>1, <2>4 DEF SessionsInvariant, LastInv
  <2>6. QED
    BY <2>2, <2>3, <2>5 DEF SessionsInvariant
<1>5. CASE UNCHANGED sessionsVars
  BY <1>5 DEF sessionsVars, SessionsInvariant, SessionsTypes, SavedInv, PairInv, LastInv, Refreshing, At
<1>6. QED
  BY <1>1, <1>2, <1>3, <1>4, <1>5

LEMMA InitSessions == SessionsInit => SessionsInvariant
BY DEF SessionsInit, Idle, SessionsInvariant, SessionsTypes, SavedInv, PairInv, LastInv, Refreshing, At, Request, Places

LEMMA NextSessions == SessionsInvariant /\ [SessionsNext]_sessionsVars => SessionsInvariant'
<1> SUFFICES ASSUME SessionsInvariant, [SessionsNext]_sessionsVars PROVE SessionsInvariant'
  OBVIOUS
<1>1. CASE SessionsNext
  BY <1>1, LoginKeeps, EnterKeeps, FreshKeeps, AskKeeps, PutKeeps, OtherSessionsKeep DEF SessionsNext
<1>2. CASE UNCHANGED sessionsVars
  <2>1. file' = file
    BY <1>2 DEF sessionsVars
  <2>2. QED
    BY <1>2, <2>1, OtherSessionsKeep
<1>3. QED
  BY <1>1, <1>2

(* The pairs of every session and the copies that requests hold.           *)
THEOREM SessionsInvariantHolds == SessionsSpec => []SessionsInvariant
BY InitSessions, NextSessions, PTL DEF SessionsSpec

(* _fresh: however many requests refresh one session at once and in however *)
(* many processes, a session that is kept can be refreshed again.          *)
THEOREM SessionsSafetyHolds == SessionsSpec => []SessionsSafety
<1>1. SessionsInvariant => SessionsSafety
  <2> SUFFICES ASSUME SessionsInvariant PROVE SessionsSafety
    OBVIOUS
  <2>1. \A s \in Sids : Cardinality({ r \in Requests : request[r].sid = s /\ At(r, "put") }) <= 1
    <3> SUFFICES ASSUME NEW s \in Sids
                 PROVE Cardinality({ r \in Requests : request[r].sid = s /\ At(r, "put") }) <= 1
      OBVIOUS
    <3>1. \A p, q \in { r \in Requests : request[r].sid = s /\ At(r, "put") } : p = q
      BY DEF SessionsInvariant, PairInv
    <3>2. QED
      BY <3>1, OneAtMost
  <2>2. SessionsTypeOK
    BY <2>1 DEF SessionsTypeOK, SessionsInvariant, PairInv, SavedInv
  <2>3. StaysRenewable
    BY DEF StaysRenewable, SessionsInvariant, SessionsTypes, LastInv
  <2>4. QED
    BY <2>2, <2>3 DEF SessionsSafety
<1>2. QED
  BY <1>1, SessionsInvariantHolds, PTL

-----------------------------------------------------------------------------
(* ReportFold.                                                             *)

Status    == { "none", "running", "done" }
Cards     == [ scored : SUBSET Runs, latest : Runs \cup {0} ]
TaskCards == [ runnable : BOOLEAN, results : SUBSET Runs ]
InPublish    == { "harness", "put", "row", "results", "update" }
InRefresh == { "profile", "fold", "reput", "rank" }
Publisher == [ at : { "begin", "running", "refresh", "end" } \cup InPublish \cup InRefresh,
               card : Cards, task : TaskCards ]

FoldTypes ==
  /\ lag \in BOOLEAN /\ row \in [ Runs -> Status ] /\ index \in [ Runs -> Status ]
  /\ harness \in Cards /\ profile \in Runs \cup {0} /\ task \in TaskCards
  /\ publisher \in [ Runs -> Publisher ]
  /\ sync \in [ at : { "begin", "put", "stale", "end" }, results : SUBSET Runs ]
  /\ lock \in [ { "publish", "refresh" } -> SUBSET (Runs \cup {0}) ]

(* A run's row follows its publisher, the index follows the rows, and the  *)
(* runs an index knows have a latest one.                                  *)
RowInv ==
  /\ \A r \in Runs : row[r] = CASE PublisherAt(r, "begin") -> "none"
                                [] PublisherAt(r, "running") -> "running"
                                [] OTHER -> "done"
  /\ \A r \in Runs : (index[r] # "none" => row[r] # "none") /\ (index[r] = "done" => row[r] = "done")
  /\ ~lag => index = row
  /\ \E m \in Known(index) \cup {0} : \A q \in Known(index) : q <= m

(* Every card, and every copy of one, counts finished runs only.           *)
SeenInv ==
  /\ harness.scored \cup task.results \cup sync.results \subseteq Scored(row)
  /\ \A r \in Runs : publisher[r].card.scored \cup publisher[r].task.results \subseteq Scored(row)

LockInv ==
  /\ \A w \in { "publish", "refresh" } : \A p, q \in lock[w] : p = q
  /\ Locked => /\ \A r \in Runs : publisher[r].at \in InPublish => lock["publish"] = {r}
               /\ \A r \in Runs : publisher[r].at \in InRefresh => lock["refresh"] = {r}
               /\ sync.at \in { "put", "stale" } => lock["publish"] = {0}

(* Under the lock a task card read is the task card, up to its results.    *)
TaskInv ==
  /\ sync.at \in { "stale", "end" } => ~task.runnable
  /\ sync.at = "end" => listed = {}
  /\ \A r \in Runs : publisher[r].at \in { "results", "update" } => publisher[r].task.runnable = task.runnable
  /\ ~lag => /\ \A r \in Runs : PublisherAt(r, "update") => publisher[r].task.results = Scored(row)
             /\ sync.at = "put" => sync.results = task.results
             /\ (\A r \in Runs : publisher[r].at \notin InPublish) => task.results = Scored(row)

(* Whoever may still write a harness card has read the profiled run.       *)
ProfileInv ==
  ~lag => /\ profile <= harness.latest /\ (profile # 0 => row[profile] # "none")
          /\ \A r \in Runs :
               /\ PublisherAt(r, "put") => \A q \in Known(row) : q <= publisher[r].card.latest
               /\ PublisherAt(r, "profile") => profile < r /\ r <= harness.latest
               /\ PublisherAt(r, "fold") \/ PublisherAt(r, "reput") => profile = r
               /\ PublisherAt(r, "reput") => r <= publisher[r].card.latest

FoldInvariant == FoldTypes /\ RowInv /\ SeenInv /\ LockInv /\ (Locked => TaskInv /\ ProfileInv)

-----------------------------------------------------------------------------
FoldPlaces == { "begin", "running", "refresh", "end" } \cup InPublish \cup InRefresh

LEMMA RunNumbers == \A m \in Runs \cup {0} : m \in Nat
BY ReportFoldAssumption

LEMMA GoMoves ==
  ASSUME FoldTypes, NEW r \in Runs, NEW place \in FoldPlaces, Go(r, place)
  PROVE  /\ publisher' \in [ Runs -> Publisher ] /\ publisher'[r].at = place
         /\ publisher'[r].card = publisher[r].card /\ publisher'[r].task = publisher[r].task
         /\ \A q \in Runs : q # r => publisher'[q] = publisher[q]
BY DEF FoldTypes, Publisher, FoldPlaces, Go

(* The latest of a set that has one.                                       *)
LEMMA LatestIsLatest ==
  ASSUME NEW S \in SUBSET Runs, \E m \in S \cup {0} : \A q \in S : q <= m
  PROVE  Latest(S) \in S \cup {0} /\ \A q \in S : q <= Latest(S)
BY DEF Latest

(* What a fold makes of the index.                                         *)
LEMMA FoldIsCard ==
  ASSUME FoldTypes, RowInv
  PROVE  /\ CardOf(index) \in Cards /\ CardOf(index).scored \subseteq Scored(row)
         /\ \A q \in Known(index) : q <= CardOf(index).latest
<1>1. Known(index) \in SUBSET Runs /\ Scored(index) \in SUBSET Scored(row) /\ Scored(row) \in SUBSET Runs
  BY DEF Known, Scored, RowInv
<1>2. Latest(Known(index)) \in Runs \cup {0} /\ \A q \in Known(index) : q <= Latest(Known(index))
  BY <1>1, LatestIsLatest DEF RowInv
<1>3. QED
  BY <1>1, <1>2 DEF CardOf, Cards

(* One more run has a row: the rows known still have a latest.             *)
LEMMA IndexGrows ==
  ASSUME FoldTypes, RowInv, NEW r \in Runs, NEW status \in { "running", "done" },
         index' = index \/ index' = [ index EXCEPT ![r] = status ]
  PROVE  /\ index' \in [ Runs -> Status ]
         /\ \E m \in Known(index') \cup {0} : \A q \in Known(index') : q <= m
<1>1. CASE index' = index
  BY <1>1 DEF FoldTypes, RowInv
<1>2. CASE index' = [ index EXCEPT ![r] = status ]
  <2>1. index' \in [ Runs -> Status ] /\ Known(index') = Known(index) \cup {r}
    BY <1>2 DEF FoldTypes, Status, Known
  <2>2. PICK m \in Known(index) \cup {0} : \A q \in Known(index) : q <= m
    BY DEF RowInv
  <2>0. Runs \subseteq Nat
    BY ReportFoldAssumption
  <2>3. Known(index) \subseteq Nat /\ m \in Nat /\ r \in Nat
    <3>1. Known(index) \subseteq Runs
      BY DEF Known
    <3>2. QED
      BY <3>1, <2>2, RunNumbers
  <2>4. CASE r <= m
    BY <2>1, <2>2, <2>4
  <2>5. CASE m < r
    BY <2>1, <2>2, <2>3, <2>5
  <2>6. QED
    BY <2>1, <2>3, <2>4, <2>5
<1>3. QED
  BY <1>1, <1>2

LEMMA CardKeeps ==
  ASSUME FoldInvariant, lag' = lag, NEW r \in Runs, Card(r)
  PROVE  FoldInvariant'
<1> USE DEF FoldInvariant
<1>1. /\ publisher' \in [ Runs -> Publisher ] /\ publisher'[r].at = "running"
      /\ publisher'[r].card = publisher[r].card /\ publisher'[r].task = publisher[r].task
      /\ \A q \in Runs : q # r => publisher'[q] = publisher[q]
  BY GoMoves DEF Card, FoldPlaces
<1>2. /\ row' \in [ Runs -> Status ] /\ row'[r] = "running" /\ \A q \in Runs : q # r => row'[q] = row[q]
  BY DEF Card, Indexed, FoldTypes, Status
<1>3. /\ index' \in [ Runs -> Status ] /\ (~lag => index' = row') /\ (lag => index' = index)
      /\ \E m \in Known(index') \cup {0} : \A q \in Known(index') : q <= m
  BY IndexGrows DEF Card, Indexed, RowInv
<1>4. PublisherAt(r, "begin") /\ (Locked => lock["publish"] = {}) /\ UNCHANGED << harness, profile, task, listed, sync, lock >>
  BY DEF Card, Free
<1>5. Runs \subseteq Nat /\ 0 \notin Runs
  BY ReportFoldAssumption
<1>6. FoldTypes'
  BY <1>1, <1>2, <1>3, <1>4, <1>5 DEF FoldTypes
<1>7. RowInv'
  BY <1>1, <1>2, <1>3, <1>4, <1>5 DEF FoldTypes, RowInv, Known, PublisherAt
<1>8. SeenInv'
  BY <1>1, <1>2, <1>3, <1>4, <1>5 DEF FoldTypes, SeenInv, RowInv, Scored, PublisherAt
<1>9. LockInv'
  BY <1>1, <1>2, <1>3, <1>4, <1>5 DEF FoldTypes, LockInv, PublisherAt, InPublish, InRefresh
<1>10. (Locked => TaskInv)'
  BY <1>1, <1>2, <1>3, <1>4, <1>5 DEF FoldTypes, TaskInv, LockInv, RowInv, Scored, PublisherAt, InPublish, InRefresh
<1>11. (Locked => ProfileInv)'
  BY <1>1, <1>2, <1>3, <1>4, <1>5 DEF FoldTypes, ProfileInv, LockInv, RowInv, Known, PublisherAt, InPublish, InRefresh
<1>12. QED
  BY <1>6, <1>7, <1>8, <1>9, <1>10, <1>11

LEMMA PutRunKeeps ==
  ASSUME FoldInvariant, lag' = lag, NEW r \in Runs, PutRun(r)
  PROVE  FoldInvariant'
<1> USE DEF FoldInvariant
<1>1. /\ publisher' \in [ Runs -> Publisher ] /\ publisher'[r].at = "harness"
      /\ publisher'[r].card = publisher[r].card /\ publisher'[r].task = publisher[r].task
      /\ \A q \in Runs : q # r => publisher'[q] = publisher[q]
  BY GoMoves DEF PutRun, FoldPlaces, InPublish
<1>2. /\ row' \in [ Runs -> Status ] /\ row'[r] = "done" /\ \A q \in Runs : q # r => row'[q] = row[q]
  BY DEF PutRun, Indexed, FoldTypes, Status
<1>3. /\ index' \in [ Runs -> Status ] /\ (~lag => index' = row') /\ (lag => index' = index)
      /\ \E m \in Known(index') \cup {0} : \A q \in Known(index') : q <= m
  BY IndexGrows DEF PutRun, Indexed, RowInv
<1>4. PublisherAt(r, "running") /\ (Locked => lock["publish"] = {}) /\ UNCHANGED << harness, profile, task, listed, sync >>
  BY DEF PutRun, Free
<1>5. lock' = (IF Locked THEN [ lock EXCEPT !["publish"] = {r} ] ELSE lock)
  BY DEF PutRun, Hold
<1>6. Runs \subseteq Nat /\ 0 \notin Runs
  BY ReportFoldAssumption
<1>7. Locked => (\A q \in Runs : publisher[q].at \notin InPublish) /\ sync.at \notin { "put", "stale" }
  BY <1>4 DEF LockInv
<1>8. "harness" \in InPublish
  BY DEF InPublish
<1>9. FoldTypes'
  BY <1>1, <1>2, <1>3, <1>4, <1>5, <1>6, <1>7, <1>8 DEF FoldTypes
<1>10. RowInv'
  BY <1>1, <1>2, <1>3, <1>4, <1>5, <1>6, <1>7, <1>8 DEF FoldTypes, RowInv, Known, PublisherAt
<1>11. SeenInv'
  BY <1>1, <1>2, <1>3, <1>4, <1>5, <1>6, <1>7, <1>8 DEF FoldTypes, SeenInv, RowInv, Scored, PublisherAt
<1>12. LockInv'
  BY <1>1, <1>2, <1>3, <1>4, <1>5, <1>6, <1>7, <1>8 DEF FoldTypes, LockInv, PublisherAt, InPublish, InRefresh
<1>13. (Locked => TaskInv)'
  BY <1>1, <1>2, <1>3, <1>4, <1>5, <1>6, <1>7, <1>8 DEF FoldTypes, TaskInv, LockInv, RowInv, Scored, PublisherAt, InPublish, InRefresh
<1>14. (Locked => ProfileInv)'
  BY <1>1, <1>2, <1>3, <1>4, <1>5, <1>6, <1>7, <1>8 DEF FoldTypes, ProfileInv, LockInv, RowInv, Known, PublisherAt, InPublish, InRefresh
<1>15. QED
  BY <1>9, <1>10, <1>11, <1>12, <1>13, <1>14

LEMMA ReadHarnessKeeps ==
  ASSUME FoldInvariant, lag' = lag, NEW r \in Runs, ReadHarness(r, "harness", "put")
  PROVE  FoldInvariant'
<1> USE DEF FoldInvariant
<1>1. /\ CardOf(index) \in Cards /\ CardOf(index).scored \subseteq Scored(row)
      /\ \A q \in Known(index) : q <= CardOf(index).latest
  BY FoldIsCard
<1>2. /\ publisher' \in [ Runs -> Publisher ] /\ publisher'[r].at = "put"
      /\ publisher'[r].card = CardOf(index) /\ publisher'[r].task = publisher[r].task
      /\ \A q \in Runs : q # r => publisher'[q] = publisher[q]
  BY FoldIsCard DEF ReadHarness, Fold, FoldTypes, Publisher, InPublish, InRefresh
<1>3. PublisherAt(r, "harness") /\ UNCHANGED << table, sync, lock >>
  BY DEF ReadHarness
<1>4. Runs \subseteq Nat /\ 0 \notin Runs
  BY ReportFoldAssumption
<1> USE DEF table
<1>5. FoldTypes'
  BY <1>1, <1>2, <1>3, <1>4 DEF FoldTypes
<1>6. RowInv'
  BY <1>1, <1>2, <1>3, <1>4 DEF FoldTypes, RowInv, Known, PublisherAt
<1>7. SeenInv'
  BY <1>1, <1>2, <1>3, <1>4 DEF FoldTypes, SeenInv, RowInv, Scored, PublisherAt
<1>8. LockInv'
  BY <1>1, <1>2, <1>3, <1>4 DEF FoldTypes, LockInv, PublisherAt, InPublish, InRefresh
<1>9. (Locked => TaskInv)'
  BY <1>1, <1>2, <1>3, <1>4 DEF FoldTypes, TaskInv, LockInv, RowInv, Scored, PublisherAt, InPublish, InRefresh
<1>10. (Locked => ProfileInv)'
  BY <1>1, <1>2, <1>3, <1>4 DEF FoldTypes, ProfileInv, LockInv, RowInv, Known, PublisherAt, InPublish, InRefresh
<1>11. QED
  BY <1>5, <1>6, <1>7, <1>8, <1>9, <1>10

LEMMA WriteHarnessKeeps ==
  ASSUME FoldInvariant, lag' = lag, NEW r \in Runs, WriteHarness(r)
  PROVE  FoldInvariant'
<1> USE DEF FoldInvariant
<1>1. /\ publisher' \in [ Runs -> Publisher ] /\ publisher'[r].at = "row"
      /\ publisher'[r].card = publisher[r].card /\ publisher'[r].task = publisher[r].task
      /\ \A q \in Runs : q # r => publisher'[q] = publisher[q]
  BY GoMoves DEF WriteHarness, FoldPlaces, InPublish, InRefresh
<1>2. PublisherAt(r, "put") /\ UNCHANGED << row, index, profile, task, listed, sync, lock >>
  BY DEF WriteHarness, table
<1>3. harness' = publisher[r].card /\ publisher[r].card \in Cards
  BY DEF WriteHarness, FoldTypes, Publisher
<1>4. profile \in Nat /\ publisher[r].card.latest \in Nat
  BY <1>3, RunNumbers DEF FoldTypes, Cards
<1>5. \A q \in Runs : PublisherAt(q, "profile") => row[q] # "none"
  BY DEF RowInv, PublisherAt
<1>6. Locked /\ ~lag => profile <= publisher[r].card.latest /\ \A q \in Runs : PublisherAt(q, "profile") => q <= publisher[r].card.latest
  BY <1>2, <1>4, <1>5 DEF ProfileInv, FoldTypes, Known
<1>7. Runs \subseteq Nat /\ 0 \notin Runs
  BY ReportFoldAssumption
<1>8. FoldTypes'
  BY <1>1, <1>2, <1>3, <1>4, <1>5, <1>6, <1>7 DEF FoldTypes
<1>9. RowInv'
  BY <1>1, <1>2, <1>3, <1>4, <1>5, <1>6, <1>7 DEF FoldTypes, RowInv, Known, PublisherAt
<1>10. SeenInv'
  BY <1>1, <1>2, <1>3, <1>4, <1>5, <1>6, <1>7 DEF FoldTypes, SeenInv, RowInv, Scored, PublisherAt
<1>11. LockInv'
  BY <1>1, <1>2, <1>3, <1>4, <1>5, <1>6, <1>7 DEF FoldTypes, LockInv, PublisherAt, InPublish, InRefresh
<1>12. (Locked => TaskInv)'
  BY <1>1, <1>2, <1>3, <1>4, <1>5, <1>6, <1>7 DEF FoldTypes, TaskInv, LockInv, RowInv, Scored, PublisherAt, InPublish, InRefresh
<1>13. (Locked => ProfileInv)'
  BY <1>1, <1>2, <1>3, <1>4, <1>5, <1>6, <1>7 DEF FoldTypes, ProfileInv, LockInv, RowInv, Known, PublisherAt, InPublish, InRefresh
<1>14. QED
  BY <1>8, <1>9, <1>10, <1>11, <1>12, <1>13

LEMMA ReadTaskKeeps ==
  ASSUME FoldInvariant, lag' = lag, NEW r \in Runs, ReadTask(r)
  PROVE  FoldInvariant'
<1> USE DEF FoldInvariant
<1>1. /\ publisher' \in [ Runs -> Publisher ] /\ publisher'[r].at = "results"
      /\ publisher'[r].card = publisher[r].card /\ publisher'[r].task = task
      /\ \A q \in Runs : q # r => publisher'[q] = publisher[q]
  BY DEF ReadTask, FoldTypes, Publisher, InPublish
<1>2. PublisherAt(r, "row") /\ UNCHANGED << row, index, harness, profile, task, listed, sync, lock >>
  BY DEF ReadTask, table
<1>3. Runs \subseteq Nat /\ 0 \notin Runs
  BY ReportFoldAssumption
<1>4. FoldTypes'
  BY <1>1, <1>2, <1>3 DEF FoldTypes
<1>5. RowInv'
  BY <1>1, <1>2, <1>3 DEF FoldTypes, RowInv, Known, PublisherAt
<1>6. SeenInv'
  BY <1>1, <1>2, <1>3 DEF FoldTypes, SeenInv, RowInv, Scored, PublisherAt
<1>7. LockInv'
  BY <1>1, <1>2, <1>3 DEF FoldTypes, LockInv, PublisherAt, InPublish, InRefresh
<1>8. (Locked => TaskInv)'
  BY <1>1, <1>2, <1>3 DEF FoldTypes, TaskInv, LockInv, RowInv, Scored, PublisherAt, InPublish, InRefresh
<1>9. (Locked => ProfileInv)'
  BY <1>1, <1>2, <1>3 DEF FoldTypes, ProfileInv, LockInv, RowInv, Known, PublisherAt, InPublish, InRefresh
<1>10. QED
  BY <1>4, <1>5, <1>6, <1>7, <1>8, <1>9

LEMMA ReadResultsKeeps ==
  ASSUME FoldInvariant, lag' = lag, NEW r \in Runs, ReadResults(r)
  PROVE  FoldInvariant'
<1> USE DEF FoldInvariant
<1>1. Scored(index) \subseteq Scored(row) /\ Scored(index) \in SUBSET Runs
  BY DEF Scored, RowInv
<1>2. publisher[r] \in Publisher /\ publisher[r].task \in TaskCards
  BY DEF FoldTypes, Publisher
<1> DEFINE t == [ publisher[r].task EXCEPT !.results = Scored(index) ]
<1>3. t \in TaskCards /\ t.results = Scored(index) /\ t.runnable = publisher[r].task.runnable
  BY <1>1, <1>2 DEF TaskCards
<1>4. publisher' = [ publisher EXCEPT ![r] = [ publisher[r] EXCEPT !.at = "update", !.task = t ] ]
  BY <1>2, <1>3 DEF ReadResults, FoldTypes, Publisher, TaskCards
<1> HIDE DEF t
<1>5. /\ publisher' \in [ Runs -> Publisher ] /\ publisher'[r].at = "update"
      /\ publisher'[r].card = publisher[r].card /\ publisher'[r].task = t
      /\ \A q \in Runs : q # r => publisher'[q] = publisher[q]
  BY <1>2, <1>3, <1>4 DEF FoldTypes, Publisher, InPublish
<1>6. PublisherAt(r, "results") /\ UNCHANGED << row, index, harness, profile, task, listed, sync, lock >>
  BY DEF ReadResults, table
<1>7. Runs \subseteq Nat /\ 0 \notin Runs
  BY ReportFoldAssumption
<1>8. FoldTypes'
  BY <1>1, <1>2, <1>3, <1>4, <1>5, <1>6, <1>7 DEF FoldTypes
<1>9. RowInv'
  BY <1>1, <1>2, <1>3, <1>4, <1>5, <1>6, <1>7 DEF FoldTypes, RowInv, Known, PublisherAt
<1>10. SeenInv'
  BY <1>1, <1>2, <1>3, <1>4, <1>5, <1>6, <1>7 DEF FoldTypes, SeenInv, RowInv, Scored, PublisherAt
<1>11. LockInv'
  BY <1>1, <1>2, <1>3, <1>4, <1>5, <1>6, <1>7 DEF FoldTypes, LockInv, PublisherAt, InPublish, InRefresh
<1>12. (Locked => TaskInv)'
  BY <1>1, <1>2, <1>3, <1>4, <1>5, <1>6, <1>7 DEF FoldTypes, TaskInv, LockInv, RowInv, Scored, PublisherAt, InPublish, InRefresh
<1>13. (Locked => ProfileInv)'
  BY <1>1, <1>2, <1>3, <1>4, <1>5, <1>6, <1>7 DEF FoldTypes, ProfileInv, LockInv, RowInv, Known, PublisherAt, InPublish, InRefresh
<1>14. QED
  BY <1>8, <1>9, <1>10, <1>11, <1>12, <1>13

LEMMA WriteTaskKeeps ==
  ASSUME FoldInvariant, lag' = lag, NEW r \in Runs, WriteTask(r)
  PROVE  FoldInvariant'
<1> USE DEF FoldInvariant
<1>1. /\ publisher' \in [ Runs -> Publisher ] /\ publisher'[r].at = "refresh"
      /\ publisher'[r].card = publisher[r].card /\ publisher'[r].task = publisher[r].task
      /\ \A q \in Runs : q # r => publisher'[q] = publisher[q]
  BY GoMoves DEF WriteTask, FoldPlaces, InPublish, InRefresh
<1>2. PublisherAt(r, "update") /\ UNCHANGED << row, index, harness, profile, sync >>
  BY DEF WriteTask, table
<1>3. task' = publisher[r].task /\ publisher[r].task \in TaskCards /\ listed' = (IF task'.runnable THEN { task'.results } ELSE listed)
  BY DEF WriteTask, FoldTypes, Publisher
<1>4. lock' = [ lock EXCEPT !["publish"] = {} ]
  BY DEF WriteTask, Drop
<1>5. PublisherAt(r, "update") => publisher[r].at \in InPublish
  BY DEF PublisherAt, InPublish
<1>6. Locked => (\A q \in Runs : q # r => publisher[q].at \notin InPublish) /\ sync.at \notin { "put", "stale" }
  BY <1>2, <1>5, ReportFoldAssumption DEF LockInv
<1>7. Locked => task'.runnable = task.runnable /\ (~lag => task'.results = Scored(row))
  BY <1>2, <1>3 DEF TaskInv, PublisherAt
<1>8. Runs \subseteq Nat /\ 0 \notin Runs
  BY ReportFoldAssumption
<1>9. FoldTypes'
  BY <1>1, <1>2, <1>3, <1>4, <1>5, <1>6, <1>7, <1>8 DEF FoldTypes
<1>10. RowInv'
  BY <1>1, <1>2, <1>3, <1>4, <1>5, <1>6, <1>7, <1>8 DEF FoldTypes, RowInv, Known, PublisherAt
<1>11. SeenInv'
  BY <1>1, <1>2, <1>3, <1>4, <1>5, <1>6, <1>7, <1>8 DEF FoldTypes, SeenInv, RowInv, Scored, PublisherAt
<1>12. LockInv'
  BY <1>1, <1>2, <1>3, <1>4, <1>5, <1>6, <1>7, <1>8 DEF FoldTypes, LockInv, PublisherAt, InPublish, InRefresh
<1>13. (Locked => TaskInv)'
  BY <1>1, <1>2, <1>3, <1>4, <1>5, <1>6, <1>7, <1>8 DEF FoldTypes, TaskInv, LockInv, RowInv, Scored, PublisherAt, InPublish, InRefresh
<1>14. (Locked => ProfileInv)'
  BY <1>1, <1>2, <1>3, <1>4, <1>5, <1>6, <1>7, <1>8 DEF FoldTypes, ProfileInv, LockInv, RowInv, Known, PublisherAt, InPublish, InRefresh
<1>15. QED
  BY <1>9, <1>10, <1>11, <1>12, <1>13, <1>14

LEMMA RefreshKeeps ==
  ASSUME FoldInvariant, lag' = lag, NEW r \in Runs, Refresh(r)
  PROVE  FoldInvariant'
<1> USE DEF FoldInvariant
<1>1. PICK place \in { "profile", "rank" } : Go(r, place) /\ (place = "profile" => harness.latest = r /\ profile # r)
  BY DEF Refresh, Current
<1>2. place \in FoldPlaces
  BY DEF FoldPlaces, InRefresh
<1>3. /\ publisher' \in [ Runs -> Publisher ] /\ publisher'[r].at = place
      /\ publisher'[r].card = publisher[r].card /\ publisher'[r].task = publisher[r].task
      /\ \A q \in Runs : q # r => publisher'[q] = publisher[q]
  BY <1>1, <1>2, GoMoves
<1>4. PublisherAt(r, "refresh") /\ (Locked => lock["refresh"] = {}) /\ UNCHANGED << row, index, harness, profile, task, listed, sync >>
  BY DEF Refresh, Free, table
<1>5. lock' = (IF Locked THEN [ lock EXCEPT !["refresh"] = {r} ] ELSE lock)
  BY DEF Refresh, Hold
<1>6. Runs \subseteq Nat /\ 0 \notin Runs
  BY ReportFoldAssumption
<1>7. FoldTypes'
  BY <1>1, <1>2, <1>3, <1>4, <1>5, <1>6 DEF FoldTypes
<1>8. RowInv'
  BY <1>1, <1>2, <1>3, <1>4, <1>5, <1>6 DEF FoldTypes, RowInv, Known, PublisherAt
<1>9. SeenInv'
  BY <1>1, <1>2, <1>3, <1>4, <1>5, <1>6 DEF FoldTypes, SeenInv, RowInv, Scored, PublisherAt
<1>10. LockInv'
  BY <1>1, <1>2, <1>3, <1>4, <1>5, <1>6 DEF FoldTypes, LockInv, PublisherAt, InPublish, InRefresh
<1>11. (Locked => TaskInv)'
  BY <1>1, <1>2, <1>3, <1>4, <1>5, <1>6 DEF FoldTypes, TaskInv, LockInv, RowInv, Scored, PublisherAt, InPublish, InRefresh
<1>12. (Locked => ProfileInv)'
  BY <1>1, <1>2, <1>3, <1>4, <1>5, <1>6 DEF FoldTypes, ProfileInv, LockInv, RowInv, Known, PublisherAt, InPublish, InRefresh
<1>13. QED
  BY <1>7, <1>8, <1>9, <1>10, <1>11, <1>12

LEMMA ProfileKeeps ==
  ASSUME FoldInvariant, lag' = lag, NEW r \in Runs, Profile(r)
  PROVE  FoldInvariant'
<1> USE DEF FoldInvariant
<1>1. PICK place \in { "fold", "rank" } : Go(r, place) /\ (place = "fold" => profile' = r) /\ (place = "rank" => profile' = profile)
  BY DEF Profile
<1>2. place \in FoldPlaces
  BY DEF FoldPlaces, InRefresh
<1>3. /\ publisher' \in [ Runs -> Publisher ] /\ publisher'[r].at = place
      /\ publisher'[r].card = publisher[r].card /\ publisher'[r].task = publisher[r].task
      /\ \A q \in Runs : q # r => publisher'[q] = publisher[q]
  BY <1>1, <1>2, GoMoves
<1>4. PublisherAt(r, "profile") /\ UNCHANGED << row, index, harness, task, listed, sync, lock >>
  BY DEF Profile
<1>5. Runs \subseteq Nat /\ 0 \notin Runs
  BY ReportFoldAssumption
<1>6. Locked => \A q \in Runs : q # r => publisher[q].at \notin InRefresh
  BY <1>4 DEF LockInv, PublisherAt, InRefresh
<1>7. Locked /\ ~lag => profile < r /\ r <= harness.latest /\ row[r] # "none"
  BY <1>4 DEF ProfileInv, RowInv, PublisherAt
<1>8. FoldTypes'
  BY <1>1, <1>2, <1>3, <1>4, <1>5, <1>6, <1>7 DEF FoldTypes
<1>9. RowInv'
  BY <1>1, <1>2, <1>3, <1>4, <1>5, <1>6, <1>7 DEF FoldTypes, RowInv, Known, PublisherAt
<1>10. SeenInv'
  BY <1>1, <1>2, <1>3, <1>4, <1>5, <1>6, <1>7 DEF FoldTypes, SeenInv, RowInv, Scored, PublisherAt
<1>11. LockInv'
  BY <1>1, <1>2, <1>3, <1>4, <1>5, <1>6, <1>7 DEF FoldTypes, LockInv, PublisherAt, InPublish, InRefresh
<1>12. (Locked => TaskInv)'
  BY <1>1, <1>2, <1>3, <1>4, <1>5, <1>6, <1>7 DEF FoldTypes, TaskInv, LockInv, RowInv, Scored, PublisherAt, InPublish, InRefresh
<1>13. (Locked => ProfileInv)'
  BY <1>1, <1>3, <1>4, <1>6, <1>7 DEF ProfileInv, Known, PublisherAt, InRefresh
<1>14. QED
  BY <1>8, <1>9, <1>10, <1>11, <1>12, <1>13

LEMMA RefoldKeeps ==
  ASSUME FoldInvariant, lag' = lag, NEW r \in Runs, Refold(r)
  PROVE  FoldInvariant'
<1> USE DEF FoldInvariant
<1>1. /\ CardOf(index) \in Cards /\ CardOf(index).scored \subseteq Scored(row)
      /\ \A q \in Known(index) : q <= CardOf(index).latest
  BY FoldIsCard
<1>2. /\ publisher' \in [ Runs -> Publisher ] /\ publisher'[r].at = "reput"
      /\ publisher'[r].card = CardOf(index) /\ publisher'[r].task = publisher[r].task
      /\ \A q \in Runs : q # r => publisher'[q] = publisher[q]
  BY FoldIsCard DEF Refold, ReadHarness, Fold, FoldTypes, Publisher, InPublish, InRefresh
<1>3. PublisherAt(r, "fold") /\ UNCHANGED << table, sync, lock >>
  BY DEF Refold, ReadHarness
<1>4. Runs \subseteq Nat /\ 0 \notin Runs
  BY ReportFoldAssumption
<1> USE DEF table
<1>5. FoldTypes'
  BY <1>1, <1>2, <1>3, <1>4 DEF FoldTypes
<1>6. RowInv'
  BY <1>1, <1>2, <1>3, <1>4 DEF FoldTypes, RowInv, Known, PublisherAt
<1>7. SeenInv'
  BY <1>1, <1>2, <1>3, <1>4 DEF FoldTypes, SeenInv, RowInv, Scored, PublisherAt
<1>8. LockInv'
  BY <1>1, <1>2, <1>3, <1>4 DEF FoldTypes, LockInv, PublisherAt, InPublish, InRefresh
<1>9. (Locked => TaskInv)'
  BY <1>1, <1>2, <1>3, <1>4 DEF FoldTypes, TaskInv, LockInv, RowInv, Scored, PublisherAt, InPublish, InRefresh
<1>10. (Locked => ProfileInv)'
  BY <1>1, <1>2, <1>3, <1>4 DEF FoldTypes, ProfileInv, LockInv, RowInv, Known, PublisherAt, InPublish, InRefresh
<1>11. QED
  BY <1>5, <1>6, <1>7, <1>8, <1>9, <1>10

LEMMA ReputKeeps ==
  ASSUME FoldInvariant, lag' = lag, NEW r \in Runs, Reput(r)
  PROVE  FoldInvariant'
<1> USE DEF FoldInvariant
<1>1. /\ publisher' \in [ Runs -> Publisher ] /\ publisher'[r].at = "rank"
      /\ publisher'[r].card = publisher[r].card /\ publisher'[r].task = publisher[r].task
      /\ \A q \in Runs : q # r => publisher'[q] = publisher[q]
  BY GoMoves DEF Reput, FoldPlaces, InPublish, InRefresh
<1>2. PublisherAt(r, "reput") /\ UNCHANGED << row, index, profile, task, listed, sync, lock >>
  BY DEF Reput, table
<1>3. harness' = publisher[r].card /\ publisher[r].card \in Cards
  BY DEF Reput, FoldTypes, Publisher
<1>4. Locked => \A q \in Runs : ~PublisherAt(q, "profile")
  BY <1>2 DEF LockInv, PublisherAt, InRefresh
<1>5. Locked /\ ~lag => profile = r /\ r <= publisher[r].card.latest
  BY <1>2 DEF ProfileInv
<1>6. Runs \subseteq Nat /\ 0 \notin Runs
  BY ReportFoldAssumption
<1>7. FoldTypes'
  BY <1>1, <1>2, <1>3, <1>4, <1>5, <1>6 DEF FoldTypes
<1>8. RowInv'
  BY <1>1, <1>2, <1>3, <1>4, <1>5, <1>6 DEF FoldTypes, RowInv, Known, PublisherAt
<1>9. SeenInv'
  BY <1>1, <1>2, <1>3, <1>4, <1>5, <1>6 DEF FoldTypes, SeenInv, RowInv, Scored, PublisherAt
<1>10. LockInv'
  BY <1>1, <1>2, <1>3, <1>4, <1>5, <1>6 DEF FoldTypes, LockInv, PublisherAt, InPublish, InRefresh
<1>11. (Locked => TaskInv)'
  BY <1>1, <1>2, <1>3, <1>4, <1>5, <1>6 DEF FoldTypes, TaskInv, LockInv, RowInv, Scored, PublisherAt, InPublish, InRefresh
<1>12. (Locked => ProfileInv)'
  BY <1>1, <1>2, <1>3, <1>4, <1>5, <1>6 DEF FoldTypes, ProfileInv, LockInv, RowInv, Known, PublisherAt, InPublish, InRefresh
<1>13. QED
  BY <1>7, <1>8, <1>9, <1>10, <1>11, <1>12

LEMMA RankKeeps ==
  ASSUME FoldInvariant, lag' = lag, NEW r \in Runs, Rank(r)
  PROVE  FoldInvariant'
<1> USE DEF FoldInvariant
<1>1. /\ publisher' \in [ Runs -> Publisher ] /\ publisher'[r].at = "end"
      /\ publisher'[r].card = publisher[r].card /\ publisher'[r].task = publisher[r].task
      /\ \A q \in Runs : q # r => publisher'[q] = publisher[q]
  BY GoMoves DEF Rank, FoldPlaces, InPublish, InRefresh
<1>2. PublisherAt(r, "rank") /\ UNCHANGED << row, index, harness, profile, task, listed, sync >>
  BY DEF Rank, table
<1>3. lock' = [ lock EXCEPT !["refresh"] = {} ]
  BY DEF Rank, Drop
<1>4. Runs \subseteq Nat /\ 0 \notin Runs
  BY ReportFoldAssumption
<1>5. FoldTypes'
  BY <1>1, <1>2, <1>3, <1>4 DEF FoldTypes
<1>6. RowInv'
  BY <1>1, <1>2, <1>3, <1>4 DEF FoldTypes, RowInv, Known, PublisherAt
<1>7. SeenInv'
  BY <1>1, <1>2, <1>3, <1>4 DEF FoldTypes, SeenInv, RowInv, Scored, PublisherAt
<1>8. LockInv'
  BY <1>1, <1>2, <1>3, <1>4 DEF FoldTypes, LockInv, PublisherAt, InPublish, InRefresh
<1>9. (Locked => TaskInv)'
  BY <1>1, <1>2, <1>3, <1>4 DEF FoldTypes, TaskInv, LockInv, RowInv, Scored, PublisherAt, InPublish, InRefresh
<1>10. (Locked => ProfileInv)'
  BY <1>1, <1>2, <1>3, <1>4 DEF FoldTypes, ProfileInv, LockInv, RowInv, Known, PublisherAt, InPublish, InRefresh
<1>11. QED
  BY <1>5, <1>6, <1>7, <1>8, <1>9, <1>10

LEMMA SyncReadKeeps ==
  ASSUME FoldInvariant, lag' = lag, SyncRead
  PROVE  FoldInvariant'
<1> USE DEF FoldInvariant
<1>1. sync.at = "begin" /\ sync' = [ at |-> "put", results |-> task.results ] /\ (Locked => lock["publish"] = {}) /\ UNCHANGED << row, index, harness, profile, task, listed, publisher >>
  BY DEF SyncRead, Free, table
<1>2. lock' = (IF Locked THEN [ lock EXCEPT !["publish"] = {0} ] ELSE lock)
  BY DEF SyncRead, Hold
<1>3. task.results \in SUBSET Runs
  BY DEF FoldTypes, TaskCards
<1>4. Runs \subseteq Nat /\ 0 \notin Runs
  BY ReportFoldAssumption
<1>5. Locked => \A q \in Runs : publisher[q].at \notin InPublish
  BY <1>1 DEF LockInv
<1>6. lock' \in [ { "publish", "refresh" } -> SUBSET (Runs \cup {0}) ] /\ lock'["refresh"] = lock["refresh"] /\ lock'["publish"] \in { lock["publish"], {0} } /\ (Locked => lock'["publish"] = {0})
  BY <1>2 DEF FoldTypes
<1>7. FoldTypes'
  BY <1>1, <1>2, <1>3, <1>4, <1>5, <1>6 DEF FoldTypes
<1>8. RowInv'
  BY <1>1, <1>2, <1>3, <1>4, <1>5, <1>6 DEF FoldTypes, RowInv, Known, PublisherAt
<1>9. SeenInv'
  BY <1>1, <1>2, <1>3, <1>4, <1>5, <1>6 DEF FoldTypes, SeenInv, RowInv, Scored, PublisherAt
<1>10. LockInv'
  BY <1>1, <1>5, <1>6 DEF FoldTypes, LockInv
<1>11. (Locked => TaskInv)'
  BY <1>1, <1>2, <1>3, <1>4, <1>5, <1>6 DEF FoldTypes, TaskInv, LockInv, RowInv, Scored, PublisherAt, InPublish, InRefresh
<1>12. (Locked => ProfileInv)'
  BY <1>1, <1>2, <1>3, <1>4, <1>5, <1>6 DEF FoldTypes, ProfileInv, LockInv, RowInv, Known, PublisherAt, InPublish, InRefresh
<1>13. QED
  BY <1>7, <1>8, <1>9, <1>10, <1>11, <1>12

LEMMA SyncPutKeeps ==
  ASSUME FoldInvariant, lag' = lag, SyncPut
  PROVE  FoldInvariant'
<1> USE DEF FoldInvariant
<1>1. sync.at = "put" /\ UNCHANGED << row, index, harness, profile, listed, publisher, lock >>
  BY DEF SyncPut
<1>2. sync'.at = "stale" /\ sync'.results = sync.results /\ sync' \in [ at : { "begin", "put", "stale", "end" }, results : SUBSET Runs ]
  BY DEF SyncPut, FoldTypes
<1>3. task' \in TaskCards /\ ~task'.runnable /\ task'.results = sync.results
  BY DEF SyncPut, Corpus, FoldTypes, TaskCards
<1>4. Runs \subseteq Nat /\ 0 \notin Runs
  BY ReportFoldAssumption
<1>5. Locked => \A q \in Runs : publisher[q].at \notin InPublish
  BY <1>1, <1>4 DEF LockInv
<1>6. FoldTypes'
  BY <1>1, <1>2, <1>3, <1>4, <1>5 DEF FoldTypes
<1>7. RowInv'
  BY <1>1, <1>2, <1>3, <1>4, <1>5 DEF FoldTypes, RowInv, Known, PublisherAt
<1>8. SeenInv'
  BY <1>1, <1>2, <1>3, <1>4, <1>5 DEF FoldTypes, SeenInv, RowInv, Scored, PublisherAt
<1>9. LockInv'
  BY <1>1, <1>2, <1>3, <1>4, <1>5 DEF FoldTypes, LockInv, PublisherAt, InPublish, InRefresh
<1>10. (Locked => TaskInv)'
  BY <1>1, <1>2, <1>3, <1>4, <1>5 DEF FoldTypes, TaskInv, LockInv, RowInv, Scored, PublisherAt, InPublish, InRefresh
<1>11. (Locked => ProfileInv)'
  BY <1>1, <1>2, <1>3, <1>4, <1>5 DEF FoldTypes, ProfileInv, LockInv, RowInv, Known, PublisherAt, InPublish, InRefresh
<1>12. QED
  BY <1>6, <1>7, <1>8, <1>9, <1>10, <1>11

LEMMA SyncStaleKeeps ==
  ASSUME FoldInvariant, lag' = lag, SyncStale
  PROVE  FoldInvariant'
<1> USE DEF FoldInvariant
<1>1. sync.at = "stale" /\ listed' = {} /\ UNCHANGED << row, index, harness, profile, task, publisher >>
  BY DEF SyncStale, Stale
<1>2. sync'.at = "end" /\ sync'.results = sync.results /\ sync' \in [ at : { "begin", "put", "stale", "end" }, results : SUBSET Runs ]
  BY DEF SyncStale, FoldTypes
<1>3. lock' = [ lock EXCEPT !["publish"] = {} ]
  BY DEF SyncStale, Drop
<1>4. Runs \subseteq Nat /\ 0 \notin Runs
  BY ReportFoldAssumption
<1>5. FoldTypes'
  BY <1>1, <1>2, <1>3, <1>4 DEF FoldTypes
<1>6. RowInv'
  BY <1>1, <1>2, <1>3, <1>4 DEF FoldTypes, RowInv, Known, PublisherAt
<1>7. SeenInv'
  BY <1>1, <1>2, <1>3, <1>4 DEF FoldTypes, SeenInv, RowInv, Scored, PublisherAt
<1>8. LockInv'
  BY <1>1, <1>2, <1>3, <1>4 DEF FoldTypes, LockInv, PublisherAt, InPublish, InRefresh
<1>9. (Locked => TaskInv)'
  BY <1>1, <1>2, <1>3, <1>4 DEF FoldTypes, TaskInv, LockInv, RowInv, Scored, PublisherAt, InPublish, InRefresh
<1>10. (Locked => ProfileInv)'
  BY <1>1, <1>2, <1>3, <1>4 DEF FoldTypes, ProfileInv, LockInv, RowInv, Known, PublisherAt, InPublish, InRefresh
<1>11. QED
  BY <1>5, <1>6, <1>7, <1>8, <1>9, <1>10

LEMMA PropagateKeeps ==
  ASSUME FoldInvariant, lag' = lag, NEW r \in Runs, Propagate(r)
  PROVE  FoldInvariant'
<1> USE DEF FoldInvariant
<1>1. index' = [ index EXCEPT ![r] = row[r] ] /\ index[r] # row[r] /\ UNCHANGED << row, harness, profile, task, listed, publisher, sync, lock >>
  BY DEF Propagate
<1>2. row[r] \in { "running", "done" }
  BY <1>1 DEF FoldTypes, RowInv, Status
<1>3. /\ index' \in [ Runs -> Status ] /\ index'[r] = row[r] /\ \A q \in Runs : q # r => index'[q] = index[q]
      /\ \E m \in Known(index') \cup {0} : \A q \in Known(index') : q <= m
  BY <1>1, <1>2, IndexGrows DEF FoldTypes
<1>4. Runs \subseteq Nat /\ 0 \notin Runs
  BY ReportFoldAssumption
<1>5. FoldTypes'
  BY <1>1, <1>2, <1>3, <1>4 DEF FoldTypes
<1>6. RowInv'
  BY <1>1, <1>2, <1>3, <1>4 DEF FoldTypes, RowInv, Known, PublisherAt
<1>7. SeenInv'
  BY <1>1, <1>2, <1>3, <1>4 DEF FoldTypes, SeenInv, RowInv, Scored, PublisherAt
<1>8. LockInv'
  BY <1>1, <1>2, <1>3, <1>4 DEF FoldTypes, LockInv, PublisherAt, InPublish, InRefresh
<1>9. (Locked => TaskInv)'
  BY <1>1, <1>2, <1>3, <1>4 DEF FoldTypes, TaskInv, LockInv, RowInv, Scored, PublisherAt, InPublish, InRefresh
<1>10. (Locked => ProfileInv)'
  BY <1>1, <1>2, <1>3, <1>4 DEF FoldTypes, ProfileInv, LockInv, RowInv, Known, PublisherAt, InPublish, InRefresh
<1>11. QED
  BY <1>5, <1>6, <1>7, <1>8, <1>9, <1>10

LEMMA FoldStutter ==
  ASSUME FoldInvariant, lag' = lag, UNCHANGED foldVars
  PROVE  FoldInvariant'
<1> USE DEF FoldInvariant
<1>1. UNCHANGED << row, index, harness, profile, task, listed, publisher, sync, lock >>
  BY DEF foldVars
<1>2. FoldTypes'
  BY <1>1 DEF FoldTypes
<1>3. RowInv'
  BY <1>1 DEF FoldTypes, RowInv, Known, PublisherAt
<1>4. SeenInv'
  BY <1>1 DEF FoldTypes, SeenInv, RowInv, Scored, PublisherAt
<1>5. LockInv'
  BY <1>1 DEF FoldTypes, LockInv, PublisherAt, InPublish, InRefresh
<1>6. (Locked => TaskInv)'
  BY <1>1 DEF FoldTypes, TaskInv, LockInv, RowInv, Scored, PublisherAt, InPublish, InRefresh
<1>7. (Locked => ProfileInv)'
  BY <1>1 DEF FoldTypes, ProfileInv, LockInv, RowInv, Known, PublisherAt, InPublish, InRefresh
<1>8. QED
  BY <1>2, <1>3, <1>4, <1>5, <1>6, <1>7

LEMMA InitFold == FoldInit => FoldInvariant
<1> SUFFICES ASSUME FoldInit PROVE FoldInvariant
  OBVIOUS
<1>1. row = [ r \in Runs |-> "none" ] /\ index = row /\ lag \in BOOLEAN /\ profile = 0 /\ Known(index) = {} /\ Scored(row) = {}
  BY DEF FoldInit, Known, Scored
<1>2. FoldTypes
  BY DEF FoldInit, FoldTypes, Status, Cards, TaskCards, Publisher
<1>3. RowInv
  BY <1>1 DEF FoldInit, RowInv, PublisherAt
<1>4. SeenInv /\ LockInv
  BY <1>1 DEF FoldInit, SeenInv, LockInv, InPublish, InRefresh
<1>5. TaskInv
  BY <1>1 DEF FoldInit, TaskInv, PublisherAt
<1>6. ProfileInv
  BY <1>1 DEF FoldInit, ProfileInv, PublisherAt
<1>7. QED
  BY <1>2, <1>3, <1>4, <1>5, <1>6 DEF FoldInvariant

LEMMA NextFold == FoldInvariant /\ [FoldNext]_foldVars => FoldInvariant'
<1> SUFFICES ASSUME FoldInvariant, [FoldNext]_foldVars PROVE FoldInvariant'
  OBVIOUS
<1>1. CASE Sync
  BY <1>1, SyncReadKeeps, SyncPutKeeps, SyncStaleKeeps DEF Sync
<1>2. CASE \E r \in Runs : Publish(r)
  BY <1>2, CardKeeps, PutRunKeeps, ReadHarnessKeeps, WriteHarnessKeeps, ReadTaskKeeps, ReadResultsKeeps,
     WriteTaskKeeps, RefreshKeeps, ProfileKeeps, RefoldKeeps, ReputKeeps, RankKeeps DEF Publish
<1>3. CASE \E r \in Runs : Propagate(r)
  <2>1. lag' = lag
    BY <1>3 DEF Propagate
  <2>2. QED
    BY <1>3, <2>1, PropagateKeeps
<1>4. CASE UNCHANGED foldVars
  <2>1. lag' = lag
    BY <1>4 DEF foldVars
  <2>2. QED
    BY <1>4, <2>1, FoldStutter
<1>5. QED
  BY <1>1, <1>2, <1>3, <1>4 DEF FoldNext

(* Every card counts finished runs; under the lock a publisher's copies    *)
(* are those of the table.                                                 *)
THEOREM FoldInvariantHolds == FoldSpec => []FoldInvariant
BY InitFold, NextFold, PTL DEF FoldSpec

(* publish_run, publish_tasks: at rest the task card counts every finished *)
(* run, and a task that fell out of the pool stays out of the list, for    *)
(* any number of runs that finish together under the lock of local-queue.  *)
THEOREM CardsSafetyHolds == ASSUME Locked PROVE FoldSpec => []CardsSafety
<1>1. FoldInvariant => CardsSafety
  <2> SUFFICES ASSUME FoldInvariant PROVE CardsSafety
    OBVIOUS
  <2> USE DEF FoldInvariant
  <2>1. FoldTypeOK
    <3>1. \A w \in DOMAIN lock : Cardinality(lock[w]) <= 1 /\ lock[w] \subseteq Runs \cup {0}
      BY OneAtMost DEF FoldTypes, LockInv
    <3>2. \A p, q \in { r \in Runs : publisher[r].at \in { "harness", "put", "row", "results", "update" } } : p = q
      BY DEF LockInv, InPublish
    <3>3. Cardinality({ r \in Runs : publisher[r].at \in { "harness", "put", "row", "results", "update" } }) <= 1
      BY <3>2, OneAtMost
    <3>4. QED
      BY <3>1, <3>3 DEF FoldTypeOK, RowInv, SeenInv
  <2>2. TaskCountsEveryRun
    BY DEF TaskCountsEveryRun, Folded, TaskInv, InPublish
  <2>3. FallenOutStaysOut
    BY DEF FallenOutStaysOut, TaskInv
  <2>4. QED
    BY <2>1, <2>2, <2>3 DEF CardsSafety
<1>2. QED
  BY <1>1, FoldInvariantHolds, PTL

(* recommend.refresh: "Never label an older clone as the latest one", for  *)
(* any number of runs, under the lock and with indexes that keep up.       *)
THEOREM ProfileIsNotOlderHolds == ASSUME Locked PROVE FoldSpec => ProfileIsNotOlder
<1>1. FoldInvariant /\ [FoldNext]_foldVars => [~lag /\ profile' # profile => profile' > profile]_foldVars
  <2> SUFFICES ASSUME FoldInvariant, FoldNext, ~lag, profile' # profile PROVE profile' > profile
    OBVIOUS
  <2>1. PICK r \in Runs : Profile(r) /\ profile' = r
    BY DEF FoldNext, Sync, SyncRead, SyncPut, SyncStale, Publish, Propagate, Card, PutRun, ReadHarness, WriteHarness,
       ReadTask, ReadResults, WriteTask, Refresh, Profile, Refold, Reput, Rank, table
  <2>2. profile < r /\ r \in Nat /\ profile \in Nat
    BY <2>1, RunNumbers DEF Profile, FoldInvariant, FoldTypes, ProfileInv
  <2>3. QED
    BY <2>1, <2>2
<1>2. QED
  BY <1>1, FoldInvariantHolds, PTL DEF FoldSpec, ProfileIsNotOlder

=============================================================================
