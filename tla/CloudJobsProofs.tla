-------------------------- MODULE CloudJobsProofs --------------------------
(***************************************************************************)
(* Theorems about CloudJobs for any number of jobs, slots, processes and   *)
(* tokens, any cap, lease and number of attempts.                          *)
(***************************************************************************)
EXTENDS CloudJobs, FiniteSetTheorems, TLAPS

USE DEF Live, Terminal

-----------------------------------------------------------------------------
(* The functions on rows.                                                  *)

LEMMA SubmittedType ==
  ASSUME NEW b \in BOOLEAN
  PROVE  Submitted(b) \in Row
BY DEF Submitted, Row

LEMMA SettleFields ==
  ASSUME NEW old \in Row, NEW new \in Row
  PROVE  LET ev == Settle(old, new)
         IN  /\ ev \in Row
             /\ ev.revision = old.revision + 1
             /\ ev.cancelled <=> (old.cancelled \/ new.cancelled)
             /\ ev.status = IF /\ old.cancelled \/ new.cancelled
                              /\ new.status \in {"queued", "done", "failed"}
                           THEN "cancelled" ELSE new.status
             /\ ev.claim = new.claim
             /\ ev.lease = new.lease
             /\ ev.counted = new.counted
<1> DEFINE flag == old.cancelled \/ new.cancelled
           status == IF flag /\ new.status \in {"queued", "done", "failed"}
                     THEN "cancelled" ELSE new.status
           ev == [ new EXCEPT !.revision = old.revision + 1,
                              !.cancelled = flag, !.status = status ]
<1>1. Settle(old, new) = ev
  BY DEF Settle
<1>2. flag \in BOOLEAN /\ status \in Live \cup Terminal \cup {"absent"}
  BY DEF Row
<1>3. old.revision + 1 \in Nat
  BY DEF Row
<1>4. ev \in Row
  <2> HIDE DEF flag, status
  <2> QED BY <1>2, <1>3 DEF Row
<1>5. /\ ev.revision = old.revision + 1
      /\ ev.cancelled <=> flag
      /\ ev.status = status
      /\ ev.claim = new.claim
      /\ ev.lease = new.lease
      /\ ev.counted = new.counted
  <2> HIDE DEF flag, status
  <2> QED BY DEF Row
<1>6. QED
  BY <1>1, <1>4, <1>5

LEMMA ChangedFields ==
  ASSUME NEW c \in Call, c.old \in Row, c.op # "enqueue"
  PROVE  /\ Changed(c) \in Row
         /\ Changed(c).counted = c.old.counted
         /\ c.op = "cancel" => Changed(c).cancelled
         /\ c.op # "cancel" => (Changed(c).cancelled <=> c.old.cancelled)
         /\ c.op = "claim" => /\ Changed(c).claim = c.token
                              /\ Changed(c).status = "running"
         /\ c.op # "claim" => Changed(c).claim = c.old.claim
         /\ c.op \in {"renew", "cancel", "touch"} => Changed(c).status = c.old.status
         /\ c.op \in {"finish", "expire", "abandon"} => Changed(c).status = c.result
<1>1. /\ c.op \in Operations \ {"enqueue"}
      /\ c.lease \in Nat
      /\ c.result \in {"done", "failed"}
      /\ c.token \in Tokens \cup {NoToken}
  BY DEF Call
<1>2. CASE c.op = "claim"
  BY <1>1, <1>2 DEF Changed, Row
<1>3. CASE c.op = "renew"
  BY <1>1, <1>3 DEF Changed, Row
<1>4. CASE c.op = "cancel"
  BY <1>1, <1>4 DEF Changed, Row
<1>5. CASE c.op \in {"finish", "expire", "abandon"}
  BY <1>1, <1>5 DEF Changed, Row
<1>6. CASE c.op = "touch"
  BY <1>1, <1>6 DEF Changed, Row
<1>7. QED
  BY <1>1, <1>2, <1>3, <1>4, <1>5, <1>6 DEF Operations

(* What a call that passed its check writes, operation by operation.       *)
LEMMA WrittenRow ==
  ASSUME NEW c \in Call, c.old \in Row, c.old.status # "absent",
         c.op # "enqueue",
         c.old.cancelled => c.old.status \in {"running", "cancelled"},
         c.op = "claim" => c.token \in Tokens,
         Accepted(c, c.old)
  PROVE  LET ev == Written(c)
         IN  /\ ev \in Row
             /\ ev.revision = c.old.revision + 1
             /\ ev.counted = c.old.counted
             /\ c.op \in {"renew", "finish", "expire", "abandon", "cancel", "touch"}
                  => ev.claim = c.old.claim
             /\ c.op = "claim" => /\ c.old.status = "queued"
                                  /\ ~ c.old.cancelled
                                  /\ ev.status = "running"
                                  /\ ev.claim = c.token
                                  /\ ~ ev.cancelled
             /\ c.op \in {"renew", "touch"} => /\ ev.status = c.old.status
                                               /\ (ev.cancelled <=> c.old.cancelled)
             /\ c.op = "renew" => c.old.status = "running"
             /\ c.op = "abandon" /\ c.result = "failed"
                  => /\ c.old.status = "queued"
                     /\ ev.status = "failed"
                     /\ ~ ev.cancelled
             /\ c.op = "cancel" => /\ c.old.status \in Live
                                   /\ ev.cancelled
                                   /\ c.old.status = "queued" => ev.status = "cancelled"
                                   /\ c.old.status = "running" => ev.status = "running"
             /\ c.op = "finish" => Fenced(c.old, c.token)
             /\ c.op = "expire" => Lapsed(c.old, now)
             /\ c.op \in {"finish", "expire"}
                  => /\ c.old.status = "running"
                     /\ (ev.cancelled <=> c.old.cancelled)
                     /\ ev.status = IF c.old.cancelled THEN "cancelled" ELSE c.result
<1> DEFINE ev == Written(c)
<1>1. c.op \in Operations \ {"enqueue"}
  BY DEF Call
<1>2. /\ ev \in Row
      /\ ev.revision = c.old.revision + 1
      /\ ev.counted = c.old.counted
      /\ ev.claim = Changed(c).claim
      /\ ev.cancelled <=> (c.old.cancelled \/ Changed(c).cancelled)
      /\ ev.status = IF /\ c.old.cancelled \/ Changed(c).cancelled
                       /\ Changed(c).status \in {"queued", "done", "failed"}
                    THEN "cancelled" ELSE Changed(c).status
  BY ChangedFields, SettleFields DEF Written
<1>3. CASE c.op = "claim"
  BY <1>2, <1>3, ChangedFields DEF Accepted, Claimable
<1>4. CASE c.op = "renew"
  <2>1. c.old.status = "running"
    BY <1>4 DEF Accepted, Fenced
  <2>2. QED
    BY <1>2, <1>4, <2>1, ChangedFields
<1>5. CASE c.op = "finish"
  <2>1. Fenced(c.old, c.token) /\ c.old.status = "running"
    BY <1>5 DEF Accepted, Fenced
  <2>2. QED
    BY <1>2, <1>5, <2>1, ChangedFields DEF Call
<1>6. CASE c.op = "expire"
  <2>1. Lapsed(c.old, now) /\ c.old.status = "running"
    BY <1>6 DEF Accepted, Lapsed
  <2>2. QED
    BY <1>2, <1>6, <2>1, ChangedFields DEF Call
<1>7. CASE c.op = "abandon"
  BY <1>2, <1>7, ChangedFields DEF Accepted
<1>8. CASE c.op = "cancel"
  BY <1>2, <1>8, ChangedFields DEF Accepted, Cancellable
<1>9. CASE c.op = "touch"
  BY <1>2, <1>9, ChangedFields DEF Accepted
<1>10. QED
  BY <1>1, <1>3, <1>4, <1>5, <1>6, <1>7, <1>8, <1>9 DEF Operations

-----------------------------------------------------------------------------
(* The inductive invariant.                                                *)

(* A call that may start or try again: it has just read the row.           *)
JustRead(c) ==
  /\ c \in Call
  /\ c.op # "enqueue" =>
       /\ c.old = row[c.job]
       /\ Accepted(c, c.old)
       /\ c.op = "claim" => c.token \in Tokens
       /\ c.op \in {"renew", "finish"} => << c.job, c.token >> \in granted
       /\ c.op \in {"expire", "abandon"} => c.result = "failed"

LEMMA AcceptedPresent ==
  ASSUME NEW c \in Call, NEW r \in Row, c.op # "enqueue", Accepted(c, r)
  PROVE  r.status # "absent"
<1>1. c.op \in Operations \ {"enqueue"}
  BY DEF Call
<1>2. CASE c.op \in {"renew", "finish"}
  BY <1>2 DEF Accepted, Fenced
<1>3. CASE c.op = "expire"
  BY <1>3 DEF Accepted, Lapsed
<1>4. CASE c.op \in {"claim", "abandon", "cancel", "touch"}
  BY <1>4 DEF Accepted, Claimable, Cancellable
<1>5. QED
  BY <1>1, <1>2, <1>3, <1>4 DEF Operations

(* Steps that touch nothing but what one process is doing.                 *)
LEMMA CallStep ==
  ASSUME JobsInvariant,
         NEW p \in Clients, NEW c,
         c = NoCall \/ JustRead(c),
         call' = [ call EXCEPT ![p] = c ],
         UNCHANGED << store, now, granted >>
  PROVE  JobsInvariant'
<1> USE DEF JobsInvariant
<1>1. /\ UNCHANGED << row, copy, index, used, now, granted >>
      /\ call \in [ Clients -> Call \cup {NoCall} ]
      /\ row \in [ Jobs -> Row ]
  BY DEF store, ShapeOK
<1>2. ShapeOK'
  BY <1>1 DEF ShapeOK, JustRead
<1>3. ASSUME NEW q \in Clients, q # p
      PROVE  call'[q] = call[q]
  BY <1>1, <1>3
<1>4. call'[p] = c
  BY <1>1
<1>5. SnapshotCoherent'
  <2> SUFFICES ASSUME NEW q \in Clients, NEW j \in Jobs, Writing(q, j)'
               PROVE  /\ call'[q].old.revision \in 1 .. row[j].revision
                      /\ call'[q].old.revision = row[j].revision => call'[q].old = row[j]
    BY <1>1 DEF SnapshotCoherent
  <2>1. CASE q # p
    BY <1>1, <1>3, <2>1 DEF SnapshotCoherent, Writing
  <2>2. CASE q = p
    <3>1. JustRead(c) /\ c.op # "enqueue" /\ c.job = j /\ call'[q] = c
      BY <1>4, <2>2 DEF Writing
    <3>2. c.old = row[j] /\ row[j] \in Row /\ row[j].status # "absent"
      BY <1>1, <3>1, AcceptedPresent DEF JustRead
    <3>3. row[j].revision \in Nat /\ row[j].revision > 0
      BY <3>2 DEF RowsSane, Row
    <3>4. QED
      BY <3>1, <3>2, <3>3
  <2>3. QED
    BY <2>1, <2>2
<1>6. RowsSane'
  BY <1>1 DEF RowsSane
<1>7. CallsChecked'
  <2>1. \A d, r : Accepted(d, r)' <=> Accepted(d, r)
    BY <1>1 DEF Accepted, Lapsed
  <2> SUFFICES ASSUME NEW q \in Clients, NEW j \in Jobs, Writing(q, j)'
               PROVE  /\ Accepted(call[q], call[q].old)'
                      /\ (call[q].op = "claim" => call[q].token \in Tokens)'
                      /\ (call[q].op \in {"renew", "finish"}
                            => << j, call[q].token >> \in granted)'
                      /\ (call[q].op \in {"expire", "abandon"}
                            => call[q].result = "failed")'
    BY DEF CallsChecked
  <2>2. CASE q # p
    <3>1. call'[q] = call[q] /\ Writing(q, j)
      BY <1>3, <2>2 DEF Writing
    <3>2. QED
      BY <1>1, <2>1, <3>1 DEF CallsChecked
  <2>3. CASE q = p
    <3>1. JustRead(c) /\ c.op # "enqueue" /\ c.job = j /\ call'[q] = c
      BY <1>4, <2>3 DEF Writing
    <3>2. QED
      BY <1>1, <2>1, <3>1 DEF JustRead
  <2>4. QED
    BY <2>2, <2>3
<1>8. ViewsAgree' /\ OneClaim'
  BY <1>1 DEF ViewsAgree, OneClaim
<1>9. QED
  BY <1>2, <1>5, <1>6, <1>7, <1>8

(* A committed write replaces the very row the call checked.               *)
LEMMA CommitCall ==
  ASSUME JobsInvariant, NEW p \in Clients, Commit(p)
  PROVE  LET c == call[p]
             j == c.job
         IN  /\ c \in Call /\ c # NoCall /\ c.op # "enqueue" /\ j \in Jobs
             /\ row \in [ Jobs -> Row ]
             /\ now \in Nat
             /\ Writing(p, j)
             /\ c.op \in Operations \ {"enqueue"}
             /\ c.old = row[j] /\ row[j] \in Row
             /\ Accepted(c, c.old)
             /\ c.op = "claim" => c.token \in Tokens
             /\ c.op \in {"renew", "finish"} => << j, c.token >> \in granted
             /\ c.op \in {"expire", "abandon"} => c.result = "failed"
             /\ row[j].status # "absent"
             /\ row[j].revision \in Nat /\ row[j].revision > 0
             /\ row[j].cancelled => row[j].status \in {"running", "cancelled"}
             /\ row[j].status = "cancelled" => row[j].cancelled
             /\ row[j].status = "queued" => row[j].claim = NoToken
             /\ row[j].status = "running" => row[j].claim # NoToken
             /\ row[j].counted => j \notin Legacy /\ DailyCap > 0
<1> DEFINE c == call[p]
           j == c.job
<1>1. /\ c \in Call /\ c # NoCall /\ c.op # "enqueue" /\ j \in Jobs
      /\ row \in [ Jobs -> Row ]
      /\ now \in Nat
      /\ Writing(p, j)
      /\ c.op \in Operations \ {"enqueue"}
  BY DEF Commit, JobsInvariant, ShapeOK, Call, Writing
<1>2. c.old = row[j] /\ row[j] \in Row
  BY <1>1 DEF Commit, Unchanged, JobsInvariant, SnapshotCoherent
<1>3. /\ Accepted(c, c.old)
      /\ c.op = "claim" => c.token \in Tokens
      /\ c.op \in {"renew", "finish"} => << j, c.token >> \in granted
      /\ c.op \in {"expire", "abandon"} => c.result = "failed"
  BY <1>1 DEF JobsInvariant, CallsChecked
<1>4. /\ row[j].status # "absent"
      /\ row[j].revision \in Nat /\ row[j].revision > 0
      /\ row[j].cancelled => row[j].status \in {"running", "cancelled"}
      /\ row[j].status = "cancelled" => row[j].cancelled
      /\ row[j].status = "queued" => row[j].claim = NoToken
      /\ row[j].status = "running" => row[j].claim # NoToken
      /\ row[j].counted => j \notin Legacy /\ DailyCap > 0
  <2>1. row[j].status # "absent"
    BY <1>1, <1>2, <1>3, AcceptedPresent
  <2>2. QED
    BY <1>1, <1>2, <2>1 DEF JobsInvariant, RowsSane, Row
<1>5. QED
  BY <1>1, <1>2, <1>3, <1>4

(* What the row becomes.                                                   *)
LEMMA CommittedRow ==
  ASSUME JobsInvariant, NEW p \in Clients, Commit(p)
  PROVE  LET c == call[p]
             j == c.job
             ev == Written(c)
         IN  /\ ev \in Row
             /\ ev.revision = row[j].revision + 1
             /\ ev.counted = row[j].counted
             /\ ev.status # "absent"
             /\ c.op # "claim" => ev.claim = row[j].claim
             /\ c.op = "claim" => /\ row[j].status = "queued"
                                  /\ ~ row[j].cancelled
                                  /\ ~ ev.cancelled
                                  /\ ev.status = "running"
                                  /\ ev.claim = c.token
                                  /\ c.token \in Tokens
             /\ ev.status = "queued" => ev.claim = NoToken
             /\ ev.status = "running" => ev.claim # NoToken
             /\ ev.cancelled => ev.status \in {"running", "cancelled"}
             /\ ev.status = "cancelled" => ev.cancelled
             /\ row[j].cancelled => ev.cancelled
             /\ row[j].status \notin {"absent", "queued"} => ev.status \notin {"absent", "queued"}
             /\ row[j].status \in Terminal => ev.status = row[j].status
                                             /\ (ev.cancelled <=> row[j].cancelled)
             /\ row[j].status = "running" /\ ev.status # "running" =>
                  /\ (ev.cancelled <=> row[j].cancelled)
                  /\ \/ c.op = "finish" /\ << j, c.token >> \in granted
                     \/ c.op = "expire" /\ row[j].lease < now
             /\ row[j].status = "queued" =>
                  \/ ev.status = "queued" /\ ~ ev.cancelled
                  \/ ev.status = "running" /\ ~ ev.cancelled
                  \/ ev.status = "cancelled"
                  \/ ev.status = "failed" /\ ~ ev.cancelled
<1> DEFINE c == call[p]
           j == c.job
           ev == Written(c)
<1>1. /\ c \in Call /\ c # NoCall /\ c.op # "enqueue" /\ j \in Jobs
      /\ c.op \in Operations \ {"enqueue"}
      /\ c.result \in {"done", "failed"}
  BY CommitCall DEF Call
<1>2. c.old = row[j] /\ row[j] \in Row
  BY CommitCall
<1>3. /\ Accepted(c, c.old)
      /\ c.op = "claim" => c.token \in Tokens
      /\ c.op \in {"renew", "finish"} => << j, c.token >> \in granted
      /\ c.op \in {"expire", "abandon"} => c.result = "failed"
  BY CommitCall
<1>4. /\ row[j].status # "absent"
      /\ row[j].revision \in Nat /\ row[j].revision > 0
      /\ row[j].cancelled => row[j].status \in {"running", "cancelled"}
      /\ row[j].status = "cancelled" => row[j].cancelled
      /\ row[j].status = "queued" => row[j].claim = NoToken
      /\ row[j].status = "running" => row[j].claim # NoToken
  BY CommitCall
<1> HIDE DEF c, j, ev
<1>5. LET w == Written(c)
      IN  /\ w \in Row
          /\ w.revision = c.old.revision + 1
          /\ w.counted = c.old.counted
  BY <1>1, <1>2, <1>3, <1>4, WrittenRow
<1>6. ev \in Row /\ ev.revision = row[j].revision + 1 /\ ev.counted = row[j].counted
  BY <1>2, <1>5 DEF ev
<1>7. CASE c.op = "claim"
  BY <1>1, <1>2, <1>3, <1>4, <1>6, <1>7, WrittenRow, NoTokenAssumption DEF ev, c, j
<1>8. CASE c.op = "renew"
  BY <1>1, <1>2, <1>3, <1>4, <1>6, <1>8, WrittenRow DEF ev, c, j
<1>9. CASE c.op = "touch"
  BY <1>1, <1>2, <1>3, <1>4, <1>6, <1>9, WrittenRow DEF ev, c, j
<1>10. CASE c.op = "abandon"
  BY <1>1, <1>2, <1>3, <1>4, <1>6, <1>10, WrittenRow DEF ev, c, j
<1>11. CASE c.op = "cancel"
  BY <1>1, <1>2, <1>3, <1>4, <1>6, <1>11, WrittenRow DEF ev, c, j
<1>12. CASE c.op \in {"finish", "expire"}
  BY <1>1, <1>2, <1>3, <1>4, <1>6, <1>12, WrittenRow DEF ev, c, j, Lapsed
<1>13. QED
  BY <1>1, <1>7, <1>8, <1>9, <1>10, <1>11, <1>12 DEF Operations, c, j, ev

LEMMA CommitStep ==
  ASSUME JobsInvariant, NEW p \in Clients, Commit(p)
  PROVE  JobsInvariant'
<1> DEFINE c == call[p]
           j == c.job
           ev == Written(c)
<1>1. /\ c \in Call /\ c # NoCall /\ c.op # "enqueue" /\ j \in Jobs
      /\ row \in [ Jobs -> Row ]
      /\ now \in Nat
  BY CommitCall
<1>2. c.old = row[j] /\ row[j] \in Row
  BY CommitCall
<1>3. c.op = "claim" => c.token \in Tokens
  BY CommitCall
<1>4. /\ row[j].status # "absent"
      /\ row[j].revision \in Nat /\ row[j].revision > 0
      /\ row[j].counted => j \notin Legacy /\ DailyCap > 0
  BY CommitCall
<1>5. /\ ev \in Row
      /\ ev.revision = row[j].revision + 1
      /\ ev.counted = row[j].counted
      /\ ev.status # "absent"
      /\ c.op # "claim" => ev.claim = row[j].claim
      /\ c.op = "claim" => /\ row[j].status = "queued"
                           /\ ev.status = "running"
                           /\ ev.claim = c.token
      /\ ev.status = "queued" => ev.claim = NoToken
      /\ ev.status = "running" => ev.claim # NoToken
      /\ ev.cancelled => ev.status \in {"running", "cancelled"}
      /\ ev.status = "cancelled" => ev.cancelled
      /\ row[j].status \notin {"absent", "queued"} => ev.status \notin {"absent", "queued"}
  BY CommittedRow
<1>6. /\ row' = [ row EXCEPT ![j] = ev ]
      /\ copy' = [ copy EXCEPT ![j] = ev ]
      /\ index' = [ index EXCEPT ![j] = Entry(ev) ]
      /\ call' = [ call EXCEPT ![p] = NoCall ]
      /\ now' = now
      /\ \/ granted' = granted
         \/ c.op = "claim" /\ granted' = granted \cup { << j, c.token >> }
  BY DEF Commit, Put
<1>7. used' \in [ Slots -> Int ]
  BY <1>1, CloudJobsAssumption DEF Commit, JobsInvariant, ShapeOK
<1>8. /\ row'[j] = ev
      /\ \A k \in Jobs : k # j => row'[k] = row[k]
      /\ \A q \in Clients : call'[q] # NoCall => q # p /\ call'[q] = call[q]
  <2> HIDE DEF ev, j, c
  <2> QED BY <1>1, <1>6 DEF JobsInvariant, ShapeOK
<1> HIDE DEF ev
<1>9. Entry(ev) \in [ status : Live \cup {"absent"}, lease : Nat ]
  BY <1>5 DEF Entry, NoEntry, Row
<1>10. ShapeOK'
  <2> HIDE DEF c, j
  <2>1. ShapeOK
    BY DEF JobsInvariant
  <2>2. row' \in [ Jobs -> Row ] /\ copy' \in [ Jobs -> Row ]
    BY <1>1, <1>5, <1>6, <2>1 DEF ShapeOK
  <2>3. index' \in [ Jobs -> [ status : Live \cup {"absent"}, lease : Nat ] ]
    BY <1>1, <1>6, <1>9, <2>1 DEF ShapeOK
  <2>4. granted' \subseteq Jobs \X Tokens
    BY <1>1, <1>3, <1>6, <2>1 DEF ShapeOK
  <2>5. call' \in [ Clients -> Call \cup {NoCall} ] /\ now' \in Nat
    BY <1>6, <2>1 DEF ShapeOK
  <2>6. QED
    BY <1>7, <2>2, <2>3, <2>4, <2>5 DEF ShapeOK
<1> HIDE DEF c, j
<1>11. SnapshotCoherent'
  <2> SUFFICES ASSUME NEW q \in Clients, NEW k \in Jobs, Writing(q, k)'
               PROVE  /\ (call[q].old.revision \in 1 .. row[k].revision)'
                      /\ (call[q].old.revision = row[k].revision => call[q].old = row[k])'
    BY DEF SnapshotCoherent
  <2>1. call'[q] = call[q] /\ Writing(q, k)
    BY <1>8 DEF Writing
  <2>2. /\ call[q].old.revision \in 1 .. row[k].revision
        /\ call[q].old.revision = row[k].revision => call[q].old = row[k]
    BY <2>1 DEF JobsInvariant, SnapshotCoherent
  <2>3. CASE k # j
    BY <1>8, <2>1, <2>2, <2>3
  <2>4. CASE k = j
    BY <1>4, <1>5, <1>8, <2>1, <2>2, <2>4
  <2>5. QED
    BY <2>3, <2>4
<1>12. RowsSane'
  <2> SUFFICES ASSUME NEW k \in Jobs
               PROVE  /\ (row[k].status = "absent" => row[k] = NoRow)'
                      /\ (row[k].status # "absent" => row[k].revision > 0)'
                      /\ (row[k].status = "queued" => row[k].claim = NoToken)'
                      /\ (row[k].status = "running" => row[k].claim # NoToken)'
                      /\ (row[k].cancelled => row[k].status \in {"running", "cancelled"})'
                      /\ (row[k].status = "cancelled" => row[k].cancelled)'
                      /\ (row[k].counted => k \notin Legacy /\ DailyCap > 0)'
    BY DEF RowsSane
  <2>1. CASE k # j
    BY <1>8, <2>1 DEF JobsInvariant, RowsSane
  <2>2. CASE k = j
    BY <1>4, <1>5, <1>8, <2>2
  <2>3. QED
    BY <2>1, <2>2
<1>13. CallsChecked'
  <2>1. \A d, r : Accepted(d, r)' <=> Accepted(d, r)
    BY <1>6 DEF Accepted, Lapsed
  <2> SUFFICES ASSUME NEW q \in Clients, NEW k \in Jobs, Writing(q, k)'
               PROVE  /\ Accepted(call[q], call[q].old)'
                      /\ (call[q].op = "claim" => call[q].token \in Tokens)'
                      /\ (call[q].op \in {"renew", "finish"}
                            => << k, call[q].token >> \in granted)'
                      /\ (call[q].op \in {"expire", "abandon"}
                            => call[q].result = "failed")'
    BY DEF CallsChecked
  <2>2. call'[q] = call[q] /\ Writing(q, k)
    BY <1>8 DEF Writing
  <2>3. QED
    BY <1>6, <2>1, <2>2 DEF JobsInvariant, CallsChecked
<1>14. ViewsAgree'
  <2> SUFFICES ASSUME NEW k \in Jobs
               PROVE  /\ (copy[k] = row[k])'
                      /\ (index[k].status
                            = (IF row[k].status \in Live THEN row[k].status ELSE "absent"))'
                      /\ (index[k].status # "absent" => index[k].lease = row[k].lease)'
    BY DEF ViewsAgree
  <2>1. copy \in [ Jobs -> Row ]
        /\ index \in [ Jobs -> [ status : Live \cup {"absent"}, lease : Nat ] ]
    BY DEF JobsInvariant, ShapeOK
  <2>2. CASE k # j
    BY <1>1, <1>6, <1>8, <2>1, <2>2 DEF JobsInvariant, ViewsAgree
  <2>3. CASE k = j
    BY <1>1, <1>6, <1>8, <2>1, <2>3 DEF Entry, NoEntry
  <2>4. QED
    BY <2>2, <2>3
<1>15. OneClaim'
  <2> SUFFICES ASSUME NEW k \in Jobs, NEW t \in Tokens, << k, t >> \in granted'
               PROVE  /\ (row[k].claim = t)'
                      /\ (row[k].status \notin {"absent", "queued"})'
    BY DEF OneClaim
  <2>1. CASE << k, t >> \in granted
    <3>1. row[k].claim = t /\ row[k].status \notin {"absent", "queued"}
      BY <2>1 DEF JobsInvariant, OneClaim
    <3>2. QED
      BY <1>5, <1>8, <3>1
  <2>2. CASE << k, t >> \notin granted
    <3>1. c.op = "claim" /\ k = j /\ t = c.token
      BY <1>6, <2>2
    <3>2. QED
      BY <1>5, <1>8, <3>1
  <2>3. QED
    BY <2>1, <2>2
<1>16. QED
  BY <1>10, <1>11, <1>12, <1>13, <1>14, <1>15 DEF JobsInvariant

(* A committed submission fills a row that nobody is writing.              *)
LEMMA EnqueueCommitStep ==
  ASSUME JobsInvariant, NEW p \in Clients, EnqueueCommit(p)
  PROVE  JobsInvariant'
<1> DEFINE j == call[p].job
           ev == Submitted(Counted(j))
<1>1. /\ ShapeOK
      /\ call[p] \in Call /\ call[p] # NoCall /\ j \in Jobs
      /\ row[j].status = "absent"
  BY DEF EnqueueCommit, JobsInvariant, ShapeOK, Call
<1>2. row[j] = NoRow /\ row[j].revision = 0
  <2>1. row[j] = NoRow
    BY <1>1 DEF JobsInvariant, RowsSane
  <2>2. QED
    BY <2>1 DEF NoRow
<1>3. /\ ev \in Row
      /\ ev.status = "queued" /\ ev.revision = 1 /\ ev.claim = NoToken
      /\ ev.cancelled = FALSE
      /\ ev.counted <=> Counted(j)
  <2>1. Counted(j) \in BOOLEAN
    BY DEF Counted
  <2>2. QED
    BY <2>1, SubmittedType DEF Submitted
<1>4. /\ row' = [ row EXCEPT ![j] = ev ]
      /\ copy' = [ copy EXCEPT ![j] = ev ]
      /\ index' = [ index EXCEPT ![j] = Entry(ev) ]
      /\ call' = [ call EXCEPT ![p] = NoCall ]
      /\ now' = now
      /\ granted' = granted
  BY DEF EnqueueCommit, Put
<1>5. used' \in [ Slots -> Int ]
  BY <1>1, CloudJobsAssumption DEF EnqueueCommit, ShapeOK
<1> HIDE DEF ev, j
<1>6. /\ row'[j] = ev
      /\ \A k \in Jobs : k # j => row'[k] = row[k]
      /\ \A q \in Clients : call'[q] # NoCall => q # p /\ call'[q] = call[q]
  BY <1>1, <1>4 DEF ShapeOK
<1>7. Entry(ev) \in [ status : Live \cup {"absent"}, lease : Nat ]
  BY <1>3 DEF Entry, NoEntry, Row
<1>8. ShapeOK'
  <2>1. row' \in [ Jobs -> Row ] /\ copy' \in [ Jobs -> Row ]
    BY <1>1, <1>3, <1>4 DEF ShapeOK
  <2>2. index' \in [ Jobs -> [ status : Live \cup {"absent"}, lease : Nat ] ]
    BY <1>1, <1>4, <1>7 DEF ShapeOK
  <2>3. call' \in [ Clients -> Call \cup {NoCall} ]
    BY <1>1, <1>4 DEF ShapeOK
  <2>4. QED
    BY <1>1, <1>4, <1>5, <2>1, <2>2, <2>3 DEF ShapeOK
<1>9. SnapshotCoherent'
  <2> SUFFICES ASSUME NEW q \in Clients, NEW k \in Jobs, Writing(q, k)'
               PROVE  /\ (call[q].old.revision \in 1 .. row[k].revision)'
                      /\ (call[q].old.revision = row[k].revision => call[q].old = row[k])'
    BY DEF SnapshotCoherent
  <2>1. call'[q] = call[q] /\ Writing(q, k)
    BY <1>6 DEF Writing
  <2>2. /\ call[q].old.revision \in 1 .. row[k].revision
        /\ call[q].old.revision = row[k].revision => call[q].old = row[k]
    BY <2>1 DEF JobsInvariant, SnapshotCoherent
  <2>3. k # j
    BY <1>2, <2>2
  <2>4. QED
    BY <1>6, <2>1, <2>2, <2>3
<1>10. RowsSane'
  <2> SUFFICES ASSUME NEW k \in Jobs
               PROVE  /\ (row[k].status = "absent" => row[k] = NoRow)'
                      /\ (row[k].status # "absent" => row[k].revision > 0)'
                      /\ (row[k].status = "queued" => row[k].claim = NoToken)'
                      /\ (row[k].status = "running" => row[k].claim # NoToken)'
                      /\ (row[k].cancelled => row[k].status \in {"running", "cancelled"})'
                      /\ (row[k].status = "cancelled" => row[k].cancelled)'
                      /\ (row[k].counted => k \notin Legacy /\ DailyCap > 0)'
    BY DEF RowsSane
  <2>1. CASE k # j
    BY <1>6, <2>1 DEF JobsInvariant, RowsSane
  <2>2. CASE k = j
    BY <1>3, <1>6, <2>2 DEF Counted
  <2>3. QED
    BY <2>1, <2>2
<1>11. CallsChecked'
  <2>1. \A d, r : Accepted(d, r)' <=> Accepted(d, r)
    BY <1>4 DEF Accepted, Lapsed
  <2> SUFFICES ASSUME NEW q \in Clients, NEW k \in Jobs, Writing(q, k)'
               PROVE  /\ Accepted(call[q], call[q].old)'
                      /\ (call[q].op = "claim" => call[q].token \in Tokens)'
                      /\ (call[q].op \in {"renew", "finish"}
                            => << k, call[q].token >> \in granted)'
                      /\ (call[q].op \in {"expire", "abandon"}
                            => call[q].result = "failed")'
    BY DEF CallsChecked
  <2>2. call'[q] = call[q] /\ Writing(q, k)
    BY <1>6 DEF Writing
  <2>3. QED
    BY <1>4, <2>1, <2>2 DEF JobsInvariant, CallsChecked
<1>12. ViewsAgree'
  <2> SUFFICES ASSUME NEW k \in Jobs
               PROVE  /\ (copy[k] = row[k])'
                      /\ (index[k].status
                            = (IF row[k].status \in Live THEN row[k].status ELSE "absent"))'
                      /\ (index[k].status # "absent" => index[k].lease = row[k].lease)'
    BY DEF ViewsAgree
  <2>1. CASE k # j
    BY <1>1, <1>4, <1>6, <2>1 DEF JobsInvariant, ViewsAgree, ShapeOK
  <2>2. CASE k = j
    BY <1>1, <1>4, <1>6, <2>2 DEF Entry, NoEntry, ShapeOK
  <2>3. QED
    BY <2>1, <2>2
<1>13. OneClaim'
  <2> SUFFICES ASSUME NEW k \in Jobs, NEW t \in Tokens, << k, t >> \in granted'
               PROVE  /\ (row[k].claim = t)'
                      /\ (row[k].status \notin {"absent", "queued"})'
    BY DEF OneClaim
  <2>1. row[k].claim = t /\ row[k].status \notin {"absent", "queued"}
    BY <1>4 DEF JobsInvariant, OneClaim
  <2>2. QED
    BY <1>1, <1>6, <2>1
<1>14. QED
  BY <1>8, <1>9, <1>10, <1>11, <1>12, <1>13 DEF JobsInvariant

(* Time only passes: a lease that had lapsed stays lapsed.                 *)
LEMMA TickStep ==
  ASSUME JobsInvariant, Tick
  PROVE  JobsInvariant'
<1>1. /\ UNCHANGED << row, copy, index, used, granted, call >>
      /\ now \in Nat /\ now' = now + 1
      /\ ShapeOK
  BY DEF Tick, store, JobsInvariant, ShapeOK
<1>2. ShapeOK'
  BY <1>1 DEF ShapeOK
<1>3. SnapshotCoherent'
  BY <1>1 DEF JobsInvariant, SnapshotCoherent, Writing
<1>4. RowsSane' /\ ViewsAgree' /\ OneClaim'
  BY <1>1 DEF JobsInvariant, RowsSane, ViewsAgree, OneClaim
<1>5. CallsChecked'
  <2> SUFFICES ASSUME NEW q \in Clients, NEW k \in Jobs, Writing(q, k)'
               PROVE  /\ Accepted(call[q], call[q].old)'
                      /\ (call[q].op = "claim" => call[q].token \in Tokens)'
                      /\ (call[q].op \in {"renew", "finish"}
                            => << k, call[q].token >> \in granted)'
                      /\ (call[q].op \in {"expire", "abandon"}
                            => call[q].result = "failed")'
    BY DEF CallsChecked
  <2>1. /\ Writing(q, k) /\ call' = call
        /\ call[q] \in Call /\ call[q].old \in Row
        /\ call[q].op \in Operations \ {"enqueue"}
    BY <1>1 DEF Writing, ShapeOK, Call
  <2>2. /\ Accepted(call[q], call[q].old)
        /\ call[q].op = "claim" => call[q].token \in Tokens
        /\ call[q].op \in {"renew", "finish"} => << k, call[q].token >> \in granted
        /\ call[q].op \in {"expire", "abandon"} => call[q].result = "failed"
    BY <2>1 DEF JobsInvariant, CallsChecked
  <2>3. Accepted(call[q], call[q].old)'
    <3>1. CASE call[q].op = "expire"
      <4>1. call[q].old.lease \in Nat
        BY <2>1 DEF Row
      <4>2. call[q].old.status = "running" /\ call[q].old.lease < now
        BY <2>2, <3>1 DEF Accepted, Lapsed
      <4>3. call[q].old.lease < now'
        BY <1>1, <4>1, <4>2
      <4>4. QED
        BY <2>1, <3>1, <4>2, <4>3 DEF Accepted, Lapsed
    <3>2. CASE call[q].op # "expire"
      BY <2>1, <2>2, <3>2 DEF Accepted
    <3>3. QED
      BY <3>1, <3>2
  <2>4. QED
    BY <1>1, <2>1, <2>2, <2>3
<1>6. QED
  BY <1>2, <1>3, <1>4, <1>5 DEF JobsInvariant

LEMMA RequestType ==
  ASSUME ShapeOK, NEW op \in Operations, NEW j \in Jobs,
         NEW t \in Tokens \cup {NoToken}, NEW until \in Nat,
         NEW result \in {"done", "failed"}
  PROVE  LET c == Request(op, j, t, until, result)
         IN  /\ c \in Call
             /\ c.op = op /\ c.job = j /\ c.token = t /\ c.result = result
             /\ c.old = row[j]
<1>1. 1 \in 1 .. MaxAttempts
  BY CloudJobsAssumption
<1>2. row[j] \in Row
  BY DEF ShapeOK
<1>3. QED
  BY <1>1, <1>2 DEF Request, Call

(* Every operation that begins with a read.                                *)
LEMMA UpdateStep ==
  ASSUME JobsInvariant, NEW p \in Clients, NEW j \in Jobs,
         NEW op \in Operations \ {"enqueue"}, NEW t \in Tokens \cup {NoToken},
         NEW until \in Nat, NEW result \in {"done", "failed"},
         op = "claim" => t \in Tokens,
         op \in {"renew", "finish"} => << j, t >> \in granted,
         op \in {"expire", "abandon"} => result = "failed",
         Update(p, Request(op, j, t, until, result))
  PROVE  JobsInvariant'
<1> DEFINE c == Request(op, j, t, until, result)
<1>1. ShapeOK /\ op \in Operations
  BY DEF JobsInvariant
<1>2. /\ c \in Call
      /\ c.op = op /\ c.job = j /\ c.token = t /\ c.result = result
      /\ c.old = row[j]
  BY <1>1, RequestType
<1> HIDE DEF c
<1>3. Update(p, c)
  BY DEF c
<1>4. Accepted(c, row[j])
  BY <1>2, <1>3 DEF Update
<1>5. JustRead(c)
  BY <1>2, <1>4 DEF JustRead
<1>6. call' = [ call EXCEPT ![p] = c ] /\ UNCHANGED << store, now, granted >>
  BY <1>3 DEF Update, Begin
<1>7. QED
  BY <1>5, <1>6, CallStep

(* The operations that carry neither a token nor a lease.                  *)
LEMMA PlainStep ==
  ASSUME JobsInvariant, NEW p \in Clients, NEW j \in Jobs,
         NEW op \in {"expire", "abandon", "cancel", "touch"},
         Update(p, Request(op, j, NoToken, 0, "failed"))
  PROVE  JobsInvariant'
<1> DEFINE t == NoToken
           until == 0
           result == "failed"
<1>1. /\ t \in Tokens \cup {NoToken}
      /\ until \in Nat
      /\ result \in {"done", "failed"}
      /\ op \in {"expire", "abandon"} => result = "failed"
      /\ Update(p, Request(op, j, t, until, result))
      /\ op \in Operations \ {"enqueue"}
      /\ op # "claim" /\ op \notin {"renew", "finish"}
  BY DEF Operations
<1> HIDE DEF t, until, result
<1>2. QED
  BY <1>1, UpdateStep

LEMMA EnqueueStep ==
  ASSUME JobsInvariant, NEW p \in Clients, NEW j \in Jobs, Enqueue(p, j)
  PROVE  JobsInvariant'
<1> DEFINE r == Request("enqueue", j, NoToken, 0, "failed")
           c == [ r EXCEPT !.old = NoRow ]
<1>1. r \in Call /\ r.op = "enqueue"
  BY RequestType DEF JobsInvariant, Operations
<1>2. NoRow \in Row
  BY DEF NoRow, Row
<1> HIDE DEF r
<1>3. c \in Call /\ c.op = "enqueue"
  BY <1>1, <1>2 DEF Call
<1>4. Begin(p, c)
  BY DEF Enqueue, r
<1> HIDE DEF c
<1>5. JustRead(c)
  BY <1>3 DEF JustRead
<1>6. call' = [ call EXCEPT ![p] = c ] /\ UNCHANGED << store, now, granted >>
  BY <1>4 DEF Begin
<1>7. QED
  BY <1>5, <1>6, CallStep

LEMMA CallAgain ==
  ASSUME NEW c \in Call, NEW r \in Row, c.attempt < MaxAttempts
  PROVE  LET again == [ c EXCEPT !.old = r, !.attempt = @ + 1 ]
         IN  /\ again \in Call
             /\ again.op = c.op /\ again.job = c.job /\ again.token = c.token
             /\ again.result = c.result /\ again.old = r
<1>1. c.attempt + 1 \in 1 .. MaxAttempts
  BY CloudJobsAssumption DEF Call
<1>2. QED
  BY <1>1 DEF Call

LEMMA RejectStep ==
  ASSUME JobsInvariant, NEW p \in Clients, Reject(p)
  PROVE  JobsInvariant'
<1> DEFINE c == call[p]
           again == [ c EXCEPT !.old = row[c.job], !.attempt = @ + 1 ]
<1>1. /\ c \in Call /\ c # NoCall /\ c.op # "enqueue" /\ c.job \in Jobs
      /\ row[c.job] \in Row
      /\ Writing(p, c.job)
  BY DEF Reject, JobsInvariant, ShapeOK, Call, Writing
<1>2. UNCHANGED << store, now, granted >>
  BY DEF Reject
<1>3. CASE c.attempt < MaxAttempts /\ Accepted(c, row[c.job])
  <2>1. call' = [ call EXCEPT ![p] = again ]
    BY <1>3 DEF Reject
  <2>2. /\ again \in Call
        /\ again.op = c.op /\ again.job = c.job /\ again.token = c.token
        /\ again.result = c.result /\ again.old = row[c.job]
    <3> HIDE DEF c
    <3> QED BY <1>1, <1>3, CallAgain
  <2> HIDE DEF again, c
  <2>3. Accepted(again, row[c.job])
    BY <1>3, <2>2 DEF Accepted
  <2>4. JustRead(again)
    BY <1>1, <2>2, <2>3 DEF JustRead, JobsInvariant, CallsChecked, c
  <2>5. QED
    BY <1>2, <2>1, <2>4, CallStep
<1>4. CASE ~ (c.attempt < MaxAttempts /\ Accepted(c, row[c.job]))
  <2>1. call' = [ call EXCEPT ![p] = NoCall ]
    BY <1>4 DEF Reject
  <2>2. QED
    BY <1>2, <2>1, CallStep
<1>5. QED
  BY <1>3, <1>4

LEMMA EnqueueRejectStep ==
  ASSUME JobsInvariant, NEW p \in Clients, EnqueueReject(p)
  PROVE  JobsInvariant'
<1> DEFINE c == call[p]
           again == [ c EXCEPT !.attempt = @ + 1 ]
<1>1. c \in Call /\ c # NoCall /\ c.op = "enqueue"
  BY DEF EnqueueReject, JobsInvariant, ShapeOK
<1>2. UNCHANGED << store, now, granted >>
  BY DEF EnqueueReject
<1>3. CASE c.attempt < MaxAttempts /\ call' = [ call EXCEPT ![p] = again ]
  <2>1. again \in Call /\ again.op = "enqueue"
    BY <1>1, <1>3, CloudJobsAssumption DEF Call
  <2>2. JustRead(again)
    BY <2>1 DEF JustRead
  <2>3. QED
    BY <1>2, <1>3, <2>2, CallStep
<1>4. CASE call' = [ call EXCEPT ![p] = NoCall ]
  BY <1>2, <1>4, CallStep
<1>5. QED
  BY <1>3, <1>4 DEF EnqueueReject

LEMMA InitInvariant == Init => JobsInvariant
<1> SUFFICES ASSUME Init PROVE JobsInvariant
  OBVIOUS
<1>1. NoRow \in Row /\ NoRow.status = "absent" /\ ~ NoRow.cancelled /\ ~ NoRow.counted
  BY DEF NoRow, Row
<1>2. NoEntry \in [ status : Live \cup {"absent"}, lease : Nat ]
  BY DEF NoEntry
<1>3. ShapeOK
  BY <1>1, <1>2 DEF Init, ShapeOK
<1>4. SnapshotCoherent /\ CallsChecked
  BY DEF Init, SnapshotCoherent, CallsChecked, Writing
<1>5. RowsSane
  BY <1>1 DEF Init, RowsSane
<1>6. ViewsAgree
  BY <1>1 DEF Init, ViewsAgree, NoEntry
<1>7. OneClaim
  BY DEF Init, OneClaim
<1>8. QED
  BY <1>3, <1>4, <1>5, <1>6, <1>7 DEF JobsInvariant

LEMMA StutterStep ==
  ASSUME JobsInvariant, UNCHANGED vars
  PROVE  JobsInvariant'
<1>1. UNCHANGED << row, copy, index, used, now, granted, call >>
  BY DEF vars
<1>2. ShapeOK' /\ RowsSane' /\ ViewsAgree' /\ OneClaim'
  BY <1>1 DEF JobsInvariant, ShapeOK, RowsSane, ViewsAgree, OneClaim
<1>3. SnapshotCoherent'
  BY <1>1 DEF JobsInvariant, SnapshotCoherent, Writing
<1>4. CallsChecked'
  BY <1>1 DEF JobsInvariant, CallsChecked, Writing, Accepted, Lapsed
<1>5. QED
  BY <1>2, <1>3, <1>4 DEF JobsInvariant

(* Every step of the queue preserves the invariant.                        *)
LEMMA NextInvariant == JobsInvariant /\ [Next]_vars => JobsInvariant'
<1> SUFFICES ASSUME JobsInvariant, [Next]_vars
             PROVE  JobsInvariant'
  OBVIOUS
<1>1. now \in Nat /\ LeaseTime \in Nat /\ now + LeaseTime \in Nat
  BY CloudJobsAssumption DEF JobsInvariant, ShapeOK
<1>2. CASE Tick
  BY <1>2, TickStep
<1>3. ASSUME NEW p \in Clients, Commit(p) PROVE JobsInvariant'
  BY <1>3, CommitStep
<1>4. ASSUME NEW p \in Clients, Reject(p) PROVE JobsInvariant'
  BY <1>4, RejectStep
<1>5. ASSUME NEW p \in Clients, EnqueueCommit(p) PROVE JobsInvariant'
  BY <1>5, EnqueueCommitStep
<1>6. ASSUME NEW p \in Clients, EnqueueReject(p) PROVE JobsInvariant'
  BY <1>6, EnqueueRejectStep
<1>7. ASSUME NEW p \in Clients, Fail(p) PROVE JobsInvariant'
  BY <1>7, CallStep DEF Fail
<1>8. ASSUME NEW p \in Clients, NEW j \in Jobs, Enqueue(p, j) PROVE JobsInvariant'
  BY <1>8, EnqueueStep
<1>9. ASSUME NEW p \in Clients, NEW j \in Jobs, Claim(p, j) PROVE JobsInvariant'
  <2>1. PICK t \in Tokens : Update(p, Request("claim", j, t, now + LeaseTime, "failed"))
    BY <1>9 DEF Claim
  <2>2. QED
    BY <1>1, <2>1, UpdateStep DEF Operations
<1>10. ASSUME NEW p \in Clients, NEW j \in Jobs, Renew(p, j) PROVE JobsInvariant'
  <2>1. PICK t \in Tokens : /\ << j, t >> \in granted
                            /\ Update(p, Request("renew", j, t, now + LeaseTime, "failed"))
    BY <1>10 DEF Renew
  <2>2. QED
    BY <1>1, <2>1, UpdateStep DEF Operations
<1>11. ASSUME NEW p \in Clients, NEW j \in Jobs, Finish(p, j) PROVE JobsInvariant'
  <2>1. PICK t \in Tokens, result \in {"done", "failed"} :
          /\ << j, t >> \in granted
          /\ Update(p, Request("finish", j, t, 0, result))
    BY <1>11 DEF Finish
  <2>2. QED
    BY <2>1, UpdateStep DEF Operations
<1>12. ASSUME NEW p \in Clients, NEW j \in Jobs, Expire(p, j) PROVE JobsInvariant'
  <2>1. Update(p, Request("expire", j, NoToken, 0, "failed"))
    BY <1>12 DEF Expire
  <2>2. QED
    BY <2>1, PlainStep
<1>13. ASSUME NEW p \in Clients, NEW j \in Jobs, AbandonUnsent(p, j) PROVE JobsInvariant'
  <2>1. Update(p, Request("abandon", j, NoToken, 0, "failed"))
    BY <1>13 DEF AbandonUnsent
  <2>2. QED
    BY <2>1, PlainStep
<1>14. ASSUME NEW p \in Clients, NEW j \in Jobs, Cancel(p, j) PROVE JobsInvariant'
  <2>1. Update(p, Request("cancel", j, NoToken, 0, "failed"))
    BY <1>14 DEF Cancel
  <2>2. QED
    BY <2>1, PlainStep
<1>15. ASSUME NEW p \in Clients, NEW j \in Jobs, Touch(p, j) PROVE JobsInvariant'
  <2>1. Update(p, Request("touch", j, NoToken, 0, "failed"))
    BY <1>15 DEF Touch
  <2>2. QED
    BY <2>1, PlainStep
<1>16. CASE UNCHANGED vars
  BY <1>16, StutterStep
<1>17. QED
  BY <1>2, <1>3, <1>4, <1>5, <1>6, <1>7, <1>8, <1>9, <1>10, <1>11, <1>12, <1>13,
     <1>14, <1>15, <1>16 DEF Next

(* Whatever the interleaving, the losses and the deaths: the revision check *)
(* means what update() needs it to mean, the owner's copy and the scheduling *)
(* index follow the row, and a job is claimed by at most one worker.        *)
THEOREM JobsInvariantHolds == Spec => []JobsInvariant
<1>1. QED
  BY InitInvariant, NextInvariant, PTL DEF Spec

-----------------------------------------------------------------------------
(* What a step may do to the rows.                                         *)

LEMMA RowSteps ==
  ASSUME JobsInvariant, [Next]_vars
  PROVE  \/ UNCHANGED << row, used >>
         \/ \E p \in Clients : Commit(p)
         \/ \E p \in Clients : EnqueueCommit(p)
<1> USE DEF store
<1>1. CASE UNCHANGED vars
  BY <1>1 DEF vars
<1>2. CASE Tick
  BY <1>2 DEF Tick
<1>3. ASSUME NEW p \in Clients,
             \/ Commit(p) \/ Reject(p) \/ EnqueueCommit(p) \/ EnqueueReject(p) \/ Fail(p)
      PROVE  \/ UNCHANGED << row, used >>
             \/ \E q \in Clients : Commit(q)
             \/ \E q \in Clients : EnqueueCommit(q)
  <2>1. CASE Reject(p) \/ EnqueueReject(p) \/ Fail(p)
    BY <2>1 DEF Reject, EnqueueReject, Fail
  <2>2. QED
    BY <1>3, <2>1
<1>4. ASSUME NEW p \in Clients, NEW j \in Jobs,
             \/ Enqueue(p, j) \/ Claim(p, j) \/ Renew(p, j) \/ Finish(p, j)
             \/ Expire(p, j) \/ AbandonUnsent(p, j) \/ Cancel(p, j) \/ Touch(p, j)
      PROVE  UNCHANGED << row, used >>
  <2>1. \E c : Begin(p, c)
    BY <1>4 DEF Enqueue, Claim, Renew, Finish, Expire, AbandonUnsent, Cancel, Touch, Update
  <2>2. QED
    BY <2>1 DEF Begin
<1>5. QED
  BY <1>1, <1>2, <1>3, <1>4 DEF Next

LEMMA CommitPut ==
  ASSUME JobsInvariant, NEW p \in Clients, Commit(p)
  PROVE  LET j == call[p].job
         IN  /\ row'[j] = Written(call[p])
             /\ \A k \in Jobs : k # j => row'[k] = row[k]
<1> DEFINE j == call[p].job
<1>1. row' = [ row EXCEPT ![j] = Written(call[p]) ]
  BY DEF Commit, Put
<1>2. j \in Jobs /\ row \in [ Jobs -> Row ]
  BY CommitCall
<1>3. QED
  BY <1>1, <1>2

LEMMA EnqueuePut ==
  ASSUME JobsInvariant, NEW p \in Clients, EnqueueCommit(p)
  PROVE  LET j == call[p].job
         IN  /\ j \in Jobs
             /\ row[j] = NoRow
             /\ row'[j] = Submitted(Counted(j))
             /\ \A k \in Jobs : k # j => row'[k] = row[k]
<1> DEFINE j == call[p].job
<1>1. j \in Jobs /\ row \in [ Jobs -> Row ] /\ row[j].status = "absent"
  BY DEF EnqueueCommit, JobsInvariant, ShapeOK, Call
<1>2. row[j] = NoRow
  BY <1>1 DEF JobsInvariant, RowsSane
<1>3. row' = [ row EXCEPT ![j] = Submitted(Counted(j)) ]
  BY DEF EnqueueCommit, Put
<1>4. QED
  BY <1>1, <1>2, <1>3

(* A claimed job keeps its worker and is never handed out again, so its    *)
(* paid model calls are not repeated.                                      *)
THEOREM NeverReclaimedHolds == Spec => NeverReclaimed
<1>1. ASSUME JobsInvariant, [Next]_vars, NEW j \in Jobs, row[j].claim # NoToken
      PROVE  row'[j].claim = row[j].claim /\ row'[j].status # "queued"
  <2>1. row[j].status \notin {"absent", "queued"}
    <3>1. NoRow.claim = NoToken
      BY DEF NoRow
    <3>2. QED
      BY <1>1, <3>1 DEF JobsInvariant, RowsSane
  <2>2. CASE UNCHANGED << row, used >>
    BY <1>1, <2>1, <2>2
  <2>3. ASSUME NEW p \in Clients, Commit(p)
        PROVE  row'[j].claim = row[j].claim /\ row'[j].status # "queued"
    <3>1. CASE call[p].job = j
      BY <1>1, <2>1, <2>3, <3>1, CommittedRow, CommitPut
    <3>2. CASE call[p].job # j
      BY <1>1, <2>1, <2>3, <3>2, CommitPut
    <3>3. QED
      BY <3>1, <3>2
  <2>4. ASSUME NEW p \in Clients, EnqueueCommit(p)
        PROVE  row'[j].claim = row[j].claim /\ row'[j].status # "queued"
    <3>1. NoRow.status = "absent"
      BY DEF NoRow
    <3>2. QED
      BY <1>1, <2>1, <2>4, <3>1, EnqueuePut
  <2>5. QED
    BY <1>1, <2>2, <2>3, <2>4, RowSteps
<1>2. JobsInvariant /\ [Next]_vars
        => [ \A j \in Jobs : row[j].claim # NoToken =>
               /\ row'[j].claim = row[j].claim
               /\ row'[j].status # "queued" ]_vars
  BY <1>1
<1>3. QED
  BY <1>2, JobsInvariantHolds, PTL DEF Spec, NeverReclaimed

(* Once a job carries the cancellation flag no result, late or not, and no *)
(* expiry makes it anything but cancelled.                                 *)
THEOREM CancellationWinsHolds == Spec => CancellationWins
<1>1. ASSUME JobsInvariant, [Next]_vars, NEW j \in Jobs, row[j].cancelled
      PROVE  row'[j].cancelled /\ row'[j].status \in {"running", "cancelled"}
  <2>1. row[j].status \in {"running", "cancelled"}
    BY <1>1 DEF JobsInvariant, RowsSane
  <2>2. CASE UNCHANGED << row, used >>
    BY <1>1, <2>1, <2>2
  <2>3. ASSUME NEW p \in Clients, Commit(p)
        PROVE  row'[j].cancelled /\ row'[j].status \in {"running", "cancelled"}
    <3>1. CASE call[p].job = j
      BY <1>1, <2>3, <3>1, CommittedRow, CommitPut
    <3>2. CASE call[p].job # j
      BY <1>1, <2>1, <2>3, <3>2, CommitPut
    <3>3. QED
      BY <3>1, <3>2
  <2>4. ASSUME NEW p \in Clients, EnqueueCommit(p)
        PROVE  row'[j].cancelled /\ row'[j].status \in {"running", "cancelled"}
    <3>1. NoRow.status = "absent"
      BY DEF NoRow
    <3>2. QED
      BY <1>1, <2>1, <2>4, <3>1, EnqueuePut
  <2>5. QED
    BY <1>1, <2>2, <2>3, <2>4, RowSteps
<1>2. JobsInvariant /\ [Next]_vars
        => [ \A j \in Jobs : row[j].cancelled =>
               /\ row'[j].cancelled
               /\ row'[j].status \in {"running", "cancelled"} ]_vars
  BY <1>1
<1>3. QED
  BY <1>2, JobsInvariantHolds, PTL DEF Spec, CancellationWins

(* A renewal wins over an expiry that was decided on the lease it extends: *)
(* while the current lease lasts, only the holder of the claim settles the *)
(* job.                                                                    *)
THEOREM LeaseRespectedHolds == Spec => LeaseRespected
<1> DEFINE Early(j) == /\ row[j].status = "running"
                       /\ row[j].lease >= now
                       /\ row'[j].status # "running"
           ByHolder(j) == \E p \in Clients : /\ Writing(p, j)
                                             /\ call[p].op = "finish"
                                             /\ << j, call[p].token >> \in granted
<1>1. ASSUME JobsInvariant, [Next]_vars, NEW j \in Jobs, Early(j)
      PROVE  ByHolder(j)
  <2>1. CASE UNCHANGED << row, used >>
    BY <1>1, <2>1
  <2>2. ASSUME NEW p \in Clients, Commit(p)
        PROVE  ByHolder(j)
    <3>1. call[p].job = j
      BY <1>1, <2>2, CommitPut
    <3>2. /\ Writing(p, j)
          /\ row[j] \in Row
          /\ now \in Nat
      BY <1>1, <2>2, <3>1, CommitCall
    <3>3. \/ call[p].op = "finish" /\ << j, call[p].token >> \in granted
          \/ row[j].lease < now
      BY <1>1, <2>2, <3>1, CommittedRow, CommitPut
    <3>4. ~ (row[j].lease < now)
      BY <1>1, <3>2 DEF Row
    <3>5. QED
      BY <3>2, <3>3, <3>4
  <2>3. ASSUME NEW p \in Clients, EnqueueCommit(p)
        PROVE  ByHolder(j)
    <3>1. NoRow.status = "absent"
      BY DEF NoRow
    <3>2. QED
      BY <1>1, <2>3, <3>1, EnqueuePut
  <2>4. QED
    BY <1>1, <2>1, <2>2, <2>3, RowSteps
<1>2. JobsInvariant /\ [Next]_vars
        => [ \A j \in Jobs : Early(j) => ByHolder(j) ]_vars
  BY <1>1
<1>3. QED
  BY <1>2, JobsInvariantHolds, PTL DEF Spec, LeaseRespected

-----------------------------------------------------------------------------
(* The daily counter.                                                      *)

LEMMA CommitCharges ==
  ASSUME JobsInvariant, NEW p \in Clients, Commit(p)
  PROVE  LET j == call[p].job
             refund == Refunds(call[p].old, Written(call[p]))
         IN  /\ j \in Jobs
             /\ refund => j \in Charged
             /\ Charged' = IF refund THEN Charged \ {j} ELSE Charged
             /\ used' = [ used EXCEPT ![SlotOf[j]] = IF refund THEN @ - 1 ELSE @ ]
<1> DEFINE j == call[p].job
           ev == Written(call[p])
           refund == Refunds(call[p].old, ev)
<1>1. j \in Jobs /\ call[p].old = row[j] /\ row[j] \in Row
  BY CommitCall
<1>2. row'[j] = ev /\ \A k \in Jobs : k # j => row'[k] = row[k]
  BY CommitPut
<1>3. /\ ev.counted = row[j].counted
      /\ row[j].status = "cancelled" => ev.status = "cancelled"
  BY CommittedRow
<1>4. refund <=> /\ ev.status = "cancelled"
                 /\ row[j].status # "cancelled"
                 /\ row[j].counted
  BY <1>1 DEF Refunds
<1>5. used' = [ used EXCEPT ![SlotOf[j]] = IF refund THEN @ - 1 ELSE @ ]
  BY DEF Commit
<1> HIDE DEF refund, ev, j
<1>6. refund => j \in Charged
  BY <1>1, <1>4 DEF Charged
<1>7. ASSUME NEW k \in Jobs
      PROVE  k \in Charged' <=> (k \in Charged /\ ~ (refund /\ k = j))
  <2>1. CASE k = j
    BY <1>1, <1>2, <1>3, <1>4, <2>1 DEF Charged
  <2>2. CASE k # j
    BY <1>2, <2>2 DEF Charged
  <2>3. QED
    BY <2>1, <2>2
<1>8. Charged \subseteq Jobs /\ Charged' \subseteq Jobs
  BY DEF Charged
<1>9. Charged' = IF refund THEN Charged \ {j} ELSE Charged
  BY <1>7, <1>8
<1>10. QED
  BY <1>1, <1>5, <1>6, <1>9 DEF refund, ev, j

LEMMA EnqueueCharges ==
  ASSUME JobsInvariant, NEW p \in Clients, EnqueueCommit(p)
  PROVE  LET j == call[p].job
         IN  /\ j \in Jobs
             /\ j \notin Charged
             /\ Counted(j) => used[SlotOf[j]] < DailyCap
             /\ Charged' = IF Counted(j) THEN Charged \cup {j} ELSE Charged
             /\ used' = [ used EXCEPT ![SlotOf[j]] = IF Counted(j) THEN @ + 1 ELSE @ ]
<1> DEFINE j == call[p].job
<1>1. /\ j \in Jobs /\ row[j] = NoRow
      /\ row'[j] = Submitted(Counted(j))
      /\ \A k \in Jobs : k # j => row'[k] = row[k]
  BY EnqueuePut
<1>2. Counted(j) => used[SlotOf[j]] < DailyCap
  BY DEF EnqueueCommit, HasRoom
<1>3. used' = [ used EXCEPT ![SlotOf[j]] = IF Counted(j) THEN @ + 1 ELSE @ ]
  BY DEF EnqueueCommit
<1> HIDE DEF j
<1>4. NoRow.counted = FALSE
  BY DEF NoRow
<1>5. j \notin Charged
  BY <1>1, <1>4 DEF Charged
<1>6. /\ row'[j].counted = Counted(j)
      /\ row'[j].status = "queued"
  BY <1>1 DEF Submitted
<1>7. ASSUME NEW k \in Jobs
      PROVE  k \in Charged' <=> (k \in Charged \/ (Counted(j) /\ k = j))
  <2>1. CASE k = j
    BY <1>1, <1>5, <1>6, <2>1 DEF Charged
  <2>2. CASE k # j
    BY <1>1, <2>2 DEF Charged
  <2>3. QED
    BY <2>1, <2>2
<1>8. Charged \subseteq Jobs /\ Charged' \subseteq Jobs
  BY DEF Charged
<1>9. Charged' = IF Counted(j) THEN Charged \cup {j} ELSE Charged
  BY <1>1, <1>7, <1>8
<1>10. QED
  BY <1>1, <1>2, <1>3, <1>5, <1>9 DEF j

LEMMA ChargedFinite ==
  ASSUME NEW s \in Slots
  PROVE  IsFiniteSet(ChargedIn(s)) /\ Cardinality(ChargedIn(s)) \in Nat
<1>1. ChargedIn(s) \in SUBSET Jobs
  BY DEF ChargedIn, Charged
<1>2. IsFiniteSet(ChargedIn(s))
  BY <1>1, FS_Subset, CloudJobsAssumption
<1>3. QED
  BY <1>2, FS_CardinalityType

(* A cancelled job gives its place back once, whoever cancels it.          *)
LEMMA CommitQuota ==
  ASSUME JobsInvariant, QuotaExact, NEW p \in Clients, Commit(p)
  PROVE  QuotaExact'
<1> DEFINE j == call[p].job
           refund == Refunds(call[p].old, Written(call[p]))
<1>1. /\ j \in Jobs
      /\ refund => j \in Charged
      /\ Charged' = IF refund THEN Charged \ {j} ELSE Charged
      /\ used' = [ used EXCEPT ![SlotOf[j]] = IF refund THEN @ - 1 ELSE @ ]
  BY CommitCharges
<1> HIDE DEF j, refund
<1>2. /\ used \in [ Slots -> Int ] /\ SlotOf[j] \in Slots /\ DailyCap \in Nat
  BY <1>1, CloudJobsAssumption DEF JobsInvariant, ShapeOK
<1> SUFFICES ASSUME NEW s \in Slots
             PROVE  /\ used'[s] = Cardinality(ChargedIn(s)')
                    /\ used'[s] <= DailyCap
  BY DEF QuotaExact
<1>3. used[s] = Cardinality(ChargedIn(s)) /\ used[s] <= DailyCap /\ used[s] \in Int
  BY <1>2 DEF QuotaExact
<1>4. CASE refund /\ s = SlotOf[j]
  <2>1. j \in ChargedIn(s)
    BY <1>1, <1>4 DEF ChargedIn
  <2>2. ChargedIn(s)' = ChargedIn(s) \ {j}
    BY <1>1, <1>4 DEF ChargedIn
  <2>3. Cardinality(ChargedIn(s)') = Cardinality(ChargedIn(s)) - 1
    BY <2>1, <2>2, ChargedFinite, FS_RemoveElement
  <2>4. used'[s] = used[s] - 1
    BY <1>1, <1>2, <1>4
  <2>5. QED
    BY <1>2, <1>3, <2>3, <2>4
<1>5. CASE ~ (refund /\ s = SlotOf[j])
  <2>1. ChargedIn(s)' = ChargedIn(s)
    BY <1>1, <1>5 DEF ChargedIn
  <2>2. used'[s] = used[s]
    BY <1>1, <1>2, <1>5
  <2>3. QED
    BY <1>3, <2>1, <2>2
<1>6. QED
  BY <1>4, <1>5

LEMMA EnqueueQuota ==
  ASSUME JobsInvariant, QuotaExact, NEW p \in Clients, EnqueueCommit(p)
  PROVE  QuotaExact'
<1> DEFINE j == call[p].job
<1>1. /\ j \in Jobs
      /\ j \notin Charged
      /\ Counted(j) => used[SlotOf[j]] < DailyCap
      /\ Charged' = IF Counted(j) THEN Charged \cup {j} ELSE Charged
      /\ used' = [ used EXCEPT ![SlotOf[j]] = IF Counted(j) THEN @ + 1 ELSE @ ]
  BY EnqueueCharges
<1> HIDE DEF j
<1>2. /\ used \in [ Slots -> Int ] /\ SlotOf[j] \in Slots /\ DailyCap \in Nat
  BY <1>1, CloudJobsAssumption DEF JobsInvariant, ShapeOK
<1> SUFFICES ASSUME NEW s \in Slots
             PROVE  /\ used'[s] = Cardinality(ChargedIn(s)')
                    /\ used'[s] <= DailyCap
  BY DEF QuotaExact
<1>3. used[s] = Cardinality(ChargedIn(s)) /\ used[s] <= DailyCap /\ used[s] \in Int
  BY <1>2 DEF QuotaExact
<1>4. CASE Counted(j) /\ s = SlotOf[j]
  <2>1. j \notin ChargedIn(s)
    BY <1>1 DEF ChargedIn
  <2>2. ChargedIn(s)' = ChargedIn(s) \cup {j}
    BY <1>1, <1>4 DEF ChargedIn
  <2>3. Cardinality(ChargedIn(s)') = Cardinality(ChargedIn(s)) + 1
    BY <2>1, <2>2, ChargedFinite, FS_AddElement
  <2>4. used'[s] = used[s] + 1 /\ used[s] < DailyCap
    BY <1>1, <1>2, <1>4
  <2>5. QED
    BY <1>2, <1>3, <2>3, <2>4
<1>5. CASE ~ (Counted(j) /\ s = SlotOf[j])
  <2>1. ChargedIn(s)' = ChargedIn(s)
    BY <1>1, <1>5 DEF ChargedIn
  <2>2. used'[s] = used[s]
    BY <1>1, <1>2, <1>5
  <2>3. QED
    BY <1>3, <2>1, <2>2
<1>6. QED
  BY <1>4, <1>5

(* The counter that bounds a day's submissions is the number of jobs that  *)
(* hold a place, and it stays within the cap.                              *)
THEOREM QuotaExactHolds == Spec => []QuotaExact
<1>1. Init => QuotaExact
  <2> SUFFICES ASSUME Init, NEW s \in Slots
               PROVE  used[s] = Cardinality(ChargedIn(s)) /\ used[s] <= DailyCap
    BY DEF QuotaExact
  <2>1. ChargedIn(s) = {}
    BY DEF Init, ChargedIn, Charged, NoRow
  <2>2. used[s] = 0
    BY DEF Init
  <2>3. QED
    BY <2>1, <2>2, FS_EmptySet, CloudJobsAssumption
<1>2. JobsInvariant /\ QuotaExact /\ [Next]_vars => QuotaExact'
  <2> SUFFICES ASSUME JobsInvariant, QuotaExact, [Next]_vars
               PROVE  QuotaExact'
    OBVIOUS
  <2>1. CASE UNCHANGED << row, used >>
    BY <2>1 DEF QuotaExact, ChargedIn, Charged
  <2>2. QED
    BY <2>1, RowSteps, CommitQuota, EnqueueQuota
<1>3. QED
  BY <1>1, <1>2, JobsInvariantHolds, PTL DEF Spec

(* No counter is ever refunded below zero.                                 *)
THEOREM TypeOKHolds == Spec => []TypeOK
<1>1. JobsInvariant /\ QuotaExact => TypeOK
  <2> SUFFICES ASSUME JobsInvariant, QuotaExact
               PROVE  used \in [ Slots -> Nat ]
    BY DEF TypeOK, JobsInvariant
  <2>1. \A s \in Slots : used[s] \in Nat
    BY ChargedFinite DEF QuotaExact
  <2>2. QED
    BY <2>1 DEF JobsInvariant, ShapeOK
<1>2. QED
  BY <1>1, JobsInvariantHolds, QuotaExactHolds, PTL

-----------------------------------------------------------------------------
(* The queue implements JobLifecycle.                                      *)

Statuses == [ j \in Jobs |-> row[j].status ]
Flagged  == { j \in Jobs : row[j].cancelled }

LEMMA CommitAbstract ==
  ASSUME JobsInvariant, NEW p \in Clients, Commit(p)
  PROVE  LET j  == call[p].job
             ev == Written(call[p])
         IN  /\ Statuses' = [ Statuses EXCEPT ![j] = ev.status ]
             /\ Flagged' = IF ev.cancelled THEN Flagged \cup {j} ELSE Flagged
             /\ j \in Flagged <=> row[j].cancelled
             /\ Charged' = IF /\ row[j].status # "cancelled"
                              /\ ev.status = "cancelled"
                           THEN Charged \ {j} ELSE Charged
<1> DEFINE j == call[p].job
           ev == Written(call[p])
<1>1. /\ j \in Jobs /\ row[j] \in Row /\ call[p].old = row[j]
      /\ row'[j] = ev
      /\ \A k \in Jobs : k # j => row'[k] = row[k]
      /\ row[j].cancelled => ev.cancelled
      /\ ev \in Row
  BY CommitCall, CommitPut, CommittedRow
<1>2. Charged' = IF Refunds(row[j], ev) THEN Charged \ {j} ELSE Charged
  BY <1>1, CommitCharges
<1> HIDE DEF j, ev
<1>3. Statuses' = [ Statuses EXCEPT ![j] = ev.status ]
  BY <1>1 DEF Statuses
<1>4. Flagged' = IF ev.cancelled THEN Flagged \cup {j} ELSE Flagged
  <2>1. \A k \in Jobs : k # j => (row'[k].cancelled <=> row[k].cancelled)
    BY <1>1
  <2>2. (row'[j].cancelled <=> ev.cancelled) /\ (row[j].cancelled => ev.cancelled)
    BY <1>1
  <2>3. QED
    BY <1>1, <2>1, <2>2 DEF Flagged
<1>5. j \in Flagged <=> row[j].cancelled
  BY <1>1 DEF Flagged
<1>6. Charged' = IF row[j].status # "cancelled" /\ ev.status = "cancelled"
                 THEN Charged \ {j} ELSE Charged
  <2>1. ~ row[j].counted => Charged \ {j} = Charged
    BY DEF Charged
  <2>2. QED
    BY <1>2, <2>1 DEF Refunds
<1>7. QED
  BY <1>3, <1>4, <1>5, <1>6 DEF j, ev

LEMMA CommitRefines ==
  ASSUME JobsInvariant, NEW p \in Clients, Commit(p)
  PROVE  [Lifecycle!LifecycleNext]_(Lifecycle!lifecycleVars)
<1> PICK j \in Jobs : j = call[p].job
  BY CommitCall
<1> DEFINE ev == Written(call[p])
           old == row[j]
           Step == \/ Lifecycle!Start(j) \/ Lifecycle!CancelQueued(j)
                   \/ Lifecycle!CancelRunning(j) \/ Lifecycle!Abandon(j)
                   \/ Lifecycle!Finish(j) \/ Lifecycle!FinishCancelled(j)
                   \/ UNCHANGED << Statuses, Flagged, Charged >>
<1>1. /\ Statuses' = [ Statuses EXCEPT ![j] = ev.status ]
      /\ Flagged' = IF ev.cancelled THEN Flagged \cup {j} ELSE Flagged
      /\ j \in Flagged <=> old.cancelled
      /\ Charged' = IF old.status # "cancelled" /\ ev.status = "cancelled"
                    THEN Charged \ {j} ELSE Charged
  BY CommitAbstract
<1>2. /\ j \in Jobs /\ old \in Row
      /\ old.status # "absent"
      /\ old.cancelled => old.status \in {"running", "cancelled"}
      /\ Statuses[j] = old.status
  BY CommitCall DEF Statuses
<1>3. /\ ev \in Row
      /\ ev.status # "absent"
      /\ ev.cancelled => ev.status \in {"running", "cancelled"}
      /\ ev.status = "cancelled" => ev.cancelled
      /\ old.cancelled => ev.cancelled
      /\ old.status \notin {"absent", "queued"} => ev.status \notin {"absent", "queued"}
      /\ old.status \in Terminal => ev.status = old.status /\ (ev.cancelled <=> old.cancelled)
      /\ old.status = "running" /\ ev.status # "running" => (ev.cancelled <=> old.cancelled)
      /\ old.status = "queued" =>
           \/ ev.status = "queued" /\ ~ ev.cancelled
           \/ ev.status = "running" /\ ~ ev.cancelled
           \/ ev.status = "cancelled"
           \/ ev.status = "failed" /\ ~ ev.cancelled
  BY CommittedRow
<1> HIDE DEF ev, old
<1>4. ASSUME ev.status = old.status, ev.cancelled <=> old.cancelled
      PROVE  UNCHANGED << Statuses, Flagged, Charged >>
  <2>1. Statuses' = Statuses
    BY <1>1, <1>2, <1>4 DEF Statuses
  <2>2. Flagged' = Flagged /\ Charged' = Charged
    BY <1>1, <1>4
  <2>3. QED
    BY <2>1, <2>2
<1> SUFFICES Step
  <2>1. CASE UNCHANGED << Statuses, Flagged, Charged >>
    BY <2>1 DEF Lifecycle!lifecycleVars, Statuses, Flagged
  <2>2. QED
    BY <1>2, <2>1 DEF Lifecycle!LifecycleNext
<1>5. CASE old.status \in Terminal
  BY <1>3, <1>4, <1>5
<1>6. CASE old.status = "queued"
  <2>1. ~ old.cancelled
    BY <1>2, <1>6
  <2>2. CASE ev.status = "queued" /\ ~ ev.cancelled
    BY <1>4, <1>6, <2>1, <2>2
  <2>3. CASE ev.status = "running" /\ ~ ev.cancelled
    <3>1. Lifecycle!Start(j)
      BY <1>1, <1>2, <1>6, <2>3 DEF Lifecycle!Start, Statuses, Flagged
    <3>2. QED
      BY <3>1
  <2>4. CASE ev.status = "cancelled"
    <3>1. Lifecycle!CancelQueued(j)
      BY <1>1, <1>2, <1>3, <1>6, <2>4 DEF Lifecycle!CancelQueued, Statuses, Flagged
    <3>2. QED
      BY <3>1
  <2>5. CASE ev.status = "failed" /\ ~ ev.cancelled
    <3>1. Lifecycle!Abandon(j)
      BY <1>1, <1>2, <1>6, <2>5 DEF Lifecycle!Abandon, Statuses, Flagged
    <3>2. QED
      BY <3>1
  <2>6. QED
    BY <1>3, <1>6, <2>2, <2>3, <2>4, <2>5
<1>7. CASE old.status = "running"
  <2>1. CASE ev.status = "running" /\ ev.cancelled
    <3>1. Statuses' = Statuses
      BY <1>1, <1>2, <1>7, <2>1 DEF Statuses
    <3>2. Lifecycle!CancelRunning(j)
      BY <1>1, <1>2, <1>7, <2>1, <3>1 DEF Lifecycle!CancelRunning, Statuses, Flagged
    <3>3. QED
      BY <3>2
  <2>2. CASE ev.status = "running" /\ ~ ev.cancelled
    BY <1>3, <1>4, <1>7, <2>2
  <2>3. CASE ev.status # "running" /\ old.cancelled
    <3>1. ev.status = "cancelled"
      BY <1>3, <2>3
    <3>2. Flagged' = Flagged
      BY <1>1, <1>3, <2>3
    <3>3. Lifecycle!FinishCancelled(j)
      BY <1>1, <1>2, <1>7, <2>3, <3>1, <3>2 DEF Lifecycle!FinishCancelled, Statuses, Flagged
    <3>4. QED
      BY <3>3
  <2>4. CASE ev.status # "running" /\ ~ old.cancelled
    <3>1. ~ ev.cancelled /\ ev.status \in {"done", "failed"}
      BY <1>3, <1>7, <2>4 DEF Row
    <3>2. Lifecycle!Finish(j)
      BY <1>1, <1>2, <1>7, <2>4, <3>1 DEF Lifecycle!Finish, Statuses, Flagged
    <3>3. QED
      BY <3>2
  <2>5. QED
    BY <2>1, <2>2, <2>3, <2>4
<1>8. QED
  BY <1>2, <1>5, <1>6, <1>7 DEF Row

LEMMA EnqueueRefines ==
  ASSUME JobsInvariant, QuotaExact, NEW p \in Clients, EnqueueCommit(p)
  PROVE  Lifecycle!LifecycleNext
<1> PICK j \in Jobs : j = call[p].job
  BY EnqueuePut
<1>1. /\ j \in Jobs /\ row[j] = NoRow
      /\ row'[j] = Submitted(Counted(j))
      /\ \A k \in Jobs : k # j => row'[k] = row[k]
  BY EnqueuePut
<1>2. /\ Counted(j) => used[SlotOf[j]] < DailyCap
      /\ Charged' = IF Counted(j) THEN Charged \cup {j} ELSE Charged
  BY EnqueueCharges
<1>3. SlotOf[j] \in Slots
  BY <1>1, CloudJobsAssumption
<1>4. Lifecycle!Holders(SlotOf[j]) = ChargedIn(SlotOf[j])
  BY DEF Lifecycle!Holders, ChargedIn
<1>5. Counted(j) => Lifecycle!Cardinality(Lifecycle!Holders(SlotOf[j])) < DailyCap
  <2>1. \A S : Lifecycle!Cardinality(S) = Cardinality(S)
    BY DEF Cardinality, Lifecycle!Cardinality
  <2>2. QED
    BY <1>2, <1>3, <1>4, <2>1 DEF QuotaExact
<1>6. /\ row[j].status = "absent" /\ ~ row[j].cancelled
      /\ row'[j].status = "queued" /\ ~ row'[j].cancelled
  BY <1>1 DEF NoRow, Submitted
<1>7. Statuses[j] = "absent" /\ Statuses' = [ Statuses EXCEPT ![j] = "queued" ]
  BY <1>1, <1>6 DEF Statuses
<1>8. Flagged' = Flagged
  BY <1>1, <1>6 DEF Flagged
<1>9. Lifecycle!Submit(j)
  BY <1>2, <1>5, <1>7, <1>8 DEF Lifecycle!Submit, Statuses, Flagged
<1>10. QED
  BY <1>1, <1>9 DEF Lifecycle!LifecycleNext

(* Rows, revisions, leases, retries, lost answers and dead callers are an  *)
(* implementation of the plain life cycle of a job: submitted once,        *)
(* started once, settled once, a cancellation winning over the result.     *)
THEOREM LifecycleRefinement == Spec => LifecycleSpec
<1>1. Init => Lifecycle!LifecycleInit
  BY DEF Init, Lifecycle!LifecycleInit, NoRow, Charged
<1>2. JobsInvariant /\ QuotaExact /\ [Next]_vars
        => [Lifecycle!LifecycleNext]_(Lifecycle!lifecycleVars)
  <2> SUFFICES ASSUME JobsInvariant, QuotaExact, [Next]_vars
               PROVE  [Lifecycle!LifecycleNext]_(Lifecycle!lifecycleVars)
    OBVIOUS
  <2>1. CASE UNCHANGED << row, used >>
    BY <2>1 DEF Lifecycle!lifecycleVars, Charged
  <2>2. QED
    BY <2>1, RowSteps, CommitRefines, EnqueueRefines
<1>3. QED
  BY <1>1, <1>2, JobsInvariantHolds, QuotaExactHolds, PTL
     DEF Spec, LifecycleSpec, Lifecycle!LifecycleSpec
=============================================================================
