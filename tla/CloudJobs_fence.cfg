\* One job, three processes: claims, renewals, results, expiries and
\* cancellations of the same row race each other.
SPECIFICATION Spec
CONSTANTS
  Tokens = {t1, t2}
  NoToken = NoToken
  NoCall = NoCall
  Jobs = {j1}
  Legacy = {j1}
  Slots = {s1}
  s1 = s1
  SlotOf <- OneSlot
  Clients = {p1, p2, p3}
  DailyCap = 1
  LeaseTime = 0
  MaxAttempts = 2
  MaxTime = 1
  MaxRevision = 5
SYMMETRY JobSymmetry
INVARIANTS JobsInvariant
PROPERTIES NeverReclaimed CancellationWins LeaseRespected
