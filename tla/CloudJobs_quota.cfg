\* Three jobs of one owner and day, a cap of one, two processes; the third
\* job is a legacy one, which the cap does not count.
SPECIFICATION Spec
CONSTANTS
  Tokens = {t1}
  NoToken = NoToken
  NoCall = NoCall
  Jobs = {j1, j2, j3}
  Legacy = {j3}
  Slots = {s1}
  s1 = s1
  SlotOf <- OneSlot
  Clients = {p1, p2}
  DailyCap = 1
  LeaseTime = 0
  MaxAttempts = 1
  MaxTime = 1
  MaxRevision = 4
SYMMETRY JobSymmetry
INVARIANTS QuotaExact
PROPERTIES LifecycleSpec
