\* One job; hr-local may be killed once.
SPECIFICATION Spec
CONSTANTS
  j1 = j1
  j2 = j2
  j3 = j3
  alice = alice
  bob = bob
  NoPool = NoPool
  NoJob = NoJob
  Jobs = {j1}
  Owners = {alice}
  OwnerOf <- AllAlice
  Pools = {p1}
  Threads = {t1}
  PerUser = 1
  DailyCap = 0
  Kinds = {"crash"}
  MaxFaults = 1
INVARIANTS InterruptedIsStopped
CHECK_DEADLOCK FALSE
