\* Three jobs of one user, two of which count a day, two pools that may be
\* started, two threads, two faults.  With no job left the system may stop.
SPECIFICATION Spec
CONSTANTS
  j1 = j1
  j2 = j2
  j3 = j3
  alice = alice
  bob = bob
  NoPool = NoPool
  NoJob = NoJob
  Jobs = {j1, j2, j3}
  Owners = {alice}
  OwnerOf <- AllAlice
  Pools = {p1, p2}
  Threads = {t1, t2}
  PerUser = 1
  DailyCap = 2
  Kinds = {"crash", "reboot", "error", "signal", "hang"}
  MaxFaults = 2
SYMMETRY PoolSymmetry
INVARIANTS PoolSafety
PROPERTIES LifecycleSpec
CHECK_DEADLOCK FALSE
