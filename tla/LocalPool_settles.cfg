\* A job of alice and one of bob, two threads, one fault, a hanging run.sh
\* among the kinds, and fairness.
SPECIFICATION FairSpec
CONSTANTS
  j1 = j1
  j2 = j2
  j3 = j3
  alice = alice
  bob = bob
  NoPool = NoPool
  NoJob = NoJob
  Jobs = {j1, j3}
  Owners = {alice, bob}
  OwnerOf <- BobHasOne
  Pools = {p1}
  Threads = {t1, t2}
  PerUser = 1
  DailyCap = 0
  Kinds = {"crash", "reboot", "error", "signal", "hang"}
  MaxFaults = 1
PROPERTIES BusyUserBlocksNobody CancelledSettles
CHECK_DEADLOCK FALSE
