\* Two jobs of one owner, two workers, two faults of any kind.  A process
\* may have nothing left to do, so the system may stop.
SPECIFICATION Spec
CONSTANTS
  Tokens = {w1, w2}
  Workers = {w1, w2}
  NoToken = NoToken
  NoJob = NoJob
  alice = alice
  Jobs = {j1, j2}
  Owners = {alice}
  OwnerOf <- AllAlice
  Legacy = {}
  MaxReceives = 5
  Kinds = {"crash", "error", "signal", "stall", "unanswered"}
  MaxFaults = 2
SYMMETRY WorkerSymmetry
INVARIANTS  OneAtATime
PROPERTIES LifecycleSpec
CHECK_DEADLOCK FALSE
