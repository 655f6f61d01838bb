\* One job, two workers, two faults of any kind (one, if the job is of the old
\* queue), and fairness.
SPECIFICATION MCSpec
CONSTANTS
  Tokens = {w1, w2}
  Workers = {w1, w2}
  NoToken = NoToken
  NoJob = NoJob
  alice = alice
  Jobs = {j1}
  Owners = {alice}
  OwnerOf <- AllAlice
  Legacy = {}
  MaxReceives = 5
  Kinds = {"crash", "error", "signal", "stall", "unanswered"}
  MaxFaults = 2
INVARIANTS AtMostOneAttempt
PROPERTIES   SettledIsDeleted
CHECK_DEADLOCK FALSE
