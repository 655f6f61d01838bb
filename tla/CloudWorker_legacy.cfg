\* The same job, cancelled while a worker drains it.
SPECIFICATION Spec
CONSTANTS
  Tokens = {w1, w2}
  Workers = {w1, w2}
  NoToken = NoToken
  NoJob = NoJob
  alice = alice
  Jobs = {j1}
  Owners = {alice}
  OwnerOf <- AllAlice
  Legacy = {j1}
  MaxReceives = 3
  Kinds = {"crash", "error", "signal", "stall", "unanswered"}
  MaxFaults = 0
INVARIANTS QueuedCancellationHolds
CHECK_DEADLOCK FALSE
