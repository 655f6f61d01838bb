\* A trial with a proxy, reaped by a worker; two agents, two commands that
\* read messages at once and two messages; a batch of two tasks, run twice.
SPECIFICATION MCSpec
CONSTANTS
  Proxied = TRUE
  Evaluation = TRUE
  None = None
  Agents = {a1, a2}
  Readers = {r1, r2}
  MaxSent = 2
  t1 = t1
  t2 = t2
  Tasks = {t1, t2}
  Shared = {t1}
  Need <- MCNeed
  Capacity = 3
  Workers = 2
  Throttled = FALSE
  MaxRuns = 2
INVARIANTS  CoopSafety 
PROPERTIES PassesStand EverythingEnds
CHECK_DEADLOCK FALSE
