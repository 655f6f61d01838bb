\* Two evaluations whose server is killed twice; two sign-ins and two
\* requests at a time, answers lost; two runs of a harness, locked.
SPECIFICATION MCSpec
CONSTANTS
  Evals = {e1, e2}
  MaxCrashes = 2
  Sids = {s1, s2}
  Requests = {r1, r2}
  Restarts = TRUE
  Lost = TRUE
  MaxTokens = 3
  Runs = {1, 2}
  Locked = TRUE
INVARIANTS EvalsSafety SessionsSafety CardsSafety
PROPERTIES EvalsSettle CardsAdvance
CHECK_DEADLOCK FALSE
