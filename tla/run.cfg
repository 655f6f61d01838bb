\* Three invocations for two tasks, two recipes, signals; a recipe agent with
\* three turns of two calls and two builds; two connections, to one host in
\* the mode inspect and to two in the other modes; two overlapping calls and a
\* reader; conversations of three messages, replies of two actions.
SPECIFICATION MCSpec
CONSTANTS
  Commits = {c1, c2}
  Recipes = {r1, r2}
  None = None
  TaskList <- MCTasks
  MaxRuns = 3
  Signals = TRUE
  Sessions = {x1}
  HasTask = TRUE
  Compose = FALSE
  MaxTurns = 3
  MaxNudges = 1
  MaxUses = 2
  MaxBuilds = 2
  Torn = TRUE
  Conns = {1, 2}
  Hosts = {"site", "cdn"}
  Setups <- MCSetups
  BlockedUrls = {2}
  Self = {}
  Listed = {"site"}
  Blocked = {}
  Stops = TRUE
  Calls = {c1, c2}
  Readers = {r1}
  Nobody = Nobody
  MaxTries = 2
  Hangups = TRUE
  Tools = {"edit", "run"}
  MaxMessages = 3
  MaxCalls = 2
  MaxTokens = 5
  MinBudget = 2
  Rules = {"verifier_access", "test_edit", "shell_network"}
  PathRules = {"verifier_access"}
INVARIANTS  AgentSafety EgressSafety CallsSafety TranslationSafety
PROPERTIES PipelineSteps 
CHECK_DEADLOCK FALSE
