\* Two machines, a user, two controllers and one fault; two jobs, and a
\* migration that is started twice.
SPECIFICATION MCSpec
CONSTANTS
  Machines = {m1, m2}
  Users = {u1}
  Invocations = {i1, i2}
  None = None
  MaxSize = 1
  Runtime = 1
  Slack = 1
  Attempts = 2
  MaxJobs = 1
  MaxFaults = 1
  Jobs = {j1, j2}
  NoJob = NoJob
  MaxRuns = 2
INVARIANTS FleetSafety MigrationSafety
PROPERTIES FleetSteps  MigrationSettles
CHECK_DEADLOCK FALSE
