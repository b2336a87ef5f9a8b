CONSTANTS
  Pids = {p1, p2}
  Twice = {p1}
  Smash = Smash
  MaxJobs = 2
  MaxId = 2
SPECIFICATION Spec
INVARIANT TerminatedIsDead
CHECK_DEADLOCK FALSE
