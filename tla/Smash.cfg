CONSTANTS
  Pids = {p1, p2, p3}
  Twice = {p1}
  Smash = Smash
  MaxJobs = 2
  MaxId = 3
SPECIFICATION FairSpec
INVARIANTS TypeOK   LastJobHasMaxId
  WaitedForIsKnown
PROPERTIES Remembered QuitEnds
CHECK_DEADLOCK FALSE
