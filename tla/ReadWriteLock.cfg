CONSTANTS
  Threads = {t1, t2, t3, t4}
  NoOne = NoOne
SPECIFICATION FairSpec
INVARIANTS TypeOK Exclusion ReaderCount WriteLockOwned
PROPERTIES ImplementsRWLockSpec ReaderGetsIn ReaderGetsOut
CHECK_DEADLOCK TRUE
