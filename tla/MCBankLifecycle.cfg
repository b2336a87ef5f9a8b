CONSTANTS
  a1 = a1
  a2 = a2
  Atms = {a1, a2}
  Printer = Printer
  FeeCollector = FeeCollector
  Ids = {1, 2}
  Passwords = {"p", "q"}
  Amounts = {4, 6, 10}
  FeeRates = {5}
  Files <- LifecycleFiles
  Garbage <- AnyCommand
  MaxObjects = 3
  Missing = Missing
  None = None
SPECIFICATION Spec
INVARIANTS TypeOK  FreedOnce UnlocksItsOwn
PROPERTIES BalancesSettled ImplementsAtomicBank
CHECK_DEADLOCK TRUE
