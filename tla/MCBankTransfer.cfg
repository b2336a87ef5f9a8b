CONSTANTS
  a1 = a1
  a2 = a2
  Atms = {a1, a2}
  Printer = Printer
  FeeCollector = FeeCollector
  Ids = {1, 2}
  Passwords = {"p", "q"}
  Amounts = {4, 6, 10}
  FeeRates = {5}
  Files <- TransferFiles
  Garbage <- AnyCommand
  MaxObjects = 2
  Missing = Missing
  None = None
SPECIFICATION Spec
INVARIANTS LogReplays NonNegative SnapshotConsistent 
PROPERTIES ImplementsAtomicBank
CHECK_DEADLOCK TRUE
