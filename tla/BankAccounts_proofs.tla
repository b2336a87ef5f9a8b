------------------------- MODULE BankAccounts_proofs -------------------------
(***************************************************************************)
(* The accounts of Bank: what the two maps hold, that no thread uses an    *)
(* account through an iterator that another one has made stale, who        *)
(* changes a balance, and that none is overdrawn.                          *)
(***************************************************************************)
EXTENDS BankLocks_proofs

USE DEF parserVars, localVars, serviceVars, gateVars, mainVars, listLock,
        acctLocks, mapVars, moneyVars, reportVars

-----------------------------------------------------------------------------
(* The maps. *)

\* An open account exists and is not closed, and has one id.
OpenLive == \A i \in Ids : map_of_accounts[i] # None =>
              /\ map_of_accounts[i] \in 1..heap_size
              /\ ~deleted[map_of_accounts[i]]
OpenOnce == \A i, j \in Ids :
              /\ map_of_accounts[i] # None
              /\ map_of_accounts[i] = map_of_accounts[j]
              => i = j

\* What map_of_deleted_accounts holds is closed, and is in it once.
ClosedDeleted == \A i \in Ids : map_of_deleted_accounts[i] # None =>
                   deleted[map_of_deleted_accounts[i]]
ClosedOnce == \A i, j \in Ids :
                /\ map_of_deleted_accounts[i] # None
                /\ map_of_deleted_accounts[i] = map_of_deleted_accounts[j]
                => i = j

\* Every account that was created is open or closed; no other is closed.
NoneLost == \A o \in 1..heap_size :
              deleted[o] \/ \E i \in Ids : map_of_accounts[i] = o
FreshLive == \A o \in Objects : o > heap_size => ~deleted[o]

MapInv == /\ OpenLive /\ OpenOnce
          /\ ClosedDeleted /\ ClosedOnce
          /\ NoneLost /\ FreshLive

\* A service is in the middle of its iteration only while it has the list.
CursorInv ==
  /\ cursor[Printer] # 0 => pc[Printer] = "print"
  /\ cursor[FeeCollector] # 0 =>
       pc[FeeCollector] \in {"next", "gain", "deduct", "fee_log", "fee_unlock"}

AccountInv == HoldInv /\ MapInv /\ CursorInv /\ PointersLive

\* The lists are empty at first, and nobody uses them.
LEMMA InitAccounts == Init => MapInv /\ CursorInv /\ PointersLive
<1> SUFFICES ASSUME Init PROVE MapInv /\ CursorInv /\ PointersLive
  OBVIOUS
<1> USE ThreadsAssumption
<1>1. MapInv
  BY MaxObjectsAssumption
  DEF Init, MapInv, OpenLive, OpenOnce, ClosedDeleted, ClosedOnce, NoneLost,
     FreshLive
<1>2. CursorInv
  BY DEF Init, CursorInv, Services
<1>3. PointersLive
  BY DEF Init, PointersLive, UsesObj, UsesDst, Threads, Services
<1> QED
  BY <1>1, <1>2, <1>3

\* Only create_account and closing_account change the maps.
LEMMA MapsChange ==
  ASSUME [Next]_vars
  PROVE  \/ UNCHANGED mapVars
         \/ \E t \in Atms : CreateAccount(t) \/ CloseAccount(t)
<1>1. ASSUME NEW t \in Atms, ReadOnList(t) PROVE UNCHANGED mapVars
  BY <1>1 DEF ReadOnList, CheckGate, PassGate, EnterList, LockTransfer, Find,
     LockSource, LockDestination, Load, Store, LoadDestination, Credit,
     UnlockSource, UnlockDestination, UnlockTransfer, LeaveList
<1>2. ASSUME NEW t \in Atms,
             FindToClose(t) \/ LockToClose(t) \/ UnlockAccount(t)
      PROVE  UNCHANGED mapVars
  BY <1>2 DEF FindToClose, LockToClose, UnlockAccount
<1>3. ASSUME NEW t \in Atms \cup {Printer}, AroundList(t)
      PROVE  UNCHANGED mapVars
  BY <1>3 DEF AroundList, RaiseFlag, LockListForWrite, UnlockListFromWrite,
     ClearFlag, OpenGate
<1>4. ASSUME NEW t \in Atms, ReadLine(t) \/ EndOfFile(t) \/ Log(t)
      PROVE  UNCHANGED mapVars
  BY <1>4 DEF ReadLine, EndOfFile, Log
<1>5. ASSUME PrinterStep PROVE UNCHANGED mapVars
  BY <1>3, <1>5 DEF PrinterStep, Loop, PrintAccount, PrintBank
<1>6. ASSUME FeeStep PROVE UNCHANGED mapVars
  BY <1>6 DEF FeeStep, Loop, DrawFee, EnterListForFees, LockToCharge, GainFee,
     DeductFee, LogFee, UnlockCharged, LeaveListAfterFees
<1>7. ASSUME MainStep PROVE UNCHANGED mapVars
  BY <1>7 DEF MainStep, JoinAtms, JoinFeeCollector, JoinPrinter, Join
<1>8. CASE UNCHANGED vars
  BY <1>8 DEF vars
<1> QED
  BY <1>1, <1>2, <1>3, <1>4, <1>5, <1>6, <1>7, <1>8
  DEF Next, AtmStep, ChangeList, Finished

\* A thread that changes the list is alone on it: nobody else uses an
\* account, and no service is in the middle of its iteration.
LEMMA AloneOnList ==
  ASSUME AccountInv, NEW t \in Atms,
         pc[t] \in {"create", "w_find", "w_lock", "w_close"}
  PROVE  /\ \A s \in Threads \ {t} : ~UsesObj(s) /\ ~UsesDst(s)
         /\ \A s \in Services : cursor[s] = 0 /\ ~UsesObj(s)
         /\ ~UsesDst(t)
<1>1. /\ list_writer = t /\ list_writer # None /\ list_readers = {}
      /\ t \in Threads /\ t \notin Services
  BY ThreadsAssumption
  DEF AccountInv, HoldInv, ListLocked, Writes, WriteSteps, Threads
<1>2. \A s \in Threads \ {t} : ~Reads(s) /\ ~Writes(s)
  BY <1>1 DEF AccountInv, HoldInv, ListLocked
<1>3. ASSUME NEW s \in Threads \ {t} PROVE ~UsesObj(s) /\ ~UsesDst(s)
  <2>1. CASE pc[s] = "log"
    BY <1>2, <2>1, ThreadsAssumption
    DEF Reads, Writes, AccountInv, HoldInv, Kinds, PrinterSteps, FeeSteps,
        Threads, Services
  <2>2. CASE pc[s] # "log"
    BY <1>2, <2>2 DEF Reads, Writes, ReadSteps, WriteSteps, UsesObj, UsesDst
  <2> QED
    BY <2>1, <2>2
<1>4. ASSUME NEW s \in Services PROVE cursor[s] = 0 /\ ~UsesObj(s)
  BY <1>1, <1>2, <1>3
  DEF AccountInv, CursorInv, Services, Threads, Reads, Writes, ReadSteps,
      WriteSteps
<1> QED
  BY <1>1, <1>3, <1>4 DEF UsesDst

\* create_account and closing_account keep the maps in order.
LEMMA StepMaps == ASSUME AccountInv, [Next]_vars PROVE MapInv'
<1> USE DEF AccountInv, MapInv, OpenLive, OpenOnce, ClosedDeleted,
        ClosedOnce, NoneLost, FreshLive
<1>1. CASE UNCHANGED mapVars
  BY <1>1
<1>2. ASSUME NEW t \in Atms, CreateAccount(t), ~NotOpen(cmd[t].id)
      PROVE  MapInv'
  BY <1>2 DEF CreateAccount
<1>3. ASSUME NEW t \in Atms, CreateAccount(t), NotOpen(cmd[t].id)
      PROVE  MapInv'
  <2> DEFINE o == heap_size + 1
             i == cmd[t].id
  <2>1. /\ heap_size \in Nat /\ i \in Ids /\ o \in Objects
        /\ o = heap_size + 1 /\ o \in Int /\ o # None
        /\ map_of_accounts \in [Ids -> Objects \cup {None}]
    BY <1>3, CmdType, MaxObjectsAssumption, ThreadsAssumption
    DEF CreateAccount, HoldInv, TypeInv, TypeOK, Objects
  <2>2. map_of_accounts[i] = None
    BY <1>3, <2>1 DEF NotOpen
  <2>3. /\ map_of_accounts' = [map_of_accounts EXCEPT ![i] = o]
        /\ heap_size' = o
        /\ UNCHANGED <<deleted, map_of_deleted_accounts>>
    BY <1>3, <2>2 DEF CreateAccount, Insert
  <2> HIDE DEF o, i
  <2>4. ~deleted[o]
    BY <2>1
  <2>5. \A j \in Ids : map_of_accounts[j] # o
    BY <2>1
  <2>6. \A x \in 1..o : x \in 1..heap_size \/ x = o
    BY <2>1
  <2>7. None \notin 1..heap_size
    BY <2>1, MaxObjectsAssumption, ThreadsAssumption
    DEF HoldInv, TypeInv, TypeOK, Objects
  <2>20. OpenLive'
    BY <2>1, <2>3, <2>4, <2>5, <2>6
  <2>21. OpenOnce'
    BY <2>1, <2>3, <2>4, <2>5, <2>6
  <2>22. ClosedDeleted'
    BY <2>1, <2>3, <2>4, <2>5, <2>6
  <2>23. ClosedOnce'
    BY <2>1, <2>3, <2>4, <2>5, <2>6
  <2>24. NoneLost'
    <3> SUFFICES ASSUME NEW x \in 1..o
                 PROVE  deleted'[x] \/ \E j \in Ids : map_of_accounts'[j] = x
      BY <2>3
    <3>1. CASE x = o
      BY <2>1, <2>3, <3>1
    <3>2. CASE x \in 1..heap_size /\ ~deleted[x]
      <4>1. PICK j \in Ids : map_of_accounts[j] = x
        BY <3>2
      <4>2. j # i
        BY <2>2, <2>7, <3>2, <4>1
      <4> QED
        BY <2>1, <2>3, <4>1, <4>2
    <3> QED
      BY <2>3, <2>6, <3>1, <3>2
  <2>25. FreshLive'
    BY <2>1, <2>3, <2>4, <2>5, <2>6
  <2> QED
    BY <2>20, <2>21, <2>22, <2>23, <2>24, <2>25
<1>4. ASSUME NEW t \in Atms, CloseAccount(t) PROVE MapInv'
  <2> DEFINE o == obj[t]
             i == cmd[t].id
  <2>1. /\ i \in Ids /\ o \in Objects /\ o # None
        /\ map_of_accounts \in [Ids -> Objects \cup {None}]
        /\ map_of_deleted_accounts \in [Ids -> Objects \cup {None}]
        /\ deleted \in [Objects -> BOOLEAN]
    BY <1>4, CmdType, ThreadsAssumption
    DEF CloseAccount, Go, HoldInv, TypeInv, TypeOK, WellPointed, FollowsObj,
        Threads
  <2>2. map_of_accounts[i] = o /\ ~deleted[o]
    BY <1>4 DEF CloseAccount, Go, PointersLive, UsesObj, InList
  <2>3. CASE UNCHANGED mapVars
    BY <2>3
  <2>4. CASE
          /\ map_of_deleted_accounts' = Insert(map_of_deleted_accounts, i, o)
          /\ deleted' = [deleted EXCEPT ![o] = TRUE]
          /\ map_of_accounts' = [map_of_accounts EXCEPT ![i] = None]
          /\ heap_size' = heap_size
    <3> HIDE DEF o, i
    <3>1. \A j \in Ids : /\ j = i => map_of_accounts'[j] = None
                         /\ j # i => map_of_accounts'[j] = map_of_accounts[j]
      BY <2>1, <2>4
    <3>2. \A x \in Objects : deleted'[x] <=> deleted[x] \/ x = o
      BY <2>1, <2>4
    <3>3. \A j \in Ids :
            \/ map_of_deleted_accounts'[j] = map_of_deleted_accounts[j]
            \/ j = i /\ map_of_deleted_accounts'[j] = o
      BY <2>1, <2>4 DEF Insert
    <3>4. \A j \in Ids : j # i => map_of_accounts[j] # o
      BY <2>1, <2>2
    <3>5. \A j \in Ids : map_of_deleted_accounts[j] # o
      BY <2>1, <2>2
    <3>6. 1..heap_size \subseteq Objects
      BY MaxObjectsAssumption DEF HoldInv, TypeInv, TypeOK, Objects
    <3>7. o \in 1..heap_size
      BY <2>1, <2>2
    <3>8. heap_size \in Nat
      BY MaxObjectsAssumption DEF HoldInv, TypeInv, TypeOK
    <3>20. OpenLive'
      BY <2>1, <2>4, <3>1, <3>2, <3>3, <3>4, <3>5, <3>6, <3>7
    <3>21. OpenOnce'
      BY <2>1, <2>4, <3>1, <3>2, <3>3, <3>4, <3>5, <3>6, <3>7
    <3>22. ClosedDeleted'
      BY <2>1, <2>4, <3>1, <3>2, <3>3, <3>4, <3>5, <3>6, <3>7
    <3>23. ClosedOnce'
      BY <2>1, <2>4, <3>1, <3>2, <3>3, <3>4, <3>5, <3>6, <3>7
    <3>24. NoneLost'
      <4> SUFFICES ASSUME NEW x \in 1..heap_size, ~deleted'[x]
                   PROVE  \E j \in Ids : map_of_accounts'[j] = x
        BY <2>4
      <4>1. ~deleted[x] /\ x # o
        BY <3>2, <3>6
      <4>2. PICK j \in Ids : map_of_accounts[j] = x
        BY <4>1
      <4> QED
        BY <2>2, <3>1, <4>1, <4>2
    <3>25. FreshLive'
      BY <2>4, <3>2, <3>7, <3>8
    <3> QED
      BY <3>20, <3>21, <3>22, <3>23, <3>24, <3>25
  <2> QED
    BY <1>4, <2>3, <2>4 DEF CloseAccount
<1> QED
  BY <1>1, <1>2, <1>3, <1>4, MapsChange

\* Every step keeps CursorInv.
LEMMA StepCursor ==
  ASSUME TypeInv, Kinds, CursorInv, [Next]_vars
  PROVE  CursorInv'
<1> USE ThreadsAssumption
    DEF CursorInv, TypeInv, TypeOK, Kinds, FeeSteps, Go, Threads, Services
<1>1. ASSUME NEW t \in Atms, ReadLine(t) PROVE CursorInv'
  BY <1>1 DEF ReadLine
<1>2. ASSUME NEW t \in Atms, EndOfFile(t) PROVE CursorInv'
  BY <1>2 DEF EndOfFile
<1>3. ASSUME NEW t \in Atms, Log(t) PROVE CursorInv'
  BY <1>3 DEF Log
<1>4. ASSUME NEW t \in Atms, CheckGate(t) PROVE CursorInv'
  BY <1>4 DEF CheckGate
<1>5. ASSUME NEW t \in Atms, PassGate(t) PROVE CursorInv'
  BY <1>5 DEF PassGate
<1>6. ASSUME NEW t \in Atms, EnterList(t) PROVE CursorInv'
  BY <1>6 DEF EnterList, LockListForRead
<1>7. ASSUME NEW t \in Atms, LockTransfer(t) PROVE CursorInv'
  BY <1>7 DEF LockTransfer
<1>8. ASSUME NEW t \in Atms, Find(t) PROVE CursorInv'
  BY <1>8 DEF Find
<1>9. ASSUME NEW t \in Atms, LockSource(t) PROVE CursorInv'
  BY <1>9 DEF LockSource
<1>10. ASSUME NEW t \in Atms, LockDestination(t) PROVE CursorInv'
  BY <1>10 DEF LockDestination
<1>11. ASSUME NEW t \in Atms, Load(t) PROVE CursorInv'
  BY <1>11 DEF Load
<1>12. ASSUME NEW t \in Atms, Store(t) PROVE CursorInv'
  BY <1>12 DEF Store
<1>13. ASSUME NEW t \in Atms, LoadDestination(t) PROVE CursorInv'
  BY <1>13 DEF LoadDestination
<1>14. ASSUME NEW t \in Atms, Credit(t) PROVE CursorInv'
  BY <1>14 DEF Credit
<1>15. ASSUME NEW t \in Atms, UnlockSource(t) PROVE CursorInv'
  BY <1>15 DEF UnlockSource
<1>16. ASSUME NEW t \in Atms, UnlockDestination(t) PROVE CursorInv'
  BY <1>16 DEF UnlockDestination
<1>17. ASSUME NEW t \in Atms, UnlockTransfer(t) PROVE CursorInv'
  BY <1>17 DEF UnlockTransfer
<1>18. ASSUME NEW t \in Atms, LeaveList(t) PROVE CursorInv'
  BY <1>18 DEF LeaveList, UnlockListFromRead
<1>19. ASSUME NEW t \in Atms, CreateAccount(t) PROVE CursorInv'
  BY <1>19 DEF CreateAccount
<1>20. ASSUME NEW t \in Atms, FindToClose(t) PROVE CursorInv'
  BY <1>20 DEF FindToClose
<1>21. ASSUME NEW t \in Atms, LockToClose(t) PROVE CursorInv'
  BY <1>21 DEF LockToClose
<1>22. ASSUME NEW t \in Atms, CloseAccount(t) PROVE CursorInv'
  BY <1>22 DEF CloseAccount
<1>23. ASSUME NEW t \in Atms, UnlockAccount(t) PROVE CursorInv'
  BY <1>23 DEF UnlockAccount
<1>24. ASSUME NEW t \in Atms \cup {Printer}, RaiseFlag(t) PROVE CursorInv'
  BY <1>24 DEF RaiseFlag
<1>25. ASSUME NEW t \in Atms \cup {Printer}, LockListForWrite(t)
       PROVE  CursorInv'
  BY <1>25 DEF LockListForWrite
<1>26. ASSUME NEW t \in Atms \cup {Printer}, UnlockListFromWrite(t)
       PROVE  CursorInv'
  BY <1>26 DEF UnlockListFromWrite
<1>27. ASSUME NEW t \in Atms \cup {Printer}, ClearFlag(t) PROVE CursorInv'
  BY <1>27 DEF ClearFlag
<1>28. ASSUME NEW t \in Atms \cup {Printer}, OpenGate(t) PROVE CursorInv'
  BY <1>28 DEF OpenGate
<1>29. ASSUME NEW t \in Services, Loop(t) PROVE CursorInv'
  BY <1>29 DEF Loop
<1>30. ASSUME PrintAccount PROVE CursorInv'
  BY <1>30 DEF PrintAccount
<1>31. ASSUME PrintBank PROVE CursorInv'
  BY <1>31 DEF PrintBank
<1>32. ASSUME DrawFee PROVE CursorInv'
  BY <1>32 DEF DrawFee
<1>33. ASSUME EnterListForFees PROVE CursorInv'
  BY <1>33 DEF EnterListForFees, LockListForRead
<1>34. ASSUME LockToCharge PROVE CursorInv'
  BY <1>34 DEF LockToCharge
<1>35. ASSUME GainFee PROVE CursorInv'
  BY <1>35 DEF GainFee
<1>36. ASSUME DeductFee PROVE CursorInv'
  BY <1>36 DEF DeductFee
<1>37. ASSUME LogFee PROVE CursorInv'
  BY <1>37 DEF LogFee
<1>38. ASSUME UnlockCharged PROVE CursorInv'
  BY <1>38 DEF UnlockCharged
<1>39. ASSUME LeaveListAfterFees PROVE CursorInv'
  BY <1>39 DEF LeaveListAfterFees, UnlockListFromRead
<1>40. ASSUME JoinAtms PROVE CursorInv'
  BY <1>40 DEF JoinAtms, Join
<1>41. ASSUME JoinFeeCollector PROVE CursorInv'
  BY <1>41 DEF JoinFeeCollector, Join
<1>42. ASSUME JoinPrinter PROVE CursorInv'
  BY <1>42 DEF JoinPrinter, Join
<1>43. CASE UNCHANGED vars
  BY <1>43 DEF vars
<1> HIDE DEF CursorInv, TypeInv, TypeOK, Kinds, FeeSteps, Go, Threads
<1> QED
  BY <1>1, <1>2, <1>3, <1>4, <1>5, <1>6, <1>7, <1>8, <1>9, <1>10, <1>11,
     <1>12, <1>13, <1>14, <1>15, <1>16, <1>17, <1>18, <1>19, <1>20, <1>21,
     <1>22, <1>23, <1>24, <1>25, <1>26, <1>27, <1>28, <1>29, <1>30, <1>31,
     <1>32, <1>33, <1>34, <1>35, <1>36, <1>37, <1>38, <1>39, <1>40, <1>41,
     <1>42, <1>43
  DEF Next, AtmStep, PrinterStep, FeeStep, MainStep, ReadOnList, ChangeList,
      AroundList, Finished, Services

\* Every step keeps PointersLive.
LEMMA StepPointers ==
  ASSUME AccountInv, [Next]_vars
  PROVE  PointersLive'
<1> USE ThreadsAssumption
    DEF PointersLive, UsesObj, UsesDst, InList, AccountInv, HoldInv, TypeInv,
        TypeOK, Kinds, PrinterSteps, FeeSteps, LookupSteps, TransferSteps,
        ChangeSteps, CloseSteps, ListReaders, ListWriters, Op, Go, Threads,
        Services
<1>1. ASSUME NEW t \in Atms, ReadLine(t) PROVE PointersLive'
  BY <1>1 DEF ReadLine, Dispatch
<1>2. ASSUME NEW t \in Atms, EndOfFile(t) PROVE PointersLive'
  BY <1>2 DEF EndOfFile
<1>3. ASSUME NEW t \in Atms, Log(t) PROVE PointersLive'
  BY <1>3 DEF Log
<1>4. ASSUME NEW t \in Atms, CheckGate(t) PROVE PointersLive'
  BY <1>4 DEF CheckGate
<1>5. ASSUME NEW t \in Atms, PassGate(t) PROVE PointersLive'
  BY <1>5 DEF PassGate
<1>6. ASSUME NEW t \in Atms, EnterList(t) PROVE PointersLive'
  BY <1>6 DEF EnterList, LockListForRead
<1>7. ASSUME NEW t \in Atms, LockTransfer(t) PROVE PointersLive'
  BY <1>7 DEF LockTransfer
<1>8. ASSUME NEW t \in Atms, Find(t) PROVE PointersLive'
  <2>1. \A i \in Ids :
          map_of_accounts[i] # None => InList(map_of_accounts[i], i)
    BY DEF MapInv, OpenLive
  <2>2. cmd[t].id \in Ids /\ cmd[t].dst \in Ids
    BY CmdType
  <2> DEFINE src == map_of_accounts[cmd[t].id]
             to == IF Op(t) = "T" THEN map_of_accounts[cmd[t].dst] ELSE src
  <2>3. /\ \A s \in Threads \ {t} : /\ pc'[s] = pc[s]
                                    /\ obj'[s] = obj[s] /\ dst'[s] = dst[s]
        /\ obj'[t] = src /\ dst'[t] = to
        /\ pc'[t] = IF None \in {src, to} THEN Leave(t) ELSE "lock_src"
        /\ UNCHANGED <<cmd, cursor, map_of_accounts, deleted>>
    BY <1>8 DEF Find
  <2>4. \A s \in Threads \ {t} : (UsesObj(s)' <=> UsesObj(s))
                               /\ (UsesDst(s)' <=> UsesDst(s))
    BY <2>3
  <2>5. /\ UsesObj(t)' => InList(src, cmd[t].id)
        /\ UsesDst(t)' => InList(to, cmd[t].dst)
    <3>1. CASE None \in {src, to}
      BY <2>3, <3>1 DEF Leave
    <3>2. CASE None \notin {src, to}
      BY <2>1, <2>2, <2>3, <3>2
    <3> QED
      BY <3>1, <3>2
  <2>6. \A s \in Atms \ {t} : /\ obj'[s] = obj[s] /\ dst'[s] = dst[s]
                             /\ (UsesObj(s)' <=> UsesObj(s))
                             /\ (UsesDst(s)' <=> UsesDst(s))
    BY <2>3, <2>4
  <2>7. \A s \in Services : obj'[s] = obj[s] /\ (UsesObj(s)' <=> UsesObj(s))
    BY <2>3, <2>4
  <2>8. PointersLive
    BY DEF AccountInv
  <2> HIDE DEF src, to, UsesObj, UsesDst, AccountInv
  <2> QED
    BY <2>3, <2>5, <2>6, <2>7, <2>8
<1>9. ASSUME NEW t \in Atms, LockSource(t) PROVE PointersLive'
  BY <1>9 DEF LockSource
<1>10. ASSUME NEW t \in Atms, LockDestination(t) PROVE PointersLive'
  BY <1>10 DEF LockDestination
<1>11. ASSUME NEW t \in Atms, Load(t) PROVE PointersLive'
  BY <1>11 DEF Load
<1>12. ASSUME NEW t \in Atms, Store(t) PROVE PointersLive'
  BY <1>12 DEF Store
<1>13. ASSUME NEW t \in Atms, LoadDestination(t) PROVE PointersLive'
  BY <1>13 DEF LoadDestination
<1>14. ASSUME NEW t \in Atms, Credit(t) PROVE PointersLive'
  BY <1>14 DEF Credit
<1>15. ASSUME NEW t \in Atms, UnlockSource(t) PROVE PointersLive'
  BY <1>15 DEF UnlockSource
<1>16. ASSUME NEW t \in Atms, UnlockDestination(t) PROVE PointersLive'
  BY <1>16 DEF UnlockDestination
<1>17. ASSUME NEW t \in Atms, UnlockTransfer(t) PROVE PointersLive'
  BY <1>17 DEF UnlockTransfer
<1>18. ASSUME NEW t \in Atms, LeaveList(t) PROVE PointersLive'
  BY <1>18 DEF LeaveList, UnlockListFromRead, ForgetLocals
<1>19. ASSUME NEW t \in Atms, CreateAccount(t) PROVE PointersLive'
  <2>1. pc[t] = "create" /\ t \in Threads
    BY <1>19 DEF CreateAccount
  <2>2. /\ \A s \in Threads \ {t} : ~UsesObj(s) /\ ~UsesDst(s)
        /\ \A s \in Services : cursor[s] = 0 /\ ~UsesObj(s)
        /\ ~UsesDst(t)
    BY <2>1, AloneOnList
  <2>3. /\ \A s \in Threads \ {t} : pc'[s] = pc[s]
        /\ cmd' = cmd /\ cursor' = cursor
    BY <1>19 DEF CreateAccount
  <2>4. /\ \A s \in Threads \ {t} : ~UsesObj(s)' /\ ~UsesDst(s)'
        /\ \A s \in Services : cursor'[s] = 0 /\ ~UsesObj(s)'
    BY <2>1, <2>2, <2>3
  <2>5. ASSUME UsesObj(t)' PROVE InList(obj[t], cmd[t].id)'
    <3> DEFINE o == heap_size + 1
               i == cmd[t].id
    <3>1. NotOpen(i) /\ i \in Ids
      BY <1>19, <2>5, CmdType DEF CreateAccount
    <3>5. /\ heap_size \in Nat /\ heap_size < MaxObjects
          /\ map_of_accounts \in [Ids -> Objects \cup {None}]
          /\ obj \in [Threads -> Objects \cup {None}]
      BY <1>19, <3>1, MaxObjectsAssumption DEF CreateAccount
    <3>6. o \in Objects /\ o # None /\ o > heap_size
      BY <3>5, MaxObjectsAssumption DEF Objects
    <3>2. map_of_accounts[i] = None
      BY <3>1 DEF NotOpen, MapInv, OpenLive
    <3>3. /\ map_of_accounts' = [map_of_accounts EXCEPT ![i] = o]
          /\ obj' = [obj EXCEPT ![t] = o]
          /\ deleted' = deleted
      BY <1>19, <3>1, <3>2 DEF CreateAccount, Insert
    <3> HIDE DEF o, i
    <3>4. ~deleted[o]
      BY <3>6 DEF MapInv, FreshLive
    <3>7. obj'[t] = o /\ map_of_accounts'[i] = o /\ cmd'[t].id = i
      BY <2>1, <2>3, <3>1, <3>3, <3>5 DEF i
    <3> HIDE DEF UsesObj, AccountInv
    <3> QED
      BY <3>3, <3>4, <3>6, <3>7
  <2>6. ~UsesDst(t)'
    BY <1>19 DEF CreateAccount
  <2> QED
    <3> HIDE DEF UsesObj, UsesDst, InList, AccountInv
    <3>1. ASSUME NEW s \in Atms
          PROVE  /\ UsesObj(s)' => InList(obj[s], cmd[s].id)'
                 /\ UsesDst(s)' => InList(dst[s], cmd[s].dst)'
      BY <2>4, <2>5, <2>6
    <3>2. \A s \in Services : ~UsesObj(s)' /\ cursor'[s] = 0
      BY <2>4
    <3> QED
      BY <3>1, <3>2
<1>20. ASSUME NEW t \in Atms, FindToClose(t) PROVE PointersLive'
  <2>1. \A i \in Ids :
          map_of_accounts[i] # None => InList(map_of_accounts[i], i)
    BY DEF MapInv, OpenLive
  <2>2. cmd[t].id \in Ids /\ cmd[t].dst \in Ids
    BY CmdType
  <2>3. /\ pc[t] = "w_find" /\ t \in Threads
        /\ pc'[t] \in {"w_unlock_list", "w_lock"}
        /\ pc'[t] = "w_lock" => obj'[t] = map_of_accounts[cmd[t].id]
                              /\ obj'[t] # None
        /\ \A s \in Threads \ {t} : pc'[s] = pc[s] /\ obj'[s] = obj[s]
        /\ UNCHANGED <<cmd, dst, cursor, map_of_accounts, deleted>>
    BY <1>20 DEF FindToClose
  <2>4. ASSUME NEW s \in Atms
        PROVE  /\ UsesObj(s)' => InList(obj[s], cmd[s].id)'
               /\ UsesDst(s)' => InList(dst[s], cmd[s].dst)'
    <3>1. CASE s = t
      BY <2>1, <2>2, <2>3, <3>1
    <3>2. CASE s # t
      BY <2>3, <3>2
    <3> QED
      BY <3>1, <3>2
  <2>5. ASSUME NEW s \in Services
        PROVE  /\ UsesObj(s)' => InList(obj[s], cursor[s])'
               /\ cursor'[s] # 0 => map_of_accounts'[cursor'[s]] # None
    BY <2>3
  <2> QED
    BY <2>4, <2>5
<1>21. ASSUME NEW t \in Atms, LockToClose(t) PROVE PointersLive'
  BY <1>21 DEF LockToClose
<1>22. ASSUME NEW t \in Atms, CloseAccount(t) PROVE PointersLive'
  <2>1. pc[t] = "w_close" /\ t \in Threads
    BY <1>22 DEF CloseAccount
  <2>2. /\ \A s \in Threads \ {t} : ~UsesObj(s) /\ ~UsesDst(s)
        /\ \A s \in Services : cursor[s] = 0 /\ ~UsesObj(s)
        /\ ~UsesDst(t)
    BY <2>1, AloneOnList
  <2>3. /\ \A s \in Threads \ {t} : pc'[s] = pc[s]
        /\ cmd' = cmd /\ cursor' = cursor
    BY <1>22 DEF CloseAccount
  <2>4. /\ \A s \in Threads \ {t} : ~UsesObj(s)' /\ ~UsesDst(s)'
        /\ \A s \in Services : cursor'[s] = 0 /\ ~UsesObj(s)'
    BY <2>1, <2>2, <2>3
  <2>5. ~UsesObj(t)' /\ ~UsesDst(t)'
    BY <1>22 DEF CloseAccount
  <2> QED
    BY <2>4, <2>5
<1>23. ASSUME NEW t \in Atms, UnlockAccount(t) PROVE PointersLive'
  BY <1>23 DEF UnlockAccount
<1>24. ASSUME NEW t \in Atms \cup {Printer}, RaiseFlag(t) PROVE PointersLive'
  BY <1>24 DEF RaiseFlag
<1>25. ASSUME NEW t \in Atms \cup {Printer}, LockListForWrite(t)
       PROVE  PointersLive'
  BY <1>25 DEF LockListForWrite, AtWork
<1>26. ASSUME NEW t \in Atms \cup {Printer}, UnlockListFromWrite(t)
       PROVE  PointersLive'
  BY <1>26 DEF UnlockListFromWrite
<1>27. ASSUME NEW t \in Atms \cup {Printer}, ClearFlag(t) PROVE PointersLive'
  BY <1>27 DEF ClearFlag
<1>28. ASSUME NEW t \in Atms \cup {Printer}, OpenGate(t) PROVE PointersLive'
  BY <1>28 DEF OpenGate, ForgetLocals
<1>29. ASSUME NEW t \in Services, Loop(t) PROVE PointersLive'
  BY <1>29 DEF Loop
<1>30. ASSUME PrintAccount PROVE PointersLive'
  BY <1>30 DEF PrintAccount, IsNext, Ahead
<1>31. ASSUME PrintBank PROVE PointersLive'
  BY <1>31 DEF PrintBank
<1>32. ASSUME DrawFee PROVE PointersLive'
  BY <1>32 DEF DrawFee
<1>33. ASSUME EnterListForFees PROVE PointersLive'
  BY <1>33 DEF EnterListForFees, LockListForRead
<1>34. ASSUME LockToCharge PROVE PointersLive'
  <2>1. PICK i \in Ids : /\ IsNext(i, FeeCollector)
                         /\ cursor' = [cursor EXCEPT ![FeeCollector] = i]
                         /\ obj' =
                              [obj EXCEPT ![FeeCollector] = map_of_accounts[i]]
    BY <1>34 DEF LockToCharge
  <2>2. InList(map_of_accounts[i], i)
    BY <2>1 DEF IsNext, Ahead, MapInv, OpenLive
  <2> QED
    BY <1>34, <2>1, <2>2 DEF LockToCharge
<1>35. ASSUME GainFee PROVE PointersLive'
  BY <1>35 DEF GainFee
<1>36. ASSUME DeductFee PROVE PointersLive'
  BY <1>36 DEF DeductFee
<1>37. ASSUME LogFee PROVE PointersLive'
  BY <1>37 DEF LogFee
<1>38. ASSUME UnlockCharged PROVE PointersLive'
  BY <1>38 DEF UnlockCharged, ForgetLocals
<1>39. ASSUME LeaveListAfterFees PROVE PointersLive'
  BY <1>39 DEF LeaveListAfterFees, UnlockListFromRead
<1>40. ASSUME JoinAtms PROVE PointersLive'
  BY <1>40 DEF JoinAtms, Join
<1>41. ASSUME JoinFeeCollector PROVE PointersLive'
  BY <1>41 DEF JoinFeeCollector, Join
<1>42. ASSUME JoinPrinter PROVE PointersLive'
  BY <1>42 DEF JoinPrinter, Join
<1>43. CASE UNCHANGED vars
  BY <1>43 DEF vars
<1> HIDE DEF PointersLive, UsesObj, UsesDst, InList, AccountInv, HoldInv,
   TypeInv, TypeOK, Kinds, PrinterSteps, FeeSteps, LookupSteps, TransferSteps,
   ChangeSteps, CloseSteps, ListReaders, ListWriters, Op, Go, Threads
<1> QED
  BY <1>1, <1>2, <1>3, <1>4, <1>5, <1>6, <1>7, <1>8, <1>9, <1>10, <1>11,
     <1>12, <1>13, <1>14, <1>15, <1>16, <1>17, <1>18, <1>19, <1>20, <1>21,
     <1>22, <1>23, <1>24, <1>25, <1>26, <1>27, <1>28, <1>29, <1>30, <1>31,
     <1>32, <1>33, <1>34, <1>35, <1>36, <1>37, <1>38, <1>39, <1>40, <1>41,
     <1>42, <1>43
  DEF Next, AtmStep, PrinterStep, FeeStep, MainStep, ReadOnList, ChangeList,
      AroundList, Finished, Services

-----------------------------------------------------------------------------

\* AccountInv holds in every reachable state.
THEOREM AccountInvariance == Spec => []AccountInv
<1>1. Init => MapInv /\ CursorInv /\ PointersLive
  BY InitAccounts
<1>2. HoldInv /\ MapInv /\ CursorInv /\ PointersLive /\ [Next]_vars
        => MapInv' /\ CursorInv' /\ PointersLive'
  BY StepMaps, StepCursor, StepPointers DEF AccountInv, HoldInv
<1> QED
  BY HoldInvariance, <1>1, <1>2, PTL DEF Spec, AccountInv

\* Whenever a thread uses an account, it is the one in the list under the
\* id it looked up, and not closed: PointersLive.
THEOREM PointersAreLive == Spec => []PointersLive
BY AccountInvariance, PTL DEF AccountInv

\* Whatever a thread unlocks, it holds: UnlocksItsOwn.
THEOREM UnlocksAreOwn == Spec => []UnlocksItsOwn
<1>1. AccountInv => UnlocksItsOwn
  <2> SUFFICES ASSUME AccountInv, NEW t \in Threads
               PROVE  /\ pc[t] \in {"unlock_list", "next"} => t \in list_readers
                      /\ pc[t] = "w_unlock_list" => list_writer = t
                      /\ pc[t] = "unlock_transfer" => transfer_lock = t
                      /\ pc[t] = "unlock_src" =>
                           IF Op(t) = "B" THEN t \in acct_readers[obj[t]]
                                          ELSE acct_writer[obj[t]] = t
                      /\ pc[t] = "unlock_dst" => acct_writer[dst[t]] = t
                      /\ pc[t] \in {"w_unlock_account", "fee_unlock"} =>
                           acct_writer[obj[t]] = t
    BY DEF UnlocksItsOwn
  <2>1. HoldInv
    BY DEF AccountInv
  <2>2. /\ pc[t] \in {"unlock_list", "next"} => t \in list_readers
        /\ pc[t] = "w_unlock_list" => list_writer = t
    BY <2>1 DEF HoldInv, ListLocked, Reads, Writes, ReadSteps, WriteSteps
  <2>3. /\ pc[t] \in {"unlock_src", "unlock_dst", "unlock_transfer"}
             => t \in Atms
        /\ pc[t] \in {"unlock_dst", "unlock_transfer"} => Op(t) = "T"
        /\ pc[t] = "w_unlock_account" => ~Checks(t)
        /\ pc[t] = "fee_unlock" => t = FeeCollector
    BY <2>1
    DEF HoldInv, Kinds, PrinterSteps, FeeSteps, AtmSteps, TransferSteps,
        ChangeSteps, ListWriters, Threads, Services, Checks
  <2>4. pc[t] = "unlock_transfer" => transfer_lock = t
    BY <2>1, <2>3
    DEF HoldInv, TransferLocked, TransferLockSteps, Transfers
  <2>5. CASE pc[t] = "unlock_src"
    <3>1. obj[t] \in Objects
      BY <2>1, <2>3, <2>5
      DEF AccountInv, PointersLive, UsesObj, InList, HoldInv, TypeInv, TypeOK
    <3> QED
      BY <2>1, <2>2, <2>3, <2>4, <2>5, <3>1
      DEF HoldInv, LockInv, AccountsLocked, HoldsForWrite, HoldsForRead, Checks,
          ObjLocked
  <2>6. CASE pc[t] = "unlock_dst"
    <3>1. dst[t] \in Objects
      BY <2>1, <2>3, <2>6
      DEF AccountInv, PointersLive, UsesDst, InList, HoldInv, TypeInv, TypeOK
    <3> QED
      BY <2>1, <2>2, <2>3, <2>4, <2>6, <3>1
      DEF HoldInv, LockInv, AccountsLocked, HoldsForWrite, Transfers, DstLocked
  <2>7. CASE pc[t] \in {"w_unlock_account", "fee_unlock"}
    <3>1. obj[t] \in Objects
      BY <2>1, <2>7
      DEF HoldInv, TypeInv, TypeOK, WellPointed, FollowsObj
    <3>2. ~Checks(t)
      BY <2>3, <2>7, ThreadsAssumption DEF Checks, Services
    <3> QED
      BY <2>1, <2>2, <2>3, <2>7, <3>1, <3>2
      DEF HoldInv, LockInv, AccountsLocked, HoldsForWrite, ObjLocked
  <2> QED
    BY <2>2, <2>4, <2>5, <2>6, <2>7
<1> QED
  BY AccountInvariance, <1>1, PTL

\* The two maps hold no account twice, and every open one: FreedOnce.
THEOREM NothingFreedTwice == Spec => []FreedOnce
<1>1. AccountInv => FreedOnce
  <2> SUFFICES ASSUME AccountInv PROVE FreedOnce
    OBVIOUS
  <2> DEFINE open == {i \in Ids : map_of_accounts[i] # None}
             closed == {i \in Ids : map_of_deleted_accounts[i] # None}
  <2>1. None \notin 1..heap_size
    BY MaxObjectsAssumption, ThreadsAssumption
    DEF AccountInv, HoldInv, TypeInv, TypeOK, Objects
  <2>2. \A i, j \in open : map_of_accounts[i] = map_of_accounts[j] => i = j
    BY DEF AccountInv, MapInv, OpenOnce
  <2>3. \A i, j \in closed :
          map_of_deleted_accounts[i] = map_of_deleted_accounts[j] => i = j
    BY DEF AccountInv, MapInv, ClosedOnce
  <2>4. \A i \in open, j \in closed :
          map_of_accounts[i] # map_of_deleted_accounts[j]
    BY DEF AccountInv, MapInv, OpenLive, ClosedDeleted
  <2>5. \A o \in 1..heap_size :
          deleted[o] \/ \E i \in open : map_of_accounts[i] = o
    BY <2>1 DEF AccountInv, MapInv, NoneLost
  <2> QED
    BY <2>2, <2>3, <2>4, <2>5 DEF FreedOnce
<1> QED
  BY AccountInvariance, <1>1, PTL

-----------------------------------------------------------------------------
(* Who changes a balance. *)

\* The thread t is about to write the balance of the account o.
Writing(t, o) == \/ pc[t] \in {"store", "deduct"} /\ obj[t] = o
                 \/ pc[t] = "credit" /\ dst[t] = o

\* These five actions, and no others, move money.
LEMMA MoneyChanges ==
  ASSUME [Next]_vars
  PROVE  \/ UNCHANGED moneyVars
         \/ \E t \in Atms : Store(t) \/ Credit(t) \/ CreateAccount(t)
         \/ GainFee \/ DeductFee
<1>1. ASSUME NEW t \in Atms, ReadOnList(t), ~Store(t), ~Credit(t)
      PROVE  UNCHANGED moneyVars
  BY <1>1
  DEF ReadOnList, CheckGate, PassGate, EnterList, LockTransfer, Find,
      LockSource, LockDestination, Load, LoadDestination, UnlockSource,
      UnlockDestination, UnlockTransfer, LeaveList
<1>2. ASSUME NEW t \in Atms, ChangeList(t), ~CreateAccount(t)
      PROVE  UNCHANGED moneyVars
  BY <1>2
  DEF ChangeList, FindToClose, LockToClose, CloseAccount, UnlockAccount
<1>3. ASSUME NEW t \in Atms \cup {Printer}, AroundList(t)
      PROVE  UNCHANGED moneyVars
  BY <1>3 DEF AroundList, RaiseFlag, LockListForWrite, UnlockListFromWrite,
     ClearFlag, OpenGate
<1>4. ASSUME NEW t \in Atms, ReadLine(t) \/ EndOfFile(t) \/ Log(t)
      PROVE  UNCHANGED moneyVars
  BY <1>4 DEF ReadLine, EndOfFile, Log
<1>5. ASSUME PrinterStep PROVE UNCHANGED moneyVars
  BY <1>3, <1>5 DEF PrinterStep, Loop, PrintAccount, PrintBank
<1>6. ASSUME FeeStep, ~GainFee, ~DeductFee PROVE UNCHANGED moneyVars
  BY <1>6 DEF FeeStep, Loop, DrawFee, EnterListForFees, LockToCharge, LogFee,
     UnlockCharged, LeaveListAfterFees
<1>7. ASSUME MainStep PROVE UNCHANGED moneyVars
  BY <1>7 DEF MainStep, JoinAtms, JoinFeeCollector, JoinPrinter, Join
<1>8. CASE UNCHANGED vars
  BY <1>8 DEF vars
<1> HIDE DEF moneyVars
<1> QED
  BY <1>1, <1>2, <1>3, <1>4, <1>5, <1>6, <1>7, <1>8
  DEF Next, AtmStep, Finished

\* A balance is changed by the thread that has the account locked for
\* writing, or is that of an account which is just being created.
LEMMA BalanceChanges ==
  ASSUME TypeInv, Kinds, [Next]_vars, NEW o \in Objects,
         balance'[o] # balance[o]
  PROVE  \/ \E t \in Threads : Writing(t, o) /\ pc'[t] # pc[t]
         \/ o = heap_size + 1 /\ acct_readers[o] = {} /\ acct_writer[o] = None
<1> USE DEF TypeInv, TypeOK, Go, Writing, Threads
<1>1. ASSUME NEW t \in Atms, Store(t)
      PROVE  Writing(t, o) /\ pc'[t] # pc[t]
  BY <1>1 DEF Store
<1>2. ASSUME NEW t \in Atms, Credit(t)
      PROVE  Writing(t, o) /\ pc'[t] # pc[t]
  BY <1>2 DEF Credit
<1>3. ASSUME NEW t \in Atms, CreateAccount(t)
      PROVE  o = heap_size + 1 /\ acct_readers[o] = {} /\ acct_writer[o] = None
  BY <1>3 DEF CreateAccount, LockForWrite
<1>4. ASSUME DeductFee
      PROVE  /\ Writing(FeeCollector, o)
             /\ pc'[FeeCollector] # pc[FeeCollector]
  BY <1>4 DEF DeductFee, Services
<1>5. ~GainFee /\ ~UNCHANGED moneyVars
  BY DEF GainFee
<1> HIDE DEF TypeInv, TypeOK, Go, Writing
<1> QED
  BY <1>1, <1>2, <1>3, <1>4, <1>5, MoneyChanges DEF Services

\* A thread about to write a balance has that account locked, and open.
LEMMA WriterHolds ==
  ASSUME AccountInv, NEW t \in Threads, NEW o \in Objects, Writing(t, o)
  PROVE  HoldsForWrite(t, o) /\ acct_readers[o] = {} /\ ~deleted[o]
<1>1. HoldsForWrite(t, o)
  <2> USE ThreadsAssumption
      DEF AccountInv, HoldInv, Kinds, PrinterSteps, FeeSteps, Threads,
          Services
  <2>1. CASE pc[t] = "store" /\ obj[t] = o
    <3>1. t \in Atms /\ Op(t) # "B"
      BY <2>1
    <3> QED
      BY <2>1, <3>1 DEF HoldsForWrite, Checks, ObjLocked
  <2>2. CASE pc[t] = "deduct" /\ obj[t] = o
    <3>1. t \notin Atms
      BY <2>2 DEF AtmSteps
    <3> QED
      BY <2>2, <3>1 DEF HoldsForWrite, Checks, ObjLocked
  <2>3. CASE pc[t] = "credit" /\ dst[t] = o
    <3>1. t \in Atms /\ Op(t) = "T"
      BY <2>3 DEF TransferSteps
    <3> QED
      BY <2>3, <3>1 DEF HoldsForWrite, Transfers, DstLocked
  <2> QED
    BY <2>1, <2>2, <2>3 DEF Writing
<1>2. acct_readers[o] = {}
  BY <1>1, ThreadsAssumption
  DEF AccountInv, HoldInv, LockInv, AccountsLocked
<1>3. ~deleted[o]
  BY ThreadsAssumption
  DEF AccountInv, PointersLive, HoldInv, Kinds, Writing, UsesObj, UsesDst,
      InList, TransferSteps, PrinterSteps, FeeSteps, Threads, Services
<1> QED
  BY <1>1, <1>2, <1>3

\* While an account is read its balance stays, and a closed account's is
\* final: BalancesSettled.
THEOREM BalancesAreSettled == Spec => BalancesSettled
<1> DEFINE Settled(o) ==
      /\ balance'[o] # balance[o] => acct_readers[o] = {}
      /\ deleted[o] => deleted'[o] /\ balance'[o] = balance[o]
<1>1. ASSUME AccountInv, [Next]_vars, NEW o \in Objects PROVE Settled(o)
  <2>1. deleted[o] => deleted'[o]
    BY <1>1, MapsChange
    DEF CreateAccount, CloseAccount, mapVars, AccountInv, HoldInv, TypeInv,
        TypeOK
  <2>2. ASSUME balance'[o] # balance[o]
        PROVE  acct_readers[o] = {} /\ ~deleted[o]
    <3>1. CASE \E t \in Threads : Writing(t, o)
      BY <1>1, <3>1, WriterHolds
    <3>2. CASE o = heap_size + 1 /\ acct_readers[o] = {}
      BY <1>1, <3>2, MaxObjectsAssumption
      DEF AccountInv, MapInv, FreshLive, HoldInv, TypeInv, TypeOK
    <3> QED
      BY <1>1, <2>2, <3>1, <3>2, BalanceChanges DEF AccountInv, HoldInv
  <2> QED
    BY <2>1, <2>2
<1>2. AccountInv /\ [Next]_vars => [\A o \in Objects : Settled(o)]_vars
  BY <1>1
<1> QED
  BY AccountInvariance, <1>2, PTL DEF Spec, BalancesSettled

-----------------------------------------------------------------------------
(* What a thread has read before it writes. *)

\* A step leaves what the thread t computes with as it is.
Rests(t) == /\ pc'[t] = pc[t] /\ obj'[t] = obj[t] /\ dst'[t] = dst[t]
            /\ tmp'[t] = tmp[t] /\ (t \in Atms => cmd'[t] = cmd[t])

\* A thread that is about to write has just read, or rests.
Arrivals ==
  /\ \A t \in Atms : /\ pc'[t] = "store" => Load(t) \/ Rests(t)
                     /\ pc'[t] = "credit" => LoadDestination(t) \/ Rests(t)
  /\ pc'[FeeCollector] = "deduct" => GainFee \/ Rests(FeeCollector)
  /\ pc'[FeeCollector] \notin {"loop", "rand", "done"} =>
       \/ DrawFee
       \/ /\ pc[FeeCollector] \notin {"loop", "rand", "done"}
          /\ fee_rate' = fee_rate

\* Every step keeps to Arrivals.
LEMMA StepArrivals ==
  ASSUME TypeInv, Kinds, [Next]_vars
  PROVE  Arrivals
<1> USE ThreadsAssumption
    DEF Arrivals, Rests, Go, TypeInv, TypeOK, Kinds, PrinterSteps, FeeSteps,
        Threads, Services
<1>1. ASSUME NEW t \in Atms, ReadLine(t) PROVE Arrivals
  BY <1>1 DEF ReadLine, Dispatch
<1>2. ASSUME NEW t \in Atms, EndOfFile(t) PROVE Arrivals
  BY <1>2 DEF EndOfFile
<1>3. ASSUME NEW t \in Atms, Log(t) PROVE Arrivals
  BY <1>3 DEF Log
<1>4. ASSUME NEW t \in Atms, CheckGate(t) PROVE Arrivals
  BY <1>4 DEF CheckGate
<1>5. ASSUME NEW t \in Atms, PassGate(t) PROVE Arrivals
  BY <1>5 DEF PassGate
<1>6. ASSUME NEW t \in Atms, EnterList(t) PROVE Arrivals
  BY <1>6 DEF EnterList, LockListForRead
<1>7. ASSUME NEW t \in Atms, LockTransfer(t) PROVE Arrivals
  BY <1>7 DEF LockTransfer
<1>8. ASSUME NEW t \in Atms, Find(t) PROVE Arrivals
  BY <1>8 DEF Find, Leave
<1>9. ASSUME NEW t \in Atms, LockSource(t) PROVE Arrivals
  BY <1>9 DEF LockSource
<1>10. ASSUME NEW t \in Atms, LockDestination(t) PROVE Arrivals
  BY <1>10 DEF LockDestination
<1>11. ASSUME NEW t \in Atms, Load(t) PROVE Arrivals
  <2>1. /\ \A s \in Threads \ {t} : Rests(s) /\ pc'[s] = pc[s]
        /\ pc'[t] \in {"unlock_src", "log", "store"} /\ fee_rate' = fee_rate
    BY <1>11 DEF Load
  <2> HIDE DEF Rests, TypeInv, Kinds
  <2> QED
    BY <1>11, <2>1
<1>12. ASSUME NEW t \in Atms, Store(t) PROVE Arrivals
  BY <1>12 DEF Store
<1>13. ASSUME NEW t \in Atms, LoadDestination(t) PROVE Arrivals
  BY <1>13 DEF LoadDestination
<1>14. ASSUME NEW t \in Atms, Credit(t) PROVE Arrivals
  BY <1>14 DEF Credit
<1>15. ASSUME NEW t \in Atms, UnlockSource(t) PROVE Arrivals
  BY <1>15 DEF UnlockSource
<1>16. ASSUME NEW t \in Atms, UnlockDestination(t) PROVE Arrivals
  BY <1>16 DEF UnlockDestination
<1>17. ASSUME NEW t \in Atms, UnlockTransfer(t) PROVE Arrivals
  BY <1>17 DEF UnlockTransfer
<1>18. ASSUME NEW t \in Atms, LeaveList(t) PROVE Arrivals
  BY <1>18 DEF LeaveList, UnlockListFromRead, ForgetLocals
<1>19. ASSUME NEW t \in Atms, CreateAccount(t) PROVE Arrivals
  BY <1>19 DEF CreateAccount
<1>20. ASSUME NEW t \in Atms, FindToClose(t) PROVE Arrivals
  BY <1>20 DEF FindToClose
<1>21. ASSUME NEW t \in Atms, LockToClose(t) PROVE Arrivals
  BY <1>21 DEF LockToClose
<1>22. ASSUME NEW t \in Atms, CloseAccount(t) PROVE Arrivals
  BY <1>22 DEF CloseAccount
<1>23. ASSUME NEW t \in Atms, UnlockAccount(t) PROVE Arrivals
  BY <1>23 DEF UnlockAccount
<1>24. ASSUME NEW t \in Atms \cup {Printer}, RaiseFlag(t) PROVE Arrivals
  BY <1>24 DEF RaiseFlag
<1>25. ASSUME NEW t \in Atms \cup {Printer}, LockListForWrite(t) PROVE Arrivals
  BY <1>25 DEF LockListForWrite, AtWork
<1>26. ASSUME NEW t \in Atms \cup {Printer}, UnlockListFromWrite(t)
       PROVE  Arrivals
  BY <1>26 DEF UnlockListFromWrite
<1>27. ASSUME NEW t \in Atms \cup {Printer}, ClearFlag(t) PROVE Arrivals
  BY <1>27 DEF ClearFlag
<1>28. ASSUME NEW t \in Atms \cup {Printer}, OpenGate(t) PROVE Arrivals
  BY <1>28 DEF OpenGate, ForgetLocals
<1>29. ASSUME NEW t \in Services, Loop(t) PROVE Arrivals
  BY <1>29 DEF Loop
<1>30. ASSUME PrintAccount PROVE Arrivals
  BY <1>30 DEF PrintAccount
<1>31. ASSUME PrintBank PROVE Arrivals
  BY <1>31 DEF PrintBank
<1>32. ASSUME DrawFee PROVE Arrivals
  BY <1>32 DEF DrawFee
<1>33. ASSUME EnterListForFees PROVE Arrivals
  BY <1>33 DEF EnterListForFees, LockListForRead
<1>34. ASSUME LockToCharge PROVE Arrivals
  BY <1>34 DEF LockToCharge
<1>35. ASSUME GainFee PROVE Arrivals
  BY <1>35 DEF GainFee
<1>36. ASSUME DeductFee PROVE Arrivals
  BY <1>36 DEF DeductFee
<1>37. ASSUME LogFee PROVE Arrivals
  BY <1>37 DEF LogFee
<1>38. ASSUME UnlockCharged PROVE Arrivals
  BY <1>38 DEF UnlockCharged, ForgetLocals
<1>39. ASSUME LeaveListAfterFees PROVE Arrivals
  BY <1>39 DEF LeaveListAfterFees, UnlockListFromRead
<1>40. ASSUME JoinAtms PROVE Arrivals
  BY <1>40 DEF JoinAtms, Join
<1>41. ASSUME JoinFeeCollector PROVE Arrivals
  BY <1>41 DEF JoinFeeCollector, Join
<1>42. ASSUME JoinPrinter PROVE Arrivals
  BY <1>42 DEF JoinPrinter, Join
<1>43. CASE UNCHANGED vars
  BY <1>43 DEF vars
<1> HIDE DEF Arrivals, Rests, Go, TypeInv, TypeOK, Kinds, PrinterSteps,
   FeeSteps, Threads
<1> QED
  BY <1>1, <1>2, <1>3, <1>4, <1>5, <1>6, <1>7, <1>8, <1>9, <1>10, <1>11,
     <1>12, <1>13, <1>14, <1>15, <1>16, <1>17, <1>18, <1>19, <1>20, <1>21,
     <1>22, <1>23, <1>24, <1>25, <1>26, <1>27, <1>28, <1>29, <1>30, <1>31,
     <1>32, <1>33, <1>34, <1>35, <1>36, <1>37, <1>38, <1>39, <1>40, <1>41,
     <1>42, <1>43
  DEF Next, AtmStep, PrinterStep, FeeStep, MainStep, ReadOnList, ChangeList,
      AroundList, Finished, Services

\* A thread that has an account locked for writing is the only one that
\* changes its balance.
LEMMA HeldSteady ==
  ASSUME AccountInv, [Next]_vars, NEW t \in Threads, NEW o \in Objects,
         HoldsForWrite(t, o), balance'[o] # balance[o]
  PROVE  Writing(t, o) /\ pc'[t] # pc[t]
<1>1. acct_writer[o] = t /\ t # None
  BY ThreadsAssumption DEF AccountInv, HoldInv, LockInv, AccountsLocked
<1>2. PICK s \in Threads : Writing(s, o) /\ pc'[s] # pc[s]
  BY <1>1, BalanceChanges DEF AccountInv, HoldInv
<1>3. acct_writer[o] = s
  BY <1>2, WriterHolds DEF AccountInv, HoldInv, LockInv, AccountsLocked
<1> QED
  BY <1>1, <1>2, <1>3

\* What is about to be written was computed from the balance as it is now.
Loaded ==
  /\ \A t \in Atms :
       /\ pc[t] = "store" => /\ tmp[t] = balance[obj[t]]
                             /\ Op(t) \in {"W", "T"} => tmp[t] >= cmd[t].amt
       /\ pc[t] = "credit" => tmp[t] = balance[dst[t]]
  /\ pc[FeeCollector] = "deduct" =>
       tmp[FeeCollector] = Fee(balance[obj[FeeCollector]], fee_rate)
  /\ pc[FeeCollector] \notin {"loop", "rand", "done"} => fee_rate \in FeeRates

\* Every step keeps Loaded.
LEMMA StepLoaded == ASSUME AccountInv, Loaded, [Next]_vars PROVE Loaded'
<1> USE ThreadsAssumption DEF AccountInv, HoldInv
<1>1. Arrivals
  BY StepArrivals
<1>2. ASSUME NEW t \in Atms, pc'[t] = "store"
      PROVE  /\ tmp'[t] = balance'[obj'[t]]
             /\ Op(t)' \in {"W", "T"} => tmp'[t] >= cmd'[t].amt
  <2>1. CASE Load(t)
    BY <1>2, <2>1
    DEF Load, Accepted, Op, Go, TypeInv, TypeOK, Threads
  <2>2. CASE Rests(t)
    <3>1. t \in Threads /\ obj[t] \in Objects /\ Writing(t, obj[t])
      BY <1>2, <2>2
      DEF Rests, Writing, TypeInv, TypeOK, WellPointed, FollowsObj, Threads
    <3>2. balance'[obj[t]] = balance[obj[t]]
      BY <2>2, <3>1, WriterHolds, HeldSteady DEF Rests
    <3> QED
      BY <1>2, <2>2, <3>2 DEF Rests, Loaded, Op
  <2> QED
    BY <1>1, <1>2, <2>1, <2>2 DEF Arrivals
<1>3. ASSUME NEW t \in Atms, pc'[t] = "credit"
      PROVE  tmp'[t] = balance'[dst'[t]]
  <2>1. CASE LoadDestination(t)
    BY <1>3, <2>1 DEF LoadDestination, TypeInv, TypeOK, Threads
  <2>2. CASE Rests(t)
    <3>1. t \in Threads /\ dst[t] \in Objects /\ Writing(t, dst[t])
      BY <1>3, <2>2
      DEF Rests, Writing, TypeInv, TypeOK, WellPointed, FollowsDst, Threads
    <3>2. balance'[dst[t]] = balance[dst[t]]
      BY <2>2, <3>1, WriterHolds, HeldSteady DEF Rests
    <3> QED
      BY <1>3, <2>2, <3>2 DEF Rests, Loaded
  <2> QED
    BY <1>1, <1>3, <2>1, <2>2 DEF Arrivals
<1>4. pc'[FeeCollector] \notin {"loop", "rand", "done"}
        => fee_rate' \in FeeRates
  BY <1>1 DEF Arrivals, Loaded, DrawFee
<1>5. ASSUME pc'[FeeCollector] = "deduct"
      PROVE  tmp'[FeeCollector] =
               Fee(balance'[obj'[FeeCollector]], fee_rate')
  <2>1. CASE GainFee
    BY <1>5, <2>1 DEF GainFee, TypeInv, TypeOK, Threads, Services
  <2>2. CASE Rests(FeeCollector) /\ ~GainFee
    <3> DEFINE t == FeeCollector
    <3>1. t \in Threads /\ obj[t] \in Objects /\ Writing(t, obj[t])
      BY <1>5, <2>2
      DEF Rests, Writing, TypeInv, TypeOK, WellPointed, FollowsObj, Threads,
          Services
    <3>2. balance'[obj[t]] = balance[obj[t]]
      BY <2>2, <3>1, WriterHolds, HeldSteady DEF Rests
    <3>3. fee_rate' = fee_rate
      BY <1>1, <1>5, <2>2 DEF Arrivals, DrawFee, Go, Rests
    <3> QED
      BY <1>5, <2>2, <3>2, <3>3 DEF Rests, Loaded
  <2> QED
    BY <1>1, <1>5, <2>1, <2>2 DEF Arrivals
<1> QED
  BY <1>2, <1>3, <1>4, <1>5 DEF Loaded

-----------------------------------------------------------------------------
(* Nothing is overdrawn. *)

\* A fee is at least nothing and at most the balance it is drawn from.
LEMMA FeeBounds == \A b \in Nat, r \in 1..5 : Fee(b, r) \in 0..b
<1> TAKE b \in Nat, r \in 1..5
<1>1. CASE r = 1
  BY <1>1 DEF Fee
<1>2. CASE r = 2
  BY <1>2 DEF Fee
<1>3. CASE r = 3
  BY <1>3 DEF Fee
<1>4. CASE r = 4
  BY <1>4 DEF Fee
<1>5. CASE r = 5
  BY <1>5 DEF Fee
<1> QED
  BY <1>1, <1>2, <1>3, <1>4, <1>5

\* No step overdraws the bank or an account.
LEMMA StepMoney ==
  ASSUME AccountInv, Loaded, NonNegative, [Next]_vars
  PROVE  NonNegative'
<1> SUFFICES ASSUME Amounts \subseteq Nat
             PROVE  /\ bank_balance' >= 0
                    /\ \A o \in Objects : balance'[o] >= 0
  BY DEF NonNegative
<1> USE ThreadsAssumption
    DEF AccountInv, HoldInv, TypeInv, TypeOK, WellPointed, FollowsObj,
        FollowsDst, Go, Threads, Services
<1>1. bank_balance >= 0 /\ \A o \in Objects : balance[o] >= 0
  BY DEF NonNegative
<1>2. \A t \in Atms : cmd[t].amt \in Nat
  BY DEF Command
<1>3. CASE UNCHANGED moneyVars
  BY <1>1, <1>3
<1>4. ASSUME NEW t \in Atms, Store(t)
      PROVE  bank_balance' >= 0 /\ \A o \in Objects : balance'[o] >= 0
  <2>1. /\ tmp[t] = balance[obj[t]] /\ obj[t] \in Objects
        /\ Op(t) \in {"W", "T"} => tmp[t] >= cmd[t].amt
    BY <1>4 DEF Store, Loaded
  <2>2. Op(t) \in {"D", "W", "T"}
    BY <1>4 DEF Store, Kinds
  <2> QED
    BY <1>1, <1>2, <1>4, <2>1, <2>2 DEF Store
<1>5. ASSUME NEW t \in Atms, Credit(t)
      PROVE  bank_balance' >= 0 /\ \A o \in Objects : balance'[o] >= 0
  <2>1. tmp[t] = balance[dst[t]] /\ dst[t] \in Objects
    BY <1>5 DEF Credit, Loaded
  <2> QED
    BY <1>1, <1>2, <1>5, <2>1 DEF Credit
<1>6. ASSUME NEW t \in Atms, CreateAccount(t)
      PROVE  bank_balance' >= 0 /\ \A o \in Objects : balance'[o] >= 0
  <2>1. \/ balance' = balance
        \/ balance' = [balance EXCEPT ![heap_size + 1] = cmd[t].amt]
    BY <1>6 DEF CreateAccount
  <2>2. bank_balance' = bank_balance
    BY <1>6 DEF CreateAccount
  <2>3. ASSUME NEW o \in Objects PROVE balance'[o] \in {balance[o], cmd[t].amt}
    BY <2>1
  <2>4. cmd[t].amt \in Nat
    BY <1>2
  <2> HIDE DEF AccountInv
  <2> QED
    BY <1>1, <2>2, <2>3, <2>4
<1>7. ASSUME GainFee
      PROVE  bank_balance' >= 0 /\ \A o \in Objects : balance'[o] >= 0
  <2> DEFINE b == balance[obj[FeeCollector]]
  <2>1. fee_rate \in 1..5 /\ b \in Nat
    BY <1>1, <1>7, FeeRatesAssumption DEF GainFee, Loaded
  <2>2. Fee(b, fee_rate) \in 0..b
    BY <2>1, FeeBounds
  <2>3. balance' = balance /\ bank_balance' = bank_balance + Fee(b, fee_rate)
    BY <1>7 DEF GainFee
  <2> QED
    BY <1>1, <2>1, <2>2, <2>3
<1>8. ASSUME DeductFee
      PROVE  bank_balance' >= 0 /\ \A o \in Objects : balance'[o] >= 0
  <2> DEFINE o == obj[FeeCollector]
  <2>1. /\ fee_rate \in 1..5 /\ balance[o] \in Nat /\ o \in Objects
        /\ tmp[FeeCollector] = Fee(balance[o], fee_rate)
    BY <1>1, <1>8, FeeRatesAssumption DEF DeductFee, Loaded
  <2>2. tmp[FeeCollector] \in 0..balance[o]
    <3> DEFINE b == balance[o]
    <3>1. b \in Nat /\ Fee(b, fee_rate) \in 0..b
      BY <2>1, FeeBounds
    <3> QED
      BY <2>1, <3>1
  <2> QED
    BY <1>1, <1>8, <2>1, <2>2 DEF DeductFee
<1> HIDE DEF AccountInv, HoldInv, TypeInv, TypeOK, Go
<1> QED
  BY <1>3, <1>4, <1>5, <1>6, <1>7, <1>8, MoneyChanges

\* Loaded holds in every reachable state.
THEOREM LoadedInvariance == Spec => []Loaded
<1>1. Init => Loaded
  BY ThreadsAssumption DEF Init, Loaded, Threads, Services
<1>2. AccountInv /\ Loaded /\ [Next]_vars => Loaded'
  BY StepLoaded
<1> QED
  BY AccountInvariance, <1>1, <1>2, PTL DEF Spec

\* With amounts that are not negative, no account and not the bank itself is
\* ever overdrawn: NonNegative.
THEOREM NothingOverdrawn == Spec => []NonNegative
<1>1. Init => NonNegative
  BY DEF Init, NonNegative
<1>2. AccountInv /\ Loaded /\ NonNegative /\ [Next]_vars => NonNegative'
  BY StepMoney
<1> QED
  BY AccountInvariance, LoadedInvariance, <1>1, <1>2, PTL DEF Spec

=============================================================================
