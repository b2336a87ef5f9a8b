-------------------------- MODULE BankLocks_proofs --------------------------
(***************************************************************************)
(* Type correctness of Bank, and who holds which lock: the lock variables  *)
(* are determined by where the threads are, for any set of ATMs, account   *)
(* numbers, amounts and input files.                                       *)
(***************************************************************************)
EXTENDS Bank, TLAPS

USE DEF parserVars, localVars, serviceVars, gateVars, mainVars, listLock,
        acctLocks, mapVars, moneyVars, reportVars

-----------------------------------------------------------------------------
(* Types. *)

\* The steps at which a thread follows the pointers obj[t] and dst[t].
FollowsObj == {"lock_src", "lock_dst", "load", "store", "load_dst", "credit",
               "log", "w_lock", "w_close", "w_unlock_account", "gain", "deduct",
               "fee_log", "fee_unlock"}
FollowsDst == {"lock_src", "lock_dst", "load", "store", "load_dst", "credit"}

WellPointed ==
  \A t \in Threads : /\ pc[t] \in FollowsObj => obj[t] # None
                     /\ pc[t] \in FollowsDst => dst[t] # None

TypeInv == TypeOK /\ WellPointed

\* The initial state is well typed.
LEMMA InitType == Init => TypeInv
<1> SUFFICES ASSUME Init PROVE TypeInv
  OBVIOUS
<1>1. file \in [Atms -> Seq(Line)]
  BY FilesAssumption DEF Init
<1>2. cmd \in [Atms -> Command]
  BY GarbageAssumption DEF Init
<1>3. pc \in [Threads -> Steps]
  BY DEF Init, Steps, FreeSteps
<1>4. heap_size \in 0..MaxObjects
  BY MaxObjectsAssumption DEF Init
<1>5. TypeOK
  <2>1. /\ obj \in [Threads -> Objects \cup {None}]
        /\ dst \in [Threads -> Objects \cup {None}]
    BY DEF Init
  <2>2. tmp \in [Threads -> Int] /\ cursor \in [Services -> Nat]
    BY DEF Init
  <2>3. acct_readers \in [Objects -> SUBSET Threads]
    BY DEF Init
  <2>4. acct_writer \in [Objects -> Threads \cup {None}]
    BY DEF Init
  <2>5. /\ map_of_accounts \in [Ids -> Objects \cup {None}]
        /\ map_of_deleted_accounts \in [Ids -> Objects \cup {None}]
    BY DEF Init
  <2>6. /\ balance \in [Objects -> Int]
        /\ password \in [Objects -> Passwords \cup {None}]
        /\ deleted \in [Objects -> BOOLEAN]
        /\ log_balance \in [Ids -> Int]
    BY DEF Init
  <2>7. /\ fee_rate \in FeeRates \cup {0}
        /\ bank_balance \in Int
        /\ printed \in Int
    BY DEF Init
  <2>8. /\ accounts_print \in BOOLEAN /\ stdout_print_lock \in BOOLEAN
        /\ progress \in BOOLEAN /\ main = "join_atms"
        /\ list_readers = {} /\ list_writer = None /\ transfer_lock = None
    BY DEF Init
  <2> QED
    BY <1>1, <1>2, <1>3, <1>4, <2>7, <2>8, <2>1, <2>2, <2>3, <2>4, <2>5, <2>6
    DEF TypeOK
<1>6. WellPointed
  BY DEF Init, WellPointed, FollowsObj, FollowsDst, Threads
<1> QED
  BY <1>5, <1>6 DEF TypeInv

\* A fee is a number, whatever the rate.
LEMMA FeeType == ASSUME NEW b \in Int, NEW r \in Int PROVE Fee(b, r) \in Int
BY DEF Fee

\* The parts of a command.
LEMMA CmdType ==
  ASSUME TypeInv, NEW t \in Atms
  PROVE  /\ cmd[t].id \in Ids /\ cmd[t].dst \in Ids
         /\ cmd[t].pw \in Passwords /\ cmd[t].amt \in Int
BY AmountsAssumption DEF TypeInv, TypeOK, Command

\* Taking or giving back the lock of an account keeps the locks' types.
LEMMA AccountLockType ==
  ASSUME TypeInv, NEW t \in Threads, NEW o,
         \/ LockForRead(t, o) \/ LockForWrite(t, o)
         \/ UnlockFromRead(t, o) \/ UnlockFromWrite(o)
  PROVE  /\ acct_readers' \in [Objects -> SUBSET Threads]
         /\ acct_writer' \in [Objects -> Threads \cup {None}]
<1>1. /\ acct_readers \in [Objects -> SUBSET Threads]
      /\ acct_writer \in [Objects -> Threads \cup {None}]
  BY DEF TypeInv, TypeOK
<1> QED
  BY <1>1 DEF LockForRead, LockForWrite, UnlockFromRead, UnlockFromWrite

\* Every step keeps TypeInv.
LEMMA StepType ==
  ASSUME TypeInv, [Next]_vars
  PROVE  TypeInv'
<1> USE DEF Go, Threads, Services,
        TypeInv, TypeOK, WellPointed, Steps, ReadSteps, WriteSteps, FreeSteps,
        FollowsObj, FollowsDst
<1>1. ASSUME NEW t \in Atms, CheckGate(t) PROVE TypeInv'
  BY <1>1 DEF CheckGate
<1>2. ASSUME NEW t \in Atms, PassGate(t) PROVE TypeInv'
  BY <1>2 DEF PassGate
<1>3. ASSUME NEW t \in Atms, EnterList(t) PROVE TypeInv'
  BY <1>3 DEF EnterList, LockListForRead
<1>4. ASSUME NEW t \in Atms, LockTransfer(t) PROVE TypeInv'
  BY <1>4 DEF LockTransfer
<1>5. ASSUME NEW t \in Atms, Find(t) PROVE TypeInv'
  <2> DEFINE src == map_of_accounts[cmd[t].id]
             to == IF Op(t) = "T" THEN map_of_accounts[cmd[t].dst] ELSE src
  <2>1. /\ pc[t] = "find"
        /\ pc' = [pc EXCEPT ![t] =
                    IF None \in {src, to} THEN Leave(t) ELSE "lock_src"]
        /\ obj' = [obj EXCEPT ![t] = src]
        /\ dst' = [dst EXCEPT ![t] = to]
    BY <1>5 DEF Find
  <2>2. src \in Objects \cup {None} /\ to \in Objects \cup {None}
    BY CmdType
  <2>3. Leave(t) \in {"unlock_transfer", "unlock_list"}
    BY DEF Leave
  <2> HIDE DEF src, to
  <2>4. WellPointed' /\ pc' \in [Threads -> Steps]
    BY <2>1, <2>2, <2>3
  <2>5. /\ obj' \in [Threads -> Objects \cup {None}]
        /\ dst' \in [Threads -> Objects \cup {None}]
    BY <2>1, <2>2
  <2>6. UNCHANGED <<parserVars, tmp, serviceVars, gateVars, mainVars, listLock,
                    acctLocks, transfer_lock, mapVars, moneyVars, reportVars>>
    BY <1>5 DEF Find
  <2> QED
    BY <2>4, <2>5, <2>6
<1>6. ASSUME NEW t \in Atms, LockSource(t) PROVE TypeInv'
  <2>1. t \in Threads /\ (LockForRead(t, obj[t]) \/ LockForWrite(t, obj[t]))
    BY <1>6 DEF LockSource
  <2>2. /\ acct_readers' \in [Objects -> SUBSET Threads]
        /\ acct_writer' \in [Objects -> Threads \cup {None}]
    BY <2>1, AccountLockType DEF Threads
  <2> QED
    BY <1>6, <2>2 DEF LockSource
<1>7. ASSUME NEW t \in Atms, LockDestination(t) PROVE TypeInv'
  <2>1. t \in Threads /\ LockForWrite(t, dst[t])
    BY <1>7 DEF LockDestination
  <2>2. /\ acct_readers' \in [Objects -> SUBSET Threads]
        /\ acct_writer' \in [Objects -> Threads \cup {None}]
    BY <2>1, AccountLockType DEF Threads
  <2> QED
    BY <1>7, <2>2 DEF LockDestination
<1>8. ASSUME NEW t \in Atms, Load(t) PROVE TypeInv'
  BY <1>8 DEF Load, Accepted
<1>9. ASSUME NEW t \in Atms, Store(t) PROVE TypeInv'
  <2> DEFINE new == IF Op(t) = "D" THEN tmp[t] + cmd[t].amt
                    ELSE tmp[t] - cmd[t].amt
  <2>1. tmp[t] \in Int /\ cmd[t].amt \in Int
    BY CmdType DEF TypeInv, TypeOK, Threads
  <2>2. new \in Int /\ balance \in [Objects -> Int]
    BY <2>1 DEF TypeInv, TypeOK
  <2>3. balance' = [balance EXCEPT ![obj[t]] = new]
    BY <1>9 DEF Store
  <2> HIDE DEF new
  <2>4. balance' \in [Objects -> Int]
    BY <2>2, <2>3
  <2> QED
    BY <1>9, <2>4 DEF Store
<1>10. ASSUME NEW t \in Atms, LoadDestination(t) PROVE TypeInv'
  BY <1>10 DEF LoadDestination
<1>11. ASSUME NEW t \in Atms, Credit(t) PROVE TypeInv'
  <2> DEFINE new == tmp[t] + cmd[t].amt
  <2>1. tmp[t] \in Int /\ cmd[t].amt \in Int
    BY CmdType DEF TypeInv, TypeOK, Threads
  <2>2. new \in Int /\ balance \in [Objects -> Int]
    BY <2>1 DEF TypeInv, TypeOK
  <2>3. balance' = [balance EXCEPT ![dst[t]] = new]
    BY <1>11 DEF Credit
  <2> HIDE DEF new
  <2>4. balance' \in [Objects -> Int]
    BY <2>2, <2>3
  <2> QED
    BY <1>11, <2>4 DEF Credit
<1>12. ASSUME NEW t \in Atms, UnlockSource(t) PROVE TypeInv'
  <2>1. t \in Threads /\ (UnlockFromRead(t, obj[t]) \/ UnlockFromWrite(obj[t]))
    BY <1>12 DEF UnlockSource
  <2>2. /\ acct_readers' \in [Objects -> SUBSET Threads]
        /\ acct_writer' \in [Objects -> Threads \cup {None}]
    BY <2>1, AccountLockType DEF Threads
  <2> QED
    BY <1>12, <2>2 DEF UnlockSource
<1>13. ASSUME NEW t \in Atms, UnlockDestination(t) PROVE TypeInv'
  <2>1. t \in Threads /\ UnlockFromWrite(dst[t])
    BY <1>13 DEF UnlockDestination
  <2>2. /\ acct_readers' \in [Objects -> SUBSET Threads]
        /\ acct_writer' \in [Objects -> Threads \cup {None}]
    BY <2>1, AccountLockType DEF Threads
  <2> QED
    BY <1>13, <2>2 DEF UnlockDestination
<1>14. ASSUME NEW t \in Atms, UnlockTransfer(t) PROVE TypeInv'
  BY <1>14 DEF UnlockTransfer
<1>15. ASSUME NEW t \in Atms, LeaveList(t) PROVE TypeInv'
  BY <1>15 DEF LeaveList, UnlockListFromRead, ForgetLocals
<1>16. ASSUME NEW t \in Atms, CreateAccount(t) PROVE TypeInv'
  <2> DEFINE c == cmd[t]  o == heap_size + 1
  <2>1. CASE ~NotOpen(c.id)
    BY <1>16, <2>1 DEF CreateAccount
  <2>2. CASE NotOpen(c.id)
    <3>1. o \in Objects /\ o \in 0..MaxObjects
      BY <1>16, <2>2, MaxObjectsAssumption
      DEF CreateAccount, TypeInv, TypeOK, Objects
    <3>2. c.id \in Ids /\ c.amt \in Int /\ c.pw \in Passwords
      BY CmdType DEF TypeInv
    <3> HIDE DEF c, o
    <3>3. /\ heap_size' = o
          /\ balance' = [balance EXCEPT ![o] = c.amt]
          /\ password' = [password EXCEPT ![o] = c.pw]
          /\ map_of_accounts' = Insert(map_of_accounts, c.id, o)
          /\ obj' = [obj EXCEPT ![t] = o]
          /\ LockForWrite(t, o)
          /\ pc' = [pc EXCEPT ![t] = "log"]
      BY <1>16, <2>2 DEF CreateAccount, Go, c, o
    <3>4. /\ heap_size' \in 0..MaxObjects
          /\ balance' \in [Objects -> Int]
          /\ password' \in [Objects -> Passwords \cup {None}]
          /\ map_of_accounts' \in [Ids -> Objects \cup {None}]
          /\ obj' \in [Threads -> Objects \cup {None}]
          /\ acct_writer' \in [Objects -> Threads \cup {None}]
          /\ acct_readers' = acct_readers
      BY <3>1, <3>2, <3>3 DEF TypeInv, TypeOK, Insert, LockForWrite, Threads
    <3>5. TypeOK'
      BY <1>16, <3>3, <3>4 DEF CreateAccount, TypeInv, TypeOK, Steps
    <3>6. WellPointed'
      <4>1. /\ UNCHANGED dst
            /\ pc'[t] = "log" /\ obj'[t] = o /\ o # None
            /\ \A s \in Threads \ {t} : pc'[s] = pc[s] /\ obj'[s] = obj[s]
        BY <1>16, <3>1, <3>3, ThreadsAssumption
        DEF CreateAccount, TypeInv, TypeOK
      <4> QED
        BY <4>1 DEF TypeInv, WellPointed, FollowsObj, FollowsDst
    <3> QED
      BY <3>5, <3>6 DEF TypeInv
  <2> QED
    BY <2>1, <2>2
<1>17. ASSUME NEW t \in Atms, FindToClose(t) PROVE TypeInv'
  <2>1. map_of_accounts[cmd[t].id] \in Objects \cup {None}
    BY CmdType DEF TypeInv, TypeOK
  <2> QED
    BY <1>17, <2>1 DEF FindToClose
<1>18. ASSUME NEW t \in Atms, LockToClose(t) PROVE TypeInv'
  <2>1. t \in Threads /\ LockForWrite(t, obj[t])
    BY <1>18 DEF LockToClose
  <2>2. /\ acct_readers' \in [Objects -> SUBSET Threads]
        /\ acct_writer' \in [Objects -> Threads \cup {None}]
    BY <2>1, AccountLockType DEF Threads
  <2> QED
    BY <1>18, <2>2 DEF LockToClose
<1>19. ASSUME NEW t \in Atms, CloseAccount(t) PROVE TypeInv'
  <2>1. /\ map_of_accounts' \in [Ids -> Objects \cup {None}]
        /\ map_of_deleted_accounts' \in [Ids -> Objects \cup {None}]
        /\ deleted' \in [Objects -> BOOLEAN]
    BY <1>19 DEF CloseAccount, Insert
  <2> QED
    BY <1>19, <2>1 DEF CloseAccount
<1>20. ASSUME NEW t \in Atms, UnlockAccount(t) PROVE TypeInv'
  <2>1. t \in Threads /\ UnlockFromWrite(obj[t])
    BY <1>20 DEF UnlockAccount
  <2>2. /\ acct_readers' \in [Objects -> SUBSET Threads]
        /\ acct_writer' \in [Objects -> Threads \cup {None}]
    BY <2>1, AccountLockType DEF Threads
  <2> QED
    BY <1>20, <2>2 DEF UnlockAccount
<1>21. ASSUME NEW t \in Atms \cup {Printer}, RaiseFlag(t) PROVE TypeInv'
  BY <1>21 DEF RaiseFlag, Services
<1>22. ASSUME NEW t \in Atms \cup {Printer}, LockListForWrite(t) PROVE TypeInv'
  BY <1>22 DEF LockListForWrite, AtWork, Services
<1>23. ASSUME NEW t \in Atms \cup {Printer}, UnlockListFromWrite(t)
       PROVE  TypeInv'
  BY <1>23 DEF UnlockListFromWrite, Services
<1>24. ASSUME NEW t \in Atms \cup {Printer}, ClearFlag(t) PROVE TypeInv'
  BY <1>24 DEF ClearFlag, Services
<1>25. ASSUME NEW t \in Atms \cup {Printer}, OpenGate(t) PROVE TypeInv'
  <2>1. obj' \in [Threads -> Objects \cup {None}]
    BY <1>25 DEF OpenGate, ForgetLocals, TypeInv, TypeOK
  <2>2. dst' \in [Threads -> Objects \cup {None}]
    BY <1>25 DEF OpenGate, ForgetLocals, TypeInv, TypeOK
  <2>3. tmp' \in [Threads -> Int]
    <3>1. tmp \in [Threads -> Int]
      BY DEF TypeInv, TypeOK
    <3>2. \A z \in Int : [tmp EXCEPT ![t] = z] \in [Threads -> Int]
      BY <3>1
    <3> QED
      BY <1>25, <3>2 DEF OpenGate, ForgetLocals
  <2>4. WellPointed'
    BY <1>25
    DEF OpenGate, ForgetLocals, TypeInv, TypeOK, WellPointed, Go, Threads,
        Services, FollowsObj, FollowsDst
  <2> QED
    BY <1>25, <2>1, <2>2, <2>3, <2>4
    DEF OpenGate, TypeInv, TypeOK, Go, Threads, Services, Steps, FreeSteps
<1>26. ASSUME NEW t \in Atms, ReadLine(t) PROVE TypeInv'
  <2> DEFINE c == Scan(Head(file[t]), cmd[t])
  <2>1. file[t] \in Seq(Line) /\ file[t] # <<>> /\ cmd[t] \in Command
    BY <1>26 DEF ReadLine, TypeInv, TypeOK
  <2>2. Head(file[t]) \in Line /\ Tail(file[t]) \in Seq(Line)
    BY <2>1
  <2>3. c \in Command
    BY <2>1, <2>2 DEF Scan, Token, Line, Command
  <2>4. Go(t, "parse", Dispatch(c.op)) /\ cmd' = [cmd EXCEPT ![t] = c]
    BY <1>26 DEF ReadLine
  <2> HIDE DEF c
  <2>5. cmd' \in [Atms -> Command] /\ file' \in [Atms -> Seq(Line)]
    BY <1>26, <2>2, <2>3, <2>4 DEF ReadLine, TypeInv, TypeOK
  <2>6. Dispatch(c.op) \in {"parse", "gate?", "raise_flag"}
    BY <2>3 DEF Dispatch
  <2>7. pc' \in [Threads -> Steps] /\ WellPointed'
    <3>1. \A s \in Threads : pc'[s] = pc[s] \/ pc'[s] = Dispatch(c.op)
      BY <2>4
    <3>2. pc' \in [Threads -> Steps]
      BY <2>4, <2>6
    <3>3. UNCHANGED <<obj, dst>>
      BY <1>26 DEF ReadLine
    <3> QED
      BY <2>6, <3>1, <3>2, <3>3
  <2> QED
    BY <1>26, <2>5, <2>7 DEF ReadLine
<1>27. ASSUME NEW t \in Atms, EndOfFile(t) PROVE TypeInv'
  BY <1>27 DEF EndOfFile
<1>28. ASSUME NEW t \in Atms, Log(t) PROVE TypeInv'
  <2>1. /\ log_balance' = LogTo(cmd[t]) /\ log_balance \in [Ids -> Int]
        /\ cmd[t].id \in Ids /\ cmd[t].dst \in Ids /\ cmd[t].amt \in Int
    BY <1>28, CmdType DEF Log
  <2> HIDE DEF TypeInv, TypeOK
  <2>2. log_balance' \in [Ids -> Int]
    BY <2>1 DEF LogTo
  <2> QED
    BY <1>28, <2>2 DEF Log, TypeInv, TypeOK
<1>29. ASSUME PrintAccount PROVE TypeInv'
  <2>1. PICK i \in Ids : /\ IsNext(i, Printer)
                        /\ cursor' = [cursor EXCEPT ![Printer] = i]
                        /\ printed' = printed + balance[map_of_accounts[i]]
    BY <1>29 DEF PrintAccount
  <2>2. i \in Nat /\ map_of_accounts[i] \in Objects
    BY <2>1, IdsAssumption DEF IsNext, Ahead
  <2>3. cursor' \in [Services -> Nat] /\ printed' \in Int
    BY <2>1, <2>2
  <2>4. pc' \in [Threads -> Steps] /\ WellPointed'
    BY <1>29 DEF PrintAccount
  <2>5. UNCHANGED <<parserVars, localVars, fee_rate, gateVars, mainVars,
                    listLock, acctLocks, transfer_lock, mapVars, moneyVars,
                    log_balance>>
    BY <1>29 DEF PrintAccount
  <2> QED
    BY <2>3, <2>4, <2>5
<1>30. ASSUME PrintBank PROVE TypeInv'
  BY <1>30 DEF PrintBank, Services
<1>31. ASSUME DrawFee PROVE TypeInv'
  BY <1>31 DEF DrawFee
<1>32. ASSUME EnterListForFees PROVE TypeInv'
  BY <1>32 DEF EnterListForFees, LockListForRead, Services
<1>33. ASSUME LockToCharge PROVE TypeInv'
  BY <1>33, IdsAssumption
  DEF LockToCharge, LockForWrite, Services, IsNext, Ahead
<1>34. ASSUME GainFee PROVE TypeInv'
  <2> DEFINE fee == Fee(balance[obj[FeeCollector]], fee_rate)
  <2>1. /\ FeeCollector \in Threads
        /\ obj[FeeCollector] \in Objects
        /\ fee_rate \in Int
    BY <1>34, FeeRatesAssumption
    DEF GainFee, Go, TypeInv, TypeOK, WellPointed, FollowsObj, Threads,
        Services
  <2>2. fee \in Int
    BY <2>1, FeeType DEF TypeInv, TypeOK
  <2>3. /\ tmp' = [tmp EXCEPT ![FeeCollector] = fee]
        /\ bank_balance' = bank_balance + fee
    BY <1>34 DEF GainFee
  <2> HIDE DEF fee
  <2>4. tmp' \in [Threads -> Int]
    BY <2>2, <2>3 DEF TypeInv, TypeOK
  <2>5. bank_balance' \in Int
    BY <2>2, <2>3 DEF TypeInv, TypeOK
  <2> QED
    BY <1>34, <2>1, <2>4, <2>5 DEF GainFee
<1>35. ASSUME DeductFee PROVE TypeInv'
  BY <1>35 DEF DeductFee, Services
<1>36. ASSUME LogFee PROVE TypeInv'
  <2>1. tmp[FeeCollector] \in Int /\ log_balance \in [Ids -> Int]
    BY DEF TypeInv, TypeOK, Threads, Services
  <2> DEFINE i == cursor[FeeCollector]
             new == log_balance[i] - tmp[FeeCollector]
  <2>2. log_balance' = [log_balance EXCEPT ![i] = new]
    BY <1>36 DEF LogFee
  <2>3. log_balance' \in [Ids -> Int]
    <3>1. CASE i \in Ids
      <4>1. new \in Int
        BY <2>1, <3>1
      <4> QED
        BY <2>1, <2>2, <4>1
    <3>2. CASE i \notin Ids
      BY <2>1, <2>2, <3>2
    <3> QED
      BY <3>1, <3>2
  <2> QED
    BY <1>36, <2>3 DEF LogFee, Services
<1>37. ASSUME UnlockCharged PROVE TypeInv'
  <2>1. FeeCollector \in Threads /\ UnlockFromWrite(obj[FeeCollector])
    BY <1>37 DEF UnlockCharged
  <2>2. /\ acct_readers' \in [Objects -> SUBSET Threads]
        /\ acct_writer' \in [Objects -> Threads \cup {None}]
    BY <2>1, AccountLockType DEF Threads
  <2> QED
    BY <1>37, <2>2 DEF UnlockCharged, ForgetLocals
<1>38. ASSUME LeaveListAfterFees PROVE TypeInv'
  BY <1>38 DEF LeaveListAfterFees, UnlockListFromRead, Services
<1>39. ASSUME JoinAtms PROVE TypeInv'
  BY <1>39 DEF JoinAtms, Join, TypeInv, TypeOK, WellPointed
<1>40. ASSUME JoinFeeCollector PROVE TypeInv'
  BY <1>40 DEF JoinFeeCollector, Join, TypeInv, TypeOK, WellPointed
<1>41. ASSUME JoinPrinter PROVE TypeInv'
  BY <1>41 DEF JoinPrinter, Join, TypeInv, TypeOK, WellPointed
<1>42. ASSUME NEW t \in Services, Loop(t) PROVE TypeInv'
  BY <1>42 DEF Loop
<1>43. CASE UNCHANGED vars
  BY <1>43 DEF vars, TypeInv, TypeOK, WellPointed
<1> HIDE DEF Go, TypeInv, TypeOK, WellPointed, Steps, ReadSteps, WriteSteps,
      FreeSteps, FollowsObj, FollowsDst
<1> QED
  BY <1>1, <1>2, <1>3, <1>4, <1>5, <1>6, <1>7, <1>8, <1>9, <1>10, <1>11,
     <1>12, <1>13, <1>14, <1>15, <1>16, <1>17, <1>18, <1>19, <1>20, <1>21,
     <1>22, <1>23, <1>24, <1>25, <1>26, <1>27, <1>28, <1>29, <1>30, <1>31,
     <1>32, <1>33, <1>34, <1>35, <1>36, <1>37, <1>38, <1>39, <1>40, <1>41,
     <1>42, <1>43
  DEF Next, AtmStep, PrinterStep, FeeStep, MainStep, ReadOnList, ChangeList,
      AroundList, Finished, Services

-----------------------------------------------------------------------------

\* TypeInv holds in every reachable state.
THEOREM TypeInvariance == Spec => []TypeInv
<1>1. TypeInv /\ [Next]_vars => TypeInv'
  BY StepType
<1> QED
  BY InitType, <1>1, PTL DEF Spec

\* Every variable keeps its type: Bank's TypeOK.
THEOREM TypeCorrect == Spec => []TypeOK
<1>1. TypeInv => TypeOK
  BY DEF TypeInv
<1> QED
  BY TypeInvariance, <1>1, PTL

-----------------------------------------------------------------------------
(* Which thread and which command comes to which step. *)

PrinterSteps == {"loop", "raise_flag", "list_write", "print", "w_unlock_list",
                 "clear_flag", "open_gate", "done"}
FeeSteps == {"loop", "rand", "list_read", "next", "gain", "deduct", "fee_log",
             "fee_unlock", "done"}
AtmSteps == Steps \ {"loop", "print", "rand", "next", "gain", "deduct",
                     "fee_log", "fee_unlock"}

\* The steps of commands that only look accounts up, of transfers, of
\* commands that change the list, and of a close.
LookupSteps == {"gate?", "gate", "list_read", "find", "lock_src", "load",
                "unlock_src", "unlock_list"}
TransferSteps == {"transfer_lock", "lock_dst", "load_dst", "credit",
                  "unlock_dst", "unlock_transfer"}
ChangeSteps == {"raise_flag", "list_write", "w_unlock_account",
                "w_unlock_list", "clear_flag", "open_gate"}
CloseSteps == {"w_find", "w_lock", "w_close"}

Kinds ==
  /\ pc[Printer] \in PrinterSteps
  /\ pc[FeeCollector] \in FeeSteps
  /\ \A t \in Atms :
       /\ pc[t] \in AtmSteps
       /\ pc[t] \in LookupSteps => Op(t) \in ListReaders
       /\ pc[t] \in TransferSteps => Op(t) = "T"
       /\ pc[t] \in ChangeSteps => Op(t) \in ListWriters
       /\ pc[t] \in CloseSteps => Op(t) = "Q"
       /\ pc[t] = "create" => Op(t) = "O"
       /\ pc[t] = "store" => Op(t) \in {"D", "W", "T"}
       /\ pc[t] = "log" => Op(t) \in ListReaders \cup ListWriters

\* Kinds holds at first.
LEMMA InitKinds == Init => Kinds
BY ThreadsAssumption
DEF Init, Kinds, PrinterSteps, FeeSteps, AtmSteps, Steps, FreeSteps,
    LookupSteps, TransferSteps, ChangeSteps, CloseSteps, Threads, Services

\* Every step keeps Kinds.
LEMMA StepKinds ==
  ASSUME TypeInv, Kinds, [Next]_vars
  PROVE  Kinds'
<1> USE ThreadsAssumption
    DEF TypeInv, TypeOK, Kinds, PrinterSteps, FeeSteps, AtmSteps, Steps,
        ReadSteps, WriteSteps, FreeSteps, LookupSteps, TransferSteps,
        ChangeSteps, CloseSteps, ListReaders, ListWriters, Op, Go, Threads,
        Services
<1>1. ASSUME NEW t \in Atms, ReadLine(t) PROVE Kinds'
  <2> DEFINE c == Scan(Head(file[t]), cmd[t])
  <2>1. Go(t, "parse", Dispatch(c.op)) /\ cmd' = [cmd EXCEPT ![t] = c]
    BY <1>1 DEF ReadLine
  <2> HIDE DEF c
  <2>2. \/ c.op \in ListReaders /\ Dispatch(c.op) = "gate?"
        \/ c.op \in ListWriters /\ Dispatch(c.op) = "raise_flag"
        \/ Dispatch(c.op) = "parse"
    BY DEF Dispatch
  <2>3. /\ \A s \in Threads \ {t} : pc'[s] = pc[s]
        /\ \A s \in Atms \ {t} : cmd'[s] = cmd[s]
        /\ pc'[t] = Dispatch(c.op) /\ cmd'[t] = c
    BY <2>1
  <2>4. pc'[Printer] = pc[Printer] /\ pc'[FeeCollector] = pc[FeeCollector]
    BY <2>3
  <2>5. /\ pc'[t] \in {"gate?", "raise_flag", "parse"}
        /\ pc'[t] = "gate?" => Op(t)' \in ListReaders
        /\ pc'[t] = "raise_flag" => Op(t)' \in ListWriters
    BY <2>2, <2>3
  <2>6. ASSUME NEW s \in Atms, s # t PROVE Op(s)' = Op(s) /\ pc'[s] = pc[s]
    <3>1. s \in Threads
      OBVIOUS
    <3> QED
      BY <2>3, <2>6, <3>1
  <2> HIDE DEF Op
  <2>7. ASSUME NEW s \in Atms
        PROVE  /\ pc'[s] \in AtmSteps
               /\ pc'[s] \in LookupSteps => Op(s)' \in ListReaders
               /\ pc'[s] \in TransferSteps => Op(s)' = "T"
               /\ pc'[s] \in ChangeSteps => Op(s)' \in ListWriters
               /\ pc'[s] \in CloseSteps => Op(s)' = "Q"
               /\ pc'[s] = "create" => Op(s)' = "O"
               /\ pc'[s] = "store" => Op(s)' \in {"D", "W", "T"}
               /\ pc'[s] = "log" => Op(s)' \in ListReaders \cup ListWriters
    <3>1. CASE s = t
      BY <2>5, <3>1
    <3>2. CASE s # t
      <4> HIDE DEF AtmSteps, LookupSteps, TransferSteps, ChangeSteps,
            CloseSteps, ListReaders, ListWriters
      <4> QED
        BY <2>6, <3>2
    <3> QED
      BY <3>1, <3>2
  <2> QED
    <3> HIDE DEF AtmSteps, LookupSteps, TransferSteps, ChangeSteps,
          CloseSteps, ListReaders, ListWriters, PrinterSteps, FeeSteps
    <3> QED
      BY <2>4, <2>7
<1>2. ASSUME NEW t \in Atms, EndOfFile(t) PROVE Kinds'
  BY <1>2 DEF EndOfFile
<1>3. ASSUME NEW t \in Atms, Log(t) PROVE Kinds'
  BY <1>3 DEF Log
<1>4. ASSUME NEW t \in Atms, CheckGate(t) PROVE Kinds'
  BY <1>4 DEF CheckGate
<1>5. ASSUME NEW t \in Atms, PassGate(t) PROVE Kinds'
  BY <1>5 DEF PassGate
<1>6. ASSUME NEW t \in Atms, EnterList(t) PROVE Kinds'
  BY <1>6 DEF EnterList, LockListForRead
<1>7. ASSUME NEW t \in Atms, LockTransfer(t) PROVE Kinds'
  BY <1>7 DEF LockTransfer
<1>8. ASSUME NEW t \in Atms, Find(t) PROVE Kinds'
  BY <1>8 DEF Find, Leave
<1>9. ASSUME NEW t \in Atms, LockSource(t) PROVE Kinds'
  BY <1>9 DEF LockSource
<1>10. ASSUME NEW t \in Atms, LockDestination(t) PROVE Kinds'
  BY <1>10 DEF LockDestination
<1>11. ASSUME NEW t \in Atms, Load(t) PROVE Kinds'
  BY <1>11 DEF Load
<1>12. ASSUME NEW t \in Atms, Store(t) PROVE Kinds'
  BY <1>12 DEF Store
<1>13. ASSUME NEW t \in Atms, LoadDestination(t) PROVE Kinds'
  BY <1>13 DEF LoadDestination
<1>14. ASSUME NEW t \in Atms, Credit(t) PROVE Kinds'
  BY <1>14 DEF Credit
<1>15. ASSUME NEW t \in Atms, UnlockSource(t) PROVE Kinds'
  BY <1>15 DEF UnlockSource
<1>16. ASSUME NEW t \in Atms, UnlockDestination(t) PROVE Kinds'
  BY <1>16 DEF UnlockDestination
<1>17. ASSUME NEW t \in Atms, UnlockTransfer(t) PROVE Kinds'
  BY <1>17 DEF UnlockTransfer
<1>18. ASSUME NEW t \in Atms, LeaveList(t) PROVE Kinds'
  BY <1>18 DEF LeaveList, UnlockListFromRead
<1>19. ASSUME NEW t \in Atms, CreateAccount(t) PROVE Kinds'
  BY <1>19 DEF CreateAccount
<1>20. ASSUME NEW t \in Atms, FindToClose(t) PROVE Kinds'
  BY <1>20 DEF FindToClose
<1>21. ASSUME NEW t \in Atms, LockToClose(t) PROVE Kinds'
  BY <1>21 DEF LockToClose
<1>22. ASSUME NEW t \in Atms, CloseAccount(t) PROVE Kinds'
  BY <1>22 DEF CloseAccount
<1>23. ASSUME NEW t \in Atms, UnlockAccount(t) PROVE Kinds'
  BY <1>23 DEF UnlockAccount
<1>24. ASSUME NEW t \in Atms \cup {Printer}, RaiseFlag(t) PROVE Kinds'
  BY <1>24 DEF RaiseFlag
<1>25. ASSUME NEW t \in Atms \cup {Printer}, LockListForWrite(t) PROVE Kinds'
  BY <1>25 DEF LockListForWrite, AtWork
<1>26. ASSUME NEW t \in Atms \cup {Printer}, UnlockListFromWrite(t)
       PROVE  Kinds'
  BY <1>26 DEF UnlockListFromWrite
<1>27. ASSUME NEW t \in Atms \cup {Printer}, ClearFlag(t) PROVE Kinds'
  BY <1>27 DEF ClearFlag
<1>28. ASSUME NEW t \in Atms \cup {Printer}, OpenGate(t) PROVE Kinds'
  BY <1>28 DEF OpenGate
<1>29. ASSUME NEW t \in Services, Loop(t) PROVE Kinds'
  BY <1>29 DEF Loop
<1>30. ASSUME PrintAccount PROVE Kinds'
  BY <1>30 DEF PrintAccount
<1>31. ASSUME PrintBank PROVE Kinds'
  BY <1>31 DEF PrintBank
<1>32. ASSUME DrawFee PROVE Kinds'
  BY <1>32 DEF DrawFee
<1>33. ASSUME EnterListForFees PROVE Kinds'
  BY <1>33 DEF EnterListForFees, LockListForRead
<1>34. ASSUME LockToCharge PROVE Kinds'
  BY <1>34 DEF LockToCharge
<1>35. ASSUME GainFee PROVE Kinds'
  BY <1>35 DEF GainFee
<1>36. ASSUME DeductFee PROVE Kinds'
  BY <1>36 DEF DeductFee
<1>37. ASSUME LogFee PROVE Kinds'
  BY <1>37 DEF LogFee
<1>38. ASSUME UnlockCharged PROVE Kinds'
  BY <1>38 DEF UnlockCharged
<1>39. ASSUME LeaveListAfterFees PROVE Kinds'
  BY <1>39 DEF LeaveListAfterFees, UnlockListFromRead
<1>40. ASSUME JoinAtms PROVE Kinds'
  BY <1>40 DEF JoinAtms, Join
<1>41. ASSUME JoinFeeCollector PROVE Kinds'
  BY <1>41 DEF JoinFeeCollector, Join
<1>42. ASSUME JoinPrinter PROVE Kinds'
  BY <1>42 DEF JoinPrinter, Join
<1>43. CASE UNCHANGED vars
  BY <1>43 DEF vars
<1> HIDE DEF TypeInv, TypeOK, Kinds, PrinterSteps, FeeSteps, AtmSteps, Steps,
   ReadSteps, WriteSteps, FreeSteps, LookupSteps, TransferSteps, ChangeSteps,
   CloseSteps, ListReaders, ListWriters, Op, Go, Threads
<1> QED
  BY <1>1, <1>2, <1>3, <1>4, <1>5, <1>6, <1>7, <1>8, <1>9, <1>10, <1>11,
     <1>12, <1>13, <1>14, <1>15, <1>16, <1>17, <1>18, <1>19, <1>20, <1>21,
     <1>22, <1>23, <1>24, <1>25, <1>26, <1>27, <1>28, <1>29, <1>30, <1>31,
     <1>32, <1>33, <1>34, <1>35, <1>36, <1>37, <1>38, <1>39, <1>40, <1>41,
     <1>42, <1>43
  DEF Next, AtmStep, PrinterStep, FeeStep, MainStep, ReadOnList, ChangeList,
      AroundList, Finished, Services

-----------------------------------------------------------------------------
(* The lock of the list of accounts. *)

Reads(t) == \/ pc[t] \in ReadSteps
            \/ t \in Atms /\ pc[t] = "log" /\ Op(t) \in ListReaders
Writes(t) == \/ pc[t] \in WriteSteps
             \/ t \in Atms /\ pc[t] = "log" /\ Op(t) \in ListWriters

ListLocked ==
  /\ \A t \in Threads : t \in list_readers <=> Reads(t)
  /\ \A t \in Threads : list_writer = t <=> Writes(t)
  /\ list_writer # None => list_readers = {}

\* Nobody holds the list's lock at first.
LEMMA InitListLocked == Init => ListLocked
BY ThreadsAssumption
DEF Init, ListLocked, Reads, Writes, ReadSteps, WriteSteps, Threads, Services

\* Every step keeps ListLocked.
LEMMA StepListLocked ==
  ASSUME TypeInv, Kinds, ListLocked, [Next]_vars
  PROVE  ListLocked'
<1> USE ThreadsAssumption
    DEF Go, TypeInv, TypeOK, Kinds, ListLocked, Reads, Writes, ReadSteps,
        WriteSteps, Threads, Services, LookupSteps, TransferSteps,
        ChangeSteps, CloseSteps, ListReaders, ListWriters, Op
<1>1. ASSUME NEW t \in Atms, ReadLine(t) PROVE ListLocked'
  BY <1>1 DEF ReadLine, Dispatch
<1>2. ASSUME NEW t \in Atms, EndOfFile(t) PROVE ListLocked'
  BY <1>2 DEF EndOfFile
<1>3. ASSUME NEW t \in Atms, Log(t) PROVE ListLocked'
  BY <1>3 DEF Log
<1>4. ASSUME NEW t \in Atms, CheckGate(t) PROVE ListLocked'
  BY <1>4 DEF CheckGate
<1>5. ASSUME NEW t \in Atms, PassGate(t) PROVE ListLocked'
  BY <1>5 DEF PassGate
<1>6. ASSUME NEW t \in Atms, EnterList(t) PROVE ListLocked'
  BY <1>6 DEF EnterList, LockListForRead
<1>7. ASSUME NEW t \in Atms, LockTransfer(t) PROVE ListLocked'
  BY <1>7 DEF LockTransfer
<1>8. ASSUME NEW t \in Atms, Find(t) PROVE ListLocked'
  BY <1>8 DEF Find, Leave
<1>9. ASSUME NEW t \in Atms, LockSource(t) PROVE ListLocked'
  BY <1>9 DEF LockSource
<1>10. ASSUME NEW t \in Atms, LockDestination(t) PROVE ListLocked'
  BY <1>10 DEF LockDestination
<1>11. ASSUME NEW t \in Atms, Load(t) PROVE ListLocked'
  BY <1>11 DEF Load
<1>12. ASSUME NEW t \in Atms, Store(t) PROVE ListLocked'
  BY <1>12 DEF Store
<1>13. ASSUME NEW t \in Atms, LoadDestination(t) PROVE ListLocked'
  BY <1>13 DEF LoadDestination
<1>14. ASSUME NEW t \in Atms, Credit(t) PROVE ListLocked'
  BY <1>14 DEF Credit
<1>15. ASSUME NEW t \in Atms, UnlockSource(t) PROVE ListLocked'
  BY <1>15 DEF UnlockSource
<1>16. ASSUME NEW t \in Atms, UnlockDestination(t) PROVE ListLocked'
  BY <1>16 DEF UnlockDestination
<1>17. ASSUME NEW t \in Atms, UnlockTransfer(t) PROVE ListLocked'
  BY <1>17 DEF UnlockTransfer
<1>18. ASSUME NEW t \in Atms, LeaveList(t) PROVE ListLocked'
  BY <1>18 DEF LeaveList, UnlockListFromRead
<1>19. ASSUME NEW t \in Atms, CreateAccount(t) PROVE ListLocked'
  BY <1>19 DEF CreateAccount
<1>20. ASSUME NEW t \in Atms, FindToClose(t) PROVE ListLocked'
  BY <1>20 DEF FindToClose
<1>21. ASSUME NEW t \in Atms, LockToClose(t) PROVE ListLocked'
  BY <1>21 DEF LockToClose
<1>22. ASSUME NEW t \in Atms, CloseAccount(t) PROVE ListLocked'
  BY <1>22 DEF CloseAccount
<1>23. ASSUME NEW t \in Atms, UnlockAccount(t) PROVE ListLocked'
  BY <1>23 DEF UnlockAccount
<1>24. ASSUME NEW t \in Atms \cup {Printer}, RaiseFlag(t) PROVE ListLocked'
  BY <1>24 DEF RaiseFlag
<1>25. ASSUME NEW t \in Atms \cup {Printer}, LockListForWrite(t)
       PROVE  ListLocked'
  BY <1>25 DEF LockListForWrite, AtWork
<1>26. ASSUME NEW t \in Atms \cup {Printer}, UnlockListFromWrite(t)
       PROVE  ListLocked'
  BY <1>26 DEF UnlockListFromWrite
<1>27. ASSUME NEW t \in Atms \cup {Printer}, ClearFlag(t) PROVE ListLocked'
  BY <1>27 DEF ClearFlag
<1>28. ASSUME NEW t \in Atms \cup {Printer}, OpenGate(t) PROVE ListLocked'
  BY <1>28 DEF OpenGate
<1>29. ASSUME NEW t \in Services, Loop(t) PROVE ListLocked'
  BY <1>29 DEF Loop
<1>30. ASSUME PrintAccount PROVE ListLocked'
  BY <1>30 DEF PrintAccount
<1>31. ASSUME PrintBank PROVE ListLocked'
  BY <1>31 DEF PrintBank
<1>32. ASSUME DrawFee PROVE ListLocked'
  BY <1>32 DEF DrawFee
<1>33. ASSUME EnterListForFees PROVE ListLocked'
  BY <1>33 DEF EnterListForFees, LockListForRead
<1>34. ASSUME LockToCharge PROVE ListLocked'
  BY <1>34 DEF LockToCharge
<1>35. ASSUME GainFee PROVE ListLocked'
  BY <1>35 DEF GainFee
<1>36. ASSUME DeductFee PROVE ListLocked'
  BY <1>36 DEF DeductFee
<1>37. ASSUME LogFee PROVE ListLocked'
  BY <1>37 DEF LogFee
<1>38. ASSUME UnlockCharged PROVE ListLocked'
  BY <1>38 DEF UnlockCharged
<1>39. ASSUME LeaveListAfterFees PROVE ListLocked'
  BY <1>39 DEF LeaveListAfterFees, UnlockListFromRead
<1>40. ASSUME JoinAtms PROVE ListLocked'
  BY <1>40 DEF JoinAtms, Join
<1>41. ASSUME JoinFeeCollector PROVE ListLocked'
  BY <1>41 DEF JoinFeeCollector, Join
<1>42. ASSUME JoinPrinter PROVE ListLocked'
  BY <1>42 DEF JoinPrinter, Join
<1>43. CASE UNCHANGED vars
  BY <1>43 DEF vars
<1> HIDE DEF Go, TypeInv, TypeOK, Kinds, ListLocked, Reads, Writes, ReadSteps,
   WriteSteps, Threads, LookupSteps, TransferSteps, ChangeSteps, CloseSteps,
   ListReaders, ListWriters, Op
<1> QED
  BY <1>1, <1>2, <1>3, <1>4, <1>5, <1>6, <1>7, <1>8, <1>9, <1>10, <1>11,
     <1>12, <1>13, <1>14, <1>15, <1>16, <1>17, <1>18, <1>19, <1>20, <1>21,
     <1>22, <1>23, <1>24, <1>25, <1>26, <1>27, <1>28, <1>29, <1>30, <1>31,
     <1>32, <1>33, <1>34, <1>35, <1>36, <1>37, <1>38, <1>39, <1>40, <1>41,
     <1>42, <1>43
  DEF Next, AtmStep, PrinterStep, FeeStep, MainStep, ReadOnList, ChangeList,
      AroundList, Finished, Services

-----------------------------------------------------------------------------
(* The locks of the accounts, and transfer_lock. *)

\* The steps with the account obj[t] locked, and with dst[t] locked too.
ObjLocked == {"lock_dst", "load", "store", "load_dst", "credit", "log",
              "unlock_src", "w_close", "w_unlock_account",
              "gain", "deduct", "fee_log", "fee_unlock"}
DstLocked == {"load", "store", "load_dst", "credit", "log", "unlock_src",
              "unlock_dst"}

\* What a thread asks for: a balance check reads, a transfer has a
\* destination.
Checks(t) == t \in Atms /\ Op(t) = "B"
Transfers(t) == t \in Atms /\ Op(t) = "T"

HoldsForWrite(t, o) ==
  \/ obj[t] = o /\ pc[t] \in ObjLocked /\ ~Checks(t)
  \/ dst[t] = o /\ pc[t] \in DstLocked /\ Transfers(t)
HoldsForRead(t, o) == obj[t] = o /\ pc[t] \in ObjLocked /\ Checks(t)

AccountsLocked ==
  \A o \in Objects :
    /\ \A t \in Threads : acct_writer[o] = t <=> HoldsForWrite(t, o)
    /\ \A t \in Threads : t \in acct_readers[o] <=> HoldsForRead(t, o)
    /\ acct_writer[o] # None => acct_readers[o] = {}

TwoAccounts ==
  \A t \in Threads : pc[t] \in DstLocked /\ Transfers(t) => obj[t] # dst[t]

LockInv == AccountsLocked /\ TwoAccounts

\* No account is locked at first.
LEMMA InitLockInv == Init => LockInv
BY ThreadsAssumption
DEF Init, LockInv, AccountsLocked, TwoAccounts, HoldsForWrite, HoldsForRead,
    ObjLocked, DstLocked, Threads, Services

\* A step of a thread that has no account locked, neither before nor after,
\* and leaves the locks of the accounts alone.
Bystands(t) ==
  /\ pc[t] \notin ObjLocked \cup DstLocked
  /\ pc'[t] \notin ObjLocked \cup DstLocked
  /\ \A s \in Threads \ {t} : /\ pc'[s] = pc[s]
                              /\ obj'[s] = obj[s] /\ dst'[s] = dst[s]
  /\ \A s \in Atms \ {t} : cmd'[s] = cmd[s]
  /\ UNCHANGED acctLocks

\* Such a step keeps LockInv.
LEMMA BystanderStep ==
  ASSUME LockInv, NEW t \in Threads, Bystands(t)
  PROVE  LockInv'
<1>1. ASSUME NEW s \in Threads, NEW o \in Objects
      PROVE  /\ HoldsForWrite(s, o)' <=> HoldsForWrite(s, o)
             /\ HoldsForRead(s, o)' <=> HoldsForRead(s, o)
  <2>1. CASE s = t
    BY <2>1 DEF Bystands, HoldsForWrite, HoldsForRead
  <2>2. CASE s # t
    BY <2>2
    DEF Bystands, HoldsForWrite, HoldsForRead, Checks, Transfers, Op
  <2> QED BY <2>1, <2>2
<1>2. AccountsLocked'
  <2>1. acct_writer' = acct_writer /\ acct_readers' = acct_readers
    BY DEF Bystands
  <2> QED
    BY <1>1, <2>1 DEF LockInv, AccountsLocked
<1>3. TwoAccounts'
  <2> SUFFICES ASSUME NEW s \in Threads, pc'[s] \in DstLocked, Transfers(s)'
               PROVE  obj'[s] # dst'[s]
    BY DEF TwoAccounts
  <2>1. s # t
    BY DEF Bystands
  <2> QED
    BY <2>1 DEF Bystands, LockInv, TwoAccounts, Transfers, Op
<1> QED
  BY <1>2, <1>3 DEF LockInv

\* Every step keeps LockInv.
LEMMA StepLockInv ==
  ASSUME TypeInv, Kinds, LockInv, [Next]_vars
  PROVE  LockInv'
<1> USE ThreadsAssumption
    DEF Go, TypeInv, TypeOK, Kinds, LockInv, AccountsLocked, TwoAccounts,
        HoldsForWrite, HoldsForRead, Checks, Transfers, ObjLocked, DstLocked,
        Threads, Services, LookupSteps, TransferSteps, ChangeSteps,
        CloseSteps, ListReaders, ListWriters, Op
<1>1. ASSUME NEW t \in Atms, ReadLine(t) PROVE LockInv'
  <2>1. Bystands(t) /\ t \in Threads
    BY <1>1 DEF ReadLine, Dispatch, Bystands
  <2> QED
    BY <2>1, BystanderStep
<1>2. ASSUME NEW t \in Atms, EndOfFile(t) PROVE LockInv'
  <2>1. Bystands(t) /\ t \in Threads
    BY <1>2 DEF EndOfFile, Bystands
  <2> QED
    BY <2>1, BystanderStep
<1>3. ASSUME NEW t \in Atms, Log(t) PROVE LockInv'
  BY <1>3 DEF Log
<1>4. ASSUME NEW t \in Atms, CheckGate(t) PROVE LockInv'
  <2>1. Bystands(t) /\ t \in Threads
    BY <1>4 DEF CheckGate, Bystands
  <2> QED
    BY <2>1, BystanderStep
<1>5. ASSUME NEW t \in Atms, PassGate(t) PROVE LockInv'
  <2>1. Bystands(t) /\ t \in Threads
    BY <1>5 DEF PassGate, Bystands
  <2> QED
    BY <2>1, BystanderStep
<1>6. ASSUME NEW t \in Atms, EnterList(t) PROVE LockInv'
  <2>1. Bystands(t) /\ t \in Threads
    BY <1>6 DEF EnterList, LockListForRead, Bystands
  <2> QED
    BY <2>1, BystanderStep
<1>7. ASSUME NEW t \in Atms, LockTransfer(t) PROVE LockInv'
  <2>1. Bystands(t) /\ t \in Threads
    BY <1>7 DEF LockTransfer, Bystands
  <2> QED
    BY <2>1, BystanderStep
<1>8. ASSUME NEW t \in Atms, Find(t) PROVE LockInv'
  <2>1. Bystands(t) /\ t \in Threads
    BY <1>8 DEF Find, Leave, Bystands
  <2> QED
    BY <2>1, BystanderStep
<1>9. ASSUME NEW t \in Atms, LockSource(t) PROVE LockInv'
  BY <1>9
  DEF LockSource, WellPointed, FollowsObj, FollowsDst, LockForRead,
      LockForWrite
<1>10. ASSUME NEW t \in Atms, LockDestination(t) PROVE LockInv'
  BY <1>10
  DEF LockDestination, WellPointed, FollowsObj, FollowsDst, LockForWrite
<1>11. ASSUME NEW t \in Atms, Load(t) PROVE LockInv'
  BY <1>11 DEF Load
<1>12. ASSUME NEW t \in Atms, Store(t) PROVE LockInv'
  BY <1>12 DEF Store
<1>13. ASSUME NEW t \in Atms, LoadDestination(t) PROVE LockInv'
  BY <1>13 DEF LoadDestination
<1>14. ASSUME NEW t \in Atms, Credit(t) PROVE LockInv'
  BY <1>14 DEF Credit
<1>15. ASSUME NEW t \in Atms, UnlockSource(t) PROVE LockInv'
  BY <1>15 DEF UnlockSource, UnlockFromRead, UnlockFromWrite
<1>16. ASSUME NEW t \in Atms, UnlockDestination(t) PROVE LockInv'
  <2>1. /\ pc[t] = "unlock_dst" /\ pc' = [pc EXCEPT ![t] = "unlock_transfer"]
        /\ obj' = obj /\ dst' = dst /\ cmd' = cmd
        /\ acct_writer' = [acct_writer EXCEPT ![dst[t]] = None]
        /\ acct_readers' = acct_readers
    BY <1>16 DEF UnlockDestination, UnlockFromWrite
  <2>2. t \in Threads /\ HoldsForWrite(t, dst[t])
    BY <2>1
  <2>3. ASSUME NEW s \in Threads, NEW o \in Objects
        PROVE  /\ HoldsForWrite(s, o)' <=>
                    HoldsForWrite(s, o) /\ ~(s = t /\ o = dst[t])
               /\ HoldsForRead(s, o)' <=> HoldsForRead(s, o)
    <3>1. CASE s = t
      BY <2>1, <3>1
    <3>2. CASE s # t
      BY <2>1, <3>2
    <3> QED
      BY <3>1, <3>2
  <2>4. TwoAccounts'
    BY <2>1
  <2> QED
    BY <2>1, <2>2, <2>3, <2>4
<1>17. ASSUME NEW t \in Atms, UnlockTransfer(t) PROVE LockInv'
  <2>1. Bystands(t) /\ t \in Threads
    BY <1>17 DEF UnlockTransfer, Bystands
  <2> QED
    BY <2>1, BystanderStep
<1>18. ASSUME NEW t \in Atms, LeaveList(t) PROVE LockInv'
  <2>1. Bystands(t) /\ t \in Threads
    BY <1>18 DEF LeaveList, UnlockListFromRead, ForgetLocals, Bystands
  <2> QED
    BY <2>1, BystanderStep
<1>19. ASSUME NEW t \in Atms, CreateAccount(t) PROVE LockInv'
  <2>1. CASE NotOpen(cmd[t].id)
    <3> DEFINE a == heap_size + 1
    <3>1. /\ a \in Objects
          /\ acct_readers[a] = {} /\ acct_writer[a] = None
          /\ acct_writer' = [acct_writer EXCEPT ![a] = t]
          /\ acct_readers' = acct_readers
          /\ obj' = [obj EXCEPT ![t] = a]
      BY <1>19, <2>1, MaxObjectsAssumption
      DEF CreateAccount, LockForWrite, Objects
    <3>2. /\ pc[t] = "create"
          /\ pc' = [pc EXCEPT ![t] = "log"]
          /\ dst' = dst
          /\ cmd' = cmd
      BY <1>19, <2>1 DEF CreateAccount
    <3> HIDE DEF a
    <3>3. \A s \in Threads, o \in Objects :
            /\ HoldsForWrite(s, o)' <=> HoldsForWrite(s, o) \/ (s = t /\ o = a)
            /\ HoldsForRead(s, o)' <=> HoldsForRead(s, o)
      BY <3>1, <3>2
    <3>4. TwoAccounts'
      BY <3>1, <3>2
    <3> QED
      BY <3>1, <3>3, <3>4
  <2>2. CASE ~NotOpen(cmd[t].id)
    <3>1. \A s \in Threads, o \in Objects :
            /\ HoldsForWrite(s, o)' <=> HoldsForWrite(s, o)
            /\ HoldsForRead(s, o)' <=> HoldsForRead(s, o)
      BY <1>19, <2>2 DEF CreateAccount
    <3>2. TwoAccounts'
      BY <1>19, <2>2 DEF CreateAccount
    <3> QED
      BY <1>19, <2>2, <3>1, <3>2 DEF CreateAccount
  <2> QED
    BY <2>1, <2>2
<1>20. ASSUME NEW t \in Atms, FindToClose(t) PROVE LockInv'
  <2>1. Bystands(t) /\ t \in Threads
    BY <1>20 DEF FindToClose, Bystands
  <2> QED
    BY <2>1, BystanderStep
<1>21. ASSUME NEW t \in Atms, LockToClose(t) PROVE LockInv'
  BY <1>21 DEF LockToClose, WellPointed, FollowsObj, FollowsDst, LockForWrite
<1>22. ASSUME NEW t \in Atms, CloseAccount(t) PROVE LockInv'
  BY <1>22 DEF CloseAccount
<1>23. ASSUME NEW t \in Atms, UnlockAccount(t) PROVE LockInv'
  <2>1. /\ pc[t] = "w_unlock_account"
        /\ pc' = [pc EXCEPT ![t] = "w_unlock_list"]
        /\ obj' = obj /\ dst' = dst /\ cmd' = cmd
        /\ acct_writer' = [acct_writer EXCEPT ![obj[t]] = None]
        /\ acct_readers' = acct_readers
    BY <1>23 DEF UnlockAccount, UnlockFromWrite
  <2>2. t \in Threads /\ HoldsForWrite(t, obj[t])
    BY <2>1
  <2>3. ASSUME NEW s \in Threads, NEW o \in Objects
        PROVE  /\ HoldsForWrite(s, o)' <=>
                    HoldsForWrite(s, o) /\ ~(s = t /\ o = obj[t])
               /\ HoldsForRead(s, o)' <=> HoldsForRead(s, o)
    <3>1. CASE s = t
      BY <2>1, <3>1
    <3>2. CASE s # t
      BY <2>1, <3>2
    <3> QED
      BY <3>1, <3>2
  <2>4. TwoAccounts'
    BY <2>1
  <2> QED
    BY <2>1, <2>2, <2>3, <2>4
<1>24. ASSUME NEW t \in Atms \cup {Printer}, RaiseFlag(t) PROVE LockInv'
  <2>1. Bystands(t) /\ t \in Threads
    BY <1>24 DEF RaiseFlag, Bystands
  <2> QED
    BY <2>1, BystanderStep
<1>25. ASSUME NEW t \in Atms \cup {Printer}, LockListForWrite(t) PROVE LockInv'
  <2>1. Bystands(t) /\ t \in Threads
    BY <1>25 DEF LockListForWrite, AtWork, Bystands
  <2> QED
    BY <2>1, BystanderStep
<1>26. ASSUME NEW t \in Atms \cup {Printer}, UnlockListFromWrite(t)
       PROVE  LockInv'
  <2>1. Bystands(t) /\ t \in Threads
    BY <1>26 DEF UnlockListFromWrite, Bystands
  <2> QED
    BY <2>1, BystanderStep
<1>27. ASSUME NEW t \in Atms \cup {Printer}, ClearFlag(t) PROVE LockInv'
  <2>1. Bystands(t) /\ t \in Threads
    BY <1>27 DEF ClearFlag, Bystands
  <2> QED
    BY <2>1, BystanderStep
<1>28. ASSUME NEW t \in Atms \cup {Printer}, OpenGate(t) PROVE LockInv'
  <2>1. Bystands(t) /\ t \in Threads
    BY <1>28 DEF OpenGate, ForgetLocals, Bystands
  <2> QED
    BY <2>1, BystanderStep
<1>29. ASSUME NEW t \in Services, Loop(t) PROVE LockInv'
  <2>1. Bystands(t) /\ t \in Threads
    BY <1>29 DEF Loop, Bystands
  <2> QED
    BY <2>1, BystanderStep
<1>30. ASSUME PrintAccount PROVE LockInv'
  <2>1. Bystands(Printer) /\ Printer \in Threads
    BY <1>30 DEF PrintAccount, Bystands
  <2> QED
    BY <2>1, BystanderStep
<1>31. ASSUME PrintBank PROVE LockInv'
  <2>1. Bystands(Printer) /\ Printer \in Threads
    BY <1>31 DEF PrintBank, Bystands
  <2> QED
    BY <2>1, BystanderStep
<1>32. ASSUME DrawFee PROVE LockInv'
  <2>1. Bystands(FeeCollector) /\ FeeCollector \in Threads
    BY <1>32 DEF DrawFee, Bystands
  <2> QED
    BY <2>1, BystanderStep
<1>33. ASSUME EnterListForFees PROVE LockInv'
  <2>1. Bystands(FeeCollector) /\ FeeCollector \in Threads
    BY <1>33 DEF EnterListForFees, LockListForRead, Bystands
  <2> QED
    BY <2>1, BystanderStep
<1>34. ASSUME LockToCharge PROVE LockInv'
  <2>1. PICK i \in Ids : /\ IsNext(i, FeeCollector)
                         /\ LockForWrite(FeeCollector, map_of_accounts[i])
                         /\ obj' =
                              [obj EXCEPT ![FeeCollector] = map_of_accounts[i]]
    BY <1>34 DEF LockToCharge
  <2> DEFINE a == map_of_accounts[i]
  <2>2. a \in Objects
    BY <2>1 DEF IsNext, Ahead
  <2>3. /\ acct_readers[a] = {} /\ acct_writer[a] = None
        /\ acct_writer' = [acct_writer EXCEPT ![a] = FeeCollector]
        /\ acct_readers' = acct_readers
        /\ obj' = [obj EXCEPT ![FeeCollector] = a]
    BY <2>1 DEF LockForWrite
  <2> HIDE DEF a
  <2>4. \A s \in Threads, o \in Objects :
          /\ HoldsForWrite(s, o)' <=>
               HoldsForWrite(s, o) \/ (s = FeeCollector /\ o = a)
          /\ HoldsForRead(s, o)' <=> HoldsForRead(s, o)
    BY <1>34, <2>3 DEF LockToCharge
  <2>5. TwoAccounts'
    BY <1>34, <2>3 DEF LockToCharge
  <2>6. /\ acct_writer \in [Objects -> Threads \cup {None}]
        /\ FeeCollector \in Threads /\ None \notin Threads
    OBVIOUS
  <2> QED
    BY <2>2, <2>3, <2>4, <2>5, <2>6
<1>35. ASSUME GainFee PROVE LockInv'
  BY <1>35 DEF GainFee
<1>36. ASSUME DeductFee PROVE LockInv'
  BY <1>36 DEF DeductFee
<1>37. ASSUME LogFee PROVE LockInv'
  BY <1>37 DEF LogFee
<1>38. ASSUME UnlockCharged PROVE LockInv'
  BY <1>38 DEF UnlockCharged, UnlockFromWrite, ForgetLocals
<1>39. ASSUME LeaveListAfterFees PROVE LockInv'
  <2>1. Bystands(FeeCollector) /\ FeeCollector \in Threads
    BY <1>39 DEF LeaveListAfterFees, UnlockListFromRead, Bystands
  <2> QED
    BY <2>1, BystanderStep
<1>40. ASSUME JoinAtms PROVE LockInv'
  BY <1>40 DEF JoinAtms, Join
<1>41. ASSUME JoinFeeCollector PROVE LockInv'
  BY <1>41 DEF JoinFeeCollector, Join
<1>42. ASSUME JoinPrinter PROVE LockInv'
  BY <1>42 DEF JoinPrinter, Join
<1>43. CASE UNCHANGED vars
  BY <1>43 DEF vars
<1> HIDE DEF Go, TypeInv, TypeOK, Kinds, LockInv, AccountsLocked, TwoAccounts,
   HoldsForWrite, HoldsForRead, Checks, Transfers, ObjLocked, DstLocked,
   Threads, LookupSteps, TransferSteps, ChangeSteps, CloseSteps, ListReaders,
   ListWriters, Op
<1> QED
  BY <1>1, <1>2, <1>3, <1>4, <1>5, <1>6, <1>7, <1>8, <1>9, <1>10, <1>11,
     <1>12, <1>13, <1>14, <1>15, <1>16, <1>17, <1>18, <1>19, <1>20, <1>21,
     <1>22, <1>23, <1>24, <1>25, <1>26, <1>27, <1>28, <1>29, <1>30, <1>31,
     <1>32, <1>33, <1>34, <1>35, <1>36, <1>37, <1>38, <1>39, <1>40, <1>41,
     <1>42, <1>43
  DEF Next, AtmStep, PrinterStep, FeeStep, MainStep, ReadOnList, ChangeList,
      AroundList, Finished, Services

\* The steps of a transfer that has transfer_lock.
TransferLockSteps == {"find", "lock_src", "lock_dst", "load", "store",
                      "load_dst", "credit", "log", "unlock_src", "unlock_dst",
                      "unlock_transfer"}

TransferLocked ==
  \A t \in Atms :
    transfer_lock = t <=> Transfers(t) /\ pc[t] \in TransferLockSteps

\* transfer_lock is free at first.
LEMMA InitTransferLocked == Init => TransferLocked
BY ThreadsAssumption DEF Init, TransferLocked, TransferLockSteps, Threads

\* Every step keeps TransferLocked.
LEMMA StepTransferLocked ==
  ASSUME TypeInv, Kinds, TransferLocked, [Next]_vars
  PROVE  TransferLocked'
<1> USE ThreadsAssumption
    DEF Go, TypeInv, TypeOK, Kinds, TransferLocked, Transfers,
        TransferLockSteps, Threads, Services, LookupSteps, TransferSteps,
        ChangeSteps, CloseSteps, ListReaders, ListWriters, Op
<1>1. ASSUME NEW t \in Atms, ReadLine(t) PROVE TransferLocked'
  BY <1>1 DEF ReadLine, Dispatch
<1>2. ASSUME NEW t \in Atms, EndOfFile(t) PROVE TransferLocked'
  BY <1>2 DEF EndOfFile
<1>3. ASSUME NEW t \in Atms, Log(t) PROVE TransferLocked'
  BY <1>3 DEF Log
<1>4. ASSUME NEW t \in Atms, CheckGate(t) PROVE TransferLocked'
  BY <1>4 DEF CheckGate
<1>5. ASSUME NEW t \in Atms, PassGate(t) PROVE TransferLocked'
  BY <1>5 DEF PassGate
<1>6. ASSUME NEW t \in Atms, EnterList(t) PROVE TransferLocked'
  BY <1>6 DEF EnterList, LockListForRead
<1>7. ASSUME NEW t \in Atms, LockTransfer(t) PROVE TransferLocked'
  BY <1>7 DEF LockTransfer
<1>8. ASSUME NEW t \in Atms, Find(t) PROVE TransferLocked'
  BY <1>8 DEF Find, Leave
<1>9. ASSUME NEW t \in Atms, LockSource(t) PROVE TransferLocked'
  BY <1>9 DEF LockSource
<1>10. ASSUME NEW t \in Atms, LockDestination(t) PROVE TransferLocked'
  BY <1>10 DEF LockDestination
<1>11. ASSUME NEW t \in Atms, Load(t) PROVE TransferLocked'
  BY <1>11 DEF Load
<1>12. ASSUME NEW t \in Atms, Store(t) PROVE TransferLocked'
  BY <1>12 DEF Store
<1>13. ASSUME NEW t \in Atms, LoadDestination(t) PROVE TransferLocked'
  BY <1>13 DEF LoadDestination
<1>14. ASSUME NEW t \in Atms, Credit(t) PROVE TransferLocked'
  BY <1>14 DEF Credit
<1>15. ASSUME NEW t \in Atms, UnlockSource(t) PROVE TransferLocked'
  BY <1>15 DEF UnlockSource
<1>16. ASSUME NEW t \in Atms, UnlockDestination(t) PROVE TransferLocked'
  BY <1>16 DEF UnlockDestination
<1>17. ASSUME NEW t \in Atms, UnlockTransfer(t) PROVE TransferLocked'
  BY <1>17 DEF UnlockTransfer
<1>18. ASSUME NEW t \in Atms, LeaveList(t) PROVE TransferLocked'
  BY <1>18 DEF LeaveList, UnlockListFromRead
<1>19. ASSUME NEW t \in Atms, CreateAccount(t) PROVE TransferLocked'
  BY <1>19 DEF CreateAccount
<1>20. ASSUME NEW t \in Atms, FindToClose(t) PROVE TransferLocked'
  BY <1>20 DEF FindToClose
<1>21. ASSUME NEW t \in Atms, LockToClose(t) PROVE TransferLocked'
  BY <1>21 DEF LockToClose
<1>22. ASSUME NEW t \in Atms, CloseAccount(t) PROVE TransferLocked'
  BY <1>22 DEF CloseAccount
<1>23. ASSUME NEW t \in Atms, UnlockAccount(t) PROVE TransferLocked'
  BY <1>23 DEF UnlockAccount
<1>24. ASSUME NEW t \in Atms \cup {Printer}, RaiseFlag(t) PROVE TransferLocked'
  BY <1>24 DEF RaiseFlag
<1>25. ASSUME NEW t \in Atms \cup {Printer}, LockListForWrite(t)
       PROVE  TransferLocked'
  BY <1>25 DEF LockListForWrite, AtWork
<1>26. ASSUME NEW t \in Atms \cup {Printer}, UnlockListFromWrite(t)
       PROVE  TransferLocked'
  BY <1>26 DEF UnlockListFromWrite
<1>27. ASSUME NEW t \in Atms \cup {Printer}, ClearFlag(t) PROVE TransferLocked'
  BY <1>27 DEF ClearFlag
<1>28. ASSUME NEW t \in Atms \cup {Printer}, OpenGate(t) PROVE TransferLocked'
  BY <1>28 DEF OpenGate
<1>29. ASSUME NEW t \in Services, Loop(t) PROVE TransferLocked'
  BY <1>29 DEF Loop
<1>30. ASSUME PrintAccount PROVE TransferLocked'
  BY <1>30 DEF PrintAccount
<1>31. ASSUME PrintBank PROVE TransferLocked'
  BY <1>31 DEF PrintBank
<1>32. ASSUME DrawFee PROVE TransferLocked'
  BY <1>32 DEF DrawFee
<1>33. ASSUME EnterListForFees PROVE TransferLocked'
  BY <1>33 DEF EnterListForFees, LockListForRead
<1>34. ASSUME LockToCharge PROVE TransferLocked'
  BY <1>34 DEF LockToCharge
<1>35. ASSUME GainFee PROVE TransferLocked'
  BY <1>35 DEF GainFee
<1>36. ASSUME DeductFee PROVE TransferLocked'
  BY <1>36 DEF DeductFee
<1>37. ASSUME LogFee PROVE TransferLocked'
  BY <1>37 DEF LogFee
<1>38. ASSUME UnlockCharged PROVE TransferLocked'
  BY <1>38 DEF UnlockCharged
<1>39. ASSUME LeaveListAfterFees PROVE TransferLocked'
  BY <1>39 DEF LeaveListAfterFees, UnlockListFromRead
<1>40. ASSUME JoinAtms PROVE TransferLocked'
  BY <1>40 DEF JoinAtms, Join
<1>41. ASSUME JoinFeeCollector PROVE TransferLocked'
  BY <1>41 DEF JoinFeeCollector, Join
<1>42. ASSUME JoinPrinter PROVE TransferLocked'
  BY <1>42 DEF JoinPrinter, Join
<1>43. CASE UNCHANGED vars
  BY <1>43 DEF vars
<1> HIDE DEF Go, TypeInv, TypeOK, Kinds, TransferLocked, Transfers,
   TransferLockSteps, Threads, LookupSteps, TransferSteps, ChangeSteps,
   CloseSteps, ListReaders, ListWriters, Op
<1> QED
  BY <1>1, <1>2, <1>3, <1>4, <1>5, <1>6, <1>7, <1>8, <1>9, <1>10, <1>11,
     <1>12, <1>13, <1>14, <1>15, <1>16, <1>17, <1>18, <1>19, <1>20, <1>21,
     <1>22, <1>23, <1>24, <1>25, <1>26, <1>27, <1>28, <1>29, <1>30, <1>31,
     <1>32, <1>33, <1>34, <1>35, <1>36, <1>37, <1>38, <1>39, <1>40, <1>41,
     <1>42, <1>43
  DEF Next, AtmStep, PrinterStep, FeeStep, MainStep, ReadOnList, ChangeList,
      AroundList, Finished, Services

-----------------------------------------------------------------------------

HoldInv == TypeInv /\ Kinds /\ ListLocked /\ LockInv /\ TransferLocked

\* In every reachable state the lock variables say where the threads are.
THEOREM HoldInvariance == Spec => []HoldInv
<1>1. Init => HoldInv
  BY InitType, InitKinds, InitListLocked, InitLockInv, InitTransferLocked
  DEF HoldInv
<1>2. HoldInv /\ [Next]_vars => HoldInv'
  BY StepType, StepKinds, StepListLocked, StepLockInv, StepTransferLocked
  DEF HoldInv
<1> QED
  BY <1>1, <1>2, PTL DEF Spec

\* A thread between two commands or rounds holds no lock: NothingKept.
THEOREM NothingIsKept == Spec => []NothingKept
<1>1. HoldInv => NothingKept
  <2> SUFFICES ASSUME HoldInv, NEW t \in Threads, pc[t] \in FreeSteps
               PROVE  /\ t \notin list_readers
                      /\ t \notin {list_writer, transfer_lock}
                      /\ \A o \in Objects : t \notin acct_readers[o]
                                            /\ t # acct_writer[o]
    BY DEF NothingKept
  <2>1. t \notin list_readers /\ t # list_writer
    BY DEF HoldInv, ListLocked, Reads, Writes, ReadSteps, WriteSteps, FreeSteps
  <2>2. t # transfer_lock
    BY ThreadsAssumption
    DEF HoldInv, TypeInv, TypeOK, TransferLocked, TransferLockSteps, FreeSteps
  <2>3. \A o \in Objects : t \notin acct_readers[o] /\ t # acct_writer[o]
    BY DEF HoldInv, LockInv, AccountsLocked, HoldsForWrite, HoldsForRead,
           ObjLocked, DstLocked, FreeSteps
  <2> QED
    BY <2>1, <2>2, <2>3
<1> QED
  BY HoldInvariance, <1>1, PTL

=============================================================================
