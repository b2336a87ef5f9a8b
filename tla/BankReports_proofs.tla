-------------------------- MODULE BankReports_proofs --------------------------
(***************************************************************************)
(* What Bank reports: log.txt says, in order, how every balance came       *)
(* about, and a status print shows the bank at one instant.                *)
(***************************************************************************)
EXTENDS BankAccounts_proofs, SetInduction

USE DEF parserVars, localVars, serviceVars, gateVars, mainVars, listLock,
        acctLocks, mapVars, moneyVars, reportVars

-----------------------------------------------------------------------------
(* Between the change of a balance and its line the log lags behind.       *)

\* The thread t has changed a balance and not written the line yet.
Lags(t) ==
  \/ /\ t \in Atms
     /\ \/ pc[t] = "log" /\ Op(t) \in {"O", "D", "W", "T"}
        \/ pc[t] \in {"load_dst", "credit"}
  \/ t = FeeCollector /\ pc[t] = "fee_log"

\* That line is about the account with id i.
Owes(t, i) ==
  /\ Lags(t)
  /\ IF t \in Atms
     THEN i = cmd[t].id \/ (Op(t) = "T" /\ pc[t] = "log" /\ i = cmd[t].dst)
     ELSE i = cursor[t]

\* What the log will say of i once t has written its line.
Due(t, i) ==
  IF t \notin Atms THEN log_balance[i] - tmp[t]
  ELSE IF Op(t) = "O" THEN cmd[t].amt
  ELSE IF Op(t) = "D" \/ (Op(t) = "T" /\ i # cmd[t].id)
       THEN log_balance[i] + cmd[t].amt
  ELSE log_balance[i] - cmd[t].amt

\* The log is right about i, or will be when the line that is due is there.
Right(i) ==
  /\ (\A t \in Threads : ~Owes(t, i))
       => log_balance[i] = balance[map_of_accounts[i]]
  /\ \A t \in Threads : Owes(t, i) => Due(t, i) = balance[map_of_accounts[i]]

LogInv == \A i \in Ids : map_of_accounts[i] # None => Right(i)

\* The fee collector charges the account of an id.
Charging == {"gain", "deduct", "fee_log", "fee_unlock"}
CursorKnown == pc[FeeCollector] \in Charging => cursor[FeeCollector] \in Ids

-----------------------------------------------------------------------------
(* Which steps concern the log. *)

\* A step leaves the lines t has to write as they are.
Stays(t) ==
  \/ /\ pc'[t] = pc[t]
     /\ t \in Atms => cmd'[t] = cmd[t]
     /\ t = FeeCollector => cursor'[t] = cursor[t] /\ tmp'[t] = tmp[t]
  \/ ~Lags(t) /\ ~Lags(t)'
  \/ pc[t] = "load_dst" /\ pc'[t] = "credit" /\ t \in Atms /\ cmd'[t] = cmd[t]

\* A step that neither writes a line nor makes one due.
Quiet == log_balance' = log_balance /\ \A t \in Threads : Stays(t)

Charges ==
  pc'[FeeCollector] \in Charging =>
    \/ LockToCharge
    \/ /\ pc[FeeCollector] \in Charging
       /\ cursor'[FeeCollector] = cursor[FeeCollector]

\* The steps that make a line due or write it are these.
LEMMA StepQuiet ==
  ASSUME TypeInv, Kinds, [Next]_vars
  PROVE  /\ \/ Quiet
            \/ \E t \in Atms : Store(t) \/ Credit(t) \/ CreateAccount(t)
                               \/ Log(t)
            \/ DeductFee \/ LogFee
         /\ Charges
<1> DEFINE Fits == Quiet /\ Charges
<1> USE ThreadsAssumption
    DEF Quiet, Charges, Charging, Stays, Lags, Op, Go, TypeInv, TypeOK,
        Kinds, PrinterSteps, FeeSteps, Threads, Services
<1>1. ASSUME NEW t \in Atms, ReadLine(t) PROVE Fits
  BY <1>1 DEF ReadLine, Dispatch
<1>2. ASSUME NEW t \in Atms,
             \/ EndOfFile(t) \/ CheckGate(t) \/ PassGate(t)
             \/ EnterList(t) \/ LockTransfer(t) \/ Find(t)
      PROVE  Fits
  BY <1>2 DEF EndOfFile, CheckGate, PassGate, EnterList, LockListForRead,
     LockTransfer, Find, Leave
<1>3. ASSUME NEW t \in Atms, LockSource(t) \/ LockDestination(t)
      PROVE  Fits
  BY <1>3 DEF LockSource, LockDestination
<1>4. ASSUME NEW t \in Atms, Load(t) PROVE Fits
  BY <1>4 DEF Load
<1>5. ASSUME NEW t \in Atms, LoadDestination(t) PROVE Fits
  BY <1>5 DEF LoadDestination
<1>6. ASSUME NEW t \in Atms,
             UnlockSource(t) \/ UnlockDestination(t) \/ UnlockTransfer(t)
      PROVE  Fits
  BY <1>6 DEF UnlockSource, UnlockDestination, UnlockTransfer
<1>7. ASSUME NEW t \in Atms, LeaveList(t) PROVE Fits
  BY <1>7 DEF LeaveList, UnlockListFromRead, ForgetLocals
<1>8. ASSUME NEW t \in Atms, FindToClose(t) \/ LockToClose(t) PROVE Fits
  BY <1>8 DEF FindToClose, LockToClose
<1>9. ASSUME NEW t \in Atms, CloseAccount(t) PROVE Fits
  BY <1>9 DEF CloseAccount, CloseSteps
<1>10. ASSUME NEW t \in Atms, UnlockAccount(t) PROVE Fits
  BY <1>10 DEF UnlockAccount
<1>11. ASSUME NEW t \in Atms \cup {Printer},
              \/ RaiseFlag(t) \/ LockListForWrite(t)
              \/ UnlockListFromWrite(t) \/ ClearFlag(t)
       PROVE  Fits
  BY <1>11 DEF RaiseFlag, LockListForWrite, AtWork, UnlockListFromWrite,
     ClearFlag
<1>12. ASSUME NEW t \in Atms \cup {Printer}, OpenGate(t) PROVE Fits
  BY <1>12 DEF OpenGate, ForgetLocals
<1>13. ASSUME NEW t \in Services, Loop(t) PROVE Fits
  BY <1>13 DEF Loop
<1>14. ASSUME PrintAccount \/ PrintBank PROVE Fits
  BY <1>14 DEF PrintAccount, PrintBank
<1>15. ASSUME DrawFee \/ EnterListForFees PROVE Fits
  BY <1>15 DEF DrawFee, EnterListForFees, LockListForRead
<1>16. ASSUME LockToCharge PROVE Fits
  BY <1>16 DEF LockToCharge
<1>17. ASSUME GainFee PROVE Fits
  BY <1>17 DEF GainFee
<1>18. ASSUME UnlockCharged PROVE Fits
  BY <1>18 DEF UnlockCharged, ForgetLocals
<1>19. ASSUME LeaveListAfterFees PROVE Fits
  BY <1>19 DEF LeaveListAfterFees, UnlockListFromRead
<1>20. ASSUME MainStep PROVE Fits
  BY <1>20 DEF MainStep, JoinAtms, JoinFeeCollector, JoinPrinter, Join
<1>21. CASE UNCHANGED vars
  BY <1>21 DEF vars
<1>22. ASSUME NEW t \in Atms, Store(t) \/ Credit(t) \/ Log(t)
       PROVE  Charges
  BY <1>22 DEF Store, Credit, Log
<1>23. ASSUME NEW t \in Atms, CreateAccount(t) PROVE Charges
  BY <1>23 DEF CreateAccount
<1>24. ASSUME DeductFee \/ LogFee PROVE Charges
  BY <1>24 DEF DeductFee, LogFee
<1> HIDE DEF Quiet, Charges, Go, TypeInv, TypeOK, Kinds, Threads
<1> QED
  BY <1>1, <1>2, <1>3, <1>4, <1>5, <1>6, <1>7, <1>8, <1>9, <1>10, <1>11,
     <1>12, <1>13, <1>14, <1>15, <1>16, <1>17, <1>18, <1>19, <1>20, <1>21,
     <1>22, <1>23, <1>24
  DEF Next, AtmStep, PrinterStep, FeeStep, ReadOnList, ChangeList,
      AroundList, Finished, Services

\* A line that stays due says the same.
LEMMA StaysOwes ==
  ASSUME Kinds, NEW t \in Threads, NEW i \in Ids, Stays(t)
  PROVE  /\ Owes(t, i)' <=> Owes(t, i)
         /\ Owes(t, i) /\ log_balance'[i] = log_balance[i]
              => Due(t, i)' = Due(t, i)
<1> USE ThreadsAssumption
    DEF Kinds, Owes, Due, Stays, Lags, Op, TransferSteps, Threads, Services
<1>1. CASE t \in Atms
  BY <1>1
<1>2. CASE t \notin Atms
  BY <1>2
<1> QED
  BY <1>1, <1>2

-----------------------------------------------------------------------------
(* Who owes a line. *)

\* A thread that owes a line about an account has it locked for writing.
LEMMA DebtorHolds ==
  ASSUME AccountInv, NEW t \in Threads, NEW i \in Ids, Owes(t, i)
  PROVE  /\ map_of_accounts[i] \in Objects
         /\ acct_writer[map_of_accounts[i]] = t
<1> DEFINE o == map_of_accounts[i]
<1> USE ThreadsAssumption
    DEF AccountInv, HoldInv, Kinds, PointersLive, InList, Owes, Lags,
        HoldsForWrite, ObjLocked, DstLocked, Checks, Transfers, UsesObj,
        UsesDst, TransferSteps, Threads, Services
<1>1. CASE t \in Atms /\ i = cmd[t].id
  <2>1. InList(obj[t], i) /\ pc[t] \in ObjLocked /\ ~Checks(t)
    BY <1>1
  <2> QED
    BY <2>1 DEF LockInv, AccountsLocked, TypeInv, TypeOK
<1>2. CASE t \in Atms /\ i # cmd[t].id
  <2>1. InList(dst[t], i) /\ pc[t] \in DstLocked /\ Transfers(t)
    BY <1>2
  <2> QED
    BY <2>1 DEF LockInv, AccountsLocked, TypeInv, TypeOK
<1>3. CASE t \notin Atms
  <2>1. InList(obj[t], i) /\ pc[t] \in ObjLocked /\ ~Checks(t)
    BY <1>3
  <2> QED
    BY <2>1 DEF LockInv, AccountsLocked, TypeInv, TypeOK
<1> QED
  BY <1>1, <1>2, <1>3

\* So nobody else owes one about an account that a thread has locked.
LEMMA HolderAlone ==
  ASSUME AccountInv, NEW t \in Threads, NEW i \in Ids,
         map_of_accounts[i] \in Objects, HoldsForWrite(t, map_of_accounts[i]),
         NEW s \in Threads \ {t}
  PROVE  ~Owes(s, i)
BY DebtorHolds DEF AccountInv, HoldInv, LockInv, AccountsLocked

\* What is not touched stays right.
LEMMA Untouched ==
  ASSUME NEW i \in Ids, Right(i),
         map_of_accounts'[i] = map_of_accounts[i],
         balance'[map_of_accounts[i]] = balance[map_of_accounts[i]],
         log_balance'[i] = log_balance[i],
         \A s \in Threads : /\ Owes(s, i)' <=> Owes(s, i)
                            /\ Owes(s, i) => Due(s, i)' = Due(s, i)
  PROVE  Right(i)'
BY DEF Right

\* The accounts of a transfer have two ids.
LEMMA TwoIds ==
  ASSUME AccountInv, NEW t \in Atms, Op(t) = "T",
         pc[t] \in {"load", "store", "load_dst", "credit", "log"}
  PROVE  cmd[t].id # cmd[t].dst
BY DEF AccountInv, HoldInv, LockInv, TwoAccounts, PointersLive, InList,
       UsesObj, UsesDst, DstLocked, Transfers, Threads

\* A line changes what the log says of those it is about, and no other.
LEMMA LogLine ==
  ASSUME AccountInv, NEW t \in Atms, pc[t] = "log", NEW i \in Ids
  PROVE  LogTo(cmd[t])[i] = IF Owes(t, i) THEN Due(t, i) ELSE log_balance[i]
<1> DEFINE c == cmd[t]
<1>1. log_balance \in [Ids -> Int] /\ c.id \in Ids /\ c.dst \in Ids
  BY CmdType DEF AccountInv, HoldInv, TypeInv, TypeOK
<1> USE DEF Owes, Due, Lags, Op
<1>2. CASE c.op = "O"
  <2>1. LogTo(c) = [log_balance EXCEPT ![c.id] = c.amt]
    BY <1>2 DEF LogTo
  <2> QED
    BY <1>1, <1>2, <2>1
<1>3. CASE c.op = "D"
  <2>1. LogTo(c) = [log_balance EXCEPT ![c.id] = @ + c.amt]
    BY <1>3 DEF LogTo
  <2> QED
    BY <1>1, <1>3, <2>1
<1>4. CASE c.op = "W"
  <2>1. LogTo(c) = [log_balance EXCEPT ![c.id] = @ - c.amt]
    BY <1>4 DEF LogTo
  <2> QED
    BY <1>1, <1>4, <2>1
<1>5. CASE c.op = "T"
  <2>1. LogTo(c) = [log_balance EXCEPT ![c.id] = @ - c.amt,
                                       ![c.dst] = @ + c.amt]
    BY <1>5 DEF LogTo
  <2>2. c.id # c.dst
    BY <1>5, TwoIds
  <2> QED
    BY <1>1, <1>5, <2>1, <2>2
<1>6. CASE c.op \notin {"O", "D", "W", "T"}
  <2>1. LogTo(c) = log_balance
    BY <1>6 DEF LogTo
  <2> QED
    BY <1>6, <2>1
<1> QED
  BY <1>2, <1>3, <1>4, <1>5, <1>6

-----------------------------------------------------------------------------
(* The log stays right. *)

Known == AccountInv /\ CursorKnown /\ Loaded /\ LogInv

\* The write of a deposit, a withdrawal or a debit makes one line due.
LEMMA StepStore ==
  ASSUME Known, NEW t \in Atms, Store(t)
  PROVE  LogInv'
<1> SUFFICES ASSUME NEW i \in Ids, map_of_accounts'[i] # None PROVE Right(i)'
  BY DEF LogInv
<1> DEFINE o == map_of_accounts[i]
<1>1. /\ t \in Threads /\ obj[t] \in Objects /\ pc[t] = "store"
      /\ map_of_accounts[cmd[t].id] = obj[t] /\ cmd[t].id \in Ids
      /\ cmd[t].amt \in Int /\ Op(t) \in {"D", "W", "T"}
      /\ tmp[t] = balance[obj[t]] /\ HoldsForWrite(t, obj[t])
  BY CmdType, ThreadsAssumption
  DEF Known, AccountInv, HoldInv, TypeInv, TypeOK, WellPointed, FollowsObj,
      PointersLive, UsesObj, InList, Kinds, Loaded, Store, Go, HoldsForWrite,
      ObjLocked, Checks, Threads
<1>2. /\ map_of_accounts' = map_of_accounts /\ log_balance' = log_balance
      /\ cmd' = cmd /\ cursor' = cursor /\ tmp' = tmp /\ Right(i)
      /\ pc' = [pc EXCEPT ![t] = IF Op(t) = "T" THEN "load_dst" ELSE "log"]
      /\ balance' = [balance EXCEPT ![obj[t]] =
                       IF Op(t) = "D" THEN tmp[t] + cmd[t].amt
                                      ELSE tmp[t] - cmd[t].amt]
  BY DEF Known, LogInv, Store, Go
<1>3. /\ pc \in [Threads -> Steps] /\ o \in Objects
      /\ balance \in [Objects -> Int] /\ log_balance \in [Ids -> Int]
  BY <1>2 DEF Known, AccountInv, HoldInv, TypeInv, TypeOK
<1>4. ASSUME NEW s \in Threads \ {t}
      PROVE  /\ Owes(s, i)' <=> Owes(s, i)
             /\ Owes(s, i) => Due(s, i)' = Due(s, i)
  BY <1>2, <1>3, StaysOwes DEF Stays, Known, AccountInv, HoldInv
<1>5. ~Owes(t, i)
  BY <1>1, ThreadsAssumption DEF Owes, Lags
<1>6. CASE i # cmd[t].id
  <2>1. ~Owes(t, i)'
    BY <1>1, <1>2, <1>3, <1>6, ThreadsAssumption DEF Owes, Lags, Op
  <2>2. o # obj[t]
    BY <1>1, <1>2, <1>6 DEF Known, AccountInv, MapInv, OpenOnce
  <2> QED
    BY <1>2, <1>3, <1>4, <1>5, <2>1, <2>2, Untouched
<1>7. CASE i = cmd[t].id
  <2>1. \A s \in Threads \ {t} : ~Owes(s, i)
    BY <1>1, <1>7, HolderAlone DEF Known
  <2>2. log_balance[i] = balance[o]
    BY <1>2, <1>5, <2>1 DEF Right
  <2>3. Owes(t, i)'
    BY <1>1, <1>2, <1>3, <1>7 DEF Owes, Lags, Op
  <2>4. Op(t) = "T" => i # cmd[t].dst
    BY <1>1, <1>7, TwoIds DEF Known
  <2>5. Due(t, i)' = balance'[o]
    BY <1>1, <1>2, <1>3, <1>7, <2>2, <2>4 DEF Due, Op
  <2> QED
    BY <1>1, <1>2, <1>4, <2>1, <2>3, <2>5 DEF Right
<1> QED
  BY <1>6, <1>7

\* The credit of a transfer makes the second half of its line due.
LEMMA StepCredit ==
  ASSUME Known, NEW t \in Atms, Credit(t)
  PROVE  LogInv'
<1> SUFFICES ASSUME NEW i \in Ids, map_of_accounts'[i] # None PROVE Right(i)'
  BY DEF LogInv
<1> DEFINE o == map_of_accounts[i]
<1>1. /\ t \in Threads /\ dst[t] \in Objects /\ pc[t] = "credit"
      /\ map_of_accounts[cmd[t].dst] = dst[t]
      /\ cmd[t].dst \in Ids /\ cmd[t].id \in Ids
      /\ cmd[t].amt \in Int /\ Op(t) = "T"
      /\ tmp[t] = balance[dst[t]] /\ HoldsForWrite(t, dst[t])
  BY CmdType, ThreadsAssumption
  DEF Known, AccountInv, HoldInv, TypeInv, TypeOK, WellPointed, FollowsDst,
      PointersLive, UsesDst, InList, Kinds, TransferSteps, Loaded, Credit, Go,
      HoldsForWrite, DstLocked, Transfers, Threads
<1>2. /\ map_of_accounts' = map_of_accounts /\ log_balance' = log_balance
      /\ cmd' = cmd /\ cursor' = cursor /\ tmp' = tmp /\ Right(i)
      /\ pc' = [pc EXCEPT ![t] = "log"]
      /\ balance' = [balance EXCEPT ![dst[t]] = tmp[t] + cmd[t].amt]
  BY DEF Known, LogInv, Credit, Go
<1>3. /\ pc \in [Threads -> Steps] /\ o \in Objects
      /\ balance \in [Objects -> Int] /\ log_balance \in [Ids -> Int]
  BY <1>2 DEF Known, AccountInv, HoldInv, TypeInv, TypeOK
<1>4. ASSUME NEW s \in Threads \ {t}
      PROVE  /\ Owes(s, i)' <=> Owes(s, i)
             /\ Owes(s, i) => Due(s, i)' = Due(s, i)
  BY <1>2, <1>3, StaysOwes DEF Stays, Known, AccountInv, HoldInv
<1>5. cmd[t].id # cmd[t].dst
  BY <1>1, TwoIds DEF Known
<1>6. CASE i # cmd[t].dst
  <2>1. /\ Owes(t, i)' <=> Owes(t, i)
        /\ Owes(t, i) => Due(t, i)' = Due(t, i)
    BY <1>1, <1>2, <1>3, <1>6, ThreadsAssumption DEF Owes, Lags, Due, Op
  <2>2. o # dst[t]
    BY <1>1, <1>2, <1>6 DEF Known, AccountInv, MapInv, OpenOnce
  <2> QED
    BY <1>2, <1>3, <1>4, <2>1, <2>2, Untouched
<1>7. CASE i = cmd[t].dst
  <2>1. \A s \in Threads \ {t} : ~Owes(s, i)
    BY <1>1, <1>7, HolderAlone DEF Known
  <2>2. ~Owes(t, i)
    BY <1>1, <1>5, <1>7, ThreadsAssumption DEF Owes
  <2>3. log_balance[i] = balance[o]
    BY <1>2, <2>1, <2>2 DEF Right
  <2>4. Owes(t, i)' /\ Due(t, i)' = balance'[o]
    BY <1>1, <1>2, <1>3, <1>5, <1>7, <2>3 DEF Owes, Lags, Due, Op
  <2> QED
    BY <1>1, <1>2, <1>4, <2>1, <2>4 DEF Right
<1> QED
  BY <1>6, <1>7

\* A new account's first line is due, unless nothing was created.
LEMMA StepCreate ==
  ASSUME Known, NEW t \in Atms, CreateAccount(t)
  PROVE  LogInv'
<1> SUFFICES ASSUME NEW i \in Ids, map_of_accounts'[i] # None PROVE Right(i)'
  BY DEF LogInv
<1> DEFINE n == heap_size + 1
           id == cmd[t].id
<1>1. /\ t \in Threads /\ pc[t] = "create" /\ Op(t) = "O"
      /\ id \in Ids /\ cmd[t].amt \in Int
      /\ pc \in [Threads -> Steps]
      /\ balance \in [Objects -> Int] /\ log_balance \in [Ids -> Int]
      /\ map_of_accounts \in [Ids -> Objects \cup {None}]
  BY CmdType
  DEF Known, AccountInv, HoldInv, TypeInv, TypeOK, Kinds, CreateAccount, Go,
      Threads
<1>2. /\ log_balance' = log_balance /\ cmd' = cmd /\ cursor' = cursor
      /\ tmp' = tmp
      /\ pc' = [pc EXCEPT ![t] = IF NotOpen(id) THEN "log"
                                               ELSE "w_unlock_list"]
  BY DEF CreateAccount, Go
<1>3. ASSUME NEW s \in Threads \ {t}
      PROVE  /\ Owes(s, i)' <=> Owes(s, i)
             /\ Owes(s, i) => Due(s, i)' = Due(s, i)
  BY <1>1, <1>2, StaysOwes DEF Stays, Known, AccountInv, HoldInv
<1>4. ~Owes(t, i)
  BY <1>1, ThreadsAssumption DEF Owes, Lags
<1>5. CASE ~NotOpen(id)
  <2>1. balance' = balance /\ map_of_accounts' = map_of_accounts
    BY <1>5 DEF CreateAccount
  <2>2. ~Owes(t, i)'
    BY <1>1, <1>2, <1>5, ThreadsAssumption DEF Owes, Lags
  <2>3. Right(i)
    BY <2>1 DEF Known, LogInv
  <2> QED
    BY <1>2, <1>3, <1>4, <2>1, <2>2, <2>3, Untouched
<1>6. CASE NotOpen(id)
  <2>1. map_of_accounts[id] = None
    BY <1>1, <1>6 DEF NotOpen, Known, AccountInv, MapInv, OpenLive
  <2>2. /\ n \in Objects /\ balance' = [balance EXCEPT ![n] = cmd[t].amt]
        /\ map_of_accounts' = [map_of_accounts EXCEPT ![id] = n]
    BY <1>6, <2>1, MaxObjectsAssumption
    DEF CreateAccount, Insert, Known, AccountInv, HoldInv, TypeInv, TypeOK,
        Objects
  <2>3. Owes(t, i)' <=> i = id
    BY <1>1, <1>2, <1>6 DEF Owes, Lags, Op
  <2>4. CASE i # id
    <3>1. map_of_accounts'[i] = map_of_accounts[i] /\ Right(i)
      BY <1>1, <2>2, <2>4 DEF Known, LogInv
    <3>2. map_of_accounts[i] # n
      BY <1>1, <3>1, MaxObjectsAssumption
      DEF Known, AccountInv, MapInv, OpenLive, HoldInv, TypeInv, TypeOK
    <3>3. balance'[map_of_accounts[i]] = balance[map_of_accounts[i]]
      BY <1>1, <2>2, <3>1, <3>2
    <3> QED
      BY <1>2, <1>3, <1>4, <2>3, <2>4, <3>1, <3>3, Untouched
  <2>5. CASE i = id
    <3>1. \A s \in Threads \ {t} : ~Owes(s, i)
      BY <2>1, <2>5, DebtorHolds, ThreadsAssumption DEF Known
    <3>2. Due(t, i)' = balance'[map_of_accounts'[i]]
      BY <1>1, <1>2, <2>2, <2>5 DEF Due, Op
    <3> QED
      BY <1>1, <1>3, <2>3, <2>5, <3>1, <3>2 DEF Right
  <2> QED
    BY <2>4, <2>5
<1> QED
  BY <1>5, <1>6

\* The line pays what was due.
LEMMA StepLog ==
  ASSUME Known, NEW t \in Atms, Log(t)
  PROVE  LogInv'
<1> SUFFICES ASSUME NEW i \in Ids, map_of_accounts'[i] # None PROVE Right(i)'
  BY DEF LogInv
<1>1. /\ t \in Threads /\ pc[t] = "log" /\ pc \in [Threads -> Steps]
      /\ map_of_accounts' = map_of_accounts /\ balance' = balance
      /\ cmd' = cmd /\ cursor' = cursor /\ tmp' = tmp /\ Right(i)
      /\ pc' = [pc EXCEPT ![t] = IF Op(t) \in ListWriters
                                 THEN "w_unlock_account" ELSE "unlock_src"]
  BY DEF Known, AccountInv, HoldInv, TypeInv, TypeOK, LogInv, Log, Go, Threads
<1>2. log_balance'[i] = IF Owes(t, i) THEN Due(t, i) ELSE log_balance[i]
  BY <1>1, LogLine DEF Log, Known
<1>3. ~Owes(t, i)'
  BY <1>1, ThreadsAssumption DEF Owes, Lags
<1>4. ASSUME NEW s \in Threads \ {t}
      PROVE  /\ Owes(s, i)' <=> Owes(s, i)
             /\ Owes(s, i) /\ log_balance'[i] = log_balance[i]
                  => Due(s, i)' = Due(s, i)
  BY <1>1, StaysOwes DEF Stays, Known, AccountInv, HoldInv
<1>5. CASE Owes(t, i)
  <2>1. \A s \in Threads \ {t} : ~Owes(s, i)
    BY <1>1, <1>5, DebtorHolds DEF Known
  <2> QED
    BY <1>1, <1>2, <1>3, <1>4, <1>5, <2>1 DEF Right
<1>6. CASE ~Owes(t, i)
  BY <1>1, <1>2, <1>3, <1>4, <1>6, Untouched
<1> QED
  BY <1>5, <1>6

\* What the fee collector is at while it has charged an account.
LEMMA Charged ==
  ASSUME Known, pc[FeeCollector] \in {"deduct", "fee_log"}
  PROVE  /\ FeeCollector \in Threads \ Atms
         /\ cursor[FeeCollector] \in Ids /\ obj[FeeCollector] \in Objects
         /\ map_of_accounts[cursor[FeeCollector]] = obj[FeeCollector]
         /\ HoldsForWrite(FeeCollector, obj[FeeCollector])
         /\ tmp[FeeCollector] \in Int /\ pc \in [Threads -> Steps]
         /\ balance \in [Objects -> Int] /\ log_balance \in [Ids -> Int]
BY ThreadsAssumption
DEF Known, CursorKnown, Charging, AccountInv, HoldInv, TypeInv, TypeOK,
    WellPointed, FollowsObj, PointersLive, UsesObj, InList, HoldsForWrite,
    ObjLocked, Checks, Threads, Services

\* A fee that has been deducted makes its line due.
LEMMA StepDeduct ==
  ASSUME Known, DeductFee
  PROVE  LogInv'
<1> SUFFICES ASSUME NEW i \in Ids, map_of_accounts'[i] # None PROVE Right(i)'
  BY DEF LogInv
<1> DEFINE t == FeeCollector
           o == map_of_accounts[i]
<1>1. /\ pc[t] = "deduct" /\ pc' = [pc EXCEPT ![t] = "fee_log"]
      /\ map_of_accounts' = map_of_accounts /\ log_balance' = log_balance
      /\ cmd' = cmd /\ cursor' = cursor /\ tmp' = tmp /\ Right(i)
      /\ balance' = [balance EXCEPT ![obj[t]] = @ - tmp[t]]
  BY DEF Known, LogInv, DeductFee, Go
<1>2. /\ t \in Threads \ Atms /\ cursor[t] \in Ids /\ obj[t] \in Objects
      /\ map_of_accounts[cursor[t]] = obj[t] /\ HoldsForWrite(t, obj[t])
      /\ tmp[t] \in Int /\ pc \in [Threads -> Steps]
      /\ balance \in [Objects -> Int] /\ log_balance \in [Ids -> Int]
  BY <1>1, Charged
<1>3. ASSUME NEW s \in Threads \ {t}
      PROVE  /\ Owes(s, i)' <=> Owes(s, i)
             /\ Owes(s, i) => Due(s, i)' = Due(s, i)
  BY <1>1, <1>2, StaysOwes DEF Stays, Known, AccountInv, HoldInv
<1>4. ~Owes(t, i) /\ (Owes(t, i)' <=> i = cursor[t])
  BY <1>1, <1>2 DEF Owes, Lags
<1>5. CASE i # cursor[t]
  <2>1. o # obj[t]
    BY <1>1, <1>2, <1>5 DEF Known, AccountInv, MapInv, OpenOnce
  <2> QED
    BY <1>1, <1>2, <1>3, <1>4, <1>5, <2>1, Untouched
<1>6. CASE i = cursor[t]
  <2>1. \A s \in Threads \ {t} : ~Owes(s, i)
    BY <1>2, <1>6, HolderAlone DEF Known
  <2>2. log_balance[i] = balance[o]
    BY <1>1, <1>4, <2>1 DEF Right
  <2>3. Due(t, i)' = balance'[o]
    BY <1>1, <1>2, <1>6, <2>2 DEF Due
  <2> QED
    BY <1>1, <1>2, <1>3, <1>4, <1>6, <2>1, <2>3 DEF Right
<1> QED
  BY <1>5, <1>6

\* The fee's line pays what was due.
LEMMA StepLogFee ==
  ASSUME Known, LogFee
  PROVE  LogInv'
<1> SUFFICES ASSUME NEW i \in Ids, map_of_accounts'[i] # None PROVE Right(i)'
  BY DEF LogInv
<1> DEFINE t == FeeCollector
<1>1. /\ pc[t] = "fee_log" /\ pc' = [pc EXCEPT ![t] = "fee_unlock"]
      /\ map_of_accounts' = map_of_accounts /\ balance' = balance
      /\ cmd' = cmd /\ cursor' = cursor /\ tmp' = tmp /\ Right(i)
      /\ log_balance' = [log_balance EXCEPT ![cursor[t]] = @ - tmp[t]]
  BY DEF Known, LogInv, LogFee, Go
<1>2. /\ t \in Threads \ Atms /\ cursor[t] \in Ids
      /\ tmp[t] \in Int /\ pc \in [Threads -> Steps]
      /\ log_balance \in [Ids -> Int]
  BY <1>1, Charged
<1>3. ASSUME NEW s \in Threads \ {t}
      PROVE  /\ Owes(s, i)' <=> Owes(s, i)
             /\ Owes(s, i) /\ log_balance'[i] = log_balance[i]
                  => Due(s, i)' = Due(s, i)
  BY <1>1, <1>2, StaysOwes DEF Stays, Known, AccountInv, HoldInv
<1>4. ~Owes(t, i)' /\ (Owes(t, i) <=> i = cursor[t])
  BY <1>1, <1>2 DEF Owes, Lags
<1>5. CASE Owes(t, i)
  <2>1. \A s \in Threads \ {t} : ~Owes(s, i)
    BY <1>2, <1>5, DebtorHolds DEF Known
  <2>2. log_balance'[i] = Due(t, i)
    BY <1>1, <1>2, <1>4, <1>5 DEF Due
  <2> QED
    BY <1>1, <1>2, <1>3, <1>4, <1>5, <2>1, <2>2 DEF Right
<1>6. CASE ~Owes(t, i)
  BY <1>1, <1>2, <1>3, <1>4, <1>6, Untouched
<1> QED
  BY <1>5, <1>6

\* No other step disturbs the log.
LEMMA StepRest ==
  ASSUME Known, [Next]_vars, Quiet, ~DeductFee,
         \A t \in Atms : ~Store(t) /\ ~Credit(t) /\ ~CreateAccount(t)
  PROVE  LogInv'
<1> SUFFICES ASSUME NEW i \in Ids, map_of_accounts'[i] # None PROVE Right(i)'
  BY DEF LogInv
<1>1. balance' = balance
  BY MoneyChanges DEF GainFee
<1>2. map_of_accounts'[i] = map_of_accounts[i]
  <2>1. CASE UNCHANGED mapVars
    BY <2>1
  <2>2. ASSUME NEW t \in Atms, CloseAccount(t)
        PROVE  map_of_accounts'[i] = map_of_accounts[i]
    BY <2>2 DEF CloseAccount, Known, AccountInv, HoldInv, TypeInv, TypeOK
  <2> QED
    BY <2>1, <2>2, MapsChange
<1>3. Right(i)
  BY <1>2 DEF Known, LogInv
<1>4. \A s \in Threads : /\ Owes(s, i)' <=> Owes(s, i)
                         /\ Owes(s, i) => Due(s, i)' = Due(s, i)
  BY StaysOwes DEF Quiet, Known, AccountInv, HoldInv
<1> QED
  BY <1>1, <1>2, <1>3, <1>4, Untouched DEF Quiet

-----------------------------------------------------------------------------

\* In every reachable state the log is right about every account, or will
\* be when the line that is due is written.
THEOREM LogInvariance == Spec => [](CursorKnown /\ LogInv)
<1>1. Init => CursorKnown /\ LogInv
  BY DEF Init, CursorKnown, Charging, LogInv, Threads, Services
<1>2. ASSUME AccountInv, CursorKnown, [Next]_vars PROVE CursorKnown'
  <2>1. Charges
    BY <1>2, StepQuiet DEF AccountInv, HoldInv
  <2>2. LockToCharge => cursor'[FeeCollector] \in Ids
    BY <1>2 DEF LockToCharge, AccountInv, HoldInv, TypeInv, TypeOK, Services
  <2> QED
    BY <1>2, <2>1, <2>2 DEF CursorKnown, Charges
<1>3. ASSUME Known, [Next]_vars PROVE LogInv'
  BY <1>3, StepQuiet, StepStore, StepCredit, StepCreate, StepLog, StepDeduct,
     StepLogFee, StepRest
  DEF Known, AccountInv, HoldInv
<1>4. /\ AccountInv /\ Loaded /\ CursorKnown /\ LogInv /\ [Next]_vars
      => CursorKnown' /\ LogInv'
  BY <1>2, <1>3 DEF Known
<1> QED
  BY AccountInvariance, LoadedInvariance, <1>1, <1>4, PTL DEF Spec

\* Whenever nobody is changing an account, the lines of log.txt add up to
\* its balance: LogReplays.
THEOREM LogIsReplayed == Spec => []LogReplays
<1>1. ASSUME AccountInv, LogInv PROVE LogReplays
  <2> SUFFICES ASSUME NEW i \in Ids, map_of_accounts[i] # None,
                      acct_writer[map_of_accounts[i]] = None
               PROVE  log_balance[i] = balance[map_of_accounts[i]]
    BY DEF LogReplays
  <2>1. \A t \in Threads : ~Owes(t, i)
    BY <1>1, DebtorHolds, ThreadsAssumption
  <2> QED
    BY <1>1, <2>1 DEF LogInv, Right
<1> QED
  BY AccountInvariance, LogInvariance, <1>1, PTL

-----------------------------------------------------------------------------
(* What Total adds up.  Its recursion is over the accounts.                *)

\* One step of the recursion of Total.
Added(S, f, o) ==
  IF o = 0 THEN 0 ELSE f[o - 1] + (IF o \in S THEN balance[o] ELSE 0)

\* f follows the recursion up to the account m.
Follows(S, f, m) == f = [o \in 0..m |-> Added(S, f, o)]

\* There is a function that follows it to any account.
LEMMA FollowerExists ==
  ASSUME NEW S, NEW m \in Nat
  PROVE  \E f : Follows(S, f, m)
<1> DEFINE Good == {n \in Nat : \E f : Follows(S, f, n)}
<1>1. 0 \in Good
  <2> DEFINE g == [n \in 0..0 |-> 0]
  <2>1. Follows(S, g, 0)
    BY DEF Follows, Added
  <2> QED BY <2>1
<1>2. ASSUME NEW n \in Nat, n \in Good PROVE n + 1 \in Good
  <2>1. PICK f : Follows(S, f, n)
    BY <1>2
  <2> DEFINE g == [k \in 0..(n + 1) |->
                     IF k = n + 1 THEN Added(S, f, k) ELSE f[k]]
  <2>2. ASSUME NEW k \in 0..(n + 1) PROVE g[k] = Added(S, g, k)
    <3>1. CASE k = 0
      BY <3>1, <2>1 DEF Follows, Added
    <3>2. CASE k # 0
      <4>1. k - 1 \in 0..n /\ g[k - 1] = f[k - 1]
        BY <3>2
      <4>2. Added(S, g, k) = Added(S, f, k)
        BY <3>2, <4>1 DEF Added
      <4>3. CASE k = n + 1
        BY <4>2, <4>3
      <4>4. CASE k # n + 1
        <5>1. k \in 0..n
          BY <4>4
        <5>2. f[k] = Added(S, f, k)
          BY <2>1, <5>1 DEF Follows
        <5> QED BY <4>2, <4>4, <5>2
      <4> QED BY <4>3, <4>4
    <3> QED BY <3>1, <3>2
  <2>3. g = [k \in 0..(n + 1) |-> g[k]]
    OBVIOUS
  <2>4. Follows(S, g, n + 1)
    <3> HIDE DEF g
    <3> QED BY <2>2, <2>3 DEF Follows
  <2> QED BY <2>4
<1>3. Nat \subseteq Good
  <2> HIDE DEF Good
  <2> QED BY <1>1, <1>2, Induction
<1> QED BY <1>3

\* Total is where such a function ends.
LEMMA TotalFollows ==
  ASSUME NEW S
  PROVE  \E f : Follows(S, f, MaxObjects) /\ Total(S) = f[MaxObjects]
<1> DEFINE up == CHOOSE f : Follows(S, f, MaxObjects)
<1>1. Total(S) = up[MaxObjects]
  BY DEF Total, Follows, Added
<1>2. Follows(S, up, MaxObjects)
  BY FollowerExists, MaxObjectsAssumption
<1> QED BY <1>1, <1>2

\* No account, no money.
LEMMA TotalOfNone == Total({}) = 0
<1>1. PICK f : Follows({}, f, MaxObjects) /\ Total({}) = f[MaxObjects]
  BY TotalFollows
<1> DEFINE Good == {n \in Nat : n <= MaxObjects => f[n] = 0}
<1>2. 0 \in Good
  BY <1>1, MaxObjectsAssumption DEF Follows, Added
<1>3. ASSUME NEW n \in Nat, n \in Good PROVE n + 1 \in Good
  <2> SUFFICES ASSUME n + 1 <= MaxObjects PROVE f[n + 1] = 0
    OBVIOUS
  <2>1. n + 1 \in 0..MaxObjects /\ f[n] = 0
    BY <1>3, MaxObjectsAssumption
  <2>2. f[n + 1] = Added({}, f, n + 1)
    BY <1>1, <2>1 DEF Follows
  <2> QED BY <2>1, <2>2 DEF Added
<1>4. Nat \subseteq Good
  <2> HIDE DEF Good
  <2> QED BY <1>2, <1>3, Induction
<1> QED BY <1>1, <1>4, MaxObjectsAssumption

\* An account more adds its balance.
LEMMA TotalOfMore ==
  ASSUME TypeOK, NEW S \in SUBSET Objects, NEW x \in Objects \ S
  PROVE  Total(S \cup {x}) = Total(S) + balance[x]
<1>1. PICK f : Follows(S, f, MaxObjects) /\ Total(S) = f[MaxObjects]
  BY TotalFollows
<1> DEFINE T == S \cup {x}
<1>2. PICK g : Follows(T, g, MaxObjects) /\ Total(T) = g[MaxObjects]
  BY TotalFollows
<1>3. /\ \A o \in 1..MaxObjects : balance[o] \in Int
      /\ x \in 1..MaxObjects
  BY DEF TypeOK, Objects
<1> DEFINE More(n) == IF x <= n THEN balance[x] ELSE 0
           Good == {n \in Nat : n <= MaxObjects =>
                                   f[n] \in Int /\ g[n] = f[n] + More(n)}
<1>4. 0 \in Good
  <2>1. f[0] = 0 /\ g[0] = 0
    BY <1>1, <1>2, MaxObjectsAssumption DEF Follows, Added
  <2> QED BY <1>3, <2>1
<1>5. ASSUME NEW n \in Nat, n \in Good PROVE n + 1 \in Good
  <2> SUFFICES ASSUME n + 1 <= MaxObjects
               PROVE  f[n + 1] \in Int /\ g[n + 1] = f[n + 1] + More(n + 1)
    OBVIOUS
  <2>1. /\ n + 1 \in 0..MaxObjects /\ n + 1 \in 1..MaxObjects
        /\ f[n] \in Int /\ g[n] = f[n] + More(n)
    BY <1>5, MaxObjectsAssumption
  <2> HIDE DEF T, More
  <2>2. f[n + 1] = f[n] + (IF n + 1 \in S THEN balance[n + 1] ELSE 0)
    <3>1. f[n + 1] = Added(S, f, n + 1)
      BY <1>1, <2>1 DEF Follows
    <3> QED BY <2>1, <3>1 DEF Added
  <2>3. g[n + 1] = g[n] + (IF n + 1 \in T THEN balance[n + 1] ELSE 0)
    <3>1. g[n + 1] = Added(T, g, n + 1)
      BY <1>2, <2>1 DEF Follows
    <3> QED BY <2>1, <3>1 DEF Added
  <2>4. balance[n + 1] \in Int /\ balance[x] \in Int
    BY <1>3, <2>1
  <2>5. CASE n + 1 = x
    <3>1. More(n) = 0 /\ More(n + 1) = balance[x]
      BY <1>3, <2>1, <2>5 DEF More
    <3>2. f[n + 1] = f[n] /\ g[n + 1] = g[n] + balance[x]
      BY <2>1, <2>2, <2>3, <2>4, <2>5 DEF T
    <3> QED BY <2>1, <2>4, <3>1, <3>2
  <2>6. CASE n + 1 # x
    <3>1. More(n + 1) = More(n) /\ More(n) \in Int
      BY <1>3, <2>4, <2>6 DEF More
    <3>2. n + 1 \in T <=> n + 1 \in S
      BY <2>6 DEF T
    <3>3. \E z \in Int : f[n + 1] = f[n] + z /\ g[n + 1] = g[n] + z
      BY <2>2, <2>3, <2>4, <3>2
    <3> QED BY <2>1, <3>1, <3>3
  <2> QED BY <2>5, <2>6
<1>6. Nat \subseteq Good
  <2> HIDE DEF Good
  <2> QED BY <1>4, <1>5, Induction
<1> QED BY <1>1, <1>2, <1>3, <1>6, MaxObjectsAssumption

-----------------------------------------------------------------------------
(* The status print.                                                       *)

\* The accounts the printer has a line for, and those it is to have one for.
Visited == {o \in Objects : \E i \in Ids : /\ i <= cursor[Printer]
                                          /\ map_of_accounts[i] = o}
Listed == {o \in Objects : \E i \in Ids : map_of_accounts[i] = o}

\* The lines so far add up to what is now on the accounts they are about.
StatusInv ==
  /\ pc[Printer] = "print" => printed = Total(Visited)
  /\ pc[Printer] = "w_unlock_list" => printed = bank_balance + Total(Listed)
  /\ pc[Printer] \notin {"print", "w_unlock_list"} => printed = 0

\* While the printer has the list, nobody moves money or changes the list.
LEMMA PrinterAlone ==
  ASSUME HoldInv, [Next]_vars, pc[Printer] \in {"print", "w_unlock_list"}
  PROVE  UNCHANGED <<map_of_accounts, balance, bank_balance>>
<1>1. list_writer = Printer /\ Printer \in Threads /\ Printer \notin Atms
  BY ThreadsAssumption
  DEF HoldInv, ListLocked, Writes, WriteSteps, Threads, Services
<1>2. ASSUME NEW t \in Threads \ {Printer} PROVE ~Reads(t) /\ ~Writes(t)
  BY <1>1, ThreadsAssumption DEF HoldInv, ListLocked
<1>3. FeeCollector \in Threads \ {Printer}
  BY ThreadsAssumption DEF Threads, Services
<1>4. \A t \in Atms : t \in Threads \ {Printer}
  BY <1>1 DEF Threads
<1>5. UNCHANGED moneyVars
  <2>1. \A t \in Atms : pc[t] \notin {"store", "credit", "create"}
    BY <1>2, <1>4 DEF Reads, Writes, ReadSteps, WriteSteps
  <2>2. pc[FeeCollector] \notin {"gain", "deduct"}
    BY <1>2, <1>3 DEF Reads, ReadSteps
  <2> HIDE DEF moneyVars
  <2> QED
    BY <2>1, <2>2, MoneyChanges
    DEF Store, Credit, CreateAccount, GainFee, DeductFee, Go
<1>6. UNCHANGED mapVars
  <2>1. \A t \in Atms : pc[t] \notin {"create", "w_close"}
    BY <1>2, <1>4 DEF Reads, Writes, ReadSteps, WriteSteps
  <2> HIDE DEF mapVars
  <2> QED
    BY <2>1, MapsChange DEF CreateAccount, CloseAccount, Go
<1> QED BY <1>5, <1>6

\* The steps of the other threads leave the status print alone.
LEMMA OthersPrintNothing ==
  ASSUME TypeOK, [Next]_vars, ~PrinterStep
  PROVE  /\ printed' = printed
         /\ pc'[Printer] = pc[Printer] /\ cursor'[Printer] = cursor[Printer]
<1> USE ThreadsAssumption DEF TypeOK, Go, Threads, Services
<1>1. ASSUME NEW t \in Atms, ReadOnList(t)
      PROVE  UNCHANGED <<printed, pc[Printer], cursor[Printer]>>
  BY <1>1
  DEF ReadOnList, CheckGate, PassGate, EnterList, LockListForRead,
      LockTransfer, Find, LockSource, LockDestination, Load, Store,
      LoadDestination, Credit, UnlockSource, UnlockDestination,
      UnlockTransfer, LeaveList, UnlockListFromRead
<1>2. ASSUME NEW t \in Atms, ChangeList(t)
      PROVE  UNCHANGED <<printed, pc[Printer], cursor[Printer]>>
  BY <1>2
  DEF ChangeList, CreateAccount, FindToClose, LockToClose, CloseAccount,
      UnlockAccount
<1>3. ASSUME NEW t \in Atms, AroundList(t)
      PROVE  UNCHANGED <<printed, pc[Printer], cursor[Printer]>>
  BY <1>3
  DEF AroundList, RaiseFlag, LockListForWrite, UnlockListFromWrite, ClearFlag,
      OpenGate
<1>4. ASSUME NEW t \in Atms, ReadLine(t) \/ EndOfFile(t) \/ Log(t)
      PROVE  UNCHANGED <<printed, pc[Printer], cursor[Printer]>>
  BY <1>4 DEF ReadLine, EndOfFile, Log
<1>5. ASSUME FeeStep
      PROVE  UNCHANGED <<printed, pc[Printer], cursor[Printer]>>
  BY <1>5
  DEF FeeStep, Loop, DrawFee, EnterListForFees, LockListForRead, LockToCharge,
      GainFee, DeductFee, LogFee, UnlockCharged, LeaveListAfterFees,
      UnlockListFromRead
<1>6. ASSUME MainStep
      PROVE  UNCHANGED <<printed, pc[Printer], cursor[Printer]>>
  BY <1>6 DEF MainStep, JoinAtms, JoinFeeCollector, JoinPrinter, Join
<1>7. CASE UNCHANGED vars
  BY <1>7 DEF vars
<1> HIDE DEF TypeOK, Go, Threads, Services
<1> QED
  BY <1>1, <1>2, <1>3, <1>4, <1>5, <1>6, <1>7
  DEF Next, AtmStep, Finished

\* The printer's next line is about an account it has no line for yet.
LEMMA NextVisited ==
  ASSUME AccountInv, NEW i \in Ids, IsNext(i, Printer)
  PROVE  /\ map_of_accounts[i] \in Objects \ Visited
         /\ {o \in Objects : \E j \in Ids : j <= i /\ map_of_accounts[j] = o}
              = Visited \cup {map_of_accounts[i]}
<1>1. /\ map_of_accounts[i] \in Objects /\ None \notin Objects
      /\ i \in Nat /\ cursor[Printer] \in Nat /\ i > cursor[Printer]
  BY IdsAssumption, ThreadsAssumption
  DEF AccountInv, HoldInv, TypeInv, TypeOK, IsNext, Ahead, Services
<1>2. map_of_accounts[i] \notin Visited
  BY <1>1, IdsAssumption
  DEF Visited, AccountInv, MapInv, OpenOnce
<1>3. ASSUME NEW o \in Objects, NEW j \in Ids, j <= i, map_of_accounts[j] = o
      PROVE  j <= cursor[Printer] \/ j = i
  BY <1>1, <1>3, IdsAssumption DEF IsNext, Ahead
<1>4. \A j \in Ids : j <= cursor[Printer] => j <= i
  BY <1>1, IdsAssumption
<1> QED BY <1>1, <1>2, <1>3, <1>4, IdsAssumption DEF Visited

\* Every step keeps StatusInv.
LEMMA StepStatus ==
  ASSUME AccountInv, StatusInv, [Next]_vars
  PROVE  StatusInv'
<1> USE DEF AccountInv, HoldInv, TypeInv
<1>1. /\ pc \in [Threads -> Steps] /\ Printer \in Threads
      /\ cursor \in [Services -> Nat] /\ Printer \in Services
  BY DEF TypeOK, Threads, Services
<1>2. CASE ~PrinterStep
  <2>1. /\ printed' = printed
        /\ pc'[Printer] = pc[Printer] /\ cursor'[Printer] = cursor[Printer]
    BY <1>2, OthersPrintNothing
  <2>2. CASE pc[Printer] \in {"print", "w_unlock_list"}
    <3>1. UNCHANGED <<map_of_accounts, balance, bank_balance>>
      BY <2>2, PrinterAlone
    <3>2. Visited' = Visited /\ Listed' = Listed
      BY <2>1, <3>1 DEF Visited, Listed
    <3>3. Total(Visited)' = Total(Visited) /\ Total(Listed)' = Total(Listed)
      BY <3>1, <3>2 DEF Total
    <3> QED BY <2>1, <3>1, <3>3 DEF StatusInv
  <2>3. CASE pc[Printer] \notin {"print", "w_unlock_list"}
    BY <2>1, <2>3 DEF StatusInv
  <2> QED BY <2>2, <2>3
<1>3. CASE Loop(Printer) \/ RaiseFlag(Printer) \/ ClearFlag(Printer)
             \/ OpenGate(Printer)
  <2>1. /\ pc[Printer] \notin {"print", "w_unlock_list"}
        /\ pc'[Printer] \notin {"print", "w_unlock_list"}
        /\ printed' = printed
    BY <1>1, <1>3 DEF Loop, RaiseFlag, ClearFlag, OpenGate, Go
  <2> QED BY <2>1 DEF StatusInv
<1>4. CASE LockListForWrite(Printer)
  <2>1. /\ pc[Printer] = "list_write" /\ pc'[Printer] = "print"
        /\ printed' = printed
        /\ UNCHANGED <<cursor, map_of_accounts, balance>>
    BY <1>1, <1>4 DEF LockListForWrite, Go, AtWork
  <2>2. printed = 0 /\ cursor[Printer] = 0
    BY <2>1 DEF StatusInv, CursorInv
  <2>3. Visited' = {}
    BY <2>1, <2>2, IdsAssumption DEF Visited
  <2>4. Total(Visited)' = Total({})
    BY <2>1, <2>3 DEF Total
  <2> QED BY <2>1, <2>2, <2>4, TotalOfNone DEF StatusInv
<1>5. CASE UnlockListFromWrite(Printer)
  BY <1>1, <1>5 DEF UnlockListFromWrite, Go, StatusInv
<1>6. CASE PrintAccount
  <2>1. PICK i \in Ids : /\ IsNext(i, Printer)
                         /\ cursor' = [cursor EXCEPT ![Printer] = i]
                         /\ printed' = printed + balance[map_of_accounts[i]]
    BY <1>6 DEF PrintAccount
  <2>2. /\ pc[Printer] = "print" /\ pc'[Printer] = "print"
        /\ UNCHANGED <<map_of_accounts, balance>>
    BY <1>1, <1>6 DEF PrintAccount, Go
  <2> DEFINE o == map_of_accounts[i]
  <2>3. o \in Objects \ Visited
    BY <2>1, NextVisited
  <2>4. Visited' = Visited \cup {o}
    <3>1. cursor'[Printer] = i
      BY <1>1, <2>1
    <3>2. Visited' = {x \in Objects :
                        \E j \in Ids : j <= i /\ map_of_accounts[j] = x}
      BY <2>2, <3>1 DEF Visited
    <3> QED BY <2>1, <3>2, NextVisited
  <2>5. Total(Visited \cup {o}) = Total(Visited) + balance[o]
    <3>1. Visited \in SUBSET Objects
      BY DEF Visited
    <3> HIDE DEF o
    <3> QED BY <2>3, <3>1, TotalOfMore
  <2>6. Total(Visited)' = Total(Visited \cup {o})
    BY <2>2, <2>4 DEF Total
  <2> QED BY <2>1, <2>2, <2>5, <2>6 DEF StatusInv
<1>7. CASE PrintBank
  <2>1. /\ pc[Printer] = "print" /\ pc'[Printer] = "w_unlock_list"
        /\ Ahead(Printer) = {}
        /\ printed' = printed + bank_balance
        /\ UNCHANGED <<map_of_accounts, balance, bank_balance>>
    BY <1>1, <1>7 DEF PrintBank, Go
  <2>2. Listed = Visited
    <3>1. \A i \in Ids : map_of_accounts[i] # None => i <= cursor[Printer]
      BY <1>1, <2>1, IdsAssumption DEF Ahead
    <3> QED BY <3>1, ThreadsAssumption DEF Listed, Visited
  <2>3. Listed' = Listed
    BY <2>1 DEF Listed
  <2>4. Total(Listed)' = Total(Visited)
    BY <2>1, <2>2, <2>3 DEF Total
  <2>5. printed \in Int /\ bank_balance \in Int
    BY DEF TypeOK
  <2> QED BY <2>1, <2>4, <2>5 DEF StatusInv
<1> HIDE DEF AccountInv, HoldInv, TypeInv
<1> QED
  BY <1>2, <1>3, <1>4, <1>5, <1>6, <1>7 DEF PrinterStep, AroundList

-----------------------------------------------------------------------------

\* StatusInv holds in every reachable state.
THEOREM StatusInvariance == Spec => []StatusInv
<1>1. Init => StatusInv
  BY ThreadsAssumption DEF Init, StatusInv, Threads, Services
<1>2. AccountInv /\ StatusInv /\ [Next]_vars => StatusInv'
  BY StepStatus
<1> QED
  BY AccountInvariance, <1>1, <1>2, PTL DEF Spec

\* A complete status print shows what all the accounts and the bank are
\* worth at that instant: SnapshotConsistent.
THEOREM StatusIsConsistent == Spec => []SnapshotConsistent
<1>1. StatusInv => SnapshotConsistent
  BY DEF StatusInv, SnapshotConsistent, Worth, Listed
<1> QED
  BY StatusInvariance, <1>1, PTL

=============================================================================
