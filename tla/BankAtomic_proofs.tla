--------------------------- MODULE BankAtomic_proofs ---------------------------
(***************************************************************************)
(* The commands are atomic: Bank implements AtomicBank, step by step.      *)
(***************************************************************************)
EXTENDS BankReports_proofs

USE DEF parserVars, localVars, serviceVars, gateVars, mainVars, listLock,
        acctLocks, mapVars, moneyVars, reportVars

-----------------------------------------------------------------------------
(* What has been decided stays so. *)

\* A transfer between debit and credit.
Debiting == {"load_dst", "credit"}

\* Only a transfer tests a second account; a thread past the test has named
\* the right password, and a debit was covered.
Vetted ==
  \A t \in Atms :
    /\ pc[t] \in {"lock_src", "lock_dst", "load"} /\ Op(t) # "T"
         => dst[t] = obj[t]
    /\ \/ pc[t] \in {"store", "load_dst", "credit"}
       \/ pc[t] = "log" /\ Op(t) = "B"
       => password[obj[t]] = cmd[t].pw
    /\ pc[t] \in Debiting => balance[obj[t]] >= 0

\* A step leaves what AtomicBank sees of the thread t as it is: the debit of
\* its transfer, its request, and the fee that the vault already counts.
DebtStays(t) ==
  /\ pc'[t] \in Debiting <=> pc[t] \in Debiting
  /\ pc[t] \in Debiting => obj'[t] = obj[t] /\ cmd'[t] = cmd[t]
RequestStays(t) ==
  /\ Undecided(t)' <=> Undecided(t)
  /\ Undecided(t) => cmd'[t] = cmd[t]
FeeStays ==
  /\ pc'[FeeCollector] = "deduct" <=> pc[FeeCollector] = "deduct"
  /\ pc[FeeCollector] = "deduct" => tmp'[FeeCollector] = tmp[FeeCollector]

\* A thread that has passed the test did so in this step, or before it.
Past(t) == \/ pc[t] \in {"store", "load_dst", "credit"}
           \/ pc[t] = "log" /\ Op(t) = "B"
Passes(t) ==
  Past(t)' =>
    \/ Load(t)
    \/ Past(t) /\ obj'[t] = obj[t] /\ cmd'[t] = cmd[t]

\* The accounts it tests are those that it has found.
Found == {"lock_src", "lock_dst", "load"}
Finds(t) ==
  pc'[t] \in Found =>
    \/ Find(t)
    \/ /\ pc[t] \in Found
       /\ obj'[t] = obj[t] /\ dst'[t] = dst[t] /\ cmd'[t] = cmd[t]

\* The steps that decide a request, and those that debit or credit.
Decides(t) == \/ ReadLine(t) \/ Find(t) \/ Load(t) \/ Log(t)
              \/ FindToClose(t) \/ CreateAccount(t) \/ CloseAccount(t)
Moves(t) == Store(t) \/ Credit(t)

\* Every step is of one of these kinds.
LEMMA StepViews ==
  ASSUME TypeInv, Kinds, [Next]_vars
  PROVE  /\ \/ \A s \in Atms : DebtStays(s)
            \/ \E t \in Atms : Moves(t)
         /\ \/ \A s \in Atms : RequestStays(s)
            \/ \E t \in Atms : Decides(t) \/ Moves(t)
         /\ FeeStays \/ GainFee \/ DeductFee
         /\ \A s \in Atms : Passes(s) /\ Finds(s)
<1> DEFINE Fits(S) == /\ \A s \in Atms : DebtStays(s) /\ Passes(s) /\ Finds(s)
                      /\ \A s \in S : RequestStays(s)
<1> USE ThreadsAssumption
    DEF DebtStays, Debiting, RequestStays, FeeStays, Passes, Past, Finds,
        Found, Undecided, Op, Go, TypeInv, TypeOK, Kinds, PrinterSteps,
        FeeSteps, CloseSteps, TransferSteps, LookupSteps, ChangeSteps,
        ListReaders, ListWriters, Threads, Services
<1>1. ASSUME NEW t \in Atms, ReadLine(t)
      PROVE  Fits({}) /\ FeeStays
  BY <1>1 DEF ReadLine, Dispatch
<1>2. ASSUME NEW t \in Atms,
             \/ EndOfFile(t) \/ CheckGate(t) \/ PassGate(t)
             \/ EnterList(t) \/ LockTransfer(t)
      PROVE  Fits(Atms) /\ FeeStays
  <2>1. /\ pc' = [pc EXCEPT ![t] = pc'[t]] /\ UNCHANGED <<localVars, cmd>>
        /\ t \in Threads
        /\ \/ pc[t] = "parse" /\ pc'[t] = "done"
           \/ /\ pc[t] \in {"gate?", "gate", "list_read", "transfer_lock"}
              /\ pc'[t] \in {"gate", "list_read", "transfer_lock", "find"}
    BY <1>2 DEF EndOfFile, CheckGate, PassGate, EnterList, LockListForRead,
       LockTransfer
  <2> QED
    BY <1>2, <2>1
<1>3. ASSUME NEW t \in Atms, Find(t)
      PROVE  Fits({}) /\ FeeStays
  <2>1. /\ pc' = [pc EXCEPT ![t] = pc'[t]] /\ obj' = [obj EXCEPT ![t] = obj'[t]]
        /\ dst' = [dst EXCEPT ![t] = dst'[t]] /\ cmd' = cmd /\ tmp' = tmp
        /\ pc[t] = "find" /\ t \in Threads
        /\ pc'[t] \in {"lock_src", "unlock_transfer", "unlock_list"}
    BY <1>3 DEF Find, Leave
  <2> QED
    BY <1>3, <2>1
<1>4. ASSUME NEW t \in Atms, LockSource(t) \/ LockDestination(t)
      PROVE  Fits(Atms) /\ FeeStays
  <2>1. /\ pc' = [pc EXCEPT ![t] = pc'[t]] /\ UNCHANGED <<localVars, cmd>>
        /\ pc[t] \in {"lock_src", "lock_dst"} /\ t \in Threads
        /\ pc'[t] \in {"lock_dst", "load"}
    BY <1>4 DEF LockSource, LockDestination
  <2> QED
    BY <1>4, <2>1
<1>5. ASSUME NEW t \in Atms, Load(t)
      PROVE  Fits({}) /\ FeeStays
  <2>1. /\ pc' = [pc EXCEPT ![t] = pc'[t]] /\ tmp' = [tmp EXCEPT ![t] = tmp'[t]]
        /\ obj' = obj /\ dst' = dst /\ cmd' = cmd
        /\ pc[t] = "load" /\ t \in Threads
        /\ pc'[t] \in {"unlock_src", "log", "store"}
    BY <1>5 DEF Load
  <2> QED
    BY <1>5, <2>1
<1>6. ASSUME NEW t \in Atms, Store(t) \/ Credit(t)
      PROVE  (\A s \in Atms : Passes(s) /\ Finds(s)) /\ FeeStays
  BY <1>6 DEF Store, Credit
<1>7. ASSUME NEW t \in Atms, LoadDestination(t)
      PROVE  Fits(Atms) /\ FeeStays
  BY <1>7 DEF LoadDestination
<1>8. ASSUME NEW t \in Atms, Log(t)
      PROVE  Fits({}) /\ FeeStays
  BY <1>8 DEF Log
<1>9. ASSUME NEW t \in Atms,
             UnlockSource(t) \/ UnlockDestination(t) \/ UnlockTransfer(t)
      PROVE  Fits(Atms) /\ FeeStays
  <2>1. /\ pc' = [pc EXCEPT ![t] = pc'[t]] /\ UNCHANGED <<localVars, cmd>>
        /\ pc[t] \in {"unlock_src", "unlock_dst", "unlock_transfer"}
        /\ pc'[t] \in {"unlock_dst", "unlock_transfer", "unlock_list"}
        /\ t \in Threads
    BY <1>9 DEF UnlockSource, UnlockDestination, UnlockTransfer
  <2> QED
    BY <1>9, <2>1
<1>10. ASSUME NEW t \in Atms, LeaveList(t)
       PROVE  Fits(Atms) /\ FeeStays
  BY <1>10 DEF LeaveList, UnlockListFromRead, ForgetLocals
<1>11. ASSUME NEW t \in Atms, CreateAccount(t)
       PROVE  Fits({}) /\ FeeStays
  BY <1>11 DEF CreateAccount
<1>12. ASSUME NEW t \in Atms, FindToClose(t)
       PROVE  Fits({}) /\ FeeStays
  BY <1>12 DEF FindToClose
<1>13. ASSUME NEW t \in Atms, LockToClose(t) \/ UnlockAccount(t)
       PROVE  Fits(Atms) /\ FeeStays
  BY <1>13 DEF LockToClose, UnlockAccount
<1>14. ASSUME NEW t \in Atms, CloseAccount(t)
       PROVE  Fits({}) /\ FeeStays
  BY <1>14 DEF CloseAccount
<1>15. ASSUME NEW t \in Atms \cup {Printer},
              \/ RaiseFlag(t) \/ LockListForWrite(t)
              \/ UnlockListFromWrite(t) \/ ClearFlag(t)
       PROVE  Fits(Atms) /\ FeeStays
  <2>1. /\ pc' = [pc EXCEPT ![t] = pc'[t]] /\ UNCHANGED <<localVars, cmd>>
        /\ t \in Threads
        /\ \/ /\ pc[t] \in {"raise_flag", "list_write"}
              /\ pc'[t] \in {"list_write", "print", "create", "w_find"}
              /\ t \in Atms => pc'[t] # "print"
           \/ /\ pc[t] \in {"w_unlock_list", "clear_flag"}
              /\ pc'[t] \in {"clear_flag", "open_gate"}
    BY <1>15 DEF RaiseFlag, LockListForWrite, AtWork, UnlockListFromWrite,
       ClearFlag
  <2> QED
    BY <1>15, <2>1
<1>16. ASSUME NEW t \in Atms \cup {Printer}, OpenGate(t)
       PROVE  Fits(Atms) /\ FeeStays
  BY <1>16 DEF OpenGate, ForgetLocals
<1>17. ASSUME NEW t \in Services, Loop(t)
       PROVE  Fits(Atms) /\ FeeStays
  BY <1>17 DEF Loop
<1>18. ASSUME PrintAccount \/ PrintBank
       PROVE  Fits(Atms) /\ FeeStays
  BY <1>18 DEF PrintAccount, PrintBank
<1>19. ASSUME DrawFee \/ EnterListForFees
       PROVE  Fits(Atms) /\ FeeStays
  BY <1>19 DEF DrawFee, EnterListForFees, LockListForRead
<1>20. ASSUME LockToCharge PROVE Fits(Atms) /\ FeeStays
  BY <1>20 DEF LockToCharge
<1>21. ASSUME GainFee \/ DeductFee PROVE Fits(Atms)
  BY <1>21 DEF GainFee, DeductFee
<1>22. ASSUME LogFee PROVE Fits(Atms) /\ FeeStays
  BY <1>22 DEF LogFee
<1>23. ASSUME UnlockCharged PROVE Fits(Atms) /\ FeeStays
  BY <1>23 DEF UnlockCharged, ForgetLocals
<1>24. ASSUME LeaveListAfterFees PROVE Fits(Atms) /\ FeeStays
  BY <1>24 DEF LeaveListAfterFees, UnlockListFromRead
<1>25. ASSUME MainStep PROVE Fits(Atms) /\ FeeStays
  BY <1>25 DEF MainStep, JoinAtms, JoinFeeCollector, JoinPrinter, Join
<1>26. CASE UNCHANGED vars
  <2>1. Fits(Atms) /\ FeeStays
    BY <1>26 DEF vars
  <2> QED
    BY <2>1
<1> HIDE DEF DebtStays, RequestStays, FeeStays, Passes, Finds, Go, TypeInv,
   TypeOK, Kinds, Threads
<1> QED
  BY <1>1, <1>2, <1>3, <1>4, <1>5, <1>6, <1>7, <1>8, <1>9, <1>10, <1>11,
     <1>12, <1>13, <1>14, <1>15, <1>16, <1>17, <1>18, <1>19, <1>20, <1>21,
     <1>22, <1>23, <1>24, <1>25, <1>26
  DEF Next, AtmStep, PrinterStep, FeeStep, ReadOnList, ChangeList,
      AroundList, Finished, Services, Decides, Moves

-----------------------------------------------------------------------------
(* Vetted is an invariant. *)

\* Between debit and credit the source's balance does not move.
LEMMA DebtSteady ==
  ASSUME AccountInv, [Next]_vars, NEW t \in Atms, pc[t] \in Debiting
  PROVE  /\ obj[t] \in Objects /\ HoldsForWrite(t, obj[t])
         /\ balance'[obj[t]] = balance[obj[t]]
<1>1. /\ t \in Threads /\ obj[t] \in Objects /\ HoldsForWrite(t, obj[t])
      /\ Transfers(t)
  BY DEF Debiting, AccountInv, HoldInv, TypeInv, TypeOK, WellPointed,
     FollowsObj, Kinds, TransferSteps, HoldsForWrite, ObjLocked, Checks,
     Transfers, Threads
<1>2. ~Writing(t, obj[t])
  BY <1>1
  DEF Debiting, Writing, AccountInv, HoldInv, LockInv, TwoAccounts, DstLocked
<1> QED
  BY <1>1, <1>2, HeldSteady

\* Every step keeps Vetted.
LEMMA StepVetted ==
  ASSUME AccountInv, Loaded, Vetted, [Next]_vars
  PROVE  Vetted'
<1> SUFFICES ASSUME NEW t \in Atms
             PROVE  /\ pc'[t] \in Found /\ cmd'[t].op # "T"
                         => dst'[t] = obj'[t]
                    /\ Past(t)' => password'[obj'[t]] = cmd'[t].pw
                    /\ pc'[t] \in Debiting => balance'[obj'[t]] >= 0
  BY DEF Vetted, Past, Found, Debiting, Op
<1>1. ASSUME Past(t)' PROVE password'[obj'[t]] = cmd'[t].pw
  <2>1. CASE Load(t)
    BY <1>1, <2>1 DEF Load, Past, Accepted, Go, Op, AccountInv, HoldInv,
       TypeInv, TypeOK, Threads
  <2>2. CASE Past(t) /\ obj'[t] = obj[t] /\ cmd'[t] = cmd[t]
    <3>1. password[obj[t]] = cmd[t].pw
      BY <2>2 DEF Vetted, Past
    <3>2. obj[t] \in 1..heap_size
      BY <2>2, ThreadsAssumption
      DEF Past, AccountInv, PointersLive, UsesObj, InList, MapInv, OpenLive,
          HoldInv, TypeInv, TypeOK, Command
    <3>3. password'[obj[t]] = password[obj[t]]
      <4>1. CASE UNCHANGED mapVars
        BY <4>1
      <4>2. ASSUME NEW s \in Atms, CreateAccount(s)
            PROVE  password'[obj[t]] = password[obj[t]]
        <5>1. obj[t] # heap_size + 1
          BY <3>2, MaxObjectsAssumption DEF AccountInv, HoldInv, TypeInv, TypeOK
        <5>2. \/ password' = password
              \/ password' = [password EXCEPT ![heap_size + 1] = cmd[s].pw]
          BY <4>2 DEF CreateAccount
        <5>3. password \in [Objects -> Passwords \cup {None}]
          BY DEF AccountInv, HoldInv, TypeInv, TypeOK
        <5>4. obj[t] \in Objects
          BY <3>2, MaxObjectsAssumption
          DEF AccountInv, HoldInv, TypeInv, TypeOK, Objects
        <5> QED
          BY <5>1, <5>2, <5>3, <5>4
      <4>3. ASSUME NEW s \in Atms, CloseAccount(s)
            PROVE  password'[obj[t]] = password[obj[t]]
        BY <4>3 DEF CloseAccount
      <4> QED
        BY <4>1, <4>2, <4>3, MapsChange
    <3> QED
      BY <2>2, <3>1, <3>3
  <2> QED
    BY <1>1, <2>1, <2>2, StepViews DEF Passes, AccountInv, HoldInv
<1>2. ASSUME pc'[t] \in Debiting PROVE balance'[obj'[t]] >= 0
  <2>1. CASE DebtStays(t)
    BY <1>2, <2>1, DebtSteady DEF DebtStays, Vetted
  <2>2. CASE Store(t)
    <3>1. /\ obj[t] \in Objects /\ balance \in [Objects -> Int]
          /\ cmd[t].amt \in Int /\ t \in Threads /\ tmp[t] \in Int
      BY <2>2, CmdType
      DEF Store, Go, AccountInv, HoldInv, TypeInv, TypeOK, WellPointed,
          FollowsObj, Threads
    <3>2. Op(t) = "T" /\ tmp[t] >= cmd[t].amt
      BY <1>2, <2>2 DEF Store, Go, Debiting, Loaded, AccountInv, HoldInv,
         TypeInv, TypeOK, Threads
    <3> QED
      BY <2>2, <3>1, <3>2 DEF Store
  <2>3. ASSUME NEW s \in Atms \ {t}, Moves(s) PROVE DebtStays(t)
    BY <2>3 DEF Moves, Store, Credit, Go, DebtStays, AccountInv, HoldInv,
       TypeInv, TypeOK, Threads
  <2>4. ~Credit(t)
    BY <1>2 DEF Credit, Go, Debiting, AccountInv, HoldInv, TypeInv, TypeOK,
       Threads
  <2> QED
    BY <2>1, <2>2, <2>3, <2>4, StepViews DEF Moves, AccountInv, HoldInv
<1>3. ASSUME pc'[t] \in Found, cmd'[t].op # "T" PROVE dst'[t] = obj'[t]
  <2>1. CASE Find(t)
    BY <1>3, <2>1 DEF Find, Op, AccountInv, HoldInv, TypeInv, TypeOK, Threads
  <2>2. CASE ~Find(t)
    BY <1>3, <2>2, StepViews
    DEF Finds, Found, Vetted, Op, AccountInv, HoldInv
  <2> QED
    BY <2>1, <2>2
<1> QED
  BY <1>1, <1>2, <1>3

-----------------------------------------------------------------------------
(* What AtomicBank sees. *)

\* The thread in the middle of a transfer is the only one at its source.
LEMMA DebitedAlone ==
  ASSUME AccountInv, NEW t \in Atms, pc[t] \in Debiting
  PROVE  /\ Debited(obj[t]) = {t}
         /\ BalanceOf(obj[t]) = balance[obj[t]] + cmd[t].amt
<1>1. ASSUME NEW s \in Debited(obj[t]) PROVE s = t
  <2>1. /\ s \in Threads /\ t \in Threads /\ obj[t] \in Objects
        /\ HoldsForWrite(s, obj[t]) /\ HoldsForWrite(t, obj[t])
    BY <1>1
    DEF Debited, Debiting, AccountInv, HoldInv, HoldsForWrite, ObjLocked,
        Checks, Kinds, TransferSteps, TypeInv, TypeOK, WellPointed,
        FollowsObj, Threads
  <2> QED
    BY <2>1 DEF AccountInv, HoldInv, LockInv, AccountsLocked
<1>2. Debited(obj[t]) = {t}
  BY <1>1 DEF Debited, Debiting
<1> QED
  BY <1>2 DEF BalanceOf

\* An account that a thread has locked for anything else is not in the
\* middle of a transfer.
LEMMA NotDebited ==
  ASSUME AccountInv, NEW t \in Threads, NEW o \in Objects,
         HoldsForWrite(t, o) \/ HoldsForRead(t, o),
         ~(pc[t] \in Debiting /\ obj[t] = o)
  PROVE  Debited(o) = {} /\ BalanceOf(o) = balance[o]
<1>1. ASSUME NEW s \in Debited(o) PROVE FALSE
  <2>1. s \in Threads /\ HoldsForWrite(s, o) /\ s # t
    BY <1>1
    DEF Debited, Debiting, HoldsForWrite, ObjLocked, Checks, AccountInv,
        HoldInv, Kinds, TransferSteps, Threads
  <2>2. acct_writer[o] = s /\ s # None
    BY <2>1, ThreadsAssumption
    DEF AccountInv, HoldInv, LockInv, AccountsLocked
  <2> QED
    BY <2>1, <2>2 DEF AccountInv, HoldInv, LockInv, AccountsLocked
<1> QED
  BY <1>1 DEF BalanceOf

\* A balance looks the same after a step that neither debits nor credits it.
LEMMA BalanceStays ==
  ASSUME NEW o, balance'[o] = balance[o],
         \A s \in Atms : DebtStays(s) \/ (obj[s] # o /\ obj'[s] # o)
  PROVE  BalanceOf(o)' = BalanceOf(o)
<1>1. Debited(o)' = Debited(o)
  BY DEF Debited, DebtStays, Debiting
<1>2. \A s \in Debited(o) : cmd'[s] = cmd[s]
  BY DEF Debited, DebtStays, Debiting
<1>3. CASE Debited(o) = {}
  BY <1>1, <1>3 DEF BalanceOf
<1>4. CASE Debited(o) # {}
  <2> DEFINE w == CHOOSE s \in Debited(o) : TRUE
  <2>1. w \in Debited(o)
    BY <1>4
  <2>2. BalanceOf(o) = balance[o] + cmd[w].amt
    BY <1>4 DEF BalanceOf
  <2>3. BalanceOf(o)' = balance'[o] + cmd'[w].amt
    BY <1>1, <1>4 DEF BalanceOf
  <2> QED
    BY <1>2, <2>1, <2>2, <2>3
<1> QED
  BY <1>3, <1>4

\* So does an account, and the vault, and what is pending.
LEMMA AccountStays ==
  ASSUME NEW i \in Ids, map_of_accounts'[i] = map_of_accounts[i],
         map_of_accounts[i] # None =>
           /\ password'[map_of_accounts[i]] = password[map_of_accounts[i]]
           /\ BalanceOf(map_of_accounts[i])' = BalanceOf(map_of_accounts[i])
  PROVE  account'[i] = account[i]
BY DEF account

\* All accounts, when no step that moves money takes place.
LEMMA AccountsStay ==
  ASSUME AccountInv, [Next]_vars, \A s \in Atms : DebtStays(s),
         \A t \in Atms : ~Moves(t) /\ ~CreateAccount(t) /\ ~CloseAccount(t),
         ~DeductFee
  PROVE  account' = account
<1>1. balance' = balance
  BY MoneyChanges DEF GainFee, Moves
<1>2. map_of_accounts' = map_of_accounts /\ password' = password
  BY MapsChange
<1>3. \A o : BalanceOf(o)' = BalanceOf(o)
  BY <1>1, BalanceStays
<1> QED
  BY <1>2, <1>3 DEF account

\* The bank's balance, when no fee is charged.
LEMMA VaultStays ==
  ASSUME TypeInv, Kinds, [Next]_vars, ~DeductFee
  PROVE  vault' = vault
<1>1. CASE GainFee
  <2>1. /\ pc[FeeCollector] = "gain" /\ pc'[FeeCollector] = "deduct"
        /\ bank_balance' = bank_balance + tmp'[FeeCollector]
        /\ tmp'[FeeCollector] \in Int /\ bank_balance \in Int
    BY <1>1, StepType, ThreadsAssumption
    DEF GainFee, Go, TypeInv, TypeOK, Threads, Services
  <2> QED
    BY <2>1 DEF vault
<1>2. CASE ~GainFee
  <2>1. bank_balance' = bank_balance
    BY <1>2, MoneyChanges DEF Store, Credit, CreateAccount
  <2>2. FeeStays
    BY <1>2, StepViews
  <2> QED
    BY <2>1, <2>2 DEF vault, FeeStays
<1> QED
  BY <1>1, <1>2

\* The pending commands.
LEMMA PendingStays ==
  ASSUME \A s \in Atms : RequestStays(s)
  PROVE  pending' = pending
BY DEF pending, RequestStays

\* A step of one thread leaves the others' debts and requests alone.
LEMMA OthersStay ==
  ASSUME TypeInv, NEW t \in Atms, Decides(t) \/ Moves(t),
         NEW s \in Atms \ {t}
  PROVE  DebtStays(s) /\ RequestStays(s)
<1>1. pc'[s] = pc[s] /\ cmd'[s] = cmd[s] /\ obj'[s] = obj[s]
  BY DEF Decides, Moves, ReadLine, Find, Load, Log, FindToClose, CreateAccount,
     CloseAccount, Store, Credit, Go, TypeInv, TypeOK, Threads
<1> QED
  BY <1>1 DEF DebtStays, Debiting, RequestStays, Undecided, Op

\* Then only its own request can be another one.
LEMMA PendingBut ==
  ASSUME NEW t \in Atms, \A s \in Atms \ {t} : RequestStays(s)
  PROVE  pending' = [pending EXCEPT ![t] = pending'[t]]
BY DEF pending, RequestStays

\* An account that is open is seen, with the money its transfer has taken.
LEMMA Seen ==
  ASSUME AccountInv, NEW i \in Ids, map_of_accounts[i] # None
  PROVE  /\ account[i] # None
         /\ account[i].password = password[map_of_accounts[i]]
         /\ account[i].balance = BalanceOf(map_of_accounts[i])
         /\ account[i] = [password |-> account[i].password,
                          balance |-> account[i].balance]
<1> DEFINE o == map_of_accounts[i]
<1>1. /\ o \in Objects /\ balance[o] \in Int
      /\ password[o] \in Passwords \cup {None}
  BY DEF AccountInv, HoldInv, TypeInv, TypeOK
<1>2. BalanceOf(o) \in Int
  <2>1. CASE Debited(o) = {}
    BY <1>1, <2>1 DEF BalanceOf
  <2>2. CASE Debited(o) # {}
    <3> DEFINE w == CHOOSE s \in Debited(o) : TRUE
    <3>1. w \in Atms
      BY <2>2 DEF Debited
    <3>2. cmd[w].amt \in Int
      BY <3>1, CmdType DEF AccountInv, HoldInv
    <3>3. BalanceOf(o) = balance[o] + cmd[w].amt
      BY <2>2 DEF BalanceOf
    <3> QED
      BY <1>1, <3>2, <3>3
  <2> QED
    BY <2>1, <2>2
<1>3. account[i] = [password |-> password[o], balance |-> BalanceOf(o)]
  BY DEF account
<1> QED
  BY <1>1, <1>2, <1>3, NoneAssumption

\* What is acceptable, command by command.
LEMMA AcceptableIs ==
  ASSUME NEW c
  PROVE  /\ c.op = "O" => (Atomic!Acceptable(c) <=> ~Atomic!IsOpen(c.id))
         /\ c.op = "W" => (Atomic!Acceptable(c) <=>
                             /\ Atomic!Owns(c.id, c.pw)
                             /\ Atomic!Covers(c.id, c.amt))
         /\ c.op = "T" => (Atomic!Acceptable(c) <=>
                             /\ Atomic!Owns(c.id, c.pw)
                             /\ Atomic!IsOpen(c.dst)
                             /\ Atomic!Covers(c.id, c.amt))
         /\ c.op \in {"D", "B", "Q"} =>
              (Atomic!Acceptable(c) <=> Atomic!Owns(c.id, c.pw))
<1>1. CASE c.op = "O" BY <1>1 DEF Atomic!Acceptable
<1>2. CASE c.op = "W" BY <1>2 DEF Atomic!Acceptable
<1>3. CASE c.op = "T" BY <1>3 DEF Atomic!Acceptable
<1>4. CASE c.op = "D" BY <1>4 DEF Atomic!Acceptable
<1>5. CASE c.op = "B" BY <1>5 DEF Atomic!Acceptable
<1>6. CASE c.op = "Q" BY <1>6 DEF Atomic!Acceptable
<1> QED
  BY <1>1, <1>2, <1>3, <1>4, <1>5, <1>6

\* A thread that gets its answer has its request refused or carried out.
LEMMA Answered ==
  ASSUME TypeInv, NEW t \in Atms, \A s \in Atms \ {t} : RequestStays(s),
         Undecided(t), ~Undecided(t)', vault' = vault
  PROVE  /\ ~Atomic!Acceptable(cmd[t]) /\ account' = account
              => Atomic!Refuse(t)
         /\ Atomic!Acceptable(cmd[t]) /\ account' = Atomic!After(cmd[t])
              => Atomic!CarryOut(t)
<1>1. cmd[t] \in Command /\ cmd[t] # None
  BY NoneAssumption DEF TypeInv, TypeOK
<1>2. pending[t] = cmd[t] /\ pending'[t] = None
  BY DEF pending
<1>3. pending' = [pending EXCEPT ![t] = None]
  BY <1>2, PendingBut
<1> QED
  BY <1>1, <1>2, <1>3 DEF Atomic!Refuse, Atomic!CarryOut

-----------------------------------------------------------------------------
(* Each step of Bank is one of AtomicBank or changes nothing there. *)

Base == Known /\ Vetted

\* A step that neither decides nor moves money is not seen.
LEMMA RefineRest ==
  ASSUME Base, [Next]_vars, ~DeductFee,
         \A t \in Atms : ~Moves(t) /\ ~Decides(t)
  PROVE  UNCHANGED Atomic!vars
<1>1. account' = account
  BY AccountsStay, StepViews DEF Decides, Base, Known, AccountInv, HoldInv
<1>2. vault' = vault
  BY VaultStays DEF Base, Known, AccountInv, HoldInv
<1>3. pending' = pending
  BY PendingStays, StepViews DEF Base, Known, AccountInv, HoldInv
<1> QED
  BY <1>1, <1>2, <1>3 DEF Atomic!vars

\* What holds of the deciding steps that change no account.
LEMMA Deciding ==
  ASSUME Base, [Next]_vars, NEW t \in Atms,
         ReadLine(t) \/ Find(t) \/ Load(t) \/ Log(t) \/ FindToClose(t)
  PROVE  /\ account' = account /\ vault' = vault
         /\ \A s \in Atms \ {t} : RequestStays(s)
         /\ RequestStays(t) => UNCHANGED Atomic!vars
<1>1. TypeInv /\ Kinds /\ AccountInv
  BY DEF Base, Known, AccountInv, HoldInv
<1>2. \A s \in Atms \ {t} : DebtStays(s) /\ RequestStays(s)
  BY <1>1, OthersStay DEF Decides
<1>3. DebtStays(t)
  BY <1>1
  DEF ReadLine, Dispatch, Find, Leave, Load, Log, FindToClose, Go, DebtStays,
      Debiting, TypeInv, TypeOK, Threads
<1>4. UNCHANGED <<balance, bank_balance, map_of_accounts, password>>
  BY DEF ReadLine, Find, Load, Log, FindToClose
<1>5. account' = account
  BY <1>2, <1>3, <1>4, BalanceStays DEF account
<1>6. ~DeductFee
  BY <1>1, ThreadsAssumption
  DEF DeductFee, ReadLine, Find, Load, Log, FindToClose, Go, Kinds,
      TypeInv, TypeOK, Threads, Services
<1>7. vault' = vault
  BY <1>1, <1>6, VaultStays
<1> QED
  BY <1>2, <1>5, <1>7, PendingStays DEF Atomic!vars

\* A line is read: a request comes, or the letter is none.
LEMMA RefineRead ==
  ASSUME Base, [Next]_vars, NEW t \in Atms, ReadLine(t)
  PROVE  [Atomic!Next]_(Atomic!vars)
<1>1. /\ TypeInv /\ TypeInv' /\ t \in Threads
  BY StepType DEF Base, Known, AccountInv, HoldInv, Threads
<1>2. ~Undecided(t)
  BY DEF ReadLine, Go, Undecided
<1>3. cmd'[t] \in Command /\ cmd'[t] # None
  BY <1>1, NoneAssumption DEF TypeInv, TypeOK
<1>4. CASE Op(t)' \in ListReaders \cup ListWriters
  <2>1. Undecided(t)'
    BY <1>1, <1>4
    DEF ReadLine, Go, Dispatch, Undecided, Op, TypeInv, TypeOK, ListReaders,
        ListWriters
  <2>2. pending[t] = None /\ pending'[t] = cmd'[t]
    BY <1>2, <2>1 DEF pending
  <2>3. cmd'[t] \in Atomic!Request
    BY <1>3, <1>4
    DEF Command, Atomic!Request, Op, Ops, ListReaders, ListWriters
  <2>4. Atomic!Call(t)
    BY <2>2, <2>3, Deciding, PendingBut DEF Atomic!Call
  <2> QED
    BY <2>4 DEF Atomic!Next
<1>5. CASE Op(t)' \notin ListReaders \cup ListWriters
  <2>1. pc'[t] = "parse"
    BY <1>1, <1>5
    DEF ReadLine, Go, Dispatch, Op, TypeInv, TypeOK, ListReaders, ListWriters
  <2>2. RequestStays(t)
    BY <1>2, <2>1 DEF RequestStays, Undecided
  <2> QED
    BY <2>2, Deciding
<1> QED
  BY <1>4, <1>5

\* A lookup fails: the request is refused.
LEMMA RefineFind ==
  ASSUME Base, [Next]_vars, NEW t \in Atms, Find(t) \/ FindToClose(t)
  PROVE  [Atomic!Next]_(Atomic!vars)
<1>1. /\ TypeInv /\ Kinds /\ t \in Threads /\ pc \in [Threads -> Steps]
      /\ cmd[t].id \in Ids /\ cmd[t].dst \in Ids
      /\ cmd' = cmd /\ pc[t] \in {"find", "w_find"}
  BY CmdType
  DEF Base, Known, AccountInv, HoldInv, TypeInv, TypeOK, Find, FindToClose,
      Go, Threads
<1>2. CASE pc'[t] \in {"lock_src", "w_lock"}
  <2>1. RequestStays(t)
    BY <1>1, <1>2 DEF RequestStays, Undecided
  <2> QED
    BY <2>1, Deciding
<1>3. CASE pc'[t] \notin {"lock_src", "w_lock"}
  <2>1. /\ Op(t) \in {"D", "W", "B", "T", "Q"}
        /\ pc'[t] \in {"unlock_transfer", "unlock_list", "w_unlock_list"}
        /\ \/ map_of_accounts[cmd[t].id] = None
           \/ Op(t) = "T" /\ map_of_accounts[cmd[t].dst] = None
    BY <1>1, <1>3
    DEF Find, Leave, FindToClose, Go, Kinds, LookupSteps, CloseSteps,
        ListReaders
  <2>2. Undecided(t) /\ ~Undecided(t)'
    BY <1>1, <2>1 DEF Undecided
  <2>3. \A i \in Ids : map_of_accounts[i] = None => ~Atomic!IsOpen(i)
    BY DEF Atomic!IsOpen, account
  <2>4. ~Atomic!Acceptable(cmd[t])
    BY <1>1, <2>1, <2>3, AcceptableIs DEF Op, Atomic!Owns
  <2>5. Atomic!Refuse(t)
    BY <1>1, <2>2, <2>4, Deciding, Answered
  <2> QED
    BY <2>5 DEF Atomic!Next
<1> QED
  BY <1>2, <1>3

\* What a thread sees of an account that it has locked.
LEMMA SourceSeen ==
  ASSUME AccountInv, NEW t \in Atms, UsesObj(t), pc[t] \in ObjLocked,
         pc[t] \notin Debiting
  PROVE  LET a == account[cmd[t].id]
         IN  /\ cmd[t].id \in Ids /\ obj[t] \in Objects
             /\ map_of_accounts[cmd[t].id] = obj[t]
             /\ Atomic!IsOpen(cmd[t].id) /\ Debited(obj[t]) = {}
             /\ a.password = password[obj[t]] /\ a.balance = balance[obj[t]]
<1>1. /\ cmd[t].id \in Ids /\ t \in Threads
      /\ map_of_accounts[cmd[t].id] = obj[t] /\ obj[t] # None
  BY CmdType DEF AccountInv, HoldInv, PointersLive, InList, Threads
<1>2. obj[t] \in Objects
  BY <1>1 DEF AccountInv, HoldInv, TypeInv, TypeOK
<1>3. HoldsForWrite(t, obj[t]) \/ HoldsForRead(t, obj[t])
  BY DEF HoldsForWrite, HoldsForRead
<1>4. Debited(obj[t]) = {} /\ BalanceOf(obj[t]) = balance[obj[t]]
  BY <1>1, <1>2, <1>3, NotDebited
<1> QED
  BY <1>1, <1>2, <1>4, Seen DEF Atomic!IsOpen

\* The test fails: the request is refused.
LEMMA RefineLoad ==
  ASSUME Base, [Next]_vars, NEW t \in Atms, Load(t)
  PROVE  [Atomic!Next]_(Atomic!vars)
<1> DEFINE id == cmd[t].id
<1>1. /\ TypeInv /\ AccountInv /\ t \in Threads /\ pc \in [Threads -> Steps]
      /\ cmd' = cmd /\ pc[t] = "load" /\ Op(t) \in ListReaders
      /\ balance \in [Objects -> Int] /\ cmd[t].amt \in Int
  BY CmdType
  DEF Base, Known, AccountInv, HoldInv, TypeInv, TypeOK, Load, Go, Kinds,
      LookupSteps, Threads
<1>2. CASE Accepted(t)
  <2>1. RequestStays(t)
    BY <1>1, <1>2 DEF Load, Go, RequestStays, Undecided, Op
  <2> QED
    BY <2>1, Deciding
<1>3. CASE ~Accepted(t)
  <2>1. Undecided(t) /\ ~Undecided(t)'
    BY <1>1, <1>3 DEF Load, Go, Undecided
  <2>2. /\ Atomic!IsOpen(id) /\ account[id].password = password[obj[t]]
        /\ account[id].balance = balance[obj[t]] /\ obj[t] \in Objects
    BY <1>1, SourceSeen DEF UsesObj, ObjLocked, Debiting
  <2>3. ~deleted[obj[t]] /\ ~deleted[dst[t]]
    BY <1>1
    DEF Base, Vetted, AccountInv, PointersLive, UsesObj, UsesDst, InList
  <2>4. \/ account[id].password # cmd[t].pw
        \/ Op(t) \in {"W", "T"} /\ ~(account[id].balance >= cmd[t].amt)
    BY <1>3, <2>2, <2>3 DEF Accepted
  <2>5. ~Atomic!Acceptable(cmd[t])
    BY <1>1, <2>4, AcceptableIs
    DEF ListReaders, Op, Atomic!Owns, Atomic!Covers
  <2>6. Atomic!Refuse(t)
    BY <1>1, <2>1, <2>5, Deciding, Answered
  <2> QED
    BY <2>6 DEF Atomic!Next
<1> QED
  BY <1>2, <1>3

\* A balance check is answered by its line; other lines are not seen.
LEMMA RefineLog ==
  ASSUME Base, [Next]_vars, NEW t \in Atms, Log(t)
  PROVE  [Atomic!Next]_(Atomic!vars)
<1>1. /\ TypeInv /\ AccountInv /\ t \in Threads /\ pc \in [Threads -> Steps]
      /\ cmd' = cmd /\ pc[t] = "log"
      /\ pc'[t] \in {"w_unlock_account", "unlock_src"}
  BY DEF Base, Known, AccountInv, HoldInv, TypeInv, TypeOK, Log, Go, Threads
<1>2. CASE Op(t) # "B"
  <2>1. RequestStays(t)
    BY <1>1, <1>2 DEF RequestStays, Undecided
  <2> QED
    BY <2>1, Deciding
<1>3. CASE Op(t) = "B"
  <2>1. Undecided(t) /\ ~Undecided(t)'
    BY <1>1, <1>3 DEF Undecided
  <2>2. /\ Atomic!IsOpen(cmd[t].id)
        /\ account[cmd[t].id].password = password[obj[t]]
    BY <1>1, <1>3, SourceSeen DEF UsesObj, ObjLocked, Debiting
  <2>3. password[obj[t]] = cmd[t].pw
    BY <1>1, <1>3 DEF Base, Vetted
  <2>4. Atomic!Acceptable(cmd[t])
    BY <1>3, <2>2, <2>3, AcceptableIs DEF Op, Atomic!Owns
  <2>5. Atomic!After(cmd[t]) = account
    BY <1>3 DEF Op, Atomic!After
  <2>6. Atomic!CarryOut(t)
    BY <1>1, <2>1, <2>4, <2>5, Deciding, Answered
  <2> QED
    BY <2>6 DEF Atomic!Next
<1> QED
  BY <1>2, <1>3

\* create_account refuses an id that is open, and carries out any other.
LEMMA RefineCreate ==
  ASSUME Base, [Next]_vars, NEW t \in Atms, CreateAccount(t)
  PROVE  [Atomic!Next]_(Atomic!vars)
<1> DEFINE c == cmd[t]
<1>1. /\ TypeInv /\ Kinds /\ AccountInv /\ t \in Threads
      /\ pc[t] = "create" /\ c.op = "O" /\ c.id \in Ids /\ cmd' = cmd
      /\ pc \in [Threads -> Steps]
      /\ map_of_accounts \in [Ids -> Objects \cup {None}]
      /\ balance \in [Objects -> Int]
      /\ password \in [Objects -> Passwords \cup {None}]
  BY CmdType
  DEF Base, Known, AccountInv, HoldInv, TypeInv, TypeOK, CreateAccount, Go,
      Kinds, Op, Threads
<1>2. Undecided(t) /\ ~Undecided(t)'
  BY <1>1 DEF CreateAccount, Go, Undecided, Op
<1>3. \A s \in Atms \ {t} : DebtStays(s) /\ RequestStays(s)
  BY <1>1, OthersStay DEF Decides
<1>4. DebtStays(t)
  BY <1>1 DEF CreateAccount, Go, DebtStays, Debiting
<1>5. \A s \in Atms : DebtStays(s)
  BY <1>3, <1>4
<1>6. vault' = vault
  <2>1. ~DeductFee
    BY <1>1, ThreadsAssumption
    DEF DeductFee, CreateAccount, Go, Kinds, TypeInv, TypeOK, Threads,
        Services
  <2> QED
    BY <1>1, <2>1, VaultStays
<1>7. CASE ~NotOpen(c.id)
  <2>1. UNCHANGED <<balance, map_of_accounts, password>>
    BY <1>7 DEF CreateAccount
  <2>2. account' = account
    BY <1>5, <2>1, BalanceStays DEF account
  <2>3. Atomic!IsOpen(c.id)
    BY <1>1, <1>7, Seen DEF NotOpen, Atomic!IsOpen
  <2>4. ~Atomic!Acceptable(c)
    BY <1>1, <2>3, AcceptableIs
  <2>5. Atomic!Refuse(t)
    BY <1>1, <1>2, <1>3, <1>6, <2>2, <2>4, Answered
  <2> QED
    BY <2>5 DEF Atomic!Next
<1>8. CASE NotOpen(c.id)
  <2>1. map_of_accounts[c.id] = None
    BY <1>1, <1>8 DEF NotOpen, AccountInv, MapInv, OpenLive
  <2>2. PICK n \in Objects : n = heap_size + 1
    BY <1>8, MaxObjectsAssumption
    DEF CreateAccount, Base, Known, AccountInv, HoldInv, TypeInv, TypeOK,
        Objects
  <2>3. /\ balance' = [balance EXCEPT ![n] = c.amt]
        /\ password' = [password EXCEPT ![n] = c.pw]
        /\ map_of_accounts' = [map_of_accounts EXCEPT ![c.id] = n]
        /\ acct_writer[n] = None
    BY <1>8, <2>1, <2>2 DEF CreateAccount, Insert, LockForWrite
  <2>4. Atomic!Acceptable(c)
    BY <1>1, <2>1, AcceptableIs DEF Atomic!IsOpen, account
  <2>5. Debited(n) = {}
    <3>1. ASSUME NEW s \in Debited(n) PROVE FALSE
      <4>1. s \in Threads /\ HoldsForWrite(s, n)
        BY DebtSteady, <3>1 DEF Debited, Debiting, Base, Known, Threads
      <4> QED
        BY <2>3, <4>1, ThreadsAssumption
        DEF Base, Known, AccountInv, HoldInv, LockInv, AccountsLocked
    <3> QED
      BY <3>1
  <2>6. Debited(n)' = {}
    BY <1>5, <2>5 DEF Debited, DebtStays, Debiting
  <2>7. account'[c.id] = [password |-> c.pw, balance |-> c.amt]
    <3>1. BalanceOf(n)' = c.amt
      BY <1>1, <2>2, <2>3, <2>6 DEF BalanceOf
    <3>2. n # None
      BY <2>2, ThreadsAssumption
    <3> QED
      BY <1>1, <2>2, <2>3, <3>1, <3>2 DEF account
  <2>8. ASSUME NEW i \in Ids \ {c.id} PROVE account'[i] = account[i]
    <3> DEFINE o == map_of_accounts[i]
    <3>1. map_of_accounts'[i] = o
      BY <1>1, <2>3
    <3>2. o # None => o # n
      BY <2>2, MaxObjectsAssumption
      DEF Base, Known, AccountInv, MapInv, OpenLive, HoldInv, TypeInv, TypeOK
    <3>3. o # None => balance'[o] = balance[o] /\ password'[o] = password[o]
      BY <1>1, <2>2, <2>3, <3>2
    <3> HIDE DEF o
    <3>4. o # None => BalanceOf(o)' = BalanceOf(o)
      <4>1. SUFFICES ASSUME o # None PROVE BalanceOf(o)' = BalanceOf(o)
        OBVIOUS
      <4>2. o' = o
        BY <3>1 DEF o
      <4> QED
        BY <1>5, <3>3, <4>1, <4>2, BalanceStays
    <3> QED
      BY <3>1, <3>3, <3>4, AccountStays DEF o
  <2>9. account' = Atomic!After(c)
    <3>1. Atomic!After(c) = [account EXCEPT ![c.id] =
                               [password |-> c.pw, balance |-> c.amt]]
      BY <1>1 DEF Atomic!After
    <3>2. DOMAIN account = Ids /\ account' = [i \in Ids |-> account'[i]]
      BY DEF account
    <3>3. Atomic!After(c) = [i \in Ids |-> account'[i]]
      BY <1>1, <2>7, <2>8, <3>1, <3>2
    <3> QED
      BY <3>2, <3>3
  <2>10. Atomic!CarryOut(t)
    BY <1>1, <1>2, <1>3, <1>6, <2>4, <2>9, Answered
  <2> QED
    BY <2>10 DEF Atomic!Next
<1> QED
  BY <1>7, <1>8

\* closing_account refuses a wrong password, and closes otherwise.
LEMMA RefineClose ==
  ASSUME Base, [Next]_vars, NEW t \in Atms, CloseAccount(t)
  PROVE  [Atomic!Next]_(Atomic!vars)
<1> DEFINE c == cmd[t]
           closes == ~deleted[obj[t]] /\ password[obj[t]] = c.pw
<1>1. /\ TypeInv /\ Kinds /\ AccountInv /\ t \in Threads
      /\ pc[t] = "w_close" /\ c.op = "Q" /\ c.id \in Ids /\ cmd' = cmd
      /\ pc \in [Threads -> Steps]
      /\ map_of_accounts \in [Ids -> Objects \cup {None}]
      /\ balance' = balance /\ password' = password
  BY CmdType
  DEF Base, Known, AccountInv, HoldInv, TypeInv, TypeOK, CloseAccount, Go,
      Kinds, CloseSteps, Op, Threads
<1>2. Undecided(t) /\ ~Undecided(t)'
  BY <1>1 DEF CloseAccount, Go, Undecided, Op
<1>3. \A s \in Atms \ {t} : DebtStays(s) /\ RequestStays(s)
  BY <1>1, OthersStay DEF Decides
<1>4. DebtStays(t)
  BY <1>1 DEF CloseAccount, Go, DebtStays, Debiting
<1>5. \A o : BalanceOf(o)' = BalanceOf(o)
  BY <1>1, <1>3, <1>4, BalanceStays
<1>6. vault' = vault
  <2>1. ~DeductFee
    BY <1>1, ThreadsAssumption
    DEF DeductFee, CloseAccount, Go, Kinds, TypeInv, TypeOK, Threads, Services
  <2> QED
    BY <1>1, <2>1, VaultStays
<1>7. /\ Atomic!IsOpen(c.id) /\ ~deleted[obj[t]]
      /\ account[c.id].password = password[obj[t]]
  BY <1>1, SourceSeen
  DEF UsesObj, ObjLocked, Debiting, AccountInv, PointersLive, InList
<1>8. Atomic!Acceptable(c) <=> closes
  BY <1>1, <1>7, AcceptableIs DEF Atomic!Owns
<1>9. CASE ~closes
  <2>1. map_of_accounts' = map_of_accounts
    BY <1>9 DEF CloseAccount
  <2>2. account' = account
    BY <1>1, <1>5, <2>1 DEF account
  <2>3. Atomic!Refuse(t)
    BY <1>1, <1>2, <1>3, <1>6, <1>8, <1>9, <2>2, Answered
  <2> QED
    BY <2>3 DEF Atomic!Next
<1>10. CASE closes
  <2>1. map_of_accounts' = [map_of_accounts EXCEPT ![c.id] = None]
    BY <1>10 DEF CloseAccount
  <2>2. account' = [account EXCEPT ![c.id] = None]
    BY <1>1, <1>5, <2>1 DEF account
  <2>3. account' = Atomic!After(c)
    BY <1>1, <2>2 DEF Atomic!After
  <2>4. Atomic!CarryOut(t)
    BY <1>1, <1>2, <1>3, <1>6, <1>8, <1>10, <2>3, Answered
  <2> QED
    BY <2>4 DEF Atomic!Next
<1> QED
  BY <1>9, <1>10

\* What holds of the steps that move money between the accounts.
LEMMA Moving ==
  ASSUME Base, [Next]_vars, NEW t \in Atms, Moves(t)
  PROVE  /\ TypeInv /\ Kinds /\ AccountInv /\ t \in Threads
         /\ vault' = vault /\ cmd' = cmd /\ obj' = obj
         /\ pc \in [Threads -> Steps]
         /\ map_of_accounts \in [Ids -> Objects \cup {None}]
         /\ balance \in [Objects -> Int]
         /\ cmd[t].id \in Ids /\ cmd[t].dst \in Ids /\ cmd[t].amt \in Int
         /\ map_of_accounts' = map_of_accounts /\ password' = password
         /\ \A s \in Atms \ {t} : DebtStays(s) /\ RequestStays(s)
<1>1. /\ TypeInv /\ Kinds /\ AccountInv /\ t \in Threads
      /\ pc \in [Threads -> Steps]
      /\ map_of_accounts \in [Ids -> Objects \cup {None}]
      /\ balance \in [Objects -> Int]
  BY DEF Base, Known, AccountInv, HoldInv, TypeInv, TypeOK, Threads
<1>2. /\ cmd' = cmd /\ obj' = obj
      /\ map_of_accounts' = map_of_accounts /\ password' = password
  BY DEF Moves, Store, Credit
<1>3. ~DeductFee
  BY <1>1, ThreadsAssumption
  DEF DeductFee, Moves, Store, Credit, Go, Kinds, TypeInv, TypeOK, Threads,
      Services
<1>4. vault' = vault
  BY <1>1, <1>3, VaultStays
<1>5. \A s \in Atms \ {t} : DebtStays(s) /\ RequestStays(s)
  BY <1>1, OthersStay
<1> QED
  BY <1>1, <1>2, <1>4, <1>5, CmdType

\* Deposits and withdrawals are carried out by their write; a transfer's
\* debit is not seen.
LEMMA RefineStore ==
  ASSUME Base, [Next]_vars, NEW t \in Atms, Store(t)
  PROVE  [Atomic!Next]_(Atomic!vars)
<1> DEFINE c == cmd[t]
<1>1. /\ TypeInv /\ Kinds /\ AccountInv /\ t \in Threads
      /\ vault' = vault /\ cmd' = cmd /\ obj' = obj
      /\ pc \in [Threads -> Steps] /\ c.id \in Ids /\ c.amt \in Int
      /\ map_of_accounts \in [Ids -> Objects \cup {None}]
      /\ balance \in [Objects -> Int]
      /\ map_of_accounts' = map_of_accounts /\ password' = password
      /\ \A s \in Atms \ {t} : DebtStays(s) /\ RequestStays(s)
  BY Moving DEF Moves
<1>2. /\ pc[t] = "store" /\ c.op \in {"D", "W", "T"}
      /\ pc' = [pc EXCEPT ![t] = IF c.op = "T" THEN "load_dst" ELSE "log"]
      /\ tmp[t] = balance[obj[t]] /\ (c.op = "W" => tmp[t] >= c.amt)
      /\ password[obj[t]] = c.pw
  BY <1>1 DEF Store, Go, Op, Kinds, Base, Known, Loaded, Vetted
<1>3. /\ obj[t] \in Objects /\ map_of_accounts[c.id] = obj[t]
      /\ Atomic!IsOpen(c.id) /\ Debited(obj[t]) = {}
      /\ account[c.id].password = password[obj[t]]
      /\ account[c.id].balance = balance[obj[t]]
  BY <1>1, <1>2, SourceSeen DEF UsesObj, ObjLocked, Debiting
<1>4. PICK a \in Objects : a = obj[t]
  BY <1>3
<1>5. balance' = [balance EXCEPT ![a] = IF c.op = "D" THEN balance[a] + c.amt
                                                   ELSE balance[a] - c.amt]
  BY <1>2, <1>4 DEF Store, Op
<1>6. ASSUME NEW i \in Ids \ {c.id} PROVE account'[i] = account[i]
  <2>1. CASE map_of_accounts[i] = None
    BY <1>1, <2>1 DEF account
  <2>2. CASE map_of_accounts[i] # None
    <3>1. PICK o \in Objects : o = map_of_accounts[i]
      BY <1>1, <2>2
    <3>2. o # a
      BY <1>1, <1>3, <1>4, <2>2, <3>1 DEF AccountInv, MapInv, OpenOnce
    <3>3. BalanceOf(o)' = BalanceOf(o)
      BY <1>1, <1>4, <1>5, <3>2, BalanceStays
    <3> QED
      BY <1>1, <3>1, <3>3 DEF account
  <2> QED
    BY <2>1, <2>2
<1>7. account'[c.id] = [password |-> password[a], balance |-> BalanceOf(a)']
  BY <1>1, <1>3, <1>4, ThreadsAssumption DEF account
<1>8. account[c.id] = [password |-> password[a], balance |-> balance[a]]
  BY <1>1, <1>3, <1>4, Seen DEF Atomic!IsOpen, account
<1>9. CASE c.op = "T"
  <2>1. Debited(a)' = {t}
    BY <1>1, <1>2, <1>3, <1>4, <1>9 DEF Debited, DebtStays, Debiting
  <2>2. BalanceOf(a)' = balance[a]
    BY <1>1, <1>5, <1>9, <2>1 DEF BalanceOf
  <2>3. account'[c.id] = account[c.id]
    BY <1>7, <1>8, <2>2
  <2>4. account' = account
    BY <1>6, <2>3 DEF account
  <2>5. RequestStays(t)
    BY <1>1, <1>2, <1>9 DEF RequestStays, Undecided
  <2> QED
    BY <1>1, <2>4, <2>5, PendingStays DEF Atomic!vars
<1>10. CASE c.op \in {"D", "W"}
  <2>1. Debited(a)' = {}
    BY <1>1, <1>2, <1>3, <1>4, <1>10 DEF Debited, DebtStays, Debiting
  <2>2. BalanceOf(a)' = IF c.op = "D" THEN balance[a] + c.amt
                                     ELSE balance[a] - c.amt
    BY <1>1, <1>5, <2>1 DEF BalanceOf
  <2>3. Undecided(t) /\ ~Undecided(t)'
    BY <1>1, <1>2, <1>10 DEF Undecided, Op
  <2>4. Atomic!Acceptable(c)
    BY <1>2, <1>3, <1>10, AcceptableIs DEF Atomic!Owns, Atomic!Covers
  <2>5. account' = Atomic!After(c)
    <3>1. CASE c.op = "D"
      <4>1. Atomic!After(c) = [account EXCEPT ![c.id].balance = @ + c.amt]
        BY <3>1 DEF Atomic!After
      <4> QED
        BY <1>1, <1>6, <1>7, <1>8, <2>2, <3>1, <4>1 DEF account
    <3>2. CASE c.op = "W"
      <4>1. Atomic!After(c) = [account EXCEPT ![c.id].balance = @ - c.amt]
        BY <3>2 DEF Atomic!After
      <4> QED
        BY <1>1, <1>6, <1>7, <1>8, <2>2, <3>2, <4>1 DEF account
    <3> QED
      BY <1>10, <3>1, <3>2
  <2>6. Atomic!CarryOut(t)
    BY <1>1, <2>3, <2>4, <2>5, Answered
  <2> QED
    BY <2>6 DEF Atomic!Next
<1> QED
  BY <1>2, <1>9, <1>10

\* A transfer is carried out by its credit.
LEMMA RefineCredit ==
  ASSUME Base, [Next]_vars, NEW t \in Atms, Credit(t)
  PROVE  [Atomic!Next]_(Atomic!vars)
<1> DEFINE c == cmd[t]
<1>1. /\ TypeInv /\ Kinds /\ AccountInv /\ t \in Threads
      /\ vault' = vault /\ cmd' = cmd /\ obj' = obj
      /\ pc \in [Threads -> Steps] /\ c.id \in Ids /\ c.dst \in Ids
      /\ c.amt \in Int
      /\ map_of_accounts \in [Ids -> Objects \cup {None}]
      /\ balance \in [Objects -> Int]
      /\ map_of_accounts' = map_of_accounts /\ password' = password
      /\ \A s \in Atms \ {t} : DebtStays(s) /\ RequestStays(s)
  BY Moving DEF Moves
<1>2. /\ pc[t] = "credit" /\ c.op = "T" /\ pc' = [pc EXCEPT ![t] = "log"]
      /\ tmp[t] = balance[dst[t]] /\ password[obj[t]] = c.pw
      /\ balance[obj[t]] >= 0
  BY <1>1
  DEF Credit, Go, Op, Kinds, TransferSteps, Base, Known, Loaded, Vetted,
      Debiting
<1>3. /\ map_of_accounts[c.id] = obj[t] /\ map_of_accounts[c.dst] = dst[t]
      /\ obj[t] # None /\ dst[t] # None
  BY <1>1, <1>2
  DEF AccountInv, PointersLive, UsesObj, UsesDst, InList, Op
<1>4. PICK a \in Objects, d \in Objects : a = obj[t] /\ d = dst[t]
  BY <1>1, <1>3
<1>5. a # d /\ c.id # c.dst
  BY <1>1, <1>2, <1>3, <1>4
  DEF AccountInv, HoldInv, LockInv, TwoAccounts, DstLocked, Transfers, Op
<1>6. balance' = [balance EXCEPT ![d] = balance[d] + c.amt]
  BY <1>2, <1>4 DEF Credit
<1>7. Debited(a) = {t} /\ BalanceOf(a) = balance[a] + c.amt
  BY <1>1, <1>2, <1>4, DebitedAlone DEF Debiting
<1>8. Debited(d) = {} /\ BalanceOf(d) = balance[d]
  BY <1>1, <1>2, <1>4, <1>5, NotDebited
  DEF HoldsForWrite, DstLocked, Transfers, Op
<1>9. Debited(a)' = {} /\ Debited(d)' = {}
  <2>1. \A s \in Atms : pc'[s] \in Debiting => s # t /\ pc[s] \in Debiting
    BY <1>1, <1>2 DEF Debiting, DebtStays
  <2> QED
    BY <1>1, <1>7, <1>8, <2>1 DEF Debited, Debiting
<1>10. BalanceOf(a)' = balance[a] /\ BalanceOf(d)' = balance[d] + c.amt
  BY <1>1, <1>5, <1>6, <1>9 DEF BalanceOf
<1>11. ASSUME NEW i \in Ids \ {c.id, c.dst} PROVE account'[i] = account[i]
  <2>1. CASE map_of_accounts[i] = None
    BY <1>1, <2>1 DEF account
  <2>2. CASE map_of_accounts[i] # None
    <3>1. PICK o \in Objects : o = map_of_accounts[i]
      BY <1>1, <2>2
    <3>2. o # a /\ o # d
      BY <1>1, <1>3, <1>4, <2>2, <3>1 DEF AccountInv, MapInv, OpenOnce
    <3>3. BalanceOf(o)' = BalanceOf(o)
      BY <1>1, <1>4, <1>6, <3>2, BalanceStays
    <3> QED
      BY <1>1, <3>1, <3>3 DEF account
  <2> QED
    BY <2>1, <2>2
<1>12. /\ account'[c.id] = [password |-> password[a], balance |-> balance[a]]
       /\ account'[c.dst] = [password |-> password[d],
                             balance |-> balance[d] + c.amt]
  BY <1>1, <1>3, <1>4, <1>10, ThreadsAssumption DEF account
<1>13. /\ account[c.id] = [password |-> password[a],
                           balance |-> balance[a] + c.amt]
       /\ account[c.dst] = [password |-> password[d], balance |-> balance[d]]
       /\ account[c.id] # None /\ account[c.dst] # None
  BY <1>1, <1>3, <1>4, <1>7, <1>8, Seen DEF account
<1>14. account' = Atomic!After(c)
  <2>1. Atomic!After(c) = [account EXCEPT ![c.id].balance = @ - c.amt,
                                          ![c.dst].balance = @ + c.amt]
    BY <1>2 DEF Atomic!After
  <2>2. balance[a] + c.amt - c.amt = balance[a]
    BY <1>1
  <2>3. DOMAIN account = Ids /\ DOMAIN account' = Ids
    BY DEF account
  <2>4. /\ Atomic!After(c)[c.id] = account'[c.id]
        /\ Atomic!After(c)[c.dst] = account'[c.dst]
    BY <1>1, <1>5, <1>12, <1>13, <2>1, <2>2, <2>3
  <2>5. \A i \in Ids \ {c.id, c.dst} : Atomic!After(c)[i] = account'[i]
    BY <1>11, <2>1, <2>3
  <2>6. account' = [i \in Ids |-> account'[i]]
    BY DEF account
  <2>7. Atomic!After(c) = [i \in Ids |-> Atomic!After(c)[i]]
    BY <2>1, <2>3
  <2> QED
    BY <2>4, <2>5, <2>6, <2>7
<1>15. Atomic!Acceptable(c)
  <2>1. balance[a] + c.amt >= c.amt
    BY <1>1, <1>2, <1>4
  <2> QED
    BY <1>2, <1>4, <1>13, <2>1, AcceptableIs
    DEF Atomic!Owns, Atomic!IsOpen, Atomic!Covers
<1>16. Undecided(t) /\ ~Undecided(t)'
  BY <1>1, <1>2 DEF Undecided, Op
<1>17. Atomic!CarryOut(t)
  BY <1>1, <1>14, <1>15, <1>16, Answered
<1> QED
  BY <1>17 DEF Atomic!Next

\* A fee is charged when it is deducted.
LEMMA RefineDeduct ==
  ASSUME Base, [Next]_vars, DeductFee
  PROVE  [Atomic!Next]_(Atomic!vars)
<1> DEFINE t == FeeCollector
           fee == tmp[t]
<1>1. /\ TypeInv /\ Kinds /\ AccountInv /\ t \in Threads /\ t \notin Atms
      /\ pc[t] = "deduct" /\ pc' = [pc EXCEPT ![t] = "fee_log"]
      /\ UNCHANGED <<cmd, obj, cursor, tmp, map_of_accounts, password,
                     bank_balance>>
      /\ pc \in [Threads -> Steps] /\ bank_balance \in Int
      /\ map_of_accounts \in [Ids -> Objects \cup {None}]
      /\ balance \in [Objects -> Int] /\ fee \in Int
  BY ThreadsAssumption
  DEF Base, Known, AccountInv, HoldInv, TypeInv, TypeOK, DeductFee, Go,
      Threads, Services
<1>2. /\ cursor[t] \in Ids /\ obj[t] \in Objects
      /\ map_of_accounts[cursor[t]] = obj[t] /\ HoldsForWrite(t, obj[t])
  BY <1>1, Charged DEF Base
<1>3. PICK i \in Ids, a \in Objects : i = cursor[t] /\ a = obj[t]
  BY <1>2
<1>4. balance' = [balance EXCEPT ![a] = balance[a] - fee]
  BY <1>3 DEF DeductFee
<1>5. \A s \in Atms : DebtStays(s) /\ RequestStays(s)
  BY <1>1 DEF DebtStays, RequestStays, Undecided, Op
<1>6. Debited(a) = {} /\ BalanceOf(a) = balance[a]
  BY <1>1, <1>2, <1>3, NotDebited DEF Debiting
<1>7. BalanceOf(a)' = balance[a] - fee
  <2>1. Debited(a)' = {}
    BY <1>5, <1>6 DEF Debited, DebtStays, Debiting
  <2> QED
    BY <1>1, <1>4, <2>1 DEF BalanceOf
<1>8. ASSUME NEW j \in Ids \ {i} PROVE account'[j] = account[j]
  <2>1. CASE map_of_accounts[j] = None
    BY <1>1, <2>1 DEF account
  <2>2. CASE map_of_accounts[j] # None
    <3>1. PICK o \in Objects : o = map_of_accounts[j]
      BY <1>1, <2>2
    <3>2. o # a
      BY <1>1, <1>2, <1>3, <2>2, <3>1 DEF AccountInv, MapInv, OpenOnce
    <3>3. BalanceOf(o)' = BalanceOf(o)
      BY <1>1, <1>4, <1>5, <3>2, BalanceStays
    <3> QED
      BY <1>1, <3>1, <3>3 DEF account
  <2> QED
    BY <2>1, <2>2
<1>9. /\ account[i] = [password |-> password[a], balance |-> balance[a]]
      /\ account'[i] = [password |-> password[a],
                        balance |-> balance[a] - fee]
      /\ account[i] # None
  BY <1>1, <1>2, <1>3, <1>6, <1>7, Seen, ThreadsAssumption DEF account
<1>10. fee = Fee(account[i].balance, fee_rate) /\ fee_rate \in FeeRates
  BY <1>1, <1>3, <1>9 DEF Base, Known, Loaded
<1>11. account' = [account EXCEPT ![i].balance = @ - fee]
  <2>1. DOMAIN account = Ids /\ account' = [j \in Ids |-> account'[j]]
    BY DEF account
  <2>2. [account EXCEPT ![i].balance = @ - fee] = [j \in Ids |-> account'[j]]
    <3>1. [account[i] EXCEPT !.balance = account[i].balance - fee] = account'[i]
      BY <1>9
    <3> QED
      BY <1>8, <2>1, <3>1
  <2> QED
    BY <2>1, <2>2
<1>12. vault' = vault + fee
  BY <1>1 DEF vault
<1>13. pending' = pending
  BY <1>5, PendingStays
<1>14. Atomic!Charge(i, fee_rate)
  <2> DEFINE f == Atomic!Fee(account[i].balance, fee_rate)
  <2>1. f = Fee(account[i].balance, fee_rate)
    BY DEF Fee, Atomic!Fee
  <2>2. account' = [account EXCEPT ![i].balance = @ - f] /\ vault' = vault + f
    BY <1>10, <1>11, <1>12, <2>1
  <2> QED
    BY <1>9, <1>13, <2>2 DEF Atomic!Charge, Atomic!IsOpen
<1> QED
  BY <1>10, <1>14 DEF Atomic!Next

-----------------------------------------------------------------------------

\* Whoever is past a test has passed it: Vetted holds in every reachable
\* state.
THEOREM VettedInvariance == Spec => []Vetted
<1>1. Init => Vetted
  BY DEF Init, Vetted, Debiting, Threads
<1>2. AccountInv /\ Loaded /\ Vetted /\ [Next]_vars => Vetted'
  BY StepVetted
<1> QED
  BY AccountInvariance, LoadedInvariance, <1>1, <1>2, PTL DEF Spec

\* The commands and fees are atomic, for any ATMs, files, amounts and rates:
\* ImplementsAtomicBank.
THEOREM BankIsAtomic == Spec => ImplementsAtomicBank
<1>1. Init => Atomic!Init
  BY ThreadsAssumption
  DEF Init, Atomic!Init, account, vault, pending, Undecided, Threads, Services
<1>2. Base /\ [Next]_vars => [Atomic!Next]_(Atomic!vars)
  <2> SUFFICES ASSUME Base, [Next]_vars PROVE [Atomic!Next]_(Atomic!vars)
    OBVIOUS
  <2>1. ASSUME NEW t \in Atms, Decides(t) PROVE [Atomic!Next]_(Atomic!vars)
    BY <2>1, RefineRead, RefineFind, RefineLoad, RefineLog, RefineCreate,
       RefineClose
    DEF Decides
  <2>2. ASSUME NEW t \in Atms, Moves(t) PROVE [Atomic!Next]_(Atomic!vars)
    BY <2>2, RefineStore, RefineCredit DEF Moves
  <2>3. CASE DeductFee
    BY <2>3, RefineDeduct
  <2> QED
    BY <2>1, <2>2, <2>3, RefineRest
<1>3. /\ AccountInv /\ Loaded /\ Vetted /\ CursorKnown /\ LogInv
      /\ [Next]_vars
      => [Atomic!Next]_(Atomic!vars)
  BY <1>2 DEF Base, Known
<1> QED
  BY AccountInvariance, LoadedInvariance, LogInvariance, VettedInvariance,
     <1>1, <1>3, PTL
  DEF Spec, ImplementsAtomicBank, Atomic!Spec

=============================================================================
