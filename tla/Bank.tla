-------------------------------- MODULE Bank --------------------------------
(***************************************************************************)
(* The bank simulation of HW4: one thread per ATM, each executing the      *)
(* commands of its input file, a thread that prints the accounts, a thread *)
(* that collects fees, and main, which joins them all.                     *)
(*                                                                         *)
(* A step is at most one blocking call or one access to state that other   *)
(* threads write at that moment.  The list of accounts and every account   *)
(* have a readers-writer lock, here the readers and the writer RWLockSpec  *)
(* promises; ReadWriteLock shows that the mutexes keep that promise.  A    *)
(* line of log.txt is one step: log_print_lock is held for that line only, *)
(* and no lock is taken under it.                                          *)
(***************************************************************************)
EXTENDS Fees, Sequences

CONSTANTS
  Atms, Printer, FeeCollector, \* the threads
  Ids,                         \* account numbers, which order map_of_accounts
  Passwords, Amounts, FeeRates,
  Files,      \* the input files each ATM may be given: sets of line sequences
  Garbage,    \* commands the uninitialised locals of parser_file may hold
  MaxObjects, \* bound on the accounts created in one run
  Missing,    \* a token that a line of the input file lacks
  None        \* no thread, no account

Services == {Printer, FeeCollector}
Threads  == Atms \cup Services
Objects  == 1..MaxObjects \* the accounts, in the order of their creation

\* The commands that look accounts up, and those that change the list.
ListReaders == {"D", "W", "B", "T"} \* deposit, withdraw, balance, transfer
ListWriters == {"O", "Q"}           \* open, close
Ops == ListReaders \cup ListWriters \cup {"?"} \* "?": any other letter

Command == [op : Ops, id : Ids, pw : Passwords, dst : Ids, amt : Amounts]

Line == [op : Ops \cup {Missing}, id : Ids \cup {Missing},
         pw : Passwords \cup {Missing}, dst : Ids \cup {Missing},
         amt : Amounts \cup {Missing}]

ASSUME ThreadsAssumption ==
  /\ Printer # FeeCollector
  /\ Services \cap Atms = {}
  /\ None \notin Threads /\ None \notin Objects /\ None \notin Passwords
ASSUME NoneAssumption ==
  /\ None \notin Command
  /\ None \notin [password : Passwords \cup {None}, balance : Int]
ASSUME IdsAssumption == Ids \subseteq Nat \ {0}
ASSUME AmountsAssumption == Amounts \subseteq Int
ASSUME FeeRatesAssumption == FeeRates \subseteq 1..5
ASSUME MaxObjectsAssumption == MaxObjects \in Nat
ASSUME FilesAssumption == Files \in [Atms -> SUBSET Seq(Line)]
ASSUME GarbageAssumption == Garbage \subseteq Command
ASSUME MissingAssumption ==
  /\ Missing \notin Ops /\ Missing \notin Ids
  /\ Missing \notin Passwords /\ Missing \notin Amounts

VARIABLES
  pc,                      \* where each thread is
  file,                    \* the lines each ATM has not read yet
  cmd,                     \* the locals of each ATM's parser_file
  obj, dst,                \* the accounts a thread's iterators point at
  tmp,                     \* the number a thread computes with
  cursor,                  \* the id a service thread visited last
  fee_rate,                \* rand_fee
  accounts_print, stdout_print_lock,
  progress, main,
  list_readers, list_writer, \* the lock of the list of accounts
  acct_readers, acct_writer, \* the lock of each account
  transfer_lock,
  map_of_accounts, map_of_deleted_accounts,
  heap_size,               \* number of accounts created so far
  balance, password, deleted,
  bank_balance,
  log_balance,             \* the balance the lines of log.txt add up to
  printed                  \* the money the current status print adds up to

parserVars  == <<file, cmd>>
localVars   == <<obj, dst, tmp>>
serviceVars == <<cursor, fee_rate>>
gateVars    == <<accounts_print, stdout_print_lock>>
mainVars    == <<progress, main>>
listLock    == <<list_readers, list_writer>>
acctLocks   == <<acct_readers, acct_writer>>
mapVars     == <<map_of_accounts, map_of_deleted_accounts, heap_size,
                 password, deleted>>
moneyVars   == <<balance, bank_balance>>
reportVars  == <<log_balance, printed>>

vars == <<pc, parserVars, localVars, serviceVars, gateVars, mainVars, listLock,
          acctLocks, transfer_lock, mapVars, moneyVars, reportVars>>

Init ==
  /\ pc = [t \in Threads |-> IF t \in Atms THEN "parse" ELSE "loop"]
  /\ file \in {f \in [Atms -> UNION {Files[t] : t \in Atms}] :
                 \A t \in Atms : f[t] \in Files[t]}
  /\ cmd \in [Atms -> Garbage]
  /\ obj = [t \in Threads |-> None]
  /\ dst = [t \in Threads |-> None]
  /\ tmp = [t \in Threads |-> 0]
  /\ cursor = [t \in Services |-> 0]
  /\ fee_rate = 0
  /\ accounts_print = FALSE
  /\ stdout_print_lock = FALSE
  /\ progress = TRUE
  /\ main = "join_atms"
  /\ list_readers = {}
  /\ list_writer = None
  /\ acct_readers = [o \in Objects |-> {}]
  /\ acct_writer = [o \in Objects |-> None]
  /\ transfer_lock = None
  /\ map_of_accounts = [i \in Ids |-> None]
  /\ map_of_deleted_accounts = [i \in Ids |-> None]
  /\ heap_size = 0
  /\ balance = [o \in Objects |-> 0]
  /\ password = [o \in Objects |-> None]
  /\ deleted = [o \in Objects |-> FALSE]
  /\ bank_balance = 0
  /\ log_balance = [i \in Ids |-> 0]
  /\ printed = 0

Go(t, from, to) ==
  /\ pc[t] = from
  /\ pc' = [pc EXCEPT ![t] = to]

-----------------------------------------------------------------------------
(* The locks. *)

LockListForRead(t, from, to) ==
  /\ Go(t, from, to)
  /\ list_writer = None
  /\ list_readers' = list_readers \cup {t}
  /\ UNCHANGED list_writer

UnlockListFromRead(t, from, to) ==
  /\ Go(t, from, to)
  /\ list_readers' = list_readers \ {t}
  /\ UNCHANGED list_writer

\* Faults: a writer that does not wait for the readers, or for anybody.
LockDespiteReaders(t, o) ==
  /\ acct_writer[o] = None
  /\ acct_writer' = [acct_writer EXCEPT ![o] = t]
  /\ UNCHANGED acct_readers

LockAtOnce(t, o) ==
  /\ acct_writer' = [acct_writer EXCEPT ![o] = t]
  /\ UNCHANGED acct_readers

LockForWrite(t, o) ==
  /\ acct_readers[o] = {} /\ acct_writer[o] = None
  /\ acct_writer' = [acct_writer EXCEPT ![o] = t]
  /\ UNCHANGED acct_readers

UnlockFromWrite(o) ==
  /\ acct_writer' = [acct_writer EXCEPT ![o] = None]
  /\ UNCHANGED acct_readers

LockForRead(t, o) ==
  /\ acct_writer[o] = None
  /\ acct_readers' = [acct_readers EXCEPT ![o] = @ \cup {t}]
  /\ UNCHANGED acct_writer

UnlockFromRead(t, o) ==
  /\ acct_readers' = [acct_readers EXCEPT ![o] = @ \ {t}]
  /\ UNCHANGED acct_writer


-----------------------------------------------------------------------------
(* parser_file. *)

Op(t) == cmd[t].op

\* Fault: a token that the line lacks is taken all the same.
TokenUnchecked(new, old) == new

\* A token that the line lacks leaves the local variable as it was: the
\* locals live as long as the file, so they hold the line before's value.
Token(new, old) == IF new = Missing THEN old ELSE new

\* The tokens that the switch extracts for this command.
Scan(line, old) ==
  LET op == Token(line.op, old.op)
  IN  [op  |-> op,
       id  |-> Token(line.id, old.id),
       pw  |-> Token(line.pw, old.pw),
       dst |-> IF op = "T" THEN Token(line.dst, old.dst) ELSE old.dst,
       amt |-> IF op \in {"O", "D", "W", "T"} THEN Token(line.amt, old.amt)
                                              ELSE old.amt]

Dispatch(op) ==
  CASE op \in ListReaders -> "gate?"
    [] op \in ListWriters -> "raise_flag"
    [] OTHER -> "parse"

ReadLine(t) ==
  /\ file[t] # <<>>
  /\ LET c == Scan(Head(file[t]), cmd[t])
     IN  Go(t, "parse", Dispatch(c.op)) /\ cmd' = [cmd EXCEPT ![t] = c]
  /\ file' = [file EXCEPT ![t] = Tail(@)]
  /\ UNCHANGED <<localVars, serviceVars, gateVars, mainVars, listLock,
                 acctLocks, transfer_lock, mapVars, moneyVars, reportVars>>

EndOfFile(t) ==
  /\ file[t] = <<>>
  /\ Go(t, "parse", "done")
  /\ UNCHANGED <<parserVars, localVars, serviceVars, gateVars, mainVars,
                 listLock, acctLocks, transfer_lock, mapVars, moneyVars,
                 reportVars>>

-----------------------------------------------------------------------------
(* deposit_to_account, withdrawl_from_account, balance_check and           *)
(* transfer_between_accounts.                                              *)

\* if(accounts_print) ...
CheckGate(t) ==
  /\ Go(t, "gate?", IF accounts_print THEN "gate" ELSE "list_read")
  /\ UNCHANGED <<parserVars, localVars, serviceVars, gateVars, mainVars,
                 listLock, acctLocks, transfer_lock, mapVars, moneyVars,
                 reportVars>>

\* ... pthread_mutex_lock(&stdout_print_lock), which this thread keeps.
PassGate(t) ==
  /\ Go(t, "gate", "list_read")
  /\ ~stdout_print_lock
  /\ stdout_print_lock' = TRUE
  /\ UNCHANGED <<parserVars, localVars, serviceVars, accounts_print, mainVars,
                 listLock, acctLocks, transfer_lock, mapVars, moneyVars,
                 reportVars>>

\* Fault: the list is read without its lock.
EnterListUnlocked(t) ==
  /\ Go(t, "list_read", IF Op(t) = "T" THEN "transfer_lock" ELSE "find")
  /\ UNCHANGED <<parserVars, localVars, serviceVars, gateVars, mainVars,
                 listLock, acctLocks, transfer_lock, mapVars, moneyVars,
                 reportVars>>

EnterList(t) ==
  /\ LockListForRead(t, "list_read",
                     IF Op(t) = "T" THEN "transfer_lock" ELSE "find")
  /\ UNCHANGED <<parserVars, localVars, serviceVars, gateVars, mainVars,
                 acctLocks, transfer_lock, mapVars, moneyVars, reportVars>>

LockTransfer(t) ==
  /\ Go(t, "transfer_lock", "find")
  /\ transfer_lock = None
  /\ transfer_lock' = t
  /\ UNCHANGED <<parserVars, localVars, serviceVars, gateVars, mainVars,
                 listLock, acctLocks, mapVars, moneyVars, reportVars>>

\* Where a thread that holds no account lock goes from.
Leave(t) == IF Op(t) = "T" THEN "unlock_transfer" ELSE "unlock_list"

Find(t) ==
  LET src == map_of_accounts[cmd[t].id]
      to  == IF Op(t) = "T" THEN map_of_accounts[cmd[t].dst] ELSE src
  IN  /\ Go(t, "find", IF None \in {src, to} THEN Leave(t) ELSE "lock_src")
      /\ obj' = [obj EXCEPT ![t] = src]
      /\ dst' = [dst EXCEPT ![t] = to]
      /\ UNCHANGED <<parserVars, tmp, serviceVars, gateVars, mainVars,
                     listLock, acctLocks, transfer_lock, mapVars, moneyVars,
                     reportVars>>

LockSource(t) ==
  /\ Go(t, "lock_src", IF Op(t) = "T" THEN "lock_dst" ELSE "load")
  /\ IF Op(t) = "B" THEN LockForRead(t, obj[t]) ELSE LockForWrite(t, obj[t])
  /\ UNCHANGED <<parserVars, localVars, serviceVars, gateVars, mainVars,
                 listLock, transfer_lock, mapVars, moneyVars, reportVars>>

\* A transfer to its own source waits here for a lock it holds itself.
LockDestination(t) ==
  /\ Go(t, "lock_dst", "load")
  /\ LockForWrite(t, dst[t])
  /\ UNCHANGED <<parserVars, localVars, serviceVars, gateVars, mainVars,
                 listLock, transfer_lock, mapVars, moneyVars, reportVars>>

\* Faults: a withdrawal that does not compare, a command that needs no
\* password.
AcceptedOverdrawn(t) ==
  /\ ~deleted[obj[t]] /\ ~deleted[dst[t]]
  /\ password[obj[t]] = cmd[t].pw
  /\ Op(t) = "T" => balance[obj[t]] >= cmd[t].amt

AcceptedFromAnyone(t) ==
  /\ ~deleted[obj[t]] /\ ~deleted[dst[t]]
  /\ Op(t) \in {"W", "T"} => balance[obj[t]] >= cmd[t].amt

\* deleted, vallid_password and the comparison of withdrawl, in that order.
Accepted(t) ==
  /\ ~deleted[obj[t]] /\ ~deleted[dst[t]]
  /\ password[obj[t]] = cmd[t].pw
  /\ Op(t) \in {"W", "T"} => balance[obj[t]] >= cmd[t].amt

\* The read of the balance: in deposit, in withdrawl, or for the log.
Load(t) ==
  /\ Go(t, "load", IF ~Accepted(t) THEN "unlock_src"
                   ELSE IF Op(t) = "B" THEN "log" ELSE "store")
  /\ tmp' = [tmp EXCEPT ![t] = IF Accepted(t) THEN balance[obj[t]] ELSE @]
  /\ UNCHANGED <<parserVars, obj, dst, serviceVars, gateVars, mainVars,
                 listLock, acctLocks, transfer_lock, mapVars, moneyVars,
                 reportVars>>

\* The write of balance += amount or balance -= amount.
Store(t) ==
  /\ Go(t, "store", IF Op(t) = "T" THEN "load_dst" ELSE "log")
  /\ balance' = [balance EXCEPT ![obj[t]] =
                   IF Op(t) = "D" THEN tmp[t] + cmd[t].amt
                                  ELSE tmp[t] - cmd[t].amt]
  /\ UNCHANGED <<parserVars, localVars, serviceVars, gateVars, mainVars,
                 listLock, acctLocks, transfer_lock, mapVars, bank_balance,
                 reportVars>>

LoadDestination(t) ==
  /\ Go(t, "load_dst", "credit")
  /\ tmp' = [tmp EXCEPT ![t] = balance[dst[t]]]
  /\ UNCHANGED <<parserVars, obj, dst, serviceVars, gateVars, mainVars,
                 listLock, acctLocks, transfer_lock, mapVars, moneyVars,
                 reportVars>>

Credit(t) ==
  /\ Go(t, "credit", "log")
  /\ balance' = [balance EXCEPT ![dst[t]] = tmp[t] + cmd[t].amt]
  /\ UNCHANGED <<parserVars, localVars, serviceVars, gateVars, mainVars,
                 listLock, acctLocks, transfer_lock, mapVars, bank_balance,
                 reportVars>>

\* What the line of a command that was carried out says about balances.
LogTo(c) ==
  CASE c.op = "O" -> [log_balance EXCEPT ![c.id] = c.amt]
    [] c.op = "D" -> [log_balance EXCEPT ![c.id] = @ + c.amt]
    [] c.op = "W" -> [log_balance EXCEPT ![c.id] = @ - c.amt]
    [] c.op = "T" -> [log_balance EXCEPT ![c.id] = @ - c.amt,
                                         ![c.dst] = @ + c.amt]
    [] OTHER -> log_balance

Log(t) ==
  /\ Go(t, "log", IF Op(t) \in ListWriters THEN "w_unlock_account"
                                           ELSE "unlock_src")
  /\ log_balance' = LogTo(cmd[t])
  /\ UNCHANGED <<parserVars, localVars, serviceVars, gateVars, mainVars,
                 listLock, acctLocks, transfer_lock, mapVars, moneyVars,
                 printed>>

\* Fault: a transfer forgets the lock of its destination.
UnlockSourceOnly(t) ==
  /\ Go(t, "unlock_src",
        IF Op(t) = "T" THEN "unlock_transfer" ELSE "unlock_list")
  /\ IF Op(t) = "B" THEN UnlockFromRead(t, obj[t]) ELSE UnlockFromWrite(obj[t])
  /\ UNCHANGED <<parserVars, localVars, serviceVars, gateVars, mainVars,
                 listLock, transfer_lock, mapVars, moneyVars, reportVars>>

UnlockSource(t) ==
  /\ Go(t, "unlock_src", IF Op(t) = "T" THEN "unlock_dst" ELSE "unlock_list")
  /\ IF Op(t) = "B" THEN UnlockFromRead(t, obj[t]) ELSE UnlockFromWrite(obj[t])
  /\ UNCHANGED <<parserVars, localVars, serviceVars, gateVars, mainVars,
                 listLock, transfer_lock, mapVars, moneyVars, reportVars>>

UnlockDestination(t) ==
  /\ Go(t, "unlock_dst", "unlock_transfer")
  /\ UnlockFromWrite(dst[t])
  /\ UNCHANGED <<parserVars, localVars, serviceVars, gateVars, mainVars,
                 listLock, transfer_lock, mapVars, moneyVars, reportVars>>

UnlockTransfer(t) ==
  /\ Go(t, "unlock_transfer", "unlock_list")
  /\ transfer_lock' = None
  /\ UNCHANGED <<parserVars, localVars, serviceVars, gateVars, mainVars,
                 listLock, acctLocks, mapVars, moneyVars, reportVars>>

\* The locals of the call are gone when it returns.
ForgetLocals(t) ==
  /\ obj' = [obj EXCEPT ![t] = None]
  /\ dst' = [dst EXCEPT ![t] = None]
  /\ tmp' = [tmp EXCEPT ![t] = 0]

LeaveList(t) ==
  /\ UnlockListFromRead(t, "unlock_list", "parse")
  /\ ForgetLocals(t)
  /\ UNCHANGED <<parserVars, serviceVars, gateVars, mainVars, acctLocks,
                 transfer_lock, mapVars, moneyVars, reportVars>>

-----------------------------------------------------------------------------
(* create_account and closing_account; accounts_status_print takes and     *)
(* leaves the list in the same way.                                        *)

RaiseFlag(t) ==
  /\ Go(t, "raise_flag", "list_write")
  /\ accounts_print' = TRUE
  /\ UNCHANGED <<parserVars, localVars, serviceVars, stdout_print_lock,
                 mainVars, listLock, acctLocks, transfer_lock, mapVars,
                 moneyVars, reportVars>>

AtWork(t) == IF t = Printer THEN "print"
             ELSE IF Op(t) = "O" THEN "create" ELSE "w_find"

LockListForWrite(t) ==
  /\ Go(t, "list_write", AtWork(t))
  /\ list_readers = {} /\ list_writer = None
  /\ list_writer' = t
  /\ UNCHANGED <<parserVars, localVars, serviceVars, gateVars, mainVars,
                 list_readers, acctLocks, transfer_lock, mapVars, moneyVars,
                 reportVars>>

\* map::insert leaves an entry that is already there as it is.
Insert(map, i, o) == IF map[i] = None THEN [map EXCEPT ![i] = o] ELSE map

NotOpen(i) == map_of_accounts[i] = None \/ deleted[map_of_accounts[i]]

\* A new account is locked before it is put into the list.
CreateAccount(t) ==
  LET c == cmd[t]
      o == heap_size + 1
  IN  /\ Go(t, "create", IF NotOpen(c.id) THEN "log" ELSE "w_unlock_list")
      /\ IF NotOpen(c.id)
         THEN /\ heap_size < MaxObjects
              /\ heap_size' = o
              /\ balance' = [balance EXCEPT ![o] = c.amt]
              /\ password' = [password EXCEPT ![o] = c.pw]
              /\ map_of_accounts' = Insert(map_of_accounts, c.id, o)
              /\ obj' = [obj EXCEPT ![t] = o]
              /\ LockForWrite(t, o)
         ELSE UNCHANGED <<heap_size, balance, password, map_of_accounts, obj,
                          acctLocks>>
      /\ UNCHANGED <<parserVars, dst, tmp, serviceVars, gateVars, mainVars,
                     listLock, transfer_lock, deleted,
                     map_of_deleted_accounts, bank_balance, reportVars>>

FindToClose(t) ==
  LET o == map_of_accounts[cmd[t].id]
  IN  /\ Go(t, "w_find", IF o = None THEN "w_unlock_list" ELSE "w_lock")
      /\ obj' = [obj EXCEPT ![t] = o]
      /\ UNCHANGED <<parserVars, dst, tmp, serviceVars, gateVars, mainVars,
                     listLock, acctLocks, transfer_lock, mapVars, moneyVars,
                     reportVars>>

LockToClose(t) ==
  /\ Go(t, "w_lock", "w_close")
  /\ LockForWrite(t, obj[t])
  /\ UNCHANGED <<parserVars, localVars, serviceVars, gateVars, mainVars,
                 listLock, transfer_lock, mapVars, moneyVars, reportVars>>

\* Fault: a closed account is not erased from the list.
CloseWithoutErase(t) ==
  LET o == obj[t]
      closes == ~deleted[o] /\ password[o] = cmd[t].pw
  IN  /\ Go(t, "w_close", IF closes THEN "log" ELSE "w_unlock_account")
      /\ IF closes
         THEN /\ map_of_deleted_accounts' =
                   Insert(map_of_deleted_accounts, cmd[t].id, o)
              /\ deleted' = [deleted EXCEPT ![o] = TRUE]
         ELSE UNCHANGED <<map_of_deleted_accounts, deleted>>
      /\ UNCHANGED <<parserVars, localVars, serviceVars, gateVars, mainVars,
                     listLock, acctLocks, transfer_lock, heap_size, password,
                     map_of_accounts, moneyVars, reportVars>>

\* After the erase the code still reads the account through the erased
\* iterator (atm.cpp:233-235); obj[t] stands for the value it read before,
\* which the freed node keeps while no allocation reuses it.
CloseAccount(t) ==
  LET o == obj[t]
      closes == ~deleted[o] /\ password[o] = cmd[t].pw
  IN  /\ Go(t, "w_close", IF closes THEN "log" ELSE "w_unlock_account")
      /\ IF closes
         THEN /\ map_of_deleted_accounts' =
                   Insert(map_of_deleted_accounts, cmd[t].id, o)
              /\ deleted' = [deleted EXCEPT ![o] = TRUE]
              /\ map_of_accounts' =
                   [map_of_accounts EXCEPT ![cmd[t].id] = None]
         ELSE UNCHANGED <<map_of_deleted_accounts, deleted, map_of_accounts>>
      /\ UNCHANGED <<parserVars, localVars, serviceVars, gateVars, mainVars,
                     listLock, acctLocks, transfer_lock, heap_size, password,
                     moneyVars, reportVars>>

UnlockAccount(t) ==
  /\ Go(t, "w_unlock_account", "w_unlock_list")
  /\ UnlockFromWrite(obj[t])
  /\ UNCHANGED <<parserVars, localVars, serviceVars, gateVars, mainVars,
                 listLock, transfer_lock, mapVars, moneyVars, reportVars>>

UnlockListFromWrite(t) ==
  /\ Go(t, "w_unlock_list", "clear_flag")
  /\ list_writer' = None
  /\ printed' = IF t = Printer THEN 0 ELSE printed \* the status is complete
  /\ UNCHANGED <<parserVars, localVars, serviceVars, gateVars, mainVars,
                 list_readers, acctLocks, transfer_lock, mapVars, moneyVars,
                 log_balance>>

ClearFlag(t) ==
  /\ Go(t, "clear_flag", "open_gate")
  /\ accounts_print' = FALSE
  /\ UNCHANGED <<parserVars, localVars, serviceVars, stdout_print_lock,
                 mainVars, listLock, acctLocks, transfer_lock, mapVars,
                 moneyVars, reportVars>>

\* Fault: nobody unlocks stdout_print_lock.
LeaveGateShut(t) ==
  /\ Go(t, "open_gate", IF t = Printer THEN "loop" ELSE "parse")
  /\ ForgetLocals(t)
  /\ UNCHANGED <<parserVars, serviceVars, gateVars, mainVars, listLock,
                 acctLocks, transfer_lock, mapVars, moneyVars, reportVars>>

\* pthread_mutex_unlock(&stdout_print_lock), whoever locked it, if anybody.
OpenGate(t) ==
  /\ Go(t, "open_gate", IF t = Printer THEN "loop" ELSE "parse")
  /\ stdout_print_lock' = FALSE
  /\ ForgetLocals(t)
  /\ UNCHANGED <<parserVars, serviceVars, accounts_print, mainVars, listLock,
                 acctLocks, transfer_lock, mapVars, moneyVars, reportVars>>

-----------------------------------------------------------------------------
(* The loops of accounts_status_print and fee_collection. *)

\* The ids an iteration over map_of_accounts has still to visit, and the
\* one it visits next.
Ahead(t) == {i \in Ids : i > cursor[t] /\ map_of_accounts[i] # None}
IsNext(i, t) == i \in Ahead(t) /\ \A j \in Ahead(t) : i <= j

Loop(t) ==
  /\ Go(t, "loop", IF ~progress THEN "done"
                   ELSE IF t = Printer THEN "raise_flag" ELSE "rand")
  /\ UNCHANGED <<parserVars, localVars, serviceVars, gateVars, mainVars,
                 listLock, acctLocks, transfer_lock, mapVars, moneyVars,
                 reportVars>>

\* One line of the status; the account's read lock is held for the line.
PrintAccount ==
  /\ Go(Printer, "print", "print")
  /\ \E i \in Ids :
       /\ IsNext(i, Printer)
       /\ acct_writer[map_of_accounts[i]] = None
       /\ cursor' = [cursor EXCEPT ![Printer] = i]
       /\ printed' = printed + balance[map_of_accounts[i]]
  /\ UNCHANGED <<parserVars, localVars, fee_rate, gateVars, mainVars,
                 listLock, acctLocks, transfer_lock, mapVars, moneyVars,
                 log_balance>>

PrintBank ==
  /\ Ahead(Printer) = {}
  /\ Go(Printer, "print", "w_unlock_list")
  /\ cursor' = [cursor EXCEPT ![Printer] = 0]
  /\ printed' = printed + bank_balance
  /\ UNCHANGED <<parserVars, localVars, fee_rate, gateVars, mainVars,
                 listLock, acctLocks, transfer_lock, mapVars, moneyVars,
                 log_balance>>

DrawFee ==
  /\ Go(FeeCollector, "rand", "list_read")
  /\ fee_rate' \in FeeRates
  /\ UNCHANGED <<parserVars, localVars, cursor, gateVars, mainVars, listLock,
                 acctLocks, transfer_lock, mapVars, moneyVars, reportVars>>

\* Fault: the fee collector reads the list without its lock.
EnterListForFeesUnlocked ==
  /\ Go(FeeCollector, "list_read", "next")
  /\ UNCHANGED <<parserVars, localVars, serviceVars, gateVars, mainVars,
                 listLock, acctLocks, transfer_lock, mapVars, moneyVars,
                 reportVars>>

EnterListForFees ==
  /\ LockListForRead(FeeCollector, "list_read", "next")
  /\ UNCHANGED <<parserVars, localVars, serviceVars, gateVars, mainVars,
                 acctLocks, transfer_lock, mapVars, moneyVars, reportVars>>

LockToCharge ==
  /\ Go(FeeCollector, "next", "gain")
  /\ \E i \in Ids :
       /\ IsNext(i, FeeCollector)
       /\ LockForWrite(FeeCollector, map_of_accounts[i])
       /\ cursor' = [cursor EXCEPT ![FeeCollector] = i]
       /\ obj' = [obj EXCEPT ![FeeCollector] = map_of_accounts[i]]
  /\ UNCHANGED <<parserVars, dst, tmp, fee_rate, gateVars, mainVars, listLock,
                 transfer_lock, mapVars, moneyVars, reportVars>>

GainFee ==
  LET fee == Fee(balance[obj[FeeCollector]], fee_rate)
  IN  /\ Go(FeeCollector, "gain", "deduct")
      /\ tmp' = [tmp EXCEPT ![FeeCollector] = fee]
      /\ bank_balance' = bank_balance + fee
      /\ UNCHANGED <<parserVars, obj, dst, serviceVars, gateVars, mainVars,
                     listLock, acctLocks, transfer_lock, mapVars, balance,
                     reportVars>>

\* Fault: the account is unlocked before its line is written.
DeductFeeAndUnlock ==
  /\ Go(FeeCollector, "deduct", "fee_log")
  /\ balance' = [balance EXCEPT ![obj[FeeCollector]] = @ - tmp[FeeCollector]]
  /\ UnlockFromWrite(obj[FeeCollector])
  /\ UNCHANGED <<parserVars, localVars, serviceVars, gateVars, mainVars,
                 listLock, transfer_lock, mapVars, bank_balance, reportVars>>

DeductFee ==
  /\ Go(FeeCollector, "deduct", "fee_log")
  /\ balance' = [balance EXCEPT ![obj[FeeCollector]] = @ - tmp[FeeCollector]]
  /\ UNCHANGED <<parserVars, localVars, serviceVars, gateVars, mainVars,
                 listLock, acctLocks, transfer_lock, mapVars, bank_balance,
                 reportVars>>

LogFee ==
  /\ Go(FeeCollector, "fee_log", "fee_unlock")
  /\ log_balance' = [log_balance EXCEPT ![cursor[FeeCollector]] =
                       @ - tmp[FeeCollector]]
  /\ UNCHANGED <<parserVars, localVars, serviceVars, gateVars, mainVars,
                 listLock, acctLocks, transfer_lock, mapVars, moneyVars,
                 printed>>

UnlockCharged ==
  /\ Go(FeeCollector, "fee_unlock", "next")
  /\ UnlockFromWrite(obj[FeeCollector])
  /\ ForgetLocals(FeeCollector)
  /\ UNCHANGED <<parserVars, serviceVars, gateVars, mainVars, listLock,
                 transfer_lock, mapVars, moneyVars, reportVars>>

LeaveListAfterFees ==
  /\ Ahead(FeeCollector) = {}
  /\ UnlockListFromRead(FeeCollector, "next", "loop")
  /\ cursor' = [cursor EXCEPT ![FeeCollector] = 0]
  /\ fee_rate' = 0
  /\ UNCHANGED <<parserVars, localVars, gateVars, mainVars, acctLocks,
                 transfer_lock, mapVars, moneyVars, reportVars>>

-----------------------------------------------------------------------------
(* main: pthread_join returns once the thread is done. *)

Join(S, from, to) ==
  /\ main = from
  /\ \A t \in S : pc[t] = "done"
  /\ main' = to
  /\ UNCHANGED <<pc, parserVars, localVars, serviceVars, gateVars, listLock,
                 acctLocks, transfer_lock, mapVars, moneyVars, reportVars>>

JoinAtms == Join(Atms, "join_atms", "join_fee") /\ progress' = FALSE
JoinFeeCollector ==
  Join({FeeCollector}, "join_fee", "join_printer") /\ UNCHANGED progress
JoinPrinter == Join({Printer}, "join_printer", "done") /\ UNCHANGED progress

\* The process has ended: not a deadlock.
Finished == main = "done" /\ UNCHANGED vars

-----------------------------------------------------------------------------

ReadOnList(t) ==
  \/ CheckGate(t)
  \/ PassGate(t)
  \/ EnterList(t)
  \/ LockTransfer(t)
  \/ Find(t)
  \/ LockSource(t)
  \/ LockDestination(t)
  \/ Load(t)
  \/ Store(t)
  \/ LoadDestination(t)
  \/ Credit(t)
  \/ UnlockSource(t)
  \/ UnlockDestination(t)
  \/ UnlockTransfer(t)
  \/ LeaveList(t)

ChangeList(t) ==
  \/ CreateAccount(t)
  \/ FindToClose(t)
  \/ LockToClose(t)
  \/ CloseAccount(t)
  \/ UnlockAccount(t)

\* What the printer and the commands O and Q share.
AroundList(t) ==
  \/ RaiseFlag(t)
  \/ LockListForWrite(t)
  \/ UnlockListFromWrite(t)
  \/ ClearFlag(t)
  \/ OpenGate(t)

AtmStep(t) ==
  \/ ReadLine(t)
  \/ EndOfFile(t)
  \/ ReadOnList(t)
  \/ ChangeList(t)
  \/ AroundList(t)
  \/ Log(t)

PrinterStep ==
  \/ Loop(Printer)
  \/ AroundList(Printer)
  \/ PrintAccount
  \/ PrintBank

FeeStep ==
  \/ Loop(FeeCollector)
  \/ DrawFee
  \/ EnterListForFees
  \/ LockToCharge
  \/ GainFee
  \/ DeductFee
  \/ LogFee
  \/ UnlockCharged
  \/ LeaveListAfterFees

MainStep == JoinAtms \/ JoinFeeCollector \/ JoinPrinter

Next ==
  \/ \E t \in Atms : AtmStep(t)
  \/ PrinterStep
  \/ FeeStep
  \/ MainStep
  \/ Finished

Spec == Init /\ [][Next]_vars

(***************************************************************************)
(* Every thread sleeps between two commands or rounds (atm.cpp:489,        *)
(* bank.cpp:47, bank.cpp:54) and, holding a lock, comes to its release; a  *)
(* thread that waits for a lock finds it free again and again and gets it  *)
(* in the end.                                                             *)
(***************************************************************************)
FairSpec ==
  /\ Spec
  /\ \A t \in Atms : SF_vars(AtmStep(t))
  /\ SF_vars(PrinterStep)
  /\ SF_vars(FeeStep)
  /\ WF_vars(MainStep)

-----------------------------------------------------------------------------
(* Properties. *)

ReadSteps == {"transfer_lock", "find", "lock_src", "lock_dst", "load",
              "store", "load_dst", "credit", "unlock_src", "unlock_dst",
              "unlock_transfer", "unlock_list",
              "next", "gain", "deduct", "fee_log", "fee_unlock"}
WriteSteps == {"create", "w_find", "w_lock", "w_close", "w_unlock_account",
               "w_unlock_list", "print"}
FreeSteps  == {"parse", "gate?", "gate", "list_read", "raise_flag",
               "list_write", "clear_flag", "open_gate", "loop", "rand", "done"}
Steps == ReadSteps \cup WriteSteps \cup FreeSteps \cup {"log"}

TypeOK ==
  /\ pc \in [Threads -> Steps]
  /\ file \in [Atms -> Seq(Line)]
  /\ cmd \in [Atms -> Command]
  /\ obj \in [Threads -> Objects \cup {None}]
  /\ dst \in [Threads -> Objects \cup {None}]
  /\ tmp \in [Threads -> Int]
  /\ cursor \in [Services -> Nat]
  /\ fee_rate \in FeeRates \cup {0}
  /\ accounts_print \in BOOLEAN
  /\ stdout_print_lock \in BOOLEAN
  /\ progress \in BOOLEAN
  /\ main \in {"join_atms", "join_fee", "join_printer", "done"}
  /\ list_readers \subseteq Threads
  /\ list_writer \in Threads \cup {None}
  /\ acct_readers \in [Objects -> SUBSET Threads]
  /\ acct_writer \in [Objects -> Threads \cup {None}]
  /\ transfer_lock \in Atms \cup {None}
  /\ map_of_accounts \in [Ids -> Objects \cup {None}]
  /\ map_of_deleted_accounts \in [Ids -> Objects \cup {None}]
  /\ heap_size \in 0..MaxObjects
  /\ balance \in [Objects -> Int]
  /\ password \in [Objects -> Passwords \cup {None}]
  /\ deleted \in [Objects -> BOOLEAN]
  /\ bank_balance \in Int
  /\ log_balance \in [Ids -> Int]
  /\ printed \in Int

\* The steps at which a thread uses the account obj[t], and dst[t].
UsesObj(t) ==
  \/ pc[t] \in {"lock_src", "lock_dst", "load", "store", "load_dst", "credit",
                "unlock_src", "w_lock", "w_close",
                "gain", "deduct", "fee_log", "fee_unlock"}
  \/ pc[t] = "log" /\ Op(t) # "Q"
UsesDst(t) ==
  /\ t \in Atms /\ Op(t) = "T"
  /\ pc[t] \in {"lock_src", "lock_dst", "load", "store", "load_dst", "credit",
                "log", "unlock_src", "unlock_dst"}

InList(o, i) == o # None /\ map_of_accounts[i] = o /\ ~deleted[o]

(***************************************************************************)
(* An iterator is used long after the lookup that gave it, across sleeps   *)
(* and blocking locks, and other ATMs close accounts in between            *)
(* (atm.cpp:230 erases the node it points at).  Still, whenever a thread   *)
(* uses one, the account it found is the one in the list under that id and *)
(* is not closed; and the iterators of the printer and the fee collector   *)
(* point at entries that still exist when they are advanced.               *)
(***************************************************************************)
PointersLive ==
  /\ \A t \in Atms : /\ UsesObj(t) => InList(obj[t], cmd[t].id)
                     /\ UsesDst(t) => InList(dst[t], cmd[t].dst)
  /\ \A t \in Services : /\ UsesObj(t) => InList(obj[t], cursor[t])
                         /\ cursor[t] # 0 => map_of_accounts[cursor[t]] # None

(***************************************************************************)
(* Whoever replays log.txt from top to bottom gets every account's balance *)
(* right, whenever nobody is changing that account: the lines of one       *)
(* account are in the order in which its balance changed, and none is      *)
(* missing (the log line is written under the account's lock).             *)
(***************************************************************************)
LogReplays ==
  \A i \in Ids :
    LET o == map_of_accounts[i]
    IN  o # None => (acct_writer[o] = None => log_balance[i] = balance[o])

(***************************************************************************)
(* No account is overdrawn, whatever deposits, withdrawals, transfers and  *)
(* fees run at the same time: withdrawl compares before it subtracts       *)
(* (account.cpp:33-36), and a fee never exceeds the balance.  Input files  *)
(* may hold negative amounts; then nothing is promised.                    *)
(***************************************************************************)
NonNegative ==
  Amounts \subseteq Nat =>
    bank_balance >= 0 /\ \A o \in Objects : balance[o] >= 0

(***************************************************************************)
(* free_accounts deletes what the two maps hold (bank.cpp:77-91).  No      *)
(* account is in them twice, so none is deleted twice, and an account that *)
(* is in neither has been closed.                                          *)
(***************************************************************************)
FreedOnce ==
  LET open == {i \in Ids : map_of_accounts[i] # None}
      closed == {i \in Ids : map_of_deleted_accounts[i] # None}
  IN  /\ \A i, j \in open :
           map_of_accounts[i] = map_of_accounts[j] => i = j
      /\ \A i, j \in closed :
           map_of_deleted_accounts[i] = map_of_deleted_accounts[j] => i = j
      /\ \A i \in open, j \in closed :
           map_of_accounts[i] # map_of_deleted_accounts[j]
      /\ \A o \in 1..heap_size :
           deleted[o] \/ \E i \in open : map_of_accounts[i] = o

\* What the balances of the accounts in S add up to.
Total(S) ==
  LET upTo[o \in 0..MaxObjects] ==
        IF o = 0 THEN 0
        ELSE upTo[o - 1] + (IF o \in S THEN balance[o] ELSE 0)
  IN  upTo[MaxObjects]

(***************************************************************************)
(* A status print adds up: its lines and the bank's own balance are all    *)
(* from one instant, though fees and transfers move money between them     *)
(* (bank.cpp:28-44).                                                       *)
(***************************************************************************)
Worth == bank_balance + Total({o \in Objects :
                                 \E i \in Ids : map_of_accounts[i] = o})
SnapshotConsistent == pc[Printer] = "w_unlock_list" => printed = Worth

(***************************************************************************)
(* A thread that is between two commands or rounds holds no lock: every    *)
(* path through a command, the refusals included, gives back what it took. *)
(***************************************************************************)
NothingKept ==
  \A t \in Threads :
    pc[t] \in FreeSteps =>
      /\ t \notin list_readers
      /\ t \notin {list_writer, transfer_lock}
      /\ \A o \in Objects : t \notin acct_readers[o] /\ t # acct_writer[o]

(***************************************************************************)
(* A thread that comes to an unlock holds what it unlocks, on the paths of *)
(* refused commands too, and of an account that it has just closed.  This  *)
(* is what RWLockSpec asks of its callers and the mutexes do not check:    *)
(* one unlock_from_read too many leaves num_of_readers at 2^32 - 1         *)
(* (account.cpp:59-68), and an unlock_from_write of somebody else's lock   *)
(* lets a third thread in.                                                 *)
(***************************************************************************)
UnlocksItsOwn ==
  \A t \in Threads :
    /\ pc[t] \in {"unlock_list", "next"} => t \in list_readers
    /\ pc[t] = "w_unlock_list" => list_writer = t
    /\ pc[t] = "unlock_transfer" => transfer_lock = t
    /\ pc[t] = "unlock_src" => IF Op(t) = "B" THEN t \in acct_readers[obj[t]]
                                             ELSE acct_writer[obj[t]] = t
    /\ pc[t] = "unlock_dst" => acct_writer[dst[t]] = t
    /\ pc[t] \in {"w_unlock_account", "fee_unlock"} => acct_writer[obj[t]] = t

(***************************************************************************)
(* While a balance check or a status line has an account locked for        *)
(* reading, its balance does not change (atm.cpp:291-299); and once an     *)
(* account is closed, it stays closed and its balance is final: no command *)
(* or fee that was under way when it was closed reaches it any more.       *)
(***************************************************************************)
BalancesSettled ==
  [][\A o \in Objects :
       /\ balance'[o] # balance[o] => acct_readers[o] = {}
       /\ deleted[o] => deleted'[o] /\ balance'[o] = balance[o]]_vars

(***************************************************************************)
(* The commands are atomic: the bank implements AtomicBank.  A refusal     *)
(* takes effect at the test that fails, a balance check at its log line, a *)
(* transfer when the destination is credited, so what it has taken from    *)
(* the source still counts there until then, and a fee when the account is *)
(* charged.                                                                *)
(***************************************************************************)
Debited(o) == {t \in Atms : pc[t] \in {"load_dst", "credit"} /\ obj[t] = o}

BalanceOf(o) ==
  IF Debited(o) = {} THEN balance[o]
  ELSE balance[o] + cmd[CHOOSE t \in Debited(o) : TRUE].amt

account ==
  [i \in Ids |->
     LET o == map_of_accounts[i]
     IN  IF o = None THEN None
         ELSE [password |-> password[o], balance |-> BalanceOf(o)]]

vault ==
  IF pc[FeeCollector] = "deduct" THEN bank_balance - tmp[FeeCollector]
                                 ELSE bank_balance

Undecided(t) ==
  \/ pc[t] \in {"gate?", "gate", "list_read", "transfer_lock", "find",
                "lock_src", "lock_dst", "load", "store", "load_dst", "credit",
                "raise_flag", "list_write", "create", "w_find", "w_lock",
                "w_close"}
  \/ pc[t] = "log" /\ Op(t) = "B"

pending == [t \in Atms |-> IF Undecided(t) THEN cmd[t] ELSE None]

Atomic == INSTANCE AtomicBank
ImplementsAtomicBank == Atomic!Spec

(***************************************************************************)
(* The program ends: every command of every input file is carried out or   *)
(* refused, no two threads wait for each other for ever, and the service   *)
(* threads notice that progress is over (bank.cpp:210-231).                *)
(***************************************************************************)
Termination == <>(main = "done")

-----------------------------------------------------------------------------
(* Two claims of the comments that do not hold. *)

(***************************************************************************)
(* "transfter from src_account to dest_account if possible (src_amount     *)
(* .balance >= "amount")" (atm.h:62): a transfer that has found both       *)
(* accounts, with the right password and enough money, is carried out.     *)
(***************************************************************************)
TransferIfPossible ==
  \A t \in Atms : pc[t] = "lock_dst" /\ Accepted(t) ~> pc[t] = "credit"

(***************************************************************************)
(* "if a writer wants to write in map_of_acounts -> go to sleep"           *)
(* (atm.cpp:82, 138, 273, 328): no thread goes on to read the list past    *)
(* this test while a writer is waiting for it.                             *)
(***************************************************************************)
WritersFirst ==
  [][\A t \in Atms :
       pc[t] \in {"gate?", "gate"} /\ pc'[t] = "list_read"
         => \A w \in Threads : pc[w] # "list_write"]_vars

=============================================================================
