----------------------------- MODULE AtomicBank -----------------------------
(***************************************************************************)
(* What the bank of HW4 promises those who write the input files: every    *)
(* command takes effect at one instant between its first and its last      *)
(* step, or is refused because at one such instant the bank's state does   *)
(* not allow it.  Bank shows that the threads of the program implement     *)
(* this.                                                                   *)
(***************************************************************************)
EXTENDS Fees

CONSTANTS Atms,      \* who gives commands, each one at a time
          Ids, Passwords, Amounts, FeeRates,
          None       \* no account, no command

VARIABLES account, \* the open account of each id, or None
          vault,   \* what the bank has collected in fees
          pending  \* the command each ATM waits for, or None

vars == <<account, vault, pending>>

Account == [password : Passwords, balance : Int]

\* Open, deposit, withdraw, balance, close, transfer.
Request == [op : {"O", "D", "W", "B", "Q", "T"}, id : Ids, pw : Passwords,
            dst : Ids, amt : Amounts]

TypeOK ==
  /\ account \in [Ids -> Account \cup {None}]
  /\ vault \in Int
  /\ pending \in [Atms -> Request \cup {None}]

Init ==
  /\ account = [i \in Ids |-> None]
  /\ vault = 0
  /\ pending = [t \in Atms |-> None]

IsOpen(i) == account[i] # None

\* The owner of i names its password.
Owns(i, pw) == IsOpen(i) /\ account[i].password = pw

Covers(i, amt) == account[i].balance >= amt

Acceptable(c) ==
  CASE c.op = "O" -> ~IsOpen(c.id)
    [] c.op = "W" -> Owns(c.id, c.pw) /\ Covers(c.id, c.amt)
    [] c.op = "T" -> Owns(c.id, c.pw) /\ IsOpen(c.dst) /\ Covers(c.id, c.amt)
    [] OTHER      -> Owns(c.id, c.pw)

\* The accounts once c has been carried out.
After(c) ==
  CASE c.op = "O" -> [account EXCEPT ![c.id] =
                        [password |-> c.pw, balance |-> c.amt]]
    [] c.op = "D" -> [account EXCEPT ![c.id].balance = @ + c.amt]
    [] c.op = "W" -> [account EXCEPT ![c.id].balance = @ - c.amt]
    [] c.op = "T" -> [account EXCEPT ![c.id].balance = @ - c.amt,
                                     ![c.dst].balance = @ + c.amt]
    [] c.op = "Q" -> [account EXCEPT ![c.id] = None]
    [] OTHER      -> account

\* Any request may come, whatever it is.
Call(t) ==
  /\ pending[t] = None
  /\ pending'[t] \in Request
  /\ pending' = [pending EXCEPT ![t] = pending'[t]]
  /\ UNCHANGED <<account, vault>>

CarryOut(t) ==
  /\ pending[t] # None
  /\ Acceptable(pending[t])
  /\ account' = After(pending[t])
  /\ pending' = [pending EXCEPT ![t] = None]
  /\ UNCHANGED vault

Refuse(t) ==
  /\ pending[t] # None
  /\ ~Acceptable(pending[t])
  /\ pending' = [pending EXCEPT ![t] = None]
  /\ UNCHANGED <<account, vault>>

Charge(i, rate) ==
  /\ IsOpen(i)
  /\ LET fee == Fee(account[i].balance, rate)
     IN  /\ account' = [account EXCEPT ![i].balance = @ - fee]
         /\ vault' = vault + fee
  /\ UNCHANGED pending

Next ==
  \/ \E t \in Atms : Call(t) \/ CarryOut(t) \/ Refuse(t)
  \/ \E i \in Ids, rate \in FeeRates : Charge(i, rate)

Spec == Init /\ [][Next]_vars

=============================================================================
