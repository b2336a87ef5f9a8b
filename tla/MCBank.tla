------------------------------- MODULE MCBank -------------------------------
(***************************************************************************)
(* Bank for TLC: two ATMs and the input files they may be given.           *)
(***************************************************************************)
EXTENDS Bank, TLC

CONSTANTS a1, a2

\* Lines: a token that the command does not read is missing from them.
Letter(op) == [op |-> op, id |-> Missing, pw |-> Missing, dst |-> Missing,
               amt |-> Missing]
On(op, i, pw) == [Letter(op) EXCEPT !.id = i, !.pw = pw]

Balance(i, pw)          == On("B", i, pw)
Close(i, pw)            == On("Q", i, pw)
Open(i, pw, amt)        == [On("O", i, pw) EXCEPT !.amt = amt]
Deposit(i, pw, amt)     == [On("D", i, pw) EXCEPT !.amt = amt]
Withdraw(i, pw, amt)    == [On("W", i, pw) EXCEPT !.amt = amt]
Transfer(i, pw, j, amt) == [On("T", i, pw) EXCEPT !.dst = j, !.amt = amt]

\* The locals before the first line: never used by a file whose first line
\* is complete.
AnyCommand == {[op |-> "?", id |-> 1, pw |-> "p", dst |-> 1, amt |-> 4]}

-----------------------------------------------------------------------------
(* Opposite transfers between two accounts, or two withdrawals that the    *)
(* balance covers only once; at 5%, ten dollars cost a fee and four or six *)
(* do not.                                                                 *)
TransferFiles ==
  (a1 :> {<<Open(1, "p", 10), Transfer(1, "p", 2, 6)>>}
   @@ a2 :> {<<Open(2, "p", 4), Transfer(2, "p", 1, 4)>>,
             <<Withdraw(1, "p", 6), Withdraw(1, "p", 6)>>})

(* Accounts are opened, closed and opened again under the commands of the  *)
(* other ATM; a line of blanks repeats the command before it.              *)
LifecycleFiles ==
  (a1 :> {<<Open(1, "p", 10), Close(1, "p"), Open(1, "q", 6), Close(1, "q")>>}
   @@ a2 :> {<<Deposit(1, "p", 4), Letter(Missing)>>,
             <<Balance(1, "p"), Letter("?"), Transfer(1, "p", 2, 4)>>,
             <<Open(1, "p", 6), Close(1, "q")>>})

(* Opposite transfers between two open accounts, and a writer of the list  *)
(* waiting meanwhile.                                                      *)
CrossingFiles ==
  (a1 :> {<<Open(1, "p", 4), Transfer(1, "p", 2, 4)>>}
   @@ a2 :> {<<Open(2, "p", 4), Transfer(2, "p", 1, 4)>>})

(* A transfer from an account to itself. *)
SelfTransferFiles ==
  (a1 :> {<<Open(1, "p", 10), Transfer(1, "p", 1, 6)>>} @@ a2 :> {<<>>})

=============================================================================
