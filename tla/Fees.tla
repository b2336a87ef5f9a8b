-------------------------------- MODULE Fees --------------------------------
(***************************************************************************)
(* The fee of one account, (int)round(balance * (rate / 100.0)) in         *)
(* bank.cpp:61-62: to the nearest dollar, halves away from zero.  The      *)
(* double computation gives this integer for balances below 2,000,000 and  *)
(* every rate from 1 to 5.                                                 *)
(***************************************************************************)
EXTENDS Integers

Fee(balance, rate) ==
  LET x == 2 * balance * rate
  IN  IF x >= 0 THEN (x + 100) \div 200 ELSE -((100 - x) \div 200)

=============================================================================
