------------------------------ MODULE MCLedger ------------------------------
(***************************************************************************)
(* Ledger for TLC, on two charts of accounts.                              *)
(***************************************************************************)
EXTENDS Ledger, TLC

CONSTANTS w1, w2, t1, t2, t3, k1

\* amount from one account to another: a debit of the one, a credit of the other.
Move(from, to, amount) ==
  [debit |-> [a \in Account |-> IF a = from THEN amount ELSE 0],
   credit |-> [a \in Account |-> IF a = to THEN amount ELSE 0],
   currency |-> "INR"]

(* A bank account (1, debit-normal, may go negative) and two customer      *)
(* wallets (2 and 3, credit-normal), one of them created on the way.  The  *)
(* wallets pay each other, in both directions, so that lock orders could   *)
(* cross; pay-ins are large enough for two of them to overflow, and one    *)
(* carries the idempotency key.  One request is in a currency its accounts *)
(* do not hold.                                                            *)
WalletAccount == 1..3
WalletNormalBalance == <<"DEBIT", "CREDIT", "CREDIT">>
WalletAllowNegative == <<TRUE, FALSE, FALSE>>
WalletCurrencyOf == <<"INR", "INR", "INR">>
WalletParentOf == <<None, None, None>>
WalletSeeded == {1, 2}
WalletRequest == {[legs |-> Move(1, 2, 2), key |-> k1],
                  [legs |-> Move(1, 2, 2), key |-> None],
                  [legs |-> Move(2, 3, 1), key |-> None],
                  [legs |-> Move(3, 2, 1), key |-> None],
                  [legs |-> [Move(1, 2, 1) EXCEPT !.currency = "USD"], key |-> None]}

(* A bank account (1) and a fee account (2) that is split into two shards  *)
(* (3 and 4) while requests are running.  Fees are collected and refunded  *)
(* under one key, and an operator moves money from the parent to a shard,  *)
(* which routing may turn into a transfer from a shard to itself.          *)
(* Rows, headers and the key are all waited for.                           *)
FeeAccount == 1..4
FeeNormalBalance == <<"DEBIT", "CREDIT", "CREDIT", "CREDIT">>
FeeAllowNegative == <<TRUE, FALSE, FALSE, FALSE>>
FeeCurrencyOf == <<"INR", "INR", "INR", "INR">>
FeeParentOf == <<None, None, 2, 2>>
FeeSeeded == {1, 2}
FeeRequest == {[legs |-> Move(1, 2, 1), key |-> k1],
               [legs |-> Move(2, 1, 1), key |-> k1],
               [legs |-> Move(2, 3, 1), key |-> None]}

Symmetry == Permutations(TxId) \cup Permutations(Worker)
=============================================================================
