----------------------------- MODULE MCObservers -----------------------------
(***************************************************************************)
(* Observers for TLC: a bank (1) and a wallet (2) that gets two shards (3, *)
(* 4), and a bank in another currency that is created on the way (5).      *)
(***************************************************************************)
EXTENDS Observers, TLC

CONSTANTS MaxTx, MaxRun

ObservedAccount == 1..5
ObservedTxId == 1..MaxTx

\* Something may happen between two pages.
Paged == {"statement", "transactions"}
ObservedMaxTxFor == [o \in Observer |-> IF o \in Paged THEN MaxTx
                                        ELSE IF o = "accounts" THEN 0 ELSE 2]
ObservedRun == 1..MaxRun
ObservedSeeded == {1, 2}
ObservedNormalBalance == <<"DEBIT", "CREDIT", "CREDIT", "CREDIT", "DEBIT">>
ObservedAllowNegative == <<TRUE, FALSE, FALSE, FALSE, TRUE>>
ObservedCurrencyOf == <<"INR", "INR", "INR", "INR", "USD">>
ObservedParentOf == <<None, None, 2, 2, None>>

\* All transactions carry the same reference: a run has to take the newest.
ObservedRefOf == [x \in TxId |-> "A"]

Deposit == [legs |-> [debit |-> <<1, 0, 0, 0, 0>>, credit |-> <<0, 1, 0, 0, 0>>,
                      currency |-> "INR"], key |-> None]
ObservedRequest == {Deposit}

Row(ref, amount, currency, said, settled) ==
  [ref |-> ref, amount |-> amount, currency |-> currency, status |-> said,
   settled |-> settled]

\* The last three are not parsed.
ObservedFile ==
  {<<Row("A", 1, "INR", "SETTLED", 1), Row("B", 1, "INR", "SETTLED", 0)>>,
   <<Row("A", 1, "INR", "REFUNDED", 2)>>,
   <<Row("A", 1, "INR", "SETTLED", 0), Row("A", 2, "INR", "SETTLED", 1)>>,
   <<Row("B", 1, "INR", "PENDING", 0), Row("A", 1, "USD", "SETTLED", 1)>>,
   <<Row("B", 1, "INR", "SETTLED", 0)>>,
   <<>>,
   <<Row("A", 0, "INR", "SETTLED", 0)>>,
   <<Row("A", 1, "INR", "LOST", 0)>>}

Transactions(from, to, stands, account) ==
  [of |-> "transactions", from |-> from, to |-> to, status |-> stands, account |-> account]

ObservedQuery ==
  {Transactions(0, 0, None, 2), Transactions(0, 2, "POSTED", None),
   Transactions(0, 2, "REVERSED", None),
   [of |-> "accounts", currency |-> None], [of |-> "accounts", currency |-> "USD"]}
=============================================================================
