---------------------------- MODULE MCPayoutSaga ----------------------------
(***************************************************************************)
(* PayoutSaga for TLC: a bank (1), a wallet (2), the suspense account (3), *)
(* a merchant (4) and the fees (5).                                        *)
(***************************************************************************)
EXTENDS PayoutSaga, TLC

CONSTANTS s1, s2, o1, o2, MaxTx

PayoutAccount == 1..5
PayoutNormalBalance == <<"DEBIT", "CREDIT", "CREDIT", "CREDIT", "CREDIT">>
PayoutAllowNegative == <<TRUE, FALSE, FALSE, FALSE, FALSE>>
PayoutCurrencyOf == <<"INR", "INR", "INR", "INR", "INR">>
PayoutParentOf == <<None, None, None, None, None>>
PayoutTxId == 1..MaxTx
PayoutKey == StepKeys \cup {<<"deposit", "KEY">>}

\* The wallet can afford one payout of 2 and not a second one.
PayoutAmount == [s \in Saga |-> 2]
PayoutFee == [s \in Saga |-> IF s = s1 THEN 1 ELSE 0]
PayoutDeposit ==
  {[legs |-> [debit |-> [Nothing EXCEPT ![1] = 3], credit |-> [Nothing EXCEPT ![2] = 3],
              currency |-> "INR"],
    key |-> <<"deposit", "KEY">>]}

Symmetry == Permutations(Orchestrator)
=============================================================================
