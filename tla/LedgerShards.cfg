CONSTANTS
  w1 = w1
  w2 = w2
  t1 = t1
  t2 = t2
  t3 = t3
  k1 = k1
  None = None
  Worker = {w1, w2}
  TxId = {t1, t2}
  Key = {k1}
  Account <- FeeAccount
  Request <- FeeRequest
  NormalBalance <- FeeNormalBalance
  AllowNegative <- FeeAllowNegative
  Currency = {"INR", "USD"}
  CurrencyOf <- FeeCurrencyOf
  ParentOf <- FeeParentOf
  Seeded <- FeeSeeded
  MaxMinor = 3
  MaxAttempts = 1
SPECIFICATION FairSpec
INVARIANTS
  TriggerIsSilent
  RoutingKeepsLogicalBalance
PROPERTIES
  EveryOperationEnds
