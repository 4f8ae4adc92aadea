SPECIFICATION Spec
CONSTANTS
  s1 = s1
  s2 = s2
  o1 = o1
  o2 = o2
  None = None
  Saga = {s1}
  Orchestrator = {o1}
  Freezable = {4}
  MaxTx = 4
  MaxStepAttempts = 2
  MaxCompensationAttempts = 2
  MaxProbes = 2
  MaxFaults = 0
  MaxOutside = 0
  Timely = TRUE
  Account <- PayoutAccount
  TxId <- PayoutTxId
  Key <- PayoutKey
  Request = {}
  NormalBalance <- PayoutNormalBalance
  AllowNegative <- PayoutAllowNegative
  Currency = {"INR"}
  CurrencyOf <- PayoutCurrencyOf
  ParentOf <- PayoutParentOf
  Seeded <- PayoutAccount
  MaxMinor = 9
  Wallet = 2
  Suspense = 3
  Merchant = 4
  FeeRevenue = 5
  Amount <- PayoutAmount
  Fee <- PayoutFee
  Deposit <- PayoutDeposit
CHECK_DEADLOCK FALSE
INVARIANTS
  RefundedMeansUnpaid
