CONSTANTS
  s1 = s1
  s2 = s2
  o1 = o1
  o2 = o2
  None = None
  Saga = {s1}
  Orchestrator = {o1, o2}
  Freezable = {4}
  MaxTx = 5
  MaxStepAttempts = 2
  MaxCompensationAttempts = 2
  MaxProbes = 2
  MaxFaults = 1
  MaxOutside = 1
  Timely = FALSE
  Account <- PayoutAccount
  TxId <- PayoutTxId
  Key <- PayoutKey
  Request = {}
  NormalBalance <- PayoutNormalBalance
  AllowNegative <- PayoutAllowNegative
  Currency = {"INR"}
  CurrencyOf <- PayoutCurrencyOf
  ParentOf <- PayoutParentOf
  Seeded <- PayoutAccount
  MaxMinor = 9
  Wallet = 2
  Suspense = 3
  Merchant = 4
  FeeRevenue = 5
  Amount <- PayoutAmount
  Fee <- PayoutFee
  Deposit <- PayoutDeposit
CHECK_DEADLOCK FALSE
SPECIFICATION Spec
SYMMETRY Symmetry
INVARIANTS
  StatusTellsMoney
  SettledMeansPaid
  IntentBeforePayment
  EventsTellOutcome
PROPERTIES
  SagaKeepsPromise
