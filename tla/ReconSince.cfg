CONSTANTS
  None = None
  MaxTx = 3
  MaxTxFor <- ObservedMaxTxFor
  MaxCommits = 3
  MaxRun = 2
  Account <- ObservedAccount
  TxId <- ObservedTxId
  Key = {}
  Request <- ObservedRequest
  NormalBalance <- ObservedNormalBalance
  AllowNegative <- ObservedAllowNegative
  Currency = {"INR", "USD"}
  CurrencyOf <- ObservedCurrencyOf
  ParentOf <- ObservedParentOf
  Seeded <- ObservedSeeded
  MaxMinor = 3
  Instant = {0, 2}
  DefaultLimit = 1
  MaxLimit = 2
  Asked = {2}
  Query <- ObservedQuery
  Tampered = {2, 5}
  MaxTampering = 2
  MaxCheckErrors = 1
  Ref = {"A", "B"}
  RefOf <- ObservedRefOf
  File <- ObservedFile
  Run <- ObservedRun
  TimingWindow = 1
  Lookback = 1
  MaxRunFaults = 1
CHECK_DEADLOCK FALSE
SPECIFICATION Spec
INVARIANT EveryRowIsMatched
