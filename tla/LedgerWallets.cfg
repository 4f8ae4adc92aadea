CONSTANTS
  w1 = w1
  w2 = w2
  t1 = t1
  t2 = t2
  t3 = t3
  k1 = k1
  None = None
  Worker = {w1, w2}
  TxId = {t1, t2, t3}
  Key = {k1}
  Account <- WalletAccount
  Request <- WalletRequest
  NormalBalance <- WalletNormalBalance
  AllowNegative <- WalletAllowNegative
  Currency = {"INR", "USD"}
  CurrencyOf <- WalletCurrencyOf
  ParentOf <- WalletParentOf
  Seeded <- WalletSeeded
  MaxMinor = 3
  MaxAttempts = 2
SPECIFICATION Spec
SYMMETRY Symmetry
INVARIANTS
  NoOverdraft
  LockedRowsAreCurrent
  BalanceMatchesJournal
  EventsTellHistory
  NoDeadlock
PROPERTIES
  AtomicSpec
