SPECIFICATION FairSpec
CONSTANTS
  None = None
  Publisher = {p1}
  Consumer = {c1, c2}
  Partitions = 1
  MaxTx = 2
  Foreign = {f1}
  Batch = 3
  MaxFaults = 1
  MaxTransient = 0
  Account <- PipelineAccount
  TxId <- PipelineTxId
  Partition <- PipelinePartition
  PartitionOf <- PipelinePartitionOf
  Key = {}
  Request <- PipelineRequest
  NormalBalance <- PipelineNormalBalance
  AllowNegative <- PipelineAllowNegative
  Currency = {"INR"}
  CurrencyOf <- PipelineCurrencyOf
  ParentOf <- PipelineParentOf
  Seeded <- PipelineAccount
  MaxMinor = 9
CHECK_DEADLOCK FALSE
INVARIANTS
  CommittedMeansHandled
PROPERTIES
  EveryTransactionIsShown
