SPECIFICATION Spec
CONSTANTS
  None = None
  Publisher = {p1}
  Consumer = {c1}
  Partitions = 1
  MaxTx = 2
  Foreign = {}
  Batch = 6
  MaxFaults = 0
  MaxTransient = 1
  Account <- PipelineAccount
  TxId <- PipelineTxId
  Partition <- PipelinePartition
  PartitionOf <- PipelinePartitionOf
  Key = {}
  Request <- PipelineRequest
  NormalBalance <- PipelineNormalBalance
  AllowNegative <- PipelineAllowNegative
  Currency = {"INR"}
  CurrencyOf <- PipelineCurrencyOf
  ParentOf <- PipelineParentOf
  Seeded <- PipelineAccount
  MaxMinor = 9
CHECK_DEADLOCK FALSE
INVARIANTS
  CommittedMeansHandled
