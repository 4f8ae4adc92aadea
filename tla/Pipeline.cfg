SPECIFICATION Spec
CONSTANTS
  None = None
  Publisher = {p1, p2}
  Consumer = {c1, c2}
  Partitions = 2
  MaxTx = 2
  Foreign = {}
  Batch = 3
  MaxFaults = 1
  MaxTransient = 1
  Account <- PipelineAccount
  TxId <- PipelineTxId
  Partition <- PipelinePartition
  PartitionOf <- PipelinePartitionOf
  Key = {}
  Request <- PipelineRequest
  NormalBalance <- PipelineNormalBalance
  AllowNegative <- PipelineAllowNegative
  Currency = {"INR"}
  CurrencyOf <- PipelineCurrencyOf
  ParentOf <- PipelineParentOf
  Seeded <- PipelineAccount
  MaxMinor = 9
CHECK_DEADLOCK FALSE
SYMMETRY Symmetry
INVARIANTS
  PublishedMeansProduced
  ProjectionIsNewest
  CaughtUpMeansEqual
PROPERTIES
  PipelineKeepsPromise
