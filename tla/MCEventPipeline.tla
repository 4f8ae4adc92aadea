--------------------------- MODULE MCEventPipeline ---------------------------
(***************************************************************************)
(* EventPipeline for TLC: a bank (1) and a wallet (2).                     *)
(***************************************************************************)
EXTENDS EventPipeline, TLC

CONSTANTS MaxTx, Partitions

PipelineAccount == 1..2
PipelineTxId == 1..MaxTx
PipelinePartition == 1..Partitions
PipelineNormalBalance == <<"DEBIT", "CREDIT">>
PipelineAllowNegative == <<TRUE, FALSE>>
PipelineCurrencyOf == <<"INR", "INR">>
PipelineParentOf == <<None, None>>
PipelinePartitionOf == [x \in TxId |-> 1 + (x % Partitions)]

Deposit == [legs |-> [debit |-> <<1, 0>>, credit |-> <<0, 1>>, currency |-> "INR"],
            key |-> None]
PipelineRequest == {Deposit}

Symmetry == Permutations(Publisher) \cup Permutations(Consumer)
=============================================================================
