---------------------------- MODULE EventPipeline ----------------------------
(***************************************************************************)
(* From a committed transaction to the balance the read side shows: the    *)
(* outbox, the polling publishers that carry its rows to Kafka, the topics,*)
(* and the projector's consumers, which apply events to                    *)
(* balance_projections and commit their offsets.  Publishers and consumers *)
(* may be several, and any of them may fail or die between two statements. *)
(*                                                                         *)
(* The write side is AtomicLedger, so that the events are the ones the     *)
(* posting engine really appends.  Kafka and its client are modelled from  *)
(* how the code uses them.                                                 *)
(***************************************************************************)
EXTENDS AtomicLedger, Sequences

CONSTANTS Publisher,    \* replicas of the polling publisher
          Consumer,     \* projector processes of one group
          Partition,    \* partitions of ledger.events.transaction
          PartitionOf,  \* where a transaction id hashes to: TxId -> Partition
          Foreign,      \* ids of events of a type the projector does not know
          Batch,        \* Config.BatchSize
          MaxFaults,    \* failed publishes, crashes and rebalances
          MaxTransient  \* database errors while an event is applied

ASSUME PipelineAssumption == /\ TxId \subseteq Nat
                             /\ PartitionOf \in [TxId -> Partition]
                             /\ MaxTransient \in Nat

VARIABLES published,    \* outbox rows whose published_at is set
          claimed,      \* the rows each publisher holds locked
          unsent,       \* those of them that Kafka has not acknowledged
          log,          \* ledger.events.transaction, by partition
          accountTopic, \* ledger.events.account: what is in it, nobody here reads it
          dlq,          \* ledger.events.dlq
          owner,        \* the consumer a partition is assigned to
          position,     \* the offset its owner will fetch next
          committed,    \* the group's committed offsets
          fetched,      \* each consumer's batch: what it has handled, what is left
          processed,    \* processed_events
          projection,   \* balance_projections
          faults, transients

kafkaVars == <<log, accountTopic, dlq>>
publisherVars == <<published, claimed, unsent>>
consumerVars == <<owner, position, committed, fetched>>
readVars == <<processed, projection>>
budget == <<faults, transients>>
vars == <<available, version, status, transactions, journal, outbox,
          published, claimed, unsent, log, accountTopic, dlq, owner, position,
          committed, fetched, processed, projection, faults, transients>>

Nowhere == [q \in Partition |-> [from |-> 0, next |-> 0, end |-> 0]]
NoRow == [available |-> 0, version |-> 0]

Init == /\ AtomicInit
        /\ published = {}
        /\ claimed = [p \in Publisher |-> {}]
        /\ unsent = [p \in Publisher |-> {}]
        /\ log = [q \in Partition |-> <<>>]
        /\ accountTopic = {}
        /\ dlq = {}
        /\ \E c \in Consumer : owner = [q \in Partition |-> c]
        /\ position = [q \in Partition |-> 0]
        /\ committed = [q \in Partition |-> 0]
        /\ fetched = [c \in Consumer |-> Nowhere]
        /\ processed = {}
        /\ projection = [a \in Account |-> NoRow]
        /\ faults = 0
        /\ transients = 0

Fault == faults < MaxFaults /\ faults' = faults + 1 /\ UNCHANGED transients

-----------------------------------------------------------------------------
(* The write side                                                          *)

\* Transactions are numbered in the order in which they commit.
NextTx(x) == /\ transactions[x].status = "NONE"
             /\ \A y \in TxId : y < x => transactions[y].status # "NONE"

Commit(x) == /\ NextTx(x)
             /\ \/ \E r \in Request : Post(x, r)
                \/ \E o \in TxId : Reverse(x, o, None)
             /\ UNCHANGED <<publisherVars, kafkaVars, consumerVars, readVars, budget>>

\* A newer version of the service publishes an event of its own.
ForeignEvent(i, q) ==
  LET e == [type |-> "Unknown", id |-> i] IN
  /\ \A p \in Partition : \A n \in 1..Len(log[p]) : log[p][n] # e
  /\ log' = [log EXCEPT ![q] = Append(@, e)]
  /\ UNCHANGED <<dbVars, publisherVars, accountTopic, dlq, consumerVars, readVars, budget>>

-----------------------------------------------------------------------------
(* publishBatch                                                            *)

\* AggregateTransaction, as opposed to AggregateAccount.
OfTransaction(e) == e.type \in {"TransactionPosted", "TransactionReversed"}
KeyAccount(e) == CHOOSE a \in DOMAIN e.balances : TRUE

\* The order of outbox.id: transactions as they commit, and in each of them
\* the transaction's event and then the balances by account.  The ids of two
\* transactions that share no account may be drawn in the other order, which no
\* reader can tell.
Before(e, f) == \/ e.tx < f.tx
                \/ /\ e.tx = f.tx
                   /\ ~OfTransaction(f)
                   /\ OfTransaction(e) \/ KeyAccount(e) < KeyAccount(f)

\* SELECT ... WHERE published_at IS NULL ORDER BY id FOR UPDATE SKIP LOCKED LIMIT.
Claim(p) ==
  LET open == outbox \ (published \cup UNION {claimed[o] : o \in Publisher}) IN
  /\ claimed[p] = {}
  /\ open # {}
  /\ \E rows \in SUBSET open :
       /\ Cardinality(rows) = Min({Batch, Cardinality(open)})
       /\ \A e \in rows, f \in open \ rows : Before(e, f)
       /\ claimed' = [claimed EXCEPT ![p] = rows]
       /\ unsent' = [unsent EXCEPT ![p] = rows]
  /\ UNCHANGED <<dbVars, published, kafkaVars, consumerVars, readVars, budget>>

\* TopicForAggregate and the record's key.
SameLog(e, f) == \/ /\ OfTransaction(e) /\ OfTransaction(f)
                    /\ PartitionOf[e.tx] = PartitionOf[f.tx]
                 \/ /\ ~OfTransaction(e) /\ ~OfTransaction(f)
                    /\ KeyAccount(e) = KeyAccount(f)

\* ProduceSync: one record arrives.  The client keeps the order of the records
\* of one partition and of nothing else.
Produce(p, e) ==
  /\ e \in unsent[p]
  /\ \A f \in unsent[p] : SameLog(e, f) /\ f # e => Before(e, f)
  /\ unsent' = [unsent EXCEPT ![p] = @ \ {e}]
  /\ IF OfTransaction(e)
     THEN /\ log' = [log EXCEPT ![PartitionOf[e.tx]] = Append(@, e)]
          /\ UNCHANGED accountTopic
     ELSE /\ accountTopic' = accountTopic \cup {e}
          /\ UNCHANGED log
  /\ UNCHANGED <<dbVars, published, claimed, dlq, consumerVars, readVars, budget>>

\* MUTANT: the rows are marked before Kafka has answered.
MarkPublishedEarly(p) ==
  /\ claimed[p] # {}
  /\ published' = published \cup claimed[p]
  /\ claimed' = [claimed EXCEPT ![p] = {}]
  /\ unsent' = [unsent EXCEPT ![p] = {}]
  /\ UNCHANGED <<dbVars, kafkaVars, consumerVars, readVars, budget>>

\* The UPDATE and its COMMIT, after every record has been acknowledged.
MarkPublished(p) ==
  /\ claimed[p] # {}
  /\ unsent[p] = {}
  /\ published' = published \cup claimed[p]
  /\ claimed' = [claimed EXCEPT ![p] = {}]
  /\ UNCHANGED <<dbVars, unsent, kafkaVars, consumerVars, readVars, budget>>

\* MUTANT: the rows were marked in a transaction of their own, before the batch.
PublishFailsMarked(p) ==
  /\ claimed[p] # {}
  /\ Fault
  /\ published' = published \cup claimed[p]
  /\ claimed' = [claimed EXCEPT ![p] = {}]
  /\ unsent' = [unsent EXCEPT ![p] = {}]
  /\ UNCHANGED <<dbVars, kafkaVars, consumerVars, readVars>>

\* FirstErr, BatchTimeout, a failed UPDATE or COMMIT, or the process dies: the
\* transaction is rolled back, and what Kafka has it keeps.
PublishFails(p) ==
  /\ claimed[p] # {}
  /\ Fault
  /\ claimed' = [claimed EXCEPT ![p] = {}]
  /\ unsent' = [unsent EXCEPT ![p] = {}]
  /\ UNCHANGED <<dbVars, published, kafkaVars, consumerVars, readVars>>

-----------------------------------------------------------------------------
(* Consumer.Run                                                            *)

Handled(c, q) == fetched[c][q].next > fetched[c][q].from
Left(c, q) == fetched[c][q].next < fetched[c][q].end
InBatch(c) == \E q \in Partition : Handled(c, q) \/ Left(c, q)

\* PollFetches: some of what is there on the consumer's partitions.  The client
\* goes on from here, whether or not the batch is committed.
Poll(c) ==
  /\ ~InBatch(c)
  /\ \E to \in [Partition -> UNION {position[q]..Len(log[q]) : q \in Partition}] :
       /\ \A q \in Partition : /\ to[q] \in position[q]..Len(log[q])
                               /\ owner[q] # c => to[q] = position[q]
       /\ \E q \in Partition : to[q] > position[q]
       /\ position' = to
       /\ fetched' = [fetched EXCEPT ![c] =
            [q \in Partition |-> [from |-> position[q], next |-> position[q],
                                  end |-> to[q]]]]
  /\ UNCHANGED <<dbVars, publisherVars, kafkaVars, owner, committed, readVars, budget>>

\* MUTANT: ON CONFLICT DO NOTHING.
UpsertNever(row, new) == IF row.version = 0 THEN new ELSE row

\* applyBalance: the upsert with its compare-and-set on version.
Upsert(row, new) == IF row.version < new.version THEN new ELSE row

\* MUTANT: the first balance of the event and not the others.
ApplyEventFirst(e) ==
  IF e \in processed THEN UNCHANGED readVars
  ELSE /\ processed' = processed \cup {e}
       /\ projection' = [a \in Account |->
                           IF a = Min(DOMAIN e.balances)
                           THEN Upsert(projection[a], e.balances[a]) ELSE projection[a]]

\* MUTANT: the balances are committed before the event is recorded.
ApplyEventTwice(e) ==
  IF e \in processed THEN UNCHANGED readVars
  ELSE LET new == [a \in Account |->
                     IF a \in DOMAIN e.balances
                     THEN Upsert(projection[a], e.balances[a]) ELSE projection[a]]
       IN /\ projection' = new
          /\ processed' = IF new = projection THEN processed \cup {e} ELSE processed

\* Applier.Apply, one database transaction: nothing for an event that
\* processed_events has.
ApplyEvent(e) ==
  IF e \in processed THEN UNCHANGED readVars
  ELSE /\ processed' = processed \cup {e}
       /\ projection' = [a \in Account |->
                           IF a \in DOMAIN e.balances
                           THEN Upsert(projection[a], e.balances[a]) ELSE projection[a]]

\* handle: an event is applied, or is a duplicate, or goes to the dead letters.
Handle(c, q) ==
  /\ Left(c, q)
  /\ LET e == log[q][fetched[c][q].next + 1] IN
       \/ OfTransaction(e) /\ ApplyEvent(e) /\ UNCHANGED dlq
       \/ ~OfTransaction(e) /\ dlq' = dlq \cup {e} /\ UNCHANGED readVars
  /\ fetched' = [fetched EXCEPT ![c][q].next = @ + 1]
  /\ UNCHANGED <<dbVars, publisherVars, log, accountTopic, owner, position, committed, budget>>

\* processBatch breaks off at a transient error and drops the rest.
Break(c) ==
  /\ \E q \in Partition : Left(c, q)
  /\ transients < MaxTransient
  /\ transients' = transients + 1
  /\ fetched' = [fetched EXCEPT ![c] =
                   [q \in Partition |-> [fetched[c][q] EXCEPT !.end = fetched[c][q].next]]]
  /\ UNCHANGED <<dbVars, publisherVars, kafkaVars, owner, position, committed, readVars, faults>>

\* MUTANT: autocommit, which commits what was fetched.
CommitRecordsFetched(c) ==
  /\ InBatch(c)
  /\ committed' = [q \in Partition |-> IF fetched[c][q].end > fetched[c][q].from
                                       THEN fetched[c][q].end ELSE committed[q]]
  /\ UNCHANGED <<dbVars, publisherVars, kafkaVars, owner, position, fetched, readVars, budget>>

\* CommitRecords, the offset after the last handled record of each partition.
\* The broker takes it from any member of the group, or it fails and is logged.
CommitRecords(c) ==
  /\ InBatch(c)
  /\ \A q \in Partition : ~Left(c, q)
  /\ \E ok \in SUBSET {q \in Partition : Handled(c, q)} :
       committed' = [q \in Partition |-> IF q \in ok THEN fetched[c][q].next
                                         ELSE committed[q]]
  /\ fetched' = [fetched EXCEPT ![c] = Nowhere]
  /\ UNCHANGED <<dbVars, publisherVars, kafkaVars, owner, position, readVars, budget>>

\* The process dies, and starts again from the committed offsets.
Crash(c) ==
  /\ Fault
  /\ fetched' = [fetched EXCEPT ![c] = Nowhere]
  /\ position' = [q \in Partition |-> IF owner[q] = c THEN committed[q] ELSE position[q]]
  /\ UNCHANGED <<dbVars, publisherVars, kafkaVars, owner, committed, readVars>>

\* The group gives the partition to another member, which starts at the
\* committed offset; the old one may be in the middle of a batch.
Rebalance(q, c) ==
  /\ owner[q] # c
  /\ Fault
  /\ owner' = [owner EXCEPT ![q] = c]
  /\ position' = [position EXCEPT ![q] = committed[q]]
  /\ UNCHANGED <<dbVars, publisherVars, kafkaVars, committed, fetched, readVars>>

-----------------------------------------------------------------------------
Publish(p) == Claim(p) \/ MarkPublished(p) \/ \E e \in unsent[p] : Produce(p, e)

Consume(c) == Poll(c) \/ CommitRecords(c) \/ \E q \in Partition : Handle(c, q)

Next == \/ \E x \in TxId : Commit(x)
        \/ \E i \in Foreign, q \in Partition : ForeignEvent(i, q)
        \/ \E p \in Publisher : Publish(p) \/ PublishFails(p)
        \/ \E c \in Consumer : \/ Consume(c) \/ Break(c) \/ Crash(c)
                               \/ \E q \in Partition : Rebalance(q, c)

Spec == Init /\ [][Next]_vars

\* The publisher's ticker and the consumer's loop go on.
Fairness == /\ \A p \in Publisher : WF_vars(Publish(p))
            /\ \A c \in Consumer : WF_vars(Consume(c))

FairSpec == Spec /\ Fairness
-----------------------------------------------------------------------------
(* Properties                                                              *)

\* What a topic may carry: rows of the outbox and events the projector does not know.
Unrecognised == {[type |-> "Unknown", id |-> i] : i \in Foreign}
Carried == outbox \cup Unrecognised

BatchState == [from : Nat, next : Nat, end : Nat]

\* What a consumer has handled of its batch is in the batch, and that in the log.
BatchOK(c, q) == /\ fetched[c][q].from <= fetched[c][q].next
                 /\ fetched[c][q].next <= fetched[c][q].end
                 /\ fetched[c][q].end <= Len(log[q])

\* The tables, the topics and the loops' locals have their types.
TypeOK ==
  /\ DbTypeOK
  /\ published \subseteq outbox
  /\ claimed \in [Publisher -> SUBSET outbox]
  /\ unsent \in [Publisher -> SUBSET outbox]
  /\ log \in [Partition -> Seq(Carried)]
  /\ accountTopic \subseteq outbox
  /\ dlq \subseteq Carried
  /\ owner \in [Partition -> Consumer]
  /\ position \in [Partition -> Nat]
  /\ committed \in [Partition -> Nat]
  /\ fetched \in [Consumer -> [Partition -> BatchState]]
  /\ processed \subseteq {e \in outbox : OfTransaction(e)}
  /\ projection \in [Account -> BalanceRow]
  /\ faults \in Nat
  /\ transients \in Nat
  /\ \A q \in Partition : position[q] <= Len(log[q]) /\ committed[q] <= Len(log[q])
  /\ \A c \in Consumer, q \in Partition : BatchOK(c, q)

InLog(e) == IF OfTransaction(e)
            THEN \E n \in 1..Len(log[PartitionOf[e.tx]]) : log[PartitionOf[e.tx]][n] = e
            ELSE e \in accountTopic

\* "published_at must not be written until Kafka has genuinely accepted the
\* batch": a row is marked only when its record is in its topic, and no row is
\* in the hands of two publishers.
PublishedMeansProduced ==
  /\ \A e \in published : InLog(e)
  /\ \A p, o \in Publisher : p # o => claimed[p] \cap claimed[o] = {}
  /\ \A p \in Publisher : claimed[p] \cap published = {}

\* What handle calls DONE.
Done(e) == e \in processed \/ e \in dlq

\* "An offset must never be committed ahead of the local database transaction
\* that recorded having handled it": no committed offset is past an event that
\* was neither applied nor dead-lettered.
CommittedMeansHandled ==
  \A q \in Partition : \A n \in 1..committed[q] : Done(log[q][n])

\* Redelivered, reordered or applied by two consumers at once, an account shows
\* the newest of the balances that were applied, and only balances it has had.
ProjectionIsNewest ==
  \A a \in Account :
    /\ \A e \in processed : a \in DOMAIN e.balances =>
         e.balances[a].version <= projection[a].version
    /\ \/ projection[a] = NoRow
       \/ \E e \in processed : a \in DOMAIN e.balances /\ projection[a] = e.balances[a]

\* Rebuild: the accounts whose projection is not the sum of their entries.
Mismatches == {a \in Account : projection[a].available #
                 MapThenSumSet(LAMBDA x : Delta(journal[x], a), TxId)}

\* Rebuild finds nothing once every transaction has been applied: what it
\* reports is lag or loss, and never an artefact of the order of delivery.
CaughtUpMeansEqual ==
  (\A e \in outbox : OfTransaction(e) => e \in processed) => Mismatches = {}

\* A balance that has been shown is never replaced by an older one.
ProjectionNeverGoesBack ==
  [][\A a \in Account : projection[a].version <= projection'[a].version]_vars

\* Every transaction reaches the read side.
EveryTransactionIsShown ==
  \A x \in TxId : transactions[x].status # "NONE" ~>
    \E e \in processed : OfTransaction(e) /\ e.tx = x

\* The pipeline implements Projection.
Read == INSTANCE Projection WITH facts <- {e \in outbox : OfTransaction(e)},
                                 seen <- processed, view <- projection

\* The read side shows the newest of what it has seen of what was committed.
PipelineKeepsPromise == Read!ProjectionSpec
=============================================================================
