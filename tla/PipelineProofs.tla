--------------------------- MODULE PipelineProofs ---------------------------
(***************************************************************************)
(* Proofs about EventPipeline, for any number of publishers, consumers,    *)
(* partitions and transactions and any number of faults.                   *)
(***************************************************************************)
EXTENDS EventPipeline, AtomicLedgerProofs, SequenceTheorems, TLAPS

-----------------------------------------------------------------------------
(* The write side and the log only grow                                    *)

\* A step of the pipeline is, on the tables of the ledger, a step of
\* AtomicLedger or none, and no event ever leaves the outbox.
LEMMA LedgerStep ==
  ASSUME [Next]_vars
  PROVE  /\ [AtomicNext]_dbVars
         /\ outbox \subseteq outbox'
         /\ \/ UNCHANGED dbVars
            \/ \E x \in TxId : Commit(x)
<1>1. CASE \E x \in TxId : Commit(x)
  <2>1. PICK x \in TxId : Commit(x)
    BY <1>1
  <2>2. AtomicNext
    BY <2>1 DEF Commit, AtomicNext
  <2>3. ASSUME NEW l, NEW k, NEW o, Apply(x, l, k, o)
        PROVE  outbox \subseteq outbox'
    BY <2>3 DEF Apply
  <2>. QED BY <1>1, <2>1, <2>2, <2>3 DEF Commit, Post, Reverse
<1>2. CASE ~ \E x \in TxId : Commit(x)
  <2>1. UNCHANGED dbVars
    BY <1>2 DEF Next, vars, dbVars, ForeignEvent, Publish, Claim, Produce, MarkPublished,
       PublishFails, Consume, Poll, Handle, CommitRecords, Break, Crash, Rebalance
  <2>. QED BY <2>1 DEF dbVars
<1>. QED BY <1>1, <1>2

\* Every record of a partition stays where it is.
LogGrows == \A q \in Partition :
  /\ Len(log[q]) <= Len(log'[q])
  /\ \A n \in 1..Len(log[q]) : log'[q][n] = log[q][n]

\* What appending a record to a partition does.
LEMMA AppendGrows ==
  ASSUME NEW S, log \in [Partition -> Seq(S)],
         NEW p \in Partition, NEW e \in S,
         log' = [log EXCEPT ![p] = Append(@, e)]
  PROVE  /\ log' \in [Partition -> Seq(S)]
         /\ LogGrows
         /\ Len(log'[p]) = Len(log[p]) + 1
         /\ log'[p][Len(log[p]) + 1] = e
<1>1. /\ log[p] \in Seq(S)
      /\ Append(log[p], e) \in Seq(S)
      /\ Len(Append(log[p], e)) = Len(log[p]) + 1
      /\ \A n \in 1..Len(log[p]) : Append(log[p], e)[n] = log[p][n]
      /\ Append(log[p], e)[Len(log[p]) + 1] = e
  OBVIOUS
<1>2. \A q \in Partition : log'[q] = IF q = p THEN Append(log[p], e) ELSE log[q]
  OBVIOUS
<1>3. \A q \in Partition : Len(log[q]) \in Nat
  BY LenProperties
<1>4. log' \in [Partition -> Seq(S)]
  BY <1>1
<1>. QED BY <1>1, <1>2, <1>3, <1>4 DEF LogGrows

\* An event of the outbox about a transaction names a partition and carries
\* balance rows.
LEMMA TransactionEventFacts ==
  ASSUME DbTypeOK, NEW e \in outbox, OfTransaction(e)
  PROVE  /\ e.tx \in TxId
         /\ PartitionOf[e.tx] \in Partition
         /\ DOMAIN e.balances \subseteq Account
         /\ e.balances \in [DOMAIN e.balances -> BalanceRow]
BY PipelineAssumption DEF DbTypeOK, OfTransaction

\* A record about a transaction is a row of the outbox.
LEMMA CarriedFacts ==
  ASSUME NEW e \in Carried, OfTransaction(e)
  PROVE  e \in outbox
BY DEF Carried, Unrecognised, OfTransaction

\* The log of a step: typed, and longer or the same.
LEMMA LogStep ==
  ASSUME TypeOK, [Next]_vars
  PROVE  /\ log' \in [Partition -> Seq(Carried')]
         /\ LogGrows
<1>1. Carried \subseteq Carried' /\ log \in [Partition -> Seq(Carried)]
  BY LedgerStep DEF Carried, Unrecognised, TypeOK
<1>2. ASSUME log' \in [Partition -> Seq(Carried)]
      PROVE  log' \in [Partition -> Seq(Carried')]
  <2>1. ASSUME NEW q \in Partition
        PROVE  log'[q] \in Seq(Carried')
    BY <1>1, <1>2, SeqMonotonic
  <2>. QED BY <1>2, <2>1
<1>3. CASE UNCHANGED log
  BY <1>2, <1>3, LenProperties DEF TypeOK, LogGrows
<1>4. CASE \E i \in Foreign, q \in Partition : ForeignEvent(i, q)
  <2>1. PICK i \in Foreign, q \in Partition : ForeignEvent(i, q)
    BY <1>4
  <2>2. [type |-> "Unknown", id |-> i] \in Carried
    BY DEF Carried, Unrecognised
  <2>3. log' = [log EXCEPT ![q] = Append(@, [type |-> "Unknown", id |-> i])]
    BY <2>1 DEF ForeignEvent
  <2>4. log' \in [Partition -> Seq(Carried)] /\ LogGrows
    BY <1>1, <2>2, <2>3, AppendGrows
  <2>. QED BY <1>2, <2>4
<1>5. CASE \E p \in Publisher, e \in outbox : e \in unsent[p] /\ Produce(p, e)
  <2>1. PICK p \in Publisher, e \in outbox : Produce(p, e)
    BY <1>5
  <2>2. CASE OfTransaction(e)
    <3>1. log' = [log EXCEPT ![PartitionOf[e.tx]] = Append(@, e)]
      BY <2>1, <2>2 DEF Produce
    <3>2. e \in Carried /\ PartitionOf[e.tx] \in Partition
      BY <2>2, TransactionEventFacts DEF TypeOK, Carried
    <3>3. log' \in [Partition -> Seq(Carried)] /\ LogGrows
      BY <1>1, <3>1, <3>2, AppendGrows
    <3>. QED BY <1>2, <3>3
  <2>3. CASE ~OfTransaction(e)
    BY <1>3, <2>1, <2>3 DEF Produce
  <2>. QED BY <2>2, <2>3
<1>. QED
  <2>1. ASSUME NEW p \in Publisher, Publish(p) \/ PublishFails(p)
        PROVE  UNCHANGED log \/ \E e \in outbox : e \in unsent[p] /\ Produce(p, e)
    BY <2>1 DEF Publish, PublishFails, Claim, MarkPublished, TypeOK, kafkaVars
  <2>2. ASSUME NEW c \in Consumer, Consume(c) \/ Break(c) \/ Crash(c)
                                   \/ \E q \in Partition : Rebalance(q, c)
        PROVE  UNCHANGED log
    BY <2>2 DEF Consume, Poll, Handle, CommitRecords, Break, Crash, Rebalance, kafkaVars
  <2>3. ASSUME NEW x \in TxId, Commit(x)
        PROVE  UNCHANGED log
    BY <2>3 DEF Commit, kafkaVars
  <2>4. vars' = vars => UNCHANGED log
    BY DEF vars
  <2>. QED BY <1>3, <1>4, <1>5, <2>1, <2>2, <2>3, <2>4 DEF Next

-----------------------------------------------------------------------------
(* Types                                                                   *)

PublisherTypes == /\ published \subseteq outbox
                  /\ claimed \in [Publisher -> SUBSET outbox]
                  /\ unsent \in [Publisher -> SUBSET outbox]
                  /\ accountTopic \subseteq outbox

\* The publishers hold and mark rows of the outbox.
LEMMA PublisherTypesStep ==
  ASSUME TypeOK, [Next]_vars
  PROVE  PublisherTypes'
<1>1. PublisherTypes /\ outbox \subseteq outbox'
  BY LedgerStep DEF TypeOK, PublisherTypes
<1>2. CASE UNCHANGED <<publisherVars, accountTopic>>
  BY <1>1, <1>2 DEF PublisherTypes, publisherVars
<1>3. ASSUME NEW p \in Publisher, Publish(p) \/ PublishFails(p)
      PROVE  PublisherTypes'
  <2>1. CASE Claim(p)
    BY <1>1, <2>1 DEF Claim, PublisherTypes, dbVars, kafkaVars
  <2>2. CASE MarkPublished(p)
    BY <1>1, <2>2 DEF MarkPublished, PublisherTypes, dbVars, kafkaVars
  <2>3. ASSUME NEW e \in unsent[p], Produce(p, e)
        PROVE  PublisherTypes'
    BY <1>1, <2>3 DEF Produce, PublisherTypes, dbVars
  <2>4. CASE PublishFails(p)
    BY <1>1, <2>4 DEF PublishFails, PublisherTypes, dbVars, kafkaVars
  <2>. QED BY <1>3, <2>1, <2>2, <2>3, <2>4 DEF Publish
<1>4. ASSUME NEW c \in Consumer, Consume(c) \/ Break(c) \/ Crash(c)
                                 \/ \E q \in Partition : Rebalance(q, c)
      PROVE  UNCHANGED <<publisherVars, accountTopic>>
  BY <1>4 DEF Consume, Poll, Handle, CommitRecords, Break, Crash, Rebalance, kafkaVars
<1>5. ASSUME \/ \E x \in TxId : Commit(x)
             \/ \E i \in Foreign, q \in Partition : ForeignEvent(i, q)
             \/ vars' = vars
      PROVE  UNCHANGED <<publisherVars, accountTopic>>
  BY <1>5 DEF Commit, ForeignEvent, vars, publisherVars, kafkaVars
<1>. QED BY <1>2, <1>3, <1>4, <1>5 DEF Next

OffsetTypes == /\ owner \in [Partition -> Consumer]
               /\ position \in [Partition -> Nat]
               /\ committed \in [Partition -> Nat]
               /\ fetched \in [Consumer -> [Partition -> BatchState]]
               /\ \A q \in Partition : position[q] <= Len(log[q]) /\ committed[q] <= Len(log[q])
               /\ \A c \in Consumer, q \in Partition : BatchOK(c, q)

\* Poll hands out, for every partition, a batch that starts at the position and
\* ends at the new one.
LEMMA PollFacts ==
  ASSUME TypeOK, NEW c \in Consumer, Poll(c)
  PROVE  /\ position' \in [Partition -> Nat]
         /\ \A q \in Partition : /\ position[q] <= position'[q]
                                 /\ position'[q] <= Len(log[q])
                                 /\ owner[q] # c => position'[q] = position[q]
         /\ fetched' = [fetched EXCEPT ![c] =
              [q \in Partition |-> [from |-> position[q], next |-> position[q],
                                    end |-> position'[q]]]]
         /\ UNCHANGED <<log, owner, committed, dlq, readVars>>
<1>1. PICK to \in [Partition -> UNION {position[q]..Len(log[q]) : q \in Partition}] :
         /\ \A q \in Partition : /\ to[q] \in position[q]..Len(log[q])
                                 /\ owner[q] # c => to[q] = position[q]
         /\ position' = to
         /\ fetched' = [fetched EXCEPT ![c] =
              [q \in Partition |-> [from |-> position[q], next |-> position[q],
                                    end |-> to[q]]]]
  BY DEF Poll
<1>2. position \in [Partition -> Nat] /\ \A q \in Partition : Len(log[q]) \in Nat
  BY LenProperties DEF TypeOK
<1>3. position' = to /\ to \in [Partition -> Nat]
  <2>1. ASSUME NEW q \in Partition
        PROVE  to[q] \in Nat /\ position[q] <= to[q] /\ to[q] <= Len(log[q])
    BY <1>1, <1>2
  <2>. QED BY <1>1, <2>1
<1>4. UNCHANGED <<log, owner, committed, dlq, readVars>>
  BY DEF Poll, kafkaVars
<1>. QED BY <1>1, <1>2, <1>3, <1>4

\* The batch of a consumer that has none.
LEMMA NowhereFacts ==
  /\ Nowhere \in [Partition -> BatchState]
  /\ \A q \in Partition : Nowhere[q] = [from |-> 0, next |-> 0, end |-> 0]
BY DEF Nowhere, BatchState

\* Offsets and batches stay within the log.
LEMMA OffsetTypesStep ==
  ASSUME TypeOK, [Next]_vars
  PROVE  OffsetTypes'
<1>1. OffsetTypes /\ LogGrows
  BY LogStep DEF TypeOK, OffsetTypes
<1>2. /\ \A q \in Partition : Len(log[q]) \in Nat /\ Len(log'[q]) \in Nat
      /\ \A c \in Consumer, q \in Partition : /\ fetched[c][q] \in BatchState
                                              /\ fetched[c][q].from \in Nat
                                              /\ fetched[c][q].next \in Nat
                                              /\ fetched[c][q].end \in Nat
  <2>1. \A q \in Partition : Len(log[q]) \in Nat /\ Len(log'[q]) \in Nat
    BY LogStep, LenProperties DEF TypeOK
  <2>. QED BY <1>1, <2>1 DEF OffsetTypes, BatchState
<1>3. CASE UNCHANGED consumerVars
  <2>1. UNCHANGED <<owner, position, committed, fetched>>
    BY <1>3 DEF consumerVars
  <2>2. ASSUME NEW q \in Partition
        PROVE  position'[q] <= Len(log'[q]) /\ committed'[q] <= Len(log'[q])
    BY <1>1, <1>2, <2>1 DEF OffsetTypes, LogGrows
  <2>3. ASSUME NEW c \in Consumer, NEW q \in Partition
        PROVE  BatchOK(c, q)'
    BY <1>1, <1>2, <2>1 DEF OffsetTypes, LogGrows, BatchOK
  <2>. QED BY <1>1, <2>1, <2>2, <2>3 DEF OffsetTypes
<1>4. ASSUME NEW c \in Consumer, Poll(c)
      PROVE  OffsetTypes'
  <2>. DEFINE got == [q \in Partition |-> [from |-> position[q], next |-> position[q],
                                           end |-> position'[q]]]
  <2>1. got \in [Partition -> BatchState] /\ fetched' = [fetched EXCEPT ![c] = got]
    BY <1>1, <1>4, PollFacts DEF OffsetTypes, BatchState
  <2>2. \A q \in Partition : got[q] = [from |-> position[q], next |-> position[q],
                                       end |-> position'[q]]
    OBVIOUS
  <2>. HIDE DEF got
  <2>3. fetched' \in [Consumer -> [Partition -> BatchState]]
    BY <1>1, <2>1 DEF OffsetTypes
  <2>4. ASSUME NEW d \in Consumer, NEW q \in Partition
        PROVE  BatchOK(d, q)'
    <3>1. fetched'[d][q] = IF d = c THEN got[q] ELSE fetched[d][q]
      BY <1>1, <2>1 DEF OffsetTypes
    <3>. QED BY <1>1, <1>2, <1>4, <2>2, <3>1, PollFacts DEF OffsetTypes, BatchOK
  <2>. QED BY <1>1, <1>4, <2>3, <2>4, PollFacts DEF OffsetTypes
<1>5. ASSUME NEW c \in Consumer, NEW q \in Partition, Handle(c, q)
      PROVE  OffsetTypes'
  <2>1. /\ fetched' = [fetched EXCEPT ![c][q].next = @ + 1]
        /\ fetched[c][q].next < fetched[c][q].end
        /\ UNCHANGED <<log, owner, position, committed>>
    BY <1>5 DEF Handle, Left
  <2>2. fetched' \in [Consumer -> [Partition -> BatchState]]
    <3>1. [fetched[c][q] EXCEPT !.next = @ + 1] \in BatchState
      BY <1>2 DEF BatchState
    <3>. QED BY <1>1, <2>1, <3>1 DEF OffsetTypes
  <2>3. ASSUME NEW d \in Consumer, NEW r \in Partition
        PROVE  BatchOK(d, r)'
    <3>1. CASE d = c /\ r = q
      <4>1. fetched'[d][r] = [fetched[c][q] EXCEPT !.next = @ + 1]
        BY <1>1, <2>1, <3>1 DEF OffsetTypes
      <4>2. /\ fetched'[d][r].from = fetched[c][q].from
            /\ fetched'[d][r].next = fetched[c][q].next + 1
            /\ fetched'[d][r].end = fetched[c][q].end
        BY <1>2, <4>1 DEF BatchState
      <4>. QED BY <1>1, <1>2, <2>1, <3>1, <4>2 DEF OffsetTypes, BatchOK
    <3>2. CASE ~(d = c /\ r = q)
      <4>1. fetched'[d][r] = fetched[d][r]
        BY <1>1, <2>1, <3>2 DEF OffsetTypes
      <4>. QED BY <1>1, <2>1, <4>1 DEF OffsetTypes, BatchOK
    <3>. QED BY <3>1, <3>2
  <2>. QED BY <1>1, <2>1, <2>2, <2>3 DEF OffsetTypes
<1>6. ASSUME NEW c \in Consumer, CommitRecords(c)
      PROVE  OffsetTypes'
  <2>1. /\ fetched' = [fetched EXCEPT ![c] = Nowhere]
        /\ UNCHANGED <<log, owner, position>>
    BY <1>6 DEF CommitRecords, kafkaVars
  <2>2. PICK ok \in SUBSET {q \in Partition : Handled(c, q)} :
          committed' = [q \in Partition |-> IF q \in ok THEN fetched[c][q].next ELSE committed[q]]
    BY <1>6 DEF CommitRecords
  <2>3. /\ committed' \in [Partition -> Nat]
        /\ \A q \in Partition : committed'[q] <= Len(log[q])
    <3>1. ASSUME NEW q \in Partition
          PROVE  committed'[q] \in Nat /\ committed'[q] <= Len(log[q])
      <4>1. committed'[q] = IF q \in ok THEN fetched[c][q].next ELSE committed[q]
        BY <2>2
      <4>2. fetched[c][q].next <= fetched[c][q].end /\ fetched[c][q].end <= Len(log[q])
        BY <1>1 DEF OffsetTypes, BatchOK
      <4>. QED BY <1>1, <1>2, <4>1, <4>2 DEF OffsetTypes
    <3>. QED BY <2>2, <3>1
  <2>4. /\ fetched' \in [Consumer -> [Partition -> BatchState]]
        /\ \A d \in Consumer, q \in Partition : BatchOK(d, q)'
    BY <1>1, <1>2, <2>1, NowhereFacts DEF OffsetTypes, BatchOK
  <2>. QED BY <1>1, <2>1, <2>3, <2>4 DEF OffsetTypes
<1>7. ASSUME NEW c \in Consumer, Break(c)
      PROVE  OffsetTypes'
  <2>. DEFINE rest == [q \in Partition |-> [fetched[c][q] EXCEPT !.end = fetched[c][q].next]]
  <2>1. /\ fetched' = [fetched EXCEPT ![c] = rest]
        /\ UNCHANGED <<log, owner, position, committed>>
    BY <1>7 DEF Break, kafkaVars
  <2>2. \A q \in Partition : /\ rest[q] \in BatchState
                             /\ rest[q].from = fetched[c][q].from
                             /\ rest[q].next = fetched[c][q].next
                             /\ rest[q].end = fetched[c][q].next
    BY <1>2 DEF BatchState
  <2>3. rest \in [Partition -> BatchState]
    BY <2>2
  <2>. HIDE DEF rest
  <2>4. /\ fetched' \in [Consumer -> [Partition -> BatchState]]
        /\ \A d \in Consumer, q \in Partition :
             fetched'[d][q] = IF d = c THEN rest[q] ELSE fetched[d][q]
    BY <1>1, <2>1, <2>3 DEF OffsetTypes
  <2>5. \A d \in Consumer, q \in Partition : BatchOK(d, q)'
    BY <1>1, <1>2, <2>1, <2>2, <2>4 DEF OffsetTypes, BatchOK
  <2>. QED BY <1>1, <2>1, <2>4, <2>5 DEF OffsetTypes
<1>8. ASSUME NEW c \in Consumer, Crash(c)
      PROVE  OffsetTypes'
  <2>1. /\ fetched' = [fetched EXCEPT ![c] = Nowhere]
        /\ position' = [q \in Partition |-> IF owner[q] = c THEN committed[q] ELSE position[q]]
        /\ UNCHANGED <<log, owner, committed>>
    BY <1>8 DEF Crash, kafkaVars
  <2>2. /\ fetched' \in [Consumer -> [Partition -> BatchState]]
        /\ \A d \in Consumer, q \in Partition : BatchOK(d, q)'
    BY <1>1, <1>2, <2>1, NowhereFacts DEF OffsetTypes, BatchOK
  <2>. QED BY <1>1, <2>1, <2>2 DEF OffsetTypes
<1>9. ASSUME NEW c \in Consumer, NEW q \in Partition, Rebalance(q, c)
      PROVE  OffsetTypes'
  <2>1. /\ owner' = [owner EXCEPT ![q] = c]
        /\ position' = [position EXCEPT ![q] = committed[q]]
        /\ UNCHANGED <<log, committed, fetched>>
    BY <1>9 DEF Rebalance, kafkaVars
  <2>. QED BY <1>1, <2>1 DEF OffsetTypes, BatchOK
<1>10. ASSUME \/ \E x \in TxId : Commit(x)
              \/ \E i \in Foreign, q \in Partition : ForeignEvent(i, q)
              \/ \E p \in Publisher : Publish(p) \/ PublishFails(p)
              \/ vars' = vars
       PROVE  UNCHANGED consumerVars
  BY <1>10 DEF Commit, ForeignEvent, Publish, Claim, Produce, MarkPublished, PublishFails,
     vars, consumerVars
<1>. QED BY <1>3, <1>4, <1>5, <1>6, <1>7, <1>8, <1>9, <1>10 DEF Next, Consume

\* The record a consumer handles is in the log, and what happens to it.
LEMMA HandleFacts ==
  ASSUME TypeOK, NEW c \in Consumer, NEW q \in Partition, Handle(c, q)
  PROVE  /\ fetched[c][q].next \in Nat
         /\ fetched[c][q].next < fetched[c][q].end
         /\ fetched[c][q].next + 1 \in 1..Len(log[q])
         /\ UNCHANGED <<dbVars, log, owner, position, committed>>
         /\ fetched' = [fetched EXCEPT ![c][q].next = @ + 1]
         /\ \E e \in Carried :
              /\ e = log[q][fetched[c][q].next + 1]
              /\ \/ /\ OfTransaction(e) /\ e \in outbox
                    /\ ApplyEvent(e) /\ UNCHANGED dlq
                 \/ ~OfTransaction(e) /\ dlq' = dlq \cup {e} /\ UNCHANGED readVars
<1>1. /\ fetched[c][q].next \in Nat
      /\ fetched[c][q].end \in Nat
      /\ fetched[c][q].next < fetched[c][q].end
      /\ fetched[c][q].end <= Len(log[q])
  BY DEF TypeOK, BatchState, BatchOK, Handle, Left
<1>2. log[q] \in Seq(Carried) /\ Len(log[q]) \in Nat
  BY LenProperties DEF TypeOK
<1>3. fetched[c][q].next + 1 \in 1..Len(log[q])
  BY <1>1, <1>2
<1>4. log[q][fetched[c][q].next + 1] \in Carried
  BY <1>2, <1>3, ElementOfSeq
<1>. QED BY <1>1, <1>3, <1>4, CarriedFacts DEF Handle

\* What Applier.Apply leaves behind.
LEMMA ApplyFacts ==
  ASSUME TypeOK, NEW e \in outbox, OfTransaction(e), ApplyEvent(e)
  PROVE  /\ processed' = processed \cup {e}
         /\ projection' \in [Account -> BalanceRow]
         /\ \A a \in Account : projection[a].version <= projection'[a].version
         /\ ProjectionIsNewest => ProjectionIsNewest'
<1>1. projection \in [Account -> BalanceRow]
  BY DEF TypeOK
<1>2. /\ DOMAIN e.balances \subseteq Account
      /\ \A a \in DOMAIN e.balances : e.balances[a] \in BalanceRow
  BY TransactionEventFacts DEF TypeOK
<1>3. \A r \in BalanceRow : r.version \in Nat
  BY DEF BalanceRow
<1>4. CASE e \in processed
  <2>1. processed' = processed /\ projection' = projection
    BY <1>4 DEF ApplyEvent, readVars
  <2>. QED BY <1>1, <1>3, <1>4, <2>1 DEF ProjectionIsNewest
<1>5. CASE e \notin processed
  <2>1. /\ processed' = processed \cup {e}
        /\ projection' = [a \in Account |->
                            IF a \in DOMAIN e.balances
                            THEN Upsert(projection[a], e.balances[a]) ELSE projection[a]]
    BY <1>5 DEF ApplyEvent
  <2>2. ASSUME NEW a \in Account, a \in DOMAIN e.balances
        PROVE  /\ projection'[a] = IF projection[a].version < e.balances[a].version
                                   THEN e.balances[a] ELSE projection[a]
               /\ projection[a] \in BalanceRow /\ projection'[a] \in BalanceRow
               /\ projection[a].version <= projection'[a].version
               /\ e.balances[a].version <= projection'[a].version
    <3>1. projection'[a] = IF projection[a].version < e.balances[a].version
                           THEN e.balances[a] ELSE projection[a]
      BY <2>1, <2>2 DEF Upsert
    <3>. QED BY <1>1, <1>2, <1>3, <2>2, <3>1
  <2>3. ASSUME NEW a \in Account, a \notin DOMAIN e.balances
        PROVE  projection'[a] = projection[a] /\ projection[a].version \in Nat
    BY <1>1, <1>3, <2>1, <2>3
  <2>4. projection' \in [Account -> BalanceRow]
    BY <1>1, <2>1, <2>2, <2>3
  <2>5. \A a \in Account : projection[a].version <= projection'[a].version
    BY <1>3, <2>2, <2>3
  <2>6. ASSUME ProjectionIsNewest PROVE ProjectionIsNewest'
    <3>. SUFFICES ASSUME NEW a \in Account
                  PROVE  /\ \A f \in processed' : a \in DOMAIN f.balances =>
                              f.balances[a].version <= projection'[a].version
                         /\ \/ projection'[a] = NoRow
                            \/ \E f \in processed' : /\ a \in DOMAIN f.balances
                                                     /\ projection'[a] = f.balances[a]
      BY DEF ProjectionIsNewest
    <3>1. ASSUME NEW f \in processed, a \in DOMAIN f.balances
          PROVE  f.balances[a].version <= projection'[a].version
      <4>1. f.balances[a].version <= projection[a].version
        BY <2>6, <3>1 DEF ProjectionIsNewest
      <4>2. f \in outbox /\ OfTransaction(f)
        BY <3>1 DEF TypeOK
      <4>3. f.balances[a].version \in Nat
        BY <1>3, <3>1, <4>2, TransactionEventFacts DEF TypeOK
      <4>4. projection[a].version \in Nat /\ projection'[a].version \in Nat
        BY <1>1, <1>3, <2>4
      <4>. QED BY <2>5, <4>1, <4>3, <4>4
    <3>2. a \in DOMAIN e.balances => e.balances[a].version <= projection'[a].version
      BY <2>2
    <3>3. \/ projection[a] = NoRow
          \/ \E f \in processed : a \in DOMAIN f.balances /\ projection[a] = f.balances[a]
      BY <2>6 DEF ProjectionIsNewest
    <3>4. projection'[a] = projection[a]
          \/ (a \in DOMAIN e.balances /\ projection'[a] = e.balances[a])
      BY <2>2, <2>3
    <3>. QED BY <2>1, <3>1, <3>2, <3>3, <3>4
  <2>. QED BY <2>1, <2>4, <2>5, <2>6
<1>. QED BY <1>4, <1>5

\* Only Handle touches the read side and the dead letters.
LEMMA ReadStep ==
  ASSUME [Next]_vars
  PROVE  \/ UNCHANGED <<readVars, dlq>>
         \/ \E c \in Consumer, q \in Partition : Handle(c, q)
<1>1. ASSUME NEW c \in Consumer, Consume(c) \/ Break(c) \/ Crash(c)
                                 \/ \E q \in Partition : Rebalance(q, c)
      PROVE  \/ UNCHANGED <<readVars, dlq>>
             \/ \E q \in Partition : Handle(c, q)
  BY <1>1 DEF Consume, Poll, CommitRecords, Break, Crash, Rebalance, kafkaVars
<1>2. ASSUME \/ \E x \in TxId : Commit(x)
             \/ \E i \in Foreign, q \in Partition : ForeignEvent(i, q)
             \/ \E p \in Publisher : Publish(p) \/ PublishFails(p)
             \/ vars' = vars
      PROVE  UNCHANGED <<readVars, dlq>>
  BY <1>2 DEF Commit, ForeignEvent, Publish, Claim, Produce, MarkPublished, PublishFails,
     vars, readVars, kafkaVars
<1>. QED BY <1>1, <1>2 DEF Next

ReadTypes == /\ processed \subseteq {e \in outbox : OfTransaction(e)}
             /\ projection \in [Account -> BalanceRow]
             /\ dlq \subseteq Carried

\* What has been applied is of the outbox, and every balance shown is a row; and
\* each account shows the newest of what was applied.
LEMMA ReadTypesStep ==
  ASSUME TypeOK, [Next]_vars
  PROVE  /\ ReadTypes'
         /\ ProjectionIsNewest => ProjectionIsNewest'
<1>1. ReadTypes /\ outbox \subseteq outbox' /\ Carried \subseteq Carried'
  BY LedgerStep DEF TypeOK, ReadTypes, Carried, Unrecognised
<1>2. CASE UNCHANGED <<readVars, dlq>>
  BY <1>1, <1>2 DEF ReadTypes, ProjectionIsNewest, readVars
<1>3. ASSUME NEW c \in Consumer, NEW q \in Partition, Handle(c, q)
      PROVE  ReadTypes' /\ (ProjectionIsNewest => ProjectionIsNewest')
  <2>1. PICK e \in Carried :
          \/ OfTransaction(e) /\ e \in outbox /\ ApplyEvent(e) /\ UNCHANGED dlq
          \/ ~OfTransaction(e) /\ dlq' = dlq \cup {e} /\ UNCHANGED readVars
    BY <1>3, HandleFacts
  <2>2. CASE OfTransaction(e) /\ e \in outbox /\ ApplyEvent(e) /\ UNCHANGED dlq
    BY <1>1, <2>2, ApplyFacts DEF ReadTypes
  <2>3. CASE dlq' = dlq \cup {e} /\ UNCHANGED readVars
    BY <1>1, <2>3 DEF ReadTypes, ProjectionIsNewest, readVars
  <2>. QED BY <2>1, <2>2, <2>3
<1>. QED BY <1>2, <1>3, ReadStep

\* Faults are counted.
LEMMA BudgetStep ==
  ASSUME TypeOK, [Next]_vars
  PROVE  faults' \in Nat /\ transients' \in Nat
<1>1. faults \in Nat /\ transients \in Nat
  BY DEF TypeOK
<1>2. \/ UNCHANGED budget
      \/ Fault
      \/ transients' = transients + 1 /\ UNCHANGED faults
  BY DEF Next, Commit, ForeignEvent, Publish, Claim, Produce, MarkPublished, PublishFails,
     Consume, Poll, Handle, CommitRecords, Break, Crash, Rebalance, vars, budget
<1>. QED BY <1>1, <1>2 DEF Fault, budget

BaseInv == AtomicInv /\ TypeOK /\ ProjectionIsNewest

\* At the start nothing has been published, fetched or shown.
LEMMA BaseInit == Init => BaseInv
<1>. SUFFICES ASSUME Init PROVE BaseInv
  OBVIOUS
<1>1. AtomicInv /\ DbTypeOK
  BY InitAtomicInv DEF Init, AtomicInv
<1>2. PublisherTypes /\ ReadTypes
  BY DEF Init, PublisherTypes, ReadTypes, BalanceRow, NoRow
<1>3. /\ log \in [Partition -> Seq(Carried)]
      /\ \A q \in Partition : Len(log[q]) = 0
  BY EmptySeq DEF Init
<1>4. OffsetTypes
  BY <1>3, NowhereFacts DEF Init, OffsetTypes, BatchOK
<1>5. ProjectionIsNewest
  BY DEF Init, ProjectionIsNewest
<1>6. faults \in Nat /\ transients \in Nat
  BY DEF Init
<1>. QED BY <1>1, <1>2, <1>3, <1>4, <1>5, <1>6
         DEF BaseInv, TypeOK, PublisherTypes, ReadTypes, OffsetTypes

\* Every step keeps it.
LEMMA BaseStep == BaseInv /\ [Next]_vars => BaseInv'
<1>. SUFFICES ASSUME BaseInv, [Next]_vars PROVE BaseInv'
  OBVIOUS
<1>1. TypeOK /\ AtomicInv /\ ProjectionIsNewest
  BY DEF BaseInv
<1>2. AtomicInv' /\ DbTypeOK'
  BY <1>1, LedgerStep, NextKeepsInv DEF AtomicInv
<1>3. PublisherTypes' /\ OffsetTypes' /\ ReadTypes' /\ ProjectionIsNewest'
      /\ log' \in [Partition -> Seq(Carried')] /\ faults' \in Nat /\ transients' \in Nat
  BY <1>1, PublisherTypesStep, OffsetTypesStep, ReadTypesStep, LogStep, BudgetStep
<1>. QED BY <1>2, <1>3 DEF BaseInv, TypeOK, PublisherTypes, ReadTypes, OffsetTypes

\* The tables, topics, offsets and batches keep their types, and what the read
\* side shows stays the newest of what it has applied.
THEOREM PipelineInvariant == Spec => []BaseInv
BY BaseInit, BaseStep, PTL DEF Spec

-----------------------------------------------------------------------------
(* The read side                                                           *)

\* However often events are redelivered, in whatever order they arrive and
\* however many consumers apply them, applyBalance's compare-and-set leaves each
\* account with the newest balance applied.
THEOREM ShowsNewest == Spec => []ProjectionIsNewest
<1>1. BaseInv => ProjectionIsNewest
  BY DEF BaseInv
<1>. QED BY <1>1, PipelineInvariant, PTL

\* No balance that has been shown gives way to an older one.
THEOREM NeverGoesBack == Spec => ProjectionNeverGoesBack
<1>. DEFINE Forward == \A a \in Account : projection[a].version <= projection'[a].version
<1>1. BaseInv /\ [Next]_vars => [Forward]_vars
  <2>. SUFFICES ASSUME BaseInv, [Next]_vars PROVE Forward
    OBVIOUS
  <2>1. TypeOK /\ \A a \in Account : projection[a].version \in Nat
    BY DEF BaseInv, TypeOK, BalanceRow
  <2>2. CASE UNCHANGED <<readVars, dlq>>
    BY <2>1, <2>2 DEF readVars
  <2>3. ASSUME NEW c \in Consumer, NEW q \in Partition, Handle(c, q)
        PROVE  Forward
    <3>1. UNCHANGED readVars \/ \E e \in outbox : OfTransaction(e) /\ ApplyEvent(e)
      BY <2>1, <2>3, HandleFacts
    <3>. QED BY <2>1, <3>1, ApplyFacts DEF readVars
  <2>. QED BY <2>2, <2>3, ReadStep
<1>. QED BY <1>1, PipelineInvariant, PTL DEF Spec, ProjectionNeverGoesBack

\* The outbox, Kafka and the consumers with their redeliveries, on the facts
\* committed, the facts applied and the balances shown, do what Projection does.
THEOREM ImplementsProjection == Spec => PipelineKeepsPromise
<1>1. Init => Read!ProjectionInit
  BY DEF Init, AtomicInit, Read!ProjectionInit, Read!Unseen, NoRow
<1>2. BaseInv /\ BaseInv' /\ [Next]_vars => [Read!ProjectionNext]_(Read!projectionVars)
  <2>. SUFFICES ASSUME BaseInv, BaseInv', [Next]_vars
                PROVE  [Read!ProjectionNext]_(Read!projectionVars)
    OBVIOUS
  <2>1. CASE UNCHANGED readVars
    <3>1. Read!Happen
      BY <2>1, LedgerStep DEF Read!Happen, readVars, OfTransaction
    <3>. QED BY <3>1 DEF Read!ProjectionNext
  <2>2. ASSUME NEW c \in Consumer, NEW q \in Partition, Handle(c, q)
        PROVE  [Read!ProjectionNext]_(Read!projectionVars)
    <3>1. UNCHANGED outbox
      BY <2>2, HandleFacts DEF BaseInv, dbVars
    <3>2. PICK e \in Carried :
            \/ OfTransaction(e) /\ e \in outbox /\ ApplyEvent(e)
            \/ UNCHANGED readVars
      BY <2>2, HandleFacts DEF BaseInv
    <3>3. CASE OfTransaction(e) /\ e \in outbox /\ ApplyEvent(e) /\ e \notin processed
      <4>1. processed' = processed \cup {e}
        BY <3>3, ApplyFacts DEF BaseInv
      <4>2. Read!IsNewest(projection', processed')
        BY DEF BaseInv, ProjectionIsNewest, Read!IsNewest, Read!Unseen, NoRow
      <4>3. Read!Show
        BY <3>1, <3>3, <4>1, <4>2 DEF Read!Show, OfTransaction
      <4>. QED BY <4>3 DEF Read!ProjectionNext
    <3>4. CASE ApplyEvent(e) /\ e \in processed
      BY <2>1, <3>4 DEF ApplyEvent
    <3>. QED BY <2>1, <3>2, <3>3, <3>4
  <2>. QED BY <2>1, <2>2, ReadStep
<1>. QED BY <1>1, <1>2, PipelineInvariant, PTL DEF Spec, PipelineKeepsPromise, Read!ProjectionSpec

-----------------------------------------------------------------------------
(* The publishers                                                          *)

\* What the publishers rely on: what a publisher has of its batch off its hands,
\* Kafka has.
PublishInv == /\ PublishedMeansProduced
              /\ \A p \in Publisher : unsent[p] \subseteq claimed[p]
              /\ \A p \in Publisher : \A e \in claimed[p] : e \in unsent[p] \/ InLog(e)

\* A record that is in its topic stays there.
LEMMA InLogStays ==
  ASSUME TypeOK, LogGrows, accountTopic \subseteq accountTopic',
         NEW e \in outbox, InLog(e)
  PROVE  InLog(e)'
<1>1. CASE OfTransaction(e)
  <2>1. PartitionOf[e.tx] \in Partition
    BY <1>1, TransactionEventFacts DEF TypeOK
  <2>2. PICK n \in 1..Len(log[PartitionOf[e.tx]]) : log[PartitionOf[e.tx]][n] = e
    BY <1>1 DEF InLog
  <2>3. /\ Len(log[PartitionOf[e.tx]]) \in Nat
        /\ Len(log'[PartitionOf[e.tx]]) >= Len(log[PartitionOf[e.tx]])
        /\ log'[PartitionOf[e.tx]][n] = e
    BY <2>1, <2>2, LenProperties DEF TypeOK, LogGrows
  <2>4. n \in 1..Len(log'[PartitionOf[e.tx]])
    BY <2>3
  <2>. QED BY <1>1, <2>3, <2>4 DEF InLog, OfTransaction
<1>2. CASE ~OfTransaction(e)
  BY <1>2 DEF InLog, OfTransaction
<1>. QED BY <1>1, <1>2

\* ProduceSync: the record is in its topic, and nothing leaves any.
LEMMA ProduceFacts ==
  ASSUME TypeOK, NEW p \in Publisher, NEW e \in unsent[p], Produce(p, e)
  PROVE  InLog(e)' /\ accountTopic \subseteq accountTopic'
<1>1. e \in outbox
  BY DEF TypeOK
<1>2. CASE OfTransaction(e)
  <2>. DEFINE q == PartitionOf[e.tx]
  <2>1. q \in Partition /\ e \in Carried /\ log \in [Partition -> Seq(Carried)]
    BY <1>1, <1>2, TransactionEventFacts DEF TypeOK, Carried
  <2>2. log' = [log EXCEPT ![q] = Append(@, e)] /\ UNCHANGED accountTopic
    BY <1>2 DEF Produce
  <2>3. /\ Len(log'[q]) = Len(log[q]) + 1
        /\ log'[q][Len(log[q]) + 1] = e
    BY <2>1, <2>2, AppendGrows
  <2>4. Len(log[q]) + 1 \in 1..Len(log'[q])
    BY <2>1, <2>3, LenProperties
  <2>. QED BY <1>2, <2>2, <2>3, <2>4 DEF InLog, OfTransaction
<1>3. CASE ~OfTransaction(e)
  BY <1>3 DEF Produce, InLog, OfTransaction
<1>. QED BY <1>2, <1>3

\* Every step keeps the publishers' invariant.
LEMMA PublishStep == TypeOK /\ PublishInv /\ [Next]_vars => PublishInv'
<1>. SUFFICES ASSUME TypeOK, PublishInv, [Next]_vars PROVE PublishInv'
  OBVIOUS
<1>1. /\ LogGrows
      /\ published \subseteq outbox
      /\ claimed \in [Publisher -> SUBSET outbox]
      /\ unsent \in [Publisher -> SUBSET outbox]
  BY LogStep DEF TypeOK
<1>2. ASSUME accountTopic \subseteq accountTopic', NEW e \in outbox, InLog(e)
      PROVE  InLog(e)'
  BY <1>1, <1>2, InLogStays
<1>3. CASE UNCHANGED <<publisherVars, accountTopic>>
  BY <1>1, <1>2, <1>3 DEF PublishInv, PublishedMeansProduced, publisherVars
<1>4. ASSUME NEW p \in Publisher, Claim(p)
      PROVE  PublishInv'
  <2>. DEFINE open == outbox \ (published \cup UNION {claimed[o] : o \in Publisher})
  <2>1. PICK rows \in SUBSET open : /\ claimed' = [claimed EXCEPT ![p] = rows]
                                    /\ unsent' = [unsent EXCEPT ![p] = rows]
    BY <1>4 DEF Claim
  <2>2. UNCHANGED <<published, accountTopic>>
    BY <1>4 DEF Claim, kafkaVars
  <2>3. rows \cap published = {} /\ \A o \in Publisher : rows \cap claimed[o] = {}
    OBVIOUS
  <2>4. \A o \in Publisher : /\ claimed'[o] = IF o = p THEN rows ELSE claimed[o]
                             /\ unsent'[o] = IF o = p THEN rows ELSE unsent[o]
    BY <1>1, <2>1
  <2>. HIDE DEF open
  <2>5. PublishedMeansProduced'
    BY <1>1, <1>2, <2>2, <2>3, <2>4 DEF PublishInv, PublishedMeansProduced
  <2>. QED BY <1>1, <1>2, <2>2, <2>4, <2>5 DEF PublishInv
<1>5. ASSUME NEW p \in Publisher, MarkPublished(p)
      PROVE  PublishInv'
  <2>1. /\ published' = published \cup claimed[p]
        /\ claimed' = [claimed EXCEPT ![p] = {}]
        /\ unsent[p] = {}
        /\ UNCHANGED <<unsent, accountTopic>>
    BY <1>5 DEF MarkPublished, kafkaVars
  <2>2. \A o \in Publisher : claimed'[o] = IF o = p THEN {} ELSE claimed[o]
    BY <1>1, <2>1
  <2>3. \A e \in published' : e \in outbox /\ InLog(e)
    BY <1>1, <2>1 DEF PublishInv, PublishedMeansProduced
  <2>4. \A e \in published' : InLog(e)'
    BY <1>2, <2>1, <2>3
  <2>5. PublishedMeansProduced'
    BY <2>1, <2>2, <2>4 DEF PublishInv, PublishedMeansProduced
  <2>. QED BY <1>1, <1>2, <2>1, <2>2, <2>5 DEF PublishInv
<1>6. ASSUME NEW p \in Publisher, NEW e \in unsent[p], Produce(p, e)
      PROVE  PublishInv'
  <2>1. /\ InLog(e)' /\ accountTopic \subseteq accountTopic'
        /\ unsent' = [unsent EXCEPT ![p] = @ \ {e}]
        /\ UNCHANGED <<published, claimed>>
    BY <1>6, ProduceFacts DEF Produce
  <2>2. \A o \in Publisher : unsent'[o] = IF o = p THEN unsent[p] \ {e} ELSE unsent[o]
    BY <1>1, <2>1
  <2>3. PublishedMeansProduced'
    BY <1>1, <1>2, <2>1 DEF PublishInv, PublishedMeansProduced
  <2>4. ASSUME NEW o \in Publisher, NEW f \in claimed'[o]
        PROVE  f \in unsent'[o] \/ InLog(f)'
    BY <1>1, <1>2, <2>1, <2>2 DEF PublishInv
  <2>. QED BY <2>1, <2>2, <2>3, <2>4 DEF PublishInv
<1>7. ASSUME NEW p \in Publisher, PublishFails(p)
      PROVE  PublishInv'
  <2>1. /\ claimed' = [claimed EXCEPT ![p] = {}]
        /\ unsent' = [unsent EXCEPT ![p] = {}]
        /\ UNCHANGED <<published, accountTopic>>
    BY <1>7 DEF PublishFails, kafkaVars
  <2>2. \A o \in Publisher : /\ claimed'[o] = IF o = p THEN {} ELSE claimed[o]
                             /\ unsent'[o] = IF o = p THEN {} ELSE unsent[o]
    BY <1>1, <2>1
  <2>3. PublishedMeansProduced'
    BY <1>1, <1>2, <2>1, <2>2 DEF PublishInv, PublishedMeansProduced
  <2>. QED BY <1>1, <1>2, <2>1, <2>2, <2>3 DEF PublishInv
<1>8. ASSUME NEW c \in Consumer, Consume(c) \/ Break(c) \/ Crash(c)
                                 \/ \E q \in Partition : Rebalance(q, c)
      PROVE  UNCHANGED <<publisherVars, accountTopic>>
  BY <1>8 DEF Consume, Poll, Handle, CommitRecords, Break, Crash, Rebalance, kafkaVars
<1>9. ASSUME \/ \E x \in TxId : Commit(x)
             \/ \E i \in Foreign, q \in Partition : ForeignEvent(i, q)
             \/ vars' = vars
      PROVE  UNCHANGED <<publisherVars, accountTopic>>
  BY <1>9 DEF Commit, ForeignEvent, vars, publisherVars, kafkaVars
<1>. QED BY <1>3, <1>4, <1>5, <1>6, <1>7, <1>8, <1>9 DEF Next, Publish

\* Whatever is interrupted between the claim and the mark, no row is marked
\* published that Kafka does not have, and SKIP LOCKED gives no row to two
\* publishers.
THEOREM MarkedIsProduced == Spec => []PublishedMeansProduced
<1>1. Init => PublishInv
  BY DEF Init, PublishInv, PublishedMeansProduced
<1>2. BaseInv => TypeOK
  BY DEF BaseInv
<1>3. PublishInv => PublishedMeansProduced
  BY DEF PublishInv
<1>. QED BY <1>1, <1>2, <1>3, PublishStep, PipelineInvariant, PTL DEF Spec

-----------------------------------------------------------------------------
(* The consumers' offsets                                                  *)

DoneAt(q, n) == Done(log[q][n])
InHand(q, n) == LET b == fetched[owner[q]][q] IN b.next < n /\ n <= b.end

\* What CommitRecords relies on, as long as no batch is broken off: whatever is
\* before a batch in hand was handled, and what is before the position of a
\* partition was handled or is still in its owner's hand.
OffsetInv ==
  /\ \A q \in Partition : \A n \in 1..committed[q] : DoneAt(q, n)
  /\ \A c \in Consumer, q \in Partition : fetched[c][q].from < fetched[c][q].end =>
       \A n \in 1..fetched[c][q].next : DoneAt(q, n)
  /\ \A q \in Partition : \A n \in 1..position[q] : DoneAt(q, n) \/ InHand(q, n)

\* Handled records stay handled, and their places in the log stay.
LEMMA DoneStays ==
  ASSUME TypeOK, [Next]_vars
  PROVE  /\ processed \subseteq processed' /\ dlq \subseteq dlq'
         /\ \A q \in Partition : \A n \in 1..Len(log[q]) : DoneAt(q, n) => DoneAt(q, n)'
<1>1. processed \subseteq processed' /\ dlq \subseteq dlq'
  <2>1. CASE UNCHANGED <<readVars, dlq>>
    BY <2>1 DEF readVars
  <2>2. ASSUME NEW c \in Consumer, NEW q \in Partition, Handle(c, q)
        PROVE  processed \subseteq processed' /\ dlq \subseteq dlq'
    <3>1. PICK e \in Carried :
            \/ OfTransaction(e) /\ e \in outbox /\ ApplyEvent(e) /\ UNCHANGED dlq
            \/ ~OfTransaction(e) /\ dlq' = dlq \cup {e} /\ UNCHANGED readVars
      BY <2>2, HandleFacts
    <3>. QED BY <3>1, ApplyFacts DEF readVars
  <2>. QED BY <2>1, <2>2, ReadStep
<1>2. ASSUME NEW q \in Partition, NEW n \in 1..Len(log[q]), DoneAt(q, n)
      PROVE  DoneAt(q, n)'
  <2>1. log'[q][n] = log[q][n]
    BY LogStep DEF LogGrows
  <2>. QED BY <1>1, <1>2, <2>1 DEF DoneAt, Done
<1>. QED BY <1>1, <1>2

\* handle leaves its record handled.
LEMMA HandleDone ==
  ASSUME TypeOK, [Next]_vars, NEW c \in Consumer, NEW q \in Partition, Handle(c, q)
  PROVE  \A k : k = fetched[c][q].next + 1 => DoneAt(q, k)'
<1>. DEFINE m == fetched[c][q].next + 1
<1>1. PICK e \in Carried :
        /\ e = log[q][m]
        /\ \/ OfTransaction(e) /\ e \in outbox /\ ApplyEvent(e) /\ UNCHANGED dlq
           \/ ~OfTransaction(e) /\ dlq' = dlq \cup {e} /\ UNCHANGED readVars
  BY HandleFacts
<1>2. e \in processed' \/ e \in dlq'
  BY <1>1, ApplyFacts
<1>3. UNCHANGED log
  BY HandleFacts
<1>4. log'[q][m] = e
  BY <1>1, <1>3
<1>. QED BY <1>2, <1>4 DEF DoneAt, Done

WithinLog(q) == /\ position[q] \in Nat /\ committed[q] \in Nat /\ Len(log[q]) \in Nat
                /\ position[q] <= Len(log[q]) /\ committed[q] <= Len(log[q])
BatchWithinLog(c, q) == /\ fetched[c][q].next \in Nat
                        /\ fetched[c][q].next <= Len(log[q])

\* Offsets and batches end within the log.
LEMMA OffsetsWithinLog ==
  ASSUME TypeOK
  PROVE  /\ \A q \in Partition : WithinLog(q)
         /\ \A c \in Consumer, q \in Partition : BatchWithinLog(c, q)
<1>1. \A q \in Partition : Len(log[q]) \in Nat
  BY LenProperties DEF TypeOK
<1>2. ASSUME NEW c \in Consumer, NEW q \in Partition
      PROVE  BatchWithinLog(c, q)
  BY <1>1 DEF TypeOK, BatchState, BatchOK, BatchWithinLog
<1>. QED BY <1>1, <1>2 DEF TypeOK, WithinLog

\* What is in front of an offset or has been handled of a batch is in the log.
LEMMA IndicesWithinLog ==
  ASSUME TypeOK
  PROVE  /\ \A q \in Partition : \A n \in 1..committed[q] : n \in 1..Len(log[q])
         /\ \A q \in Partition : \A n \in 1..position[q] : n \in 1..Len(log[q])
         /\ \A c \in Consumer, q \in Partition :
              \A n \in 1..fetched[c][q].next : n \in 1..Len(log[q])
<1>1. ASSUME NEW q \in Partition
      PROVE  /\ \A n \in 1..committed[q] : n \in 1..Len(log[q])
             /\ \A n \in 1..position[q] : n \in 1..Len(log[q])
  <2>1. WithinLog(q)
    BY OffsetsWithinLog
  <2>. QED BY <2>1 DEF WithinLog
<1>2. ASSUME NEW c \in Consumer, NEW q \in Partition
      PROVE  \A n \in 1..fetched[c][q].next : n \in 1..Len(log[q])
  <2>1. WithinLog(q) /\ BatchWithinLog(c, q)
    BY OffsetsWithinLog
  <2>. QED BY <2>1 DEF WithinLog, BatchWithinLog
<1>. QED BY <1>1, <1>2

\* A step that leaves offsets and batches alone keeps what they rely on.
LEMMA OffsetsUntouched ==
  ASSUME TypeOK, OffsetInv, [Next]_vars, UNCHANGED consumerVars
  PROVE  OffsetInv'
<1>1. UNCHANGED <<owner, position, committed, fetched>>
  BY DEF consumerVars
<1>3. \A q \in Partition : \A n \in 1..Len(log[q]) : DoneAt(q, n) => DoneAt(q, n)'
  BY DoneStays
<1>4. ASSUME NEW q \in Partition, NEW n \in 1..committed'[q]
      PROVE  DoneAt(q, n)'
  <2>1. n \in 1..committed[q]
    BY <1>1
  <2>2. DoneAt(q, n)
    BY <2>1 DEF OffsetInv
  <2>. QED BY <1>3, <2>1, <2>2, IndicesWithinLog
<1>5. ASSUME NEW c \in Consumer, NEW q \in Partition, fetched'[c][q].from < fetched'[c][q].end,
             NEW n \in 1..fetched'[c][q].next
      PROVE  DoneAt(q, n)'
  <2>1. fetched[c][q].from < fetched[c][q].end /\ n \in 1..fetched[c][q].next
    BY <1>1, <1>5
  <2>2. DoneAt(q, n)
    BY <2>1 DEF OffsetInv
  <2>. QED BY <1>3, <2>1, <2>2, IndicesWithinLog
<1>6. ASSUME NEW q \in Partition, NEW n \in 1..position'[q]
      PROVE  DoneAt(q, n)' \/ InHand(q, n)'
  <2>1. n \in 1..position[q]
    BY <1>1
  <2>2. DoneAt(q, n) \/ InHand(q, n)
    BY <2>1 DEF OffsetInv
  <2>3. InHand(q, n) => InHand(q, n)'
    BY <1>1 DEF InHand
  <2>. QED BY <1>3, <2>1, <2>2, <2>3, IndicesWithinLog
<1>. QED BY <1>4, <1>5, <1>6 DEF OffsetInv

\* A batch read from a position starts behind handled records only.
LEMMA PollKeepsOffsets ==
  ASSUME TypeOK, OffsetInv, [Next]_vars, NEW c \in Consumer, Poll(c)
  PROVE  OffsetInv'
<1>1. /\ \A q \in Partition : position[q] <= position'[q]
      /\ \A q \in Partition : owner[q] # c => position'[q] = position[q]
      /\ UNCHANGED <<log, owner, committed, dlq, processed>>
      /\ fetched' = [fetched EXCEPT ![c] =
           [q \in Partition |-> [from |-> position[q], next |-> position[q],
                                 end |-> position'[q]]]]
      /\ position' \in [Partition -> Nat]
  BY PollFacts DEF readVars
<1>2. \A d \in Consumer, q \in Partition :
        fetched'[d][q] = IF d = c THEN [from |-> position[q], next |-> position[q],
                                        end |-> position'[q]]
                         ELSE fetched[d][q]
  BY <1>1 DEF TypeOK
<1>3. /\ position \in [Partition -> Nat] /\ owner \in [Partition -> Consumer]
      /\ \A q \in Partition : fetched[c][q].next \in Nat /\ fetched[c][q].end \in Nat
  BY DEF TypeOK, BatchState
<1>4. \A q \in Partition : \A n : DoneAt(q, n)' <=> DoneAt(q, n)
  BY <1>1 DEF DoneAt, Done
<1>5. ASSUME NEW q \in Partition, owner[q] = c, NEW n \in 1..position[q]
      PROVE  DoneAt(q, n)
  <2>1. fetched[c][q].end <= fetched[c][q].next
    <3>1. ~InBatch(c)
      BY DEF Poll
    <3>2. ~(fetched[c][q].next < fetched[c][q].end)
      BY <3>1 DEF InBatch, Left
    <3>. QED BY <1>3, <3>2
  <2>2. ~InHand(q, n)
    BY <1>3, <1>5, <2>1 DEF InHand
  <2>. QED BY <2>2 DEF OffsetInv
<1>6. ASSUME NEW d \in Consumer, NEW q \in Partition, fetched'[d][q].from < fetched'[d][q].end,
             NEW n \in 1..fetched'[d][q].next
      PROVE  DoneAt(q, n)'
  <2>1. CASE d = c
    <3>1. position[q] < position'[q] /\ n \in 1..position[q]
      <4>1. fetched'[d][q] = [from |-> position[q], next |-> position[q], end |-> position'[q]]
        BY <1>2, <2>1
      <4>2. /\ fetched'[d][q].from = position[q] /\ fetched'[d][q].next = position[q]
            /\ fetched'[d][q].end = position'[q]
        BY <4>1
      <4>. QED BY <1>6, <4>2
    <3>2. owner[q] = c
      BY <1>1, <1>3, <3>1
    <3>. QED BY <1>4, <1>5, <3>1, <3>2
  <2>2. CASE d # c
    BY <1>2, <1>4, <1>6, <2>2 DEF OffsetInv
  <2>. QED BY <2>1, <2>2
<1>7. ASSUME NEW q \in Partition, NEW n \in 1..position'[q]
      PROVE  DoneAt(q, n)' \/ InHand(q, n)'
  <2>1. CASE owner[q] = c
    <3>1. fetched'[owner'[q]][q] = [from |-> position[q], next |-> position[q],
                                    end |-> position'[q]]
      BY <1>1, <1>2, <1>3, <2>1
    <3>2. n \in 1..position[q] \/ InHand(q, n)'
      BY <1>1, <1>3, <3>1 DEF InHand
    <3>. QED BY <1>4, <1>5, <2>1, <3>2
  <2>2. CASE owner[q] # c
    <3>1. fetched'[owner'[q]][q] = fetched[owner[q]][q] /\ n \in 1..position[q]
      BY <1>1, <1>2, <1>3, <2>2
    <3>2. DoneAt(q, n) \/ InHand(q, n)
      BY <3>1 DEF OffsetInv
    <3>. QED BY <1>4, <3>1, <3>2 DEF InHand
  <2>. QED BY <2>1, <2>2
<1>8. \A q \in Partition : \A n \in 1..committed'[q] : DoneAt(q, n)'
  BY <1>1, <1>4 DEF OffsetInv
<1>. QED BY <1>6, <1>7, <1>8 DEF OffsetInv

\* handle moves one record of a batch from in hand to handled.
LEMMA HandleKeepsOffsets ==
  ASSUME TypeOK, OffsetInv, [Next]_vars, NEW c \in Consumer, NEW r \in Partition, Handle(c, r)
  PROVE  OffsetInv'
<1>. DEFINE old == fetched[c][r]
<1>1. /\ old.next \in Nat /\ old.from \in Nat /\ old.end \in Nat /\ old.next < old.end
      /\ UNCHANGED <<log, owner, position, committed>>
      /\ fetched' = [fetched EXCEPT ![c][r].next = @ + 1]
      /\ old.from <= old.next
  BY HandleFacts DEF TypeOK, BatchState, BatchOK
<1>2. /\ position \in [Partition -> Nat] /\ committed \in [Partition -> Nat]
      /\ owner \in [Partition -> Consumer]
      /\ fetched \in [Consumer -> [Partition -> BatchState]]
  BY DEF TypeOK
<1>3. /\ \A d \in Consumer, q \in Partition : d # c \/ q # r => fetched'[d][q] = fetched[d][q]
      /\ fetched'[c][r].from = old.from /\ fetched'[c][r].end = old.end
      /\ fetched'[c][r].next = old.next + 1
  <2>1. fetched[c] \in [Partition -> BatchState] /\ old \in BatchState
    BY <1>2
  <2>2. fetched' = [fetched EXCEPT ![c] = [fetched[c] EXCEPT ![r] = [old EXCEPT !.next = @ + 1]]]
    BY <1>1
  <2>3. fetched'[c] = [fetched[c] EXCEPT ![r] = [old EXCEPT !.next = @ + 1]]
    BY <1>2, <2>2
  <2>4. \A d \in Consumer : d # c => fetched'[d] = fetched[d]
    BY <1>2, <2>2
  <2>5. fetched'[c][r] = [old EXCEPT !.next = @ + 1]
    BY <2>1, <2>3
  <2>6. \A q \in Partition : q # r => fetched'[c][q] = fetched[c][q]
    BY <2>1, <2>3
  <2>7. /\ fetched'[c][r].from = old.from /\ fetched'[c][r].end = old.end
        /\ fetched'[c][r].next = old.next + 1
    BY <2>1, <2>5 DEF BatchState
  <2>. QED BY <2>4, <2>6, <2>7
<1>. HIDE DEF old
<1>4. \A q \in Partition : \A n \in 1..Len(log[q]) : DoneAt(q, n) => DoneAt(q, n)'
  BY DoneStays
<1>7. \A k : k = old.next + 1 => DoneAt(r, k)'
  BY HandleDone DEF old
<1>8. \A q \in Partition : \A n \in 1..committed'[q] : DoneAt(q, n)'
  <2>1. \A q \in Partition : \A n \in 1..committed[q] : DoneAt(q, n)
    BY DEF OffsetInv
  <2>2. \A q \in Partition : \A n \in 1..committed[q] : DoneAt(q, n)'
    BY <1>4, <2>1, IndicesWithinLog
  <2>. QED BY <1>1, <2>2
<1>9. ASSUME NEW d \in Consumer, NEW q \in Partition, fetched'[d][q].from < fetched'[d][q].end,
             NEW n \in 1..fetched'[d][q].next
      PROVE  DoneAt(q, n)'
  <2>1. CASE d = c /\ q = r
    <3>1. old.from < old.end
      BY <1>1, <1>3
    <3>2. n = old.next + 1 \/ n \in 1..old.next
      BY <1>1, <1>3, <1>9, <2>1
    <3>3. \A k \in 1..old.next : DoneAt(r, k)
      BY <3>1 DEF OffsetInv, old
    <3>4. \A k \in 1..old.next : k \in 1..Len(log[r])
      BY IndicesWithinLog DEF old
    <3>. QED BY <1>4, <1>7, <2>1, <3>2, <3>3, <3>4
  <2>2. CASE d # c \/ q # r
    <3>1. fetched[d][q].from < fetched[d][q].end /\ n \in 1..fetched[d][q].next
      BY <1>3, <1>9, <2>2
    <3>2. DoneAt(q, n)
      BY <3>1 DEF OffsetInv
    <3>. QED BY <1>4, <3>1, <3>2, IndicesWithinLog
  <2>. QED BY <2>1, <2>2
<1>10. ASSUME NEW q \in Partition, NEW n \in 1..position'[q]
       PROVE  DoneAt(q, n)' \/ InHand(q, n)'
  <2>0. n \in 1..position[q]
    BY <1>1
  <2>1. n \in 1..Len(log[q])
    BY <2>0, IndicesWithinLog
  <2>2. DoneAt(q, n) \/ InHand(q, n)
    BY <2>0 DEF OffsetInv
  <2>3. CASE owner[q] = c /\ q = r /\ InHand(q, n)
    <3>1. old.next < n /\ n <= old.end
      BY <2>3 DEF InHand, old
    <3>2. n = old.next + 1 \/ old.next + 1 < n
      BY <1>1, <3>1
    <3>3. CASE n = old.next + 1
      BY <1>7, <2>3, <3>3
    <3>4. CASE old.next + 1 < n
      <4>1. fetched'[owner'[q]][q].next < n /\ n <= fetched'[owner'[q]][q].end
        BY <1>1, <1>3, <2>3, <3>1, <3>4
      <4>. QED BY <4>1 DEF InHand
    <3>. QED BY <3>2, <3>3, <3>4
  <2>4. CASE ~(owner[q] = c /\ q = r) /\ InHand(q, n)
    <3>1. fetched'[owner'[q]][q] = fetched[owner[q]][q]
      BY <1>1, <1>2, <1>3, <2>4
    <3>. QED BY <2>4, <3>1 DEF InHand
  <2>. QED BY <1>4, <2>1, <2>2, <2>3, <2>4
<1>. QED BY <1>8, <1>9, <1>10 DEF OffsetInv

\* CommitRecords commits what the batch has handled, and leaves nothing in hand.
LEMMA CommitKeepsOffsets ==
  ASSUME TypeOK, OffsetInv, NEW c \in Consumer, CommitRecords(c)
  PROVE  OffsetInv'
<1>1. /\ UNCHANGED <<log, owner, position, dlq, processed>>
      /\ fetched' = [fetched EXCEPT ![c] = Nowhere]
      /\ \A q \in Partition : ~Left(c, q)
  BY DEF CommitRecords, kafkaVars, readVars
<1>2. PICK ok \in SUBSET {q \in Partition : Handled(c, q)} :
        committed' = [q \in Partition |-> IF q \in ok THEN fetched[c][q].next ELSE committed[q]]
  BY DEF CommitRecords
<1>3. \A q \in Partition : \A n : DoneAt(q, n)' <=> DoneAt(q, n)
  BY <1>1 DEF DoneAt, Done
<1>4. owner \in [Partition -> Consumer] /\ fetched \in [Consumer -> [Partition -> BatchState]]
  BY DEF TypeOK
<1>5. \A d \in Consumer, q \in Partition :
        fetched'[d][q] = IF d = c THEN [from |-> 0, next |-> 0, end |-> 0] ELSE fetched[d][q]
  BY <1>1, <1>4, NowhereFacts
<1>6. ASSUME NEW q \in Partition, NEW n \in 1..committed'[q]
      PROVE  DoneAt(q, n)'
  <2>1. CASE q \in ok
    <3>1. Handled(c, q) /\ BatchOK(c, q) /\ fetched[c][q] \in BatchState
      BY <1>4, <2>1 DEF TypeOK
    <3>2. fetched[c][q].from < fetched[c][q].end
      BY <3>1 DEF Handled, BatchOK, BatchState
    <3>3. n \in 1..fetched[c][q].next
      BY <1>2, <2>1
    <3>. QED BY <1>3, <3>2, <3>3 DEF OffsetInv
  <2>2. CASE q \notin ok
    BY <1>2, <1>3, <2>2 DEF OffsetInv
  <2>. QED BY <2>1, <2>2
<1>7. ASSUME NEW d \in Consumer, NEW q \in Partition, fetched'[d][q].from < fetched'[d][q].end,
             NEW n \in 1..fetched'[d][q].next
      PROVE  DoneAt(q, n)'
  <2>1. CASE d = c
    <3>1. fetched'[d][q] = [from |-> 0, next |-> 0, end |-> 0]
      BY <1>5, <2>1
    <3>2. fetched'[d][q].from = 0 /\ fetched'[d][q].end = 0
      BY <3>1
    <3>. QED BY <1>7, <3>2
  <2>2. CASE d # c
    <3>1. fetched'[d][q] = fetched[d][q]
      BY <1>5, <2>2
    <3>2. DoneAt(q, n)
      BY <1>7, <3>1 DEF OffsetInv
    <3>. QED BY <1>3, <3>2
  <2>. QED BY <2>1, <2>2
<1>8. ASSUME NEW q \in Partition, NEW n \in 1..position'[q]
      PROVE  DoneAt(q, n)' \/ InHand(q, n)'
  <2>1. DoneAt(q, n) \/ InHand(q, n)
    BY <1>1 DEF OffsetInv
  <2>2. CASE owner[q] = c
    <3>1. fetched[c][q].next \in Nat /\ fetched[c][q].end \in Nat
      BY <1>4 DEF BatchState
    <3>2. ~(fetched[c][q].next < fetched[c][q].end)
      BY <1>1 DEF Left
    <3>3. n \in Int
      OBVIOUS
    <3>4. ~InHand(q, n)
      BY <2>2, <3>1, <3>2, <3>3 DEF InHand
    <3>. QED BY <1>3, <2>1, <3>4
  <2>3. CASE owner[q] # c
    <3>1. fetched'[owner'[q]][q] = fetched[owner[q]][q]
      BY <1>1, <1>4, <1>5, <2>3
    <3>. QED BY <1>3, <2>1, <3>1 DEF InHand
  <2>. QED BY <2>2, <2>3
<1>. QED BY <1>6, <1>7, <1>8 DEF OffsetInv

\* A consumer that starts again at the committed offsets skips nothing.
LEMMA CrashKeepsOffsets ==
  ASSUME TypeOK, OffsetInv, NEW c \in Consumer, Crash(c)
  PROVE  OffsetInv'
<1>1. /\ UNCHANGED <<log, owner, committed, dlq, processed>>
      /\ fetched' = [fetched EXCEPT ![c] = Nowhere]
      /\ position' = [q \in Partition |-> IF owner[q] = c THEN committed[q] ELSE position[q]]
  BY DEF Crash, kafkaVars, readVars
<1>2. \A q \in Partition : \A n : DoneAt(q, n)' <=> DoneAt(q, n)
  BY <1>1 DEF DoneAt, Done
<1>3. owner \in [Partition -> Consumer] /\ fetched \in [Consumer -> [Partition -> BatchState]]
  BY DEF TypeOK
<1>4. \A d \in Consumer, q \in Partition :
        fetched'[d][q] = IF d = c THEN [from |-> 0, next |-> 0, end |-> 0] ELSE fetched[d][q]
  BY <1>1, <1>3, NowhereFacts
<1>5. \A q \in Partition : \A n \in 1..committed'[q] : DoneAt(q, n)'
  BY <1>1, <1>2 DEF OffsetInv
<1>6. ASSUME NEW d \in Consumer, NEW q \in Partition, fetched'[d][q].from < fetched'[d][q].end,
             NEW n \in 1..fetched'[d][q].next
      PROVE  DoneAt(q, n)'
  <2>1. CASE d = c
    <3>1. fetched'[d][q] = [from |-> 0, next |-> 0, end |-> 0]
      BY <1>4, <2>1
    <3>2. fetched'[d][q].from = 0 /\ fetched'[d][q].end = 0
      BY <3>1
    <3>. QED BY <1>6, <3>2
  <2>2. CASE d # c
    <3>1. fetched'[d][q] = fetched[d][q]
      BY <1>4, <2>2
    <3>2. DoneAt(q, n)
      BY <1>6, <3>1 DEF OffsetInv
    <3>. QED BY <1>2, <3>2
  <2>. QED BY <2>1, <2>2
<1>7. ASSUME NEW q \in Partition, NEW n \in 1..position'[q]
      PROVE  DoneAt(q, n)' \/ InHand(q, n)'
  <2>1. CASE owner[q] = c
    BY <1>1, <1>2, <2>1 DEF OffsetInv
  <2>2. CASE owner[q] # c
    <3>1. DoneAt(q, n) \/ InHand(q, n)
      BY <1>1, <2>2 DEF OffsetInv
    <3>2. fetched'[owner'[q]][q] = fetched[owner[q]][q]
      BY <1>1, <1>3, <1>4, <2>2
    <3>. QED BY <1>2, <3>1, <3>2 DEF InHand
  <2>. QED BY <2>1, <2>2
<1>. QED BY <1>5, <1>6, <1>7 DEF OffsetInv

\* So does the new owner of a partition.
LEMMA RebalanceKeepsOffsets ==
  ASSUME TypeOK, OffsetInv, NEW c \in Consumer, NEW r \in Partition, Rebalance(r, c)
  PROVE  OffsetInv'
<1>1. /\ UNCHANGED <<log, committed, fetched, dlq, processed>>
      /\ owner' = [owner EXCEPT ![r] = c]
      /\ position' = [position EXCEPT ![r] = committed[r]]
  BY DEF Rebalance, kafkaVars, readVars
<1>2. \A q \in Partition : \A n : DoneAt(q, n)' <=> DoneAt(q, n)
  BY <1>1 DEF DoneAt, Done
<1>3. /\ owner \in [Partition -> Consumer] /\ position \in [Partition -> Nat]
  BY DEF TypeOK
<1>4. \A q \in Partition : \A n \in 1..committed'[q] : DoneAt(q, n)'
  BY <1>1, <1>2 DEF OffsetInv
<1>5. \A d \in Consumer, q \in Partition : fetched'[d][q].from < fetched'[d][q].end =>
        \A n \in 1..fetched'[d][q].next : DoneAt(q, n)'
  BY <1>1, <1>2 DEF OffsetInv
<1>6. ASSUME NEW q \in Partition, NEW n \in 1..position'[q]
      PROVE  DoneAt(q, n)' \/ InHand(q, n)'
  <2>1. CASE q = r
    BY <1>1, <1>2, <1>3, <2>1 DEF OffsetInv
  <2>2. CASE q # r
    <3>1. owner'[q] = owner[q] /\ position'[q] = position[q]
      BY <1>1, <1>3, <2>2
    <3>2. DoneAt(q, n) \/ InHand(q, n)
      BY <3>1 DEF OffsetInv
    <3>. QED BY <1>1, <1>2, <3>1, <3>2 DEF InHand
  <2>. QED BY <2>1, <2>2
<1>. QED BY <1>4, <1>5, <1>6 DEF OffsetInv

\* One case per action; without transient errors no batch is broken off.
LEMMA OffsetStep ==
  ASSUME MaxTransient = 0
  PROVE  TypeOK /\ OffsetInv /\ [Next]_vars => OffsetInv'
<1>. SUFFICES ASSUME TypeOK, OffsetInv, [Next]_vars
              PROVE  OffsetInv'
  OBVIOUS
<1>1. ASSUME UNCHANGED consumerVars
      PROVE  OffsetInv'
  BY <1>1, OffsetsUntouched
<1>2. ASSUME NEW c \in Consumer, Consume(c)
      PROVE  OffsetInv'
  BY <1>2, PollKeepsOffsets, HandleKeepsOffsets, CommitKeepsOffsets DEF Consume
<1>3. ASSUME NEW c \in Consumer, Break(c)
      PROVE  FALSE
  <2>1. transients \in Nat /\ transients < MaxTransient
    BY <1>3 DEF TypeOK, Break
  <2>. QED BY <2>1
<1>4. ASSUME NEW x \in TxId, Commit(x)
      PROVE  UNCHANGED consumerVars
  BY <1>4 DEF Commit
<1>5. ASSUME NEW i \in Foreign, NEW q \in Partition, ForeignEvent(i, q)
      PROVE  UNCHANGED consumerVars
  BY <1>5 DEF ForeignEvent
<1>6. ASSUME NEW p \in Publisher, Publish(p) \/ PublishFails(p)
      PROVE  UNCHANGED consumerVars
  BY <1>6 DEF Publish, PublishFails, Claim, Produce, MarkPublished
<1>7. ASSUME UNCHANGED vars
      PROVE  UNCHANGED consumerVars
  BY <1>7 DEF vars, consumerVars
<1>. QED BY <1>1, <1>2, <1>3, <1>4, <1>5, <1>6, <1>7,
            CrashKeepsOffsets, RebalanceKeepsOffsets DEF Next

\* "An offset must never be committed ahead of the local database transaction
\* that recorded having handled it": true of processBatch for any number of
\* consumers and partitions, through crashes, rebalances and lost offset commits,
\* as long as handle meets no transient error.
THEOREM CommittedIsHandled ==
  ASSUME MaxTransient = 0
  PROVE  Spec => []CommittedMeansHandled
<1>1. Init => OffsetInv
  <2>. SUFFICES ASSUME Init PROVE OffsetInv
    OBVIOUS
  <2>1. /\ \A q \in Partition : position[q] = 0 /\ committed[q] = 0
        /\ \A c \in Consumer, q \in Partition : fetched[c][q] = [from |-> 0, next |-> 0, end |-> 0]
    BY NowhereFacts DEF Init
  <2>2. \A q \in Partition : 1..position[q] = {} /\ 1..committed[q] = {}
    BY <2>1
  <2>3. \A c \in Consumer, q \in Partition : ~(fetched[c][q].from < fetched[c][q].end)
    BY <2>1
  <2>. QED BY <2>2, <2>3 DEF OffsetInv
<1>2. OffsetInv => CommittedMeansHandled
  BY DEF OffsetInv, CommittedMeansHandled, DoneAt
<1>3. BaseInv => TypeOK
  BY DEF BaseInv
<1>. QED BY <1>1, <1>2, <1>3, OffsetStep, PipelineInvariant, PTL DEF Spec
=============================================================================
