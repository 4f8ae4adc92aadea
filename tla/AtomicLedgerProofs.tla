------------------------- MODULE AtomicLedgerProofs -------------------------
(***************************************************************************)
(* Proofs that every behaviour of AtomicLedger keeps its safety properties,*)
(* for any accounts, requests, keys and number of transactions.            *)
(***************************************************************************)
EXTENDS AtomicLedger, TLAPS

(* What the properties need to be inductive: a transaction that has not    *)
(* posted has left no trace, neither a key, nor a reversal, nor an event.  *)
NoTrace ==
  /\ \A x \in TxId : transactions[x].status = "NONE" => transactions[x] = NoTransaction
  /\ \A e \in BalanceEvent : transactions[e.tx].status # "NONE"

AtomicInv == /\ DbTypeOK
        /\ NoTrace
        /\ NoOverdraft
        /\ ReversedOnce
        /\ OneTransactionPerKey
        /\ EventsTellHistory

-----------------------------------------------------------------------------
(* The legs of a transaction                                               *)

\* signedAmount is an integer, and an account without entries does not move.
LEMMA DeltaFacts ==
  ASSUME NEW l \in AnyLegs, NEW a \in Account
  PROVE  /\ Delta(l, a) \in Int
         /\ a \notin Touched(l) => Delta(l, a) = 0
BY DEF AnyLegs, Side, Delta, Touched

\* Mirrored legs are legs.
LEMMA MirrorType ==
  ASSUME NEW l \in AnyLegs
  PROVE  Mirror(l) \in AnyLegs
BY DEF AnyLegs, Side, Mirror

\* Routed legs are legs.
LEMMA RoutedType ==
  ASSUME NEW l \in Legs, NEW chosen \in Routings
  PROVE  RoutedLegs(l, chosen) \in AnyLegs
<1>1. ASSUME NEW side \in Side
      PROVE  RoutedSide(side, chosen) \in Side
  <2>1. ASSUME NEW a \in Account, ParentOf[a] # None
        PROVE  ParentOf[a] \in Account
    BY <2>1, ChartAssumption
  <2>. QED BY <2>1 DEF RoutedSide, Side
<1>. QED BY <1>1 DEF RoutedLegs, Legs, AnyLegs

-----------------------------------------------------------------------------
(* The events of a transaction                                             *)

\* Every event appendTransactionEvent writes carries new rows of the
\* transaction, and every new row is carried by one.
LEMMA EventFacts ==
  ASSUME NEW x, NEW reverses, NEW D, NEW balances \in [D -> BalanceRow]
  PROVE  /\ \A e \in TransactionEvents(x, reverses, balances) :
              /\ e.type # "AccountCreated"
              /\ e.tx = x
              /\ DOMAIN e.balances \subseteq D
              /\ e.balances \in [DOMAIN e.balances -> BalanceRow]
              /\ \A a \in DOMAIN e.balances : e.balances[a] = balances[a]
         /\ \A a \in D : \E e \in TransactionEvents(x, reverses, balances) :
                           a \in DOMAIN e.balances
<1>1. ASSUME NEW e \in TransactionEvents(x, reverses, balances)
      PROVE  /\ e.type # "AccountCreated"
             /\ e.tx = x
             /\ DOMAIN e.balances \subseteq D
             /\ e.balances \in [DOMAIN e.balances -> BalanceRow]
             /\ \A a \in DOMAIN e.balances : e.balances[a] = balances[a]
  <2>1. CASE e = [type |-> IF reverses = None THEN "TransactionPosted"
                           ELSE "TransactionReversed",
                  tx |-> x, balances |-> balances]
    BY <2>1
  <2>2. CASE \E a \in D : e = [type |-> "BalanceUpdated", tx |-> x,
                               balances |-> [b \in {a} |-> balances[a]]]
    <3>1. PICK a \in D : e = [type |-> "BalanceUpdated", tx |-> x,
                              balances |-> [b \in {a} |-> balances[a]]]
      BY <2>2
    <3>2. e.balances = [b \in {a} |-> balances[a]] /\ e.tx = x /\ e.type = "BalanceUpdated"
      BY <3>1
    <3>. QED BY <3>2
  <2>. QED BY <2>1, <2>2 DEF TransactionEvents
<1>2. ASSUME NEW a \in D
      PROVE  \E e \in TransactionEvents(x, reverses, balances) : a \in DOMAIN e.balances
  <2>. DEFINE e == [type |-> IF reverses = None THEN "TransactionPosted"
                             ELSE "TransactionReversed",
                    tx |-> x, balances |-> balances]
  <2>1. e \in TransactionEvents(x, reverses, balances)
    BY DEF TransactionEvents
  <2>2. a \in DOMAIN e.balances
    OBVIOUS
  <2>. HIDE DEF e
  <2>. QED BY <2>1, <2>2
<1>. QED BY <1>1, <1>2

-----------------------------------------------------------------------------
(* The invariant is inductive                                              *)

\* The empty ledger satisfies the invariant.
LEMMA InitAtomicInv == AtomicInit => AtomicInv
<1>. SUFFICES ASSUME AtomicInit PROVE AtomicInv
  OBVIOUS
<1>1. DbTypeOK
  BY AccountAssumption DEF AtomicInit, DbTypeOK, Status, NoTransaction, NoLegs, Nothing,
     AnyLegs, Side
<1>2. NoTrace /\ ReversedOnce /\ OneTransactionPerKey
  BY DEF AtomicInit, NoTrace, ReversedOnce, OneTransactionPerKey, NoTransaction, BalanceEvent
<1>3. NoOverdraft
  BY MaxMinorAssumption DEF AtomicInit, NoOverdraft, Storable
<1>4. EventsTellHistory
  BY DEF AtomicInit, EventsTellHistory, BalanceEvent
<1>. QED BY <1>1, <1>2, <1>3, <1>4 DEF AtomicInv

\* A transaction or a reversal that takes effect keeps the invariant.
LEMMA ApplyKeepsInv ==
  ASSUME AtomicInv,
         NEW x \in TxId, NEW l \in AnyLegs, NEW key \in Key \cup {None},
         NEW reverses \in TxId \cup {None},
         reverses # None => /\ transactions[reverses].status = "POSTED"
                            /\ l = Mirror(journal[reverses]),
         Apply(x, l, key, reverses)
  PROVE  AtomicInv'
<1>. DEFINE N == TransactionEvents(x, reverses, NewRows(l))
<1>. USE DEF AtomicInv
<1>1. NewRows(l) \in [Touched(l) -> BalanceRow]
  BY DeltaFacts DEF NewRows, DbTypeOK, BalanceRow, Touched
<1>2. /\ \A e \in N : /\ e.type # "AccountCreated"
                      /\ e.tx = x
                      /\ DOMAIN e.balances \subseteq Touched(l)
                      /\ e.balances \in [DOMAIN e.balances -> BalanceRow]
                      /\ \A a \in DOMAIN e.balances : e.balances[a] = NewRows(l)[a]
      /\ \A a \in Touched(l) : \E e \in N : a \in DOMAIN e.balances
  BY <1>1, EventFacts
<1>3. outbox' = outbox \cup N
  BY DEF Apply
<1>. HIDE DEF N
<1>4. BalanceEvent' = BalanceEvent \cup N
  BY <1>2, <1>3 DEF BalanceEvent
<1>5. /\ x # reverses
      /\ transactions[x] = NoTransaction
      /\ transactions'[x] = [status |-> "POSTED", key |-> key, reverses |-> reverses]
      /\ \A y \in TxId \ {x} : /\ transactions'[y].key = transactions[y].key
                               /\ transactions'[y].reverses = transactions[y].reverses
                               /\ transactions'[y].status = IF y = reverses THEN "REVERSED"
                                                            ELSE transactions[y].status
                               /\ journal'[y] = journal[y]
      /\ journal'[x] = l
  BY NoneAssumption DEF Apply, DbTypeOK, NoTrace
<1>6. DbTypeOK'
  <2>1. available' \in [Account -> Int] /\ version' \in [Account -> Nat]
    BY DeltaFacts DEF Apply, DbTypeOK
  <2>2. /\ status' \in [Account -> Status \cup {"NONE"}]
        /\ journal' \in [TxId -> AnyLegs]
    BY DEF Apply, DbTypeOK
  <2>3. transactions' \in [TxId -> [status : {"NONE", "POSTED", "REVERSED"},
                                   key : Key \cup {None}, reverses : TxId \cup {None}]]
    BY DEF Apply, DbTypeOK
  <2>4. ASSUME NEW e \in outbox', e.type # "AccountCreated"
        PROVE  /\ e.tx \in TxId
               /\ DOMAIN e.balances \subseteq Account
               /\ e.balances \in [DOMAIN e.balances -> BalanceRow]
    BY <1>2, <1>3, <2>4 DEF DbTypeOK, Touched
  <2>. QED BY <2>1, <2>2, <2>3, <2>4 DEF DbTypeOK
<1>7. NoTrace'
  <2>1. \A y \in TxId : transactions'[y].status = "NONE" => transactions'[y] = NoTransaction
    BY <1>5, NoneAssumption DEF Apply, NoTrace
  <2>2. \A e \in BalanceEvent : e.tx \in TxId /\ transactions[e.tx].status # "NONE"
    BY DEF NoTrace, BalanceEvent, DbTypeOK
  <2>3. \A e \in BalanceEvent \cup N : transactions'[e.tx].status # "NONE"
    BY <1>2, <1>5, <2>2
  <2>. QED BY <1>4, <2>1, <2>3 DEF NoTrace
<1>8. NoOverdraft'
  <2>. SUFFICES ASSUME NEW a \in Account PROVE Storable(a, available'[a])
    BY DEF NoOverdraft, Storable
  <2>1. CASE a \in Touched(l)
    BY <2>1 DEF Apply
  <2>2. CASE a \notin Touched(l)
    BY <2>2, DeltaFacts DEF Apply, NoOverdraft, DbTypeOK
  <2>. QED BY <2>1, <2>2
<1>9. OneTransactionPerKey'
  <2>. SUFFICES ASSUME NEW y \in TxId, NEW z \in TxId,
                       transactions'[y].key # None,
                       transactions'[y].key = transactions'[z].key
                PROVE  y = z
    BY DEF OneTransactionPerKey
  <2>1. key # None => \A t \in TxId : transactions[t].key # key
    BY DEF Apply
  <2>. QED BY <1>5, <2>1 DEF OneTransactionPerKey
<1>10. ReversedOnce'
  <2>1. ASSUME NEW y \in TxId, transactions'[y].status = "REVERSED"
        PROVE  \E z \in TxId : transactions'[z].reverses = y
    <3>1. CASE y = reverses
      BY <1>5, <3>1
    <3>2. CASE y # reverses
      <4>1. PICK z \in TxId : transactions[z].reverses = y
        BY <1>5, <2>1, <3>2 DEF ReversedOnce
      <4>2. z # x
        BY <1>5, <4>1, NoneAssumption DEF NoTransaction
      <4>. QED BY <1>5, <4>1, <4>2
    <3>. QED BY <3>1, <3>2
  <2>2. ASSUME NEW y \in TxId, NEW o \in TxId, transactions'[y].reverses = o
        PROVE  /\ transactions'[o].status = "REVERSED"
               /\ journal'[y] = Mirror(journal'[o])
               /\ \A z \in TxId : transactions'[z].reverses = o => z = y
    <3>1. CASE y = x
      <4>1. o = reverses /\ transactions[o].status = "POSTED"
        BY <1>5, <2>2, <3>1, NoneAssumption
      <4>2. \A z \in TxId : transactions[z].reverses # o
        BY <4>1, NoneAssumption DEF ReversedOnce
      <4>3. transactions'[o].status = "REVERSED" /\ journal'[y] = Mirror(journal'[o])
        BY <1>5, <3>1, <4>1, NoneAssumption
      <4>4. ASSUME NEW z \in TxId, transactions'[z].reverses = o
            PROVE  z = y
        BY <1>5, <3>1, <4>2, <4>4
      <4>. QED BY <4>3, <4>4
    <3>2. CASE y # x
      <4>1. /\ transactions[y].reverses = o
            /\ transactions[o].status = "REVERSED"
            /\ journal[y] = Mirror(journal[o])
            /\ \A z \in TxId : transactions[z].reverses = o => z = y
        BY <1>5, <2>2, <3>2, NoneAssumption DEF ReversedOnce
      <4>2. o # x /\ o # reverses
        BY <1>5, <4>1, NoneAssumption DEF NoTransaction
      <4>3. transactions'[o].status = "REVERSED" /\ journal'[y] = Mirror(journal'[o])
        BY <1>5, <3>2, <4>1, <4>2
      <4>4. ASSUME NEW z \in TxId, transactions'[z].reverses = o
            PROVE  z = y
        BY <1>5, <4>1, <4>2, <4>4
      <4>. QED BY <4>3, <4>4
    <3>. QED BY <3>1, <3>2
  <2>3. \A y \in TxId : transactions'[y].reverses \in TxId \cup {None}
    BY <1>6 DEF DbTypeOK
  <2>. QED BY <2>1, <2>2, <2>3 DEF ReversedOnce
<1>11. EventsTellHistory'
  <2>. SUFFICES ASSUME NEW a \in Account
       PROVE  /\ \A v \in 1..version'[a] : \E e \in BalanceEvent' : Reports(e, a, v)
              /\ version'[a] = 0 => available'[a] = 0
              /\ \A e \in BalanceEvent' : a \in DOMAIN e.balances =>
                   LET v == e.balances[a].version IN
                   /\ v \in 1..version'[a]
                   /\ v = version'[a] => e.balances[a].available = available'[a]
                   /\ v = 1 => e.balances[a].available = Delta(journal'[e.tx], a)
                   /\ \A f \in BalanceEvent' :
                        /\ Reports(f, a, v) =>
                             /\ f.tx = e.tx
                             /\ f.balances[a].available = e.balances[a].available
                        /\ Reports(f, a, v + 1) =>
                             f.balances[a].available
                               = e.balances[a].available + Delta(journal'[f.tx], a)
    BY DEF EventsTellHistory, Reports, Delta
  <2>1. \A e \in BalanceEvent : /\ e.tx \in TxId /\ e.tx # x
                               /\ journal'[e.tx] = journal[e.tx]
    BY <1>5 DEF NoTrace, BalanceEvent, DbTypeOK, NoTransaction
  <2>2. /\ version[a] \in Nat /\ available[a] \in Int
        /\ Delta(l, a) \in Int
        /\ available'[a] = available[a] + Delta(l, a)
        /\ \A e \in BalanceEvent : a \in DOMAIN e.balances =>
             e.balances[a].version \in Nat /\ e.balances[a].available \in Int
    BY DeltaFacts DEF Apply, DbTypeOK, BalanceEvent, BalanceRow
  <2>3. CASE a \notin Touched(l)
    <3>1. version'[a] = version[a] /\ available'[a] = available[a]
      BY <2>2, <2>3, DeltaFacts DEF Apply
    <3>2. \A e \in N : a \notin DOMAIN e.balances
      BY <1>2, <2>3
    <3>. QED BY <1>4, <2>1, <3>1, <3>2 DEF EventsTellHistory, Reports
  <2>4. CASE a \in Touched(l)
    <3>1. /\ version'[a] = version[a] + 1
          /\ NewRows(l)[a].version = version'[a]
          /\ NewRows(l)[a].available = available'[a]
      BY <2>2, <2>4 DEF Apply, NewRows
    <3>2. \A e \in N : a \in DOMAIN e.balances =>
            /\ e.balances[a].version = version[a] + 1
            /\ e.balances[a].available = available[a] + Delta(l, a)
            /\ e.tx = x
            /\ journal'[e.tx] = l
      BY <1>2, <1>5, <2>2, <3>1
    <3>3. \A v \in 1..version'[a] : \E e \in BalanceEvent' : Reports(e, a, v)
      <4>. SUFFICES ASSUME NEW v \in 1..version'[a]
                    PROVE  \E e \in BalanceEvent' : Reports(e, a, v)
        OBVIOUS
      <4>1. CASE v = version[a] + 1
        <5>1. PICK e \in N : a \in DOMAIN e.balances
          BY <1>2, <2>4
        <5>. QED BY <1>4, <3>2, <4>1, <5>1 DEF Reports
      <4>2. CASE v # version[a] + 1
        <5>1. v \in 1..version[a]
          BY <2>2, <3>1, <4>2
        <5>. QED BY <1>4, <5>1 DEF EventsTellHistory
      <4>. QED BY <4>1, <4>2
    <3>4. \A e \in BalanceEvent : a \in DOMAIN e.balances =>
            LET v == e.balances[a].version IN
            /\ v \in 1..version[a]
            /\ v = version[a] => e.balances[a].available = available[a]
            /\ v = 1 => e.balances[a].available = Delta(journal[e.tx], a)
            /\ \A f \in BalanceEvent :
                 /\ Reports(f, a, v) =>
                      /\ f.tx = e.tx
                      /\ f.balances[a].available = e.balances[a].available
                 /\ Reports(f, a, v + 1) =>
                      f.balances[a].available
                        = e.balances[a].available + Delta(journal[f.tx], a)
      BY DEF EventsTellHistory
    <3>5. ASSUME NEW e \in BalanceEvent, a \in DOMAIN e.balances
          PROVE  LET v == e.balances[a].version IN
                 /\ v \in 1..version'[a]
                 /\ v = version'[a] => e.balances[a].available = available'[a]
                 /\ v = 1 => e.balances[a].available = Delta(journal'[e.tx], a)
                 /\ \A f \in BalanceEvent' :
                      /\ Reports(f, a, v) =>
                           /\ f.tx = e.tx
                           /\ f.balances[a].available = e.balances[a].available
                      /\ Reports(f, a, v + 1) =>
                           f.balances[a].available
                             = e.balances[a].available + Delta(journal'[f.tx], a)
      <4>. DEFINE v == e.balances[a].version
      <4>1. /\ v \in 1..version[a] /\ v \in 1..version'[a] /\ v # version'[a]
            /\ v = 1 => e.balances[a].available = Delta(journal'[e.tx], a)
        BY <2>1, <2>2, <3>1, <3>4, <3>5
      <4>2. ASSUME NEW f \in BalanceEvent
            PROVE  /\ Reports(f, a, v) =>
                        /\ f.tx = e.tx
                        /\ f.balances[a].available = e.balances[a].available
                   /\ Reports(f, a, v + 1) =>
                        f.balances[a].available
                          = e.balances[a].available + Delta(journal'[f.tx], a)
        BY <2>1, <3>4, <3>5
      <4>3. ASSUME NEW f \in N
            PROVE  /\ ~Reports(f, a, v)
                   /\ Reports(f, a, v + 1) =>
                        f.balances[a].available
                          = e.balances[a].available + Delta(journal'[f.tx], a)
        BY <2>2, <3>2, <3>4, <3>5, <4>1 DEF Reports
      <4>. QED BY <1>4, <4>1, <4>2, <4>3
    <3>6. ASSUME NEW e \in N, a \in DOMAIN e.balances
          PROVE  LET v == e.balances[a].version IN
                 /\ v \in 1..version'[a]
                 /\ v = version'[a] => e.balances[a].available = available'[a]
                 /\ v = 1 => e.balances[a].available = Delta(journal'[e.tx], a)
                 /\ \A f \in BalanceEvent' :
                      /\ Reports(f, a, v) =>
                           /\ f.tx = e.tx
                           /\ f.balances[a].available = e.balances[a].available
                      /\ Reports(f, a, v + 1) =>
                           f.balances[a].available
                             = e.balances[a].available + Delta(journal'[f.tx], a)
      <4>1. version[a] = 0 => available[a] = 0
        BY DEF EventsTellHistory
      <4>. QED BY <1>4, <2>2, <3>1, <3>2, <3>4, <3>6, <4>1 DEF Reports
    <3>. QED BY <1>4, <2>2, <3>1, <3>3, <3>5, <3>6
  <2>. QED BY <2>3, <2>4
<1>. QED BY <1>6, <1>7, <1>8, <1>9, <1>10, <1>11

\* A change to an account's status keeps the invariant, which is about money.
LEMMA AccountStepKeepsInv ==
  ASSUME AtomicInv, NEW a \in Account,
         InsertAccount(a) \/ InsertShards(a) \/ \E s \in Status : UpdateStatus(a, s)
  PROVE  AtomicInv'
<1>. USE DEF AtomicInv
<1>1. /\ UNCHANGED <<available, version, transactions, journal>>
      /\ BalanceEvent' = BalanceEvent
  BY DEF InsertAccount, InsertShards, UpdateStatus, BalanceEvent
<1>2. DbTypeOK'
  <2>1. status' \in [Account -> Status \cup {"NONE"}]
    BY DEF InsertAccount, InsertShards, UpdateStatus, DbTypeOK, Status
  <2>2. \A e \in outbox' : e.type # "AccountCreated" => e \in outbox
    BY DEF InsertAccount, InsertShards, UpdateStatus
  <2>. QED BY <1>1, <2>1, <2>2 DEF DbTypeOK
<1>3. NoTrace' /\ NoOverdraft' /\ ReversedOnce' /\ OneTransactionPerKey'
  BY <1>1 DEF NoTrace, NoOverdraft, ReversedOnce, OneTransactionPerKey
<1>4. EventsTellHistory'
  BY <1>1 DEF EventsTellHistory
<1>. QED BY <1>2, <1>3, <1>4

\* Every step keeps the invariant.
LEMMA NextKeepsInv == AtomicInv /\ [AtomicNext]_dbVars => AtomicInv'
<1>. SUFFICES ASSUME AtomicInv, [AtomicNext]_dbVars PROVE AtomicInv'
  OBVIOUS
<1>1. ASSUME NEW x \in TxId, NEW r \in Request, Post(x, r)
      PROVE  AtomicInv'
  <2>1. PICK chosen \in Routings : Apply(x, RoutedLegs(r.legs, chosen), r.key, None)
    BY <1>1 DEF Post
  <2>2. RoutedLegs(r.legs, chosen) \in AnyLegs /\ r.key \in Key \cup {None}
    BY RoutedType, RequestAssumption
  <2>. QED BY <2>1, <2>2, ApplyKeepsInv
<1>2. ASSUME NEW x \in TxId, NEW o \in TxId, NEW k \in Key \cup {None}, Reverse(x, o, k)
      PROVE  AtomicInv'
  <2>1. Mirror(journal[o]) \in AnyLegs
    BY MirrorType DEF AtomicInv, DbTypeOK
  <2>. QED BY <1>2, <2>1, ApplyKeepsInv DEF Reverse
<1>3. CASE UNCHANGED dbVars
  <2>1. BalanceEvent' = BalanceEvent
    BY <1>3 DEF dbVars, BalanceEvent
  <2>2. UNCHANGED <<available, version, status, transactions, journal, outbox>>
    BY <1>3 DEF dbVars
  <2>3. DbTypeOK'
    BY <2>2 DEF AtomicInv, DbTypeOK
  <2>4. NoTrace' /\ NoOverdraft' /\ ReversedOnce' /\ OneTransactionPerKey'
    BY <2>1, <2>2 DEF AtomicInv, NoTrace, NoOverdraft, ReversedOnce, OneTransactionPerKey
  <2>5. EventsTellHistory'
    BY <2>1, <2>2 DEF AtomicInv, EventsTellHistory
  <2>. QED BY <2>3, <2>4, <2>5 DEF AtomicInv
<1>. QED BY <1>1, <1>2, <1>3, AccountStepKeepsInv DEF AtomicNext

\* The invariant holds throughout.
THEOREM AtomicInvariant == AtomicSpec => []AtomicInv
BY InitAtomicInv, NextKeepsInv, PTL DEF AtomicSpec

\* Only the rows of ACTIVE accounts are written.
THEOREM AtomicOnlyActive == AtomicSpec => OnlyActiveRowsMove
<1>. DEFINE Moves == \A a \in Account : version'[a] # version[a] => status[a] = "ACTIVE"
<1>1. [AtomicNext]_dbVars => [Moves]_dbVars
  <2>. SUFFICES ASSUME AtomicNext PROVE Moves
    OBVIOUS
  <2>1. ASSUME NEW x, NEW l, NEW key, NEW reverses, Apply(x, l, key, reverses)
        PROVE  Moves
    BY <2>1 DEF Apply
  <2>. QED BY <2>1 DEF AtomicNext, Post, Reverse, InsertAccount, InsertShards, UpdateStatus
<1>. QED BY <1>1, PTL DEF AtomicSpec, OnlyActiveRowsMove

\* Committed history is not rewritten: a header can only become REVERSED.
THEOREM AtomicHistory == AtomicSpec => HistoryIsFinal
<1>. DEFINE Final == \A x \in TxId : transactions[x].status # "NONE" =>
                       /\ journal'[x] = journal[x]
                       /\ transactions'[x].key = transactions[x].key
                       /\ transactions'[x].reverses = transactions[x].reverses
                       /\ transactions'[x].status \in {transactions[x].status, "REVERSED"}
<1>1. AtomicInv /\ [AtomicNext]_dbVars => [Final]_dbVars
  <2>. SUFFICES ASSUME AtomicInv, AtomicNext PROVE Final
    OBVIOUS
  <2>1. ASSUME NEW y \in TxId, NEW l, NEW key, NEW reverses, Apply(y, l, key, reverses)
        PROVE  Final
    <3>. SUFFICES ASSUME NEW x \in TxId, transactions[x].status # "NONE"
                  PROVE  /\ journal'[x] = journal[x]
                         /\ transactions'[x].key = transactions[x].key
                         /\ transactions'[x].reverses = transactions[x].reverses
                         /\ transactions'[x].status \in {transactions[x].status, "REVERSED"}
      OBVIOUS
    <3>1. x # y /\ journal'[x] = journal[x]
      BY <2>1 DEF Apply, AtomicInv, DbTypeOK
    <3>2. transactions'[x] = IF x = reverses THEN [transactions[x] EXCEPT !.status = "REVERSED"]
                             ELSE transactions[x]
      BY <2>1, <3>1 DEF Apply
    <3>. QED BY <3>1, <3>2 DEF AtomicInv, DbTypeOK
  <2>2. CASE UNCHANGED <<transactions, journal>>
    BY <2>2
  <2>. QED BY <2>1, <2>2 DEF AtomicNext, Post, Reverse, InsertAccount, InsertShards, UpdateStatus
<1>. QED BY <1>1, AtomicInvariant, PTL DEF AtomicSpec, HistoryIsFinal
=============================================================================
