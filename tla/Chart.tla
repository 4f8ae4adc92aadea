------------------------------- MODULE Chart -------------------------------
(***************************************************************************)
(* The chart of accounts and the legs of a transaction: what both          *)
(* AtomicLedger and Ledger are built from, with no state of its own.       *)
(*                                                                         *)
(* The entries of a transaction are kept as the total debited and credited *)
(* per account: neither the balances nor the trigger tell two entries on   *)
(* one account and one side from their sum, and amounts are positive, so   *)
(* an account is touched exactly when one of its totals is not zero.       *)
(***************************************************************************)
EXTENDS Integers, FiniteSets, FiniteSetsExt

CONSTANTS Account,        \* account ids, ordered as ORDER BY id orders them
          TxId,           \* transaction ids, which bound the history's length
          Key,            \* (principal, idempotency key) pairs
          None,           \* no account, worker, transaction or key
          Request,        \* the transaction requests clients send
          NormalBalance,  \* Account -> "DEBIT" or "CREDIT"
          AllowNegative,  \* Account -> BOOLEAN
          Currency,       \* currency codes
          CurrencyOf,     \* Account -> Currency
          ParentOf,       \* Account -> the account it is a shard of, or None
          Seeded,         \* accounts present before the first request
          MaxMinor        \* math.MaxInt64, reduced so that it can be reached

\* CLOSED is FROZEN by another name: the code only asks whether it is ACTIVE.
Status == {"ACTIVE", "FROZEN"}
Side == [Account -> Nat]
Legs == [debit : Side, credit : Side, currency : Currency]

ASSUME AccountAssumption == Account \subseteq Nat /\ Seeded \subseteq Account
ASSUME FiniteAccountAssumption == IsFiniteSet(Account)
ASSUME NoneAssumption == None \notin Account /\ None \notin TxId /\ None \notin Key
ASSUME ChartAssumption == /\ NormalBalance \in [Account -> {"DEBIT", "CREDIT"}]
                          /\ AllowNegative \in [Account -> BOOLEAN]
                          /\ CurrencyOf \in [Account -> Currency]
                          /\ ParentOf \in [Account -> Account \cup {None}]
                          /\ \A a \in Seeded : ParentOf[a] = None
ASSUME RequestAssumption == Request \subseteq [legs : Legs, key : Key \cup {None}]
ASSUME MaxMinorAssumption == MaxMinor \in Nat

-----------------------------------------------------------------------------
Nothing == [a \in Account |-> 0]
NoLegs == [debit |-> Nothing, credit |-> Nothing, currency |-> None]
NoTransaction == [status |-> "NONE", key |-> None, reverses |-> None]

\* sortedAccountIDs, as a set: the order is the order of Account.
Touched(l) == {a \in Account : l.debit[a] # 0 \/ l.credit[a] # 0}

Total(side) == MapThenSumSet(LAMBDA a : side[a], Account)

\* Debits equal credits, in TransactionRequest.validate and again in the
\* deferred trigger ledger_assert_transaction_balanced.
Balanced(l) == Total(l.debit) = Total(l.credit)

\* TransactionRequest.validate: there are entries, and debits equal credits,
\* and the totals fit.
Valid(r) == /\ Touched(r.legs) # {}
            /\ Balanced(r.legs)
            /\ Total(r.legs.debit) <= MaxMinor

\* signedAmount summed over the account's entries: the side that is the
\* account's normal balance counts up, the other one down.
Delta(l, a) == IF NormalBalance[a] = "DEBIT"
               THEN l.debit[a] - l.credit[a]
               ELSE l.credit[a] - l.debit[a]

\* Direction.Opposite on every entry of the transaction being reversed.
Mirror(l) == [debit |-> l.credit, credit |-> l.debit, currency |-> l.currency]

\* The balances the column and account_balances_no_overdraft_check accept.
Storable(a, amount) == /\ amount >= -MaxMinor - 1
                       /\ amount <= MaxMinor
                       /\ AllowNegative[a] \/ amount >= 0

ShardsOf(p) == {a \in Account : ParentOf[a] = p}

\* The ways to send each account to itself or to one of its shards.
Routings == {chosen \in [Account -> Account] :
               \A a \in Account : chosen[a] = a \/ ParentOf[chosen[a]] = a}

\* MUTANT: the routed amount replaces what the request names on the shard.
RoutedSideReplacing(side, chosen) ==
  [a \in Account |->
     IF ParentOf[a] # None /\ chosen[ParentOf[a]] = a THEN side[ParentOf[a]]
     ELSE IF chosen[a] = a THEN side[a] ELSE 0]

\* MUTANT: the shard gets the amount and the parent keeps it.
RoutedSideCopying(side, chosen) ==
  [a \in Account |->
     side[a] + (IF ParentOf[a] # None /\ chosen[ParentOf[a]] = a
                THEN side[ParentOf[a]] ELSE 0)]

\* routeToShards on one side: the amount of an account with a chosen shard
\* moves to that shard, and adds to what the request names there itself.
RoutedSide(side, chosen) ==
  [a \in Account |->
     (IF chosen[a] = a THEN side[a] ELSE 0)
     + (IF ParentOf[a] # None /\ chosen[ParentOf[a]] = a
        THEN side[ParentOf[a]] ELSE 0)]

RoutedLegs(l, chosen) == [debit |-> RoutedSide(l.debit, chosen),
                          credit |-> RoutedSide(l.credit, chosen),
                          currency |-> l.currency]

\* What appendTransactionEvent and appendBalanceUpdatedEvents put in the
\* outbox: one event with every balance the transaction produced, and one per
\* account.
TransactionEvents(x, reverses, balances) ==
  {[type |-> IF reverses = None THEN "TransactionPosted" ELSE "TransactionReversed",
    tx |-> x, balances |-> balances]}
  \cup {[type |-> "BalanceUpdated", tx |-> x,
         balances |-> [b \in {a} |-> balances[a]]] : a \in DOMAIN balances}
=============================================================================
