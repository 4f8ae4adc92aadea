---------------------------- MODULE Consistency ----------------------------
(***************************************************************************)
(* The reconciler's consistency loop: three checks of the tables, in turn  *)
(* and for ever, and the gauges they set.  A check is one step: the two    *)
(* statements of CheckOrphans, and the count of accounts in front of       *)
(* CheckProjectionDrift, read what the other one does not.  The ledger     *)
(* gives the checks nothing to find; what they exist for is modelled too,  *)
(* a hand that changes a row past the service.                             *)
(***************************************************************************)
EXTENDS History

CONSTANTS Tampered,        \* accounts whose rows are changed by hand
          MaxTampering,    \* how often that happens
          MaxCheckErrors   \* checks that end with a database error

VARIABLES gauge,           \* the metrics: one per currency, and three counts
          check,           \* the check that runs next
          tampered,        \* how often a row was changed by hand
          checkErrors

auditVars == <<gauge, check, tampered, checkErrors>>

Clear == [c \in Currency |-> 0]

AuditInit == /\ gauge = [imbalance |-> Clear, drifted |-> 0, fewEntry |-> 0, orphans |-> 0]
             /\ check = "invariant"
             /\ tampered = 0
             /\ checkErrors = 0

-----------------------------------------------------------------------------
(* The queries                                                             *)

\* MUTANT: GROUP BY is missing, and every currency gets the total.
ImbalanceUngrouped(c) ==
  MapThenSumSet(LAMBDA a : MapThenSumSet(LAMBDA x : journal[x].debit[a] - journal[x].credit[a], TxId),
                Account)

\* CheckGlobalInvariant: the entries of a currency, DEBIT up and CREDIT down.
Imbalance(c) ==
  MapThenSumSet(LAMBDA a : MapThenSumSet(LAMBDA x : journal[x].debit[a] - journal[x].credit[a], TxId),
                {a \in Account : CurrencyOf[a] = c})

\* MUTANT: every account counts as debit-normal.
DriftedOneSign == {a \in Account :
                     status[a] # "NONE"
                     /\ available[a] # MapThenSumSet(LAMBDA x : journal[x].debit[a] - journal[x].credit[a], TxId)}

\* CheckProjectionDrift: accounts whose balance row is not the sum of their
\* entries.
Drifted == {a \in Account :
              status[a] # "NONE"
              /\ available[a] # MapThenSumSet(LAMBDA x : Delta(journal[x], a), TxId)}

EntryCount(x) == Cardinality({a \in Account : journal[x].debit[a] # 0})
                 + Cardinality({a \in Account : journal[x].credit[a] # 0})

\* CheckOrphans: posted transactions with fewer than two entries, and entries
\* whose transaction is missing.
FewEntry == {x \in TxId : transactions[x].status \in {"POSTED", "REVERSED"} /\ EntryCount(x) < 2}
Orphaned == {x \in TxId : transactions[x].status = "NONE" /\ EntryCount(x) > 0}
OrphanEntries == MapThenSumSet(LAMBDA x : EntryCount(x), Orphaned)

-----------------------------------------------------------------------------
(* runConsistencyLoop                                                      *)

After(k) == CASE k = "invariant" -> "drift" [] k = "drift" -> "orphans"
              [] k = "orphans" -> "invariant"

\* MUTANT: the gauge is set and not reset.
CheckInvariantNoReset ==
  /\ check = "invariant"
  /\ gauge' = [gauge EXCEPT !.imbalance =
                 [c \in Currency |-> IF Imbalance(c) # 0 THEN Imbalance(c) ELSE gauge.imbalance[c]]]

\* checkGlobalInvariant: Reset, and then the currencies that do not sum to zero.
CheckInvariant ==
  /\ check = "invariant"
  /\ gauge' = [gauge EXCEPT !.imbalance = [c \in Currency |-> Imbalance(c)]]

CheckDrift ==
  /\ check = "drift"
  /\ gauge' = [gauge EXCEPT !.drifted = Cardinality(Drifted)]

CheckOrphans ==
  /\ check = "orphans"
  /\ gauge' = [gauge EXCEPT !.fewEntry = Cardinality(FewEntry), !.orphans = OrphanEntries]

\* One check of the loop; one that fails is logged, and the next one runs.
AuditStep ==
  /\ \/ (CheckInvariant \/ CheckDrift \/ CheckOrphans) /\ UNCHANGED checkErrors
     \/ /\ checkErrors < MaxCheckErrors
        /\ checkErrors' = checkErrors + 1
        /\ UNCHANGED gauge
  /\ check' = After(check)
  /\ UNCHANGED <<historyVars, tampered>>

-----------------------------------------------------------------------------
\* SQL run past the service, with the triggers and the grants out of the way: a
\* balance row, an entry or a pair of entries, or a header.
Tamper ==
  /\ tampered < MaxTampering
  /\ tampered' = tampered + 1
  /\ \/ \E a \in Tampered, n \in 0..1 :
          /\ status[a] # "NONE"
          /\ available' = [available EXCEPT ![a] = n]
          /\ UNCHANGED <<transactions, journal>>
     \/ \E x \in Committed, a, b \in Tampered, m, n \in 0..1 :
          /\ {a, b} \subseteq AccountsIn(Len(commits))
          /\ journal' = [journal EXCEPT ![x].debit[a] = m, ![x].credit[b] = n]
          /\ UNCHANGED <<transactions, available>>
     \/ \E x \in Committed :
          /\ transactions' = [transactions EXCEPT ![x] = NoTransaction]
          /\ UNCHANGED <<journal, available>>
  /\ UNCHANGED <<version, status, outbox, now, began, commits, replayed, gauge, check, checkErrors>>

-----------------------------------------------------------------------------
(* Properties                                                              *)

Healthy == [imbalance |-> Clear, drifted |-> 0, fewEntry |-> 0, orphans |-> 0]
Truth == [imbalance |-> [c \in Currency |-> Imbalance(c)], drifted |-> Cardinality(Drifted),
          fewEntry |-> Cardinality(FewEntry), orphans |-> OrphanEntries]

\* No check raises an alarm about what the service itself has done, whatever is
\* committed between two of them.
NoFalseAlarm == tampered = 0 => gauge = Healthy

\* "Two real, unrelated defects must not be able to cancel each other out of
\* this check": when the entries of a transaction that was changed by hand do
\* not sum to zero in some currency, then those of the journal do not either.
ImbalanceIsSeen ==
  tampered = 1 /\ (\E x \in TxId, c \in Currency :
                      MapThenSumSet(LAMBDA a : journal[x].debit[a] - journal[x].credit[a],
                                    {a \in Account : CurrencyOf[a] = c}) # 0)
    => \E c \in Currency : Imbalance(c) # 0
=============================================================================
