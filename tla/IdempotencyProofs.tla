------------------------- MODULE IdempotencyProofs -------------------------
(***************************************************************************)
(* What holds of Idempotency for any requests, handlers and transactions.  *)
(*                                                                         *)
(* SafeInv strengthens AnswersAreCommitted by saying where an answer comes *)
(* from: the row a handler has read, and before it the row in the table,   *)
(* name only transactions that committed under the row's own principal and *)
(* key.                                                                    *)
(***************************************************************************)
EXTENDS Idempotency, TLAPS

CommittedUnder(x, s) == transactions[x] # None /\ Slot(transactions[x]) = s

SlotOK(s) == /\ record[s].tx # None => CommittedUnder(record[s].tx, s)
             /\ record[s].tx # None <=> record[s].status = "COMPLETED"

HandlerOK(h) == /\ pc[h] # "idle" => request[h] \in Request
                /\ seen[h].tx # None => CommittedUnder(seen[h].tx, My(h))
                /\ pc[h] = "idle" => seen[h] = Absent
                /\ answer[h].tx # None => CommittedUnder(answer[h].tx, My(h))

\* Every row of idempotency_keys, every row a handler has read and every
\* answer names a transaction of its own slot, or none.
SafeInv == /\ TypeOK
           /\ KeyExecutesOnce
           /\ \A s \in Slots : SlotOK(s)
           /\ \A h \in Handler : HandlerOK(h)

LEMMA MyInSlots == ASSUME NEW h \in Handler, request[h] \in Request
                   PROVE  My(h) \in Slots
  BY DEF My, Slots

LEMMA AbsentIsARow == Absent \in Row /\ Absent.tx = None /\ Absent.leased = FALSE
  BY DEF Absent, Row

LEMMA AnswerFacts == /\ NoAnswer \in Answer /\ NoAnswer.tx = None
                     /\ \A k \in {"created", "replay", "refused", "conflict", "expired",
                                 "in_progress"}, x \in TxId \cup {None} :
                          /\ [kind |-> k, tx |-> x] \in Answer
                          /\ [kind |-> k, tx |-> x].tx = x
  BY DEF NoAnswer, Answer

LEMMA InitSafe == Init => SafeInv
  <1> SUFFICES ASSUME Init PROVE SafeInv
    OBVIOUS
  <1>1. TypeOK
    BY AbsentIsARow, AnswerFacts DEF Init, TypeOK
  <1>2. KeyExecutesOnce
    BY DEF Init, KeyExecutesOnce
  <1>3. \A s \in Slots : record[s].tx = None /\ record[s].status # "COMPLETED"
    BY DEF Init, Absent
  <1>4. \A h \in Handler : /\ pc[h] = "idle" /\ seen[h] = Absent
                           /\ seen[h].tx = None /\ answer[h].tx = None
    BY AnswerFacts DEF Init, Absent
  <1>5. QED
    BY <1>1, <1>2, <1>3, <1>4 DEF SafeInv, SlotOK, HandlerOK

\* A step that commits nothing may rewrite rows into ones that name no
\* transaction they did not name.
LEMMA QuietStep ==
  ASSUME SafeInv, TypeOK', UNCHANGED transactions,
         \A s \in Slots : /\ record'[s].tx # None => record'[s].tx = record[s].tx
                          /\ record'[s].tx # None <=> record'[s].status = "COMPLETED",
         \A h \in Handler : HandlerOK(h)'
  PROVE  SafeInv'
  <1>1. KeyExecutesOnce'
    BY DEF SafeInv, KeyExecutesOnce
  <1>2. ASSUME NEW s \in Slots PROVE SlotOK(s)'
    BY DEF SafeInv, SlotOK, CommittedUnder
  <1>3. QED
    BY <1>1, <1>2 DEF SafeInv

\* A handler that commits nothing and reads nothing may forget what it has read,
\* and tell its client of the transaction it has read of.
LEMMA HandlerStep ==
  ASSUME SafeInv, NEW h \in Handler, pc[h] # "idle", UNCHANGED <<transactions, request>>,
         \A g \in Handler \ {h} : /\ pc'[g] = pc[g] /\ seen'[g] = seen[g]
                                  /\ answer'[g] = answer[g],
         seen'[h] = Absent \/ (seen'[h] = seen[h] /\ pc'[h] # "idle"),
         answer'[h].tx \in {None, seen[h].tx, answer[h].tx}
  PROVE  \A g \in Handler : HandlerOK(g)'
  <1> TAKE g \in Handler
  <1>1. \A x, y : y = My(g) => (CommittedUnder(x, y)' <=> CommittedUnder(x, y))
    BY DEF CommittedUnder
  <1>2. HandlerOK(g) /\ My(g)' = My(g)
    BY DEF SafeInv, My
  <1>3. CASE g = h
    BY <1>1, <1>2, <1>3, AbsentIsARow DEF HandlerOK, My, CommittedUnder
  <1>4. CASE g # h
    BY <1>1, <1>2, <1>4 DEF HandlerOK, My, CommittedUnder
  <1>5. QED
    BY <1>3, <1>4

LEMMA BeginSafe == ASSUME SafeInv, NEW h \in Handler, Begin(h) PROVE SafeInv'
  <1>1. TypeOK'
    BY AnswerFacts DEF SafeInv, Begin, TypeOK, Goto
  <1>2. ASSUME NEW g \in Handler PROVE HandlerOK(g)'
    <2>1. CASE g = h
      BY <2>1, AnswerFacts, AbsentIsARow DEF SafeInv, Begin, TypeOK, HandlerOK, Goto
    <2>2. CASE g # h
      BY <2>2 DEF SafeInv, Begin, TypeOK, HandlerOK, Goto, CommittedUnder, My
    <2>3. QED
      BY <2>1, <2>2
  <1>3. QED
    BY <1>1, <1>2, QuietStep DEF SafeInv, SlotOK, Begin

LEMMA ReserveSafe == ASSUME SafeInv, NEW h \in Handler, Reserve(h) PROVE SafeInv'
  <1>1. request[h] \in Request /\ My(h) \in Slots
    BY MyInSlots DEF SafeInv, HandlerOK, Reserve
  <1> DEFINE new == [status |-> "IN_PROGRESS", tx |-> None,
                     fingerprint |-> FingerprintOf(request[h]),
                     leased |-> TRUE, expired |-> FALSE]
  <1>2. /\ new \in Row /\ new.tx = None /\ new.status = "IN_PROGRESS"
        /\ new.leased = TRUE /\ new.expired = FALSE
    BY <1>1 DEF Row
  <1>3. record' = [record EXCEPT ![My(h)] = new] \/ UNCHANGED record
    BY DEF Reserve
  <1> HIDE DEF new
  <1>4. TypeOK'
    BY <1>1, <1>2, <1>3 DEF SafeInv, Reserve, TypeOK, Goto
  <1>5. \A s \in Slots : /\ record'[s].tx # None => record'[s].tx = record[s].tx
                         /\ record'[s].tx # None <=> record'[s].status = "COMPLETED"
    BY <1>1, <1>2, <1>3 DEF SafeInv, SlotOK, TypeOK
  <1>6. \A g \in Handler : HandlerOK(g)'
    BY HandlerStep DEF SafeInv, Reserve, TypeOK, Goto
  <1>7. QED
    BY <1>4, <1>5, <1>6, QuietStep DEF Reserve

LEMMA LookupSafe == ASSUME SafeInv, NEW h \in Handler, Lookup(h) PROVE SafeInv'
  <1>1. request[h] \in Request /\ My(h) \in Slots
    BY MyInSlots DEF SafeInv, HandlerOK, Lookup
  <1>2. TypeOK'
    BY <1>1 DEF SafeInv, Lookup, TypeOK, Goto
  <1>3. ASSUME NEW g \in Handler PROVE HandlerOK(g)'
    <2>1. CASE g = h
      BY <1>1, <2>1 DEF SafeInv, Lookup, TypeOK, SlotOK, HandlerOK, Goto, CommittedUnder, My
    <2>2. CASE g # h
      BY <2>2 DEF SafeInv, Lookup, TypeOK, HandlerOK, Goto, CommittedUnder, My
    <2>3. QED
      BY <2>1, <2>2
  <1>4. QED
    BY <1>2, <1>3, QuietStep DEF SafeInv, SlotOK, Lookup

LEMMA ResolveSafe == ASSUME SafeInv, NEW h \in Handler, ResolveExisting(h) PROVE SafeInv'
  <1>1. PICK expired \in Judged(seen[h].expired), lapsed \in Judged(~seen[h].leased) :
          LET verdict == Verdict(request[h], seen[h], expired, lapsed) IN
          IF verdict = "reclaim"
          THEN Goto(h, "reclaim") /\ UNCHANGED <<answer, seen>>
          ELSE /\ Tell(h, verdict, IF verdict = "replay" THEN seen[h].tx ELSE None)
               /\ Done(h)
    BY DEF ResolveExisting
  <1> DEFINE verdict == Verdict(request[h], seen[h], expired, lapsed)
  <1>2. verdict \in {"in_progress", "conflict", "expired", "replay", "reclaim"}
    BY DEF Verdict
  <1> HIDE DEF verdict
  <1>3. CASE verdict = "reclaim"
    <2>1. Goto(h, "reclaim") /\ UNCHANGED <<answer, seen>>
      BY <1>1, <1>3 DEF verdict
    <2>2. TypeOK'
      BY <2>1 DEF SafeInv, TypeOK, Goto, ResolveExisting
    <2>3. \A g \in Handler : HandlerOK(g)'
      BY <2>1, HandlerStep DEF SafeInv, ResolveExisting, TypeOK, Goto
    <2>4. QED
      BY <2>2, <2>3, QuietStep DEF SafeInv, SlotOK, ResolveExisting
  <1>4. CASE verdict # "reclaim"
    <2>1. /\ Tell(h, verdict, IF verdict = "replay" THEN seen[h].tx ELSE None)
          /\ Done(h)
      BY <1>1, <1>4 DEF verdict
    <2>2. seen[h].tx \in TxId \cup {None}
      BY DEF SafeInv, TypeOK, Row
    <2> DEFINE told == [kind |-> verdict, tx |-> IF verdict = "replay" THEN seen[h].tx ELSE None]
    <2>3. told \in Answer /\ (told.tx = seen[h].tx \/ told.tx = None)
      BY <1>2, <1>4, <2>2, AnswerFacts
    <2>4. /\ answer' = [answer EXCEPT ![h] = told]
          /\ pc' = [pc EXCEPT ![h] = "idle"] /\ seen' = [seen EXCEPT ![h] = Absent]
      BY <2>1 DEF Tell, Done, Goto
    <2>5. UNCHANGED <<record, transactions, request>>
      BY DEF ResolveExisting
    <2> HIDE DEF told
    <2>6. TypeOK'
      BY <2>3, <2>4, <2>5, AbsentIsARow DEF SafeInv, TypeOK
    <2>7. /\ \A g \in Handler \ {h} : /\ pc'[g] = pc[g] /\ seen'[g] = seen[g]
                                      /\ answer'[g] = answer[g]
          /\ pc[h] # "idle" /\ seen'[h] = Absent /\ answer'[h] = told
      BY <2>4 DEF SafeInv, ResolveExisting, TypeOK
    <2>8. \A g \in Handler : HandlerOK(g)'
      BY <2>3, <2>5, <2>7, HandlerStep
    <2>9. QED
      BY <2>5, <2>6, <2>8, QuietStep DEF SafeInv, SlotOK
  <1>5. QED
    BY <1>3, <1>4

LEMMA ReclaimSafe == ASSUME SafeInv, NEW h \in Handler, Reclaim(h) PROVE SafeInv'
  <1>1. request[h] \in Request /\ My(h) \in Slots
    BY MyInSlots DEF SafeInv, HandlerOK, Reclaim
  <1>2. record[My(h)] \in Row
    BY <1>1 DEF SafeInv, TypeOK
  <1> DEFINE new == [record[My(h)] EXCEPT !.leased = ~record[My(h)].expired]
  <1>3. /\ new \in Row /\ new.tx = record[My(h)].tx
        /\ new.status = record[My(h)].status /\ (new.expired => ~new.leased)
    BY Zenon, <1>2 DEF Row
  <1>4. record' = [record EXCEPT ![My(h)] = new] \/ UNCHANGED record
    BY <1>1, <1>2 DEF Reclaim, SafeInv, TypeOK
  <1>5. seen' = [seen EXCEPT ![h] = Absent]
    BY DEF Reclaim, Done
  <1>6. \/ /\ pc' = [pc EXCEPT ![h] = "execute"]
           /\ UNCHANGED answer
        \/ /\ pc' = [pc EXCEPT ![h] = "idle"]
           /\ answer' = [answer EXCEPT ![h] = [kind |-> "in_progress", tx |-> None]]
    BY DEF Reclaim, Tell, Goto, Done
  <1> HIDE DEF new
  <1>7. UNCHANGED <<transactions, request>>
    BY DEF Reclaim
  <1>8. /\ record' \in [Slots -> Row]
        /\ \A s \in Slots : /\ record'[s].expired => ~record'[s].leased
                            /\ record'[s].tx = record[s].tx
                            /\ record'[s].status = record[s].status
    <2>1. CASE record' = [record EXCEPT ![My(h)] = new]
      BY <1>1, <1>3, <2>1 DEF SafeInv, TypeOK
    <2>2. CASE UNCHANGED record
      BY <2>2 DEF SafeInv, TypeOK
    <2>3. QED
      BY <1>4, <2>1, <2>2
  <1>9. TypeOK'
    BY <1>5, <1>6, <1>7, <1>8, AbsentIsARow, AnswerFacts DEF SafeInv, TypeOK
  <1>10. /\ \A g \in Handler \ {h} : /\ pc'[g] = pc[g] /\ seen'[g] = seen[g]
                                     /\ answer'[g] = answer[g]
         /\ pc[h] # "idle" /\ seen'[h] = Absent
         /\ answer'[h].tx = None \/ answer'[h] = answer[h]
    BY <1>5, <1>6, AnswerFacts DEF SafeInv, TypeOK, Reclaim
  <1>11. \A g \in Handler : HandlerOK(g)'
    BY <1>7, <1>10, HandlerStep
  <1>12. QED
    BY <1>7, <1>8, <1>9, <1>11, QuietStep DEF SafeInv, SlotOK

LEMMA RespondSafe == ASSUME SafeInv, NEW h \in Handler, Respond(h) PROVE SafeInv'
  <1>1. seen[h].tx \in TxId \cup {None}
    BY DEF SafeInv, TypeOK, Row
  <1>2. TypeOK'
    BY <1>1, AbsentIsARow, AnswerFacts DEF SafeInv, TypeOK, Respond, Tell, Done, Goto
  <1>3. /\ \A g \in Handler \ {h} : /\ pc'[g] = pc[g] /\ seen'[g] = seen[g]
                                    /\ answer'[g] = answer[g]
        /\ pc[h] # "idle" /\ seen'[h] = Absent /\ answer'[h].tx = seen[h].tx
    BY <1>1, AnswerFacts DEF SafeInv, TypeOK, Respond, Tell, Done, Goto
  <1>4. \A g \in Handler : HandlerOK(g)'
    BY <1>3, HandlerStep DEF Respond
  <1>5. QED
    BY <1>2, <1>4, QuietStep DEF SafeInv, SlotOK, Respond

LEMMA RefuseSafe == ASSUME SafeInv, NEW h \in Handler, Refuse(h) PROVE SafeInv'
  <1>1. pc' = [pc EXCEPT ![h] = "fail"] \/ pc' = [pc EXCEPT ![h] = "release"]
    BY DEF Refuse, Goto
  <1>2. /\ answer' = [answer EXCEPT ![h] = [kind |-> "refused", tx |-> None]]
        /\ UNCHANGED <<record, transactions, request, seen>>
        /\ pc[h] # "idle"
    BY DEF Refuse, Tell
  <1>3. TypeOK'
    BY <1>1, <1>2, AnswerFacts DEF SafeInv, TypeOK
  <1>4. \A g \in Handler : HandlerOK(g)'
    BY <1>1, <1>2, HandlerStep, AnswerFacts DEF SafeInv, TypeOK
  <1>5. QED
    BY <1>2, <1>3, <1>4, QuietStep DEF SafeInv, SlotOK

\* reject: the row is marked FAILED or deleted, and only when IN_PROGRESS.
LEMMA RejectSafe == ASSUME SafeInv, NEW h \in Handler, Reject(h) PROVE SafeInv'
  <1>1. request[h] \in Request /\ My(h) \in Slots
    BY MyInSlots DEF SafeInv, HandlerOK, Reject, Fail, Release
  <1>2. record[My(h)] \in Row
    BY <1>1 DEF SafeInv, TypeOK
  <1> DEFINE failed == [record[My(h)] EXCEPT !.status = "FAILED"]
  <1>3. /\ failed \in Row /\ failed.tx = record[My(h)].tx /\ failed.status = "FAILED"
        /\ failed.expired = record[My(h)].expired /\ failed.leased = record[My(h)].leased
    BY <1>2 DEF Row
  <1>4. \/ record[My(h)].tx = None /\ record' = [record EXCEPT ![My(h)] = failed]
        \/ record' = [record EXCEPT ![My(h)] = Absent]
        \/ UNCHANGED record
    BY <1>1, <1>2 DEF Reject, Fail, Release, SafeInv, SlotOK, TypeOK
  <1>5. /\ seen' = [seen EXCEPT ![h] = Absent]
        /\ pc' = [pc EXCEPT ![h] = "idle"]
        /\ UNCHANGED <<transactions, request, answer>>
    BY DEF Reject, Fail, Release, Done, Goto
  <1> HIDE DEF failed
  <1>6. /\ record' \in [Slots -> Row]
        /\ \A s \in Slots : /\ record'[s].expired => ~record'[s].leased
                            /\ record'[s].tx # None => record'[s].tx = record[s].tx
                            /\ record'[s].tx # None <=> record'[s].status = "COMPLETED"
    <2>1. CASE record[My(h)].tx = None /\ record' = [record EXCEPT ![My(h)] = failed]
      BY <1>1, <1>3, <2>1 DEF SafeInv, SlotOK, TypeOK
    <2>2. CASE record' = [record EXCEPT ![My(h)] = Absent]
      BY <1>1, <2>2, AbsentIsARow DEF SafeInv, SlotOK, TypeOK, Absent
    <2>3. CASE UNCHANGED record
      BY <2>3 DEF SafeInv, SlotOK, TypeOK
    <2>4. QED
      BY <1>4, <2>1, <2>2, <2>3
  <1>7. TypeOK'
    BY <1>5, <1>6, AbsentIsARow DEF SafeInv, TypeOK
  <1>8. /\ \A g \in Handler \ {h} : pc'[g] = pc[g] /\ seen'[g] = seen[g]
        /\ pc[h] # "idle" /\ seen'[h] = Absent
    BY <1>5 DEF SafeInv, TypeOK, Reject, Fail, Release
  <1>9. \A g \in Handler : HandlerOK(g)'
    BY <1>5, <1>8, HandlerStep
  <1>10. QED
    BY <1>5, <1>6, <1>7, <1>9, QuietStep

LEMMA CrashSafe == ASSUME SafeInv, NEW h \in Handler, Crash(h) PROVE SafeInv'
  <1>1. TypeOK'
    BY AbsentIsARow DEF SafeInv, TypeOK, Crash, Done, Goto
  <1>2. /\ \A g \in Handler \ {h} : pc'[g] = pc[g] /\ seen'[g] = seen[g]
        /\ seen'[h] = Absent
    BY DEF SafeInv, TypeOK, Crash, Done, Goto
  <1>3. \A g \in Handler : HandlerOK(g)'
    BY <1>2, HandlerStep DEF Crash
  <1>4. QED
    BY <1>1, <1>3, QuietStep DEF SafeInv, SlotOK, Crash

\* The clock and the sweeper rewrite rows and nothing else.
LEMMA TimeSafe ==
  ASSUME SafeInv,
         \/ \E s \in Slots : LeaseLapses(s) \/ TtlPasses(s)
         \/ SweepOnce
  PROVE  SafeInv'
  <1>1. UNCHANGED <<transactions, pc, request, seen, answer>>
    BY Zenon DEF LeaseLapses, TtlPasses, Sweep, SweepOnce
  <1>2. /\ record' \in [Slots -> Row]
        /\ \A s \in Slots : /\ record'[s].expired => ~record'[s].leased
                            /\ \/ record'[s] = Absent
                               \/ /\ record'[s].tx = record[s].tx
                                  /\ record'[s].status = record[s].status
    <2>1. ASSUME NEW s \in Slots, LeaseLapses(s) PROVE <1>2
      <3>1. record[s] \in Row
        BY DEF SafeInv, TypeOK
      <3> DEFINE new == [record[s] EXCEPT !.leased = FALSE]
      <3>2. /\ new \in Row /\ new.tx = record[s].tx /\ new.status = record[s].status
            /\ new.leased = FALSE
        BY Zenon, <3>1 DEF Row
      <3>3. record' = [record EXCEPT ![s] = new]
        BY <2>1 DEF LeaseLapses
      <3> HIDE DEF new
      <3>4. QED
        BY <3>2, <3>3 DEF SafeInv, TypeOK
    <2>2. ASSUME NEW s \in Slots, TtlPasses(s) PROVE <1>2
      <3>1. record[s] \in Row
        BY DEF SafeInv, TypeOK
      <3> DEFINE new == [record[s] EXCEPT !.expired = TRUE, !.leased = FALSE]
      <3>2. /\ new \in Row /\ new.tx = record[s].tx /\ new.status = record[s].status
            /\ new.leased = FALSE
        BY Zenon, <3>1 DEF Row
      <3>3. record' = [record EXCEPT ![s] = new]
        BY Zenon, <2>2 DEF TtlPasses
      <3> HIDE DEF new
      <3>4. QED
        BY <3>2, <3>3 DEF SafeInv, TypeOK
    <2>3. ASSUME NEW picked \in SUBSET Slots, Sweep(picked) PROVE <1>2
      BY <2>3, AbsentIsARow DEF Sweep, SafeInv, TypeOK, Absent
    <2>4. QED
      BY <2>1, <2>2, <2>3 DEF SweepOnce
  <1>3. TypeOK'
    BY <1>1, <1>2 DEF SafeInv, TypeOK
  <1>4. \A s \in Slots : /\ record'[s].tx # None => record'[s].tx = record[s].tx
                         /\ record'[s].tx # None <=> record'[s].status = "COMPLETED"
    BY <1>2 DEF SafeInv, SlotOK, Absent
  <1>5. ASSUME NEW g \in Handler PROVE HandlerOK(g)'
    BY <1>1 DEF SafeInv, HandlerOK, CommittedUnder, My
  <1>6. QED
    BY <1>1, <1>3, <1>4, <1>5, QuietStep

\* The one step that executes a request: no transaction had its slot.
LEMMA CommitSafe == ASSUME SafeInv, NEW h \in Handler, Commit(h) PROVE SafeInv'
  <1>1. request[h] \in Request /\ My(h) \in Slots /\ request[h] # None
    BY MyInSlots, NoneAssumption DEF SafeInv, HandlerOK, Commit
  <1>2. PICK x \in TxId : /\ transactions[x] = None
                          /\ transactions' = [transactions EXCEPT ![x] = request[h]]
                          /\ Complete(My(h), x)
                          /\ seen' = [seen EXCEPT ![h] = [Absent EXCEPT !.tx = x]]
    BY Zenon DEF Commit
  <1>3. /\ pc' = [pc EXCEPT ![h] = "respond"] /\ UNCHANGED <<request, answer>>
        /\ ~KeyTaken(request[h])
    BY DEF Commit, Goto
  <1>4. record[My(h)] \in Row
    BY <1>1 DEF SafeInv, TypeOK
  <1> DEFINE done == [record[My(h)] EXCEPT !.status = "COMPLETED", !.tx = x]
             read == [Absent EXCEPT !.tx = x]
  <1>5. /\ done \in Row /\ done.tx = x /\ done.status = "COMPLETED"
        /\ done.expired = record[My(h)].expired /\ done.leased = record[My(h)].leased
    BY Zenon, <1>4 DEF Row
  <1>6. read \in Row /\ read.tx = x
    BY Zenon DEF Absent, Row
  <1>7. record' = [record EXCEPT ![My(h)] = done] /\ seen' = [seen EXCEPT ![h] = read]
    BY Zenon, <1>2 DEF Complete
  <1> HIDE DEF done, read
  <1>8. TypeOK'
    <2>1. record' \in [Slots -> Row] /\ seen' \in [Handler -> Row]
      BY Zenon, <1>5, <1>6, <1>7 DEF SafeInv, TypeOK
    <2>2. \A s \in Slots : record'[s].expired => ~record'[s].leased
      BY <1>1, <1>5, <1>7 DEF SafeInv, TypeOK
    <2>3. transactions' \in [TxId -> Request \cup {None}]
      BY <1>1, <1>2 DEF SafeInv, TypeOK
    <2>4. QED
      BY Zenon, <1>3, <2>1, <2>2, <2>3 DEF SafeInv, TypeOK
  <1>9. \A y \in TxId, s \in Slots : CommittedUnder(y, s) => CommittedUnder(y, s)'
    BY <1>2 DEF SafeInv, TypeOK, CommittedUnder
  <1>10. CommittedUnder(x, My(h))' /\ My(h)' = My(h)
    BY <1>1, <1>2, <1>3 DEF SafeInv, TypeOK, CommittedUnder, My
  <1>11. KeyExecutesOnce'
    <2>1. \A y \in TxId : transactions[y] # None => Slot(transactions[y]) # My(h)
      BY <1>3 DEF KeyTaken, My
    <2>2. QED
      BY <1>2, <2>1 DEF SafeInv, TypeOK, KeyExecutesOnce, My
  <1>12. ASSUME NEW s \in Slots PROVE SlotOK(s)'
    <2>1. CASE s = My(h)
      <3>1. record'[s] = done
        BY <1>1, <1>7, <2>1 DEF SafeInv, TypeOK
      <3>2. QED
        BY <1>5, <1>10, <2>1, <3>1, NoneAssumption DEF SlotOK, CommittedUnder
    <2>2. CASE s # My(h)
      <3>1. record'[s] = record[s] /\ record[s].tx \in TxId \cup {None}
        BY <1>7, <2>2 DEF SafeInv, TypeOK, Row
      <3>2. QED
        BY <1>9, <3>1 DEF SafeInv, SlotOK, CommittedUnder
    <2>3. QED
      BY <2>1, <2>2
  <1>13. ASSUME NEW g \in Handler PROVE HandlerOK(g)'
    <2>1. answer[g].tx \in TxId \cup {None} /\ seen[g].tx \in TxId \cup {None}
      BY DEF SafeInv, TypeOK, Row, Answer
    <2>2. HandlerOK(g) /\ My(g)' = My(g)
      BY <1>3 DEF SafeInv, My
    <2>3. \A y \in TxId : CommittedUnder(y, My(g)) => CommittedUnder(y, My(g))'
      BY <1>2, <2>2 DEF SafeInv, TypeOK, CommittedUnder
    <2>4. answer'[g].tx # None => CommittedUnder(answer[g].tx, My(g))'
      BY <1>3, <2>1, <2>2, <2>3 DEF HandlerOK, CommittedUnder
    <2>5. CASE g = h
      <3>1. pc'[g] = "respond" /\ seen'[g] = read
        BY <1>3, <1>7, <2>5 DEF SafeInv, TypeOK
      <3>2. QED
        BY <1>1, <1>3, <1>6, <1>10, <2>4, <2>5, <3>1 DEF HandlerOK, CommittedUnder
    <2>6. CASE g # h
      <3>1. seen'[g] = seen[g] /\ pc'[g] = pc[g] /\ request'[g] = request[g]
        BY <1>3, <1>7, <2>6 DEF SafeInv, TypeOK
      <3>2. seen'[g].tx # None => CommittedUnder(seen[g].tx, My(g))'
        BY <2>1, <2>2, <2>3, <3>1 DEF HandlerOK, CommittedUnder
      <3>3. QED
        BY <2>2, <2>4, <3>1, <3>2 DEF HandlerOK
    <2>7. QED
      BY <2>5, <2>6
  <1>14. QED
    BY <1>8, <1>11, <1>12, <1>13 DEF SafeInv

LEMMA NextSafe == SafeInv /\ [Next]_vars => SafeInv'
  <1> SUFFICES ASSUME SafeInv, [Next]_vars PROVE SafeInv'
    OBVIOUS
  <1>1. CASE UNCHANGED vars
    <2>1. TypeOK'
      BY <1>1 DEF vars, SafeInv, TypeOK
    <2>2. ASSUME NEW g \in Handler PROVE HandlerOK(g)'
      BY <1>1 DEF vars, SafeInv, HandlerOK, CommittedUnder, My
    <2>3. QED
      BY <1>1, <2>1, <2>2, QuietStep DEF vars, SafeInv, SlotOK
  <1>2. ASSUME NEW h \in Handler,
               Begin(h) \/ Acquire(h) \/ Execute(h) \/ Respond(h) \/ Reject(h) \/ Crash(h)
        PROVE  SafeInv'
    BY <1>2, BeginSafe, ReserveSafe, LookupSafe, ResolveSafe, ReclaimSafe, CommitSafe,
       RefuseSafe, RespondSafe, RejectSafe, CrashSafe DEF Acquire, Execute
  <1>3. QED
    BY <1>1, <1>2, TimeSafe DEF Next

\* Every variable of the idempotency layer keeps its type.
THEOREM TypeCorrect == Spec => []TypeOK
  <1>1. SafeInv => TypeOK
    BY DEF SafeInv
  <1>2. QED
    BY <1>1, InitSafe, NextSafe, PTL DEF Spec

\* transactions_idempotency_key_key: a (principal, key) pair executes at most
\* once, for any number of clients, handlers, lapsed leases and sweeps.
THEOREM ExecutesOnce == Spec => []KeyExecutesOnce
  <1>1. SafeInv => KeyExecutesOnce
    BY DEF SafeInv
  <1>2. QED
    BY <1>1, InitSafe, NextSafe, PTL DEF Spec

\* writeStored and writeReplay: a client is told only of transactions that
\* committed under its own principal and key.
THEOREM AnswersCommitted == Spec => []AnswersAreCommitted
  <1>1. SafeInv => AnswersAreCommitted
    BY DEF SafeInv, HandlerOK, AnswersAreCommitted, CommittedUnder, My
  <1>2. QED
    BY <1>1, InitSafe, NextSafe, PTL DEF Spec

-----------------------------------------------------------------------------
Kept(s) == record'[s].status = record[s].status /\ record'[s].tx = record[s].tx
Swept(s) == record'[s] = Absent /\ \E t \in Slots : t[2] = s[2] /\ record[t].expired

\* Reserve, Reclaim, Complete, Fail, Release and the clock leave a terminal
\* row alone, whichever handler runs them; Sweep deletes it with an expired row
\* of its key.
LEMMA TerminalKept ==
  ASSUME SafeInv, [Next]_vars, NEW s \in Slots, Terminal(record[s])
  PROVE  Kept(s) \/ Swept(s)
  <1>1. record[s] \in Row /\ record \in [Slots -> Row]
    BY DEF SafeInv, TypeOK
  <1>2. ASSUME NEW h \in Handler, Reserve(h) \/ Reclaim(h) \/ Commit(h) \/ Reject(h)
        PROVE  record'[s] = record[s]
    <2>1. request[h] \in Request /\ My(h) \in Slots
      BY <1>2, MyInSlots DEF SafeInv, HandlerOK, Reserve, Reclaim, Commit, Reject, Fail, Release
    <2>2. CASE s # My(h)
      BY <1>1, <1>2, <2>1, <2>2
      DEF Reserve, Reclaim, Commit, Complete, Reject, Fail, Release
    <2>3. CASE s = My(h)
      BY <1>1, <1>2, <2>1, <2>3
      DEF Reserve, Reclaim, Commit, Complete, Reject, Fail, Release, Terminal
    <2>4. QED
      BY <2>2, <2>3
  <1>3. ASSUME NEW h \in Handler,
               Begin(h) \/ Lookup(h) \/ ResolveExisting(h) \/ Refuse(h)
               \/ Respond(h) \/ Crash(h)
        PROVE  record'[s] = record[s]
    BY <1>3 DEF Begin, Lookup, ResolveExisting, Refuse, Respond, Crash
  <1>4. ASSUME NEW t \in Slots, LeaseLapses(t) \/ TtlPasses(t) PROVE Kept(s)
    <2>1. CASE t # s
      BY <1>1, <1>4, <2>1 DEF LeaseLapses, TtlPasses, Kept
    <2>2. CASE t = s
      BY <1>1, <1>4, <2>2 DEF LeaseLapses, TtlPasses, Kept, Row
    <2>3. QED
      BY <2>1, <2>2
  <1>5. ASSUME NEW picked \in SUBSET Slots, Sweep(picked) PROVE Kept(s) \/ Swept(s)
    <2>1. CASE \E t \in picked : t[2] = s[2]
      BY <1>5, <2>1 DEF Sweep, Swept
    <2>2. CASE ~\E t \in picked : t[2] = s[2]
      BY <1>5, <2>2 DEF Sweep, Kept
    <2>3. QED
      BY <2>1, <2>2
  <1>6. CASE UNCHANGED vars
    BY <1>6 DEF vars, Kept
  <1>7. QED
    BY <1>2, <1>3, <1>4, <1>5, <1>6 DEF Next, Acquire, Execute, SweepOnce, Kept

\* The stored response is the answer to every retry until a sweep: Fail, Release,
\* Reclaim and Complete are guarded on IN_PROGRESS, so no handler, however late,
\* overwrites or deletes it, and Sweep does only on finding its key expired,
\* its own record or one of another principal.
THEOREM TerminalStays == Spec => TerminalIsFinal
  <1> DEFINE StepKeeps == \A s \in Slots : Terminal(record[s]) =>
                            \/ record'[s].status = record[s].status /\ record'[s].tx = record[s].tx
                            \/ record'[s] = Absent /\ \E t \in Slots : t[2] = s[2] /\ record[t].expired
  <1>1. SafeInv /\ [Next]_vars => StepKeeps
    BY TerminalKept DEF Kept, Swept
  <1>2. QED
    BY <1>1, InitSafe, NextSafe, PTL DEF Spec, TerminalIsFinal

NothingExpires == \A s \in Slots : ~record[s].expired
OutcomeInv == SafeInv /\ NothingExpires /\ RecordTellsOutcome

\* D20's proposition: while no record outlives its TTL, a record says COMPLETED
\* exactly when a transaction has committed under its key.
THEOREM OutcomeIsTold ==
  ASSUME TtlCanPass = FALSE
  PROVE  Spec => []RecordTellsOutcome
  <1>1. Init => OutcomeInv
    BY InitSafe DEF Init, OutcomeInv, NothingExpires, RecordTellsOutcome, Absent
  <1>2. OutcomeInv /\ [Next]_vars => OutcomeInv'
    <2> SUFFICES ASSUME OutcomeInv, [Next]_vars PROVE OutcomeInv'
      OBVIOUS
    <2>1. SafeInv /\ SafeInv'
      BY NextSafe DEF OutcomeInv
    <2>2. NothingExpires'
      <3>1. ASSUME NEW h \in Handler, Reserve(h) \/ Reclaim(h) \/ Commit(h) \/ Reject(h)
            PROVE  NothingExpires'
        <4>1. request[h] \in Request /\ My(h) \in Slots
          BY <2>1, <3>1, MyInSlots
          DEF SafeInv, HandlerOK, Reserve, Reclaim, Commit, Reject, Fail, Release
        <4>2. record \in [Slots -> Row]
          BY <2>1 DEF SafeInv, TypeOK
        <4>3. \A s \in Slots : s # My(h) => record'[s] = record[s]
          BY <3>1, <4>1, <4>2
          DEF Reserve, Reclaim, Commit, Complete, Reject, Fail, Release
        <4>4. ~record'[My(h)].expired
          BY <3>1, <4>1, <4>2
          DEF Reserve, Reclaim, Commit, Complete, Reject, Fail, Release,
              OutcomeInv, NothingExpires, Absent, Row
        <4>5. QED
          BY <4>3, <4>4 DEF OutcomeInv, NothingExpires
      <3>2. ASSUME NEW h \in Handler,
                   Begin(h) \/ Lookup(h) \/ ResolveExisting(h) \/ Refuse(h)
                   \/ Respond(h) \/ Crash(h)
            PROVE  NothingExpires'
        BY <3>2 DEF Begin, Lookup, ResolveExisting, Refuse, Respond, Crash,
                    OutcomeInv, NothingExpires
      <3>3. ASSUME NEW t \in Slots, LeaseLapses(t) PROVE NothingExpires'
        BY <2>1, <3>3 DEF LeaseLapses, OutcomeInv, NothingExpires, SafeInv, TypeOK, Row
      <3>4. ASSUME NEW picked \in SUBSET Slots, Sweep(picked) PROVE FALSE
        BY <3>4 DEF Sweep, OutcomeInv, NothingExpires
      <3>5. CASE UNCHANGED vars
        BY <3>5 DEF vars, OutcomeInv, NothingExpires
      <3>6. QED
        BY Zenon, <3>1, <3>2, <3>3, <3>4, <3>5 DEF Next, Acquire, Execute, SweepOnce, TtlPasses
    <2>3. \A s \in Slots : record[s].status = "COMPLETED" => Kept(s)
      BY <2>1, TerminalKept DEF OutcomeInv, NothingExpires, Terminal, Swept
    <2>4. ASSUME NEW s \in Slots, NEW x \in TxId,
                 transactions'[x] # None, Slot(transactions'[x]) = s
          PROVE  record'[s].status = "COMPLETED" /\ record'[s].tx = x
      <3>1. CASE transactions'[x] = transactions[x]
        BY <2>3, <2>4, <3>1 DEF OutcomeInv, RecordTellsOutcome, Kept
      <3>2. CASE transactions'[x] # transactions[x]
        <4>1. PICK h \in Handler : Commit(h)
          BY Zenon, <3>2 DEF Next, vars, Begin, Acquire, Execute, Respond, Reject, Crash, Reserve,
             Lookup, ResolveExisting, Reclaim, Refuse, Fail, Release, LeaseLapses,
             TtlPasses, Sweep, SweepOnce
        <4>2. PICK y \in TxId : /\ transactions' = [transactions EXCEPT ![y] = request[h]]
                                /\ Complete(My(h), y)
          BY Zenon, <4>1 DEF Commit
        <4>3. y = x /\ My(h) = s
          BY <2>1, <2>4, <3>2, <4>2 DEF SafeInv, TypeOK, My
        <4>4. record[s] \in Row /\ record \in [Slots -> Row]
          BY <2>1 DEF SafeInv, TypeOK
        <4>5. QED
          BY <4>2, <4>3, <4>4 DEF Complete, Row
      <3>3. QED
        BY <3>1, <3>2
    <2>5. ASSUME NEW s \in Slots, NEW x \in TxId,
                 record'[s].status = "COMPLETED", record'[s].tx = x
          PROVE  transactions'[x] # None /\ Slot(transactions'[x]) = s
      BY <2>1, <2>5, NoneAssumption DEF SafeInv, SlotOK, CommittedUnder
    <2>6. QED
      BY <2>1, <2>2, <2>4, <2>5 DEF OutcomeInv, RecordTellsOutcome
  <1>3. OutcomeInv => RecordTellsOutcome
    BY DEF OutcomeInv
  <1>4. QED
    BY <1>1, <1>2, <1>3, PTL DEF Spec
=============================================================================
