------------------------------- MODULE Reads -------------------------------
(***************************************************************************)
(* The read side of the HTTP API: balances, balances as of an instant,     *)
(* statements and searches page by page, and single transactions.  Every   *)
(* page is a statement of its own, with a snapshot of its own, and clients *)
(* post and the standby replays between two of them.                       *)
(*                                                                         *)
(* A client follows a statement, a search or a lookup to its end.          *)
(***************************************************************************)
EXTENDS History

CONSTANTS DefaultLimit, MaxLimit,    \* page sizes of the service
          Asked,                     \* accounts whose statements clients read
          Query                      \* searches clients run

VARIABLES statement,  \* the pages of a statement and where the next one starts
          search,     \* the same for SearchTransactions or SearchAccounts
          lookup      \* GetTransaction between its two queries

readVars == <<statement, search, lookup>>

Idle == [phase |-> "idle"]

ReadsInit == statement = Idle /\ search = Idle /\ lookup = Idle

\* The switch on q.Limit in the service.
Clamp(limit) == IF limit <= 0 THEN DefaultLimit ELSE Min({limit, MaxLimit})
PageSizes == {Clamp(l) : l \in 0..MaxLimit + 1}

-----------------------------------------------------------------------------
(* Balances                                                                *)

\* The physical CTE: the account and its shards.
Physical(a) == {a} \cup ShardsOf(a)

Column(s) == IF s = "DEBIT" THEN "debit" ELSE "credit"

\* journal_entries of account a in the transactions xs, in an order that
\* created_at and then the entry's id give them.
EntriesOf(xs, a) ==
  {e \in {[at |-> began[x], tx |-> x, account |-> b, side |-> s] :
            x \in xs, b \in Physical(a), s \in {"DEBIT", "CREDIT"}} :
     journal[e.tx][Column(e.side)][e.account] # 0}

Before(e, f) ==
  \/ e.at < f.at
  \/ e.at = f.at /\ \/ e.tx < f.tx
                    \/ e.tx = f.tx /\ \/ e.account < f.account
                                      \/ e.account = f.account
                                         /\ e.side = "DEBIT" /\ f.side = "CREDIT"

\* je.direction = a.normal_balance counts up, the other one down.
Signed(a, e) ==
  LET amount == journal[e.tx][Column(e.side)][e.account]
  IN IF e.side = NormalBalance[a] THEN amount ELSE -amount

SumOf(a, entries) == MapThenSumSet(LAMBDA e : Signed(a, e), entries)

\* MUTANT: the row of the account alone.
GetBalanceUnsharded(a) == [available |-> available[a], version |-> version[a]]

\* GetBalance, on the primary.
GetBalance(a) == [available |-> MapThenSumSet(LAMBDA b : available[b], Physical(a)),
                  version |-> MapThenSumSet(LAMBDA b : version[b], Physical(a))]

\* GetBalanceAsOf, on the standby.
GetBalanceAsOf(a, t) == SumOf(a, {e \in EntriesOf(OnReplica, a) : e.at <= t})

-----------------------------------------------------------------------------
(* GetStatement                                                            *)

\* (From, uuid.Nil): below every entry stamped From.
Start(from) == [at |-> from, tx |-> 0, account |-> 0, side |-> "DEBIT"]

\* The first n of a set of rows.
FirstOf(rows, n) == {e \in rows : Cardinality({f \in rows : Before(f, e)}) < n}

\* The cursor a client brings back: the last line of the page.
LastOf(rows) == CHOOSE e \in rows : \A f \in rows \ {e} : Before(f, e)

\* A statement before its first page.  What a reader may rely on is fixed when
\* that page is read.
Reading(a, from, to) ==
  [phase |-> "reading", account |-> a, from |-> from, to |-> to,
   cursor |-> Start(from), pages |-> <<>>,
   there |-> {e \in EntriesOf(OnReplica, a) : e.at \in from..to},
   settled |-> Settled(to)]

\* MUTANT: LIMIT n OFFSET as many lines as the client has seen.
PageByOffset(s, n) ==
  LET entries == EntriesOf(OnReplica, s.account)
      period == {e \in entries : e.at \in s.from..s.to}
      offset == MapThenSumSet(LAMBDA i : Cardinality(s.pages[i].lines), DOMAIN s.pages)
      seen == FirstOf(period, offset)
      rest == period \ seen
      lines == FirstOf(rest, n)
  IN [opening |-> SumOf(s.account, {e \in entries : e.at < s.from} \cup seen),
      lines |-> lines, more |-> lines # rest]

\* MUTANT: the opening balance is the one before the period, on every page.
PageOpeningOnce(s, n) ==
  LET entries == EntriesOf(OnReplica, s.account)
      rest == {e \in entries : Before(s.cursor, e) /\ e.at <= s.to}
      lines == FirstOf(rest, n)
  IN [opening |-> SumOf(s.account, {e \in entries : ~Before(Start(s.from), e)}),
      lines |-> lines, more |-> lines # rest]

\* One page of at most n lines, from one snapshot of the standby: the entries
\* after the cursor, and the sum of all up to it as the opening balance.
Page(s, n) ==
  LET entries == EntriesOf(OnReplica, s.account)
      rest == {e \in entries : Before(s.cursor, e) /\ e.at <= s.to}
      lines == FirstOf(rest, n)
  IN [opening |-> SumOf(s.account, {e \in entries : ~Before(s.cursor, e)}),
      lines |-> lines, more |-> lines # rest]

\* The client keeps the page, and its cursor if there are more.
Turned(s, p) ==
  [s EXCEPT !.pages = Append(@, p),
            !.cursor = IF p.more THEN LastOf(p.lines) ELSE @,
            !.phase = IF p.more THEN "reading" ELSE "read"]

\* The first page of a period, which may reach into the future.
GetStatement(a, from, to, n) ==
  /\ statement.phase = "idle"
  /\ a \in AccountsIn(replayed)
  /\ from <= to
  /\ LET s == Reading(a, from, to) IN statement' = Turned(s, Page(s, n))
  /\ UNCHANGED <<historyVars, search, lookup>>

\* The page after the cursor that came with the last one.
GetStatementAfter(n) ==
  /\ statement.phase = "reading"
  /\ statement' = Turned(statement, Page(statement, n))
  /\ UNCHANGED <<historyVars, search, lookup>>

Closing(i) == LET p == statement.pages[i]
              IN p.opening + SumOf(statement.account, p.lines)

-----------------------------------------------------------------------------
(* SearchTransactions and SearchAccounts                                   *)

\* The WHERE clause of SearchTransactions on the standby.  Only the account
\* itself counts, and not its shards.
MatchingTransactions(q) ==
  {x \in OnReplica :
     /\ began[x] \in q.from..q.to
     /\ q.status # None => StatusIn(OnReplica, x) = q.status
     /\ q.account # None => q.account \in Touched(journal[x])}

\* The WHERE clause of SearchAccounts, which hides shards.
MatchingAccounts(q) ==
  {a \in AccountsIn(replayed) :
     /\ ParentOf[a] = None
     /\ q.currency # None => CurrencyOf[a] = q.currency}

Matching(q) == IF q.of = "transactions" THEN MatchingTransactions(q) ELSE MatchingAccounts(q)

\* ORDER BY id DESC LIMIT n.
Newest(ids, n) == {i \in ids : Cardinality({j \in ids : j > i}) < n}

\* The cursor a client brings back: the last id of the page.
IdCursor(page) == Min(page)

\* MUTANT: the cursor is the first row of the page that was left out, and
\* comes with the strict comparison.
FoundSkipping(s, n) ==
  LET rest == {i \in Matching(s.query) : s.after = None \/ i < s.after}
      page == Newest(rest, n)
  IN [s EXCEPT !.shown = Append(@, page),
               !.after = IF page = rest THEN @ ELSE Max(rest \ page),
               !.phase = IF page = rest THEN "read" ELSE "reading"]

\* A search with one page more, newest id first.
Found(s, n) ==
  LET rest == {i \in Matching(s.query) : s.after = None \/ i < s.after}
      page == Newest(rest, n)
  IN [s EXCEPT !.shown = Append(@, page),
               !.after = IF page = rest THEN @ ELSE IdCursor(page),
               !.phase = IF page = rest THEN "read" ELSE "reading"]

\* The first page.
Search(q, n) ==
  /\ search.phase = "idle"
  /\ q.of = "transactions" => q.from <= q.to
  /\ search' = Found([phase |-> "reading", query |-> q, after |-> None,
                      shown |-> <<>>, there |-> Matching(q)], n)
  /\ UNCHANGED <<historyVars, statement, lookup>>

SearchAfter(n) ==
  /\ search.phase = "reading"
  /\ search' = Found(search, n)
  /\ UNCHANGED <<historyVars, statement, lookup>>

-----------------------------------------------------------------------------
(* GetTransaction                                                          *)

\* MUTANT: the header comes from the primary.
ReadHeaderPrimary(x) ==
  /\ lookup.phase = "idle"
  /\ x \in Committed
  /\ lookup' = [phase |-> "header", tx |-> x, status |-> StatusIn(Committed, x)]
  /\ UNCHANGED <<historyVars, statement, search>>

\* The first query; without a row the answer is ErrTransactionNotFound.
ReadHeader(x) ==
  /\ lookup.phase = "idle"
  /\ x \in OnReplica
  /\ lookup' = [phase |-> "header", tx |-> x, status |-> StatusIn(OnReplica, x)]
  /\ UNCHANGED <<historyVars, statement, search>>

\* The second one.
ReadEntries ==
  /\ lookup.phase = "header"
  /\ lookup' = [phase |-> "read", tx |-> lookup.tx, status |-> lookup.status,
                legs |-> IF lookup.tx \in OnReplica THEN journal[lookup.tx] ELSE NoLegs]
  /\ UNCHANGED <<historyVars, statement, search>>

-----------------------------------------------------------------------------
ReadStatement ==
  \E n \in PageSizes :
    \/ \E a \in Asked, from, to \in Instant : GetStatement(a, from, to, n)
    \/ GetStatementAfter(n)

ReadSearch(of) ==
  \E n \in PageSizes : SearchAfter(n) \/ \E q \in Query : q.of = of /\ Search(q, n)

GetTransaction == ReadEntries \/ \E x \in TxId : ReadHeader(x)

-----------------------------------------------------------------------------
(* Properties                                                              *)

\* Keyset pagination: every entry that was there when the first page was read is
\* on one page, none is on two, and the pages are in order, whatever is committed
\* or replayed between them; with OFFSET a client "silently skips rows" or sees
\* one twice.
StatementSkipsNothing ==
  statement.phase # "idle" =>
    LET pages == statement.pages IN
    /\ \A i, j \in DOMAIN pages : i < j =>
         \A e \in pages[i].lines, f \in pages[j].lines : Before(e, f)
    /\ statement.phase = "read" =>
         statement.there \subseteq UNION {pages[i].lines : i \in DOMAIN pages}

\* The opening balance "on page three [...] is the closing balance of page two,
\* so the running totals stay continuous across pages", and the last one closes at the balance as of
\* the end of the period: in a period that was over, with nothing of it still
\* in flight, when its first page was read.
StatementAddsUp ==
  statement.phase # "idle" /\ statement.settled =>
    LET pages == statement.pages IN
    /\ \A i \in DOMAIN pages : i > 1 => pages[i].opening = Closing(i - 1)
    /\ statement.phase = "read" =>
         Closing(Len(pages)) = GetBalanceAsOf(statement.account, statement.to)

\* "The answer is therefore monotonic only once no transaction older than the
\* requested instant is still in flight": from then on it never changes again.
AsOfSettles ==
  [][\A t \in Instant : Settled(t) =>
       /\ Settled(t)'
       /\ \A a \in Account : GetBalanceAsOf(a, t)' = GetBalanceAsOf(a, t)]_historyVars

\* A search lists what matched when it started and still does, once and newest
\* first, and never a shard.
SearchSkipsNothing ==
  search.phase # "idle" =>
    LET shown == search.shown IN
    /\ \A i, j \in DOMAIN shown : i < j => \A r \in shown[i], s \in shown[j] : r > s
    /\ search.phase = "read" =>
         search.there \cap Matching(search.query) \subseteq UNION {shown[i] : i \in DOMAIN shown}
    /\ search.query.of = "accounts" =>
         \A i \in DOMAIN shown : \A a \in shown[i] : ParentOf[a] = None

\* A transaction that is found comes with the entries it was posted with.
TransactionIsWhole ==
  lookup.phase = "read" => /\ lookup.legs = journal[lookup.tx]
                           /\ Cardinality(Touched(lookup.legs)) > 0
=============================================================================
