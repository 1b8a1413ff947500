--------------------------- MODULE LedgerQueries ---------------------------
(***************************************************************************)
(* The read endpoints of banking next to committing syncs and backfills: a *)
(* client asks for the summary, lists the transactions behind one of its   *)
(* entries page by page, and opens the transactions it has seen.           *)
(*                                                                         *)
(* A page takes three statements (count, rows, accounts), and each sees    *)
(* what is committed when it starts (READ COMMITTED).  The client asks for *)
(* the next page until one is not full.  Reports are operators on the      *)
(* table.                                                                  *)
(***************************************************************************)
EXTENDS Integers, FiniteSets, FiniteSetsExt

CONSTANTS
  Transactions, Accounts, Jobs,
  Data,          \* Data[t]: [account, job, date, cents, text, first, inferred]
  AccountData,   \* AccountData[a]: [bank, type, card]
  Old,           \* jobs committed from the start
  Filters,       \* queries: [bank, type, card, from, to, category], or None each
  Limit,         \* rows of a page
  TransferCategories,
  None, Absent

\* The importers apply the rules: a row of a later sync has no category only if
\* the rules have none for it.
ASSUME QueryAssumption ==
  /\ Limit \in Nat \ {0} /\ Old \subseteq Jobs /\ IsFiniteSet(Transactions)
  /\ None # Absent
  /\ \A f \in Filters : f = [bank |-> f.bank, type |-> f.type, card |-> f.card,
                              from |-> f.from, to |-> f.to, category |-> f.category]
  /\ \A t \in Transactions : /\ Data[t].account \in Accounts /\ Data[t].job \in Jobs
                             /\ Data[t].date \in Nat /\ Data[t].cents \in Int
                             /\ Data[t].first # Absent /\ Data[t].inferred # Absent
                             /\ Data[t].job \notin Old /\ Data[t].first = None =>
                                  Data[t].inferred = None

VARIABLES
  jobs, accounts,  \* committed jobs and accounts
  category,        \* committed: the category of each transaction, or Absent
  step,            \* where the client stands
  filter, offset,  \* its query
  total, page,     \* what the statements of its page have returned
  seen,            \* rows on its pages
  unresolved,      \* rows shown without their account, or not found by id
  promised,        \* how many rows the summary counted in the entry it lists
  there            \* history: the rows it was to find when it began

table == <<jobs, accounts, category>>
client == <<step, filter, offset, total, page, seen, unresolved, promised, there>>
vars == <<table, client>>

Stored == {t \in Transactions : category[t] # Absent}
AccountOf(t) == AccountData[Data[t].account]

\* A condition of a query that may be left out.
Holds(wanted, value) == wanted = None \/ wanted = value
From(f, t) == f.from = None \/ Data[t].date >= f.from
To(f, t) == f.to = None \/ Data[t].date <= f.to

\* Mutant: the end of the period is left out.
MatchingBefore(f) ==
  {t \in Stored : /\ Holds(f.bank, AccountOf(t).bank) /\ Holds(f.type, AccountOf(t).type)
                  /\ Holds(f.card, AccountOf(t).card) /\ Holds(f.category, category[t])
                  /\ From(f, t) /\ (f.to = None \/ Data[t].date < f.to)}

\* The rows of list_transactions.
Matching(f) ==
  {t \in Stored : /\ Holds(f.bank, AccountOf(t).bank) /\ Holds(f.type, AccountOf(t).type)
                  /\ Holds(f.card, AccountOf(t).card) /\ Holds(f.category, category[t])
                  /\ From(f, t) /\ To(f, t)}

-----------------------------------------------------------------------------
(* The reports. *)

\* The rows of the reports, which have no filter for cards.
Reported(f) ==
  {t \in Stored : /\ Holds(f.bank, AccountOf(t).bank) /\ Holds(f.type, AccountOf(t).type)
                  /\ From(f, t) /\ To(f, t)}
Spending(f) == {t \in Reported(f) : Data[t].cents > 0}

Cents(T) == MapThenSumSet(LAMBDA t : Data[t].cents, T)

\* Totals of the groups of T with equal keys; key is a function of the rows.
GroupBy(T, key) ==
  {LET group == {t \in T : key[t] = k}
   IN  [key |-> k, total |-> Cents(group), count |-> Cardinality(group)] :
   k \in {key[t] : t \in T}}

Summary(f) ==
  GroupBy(Spending(f), [t \in Spending(f) |-> <<AccountOf(t).bank, category[t]>>])

\* min_total is left out when it is None or zero.
ByDescription(f, minTotal) ==
  {g \in GroupBy({t \in Spending(f) : Holds(f.category, category[t])},
                 [t \in Spending(f) |-> <<AccountOf(t).bank, Data[t].text, category[t]>>]) :
     minTotal = 0 \/ g.total >= minTotal}

DaysOfMonth == 30
Month(t) == Data[t].date \div DaysOfMonth

\* Expense and income of each month: greatest(amount, 0) and greatest(-amount, 0).
CashFlow(f) ==
  {LET rows == {t \in Reported(f) : Month(t) = mon}
   IN  [month |-> mon, count |-> Cardinality(rows),
        expense |-> Cents({t \in rows : Data[t].cents > 0}),
        income |-> -Cents({t \in rows : Data[t].cents < 0})] :
   mon \in {Month(t) : t \in Reported(f)}}

\* Mutant: NOT IN alone, which is not true of NULL.
NotTransferAlone(t) == category[t] # None /\ category[t] \notin TransferCategories

NotTransfer(t) == category[t] = None \/ category[t] \notin TransferCategories

SpendVsTransfers(f) ==
  [by_category |-> GroupBy({t \in Spending(f) : NotTransfer(t)}, category),
   transfers |-> {t \in Spending(f) : category[t] # None /\ category[t] \in TransferCategories}]

Totals(groups) == MapThenSumSet(LAMBDA g : g.total, groups)
Counts(groups) == MapThenSumSet(LAMBDA g : g.count, groups)

-----------------------------------------------------------------------------
(* The writers. *)

Init ==
  /\ jobs = Old
  /\ accounts = {Data[t].account : t \in {u \in Transactions : Data[u].job \in Old}}
  /\ category = [t \in Transactions |->
                   IF Data[t].job \in Old THEN Data[t].first ELSE Absent]
  /\ step = "idle" /\ filter = None /\ offset = 0 /\ total = 0
  /\ page = {} /\ seen = {} /\ unresolved = {} /\ promised = 0 /\ there = {}

Imported(j) ==
  category' = [t \in Transactions |-> IF Data[t].job = j THEN Data[t].first ELSE category[t]]

\* Mutant: rows are committed before their job and account.
SyncCommitsRows(j) ==
  /\ j \notin jobs
  /\ Imported(j)
  /\ \/ UNCHANGED <<jobs, accounts>>
     \/ /\ jobs' = jobs \union {j}
        /\ accounts' = accounts \union {Data[t].account : t \in {u \in Transactions : Data[u].job = j}}
  /\ UNCHANGED client

\* A sync commits a statement: its account, its job and its rows.
SyncCommits(j) ==
  /\ j \notin jobs
  /\ jobs' = jobs \union {j}
  /\ accounts' = accounts \union {Data[t].account : t \in {u \in Transactions : Data[u].job = j}}
  /\ Imported(j)
  /\ UNCHANGED client

\* A backfill commits the category of a row that had none.
BackfillCommits(t) ==
  /\ category[t] = None /\ Data[t].inferred # None
  /\ category' = [category EXCEPT ![t] = Data[t].inferred]
  /\ UNCHANGED <<jobs, accounts, client>>

-----------------------------------------------------------------------------
(* The client. *)

\* It begins to list what a query selects.
List(f, count) ==
  /\ step' = "count"
  /\ filter' = f
  /\ promised' = count
  /\ there' = Matching(f)
  /\ offset' = 0 /\ total' = 0 /\ page' = {} /\ seen' = {} /\ unresolved' = {}
  /\ UNCHANGED table

ListTransactions(f) == step \in {"idle", "done"} /\ List(f, 0)

\* GET /summary, and then the list behind one of its entries.
ListEntry(f) ==
  /\ step \in {"idle", "done"}
  /\ \E g \in Summary(f) :
       /\ g.key[2] # None
       /\ List([f EXCEPT !.bank = g.key[1], !.category = g.key[2], !.card = None], g.count)

\* Mutant: all rows of the table are counted.
CountAll ==
  /\ step = "count"
  /\ total' = Cardinality(Stored)
  /\ step' = "rows"
  /\ UNCHANGED <<table, filter, offset, page, seen, unresolved, promised, there>>

Count ==
  /\ step = "count"
  /\ total' = Cardinality(Matching(filter))
  /\ step' = "rows"
  /\ UNCHANGED <<table, filter, offset, page, seen, unresolved, promised, there>>

\* Mutant: any rows may come first.
FirstOfAny(rows, n) == {S \in SUBSET rows : Cardinality(S) = Min({n, Cardinality(rows)})}

\* What may be the first n rows: ORDER BY date DESC, in any order within a date.
First(rows, n) ==
  {S \in SUBSET rows :
     /\ Cardinality(S) = Min({n, Cardinality(rows)})
     /\ \A s \in S, t \in rows \ S : Data[s].date >= Data[t].date}

\* Mutant: LIMIT is forgotten.
SelectAll ==
  /\ step = "rows"
  /\ page' = Matching(filter)
  /\ step' = "accounts"
  /\ UNCHANGED <<table, filter, offset, total, seen, unresolved, promised, there>>

SelectRows ==
  /\ step = "rows"
  /\ \E skipped \in First(Matching(filter), offset) :
       \E P \in First(Matching(filter) \ skipped, Limit) : page' = P
  /\ step' = "accounts"
  /\ UNCHANGED <<table, filter, offset, total, seen, unresolved, promised, there>>

\* The accounts of the page; a row without one is shown with bank "".
ListAccountsByIds ==
  /\ step = "accounts"
  /\ seen' = seen \union page
  /\ unresolved' = unresolved \union {t \in page : Data[t].account \notin accounts}
  /\ IF Cardinality(page) < Limit
     THEN step' = "done" /\ UNCHANGED offset
     ELSE step' = "count" /\ offset' = offset + Limit
  /\ UNCHANGED <<table, filter, total, page, promised, there>>

\* GET /transactions/{id}: an inner join of the row, its job and its account.
GetTransaction(t) ==
  /\ step = "done" /\ t \in seen
  /\ unresolved' = IF t \in Stored /\ Data[t].job \in jobs /\ Data[t].account \in accounts
                   THEN unresolved ELSE unresolved \union {t}
  /\ UNCHANGED <<table, step, filter, offset, total, page, seen, promised, there>>

Next ==
  \/ \E j \in Jobs : SyncCommits(j)
  \/ \E t \in Transactions : BackfillCommits(t) \/ GetTransaction(t)
  \/ \E f \in Filters : ListTransactions(f) \/ ListEntry(f)
  \/ Count \/ SelectRows \/ ListAccountsByIds

Spec == Init /\ [][Next]_vars

-----------------------------------------------------------------------------
(* Properties. *)

\* The types of the table and of the answers; a page is never longer than its
\* limit (repository.py:172-176).
TypeOK ==
  /\ jobs \subseteq Jobs /\ accounts \subseteq Accounts
  /\ \A t \in Transactions : t \in Stored <=> Data[t].job \in jobs
  /\ step \in {"idle", "count", "rows", "accounts", "done"}
  /\ offset \in Nat /\ total \in Nat /\ promised \in Nat
  /\ page \subseteq Stored /\ seen \subseteq Stored /\ there \subseteq Stored
  /\ Cardinality(page) <= Limit

\* A page has at least the rows that the total it comes with leaves for it,
\* although rows are committed after the count (repository.py:170-176).
PageIsFull ==
  step = "accounts" =>
    LET left == total - offset
    IN  Cardinality(page) >= Min({left, Limit})

\* Who pages until a page is not full has seen each row that was there at the
\* beginning and has its date alone, although each page is a new query and
\* syncs and backfills add rows between them (repository.py:172-176).
PagingMissesNothing ==
  step = "done" =>
    \A t \in there :
      t \in seen \/ \E s \in Matching(filter) \ {t} : Data[s].date = Data[t].date

\* No row is shown without its bank, and none that was shown is answered with
\* 404 when it is opened (router.py:176-186, 279-281).
EveryRowResolves == unresolved = {}

\* The list behind an entry of the summary has the transactions that the
\* entry counted, although it is asked for later (repository.py:186-205, 156-168).
EntryIsListed == step = "rows" => total >= promised

\* The reports add up to each other whatever is stored and selected: the
\* summary, the descriptions, the expenses of the months and the two sides of
\* spend-vs-transfers count the same spending, and a minimum only leaves
\* out groups that are below it (repository.py:179-361).
ReportsAddUp ==
  \A f \in {[g EXCEPT !.card = None, !.category = None] : g \in Filters} :
    LET spend == SpendVsTransfers(f)
        spent == Totals(Summary(f))
    IN  /\ spent = Totals(ByDescription(f, 0))
        /\ spent = MapThenSumSet(LAMBDA r : r.expense, CashFlow(f))
        /\ spent = Totals(spend.by_category) + Cents(spend.transfers)
        /\ Counts(Summary(f)) = Counts(spend.by_category) + Cardinality(spend.transfers)
        /\ \A g \in ByDescription(f, 0) \ ByDescription(f, 500) : g.total < 500
=============================================================================
