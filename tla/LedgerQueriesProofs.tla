------------------------ MODULE LedgerQueriesProofs ------------------------
(***************************************************************************)
(* Proofs about LedgerQueries, for any table, any queries and any size of  *)
(* a page: what the writers commit only adds to what a query selects, and  *)
(* so pages are full, none is missed, and the entries of the summary are   *)
(* listed; and the reports add up in every state of the table.             *)
(***************************************************************************)
EXTENDS LedgerQueries, FiniteSetTheorems, WellFoundedInduction, TLAPS

\* Each row is committed with its job and its account.
Resolved ==
  /\ category = [t \in Transactions |-> category[t]]
  /\ \A t \in Stored : Data[t].account \in accounts /\ Data[t].job \in jobs

\* What was to be found is still selected, and what was counted too.
Counted ==
  /\ step # "idle" => /\ there \subseteq Matching(filter)
                      /\ promised <= Cardinality(Matching(filter))
  /\ step = "rows" => total <= Cardinality(Matching(filter)) /\ total >= promised

\* The selected rows that are surely listed before t.
Newer(t) == {s \in Matching(filter) : Data[s].date > Data[t].date}
Rank(t) == Cardinality(Newer(t))

\* No other row that is selected has the date of t.
Alone(t) == \A s \in Matching(filter) \ {t} : Data[s].date # Data[t].date

\* A row with its date alone that no page has shown comes after the pages shown.
Ahead ==
  \A t \in there : Alone(t) =>
    /\ step \in {"count", "rows"} => t \in seen \/ Rank(t) >= offset
    /\ step = "accounts" => \/ t \in seen \union page
                            \/ Cardinality(page) = Limit /\ Rank(t) >= offset + Limit
    /\ step = "done" => t \in seen

IInv == TypeOK /\ Resolved /\ Counted /\ Ahead /\ PageIsFull /\ EveryRowResolves

-----------------------------------------------------------------------------
(* Finite sets of rows. *)

\* The smaller of two numbers.
LEMMA MinOfTwo ==
  ASSUME NEW a \in Int, NEW b \in Int
  PROVE  Min({a, b}) = IF a <= b THEN a ELSE b
<1>1. \E x \in {a, b} : \A y \in {a, b} : x =< y
  OBVIOUS
<1>2. Min({a, b}) \in {a, b} /\ \A y \in {a, b} : Min({a, b}) =< y
  BY <1>1 DEF Min
<1> QED
  BY <1>2

\* Sets of stored rows are finite, and can be counted.
LEMMA RowsAreFinite ==
  ASSUME NEW T, T \subseteq Transactions
  PROVE  IsFiniteSet(T) /\ Cardinality(T) \in Nat
BY QueryAssumption, FS_Subset, FS_CardinalityType

\* More rows count for more.
LEMMA RowsGrow ==
  ASSUME NEW T, NEW U, T \subseteq U, U \subseteq Transactions
  PROVE  Cardinality(T) <= Cardinality(U)
<1>1. IsFiniteSet(U)
  BY RowsAreFinite
<1> QED
  BY <1>1, FS_Subset

\* The number of the first n rows.
LEMMA FirstIsFull ==
  ASSUME NEW rows, rows \subseteq Transactions, NEW n \in Nat, NEW S \in First(rows, n)
  PROVE  /\ S \subseteq rows
         /\ Cardinality(S) = IF n <= Cardinality(rows) THEN n ELSE Cardinality(rows)
         /\ Cardinality(rows \ S) = Cardinality(rows) - Cardinality(S)
<1>1. S \subseteq rows /\ Cardinality(S) = Min({n, Cardinality(rows)})
  BY DEF First
<1>2. Cardinality(rows) \in Nat /\ IsFiniteSet(rows)
  BY RowsAreFinite
<1>3. Min({n, Cardinality(rows)}) = IF n <= Cardinality(rows) THEN n ELSE Cardinality(rows)
  BY <1>2, MinOfTwo
<1>4. Cardinality(rows \ S) = Cardinality(rows) - Cardinality(rows \cap S)
  BY <1>2, FS_Difference
<1>5. rows \cap S = S
  BY <1>1
<1> QED
  BY <1>1, <1>3, <1>4, <1>5

\* A row that is not among the first n, and has its date alone, comes after
\* n newer ones.
LEMMA LeftOutIsLater ==
  ASSUME NEW rows, rows \subseteq Transactions, NEW n \in Nat, NEW S \in First(rows, n),
         NEW t \in rows \ S, \A s \in rows \ {t} : Data[s].date # Data[t].date
  PROVE  /\ Cardinality(S) = n
         /\ S \subseteq {s \in rows : Data[s].date > Data[t].date}
<1>1. /\ S \subseteq rows
      /\ Cardinality(S) = IF n <= Cardinality(rows) THEN n ELSE Cardinality(rows)
      /\ Cardinality(rows \ S) = Cardinality(rows) - Cardinality(S)
  BY FirstIsFull
<1>2. IsFiniteSet(rows) /\ Cardinality(rows) \in Nat
  BY RowsAreFinite
<1>3. Cardinality(S) # Cardinality(rows)
  BY <1>1, <1>2, FS_Subset
<1>4. \A s \in S : Data[s].date >= Data[t].date
  BY DEF First
<1>5. \A s \in rows : Data[s].date \in Nat
  BY QueryAssumption
<1>6. \A s \in S : s \in rows /\ s # t
  BY <1>1
<1> QED
  BY <1>1, <1>3, <1>4, <1>5, <1>6

\* A row that has its date alone and n newer ones is not among the first n.
LEMMA FirstAreNewer ==
  ASSUME NEW rows, rows \subseteq Transactions, NEW n \in Nat, NEW S \in First(rows, n),
         NEW t \in S, \A s \in rows \ {t} : Data[s].date # Data[t].date
  PROVE  Cardinality({s \in rows : Data[s].date > Data[t].date}) < n
<1> DEFINE N == {s \in rows : Data[s].date > Data[t].date}
<1>1. /\ S \subseteq rows
      /\ Cardinality(S) = IF n <= Cardinality(rows) THEN n ELSE Cardinality(rows)
  BY FirstIsFull
<1>2. \A s \in N : s \in S
  <2>1. SUFFICES ASSUME NEW s \in N, s \notin S PROVE FALSE
    OBVIOUS
  <2>2. Data[t].date >= Data[s].date
    BY <2>1 DEF First
  <2>3. Data[t].date \in Nat /\ Data[s].date \in Nat
    BY <1>1, QueryAssumption
  <2> QED
    BY <2>1, <2>2, <2>3
<1>3. t \notin N
  <2>1. Data[t].date \in Nat
    BY <1>1, QueryAssumption
  <2> QED
    BY <2>1
<1>4. N \subseteq S \ {t}
  BY <1>2, <1>3
<1>5. IsFiniteSet(S)
  BY <1>1, RowsAreFinite
<1>6. IsFiniteSet(S \ {t}) /\ Cardinality(S \ {t}) = Cardinality(S) - 1
  BY <1>5, FS_RemoveElement
<1>7. Cardinality(N) <= Cardinality(S \ {t})
  BY <1>4, <1>6, FS_Subset
<1>8. Cardinality(S) \in Nat /\ Cardinality(rows) \in Nat /\ Cardinality(N) \in Nat
  BY <1>1, RowsAreFinite
<1> QED
  BY <1>1, <1>6, <1>7, <1>8

-----------------------------------------------------------------------------
(* Writers. *)

\* What a sync or a backfill commits.
Writes ==
  \/ \E j \in Jobs : SyncCommits(j)
  \/ \E t \in Transactions : BackfillCommits(t)

\* A writer keeps the rows that are stored, and the categories that are set.
LEMMA WritersKeepRows ==
  ASSUME TypeOK, Resolved, Writes
  PROVE  /\ category' = [t \in Transactions |-> category'[t]]
         /\ jobs \subseteq jobs' /\ accounts \subseteq accounts'
         /\ \A t \in Stored : /\ category'[t] # Absent
                              /\ category[t] # None => category'[t] = category[t]
         /\ UNCHANGED client
<1>1. CASE \E j \in Jobs : SyncCommits(j)
  <2>1. PICK j \in Jobs : SyncCommits(j)
    BY <1>1
  <2>2. \A t \in Stored : t \in Transactions /\ Data[t].job # j
    BY <2>1 DEF TypeOK, SyncCommits, Stored
  <2> QED
    BY <2>1, <2>2 DEF SyncCommits, Imported, Stored
<1>2. CASE \E t \in Transactions : BackfillCommits(t)
  <2>1. PICK u \in Transactions : BackfillCommits(u)
    BY <1>2
  <2>2. category' = [t \in Transactions |-> IF t = u THEN Data[u].inferred ELSE category[t]]
    BY <2>1 DEF BackfillCommits, Resolved
  <2> QED
    BY <2>1, <2>2, QueryAssumption DEF BackfillCommits, Stored
<1> QED
  BY <1>1, <1>2 DEF Writes

\* What a query selects is still selected after a writer committed.
LEMMA MatchingGrows ==
  ASSUME TypeOK, Resolved, Writes, NEW f
  PROVE  Matching(f) \subseteq Matching(f)'
<1>1. \A t \in Stored : t \in Stored'
  BY WritersKeepRows DEF Stored
<1>2. \A t \in Stored : Holds(f.category, category[t]) => Holds(f.category, category'[t])
  BY WritersKeepRows DEF Holds
<1> QED
  BY <1>1, <1>2 DEF Matching, From, To, AccountOf

\* What is selected is stored.
LEMMA MatchingIsStored ==
  ASSUME NEW f
  PROVE  Matching(f) \subseteq Stored /\ Stored \subseteq Transactions
BY DEF Matching, Stored

\* Newer rows stay newer rows, and there are not fewer of them.
LEMMA RankGrows ==
  ASSUME TypeOK, Resolved, Writes, NEW t
  PROVE  Rank(t) \in Nat /\ Rank(t)' \in Nat /\ Rank(t)' >= Rank(t) /\ (Alone(t)' => Alone(t))
<1>1. filter' = filter
  BY WritersKeepRows DEF client
<1>2. Matching(filter) \subseteq Matching(filter)'
  BY <1>1, MatchingGrows
<1>3. Matching(filter)' \subseteq Transactions
  BY DEF Matching, Stored
<1>4. Newer(t) \subseteq Newer(t)' /\ Newer(t)' \subseteq Transactions
  BY <1>2, <1>3 DEF Newer
<1>5. Cardinality(Newer(t)) <= Cardinality(Newer(t)')
  BY <1>4, RowsGrow
<1>6. Cardinality(Newer(t)) \in Nat /\ Cardinality(Newer(t)') \in Nat
  BY <1>4, RowsAreFinite
<1> QED
  BY <1>2, <1>5, <1>6 DEF Rank, Alone

\* Rows are stored with their jobs after a sync too.
LEMMA SyncKeepsTypes ==
  ASSUME TypeOK, Resolved, NEW j \in Jobs, SyncCommits(j)
  PROVE  TypeOK' /\ Resolved'
<1>1. Writes
  BY DEF Writes
<1>2. UNCHANGED client /\ Stored \subseteq Stored'
  BY <1>1, WritersKeepRows DEF Stored
<1>3. jobs' \subseteq Jobs /\ accounts' \subseteq Accounts
  BY QueryAssumption DEF SyncCommits, TypeOK
<1>4. \A t \in Transactions :
        category'[t] = IF Data[t].job = j THEN Data[t].first ELSE category[t]
  BY DEF SyncCommits, Imported
<1>5. \A t \in Transactions : t \in Stored' <=> t \in Stored \/ Data[t].job = j
  BY <1>4, QueryAssumption DEF Stored, TypeOK
<1>6. \A t \in Transactions : t \in Stored' <=> Data[t].job \in jobs'
  BY <1>5 DEF SyncCommits, TypeOK
<1>7. \A t \in Stored' : Data[t].account \in accounts' /\ Data[t].job \in jobs'
  <2>1. \A t \in Stored' : t \in Transactions
    BY DEF Stored
  <2> QED
    BY <1>5, <2>1 DEF SyncCommits, Resolved
<1>8. category' = [t \in Transactions |-> category'[t]]
  BY <1>1, WritersKeepRows
<1> QED
  BY <1>2, <1>3, <1>6, <1>7, <1>8 DEF TypeOK, Resolved, client

\* A backfill stores no row.
LEMMA BackfillKeepsTypes ==
  ASSUME TypeOK, Resolved, NEW u \in Transactions, BackfillCommits(u)
  PROVE  TypeOK' /\ Resolved'
<1>1. Writes
  BY DEF Writes
<1>2. UNCHANGED client /\ UNCHANGED <<jobs, accounts>>
  BY DEF BackfillCommits
<1>3. category' = [t \in Transactions |-> IF t = u THEN Data[u].inferred ELSE category[t]]
  BY DEF BackfillCommits, Resolved
<1>4. Stored' = Stored
  BY <1>3, QueryAssumption DEF BackfillCommits, Stored
<1>5. category' = [t \in Transactions |-> category'[t]]
  BY <1>1, WritersKeepRows
<1> QED
  BY <1>2, <1>4, <1>5 DEF TypeOK, Resolved, client

\* No writer takes away what a client was to find.
LEMMA WritersKeepIInv ==
  ASSUME IInv, Writes
  PROVE  IInv'
<1> USE DEF IInv
<1>1. UNCHANGED client
  BY WritersKeepRows
<1>2. TypeOK' /\ Resolved'
  BY SyncKeepsTypes, BackfillKeepsTypes DEF Writes
<1>3. Matching(filter) \subseteq Matching(filter)'
  BY <1>1, MatchingGrows DEF client
<1>4. Counted'
  <2>1. Matching(filter)' \subseteq Transactions
    BY DEF Matching, Stored
  <2>2. Cardinality(Matching(filter)) <= Cardinality(Matching(filter)')
    BY <1>3, <2>1, RowsGrow
  <2>3. Cardinality(Matching(filter)) \in Nat /\ Cardinality(Matching(filter)') \in Nat
    BY <1>3, <2>1, RowsAreFinite
  <2> QED
    BY <1>1, <1>3, <2>2, <2>3 DEF Counted, client, TypeOK
<1>5. Ahead'
  <2>1. SUFFICES ASSUME NEW t \in there, Alone(t)'
                 PROVE  /\ step \in {"count", "rows"} => t \in seen \/ Rank(t)' >= offset
                        /\ step = "accounts" =>
                             \/ t \in seen \union page
                             \/ Cardinality(page) = Limit /\ Rank(t)' >= offset + Limit
                        /\ step = "done" => t \in seen
    BY <1>1 DEF Ahead, client
  <2>2. Rank(t) \in Nat /\ Rank(t)' \in Nat /\ Rank(t)' >= Rank(t) /\ Alone(t)
    BY <2>1, RankGrows
  <2> QED
    BY <2>1, <2>2, QueryAssumption DEF Ahead, TypeOK
<1>6. PageIsFull'
  BY <1>1 DEF PageIsFull, client
<1>7. EveryRowResolves'
  BY <1>1 DEF EveryRowResolves, client
<1> QED
  BY <1>2, <1>4, <1>5, <1>6, <1>7

-----------------------------------------------------------------------------
(* The client. *)

\* No table, no page.
LEMMA InitHolds ==
  ASSUME Init
  PROVE  IInv
<1>1. \A t \in Transactions : t \in Stored <=> Data[t].job \in Old
  BY QueryAssumption DEF Init, Stored
<1>2. Cardinality({}) = 0
  BY FS_EmptySet
<1>3. TypeOK
  BY <1>1, <1>2, QueryAssumption DEF Init, TypeOK
<1>4. Resolved
  <2>1. \A t \in Stored : t \in Transactions
    BY DEF Stored
  <2>2. category = [t \in Transactions |-> category[t]]
    BY DEF Init
  <2> QED
    BY <1>1, <2>1, <2>2 DEF Init, Resolved
<1> QED
  BY <1>3, <1>4 DEF Init, IInv, Counted, Ahead, PageIsFull, EveryRowResolves

\* A list begins with an entry that counts no more rows than it has.
LEMMA ListKeepsIInv ==
  ASSUME IInv, NEW f, NEW count \in Nat, count <= Cardinality(Matching(f)), List(f, count)
  PROVE  IInv'
<1> USE DEF IInv
<1>1. UNCHANGED table /\ filter' = f /\ step' = "count" /\ promised' = count
  BY DEF List
<1>2. Matching(filter)' = Matching(f) /\ Stored' = Stored
  BY <1>1 DEF Matching, Stored, table, AccountOf, From, To
<1>3. Matching(f) \subseteq Stored /\ Stored \subseteq Transactions
  BY MatchingIsStored
<1>4. Cardinality({}) = 0
  BY FS_EmptySet
<1>5. TypeOK'
  BY <1>1, <1>2, <1>3, <1>4, QueryAssumption DEF TypeOK, List, table
<1>6. Resolved'
  BY <1>1, <1>2 DEF Resolved, table
<1>7. Counted'
  BY <1>1, <1>2 DEF Counted, List
<1>8. Ahead'
  <2>1. \A t : Rank(t)' \in Nat
    <3>1. SUFFICES ASSUME NEW t PROVE Rank(t)' \in Nat
      OBVIOUS
    <3>2. Newer(t)' \subseteq Transactions
      BY <1>2, <1>3 DEF Newer
    <3>3. Cardinality(Newer(t)') \in Nat
      BY <3>2, RowsAreFinite
    <3> QED
      BY <3>3 DEF Rank
  <2> QED
    BY <1>1, <2>1 DEF Ahead, List
<1>9. PageIsFull' /\ EveryRowResolves'
  BY DEF List, PageIsFull, EveryRowResolves
<1> QED
  BY <1>5, <1>6, <1>7, <1>8, <1>9

\* The rows that an entry of the summary counts are the ones that the query
\* behind it selects.
LEMMA EntryIsSelected ==
  ASSUME NEW f \in Filters, NEW g \in Summary(f)
  PROVE  /\ g.count \in Nat
         /\ g.count <= Cardinality(Matching([f EXCEPT !.bank = g.key[1],
                                                      !.category = g.key[2], !.card = None]))
<1> DEFINE e == [f EXCEPT !.bank = g.key[1], !.category = g.key[2], !.card = None]
           key == [t \in Spending(f) |-> <<AccountOf(t).bank, category[t]>>]
<1>1. PICK k \in {key[t] : t \in Spending(f)} :
        g = [key |-> k, total |-> Cents({t \in Spending(f) : key[t] = k}),
             count |-> Cardinality({t \in Spending(f) : key[t] = k})]
  BY DEF Summary, GroupBy
<1> DEFINE group == {t \in Spending(f) : key[t] = k}
<1>2. g.key = k /\ g.count = Cardinality(group)
  BY <1>1
<1>3. f = [bank |-> f.bank, type |-> f.type, card |-> f.card,
           from |-> f.from, to |-> f.to, category |-> f.category]
  BY QueryAssumption
<1>4. /\ e.bank = k[1] /\ e.category = k[2] /\ e.card = None
      /\ e.type = f.type /\ e.from = f.from /\ e.to = f.to
  BY <1>2, <1>3
<1>5. \A t \in group : /\ t \in Spending(f)
                       /\ AccountOf(t).bank = k[1] /\ category[t] = k[2]
  BY <1>1
<1>6. \A t \in Spending(f) : /\ t \in Stored /\ Holds(f.type, AccountOf(t).type)
                             /\ From(f, t) /\ To(f, t)
  BY DEF Spending, Reported
<1>7. \A t \in group : t \in Matching(e)
  BY <1>4, <1>5, <1>6 DEF Matching, Holds, From, To
<1>8. group \subseteq Matching(e) /\ Matching(e) \subseteq Transactions
  BY <1>7, MatchingIsStored
<1>9. Cardinality(group) \in Nat /\ Cardinality(group) <= Cardinality(Matching(e))
  BY <1>8, RowsAreFinite, RowsGrow
<1> QED
  BY <1>2, <1>9

\* A count sees what was to be found.
LEMMA CountKeepsIInv ==
  ASSUME IInv, Count
  PROVE  IInv'
<1> USE DEF IInv
<1>1. /\ UNCHANGED <<table, filter, offset, page, seen, unresolved, promised, there>>
      /\ step = "count" /\ step' = "rows" /\ total' = Cardinality(Matching(filter))
  BY DEF Count
<1>2. Matching(filter)' = Matching(filter) /\ Stored' = Stored
  BY <1>1 DEF Matching, Stored, table, AccountOf, From, To
<1>3. Cardinality(Matching(filter)) \in Nat
  BY MatchingIsStored, RowsAreFinite
<1>4. TypeOK'
  BY <1>1, <1>2, <1>3 DEF TypeOK, table
<1>5. Resolved'
  BY <1>1, <1>2 DEF Resolved, table
<1>6. Counted'
  BY <1>1, <1>2, <1>3 DEF Counted, TypeOK
<1>7. Ahead'
  BY <1>1, <1>2 DEF Ahead, Alone, Rank, Newer
<1> QED
  BY <1>1, <1>4, <1>5, <1>6, <1>7 DEF PageIsFull, EveryRowResolves

\* A page has its rows: one that is alone on its date is on it, or comes
\* after it, if it was not before it.
LEMMA PageOfRows ==
  ASSUME NEW rows, rows \subseteq Transactions, NEW n \in Nat,
         NEW skipped \in First(rows, n), NEW P \in First(rows \ skipped, Limit),
         NEW t \in rows, \A s \in rows \ {t} : Data[s].date # Data[t].date,
         Cardinality({s \in rows : Data[s].date > Data[t].date}) >= n
  PROVE  \/ t \in P
         \/ /\ Cardinality(P) = Limit
            /\ Cardinality({s \in rows : Data[s].date > Data[t].date}) >= n + Limit
<1> DEFINE N == {s \in rows : Data[s].date > Data[t].date}
<1>1. N \subseteq Transactions /\ IsFiniteSet(N) /\ Cardinality(N) \in Nat
  BY RowsAreFinite
<1>2. t \notin skipped
  <2>1. SUFFICES ASSUME t \in skipped PROVE FALSE
    OBVIOUS
  <2>2. Cardinality({s \in rows : Data[s].date > Data[t].date}) < n
    BY <2>1, FirstAreNewer
  <2> QED
    BY <1>1, <2>2
<1>3. Cardinality(skipped) = n /\ skipped \subseteq N
  BY <1>2, LeftOutIsLater
<1>4. SUFFICES ASSUME t \notin P PROVE Cardinality(P) = Limit /\ Cardinality(N) >= n + Limit
  OBVIOUS
<1>5. Limit \in Nat
  BY QueryAssumption
<1>6. t \in (rows \ skipped) \ P
  BY <1>2, <1>4
<1>7. /\ Cardinality(P) = Limit
      /\ P \subseteq {s \in rows \ skipped : Data[s].date > Data[t].date}
  BY <1>5, <1>6, LeftOutIsLater
<1>8. skipped \union P \subseteq N /\ skipped \cap P = {}
  BY <1>3, <1>7
<1>9. IsFiniteSet(skipped) /\ IsFiniteSet(P)
  BY <1>1, <1>8, FS_Subset
<1>10. Cardinality(skipped \union P) = n + Limit
  <2>1. Cardinality(skipped \union P) =
          Cardinality(skipped) + Cardinality(P) - Cardinality(skipped \cap P)
    BY <1>9, FS_Union
  <2>2. Cardinality(skipped \cap P) = 0
    BY <1>8, FS_EmptySet
  <2> QED
    BY <1>3, <1>5, <1>7, <2>1, <2>2
<1>11. Cardinality(skipped \union P) <= Cardinality(N)
  BY <1>1, <1>8, RowsGrow
<1> QED
  BY <1>7, <1>10, <1>11

\* A page is filled from what is selected now.
LEMMA SelectKeepsIInv ==
  ASSUME IInv, SelectRows
  PROVE  IInv'
<1> USE DEF IInv
<1>1. /\ UNCHANGED <<table, filter, offset, total, seen, unresolved, promised, there>>
      /\ step = "rows" /\ step' = "accounts"
  BY DEF SelectRows
<1>2. PICK skipped \in First(Matching(filter), offset) :
        page' \in First(Matching(filter) \ skipped, Limit)
  BY DEF SelectRows
<1> DEFINE M == Matching(filter)
<1>3. Matching(filter)' = M /\ Stored' = Stored
  BY <1>1 DEF Matching, Stored, table, AccountOf, From, To
<1>4. M \subseteq Stored /\ M \subseteq Transactions /\ Cardinality(M) \in Nat
  BY MatchingIsStored, RowsAreFinite
<1>5. offset \in Nat /\ Limit \in Nat /\ Limit > 0 /\ total \in Nat /\ total <= Cardinality(M)
  BY <1>1, QueryAssumption DEF TypeOK, Counted
<1>6. /\ Cardinality(skipped) = IF offset <= Cardinality(M) THEN offset ELSE Cardinality(M)
      /\ Cardinality(M \ skipped) = Cardinality(M) - Cardinality(skipped)
  BY <1>2, <1>4, <1>5, FirstIsFull
<1>7. /\ page' \subseteq M \ skipped
      /\ Cardinality(page') = IF Limit <= Cardinality(M \ skipped) THEN Limit
                              ELSE Cardinality(M \ skipped)
  BY <1>2, <1>4, <1>5, FirstIsFull
<1>8. Cardinality(page') <= Limit
  BY <1>4, <1>5, <1>6, <1>7
<1>9. TypeOK'
  BY <1>1, <1>3, <1>4, <1>7, <1>8 DEF TypeOK, table
<1>10. Resolved'
  BY <1>1, <1>3 DEF Resolved, table
<1>11. Counted'
  BY <1>1, <1>3 DEF Counted
<1>12. PageIsFull'
  <2>1. Min({total - offset, Limit}) =
          IF total - offset <= Limit THEN total - offset ELSE Limit
    BY <1>5, MinOfTwo
  <2>2. Cardinality(page') >= Min({total - offset, Limit})
    BY <1>4, <1>5, <1>6, <1>7, <2>1
  <2> QED
    BY <1>1, <2>2 DEF PageIsFull
<1>13. Ahead'
  <2>1. SUFFICES ASSUME NEW t \in there, Alone(t), t \notin seen
                 PROVE  \/ t \in page'
                        \/ Cardinality(page') = Limit /\ Rank(t) >= offset + Limit
    BY <1>1, <1>3 DEF Ahead, Alone, Rank, Newer
  <2>2. t \in M /\ Rank(t) >= offset
    BY <1>1, <2>1 DEF Ahead, Counted
  <2>3. \A s \in M \ {t} : Data[s].date # Data[t].date
    BY <2>1 DEF Alone
  <2> HIDE DEF M
  <2>4. Rank(t) = Cardinality({s \in M : Data[s].date > Data[t].date})
    BY DEF Rank, Newer, M
  <2>5. skipped \in First(M, offset) /\ page' \in First(M \ skipped, Limit)
    BY <1>2 DEF M
  <2> QED
    BY <1>4, <1>5, <2>2, <2>3, <2>4, <2>5, PageOfRows
<1> QED
  BY <1>1, <1>9, <1>10, <1>11, <1>12, <1>13 DEF EveryRowResolves

\* The page is shown, and the next one asked for when it was full.
LEMMA ShowKeepsIInv ==
  ASSUME IInv, ListAccountsByIds
  PROVE  IInv'
<1> USE DEF IInv
<1>1. /\ UNCHANGED <<table, filter, total, page, promised, there>>
      /\ step = "accounts" /\ seen' = seen \union page
      /\ \/ Cardinality(page) < Limit /\ step' = "done" /\ offset' = offset
         \/ Cardinality(page) >= Limit /\ step' = "count" /\ offset' = offset + Limit
  <2>1. Cardinality(page) \in Nat /\ Limit \in Nat
    <3>1. page \subseteq Transactions
      BY DEF TypeOK, Stored
    <3> QED
      BY <3>1, RowsAreFinite, QueryAssumption
  <2> QED
    BY <2>1 DEF ListAccountsByIds
<1>2. Matching(filter)' = Matching(filter) /\ Stored' = Stored
  BY <1>1 DEF Matching, Stored, table, AccountOf, From, To
<1>3. TypeOK'
  BY <1>1, <1>2, QueryAssumption DEF TypeOK, table
<1>4. Resolved'
  BY <1>1, <1>2 DEF Resolved, table
<1>5. Counted'
  BY <1>1, <1>2 DEF Counted
<1>6. Ahead'
  <2>1. SUFFICES ASSUME NEW t \in there, Alone(t)
                 PROVE  /\ step' = "count" => t \in seen' \/ Rank(t) >= offset'
                        /\ step' = "done" => t \in seen'
    BY <1>1, <1>2 DEF Ahead, Alone, Rank, Newer
  <2>2. \/ t \in seen \union page
        \/ Cardinality(page) = Limit /\ Rank(t) >= offset + Limit
    BY <1>1, <2>1 DEF Ahead
  <2>3. Limit \in Nat
    BY QueryAssumption
  <2> QED
    BY <1>1, <2>2, <2>3
<1>7. EveryRowResolves'
  BY DEF ListAccountsByIds, EveryRowResolves, Resolved, TypeOK
<1> QED
  BY <1>1, <1>3, <1>4, <1>5, <1>6, <1>7 DEF PageIsFull

\* A row that was seen is found by its id.
LEMMA OpenKeepsIInv ==
  ASSUME IInv, NEW u \in Transactions, GetTransaction(u)
  PROVE  IInv'
<1> USE DEF IInv
<1>1. UNCHANGED <<table, step, filter, offset, total, page, seen, promised, there>>
  BY DEF GetTransaction
<1>2. Matching(filter)' = Matching(filter) /\ Stored' = Stored
  BY <1>1 DEF Matching, Stored, table, AccountOf, From, To
<1>3. TypeOK' /\ Resolved' /\ Counted' /\ PageIsFull'
  BY <1>1, <1>2 DEF TypeOK, Resolved, Counted, PageIsFull, table
<1>4. Ahead'
  BY <1>1, <1>2 DEF Ahead, Alone, Rank, Newer
<1>5. EveryRowResolves'
  BY DEF GetTransaction, EveryRowResolves, Resolved, TypeOK
<1> QED
  BY <1>3, <1>4, <1>5

-----------------------------------------------------------------------------
(* Theorems. *)

\* Every step keeps the invariant.
LEMMA StepKeepsIInv ==
  ASSUME IInv, [Next]_vars
  PROVE  IInv'
<1>1. CASE UNCHANGED vars
  <2>1. UNCHANGED <<table, step, filter, offset, total, page, seen, unresolved, promised, there>>
    BY <1>1 DEF vars, client
  <2>2. Matching(filter)' = Matching(filter) /\ Stored' = Stored
    BY <2>1 DEF Matching, Stored, table, AccountOf, From, To
  <2> QED
    BY <2>1, <2>2 DEF IInv, TypeOK, Resolved, Counted, PageIsFull, Ahead, Alone, Rank, Newer,
       EveryRowResolves, table
<1>2. CASE Writes
  BY <1>2, WritersKeepIInv
<1>3. CASE \E t \in Transactions : GetTransaction(t)
  BY <1>3, OpenKeepsIInv
<1>4. CASE \E f \in Filters : ListTransactions(f)
  <2>1. PICK f \in Filters : List(f, 0)
    BY <1>4 DEF ListTransactions
  <2>2. Cardinality(Matching(f)) \in Nat
    BY MatchingIsStored, RowsAreFinite
  <2> QED
    BY <2>1, <2>2, ListKeepsIInv
<1>5. CASE \E f \in Filters : ListEntry(f)
  <2>1. PICK f \in Filters : ListEntry(f)
    BY <1>5
  <2>2. PICK g \in Summary(f) :
          List([f EXCEPT !.bank = g.key[1], !.category = g.key[2], !.card = None], g.count)
    BY <2>1 DEF ListEntry
  <2> QED
    BY <2>2, EntryIsSelected, ListKeepsIInv
<1>6. CASE Count
  BY <1>6, CountKeepsIInv
<1>7. CASE SelectRows
  BY <1>7, SelectKeepsIInv
<1>8. CASE ListAccountsByIds
  BY <1>8, ShowKeepsIInv
<1> QED
  BY <1>1, <1>2, <1>3, <1>4, <1>5, <1>6, <1>7, <1>8 DEF Next, Writes

\* The invariant holds of every run.
LEMMA IInvHolds == Spec => []IInv
BY InitHolds, StepKeepsIInv, PTL DEF Spec

\* The table and the answers keep their types, and no page is longer than its
\* limit (repository.py:172-176).
THEOREM TypesAreInvariant == Spec => []TypeOK
BY IInvHolds, PTL DEF IInv

\* A page has the rows that its total leaves for it, whatever is committed
\* between its statements (repository.py:170-176).
THEOREM PagesAreFull == Spec => []PageIsFull
BY IInvHolds, PTL DEF IInv

\* Whoever pages to the end has seen each row that was there at the beginning
\* and has its date alone: rows that are committed meanwhile move it to later
\* pages only (repository.py:172-176).
THEOREM PagingIsComplete == Spec => []PagingMissesNothing
<1>1. IInv => PagingMissesNothing
  BY DEF IInv, Ahead, Alone, PagingMissesNothing
<1> QED
  BY <1>1, IInvHolds, PTL

\* No row is shown without its bank or answered with 404 after it was shown
\* (router.py:176-186, 279-281).
THEOREM RowsResolve == Spec => []EveryRowResolves
BY IInvHolds, PTL DEF IInv

\* The list behind an entry of the summary has what the entry counted
\* (repository.py:186-205, 156-168).
THEOREM EntriesAreListed == Spec => []EntryIsListed
<1>1. IInv => EntryIsListed
  BY DEF IInv, Counted, EntryIsListed
<1> QED
  BY <1>1, IInvHolds, PTL

-----------------------------------------------------------------------------
(* Sums over finite sets. *)

\* A set of subsets of a finite set has a smallest member: sums are reasoned
\* about through the smallest set that would be wrong.
LEMMA SmallestSubset ==
  ASSUME NEW S, IsFiniteSet(S), NEW Bad, Bad \subseteq SUBSET S, Bad # {}
  PROVE  \E T \in Bad : \A U \in SUBSET T : U # T => U \notin Bad
<1>1. Bad \subseteq FiniteSubsetsOf(S)
  <2>1. \A T \in Bad : T \in SUBSET S /\ IsFiniteSet(T)
    BY FS_Subset
  <2> QED
    BY <2>1 DEF FiniteSubsetsOf
<1>2. PICK T \in Bad : \A U \in Bad : ~ (<<U, T>> \in StrictSubsetOrdering(S))
  BY <1>1, FS_StrictSubsetOrderingWellFounded, WFMin
<1>3. ASSUME NEW U \in SUBSET T, U # T, U \in Bad PROVE FALSE
  <2>1. <<U, T>> \in StrictSubsetOrdering(S)
    BY <1>3 DEF StrictSubsetOrdering
  <2> QED
    BY <1>2, <1>3, <2>1
<1> QED
  BY <1>3

\* The element that a sum takes first; the sums of all subsets of S; a sum.
Pick(s) == CHOOSE x \in s : TRUE
IsSum(g, f, S) ==
  g = [s \in SUBSET S |-> IF s = {} THEN 0 ELSE f[Pick(s)] + g[s \ {Pick(s)}]]
Sum(f, S) == (CHOOSE g : IsSum(g, f, S))[S]

\* It is one of the set.
LEMMA Picked ==
  ASSUME NEW s, s # {}
  PROVE  Pick(s) \in s /\ s \ {Pick(s)} # s
BY DEF Pick

\* Sums of the same set are equal.
LEMMA SumIsUnique ==
  ASSUME NEW S, NEW T, NEW f, NEW g, NEW h, IsSum(g, f, S), IsSum(h, f, T),
         NEW U, IsFiniteSet(U), U \subseteq S, U \subseteq T
  PROVE  g[U] = h[U]
<1> DEFINE Bad == {s \in SUBSET U : g[s] # h[s]}
<1>1. SUFFICES ASSUME Bad # {} PROVE FALSE
  OBVIOUS
<1>2. PICK s \in Bad : \A u \in SUBSET s : u # s => u \notin Bad
  <2>1. Bad \subseteq SUBSET U
    OBVIOUS
  <2> HIDE DEF Bad
  <2> QED
    BY <1>1, <2>1, SmallestSubset
<1>3. /\ s \in SUBSET S => g[s] = IF s = {} THEN 0 ELSE f[Pick(s)] + g[s \ {Pick(s)}]
      /\ s \in SUBSET T => h[s] = IF s = {} THEN 0 ELSE f[Pick(s)] + h[s \ {Pick(s)}]
  BY DEF IsSum
<1>4. s # {} => g[s \ {Pick(s)}] = h[s \ {Pick(s)}]
  BY <1>2, Picked
<1> QED
  BY <1>2, <1>3, <1>4

\* The sum of every finite set is defined.
LEMMA SumIsDefined ==
  ASSUME NEW f, NEW S, IsFiniteSet(S)
  PROVE  IsSum(CHOOSE g : IsSum(g, f, S), f, S)
<1> DEFINE Bad == {s \in SUBSET S : ~ \E g : IsSum(g, f, s)}
<1>1. SUFFICES ASSUME Bad # {} PROVE FALSE
  BY FS_Subset
<1>2. PICK T \in Bad : \A U \in SUBSET T : U # T => U \notin Bad
  <2> HIDE DEF Bad
  <2>1. Bad \subseteq SUBSET S
    BY DEF Bad
  <2> QED
    BY <1>1, <2>1, SmallestSubset
<1> DEFINE G(u) == CHOOSE g : IsSum(g, f, u)
           h == [s \in SUBSET T |->
                  IF s = {} THEN 0 ELSE f[Pick(s)] + Sum(f, s \ {Pick(s)})]
<1>3. ASSUME NEW U \in SUBSET T, U # T PROVE IsSum(G(U), f, U) /\ IsFiniteSet(U)
  <2>1. \E g : IsSum(g, f, U)
    BY <1>2, <1>3
  <2> QED
    BY <1>2, <2>1, FS_Subset
<1>4. ASSUME NEW U \in SUBSET T, U # T PROVE h[U] = Sum(f, U)
  <2>1. Sum(f, U) = G(U)[U]
    BY DEF Sum
  <2>2. IsSum(G(U), f, U)
    BY <1>3, <1>4
  <2>3. G(U)[U] = IF U = {} THEN 0 ELSE f[Pick(U)] + G(U)[U \ {Pick(U)}]
    <3> HIDE DEF G
    <3> QED
      BY <2>2 DEF IsSum
  <2>4. U # {} => G(U)[U \ {Pick(U)}] = Sum(f, U \ {Pick(U)})
    <3> SUFFICES ASSUME U # {} PROVE G(U)[U \ {Pick(U)}] = Sum(f, U \ {Pick(U)})
      OBVIOUS
    <3> DEFINE V == U \ {Pick(U)}
    <3>1. V \in SUBSET T /\ V # T /\ V \subseteq U
      BY <1>4, Picked
    <3>2. IsSum(G(V), f, V) /\ IsFiniteSet(V)
      BY <1>3, <3>1
    <3> HIDE DEF V, G
    <3>3. G(U)[V] = G(V)[V]
      BY <2>2, <3>1, <3>2, SumIsUnique
    <3> QED
      BY <3>3 DEF Sum, V, G
  <2>5. h[U] = IF U = {} THEN 0 ELSE f[Pick(U)] + Sum(f, U \ {Pick(U)})
    OBVIOUS
  <2> HIDE DEF h, G
  <2> QED
    BY <2>1, <2>3, <2>4, <2>5
<1>5. \A s \in SUBSET T : s # {} => h[s \ {Pick(s)}] = Sum(f, s \ {Pick(s)})
  <2>1. SUFFICES ASSUME NEW s \in SUBSET T, s # {} PROVE h[s \ {Pick(s)}] = Sum(f, s \ {Pick(s)})
    OBVIOUS
  <2>2. s \ {Pick(s)} \in SUBSET T /\ s \ {Pick(s)} # T
    BY <2>1, Picked
  <2> HIDE DEF h
  <2> QED
    BY <1>4, <2>2
<1>6. h = [s \in SUBSET T |-> IF s = {} THEN 0 ELSE f[Pick(s)] + h[s \ {Pick(s)}]]
  BY <1>5
<1>7. IsSum(h, f, T)
  <2> HIDE DEF h
  <2> QED
    BY <1>6 DEF IsSum
<1> QED
  <2> HIDE DEF h
  <2> QED
    BY <1>2, <1>7

\* The first step of a sum.
LEMMA SumStep ==
  ASSUME NEW f, NEW S, IsFiniteSet(S)
  PROVE  Sum(f, S) = IF S = {} THEN 0 ELSE f[Pick(S)] + Sum(f, S \ {Pick(S)})
<1> DEFINE G(u) == CHOOSE g : IsSum(g, f, u)
           V == S \ {Pick(S)}
<1>1. IsSum(G(S), f, S) /\ IsSum(G(V), f, V) /\ IsFiniteSet(V)
  BY SumIsDefined, FS_Subset
<1>2. Sum(f, S) = G(S)[S] /\ Sum(f, V) = G(V)[V]
  BY DEF Sum
<1> HIDE DEF G
<1>3. G(S)[S] = IF S = {} THEN 0 ELSE f[Pick(S)] + G(S)[V]
  BY <1>1 DEF IsSum
<1>4. G(S)[V] = G(V)[V]
  BY <1>1, SumIsUnique
<1> QED
  BY <1>2, <1>3, <1>4

\* Sums of numbers are numbers.
LEMMA SumType ==
  ASSUME NEW S, IsFiniteSet(S), NEW f, \A x \in S : f[x] \in Int
  PROVE  Sum(f, S) \in Int
<1> DEFINE Bad == {s \in SUBSET S : Sum(f, s) \notin Int}
<1>1. SUFFICES ASSUME Bad # {} PROVE FALSE
  OBVIOUS
<1>2. PICK s \in Bad : \A u \in SUBSET s : u # s => u \notin Bad
  <2>1. Bad \subseteq SUBSET S
    OBVIOUS
  <2> HIDE DEF Bad
  <2> QED
    BY <1>1, <2>1, SmallestSubset
<1>3. IsFiniteSet(s)
  BY <1>2, FS_Subset
<1>4. s # {} => Sum(f, s \ {Pick(s)}) \in Int /\ f[Pick(s)] \in Int
  BY <1>2, Picked
<1>5. Sum(f, s) = IF s = {} THEN 0 ELSE f[Pick(s)] + Sum(f, s \ {Pick(s)})
  BY <1>3, SumStep
<1>6. Sum(f, s) \in Int
  BY <1>4, <1>5
<1> QED
  BY <1>6

\* A sum may begin anywhere.
LEMMA SumOfRest ==
  ASSUME NEW S, IsFiniteSet(S), NEW f, \A y \in S : f[y] \in Int, NEW x \in S
  PROVE  Sum(f, S) = f[x] + Sum(f, S \ {x})
<1> DEFINE Bad == {s \in SUBSET S : \E y \in s : Sum(f, s) # f[y] + Sum(f, s \ {y})}
<1>1. SUFFICES ASSUME Bad # {} PROVE FALSE
  OBVIOUS
<1>2. PICK s \in Bad : \A u \in SUBSET s : u # s => u \notin Bad
  <2>1. Bad \subseteq SUBSET S
    OBVIOUS
  <2> HIDE DEF Bad
  <2> QED
    BY <1>1, <2>1, SmallestSubset
<1>3. PICK y \in s : Sum(f, s) # f[y] + Sum(f, s \ {y})
  BY <1>2
<1> DEFINE c == Pick(s)
<1>4. s # {} /\ c \in s
  BY <1>3, Picked
<1> HIDE DEF c
<1>5. \A u \in SUBSET s : IsFiniteSet(u) /\ Sum(f, u) \in Int
  BY <1>2, FS_Subset, SumType
<1>6. Sum(f, s) = f[c] + Sum(f, s \ {c})
  BY <1>4, <1>5, SumStep DEF c
<1>7. CASE c = y
  BY <1>3, <1>6, <1>7
<1>8. CASE c # y
  <2>1. Sum(f, s \ {c}) = f[y] + Sum(f, (s \ {c}) \ {y})
    <3>1. s \ {c} \in SUBSET s /\ s \ {c} # s /\ y \in s \ {c} /\ s \ {c} \in SUBSET S
      BY <1>2, <1>3, <1>4, <1>8
    <3> QED
      BY <1>2, <3>1
  <2>2. Sum(f, s \ {y}) = f[c] + Sum(f, (s \ {y}) \ {c})
    <3>1. s \ {y} \in SUBSET s /\ s \ {y} # s /\ c \in s \ {y} /\ s \ {y} \in SUBSET S
      BY <1>2, <1>3, <1>4, <1>8
    <3> QED
      BY <1>2, <3>1
  <2>3. (s \ {c}) \ {y} = (s \ {y}) \ {c}
    OBVIOUS
  <2>4. f[c] \in Int /\ f[y] \in Int /\ Sum(f, (s \ {c}) \ {y}) \in Int
    BY <1>2, <1>3, <1>4, <1>5
  <2>5. Sum(f, s) = f[c] + (f[y] + Sum(f, (s \ {c}) \ {y}))
    BY <1>6, <2>1
  <2>6. f[y] + Sum(f, s \ {y}) = f[y] + (f[c] + Sum(f, (s \ {c}) \ {y}))
    BY <2>2, <2>3
  <2> QED
    BY <1>3, <2>4, <2>5, <2>6
<1> QED
  BY <1>7, <1>8

\* Sums of equal numbers are equal.
LEMMA SumOfSame ==
  ASSUME NEW S, IsFiniteSet(S), NEW f, NEW g, \A x \in S : f[x] = g[x]
  PROVE  Sum(f, S) = Sum(g, S)
<1> DEFINE Bad == {s \in SUBSET S : Sum(f, s) # Sum(g, s)}
<1>1. SUFFICES ASSUME Bad # {} PROVE FALSE
  OBVIOUS
<1>2. PICK s \in Bad : \A u \in SUBSET s : u # s => u \notin Bad
  <2>1. Bad \subseteq SUBSET S
    OBVIOUS
  <2> HIDE DEF Bad
  <2> QED
    BY <1>1, <2>1, SmallestSubset
<1>3. IsFiniteSet(s)
  BY <1>2, FS_Subset
<1>4. s # {} => Sum(f, s \ {Pick(s)}) = Sum(g, s \ {Pick(s)}) /\ f[Pick(s)] = g[Pick(s)]
  BY <1>2, Picked
<1> QED
  BY <1>2, <1>3, <1>4, SumStep

\* The sum over two sets that share nothing.
LEMMA SumOfUnion ==
  ASSUME NEW A, IsFiniteSet(A), NEW B, IsFiniteSet(B), A \intersect B = {},
         NEW f, \A x \in A \union B : f[x] \in Int
  PROVE  Sum(f, A \union B) = Sum(f, A) + Sum(f, B)
<1> DEFINE Bad == {s \in SUBSET A : Sum(f, s \union B) # Sum(f, s) + Sum(f, B)}
<1>1. SUFFICES ASSUME Bad # {} PROVE FALSE
  OBVIOUS
<1>2. PICK s \in Bad : \A u \in SUBSET s : u # s => u \notin Bad
  <2>1. Bad \subseteq SUBSET A
    OBVIOUS
  <2> HIDE DEF Bad
  <2> QED
    BY <1>1, <2>1, SmallestSubset
<1>3. Sum(f, B) \in Int
  BY SumType
<1>4. CASE s = {}
  <2>1. Sum(f, {}) = 0
    BY SumStep, FS_EmptySet
  <2>2. {} \union B = B
    OBVIOUS
  <2>3. Sum(f, {} \union B) = Sum(f, {}) + Sum(f, B)
    BY <1>3, <2>1, <2>2
  <2> QED
    BY <1>4, <2>3
<1>5. CASE s # {}
  <2>1. PICK x : x \in s
    BY <1>5
  <2> DEFINE u == s \ {x}
  <2>2. u \in SUBSET s /\ u # s /\ u \in SUBSET A
    BY <1>2, <2>1
  <2>3. Sum(f, u \union B) = Sum(f, u) + Sum(f, B)
    BY <1>2, <2>2
  <2>4. IsFiniteSet(s) /\ IsFiniteSet(u)
    BY <1>2, <2>2, FS_Subset
  <2>5. IsFiniteSet(s \union B)
    BY <2>4, FS_Union
  <2>6. (s \union B) \ {x} = u \union B
    BY <1>2, <2>1
  <2> HIDE DEF u
  <2>7. \A y \in s : f[y] \in Int
    BY <1>2
  <2>8. \A y \in s \union B : f[y] \in Int
    BY <1>2
  <2>9. Sum(f, s) = f[x] + Sum(f, u)
    BY <2>1, <2>4, <2>7, SumOfRest DEF u
  <2>10. Sum(f, s \union B) = f[x] + Sum(f, u \union B)
    BY <2>1, <2>5, <2>6, <2>8, SumOfRest
  <2>11. f[x] \in Int /\ Sum(f, u) \in Int
    BY <2>1, <2>2, <2>4, <2>7, SumType
  <2> QED
    BY <1>2, <1>3, <2>3, <2>9, <2>10, <2>11
<1> QED
  BY <1>4, <1>5

\* The sum of the sums of groups is the sum of all.
LEMMA SumOfGroups ==
  ASSUME NEW S, IsFiniteSet(S), NEW f, \A x \in S : f[x] \in Int, NEW key,
         NEW K, IsFiniteSet(K), \A x \in S : key[x] \in K,
         NEW group, \A k \in K : \A x : x \in group[k] <=> x \in S /\ key[x] = k,
         NEW sums, \A k \in K : sums[k] = Sum(f, group[k])
  PROVE  Sum(sums, K) = Sum(f, S)
<1> DEFINE Rows(J) == {x \in S : key[x] \in J}
           Bad == {J \in SUBSET K : Sum(sums, J) # Sum(f, Rows(J))}
<1>1. SUFFICES ASSUME Bad # {} PROVE FALSE
  <2>1. Rows(K) = S
    OBVIOUS
  <2> QED
    BY <2>1
<1>2. PICK J \in Bad : \A L \in SUBSET J : L # J => L \notin Bad
  <2>1. Bad \subseteq SUBSET K
    OBVIOUS
  <2> HIDE DEF Bad
  <2> QED
    BY <1>1, <2>1, SmallestSubset
<1>3. J \in SUBSET K /\ IsFiniteSet(J) /\ Sum(sums, J) # Sum(f, Rows(J))
  BY <1>2, FS_Subset
<1>4. \A L \in SUBSET K : L # J /\ L \subseteq J => Sum(sums, L) = Sum(f, Rows(L))
  BY <1>2
<1>5. \A T \in SUBSET S : IsFiniteSet(T) /\ Sum(f, T) \in Int
  BY FS_Subset, SumType
<1>6. \A k \in K : group[k] \in SUBSET S
  OBVIOUS
<1>7. CASE J = {}
  <2>1. Rows({}) = {}
    OBVIOUS
  <2>2. Sum(sums, {}) = 0 /\ Sum(f, {}) = 0
    BY SumStep, FS_EmptySet
  <2> QED
    BY <1>3, <1>7, <2>1, <2>2
<1>8. CASE J # {}
  <2>1. PICK k : k \in J
    BY <1>8
  <2> DEFINE L == J \ {k}
             A == group[k]
             B == Rows(L)
             C == Rows(J)
  <2>2. L \in SUBSET K /\ L # J /\ L \subseteq J /\ k \in K
    BY <1>3, <2>1
  <2>3. Sum(sums, L) = Sum(f, B) /\ Sum(sums, J) # Sum(f, C)
    BY <1>3, <1>4, <2>2
  <2>4. C = A \union B /\ A \intersect B = {}
    BY <2>1, <2>2
  <2>5. A \in SUBSET S /\ B \in SUBSET S
    BY <1>6, <2>2
  <2>6. sums[k] = Sum(f, A)
    BY <2>2
  <2>7. \A j \in J : sums[j] \in Int
    <3>1. SUFFICES ASSUME NEW j \in J PROVE sums[j] \in Int
      OBVIOUS
    <3>2. sums[j] = Sum(f, group[j]) /\ group[j] \in SUBSET S
      BY <1>3, <1>6
    <3> QED
      BY <1>5, <3>2
  <2> HIDE DEF A, B, C
  <2>8. Sum(sums, J) = sums[k] + Sum(sums, L)
    BY <1>3, <2>1, <2>7, SumOfRest
  <2>9. IsFiniteSet(A) /\ IsFiniteSet(B)
    BY <1>5, <2>5
  <2>10. \A x \in A \union B : f[x] \in Int
    BY <2>5
  <2>11. Sum(f, A \union B) = Sum(f, A) + Sum(f, B)
    BY <2>4, <2>9, <2>10, SumOfUnion
  <2> QED
    BY <2>3, <2>4, <2>6, <2>8, <2>11
<1> QED
  BY <1>7, <1>8

\* A sum over what distinct elements stand for.
LEMMA SumOfImage ==
  ASSUME NEW K, IsFiniteSet(K), NEW e, \A k, l \in K : e[k] = e[l] => k = l,
         NEW f, NEW g, \A k \in K : f[e[k]] = g[k] /\ g[k] \in Int
  PROVE  Sum(f, {e[k] : k \in K}) = Sum(g, K)
<1> DEFINE Image(J) == {e[k] : k \in J}
           Bad == {J \in SUBSET K : ~ (IsFiniteSet(Image(J)) /\ Sum(f, Image(J)) = Sum(g, J))}
<1>1. SUFFICES ASSUME Bad # {} PROVE FALSE
  OBVIOUS
<1>2. PICK J \in Bad : \A L \in SUBSET J : L # J => L \notin Bad
  <2>1. Bad \subseteq SUBSET K
    OBVIOUS
  <2> HIDE DEF Bad
  <2> QED
    BY <1>1, <2>1, SmallestSubset
<1>3. /\ J \in SUBSET K /\ IsFiniteSet(J)
      /\ ~ (IsFiniteSet(Image(J)) /\ Sum(f, Image(J)) = Sum(g, J))
  BY <1>2, FS_Subset
<1>4. \A L \in SUBSET K : L # J /\ L \subseteq J =>
        IsFiniteSet(Image(L)) /\ Sum(f, Image(L)) = Sum(g, L)
  BY <1>2
<1>5. CASE J = {}
  <2>1. Image({}) = {}
    OBVIOUS
  <2>2. IsFiniteSet({}) /\ Sum(f, {}) = 0 /\ Sum(g, {}) = 0
    BY SumStep, FS_EmptySet
  <2> QED
    BY <1>3, <1>5, <2>1, <2>2
<1>6. CASE J # {}
  <2>1. PICK k : k \in J
    BY <1>6
  <2> DEFINE L == J \ {k}
  <2>2. L \in SUBSET K /\ L # J /\ L \subseteq J /\ k \in K
    BY <1>3, <2>1
  <2> DEFINE I == Image(J)
             M == Image(L)
  <2>3. IsFiniteSet(M) /\ Sum(f, M) = Sum(g, L)
    BY <1>4, <2>2
  <2>4. I = M \union {e[k]} /\ I \ {e[k]} = M /\ e[k] \in I
    BY <1>3, <2>1
  <2>5. \A y \in I : f[y] \in Int
    BY <1>3
  <2>6. ~ (IsFiniteSet(I) /\ Sum(f, I) = Sum(g, J))
    BY <1>3
  <2> HIDE DEF I, M
  <2>7. IsFiniteSet(M \union {e[k]})
    BY <2>3, FS_AddElement
  <2>8. IsFiniteSet(I)
    BY <2>4, <2>7
  <2>9. Sum(f, I) = f[e[k]] + Sum(f, M)
    BY <2>4, <2>5, <2>8, SumOfRest
  <2>10. \A j \in J : g[j] \in Int
    BY <1>3
  <2>11. Sum(g, J) = g[k] + Sum(g, L)
    BY <1>3, <2>1, <2>10, SumOfRest
  <2> QED
    BY <2>2, <2>3, <2>6, <2>8, <2>9, <2>11
<1> QED
  BY <1>5, <1>6

\* A set has as many elements as it has ones.
LEMMA SumOfOnes ==
  ASSUME NEW S, IsFiniteSet(S), NEW one, \A x \in S : one[x] = 1
  PROVE  Sum(one, S) = Cardinality(S)
<1> DEFINE Bad == {s \in SUBSET S : Sum(one, s) # Cardinality(s)}
<1>1. SUFFICES ASSUME Bad # {} PROVE FALSE
  OBVIOUS
<1>2. PICK s \in Bad : \A u \in SUBSET s : u # s => u \notin Bad
  <2>1. Bad \subseteq SUBSET S
    OBVIOUS
  <2> HIDE DEF Bad
  <2> QED
    BY <1>1, <2>1, SmallestSubset
<1>3. s \in SUBSET S /\ IsFiniteSet(s) /\ Sum(one, s) # Cardinality(s)
  BY <1>2, FS_Subset
<1>4. Sum(one, s) = IF s = {} THEN 0 ELSE one[Pick(s)] + Sum(one, s \ {Pick(s)})
  BY <1>3, SumStep
<1>5. CASE s = {}
  BY <1>3, <1>4, <1>5, FS_EmptySet
<1>6. CASE s # {}
  <2>1. Pick(s) \in s /\ Sum(one, s \ {Pick(s)}) = Cardinality(s \ {Pick(s)})
    BY <1>2, <1>6, Picked
  <2>2. Cardinality(s \ {Pick(s)}) = Cardinality(s) - 1 /\ Cardinality(s) \in Nat
    BY <1>3, <2>1, FS_RemoveElement, FS_CardinalityType
  <2> QED
    BY <1>3, <1>4, <1>6, <2>1, <2>2
<1> QED
  BY <1>5, <1>6

-----------------------------------------------------------------------------
(* The reports. *)

\* The cents of rows can be added.
CentsOf == [t \in Transactions |-> Data[t].cents]

\* The image of a finite set is finite.
LEMMA ImageIsFinite ==
  ASSUME NEW S, IsFiniteSet(S), NEW e
  PROVE  IsFiniteSet({e[x] : x \in S})
<1> DEFINE f == [x \in S |-> e[x]]
           T == {e[x] : x \in S}
<1>1. f \in Surjection(S, T)
  BY DEF Surjection
<1> QED
  BY <1>1, FS_Surjection

\* Cents adds up the cents of rows.
LEMMA CentsAreSums ==
  ASSUME NEW T, T \subseteq Transactions
  PROVE  Cents(T) = Sum(CentsOf, T)
<1> DEFINE Is(h) == h = [s \in SUBSET T |->
             IF s = {} THEN 0 ELSE Data[Pick(s)].cents + h[s \ {Pick(s)}]]
           sum == CHOOSE h : Is(h)
<1>1. \A s \in SUBSET T : s # {} => CentsOf[Pick(s)] = Data[Pick(s)].cents
  BY Picked DEF CentsOf
<1>2. ASSUME NEW h PROVE Is(h) <=> IsSum(h, CentsOf, T)
  BY <1>1 DEF IsSum
<1>3. IsFiniteSet(T)
  BY QueryAssumption, FS_Subset
<1>4. Cents(T) = sum[T]
  BY Zenon DEF Cents, MapThenSumSet, MapThenFoldSet, Pick
<1> HIDE DEF Is
<1>5. Is(sum)
  BY <1>2, <1>3, SumIsDefined
<1>6. sum[T] = Sum(CentsOf, T)
  BY <1>2, <1>3, <1>5, SumIsDefined, SumIsUnique DEF Sum
<1> QED
  BY <1>4, <1>6

\* Totals adds up the totals of groups.
LEMMA TotalsAreSums ==
  ASSUME NEW G, IsFiniteSet(G), NEW f, \A g \in G : f[g] = g.total
  PROVE  Totals(G) = Sum(f, G)
<1> DEFINE Is(h) == h = [s \in SUBSET G |->
             IF s = {} THEN 0 ELSE Pick(s).total + h[s \ {Pick(s)}]]
           sum == CHOOSE h : Is(h)
<1>1. \A s \in SUBSET G : s # {} => f[Pick(s)] = Pick(s).total
  BY Picked
<1>2. ASSUME NEW h PROVE Is(h) <=> IsSum(h, f, G)
  BY <1>1 DEF IsSum
<1>3. Totals(G) = sum[G]
  BY Zenon DEF Totals, MapThenSumSet, MapThenFoldSet, Pick
<1> HIDE DEF Is
<1>4. Is(sum)
  BY <1>2, SumIsDefined
<1>5. sum[G] = Sum(f, G)
  BY <1>2, <1>4, SumIsDefined, SumIsUnique DEF Sum
<1> QED
  BY <1>3, <1>5

\* Counts adds up their counts.
LEMMA CountsAreSums ==
  ASSUME NEW G, IsFiniteSet(G), NEW f, \A g \in G : f[g] = g.count
  PROVE  Counts(G) = Sum(f, G)
<1> DEFINE Is(h) == h = [s \in SUBSET G |->
             IF s = {} THEN 0 ELSE Pick(s).count + h[s \ {Pick(s)}]]
           sum == CHOOSE h : Is(h)
<1>1. \A s \in SUBSET G : s # {} => f[Pick(s)] = Pick(s).count
  BY Picked
<1>2. ASSUME NEW h PROVE Is(h) <=> IsSum(h, f, G)
  BY <1>1 DEF IsSum
<1>3. Counts(G) = sum[G]
  BY Zenon DEF Counts, MapThenSumSet, MapThenFoldSet, Pick
<1> HIDE DEF Is
<1>4. Is(sum)
  BY <1>2, SumIsDefined
<1>5. sum[G] = Sum(f, G)
  BY <1>2, <1>4, SumIsDefined, SumIsUnique DEF Sum
<1> QED
  BY <1>3, <1>5

\* The expenses of months are added up in the same way.
LEMMA ExpensesAreSums ==
  ASSUME NEW G, IsFiniteSet(G), NEW f, \A g \in G : f[g] = g.expense
  PROVE  MapThenSumSet(LAMBDA r : r.expense, G) = Sum(f, G)
<1> DEFINE Is(h) == h = [s \in SUBSET G |->
             IF s = {} THEN 0 ELSE Pick(s).expense + h[s \ {Pick(s)}]]
           sum == CHOOSE h : Is(h)
<1>1. \A s \in SUBSET G : s # {} => f[Pick(s)] = Pick(s).expense
  BY Picked
<1>2. ASSUME NEW h PROVE Is(h) <=> IsSum(h, f, G)
  BY <1>1 DEF IsSum
<1>3. MapThenSumSet(LAMBDA r : r.expense, G) = sum[G]
  BY Zenon DEF MapThenSumSet, MapThenFoldSet, Pick
<1> HIDE DEF Is
<1>4. Is(sum)
  BY <1>2, SumIsDefined
<1>5. sum[G] = Sum(f, G)
  BY <1>2, <1>4, SumIsDefined, SumIsUnique DEF Sum
<1> QED
  BY <1>3, <1>5

\* Rows have a number of cents, and a number of elements.
LEMMA CentsOfRows ==
  ASSUME NEW T, T \subseteq Transactions
  PROVE  /\ IsFiniteSet(T) /\ \A t \in T : CentsOf[t] \in Int
         /\ Cents(T) = Sum(CentsOf, T) /\ Cents(T) \in Int
<1>1. IsFiniteSet(T)
  BY QueryAssumption, FS_Subset
<1>2. \A t \in T : CentsOf[t] \in Int
  BY QueryAssumption DEF CentsOf
<1> QED
  BY <1>1, <1>2, CentsAreSums, SumType

\* The cents of groups add up to those of the rows.
LEMMA CentsOfGroups ==
  ASSUME NEW T, T \subseteq Transactions, NEW key,
         NEW K, IsFiniteSet(K), \A t \in T : key[t] \in K,
         NEW group, \A k \in K : \A t : t \in group[k] <=> t \in T /\ key[t] = k,
         NEW cents, \A k \in K : cents[k] = Cents(group[k])
  PROVE  (\A k \in K : cents[k] \in Int) /\ Sum(cents, K) = Cents(T)
<1>1. \A k \in K : cents[k] = Sum(CentsOf, group[k]) /\ cents[k] \in Int
  <2>1. SUFFICES ASSUME NEW k \in K
        PROVE  cents[k] = Sum(CentsOf, group[k]) /\ cents[k] \in Int
    OBVIOUS
  <2>2. group[k] \subseteq Transactions /\ cents[k] = Cents(group[k])
    OBVIOUS
  <2> QED
    BY <2>2, CentsOfRows
<1>2. \A k \in K : cents[k] = Sum(CentsOf, group[k])
  BY <1>1
<1>3. IsFiniteSet(T) /\ Cents(T) = Sum(CentsOf, T)
  BY CentsOfRows
<1>4. \A t \in T : CentsOf[t] \in Int
  BY CentsOfRows
<1>5. Sum(cents, K) = Sum(CentsOf, T)
  BY <1>2, <1>3, <1>4, SumOfGroups
<1> QED
  BY <1>1, <1>3, <1>5

\* The sizes of groups add up to the size of the whole.
LEMMA SizesOfGroups ==
  ASSUME NEW T, T \subseteq Transactions, NEW key,
         NEW K, IsFiniteSet(K), \A t \in T : key[t] \in K,
         NEW group, \A k \in K : \A t : t \in group[k] <=> t \in T /\ key[t] = k,
         NEW sizes, \A k \in K : sizes[k] = Cardinality(group[k])
  PROVE  (\A k \in K : sizes[k] \in Int) /\ Sum(sizes, K) = Cardinality(T)
<1> DEFINE one == [t \in T |-> 1]
<1>1. \A t \in T : one[t] = 1 /\ one[t] \in Int
  OBVIOUS
<1> HIDE DEF one
<1>2. \A k \in K : sizes[k] = Sum(one, group[k]) /\ sizes[k] \in Int
  <2>1. SUFFICES ASSUME NEW k \in K
        PROVE  sizes[k] = Sum(one, group[k]) /\ sizes[k] \in Int
    OBVIOUS
  <2>2. group[k] \subseteq Transactions /\ sizes[k] = Cardinality(group[k])
    OBVIOUS
  <2>3. IsFiniteSet(group[k])
    BY <2>2, CentsOfRows
  <2>4. \A t \in group[k] : one[t] = 1
    BY <1>1
  <2>5. Cardinality(group[k]) \in Nat
    BY <2>3, FS_CardinalityType
  <2> QED
    BY <2>2, <2>3, <2>4, <2>5, SumOfOnes
<1>3. \A k \in K : sizes[k] = Sum(one, group[k])
  BY <1>2
<1>4. IsFiniteSet(T)
  BY CentsOfRows
<1>5. \A t \in T : one[t] \in Int
  BY <1>1
<1>6. \A t \in T : one[t] = 1
  BY <1>1
<1>7. Sum(sizes, K) = Sum(one, T)
  BY <1>3, <1>4, <1>5, SumOfGroups
<1>8. Sum(one, T) = Cardinality(T)
  BY <1>4, <1>6, SumOfOnes
<1> QED
  BY <1>2, <1>7, <1>8

\* However rows are grouped, totals and counts of the groups add up to those
\* of the rows.
LEMMA GroupsAddUp ==
  ASSUME NEW T, T \subseteq Transactions, NEW key
  PROVE  /\ Totals(GroupBy(T, key)) = Cents(T)
         /\ Counts(GroupBy(T, key)) = Cardinality(T)
<1> DEFINE K == {key[t] : t \in T}
           group == [k \in K |-> {t \in T : key[t] = k}]
           e == [k \in K |-> [key |-> k, total |-> Cents(group[k]),
                              count |-> Cardinality(group[k])]]
           G == GroupBy(T, key)
           cents == [k \in K |-> Cents(group[k])]
           sizes == [k \in K |-> Cardinality(group[k])]
           totals == [g \in G |-> g.total]
           counts == [g \in G |-> g.count]
<1>1. IsFiniteSet(K)
  BY CentsOfRows, ImageIsFinite
<1>2. G = {e[k] : k \in K}
  BY DEF GroupBy
<1>3. IsFiniteSet(G)
  <2> HIDE DEF e, K, G
  <2> QED
    BY <1>1, <1>2, ImageIsFinite
<1>4. \A k, l \in K : e[k] = e[l] => k = l
  <2>1. \A k \in K : e[k].key = k
    OBVIOUS
  <2> HIDE DEF e, K
  <2> QED
    BY <2>1
<1>5. /\ \A t \in T : key[t] \in K
      /\ \A k \in K : \A t : t \in group[k] <=> t \in T /\ key[t] = k
  OBVIOUS
<1>6. /\ \A k \in K : cents[k] = Cents(group[k])
      /\ \A k \in K : sizes[k] = Cardinality(group[k])
  OBVIOUS
<1>7. \A k \in K : totals[e[k]] = cents[k] /\ counts[e[k]] = sizes[k]
  <2>1. \A k \in K : e[k] \in G /\ e[k].total = cents[k] /\ e[k].count = sizes[k]
    BY <1>2
  <2> HIDE DEF G, e, K, cents, sizes
  <2> QED
    BY <2>1
<1>8. (\A g \in G : totals[g] = g.total) /\ (\A g \in G : counts[g] = g.count)
  OBVIOUS
<1> HIDE DEF G, e, K, group, cents, sizes, totals, counts
<1>9. Totals(G) = Sum(totals, G) /\ Counts(G) = Sum(counts, G)
  BY <1>3, <1>8, TotalsAreSums, CountsAreSums
<1>10. (\A k \in K : cents[k] \in Int) /\ Sum(cents, K) = Cents(T)
  BY <1>1, <1>5, <1>6, CentsOfGroups
<1>11. (\A k \in K : sizes[k] \in Int) /\ Sum(sizes, K) = Cardinality(T)
  BY <1>1, <1>5, <1>6, SizesOfGroups
<1>12. Sum(totals, {e[k] : k \in K}) = Sum(cents, K)
  <2>1. \A k \in K : totals[e[k]] = cents[k] /\ cents[k] \in Int
    BY <1>7, <1>10
  <2> QED
    BY <1>1, <1>4, <2>1, SumOfImage
<1>13. Sum(counts, {e[k] : k \in K}) = Sum(sizes, K)
  <2>1. \A k \in K : counts[e[k]] = sizes[k] /\ sizes[k] \in Int
    BY <1>7, <1>11
  <2> QED
    BY <1>1, <1>4, <2>1, SumOfImage
<1> QED
  BY <1>2, <1>9, <1>10, <1>11, <1>12, <1>13 DEF G

\* The expenses of the months add up to the spending.
LEMMA MonthsAddUp ==
  ASSUME NEW f
  PROVE  MapThenSumSet(LAMBDA r : r.expense, CashFlow(f)) = Cents(Spending(f))
<1> DEFINE R == Reported(f)
           S == Spending(f)
           key == [t \in R |-> Month(t)]
           K == {key[t] : t \in R}
           rows(mon) == {t \in R : Month(t) = mon}
           e == [mon \in K |->
                  [month |-> mon, count |-> Cardinality(rows(mon)),
                   expense |-> Cents({t \in rows(mon) : Data[t].cents > 0}),
                   income |-> -Cents({t \in rows(mon) : Data[t].cents < 0})]]
           group == [mon \in K |-> {t \in S : key[t] = mon}]
           expenses == [mon \in K |-> Cents(group[mon])]
           G == CashFlow(f)
           expense == [g \in G |-> g.expense]
<1>1. R \subseteq Transactions /\ S \subseteq R /\ S \subseteq Transactions
  BY DEF Spending, Reported, Stored
<1>2. IsFiniteSet(K)
  <2>1. IsFiniteSet(R)
    BY <1>1, CentsOfRows
  <2> HIDE DEF R, key
  <2> QED
    BY <2>1, ImageIsFinite
<1>3. G = {e[mon] : mon \in K}
  <2>1. K = {Month(t) : t \in Reported(f)}
    OBVIOUS
  <2> HIDE DEF K
  <2> QED
    BY <2>1 DEF CashFlow
<1>4. IsFiniteSet(G)
  <2> HIDE DEF e, K, G
  <2> QED
    BY <1>2, <1>3, ImageIsFinite
<1>5. \A k, l \in K : e[k] = e[l] => k = l
  <2>1. \A k \in K : e[k].month = k
    OBVIOUS
  <2> HIDE DEF e, K
  <2> QED
    BY <2>1
<1>6. \A k \in K : e[k] \in G /\ expense[e[k]] = expenses[k]
  <2>1. SUFFICES ASSUME NEW k \in K PROVE e[k] \in G /\ expense[e[k]] = expenses[k]
    OBVIOUS
  <2>2. {t \in rows(k) : Data[t].cents > 0} = {t \in S : key[t] = k}
    BY DEF Spending
  <2>3. e[k].expense = Cents({t \in rows(k) : Data[t].cents > 0})
    BY <2>1
  <2>4. expenses[k] = Cents(group[k]) /\ group[k] = {t \in S : key[t] = k}
    BY <2>1
  <2>5. e[k].expense = expenses[k]
    BY <2>2, <2>3, <2>4
  <2> HIDE DEF e, K, G, expenses, rows, group
  <2> QED
    BY <1>3, <2>5
<1>7. /\ \A k \in K : expenses[k] = Cents(group[k])
      /\ \A k \in K : \A t : t \in group[k] <=> t \in S /\ key[t] = k
  OBVIOUS
<1>8. \A t \in S : key[t] \in K
  BY <1>1
<1>9. \A g \in G : expense[g] = g.expense
  OBVIOUS
<1> HIDE DEF G, e, K, expenses, expense, S, R, key, rows, group
<1>10. MapThenSumSet(LAMBDA r : r.expense, G) = Sum(expense, G)
  BY <1>4, <1>9, ExpensesAreSums
<1>11. (\A k \in K : expenses[k] \in Int) /\ Sum(expenses, K) = Cents(S)
  BY <1>1, <1>2, <1>7, <1>8, CentsOfGroups
<1>12. \A k \in K : expense[e[k]] = expenses[k] /\ expenses[k] \in Int
  BY <1>6, <1>11
<1>13. Sum(expense, {e[k] : k \in K}) = Sum(expenses, K)
  BY <1>2, <1>5, <1>12, SumOfImage
<1>14. MapThenSumSet(LAMBDA r : r.expense, G) = Cents(S)
  BY <1>3, <1>10, <1>11, <1>13
<1> QED
  BY <1>14 DEF G, S

\* The two sides of spend-vs-transfers share nothing and leave out nothing.
LEMMA SidesAddUp ==
  ASSUME NEW f
  PROVE  LET spend == SpendVsTransfers(f)
         IN  /\ Cents(Spending(f)) = Totals(spend.by_category) + Cents(spend.transfers)
             /\ Cardinality(Spending(f)) = Counts(spend.by_category) + Cardinality(spend.transfers)
<1> DEFINE S == Spending(f)
           A == {t \in S : NotTransfer(t)}
           B == {t \in S : category[t] # None /\ category[t] \in TransferCategories}
<1>1. A \union B = S /\ A \intersect B = {}
  BY DEF NotTransfer
<1>2. S \subseteq Transactions /\ A \subseteq Transactions /\ B \subseteq Transactions
  BY DEF Spending, Reported, Stored
<1>3. /\ SpendVsTransfers(f).by_category = GroupBy(A, category)
      /\ SpendVsTransfers(f).transfers = B
  BY DEF SpendVsTransfers
<1> HIDE DEF S, A, B
<1>4. Totals(GroupBy(A, category)) = Cents(A) /\ Counts(GroupBy(A, category)) = Cardinality(A)
  BY <1>2, GroupsAddUp
<1>5. Cents(S) = Cents(A) + Cents(B)
  <2>1. /\ IsFiniteSet(A) /\ Cents(A) = Sum(CentsOf, A)
        /\ IsFiniteSet(B) /\ Cents(B) = Sum(CentsOf, B)
        /\ Cents(S) = Sum(CentsOf, S)
    BY <1>2, CentsOfRows
  <2>2. \A t \in A \union B : CentsOf[t] \in Int
    BY <1>1, <1>2, CentsOfRows
  <2>3. Sum(CentsOf, A \union B) = Sum(CentsOf, A) + Sum(CentsOf, B)
    BY <1>1, <2>1, <2>2, SumOfUnion
  <2> QED
    BY <1>1, <2>1, <2>3
<1>6. Cardinality(S) = Cardinality(A) + Cardinality(B)
  <2>1. IsFiniteSet(A) /\ IsFiniteSet(B)
    BY <1>2, CentsOfRows
  <2>2. Cardinality(A \intersect B) = 0
    BY <1>1, FS_EmptySet
  <2>3. Cardinality(A) \in Nat /\ Cardinality(B) \in Nat
    BY <2>1, FS_CardinalityType
  <2>4. Cardinality(A \union B) = Cardinality(A) + Cardinality(B) - Cardinality(A \intersect B)
    BY <2>1, FS_Union
  <2> QED
    BY <1>1, <2>2, <2>3, <2>4
<1> QED
  BY <1>3, <1>4, <1>5, <1>6 DEF S

\* Without a category and a minimum, the descriptions group all the spending.
LEMMA AllDescriptions ==
  ASSUME NEW f, f.category = None
  PROVE  ByDescription(f, 0) = GroupBy(Spending(f),
           [t \in Spending(f) |-> <<AccountOf(t).bank, Data[t].text, category[t]>>])
<1> DEFINE S == Spending(f)
           key == [t \in S |-> <<AccountOf(t).bank, Data[t].text, category[t]>>]
<1>1. {t \in S : Holds(f.category, category[t])} = S
  BY DEF Holds
<1>2. ByDescription(f, 0) = {g \in GroupBy(S, key) : 0 = 0 \/ g.total >= 0}
  BY <1>1 DEF ByDescription
<1> HIDE DEF S, key
<1>3. ByDescription(f, 0) = GroupBy(S, key)
  BY <1>2
<1> QED
  BY <1>3 DEF S, key

\* A minimum leaves out the groups below it, and no other.
LEMMA OnlySmallGroups ==
  ASSUME NEW f, NEW g \in ByDescription(f, 0) \ ByDescription(f, 500)
  PROVE  g.total < 500
<1> DEFINE T == {t \in Spending(f) : Holds(f.category, category[t])}
           key == [t \in Spending(f) |-> <<AccountOf(t).bank, Data[t].text, category[t]>>]
<1>1. g \in GroupBy(T, key) /\ ~ (500 = 0 \/ g.total >= 500)
  BY DEF ByDescription
<1>2. T \subseteq Transactions
  BY DEF Spending, Reported, Stored
<1> HIDE DEF T, key
<1>3. PICK k : g = [key |-> k, total |-> Cents({t \in T : key[t] = k}),
                    count |-> Cardinality({t \in T : key[t] = k})]
  BY <1>1 DEF GroupBy
<1> DEFINE group == {t \in T : key[t] = k}
<1>4. group \subseteq Transactions /\ g.total = Cents(group)
  BY <1>2, <1>3
<1> HIDE DEF group
<1>5. g.total \in Int
  BY <1>4, CentsOfRows
<1> QED
  BY <1>1, <1>5

\* The reports add up in every state of the table.
LEMMA AllReportsAddUp == ReportsAddUp
<1>1. SUFFICES ASSUME NEW f, f.category = None
      PROVE  LET spend == SpendVsTransfers(f)
                 spent == Totals(Summary(f))
             IN  /\ spent = Totals(ByDescription(f, 0))
                 /\ spent = MapThenSumSet(LAMBDA r : r.expense, CashFlow(f))
                 /\ spent = Totals(spend.by_category) + Cents(spend.transfers)
                 /\ Counts(Summary(f)) = Counts(spend.by_category) + Cardinality(spend.transfers)
                 /\ \A g \in ByDescription(f, 0) \ ByDescription(f, 500) : g.total < 500
  <2>1. \A f \in {[g EXCEPT !.card = None, !.category = None] : g \in Filters} :
          f.category = None
    <3>1. \A g \in Filters : "category" \in DOMAIN g
      BY QueryAssumption
    <3>2. ASSUME NEW g \in Filters
          PROVE  [g EXCEPT !.card = None, !.category = None].category = None
      BY <3>1
    <3> QED
      BY <3>2
  <2> QED
    BY <1>1, <2>1 DEF ReportsAddUp
<1>2. Spending(f) \subseteq Transactions
  BY DEF Spending, Reported, Stored
<1>3. Totals(Summary(f)) = Cents(Spending(f)) /\ Counts(Summary(f)) = Cardinality(Spending(f))
  BY <1>2, GroupsAddUp DEF Summary
<1>4. Totals(ByDescription(f, 0)) = Cents(Spending(f))
  BY <1>1, <1>2, AllDescriptions, GroupsAddUp
<1> QED
  BY <1>3, <1>4, MonthsAddUp, SidesAddUp, OnlySmallGroups

\* The summary, the descriptions, the months and the two sides of
\* spend-vs-transfers count the same spending.
THEOREM ReportsAgree == Spec => []ReportsAddUp
BY AllReportsAddUp, PTL
=============================================================================
