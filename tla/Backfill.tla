------------------------------ MODULE Backfill ------------------------------
(***************************************************************************)
(* POST /banking/backfill-categories next to committing syncs and the      *)
(* spend-vs-transfers report.                                              *)
(*                                                                         *)
(* A backfill lists the Nubank transactions without a category, updates    *)
(* those that infer_category has one for, one UPDATE by id each, and       *)
(* commits.  An updated row stays locked until the commit.  A report reads *)
(* the table with two statements, each of which sees what is committed     *)
(* when it starts (READ COMMITTED).                                        *)
(***************************************************************************)
EXTENDS Naturals, FiniteSets

CONSTANTS
  Backfills,      \* requests that backfill
  Reports,        \* requests that report
  Transactions,   \* transactions that are or will be in the table
  Old,            \* those in the table from the start
  Nubank,         \* those of an account of Nubank
  Spending,       \* those with a positive amount
  Categories, TransferCategories,
  FirstCategory,  \* FirstCategory[t]: the category t is imported with
  Infer,          \* Infer[t]: what today's rules say of its description
  None, Absent,
  Faults          \* subset of {"lost", "crash"}

\* The importers of Nubank apply the rules: only rows from before a rule was
\* added lack the category that it gives.
ASSUME BackfillAssumption ==
  /\ Old \subseteq Transactions /\ Nubank \subseteq Transactions
  /\ Spending \subseteq Transactions
  /\ TransferCategories \subseteq Categories
  /\ None \notin Categories /\ Absent \notin Categories /\ None # Absent
  /\ None \notin Transactions
  /\ FirstCategory \in [Transactions -> Categories \union {None}]
  /\ Infer \in [Transactions -> Categories \union {None}]
  /\ \A t \in Nubank \ Old : FirstCategory[t] = Infer[t]

VARIABLES
  category,   \* committed: the category of each transaction, or Absent
  pc,         \* where each backfill stands
  rows,       \* rows it has listed and not yet looked at
  current,    \* the row of the UPDATE it has sent
  pending,    \* rows its open transaction has updated
  updated,    \* rows it counts in its answer
  step, spend, transfer,  \* reports: where they stand and what they counted
  seen        \* history: the spending that was stored when a report began

backfill == <<pc, rows, current, pending, updated>>
report == <<step, spend, transfer, seen>>
vars == <<category, backfill, report>>

Done == {"idle", "ok", "error"}
Stored == {t \in Transactions : category[t] # Absent}
Categorisable == {t \in Nubank : Infer[t] # None}

Locked(b) == \E o \in Backfills \ {b} : current[b] \in pending[o]

\* b is on a cycle of backfills that wait for each other's rows.
WaitsFor(b, o) == b # o /\ pc[b] = "update" /\ current[b] \in pending[o]
Deadlocked(b) ==
  \E S \in SUBSET Backfills :
    /\ b \in S
    /\ \A p \in S : (\E o \in S : WaitsFor(p, o)) /\ (\E o \in S : WaitsFor(o, p))

Init ==
  /\ category = [t \in Transactions |-> IF t \in Old THEN FirstCategory[t] ELSE Absent]
  /\ pc = [b \in Backfills |-> "idle"]
  /\ rows = [b \in Backfills |-> {}]
  /\ current = [b \in Backfills |-> None]
  /\ pending = [b \in Backfills |-> {}]
  /\ updated = [b \in Backfills |-> {}]
  /\ step = [q \in Reports |-> "idle"]
  /\ spend = [q \in Reports |-> {}]
  /\ transfer = [q \in Reports |-> {}]
  /\ seen = [q \in Reports |-> {}]

\* A sync commits: some transactions appear with the category of the importer.
SyncCommits ==
  /\ \E S \in SUBSET (Transactions \ Stored) :
       /\ S # {}
       /\ category' = [t \in Transactions |->
                         IF t \in S THEN FirstCategory[t] ELSE category[t]]
  /\ UNCHANGED <<backfill, report>>

-----------------------------------------------------------------------------
(* The backfill. *)

Start(b) ==
  /\ pc[b] \in Done
  /\ pc' = [pc EXCEPT ![b] = "list"]
  /\ updated' = [updated EXCEPT ![b] = {}]
  /\ UNCHANGED <<category, rows, current, pending, report>>

List(b, selected) ==
  /\ pc[b] = "list"
  /\ rows' = [rows EXCEPT ![b] = selected]
  /\ pc' = [pc EXCEPT ![b] = "loop"]
  /\ UNCHANGED <<category, current, pending, updated, report>>

\* Mutant: the query forgets the bank.
ListEveryBank(b) == List(b, {t \in Stored : category[t] = None})

\* Mutant: the query forgets that the category must be null.
ListAllOfNubank(b) == List(b, {t \in Nubank : category[t] # Absent})

ListUncategorized(b) == List(b, {t \in Nubank : category[t] = None})

Send(b, t) ==
  /\ pc[b] = "loop"
  /\ current' = [current EXCEPT ![b] = t]
  /\ pc' = [pc EXCEPT ![b] = "update"]
  /\ UNCHANGED <<category, pending, updated, report>>

\* Mutant: rows without an inferred category are updated as well.
SendAny(b) ==
  \E t \in rows[b] : Send(b, t) /\ rows' = [rows EXCEPT ![b] = @ \ {t}]

\* Mutant: the loop starts over after every update.
SendAgain(b) ==
  \E t \in rows[b] : Infer[t] # None /\ Send(b, t) /\ UNCHANGED rows

\* The loop: rows come in no particular order, those without an inferred
\* category are passed over.
SendUpdate(b) ==
  \E t \in rows[b] :
    /\ Infer[t] # None
    /\ Send(b, t)
    /\ rows' = [rows EXCEPT ![b] = @ \ {t}]

\* The UPDATE returns, once no other open transaction has updated the row.
Update(b) ==
  /\ pc[b] = "update"
  /\ ~Locked(b)
  /\ pending' = [pending EXCEPT ![b] = @ \union {current[b]}]
  /\ updated' = [updated EXCEPT ![b] = @ \union {current[b]}]
  /\ current' = [current EXCEPT ![b] = None]
  /\ pc' = [pc EXCEPT ![b] = "loop"]
  /\ UNCHANGED <<category, rows, report>>

\* The request is over; what was not committed is rolled back.
Finish(b, answer) ==
  /\ pc' = [pc EXCEPT ![b] = answer]
  /\ rows' = [rows EXCEPT ![b] = {}]
  /\ current' = [current EXCEPT ![b] = None]
  /\ pending' = [pending EXCEPT ![b] = {}]
  /\ UNCHANGED <<updated, report>>

AtCommit(b) == pc[b] = "loop" /\ \A t \in rows[b] : Infer[t] = None

\* Mutant: the session is closed without a commit.
CommitForgotten(b) == AtCommit(b) /\ Finish(b, "ok") /\ UNCHANGED category

WriteRows(b) ==
  category' = [t \in Transactions |-> IF t \in pending[b] THEN Infer[t] ELSE category[t]]

Commit(b) == AtCommit(b) /\ WriteRows(b) /\ Finish(b, "ok")

\* The server commits and its acknowledgement is lost: a 500 all the same.
CommitUnacknowledged(b) ==
  "lost" \in Faults /\ AtCommit(b) /\ WriteRows(b) /\ Finish(b, "error")

\* No statement of a backfill is in a try: any failure is a 500.
DeadlockVictim(b) == Deadlocked(b) /\ Finish(b, "error") /\ UNCHANGED category

ConnectionLost(b) ==
  /\ "lost" \in Faults /\ pc[b] \notin Done
  /\ Finish(b, "error") /\ UNCHANGED category

Crash ==
  /\ "crash" \in Faults
  /\ pc' = [b \in Backfills |-> "idle"]
  /\ rows' = [b \in Backfills |-> {}]
  /\ current' = [b \in Backfills |-> None]
  /\ pending' = [b \in Backfills |-> {}]
  /\ updated' = [b \in Backfills |-> {}]
  /\ step' = [q \in Reports |-> "idle"]
  /\ UNCHANGED <<category, spend, transfer, seen>>

-----------------------------------------------------------------------------
(* The report: get_spend_vs_transfers. *)

ReadSpend(q, counted) ==
  /\ step[q] = "idle"
  /\ spend' = [spend EXCEPT ![q] = counted]
  /\ seen' = [seen EXCEPT ![q] = Stored \intersect Spending]
  /\ step' = [step EXCEPT ![q] = "transfers"]
  /\ UNCHANGED <<category, backfill, transfer>>

\* Mutant: NOT IN alone, which is unknown for a null category.
SpendNotIn(q) ==
  ReadSpend(q, {t \in Spending : category[t] \in Categories \ TransferCategories})

SpendQuery(q) ==
  ReadSpend(q, {t \in Stored \intersect Spending : category[t] \notin TransferCategories})

TransferQuery(q) ==
  /\ step[q] = "transfers"
  /\ transfer' = [transfer EXCEPT ![q] =
                    {t \in Stored \intersect Spending : category[t] \in TransferCategories}]
  /\ step' = [step EXCEPT ![q] = "answered"]
  /\ UNCHANGED <<category, backfill, spend, seen>>

Ask(q) ==
  /\ step[q] = "answered"
  /\ step' = [step EXCEPT ![q] = "idle"]
  /\ UNCHANGED <<category, backfill, spend, transfer, seen>>

-----------------------------------------------------------------------------
Progress(b) == ListUncategorized(b) \/ SendUpdate(b) \/ Update(b) \/ Commit(b)

Next ==
  \/ SyncCommits
  \/ Crash
  \/ \E b \in Backfills :
       \/ Start(b) \/ Progress(b) \/ DeadlockVictim(b)
       \/ ConnectionLost(b) \/ CommitUnacknowledged(b)
  \/ \E q \in Reports : SpendQuery(q) \/ TransferQuery(q) \/ Ask(q)

Spec == Init /\ [][Next]_vars

\* Coroutines are resumed, the holder of a row lock ends its transaction before
\* a waiter starves, and the deadlock detector runs.
CodeFairness ==
  /\ \A b \in Backfills : SF_vars(Progress(b))
  /\ WF_vars(\E b \in Backfills : DeadlockVictim(b))

FairSpec == Spec /\ CodeFairness
\* The owner keeps asking for a backfill.
OwnerSpec == FairSpec /\ \A b \in Backfills : WF_vars(Start(b))

-----------------------------------------------------------------------------
(* Properties. *)

\* Every variable has its type; a backfill only ever locks rows of Nubank that
\* its rules have a category for.
TypeOK ==
  /\ category \in [Transactions -> Categories \union {None, Absent}]
  /\ pc \in [Backfills -> {"list", "loop", "update"} \union Done]
  /\ rows \in [Backfills -> SUBSET Transactions]
  /\ current \in [Backfills -> Transactions \union {None}]
  /\ pending \in [Backfills -> SUBSET Categorisable]
  /\ updated \in [Backfills -> SUBSET Categorisable]
  /\ step \in [Reports -> {"idle", "transfers", "answered"}]
  /\ spend \in [Reports -> SUBSET Spending]
  /\ transfer \in [Reports -> SUBSET Spending]
  /\ seen \in [Reports -> SUBSET Spending]

\* A stored category is the importer's, or the rules' if the importer had none
\* and the transaction is one of Nubank: no backfill touches another bank.
CategorySound ==
  \A t \in Stored :
    \/ category[t] = FirstCategory[t]
    \/ /\ FirstCategory[t] = None /\ t \in Nubank
       /\ category[t] = Infer[t]

\* A category that was set never changes, although the UPDATE by id does not
\* check that the row is still without one when it gets the lock.
CategoriesAreFinal ==
  [][\A t \in Transactions :
       category[t] \notin {None, Absent} => category'[t] = category[t]]_vars

\* The rows a 200 counts as updated have their category in the table.
UpdatedIsDurable ==
  \A b \in Backfills : pc[b] = "ok" =>
    \A t \in updated[b] : category[t] = Infer[t]

\* A report misses no spending that was stored when it began: a transaction that
\* changes sides between the two queries only moves to the one still to be read.
ReportMissesNothing ==
  \A q \in Reports : step[q] = "answered" => seen[q] \subseteq spend[q] \union transfer[q]

\* A report splits: no transaction is both real spend and a transfer.
ReportSplits ==
  \A q \in Reports : step[q] = "answered" => spend[q] \intersect transfer[q] = {}

\* Every backfill is answered, although two of them may lock the same rows in
\* opposite order.
Responds == \A b \in Backfills : pc[b] \notin Done ~> pc[b] \in Done

\* Repeated backfills categorise every stored transaction that a rule added since
\* its import covers, unless they are failed for ever: two that update in opposite
\* order can deadlock every time.
EventuallyCategorised ==
  <>[][~(Crash \/ \E b \in Backfills : DeadlockVictim(b) \/ ConnectionLost(b))]_vars =>
    \A t \in Categorisable : category[t] = None ~> category[t] = Infer[t]

=============================================================================
