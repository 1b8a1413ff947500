--------------------------- MODULE BackfillProofs ---------------------------
(***************************************************************************)
(* Proofs about Backfill for any number of backfills, reports and rows and *)
(* any categorisation rules.                                               *)
(***************************************************************************)
EXTENDS Backfill, TLAPS

(***************************************************************************)
(* What a backfill holds: the rows it has listed, sent or locked are       *)
(* stored rows of Nubank that were imported without a category, and until  *)
(* it ends it counts exactly the rows it has locked.                       *)
(***************************************************************************)
Uncategorised(t) == t \in Nubank /\ category[t] # Absent /\ FirstCategory[t] = None

Held ==
  \A b \in Backfills :
    /\ \A t \in rows[b] : Uncategorised(t)
    /\ \A t \in pending[b] : Uncategorised(t)
    /\ pc[b] = "update" =>
         Uncategorised(current[b]) /\ current[b] \in Categorisable
    /\ pc[b] = "list" => updated[b] = {} /\ pending[b] = {}
    /\ pc[b] \in {"loop", "update"} => updated[b] = pending[b]
    /\ pc[b] \in Done => pending[b] = {}

(***************************************************************************)
(* Between its queries a report has missed only transfers: these keep      *)
(* their category, so the second query finds them.                         *)
(***************************************************************************)
OnlyTransfersMissing ==
  \A q \in Reports : step[q] = "transfers" =>
    \A t \in seen[q] \ spend[q] : category[t] \in TransferCategories

IInv ==
  /\ TypeOK
  /\ CategorySound
  /\ Held
  /\ UpdatedIsDurable
  /\ OnlyTransfersMissing
  /\ ReportMissesNothing

-----------------------------------------------------------------------------
(* Types. *)

\* The initial state is typed.
LEMMA InitTypes == Init => TypeOK
  BY BackfillAssumption DEF Init, TypeOK, Done

\* Every step keeps the types, given what the backfills hold.
LEMMA NextTypes ==
  ASSUME TypeOK, Held, [Next]_vars
  PROVE  TypeOK'
<1> USE BackfillAssumption DEF TypeOK, Done, backfill, report
<1>1. CASE UNCHANGED vars
  BY <1>1 DEF vars
<1>2. CASE SyncCommits
  BY <1>2 DEF SyncCommits
<1>3. CASE Crash
  BY <1>3 DEF Crash
<1>4. ASSUME NEW b \in Backfills, Start(b) PROVE TypeOK'
  BY <1>4 DEF Start
<1>5. ASSUME NEW b \in Backfills, ListUncategorized(b) PROVE TypeOK'
  BY <1>5 DEF ListUncategorized, List
<1>6. ASSUME NEW b \in Backfills, SendUpdate(b) PROVE TypeOK'
  BY <1>6 DEF SendUpdate, Send
<1>7. ASSUME NEW b \in Backfills, Update(b) PROVE TypeOK'
  BY <1>7 DEF Update, Held
<1>8. ASSUME NEW b \in Backfills, Commit(b) \/ CommitUnacknowledged(b) PROVE TypeOK'
  BY <1>8 DEF Commit, CommitUnacknowledged, WriteRows, Finish
<1>9. ASSUME NEW b \in Backfills, DeadlockVictim(b) \/ ConnectionLost(b)
      PROVE  TypeOK'
  BY <1>9 DEF DeadlockVictim, ConnectionLost, Finish
<1>10. ASSUME NEW q \in Reports, SpendQuery(q) PROVE TypeOK'
  BY <1>10 DEF SpendQuery, ReadSpend
<1>11. ASSUME NEW q \in Reports, TransferQuery(q) PROVE TypeOK'
  BY <1>11 DEF TransferQuery
<1>12. ASSUME NEW q \in Reports, Ask(q) PROVE TypeOK'
  BY <1>12 DEF Ask
<1> QED
  BY <1>1, <1>2, <1>3, <1>4, <1>5, <1>6, <1>7, <1>8, <1>9, <1>10, <1>11, <1>12
     DEF Next, Progress

-----------------------------------------------------------------------------
(* The table. *)

\* A step leaves the table alone, adds rows, or gives the rows that one backfill
\* has locked the category of the rules.
LEMMA TableSteps ==
  ASSUME TypeOK, Held, [Next]_vars
  PROVE  \/ category' = category
         \/ SyncCommits
         \/ \E b \in Backfills : WriteRows(b)
<1>1. CASE UNCHANGED vars
  BY <1>1 DEF vars
<1>2. CASE Crash
  BY <1>2 DEF Crash
<1>3. ASSUME NEW b \in Backfills,
             Start(b) \/ ListUncategorized(b) \/ SendUpdate(b) \/ Update(b)
             \/ DeadlockVictim(b) \/ ConnectionLost(b)
      PROVE  category' = category
  BY <1>3 DEF Start, ListUncategorized, List, SendUpdate, Send, Update,
              DeadlockVictim, ConnectionLost
<1>4. ASSUME NEW q \in Reports, SpendQuery(q) \/ TransferQuery(q) \/ Ask(q)
      PROVE  category' = category
  BY <1>4 DEF SpendQuery, ReadSpend, TransferQuery, Ask, backfill
<1> QED  BY <1>1, <1>2, <1>3, <1>4 DEF Next, Progress, Commit, CommitUnacknowledged

\* A category that is set stays: whoever updates the row by id, the category it
\* writes is the one the rules already gave it.
LEMMA CategoriesStay ==
  ASSUME TypeOK, Held, CategorySound, [Next]_vars
  PROVE  \A t \in Transactions :
           category[t] \notin {None, Absent} => category'[t] = category[t]
<1> USE DEF TypeOK
<1>1. CASE category' = category
  BY <1>1
<1>2. CASE SyncCommits
  BY <1>2 DEF SyncCommits, Stored
<1>3. ASSUME NEW b \in Backfills, WriteRows(b), NEW t \in Transactions,
             category[t] \notin {None, Absent}
      PROVE  category'[t] = category[t]
  <2>1. category'[t] = IF t \in pending[b] THEN Infer[t] ELSE category[t]
    BY <1>3 DEF WriteRows
  <2>2. t \in pending[b] => category[t] = Infer[t]
    BY <1>3 DEF Held, Uncategorised, CategorySound, Stored
  <2> QED  BY <2>1, <2>2
<1> QED  BY <1>1, <1>2, <1>3, TableSteps

\* Rows never leave the table.
LEMMA StoredStays ==
  ASSUME TypeOK, Held, [Next]_vars
  PROVE  \A t \in Transactions : category[t] # Absent => category'[t] # Absent
<1> USE DEF TypeOK
<1>1. CASE SyncCommits
  BY <1>1 DEF SyncCommits, Stored
<1>2. ASSUME NEW b \in Backfills, WriteRows(b)
      PROVE  \A t \in Transactions : category[t] # Absent => category'[t] # Absent
  BY <1>2, BackfillAssumption DEF WriteRows
<1> QED  BY <1>1, <1>2, TableSteps

\* A row gets the category of its importer, or that of the rules if it is a row
\* of Nubank that was imported without one.
LEMMA NextCategorySound ==
  ASSUME TypeOK, Held, CategorySound, [Next]_vars
  PROVE  CategorySound'
<1> USE DEF TypeOK, CategorySound, Stored
<1>1. CASE category' = category
  BY <1>1
<1>2. CASE SyncCommits
  BY <1>2 DEF SyncCommits
<1>3. ASSUME NEW b \in Backfills, WriteRows(b) PROVE CategorySound'
  BY <1>3 DEF WriteRows, Held, Uncategorised
<1> QED  BY <1>1, <1>2, <1>3, TableSteps

-----------------------------------------------------------------------------
(* The backfills and the reports. *)

\* Backfills only list, send and lock rows that were imported uncategorised.
LEMMA NextHeld ==
  ASSUME TypeOK, Held, CategorySound, [Next]_vars
  PROVE  Held'
<1> USE DEF TypeOK, Held, Uncategorised, Done, backfill, report
<1>1. CASE UNCHANGED vars
  BY <1>1 DEF vars
<1>2. CASE SyncCommits
  BY <1>2, StoredStays, BackfillAssumption DEF SyncCommits
<1>3. CASE Crash
  BY <1>3 DEF Crash
<1>4. ASSUME NEW b \in Backfills, Start(b) PROVE Held'
  BY <1>4 DEF Start
<1>5. ASSUME NEW b \in Backfills, ListUncategorized(b) PROVE Held'
  <2>1. \A t \in Nubank : category[t] = None => Uncategorised(t)
    BY BackfillAssumption DEF CategorySound, Stored
  <2>2. \A t \in Nubank : t \in Transactions
    BY BackfillAssumption
  <2> QED  BY <1>5, <2>1, <2>2 DEF ListUncategorized, List
<1>6. ASSUME NEW b \in Backfills, SendUpdate(b) PROVE Held'
  BY <1>6 DEF SendUpdate, Send, Categorisable
<1>7. ASSUME NEW b \in Backfills, Update(b) PROVE Held'
  BY <1>7 DEF Update
<1>8. ASSUME NEW b \in Backfills, Commit(b) \/ CommitUnacknowledged(b) PROVE Held'
  <2>1. \A t \in Transactions : category[t] # Absent => category'[t] # Absent
    BY StoredStays
  <2>2. CASE Commit(b)
    BY <2>1, <2>2, BackfillAssumption DEF Commit, Finish
  <2>3. CASE CommitUnacknowledged(b)
    BY <2>1, <2>3, BackfillAssumption DEF CommitUnacknowledged, Finish
  <2> QED  BY <1>8, <2>2, <2>3
<1>9. ASSUME NEW b \in Backfills, DeadlockVictim(b) \/ ConnectionLost(b)
      PROVE  Held'
  BY <1>9 DEF DeadlockVictim, ConnectionLost, Finish
<1>10. ASSUME NEW q \in Reports, SpendQuery(q) \/ TransferQuery(q) \/ Ask(q)
      PROVE  Held'
  BY <1>10 DEF SpendQuery, ReadSpend, TransferQuery, Ask
<1> QED
  BY <1>1, <1>2, <1>3, <1>4, <1>5, <1>6, <1>7, <1>8, <1>9, <1>10
     DEF Next, Progress

\* A counted row keeps the category it was counted with.
LEMMA NextUpdatedIsDurable ==
  ASSUME TypeOK, Held, CategorySound, UpdatedIsDurable, [Next]_vars
  PROVE  UpdatedIsDurable'
<1> USE DEF TypeOK, UpdatedIsDurable, Done
<1>1. ASSUME NEW b \in Backfills, pc[b] = "ok", pc'[b] = "ok",
             updated'[b] = updated[b], NEW t \in updated'[b]
      PROVE  category'[t] = Infer[t]
  <2>1. t \in Transactions /\ category[t] = Infer[t] /\ Infer[t] # None
    BY <1>1, BackfillAssumption DEF Categorisable
  <2>2. Infer[t] # Absent
    BY <2>1, BackfillAssumption
  <2> QED  BY <2>1, <2>2, CategoriesStay
<1>2. ASSUME NEW b \in Backfills, Commit(b), NEW t \in updated'[b]
      PROVE  category'[t] = Infer[t]
  <2>1. updated'[b] = pending[b]
    BY <1>2 DEF Commit, Finish, AtCommit, Held
  <2>2. t \in Transactions
    BY <1>2, <2>1, BackfillAssumption DEF Categorisable
  <2> QED  BY <1>2, <2>1, <2>2 DEF Commit, WriteRows
<1>3. ASSUME NEW b \in Backfills, pc'[b] = "ok"
      PROVE  Commit(b) \/ (pc[b] = "ok" /\ updated'[b] = updated[b])
  <2>1. CASE UNCHANGED vars \/ SyncCommits
    BY <1>3, <2>1 DEF vars, backfill, SyncCommits
  <2>2. CASE Crash
    BY <1>3, <2>2 DEF Crash
  <2>3. ASSUME NEW o \in Backfills, Start(o) \/ Progress(o)
        PROVE  Commit(b) \/ (pc[b] = "ok" /\ updated'[b] = updated[b])
    <3>1. CASE Start(o)
      BY <1>3, <3>1 DEF Start
    <3>2. CASE ListUncategorized(o)
      BY <1>3, <3>2 DEF ListUncategorized, List
    <3>3. CASE SendUpdate(o)
      BY <1>3, <3>3 DEF SendUpdate, Send
    <3>4. CASE Update(o)
      BY <1>3, <3>4 DEF Update
    <3>5. CASE Commit(o)
      BY <1>3, <3>5 DEF Commit, Finish
    <3> QED  BY <2>3, <3>1, <3>2, <3>3, <3>4, <3>5 DEF Progress
  <2>4. ASSUME NEW o \in Backfills,
               DeadlockVictim(o) \/ ConnectionLost(o) \/ CommitUnacknowledged(o)
        PROVE  pc[b] = "ok" /\ updated'[b] = updated[b]
    BY <1>3, <2>4 DEF DeadlockVictim, ConnectionLost, CommitUnacknowledged, Finish
  <2>5. ASSUME NEW q \in Reports, SpendQuery(q) \/ TransferQuery(q) \/ Ask(q)
        PROVE  pc[b] = "ok" /\ updated'[b] = updated[b]
    BY <1>3, <2>5 DEF SpendQuery, ReadSpend, TransferQuery, Ask, backfill
  <2> QED  BY <2>1, <2>2, <2>3, <2>4, <2>5 DEF Next
<1> QED  BY <1>1, <1>2, <1>3

\* What a report has not counted as spend waits for its second query.
LEMMA NextReport ==
  ASSUME TypeOK, Held, CategorySound, OnlyTransfersMissing, ReportMissesNothing,
         [Next]_vars
  PROVE  OnlyTransfersMissing' /\ ReportMissesNothing'
<1> USE DEF TypeOK, OnlyTransfersMissing, ReportMissesNothing
<1>1. \A t \in Transactions : category[t] \in TransferCategories =>
                                category'[t] = category[t]
  BY CategoriesStay, BackfillAssumption
<1>2. CASE UNCHANGED report
  BY <1>1, <1>2, BackfillAssumption DEF report
<1>3. CASE Crash
  BY <1>3 DEF Crash
<1>4. ASSUME NEW q \in Reports, SpendQuery(q)
      PROVE  OnlyTransfersMissing' /\ ReportMissesNothing'
  BY <1>4 DEF SpendQuery, ReadSpend
<1>5. ASSUME NEW q \in Reports, TransferQuery(q)
      PROVE  OnlyTransfersMissing' /\ ReportMissesNothing'
  <2>1. \A t \in seen[q] \ spend[q] : t \in transfer'[q]
    BY <1>5, BackfillAssumption DEF TransferQuery, Stored
  <2> QED  BY <1>5, <2>1 DEF TransferQuery
<1>6. ASSUME NEW q \in Reports, Ask(q)
      PROVE  OnlyTransfersMissing' /\ ReportMissesNothing'
  BY <1>6 DEF Ask
<1>7. \/ UNCHANGED report \/ Crash
      \/ \E q \in Reports : SpendQuery(q) \/ TransferQuery(q) \/ Ask(q)
  BY DEF Next, Progress, vars, SyncCommits, Start, ListUncategorized, List,
         SendUpdate, Send, Update, Commit, CommitUnacknowledged, DeadlockVictim,
         ConnectionLost, Finish
<1> QED  BY <1>2, <1>3, <1>4, <1>5, <1>6, <1>7

-----------------------------------------------------------------------------
(* Theorems. *)

\* The inductive invariant holds initially ...
LEMMA InitIInv == Init => IInv
  BY InitTypes, BackfillAssumption
     DEF IInv, Init, CategorySound, Stored, Held, UpdatedIsDurable,
         OnlyTransfersMissing, ReportMissesNothing, Done

\* ... and every step keeps it.
LEMMA NextIInv == IInv /\ [Next]_vars => IInv'
  BY NextTypes, NextCategorySound, NextHeld, NextUpdatedIsDurable, NextReport
     DEF IInv

\* It holds in every reachable state.
LEMMA IInvIsInvariant == Spec => []IInv
  BY InitIInv, NextIInv, PTL DEF Spec

\* Every variable keeps its type, and backfills lock only rows of Nubank that
\* the rules have a category for.
THEOREM TypesAreInvariant == Spec => []TypeOK
<1>1. IInv => TypeOK
  BY DEF IInv
<1> QED  BY <1>1, IInvIsInvariant, PTL

\* No backfill ever writes a category over another importer's.
THEOREM CategoriesAreSound == Spec => []CategorySound
<1>1. IInv => CategorySound
  BY DEF IInv
<1> QED  BY <1>1, IInvIsInvariant, PTL

\* A category is set once, although backfills update by id what they selected
\* before others committed.
THEOREM CategoriesNeverChange == Spec => CategoriesAreFinal
<1>1. IInv /\ [Next]_vars =>
        [\A t \in Transactions :
           category[t] \notin {None, Absent} => category'[t] = category[t]]_vars
  BY CategoriesStay DEF IInv
<1> QED  BY <1>1, IInvIsInvariant, PTL DEF Spec, CategoriesAreFinal

\* What a 200 of a backfill counts is in the table, and stays there.
THEOREM UpdatesAreDurable == Spec => []UpdatedIsDurable
<1>1. IInv => UpdatedIsDurable
  BY DEF IInv
<1> QED  BY <1>1, IInvIsInvariant, PTL

\* A report of two statements misses no spending, whatever commits between them.
THEOREM ReportsMissNothing == Spec => []ReportMissesNothing
<1>1. IInv => ReportMissesNothing
  BY DEF IInv
<1> QED  BY <1>1, IInvIsInvariant, PTL

=============================================================================
