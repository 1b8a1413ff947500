--------------------------- MODULE SyncBankProofs ---------------------------
(***************************************************************************)
(* Proofs about SyncBank for any number of requests, attachments and rows. *)
(***************************************************************************)
EXTENDS SyncBank, TLAPS

USE DEF Importers

(***************************************************************************)
(* What the coroutine of a request relies on where it stands.              *)
(***************************************************************************)
Located ==
  \A r \in Requests :
    /\ pc[r] \in InSync => banks[r] # <<>>
    /\ pc[r] \in Statements => source[r] \in Attachments
    /\ pc[r] = "rows" => row[r] \in Nat \ {0}

\* An attachment belongs to a known bank and has a well-formed account.
LEMMA AttachmentTypes ==
  ASSUME NEW a \in Attachments
  PROVE  /\ a \in Nat \ {0}
         /\ MsgOf[a] \in Nat \ {0}
         /\ BankOf[ImporterOf[a]] \in {"c6", "nubank"}
         /\ Account(a) \in Accounts
         /\ Rows[a] \in Seq(Hashes)
  BY SyncAssumption DEF BankOf, Account, Accounts

\* Message references are numbers.
LEMMA RefsType ==
  ASSUME NEW S \in SUBSET Attachments
  PROVE  Refs(S) \subseteq Nat
  BY AttachmentTypes DEF Refs

\* A sync only ever fetches attachments.
LEMMA NewSourcesType ==
  ASSUME NEW i, NEW seen
  PROVE  NewSources(i, seen) \subseteq Attachments
  BY DEF NewSources

\* The initial state is typed.
LEMMA InitTypes == Init => TypeOK /\ Located
  BY DEF Init, TypeOK, Located, Sessions, Locations, InSync, Statements, Done,
         Accounts, TxRows

\* Requests' control state is typed in every next state.
LEMMA NextTypes ==
  ASSUME TypeOK, Located, [Next]_vars
  PROVE  TypeOK' /\ Located'
<1> USE DEF TypeOK, Located, Sessions, Locations, InSync, Statements, Done,
            mailbox, db, tx, flow, result
<1>1. CASE UNCHANGED vars
  BY <1>1 DEF vars
<1>2. CASE MessageArrives
  BY <1>2 DEF MessageArrives
<1>3. CASE Crash
  BY <1>3 DEF Crash, Accounts, TxRows
<1>4. ASSUME NEW r \in Requests, Start(r)
      PROVE  TypeOK' /\ Located'
  <2>1. PICK choice \in Choices :
          banks' = [banks EXCEPT ![r] = IF choice = "all" THEN ImporterOrder
                                                          ELSE <<choice>>]
    BY <1>4 DEF Start
  <2>2. <<choice>> \in Seq(Importers \union Choices) /\ <<choice>> # <<>>
    OBVIOUS
  <2>3. ImporterOrder \in Seq(Importers \union Choices) /\ ImporterOrder # <<>>
    BY DEF ImporterOrder
  <2>4. banks' \in [Requests -> Seq(Importers \union Choices)]
    BY <2>1, <2>2, <2>3
  <2> QED  BY <1>4, <2>1, <2>2, <2>3, <2>4 DEF Start, ClearResult, Accounts, TxRows
<1>5. ASSUME NEW r \in Requests, Progress(r)
      PROVE  TypeOK' /\ Located'
  <2>1. CASE Respond(r)
    BY <2>1 DEF Respond, Leave, DropPending
  <2>2. CASE SkipUnknownBank(r)
    BY <2>2 DEF SkipUnknownBank
  <2>3. CASE ListImportJobs(r)
    BY <2>3, RefsType DEF ListImportJobs
  <2>4. CASE FetchNewSources(r)
    BY <2>4, NewSourcesType DEF FetchNewSources
  <2>5. CASE Parse(r)
    BY <2>5 DEF Parse, Take
  <2>6. CASE ParseRaises(r)
    BY <2>6 DEF ParseRaises, Caught, EndIteration
  <2>7. CASE SelectAccount(r)
    BY <2>7 DEF SelectAccount, SelectAccountIn
  <2>8. CASE AddAccount(r)
    BY <2>8, AttachmentTypes DEF AddAccount
  <2>9. CASE AddAccountRaises(r)
    BY <2>9 DEF AddAccountRaises, FlushRaises, Caught, EndIteration, DropPending
  <2>10. CASE CreateImportJob(r)
    BY <2>10 DEF CreateImportJob, AtJob, ToRows
  <2>11. CASE CreateImportJobRaises(r)
    BY <2>11 DEF CreateImportJobRaises, AtJob, FlushRaises, Caught, EndIteration, DropPending
  <2>12. CASE BuildRowsRaises(r)
    BY <2>12 DEF BuildRowsRaises, Caught, EndIteration
  <2>13. CASE InsertRow(r)
    BY <2>13, AttachmentTypes DEF InsertRow, AtRow, InsertUnless, TxRows
  <2>14. CASE RowRejected(r)
    BY <2>14 DEF RowRejected, AtRow, ServerRaises, Caught, EndIteration, DropPending
  <2>15. CASE Imported(r)
    BY <2>15 DEF Imported, EndIteration
  <2>16. CASE StatementRaises(r)
    BY <2>16 DEF StatementRaises, Caught, EndIteration
  <2>17. CASE Commit(r)
    BY <2>17 DEF Commit, NextBank, AtCommit, Publish, DropPending
  <2>18. CASE CommitRaises(r)
    BY <2>18 DEF CommitRaises, Answer500, Leave, ClearResult, DropPending
  <2> QED  BY <1>5, <2>1, <2>2, <2>3, <2>4, <2>5, <2>6, <2>7, <2>8, <2>9, <2>10,
              <2>11, <2>12, <2>13, <2>14, <2>15, <2>16, <2>17, <2>18 DEF Progress
<1>6. ASSUME NEW r \in Requests, Disturbance(r)
      PROVE  TypeOK' /\ Located'
  <2>1. CASE FetchFails(r)
    BY <2>1 DEF FetchFails, Answer500, Leave, ClearResult, DropPending
  <2>2. CASE ListRaises(r)
    BY <2>2 DEF ListRaises, Answer500, Leave, ClearResult, DropPending
  <2>3. CASE ConnectionLost(r)
    BY <2>3 DEF ConnectionLost, DropPending
  <2>4. CASE CommitUnacknowledged(r)
    BY <2>4 DEF CommitUnacknowledged, Publish, Answer500, Leave, ClearResult,
                DropPending
  <2> QED  BY <1>6, <2>1, <2>2, <2>3, <2>4 DEF Disturbance
<1>7. ASSUME NEW r \in Requests, DeadlockVictim(r)
      PROVE  TypeOK' /\ Located'
  <2>1. pc[r] \in Statements
    BY <1>7 DEF DeadlockVictim, Deadlocked, Waits
  <2>2. CASE ServerRaises(r)
    BY <2>1, <2>2 DEF ServerRaises, Caught, EndIteration, DropPending
  <2>3. CASE FlushRaises(r)
    BY <2>1, <2>3 DEF FlushRaises, Caught, EndIteration, DropPending
  <2> QED  BY <1>7, <2>2, <2>3 DEF DeadlockVictim
<1> QED  BY <1>1, <1>2, <1>3, <1>4, <1>5, <1>6, <1>7 DEF Next

\* TypeOK is an invariant for any number of requests and attachments: the
\* locals of sync_bank, the tables and the sessions keep their types.
THEOREM TypesAreInvariant == Spec => []TypeOK
<1>1. TypeOK /\ Located /\ [Next]_vars => TypeOK' /\ Located'
  BY NextTypes
<1> QED  BY InitTypes, <1>1, PTL DEF Spec
-----------------------------------------------------------------------------
(***************************************************************************)
(* The tables.  A transaction that is gone holds nothing; a live one holds *)
(* the account and the job that its next statements refer to; its rows are *)
(* rows of their statements.                                               *)
(***************************************************************************)
Held ==
  \A r \in Requests :
    /\ session[r] # "active" =>
         pAccounts[r] = {} /\ pJobs[r] = {} /\ pTxs[r] = {}
    /\ session[r] = "active" /\ pc[r] = "job" =>
         Account(source[r]) \in accounts \union pAccounts[r]
    /\ session[r] = "active" /\ pc[r] = "rows" => source[r] \in pJobs[r]
    /\ \A t \in pTxs[r] : t.hash \in HashesOf(t.job)

(***************************************************************************)
(* Every job of an open transaction is complete in the view of that        *)
(* transaction, except the one whose rows are being inserted, of which the *)
(* rows before the next one are there.  A row that was skipped is in that  *)
(* view too, because the INSERT waited for whoever held its key: this is   *)
(* why CompleteImport survives the commit.                                 *)
(***************************************************************************)
View(r) == HashesIn(txs \union pTxs[r])
Current(r, a) == pc[r] = "rows" /\ a = source[r]
CompleteSoFar ==
  \A r \in Requests : \A a \in pJobs[r] \ Unencodable :
    \A i \in DOMAIN Rows[a] :
      (Current(r, a) => i < row[r]) => Rows[a][i] \in View(r)

IInv ==
  /\ TypeOK /\ Located
  /\ UniqueKeys /\ ReferentialIntegrity /\ Held
  /\ CompleteSoFar /\ CompleteImport


(***************************************************************************)
(* What a step does to the tables and to the rows of open transactions.    *)
(***************************************************************************)
Quiet == UNCHANGED <<db, pAccounts, pJobs, pTxs>>
Dropped(r) == DropPending(r) /\ UNCHANGED db
Published(r) == Publish(r) /\ DropPending(r)
AllDropped ==
  /\ pAccounts' = [r \in Requests |-> {}]
  /\ pJobs' = [r \in Requests |-> {}]
  /\ pTxs' = [r \in Requests |-> {}]
  /\ UNCHANGED db

\* Only three actions insert rows; all others leave the rows of their open
\* transaction alone, drop them or publish them.
LEMMA TableSteps ==
  ASSUME [Next]_vars
  PROVE  \/ Quiet
         \/ AllDropped
         \/ \E r \in Requests :
              \/ Dropped(r) \/ Published(r)
              \/ AddAccount(r) \/ CreateImportJob(r) \/ InsertRow(r)
<1> USE DEF Quiet, Dropped, Published, AllDropped, mailbox, db, tx, flow, result
<1>1. CASE UNCHANGED vars
  BY <1>1 DEF vars
<1>2. CASE MessageArrives
  BY <1>2 DEF MessageArrives
<1>3. CASE Crash
  BY <1>3 DEF Crash
<1>4. ASSUME NEW r \in Requests, Start(r)
      PROVE  Quiet
  BY <1>4 DEF Start
<1>5. ASSUME NEW r \in Requests, Progress(r)
      PROVE  \/ Quiet \/ Dropped(r) \/ Published(r)
             \/ AddAccount(r) \/ CreateImportJob(r) \/ InsertRow(r)
  <2>1. CASE \/ Respond(r) \/ AddAccountRaises(r) \/ CreateImportJobRaises(r)
             \/ RowRejected(r) \/ CommitRaises(r)
    <3>1. Dropped(r)
      BY <2>1 DEF Respond, AddAccountRaises, CreateImportJobRaises, AtJob, RowRejected, AtRow,
                  CommitRaises, FlushRaises, ServerRaises, Caught, EndIteration, Answer500, Leave
    <3> QED  BY <3>1
  <2>2. CASE \/ SkipUnknownBank(r) \/ ListImportJobs(r) \/ FetchNewSources(r)
             \/ Parse(r) \/ ParseRaises(r) \/ SelectAccount(r)
             \/ BuildRowsRaises(r) \/ Imported(r) \/ StatementRaises(r)
    <3>1. Quiet
      BY <2>2 DEF SkipUnknownBank, ListImportJobs, FetchNewSources, Parse, Take,
                  ParseRaises, SelectAccount, SelectAccountIn, BuildRowsRaises, Imported, EndIteration,
                  StatementRaises, Caught, EndIteration
    <3> QED  BY <3>1
  <2>3. CASE Commit(r)
    BY <2>3 DEF Commit, NextBank
  <2> QED  BY <1>5, <2>1, <2>2, <2>3 DEF Progress
<1>6. ASSUME NEW r \in Requests, Disturbance(r)
      PROVE  Dropped(r) \/ Published(r)
  BY <1>6 DEF Disturbance, FetchFails, ListRaises, ConnectionLost,
              CommitUnacknowledged, Answer500, Leave
<1>7. ASSUME NEW r \in Requests, DeadlockVictim(r)
      PROVE  Dropped(r)
  BY <1>7 DEF DeadlockVictim, FlushRaises, ServerRaises, Caught, EndIteration
<1> QED  BY <1>1, <1>2, <1>3, <1>4, <1>5, <1>6, <1>7 DEF Next

\* The unique keys survive every step: an INSERT checks what is committed and
\* waits for what is not, and a commit only moves rows.
LEMMA NextUniqueAccounts ==
  ASSUME TypeOK, UniqueAccounts, [Next]_vars
  PROVE  UniqueAccounts'
<1> USE DEF TypeOK, UniqueAccounts, db
<1>1. CASE Quiet \/ AllDropped
  BY <1>1 DEF Quiet, AllDropped
<1>2. ASSUME NEW r \in Requests, Dropped(r) \/ Published(r)
      PROVE  UniqueAccounts'
  BY <1>2 DEF Dropped, Published, Publish, DropPending
<1>3. ASSUME NEW r \in Requests, AddAccount(r)
      PROVE  UniqueAccounts'
  BY <1>3 DEF AddAccount, Waiting, Waits
<1>4. ASSUME NEW r \in Requests, CreateImportJob(r) \/ InsertRow(r)
      PROVE  UniqueAccounts'
  BY <1>4 DEF CreateImportJob, AtJob, ToRows, InsertRow, AtRow, InsertUnless
<1> QED  BY <1>1, <1>2, <1>3, <1>4, TableSteps

\* Every step keeps source_ref unique.
LEMMA NextUniqueRefs ==
  ASSUME TypeOK, UniqueRefs, [Next]_vars
  PROVE  UniqueRefs'
<1> USE DEF TypeOK, UniqueRefs, db
<1>1. CASE Quiet \/ AllDropped
  BY <1>1 DEF Quiet, AllDropped
<1>2. ASSUME NEW r \in Requests, Dropped(r) \/ Published(r)
      PROVE  UniqueRefs'
  <2>1. pJobs' = [pJobs EXCEPT ![r] = {}]
    BY <1>2 DEF Dropped, Published, DropPending
  <2>2. jobs' = jobs \/ jobs' = jobs \union pJobs[r]
    BY <1>2 DEF Dropped, Published, Publish
  <2>3. \A a, b \in jobs' : MsgOf[a] = MsgOf[b] => a = b
    BY <2>2
  <2>4. ASSUME NEW p \in Requests, NEW a \in pJobs'[p]
        PROVE  /\ \A b \in pJobs'[p] : MsgOf[a] = MsgOf[b] => a = b
               /\ \A b \in jobs' : MsgOf[a] # MsgOf[b]
               /\ \A q \in Requests \ {p} : \A b \in pJobs'[q] : MsgOf[a] # MsgOf[b]
    <3>1. p # r /\ a \in pJobs[p] /\ pJobs'[p] = pJobs[p]
      BY <2>1, <2>4
    <3>2. \A q \in Requests : pJobs'[q] \subseteq pJobs[q]
      BY <2>1
    <3> QED  BY <2>2, <3>1, <3>2
  <2> QED  BY <2>3, <2>4
<1>3. ASSUME NEW r \in Requests, CreateImportJob(r)
      PROVE  UniqueRefs'
  <2>1. /\ pJobs' = [pJobs EXCEPT ![r] = @ \union {source[r]}]
        /\ UNCHANGED jobs
    BY <1>3 DEF CreateImportJob, AtJob, ToRows
  <2>2. \A b \in jobs \union pJobs[r] : MsgOf[b] # MsgOf[source[r]]
    BY <1>3 DEF CreateImportJob, AtJob, ToRows, Refs
  <2>3. \A q \in Requests \ {r} : \A b \in pJobs[q] : MsgOf[b] # MsgOf[source[r]]
    BY <1>3 DEF CreateImportJob, AtJob, ToRows, Waiting, Waits, Refs
  <2> QED  BY <2>1, <2>2, <2>3
<1>4. ASSUME NEW r \in Requests, AddAccount(r) \/ InsertRow(r)
      PROVE  UniqueRefs'
  BY <1>4 DEF AddAccount, InsertRow, AtRow, InsertUnless
<1> QED  BY <1>1, <1>2, <1>3, <1>4, TableSteps

\* Every step keeps row_hash unique.
LEMMA NextUniqueHashes ==
  ASSUME TypeOK, UniqueHashes, [Next]_vars
  PROVE  UniqueHashes'
<1> USE DEF TypeOK, UniqueHashes, db
<1>1. CASE Quiet \/ AllDropped
  BY <1>1 DEF Quiet, AllDropped
<1>2. ASSUME NEW r \in Requests, Dropped(r) \/ Published(r)
      PROVE  UniqueHashes'
  BY <1>2 DEF Dropped, Published, Publish, DropPending
<1>3. ASSUME NEW r \in Requests, InsertRow(r)
      PROVE  UniqueHashes'
  BY <1>3 DEF InsertRow, AtRow, InsertUnless, Waiting, Waits, HashesIn
<1>4. ASSUME NEW r \in Requests, AddAccount(r) \/ CreateImportJob(r)
      PROVE  UniqueHashes'
  BY <1>4 DEF AddAccount, CreateImportJob, AtJob, ToRows
<1> QED  BY <1>1, <1>2, <1>3, <1>4, TableSteps

\* The foreign keys survive every step.
LEMMA NextReferentialIntegrity ==
  ASSUME TypeOK, Located, ReferentialIntegrity, Held, [Next]_vars
  PROVE  ReferentialIntegrity'
<1> USE DEF TypeOK, ReferentialIntegrity, Held, db
<1>1. CASE Quiet
  BY <1>1 DEF Quiet
<1>2. CASE AllDropped
  BY <1>2 DEF AllDropped
<1>3. ASSUME NEW r \in Requests, Dropped(r)
      PROVE  ReferentialIntegrity'
  BY <1>3 DEF Dropped, DropPending
<1>4. ASSUME NEW r \in Requests, Published(r)
      PROVE  ReferentialIntegrity'
  BY <1>4 DEF Published, Publish, DropPending
<1>5. ASSUME NEW r \in Requests, AddAccount(r)
      PROVE  ReferentialIntegrity'
  BY <1>5 DEF AddAccount
<1>6. ASSUME NEW r \in Requests, CreateImportJob(r)
      PROVE  ReferentialIntegrity'
  BY <1>6 DEF CreateImportJob, AtJob, ToRows
<1>7. ASSUME NEW r \in Requests, InsertRow(r)
      PROVE  ReferentialIntegrity'
  BY <1>7 DEF InsertRow, AtRow, InsertUnless
<1> QED  BY <1>1, <1>2, <1>3, <1>4, <1>5, <1>6, <1>7, TableSteps
\* A request holds what its next statements refer to.
LEMMA NextHeld ==
  ASSUME TypeOK, Located, Held, [Next]_vars
  PROVE  Held'
<1> USE DEF TypeOK, Located, Held, Statements, InSync, Done, mailbox, db, tx, flow, result
<1>1. CASE UNCHANGED vars
  BY <1>1 DEF vars
<1>2. CASE MessageArrives
  BY <1>2 DEF MessageArrives
<1>3. CASE Crash
  BY <1>3 DEF Crash
<1>4. ASSUME NEW r \in Requests, Start(r)
      PROVE  Held'
  BY <1>4 DEF Start
<1>5. ASSUME NEW r \in Requests, Progress(r)
      PROVE  Held'
  <2>1. CASE Respond(r)
    BY <2>1 DEF Respond, Leave, DropPending
  <2>2. CASE SkipUnknownBank(r)
    BY <2>2 DEF SkipUnknownBank
  <2>3. CASE ListImportJobs(r)
    BY <2>3 DEF ListImportJobs
  <2>4. CASE FetchNewSources(r)
    BY <2>4 DEF FetchNewSources
  <2>5. CASE Parse(r)
    BY <2>5 DEF Parse, Take
  <2>6. CASE ParseRaises(r)
    BY <2>6 DEF ParseRaises, Caught, EndIteration
  <2>7. CASE SelectAccount(r)
    BY <2>7 DEF SelectAccount, SelectAccountIn
  <2>8. CASE AddAccount(r)
    BY <2>8 DEF AddAccount
  <2>9. CASE AddAccountRaises(r)
    BY <2>9 DEF AddAccountRaises, FlushRaises, Caught, EndIteration, DropPending
  <2>10. CASE CreateImportJob(r)
    BY <2>10 DEF CreateImportJob, AtJob, ToRows
  <2>11. CASE CreateImportJobRaises(r)
    BY <2>11 DEF CreateImportJobRaises, AtJob, FlushRaises, Caught, EndIteration, DropPending
  <2>12. CASE BuildRowsRaises(r)
    BY <2>12 DEF BuildRowsRaises, Caught, EndIteration
  <2>13. CASE InsertRow(r)
    <3>1. Rows[source[r]][row[r]] \in HashesOf(source[r])
      BY <2>13 DEF InsertRow, AtRow, InsertUnless, HashesOf
    <3>2. \A t \in pTxs'[r] : t.hash \in HashesOf(t.job)
      BY <2>13, <3>1 DEF InsertRow, AtRow, InsertUnless
    <3> QED  BY <2>13, <3>2 DEF InsertRow, AtRow, InsertUnless
  <2>14. CASE RowRejected(r)
    BY <2>14 DEF RowRejected, AtRow, ServerRaises, Caught, EndIteration, DropPending
  <2>15. CASE Imported(r)
    BY <2>15 DEF Imported, EndIteration
  <2>16. CASE StatementRaises(r)
    BY <2>16 DEF StatementRaises, Caught, EndIteration
  <2>17. CASE Commit(r)
    BY <2>17 DEF Commit, NextBank, AtCommit, Publish, DropPending
  <2>18. CASE CommitRaises(r)
    BY <2>18 DEF CommitRaises, Answer500, Leave, DropPending
  <2> QED  BY <1>5, <2>1, <2>2, <2>3, <2>4, <2>5, <2>6, <2>7, <2>8, <2>9, <2>10,
              <2>11, <2>12, <2>13, <2>14, <2>15, <2>16, <2>17, <2>18 DEF Progress
<1>6. ASSUME NEW r \in Requests, Disturbance(r)
      PROVE  Held'
  <2>1. CASE FetchFails(r) \/ ListRaises(r)
    <3>1. Answer500(r) /\ UNCHANGED db
      BY <2>1 DEF FetchFails, ListRaises
    <3> QED  BY <3>1 DEF Answer500, Leave, DropPending
  <2>2. CASE ConnectionLost(r)
    BY <2>2 DEF ConnectionLost, DropPending
  <2>3. CASE CommitUnacknowledged(r)
    BY <2>3 DEF CommitUnacknowledged, Publish, Answer500, Leave, DropPending
  <2> QED  BY <1>6, <2>1, <2>2, <2>3 DEF Disturbance
<1>7. ASSUME NEW r \in Requests, DeadlockVictim(r)
      PROVE  Held'
  <2>1. CASE FlushRaises(r)
    BY <2>1 DEF FlushRaises, Caught, EndIteration, DropPending
  <2>2. CASE ServerRaises(r)
    BY <2>2 DEF ServerRaises, Caught, EndIteration, DropPending
  <2> QED  BY <1>7, <2>1, <2>2 DEF DeadlockVictim
<1> QED  BY <1>1, <1>2, <1>3, <1>4, <1>5, <1>6, <1>7 DEF Next

\* No step makes a job of an open transaction less complete.
LEMMA NextCompleteSoFar ==
  ASSUME TypeOK, Located, Held, CompleteSoFar, [Next]_vars
  PROVE  CompleteSoFar'
<1> USE DEF TypeOK, Located, Held, CompleteSoFar, View, Current, HashesIn, Statements, InSync,
           Done, mailbox, db, tx, flow, result
<1>1. CASE UNCHANGED vars
  BY <1>1 DEF vars
<1>2. CASE MessageArrives
  BY <1>2 DEF MessageArrives
<1>3. CASE Crash
  BY <1>3 DEF Crash
<1>4. ASSUME NEW r \in Requests, Start(r)
      PROVE  CompleteSoFar'
  BY <1>4 DEF Start
<1>5. ASSUME NEW r \in Requests, Progress(r)
      PROVE  CompleteSoFar'
  <2>1. CASE Respond(r)
    BY <2>1 DEF Respond, Leave, DropPending
  <2>2. CASE SkipUnknownBank(r)
    BY <2>2 DEF SkipUnknownBank
  <2>3. CASE ListImportJobs(r)
    BY <2>3 DEF ListImportJobs
  <2>4. CASE FetchNewSources(r)
    BY <2>4 DEF FetchNewSources
  <2>5. CASE Parse(r)
    BY <2>5 DEF Parse, Take
  <2>6. CASE ParseRaises(r)
    BY <2>6 DEF ParseRaises, Caught, EndIteration
  <2>7. CASE SelectAccount(r)
    BY <2>7 DEF SelectAccount, SelectAccountIn
  <2>8. CASE AddAccount(r)
    BY <2>8 DEF AddAccount
  <2>9. CASE AddAccountRaises(r)
    BY <2>9 DEF AddAccountRaises, FlushRaises, Caught, EndIteration, DropPending
  <2>10. CASE CreateImportJob(r)
    <3>1. source[r] \notin pJobs[r]
      BY <2>10 DEF CreateImportJob, AtJob, ToRows, Refs
    <3>2. \A i \in DOMAIN Rows[source[r]] : ~(i < 1)
      BY <2>10, AttachmentTypes DEF CreateImportJob, AtJob, ToRows
    <3> QED  BY <2>10, <3>1, <3>2 DEF CreateImportJob, AtJob, ToRows
  <2>11. CASE CreateImportJobRaises(r)
    BY <2>11 DEF CreateImportJobRaises, AtJob, FlushRaises, Caught, EndIteration, DropPending
  <2>12. CASE BuildRowsRaises(r)
    BY <2>12 DEF BuildRowsRaises, Caught, EndIteration
  <2>13. CASE InsertRow(r)
    <3> DEFINE hash == Rows[source[r]][row[r]]
               added == [hash |-> hash, job |-> source[r]]
    <3>1. /\ pTxs' = [pTxs EXCEPT ![r] =
                        IF hash \in HashesIn(txs \union pTxs[r])
                        THEN @ ELSE @ \union {added}]
          /\ pc[r] = "rows" /\ row' = [row EXCEPT ![r] = @ + 1]
          /\ UNCHANGED <<txs, pJobs, pc, source>>
      BY <2>13 DEF InsertRow, AtRow, InsertUnless
    <3>2. \E t \in txs \union pTxs'[r] : t.hash = hash
      <4>1. CASE hash \in HashesIn(txs \union pTxs[r])
        BY <3>1, <4>1
      <4>2. CASE hash \notin HashesIn(txs \union pTxs[r])
        <5>1. added \in pTxs'[r] /\ added.hash = hash
          BY <3>1, <4>2
        <5> QED  BY <5>1
      <4> QED  BY <4>1, <4>2
    <3>3. pTxs[r] \subseteq pTxs'[r]
      BY <3>1
    <3>4. \A i \in DOMAIN Rows[source[r]] : i < row[r] + 1 => i < row[r] \/ i = row[r]
      BY <2>13, AttachmentTypes DEF InsertRow, AtRow, InsertUnless
    <3>5. ASSUME NEW a \in pJobs[r] \ Unencodable, NEW i \in DOMAIN Rows[a],
                 Current(r, a)' => i < row'[r]
          PROVE  Rows[a][i] \in View(r)'
      <4>1. CASE a = source[r] /\ i = row[r]
        BY <3>1, <3>2, <4>1
      <4>2. CASE ~(a = source[r] /\ i = row[r])
        <5>1. Current(r, a) => i < row[r]
          BY <3>1, <3>4, <3>5, <4>2
        <5>2. Rows[a][i] \in View(r)
          BY <5>1
        <5> QED  BY <3>1, <3>3, <5>2
      <4> QED  BY <4>1, <4>2
    <3>6. ASSUME NEW p \in Requests \ {r}, NEW a \in pJobs[p] \ Unencodable,
                 NEW i \in DOMAIN Rows[a], Current(p, a)' => i < row'[p]
          PROVE  Rows[a][i] \in View(p)'
      BY <3>1, <3>6
    <3> QED  BY <3>1, <3>5, <3>6
  <2>14. CASE RowRejected(r)
    BY <2>14 DEF RowRejected, AtRow, ServerRaises, Caught, EndIteration, DropPending
  <2>15. CASE Imported(r)
    <3>1. \A i \in DOMAIN Rows[source[r]] : i < row[r]
      <4>1. /\ row[r] \in Nat \ {0} /\ row[r] \notin DOMAIN Rows[source[r]]
            /\ Rows[source[r]] \in Seq(Hashes)
        BY <2>15, AttachmentTypes DEF Imported, EndIteration
      <4>2. DOMAIN Rows[source[r]] = 1..Len(Rows[source[r]]) /\ Len(Rows[source[r]]) \in Nat
        BY <4>1
      <4> HIDE DEF TypeOK, Located, CompleteSoFar
      <4> QED  BY <4>1, <4>2
    <3> QED  BY <2>15, <3>1 DEF Imported, EndIteration
  <2>16. CASE StatementRaises(r)
    BY <2>16 DEF StatementRaises, Caught, EndIteration
  <2>17. CASE Commit(r)
    BY <2>17 DEF Commit, NextBank, AtCommit, Publish, DropPending
  <2>18. CASE CommitRaises(r)
    BY <2>18 DEF CommitRaises, Answer500, Leave, DropPending
  <2> QED  BY <1>5, <2>1, <2>2, <2>3, <2>4, <2>5, <2>6, <2>7, <2>8, <2>9, <2>10,
              <2>11, <2>12, <2>13, <2>14, <2>15, <2>16, <2>17, <2>18 DEF Progress
<1>6. ASSUME NEW r \in Requests, Disturbance(r)
      PROVE  CompleteSoFar'
  <2>1. CASE FetchFails(r) \/ ListRaises(r)
    <3>1. Answer500(r) /\ UNCHANGED db
      BY <2>1 DEF FetchFails, ListRaises
    <3> QED  BY <3>1 DEF Answer500, Leave, DropPending
  <2>2. CASE ConnectionLost(r)
    BY <2>2 DEF ConnectionLost, DropPending
  <2>3. CASE CommitUnacknowledged(r)
    BY <2>3 DEF CommitUnacknowledged, Publish, Answer500, Leave, DropPending
  <2> QED  BY <1>6, <2>1, <2>2, <2>3 DEF Disturbance
<1>7. ASSUME NEW r \in Requests, DeadlockVictim(r)
      PROVE  CompleteSoFar'
  <2>1. CASE FlushRaises(r)
    BY <2>1 DEF FlushRaises, Caught, EndIteration, DropPending
  <2>2. CASE ServerRaises(r)
    BY <2>2 DEF ServerRaises, Caught, EndIteration, DropPending
  <2> QED  BY <1>7, <2>1, <2>2 DEF DeadlockVictim
<1> QED  BY <1>1, <1>2, <1>3, <1>4, <1>5, <1>6, <1>7 DEF Next

\* Only a commit changes the tables.
LEMMA CommitSteps ==
  ASSUME [Next]_vars
  PROVE  \/ UNCHANGED db
         \/ \E r \in Requests : Publish(r) /\ AtCommit(r)
<1> USE DEF mailbox, db, tx, flow, result
<1>1. ASSUME NEW r \in Requests, Progress(r), ~Commit(r)
      PROVE  UNCHANGED db
  BY <1>1 DEF Progress, Respond, SkipUnknownBank, ListImportJobs, FetchNewSources,
              Parse, Take, ParseRaises, SelectAccount, SelectAccountIn, AddAccount, AddAccountRaises,
              CreateImportJob, AtJob, ToRows, CreateImportJobRaises, BuildRowsRaises,
              InsertRow, AtRow, InsertUnless, RowRejected, Imported, EndIteration,
              StatementRaises, CommitRaises, FlushRaises, ServerRaises, Caught
<1>2. ASSUME NEW r \in Requests, Disturbance(r), ~CommitUnacknowledged(r)
      PROVE  UNCHANGED db
  BY <1>2 DEF Disturbance, FetchFails, ListRaises, ConnectionLost
<1>3. ASSUME NEW r \in Requests, Start(r) \/ DeadlockVictim(r)
      PROVE  UNCHANGED db
  BY <1>3 DEF Start, DeadlockVictim, FlushRaises, ServerRaises, Caught, EndIteration
<1>4. ASSUME NEW r \in Requests, Commit(r) \/ CommitUnacknowledged(r)
      PROVE  Publish(r) /\ AtCommit(r)
  BY <1>4 DEF Commit, NextBank, CommitUnacknowledged
<1>5. CASE MessageArrives \/ Crash \/ UNCHANGED vars
  BY <1>5 DEF MessageArrives, Crash, vars
<1> QED  BY <1>1, <1>2, <1>3, <1>4, <1>5 DEF Next

\* A commit publishes complete imports only.
LEMMA NextCompleteImport ==
  ASSUME TypeOK, Located, CompleteSoFar, CompleteImport, [Next]_vars
  PROVE  CompleteImport'
<1>1. CASE UNCHANGED db
  BY <1>1 DEF db, CompleteImport, HashesIn, HashesOf
<1>2. ASSUME NEW r \in Requests, Publish(r), AtCommit(r)
      PROVE  CompleteImport'
  <2>1. txs' = txs \union pTxs[r] /\ jobs' = jobs \union pJobs[r]
    BY <1>2 DEF Publish
  <2>2. \A a \in pJobs[r] \ Unencodable : \A i \in DOMAIN Rows[a] : Rows[a][i] \in View(r)
    BY <1>2 DEF CompleteSoFar, Current, AtCommit
  <2>3. \A a \in pJobs[r] \ Unencodable : HashesOf(a) \subseteq HashesIn(txs)'
    BY <2>1, <2>2 DEF View, HashesOf
  <2>4. HashesIn(txs) \subseteq HashesIn(txs)'
    BY <2>1 DEF HashesIn
  <2> QED  BY <2>1, <2>3, <2>4 DEF CompleteImport, HashesOf
<1> QED  BY <1>1, <1>2, CommitSteps

-----------------------------------------------------------------------------
(* The theorems. *)

\* The conjunction of all of the above is inductive.
LEMMA InitIInv == Init => IInv
  BY InitTypes DEF Init, IInv, UniqueKeys, UniqueAccounts, UniqueRefs, UniqueHashes,
                   ReferentialIntegrity, Held, CompleteSoFar, CompleteImport

\* The invariant is inductive.
LEMMA NextIInv == IInv /\ [Next]_vars => IInv'
  BY NextTypes, NextUniqueAccounts, NextUniqueRefs, NextUniqueHashes,
     NextReferentialIntegrity, NextHeld, NextCompleteSoFar, NextCompleteImport
     DEF IInv, UniqueKeys

\* It holds in every reachable state.
LEMMA IInvIsInvariant == Spec => []IInv
  BY InitIInv, NextIInv, PTL DEF Spec

\* The unique constraints of the three tables hold over committed and
\* uncommitted rows, however many syncs overlap.
THEOREM KeysAreUnique == Spec => []UniqueKeys
<1>1. IInv => UniqueKeys
  BY DEF IInv
<1> QED  BY <1>1, IInvIsInvariant, PTL

\* No committed or visible row lacks the row it refers to.
THEOREM ReferencesHold == Spec => []ReferentialIntegrity
<1>1. IInv => ReferentialIntegrity
  BY DEF IInv
<1> QED  BY <1>1, IInvIsInvariant, PTL

\* A committed job has all the rows of its statement in the table, whatever
\* other syncs, failures, crashes and deadlocks did meanwhile, unless the rows
\* failed in the client.
THEOREM ImportsAreComplete == Spec => []CompleteImport
<1>1. IInv => CompleteImport
  BY DEF IInv
<1> QED  BY <1>1, IInvIsInvariant, PTL

\* The ledger of the initial tables is empty.
LEMMA InitRefines == Init => Ledger!Init
  BY DEF Init, Ledger!Init

\* A commit is a Publish of the ledger, any other step leaves it alone.
LEMMA NextRefines ==
  ASSUME IInv, [Next]_vars
  PROVE  [Ledger!Publish]_Ledger!ledger
<1> USE DEF IInv, TypeOK
<1>1. CASE UNCHANGED db
  BY <1>1 DEF db, Ledger!ledger
<1>2. ASSUME NEW r \in Requests, Publish(r), AtCommit(r)
      PROVE  Ledger!Publish
  <2>1. jobs' = jobs \union pJobs[r] /\ txs' = txs \union pTxs[r]
    BY <1>2 DEF Publish
  <2>2. jobs' \ jobs = pJobs[r]
    BY <2>1 DEF UniqueKeys, UniqueRefs
  <2>3. txs' \ txs = pTxs[r]
    BY <2>1 DEF UniqueKeys, UniqueHashes
  <2>4. \A s \in pJobs[r], t \in jobs' : MsgOf[s] = MsgOf[t] => s = t
    BY <2>1 DEF UniqueKeys, UniqueRefs
  <2>5. ASSUME NEW t \in pTxs[r]
        PROVE  /\ t.job \in pJobs[r]
               /\ t.hash \in HashesOf(t.job)
               /\ t.hash \notin Ledger!Keys(txs' \ {t})
    <3>1. t.job \in pJobs[r] /\ t.hash \in HashesOf(t.job)
      BY DEF ReferentialIntegrity, Held
    <3>2. \A u \in txs' : u.hash = t.hash => u = t
      BY <2>1 DEF UniqueKeys, UniqueHashes
    <3> QED  BY <3>1, <3>2 DEF Ledger!Keys
  <2>6. \A s \in pJobs[r] \ Unencodable : HashesOf(s) \subseteq Ledger!Keys(txs')
    <3>1. \A s \in pJobs[r] \ Unencodable : \A i \in DOMAIN Rows[s] : Rows[s][i] \in View(r)
      BY <1>2 DEF CompleteSoFar, Current, AtCommit
    <3>2. View(r) \subseteq Ledger!Keys(txs')
      BY <2>1 DEF View, HashesIn, Ledger!Keys
    <3> QED  BY <3>1, <3>2 DEF HashesOf
  <2>7. \A s \in pJobs[r] : s \in Attachments
    OBVIOUS
  <2> QED  BY <2>1, <2>2, <2>3, <2>4, <2>5, <2>6, <2>7 DEF Ledger!Publish
<1> QED  BY <1>1, <1>2, CommitSteps

\* However many syncs interleave and fail, the committed tables behave as the
\* ledger: each message is recorded at most once, whole, atomically, for good.
THEOREM SyncImplementsLedger == Spec => ImplementsLedger
  BY IInvIsInvariant, InitRefines, NextRefines, PTL
     DEF Spec, ImplementsLedger, Ledger!Spec

=============================================================================
