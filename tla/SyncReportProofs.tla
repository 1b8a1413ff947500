-------------------------- MODULE SyncReportProofs --------------------------
(***************************************************************************)
(* Proofs about what POST /banking/sync reports, for any number of         *)
(* requests, attachments and rows: its counters add up, a report without   *)
(* errors is durable, and what it reports as failed may be imported later. *)
(***************************************************************************)
EXTENDS SyncBankProofs

(***************************************************************************)
(* Each source found is in one place: still to come, the running one,      *)
(* imported or failed.                                                     *)
(***************************************************************************)
AtSources(r) == pc[r] \in {"source"} \union Statements
Reckoned ==
  \A r \in Requests :
    /\ pc[r] \notin Statements => source[r] = 0
    /\ ~AtSources(r) => sources[r] = {}
    /\ found[r] = imported[r] \union failed[r] \union sources[r]
                    \union ({source[r]} \ {0})
    /\ imported[r] \intersect failed[r] = {}
    /\ sources[r] \intersect (imported[r] \union failed[r]) = {}
    /\ source[r] \notin sources[r] \union imported[r] \union failed[r]

(***************************************************************************)
(* No importer runs twice in a request, so that none finds again what an   *)
(* earlier one has found.  The head of banks is the running importer once  *)
(* its sources are there.                                                  *)
(***************************************************************************)
RunOnce ==
  \A r \in Requests :
    /\ \A i, j \in DOMAIN banks[r] : banks[r][i] = banks[r][j] => i = j
    /\ \A a \in found[r] : \A i \in DOMAIN banks[r] :
         banks[r][i] = ImporterOf[a] => AtSources(r) /\ i = 1

\* The jobs of an open transaction are those of imported sources and of the
\* running one, except the statements whose rows fail in the client.
JobsReckoned ==
  \A r \in Requests : \A a \in pJobs[r] \ Unencodable :
    a \in imported[r] \/ (pc[r] = "rows" /\ a = source[r])

(***************************************************************************)
(* As long as nothing has failed, the work reported is committed or in the *)
(* open transaction, unless the connection was lost: then the session      *)
(* knows, and the commit raises.  Between two syncs nothing is open.       *)
(***************************************************************************)
Kept ==
  \A r \in Requests :
    /\ pc[r] \in Done \union {"list"} =>
         session[r] = "active" /\ pJobs[r] = {} /\ pTxs[r] = {}
    /\ failed[r] = {} =>
         /\ session[r] # "aborted"
         /\ session[r] = "active" => /\ imported[r] \subseteq jobs \union pJobs[r]
                                     /\ inserted[r] \subseteq txs \union pTxs[r]

\* Attachments found by an importer are its own.
LEMMA NewSourcesOf ==
  ASSUME NEW i, NEW seen, NEW a \in NewSources(i, seen)
  PROVE  a \in Attachments /\ ImporterOf[a] = i
BY DEF NewSources

\* Zero, which stands for no source, is no attachment.
LEMMA NoAttachmentZero == 0 \notin Attachments
BY SyncAssumption

\* What the rest of a list of importers has was in the list, one place later.
LEMMA TailOf ==
  ASSUME NEW S, NEW s \in Seq(S), s # <<>>
  PROVE  /\ 1 \in DOMAIN s /\ Head(s) = s[1]
         /\ \A i \in DOMAIN Tail(s) : i + 1 \in DOMAIN s /\ Tail(s)[i] = s[i + 1] /\ i \in Nat \ {0}
OBVIOUS

\* The importer that is about to fetch has found nothing in this request yet.
LEMMA FoundByOthers ==
  ASSUME RunOnce, NEW r \in Requests, pc[r] = "fetch",
         banks[r] # <<>>, NEW S, banks[r] \in Seq(S), NEW seen
  PROVE  NewSources(Head(banks[r]), seen) \intersect found[r] = {}
<1>1. 1 \in DOMAIN banks[r] /\ Head(banks[r]) = banks[r][1]
  BY TailOf
<1>2. \A a \in found[r] : banks[r][1] # ImporterOf[a]
  BY <1>1 DEF RunOnce, AtSources, Statements
<1> QED
  BY <1>1, <1>2, NewSourcesOf

\* The four sets of a request keep adding up.
LEMMA NextReckoned ==
  ASSUME TypeOK, Located, Reckoned, RunOnce, [Next]_vars
  PROVE  Reckoned'
<1> USE NoAttachmentZero DEF TypeOK, Located, Reckoned, AtSources, InSync, Statements, Done,
            mailbox, db, tx, flow, result
<1>1. CASE UNCHANGED vars
  BY <1>1 DEF vars
<1>2. CASE MessageArrives
  BY <1>2 DEF MessageArrives
<1>3. CASE Crash
  BY <1>3 DEF Crash
<1>4. ASSUME NEW r \in Requests, Start(r)
      PROVE  Reckoned'
  BY <1>4 DEF Start, ClearResult
<1>5. ASSUME NEW r \in Requests, Caught(r), pc[r] \in Statements
      PROVE  Reckoned'
  BY <1>5 DEF Caught, EndIteration
<1>6. ASSUME NEW r \in Requests, Answer500(r)
      PROVE  Reckoned'
  BY <1>6 DEF Answer500, Leave, ClearResult
<1>7. ASSUME NEW r \in Requests, Progress(r)
      PROVE  Reckoned'
  <2>1. CASE Respond(r)
    BY <2>1 DEF Respond, Leave
  <2>2. CASE SkipUnknownBank(r)
    BY <2>2 DEF SkipUnknownBank
  <2>3. CASE ListImportJobs(r)
    BY <2>3 DEF ListImportJobs
  <2>4. CASE FetchNewSources(r)
    <3> DEFINE new == NewSources(Head(banks[r]), seen_refs[r])
    <3>1. /\ pc[r] = "fetch" /\ pc' = [pc EXCEPT ![r] = "source"]
          /\ sources' = [sources EXCEPT ![r] = new]
          /\ found' = [found EXCEPT ![r] = @ \union new]
          /\ UNCHANGED <<source, imported, failed>>
      BY <2>4 DEF FetchNewSources
    <3>2. new \intersect found[r] = {}
      <4>1. banks[r] # <<>> /\ banks[r] \in Seq(Importers \union Choices)
        BY <3>1
      <4> QED
        BY <3>1, <4>1, FoundByOthers
    <3>3. new \subseteq Attachments
      BY NewSourcesType
    <3> HIDE DEF new
    <3> QED
      BY <3>1, <3>2, <3>3
  <2>5. CASE Parse(r)
    BY <2>5 DEF Parse, Take
  <2>6. CASE SelectAccount(r)
    BY <2>6 DEF SelectAccount, SelectAccountIn
  <2>7. CASE AddAccount(r)
    BY <2>7 DEF AddAccount
  <2>8. CASE CreateImportJob(r)
    BY <2>8 DEF CreateImportJob, AtJob, ToRows
  <2>9. CASE InsertRow(r)
    BY <2>9 DEF InsertRow, AtRow, InsertUnless
  <2>10. CASE Imported(r)
    BY <2>10 DEF Imported, EndIteration
  <2>11. CASE Commit(r)
    BY <2>11 DEF Commit, NextBank, AtCommit
  <2>12. CASE \/ ParseRaises(r) \/ AddAccountRaises(r) \/ CreateImportJobRaises(r)
              \/ BuildRowsRaises(r) \/ RowRejected(r) \/ StatementRaises(r)
    BY <1>5, <2>12 DEF ParseRaises, AddAccountRaises, CreateImportJobRaises, AtJob,
       BuildRowsRaises, RowRejected, AtRow, StatementRaises, FlushRaises, ServerRaises
  <2>13. CASE CommitRaises(r)
    BY <1>6, <2>13 DEF CommitRaises
  <2> QED
    BY <1>7, <2>1, <2>2, <2>3, <2>4, <2>5, <2>6, <2>7, <2>8, <2>9, <2>10, <2>11, <2>12, <2>13
    DEF Progress
<1>8. ASSUME NEW r \in Requests, Disturbance(r)
      PROVE  Reckoned'
  <2>1. CASE ConnectionLost(r)
    BY <2>1 DEF ConnectionLost
  <2>2. CASE FetchFails(r) \/ ListRaises(r) \/ CommitUnacknowledged(r)
    BY <1>6, <2>2 DEF FetchFails, ListRaises, CommitUnacknowledged
  <2> QED
    BY <1>8, <2>1, <2>2 DEF Disturbance
<1>9. ASSUME NEW r \in Requests, DeadlockVictim(r)
      PROVE  Reckoned'
  <2>1. pc[r] \in Statements
    BY <1>9 DEF DeadlockVictim, Deadlocked, Waits
  <2> QED
    BY <1>5, <1>9, <2>1 DEF DeadlockVictim, FlushRaises, ServerRaises
<1> QED
  BY <1>1, <1>2, <1>3, <1>4, <1>7, <1>8, <1>9 DEF Next

\* The importers of a choice are distinct.
LEMMA ChoiceRunsOnce ==
  ASSUME NEW choice
  PROVE  LET s == IF choice = "all" THEN ImporterOrder ELSE <<choice>>
         IN  \A i, j \in DOMAIN s : s[i] = s[j] => i = j
BY DEF ImporterOrder

\* No importer that is still to run has found anything.
LEMMA NextRunOnce ==
  ASSUME TypeOK, Located, RunOnce, [Next]_vars
  PROVE  RunOnce'
<1> USE DEF TypeOK, Located, RunOnce, AtSources, InSync, Statements, Done,
            mailbox, db, tx, flow, result
<1>1. CASE UNCHANGED vars
  BY <1>1 DEF vars
<1>2. CASE MessageArrives
  BY <1>2 DEF MessageArrives
<1>3. CASE Crash
  BY <1>3 DEF Crash
<1>4. ASSUME NEW r \in Requests, Start(r)
      PROVE  RunOnce'
  BY <1>4, ChoiceRunsOnce DEF Start, ClearResult
<1>5. ASSUME NEW r \in Requests, Caught(r), pc[r] \in Statements
      PROVE  RunOnce'
  BY <1>5 DEF Caught, EndIteration
<1>6. ASSUME NEW r \in Requests, Answer500(r) \/ Respond(r)
      PROVE  RunOnce'
  <2>1. banks' = [banks EXCEPT ![r] = <<>>]
    BY <1>6 DEF Answer500, Respond, Leave
  <2>2. \A q \in Requests \ {r} : pc'[q] = pc[q] /\ found'[q] = found[q]
    BY <1>6 DEF Answer500, Respond, Leave, ClearResult
  <2> QED
    BY <2>1, <2>2
\* The list loses its head, between two importers or after one has run.
<1>7. ASSUME NEW r \in Requests, banks[r] # <<>>,
             banks' = [banks EXCEPT ![r] = Tail(banks[r])],
             pc' = [pc EXCEPT ![r] = "list"], UNCHANGED found
      PROVE  RunOnce'
  <2>1. \A i \in DOMAIN Tail(banks[r]) :
          i + 1 \in DOMAIN banks[r] /\ Tail(banks[r])[i] = banks[r][i + 1] /\ i \in Nat \ {0}
    BY <1>7, TailOf
  <2>2. \A i, j \in DOMAIN Tail(banks[r]) : Tail(banks[r])[i] = Tail(banks[r])[j] => i = j
    BY <2>1
  <2>3. \A a \in found[r] : \A i \in DOMAIN Tail(banks[r]) : Tail(banks[r])[i] # ImporterOf[a]
    BY <2>1
  <2> QED
    BY <1>7, <2>2, <2>3
<1>8. ASSUME NEW r \in Requests, Progress(r)
      PROVE  RunOnce'
  <2>1. CASE SkipUnknownBank(r)
    BY <1>7, <2>1 DEF SkipUnknownBank
  <2>2. CASE ListImportJobs(r)
    BY <2>2 DEF ListImportJobs
  <2>3. CASE FetchNewSources(r)
    <3> DEFINE new == NewSources(Head(banks[r]), seen_refs[r])
    <3>1. /\ pc[r] = "fetch" /\ pc' = [pc EXCEPT ![r] = "source"]
          /\ found' = [found EXCEPT ![r] = @ \union new]
          /\ UNCHANGED banks
      BY <2>3 DEF FetchNewSources
    <3>2. banks[r] # <<>> /\ banks[r] \in Seq(Importers \union Choices)
      BY <3>1
    <3>3. 1 \in DOMAIN banks[r] /\ Head(banks[r]) = banks[r][1]
      BY <3>2, TailOf
    <3>4. \A a \in new : ImporterOf[a] = banks[r][1]
      BY <3>3, NewSourcesOf
    <3>5. \A a \in new : \A i \in DOMAIN banks[r] : banks[r][i] = ImporterOf[a] => i = 1
      BY <3>3, <3>4
    <3> HIDE DEF new
    <3> QED
      BY <3>1, <3>5
  <2>4. CASE Parse(r)
    BY <2>4 DEF Parse, Take
  <2>5. CASE SelectAccount(r) \/ AddAccount(r) \/ CreateImportJob(r)
    <3>1. /\ pc[r] \in Statements /\ UNCHANGED <<banks, found>>
          /\ \E l \in Statements : pc' = [pc EXCEPT ![r] = l]
      BY <2>5 DEF SelectAccount, SelectAccountIn, AddAccount, CreateImportJob, AtJob, ToRows
    <3> QED
      BY <3>1
  <2>6. CASE InsertRow(r)
    BY <2>6 DEF InsertRow, AtRow, InsertUnless
  <2>7. CASE Imported(r)
    BY <2>7 DEF Imported, EndIteration
  <2>8. CASE Commit(r)
    BY <1>7, <2>8 DEF Commit, NextBank, AtCommit
  <2>9. CASE \/ ParseRaises(r) \/ AddAccountRaises(r) \/ CreateImportJobRaises(r)
             \/ BuildRowsRaises(r) \/ RowRejected(r) \/ StatementRaises(r)
    BY <1>5, <2>9 DEF ParseRaises, AddAccountRaises, CreateImportJobRaises, AtJob,
       BuildRowsRaises, RowRejected, AtRow, StatementRaises, FlushRaises, ServerRaises
  <2>10. CASE Respond(r) \/ CommitRaises(r)
    BY <1>6, <2>10 DEF CommitRaises
  <2> QED
    BY <1>8, <2>1, <2>2, <2>3, <2>4, <2>5, <2>6, <2>7, <2>8, <2>9, <2>10 DEF Progress
<1>9. ASSUME NEW r \in Requests, Disturbance(r)
      PROVE  RunOnce'
  <2>1. CASE ConnectionLost(r)
    BY <2>1 DEF ConnectionLost
  <2>2. CASE FetchFails(r) \/ ListRaises(r) \/ CommitUnacknowledged(r)
    BY <1>6, <2>2 DEF FetchFails, ListRaises, CommitUnacknowledged
  <2> QED
    BY <1>9, <2>1, <2>2 DEF Disturbance
<1>10. ASSUME NEW r \in Requests, DeadlockVictim(r)
       PROVE  RunOnce'
  <2>1. pc[r] \in Statements
    BY <1>10 DEF DeadlockVictim, Deadlocked, Waits
  <2> QED
    BY <1>5, <1>10, <2>1 DEF DeadlockVictim, FlushRaises, ServerRaises
<1> QED
  BY <1>1, <1>2, <1>3, <1>4, <1>8, <1>9, <1>10 DEF Next

-----------------------------------------------------------------------------
(* What has been reported and what is in the tables. *)

\* An iteration that fails leaves no job behind, unless its rows failed in the client.
LEMMA CaughtReckonsJobs ==
  ASSUME TypeOK, JobsReckoned, NEW r \in Requests, Caught(r),
         \/ pJobs' = [pJobs EXCEPT ![r] = {}]
         \/ /\ UNCHANGED pJobs
            /\ pc[r] = "rows" => source[r] \in Unencodable \/ pJobs[r] = {}
  PROVE  JobsReckoned'
BY DEF TypeOK, JobsReckoned, Caught, EndIteration

\* The jobs of the open transactions stay accounted for.
LEMMA NextJobsReckoned ==
  ASSUME TypeOK, Located, Held, Kept, JobsReckoned, [Next]_vars
  PROVE  JobsReckoned'
<1> USE DEF TypeOK, JobsReckoned, mailbox, db, tx, flow, result
<1>1. CASE UNCHANGED vars
  BY <1>1 DEF vars
<1>2. CASE MessageArrives
  BY <1>2 DEF MessageArrives
<1>3. CASE Crash
  BY <1>3 DEF Crash
<1>4. ASSUME NEW r \in Requests, Start(r)
      PROVE  JobsReckoned'
  BY <1>4 DEF Start, ClearResult, Kept
<1>5. ASSUME NEW r \in Requests,
             pJobs' = [pJobs EXCEPT ![r] = {}],
             \A q \in Requests \ {r} : /\ pc'[q] = pc[q] /\ source'[q] = source[q]
                                       /\ imported'[q] = imported[q]
      PROVE  JobsReckoned'
  BY <1>5
<1>6. ASSUME NEW r \in Requests, Progress(r)
      PROVE  JobsReckoned'
  <2>1. CASE Respond(r)
    BY <1>5, <2>1 DEF Respond, Leave, DropPending
  <2>2. CASE SkipUnknownBank(r)
    BY <2>2 DEF SkipUnknownBank
  <2>3. CASE ListImportJobs(r)
    BY <2>3 DEF ListImportJobs
  <2>4. CASE FetchNewSources(r)
    BY <2>4 DEF FetchNewSources
  <2>5. CASE Parse(r)
    BY <2>5 DEF Parse, Take
  <2>6. CASE SelectAccount(r)
    BY <2>6 DEF SelectAccount, SelectAccountIn
  <2>7. CASE AddAccount(r)
    BY <2>7 DEF AddAccount
  <2>8. CASE CreateImportJob(r)
    BY <2>8 DEF CreateImportJob, AtJob, ToRows
  <2>9. CASE InsertRow(r)
    BY <2>9 DEF InsertRow, AtRow, InsertUnless
  <2>10. CASE Imported(r)
    BY <2>10 DEF Imported, EndIteration
  <2>11. CASE Commit(r)
    BY <1>5, <2>11 DEF Commit, NextBank, DropPending
  <2>12. CASE AddAccountRaises(r) \/ CreateImportJobRaises(r) \/ RowRejected(r)
    BY <2>12, CaughtReckonsJobs DEF AddAccountRaises, CreateImportJobRaises, RowRejected,
       FlushRaises, ServerRaises, DropPending
  <2>13. CASE ParseRaises(r) \/ BuildRowsRaises(r)
    BY <2>13, CaughtReckonsJobs DEF ParseRaises, BuildRowsRaises
  <2>14. CASE StatementRaises(r)
    BY <2>14, CaughtReckonsJobs DEF StatementRaises, Held
  <2>15. CASE CommitRaises(r)
    BY <1>5, <2>15 DEF CommitRaises, Answer500, Leave, ClearResult, DropPending
  <2> QED
    BY <1>6, <2>1, <2>2, <2>3, <2>4, <2>5, <2>6, <2>7, <2>8, <2>9, <2>10, <2>11, <2>12,
       <2>13, <2>14, <2>15 DEF Progress
<1>7. ASSUME NEW r \in Requests, Disturbance(r)
      PROVE  JobsReckoned'
  BY <1>5, <1>7 DEF Disturbance, ConnectionLost, FetchFails, ListRaises, CommitUnacknowledged,
     Answer500, Leave, ClearResult, DropPending
<1>8. ASSUME NEW r \in Requests, DeadlockVictim(r)
      PROVE  JobsReckoned'
  BY <1>8, CaughtReckonsJobs DEF DeadlockVictim, FlushRaises, ServerRaises, DropPending
<1> QED
  BY <1>1, <1>2, <1>3, <1>4, <1>6, <1>7, <1>8 DEF Next

\* The work that a request reports stays in its transaction or in the tables,
\* to which other requests only add.
LEMMA NextKept ==
  ASSUME TypeOK, Located, Held, Kept, [Next]_vars
  PROVE  Kept'
<1> USE DEF TypeOK, Located, Kept, Held, InSync, Statements, Done,
            mailbox, db, tx, flow, result
<1>1. CASE UNCHANGED vars
  BY <1>1 DEF vars
<1>2. CASE MessageArrives
  BY <1>2 DEF MessageArrives
<1>3. CASE Crash
  BY <1>3 DEF Crash
<1>4. ASSUME NEW r \in Requests, Start(r)
      PROVE  Kept'
  BY <1>4 DEF Start, ClearResult
<1>5. ASSUME NEW r \in Requests, Caught(r), UNCHANGED tx \/ ServerRaises(r) \/ FlushRaises(r)
      PROVE  Kept'
  <2>1. /\ failed' = [failed EXCEPT ![r] = @ \union {source[r]}]
        /\ pc' = [pc EXCEPT ![r] = "source"]
        /\ UNCHANGED <<jobs, txs, imported, inserted>>
    BY <1>5 DEF Caught, EndIteration
  <2>2. failed'[r] # {} /\ pc'[r] \notin Done \union {"list"}
    BY <2>1
  <2>3. \A q \in Requests \ {r} :
          session'[q] = session[q] /\ pJobs'[q] = pJobs[q] /\ pTxs'[q] = pTxs[q]
    BY <1>5 DEF ServerRaises, FlushRaises, DropPending
  <2> QED
    BY <2>1, <2>2, <2>3
<1>6. ASSUME NEW r \in Requests, Answer500(r), UNCHANGED db \/ Publish(r)
      PROVE  Kept'
  BY <1>6 DEF Answer500, Leave, ClearResult, DropPending, Publish
<1>7. ASSUME NEW r \in Requests, Progress(r)
      PROVE  Kept'
  <2>1. CASE Respond(r)
    BY <2>1 DEF Respond, Leave, DropPending
  <2>2. CASE SkipUnknownBank(r)
    BY <2>2 DEF SkipUnknownBank
  <2>3. CASE ListImportJobs(r)
    BY <2>3 DEF ListImportJobs
  <2>4. CASE FetchNewSources(r)
    BY <2>4 DEF FetchNewSources
  <2>5. CASE Parse(r)
    BY <2>5 DEF Parse, Take
  <2>6. CASE SelectAccount(r)
    BY <2>6 DEF SelectAccount, SelectAccountIn
  <2>7. CASE AddAccount(r)
    BY <2>7 DEF AddAccount
  <2>8. CASE CreateImportJob(r)
    BY <2>8 DEF CreateImportJob, AtJob, ToRows
  <2>9. CASE InsertRow(r)
    BY <2>9 DEF InsertRow, AtRow, InsertUnless
  <2>10. CASE Imported(r)
    <3>1. /\ pc[r] = "rows" /\ pc' = [pc EXCEPT ![r] = "source"]
          /\ imported' = [imported EXCEPT ![r] = @ \union {source[r]}]
          /\ inserted' = [inserted EXCEPT ![r] = @ \union {t \in pTxs[r] : t.job = source[r]}]
          /\ UNCHANGED <<jobs, txs, failed, session, pJobs, pTxs>>
      BY <2>10 DEF Imported, EndIteration
    <3>2. session[r] = "active" => source[r] \in pJobs[r]
      BY <3>1
    <3> QED
      BY <3>1, <3>2
  <2>11. CASE Commit(r)
    <3>1. /\ session[r] # "inactive" /\ jobs' = jobs \union pJobs[r] /\ txs' = txs \union pTxs[r]
          /\ session' = [session EXCEPT ![r] = "active"]
          /\ pc' = [pc EXCEPT ![r] = "list"]
          /\ pJobs' = [pJobs EXCEPT ![r] = {}] /\ pTxs' = [pTxs EXCEPT ![r] = {}]
          /\ UNCHANGED <<imported, inserted, failed>>
      BY <2>11 DEF Commit, NextBank, Publish, DropPending
    <3>2. failed[r] = {} => session[r] = "active"
      BY <3>1 DEF Sessions
    <3> QED
      BY <3>1, <3>2
  <2>12. CASE \/ ParseRaises(r) \/ AddAccountRaises(r) \/ CreateImportJobRaises(r)
              \/ BuildRowsRaises(r) \/ RowRejected(r) \/ StatementRaises(r)
    BY <1>5, <2>12 DEF ParseRaises, AddAccountRaises, CreateImportJobRaises,
       BuildRowsRaises, RowRejected, StatementRaises, FlushRaises, ServerRaises
  <2>13. CASE CommitRaises(r)
    BY <1>6, <2>13 DEF CommitRaises
  <2> QED
    BY <1>7, <2>1, <2>2, <2>3, <2>4, <2>5, <2>6, <2>7, <2>8, <2>9, <2>10, <2>11, <2>12, <2>13
    DEF Progress
<1>8. ASSUME NEW r \in Requests, Disturbance(r)
      PROVE  Kept'
  <2>1. CASE ConnectionLost(r)
    BY <2>1 DEF ConnectionLost, DropPending
  <2>2. CASE FetchFails(r) \/ ListRaises(r) \/ CommitUnacknowledged(r)
    BY <1>6, <2>2 DEF FetchFails, ListRaises, CommitUnacknowledged
  <2> QED
    BY <1>8, <2>1, <2>2 DEF Disturbance
<1>9. ASSUME NEW r \in Requests, DeadlockVictim(r)
      PROVE  Kept'
  BY <1>5, <1>9 DEF DeadlockVictim, FlushRaises, ServerRaises
<1> QED
  BY <1>1, <1>2, <1>3, <1>4, <1>7, <1>8, <1>9 DEF Next

-----------------------------------------------------------------------------
(* The theorems. *)

ReportInv == Reckoned /\ RunOnce /\ JobsReckoned /\ Kept

\* The report is empty when the process starts.
LEMMA InitReportInv == Init => ReportInv
BY NoAttachmentZero DEF Init, ReportInv, Reckoned, RunOnce, JobsReckoned, Kept, AtSources,
   Statements, Done

\* Each part is kept by every step, given the invariant of SyncBankProofs.
LEMMA NextReportInv == IInv /\ ReportInv /\ [Next]_vars => ReportInv'
BY NextReckoned, NextRunOnce, NextJobsReckoned, NextKept DEF IInv, ReportInv

\* Both invariants together are inductive.
LEMMA ReportInvIsInvariant == Spec => [](IInv /\ ReportInv)
<1>1. IInv /\ ReportInv /\ [Next]_vars => (IInv /\ ReportInv)'
  BY NextIInv, NextReportInv
<1> QED
  BY InitIInv, InitReportInv, <1>1, PTL DEF Spec

\* The counters of a 200 add up, whatever failed, waited or deadlocked: a
\* source that was found was either imported or is in the errors.
THEOREM ReportsAreAccounted == Spec => []Accounted
<1>1. ReportInv => Accounted
  BY DEF ReportInv, Reckoned, Accounted, AtSources, Statements
<1> QED
  BY <1>1, ReportInvIsInvariant, PTL

\* What a 200 without errors reports is in the database.
THEOREM CleanReportsAreDurable == Spec => []CleanReportIsDurable
<1>1. ReportInv => CleanReportIsDurable
  BY DEF ReportInv, Kept, CleanReportIsDurable, Done
<1> QED
  BY <1>1, ReportInvIsInvariant, PTL

\* A source in the errors has left no job that the commit would record, unless
\* its rows failed in the client.
THEOREM FailuresAreRetryable == Spec => []FailureIsRetryable
<1>1. ReportInv => FailureIsRetryable
  BY DEF ReportInv, Reckoned, JobsReckoned, FailureIsRetryable
<1> QED
  BY <1>1, ReportInvIsInvariant, PTL

=============================================================================
