------------------------------ MODULE SyncBank ------------------------------
(***************************************************************************)
(* POST /banking/sync: concurrent requests of one uvicorn process import   *)
(* bank statements from Gmail into PostgreSQL (READ COMMITTED).            *)
(*                                                                         *)
(* A request runs its importers one after another on ONE AsyncSession.     *)
(* For each importer it lists the bank's import jobs, fetches the          *)
(* attachments whose message is not among them, and for every attachment   *)
(* finds or creates the account, creates the job and inserts the rows,     *)
(* catching any exception of the iteration; then it commits.  Every await  *)
(* is a point where another request runs.  A row inserted by an open       *)
(* transaction is invisible to the others, but its unique key is locked:   *)
(* whoever inserts the same key waits for that transaction to end.         *)
(*                                                                         *)
(* Attachments are numbered in the order Gmail would list them, oldest     *)
(* first: a loop over the listing takes the greatest number first.         *)
(***************************************************************************)
EXTENDS Naturals, Sequences, FiniteSets

CONSTANTS
  Requests,     \* in-flight POST /sync requests (a client may repeat one)
  Choices,      \* values of the "bank" query parameter that clients send
  Attachments,  \* attachments of the matching messages, as positive numbers
  MsgOf,        \* MsgOf[a]: id of the message that carries a, in arrival order
  ImporterOf,   \* ImporterOf[a]: the importer whose filename test accepts a
  CardOf,       \* CardOf[a]: the card_last4 that parse returns for a
  Rows,         \* Rows[a]: the row hashes of the parsed transactions, in order
  Cards, Hashes,
  MaxResults,   \* messages in Gmail's single result page (50 in the code)
  Unparsable,   \* attachments on which importer.parse raises
  Unencodable,  \* attachments whose rows fail in the client: make_row_hash on
                \* NaN or Infinity, or more bind parameters than asyncpg sends
  BadRow,       \* BadRow[a]: index of the row the server rejects, 0 if none
  LongCards,    \* card numbers longer than the String(10) column
  Faults        \* subset of {"gmail", "lost", "crash"}

ImporterOrder == <<"c6", "nubank", "nubank_account">>
Importers == {"c6", "nubank", "nubank_account"}
BankOf == [c6 |-> "c6", nubank |-> "nubank", nubank_account |-> "nubank"]

ASSUME SyncAssumption ==
  /\ Attachments \subseteq Nat \ {0}
  /\ MsgOf \in [Attachments -> Nat \ {0}]
  /\ \A a, b \in Attachments : a < b => MsgOf[a] <= MsgOf[b]
  /\ ImporterOf \in [Attachments -> Importers]
  /\ CardOf \in [Attachments -> Cards]
  /\ Rows \in [Attachments -> Seq(Hashes)]
  /\ BadRow \in [Attachments -> Nat]
  /\ MaxResults \in Nat

VARIABLES
  arrived,    \* messages 1..arrived are in the mailbox
  accounts,   \* committed rows of bank_accounts, by their unique key
  jobs,       \* committed rows of import_jobs, by the attachment they record
  txs,        \* committed rows of transactions: their hash and their job
  pAccounts, pJobs, pTxs,  \* rows inserted by the open transaction of a request
  session,    \* state of the request's AsyncSession, see Sessions
  pc,         \* where the request's coroutine stands
  banks,      \* importers still to run, the head being the running one
  seen_refs, sources, source,  \* locals of sync_bank; source = 0: no iteration
  row,        \* next row of the bulk INSERT being executed
  found, imported, failed, inserted  \* the response: what its counters count

mailbox == <<arrived>>
db      == <<accounts, jobs, txs>>
tx      == <<pAccounts, pJobs, pTxs, session>>
flow    == <<banks, seen_refs, sources, source, row>>
result  == <<found, imported, failed, inserted>>
vars    == <<arrived, db, tx, pc, flow, result>>

(***************************************************************************)
(* "active":   statements work.                                            *)
(* "inactive": a flush failed, or the connection is gone: the transaction  *)
(*             was rolled back; each later use of the session, commit      *)
(*             included, raises.                                           *)
(* "aborted":  a statement sent with session.execute failed in the server: *)
(*             the transaction was rolled back there and each later        *)
(*             statement raises, but the session does not know it, and     *)
(*             COMMIT answers ROLLBACK without an error.                   *)
(***************************************************************************)
Sessions == {"active", "inactive", "aborted"}
Statements == {"account", "addAccount", "job", "rows"}
InSync == {"fetch", "source"} \union Statements
Done == {"idle", "ok", "error"}
Locations == {"list"} \union InSync \union Done

Account(a) == [bank |-> BankOf[ImporterOf[a]], card |-> CardOf[a]]
Accounts == [bank : {"c6", "nubank"}, card : Cards]
TxRows == [hash : Hashes, job : Attachments]
Refs(S) == {MsgOf[a] : a \in S}
HashesIn(T) == {t.hash : t \in T}
HashesOf(a) == {Rows[a][i] : i \in DOMAIN Rows[a]}

-----------------------------------------------------------------------------
(* Gmail: what one query of fetch_attachments sees. *)

Mailbox(bank) ==
  {m \in Refs({a \in Attachments : BankOf[ImporterOf[a]] = bank}) : m <= arrived}

\* Mutant: the page is one message shorter.
ShortWindow(bank) ==
  {m \in Mailbox(bank) :
     Cardinality({n \in Mailbox(bank) : n > m}) + 1 < MaxResults}

Window(bank) ==
  {m \in Mailbox(bank) : Cardinality({n \in Mailbox(bank) : n > m}) < MaxResults}

NewSources(importer, seen) ==
  {a \in Attachments : /\ ImporterOf[a] = importer
                       /\ MsgOf[a] \in Window(BankOf[importer])
                       /\ MsgOf[a] \notin seen}

-----------------------------------------------------------------------------
(* Locks: the statement of r waits for the transaction of q to end. *)

Waits(r, q) ==
  /\ q # r
  /\ session[r] = "active"
  /\ \/ pc[r] = "addAccount" /\ Account(source[r]) \in pAccounts[q]
     \/ pc[r] = "job" /\ MsgOf[source[r]] \in Refs(pJobs[q])
     \/ /\ pc[r] = "rows"
        /\ source[r] \notin Unencodable
        /\ row[r] \in DOMAIN Rows[source[r]]
        /\ Rows[source[r]][row[r]] \in HashesIn(pTxs[q])

Waiting(r) == \E q \in Requests : Waits(r, q)

\* r is on a cycle of the waits-for graph.
Deadlocked(r) ==
  \E S \in SUBSET Requests :
    /\ r \in S
    /\ \A p \in S : (\E q \in S : Waits(p, q)) /\ (\E q \in S : Waits(q, p))

-----------------------------------------------------------------------------
Init ==
  /\ arrived = 0
  /\ accounts = {} /\ jobs = {} /\ txs = {}
  /\ pAccounts = [r \in Requests |-> {}]
  /\ pJobs = [r \in Requests |-> {}]
  /\ pTxs = [r \in Requests |-> {}]
  /\ session = [r \in Requests |-> "active"]
  /\ pc = [r \in Requests |-> "idle"]
  /\ banks = [r \in Requests |-> <<>>]
  /\ seen_refs = [r \in Requests |-> {}]
  /\ sources = [r \in Requests |-> {}]
  /\ source = [r \in Requests |-> 0]
  /\ row = [r \in Requests |-> 0]
  /\ found = [r \in Requests |-> {}]
  /\ imported = [r \in Requests |-> {}]
  /\ failed = [r \in Requests |-> {}]
  /\ inserted = [r \in Requests |-> {}]

MessageArrives ==
  /\ \E m \in Refs(Attachments) : m > arrived
  /\ arrived' = arrived + 1
  /\ UNCHANGED <<db, tx, pc, flow, result>>

\* Forget the open transaction of r: its locks are released.
DropPending(r) ==
  /\ pAccounts' = [pAccounts EXCEPT ![r] = {}]
  /\ pJobs' = [pJobs EXCEPT ![r] = {}]
  /\ pTxs' = [pTxs EXCEPT ![r] = {}]

\* Leave the endpoint: the session is closed, its transaction rolled back.
Leave(r, answer) ==
  /\ DropPending(r)
  /\ session' = [session EXCEPT ![r] = "active"]
  /\ pc' = [pc EXCEPT ![r] = answer]
  /\ banks' = [banks EXCEPT ![r] = <<>>]
  /\ seen_refs' = [seen_refs EXCEPT ![r] = {}]
  /\ sources' = [sources EXCEPT ![r] = {}]
  /\ source' = [source EXCEPT ![r] = 0]
  /\ row' = [row EXCEPT ![r] = 0]

ClearResult(r) ==
  /\ found' = [found EXCEPT ![r] = {}]
  /\ imported' = [imported EXCEPT ![r] = {}]
  /\ failed' = [failed EXCEPT ![r] = {}]
  /\ inserted' = [inserted EXCEPT ![r] = {}]

\* An exception that nobody catches: a 500, which carries no counters.
Answer500(r) ==
  /\ Leave(r, "error")
  /\ ClearResult(r)

Start(r) ==
  /\ pc[r] \in Done
  /\ \E choice \in Choices :
       banks' = [banks EXCEPT ![r] = IF choice = "all" THEN ImporterOrder
                                                       ELSE <<choice>>]
  /\ pc' = [pc EXCEPT ![r] = "list"]
  /\ ClearResult(r)
  /\ UNCHANGED <<arrived, db, tx, seen_refs, sources, source, row>>

\* No importer is left: answer 200 with the combined counters.
Respond(r) ==
  /\ pc[r] = "list" /\ banks[r] = <<>>
  /\ Leave(r, "ok")
  /\ UNCHANGED <<arrived, db, result>>

SkipUnknownBank(r) ==
  /\ pc[r] = "list" /\ banks[r] # <<>>
  /\ Head(banks[r]) \notin Importers
  /\ banks' = [banks EXCEPT ![r] = Tail(banks[r])]
  /\ UNCHANGED <<arrived, db, tx, pc, seen_refs, sources, source, row, result>>

ListImportJobs(r) ==
  /\ pc[r] = "list" /\ banks[r] # <<>>
  /\ Head(banks[r]) \in Importers
  /\ LET bank == BankOf[Head(banks[r])]
     IN  seen_refs' = [seen_refs EXCEPT ![r] =
                         Refs({a \in jobs : BankOf[ImporterOf[a]] = bank})]
  /\ pc' = [pc EXCEPT ![r] = "fetch"]
  /\ UNCHANGED <<arrived, db, tx, banks, sources, source, row, result>>

FetchNewSources(r) ==
  /\ pc[r] = "fetch"
  /\ LET new == NewSources(Head(banks[r]), seen_refs[r])
     IN  /\ sources' = [sources EXCEPT ![r] = new]
         /\ found' = [found EXCEPT ![r] = @ \union new]
  /\ pc' = [pc EXCEPT ![r] = "source"]
  /\ UNCHANGED <<arrived, db, tx, banks, seen_refs, source, row,
                 imported, failed, inserted>>

\* Gmail's token or the network fails outside the try of the loop: a 500.
FetchFails(r) ==
  /\ "gmail" \in Faults
  /\ pc[r] = "fetch"
  /\ Answer500(r)
  /\ UNCHANGED <<arrived, db>>

-----------------------------------------------------------------------------
(* One iteration of the loop over the sources. *)

EndIteration(r) ==
  /\ source' = [source EXCEPT ![r] = 0]
  /\ row' = [row EXCEPT ![r] = 0]
  /\ pc' = [pc EXCEPT ![r] = "source"]
  /\ UNCHANGED <<arrived, db, banks, seen_refs, sources, found>>

\* Mutant: the error names the source after the variable was reset.
CaughtAfterReset(r) ==
  /\ EndIteration(r)
  /\ failed' = [failed EXCEPT ![r] = @ \union {source'[r]}]
  /\ UNCHANGED <<imported, inserted>>

\* Mutant: the error is logged and not reported.
CaughtSilently(r) == EndIteration(r) /\ UNCHANGED <<imported, failed, inserted>>

\* The except clause: the error is recorded, nothing is rolled back.
Caught(r) ==
  /\ EndIteration(r)
  /\ failed' = [failed EXCEPT ![r] = @ \union {source[r]}]
  /\ UNCHANGED <<imported, inserted>>

\* A flush raised: SQLAlchemy rolls back and the session becomes unusable.
FlushRaises(r) ==
  /\ session' = [session EXCEPT ![r] = "inactive"]
  /\ DropPending(r)
  /\ Caught(r)

\* Mutant: only the bulk INSERT is undone, by a savepoint around it alone.
ServerRaisesInSavepoint(r) ==
  /\ pTxs' = [pTxs EXCEPT ![r] = {t \in @ : t.job # source[r]}]
  /\ UNCHANGED <<pAccounts, pJobs, session>>
  /\ Caught(r)

\* The server rejected a statement that is not a flush.
ServerRaises(r) ==
  /\ session' = [session EXCEPT ![r] = "aborted"]
  /\ DropPending(r)
  /\ Caught(r)

Take(r, s) ==
  /\ pc[r] = "source" /\ source[r] = 0
  /\ \A other \in sources[r] : other <= s
  /\ source' = [source EXCEPT ![r] = s]
  /\ pc' = [pc EXCEPT ![r] = "account"]
  /\ UNCHANGED <<arrived, db, tx, banks, seen_refs, row, result>>

\* Mutant: a source stays in the list when its iteration starts.
ParseAgain(r) == \E s \in sources[r] : Take(r, s) /\ UNCHANGED sources

Parse(r) ==
  \E s \in sources[r] : Take(r, s) /\ sources' = [sources EXCEPT ![r] = @ \ {s}]

ParseRaises(r) ==
  /\ pc[r] = "account" /\ source[r] \in Unparsable
  /\ Caught(r)
  /\ UNCHANGED tx

SelectAccountIn(r, visible) ==
  /\ pc[r] = "account" /\ source[r] \notin Unparsable
  /\ session[r] = "active"
  /\ pc' = [pc EXCEPT ![r] = IF Account(source[r]) \in visible THEN "job"
                                                               ELSE "addAccount"]
  /\ UNCHANGED <<arrived, db, tx, flow, result>>

\* Mutant: accounts are remembered in a cache that all requests share.
SelectCachedAccount(r) ==
  SelectAccountIn(r, accounts \union UNION {pAccounts[q] : q \in Requests})

\* The SELECT of get_or_create_account.
SelectAccount(r) == SelectAccountIn(r, accounts \union pAccounts[r])

AddAccount(r) ==
  /\ pc[r] = "addAccount" /\ session[r] = "active"
  /\ ~Waiting(r)
  /\ LET account == Account(source[r])
     IN  /\ account \notin accounts \union pAccounts[r]
         /\ account.card \notin LongCards
         /\ pAccounts' = [pAccounts EXCEPT ![r] = @ \union {account}]
  /\ pc' = [pc EXCEPT ![r] = "job"]
  /\ UNCHANGED <<arrived, db, pJobs, pTxs, session, flow, result>>

AddAccountRaises(r) ==
  /\ pc[r] = "addAccount" /\ session[r] = "active"
  /\ \/ Account(source[r]).card \in LongCards
     \/ /\ ~Waiting(r)
        /\ Account(source[r]) \in accounts \union pAccounts[r]
  /\ FlushRaises(r)

AtJob(r) ==
  /\ pc[r] = "job" /\ session[r] = "active"
  /\ ~Waiting(r)

ToRows(r) ==
  /\ pc' = [pc EXCEPT ![r] = "rows"]
  /\ row' = [row EXCEPT ![r] = 1]
  /\ UNCHANGED <<arrived, accounts, txs, pAccounts, pTxs, session, banks,
                 seen_refs, sources, source, result>>

\* Mutant: source_ref has no unique constraint.
CreateImportJobTwice(r) ==
  /\ pc[r] = "job" /\ session[r] = "active"
  /\ pJobs' = [pJobs EXCEPT ![r] = @ \union {source[r]}]
  /\ ToRows(r) /\ UNCHANGED jobs

\* Mutant: the job is committed as soon as it is created.
CreateImportJobCommitted(r) ==
  /\ AtJob(r)
  /\ MsgOf[source[r]] \notin Refs(jobs)
  /\ jobs' = jobs \union {source[r]}
  /\ ToRows(r) /\ UNCHANGED pJobs

CreateImportJob(r) ==
  /\ AtJob(r)
  /\ MsgOf[source[r]] \notin Refs(jobs \union pJobs[r])
  /\ pJobs' = [pJobs EXCEPT ![r] = @ \union {source[r]}]
  /\ ToRows(r) /\ UNCHANGED jobs

CreateImportJobRaises(r) ==
  /\ AtJob(r)
  /\ MsgOf[source[r]] \in Refs(jobs \union pJobs[r])
  /\ FlushRaises(r)

\* make_row_hash or the encoding of the parameters raises before anything is
\* sent: the job stays in the open transaction.
BuildRowsRaises(r) ==
  /\ pc[r] = "rows" /\ source[r] \in Unencodable
  /\ Caught(r)
  /\ UNCHANGED tx

\* The bulk INSERT stands at a row.
AtRow(r) ==
  /\ pc[r] = "rows" /\ source[r] \notin Unencodable /\ session[r] = "active"
  /\ row[r] \in DOMAIN Rows[source[r]]

InsertUnless(r, taken) ==
  /\ LET hash == Rows[source[r]][row[r]]
     IN  pTxs' = [pTxs EXCEPT ![r] =
                    IF hash \in taken THEN @
                    ELSE @ \union {[hash |-> hash, job |-> source[r]]}]
  /\ row' = [row EXCEPT ![r] = @ + 1]
  /\ UNCHANGED <<arrived, db, pAccounts, pJobs, session, pc, banks, seen_refs,
                 sources, source, result>>

\* Mutant: a row that another open transaction holds is skipped, not awaited.
InsertRowNoWait(r) ==
  /\ AtRow(r) /\ row[r] # BadRow[source[r]]
  /\ InsertUnless(r, HashesIn(txs \union UNION {pTxs[q] : q \in Requests}))

\* One row of INSERT ... ON CONFLICT (row_hash) DO NOTHING.
InsertRow(r) ==
  /\ AtRow(r) /\ row[r] # BadRow[source[r]]
  /\ ~Waiting(r)
  /\ InsertUnless(r, HashesIn(txs \union pTxs[r]))

RowRejected(r) == AtRow(r) /\ row[r] = BadRow[source[r]] /\ ServerRaises(r)

\* The INSERT returns its row count, or was never sent for lack of rows.
Imported(r) ==
  /\ pc[r] = "rows" /\ source[r] \notin Unencodable
  /\ row[r] \notin DOMAIN Rows[source[r]]
  /\ session[r] = "active" \/ Rows[source[r]] = <<>>
  /\ imported' = [imported EXCEPT ![r] = @ \union {source[r]}]
  /\ inserted' = [inserted EXCEPT ![r] =
                    @ \union {t \in pTxs[r] : t.job = source[r]}]
  /\ EndIteration(r)
  /\ UNCHANGED <<tx, failed>>

\* Any statement on a session whose transaction is gone.
StatementRaises(r) ==
  /\ pc[r] \in Statements /\ session[r] # "active"
  /\ pc[r] = "account" => source[r] \notin Unparsable
  /\ pc[r] = "rows" => source[r] \notin Unencodable /\ Rows[source[r]] # <<>>
  /\ Caught(r)
  /\ UNCHANGED tx

\* PostgreSQL breaks a deadlock by failing one of its members.
DeadlockVictim(r) ==
  /\ Deadlocked(r)
  /\ IF pc[r] = "rows" THEN ServerRaises(r) ELSE FlushRaises(r)

-----------------------------------------------------------------------------
(* session.commit() at the end of sync_bank. *)

Publish(r) ==
  /\ accounts' = accounts \union pAccounts[r]
  /\ jobs' = jobs \union pJobs[r]
  /\ txs' = txs \union pTxs[r]

AtCommit(r) == pc[r] = "source" /\ source[r] = 0 /\ sources[r] = {}

NextBank(r) ==
  /\ DropPending(r)
  /\ session' = [session EXCEPT ![r] = "active"]
  /\ banks' = [banks EXCEPT ![r] = Tail(banks[r])]
  /\ seen_refs' = [seen_refs EXCEPT ![r] = {}]
  /\ pc' = [pc EXCEPT ![r] = "list"]
  /\ UNCHANGED <<arrived, sources, source, row, result>>

\* COMMIT, or the ROLLBACK the server makes of it when the transaction is
\* aborted and nothing of it is left to publish.
Commit(r) ==
  AtCommit(r) /\ session[r] # "inactive" /\ Publish(r) /\ NextBank(r)

\* Mutant: the exception of the commit is swallowed.
CommitRaisesSilently(r) ==
  AtCommit(r) /\ session[r] = "inactive" /\ NextBank(r) /\ UNCHANGED db

CommitRaises(r) ==
  /\ AtCommit(r) /\ session[r] = "inactive"
  /\ Answer500(r)
  /\ UNCHANGED <<arrived, db>>

\* The server commits, but the connection dies before it says so.
CommitUnacknowledged(r) ==
  /\ "lost" \in Faults
  /\ AtCommit(r) /\ session[r] = "active"
  /\ Publish(r)
  /\ Answer500(r)
  /\ UNCHANGED arrived

\* The connection dies in the middle of the transaction.
ConnectionLost(r) ==
  /\ "lost" \in Faults
  /\ pc[r] \in InSync /\ session[r] # "inactive"
  /\ session' = [session EXCEPT ![r] = "inactive"]
  /\ DropPending(r)
  /\ UNCHANGED <<arrived, db, pc, flow, result>>

\* list_import_jobs cannot reach the server: not caught, a 500.
ListRaises(r) ==
  /\ "lost" \in Faults
  /\ pc[r] = "list" /\ banks[r] # <<>>
  /\ Head(banks[r]) \in Importers
  /\ Answer500(r)
  /\ UNCHANGED <<arrived, db>>

\* The process dies with all its requests and is started again.
Crash ==
  /\ "crash" \in Faults
  /\ pAccounts' = [r \in Requests |-> {}]
  /\ pJobs' = [r \in Requests |-> {}]
  /\ pTxs' = [r \in Requests |-> {}]
  /\ session' = [r \in Requests |-> "active"]
  /\ pc' = [r \in Requests |-> "idle"]
  /\ banks' = [r \in Requests |-> <<>>]
  /\ seen_refs' = [r \in Requests |-> {}]
  /\ sources' = [r \in Requests |-> {}]
  /\ source' = [r \in Requests |-> 0]
  /\ row' = [r \in Requests |-> 0]
  /\ found' = [r \in Requests |-> {}]
  /\ imported' = [r \in Requests |-> {}]
  /\ failed' = [r \in Requests |-> {}]
  /\ inserted' = [r \in Requests |-> {}]
  /\ UNCHANGED <<arrived, db>>

-----------------------------------------------------------------------------
(* What the code and the server do for a request that is under way ... *)

Progress(r) ==
  \/ Respond(r) \/ SkipUnknownBank(r) \/ ListImportJobs(r) \/ FetchNewSources(r)
  \/ Parse(r) \/ ParseRaises(r) \/ SelectAccount(r)
  \/ AddAccount(r) \/ AddAccountRaises(r)
  \/ CreateImportJob(r) \/ CreateImportJobRaises(r)
  \/ BuildRowsRaises(r) \/ InsertRow(r) \/ RowRejected(r) \/ Imported(r)
  \/ StatementRaises(r) \/ Commit(r) \/ CommitRaises(r)

\* ... and what may happen to it.
Disturbance(r) ==
  FetchFails(r) \/ ListRaises(r) \/ ConnectionLost(r) \/ CommitUnacknowledged(r)

Next ==
  \/ MessageArrives
  \/ Crash
  \/ \E r \in Requests :
       Start(r) \/ Progress(r) \/ Disturbance(r) \/ DeadlockVictim(r)

Spec == Init /\ [][Next]_vars

\* The event loop resumes every coroutine that can run, PostgreSQL wakes the
\* statements that wait for a transaction when it ends, and its deadlock
\* detector runs.
CodeFairness ==
  /\ \A r \in Requests : SF_vars(Progress(r))
  /\ WF_vars(\E r \in Requests : DeadlockVictim(r))

\* The owner keeps asking for a sync and the bank's messages are delivered.
OwnerFairness ==
  /\ WF_vars(MessageArrives)
  /\ \A r \in Requests : WF_vars(Start(r))

FairSpec == Spec /\ CodeFairness
OwnerSpec == FairSpec /\ OwnerFairness

-----------------------------------------------------------------------------
(* Properties. *)

\* Every variable has its type (sync_bank's locals, the three tables and the
\* state of each AsyncSession).
TypeOK ==
  /\ arrived \in Nat
  /\ accounts \subseteq Accounts /\ jobs \subseteq Attachments /\ txs \subseteq TxRows
  /\ pAccounts \in [Requests -> SUBSET Accounts]
  /\ pJobs \in [Requests -> SUBSET Attachments]
  /\ pTxs \in [Requests -> SUBSET TxRows]
  /\ session \in [Requests -> Sessions]
  /\ pc \in [Requests -> Locations]
  /\ banks \in [Requests -> Seq(Importers \union Choices)]
  /\ seen_refs \in [Requests -> SUBSET Nat]
  /\ sources \in [Requests -> SUBSET Attachments]
  /\ source \in [Requests -> Attachments \union {0}]
  /\ row \in [Requests -> Nat]
  /\ found \in [Requests -> SUBSET Attachments]
  /\ imported \in [Requests -> SUBSET Attachments]
  /\ failed \in [Requests -> SUBSET Attachments]
  /\ inserted \in [Requests -> SUBSET TxRows]

UniqueAccounts ==
  \A r \in Requests :
    /\ pAccounts[r] \intersect accounts = {}
    /\ \A q \in Requests \ {r} : pAccounts[r] \intersect pAccounts[q] = {}

UniqueRefs ==
  /\ \A a, b \in jobs : MsgOf[a] = MsgOf[b] => a = b
  /\ \A r \in Requests : \A a \in pJobs[r] :
       /\ \A b \in pJobs[r] : MsgOf[a] = MsgOf[b] => a = b
       /\ \A b \in jobs : MsgOf[a] # MsgOf[b]
       /\ \A q \in Requests \ {r} : \A b \in pJobs[q] : MsgOf[a] # MsgOf[b]

UniqueHashes ==
  /\ \A t, u \in txs : t.hash = u.hash => t = u
  /\ \A r \in Requests : \A t \in pTxs[r] :
       /\ \A u \in pTxs[r] : t.hash = u.hash => t = u
       /\ \A u \in txs : t.hash # u.hash
       /\ \A q \in Requests \ {r} : \A u \in pTxs[q] : t.hash # u.hash

\* The three unique constraints hold over the committed rows and the rows of
\* all open transactions together, however their statements interleave: two
\* requests that import the same statement never both hold its keys.
UniqueKeys == UniqueAccounts /\ UniqueRefs /\ UniqueHashes

\* The foreign keys hold in the committed tables and in the view each open
\* transaction has of them: no row without its job, no job without its account.
ReferentialIntegrity ==
  /\ \A t \in txs : t.job \in jobs
  /\ \A a \in jobs : Account(a) \in accounts
  /\ \A r \in Requests :
       /\ \A t \in pTxs[r] : t.job \in pJobs[r]
       /\ \A a \in pJobs[r] : Account(a) \in accounts \union pAccounts[r]

\* A committed job is a complete import: every row of its statement is in the
\* table, under this job or another one.  A row skipped because another
\* transaction had it was skipped only once that transaction had committed.
\* The statements whose rows fail in the client are the exception.
CompleteImport ==
  \A a \in jobs \ Unencodable : HashesOf(a) \subseteq HashesIn(txs)

\* The counters of a 200 add up, whatever failed on the way: each source found
\* was either imported or reported in the errors, and never both.
Accounted ==
  \A r \in Requests : pc[r] = "ok" =>
    /\ found[r] = imported[r] \union failed[r]
    /\ imported[r] \intersect failed[r] = {}

\* What a 200 without errors reports as imported and inserted is in the database:
\* a transaction that is lost leaves a trace in the answer.
CleanReportIsDurable ==
  \A r \in Requests : pc[r] = "ok" /\ failed[r] = {} =>
    /\ imported[r] \subseteq jobs
    /\ inserted[r] \subseteq txs

\* What a 200 reports as imported and inserted is in the database.
ReportIsDurable ==
  \A r \in Requests : pc[r] = "ok" =>
    /\ imported[r] \subseteq jobs
    /\ inserted[r] \subseteq txs

\* A source reported as failed has left no job in the open transaction, so that
\* the commit at the end does not record it and a later sync can import it.
\* The statements whose rows fail in the client are the exception.
FailureIsRetryable ==
  \A r \in Requests : failed[r] \intersect pJobs[r] \subseteq Unencodable

Ledger ==
  INSTANCE ImportLedger WITH
    Statements <- Attachments, RefOf <- MsgOf,
    KeysOf <- [a \in Attachments |-> HashesOf(a)],
    Whole <- Attachments \ Unencodable,
    imported <- jobs, stored <- txs

\* However the requests interleave and fail, what the tables show is a ledger
\* of statements imported once per message, atomically and for good.
ImplementsLedger == Ledger!Spec

\* Every request is answered (or dies with the process), although requests wait
\* for each other's transactions and PostgreSQL may have to fail one of them.
Responds ==
  \A r \in Requests : pc[r] \notin Done ~> pc[r] \in Done

\* Every message of the newest page is recorded in the end, if its owner keeps
\* syncing, whichever requests fail on each other's locks.  One statement of it is
\* imported; others that it carries for the same bank are not seen again.  The
\* exceptions are mailboxes with a statement that fails in every sync of its bank.
EventuallyImported ==
  \A bank \in {"c6", "nubank"} :
    LET messages == Refs({a \in Attachments : BankOf[ImporterOf[a]] = bank})
    IN  \A m \in messages :
          Cardinality({n \in messages : n > m}) < MaxResults
            => <>(m \in Refs(jobs))

=============================================================================
