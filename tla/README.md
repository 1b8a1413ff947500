# A TLA+ model of the Gunther API

The Gunther API (`src/`) is a FastAPI service that reads bank statements from a
Gmail mailbox, stores their transactions in PostgreSQL and answers questions
about them. This directory holds a model of it: TLA+ modules translated from the
source, TLC configurations that check them on small instances, and proofs that
TLAPS checks for every instance. Paths below are relative to `src/src/app/`.

## 1. Inventory

| Component | Source | State it keeps | Operations | Hard behaviour | What makes it correct |
|---|---|---|---|---|---|
| Bank sync use case | `application/banking/use_cases/sync_bank.py` | locals of a coroutine, one open transaction | list jobs, fetch, per source: parse, account, job, rows; commit | every `await` lets another sync run; `except Exception` in the middle of a transaction; commit once at the end | a message is imported once and as a whole; the answer tells what was stored; a failed statement can be retried |
| Bank endpoints | `presentation/api/v1/banking/router.py` | none | sync, backfill, eight reads | several banks on one session; an exception loses the counters; a page of transactions is three statements | as above, for "all" banks; who pages misses nothing |
| Repository | `infrastructure/database/banking/repository.py` | three tables | find or create, create, bulk insert, update, queries | check then insert; `ON CONFLICT DO NOTHING` against open transactions; reports of two statements; the same filters five times over | unique and foreign keys; reports that add up |
| Schema | `infrastructure/database/banking/models.py` | constraints | none | column widths, unique keys as the only guard between requests | constraints match the code's assumptions |
| Session | `infrastructure/database/session.py` | pool, transaction state | open, close, unit of work (unused) | a session after a failed flush, after a failed statement, after a lost connection | nothing half done survives |
| Gmail client | `infrastructure/banking/gmail/client.py` | token file | list, get, refresh token | one page of results; token refreshed by threads of one process | every matching attachment is found; the token stays readable |
| Importers | `infrastructure/banking/importers/{base,c6,nubank,nubank_account}.py` | none | fetch new sources, parse, row hash | two importers for one bank; amounts and dates in three formats; a key for rows that have none | no payment twice, none lost, each with its amount |
| Categorisation | `infrastructure/banking/importers/categorizer.py` | rule table | infer category | first match wins | transfers do not count as spending |
| Backfill use case | `application/banking/use_cases/backfill_categories.py` | locals, one open transaction | list, update each, commit | two backfills lock rows in opposite order; rows listed are stale when updated | only uncategorised rows of Nubank change, once |
| HTTP client | `infrastructure/http/client.py` | connection; `last_response` of each request | request with retries | a timeout of a request that was carried out; a late answer; a response kept from an earlier attempt | at most three attempts; what is returned is the answer to the last one |
| Middleware, errors | `main.py`, `presentation/middleware/*`, `shared/*` | correlation id of a context | nested request handling | an exception passes the middlewares on its way out | id and headers on every answer; no id leaks into another request |
| Redis, lifespan, health | `infrastructure/cache/redis.py`, `main.py`, `presentation/api/v1/health.py` | one client per process | create on use, close, probe | two probes create a client; requests at shutdown; a pool at its limit | nothing is left open; the probe reports what it saw |
| Worker | `worker.py`, `application/tasks/example.py` | queue in Redis | run a task | retry after failure; context of a task | the id of the request is restored and reset |
| Authentication | `infrastructure/security/*`, `application/auth/*`, `presentation/api/v1/auth/*` | none | user from headers, login, token | order of the checks | no user without credentials |
| Others | `shared/config.py`, `infrastructure/telemetry/*`, `cli.py`, `presentation/api/v1/finance/*` | none | wiring, output | none for a model checker | not modelled |

How they interact: an HTTP request passes the middlewares to an endpoint, which
gets one `AsyncSession`. `sync` runs `sync_bank` for each importer on that
session. `sync_bank` calls the repository (statements on the session) and the
importer (in a thread); the importer calls Gmail. Requests are coroutines of one
process. What sync, backfill and the reports share is in PostgreSQL: committed
rows, unique keys and row locks. In memory, requests share the pool of
connections and the Redis client; the correlation id is a context variable, of
which each task has its own value.

The hazards of the code, each with its line, are listed in `PROJECT.json`. Two of them
no property catches, since the case is known to go wrong and the properties leave it
out (section 3): a message whose second statement of one bank fails in every sync, and
an invoice without a date that comes again on another day.

## 2. Modules

| Module | What it is |
|---|---|
| `SyncBank` | `POST /banking/sync`: concurrent requests, Gmail, sessions and the three tables, with all failures; its properties |
| `ImportLedger` | abstract specification: what a sync promises, without requests, transactions or failures |
| `SyncBankProofs` | proofs about `SyncBank`, among them that it implements `ImportLedger` |
| `SyncReportProofs` | proofs about the answer of a sync: what it counts, what is durable, what can be retried |
| `MCSyncBank` | mailboxes for TLC |
| `Statements` | from the lines of a statement to rows, categories and hashes |
| `StatementsProofs` | proofs about `Statements` |
| `MCStatements` | seven statements for TLC |
| `Backfill` | `POST /banking/backfill-categories` next to committing syncs and the spend-vs-transfers report |
| `BackfillProofs` | proofs about `Backfill` |
| `MCBackfill` | an instance for TLC |
| `LedgerQueries` | the endpoints that read transactions and reports, next to committing syncs and backfills |
| `LedgerQueriesProofs` | proofs about `LedgerQueries`, and about sums over finite sets |
| `MCLedgerQueries` | an instance for TLC |
| `GmailToken` | the token file, read, refreshed and written by the threads of syncs and by `gmail-auth` |
| `GmailTokenProofs` | proofs about `GmailToken` |
| `Service` | one process around its endpoints: lifespan, middlewares, pool, Redis client, probes |
| `ServiceProofs` | proofs about `Service` |
| `ServiceClient` | calls to another service with retries |
| `ServiceClientProofs` | proofs about `ServiceClient`, among them that it implements `RemoteCall` |
| `RemoteCall` | abstract specification: what such a call promises |

The modules are layers of one program, each as detailed as its own hazards need,
and each takes another one as a step or a parameter:

- `SyncBank` takes the rows of a statement as hashes (`Rows`); `Statements` says
  where they come from, and imports a message in one step, because
  `SyncBankProofs` shows that a sync is one (`SyncImplementsLedger`).
- `Backfill` and `LedgerQueries` take the commit of a sync as one step for the
  same reason, and `LedgerQueries` that of a backfill row by row, since readers
  may see any commit first.
- `Service` takes a banking endpoint as a query that succeeds or fails.

`SyncBank` takes what `GmailToken` describes as one action that may fail
(`FetchFails`): a sync that finds no readable token ends there, before it has
stored anything.

### 2.1 SyncBank

State. `accounts`, `jobs` and `txs` are the committed rows. `pAccounts[r]`,
`pJobs[r]` and `pTxs[r]` are the rows that the open transaction of request `r`
has inserted. A job is written as the attachment it records; its unique
`source_ref` is the message of that attachment (`MsgOf`). `session[r]` is the
state of the request's session, which decides what the next statement and the
commit do:

- `active`: statements work;
- `inactive`: a flush failed (`get_or_create_account`, `create_import_job`) or
  the connection was lost. SQLAlchemy has rolled back, and every later use of
  the session raises, `commit` included;
- `aborted`: a statement sent with `session.execute` failed in the server
  (`bulk_insert_transactions`). Later statements raise, but SQLAlchemy does not
  know that the transaction is gone, and the server answers `COMMIT` with
  `ROLLBACK`, which is no error.

`banks`, `seen_refs`, `sources`, `source`, `row` are the locals of `sync` and
`sync_bank`; `found`, `imported`, `failed`, `inserted` hold what the counters of
the response count, as sets, so that a property can say which.

Actions. One per statement that can wait or fail:

| Action | Code |
|---|---|
| `Start`, `SkipUnknownBank`, `Respond` | `router.py` `sync` |
| `ListImportJobs`, `FetchNewSources` | `sync_bank.py:31-36`, the importers and `gmail/client.py` |
| `Parse`, `ParseRaises` | `sync_bank.py:38-41` |
| `SelectAccount`, `AddAccount`, `AddAccountRaises` | `get_or_create_account` |
| `CreateImportJob`, `CreateImportJobRaises` | `create_import_job` |
| `BuildRowsRaises`, `InsertRow`, `RowRejected`, `Imported` | `sync_bank.py:55-76`, `bulk_insert_transactions`, row by row because each row takes a lock |
| `StatementRaises` | any statement on a session whose transaction is gone |
| `Commit`, `CommitRaises`, `CommitUnacknowledged` | `sync_bank.py:92` |
| `FetchFails`, `ListRaises`, `ConnectionLost`, `DeadlockVictim`, `Crash` | failures of the environment |

`Caught` is the `except` clause: it records the error and goes on with the next
source, without a rollback.

PostgreSQL. READ COMMITTED: a statement sees committed rows and those of its own
transaction. Whoever inserts a key that another open transaction has inserted
waits until that transaction ends (`Waits`); a cycle of waits is broken by
failing one of its members (`DeadlockVictim`).

Data. Attachments are numbers in the order of arrival, because the order in which
sources are imported decides who locks what first. Rows are their hashes. Which
attachments do not parse, fail in the client, or have a row the server rejects is
a constant: these failures depend on the file alone.

### 2.2 Backfill

`category[t]` is the committed category of each transaction (`Absent` if no sync
has committed it yet). `rows[b]` are the rows a backfill has listed and not yet
looked at, `current[b]` the row of the `UPDATE` under way, `pending[b]` the rows
its open transaction has updated, and so keeps locked, `updated[b]` the rows it
counts. The `SELECT` has no `ORDER BY`: rows come in any order. A report keeps
what each of its two queries counted, and `seen`, a history variable: what was
stored when it began. A commit may be carried out although its acknowledgement is lost
(`CommitUnacknowledged`): the rows are updated and the caller gets an error.

A row that a sync commits has the category that the rules give it, since the importers
of Nubank call the same `infer_category` (`nubank.py:110`, `nubank_account.py:132`). So
what a backfill has to do is in `Old`: rows that were imported before a rule was added.

### 2.3 GmailToken

`file` is the token file: absent, empty, a token, or text that is no token, with
its length. `creds[s]` are the credentials a saver holds. A token is valid in the
`epoch` in which it was issued; `Expire` begins the next one. `pc` of a thread
follows `_load_credentials`: `Load` or `LoadFails`, `Refresh` or `RefreshFails`,
then `_save_token`, which is two steps because `write_text` opens the file
(`Truncate`) and then writes (`Write`) at offset 0 of its own descriptor.
`Authorize` is `gmail-auth`, another process, which saves in the same way. `torn`
is a history variable: the last save overlapped another one or was cut short.

### 2.4 Statements

`StatementOf[m]` is the statement of a message: which importer recognises it, the
date in its name if there is one, the account number of an extract, and its lines.
A line has a day, an amount in cents with the way it is printed (`form`), a text,
the patterns that occur in the text (`marks`, positions in `Rules`), instalment,
card, category and id, and `event`, the payment behind it. Only properties look at
`event`: the same payment may be printed in several statements, and the code has
to find out by `RowHash`. `Outflow` and `IsSpend` say what a payment was.

`ReadC6`, `ReadNubank` and `ReadAccount` are the three readings of an amount,
`InferCategory` is the order of the rules, `CardLast4` the account of a row,
`BillingDate` the date in the key, which is the day of the fetch for files without
one: hence the clock `today`. `Inserted` is `ON CONFLICT (row_hash) DO NOTHING`.

`Read(at)` is what the importer reads in line `at[2]` of message `at[1]`. Two
assumptions say what banks print, which the code cannot know and relies on:

- `PrintedAssumption`: an invoice prints what the owner pays and an extract what the
  account gets; within a bank, a movement's id, day and amount name it (two
  movements of one Pix may share an id); a payment is listed by one bank, always
  with the same id, day and amount or always without an id; invoices that list a
  payment again do it word for word, and under the same date if both have one in their
  name. This is what `row_hash` was made for (`base.py:35-46`).
- `SpendAssumption` bounds `IsSpend`, which says what a payment was and not what the
  program makes of it: it was paid to others and is no bill of an own card, no transfer
  between own accounts and no income. Assumed is only that spend is money that leaves
  the owner, that what is bought with a card and not called a transfer by its text is
  spend, and that c6, which names the categories itself, calls no line a transfer.
  Nothing is assumed of the lines of an extract but their sign, and nothing of any
  text that speaks of a bill or a transfer.

The mailbox that TLC uses satisfies both (TLC evaluates them in `statements`).

### 2.5 LedgerQueries

`jobs`, `accounts` and `category` are the committed tables, as in `Backfill`. A
client lists the transactions of a filter, or those behind an entry of the summary
it has read. `step` follows a page through its three statements: `Count`,
`SelectRows`, `ListAccountsByIds`. `SelectRows` returns any page that
`ORDER BY date DESC` allows (`First`): the order within a date is the server's.
The client asks for the next page until one is not full. `there` is a history
variable: the rows that were to be found when it began. The reports are operators
on the table: `Summary`, `ByDescription`, `CashFlow`, `SpendVsTransfers`.

### 2.6 ServiceClient

`pc`, `attempt` and `last` are the state of `_request`: where Tenacity's loop stands,
the number of the attempt and the local `last_response`, which no attempt resets. An
attempt ends with an exception (`Fail`, or `Raise` for one that is not transient) or
with a response (`Receive`), which is stored before its status is looked at, so that
it is kept when a 5xx makes the attempt fail. After a failure the loop goes on
(`Retry`) or raises the last exception (`GiveUp`); without one it ends and `Return`
gives `last` to the caller, or to `raise_for_status` and `json` of the JSON methods.
That a response is read on the connection of its own request is httpx's doing and a
guard of `Receive`; which of the responses is returned is the code's.

A request that was sent is in `sent` until the service has dealt with it, which may
be after its caller has stopped waiting. `executed` are the attempts that were
carried out, `answers` what the service has answered. `RemoteCall` has two variables,
`carried` and `outcome`; its statement is that a call is carried out at most
`Attempts` times, perhaps after its caller was told of an error, and at least once if
it succeeds.

### 2.7 Service

`pc[r]` follows a request through middlewares and endpoint and back:
`Arrive`, one of the endpoints (`kind`), then `AddSecurityHeaders`, `LogAccess`,
`EchoCorrelationID`, or `AnswerUnhandled` for an exception that no handler takes.
`context` has a value for each task, as a `ContextVar` has. `conn` are the requests
that hold a connection of the pool; `Release` is the exit of `get_db_session`,
before or after the response is sent, as FastAPI's version decides. `client` is
`_client` of `redis.py`, `clients` counts the clients that are open. `saw` is a
history variable: what was true at some time while a probe was inside.

## 3. Runs

| Run | Instance | What it shows |
|---|---|---|
| `sync_overlap` | 3 requests, 3 account extracts of which two share a row | unique keys, complete imports, and the refinement of `ImportLedger`, under waits, unique violations and deadlocks |
| `sync_faults` | 2 requests, 5 statements of 3 importers, 4 of which fail, each in another way; Gmail, connections and the process fail | types, foreign keys, the counters of the answer, durability of an answer without errors, retry of what failed |
| `sync_delivers` | 2 requests that keep syncing "all" banks; 3 messages, one with an invoice and an extract, and a page of 2 | each request is answered; each message of the newest page is imported in the end |
| `backfill` | 2 backfills, 1 report, 6 transactions, lost connections and crashes | where categories come from, that they are final, what the answer counts, what the report counts; answers and progress |
| `token` | 2 threads, `gmail-auth`, tokens of 2 lengths, 2 expiries; Google fails, the process dies | when the file can be unreadable; syncs recover |
| `statements` | 7 statements of the 3 formats, 23 payments, 3 days, any order | no payment twice, none lost, amounts, spend, cards |
| `queries` | 7 transactions of 4 statements, 2 of them committed later, 5 filters, pages of 2 | pages, details and entries of the summary while the table grows; the reports agree |
| `client` | 2 calls, 2 attempts | which attempt's response is returned, the refinement of `RemoteCall`, answers |
| `service` | 2 requests of any kind, a pool of 1 | headers, log, probes, shutdown, answers |
| `phantom_report` | violation | see finding 1 |
| `report_double_count` | violation | finding 2 |
| `untraced_error` | violation | finding 3 |

Bounds. Every set of requests, attachments, cards and hashes is finite and given
in the `.cfg`; the counters of the model cannot grow beyond these sets. The only
other bound is `MaxEpoch` of `GmailToken`, the number of expiries: two, so that a
token that was refreshed expires once more while an older one is being saved. Two requests are enough for each pairwise race (stale
`seen_refs`, find-or-create, a key held by another transaction, a deadlock of
two); the third in `sync_overlap` makes chains and cycles of three, and a request
that waits for one that waits. Two attachments share a hash and are imported in
different transactions at the same time, because messages arrive while syncs
run. `MaxResults` is 3 for mailboxes of up to 3 messages of a bank, and 2 in
`sync_delivers`, where the code has 50: the oldest message leaves the page.
Requests are interchangeable, hence the symmetry of the safety runs; the runs with
liveness have none.

The mailbox of `statements` has each case the code distinguishes: equal purchases
in one invoice and on two cards, two instalments of one plan, an invoice sent again
without a date, overlapping extracts, two legs with one id, a row without an id,
rows without date or card, an amount in each format for each importer, texts that
match several rules or none, a Pix to a friend, to a shop and to the owner, a bill paid
by its text and one paid by a slip. The days 9 to 11 lie around the billing dates, so
that a file without one may get the date of another. Two pages, their boundary
inside a date, and commits of rows before, between and after them need two
statements that are committed later and pages of two. Two attempts show every
order of timeout, late answer and retry; a third only repeats them (one call with three
attempts also passes). A pool of one with two requests is a pool at its limit; of three
requests, with the safety properties alone, TLC found no violation either.

Deadlock checking is on in every run except where the system may stop: `statements`
(all messages are imported), `client` (all calls have ended), `service` and
`untraced_error` (the process has ended).

### Findings

1. `phantom_report`. When `bulk_insert_transactions` fails in the server (a value
   too long or too large for its column, or a deadlock), the exception is caught
   and the commit becomes a rollback without an error. The answer still counts the
   sources imported before. What does hold is `CleanReportIsDurable`: the answer
   then has an error.
2. `report_double_count`. A backfill that commits between the two queries of
   `get_spend_vs_transfers` moves a transaction to the other side, where it is
   counted again. What does hold is `ReportMissesNothing`.
3. `untraced_error`. An exception without a handler is answered 500 by
   ServerErrorMiddleware, outside the middlewares: no correlation id, no security
   headers, no record of the access log. `POST /api/v1/auth/token` always ends so.
   What does hold is `AnswersAreTraced`, for every other answer.

### What the properties leave out, and why

Properties state the behaviour of the code with its exceptions; each of these is a
place where the code does less than one may expect.

- `CompleteImport` and `FailureIsRetryable` except statements that fail in the
  client (`Unencodable`): `create_import_job` flushes before the rows are built, so
  that if building or encoding them raises, the job is committed with status
  "success" and without rows, and later syncs skip the message.
- `EventuallyImported` speaks of one statement per message and bank: the importers
  of Nubank share the known message ids, and the second attachment of a message is
  skipped once the first is imported. It speaks of the newest page: only one page
  of 50 messages is read, imported ones included. It is checked on mailboxes
  without a statement that fails in every sync: two statements of one importer in
  one message have one `source_ref`, and the second job rolls back the whole sync
  of that bank, every time.
- `UnreadableOnlyInSave` except when saves overlap (`torn`): two syncs that refresh
  the token at the same time may leave a longer text under a shorter one, which is
  no JSON, and the browser flow has to be run again.
- `NothingDoubled` except for rows without an id in extracts, whose key has the date in
  the name of the extract, and for invoices without a date in their name, which are
  keyed by the day on which they are fetched: such a file doubles its payments when
  that day is not the billing date under which they are stored already.
- `NothingLost` except for lines that read the same (the amount as it was read):
  equal purchases of one invoice, or of two cards with the same billing date, are
  one row, since neither the card nor the position is in the key. An amount that
  cannot be read is not stored: for c6 that includes amounts with a point for
  thousands.
- `AmountsAreRead` except for invoices of Nubank with a decimal point: the point is
  removed, and the amount is a hundred times too large.
- `SpendIsReal` compares the reports with `IsSpend` and leaves out the texts by which
  the rules cannot tell. Both ways the code differs from its comments
  (`categorizer.py:5-8`, transfers are "money moving between the user's own accounts",
  and `:82`, "with no other match"):
  - not counted although it is spend (`MereTransfer`): a Pix to others whose text says no
    more, as to a friend (`friend` in the mailbox of `statements`), or one to a shop of
    clothes or for pets (`vet`), whose rules come after that for Pix;
  - counted although it is none (`Unclear`): a transfer between own accounts whose text
    also matches a rule before that for Pix, as one through Mercado Pago does (`wallet`),
    and whatever leaves an account under a text that matches no rule for transfers, as a
    bill that is paid by a slip (`boleto`).

  In every other case, all card purchases, refunds and bills among them, what is
  counted is spend and what is spend is counted.
- `PagingMissesNothing` except for rows that share their date with others: the order
  within a date may differ from page to page. A client that stops when it has seen
  `total` rows, rather than at a page that is not full, may miss more.
- `ResultIsLastAnswer` and `Responds` hold although RemoteProtocolError (the service
  closes the connection without an answer) is not among the errors that are
  retried, while the docstring lists connection failures.
- `ProbeIsFair` lets a probe answer 503 with both services up when other requests
  hold all connections.

## 4. Fairness

Safety is checked without fairness. For liveness:

- `SF_vars(Progress(r))`: asyncio resumes every coroutine that can run, so weak
  fairness would be enough for steps that depend on nobody. Strong fairness is
  needed for statements that wait for a lock: another transaction may take the
  key again each time it is released. PostgreSQL queues the waiters of a
  transaction and wakes them when it ends, so a waiter is not passed over for
  ever.
- `WF_vars(\E r : DeadlockVictim(r))`: the deadlock detector runs after
  `deadlock_timeout`. Which member fails is not assumed.
- `OwnerSpec` adds that mail is delivered and the owner keeps asking. It is
  needed for `EventuallyImported` and `EventuallyCategorised` only.
- `ServiceClient`: `WF_vars(ClientStep(c))`, since httpx times out each phase of a
  request after 5 or 10 seconds. Nothing is assumed of the service.
- `Service`: `WF` of `Handle(r)` and `Release(r)`: coroutines are scheduled, and waits
  for a connection (30 seconds by default) or Redis (5 seconds) end; and of the
  shutdown. That a statement ends is an assumption: `session.py` sets no
  `command_timeout`, so that one to which PostgreSQL gives neither an answer nor an
  error would hold its connection for ever. Nothing is assumed of PostgreSQL and Redis, or of SIGTERM.
- `GmailToken`: threads are scheduled (`WF_vars(Step(t))`, `WF_vars(Save(s))`), and
  its `OwnerSpec` adds that the owner keeps syncing and follows the error message
  of a sync that finds no token. `Recovers` assumes that at some time tokens stop
  expiring, failures stop, and the owner leaves a readable token alone.

No failure is assumed to stop in `Responds`. `EventuallyImported` is checked
without Gmail, connection and process failures, and with deadlocks and unique
violations. `EventuallyCategorised` holds unless backfills are failed for ever:
two that are repeated for ever may deadlock each time, since each may lock the
rows in another order.

## 5. Proofs

The theorems hold for any number of requests, attachments, rows, backfills, reports,
calls and attempts, any mailbox, filters and rows, from these assumptions on the
constants alone:

| Assumption | What it says |
|---|---|
| `SyncAssumption` | types; attachments are numbered in the order of their messages |
| `BackfillAssumption` | types; `None` and `Absent` are no categories; rows of later syncs come with the category of the rules |
| `TokenAssumption` | types; `gmail-auth` is no thread of the server; a token has a length |
| `ClientAssumption` | types; at least one attempt |
| `ServiceAssumption` | the pool has a connection; requests are finitely many at a time |
| `QueryAssumption` | types; pages have rows; the table is finite; every row has a job, an account, a day and a number of cents; rows of later syncs that have no category match no rule |
| `StatementAssumption` | types; lines are numbered |
| `PrintedAssumption` | what banks print of a payment (section 2.4) |
| `SpendAssumption` | which payments are spend beyond doubt (section 2.4) |

The last two are used by `StatementsProofs` only, and not by its `TypesAreInvariant`:
`PrintedAssumption` by its other theorems, `SpendAssumption` by `SpendIsInvariant`.

`SyncBankProofs` proves `TypeOK`, `UniqueKeys`, `ReferentialIntegrity`,
`CompleteImport` and `ImplementsLedger`. The inductive invariant `IInv` joins
them with three facts about control and open transactions:

- `Located`: where a request stands decides which locals are set;
- `Held`: a transaction that is gone holds nothing; a live one holds the account
  and the job that its next statements refer to. `ReferentialIntegrity` needs it;
- `CompleteSoFar`: every job of an open transaction is complete in the view of
  that transaction, except the one whose rows are being inserted, of which all
  rows before the next one are there. `CompleteImport` talks about committed jobs
  only and is not inductive without it. A row that was skipped is in that view
  because the `INSERT` waited for whoever held its key: this is where the locking
  of PostgreSQL is used.

`TableSteps` reduces the actions to the few ways in which tables change, so that
the lemmas about tables have a handful of cases. `NextRefines` shows that a
commit is one `Publish` of the ledger and any other step a stutter.

`SyncReportProofs` proves `Accounted`, `CleanReportIsDurable` and
`FailureIsRetryable`, what the owner may conclude from the answer of a sync. None is
inductive: the answer is given after the commit, and what it counts was decided in
the sync. `ReportInv` adds:

- `Reckoned`: each source that was found is in one place: still to come, the running
  one, imported or failed. So the counters of the answer add up;
- `RunOnce`: a request runs an importer once, and a later importer has not found what
  an earlier one has. Without it a source could be counted twice;
- `JobsReckoned`: the jobs of an open transaction are those of the sources it has
  imported and of the running one;
- `Kept`: what a request has imported without an error is committed or in its open
  transaction, unless the connection was lost, and then the session knows and the
  commit raises. `CleanReportIsDurable` needs it: a transaction that is gone without
  the session's knowledge has left an error in the answer.

`BackfillProofs` proves `TypeOK`, `CategorySound`, `CategoriesAreFinal`,
`UpdatedIsDurable` and `ReportMissesNothing`. The strengthening is `Held`: rows
listed, sent or locked were imported without a category. With `CategorySound` a
second update of such a row writes what is already there: this is why categories
are final although the `UPDATE` does not look again.
`OnlyTransfersMissing` is the state of a report between its queries.

`GmailTokenProofs` proves `TypeOK` and `UnreadableOnlyInSave`. The strengthening is
`Alone`: as long as saves do not overlap, at most one saver has the file open, and
the file is then empty, so that what it writes is all there is in the file.

`ServiceClientProofs` proves `TypeOK`, `ResultIsLastAnswer` and
`ImplementsRemoteCall`. The strengthening is `Located`: a call that was not made
has no attempt and nothing on its way; and `SuccessIsCarriedOut`: the service
answers with a success only an attempt that it has carried out, and the same is true
of what `last_response` holds, without which a success need not have been. That the
loop ends without an exception only where `last_response` is the current attempt's is
a part of `ResultIsLastAnswer` itself (its first conjunct), kept by `Receive` and by
nothing else. In `NextRefines` a `Call` is `Open`, the service's first execution of an
attempt `CarryOut`, the end of the loop or an exception that ends the call `Close`,
and any other step a stutter. That executions stay within `Attempts` although requests
may be carried out late comes from `TypeOK`.

`ServiceProofs` proves `TypeOK`, `AnswersAreTraced`, `StopsClean` and `ProbeIsFair`.
The strengthening says where each request is when something of it is set:
`Connected` (who has a connection is past the wait for one), `Handling` (the id of a
request is set while it is inside, and it has the headers of the middlewares it has
left), `Logged` (it is in the log once its status is final), `Lifespan` (at most one
Redis client, none before the first probe or after shutdown, and requests inside only
in between: why the process stops with nothing open), `Noticing` (a check that is "ok"
was right, and one that is missing had a reason, which `saw` has recorded).

`LedgerQueriesProofs` proves `TypeOK`, `PageIsFull`, `PagingMissesNothing`,
`EveryRowResolves`, `EntryIsListed` and `ReportsAddUp`. The argument is
`MatchingGrows`: writers only add to what a query selects. A sync adds rows, and a
backfill changes only rows without a category, which no filter by category selects.
`Counted` keeps what was promised or counted within what is selected now. `Ahead` is
why offsets are safe: `Rank(t)` counts the selected rows with a later date than `t`,
it can only grow, and a row with its date alone that no page has shown has a rank of
at least `offset`. Were rows deleted, or recategorised once they have a category,
neither would be inductive.
`ReportsAddUp` is proved in every state of the table, from what sums over finite
sets do: `SumOfGroups` (however rows are grouped, the groups' sums add up to the sum
of the rows), `SumOfImage` and `SumOfUnion`.

`StatementsProofs` proves all invariants of `Statements`. `Written` says that a row
is what was read in its line, under a hash made of it with one of the billing dates
that its file may get; `Kept` that every line that was read has a row with one of its
hashes. Then `NothingDoubled` says that two hashes of one payment are equal, and
`NothingLost` that equal hashes are of equal readings: the two directions of "the
hash is a key for payments". `LeastExists` (a set of positions has a first one) makes
`InferCategory` and `CardLast4` well defined. `SpendIsReal` rests on `FirstMatchDecides`
(where the first match stands decides whether a text is a transfer) and, for the sign,
on `AmountsAreRead`.

Induction over data is done by a smallest counterexample: `WFMin` of the library gives
the smallest subset (`SmallestSubset`) or the first position (`LeastExists`) that
would be wrong, and the proof shows that there is none. The induction theorems of the
library take an operator as a parameter, which the provers here cannot instantiate.

Model-checked only: the liveness properties, which need `ENABLED` and fairness and are
out of the prover's reach. Every invariant and every action property of a passing run
is proved.

## 6. Not modelled

- Rate limiting: no route has a limit and slowapi's middleware is not installed, so
  that there is no behaviour to model.
- The worker: settings of arq and an example task without business logic, which
  nothing enqueues.
- `LoginUseCase`, JWT, `require_group`, `unit_of_work` and the exception handlers of
  `main.py`: no route reaches them. The finance endpoint answers constants.
- `GET /accounts` and `GET /statements`: one `SELECT` each.
- Archives, character sets and csv, decoding of mails, hashing as such (`RowHash` is
  its argument), the text of patterns, logging other than the access log, telemetry,
  configuration, CORS.
- Several processes of the API: for the tables they are more requests, for the token
  file more threads.

See `PROJECT.json` for every component.

## 7. Plan

Done: all modules of section 2, and proofs of every safety property that a passing
run checks. Left are refinements between the layers of section 2 that so far are
arguments in words:

1. `Statements` takes the import of a message as one step, as `ImportLedger` does: state
   the table of `Statements` as a ledger with `Hashes(rows)` as its rows.
2. The commits of `LedgerQueries` as those of `Backfill`: categories are final in both.
