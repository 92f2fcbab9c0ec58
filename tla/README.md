# TLA+ models of the BigQuery ODBC driver

This directory is a verification development of the driver in
`src/google/cloud/odbc`: TLA+ modules translated from its C++ code, TLC
configurations that check them on small instances, and theorems checked by
TLAPS. Paths below are relative to `src/google/cloud/odbc/bq_driver` unless they
say otherwise. `PROJECT.json` maps every definition to the lines it models and
lists the runs, the faulty variants that each property catches, the hazards of
the code and the theorems.

## 1. The system

An application (usually through a driver manager) calls C functions on four
kinds of handles. Nearly every entry point in `odbc_api.cc` traces the call,
takes the mutex of the handle it is given (`odbc_lock.cc`), calls the function
`SQL...Internal` that does the work, and returns an `SQLRETURN` after adding
diagnostic records to the handle. The work is done by requests to BigQuery over
REST or, for large results, over a gRPC read stream ("HTAPI").

| Component | State it keeps | Operations | Interacts with |
|---|---|---|---|
| Statement (`odbc_stmt_handle.*`, `odbc_sql_requests.cc`, `odbc_statement.cc`) | state (`StmtStates`), query text, job of the last prepare, child jobs of a script, four `optional<future>`, a cancel flag, attributes, descriptors | SQLPrepare, SQLExecute, SQLExecDirect, SQLMoreResults, SQLCancel, SQLCloseCursor, SQLFreeStmt, SQLSetStmtAttr, SQLFreeHandle | tasks it starts with `std::async` write its fields without its mutex; the connection's transaction; the result set |
| Result set (`odbc_sql_fetch.cc`, `odbc_sql_execute_utils.cc`, `odbc_sql_results.cc`) | one page of rows and a cursor, the page token and job of a REST result, the read stream and iterator of an HTAPI result | SQLFetch, SQLFetchScroll, SQLGetData, page and batch fetches, SQLCloseCursor | opened by the execution functions, the catalog functions and SQLMoreResults; converted into bound buffers by data translation |
| Transactions and sessions (`internal/odbc_transactions.cc`) | connection: transaction flag, session id, autocommit; server: session, transaction | BeginTransactionIfNeeded, SQLEndTran | called by every prepare and execution of any statement of the connection |
| Handles and locks (`odbc_lock.cc`, `odbc_api.cc`, `odbc_commons.cc`, `odbc_environment.cc`) | tree of environments, connections, statements and descriptors; a mutex each and a global one | SQLAllocHandle, SQLFreeHandle, every function's lock | SQLDisconnect, SQLEndTran and SQLSetConnectAttr touch all statements of a connection |
| Connection (`odbc_connection.cc`, `internal/odbc_conn_handle.cc`) | DSN settings, attributes, client, connected flag | SQLConnect, SQLDriverConnect, SQLBrowseConnect, SQLDisconnect, attributes | owns statements and descriptors |
| Parameters, data-at-execution (`odbc_sql_requests.cc`, `internal/odbc_sql_execute_utils.cc`, `internal/odbc_desc_handle.*`) | index of the current parameter, buffered chunks, states `kNeedsParams`/`kNeedsPutData` | SQLBindParameter, SQLParamData, SQLPutData | SQLExecute returns SQL_NEED_DATA and is finished by SQLParamData |
| Descriptors (`odbc_descriptor.cc`, `odbc_desc_handle.cc`) | header and records; the statements associated with each | SQLSetDescField/Rec, SQLCopyDesc, bind functions | shared by statements |
| Diagnostics (`odbc_diagnostics.cc`) | list of records per handle | SQLGetDiagRec/Field | every function |
| Catalog functions (`odbc_driver_metadata.cc`, `internal/odbc_sql_*.cc`) | none of their own; the pool of requests of a call | SQLTables, SQLColumns, keys, statistics, procedures, type info | list projects, datasets and tables in parallel; store a result set and the IRD on the statement |
| Data translation (`internal/data_translation.*`) | the cache of a long value (`translated_data`) on the statement | SQLGetData, SQLFetch into bound columns | converts what the result set holds |
| Query text, client interface, tracing, Windows dialogs | query building, requests, log options, dialogs | | |

What is hard in this code, and what makes each part correct:

* **Statement.** With `SQL_ATTR_ASYNC_ENABLE` a function starts a task and answers
  `SQL_STILL_EXECUTING`; the application polls by calling it again. The task
  shares the statement's fields with all later calls and takes no mutex; the
  getters of the futures move them out and leave engaged optionals behind; a
  future that goes out of scope blocks the call until its task ends. Correct
  means: no task outlives the statement or its future, a poll collects the
  outcome instead of starting again, a failure is reported, the rows shown
  belong to the text executed, and calls return.
* **Result set.** One rowset may end in the middle of a page, span pages, meet a
  row that cannot be converted, a page that cannot be fetched or a stream that
  breaks. Correct means: every row once and in order, `SQL_NO_DATA` only at the
  end, the cursor on the last row delivered, and an end that is reached.
* **Transactions.** The flag is tested and set without a lock of its own, around
  requests that may fail. Correct means: the flag tells what the server's
  session does, and no statement runs outside the transaction.
* **Handles.** Every function locks one mutex: that of its own handle, or of the
  parent when the handle is going to be deleted. Correct means: no two functions
  are at one set of children at once, no handle is used after it was deleted, and a
  connection that was disconnected stays empty.
* **Data-at-execution.** A protocol of four functions over an index that no
  function resets, with an execution at both ends that may have several sets of
  parameters. Correct means: every byte given reaches its parameter, no set runs
  twice because data was needed in between, and no failed set is hidden.
* **Catalog functions.** Rounds of parallel requests, each of which may fail or meet
  an object that has just gone. Correct means: what is listed is exactly what was
  asked for, as ODBC reads the arguments, and was there, in order; a failure is
  reported; every call ends.
* **Data translation.** Twenty BigQuery types against thirty C types, each with
  lengths, limits and pieces of its own. Correct means: pieces follow one another,
  SQL_SUCCESS means the whole value, integers are exact or refused.

The full list, with lines, is under "hazards" in `PROJECT.json`.

## 2. Modules

| Module | Models | EXTENDS / INSTANCE |
|---|---|---|
| `StatementAsync` | one statement, its API functions and its asynchronous tasks | INSTANCE `WorkerLifetime` |
| `WorkerLifetime` | what the futures promise: the statement's memory outlives its tasks (abstract specification) | |
| `RowFetch` | one statement's result set, page token and read stream; fetching row by row | |
| `GetData` | SQLGetData, SQLBindCol and SQLFetch on the columns of a row | EXTENDS `DataTranslation` |
| `DataTranslation` | the conversions of `data_translation.cc` as operators | |
| `Transactions` | the statements of one connection, its session, its transaction and SQLEndTran | |
| `HandleLocks` | every entry point of the driver with its mutex; the tree of handles | |
| `Parameters` | binding, parameter sets, and the data-at-execution dialogue of one statement | |
| `Catalog` | the catalog functions, their parallel requests, and BigQuery changing meanwhile | EXTENDS `ColumnTypes` |
| `ColumnTypes` | how a column is described in four places, as operators | |
| `...MC` | values of the constants for TLC | EXTENDS the module |
| `StatementAsyncProofs`, `RowFetchProofs`, `TransactionsProofs`, `HandleLocksProofs`, `ParametersProofs`, `GetDataProofs`, `CatalogProofs` | theorems | EXTENDS the module and `TLAPS` |
| `StatementCallsProofs` | theorems about answers and cursors | EXTENDS `StatementAsyncProofs` |

### StatementAsync

`stmt` holds the fields of `StatementHandle` that decide what calls do: `state`,
whether a prepare has succeeded (`prepared`), the cancel flag, the query text, the
prepared or executed `job`, whose text the stored `rows` are of, the stack of
script `children` (`job_data_`), the child job whose output the rows are (`shown`)
and the asynchronous attribute. The child jobs of a script that was not prepared
are listed (`PopulateScriptChildJobs`) only when none is left on the statement
(`SkipsListing`). `fut` is the four
`optional<future>` members: `NoTask` (disengaged), a task, or `Moved` (engaged but
moved from, which `std::move(member)` in the getters leaves). `frame` has one
entry per actor, a task or the caller itself, with the body it runs
(`PrepareQuery`, `ActuallyProcessExecute`, `ActuallyProcessExecDirect`,
`ActuallyGetMoreResults`), where it is and what it has read. `call` is the API call
in progress; since every function holds the statement's mutex there is at most
one. `obs` remembers the last answer, what a driver manager keeps, and two history
facts the properties need: whether a body was started for the pending request and
whether the answer used up a cancellation.

Granularity. A call reads and writes the statement in one step, except where a
task can come between two reads that matter: the second test of the state in
`HandleAsyncPrepare` and `HandleAsyncExecute`, between launching a task and storing
its future, between storing it and writing the state (`store`, `mark`), and at
every wait (`join`, `wait`, `destroy`). A body gives way before and after each
request to the server and between publishing `kStatementExecutedWithRs` and storing
the rows. A task's last write and its future becoming ready are separate steps
(`BodyReturns`). The server answers anything it can: success, failure, a
parameter to be sent, no affected rows, any child jobs of `ScriptJobs`.

`DriverManager = TRUE` adds the one thing a driver manager does to the order of
calls: while a function has answered `SQL_STILL_EXECUTING` only that function (with
the same text) and SQLCancel reach the driver. With `FALSE` calls come in any order.

### RowFetch

`rs` is the `ResultSet`: the rows of a page, named by their source and number, and
the cursor. `token` is `paging_info_`, `stream` is `read_rows_stream_` with its
iterator; both outlive the result they belong to where the code leaves them
there. `SQLFetch` starts a rowset; `WriteRow`, `RowFails`, `ReadBatch`, `FetchPage`
and the others are the passes through the loop of `WriteRowset` and
`FetchNextResultSet`. `BatchHalfConverted` is `ProcessRecordBatch` failing at a value:
the rows at hand have been overwritten in part by then and the cursor reset. What
is left is a batch of new and old columns, and `seen.whole` is false from there on.
`seen` is the last row the application got or was told it lost, `reply` the last
answer. The statement's states are reduced to `open`
(`kStatementExecutedWithRs`), since fetching asks for nothing else.

`htapi` says whether the connection allows HTAPI: it reads every result of several
pages that way, and one of a single page if its job is not complete in time.
`RowFetchAssumption` states what is assumed of the server: no page without rows
before the last one. The cursor stops counting one place after the end, where the code
goes on incrementing an integer that nothing looks at any more.

### Transactions

`conn` holds the fields of `ConnectionHandle` that decide where a query runs: the
autocommit attribute, `is_transaction_active_`, `session_id_` and the settings of
the data source. `stmt` has a statement's state, whether it was prepared, and
since when its text is known. `call` is the call in progress on each statement:
BEGIN TRANSACTION, a dry run, the query, each of them tested for, constructed,
sent, served and answered in steps of their own, since nothing but the
statement's own mutex is held. `RetryLoop` sends a request again when its answer
is late, though the server may have served it; any request may fail before or
after it was served. `server` (external) has the sessions with their open
transaction and its changes. `durable`, `ran`, `since`, `kept` and `undone` are
history: where the changes of the application are, and what SQLEndTran has said
of them.

Assumed: the driver manager refuses SQLEndTran, SQL_ATTR_AUTOCOMMIT and
SQLDisconnect while a statement of the connection executes; a query that fails
leaves its transaction as it was; transactions are not nested. Two constants
take away what the code leaves to the application. With `ReExecute = FALSE`
a statement is prepared anew after each SQLEndTran and each change of mode. With
`ParallelFirst = FALSE` no two statements run while the connection has no session.
Without either, work is in the wrong place: the first is the run
`v_stale_prepare`; without the second two statements each create a session, the
connection keeps one of them (`internal/odbc_internal_commons.cc:855` tests and sets
the id without a lock), a change made in the other is never committed, and TLC
finds `CommitKeeps` violated.

### GetData and DataTranslation

`DataTranslation` has an operator for each family of conversions. A value is a
record of what the conversions look at: its BigQuery type, the bytes and the
characters of its text, what a text reads as, the sign, bits, fraction and digits
of a number. An answer is a SQLSTATE, what the buffer holds and the length that is
reported; `GetColumnData` chooses the conversion and refuses those there are not.
Characters are not spelled out: `StringValueToOutputBufferResponse` and
`WStrToOutputBufferResponse` appear as what they do to lengths, with the cases in
which they cut, clear the buffer, or lose the answer of an inner copy. A wide text
has as many characters as `Utf8ToUtf16` makes (`chars`), while SQLGetData decides by
the bytes (`size`) whether to cache it. Limits are compared as `data_translation.h:54`
does, as doubles (`AsDouble`): `bits` and `edge` say where a number is by the powers of
two, so that 2^63, one less and one more are told apart, `tiny` marks a fraction that
a double does not keep, and `CastSaturates` is what a cast out of range yields.

`GetData` is the state machine around it. `translated` is the cache of the column
that is read in pieces: its offset, its size, how much of it is really of the
value. `SQLGetData` fills, continues or drops it; `SQLFetch` moves the cursor,
forgets the cache and converts into the columns bound with SQLBindCol, in order,
until one cannot be converted. `reading` is what the application has of the column
so far. `Whole`, in the properties, says what the whole value is, apart from the
conversions.

### HandleLocks

`alive` is the set of handles, `connected` and `told` are the connected flag and
what the application was told of it, `app` the explicit descriptors of each
statement (ARD and APD), `owner` the thread that holds each mutex. A call of a
thread is `BeginCall` (handle and function), `Acquire` (the mutex that
`HandleLock` in `odbc_lock.cc` chooses), and `Fail` or `Work`: the body with
everything it changes, and the release. A function that visits other
handles keeps in `arg` those it has collected, and goes on with them in a later
step, so that another thread can come between. The null handle of
SQLAllocHandle(SQL_HANDLE_ENV) counts as locked, as in the code
(`SQL_NULL_HANDLE == SQL_SUCCESS`), and takes no mutex.

SQLEndTran of an environment (`endTranEnv`) collects the connections, reaches one
after another, and closes the cursors of the statements it finds there while it
holds the environment's mutex alone (`Reached`).

External is what the driver manager and the application owe (`MayUse`,
`MayDelete`): no function is called on a handle that is being deleted, and none is
deleted while a call uses it. Without that discipline the driver's locks do not
protect a handle, as `SQLFreeHandle` holds the parent's mutex and the functions hold
the handle's own.

### Parameters

`apd` has a record for each parameter: whether there is one, the indicator for each
set, what the value pointer is, and the buffer SQLPutData appends to. `state`,
`index` and `partial` are the statement's state, `current_param_index_` and
`is_partial_putdata_called_`. `ActuallyProcessExecute` is the loop over the sets:
`ConstructPositionalQueryParams` turns each into a request or a diagnostic, the
server answers it, and `ReplyTo` makes one return code of all. `SQLParamDataAsks`
and `SQLParamDataExecutes` are the two ways out of the loop over the parameters in
`SQLParamDataInternal`; looking a record up creates it, as `operator[]` of the map
does (`Visited`). `dm` is what the driver manager allows next, from the last reply
alone. A byte is known by the execution and the SQLPutData it was given in;
`given` is the history of the current execution: what the application gave, not
what the driver stored (`given.other` marks parameters given otherwise than by a
length). SQLCancel sets a flag, before an execution or inside a dialogue, and the next
SQLExecute or SQLExecDirect answers SQL_SUCCESS for it and runs nothing (`SQLExecuteSkipped`,
`SQLExecDirectSkipped`). The answer to a set may be lost after it ran, and results may
fail after all sets have (the reply `results`).

### Catalog and ColumnTypes

A call goes through rounds (`call.stage`): projects, validation of additional
projects, datasets, tables, the metadata of a table, or routines and keys. Each
round makes a list of requests; `pool` is `ExecuteParallelTasks`: at most
`MaxThreads` run, answers come in any order, the first error ends the round. `store`
is BigQuery: projects may be closed to the caller and tables come and go, between
any two steps. An input of a round is known by its place: the inputs before
`pool.next` have been started, a running one and what it gave carry that place, and
`InOrder` puts what came back in the order of the inputs. Patterns are model values
with the set of names they match, since matching itself is a library's (`FullMatch`
is `RE2::FullMatch`); the loops that push the names that match are `Selected`.
`seen` is history: what was visible all the time, ever, and which requests failed.
Each of the nine functions has its own arguments, checks, filters and rows; `stmt`
keeps the result and the IRD that is left on the statement. What a call asks for
(`TablesWanted`, `ColumnsWanted`, `FieldsWanted`) is defined apart from the driver, as
ODBC reads the arguments: identifiers without case, patterns as LIKE, the default
dataset as the one dataset of that name. The two queries that read the parameters
of a routine are one step.

`ColumnTypes` holds side by side the four descriptions of a column: the rows of
SQLColumns, of SQLGetTypeInfo, of SQLProcedureColumns, and the records of the IRD.

## 3. What is checked

Every run takes less than three minutes on two cores; the largest are `transactions`
(1.4 million states) and `parameters` (0.5 million). Nine runs pass; each of their
properties is violated by a faulty variant of a definition
(`PROJECT.json`, "mutants"), a bug that the property would find.

| Run | Instance | Shows |
|---|---|---|
| `statement` | asynchronous execution off, all functions in any order, over a SELECT, a DML text and scripts of one or two child jobs | the fields are well typed; an open cursor shows the rows of the statement's text; a script's cursor is on the child that the next SQLMoreResults discards |
| `async` | asynchronous execution on, no driver manager, two tasks | every task has exactly one owner; `StatementAsync` implements `WorkerLifetime` |
| `execdirect` | SQLExecDirect under a driver manager, asynchronous execution switched at will, three texts, fair scheduler | a poll never starts the query again; two bodies never work at once; every call returns |
| `fetch` | results of three pages, of one and of none, over REST or an HTAPI stream with lost and half converted batches and breaks, a script's child and catalog results; rowsets of 1 to 4 rows, SQL_ATTR_MAX_ROWS 0 or 1 | rows in order; SQL_NO_DATA only at the end; cursor on the last row (REST); an application that keeps fetching gets there |
| `transactions` | two statements, two sessions, one change, data sources with sessions and without transactions | what SQLEndTran reports as committed lasts, as rolled back does not; SQLDisconnect drops no work |
| `handles` | two threads, an environment, a connection, two statements, an explicit descriptor | sets of children are guarded; nothing is used after it was deleted (but for SQLEndTran of the environment); a disconnected connection is empty; no orphans |
| `parameters` | two parameters, one or two sets, five bindings, two texts, three servers that also lose an answer, cancels, two executions with two SQLPutData each, of data, NULL or SQL_NTS | the first dialogue sends what was given by length; no set runs twice unless its answer was lost; no failed set is hidden; a dialogue that was opened can be carried on |
| `getdata` | two rows of twenty-four columns, every C type, buffers of 4, 10 and 32 bytes, bound columns | pieces follow one another; SQL_SUCCESS means the whole text; integers are exact or refused; bound buffers show the row |
| `catalog` | 2 projects, 3 datasets, 5 tables, 2 routines, 47 calls of nine functions with names in either case, 2 data sources, 0 or 2 threads, one change in BigQuery, one failing request | listings are exact, but for four named departures, and in order; failures are reported; a column is described alike; every call ends |
| `v_prepare_lost` | SQLPrepare polled under a driver manager | finding: a failed preparation answered with SQL_SUCCESS |
| `v_script_again` | a script executed directly a second time, its results not walked to the end | finding: the rows are its last statement's, and SQLMoreResults goes on from the first execution |
| `v_stale_prepare` | one statement, prepared in an earlier transaction or in autocommit mode | finding: its changes survive a successful SQL_ROLLBACK |

### Bounds

* `StatementAsync`. Two tasks where tasks matter: one running and one being started,
  which is what ownership, restarts and blocking assignments need; a third would only
  wait for one of them (with symmetry, used for safety only). Two texts tell a stale
  one from the right one; two children are the least that SQLMoreResults can walk,
  and `MaxChildren` = 4 lets a script be executed twice. Two action constraints of
  `statement` leave out what is below: `ScriptsAlone` keeps scripts and other texts
  apart, and with `ScriptsReadToTheEnd` no text is executed directly while child jobs
  of an earlier script are left (a prepared one may be: it lists its own on top).
  `async` uses a view that leaves out `obs`: without a driver manager no step reads
  it, and neither property of the run does.
* `RowFetch`. Three pages have a first, a middle and a last; rowsets are shorter than,
  as long as and longer than a page. A batch is half converted wherever one is read
  (`BatchHalfConverted`), with what the application does next.
* `Transactions`. Two statements are what it takes to begin twice or to miss the
  other's session; a second session is the one that a lost answer or a retry leaves
  behind. One change suffices because a change is in one place at a time and the
  properties are about each one. The view tells apart only what a guard can:
  whether a statement can be executed, has a cursor, or neither.
* `HandleLocks`. Two threads and one handle of each kind race for every pair of
  functions; two statements tell the one that is freed from the one visited.
* `Parameters`. Two parameters are a first and a next one, two sets one that fails
  beside one that does not, two executions a dialogue and the one after it.
  `Column` = 2 is reached and passed by two SQLPutData of one or two bytes. The
  constraints leave each of these cases in and cut their products: the first
  parameter is bound in three of the five ways and the second in three
  (`BoundInSomeWays`, together all), bindings change and texts fail to be prepared
  only before the first execution (`TroubleFirst`), SQLCancel sets its flag in a dialogue or after an SQLExecDirect that failed
  (`CancelsWhenBusy`), a dialogue after the first has one SQLPutData
  (`OnePutOnTraces`), and the last execution is the end (`UntilLastResult`).
* `GetData`. Buffers are shorter than, as long as and longer than the values; two rows
  are what a stale cache or bound buffer needs. Among the numbers are 2^63 and 2^64 as
  FLOAT64, -2^63, 2^32-1, 255.5, -128 and -128.5, at the limits of the C types or next
  to them. The constraint
  `Followed` (explained in `GetDataMC`) stops after calls that leave nothing behind.
  `CastSaturates` = FALSE is what x86 makes of a cast out of range; the theorems hold
  with both.
* `Catalog`. One call from every start, with a change and a failure at any point of it.
  With two changes (410 thousand states), or two calls without changes and failures,
  TLC finds no invariant violated either. Names are patterns of one another (`d_` matches `d1`, and
  is the default dataset of one data source), identifiers come in either case, and a
  column pattern matches several columns. The application closes the cursor before
  the next call, as the driver manager demands.

Deadlock is checked except in `parameters`, where the bounds on executions and puts
end the behaviours, and in `catalog`, where the application may stop calling.

### Fairness

* `FairSpec` (`StatementAsync`) makes the calls in progress and the bodies go on: the
  operating system schedules the application's thread and the tasks, and requests to
  the server return. Nothing makes the application call a function.
* `FetchingSpec` (`RowFetch`) adds that the application keeps fetching: the property is
  about an application that does, and it may do anything else in between.
* `Catalog`: `WF(Driver)` and `WF(Server)`. The tasks of `std::async` run, and every
  HTTP request ends, since the client library bounds its retries.

### Disagreements between code and comments

Three are in the `v_` runs. Others came up while modelling. They follow from the same
models, and the properties of the passing runs are stated so that they hold in spite
of them: each leaves out, by name, what the code does otherwise.

Statements and tasks:

* A poll of SQLPrepare or SQLExecute that comes after the task wrote its last state
  launches the request again (`odbc_sql_requests.cc:966`); if every task is quick
  the application polls for ever. `PollNeverRestarts` is checked and proved for SQLExecDirect.
* A poll of SQLExecDirect may answer 24000 (a cursor is open: the task has just opened
  it) before its task has ended. SQLMoreResults is then free to launch a second task
  beside the first. `OneWorker` is checked and proved for SQLExecDirect alone.
* SQLExecute may run after a preparation that failed: the task writes
  `kStatementPrepared` either way (`:977`). SQLPrepare without tasks does so too when
  BEGIN TRANSACTION or the dry run has failed (`:991`).
* A failed BEGIN TRANSACTION, preparation or first fetch in an asynchronous
  SQLExecDirect leaves `kStatementStillExecuting` (`:461`, `:475`, `:559`).
* A poll of SQLPrepare that reads the state before its task ends, and whose handler reads
  it again after, answers SQL_SUCCESS whatever the task did (`:71`; run
  `v_prepare_lost`).
* A script executed directly while child jobs are left on the statement is not
  listed again (`:380`): the cursor shows its last statement's output, against
  `internal/odbc_sql_execute_utils.cc:305-307` (run `v_script_again`).
* An execution future that nobody collected answers the next SQLExecDirect: the second
  text gets SQL_SUCCESS and is never executed (`:1174`).
* SQLExecDirect writes the query text while a task of an earlier call may read it
  (`:1169`), a data race.
* After one asynchronous SQLMoreResults every later one answers SQL_SUCCESS
  without fetching (`:1391`).
* The child jobs of a script survive the execution of another text, and
  SQLMoreResults walks to them (`:1396`); so does the page token of the script's
  last statement (`internal/odbc_sql_execute_utils.cc:1227`).
* SQLMoreResults on a fresh statement makes it executable without a text (`:1399`).
* A poll after one that was too early calls `wait_for` on a future without shared
  state (`:76`).
* `WaitForJobCompletion` and `FetchNextResultSet` poll without a timeout and do not look
  at SQLCancel (`internal/odbc_sql_execute_utils.cc:1013`, `:1349`).

Results:

* Pages of a query follow the rows of a catalog function called after it: the page
  token is not cleared (`internal/odbc_stmt_handle.h:137`). SQLMoreResults and failed
  executions leave a read stream behind in the same way; `RowsInOrder` speaks of
  results opened with neither left on the statement (`seen.clean`).
* A value of a batch that cannot be converted fails the fetch after the batch has
  replaced some columns of the one at hand and the cursor was reset
  (`internal/odbc_sql_execute_utils.cc:751-754`, `:855-859`). The next fetch delivers
  these rows as good ones, or, when it happened inside a rowset, finds the cursor at -2
  and answers SQL_NO_DATA. `RowsInOrder` and `NoDataMeansAll` hold until then
  (`seen.whole`).
* `SQL_ATTR_MAX_ROWS` cuts each page, not the result
  (`internal/odbc_sql_fetch.cc:256`): `num_rows_fetched_yet` is never increased.
* A rowset cut short by the end of an HTAPI stream leaves the cursor at -2
  (`internal/odbc_sql_fetch.cc:231`), hence `CursorOnLastRow` is checked without HTAPI.
  SQLGetData after that, or before the first SQLFetch, indexes before the first row
  (`odbc_sql_results.cc:727`).
* An empty page inside a result is answered with SQL_NO_DATA
  (`internal/odbc_sql_fetch.cc:177`); the model assumes that the server sends none.
* A buffer of exactly the value's size gets 01004 and the same first piece for ever.
  Reading on after the last piece gives it again with SQL_SUCCESS, never SQL_NO_DATA.
* A STRING read as a C type without a length comes in pieces of the converted value:
  a long number as SQL_C_DOUBLE gives 01004 and seven of eight bytes.
* A STRING with characters of several bytes, read as SQL_C_WCHAR with room for the
  characters but not as many bytes, gives a cleared buffer and SQL_SUCCESS, against
  the comment in `odbc_sql_results.cc:798-799`; so does any text whose wide form is
  shorter than its bytes (`ClearedByMistake`).
* Limits are compared as doubles (`internal/data_translation.h:54-58`): a FLOAT64 of
  exactly 2^63 passes as SQL_C_SBIGINT, and 2^64 as SQL_C_UBIGINT, and is cast out of
  range.
* The rest is named in the comments of `WholeCharText`, `WholeWideText` and
  `IntegersExact`: what a STRUCT, GEOGRAPHY, NUMERIC, FLOAT64 or BOOL loses as text,
  and the fraction that NUMERIC loses as a 64-bit integer, or that a double loses.
* NUMERIC as SQL_C_TINYINT is read as unsigned, and loses its fraction without 01S07; a
  TIME loses its fraction of a second as SQL_C_WCHAR; a NUMERIC read as SQL_C_WCHAR
  into a buffer that is too small answers SQL_SUCCESS and leaves the buffer as it was.
* A bound column that is cut (01004) stops the row as an error does: later columns keep
  the values of the row before (`internal/odbc_sql_fetch.cc:142`).
* A refused SQLFetchScroll forgets the pieces of the column that is being read.

Transactions:

* Switching SQL_ATTR_AUTOCOMMIT on neither commits nor refuses while a transaction is
  open (`internal/odbc_conn_attr.cc:80`); later work stays in it until SQLEndTran.
* When the answer to COMMIT or ROLLBACK is lost, the flag stays set with no
  transaction behind it: later work is done outside of one, every later SQLEndTran
  fails, and SQLDisconnect is refused for good (`internal/odbc_transactions.cc:80`).
* SQLDisconnect keeps the session id (`odbc_connection.cc:513`): the next connection
  of the handle goes on in the old session.

Handles:

* SQLFreeHandle of an explicit descriptor looks for an association of the type
  `kApplication` (`odbc_lock.cc:175`), which is never there, and so takes the
  connection's mutex, not the statement's. Only the discipline of the driver manager
  keeps the descriptor from being freed during a call of the statement.
* SQLEndTran closes the cursors of all statements under the connection's mutex, or the
  environment's (`odbc_statement.cc:388`), while a statement's functions hold the
  statement's own. With the environment's alone the set of statements that it walks
  (`internal/odbc_transactions.cc:85-87`) may change under it and a statement be
  deleted: `FamiliesGuarded` and `NoUseAfterFree` leave out what such a call has reached.
* A comment of SQLAllocHandle says that a null handle uses the global mutex
  (`odbc_api.cc:138-139`); `AcquireHandleMutex` returns without one
  (`odbc_lock.cc:34`).
* SQLDriverConnectW and SQLBrowseConnectW can fail after they have connected, when they
  convert the string they return (`told` and `connected` differ then).

Parameters:

* No function resets the index of the dialogue. After a first dialogue, finished or
  cancelled, SQLParamData asks for nothing again, and the next execution sends what is
  left in the buffers, though SQLParamData is there "to supply parameter data at
  statement execution time" (`odbc_api.cc:1856-1857`). Hence
  `FirstDialogueSentAsGiven`, with `given.fresh`.
* SQLCancel before an execution or inside a dialogue makes the next SQLExecute or
  SQLExecDirect answer SQL_SUCCESS without executing (`:1074`, `:1197`); `SetsReported`
  tells that reply apart, as it does a failure of the results after the sets ran
  (`:383-388`, `:403-410`).
* A set whose answer was lost counts as failed; when another set needs data, it runs
  again once they are there (`given.lost` in `SetsRunOnce`).
* SQLPutData with SQL_NTS appends nothing and answers SQL_SUCCESS
  (`odbc_sql_requests.cc:1525`); a length of 0 stores four NUL bytes (`:1490`).
* SQLParamData looks only at the indicator of the first set (`:1576`): a parameter that
  is data-at-execution in a later set only is never asked for. It also asks for
  ordinary parameters with a length.
* SQLBindParameter with a value pointer of -1 sets `kNeedsParams`, even over an open
  cursor (`:734-741`); so does one whose type is refused.
* SQL_NEED_DATA of one set beside a set that was executed becomes 01S01; SQL_NO_DATA
  hides failed sets.

Catalog functions:

* SQLColumns uses the default dataset of the data source as a LIKE pattern
  (`odbc_driver_metadata.cc:775`); SQLTables escapes it, and says why (`:620-626`).
  `ExactListing` takes the name for exact and excepts what SQLColumns adds
  (`DefaultAsPattern`).
* Identifiers (SQL_ATTR_METADATA_ID) are compared without case by the driver
  (`internal/odbc_sql_tables.cc:346-348`), but BigQuery is asked in the case they are
  given in, so that a catalog or a schema in another case lists nothing
  (`InItsCase`).
* A column filter other than `%` gives the first match only, with ordinal 1
  (`internal/odbc_sql_columns.cc:372`; `LaterMatchesLost`).
* SQLColumns of nothing that exists ends in HY000 (`odbc_driver_metadata.cc:839-845`),
  against the comment "A non-existent table yields an empty result set"
  (`internal/odbc_sql_columns.cc:430-431`).
* The records of the IRD are never cleared: SQLNumResultCols after SQLColumns and then
  SQLTables is 18. Procedures, procedure columns and type info do not fill it at all.
* An additional project whose validation fails otherwise than with 403 or 404 is
  dropped without a word; additional projects ignore the catalog filter.
* SQLProcedures returns the first routine only. A routine that goes between the list
  and its reading leaves an empty row. A routine without parameters would throw in
  `std::stoi` and is left out of the model (`RoutinesAssumption`).
* A REQUIRED column is nullable in the IRD and not in SQLColumns; FLOAT64 has 53 bits in
  one and 15 digits in the other; the radix of STRING is 10 in one and 2 in another;
  declared precisions and lengths are missing in the IRD.
* With no threads at all SQLColumns answers HY000 where `ExecuteParallelTasks` raises
  the number to one.

## 4. What is proved

TLC checks the instances above; the theorems hold for every value of the constants
that satisfies the modules' assumptions. Each proof module has one inductive
invariant `IInv` (`CatalogProofs` has three, each relative to the one before), one
lemma per action or group of actions, and short theorems that follow from it.

**`StatementAsyncProofs`**, for every set of queries, tasks and functions:

* `TypeCorrect`: `Spec => []TypeOK`;
* `NoOrphan`: `Spec => []NoOrphanWorker`, every task has exactly one owner;
* `Refinement`: `Spec => ImplementsWorkerLifetime`, the initial states map to initial
  states of `WorkerLifetime` and every step to a step or a stutter.

`IInv == TypeOK /\ NoOrphanWorker /\ CallShape /\ ChildToRead`. Ownership alone is
not inductive: that a call which waits holds a task that exists, that one that
stores a future holds a task and not an absent one, and that a call that runs a body
itself owns the caller's frame are facts about `call` (`CallShape`); that
`ActuallyGetMoreResults` finds a child on the stack (`ChildToRead`) is needed for the
types. The refinement uses the invariant in `DestroyFutures`, the step that frees
the memory: all futures are done, every task has an owner, so no task runs.

**`RowFetchProofs`**, for all sources, page sizes, rowset sizes and limits:

* `TypeCorrect`, `InOrder` (`RowsInOrder`), `NoDataAtTheEnd` (`NoDataMeansAll`),
  `CursorAtLastRow` (`CursorOnLastRow`).

`NoDataMeansAll` speaks of the moment SQL_NO_DATA is answered; what makes it true is
where everything still to come is. `Covered`: of an open result, either nothing
follows the last row at hand, or the page token or the read stream points at exactly
the page that follows it, or the row limit has cut the page. `OneResult`: if no
position of another result was left on the statement, rows, cursor, token and
stream belong to the result the application reads, and the cursor has passed
exactly the rows it has seen. `Calling`: what a fetch has done at each place of
`WriteRowset`. `StreamOver`: the cursor is before -1 only when, inside a rowset, a batch
was left half converted or the stream ended; in the second case all rows are seen.

**`TransactionsProofs`**, for every set of statements, sessions, changes and data
sources, assuming `Tidy` (`ReExecute` and `ParallelFirst` are both `FALSE`):

* `TypesCorrect`, `CommitCorrect` (`CommitKeeps`), `RollbackCorrect`
  (`RollbackUndoes`), `DisconnectCorrect` (`DisconnectSettled`).

`CommitKeeps` says nothing of the moment before SQLEndTran, so it is far from
inductive. The strengthening says where the changes are meanwhile. `Flag`: work
that is not ended yet implies the flag, and as long as the transaction of the
connection's session is open, all of it is in that transaction and none of it is
durable. `WorkOnce`: a change is in one session at most, so that ending one
transaction settles nothing of another. `CallInv`: what a call knows at each
phase, in particular that a query in manual-commit mode is only sent with the
flag set, that a request goes to the connection's session if it has one, and that
a BEGIN whose answer has come did begin a transaction, unless its session has
ended. `FirstSession`: while the connection has no session at most one call is in
progress, which keeps a request for a new session from racing another one.
`Closed`: a closed connection has no calls, no flag and no fresh statement.

**`HandleLocksProofs`**, for every set of threads and every forest of handles:

* `TypeCorrect`, `FamiliesAreGuarded` (`FamiliesGuarded`), `NothingUsedAfterFree`
  (`NoUseAfterFree`), `DisconnectedStaysEmpty` (`DisconnectedIsEmpty`), `TreeStaysWhole`
  (`NoOrphans`).

The argument has two sides. Of the locks: who is inside holds its mutex (`Locked`),
so what a function has collected of a set of children is still what it would
collect (`Gathered`); what an SQLEndTran of an environment has collected of the
statements below is excepted, in the invariant as in the properties. Of the
discipline: what a call in progress needs is alive
(`NeededAlive`), and no two calls are such that one is going to delete what the
other needs (`NoneGoing`); it has to be carried from the moment a call begins, before
it has any mutex. `SameConnection` (a statement and its descriptors have one parent)
makes the mutex that SQLFreeHandle takes the one that guards the statements it
goes on to, `FreedAlone` and `Tree` keep the forest whole.

**`ParametersProofs`**, for all numbers of parameters and sets, all texts, bindings
and answers of the server:

* `TypeCorrect`, `EachSetOnce` (`SetsRunOnce`), `AnswersTellTheSets` (`SetsReported`),
  `DialogueGoesOn` (`DialogueContinues`);
* `FirstDialogueSent` (`FirstDialogueSentAsGiven`).

`NothingRanYet` (while data is needed no set was executed) gives `SetsRunOnce` and,
with `Positioned` and `CanGoOn`, `DialogueContinues`. The first dialogue needs a second
invariant, `FirstInv`, on top: in the first dialogue the buffer of a parameter that was
given by its length alone holds what was given, and every parameter up to the index
that asks was asked for (`Buffered`), SQLPutData has a bound record (`AskedBound`), and a
record that is not there has no data (`Clean`). At the end of the loop the next parameter
to ask for is none, so everything an execution takes from the buffer of a parameter
that asks was asked for.

**`StatementCallsProofs`** builds on the invariant of `StatementAsyncProofs`. Its
theorems hold for the modes and functions of the runs that check them, and say so as
hypotheses on the constants; outside of them the code breaks the properties, as
section 3 tells.

* `CursorShowsText` (`RowsOfLastText`) and `CursorOnTopChild` (`OpenCursorIsTopChild`) assume
  `OnlySynchronous`: the asynchronous attribute is never switched on. They are theorems of
  `Spec /\ [][ScriptsAlone]_vars`: a script and another text do not follow one another
  on the statement, as the children of the one outlive it. The second also has
  `[][ScriptsReadToTheEnd]_vars`, and the run `v_script_again` is the counterexample
  without it.
* `OneBody` (`OneWorker`) and `PollsOnly` (`PollNeverRestarts`) assume `OnlyExecDirect`: of
  the functions that start a task the application uses SQLExecDirect. The second also
  assumes a driver manager. The attribute may be switched at any time.

`Synchronous`: no future is ever engaged and no call waits, so the only body is the
caller's. `TextInv` has three parts: what the body has read is still what the
statement holds (`BodyText`); job and children are of the text (`JobOfText`); an open
cursor shows its rows, unless the body is just between publishing the state and
storing them (`CursorOfText`). `TopInv` is for scripts: what is executed directly
finds no children and lists its own (`ListedAfresh`), and an open cursor is on the child
on top (`CursorOnTop`). For the other two theorems `DirectShape` says that only one
of the four futures is ever engaged and not with a task when a body starts, and
`DirectPending` that a function which the driver manager lets be called again has
a task to collect.

**`GetDataProofs`**, for every result of well-formed values, every buffer and C type, and
SQLWCHAR of two and of four bytes:

* `InOrder` (`PiecesInOrder`), `CharTextWhole` (`WholeCharText`), `WideTextWhole`
  (`WholeWideText`), `IntegersAreExact` (`IntegersExact`), `BoundRowShown` (`BoundRow`).

A whole text is all of its bytes, or of its characters; nothing is said of a
terminator, which SQL_C_CHAR of a BOOL in a buffer of its size and the later pieces of
a value do not get.

Lemmas about each conversion say which answers promise a complete text or an exact
integer. `IInv` is about the cache: `CacheOfRow`, the bytes kept are those of a
chunked value of the current row, converted to the type they were asked for in;
`Position`, what the application has of the column is what the cache has handed out.
The loop of SQLFetch over the bound columns stops at the first that cannot be
converted; `LeastNat` finds it, an instance of the least-element principle of
`WellFoundedInduction`, which takes no operator as a parameter. `WellFormed` is what
is assumed of a value: that its sizes, digits and bits fit one another. Writing these
proofs showed two arms of a CASE in `DataTranslation` that both applied to one value,
which TLC decides by their order and TLA+ does not; they are disjoint now.

**`CatalogProofs`**, for every content of BigQuery, every pattern, data source, call,
number of threads, and any number of changes and failing requests:

* `TypeCorrect` (`TypeOK`), `ListsExactly` (`ExactListing`), `ListsInOrder`
  (`ColumnsInOrder`), `ReportsFailures` (`FailuresReported`), `DescribesAlike`
  (`DescribedAlike`).

`Shape` is the type invariant made inductive: the inputs of a round, the ones that
run and what came back fit one another, and the kinds of the inputs are those of the
stage. `CallInv` says what a round of SQLTables or SQLColumns is about while
BigQuery changes under it. An object in `Lasting` is asked for and has been visible
since the call began. `InputsInv`: the inputs are distinct, each may lead to
something that was asked for, and each object of `Lasting` is reached by one of
them, unless its project was in doubt. `AnswersInv`: what an input gave holds each
object of `Lasting` that it reaches, once, and nothing that was never visible or
never asked for. `ColumnOrderInv`: SQLColumns asks in BigQuery's order. `FailInv`: a
request has failed exactly if the round has an error or a thread is about to report
one (for SQLColumns an error may also mean that its project is gone). From one round
to the next the answers become the inputs (`AfterProjects`, `AfterValidation`,
`AfterDatasets` and their like), and the last round's answers are the rows:
`EndInv` is inductive relative to `CallInv`. It says of the rows what was sought, in the
terms in which the driver works (`ListsSought`, `Reported`): names looked up as the
driver does, rows as `ProcessTableResults` makes them. That this is what the arguments
ask for by the definitions of the properties, but for the departures they name, is
a matter of one state and shown at the end (`ArgumentsRead` and what follows it). Rounds are made
with `RemoveAt`, `FlattenSeq` and `Selected`, so the module begins with what these
give for any sequence, by way of the least element of a set of numbers as in
`GetDataProofs`. `DescribedAlike` compares four tables of `ColumnTypes` type by
type.

The assumptions of `Catalog` are what the code and BigQuery guarantee and TLC
evaluates on the instance. `CatalogAssumption`: the limits are numbers, and the
project lists of a data source name none twice, as the code drops repeated ones.
`ListsAssumption`: BigQuery lists what exists, once. `FieldsAssumption`: columns
have one of the types of the REST interface, and different names. `CallsAssumption`:
a call is one of the nine functions with its arguments. `PatternsAssumption`: a
pattern that spells out a name matches that name alone, the escaped default dataset
spells out that dataset, and the current catalog is a name and not a pattern.
`NamesAssumption`: no object is called like the absent argument, and the default
dataset, read as a pattern, matches itself. `RoutinesAssumption`: every routine has
parameters.

Only model-checked is liveness (`CallsReturn`, `FetchingEnds`, `CallEnds`), which is beyond
the prover.

## 5. Not modelled

* Diagnostics (lists of records per handle), query text (string building without
  state), tracing, the Windows dialogs and the registry.
* Requests, JSON, credentials and connection strings: thin layers over the client
  library. The loops over lists and retries are in `Catalog` and `Transactions`.
* Setting and copying descriptor fields; SQLDescribeCol and SQLColAttribute beyond
  the records that `Catalog` gives; SQLGetInfo and SQLGetFunctions (constant tables);
  connection and statement attributes other than those the modules have as state.
* The spelling of numbers, dates and intervals as text, and the texts that
  `data_translation_inv.cc` gives parameters.
* A data race's torn values: a task and a call that touch one string at once read a
  whole value in the model.
* SQLEndTran on an environment of several connections; a query executed a second
  time when its destination table cannot be read
  (`internal/odbc_sql_execute_utils.cc:1245`), whose request has no session.
* A buffer shorter than one character, and the value spread over more pieces than the
  three sizes of buffers give; bindings without an indicator.
* Writes past the end of a buffer: the terminator of a BOOL
  (`internal/data_translation.cc:1736-1738`) and the copy of an INTERVAL (`:1576-1584`).
* Numbers that a double rounds up to the next integer, infinities and NaN; FLT_MAX
  counts as 2^128.
* What a process that ends leaves behind: nothing is kept but what the server has
  (`Transactions` models the loss of a session).

`PROJECT.json` lists each component with its status and reason.
