# A TLA+ model of the SA-MP MySQL plugin

The plugin lets Pawn scripts of a SA-MP server query a MySQL/MariaDB database.
The server is single-threaded; the plugin adds one worker thread per threaded
connection and one for the log, lock-free queues between them, raw pointers that
cross threads, and a connector that replaces lost sessions silently. These
modules model that part of `src/src`: who may touch what when, what is lost when
a queue is full, a script is unloaded or a handle is closed, and what a script
can conclude from the callback it gets; and two algorithms a wrong answer of which
nothing would notice: the SQL file scanner, and the choice of a handle and its id.

`PROJECT.json` ties every definition to the lines it models, every run to its
properties, every property to a faulty variant of the code that breaks it, and
every known hazard to the properties that cover it.

## 1. The system

### Components, their state and their operations

| Component (files) | State | Operations | Modules |
|---|---|---|---|
| Handle table and options (`CMySQLHandle::Create`, `mysql_connect*`, `mysql_option`, `LoadConnectionFile`) | `SQLHandle` (id -> handle), `MySQLOptions`, the connection objects that exist | the three natives that connect, the search for a handle of the same server, the choice of an id, `mysql_close`, `ClearAll` | `Registry` |
| Query queues of a handle (`CMySQLHandle`) | per handle: a main, a thread and `pool_size` pool connections, `m_QueryCounter`, `m_CurrentConPoolPos` | `Create`, `Destroy`, `ClearAll`, `QueueQuery` on the thread connection or, round robin, on the pool | `QueryPipeline` |
| Worker of a connection (`CMySQLConnection::ProcessQueries`) | `m_QueryQueue` (SPSC, 16876), `m_QueryThreadRunning`, the popped query | pop, execute, post to the callback queue, exit; destructor: stop, join, drain | `QueryPipeline` |
| Session of a connection (`Connect`, `Disconnect`, `SetCharset`) | `m_Connection` with its character set, `m_IsConnected`, `m_FuncQueue` under `m_FuncQueueMtx`, the functions put aside | post a function, run the posted functions, defer a `Disconnect`, reconnect after error 2006 | `Connection` |
| Execution (`CMySQLQuery`) | where the query is among its commands, the result, the callback name | plain, prepared and transactional execution, `StoreResult`, error redirection to `OnQueryError` | `Execution` |
| Callback dispatcher (`CCallback`) | `m_CallbackQueue` (MPMC, 32648), `m_AmxList` (AMX -> token) | `QueueQuery`, `ProcessCallbacks`, `ClearByHandle`, AMX load and unload | `QueryPipeline` |
| Result cache (`CMySQLHandle`, `cache_*` natives) | `ActiveHandle`, per handle `m_ActiveResult`, `m_ActiveResultID`, `m_SavedResults` | save, delete, set active, reset after a callback, destroy | `ResultCache` |
| Templates (`mysql_stmt_*`, `mysql_transaction_*`) | `PreparedStatements`, `Transactions`: id -> (connection id, text, parameters or queries), `NextPreparedStatementID`, `NextTransactionID` | prepare, bind, execute, close; begin, add, commit, rollback | `Templates` |
| ORM (`COrm`) | `OrmHandle`; per object: owner, handle, bound variables, key, `m_Lifetime`, `m_ErrorID` | create, destroy, bind, unbind, set key; select, insert, update, delete, save; apply, cancel | `Orm` |
| ORM values (`COrm`, `CMySQLQuery::StoreResult` of an ORM query) | the cells of an object, the values its queries carry, the rows of the table | select, insert, update, save, delete; apply a result | `OrmRow` |
| SQL file scanner (`SqlInput::ParseQueries`) | position, quote and comment state, the statement so far | split a file into statements | `SqlInput`, `SqlInputReference` |
| Log (`CLog`) | `m_LogType`, `m_LogFileName`, `m_LogQueue`, the log thread and its stop flag, the two files | log a line or a row, change the form, write, destroy | `Log` |
| Result in memory (`StoreResult`, `CMySQLResult`) | one block, written once | copy the rows; read a text by number or name | not modelled |
| Formatting and escaping | none | | not modelled |
| MariaDB connector, SDK, sample scripts | | | not modelled |

### How they interact

A native of the main thread builds a `CMySQLQuery` (a raw pointer from then on),
pushes it to a connection's queue and increments the handle's counter. The
worker of the connection pops it, executes it, decrements the counter through
`query->Handle` and pushes it to the one callback queue. `ProcessTick` pops it
there, checks that the script that submitted it is still registered, makes its
result the active one of its handle and enters the script. Inside a callback,
Pawn code may call every native again: submit queries, save results, close this
or another handle, unload itself. `mysql_close` stops, joins and drains the
workers one by one, frees the handle and then takes that handle's queries out of
the callback queue, by popping everything and pushing the rest back while the
workers of other handles push too. `Unload` closes every handle and then
destroys the callback queue.

### What is hard

* The counter is incremented after the push: the worker may be done first.
* `query->Handle` is dereferenced by a worker after the query ran and by the
  dispatcher before a callback; `mysql_close` frees it in between. Addresses are
  reused, of handles and of scripts.
* Full queues at every hand-over, each with its own owner of the query.
* `Disconnect` refuses while queries wait and is put back, behind whatever was
  posted meanwhile; it runs in the worker in two different roles.
* The connector replaces a lost session by itself, except inside a transaction,
  as far as it knows.
* Four operations reset the active result, each clearing a different part of it.
* An ORM query comes back with a raw pointer to an object that may have been
  destroyed, bound anew, or replaced by another at the same address.
* A template names its connection by an id that `mysql_connect` uses again, and is
  itself named by a number that wraps.
* `orm_save` chooses between INSERT and UPDATE by a cell that the result of the
  last INSERT fills in, ticks later; the script may change every cell meanwhile.
* `mysql_log` changes the form and the file name of the log without a lock while
  workers log, and `Unload` must stop every one of them before the log goes.
* The character set is set on a session; a new session does not have it unless
  the connector, and not the plugin, made it.
* Everything that makes two handles one (same server, port, TLS options) or two
  (duplicates allowed), with a search for a free id in an unordered map.
* The states of the scanner (three quotes, line, block and executable comments,
  escapes, doubled quotes) meet in every combination.

The full list, with lines, is `hazards` in `PROJECT.json`.

## 2. The modules

### QueryPipeline

State: per handle address `state`, `life` (the object at the address: the pair
is what a pointer plus its weak token denotes), `counter`, `poolPos`; per worker
`running`, `wpc`, `queue`, `hand`; `callbacks`; per script address `loaded` and
`token`; and where the main thread is (`mpc`, `cur`, `req`, `closing`, `lane`,
`tmp`, `unloading`). Every hand-over between threads is a step of its own: push
and count are two steps, a worker pops, executes and posts in three, the
destructor stops and joins each lane in two, `ClearByHandle` pops and restores
one query at a time.

| Code | Actions |
|---|---|
| `AmxLoad`, `AmxUnload` | `AmxLoad`, `AmxUnload` |
| `CMySQLHandle::Create` | `Connect` |
| `mysql_tquery`, `mysql_pquery`, `mysql_stmt_execute`, `mysql_transaction_commit`, `mysql_tquery_file`; `CMySQLHandle::QueueQuery` | `Submit`, then `PushQuery` / `RejectQuery`, `CountQuery` |
| `ProcessQueries` | `WorkerPop`, `WorkerExecute`, `WorkerPost`, `WorkerExit` |
| `ProcessCallbacks` | `StartTick`, `DropCallback`, `RunCallback`, `EndCallback`, `EndTick` |
| `mysql_close`, `~CMySQLHandle`, `~CMySQLConnection`, `ClearByHandle` | `CloseHandle`, `StopWorker`, `JoinWorker`, `ClearPop`, `ClearPopped`, `Restore`, `Closed` |
| `Unload` | `PluginUnload`, `UnloadNext`, `UnloadLast` |

Abstractions. The test of `m_QueryThreadRunning` and the pop are one step (the
flag may change right after the test, which is the same as popping first).
Whether a lane is connected is in `Connection`; here a worker that is not
connected takes no query, which is a worker that does not pop: no fairness makes it. A callback owned
by a script that is not registered carries token 0 and is always expired. Which
names are publics of which script is the constant `Publics`. A handle is named
by its address; the id table adds nothing but a lookup. ORM queries are left out.

`QueryPipelineProperties` states what the pipeline promises beyond memory
safety. `QueryLifecycle` is its abstract specification: a query is accepted,
executed, called back and gone, or cancelled on the way, with no queues, threads
or handles; `ImplementsLifecycle` is the refinement, under the mapping `StatusOf`.
`CallbackOrder` excepts the queries of a handle next to which another has been
closed (`Undisturbed`), since `ClearByHandle` puts back behind what workers push.

### Registry

`SQLHandle`, the duplicate option and the number of `CMySQLConnection` objects
that exist. A handle is what identifies it and what does not: server (host, user,
password and database in one), port, TLS, automatic reconnect and pool size.
`Connect`, `ConnectSSL` and `ConnectFile` are the three natives down to `Create`,
with the conversion of a cell to `size_t` (`AsSize`), the limits, and an option
file as a sequence of keys and values of which the last one counts. `NewIds` is
the id search: the code walks an unordered map and stops at the first id whose
successor is free, so the id may be any such. `Close` and `ClearAll` give back
the connections of the handles they remove. The threads behind a handle are in
`QueryPipeline` and `Connection`; a handle is an address there and an id here.

### Connection

One threaded connection: the functions posted to it, the worker that runs them
with the mutex held, the deferred `Disconnect`, the loop over the queries and
the reconnect inside it, against a server that stops, starts and closes sessions
at any moment. `charset` is the character set of the session, `asked` the one
`mysql_set_charset` asked for last; `forgotten` says that the one could not become
the other, or that the plugin has closed a session that had it. `ConnectDuplicate`
is `mysql_connect` for a handle that is already there: it connects again, and the
worker finds that it is connected. The queries are a number here. `mysql_init` and `mysql_ssl_set`
are taken not to fail; the test of the queue and the close inside `Disconnect`
are one step (only a native can push in between, and a query that arrives right
after the test waits for the next session in both cases).

### Execution

One connection's worker inside `CMySQLQuery::Execute`: one step per command sent
to the server. `Answered`, `NoAnswer`, `Gone` and `Refused` are what can become of
a command: it is answered; the session ends before or after the server has done
it; the session was gone before it was sent; the server refuses it, possibly
rolling the transaction back (deadlock). `MayReconnect` is the connector's silent
reconnect, refused only while the last status it read says that a transaction is
open. The database is the set of durable changes plus the open transaction.
Every query has a callback name, every statement makes one change; statements
that begin, commit or undo a transaction explicitly are left out, those that
commit implicitly are in.

### ResultCache

The heap (the addresses of the results allocated and not yet deleted; an address
is used again once deleted), the active result, its id and the table of saved
ones of each handle, `ActiveHandle`, and the callback in progress with its weak
pointer to the handle. Results of queries still queued are not in the heap: the
query owns them. `FreshIds` is the id search of `SaveActiveResult`: the code
walks a hash map, so any id the walk can end on is possible. `SaveAs` is
`unordered_map::insert`, which keeps an entry that is there.

### Templates

The two tables of the template natives, the id registry of the handles and the
query queue of each thread connection. `statementOf` and `transactionOf` record
what the natives told the scripts: for each id, the object it is a live template
of. `mysql_close` makes scripts forget by object what the code clears by id.
`Inserted` is `map::insert`: after the counter has wrapped, a template whose id is
still in use is dropped, the id is returned all the same, and the script that gets
it shares the older template. Calls refused because of a wrong argument change
nothing and are no actions. Scripts do not own templates: unloading one leaves its
templates until their connection is closed, so `AmxUnload` is not here.

### Orm

The ORM objects, the columns and cells they bind, and the queries in flight for
them. `m_Lifetime` and the weak pointers to it are one boolean per query,
`cancelled`: every operation that replaces or destroys the token sets it in the
queries that watch it (`Cancel`), and so does the unloading of the script that
sent the query. `bound` is a history variable with the bindings a query was
generated from. Queries come back in any order, one connection's too, which the
code does not do; nothing here depends on the order. A variable is a column and
the script whose memory it is bound to. The values are in `OrmRow`.

### OrmRow

One object with an integer key, the queries in flight with the values they were
generated from, and the table. A script works on records: what the variables hold
is the number of the record they are about. `Execute` and `Fail` are the worker's
side, with a query that fails or has run and lost its answer; `ApplySelectResult`,
`ApplyInsertResult` and `DropRow` are `ProcessCallbacks`. (Names that `Orm` uses too
have a `Row` here, so that `OrmProofs` can extend both.) Here queries do come back in
the order they were sent, which `QueryPipelineProperties` states (`ExecutionOrder`,
`CallbackOrder`). `trouble` records what a careful script avoids or can see: it
touched the object while a SELECT or an INSERT was in flight, copied a row with
`orm_insert`, got an error, or the row number did not fit the cell.

### SqlInput and SqlInputReference

`SqlInput` is the scanner, one action per branch of the loop and one step per
character taken (or two). The three booleans and the quote of the code are one
variable `mode`, because at most one is set. `SqlInputReference` says what it is
to compute without scanning: a file is a sequence of lexemes, `sql` is what they
spell (`Texts`), and `Statements` is what stands between the semicolons once
comments have become blanks (`Said`), both functions defined by recursion over the
lexemes. A lexeme is any text that its kind allows (`Spells`): a string is one that
can be divided into escaped pairs, doubled quotes and other characters, a comment
one that contains no end of a comment. `WellFormed` keeps apart lexemes whose
neighbours would spell something else. `Character` is the set of characters of a
file; the word DELIMITER is one of them, since only whole words of its length are
compared. `IsCommand` is what makes a statement a client command, independently of
the code's test `IsDirective`, which misses one case (see Findings).

### Log

Both forms of the log, the threads that log, `mysql_log`, the log thread and the
destructor. In text form the thread that logs writes the line itself; in HTML form
it pushes a row, and so does the end of a callback. `SetType`, `Rename` and `Start`
are the three assignments of `SetLogType`, each a step, because workers read
between them. `page` is the HTML file in order, `text` the set of lines in the text
file; a log thread that opens the text file (the name changed back before it
opened) empties it and writes over it. `Join` is `ClearAll` in `Unload`, here only
the fact that a worker logs no more.

## 3. What is checked

`TypeOK` is part of the inductive invariants and proved, so no run checks it, except
`registry`, where the types (`TableTypeOK`) are the limits on port and pool.

| Run | Instance | What it shows |
|---|---|---|
| `one_handle` | 1 handle, thread and 1 pool connection, queues of 2, 3 queries, batches of 2 | `CounterExact`, `ExecutionOrder`; the pipeline implements `QueryLifecycle`; `QueryLeaves`, `CloseReturns`, `UnloadEnds` |
| `two_handles` | 2 addresses with 2 lives, queues of 2, 3 queries, batches of 2, a script loaded twice and without `OnQueryError` | `NoDanglingHandle`, `NoOrphanWorker`, `OneHolder`, `CallbackOrder`, `CallbackValid`, `NoCallbackLost`, with `ClearByHandle` against the other handle's worker |
| `result_cache` | 2 handles, 4 results, 3 ids | `CacheReadable`, `SoleOwner`, `NothingLeaked`, `SavedIdsStable` |
| `connection` | queue of 2, 3 natives that post, 2 character sets | `ObjectThere`, `NoSessionLeaked`, `ReconnectRestores`, `CharsetKept`, `PostReturns` |
| `execution` | 3 queries of any kind, transactions of 2 statements | `AllOrNothing`, `SuccessIsDurable`, `ErrorIsTruthful`, `SessionClean`, `TransactionFailureTold` |
| `failure_told` | 2 queries | the finding below |
| `templates` | 2 connection ids, 2 objects, 2 ids per table, parameters 0 and 1, 2 queries a transaction, queues of 1 | `AsTold`, `SentToMaker` |
| `orm` | 1 object address, 2 handles, 2 scripts, 2 queries in flight, columns `id`, `name` and a float | `FitsWhenApplied`, `RefersToLiving` |
| `orm_row` | 2 records, 3 rows, 2 queries in flight, cells up to 2 | `OneRowPerRecord` |
| `registry` | 2 servers, 3 ids, `size_t` of 8 values, ports up to 2, pools up to 1, option files of up to 2 lines | `TableTypeOK`, `OneHandlePerServer`, `EveryConnectionOwned` |
| `log` | a worker and the main thread, a queue of 2, 2 messages each, 3 changes of form | `DestroyedLast`, `AcceptedIsKept`, `RowsInOrder`, `TextKept`, `UnloadReturns` |
| `sql_input` | every file of up to 3 lexemes out of 49 | `SplitAsWritten` |

Why the bounds are enough to see the interesting cases: queues of two fill up
both at submission and at posting while a batch of two is in progress; with a
callback queue of two and three queries, `ClearByHandle` of one handle finds the
queue filled again by the other handle's worker, so a query put back is lost (the
exception `PushFails` of `NoCallbackLost`; without it the run fails); two lives
and two registrations make an address be reused while a query of its former
owner is in flight; a pool of one exercises the wrap of the iterator, a pool of
zero the rejection. `CounterMod` is 8 (4 in `two_handles`) instead of 2^32: the transient
wrap below zero happens in the runs. `CounterAssumption` says that the counter can
tell all the queries a handle can hold from none: the code has at most 64 pool
connections and the one of `mysql_tquery`, a queue of 16876 for each, and 32 bits. Three natives are two `mysql_reconnect` and a
`mysql_set_charset` in any order, enough for a deferred function to meet newer
ones. A transaction of two statements has a first, a last and a between; three
queries put two of them around a transaction. Four results on two handles let
each hold a saved and an unsaved one. An `unsigned int` of three values makes the
third template take an id that may still be in use, and the skip of 0; a queue of
one is full at every second submission. One address for ORM objects is enough to
use it again for another handle and owner while two queries watch it; objects share
nothing but the handle and the script, and there are two of each. Three rows for
two records leave room for a second row of one of them, the third row has a number
that does not fit a cell, and two queries in flight are an INSERT and what a hasty
script sends behind it. In `registry` every number has a value on both sides of
its limit, -1 among them, and three ids with closings in any order make holes and
searches that start at different ids. Three changes of form are the least that
start the log thread, go back to text before it opens its file and return. Three
lexemes are one between two others: what it contains cannot be seen from outside,
and nothing in the scanner looks farther than three characters or carries anything
but the mode and the statement across lexemes. Deadlock is
checked in every run: after `Unload` or deletion the specifications have an
explicit idle step.

Handles are symmetric in `two_handles`, handles and results in
`result_cache`, all addresses in `orm`, servers in `registry`; the runs with
liveness properties use no symmetry. `templates`, `log`, `sql_input`, `orm_row`
and the runs of one connection use none either.

### Fairness

`QueryPipeline`: weak fairness of what a worker does with a query it has taken (the
thread is scheduled and the database answers or fails) and of its exit once it is
told to stop. There is no fairness of `WorkerPop`: a worker takes queries only
while it is connected, and a connection that failed or was closed stays so until
a native connects it again (`mysql_reconnect`, or `mysql_connect` for the same server).
So `QueryLeaves` says that a query which stays in the plugin for
ever waits, from some time on, in the queue of a worker that runs, is not told to stop
and takes nothing; nowhere else is it held back, and closing the handle always frees
it. Weak fairness also of a native already entered and of the destructor's
steps, and of a tick that has begun. Strong fairness of `StartTick` and
`EndCallback`: the server calls `ProcessTick` in every frame, and a callback
returns, although Pawn code may call natives in between any number of times.
Nothing is assumed of scripts: no fairness on natives. The runs bound the number
of queries, so a tick ends; in the code a tick lasts as long as callbacks arrive.

`Connection`: weak fairness of the worker and of the destructor, strong fairness
of `Post`: the worker sleeps 10 ms in each iteration without the mutex, so a main
thread waiting for it gets it. No fairness of the server, so nothing depends on a
connection attempt succeeding.

`Log`: weak fairness of the log thread, of a thread in the middle of a log call and
of the destructor's steps once `Unload` has begun; strong fairness of `Join(w)`: a
worker logs a bounded number of times for the query in its hand and then sees its
stop flag, so the join is possible again and again while it lasts. No fairness of
`mysql_log` or of logging.

### Findings

`failure_told`. The project's README says of the threaded form of file queries
that any failure calls `OnQueryError`. A plain query reads its further result
sets with `while (mysql_next_result(...) == 0)` and then succeeds, so an error
there is not seen, and when `StoreResult` fails it clears the callback name, so
no callback at all is called. `ExecuteTransaction` looks at both.

Behaviour the model made visible, stated in the properties as what the code does: `mysql_reconnect`
with queries waiting leaves the connection closed (the deferred `Disconnect` runs
after the `Connect`), which is why `ReconnectRestores` excepts it;
`ClearByHandle` may lose and reorder callbacks of other handles (`PushFails`, and
`Undisturbed` in `CallbackOrder`); `mysql_query` with a cache inside
a callback leaks the callback's result (the exception in `NothingLeaked`);
`mysql_reconnect` and the worker's own reconnect open a session without the
character set a script has chosen, while the connector's reconnect keeps it
(`forgotten` in `CharsetKept`); going back to text before the log thread has opened
its file makes it empty the text log (`reopened` in `TextKept`); a script that
touches an object before the result of its INSERT is there can make two rows of a
record, or write one over another's (`trouble` in `OneRowPerRecord`);
`ParseQueries` puts the semicolon back behind the trimmed statement before it looks
for white space behind the word DELIMITER, so `DELIMITER ;` has become `DELIMITER;`
and is sent, although the comment at `SqlInput.h:35` says that directives are
rejected and the project's `README.md:126` that they are not supported.
`SplitAsWritten` counts it as a directive (`IsCommand`) and leaves this one case open
(`OnlySemicolon`): it demands neither that it is sent nor that it is refused.

## 4. What is proved

TLAPS checks these for every value of the constants that satisfies the named
assumptions in the modules (`ConstantsAssumption`, `NoneAssumption` and so on:
capacities and bounds are naturals, the sets of handles and scripts are finite
where needed, `None` is not a value, a connection file has finitely many lines).

* `QueryPipelineProofs`: `TypeOK`, `NoDanglingHandle`, `NoOrphanWorker`,
  `CallbackValid`. `NoDanglingHandle` speaks of the moments a pointer is used, so
  it is not inductive; `IInv` adds where every query that may ever be used lives:
  queries in a lane's queue or a worker's hand belong to the lane's own handle in
  its present life, a freed handle has idle lanes, only between the destruction of
  a handle and `ClearByHandle` may the callback queue hold its queries, and the
  main thread cannot dispatch then. The proof has one lemma per action.
* In the same module, over the whole path of a query:
  * `OneHolder`, `ExecutionOrder`, `CallbackOrder`, from `OInv`. It adds to `IInv`
    what the counters and positions of the main thread say (a worker between two
    queries has none in its hand, a callback is in progress only inside a tick, the
    queries of a submission still fit `MaxQueries`, an address that was used has had
    a life) and `Ordered`: every id is one that was submitted; the queue of a lane is
    sorted and what the lane has executed is older; queries that have been executed
    are different ones; and `CallbackOrder` itself.
  * `CounterExact`. What holds at every step is `Counting`: the counter of an open
    handle is the number of its unprocessed queries, less one while the main thread
    is between the push and the increment, modulo `CounterMod`. It is a number of
    elements of a set, so a step that takes one query out takes one from it
    (`OneHolder` again), and the set is small enough for `CounterAssumption`.
  * `NoCallbackLost`, an action property: where a query can go in a step of each
    action, from `OInv` and `CallbacksFit`.
  * The refinement of `QueryLifecycle` (`ImplementsLifecycle`). `StatusTells` says
    that the mapping `StatusOf` reads one stage for each id; each action then moves
    one query by one stage, or several to "gone" (`ClearByHandle`, an unloaded
    connection), which are cancellations of the abstract specification, or stutters.
* `ResultCacheProofs`: `TypeOK`, `CacheReadable`, `SoleOwner`, `NothingLeaked`,
  `UnsavedInCallbackOnly`, `SavedIdsStable`. `IInv` adds what links the four
  pointers: which handle `ActiveHandle` can name, that a closed handle holds
  nothing, and that an active id is an entry of the table.
* `ConnectionProofs`: `TypeOK`, `ObjectThere`, `NoSessionLeaked`,
  `ReconnectRestores`, `CharsetKept`. `ReconnectRestores` needs the shape of the posted functions: unless
  something was deferred or failed, a `Disconnect` still to run has a `Connect`
  behind it; `CharsetKept` that of the character sets among them: what is asked for
  last is what the last of them sets.
* In the same module, of `Registry`: `OneHandlePerServer`, whose invariant (`ServerInv`)
  needs only that duplicates that are allowed now have been allowed once; `TableTypeOK`
  and `EveryConnectionOwned` (`OInv`), which need each other: the number of connections stays natural because no more are
  destroyed than the handles own. What handles own is counted as a set of pairs
  (`ConnectionsOf`), which closing and opening make smaller and larger. `Largest`, that
  a finite set of numbers has a largest one, gives the line of a file that counts.
* `ExecutionProofs`: `TypeOK`, `AllOrNothing`, `SuccessIsDurable`,
  `ErrorIsTruthful`, `SessionClean`, `TransactionFailureTold`. `IInv` says what the
  database holds at each command: inside a transaction the open transaction has
  exactly the changes made so far, or the session was lost and the connector still
  believes in the transaction, so it cannot be replaced before the rollback.
* `TemplatesProofs`: `TypeOK`, `AsTold`, `SentToMaker`. `IInv` adds that an object
  is registered under one id: only then does clearing the tables by id remove what
  the scripts forget by object.
* `OrmProofs`: `TypeOK`, `FitsWhenApplied`, `RefersToLiving` of `Orm`, which are
  inductive together: a query that is not cancelled pins the bindings of its object.
  And `OneRowPerRecord` of `OrmRow`, under `OrmRowAssumption`. Its
  invariant is the last section of `OrmRow`: only the last query in flight may be one
  the script waits for; what the cells say, and every update on its way, agrees with
  the row it is about, so that an update never changes a row of a script that waits;
  a record without a key is in no row; and the answer of an INSERT is the row of the
  record in the cells.
* `LogProofs`: `TypeOK`, `DestroyedLast`, `AcceptedIsKept`, `RowsInOrder`,
  `TextKept`. `IInv` has five layers, each inductive given those before it: types
  (with `Counted`); `JoinedIdle` and `DestroyedLast`; `HandFull` and
  `AcceptedIsKept`; `InOrder`, which orders the messages of a thread along page,
  hand, queue and the one it is about to push; and `OpensPage`, that the name is
  the HTML one when the thread is started, for `TextKept`.
* `SqlInputProofs`: `SplitAsWritten`, for files of any length (`MaxLexemes` is any
  number), any set of characters and any lexemes over it. `IInv` says where the scanner
  is: behind the n-th lexeme, with the statements and the beginning of a statement
  that the first n lexemes say (`ReadTo`), or behind the o-th character of a lexeme
  (`ReadInto`), in the mode of its kind, with what the kind lets through of its first
  o characters. In a string it is besides at a place where a pair or a single
  character begins (`Starts`): this is why an escaped or doubled quote does not close
  it. `BeginLexeme` leads from `ReadTo` to either, one lemma per kind of lexeme leads
  on from `ReadInto`, and `EndOfText` says that at the end of the file the mode tells
  whether something was left open. `OtherCommands` compares the code's test for a
  directive with what a client command is. `Texts` and `Said` are recursive functions; that they
  exist and unfold is `Recursion`, proved for any function by induction over `0 .. N`
  for a set of numbers (`Induction`), which follows from the least number of a set
  (`Least`), and that from `WFMin` of the library, which speaks of sets and not of an
  operator.

Only model-checked:

* `QueryLeaves`, `CloseReturns`, `UnloadEnds`, `PostReturns`, `UnloadReturns`: the
  proof system does not reach liveness. With the refinement, the proofs show that the
  pipeline makes no step `QueryLifecycle` does not allow; that it makes one is left
  to the runs.

`UnsavedInCallbackOnly` is proved and in no run.

## 5. What is not modelled

* The main connection of a handle: only the main thread uses it, one call at a
  time. Its session is what `Connection` has without the queue of functions.
* `mysql_format` and `mysql_escape_string`: conversions of text that depend on
  nothing but their arguments. Where a failure decides what happens next (an object
  that cannot be escaped generates no query), the caller has both outcomes.
* The copy of a result's rows into one block and the natives that read it: no other
  thread has the block, and who may read it when is in `ResultCache`.
* The conversions of `cache_get_value_*` and of ORM variables between texts and
  numbers, string keys of ORM objects, the values of `orm_apply_cache`.
* The parameters of prepared statements and the rows they return; execution times.
* The checks of file names and the reading of files; a file is its contents.
* The wording of log messages and the level filter; a message is one that passes.
* TLS options beyond a switch and one value, what `mysql_init` and `mysql_ssl_set`
  do when they fail.
* The connector and the SDK, except for what the external definitions state, and
  the sample scripts.

## 6. Plan

1. Done: `QueryPipeline` with `QueryLifecycle`, `ResultCache`, `Connection` with
   character sets, `Execution`, `Templates`, `Orm`, `OrmRow`, `Registry`, `Log`,
   `SqlInput`, and the proofs listed above.
2. Done: the invariants and action properties of all passing runs are proved, and the
   refinement of `QueryLifecycle` (its safety part).
3. Optional: the layout of a stored result (the two passes of `StoreResult` must
   agree on every offset), the main connection against its worker during `mysql_close`, prepared
   statements' parameters.
