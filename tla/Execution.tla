------------------------------ MODULE Execution ------------------------------
(***************************************************************************)
(* CMySQLQuery::Execute in the worker of one threaded connection: the      *)
(* commands it sends for a plain query, a prepared statement and a         *)
(* transaction, what the database makes of them, and what the script that  *)
(* waits for the callback is told.                                         *)
(*                                                                         *)
(* A session can be lost between any two commands, and while an answer is  *)
(* on its way.  The connector (MYSQL_OPT_RECONNECT) may then replace it    *)
(* silently before the next command, with one exception: it believes it is *)
(* in a transaction.  The belief is the status flag of the last answer.    *)
(*                                                                         *)
(* Every query has a callback name, and one data change per statement.     *)
(* Statements that begin, commit or undo a transaction themselves are left *)
(* out, except those that commit implicitly (DDL).  An accepted ROLLBACK   *)
(* is taken not to be refused by a live session.  ORM queries and the      *)
(* copies of result rows are not modelled.                                 *)
(***************************************************************************)
EXTENDS Integers

CONSTANTS
  Length,      \* statements of a transaction
  MaxQueries   \* bound: queries executed on the connection

ASSUME ExecutionAssumption == Length \in Nat \ {0} /\ MaxQueries \in Nat

Queries == 1 .. MaxQueries
Indices == 1 .. Length
Writes == Queries \X Indices

VARIABLES
  autoReconnect,  \* m_AutoReconnect, and MYSQL_OPT_RECONNECT
  session,        \* "live", or "lost": the server has closed it
  db,             \* the database: the changes that are durable, and the open
                  \* transaction of the session with its changes
  inTrans,        \* SERVER_STATUS_IN_TRANS in the connector's server_status
  pc,             \* the command the worker sends next, or what it reads
  query,          \* number of the query in execution, or of the last one
  index,          \* index into TransactionQueries
  kind,           \* [Queries -> {"plain", "prepared", "transaction"}]
  told,           \* [Queries -> what the script is told]: "callback",
                  \* "OnQueryError", "nothing" (no callback), "-" (no end yet)
  failed,         \* history: queries of which a statement failed
  implicit,       \* history: transactions with a statement that committed
  doubtful        \* history: transactions whose COMMIT was not answered

history == <<failed, implicit, doubtful>>
vars == <<autoReconnect, session, db, inTrans, pc, query, index, kind, told, history>>

Kinds == {"plain", "prepared", "transaction"}

TypeOK ==
  /\ autoReconnect \in BOOLEAN
  /\ session \in {"live", "lost"}
  /\ db \in [durable : SUBSET Writes, open : BOOLEAN, writes : SUBSET Writes]
  /\ inTrans \in BOOLEAN
  /\ pc \in {"idle", "plain", "fetch", "prepare", "execute", "store", "begin",
             "statement", "results", "commit", "rollback", "executed"}
  /\ query \in 0 .. MaxQueries
  /\ index \in Indices
  /\ kind \in [Queries -> Kinds]
  /\ told \in [Queries -> {"-", "callback", "OnQueryError", "nothing"}]
  /\ failed \subseteq Queries /\ implicit \subseteq Queries /\ doubtful \subseteq Queries

Init ==
  /\ autoReconnect \in BOOLEAN
  /\ session = "live"
  /\ db = [durable |-> {}, open |-> FALSE, writes |-> {}]
  /\ inTrans = FALSE
  /\ pc = "idle"
  /\ query = 0 /\ index = 1
  /\ kind \in [Queries -> Kinds]
  /\ told = [q \in Queries |-> "-"]
  /\ failed = {} /\ implicit = {} /\ doubtful = {}

---------------------------------------------------------------------------
(* The database.                                                           *)

Committed(d) == [durable |-> d.durable \cup d.writes, open |-> FALSE, writes |-> {}]
Begun(d) == [Committed(d) EXCEPT !.open = TRUE]
RolledBack(d) == [d EXCEPT !.open = FALSE, !.writes = {}]

Written(d, w) ==
  IF d.open THEN [d EXCEPT !.writes = @ \cup {w}] ELSE [d EXCEPT !.durable = @ \cup {w}]

(* A command is answered; `done' is the database after it.                 *)
Answered(done) ==
  /\ session = "live"
  /\ db' = done
  /\ inTrans' = done.open
  /\ UNCHANGED session

(* The session ends, before or after the command has reached the server.   *)
NoAnswer(done) ==
  /\ session = "live" /\ session' = "lost"
  /\ db' \in {RolledBack(db), RolledBack(done)}
  /\ UNCHANGED inTrans

(* The connector finds the session gone: its reconnect gives up, clears    *)
(* the flag so that the next one does not, and the command fails.          *)
Gone ==
  /\ session = "lost"
  /\ inTrans' \in {FALSE, inTrans}
  /\ UNCHANGED <<session, db>>

(* An SQL error, which may have rolled the transaction back (deadlock).    *)
RefusedAs(d) == session = "live" /\ db' = d /\ UNCHANGED <<session, inTrans>>
Refused == RefusedAs(db) \/ RefusedAs(RolledBack(db))

Fails(done) == Refused \/ NoAnswer(done) \/ Gone

AnyTime == session = "lost" /\ autoReconnect  \* faulty variant: flag not asked
MayReconnect == session = "lost" /\ autoReconnect /\ ~inTrans

---------------------------------------------------------------------------
(* ProcessQueries pops the next query.                                     *)

FirstCommand(k) ==
  IF k = "plain" THEN "plain" ELSE IF k = "prepared" THEN "prepare" ELSE "begin"

Pop ==
  /\ pc = "idle" /\ query < MaxQueries
  /\ query' = query + 1
  /\ pc' = FirstCommand(kind[query + 1])
  /\ UNCHANGED <<autoReconnect, session, db, inTrans, index, kind, told, history>>

Tell(what) == told' = [told EXCEPT ![query] = what]
Finish(what) == Tell(what) /\ pc' = "executed"

NoFailure == UNCHANGED history
Failure == failed' = failed \cup {query} /\ UNCHANGED <<implicit, doubtful>>

SetError == "OnQueryError"

---------------------------------------------------------------------------
(* A plain query.                                                          *)

Plain ==
  /\ pc = "plain"
  /\ LET done == Written(db, <<query, 1>>) IN
     \/ Answered(done) /\ pc' = "fetch" /\ NoFailure /\ UNCHANGED told
     \/ Fails(done) /\ Finish(SetError) /\ Failure
  /\ UNCHANGED <<autoReconnect, query, index, kind>>

(* StoreResult, then the further result sets are read and thrown away, an  *)
(* error among them too.  When StoreResult fails it clears the name of the *)
(* callback.                                                               *)
Fetch ==
  /\ pc = "fetch"
  /\ \/ NoFailure /\ Finish("callback")
     \/ Failure /\ \E what \in {"callback", "nothing"} : Finish(what)
  /\ UNCHANGED <<autoReconnect, session, db, inTrans, query, index, kind>>

---------------------------------------------------------------------------
(* A prepared statement: prepared, executed and closed at once.            *)

Prepare ==
  /\ pc = "prepare"
  /\ \/ Answered(db) /\ pc' = "execute" /\ NoFailure /\ UNCHANGED told
     \/ Fails(db) /\ Finish(SetError) /\ Failure
  /\ UNCHANGED <<autoReconnect, query, index, kind>>

ExecutePrepared ==
  /\ pc = "execute"
  /\ LET done == Written(db, <<query, 1>>) IN
     \/ Answered(done) /\ pc' = "store" /\ NoFailure /\ UNCHANGED told
     \/ Fails(done) /\ Finish(SetError) /\ Failure
  /\ UNCHANGED <<autoReconnect, query, index, kind>>

(* A statement does not survive a reconnect: the server does not know it.  *)
ExecuteStale ==
  /\ pc = "execute" /\ MayReconnect
  /\ session' = "live" /\ inTrans' = FALSE
  /\ Finish(SetError) /\ Failure
  /\ UNCHANGED <<autoReconnect, db, query, index, kind>>

StorePreparedResult ==
  /\ pc = "store"
  /\ \/ NoFailure /\ Finish("callback")
     \/ Failure /\ Finish(SetError)
  /\ UNCHANGED <<autoReconnect, session, db, inTrans, query, index, kind>>

---------------------------------------------------------------------------
(* A transaction.                                                          *)

Begin ==
  /\ pc = "begin"
  /\ index' = 1
  /\ \/ Answered(Begun(db)) /\ pc' = "statement" /\ NoFailure /\ UNCHANGED told
     \/ Fails(Begun(db)) /\ Finish(SetError) /\ Failure
  /\ UNCHANGED <<autoReconnect, query, kind>>

(* After a failure, `break' and ROLLBACK.                                  *)
LeaveOpen == "executed"       \* faulty variant: no ROLLBACK
AfterFailure == "rollback"

(* `ddl': the statement commits implicitly, also when it is refused.       *)
Statement ==
  /\ pc = "statement"
  /\ \E ddl \in BOOLEAN :
       LET written == Written(db, <<query, index>>)
           done == IF ddl THEN Committed(written) ELSE written IN
       /\ implicit' = IF ddl THEN implicit \cup {query} ELSE implicit
       /\ \/ Answered(done) /\ pc' = "results" /\ UNCHANGED failed
          \/ /\ Fails(done) \/ (ddl /\ RefusedAs(Committed(db)))
             /\ pc' = AfterFailure /\ failed' = failed \cup {query}
  /\ UNCHANGED <<autoReconnect, query, index, kind, told, doubtful>>

MoreStatements == index < Length

NextStatement ==
  \/ MoreStatements /\ index' = index + 1 /\ pc' = "statement"
  \/ ~MoreStatements /\ pc' = "commit" /\ UNCHANGED index

(* The results of the statement are read to the end and freed.             *)
Results ==
  /\ pc = "results"
  /\ NextStatement
  /\ UNCHANGED <<autoReconnect, session, db, inTrans, query, kind, told, history>>

(* A result cannot be read, or a later one is an error: the statement has  *)
(* failed after all.                                                       *)
IgnoredResult == NextStatement  \* faulty variant: nextResult is not checked
FailedResult == pc' = AfterFailure /\ UNCHANGED index

LateError ==
  /\ pc = "results"
  /\ Fails(db)
  /\ FailedResult /\ Failure
  /\ UNCHANGED <<autoReconnect, query, kind, told>>

Unchecked == Finish("callback")  \* faulty variant: COMMIT is not checked
CommitFailed == pc' = AfterFailure /\ UNCHANGED told

Commit ==
  /\ pc = "commit"
  /\ \/ Answered(Committed(db)) /\ Finish("callback") /\ NoFailure
     \/ /\ Fails(Committed(db)) /\ CommitFailed
        /\ failed' = failed \cup {query} /\ UNCHANGED implicit
        /\ doubtful' = IF session = "live" /\ session' = "lost"
                       THEN doubtful \cup {query} ELSE doubtful
  /\ UNCHANGED <<autoReconnect, query, index, kind>>

Kept == Committed(db)         \* faulty variant: COMMIT is sent
Undone == RolledBack(db)

(* Whether it succeeds is not looked at.                                   *)
Rollback ==
  /\ pc = "rollback"
  /\ Answered(Undone) \/ NoAnswer(Undone) \/ Gone
  /\ Finish(SetError)
  /\ UNCHANGED <<autoReconnect, query, index, kind, history>>

---------------------------------------------------------------------------
(* Sessions.                                                               *)

Sending == {"plain", "prepare", "begin", "statement", "commit", "rollback"}

ConnectorReconnects ==
  /\ pc \in Sending /\ MayReconnect
  /\ session' = "live" /\ inTrans' = FALSE
  /\ UNCHANGED <<autoReconnect, db, pc, query, index, kind, told, history>>

(* Execute has returned false with CR_SERVER_GONE_ERROR.                   *)
PluginReconnects ==
  /\ pc = "executed" /\ told[query] = "OnQueryError"
  /\ session = "lost" /\ autoReconnect
  /\ session' = "live" /\ inTrans' = FALSE
  /\ UNCHANGED <<autoReconnect, db, pc, query, index, kind, told, history>>

(* The query is handed to the callback queue.                              *)
Hand ==
  /\ pc = "executed"
  /\ pc' = "idle"
  /\ UNCHANGED <<autoReconnect, session, db, inTrans, query, index, kind, told, history>>

(* mysql_reconnect, run between two queries.                               *)
Reopen ==
  /\ pc = "idle"
  /\ session' = "live" /\ inTrans' = FALSE
  /\ db' = RolledBack(db)
  /\ UNCHANGED <<autoReconnect, pc, query, index, kind, told, history>>

ServerClosesSession ==
  /\ session = "live"
  /\ session' = "lost"
  /\ db' = RolledBack(db)
  /\ UNCHANGED <<autoReconnect, inTrans, pc, query, index, kind, told, history>>

Execute ==
  \/ Plain \/ Fetch
  \/ Prepare \/ ExecutePrepared \/ ExecuteStale \/ StorePreparedResult
  \/ Begin \/ Statement \/ Results \/ LateError \/ Commit \/ Rollback

Sessions == ConnectorReconnects \/ PluginReconnects \/ Reopen \/ ServerClosesSession

Next == Pop \/ Execute \/ Hand \/ Sessions

Spec == Init /\ [][Next]_vars

---------------------------------------------------------------------------
Whole(q) == {q} \X (IF kind[q] = "transaction" THEN Indices ELSE {1})
Durable(q) == {w \in db.durable : w[1] = q}

(* The changes of a transaction become durable together or not at all:     *)
(* whatever fails and whenever the session is lost or replaced, no other   *)
(* client ever reads a part of them.  Only a statement that commits by     *)
(* itself breaks this.                                                     *)
AllOrNothing ==
  \A q \in Queries : kind[q] = "transaction" /\ q \notin implicit =>
    Durable(q) \in {{}, Whole(q)}

(* A script whose callback is called has all its changes in the database.  *)
SuccessIsDurable ==
  \A q \in Queries : told[q] = "callback" => Durable(q) = Whole(q)

(* OnQueryError for a transaction means that nothing was applied, unless   *)
(* the connection broke while the answer to COMMIT was awaited.            *)
ErrorIsTruthful ==
  \A q \in Queries :
    kind[q] = "transaction" /\ told[q] = "OnQueryError" /\ q \notin implicit \cup doubtful =>
      Durable(q) = {}

(* No transaction stays open between two queries, so the next query is     *)
(* never swallowed by one that failed before it.                           *)
SessionClean == pc = "idle" => ~db.open /\ db.writes = {}

(* A transaction of which any statement failed, be it in its second result *)
(* set, ends in OnQueryError.                                              *)
TransactionFailureTold ==
  \A q \in failed : kind[q] = "transaction" /\ told[q] # "-" => told[q] = "OnQueryError"

(* README.md: any failure of the threaded form calls OnQueryError.         *)
FailureTold == \A q \in failed : told[q] \in {"-", "OnQueryError"}
=============================================================================
