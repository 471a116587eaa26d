------------------------------ MODULE Templates ------------------------------
(***************************************************************************)
(* The templates of prepared statements and of transactions, and the       *)
(* connections they are made for.                                          *)
(*                                                                         *)
(* A template does not point to its CMySQLHandle: it keeps the id of the   *)
(* connection, which mysql_connect gives to another object after           *)
(* mysql_close.  The templates live in two tables of the plugin, keyed by  *)
(* unsigned numbers that wrap around and that scripts keep.  Everything    *)
(* here runs on the main thread but TakeQuery, a worker's.                 *)
(*                                                                         *)
(* statementOf and transactionOf are history variables: what the results   *)
(* of the natives tell a script about an id, namely the object it is       *)
(* a live template of.  Calls that return an error change nothing and are  *)
(* not actions, except a commit and an execution that find the query queue *)
(* full.  SQL texts are abstracted to members of a small set, the three    *)
(* natives that bind a parameter to the value they store.                  *)
(***************************************************************************)
EXTENDS Integers, Sequences

CONSTANTS
  Handles,         \* addresses of CMySQLHandle objects
  MaxHandleId,     \* bound: largest connection id handed out
  IdCount,         \* number of values of an unsigned int, 2^32 in the code
  ParameterLimit,  \* largest parameter index, 1023 in the code
  Values,          \* values a script binds
  Texts,           \* texts of queries
  MaxQueries,      \* bound: queries added to one transaction
  QueueCapacity,   \* capacity of the query queue of a connection
  None             \* no object, no template

HandleIds == 1 .. MaxHandleId
TemplateIds == 1 .. IdCount - 1

ASSUME BoundsAssumption ==
  /\ MaxHandleId \in Nat \ {0}
  /\ IdCount \in Nat /\ IdCount >= 2
  /\ ParameterLimit \in Nat
  /\ QueueCapacity \in Nat
Default == 0        \* s_StatementParameter(): the integer 0, until it is bound
Parameters == Seq(Values \cup {Default})
Statement == [connection : HandleIds, query : Texts, parameters : Parameters]
Transaction == [connection : HandleIds, queries : Seq(Texts)]

ASSUME NoneAssumption ==
  None \notin Handles /\ None \notin Statement /\ None \notin Transaction

VARIABLES
  connection,       \* [HandleIds -> Handles or None]: SQLHandle
  statements,       \* [TemplateIds -> Statement or None]: PreparedStatements
  transactions,     \* [TemplateIds -> Transaction or None]: Transactions
  nextStatement,    \* NextPreparedStatementID
  nextTransaction,  \* NextTransactionID
  pending,          \* [HandleIds -> sequence of queries]: m_QueryQueue
  statementOf,      \* history: [TemplateIds -> Handles or None]
  transactionOf     \* history: [TemplateIds -> Handles or None]

vars == <<connection, statements, transactions, nextStatement, nextTransaction,
          pending, statementOf, transactionOf>>

(* A query in a queue; for is history: the object its template was for.    *)
Query == [of : {"statement"}, sql : Texts, parameters : Parameters,
          for : Handles \cup {None}]
         \cup [of : {"transaction"}, queries : Seq(Texts), for : Handles \cup {None}]

TypeOK ==
  /\ connection \in [HandleIds -> Handles \cup {None}]
  /\ \A i \in TemplateIds : statements[i] = None \/ statements[i] \in Statement
  /\ \A i \in TemplateIds : transactions[i] = None \/ transactions[i] \in Transaction
  /\ DOMAIN statements = TemplateIds /\ DOMAIN transactions = TemplateIds
  /\ nextStatement \in 0 .. IdCount - 1
  /\ nextTransaction \in 0 .. IdCount - 1
  /\ DOMAIN pending = HandleIds
  /\ \A c \in HandleIds : pending[c] \in Seq(Query) /\ Len(pending[c]) =< QueueCapacity
  /\ statementOf \in [TemplateIds -> Handles \cup {None}]
  /\ transactionOf \in [TemplateIds -> Handles \cup {None}]

Init ==
  /\ connection = [c \in HandleIds |-> None]
  /\ statements = [i \in TemplateIds |-> None]
  /\ transactions = [i \in TemplateIds |-> None]
  /\ nextStatement = 1
  /\ nextTransaction = 1
  /\ pending = [c \in HandleIds |-> <<>>]
  /\ statementOf = [i \in TemplateIds |-> None]
  /\ transactionOf = [i \in TemplateIds |-> None]

---------------------------------------------------------------------------
(* Connections: ids and objects are used again.                            *)
OpenIds == {c \in HandleIds : connection[c] # None}

(* One more than some id in use, which one is up to a hash map.            *)
FreshHandleIds ==
  (IF OpenIds = {} THEN {1} ELSE {c + 1 : c \in OpenIds} \ OpenIds) \cap HandleIds
UnusedHandles == {h \in Handles : \A c \in HandleIds : connection[c] # h}

Connect(c, h) ==
  /\ connection' = [connection EXCEPT ![c] = h]
  /\ UNCHANGED <<statements, transactions, nextStatement, nextTransaction, pending,
                 statementOf, transactionOf>>

(* A table without the templates of connection c.                          *)
ClearNothing(table, c) == table     \* faulty variant: templates stay behind
Cleared(table, c) ==
  [i \in TemplateIds |->
     IF table[i] # None /\ table[i].connection = c THEN None ELSE table[i]]

Forget(view, h) == [i \in TemplateIds |-> IF view[i] = h THEN None ELSE view[i]]

(* mysql_close: the object, its connections and their queues go away.      *)
Close(c) ==
  /\ statements' = Cleared(statements, c)
  /\ transactions' = Cleared(transactions, c)
  /\ connection' = [connection EXCEPT ![c] = None]
  /\ pending' = [pending EXCEPT ![c] = <<>>]
  /\ statementOf' = Forget(statementOf, connection[c])
  /\ transactionOf' = Forget(transactionOf, connection[c])
  /\ UNCHANGED <<nextStatement, nextTransaction>>

---------------------------------------------------------------------------
(* Template ids: an unsigned counter that wraps and whose 0 is skipped.    *)
(* insert leaves the table as it is when the id is still in use.           *)
Taken(next) == IF next = 0 THEN 1 ELSE next
After(id) == (id + 1) % IdCount

Overwritten(table, id, t) == [table EXCEPT ![id] = t]  \* faulty variant: map[id] = t
Inserted(table, id, t) == IF table[id] = None THEN [table EXCEPT ![id] = t] ELSE table

(* The script learns an id; one still in use names the older template.     *)
Learnt(view, id, h) == IF view[id] = None THEN [view EXCEPT ![id] = h] ELSE view

(* QueueQuery: a bounded queue; the native deletes a query it refuses.     *)
HasRoom(c) == Len(pending[c]) < QueueCapacity
QueueQuery(c, q) ==
  pending' = [pending EXCEPT ![c] = IF HasRoom(c) THEN Append(@, q) ELSE @]

---------------------------------------------------------------------------
(* mysql_stmt_prepare.                                                     *)
Prepare(c, t) ==
  LET id == Taken(nextStatement) IN
  /\ statements' = Inserted(statements, id,
                            [connection |-> c, query |-> t, parameters |-> <<>>])
  /\ nextStatement' = After(id)
  /\ statementOf' = Learnt(statementOf, id, connection[c])
  /\ UNCHANGED <<connection, transactions, nextTransaction, pending, transactionOf>>

(* resize(p + 1): parameters in between have the default value.            *)
Resized(ps, n) == [k \in 1 .. n |-> IF k =< Len(ps) THEN ps[k] ELSE Default]
Bound(ps, p, v) ==
  [Resized(ps, IF Len(ps) > p THEN Len(ps) ELSE p + 1) EXCEPT ![p + 1] = v]

(* mysql_stmt_bind_int, _float and _string.                                *)
Bind(i, p, v) ==
  /\ statements' = [statements EXCEPT ![i].parameters = Bound(@, p, v)]
  /\ UNCHANGED <<connection, transactions, nextStatement, nextTransaction, pending,
                 statementOf, transactionOf>>

(* mysql_stmt_execute: a copy of the template is queued.                   *)
Execute(i) ==
  LET s == statements[i] IN
  /\ connection[s.connection] # None
  /\ QueueQuery(s.connection, [of |-> "statement", sql |-> s.query,
                               parameters |-> s.parameters, for |-> statementOf[i]])
  /\ UNCHANGED <<connection, statements, transactions, nextStatement, nextTransaction,
                 statementOf, transactionOf>>

(* mysql_stmt_close.                                                       *)
CloseStatement(i) ==
  /\ statements' = [statements EXCEPT ![i] = None]
  /\ statementOf' = [statementOf EXCEPT ![i] = None]
  /\ UNCHANGED <<connection, transactions, nextStatement, nextTransaction, pending,
                 transactionOf>>

---------------------------------------------------------------------------
(* mysql_transaction_begin.                                                *)
Begin(c) ==
  LET id == Taken(nextTransaction) IN
  /\ transactions' = Inserted(transactions, id, [connection |-> c, queries |-> <<>>])
  /\ nextTransaction' = After(id)
  /\ transactionOf' = Learnt(transactionOf, id, connection[c])
  /\ UNCHANGED <<connection, statements, nextStatement, pending, statementOf>>

(* mysql_transaction_query.                                                *)
AddQuery(i, t) ==
  /\ transactions' = [transactions EXCEPT ![i].queries = Append(@, t)]
  /\ UNCHANGED <<connection, statements, nextStatement, nextTransaction, pending,
                 statementOf, transactionOf>>

(* What a commit leaves in the table: the transaction, if it was refused.  *)
ErasedAnyway(i) ==                  \* faulty variant: erased before QueueQuery
  [transactions EXCEPT ![i] = None]
Committed(i) ==
  IF HasRoom(transactions[i].connection) THEN [transactions EXCEPT ![i] = None]
                                         ELSE transactions

(* mysql_transaction_commit.                                               *)
Commit(i) ==
  LET t == transactions[i] IN
  /\ connection[t.connection] # None
  /\ t.queries # <<>>
  /\ QueueQuery(t.connection, [of |-> "transaction", queries |-> t.queries,
                               for |-> transactionOf[i]])
  /\ transactions' = Committed(i)
  /\ transactionOf' = [transactionOf EXCEPT ![i] =
                         IF HasRoom(t.connection) THEN None ELSE @]
  /\ UNCHANGED <<connection, statements, nextStatement, nextTransaction, statementOf>>

(* mysql_transaction_rollback.                                             *)
Rollback(i) ==
  /\ transactions' = [transactions EXCEPT ![i] = None]
  /\ transactionOf' = [transactionOf EXCEPT ![i] = None]
  /\ UNCHANGED <<connection, statements, nextStatement, nextTransaction, pending,
                 statementOf>>

(* A worker takes the oldest query; QueryPipeline has the rest.            *)
TakeQuery(c) ==
  /\ pending[c] # <<>>
  /\ pending' = [pending EXCEPT ![c] = Tail(@)]
  /\ UNCHANGED <<connection, statements, transactions, nextStatement, nextTransaction,
                 statementOf, transactionOf>>

---------------------------------------------------------------------------
Prepared == {i \in TemplateIds : statements[i] # None}
Begun == {i \in TemplateIds : transactions[i] # None}

Next ==
  \/ \E c \in FreshHandleIds, h \in UnusedHandles : Connect(c, h)
  \/ \E c \in OpenIds : Close(c) \/ Begin(c) \/ TakeQuery(c)
  \/ \E c \in OpenIds, t \in Texts : Prepare(c, t)
  \/ \E i \in Prepared : Execute(i) \/ CloseStatement(i)
  \/ \E i \in Prepared, p \in 0 .. ParameterLimit, v \in Values : Bind(i, p, v)
  \/ \E i \in Begun : Commit(i) \/ Rollback(i)
  \/ \E i \in Begun, t \in Texts : Len(transactions[i].queries) < MaxQueries /\ AddQuery(i, t)

Spec == Init /\ [][Next]_vars

---------------------------------------------------------------------------
(* What the natives told the scripts is true: an id is a live template     *)
(* exactly when a script was given it and has not closed, sent or rolled   *)
(* it back, and its connection, by id, is still the object it was made on. *)
(* So a refused commit can be repeated, an accepted one cannot, and no     *)
(* template passes to the next connection with the id of its own.          *)
AsTold ==
  \A i \in TemplateIds :
    /\ (statements[i] # None) = (statementOf[i] # None)
    /\ (transactions[i] # None) = (transactionOf[i] # None)
    /\ statements[i] # None => statementOf[i] = connection[statements[i].connection]
    /\ transactions[i] # None => transactionOf[i] = connection[transactions[i].connection]

(* Every query made from a template waits at the connection object its     *)
(* template was made for, however connections and their ids were closed    *)
(* and used again since.                                                   *)
SentToMaker ==
  \A c \in HandleIds : \A k \in 1 .. Len(pending[c]) :
    pending[c][k].for # None /\ pending[c][k].for = connection[c]
=============================================================================
