--------------------------- MODULE TemplatesProofs ---------------------------
(***************************************************************************)
(* Templates and connections for any number of connections, template ids   *)
(* and queries.  The inductive invariant adds to the checked ones that an  *)
(* object has one id: mysql_close clears the tables by id and the scripts  *)
(* forget by object, and only then is it the same.                         *)
(***************************************************************************)
EXTENDS Templates, SequenceTheorems, TLAPS

(* An object is registered under one id.                                   *)
OneId ==
  \A c, d \in HandleIds : connection[c] # None /\ connection[c] = connection[d] => c = d

(* What a template table and what the scripts know of it have in common;   *)
(* AsTold says this of both tables.                                        *)
TableAsTold(table, view, registry) ==
  \A i \in TemplateIds :
    /\ (table[i] # None) = (view[i] # None)
    /\ table[i] # None => view[i] = registry[table[i].connection]

IInv == TypeOK /\ OneId /\ AsTold /\ SentToMaker

---------------------------------------------------------------------------
(* AsTold, one table at a time.                                            *)
LEMMA AsToldTables ==
  AsTold <=> /\ TableAsTold(statements, statementOf, connection)
             /\ TableAsTold(transactions, transactionOf, connection)
BY DEF AsTold, TableAsTold

(* The same of the next state.                                             *)
LEMMA AsToldTablesNext ==
  AsTold' <=> /\ TableAsTold(statements', statementOf', connection')
              /\ TableAsTold(transactions', transactionOf', connection')
BY DEF AsTold, TableAsTold

(* The counter yields template ids and stays in its range.                 *)
LEMMA IdsInRange ==
  ASSUME NEW next \in 0 .. IdCount - 1
  PROVE  /\ Taken(next) \in TemplateIds
         /\ After(Taken(next)) \in 0 .. IdCount - 1
<1>1. Taken(next) \in TemplateIds
  BY BoundsAssumption DEF Taken, TemplateIds
<1>2. QED BY <1>1, BoundsAssumption DEF After, TemplateIds

(* A query at a closed connection does not exist.                          *)
LEMMA ClosedQueueEmpty ==
  ASSUME TypeOK, SentToMaker, NEW c \in HandleIds, connection[c] = None
  PROVE  pending[c] = <<>>
<1>1. pending[c] \in Seq(Query) /\ \A k \in 1 .. Len(pending[c]) : FALSE
  BY DEF TypeOK, SentToMaker
<1>2. QED BY <1>1

(* QueueQuery keeps a queue typed and bounded, and its queries with the    *)
(* object they are for.                                                    *)
LEMMA QueueQueryInv ==
  ASSUME TypeOK, SentToMaker, NEW c \in HandleIds, NEW q \in Query, QueueQuery(c, q),
         q.for = connection[c], connection[c] # None, UNCHANGED connection
  PROVE  /\ DOMAIN pending' = HandleIds
         /\ \A d \in HandleIds : /\ pending'[d] \in Seq(Query)
                                 /\ Len(pending'[d]) =< QueueCapacity
         /\ SentToMaker'
<1>1. DOMAIN pending' = HandleIds /\ \A d \in HandleIds \ {c} : pending'[d] = pending[d]
  BY DEF TypeOK, QueueQuery
<1>2. pending'[c] = IF HasRoom(c) THEN Append(pending[c], q) ELSE pending[c]
  BY DEF TypeOK, QueueQuery
<1>3. pending[c] \in Seq(Query) /\ Len(pending[c]) \in Nat /\ Len(pending[c]) =< QueueCapacity
  BY DEF TypeOK
<1>4. pending'[c] \in Seq(Query) /\ Len(pending'[c]) =< QueueCapacity
  BY <1>2, <1>3, BoundsAssumption DEF HasRoom
<1>5. \A k \in 1 .. Len(pending'[c]) :
        pending'[c][k].for # None /\ pending'[c][k].for = connection[c]
  <2>1. CASE HasRoom(c)
    <3>1. /\ Len(pending'[c]) = Len(pending[c]) + 1
          /\ pending'[c][Len(pending[c]) + 1] = q
          /\ \A k \in 1 .. Len(pending[c]) : pending'[c][k] = pending[c][k]
      BY <1>2, <1>3, <2>1
    <3>2. ASSUME NEW k \in 1 .. Len(pending'[c])
          PROVE  k \in 1 .. Len(pending[c]) \/ k = Len(pending[c]) + 1
      BY <1>3, <3>1
    <3>3. \A k \in 1 .. Len(pending[c]) :
            pending[c][k].for # None /\ pending[c][k].for = connection[c]
      BY DEF SentToMaker
    <3>4. QED BY <3>1, <3>2, <3>3
  <2>2. CASE ~HasRoom(c)
    BY <1>2, <2>2 DEF SentToMaker
  <2>3. QED BY <2>1, <2>2
<1>6. SentToMaker'
  BY <1>1, <1>5 DEF SentToMaker
<1>7. QED BY <1>1, <1>3, <1>4, <1>6 DEF TypeOK

(* Clearing a table by id and forgetting by object come to the same.       *)
LEMMA ClearInv ==
  ASSUME OneId, NEW c \in HandleIds, connection[c] # None,
         connection \in [HandleIds -> Handles \cup {None}],
         NEW table, NEW view \in [TemplateIds -> Handles \cup {None}],
         \A i \in TemplateIds : table[i] # None => table[i].connection \in HandleIds,
         TableAsTold(table, view, connection)
  PROVE  TableAsTold(Cleared(table, c), Forget(view, connection[c]),
                     [connection EXCEPT ![c] = None])
BY DEF TableAsTold, Cleared, Forget, OneId

(* A new template, or one dropped because its id is in use.                *)
LEMMA InsertInv ==
  ASSUME NEW c \in HandleIds, connection[c] # None, NEW id \in TemplateIds, NEW t,
         t # None, t.connection = c,
         NEW table, DOMAIN table = TemplateIds,
         NEW view \in [TemplateIds -> Handles \cup {None}],
         TableAsTold(table, view, connection)
  PROVE  TableAsTold(Inserted(table, id, t), Learnt(view, id, connection[c]), connection)
BY DEF TableAsTold, Inserted, Learnt

---------------------------------------------------------------------------
(* mysql_connect: nothing refers to the id or to the object.               *)
LEMMA ConnectInv ==
  ASSUME IInv, NEW c \in FreshHandleIds, NEW h \in UnusedHandles, Connect(c, h)
  PROVE  IInv'
<1>1. c \in HandleIds /\ connection[c] = None /\ h \in Handles /\ h # None
  BY NoneAssumption DEF FreshHandleIds, OpenIds, UnusedHandles
<1>2. /\ connection' \in [HandleIds -> Handles \cup {None}]
      /\ connection'[c] = h
      /\ \A d \in HandleIds \ {c} : connection'[d] = connection[d]
  BY <1>1 DEF IInv, TypeOK, Connect
<1>3. TypeOK'
  BY <1>2 DEF IInv, TypeOK, Connect
<1>4. OneId'
  BY <1>1, <1>2 DEF IInv, OneId, UnusedHandles
<1>5. \A i \in TemplateIds :
        /\ statements[i] # None => connection[statements[i].connection] # None
                                   /\ statements[i].connection \in HandleIds
        /\ transactions[i] # None => connection[transactions[i].connection] # None
                                     /\ transactions[i].connection \in HandleIds
  BY DEF IInv, AsTold, TypeOK, Statement, Transaction
<1>6. AsTold'
  BY <1>1, <1>2, <1>5 DEF IInv, AsTold, Connect
<1>7. SentToMaker'
  <2>1. pending[c] = <<>>
    BY <1>1, ClosedQueueEmpty DEF IInv
  <2>2. QED BY <2>1, <1>2 DEF IInv, SentToMaker, Connect
<1>8. QED BY <1>3, <1>4, <1>6, <1>7 DEF IInv

(* mysql_close.                                                            *)
LEMMA CloseInv ==
  ASSUME IInv, NEW c \in OpenIds, Close(c)
  PROVE  IInv'
<1>1. c \in HandleIds /\ connection[c] # None
  BY DEF OpenIds
<1>2. TypeOK'
  BY <1>1, BoundsAssumption DEF IInv, TypeOK, Close, Cleared, Forget
<1>3. OneId'
  BY <1>1 DEF IInv, TypeOK, OneId, Close
<1>4. AsTold'
  <2>1. \A i \in TemplateIds :
          /\ statements[i] # None => statements[i].connection \in HandleIds
          /\ transactions[i] # None => transactions[i].connection \in HandleIds
    BY DEF IInv, TypeOK, Statement, Transaction
  <2>2. TableAsTold(statements', statementOf', connection')
    BY <1>1, <2>1, ClearInv, AsToldTables DEF IInv, TypeOK, Close
  <2>3. TableAsTold(transactions', transactionOf', connection')
    BY <1>1, <2>1, ClearInv, AsToldTables DEF IInv, TypeOK, Close
  <2>4. QED BY <2>2, <2>3, AsToldTablesNext
<1>5. SentToMaker'
  BY <1>1 DEF IInv, TypeOK, SentToMaker, Close
<1>6. QED BY <1>2, <1>3, <1>4, <1>5 DEF IInv

(* mysql_stmt_prepare.                                                     *)
LEMMA PrepareInv ==
  ASSUME IInv, NEW c \in OpenIds, NEW t \in Texts, Prepare(c, t)
  PROVE  IInv'
<1> DEFINE id == Taken(nextStatement)
           s == [connection |-> c, query |-> t, parameters |-> <<>>]
<1>1. c \in HandleIds /\ connection[c] # None
  BY DEF OpenIds
<1>2. id \in TemplateIds /\ After(id) \in 0 .. IdCount - 1
  BY IdsInRange DEF IInv, TypeOK
<1>3. s \in Statement /\ s # None
  <2>1. <<>> \in Parameters
    BY DEF Parameters
  <2>2. s \in Statement
    BY <1>1, <2>1 DEF Statement
  <2>3. QED BY <2>2, NoneAssumption
<1> HIDE DEF id
<1>4. /\ statements' = Inserted(statements, id, s)
      /\ statementOf' = Learnt(statementOf, id, connection[c])
      /\ nextStatement' = After(id)
  BY DEF Prepare, id
<1> HIDE DEF s
<1>5. TypeOK'
  BY <1>1, <1>2, <1>3, <1>4 DEF IInv, TypeOK, Prepare, Inserted, Learnt
<1>6. TableAsTold(statements', statementOf', connection')
  BY <1>1, <1>2, <1>3, <1>4, InsertInv, AsToldTables DEF IInv, TypeOK, Prepare, s
<1>7. AsTold'
  BY <1>6, AsToldTables, AsToldTablesNext DEF IInv, Prepare
<1>8. QED BY <1>5, <1>7 DEF IInv, OneId, SentToMaker, Prepare

(* mysql_transaction_begin.                                                *)
LEMMA BeginInv ==
  ASSUME IInv, NEW c \in OpenIds, Begin(c)
  PROVE  IInv'
<1> DEFINE id == Taken(nextTransaction)
           t == [connection |-> c, queries |-> <<>>]
<1>1. c \in HandleIds /\ connection[c] # None
  BY DEF OpenIds
<1>2. id \in TemplateIds /\ After(id) \in 0 .. IdCount - 1
  BY IdsInRange DEF IInv, TypeOK
<1>3. t \in Transaction /\ t # None
  <2>1. <<>> \in Seq(Texts)
    OBVIOUS
  <2>2. t \in Transaction
    BY <1>1, <2>1 DEF Transaction
  <2>3. QED BY <2>2, NoneAssumption
<1> HIDE DEF id
<1>4. /\ transactions' = Inserted(transactions, id, t)
      /\ transactionOf' = Learnt(transactionOf, id, connection[c])
      /\ nextTransaction' = After(id)
  BY DEF Begin, id
<1> HIDE DEF t
<1>5. TypeOK'
  BY <1>1, <1>2, <1>3, <1>4 DEF IInv, TypeOK, Begin, Inserted, Learnt
<1>6. TableAsTold(transactions', transactionOf', connection')
  BY <1>1, <1>2, <1>3, <1>4, InsertInv, AsToldTables DEF IInv, TypeOK, Begin, t
<1>7. AsTold'
  BY <1>6, AsToldTables, AsToldTablesNext DEF IInv, Begin
<1>8. QED BY <1>5, <1>7 DEF IInv, OneId, SentToMaker, Begin

---------------------------------------------------------------------------
(* Binding gives a list of values and defaults.                            *)
LEMMA BoundType ==
  ASSUME NEW ps \in Parameters, NEW p \in 0 .. ParameterLimit, NEW v \in Values
  PROVE  Bound(ps, p, v) \in Parameters
<1> DEFINE n == IF Len(ps) > p THEN Len(ps) ELSE p + 1
<1>1. n \in Nat /\ p + 1 \in 1 .. n
  BY BoundsAssumption DEF Parameters
<1>2. \A k \in 1 .. Len(ps) : ps[k] \in Values \cup {Default}
  BY DEF Parameters
<1> HIDE DEF n
<1> DEFINE f == [Resized(ps, n) EXCEPT ![p + 1] = v]
<1>3. Resized(ps, n) \in [1 .. n -> Values \cup {Default}]
  BY <1>1, <1>2 DEF Resized
<1>4. f \in [1 .. n -> Values \cup {Default}]
  BY <1>1, <1>3
<1> HIDE DEF f
<1>5. f \in UNION {[1 .. m -> Values \cup {Default}] : m \in Nat}
  BY <1>1, <1>4
<1>6. f \in Seq(Values \cup {Default})
  BY <1>5, SeqDef
<1>7. QED BY <1>6 DEF Bound, Parameters, f, n

(* mysql_stmt_bind.                                                        *)
LEMMA BindInv ==
  ASSUME IInv, NEW i \in Prepared, NEW p \in 0 .. ParameterLimit, NEW v \in Values,
         Bind(i, p, v)
  PROVE  IInv'
<1>1. i \in TemplateIds /\ statements[i] \in Statement
  BY DEF IInv, TypeOK, Prepared
<1> DEFINE ps == Bound(statements[i].parameters, p, v)
<1>2. ps \in Parameters
  BY <1>1, BoundType DEF Statement
<1> HIDE DEF ps
<1>3. /\ statements' = [statements EXCEPT ![i] = [@ EXCEPT !.parameters = ps]]
      /\ DOMAIN statements' = TemplateIds
  BY <1>1 DEF Bind, ps, IInv, TypeOK
<1>4. /\ statements'[i] \in Statement /\ statements'[i] # None
      /\ statements'[i].connection = statements[i].connection
      /\ \A j \in TemplateIds \ {i} : statements'[j] = statements[j]
  BY <1>1, <1>2, <1>3, NoneAssumption DEF Statement, IInv, TypeOK
<1>5. TypeOK'
  BY <1>3, <1>4 DEF IInv, TypeOK, Bind
<1>6. AsTold'
  BY <1>4 DEF IInv, AsTold, Bind, Prepared
<1>7. QED BY <1>5, <1>6 DEF IInv, OneId, SentToMaker, Bind

(* mysql_transaction_query.                                                *)
LEMMA AddQueryInv ==
  ASSUME IInv, NEW i \in Begun, NEW t \in Texts, AddQuery(i, t)
  PROVE  IInv'
<1>1. i \in TemplateIds /\ transactions[i] \in Transaction
  BY DEF IInv, TypeOK, Begun
<1> DEFINE qs == Append(transactions[i].queries, t)
<1>2. qs \in Seq(Texts)
  BY <1>1 DEF Transaction
<1> HIDE DEF qs
<1>3. /\ transactions' = [transactions EXCEPT ![i] = [@ EXCEPT !.queries = qs]]
      /\ DOMAIN transactions' = TemplateIds
  BY <1>1 DEF AddQuery, qs, IInv, TypeOK
<1>4. /\ transactions'[i] \in Transaction /\ transactions'[i] # None
      /\ transactions'[i].connection = transactions[i].connection
      /\ \A j \in TemplateIds \ {i} : transactions'[j] = transactions[j]
  BY <1>1, <1>2, <1>3, NoneAssumption DEF Transaction, IInv, TypeOK
<1>5. TypeOK'
  BY <1>3, <1>4 DEF IInv, TypeOK, AddQuery
<1>6. AsTold'
  BY <1>4 DEF IInv, AsTold, AddQuery, Begun
<1>7. QED BY <1>5, <1>6 DEF IInv, OneId, SentToMaker, AddQuery

(* mysql_stmt_execute.                                                     *)
LEMMA ExecuteInv ==
  ASSUME IInv, NEW i \in Prepared, Execute(i)
  PROVE  IInv'
<1> DEFINE s == statements[i]
           q == [of |-> "statement", sql |-> s.query, parameters |-> s.parameters,
                 for |-> statementOf[i]]
<1>1. i \in TemplateIds /\ s \in Statement /\ s.connection \in HandleIds
  BY DEF IInv, TypeOK, Prepared, Statement
<1>2. q \in Query
  BY <1>1 DEF IInv, TypeOK, Statement, Query
<1>3. q.for = connection[s.connection] /\ connection[s.connection] # None
  BY <1>1 DEF IInv, AsTold, Prepared, Execute
<1>4. QueueQuery(s.connection, q) /\ UNCHANGED connection
  BY DEF Execute
<1> HIDE DEF s, q
<1>5. /\ DOMAIN pending' = HandleIds
      /\ \A d \in HandleIds : /\ pending'[d] \in Seq(Query)
                              /\ Len(pending'[d]) =< QueueCapacity
      /\ SentToMaker'
  BY <1>1, <1>2, <1>3, <1>4, QueueQueryInv DEF IInv
<1>6. TypeOK'
  BY <1>5 DEF IInv, TypeOK, Execute
<1>7. QED BY <1>5, <1>6 DEF IInv, OneId, AsTold, Execute

(* mysql_transaction_commit: accepted and erased, or refused and kept.     *)
LEMMA CommitInv ==
  ASSUME IInv, NEW i \in Begun, Commit(i)
  PROVE  IInv'
<1> DEFINE t == transactions[i]
           q == [of |-> "transaction", queries |-> t.queries, for |-> transactionOf[i]]
<1>1. i \in TemplateIds /\ t \in Transaction /\ t.connection \in HandleIds
  BY DEF IInv, TypeOK, Begun, Transaction
<1>2. q \in Query
  BY <1>1 DEF IInv, TypeOK, Transaction, Query
<1>3. q.for = connection[t.connection] /\ connection[t.connection] # None
  BY <1>1 DEF IInv, AsTold, Begun, Commit
<1>4. QueueQuery(t.connection, q) /\ UNCHANGED connection
  BY DEF Commit
<1> HIDE DEF q
<1>5. /\ DOMAIN pending' = HandleIds
      /\ \A d \in HandleIds : /\ pending'[d] \in Seq(Query)
                              /\ Len(pending'[d]) =< QueueCapacity
      /\ SentToMaker'
  BY <1>1, <1>2, <1>3, <1>4, QueueQueryInv DEF IInv
<1>6. \/ UNCHANGED <<transactions, transactionOf>>
      \/ /\ transactions' = [transactions EXCEPT ![i] = None]
         /\ transactionOf' = [transactionOf EXCEPT ![i] = None]
  BY <1>1 DEF Commit, Committed, IInv, TypeOK
<1>7. TypeOK'
  BY <1>1, <1>5, <1>6 DEF IInv, TypeOK, Commit
<1>8. AsTold'
  BY <1>1, <1>6 DEF IInv, TypeOK, AsTold, Commit
<1>9. QED BY <1>5, <1>7, <1>8 DEF IInv, OneId, Commit

(* mysql_stmt_close.                                                       *)
LEMMA CloseStatementInv ==
  ASSUME IInv, NEW i \in Prepared, CloseStatement(i)
  PROVE  IInv'
<1>1. TypeOK' /\ AsTold'
  BY DEF IInv, TypeOK, AsTold, CloseStatement, Prepared
<1>2. QED BY <1>1 DEF IInv, OneId, SentToMaker, CloseStatement

(* mysql_transaction_rollback.                                             *)
LEMMA RollbackInv ==
  ASSUME IInv, NEW i \in Begun, Rollback(i)
  PROVE  IInv'
<1>1. TypeOK' /\ AsTold'
  BY DEF IInv, TypeOK, AsTold, Rollback, Begun
<1>2. QED BY <1>1 DEF IInv, OneId, SentToMaker, Rollback

(* A worker takes a query.                                                 *)
LEMMA TakeQueryInv ==
  ASSUME IInv, NEW c \in OpenIds, TakeQuery(c)
  PROVE  IInv'
<1>1. c \in HandleIds /\ pending[c] \in Seq(Query) /\ pending[c] # <<>>
  BY DEF IInv, TypeOK, OpenIds, TakeQuery
<1>2. /\ DOMAIN pending' = HandleIds
      /\ pending'[c] = Tail(pending[c])
      /\ \A d \in HandleIds \ {c} : pending'[d] = pending[d]
  BY <1>1 DEF IInv, TypeOK, TakeQuery
<1>3. /\ Tail(pending[c]) \in Seq(Query)
      /\ Len(Tail(pending[c])) = Len(pending[c]) - 1
      /\ \A k \in 1 .. Len(pending[c]) - 1 : Tail(pending[c])[k] = pending[c][k + 1]
  BY <1>1
<1>4. TypeOK'
  <2>1. Len(pending'[c]) =< QueueCapacity
    BY <1>1, <1>2, <1>3, BoundsAssumption DEF IInv, TypeOK
  <2>2. QED BY <1>2, <1>3, <2>1 DEF IInv, TypeOK, TakeQuery
<1>5. SentToMaker'
  <2>1. \A k \in 1 .. Len(pending'[c]) : k + 1 \in 1 .. Len(pending[c])
    BY <1>1, <1>2, <1>3
  <2>2. QED BY <1>2, <1>3, <2>1 DEF IInv, SentToMaker, TakeQuery
<1>6. QED BY <1>4, <1>5 DEF IInv, OneId, AsTold, TakeQuery

---------------------------------------------------------------------------
(* Nothing is open and no template exists.                                 *)
LEMMA InitInv == Init => IInv
BY BoundsAssumption DEF Init, IInv, TypeOK, OneId, AsTold, SentToMaker, TemplateIds

(* Every step keeps the invariant.                                         *)
LEMMA NextInv == IInv /\ [Next]_vars => IInv'
<1> SUFFICES ASSUME IInv, [Next]_vars PROVE IInv'
  OBVIOUS
<1>1. ASSUME NEW c \in FreshHandleIds, NEW h \in UnusedHandles, Connect(c, h) PROVE IInv'
  BY <1>1, ConnectInv
<1>2. ASSUME NEW c \in OpenIds, Close(c) \/ Begin(c) \/ TakeQuery(c) PROVE IInv'
  BY <1>2, CloseInv, BeginInv, TakeQueryInv
<1>3. ASSUME NEW c \in OpenIds, NEW t \in Texts, Prepare(c, t) PROVE IInv'
  BY <1>3, PrepareInv
<1>4. ASSUME NEW i \in Prepared, Execute(i) \/ CloseStatement(i) PROVE IInv'
  BY <1>4, ExecuteInv, CloseStatementInv
<1>5. ASSUME NEW i \in Prepared, NEW p \in 0 .. ParameterLimit, NEW v \in Values, Bind(i, p, v)
      PROVE  IInv'
  BY <1>5, BindInv
<1>6. ASSUME NEW i \in Begun, Commit(i) \/ Rollback(i) PROVE IInv'
  BY <1>6, CommitInv, RollbackInv
<1>7. ASSUME NEW i \in Begun, NEW t \in Texts, AddQuery(i, t) PROVE IInv'
  BY <1>7, AddQueryInv
<1>8. CASE UNCHANGED vars
  BY <1>8 DEF vars, IInv, TypeOK, OneId, AsTold, SentToMaker
<1>9. QED BY <1>1, <1>2, <1>3, <1>4, <1>5, <1>6, <1>7, <1>8 DEF Next

(* The invariant of every behaviour.                                       *)
LEMMA Invariant == Spec => []IInv
BY InitInv, NextInv, PTL DEF Spec

(* Types, template ids in range and bounded queues, for every width of the *)
(* counters of mysql_stmt_prepare and mysql_transaction_begin.             *)
THEOREM TypeCorrect == Spec => []TypeOK
<1>1. IInv => TypeOK
  BY DEF IInv
<1>2. QED BY <1>1, Invariant, PTL

(* A template is live exactly when the natives said so, and belongs to the *)
(* connection object it was made for (mysql_close, mysql_stmt_close,       *)
(* mysql_transaction_commit and mysql_transaction_rollback).               *)
THEOREM TemplatesAsTold == Spec => []AsTold
<1>1. IInv => AsTold
  BY DEF IInv
<1>2. QED BY <1>1, Invariant, PTL

(* A query made by mysql_stmt_execute or mysql_transaction_commit waits at *)
(* the object its template was made for.                                   *)
THEOREM QueriesSentToMaker == Spec => []SentToMaker
<1>1. IInv => SentToMaker
  BY DEF IInv
<1>2. QED BY <1>1, Invariant, PTL
=============================================================================
