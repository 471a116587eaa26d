-------------------------- MODULE ExecutionProofs --------------------------
(***************************************************************************)
(* Atomicity of transactions and the truth of what the script is told, for *)
(* transactions of any length and any number of queries.                   *)
(*                                                                         *)
(* AllOrNothing alone is not inductive.  While a transaction runs, its     *)
(* changes so far are exactly those of the open transaction of the session *)
(* and the connector knows of it, so that a session that is lost is not    *)
(* replaced before ROLLBACK (Transacting); between queries nothing is open.*)
(***************************************************************************)
EXTENDS Execution, TLAPS

InTransaction == {"statement", "results", "commit"}

(* What the transaction has changed so far.                                *)
Sofar == {query} \X (1 .. (IF pc = "statement" THEN index - 1 ELSE index))

(* Changes that are not durable are in the open transaction, which belongs *)
(* to a live session and to the query in execution.                        *)
OpenTransaction ==
  /\ ~db.open => db.writes = {}
  /\ session = "lost" => ~db.open
  /\ \A w \in db.writes : w[1] = query

ClosedOutside == pc \notin InTransaction \cup {"rollback"} => ~db.open

Transacting ==
  pc \in InTransaction =>
    /\ query \in Queries /\ kind[query] = "transaction"
    /\ told[query] = "-" /\ query \notin failed
    /\ pc = "commit" => index = Length
    /\ IF query \in implicit
       THEN ~db.open /\ Sofar \subseteq db.durable
       ELSE /\ inTrans /\ Durable(query) = {}
            /\ session = "live" => db.open /\ db.writes = Sofar

RollingBack ==
  pc = "rollback" =>
    /\ query \in Queries /\ kind[query] = "transaction"
    /\ told[query] = "-" /\ query \in failed
    /\ query \notin implicit \cup doubtful => Durable(query) = {}

(* Before its first change, and before its end, of a query.                *)
Starting ==
  pc \in {"plain", "prepare", "execute", "begin"} =>
    /\ query \in Queries /\ told[query] = "-"
    /\ query \notin failed /\ query \notin implicit
    /\ Durable(query) = {}
    /\ kind[query] = "transaction" <=> pc = "begin"

Storing ==
  pc \in {"fetch", "store"} =>
    /\ query \in Queries /\ told[query] = "-" /\ kind[query] # "transaction"
    /\ Durable(query) = {<<query, 1>>}

Future ==
  \A q \in Queries : q > query =>
    told[q] = "-" /\ q \notin failed /\ q \notin implicit /\ q \notin doubtful /\ Durable(q) = {}

Executing == pc = "executed" => query \in Queries

(* What the checked invariants say of one query.                           *)
Honest(q) ==
  /\ kind[q] = "transaction" /\ q \notin implicit => Durable(q) \in {{}, Whole(q)}
  /\ told[q] = "callback" => Durable(q) = Whole(q)
  /\ kind[q] = "transaction" /\ told[q] = "OnQueryError" /\ q \notin implicit \cup doubtful =>
       Durable(q) = {}
  /\ q \in failed /\ kind[q] = "transaction" /\ told[q] # "-" => told[q] = "OnQueryError"

AllHonest == \A q \in Queries : Honest(q)

IInv == TypeOK /\ OpenTransaction /\ ClosedOutside /\ Transacting /\ RollingBack
        /\ Starting /\ Storing /\ Future /\ Executing /\ AllHonest

(* The values of the database.                                             *)
Db == [durable : SUBSET Writes, open : BOOLEAN, writes : SUBSET Writes]

(* What a statement does inside and outside a transaction.                 *)
LEMMA WrittenValue ==
  ASSUME NEW d \in Db, NEW w \in Writes
  PROVE  /\ Written(d, w) \in Db /\ Written(d, w).open = d.open
         /\ d.open => Written(d, w).durable = d.durable /\ Written(d, w).writes = d.writes \cup {w}
         /\ ~d.open => Written(d, w).durable = d.durable \cup {w} /\ Written(d, w).writes = d.writes
BY DEF Db, Written

(* A commit makes the open transaction durable.                            *)
LEMMA CommittedValue ==
  ASSUME NEW d \in Db
  PROVE  /\ Committed(d) \in Db /\ ~Committed(d).open /\ Committed(d).writes = {}
         /\ Committed(d).durable = d.durable \cup d.writes
BY DEF Db, Committed

(* START TRANSACTION where none is open.                                   *)
LEMMA BegunValue ==
  ASSUME NEW d \in Db, d.writes = {}
  PROVE  Begun(d) \in Db /\ Begun(d).open /\ Begun(d).writes = {} /\ Begun(d).durable = d.durable
BY DEF Db, Begun, Committed

(* The end of a session undoes what is not durable.                        *)
LEMMA RolledBackValue ==
  ASSUME NEW d \in Db
  PROVE  /\ RolledBack(d) \in Db /\ ~RolledBack(d).open /\ RolledBack(d).writes = {}
         /\ RolledBack(d).durable = d.durable
BY DEF Db, RolledBack

(* A failed command opens nothing and adds at most what it would have made *)
(* durable, and that only when the session broke while it was executed.    *)
LEMMA FailedCommand ==
  ASSUME TypeOK, OpenTransaction, NEW done \in Db, Fails(done)
  PROVE  /\ db' \in Db /\ session' \in {"live", "lost"} /\ inTrans' \in BOOLEAN
         /\ db'.durable = db.durable
            \/ (db'.durable = done.durable /\ session = "live" /\ session' = "lost")
         /\ db'.writes \subseteq db.writes
         /\ db'.open => db.open
         /\ ~db'.open => db'.writes = {}
         /\ session' = "lost" => ~db'.open
<1>1. db \in Db
  BY DEF TypeOK, Db
<1>2. CASE Refused
  BY <1>1, <1>2, RolledBackValue DEF Refused, RefusedAs, TypeOK, OpenTransaction
<1>3. CASE NoAnswer(done)
  BY <1>1, <1>3, RolledBackValue DEF NoAnswer, TypeOK, OpenTransaction
<1>4. CASE Gone
  BY <1>1, <1>4 DEF Gone, TypeOK, OpenTransaction
<1>5. QED BY <1>2, <1>3, <1>4 DEF Fails

(* A step of the query in execution does not touch the others.             *)
LEMMA OthersKept ==
  ASSUME TypeOK, Future, AllHonest, query \in Queries, query' = query, kind' = kind,
         NEW what, told' \in {told, [told EXCEPT ![query] = what]},
         failed' \in {failed, failed \cup {query}},
         implicit' \in {implicit, implicit \cup {query}},
         doubtful' \in {doubtful, doubtful \cup {query}},
         db.durable \subseteq db'.durable,
         \A w \in db'.durable : w \in db.durable \/ w[1] = query
  PROVE  /\ Future'
         /\ \A q \in Queries \ {query} : Honest(q)'
<1>1. \A q \in Queries \ {query} :
        /\ Durable(q)' = Durable(q) /\ told'[q] = told[q] /\ Whole(q)' = Whole(q)
        /\ q \in failed' <=> q \in failed
        /\ q \in implicit' <=> q \in implicit
        /\ q \in doubtful' <=> q \in doubtful
  BY DEF TypeOK, Durable, Whole
<1>2. \A q \in Queries : q > query => q # query
  BY DEF TypeOK, Queries
<1>3. Future'
  BY <1>1, <1>2 DEF Future
<1>4. \A q \in Queries \ {query} : Honest(q)'
  BY <1>1 DEF AllHonest, Honest
<1>5. QED BY <1>3, <1>4

(* One statement, and all there is of it.                                  *)
LEMMA WriteOf ==
  ASSUME NEW q \in Queries, NEW i \in Indices
  PROVE  <<q, i>> \in Writes /\ <<q, i>>[1] = q /\ 1 \in Indices
BY ExecutionAssumption DEF Writes, Indices

(* What the script is told in the end.                                     *)
Outcomes == {"callback", "OnQueryError", "nothing"}

(* What every step of the query in execution keeps, if it keeps the query  *)
(* itself honest.                                                          *)
LEMMA StepOfQuery ==
  ASSUME IInv, query \in Queries, UNCHANGED <<autoReconnect, query, kind>>,
         index' \in Indices, db' \in Db,
         session' \in {"live", "lost"}, inTrans' \in BOOLEAN,
         NEW what \in Outcomes, told' \in {told, [told EXCEPT ![query] = what]},
         failed' \in {failed, failed \cup {query}},
         implicit' \in {implicit, implicit \cup {query}},
         doubtful' \in {doubtful, doubtful \cup {query}},
         db.durable \subseteq db'.durable,
         \A w \in db'.durable : w \in db.durable \/ w[1] = query,
         Honest(query)'
  PROVE  /\ pc' \in {"fetch", "execute", "store", "statement", "results",
                     "commit", "rollback", "executed"} => TypeOK'
         /\ Future' /\ AllHonest'
<1>1. TypeOK /\ Future /\ AllHonest
  BY DEF IInv
<1>2. Future' /\ \A q \in Queries \ {query} : Honest(q)'
  BY <1>1, OthersKept
<1>3. AllHonest'
  BY <1>2 DEF AllHonest
<1>4. told' \in [Queries -> {"-", "callback", "OnQueryError", "nothing"}]
  BY <1>1 DEF TypeOK, Outcomes
<1>5. pc' \in {"fetch", "execute", "store", "statement", "results",
               "commit", "rollback", "executed"} => TypeOK'
  BY <1>1, <1>4 DEF TypeOK, Db
<1>6. QED BY <1>2, <1>3, <1>5

(* The end of a query.                                                     *)
LEMMA Ends ==
  ASSUME IInv, query \in Queries, UNCHANGED <<autoReconnect, query, kind>>,
         index' \in Indices, db' \in Db, ~db'.open, db'.writes = {},
         session' \in {"live", "lost"}, inTrans' \in BOOLEAN,
         NEW what \in Outcomes, told' = [told EXCEPT ![query] = what],
         failed' \in {failed, failed \cup {query}},
         UNCHANGED <<implicit, doubtful>>,
         db.durable \subseteq db'.durable,
         \A w \in db'.durable : w \in db.durable \/ w[1] = query,
         Honest(query)', pc' = "executed"
  PROVE  IInv'
<1>1. TypeOK' /\ Future' /\ AllHonest'
  BY StepOfQuery
<1>2. OpenTransaction' /\ ClosedOutside' /\ Executing'
  BY DEF OpenTransaction, ClosedOutside, Executing
<1>3. Transacting' /\ RollingBack' /\ Starting' /\ Storing'
  BY DEF Transacting, RollingBack, Starting, Storing, InTransaction
<1>4. QED BY <1>1, <1>2, <1>3 DEF IInv

(* A query whose end is still to come is honest if a transaction has made  *)
(* nothing durable.                                                        *)
LEMMA HonestSoFar ==
  ASSUME told'[query'] = "-",
         kind'[query'] = "transaction" /\ query' \notin implicit' =>
           Durable(query)' \in {{}, Whole(query)'}
  PROVE  Honest(query)'
BY DEF Honest

(* The failure of a transaction.                                           *)
LEMMA RollsBack ==
  ASSUME IInv, query \in Queries, UNCHANGED <<autoReconnect, query, kind, index, told>>,
         db' \in Db, ~db'.open => db'.writes = {}, session' = "lost" => ~db'.open,
         db'.writes \subseteq db.writes,
         session' \in {"live", "lost"}, inTrans' \in BOOLEAN,
         kind[query] = "transaction", told[query] = "-",
         failed' = failed \cup {query},
         implicit' \in {implicit, implicit \cup {query}},
         doubtful' \in {doubtful, doubtful \cup {query}},
         db.durable \subseteq db'.durable,
         \A w \in db'.durable : w \in db.durable \/ w[1] = query,
         query \notin implicit' => Durable(query)' \in {{}, Whole(query)'},
         query \notin implicit' \cup doubtful' => Durable(query)' = {},
         pc' = "rollback"
  PROVE  IInv'
<1>1. Honest(query)'
  BY HonestSoFar
<1>2. TypeOK' /\ Future' /\ AllHonest'
  <2>1. index' \in Indices /\ "OnQueryError" \in Outcomes
    BY DEF IInv, TypeOK, Outcomes
  <2>2. told' \in {told, [told EXCEPT ![query] = "OnQueryError"]}
    OBVIOUS
  <2>3. QED BY <1>1, <2>1, <2>2, StepOfQuery
<1>3. OpenTransaction'
  BY DEF IInv, OpenTransaction
<1>4. ClosedOutside' /\ Executing' /\ Transacting' /\ Starting' /\ Storing'
  BY DEF ClosedOutside, Executing, Transacting, Starting, Storing, InTransaction
<1>5. RollingBack'
  BY DEF RollingBack
<1>6. QED BY <1>2, <1>3, <1>4, <1>5 DEF IInv

(* The first and only change of a query that is not a transaction.         *)
LEMMA Change ==
  ASSUME IInv, pc \in {"plain", "execute"}
  PROVE  /\ TypeOK /\ OpenTransaction /\ query \in Queries /\ db \in Db
         /\ ~db.open /\ db.writes = {}
         /\ told[query] = "-" /\ query \notin failed /\ kind[query] # "transaction"
         /\ Durable(query) = {} /\ Whole(query) = {<<query, 1>>}
         /\ Written(db, <<query, 1>>) \in Db /\ ~Written(db, <<query, 1>>).open
         /\ Written(db, <<query, 1>>).durable = db.durable \cup {<<query, 1>>}
         /\ Written(db, <<query, 1>>).writes = {}
<1>1. TypeOK /\ OpenTransaction /\ db \in Db /\ query \in Queries
  BY DEF IInv, TypeOK, Db, Starting
<1>2. /\ ~db.open /\ db.writes = {} /\ told[query] = "-" /\ query \notin failed
      /\ kind[query] # "transaction" /\ Durable(query) = {}
  BY DEF IInv, ClosedOutside, OpenTransaction, Starting, InTransaction
<1>3. 1 \in Indices
  BY ExecutionAssumption DEF Indices
<1>4. <<query, 1>> \in Writes
  BY <1>1, <1>3, WriteOf
<1>5. Whole(query) = {<<query, 1>>}
  BY <1>2 DEF Whole
<1>6. QED BY <1>1, <1>2, <1>4, <1>5, WrittenValue

(* A command of such a query fails.                                        *)
LEMMA CommandFails ==
  ASSUME IInv, query \in Queries, NEW done \in Db, ~db.open, db.writes = {},
         told[query] = "-", Durable(query) = {},
         kind[query] = "transaction" => done.durable = db.durable,
         kind[query] # "transaction" => done.durable \subseteq db.durable \cup {<<query, 1>>}
                                        /\ db.durable \subseteq done.durable,
         UNCHANGED <<autoReconnect, query, kind>>, index' \in Indices,
         Fails(done), Finish(SetError), Failure
  PROVE  IInv'
<1>1. /\ db' \in Db /\ session' \in {"live", "lost"} /\ inTrans' \in BOOLEAN
      /\ db'.durable \in {db.durable, done.durable} /\ ~db'.open /\ db'.writes = {}
  BY FailedCommand DEF IInv
<1>2. /\ told' = [told EXCEPT ![query] = "OnQueryError"] /\ pc' = "executed"
      /\ failed' = failed \cup {query} /\ UNCHANGED <<implicit, doubtful>>
  BY DEF Finish, Tell, SetError, Failure
<1>3. told'[query] = "OnQueryError"
  BY <1>2 DEF IInv, TypeOK
<1>4. kind[query] = "transaction" => Durable(query)' = {}
  BY <1>1 DEF Durable
<1>5. Honest(query)'
  BY <1>3, <1>4 DEF Honest
<1>6. \A w \in db'.durable : w \in db.durable \/ w[1] = query
  BY <1>1
<1>7. db.durable \subseteq db'.durable
  BY <1>1
<1>8. "OnQueryError" \in Outcomes
  BY DEF Outcomes
<1>9. QED BY <1>1, <1>2, <1>5, <1>6, <1>7, <1>8, Ends

(* Its change is made: the result is to be stored.                         *)
LEMMA Changed ==
  ASSUME IInv, pc \in {"plain", "execute"},
         Answered(Written(db, <<query, 1>>)), pc' \in {"fetch", "store"},
         UNCHANGED <<autoReconnect, query, index, kind, told, failed, implicit, doubtful>>
  PROVE  IInv'
<1>1. /\ db' = Written(db, <<query, 1>>) /\ session' = "live" /\ inTrans' = FALSE
      /\ db'.durable = db.durable \cup {<<query, 1>>} /\ ~db'.open /\ db'.writes = {} /\ db' \in Db
  BY Change DEF Answered
<1>2. Durable(query)' = {<<query, 1>>}
  BY <1>1, Change DEF Durable
<1>3. Honest(query)'
  BY Change, HonestSoFar
<1>4. TypeOK' /\ Future' /\ AllHonest'
  <2>1. \A w \in db'.durable : w \in db.durable \/ w[1] = query
    BY <1>1
  <2>2. index' \in Indices /\ "callback" \in Outcomes /\ query \in Queries
    BY Change DEF TypeOK, Outcomes
  <2>3. QED BY <1>1, <1>3, <2>1, <2>2, StepOfQuery
<1>5. OpenTransaction' /\ ClosedOutside' /\ Executing' /\ Transacting' /\ RollingBack' /\ Starting'
  BY <1>1 DEF OpenTransaction, ClosedOutside, Executing, Transacting, RollingBack, Starting, InTransaction
<1>6. Storing'
  BY <1>2, Change DEF Storing
<1>7. QED BY <1>4, <1>5, <1>6 DEF IInv

(* A plain query: CMySQLQuery::Execute.                                    *)
LEMMA PlainInv ==
  ASSUME IInv, Plain
  PROVE  IInv'
<1> DEFINE done == Written(db, <<query, 1>>)
<1>1. pc = "plain" /\ UNCHANGED <<autoReconnect, query, index, kind>>
  BY DEF Plain
<1>2. CASE Answered(done) /\ pc' = "fetch" /\ NoFailure /\ UNCHANGED told
  BY <1>1, <1>2, Changed DEF NoFailure, history
<1>3. CASE Fails(done) /\ Finish(SetError) /\ Failure
  <2>1. index' \in Indices
    BY <1>1 DEF IInv, TypeOK
  <2>2. QED BY <1>1, <1>3, <2>1, Change, CommandFails
<1>4. QED BY <1>2, <1>3 DEF Plain

(* mysql_stmt_execute.                                                     *)
LEMMA ExecutePreparedInv ==
  ASSUME IInv, ExecutePrepared
  PROVE  IInv'
<1> DEFINE done == Written(db, <<query, 1>>)
<1>1. pc = "execute" /\ UNCHANGED <<autoReconnect, query, index, kind>>
  BY DEF ExecutePrepared
<1>2. CASE Answered(done) /\ pc' = "store" /\ NoFailure /\ UNCHANGED told
  BY <1>1, <1>2, Changed DEF NoFailure, history
<1>3. CASE Fails(done) /\ Finish(SetError) /\ Failure
  <2>1. index' \in Indices
    BY <1>1 DEF IInv, TypeOK
  <2>2. QED BY <1>1, <1>3, <2>1, Change, CommandFails
<1>4. QED BY <1>2, <1>3 DEF ExecutePrepared

(* mysql_stmt_execute on a session that did not prepare the statement.     *)
LEMMA ExecuteStaleInv ==
  ASSUME IInv, ExecuteStale
  PROVE  IInv'
<1>1. /\ pc = "execute" /\ session' = "live" /\ inTrans' = FALSE
      /\ UNCHANGED <<autoReconnect, db, query, index, kind, implicit, doubtful>>
      /\ told' = [told EXCEPT ![query] = "OnQueryError"] /\ pc' = "executed"
      /\ failed' = failed \cup {query}
  BY DEF ExecuteStale, Finish, Tell, SetError, Failure
<1>2. told'[query] = "OnQueryError" /\ kind'[query] # "transaction"
  BY <1>1, Change DEF TypeOK
<1>3. Honest(query)'
  BY <1>1, <1>2 DEF Honest
<1>4. index' \in Indices /\ "OnQueryError" \in Outcomes
  BY <1>1 DEF IInv, TypeOK, Outcomes
<1>5. QED BY <1>1, <1>3, <1>4, Change, Ends

(* The result is stored, or not.                                           *)
LEMMA Stored ==
  ASSUME IInv, pc \in {"fetch", "store"}, NEW what \in Outcomes, Finish(what),
         UNCHANGED <<autoReconnect, session, db, inTrans, query, index, kind>>,
         NoFailure \/ Failure
  PROVE  IInv'
<1>1. /\ query \in Queries /\ told[query] = "-" /\ kind[query] # "transaction"
      /\ Durable(query) = {<<query, 1>>} /\ ~db.open /\ db.writes = {} /\ db \in Db
  BY DEF IInv, TypeOK, Db, Storing, ClosedOutside, OpenTransaction, InTransaction
<1>2. /\ told' = [told EXCEPT ![query] = what] /\ pc' = "executed"
      /\ failed' \in {failed, failed \cup {query}} /\ UNCHANGED <<implicit, doubtful>>
  BY DEF Finish, Tell, NoFailure, Failure, history
<1>3. Durable(query)' = Whole(query)'
  BY <1>1 DEF Durable, Whole
<1>4. Honest(query)'
  BY <1>1, <1>3 DEF Honest
<1>5. /\ index' \in Indices /\ db' \in Db /\ ~db'.open /\ db'.writes = {}
      /\ session' \in {"live", "lost"} /\ inTrans' \in BOOLEAN
      /\ db.durable \subseteq db'.durable
      /\ \A w \in db'.durable : w \in db.durable \/ w[1] = query
  BY <1>1 DEF IInv, TypeOK
<1>6. QED BY <1>1, <1>2, <1>4, <1>5, Ends

(* StoreResult and the further result sets of a plain query.               *)
LEMMA FetchInv ==
  ASSUME IInv, Fetch
  PROVE  IInv'
<1>1. PICK what \in Outcomes : Finish(what) /\ (NoFailure \/ Failure)
  BY DEF Fetch, Outcomes
<1>2. QED BY <1>1, Stored DEF Fetch

(* The result of a prepared statement.                                     *)
LEMMA StorePreparedResultInv ==
  ASSUME IInv, StorePreparedResult
  PROVE  IInv'
<1>1. PICK what \in Outcomes : Finish(what) /\ (NoFailure \/ Failure)
  BY DEF StorePreparedResult, Outcomes, SetError
<1>2. QED BY <1>1, Stored DEF StorePreparedResult

(* mysql_stmt_prepare.                                                     *)
LEMMA PrepareInv ==
  ASSUME IInv, Prepare
  PROVE  IInv'
<1>1. /\ query \in Queries /\ told[query] = "-" /\ kind[query] # "transaction"
      /\ query \notin failed /\ query \notin implicit /\ Durable(query) = {}
      /\ ~db.open /\ db.writes = {} /\ db \in Db /\ pc = "prepare"
      /\ UNCHANGED <<autoReconnect, query, index, kind>> /\ index' \in Indices
  BY DEF Prepare, IInv, TypeOK, Db, Starting, ClosedOutside, OpenTransaction, InTransaction
<1>2. CASE Answered(db) /\ pc' = "execute" /\ NoFailure /\ UNCHANGED told
  <2>1. /\ UNCHANGED <<session, db, told, failed, implicit, doubtful>> /\ inTrans' = FALSE
        /\ pc' = "execute"
    BY <1>1, <1>2 DEF Answered, NoFailure, history
  <2>2. Durable(query)' = {}
    BY <1>1, <2>1 DEF Durable
  <2>3. Honest(query)'
    BY <1>1, <2>1, HonestSoFar
  <2>4. TypeOK' /\ Future' /\ AllHonest'
    <3>1. session' \in {"live", "lost"} /\ "callback" \in Outcomes
      BY <2>1 DEF IInv, TypeOK, Outcomes
    <3>2. QED BY <1>1, <2>1, <2>3, <3>1, StepOfQuery
  <2>5. OpenTransaction' /\ ClosedOutside' /\ Executing' /\ Transacting' /\ RollingBack' /\ Storing'
    BY <1>1, <2>1 DEF OpenTransaction, ClosedOutside, Executing, Transacting, RollingBack, Storing, InTransaction
  <2>6. Starting'
    BY <1>1, <2>1, <2>2 DEF Starting
  <2>7. QED BY <2>4, <2>5, <2>6 DEF IInv
<1>3. CASE Fails(db) /\ Finish(SetError) /\ Failure
  BY <1>1, <1>3, CommandFails
<1>4. QED BY <1>2, <1>3 DEF Prepare

(* START TRANSACTION.                                                      *)
LEMMA BeginInv ==
  ASSUME IInv, Begin
  PROVE  IInv'
<1>1. /\ query \in Queries /\ told[query] = "-" /\ kind[query] = "transaction"
      /\ query \notin failed /\ query \notin implicit /\ Durable(query) = {}
      /\ ~db.open /\ db.writes = {} /\ db \in Db /\ pc = "begin"
      /\ UNCHANGED <<autoReconnect, query, kind>> /\ index' = 1 /\ index' \in Indices
  BY ExecutionAssumption
  DEF Begin, IInv, TypeOK, Db, Indices, Starting, ClosedOutside, OpenTransaction, InTransaction
<1>2. Begun(db) \in Db /\ Begun(db).open /\ Begun(db).writes = {} /\ Begun(db).durable = db.durable
  BY <1>1, BegunValue
<1>3. CASE Answered(Begun(db)) /\ pc' = "statement" /\ NoFailure /\ UNCHANGED told
  <2>1. /\ db' = Begun(db) /\ session' = "live" /\ inTrans' = TRUE /\ pc' = "statement"
        /\ UNCHANGED <<told, failed, implicit, doubtful>>
    BY <1>2, <1>3 DEF Answered, NoFailure, history
  <2>2. Durable(query)' = {}
    BY <1>1, <1>2, <2>1 DEF Durable
  <2>3. Honest(query)'
    BY <1>1, <2>1, <2>2, HonestSoFar
  <2>4. TypeOK' /\ Future' /\ AllHonest'
    <3>1. db.durable \subseteq db'.durable /\ \A w \in db'.durable : w \in db.durable
      BY <1>2, <2>1
    <3>2. "callback" \in Outcomes
      BY DEF Outcomes
    <3>3. db' \in Db
      BY <1>2, <2>1
    <3>4. QED BY <1>1, <2>1, <2>3, <3>1, <3>2, <3>3, StepOfQuery
  <2>5. OpenTransaction' /\ ClosedOutside' /\ Executing' /\ RollingBack' /\ Storing' /\ Starting'
    BY <1>1, <1>2, <2>1
    DEF OpenTransaction, ClosedOutside, Executing, RollingBack, Storing, Starting, InTransaction
  <2>6. Sofar' = {}
    <3>1. Sofar' = {query} \X (1 .. 0)
      BY <1>1, <2>1 DEF Sofar
    <3>2. QED BY <3>1
  <2>7. Transacting'
    BY <1>1, <1>2, <2>1, <2>2, <2>6 DEF Transacting
  <2>8. QED BY <2>4, <2>5, <2>7 DEF IInv
<1>4. CASE Fails(Begun(db)) /\ Finish(SetError) /\ Failure
  BY <1>1, <1>2, <1>4, CommandFails
<1>5. QED BY <1>3, <1>4 DEF Begin

(* What is known while a transaction runs.                                 *)
LEMMA Running ==
  ASSUME IInv, pc \in InTransaction
  PROVE  /\ query \in Queries /\ kind[query] = "transaction" /\ told[query] = "-"
         /\ query \notin failed /\ db \in Db /\ TypeOK /\ OpenTransaction /\ index \in Indices
         /\ <<query, index>> \in Writes
         /\ query \in implicit => ~db.open /\ db.writes = {} /\ Sofar \subseteq db.durable
         /\ query \notin implicit =>
              /\ Durable(query) = {}
              /\ session = "live" => db.open /\ db.writes = Sofar
<1>1. /\ query \in Queries /\ kind[query] = "transaction" /\ told[query] = "-"
      /\ query \notin failed /\ db \in Db /\ TypeOK /\ OpenTransaction /\ index \in Indices
  BY DEF IInv, Transacting, TypeOK, Db
<1>2. query \in implicit => ~db.open /\ db.writes = {} /\ Sofar \subseteq db.durable
  BY DEF IInv, Transacting, OpenTransaction
<1>3. query \notin implicit =>
        Durable(query) = {} /\ (session = "live" => db.open /\ db.writes = Sofar)
  BY DEF IInv, Transacting
<1>4. <<query, index>> \in Writes
  BY <1>1, WriteOf
<1>5. QED BY <1>1, <1>2, <1>3, <1>4

(* A transaction goes on to its next command, all its changes so far being *)
(* in the open transaction, or durable after an implicit commit.           *)
LEMMA GoesOn ==
  ASSUME IInv, pc \in InTransaction, pc' \in InTransaction,
         UNCHANGED <<autoReconnect, query, kind, told, failed, doubtful>>,
         index' \in Indices, db' \in Db,
         session' \in {"live", "lost"}, inTrans' \in BOOLEAN,
         implicit' \in {implicit, implicit \cup {query}},
         db.durable \subseteq db'.durable,
         \A w \in db'.durable : w \in db.durable \/ w[1] = query,
         OpenTransaction', pc' = "commit" => index' = Length,
         query \in implicit' => ~db'.open /\ Sofar' \subseteq db'.durable,
         query \notin implicit' =>
           /\ inTrans' /\ Durable(query)' = {}
           /\ session' = "live" => db'.open /\ db'.writes = Sofar'
  PROVE  IInv'
<1>1. /\ query \in Queries /\ kind[query] = "transaction" /\ told[query] = "-"
      /\ query \notin failed
  BY Running
<1>2. Honest(query)'
  BY <1>1, HonestSoFar
<1>3. TypeOK' /\ Future' /\ AllHonest'
  <2>1. "callback" \in Outcomes
    BY DEF Outcomes
  <2>2. QED BY <1>1, <1>2, <2>1, StepOfQuery DEF InTransaction
<1>4. Transacting'
  BY <1>1 DEF Transacting
<1>5. ClosedOutside' /\ Executing' /\ RollingBack' /\ Storing' /\ Starting'
  BY DEF ClosedOutside, Executing, RollingBack, Storing, Starting, InTransaction
<1>6. QED BY <1>3, <1>4, <1>5 DEF IInv

(* The changes up to a statement are those before it and its own.          *)
LEMMA SofarStatement ==
  ASSUME TypeOK, pc = "statement"
  PROVE  Sofar \cup {<<query, index>>} = {query} \X (1 .. index)
<1>1. index \in Nat \ {0}
  BY ExecutionAssumption DEF TypeOK, Indices
<1>2. Sofar = {query} \X (1 .. index - 1)
  BY DEF Sofar
<1>3. 1 .. index = (1 .. index - 1) \cup {index}
  BY <1>1
<1>4. QED BY <1>2, <1>3

(* A statement of a transaction, with or without an implicit commit.       *)
LEMMA StatementInv ==
  ASSUME IInv, Statement
  PROVE  IInv'
<1>1. /\ pc = "statement" /\ pc \in InTransaction
      /\ UNCHANGED <<autoReconnect, query, index, kind, told, doubtful>>
  BY DEF Statement, InTransaction
<1> DEFINE written == Written(db, <<query, index>>)
<1>2. PICK ddl \in BOOLEAN :
        LET done == IF ddl THEN Committed(written) ELSE written IN
        /\ implicit' = IF ddl THEN implicit \cup {query} ELSE implicit
        /\ \/ Answered(done) /\ pc' = "results" /\ UNCHANGED failed
           \/ /\ Fails(done) \/ (ddl /\ RefusedAs(Committed(db)))
              /\ pc' = AfterFailure /\ failed' = failed \cup {query}
  BY DEF Statement
<1> DEFINE done == IF ddl THEN Committed(written) ELSE written
<1>3. /\ query \in Queries /\ kind[query] = "transaction" /\ told[query] = "-"
      /\ db \in Db /\ TypeOK /\ OpenTransaction /\ index \in Indices
  BY <1>1, Running
<1>4. /\ written \in Db /\ written.open = db.open
      /\ db.open => written.durable = db.durable /\ written.writes = db.writes \cup {<<query, index>>}
      /\ ~db.open => written.durable = db.durable \cup {<<query, index>>} /\ written.writes = db.writes
  BY <1>1, Running, WrittenValue
<1>5. /\ done \in Db
      /\ ddl => ~done.open /\ done.writes = {} /\ done.durable = written.durable \cup written.writes
      /\ ~ddl => done = written
  BY <1>4, CommittedValue
<1>6. /\ db.durable \subseteq done.durable
      /\ \A w \in done.durable : w \in db.durable \/ w[1] = query
  BY <1>3, <1>4, <1>5 DEF OpenTransaction
<1>7. /\ implicit' \in {implicit, implicit \cup {query}}
      /\ query \in implicit' <=> ddl \/ query \in implicit
  BY <1>2
<1>8. CASE Answered(done) /\ pc' = "results" /\ UNCHANGED failed
  <2>1. /\ session = "live" /\ session' = "live" /\ db' = done /\ inTrans' = done.open
        /\ pc' \in InTransaction /\ inTrans' \in BOOLEAN
    BY <1>5, <1>8 DEF Answered, InTransaction, Db
  <2>2. Sofar' = Sofar \cup {<<query, index>>}
    <3>1. Sofar' = {query} \X (1 .. index)
      BY <1>1, <1>8 DEF Sofar
    <3>2. QED BY <1>1, <1>3, <3>1, SofarStatement
  <2>3. query \in implicit' => ~db'.open /\ Sofar' \subseteq db'.durable
    BY <1>1, <1>4, <1>5, <1>7, <2>1, <2>2, Running
  <2>4. query \notin implicit' => /\ inTrans' /\ Durable(query)' = {}
                                  /\ db'.open /\ db'.writes = Sofar'
    BY <1>1, <1>4, <1>5, <1>7, <2>1, <2>2, Running DEF Durable
  <2>5. OpenTransaction'
    BY <1>1, <1>3, <1>4, <1>5, <2>1 DEF OpenTransaction
  <2>6. QED BY <1>1, <1>3, <1>5, <1>6, <1>7, <1>8, <2>1, <2>3, <2>4, <2>5, GoesOn
<1>9. CASE /\ Fails(done) \/ (ddl /\ RefusedAs(Committed(db)))
           /\ pc' = AfterFailure /\ failed' = failed \cup {query}
  <2>1. /\ db' \in Db /\ session' \in {"live", "lost"} /\ inTrans' \in BOOLEAN
        /\ db'.writes \subseteq db.writes
        /\ ~db'.open => db'.writes = {}
        /\ session' = "lost" => ~db'.open
        /\ db.durable \subseteq db'.durable
        /\ \A w \in db'.durable : w \in db.durable \/ w[1] = query
        /\ ~ddl /\ db.durable # db'.durable => db'.durable = done.durable /\ session = "live"
    <3>1. CASE Fails(done)
      BY <1>3, <1>5, <1>6, <3>1, FailedCommand
    <3>2. CASE ddl /\ RefusedAs(Committed(db))
      BY <1>3, <3>2, CommittedValue DEF RefusedAs, TypeOK, OpenTransaction
    <3>3. QED BY <1>9, <3>1, <3>2
  <2>2. query \notin implicit' => Durable(query)' = {}
    <3>1. SUFFICES ASSUME query \notin implicit'
                   PROVE  db'.durable = db.durable
      BY <1>1, <1>7, Running DEF Durable
    <3>2. ~ddl /\ (session = "live" => db.open)
      BY <1>1, <1>7, <3>1, Running
    <3>3. QED BY <1>4, <1>5, <2>1, <3>2
  <2>3. pc' = "rollback" /\ UNCHANGED <<index, told>>
    BY <1>1, <1>9 DEF AfterFailure
  <2>4. QED BY <1>1, <1>3, <1>7, <1>9, <2>1, <2>2, <2>3, RollsBack
<1>10. QED BY <1>2, <1>8, <1>9

(* The results of a statement are read: the next one, or COMMIT.           *)
LEMMA ResultsInv ==
  ASSUME IInv, Results
  PROVE  IInv'
<1>1. /\ pc = "results" /\ pc \in InTransaction
      /\ UNCHANGED <<autoReconnect, session, db, inTrans, query, kind, told, failed, implicit, doubtful>>
      /\ \/ index < Length /\ index' = index + 1 /\ pc' = "statement"
         \/ ~(index < Length) /\ pc' = "commit" /\ index' = index
  BY DEF Results, NextStatement, MoreStatements, history, InTransaction
<1>2. /\ index' \in Indices /\ pc' \in InTransaction
      /\ pc' = "commit" => index' = Length
  BY <1>1, Running, ExecutionAssumption DEF Indices, InTransaction
<1>3. Sofar' = Sofar
  <2>1. Sofar = {query} \X (1 .. index)
    BY <1>1 DEF Sofar
  <2>2. (IF pc' = "statement" THEN index' - 1 ELSE index') = index
    BY <1>1, Running, ExecutionAssumption DEF Indices
  <2>3. QED BY <1>1, <2>1, <2>2 DEF Sofar
<1>4. OpenTransaction' /\ Durable(query)' = Durable(query)
  BY <1>1 DEF IInv, OpenTransaction, Durable
<1>5. /\ query \in implicit => ~db.open /\ Sofar \subseteq db.durable
      /\ query \notin implicit => inTrans /\ Durable(query) = {}
                                  /\ (session = "live" => db.open /\ db.writes = Sofar)
  BY <1>1 DEF IInv, Transacting
<1>6. db' \in Db /\ session' \in {"live", "lost"} /\ inTrans' \in BOOLEAN
  BY <1>1 DEF IInv, TypeOK, Db
<1>7. QED BY <1>1, <1>2, <1>3, <1>4, <1>5, <1>6, GoesOn

(* A statement of a transaction fails in a later result.                   *)
LEMMA LateErrorInv ==
  ASSUME IInv, LateError
  PROVE  IInv'
<1>1. /\ pc = "results" /\ pc \in InTransaction /\ Fails(db) /\ pc' = "rollback"
      /\ UNCHANGED <<autoReconnect, query, index, kind, told, implicit, doubtful>>
      /\ failed' = failed \cup {query}
  BY DEF LateError, FailedResult, AfterFailure, Failure, InTransaction
<1>2. /\ db' \in Db /\ session' \in {"live", "lost"} /\ inTrans' \in BOOLEAN
      /\ db'.durable = db.durable /\ db'.writes \subseteq db.writes
      /\ ~db'.open => db'.writes = {}
      /\ session' = "lost" => ~db'.open
  BY <1>1, Running, FailedCommand
<1>3. query \notin implicit' => Durable(query)' = {}
  BY <1>1, <1>2, Running DEF Durable
<1>4. QED BY <1>1, <1>2, <1>3, Running, RollsBack

(* COMMIT, and the loss of its answer.                                     *)
LEMMA CommitInv ==
  ASSUME IInv, Commit
  PROVE  IInv'
<1> DEFINE done == Committed(db)
<1>1. /\ pc = "commit" /\ pc \in InTransaction /\ index = Length
      /\ UNCHANGED <<autoReconnect, query, index, kind>>
  BY DEF Commit, IInv, Transacting, InTransaction
<1>2. /\ query \in Queries /\ kind[query] = "transaction" /\ told[query] = "-"
      /\ query \notin failed /\ db \in Db /\ TypeOK /\ OpenTransaction /\ index' \in Indices
  BY <1>1, Running
<1>3. done \in Db /\ ~done.open /\ done.writes = {} /\ done.durable = db.durable \cup db.writes
  BY <1>2, CommittedValue
<1>4. Sofar = Whole(query) /\ Whole(query)' = Whole(query)
  BY <1>1, <1>2 DEF Sofar, Whole, Indices
<1>5. /\ db.durable \subseteq done.durable
      /\ \A w \in done.durable : w \in db.durable \/ w[1] = query
  BY <1>2, <1>3 DEF OpenTransaction
<1>6. session = "live" => {w \in done.durable : w[1] = query} = Whole(query)
  <2>1. ASSUME session = "live", query \notin implicit
        PROVE  {w \in done.durable : w[1] = query} = Whole(query)
    <3>1. Durable(query) = {} /\ db.writes = Whole(query)
      BY <1>1, <1>4, <2>1, Running
    <3>2. \A w \in Whole(query) : w[1] = query
      BY DEF Whole
    <3>3. QED BY <1>3, <3>1, <3>2 DEF Durable
  <2>2. ASSUME session = "live", query \in implicit
        PROVE  {w \in done.durable : w[1] = query} = Whole(query)
    <3>1. db.writes = {} /\ Whole(query) \subseteq db.durable
      BY <1>1, <1>4, <2>2, Running
    <3>2. \A w \in Writes : w[1] = query => w \in Whole(query)
      BY <1>2 DEF Writes, Whole
    <3>3. \A w \in Whole(query) : w[1] = query
      BY DEF Whole
    <3>4. db.durable \subseteq Writes
      BY <1>2 DEF Db
    <3>5. QED BY <1>3, <3>1, <3>2, <3>3, <3>4
  <2>3. QED BY <2>1, <2>2
<1>7. CASE Answered(done) /\ Finish("callback") /\ NoFailure
  <2>1. /\ db' = done /\ session = "live" /\ session' = "live" /\ inTrans' = FALSE
        /\ told' = [told EXCEPT ![query] = "callback"] /\ pc' = "executed"
        /\ UNCHANGED <<failed, implicit, doubtful>>
    BY <1>3, <1>7 DEF Answered, Finish, Tell, NoFailure, history, Db
  <2>2. Durable(query)' = Whole(query)'
    BY <1>1, <1>4, <1>6, <2>1 DEF Durable
  <2>3. told'[query] = "callback"
    BY <1>2, <2>1 DEF TypeOK
  <2>4. Honest(query)'
    BY <1>1, <1>2, <2>1, <2>2, <2>3 DEF Honest
  <2>5. "callback" \in Outcomes
    BY DEF Outcomes
  <2>6. QED BY <1>1, <1>2, <1>3, <1>5, <2>1, <2>4, <2>5, Ends
<1>8. CASE /\ Fails(done) /\ CommitFailed
           /\ failed' = failed \cup {query} /\ UNCHANGED implicit
           /\ doubtful' = IF session = "live" /\ session' = "lost"
                          THEN doubtful \cup {query} ELSE doubtful
  <2>1. /\ db' \in Db /\ session' \in {"live", "lost"} /\ inTrans' \in BOOLEAN
        /\ db'.durable = db.durable
           \/ (db'.durable = done.durable /\ session = "live" /\ session' = "lost")
        /\ db'.writes \subseteq db.writes
        /\ ~db'.open => db'.writes = {}
        /\ session' = "lost" => ~db'.open
    BY <1>2, <1>3, <1>8, FailedCommand
  <2>2. pc' = "rollback" /\ UNCHANGED told
    BY <1>8 DEF CommitFailed, AfterFailure
  <2>3. query \notin implicit' => Durable(query)' \in {{}, Whole(query)'}
    <3>1. CASE db'.durable = db.durable
      BY <1>1, <1>8, <3>1, Running DEF Durable
    <3>2. CASE db'.durable = done.durable /\ session = "live"
      BY <1>1, <1>4, <1>6, <3>2 DEF Durable
    <3>3. QED BY <2>1, <3>1, <3>2
  <2>4. query \notin implicit' \cup doubtful' => Durable(query)' = {}
    <3>1. query \notin doubtful' => db'.durable = db.durable
      BY <1>8, <2>1
    <3>2. QED BY <1>1, <1>8, <3>1, Running DEF Durable
  <2>5. /\ db.durable \subseteq db'.durable
        /\ \A w \in db'.durable : w \in db.durable \/ w[1] = query
    BY <1>5, <2>1
  <2>6. /\ doubtful' \in {doubtful, doubtful \cup {query}}
        /\ implicit' \in {implicit, implicit \cup {query}}
        /\ failed' = failed \cup {query}
    BY <1>8
  <2>7. QED BY <1>1, <1>2, <2>1, <2>2, <2>3, <2>4, <2>5, <2>6, RollsBack
<1>9. QED BY <1>7, <1>8 DEF Commit

(* ROLLBACK, whose failure is not looked at.                               *)
LEMMA RollbackInv ==
  ASSUME IInv, Rollback
  PROVE  IInv'
<1>1. /\ pc = "rollback" /\ UNCHANGED <<autoReconnect, query, index, kind, failed, implicit, doubtful>>
      /\ Answered(Undone) \/ NoAnswer(Undone) \/ Gone
      /\ told' = [told EXCEPT ![query] = "OnQueryError"] /\ pc' = "executed"
  BY DEF Rollback, Finish, Tell, SetError, history
<1>2. /\ query \in Queries /\ kind[query] = "transaction" /\ query \in failed
      /\ query \notin implicit \cup doubtful => Durable(query) = {}
      /\ db \in Db /\ TypeOK /\ OpenTransaction /\ Honest(query) /\ index \in Indices
  BY <1>1 DEF IInv, RollingBack, AllHonest, TypeOK, Db
<1>3. /\ Undone \in Db /\ ~Undone.open /\ Undone.writes = {} /\ Undone.durable = db.durable
  BY <1>2, RolledBackValue DEF Undone
<1>4. /\ db' \in Db /\ ~db'.open /\ db'.writes = {} /\ db'.durable = db.durable
      /\ session' \in {"live", "lost"} /\ inTrans' \in BOOLEAN
  <2>1. CASE Answered(Undone)
    BY <1>3, <2>1 DEF Answered, Db
  <2>2. CASE NoAnswer(Undone)
    BY <1>2, <1>3, <2>2, RolledBackValue DEF NoAnswer, TypeOK
  <2>3. CASE Gone
    BY <1>2, <2>3 DEF Gone, TypeOK, OpenTransaction
  <2>4. QED BY <1>1, <2>1, <2>2, <2>3
<1>5. Durable(query)' = Durable(query) /\ Whole(query)' = Whole(query)
  BY <1>1, <1>4 DEF Durable, Whole
<1>6. told'[query] = "OnQueryError"
  BY <1>1, <1>2 DEF TypeOK
<1>7. Honest(query)'
  BY <1>1, <1>2, <1>5, <1>6 DEF Honest
<1>8. "OnQueryError" \in Outcomes /\ index' \in Indices
  BY <1>1, <1>2 DEF Outcomes
<1>9. QED BY <1>1, <1>2, <1>4, <1>7, <1>8, Ends

---------------------------------------------------------------------------
(* Steps that leave the queries as they are: only the session changes, and *)
(* the worker's place outside a query.                                     *)
LEMMA SameQueries ==
  ASSUME IInv, db' \in Db, db'.durable = db.durable,
         UNCHANGED <<query, kind, told, failed, implicit, doubtful>>
  PROVE  /\ Future' /\ AllHonest'
         /\ \A q \in Queries : Durable(q)' = Durable(q)
<1>1. \A q \in Queries : Durable(q)' = Durable(q) /\ Whole(q)' = Whole(q)
  BY DEF Durable, Whole
<1>2. Future'
  BY <1>1 DEF IInv, Future
<1>3. AllHonest'
  BY <1>1 DEF IInv, AllHonest, Honest
<1>4. QED BY <1>1, <1>2, <1>3

(* A session that is lost takes its open transaction with it; one that     *)
(* replaces it has none.                                                   *)
LEMMA SessionChanges ==
  ASSUME IInv, UNCHANGED <<autoReconnect, pc, query, index, kind, told, failed, implicit, doubtful>>,
         db' = RolledBack(db), session' \in {"live", "lost"}, inTrans' \in BOOLEAN,
         pc \in InTransaction /\ query \notin implicit => session' = "lost" /\ inTrans' = inTrans
  PROVE  IInv'
<1>1. /\ db' \in Db /\ ~db'.open /\ db'.writes = {} /\ db'.durable = db.durable
  BY RolledBackValue DEF IInv, TypeOK, Db
<1>2. Future' /\ AllHonest' /\ \A q \in Queries : Durable(q)' = Durable(q)
  BY <1>1, SameQueries
<1>3. TypeOK'
  BY <1>1 DEF IInv, TypeOK, Db
<1>4. OpenTransaction' /\ ClosedOutside' /\ Executing'
  BY <1>1 DEF IInv, OpenTransaction, ClosedOutside, Executing
<1>5. RollingBack' /\ Starting' /\ Storing'
  BY <1>2 DEF IInv, RollingBack, Starting, Storing
<1>6. Sofar' = Sofar
  BY DEF Sofar
<1>7. Transacting'
  BY <1>1, <1>2, <1>6 DEF IInv, Transacting
<1>8. QED BY <1>2, <1>3, <1>4, <1>5, <1>7 DEF IInv

(* The server closes the session.                                          *)
LEMMA ServerClosesSessionInv ==
  ASSUME IInv, ServerClosesSession
  PROVE  IInv'
<1>1. inTrans' \in BOOLEAN
  BY DEF IInv, TypeOK, ServerClosesSession
<1>2. QED BY <1>1, SessionChanges DEF ServerClosesSession, history

(* mysql_reconnect between two queries.                                    *)
LEMMA ReopenInv ==
  ASSUME IInv, Reopen
  PROVE  IInv'
BY SessionChanges DEF Reopen, history, InTransaction

(* With no session there is no open transaction to roll back.              *)
LEMMA NothingToRollBack ==
  ASSUME IInv, session = "lost"
  PROVE  db = RolledBack(db)
<1>1. db \in Db /\ db.open = FALSE /\ db.writes = {}
  BY DEF IInv, TypeOK, OpenTransaction, Db
<1>2. QED BY <1>1 DEF RolledBack, Db

(* The connector replaces the session, never inside a transaction.         *)
LEMMA ConnectorReconnectsInv ==
  ASSUME IInv, ConnectorReconnects
  PROVE  IInv'
<1>1. session = "lost" /\ ~inTrans
  BY DEF ConnectorReconnects, MayReconnect
<1>2. pc \in InTransaction => query \in implicit
  BY <1>1 DEF IInv, Transacting
<1>3. QED BY <1>1, <1>2, NothingToRollBack, SessionChanges DEF ConnectorReconnects, history

(* ProcessQueries replaces the session after a failed query.               *)
LEMMA PluginReconnectsInv ==
  ASSUME IInv, PluginReconnects
  PROVE  IInv'
BY NothingToRollBack, SessionChanges DEF PluginReconnects, history, InTransaction

(* The query is handed to the callback queue.                              *)
LEMMA HandInv ==
  ASSUME IInv, Hand
  PROVE  IInv'
<1>1. /\ pc = "executed" /\ pc' = "idle"
      /\ UNCHANGED <<autoReconnect, session, db, inTrans, query, index, kind, told, failed, implicit, doubtful>>
  BY DEF Hand, history
<1>2. Future' /\ AllHonest'
  BY <1>1, SameQueries DEF IInv, TypeOK, Db
<1>3. TypeOK' /\ OpenTransaction' /\ ClosedOutside'
  BY <1>1 DEF IInv, TypeOK, OpenTransaction, ClosedOutside, InTransaction
<1>4. Transacting' /\ RollingBack' /\ Starting' /\ Storing' /\ Executing'
  BY <1>1 DEF Transacting, RollingBack, Starting, Storing, Executing, InTransaction
<1>5. QED BY <1>2, <1>3, <1>4 DEF IInv

(* The next query begins.                                                  *)
LEMMA PopInv ==
  ASSUME IInv, Pop
  PROVE  IInv'
<1>1. /\ pc = "idle" /\ query < MaxQueries /\ query' = query + 1
      /\ pc' = FirstCommand(kind[query'])
      /\ UNCHANGED <<autoReconnect, session, db, inTrans, index, kind, told, failed, implicit, doubtful>>
  BY DEF Pop, history
<1>2. query \in Nat /\ query' \in Queries /\ query' > query /\ MaxQueries \in Nat
  BY <1>1, ExecutionAssumption DEF IInv, TypeOK, Queries
<1>3. kind[query'] \in Kinds
  BY <1>2 DEF IInv, TypeOK
<1>4. pc' \in {"plain", "prepare", "begin"} /\ (kind[query'] = "transaction" <=> pc' = "begin")
  BY <1>1, <1>3 DEF FirstCommand, Kinds
<1>5. \A q \in Queries : Durable(q)' = Durable(q) /\ Whole(q)' = Whole(q)
  BY <1>1 DEF Durable, Whole
<1>6. TypeOK'
  BY <1>1, <1>2, <1>4 DEF IInv, TypeOK, Queries
<1>7. ~db.open /\ db.writes = {}
  BY <1>1 DEF IInv, OpenTransaction, ClosedOutside, InTransaction
<1>8. OpenTransaction' /\ ClosedOutside'
  BY <1>1, <1>7 DEF OpenTransaction, ClosedOutside
<1>9. Transacting' /\ RollingBack' /\ Storing' /\ Executing'
  BY <1>4 DEF Transacting, RollingBack, Storing, Executing, InTransaction
<1>10. Starting'
  BY <1>1, <1>2, <1>4, <1>5 DEF IInv, Future, Starting
<1>11. Future'
  BY <1>1, <1>2, <1>5 DEF IInv, Future, Queries
<1>12. AllHonest'
  BY <1>1, <1>5 DEF IInv, AllHonest, Honest
<1>13. QED BY <1>6, <1>8, <1>9, <1>10, <1>11, <1>12 DEF IInv

---------------------------------------------------------------------------
(* A connection that has executed nothing.                                 *)
LEMMA InitInv == Init => IInv
<1> SUFFICES ASSUME Init PROVE IInv
  OBVIOUS
<1>1. TypeOK
  <2>1. 0 \in 0 .. MaxQueries /\ 1 \in Indices
    BY ExecutionAssumption DEF Indices
  <2>2. db \in [durable : SUBSET Writes, open : BOOLEAN, writes : SUBSET Writes]
    BY DEF Init
  <2>3. told \in [Queries -> {"-", "callback", "OnQueryError", "nothing"}]
    BY DEF Init
  <2>4. QED BY <2>1, <2>2, <2>3 DEF Init, TypeOK
<1>2. \A q \in Queries : Durable(q) = {} /\ told[q] = "-"
  BY DEF Init, Durable
<1>3. OpenTransaction /\ ClosedOutside /\ Transacting /\ RollingBack /\ Starting /\ Storing /\ Executing
  BY DEF Init, OpenTransaction, ClosedOutside, Transacting, RollingBack, Starting, Storing,
         Executing, InTransaction
<1>4. Future /\ AllHonest
  BY <1>2 DEF Init, Future, AllHonest, Honest
<1>5. QED BY <1>1, <1>3, <1>4 DEF IInv

(* Nothing happens.                                                        *)
LEMMA StutterInv == IInv /\ UNCHANGED vars => IInv'
<1> SUFFICES ASSUME IInv, UNCHANGED vars PROVE IInv'
  OBVIOUS
<1>1. UNCHANGED <<autoReconnect, session, db, inTrans, pc, query, index, kind, told,
                  failed, implicit, doubtful>>
  BY DEF vars, history
<1>2. Future' /\ AllHonest' /\ \A q \in Queries : Durable(q)' = Durable(q)
  BY <1>1, SameQueries DEF IInv, TypeOK, Db
<1>3. Sofar' = Sofar
  BY <1>1 DEF Sofar
<1>4. TypeOK' /\ OpenTransaction' /\ ClosedOutside' /\ Executing'
  BY <1>1 DEF IInv, TypeOK, OpenTransaction, ClosedOutside, Executing
<1>5. Transacting' /\ RollingBack' /\ Starting' /\ Storing'
  BY <1>1, <1>2, <1>3 DEF IInv, Transacting, RollingBack, Starting, Storing
<1>6. QED BY <1>2, <1>4, <1>5 DEF IInv

(* The invariant holds in every reachable state.                           *)
THEOREM Inductive == Spec => []IInv
<1>1. IInv /\ [Next]_vars => IInv'
  <2> SUFFICES ASSUME IInv, [Next]_vars PROVE IInv'
    OBVIOUS
  <2>1. CASE Pop \/ Hand
    BY <2>1, PopInv, HandInv
  <2>2. CASE Execute
    BY <2>2, PlainInv, FetchInv, PrepareInv, ExecutePreparedInv, ExecuteStaleInv,
       StorePreparedResultInv, BeginInv, StatementInv, ResultsInv, LateErrorInv,
       CommitInv, RollbackInv
    DEF Execute
  <2>3. CASE Sessions
    BY <2>3, ConnectorReconnectsInv, PluginReconnectsInv, ReopenInv, ServerClosesSessionInv
    DEF Sessions
  <2>4. CASE UNCHANGED vars
    BY <2>4, StutterInv
  <2>5. QED BY <2>1, <2>2, <2>3, <2>4 DEF Next
<1>2. QED BY InitInv, <1>1, PTL DEF Spec

(* Every variable keeps its type, for any length of transactions and any   *)
(* number of queries.                                                      *)
THEOREM ExecutionTypes == Spec => []TypeOK
<1>1. IInv => TypeOK
  BY DEF IInv
<1>2. QED BY Inductive, <1>1, PTL

(* ExecuteTransaction makes the changes of a transaction durable together  *)
(* or not at all, whenever the session is lost or replaced.                *)
THEOREM TransactionsAreAtomic == Spec => []AllOrNothing
<1>1. IInv => AllOrNothing
  BY DEF IInv, AllHonest, Honest, AllOrNothing
<1>2. QED BY Inductive, <1>1, PTL

(* A script whose callback is called has its changes in the database.      *)
THEOREM CallbackMeansDurable == Spec => []SuccessIsDurable
<1>1. IInv => SuccessIsDurable
  BY DEF IInv, AllHonest, Honest, SuccessIsDurable
<1>2. QED BY Inductive, <1>1, PTL

(* OnQueryError for a transaction means that nothing was applied, unless   *)
(* the answer to COMMIT was lost.                                          *)
THEOREM ErrorMeansNothing == Spec => []ErrorIsTruthful
<1>1. IInv => ErrorIsTruthful
  BY DEF IInv, AllHonest, Honest, ErrorIsTruthful
<1>2. QED BY Inductive, <1>1, PTL

(* No transaction is open between two queries.                             *)
THEOREM NothingStaysOpen == Spec => []SessionClean
<1>1. IInv => SessionClean
  BY DEF IInv, ClosedOutside, OpenTransaction, InTransaction, SessionClean
<1>2. QED BY Inductive, <1>1, PTL

(* A transaction of which a statement failed ends in OnQueryError.         *)
THEOREM FailureOfTransactionTold == Spec => []TransactionFailureTold
<1>1. IInv => TransactionFailureTold
  BY DEF IInv, AllHonest, Honest, TransactionFailureTold, TypeOK
<1>2. QED BY Inductive, <1>1, PTL

=============================================================================
