-------------------------------- MODULE OrmRow --------------------------------
(***************************************************************************)
(* The values of one ORM object with an integer key, the queries that      *)
(* carry them, and the rows they end up in.                                *)
(*                                                                         *)
(* A query takes the cells' values when it is generated and its result is  *)
(* written back ticks later.  orm_save chooses between INSERT and UPDATE   *)
(* by the key in the cell, which is there only once the result of the      *)
(* INSERT has been applied.                                                *)
(*                                                                         *)
(* A script works on records, which are numbered; what the variables hold  *)
(* is the number of the record they are about, 0 when they are cleared.    *)
(* The table numbers its rows itself.  Queries run, and come back, in the  *)
(* order they were sent (QueryPipeline).  Orm has the life of objects.     *)
(***************************************************************************)
EXTENDS Integers, Sequences

CONSTANTS
  CellMax,     \* the largest row number a cell can hold (2^31 - 1)
  MaxRecords,  \* bound: records of the script
  MaxRows,     \* bound: rows ever inserted
  MaxFlight    \* bound: queries in flight

ASSUME OrmRowAssumption ==
  {CellMax, MaxRecords, MaxRows, MaxFlight} \subseteq Nat

VARIABLES
  key,      \* the cell of m_KeyVar
  value,    \* the cells of m_Vars
  error,    \* m_ErrorID
  sent,     \* the queries sent and not yet dispatched, oldest first
  rows,     \* the table: row number to record, "deleted" if it is gone
  records,  \* records so far
  trouble   \* history: a query failed or was refused, a row number did not fit
            \* a cell, or the script copied a row or did not wait

rowVars == <<key, value, error, sent, rows, records, trouble>>
cells == <<key, value, error>>

Deleted == -1
RowTypes == {"select", "update", "insert", "delete"}

(* The numbers in the text are what the type needs of the key and the      *)
(* variables; they are forgotten once it has run.  got is the record a     *)
(* SELECT has found, or the number of the row inserted (mysql_insert_id).  *)
RowQuery == [type : RowTypes, key : Nat, value : 0 .. MaxRecords, cancelled : BOOLEAN,
          got : Seq(Nat), state : {"waiting", "done", "failed"}]

RowTypeOK ==
  /\ key \in Nat /\ value \in 0 .. MaxRecords
  /\ error \in {"ok", "no_data"}
  /\ sent \in Seq(RowQuery) /\ Len(sent) =< MaxFlight
  /\ rows \in Seq({Deleted} \cup 0 .. MaxRecords) /\ Len(rows) =< MaxRows
  /\ records \in 0 .. MaxRecords
  /\ trouble \in BOOLEAN

RowInit ==
  /\ key = 0 /\ value = 0 /\ error = "ok"
  /\ sent = <<>> /\ rows = <<>>
  /\ records = 0 /\ trouble = FALSE

---------------------------------------------------------------------------
Exists(k) == k \in 1 .. Len(rows) /\ rows[k] # Deleted

(* A result is still to be written to the object.                          *)
Expecting ==
  \E i \in 1 .. Len(sent) :
    sent[i].type \in {"select", "insert"} /\ ~sent[i].cancelled

(* The text takes the numbers of the cells when it is generated.           *)
Sent(type, k) ==
  [type |-> type, cancelled |-> FALSE, got |-> <<>>, state |-> "waiting",
   key |-> IF type = "insert" THEN 0 ELSE k,
   value |-> IF type \in {"insert", "update"} THEN value ELSE 0]

(* QueueQuery takes the query with what the cells hold, or refuses it and  *)
(* the native returns 0.                                                   *)
SendRow(type, k) ==
  \/ /\ Len(sent) < MaxFlight
     /\ sent' = Append(sent, Sent(type, k))
     /\ trouble' = (trouble \/ Expecting)
  \/ UNCHANGED sent /\ trouble' = TRUE

---------------------------------------------------------------------------
(* The script begins another record.                                       *)
NewRecord ==
  /\ records < MaxRecords
  /\ records' = records + 1
  /\ key' = 0 /\ value' = records + 1
  /\ trouble' = (trouble \/ Expecting)
  /\ UNCHANGED <<error, sent, rows>>

(* It sets the key to that of a row and calls orm_select.                  *)
Select(k) ==
  /\ key' = k
  /\ SendRow("select", k)
  /\ UNCHANGED <<value, error, rows, records>>

(* orm_update; orm_insert of an object that has no key yet.                *)
Update == SendRow("update", key) /\ UNCHANGED <<cells, rows, records>>
Insert == SendRow("insert", key) /\ UNCHANGED <<cells, rows, records>>

(* GenerateSaveQuery: the key decides.                                     *)
HasKey == key > 0
Save == IF HasKey THEN Update ELSE Insert

(* orm_insert of an object that has a key copies its row.                  *)
Copy ==
  /\ key # 0
  /\ Insert
  /\ trouble'

ClearVariableValues == key' = 0 /\ value' = 0

(* orm_delete: the cells are cleared once the query is in the queue.       *)
Delete(clear) ==
  /\ SendRow("delete", key)
  /\ IF clear /\ sent' # sent THEN ClearVariableValues ELSE UNCHANGED <<key, value>>
  /\ UNCHANGED <<error, rows, records>>

(* orm_addvar_*, orm_delvar and orm_setkey take the results away.          *)
RebindRow ==
  /\ sent' = [i \in 1 .. Len(sent) |-> [sent[i] EXCEPT !.cancelled = TRUE]]
  /\ trouble' = (trouble \/ Expecting)
  /\ UNCHANGED <<cells, rows, records>>

---------------------------------------------------------------------------
(* The worker: the oldest query that has not run.                          *)

IsNext(i) ==
  /\ i \in 1 .. Len(sent) /\ sent[i].state = "waiting"
  /\ \A j \in 1 .. i - 1 : sent[j].state # "waiting"

RowsAfter(q) ==
  CASE q.type = "insert" -> Append(rows, q.value)
    [] q.type = "update" /\ Exists(q.key) -> [rows EXCEPT ![q.key] = q.value]
    [] q.type = "delete" /\ Exists(q.key) -> [rows EXCEPT ![q.key] = Deleted]
    [] OTHER -> rows

(* A SELECT that finds no row gets nothing.                                *)
ResultOf(q) ==
  CASE q.type = "insert" -> <<Len(rows) + 1>>
    [] q.type = "select" /\ Exists(q.key) -> <<rows[q.key]>>
    [] OTHER -> <<>>

Ran(i, state, got) ==
  sent' = [sent EXCEPT ![i].state = state, ![i].got = got, ![i].key = 0, ![i].value = 0]

Execute(i) ==
  /\ IsNext(i)
  /\ sent[i].type = "insert" => Len(rows) < MaxRows
  /\ rows' = RowsAfter(sent[i])
  /\ Ran(i, "done", ResultOf(sent[i]))
  /\ UNCHANGED <<cells, records, trouble>>

(* The query fails, or it has run and its answer is lost.                  *)
Fail(i) ==
  /\ IsNext(i)
  /\ sent[i].type = "insert" => Len(rows) < MaxRows
  /\ rows' \in {rows, RowsAfter(sent[i])}
  /\ Ran(i, "failed", <<>>)
  /\ trouble' = TRUE
  /\ UNCHANGED <<cells, records>>

---------------------------------------------------------------------------
(* ProcessCallbacks.                                                       *)

Returned == sent # <<>> /\ Head(sent).state # "waiting"
Applies == Head(sent).state = "done" /\ ~Head(sent).cancelled
Got == Head(sent).got

ApplySelectResult ==
  /\ Returned /\ Applies /\ Head(sent).type = "select"
  /\ IF Got = <<>> THEN error' = "no_data" /\ UNCHANGED value
                   ELSE error' = "ok" /\ value' = Got[1]
  /\ sent' = Tail(sent)
  /\ UNCHANGED <<key, rows, records, trouble>>

KeyUnset(id) == key          \* faulty variant: the row's number is not taken
KeyOf(id) == id

(* A row number that does not fit is not taken, and orm_errno says so.     *)
ApplyInsertResult ==
  /\ Returned /\ Applies /\ Head(sent).type = "insert"
  /\ IF Got[1] > CellMax
     THEN error' = "no_data" /\ trouble' = TRUE /\ UNCHANGED key
     ELSE error' = "ok" /\ key' = KeyOf(Got[1]) /\ UNCHANGED trouble
  /\ sent' = Tail(sent)
  /\ UNCHANGED <<value, rows, records>>

DropRow ==
  /\ Returned /\ ~(Applies /\ Head(sent).type \in {"select", "insert"})
  /\ sent' = Tail(sent)
  /\ UNCHANGED <<cells, rows, records, trouble>>

---------------------------------------------------------------------------
Script == \/ NewRecord \/ Update \/ Save \/ Copy \/ RebindRow
          \/ \E k \in 1 .. Len(rows) : Select(k)
          \/ \E clear \in BOOLEAN : Delete(clear)
Worker == \E i \in 1 .. MaxFlight : Execute(i) \/ Fail(i)
Main == ApplySelectResult \/ ApplyInsertResult \/ DropRow

RowNext == Script \/ Worker \/ Main

RowSpec == RowInit /\ [][RowNext]_rowVars

---------------------------------------------------------------------------
(* What a script may rely on if it waits for the result of a SELECT or an  *)
(* INSERT before it touches the object again: no record is ever in two     *)
(* rows, neither because it was inserted twice nor because it was written  *)
(* over the row of another.  (The cells orm_delete has cleared make rows   *)
(* of their own.)                                                          *)
OneRowPerRecord ==
  ~trouble => \A i, j \in 1 .. Len(rows) :
                i # j /\ rows[i] = rows[j] => rows[i] \in {Deleted, 0}

---------------------------------------------------------------------------
(* What OneRowPerRecord follows from, and is proved with in OrmProofs.     *)
(*                                                                         *)
(* A script that waits has updates and deletions in flight and, at the     *)
(* end, at most one query it waits for.                                    *)
Position == 1 .. Len(sent)
Waited(q) == q.type \in {"select", "insert"}

OneAwaited ==
  \A i \in Position :
    /\ sent[i].state # "failed"
    /\ Waited(sent[i]) => i = Len(sent) /\ ~sent[i].cancelled

(* The cells, and the updates on their way, are about the record their row *)
(* holds, unless the row is gone.                                          *)
Agree(k, v) == Exists(k) => rows[k] = v
CellsAgree == ~Expecting => Agree(key, value)
UpdatesAgree ==
  \A i \in Position :
    sent[i].type = "update" /\ sent[i].state = "waiting"
      => Agree(sent[i].key, sent[i].value)

(* A record that has no key yet is in no row.                              *)
InNoRow(v) == v = 0 \/ \A n \in 1 .. Len(rows) : rows[n] # v
KeylessIsNew == ~Expecting /\ key = 0 => InNoRow(value)

InsertAwaited ==
  \A i \in Position :
    sent[i].type = "insert"
      => /\ key = 0
         /\ sent[i].state = "waiting" => sent[i].value = value /\ InNoRow(value)
         /\ sent[i].state = "done"
              => /\ Len(sent[i].got) = 1
                 /\ sent[i].got[1] \in 1 .. Len(rows)
                 /\ rows[sent[i].got[1]] = value

SelectAwaited ==
  \A i \in Position :
    sent[i].type = "select"
      => /\ key > 0
         /\ sent[i].state = "waiting" => sent[i].key = key
         /\ sent[i].state = "done" =>
              IF Exists(key) THEN sent[i].got = <<rows[key]>> ELSE sent[i].got = <<>>

(* Records are numbered in order.                                          *)
Numbered ==
  /\ value =< records
  /\ \A n \in 1 .. Len(rows) : rows[n] =< records

InOrder ==
  /\ OneAwaited /\ CellsAgree /\ UpdatesAgree /\ KeylessIsNew
  /\ InsertAwaited /\ SelectAwaited /\ Numbered

(* What holds of any script: queries run in order, and a result is of the  *)
(* kind its query asked for.                                               *)
RunInOrder ==
  \A i, j \in Position :
    i < j /\ sent[i].state = "waiting" => sent[j].state = "waiting"

ResultsOfKind ==
  \A i \in Position :
    sent[i].state = "done"
      => /\ sent[i].type = "insert" => Len(sent[i].got) = 1
         /\ sent[i].type = "select" /\ sent[i].got # <<>>
              => sent[i].got[1] \in 0 .. MaxRecords

AnyScript == RowTypeOK /\ RunInOrder /\ ResultsOfKind
RowInv == AnyScript /\ OneRowPerRecord /\ (~trouble => InOrder)
=============================================================================
