--------------------------------- MODULE Orm ---------------------------------
(***************************************************************************)
(* ORM objects (COrm) and the queries that are in flight for them.         *)
(*                                                                         *)
(* An object binds columns to cells of script memory.  A SELECT or INSERT  *)
(* made from it comes back later with a raw pointer to the object, and     *)
(* ProcessCallbacks writes its result into the cells bound then.  Between  *)
(* the two a script may destroy the object, bind other cells or choose     *)
(* another key, close the connection or be unloaded.  What stands between  *)
(* is a weak pointer to m_Lifetime, a token each of these replaces or      *)
(* destroys, and two loops that destroy the objects of a connection and of *)
(* a script.                                                               *)
(*                                                                         *)
(* Everything but the execution runs on the main thread.  Queries come     *)
(* back in any order here, more than the code allows (QueryPipeline has    *)
(* the order).  The weak pointer of a query is a boolean: whether the      *)
(* token it watches is gone.  Objects are named by their address, which is *)
(* used again; so are handles and scripts.  Values, table names and the    *)
(* ids of objects are left out; orm_errno is kept.                         *)
(***************************************************************************)
EXTENDS Integers, SequencesExt

CONSTANTS
  Objects,     \* addresses of COrm objects
  Handles,     \* addresses of CMySQLHandle objects
  Scripts,     \* addresses of AMX objects
  Queries,     \* slots of queries in flight
  KeyNames,    \* columns bound to an integer or a string
  FloatNames,  \* columns bound to a float, which cannot be the key
  None

Names == KeyNames \cup FloatNames
Errors == {"ok", "no_data"}
Types == {"select", "insert", "update", "delete"}

(* A column and the script whose memory it is bound to.                    *)
Variables == [name : Names, memory : Scripts]

Object == [owner : Scripts, handle : Handles, vars : Seq(Variables),
           key : Variables \cup {None}, error : Errors]

(* bound is history: the bindings the query was generated from, as long as *)
(* it is not cancelled.                                                    *)
Query == [object : Objects, handle : Handles, owner : Scripts, type : Types,
          cancelled : BOOLEAN, bound : Seq(Variables) \X (Variables \cup {None})]

ASSUME NoneAssumption == None \notin Variables /\ None \notin Object /\ None \notin Query

VARIABLES
  open,    \* SUBSET Handles: SQLHandle
  loaded,  \* SUBSET Scripts: m_AmxList
  orm,     \* [Objects -> Object or None]: OrmHandle
  flight   \* [Queries -> Query or None]: sent and not yet dispatched

vars == <<open, loaded, orm, flight>>

TypeOK ==
  /\ open \in SUBSET Handles
  /\ loaded \in SUBSET Scripts
  /\ DOMAIN orm = Objects /\ DOMAIN flight = Queries
  /\ \A o \in Objects : orm[o] = None \/ orm[o] \in Object
  /\ \A q \in Queries : flight[q] = None \/ flight[q] \in Query

Init ==
  /\ open = {}
  /\ loaded = {}
  /\ orm = [o \in Objects |-> None]
  /\ flight = [q \in Queries |-> None]

---------------------------------------------------------------------------
Live == {o \in Objects : orm[o] # None}
InFlight == {q \in Queries : flight[q] # None}

NoBindings == <<<<>>, None>>
Bindings(o) == <<orm[o].vars, orm[o].key>>
BoundNames(o) ==
  {v.name : v \in ToSet(orm[o].vars) \cup ({orm[o].key} \ {None})}

(* The token of every object in lost is gone, or the script: queries that  *)
(* watch one are cancelled.                                                *)
TokenKept(q, lost) == flight[q]          \* faulty variant: m_Lifetime kept
Cancel(q, lost) ==
  IF flight[q] # None /\ flight[q].object \in lost
  THEN [flight[q] EXCEPT !.cancelled = TRUE, !.bound = NoBindings]
  ELSE flight[q]

(* COrm::Destroy for every object in lost.                                 *)
Without(lost) == [o \in Objects |-> IF o \in lost THEN None ELSE orm[o]]

(* COrm::ClearByHandle and COrm::ClearByAmx.                               *)
NoObjectsAt(h) == {}                     \* faulty variant: objects stay
NoObjectsOf(s) == {}                     \* faulty variant: objects stay
ObjectsAt(h) == {o \in Live : orm[o].handle = h}
ObjectsOf(s) == {o \in Live : orm[o].owner = s}

---------------------------------------------------------------------------
AmxLoad(s) ==
  /\ loaded' = loaded \cup {s}
  /\ UNCHANGED <<open, orm, flight>>

(* AmxUnload: the objects of the script, then its registration.            *)
AmxUnload(s) ==
  /\ loaded' = loaded \ {s}
  /\ orm' = Without(ObjectsOf(s))
  /\ flight' = [q \in Queries |->
       IF flight[q] # None /\ flight[q].owner = s
       THEN [flight[q] EXCEPT !.cancelled = TRUE, !.bound = NoBindings]
       ELSE Cancel(q, ObjectsOf(s))]
  /\ UNCHANGED open

Connect(h) ==
  /\ open' = open \cup {h}
  /\ UNCHANGED <<loaded, orm, flight>>

(* mysql_close: the objects, the handle with its queues, its callbacks.    *)
Close(h) ==
  /\ open' = open \ {h}
  /\ orm' = Without(ObjectsAt(h))
  /\ flight' = [q \in Queries |-> IF flight[q] # None /\ flight[q].handle = h
                                  THEN None ELSE Cancel(q, ObjectsAt(h))]
  /\ UNCHANGED loaded

---------------------------------------------------------------------------
(* orm_create.                                                             *)
Create(s, h, o) ==
  /\ orm' = [orm EXCEPT ![o] = [owner |-> s, handle |-> h, vars |-> <<>>,
                                key |-> None, error |-> "ok"]]
  /\ UNCHANGED <<open, loaded, flight>>

(* orm_destroy.                                                            *)
Destroy(o) ==
  /\ orm' = Without({o})
  /\ flight' = [q \in Queries |-> Cancel(q, {o})]
  /\ UNCHANGED <<open, loaded>>

(* Other bindings come with another token.                                 *)
Rebind(o, vs, k) ==
  /\ orm' = [orm EXCEPT ![o].vars = vs, ![o].key = k]
  /\ flight' = [q \in Queries |-> Cancel(q, {o})]
  /\ UNCHANGED <<open, loaded>>

(* orm_addvar_int, orm_addvar_float and orm_addvar_string.                 *)
AddVariable(o, v) ==
  /\ v.name \notin BoundNames(o)
  /\ Rebind(o, Append(orm[o].vars, v), orm[o].key)

(* orm_delvar.                                                             *)
RemoveVariable(o, n) ==
  \/ /\ orm[o].key # None /\ orm[o].key.name = n
     /\ Rebind(o, orm[o].vars, None)
  \/ \E i \in 1 .. Len(orm[o].vars) :
       /\ orm[o].vars[i].name = n
       /\ Rebind(o, RemoveAt(orm[o].vars, i), orm[o].key)

(* orm_setkey: the old key, if there is one, is a variable again.          *)
OldKey(o) == IF orm[o].key = None THEN <<>> ELSE <<orm[o].key>>

SetVariableAsKey(o, n) ==
  \E i \in 1 .. Len(orm[o].vars) :
    /\ orm[o].vars[i].name = n
    /\ n \in KeyNames
    /\ Rebind(o, RemoveAt(orm[o].vars, i) \o OldKey(o), orm[o].vars[i])

---------------------------------------------------------------------------
(* What a query can be generated for; orm_save chooses between the last    *)
(* two by the value of the key.                                            *)
CanGenerate(o, type) ==
  CASE type \in {"select", "update"} -> orm[o].key # None /\ orm[o].vars # <<>>
    [] type = "delete" -> orm[o].key # None
    [] type = "insert" -> TRUE

(* orm_select, orm_insert, orm_update, orm_delete, orm_save of script s.   *)
Send(s, o, q, type) ==
  /\ CanGenerate(o, type)
  /\ flight' = [flight EXCEPT ![q] =
       [object |-> o, handle |-> orm[o].handle, owner |-> s, type |-> type,
        cancelled |-> FALSE, bound |-> Bindings(o)]]
  /\ UNCHANGED <<open, loaded, orm>>

(* ProcessCallbacks: a cancelled query is deleted.                         *)
NeverCancelled(q) == FALSE               \* faulty variant: no test
Cancelled(q) == flight[q].cancelled
Drop(q) ==
  /\ Cancelled(q)
  /\ flight' = [flight EXCEPT ![q] = None]
  /\ UNCHANGED <<open, loaded, orm>>

(* The result of a SELECT or INSERT is applied.                            *)
Apply(q, e) ==
  /\ ~Cancelled(q)
  /\ flight[q].type \in {"select", "insert"}
  /\ orm' = [orm EXCEPT ![flight[q].object].error = e]
  /\ flight' = [flight EXCEPT ![q] = None]
  /\ UNCHANGED <<open, loaded>>

(* An UPDATE, a DELETE, or a query that failed and forgot its object.      *)
Finish(q) ==
  /\ ~Cancelled(q)
  /\ flight' = [flight EXCEPT ![q] = None]
  /\ UNCHANGED <<open, loaded, orm>>

(* orm_apply_cache: the active result of the object's handle.              *)
ApplyActiveResult(o, e) ==
  /\ orm' = [orm EXCEPT ![o].error = e]
  /\ UNCHANGED <<open, loaded, flight>>

---------------------------------------------------------------------------
Next ==
  \/ \E s \in Scripts \ loaded : AmxLoad(s)
  \/ \E s \in loaded : AmxUnload(s)
  \/ \E h \in Handles \ open : Connect(h)
  \/ \E h \in open : Close(h)
  \/ \E s \in loaded, h \in open, o \in Objects \ Live : Create(s, h, o)
  \/ loaded # {} /\ \E o \in Live :
       \/ Destroy(o)
       \/ \E n \in Names : RemoveVariable(o, n) \/ SetVariableAsKey(o, n)
       \/ \E e \in Errors : ApplyActiveResult(o, e)
  \/ \E s \in loaded, o \in Live :
       \/ \E n \in Names : AddVariable(o, [name |-> n, memory |-> s])
       \/ \E q \in Queries \ InFlight, type \in Types : Send(s, o, q, type)
  \/ \E q \in InFlight : Drop(q) \/ Finish(q) \/ \E e \in Errors : Apply(q, e)

Spec == Init /\ [][Next]_vars

---------------------------------------------------------------------------
(* A query that will be applied finds the object it was sent for, at the   *)
(* same handle and with the columns, cells and key it was generated from,  *)
(* whatever was destroyed, bound, closed and unloaded since and however    *)
(* the addresses were used again (README.md, 'invalida a aplicacao').      *)
FitsWhenApplied ==
  \A q \in InFlight : ~Cancelled(q) =>
    /\ flight[q].object \in Live
    /\ flight[q].bound = Bindings(flight[q].object)
    /\ flight[q].handle = orm[flight[q].object].handle
    /\ flight[q].owner \in loaded

(* Nothing an object refers to is gone: its connection is open, and the    *)
(* script that owns it, in whose memory it writes, is loaded.  Cells that  *)
(* another script bound to it are that script's to keep.                   *)
RefersToLiving ==
  \A o \in Live : orm[o].handle \in open /\ orm[o].owner \in loaded
=============================================================================
