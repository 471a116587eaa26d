------------------------------ MODULE OrmProofs ------------------------------
(***************************************************************************)
(* ORM objects and the queries in flight for them, for any number of       *)
(* objects, handles, scripts, columns and queries.  The checked properties *)
(* and the types are inductive together: a query that is not cancelled     *)
(* pins the bindings of its object, because every operation that changes   *)
(* them replaces the token the query watches.                              *)
(*                                                                         *)
(* And the values of one object (OrmRow), for any bounds on the    *)
(* records, the rows, the queries in flight and what a cell holds.         *)
(***************************************************************************)
EXTENDS Orm, OrmRow, TLAPS

IInv == TypeOK /\ FitsWhenApplied /\ RefersToLiving

(* A query that will be applied fits its object; FitsWhenApplied says this *)
(* of every query in flight.                                               *)
Fits(q) ==
  /\ flight[q].object \in Live
  /\ flight[q].bound = Bindings(flight[q].object)
  /\ flight[q].handle = orm[flight[q].object].handle
  /\ flight[q].owner \in loaded

---------------------------------------------------------------------------
(* A query keeps its type and loses its bindings when it is cancelled.     *)
LEMMA CancelledQuery ==
  ASSUME NEW r \in Query
  PROVE  LET c == [r EXCEPT !.cancelled = TRUE, !.bound = NoBindings]
         IN  c \in Query /\ c.cancelled /\ c # None
<1> DEFINE c == [r EXCEPT !.cancelled = TRUE, !.bound = NoBindings]
<1>1. NoBindings \in Seq(Variables) \X (Variables \cup {None})
  <2>1. <<>> \in Seq(Variables)
    OBVIOUS
  <2>2. QED BY <2>1 DEF NoBindings
<1>2. c \in Query /\ c.cancelled
  BY <1>1 DEF Query
<1>3. QED BY <1>2, NoneAssumption

(* After the tokens of lost are gone, a query in flight was in flight; one *)
(* that is not cancelled is unchanged and watches none of them.            *)
LEMMA AfterCancel ==
  ASSUME TypeOK, NEW lost, NEW q \in Queries
  PROVE  /\ Cancel(q, lost) = None \/ Cancel(q, lost) \in Query
         /\ Cancel(q, lost) # None /\ ~Cancel(q, lost).cancelled =>
              /\ q \in InFlight /\ Cancel(q, lost) = flight[q] /\ ~Cancelled(q)
              /\ flight[q].object \notin lost
<1>1. CASE flight[q] # None /\ flight[q].object \in lost
  <2>1. flight[q] \in Query
    BY <1>1 DEF TypeOK
  <2>2. QED BY <1>1, <2>1, CancelledQuery DEF Cancel
<1>2. CASE ~(flight[q] # None /\ flight[q].object \in lost)
  BY <1>2 DEF Cancel, TypeOK, InFlight, Cancelled
<1>3. QED BY <1>1, <1>2

(* A step that cancels at least the queries of every object it changes,    *)
(* and of every script it unloads, keeps the others fitting.               *)
LEMMA FitsKept ==
  ASSUME IInv, NEW lost,
         \A q \in Queries : flight'[q] # None /\ ~flight'[q].cancelled =>
           /\ q \in InFlight /\ flight'[q] = flight[q] /\ ~Cancelled(q)
           /\ flight[q].object \notin lost
           /\ flight[q].owner \in loaded',
         \A o \in Live \ lost : orm'[o] = orm[o]
  PROVE  FitsWhenApplied'
<1> SUFFICES ASSUME NEW q \in Queries, flight'[q] # None, ~flight'[q].cancelled
             PROVE  Fits(q)'
  BY DEF FitsWhenApplied, InFlight, Cancelled, Fits
<1>1. /\ flight'[q] = flight[q] /\ flight[q].object \in Live \ lost
      /\ flight[q].bound = Bindings(flight[q].object)
      /\ flight[q].handle = orm[flight[q].object].handle
      /\ flight[q].owner \in loaded'
  BY DEF IInv, FitsWhenApplied
<1>2. orm'[flight[q].object] = orm[flight[q].object]
  BY <1>1
<1>3. QED BY <1>1, <1>2 DEF Fits, Live, Bindings

---------------------------------------------------------------------------
(* A script is registered.                                                 *)
LEMMA AmxLoadInv ==
  ASSUME IInv, NEW s \in Scripts, AmxLoad(s)
  PROVE  IInv'
BY DEF IInv, AmxLoad, TypeOK, FitsWhenApplied, RefersToLiving, Live, InFlight, Cancelled,
       Bindings

(* A handle is created.                                                    *)
LEMMA ConnectInv ==
  ASSUME IInv, NEW h \in Handles, Connect(h)
  PROVE  IInv'
BY DEF IInv, Connect, TypeOK, FitsWhenApplied, RefersToLiving, Live, InFlight, Cancelled,
       Bindings

(* AmxUnload destroys the script's objects and expires its queries.        *)
LEMMA AmxUnloadInv ==
  ASSUME IInv, NEW s \in loaded, AmxUnload(s)
  PROVE  IInv'
<1> DEFINE lost == ObjectsOf(s)
<1>1. ASSUME NEW q \in Queries
      PROVE  /\ flight'[q] = None \/ flight'[q] \in Query
             /\ flight'[q] # None /\ ~flight'[q].cancelled =>
                  /\ q \in InFlight /\ flight'[q] = flight[q] /\ ~Cancelled(q)
                  /\ flight[q].object \notin lost
                  /\ flight[q].owner \in loaded'
  <2>1. CASE flight[q] # None /\ flight[q].owner = s
    <3>1. flight[q] \in Query
      BY <2>1 DEF IInv, TypeOK
    <3>2. flight'[q] = [flight[q] EXCEPT !.cancelled = TRUE, !.bound = NoBindings]
      BY <2>1 DEF AmxUnload
    <3>3. QED BY <3>1, <3>2, CancelledQuery
  <2>2. CASE ~(flight[q] # None /\ flight[q].owner = s)
    <3>1. flight'[q] = Cancel(q, lost)
      BY <2>2 DEF AmxUnload
    <3>2. q \in InFlight /\ ~Cancelled(q) => flight[q].owner \in loaded'
      BY <2>2 DEF IInv, FitsWhenApplied, AmxUnload, InFlight
    <3>3. TypeOK
      BY DEF IInv
    <3>4. QED BY <3>1, <3>2, <3>3, AfterCancel
  <2>3. QED BY <2>1, <2>2
<1>2. \A o \in Objects : orm'[o] = IF o \in lost THEN None ELSE orm[o]
  BY DEF AmxUnload, Without
<1>3. TypeOK'
  BY <1>1, <1>2 DEF IInv, TypeOK, AmxUnload, Without
<1>4. FitsWhenApplied'
  <2>1. \A o \in Live \ lost : orm'[o] = orm[o]
    BY <1>2 DEF Live
  <2> HIDE DEF lost
  <2>2. QED BY <1>1, <2>1, FitsKept
<1>5. RefersToLiving'
  BY <1>2 DEF IInv, RefersToLiving, Live, ObjectsOf, AmxUnload
<1>6. QED BY <1>3, <1>4, <1>5 DEF IInv

(* mysql_close destroys the objects of the handle; its queries are gone.   *)
LEMMA CloseInv ==
  ASSUME IInv, NEW h \in open, Close(h)
  PROVE  IInv'
<1> DEFINE lost == ObjectsAt(h)
<1>0. TypeOK
  BY DEF IInv
<1>1. ASSUME NEW q \in Queries
      PROVE  /\ flight'[q] = None \/ flight'[q] \in Query
             /\ flight'[q] # None /\ ~flight'[q].cancelled =>
                  /\ q \in InFlight /\ flight'[q] = flight[q] /\ ~Cancelled(q)
                  /\ flight[q].object \notin lost
                  /\ flight[q].owner \in loaded'
  <2>1. CASE flight[q] # None /\ flight[q].handle = h
    BY <2>1 DEF Close
  <2>2. CASE ~(flight[q] # None /\ flight[q].handle = h)
    <3>1. flight'[q] = Cancel(q, lost)
      BY <2>2 DEF Close
    <3>2. q \in InFlight /\ ~Cancelled(q) => flight[q].owner \in loaded'
      BY DEF IInv, FitsWhenApplied, Close
    <3>3. QED BY <1>0, <3>1, <3>2, AfterCancel
  <2>3. QED BY <2>1, <2>2
<1>2. \A o \in Objects : orm'[o] = IF o \in lost THEN None ELSE orm[o]
  BY DEF Close, Without
<1>3. TypeOK'
  BY <1>1, <1>2 DEF IInv, TypeOK, Close, Without
<1>4. FitsWhenApplied'
  <2>1. \A o \in Live \ lost : orm'[o] = orm[o]
    BY <1>2 DEF Live
  <2> HIDE DEF lost
  <2>2. QED BY <1>1, <2>1, FitsKept
<1>5. RefersToLiving'
  BY <1>2 DEF IInv, RefersToLiving, Live, ObjectsAt, Close
<1>6. QED BY <1>3, <1>4, <1>5 DEF IInv

---------------------------------------------------------------------------
(* A step that cancels the queries of o and leaves the other objects, the  *)
(* scripts and the handles alone.                                          *)
LEMMA ObjectChanged ==
  ASSUME IInv, NEW o \in Objects,
         DOMAIN orm' = Objects, orm'[o] = None \/ orm'[o] \in Object,
         orm'[o] # None => orm'[o].handle \in open /\ orm'[o].owner \in loaded,
         \A p \in Objects \ {o} : orm'[p] = orm[p],
         flight' = [q \in Queries |-> Cancel(q, {o})],
         UNCHANGED <<open, loaded>>
  PROVE  IInv'
<1>1. TypeOK
  BY DEF IInv
<1>2. \A q \in Queries : flight'[q] = None \/ flight'[q] \in Query
  BY <1>1, AfterCancel
<1>3. TypeOK'
  BY <1>2 DEF IInv, TypeOK
<1>4. FitsWhenApplied'
  <2>1. \A q \in Queries : flight'[q] # None /\ ~flight'[q].cancelled =>
          /\ q \in InFlight /\ flight'[q] = flight[q] /\ ~Cancelled(q)
          /\ flight[q].object \notin {o}
    BY <1>1, AfterCancel
  <2>2. \A q \in InFlight : ~Cancelled(q) => flight[q].owner \in loaded'
    BY DEF IInv, FitsWhenApplied
  <2>3. \A p \in Live \ {o} : orm'[p] = orm[p]
    BY DEF Live
  <2>4. QED BY <2>1, <2>2, <2>3, FitsKept
<1>5. RefersToLiving'
  BY DEF IInv, RefersToLiving, Live
<1>6. QED BY <1>3, <1>4, <1>5 DEF IInv

(* orm_create: no query that will be applied watches a dead object.        *)
LEMMA CreateInv ==
  ASSUME IInv, NEW s \in loaded, NEW h \in open, NEW o \in Objects \ Live, Create(s, h, o)
  PROVE  IInv'
<1> DEFINE r == [owner |-> s, handle |-> h, vars |-> <<>>, key |-> None, error |-> "ok"]
<1>1. r \in Object /\ r.handle = h /\ r.owner = s
  <2>1. s \in Scripts /\ h \in Handles
    BY DEF IInv, TypeOK
  <2>2. <<>> \in Seq(Variables)
    OBVIOUS
  <2>3. QED BY <2>1, <2>2 DEF Object, Errors
<1>2. orm' = [orm EXCEPT ![o] = r]
  BY DEF Create
<1> HIDE DEF r
<1>3. orm'[o] = r /\ \A p \in Objects \ {o} : orm'[p] = orm[p]
  BY <1>2 DEF IInv, TypeOK
<1>4. TypeOK'
  BY <1>1, <1>2, <1>3 DEF IInv, TypeOK, Create
<1>5. FitsWhenApplied'
  <2>1. \A p \in Live : orm'[p] = orm[p] /\ p \in Live'
    BY <1>3 DEF Live
  <2>2. QED BY <2>1 DEF IInv, FitsWhenApplied, Create, InFlight, Cancelled, Bindings
<1>6. RefersToLiving'
  BY <1>1, <1>3 DEF IInv, RefersToLiving, Live, Create
<1>7. QED BY <1>4, <1>5, <1>6 DEF IInv

(* orm_destroy.                                                            *)
LEMMA DestroyInv ==
  ASSUME IInv, NEW o \in Live, Destroy(o)
  PROVE  IInv'
<1>1. /\ o \in Objects /\ DOMAIN orm' = Objects /\ orm'[o] = None
      /\ \A p \in Objects \ {o} : orm'[p] = orm[p]
  BY DEF Live, Destroy, Without
<1>2. QED BY <1>1, ObjectChanged DEF Destroy

(* Other bindings of an object, and another token.                         *)
LEMMA RebindInv ==
  ASSUME IInv, NEW o \in Live, NEW vs \in Seq(Variables), NEW k \in Variables \cup {None},
         Rebind(o, vs, k)
  PROVE  IInv'
<1>1. o \in Objects /\ orm[o] \in Object
  BY DEF IInv, TypeOK, Live
<1> DEFINE r == [orm[o] EXCEPT !.vars = vs, !.key = k]
<1>2. r \in Object /\ r.handle = orm[o].handle /\ r.owner = orm[o].owner
  BY <1>1 DEF Object
<1>3. orm' = [orm EXCEPT ![o] = r]
  BY <1>1 DEF Rebind, IInv, TypeOK
<1> HIDE DEF r
<1>4. /\ DOMAIN orm' = Objects /\ orm'[o] = r
      /\ \A p \in Objects \ {o} : orm'[p] = orm[p]
  BY <1>1, <1>3 DEF IInv, TypeOK
<1>5. r.handle \in open /\ r.owner \in loaded
  BY <1>2 DEF IInv, RefersToLiving
<1>6. flight' = [q \in Queries |-> Cancel(q, {o})] /\ UNCHANGED <<open, loaded>>
  BY DEF Rebind
<1>7. QED BY <1>1, <1>2, <1>4, <1>5, <1>6, ObjectChanged

(* Removing a variable leaves variables.                                   *)
LEMMA RemoveAtType ==
  ASSUME NEW vs \in Seq(Variables), NEW i \in 1 .. Len(vs)
  PROVE  RemoveAt(vs, i) \in Seq(Variables)
<1>1. SubSeq(vs, 1, i - 1) \in Seq(Variables)
  OBVIOUS
<1>2. SubSeq(vs, i + 1, Len(vs)) \in Seq(Variables)
  OBVIOUS
<1>3. QED BY <1>1, <1>2 DEF RemoveAt

(* orm_addvar_int, orm_addvar_float, orm_addvar_string.                    *)
LEMMA AddVariableInv ==
  ASSUME IInv, NEW o \in Live, NEW v \in Variables, AddVariable(o, v)
  PROVE  IInv'
<1>1. orm[o].vars \in Seq(Variables) /\ orm[o].key \in Variables \cup {None}
  BY DEF IInv, TypeOK, Live, Object
<1>2. Append(orm[o].vars, v) \in Seq(Variables)
  BY <1>1
<1>3. QED BY <1>1, <1>2, RebindInv DEF AddVariable

(* orm_delvar: the key or a variable.                                      *)
LEMMA RemoveVariableInv ==
  ASSUME IInv, NEW o \in Live, NEW n \in Names, RemoveVariable(o, n)
  PROVE  IInv'
<1>1. orm[o].vars \in Seq(Variables) /\ orm[o].key \in Variables \cup {None}
  BY DEF IInv, TypeOK, Live, Object
<1>2. CASE Rebind(o, orm[o].vars, None)
  BY <1>1, <1>2, RebindInv
<1>3. ASSUME NEW i \in 1 .. Len(orm[o].vars), Rebind(o, RemoveAt(orm[o].vars, i), orm[o].key)
      PROVE  IInv'
  BY <1>1, <1>3, RemoveAtType, RebindInv
<1>4. QED BY <1>2, <1>3 DEF RemoveVariable

(* orm_setkey.                                                             *)
LEMMA SetKeyInv ==
  ASSUME IInv, NEW o \in Live, NEW n \in Names, SetVariableAsKey(o, n)
  PROVE  IInv'
<1>1. orm[o].vars \in Seq(Variables) /\ orm[o].key \in Variables \cup {None}
  BY DEF IInv, TypeOK, Live, Object
<1>2. OldKey(o) \in Seq(Variables)
  BY <1>1 DEF OldKey
<1>3. PICK i \in 1 .. Len(orm[o].vars) :
        Rebind(o, RemoveAt(orm[o].vars, i) \o OldKey(o), orm[o].vars[i])
  BY DEF SetVariableAsKey
<1>4. RemoveAt(orm[o].vars, i) \in Seq(Variables)
  BY <1>1, RemoveAtType
<1>5. RemoveAt(orm[o].vars, i) \o OldKey(o) \in Seq(Variables) /\ orm[o].vars[i] \in Variables
  BY <1>1, <1>2, <1>4
<1>6. QED BY <1>3, <1>5, RebindInv

---------------------------------------------------------------------------
(* A step that only sets the error of a live object keeps bindings.        *)
LEMMA ErrorInv ==
  ASSUME IInv, NEW o \in Live, NEW e \in Errors, orm' = [orm EXCEPT ![o].error = e],
         DOMAIN flight' = Queries,
         \A q \in Queries : flight'[q] = None \/ flight'[q] = flight[q],
         UNCHANGED <<open, loaded>>
  PROVE  IInv'
<1>1. o \in Objects /\ orm[o] \in Object
  BY DEF IInv, TypeOK, Live
<1> DEFINE r == [orm[o] EXCEPT !.error = e]
<1>2. /\ r \in Object /\ r # None /\ r.handle = orm[o].handle /\ r.owner = orm[o].owner
      /\ r.vars = orm[o].vars /\ r.key = orm[o].key
  BY <1>1, NoneAssumption DEF Object
<1>3. orm' = [orm EXCEPT ![o] = r]
  BY <1>1 DEF IInv, TypeOK
<1> HIDE DEF r
<1>4. /\ DOMAIN orm' = Objects /\ orm'[o] = r
      /\ \A p \in Objects \ {o} : orm'[p] = orm[p]
  BY <1>1, <1>3 DEF IInv, TypeOK
<1>5. TypeOK'
  BY <1>2, <1>4 DEF IInv, TypeOK
<1>6. Live' = Live /\ \A p \in Live : orm'[p].handle = orm[p].handle
        /\ orm'[p].owner = orm[p].owner /\ orm'[p].vars = orm[p].vars
        /\ orm'[p].key = orm[p].key
  BY <1>1, <1>2, <1>4 DEF Live
<1>7. FitsWhenApplied'
  BY <1>6 DEF IInv, FitsWhenApplied, InFlight, Cancelled, Bindings
<1>8. RefersToLiving'
  BY <1>6 DEF IInv, RefersToLiving
<1>9. QED BY <1>5, <1>7, <1>8 DEF IInv

(* The natives that send a query: it fits when it is sent.                 *)
LEMMA SendInv ==
  ASSUME IInv, NEW s \in loaded, NEW o \in Live, NEW q \in Queries, NEW type \in Types,
         Send(s, o, q, type)
  PROVE  IInv'
<1>1. o \in Objects /\ orm[o] \in Object /\ s \in Scripts
  BY DEF IInv, TypeOK, Live
<1> DEFINE r == [object |-> o, handle |-> orm[o].handle, owner |-> s, type |-> type,
                 cancelled |-> FALSE, bound |-> Bindings(o)]
<1>2. Bindings(o) \in Seq(Variables) \X (Variables \cup {None})
  BY <1>1 DEF Bindings, Object
<1>3. r \in Query
  BY <1>1, <1>2 DEF Query, Object
<1>4. r.object = o /\ r.handle = orm[o].handle /\ r.owner = s /\ r.bound = Bindings(o)
  OBVIOUS
<1>5. flight' = [flight EXCEPT ![q] = r] /\ UNCHANGED <<open, loaded, orm>>
  BY DEF Send
<1> HIDE DEF r
<1>6. flight'[q] = r /\ \A p \in Queries \ {q} : flight'[p] = flight[p]
  BY <1>5 DEF IInv, TypeOK
<1>7. TypeOK'
  BY <1>3, <1>5, <1>6 DEF IInv, TypeOK
<1>8. FitsWhenApplied'
  BY <1>4, <1>5, <1>6 DEF IInv, FitsWhenApplied, InFlight, Cancelled, Live, Bindings
<1>9. RefersToLiving'
  BY <1>5 DEF IInv, RefersToLiving, Live
<1>10. QED BY <1>7, <1>8, <1>9 DEF IInv

(* A query leaves without touching an object.                              *)
LEMMA LeaveInv ==
  ASSUME IInv, NEW q \in Queries, flight' = [flight EXCEPT ![q] = None],
         UNCHANGED <<open, loaded, orm>>
  PROVE  IInv'
<1>1. \A p \in Queries : flight'[p] = None \/ flight'[p] = flight[p]
  BY DEF IInv, TypeOK
<1>2. QED BY <1>1 DEF IInv, TypeOK, FitsWhenApplied, RefersToLiving, InFlight, Cancelled,
                      Live, Bindings

(* ProcessCallbacks applies a result to a live object.                     *)
LEMMA ApplyInv ==
  ASSUME IInv, NEW q \in InFlight, NEW e \in Errors, Apply(q, e)
  PROVE  IInv'
<1>1. q \in Queries /\ flight[q].object \in Live
  BY DEF IInv, FitsWhenApplied, InFlight, Apply
<1>2. /\ DOMAIN flight' = Queries
      /\ \A p \in Queries : flight'[p] = None \/ flight'[p] = flight[p]
  BY <1>1 DEF IInv, TypeOK, Apply
<1>3. QED BY <1>1, <1>2, ErrorInv DEF Apply

(* orm_apply_cache.                                                        *)
LEMMA ApplyActiveResultInv ==
  ASSUME IInv, NEW o \in Live, NEW e \in Errors, ApplyActiveResult(o, e)
  PROVE  IInv'
<1>1. DOMAIN flight' = Queries /\ \A p \in Queries : flight'[p] = flight[p]
  BY DEF IInv, TypeOK, ApplyActiveResult
<1>2. QED BY <1>1, ErrorInv DEF ApplyActiveResult

---------------------------------------------------------------------------
(* There is nothing at first.                                              *)
LEMMA InitInv == Init => IInv
BY DEF Init, IInv, TypeOK, FitsWhenApplied, RefersToLiving, Live, InFlight

(* Every step keeps the invariant.                                         *)
LEMMA NextInv == IInv /\ [Next]_vars => IInv'
<1> SUFFICES ASSUME IInv, [Next]_vars PROVE IInv'
  OBVIOUS
<1>0. loaded \subseteq Scripts /\ open \subseteq Handles
  BY DEF IInv, TypeOK
<1>1. ASSUME NEW s \in Scripts \ loaded, AmxLoad(s) PROVE IInv'
  BY <1>1, AmxLoadInv
<1>2. ASSUME NEW s \in loaded, AmxUnload(s) PROVE IInv'
  BY <1>2, AmxUnloadInv
<1>3. ASSUME NEW h \in Handles \ open, Connect(h) PROVE IInv'
  BY <1>3, ConnectInv
<1>4. ASSUME NEW h \in open, Close(h) PROVE IInv'
  BY <1>4, CloseInv
<1>5. ASSUME NEW s \in loaded, NEW h \in open, NEW o \in Objects \ Live, Create(s, h, o)
      PROVE  IInv'
  BY <1>5, CreateInv
<1>6. ASSUME NEW o \in Live, Destroy(o) PROVE IInv'
  BY <1>6, DestroyInv
<1>7. ASSUME NEW o \in Live, NEW n \in Names, RemoveVariable(o, n) \/ SetVariableAsKey(o, n)
      PROVE  IInv'
  BY <1>7, RemoveVariableInv, SetKeyInv
<1>8. ASSUME NEW o \in Live, NEW e \in Errors, ApplyActiveResult(o, e) PROVE IInv'
  BY <1>8, ApplyActiveResultInv
<1>9. ASSUME NEW s \in loaded, NEW o \in Live, NEW n \in Names,
             AddVariable(o, [name |-> n, memory |-> s])
      PROVE  IInv'
  <2>1. [name |-> n, memory |-> s] \in Variables
    BY <1>0 DEF Variables
  <2>2. QED BY <1>9, <2>1, AddVariableInv
<1>10. ASSUME NEW s \in loaded, NEW o \in Live, NEW q \in Queries \ InFlight, NEW type \in Types,
              Send(s, o, q, type)
       PROVE  IInv'
  BY <1>10, SendInv
<1>11. ASSUME NEW q \in InFlight, Drop(q) \/ Finish(q) PROVE IInv'
  <2>1. q \in Queries
    BY DEF InFlight
  <2>2. QED BY <1>11, <2>1, LeaveInv DEF Drop, Finish
<1>12. ASSUME NEW q \in InFlight, NEW e \in Errors, Apply(q, e) PROVE IInv'
  BY <1>12, ApplyInv
<1>13. CASE UNCHANGED vars
  BY <1>13 DEF vars, IInv, TypeOK, FitsWhenApplied, RefersToLiving, Live, InFlight, Cancelled,
               Bindings
<1>14. QED
  BY <1>1, <1>2, <1>3, <1>4, <1>5, <1>6, <1>7, <1>8, <1>9, <1>10, <1>11, <1>12, <1>13 DEF Next

(* The invariant of every behaviour.                                       *)
LEMMA Invariant == Spec => []IInv
BY InitInv, NextInv, PTL DEF Spec

(* The objects, their variables and the queries keep their types.          *)
THEOREM OrmTypes == Spec => []TypeOK
<1>1. IInv => TypeOK
  BY DEF IInv
<1>2. QED BY <1>1, Invariant, PTL

(* ProcessCallbacks applies a result only to the object, the columns, the  *)
(* cells and the key its query was generated from.                         *)
THEOREM ResultsFit == Spec => []FitsWhenApplied
<1>1. IInv => FitsWhenApplied
  BY DEF IInv
<1>2. QED BY <1>1, Invariant, PTL

(* An object never outlives its connection or its script: the natives use  *)
(* its handle without a test, and results are written into its memory.     *)
THEOREM ObjectsReferToLiving == Spec => []RefersToLiving
<1>1. IInv => RefersToLiving
  BY DEF IInv
<1>2. QED BY <1>1, Invariant, PTL

---------------------------------------------------------------------------
(* The values of an object.  OneRowPerRecord is proved from the invariant  *)
(* at the end of OrmRow: what the cells and the updates on their way are   *)
(* about is the record their row holds, so that an update never changes a  *)
(* row, and a record without a key is in no row yet.                       *)

(* The queries in flight after one is sent, and after the oldest is taken. *)
LEMMA Appended ==
  ASSUME NEW s \in Seq(RowQuery), NEW q \in RowQuery
  PROVE  /\ Append(s, q) \in Seq(RowQuery)
         /\ Len(Append(s, q)) = Len(s) + 1
         /\ \A i \in 1 .. Len(s) : Append(s, q)[i] = s[i]
         /\ Append(s, q)[Len(s) + 1] = q
OBVIOUS

LEMMA Tailed ==
  ASSUME NEW s \in Seq(RowQuery), s # <<>>
  PROVE  /\ Tail(s) \in Seq(RowQuery)
         /\ Len(s) \in Nat \ {0} /\ Len(Tail(s)) = Len(s) - 1
         /\ \A i \in 1 .. Len(Tail(s)) : i + 1 \in 1 .. Len(s) /\ Tail(s)[i] = s[i + 1]
         /\ Head(s) = s[1] /\ 1 \in 1 .. Len(s)
OBVIOUS

LEMMA SentIsQuery ==
  ASSUME AnyScript, NEW type \in RowTypes, NEW k \in Nat
  PROVE  Sent(type, k) \in RowQuery
<1>1. <<>> \in Seq(Nat) /\ {0, value} \subseteq 0 .. MaxRecords
  BY OrmRowAssumption DEF AnyScript, RowTypeOK
<1>2. QED BY <1>1 DEF Sent, RowQuery, RowTypes

(* Sending keeps what holds of any script.                                 *)
LEMMA SendAny ==
  ASSUME AnyScript, NEW type \in RowTypes, NEW k \in Nat,
         SendRow(type, k), key' \in Nat, value' \in 0 .. MaxRecords, UNCHANGED <<error, rows, records>>
  PROVE  AnyScript'
<1>1. CASE UNCHANGED sent
  <2>1. trouble' \in BOOLEAN
    BY DEF SendRow, AnyScript, RowTypeOK
  <2>2. QED
    BY <1>1, <2>1
    DEF AnyScript, RowTypeOK, RunInOrder, ResultsOfKind, Position
<1>2. CASE Len(sent) < MaxFlight /\ sent' = Append(sent, Sent(type, k))
  <2>1. sent \in Seq(RowQuery) /\ value \in 0 .. MaxRecords
    BY DEF AnyScript, RowTypeOK
  <2>2. Sent(type, k) \in RowQuery
    BY <2>1, SentIsQuery
  <2>3. /\ sent' \in Seq(RowQuery)
        /\ Len(sent') = Len(sent) + 1
        /\ \A i \in Position : sent'[i] = sent[i]
        /\ sent'[Len(sent) + 1] = Sent(type, k)
    BY <1>2, <2>1, <2>2, Appended DEF Position
  <2>4. trouble' \in BOOLEAN
    BY DEF SendRow, AnyScript, RowTypeOK
  <2>5. Len(sent) \in Nat
    BY <2>1
  <2>6. \A i \in Position' : i \in Position \/ i = Len(sent) + 1
    BY <2>3, <2>5 DEF Position
  <2>7. sent'[Len(sent) + 1].state = "waiting"
    BY <2>3 DEF Sent
  <2>8. Len(sent') =< MaxFlight
    BY <1>2, <2>3, <2>5, OrmRowAssumption
  <2>9. RowTypeOK'
    BY <2>3, <2>4, <2>8 DEF AnyScript, RowTypeOK
  <2>10. RunInOrder'
    <3>1. ASSUME NEW i \in Position', NEW j \in Position', i < j,
                 sent'[i].state = "waiting"
          PROVE  sent'[j].state = "waiting"
      <4>1. CASE j = Len(sent) + 1
        BY <2>7, <4>1
      <4>2. CASE j \in Position
        <5>1. i \in Position
          BY <2>5, <2>6, <3>1, <4>2 DEF Position
        <5>2. QED BY <2>3, <3>1, <4>2, <5>1 DEF AnyScript, RunInOrder
      <4>3. QED BY <2>6, <4>1, <4>2
    <3>2. QED BY <3>1 DEF RunInOrder
  <2>11. ResultsOfKind'
    <3>1. ASSUME NEW i \in Position', sent'[i].state = "done"
          PROVE  i \in Position
      BY <2>6, <2>7, <3>1
    <3>2. QED BY <2>3, <3>1 DEF AnyScript, ResultsOfKind
  <2>12. QED BY <2>9, <2>10, <2>11 DEF AnyScript
<1>3. QED BY <1>1, <1>2 DEF SendRow, Sent

(* So does taking the oldest query away.                                   *)
LEMMA TakeAny ==
  ASSUME AnyScript, sent # <<>>, sent' = Tail(sent),
         key' \in Nat, value' \in 0 .. MaxRecords, error' \in {"ok", "no_data"},
         trouble' \in BOOLEAN, UNCHANGED <<rows, records>>
  PROVE  AnyScript'
<1>1. sent \in Seq(RowQuery)
  BY DEF AnyScript, RowTypeOK
<1>2. /\ sent' \in Seq(RowQuery)
      /\ Len(sent) \in Nat \ {0} /\ Len(sent') = Len(sent) - 1
      /\ \A i \in Position' : i + 1 \in Position /\ sent'[i] = sent[i + 1]
  BY <1>1, Tailed DEF Position
<1>3. RowTypeOK'
  <2>1. Len(sent') =< MaxFlight
    BY <1>2, OrmRowAssumption DEF AnyScript, RowTypeOK
  <2>2. QED BY <1>2, <2>1 DEF AnyScript, RowTypeOK
<1>4. RunInOrder'
  <2>1. ASSUME NEW i \in Position', NEW j \in Position', i < j,
               sent'[i].state = "waiting"
        PROVE  sent'[j].state = "waiting"
    <3>1. i + 1 < j + 1
      BY <2>1 DEF Position
    <3>2. QED BY <1>2, <2>1, <3>1 DEF AnyScript, RunInOrder
  <2>2. QED BY <2>1 DEF RunInOrder
<1>5. ResultsOfKind'
  BY <1>2 DEF AnyScript, ResultsOfKind
<1>6. QED BY <1>3, <1>4, <1>5 DEF AnyScript

(* A query that runs is the oldest that waits.                             *)
LEMMA RanAny ==
  ASSUME AnyScript, NEW i, IsNext(i),
         NEW state \in {"done", "failed"}, NEW got \in Seq(Nat),
         Ran(i, state, got), UNCHANGED <<cells, records>>,
         rows' \in Seq({Deleted} \cup 0 .. MaxRecords), Len(rows') =< MaxRows,
         trouble' \in BOOLEAN,
         state = "done"
           => /\ sent[i].type = "insert" => Len(got) = 1
              /\ sent[i].type = "select" /\ got # <<>> => got[1] \in 0 .. MaxRecords
  PROVE  AnyScript'
<1>1. sent \in Seq(RowQuery) /\ i \in Position /\ sent[i] \in RowQuery
  BY DEF AnyScript, RowTypeOK, IsNext, Position
<1> DEFINE q == [sent[i] EXCEPT !.state = state, !.got = got, !.key = 0, !.value = 0]
<1>2. q \in RowQuery /\ q.type = sent[i].type /\ q.state = state /\ q.got = got
  <2>1. 0 \in 0 .. MaxRecords
    BY OrmRowAssumption
  <2>2. QED BY <1>1, <2>1 DEF RowQuery
<1>3. sent' = [sent EXCEPT ![i] = q]
  BY <1>1 DEF Ran
<1> HIDE DEF q
<1>4. /\ sent' \in Seq(RowQuery) /\ Len(sent') = Len(sent)
      /\ \A j \in Position : sent'[j] = IF j = i THEN q ELSE sent[j]
  BY <1>1, <1>2, <1>3 DEF Position
<1>5. Position' = Position
  BY <1>4 DEF Position
<1>6. RowTypeOK'
  BY <1>4 DEF AnyScript, RowTypeOK, cells
<1>7. RunInOrder'
  <2>1. ASSUME NEW j \in Position, NEW k \in Position, j < k,
               sent'[j].state = "waiting"
        PROVE  sent'[k].state = "waiting"
    <3>1. j # i /\ sent[j].state = "waiting"
      BY <1>1, <1>2, <1>4, <2>1
    <3>2. sent[k].state = "waiting"
      BY <2>1, <3>1 DEF AnyScript, RunInOrder
    <3>3. k # i
      <4>1. CASE k = i
        <5>1. j \in 1 .. i - 1
          BY <1>1, <2>1, <4>1 DEF Position
        <5>2. QED BY <3>1, <5>1 DEF IsNext
      <4>2. QED BY <4>1
    <3>4. QED BY <1>4, <3>2, <3>3
  <2>2. QED BY <1>5, <2>1 DEF RunInOrder
<1>8. ResultsOfKind'
  BY <1>2, <1>4, <1>5 DEF AnyScript, ResultsOfKind
<1>9. QED BY <1>6, <1>7, <1>8 DEF AnyScript

(* What a query leaves of the table, and what it returns.                  *)
LEMMA RowsFit ==
  ASSUME AnyScript, NEW q \in RowQuery,
         q.type = "insert" => Len(rows) < MaxRows
  PROVE  /\ RowsAfter(q) \in Seq({Deleted} \cup 0 .. MaxRecords)
         /\ Len(RowsAfter(q)) =< MaxRows
<1> DEFINE R == {Deleted} \cup 0 .. MaxRecords
<1>1. rows \in Seq(R) /\ Len(rows) \in Nat /\ Len(rows) =< MaxRows /\ q.value \in R
  BY DEF AnyScript, RowTypeOK, RowQuery
<1>2. Deleted \in R
  OBVIOUS
<1> HIDE DEF R
<1>3. CASE q.type = "insert"
  <2>1. Append(rows, q.value) \in Seq(R) /\ Len(Append(rows, q.value)) = Len(rows) + 1
    BY <1>1
  <2>2. QED BY <1>1, <1>3, <2>1, OrmRowAssumption DEF RowsAfter, R
<1>4. CASE q.type = "update" /\ Exists(q.key)
  <2>1. q.key \in 1 .. Len(rows)
    BY <1>4 DEF Exists
  <2>2. /\ [rows EXCEPT ![q.key] = q.value] \in Seq(R)
        /\ Len([rows EXCEPT ![q.key] = q.value]) = Len(rows)
    BY ONLY <1>1, <1>2, <2>1
  <2>3. QED BY <1>1, <1>4, <2>2 DEF RowsAfter, R
<1>5. CASE q.type = "delete" /\ Exists(q.key)
  <2>1. q.key \in 1 .. Len(rows)
    BY <1>5 DEF Exists
  <2>2. /\ [rows EXCEPT ![q.key] = Deleted] \in Seq(R)
        /\ Len([rows EXCEPT ![q.key] = Deleted]) = Len(rows)
    BY ONLY <1>1, <1>2, <2>1
  <2>3. QED BY <1>1, <1>5, <2>2 DEF RowsAfter, R
<1>6. CASE /\ q.type # "insert"
           /\ ~(q.type = "update" /\ Exists(q.key))
           /\ ~(q.type = "delete" /\ Exists(q.key))
  BY <1>1, <1>6 DEF RowsAfter, R
<1>7. QED BY <1>3, <1>4, <1>5, <1>6

LEMMA ResultFits ==
  ASSUME AnyScript, NEW q \in RowQuery
  PROVE  /\ ResultOf(q) \in Seq(Nat)
         /\ q.type = "insert" => ResultOf(q) = <<Len(rows) + 1>>
         /\ q.type = "select"
              => ResultOf(q) = IF Exists(q.key) THEN <<rows[q.key]>> ELSE <<>>
         /\ q.type = "select" /\ ResultOf(q) # <<>>
              => ResultOf(q)[1] \in 0 .. MaxRecords
<1>1. /\ rows \in Seq({Deleted} \cup 0 .. MaxRecords)
      /\ Len(rows) + 1 \in Nat
  BY DEF AnyScript, RowTypeOK
<1>2. CASE q.type = "insert"
  BY <1>1, <1>2 DEF ResultOf
<1>3. CASE q.type = "select" /\ Exists(q.key)
  <2>1. rows[q.key] \in 0 .. MaxRecords
    BY <1>1, <1>3 DEF Exists
  <2>2. ResultOf(q) = <<rows[q.key]>>
    BY <1>3 DEF ResultOf
  <2>3. QED BY <1>3, <2>1, <2>2
<1>4. CASE q.type # "insert" /\ ~(q.type = "select" /\ Exists(q.key))
  <2>1. ResultOf(q) = <<>>
    BY <1>4 DEF ResultOf
  <2>2. <<>> \in Seq(Nat)
    OBVIOUS
  <2>3. QED BY <1>4, <2>1, <2>2
<1>5. QED BY <1>2, <1>3, <1>4

LEMMA NextAny ==
  AnyScript /\ [RowNext]_rowVars => AnyScript'
<1> SUFFICES ASSUME AnyScript, [RowNext]_rowVars PROVE AnyScript'
  OBVIOUS
<1>1. key \in Nat /\ value \in 0 .. MaxRecords /\ 0 \in 0 .. MaxRecords
  BY OrmRowAssumption DEF AnyScript, RowTypeOK
<1>2. CASE NewRecord
  <2>1. records + 1 \in 0 .. MaxRecords /\ 0 \in Nat
    BY <1>2, OrmRowAssumption DEF NewRecord, AnyScript, RowTypeOK
  <2>2. trouble' \in BOOLEAN
    BY <1>2 DEF NewRecord, AnyScript, RowTypeOK
  <2>3. QED BY <1>2, <2>1, <2>2
            DEF NewRecord, AnyScript, RowTypeOK, RunInOrder,
                ResultsOfKind, Position
<1>3. ASSUME Update \/ Insert
      PROVE  AnyScript'
  BY <1>1, <1>3, SendAny DEF Update, Insert, RowTypes, cells
<1>4. CASE Save \/ Copy
  BY <1>3, <1>4 DEF Save, Copy
<1>5. ASSUME NEW k \in 1 .. Len(rows), Select(k)
      PROVE  AnyScript'
  <2>1. k \in Nat
    OBVIOUS
  <2>2. QED BY <1>1, <1>5, <2>1, SendAny DEF Select, RowTypes
<1>6. ASSUME NEW clear \in BOOLEAN, Delete(clear)
      PROVE  AnyScript'
  <2>1. key' \in Nat /\ value' \in 0 .. MaxRecords
    BY <1>1, <1>6 DEF Delete, ClearVariableValues
  <2>2. QED BY <1>1, <1>6, <2>1, SendAny DEF Delete, RowTypes
<1>7. CASE RebindRow
  <2>1. sent \in Seq(RowQuery) /\ Len(sent) \in Nat
    BY DEF AnyScript, RowTypeOK
  <2>2. \A q \in RowQuery :
          /\ [q EXCEPT !.cancelled = TRUE] \in RowQuery
          /\ [q EXCEPT !.cancelled = TRUE].type = q.type
          /\ [q EXCEPT !.cancelled = TRUE].state = q.state
          /\ [q EXCEPT !.cancelled = TRUE].got = q.got
    BY DEF RowQuery
  <2>3. /\ sent' \in Seq(RowQuery) /\ Len(sent') = Len(sent)
        /\ \A i \in Position : sent'[i] = [sent[i] EXCEPT !.cancelled = TRUE]
    BY <1>7, <2>1, <2>2 DEF RebindRow, Position
  <2>4. Position' = Position
    BY <2>3 DEF Position
  <2>5. \A i \in Position : /\ sent'[i].type = sent[i].type
                            /\ sent'[i].state = sent[i].state
                            /\ sent'[i].got = sent[i].got
    <3>1. \A i \in Position : sent[i] \in RowQuery
      BY <2>1 DEF Position
    <3>2. QED BY <2>2, <2>3, <3>1
  <2>6. RowTypeOK'
    <3>1. trouble' \in BOOLEAN
      BY <1>7 DEF RebindRow, AnyScript, RowTypeOK
    <3>2. QED BY <1>7, <2>3, <3>1 DEF RebindRow, AnyScript, RowTypeOK, cells
  <2>7. RunInOrder' /\ ResultsOfKind'
    BY <2>4, <2>5 DEF AnyScript, RunInOrder, ResultsOfKind
  <2>8. QED BY <2>6, <2>7 DEF AnyScript
<1>8. ASSUME NEW i \in 1 .. MaxFlight, Execute(i) \/ Fail(i)
      PROVE  AnyScript'
  <2>1. sent[i] \in RowQuery /\ (sent[i].type = "insert" => Len(rows) < MaxRows)
    BY <1>8 DEF Execute, Fail, IsNext, AnyScript, RowTypeOK
  <2>2. /\ RowsAfter(sent[i]) \in Seq({Deleted} \cup 0 .. MaxRecords)
        /\ Len(RowsAfter(sent[i])) =< MaxRows
    BY <2>1, RowsFit
  <2>3. rows \in Seq({Deleted} \cup 0 .. MaxRecords) /\ Len(rows) =< MaxRows
    BY DEF AnyScript, RowTypeOK
  <2>4. trouble' \in BOOLEAN
    BY <1>8 DEF Execute, Fail, AnyScript, RowTypeOK
  <2>5. CASE Execute(i)
    <3>1. ResultOf(sent[i]) \in Seq(Nat)
      BY <2>1, ResultFits
    <3>2. /\ sent[i].type = "insert" => Len(ResultOf(sent[i])) = 1
          /\ sent[i].type = "select" /\ ResultOf(sent[i]) # <<>>
               => ResultOf(sent[i])[1] \in 0 .. MaxRecords
      BY <2>1, ResultFits
    <3>3. QED
      BY <2>2, <2>4, <2>5, <3>1, <3>2, RanAny DEF Execute
  <2>6. CASE Fail(i)
    <3>1. <<>> \in Seq(Nat)
      OBVIOUS
    <3>2. rows' \in Seq({Deleted} \cup 0 .. MaxRecords) /\ Len(rows') =< MaxRows
      BY <2>2, <2>3, <2>6 DEF Fail
    <3>3. QED BY <2>4, <2>6, <3>1, <3>2, RanAny DEF Fail
  <2>7. QED BY <1>8, <2>5, <2>6
<1>9. CASE ApplySelectResult
  <2>1. /\ sent # <<>> /\ sent \in Seq(RowQuery)
        /\ Head(sent) = sent[1] /\ 1 \in Position
    BY <1>9, Tailed
    DEF ApplySelectResult, Returned, AnyScript, RowTypeOK, Position
  <2>2. Got # <<>> => Got[1] \in 0 .. MaxRecords
    BY <1>9, <2>1
    DEF ApplySelectResult, Applies, Got, AnyScript, ResultsOfKind
  <2>3. value' \in 0 .. MaxRecords /\ error' \in {"ok", "no_data"} /\ trouble' \in BOOLEAN
    BY <1>1, <1>9, <2>2 DEF ApplySelectResult, AnyScript, RowTypeOK
  <2>4. QED BY <1>1, <1>9, <2>1, <2>3, TakeAny DEF ApplySelectResult
<1>10. CASE ApplyInsertResult
  <2>1. /\ sent # <<>> /\ sent \in Seq(RowQuery)
        /\ Head(sent) = sent[1] /\ 1 \in Position
        /\ sent[1] \in RowQuery
    BY <1>10, Tailed
    DEF ApplyInsertResult, Returned, AnyScript, RowTypeOK, Position
  <2>2. Got \in Seq(Nat) /\ Len(Got) = 1
    BY <1>10, <2>1
    DEF ApplyInsertResult, Applies, Got, AnyScript, ResultsOfKind,
        RowQuery
  <2>3. Got[1] \in Nat
    BY <2>2
  <2>4. key' \in Nat /\ error' \in {"ok", "no_data"} /\ trouble' \in BOOLEAN
    BY <1>1, <1>10, <2>3 DEF ApplyInsertResult, KeyOf, AnyScript, RowTypeOK
  <2>5. QED BY <1>1, <1>10, <2>1, <2>4, TakeAny DEF ApplyInsertResult
<1>11. CASE DropRow
  <2>1. key' \in Nat /\ value' \in 0 .. MaxRecords /\ error' \in {"ok", "no_data"}
        /\ trouble' \in BOOLEAN /\ UNCHANGED <<rows, records>>
    BY <1>1, <1>11 DEF DropRow, AnyScript, RowTypeOK, cells
  <2>2. QED BY <1>11, <2>1, TakeAny DEF DropRow, Returned
<1>12. CASE UNCHANGED rowVars
  BY <1>12
  DEF rowVars, AnyScript, RowTypeOK, RunInOrder, ResultsOfKind, Position
<1>13. QED
  BY <1>2, <1>3, <1>4, <1>5, <1>6, <1>7, <1>8, <1>9, <1>10, <1>11, <1>12
  DEF RowNext, Script, Worker, Main

(* A script that waits: InOrder is kept by every step without trouble.     *)
Calm == ~trouble /\ InOrder /\ OneRowPerRecord

LEMMA NoneAwaited ==
  ASSUME Calm, ~Expecting
  PROVE  \A i \in Position : ~Waited(sent[i])
BY DEF Calm, InOrder, OneAwaited, Waited, Expecting, Position

(* What a native sends fits what the cells are about.                      *)
LEMMA SendInOrder ==
  ASSUME AnyScript, Calm, NEW type \in RowTypes, NEW k \in Nat,
         SendRow(type, k), ~trouble',
         UNCHANGED <<rows, records>>,
         type = "update" => k = key /\ UNCHANGED <<key, value>>,
         type = "insert" => key = 0 /\ UNCHANGED <<key, value>>,
         type = "select" => k > 0 /\ key' = k /\ UNCHANGED value,
         type = "delete" => UNCHANGED <<key, value>> \/ (key' = 0 /\ value' = 0)
  PROVE  Calm'
<1> DEFINE q == Sent(type, k)
           last == Len(sent) + 1
<1>1. ~Expecting /\ sent' = Append(sent, q)
  BY DEF SendRow, Sent
<1>2. sent \in Seq(RowQuery) /\ Len(sent) \in Nat /\ value \in 0 .. MaxRecords
  BY DEF AnyScript, RowTypeOK
<1>3. q \in RowQuery
  BY <1>2, SentIsQuery
<1>4. /\ q.type = type /\ q.state = "waiting" /\ ~q.cancelled
      /\ type = "select" => q.key = k
      /\ type = "insert" => q.value = value
      /\ type = "update" => q.key = k /\ q.value = value
  BY DEF Sent
<1> HIDE DEF q
<1>5. /\ Len(sent') = last
      /\ \A i \in Position : sent'[i] = sent[i]
      /\ sent'[last] = q
  BY <1>1, <1>2, <1>3, Appended DEF Position
<1>6. /\ \A i \in Position' : i \in Position \/ i = last
      /\ last \in Position'
  BY <1>2, <1>5 DEF Position
<1>7. \A i \in Position : ~Waited(sent[i])
  BY <1>1, NoneAwaited
<1>8. \A i \in Position' : Waited(sent'[i]) => i = last
  BY <1>5, <1>6, <1>7
<1>9. \A n, v : /\ Agree(n, v)' <=> Agree(n, v)
                /\ InNoRow(v)' <=> InNoRow(v)
  BY DEF Agree, InNoRow, Exists
<1>10. /\ CellsAgree /\ KeylessIsNew /\ OneAwaited
       /\ UpdatesAgree /\ Numbered
  BY DEF Calm, InOrder
<1>11. Waited(q) => Expecting'
  BY <1>4, <1>5, <1>6 DEF Waited, Expecting, Position
<1>12. ~Waited(q) => UNCHANGED <<key, value>> \/ (key' = 0 /\ value' = 0)
  BY <1>4 DEF Waited, RowTypes
<1>13. ~Exists(0)
  BY <1>2 DEF Exists
<1>14. OneAwaited'
  <2>1. ASSUME NEW i \in Position'
        PROVE  sent'[i].state # "failed"
    BY <1>4, <1>5, <1>6, <1>10 DEF OneAwaited
  <2>2. ASSUME NEW i \in Position', Waited(sent'[i])
        PROVE  i = Len(sent') /\ ~sent'[i].cancelled
    BY <1>4, <1>5, <1>8, <2>2
  <2>3. QED BY <2>1, <2>2 DEF OneAwaited, Waited
<1>15. CellsAgree'
  <2>1. CASE Waited(q)
    BY <1>11, <2>1 DEF CellsAgree
  <2>2. CASE ~Waited(q)
    <3>1. Agree(key, value)
      BY <1>1, <1>10 DEF CellsAgree
    <3>2. Agree(0, 0)
      BY <1>13 DEF Agree
    <3>3. Agree(key', value')
      BY <1>12, <2>2, <3>1, <3>2
    <3>4. QED BY <3>3 DEF CellsAgree, Agree, Exists
  <2>3. QED BY <2>1, <2>2
<1>16. UpdatesAgree'
  <2>1. ASSUME NEW i \in Position',
               sent'[i].type = "update", sent'[i].state = "waiting"
        PROVE  Agree(sent'[i].key, sent'[i].value)
    <3>1. CASE i \in Position
      BY <1>5, <1>10, <2>1, <3>1 DEF UpdatesAgree
    <3>2. CASE i = last
      BY <1>1, <1>4, <1>5, <1>10, <2>1, <3>2 DEF CellsAgree
    <3>3. QED BY <1>6, <3>1, <3>2
  <2>2. QED BY <2>1 DEF UpdatesAgree, Agree, Exists
<1>17. KeylessIsNew'
  <2>1. CASE Waited(q)
    BY <1>11, <2>1 DEF KeylessIsNew
  <2>2. CASE ~Waited(q)
    BY <1>1, <1>10, <1>12, <2>2 DEF KeylessIsNew, InNoRow
  <2>3. QED BY <2>1, <2>2
<1>18. InsertAwaited'
  <2>1. ASSUME NEW i \in Position', sent'[i].type = "insert"
        PROVE  /\ key' = 0 /\ sent'[i].state = "waiting"
               /\ sent'[i].value = value' /\ InNoRow(value')
    <3>1. i = last /\ type = "insert"
      BY <1>4, <1>5, <1>8, <2>1 DEF Waited
    <3>2. InNoRow(value)
      BY <1>1, <1>10, <3>1 DEF KeylessIsNew
    <3>3. QED BY <1>4, <1>5, <3>1, <3>2
  <2>2. QED BY <2>1 DEF InsertAwaited, InNoRow
<1>19. SelectAwaited'
  <2>1. ASSUME NEW i \in Position', sent'[i].type = "select"
        PROVE  key' > 0 /\ sent'[i].state = "waiting" /\ sent'[i].key = key'
    <3>1. i = last /\ type = "select"
      BY <1>4, <1>5, <1>8, <2>1 DEF Waited
    <3>2. QED BY <1>4, <1>5, <3>1
  <2>2. QED BY <2>1 DEF SelectAwaited
<1>20. Numbered'
  <2>1. value' = value \/ value' = 0
    BY DEF RowTypes
  <2>2. records \in Nat
    BY DEF AnyScript, RowTypeOK
  <2>3. QED BY <1>10, <2>1, <2>2 DEF Numbered
<1>21. OneRowPerRecord'
  BY DEF Calm, OneRowPerRecord
<1>22. QED
  BY <1>14, <1>15, <1>16, <1>17, <1>18, <1>19, <1>20, <1>21 DEF Calm, InOrder

(* What is left in flight when the oldest query is taken away.             *)
LEMMA Taken ==
  ASSUME AnyScript, Calm, sent # <<>>, sent' = Tail(sent), UNCHANGED rows
  PROVE  /\ Len(sent) \in Nat \ {0} /\ Len(sent') = Len(sent) - 1
         /\ \A i \in Position' : i + 1 \in Position /\ sent'[i] = sent[i + 1]
         /\ Head(sent) = sent[1] /\ 1 \in Position
         /\ OneAwaited' /\ UpdatesAgree' /\ OneRowPerRecord'
<1>1. sent \in Seq(RowQuery)
  BY DEF AnyScript, RowTypeOK
<1>2. /\ Len(sent) \in Nat \ {0} /\ Len(sent') = Len(sent) - 1
      /\ \A i \in Position' : i + 1 \in Position /\ sent'[i] = sent[i + 1]
      /\ Head(sent) = sent[1] /\ 1 \in Position
  BY <1>1, Tailed DEF Position
<1>3. OneAwaited /\ UpdatesAgree
  BY DEF Calm, InOrder
<1>4. OneAwaited'
  <2>1. ASSUME NEW i \in Position'
        PROVE  sent'[i].state # "failed"
    BY <1>2, <1>3 DEF OneAwaited
  <2>2. ASSUME NEW i \in Position', Waited(sent'[i])
        PROVE  i = Len(sent') /\ ~sent'[i].cancelled
    <3>1. i + 1 \in Position /\ sent'[i] = sent[i + 1]
      BY <1>2
    <3>2. i + 1 = Len(sent) /\ ~sent[i + 1].cancelled
      BY <1>3, <2>2, <3>1 DEF OneAwaited
    <3>3. i \in Int
      BY DEF Position
    <3>4. i = Len(sent')
      BY ONLY <1>2, <3>2, <3>3
    <3>5. QED BY <3>1, <3>2, <3>4
  <2>3. QED BY <2>1, <2>2 DEF OneAwaited, Waited
<1>5. UpdatesAgree'
  <2>1. ASSUME NEW i \in Position',
               sent'[i].type = "update", sent'[i].state = "waiting"
        PROVE  Agree(sent'[i].key, sent'[i].value)
    BY <1>2, <1>3, <2>1 DEF UpdatesAgree
  <2>2. QED BY <2>1 DEF UpdatesAgree, Agree, Exists
<1>6. OneRowPerRecord'
  <2>1. ~trouble
    BY DEF Calm
  <2>2. QED BY <2>1 DEF Calm, OneRowPerRecord
<1>7. QED BY <1>2, <1>4, <1>5, <1>6

(* A result that is dropped is of an update or a deletion.                 *)
LEMMA DropInOrder == ASSUME AnyScript, Calm, DropRow PROVE Calm'
<1>1. sent # <<>> /\ sent' = Tail(sent) /\ UNCHANGED <<cells, rows, records, trouble>>
  BY DEF DropRow, Returned
<1>2. /\ Len(sent) \in Nat \ {0} /\ Len(sent') = Len(sent) - 1
      /\ \A i \in Position' : i + 1 \in Position /\ sent'[i] = sent[i + 1]
      /\ Head(sent) = sent[1] /\ 1 \in Position
      /\ OneAwaited' /\ UpdatesAgree' /\ OneRowPerRecord'
  BY <1>1, Taken
<1>3. /\ OneAwaited /\ CellsAgree /\ KeylessIsNew
      /\ InsertAwaited /\ SelectAwaited /\ Numbered
  BY DEF Calm, InOrder
<1>4. ~Waited(sent[1])
  <2>1. sent[1].state \in {"waiting", "done", "failed"}
    <3>1. sent[1] \in RowQuery
      BY <1>2 DEF AnyScript, RowTypeOK, Position
    <3>2. QED BY <3>1 DEF RowQuery
  <2>2. sent[1].state = "done"
    BY <1>2, <1>3, <2>1 DEF DropRow, Returned, OneAwaited
  <2>3. Waited(sent[1]) => ~sent[1].cancelled
    BY <1>2, <1>3 DEF OneAwaited
  <2>4. QED BY <1>2, <2>2, <2>3 DEF DropRow, Applies, Waited
<1>5. Expecting => Expecting'
  <2>1. ASSUME Expecting
        PROVE  Expecting'
    <3>1. PICK i \in Position : Waited(sent[i]) /\ ~sent[i].cancelled
      BY <2>1 DEF Expecting, Position, Waited
    <3>2. i # 1 /\ i \in Int
      BY <1>4, <3>1 DEF Position
    <3>3. i - 1 \in Position' /\ (i - 1) + 1 = i
      BY <1>2, <3>2 DEF Position
    <3>4. sent'[i - 1] = sent[i]
      BY <1>2, <3>3
    <3>5. QED BY <3>1, <3>3, <3>4 DEF Expecting, Position, Waited
  <2>2. QED BY <2>1
<1>6. CellsAgree' /\ KeylessIsNew' /\ Numbered'
  BY <1>1, <1>3, <1>5
  DEF CellsAgree, KeylessIsNew, Numbered, Agree, Exists,
      InNoRow, cells
<1>7. InsertAwaited'
  <2>1. ASSUME NEW i \in Position', sent'[i].type = "insert"
        PROVE  /\ key' = 0
               /\ sent'[i].state = "waiting"
                    => sent'[i].value = value' /\ InNoRow(value)'
               /\ sent'[i].state = "done"
                    => /\ Len(sent'[i].got) = 1
                       /\ sent'[i].got[1] \in 1 .. Len(rows')
                       /\ rows'[sent'[i].got[1]] = value'
    <3>1. i + 1 \in Position /\ sent'[i] = sent[i + 1]
      BY <1>2
    <3>2. QED BY <1>1, <1>3, <2>1, <3>1 DEF InsertAwaited, InNoRow, cells
  <2>2. QED BY <2>1 DEF InsertAwaited
<1>8. SelectAwaited'
  <2>1. ASSUME NEW i \in Position', sent'[i].type = "select"
        PROVE  /\ key' > 0
               /\ sent'[i].state = "waiting" => sent'[i].key = key'
               /\ sent'[i].state = "done" =>
                    IF Exists(key)' THEN sent'[i].got = <<rows'[key']>>
                                    ELSE sent'[i].got = <<>>
    <3>1. i + 1 \in Position /\ sent'[i] = sent[i + 1]
      BY <1>2
    <3>2. QED BY <1>1, <1>3, <2>1, <3>1 DEF SelectAwaited, Exists, cells
  <2>2. QED BY <2>1 DEF SelectAwaited
<1>9. ~trouble'
  BY <1>1 DEF Calm
<1>10. QED BY <1>2, <1>6, <1>7, <1>8, <1>9 DEF Calm, InOrder

(* A result that is applied is the last in flight, and makes the cells     *)
(* agree with the row.                                                     *)
LEMMA ApplyInOrder ==
  ASSUME AnyScript, Calm, ApplySelectResult \/ ApplyInsertResult, ~trouble'
  PROVE  Calm'
<1>1. sent # <<>> /\ sent' = Tail(sent) /\ UNCHANGED <<rows, records>>
  BY DEF ApplySelectResult, ApplyInsertResult, Returned
<1>2. /\ Len(sent) \in Nat \ {0} /\ Len(sent') = Len(sent) - 1
      /\ Head(sent) = sent[1] /\ 1 \in Position
      /\ OneAwaited' /\ UpdatesAgree' /\ OneRowPerRecord'
  BY <1>1, Taken
<1>3. OneAwaited /\ InsertAwaited /\ SelectAwaited /\ Numbered
  BY DEF Calm, InOrder
<1>4. Waited(sent[1]) /\ sent[1].state = "done"
  BY <1>2 DEF ApplySelectResult, ApplyInsertResult, Applies, Waited
<1>5. Position' = {}
  <2>1. Len(sent) = 1
    BY <1>2, <1>3, <1>4 DEF OneAwaited
  <2>2. QED BY <1>2, <2>1 DEF Position
<1>6. InsertAwaited' /\ SelectAwaited'
  BY <1>5 DEF InsertAwaited, SelectAwaited
<1>7. Agree(key, value)' /\ key' # 0 /\ Numbered'
  <2>1. CASE ApplySelectResult
    <3>1. key > 0 /\ (IF Exists(key) THEN Got = <<rows[key]>> ELSE Got = <<>>)
      BY <1>2, <1>3, <1>4, <2>1 DEF ApplySelectResult, SelectAwaited, Got
    <3>2. CASE Exists(key)
      <4>1. value' = rows[key] /\ key' = key
        BY <2>1, <3>1, <3>2 DEF ApplySelectResult
      <4>2. rows[key] =< records
        BY <1>3, <3>2 DEF Numbered, Exists
      <4>3. QED BY <1>1, <1>3, <3>1, <4>1, <4>2 DEF Agree, Exists, Numbered
    <3>3. CASE ~Exists(key)
      <4>1. UNCHANGED <<key, value>>
        BY <2>1, <3>1, <3>3 DEF ApplySelectResult
      <4>2. QED BY <1>1, <1>3, <3>1, <3>3, <4>1 DEF Agree, Exists, Numbered
    <3>4. QED BY <3>2, <3>3
  <2>2. CASE ApplyInsertResult
    <3>1. Got[1] \in 1 .. Len(rows) /\ rows[Got[1]] = value
      BY <1>2, <1>3, <1>4, <2>2 DEF ApplyInsertResult, InsertAwaited, Got
    <3>2. key' = Got[1] /\ UNCHANGED value
      BY <2>2 DEF ApplyInsertResult, KeyOf
    <3>3. QED BY <1>1, <1>3, <3>1, <3>2 DEF Agree, Exists, Numbered
  <2>3. QED BY <2>1, <2>2
<1>8. CellsAgree' /\ KeylessIsNew'
  BY <1>7 DEF CellsAgree, KeylessIsNew
<1>9. QED BY <1>2, <1>6, <1>7, <1>8 DEF Calm, InOrder

(* What running the oldest query leaves in flight.                         *)
LEMMA Run ==
  ASSUME AnyScript, Calm, NEW i, IsNext(i), NEW got, Ran(i, "done", got)
  PROVE  /\ i \in Position /\ sent[i] \in RowQuery /\ sent[i].state = "waiting"
         /\ Len(sent') = Len(sent) /\ Position' = Position
         /\ \A j \in Position : j # i => sent'[j] = sent[j]
         /\ sent'[i].type = sent[i].type /\ sent'[i].state = "done"
         /\ sent'[i].got = got
         /\ Expecting' = Expecting /\ OneAwaited'
         /\ \A j \in Position :
              j # i /\ Waited(sent[j]) => j = Len(sent) /\ sent[j].state = "waiting"
<1>1. sent \in Seq(RowQuery) /\ i \in Position /\ sent[i] \in RowQuery
  BY DEF AnyScript, RowTypeOK, IsNext, Position
<1> DEFINE q == [sent[i] EXCEPT !.state = "done", !.got = got, !.key = 0, !.value = 0]
<1>2. /\ q.type = sent[i].type /\ q.state = "done" /\ q.got = got
      /\ q.cancelled = sent[i].cancelled
  BY <1>1 DEF RowQuery
<1>3. sent' = [sent EXCEPT ![i] = q]
  BY <1>1 DEF Ran
<1> HIDE DEF q
<1>4. /\ Len(sent') = Len(sent)
      /\ sent'[i] = q /\ \A j \in Position : j # i => sent'[j] = sent[j]
  BY <1>1, <1>3 DEF Position
<1>5. Position' = Position
  BY <1>4 DEF Position
<1>6. \A j \in Position : /\ sent'[j].type = sent[j].type
                          /\ sent'[j].cancelled = sent[j].cancelled
  BY <1>2, <1>4
<1>7. Expecting' = Expecting
  BY <1>5, <1>6 DEF Expecting, Position
<1>8. OneAwaited
  BY DEF Calm, InOrder
<1>9. OneAwaited'
  <2>1. ASSUME NEW j \in Position'
        PROVE  sent'[j].state # "failed"
    BY <1>2, <1>4, <1>5, <1>8 DEF OneAwaited
  <2>2. ASSUME NEW j \in Position', Waited(sent'[j])
        PROVE  j = Len(sent') /\ ~sent'[j].cancelled
    <3>1. j \in Position /\ Waited(sent[j])
      BY <1>5, <1>6, <2>2 DEF Waited
    <3>2. j = Len(sent) /\ ~sent[j].cancelled
      BY <1>8, <3>1 DEF OneAwaited
    <3>3. QED BY <1>4, <1>6, <3>1, <3>2
  <2>3. QED BY <2>1, <2>2 DEF OneAwaited, Waited
<1>10. ASSUME NEW j \in Position, j # i, Waited(sent[j])
       PROVE  j = Len(sent) /\ sent[j].state = "waiting"
  <2>1. j = Len(sent)
    BY <1>8, <1>10 DEF OneAwaited
  <2>2. i < j
    BY <1>1, <1>10, <2>1 DEF Position
  <2>3. QED BY <1>1, <2>1, <2>2 DEF AnyScript, RunInOrder, IsNext
<1>11. QED BY <1>1, <1>2, <1>4, <1>5, <1>7, <1>9, <1>10 DEF IsNext

(* A SELECT, an update or a deletion: no row changes but for one that may  *)
(* be deleted, since an update writes the record the row has.              *)
LEMMA ExecuteOther ==
  ASSUME AnyScript, Calm, NEW i, Execute(i), sent[i].type # "insert"
  PROVE  Calm'
<1> DEFINE q == sent[i]
<1>1. /\ IsNext(i) /\ Ran(i, "done", ResultOf(q))
      /\ UNCHANGED <<key, value, records, trouble>>
  BY DEF Execute, cells
<1>2. /\ i \in Position /\ q \in RowQuery /\ q.state = "waiting"
      /\ Len(sent') = Len(sent) /\ Position' = Position
      /\ \A j \in Position : j # i => sent'[j] = sent[j]
      /\ sent'[i].type = q.type /\ sent'[i].state = "done"
      /\ sent'[i].got = ResultOf(q)
      /\ Expecting' = Expecting /\ OneAwaited'
      /\ \A j \in Position :
           j # i /\ Waited(sent[j]) => j = Len(sent) /\ sent[j].state = "waiting"
  BY <1>1, Run
<1>3. /\ CellsAgree /\ UpdatesAgree /\ KeylessIsNew
      /\ InsertAwaited /\ SelectAwaited
      /\ Numbered /\ OneRowPerRecord /\ ~trouble
  BY DEF Calm, InOrder
<1>4. /\ rows \in Seq({Deleted} \cup 0 .. MaxRecords) /\ Len(rows) \in Nat
      /\ key \in Nat /\ value \in Nat /\ records \in Nat
  BY DEF AnyScript, RowTypeOK
<1>5. /\ Len(rows') = Len(rows)
      /\ \A n \in 1 .. Len(rows) : rows'[n] = rows[n] \/ rows'[n] = Deleted
      /\ q.type # "delete" => rows' = rows
  <2>1. rows' = RowsAfter(q)
    BY DEF Execute
  <2>2. CASE q.type = "update" /\ Exists(q.key)
    <3>1. rows[q.key] = q.value /\ q.key \in 1 .. Len(rows)
      BY <1>2, <1>3, <2>2 DEF UpdatesAgree, Agree, Exists
    <3>2. [rows EXCEPT ![q.key] = q.value] = rows
      BY <1>4, <3>1
    <3>3. rows' = rows
      BY <2>1, <2>2, <3>2 DEF RowsAfter
    <3>4. QED BY <3>3
  <2>3. CASE q.type = "delete" /\ Exists(q.key)
    <3>1. rows' = [rows EXCEPT ![q.key] = Deleted]
      BY <2>1, <2>3 DEF RowsAfter
    <3>2. QED BY <1>4, <2>3, <3>1
  <2>4. CASE /\ ~(q.type = "update" /\ Exists(q.key))
             /\ ~(q.type = "delete" /\ Exists(q.key))
    <3>1. rows' = rows
      BY <2>1, <2>4 DEF RowsAfter
    <3>2. QED BY <3>1
  <2>5. QED BY <2>2, <2>3, <2>4
<1>6. \A n, v : Agree(n, v) => Agree(n, v)'
  BY <1>5 DEF Agree, Exists
<1>7. InNoRow(value) => InNoRow(value)'
  BY <1>1, <1>4, <1>5 DEF InNoRow, Deleted
<1>8. CellsAgree' /\ KeylessIsNew'
  BY <1>1, <1>2, <1>3, <1>6, <1>7
  DEF CellsAgree, KeylessIsNew, Agree, Exists
<1>9. UpdatesAgree'
  <2>1. ASSUME NEW j \in Position, sent'[j].type = "update", sent'[j].state = "waiting"
        PROVE  /\ sent'[j] = sent[j]
               /\ Agree(sent[j].key, sent[j].value)'
    <3>1. sent'[j] = sent[j]
      BY <1>2, <2>1
    <3>2. Agree(sent[j].key, sent[j].value)
      BY <1>3, <2>1, <3>1 DEF UpdatesAgree
    <3>3. PICK k, v : k = sent[j].key /\ v = sent[j].value /\ Agree(k, v)
      BY <3>2
    <3>4. Agree(k, v)'
      BY <1>6, <3>3
    <3>5. QED BY <3>1, <3>3, <3>4 DEF Agree, Exists
  <2>2. QED BY <1>2, <2>1 DEF UpdatesAgree, Agree, Exists
<1>10. InsertAwaited'
  <2>1. ASSUME NEW j \in Position, sent'[j].type = "insert"
        PROVE  /\ key' = 0 /\ sent'[j].state = "waiting"
               /\ sent'[j].value = value' /\ InNoRow(value)'
    <3>1. j # i /\ sent'[j] = sent[j]
      BY <1>2, <2>1
    <3>2. sent[j].type = "insert" /\ sent[j].state = "waiting"
      BY <1>2, <2>1, <3>1 DEF Waited
    <3>3. QED BY <1>1, <1>3, <1>7, <3>1, <3>2 DEF InsertAwaited
  <2>2. QED BY <1>2, <2>1 DEF InsertAwaited
<1>11. SelectAwaited'
  <2>1. ASSUME NEW j \in Position, sent'[j].type = "select"
        PROVE  /\ key' > 0
               /\ sent'[j].state = "waiting" => sent'[j].key = key'
               /\ sent'[j].state = "done" =>
                    IF Exists(key)' THEN sent'[j].got = <<rows'[key']>>
                                    ELSE sent'[j].got = <<>>
    <3>1. CASE j = i
      <4>1. q.type = "select" /\ key > 0 /\ q.key = key
        BY <1>2, <1>3, <2>1, <3>1 DEF SelectAwaited
      <4>2. rows' = rows
        BY <1>5, <4>1
      <4>3. sent'[j].got = IF Exists(key) THEN <<rows[key]>> ELSE <<>>
        BY <1>2, <3>1, <4>1, ResultFits
      <4>4. Exists(key)' <=> Exists(key)
        BY <1>1, <4>2 DEF Exists
      <4>5. QED BY <1>1, <1>2, <3>1, <4>1, <4>2, <4>3, <4>4
    <3>2. CASE j # i
      <4>1. sent'[j] = sent[j] /\ sent[j].type = "select"
        BY <1>2, <2>1, <3>2
      <4>2. sent[j].state = "waiting"
        BY <1>2, <3>2, <4>1 DEF Waited
      <4>3. QED BY <1>1, <1>3, <4>1, <4>2 DEF SelectAwaited
    <3>3. QED BY <3>1, <3>2
  <2>2. QED BY <1>2, <2>1 DEF SelectAwaited
<1>12. Numbered'
  BY <1>1, <1>3, <1>4, <1>5 DEF Numbered, Deleted
<1>13. OneRowPerRecord'
  BY <1>3, <1>5 DEF OneRowPerRecord
<1>14. QED
  BY <1>1, <1>2, <1>3, <1>8, <1>9, <1>10, <1>11, <1>12, <1>13 DEF Calm, InOrder

(* An INSERT: it is the last in flight, and its record is in no row.       *)
LEMMA ExecuteInsert ==
  ASSUME AnyScript, Calm, NEW i, Execute(i), sent[i].type = "insert"
  PROVE  Calm'
<1> DEFINE q == sent[i]
<1>1. /\ IsNext(i) /\ Ran(i, "done", ResultOf(q))
      /\ UNCHANGED <<key, value, records, trouble>>
  BY DEF Execute, cells
<1>2. /\ i \in Position /\ q \in RowQuery /\ q.state = "waiting"
      /\ Len(sent') = Len(sent) /\ Position' = Position
      /\ \A j \in Position : j # i => sent'[j] = sent[j]
      /\ sent'[i].type = q.type /\ sent'[i].state = "done"
      /\ sent'[i].got = ResultOf(q)
      /\ Expecting' = Expecting /\ OneAwaited'
  BY <1>1, Run
<1>3. /\ OneAwaited /\ InsertAwaited /\ Numbered
      /\ OneRowPerRecord /\ ~trouble
  BY DEF Calm, InOrder
<1>4. /\ rows \in Seq({Deleted} \cup 0 .. MaxRecords) /\ Len(rows) \in Nat
      /\ value \in 0 .. MaxRecords /\ sent \in Seq(RowQuery)
  BY DEF AnyScript, RowTypeOK
<1>5. Waited(q) /\ i = Len(sent) /\ Expecting
  BY <1>2, <1>3 DEF OneAwaited, Waited, Expecting, Position
<1>6. key = 0 /\ q.value = value /\ InNoRow(value)
  BY <1>2, <1>3 DEF InsertAwaited
<1>7. rows' = Append(rows, value)
  BY <1>6 DEF Execute, RowsAfter
<1>8. /\ Len(rows') = Len(rows) + 1
      /\ \A n \in 1 .. Len(rows) : rows'[n] = rows[n]
      /\ rows'[Len(rows) + 1] = value
  BY <1>4, <1>7
<1>9. \A j \in Position : j # i => ~Waited(sent[j])
  BY <1>3, <1>5 DEF OneAwaited, Waited
<1>10. \A j \in Position : sent'[j].state # "waiting"
  <2>1. ASSUME NEW j \in Position, j # i
        PROVE  sent[j].state # "waiting"
    <3>1. j \in 1 .. i - 1
      BY <1>4, <1>5, <2>1 DEF Position
    <3>2. QED BY <1>1, <3>1 DEF IsNext
  <2>2. QED BY <1>2, <2>1
<1>11. CellsAgree' /\ KeylessIsNew' /\ UpdatesAgree'
  BY <1>2, <1>5, <1>10 DEF CellsAgree, KeylessIsNew, UpdatesAgree
<1>12. InsertAwaited'
  <2>1. ASSUME NEW j \in Position, sent'[j].type = "insert"
        PROVE  /\ key' = 0 /\ sent'[j].state = "done"
               /\ Len(sent'[j].got) = 1
               /\ sent'[j].got[1] \in 1 .. Len(rows')
               /\ rows'[sent'[j].got[1]] = value'
    <3>1. j = i
      BY <1>2, <1>9, <2>1 DEF Waited
    <3>2. sent'[j].got = <<Len(rows) + 1>>
      BY <1>2, <3>1, ResultFits
    <3>3. Len(rows) + 1 \in 1 .. Len(rows')
      BY <1>4, <1>8
    <3>4. QED BY <1>1, <1>2, <1>6, <1>8, <3>1, <3>2, <3>3
  <2>2. QED BY <1>2, <2>1 DEF InsertAwaited
<1>13. SelectAwaited'
  <2>1. ASSUME NEW j \in Position
        PROVE  sent'[j].type # "select"
    BY <1>2, <1>9, <2>1 DEF Waited
  <2>2. QED BY <1>2, <2>1 DEF SelectAwaited
<1>14. \A n \in 1 .. Len(rows') : n \in 1 .. Len(rows) \/ n = Len(rows) + 1
  BY <1>4, <1>8
<1>15. Numbered'
  BY <1>1, <1>3, <1>8, <1>14 DEF Numbered
<1>16. OneRowPerRecord'
  BY <1>3, <1>6, <1>8, <1>14 DEF OneRowPerRecord, InNoRow
<1>17. QED
  BY <1>1, <1>2, <1>3, <1>11, <1>12, <1>13, <1>15, <1>16 DEF Calm, InOrder

(* A new record is in no row: the records before it have smaller numbers.  *)
LEMMA NewInOrder == ASSUME AnyScript, Calm, NewRecord, ~trouble' PROVE Calm'
<1>1. ~Expecting /\ UNCHANGED <<sent, rows>> /\ key' = 0
      /\ records' = records + 1 /\ value' = records + 1
  BY DEF NewRecord
<1>2. \A i \in Position : ~Waited(sent[i])
  BY <1>1, NoneAwaited
<1>3. OneAwaited /\ UpdatesAgree /\ Numbered /\ OneRowPerRecord /\ ~trouble
  BY DEF Calm, InOrder
<1>4. /\ rows \in Seq({Deleted} \cup 0 .. MaxRecords) /\ Len(rows) \in Nat
      /\ records \in Nat /\ value \in Nat
  BY DEF AnyScript, RowTypeOK
<1>5. \A n \in 1 .. Len(rows) : rows[n] \in Int /\ rows[n] =< records
  <2>1. {Deleted} \cup 0 .. MaxRecords \subseteq Int
    BY DEF Deleted
  <2>2. \A n \in 1 .. Len(rows) : rows[n] \in {Deleted} \cup 0 .. MaxRecords
    BY <1>4
  <2>3. QED BY <1>3, <2>1, <2>2 DEF Numbered
<1>6. KeylessIsNew' /\ Numbered'
  <2>1. \A n \in 1 .. Len(rows) : rows[n] # records + 1 /\ rows[n] =< records + 1
    BY <1>4, <1>5
  <2>2. QED BY <1>1, <1>4, <2>1 DEF KeylessIsNew, InNoRow, Numbered
<1>7. CellsAgree'
  BY <1>1, <1>4 DEF CellsAgree, Agree, Exists
<1>8. OneAwaited' /\ UpdatesAgree' /\ OneRowPerRecord'
  BY <1>1, <1>3
  DEF OneAwaited, UpdatesAgree, OneRowPerRecord, Position, Agree,
      Exists
<1>9. InsertAwaited' /\ SelectAwaited'
  BY <1>1, <1>2 DEF InsertAwaited, SelectAwaited, Waited, Position
<1>10. QED BY <1>6, <1>7, <1>8, <1>9 DEF Calm, InOrder

(* Taking results away takes none that is waited for.                      *)
LEMMA RebindInOrder == ASSUME AnyScript, Calm, RebindRow, ~trouble' PROVE Calm'
<1>1. ~Expecting /\ UNCHANGED <<key, value, rows, records>>
  BY DEF RebindRow, cells
<1>2. \A i \in Position : ~Waited(sent[i])
  BY <1>1, NoneAwaited
<1>3. \A q \in RowQuery : LET c == [q EXCEPT !.cancelled = TRUE]
                       IN  /\ c.type = q.type /\ c.state = q.state
                           /\ c.key = q.key /\ c.value = q.value
  BY DEF RowQuery
<1>4. \A i \in Position : sent[i] \in RowQuery
  BY DEF AnyScript, RowTypeOK, Position
<1>5. Len(sent') = Len(sent) /\ Position' = Position
  BY DEF RebindRow, Position, AnyScript, RowTypeOK
<1>6. \A i \in Position : /\ sent'[i].type = sent[i].type
                          /\ sent'[i].state = sent[i].state
                          /\ sent'[i].key = sent[i].key
                          /\ sent'[i].value = sent[i].value
  BY <1>3, <1>4 DEF RebindRow, Position
<1>7. /\ OneAwaited /\ CellsAgree /\ UpdatesAgree
      /\ KeylessIsNew /\ Numbered /\ OneRowPerRecord
  BY DEF Calm, InOrder
<1>8. \A i \in Position' : sent'[i].type \notin {"select", "insert"}
  BY <1>2, <1>5, <1>6 DEF Waited
<1>9. OneAwaited' /\ InsertAwaited' /\ SelectAwaited'
  BY <1>5, <1>6, <1>7, <1>8
  DEF OneAwaited, InsertAwaited, SelectAwaited, Waited
<1>10. CellsAgree' /\ KeylessIsNew' /\ Numbered' /\ OneRowPerRecord'
  <2>1. Agree(key, value) /\ (key = 0 => InNoRow(value))
    BY <1>1, <1>7 DEF CellsAgree, KeylessIsNew
  <2>2. CellsAgree'
    BY <1>1, <2>1 DEF CellsAgree, Agree, Exists
  <2>3. KeylessIsNew'
    BY <1>1, <2>1 DEF KeylessIsNew, InNoRow
  <2>4. Numbered'
    BY <1>1, <1>7 DEF Numbered
  <2>5. OneRowPerRecord'
    <3>1. ~trouble
      BY DEF Calm
    <3>2. QED BY <1>1, <1>7, <3>1 DEF OneRowPerRecord
  <2>6. QED BY <2>2, <2>3, <2>4, <2>5
<1>11. UpdatesAgree'
  BY <1>1, <1>5, <1>6, <1>7 DEF UpdatesAgree, Agree, Exists
<1>12. QED BY <1>9, <1>10, <1>11 DEF Calm, InOrder

LEMMA NextInOrder ==
  AnyScript /\ (~trouble => Calm) /\ [RowNext]_rowVars => (~trouble' => Calm')
<1> SUFFICES ASSUME AnyScript, ~trouble => Calm, [RowNext]_rowVars, ~trouble' PROVE Calm'
  OBVIOUS
<1>1. ~trouble /\ Calm
  <2>1. ASSUME NEW type, NEW k, SendRow(type, k)
        PROVE  ~trouble
    BY <2>1 DEF SendRow
  <2>2. CASE Script
    BY <2>1, <2>2
    DEF Script, NewRecord, Update, Insert, Save, Copy,
        RebindRow, Select, Delete
  <2>3. CASE Worker
    BY <2>3 DEF Worker, Execute, Fail
  <2>4. CASE ApplyInsertResult
    BY <2>4 DEF ApplyInsertResult
  <2>5. CASE ApplySelectResult \/ DropRow \/ UNCHANGED rowVars
    BY <2>5 DEF ApplySelectResult, DropRow, rowVars
  <2>6. ~trouble
    BY <2>2, <2>3, <2>4, <2>5 DEF RowNext, Main
  <2>7. QED BY <2>6
<1>2. key \in Nat
  BY DEF AnyScript, RowTypeOK
<1>3. CASE Update
  BY <1>1, <1>2, <1>3, SendInOrder DEF Update, RowTypes, cells
<1>4. CASE Save
  <2>1. CASE HasKey
    BY <1>3, <1>4, <2>1 DEF Save
  <2>2. CASE ~HasKey
    <3>1. key = 0
      BY <1>2, <2>2 DEF HasKey
    <3>2. QED BY <1>1, <1>4, <2>2, <3>1, SendInOrder
              DEF Save, Insert, RowTypes, cells
  <2>3. QED BY <2>1, <2>2
<1>5. ASSUME NEW k \in 1 .. Len(rows), Select(k)
      PROVE  Calm'
  <2>1. k \in Nat /\ k > 0
    OBVIOUS
  <2>2. QED BY <1>1, <1>5, <2>1, SendInOrder DEF Select, RowTypes
<1>6. ASSUME NEW clear \in BOOLEAN, Delete(clear)
      PROVE  Calm'
  <2>1. UNCHANGED <<key, value>> \/ (key' = 0 /\ value' = 0)
    BY <1>6 DEF Delete, ClearVariableValues
  <2>2. QED BY <1>1, <1>2, <1>6, <2>1, SendInOrder DEF Delete, RowTypes
<1>7. CASE NewRecord
  BY <1>1, <1>7, NewInOrder
<1>8. CASE RebindRow
  BY <1>1, <1>8, RebindInOrder
<1>9. ASSUME NEW i \in 1 .. MaxFlight, Execute(i)
      PROVE  Calm'
  BY <1>1, <1>9, ExecuteInsert, ExecuteOther
<1>10. CASE ApplySelectResult \/ ApplyInsertResult
  BY <1>1, <1>10, ApplyInOrder
<1>11. CASE DropRow
  BY <1>1, <1>11, DropInOrder
<1>12. CASE UNCHANGED rowVars
  BY <1>1, <1>12
  DEF rowVars, Calm, InOrder, OneAwaited, CellsAgree, UpdatesAgree,
      KeylessIsNew, InsertAwaited, SelectAwaited, Numbered,
      OneRowPerRecord, Position, Waited, Agree, Exists, InNoRow,
      Expecting
<1>13. ~Copy /\ \A i \in 1 .. MaxFlight : ~Fail(i)
  BY DEF Copy, Fail
<1>14. QED
  BY <1>3, <1>4, <1>5, <1>6, <1>7, <1>8, <1>9, <1>10, <1>11, <1>12, <1>13
  DEF RowNext, Script, Worker, Main

LEMMA InitRow ==
  RowInit => RowInv
<1> SUFFICES ASSUME RowInit PROVE RowInv
  OBVIOUS
<1>1. Len(sent) = 0 /\ Len(rows) = 0 /\ Position = {} /\ 1 .. Len(rows) = {}
  BY DEF RowInit, Position
<1>2. 0 \in 0 .. MaxRecords /\ 0 =< MaxRows /\ 0 =< MaxFlight
  BY OrmRowAssumption
<1>3. <<>> \in Seq(RowQuery) /\ <<>> \in Seq({Deleted} \cup 0 .. MaxRecords)
  OBVIOUS
<1>4. AnyScript
  BY <1>1, <1>2, <1>3
  DEF RowInit, AnyScript, RowTypeOK, RunInOrder, ResultsOfKind
<1>5. OneRowPerRecord
  BY <1>1 DEF OneRowPerRecord
<1>6. InOrder
  BY <1>1
  DEF RowInit, InOrder, OneAwaited, CellsAgree, UpdatesAgree,
      KeylessIsNew, InsertAwaited, SelectAwaited, Numbered, Agree,
      Exists, InNoRow
<1>7. QED BY <1>4, <1>5, <1>6 DEF RowInv

LEMMA NextRow ==
  RowInv /\ [RowNext]_rowVars => RowInv'
<1>1. RowInv <=> AnyScript /\ (~trouble => Calm)
  <2>1. trouble => OneRowPerRecord
    BY DEF OneRowPerRecord
  <2>2. QED BY <2>1 DEF RowInv, Calm
<1>2. RowInv' <=> AnyScript' /\ (~trouble' => Calm')
  BY <1>1, PTL
<1>3. QED BY <1>1, <1>2, NextAny, NextInOrder

(* A record is in one row at most, whatever a script that waits does.      *)
THEOREM RecordsHaveOneRow ==
  RowSpec => []OneRowPerRecord
<1>1. RowInv => OneRowPerRecord
  BY DEF RowInv
<1>2. QED BY <1>1, InitRow, NextRow, PTL DEF RowSpec
=============================================================================
