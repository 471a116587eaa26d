----------------------------- MODULE ResultCache -----------------------------
(***************************************************************************)
(* The result cache: who owns the CMySQLResult objects the natives read.   *)
(*                                                                         *)
(* A handle has at most one active result and a table of saved results,    *)
(* and one static pointer, CMySQLHandle::ActiveHandle, names the handle    *)
(* whose active result the cache_get_* natives read.  Plain pointers and   *)
(* one number, m_ActiveResultID (0: not saved), decide who deletes what.   *)
(* Everything runs on the main thread; what makes it hard is the sequences *)
(* of natives a script may call, inside and outside a callback.            *)
(*                                                                         *)
(* A result is named by its address, which is reused once it is deleted.   *)
(* Results of queries that wait for their callback belong to the query and *)
(* appear here when ProcessCallbacks hands them to the handle.  That the   *)
(* handle of such a query is open is what QueryPipeline establishes.       *)
(***************************************************************************)
EXTENDS Integers

CONSTANTS
  Handles,   \* addresses of CMySQLHandle objects
  Results,   \* addresses of CMySQLResult objects
  MaxId,     \* bound: largest cache id handed out
  None       \* the null pointer

Ids == 1 .. MaxId

ASSUME MaxIdAssumption == MaxId \in Nat \ {0}
ASSUME NoneAssumption == None \notin Handles /\ None \notin Results

VARIABLES
  open,          \* SUBSET Handles: the handles in SQLHandle
  heap,          \* SUBSET Results: results allocated and not yet deleted
  saved,         \* [Handles -> [Ids -> Results or None]]: m_SavedResults
  active,        \* [Handles -> Results or None]: m_ActiveResult
  activeId,      \* [Handles -> {0} \cup Ids]: m_ActiveResultID
  activeHandle,  \* Handles or None: CMySQLHandle::ActiveHandle
  callback       \* <<h, alive>> while ProcessCallbacks is in amx_Exec for a
                 \* query of the handle at h, else <<>>; alive is the weak
                 \* pointer handleLifetime: the object has not been destroyed

vars == <<open, heap, saved, active, activeId, activeHandle, callback>>

TypeOK ==
  /\ open \in SUBSET Handles
  /\ heap \in SUBSET Results
  /\ saved \in [Handles -> [Ids -> Results \cup {None}]]
  /\ active \in [Handles -> Results \cup {None}]
  /\ activeId \in [Handles -> {0} \cup Ids]
  /\ activeHandle \in Handles \cup {None}
  /\ callback \in (Handles \X BOOLEAN) \cup {<<>>}

Init ==
  /\ open = {}
  /\ heap = {}
  /\ saved = [h \in Handles |-> [i \in Ids |-> None]]
  /\ active = [h \in Handles |-> None]
  /\ activeId = [h \in Handles |-> 0]
  /\ activeHandle = None
  /\ callback = <<>>

---------------------------------------------------------------------------
SavedIds(h) == {i \in Ids : saved[h][i] # None}
SavedResults(h) == {saved[h][i] : i \in SavedIds(h)}

(* A query that failed has no result: the pointer is null.                 *)
Allocated(r) == {r} \ {None}
NewResults == (Results \ heap) \cup {None}

(* What is deleted with the active pointer: a result that is not saved.    *)
ActiveNeverOwned(h) == {}                 \* faulty variant: never deleted
ActiveAlwaysOwned(h) == {active[h]} \ {None}  \* faulty variant: no id check
OwnedByActive(h) == IF activeId[h] = 0 THEN {active[h]} \ {None} ELSE {}

(* The ids SaveActiveResult can choose: one more than a used id (which one *)
(* depends on the order of an unordered_map), until one is free.           *)
NextIds(h) ==                 \* faulty variant: a used id is not skipped
  IF SavedIds(h) = {} THEN {1} ELSE {i + 1 : i \in SavedIds(h)}
FreshIds(h) ==
  IF SavedIds(h) = {} THEN {1} ELSE {i + 1 : i \in SavedIds(h)} \ SavedIds(h)

Activate(h, r, id) ==
  /\ active' = [active EXCEPT ![h] = r]
  /\ activeId' = [activeId EXCEPT ![h] = id]
  /\ activeHandle' = IF r = None THEN None ELSE h

(* insert does not replace: an entry that is there stays.                  *)
SaveAs(h, id, r) == saved' = [saved EXCEPT ![h][id] = IF @ = None THEN r ELSE @]

---------------------------------------------------------------------------
Connect(h) ==
  /\ h \notin open
  /\ open' = open \cup {h}
  /\ UNCHANGED <<heap, saved, active, activeId, activeHandle, callback>>

(* SetActiveResult(query->Result), then amx_Exec enters the script.        *)
BeginCallback(h, r) ==
  /\ callback = <<>> /\ h \in open
  /\ heap' = heap \cup Allocated(r)
  /\ Activate(h, r, 0)
  /\ callback' = <<h, TRUE>>
  /\ UNCHANGED <<open, saved>>

(* Without handleLifetime the handle object is not touched again.          *)
HandleSurvived == callback[2]

EndCallback ==
  /\ callback # <<>>
  /\ IF HandleSurvived
     THEN /\ heap' = heap \ OwnedByActive(callback[1])
          /\ Activate(callback[1], None, 0)
     ELSE UNCHANGED <<heap, active, activeId, activeHandle>>
  /\ callback' = <<>>
  /\ UNCHANGED <<open, saved>>

(* mysql_query and mysql_query_file with use_cache: the result becomes     *)
(* active, over whatever was active, and is saved if there is one.         *)
QueryCached(h, r) ==
  /\ h \in open
  /\ heap' = heap \cup Allocated(r)
  /\ IF r = None
     THEN Activate(h, None, 0) /\ UNCHANGED saved
     ELSE \E id \in FreshIds(h) \cap Ids : Activate(h, r, id) /\ SaveAs(h, id, r)
  /\ UNCHANGED <<open, callback>>

(* cache_save: an active result that is saved already keeps its id.        *)
CacheSave ==
  /\ activeHandle # None
  /\ active[activeHandle] # None /\ activeId[activeHandle] = 0
  /\ \E id \in FreshIds(activeHandle) \cap Ids :
       /\ activeId' = [activeId EXCEPT ![activeHandle] = id]
       /\ SaveAs(activeHandle, id, active[activeHandle])
  /\ UNCHANGED <<open, heap, active, activeHandle, callback>>

IsActive(h, id) == active[h] = saved[h][id]

CacheDelete(h, id) ==
  /\ h \in open /\ id \in SavedIds(h)
  /\ heap' = heap \ {saved[h][id]}
  /\ saved' = [saved EXCEPT ![h][id] = None]
  /\ IF IsActive(h, id)
     THEN Activate(h, None, 0)
     ELSE UNCHANGED <<active, activeId, activeHandle>>
  /\ UNCHANGED <<open, callback>>

CacheSetActive(h, id) ==
  /\ h \in open /\ id \in SavedIds(h)
  /\ heap' = heap \ OwnedByActive(h)
  /\ Activate(h, saved[h][id], id)
  /\ UNCHANGED <<open, saved, callback>>

(* cache_set_active(0) *)
CacheSetNone(h) ==
  /\ h \in open
  /\ heap' = heap \ OwnedByActive(h)
  /\ Activate(h, None, 0)
  /\ UNCHANGED <<open, saved, callback>>

KeepActiveHandle(h) == activeHandle  \* faulty variant: not reset
WithoutHandle(h) == IF activeHandle = h THEN None ELSE activeHandle

(* mysql_close: Destroy and ~CMySQLHandle.                                 *)
Close(h) ==
  /\ h \in open
  /\ open' = open \ {h}
  /\ heap' = heap \ (SavedResults(h) \cup OwnedByActive(h))
  /\ saved' = [saved EXCEPT ![h] = [i \in Ids |-> None]]
  /\ active' = [active EXCEPT ![h] = None]
  /\ activeId' = [activeId EXCEPT ![h] = 0]
  /\ activeHandle' = WithoutHandle(h)
  /\ callback' = IF callback # <<>> /\ callback[1] = h THEN <<h, FALSE>> ELSE callback

Next ==
  \/ EndCallback \/ CacheSave
  \/ \E h \in Handles :
       \/ Connect(h) \/ CacheSetNone(h) \/ Close(h)
       \/ \E r \in NewResults : BeginCallback(h, r) \/ QueryCached(h, r)
       \/ \E id \in Ids : CacheDelete(h, id) \/ CacheSetActive(h, id)

Spec == Init /\ [][Next]_vars

---------------------------------------------------------------------------
(* The cache_get_* natives check ActiveHandle and nothing else before they *)
(* read its active result: it is there and has not been deleted.           *)
CacheReadable ==
  activeHandle # None =>
    activeHandle \in open /\ active[activeHandle] \in heap

(* Every result has one owner, so that nothing is deleted twice or while   *)
(* an owner still points to it: the table entry it is saved under or, when *)
(* it is not saved, the active pointer of one handle.  A nonzero           *)
(* m_ActiveResultID is the entry that holds the active result.             *)
SoleOwner ==
  /\ \A h \in Handles, i \in Ids : saved[h][i] # None =>
       /\ saved[h][i] \in heap
       /\ \A g \in Handles, j \in Ids : saved[g][j] = saved[h][i] => g = h /\ j = i
  /\ \A h \in Handles : active[h] # None =>
       IF activeId[h] # 0 THEN active[h] = saved[h][activeId[h]]
       ELSE /\ active[h] \in heap
            /\ \A g \in Handles : /\ active[h] \notin SavedResults(g)
                                  /\ active[g] = active[h] => g = h

(* Only the handle whose callback is running has an active result that is  *)
(* not saved: ProcessCallbacks overwrites none when it hands over the next.*)
UnsavedInCallbackOnly ==
  \A h \in Handles : active[h] # None /\ activeId[h] = 0 =>
    callback = <<h, TRUE>>

Owned == (UNION {SavedResults(h) \cup {active[h]} : h \in Handles}) \ {None}

(* A result that loses its last owner is deleted by the same step, with    *)
(* one exception: mysql_query called in a callback puts its own result     *)
(* over the callback's and nobody deletes that one.                        *)
NothingLeaked ==
  [][\A r \in Owned : \/ r \in Owned' \/ r \notin heap'
                      \/ callback # <<>> /\ \E n \in NewResults : QueryCached(callback[1], n)]_vars

(* A Cache id a script is given names the result it was given for, and     *)
(* stays bound to it until cache_delete or mysql_close: a later cache_save *)
(* neither takes it over nor gives it out again.                           *)
SavedIdsStable ==
  [][\A h \in Handles :
       /\ \A i \in Ids : saved[h][i] # None => saved'[h][i] \in {saved[h][i], None}
       /\ activeId'[h] # 0 => saved'[h][activeId'[h]] = active'[h]]_vars
=============================================================================
