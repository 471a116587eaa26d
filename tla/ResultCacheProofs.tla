-------------------------- MODULE ResultCacheProofs --------------------------
(***************************************************************************)
(* Ownership of the result cache for any number of handles, results and    *)
(* cache ids.  The inductive invariant adds to the checked ones that a     *)
(* handle outside SQLHandle holds nothing.                                 *)
(***************************************************************************)
EXTENDS ResultCache, TLAPS

(* The table owns what it holds: every entry is allocated and has no other *)
(* entry.                                                                  *)
SavedOwned ==
  \A h \in Handles, i \in Ids : saved[h][i] # None =>
    /\ saved[h][i] \in heap
    /\ \A g \in Handles, j \in Ids : saved[g][j] = saved[h][i] => g = h /\ j = i

(* amx_Exec runs a callback of handle h, which has not been destroyed.     *)
RunsFor(h) == callback = <<h, TRUE>>

(* An active result is the entry its id names, or it belongs to nobody     *)
(* else and a callback of its handle is running.                           *)
ActiveOwned ==
  \A h \in Handles : active[h] # None =>
    \/ activeId[h] \in Ids /\ active[h] = saved[h][activeId[h]]
    \/ /\ activeId[h] = 0 /\ RunsFor(h)
       /\ active[h] \in heap
       /\ \A g \in Handles, j \in Ids : saved[g][j] # active[h]

(* A closed handle has an empty table and no active result.                *)
ClosedEmpty ==
  \A h \in Handles \ open :
    active[h] = None /\ activeId[h] = 0 /\ \A i \in Ids : saved[h][i] = None

(* ActiveHandle names an open handle with an active result.                *)
ActiveHandleOpen ==
  activeHandle # None => activeHandle \in open /\ active[activeHandle] # None

(* A null active pointer has no id.                                        *)
NoIdForNull == \A h \in Handles : active[h] = None => activeId[h] = 0

(* The running callback's handle is open while its lifetime lasts.         *)
CallbackOpen ==
  callback # <<>> => callback \in Handles \X BOOLEAN /\ (callback[2] => callback[1] \in open)

IInv == TypeOK /\ SavedOwned /\ ActiveOwned /\ ClosedEmpty /\ ActiveHandleOpen
        /\ NoIdForNull /\ CallbackOpen

---------------------------------------------------------------------------
(* Zero is no cache id.                                                    *)
LEMMA ZeroIsNoId == 0 \notin Ids
BY DEF Ids

(* The id SaveActiveResult chooses names no entry.                         *)
LEMMA FreshIsFree ==
  ASSUME NEW h \in Handles, NEW id \in FreshIds(h), id \in Ids
  PROVE  saved[h][id] = None
BY DEF FreshIds, SavedIds

(* ... so that the result is entered under it.                             *)
LEMMA SaveEnters ==
  ASSUME TypeOK, NEW h \in Handles, NEW id \in FreshIds(h) \cap Ids, NEW r, SaveAs(h, id, r)
  PROVE  saved' = [saved EXCEPT ![h][id] = r]
<1>1. saved[h][id] = None
  BY FreshIsFree
<1>2. QED BY <1>1 DEF SaveAs

(* One callback runs at a time.                                            *)
LEMMA RunsForOne ==
  ASSUME NEW g, NEW h, RunsFor(g), RunsFor(h)
  PROVE  g = h
BY DEF RunsFor

(* What is deleted with the active pointer of h is in no table and is no   *)
(* other handle's active result.                                           *)
LEMMA OwnedApart ==
  ASSUME IInv, NEW h \in Handles
  PROVE  /\ \A g \in Handles, i \in Ids : saved[g][i] \notin OwnedByActive(h)
         /\ \A g \in Handles \ {h} : active[g] \notin OwnedByActive(h)
<1>1. \A x \in OwnedByActive(h) :
        /\ x = active[h] /\ x # None /\ RunsFor(h)
        /\ \A g \in Handles, i \in Ids : saved[g][i] # x
  BY ZeroIsNoId DEF IInv, ActiveOwned, OwnedByActive
<1>2. ASSUME NEW g \in Handles, g # h, active[g] \in OwnedByActive(h)
      PROVE  FALSE
  <2>1. ~RunsFor(g)
    BY <1>1, <1>2, RunsForOne
  <2>2. active[g] = saved[g][activeId[g]] /\ activeId[g] \in Ids
    BY <1>1, <1>2, <2>1 DEF IInv, ActiveOwned
  <2>3. QED BY <1>1, <1>2, <2>2
<1>3. QED BY <1>1, <1>2

(* A new object stored under any id keeps the entries distinct.            *)
LEMMA NewEntry ==
  ASSUME TypeOK, SavedOwned, NEW h \in Handles, NEW id \in Ids, NEW r, r \notin heap,
         saved' = [saved EXCEPT ![h][id] = r], heap' = heap \cup {r}
  PROVE  SavedOwned'
<1>1. saved'[h][id] = r
  BY DEF TypeOK
<1>2. \A g \in Handles, j \in Ids : ~(g = h /\ j = id) => saved'[g][j] = saved[g][j]
  BY DEF TypeOK
<1>3. QED
  BY <1>1, <1>2 DEF SavedOwned

---------------------------------------------------------------------------
(* Opening a handle: its table is empty.                                   *)
LEMMA ConnectInv ==
  ASSUME IInv, NEW h \in Handles, Connect(h)
  PROVE  IInv'
<1>1. TypeOK'
  BY DEF IInv, TypeOK, Connect
<1>2. SavedOwned'
  BY DEF IInv, Connect, SavedOwned
<1>3. ActiveOwned'
  BY DEF IInv, Connect, ActiveOwned, RunsFor
<1>4. ClosedEmpty'
  BY DEF IInv, Connect, ClosedEmpty
<1>5. ActiveHandleOpen'
  BY DEF IInv, Connect, ActiveHandleOpen
<1>6. NoIdForNull'
  BY DEF IInv, Connect, NoIdForNull
<1>7. CallbackOpen'
  BY DEF IInv, Connect, CallbackOpen
<1>8. QED BY <1>1, <1>2, <1>3, <1>4, <1>5, <1>6, <1>7 DEF IInv

(* A query hands its result over: no other result is unsaved.              *)
LEMMA BeginCallbackInv ==
  ASSUME IInv, NEW h \in Handles, NEW r \in NewResults, BeginCallback(h, r)
  PROVE  IInv'
<1>1. TypeOK'
  BY DEF IInv, TypeOK, BeginCallback, Activate, Allocated, NewResults
<1>2. SavedOwned'
  BY DEF IInv, BeginCallback, SavedOwned
<1>3. ActiveOwned'
  BY DEF IInv, TypeOK, BeginCallback, Activate, Allocated, NewResults, SavedOwned,
         ActiveOwned, RunsFor
<1>4. ClosedEmpty'
  BY DEF IInv, BeginCallback, Activate, ClosedEmpty
<1>5. ActiveHandleOpen'
  BY DEF IInv, TypeOK, BeginCallback, Activate, ActiveHandleOpen
<1>6. NoIdForNull'
  BY DEF IInv, TypeOK, BeginCallback, Activate, NoIdForNull
<1>7. CallbackOpen'
  BY DEF BeginCallback, CallbackOpen
<1>8. QED BY <1>1, <1>2, <1>3, <1>4, <1>5, <1>6, <1>7 DEF IInv

(* The callback's result is taken back, unless its handle is gone.         *)
LEMMA EndCallbackInv ==
  ASSUME IInv, EndCallback
  PROVE  IInv'
<1>1. TypeOK'
  BY DEF IInv, TypeOK, EndCallback, Activate
<1>2. SavedOwned'
  <2>1. CASE HandleSurvived
    <3>1. callback[1] \in Handles
      BY DEF IInv, CallbackOpen, EndCallback
    <3>2. saved' = saved /\ heap' = heap \ OwnedByActive(callback[1])
      BY <2>1 DEF EndCallback
    <3>3. QED
      BY <3>1, <3>2, OwnedApart DEF IInv, SavedOwned
  <2>2. CASE ~HandleSurvived
    BY <2>2 DEF IInv, EndCallback, SavedOwned
  <2>3. QED BY <2>1, <2>2
<1>3. ActiveOwned'
  <2> DEFINE c == callback[1]
  <2>1. callback = <<c, callback[2]>> /\ c \in Handles /\ callback[2] \in BOOLEAN
    BY DEF IInv, CallbackOpen, EndCallback
  <2>2. saved' = saved
    BY DEF EndCallback
  <2>3. CASE HandleSurvived
    <3>1. RunsFor(c)
      BY <2>1, <2>3 DEF RunsFor, HandleSurvived
    <3>2. active' = [active EXCEPT ![c] = None] /\ activeId' = [activeId EXCEPT ![c] = 0]
      BY <2>3 DEF EndCallback, Activate
    <3> HIDE DEF c
    <3>3. ASSUME NEW h \in Handles, active'[h] # None
          PROVE  h # c /\ active'[h] = active[h] /\ activeId'[h] = activeId[h]
      BY <3>2, <3>3 DEF IInv, TypeOK
    <3>4. QED
      BY <2>2, <3>1, <3>3, RunsForOne DEF IInv, ActiveOwned
  <2>4. CASE ~HandleSurvived
    <3>1. ASSUME NEW h, RunsFor(h)
          PROVE  FALSE
      <4>1. callback[2] = TRUE
        BY <3>1 DEF RunsFor
      <4>2. QED BY <2>4, <4>1 DEF HandleSurvived
    <3>2. active' = active /\ activeId' = activeId
      BY <2>4 DEF EndCallback
    <3>3. QED
      BY <2>2, <3>1, <3>2 DEF IInv, ActiveOwned
  <2>5. QED BY <2>3, <2>4
<1>4. ClosedEmpty'
  BY DEF IInv, TypeOK, EndCallback, Activate, ClosedEmpty
<1>5. ActiveHandleOpen'
  BY DEF IInv, EndCallback, Activate, ActiveHandleOpen
<1>6. NoIdForNull'
  BY DEF IInv, TypeOK, EndCallback, Activate, NoIdForNull
<1>7. CallbackOpen'
  BY DEF EndCallback, CallbackOpen
<1>8. QED BY <1>1, <1>2, <1>3, <1>4, <1>5, <1>6, <1>7 DEF IInv

(* mysql_query stores a new result under a free id.                        *)
LEMMA QueryCachedInv ==
  ASSUME IInv, NEW h \in Handles, NEW r \in NewResults, QueryCached(h, r)
  PROVE  IInv'
<1>1. TypeOK'
  <2>1. r \in Results \cup {None} /\ heap' \in SUBSET Results
    BY DEF IInv, TypeOK, QueryCached, NewResults, Allocated
  <2>2. active' \in [Handles -> Results \cup {None}] /\ activeHandle' \in Handles \cup {None}
    BY <2>1 DEF IInv, TypeOK, QueryCached, Activate
  <2>3. CASE r = None
    BY <2>1, <2>3 DEF IInv, TypeOK, QueryCached, Activate
  <2>4. CASE r # None
    <3>1. PICK id \in FreshIds(h) \cap Ids : Activate(h, r, id) /\ SaveAs(h, id, r)
      BY <2>4 DEF QueryCached
    <3>2. activeId' \in [Handles -> {0} \cup Ids]
      BY <3>1 DEF IInv, TypeOK, Activate
    <3>3. saved' \in [Handles -> [Ids -> Results \cup {None}]]
      BY <2>1, <3>1, SaveEnters DEF IInv, TypeOK
    <3>4. QED
      BY <2>1, <2>2, <3>2, <3>3 DEF IInv, TypeOK, QueryCached
  <2>5. QED BY <2>3, <2>4
<1>2. SavedOwned'
  <2>1. CASE r = None
    BY <2>1 DEF IInv, QueryCached, SavedOwned
  <2>2. CASE r # None
    <3>1. PICK id \in FreshIds(h) \cap Ids : SaveAs(h, id, r)
      BY <2>2 DEF QueryCached
    <3>2. saved' = [saved EXCEPT ![h][id] = r] /\ heap' = heap \cup {r} /\ r \notin heap
      BY <2>2, <3>1, SaveEnters DEF IInv, QueryCached, Allocated, NewResults
    <3>3. QED
      BY <3>2, NewEntry DEF IInv
  <2>3. QED BY <2>1, <2>2
<1>3. ActiveOwned'
  <2>1. CASE r = None
    <3>1. /\ heap' = heap /\ saved' = saved
          /\ \A g \in Handles : RunsFor(g)' = RunsFor(g)
      BY <2>1 DEF QueryCached, Allocated, RunsFor
    <3>2. \A g \in Handles : active'[g] # None =>
            active'[g] = active[g] /\ activeId'[g] = activeId[g]
      BY <2>1 DEF IInv, TypeOK, QueryCached, Activate
    <3>3. QED
      BY <3>1, <3>2 DEF IInv, ActiveOwned
  <2>2. CASE r # None
    <3>1. PICK id \in FreshIds(h) \cap Ids : Activate(h, r, id) /\ SaveAs(h, id, r)
      BY <2>2 DEF QueryCached
    <3>2. saved[h][id] = None
      BY FreshIsFree
    <3>3. active'[h] = r /\ activeId'[h] = id /\ saved'[h][id] = r /\ id \in Ids
      BY <3>1, SaveEnters DEF IInv, TypeOK, Activate
    <3>4. \A g \in Handles, j \in Ids : ~(g = h /\ j = id) => saved'[g][j] = saved[g][j]
      BY <3>1 DEF SaveAs
    <3>5. \A g \in Handles : g # h => active'[g] = active[g] /\ activeId'[g] = activeId[g]
      BY <3>1 DEF Activate
    <3>6. heap' = heap \cup {r} /\ r \notin heap /\ \A g \in Handles : RunsFor(g)' = RunsFor(g)
      BY <2>2 DEF QueryCached, Allocated, NewResults, RunsFor
    <3>7. QED
      BY <3>3, <3>4, <3>5, <3>6 DEF IInv, ActiveOwned
  <2>3. QED BY <2>1, <2>2
<1>4. ClosedEmpty'
  BY DEF IInv, TypeOK, QueryCached, Activate, SaveAs, ClosedEmpty
<1>5. ActiveHandleOpen'
  BY DEF IInv, TypeOK, QueryCached, Activate, ActiveHandleOpen
<1>6. NoIdForNull'
  BY DEF IInv, TypeOK, QueryCached, Activate, NoIdForNull
<1>7. CallbackOpen'
  BY DEF IInv, QueryCached, CallbackOpen
<1>8. QED BY <1>1, <1>2, <1>3, <1>4, <1>5, <1>6, <1>7 DEF IInv

(* cache_save moves the active result to the table.                        *)
LEMMA CacheSaveInv ==
  ASSUME IInv, CacheSave
  PROVE  IInv'
<1>1. TypeOK'
  <2>1. PICK id \in FreshIds(activeHandle) \cap Ids :
          /\ activeId' = [activeId EXCEPT ![activeHandle] = id]
          /\ SaveAs(activeHandle, id, active[activeHandle])
    BY DEF CacheSave
  <2>2. activeHandle \in Handles
    BY DEF CacheSave, IInv, TypeOK
  <2>3. saved' = [saved EXCEPT ![activeHandle][id] = active[activeHandle]]
    BY <2>1, <2>2, SaveEnters DEF IInv
  <2>4. QED BY <2>1, <2>2, <2>3 DEF IInv, TypeOK, CacheSave
<1>2. SavedOwned'
  <2> DEFINE a == activeHandle
  <2>1. PICK id \in FreshIds(a) \cap Ids : SaveAs(a, id, active[a])
    BY DEF CacheSave
  <2>2. a \in Handles /\ active[a] # None /\ activeId[a] = 0 /\ heap' = heap
    BY DEF CacheSave, IInv, TypeOK
  <2>3. active[a] \in heap /\ \A g \in Handles, j \in Ids : saved[g][j] # active[a]
    BY <2>2, ZeroIsNoId DEF IInv, ActiveOwned
  <2>4. saved[a][id] = None /\ saved' = [saved EXCEPT ![a][id] = active[a]]
    BY <2>1, <2>2, FreshIsFree, SaveEnters DEF IInv
  <2> HIDE DEF a
  <2>5. saved'[a][id] = active[a] /\ id \in Ids
    BY <2>2, <2>4 DEF IInv, TypeOK
  <2>6. \A g \in Handles, j \in Ids : ~(g = a /\ j = id) => saved'[g][j] = saved[g][j]
    BY <2>4
  <2>7. QED
    BY <2>2, <2>3, <2>5, <2>6 DEF IInv, SavedOwned
<1>3. ActiveOwned'
  <2> DEFINE a == activeHandle
  <2>1. PICK id \in FreshIds(a) \cap Ids :
          /\ activeId' = [activeId EXCEPT ![a] = id]
          /\ SaveAs(a, id, active[a])
    BY DEF CacheSave
  <2>2. a \in Handles /\ active[a] # None /\ activeId[a] = 0
    BY DEF CacheSave, IInv, TypeOK
  <2>3. saved[a][id] = None
    BY <2>2, FreshIsFree
  <2> HIDE DEF a
  <2>4. saved'[a][id] = active[a] /\ activeId'[a] = id /\ id \in Ids
    BY <2>1, <2>2, SaveEnters DEF IInv, TypeOK
  <2>5. \A g \in Handles, j \in Ids : ~(g = a /\ j = id) => saved'[g][j] = saved[g][j]
    BY <2>1 DEF SaveAs
  <2>6. \A g \in Handles : g # a => activeId'[g] = activeId[g]
    BY <2>1
  <2>7. active' = active /\ heap' = heap /\ \A g \in Handles : RunsFor(g)' = RunsFor(g)
    BY DEF CacheSave, RunsFor
  <2>8. ASSUME NEW g \in Handles, g # a, active[g] # None, activeId[g] \notin Ids
        PROVE  FALSE
    BY <2>2, <2>8, RunsForOne DEF IInv, ActiveOwned
  <2>9. ASSUME NEW g \in Handles, g # a, active[g] # None
        PROVE  /\ activeId'[g] \in Ids
               /\ active'[g] = saved'[g][activeId'[g]]
    BY <2>5, <2>6, <2>7, <2>8, <2>9, ZeroIsNoId DEF IInv, ActiveOwned
  <2>10. QED
    BY <2>4, <2>7, <2>9 DEF ActiveOwned
<1>4. ClosedEmpty'
  BY DEF IInv, CacheSave, SaveAs, ClosedEmpty
<1>5. ActiveHandleOpen'
  BY DEF IInv, CacheSave, ActiveHandleOpen
<1>6. NoIdForNull'
  BY DEF IInv, CacheSave, NoIdForNull
<1>7. CallbackOpen'
  BY DEF IInv, CacheSave, CallbackOpen
<1>8. QED BY <1>1, <1>2, <1>3, <1>4, <1>5, <1>6, <1>7 DEF IInv

(* cache_delete: the active pointer to the deleted result is reset.        *)
LEMMA CacheDeleteInv ==
  ASSUME IInv, NEW h \in Handles, NEW id \in Ids, CacheDelete(h, id)
  PROVE  IInv'
<1>1. TypeOK'
  BY DEF IInv, TypeOK, CacheDelete, Activate
<1>2. SavedOwned'
  BY DEF IInv, TypeOK, CacheDelete, SavedOwned
<1>3. ActiveOwned'
  <2> DEFINE x == saved[h][id]
  <2>1. x # None /\ saved' = [saved EXCEPT ![h][id] = None] /\ heap' = heap \ {x}
    BY DEF CacheDelete, SavedIds
  <2>2. \A g \in Handles, j \in Ids : ~(g = h /\ j = id) => saved'[g][j] = saved[g][j]
    BY <2>1
  <2>3. saved'[h][id] = None
    BY <2>1 DEF IInv, TypeOK
  <2>4. \A g \in Handles : active'[g] # None =>
          active'[g] = active[g] /\ activeId'[g] = activeId[g] /\ (g = h => active[h] # x)
    BY DEF IInv, TypeOK, CacheDelete, IsActive, Activate
  <2>5. \A g \in Handles : RunsFor(g)' = RunsFor(g)
    BY DEF CacheDelete, RunsFor
  <2> HIDE DEF x
  <2>6. x = saved[h][id]
    BY DEF x
  <2>7. QED
    BY <2>1, <2>4, <2>5, <2>6 DEF IInv, ActiveOwned
<1>4. ClosedEmpty'
  BY DEF IInv, TypeOK, CacheDelete, Activate, ClosedEmpty
<1>5. ActiveHandleOpen'
  BY DEF IInv, CacheDelete, Activate, ActiveHandleOpen
<1>6. NoIdForNull'
  BY DEF IInv, TypeOK, CacheDelete, Activate, NoIdForNull
<1>7. CallbackOpen'
  BY DEF IInv, CacheDelete, CallbackOpen
<1>8. QED BY <1>1, <1>2, <1>3, <1>4, <1>5, <1>6, <1>7 DEF IInv

(* cache_set_active: only an unsaved result is deleted.                    *)
LEMMA CacheSetActiveInv ==
  ASSUME IInv, NEW h \in Handles, NEW id \in Ids, CacheSetActive(h, id)
  PROVE  IInv'
<1>1. TypeOK'
  BY DEF IInv, TypeOK, CacheSetActive, Activate
<1>2. SavedOwned'
  <2>1. saved' = saved /\ heap' = heap \ OwnedByActive(h)
    BY DEF CacheSetActive
  <2>2. QED
    BY <2>1, OwnedApart DEF IInv, SavedOwned
<1>3. ActiveOwned'
  <2>1. saved' = saved /\ heap' = heap \ OwnedByActive(h) /\ \A g \in Handles : RunsFor(g)' = RunsFor(g)
    BY DEF CacheSetActive, RunsFor
  <2>2. active'[h] = saved[h][id] /\ activeId'[h] = id
    BY DEF IInv, TypeOK, CacheSetActive, Activate
  <2>3. \A g \in Handles : g # h => active'[g] = active[g] /\ activeId'[g] = activeId[g]
    BY DEF CacheSetActive, Activate
  <2>4. QED
    BY <2>1, <2>2, <2>3, OwnedApart DEF IInv, ActiveOwned
<1>4. ClosedEmpty'
  BY DEF IInv, CacheSetActive, Activate, ClosedEmpty
<1>5. ActiveHandleOpen'
  BY DEF IInv, TypeOK, CacheSetActive, Activate, ActiveHandleOpen
<1>6. NoIdForNull'
  BY DEF IInv, TypeOK, CacheSetActive, Activate, SavedIds, NoIdForNull
<1>7. CallbackOpen'
  BY DEF IInv, CacheSetActive, CallbackOpen
<1>8. QED BY <1>1, <1>2, <1>3, <1>4, <1>5, <1>6, <1>7 DEF IInv

(* cache_set_active(0): only an unsaved result is deleted.                 *)
LEMMA CacheSetNoneInv ==
  ASSUME IInv, NEW h \in Handles, CacheSetNone(h)
  PROVE  IInv'
<1>1. TypeOK'
  BY DEF IInv, TypeOK, CacheSetNone, Activate
<1>2. SavedOwned'
  <2>1. saved' = saved /\ heap' = heap \ OwnedByActive(h)
    BY DEF CacheSetNone
  <2>2. QED
    BY <2>1, OwnedApart DEF IInv, SavedOwned
<1>3. ActiveOwned'
  <2>1. saved' = saved /\ heap' = heap \ OwnedByActive(h) /\ \A g \in Handles : RunsFor(g)' = RunsFor(g)
    BY DEF CacheSetNone, RunsFor
  <2>2. active'[h] = None
    BY DEF IInv, TypeOK, CacheSetNone, Activate
  <2>3. \A g \in Handles : g # h => active'[g] = active[g] /\ activeId'[g] = activeId[g]
    BY DEF CacheSetNone, Activate
  <2>4. QED
    BY <2>1, <2>2, <2>3, OwnedApart DEF IInv, ActiveOwned
<1>4. ClosedEmpty'
  BY DEF IInv, CacheSetNone, Activate, ClosedEmpty
<1>5. ActiveHandleOpen'
  BY DEF CacheSetNone, Activate, ActiveHandleOpen
<1>6. NoIdForNull'
  BY DEF IInv, TypeOK, CacheSetNone, Activate, NoIdForNull
<1>7. CallbackOpen'
  BY DEF IInv, CacheSetNone, CallbackOpen
<1>8. QED BY <1>1, <1>2, <1>3, <1>4, <1>5, <1>6, <1>7 DEF IInv

(* mysql_close deletes what the handle owns and nothing else.              *)
LEMMA CloseInv ==
  ASSUME IInv, NEW h \in Handles, Close(h)
  PROVE  IInv'
<1>1. TypeOK'
  BY DEF IInv, TypeOK, Close, WithoutHandle
<1>2. SavedOwned'
  <2>1. heap' = heap \ (SavedResults(h) \cup OwnedByActive(h))
    BY DEF Close
  <2>2. \A g \in Handles, i \in Ids : saved'[g][i] = IF g = h THEN None ELSE saved[g][i]
    BY DEF IInv, TypeOK, Close
  <2>3. \A g \in Handles, i \in Ids :
          g # h /\ saved[g][i] # None => saved[g][i] \notin SavedResults(h)
    BY DEF IInv, SavedOwned, SavedResults, SavedIds
  <2>4. QED
    BY <2>1, <2>2, <2>3, OwnedApart DEF IInv, SavedOwned
<1>3. ActiveOwned'
  <2>1. heap' = heap \ (SavedResults(h) \cup OwnedByActive(h))
    BY DEF Close
  <2>2. \A g \in Handles, i \in Ids : saved'[g][i] = IF g = h THEN None ELSE saved[g][i]
    BY DEF IInv, TypeOK, Close
  <2>3. \A g \in Handles : active'[g] = IF g = h THEN None ELSE active[g]
    BY DEF IInv, TypeOK, Close
  <2>4. \A g \in Handles : g # h => activeId'[g] = activeId[g]
    BY DEF Close
  <2>5. ASSUME NEW g \in Handles, g # h, RunsFor(g) PROVE RunsFor(g)'
    <3>1. callback = <<g, TRUE>> /\ callback[1] # h
      BY <2>5 DEF RunsFor
    <3>2. callback' = callback
      BY <3>1 DEF Close
    <3>3. QED BY <3>1, <3>2 DEF RunsFor
  <2>6. ASSUME NEW g \in Handles, g # h, active[g] # None, activeId[g] \notin Ids
        PROVE  active[g] \notin SavedResults(h)
    BY <2>6 DEF IInv, ActiveOwned, SavedResults, SavedIds
  <2>7. ASSUME NEW g \in Handles, g # h, active[g] # None
        PROVE  \/ activeId'[g] \in Ids /\ active'[g] = saved'[g][activeId'[g]]
               \/ /\ activeId'[g] = 0 /\ RunsFor(g)'
                  /\ active'[g] \in heap'
                  /\ \A f \in Handles, j \in Ids : saved'[f][j] # active'[g]
    <3>1. CASE activeId[g] \in Ids
      BY <2>2, <2>3, <2>4, <2>7, <3>1, ZeroIsNoId DEF IInv, ActiveOwned
    <3>2. CASE activeId[g] \notin Ids
      BY <2>1, <2>2, <2>3, <2>4, <2>5, <2>6, <2>7, <3>2, OwnedApart
         DEF IInv, ActiveOwned
    <3>3. QED BY <3>1, <3>2
  <2>8. QED
    BY <2>3, <2>7 DEF ActiveOwned
<1>4. ClosedEmpty'
  BY DEF IInv, TypeOK, Close, ClosedEmpty
<1>5. ActiveHandleOpen'
  BY DEF IInv, Close, WithoutHandle, ActiveHandleOpen
<1>6. NoIdForNull'
  BY DEF IInv, TypeOK, Close, NoIdForNull
<1>7. CallbackOpen'
  BY DEF IInv, Close, CallbackOpen
<1>8. QED BY <1>1, <1>2, <1>3, <1>4, <1>5, <1>6, <1>7 DEF IInv

---------------------------------------------------------------------------
(* The core starts with no handle and no result.                           *)
LEMMA InitInv ==
  ASSUME Init
  PROVE  IInv
BY DEF Init, IInv, TypeOK, SavedOwned, ActiveOwned, ClosedEmpty, ActiveHandleOpen,
       NoIdForNull, CallbackOpen

(* Every native and every callback boundary preserves the invariant.       *)
LEMMA NextInv ==
  ASSUME IInv, [Next]_vars
  PROVE  IInv'
<1>1. CASE EndCallback
  BY <1>1, EndCallbackInv
<1>2. CASE CacheSave
  BY <1>2, CacheSaveInv
<1>3. ASSUME NEW h \in Handles, Connect(h) \/ CacheSetNone(h) \/ Close(h)
      PROVE  IInv'
  BY <1>3, ConnectInv, CacheSetNoneInv, CloseInv
<1>4. ASSUME NEW h \in Handles, NEW r \in NewResults, BeginCallback(h, r) \/ QueryCached(h, r)
      PROVE  IInv'
  BY <1>4, BeginCallbackInv, QueryCachedInv
<1>5. ASSUME NEW h \in Handles, NEW id \in Ids, CacheDelete(h, id) \/ CacheSetActive(h, id)
      PROVE  IInv'
  BY <1>5, CacheDeleteInv, CacheSetActiveInv
<1>6. CASE UNCHANGED vars
  <2>1. (\A h \in Handles : RunsFor(h)' = RunsFor(h)) /\ CallbackOpen'
    BY <1>6 DEF vars, IInv, CallbackOpen, RunsFor
  <2>2. TypeOK' /\ SavedOwned' /\ ClosedEmpty' /\ ActiveHandleOpen' /\ NoIdForNull'
    BY <1>6
       DEF vars, IInv, TypeOK, SavedOwned, ClosedEmpty, ActiveHandleOpen,
           NoIdForNull
  <2>3. ActiveOwned'
    BY <1>6, <2>1 DEF vars, IInv, ActiveOwned
  <2>4. QED
    BY <2>1, <2>2, <2>3 DEF IInv
<1>7. QED
  BY <1>1, <1>2, <1>3, <1>4, <1>5, <1>6 DEF Next

(* The inductive invariant holds for any handles, results and ids.         *)
THEOREM Inductive == Spec => []IInv
<1>1. Init => IInv
  BY InitInv
<1>2. IInv /\ [Next]_vars => IInv'
  BY NextInv
<1>3. QED
  BY <1>1, <1>2, PTL DEF Spec

(* Pointers, ids and the static handle pointer have their types.           *)
THEOREM CacheTypes == Spec => []TypeOK
<1>1. IInv => TypeOK
  BY DEF IInv
<1>2. QED
  BY <1>1, Inductive, PTL

(* A cache_get_* native that finds ActiveHandle set reads a result that    *)
(* exists, of a handle that exists, whatever the script did before.        *)
THEOREM ReadsAreSafe == Spec => []CacheReadable
<1>1. ASSUME IInv
      PROVE  CacheReadable
  <2>1. ASSUME activeHandle # None
        PROVE  active[activeHandle] \in heap
    <3>1. activeHandle \in Handles /\ active[activeHandle] # None
      BY <1>1, <2>1 DEF IInv, TypeOK, ActiveHandleOpen
    <3>2. QED
      BY <1>1, <3>1 DEF IInv, ActiveOwned, SavedOwned
  <2>2. QED
    BY <1>1, <2>1 DEF IInv, ActiveHandleOpen, CacheReadable
<1>2. QED
  BY <1>1, Inductive, PTL

(* An active result without an id is the running callback's.               *)
THEOREM UnsavedBelongsToCallback == Spec => []UnsavedInCallbackOnly
<1>1. IInv => UnsavedInCallbackOnly
  BY ZeroIsNoId DEF IInv, ActiveOwned, UnsavedInCallbackOnly, RunsFor
<1>2. QED
  BY <1>1, Inductive, PTL

(* No two owners share a result: neither mysql_close nor cache_delete nor  *)
(* the end of a callback deletes an object a second time.                  *)
THEOREM ResultsHaveOneOwner == Spec => []SoleOwner
<1>1. ASSUME IInv
      PROVE  SoleOwner
  <2>1. ASSUME NEW h \in Handles, active[h] # None, activeId[h] # 0
        PROVE  active[h] = saved[h][activeId[h]]
    BY <1>1, <2>1 DEF IInv, ActiveOwned
  <2>2. ASSUME NEW h \in Handles, active[h] # None, activeId[h] = 0
        PROVE  /\ active[h] \in heap /\ RunsFor(h)
               /\ \A g \in Handles, j \in Ids : saved[g][j] # active[h]
    BY <1>1, <2>2, ZeroIsNoId DEF IInv, ActiveOwned
  <2>3. ASSUME NEW h \in Handles, active[h] # None, activeId[h] = 0,
               NEW g \in Handles
        PROVE  active[h] \notin SavedResults(g)
    BY <2>2, <2>3 DEF SavedResults, SavedIds
  <2>4. ASSUME NEW h \in Handles, active[h] # None, activeId[h] = 0,
               NEW g \in Handles, active[g] = active[h]
        PROVE  g = h
    <3>1. activeId[g] = 0
      BY <2>2, <2>4, <1>1 DEF IInv, ActiveOwned
    <3>2. RunsFor(g) /\ RunsFor(h)
      BY <2>2, <2>4, <3>1
    <3>3. QED
      BY <3>2, RunsForOne
  <2>5. QED
    BY <1>1, <2>1, <2>2, <2>3, <2>4 DEF IInv, SavedOwned, SoleOwner
<1>2. QED
  BY <1>1, Inductive, PTL

(* Only cache_delete and mysql_close take an entry out of the table, and a *)
(* result that is saved is entered under the id that is returned for it.   *)
THEOREM IdsAreStable == Spec => SavedIdsStable
<1>1. ASSUME IInv, [Next]_vars
      PROVE  \A h \in Handles, i \in Ids :
               saved[h][i] # None => saved'[h][i] \in {saved[h][i], None}
  <2>1. ASSUME NEW h \in Handles, NEW id \in FreshIds(h) \cap Ids, NEW r, SaveAs(h, id, r),
               NEW g \in Handles, NEW i \in Ids, saved[g][i] # None
        PROVE  saved'[g][i] = saved[g][i]
    <3>1. saved[h][id] = None
      BY FreshIsFree
    <3>2. QED
      BY <2>1, <3>1 DEF SaveAs
  <2>2. CASE CacheSave
    <3>1. activeHandle \in Handles
      BY <1>1, <2>2 DEF CacheSave, IInv, TypeOK
    <3>2. QED
      BY <2>1, <2>2, <3>1 DEF CacheSave
  <2>3. ASSUME NEW h \in Handles, NEW r, QueryCached(h, r)
        PROVE  \A g \in Handles, i \in Ids : saved[g][i] # None => saved'[g][i] = saved[g][i]
    <3>1. CASE r = None
      BY <2>3, <3>1 DEF QueryCached
    <3>2. CASE r # None
      BY <2>1, <2>3 DEF QueryCached
    <3>3. QED BY <3>1, <3>2
  <2>4. ASSUME NEW h \in Handles, NEW id \in Ids, CacheDelete(h, id)
        PROVE  \A g \in Handles, i \in Ids : saved'[g][i] \in {saved[g][i], None}
    BY <2>4 DEF CacheDelete
  <2>5. ASSUME NEW h \in Handles, Close(h)
        PROVE  \A g \in Handles, i \in Ids : saved'[g][i] \in {saved[g][i], None}
    BY <2>5 DEF Close
  <2>6. CASE UNCHANGED saved
    BY <2>6
  <2>7. \/ CacheSave \/ UNCHANGED saved
        \/ \E h \in Handles : \/ Close(h)
                              \/ \E r \in NewResults : QueryCached(h, r)
                              \/ \E id \in Ids : CacheDelete(h, id)
    BY <1>1
       DEF Next, vars, EndCallback, Connect, CacheSetNone, BeginCallback,
           CacheSetActive
  <2>8. QED
    BY <2>2, <2>3, <2>4, <2>5, <2>7
<1>2. ASSUME IInv', NEW h \in Handles, activeId'[h] # 0
      PROVE  saved'[h][activeId'[h]] = active'[h]
  BY <1>2 DEF IInv, NoIdForNull, ActiveOwned
<1>3. IInv /\ IInv' /\ [Next]_vars =>
        [\A h \in Handles :
           /\ \A i \in Ids : saved[h][i] # None => saved'[h][i] \in {saved[h][i], None}
           /\ activeId'[h] # 0 => saved'[h][activeId'[h]] = active'[h]]_vars
  BY <1>1, <1>2
<1>4. QED
  BY <1>3, Inductive, PTL DEF Spec, SavedIdsStable

(* The owned results, owner by owner.                                      *)
LEMMA WhereOwned ==
  \A r : r \in Owned <=> /\ r # None
                         /\ \/ \E h \in Handles : active[h] = r
                            \/ \E h \in Handles, i \in Ids : saved[h][i] = r
<1>1. \A h, r : r \in SavedResults(h) <=> r # None /\ \E i \in Ids : saved[h][i] = r
  BY DEF SavedResults, SavedIds
<1>2. \A r : r \in Owned <=> r # None /\ \E h \in Handles : r \in SavedResults(h) \/ r = active[h]
  BY DEF Owned
<1>3. QED
  BY <1>1, <1>2

LEMMA WhereOwnedNext ==
  \A r : r \in Owned' <=> /\ r # None
                          /\ \/ \E h \in Handles : active'[h] = r
                             \/ \E h \in Handles, i \in Ids : saved'[h][i] = r
<1>1. \A h, r : r \in SavedResults(h)' <=> r # None /\ \E i \in Ids : saved'[h][i] = r
  BY DEF SavedResults, SavedIds
<1>2. \A r : r \in Owned' <=> r # None /\ \E h \in Handles : r \in SavedResults(h)' \/ r = active'[h]
  BY DEF Owned
<1>3. QED
  BY <1>1, <1>2

(* An active pointer that is overwritten leaves nothing behind: its result *)
(* is in the table, or it is the callback's own.                           *)
LEMMA ActiveReplaced ==
  ASSUME IInv, NEW h \in Handles, NEW r \in Owned,
         \A g \in Handles \ {h} : active'[g] = active[g],
         \A g \in Handles, i \in Ids : saved[g][i] # None => saved'[g][i] = saved[g][i]
  PROVE  r \in Owned' \/ (RunsFor(h) /\ r \in OwnedByActive(h))
<1>1. CASE \E g \in Handles, i \in Ids : saved[g][i] = r
  BY <1>1, WhereOwned, WhereOwnedNext
<1>2. CASE \E g \in Handles \ {h} : active[g] = r
  BY <1>2, WhereOwned, WhereOwnedNext
<1>3. CASE active[h] = r /\ \A g \in Handles, i \in Ids : saved[g][i] # r
  <2>1. r # None
    BY WhereOwned
  <2>2. activeId[h] = 0 /\ RunsFor(h)
    BY <1>3, <2>1 DEF IInv, ActiveOwned
  <2>3. QED
    BY <1>3, <2>1, <2>2 DEF OwnedByActive
<1>4. QED
  BY <1>1, <1>2, <1>3, WhereOwned

(* A result is deleted by the step that takes it from its last owner,      *)
(* whichever native or callback boundary it is, but for the result of a    *)
(* callback that mysql_query covers with its own.                          *)
THEOREM NothingIsLeaked == Spec => NothingLeaked
<1>1. ASSUME IInv, [Next]_vars, NEW r \in Owned
      PROVE  \/ r \in Owned' \/ r \notin heap'
             \/ callback # <<>> /\ \E n \in NewResults : QueryCached(callback[1], n)
  <2> USE <1>1
  <2>1. ASSUME NEW h \in Handles, Connect(h)
        PROVE  r \in Owned'
    BY <2>1, WhereOwned, WhereOwnedNext DEF Connect
  <2>2. ASSUME NEW h \in Handles, NEW n \in NewResults, BeginCallback(h, n)
        PROVE  r \in Owned'
    <3>1. ~RunsFor(h) /\ UNCHANGED saved /\ \A g \in Handles \ {h} : active'[g] = active[g]
      BY <2>2 DEF BeginCallback, Activate, RunsFor, IInv, TypeOK
    <3>2. QED
      BY <3>1, ActiveReplaced
  <2>3. CASE EndCallback
    <3>1. CASE callback[2] = FALSE
      BY <2>3, <3>1, WhereOwned, WhereOwnedNext DEF EndCallback, HandleSurvived
    <3>2. CASE callback[2] # FALSE
      <4>1. /\ callback[1] \in Handles /\ UNCHANGED saved
            /\ \A g \in Handles \ {callback[1]} : active'[g] = active[g]
            /\ heap' = heap \ OwnedByActive(callback[1])
        BY <2>3, <3>2 DEF EndCallback, HandleSurvived, Activate, IInv, TypeOK, CallbackOpen
      <4>2. QED
        BY <4>1, ActiveReplaced
    <3>3. QED
      BY <3>1, <3>2
  <2>4. ASSUME NEW h \in Handles, NEW n \in NewResults, QueryCached(h, n)
        PROVE  r \in Owned' \/ (callback # <<>> /\ QueryCached(callback[1], n))
    <3>1. \A g \in Handles \ {h} : active'[g] = active[g]
      BY <2>4 DEF QueryCached, Activate, IInv, TypeOK
    <3>2. \A g \in Handles, i \in Ids : saved[g][i] # None => saved'[g][i] = saved[g][i]
      <4>1. CASE n = None
        BY <2>4, <4>1 DEF QueryCached
      <4>2. CASE n # None
        BY <2>4, <4>2, FreshIsFree DEF QueryCached, SaveAs, IInv, TypeOK
      <4>3. QED
        BY <4>1, <4>2
    <3>3. r \in Owned' \/ RunsFor(h)
      BY <3>1, <3>2, ActiveReplaced
    <3>4. RunsFor(h) => callback # <<>> /\ callback[1] = h
      BY DEF RunsFor
    <3>5. QED
      BY <2>4, <3>3, <3>4
  <2>5. CASE CacheSave
    <3>1. /\ activeHandle \in Handles /\ UNCHANGED active
          /\ \A g \in Handles, i \in Ids : saved[g][i] # None => saved'[g][i] = saved[g][i]
      BY <2>5, FreshIsFree DEF CacheSave, SaveAs, IInv, TypeOK
    <3>2. QED
      BY <3>1, WhereOwned, WhereOwnedNext
  <2>6. ASSUME NEW h \in Handles, NEW id \in Ids, CacheDelete(h, id)
        PROVE  r \in Owned' \/ r \notin heap'
    <3>1. /\ heap' = heap \ {saved[h][id]}
          /\ \A g \in Handles, i \in Ids : ~(g = h /\ i = id) => saved'[g][i] = saved[g][i]
          /\ \A g \in Handles : active'[g] = active[g] \/ active[g] = saved[h][id]
      BY <2>6 DEF CacheDelete, IsActive, Activate, IInv, TypeOK
    <3>2. CASE r = saved[h][id]
      BY <3>1, <3>2
    <3>3. CASE r # saved[h][id]
      BY <3>1, <3>3, WhereOwned, WhereOwnedNext
    <3>4. QED
      BY <3>2, <3>3
  <2>7. ASSUME NEW h \in Handles, CacheSetNone(h) \/ \E id \in Ids : CacheSetActive(h, id)
        PROVE  r \in Owned' \/ r \notin heap'
    <3>1. /\ UNCHANGED saved /\ \A g \in Handles \ {h} : active'[g] = active[g]
          /\ heap' = heap \ OwnedByActive(h)
      BY <2>7 DEF CacheSetNone, CacheSetActive, Activate, IInv, TypeOK
    <3>2. QED
      BY <3>1, ActiveReplaced
  <2>8. ASSUME NEW h \in Handles, Close(h)
        PROVE  r \in Owned' \/ r \notin heap'
    <3>1. /\ heap' = heap \ (SavedResults(h) \cup OwnedByActive(h))
          /\ \A g \in Handles \ {h} : active'[g] = active[g]
          /\ \A g \in Handles \ {h}, i \in Ids : saved'[g][i] = saved[g][i]
      BY <2>8 DEF Close, IInv, TypeOK
    <3>2. r # None
      BY WhereOwned
    <3>3. CASE \E i \in Ids : saved[h][i] = r
      BY <3>1, <3>2, <3>3 DEF SavedResults, SavedIds
    <3>4. CASE active[h] = r /\ \A i \in Ids : saved[h][i] # r
      <4>1. activeId[h] = 0
        BY <3>2, <3>4 DEF IInv, ActiveOwned
      <4>2. r \in OwnedByActive(h)
        BY <3>2, <3>4, <4>1 DEF OwnedByActive
      <4>3. QED
        BY <3>1, <4>2
    <3>5. CASE \E g \in Handles \ {h} : active[g] = r \/ \E i \in Ids : saved[g][i] = r
      BY <3>1, <3>2, <3>5, WhereOwnedNext
    <3>6. QED
      BY <3>3, <3>4, <3>5, WhereOwned
  <2>9. CASE UNCHANGED vars
    BY <2>9, WhereOwned, WhereOwnedNext DEF vars
  <2>10. QED
    BY <2>1, <2>2, <2>3, <2>4, <2>5, <2>6, <2>7, <2>8, <2>9 DEF Next
<1>2. IInv /\ [Next]_vars =>
        [\A r \in Owned :
           \/ r \in Owned' \/ r \notin heap'
           \/ callback # <<>> /\ \E n \in NewResults : QueryCached(callback[1], n)]_vars
  BY <1>1
<1>3. QED
  BY <1>2, Inductive, PTL DEF Spec, NothingLeaked
=============================================================================
