------------------------ MODULE QueryPipelineProofs ------------------------
(***************************************************************************)
(* Proofs about the query pipeline, for every number of handles, scripts,  *)
(* pool connections and queries and every capacity of the queues.          *)
(*                                                                         *)
(* NoDanglingHandle speaks of the moments a pointer is used.  To be        *)
(* inductive it must speak of every query that may ever be used: each      *)
(* query in a lane's queue or in a worker's hand belongs to the lane's own *)
(* handle, as it is now; a freed handle has idle lanes; and only the       *)
(* callback queue may hold queries of a freed handle, between its          *)
(* destruction and ClearByHandle, while the main thread cannot dispatch.   *)
(*                                                                         *)
(* IInv is that invariant.  OInv adds to it where the query objects are    *)
(* and how old they are; order, ownership, the counter and the refinement  *)
(* of QueryLifecycle follow from OInv, in the second half of the module.   *)
(***************************************************************************)
EXTENDS QueryPipelineProperties, FiniteSetTheorems, TLAPS

QueuesOwned ==
  \A w \in Workers : \A i \in 1 .. Len(queue[w]) :
    queue[w][i].handle = w[1] /\ queue[w][i].life = life[w[1]]

HandsOwned ==
  \A w \in Workers : wpc[w] \in {"exec", "post"} =>
    /\ hand[w] \in Query
    /\ hand[w].handle = w[1] /\ hand[w].life = life[w[1]]

FreeIdle ==
  \A w \in Workers : state[w[1]] = "free" => wpc[w] = "exited" /\ queue[w] = <<>>

CallbacksLive ==
  \A i \in 1 .. Len(callbacks) :
    /\ life[callbacks[i].handle] = callbacks[i].life
    /\ \/ state[callbacks[i].handle] # "free"
       \/ unloading
       \/ mpc = "clear" /\ callbacks[i].handle = closing

TmpLive ==
  /\ \A i \in 1 .. Len(tmp) : Refers(tmp[i]) /\ tmp[i].handle # closing
  /\ mpc \notin {"clear", "restore"} => tmp = <<>>

RequestOpen ==
  mpc \in {"push", "count"} => req \in Request /\ state[req.handle] = "open"

(* Only one handle is being destroyed; the lanes below `lane' are done.    *)
DestroyState ==
  /\ \A h \in Handles : state[h] = "closing" => mpc \in {"stop", "join"} /\ h = closing
  /\ mpc \in {"stop", "join"} =>
       /\ closing \in Handles /\ state[closing] = "closing"
       /\ \A w \in Workers : w[1] = closing /\ w[2] < lane =>
            wpc[w] = "exited" /\ queue[w] = <<>>
  /\ mpc \in {"clear", "restore"} => closing \in Handles /\ state[closing] = "free"

UnloadState ==
  /\ unloading => mpc \in {"unload", "stop", "join", "down"}
  /\ mpc = "down" => \A h \in Handles : state[h] = "free"

IInv ==
  /\ TypeOK
  /\ QueuesOwned
  /\ HandsOwned
  /\ FreeIdle
  /\ CallbacksLive
  /\ TmpLive
  /\ RequestOpen
  /\ DestroyState
  /\ UnloadState

(* Popping the front of a queue: the rest keeps its elements in order.     *)
LEMMA FirstAndRest ==
  ASSUME NEW S, NEW q \in Seq(S), q # <<>>
  PROVE  /\ Tail(q) \in Seq(S) /\ Len(Tail(q)) = Len(q) - 1
         /\ \A i \in 1 .. Len(Tail(q)) : Tail(q)[i] = q[i + 1] /\ i + 1 \in 1 .. Len(q)
         /\ Head(q) = q[1] /\ Head(q) \in S /\ 1 \in 1 .. Len(q)
OBVIOUS

(* Pushing at the end of a queue: one new element, the others unmoved.     *)
LEMMA Appended ==
  ASSUME NEW S, NEW q \in Seq(S), NEW e \in S
  PROVE  /\ Append(q, e) \in Seq(S) /\ Len(Append(q, e)) = Len(q) + 1
         /\ \A i \in 1 .. Len(Append(q, e)) :
              Append(q, e)[i] = e \/ (i \in 1 .. Len(q) /\ Append(q, e)[i] = q[i])
OBVIOUS

(* The empty sequence is a queue of every element type.                    *)
LEMMA EmptyQueue ==
  ASSUME NEW S
  PROVE  <<>> \in Seq(S) /\ Len(<<>>) = 0
OBVIOUS

(* A worker is named by its handle and its lane.                           *)
LEMMA WorkerIsPair ==
  /\ \A w \in Workers : w[1] \in Handles /\ w[2] \in Lanes /\ w = <<w[1], w[2]>>
  /\ \A h \in Handles, l \in Lanes : <<h, l>> \in Workers /\ <<h, l>>[1] = h /\ <<h, l>>[2] = l
BY DEF Workers

(* The types of the fields of a query.                                     *)
LEMMA QueryFields ==
  \A q \in Query : /\ q.handle \in Handles /\ q.life \in Nat /\ q.lane \in Lanes
                   /\ q.owner \in Scripts /\ q.token \in Nat /\ q.name \in Names
BY DEF Query

(* The types of the fields of a native call in progress.                   *)
LEMMA RequestFields ==
  \A r \in Request : /\ r.handle \in Handles /\ r.pool \in BOOLEAN
                     /\ r.owner \in Scripts /\ r.token \in Nat /\ r.name \in Names
                     /\ r.left \in Nat \ {0}
BY DEF Request

(* SetPreparedQueryError and its like keep the query on its handle object. *)
LEMMA RenamedQuery ==
  ASSUME NEW q \in Query, NEW n \in Names
  PROVE  /\ WithName(q, n) \in Query
         /\ WithName(q, n).handle = q.handle /\ WithName(q, n).life = q.life
BY DEF Query, WithName

(* A batch that goes on stays on its handle.                               *)
LEMMA ShorterRequest ==
  ASSUME NEW r \in Request, r.left # 1
  PROVE  OneQueued(r) \in Request /\ OneQueued(r).handle = r.handle
BY DEF Request, OneQueued

(* m_QueryCounter wraps within its width in both directions.               *)
LEMMA CounterStep ==
  ASSUME NEW c \in 0 .. CounterMod - 1
  PROVE  Increment(c) \in 0 .. CounterMod - 1 /\ Decrement(c) \in 0 .. CounterMod - 1
BY ConstantsAssumption DEF Increment, Decrement

(* A lane that is not the last of the pool has a next lane.                *)
LEMMA PoolLanes ==
  /\ 0 \in Lanes /\ FirstPoolLane \in Lanes
  /\ \A l \in Lanes : l # PoolSize => l < PoolSize /\ l + 1 \in Lanes
  /\ \A l \in Lanes : l < PoolSize => l + 1 \in Lanes
BY ConstantsAssumption DEF Lanes, FirstPoolLane

(* One lemma per action: AmxLoad preserves the invariant.                  *)
LEMMA AmxLoadInv ==
  ASSUME IInv, NEW s \in Scripts, AmxLoad(s)
  PROVE  IInv'
<1>1. TypeOK'
  BY DEF IInv, TypeOK, AmxLoad, handleVars, workerVars, closeVars, mainVars
<1>2. /\ QueuesOwned' /\ HandsOwned' /\ FreeIdle' /\ CallbacksLive'
      /\ TmpLive' /\ RequestOpen' /\ DestroyState' /\ UnloadState'
  BY DEF IInv, AmxLoad, handleVars, workerVars, closeVars, mainVars, QueuesOwned,
         HandsOwned, FreeIdle, CallbacksLive, TmpLive, RequestOpen, DestroyState,
         UnloadState, Refers
<1>3. QED BY <1>1, <1>2 DEF IInv

(* AmxUnload preserves the invariant.                                      *)
LEMMA AmxUnloadInv ==
  ASSUME IInv, NEW s \in Scripts, AmxUnload(s)
  PROVE  IInv'
<1>1. TypeOK'
  BY DEF IInv, TypeOK, AmxUnload, handleVars, workerVars, closeVars, mainVars
<1>2. /\ QueuesOwned' /\ HandsOwned' /\ FreeIdle' /\ CallbacksLive'
      /\ TmpLive' /\ RequestOpen' /\ DestroyState' /\ UnloadState'
  BY DEF IInv, AmxUnload, handleVars, workerVars, closeVars, mainVars,
         QueuesOwned, HandsOwned, FreeIdle, CallbacksLive, TmpLive, RequestOpen,
         DestroyState, UnloadState, Refers
<1>3. QED BY <1>1, <1>2 DEF IInv

(* mysql_connect preserves it: the queues of a free address are empty.     *)
LEMMA ConnectInv ==
  ASSUME IInv, NEW h \in Handles, Connect(h)
  PROVE  IInv'
<1>1. TypeOK'
  <2>1. /\ state' \in [Handles -> {"free", "open", "closing"}]
        /\ life' \in [Handles -> Nat]
    BY DEF IInv, TypeOK, Connect
  <2>2. counter' \in [Handles -> 0 .. CounterMod - 1]
    BY ConstantsAssumption DEF IInv, TypeOK, Connect
  <2>3. poolPos' \in [Handles -> Lanes]
    BY PoolLanes DEF IInv, TypeOK, Connect
  <2>4. running' \in [Workers -> BOOLEAN]
    BY DEF IInv, TypeOK, Connect
  <2>5. wpc' \in [Workers -> {"top", "exec", "post", "exited"}]
    BY DEF IInv, TypeOK, Connect
  <2>6. QED
    BY <2>1, <2>2, <2>3 DEF IInv, TypeOK, Connect, scriptVars, closeVars, mainVars
<1>2. QueuesOwned'
  BY DEF IInv, Connect, QueuesOwned, FreeIdle
<1>3. HandsOwned'
  BY DEF IInv, Connect, HandsOwned
<1>4. FreeIdle'
  BY DEF IInv, TypeOK, Connect, FreeIdle
<1>5. CallbacksLive'
  BY DEF IInv, Connect, CallbacksLive, UnloadState, PawnRuns
<1>6. TmpLive'
  BY DEF IInv, Connect, closeVars, TmpLive, PawnRuns
<1>7. RequestOpen'
  BY DEF Connect, mainVars, RequestOpen, PawnRuns
<1>8. DestroyState'
  BY DEF IInv, Connect, mainVars, DestroyState, PawnRuns
<1>9. UnloadState'
  BY DEF IInv, Connect, closeVars, mainVars, UnloadState, PawnRuns
<1>10. QED BY <1>1, <1>2, <1>3, <1>4, <1>5, <1>6, <1>7, <1>8, <1>9 DEF IInv

(* Entering a query native preserves it: the handle is open.               *)
LEMMA SubmitInv ==
  ASSUME IInv, NEW h \in Handles, NEW s \in Scripts, NEW pool \in BOOLEAN, 
         NEW name \in {"none", "user"}, NEW n \in 1 .. MaxBatch,
         Submit(h, s, pool, name, n)
  PROVE  IInv'
<1>1. TypeOK'
  <2>1. req' \in Request
    BY DEF IInv, TypeOK, Submit, Request, Names
  <2>2. QED
    BY <2>1
       DEF IInv, TypeOK, MainStates, Submit, handleVars, workerVars, scriptVars,
           closeVars
<1>2. CallbacksLive'
  BY DEF IInv, Submit, handleVars, CallbacksLive, UnloadState, PawnRuns
<1>3. TmpLive'
  BY DEF IInv, Submit, closeVars, TmpLive, PawnRuns
<1>4. RequestOpen'
  <2>1. req' \in Request /\ req'.handle = h
    BY DEF IInv, TypeOK, Submit, Request, Names
  <2>2. QED
    BY <2>1 DEF Submit, RequestOpen, handleVars
<1>5. DestroyState'
  BY DEF IInv, Submit, handleVars, DestroyState, PawnRuns
<1>6. UnloadState'
  BY DEF IInv, Submit, closeVars, UnloadState, PawnRuns
<1>7. QueuesOwned' /\ HandsOwned' /\ FreeIdle'
  BY DEF IInv, Submit, handleVars, workerVars, QueuesOwned, HandsOwned, FreeIdle
<1>8. QED BY <1>1, <1>2, <1>3, <1>4, <1>5, <1>6, <1>7 DEF IInv

(* The push preserves it: the query carries the life of an open handle.    *)
LEMMA PushQueryInv ==
  ASSUME IInv, PushQuery
  PROVE  IInv'
<1>1. TypeOK'
  <2>1. req \in Request
    BY DEF IInv, RequestOpen, PushQuery
  <2>2. RequestedLane \in Lanes
    BY <2>1, RequestFields, PoolLanes DEF IInv, TypeOK, RequestedLane
  <2>3. RequestedQuery \in Query
    BY <2>1, <2>2, RequestFields DEF IInv, TypeOK, RequestedQuery, Query, Names
  <2>4. poolPos' \in [Handles -> Lanes]
    BY PoolLanes DEF IInv, TypeOK, PushQuery, AdvancePool
  <2>5. queue' \in [Workers -> Seq(Query)]
    BY <2>3, Appended DEF IInv, TypeOK, PushQuery, Enqueued
  <2>6. QED
    BY <2>4, <2>5 DEF IInv, TypeOK, MainStates, PushQuery, scriptVars, closeVars
<1>2. QueuesOwned'
  <2> DEFINE v == <<req.handle, RequestedLane>>
  <2>1. req \in Request
    BY DEF IInv, RequestOpen, PushQuery
  <2>2. RequestedLane \in Lanes
    BY <2>1, RequestFields, PoolLanes DEF IInv, TypeOK, RequestedLane
  <2>3. v \in Workers /\ v[1] = req.handle
    BY <2>1, <2>2, RequestFields, WorkerIsPair
  <2>4. RequestedQuery.handle = req.handle /\ RequestedQuery.life = life[req.handle]
    BY DEF RequestedQuery
  <2>5. RequestedQuery \in Query
    BY <2>1, <2>2, RequestFields DEF IInv, TypeOK, RequestedQuery, Query, Names
  <2>6. queue' = [queue EXCEPT ![v] = Append(@, RequestedQuery)] /\ life' = life
    BY DEF PushQuery, Enqueued
  <2> HIDE DEF v
  <2>7. SUFFICES ASSUME NEW w \in Workers, NEW i \in 1 .. Len(queue'[w])
                 PROVE  queue'[w][i].handle = w[1] /\ queue'[w][i].life = life[w[1]]
    BY <2>6 DEF QueuesOwned
  <2>8. CASE w = v
    BY <2>3, <2>4, <2>6 DEF IInv, QueuesOwned
  <2>9. CASE w # v
    BY <2>6, <2>9 DEF IInv, QueuesOwned
  <2>10. QED BY <2>8, <2>9
<1>3. FreeIdle'
  BY DEF IInv, PushQuery, FreeIdle, RequestOpen
<1>4. CallbacksLive'
  BY DEF IInv, PushQuery, CallbacksLive, UnloadState
<1>5. TmpLive'
  BY DEF IInv, PushQuery, closeVars, TmpLive
<1>6. RequestOpen'
  BY DEF IInv, PushQuery, RequestOpen
<1>7. DestroyState'
  BY DEF IInv, PushQuery, DestroyState
<1>8. UnloadState'
  BY DEF IInv, PushQuery, closeVars, UnloadState
<1>9. HandsOwned'
  BY DEF IInv, PushQuery, HandsOwned
<1>10. QED BY <1>1, <1>2, <1>3, <1>4, <1>5, <1>6, <1>7, <1>8, <1>9 DEF IInv

(* A refused push preserves it.                                            *)
LEMMA RejectQueryInv ==
  ASSUME IInv, RejectQuery
  PROVE  IInv'
<1>1. TypeOK'
  <2>1. req \in Request
    BY DEF IInv, RequestOpen, RejectQuery
  <2>2. poolPos' \in [Handles -> Lanes]
    BY PoolLanes DEF IInv, TypeOK, RejectQuery, AdvancePool
  <2>3. QED
    BY <2>2
       DEF IInv, TypeOK, MainStates, RejectQuery, Return, workerVars, scriptVars,
           closeVars
<1>2. CallbacksLive'
  BY DEF IInv, RejectQuery, CallbacksLive, UnloadState
<1>3. TmpLive'
  BY DEF IInv, RejectQuery, closeVars, TmpLive
<1>4. RequestOpen'
  BY DEF RejectQuery, Return, RequestOpen
<1>5. DestroyState'
  BY DEF IInv, RejectQuery, Return, DestroyState
<1>6. UnloadState'
  BY DEF IInv, RejectQuery, Return, closeVars, UnloadState
<1>7. QueuesOwned' /\ HandsOwned' /\ FreeIdle'
  BY DEF IInv, RejectQuery, workerVars, QueuesOwned, HandsOwned, FreeIdle
<1>8. QED BY <1>1, <1>2, <1>3, <1>4, <1>5, <1>6, <1>7 DEF IInv

(* Counting an accepted query preserves it.                                *)
LEMMA CountQueryInv ==
  ASSUME IInv, CountQuery
  PROVE  IInv'
<1>1. TypeOK'
  BY ShorterRequest, CounterStep
     DEF IInv, TypeOK, MainStates, CountQuery, Return, workerVars, scriptVars,
         closeVars, RequestOpen
<1>2. CallbacksLive'
  BY DEF IInv, CountQuery, CallbacksLive, UnloadState
<1>3. TmpLive'
  BY DEF IInv, CountQuery, closeVars, TmpLive
<1>4. RequestOpen'
  BY ShorterRequest DEF IInv, CountQuery, Return, RequestOpen
<1>5. DestroyState'
  BY DEF IInv, CountQuery, Return, DestroyState
<1>6. UnloadState'
  BY DEF IInv, CountQuery, Return, closeVars, UnloadState
<1>7. QueuesOwned' /\ HandsOwned' /\ FreeIdle'
  BY DEF IInv, CountQuery, workerVars, QueuesOwned, HandsOwned, FreeIdle
<1>8. QED BY <1>1, <1>2, <1>3, <1>4, <1>5, <1>6, <1>7 DEF IInv

(* A worker that takes a query belongs to a handle that is not free.       *)
LEMMA WorkerPopInv ==
  ASSUME IInv, NEW w \in Workers, WorkerPop(w)
  PROVE  IInv'
<1>1. TypeOK'
  BY DEF IInv, TypeOK, WorkerPop, Dequeued, handleVars, scriptVars, closeVars,
         mainVars
<1>2. QueuesOwned'
  BY <1>1
     DEF IInv, TypeOK, WorkerPop, Dequeued, handleVars, scriptVars, closeVars,
         mainVars, QueuesOwned
<1>3. HandsOwned'
  <2>1. /\ hand' = [hand EXCEPT ![w] = Head(queue[w])] /\ life' = life
        /\ wpc' = [wpc EXCEPT ![w] = "exec"] /\ queue[w] # <<>>
    BY DEF WorkerPop, handleVars
  <2>2. Head(queue[w]) \in Query /\ Head(queue[w]) = queue[w][1] /\ 1 \in 1 .. Len(queue[w])
    BY <2>1, FirstAndRest DEF IInv, TypeOK
  <2>3. Head(queue[w]).handle = w[1] /\ Head(queue[w]).life = life[w[1]]
    BY <2>2 DEF IInv, QueuesOwned
  <2>4. hand'[w] = Head(queue[w])
        /\ \A v \in Workers \ {w} : hand'[v] = hand[v] /\ wpc'[v] = wpc[v]
    BY <2>1 DEF IInv, TypeOK
  <2>5. QED
    BY <2>1, <2>2, <2>3, <2>4 DEF IInv, HandsOwned
<1>4. FreeIdle'
  BY DEF IInv, WorkerPop, handleVars, FreeIdle
<1>5. DestroyState'
  BY DEF IInv, WorkerPop, handleVars, closeVars, mainVars, DestroyState
<1>6. CallbacksLive' /\ TmpLive' /\ RequestOpen' /\ UnloadState'
  BY DEF IInv, WorkerPop, handleVars, closeVars, mainVars, CallbacksLive, TmpLive,
         RequestOpen, UnloadState, Refers
<1>7. QED BY <1>1, <1>2, <1>3, <1>4, <1>5, <1>6 DEF IInv

(* Executing renames the callback but keeps the handle object.             *)
LEMMA WorkerExecuteInv ==
  ASSUME IInv, NEW w \in Workers, WorkerExecute(w)
  PROVE  IInv'
<1>1. TypeOK'
  <2>1. hand[w] \in Query
    BY DEF IInv, HandsOwned, WorkerExecute
  <2>2. PICK n \in {hand[w].name, "OnQueryError", "none"} :
          hand' = [hand EXCEPT ![w] = WithName(hand[w], n)]
    BY DEF WorkerExecute
  <2>3. n \in Names
    BY <2>1, QueryFields DEF Names
  <2>4. hand' \in [Workers -> Query \cup {None}]
    BY <2>1, <2>2, <2>3, RenamedQuery DEF IInv, TypeOK
  <2>5. counter' \in [Handles -> 0 .. CounterMod - 1]
    BY CounterStep DEF IInv, TypeOK, WorkerExecute
  <2>6. QED
    BY <2>4, <2>5 DEF IInv, TypeOK, WorkerExecute, scriptVars, closeVars, mainVars
<1>2. HandsOwned'
  <2>1. hand[w] \in Query /\ hand[w].handle = w[1] /\ hand[w].life = life[w[1]]
    BY DEF IInv, HandsOwned, WorkerExecute
  <2>2. PICK n \in {hand[w].name, "OnQueryError", "none"} :
          hand' = [hand EXCEPT ![w] = WithName(hand[w], n)]
    BY DEF WorkerExecute
  <2>3. n \in Names
    BY <2>1, QueryFields DEF Names
  <2>4. hand'[w] \in Query /\ hand'[w].handle = w[1] /\ hand'[w].life = life[w[1]]
    BY <2>1, <2>2, <2>3, RenamedQuery
  <2>5. \A v \in Workers \ {w} : hand'[v] = hand[v] /\ wpc'[v] = wpc[v]
    BY DEF WorkerExecute
  <2>6. QED
    BY <2>4 DEF IInv, HandsOwned, WorkerExecute
<1>3. FreeIdle'
  BY DEF IInv, WorkerExecute, FreeIdle
<1>4. DestroyState'
  BY DEF IInv, WorkerExecute, closeVars, mainVars, DestroyState
<1>5. /\ QueuesOwned' /\ CallbacksLive' /\ TmpLive' /\ RequestOpen'
      /\ UnloadState'
  BY DEF IInv, WorkerExecute, closeVars, mainVars, QueuesOwned, CallbacksLive,
         TmpLive, RequestOpen, UnloadState, Refers
<1>6. QED BY <1>1, <1>2, <1>3, <1>4, <1>5 DEF IInv

(* A worker posts a query of a handle that is not free.                    *)
LEMMA WorkerPostInv ==
  ASSUME IInv, NEW w \in Workers, WorkerPost(w)
  PROVE  IInv'
<1>1. TypeOK'
  BY DEF IInv, TypeOK, WorkerPost, Pushed, handleVars, scriptVars, closeVars,
         mainVars, HandsOwned
<1>2. HandsOwned'
  BY DEF IInv, TypeOK, WorkerPost, handleVars, HandsOwned
<1>3. FreeIdle'
  BY DEF IInv, WorkerPost, handleVars, FreeIdle
<1>4. CallbacksLive'
  BY DEF IInv, WorkerPost, Pushed, handleVars, closeVars, mainVars, CallbacksLive,
         HandsOwned, FreeIdle
<1>5. DestroyState'
  BY DEF IInv, WorkerPost, handleVars, closeVars, mainVars, DestroyState
<1>6. QueuesOwned' /\ TmpLive' /\ RequestOpen' /\ UnloadState'
  BY DEF IInv, WorkerPost, handleVars, closeVars, mainVars, QueuesOwned, TmpLive,
         RequestOpen, UnloadState, Refers
<1>7. QED BY <1>1, <1>2, <1>3, <1>4, <1>5, <1>6 DEF IInv

(* A worker leaves its loop with nothing in its hand.                      *)
LEMMA WorkerExitInv ==
  ASSUME IInv, NEW w \in Workers, WorkerExit(w)
  PROVE  IInv'
<1>1. TypeOK'
  BY DEF IInv, TypeOK, WorkerExit, handleVars, scriptVars, closeVars, mainVars
<1>2. HandsOwned'
  BY DEF IInv, WorkerExit, handleVars, HandsOwned
<1>3. FreeIdle'
  BY DEF IInv, WorkerExit, handleVars, FreeIdle
<1>4. DestroyState'
  BY DEF IInv, WorkerExit, handleVars, closeVars, mainVars, DestroyState
<1>5. /\ QueuesOwned' /\ CallbacksLive' /\ TmpLive' /\ RequestOpen'
      /\ UnloadState'
  BY DEF IInv, WorkerExit, handleVars, closeVars, mainVars, QueuesOwned,
         CallbacksLive, TmpLive, RequestOpen, UnloadState, Refers
<1>6. QED BY <1>1, <1>2, <1>3, <1>4, <1>5 DEF IInv

(* ProcessTick begins: the main thread has no native in progress.          *)
LEMMA StartTickInv ==
  ASSUME IInv, StartTick
  PROVE  IInv'
<1>1. TypeOK'
  BY DEF IInv, TypeOK, MainStates, StartTick, handleVars, workerVars, scriptVars,
         closeVars
<1>2. CallbacksLive'
  BY DEF IInv, StartTick, handleVars, CallbacksLive, UnloadState
<1>3. TmpLive'
  BY DEF IInv, StartTick, closeVars, TmpLive
<1>4. RequestOpen'
  BY DEF StartTick, RequestOpen
<1>5. DestroyState'
  BY DEF IInv, StartTick, handleVars, DestroyState
<1>6. UnloadState'
  BY DEF IInv, StartTick, closeVars, UnloadState
<1>7. QueuesOwned' /\ HandsOwned' /\ FreeIdle'
  BY DEF IInv, StartTick, handleVars, workerVars, QueuesOwned, HandsOwned,
         FreeIdle
<1>8. QED BY <1>1, <1>2, <1>3, <1>4, <1>5, <1>6, <1>7 DEF IInv

(* Deleting the first callback preserves the others.                       *)
LEMMA DropCallbackInv ==
  ASSUME IInv, DropCallback
  PROVE  IInv'
<1>1. TypeOK'
  BY DEF IInv, TypeOK, DropCallback, handleVars, workerVars, scriptVars,
         closeVars, mainVars
<1>2. CallbacksLive'
  BY DEF IInv, DropCallback, handleVars, CallbacksLive, UnloadState
<1>3. /\ QueuesOwned' /\ HandsOwned' /\ FreeIdle' /\ TmpLive' /\ RequestOpen'
      /\ DestroyState' /\ UnloadState'
  BY DEF IInv, DropCallback, handleVars, workerVars, closeVars, mainVars,
         QueuesOwned, HandsOwned, FreeIdle, TmpLive, RequestOpen, DestroyState,
         UnloadState
<1>4. QED BY <1>1, <1>2, <1>3 DEF IInv

(* Entering a callback preserves the rest of the queue.                    *)
LEMMA RunCallbackInv ==
  ASSUME IInv, RunCallback
  PROVE  IInv'
<1>1. TypeOK'
  BY DEF IInv, TypeOK, MainStates, RunCallback, RestOfCallbacks, handleVars,
         workerVars, scriptVars, closeVars
<1>2. CallbacksLive'
  BY DEF IInv, RunCallback, RestOfCallbacks, handleVars, CallbacksLive,
         UnloadState
<1>3. TmpLive'
  BY DEF IInv, RunCallback, closeVars, TmpLive
<1>4. RequestOpen'
  BY DEF RunCallback, RequestOpen
<1>5. DestroyState'
  BY DEF IInv, RunCallback, handleVars, DestroyState
<1>6. UnloadState'
  BY DEF IInv, RunCallback, closeVars, UnloadState
<1>7. QueuesOwned' /\ HandsOwned' /\ FreeIdle'
  BY DEF IInv, RunCallback, handleVars, workerVars, QueuesOwned, HandsOwned,
         FreeIdle
<1>8. QED BY <1>1, <1>2, <1>3, <1>4, <1>5, <1>6, <1>7 DEF IInv

(* Leaving a callback preserves the invariant.                             *)
LEMMA EndCallbackInv ==
  ASSUME IInv, EndCallback
  PROVE  IInv'
<1>1. TypeOK'
  BY DEF IInv, TypeOK, MainStates, EndCallback, handleVars, workerVars,
         scriptVars, closeVars
<1>2. CallbacksLive'
  BY DEF IInv, EndCallback, handleVars, CallbacksLive, UnloadState
<1>3. TmpLive'
  BY DEF IInv, EndCallback, closeVars, TmpLive
<1>4. RequestOpen'
  BY DEF EndCallback, RequestOpen
<1>5. DestroyState'
  BY DEF IInv, EndCallback, handleVars, DestroyState
<1>6. UnloadState'
  BY DEF IInv, EndCallback, closeVars, UnloadState
<1>7. QueuesOwned' /\ HandsOwned' /\ FreeIdle'
  BY DEF IInv, EndCallback, handleVars, workerVars, QueuesOwned, HandsOwned,
         FreeIdle
<1>8. QED BY <1>1, <1>2, <1>3, <1>4, <1>5, <1>6, <1>7 DEF IInv

(* Leaving ProcessTick preserves the invariant.                            *)
LEMMA EndTickInv ==
  ASSUME IInv, EndTick
  PROVE  IInv'
<1>1. TypeOK'
  BY DEF IInv, TypeOK, MainStates, EndTick, handleVars, workerVars, scriptVars,
         closeVars
<1>2. CallbacksLive'
  BY DEF EndTick, CallbacksLive
<1>3. TmpLive'
  BY DEF IInv, EndTick, closeVars, TmpLive
<1>4. RequestOpen'
  BY DEF EndTick, RequestOpen
<1>5. DestroyState'
  BY DEF IInv, EndTick, handleVars, DestroyState
<1>6. UnloadState'
  BY DEF IInv, EndTick, closeVars, UnloadState
<1>7. QueuesOwned' /\ HandsOwned' /\ FreeIdle'
  BY DEF IInv, EndTick, handleVars, workerVars, QueuesOwned, HandsOwned, FreeIdle
<1>8. QED BY <1>1, <1>2, <1>3, <1>4, <1>5, <1>6, <1>7 DEF IInv

(* mysql_close or Unload enters the destructor of an open handle.          *)
LEMMA BeginDestroyInv ==
  ASSUME IInv, NEW h \in Handles, PawnRuns \/ mpc = "unload", BeginDestroy(h)
  PROVE  IInv'
<1>1. TypeOK'
  BY PoolLanes DEF IInv, TypeOK, MainStates, BeginDestroy, workerVars, scriptVars
<1>2. FreeIdle'
  BY DEF IInv, BeginDestroy, workerVars, FreeIdle
<1>3. CallbacksLive'
  BY DEF IInv, BeginDestroy, CallbacksLive, PawnRuns
<1>4. TmpLive'
  BY DEF IInv, BeginDestroy, TmpLive, PawnRuns
<1>5. RequestOpen'
  BY DEF BeginDestroy, RequestOpen
<1>6. DestroyState'
  <2>1. \A g \in Handles : state[g] # "closing"
    BY DEF IInv, DestroyState, PawnRuns
  <2>2. lane' = 0 /\ \A w \in Workers : ~(w[2] < 0)
    BY WorkerIsPair DEF BeginDestroy, Lanes
  <2>3. QED
    BY <2>1, <2>2 DEF IInv, TypeOK, BeginDestroy, DestroyState
<1>7. UnloadState'
  BY DEF BeginDestroy, UnloadState
<1>8. QueuesOwned' /\ HandsOwned'
  BY DEF IInv, BeginDestroy, workerVars, QueuesOwned, HandsOwned
<1>9. QED BY <1>1, <1>2, <1>3, <1>4, <1>5, <1>6, <1>7, <1>8 DEF IInv

(* Clearing m_QueryThreadRunning preserves the invariant.                  *)
LEMMA StopWorkerInv ==
  ASSUME IInv, StopWorker
  PROVE  IInv'
<1>1. TypeOK'
  BY DEF IInv, TypeOK, MainStates, StopWorker, handleVars, scriptVars, closeVars
<1>2. CallbacksLive'
  BY DEF IInv, StopWorker, handleVars, closeVars, CallbacksLive
<1>3. TmpLive'
  BY DEF IInv, StopWorker, closeVars, TmpLive
<1>4. RequestOpen'
  BY DEF StopWorker, RequestOpen
<1>5. DestroyState'
  BY DEF IInv, StopWorker, handleVars, closeVars, DestroyState
<1>6. UnloadState'
  BY DEF StopWorker, UnloadState
<1>7. QueuesOwned' /\ HandsOwned' /\ FreeIdle'
  BY DEF IInv, StopWorker, handleVars, QueuesOwned, HandsOwned, FreeIdle
<1>8. QED BY <1>1, <1>2, <1>3, <1>4, <1>5, <1>6, <1>7 DEF IInv

(* join() and the drain: the lane is idle before the next one is stopped,  *)
(* and the memory is freed only after the last.                            *)
LEMMA JoinWorkerInv ==
  ASSUME IInv, JoinWorker
  PROVE  IInv'
<1>1. TypeOK'
  <2>1. closing \in Handles /\ <<closing, lane>> \in Workers
    BY WorkerIsPair DEF IInv, TypeOK, JoinWorker, DestroyState
  <2>2. queue' \in [Workers -> Seq(Query)]
    BY EmptyQueue DEF IInv, TypeOK, JoinWorker, Drained
  <2>3. lane' \in Lanes /\ state' \in [Handles -> {"free", "open", "closing"}]
    BY PoolLanes DEF IInv, TypeOK, JoinWorker
  <2>4. QED
    BY <2>2, <2>3
       DEF IInv, TypeOK, MainStates, JoinWorker, AfterDestroy, scriptVars
<1>2. QueuesOwned'
  BY DEF IInv, JoinWorker, Drained, QueuesOwned
<1>3. FreeIdle'
  <2>1. closing \in Handles /\ <<closing, lane>> \in Workers
    BY WorkerIsPair DEF IInv, TypeOK, JoinWorker, DestroyState
  <2>2. \A w \in Workers : w # <<closing, lane>> => queue'[w] = queue[w]
    BY DEF JoinWorker
  <2>3. queue'[<<closing, lane>>] = <<>> /\ wpc' = wpc /\ wpc[<<closing, lane>>] =
       "exited"
    BY <2>1 DEF IInv, TypeOK, JoinWorker, Joined, Drained
  <2>4. CASE lane < PoolSize
    BY <2>3, <2>4 DEF IInv, JoinWorker, FreeIdle
  <2>5. CASE ~(lane < PoolSize)
    <3>1. \A w \in Workers : w[1] = closing => w = <<closing, lane>> \/ w[2] < lane
      BY <2>5, WorkerIsPair, ConstantsAssumption DEF IInv, TypeOK, Lanes
    <3>2. \A w \in Workers : w[1] = closing => wpc'[w] = "exited" /\ queue'[w] =
         <<>>
      BY <2>3, <3>1 DEF IInv, JoinWorker, DestroyState
    <3>3. \A h \in Handles : h # closing => state'[h] = state[h]
      BY DEF IInv, TypeOK, JoinWorker
    <3>4. QED
      BY <2>2, <2>3, <3>2, <3>3, WorkerIsPair DEF IInv, FreeIdle
  <2>6. QED BY <2>4, <2>5
<1>4. CallbacksLive'
  BY QueryFields DEF IInv, TypeOK, JoinWorker, AfterDestroy, CallbacksLive
<1>5. TmpLive'
  BY DEF IInv, JoinWorker, TmpLive
<1>6. RequestOpen'
  BY DEF JoinWorker, AfterDestroy, RequestOpen
<1>7. DestroyState'
  <2>1. closing \in Handles /\ <<closing, lane>> \in Workers
    BY WorkerIsPair DEF IInv, TypeOK, JoinWorker, DestroyState
  <2>2. CASE lane < PoolSize
    <3>1. \A w \in Workers : w[1] = closing /\ w[2] < lane + 1 =>
            w = <<closing, lane>> \/ w[2] < lane
      BY WorkerIsPair DEF IInv, TypeOK, Lanes
    <3>2. \A w \in Workers : w[1] = closing /\ w[2] < lane + 1 =>
            wpc'[w] = "exited" /\ queue'[w] = <<>>
      BY <3>1 DEF IInv, TypeOK, JoinWorker, Joined, Drained, DestroyState
    <3>3. QED
      BY <2>2, <3>2 DEF IInv, JoinWorker, DestroyState
  <2>3. CASE ~(lane < PoolSize)
    <3>1. /\ state' = [state EXCEPT ![closing] = "free"]
          /\ mpc' = IF unloading THEN "unload" ELSE "clear"
          /\ closing' = IF unloading THEN None ELSE closing
          /\ mpc = "join"
      BY <2>3 DEF JoinWorker, AfterDestroy
    <3>2. state'[closing] = "free" /\ \A h \in Handles : state'[h] # "closing"
      BY <2>1, <3>1 DEF IInv, TypeOK, DestroyState
    <3>3. QED
      BY <2>1, <3>1, <3>2 DEF DestroyState
  <2>4. QED BY <2>2, <2>3
<1>8. UnloadState'
  BY DEF JoinWorker, AfterDestroy, UnloadState
<1>9. HandsOwned'
  BY DEF IInv, JoinWorker, HandsOwned
<1>10. QED BY <1>1, <1>2, <1>3, <1>4, <1>5, <1>6, <1>7, <1>8, <1>9 DEF IInv

(* ClearByHandle pops a query: kept in tmp_queue unless it is of the       *)
(* closed handle.                                                          *)
LEMMA ClearPopInv ==
  ASSUME IInv, ClearPop
  PROVE  IInv'
<1>1. TypeOK'
  BY DEF IInv, TypeOK, ClearPop, handleVars, workerVars, scriptVars, mainVars
<1>2. CallbacksLive'
  BY DEF IInv, ClearPop, handleVars, mainVars, CallbacksLive
<1>3. TmpLive'
  BY <1>1, WorkerIsPair, FirstAndRest, Appended
     DEF IInv, TypeOK, ClearPop, OfClosedHandle, handleVars, scriptVars, mainVars,
         TmpLive, CallbacksLive, DestroyState, UnloadState, Refers
<1>4. /\ QueuesOwned' /\ HandsOwned' /\ FreeIdle' /\ RequestOpen'
      /\ DestroyState' /\ UnloadState'
  BY DEF IInv, ClearPop, handleVars, workerVars, mainVars, QueuesOwned,
         HandsOwned, FreeIdle, RequestOpen, DestroyState, UnloadState
<1>5. QED BY <1>1, <1>2, <1>3, <1>4 DEF IInv

(* ClearByHandle saw the queue empty: no query of the closed handle is     *)
(* left.                                                                   *)
LEMMA ClearPoppedInv ==
  ASSUME IInv, ClearPopped
  PROVE  IInv'
<1>1. TypeOK'
  BY DEF IInv, TypeOK, MainStates, ClearPopped, handleVars, workerVars,
         scriptVars, closeVars
<1>2. CallbacksLive'
  BY DEF ClearPopped, CallbacksLive
<1>3. TmpLive'
  BY DEF IInv, ClearPopped, handleVars, closeVars, TmpLive, Refers
<1>4. RequestOpen'
  BY DEF ClearPopped, RequestOpen
<1>5. DestroyState'
  BY DEF IInv, ClearPopped, handleVars, closeVars, DestroyState
<1>6. UnloadState'
  BY DEF IInv, ClearPopped, closeVars, UnloadState
<1>7. QueuesOwned' /\ HandsOwned' /\ FreeIdle'
  BY DEF IInv, ClearPopped, handleVars, workerVars, QueuesOwned, HandsOwned,
         FreeIdle
<1>8. QED BY <1>1, <1>2, <1>3, <1>4, <1>5, <1>6, <1>7 DEF IInv

(* ClearByHandle pushes a query of another handle back.                    *)
LEMMA RestoreInv ==
  ASSUME IInv, Restore
  PROVE  IInv'
<1>1. TypeOK'
  BY DEF IInv, TypeOK, Restore, Pushed, FrontPopped, handleVars, workerVars,
         scriptVars, mainVars
<1>2. CallbacksLive'
  BY DEF IInv, Restore, Pushed, handleVars, CallbacksLive, TmpLive, Refers
<1>3. TmpLive'
  BY DEF IInv, Restore, FrontPopped, handleVars, mainVars, TmpLive, Refers
<1>4. /\ QueuesOwned' /\ HandsOwned' /\ FreeIdle' /\ RequestOpen'
      /\ DestroyState' /\ UnloadState'
  BY DEF IInv, Restore, handleVars, workerVars, mainVars, QueuesOwned, HandsOwned,
         FreeIdle, RequestOpen, DestroyState, UnloadState
<1>5. QED BY <1>1, <1>2, <1>3, <1>4 DEF IInv

(* mysql_close returns.                                                    *)
LEMMA ClosedInv ==
  ASSUME IInv, Closed
  PROVE  IInv'
<1>1. TypeOK'
  BY DEF IInv, TypeOK, MainStates, Closed, Return, handleVars, workerVars,
         scriptVars
<1>2. CallbacksLive'
  BY DEF IInv, Closed, handleVars, CallbacksLive
<1>3. TmpLive'
  BY DEF Closed, TmpLive
<1>4. RequestOpen'
  BY DEF Closed, Return, RequestOpen
<1>5. DestroyState'
  BY DEF IInv, Closed, Return, handleVars, DestroyState
<1>6. UnloadState'
  BY DEF IInv, Closed, Return, UnloadState
<1>7. QueuesOwned' /\ HandsOwned' /\ FreeIdle'
  BY DEF IInv, Closed, handleVars, workerVars, QueuesOwned, HandsOwned, FreeIdle
<1>8. QED BY <1>1, <1>2, <1>3, <1>4, <1>5, <1>6, <1>7 DEF IInv

(* Unload begins.                                                          *)
LEMMA PluginUnloadInv ==
  ASSUME IInv, PluginUnload
  PROVE  IInv'
<1>1. TypeOK'
  BY DEF IInv, TypeOK, MainStates, PluginUnload, handleVars, workerVars,
         scriptVars
<1>2. CallbacksLive'
  BY DEF IInv, PluginUnload, handleVars, CallbacksLive
<1>3. TmpLive'
  BY DEF IInv, PluginUnload, TmpLive
<1>4. RequestOpen'
  BY DEF PluginUnload, RequestOpen
<1>5. DestroyState'
  BY DEF IInv, PluginUnload, handleVars, DestroyState
<1>6. UnloadState'
  BY DEF PluginUnload, UnloadState
<1>7. QueuesOwned' /\ HandsOwned' /\ FreeIdle'
  BY DEF IInv, PluginUnload, handleVars, workerVars, QueuesOwned, HandsOwned,
         FreeIdle
<1>8. QED BY <1>1, <1>2, <1>3, <1>4, <1>5, <1>6, <1>7 DEF IInv

(* Unload ends: the callback queue is emptied.                             *)
LEMMA UnloadLastInv ==
  ASSUME IInv, UnloadLast
  PROVE  IInv'
<1>1. TypeOK'
  BY DEF IInv, TypeOK, MainStates, UnloadLast, handleVars, workerVars, scriptVars,
         closeVars
<1>2. CallbacksLive'
  BY DEF UnloadLast, CallbacksLive
<1>3. TmpLive'
  BY DEF IInv, UnloadLast, closeVars, TmpLive
<1>4. RequestOpen'
  BY DEF UnloadLast, RequestOpen
<1>5. DestroyState'
  BY DEF UnloadLast, handleVars, DestroyState
<1>6. UnloadState'
  BY DEF UnloadLast, handleVars, UnloadState
<1>7. QueuesOwned' /\ HandsOwned' /\ FreeIdle'
  BY DEF IInv, UnloadLast, handleVars, workerVars, QueuesOwned, HandsOwned,
         FreeIdle
<1>8. QED BY <1>1, <1>2, <1>3, <1>4, <1>5, <1>6, <1>7 DEF IInv

(* A step that changes nothing.                                            *)
LEMMA StutterInv ==
  ASSUME IInv, UNCHANGED vars
  PROVE  IInv'
<1>1. TypeOK'
  BY DEF IInv, TypeOK, vars, handleVars, workerVars, scriptVars, closeVars,
         mainVars
<1>2. /\ QueuesOwned' /\ HandsOwned' /\ FreeIdle' /\ CallbacksLive'
      /\ TmpLive' /\ RequestOpen' /\ DestroyState' /\ UnloadState'
  BY DEF IInv, vars, handleVars, workerVars, closeVars, mainVars, QueuesOwned,
         HandsOwned, FreeIdle, CallbacksLive, TmpLive, RequestOpen, DestroyState,
         UnloadState, Refers
<1>3. QED BY <1>1, <1>2 DEF IInv

---------------------------------------------------------------------------
(* The invariant holds when the plugin has been loaded.                    *)
LEMMA InitInv == Init => IInv
<1> SUFFICES ASSUME Init PROVE IInv
  OBVIOUS
<1>1. TypeOK
  <2>1. counter \in [Handles -> 0 .. CounterMod - 1]
    BY ConstantsAssumption DEF Init
  <2>2. queue \in [Workers -> Seq(Query)] /\ callbacks \in Seq(Query) /\ tmp \in Seq(Query)
    BY DEF Init
  <2>3. poolPos \in [Handles -> Lanes] /\ lane \in Lanes
    BY PoolLanes DEF Init
  <2>4. /\ state \in [Handles -> {"free", "open", "closing"}] /\ life \in [Handles -> Nat]
        /\ running \in [Workers -> BOOLEAN]
        /\ wpc \in [Workers -> {"top", "exec", "post", "exited"}]
        /\ hand \in [Workers -> Query \cup {None}]
        /\ loaded \in [Scripts -> BOOLEAN] /\ token \in [Scripts -> Nat]
    BY DEF Init
  <2>5. QED
    BY <2>1, <2>2, <2>3 DEF Init, TypeOK, MainStates
<1>2. QueuesOwned /\ HandsOwned /\ FreeIdle
  BY DEF Init, QueuesOwned, HandsOwned, FreeIdle
<1>3. CallbacksLive /\ TmpLive
  BY DEF Init, CallbacksLive, TmpLive
<1>4. RequestOpen /\ DestroyState /\ UnloadState
  BY DEF Init, RequestOpen, DestroyState, UnloadState
<1>5. QED
  BY <1>1, <1>2, <1>3, <1>4 DEF IInv

(* Every step of the plugin preserves it.                                  *)
LEMMA NextInv == IInv /\ [Next]_vars => IInv'
<1> SUFFICES ASSUME IInv, [Next]_vars PROVE IInv'
  OBVIOUS
<1>1. CASE Natives
  BY <1>1, AmxLoadInv, AmxUnloadInv, ConnectInv, BeginDestroyInv, SubmitInv
     DEF Natives, CloseHandle
<1>2. CASE Submitting
  BY <1>2, PushQueryInv, RejectQueryInv, CountQueryInv DEF Submitting
<1>3. CASE Tick
  BY <1>3, StartTickInv, DropCallbackInv, RunCallbackInv, EndCallbackInv,
     EndTickInv DEF Tick
<1>4. CASE Closing
  BY <1>4, StopWorkerInv, JoinWorkerInv, ClearPopInv, ClearPoppedInv, RestoreInv,
     ClosedInv DEF Closing
<1>5. CASE Unloading
  BY <1>5, PluginUnloadInv, UnloadLastInv, StutterInv, BeginDestroyInv
     DEF Unloading, Unloaded, UnloadNext
<1>6. CASE \E w \in Workers : Worker(w)
  BY <1>6, WorkerPopInv, WorkerExecuteInv, WorkerPostInv, WorkerExitInv DEF Worker
<1>7. CASE UNCHANGED vars
  BY <1>7, StutterInv
<1>8. QED
  BY <1>1, <1>2, <1>3, <1>4, <1>5, <1>6, <1>7 DEF Next

(* Hence it holds in every reachable state.                                *)
LEMMA Inductive == Spec => []IInv
BY InitInv, NextInv, PTL DEF Spec

(* Every variable keeps its type: in particular the counter stays within   *)
(* its width and the pool position within the pool.                        *)
THEOREM TypeCorrect == Spec => []TypeOK
<1>1. IInv => TypeOK
  BY DEF IInv
<1>2. QED
  BY <1>1, Inductive, PTL

(* No worker and no dispatch of ProcessCallbacks ever dereferences a       *)
(* handle that mysql_close or Unload has destroyed, or a later handle      *)
(* allocated at its address, however many threads and queries there are.   *)
THEOREM HandlesOutliveQueries == Spec => []NoDanglingHandle
<1>1. IInv => NoDanglingHandle
  <2> SUFFICES ASSUME IInv PROVE NoDanglingHandle
    OBVIOUS
  <2>1. \A w \in Workers : wpc[w] \in {"exec", "post"} => Refers(hand[w])
    BY DEF IInv, HandsOwned, FreeIdle, Refers
  <2>2. mpc \in {"idle", "cb", "tick", "push", "count"} =>
          \A i \in 1 .. Len(callbacks) : Refers(callbacks[i])
    BY DEF IInv, CallbacksLive, UnloadState, Refers
  <2>3. QED
    BY <2>1, <2>2 DEF NoDanglingHandle
<1>2. QED
  BY <1>1, Inductive, PTL

(* When a connection's memory is freed its worker has returned and its     *)
(* queue is drained; when the plugin is unloaded no worker is left.        *)
THEOREM FreedLanesAreIdle == Spec => []NoOrphanWorker
<1>1. IInv => NoOrphanWorker
  BY WorkerIsPair DEF IInv, FreeIdle, UnloadState, NoOrphanWorker
<1>2. QED
  BY <1>1, Inductive, PTL

(* A callback is entered only in the registration of the script that       *)
(* submitted the query and only while the query's handle is open.          *)
THEOREM CallbacksHaveOwners == Spec => CallbackValid
<1>1. ASSUME IInv, [Next]_vars, mpc = "tick", mpc' = "cb"
      PROVE  Registered(cur') /\ state[cur'.handle] = "open" /\ life[cur'.handle] = cur'.life
  <2>1. RunCallback
    BY <1>1
       DEF Next, Natives, AmxLoad, AmxUnload, Connect, CloseHandle, Submit,
           Submitting, PushQuery, RejectQuery, CountQuery, Tick, StartTick,
           DropCallback, EndCallback, EndTick, Closing, StopWorker, JoinWorker,
           ClearPop, ClearPopped, Restore, Closed, Unloading, PluginUnload,
           UnloadLast, Unloaded, UnloadNext, Worker, WorkerPop, WorkerExecute,
           WorkerPost, WorkerExit, PawnRuns, vars, mainVars
  <2>2. callbacks \in Seq(Query) /\ callbacks # <<>> /\ cur' = Head(callbacks)
    BY <1>1, <2>1 DEF IInv, TypeOK, RunCallback
  <2>3. cur' = callbacks[1] /\ cur' \in Query /\ 1 \in 1 .. Len(callbacks)
    BY <2>2
  <2>4. life[cur'.handle] = cur'.life /\ state[cur'.handle] # "free"
    BY <1>1, <2>3 DEF IInv, CallbacksLive, UnloadState
  <2>5. state[cur'.handle] = "open"
    BY <1>1, <2>3, <2>4, QueryFields DEF IInv, TypeOK, DestroyState
  <2>6. Registered(cur')
    BY <2>1, <2>2 DEF RunCallback, Runs, Expired, Registered
  <2>7. QED
    BY <2>4, <2>5, <2>6
<1>2. IInv /\ [Next]_vars =>
        [mpc = "tick" /\ mpc' = "cb" =>
           /\ Registered(cur')
           /\ state[cur'.handle] = "open" /\ life[cur'.handle] = cur'.life]_vars
  BY <1>1
<1>3. QED
  BY <1>2, Inductive, PTL DEF Spec, CallbackValid

---------------------------------------------------------------------------
(***************************************************************************)
(* Order, ownership and counting.  Two facts carry them: a lane's queries   *)
(* move from its queue to its worker's hand and then among the executed     *)
(* ones, and each of these is older than what is behind it; and an id says  *)
(* which lane its query belongs to.                                         *)
(***************************************************************************)

(* A worker holds a query exactly while it executes or posts it.           *)
HandsMatch == \A w \in Workers : wpc[w] \in {"top", "exited"} => hand[w] = None

LanesOwned ==
  \A w \in Workers :
    /\ \A i \in 1 .. Len(queue[w]) : queue[w][i].lane = w[2]
    /\ wpc[w] \in {"exec", "post"} => hand[w].lane = w[2]

QueuesFit == \A w \in Workers : Len(queue[w]) =< QueueCap

(* A callback is running only inside ProcessTick, so never in Unload.      *)
CurPlace == cur # None => mpc \notin {"idle", "tick", "unload", "down"} /\ ~unloading

RequestFits ==
  /\ submitted =< MaxQueries
  /\ mpc = "push" => submitted + req.left =< MaxQueries
  /\ mpc = "count" => submitted + req.left - 1 =< MaxQueries

(* An address whose object was opened, or is being cleared, has had one.   *)
LivesCounted ==
  /\ \A h \in Handles : state[h] # "free" => life[h] # 0
  /\ mpc \in {"clear", "restore"} => life[closing] # 0

IdsKnown ==
  /\ \A q \in Held : q.id =< submitted
  /\ \A q, r \in Held : q.id = r.id => SameLane(q, r)

OfLane(r, w) == r.handle = w[1] /\ r.life = life[w[1]] /\ r.lane = w[2]

LaneSorted ==
  \A w \in Workers :
    /\ \A i, j \in 1 .. Len(queue[w]) : j < i => queue[w][j].id < queue[w][i].id
    /\ wpc[w] \in {"exec", "post"} =>
         \A i \in 1 .. Len(queue[w]) : hand[w].id < queue[w][i].id

ExecutedOlder ==
  \A w \in Workers : \A r \in Executed : OfLane(r, w) =>
    /\ \A i \in 1 .. Len(queue[w]) : r.id < queue[w][i].id
    /\ wpc[w] \in {"exec", "post"} => r.id < hand[w].id

ExecutedDistinct ==
  /\ \A i, j \in 1 .. Len(callbacks) : callbacks[i].id = callbacks[j].id => i = j
  /\ \A i, j \in 1 .. Len(tmp) : tmp[i].id = tmp[j].id => i = j
  /\ \A i \in 1 .. Len(callbacks), j \in 1 .. Len(tmp) : callbacks[i].id # tmp[j].id
  /\ cur # None =>
       /\ \A i \in 1 .. Len(callbacks) : callbacks[i].id # cur.id
       /\ \A i \in 1 .. Len(tmp) : tmp[i].id # cur.id

(* Where the query objects are, place by place.                            *)
LEMMA WhereExecuted ==
  \A q : q \in Executed <=> \/ \E i \in 1 .. Len(callbacks) : q = callbacks[i]
                            \/ \E i \in 1 .. Len(tmp) : q = tmp[i]
                            \/ cur # None /\ q = cur
BY DEF Executed, Elements

(* Where the query objects will be.                                        *)
LEMMA WhereExecutedNext ==
  \A q : q \in Executed' <=> \/ \E i \in 1 .. Len(callbacks') : q = callbacks'[i]
                             \/ \E i \in 1 .. Len(tmp') : q = tmp'[i]
                             \/ cur' # None /\ q = cur'
BY DEF Executed, Elements

LEMMA WhereHeld ==
  \A q : q \in Held <=> \/ \E w \in Workers : \E i \in 1 .. Len(queue[w]) : q = queue[w][i]
                        \/ \E w \in Workers : wpc[w] \in {"exec", "post"} /\ q = hand[w]
                        \/ q \in Executed
BY DEF Held, Waiting, InHand, Elements

LEMMA WhereHeldNext ==
  \A q : q \in Held' <=> \/ \E w \in Workers : \E i \in 1 .. Len(queue'[w]) : q = queue'[w][i]
                         \/ \E w \in Workers : wpc'[w] \in {"exec", "post"} /\ q = hand'[w]
                         \/ q \in Executed'
BY DEF Held, Waiting, InHand, Elements

(* Every held query is a query.                                            *)
LEMMA HeldQueries ==
  ASSUME IInv
  PROVE  Held \subseteq Query /\ Executed \subseteq Held
<1>1. Executed \subseteq Query
  <2>1. /\ \A i \in 1 .. Len(callbacks) : callbacks[i] \in Query
        /\ \A i \in 1 .. Len(tmp) : tmp[i] \in Query
        /\ cur # None => cur \in Query
    BY DEF IInv, TypeOK
  <2>2. QED
    BY <2>1, WhereExecuted
<1>2. \A w \in Workers : \A i \in 1 .. Len(queue[w]) : queue[w][i] \in Query
  BY DEF IInv, TypeOK
<1>3. \A w \in Workers : wpc[w] \in {"exec", "post"} => hand[w] \in Query
  BY DEF IInv, HandsOwned
<1>4. QED
  BY <1>1, <1>2, <1>3, WhereHeld DEF Held

(* The lane of a worker's own queries is the worker's.                     *)
LEMMA OwnLane ==
  ASSUME IInv, LanesOwned, NEW w \in Workers
  PROVE  /\ \A i \in 1 .. Len(queue[w]) : OfLane(queue[w][i], w)
         /\ wpc[w] \in {"exec", "post"} => OfLane(hand[w], w)
BY DEF IInv, QueuesOwned, HandsOwned, LanesOwned, OfLane

(* A lane has one worker.                                                  *)
LEMMA OneWorker ==
  ASSUME NEW r, NEW w \in Workers, NEW v \in Workers, OfLane(r, w), OfLane(r, v)
  PROVE  v = w
BY WorkerIsPair DEF OfLane

(* Two queries of one lane, and two of which one is of the lane.           *)
LEMMA SameOwner ==
  ASSUME NEW q, NEW r, NEW w \in Workers, OfLane(q, w)
  PROVE  SameLane(q, r) <=> OfLane(r, w)
BY DEF SameLane, OfLane

(* A step that introduces no query but the one submitted next.             *)
LEMMA IdsStep ==
  ASSUME IdsKnown, submitted \in Nat, submitted' \in {submitted, submitted + 1},
         \A q \in Held : q.id \in Nat,
         \A q \in Held' :
           \/ \E p \in Held : p.id = q.id /\ SameLane(p, q)
           \/ q = RequestedQuery /\ submitted' = submitted + 1
  PROVE  IdsKnown'
<1>1. RequestedQuery.id = submitted + 1
  BY DEF RequestedQuery
<1>2. ASSUME NEW q \in Held' PROVE q.id =< submitted'
  BY <1>1, <1>2 DEF IdsKnown
<1>3. ASSUME NEW q \in Held', NEW r \in Held', q.id = r.id PROVE SameLane(q, r)
  <2>1. CASE q = RequestedQuery /\ r = RequestedQuery
    BY <2>1 DEF SameLane
  <2>2. CASE q # RequestedQuery /\ r # RequestedQuery
    <3>1. PICK p \in Held : p.id = q.id /\ SameLane(p, q)
      BY <2>2
    <3>2. PICK s \in Held : s.id = r.id /\ SameLane(s, r)
      BY <2>2
    <3>3. SameLane(p, s)
      BY <1>3, <3>1, <3>2 DEF IdsKnown
    <3>4. QED
      BY <3>1, <3>2, <3>3 DEF SameLane
  <2>3. CASE q = RequestedQuery /\ r # RequestedQuery
    <3>1. PICK s \in Held : s.id = r.id /\ SameLane(s, r)
      BY <2>3
    <3>2. s.id =< submitted /\ s.id = submitted + 1
      BY <1>1, <1>3, <2>3, <3>1 DEF IdsKnown
    <3>3. QED
      BY <3>2
  <2>4. CASE q # RequestedQuery /\ r = RequestedQuery
    <3>1. PICK s \in Held : s.id = q.id /\ SameLane(s, q)
      BY <2>4
    <3>2. s.id =< submitted /\ s.id = submitted + 1
      BY <1>1, <1>3, <2>4, <3>1 DEF IdsKnown
    <3>3. QED
      BY <3>2
  <2>5. QED
    BY <2>1, <2>2, <2>3, <2>4
<1>4. QED
  BY <1>2, <1>3 DEF IdsKnown

(* The steps that move no query object.                                    *)
Quiet ==
  /\ UNCHANGED <<queue, hand, callbacks, tmp, cur, submitted>>
  /\ \A w \in Workers : \/ wpc'[w] = wpc[w]
                        \/ {wpc[w], wpc'[w]} \subseteq {"top", "exited"}

(* mysql_connect starts the workers of lanes that are empty.               *)
LEMMA ConnectIsQuiet ==
  ASSUME IInv, NEW h \in Handles, Connect(h)
  PROVE  Quiet
BY DEF Quiet, Connect, IInv, TypeOK, FreeIdle, closeVars, mainVars

(* A step moves a query object in one of eleven ways, or moves none; only  *)
(* a mysql_connect and a worker's return change a worker that has none.    *)
LEMMA Moves ==
  ASSUME IInv, [Next]_vars
  PROVE  \/ Quiet
         \/ PushQuery
         \/ \E w \in Workers : WorkerPop(w) \/ WorkerExecute(w) \/ WorkerPost(w)
         \/ DropCallback \/ RunCallback \/ EndCallback
         \/ JoinWorker \/ ClearPop \/ Restore \/ UnloadLast
<1> USE DEF Quiet, handleVars, workerVars, scriptVars, closeVars, mainVars
<1>1. ASSUME Natives PROVE Quiet
  BY <1>1, ConnectIsQuiet
     DEF Natives, AmxLoad, AmxUnload, CloseHandle, BeginDestroy, Submit
<1>2. ASSUME Submitting PROVE Quiet \/ PushQuery
  BY <1>2 DEF Submitting, RejectQuery, CountQuery
<1>3. ASSUME Tick PROVE Quiet \/ DropCallback \/ RunCallback \/ EndCallback
  BY <1>3 DEF Tick, StartTick, EndTick
<1>4. ASSUME Closing PROVE Quiet \/ JoinWorker \/ ClearPop \/ Restore
  BY <1>4 DEF Closing, StopWorker, ClearPopped, Closed
<1>5. ASSUME Unloading PROVE Quiet \/ UnloadLast
  BY <1>5 DEF Unloading, PluginUnload, UnloadNext, BeginDestroy, Unloaded, vars
<1>6. ASSUME NEW w \in Workers, Worker(w)
      PROVE  Quiet \/ WorkerPop(w) \/ WorkerExecute(w) \/ WorkerPost(w)
  BY <1>6 DEF Worker, WorkerExit, IInv, TypeOK
<1>7. ASSUME UNCHANGED vars PROVE Quiet
  BY <1>7 DEF vars
<1>8. QED
  BY <1>1, <1>2, <1>3, <1>4, <1>5, <1>6, <1>7 DEF Next

(* What a step does to the objects at the handle addresses.                *)
LEMMA HandleSteps ==
  ASSUME IInv, [Next]_vars, NEW h \in Handles
  PROVE  \/ life'[h] = life[h] /\ state'[h] = state[h]
         \/ /\ life'[h] = life[h] + 1 /\ state[h] = "free" /\ state'[h] = "open"
            /\ mpc' = mpc /\ Quiet
            /\ \A l \in Lanes : wpc'[<<h, l>>] = "top"
         \/ life'[h] = life[h] /\ state[h] = "open" /\ state'[h] = "closing"
         \/ /\ life'[h] = life[h] /\ state[h] = "closing" /\ state'[h] = "free"
            /\ h = closing /\ JoinWorker
<1> USE DEF handleVars, workerVars, scriptVars, closeVars, mainVars, IInv, TypeOK
<1>1. CASE \E g \in Handles : Connect(g)
  <2>1. PICK g \in Handles : Connect(g)
    BY <1>1
  <2>2. Quiet
    BY <2>1, ConnectIsQuiet
  <2>3. /\ state' = [state EXCEPT ![g] = "open"] /\ state[g] = "free"
        /\ life' = [life EXCEPT ![g] = @ + 1] /\ mpc' = mpc
        /\ wpc' = [w \in Workers |-> IF w[1] = g THEN "top" ELSE wpc[w]]
    BY <2>1 DEF Connect
  <2>4. \A l \in Lanes : wpc'[<<g, l>>] = "top"
    BY <2>3, WorkerIsPair
  <2>5. QED
    BY <2>2, <2>3, <2>4
<1>2. CASE \E g \in Handles : BeginDestroy(g)
  BY <1>2 DEF BeginDestroy
<1>3. CASE JoinWorker
  <2>1. state[closing] = "closing" /\ life' = life
    BY <1>3 DEF JoinWorker, DestroyState
  <2>2. state' = state \/ state' = [state EXCEPT ![closing] = "free"]
    BY <1>3 DEF JoinWorker
  <2>3. QED
    BY <1>3, <2>1, <2>2
<1>4. CASE ~JoinWorker /\ ~\E g \in Handles : Connect(g) \/ BeginDestroy(g)
  <2>1. UNCHANGED <<life, state>>
    <3>1. ASSUME Natives PROVE UNCHANGED <<life, state>>
      BY <1>4, <3>1 DEF Natives, AmxLoad, AmxUnload, CloseHandle, Submit
    <3>2. ASSUME Submitting PROVE UNCHANGED <<life, state>>
      BY <3>2 DEF Submitting, PushQuery, RejectQuery, CountQuery
    <3>3. ASSUME Tick PROVE UNCHANGED <<life, state>>
      BY <3>3 DEF Tick, StartTick, DropCallback, RunCallback, EndCallback, EndTick
    <3>4. ASSUME Closing PROVE UNCHANGED <<life, state>>
      BY <1>4, <3>4 DEF Closing, StopWorker, ClearPop, ClearPopped, Restore, Closed
    <3>5. ASSUME Unloading PROVE UNCHANGED <<life, state>>
      BY <1>4, <3>5 DEF Unloading, PluginUnload, UnloadLast, UnloadNext, Unloaded, vars
    <3>6. ASSUME NEW w \in Workers, Worker(w) PROVE UNCHANGED <<life, state>>
      BY <3>6 DEF Worker, WorkerPop, WorkerExecute, WorkerPost, WorkerExit
    <3>7. ASSUME UNCHANGED vars PROVE UNCHANGED <<life, state>>
      BY <3>7 DEF vars
    <3>8. QED
      BY <3>1, <3>2, <3>3, <3>4, <3>5, <3>6, <3>7 DEF Next
  <2>2. QED
    BY <2>1
<1>5. QED
  BY <1>1, <1>2, <1>3, <1>4

(* A connection that was never disturbed by a mysql_close of another one   *)
(* was not disturbed before either.                                        *)
LEMMA UndisturbedBefore ==
  ASSUME IInv, [Next]_vars, NEW q, Undisturbed(q)'
  PROVE  Undisturbed(q)
<1> SUFFICES ASSUME NEW h \in Handles \ {q.handle}
             PROVE  life[h] = 0 \/ (life[h] = 1 /\ state[h] = "open")
  BY DEF Undisturbed
<1>1. life'[h] = 0 \/ (life'[h] = 1 /\ state'[h] = "open")
  BY DEF Undisturbed
<1>2. life[h] \in Nat
  BY DEF IInv, TypeOK
<1>3. QED
  BY <1>1, <1>2, HandleSteps

(* A worker's hand is empty between its queries.                           *)
LEMMA HandsMatchStep ==
  ASSUME IInv, HandsMatch, [Next]_vars
  PROVE  HandsMatch'
<1> USE DEF HandsMatch, handleVars, workerVars, scriptVars, closeVars, mainVars
<1>1. ASSUME NEW w \in Workers, WorkerPop(w) \/ WorkerExecute(w) \/ WorkerPost(w)
      PROVE  HandsMatch'
  BY <1>1 DEF IInv, TypeOK, WorkerPop, WorkerExecute, WorkerPost
<1>2. CASE Quiet
  BY <1>2 DEF Quiet
<1>3. CASE PushQuery \/ JoinWorker
  BY <1>3 DEF PushQuery, JoinWorker
<1>4. CASE DropCallback \/ RunCallback \/ EndCallback \/ ClearPop \/ Restore \/ UnloadLast
  BY <1>4 DEF DropCallback, RunCallback, EndCallback, ClearPop, Restore, UnloadLast
<1>5. QED
  <2> HIDE DEF HandsMatch
  <2>1. QED
    BY <1>1, <1>2, <1>3, <1>4, Moves

(* No callback is running when the main thread is idle or unloads.         *)
LEMMA CurPlaceStep ==
  ASSUME IInv, CurPlace, [Next]_vars
  PROVE  CurPlace'
<1> USE DEF handleVars, workerVars, scriptVars, closeVars, mainVars, CurPlace
<1>1. ASSUME Natives PROVE CurPlace'
  <2>1. ASSUME NEW s \in Scripts, AmxLoad(s) \/ AmxUnload(s) PROVE CurPlace'
    BY <2>1 DEF AmxLoad, AmxUnload
  <2>2. ASSUME NEW h \in Handles, Connect(h) \/ CloseHandle(h) PROVE CurPlace'
    BY <2>2 DEF Connect, CloseHandle, BeginDestroy
  <2>3. ASSUME NEW h \in Handles, NEW s \in Scripts, NEW pool \in BOOLEAN,
               NEW name \in {"none", "user"}, NEW n \in 1 .. MaxBatch,
               Submit(h, s, pool, name, n)
        PROVE  CurPlace'
    BY <2>3 DEF Submit
  <2>4. QED
    BY <1>1, <2>1, <2>2, <2>3 DEF Natives
<1>2. ASSUME Submitting PROVE CurPlace'
  BY <1>2 DEF Submitting, PushQuery, RejectQuery, CountQuery, Return
<1>3. ASSUME Tick PROVE CurPlace'
  BY <1>3 DEF Tick, StartTick, DropCallback, RunCallback, EndCallback, EndTick,
              IInv, UnloadState
<1>4. ASSUME Closing PROVE CurPlace'
  BY <1>4 DEF Closing, StopWorker, JoinWorker, ClearPop, ClearPopped, Restore, Closed,
              Return, AfterDestroy
<1>5. ASSUME Unloading PROVE CurPlace'
  BY <1>5 DEF Unloading, PluginUnload, UnloadLast, UnloadNext, BeginDestroy, Unloaded, vars
<1>6. ASSUME NEW w \in Workers, Worker(w) PROVE CurPlace'
  BY <1>6 DEF Worker, WorkerPop, WorkerExecute, WorkerPost, WorkerExit
<1>7. ASSUME UNCHANGED vars PROVE CurPlace'
  BY <1>7 DEF vars
<1>8. QED
  BY <1>1, <1>2, <1>3, <1>4, <1>5, <1>6, <1>7 DEF Next

(* A native call never submits more than the bound on queries.             *)
LEMMA RequestFitsStep ==
  ASSUME IInv, RequestFits, [Next]_vars
  PROVE  RequestFits'
<1> USE DEF handleVars, workerVars, scriptVars, closeVars, mainVars, RequestFits
<1>1. ASSUME NEW h \in Handles, NEW s \in Scripts, NEW pool \in BOOLEAN,
             NEW name \in {"none", "user"}, NEW n \in 1 .. MaxBatch,
             Submit(h, s, pool, name, n)
      PROVE RequestFits'
  BY <1>1 DEF Submit
<1>2. ASSUME NEW s \in Scripts, AmxLoad(s) \/ AmxUnload(s) PROVE RequestFits'
  BY <1>2 DEF AmxLoad, AmxUnload
<1>3. ASSUME NEW h \in Handles, Connect(h) \/ BeginDestroy(h) PROVE RequestFits'
  BY <1>3 DEF Connect, BeginDestroy
<1>4. ASSUME Submitting PROVE RequestFits'
  <2>1. mpc \in {"push", "count"} /\ req \in Request /\ req.left \in Nat \ {0} /\ submitted \in Nat
    BY <1>4, RequestFields
       DEF Submitting, PushQuery, RejectQuery, CountQuery, IInv, TypeOK, RequestOpen
  <2>2. req.left # 1 => OneQueued(req).left = req.left - 1
    BY <2>1 DEF OneQueued, Request
  <2>3. CASE PushQuery
    BY <2>1, <2>3, ConstantsAssumption DEF PushQuery
  <2>4. CASE RejectQuery
    BY <2>1, <2>4 DEF RejectQuery, Return
  <2>5. CASE CountQuery
    BY <2>1, <2>2, <2>5 DEF CountQuery, Return
  <2>6. QED
    BY <1>4, <2>3, <2>4, <2>5 DEF Submitting
<1>5. ASSUME Tick PROVE RequestFits'
  BY <1>5 DEF Tick, StartTick, DropCallback, RunCallback, EndCallback, EndTick
<1>6. ASSUME Closing PROVE RequestFits'
  BY <1>6 DEF Closing, StopWorker, JoinWorker, ClearPop, ClearPopped, Restore, Closed,
              Return, AfterDestroy
<1>7. ASSUME Unloading PROVE RequestFits'
  BY <1>3, <1>7 DEF Unloading, PluginUnload, UnloadLast, UnloadNext, Unloaded, vars
<1>8. ASSUME NEW w \in Workers, Worker(w) PROVE RequestFits'
  BY <1>8 DEF Worker, WorkerPop, WorkerExecute, WorkerPost, WorkerExit
<1>9. ASSUME UNCHANGED vars PROVE RequestFits'
  BY <1>9 DEF vars
<1>10. QED
  BY <1>1, <1>2, <1>3, <1>4, <1>5, <1>6, <1>7, <1>8, <1>9 DEF Next, Natives, CloseHandle

(* The address of a handle that is open, closed or being cleared has had   *)
(* an object.                                                              *)
LEMMA LivesCountedStep ==
  ASSUME IInv, LivesCounted, [Next]_vars
  PROVE  LivesCounted'
<1>1. \A h \in Handles : state'[h] # "free" => life'[h] # 0
  <2>1. ASSUME NEW h \in Handles, state'[h] # "free" PROVE life'[h] # 0
    <3>1. life[h] \in Nat
      BY DEF IInv, TypeOK
    <3>2. QED
      BY <2>1, <3>1, HandleSteps DEF LivesCounted
  <2>2. QED
    BY <2>1
<1>2. mpc' \in {"clear", "restore"} =>
        \/ mpc \in {"clear", "restore"} /\ closing' = closing /\ life' = life
        \/ JoinWorker
  <2> USE DEF handleVars, workerVars, scriptVars, closeVars, mainVars
  <2>1. ASSUME Natives, mpc' \in {"clear", "restore"} PROVE FALSE
    BY <2>1 DEF Natives, AmxLoad, AmxUnload, Connect, CloseHandle, BeginDestroy, Submit,
                PawnRuns
  <2>2. ASSUME Submitting, mpc' \in {"clear", "restore"} PROVE FALSE
    BY <2>2 DEF Submitting, PushQuery, RejectQuery, CountQuery, Return
  <2>3. ASSUME Tick, mpc' \in {"clear", "restore"} PROVE FALSE
    BY <2>3 DEF Tick, StartTick, DropCallback, RunCallback, EndCallback, EndTick
  <2>4. ASSUME Closing, mpc' \in {"clear", "restore"}, ~JoinWorker
        PROVE  mpc \in {"clear", "restore"} /\ closing' = closing /\ life' = life
    BY <2>4 DEF Closing, StopWorker, ClearPop, ClearPopped, Restore, Closed, Return
  <2>5. ASSUME Unloading, mpc' \in {"clear", "restore"}
        PROVE  mpc \in {"clear", "restore"} /\ closing' = closing /\ life' = life
    BY <2>5 DEF Unloading, PluginUnload, UnloadLast, UnloadNext, BeginDestroy, Unloaded, vars
  <2>6. ASSUME NEW w \in Workers, Worker(w), mpc' \in {"clear", "restore"}
        PROVE  mpc \in {"clear", "restore"} /\ closing' = closing /\ life' = life
    BY <2>6 DEF Worker, WorkerPop, WorkerExecute, WorkerPost, WorkerExit
  <2>7. ASSUME UNCHANGED vars, mpc' \in {"clear", "restore"}
        PROVE  mpc \in {"clear", "restore"} /\ closing' = closing /\ life' = life
    BY <2>7 DEF vars
  <2>8. QED
    BY <2>1, <2>2, <2>3, <2>4, <2>5, <2>6, <2>7 DEF Next
<1>3. ASSUME JoinWorker, mpc' \in {"clear", "restore"} PROVE life'[closing'] # 0
  <2>1. closing \in Handles /\ state[closing] = "closing" /\ life' = life
    BY <1>3 DEF IInv, DestroyState, JoinWorker
  <2>2. closing' = closing
    BY <1>3 DEF JoinWorker, AfterDestroy
  <2>3. QED
    BY <2>1, <2>2 DEF LivesCounted
<1>4. QED
  BY <1>1, <1>2, <1>3 DEF LivesCounted

(* The parts of the invariant that speak of query objects.                 *)
Ordered ==
  /\ LanesOwned /\ QueuesFit
  /\ IdsKnown
  /\ LaneSorted /\ ExecutedOlder /\ CallbackOrder
  /\ ExecutedDistinct

(* A lane whose handle object has changed is empty.                        *)
LEMMA LaneKeepsLife ==
  ASSUME IInv, HandsMatch, [Next]_vars, NEW w \in Workers
  PROVE  life'[w[1]] = life[w[1]] \/ (Quiet /\ queue[w] = <<>> /\ wpc'[w] = "top")
<1>1. w[1] \in Handles /\ w[2] \in Lanes /\ w = <<w[1], w[2]>>
  BY WorkerIsPair
<1>2. CASE life'[w[1]] # life[w[1]]
  <2>1. state[w[1]] = "free" /\ Quiet /\ wpc'[<<w[1], w[2]>>] = "top"
    BY <1>1, <1>2, HandleSteps
  <2>2. QED
    BY <1>1, <2>1 DEF IInv, FreeIdle
<1>3. QED
  BY <1>2

(* When the executed queries and the queues only lose some, what is        *)
(* executed stays older than what is not.                                  *)
LEMMA OlderStays ==
  ASSUME ExecutedOlder, Executed' \subseteq Executed,
         \A w \in Workers :
           /\ queue'[w] = queue[w] \/ queue'[w] = <<>>
           /\ wpc'[w] \in {"exec", "post"} =>
                wpc[w] \in {"exec", "post"} /\ hand'[w].id = hand[w].id
           /\ \/ life'[w[1]] = life[w[1]]
              \/ queue'[w] = <<>> /\ wpc'[w] \notin {"exec", "post"}
  PROVE  ExecutedOlder'
<1>1. ASSUME NEW w \in Workers, NEW r \in Executed', OfLane(r, w)'
      PROVE  /\ \A i \in 1 .. Len(queue'[w]) : r.id < queue'[w][i].id
             /\ wpc'[w] \in {"exec", "post"} => r.id < hand'[w].id
  <2>1. CASE life'[w[1]] = life[w[1]]
    <3>1. OfLane(r, w) /\ r \in Executed
      BY <1>1, <2>1 DEF OfLane
    <3>2. QED
      BY <3>1 DEF ExecutedOlder
  <2>2. CASE queue'[w] = <<>> /\ wpc'[w] \notin {"exec", "post"}
    BY <2>2
  <2>3. QED
    BY <2>1, <2>2
<1>2. QED
  BY <1>1 DEF ExecutedOlder

(* When nothing new is held and the callbacks keep their place, only what  *)
(* the lanes hold has to be looked at.                                     *)
LEMMA IdsStay ==
  ASSUME IInv, IdsKnown, submitted' = submitted,
         \A q \in Held' : \E p \in Held : p.id = q.id /\ SameLane(p, q)
  PROVE  IdsKnown'
<1>1. submitted \in Nat /\ \A q \in Held : q.id \in Nat
  BY HeldQueries DEF IInv, TypeOK, Query
<1>2. QED
  BY <1>1, IdsStep

LEMMA CallbacksStay ==
  ASSUME IInv, CallbackOrder, [Next]_vars, UNCHANGED <<callbacks, cur>>
  PROVE  CallbackOrder'
BY UndisturbedBefore DEF CallbackOrder

(* A step that moves no query object keeps them ordered.                   *)
LEMMA QuietOrdered ==
  ASSUME IInv, HandsMatch, Ordered, [Next]_vars, Quiet
  PROVE  Ordered'
<1>1. \A w \in Workers : wpc'[w] \in {"exec", "post"} => wpc[w] = wpc'[w]
  BY DEF Quiet
<1>2. LanesOwned' /\ QueuesFit' /\ LaneSorted'
  BY <1>1 DEF Ordered, Quiet, LanesOwned, QueuesFit, LaneSorted
<1>3. Executed' = Executed
  BY DEF Quiet, Executed, Elements
<1>4. IdsKnown'
  <2>1. \A q : q \in Held' => q \in Held
    BY <1>1, <1>3, WhereHeld, WhereHeldNext DEF Quiet
  <2>2. QED
    BY <2>1, IdsStay DEF Ordered, Quiet, SameLane
<1>5. ExecutedOlder'
  <2>1. ASSUME NEW w \in Workers
        PROVE  life'[w[1]] = life[w[1]] \/ (queue'[w] = <<>> /\ wpc'[w] \notin {"exec", "post"})
    BY LaneKeepsLife DEF Quiet
  <2>2. QED
    BY <1>1, <1>3, <2>1, OlderStays DEF Ordered, Quiet
<1>6. CallbackOrder'
  BY CallbacksStay DEF Ordered, Quiet
<1>7. ExecutedDistinct'
  BY DEF Ordered, Quiet, ExecutedDistinct
<1>8. QED
  BY <1>2, <1>4, <1>5, <1>6, <1>7 DEF Ordered

(* Where the elements of a longer queue come from.                         *)
LEMMA AppendedAt ==
  ASSUME NEW S, NEW q \in Seq(S), NEW e \in S
  PROVE  /\ Append(q, e) \in Seq(S) /\ Len(Append(q, e)) = Len(q) + 1 /\ Len(q) \in Nat
         /\ \A i \in 1 .. Len(q) : Append(q, e)[i] = q[i]
         /\ Append(q, e)[Len(q) + 1] = e
OBVIOUS

(* The ids of queries are numbers.                                         *)
LEMMA QueryIds == \A q \in Query : q.id \in Nat \ {0}
BY DEF Query

(* The query a native call is about to push.                               *)
LEMMA RequestedKnown ==
  ASSUME IInv, mpc = "push", NEW v, v = <<req.handle, RequestedLane>>
  PROVE  /\ v \in Workers /\ RequestedQuery \in Query
         /\ RequestedQuery.id = submitted + 1 /\ submitted \in Nat
         /\ OfLane(RequestedQuery, v)
<1>1. req \in Request
  BY DEF IInv, RequestOpen
<1>2. RequestedLane \in Lanes
  BY <1>1, RequestFields, PoolLanes DEF IInv, TypeOK, RequestedLane
<1>3. v \in Workers /\ v[1] = req.handle /\ v[2] = RequestedLane
  BY <1>1, <1>2, RequestFields, WorkerIsPair
<1>4. RequestedQuery \in Query
  BY <1>1, <1>2, RequestFields DEF IInv, TypeOK, RequestedQuery, Query, Names
<1>5. /\ RequestedQuery.id = submitted + 1 /\ RequestedQuery.handle = req.handle
      /\ RequestedQuery.life = life[req.handle] /\ RequestedQuery.lane = RequestedLane
  BY DEF RequestedQuery
<1>6. QED
  BY <1>3, <1>4, <1>5 DEF OfLane, IInv, TypeOK

(* The new query is behind everything that was submitted before.           *)
LEMMA PushOrdered ==
  ASSUME IInv, HandsMatch, Ordered, [Next]_vars, PushQuery
  PROVE  Ordered'
<1> DEFINE v == <<req.handle, RequestedLane>>
<1>1. /\ v \in Workers /\ RequestedQuery \in Query
      /\ RequestedQuery.id = submitted + 1 /\ submitted \in Nat
      /\ OfLane(RequestedQuery, v)
  BY RequestedKnown DEF PushQuery
<1>2. /\ UNCHANGED <<life, wpc, hand, callbacks, tmp, cur>>
      /\ submitted' = submitted + 1
      /\ queue' = [queue EXCEPT ![v] = Append(queue[v], RequestedQuery)]
      /\ Len(queue[v]) < QueueCap
  BY DEF PushQuery, Enqueued, Accepts, closeVars
<1> HIDE DEF v
<1>3. /\ Len(queue[v]) \in Nat /\ Len(queue'[v]) = Len(queue[v]) + 1
      /\ \A i \in 1 .. Len(queue[v]) : queue'[v][i] = queue[v][i]
      /\ queue'[v][Len(queue[v]) + 1] = RequestedQuery
      /\ \A w \in Workers \ {v} : queue'[w] = queue[w]
  BY <1>1, <1>2, AppendedAt DEF IInv, TypeOK
<1>4. \A i \in 1 .. Len(queue'[v]) :
        \/ i \in 1 .. Len(queue[v]) /\ queue'[v][i] = queue[v][i]
        \/ i = Len(queue[v]) + 1 /\ queue'[v][i] = RequestedQuery
  BY <1>3
<1>5. Executed' = Executed
  BY <1>2 DEF Executed, Elements
<1>6. \A q \in Held : q.id \in Nat /\ q.id < RequestedQuery.id
  BY <1>1, HeldQueries, QueryIds DEF Ordered, IdsKnown
<1>7. \A i \in 1 .. Len(queue[v]) : queue[v][i].id < RequestedQuery.id
  BY <1>1, <1>6, WhereHeld
<1>8. wpc[v] \in {"exec", "post"} => hand[v].id < RequestedQuery.id
  BY <1>1, <1>6, WhereHeld
<1>9. LanesOwned' /\ QueuesFit'
  <2>1. ASSUME NEW w \in Workers, w # v
        PROVE  /\ \A i \in 1 .. Len(queue'[w]) : queue'[w][i].lane = w[2]
               /\ Len(queue'[w]) =< QueueCap
    BY <1>3, <2>1 DEF Ordered, LanesOwned, QueuesFit
  <2>2. /\ \A i \in 1 .. Len(queue'[v]) : queue'[v][i].lane = v[2]
        /\ Len(queue'[v]) =< QueueCap
    BY <1>1, <1>2, <1>3, <1>4, ConstantsAssumption DEF Ordered, LanesOwned, OfLane
  <2>3. QED
    BY <1>2, <2>1, <2>2 DEF Ordered, LanesOwned, QueuesFit
<1>10. IdsKnown'
  <2>1. \A q \in Held' : q \in Held \/ q = RequestedQuery
    <3>1. ASSUME NEW w \in Workers, NEW i \in 1 .. Len(queue'[w])
          PROVE  queue'[w][i] \in Held \/ queue'[w][i] = RequestedQuery
      BY <1>1, <1>3, <1>4, WhereHeld
    <3>2. \A w \in Workers : wpc'[w] \in {"exec", "post"} => hand'[w] \in Held
      BY <1>2, WhereHeld
    <3>3. QED
      BY <1>5, <3>1, <3>2, WhereHeld, WhereHeldNext
  <2>2. \A q \in Held : q.id \in Nat
    BY <1>6
  <2>3. QED
    BY <1>1, <1>2, <2>1, <2>2, IdsStep DEF Ordered, SameLane
<1>11. LaneSorted'
  <2>1. ASSUME NEW w \in Workers, NEW i \in 1 .. Len(queue'[w])
        PROVE  /\ \A j \in 1 .. Len(queue'[w]) : j < i => queue'[w][j].id < queue'[w][i].id
               /\ wpc[w] \in {"exec", "post"} => hand[w].id < queue'[w][i].id
    <3>1. CASE w # v
      BY <1>3, <3>1 DEF Ordered, LaneSorted
    <3>2. CASE w = v /\ i \in 1 .. Len(queue[v])
      <4>1. queue'[v][i] = queue[v][i] /\ \A j \in 1 .. Len(queue'[v]) :
              j < i => j \in 1 .. Len(queue[v]) /\ queue'[v][j] = queue[v][j]
        BY <1>1, <1>3, <3>2
      <4>2. QED
        BY <3>2, <4>1 DEF Ordered, LaneSorted
    <3>3. CASE w = v /\ i = Len(queue[v]) + 1
      BY <1>3, <1>7, <1>8, <3>3
    <3>4. QED
      BY <1>4, <3>1, <3>2, <3>3
  <2>2. QED
    BY <1>2, <2>1 DEF LaneSorted
<1>12. ExecutedOlder'
  <2>1. ASSUME NEW w \in Workers, NEW r \in Executed, OfLane(r, w),
               NEW i \in 1 .. Len(queue'[w])
        PROVE  r.id < queue'[w][i].id
    <3>1. CASE w # v
      BY <1>3, <2>1, <3>1 DEF Ordered, ExecutedOlder
    <3>2. CASE w = v
      BY <1>1, <1>4, <1>6, <2>1, <3>2, HeldQueries DEF Ordered, ExecutedOlder
    <3>3. QED
      BY <3>1, <3>2
  <2>2. QED
    BY <1>2, <1>5, <2>1 DEF Ordered, ExecutedOlder, OfLane
<1>13. CallbackOrder'
  BY <1>2, CallbacksStay DEF Ordered
<1>14. ExecutedDistinct'
  BY <1>2 DEF Ordered, ExecutedDistinct
<1>15. QED
  BY <1>9, <1>10, <1>11, <1>12, <1>13, <1>14 DEF Ordered

(* The oldest query of a lane moves to its worker's hand.                  *)
LEMMA PopOrdered ==
  ASSUME IInv, HandsMatch, Ordered, [Next]_vars, NEW w \in Workers, WorkerPop(w)
  PROVE  Ordered'
<1>1. /\ UNCHANGED <<life, callbacks, tmp, cur, submitted>>
      /\ queue' = [queue EXCEPT ![w] = Tail(queue[w])]
      /\ hand' = [hand EXCEPT ![w] = Head(queue[w])]
      /\ wpc' = [wpc EXCEPT ![w] = "exec"]
      /\ queue[w] # <<>>
  BY DEF WorkerPop, Dequeued, handleVars, closeVars, mainVars
<1>2. /\ Len(queue[w]) \in Nat \ {0} /\ Len(queue'[w]) = Len(queue[w]) - 1
      /\ \A i \in 1 .. Len(queue'[w]) :
           queue'[w][i] = queue[w][i + 1] /\ i + 1 \in 1 .. Len(queue[w])
      /\ 1 \in 1 .. Len(queue[w]) /\ hand'[w] = queue[w][1] /\ wpc'[w] = "exec"
  BY <1>1, FirstAndRest DEF IInv, TypeOK
<1>3. \A v \in Workers \ {w} : queue'[v] = queue[v] /\ hand'[v] = hand[v] /\ wpc'[v] = wpc[v]
  BY <1>1 DEF IInv, TypeOK
<1>4. Executed' = Executed
  BY <1>1 DEF Executed, Elements
<1>5. LanesOwned' /\ QueuesFit'
  <2>1. ASSUME NEW v \in Workers, v # w
        PROVE  /\ \A i \in 1 .. Len(queue'[v]) : queue'[v][i].lane = v[2]
               /\ Len(queue'[v]) =< QueueCap
               /\ wpc'[v] \in {"exec", "post"} => hand'[v].lane = v[2]
    BY <1>3, <2>1 DEF Ordered, LanesOwned, QueuesFit
  <2>2. /\ \A i \in 1 .. Len(queue'[w]) : queue'[w][i].lane = w[2]
        /\ hand'[w].lane = w[2]
    BY <1>2 DEF Ordered, LanesOwned
  <2>3. Len(queue'[w]) =< QueueCap
    BY <1>2, ConstantsAssumption DEF Ordered, QueuesFit
  <2>4. QED
    BY <2>1, <2>2, <2>3 DEF LanesOwned, QueuesFit
<1>6. IdsKnown'
  <2>1. ASSUME NEW q \in Held' PROVE q \in Held
    <3>1. ASSUME NEW v \in Workers, NEW i \in 1 .. Len(queue'[v]) PROVE queue'[v][i] \in Held
      <4>1. \E j \in 1 .. Len(queue[v]) : queue'[v][i] = queue[v][j]
        <5>1. CASE v = w
          BY <1>2, <3>1, <5>1
        <5>2. CASE v # w
          BY <1>3, <3>1, <5>2
        <5>3. QED
          BY <5>1, <5>2
      <4>2. QED
        BY <4>1, WhereHeld
    <3>2. ASSUME NEW v \in Workers, wpc'[v] \in {"exec", "post"} PROVE hand'[v] \in Held
      <4>1. CASE v = w
        BY <1>2, <4>1, WhereHeld
      <4>2. CASE v # w
        BY <1>3, <3>2, <4>2, WhereHeld
      <4>3. QED
        BY <4>1, <4>2
    <3>3. \/ \E v \in Workers : \E i \in 1 .. Len(queue'[v]) : q = queue'[v][i]
          \/ \E v \in Workers : wpc'[v] \in {"exec", "post"} /\ q = hand'[v]
          \/ q \in Executed
      BY <1>4, <2>1, WhereHeldNext
    <3>4. q \in Executed => q \in Held
      BY WhereHeld
    <3>5. QED
      BY <3>1, <3>2, <3>3, <3>4
  <2>2. QED
    BY <1>1, <2>1, IdsStay DEF Ordered, SameLane
<1>7. LaneSorted'
  <2>1. ASSUME NEW v \in Workers, NEW i \in 1 .. Len(queue'[v])
        PROVE  /\ \A j \in 1 .. Len(queue'[v]) : j < i => queue'[v][j].id < queue'[v][i].id
               /\ wpc'[v] \in {"exec", "post"} => hand'[v].id < queue'[v][i].id
    <3>1. CASE v # w
      BY <1>3, <3>1 DEF Ordered, LaneSorted
    <3>2. CASE v = w
      <4>1. \A k, j \in 1 .. Len(queue[w]) : j < k => queue[w][j].id < queue[w][k].id
        BY DEF Ordered, LaneSorted
      <4>2. queue'[w][i] = queue[w][i + 1] /\ i + 1 \in 1 .. Len(queue[w]) /\ 1 < i + 1
        BY <1>2, <3>2
      <4>3. hand'[w].id < queue'[w][i].id
        BY <1>2, <4>1, <4>2
      <4>4. ASSUME NEW j \in 1 .. Len(queue'[w]), j < i
            PROVE  queue'[w][j].id < queue'[w][i].id
        <5>1. queue'[w][j] = queue[w][j + 1] /\ j + 1 \in 1 .. Len(queue[w]) /\ j + 1 < i + 1
          BY <1>2, <3>2, <4>4
        <5>2. QED
          BY <4>1, <4>2, <5>1
      <4>5. QED
        BY <3>2, <4>3, <4>4
    <3>3. QED
      BY <3>1, <3>2
  <2>2. QED
    BY <2>1 DEF LaneSorted
<1>8. ExecutedOlder'
  <2>1. ASSUME NEW v \in Workers, NEW r \in Executed, OfLane(r, v)
        PROVE  /\ \A i \in 1 .. Len(queue'[v]) : r.id < queue'[v][i].id
               /\ wpc'[v] \in {"exec", "post"} => r.id < hand'[v].id
    <3>1. CASE v # w
      BY <1>3, <2>1, <3>1 DEF Ordered, ExecutedOlder
    <3>2. CASE v = w
      BY <1>2, <2>1, <3>2 DEF Ordered, ExecutedOlder
    <3>3. QED
      BY <3>1, <3>2
  <2>2. QED
    BY <1>1, <1>4, <2>1 DEF ExecutedOlder, OfLane
<1>9. CallbackOrder'
  BY <1>1, CallbacksStay DEF Ordered
<1>10. ExecutedDistinct'
  BY <1>1 DEF Ordered, ExecutedDistinct
<1>11. QED
  BY <1>5, <1>6, <1>7, <1>8, <1>9, <1>10 DEF Ordered

(* What a failed query keeps: its id and its lane.                         *)
LEMMA RenamedLane ==
  ASSUME NEW q \in Query, NEW n
  PROVE  WithName(q, n).id = q.id /\ SameLane(q, WithName(q, n))
BY DEF Query, WithName, SameLane

(* The query in the hand may lose or change its callback, nothing else.    *)
LEMMA ExecuteOrdered ==
  ASSUME IInv, HandsMatch, Ordered, [Next]_vars, NEW w \in Workers, WorkerExecute(w)
  PROVE  Ordered'
<1>1. /\ UNCHANGED <<life, queue, callbacks, tmp, cur, submitted>>
      /\ wpc' = [wpc EXCEPT ![w] = "post"] /\ wpc[w] = "exec"
      /\ \E n : hand' = [hand EXCEPT ![w] = WithName(hand[w], n)]
  BY DEF WorkerExecute, closeVars, mainVars
<1>2. hand[w] \in Query
  BY <1>1 DEF IInv, HandsOwned
<1>3. /\ hand'[w].id = hand[w].id /\ SameLane(hand[w], hand'[w])
      /\ wpc[w] = "exec" /\ wpc'[w] = "post"
  BY <1>1, <1>2, RenamedLane DEF IInv, TypeOK
<1>4. \A v \in Workers \ {w} : hand'[v] = hand[v] /\ wpc'[v] = wpc[v]
  BY <1>1 DEF IInv, TypeOK
<1>5. Executed' = Executed
  BY <1>1 DEF Executed, Elements
<1>6. LanesOwned' /\ QueuesFit'
  BY <1>1, <1>3, <1>4 DEF Ordered, LanesOwned, QueuesFit, SameLane
<1>7. IdsKnown'
  <2>1. ASSUME NEW q \in Held' PROVE \E p \in Held : p.id = q.id /\ SameLane(p, q)
    <3>1. hand[w] \in Held
      BY <1>3, WhereHeld
    <3>2. CASE q \in Held
      BY <3>2 DEF SameLane
    <3>3. CASE \E v \in Workers : wpc'[v] \in {"exec", "post"} /\ q = hand'[v]
      BY <1>3, <1>4, <3>1, <3>2, <3>3, WhereHeld
    <3>4. q \in Held \/ \E v \in Workers : wpc'[v] \in {"exec", "post"} /\ q = hand'[v]
      BY <1>1, <1>5, WhereHeld, WhereHeldNext
    <3>5. QED
      BY <3>2, <3>3, <3>4
  <2>2. QED
    BY <1>1, <2>1, IdsStay DEF Ordered
<1>8. LaneSorted'
  BY <1>1, <1>3, <1>4 DEF Ordered, LaneSorted
<1>9. ExecutedOlder'
  BY <1>1, <1>3, <1>4, <1>5, OlderStays DEF Ordered
<1>10. CallbackOrder'
  BY <1>1, CallbacksStay DEF Ordered
<1>11. ExecutedDistinct'
  BY <1>1 DEF Ordered, ExecutedDistinct
<1>12. QED
  BY <1>6, <1>7, <1>8, <1>9, <1>10, <1>11 DEF Ordered

(* The executed query joins the callback queue, or is deleted.             *)
LEMMA PostOrdered ==
  ASSUME IInv, HandsMatch, Ordered, [Next]_vars, NEW w \in Workers, WorkerPost(w)
  PROVE  Ordered'
<1>1. /\ UNCHANGED <<life, queue, tmp, cur, submitted>>
      /\ callbacks' = Pushed(hand[w])
      /\ hand' = [hand EXCEPT ![w] = None]
      /\ wpc' = [wpc EXCEPT ![w] = "top"] /\ wpc[w] = "post"
  BY DEF WorkerPost, handleVars, closeVars, mainVars
<1>2. /\ hand[w] \in Query /\ OfLane(hand[w], w) /\ hand[w] \in Held
      /\ wpc'[w] = "top"
  BY <1>1, OwnLane, WhereHeld DEF IInv, TypeOK, HandsOwned, Ordered
<1>3. \A v \in Workers \ {w} : hand'[v] = hand[v] /\ wpc'[v] = wpc[v]
  BY <1>1 DEF IInv, TypeOK
<1>4. /\ Len(callbacks) \in Nat
      /\ Len(callbacks') \in {Len(callbacks), Len(callbacks) + 1}
      /\ \A i \in 1 .. Len(callbacks') :
           \/ i \in 1 .. Len(callbacks) /\ callbacks'[i] = callbacks[i]
           \/ i = Len(callbacks) + 1 /\ callbacks'[i] = hand[w]
  BY <1>1, <1>2, AppendedAt DEF IInv, TypeOK, Pushed
<1>5. \A r \in Executed' : r \in Executed \/ r = hand[w]
  <2>1. \A r \in Executed' : \/ \E i \in 1 .. Len(callbacks') : r = callbacks'[i]
                             \/ \E i \in 1 .. Len(tmp) : r = tmp[i]
                             \/ cur # None /\ r = cur
    BY <1>1 DEF Executed, Elements
  <2>2. QED
    BY <1>4, <2>1, WhereExecuted
<1>6. \A r \in Executed : /\ SameLane(hand[w], r) => r.id < hand[w].id
                          /\ r.id # hand[w].id
  <2>1. \A r \in Executed : OfLane(r, w) => r.id < hand[w].id
    BY <1>1 DEF Ordered, ExecutedOlder
  <2>2. \A r \in Executed : r.id = hand[w].id => SameLane(hand[w], r)
    BY <1>2, HeldQueries DEF Ordered, IdsKnown
  <2>3. \A r \in Executed : r.id \in Nat /\ hand[w].id \in Nat
    BY <1>2, HeldQueries, QueryIds
  <2>4. QED
    BY <1>2, <2>1, <2>2, <2>3, SameOwner
<1>7. LanesOwned' /\ QueuesFit' /\ LaneSorted'
  BY <1>1, <1>2, <1>3 DEF Ordered, LanesOwned, QueuesFit, LaneSorted
<1>8. IdsKnown'
  <2>1. ASSUME NEW q \in Held' PROVE q \in Held
    <3>1. ASSUME NEW v \in Workers, wpc'[v] \in {"exec", "post"} PROVE hand'[v] \in Held
      BY <1>2, <1>3, <3>1, WhereHeld
    <3>2. QED
      BY <1>1, <1>2, <1>5, <3>1, WhereHeld, WhereHeldNext
  <2>2. QED
    BY <1>1, <2>1, IdsStay DEF Ordered, SameLane
<1>9. ExecutedOlder'
  <2>1. ASSUME NEW v \in Workers, NEW r \in Executed', OfLane(r, v)
        PROVE  /\ \A i \in 1 .. Len(queue[v]) : r.id < queue[v][i].id
               /\ wpc'[v] \in {"exec", "post"} => r.id < hand'[v].id
    <3>1. CASE r \in Executed
      BY <1>2, <1>3, <2>1, <3>1 DEF Ordered, ExecutedOlder
    <3>2. CASE r = hand[w]
      <4>1. v = w
        BY <1>2, <2>1, <3>2, OneWorker
      <4>2. QED
        BY <1>1, <1>2, <3>2, <4>1 DEF Ordered, LaneSorted
    <3>3. QED
      BY <1>5, <2>1, <3>1, <3>2
  <2>2. QED
    BY <1>1, <2>1 DEF ExecutedOlder, OfLane
<1>10. CallbackOrder'
  <2>1. ASSUME NEW i \in 1 .. Len(callbacks'), Undisturbed(callbacks[i])'
        PROVE  /\ \A j \in 1 .. i - 1 :
                    SameLane(callbacks'[i], callbacks'[j]) => callbacks'[j].id < callbacks'[i].id
               /\ cur # None /\ SameLane(callbacks'[i], cur) => cur.id < callbacks'[i].id
    <3>1. Undisturbed(callbacks'[i])
      BY <1>1, <2>1, UndisturbedBefore
    <3>2. \A j \in 1 .. i - 1 : j \in 1 .. Len(callbacks) /\ callbacks'[j] = callbacks[j]
      BY <1>4
    <3>3. CASE i \in 1 .. Len(callbacks) /\ callbacks'[i] = callbacks[i]
      BY <3>1, <3>2, <3>3 DEF Ordered, CallbackOrder
    <3>4. CASE callbacks'[i] = hand[w]
      BY <1>6, <3>2, <3>4, WhereExecuted
    <3>5. QED
      BY <1>4, <3>3, <3>4
  <2>2. QED
    BY <1>1, <2>1 DEF CallbackOrder
<1>11. ExecutedDistinct'
  <2>1. ASSUME NEW i \in 1 .. Len(callbacks'), NEW j \in 1 .. Len(callbacks'),
               callbacks'[i].id = callbacks'[j].id
        PROVE  i = j
    BY <1>4, <1>6, <2>1, WhereExecuted DEF Ordered, ExecutedDistinct
  <2>2. ASSUME NEW i \in 1 .. Len(callbacks')
        PROVE  /\ \A j \in 1 .. Len(tmp) : callbacks'[i].id # tmp[j].id
               /\ cur # None => callbacks'[i].id # cur.id
    BY <1>4, <1>6, WhereExecuted DEF Ordered, ExecutedDistinct
  <2>3. QED
    BY <1>1, <2>1, <2>2 DEF Ordered, ExecutedDistinct
<1>12. QED
  BY <1>7, <1>8, <1>9, <1>10, <1>11 DEF Ordered

(* When the workers stand still and the main thread only takes query       *)
(* objects away, what the lanes hold stays in order.                       *)
LEMMA LanesStay ==
  ASSUME IInv, Ordered, Executed' \subseteq Executed,
         UNCHANGED <<life, hand, wpc, submitted>>,
         \A w \in Workers : queue'[w] = queue[w] \/ queue'[w] = <<>>
  PROVE  LanesOwned' /\ QueuesFit' /\ IdsKnown' /\ LaneSorted' /\ ExecutedOlder'
<1>1. \A w \in Workers : \A i \in 1 .. Len(queue'[w]) : queue'[w] = queue[w]
  OBVIOUS
<1>2. LanesOwned' /\ LaneSorted'
  BY <1>1 DEF Ordered, LanesOwned, LaneSorted
<1>3. QueuesFit'
  BY ConstantsAssumption DEF Ordered, QueuesFit
<1>4. IdsKnown'
  <2>1. \A q \in Held' : q \in Held
    BY <1>1, WhereHeld, WhereHeldNext
  <2>2. QED
    BY <2>1, IdsStay DEF Ordered, SameLane
<1>5. ExecutedOlder'
  BY OlderStays DEF Ordered
<1>6. QED
  BY <1>2, <1>3, <1>4, <1>5

(* Popping the callback queue: the rest has moved one place forward.       *)
LEMMA CallbacksPopped ==
  ASSUME IInv, callbacks # <<>>, callbacks' = Tail(callbacks)
  PROVE  /\ \A i \in 1 .. Len(callbacks') :
              i + 1 \in 1 .. Len(callbacks) /\ callbacks'[i] = callbacks[i + 1]
         /\ Len(callbacks') = Len(callbacks) - 1 /\ Len(callbacks) \in Nat
         /\ 1 \in 1 .. Len(callbacks) /\ Head(callbacks) = callbacks[1]
         /\ callbacks[1] \in Query
BY FirstAndRest DEF IInv, TypeOK

(* So the callbacks stay in order behind a callback that runs unchanged.   *)
LEMMA PoppedOrder ==
  ASSUME IInv, CallbackOrder, [Next]_vars, callbacks # <<>>, callbacks' = Tail(callbacks),
         cur' \in {cur, None}
  PROVE  CallbackOrder'
<1>1. ASSUME NEW i \in 1 .. Len(callbacks'), Undisturbed(callbacks[i])'
      PROVE  /\ \A j \in 1 .. i - 1 :
                  SameLane(callbacks'[i], callbacks'[j]) => callbacks'[j].id < callbacks'[i].id
             /\ cur' # None /\ SameLane(callbacks'[i], cur') => cur'.id < callbacks'[i].id
  <2>1. i + 1 \in 1 .. Len(callbacks) /\ callbacks'[i] = callbacks[i + 1]
    BY CallbacksPopped
  <2>2. Undisturbed(callbacks[i + 1])
    BY <1>1, <2>1, UndisturbedBefore
  <2>3. ASSUME NEW j \in 1 .. i - 1
        PROVE  j + 1 \in 1 .. (i + 1) - 1 /\ callbacks'[j] = callbacks[j + 1]
    BY <2>1, CallbacksPopped
  <2>4. QED
    BY <2>1, <2>2, <2>3 DEF CallbackOrder
<1>2. QED
  BY <1>1 DEF CallbackOrder

(* A callback that is not run is deleted.                                 *)
LEMMA DropOrdered ==
  ASSUME IInv, HandsMatch, Ordered, [Next]_vars, DropCallback
  PROVE  Ordered'
<1>1. /\ UNCHANGED <<life, queue, hand, wpc, tmp, cur, submitted>>
      /\ callbacks # <<>> /\ callbacks' = Tail(callbacks)
  BY DEF DropCallback, handleVars, workerVars, closeVars, mainVars
<1>2. Executed' \subseteq Executed
  BY <1>1, CallbacksPopped DEF Executed, Elements
<1>3. CallbackOrder'
  BY <1>1, PoppedOrder DEF Ordered
<1>4. ExecutedDistinct'
  BY <1>1, CallbacksPopped DEF Ordered, ExecutedDistinct
<1>5. QED
  BY <1>1, <1>2, <1>3, <1>4, LanesStay DEF Ordered

(* The callback that runs is the first of the queue.                       *)
LEMMA RunOrdered ==
  ASSUME IInv, HandsMatch, Ordered, CurPlace, [Next]_vars, RunCallback
  PROVE  Ordered'
<1>1. /\ UNCHANGED <<life, queue, hand, wpc, tmp, submitted>>
      /\ callbacks # <<>> /\ callbacks' = Tail(callbacks)
      /\ cur = None /\ cur' = Head(callbacks)
  BY DEF RunCallback, RestOfCallbacks, handleVars, workerVars, closeVars, CurPlace
<1>2. cur' = callbacks[1] /\ callbacks[1] \in Query /\ cur' # None
  BY <1>1, CallbacksPopped, NoneAssumption
<1>3. Executed' \subseteq Executed
  BY <1>1, <1>2, CallbacksPopped DEF Executed, Elements
<1>4. CallbackOrder'
  <2>1. ASSUME NEW i \in 1 .. Len(callbacks'), Undisturbed(callbacks[i])'
        PROVE  /\ \A j \in 1 .. i - 1 :
                    SameLane(callbacks'[i], callbacks'[j]) => callbacks'[j].id < callbacks'[i].id
               /\ SameLane(callbacks'[i], cur') => cur'.id < callbacks'[i].id
    <3>1. i + 1 \in 1 .. Len(callbacks) /\ callbacks'[i] = callbacks[i + 1]
      BY <1>1, CallbacksPopped
    <3>2. Undisturbed(callbacks[i + 1])
      BY <2>1, <3>1, UndisturbedBefore
    <3>3. ASSUME NEW j \in 1 .. i - 1
          PROVE  j + 1 \in 1 .. (i + 1) - 1 /\ callbacks'[j] = callbacks[j + 1]
      BY <1>1, <3>1, CallbacksPopped
    <3>4. 1 \in 1 .. (i + 1) - 1
      BY <3>1
    <3>5. QED
      BY <1>2, <3>1, <3>2, <3>3, <3>4 DEF Ordered, CallbackOrder
  <2>2. QED
    BY <2>1 DEF CallbackOrder
<1>5. ExecutedDistinct'
  <2>1. \A i \in 1 .. Len(callbacks') : callbacks'[i].id # cur'.id
    BY <1>1, <1>2, CallbacksPopped DEF Ordered, ExecutedDistinct
  <2>2. \A i \in 1 .. Len(tmp) : tmp[i].id # cur'.id
    BY <1>1, <1>2, CallbacksPopped DEF Ordered, ExecutedDistinct
  <2>3. QED
    BY <1>1, <2>1, <2>2, CallbacksPopped DEF Ordered, ExecutedDistinct
<1>6. QED
  BY <1>1, <1>3, <1>4, <1>5, LanesStay DEF Ordered

(* A callback that returned is deleted.                                    *)
LEMMA ReturnOrdered ==
  ASSUME IInv, HandsMatch, Ordered, [Next]_vars, EndCallback
  PROVE  Ordered'
<1>1. /\ UNCHANGED <<life, queue, hand, wpc, callbacks, tmp, submitted>>
      /\ cur' = None
  BY DEF EndCallback, handleVars, workerVars, closeVars
<1>2. Executed' \subseteq Executed
  BY <1>1 DEF Executed, Elements
<1>3. CallbackOrder'
  BY <1>1, UndisturbedBefore DEF Ordered, CallbackOrder
<1>4. ExecutedDistinct'
  BY <1>1 DEF Ordered, ExecutedDistinct
<1>5. QED
  BY <1>1, <1>2, <1>3, <1>4, LanesStay DEF Ordered

(* The drained lane has no query left to be out of order.                  *)
LEMMA JoinOrdered ==
  ASSUME IInv, HandsMatch, Ordered, [Next]_vars, JoinWorker
  PROVE  Ordered'
<1>1. /\ UNCHANGED <<life, hand, wpc, callbacks, tmp, cur, submitted>>
      /\ queue' = [queue EXCEPT ![<<closing, lane>>] = <<>>]
  BY DEF JoinWorker, Drained
<1>2. \A w \in Workers : queue'[w] = queue[w] \/ queue'[w] = <<>>
  BY <1>1 DEF IInv, TypeOK
<1>3. Executed' = Executed
  BY <1>1 DEF Executed, Elements
<1>4. CallbackOrder'
  BY <1>1, CallbacksStay DEF Ordered
<1>5. ExecutedDistinct'
  BY <1>1 DEF Ordered, ExecutedDistinct
<1>6. QED
  BY <1>1, <1>2, <1>3, <1>4, <1>5, LanesStay DEF Ordered

(* ClearByHandle takes the first callback out, and drops it or keeps it at *)
(* the end of tmp_queue.                                                   *)
LEMMA ClearOrdered ==
  ASSUME IInv, HandsMatch, Ordered, [Next]_vars, ClearPop
  PROVE  Ordered'
<1>1. /\ UNCHANGED <<life, queue, hand, wpc, cur, submitted>>
      /\ callbacks # <<>> /\ callbacks' = Tail(callbacks)
      /\ tmp' \in {tmp, Append(tmp, Head(callbacks))}
  BY DEF ClearPop, handleVars, workerVars, mainVars
<1>2. /\ Len(tmp) \in Nat
      /\ \A i \in 1 .. Len(tmp') :
           \/ i \in 1 .. Len(tmp) /\ tmp'[i] = tmp[i]
           \/ i = Len(tmp) + 1 /\ tmp'[i] = callbacks[1]
  <2>1. tmp \in Seq(Query) /\ Head(callbacks) \in Query /\ Head(callbacks) = callbacks[1]
    BY <1>1, CallbacksPopped DEF IInv, TypeOK
  <2>2. CASE tmp' = tmp
    BY <2>1, <2>2
  <2>3. CASE tmp' = Append(tmp, Head(callbacks))
    BY <2>1, <2>3, AppendedAt
  <2>4. QED
    BY <1>1, <2>2, <2>3
<1>3. Executed' \subseteq Executed
  BY <1>1, <1>2, CallbacksPopped DEF Executed, Elements
<1>4. CallbackOrder'
  BY <1>1, PoppedOrder DEF Ordered
<1>5. ExecutedDistinct'
  <2>1. \A i, j \in 1 .. Len(callbacks') : callbacks'[i].id = callbacks'[j].id => i = j
    BY <1>1, CallbacksPopped DEF Ordered, ExecutedDistinct
  <2>2. \A i, j \in 1 .. Len(tmp') : tmp'[i].id = tmp'[j].id => i = j
    BY <1>1, <1>2, CallbacksPopped DEF Ordered, ExecutedDistinct
  <2>3. \A i \in 1 .. Len(callbacks'), j \in 1 .. Len(tmp') : callbacks'[i].id # tmp'[j].id
    BY <1>1, <1>2, CallbacksPopped DEF Ordered, ExecutedDistinct
  <2>4. cur' # None => /\ \A i \in 1 .. Len(callbacks') : callbacks'[i].id # cur'.id
                       /\ \A i \in 1 .. Len(tmp') : tmp'[i].id # cur'.id
    BY <1>1, <1>2, CallbacksPopped DEF Ordered, ExecutedDistinct
  <2>5. QED
    BY <2>1, <2>2, <2>3, <2>4 DEF ExecutedDistinct
<1>6. QED
  BY <1>1, <1>3, <1>4, <1>5, LanesStay DEF Ordered

(* ClearByHandle puts a callback back, at the end of the queue: it is one  *)
(* of another handle, which the destruction has disturbed.                 *)
LEMMA RestoreOrdered ==
  ASSUME IInv, HandsMatch, Ordered, LivesCounted, [Next]_vars, Restore
  PROVE  Ordered'
<1>1. /\ UNCHANGED <<life, state, queue, hand, wpc, cur, submitted, closing>>
      /\ tmp # <<>> /\ tmp' = Tail(tmp) /\ mpc = "restore"
      /\ callbacks' \in {callbacks, Append(callbacks, Head(tmp))}
  BY DEF Restore, FrontPopped, Pushed, handleVars, workerVars, mainVars
<1>2. /\ \A i \in 1 .. Len(tmp') : i + 1 \in 1 .. Len(tmp) /\ tmp'[i] = tmp[i + 1]
      /\ 1 \in 1 .. Len(tmp) /\ Head(tmp) = tmp[1] /\ tmp[1] \in Query
  BY <1>1, FirstAndRest DEF IInv, TypeOK
<1>3. /\ Len(callbacks) \in Nat
      /\ \A i \in 1 .. Len(callbacks') :
           \/ i \in 1 .. Len(callbacks) /\ callbacks'[i] = callbacks[i]
           \/ i = Len(callbacks) + 1 /\ callbacks'[i] = tmp[1]
  <2>1. callbacks \in Seq(Query) /\ Head(tmp) \in Query /\ Head(tmp) = tmp[1]
    BY <1>2 DEF IInv, TypeOK
  <2>2. CASE callbacks' = callbacks
    BY <2>1, <2>2
  <2>3. CASE callbacks' = Append(callbacks, Head(tmp))
    BY <2>1, <2>3, AppendedAt
  <2>4. QED
    BY <1>1, <2>2, <2>3
<1>4. Executed' \subseteq Executed
  <2>1. ASSUME NEW i \in 1 .. Len(callbacks') PROVE callbacks'[i] \in Executed
    BY <1>2, <1>3, WhereExecuted
  <2>2. ASSUME NEW i \in 1 .. Len(tmp') PROVE tmp'[i] \in Executed
    BY <1>2, WhereExecuted
  <2>3. cur' # None => cur' \in Executed
    BY <1>1, WhereExecuted
  <2>4. ASSUME NEW q, q \in Executed' PROVE q \in Executed
    <3>1. CASE \E i \in 1 .. Len(callbacks') : q = callbacks'[i]
      BY <2>1, <3>1
    <3>2. CASE \E i \in 1 .. Len(tmp') : q = tmp'[i]
      BY <2>2, <3>2
    <3>3. CASE cur' # None /\ q = cur'
      BY <2>3, <3>3
    <3>4. QED
      BY <2>4, <3>1, <3>2, <3>3, WhereExecutedNext
  <2>5. QED
    BY <2>4
<1>5. ~Undisturbed(tmp[1])
  <2>1. closing \in Handles /\ state[closing] = "free" /\ life[closing] # 0
    BY <1>1 DEF IInv, DestroyState, LivesCounted
  <2>2. tmp[1].handle # closing
    BY <1>2 DEF IInv, TmpLive
  <2>3. QED
    BY <2>1, <2>2 DEF Undisturbed
<1>6. CallbackOrder'
  <2>1. ASSUME NEW i \in 1 .. Len(callbacks'), Undisturbed(callbacks[i])'
        PROVE  /\ \A j \in 1 .. i - 1 :
                    SameLane(callbacks'[i], callbacks'[j]) => callbacks'[j].id < callbacks'[i].id
               /\ cur # None /\ SameLane(callbacks'[i], cur) => cur.id < callbacks'[i].id
    <3>1. Undisturbed(callbacks'[i])
      BY <2>1, UndisturbedBefore
    <3>2. i \in 1 .. Len(callbacks) /\ callbacks'[i] = callbacks[i]
      BY <1>3, <1>5, <3>1
    <3>3. \A j \in 1 .. i - 1 : j \in 1 .. Len(callbacks) /\ callbacks'[j] = callbacks[j]
      BY <1>3
    <3>4. QED
      BY <3>1, <3>2, <3>3 DEF Ordered, CallbackOrder
  <2>2. QED
    BY <1>1, <2>1 DEF CallbackOrder
<1>7. ExecutedDistinct'
  <2>1. \A i, j \in 1 .. Len(callbacks') : callbacks'[i].id = callbacks'[j].id => i = j
    BY <1>2, <1>3 DEF Ordered, ExecutedDistinct
  <2>2. \A i, j \in 1 .. Len(tmp') : tmp'[i].id = tmp'[j].id => i = j
    BY <1>1, <1>2 DEF Ordered, ExecutedDistinct
  <2>3. \A i \in 1 .. Len(callbacks'), j \in 1 .. Len(tmp') : callbacks'[i].id # tmp'[j].id
    BY <1>1, <1>2, <1>3 DEF Ordered, ExecutedDistinct
  <2>4. cur' # None => /\ \A i \in 1 .. Len(callbacks') : callbacks'[i].id # cur'.id
                       /\ \A i \in 1 .. Len(tmp') : tmp'[i].id # cur'.id
    BY <1>1, <1>2, <1>3 DEF Ordered, ExecutedDistinct
  <2>5. QED
    BY <2>1, <2>2, <2>3, <2>4 DEF ExecutedDistinct
<1>8. QED
  BY <1>1, <1>4, <1>6, <1>7, LanesStay DEF Ordered

(* Unload empties the callback queue.                                     *)
LEMMA UnloadOrdered ==
  ASSUME IInv, HandsMatch, Ordered, [Next]_vars, UnloadLast
  PROVE  Ordered'
<1>1. /\ UNCHANGED <<life, queue, hand, wpc, tmp, cur, submitted>>
      /\ callbacks' = <<>>
  BY DEF UnloadLast, handleVars, workerVars, closeVars
<1>2. Executed' \subseteq Executed
  BY <1>1 DEF Executed, Elements
<1>3. CallbackOrder'
  BY <1>1 DEF CallbackOrder
<1>4. ExecutedDistinct'
  BY <1>1 DEF Ordered, ExecutedDistinct
<1>5. QED
  BY <1>1, <1>2, <1>3, <1>4, LanesStay DEF Ordered

(* The whole invariant: the first part, the control of the main thread and *)
(* the order of the query objects.                                         *)
OInv ==
  /\ IInv
  /\ HandsMatch /\ CurPlace /\ RequestFits /\ LivesCounted
  /\ Ordered

(* Nothing is out of order when the plugin has been loaded.                *)
LEMMA InitOrdered == Init => OInv
<1> SUFFICES ASSUME Init PROVE OInv
  OBVIOUS
<1>1. HandsMatch /\ CurPlace /\ RequestFits /\ LivesCounted
  BY ConstantsAssumption DEF Init, HandsMatch, CurPlace, RequestFits, LivesCounted
<1>2. Executed = {} /\ Held = {}
  <2>1. Executed = {}
    BY WhereExecuted DEF Init
  <2>2. QED
    BY <2>1, WhereHeld DEF Init
<1>3. LanesOwned /\ QueuesFit /\ LaneSorted
  BY ConstantsAssumption DEF Init, LanesOwned, QueuesFit, LaneSorted
<1>4. IdsKnown /\ ExecutedOlder
  BY <1>2 DEF IdsKnown, ExecutedOlder
<1>5. CallbackOrder /\ ExecutedDistinct
  BY DEF Init, CallbackOrder, ExecutedDistinct
<1>6. QED
  BY <1>1, <1>3, <1>4, <1>5, InitInv DEF OInv, Ordered

(* Every step of the plugin keeps the query objects in order.              *)
LEMMA NextOrdered == OInv /\ [Next]_vars => OInv'
<1> SUFFICES ASSUME OInv, [Next]_vars PROVE OInv'
  OBVIOUS
<1>1. IInv' /\ HandsMatch' /\ CurPlace' /\ RequestFits' /\ LivesCounted'
  BY NextInv, HandsMatchStep, CurPlaceStep, RequestFitsStep, LivesCountedStep DEF OInv
<1>2. Ordered'
  <2>1. CASE Quiet
    BY <2>1, QuietOrdered DEF OInv
  <2>2. CASE PushQuery
    BY <2>2, PushOrdered DEF OInv
  <2>3. ASSUME NEW w \in Workers, WorkerPop(w) \/ WorkerExecute(w) \/ WorkerPost(w)
        PROVE  Ordered'
    BY <2>3, PopOrdered, ExecuteOrdered, PostOrdered DEF OInv
  <2>4. CASE DropCallback \/ RunCallback \/ EndCallback
    BY <2>4, DropOrdered, RunOrdered, ReturnOrdered DEF OInv
  <2>5. CASE JoinWorker \/ ClearPop \/ Restore \/ UnloadLast
    BY <2>5, JoinOrdered, ClearOrdered, RestoreOrdered, UnloadOrdered DEF OInv
  <2>6. IInv
    BY DEF OInv
  <2>7. QED
    BY <2>1, <2>2, <2>3, <2>4, <2>5, <2>6, Moves
<1>3. QED
  BY <1>1, <1>2 DEF OInv

LEMMA AlwaysOrdered == Spec => []OInv
BY InitOrdered, NextOrdered, PTL DEF Spec

(* The queries of a connection are executed in the order in which the      *)
(* natives submitted them, for any number of connections and any capacity  *)
(* of the queues: nothing that waits is older than what has left.          *)
THEOREM QueriesRunInOrder == Spec => []ExecutionOrder
<1>1. OInv => ExecutionOrder
  <2> SUFFICES ASSUME OInv, NEW w \in Workers, NEW i \in 1 .. Len(queue[w])
               PROVE  /\ \A j \in 1 .. i - 1 : queue[w][j].id < queue[w][i].id
                      /\ \A r \in Held \ Elements(queue[w]) :
                           SameLane(queue[w][i], r) => r.id < queue[w][i].id
    BY DEF ExecutionOrder
  <2>1. OfLane(queue[w][i], w)
    BY OwnLane DEF OInv, Ordered
  <2>2. ASSUME NEW j \in 1 .. i - 1 PROVE queue[w][j].id < queue[w][i].id
    <3>1. j \in 1 .. Len(queue[w]) /\ j < i
      BY DEF OInv, IInv, TypeOK
    <3>2. QED
      BY <3>1 DEF OInv, Ordered, LaneSorted
  <2>3. ASSUME NEW r \in Held, r \notin Elements(queue[w]), SameLane(queue[w][i], r)
        PROVE  r.id < queue[w][i].id
    <3>1. OfLane(r, w)
      BY <2>1, <2>3, SameOwner
    <3>2. ASSUME NEW v \in Workers, NEW j \in 1 .. Len(queue[v]), r = queue[v][j] PROVE FALSE
      <4>1. v = w
        BY <3>1, <3>2, OwnLane, OneWorker DEF OInv, Ordered
      <4>2. QED
        BY <2>3, <3>2, <4>1 DEF Elements
    <3>3. ASSUME NEW v \in Workers, wpc[v] \in {"exec", "post"}, r = hand[v]
          PROVE  r.id < queue[w][i].id
      <4>1. v = w
        BY <3>1, <3>3, OwnLane, OneWorker DEF OInv, Ordered
      <4>2. QED
        BY <3>3, <4>1 DEF OInv, Ordered, LaneSorted
    <3>4. CASE r \in Executed
      BY <3>1, <3>4 DEF OInv, Ordered, ExecutedOlder
    <3>5. QED
      BY <2>3, <3>2, <3>3, <3>4, WhereHeld
  <2>4. QED
    BY <2>2, <2>3
<1>2. QED
  BY <1>1, AlwaysOrdered, PTL

(* The callbacks of a connection are delivered in submission order, as     *)
(* long as no other connection has been closed, whatever the workers of    *)
(* the other connections push in between.                                  *)
THEOREM CallbacksComeInOrder == Spec => []CallbackOrder
<1>1. OInv => CallbackOrder
  BY DEF OInv, Ordered
<1>2. QED
  BY <1>1, AlwaysOrdered, PTL

(* Every query object has one holder at a time: no two of the pointers the *)
(* queues, the workers and the main thread keep point to one object.       *)
THEOREM QueriesHaveOneHolder == Spec => []OneHolder
<1>1. OInv => OneHolder
  <2> SUFFICES ASSUME OInv, NEW p \in Places, NEW r \in Places, QueryAt(p).id = QueryAt(r).id
               PROVE  p = r
    BY DEF OneHolder
  <2> DEFINE LaneHolds(s) ==
               \/ \E w \in Workers : \E i \in 1 .. Len(queue[w]) :
                    s = <<"queue", w, i>> /\ QueryAt(s) = queue[w][i]
               \/ \E w \in Workers :
                    s = <<"hand", w, 0>> /\ QueryAt(s) = hand[w] /\ wpc[w] \in {"exec", "post"}
             MainHolds(s) ==
               \/ \E i \in 1 .. Len(callbacks) :
                    s = <<"callbacks", None, i>> /\ QueryAt(s) = callbacks[i]
               \/ \E i \in 1 .. Len(tmp) : s = <<"tmp", None, i>> /\ QueryAt(s) = tmp[i]
               \/ s = <<"cur", None, 0>> /\ QueryAt(s) = cur /\ cur # None
  <2>1. \A s \in Places : LaneHolds(s) \/ MainHolds(s)
    <3>1. \A w \in Workers : hand[w] # None => wpc[w] \in {"exec", "post"}
      BY DEF OInv, IInv, TypeOK, HandsMatch
    <3>2. ASSUME NEW w \in Workers, NEW i \in 1 .. Len(queue[w]), NEW s, s = <<"queue", w, i>>
          PROVE  LaneHolds(s)
      BY <3>2 DEF QueryAt
    <3>3. ASSUME NEW w \in Workers, hand[w] # None, NEW s, s = <<"hand", w, 0>>
          PROVE  LaneHolds(s)
      BY <3>1, <3>3 DEF QueryAt
    <3>4. ASSUME NEW i \in 1 .. Len(callbacks), NEW s, s = <<"callbacks", None, i>>
          PROVE  MainHolds(s)
      BY <3>4 DEF QueryAt
    <3>5. ASSUME NEW i \in 1 .. Len(tmp), NEW s, s = <<"tmp", None, i>>
          PROVE  MainHolds(s)
      BY <3>5 DEF QueryAt
    <3>6. ASSUME cur # None, NEW s, s = <<"cur", None, 0>>
          PROVE  MainHolds(s)
      BY <3>6 DEF QueryAt
    <3>7. ASSUME NEW s \in Places
          PROVE  \/ \E w \in Workers : \E i \in 1 .. Len(queue[w]) : s = <<"queue", w, i>>
                 \/ \E w \in Workers : hand[w] # None /\ s = <<"hand", w, 0>>
                 \/ \E i \in 1 .. Len(callbacks) : s = <<"callbacks", None, i>>
                 \/ \E i \in 1 .. Len(tmp) : s = <<"tmp", None, i>>
                 \/ cur # None /\ s = <<"cur", None, 0>>
      <4>1. s \in QueuePlaces =>
              \E w \in Workers : \E i \in 1 .. Len(queue[w]) : s = <<"queue", w, i>>
        BY DEF QueuePlaces
      <4>2. s \in HandPlaces => \E w \in Workers : hand[w] # None /\ s = <<"hand", w, 0>>
        BY DEF HandPlaces
      <4>3. s \in CallbackPlaces =>
              \E i \in 1 .. Len(callbacks) : s = <<"callbacks", None, i>>
        BY DEF CallbackPlaces
      <4>4. s \in TmpPlaces => \E i \in 1 .. Len(tmp) : s = <<"tmp", None, i>>
        BY DEF TmpPlaces
      <4>5. s \in CurPlaces => cur # None /\ s = <<"cur", None, 0>>
        BY DEF CurPlaces
      <4>6. QED
        BY <3>7, <4>1, <4>2, <4>3, <4>4, <4>5 DEF Places
    <3> HIDE DEF LaneHolds, MainHolds
    <3>8. QED
      BY <3>2, <3>3, <3>4, <3>5, <3>6, <3>7
  <2> HIDE DEF LaneHolds, MainHolds
  <2>2. \A s \in Places : QueryAt(s) \in Held /\ (MainHolds(s) => QueryAt(s) \in Executed)
    BY <2>1, WhereHeld, WhereExecuted DEF LaneHolds, MainHolds
  <2>3. SameLane(QueryAt(p), QueryAt(r)) /\ QueryAt(p).id \in Nat
    BY <2>2, HeldQueries, QueryIds DEF OInv, Ordered, IdsKnown
  <2>4. CASE MainHolds(p) /\ MainHolds(r)
    BY <2>4 DEF MainHolds, OInv, Ordered, ExecutedDistinct
  <2>5. CASE LaneHolds(p) /\ LaneHolds(r)
    <3>1. PICK w \in Workers :
            /\ OfLane(QueryAt(p), w)
            /\ \/ \E i \in 1 .. Len(queue[w]) : p = <<"queue", w, i>> /\ QueryAt(p) = queue[w][i]
               \/ p = <<"hand", w, 0>> /\ QueryAt(p) = hand[w] /\ wpc[w] \in {"exec", "post"}
      BY <2>5, OwnLane DEF LaneHolds, OInv, Ordered
    <3>2. PICK v \in Workers :
            /\ OfLane(QueryAt(r), v)
            /\ \/ \E i \in 1 .. Len(queue[v]) : r = <<"queue", v, i>> /\ QueryAt(r) = queue[v][i]
               \/ r = <<"hand", v, 0>> /\ QueryAt(r) = hand[v] /\ wpc[v] \in {"exec", "post"}
      BY <2>5, OwnLane DEF LaneHolds, OInv, Ordered
    <3>3. v = w
      BY <2>3, <3>1, <3>2, SameOwner, OneWorker
    <3>4. /\ \A i, j \in 1 .. Len(queue[w]) : j < i => queue[w][j].id < queue[w][i].id
          /\ wpc[w] \in {"exec", "post"} =>
               \A i \in 1 .. Len(queue[w]) : hand[w].id < queue[w][i].id
      BY DEF OInv, Ordered, LaneSorted
    <3>5. ASSUME NEW i \in 1 .. Len(queue[w]), NEW j \in 1 .. Len(queue[w]),
                 queue[w][i].id = queue[w][j].id, queue[w][i].id \in Nat
          PROVE  i = j
      <4>1. Len(queue[w]) \in Nat
        BY DEF OInv, IInv, TypeOK
      <4>2. i \in Int /\ j \in Int /\ ~(i < j) /\ ~(j < i)
        BY <3>4, <3>5, <4>1
      <4>3. QED
        BY <4>2
    <3>6. ASSUME NEW i \in 1 .. Len(queue[w]), wpc[w] \in {"exec", "post"},
                 queue[w][i].id = hand[w].id, hand[w].id \in Nat
          PROVE  FALSE
      BY <3>4, <3>6
    <3>7. QED
      BY <2>3, <3>1, <3>2, <3>3, <3>5, <3>6
  <2>6. ASSUME NEW s \in Places, NEW t \in Places, LaneHolds(s), MainHolds(t),
               QueryAt(s).id = QueryAt(t).id
        PROVE  FALSE
    <3>1. PICK w \in Workers :
            /\ OfLane(QueryAt(s), w)
            /\ \/ \E i \in 1 .. Len(queue[w]) : QueryAt(s) = queue[w][i]
               \/ QueryAt(s) = hand[w] /\ wpc[w] \in {"exec", "post"}
      BY <2>6, OwnLane DEF LaneHolds, OInv, Ordered
    <3>2. OfLane(QueryAt(t), w) /\ QueryAt(t) \in Executed
      BY <2>2, <2>6, <3>1, SameOwner DEF OInv, Ordered, IdsKnown
    <3>3. QueryAt(t).id < QueryAt(s).id
      BY <3>1, <3>2 DEF OInv, Ordered, ExecutedOlder
    <3>4. QueryAt(t).id \in Nat
      BY <2>2, HeldQueries, QueryIds DEF OInv
    <3>5. QED
      BY <2>6, <3>3, <3>4
  <2>7. QED
    BY <2>1, <2>4, <2>5, <2>6
<1>2. QED
  BY <1>1, AlwaysOrdered, PTL

(* Two ways to still be in flight after a step.                            *)
LEMMA StillInFlight ==
  ASSUME NEW q
  PROVE  /\ q \in Held' => q.id \in InFlight'
         /\ \A p \in Held' : p.id = q.id => q.id \in InFlight'
BY DEF InFlight, IdsOf

(* The callback queue never holds more than its capacity.                  *)
CallbacksFit == Len(callbacks) =< CallbackCap

LEMMA CallbacksFitStep ==
  ASSUME IInv, CallbacksFit, [Next]_vars
  PROVE  CallbacksFit'
<1>1. callbacks \in Seq(Query) /\ Len(callbacks) \in Nat /\ CallbackCap \in Nat \ {0}
  BY ConstantsAssumption DEF IInv, TypeOK
<1>2. ASSUME NEW q, callbacks' = Pushed(q) PROVE CallbacksFit'
  <2>1. CASE Len(callbacks) < CallbackCap
    <3>1. callbacks' = Append(callbacks, q)
      BY <1>2, <2>1 DEF Pushed
    <3>2. Len(callbacks') = Len(callbacks) + 1
      BY <1>1, <3>1
    <3>3. QED
      BY <1>1, <2>1, <3>2 DEF CallbacksFit
  <2>2. CASE ~(Len(callbacks) < CallbackCap)
    BY <1>2, <2>2 DEF Pushed, CallbacksFit
  <2>3. QED
    BY <2>1, <2>2
<1>3. ASSUME callbacks # <<>>, callbacks' = Tail(callbacks) PROVE CallbacksFit'
  BY <1>1, <1>3, CallbacksPopped DEF CallbacksFit
<1>4. CASE UNCHANGED callbacks \/ callbacks' = <<>>
  BY <1>1, <1>4 DEF CallbacksFit
<1>5. \/ UNCHANGED callbacks \/ callbacks' = <<>>
      \/ \E q : callbacks' = Pushed(q)
      \/ callbacks # <<>> /\ callbacks' = Tail(callbacks)
  <2>1. ASSUME NEW w \in Workers, WorkerPop(w) \/ WorkerExecute(w)
        PROVE  UNCHANGED callbacks
    BY <2>1 DEF WorkerPop, WorkerExecute
  <2>2. ASSUME NEW w \in Workers, WorkerPost(w)
        PROVE  \E q : callbacks' = Pushed(q)
    BY <2>2 DEF WorkerPost
  <2>3. CASE Quiet \/ PushQuery \/ EndCallback \/ JoinWorker \/ UnloadLast
    BY <2>3 DEF Quiet, PushQuery, EndCallback, JoinWorker, UnloadLast
  <2>4. CASE DropCallback \/ RunCallback \/ ClearPop
    BY <2>4 DEF DropCallback, RunCallback, RestOfCallbacks, ClearPop
  <2>5. CASE Restore
    BY <2>5 DEF Restore
  <2>6. QED
    BY <2>1, <2>2, <2>3, <2>4, <2>5, Moves
<1>6. QED
  BY <1>2, <1>3, <1>4, <1>5

(* The queues of the main thread after a push, a pop or nothing: what they *)
(* held they still hold, but for the element popped.                       *)
LEMMA PushedKeeps ==
  ASSUME NEW S, NEW s \in Seq(S), NEW t \in Seq(S), NEW e \in S, t = Append(s, e)
  PROVE  /\ \A i \in 1 .. Len(s) : \E j \in 1 .. Len(t) : t[j] = s[i]
         /\ \E j \in 1 .. Len(t) : t[j] = e
<1>1. Len(t) = Len(s) + 1 /\ Len(s) \in Nat /\ t[Len(s) + 1] = e
      /\ \A i \in 1 .. Len(s) : t[i] = s[i] /\ i \in 1 .. Len(t)
  BY AppendedAt
<1>2. QED
  BY <1>1

LEMMA PoppedKeeps ==
  ASSUME NEW S, NEW s \in Seq(S), s # <<>>
  PROVE  \A i \in 1 .. Len(s) :
           s[i] = Head(s) \/ \E j \in 1 .. Len(Tail(s)) : Tail(s)[j] = s[i]
<1>1. /\ Len(Tail(s)) = Len(s) - 1 /\ Len(s) \in Nat /\ Head(s) = s[1]
      /\ \A j \in 1 .. Len(Tail(s)) : Tail(s)[j] = s[j + 1]
  BY FirstAndRest
<1>2. ASSUME NEW i \in 1 .. Len(s), i # 1
      PROVE  \E j \in 1 .. Len(Tail(s)) : Tail(s)[j] = s[i]
  <2>1. i - 1 \in 1 .. Len(Tail(s)) /\ Tail(s)[i - 1] = s[i]
    BY <1>1, <1>2
  <2>2. QED
    BY <2>1
<1>3. QED
  BY <1>1, <1>2

(* The reasons for which a query may leave without having been called.     *)
MayLeave(q) ==
  \/ ~Registered(q) \/ ~HasPublic(q)
  \/ state[q.handle] # "open"
  \/ PushFails(q)

(* What a worker does to a query keeps it in flight, except for a push to  *)
(* a full queue.                                                           *)
LEMMA WorkerKeeps ==
  ASSUME IInv, Ordered, CallbacksFit, NEW w \in Workers,
         WorkerPop(w) \/ WorkerExecute(w) \/ WorkerPost(w), NEW q \in Held
  PROVE  q.id \in InFlight' \/ MayLeave(q)
<1>1. \A v \in Workers \ {w} :
        UNCHANGED queue[v] /\ UNCHANGED hand[v] /\ UNCHANGED wpc[v]
  BY DEF IInv, TypeOK, WorkerPop, WorkerExecute, WorkerPost
<1>2. CASE \E v \in Workers \ {w} :
             \/ \E i \in 1 .. Len(queue[v]) : q = queue[v][i]
             \/ wpc[v] \in {"exec", "post"} /\ q = hand[v]
  BY <1>1, <1>2, WhereHeldNext, StillInFlight
<1>3. CASE WorkerPop(w)
  <2>1. /\ queue' = [queue EXCEPT ![w] = Tail(queue[w])] /\ queue[w] # <<>>
        /\ hand' = [hand EXCEPT ![w] = Head(queue[w])] /\ wpc[w] = "top"
        /\ wpc' = [wpc EXCEPT ![w] = "exec"] /\ UNCHANGED <<callbacks, tmp, cur>>
    BY <1>3 DEF WorkerPop, Dequeued, closeVars, mainVars
  <2>2. /\ queue'[w] = Tail(queue[w]) /\ hand'[w] = Head(queue[w]) /\ wpc'[w] = "exec"
        /\ queue[w] \in Seq(Query)
    BY <2>1 DEF IInv, TypeOK
  <2>3. CASE q \in Executed
    BY <2>1, <2>3, WhereHeldNext, StillInFlight DEF Executed
  <2>4. ASSUME NEW i \in 1 .. Len(queue[w]), q = queue[w][i] PROVE q \in Held'
    <3>1. q = hand'[w] \/ \E j \in 1 .. Len(queue'[w]) : q = queue'[w][j]
      <4>1. \A k \in 1 .. Len(queue[w]) :
              queue[w][k] = Head(queue[w]) \/ \E j \in 1 .. Len(queue'[w]) : queue'[w][j] = queue[w][k]
        <5>1. queue[w] \in Seq(Query) /\ queue[w] # <<>> /\ queue'[w] = Tail(queue[w])
          BY <2>1, <2>2
        <5>2. \A k \in 1 .. Len(queue[w]) :
                \/ queue[w][k] = Head(queue[w])
                \/ \E j \in 1 .. Len(Tail(queue[w])) : Tail(queue[w])[j] = queue[w][k]
          BY <5>1, PoppedKeeps
        <5>3. QED
          BY <5>1, <5>2
      <4>2. QED
        BY <2>2, <2>4, <4>1
    <3>2. QED
      BY <2>2, <3>1, WhereHeldNext
  <2>5. QED
    BY <1>2, <2>1, <2>3, <2>4, WhereHeld, StillInFlight
<1>4. CASE WorkerExecute(w)
  <2>1. /\ wpc' = [wpc EXCEPT ![w] = "post"] /\ wpc[w] = "exec"
        /\ UNCHANGED <<queue, callbacks, tmp, cur>>
        /\ \E n : hand' = [hand EXCEPT ![w] = WithName(hand[w], n)]
    BY <1>4 DEF WorkerExecute, closeVars, mainVars
  <2>2. hand'[w].id = hand[w].id /\ wpc'[w] = "post"
    BY <2>1, RenamedLane DEF IInv, TypeOK, HandsOwned
  <2>3. CASE q \in Executed \/ \E i \in 1 .. Len(queue[w]) : q = queue[w][i]
    <3>1. q \in Held'
      BY <2>1, <2>3, WhereHeldNext DEF Executed
    <3>2. QED
      BY <3>1, StillInFlight
  <2>4. CASE q = hand[w]
    <3>1. hand'[w] \in Held' /\ hand'[w].id = q.id
      BY <2>2, <2>4, WhereHeldNext
    <3>2. QED
      BY <3>1, StillInFlight
  <2>5. QED
    BY <1>2, <2>3, <2>4, WhereHeld
<1>5. CASE WorkerPost(w)
  <2>1. /\ callbacks' = Pushed(hand[w]) /\ wpc[w] = "post"
        /\ UNCHANGED <<queue, tmp, cur>>
    BY <1>5 DEF WorkerPost, closeVars, mainVars
  <2>2. hand[w] \in Query /\ callbacks \in Seq(Query) /\ Len(callbacks) \in Nat
    BY <2>1 DEF IInv, TypeOK, HandsOwned
  <2>3. CASE Len(callbacks) < CallbackCap
    <3>1. callbacks' = Append(callbacks, hand[w]) /\ callbacks' \in Seq(Query)
      BY <2>1, <2>2, <2>3 DEF Pushed
    <3>2. /\ \A i \in 1 .. Len(callbacks) : \E j \in 1 .. Len(callbacks') : callbacks'[j] = callbacks[i]
          /\ \E j \in 1 .. Len(callbacks') : callbacks'[j] = hand[w]
      BY <2>2, <3>1, PushedKeeps
    <3>3. hand[w] \in Executed' /\ (q \in Executed => q \in Executed')
      BY <2>1, <3>2, WhereExecuted, WhereExecutedNext
    <3>4. CASE q \in Executed \/ q = hand[w] \/ \E i \in 1 .. Len(queue[w]) : q = queue[w][i]
      BY <2>1, <3>3, <3>4, WhereHeldNext, StillInFlight
    <3>5. QED
      BY <1>2, <3>4, WhereHeld
  <2>4. CASE ~(Len(callbacks) < CallbackCap)
    <3>1. callbacks' = callbacks /\ Len(callbacks) = CallbackCap
      BY <2>1, <2>2, <2>4, ConstantsAssumption DEF Pushed, CallbacksFit
    <3>2. CASE q \in Executed \/ \E i \in 1 .. Len(queue[w]) : q = queue[w][i]
      BY <2>1, <3>1, <3>2, WhereHeldNext, StillInFlight DEF Executed
    <3>3. CASE q = hand[w]
      BY <2>1, <3>1, <3>3 DEF MayLeave, PushFails
    <3>4. QED
      BY <1>2, <3>2, <3>3, WhereHeld
  <2>5. QED
    BY <2>3, <2>4
<1>6. QED
  BY <1>3, <1>4, <1>5

(* What the main thread does to the query objects keeps those in flight    *)
(* whose callback has neither returned nor been given up.                  *)
LEMMA MainKeeps ==
  ASSUME OInv, CallbacksFit,
         DropCallback \/ RunCallback \/ EndCallback \/ JoinWorker \/ ClearPop \/ Restore
         \/ UnloadLast, NEW q \in Held
  PROVE  q.id \in InFlight' \/ q = cur \/ MayLeave(q)
<1>1. IInv /\ LanesOwned /\ callbacks \in Seq(Query) /\ tmp \in Seq(Query)
  BY DEF OInv, Ordered, IInv, TypeOK
<1>2. UNCHANGED <<hand, wpc>> /\ (JoinWorker \/ UNCHANGED queue)
  BY DEF DropCallback, RunCallback, EndCallback, JoinWorker, ClearPop, Restore, UnloadLast,
         workerVars
<1>3. CASE \E w \in Workers : wpc[w] \in {"exec", "post"} /\ q = hand[w]
  BY <1>2, <1>3, WhereHeldNext, StillInFlight
<1>4. ASSUME NEW w \in Workers, NEW i \in 1 .. Len(queue[w]), q = queue[w][i]
      PROVE  q.id \in InFlight' \/ state[q.handle] # "open"
  <2>1. CASE queue'[w] = queue[w]
    BY <1>4, <2>1, WhereHeldNext, StillInFlight
  <2>2. CASE queue'[w] # queue[w]
    <3>1. JoinWorker /\ w = <<closing, lane>> /\ w[1] = closing /\ state[closing] = "closing"
      BY <1>1, <1>2, <2>2, WorkerIsPair DEF JoinWorker, IInv, TypeOK, DestroyState
    <3>2. q.handle = w[1]
      BY <1>1, <1>4 DEF IInv, QueuesOwned
    <3>3. QED
      BY <3>1, <3>2
  <2>3. QED
    BY <2>1, <2>2
<1>5. ASSUME q \in Executed PROVE q \in Executed' \/ q = cur \/ MayLeave(q)
  <2>1. CASE JoinWorker
    BY <1>5, <2>1, WhereExecuted, WhereExecutedNext DEF JoinWorker
  <2>2. CASE DropCallback
    <3>1. /\ callbacks # <<>> /\ callbacks' = Tail(callbacks) /\ UNCHANGED <<tmp, cur>>
          /\ ~Runs(Head(callbacks))
      BY <2>2 DEF DropCallback, closeVars, mainVars
    <3>2. q = Head(callbacks) => MayLeave(q)
      BY <3>1 DEF Runs, Expired, Registered, MayLeave
    <3>3. \A i \in 1 .. Len(callbacks) :
            callbacks[i] = Head(callbacks) \/ \E j \in 1 .. Len(callbacks') : callbacks'[j] = callbacks[i]
      BY <1>1, <3>1, PoppedKeeps
    <3>4. QED
      BY <1>5, <3>1, <3>2, <3>3, WhereExecuted, WhereExecutedNext
  <2>3. CASE RunCallback
    <3>1. /\ callbacks # <<>> /\ callbacks' = Tail(callbacks) /\ UNCHANGED tmp
          /\ cur' = Head(callbacks) /\ cur = None
      BY <2>3 DEF RunCallback, RestOfCallbacks, closeVars, OInv, CurPlace
    <3>2. cur' # None
      BY <1>1, <3>1, CallbacksPopped, NoneAssumption
    <3>3. \A i \in 1 .. Len(callbacks) :
            callbacks[i] = Head(callbacks) \/ \E j \in 1 .. Len(callbacks') : callbacks'[j] = callbacks[i]
      BY <1>1, <3>1, PoppedKeeps
    <3>4. QED
      BY <1>5, <3>1, <3>2, <3>3, WhereExecuted, WhereExecutedNext
  <2>4. CASE EndCallback
    BY <1>5, <2>4, WhereExecuted, WhereExecutedNext DEF EndCallback, closeVars
  <2>5. CASE ClearPop
    <3>1. /\ callbacks # <<>> /\ callbacks' = Tail(callbacks) /\ UNCHANGED cur
          /\ tmp' = IF OfClosedHandle(Head(callbacks)) THEN tmp ELSE Append(tmp, Head(callbacks))
          /\ mpc = "clear"
      BY <2>5 DEF ClearPop, mainVars
    <3>2. Head(callbacks) \in Query /\ Head(callbacks) = callbacks[1]
      BY <1>1, <3>1, CallbacksPopped
    <3>3. \A i \in 1 .. Len(callbacks) :
            callbacks[i] = Head(callbacks) \/ \E j \in 1 .. Len(callbacks') : callbacks'[j] = callbacks[i]
      BY <1>1, <3>1, PoppedKeeps
    <3>4. CASE OfClosedHandle(Head(callbacks))
      <4>1. state[closing] = "free"
        BY <1>1, <3>1 DEF IInv, DestroyState
      <4>2. q = Head(callbacks) => MayLeave(q)
        BY <3>4, <4>1 DEF OfClosedHandle, MayLeave
      <4>3. QED
        BY <1>5, <3>1, <3>3, <3>4, <4>2, WhereExecuted, WhereExecutedNext
    <3>5. CASE ~OfClosedHandle(Head(callbacks))
      <4>1. tmp' = Append(tmp, Head(callbacks)) /\ tmp' \in Seq(Query)
        BY <1>1, <3>1, <3>2, <3>5
      <4>2. /\ \A i \in 1 .. Len(tmp) : \E j \in 1 .. Len(tmp') : tmp'[j] = tmp[i]
            /\ \E j \in 1 .. Len(tmp') : tmp'[j] = Head(callbacks)
        BY <1>1, <3>2, <4>1, PushedKeeps
      <4>3. QED
        BY <1>5, <3>1, <3>3, <4>2, WhereExecuted, WhereExecutedNext
    <3>6. QED
      BY <3>4, <3>5
  <2>6. CASE Restore
    <3>1. /\ tmp # <<>> /\ tmp' = Tail(tmp) /\ UNCHANGED cur /\ callbacks' = Pushed(Head(tmp))
          /\ mpc = "restore"
      BY <2>6 DEF Restore, FrontPopped, mainVars
    <3>2. Head(tmp) \in Query /\ Len(callbacks) \in Nat
      BY <1>1, <3>1, FirstAndRest
    <3>3. \A i \in 1 .. Len(tmp) :
            tmp[i] = Head(tmp) \/ \E j \in 1 .. Len(tmp') : tmp'[j] = tmp[i]
      BY <1>1, <3>1, PoppedKeeps
    <3>4. CASE Len(callbacks) < CallbackCap
      <4>1. callbacks' = Append(callbacks, Head(tmp)) /\ callbacks' \in Seq(Query)
        BY <1>1, <3>1, <3>2, <3>4 DEF Pushed
      <4>2. /\ \A i \in 1 .. Len(callbacks) : \E j \in 1 .. Len(callbacks') : callbacks'[j] = callbacks[i]
            /\ \E j \in 1 .. Len(callbacks') : callbacks'[j] = Head(tmp)
        BY <1>1, <3>2, <4>1, PushedKeeps
      <4>3. \A i \in 1 .. Len(callbacks) : callbacks[i] \in Executed'
        BY <4>2, WhereExecutedNext
      <4>4. \A i \in 1 .. Len(tmp) : tmp[i] \in Executed'
        BY <3>3, <4>2, WhereExecutedNext
      <4>5. cur # None => cur \in Executed'
        BY <3>1, WhereExecutedNext
      <4>6. QED
        BY <1>5, <4>3, <4>4, <4>5, WhereExecuted
    <3>5. CASE ~(Len(callbacks) < CallbackCap)
      <4>1. callbacks' = callbacks /\ Len(callbacks) = CallbackCap
        BY <3>1, <3>2, <3>5, ConstantsAssumption DEF Pushed, CallbacksFit
      <4>2. q = Head(tmp) => MayLeave(q)
        BY <3>1, <4>1 DEF MayLeave, PushFails
      <4>3. QED
        BY <1>5, <3>1, <3>3, <4>1, <4>2, WhereExecuted, WhereExecutedNext
    <3>6. QED
      BY <3>4, <3>5
  <2>7. CASE UnloadLast
    <3>1. UNCHANGED <<tmp, cur>> /\ \A h \in Handles : state[h] = "free"
      BY <2>7 DEF UnloadLast, closeVars
    <3>2. q \in Query
      BY <1>1, <1>5, HeldQueries
    <3>3. state[q.handle] # "open"
      BY <3>1, <3>2, QueryFields
    <3>4. QED
      BY <3>3 DEF MayLeave
  <2>8. QED
    BY <2>1, <2>2, <2>3, <2>4, <2>5, <2>6, <2>7
<1>6. q \in Executed' => q.id \in InFlight'
  BY WhereHeldNext, StillInFlight
<1>7. QED
  BY <1>3, <1>4, <1>5, <1>6, WhereHeld DEF MayLeave

(* A query whose connection stays open, whose script stays loaded and      *)
(* whose callback exists leaves the plugin only when the callback has      *)
(* returned or when a push found the callback queue full, whichever step   *)
(* of whichever thread comes next.                                         *)
THEOREM NoCallbackIsLost == Spec => NoCallbackLost
<1>1. ASSUME OInv, CallbacksFit, [Next]_vars, NEW q \in Held
      PROVE  q.id \in InFlight' \/ q = cur \/ MayLeave(q)
  <2>1. IInv /\ Ordered
    BY <1>1 DEF OInv
  <2>2. CASE Quiet
    <3>1. \A w \in Workers : wpc[w] \in {"exec", "post"} => wpc'[w] = wpc[w]
      BY <2>2 DEF Quiet
    <3>2. q \in Executed => q \in Executed'
      BY <2>2, WhereExecuted, WhereExecutedNext DEF Quiet
    <3>3. q \in Held'
      BY <2>2, <3>1, <3>2, WhereHeld, WhereHeldNext DEF Quiet
    <3>4. QED
      BY <3>3, StillInFlight
  <2>3. CASE PushQuery
    <3>1. /\ UNCHANGED <<hand, wpc, callbacks, tmp, cur>> /\ mpc = "push"
          /\ queue' = [queue EXCEPT ![<<req.handle, RequestedLane>>] =
                         Append(queue[<<req.handle, RequestedLane>>], RequestedQuery)]
      BY <2>3 DEF PushQuery, Enqueued, closeVars
    <3>2. <<req.handle, RequestedLane>> \in Workers /\ RequestedQuery \in Query
      BY <2>1, <3>1, RequestedKnown
    <3>3. ASSUME NEW w \in Workers, NEW i \in 1 .. Len(queue[w])
          PROVE  \E j \in 1 .. Len(queue'[w]) : queue'[w][j] = queue[w][i]
      <4>1. queue[w] \in Seq(Query)
        BY <2>1 DEF IInv, TypeOK
      <4>2. CASE w # <<req.handle, RequestedLane>>
        BY <2>1, <3>1, <4>2 DEF IInv, TypeOK
      <4>3. CASE w = <<req.handle, RequestedLane>>
        <5>1. queue'[w] = Append(queue[w], RequestedQuery)
          BY <2>1, <3>1, <3>2, <4>3 DEF IInv, TypeOK
        <5>2. queue'[w] \in Seq(Query)
          BY <3>2, <4>1, <5>1
        <5>3. QED
          BY <3>2, <4>1, <5>1, <5>2, PushedKeeps
      <4>4. QED
        BY <4>2, <4>3
    <3>4. q \in Executed => q \in Executed'
      BY <3>1, WhereExecuted, WhereExecutedNext
    <3>5. q \in Held'
      <4>1. ASSUME NEW w \in Workers, NEW i \in 1 .. Len(queue[w]), q = queue[w][i]
            PROVE  q \in Held'
        BY <3>3, <4>1, WhereHeldNext
      <4>2. ASSUME NEW w \in Workers, wpc[w] \in {"exec", "post"}, q = hand[w]
            PROVE  q \in Held'
        BY <3>1, <4>2, WhereHeldNext
      <4>3. q \in Executed => q \in Held'
        BY <3>4, WhereHeldNext
      <4>4. QED
        BY <4>1, <4>2, <4>3, WhereHeld
    <3>6. QED
      BY <3>5, StillInFlight
  <2>4. ASSUME NEW w \in Workers, WorkerPop(w) \/ WorkerExecute(w) \/ WorkerPost(w)
        PROVE  q.id \in InFlight' \/ MayLeave(q)
    BY <1>1, <2>1, <2>4, WorkerKeeps
  <2>5. CASE \/ DropCallback \/ RunCallback \/ EndCallback \/ JoinWorker \/ ClearPop
             \/ Restore \/ UnloadLast
    BY <1>1, <2>5, MainKeeps
  <2>6. QED
    BY <1>1, <2>1, <2>2, <2>3, <2>4, <2>5, Moves
<1>2. OInv /\ CallbacksFit /\ [Next]_vars =>
        [\A q \in Held :
           \/ q.id \in InFlight'
           \/ q = cur
           \/ ~Registered(q) \/ ~HasPublic(q)
           \/ state[q.handle] # "open"
           \/ PushFails(q)]_vars
  BY <1>1 DEF MayLeave
<1>3. Spec => []CallbacksFit
  <2>1. Init => CallbacksFit
    BY ConstantsAssumption DEF Init, CallbacksFit
  <2>2. OInv /\ CallbacksFit /\ [Next]_vars => CallbacksFit'
    BY CallbacksFitStep DEF OInv
  <2>3. QED
    BY <2>1, <2>2, AlwaysOrdered, PTL DEF Spec
<1>4. QED
  BY <1>2, <1>3, AlwaysOrdered, PTL DEF Spec, NoCallbackLost

(* The steps of the counter, at its ends and in between.                   *)
LEMMA CounterSteps ==
  /\ \A c \in Nat : c + 1 < CounterMod => Increment(c) = c + 1
  /\ Increment(CounterMod - 1) = 0
  /\ \A c \in Nat \ {0} : c < CounterMod => Decrement(c) = c - 1
  /\ Decrement(0) = CounterMod - 1
<1>1. CounterMod \in Nat \ {0}
  BY ConstantsAssumption
<1>2. \A m \in Nat \ {0}, x \in Nat : x < m => x % m = x
  OBVIOUS
<1>3. \A m \in Nat \ {0} : m % m = 0
  OBVIOUS
<1>4. \A m \in Nat \ {0} : (-1) % m = m - 1
  OBVIOUS
<1>5. ASSUME NEW c \in Nat, c + 1 < CounterMod PROVE Increment(c) = c + 1
  <2>1. c + 1 \in Nat
    OBVIOUS
  <2>2. QED
    BY <1>1, <1>2, <1>5, <2>1 DEF Increment
<1>6. Increment(CounterMod - 1) = 0
  <2>1. (CounterMod - 1) + 1 = CounterMod
    BY <1>1
  <2>2. QED
    BY <1>1, <1>3, <2>1 DEF Increment
<1>7. ASSUME NEW c \in Nat \ {0}, c < CounterMod PROVE Decrement(c) = c - 1
  <2>1. c - 1 \in Nat /\ c - 1 < CounterMod
    BY <1>1, <1>7
  <2>2. QED
    BY <1>1, <1>2, <2>1 DEF Decrement
<1>8. Decrement(0) = CounterMod - 1
  <2>1. 0 - 1 = -1
    OBVIOUS
  <2>2. QED
    BY <1>1, <1>4, <2>1 DEF Decrement
<1>9. QED
  BY <1>5, <1>6, <1>7, <1>8

(* The unprocessed queries of a handle, place by place.                    *)
LEMMA WhereUnprocessed ==
  \A h, q : q \in Unprocessed(h) <=>
    /\ q.handle = h
    /\ \/ \E w \in Workers : \E i \in 1 .. Len(queue[w]) : q = queue[w][i]
       \/ \E w \in Workers : wpc[w] = "exec" /\ q = hand[w]
BY DEF Unprocessed, Waiting, InHand, Elements

LEMMA WhereUnprocessedNext ==
  \A h, q : q \in Unprocessed(h)' <=>
    /\ q.handle = h
    /\ \/ \E w \in Workers : \E i \in 1 .. Len(queue'[w]) : q = queue'[w][i]
       \/ \E w \in Workers : wpc'[w] = "exec" /\ q = hand'[w]
BY DEF Unprocessed, Waiting, InHand, Elements

(* A handle has a place in a queue or in a hand for each of them, so the   *)
(* counter is wide enough for all.                                         *)
LEMMA UnprocessedFits ==
  ASSUME IInv, QueuesFit, NEW h \in Handles
  PROVE  /\ IsFiniteSet(Unprocessed(h)) /\ Pending(h) \in Nat
         /\ Pending(h) < CounterMod
         /\ Pending(h) = 0 <=> Unprocessed(h) = {}
<1> DEFINE All == Lanes \X (0 .. QueueCap)
           Taken == {s \in All : \/ s[2] = 0 /\ wpc[<<h, s[1]>>] = "exec"
                                 \/ s[2] \in 1 .. Len(queue[<<h, s[1]>>])}
           f == [s \in Taken |-> IF s[2] = 0 THEN hand[<<h, s[1]>>]
                                 ELSE queue[<<h, s[1]>>][s[2]]]
<1>1. IsFiniteSet(All) /\ Cardinality(All) = (PoolSize + 1) * (QueueCap + 1)
  <2>1. IsFiniteSet(Lanes) /\ Cardinality(Lanes) = PoolSize + 1
    BY ConstantsAssumption, FS_Interval DEF Lanes
  <2>2. IsFiniteSet(0 .. QueueCap) /\ Cardinality(0 .. QueueCap) = QueueCap + 1
    BY ConstantsAssumption, FS_Interval
  <2>3. /\ IsFiniteSet(Lanes \X (0 .. QueueCap))
        /\ Cardinality(Lanes \X (0 .. QueueCap)) = Cardinality(Lanes) * Cardinality(0 .. QueueCap)
    BY ONLY <2>1, <2>2, FS_Product
  <2>4. QED
    BY ONLY <2>1, <2>2, <2>3
<1>2. IsFiniteSet(Taken) /\ Cardinality(Taken) =< Cardinality(All)
  <2>1. Taken \in SUBSET All
    OBVIOUS
  <2>2. QED
    BY <1>1, <2>1, FS_Subset
<1>3. f \in Surjection(Taken, Unprocessed(h))
  <2>1. ASSUME NEW s \in Taken PROVE f[s] \in Unprocessed(h)
    <3>1. <<h, s[1]>> \in Workers /\ <<h, s[1]>>[1] = h
      BY WorkerIsPair
    <3>2. CASE s[2] = 0
      <4>1. wpc[<<h, s[1]>>] = "exec" /\ f[s] = hand[<<h, s[1]>>]
        BY <3>2
      <4>2. f[s].handle = h
        BY <3>1, <4>1 DEF IInv, HandsOwned
      <4>3. QED
        BY <3>1, <4>1, <4>2, WhereUnprocessed
    <3>3. CASE s[2] # 0
      <4>1. s[2] \in 1 .. Len(queue[<<h, s[1]>>]) /\ f[s] = queue[<<h, s[1]>>][s[2]]
        BY <3>3
      <4>2. f[s].handle = h
        BY <3>1, <4>1 DEF IInv, QueuesOwned
      <4>3. QED
        BY <3>1, <4>1, <4>2, WhereUnprocessed
    <3>4. QED
      BY <3>2, <3>3
  <2>2. ASSUME NEW q \in Unprocessed(h) PROVE \E s \in Taken : f[s] = q
    <3>1. CASE \E w \in Workers : wpc[w] = "exec" /\ q = hand[w]
      <4>1. PICK w \in Workers : wpc[w] = "exec" /\ q = hand[w]
        BY <3>1
      <4>2. q.handle = h /\ q.handle = w[1] /\ w = <<h, w[2]>> /\ w[2] \in Lanes
        BY <4>1, WhereUnprocessed, WorkerIsPair DEF IInv, HandsOwned
      <4>3. <<w[2], 0>> \in Taken /\ f[<<w[2], 0>>] = q
        BY <4>1, <4>2, ConstantsAssumption
      <4>4. QED
        BY <4>3
    <3>2. CASE \E w \in Workers : \E i \in 1 .. Len(queue[w]) : q = queue[w][i]
      <4>1. PICK w \in Workers : \E i \in 1 .. Len(queue[w]) : q = queue[w][i]
        BY <3>2
      <4>2. PICK i \in 1 .. Len(queue[w]) : q = queue[w][i]
        BY <4>1
      <4>3. q.handle = h /\ q.handle = w[1] /\ w = <<h, w[2]>> /\ w[2] \in Lanes
        BY <4>2, WhereUnprocessed, WorkerIsPair DEF IInv, QueuesOwned
      <4>4. Len(queue[w]) =< QueueCap /\ Len(queue[w]) \in Nat
        BY DEF QueuesFit, IInv, TypeOK
      <4>5. <<w[2], i>> \in Taken /\ f[<<w[2], i>>] = q
        BY <4>2, <4>3, <4>4, ConstantsAssumption
      <4>6. QED
        BY <4>5
    <3>3. \/ \E w \in Workers : wpc[w] = "exec" /\ q = hand[w]
          \/ \E w \in Workers : \E i \in 1 .. Len(queue[w]) : q = queue[w][i]
      BY WhereUnprocessed
    <3>4. QED
      BY <3>1, <3>2, <3>3
  <2> HIDE DEF Taken
  <2>3. f \in [Taken -> Unprocessed(h)]
    BY <2>1
  <2>4. QED
    BY <2>2, <2>3 DEF Surjection
<1> HIDE DEF f, Taken, All
<1>4. /\ IsFiniteSet(Unprocessed(h))
      /\ Cardinality(Unprocessed(h)) =< Cardinality(Taken)
  BY <1>2, <1>3, FS_Surjection
<1>5. /\ Cardinality(Unprocessed(h)) \in Nat /\ Cardinality(Taken) \in Nat
      /\ Cardinality(All) \in Nat
  BY <1>1, <1>2, <1>4, FS_CardinalityType
<1>6. Cardinality(Unprocessed(h)) = 0 <=> Unprocessed(h) = {}
  BY <1>4, FS_EmptySet
<1>7. Cardinality(Unprocessed(h)) < CounterMod
  BY <1>1, <1>2, <1>4, <1>5, CounterAssumption, ConstantsAssumption
<1>8. QED
  BY <1>4, <1>5, <1>6, <1>7 DEF Pending

(* A query that is queued but not counted yet.                             *)
Uncounted(h) == IF mpc = "count" /\ req.handle = h THEN 1 ELSE 0

(* The counter lags behind by the query not counted yet, and has wrapped   *)
(* if the worker has executed that one already.                            *)
Lagging(h) ==
  counter[h] = IF Pending(h) = 0 /\ Uncounted(h) = 1 THEN CounterMod - 1
               ELSE Pending(h) - Uncounted(h)

Counting == \A h \in Handles : state[h] = "open" => Lagging(h)

(* Only four kinds of step have to do with the counter of an open handle.  *)
LEMMA CountedSteps ==
  ASSUME IInv, [Next]_vars
  PROVE  \/ \E g \in Handles : Connect(g)
         \/ PushQuery \/ CountQuery
         \/ \E w \in Workers : WorkerExecute(w)
         \/ /\ \A h \in Handles : state'[h] = "open" => state[h] = "open"
            /\ UNCHANGED counter
            /\ \/ UNCHANGED <<mpc, req>>
               \/ mpc # "count" /\ mpc' # "count"
<1> USE DEF handleVars, workerVars, scriptVars, closeVars, mainVars
<1> DEFINE Apart == /\ \A h \in Handles : state'[h] = "open" => state[h] = "open"
                    /\ UNCHANGED counter
                    /\ \/ UNCHANGED <<mpc, req>>
                       \/ mpc # "count" /\ mpc' # "count"
<1>1. ASSUME NEW h \in Handles, BeginDestroy(h), mpc # "count" PROVE Apart
  BY <1>1 DEF BeginDestroy, IInv, TypeOK
<1>2. ASSUME Natives, ~\E g \in Handles : Connect(g) PROVE Apart
  BY <1>1, <1>2 DEF Natives, AmxLoad, AmxUnload, CloseHandle, Submit, PawnRuns
<1>3. ASSUME RejectQuery PROVE Apart
  BY <1>3 DEF RejectQuery, Return
<1>4. ASSUME Tick PROVE Apart
  BY <1>4 DEF Tick, StartTick, DropCallback, RunCallback, EndCallback, EndTick
<1>5. ASSUME JoinWorker PROVE Apart
  BY <1>5 DEF JoinWorker, AfterDestroy, IInv, TypeOK
<1>6. ASSUME Closing, ~JoinWorker PROVE Apart
  BY <1>6 DEF Closing, StopWorker, ClearPop, ClearPopped, Restore, Closed, Return
<1>7. ASSUME Unloading PROVE Apart
  BY <1>1, <1>7 DEF Unloading, PluginUnload, UnloadLast, UnloadNext, Unloaded, vars
<1>8. ASSUME NEW w \in Workers, WorkerPop(w) \/ WorkerPost(w) \/ WorkerExit(w) PROVE Apart
  BY <1>8 DEF WorkerPop, WorkerPost, WorkerExit
<1>9. ASSUME UNCHANGED vars PROVE Apart
  BY <1>9 DEF vars
<1>10. QED
  BY <1>2, <1>3, <1>4, <1>5, <1>6, <1>7, <1>8, <1>9 DEF Next, Submitting, Worker

(* Unless one of these steps is taken, the same queries are unprocessed.   *)
LEMMA SameUnprocessed ==
  ASSUME IInv, [Next]_vars, NEW h \in Handles, state[h] = "open", ~PushQuery,
         ~\E w \in Workers : WorkerExecute(w)
  PROVE  Unprocessed(h)' = Unprocessed(h)
<1>1. CASE Quiet
  <2>1. \A w \in Workers : wpc[w] = "exec" <=> wpc'[w] = "exec"
    BY <1>1 DEF Quiet
  <2>2. \A q : q \in Unprocessed(h)' <=> q \in Unprocessed(h)
    BY <1>1, <2>1, WhereUnprocessed, WhereUnprocessedNext DEF Quiet
  <2>3. QED
    BY <2>2
<1>2. ASSUME NEW w \in Workers, WorkerPop(w)
      PROVE  \A q : q \in Unprocessed(h)' <=> q \in Unprocessed(h)
  <2>1. /\ queue' = [queue EXCEPT ![w] = Tail(queue[w])] /\ queue[w] # <<>>
        /\ hand' = [hand EXCEPT ![w] = Head(queue[w])] /\ wpc[w] = "top"
        /\ wpc' = [wpc EXCEPT ![w] = "exec"]
    BY <1>2 DEF WorkerPop, Dequeued
  <2>2. /\ queue'[w] = Tail(queue[w]) /\ hand'[w] = Head(queue[w]) /\ wpc'[w] = "exec"
        /\ \A v \in Workers \ {w} :
             queue'[v] = queue[v] /\ hand'[v] = hand[v] /\ wpc'[v] = wpc[v]
        /\ queue[w] \in Seq(Query)
    BY <2>1 DEF IInv, TypeOK
  <2>3. \A i \in 1 .. Len(queue[w]) :
          queue[w][i] = hand'[w] \/ \E j \in 1 .. Len(queue'[w]) : queue'[w][j] = queue[w][i]
    <3>1. \A i \in 1 .. Len(queue[w]) :
            \/ queue[w][i] = Head(queue[w])
            \/ \E j \in 1 .. Len(Tail(queue[w])) : Tail(queue[w])[j] = queue[w][i]
      BY <2>1, <2>2, PoppedKeeps
    <3>2. QED
      BY <2>2, <3>1
  <2>4. /\ \A j \in 1 .. Len(queue'[w]) :
             j + 1 \in 1 .. Len(queue[w]) /\ queue'[w][j] = queue[w][j + 1]
        /\ hand'[w] = queue[w][1] /\ 1 \in 1 .. Len(queue[w])
    <3>1. /\ \A j \in 1 .. Len(Tail(queue[w])) :
               Tail(queue[w])[j] = queue[w][j + 1] /\ j + 1 \in 1 .. Len(queue[w])
          /\ Head(queue[w]) = queue[w][1] /\ 1 \in 1 .. Len(queue[w])
      BY <2>1, <2>2, FirstAndRest
    <3>2. QED
      BY <2>2, <3>1
  <2>5. ASSUME NEW q, q \in Unprocessed(h)' PROVE q \in Unprocessed(h)
    BY <2>1, <2>2, <2>4, <2>5, WhereUnprocessed, WhereUnprocessedNext
  <2>6. ASSUME NEW q, q \in Unprocessed(h) PROVE q \in Unprocessed(h)'
    BY <2>1, <2>2, <2>3, <2>6, WhereUnprocessed, WhereUnprocessedNext
  <2>7. QED
    BY <2>5, <2>6
<1>3. ASSUME NEW w \in Workers, WorkerPost(w)
      PROVE  \A q : q \in Unprocessed(h)' <=> q \in Unprocessed(h)
  <2>1. /\ UNCHANGED queue /\ wpc[w] = "post" /\ wpc'[w] # "exec"
        /\ \A v \in Workers \ {w} : hand'[v] = hand[v] /\ wpc'[v] = wpc[v]
    BY <1>3 DEF WorkerPost, IInv, TypeOK
  <2>2. QED
    BY <2>1, WhereUnprocessed, WhereUnprocessedNext
<1>4. CASE DropCallback \/ RunCallback \/ EndCallback \/ ClearPop \/ Restore \/ UnloadLast
  <2>1. UNCHANGED <<queue, hand, wpc>>
    BY <1>4 DEF DropCallback, RunCallback, EndCallback, ClearPop, Restore, UnloadLast,
                workerVars
  <2>2. QED
    BY <2>1 DEF Unprocessed, Waiting, InHand, Elements
<1>5. CASE JoinWorker
  <2>1. /\ UNCHANGED <<hand, wpc>> /\ closing # h
        /\ \A w \in Workers : w[1] # closing => queue'[w] = queue[w]
        /\ \A w \in Workers : queue'[w] = queue[w] \/ queue'[w] = <<>>
    BY <1>5, WorkerIsPair DEF JoinWorker, Drained, IInv, TypeOK, DestroyState
  <2>2. \A w \in Workers : \A i \in 1 .. Len(queue[w]) : queue[w][i].handle = w[1]
    BY DEF IInv, QueuesOwned
  <2>3. \A q : q \in Unprocessed(h)' <=> q \in Unprocessed(h)
    BY <2>1, <2>2, WhereUnprocessed, WhereUnprocessedNext
  <2>4. QED
    BY <2>3
<1>6. QED
  <2>1. ASSUME \A q : q \in Unprocessed(h)' <=> q \in Unprocessed(h)
        PROVE  Unprocessed(h)' = Unprocessed(h)
    BY <2>1
  <2>2. QED
    BY <1>1, <1>2, <1>3, <1>4, <1>5, <2>1, Moves

(* The counter's width suffices in every reachable state, and after it.    *)
CounterFits == \A h \in Handles : Pending(h) \in Nat /\ Pending(h) < CounterMod

LEMMA FitsNow == OInv => CounterFits
BY UnprocessedFits DEF OInv, Ordered, CounterFits

LEMMA FitsNext == OInv' => CounterFits'
BY FitsNow, PTL

(* A query is queued: one more that is unprocessed, not counted yet.       *)
LEMMA PushLags ==
  ASSUME OInv, PushQuery, NEW h \in Handles, state[h] = "open", Lagging(h)
  PROVE  Lagging(h)'
<1> DEFINE v == <<req.handle, RequestedLane>>
<1>1. /\ v \in Workers /\ v[1] = req.handle /\ RequestedQuery \in Query
      /\ RequestedQuery.id = submitted + 1 /\ submitted \in Nat
      /\ RequestedQuery.handle = req.handle
  BY RequestedKnown DEF PushQuery, OInv, OfLane
<1>2. /\ UNCHANGED <<hand, wpc, counter, req>> /\ mpc = "push" /\ mpc' = "count"
      /\ queue' = [queue EXCEPT ![v] = Append(queue[v], RequestedQuery)]
      /\ queue \in [Workers -> Seq(Query)]
  BY DEF PushQuery, Enqueued, OInv, IInv, TypeOK
<1> HIDE DEF v
<1>3. /\ \A w \in Workers \ {v} : queue'[w] = queue[w]
      /\ queue'[v] = Append(queue[v], RequestedQuery) /\ queue[v] \in Seq(Query)
  BY <1>1, <1>2
<1>4. IsFiniteSet(Unprocessed(h)) /\ Pending(h) \in Nat /\ Pending(h) < CounterMod
  BY UnprocessedFits DEF OInv, Ordered
<1>5. CASE h # req.handle
  <2>1. \A w \in Workers : \A i \in 1 .. Len(queue'[w]) :
          w # v => queue'[w][i] = queue[w][i] /\ i \in 1 .. Len(queue[w])
    BY <1>3
  <2>2. /\ \A i \in 1 .. Len(queue[v]) : queue[v][i].handle = req.handle
        /\ \A i \in 1 .. Len(queue'[v]) : queue'[v][i].handle = req.handle
    <3>1. \A i \in 1 .. Len(queue[v]) : queue[v][i].handle = req.handle
      BY <1>1 DEF OInv, IInv, QueuesOwned
    <3>2. \A i \in 1 .. Len(Append(queue[v], RequestedQuery)) :
            \/ Append(queue[v], RequestedQuery)[i] = RequestedQuery
            \/ i \in 1 .. Len(queue[v]) /\ Append(queue[v], RequestedQuery)[i] = queue[v][i]
      BY <1>1, <1>3, Appended
    <3>3. QED
      BY <1>1, <1>3, <3>1, <3>2
  <2>3. \A q : q \in Unprocessed(h)' <=> q \in Unprocessed(h)
    BY <1>2, <1>3, <1>5, <2>2, WhereUnprocessed, WhereUnprocessedNext
  <2>4. Unprocessed(h)' = Unprocessed(h)
    BY <2>3
  <2>5. QED
    BY <1>2, <1>5, <2>4 DEF Lagging, Pending, Uncounted
<1>6. CASE h = req.handle
  <2>1. RequestedQuery \notin Unprocessed(h)
    <3>1. ASSUME RequestedQuery \in Unprocessed(h) PROVE FALSE
      <4>1. RequestedQuery \in Held
        BY <3>1, WhereUnprocessed, WhereHeld
      <4>2. QED
        BY <1>1, <4>1 DEF OInv, Ordered, IdsKnown
    <3>2. QED
      BY <3>1
  <2>2. \A q : q \in Unprocessed(h)' <=> q \in Unprocessed(h) \cup {RequestedQuery}
    <3>1. /\ \A i \in 1 .. Len(queue[v]) : \E j \in 1 .. Len(queue'[v]) : queue'[v][j] = queue[v][i]
          /\ \E j \in 1 .. Len(queue'[v]) : queue'[v][j] = RequestedQuery
      <4>1. queue'[v] \in Seq(Query)
        BY <1>1, <1>3
      <4>2. QED
        BY <1>1, <1>3, <4>1, PushedKeeps
    <3>2. \A i \in 1 .. Len(queue'[v]) :
            queue'[v][i] = RequestedQuery \/ \E j \in 1 .. Len(queue[v]) : queue'[v][i] = queue[v][j]
      <4>1. \A i \in 1 .. Len(Append(queue[v], RequestedQuery)) :
              \/ Append(queue[v], RequestedQuery)[i] = RequestedQuery
              \/ i \in 1 .. Len(queue[v]) /\ Append(queue[v], RequestedQuery)[i] = queue[v][i]
        BY <1>1, <1>3, Appended
      <4>2. QED
        BY <1>3, <4>1
    <3>3. ASSUME NEW q, q \in Unprocessed(h)' PROVE q \in Unprocessed(h) \cup {RequestedQuery}
      BY <1>2, <1>3, <3>2, <3>3, WhereUnprocessed, WhereUnprocessedNext
    <3>4. ASSUME NEW q, q \in Unprocessed(h) PROVE q \in Unprocessed(h)'
      BY <1>2, <1>3, <3>1, <3>4, WhereUnprocessed, WhereUnprocessedNext
    <3>5. RequestedQuery \in Unprocessed(h)'
      BY <1>1, <1>6, <3>1, WhereUnprocessedNext
    <3>6. QED
      BY <3>3, <3>4, <3>5
  <2>3. Unprocessed(h)' = Unprocessed(h) \cup {RequestedQuery}
    BY <2>2
  <2>4. Pending(h)' = Pending(h) + 1
    BY <1>4, <2>1, <2>3, FS_AddElement DEF Pending
  <2>5. Uncounted(h) = 0 /\ Uncounted(h)' = 1
    BY <1>2, <1>6 DEF Uncounted
  <2>6. counter[h] = Pending(h)
    BY <1>4, <2>5 DEF Lagging
  <2>7. QED
    BY <1>2, <1>4, <2>4, <2>5, <2>6 DEF Lagging
<1>7. QED
  BY <1>5, <1>6

(* A worker has executed a query: one less, and the counter goes down.     *)
LEMMA ExecuteLags ==
  ASSUME OInv, NEW w \in Workers, WorkerExecute(w), NEW h \in Handles, state[h] = "open",
         Lagging(h)
  PROVE  Lagging(h)'
<1>1. /\ UNCHANGED <<queue, mpc, req>> /\ wpc[w] = "exec" /\ wpc'[w] = "post"
      /\ \A v \in Workers \ {w} : hand'[v] = hand[v] /\ wpc'[v] = wpc[v]
      /\ counter' = [counter EXCEPT ![hand[w].handle] = Decrement(@)]
  BY DEF WorkerExecute, mainVars, OInv, IInv, TypeOK
<1>2. hand[w] \in Query /\ hand[w].handle = w[1]
  BY <1>1 DEF OInv, IInv, HandsOwned
<1>3. IsFiniteSet(Unprocessed(h)) /\ Pending(h) \in Nat /\ Pending(h) < CounterMod
      /\ (Pending(h) = 0 <=> Unprocessed(h) = {})
  BY UnprocessedFits DEF OInv, Ordered
<1>4. Uncounted(h)' = Uncounted(h) /\ Uncounted(h) \in {0, 1}
  BY <1>1 DEF Uncounted
<1>5. \A v \in Workers :
        /\ \A i \in 1 .. Len(queue[v]) : queue[v][i].handle = v[1]
        /\ wpc[v] = "exec" => hand[v].handle = v[1]
  BY DEF OInv, IInv, QueuesOwned, HandsOwned
<1>6. CASE h # w[1]
  <2>1. \A q : q \in Unprocessed(h)' <=> q \in Unprocessed(h)
    BY <1>1, <1>2, <1>6, WhereUnprocessed, WhereUnprocessedNext
  <2>2. Unprocessed(h)' = Unprocessed(h)
    BY <2>1
  <2>3. counter'[h] = counter[h]
    BY <1>1, <1>2, <1>6 DEF OInv, IInv, TypeOK
  <2>4. QED
    BY <1>4, <2>2, <2>3 DEF Lagging, Pending
<1>7. CASE h = w[1]
  <2>1. hand[w] \in Unprocessed(h)
    BY <1>1, <1>2, <1>7, WhereUnprocessed
  <2>2. /\ \A v \in Workers : \A i \in 1 .. Len(queue[v]) : queue[v][i] # hand[w]
        /\ \A v \in Workers \ {w} : wpc[v] = "exec" => hand[v] # hand[w]
    <3>1. LanesOwned /\ LaneSorted /\ IInv
      BY DEF OInv, Ordered
    <3>2. OfLane(hand[w], w)
      BY <1>1, <3>1, OwnLane
    <3>3. ASSUME NEW v \in Workers, NEW i \in 1 .. Len(queue[v]), queue[v][i] = hand[w]
          PROVE  FALSE
      <4>1. OfLane(hand[w], v)
        BY <3>1, <3>3, OwnLane
      <4>2. v = w
        BY <3>2, <4>1, OneWorker
      <4>3. hand[w].id < hand[w].id /\ hand[w].id \in Nat
        BY <1>1, <1>2, <3>1, <3>3, <4>2, QueryIds DEF LaneSorted
      <4>4. QED
        BY <4>3
    <3>4. ASSUME NEW v \in Workers \ {w}, wpc[v] = "exec", hand[v] = hand[w]
          PROVE  FALSE
      <4>1. OfLane(hand[w], v)
        BY <3>1, <3>4, OwnLane
      <4>2. QED
        BY <3>2, <3>4, <4>1, OneWorker
    <3>5. QED
      BY <3>3, <3>4
  <2>3. \A q : q \in Unprocessed(h)' <=> q \in Unprocessed(h) \ {hand[w]}
    <3>1. ASSUME NEW q, q \in Unprocessed(h)' PROVE q \in Unprocessed(h) \ {hand[w]}
      BY <1>1, <2>2, <3>1, WhereUnprocessed, WhereUnprocessedNext
    <3>2. ASSUME NEW q, q \in Unprocessed(h), q # hand[w] PROVE q \in Unprocessed(h)'
      BY <1>1, <3>2, WhereUnprocessed, WhereUnprocessedNext
    <3>3. QED
      BY <3>1, <3>2
  <2>4. Unprocessed(h)' = Unprocessed(h) \ {hand[w]}
    BY <2>3
  <2>5. Pending(h)' = Pending(h) - 1 /\ Pending(h) # 0
    BY <1>3, <2>1, <2>4, FS_RemoveElement DEF Pending
  <2>6. counter[h] = Pending(h) - Uncounted(h) /\ counter'[h] = Decrement(counter[h])
    BY <1>1, <1>2, <1>7, <2>5 DEF Lagging, OInv, IInv, TypeOK
  <2>7. CASE Pending(h) - Uncounted(h) = 0
    <3>1. Pending(h) = 1 /\ Uncounted(h) = 1
      BY <1>3, <1>4, <2>5, <2>7
    <3>2. counter'[h] = CounterMod - 1
      BY <2>6, <2>7, CounterSteps
    <3>3. QED
      BY <1>4, <2>5, <3>1, <3>2 DEF Lagging
  <2>8. CASE Pending(h) - Uncounted(h) # 0
    <3>1. /\ Pending(h) - Uncounted(h) \in Nat \ {0}
          /\ Pending(h) - Uncounted(h) < CounterMod
      BY <1>3, <1>4, <2>5, <2>8, ConstantsAssumption
    <3>2. counter'[h] = (Pending(h) - Uncounted(h)) - 1
      BY <2>6, <3>1, CounterSteps
    <3>3. ~(Pending(h)' = 0 /\ Uncounted(h)' = 1)
      BY <1>3, <1>4, <2>5, <2>8
    <3>4. counter'[h] = Pending(h)' - Uncounted(h)'
      BY <1>3, <1>4, <2>5, <3>2
    <3>5. QED
      BY <3>3, <3>4 DEF Lagging
  <2>9. QED
    BY <2>7, <2>8
<1>8. QED
  BY <1>6, <1>7

(* Every step keeps the counter of every open handle in step.              *)
LEMMA CountingStep ==
  ASSUME OInv, Counting, [Next]_vars
  PROVE  Counting'
<1> SUFFICES ASSUME NEW h \in Handles, state'[h] = "open" PROVE Lagging(h)'
  BY DEF Counting
<1>1. IInv /\ Pending(h) \in Nat /\ Pending(h) < CounterMod /\ CounterMod \in Nat \ {0}
  BY FitsNow, ConstantsAssumption DEF OInv, CounterFits
<1>2. CASE \E g \in Handles : Connect(g)
  <2>1. PICK g \in Handles : Connect(g)
    BY <1>2
  <2>2. /\ state[g] = "free" /\ UNCHANGED <<queue, hand, mpc, req>> /\ mpc \in {"idle", "cb"}
        /\ state' = [state EXCEPT ![g] = "open"]
        /\ counter' = [counter EXCEPT ![g] = 0]
        /\ wpc' = [w \in Workers |-> IF w[1] = g THEN "top" ELSE wpc[w]]
    BY <2>1 DEF Connect, mainVars, PawnRuns
  <2>3. Uncounted(h) = 0 /\ Uncounted(h)' = 0
    BY <2>2 DEF Uncounted
  <2>4. CASE h = g
    <3>1. \A w \in Workers : w[1] = h => queue'[w] = <<>> /\ wpc'[w] = "top"
      BY <1>1, <2>2, <2>4 DEF IInv, FreeIdle
    <3>2. \A w \in Workers :
            /\ \A i \in 1 .. Len(queue'[w]) : queue'[w][i].handle = w[1]
            /\ wpc'[w] = "exec" => hand'[w].handle = w[1]
      BY <1>1, <2>2 DEF IInv, QueuesOwned, HandsOwned
    <3>3. \A q : q \notin Unprocessed(h)'
      BY <3>1, <3>2, WhereUnprocessedNext
    <3>4. Unprocessed(h)' = {}
      BY <3>3
    <3>5. Pending(h)' = 0
      BY <3>4, FS_EmptySet DEF Pending
    <3>6. counter'[h] = 0
      BY <1>1, <2>2, <2>4 DEF IInv, TypeOK
    <3>7. QED
      BY <2>3, <3>5, <3>6 DEF Lagging
  <2>5. CASE h # g
    <3>1. state[h] = "open" /\ counter'[h] = counter[h]
      BY <1>1, <2>2, <2>5 DEF IInv, TypeOK
    <3>2. ~PushQuery /\ ~\E w \in Workers : WorkerExecute(w)
      <4>1. ~PushQuery
        BY <2>2 DEF PushQuery
      <4>2. ASSUME NEW w \in Workers, WorkerExecute(w) PROVE FALSE
        BY <1>1, <2>2, <2>5, <4>2 DEF WorkerExecute, IInv, TypeOK
      <4>3. QED
        BY <4>1, <4>2
    <3>3. Unprocessed(h)' = Unprocessed(h)
      BY <1>1, <3>1, <3>2, SameUnprocessed
    <3>4. QED
      BY <2>3, <3>1, <3>3 DEF Counting, Lagging, Pending
  <2>6. QED
    BY <2>4, <2>5
<1>3. CASE PushQuery
  <2>1. state[h] = "open"
    BY <1>3 DEF PushQuery
  <2>2. QED
    BY <1>3, <2>1, PushLags DEF Counting
<1>4. ASSUME NEW w \in Workers, WorkerExecute(w) PROVE Lagging(h)'
  <2>1. state[h] = "open"
    BY <1>4 DEF WorkerExecute
  <2>2. QED
    BY <1>4, <2>1, ExecuteLags DEF Counting
<1>5. CASE CountQuery
  <2>1. /\ state' = state /\ UNCHANGED <<queue, hand, wpc>> /\ mpc = "count" /\ mpc' # "count"
        /\ counter' = [counter EXCEPT ![req.handle] = Increment(@)] /\ req.handle \in Handles
    BY <1>1, <1>5, RequestFields DEF CountQuery, Return, workerVars, IInv, RequestOpen
  <2>2. Unprocessed(h)' = Unprocessed(h)
    BY <2>1 DEF Unprocessed, Waiting, InHand, Elements
  <2>3. Pending(h)' = Pending(h) /\ Uncounted(h)' = 0 /\ Lagging(h)
    BY <2>1, <2>2 DEF Pending, Uncounted, Counting
  <2>4. CASE h # req.handle
    <3>1. counter'[h] = counter[h] /\ Uncounted(h) = 0
      BY <1>1, <2>1, <2>4 DEF Uncounted, IInv, TypeOK
    <3>2. QED
      BY <2>3, <3>1 DEF Lagging
  <2>5. CASE h = req.handle
    <3>1. counter'[h] = Increment(counter[h]) /\ Uncounted(h) = 1
      BY <1>1, <2>1, <2>5 DEF Uncounted, IInv, TypeOK
    <3>2. CASE Pending(h) = 0
      BY <2>3, <3>1, <3>2, CounterSteps DEF Lagging
    <3>3. CASE Pending(h) # 0
      <4>1. counter[h] = Pending(h) - 1 /\ counter[h] \in Nat /\ counter[h] + 1 = Pending(h)
        BY <1>1, <2>3, <3>1, <3>3 DEF Lagging
      <4>2. counter'[h] = Pending(h)
        BY <1>1, <3>1, <4>1, CounterSteps
      <4>3. QED
        BY <1>1, <2>3, <4>2 DEF Lagging
    <3>4. QED
      BY <3>2, <3>3
  <2>6. QED
    BY <2>4, <2>5
<1>6. CASE /\ ~PushQuery /\ ~\E w \in Workers : WorkerExecute(w)
           /\ \A g \in Handles : state'[g] = "open" => state[g] = "open"
           /\ UNCHANGED counter
           /\ \/ UNCHANGED <<mpc, req>>
              \/ mpc # "count" /\ mpc' # "count"
  <2>1. Unprocessed(h)' = Unprocessed(h)
    BY <1>1, <1>6, SameUnprocessed
  <2>2. Uncounted(h)' = Uncounted(h)
    BY <1>6 DEF Uncounted
  <2>3. QED
    BY <1>6, <2>1, <2>2 DEF Counting, Lagging, Pending
<1>7. QED
  BY <1>1, <1>2, <1>3, <1>4, <1>5, <1>6, CountedSteps

(* mysql_unprocessed_queries is exact whenever Pawn code can call it, for  *)
(* every number of workers that count down and every order of their steps: *)
(* m_QueryCounter is below the number of queries only while the main       *)
(* thread is between the push and the increment.                           *)
THEOREM CounterIsExact == Spec => []CounterExact
<1>1. Init => Counting
  <2>1. Init => \A h \in Handles : state[h] # "open"
    BY DEF Init
  <2>2. QED
    BY <2>1 DEF Counting
<1>2. OInv /\ Counting => CounterExact
  <2> SUFFICES ASSUME OInv, Counting, PawnRuns, NEW h \in Handles, state[h] = "open"
               PROVE  counter[h] = Pending(h)
    BY DEF CounterExact
  <2>1. Uncounted(h) = 0 /\ Pending(h) \in Nat
    BY FitsNow DEF PawnRuns, Uncounted, CounterFits
  <2>2. QED
    BY <2>1 DEF Counting, Lagging
<1>3. QED
  BY <1>1, <1>2, CountingStep, AlwaysOrdered, PTL DEF Spec

---------------------------------------------------------------------------
(***************************************************************************)
(* The pipeline implements QueryLifecycle.  The status of a query is read   *)
(* off the place where it is held; by the invariant there is one such      *)
(* place, so a step that moves a query object is a step of its life, and   *)
(* one that loses some is a cancellation.                                  *)
(***************************************************************************)

IsQueued(id) == At("exec", id) \/ \E w \in Workers : Carries(queue[w], id)
IsExecuted(id) == At("post", id) \/ Carries(callbacks, id) \/ Carries(tmp, id)
IsCalled(id) == cur # None /\ cur.id = id

(* A query is in one stage of its life at most.                            *)
LEMMA OneStage ==
  ASSUME OInv, NEW id \in Nat
  PROVE  /\ IsQueued(id) => ~IsExecuted(id) /\ ~IsCalled(id) /\ id =< submitted
         /\ IsExecuted(id) => ~IsCalled(id) /\ id =< submitted
         /\ IsCalled(id) => id =< submitted
<1>1. IInv /\ LanesOwned /\ IdsKnown /\ LaneSorted /\ ExecutedOlder /\ ExecutedDistinct
      /\ submitted \in Nat
  BY DEF OInv, Ordered, IInv, TypeOK
<1>2. /\ \A q \in Held : q.id \in Nat /\ q.id =< submitted
      /\ Executed \subseteq Held
  BY <1>1, HeldQueries, QueryIds DEF IdsKnown
<1>3. \A q \in Executed : ~IsQueued(q.id)
  <2>1. ASSUME NEW q \in Executed, NEW w \in Workers, NEW r \in Held, OfLane(r, w),
               r.id = q.id
        PROVE  OfLane(q, w)
    <3>1. SameLane(r, q)
      BY <1>1, <1>2, <2>1 DEF IdsKnown
    <3>2. QED
      BY <2>1, <3>1, SameOwner
  <2>2. ASSUME NEW q \in Executed, NEW w \in Workers, wpc[w] = "exec", hand[w].id = q.id
        PROVE  FALSE
    <3>1. hand[w] \in Held /\ OfLane(hand[w], w)
      BY <1>1, <2>2, WhereHeld, OwnLane
    <3>2. OfLane(q, w)
      BY <2>1, <2>2, <3>1
    <3>3. q.id < hand[w].id
      BY <1>1, <2>2, <3>2 DEF ExecutedOlder
    <3>4. QED
      BY <1>2, <2>2, <3>3
  <2>3. ASSUME NEW q \in Executed, NEW w \in Workers, NEW i \in 1 .. Len(queue[w]),
               queue[w][i].id = q.id
        PROVE  FALSE
    <3>1. queue[w][i] \in Held /\ OfLane(queue[w][i], w)
      BY <1>1, <2>3, WhereHeld, OwnLane
    <3>2. OfLane(q, w)
      BY <2>1, <2>3, <3>1
    <3>3. q.id < queue[w][i].id
      BY <1>1, <2>3, <3>2 DEF ExecutedOlder
    <3>4. QED
      BY <1>2, <2>3, <3>3
  <2>4. QED
    BY <2>2, <2>3 DEF IsQueued, At, Carries
<1>4. \A w \in Workers : wpc[w] = "post" => ~IsQueued(hand[w].id)
  <2>1. ASSUME NEW w \in Workers, wpc[w] = "post", NEW v \in Workers, NEW r \in Held,
               OfLane(r, v), r.id = hand[w].id
        PROVE  v = w
    <3>1. hand[w] \in Held /\ OfLane(hand[w], w)
      BY <1>1, <2>1, WhereHeld, OwnLane
    <3>2. SameLane(r, hand[w])
      BY <1>1, <2>1, <3>1 DEF IdsKnown
    <3>3. OfLane(hand[w], v)
      BY <2>1, <3>2, SameOwner
    <3>4. QED
      BY <3>1, <3>3, OneWorker
  <2>2. ASSUME NEW w \in Workers, wpc[w] = "post", NEW v \in Workers, wpc[v] = "exec",
               hand[v].id = hand[w].id
        PROVE  FALSE
    <3>1. hand[v] \in Held /\ OfLane(hand[v], v)
      BY <1>1, <2>2, WhereHeld, OwnLane
    <3>2. QED
      BY <2>1, <2>2, <3>1
  <2>3. ASSUME NEW w \in Workers, wpc[w] = "post", NEW v \in Workers,
               NEW i \in 1 .. Len(queue[v]), queue[v][i].id = hand[w].id
        PROVE  FALSE
    <3>1. queue[v][i] \in Held /\ OfLane(queue[v][i], v)
      BY <1>1, <2>3, WhereHeld, OwnLane
    <3>2. v = w
      BY <2>1, <2>3, <3>1
    <3>3. hand[w].id < queue[w][i].id /\ hand[w] \in Held
      BY <1>1, <2>3, <3>2, WhereHeld DEF LaneSorted
    <3>4. QED
      BY <1>2, <2>3, <3>2, <3>3
  <2>4. QED
    BY <2>2, <2>3 DEF IsQueued, At, Carries
<1>5. ASSUME cur # None PROVE ~IsExecuted(cur.id)
  <2>1. cur \in Executed
    BY <1>5, WhereExecuted
  <2>2. ASSUME NEW w \in Workers, wpc[w] = "post", hand[w].id = cur.id PROVE FALSE
    <3>1. hand[w] \in Held /\ OfLane(hand[w], w)
      BY <1>1, <2>2, WhereHeld, OwnLane
    <3>2. SameLane(hand[w], cur)
      BY <1>1, <1>2, <2>1, <2>2, <3>1 DEF IdsKnown
    <3>3. OfLane(cur, w)
      BY <3>1, <3>2, SameOwner
    <3>4. cur.id < hand[w].id
      BY <1>1, <2>1, <2>2, <3>3 DEF ExecutedOlder
    <3>5. QED
      BY <1>2, <2>1, <2>2, <3>4
  <2>3. ~Carries(callbacks, cur.id) /\ ~Carries(tmp, cur.id)
    BY <1>1, <1>5 DEF ExecutedDistinct, Carries
  <2>4. QED
    BY <2>2, <2>3 DEF IsExecuted, At
<1>6. IsQueued(id) => id =< submitted
  <2>1. IsQueued(id) => \E q \in Held : q.id = id
    BY WhereHeld DEF IsQueued, At, Carries
  <2>2. QED
    BY <1>2, <2>1
<1>7. IsExecuted(id) => ~IsQueued(id) /\ id =< submitted
  <2>1. CASE At("post", id)
    <3>1. PICK w \in Workers : wpc[w] = "post" /\ hand[w].id = id
      BY <2>1 DEF At
    <3>2. hand[w] \in Held
      BY <3>1, WhereHeld
    <3>3. QED
      BY <1>2, <1>4, <3>1, <3>2
  <2>2. CASE Carries(callbacks, id) \/ Carries(tmp, id)
    <3>1. \E q \in Executed : q.id = id
      BY <2>2, WhereExecuted DEF Carries
    <3>2. QED
      BY <1>2, <1>3, <3>1
  <2>3. QED
    BY <2>1, <2>2 DEF IsExecuted
<1>8. IsCalled(id) => ~IsQueued(id) /\ ~IsExecuted(id) /\ id =< submitted
  <2>1. IsCalled(id) => cur \in Executed /\ cur # None /\ cur.id = id
    BY WhereExecuted DEF IsCalled
  <2>2. QED
    BY <1>2, <1>3, <1>5, <2>1
<1>9. QED
  BY <1>6, <1>7, <1>8

(* So its status tells the stage, now and after a step.                    *)
StatusTells ==
  \A id \in Nat :
    /\ IsQueued(id) \/ IsExecuted(id) \/ IsCalled(id) => id =< submitted
    /\ StatusOf(id) = "new" <=> id > submitted
    /\ StatusOf(id) = "queued" <=> IsQueued(id)
    /\ StatusOf(id) = "executed" <=> IsExecuted(id)
    /\ StatusOf(id) = "called" <=> IsCalled(id)
    /\ StatusOf(id) \in {"new", "queued", "executed", "called", "gone"}

LEMMA StatusNow == OInv => StatusTells
<1> SUFFICES ASSUME OInv, NEW id \in Nat
             PROVE  /\ IsQueued(id) \/ IsExecuted(id) \/ IsCalled(id) => id =< submitted
                    /\ StatusOf(id) = "new" <=> id > submitted
                    /\ StatusOf(id) = "queued" <=> IsQueued(id)
                    /\ StatusOf(id) = "executed" <=> IsExecuted(id)
                    /\ StatusOf(id) = "called" <=> IsCalled(id)
                    /\ StatusOf(id) \in {"new", "queued", "executed", "called", "gone"}
  BY DEF StatusTells
<1>1. StatusOf(id) = IF id > submitted THEN "new"
                     ELSE IF IsCalled(id) THEN "called"
                     ELSE IF IsExecuted(id) THEN "executed"
                     ELSE IF IsQueued(id) THEN "queued"
                     ELSE "gone"
  BY DEF StatusOf, IsCalled, IsExecuted, IsQueued
<1>2. submitted \in Nat
  BY DEF OInv, IInv, TypeOK
<1>3. QED
  BY <1>1, <1>2, OneStage

LEMMA StatusNext == OInv' => StatusTells'
BY StatusNow, PTL

(* What the step of one query, and a cancellation, is to QueryLifecycle.   *)
LEMMA OneMoves ==
  ASSUME NEW x \in 1 .. MaxQueries, NEW from, NEW to, StatusOf(x) = from,
         \A id \in 1 .. MaxQueries : StatusOf(id)' = IF id = x THEN to ELSE StatusOf(id)
  PROVE  Lifecycle!Move(x, from, to)
BY DEF Lifecycle!Move

(* A step that adds no query to a stage cancels those it takes out.        *)
LEMMA LossCancels ==
  ASSUME OInv, OInv', UNCHANGED submitted,
         \A id \in Nat : /\ IsQueued(id)' => IsQueued(id)
                         /\ IsExecuted(id)' => IsExecuted(id)
                         /\ IsCalled(id)' <=> IsCalled(id)
  PROVE  Lifecycle!Next
<1> DEFINE S == {id \in 1 .. MaxQueries : StatusOf(id)' # StatusOf(id)}
<1>1. StatusTells /\ StatusTells' /\ submitted \in Nat
  BY StatusNow, StatusNext DEF OInv, IInv, TypeOK
<1>2. \A id \in Nat :
        /\ StatusOf(id) = "new" <=> id > submitted
        /\ StatusOf(id) = "queued" <=> IsQueued(id)
        /\ StatusOf(id) = "executed" <=> IsExecuted(id)
        /\ StatusOf(id) = "called" <=> IsCalled(id)
        /\ StatusOf(id) \in {"new", "queued", "executed", "called", "gone"}
  BY <1>1 DEF StatusTells
<1>3. \A id \in Nat :
        /\ StatusOf(id)' = "new" <=> id > submitted
        /\ StatusOf(id)' = "queued" <=> IsQueued(id)'
        /\ StatusOf(id)' = "executed" <=> IsExecuted(id)'
        /\ StatusOf(id)' = "called" <=> IsCalled(id)'
        /\ StatusOf(id)' \in {"new", "queued", "executed", "called", "gone"}
  BY <1>1 DEF StatusTells
<1>4. ASSUME NEW id \in S
      PROVE  StatusOf(id) \in {"queued", "executed"} /\ StatusOf(id)' = "gone"
  BY <1>2, <1>3
<1>5. S \in SUBSET (1 .. MaxQueries)
  OBVIOUS
<1>6. \A id \in 1 .. MaxQueries : StatusOf(id)' = IF id \in S THEN "gone" ELSE StatusOf(id)
  BY <1>4
<1> HIDE DEF S
<1>7. Lifecycle!Cancel(S)
  BY <1>4, <1>5, <1>6 DEF Lifecycle!Cancel
<1>8. QED
  BY <1>5, <1>7 DEF Lifecycle!Next

(* The stages after a step, place by place.                                *)
LEMMA StagesNext ==
  \A id : /\ IsQueued(id)' <=> \/ \E w \in Workers : wpc'[w] = "exec" /\ hand'[w].id = id
                               \/ \E w \in Workers : \E i \in 1 .. Len(queue'[w]) : queue'[w][i].id = id
          /\ IsExecuted(id)' <=> \/ \E w \in Workers : wpc'[w] = "post" /\ hand'[w].id = id
                                 \/ \E i \in 1 .. Len(callbacks') : callbacks'[i].id = id
                                 \/ \E i \in 1 .. Len(tmp') : tmp'[i].id = id
          /\ IsCalled(id)' <=> cur' # None /\ cur'.id = id
BY DEF IsQueued, IsExecuted, IsCalled, At, Carries

LEMMA StagesNow ==
  \A id : /\ IsQueued(id) <=> \/ \E w \in Workers : wpc[w] = "exec" /\ hand[w].id = id
                              \/ \E w \in Workers : \E i \in 1 .. Len(queue[w]) : queue[w][i].id = id
          /\ IsExecuted(id) <=> \/ \E w \in Workers : wpc[w] = "post" /\ hand[w].id = id
                                \/ \E i \in 1 .. Len(callbacks) : callbacks[i].id = id
                                \/ \E i \in 1 .. Len(tmp) : tmp[i].id = id
          /\ IsCalled(id) <=> cur # None /\ cur.id = id
BY DEF IsQueued, IsExecuted, IsCalled, At, Carries

(* A push to a lane's queue accepts the next query.                        *)
LEMMA PushAccepts ==
  ASSUME OInv, OInv', PushQuery
  PROVE  Lifecycle!Next
<1> DEFINE v == <<req.handle, RequestedLane>>
<1>0. PICK x : x = submitted + 1
  OBVIOUS
<1>1. /\ v \in Workers /\ RequestedQuery \in Query
      /\ RequestedQuery.id = x /\ submitted \in Nat
  BY <1>0, RequestedKnown DEF PushQuery, OInv
<1>2. /\ UNCHANGED <<hand, wpc, callbacks, tmp, cur>> /\ submitted' = x
      /\ queue' = [queue EXCEPT ![v] = Append(queue[v], RequestedQuery)]
      /\ queue \in [Workers -> Seq(Query)]
  BY <1>0 DEF PushQuery, Enqueued, closeVars, OInv, IInv, TypeOK
<1>3. x \in 1 .. MaxQueries
  <2>1. req \in Request /\ req.left \in Nat \ {0} /\ submitted + req.left =< MaxQueries
    BY RequestFields DEF PushQuery, OInv, IInv, RequestOpen, RequestFits
  <2>2. QED
    BY <1>0, <1>1, <2>1, ConstantsAssumption
<1> HIDE DEF v
<1>4. /\ \A w \in Workers \ {v} : queue'[w] = queue[w]
      /\ queue'[v] = Append(queue[v], RequestedQuery) /\ queue[v] \in Seq(Query)
  BY <1>1, <1>2
<1>5. /\ \A i \in 1 .. Len(queue[v]) : \E j \in 1 .. Len(queue'[v]) : queue'[v][j] = queue[v][i]
      /\ \E j \in 1 .. Len(queue'[v]) : queue'[v][j] = RequestedQuery
      /\ \A i \in 1 .. Len(queue'[v]) :
           queue'[v][i] = RequestedQuery \/ \E j \in 1 .. Len(queue[v]) : queue'[v][i] = queue[v][j]
  <2>1. queue'[v] \in Seq(Query)
    BY <1>1, <1>4
  <2>2. /\ \A i \in 1 .. Len(queue[v]) : \E j \in 1 .. Len(queue'[v]) : queue'[v][j] = queue[v][i]
        /\ \E j \in 1 .. Len(queue'[v]) : queue'[v][j] = RequestedQuery
    BY <1>1, <1>4, <2>1, PushedKeeps
  <2>3. \A i \in 1 .. Len(Append(queue[v], RequestedQuery)) :
          \/ Append(queue[v], RequestedQuery)[i] = RequestedQuery
          \/ i \in 1 .. Len(queue[v]) /\ Append(queue[v], RequestedQuery)[i] = queue[v][i]
    BY <1>1, <1>4, Appended
  <2>4. ASSUME NEW i \in 1 .. Len(queue'[v])
        PROVE  queue'[v][i] = RequestedQuery \/ \E j \in 1 .. Len(queue[v]) : queue'[v][i] = queue[v][j]
    <3>1. i \in 1 .. Len(Append(queue[v], RequestedQuery))
      BY <1>4
    <3>2. queue'[v][i] = Append(queue[v], RequestedQuery)[i]
      BY <1>4
    <3>3. QED
      BY <2>3, <3>1, <3>2
  <2>5. QED
    BY <2>2, <2>4
<1>6. \A id \in Nat : /\ IsQueued(id)' <=> IsQueued(id) \/ id = x
                      /\ IsExecuted(id)' <=> IsExecuted(id)
                      /\ IsCalled(id)' <=> IsCalled(id)
  <2>1. ASSUME NEW id \in Nat, IsQueued(id)', id # x PROVE IsQueued(id)
    <3>1. CASE \E w \in Workers : wpc'[w] = "exec" /\ hand'[w].id = id
      BY <1>2, <3>1, StagesNow
    <3>2. ASSUME NEW w \in Workers, NEW i \in 1 .. Len(queue'[w]), queue'[w][i].id = id
          PROVE  \E j \in 1 .. Len(queue[w]) : queue[w][j].id = id
      <4>1. CASE w = v
        BY <1>1, <1>5, <2>1, <3>2, <4>1
      <4>2. CASE w # v
        BY <1>4, <3>2, <4>2
      <4>3. QED
        BY <4>1, <4>2
    <3>3. QED
      BY <2>1, <3>1, <3>2, StagesNow, StagesNext
  <2>2. ASSUME NEW id \in Nat, IsQueued(id) PROVE IsQueued(id)'
    <3>1. CASE \E w \in Workers : wpc[w] = "exec" /\ hand[w].id = id
      BY <1>2, <3>1, StagesNext
    <3>2. ASSUME NEW w \in Workers, NEW i \in 1 .. Len(queue[w]), queue[w][i].id = id
          PROVE  \E j \in 1 .. Len(queue'[w]) : queue'[w][j].id = id
      <4>1. CASE w = v
        BY <1>5, <3>2, <4>1
      <4>2. CASE w # v
        BY <1>4, <3>2, <4>2
      <4>3. QED
        BY <4>1, <4>2
    <3>3. QED
      BY <2>2, <3>1, <3>2, StagesNow, StagesNext
  <2>3. IsQueued(x)'
    BY <1>1, <1>5, StagesNext
  <2>4. QED
    BY <1>2, <2>1, <2>2, <2>3, StagesNow, StagesNext
<1>7. StatusTells /\ StatusTells'
  BY StatusNow, StatusNext
<1>8. /\ StatusOf(x) = "new" /\ StatusOf(x)' = "queued"
      /\ \A id \in 1 .. MaxQueries : id # x => StatusOf(id)' = StatusOf(id)
      /\ \A id \in 1 .. MaxQueries : id < x => StatusOf(id) # "new"
  <2>1. StatusOf(x) = "new" /\ StatusOf(x)' = "queued"
    BY <1>0, <1>1, <1>6, <1>7 DEF StatusTells
  <2>2. \A id \in 1 .. MaxQueries : id < x => StatusOf(id) # "new"
    BY <1>0, <1>1, <1>7 DEF StatusTells
  <2>3. ASSUME NEW id \in 1 .. MaxQueries, id # x PROVE StatusOf(id)' = StatusOf(id)
    <3>1. /\ StatusOf(id) = "new" <=> StatusOf(id)' = "new"
          /\ StatusOf(id) = "queued" <=> StatusOf(id)' = "queued"
          /\ StatusOf(id) = "executed" <=> StatusOf(id)' = "executed"
          /\ StatusOf(id) = "called" <=> StatusOf(id)' = "called"
      BY <1>0, <1>1, <1>2, <1>6, <1>7, <2>3 DEF StatusTells
    <3>2. /\ StatusOf(id) \in {"new", "queued", "executed", "called", "gone"}
          /\ StatusOf(id)' \in {"new", "queued", "executed", "called", "gone"}
      BY <1>7 DEF StatusTells
    <3>3. QED
      BY <3>1, <3>2
  <2>4. QED
    BY <2>1, <2>2, <2>3
<1>9. Lifecycle!Move(x, "new", "queued")
  BY <1>3, <1>8, OneMoves
<1>10. Lifecycle!Accept(x)
  BY <1>3, <1>8, <1>9 DEF Lifecycle!Accept
<1>11. QED
  BY <1>3, <1>10 DEF Lifecycle!Next

(* A query that leaves one stage for another is one move of QueryLifecycle. *)
LEMMA StageMoves ==
  ASSUME OInv, OInv', UNCHANGED submitted, NEW x \in Nat,
         NEW from \in {"queued", "executed", "called"},
         NEW to \in {"executed", "called", "gone"},
         StatusOf(x) = from, StatusOf(x)' = to,
         \A id \in Nat \ {x} : /\ IsQueued(id)' <=> IsQueued(id)
                               /\ IsExecuted(id)' <=> IsExecuted(id)
                               /\ IsCalled(id)' <=> IsCalled(id)
  PROVE  x \in 1 .. MaxQueries /\ Lifecycle!Move(x, from, to)
<1>1. StatusTells /\ StatusTells'
  BY StatusNow, StatusNext
<1>2. submitted \in Nat /\ submitted =< MaxQueries /\ MaxQueries \in Nat
  BY ConstantsAssumption DEF OInv, IInv, TypeOK, RequestFits
<1>3. ASSUME NEW id \in Nat, id # x PROVE StatusOf(id)' = StatusOf(id)
  <2>1. /\ StatusOf(id) = "new" <=> StatusOf(id)' = "new"
        /\ StatusOf(id) = "queued" <=> StatusOf(id)' = "queued"
        /\ StatusOf(id) = "executed" <=> StatusOf(id)' = "executed"
        /\ StatusOf(id) = "called" <=> StatusOf(id)' = "called"
    BY <1>1, <1>3 DEF StatusTells
  <2>2. /\ StatusOf(id) \in {"new", "queued", "executed", "called", "gone"}
        /\ StatusOf(id)' \in {"new", "queued", "executed", "called", "gone"}
    BY <1>1 DEF StatusTells
  <2>3. QED
    BY <2>1, <2>2
<1>4. x # 0
  <2>1. ASSUME x = 0 PROVE FALSE
    <3>1. \/ IsQueued(0) \/ IsExecuted(0) \/ IsCalled(0)
      BY <1>1, <2>1 DEF StatusTells
    <3>2. \E q \in Held : q.id = 0
      BY <3>1, StagesNow, WhereHeld, WhereExecuted
    <3>3. Held \subseteq Query
      BY HeldQueries DEF OInv
    <3>4. QED
      BY <3>2, <3>3, QueryIds
  <2>2. QED
    BY <2>1
<1>5. x =< submitted
  BY <1>1 DEF StatusTells
<1>6. x \in 1 .. MaxQueries
  BY <1>2, <1>4, <1>5
<1>7. QED
  BY <1>3, <1>6, OneMoves

(* The end of an execution is Execute.                                     *)
LEMMA WorkerExecutes ==
  ASSUME OInv, OInv', NEW w \in Workers, WorkerExecute(w)
  PROVE  Lifecycle!Next
<1>1. /\ UNCHANGED <<queue, callbacks, tmp, cur, submitted>>
      /\ wpc[w] = "exec" /\ wpc'[w] = "post" /\ hand[w] \in Query
      /\ \A v \in Workers \ {w} : hand'[v] = hand[v] /\ wpc'[v] = wpc[v]
      /\ \E n : hand'[w] = WithName(hand[w], n)
  BY DEF WorkerExecute, closeVars, mainVars, OInv, IInv, TypeOK, HandsOwned
<1>2. PICK x \in Nat : x = hand[w].id
  BY <1>1, QueryIds
<1>3. hand'[w].id = x
  BY <1>1, <1>2, RenamedLane
<1>4. IsQueued(x) /\ IsExecuted(x)'
  BY <1>1, <1>2, <1>3, StagesNow, StagesNext
<1>5. \A id \in Nat \ {x} : /\ IsQueued(id)' <=> IsQueued(id)
                            /\ IsExecuted(id)' <=> IsExecuted(id)
                            /\ IsCalled(id)' <=> IsCalled(id)
  <2>1. ASSUME NEW id \in Nat \ {x} PROVE IsQueued(id)' <=> IsQueued(id)
    <3>1. \A v \in Workers : wpc'[v] = "exec" /\ hand'[v].id = id <=> wpc[v] = "exec" /\ hand[v].id = id
      BY <1>1, <1>2, <2>1
    <3>2. QED
      BY <1>1, <3>1, StagesNow, StagesNext
  <2>2. ASSUME NEW id \in Nat \ {x} PROVE IsExecuted(id)' <=> IsExecuted(id)
    <3>1. \A v \in Workers : wpc'[v] = "post" /\ hand'[v].id = id <=> wpc[v] = "post" /\ hand[v].id = id
      BY <1>1, <1>3, <2>2
    <3>2. QED
      BY <1>1, <3>1, StagesNow, StagesNext
  <2>3. ASSUME NEW id \in Nat \ {x} PROVE IsCalled(id)' <=> IsCalled(id)
    BY <1>1, StagesNow, StagesNext
  <2>4. QED
    BY <2>1, <2>2, <2>3
<1>6. StatusOf(x) = "queued" /\ StatusOf(x)' = "executed"
  BY <1>4, StatusNow, StatusNext DEF StatusTells
<1>7. x \in 1 .. MaxQueries /\ Lifecycle!Move(x, "queued", "executed")
  BY <1>1, <1>5, <1>6, StageMoves
<1>8. QED
  BY <1>7 DEF Lifecycle!Execute, Lifecycle!Next

(* A callback that ProcessTick enters is Call, and its end is Return.      *)
LEMMA RunCalls ==
  ASSUME OInv, OInv', RunCallback
  PROVE  Lifecycle!Next
<1>1. /\ UNCHANGED <<queue, hand, wpc, tmp, submitted>>
      /\ callbacks # <<>> /\ callbacks' = Tail(callbacks)
      /\ cur' = Head(callbacks) /\ cur = None
  BY DEF RunCallback, RestOfCallbacks, workerVars, closeVars, OInv, CurPlace
<1>2. /\ \A i \in 1 .. Len(callbacks') :
           i + 1 \in 1 .. Len(callbacks) /\ callbacks'[i] = callbacks[i + 1]
      /\ 1 \in 1 .. Len(callbacks) /\ cur' = callbacks[1] /\ callbacks[1] \in Query
      /\ callbacks \in Seq(Query)
  BY <1>1, CallbacksPopped DEF OInv, IInv, TypeOK
<1>3. \A i \in 1 .. Len(callbacks) :
        callbacks[i] = cur' \/ \E j \in 1 .. Len(callbacks') : callbacks'[j] = callbacks[i]
  <2>1. \A i \in 1 .. Len(callbacks) :
          \/ callbacks[i] = Head(callbacks)
          \/ \E j \in 1 .. Len(Tail(callbacks)) : Tail(callbacks)[j] = callbacks[i]
    BY <1>1, <1>2, PoppedKeeps
  <2>2. QED
    BY <1>1, <2>1
<1>4. PICK x \in Nat : x = callbacks[1].id
  BY <1>2, QueryIds
<1>5. IsExecuted(x) /\ IsCalled(x)' /\ cur' # None
  BY <1>2, <1>4, NoneAssumption, StagesNow, StagesNext
<1>6. \A id \in Nat \ {x} : /\ IsQueued(id)' <=> IsQueued(id)
                            /\ IsExecuted(id)' <=> IsExecuted(id)
                            /\ IsCalled(id)' <=> IsCalled(id)
  <2>1. ASSUME NEW id \in Nat \ {x} PROVE IsQueued(id)' <=> IsQueued(id)
    BY <1>1, StagesNow, StagesNext
  <2>2. ASSUME NEW id \in Nat \ {x} PROVE IsExecuted(id)' <=> IsExecuted(id)
    <3>1. (\E i \in 1 .. Len(callbacks') : callbacks'[i].id = id)
          <=> (\E i \in 1 .. Len(callbacks) : callbacks[i].id = id)
      BY <1>2, <1>3, <1>4, <2>2
    <3>2. QED
      BY <1>1, <3>1, StagesNow, StagesNext
  <2>3. ASSUME NEW id \in Nat \ {x} PROVE IsCalled(id)' <=> IsCalled(id)
    BY <1>1, <1>2, <1>4, StagesNow, StagesNext
  <2>4. QED
    BY <2>1, <2>2, <2>3
<1>7. StatusOf(x) = "executed" /\ StatusOf(x)' = "called"
  BY <1>5, StatusNow, StatusNext DEF StatusTells
<1>8. x \in 1 .. MaxQueries /\ Lifecycle!Move(x, "executed", "called")
  BY <1>1, <1>6, <1>7, StageMoves
<1>9. \A other \in 1 .. MaxQueries : StatusOf(other) # "called"
  BY <1>1, StatusNow DEF StatusTells, IsCalled
<1>10. Lifecycle!Call(x)
  BY <1>8, <1>9 DEF Lifecycle!Call
<1>11. QED
  BY <1>8, <1>10 DEF Lifecycle!Next

LEMMA EndReturns ==
  ASSUME OInv, OInv', EndCallback, cur # None
  PROVE  Lifecycle!Next
<1>1. /\ UNCHANGED <<queue, hand, wpc, callbacks, tmp, submitted>> /\ cur' = None
  BY DEF EndCallback, workerVars, closeVars
<1>2. cur \in Query
  BY DEF OInv, IInv, TypeOK
<1>3. PICK x \in Nat : x = cur.id
  BY <1>2, QueryIds
<1>4. \A id \in Nat : /\ IsQueued(id)' <=> IsQueued(id)
                      /\ IsExecuted(id)' <=> IsExecuted(id)
                      /\ IsCalled(id)' = FALSE
  BY <1>1, StagesNow, StagesNext
<1>5. IsCalled(x) /\ \A id \in Nat \ {x} : ~IsCalled(id)
  BY <1>3, StagesNow
<1>6. ~IsQueued(x)' /\ ~IsExecuted(x)' /\ x =< submitted
  BY <1>4, <1>5, OneStage
<1>7. StatusOf(x) = "called" /\ StatusOf(x)' = "gone"
  <2>1. submitted' \in Nat /\ submitted' = submitted
    BY <1>1 DEF OInv, IInv, TypeOK
  <2>2. StatusOf(x) = "called"
    BY <1>5, StatusNow DEF StatusTells
  <2>3. /\ StatusOf(x)' = "new" <=> x > submitted'
        /\ StatusOf(x)' = "queued" <=> IsQueued(x)'
        /\ StatusOf(x)' = "executed" <=> IsExecuted(x)'
        /\ StatusOf(x)' = "called" <=> IsCalled(x)'
        /\ StatusOf(x)' \in {"new", "queued", "executed", "called", "gone"}
    BY StatusNext DEF StatusTells
  <2>4. QED
    BY <1>4, <1>6, <2>1, <2>2, <2>3
<1>8. x \in 1 .. MaxQueries /\ Lifecycle!Move(x, "called", "gone")
  BY <1>1, <1>4, <1>5, <1>7, StageMoves
<1>9. QED
  BY <1>8 DEF Lifecycle!Return, Lifecycle!Next

(* What only moves a query within a stage or deletes it is a cancellation, *)
(* of no query, of one, or of all that waited in a lane.                   *)
LEMMA WorkerLoses ==
  ASSUME OInv, OInv', NEW w \in Workers, WorkerPop(w) \/ WorkerPost(w)
  PROVE  Lifecycle!Next
<1>1. UNCHANGED <<tmp, cur, submitted>>
  BY DEF WorkerPop, WorkerPost, closeVars, mainVars
<1>2. \A v \in Workers \ {w} : queue'[v] = queue[v] /\ hand'[v] = hand[v] /\ wpc'[v] = wpc[v]
  BY DEF WorkerPop, WorkerPost, OInv, IInv, TypeOK
<1>3. queue[w] \in Seq(Query) /\ callbacks \in Seq(Query)
  BY DEF OInv, IInv, TypeOK
<1>4. CASE WorkerPop(w)
  <2>1. /\ queue'[w] = Tail(queue[w]) /\ queue[w] # <<>> /\ UNCHANGED callbacks
        /\ hand'[w] = Head(queue[w]) /\ wpc'[w] = "exec" /\ wpc[w] = "top"
    BY <1>4 DEF WorkerPop, Dequeued, OInv, IInv, TypeOK
  <2>2. /\ \A i \in 1 .. Len(queue'[w]) : i + 1 \in 1 .. Len(queue[w]) /\ queue'[w][i] = queue[w][i + 1]
        /\ hand'[w] = queue[w][1] /\ 1 \in 1 .. Len(queue[w])
    <3>1. /\ \A i \in 1 .. Len(Tail(queue[w])) :
               Tail(queue[w])[i] = queue[w][i + 1] /\ i + 1 \in 1 .. Len(queue[w])
          /\ Head(queue[w]) = queue[w][1] /\ 1 \in 1 .. Len(queue[w])
      BY <1>3, <2>1, FirstAndRest
    <3>2. QED
      BY <2>1, <3>1
  <2>3. ASSUME NEW id \in Nat, IsQueued(id)' PROVE IsQueued(id)
    <3>1. CASE \E v \in Workers : wpc'[v] = "exec" /\ hand'[v].id = id
      <4>1. PICK v \in Workers : wpc'[v] = "exec" /\ hand'[v].id = id
        BY <3>1
      <4>2. CASE v = w
        BY <2>2, <4>1, <4>2, StagesNow
      <4>3. CASE v # w
        BY <1>2, <4>1, <4>3, StagesNow
      <4>4. QED
        BY <4>2, <4>3
    <3>2. CASE \E v \in Workers : \E i \in 1 .. Len(queue'[v]) : queue'[v][i].id = id
      <4>1. PICK v \in Workers : \E i \in 1 .. Len(queue'[v]) : queue'[v][i].id = id
        BY <3>2
      <4>2. CASE v = w
        <5>1. PICK i \in 1 .. Len(queue'[w]) : queue'[w][i].id = id
          BY <4>1, <4>2
        <5>2. i + 1 \in 1 .. Len(queue[w]) /\ queue[w][i + 1].id = id
          BY <2>2, <5>1
        <5>3. QED
          BY <5>2, StagesNow
      <4>3. CASE v # w
        BY <1>2, <4>1, <4>3, StagesNow
      <4>4. QED
        BY <4>2, <4>3
    <3>3. QED
      BY <2>3, <3>1, <3>2, StagesNext
  <2>4. ASSUME NEW id \in Nat PROVE (IsExecuted(id)' => IsExecuted(id)) /\ (IsCalled(id)' <=> IsCalled(id))
    BY <1>1, <1>2, <2>1, StagesNow, StagesNext
  <2>5. QED
    BY <1>1, <2>3, <2>4, LossCancels
<1>5. CASE WorkerPost(w)
  <2>1. /\ UNCHANGED queue /\ callbacks' = Pushed(hand[w]) /\ wpc[w] = "post" /\ wpc'[w] = "top"
        /\ hand[w] \in Query
    BY <1>5 DEF WorkerPost, OInv, IInv, TypeOK, HandsOwned
  <2>2. \A i \in 1 .. Len(callbacks') :
          callbacks'[i] = hand[w] \/ \E j \in 1 .. Len(callbacks) : callbacks'[i] = callbacks[j]
    <3>1. \A i \in 1 .. Len(Append(callbacks, hand[w])) :
            \/ Append(callbacks, hand[w])[i] = hand[w]
            \/ i \in 1 .. Len(callbacks) /\ Append(callbacks, hand[w])[i] = callbacks[i]
      BY <1>3, <2>1, Appended
    <3>2. QED
      BY <2>1, <3>1 DEF Pushed
  <2>3. ASSUME NEW id \in Nat, IsExecuted(id)' PROVE IsExecuted(id)
    <3>1. CASE \E v \in Workers : wpc'[v] = "post" /\ hand'[v].id = id
      BY <1>2, <2>1, <3>1, StagesNow
    <3>2. CASE \E i \in 1 .. Len(callbacks') : callbacks'[i].id = id
      BY <2>1, <2>2, <3>2, StagesNow
    <3>3. CASE \E i \in 1 .. Len(tmp') : tmp'[i].id = id
      BY <1>1, <3>3, StagesNow
    <3>4. QED
      BY <2>3, <3>1, <3>2, <3>3, StagesNext
  <2>4. ASSUME NEW id \in Nat PROVE (IsQueued(id)' => IsQueued(id)) /\ (IsCalled(id)' <=> IsCalled(id))
    BY <1>1, <1>2, <2>1, StagesNow, StagesNext
  <2>5. QED
    BY <1>1, <2>3, <2>4, LossCancels
<1>6. QED
  BY <1>4, <1>5

LEMMA MainLoses ==
  ASSUME OInv, OInv',
         \/ DropCallback \/ (EndCallback /\ cur = None) \/ JoinWorker \/ ClearPop \/ Restore
         \/ UnloadLast
  PROVE  Lifecycle!Next
<1>1. /\ UNCHANGED <<hand, wpc, submitted>> /\ (cur' # None => cur' = cur) /\ (cur # None => cur' = cur)
      /\ callbacks \in Seq(Query) /\ tmp \in Seq(Query)
  BY DEF DropCallback, EndCallback, JoinWorker, ClearPop, Restore, UnloadLast, workerVars,
         mainVars, OInv, IInv, TypeOK
<1>2. \A w \in Workers : queue'[w] = queue[w] \/ queue'[w] = <<>>
  <2>1. CASE JoinWorker
    BY <2>1 DEF JoinWorker, Drained, OInv, IInv, TypeOK
  <2>2. CASE ~JoinWorker
    BY <2>2 DEF DropCallback, EndCallback, ClearPop, Restore, UnloadLast, workerVars
  <2>3. QED
    BY <2>1, <2>2
<1>3. \A i \in 1 .. Len(callbacks') :
        \/ \E j \in 1 .. Len(callbacks) : callbacks'[i] = callbacks[j]
        \/ \E j \in 1 .. Len(tmp) : callbacks'[i] = tmp[j]
  <2>1. CASE callbacks' = callbacks \/ callbacks' = <<>>
    BY <2>1
  <2>2. CASE callbacks # <<>> /\ callbacks' = Tail(callbacks)
    <3>1. \A i \in 1 .. Len(callbacks') : i + 1 \in 1 .. Len(callbacks) /\ callbacks'[i] = callbacks[i + 1]
      BY <2>2, CallbacksPopped DEF OInv
    <3>2. QED
      BY <3>1
  <2>3. CASE tmp # <<>> /\ callbacks' = Append(callbacks, Head(tmp))
    <3>1. Head(tmp) \in Query /\ Head(tmp) = tmp[1] /\ 1 \in 1 .. Len(tmp)
      BY <1>1, <2>3, FirstAndRest
    <3>2. \A i \in 1 .. Len(Append(callbacks, Head(tmp))) :
            \/ Append(callbacks, Head(tmp))[i] = Head(tmp)
            \/ i \in 1 .. Len(callbacks) /\ Append(callbacks, Head(tmp))[i] = callbacks[i]
      BY <1>1, <3>1, Appended
    <3>3. QED
      BY <2>3, <3>1, <3>2
  <2>4. QED
    BY <2>1, <2>2, <2>3
       DEF DropCallback, EndCallback, JoinWorker, ClearPop, Restore, UnloadLast, Pushed
<1>4. \A i \in 1 .. Len(tmp') :
        \/ \E j \in 1 .. Len(callbacks) : tmp'[i] = callbacks[j]
        \/ \E j \in 1 .. Len(tmp) : tmp'[i] = tmp[j]
  <2>1. CASE tmp' = tmp
    BY <2>1
  <2>2. CASE tmp # <<>> /\ tmp' = Tail(tmp)
    <3>1. \A i \in 1 .. Len(Tail(tmp)) : Tail(tmp)[i] = tmp[i + 1] /\ i + 1 \in 1 .. Len(tmp)
      BY <1>1, <2>2, FirstAndRest
    <3>2. QED
      BY <2>2, <3>1
  <2>3. CASE callbacks # <<>> /\ tmp' = Append(tmp, Head(callbacks))
    <3>1. Head(callbacks) \in Query /\ Head(callbacks) = callbacks[1] /\ 1 \in 1 .. Len(callbacks)
      BY <1>1, <2>3, FirstAndRest
    <3>2. \A i \in 1 .. Len(Append(tmp, Head(callbacks))) :
            \/ Append(tmp, Head(callbacks))[i] = Head(callbacks)
            \/ i \in 1 .. Len(tmp) /\ Append(tmp, Head(callbacks))[i] = tmp[i]
      BY <1>1, <3>1, Appended
    <3>3. QED
      BY <2>3, <3>1, <3>2
  <2>4. QED
    BY <2>1, <2>2, <2>3
       DEF DropCallback, EndCallback, JoinWorker, ClearPop, Restore, UnloadLast, FrontPopped,
           closeVars
<1>5. \A id \in Nat : /\ IsQueued(id)' => IsQueued(id)
                      /\ IsExecuted(id)' => IsExecuted(id)
                      /\ IsCalled(id)' <=> IsCalled(id)
  <2>1. ASSUME NEW id \in Nat, IsExecuted(id)' PROVE IsExecuted(id)
    <3>1. CASE \E v \in Workers : wpc'[v] = "post" /\ hand'[v].id = id
      BY <1>1, <3>1, StagesNow
    <3>2. CASE \E i \in 1 .. Len(callbacks') : callbacks'[i].id = id
      BY <1>3, <3>2, StagesNow
    <3>3. CASE \E i \in 1 .. Len(tmp') : tmp'[i].id = id
      BY <1>4, <3>3, StagesNow
    <3>4. QED
      BY <2>1, <3>1, <3>2, <3>3, StagesNext
  <2>2. ASSUME NEW id \in Nat, IsQueued(id)' PROVE IsQueued(id)
    <3>1. \A w \in Workers : \A i \in 1 .. Len(queue'[w]) : queue'[w] = queue[w]
      BY <1>2
    <3>2. QED
      BY <1>1, <2>2, <3>1, StagesNow, StagesNext
  <2>3. ASSUME NEW id \in Nat PROVE IsCalled(id)' <=> IsCalled(id)
    BY <1>1, StagesNow, StagesNext
  <2>4. QED
    BY <2>1, <2>2, <2>3
<1>6. QED
  BY <1>1, <1>5, LossCancels

LEMMA QuietLosesNone ==
  ASSUME OInv, OInv', Quiet
  PROVE  Lifecycle!Next
<1>1. \A w \in Workers : /\ wpc[w] = "exec" <=> wpc'[w] = "exec"
                         /\ wpc[w] = "post" <=> wpc'[w] = "post"
  BY DEF Quiet
<1>2. \A id \in Nat : /\ IsQueued(id)' <=> IsQueued(id)
                      /\ IsExecuted(id)' <=> IsExecuted(id)
                      /\ IsCalled(id)' <=> IsCalled(id)
  BY <1>1, StagesNow, StagesNext DEF Quiet
<1>3. QED
  BY <1>2, LossCancels DEF Quiet

(* The pipeline, with its queues, workers and teardown, implements the     *)
(* life of a query as the scripts may rely on it: executed at most once,   *)
(* called back at most once and after that, never called back inside       *)
(* another callback, and never heard of again once it was given up.        *)
THEOREM PipelineImplementsLifecycle == Spec => ImplementsLifecycle
<1>1. Init => Lifecycle!Init
  <2> SUFFICES ASSUME Init PROVE Lifecycle!Init
    OBVIOUS
  <2>1. \A id \in 1 .. MaxQueries : StatusOf(id) = "new"
    BY DEF Init, StatusOf
  <2>2. QED
    BY <2>1 DEF Lifecycle!Init
<1>2. OInv /\ OInv' /\ [Next]_vars => Lifecycle!Next
  <2> SUFFICES ASSUME OInv, OInv', [Next]_vars PROVE Lifecycle!Next
    OBVIOUS
  <2>1. ASSUME NEW w \in Workers, WorkerPop(w) \/ WorkerExecute(w) \/ WorkerPost(w)
        PROVE  Lifecycle!Next
    BY <2>1, WorkerExecutes, WorkerLoses
  <2>2. CASE Quiet \/ PushQuery \/ RunCallback
    BY <2>2, QuietLosesNone, PushAccepts, RunCalls
  <2>3. CASE DropCallback \/ EndCallback \/ JoinWorker \/ ClearPop \/ Restore \/ UnloadLast
    BY <2>3, MainLoses, EndReturns
  <2>4. IInv
    BY DEF OInv
  <2>5. QED
    BY <2>1, <2>2, <2>3, <2>4, Moves
<1>3. OInv /\ OInv' /\ [Next]_vars =>
        [Lifecycle!Next]_([id \in 1 .. MaxQueries |-> StatusOf(id)])
  BY <1>2
<1>4. QED
  BY <1>1, <1>3, AlwaysOrdered, PTL DEF Spec, ImplementsLifecycle, Lifecycle!Spec

=============================================================================
