---------------------------- MODULE QueryPipeline ----------------------------
(***************************************************************************)
(* The asynchronous query pipeline of the plugin: the path of a threaded   *)
(* query from the native that submits it to the Pawn callback, and the     *)
(* operations that tear this path down while it is in use.                 *)
(*                                                                         *)
(* Threads.  One main thread runs the natives and ProcessTick; each        *)
(* threaded connection (CMySQLConnection) owns a worker thread.  A handle  *)
(* (CMySQLHandle) has the thread connection, lane 0, and PoolSize pool     *)
(* connections, lanes 1..PoolSize.  A worker shares with the main thread   *)
(* the lane's query queue, the handle's query counter, the stop flag and   *)
(* the one callback queue of the plugin.                                   *)
(*                                                                         *)
(* Memory.  A handle is named by its address.  An address is reused: the   *)
(* pair (address, life) names one CMySQLHandle object, and life[h] is the  *)
(* weak token m_Lifetime of the object at h.  A script (AMX) is an address *)
(* with a registration token in the same way.                              *)
(*                                                                         *)
(* Left to other modules: whether a lane is connected to the server (a     *)
(* worker that is not connected takes no query: it stutters at "top"), the *)
(* result objects, and queries bound to an ORM object.                     *)
(***************************************************************************)
EXTENDS Integers, Sequences, FiniteSets

CONSTANTS
  Handles,      \* addresses a CMySQLHandle may be allocated at
  Scripts,      \* addresses a Pawn script (AMX) may be loaded at
  Publics,      \* the pairs <<script, name>> that amx_FindPublic finds
  PoolSize,     \* pool connections of every handle
  QueueCap,     \* capacity of a lane's query queue (16876)
  CallbackCap,  \* capacity of the callback queue (32648)
  CounterMod,   \* 2^w, w the width of m_QueryCounter (32)
  MaxQueries,   \* bound: queries accepted by the queues
  MaxBatch,     \* bound: statements queued by one native call
  MaxLives,     \* bound: objects allocated at one handle address
  MaxTokens,    \* bound: registrations of one script address
  None          \* no query, no request, no handle

Lanes == 0 .. PoolSize
Workers == Handles \X Lanes
Names == {"none", "user", "OnQueryError"}

ASSUME ConstantsAssumption ==
  /\ IsFiniteSet(Handles) /\ IsFiniteSet(Scripts)
  /\ Publics \subseteq (Scripts \X {"user", "OnQueryError"})
  /\ PoolSize \in Nat
  /\ QueueCap \in Nat \ {0} /\ CallbackCap \in Nat \ {0}
  /\ CounterMod \in Nat \ {0}
  /\ MaxQueries \in Nat /\ MaxBatch \in Nat \ {0}
  /\ MaxLives \in Nat /\ MaxTokens \in Nat

(* A handle has at most 65 lanes of 16876 queries and one in a worker's    *)
(* hand: its counter cannot run over.                                      *)
ASSUME CounterAssumption == (PoolSize + 1) * (QueueCap + 1) < CounterMod

(* A query object.  id numbers the accepted queries in submission order    *)
(* (it is history, the code has no such field); (handle, life) and         *)
(* (owner, token) are the raw pointers and the weak tokens it carries.     *)
Query == [id : Nat \ {0}, handle : Handles, life : Nat, lane : Lanes,
          owner : Scripts, token : Nat, name : Names]

(* The native call in progress: `left' statements are still to be queued.  *)
Request == [handle : Handles, pool : BOOLEAN, owner : Scripts, token : Nat,
            name : Names, left : Nat \ {0}]

ASSUME NoneAssumption ==
  /\ None \notin Query /\ None \notin Request /\ None \notin Handles

VARIABLES
  state,      \* [Handles -> {"free", "open", "closing"}]
  life,       \* [Handles -> Nat]: object now, or last, at the address
  counter,    \* [Handles -> 0 .. CounterMod-1]: m_QueryCounter
  poolPos,    \* [Handles -> Lanes]: m_CurrentConPoolPos
  running,    \* [Workers -> BOOLEAN]: m_QueryThreadRunning
  wpc,        \* [Workers -> {"top", "exec", "post", "exited"}]
  queue,      \* [Workers -> Seq(Query)]: m_QueryQueue
  hand,       \* [Workers -> Query or None]: the popped query
  callbacks,  \* Seq(Query): m_CallbackQueue
  loaded,     \* [Scripts -> BOOLEAN]: the script is in m_AmxList
  token,      \* [Scripts -> Nat]: its current, or last, token
  mpc,        \* what the main thread is doing
  cur,        \* the query whose callback is running, or None
  req,        \* the native call in progress, or None
  closing,    \* the handle being destroyed, or None
  lane,       \* the lane whose connection is being destroyed
  tmp,        \* Seq(Query): tmp_queue of CCallback::ClearByHandle
  unloading,  \* Unload() has begun
  submitted   \* number of queries accepted so far

handleVars == <<state, life, counter, poolPos>>
workerVars == <<running, wpc, queue, hand>>
scriptVars == <<loaded, token>>
closeVars  == <<closing, lane, tmp, unloading>>
mainVars   == <<mpc, cur, req, submitted>>
vars == <<handleVars, workerVars, callbacks, scriptVars, closeVars, mainVars>>

MainStates == {"idle", "tick", "cb", "push", "count", "stop", "join",
               "clear", "restore", "unload", "down"}

TypeOK ==
  /\ state \in [Handles -> {"free", "open", "closing"}]
  /\ life \in [Handles -> Nat]
  /\ counter \in [Handles -> 0 .. CounterMod - 1]
  /\ poolPos \in [Handles -> Lanes]
  /\ running \in [Workers -> BOOLEAN]
  /\ wpc \in [Workers -> {"top", "exec", "post", "exited"}]
  /\ queue \in [Workers -> Seq(Query)]
  /\ hand \in [Workers -> Query \cup {None}]
  /\ callbacks \in Seq(Query)
  /\ loaded \in [Scripts -> BOOLEAN]
  /\ token \in [Scripts -> Nat]
  /\ mpc \in MainStates
  /\ cur \in Query \cup {None}
  /\ req \in Request \cup {None}
  /\ closing \in Handles \cup {None}
  /\ lane \in Lanes
  /\ tmp \in Seq(Query)
  /\ unloading \in BOOLEAN
  /\ submitted \in Nat

FirstPoolLane == IF PoolSize = 0 THEN 0 ELSE 1

Init ==
  /\ state = [h \in Handles |-> "free"]
  /\ life = [h \in Handles |-> 0]
  /\ counter = [h \in Handles |-> 0]
  /\ poolPos = [h \in Handles |-> FirstPoolLane]
  /\ running = [w \in Workers |-> FALSE]
  /\ wpc = [w \in Workers |-> "exited"]
  /\ queue = [w \in Workers |-> <<>>]
  /\ hand = [w \in Workers |-> None]
  /\ callbacks = <<>>
  /\ loaded = [s \in Scripts |-> FALSE]
  /\ token = [s \in Scripts |-> 0]
  /\ mpc = "idle"
  /\ cur = None
  /\ req = None
  /\ closing = None
  /\ lane = 0
  /\ tmp = <<>>
  /\ unloading = FALSE
  /\ submitted = 0

(***************************************************************************)
(* The main thread runs Pawn code between ticks ("idle": a timer, another  *)
(* plugin's callback) and inside a callback this plugin runs ("cb").  A    *)
(* native returns to where it was called.                                  *)
(***************************************************************************)
PawnRuns == mpc \in {"idle", "cb"}
Return == mpc' = IF cur = None THEN "idle" ELSE "cb"

(* CCallback::m_AmxList maps an AMX to the token of its registration.      *)
ExpiredByAddress(q) == ~loaded[q.owner]  \* faulty variant: no token
Expired(q) == ~loaded[q.owner] \/ token[q.owner] # q.token

(* m_QueryCounter is an atomic<unsigned int>.                              *)
Increment(c) == (c + 1) % CounterMod
NoDecrement(c) == c          \* faulty variant: a path that does not count down
Decrement(c) == (c - 1) % CounterMod

(* boost::lockfree::queue, fixed_sized: push fails on a full queue.        *)
PushedInFront(q) ==          \* faulty variant: a stack
  IF Len(callbacks) < CallbackCap THEN <<q>> \o callbacks ELSE callbacks
Pushed(q) ==
  IF Len(callbacks) < CallbackCap THEN Append(callbacks, q) ELSE callbacks
PeekedCallbacks == callbacks  \* faulty variant: the query stays in the queue
RestOfCallbacks == Tail(callbacks)

---------------------------------------------------------------------------
(* Scripts come and go.                                                    *)

AmxLoad(s) ==
  /\ PawnRuns
  /\ ~loaded[s]
  /\ token[s] < MaxTokens
  /\ loaded' = [loaded EXCEPT ![s] = TRUE]
  /\ token' = [token EXCEPT ![s] = @ + 1]
  /\ UNCHANGED <<handleVars, workerVars, callbacks, closeVars, mainVars>>

AmxUnload(s) ==
  /\ PawnRuns
  /\ loaded[s]
  /\ loaded' = [loaded EXCEPT ![s] = FALSE]
  /\ UNCHANGED <<token, handleVars, workerVars, callbacks, closeVars, mainVars>>

---------------------------------------------------------------------------
(* mysql_connect: a new handle with its connections and their workers.     *)

Connect(h) ==
  /\ PawnRuns
  /\ state[h] = "free"
  /\ life[h] < MaxLives
  /\ state' = [state EXCEPT ![h] = "open"]
  /\ life' = [life EXCEPT ![h] = @ + 1]
  /\ counter' = [counter EXCEPT ![h] = 0]
  /\ poolPos' = [poolPos EXCEPT ![h] = FirstPoolLane]
  /\ running' = [w \in Workers |-> IF w[1] = h THEN TRUE ELSE running[w]]
  /\ wpc' = [w \in Workers |-> IF w[1] = h THEN "top" ELSE wpc[w]]
  /\ UNCHANGED <<queue, hand, callbacks, scriptVars, closeVars, mainVars>>

---------------------------------------------------------------------------
(* Submitting queries.  mysql_tquery, mysql_stmt_execute and               *)
(* mysql_transaction_commit queue one query on the thread connection,      *)
(* mysql_pquery one on the pool, mysql_tquery_file `n' on the thread       *)
(* connection, of which only the last carries the callback.  The push and  *)
(* the increment of the counter are two steps: the worker may run between. *)

Submit(h, s, pool, name, n) ==
  /\ PawnRuns
  /\ state[h] = "open"
  /\ loaded[s] \/ (cur # None /\ cur.owner = s)
  /\ pool => n = 1
  /\ submitted + n <= MaxQueries
  /\ req' = [handle |-> h, pool |-> pool, owner |-> s,
             token |-> IF loaded[s] THEN token[s] ELSE 0,
             name |-> name, left |-> n]
  /\ mpc' = "push"
  /\ UNCHANGED <<handleVars, workerVars, callbacks, scriptVars, closeVars,
                 cur, submitted>>

RequestedLane == IF req.pool THEN poolPos[req.handle] ELSE 0
RequestedQuery ==
  [id |-> submitted + 1, handle |-> req.handle, life |-> life[req.handle],
   lane |-> RequestedLane, owner |-> req.owner, token |-> req.token,
   name |-> IF req.left = 1 THEN req.name ELSE "none"]

(* *m_CurrentConPoolPos++, wrapping at the end of the pool.                *)
AdvancePool ==
  poolPos' = IF req.pool /\ PoolSize > 0
             THEN [poolPos EXCEPT ![req.handle] =
                     IF @ = PoolSize THEN FirstPoolLane ELSE @ + 1]
             ELSE poolPos

Accepts(w) == Len(queue[w]) < QueueCap
EnqueuedInFront(w) == <<RequestedQuery>> \o queue[w]  \* faulty variant: a stack
Enqueued(w) == Append(queue[w], RequestedQuery)

PushQuery ==
  /\ mpc = "push"
  /\ LET w == <<req.handle, RequestedLane>> IN
     /\ ~(req.pool /\ PoolSize = 0)
     /\ Accepts(w)
     /\ queue' = [queue EXCEPT ![w] = Enqueued(w)]
  /\ AdvancePool
  /\ submitted' = submitted + 1
  /\ mpc' = "count"
  /\ UNCHANGED <<state, life, counter, running, wpc, hand, callbacks,
                 scriptVars, closeVars, cur, req>>

(* The pool is empty or the queue is full: the query is deleted and the    *)
(* native returns 0; what mysql_tquery_file queued before stays queued.    *)
RejectQuery ==
  /\ mpc = "push"
  /\ (req.pool /\ PoolSize = 0) \/ ~Accepts(<<req.handle, RequestedLane>>)
  /\ AdvancePool
  /\ req' = None
  /\ Return
  /\ UNCHANGED <<state, life, counter, workerVars, callbacks, scriptVars,
                 closeVars, cur, submitted>>

OneQueued(r) == [r EXCEPT !.left = @ - 1]

CountQuery ==
  /\ mpc = "count"
  /\ counter' = [counter EXCEPT ![req.handle] = Increment(@)]
  /\ IF req.left = 1
     THEN /\ req' = None
          /\ Return
     ELSE /\ req' = OneQueued(req)
          /\ mpc' = "push"
  /\ UNCHANGED <<state, life, poolPos, workerVars, callbacks, scriptVars,
                 closeVars, cur, submitted>>

---------------------------------------------------------------------------
(* The worker of a lane.                                                   *)

PeekedOnly(w) == queue[w]  \* faulty variant: the query stays in the queue
Dequeued(w) == Tail(queue[w])

WorkerPop(w) ==
  /\ wpc[w] = "top"
  /\ running[w]
  /\ queue[w] # <<>>
  /\ hand' = [hand EXCEPT ![w] = Head(queue[w])]
  /\ queue' = [queue EXCEPT ![w] = Dequeued(w)]
  /\ wpc' = [wpc EXCEPT ![w] = "exec"]
  /\ UNCHANGED <<handleVars, running, callbacks, scriptVars, closeVars, mainVars>>

WithName(q, n) == [q EXCEPT !.name = n]

(* The query succeeds and keeps its callback, or fails and is redirected   *)
(* to OnQueryError, or its result cannot be stored and it loses the name.  *)
(* Both the error path and the counter dereference query->Handle.          *)
WorkerExecute(w) ==
  /\ wpc[w] = "exec"
  /\ \E n \in {hand[w].name, "OnQueryError", "none"} :
        hand' = [hand EXCEPT ![w] = WithName(hand[w], n)]
  /\ counter' = [counter EXCEPT ![hand[w].handle] = Decrement(@)]
  /\ wpc' = [wpc EXCEPT ![w] = "post"]
  /\ UNCHANGED <<state, life, poolPos, running, queue, callbacks, scriptVars,
                 closeVars, mainVars>>

(* CCallback::QueueQuery; a query that finds the queue full is deleted.    *)
WorkerPost(w) ==
  /\ wpc[w] = "post"
  /\ callbacks' = Pushed(hand[w])
  /\ hand' = [hand EXCEPT ![w] = None]
  /\ wpc' = [wpc EXCEPT ![w] = "top"]
  /\ UNCHANGED <<handleVars, running, queue, scriptVars, closeVars, mainVars>>

StoppedAndDrained(w) == ~running[w] /\ queue[w] = <<>>  \* faulty variant
Stopped(w) == ~running[w]

WorkerExit(w) ==
  /\ wpc[w] = "top"
  /\ Stopped(w)
  /\ wpc' = [wpc EXCEPT ![w] = "exited"]
  /\ UNCHANGED <<handleVars, running, queue, hand, callbacks, scriptVars,
                 closeVars, mainVars>>

---------------------------------------------------------------------------
(* ProcessTick: pop and treat callbacks until the queue is empty.          *)

StartTick ==
  /\ mpc = "idle"
  /\ mpc' = "tick"
  /\ UNCHANGED <<handleVars, workerVars, callbacks, scriptVars, closeVars,
                 cur, req, submitted>>

HasPublic(q) == <<q.owner, q.name>> \in Publics
Runs(q) == ~Expired(q) /\ HasPublic(q)

(* Owner gone, no callback name, or no such public: the query is deleted.  *)
DropCallback ==
  /\ mpc = "tick"
  /\ callbacks # <<>>
  /\ ~Runs(Head(callbacks))
  /\ callbacks' = Tail(callbacks)
  /\ UNCHANGED <<handleVars, workerVars, scriptVars, closeVars, mainVars>>

(* amx_Exec enters the script, after SetActiveResult on query->Handle.     *)
RunCallback ==
  /\ mpc = "tick"
  /\ callbacks # <<>>
  /\ Runs(Head(callbacks))
  /\ cur' = Head(callbacks)
  /\ callbacks' = RestOfCallbacks
  /\ mpc' = "cb"
  /\ UNCHANGED <<handleVars, workerVars, scriptVars, closeVars, req, submitted>>

EndCallback ==
  /\ mpc = "cb"
  /\ cur' = None
  /\ mpc' = "tick"
  /\ UNCHANGED <<handleVars, workerVars, callbacks, scriptVars, closeVars,
                 req, submitted>>

EndTick ==
  /\ mpc = "tick"
  /\ callbacks = <<>>
  /\ mpc' = "idle"
  /\ UNCHANGED <<handleVars, workerVars, callbacks, scriptVars, closeVars,
                 cur, req, submitted>>

---------------------------------------------------------------------------
(* mysql_close: CMySQLHandle::Destroy stops, joins and drains the workers  *)
(* one connection after the other, then CCallback::ClearByHandle removes   *)
(* the handle's queries from the callback queue, popping everything and    *)
(* putting the other handles' queries back.                                *)

BeginDestroy(h) ==
  /\ state[h] = "open"
  /\ state' = [state EXCEPT ![h] = "closing"]
  /\ closing' = h
  /\ lane' = 0
  /\ mpc' = "stop"
  /\ UNCHANGED <<life, counter, poolPos, workerVars, callbacks, scriptVars,
                 tmp, unloading, cur, req, submitted>>

CloseHandle(h) == PawnRuns /\ BeginDestroy(h)

ThreadConnection == <<closing, 0>>  \* faulty variant: the pool is not stopped
ToStop == <<closing, lane>>

StopWorker ==
  /\ mpc = "stop"
  /\ running' = [running EXCEPT ![ToStop] = FALSE]
  /\ mpc' = "join"
  /\ UNCHANGED <<handleVars, wpc, queue, hand, callbacks, scriptVars,
                 closeVars, cur, req, submitted>>

JoinedEarly(w) == TRUE        \* faulty variant: the worker is not joined
Joined(w) == wpc[w] = "exited"
NotDrained(w) == queue[w]     \* faulty variant: queued queries are kept
Drained(w) == <<>>
AfterDestroy == IF unloading THEN "unload" ELSE "clear"

(* join(), then the queries never started are deleted; with the last       *)
(* connection gone the handle's memory is free.                            *)
JoinWorker ==
  /\ mpc = "join"
  /\ Joined(<<closing, lane>>)
  /\ queue' = [queue EXCEPT ![<<closing, lane>>] = Drained(<<closing, lane>>)]
  /\ IF lane < PoolSize
     THEN /\ lane' = lane + 1
          /\ mpc' = "stop"
          /\ UNCHANGED <<state, closing>>
     ELSE /\ lane' = 0
          /\ state' = [state EXCEPT ![closing] = "free"]
          /\ mpc' = AfterDestroy
          /\ closing' = IF unloading THEN None ELSE closing
  /\ UNCHANGED <<life, counter, poolPos, running, wpc, hand, callbacks,
                 scriptVars, tmp, unloading, cur, req, submitted>>

AnyHandle(q) == TRUE          \* faulty variant: every callback is dropped
OfClosedHandle(q) == q.handle = closing

ClearPop ==
  /\ mpc = "clear"
  /\ callbacks # <<>>
  /\ callbacks' = Tail(callbacks)
  /\ tmp' = IF OfClosedHandle(Head(callbacks)) THEN tmp
            ELSE Append(tmp, Head(callbacks))
  /\ UNCHANGED <<handleVars, workerVars, scriptVars, closing, lane, unloading,
                 mainVars>>

ClearPopped ==
  /\ mpc = "clear"
  /\ callbacks = <<>>
  /\ mpc' = "restore"
  /\ UNCHANGED <<handleVars, workerVars, callbacks, scriptVars, closeVars,
                 cur, req, submitted>>

FrontPopped == Tail(tmp)

(* The result of push is ignored: with the queue full the query is lost.   *)
Restore ==
  /\ mpc = "restore"
  /\ tmp # <<>>
  /\ callbacks' = Pushed(Head(tmp))
  /\ tmp' = FrontPopped
  /\ UNCHANGED <<handleVars, workerVars, scriptVars, closing, lane, unloading,
                 mainVars>>

Closed ==
  /\ mpc = "restore"
  /\ tmp = <<>>
  /\ closing' = None
  /\ Return
  /\ UNCHANGED <<handleVars, workerVars, callbacks, scriptVars, lane, tmp,
                 unloading, cur, req, submitted>>

---------------------------------------------------------------------------
(* Unload: every handle is destroyed, then the callback queue.             *)

PluginUnload ==
  /\ mpc = "idle"
  /\ unloading' = TRUE
  /\ mpc' = "unload"
  /\ UNCHANGED <<handleVars, workerVars, callbacks, scriptVars, closing, lane,
                 tmp, cur, req, submitted>>

UnloadNext(h) == mpc = "unload" /\ BeginDestroy(h)

UnloadLast ==
  /\ mpc = "unload"
  /\ \A h \in Handles : state[h] = "free"
  /\ callbacks' = <<>>
  /\ mpc' = "down"
  /\ UNCHANGED <<handleVars, workerVars, scriptVars, closeVars, cur, req,
                 submitted>>

(* After Unload the server goes on without the plugin.                     *)
Unloaded == mpc = "down" /\ UNCHANGED vars

---------------------------------------------------------------------------
Natives ==
  \/ \E s \in Scripts : AmxLoad(s) \/ AmxUnload(s)
  \/ \E h \in Handles : Connect(h) \/ CloseHandle(h)
  \/ \E h \in Handles, s \in Scripts, pool \in BOOLEAN,
        name \in {"none", "user"}, n \in 1 .. MaxBatch :
          Submit(h, s, pool, name, n)

Submitting == PushQuery \/ RejectQuery \/ CountQuery
Tick == StartTick \/ DropCallback \/ RunCallback \/ EndCallback \/ EndTick
Closing == StopWorker \/ JoinWorker \/ ClearPop \/ ClearPopped \/ Restore \/ Closed
Unloading == PluginUnload \/ UnloadLast \/ Unloaded \/ \E h \in Handles : UnloadNext(h)
Worker(w) == WorkerPop(w) \/ WorkerExecute(w) \/ WorkerPost(w) \/ WorkerExit(w)

Next ==
  \/ Natives \/ Submitting \/ Tick \/ Closing \/ Unloading
  \/ \E w \in Workers : Worker(w)

Spec == Init /\ [][Next]_vars

(***************************************************************************)
(* Fairness.  A worker treats the query it has taken, since the database   *)
(* answers or fails, and sees its stop flag.  Nothing makes it take one:   *)
(* it does so only while it is connected, and a connection that was closed *)
(* or could not be opened is not opened again by itself.  The server calls *)
(* ProcessTick every frame and a callback returns, also when Pawn code     *)
(* calls natives in between (strong fairness); a native already entered    *)
(* runs to its end.                                                        *)
(***************************************************************************)
Fairness ==
  /\ \A w \in Workers : WF_vars(WorkerExecute(w) \/ WorkerPost(w) \/ WorkerExit(w))
  /\ WF_vars(Submitting) /\ WF_vars(Closing)
  /\ WF_vars(UnloadLast \/ \E h \in Handles : UnloadNext(h))
  /\ WF_vars(DropCallback \/ RunCallback \/ EndTick)
  /\ SF_vars(StartTick) /\ SF_vars(EndCallback)

FairSpec == Spec /\ Fairness

---------------------------------------------------------------------------
(* Memory safety.                                                          *)

(* The CMySQLHandle the query points to is still allocated, and is the     *)
(* object the query was submitted to, not a later one at its address.      *)
Refers(q) == state[q.handle] # "free" /\ life[q.handle] = q.life

(* No thread dereferences query->Handle after ~CMySQLHandle: a worker that *)
(* executes or posts a query, and ProcessCallbacks for every query it can  *)
(* still pop, refer to the object the query was submitted to.              *)
NoDanglingHandle ==
  /\ \A w \in Workers : wpc[w] \in {"exec", "post"} => Refers(hand[w])
  /\ mpc \in {"idle", "cb", "tick", "push", "count"} =>
       \A i \in 1 .. Len(callbacks) : Refers(callbacks[i])

(* A freed connection has no worker, so no worker reaches the callback     *)
(* queue or the connector library after Unload() has destroyed them, and   *)
(* no query is left behind in its queue.                                   *)
NoOrphanWorker ==
  /\ \A w \in Workers : state[w[1]] = "free" => wpc[w] = "exited" /\ queue[w] = <<>>
  /\ mpc = "down" => \A w \in Workers : wpc[w] = "exited"

(* The registration of the script that submitted the query is still there. *)
Registered(q) == loaded[q.owner] /\ token[q.owner] = q.token

(* A callback is entered only in the registration of the script that       *)
(* submitted the query, also when another script was loaded at the same    *)
(* address since, and only for a connection that has not been closed.      *)
CallbackValid ==
  [][mpc = "tick" /\ mpc' = "cb" =>
       /\ Registered(cur')
       /\ state[cur'.handle] = "open" /\ life[cur'.handle] = cur'.life]_vars
=============================================================================
