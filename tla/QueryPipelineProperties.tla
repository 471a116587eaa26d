---------------------- MODULE QueryPipelineProperties ----------------------
(***************************************************************************)
(* What the query pipeline promises beyond memory safety: where the        *)
(* accepted queries are, in which order they run, what the natives can     *)
(* observe, and that they eventually leave.                                *)
(***************************************************************************)
EXTENDS QueryPipeline

Elements(seq) == {seq[i] : i \in 1 .. Len(seq)}
IdsOf(queries) == {q.id : q \in queries}

Waiting == UNION {Elements(queue[w]) : w \in Workers}
InHand(pcs) == {hand[w] : w \in {v \in Workers : wpc[v] \in pcs}}

(* The query objects whose execution has ended, and all of those that some *)
(* queue or thread of the plugin still holds.                              *)
Executed == Elements(callbacks) \cup Elements(tmp) \cup ({cur} \ {None})
Held == Waiting \cup InHand({"exec", "post"}) \cup Executed

InFlight == IdsOf(Held)

(* Every pointer to a query object that the plugin keeps.                  *)
QueuePlaces == UNION {{<<"queue", w, i>> : i \in 1 .. Len(queue[w])} : w \in Workers}
HandPlaces == {<<"hand", w, 0>> : w \in {v \in Workers : hand[v] # None}}
CallbackPlaces == {<<"callbacks", None, i>> : i \in 1 .. Len(callbacks)}
TmpPlaces == {<<"tmp", None, i>> : i \in 1 .. Len(tmp)}
CurPlaces == {<<"cur", None, 0>> : q \in {cur} \ {None}}
Places == QueuePlaces \cup HandPlaces \cup CallbackPlaces \cup TmpPlaces \cup CurPlaces

QueryAt(p) ==
  CASE p[1] = "queue"     -> queue[p[2]][p[3]]
    [] p[1] = "hand"      -> hand[p[2]]
    [] p[1] = "callbacks" -> callbacks[p[3]]
    [] p[1] = "tmp"       -> tmp[p[3]]
    [] p[1] = "cur"       -> cur

(* Every query object has one holder at a time, so none is executed, called *)
(* back or deleted twice (CMySQLQuery is passed on as a raw pointer).       *)
OneHolder == \A p, r \in Places : QueryAt(p).id = QueryAt(r).id => p = r

(* Queries of handle h that are queued or whose execution has not ended.   *)
Unprocessed(h) == {q \in Waiting \cup InHand({"exec"}) : q.handle = h}
Pending(h) == Cardinality(Unprocessed(h))

(* mysql_unprocessed_queries is exact whenever Pawn code can call it,      *)
(* although a worker may finish a query before the main thread has counted *)
(* it: the transient wrap below zero is never observed.                    *)
CounterExact ==
  PawnRuns => \A h \in Handles : state[h] = "open" => counter[h] = Pending(h)

SameLane(q, r) == q.handle = r.handle /\ q.life = r.life /\ q.lane = r.lane

(* The queries of a connection are executed in the order they were         *)
(* submitted: nothing that still waits is older than what left the queue.  *)
(* This is what lets mysql_tquery_file attach its callback to the last     *)
(* statement only.                                                         *)
ExecutionOrder ==
  \A w \in Workers : \A i \in 1 .. Len(queue[w]) :
    LET q == queue[w][i] IN
    /\ \A j \in 1 .. i - 1 : queue[w][j].id < q.id
    /\ \A r \in Held \ Elements(queue[w]) : SameLane(q, r) => r.id < q.id

(* No handle but q's own has ever been closed.                             *)
Undisturbed(q) ==
  \A h \in Handles \ {q.handle} : life[h] = 0 \/ (life[h] = 1 /\ state[h] = "open")

(* The callbacks of a connection are delivered in submission order,        *)
(* although workers of other handles push to the same queue, unless        *)
(* ClearByHandle has taken callbacks out for another handle and put the    *)
(* rest back.                                                              *)
CallbackOrder ==
  \A i \in 1 .. Len(callbacks) : Undisturbed(callbacks[i]) =>
    /\ \A j \in 1 .. i - 1 :
         SameLane(callbacks[i], callbacks[j]) => callbacks[j].id < callbacks[i].id
    /\ cur # None /\ SameLane(callbacks[i], cur) => cur.id < callbacks[i].id

(* A query whose connection stays open, whose script stays loaded and      *)
(* whose callback exists leaves the plugin only when its callback has      *)
(* returned, or when a push found the callback queue full: the worker's,   *)
(* or ClearByHandle putting back what it took out for another handle.      *)
PushFails(q) ==
  /\ Len(callbacks) = CallbackCap
  /\ \/ \E w \in Workers : wpc[w] = "post" /\ hand[w] = q
     \/ mpc = "restore" /\ tmp # <<>> /\ q = Head(tmp)

NoCallbackLost ==
  [][\A q \in Held :
       \/ q.id \in InFlight'
       \/ q = cur
       \/ ~Registered(q) \/ ~HasPublic(q)
       \/ state[q.handle] # "open"
       \/ PushFails(q)]_vars

(* What a query goes through, whatever the queues and threads do: see      *)
(* QueryLifecycle.  The pipeline implements it.                            *)
Carries(seq, id) == \E i \in 1 .. Len(seq) : seq[i].id = id
At(pc, id) == \E w \in Workers : wpc[w] = pc /\ hand[w].id = id

StatusOf(id) ==
  IF id > submitted THEN "new"
  ELSE IF cur # None /\ cur.id = id THEN "called"
  ELSE IF At("post", id) \/ Carries(callbacks, id) \/ Carries(tmp, id) THEN "executed"
  ELSE IF At("exec", id) \/ \E w \in Workers : Carries(queue[w], id) THEN "queued"
  ELSE "gone"

Lifecycle == INSTANCE QueryLifecycle WITH
  Ids <- 1 .. MaxQueries, status <- [id \in 1 .. MaxQueries |-> StatusOf(id)]

ImplementsLifecycle == Lifecycle!Spec

(* An accepted query leaves the plugin, called back, dropped or closed,    *)
(* unless it waits for ever for a worker that runs and takes no query, as  *)
(* one whose connection has failed does until a native connects it again.  *)
(* Nowhere else is it held back: not by a worker that has stopped, in a    *)
(* hand, in the callback queue or by ClearByHandle.                        *)
WaitsForWorker(id) ==
  \E w \in Workers : running[w] /\ wpc[w] = "top" /\ Carries(queue[w], id)

QueryLeaves ==
  \A id \in 1 .. MaxQueries : <>[](id \in InFlight) => <>[]WaitsForWorker(id)

(* mysql_close returns although workers are executing queries: the join    *)
(* of every worker ends, and so does ClearByHandle against other workers.  *)
CloseReturns == (closing # None) ~> (closing = None)

(* Unload ends, whatever is queued when it begins.                         *)
UnloadEnds == unloading ~> (mpc = "down")
=============================================================================
