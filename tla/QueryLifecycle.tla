--------------------------- MODULE QueryLifecycle ---------------------------
(***************************************************************************)
(* What the plugin promises about a threaded query, without queues,        *)
(* threads or handles: it is executed at most once, its callback runs at   *)
(* most once, only after the execution and never inside another callback,  *)
(* and what was cancelled never comes back.                                *)
(***************************************************************************)
EXTENDS Integers

CONSTANT Ids      \* the queries: numbers, in the order in which they are accepted

VARIABLE status   \* [Ids -> {"new", "queued", "executed", "called", "gone"}]

Init == status = [id \in Ids |-> "new"]

Move(id, from, to) ==
  /\ status[id] = from
  /\ status' = [status EXCEPT ![id] = to]

Accept(id) ==
  /\ \A prior \in Ids : prior < id => status[prior] # "new"
  /\ Move(id, "new", "queued")

Execute(id) == Move(id, "queued", "executed")

Call(id) ==
  /\ \A other \in Ids : status[other] # "called"
  /\ Move(id, "executed", "called")

Return(id) == Move(id, "called", "gone")

(* A query is dropped when its connection is closed, its script unloaded,  *)
(* it has no callback to call or the callback queue is full.               *)
Cancel(S) ==
  /\ \A id \in S : status[id] \in {"queued", "executed"}
  /\ status' = [id \in Ids |-> IF id \in S THEN "gone" ELSE status[id]]

Next ==
  \/ \E id \in Ids : Accept(id) \/ Execute(id) \/ Call(id) \/ Return(id)
  \/ \E S \in SUBSET Ids : Cancel(S)

Spec == Init /\ [][Next]_status
=============================================================================
