------------------------------ MODULE Connection ------------------------------
(***************************************************************************)
(* One threaded CMySQLConnection: how its session with the database comes  *)
(* and goes.                                                               *)
(*                                                                         *)
(* The main thread never touches the session.  Connect, Disconnect and     *)
(* SetCharset are pushed to m_FuncQueue under m_FuncQueueMtx and run by    *)
(* the worker, which holds the mutex while it runs them.  A Disconnect     *)
(* that finds queries waiting is deferred: it goes behind whatever was     *)
(* posted meanwhile.  The worker also replaces a session that the server   *)
(* has closed, between two queries and without the mutex.                  *)
(*                                                                         *)
(* QueryPipeline has the queries themselves; here the queue is a number.   *)
(* mysql_init and mysql_ssl_set are taken not to fail.  A SetCharset in    *)
(* m_FuncQueue is its argument.                                            *)
(***************************************************************************)
EXTENDS Integers, Sequences

CONSTANTS
  QueueCap,    \* capacity of m_QueryQueue (16876)
  Charsets,    \* character sets scripts ask for
  MaxCalls     \* bound: natives that post functions

ASSUME ConnectionAssumption ==
  /\ QueueCap \in Nat \ {0} /\ MaxCalls \in Nat
  /\ Charsets \cap {"Connect", "Disconnect", "default"} = {}

VARIABLES
  autoReconnect,  \* m_AutoReconnect, an argument of mysql_connect
  running,        \* m_QueryThreadRunning
  connected,      \* m_IsConnected
  session,        \* m_Connection: "none" (NULL), "init" (never connected),
                  \* "live" or "lost" (the server has closed it)
  funcs,          \* m_FuncQueue
  deferred,       \* tmp_queue of ProcessQueries
  queue,          \* length of m_QueryQueue
  wpc,            \* what the worker is doing
  posting,        \* what the native in progress still has to post
  calls,          \* natives that have posted functions
  charset,        \* the character set of the session
  serverUp,       \* the database accepts connections
  unsettled,      \* history: since the last mysql_connect or mysql_reconnect
                  \* a Disconnect was deferred or a Connect failed
  asked,          \* history: the last mysql_set_charset
  forgotten       \* history: the last SetCharset to run failed, or its session
                  \* has been closed since

requestVars == <<funcs, deferred, posting, calls>>
object == <<autoReconnect, running>>
names == <<charset, asked, forgotten>>
vars == <<object, connected, session, requestVars, queue, wpc, serverUp, unsettled,
          names>>

Functions == {"Connect", "Disconnect"} \cup Charsets

TypeOK ==
  /\ autoReconnect \in BOOLEAN /\ running \in BOOLEAN /\ connected \in BOOLEAN
  /\ session \in {"none", "init", "live", "lost"}
  /\ funcs \in Seq(Functions) /\ deferred \in Seq(Functions)
  /\ posting \in Seq(Functions)
  /\ queue \in 0 .. QueueCap
  /\ wpc \in {"top", "drain", "query", "exec", "connect", "requeue", "exited", "deleted"}
  /\ calls \in 0 .. MaxCalls
  /\ serverUp \in BOOLEAN /\ unsettled \in BOOLEAN
  /\ {charset, asked} \subseteq Charsets \cup {"default"} /\ forgotten \in BOOLEAN

(* mysql_connect has created the connection and is about to post Connect.  *)
Init ==
  /\ autoReconnect \in BOOLEAN
  /\ running = TRUE /\ connected = FALSE
  /\ session = "none"
  /\ funcs = <<>> /\ deferred = <<>>
  /\ posting = <<"Connect">>
  /\ queue = 0
  /\ wpc = "top"
  /\ calls = 0
  /\ serverUp \in BOOLEAN
  /\ unsettled = FALSE
  /\ charset = "default" /\ asked = "default" /\ forgotten = FALSE

---------------------------------------------------------------------------
(* The main thread.                                                        *)

NoneRequested == posting = <<>> /\ funcs = <<>> /\ deferred = <<>>

(* The worker holds m_FuncQueueMtx while it runs the posted functions.     *)
MutexFree == wpc # "drain"

InFront(f) == <<f>> \o funcs     \* faulty variant: a stack
Behind(f) == Append(funcs, f)

Post ==
  /\ posting # <<>>
  /\ MutexFree
  /\ funcs' = Behind(Head(posting))
  /\ posting' = Tail(posting)
  /\ UNCHANGED <<object, connected, session, deferred, queue, wpc, calls,
                 serverUp, unsettled, names>>

Call(functions) ==
  /\ running /\ posting = <<>>
  /\ calls < MaxCalls
  /\ calls' = calls + 1
  /\ posting' = functions
  /\ UNCHANGED <<object, connected, session, funcs, deferred, queue, wpc, serverUp,
                 charset, forgotten>>

Reopening == <<"Connect", "Disconnect">>  \* faulty variant: the wrong order
Reconnecting == <<"Disconnect", "Connect">>

Reconnect ==
  /\ Call(Reconnecting)
  /\ unsettled' = (unsettled /\ ~NoneRequested)
  /\ UNCHANGED asked

(* mysql_connect for a server that has this handle already.                *)
ConnectDuplicate ==
  /\ Call(<<"Connect">>)
  /\ unsettled' = (unsettled /\ ~NoneRequested)
  /\ UNCHANGED asked

SetCharset(name) ==
  /\ Call(<<name>>)
  /\ asked' = name
  /\ UNCHANGED unsettled

HasRoom == queue < QueueCap

Submit ==
  /\ running /\ posting = <<>>
  /\ HasRoom
  /\ queue' = queue + 1
  /\ UNCHANGED <<object, connected, session, requestVars, wpc, serverUp, unsettled,
                 names>>

(* ~CMySQLConnection: stop, join, then close and delete what is left.      *)
Stop ==
  /\ running /\ posting = <<>>
  /\ running' = FALSE
  /\ UNCHANGED <<autoReconnect, connected, session, requestVars, queue, wpc, serverUp,
                 unsettled, names>>

Delete ==
  /\ ~running /\ wpc = "exited"
  /\ wpc' = "deleted"
  /\ connected' = FALSE /\ session' = "none"
  /\ queue' = 0
  /\ UNCHANGED <<object, requestVars, serverUp, unsettled, names>>

---------------------------------------------------------------------------
(* What Connect and Disconnect do in the worker.                           *)

(* A failed attempt leaves an initialised object that is not connected.    *)
Establish ==
  /\ \/ /\ connected
        /\ UNCHANGED <<connected, session, charset, unsettled>>
     \/ /\ ~connected /\ serverUp
        /\ connected' = TRUE /\ session' = "live"
        /\ charset' = "default"
        /\ UNCHANGED unsettled
     \/ /\ ~connected
        /\ session' = "init"
        /\ unsettled' = TRUE
        /\ UNCHANGED <<connected, charset>>
  /\ UNCHANGED <<asked, forgotten>>

KeptSession == session        \* faulty variant: mysql_close is not called
ClosedSession == "none"
StillConnected == connected   \* faulty variant: m_IsConnected is not reset
NotConnected == FALSE

HangUp ==
  /\ IF connected
     THEN /\ connected' = NotConnected /\ session' = ClosedSession
          /\ forgotten' = (forgotten \/ charset # "default")
     ELSE UNCHANGED <<connected, session, forgotten>>
  /\ UNCHANGED <<charset, asked>>

(* A command on the session: the connector replaces a lost session when    *)
(* MYSQL_OPT_RECONNECT is set, which only a connected session has, and     *)
(* gives the new one the character set of the old.                         *)
AfterCommand ==
  {session} \cup (IF session = "lost" /\ autoReconnect /\ serverUp THEN {"live"} ELSE {})

---------------------------------------------------------------------------
(* The worker: ProcessQueries.                                             *)

LoopTop ==
  /\ wpc = "top"
  /\ wpc' = IF running THEN "drain" ELSE "exited"
  /\ UNCHANGED <<object, connected, session, requestVars, queue, serverUp, unsettled,
                 names>>

RunConnect ==
  /\ wpc = "drain" /\ funcs # <<>> /\ Head(funcs) = "Connect"
  /\ Establish
  /\ funcs' = Tail(funcs)
  /\ UNCHANGED <<object, deferred, queue, wpc, posting, calls, serverUp>>

RunDisconnect ==
  /\ wpc = "drain" /\ funcs # <<>> /\ Head(funcs) = "Disconnect"
  /\ queue = 0
  /\ HangUp
  /\ funcs' = Tail(funcs)
  /\ UNCHANGED <<object, deferred, queue, wpc, posting, calls, serverUp, unsettled>>

(* It returns false: queries are waiting.                                  *)
RetryAtOnce == <<Append(Tail(funcs), Head(funcs)), deferred>>  \* faulty variant
PutAside == <<Tail(funcs), Append(deferred, Head(funcs))>>

DeferDisconnect ==
  /\ wpc = "drain" /\ funcs # <<>> /\ Head(funcs) = "Disconnect"
  /\ queue > 0
  /\ funcs' = PutAside[1] /\ deferred' = PutAside[2]
  /\ unsettled' = TRUE
  /\ UNCHANGED <<object, connected, session, queue, wpc, posting, calls, serverUp, names>>

(* The session takes the character set: SET NAMES has succeeded.           *)
Named ==
  /\ connected
  /\ session' \in AfterCommand \cap {"live"}
  /\ charset' = Head(funcs)
  /\ forgotten' = FALSE

(* Not connected, a name the connector does not know, or a failed command. *)
NotNamed ==
  /\ IF connected THEN session' \in AfterCommand ELSE UNCHANGED session
  /\ forgotten' = TRUE
  /\ UNCHANGED charset

RunSetCharset ==
  /\ wpc = "drain" /\ funcs # <<>> /\ Head(funcs) \in Charsets
  /\ Named \/ NotNamed
  /\ funcs' = Tail(funcs)
  /\ UNCHANGED <<object, connected, deferred, queue, wpc, posting, calls,
                 serverUp, unsettled, asked>>

Drained ==
  /\ wpc = "drain" /\ funcs = <<>>
  /\ wpc' = IF connected THEN "query" ELSE "requeue"
  /\ UNCHANGED <<object, connected, session, requestVars, queue, serverUp, unsettled,
                 names>>

PopQuery ==
  /\ wpc = "query" /\ running /\ queue > 0
  /\ queue' = queue - 1
  /\ wpc' = "exec"
  /\ UNCHANGED <<object, connected, session, requestVars, serverUp, unsettled, names>>

NothingToDo ==
  /\ wpc = "query" /\ (~running \/ queue = 0)
  /\ wpc' = "requeue"
  /\ UNCHANGED <<object, connected, session, requestVars, queue, serverUp, unsettled,
                 names>>

(* The query succeeds, or fails with any error but CR_SERVER_GONE_ERROR.   *)
Executed ==
  /\ wpc = "exec" /\ session # "init"
  /\ session' \in AfterCommand
  /\ wpc' = "query"
  /\ UNCHANGED <<object, connected, requestVars, queue, serverUp, unsettled,
                 names>>

(* CR_SERVER_GONE_ERROR: with m_AutoReconnect the worker calls Disconnect, *)
(* which does nothing while queries are waiting, and then Connect.         *)
ServerGone ==
  /\ wpc = "exec" /\ session \in {"init", "lost"}
  /\ IF autoReconnect
     THEN /\ wpc' = "connect"
          /\ IF queue = 0 THEN HangUp ELSE UNCHANGED <<connected, session, names>>
     ELSE wpc' = "query" /\ UNCHANGED <<connected, session, names>>
  /\ UNCHANGED <<object, requestVars, queue, serverUp, unsettled>>

ConnectAgain ==
  /\ wpc = "connect"
  /\ Establish
  /\ wpc' = "query"
  /\ UNCHANGED <<object, requestVars, queue, serverUp>>

(* The deferred functions go behind what was posted meanwhile.             *)
Requeue ==
  /\ wpc = "requeue"
  /\ funcs' = funcs \o deferred
  /\ deferred' = <<>>
  /\ wpc' = "top"
  /\ UNCHANGED <<object, connected, session, queue, posting, calls, serverUp,
                 unsettled, names>>

---------------------------------------------------------------------------
(* The database stops, starts, or closes an idle session.                  *)

Lost == IF session = "live" THEN "lost" ELSE session

ServerStops ==
  /\ serverUp
  /\ serverUp' = FALSE /\ session' = Lost
  /\ UNCHANGED <<object, connected, requestVars, queue, wpc, unsettled, names>>

ServerStarts ==
  /\ ~serverUp
  /\ serverUp' = TRUE
  /\ UNCHANGED <<object, connected, session, requestVars, queue, wpc, unsettled, names>>

SessionTimesOut ==
  /\ session = "live"
  /\ session' = Lost
  /\ UNCHANGED <<object, connected, requestVars, queue, wpc, serverUp, unsettled, names>>

(* The CMySQLConnection is gone.                                           *)
Deleted == wpc = "deleted" /\ UNCHANGED vars

Main == \/ Post \/ Reconnect \/ ConnectDuplicate \/ Submit \/ Stop \/ Delete
        \/ \E name \in Charsets : SetCharset(name)
RunFunction == RunConnect \/ RunDisconnect \/ DeferDisconnect \/ RunSetCharset \/ Drained
RunQuery == PopQuery \/ NothingToDo \/ Executed \/ ServerGone \/ ConnectAgain
Worker == LoopTop \/ RunFunction \/ RunQuery \/ Requeue
Server == ServerStops \/ ServerStarts \/ SessionTimesOut

Next == Main \/ Worker \/ Server \/ Deleted

Spec == Init /\ [][Next]_vars

(* The worker loops; a mutex it keeps releasing is not denied to the main  *)
(* thread for ever; the destructor runs to its end.                        *)
FairSpec == Spec /\ WF_vars(Worker) /\ SF_vars(Post) /\ WF_vars(Delete)

---------------------------------------------------------------------------
(* The worker never hands a null MYSQL pointer to the connector, although  *)
(* the inner loop does not look at m_IsConnected again after it has closed *)
(* and reopened the session.                                               *)
ObjectThere == connected \/ wpc = "exec" => session # "none"

(* m_IsConnected is false only when there is no session: Connect never     *)
(* replaces one that is open, and Disconnect closes what there is.         *)
NoSessionLeaked == ~connected => session \in {"none", "init"}

(* After mysql_connect or mysql_reconnect, once everything posted has run, *)
(* the connection is open unless an attempt failed or a Disconnect met     *)
(* waiting queries.  (In the second case the deferred Disconnect runs      *)
(* after the Connect, and nothing connects again.)                         *)
ReconnectRestores ==
  NoneRequested /\ wpc # "connect" /\ running /\ ~unsettled => connected

(* Once everything posted has run, an open session has the character set   *)
(* last asked for, the connector's own reconnects included, unless it      *)
(* could not be set or the plugin has replaced the session since: the      *)
(* worker's reconnect and mysql_reconnect do not ask for it again.         *)
CharsetKept == NoneRequested /\ connected /\ ~forgotten => charset = asked

(* A native that posts to the connection returns: neither a connection     *)
(* attempt nor a Disconnect that has to wait keeps the mutex for ever.     *)
PostReturns == (posting # <<>>) ~> (posting = <<>>)
=============================================================================
