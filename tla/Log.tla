---------------------------------- MODULE Log ----------------------------------
(***************************************************************************)
(* CLog: the log of the plugin, in its two forms.                          *)
(*                                                                         *)
(* In text form the thread that logs opens m_LogFileName, appends a line   *)
(* and closes it.  In HTML form it pushes the message to m_LogQueue, and   *)
(* one thread, started when the form first becomes HTML and never again,   *)
(* writes the messages to the file it opened when it started.  mysql_log   *)
(* changes the form and the file name without a lock, while workers log.   *)
(* Unload destroys the log last.                                           *)
(*                                                                         *)
(* A message is one that passes the level filter.  Both files are sets or  *)
(* sequences of messages; what a worker appends to the HTML file, because  *)
(* the name changed after it had read the form, is not kept track of.  A   *)
(* worker that reads m_LogFileName while it is assigned gets the old or    *)
(* the new name.                                                           *)
(***************************************************************************)
EXTENDS Integers, Sequences

CONSTANTS
  Workers,        \* threads of connections
  Main,           \* the thread of the server
  QueueCapacity,  \* of m_LogQueue, 32678 in the code
  MaxMessages,    \* bound: messages of one thread
  MaxSwitches     \* bound: calls of mysql_log

ASSUME LogAssumption ==
  /\ Main \notin Workers
  /\ QueueCapacity \in Nat /\ MaxMessages \in Nat /\ MaxSwitches \in Nat

Threads == Workers \cup {Main}

VARIABLES
  logType,   \* m_LogType
  fileName,  \* m_LogFileName: which extension it has
  writer,    \* m_LogThread: "none" (NULL), "started" (about to open its file),
             \* "loop", "pop", "write", "exited"
  out,       \* the file the writer opened, "none" if none
  alive,     \* m_LogThreadAlive
  queue,     \* m_LogQueue
  hand,      \* the message the writer has popped, in a sequence
  page,      \* the rows the writer has written, in their order
  text,      \* the lines in the text file
  call,      \* [Threads -> what LogFunction or EndCallback is about to do]
  said,      \* [Threads -> number of messages so far]
  setting,   \* what mysql_log has still to do
  switches,  \* calls of mysql_log so far
  joined,    \* the workers ClearAll has joined
  unload,    \* "no", "clearing", "stopping", "joined", "destroyed"
  accepted,  \* history: the messages pushed to the queue
  appended,  \* history: the lines written to the text file
  reopened   \* history: the name changed before the writer opened its file

files == <<fileName, out, page, text>>
callers == <<call, said>>
settings == <<setting, switches>>
shutdown == <<alive, joined, unload>>
history == <<accepted, appended, reopened>>
vars == <<logType, writer, queue, hand, files, callers, settings, shutdown, history>>

Types == {"text", "html"}
Message == [from : Threads, n : 1 .. MaxMessages, kind : {"row", "end"}]
Line == [from : Threads, n : 1 .. MaxMessages]

TypeOK ==
  /\ logType \in Types /\ fileName \in Types /\ out \in Types \cup {"none"}
  /\ writer \in {"none", "started", "loop", "pop", "write", "exited"}
  /\ queue \in Seq(Message) /\ Len(queue) =< QueueCapacity
  /\ hand \in Seq(Message) /\ page \in Seq(Message)
  /\ text \subseteq Line
  /\ call \in [Threads -> {"idle", "row", "end", "line"}]
  /\ said \in [Threads -> 0 .. MaxMessages]
  /\ setting \in {"done", "rename", "start"} /\ switches \in 0 .. MaxSwitches
  /\ alive \in BOOLEAN /\ joined \subseteq Workers
  /\ unload \in {"no", "clearing", "stopping", "joined", "destroyed"}
  /\ accepted \subseteq Message /\ appended \subseteq Line
  /\ reopened \in BOOLEAN

(* Load has called Initialize: text form, no thread.                       *)
Init ==
  /\ logType = "text" /\ fileName = "text"
  /\ writer = "none" /\ out = "none" /\ alive = TRUE
  /\ queue = <<>> /\ hand = <<>> /\ page = <<>> /\ text = {}
  /\ call = [t \in Threads |-> "idle"]
  /\ said = [t \in Threads |-> 0]
  /\ setting = "done" /\ switches = 0
  /\ joined = {} /\ unload = "no"
  /\ accepted = {} /\ appended = {} /\ reopened = FALSE

---------------------------------------------------------------------------
(* Logging, by any thread.  The main thread is in one native at a time,    *)
(* and after Unload has begun only the destructors log.                    *)

Runs(t) == IF t = Main THEN setting = "done" /\ unload \in {"no", "clearing"}
                       ELSE t \notin joined

Speak(t, todo) ==
  /\ Runs(t) /\ call[t] = "idle"
  /\ said[t] < MaxMessages
  /\ call' = [call EXCEPT ![t] = todo]
  /\ said' = [said EXCEPT ![t] = @ + 1]
  /\ UNCHANGED <<logType, writer, queue, hand, files, settings, shutdown, history>>

(* It reads m_LogType once.                                                *)
LogFunction(t) == Speak(t, IF logType = "html" THEN "row" ELSE "line")

(* StartCallback pushes a row as well.                                     *)
EndCallback == logType = "html" /\ Speak(Main, "end")

InFront(m) == <<m>> \o queue     \* faulty variant: a stack
Behind(m) == Append(queue, m)

Push(t) ==
  /\ call[t] \in {"row", "end"}
  /\ IF Len(queue) < QueueCapacity
     THEN LET m == [from |-> t, n |-> said[t], kind |-> call[t]] IN
          queue' = Behind(m) /\ accepted' = accepted \cup {m}
     ELSE UNCHANGED <<queue, accepted>>
  /\ call' = [call EXCEPT ![t] = "idle"]
  /\ UNCHANGED <<logType, writer, hand, files, said, settings, shutdown,
                 appended, reopened>>

LogText(t) ==
  /\ call[t] = "line"
  /\ IF fileName = "text"
     THEN LET line == [from |-> t, n |-> said[t]] IN
          text' = text \cup {line} /\ appended' = appended \cup {line}
     ELSE UNCHANGED <<text, appended>>
  /\ call' = [call EXCEPT ![t] = "idle"]
  /\ UNCHANGED <<logType, writer, queue, hand, fileName, out, page, said,
                 settings, shutdown, accepted, reopened>>

---------------------------------------------------------------------------
(* mysql_log: SetLogType.                                                  *)

(* What follows each of the three assignments; the faulty variant starts   *)
(* the thread before it changes the name.                                  *)
StartFirst == [type |-> "start", start |-> "rename", rename |-> "done"]
Following == [type |-> "rename", rename |-> "start", start |-> "done"]

SetType(type) ==
  /\ setting = "done" /\ unload = "no" /\ call[Main] = "idle"
  /\ switches < MaxSwitches
  /\ type # logType
  /\ logType' = type
  /\ setting' = Following.type
  /\ switches' = switches + 1
  /\ UNCHANGED <<writer, queue, hand, files, callers, shutdown, history>>

Rename ==
  /\ setting = "rename"
  /\ fileName' = logType
  /\ setting' = Following.rename
  /\ reopened' = (reopened \/ writer = "started")
  /\ UNCHANGED <<logType, writer, queue, hand, out, page, text, callers, switches,
                 shutdown, accepted, appended>>

Start ==
  /\ setting = "start"
  /\ writer' = IF logType = "html" /\ writer = "none" THEN "started" ELSE writer
  /\ setting' = Following.start
  /\ UNCHANGED <<logType, queue, hand, files, callers, switches, shutdown, history>>

---------------------------------------------------------------------------
(* The log thread: ProcessLog.                                             *)

(* fopen with "w" empties the file.                                        *)
Open ==
  /\ writer = "started"
  /\ writer' = "loop"
  /\ out' = fileName
  /\ text' = IF fileName = "text" THEN {} ELSE text
  /\ UNCHANGED <<logType, queue, hand, fileName, page, callers, settings,
                 shutdown, history>>

OpenFails ==
  /\ writer = "started"
  /\ writer' = "exited"
  /\ UNCHANGED <<logType, queue, hand, files, callers, settings, shutdown, history>>

AlwaysGoesOn == TRUE     \* faulty variant: while (true)
GoesOn == alive

LoopTop ==
  /\ writer = "loop"
  /\ writer' = IF GoesOn THEN "pop" ELSE "exited"
  /\ UNCHANGED <<logType, queue, hand, files, callers, settings, shutdown, history>>

(* The queue is drained whatever m_LogThreadAlive says meanwhile.          *)
PoppedUnlessStopped == IF alive THEN "write" ELSE "exited"  \* faulty variant
Popped == "write"

Pop ==
  /\ writer = "pop" /\ queue # <<>>
  /\ hand' = <<Head(queue)>>
  /\ queue' = Tail(queue)
  /\ writer' = Popped
  /\ UNCHANGED <<logType, files, callers, settings, shutdown, history>>

Sleep ==
  /\ writer = "pop" /\ queue = <<>>
  /\ writer' = "loop"
  /\ UNCHANGED <<logType, queue, hand, files, callers, settings, shutdown, history>>

(* The writer has its own position in the file: in the text file it writes *)
(* over what others have appended since.                                   *)
Write ==
  /\ writer = "write"
  /\ IF Head(hand).kind = "row"
     THEN /\ page' = Append(page, Head(hand))
          /\ IF out = "text" THEN text' \in SUBSET text ELSE UNCHANGED text
     ELSE UNCHANGED <<page, text>>
  /\ hand' = <<>>
  /\ writer' = "pop"
  /\ UNCHANGED <<logType, queue, fileName, out, callers, settings, shutdown, history>>

---------------------------------------------------------------------------
(* Unload: ClearAll joins every worker, then the log is destroyed.         *)

Unload ==
  /\ unload = "no" /\ setting = "done" /\ call[Main] = "idle"
  /\ unload' = "clearing"
  /\ UNCHANGED <<logType, writer, queue, hand, files, callers, settings, alive,
                 joined, history>>

Join(w) ==
  /\ unload = "clearing" /\ call[Main] = "idle"
  /\ w \notin joined /\ call[w] = "idle"
  /\ joined' = joined \cup {w}
  /\ UNCHANGED <<logType, writer, queue, hand, files, callers, settings, alive,
                 unload, history>>

NotWaiting == TRUE       \* faulty variant: the log is destroyed first
HandlesCleared == joined = Workers

Destroy ==
  /\ unload = "clearing" /\ call[Main] = "idle"
  /\ HandlesCleared
  /\ unload' = "stopping"
  /\ alive' = IF writer = "none" THEN alive ELSE FALSE
  /\ UNCHANGED <<logType, writer, queue, hand, files, callers, settings, joined, history>>

JoinWriter ==
  /\ unload = "stopping" /\ writer \in {"none", "exited"}
  /\ unload' = "joined"
  /\ UNCHANGED <<logType, writer, queue, hand, files, callers, settings, alive,
                 joined, history>>

(* Messages left in the queue are deleted.                                 *)
Delete ==
  /\ unload = "joined"
  /\ queue' = <<>>
  /\ unload' = "destroyed"
  /\ UNCHANGED <<logType, writer, hand, files, callers, settings, alive, joined, history>>

Unloaded == unload = "destroyed" /\ UNCHANGED vars

Logging == EndCallback \/ \E t \in Threads : LogFunction(t) \/ Push(t) \/ LogText(t)
Setting == Rename \/ Start \/ \E type \in Types : SetType(type)
Writer == Open \/ OpenFails \/ LoopTop \/ Pop \/ Sleep \/ Write
Unloading == Destroy \/ JoinWriter \/ Delete \/ \E w \in Workers : Join(w)

Next == Logging \/ Setting \/ Writer \/ Unload \/ Unloading \/ Unloaded

Spec == Init /\ [][Next]_vars

(* The log thread and the threads in the middle of a call are scheduled; a *)
(* worker logs a bounded number of times for the query in its hand and     *)
(* then sees its stop flag, so ClearAll joins it.                          *)
FairSpec ==
  /\ Spec /\ WF_vars(Writer)
  /\ WF_vars(Destroy) /\ WF_vars(JoinWriter) /\ WF_vars(Delete)
  /\ \A t \in Threads : WF_vars(Push(t) \/ LogText(t))
  /\ \A w \in Workers : SF_vars(Join(w))

---------------------------------------------------------------------------
(* Unload destroys the log last (main.cpp): nobody is inside it, and nobody *)
(* will enter it, when the CLog is deleted.                                *)
DestroyedLast ==
  unload \in {"stopping", "joined", "destroyed"} =>
    joined = Workers /\ \A t \in Threads : call[t] = "idle"

Members(s) == {s[i] : i \in 1 .. Len(s)}
BeingWritten == IF writer = "write" THEN Members(hand) ELSE {}

(* A message the queue has accepted is in the file or on its way to it as  *)
(* long as the log lives: only the destructor throws messages away, those  *)
(* the log thread left behind when it saw its stop flag or could not open  *)
(* the file.                                                               *)
AcceptedIsKept ==
  unload # "destroyed" =>
    \A m \in accepted :
      m.kind = "row" => m \in Members(page) \cup BeingWritten \cup Members(queue)

(* The rows of one thread are in the file in the order it logged them,     *)
(* although any number of threads push.                                    *)
RowsInOrder ==
  \A i, j \in 1 .. Len(page) :
    i < j /\ page[i].from = page[j].from => page[i].n < page[j].n

(* A line written to the text file stays there: the log thread opens the   *)
(* HTML file, unless mysql_log went back to text before it did.            *)
TextKept == ~reopened => appended \subseteq text

(* Unload returns: the log thread sees its stop flag after a last drain.   *)
UnloadReturns == (unload = "clearing") ~> (unload = "destroyed")
=============================================================================
