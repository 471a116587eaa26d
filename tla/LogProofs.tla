------------------------------- MODULE LogProofs -------------------------------
(***************************************************************************)
(* The log for any number of workers, messages and switches and any        *)
(* capacity of the queue.  The invariant is a conjunction of five that are *)
(* inductive one after the other: types; who can still log; where an       *)
(* accepted message is; the order of one thread's messages along the       *)
(* queue, the writer's hand and the page; and which file the writer opens. *)
(***************************************************************************)
EXTENDS Log, TLAPS

(* A thread in the middle of a call has counted its message.               *)
Counted == \A t \in Threads : call[t] # "idle" => said[t] >= 1

(* A worker that has been joined logs no more.                             *)
JoinedIdle == \A w \in joined : call[w] = "idle"

(* The writer has a message in its hand exactly when it is to write it.    *)
HandFull == IF writer = "write" THEN Len(hand) = 1 ELSE hand = <<>>

(* What is in a sequence comes from its thread in order, none of it is     *)
(* still to be pushed, and it comes before what is in the next sequence.   *)
Sorted(s) ==
  \A i, j \in 1 .. Len(s) : i < j /\ s[i].from = s[j].from => s[i].n < s[j].n
Before(s, u) ==
  \A i \in 1 .. Len(s), j \in 1 .. Len(u) : s[i].from = u[j].from => s[i].n < u[j].n
Pushed(s, counts, calls) ==
  \A i \in 1 .. Len(s) :
    /\ s[i].n =< counts[s[i].from]
    /\ calls[s[i].from] # "idle" => s[i].n < counts[s[i].from]

InOrder ==
  /\ Sorted(page) /\ Sorted(hand) /\ Sorted(queue)
  /\ Before(page, hand) /\ Before(page, queue) /\ Before(hand, queue)
  /\ Pushed(page, said, call) /\ Pushed(hand, said, call) /\ Pushed(queue, said, call)

(* The thread is started after the name has become the HTML one.           *)
OpensPage ==
  /\ setting = "start" => fileName = logType
  /\ writer = "started" /\ ~reopened => fileName = "html"
  /\ out = "text" => reopened

IInv == /\ TypeOK /\ Counted
        /\ JoinedIdle /\ DestroyedLast
        /\ HandFull /\ AcceptedIsKept
        /\ InOrder
        /\ OpensPage /\ TextKept

---------------------------------------------------------------------------
(* What a sequence holds when it grows at its end or loses its head.       *)
LEMMA AppendMembers ==
  ASSUME NEW S, NEW s \in Seq(S), NEW m \in S
  PROVE  Members(Append(s, m)) = Members(s) \cup {m}
<1>1. /\ Len(Append(s, m)) = Len(s) + 1 /\ Len(s) \in Nat
      /\ Append(s, m)[Len(s) + 1] = m
      /\ \A k \in 1 .. Len(s) : Append(s, m)[k] = s[k]
  OBVIOUS
<1>2. Members(s) \cup {m} \subseteq Members(Append(s, m))
  BY <1>1 DEF Members
<1>3. ASSUME NEW x \in Members(Append(s, m))
      PROVE  x \in Members(s) \cup {m}
  <2>1. PICK k \in 1 .. Len(s) + 1 : x = Append(s, m)[k]
    BY <1>1 DEF Members
  <2>2. CASE k = Len(s) + 1
    BY <1>1, <2>1, <2>2
  <2>3. CASE k \in 1 .. Len(s)
    BY <1>1, <2>1, <2>3 DEF Members
  <2>4. QED BY <1>1, <2>2, <2>3
<1>4. QED BY <1>2, <1>3

LEMMA HeadTailMembers ==
  ASSUME NEW S, NEW s \in Seq(S), s # <<>>
  PROVE  /\ Head(s) \in S /\ Tail(s) \in Seq(S)
         /\ Len(Tail(s)) = Len(s) - 1 /\ Len(s) \in Nat \ {0}
         /\ Members(s) \subseteq Members(Tail(s)) \cup {Head(s)}
         /\ \A k \in 1 .. Len(Tail(s)) : Tail(s)[k] = s[k + 1] /\ k + 1 \in 1 .. Len(s)
         /\ Head(s) = s[1] /\ Len(<<Head(s)>>) = 1
<1>1. /\ Len(s) \in Nat \ {0} /\ Tail(s) \in Seq(S) /\ Len(Tail(s)) = Len(s) - 1
      /\ Head(s) = s[1] /\ s[1] \in S /\ Len(<<Head(s)>>) = 1
      /\ \A k \in 1 .. Len(Tail(s)) : Tail(s)[k] = s[k + 1] /\ k + 1 \in 1 .. Len(s)
  OBVIOUS
<1>2. ASSUME NEW x \in Members(s)
      PROVE  x \in Members(Tail(s)) \cup {Head(s)}
  <2>1. PICK k \in 1 .. Len(s) : x = s[k]
    BY DEF Members
  <2>2. CASE k = 1
    BY <1>1, <2>1, <2>2
  <2>3. CASE k # 1
    <3>1. k - 1 \in 1 .. Len(Tail(s)) /\ Tail(s)[k - 1] = s[k]
      BY <1>1, <2>3
    <3>2. QED BY <2>1, <3>1 DEF Members
  <2>4. QED BY <2>2, <2>3
<1>3. QED BY <1>1, <1>2

---------------------------------------------------------------------------
(* The first layer: types.                                                 *)
LEMMA PushTyped ==
  ASSUME TypeOK, Counted, NEW t \in Threads, Push(t)
  PROVE  /\ [from |-> t, n |-> said[t], kind |-> call[t]] \in Message
         /\ queue' \in Seq(Message) /\ Len(queue') =< QueueCapacity
         /\ accepted' \subseteq Message
<1> DEFINE m == [from |-> t, n |-> said[t], kind |-> call[t]]
<1>1. m \in Message
  BY LogAssumption DEF TypeOK, Counted, Push, Message
<1>2. queue \in Seq(Message) /\ Len(queue) \in Nat /\ Len(queue) =< QueueCapacity
  BY DEF TypeOK
<1>3. CASE Len(queue) < QueueCapacity
  <2>1. queue' = Append(queue, m) /\ accepted' = accepted \cup {m}
    BY <1>3 DEF Push, Behind
  <2>2. QED BY <1>1, <1>2, <1>3, <2>1, LogAssumption DEF TypeOK
<1>4. CASE ~(Len(queue) < QueueCapacity)
  BY <1>1, <1>2, <1>4 DEF Push, TypeOK
<1>5. QED BY <1>1, <1>3, <1>4

LEMMA TypeStep ==
  ASSUME TypeOK, Counted, HandFull, Next
  PROVE  TypeOK' /\ Counted'
<1> USE LogAssumption DEF Types
<1>1. ASSUME NEW t \in Threads, NEW todo \in {"row", "end", "line"}, Speak(t, todo)
      PROVE  TypeOK' /\ Counted'
  BY <1>1 DEF TypeOK, Counted, Speak, files, settings, shutdown, history
<1>2. CASE EndCallback
  BY <1>1, <1>2 DEF EndCallback, Threads
<1>3. ASSUME NEW t \in Threads, LogFunction(t)
      PROVE  TypeOK' /\ Counted'
  BY <1>1, <1>3 DEF LogFunction
<1>4. ASSUME NEW t \in Threads, Push(t)
      PROVE  TypeOK' /\ Counted'
  <2>1. /\ queue' \in Seq(Message) /\ Len(queue') =< QueueCapacity
        /\ accepted' \subseteq Message
    BY <1>4, PushTyped
  <2>2. /\ call' = [call EXCEPT ![t] = "idle"]
        /\ UNCHANGED <<logType, writer, hand, fileName, out, page, text, said, setting,
                       switches, alive, joined, unload, appended, reopened>>
    BY <1>4 DEF Push, files, settings, shutdown
  <2>3. call' \in [Threads -> {"idle", "row", "end", "line"}]
    BY <2>2 DEF TypeOK
  <2>4. TypeOK'
    BY <2>1, <2>2, <2>3 DEF TypeOK
  <2>5. QED BY <2>2, <2>4 DEF TypeOK, Counted
<1>5. ASSUME NEW t \in Threads, LogText(t)
      PROVE  TypeOK' /\ Counted'
  <2>1. [from |-> t, n |-> said[t]] \in Line
    BY <1>5 DEF TypeOK, Counted, LogText, Line
  <2>2. QED BY <1>5, <2>1 DEF TypeOK, Counted, LogText, settings, shutdown
<1>6. ASSUME NEW type \in Types, SetType(type)
      PROVE  TypeOK' /\ Counted'
  BY <1>6 DEF TypeOK, Counted, SetType, Following, files, callers, shutdown, history
<1>7. CASE Rename
  BY <1>7 DEF TypeOK, Counted, Rename, Following, callers, shutdown
<1>8. CASE Start
  BY <1>8 DEF TypeOK, Counted, Start, Following, files, callers, shutdown, history
<1>9. CASE Writer
  <2>1. CASE Open
    BY <2>1 DEF TypeOK, Counted, Open, callers, settings, shutdown, history
  <2>2. CASE OpenFails
    BY <2>2 DEF TypeOK, Counted, OpenFails, files, callers, settings, shutdown, history
  <2>3. CASE LoopTop
    BY <2>3 DEF TypeOK, Counted, LoopTop, GoesOn, files, callers, settings, shutdown, history
  <2>4. CASE Pop
    <3>1. queue \in Seq(Message) /\ Len(queue) =< QueueCapacity
      BY DEF TypeOK
    <3>2. Head(queue) \in Message /\ Tail(queue) \in Seq(Message) /\ Len(Tail(queue)) =< QueueCapacity
      BY <2>4, <3>1, HeadTailMembers DEF Pop
    <3>3. <<Head(queue)>> \in Seq(Message)
      BY <3>2
    <3>4. QED BY <2>4, <3>2, <3>3
      DEF TypeOK, Counted, Pop, Popped, files, callers, settings, shutdown, history
  <2>5. CASE Sleep
    BY <2>5 DEF TypeOK, Counted, Sleep, files, callers, settings, shutdown, history
  <2>6. CASE Write
    <3>1. hand \in Seq(Message) /\ hand # <<>> /\ page \in Seq(Message)
      <4>1. hand \in Seq(Message) /\ Len(hand) = 1 /\ page \in Seq(Message)
        BY <2>6 DEF TypeOK, HandFull, Write
      <4>2. QED BY <4>1
    <3>2. Append(page, Head(hand)) \in Seq(Message)
      BY <3>1
    <3>3. text' \subseteq Line /\ page' \in Seq(Message)
      BY <2>6, <3>1, <3>2 DEF TypeOK, Write
    <3>4. QED BY <2>6, <3>3 DEF TypeOK, Counted, Write, callers, settings, shutdown, history
  <2>7. QED BY <1>9, <2>1, <2>2, <2>3, <2>4, <2>5, <2>6 DEF Writer
<1>10. CASE Unload
  BY <1>10 DEF TypeOK, Counted, Unload, files, callers, settings, history
<1>11. ASSUME NEW w \in Workers, Join(w)
       PROVE  TypeOK' /\ Counted'
  BY <1>11 DEF TypeOK, Counted, Join, files, callers, settings, history
<1>12. CASE Destroy
  BY <1>12 DEF TypeOK, Counted, Destroy, files, callers, settings, history
<1>13. CASE JoinWriter
  BY <1>13 DEF TypeOK, Counted, JoinWriter, files, callers, settings, history
<1>14. CASE Delete
  BY <1>14 DEF TypeOK, Counted, Delete, files, callers, settings, history
<1>15. CASE Unloaded
  BY <1>15 DEF TypeOK, Counted, Unloaded, vars, files, callers, settings, shutdown, history
<1>16. QED
  BY <1>2, <1>3, <1>4, <1>5, <1>6, <1>7, <1>8, <1>9, <1>10, <1>11, <1>12, <1>13, <1>14, <1>15
  DEF Next, Logging, Setting, Unloading
---------------------------------------------------------------------------
(* The second layer: only threads that Unload has not joined are in a call. *)
LEMMA QuietStep ==
  ASSUME TypeOK, JoinedIdle, DestroyedLast, Next
  PROVE  JoinedIdle' /\ DestroyedLast'
<1> USE DEF JoinedIdle, DestroyedLast
<1>1. ASSUME NEW t \in Threads, NEW todo, Speak(t, todo)
      PROVE  JoinedIdle' /\ DestroyedLast'
  <2>1. /\ call' = [call EXCEPT ![t] = todo]
        /\ UNCHANGED <<joined, unload>>
    BY <1>1 DEF Speak, shutdown
  <2>2. t \notin joined /\ unload \notin {"stopping", "joined", "destroyed"}
    BY <1>1, LogAssumption DEF Speak, Runs, TypeOK, Threads
  <2>3. \A w \in joined : call'[w] = call[w]
    BY <2>1, <2>2 DEF TypeOK, Threads
  <2>4. QED BY <2>1, <2>2, <2>3
<1>2. CASE EndCallback
  BY <1>1, <1>2 DEF EndCallback, Threads
<1>3. ASSUME NEW t \in Threads, LogFunction(t) \/ Push(t) \/ LogText(t)
      PROVE  JoinedIdle' /\ DestroyedLast'
  <2>1. CASE LogFunction(t)
    BY <1>1, <2>1 DEF LogFunction
  <2>2. CASE Push(t) \/ LogText(t)
    <3>1. call' = [call EXCEPT ![t] = "idle"] /\ UNCHANGED <<joined, unload>>
      BY <2>2 DEF Push, LogText, shutdown
    <3>2. \A u \in Threads : call[u] = "idle" => call'[u] = "idle"
      BY <3>1 DEF TypeOK
    <3>3. QED BY <3>1, <3>2 DEF TypeOK, Threads
  <2>3. QED BY <1>3, <2>1, <2>2
<1>4. CASE Setting
  BY <1>4 DEF Setting, SetType, Rename, Start, callers, shutdown
<1>5. CASE Writer
  BY <1>5 DEF Writer, Open, OpenFails, LoopTop, Pop, Sleep, Write, callers, shutdown
<1>6. CASE Unload
  BY <1>6 DEF Unload, callers
<1>7. ASSUME NEW w \in Workers, Join(w)
      PROVE  JoinedIdle' /\ DestroyedLast'
  BY <1>7 DEF Join, callers
<1>8. CASE Destroy
  BY <1>8 DEF Destroy, HandlesCleared, callers, Threads
<1>9. CASE JoinWriter \/ Delete
  BY <1>9 DEF JoinWriter, Delete, callers
<1>10. CASE Unloaded
  BY <1>10 DEF Unloaded, vars, callers, shutdown
<1>11. QED
  BY <1>2, <1>3, <1>4, <1>5, <1>6, <1>7, <1>8, <1>9, <1>10 DEF Next, Logging, Unloading

---------------------------------------------------------------------------
(* The third layer: where a message is.                                    *)
LEMMA FlowStep ==
  ASSUME TypeOK, TypeOK', Counted, HandFull, AcceptedIsKept, Next
  PROVE  HandFull' /\ AcceptedIsKept'
<1> DEFINE Kept == <<queue, hand, page, accepted, unload>>
<1>1. ASSUME UNCHANGED Kept, UNCHANGED writer \/ (writer # "write" /\ writer' # "write")
      PROVE  HandFull' /\ AcceptedIsKept'
  BY <1>1 DEF HandFull, AcceptedIsKept, BeingWritten, Members
<1>2. ASSUME NEW t \in Threads, LogFunction(t) \/ LogText(t) \/ EndCallback
      PROVE  HandFull' /\ AcceptedIsKept'
  BY <1>1, <1>2 DEF LogFunction, LogText, EndCallback, Speak, files, shutdown, history
<1>3. ASSUME NEW t \in Threads, Push(t)
      PROVE  HandFull' /\ AcceptedIsKept'
  <2> DEFINE m == [from |-> t, n |-> said[t], kind |-> call[t]]
  <2>1. /\ UNCHANGED <<writer, hand, page, unload>>
        /\ \/ queue' = Append(queue, m) /\ accepted' = accepted \cup {m}
           \/ UNCHANGED <<queue, accepted>>
    BY <1>3 DEF Push, Behind, files, shutdown
  <2>2. m \in Message /\ queue \in Seq(Message)
    BY <1>3, PushTyped DEF TypeOK
  <2>3. CASE queue' = Append(queue, m) /\ accepted' = accepted \cup {m}
    <3>1. Members(queue') = Members(queue) \cup {m}
      BY <2>2, <2>3, AppendMembers
    <3>2. Members(page') = Members(page) /\ BeingWritten' = BeingWritten
      BY <2>1 DEF BeingWritten, Members
    <3>3. QED BY <2>1, <2>3, <3>1, <3>2 DEF HandFull, AcceptedIsKept
  <2>4. QED BY <1>1, <2>1, <2>3
<1>4. CASE Setting
  <2>1. UNCHANGED Kept
    BY <1>4 DEF Setting, SetType, Rename, Start, files, shutdown, history
  <2>2. UNCHANGED writer \/ (writer # "write" /\ writer' # "write")
    BY <1>4 DEF Setting, SetType, Rename, Start
  <2>3. QED BY <1>1, <2>1, <2>2
<1>5. CASE Writer
  <2>1. CASE Open \/ OpenFails \/ LoopTop \/ Sleep
    BY <1>1, <2>1 DEF Open, OpenFails, LoopTop, Sleep, files, shutdown, history
  <2>2. CASE Pop
    <3>1. queue \in Seq(Message) /\ queue # <<>>
      BY <2>2 DEF Pop, TypeOK
    <3>2. /\ hand' = <<Head(queue)>> /\ queue' = Tail(queue) /\ writer' = "write" /\ writer = "pop"
          /\ UNCHANGED <<page, accepted, unload>>
      BY <2>2 DEF Pop, Popped, files, shutdown, history
    <3>3. Len(hand') = 1 /\ hand'[1] = Head(queue)
      BY <3>2
    <3>4. HandFull' /\ BeingWritten' = {Head(queue)} /\ BeingWritten = {}
      BY <3>2, <3>3 DEF HandFull, BeingWritten, Members
    <3>5. Members(queue) \subseteq Members(queue') \cup {Head(queue)}
      BY <3>1, <3>2, HeadTailMembers
    <3>6. Members(page') = Members(page)
      BY <3>2 DEF Members
    <3>7. QED BY <3>2, <3>4, <3>5, <3>6 DEF AcceptedIsKept
  <2>3. CASE Write
    <3>1. /\ hand \in Seq(Message) /\ page \in Seq(Message) /\ Len(hand) = 1 /\ writer = "write"
      BY <2>3 DEF Write, HandFull, TypeOK
    <3>2. BeingWritten = {Head(hand)} /\ Head(hand) \in Message
      BY <3>1 DEF BeingWritten, Members
    <3>3. /\ hand' = <<>> /\ writer' = "pop" /\ UNCHANGED <<queue, accepted, unload>>
          /\ IF Head(hand).kind = "row" THEN page' = Append(page, Head(hand)) ELSE page' = page
      BY <2>3 DEF Write, shutdown, history
    <3>4. HandFull' /\ BeingWritten' = {} /\ Members(queue') = Members(queue)
      BY <3>3 DEF HandFull, BeingWritten, Members
    <3>5. CASE Head(hand).kind = "row"
      <4>1. page' = Append(page, Head(hand))
        BY <3>3, <3>5
      <4>2. Members(page') = Members(page) \cup {Head(hand)}
        BY <3>1, <3>2, <4>1, AppendMembers
      <4>3. QED BY <3>2, <3>3, <3>4, <4>2 DEF AcceptedIsKept
    <3>6. CASE Head(hand).kind # "row"
      <4>1. Members(page') = Members(page)
        BY <3>3, <3>6 DEF Members
      <4>2. QED BY <3>2, <3>3, <3>4, <3>6, <4>1 DEF AcceptedIsKept
    <3>7. QED BY <3>5, <3>6
  <2>4. QED BY <1>5, <2>1, <2>2, <2>3 DEF Writer
<1>6. CASE Unload \/ Destroy \/ JoinWriter \/ \E w \in Workers : Join(w)
  <2>1. UNCHANGED <<queue, hand, page, accepted, writer>> /\ unload # "destroyed"
    BY <1>6 DEF Unload, Destroy, JoinWriter, Join, files, history
  <2>2. QED BY <2>1 DEF HandFull, AcceptedIsKept, BeingWritten, Members
<1>7. CASE Delete
  BY <1>7 DEF Delete, HandFull, AcceptedIsKept, files
<1>8. CASE Unloaded
  BY <1>1, <1>8 DEF Unloaded, vars, files, shutdown, history
<1>9. QED
  BY <1>2, <1>3, <1>4, <1>5, <1>6, <1>7, <1>8 DEF Next, Logging, Unloading, Threads
---------------------------------------------------------------------------
(* The fourth layer: the order of one thread's messages.                   *)

(* A message moves from the head of one sequence to the end of the one     *)
(* before it.                                                              *)
LEMMA AppendSorted ==
  ASSUME NEW s \in Seq(Message), NEW m \in Message, Sorted(s), Before(s, <<m>>)
  PROVE  Sorted(Append(s, m))
<1>1. /\ Len(Append(s, m)) = Len(s) + 1 /\ Len(s) \in Nat
      /\ Append(s, m)[Len(s) + 1] = m
      /\ \A k \in 1 .. Len(s) : Append(s, m)[k] = s[k]
  OBVIOUS
<1>2. \A k \in 1 .. Len(s) : s[k].from = m.from => s[k].n < m.n
  BY DEF Before
<1>3. SUFFICES ASSUME NEW i \in 1 .. Len(s) + 1, NEW j \in 1 .. Len(s) + 1, i < j,
                      Append(s, m)[i].from = Append(s, m)[j].from
               PROVE  Append(s, m)[i].n < Append(s, m)[j].n
  BY <1>1 DEF Sorted
<1>4. CASE j = Len(s) + 1
  BY <1>1, <1>2, <1>3, <1>4
<1>5. CASE j \in 1 .. Len(s)
  BY <1>1, <1>3, <1>5 DEF Sorted
<1>6. QED BY <1>1, <1>4, <1>5

LEMMA AppendBefore ==
  ASSUME NEW s \in Seq(Message), NEW m \in Message, NEW u \in Seq(Message),
         Before(s, u), Before(<<m>>, u)
  PROVE  Before(Append(s, m), u)
<1>1. /\ Len(Append(s, m)) = Len(s) + 1 /\ Len(s) \in Nat
      /\ Append(s, m)[Len(s) + 1] = m
      /\ \A k \in 1 .. Len(s) : Append(s, m)[k] = s[k]
  OBVIOUS
<1>2. \A k \in 1 .. Len(u) : m.from = u[k].from => m.n < u[k].n
  BY DEF Before
<1>3. QED BY <1>1, <1>2 DEF Before

LEMMA BeforeAppend ==
  ASSUME NEW s \in Seq(Message), NEW m \in Message, NEW u \in Seq(Message),
         Before(u, s), Before(u, <<m>>)
  PROVE  Before(u, Append(s, m))
<1>1. /\ Len(Append(s, m)) = Len(s) + 1 /\ Len(s) \in Nat
      /\ Append(s, m)[Len(s) + 1] = m
      /\ \A k \in 1 .. Len(s) : Append(s, m)[k] = s[k]
  OBVIOUS
<1>2. \A k \in 1 .. Len(u) : u[k].from = m.from => u[k].n < m.n
  BY DEF Before
<1>3. QED BY <1>1, <1>2 DEF Before

(* The head of a sequence and what it leaves.                              *)
LEMMA HeadOrder ==
  ASSUME NEW s \in Seq(Message), s # <<>>, Sorted(s)
  PROVE  /\ Sorted(Tail(s)) /\ Sorted(<<Head(s)>>)
         /\ Before(<<Head(s)>>, Tail(s))
         /\ \A u \in Seq(Message) : Before(u, s) => Before(u, <<Head(s)>>) /\ Before(u, Tail(s))
         /\ \A u \in Seq(Message) : Before(s, u) => Before(<<Head(s)>>, u)
<1>1. /\ \A k \in 1 .. Len(Tail(s)) : Tail(s)[k] = s[k + 1] /\ k + 1 \in 1 .. Len(s)
      /\ Head(s) = s[1] /\ Len(s) \in Nat \ {0} /\ Len(<<Head(s)>>) = 1
      /\ Len(Tail(s)) = Len(s) - 1
  BY HeadTailMembers
<1>2. <<Head(s)>>[1] = s[1] /\ 1 \in 1 .. Len(s)
  BY <1>1
<1>3. Sorted(Tail(s))
  BY <1>1 DEF Sorted
<1>4. Sorted(<<Head(s)>>)
  BY <1>1 DEF Sorted
<1>5. Before(<<Head(s)>>, Tail(s))
  BY <1>1, <1>2 DEF Before, Sorted
<1>6. ASSUME NEW u \in Seq(Message), Before(u, s)
      PROVE  Before(u, <<Head(s)>>) /\ Before(u, Tail(s))
  BY <1>1, <1>2, <1>6 DEF Before
<1>7. ASSUME NEW u \in Seq(Message), Before(s, u)
      PROVE  Before(<<Head(s)>>, u)
  BY <1>1, <1>2, <1>7 DEF Before
<1>8. QED BY <1>3, <1>4, <1>5, <1>6, <1>7

LEMMA AppendPushed ==
  ASSUME NEW s \in Seq(Message), NEW m \in Message, NEW counts, NEW calls,
         Pushed(s, counts, calls), Pushed(<<m>>, counts, calls)
  PROVE  Pushed(Append(s, m), counts, calls)
<1>1. /\ Len(Append(s, m)) = Len(s) + 1 /\ Len(s) \in Nat
      /\ Append(s, m)[Len(s) + 1] = m
      /\ \A k \in 1 .. Len(s) : Append(s, m)[k] = s[k]
  OBVIOUS
<1>2. m.n =< counts[m.from] /\ (calls[m.from] # "idle" => m.n < counts[m.from])
  BY DEF Pushed
<1>3. QED BY <1>1, <1>2 DEF Pushed

LEMMA HeadPushed ==
  ASSUME NEW s \in Seq(Message), s # <<>>, NEW counts, NEW calls, Pushed(s, counts, calls)
  PROVE  Pushed(<<Head(s)>>, counts, calls) /\ Pushed(Tail(s), counts, calls)
<1>1. /\ \A k \in 1 .. Len(Tail(s)) : Tail(s)[k] = s[k + 1] /\ k + 1 \in 1 .. Len(s)
      /\ Head(s) = s[1] /\ Len(s) \in Nat \ {0} /\ Len(<<Head(s)>>) = 1
  BY HeadTailMembers
<1>2. <<Head(s)>>[1] = s[1] /\ 1 \in 1 .. Len(s)
  BY <1>1
<1>3. Pushed(<<Head(s)>>, counts, calls)
  <2>1. \A i \in 1 .. Len(<<Head(s)>>) : <<Head(s)>>[i] = s[1]
    BY <1>1, <1>2
  <2>2. QED BY <1>2, <2>1 DEF Pushed
<1>4. Pushed(Tail(s), counts, calls)
  BY <1>1 DEF Pushed
<1>5. QED BY <1>3, <1>4

(* A thread that begins a call counts its message first.                   *)
LEMMA SpeakPushed ==
  ASSUME TypeOK, NEW s \in Seq(Message), Pushed(s, said, call),
         NEW t \in Threads, NEW todo, Speak(t, todo)
  PROVE  Pushed(s, said', call')
<1>1. /\ call[t] = "idle" /\ call' = [call EXCEPT ![t] = todo]
      /\ said' = [said EXCEPT ![t] = said[t] + 1]
      /\ call \in [Threads -> {"idle", "row", "end", "line"}]
      /\ said \in [Threads -> 0 .. MaxMessages] /\ MaxMessages \in Nat
  BY LogAssumption DEF Speak, TypeOK
<1>2. \A i \in 1 .. Len(s) : s[i].from \in Threads /\ s[i].n \in 1 .. MaxMessages
  <2>1. \A i \in 1 .. Len(s) : s[i] \in Message
    OBVIOUS
  <2>2. QED BY <2>1 DEF Message
<1>3. SUFFICES ASSUME NEW i \in 1 .. Len(s)
               PROVE  /\ s[i].n =< said'[s[i].from]
                      /\ call'[s[i].from] # "idle" => s[i].n < said'[s[i].from]
  BY DEF Pushed
<1>4. CASE s[i].from = t
  BY <1>1, <1>2, <1>4 DEF Pushed
<1>5. CASE s[i].from # t
  BY <1>1, <1>2, <1>5 DEF Pushed
<1>6. QED BY <1>4, <1>5

(* A thread that ends its call has nothing left to push.                   *)
LEMMA IdlePushed ==
  ASSUME TypeOK, NEW s \in Seq(Message), Pushed(s, said, call), NEW t \in Threads,
         call' = [call EXCEPT ![t] = "idle"], said' = said
  PROVE  Pushed(s, said', call')
<1>1. \A i \in 1 .. Len(s) : s[i].from \in Threads
  <2>1. \A i \in 1 .. Len(s) : s[i] \in Message
    OBVIOUS
  <2>2. QED BY <2>1 DEF Message
<1>2. QED BY <1>1 DEF Pushed, TypeOK

LEMMA OrderStep ==
  ASSUME TypeOK, Counted, HandFull, InOrder, Next
  PROVE  InOrder'
<1>1. /\ page \in Seq(Message) /\ hand \in Seq(Message) /\ queue \in Seq(Message)
      /\ <<>> \in Seq(Message)
      /\ \A s \in Seq(Message) : Before(s, <<>>) /\ Before(<<>>, s)
      /\ Sorted(<<>>) /\ Pushed(<<>>, said, call)
  BY DEF TypeOK, Before, Sorted, Pushed
<1>2. ASSUME NEW t \in Threads, NEW todo, Speak(t, todo)
      PROVE  InOrder'
  <2>1. UNCHANGED <<page, hand, queue>>
    BY <1>2 DEF Speak, files
  <2>2. /\ Pushed(page, said', call') /\ Pushed(hand, said', call')
        /\ Pushed(queue, said', call')
    BY <1>1, <1>2, SpeakPushed DEF InOrder
  <2>3. QED BY <2>1, <2>2 DEF InOrder, Sorted, Before
<1>3. CASE EndCallback
  BY <1>2, <1>3 DEF EndCallback, Threads
<1>4. ASSUME NEW t \in Threads, LogFunction(t)
      PROVE  InOrder'
  BY <1>2, <1>4 DEF LogFunction
<1>5. ASSUME NEW t \in Threads, Push(t)
      PROVE  InOrder'
  <2> DEFINE m == [from |-> t, n |-> said[t], kind |-> call[t]]
  <2>1. /\ call' = [call EXCEPT ![t] = "idle"] /\ call[t] # "idle"
        /\ UNCHANGED <<page, hand, said>>
        /\ \/ queue' = Append(queue, m)
           \/ queue' = queue
    BY <1>5 DEF Push, Behind, files
  <2>2. m \in Message /\ m.from = t /\ m.n = said[t]
    BY <1>5, PushTyped
  <2>3. /\ Pushed(page, said', call') /\ Pushed(hand, said', call')
        /\ Pushed(queue, said', call')
    BY <1>1, <2>1, IdlePushed DEF InOrder
  <2>4. CASE queue' = Append(queue, m)
    <3>1. Before(page, <<m>>) /\ Before(hand, <<m>>) /\ Before(queue, <<m>>)
      BY <2>1, <2>2 DEF InOrder, Before, Pushed
    <3>2. Sorted(queue') /\ Before(page, queue') /\ Before(hand, queue')
      BY <1>1, <2>2, <2>4, <3>1, AppendSorted, BeforeAppend DEF InOrder
    <3>3. Pushed(<<m>>, said', call')
      BY <2>1, <2>2 DEF Pushed, TypeOK, Message
    <3>4. Pushed(queue', said', call')
      BY <1>1, <2>2, <2>3, <2>4, <3>3, AppendPushed
    <3>5. QED BY <2>1, <2>3, <3>2, <3>4 DEF InOrder
  <2>5. CASE queue' = queue
    BY <2>1, <2>3, <2>5 DEF InOrder
  <2>6. QED BY <2>1, <2>4, <2>5
<1>6. ASSUME NEW t \in Threads, LogText(t)
      PROVE  InOrder'
  <2>1. /\ call' = [call EXCEPT ![t] = "idle"]
        /\ UNCHANGED <<page, hand, queue, said>>
    BY <1>6 DEF LogText
  <2>2. /\ Pushed(page, said', call') /\ Pushed(hand, said', call')
        /\ Pushed(queue, said', call')
    BY <1>1, <2>1, IdlePushed DEF InOrder
  <2>3. QED BY <2>1, <2>2 DEF InOrder
<1>7. CASE Pop
  <2>1. /\ queue # <<>> /\ hand = <<>>
        /\ hand' = <<Head(queue)>> /\ queue' = Tail(queue)
        /\ UNCHANGED <<page, said, call>>
    BY <1>7 DEF Pop, HandFull, files, callers
  <2>2. /\ Sorted(queue') /\ Sorted(hand') /\ Before(hand', queue')
        /\ Before(page, hand') /\ Before(page, queue')
    BY <1>1, <2>1, HeadOrder DEF InOrder
  <2>3. Pushed(hand', said, call) /\ Pushed(queue', said, call)
    BY <1>1, <2>1, HeadPushed DEF InOrder
  <2>4. QED BY <2>1, <2>2, <2>3 DEF InOrder
<1>8. CASE Write
  <2>1. /\ Len(hand) = 1 /\ hand' = <<>> /\ UNCHANGED <<queue, said, call>>
        /\ page' = Append(page, Head(hand)) \/ page' = page
    BY <1>8 DEF Write, HandFull, callers
  <2>2. /\ Head(hand) \in Message /\ Before(page, <<Head(hand)>>)
        /\ Before(<<Head(hand)>>, queue) /\ Pushed(<<Head(hand)>>, said, call)
    <3>1. hand # <<>>
      BY <2>1
    <3>2. QED BY <1>1, <3>1, HeadTailMembers, HeadOrder, HeadPushed DEF InOrder
  <2>3. Sorted(page') /\ Before(page', queue) /\ Pushed(page', said, call)
    <3>1. CASE page' = Append(page, Head(hand))
      BY <1>1, <2>2, <3>1, AppendSorted, AppendBefore, AppendPushed DEF InOrder
    <3>2. CASE page' = page
      BY <3>2 DEF InOrder
    <3>3. QED BY <2>1, <3>1, <3>2
  <2>4. page' \in Seq(Message)
    BY <1>1, <2>1, <2>2
  <2>5. Before(page', hand') /\ Before(hand', queue)
    BY <1>1, <2>1, <2>4
  <2>6. QED BY <1>1, <2>1, <2>3, <2>5 DEF InOrder
<1>9. CASE Delete
  BY <1>1, <1>9 DEF Delete, InOrder, files, callers
<1>10. ASSUME UNCHANGED <<page, hand, queue, said, call>>
       PROVE  InOrder'
  BY <1>10 DEF InOrder
<1>11. CASE Setting \/ Unload \/ Destroy \/ JoinWriter \/ \E w \in Workers : Join(w)
  BY <1>10, <1>11
  DEF Setting, SetType, Rename, Start, Unload, Destroy, JoinWriter, Join, files, callers
<1>12. CASE Open \/ OpenFails \/ LoopTop \/ Sleep \/ Unloaded
  BY <1>10, <1>12 DEF Open, OpenFails, LoopTop, Sleep, Unloaded, vars, files, callers
<1>13. QED
  BY <1>3, <1>4, <1>5, <1>6, <1>7, <1>8, <1>9, <1>11, <1>12
  DEF Next, Logging, Writer, Unloading

---------------------------------------------------------------------------
(* The fifth layer: the writer opens the page.                             *)
LEMMA TextStep ==
  ASSUME TypeOK, OpensPage, TextKept, Next
  PROVE  OpensPage' /\ TextKept'
<1> USE DEF OpensPage, TextKept
<1>1. ASSUME UNCHANGED <<fileName, logType, setting, writer, out, reopened, text, appended>>
      PROVE  OpensPage' /\ TextKept'
  BY <1>1
<1>2. ASSUME NEW t \in Threads, LogFunction(t) \/ Push(t) \/ EndCallback
      PROVE  OpensPage' /\ TextKept'
  BY <1>1, <1>2 DEF LogFunction, Push, EndCallback, Speak, files, settings, history
<1>3. ASSUME NEW t \in Threads, LogText(t)
      PROVE  OpensPage' /\ TextKept'
  BY <1>3 DEF LogText, settings
<1>4. ASSUME NEW type \in Types, SetType(type)
      PROVE  OpensPage' /\ TextKept'
  BY <1>4 DEF SetType, Following, files, history
<1>5. CASE Rename
  BY <1>5 DEF Rename, Following
<1>6. CASE Start
  BY <1>6 DEF Start, Following, files, history
<1>7. CASE Open
  BY <1>7 DEF Open, settings, history
<1>8. CASE Write
  <2>1. ~reopened' => text' = text
    BY <1>8 DEF Write, history
  <2>2. QED BY <1>8, <2>1 DEF Write, settings, history
<1>9. CASE OpenFails \/ LoopTop \/ Pop \/ Sleep
  BY <1>9 DEF OpenFails, LoopTop, Pop, Popped, Sleep, files, settings, history
<1>10. CASE Unload \/ Unloading \/ Unloaded
  BY <1>1, <1>10
  DEF Unload, Unloading, Destroy, JoinWriter, Delete, Join, Unloaded, vars,
      files, settings, history
<1>11. QED
  BY <1>2, <1>3, <1>4, <1>5, <1>6, <1>7, <1>8, <1>9, <1>10
  DEF Next, Logging, Setting, Writer, Threads

---------------------------------------------------------------------------
LEMMA InitIInv == Init => IInv
<1> SUFFICES ASSUME Init PROVE IInv
  OBVIOUS
<1>1. TypeOK /\ Counted
  <2>1. queue \in Seq(Message) /\ Len(queue) =< QueueCapacity
    BY LogAssumption DEF Init
  <2>2. hand \in Seq(Message) /\ page \in Seq(Message)
    BY DEF Init
  <2>3. /\ call \in [Threads -> {"idle", "row", "end", "line"}]
        /\ said \in [Threads -> 0 .. MaxMessages]
    BY LogAssumption DEF Init
  <2>4. /\ switches \in 0 .. MaxSwitches /\ setting = "done"
        /\ joined \subseteq Workers /\ unload = "no" /\ alive \in BOOLEAN
    BY LogAssumption DEF Init
  <2>5. /\ logType \in Types /\ fileName \in Types /\ out = "none" /\ writer = "none"
        /\ text \subseteq Line /\ accepted \subseteq Message /\ appended \subseteq Line
        /\ reopened \in BOOLEAN
    BY DEF Init, Types
  <2>6. TypeOK
    BY <2>1, <2>2, <2>3, <2>4, <2>5 DEF TypeOK
  <2>7. QED BY <2>6 DEF Init, Counted
<1>2. JoinedIdle /\ DestroyedLast /\ HandFull /\ AcceptedIsKept
  BY DEF Init, JoinedIdle, DestroyedLast, HandFull, AcceptedIsKept
<1>3. InOrder
  BY DEF Init, InOrder, Sorted, Before, Pushed
<1>4. OpensPage /\ TextKept
  BY DEF Init, OpensPage, TextKept
<1>5. QED BY <1>1, <1>2, <1>3, <1>4 DEF IInv

LEMMA NextIInv == IInv /\ [Next]_vars => IInv'
<1> SUFFICES ASSUME IInv, [Next]_vars PROVE IInv'
  OBVIOUS
<1>1. CASE Next
  <2>1. TypeOK' /\ Counted'
    BY <1>1, TypeStep DEF IInv
  <2>2. QED BY <1>1, <2>1, QuietStep, FlowStep, OrderStep, TextStep DEF IInv
<1>2. CASE UNCHANGED vars
  <2>1. /\ UNCHANGED <<logType, writer, queue, hand, fileName, out, page, text, call, said>>
        /\ UNCHANGED <<setting, switches, alive, joined, unload, accepted, appended, reopened>>
    BY <1>2 DEF vars, files, callers, settings, shutdown, history
  <2>2. TypeOK' /\ Counted' /\ JoinedIdle' /\ DestroyedLast'
    BY <2>1 DEF IInv, TypeOK, Counted, JoinedIdle, DestroyedLast
  <2>3. HandFull' /\ AcceptedIsKept' /\ InOrder'
    BY <2>1 DEF IInv, HandFull, AcceptedIsKept, BeingWritten, Members, InOrder
  <2>4. OpensPage' /\ TextKept'
    BY <2>1 DEF IInv, OpensPage, TextKept
  <2>5. QED BY <2>2, <2>3, <2>4 DEF IInv
<1>3. QED BY <1>1, <1>2

LEMMA SpecIInv == Spec => []IInv
BY InitIInv, NextIInv, PTL DEF Spec

---------------------------------------------------------------------------
(* Every variable stays in its type: the queue in its capacity.            *)
THEOREM LogTypeCorrect == Spec => []TypeOK
BY SpecIInv, PTL DEF IInv

(* No thread is inside the log, or will enter it, when Unload destroys it. *)
THEOREM LogDestroyedLast == Spec => []DestroyedLast
BY SpecIInv, PTL DEF IInv

(* While the log lives, a message the queue has accepted is in the file or *)
(* on its way to it.                                                       *)
THEOREM LogKeepsAccepted == Spec => []AcceptedIsKept
BY SpecIInv, PTL DEF IInv

(* The rows of one thread are in the file in the order it logged them.     *)
THEOREM LogOrdersRows == Spec => []RowsInOrder
<1>1. IInv => RowsInOrder
  BY DEF IInv, InOrder, Sorted, RowsInOrder
<1>2. QED BY <1>1, SpecIInv, PTL

(* The log thread empties the text file only if mysql_log has changed the  *)
(* name before it opened its own.                                          *)
THEOREM LogKeepsText == Spec => []TextKept
BY SpecIInv, PTL DEF IInv
=============================================================================
