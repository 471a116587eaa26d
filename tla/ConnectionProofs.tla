--------------------------- MODULE ConnectionProofs ---------------------------
(***************************************************************************)
(* The session of a threaded connection, for any queue capacity and any    *)
(* number of native calls, and the table of the handles the connections    *)
(* belong to (Registry), for any servers, limits, connection files and     *)
(* number of handles.                                                      *)
(***************************************************************************)
EXTENDS Connection, Registry, TLAPS, FiniteSetTheorems, WellFoundedInduction

(* The natives post these and nothing else.                                *)
PostingKnown ==
  posting \in {<<>>, <<"Connect">>, <<"Disconnect", "Connect">>} \cup {<<n>> : n \in Charsets}

HasConnect(s) == \E j \in 1 .. Len(s) : s[j] = "Connect"

(* As long as nothing was deferred and no attempt has failed, every        *)
(* Disconnect still to run is followed by a Connect.                       *)
ConnectFollows ==
  \A i \in 1 .. Len(funcs) : funcs[i] = "Disconnect" =>
    \/ \E j \in 1 .. Len(funcs) : i < j /\ funcs[j] = "Connect"
    \/ HasConnect(posting)

(* Likewise a connection that is not open has a Connect before it.         *)
ConnectComes ==
  connected \/ wpc = "connect" \/ HasConnect(funcs) \/ HasConnect(posting)

Settling ==
  running /\ ~unsettled => deferred = <<>> /\ ConnectFollows /\ ConnectComes

(* SetCharset is never put aside.                                          *)
DeferredKnown == deferred \in Seq({"Disconnect"})

(* The last character set asked for is about to be posted, or is the last  *)
(* in the queue, or the session has it.                                    *)
NoName(s) == \A j \in 1 .. Len(s) : s[j] \notin Charsets

LastName(s) ==
  \E j \in 1 .. Len(s) :
    s[j] = asked /\ \A k \in 1 .. Len(s) : j < k => s[k] \notin Charsets

Kept ==
  ~forgotten => /\ connected => charset = asked
                /\ ~connected /\ wpc # "deleted" => asked = "default"

Naming ==
  \/ asked \in Charsets /\ posting = <<asked>>
  \/ NoName(posting) /\ asked \in Charsets /\ LastName(funcs)
  \/ NoName(posting) /\ NoName(funcs) /\ Kept

(* Only the worker's own reconnect leaves the object null in between.      *)
IInv ==
  /\ TypeOK /\ PostingKnown
  /\ connected \/ wpc \in {"exec", "query"} => session # "none"
  /\ NoSessionLeaked
  /\ Settling
  /\ DeferredKnown /\ Naming

---------------------------------------------------------------------------
(* Steps that touch neither the queues nor the session keep the names.     *)
LEMMA SameNaming ==
  ASSUME IInv, UNCHANGED <<connected, funcs, deferred, posting, names>>,
         wpc = "deleted" => wpc' = "deleted"
  PROVE  (DeferredKnown /\ Naming)'
BY DEF IInv, DeferredKnown, Naming, NoName, LastName, Kept, names

(* A function that is not a SetCharset leaves the queue.                   *)
LEMMA BehindHead ==
  ASSUME IInv, funcs # <<>>, Head(funcs) \notin Charsets,
         funcs' = Tail(funcs), asked' = asked, posting' = posting
  PROVE  /\ NoName(funcs) => NoName(funcs)'
         /\ asked \in Charsets /\ LastName(funcs) => LastName(funcs)'
         /\ NoName(posting) => NoName(posting)'
<1>1. /\ Len(funcs) \in Nat \ {0} /\ Len(funcs') = Len(funcs) - 1
      /\ \A i \in 1 .. Len(funcs) - 1 : funcs'[i] = funcs[i + 1]
      /\ funcs[1] = Head(funcs)
  BY DEF IInv, TypeOK
<1>2. NoName(funcs) => NoName(funcs)'
  BY <1>1 DEF NoName
<1>3. ASSUME LastName(funcs), asked \in Charsets PROVE LastName(funcs)'
  <2>1. PICK j \in 1 .. Len(funcs) :
          funcs[j] = asked /\ \A k \in 1 .. Len(funcs) : j < k => funcs[k] \notin Charsets
    BY <1>3 DEF LastName
  <2>2. j # 1
    BY <1>1, <1>3, <2>1
  <2>3. j - 1 \in 1 .. Len(funcs') /\ funcs'[j - 1] = asked
    BY <1>1, <2>1, <2>2
  <2>4. \A k \in 1 .. Len(funcs') : j - 1 < k => funcs'[k] \notin Charsets
    BY <1>1, <2>1
  <2>5. QED
    BY <2>3, <2>4 DEF LastName
<1>4. NoName(posting) => NoName(posting)'
  BY DEF NoName
<1>5. QED
  BY <1>2, <1>3, <1>4

(* The function the native posts joins the queue's end.                    *)
LEMMA PostInv == ASSUME IInv, Post PROVE IInv'
<1>1. TypeOK'
  BY DEF IInv, TypeOK, Post, Behind, object, names
<1>2. PostingKnown'
  <2>1. posting # <<>> /\ posting' = Tail(posting)
    BY DEF Post
  <2>2. CASE posting = <<"Disconnect", "Connect">>
    <3>1. Tail(posting) = <<"Connect">>
      BY <2>2
    <3>2. QED BY <2>1, <3>1 DEF PostingKnown
  <2>3. ASSUME NEW f, posting = <<f>>
        PROVE  PostingKnown'
    <3>1. Tail(posting) = <<>>
      BY <2>3
    <3>2. QED BY <2>1, <3>1 DEF PostingKnown
  <2>4. QED BY <2>1, <2>2 DEF IInv, PostingKnown
<1>3. (connected \/ wpc \in {"exec", "query"} => session # "none")'
  BY DEF IInv, Post
<1>4. NoSessionLeaked'
  BY DEF IInv, Post, NoSessionLeaked
<1>5. Settling'
  <2> SUFFICES ASSUME running, ~unsettled
               PROVE  (deferred = <<>> /\ ConnectFollows /\ ConnectComes)'
    BY DEF Post, Settling, object
  <2>1. deferred = <<>> /\ ConnectFollows /\ ConnectComes
    BY DEF IInv, Settling
  <2>2. /\ Len(funcs') = Len(funcs) + 1 /\ funcs'[Len(funcs) + 1] = Head(posting)
        /\ \A i \in 1 .. Len(funcs) : funcs'[i] = funcs[i]
        /\ Len(funcs) \in Nat
    BY DEF Post, Behind, IInv, TypeOK
  <2>3. ASSUME NEW n \in Charsets, posting = <<n>>
        PROVE  (deferred = <<>> /\ ConnectFollows /\ ConnectComes)'
    <3>1. ~HasConnect(posting) /\ Head(posting) = n /\ n \notin {"Connect", "Disconnect"}
      BY <2>3, ConnectionAssumption DEF HasConnect
    <3>2. QED
      BY <2>1, <2>2, <3>1 DEF Post, Behind, ConnectFollows, ConnectComes, HasConnect
  <2>4. CASE posting = <<"Connect">>
    <3>1. Head(posting) = "Connect"
      BY <2>4
    <3>2. QED
      BY <2>1, <2>2, <3>1 DEF Post, Behind, ConnectFollows, ConnectComes, HasConnect
  <2>5. CASE posting = <<"Disconnect", "Connect">>
    <3>1. posting' = <<"Connect">> /\ deferred' = deferred
      BY <2>5 DEF Post
    <3>2. HasConnect(posting)'
      BY <3>1 DEF HasConnect
    <3>3. QED
      BY <2>1, <3>1, <3>2 DEF ConnectFollows, ConnectComes
  <2>6. QED
    BY <2>3, <2>4, <2>5 DEF IInv, PostingKnown, Post
<1>6. (DeferredKnown /\ Naming)'
  <2>1. /\ posting # <<>> /\ posting' = Tail(posting)
        /\ funcs' = Append(funcs, Head(posting))
        /\ UNCHANGED <<connected, deferred, wpc, names>>
    BY DEF Post, Behind
  <2>2. /\ Len(funcs') = Len(funcs) + 1 /\ funcs'[Len(funcs) + 1] = Head(posting)
        /\ \A i \in 1 .. Len(funcs) : funcs'[i] = funcs[i]
        /\ Len(funcs) \in Nat
    BY <2>1 DEF IInv, TypeOK
  <2>3. CASE asked \in Charsets /\ posting = <<asked>>
    <3>1. Head(posting) = asked /\ posting' = <<>>
      BY <2>1, <2>3
    <3>2. LastName(funcs)'
      BY <2>1, <2>2, <3>1 DEF LastName, names
    <3>3. NoName(posting)'
      BY <3>1 DEF NoName
    <3>4. QED
      BY <2>1, <2>3, <3>2, <3>3 DEF IInv, Naming, DeferredKnown, names
  <2>4. CASE NoName(posting)
    <3>1. Head(posting) \notin Charsets /\ NoName(posting)'
      BY <2>1, <2>4 DEF NoName, IInv, TypeOK
    <3>2. ASSUME LastName(funcs) PROVE LastName(funcs)'
      <4>1. PICK j \in 1 .. Len(funcs) :
              funcs[j] = asked /\ \A k \in 1 .. Len(funcs) : j < k => funcs[k] \notin Charsets
        BY <3>2 DEF LastName
      <4>2. asked' = asked /\ funcs'[j] = asked /\ j \in 1 .. Len(funcs')
        BY <2>1, <2>2, <4>1 DEF names
      <4>3. \A k \in 1 .. Len(funcs') : j < k => funcs'[k] \notin Charsets
        BY <2>2, <3>1, <4>1
      <4>4. QED
        BY <4>2, <4>3 DEF LastName
    <3>3. NoName(funcs) => NoName(funcs)'
      BY <2>2, <3>1 DEF NoName
    <3>4. Kept => Kept'
      BY <2>1 DEF Kept, names
    <3>5. asked' = asked /\ DeferredKnown' /\ ~(asked \in Charsets /\ posting = <<asked>>)
      BY <2>1, <2>4 DEF IInv, DeferredKnown, names, NoName
    <3>6. QED
      BY <2>4, <3>1, <3>2, <3>3, <3>4, <3>5 DEF IInv, Naming
  <2>5. QED
    BY <2>3, <2>4 DEF IInv, Naming
<1>7. QED
  BY <1>1, <1>2, <1>3, <1>4, <1>5, <1>6 DEF IInv

(* mysql_reconnect posts a Connect behind its Disconnect.                  *)
LEMMA ReconnectInv == ASSUME IInv, Reconnect PROVE IInv'
<1>1. TypeOK'
  BY ConnectionAssumption
     DEF IInv, TypeOK, Reconnect, Call, Reconnecting, object, Functions
<1>2. PostingKnown'
  BY DEF Reconnect, Call, Reconnecting, PostingKnown
<1>3. (connected \/ wpc \in {"exec", "query"} => session # "none")'
  BY DEF IInv, Reconnect, Call
<1>4. NoSessionLeaked'
  BY DEF IInv, Reconnect, Call, NoSessionLeaked
<1>5. Settling'
  BY DEF IInv, TypeOK, Reconnect, Call, Reconnecting, NoneRequested, Settling,
         ConnectFollows, ConnectComes, HasConnect
<1>6. (DeferredKnown /\ Naming)'
  <2>1. NoName(posting)'
    BY ConnectionAssumption DEF Reconnect, Call, Reconnecting, NoName
  <2>2. posting = <<>> /\ UNCHANGED <<connected, funcs, deferred, wpc, names>>
    BY DEF Reconnect, Call, names
  <2>3. QED
    BY <2>1, <2>2 DEF IInv, DeferredKnown, Naming, NoName, LastName, Kept, names
<1>7. QED
  BY <1>1, <1>2, <1>3, <1>4, <1>5, <1>6 DEF IInv

(* mysql_connect for an open handle posts a Connect alone.                 *)
LEMMA ConnectDuplicateInv == ASSUME IInv, ConnectDuplicate PROVE IInv'
<1>1. TypeOK'
  BY ConnectionAssumption
     DEF IInv, TypeOK, ConnectDuplicate, Call, object, Functions
<1>2. PostingKnown'
  BY DEF ConnectDuplicate, Call, PostingKnown
<1>3. (connected \/ wpc \in {"exec", "query"} => session # "none")'
  BY DEF IInv, ConnectDuplicate, Call
<1>4. NoSessionLeaked'
  BY DEF IInv, ConnectDuplicate, Call, NoSessionLeaked
<1>5. Settling'
  BY DEF IInv, TypeOK, ConnectDuplicate, Call, NoneRequested, Settling,
         ConnectFollows, ConnectComes, HasConnect
<1>6. (DeferredKnown /\ Naming)'
  <2>1. NoName(posting)'
    BY ConnectionAssumption DEF ConnectDuplicate, Call, NoName
  <2>2. posting = <<>> /\ UNCHANGED <<connected, funcs, deferred, wpc, names>>
    BY DEF ConnectDuplicate, Call, names
  <2>3. QED
    BY <2>1, <2>2 DEF IInv, DeferredKnown, Naming, NoName, LastName, Kept, names
<1>7. QED
  BY <1>1, <1>2, <1>3, <1>4, <1>5, <1>6 DEF IInv

(* mysql_set_charset posts no Disconnect.                                  *)
LEMMA SetCharsetInv ==
  ASSUME IInv, NEW name \in Charsets, SetCharset(name)
  PROVE  IInv'
<1>1. TypeOK'
  BY ConnectionAssumption DEF IInv, TypeOK, SetCharset, Call, object, Functions
<1>2. PostingKnown'
  BY DEF SetCharset, Call, PostingKnown
<1>3. (connected \/ wpc \in {"exec", "query"} => session # "none")'
  BY DEF IInv, SetCharset, Call
<1>4. NoSessionLeaked'
  BY DEF IInv, SetCharset, Call, NoSessionLeaked
<1>5. Settling'
  BY DEF IInv, SetCharset, Call, Settling, ConnectFollows, ConnectComes,
         HasConnect
<1>6. (DeferredKnown /\ Naming)'
  BY DEF IInv, SetCharset, Call, DeferredKnown, Naming
<1>7. QED
  BY <1>1, <1>2, <1>3, <1>4, <1>5, <1>6 DEF IInv

(* A query joins the queue.                                                *)
LEMMA SubmitInv == ASSUME IInv, Submit PROVE IInv'
<1>1. TypeOK'
  BY ConnectionAssumption DEF IInv, TypeOK, Submit, HasRoom, object, requestVars, names
<1>2. PostingKnown'
  BY DEF Submit, requestVars, PostingKnown
<1>3. (connected \/ wpc \in {"exec", "query"} => session # "none")'
  BY DEF IInv, Submit
<1>4. NoSessionLeaked'
  BY DEF IInv, Submit, NoSessionLeaked
<1>5. Settling'
  BY DEF IInv, Submit, requestVars, Settling, ConnectFollows, ConnectComes
<1>6. (DeferredKnown /\ Naming)'
  BY SameNaming DEF Submit, requestVars
<1>7. QED
  BY <1>1, <1>2, <1>3, <1>4, <1>5, <1>6 DEF IInv

(* The destructor stops the worker: nothing more is promised.              *)
LEMMA StopInv == ASSUME IInv, Stop PROVE IInv'
<1>1. TypeOK'
  BY DEF IInv, TypeOK, Stop, requestVars, names
<1>2. PostingKnown'
  BY DEF Stop, requestVars, PostingKnown
<1>3. (connected \/ wpc \in {"exec", "query"} => session # "none")'
  BY DEF IInv, Stop
<1>4. NoSessionLeaked'
  BY DEF IInv, Stop, NoSessionLeaked
<1>5. Settling'
  BY DEF Stop, Settling
<1>6. (DeferredKnown /\ Naming)'
  BY SameNaming DEF Stop, requestVars
<1>7. QED
  BY <1>1, <1>2, <1>3, <1>4, <1>5, <1>6 DEF IInv

(* The destructor closes the session.                                      *)
LEMMA DeleteInv == ASSUME IInv, Delete PROVE IInv'
<1>1. TypeOK'
  <2>1. queue' \in 0 .. QueueCap
    BY ConnectionAssumption DEF Delete
  <2>2. QED
    BY <2>1 DEF IInv, TypeOK, Delete, object, requestVars, names
<1>2. PostingKnown'
  BY DEF IInv, Delete, requestVars, PostingKnown
<1>3. (connected \/ wpc \in {"exec", "query"} => session # "none")'
  BY DEF Delete
<1>4. NoSessionLeaked'
  BY DEF Delete, NoSessionLeaked
<1>5. Settling'
  BY DEF Delete, object, Settling
<1>6. (DeferredKnown /\ Naming)'
  BY DEF IInv, Delete, requestVars, names, DeferredKnown, Naming, NoName, LastName, Kept
<1>7. QED
  BY <1>1, <1>2, <1>3, <1>4, <1>5, <1>6 DEF IInv

(* The worker starts an iteration, or returns.                             *)
LEMMA LoopTopInv == ASSUME IInv, LoopTop PROVE IInv'
<1>1. TypeOK'
  BY DEF IInv, TypeOK, LoopTop, object, requestVars, names
<1>2. PostingKnown'
  BY DEF IInv, LoopTop, requestVars, PostingKnown
<1>3. (connected \/ wpc \in {"exec", "query"} => session # "none")'
  BY DEF IInv, LoopTop
<1>4. NoSessionLeaked'
  BY DEF IInv, LoopTop, NoSessionLeaked
<1>5. Settling'
  BY DEF IInv, LoopTop, object, requestVars, Settling, ConnectFollows,
         ConnectComes
<1>6. (DeferredKnown /\ Naming)'
  BY SameNaming DEF LoopTop, requestVars
<1>7. QED
  BY <1>1, <1>2, <1>3, <1>4, <1>5, <1>6 DEF IInv

(* Connect opens the session, or reports a failure.                        *)
LEMMA RunConnectInv == ASSUME IInv, RunConnect PROVE IInv'
<1>1. TypeOK'
  <2>1. funcs' \in Seq(Functions)
    BY DEF RunConnect, IInv, TypeOK
  <2>2. QED
    BY <2>1 DEF IInv, TypeOK, RunConnect, Establish, object
<1>2. PostingKnown'
  BY DEF IInv, RunConnect, PostingKnown
<1>3. (connected \/ wpc \in {"exec", "query"} => session # "none")'
  BY DEF IInv, RunConnect, Establish
<1>4. NoSessionLeaked'
  BY DEF RunConnect, Establish, NoSessionLeaked
<1>5. Settling'
  <2> SUFFICES ASSUME running, ~unsettled, ~unsettled'
               PROVE  (deferred = <<>> /\ ConnectFollows /\ ConnectComes)'
    BY DEF RunConnect, Settling, object, Establish
  <2>1. deferred = <<>> /\ ConnectFollows /\ ConnectComes
    BY DEF IInv, Settling
  <2>2. /\ Len(funcs) \in Nat \ {0} /\ Len(funcs') = Len(funcs) - 1
        /\ \A i \in 1 .. Len(funcs) - 1 : funcs'[i] = funcs[i + 1]
        /\ funcs[1] = Head(funcs)
    BY DEF RunConnect
  <2>3. \A i \in 1 .. Len(funcs) : i # 1 => i - 1 \in 1 .. Len(funcs') /\ funcs'[i - 1] = funcs[i]
    BY <2>2
  <2>4. ConnectFollows'
    <3>1. ASSUME NEW i \in 1 .. Len(funcs'), funcs'[i] = "Disconnect"
          PROVE  \/ \E j \in 1 .. Len(funcs') : i < j /\ funcs'[j] = "Connect"
                 \/ HasConnect(posting)
      <4>1. i + 1 \in 1 .. Len(funcs) /\ funcs[i + 1] = "Disconnect"
        BY <2>2, <3>1
      <4>2. CASE \E j \in 1 .. Len(funcs) : i + 1 < j /\ funcs[j] = "Connect"
        <5>1. PICK j \in 1 .. Len(funcs) : i + 1 < j /\ funcs[j] = "Connect"
          BY <4>2
        <5>2. j - 1 \in 1 .. Len(funcs') /\ i < j - 1 /\ funcs'[j - 1] = "Connect"
          BY <2>3, <5>1
        <5>3. QED BY <5>2
      <4>3. QED BY <2>1, <4>1, <4>2 DEF ConnectFollows
    <3>2. QED BY <3>1 DEF RunConnect, ConnectFollows
  <2>5. connected'
    BY DEF RunConnect, Establish
  <2>6. QED
    BY <2>1, <2>4, <2>5 DEF RunConnect, ConnectComes
<1>6. (DeferredKnown /\ Naming)'
  <2>1. Kept => Kept'
    BY DEF RunConnect, Establish, Kept
  <2>2. QED
    BY <2>1, ConnectionAssumption, BehindHead DEF IInv, RunConnect, Establish, DeferredKnown, Naming
<1>7. QED
  BY <1>1, <1>2, <1>3, <1>4, <1>5, <1>6 DEF IInv

(* Disconnect closes the session: a Connect is still to run.               *)
LEMMA RunDisconnectInv == ASSUME IInv, RunDisconnect PROVE IInv'
<1>1. TypeOK'
  <2>1. funcs' \in Seq(Functions)
    BY DEF RunDisconnect, IInv, TypeOK
  <2>2. QED
    BY <2>1
       DEF IInv, TypeOK, RunDisconnect, HangUp, ClosedSession, NotConnected,
           object
<1>2. PostingKnown'
  BY DEF IInv, RunDisconnect, PostingKnown
<1>3. (connected \/ wpc \in {"exec", "query"} => session # "none")'
  BY DEF RunDisconnect, HangUp, NotConnected
<1>4. NoSessionLeaked'
  BY DEF IInv, RunDisconnect, HangUp, ClosedSession, NoSessionLeaked
<1>5. Settling'
  <2> SUFFICES ASSUME running, ~unsettled, ~unsettled'
               PROVE  (deferred = <<>> /\ ConnectFollows /\ ConnectComes)'
    BY DEF RunDisconnect, Settling, object
  <2>1. deferred = <<>> /\ ConnectFollows /\ ConnectComes
    BY DEF IInv, Settling
  <2>2. /\ Len(funcs) \in Nat \ {0} /\ Len(funcs') = Len(funcs) - 1
        /\ \A i \in 1 .. Len(funcs) - 1 : funcs'[i] = funcs[i + 1]
        /\ funcs[1] = Head(funcs)
    BY DEF RunDisconnect
  <2>3. \A i \in 1 .. Len(funcs) : i # 1 => i - 1 \in 1 .. Len(funcs') /\ funcs'[i - 1] = funcs[i]
    BY <2>2
  <2>4. ConnectFollows'
    <3>1. ASSUME NEW i \in 1 .. Len(funcs'), funcs'[i] = "Disconnect"
          PROVE  \/ \E j \in 1 .. Len(funcs') : i < j /\ funcs'[j] = "Connect"
                 \/ HasConnect(posting)
      <4>1. i + 1 \in 1 .. Len(funcs) /\ funcs[i + 1] = "Disconnect"
        BY <2>2, <3>1
      <4>2. CASE \E j \in 1 .. Len(funcs) : i + 1 < j /\ funcs[j] = "Connect"
        <5>1. PICK j \in 1 .. Len(funcs) : i + 1 < j /\ funcs[j] = "Connect"
          BY <4>2
        <5>2. j - 1 \in 1 .. Len(funcs') /\ i < j - 1 /\ funcs'[j - 1] = "Connect"
          BY <2>3, <5>1
        <5>3. QED BY <5>2
      <4>3. QED BY <2>1, <4>1, <4>2 DEF ConnectFollows
    <3>2. QED BY <3>1 DEF RunDisconnect, ConnectFollows
  <2>5. HasConnect(funcs)' \/ HasConnect(posting)'
    <3>1. 1 \in 1 .. Len(funcs) /\ funcs[1] = "Disconnect"
      BY DEF RunDisconnect
    <3>2. HasConnect(posting) \/ \E j \in 1 .. Len(funcs) : 1 < j /\ funcs[j] = "Connect"
      BY <2>1, <3>1 DEF ConnectFollows
    <3>3. QED
      BY <3>2 DEF RunDisconnect, HasConnect
  <2>6. QED
    BY <2>1, <2>4, <2>5 DEF RunDisconnect, ConnectComes
<1>6. (DeferredKnown /\ Naming)'
  <2>1. Kept => Kept'
    BY DEF RunDisconnect, HangUp, NotConnected, Kept
  <2>2. QED
    BY <2>1, ConnectionAssumption, BehindHead DEF IInv, RunDisconnect, HangUp, DeferredKnown, Naming
<1>7. QED
  BY <1>1, <1>2, <1>3, <1>4, <1>5, <1>6 DEF IInv

(* A Disconnect that meets waiting queries.                                *)
LEMMA DeferDisconnectInv == ASSUME IInv, DeferDisconnect PROVE IInv'
<1>1. TypeOK'
  BY DEF IInv, TypeOK, DeferDisconnect, PutAside, object, names
<1>2. PostingKnown'
  BY DEF IInv, DeferDisconnect, PostingKnown
<1>3. (connected \/ wpc \in {"exec", "query"} => session # "none")'
  BY DEF IInv, DeferDisconnect
<1>4. NoSessionLeaked'
  BY DEF IInv, DeferDisconnect, NoSessionLeaked
<1>5. Settling'
  BY DEF DeferDisconnect, Settling
<1>6. (DeferredKnown /\ Naming)'
  <2>1. Kept => Kept'
    BY DEF DeferDisconnect, names, Kept
  <2>2. deferred' \in Seq({"Disconnect"})
    BY DEF IInv, DeferredKnown, DeferDisconnect, PutAside
  <2>3. QED
    BY <2>1, <2>2, ConnectionAssumption, BehindHead
       DEF IInv, DeferDisconnect, PutAside, names, DeferredKnown, Naming
<1>7. QED
  BY <1>1, <1>2, <1>3, <1>4, <1>5, <1>6 DEF IInv

(* A command on the session.                                               *)
LEMMA RunSetCharsetInv == ASSUME IInv, RunSetCharset PROVE IInv'
<1>1. TypeOK'
  <2>1. funcs' \in Seq(Functions)
    BY DEF RunSetCharset, IInv, TypeOK
  <2>2. session' \in {"none", "init", "live", "lost"}
    BY DEF RunSetCharset, Named, NotNamed, AfterCommand, IInv, TypeOK
  <2>3. {charset, asked}' \subseteq Charsets \cup {"default"} /\ forgotten' \in BOOLEAN
    BY DEF RunSetCharset, Named, NotNamed, IInv, TypeOK
  <2>4. QED
    BY <2>1, <2>2, <2>3 DEF IInv, TypeOK, RunSetCharset, object
<1>2. PostingKnown'
  BY DEF IInv, RunSetCharset, PostingKnown
<1>3. (connected \/ wpc \in {"exec", "query"} => session # "none")'
  BY DEF IInv, RunSetCharset, Named, NotNamed, AfterCommand
<1>4. NoSessionLeaked'
  BY DEF IInv, RunSetCharset, Named, NotNamed, AfterCommand, NoSessionLeaked
<1>5. Settling'
  <2> SUFFICES ASSUME running, ~unsettled, ~unsettled'
               PROVE  (deferred = <<>> /\ ConnectFollows /\ ConnectComes)'
    BY DEF RunSetCharset, Settling, object
  <2>1. deferred = <<>> /\ ConnectFollows /\ ConnectComes
    BY DEF IInv, Settling
  <2>2. /\ Len(funcs) \in Nat \ {0} /\ Len(funcs') = Len(funcs) - 1
        /\ \A i \in 1 .. Len(funcs) - 1 : funcs'[i] = funcs[i + 1]
        /\ funcs[1] = Head(funcs)
    BY DEF RunSetCharset
  <2>3. \A i \in 1 .. Len(funcs) : i # 1 => i - 1 \in 1 .. Len(funcs') /\ funcs'[i - 1] = funcs[i]
    BY <2>2
  <2>4. ConnectFollows'
    <3>1. ASSUME NEW i \in 1 .. Len(funcs'), funcs'[i] = "Disconnect"
          PROVE  \/ \E j \in 1 .. Len(funcs') : i < j /\ funcs'[j] = "Connect"
                 \/ HasConnect(posting)
      <4>1. i + 1 \in 1 .. Len(funcs) /\ funcs[i + 1] = "Disconnect"
        BY <2>2, <3>1
      <4>2. CASE \E j \in 1 .. Len(funcs) : i + 1 < j /\ funcs[j] = "Connect"
        <5>1. PICK j \in 1 .. Len(funcs) : i + 1 < j /\ funcs[j] = "Connect"
          BY <4>2
        <5>2. j - 1 \in 1 .. Len(funcs') /\ i < j - 1 /\ funcs'[j - 1] = "Connect"
          BY <2>3, <5>1
        <5>3. QED BY <5>2
      <4>3. QED BY <2>1, <4>1, <4>2 DEF ConnectFollows
    <3>2. QED BY <3>1 DEF RunSetCharset, ConnectFollows
  <2>5. HasConnect(funcs) => HasConnect(funcs)'
    <3>1. funcs[1] # "Connect"
      BY <2>2, ConnectionAssumption DEF RunSetCharset
    <3>2. QED BY <2>2, <2>3, <3>1 DEF HasConnect
  <2>6. QED
    BY <2>1, <2>4, <2>5 DEF RunSetCharset, ConnectComes
<1>6. (DeferredKnown /\ Naming)'
  <2>1. /\ asked' = asked /\ funcs' = Tail(funcs) /\ posting' = posting
        /\ funcs \in Seq(Functions) /\ funcs # <<>> /\ Head(funcs) \in Charsets
        /\ deferred' = deferred
    BY DEF IInv, TypeOK, RunSetCharset
  <2>2. ASSUME asked \in Charsets, LastName(funcs), NoName(funcs)'
        PROVE  asked = Head(funcs)
    <3>1. PICK j \in 1 .. Len(funcs) : funcs[j] = asked
      BY <2>2 DEF LastName
    <3>2. /\ Len(funcs) \in Nat \ {0} /\ Len(funcs') = Len(funcs) - 1
          /\ \A i \in 1 .. Len(funcs') : funcs'[i] = funcs[i + 1]
          /\ funcs[1] = Head(funcs)
      BY <2>1
    <3>3. ASSUME j # 1 PROVE FALSE
      <4>1. j - 1 \in 1 .. Len(funcs') /\ funcs'[j - 1] = asked
        BY <3>1, <3>2, <3>3
      <4>2. QED BY <2>2, <4>1 DEF NoName
    <3>4. QED BY <3>1, <3>2, <3>3
  <2>3. ASSUME LastName(funcs), ~NoName(funcs)'
        PROVE  LastName(funcs)'
    <3>1. PICK j \in 1 .. Len(funcs) :
            /\ funcs[j] = asked
            /\ \A k \in 1 .. Len(funcs) : j < k => funcs[k] \notin Charsets
      BY <2>3 DEF LastName
    <3>2. /\ Len(funcs) \in Nat \ {0} /\ Len(funcs') = Len(funcs) - 1
          /\ \A i \in 1 .. Len(funcs') : funcs'[i] = funcs[i + 1]
      BY <2>1
    <3>3. PICK i \in 1 .. Len(funcs') : funcs'[i] \in Charsets
      BY <2>3 DEF NoName
    <3>4. i + 1 \in 1 .. Len(funcs) /\ funcs[i + 1] \in Charsets
      BY <3>2, <3>3
    <3>5. ~(j < i + 1)
      BY <3>1, <3>4
    <3>6. j - 1 \in 1 .. Len(funcs') /\ funcs'[j - 1] = asked
      BY <3>1, <3>2, <3>3, <3>5
    <3>7. ASSUME NEW k \in 1 .. Len(funcs'), j - 1 < k
          PROVE  funcs'[k] \notin Charsets
      <4>1. k + 1 \in 1 .. Len(funcs) /\ j < k + 1 /\ funcs'[k] = funcs[k + 1]
        BY <3>2, <3>7
      <4>2. QED BY <3>1, <4>1
    <3>8. QED BY <2>1, <3>6, <3>7 DEF LastName
  <2>4. asked = Head(funcs) => Kept'
    BY <2>1 DEF RunSetCharset, Named, NotNamed, Kept
  <2>5. ~NoName(funcs)
    BY <2>1 DEF NoName
  <2>6. QED
    BY <2>1, <2>2, <2>3, <2>4, <2>5 DEF IInv, DeferredKnown, Naming, NoName
<1>7. QED
  BY <1>1, <1>2, <1>3, <1>4, <1>5, <1>6 DEF IInv

(* The posted functions have run.                                          *)
LEMMA DrainedInv == ASSUME IInv, Drained PROVE IInv'
<1>1. TypeOK'
  BY DEF IInv, TypeOK, Drained, object, requestVars, names
<1>2. PostingKnown'
  BY DEF IInv, Drained, requestVars, PostingKnown
<1>3. (connected \/ wpc \in {"exec", "query"} => session # "none")'
  BY DEF IInv, Drained
<1>4. NoSessionLeaked'
  BY DEF IInv, Drained, NoSessionLeaked
<1>5. Settling'
  BY DEF IInv, Drained, object, requestVars, Settling, ConnectFollows,
         ConnectComes
<1>6. (DeferredKnown /\ Naming)'
  BY SameNaming DEF Drained, requestVars
<1>7. QED
  BY <1>1, <1>2, <1>3, <1>4, <1>5, <1>6 DEF IInv

(* The worker takes a query: it has an object to run it on.                *)
LEMMA PopQueryInv == ASSUME IInv, PopQuery PROVE IInv'
<1>1. TypeOK'
  BY ConnectionAssumption DEF IInv, TypeOK, PopQuery, object, requestVars, names
<1>2. PostingKnown'
  BY DEF IInv, PopQuery, requestVars, PostingKnown
<1>3. (connected \/ wpc \in {"exec", "query"} => session # "none")'
  BY DEF IInv, PopQuery
<1>4. NoSessionLeaked'
  BY DEF IInv, PopQuery, NoSessionLeaked
<1>5. Settling'
  BY DEF IInv, PopQuery, requestVars, Settling, ConnectFollows, ConnectComes
<1>6. (DeferredKnown /\ Naming)'
  BY SameNaming DEF PopQuery, requestVars
<1>7. QED
  BY <1>1, <1>2, <1>3, <1>4, <1>5, <1>6 DEF IInv

(* No query is waiting.                                                    *)
LEMMA NothingToDoInv == ASSUME IInv, NothingToDo PROVE IInv'
<1>1. TypeOK'
  BY DEF IInv, TypeOK, NothingToDo, object, requestVars, names
<1>2. PostingKnown'
  BY DEF IInv, NothingToDo, requestVars, PostingKnown
<1>3. (connected \/ wpc \in {"exec", "query"} => session # "none")'
  BY DEF IInv, NothingToDo
<1>4. NoSessionLeaked'
  BY DEF IInv, NothingToDo, NoSessionLeaked
<1>5. Settling'
  BY DEF IInv, NothingToDo, object, requestVars, Settling, ConnectFollows,
         ConnectComes
<1>6. (DeferredKnown /\ Naming)'
  BY SameNaming DEF NothingToDo, requestVars
<1>7. QED
  BY <1>1, <1>2, <1>3, <1>4, <1>5, <1>6 DEF IInv

(* The query has run.                                                      *)
LEMMA ExecutedInv == ASSUME IInv, Executed PROVE IInv'
<1>1. TypeOK'
  BY DEF IInv, TypeOK, Executed, AfterCommand, object, requestVars, names
<1>2. PostingKnown'
  BY DEF IInv, Executed, requestVars, PostingKnown
<1>3. (connected \/ wpc \in {"exec", "query"} => session # "none")'
  BY DEF IInv, Executed, AfterCommand
<1>4. NoSessionLeaked'
  BY DEF IInv, Executed, NoSessionLeaked
<1>5. Settling'
  BY DEF IInv, Executed, object, requestVars, Settling, ConnectFollows,
         ConnectComes
<1>6. (DeferredKnown /\ Naming)'
  BY SameNaming DEF Executed, requestVars
<1>7. QED
  BY <1>1, <1>2, <1>3, <1>4, <1>5, <1>6 DEF IInv

(* The worker hangs up, when no query waits, and will connect again.       *)
LEMMA ServerGoneInv == ASSUME IInv, ServerGone PROVE IInv'
<1>1. TypeOK'
  BY DEF IInv, TypeOK, ServerGone, HangUp, ClosedSession, NotConnected, object,
         requestVars, names
<1>2. PostingKnown'
  BY DEF IInv, ServerGone, requestVars, PostingKnown
<1>3. (connected \/ wpc \in {"exec", "query"} => session # "none")'
  BY DEF ServerGone, HangUp, NotConnected
<1>4. NoSessionLeaked'
  BY DEF IInv, ServerGone, HangUp, ClosedSession, NoSessionLeaked
<1>5. Settling'
  BY DEF IInv, ServerGone, object, requestVars, Settling, ConnectFollows,
         ConnectComes
<1>6. (DeferredKnown /\ Naming)'
  BY DEF IInv, ServerGone, HangUp, NotConnected, requestVars, names,
         DeferredKnown, Naming, NoName, LastName, Kept
<1>7. QED
  BY <1>1, <1>2, <1>3, <1>4, <1>5, <1>6 DEF IInv

(* The worker connects again.                                              *)
LEMMA ConnectAgainInv == ASSUME IInv, ConnectAgain PROVE IInv'
<1>1. TypeOK'
  BY DEF IInv, TypeOK, ConnectAgain, Establish, object, requestVars
<1>2. PostingKnown'
  BY DEF IInv, ConnectAgain, requestVars, PostingKnown
<1>3. (connected \/ wpc \in {"exec", "query"} => session # "none")'
  BY DEF IInv, ConnectAgain, Establish
<1>4. NoSessionLeaked'
  BY DEF ConnectAgain, Establish, NoSessionLeaked
<1>5. Settling'
  BY DEF IInv, ConnectAgain, Establish, object, requestVars, Settling,
         ConnectFollows, ConnectComes
<1>6. (DeferredKnown /\ Naming)'
  BY DEF IInv, ConnectAgain, Establish, requestVars, DeferredKnown, Naming,
         NoName, LastName, Kept
<1>7. QED
  BY <1>1, <1>2, <1>3, <1>4, <1>5, <1>6 DEF IInv

(* Deferred functions return to the queue.                                 *)
LEMMA RequeueInv == ASSUME IInv, Requeue PROVE IInv'
<1>1. TypeOK'
  BY DEF IInv, TypeOK, Requeue, object, names
<1>2. PostingKnown'
  BY DEF IInv, Requeue, PostingKnown
<1>3. (connected \/ wpc \in {"exec", "query"} => session # "none")'
  BY DEF IInv, Requeue
<1>4. NoSessionLeaked'
  BY DEF IInv, Requeue, NoSessionLeaked
<1>5. Settling'
  BY DEF IInv, Requeue, object, Settling, ConnectFollows, ConnectComes
<1>6. (DeferredKnown /\ Naming)'
  <2>1. /\ funcs \in Seq(Functions) /\ deferred \in Seq({"Disconnect"})
        /\ funcs' = funcs \o deferred /\ deferred' = <<>>
        /\ UNCHANGED <<connected, posting, names>> /\ wpc # "deleted"
    BY DEF IInv, TypeOK, DeferredKnown, Requeue
  <2>2. NoName(deferred)
    BY <2>1, ConnectionAssumption DEF NoName
  <2>3. /\ NoName(funcs) => NoName(funcs)'
        /\ LastName(funcs) => LastName(funcs)'
    <3>1. /\ Len(funcs') = Len(funcs) + Len(deferred)
          /\ Len(funcs) \in Nat /\ Len(deferred) \in Nat
          /\ \A i \in 1 .. Len(funcs) : funcs'[i] = funcs[i]
          /\ \A i \in 1 .. Len(funcs') :
               i > Len(funcs) => i - Len(funcs) \in 1 .. Len(deferred)
                                 /\ funcs'[i] = deferred[i - Len(funcs)]
      BY <2>1
    <3>2. \A i \in 1 .. Len(funcs') : i > Len(funcs) => funcs'[i] \notin Charsets
      BY <2>2, <3>1 DEF NoName
    <3>3. NoName(funcs) => NoName(funcs)'
      BY <3>1, <3>2 DEF NoName
    <3>4. ASSUME LastName(funcs) PROVE LastName(funcs)'
      <4>1. PICK j \in 1 .. Len(funcs) :
              funcs[j] = asked /\ \A k \in 1 .. Len(funcs) : j < k => funcs[k] \notin Charsets
        BY <3>4 DEF LastName
      <4>2. j \in 1 .. Len(funcs') /\ funcs'[j] = asked' /\ asked' = asked
        BY <2>1, <3>1, <4>1 DEF names
      <4>3. \A k \in 1 .. Len(funcs') : j < k => funcs'[k] \notin Charsets
        BY <3>1, <3>2, <4>1
      <4>4. QED BY <4>2, <4>3 DEF LastName
    <3>5. QED BY <3>3, <3>4
  <2>4. DeferredKnown'
    BY <2>1 DEF DeferredKnown
  <2>5. QED
    BY <2>1, <2>3, <2>4 DEF IInv, Naming, NoName, Kept, names
<1>7. QED
  BY <1>1, <1>2, <1>3, <1>4, <1>5, <1>6 DEF IInv

(* The database stops.                                                     *)
LEMMA ServerStopsInv == ASSUME IInv, ServerStops PROVE IInv'
<1>1. TypeOK'
  BY DEF IInv, TypeOK, ServerStops, Lost, object, requestVars, names
<1>2. PostingKnown'
  BY DEF IInv, ServerStops, requestVars, PostingKnown
<1>3. (connected \/ wpc \in {"exec", "query"} => session # "none")'
  BY DEF IInv, ServerStops, Lost
<1>4. NoSessionLeaked'
  BY DEF IInv, ServerStops, Lost, NoSessionLeaked
<1>5. Settling'
  BY DEF IInv, ServerStops, object, requestVars, Settling, ConnectFollows,
         ConnectComes
<1>6. (DeferredKnown /\ Naming)'
  BY SameNaming DEF ServerStops, requestVars
<1>7. QED
  BY <1>1, <1>2, <1>3, <1>4, <1>5, <1>6 DEF IInv

(* The database starts.                                                    *)
LEMMA ServerStartsInv == ASSUME IInv, ServerStarts PROVE IInv'
<1>1. TypeOK'
  BY DEF IInv, TypeOK, ServerStarts, object, requestVars, names
<1>2. PostingKnown'
  BY DEF IInv, ServerStarts, requestVars, PostingKnown
<1>3. (connected \/ wpc \in {"exec", "query"} => session # "none")'
  BY DEF IInv, ServerStarts
<1>4. NoSessionLeaked'
  BY DEF IInv, ServerStarts, NoSessionLeaked
<1>5. Settling'
  BY DEF IInv, ServerStarts, object, requestVars, Settling, ConnectFollows,
         ConnectComes
<1>6. (DeferredKnown /\ Naming)'
  BY SameNaming DEF ServerStarts, requestVars
<1>7. QED
  BY <1>1, <1>2, <1>3, <1>4, <1>5, <1>6 DEF IInv

(* The database closes the session.                                        *)
LEMMA SessionTimesOutInv == ASSUME IInv, SessionTimesOut PROVE IInv'
<1>1. TypeOK'
  BY DEF IInv, TypeOK, SessionTimesOut, Lost, object, requestVars, names
<1>2. PostingKnown'
  BY DEF IInv, SessionTimesOut, requestVars, PostingKnown
<1>3. (connected \/ wpc \in {"exec", "query"} => session # "none")'
  BY DEF SessionTimesOut, Lost
<1>4. NoSessionLeaked'
  BY DEF IInv, SessionTimesOut, NoSessionLeaked
<1>5. Settling'
  BY DEF IInv, SessionTimesOut, object, requestVars, Settling, ConnectFollows,
         ConnectComes
<1>6. (DeferredKnown /\ Naming)'
  BY SameNaming DEF SessionTimesOut, requestVars
<1>7. QED
  BY <1>1, <1>2, <1>3, <1>4, <1>5, <1>6 DEF IInv

---------------------------------------------------------------------------
(* The connection starts without a session and with a Connect to post.     *)
LEMMA InitInv == ASSUME Init PROVE IInv
<1>1. TypeOK
  <2>1. queue \in 0 .. QueueCap /\ calls \in 0 .. MaxCalls
    BY ConnectionAssumption DEF Init
  <2>2. posting \in Seq(Functions)
    BY DEF Init, Functions
  <2>3. funcs \in Seq(Functions) /\ deferred \in Seq(Functions)
    BY DEF Init
  <2>4. QED
    BY <2>1, <2>2, <2>3 DEF Init, TypeOK
<1>2. HasConnect(posting)
  BY DEF Init, HasConnect
<1>3. DeferredKnown /\ Naming
  BY ConnectionAssumption DEF Init, DeferredKnown, Naming, NoName, Kept
<1>4. QED
  BY <1>1, <1>2, <1>3
     DEF Init, IInv, PostingKnown, NoSessionLeaked, Settling, ConnectFollows,
         ConnectComes

(* Every step preserves the invariant.                                     *)
LEMMA NextInv == ASSUME IInv, [Next]_vars PROVE IInv'
<1>1. CASE Main
  BY <1>1, PostInv, ReconnectInv, ConnectDuplicateInv, SetCharsetInv, SubmitInv, StopInv, DeleteInv
     DEF Main
<1>2. CASE LoopTop \/ RunFunction \/ Requeue
  BY <1>2, LoopTopInv, RunConnectInv, RunDisconnectInv, DeferDisconnectInv,
     RunSetCharsetInv, DrainedInv, RequeueInv DEF RunFunction
<1>3. CASE RunQuery
  BY <1>3, PopQueryInv, NothingToDoInv, ExecutedInv, ServerGoneInv,
     ConnectAgainInv DEF RunQuery
<1>4. CASE Server
  BY <1>4, ServerStopsInv, ServerStartsInv, SessionTimesOutInv DEF Server
<1>5. CASE UNCHANGED vars
  BY <1>5
     DEF vars, object, requestVars, IInv, TypeOK, PostingKnown, NoSessionLeaked,
         Settling, ConnectFollows, ConnectComes, DeferredKnown, Naming, NoName,
         LastName, Kept, names
<1>6. QED
  BY <1>1, <1>2, <1>3, <1>4, <1>5 DEF Next, Worker, Deleted

(* The inductive invariant holds for any capacity and any calls.           *)
THEOREM Inductive == Spec => []IInv
<1>1. Init => IInv
  BY InitInv
<1>2. IInv /\ [Next]_vars => IInv'
  BY NextInv
<1>3. QED
  BY <1>1, <1>2, PTL DEF Spec

(* The connection's fields have their types.                               *)
THEOREM ConnectionTypes == Spec => []TypeOK
<1>1. IInv => TypeOK
  BY DEF IInv
<1>2. QED
  BY <1>1, Inductive, PTL

(* No query is executed on a null MYSQL pointer, whenever queries arrive,  *)
(* attempts fail and the database goes away.                               *)
THEOREM ExecutesOnObject == Spec => []ObjectThere
<1>1. IInv => ObjectThere
  BY DEF IInv, ObjectThere
<1>2. QED
  BY <1>1, Inductive, PTL

(* An open session is never overwritten by a second connection attempt.    *)
THEOREM OneSession == Spec => []NoSessionLeaked
<1>1. IInv => NoSessionLeaked
  BY DEF IInv
<1>2. QED
  BY <1>1, Inductive, PTL

(* A session has the character set last asked for, however requests,       *)
(* queries, timeouts and restarts of the database interleave, unless the   *)
(* command failed or the plugin itself replaced the session.               *)
THEOREM CharsetStays == Spec => []CharsetKept
<1>1. ASSUME IInv PROVE CharsetKept
  <2>1. ASSUME NoneRequested, connected, ~forgotten PROVE charset = asked
    <3>1. posting = <<>> /\ ~LastName(funcs)
      BY <2>1 DEF NoneRequested, LastName
    <3>2. QED
      BY <1>1, <2>1, <3>1 DEF IInv, Naming, Kept
  <2>2. QED
    BY <2>1 DEF CharsetKept
<1>2. QED
  BY <1>1, Inductive, PTL

(* mysql_reconnect leaves the connection open, unless an attempt fails or  *)
(* its Disconnect is deferred.                                             *)
THEOREM ReconnectReopens == Spec => []ReconnectRestores
<1>1. ASSUME IInv PROVE ReconnectRestores
  <2>1. ASSUME NoneRequested, wpc # "connect", running, ~unsettled
        PROVE  connected
    <3>1. ~HasConnect(funcs) /\ ~HasConnect(posting)
      BY <2>1 DEF NoneRequested, HasConnect
    <3>2. QED
      BY <1>1, <2>1, <3>1 DEF IInv, Settling, ConnectComes
  <2>2. QED
    BY <2>1 DEF ReconnectRestores
<1>2. QED
  BY <1>1, Inductive, PTL

---------------------------------------------------------------------------
(* The table of handles (Registry).                                        *)
(*                                                                         *)
(* One handle per server: what is added to the property (ServerInv) is     *)
(* that duplicates are allowed only after they have been.                  *)
(*                                                                         *)
(* Types and owned connections (OInv) need each other: the number of       *)
(* connections stays a natural number because no more are destroyed than   *)
(* the handles own.  The connections of a set of handles are counted as a  *)
(* set of pairs, so that adding and removing handles adds and removes      *)
(* pairs.                                                                  *)
ServerInv == (duplicates => allowed) /\ OneHandlePerServer

(* A handle that is added is for a server no open handle is for, and takes *)
(* an id that is not in use.                                               *)
LEMMA AddInv ==
  ASSUME ServerInv, NEW s, Add(s), UNCHANGED <<duplicates, allowed>>
  PROVE  ServerInv'
<1>1. PICK id \in NewIds : handles' = Inserted(id, s)
  BY DEF Add
<1>2. /\ Open' = Open \cup {id}
      /\ \A i \in Open : handles'[i] = handles[i]
      /\ id \notin Open => handles'[id] = s
  BY <1>1 DEF Inserted, Open
<1>3. ASSUME ~allowed
      PROVE  \A i \in Open : ~SameServer(handles[i], s)
  BY <1>3 DEF ServerInv, Add, Matching
<1>4. ASSUME ~allowed, NEW a \in Open', NEW b \in Open', Target(a)' = Target(b)'
      PROVE  a = b
  <2>1. CASE a \in Open /\ b \in Open
    BY <1>2, <1>4, <2>1 DEF ServerInv, OneHandlePerServer, Target
  <2>2. CASE a \in Open /\ b \notin Open
    BY <1>2, <1>3, <1>4, <2>2 DEF Target, SameServer
  <2>3. CASE a \notin Open /\ b \in Open
    BY <1>2, <1>3, <1>4, <2>3 DEF Target, SameServer
  <2>4. CASE a \notin Open /\ b \notin Open
    BY <1>2, <2>4
  <2>5. QED BY <2>1, <2>2, <2>3, <2>4
<1>5. QED BY <1>4 DEF ServerInv, OneHandlePerServer

(* CMySQLHandle::Create, for all three natives.                            *)
LEMMA CreateInv ==
  ASSUME ServerInv, NEW server, NEW port, NEW reconnect, NEW pool, NEW tls,
         Create(server, port, reconnect, pool, tls)
  PROVE  ServerInv'
<1>1. ASSUME UNCHANGED handles
      PROVE  ServerInv'
  BY <1>1 DEF Create, ServerInv, OneHandlePerServer, Open, Target
<1>2. CASE Accepts(port, pool)
  <2>1. PICK s : Reuse(s) \/ Add(s)
    BY <1>2 DEF Create
  <2>2. UNCHANGED <<duplicates, allowed>>
    BY DEF Create
  <2>3. CASE Reuse(s)
    BY <1>1, <2>3 DEF Reuse
  <2>4. CASE Add(s)
    BY <2>2, <2>4, AddInv
  <2>5. QED BY <2>1, <2>3, <2>4
<1>3. CASE ~Accepts(port, pool)
  BY <1>1, <1>3 DEF Create
<1>4. QED BY <1>2, <1>3

(* mysql_close and ClearAll.                                               *)
LEMMA RemoveInv ==
  ASSUME ServerInv, NEW ids, handles' = Without(ids), UNCHANGED <<duplicates, allowed>>
  PROVE  ServerInv'
<1>1. Open' = Open \ ids /\ \A i \in Open' : handles'[i] = handles[i]
  BY DEF Without, Open
<1>2. QED BY <1>1 DEF ServerInv, OneHandlePerServer, Target

LEMMA NextServer == ServerInv /\ [TableNext]_tableVars => ServerInv'
<1> SUFFICES ASSUME ServerInv, [TableNext]_tableVars PROVE ServerInv'
  OBVIOUS
<1>1. ASSUME NEW server \in Servers, NEW port \in Cells, NEW reconnect \in BOOLEAN,
             NEW pool \in Cells, Connect(server, port, reconnect, pool)
      PROVE  ServerInv'
  BY <1>1, CreateInv DEF Connect
<1>2. ASSUME NEW server \in Servers, NEW authority, NEW port \in Cells,
             NEW reconnect \in BOOLEAN, NEW pool \in Cells,
             ConnectSSL(server, authority, port, reconnect, pool)
      PROVE  ServerInv'
  BY <1>2, CreateInv DEF ConnectSSL
<1>3. ASSUME NEW file \in Files, ConnectFile(file)
      PROVE  ServerInv'
  BY <1>3, CreateInv DEF ConnectFile
<1>4. ASSUME NEW id \in Open, Close(id)
      PROVE  ServerInv'
  BY <1>4, RemoveInv DEF Close
<1>5. ASSUME NEW value \in BOOLEAN, Option(value)
      PROVE  ServerInv'
  BY <1>5 DEF Option, ServerInv, OneHandlePerServer, Open, Target
<1>6. CASE ClearAll
  BY <1>6, RemoveInv DEF ClearAll
<1>7. CASE Unloaded \/ UNCHANGED tableVars
  BY <1>7 DEF Unloaded, tableVars, ServerInv, OneHandlePerServer, Open, Target
<1>8. QED BY <1>1, <1>2, <1>3, <1>4, <1>5, <1>6, <1>7 DEF TableNext

---------------------------------------------------------------------------
(* Unless duplicates have been allowed, a server has one handle, whichever *)
(* native and options it was opened with.                                  *)
THEOREM OneHandle == TableSpec => []OneHandlePerServer
<1>1. TableInit => ServerInv
  BY DEF TableInit, ServerInv, OneHandlePerServer, Open
<1>2. ServerInv => OneHandlePerServer
  BY DEF ServerInv
<1>3. QED BY <1>1, <1>2, NextServer, PTL DEF TableSpec

---------------------------------------------------------------------------
(* A finite set of numbers has a largest one.                              *)
LEMMA Largest ==
  ASSUME NEW S \in SUBSET Nat, IsFiniteSet(S), S # {}
  PROVE  \E x \in S : \A y \in S : y =< x
<1> DEFINE Above(x) == {y \in S : x < y}
           Families == {Above(x) : x \in S}
<1>1. Families \subseteq FiniteSubsetsOf(S) /\ Families # {}
  <2>1. ASSUME NEW x \in S
        PROVE  Above(x) \in FiniteSubsetsOf(S)
    <3>1. Above(x) \in SUBSET S
      OBVIOUS
    <3>2. IsFiniteSet(Above(x))
      BY <3>1, FS_Subset
    <3>3. QED BY <3>1, <3>2 DEF FiniteSubsetsOf
  <2>2. QED BY <2>1
<1>2. PICK A \in Families : \A B \in Families : ~(<<B, A>> \in StrictSubsetOrdering(S))
  BY <1>1, FS_StrictSubsetOrderingWellFounded, WFMin
<1>3. PICK x \in S : A = Above(x)
  OBVIOUS
<1>4. ASSUME NEW y \in S, x < y PROVE FALSE
  <2>1. x \in Nat /\ y \in Nat
    OBVIOUS
  <2>2. Above(y) \subseteq Above(x) /\ y \in Above(x) /\ y \notin Above(y)
    <3>1. \A z \in S : z \in Int
      OBVIOUS
    <3>2. y \in Above(x)
      BY <1>4
    <3>3. y \notin Above(y)
      BY <2>1
    <3>4. ASSUME NEW z \in S, y < z
          PROVE  x < z
      BY <1>4, <3>1, <3>4
    <3>5. Above(y) \subseteq Above(x)
      BY <3>4
    <3>6. QED BY <3>2, <3>3, <3>5
  <2>3. Above(y) \in SUBSET S /\ Above(x) \in SUBSET S /\ Above(y) # Above(x)
    BY <2>2
  <2>4. <<Above(y), A>> \in StrictSubsetOrdering(S)
    BY <1>3, <2>2, <2>3 DEF StrictSubsetOrdering
  <2>5. Above(y) \in Families
    OBVIOUS
  <2>6. QED
    BY <1>2, <2>4, <2>5
<1>5. QED
  <2>1. \A y \in S : y \in Nat
    OBVIOUS
  <2>2. QED BY <1>4, <2>1


(* The connections of some open handles can be counted.                    *)
LEMMA ConnectionsFinite ==
  ASSUME TableTypeOK, NEW ids \in SUBSET Open
  PROVE  IsFiniteSet(ConnectionsOf(ids)) /\ OwnedBy(ids) \in Nat
<1>1. MaxPool + 2 \in Int /\ MaxId \in Int
  BY RegistryAssumption
<1>2. IsFiniteSet(1 .. MaxId) /\ IsFiniteSet(1 .. MaxPool + 2)
  BY <1>1, FS_Interval
<1>3. ids \in SUBSET (1 .. MaxId)
  BY DEF TableTypeOK
<1>4. IsFiniteSet(ids)
  BY <1>2, <1>3, FS_Subset
<1>5. IsFiniteSet(ids \X (1 .. MaxPool + 2))
  BY <1>2, <1>4, FS_Product
<1>6. ConnectionsOf(ids) \in SUBSET (ids \X (1 .. MaxPool + 2))
  BY DEF ConnectionsOf
<1>7. IsFiniteSet(ConnectionsOf(ids))
  BY <1>5, <1>6, FS_Subset
<1>8. QED BY <1>7, FS_CardinalityType DEF OwnedBy

(* What closing some handles destroys is what they own.                    *)
LEMMA RemoveOwned ==
  ASSUME TableTypeOK, NEW ids \in SUBSET Open, handles' = Without(ids)
  PROVE  OwnedBy(Open)' = OwnedBy(Open) - OwnedBy(ids)
<1>1. Open' = Open \ ids /\ \A i \in Open' : handles'[i] = handles[i]
  BY DEF Without, Open
<1>2. ConnectionsOf(Open)' = ConnectionsOf(Open) \ ConnectionsOf(ids)
  BY <1>1 DEF ConnectionsOf, Owned
<1>3. ConnectionsOf(Open) \cap ConnectionsOf(ids) = ConnectionsOf(ids)
  BY DEF ConnectionsOf
<1>4. IsFiniteSet(ConnectionsOf(Open))
  BY ConnectionsFinite
<1>5. Cardinality(ConnectionsOf(Open) \ ConnectionsOf(ids))
        = Cardinality(ConnectionsOf(Open)) - Cardinality(ConnectionsOf(ids))
  BY <1>3, <1>4, FS_Difference
<1>6. QED BY <1>2, <1>5 DEF OwnedBy

(* A new handle owns one connection, one of its worker and those of its    *)
(* pool.                                                                   *)
LEMMA AddOwned ==
  ASSUME TableTypeOK, NEW s \in Settings, NEW id \in 1 .. MaxId, id \notin Open,
         handles' = Inserted(id, s)
  PROVE  OwnedBy(Open)' = OwnedBy(Open) + Owned(s)
<1> DEFINE Own == {id} \X (1 .. Owned(s))
<1>1. /\ Open' = Open \cup {id}
      /\ \A i \in Open : handles'[i] = handles[i]
      /\ handles'[id] = s
  BY DEF Inserted, Open
<1>2. s.pool \in 0 .. MaxPool /\ MaxPool \in Nat
  BY RegistryAssumption DEF Settings
<1>3. Owned(s) \in 1 .. MaxPool + 2
  BY <1>2 DEF Owned
<1>4. ConnectionsOf(Open)' = ConnectionsOf(Open) \cup Own
  <2>1. ASSUME NEW c \in ConnectionsOf(Open)'
        PROVE  c \in ConnectionsOf(Open) \cup Own
    <3>1. PICK i \in Open', n \in 1 .. MaxPool + 2 : c = <<i, n>> /\ n =< Owned(handles'[i])
      BY <2>1 DEF ConnectionsOf, Owned
    <3>2. CASE i \in Open
      BY <1>1, <3>1, <3>2 DEF ConnectionsOf
    <3>3. CASE i = id
      <4>1. n \in 1 .. Owned(s)
        BY <1>1, <1>2, <1>3, <3>1, <3>3
      <4>2. QED BY <3>1, <3>3, <4>1
    <3>4. QED BY <1>1, <3>2, <3>3
  <2>2. ASSUME NEW c \in ConnectionsOf(Open)
        PROVE  c \in ConnectionsOf(Open)'
    BY <1>1, <2>2 DEF ConnectionsOf, Owned
  <2>3. ASSUME NEW c \in Own
        PROVE  c \in ConnectionsOf(Open)'
    <3>1. PICK n \in 1 .. Owned(s) : c = <<id, n>>
      BY <2>3
    <3>2. n \in 1 .. MaxPool + 2 /\ n =< Owned(s)
      BY <1>2, <1>3
    <3>3. QED BY <1>1, <3>1, <3>2 DEF ConnectionsOf, Owned
  <2>4. QED BY <2>1, <2>2, <2>3
<1>5. ConnectionsOf(Open) \cap Own = {}
  BY DEF ConnectionsOf
<1>6. IsFiniteSet(ConnectionsOf(Open))
  BY ConnectionsFinite
<1>7. IsFiniteSet(Own) /\ Cardinality(Own) = Owned(s)
  <2>1. IsFiniteSet({id}) /\ Cardinality({id}) = 1
    BY FS_Singleton
  <2>2. Owned(s) \in Nat \ {0}
    BY <1>2, <1>3
  <2>3. IsFiniteSet(1 .. Owned(s)) /\ Cardinality(1 .. Owned(s)) = Owned(s)
    BY <2>2, FS_Interval
  <2>4. /\ IsFiniteSet({id} \X (1 .. Owned(s)))
        /\ Cardinality({id} \X (1 .. Owned(s)))
             = Cardinality({id}) * Cardinality(1 .. Owned(s))
    BY ONLY <2>1, <2>3, FS_Product
  <2>5. 1 * Owned(s) = Owned(s)
    BY ONLY <2>2
  <2>6. QED BY <2>1, <2>3, <2>4, <2>5
<1>8. Cardinality(ConnectionsOf(Open) \cup Own)
        = Cardinality(ConnectionsOf(Open)) + Owned(s)
  <2>1. Cardinality(ConnectionsOf(Open)) \in Nat
    BY <1>6, FS_CardinalityType
  <2>2. Cardinality({}) = 0
    BY FS_EmptySet
  <2>3. Cardinality(ConnectionsOf(Open) \cup Own)
          = Cardinality(ConnectionsOf(Open)) + Cardinality(Own)
              - Cardinality(ConnectionsOf(Open) \cap Own)
    BY <1>6, <1>7, FS_Union
  <2>4. Owned(s) \in Nat
    BY <1>3, RegistryAssumption
  <2>5. QED
    <3> HIDE DEF Own
    <3>1. Cardinality(ConnectionsOf(Open) \cap Own) = 0
      BY <1>5, <2>2
    <3>2. QED BY ONLY <1>7, <2>1, <2>3, <2>4, <3>1
<1>9. QED BY <1>4, <1>8 DEF OwnedBy


(* What a connection file says of a key is a value it gives the key, or    *)
(* the default.                                                            *)
LEMMA SaidOfFile ==
  ASSUME NEW file \in Files, NEW k, NEW default
  PROVE  \/ Said(file, k, default) = default
         \/ \E n \in DOMAIN file : file[n][1] = k /\ Said(file, k, default) = file[n][2]
<1>1. CASE Lines(file, k) = {}
  BY <1>1 DEF Said
<1>2. CASE Lines(file, k) # {}
  <2>1. Lines(file, k) \in SUBSET DOMAIN file
    BY DEF Lines
  <2>2. Lines(file, k) \in SUBSET Nat /\ IsFiniteSet(Lines(file, k))
    BY <2>1, FilesAssumption, FS_Subset
  <2>3. \E x \in Lines(file, k) : \A y \in Lines(file, k) : y =< x
    BY <1>2, <2>2, Largest
  <2>4. \E x \in Lines(file, k) : \A y \in Lines(file, k) : x >= y
    BY <2>2, <2>3
  <2>5. Max(Lines(file, k)) \in Lines(file, k)
    BY <2>4 DEF Max
  <2>6. QED BY <1>2, <2>5 DEF Said, Lines
<1>3. QED BY <1>1, <1>2

(* The table is well typed and the connections are those of its handles.   *)
OInv == TableTypeOK /\ EveryConnectionOwned

(* CMySQLHandle::Create, for all three natives.                            *)
LEMMA CreateOwned ==
  ASSUME OInv, NEW server \in Servers, NEW port, NEW reconnect \in BOOLEAN, NEW pool,
         NEW tls \in TLS, Create(server, port, reconnect, pool, tls)
  PROVE  OInv'
<1>1. UNCHANGED <<duplicates, unloaded, allowed>>
  BY DEF Create
<1>2. ASSUME UNCHANGED <<handles, connections>>
      PROVE  OInv'
  BY <1>1, <1>2 DEF OInv, TableTypeOK, EveryConnectionOwned, OwnedBy, ConnectionsOf, Owned, Open
<1>3. CASE Accepts(port, pool)
  <2> DEFINE s == [server |-> server, port |-> port, reconnect |-> reconnect,
                   pool |-> pool, tls |-> tls]
  <2>1. s \in Settings
    BY <1>3 DEF Accepts, Settings
  <2>2. Reuse(s) \/ Add(s)
    BY <1>3 DEF Create
  <2>3. connections \in Nat
    BY DEF OInv, TableTypeOK
  <2>4. CASE Reuse(s)
    <3>1. connections' = connections
      BY <2>3, <2>4 DEF Reuse, LeftOfComparison
    <3>2. QED BY <1>2, <2>4, <3>1 DEF Reuse
  <2>5. CASE Add(s)
    <3> HIDE DEF s
    <3>1. PICK id \in NewIds \cap 1 .. MaxId : handles' = Inserted(id, s)
      BY <2>5 DEF Add
    <3>2. id \notin Open
      BY <3>1 DEF NewIds, Unused
    <3>3. /\ Open' = Open \cup {id}
          /\ handles' \in [Open' -> Settings]
      BY <2>1, <3>1 DEF Inserted, Open, OInv, TableTypeOK
    <3>4. OwnedBy(Open)' = OwnedBy(Open) + Owned(s)
      BY <2>1, <3>1, <3>2, AddOwned DEF OInv
    <3>5. s.pool \in Nat
      BY <2>1 DEF Settings
    <3>6. connections' = connections + Owned(s) /\ connections' \in Nat
      BY <2>3, <2>5, <3>5 DEF Add, Owned
    <3>7. EveryConnectionOwned'
      BY <3>4, <3>6 DEF OInv, EveryConnectionOwned
    <3>8. TableTypeOK'
      BY <1>1, <3>1, <3>3, <3>6 DEF OInv, TableTypeOK
    <3>9. QED BY <3>7, <3>8 DEF OInv
  <2>6. QED BY <2>2, <2>4, <2>5
<1>4. CASE ~Accepts(port, pool)
  BY <1>2, <1>4 DEF Create
<1>5. QED BY <1>3, <1>4

(* mysql_close and ClearAll: no more is destroyed than there is.           *)
LEMMA RemoveInOwned ==
  ASSUME OInv, NEW ids \in SUBSET Open, handles' = Without(ids),
         connections' = connections - OwnedBy(ids),
         duplicates' \in BOOLEAN, unloaded' \in BOOLEAN, allowed' \in BOOLEAN
  PROVE  OInv'
<1>1. OwnedBy(Open)' = OwnedBy(Open) - OwnedBy(ids)
  BY RemoveOwned DEF OInv
<1>2. EveryConnectionOwned'
  BY <1>1 DEF OInv, EveryConnectionOwned
<1>3. /\ Open' = Open \ ids
      /\ handles' \in [Open' -> Settings]
  BY DEF Without, Open, OInv, TableTypeOK
<1>4. Open' \subseteq 1 .. MaxId
  BY <1>3 DEF OInv, TableTypeOK
<1>5. connections' \in Nat
  <2>1. ConnectionsOf(ids) \in SUBSET ConnectionsOf(Open)
    BY DEF ConnectionsOf
  <2>2. IsFiniteSet(ConnectionsOf(Open)) /\ OwnedBy(ids) \in Nat /\ OwnedBy(Open) \in Nat
    BY ConnectionsFinite DEF OInv
  <2>3. OwnedBy(ids) =< OwnedBy(Open)
    BY <2>1, <2>2, FS_Subset DEF OwnedBy
  <2>4. QED BY <2>2, <2>3 DEF OInv, EveryConnectionOwned
<1>6. TableTypeOK'
  BY <1>3, <1>4, <1>5 DEF TableTypeOK
<1>7. QED BY <1>2, <1>6 DEF OInv

LEMMA NextOwned == OInv /\ [TableNext]_tableVars => OInv'
<1> SUFFICES ASSUME OInv, [TableNext]_tableVars PROVE OInv'
  OBVIOUS
<1>1. ASSUME NEW server \in Servers, NEW port \in Cells, NEW reconnect \in BOOLEAN,
             NEW pool \in Cells, Connect(server, port, reconnect, pool)
      PROVE  OInv'
  <2>1. NoTLS \in TLS
    BY DEF NoTLS, TLS
  <2>2. QED BY <1>1, <2>1, CreateOwned DEF Connect
<1>2. ASSUME NEW server \in Servers, NEW authority \in Authorities \cup {Unset},
             NEW port \in Cells, NEW reconnect \in BOOLEAN, NEW pool \in Cells,
             ConnectSSL(server, authority, port, reconnect, pool)
      PROVE  OInv'
  <2>1. [enabled |-> TRUE, authority |-> authority] \in TLS
    BY DEF TLS
  <2>2. QED BY <1>2, <2>1, CreateOwned DEF ConnectSSL
<1>3. ASSUME NEW file \in Files, ConnectFile(file)
      PROVE  OInv'
  <2>1. Said(file, "server", NoServer) \in Servers
    <3>1. Said(file, "server", NoServer) # NoServer
      BY <1>3 DEF ConnectFile
    <3>2. PICK n \in DOMAIN file : /\ file[n][1] = "server"
                                   /\ Said(file, "server", NoServer) = file[n][2]
      BY <3>1, SaidOfFile
    <3>3. QED BY <3>1, <3>2, FilesAssumption
  <2>2. Said(file, "ssl_ca_file", Unset) \in Authorities \cup {Unset}
    <3>1. CASE Said(file, "ssl_ca_file", Unset) = Unset
      BY <3>1
    <3>2. CASE Said(file, "ssl_ca_file", Unset) # Unset
      <4>1. PICK n \in DOMAIN file : /\ file[n][1] = "ssl_ca_file"
                                     /\ Said(file, "ssl_ca_file", Unset) = file[n][2]
        BY <3>2, SaidOfFile
      <4>2. QED BY <4>1, FilesAssumption
    <3>3. QED BY <3>1, <3>2
  <2>3. [enabled |-> Said(file, "ssl_enable", "off") = "on",
         authority |-> Said(file, "ssl_ca_file", Unset)] \in TLS
    BY <2>2 DEF TLS
  <2>4. (Said(file, "auto_reconnect", "on") = "on") \in BOOLEAN
    OBVIOUS
  <2>5. QED BY <1>3, <2>1, <2>3, <2>4, CreateOwned DEF ConnectFile
<1>4. ASSUME NEW id \in Open, Close(id)
      PROVE  OInv'
  <2>1. {id} \in SUBSET Open
    OBVIOUS
  <2>2. duplicates' \in BOOLEAN /\ unloaded' \in BOOLEAN /\ allowed' \in BOOLEAN
    BY <1>4 DEF Close, OInv, TableTypeOK
  <2>3. QED BY <1>4, <2>1, <2>2, RemoveInOwned DEF Close
<1>5. ASSUME NEW value \in BOOLEAN, Option(value)
      PROVE  OInv'
  BY <1>5 DEF Option, OInv, TableTypeOK, EveryConnectionOwned, OwnedBy, ConnectionsOf, Owned, Open
<1>6. CASE ClearAll
  <2>1. duplicates' \in BOOLEAN /\ unloaded' \in BOOLEAN /\ allowed' \in BOOLEAN
    BY <1>6 DEF ClearAll, OInv, TableTypeOK
  <2>2. QED BY <1>6, <2>1, RemoveInOwned DEF ClearAll
<1>7. CASE Unloaded \/ UNCHANGED tableVars
  BY <1>7 DEF Unloaded, tableVars, OInv, TableTypeOK, EveryConnectionOwned, OwnedBy, ConnectionsOf,
              Owned, Open
<1>8. QED BY <1>1, <1>2, <1>3, <1>4, <1>5, <1>6, <1>7 DEF TableNext

LEMMA InitOwned == TableInit => OInv
<1> SUFFICES ASSUME TableInit PROVE OInv
  OBVIOUS
<1>1. Open = {} /\ handles \in [Open -> Settings]
  BY DEF TableInit, Open
<1>2. ConnectionsOf(Open) = {}
  BY <1>1 DEF ConnectionsOf
<1>3. OwnedBy(Open) = 0
  BY <1>2, FS_EmptySet DEF OwnedBy
<1>4. QED BY <1>1, <1>3 DEF TableInit, OInv, TableTypeOK, EveryConnectionOwned

---------------------------------------------------------------------------
(* The table of handles stays well typed: no handle has a port or a pool   *)
(* outside the limits, whatever a script or a file passes, and no more     *)
(* connections are destroyed than there are.                               *)
THEOREM TypeCorrect == TableSpec => []TableTypeOK
<1>1. OInv => TableTypeOK
  BY DEF OInv
<1>2. QED BY <1>1, InitOwned, NextOwned, PTL DEF TableSpec

(* Every connection object that is left belongs to a handle that can be    *)
(* closed.                                                                 *)
THEOREM ConnectionsAreOwned == TableSpec => []EveryConnectionOwned
<1>1. OInv => EveryConnectionOwned
  BY DEF OInv
<1>2. QED BY <1>1, InitOwned, NextOwned, PTL DEF TableSpec
=============================================================================
