----------------------- MODULE WebSocketConnectionProofs -----------------------
(***************************************************************************)
(* Proofs about WebSocketConnection: its types, the assertions of the      *)
(* code, and that it implements WebSocket.                                 *)
(***************************************************************************)
EXTENDS WebSocketConnection, TLAPS

-----------------------------------------------------------------------------
(* Appending an element, and taking the first one away. *)

LEMMA Appended ==
    ASSUME NEW S, NEW s \in Seq(S), NEW e \in S
    PROVE  /\ Append(s, e) \in Seq(S)
           /\ Len(Append(s, e)) = Len(s) + 1
           /\ Append(s, e) # <<>>
           /\ Append(s, e)[Len(s) + 1] = e
           /\ \A i \in 1..Len(s) : Append(s, e)[i] = s[i]
  OBVIOUS

LEMMA Taken ==
    ASSUME NEW S, NEW s \in Seq(S), s # <<>>
    PROVE  /\ Tail(s) \in Seq(S)
           /\ Head(s) \in S /\ Head(s) = s[1]
           /\ Len(s) >= 1
           /\ Len(Tail(s)) = Len(s) - 1
           /\ \A i \in 1..(Len(s) - 1) : Tail(s)[i] = s[i + 1]
  OBVIOUS

-----------------------------------------------------------------------------
(* The type invariant *)

LEMMA PostedMessages ==
    \A call \in Posted :
        /\ call.kind \in {"run", "close", "send"}
        /\ call.kind = "send" => call.message \in 1..MaxSent
  BY DEF Posted, Call, Message

LEMMA ListenerCalls == "open" \in Callbacks /\ "message" \in Callbacks /\ "close" \in Callbacks
  BY DEF Callbacks

LEMMA OwnerPosts ==
    /\ Call("run") \in Posted /\ Call("close") \in Posted
    /\ \A m \in 1..MaxSent : Message(m) \in Posted
  BY DEF Posted

LEMMA PostTypes ==
    ASSUME posted \in Seq(Posted)
    PROVE  /\ Append(posted, Call("run")) \in Seq(Posted)
           /\ Append(posted, Call("close")) \in Seq(Posted)
           /\ \A m \in 1..MaxSent : Append(posted, Message(m)) \in Seq(Posted)
  BY OwnerPosts

LEMMA CallTypes ==
    ASSUME calls \in Seq(Callbacks)
    PROVE  \A c \in Callbacks : Append(calls, c) \in Seq(Callbacks)
  OBVIOUS

LEMMA DetachTypes ==
    ASSUME attached \in BOOLEAN, calls \in Seq(Callbacks), Detach
    PROVE  attached' \in BOOLEAN /\ calls' \in Seq(Callbacks)
  BY CallTypes, ListenerCalls DEF Detach

LEMMA TryConnectTypes ==
    ASSUME TypeOK, NEW e \in [{"IPv4", "IPv6"} -> Nat], NEW v6 \in BOOLEAN,
           TryConnect(e, v6)
    PROVE  /\ op' \in {"none", "connecting"}
           /\ entries' \in [{"IPv4", "IPv6"} -> Nat]
           /\ nextIsIPv6' \in BOOLEAN
           /\ attached' \in BOOLEAN /\ isClosing' \in BOOLEAN /\ closing' \in BOOLEAN
           /\ calls' \in Seq(Callbacks)
  <1>1. CASE e = NoEntries
    BY <1>1, DetachTypes DEF TypeOK, TryConnect, NoEntries, Fail, closure
  <1>2. CASE e # NoEntries
    <2>1. e["IPv4"] \in Nat /\ e["IPv6"] \in Nat
      OBVIOUS
    <2>2. e["IPv4"] # 0 \/ e["IPv6"] # 0
      <3>1. ASSUME e["IPv4"] = 0, e["IPv6"] = 0 PROVE e = NoEntries
        <4>1. \A version \in {"IPv4", "IPv6"} : e[version] = 0
          BY <3>1
        <4>2. e = [version \in {"IPv4", "IPv6"} |-> e[version]]
          OBVIOUS
        <4>. QED  BY <4>1, <4>2 DEF NoEntries
      <3>. QED  BY <1>2, <3>1
    <2>3. NextVersion(e, v6) \in {"IPv4", "IPv6"} /\ e[NextVersion(e, v6)] > 0
      BY <2>1, <2>2 DEF NextVersion
    <2>4. e[NextVersion(e, v6)] - 1 \in Nat
      BY <2>1, <2>3
    <2>. QED  BY <1>2, <2>3, <2>4 DEF TypeOK, TryConnect, closure
  <1>. QED  BY <1>1, <1>2

(* A write in progress has its message at the head of the queue. *)
WritingOne == isSending => queuedMessages # <<>>

LEMMA TypesInductive == TypeOK /\ WritingOne /\ [Next]_vars => TypeOK'
  <1>. SUFFICES ASSUME TypeOK, WritingOne, [Next]_vars PROVE TypeOK'
    OBVIOUS
  <1>. USE WebSocketAssumption DEF TypeOK, owner, resolved, closure, writing, Unconnected
  <1>1. CASE CreateSocket
    BY <1>1, PostTypes DEF CreateSocket
  <1>2. CASE SendMessage
    <2>1. sent' \in 1..MaxSent
      BY <1>2 DEF SendMessage
    <2>2. posted' \in Seq(Posted)
      BY <1>2, <2>1, PostTypes DEF SendMessage
    <2>3. sent' \in 0..MaxSent
      BY <2>1
    <2>. HIDE WebSocketAssumption
    <2>. QED  BY <1>2, <2>2, <2>3 DEF SendMessage
  <1>3. CASE CloseHandle
    BY <1>3, PostTypes DEF CloseHandle, Post
  <1>4. CASE TryShutdown
    BY <1>4, PostTypes DEF TryShutdown
  <1>5. CASE RunPosted
    <2>1. posted' \in Seq(Posted) /\ Head(posted) \in Posted
      BY <1>5, Taken DEF RunPosted
    <2>2. CASE Head(posted).kind = "run" /\ Run
      BY <1>5, <2>1, <2>2, DetachTypes DEF RunPosted, Run, Fail
    <2>3. CASE Head(posted).kind = "close" /\ CloseImpl
      BY <1>5, <2>1, <2>3, ZenonT(60) DEF RunPosted, CloseImpl
    <2>4. CASE Head(posted).kind = "send" /\ Enqueue(Head(posted).message)
      BY <1>5, <2>1, <2>4, PostedMessages DEF RunPosted, Enqueue, TrySend
    <2>. QED  BY <1>5, <2>1, <2>2, <2>3, <2>4, PostedMessages DEF RunPosted
  <1>6. CASE OnResolve
    <2>1. CASE op' = "none" /\ Fail /\ UNCHANGED resolved
      BY <1>6, <2>1, DetachTypes DEF OnResolve, Fail
    <2>2. ASSUME NEW e \in [{"IPv4", "IPv6"} -> 0..MaxAddresses], TryConnect(e, nextIsIPv6)
          PROVE  TypeOK'
      BY <1>6, <2>2, TryConnectTypes DEF OnResolve
    <2>. QED  BY <1>6, <2>1, <2>2 DEF OnResolve
  <1>7. CASE OnTcpHandshake
    <2>1. CASE TryConnect(entries, nextIsIPv6)
      BY <1>7, <2>1, TryConnectTypes DEF OnTcpHandshake
    <2>2. CASE ~TryConnect(entries, nextIsIPv6)
      <3>1. NoEntries \in [{"IPv4", "IPv6"} -> Nat]
        BY DEF NoEntries
      <3>. QED  BY <1>7, <2>2, <3>1 DEF OnTcpHandshake
    <2>. QED  BY <2>1, <2>2
  <1>8. CASE OnTlsHandshake
    BY <1>8, DetachTypes DEF OnTlsHandshake, Fail
  <1>9. CASE OnWsHandshake
    <2>1. CASE WsHandshakeDone
      <3>1. calls' \in Seq(Callbacks) /\ op' \in {"reading", "none"}
        BY <2>1, CallTypes, ListenerCalls DEF WsHandshakeDone
      <3>2. isOpen' \in BOOLEAN
        BY <2>1 DEF WsHandshakeDone
      <3>3. queuedMessages' \in Seq(1..MaxSent)
        BY <2>1 DEF WsHandshakeDone, TrySend
      <3>4. isSending' \in BOOLEAN
        BY <2>1, Zenon DEF WsHandshakeDone, TrySend
      <3>. QED  BY <1>9, <2>1, <3>1, <3>2, <3>3, <3>4 DEF OnWsHandshake, WsHandshakeDone
    <2>2. CASE WsHandshakeFailed
      BY <1>9, <2>2, DetachTypes DEF OnWsHandshake, WsHandshakeFailed
    <2>. QED  BY <1>9, <2>1, <2>2 DEF OnWsHandshake
  <1>10. CASE OnReadDone
    <2>1. calls' \in Seq(Callbacks) /\ attached' \in BOOLEAN
      BY <1>10, DetachTypes, CallTypes, ListenerCalls DEF OnReadDone
    <2>2. op' \in {"none", "reading"} /\ isOpen' \in BOOLEAN
      BY <1>10 DEF OnReadDone
    <2>. QED  BY <1>10, <2>1, <2>2 DEF OnReadDone
  <1>11. CASE OnWriteDone
    <2>1. Head(queuedMessages) \in 1..MaxSent /\ Tail(queuedMessages) \in Seq(1..MaxSent)
      BY <1>11, Taken DEF WritingOne, OnWriteDone
    <2>2. calls' \in Seq(Callbacks) /\ attached' \in BOOLEAN
      BY <1>11, DetachTypes, Zenon DEF OnWriteDone, Fail
    <2>3. wire' \in Seq(1..MaxSent)
      <3>1. Append(wire, Head(queuedMessages)) \in Seq(1..MaxSent)
        BY <2>1
      <3>. QED  BY <1>11, <3>1 DEF OnWriteDone
    <2>4. queuedMessages' \in Seq(1..MaxSent) /\ isOpen' \in BOOLEAN
      BY <1>11, <2>1 DEF OnWriteDone, TrySend
    <2>5. isSending' \in BOOLEAN
      BY <1>11, Zenon DEF OnWriteDone, TrySend
    <2>. QED  BY <1>11, <2>2, <2>3, <2>4, <2>5 DEF OnWriteDone, Fail
  <1>12. CASE OnCloseDone
    BY <1>12, DetachTypes DEF OnCloseDone
  <1>13. CASE StreamCloses
    BY <1>13 DEF StreamCloses
  <1>14. CASE ThreadEnds
    BY <1>14 DEF ThreadEnds
  <1>15. CASE UNCHANGED vars
    BY <1>15 DEF vars
  <1>. QED  BY <1>1, <1>2, <1>3, <1>4, <1>5, <1>6, <1>7, <1>8, <1>9, <1>10, <1>11, <1>12,
                <1>13, <1>14, <1>15 DEF Next, ConnectStep

-----------------------------------------------------------------------------
(* What holds before createSocket, and between it and run *)
Blank ==
    /\ op = "none" /\ calls = <<>> /\ wire = <<>>
    /\ ~isOpen /\ ~isSending /\ ~isClosing /\ ~closing

RunPending == posted # <<>> /\ Head(posted).kind = "run"

(* run comes first: until it, the connection is blank; until the end of the *)
(* handshakes, the listener was not told anything and nothing was written.  *)
Phases ==
    /\ handle \in {"none", "empty"} =>
          Blank /\ ~attached /\ posted = <<>> /\ queuedMessages = <<>> /\ sent = 0
    /\ \A i \in 1..Len(posted) : posted[i].kind = "run" => i = 1 /\ Blank /\ attached
    /\ op \in Unconnected =>
          ~isOpen /\ ~isSending /\ wire = <<>> /\ (attached => calls = <<>>)
    /\ op = "reading" /\ attached => calls # <<>> /\ Head(calls) = "open"

(* A connection is attached until the listener is told of the close, and    *)
(* something that will detach it is in progress.                            *)
Ending ==
    /\ handle \notin {"none", "empty"} =>
          (attached <=> ~(calls # <<>> /\ calls[Len(calls)] = "close"))
    /\ attached /\ isClosing => closing
    /\ attached => op # "none" \/ closing \/ RunPending
    /\ WritingOne

(* The messages that wait are in order: those in the queue, then those      *)
(* posted.                                                                  *)
InOrder ==
    /\ \A i, j \in 1..Len(queuedMessages) : i < j => queuedMessages[i] < queuedMessages[j]
    /\ \A i \in 1..Len(queuedMessages), j \in 1..Len(posted) :
          posted[j].kind = "send" => queuedMessages[i] < posted[j].message
    /\ \A i, j \in 1..Len(posted) :
          i < j /\ posted[i].kind = "send" /\ posted[j].kind = "send" =>
              posted[i].message < posted[j].message
    /\ \A i \in 1..Len(queuedMessages) : queuedMessages[i] <= sent
    /\ \A j \in 1..Len(posted) : posted[j].kind = "send" => posted[j].message <= sent

(* They are those that were not written.                                    *)
Waits(m) == \/ \E i \in 1..Len(queuedMessages) : queuedMessages[i] = m
            \/ \E j \in 1..Len(posted) : posted[j].kind = "send" /\ posted[j].message = m

Unwritten ==
    /\ \A i \in 1..Len(queuedMessages) : queuedMessages[i] > Len(wire)
    /\ \A j \in 1..Len(posted) : posted[j].kind = "send" => posted[j].message > Len(wire)
    /\ Len(wire) <= sent
    /\ \A m \in (Len(wire) + 1)..sent : Waits(m)

(* No message is lost before a write fails.                                 *)
Intact == isOpen \/ isSending \/ op \in Unconnected \/ RunPending

NoneLost == Intact => Unwritten

IInv == TypeOK /\ Phases /\ Ending /\ InOrder /\ NoneLost

LEMMA PostedAppended ==
    ASSUME TypeOK, NEW c \in Posted, posted' = Append(posted, c)
    PROVE  /\ Len(posted') = Len(posted) + 1
           /\ Len(posted) \in Nat
           /\ posted'[Len(posted) + 1] = c
           /\ \A i \in 1..Len(posted) : posted'[i] = posted[i]
           /\ RunPending => RunPending'
           /\ RunPending' /\ c.kind # "run" => RunPending
  <1>1. posted \in Seq(Posted)
    BY DEF TypeOK
  <1>2. /\ Len(posted') = Len(posted) + 1 /\ Len(posted) \in Nat
        /\ posted'[Len(posted) + 1] = c /\ posted' # <<>>
        /\ \A i \in 1..Len(posted) : posted'[i] = posted[i]
    BY <1>1, Appended
  <1>3. Head(posted') = posted'[1] /\ (posted # <<>> => Head(posted) = posted[1] /\ Len(posted) >= 1)
    BY <1>1, <1>2
  <1>4. posted # <<>> => Head(posted') = Head(posted)
    BY <1>2, <1>3
  <1>5. posted = <<>> => Head(posted') = c
    BY <1>2, <1>3
  <1>. QED  BY <1>2, <1>4, <1>5 DEF RunPending

LEMMA PostedTaken ==
    ASSUME TypeOK, posted # <<>>, posted' = Tail(posted)
    PROVE  /\ Len(posted') = Len(posted) - 1
           /\ Len(posted) \in Nat /\ Len(posted) >= 1
           /\ Head(posted) = posted[1]
           /\ \A i \in 1..Len(posted') : i + 1 \in 1..Len(posted) /\ posted'[i] = posted[i + 1]
           /\ RunPending' => Len(posted) >= 2 /\ posted[2].kind = "run"
  <1>1. posted \in Seq(Posted)
    BY DEF TypeOK
  <1>2. /\ Len(posted') = Len(posted) - 1 /\ Len(posted) \in Nat /\ Len(posted) >= 1
        /\ Head(posted) = posted[1]
        /\ \A i \in 1..(Len(posted) - 1) : posted'[i] = posted[i + 1]
    BY <1>1, Taken
  <1>3. posted' # <<>> => Head(posted') = posted'[1] /\ Len(posted') >= 1
    BY <1>1
  <1>4. RunPending' => Len(posted) >= 2 /\ posted[2].kind = "run"
    BY <1>2, <1>3 DEF RunPending
  <1>. QED  BY <1>2, <1>4

LEMMA Kinds ==
    /\ Call("run").kind = "run" /\ Call("close").kind = "close"
    /\ \A m \in 1..MaxSent : Message(m).kind = "send" /\ Message(m).message = m
    /\ Call("run") \in Posted /\ Call("close") \in Posted
    /\ \A m \in 1..MaxSent : Message(m) \in Posted
  BY DEF Call, Message, Posted

(* What the owner's calls leave as it was *)
LEMMA OwnerCalls ==
    ASSUME TypeOK, SendMessage \/ CloseHandle \/ TryShutdown
    PROVE  /\ UNCHANGED <<op, isOpen, attached, isClosing, closing, queuedMessages, isSending,
                          wire, calls>>
           /\ \/ UNCHANGED <<posted, sent>>
              \/ posted' = Append(posted, Call("close")) /\ UNCHANGED sent
              \/ /\ sent' = sent + 1 /\ sent' \in 1..MaxSent
                 /\ posted' = Append(posted, Message(sent'))
           /\ handle' \in {"none", "empty"} <=> handle \in {"none", "empty"}
           /\ posted' # posted => attached \/ Outstanding
  <1>. USE WebSocketAssumption DEF closure, writing
  <1>1. CASE SendMessage
    BY <1>1 DEF SendMessage, TypeOK
  <1>2. CASE CloseHandle
    BY <1>2 DEF CloseHandle, Post
  <1>3. CASE TryShutdown
    BY <1>3 DEF TryShutdown
  <1>. QED  BY <1>1, <1>2, <1>3

(* After something has begun on the pool's thread, run is not in the queue. *)
LEMMA NotBlank ==
    ASSUME Phases, ~Blank
    PROVE  /\ handle \notin {"none", "empty"}
           /\ \A i \in 1..Len(posted) : posted[i].kind # "run"
  BY DEF Phases

LEMMA DetachKeeps ==
    ASSUME TypeOK, Detach
    PROVE  /\ ~attached'
           /\ attached => calls' = Append(calls, "close")
           /\ ~attached => calls' = calls
  BY DEF Detach

LEMMA PhasesInductive == TypeOK /\ Phases /\ Ending /\ [Next]_vars => Phases'
  <1>. SUFFICES ASSUME TypeOK, Phases, Ending, [Next]_vars PROVE Phases'
    OBVIOUS
  <1>. USE DEF owner, resolved, closure, writing
  <1>1. CASE CreateSocket
    <2>1. CASE handle' = "empty"
      BY <1>1, <2>1 DEF CreateSocket, Phases, Blank
    <2>2. CASE handle' # "empty"
      <3>1. Blank /\ posted = <<>> /\ handle = "none"
        BY <1>1 DEF CreateSocket, Phases
      <3>2. posted' = Append(posted, Call("run")) /\ attached' /\ handle' = "held"
        BY <1>1, <2>2 DEF CreateSocket
      <3>3. Len(posted') = 1 
        BY <3>1, <3>2
      <3>4. Blank'
        BY <1>1, <3>1 DEF CreateSocket, Blank
      <3>5. op' = "none"
        BY <3>4 DEF Blank
      <3>. QED  BY <3>2, <3>3, <3>4, <3>5 DEF Phases, Unconnected
    <2>. QED  BY <2>1, <2>2
  <1>2. CASE SendMessage \/ CloseHandle \/ TryShutdown
    <2>1. CASE UNCHANGED <<posted, sent>>
      BY <1>2, <2>1, OwnerCalls DEF Phases, Blank
    <2>2. ASSUME NEW c \in Posted, c.kind # "run", posted' = Append(posted, c),
                 posted' # posted
          PROVE  Phases'
      <3>1. handle \notin {"none", "empty"}
        BY <1>2, <2>2, OwnerCalls DEF Phases, Blank, Outstanding
      <3>2. handle' \notin {"none", "empty"}
        BY <1>2, <3>1, OwnerCalls
      <3>3. \A i \in 1..Len(posted') : posted'[i].kind = "run" => i = 1 /\ Blank /\ attached
        BY <2>2, PostedAppended DEF Phases
      <3>4. UNCHANGED <<op, isOpen, attached, isClosing, closing, isSending, wire, calls>>
        BY <1>2, OwnerCalls
      <3>. QED  BY <3>2, <3>3, <3>4 DEF Phases, Blank
    <2>3. posted \in Seq(Posted)
      BY DEF TypeOK
    <2>4. CASE posted' = Append(posted, Call("close"))
      <3>1. posted' # posted
        BY <2>3, <2>4, Kinds, PostedAppended
      <3>. QED  BY <2>2, <2>4, <3>1, Kinds
    <2>5. CASE sent' \in 1..MaxSent /\ posted' = Append(posted, Message(sent'))
      <3>1. posted' # posted
        BY <2>3, <2>5, Kinds, PostedAppended
      <3>. QED  BY <2>2, <2>5, <3>1, Kinds
    <2>. QED  BY <1>2, <2>1, <2>4, <2>5, OwnerCalls
  <1>3. CASE RunPosted
    <2>1. posted # <<>> /\ posted' = Tail(posted) /\ UNCHANGED <<handle, sent>>
      BY <1>3 DEF RunPosted
    <2>2. \A i \in 1..Len(posted') : posted'[i].kind # "run"
      <3>. SUFFICES ASSUME NEW i \in 1..Len(posted') PROVE posted'[i].kind # "run"
        OBVIOUS
      <3>1. i + 1 \in 1..Len(posted) /\ posted'[i] = posted[i + 1] /\ i + 1 # 1
        BY <2>1, PostedTaken
      <3>. QED  BY <3>1 DEF Phases
    <2>3. handle' \notin {"none", "empty"}
      BY <2>1 DEF Phases
    <2>4. CASE Head(posted).kind = "run" /\ Run
      <3>1. Blank /\ attached
        BY <2>1, <2>4, PostedTaken DEF Phases
      <3>. QED  BY <2>2, <2>3, <2>4, <3>1 DEF Run, Fail, Detach, Phases, Blank, Unconnected
    <2>5. CASE CloseImpl
      BY <2>2, <2>3, <2>5 DEF CloseImpl, Phases, TypeOK
    <2>6. CASE Enqueue(Head(posted).message)
      <3>1. op \in Unconnected => ~isSending'
        BY <2>6, Zenon DEF Enqueue, TrySend, Phases
      <3>. QED  BY <2>2, <2>3, <2>6, <3>1 DEF Enqueue, Phases
    <2>. QED  BY <1>3, <2>4, <2>5, <2>6 DEF RunPosted
  <1>. DEFINE Later == /\ op' \in Unconnected =>
                            ~isOpen' /\ ~isSending' /\ wire' = <<>> /\ (attached' => calls' = <<>>)
                       /\ op' = "reading" /\ attached' => calls' # <<>> /\ Head(calls') = "open"
  <1>4. ASSUME ~Blank, UNCHANGED <<handle, posted, sent>>, Later PROVE Phases'
    BY <1>4, NotBlank DEF Phases
  <1>. HIDE DEF Later
  <1>5. CASE OnResolve \/ OnTcpHandshake \/ OnTlsHandshake
    <2>1. op \in Unconnected /\ ~Blank
      BY <1>5 DEF OnResolve, OnTcpHandshake, OnTlsHandshake, Unconnected, Blank
    <2>2. UNCHANGED <<isOpen, isSending, wire, handle, posted, sent>>
      BY <1>5 DEF OnResolve, OnTcpHandshake, OnTlsHandshake
    <2>3. op' # "reading"
      BY <1>5 DEF OnResolve, OnTcpHandshake, OnTlsHandshake, TryConnect
    <2>4. attached' => attached /\ calls' = calls
      BY <1>5, DetachKeeps DEF OnResolve, OnTcpHandshake, OnTlsHandshake, TryConnect, Fail
    <2>5. Later
      BY <2>1, <2>2, <2>3, <2>4 DEF Later, Phases
    <2>. QED  BY <1>4, <2>1, <2>2, <2>5
  <1>6. CASE OnWsHandshake
    <2>1. op \in Unconnected /\ ~Blank
      BY <1>6 DEF OnWsHandshake, Unconnected, Blank
    <2>2. op' \in {"none", "reading"} /\ UNCHANGED <<handle, posted, sent>>
      BY <1>6 DEF OnWsHandshake, WsHandshakeDone, WsHandshakeFailed
    <2>3. op' = "reading" => calls' = Append(calls, "open") /\ attached
      BY <1>6, <2>1 DEF OnWsHandshake, WsHandshakeDone, WsHandshakeFailed
    <2>5. attached => calls = <<>>
      BY <2>1 DEF Phases
    <2>6. Append(<<>>, "open") # <<>> /\ Head(Append(<<>>, "open")) = "open"
      OBVIOUS
    <2>4. Later
      BY <2>2, <2>3, <2>5, <2>6 DEF Later, Unconnected
    <2>. QED  BY <1>4, <2>1, <2>2, <2>4
  <1>7. CASE OnReadDone
    <2>1. op = "reading" /\ ~Blank /\ UNCHANGED <<handle, posted, sent>>
      BY <1>7 DEF OnReadDone, Blank
    <2>2. op' \in {"none", "reading"}
      BY <1>7 DEF OnReadDone
    <2>3. op' = "reading" /\ attached' => calls' = Append(calls, "message") /\ attached
      BY <1>7 DEF OnReadDone, Detach
    <2>4. calls \in Seq(Callbacks)
      BY DEF TypeOK
    <2>5. op' = "reading" /\ attached' => calls' # <<>> /\ Head(calls') = "open"
      BY <2>1, <2>3, <2>4, ListenerCalls DEF Phases
    <2>6. Later
      BY <2>2, <2>5 DEF Later, Unconnected
    <2>. QED  BY <1>4, <2>1, <2>6
  <1>8. CASE OnWriteDone \/ OnCloseDone \/ StreamCloses
    <2>1. UNCHANGED <<handle, posted, sent, op>> /\ ~Blank
      BY <1>8 DEF OnWriteDone, OnCloseDone, StreamCloses, Blank
    <2>2. attached' => attached /\ calls' = calls
      BY <1>8, DetachKeeps DEF OnWriteDone, OnCloseDone, StreamCloses, Fail
    <2>3. op \in Unconnected => ~OnWriteDone
      BY DEF Phases, OnWriteDone
    <2>4. op \in Unconnected => ~isOpen' /\ UNCHANGED <<isSending, wire>>
      <3>1. CASE OnCloseDone
        BY <3>1, Zenon DEF OnCloseDone
      <3>2. CASE StreamCloses
        BY <3>2, Zenon DEF StreamCloses
      <3>. QED  BY <1>8, <2>3, <3>1, <3>2, Zenon
    <2>5. Later
      BY <2>1, <2>2, <2>4 DEF Later, Phases
    <2>. QED  BY <1>4, <2>1, <2>5
  <1>9. CASE ThreadEnds \/ UNCHANGED vars
    BY <1>9 DEF ThreadEnds, vars, Phases, Blank
  <1>. QED  BY <1>1, <1>2, <1>3, <1>5, <1>6, <1>7, <1>8, <1>9 DEF Next, ConnectStep

ToldOfClose == calls # <<>> /\ calls[Len(calls)] = "close"

LEMMA DetachTells ==
    ASSUME TypeOK, attached <=> ~ToldOfClose, Detach
    PROVE  attached' <=> ~ToldOfClose'
  <1>1. calls \in Seq(Callbacks) /\ "close" \in Callbacks
    BY ListenerCalls DEF TypeOK
  <1>2. CASE attached
    <2>1. calls' = Append(calls, "close") /\ ~attached'
      BY <1>2, DetachKeeps
    <2>2. calls' # <<>> /\ calls'[Len(calls')] = "close"
      BY <1>1, <2>1, Appended
    <2>. QED  BY <2>1, <2>2 DEF ToldOfClose
  <1>3. CASE ~attached
    BY <1>3, DetachKeeps DEF ToldOfClose
  <1>. QED  BY <1>2, <1>3

LEMMA OtherCalls ==
    ASSUME TypeOK, NEW c \in Callbacks \ {"close"}, calls' = Append(calls, c)
    PROVE  ~ToldOfClose'
  <1>1. calls \in Seq(Callbacks)
    BY DEF TypeOK
  <1>2. calls'[Len(calls')] = c
    BY <1>1, Appended
  <1>. QED  BY <1>2 DEF ToldOfClose

LEMMA EndingInductive == TypeOK /\ Phases /\ Ending /\ [Next]_vars => Ending'
  <1>. SUFFICES ASSUME TypeOK, Phases, Ending, [Next]_vars PROVE Ending'
    OBVIOUS
  <1>. USE DEF owner, resolved, closure, writing
  <1>. DEFINE Told == handle \notin {"none", "empty"} => (attached <=> ~ToldOfClose)
              Closes == attached /\ isClosing => closing
              Driven == attached => op # "none" \/ closing \/ RunPending
  <1>0. Told /\ Closes /\ Driven /\ WritingOne
    BY DEF Ending, ToldOfClose
  <1>. SUFFICES Told' /\ Closes' /\ Driven' /\ WritingOne'
    BY DEF Ending, ToldOfClose
  <1>1. CASE CreateSocket
    <2>1. Blank /\ posted = <<>> /\ ~attached /\ UNCHANGED <<calls, isSending, closing, isClosing, op>>
      BY <1>1 DEF CreateSocket, Phases, Blank
    <2>2. CASE handle' = "empty"
      BY <1>1, <2>1, <2>2 DEF CreateSocket, WritingOne, Blank
    <2>3. CASE handle' # "empty"
      <3>1. posted' = Append(posted, Call("run")) /\ attached'
        BY <1>1, <2>3 DEF CreateSocket
      <3>2. posted' # <<>> /\ Head(posted').kind = "run"
        BY <2>1, <3>1, Kinds
      <3>. QED  BY <2>1, <3>1, <3>2 DEF Blank, RunPending, WritingOne, ToldOfClose
    <2>. QED  BY <2>2, <2>3
  <1>2. CASE SendMessage \/ CloseHandle \/ TryShutdown
    <2>1. RunPending => RunPending'
      <3>1. CASE UNCHANGED posted
        BY <3>1 DEF RunPending
      <3>2. CASE posted' = Append(posted, Call("close"))
        BY <3>2, Kinds, PostedAppended
      <3>3. CASE sent' \in 1..MaxSent /\ posted' = Append(posted, Message(sent'))
        BY <3>3, Kinds, PostedAppended
      <3>. QED  BY <1>2, <3>1, <3>2, <3>3, OwnerCalls
    <2>. QED  BY <1>0, <1>2, <2>1, OwnerCalls DEF WritingOne, ToldOfClose
  <1>3. CASE RunPosted
    <2>1. posted # <<>> /\ posted' = Tail(posted) /\ UNCHANGED <<handle, sent>>
      BY <1>3 DEF RunPosted
    <2>2. handle \notin {"none", "empty"}
      BY <2>1 DEF Phases
    <2>3. CASE Head(posted).kind = "run" /\ Run
      <3>1. Blank /\ attached
        BY <2>1, <2>3, PostedTaken DEF Phases
      <3>2. CASE op' = "resolving" /\ UNCHANGED <<attached, calls, closure>>
        BY <1>0, <2>1, <2>2, <2>3, <3>1, <3>2 DEF Run, WritingOne, ToldOfClose
      <3>3. CASE op' = "none" /\ Fail
        BY <1>0, <2>1, <2>2, <2>3, <3>3, DetachTells, DetachKeeps DEF Run, Fail, WritingOne
      <3>. QED  BY <2>3, <3>2, <3>3 DEF Run
    <2>4. CASE Head(posted).kind # "run" /\ CloseImpl
      <3>1. ~RunPending
        BY <2>4 DEF RunPending
      <3>2. closing => closing'
        BY <2>4, Zenon DEF CloseImpl
      <3>3. attached => closing'
        BY <1>0, <2>4, Zenon DEF CloseImpl
      <3>. QED  BY <1>0, <2>1, <2>2, <2>4, <3>1, <3>2, <3>3 DEF CloseImpl, WritingOne, ToldOfClose
    <2>5. CASE Head(posted).kind = "send" /\ Enqueue(Head(posted).message)
      <3>1. ~RunPending
        BY <2>5 DEF RunPending
      <3>2. Head(posted) \in Posted /\ queuedMessages \in Seq(1..MaxSent)
        BY <2>1, Taken DEF TypeOK
      <3>3. Append(queuedMessages, Head(posted).message) # <<>>
        BY <2>5, <3>2, PostedMessages, Appended
      <3>. QED  BY <1>0, <2>1, <2>2, <2>5, <3>1, <3>3 DEF Enqueue, TrySend, WritingOne, ToldOfClose
    <2>. QED  BY <1>3, <2>3, <2>4, <2>5 DEF RunPosted
  <1>. DEFINE Kept == handle \notin {"none", "empty"} /\ UNCHANGED <<handle, posted>>
  <1>4. ASSUME Kept, Detach, WritingOne' PROVE Told' /\ Closes' /\ Driven' /\ WritingOne'
    BY <1>0, <1>4, DetachTells, DetachKeeps
  <1>5. ASSUME Kept, UNCHANGED <<attached, calls, isClosing, closing, isSending, queuedMessages>>,
               attached /\ ~isClosing => op' # "none"
        PROVE  Told' /\ Closes' /\ Driven' /\ WritingOne'
    BY <1>0, <1>5 DEF ToldOfClose, WritingOne
  <1>6. CASE OnResolve \/ OnTcpHandshake \/ OnTlsHandshake
    <2>1. Kept /\ UNCHANGED <<isSending, queuedMessages>>
      BY <1>6, NotBlank DEF OnResolve, OnTcpHandshake, OnTlsHandshake, Blank
    <2>2. \/ Fail
          \/ op' # "none" /\ UNCHANGED <<attached, calls, isClosing, closing>>
      BY <1>6 DEF OnResolve, OnTcpHandshake, OnTlsHandshake, TryConnect
    <2>. QED  BY <1>0, <1>4, <1>5, <2>1, <2>2 DEF Fail, WritingOne
  <1>7. CASE OnWsHandshake
    <2>1. Kept /\ UNCHANGED <<isClosing, closing>>
      BY <1>7, NotBlank DEF OnWsHandshake, WsHandshakeDone, WsHandshakeFailed, Blank
    <2>2. CASE WsHandshakeDone /\ attached /\ ~isClosing
      <3>1. ~ToldOfClose'
        BY <2>2, OtherCalls, ListenerCalls DEF WsHandshakeDone
      <3>2. WritingOne'
        BY <1>0, <2>2, Zenon DEF WsHandshakeDone, TrySend, WritingOne
      <3>. QED  BY <1>0, <2>1, <2>2, <3>1, <3>2 DEF WsHandshakeDone
    <2>3. CASE WsHandshakeDone /\ ~(attached /\ ~isClosing)
      BY <1>5, <2>1, <2>3 DEF WsHandshakeDone
    <2>4. CASE WsHandshakeFailed /\ attached /\ ~isClosing
      BY <1>0, <1>4, <2>1, <2>4 DEF WsHandshakeFailed, WritingOne
    <2>5. CASE WsHandshakeFailed /\ ~(attached /\ ~isClosing)
      BY <1>5, <2>1, <2>5 DEF WsHandshakeFailed
    <2>. QED  BY <1>7, <2>2, <2>3, <2>4, <2>5 DEF OnWsHandshake
  <1>8. CASE OnReadDone
    <2>1. Kept /\ UNCHANGED <<isClosing, closing, isSending, queuedMessages>> /\ op = "reading"
      BY <1>8, NotBlank DEF OnReadDone, Blank
    <2>2. WritingOne'
      BY <1>0, <2>1 DEF WritingOne
    <2>3. CASE calls' = Append(calls, "message") /\ UNCHANGED <<op, isOpen, attached>> /\ attached
      <3>1. ~ToldOfClose'
        BY <2>3, OtherCalls, ListenerCalls
      <3>. QED  BY <1>0, <2>1, <2>2, <2>3, <3>1
    <2>4. CASE ~(attached /\ ~isClosing)
      BY <1>5, <1>8, <2>1, <2>4 DEF OnReadDone
    <2>5. CASE Detach
      BY <1>4, <2>1, <2>2, <2>5
    <2>. QED  BY <1>8, <2>3, <2>4, <2>5 DEF OnReadDone
  <1>9. CASE OnWriteDone
    <2>1. Kept /\ UNCHANGED <<isClosing, closing, op>>
      BY <1>9, NotBlank DEF OnWriteDone, Blank, Fail
    <2>2. WritingOne'
      BY <1>9, Zenon DEF OnWriteDone, TrySend, WritingOne
    <2>3. CASE UNCHANGED <<attached, calls>>
      BY <1>0, <2>1, <2>2, <2>3 DEF ToldOfClose, RunPending
    <2>4. CASE Detach
      BY <1>4, <2>1, <2>2, <2>4
    <2>. QED  BY <1>9, <2>3, <2>4 DEF OnWriteDone, Fail
  <1>10. CASE OnCloseDone
    <2>1. Kept /\ UNCHANGED <<isSending, queuedMessages>> /\ Detach
      BY <1>10, NotBlank DEF OnCloseDone, Blank
    <2>. QED  BY <1>0, <1>4, <2>1 DEF WritingOne
  <1>11. CASE StreamCloses \/ ThreadEnds \/ UNCHANGED vars
    BY <1>0, <1>11 DEF StreamCloses, ThreadEnds, vars, WritingOne, ToldOfClose, RunPending
  <1>. QED  BY <1>1, <1>2, <1>3, <1>6, <1>7, <1>8, <1>9, <1>10, <1>11 DEF Next, ConnectStep

-----------------------------------------------------------------------------
(* The order of messages *)

(* The steps that leave messages where they are *)
Unmoved == UNCHANGED <<posted, queuedMessages, sent, wire>>

LEMMA Unmoving ==
    ASSUME [Next]_vars, ~CreateSocket, ~SendMessage, ~CloseHandle, ~TryShutdown,
           ~RunPosted, ~OnWriteDone
    PROVE  /\ Unmoved
           /\ isOpen' => isOpen \/ op \in Unconnected
           /\ isSending' => isSending \/ op \in Unconnected
           /\ op' \in Unconnected => op \in Unconnected
  <1>. USE DEF owner, resolved, closure, writing, Unmoved
  <1>1. CASE OnResolve \/ OnTcpHandshake \/ OnTlsHandshake
    BY <1>1 DEF OnResolve, OnTcpHandshake, OnTlsHandshake, TryConnect, Unconnected
  <1>2. CASE OnWsHandshake
    <2>1. op \in Unconnected /\ UNCHANGED <<posted, sent, wire>> /\ op' \in {"none", "reading"}
      BY <1>2 DEF OnWsHandshake, WsHandshakeDone, WsHandshakeFailed, Unconnected
    <2>2. UNCHANGED queuedMessages
      BY <1>2, Zenon DEF OnWsHandshake, WsHandshakeDone, WsHandshakeFailed, TrySend
    <2>. QED  BY <2>1, <2>2 DEF Unconnected
  <1>3. CASE OnReadDone
    BY <1>3 DEF OnReadDone, Unconnected
  <1>4. CASE OnCloseDone \/ StreamCloses
    BY <1>4 DEF OnCloseDone, StreamCloses
  <1>5. CASE ThreadEnds \/ UNCHANGED vars
    BY <1>5 DEF ThreadEnds, vars
  <1>. QED  BY <1>1, <1>2, <1>3, <1>4, <1>5 DEF Next, ConnectStep

(* What is written or enqueued on the way *)
LEMMA Enqueued ==
    ASSUME TypeOK, posted # <<>>, Head(posted).kind = "send",
           queuedMessages' = Append(queuedMessages, Head(posted).message)
    PROVE  /\ Len(queuedMessages') = Len(queuedMessages) + 1
           /\ Len(queuedMessages) \in Nat
           /\ queuedMessages'[Len(queuedMessages) + 1] = posted[1].message
           /\ posted[1].kind = "send"
           /\ \A i \in 1..Len(queuedMessages) : queuedMessages'[i] = queuedMessages[i]
  <1>1. posted \in Seq(Posted) /\ queuedMessages \in Seq(1..MaxSent)
    BY DEF TypeOK
  <1>2. Head(posted) = posted[1] /\ Head(posted) \in Posted
    BY <1>1, Taken
  <1>3. Head(posted).message \in 1..MaxSent
    BY <1>2, PostedMessages
  <1>. QED  BY <1>1, <1>2, <1>3, Appended

LEMMA Dequeued ==
    ASSUME TypeOK, queuedMessages # <<>>, queuedMessages' = Tail(queuedMessages)
    PROVE  /\ Len(queuedMessages') = Len(queuedMessages) - 1
           /\ Len(queuedMessages) \in Nat /\ Len(queuedMessages) >= 1
           /\ Head(queuedMessages) = queuedMessages[1]
           /\ \A i \in 1..Len(queuedMessages') :
                 /\ i + 1 \in 1..Len(queuedMessages)
                 /\ queuedMessages'[i] = queuedMessages[i + 1]
  <1>1. queuedMessages \in Seq(1..MaxSent)
    BY DEF TypeOK
  <1>. QED  BY <1>1, Taken

LEMMA MessageTypes ==
    ASSUME TypeOK
    PROVE  /\ Len(posted) \in Nat /\ Len(queuedMessages) \in Nat /\ Len(wire) \in Nat
           /\ sent \in Nat
           /\ \A i \in 1..Len(queuedMessages) : queuedMessages[i] \in Nat
           /\ \A j \in 1..Len(posted) : posted[j].kind = "send" => posted[j].message \in Nat
  <1>1. posted \in Seq(Posted) /\ queuedMessages \in Seq(1..MaxSent) /\ wire \in Seq(1..MaxSent)
    BY DEF TypeOK
  <1>2. \A j \in 1..Len(posted) : posted[j] \in Posted
    BY <1>1
  <1>3. \A i \in 1..Len(queuedMessages) : queuedMessages[i] \in Nat
    BY <1>1, WebSocketAssumption DEF WebSocketAssumption
  <1>4. sent \in Nat
    BY WebSocketAssumption DEF TypeOK, WebSocketAssumption
  <1>. QED  BY <1>1, <1>2, <1>3, <1>4, PostedMessages, WebSocketAssumption DEF WebSocketAssumption

(* The owner posts at the end. *)
LEMMA OrderAppended ==
    ASSUME TypeOK, InOrder, NEW c \in Posted, posted' = Append(posted, c),
           UNCHANGED queuedMessages,
           \/ c.kind # "send" /\ UNCHANGED sent
           \/ c = Message(sent') /\ sent' = sent + 1 /\ sent' \in 1..MaxSent
    PROVE  InOrder'
  <1>. USE MessageTypes
  <1>1. c.kind = "send" => c.message = sent' /\ sent' = sent + 1
    BY Kinds
  <1>2. sent' \in Nat /\ sent <= sent'
    OBVIOUS
  <1>3. \A i \in 1..Len(queuedMessages), j \in 1..Len(posted') :
            posted'[j].kind = "send" => queuedMessages[i] < posted'[j].message
    <2>. SUFFICES ASSUME NEW i \in 1..Len(queuedMessages), NEW j \in 1..Len(posted'),
                         posted'[j].kind = "send"
                  PROVE  queuedMessages[i] < posted'[j].message
      OBVIOUS
    <2>1. CASE j \in 1..Len(posted)
      BY <2>1, PostedAppended DEF InOrder
    <2>2. CASE j = Len(posted) + 1
      BY <1>1, <2>2, PostedAppended DEF InOrder
    <2>. QED  BY <2>1, <2>2, PostedAppended
  <1>4. \A i, j \in 1..Len(posted') :
          i < j /\ posted'[i].kind = "send" /\ posted'[j].kind = "send" =>
              posted'[i].message < posted'[j].message
    <2>. SUFFICES ASSUME NEW i \in 1..Len(posted'), NEW j \in 1..Len(posted'), i < j,
                         posted'[i].kind = "send", posted'[j].kind = "send"
                  PROVE  posted'[i].message < posted'[j].message
      OBVIOUS
    <2>1. i \in 1..Len(posted)
      BY PostedAppended
    <2>2. CASE j \in 1..Len(posted)
      BY <2>1, <2>2, PostedAppended DEF InOrder
    <2>3. CASE j = Len(posted) + 1
      BY <1>1, <2>1, <2>3, PostedAppended DEF InOrder
    <2>. QED  BY <2>2, <2>3, PostedAppended
  <1>5. \A j \in 1..Len(posted') : posted'[j].kind = "send" => posted'[j].message <= sent'
    <2>. SUFFICES ASSUME NEW j \in 1..Len(posted'), posted'[j].kind = "send"
                  PROVE  posted'[j].message <= sent'
      OBVIOUS
    <2>1. CASE j \in 1..Len(posted)
      BY <1>2, <2>1, PostedAppended DEF InOrder
    <2>2. CASE j = Len(posted) + 1
      BY <1>1, <1>2, <2>2, PostedAppended DEF InOrder
    <2>. QED  BY <2>1, <2>2, PostedAppended
  <1>6. \A i \in 1..Len(queuedMessages) : queuedMessages[i] <= sent'
    BY <1>2 DEF InOrder
  <1>. QED  BY <1>3, <1>4, <1>5, <1>6 DEF InOrder

(* The thread takes what was posted, and puts a message into the queue. *)
LEMMA OrderTaken ==
    ASSUME TypeOK, InOrder, posted # <<>>, posted' = Tail(posted), UNCHANGED sent,
           \/ UNCHANGED queuedMessages
           \/ /\ Head(posted).kind = "send"
              /\ queuedMessages' = Append(queuedMessages, Head(posted).message)
    PROVE  InOrder'
  <1>. USE MessageTypes
  <1>. DEFINE Old(i) == i \in 1..Len(queuedMessages) /\ queuedMessages'[i] = queuedMessages[i]
              New(i) == posted[1].kind = "send" /\ queuedMessages'[i] = posted[1].message
  <1>1. \A i \in 1..Len(queuedMessages') : Old(i) \/ (i = Len(queuedMessages) + 1 /\ New(i))
    <2>1. CASE UNCHANGED queuedMessages
      BY <2>1
    <2>2. CASE Head(posted).kind = "send" /\ queuedMessages' = Append(queuedMessages, Head(posted).message)
      BY <2>2, Enqueued
    <2>. QED  BY <2>1, <2>2
  <1>2. \A j \in 1..Len(posted') :
            j + 1 \in 1..Len(posted) /\ posted'[j] = posted[j + 1] /\ 1 \in 1..Len(posted) /\ 1 < j + 1
    BY PostedTaken
  <1>. HIDE DEF Old, New
  <1>3. ASSUME NEW i \in 1..Len(queuedMessages'), NEW k \in 1..Len(queuedMessages'), i < k
        PROVE  queuedMessages'[i] < queuedMessages'[k]
    <2>1. Old(i)
      BY <1>1, <1>3 DEF Old
    <2>2. CASE Old(k)
      BY <1>3, <2>1, <2>2 DEF Old, InOrder
    <2>3. CASE New(k)
      BY <2>1, <2>3, PostedTaken DEF Old, New, InOrder
    <2>. QED  BY <1>1, <2>2, <2>3
  <1>4. ASSUME NEW i \in 1..Len(queuedMessages'), NEW j \in 1..Len(posted'), posted'[j].kind = "send"
        PROVE  queuedMessages'[i] < posted'[j].message
    <2>1. CASE Old(i)
      BY <1>2, <1>4, <2>1 DEF Old, InOrder
    <2>2. CASE New(i)
      BY <1>2, <1>4, <2>2 DEF New, InOrder
    <2>. QED  BY <1>1, <2>1, <2>2
  <1>5. ASSUME NEW i \in 1..Len(posted'), NEW j \in 1..Len(posted'), i < j,
               posted'[i].kind = "send", posted'[j].kind = "send"
        PROVE  posted'[i].message < posted'[j].message
    BY <1>2, <1>5 DEF InOrder
  <1>6. \A i \in 1..Len(queuedMessages') : queuedMessages'[i] <= sent'
    <2>1. ASSUME NEW i \in 1..Len(queuedMessages') PROVE queuedMessages'[i] <= sent'
      <3>1. CASE Old(i)
        BY <3>1 DEF Old, InOrder
      <3>2. CASE New(i)
        BY <3>2, PostedTaken DEF New, InOrder
      <3>. QED  BY <1>1, <3>1, <3>2
    <2>. QED  BY <2>1
  <1>7. \A j \in 1..Len(posted') : posted'[j].kind = "send" => posted'[j].message <= sent'
    BY <1>2 DEF InOrder
  <1>. QED  BY <1>3, <1>4, <1>5, <1>6, <1>7 DEF InOrder

(* A write takes the first of the queue. *)
LEMMA OrderDequeued ==
    ASSUME TypeOK, InOrder, queuedMessages # <<>>, queuedMessages' = Tail(queuedMessages),
           UNCHANGED <<posted, sent>>
    PROVE  InOrder'
  <1>. USE MessageTypes
  <1>1. \A i \in 1..Len(queuedMessages') :
            i + 1 \in 1..Len(queuedMessages) /\ queuedMessages'[i] = queuedMessages[i + 1]
    BY Dequeued
  <1>2. ASSUME NEW i \in 1..Len(queuedMessages'), NEW k \in 1..Len(queuedMessages'), i < k
        PROVE  queuedMessages'[i] < queuedMessages'[k]
    BY <1>1, <1>2 DEF InOrder
  <1>. QED  BY <1>1, <1>2 DEF InOrder

LEMMA OrderInductive == TypeOK /\ Ending /\ InOrder /\ [Next]_vars => InOrder'
  <1>. SUFFICES ASSUME TypeOK, Ending, InOrder, [Next]_vars PROVE InOrder'
    OBVIOUS
  <1>. USE DEF owner, resolved, closure, writing
  <1>1. CASE CreateSocket
    <2>1. CASE UNCHANGED posted
      BY <1>1, <2>1 DEF CreateSocket, InOrder
    <2>2. CASE posted' = Append(posted, Call("run"))
      BY <1>1, <2>2, Kinds, OrderAppended DEF CreateSocket
    <2>. QED  BY <1>1, <2>1, <2>2 DEF CreateSocket
  <1>2. CASE SendMessage \/ CloseHandle \/ TryShutdown
    <2>1. UNCHANGED queuedMessages
      BY <1>2, OwnerCalls
    <2>2. CASE UNCHANGED <<posted, sent>>
      BY <2>1, <2>2 DEF InOrder
    <2>3. CASE posted' = Append(posted, Call("close")) /\ UNCHANGED sent
      BY <2>1, <2>3, Kinds, OrderAppended
    <2>4. CASE sent' = sent + 1 /\ sent' \in 1..MaxSent /\ posted' = Append(posted, Message(sent'))
      BY <2>1, <2>4, Kinds, OrderAppended
    <2>. QED  BY <1>2, <2>2, <2>3, <2>4, OwnerCalls
  <1>3. CASE RunPosted
    <2>1. posted # <<>> /\ posted' = Tail(posted) /\ UNCHANGED sent
      BY <1>3 DEF RunPosted
    <2>2. \/ UNCHANGED queuedMessages
          \/ /\ Head(posted).kind = "send"
             /\ queuedMessages' = Append(queuedMessages, Head(posted).message)
      BY <1>3 DEF RunPosted, Run, CloseImpl, Enqueue, TrySend
    <2>. QED  BY <2>1, <2>2, OrderTaken
  <1>4. CASE OnWriteDone
    <2>1. queuedMessages # <<>> /\ queuedMessages' = Tail(queuedMessages)
      BY <1>4 DEF OnWriteDone, TrySend, Ending, WritingOne
    <2>. QED  BY <1>4, <2>1, OrderDequeued DEF OnWriteDone
  <1>. QED  BY <1>1, <1>2, <1>3, <1>4, Unmoving DEF Unmoved, InOrder

LEMMA UnwrittenAppended ==
    ASSUME TypeOK, Unwritten, NEW c \in Posted, posted' = Append(posted, c),
           UNCHANGED <<queuedMessages, wire>>,
           \/ c.kind # "send" /\ UNCHANGED sent
           \/ c = Message(sent') /\ sent' = sent + 1 /\ sent' \in 1..MaxSent
    PROVE  Unwritten'
  <1>. USE MessageTypes
  <1>1. c.kind = "send" => c.message = sent' /\ sent' = sent + 1
    BY Kinds
  <1>2. \A j \in 1..Len(posted') : posted'[j].kind = "send" => posted'[j].message > Len(wire)
    <2>1. ASSUME NEW j \in 1..Len(posted'), posted'[j].kind = "send"
          PROVE  posted'[j].message > Len(wire)
      <3>1. CASE j \in 1..Len(posted)
        BY <2>1, <3>1, PostedAppended DEF Unwritten
      <3>2. CASE j = Len(posted) + 1
        BY <1>1, <2>1, <3>2, PostedAppended DEF Unwritten
      <3>. QED  BY <3>1, <3>2, PostedAppended
    <2>. QED  BY <2>1
  <1>3. \A m \in (Len(wire) + 1)..sent' : Waits(m)'
    <2>1. ASSUME NEW m \in (Len(wire) + 1)..sent' PROVE Waits(m)'
      <3>1. CASE m \in (Len(wire) + 1)..sent
        <4>1. Waits(m)
          BY <3>1 DEF Unwritten
        <4>. QED  BY <4>1, PostedAppended DEF Waits
      <3>2. CASE m = sent + 1 /\ c = Message(sent') /\ sent' = sent + 1 /\ sent' \in 1..MaxSent
        <4>1. Len(posted) + 1 \in 1..Len(posted') /\ posted'[Len(posted) + 1] = c
          BY PostedAppended
        <4>. QED  BY <3>2, <4>1, Kinds DEF Waits
      <3>. QED  BY <3>1, <3>2
    <2>. QED  BY <2>1
  <1>. QED  BY <1>2, <1>3 DEF Unwritten

LEMMA UnwrittenTaken ==
    ASSUME TypeOK, Unwritten, posted # <<>>, posted' = Tail(posted), UNCHANGED <<sent, wire>>,
           \/ UNCHANGED queuedMessages /\ Head(posted).kind # "send"
           \/ /\ Head(posted).kind = "send"
              /\ queuedMessages' = Append(queuedMessages, Head(posted).message)
    PROVE  Unwritten'
  <1>. USE MessageTypes
  <1>1. \A j \in 1..Len(posted') : j + 1 \in 1..Len(posted) /\ posted'[j] = posted[j + 1]
    BY PostedTaken
  <1>2. \A i \in 1..Len(queuedMessages') : queuedMessages'[i] > Len(wire)
    <2>1. CASE UNCHANGED queuedMessages
      BY <2>1 DEF Unwritten
    <2>2. CASE Head(posted).kind = "send" /\ queuedMessages' = Append(queuedMessages, Head(posted).message)
      BY <2>2, Enqueued, PostedTaken DEF Unwritten
    <2>. QED  BY <2>1, <2>2
  <1>3. ASSUME NEW m \in (Len(wire) + 1)..sent PROVE Waits(m)'
    <2>1. Waits(m)
      BY <1>3 DEF Unwritten
    <2>2. CASE \E i \in 1..Len(queuedMessages) : queuedMessages[i] = m
      <3>1. \A i \in 1..Len(queuedMessages) :
                i \in 1..Len(queuedMessages') /\ queuedMessages'[i] = queuedMessages[i]
        BY Enqueued
      <3>. QED  BY <2>2, <3>1 DEF Waits
    <2>3. ASSUME NEW j \in 1..Len(posted), posted[j].kind = "send", posted[j].message = m
          PROVE  Waits(m)'
      <3>1. CASE j = 1
        <4>1. /\ Len(queuedMessages) + 1 \in 1..Len(queuedMessages')
              /\ queuedMessages'[Len(queuedMessages) + 1] = m
          BY <2>3, <3>1, Enqueued, PostedTaken
        <4>. QED  BY <4>1 DEF Waits
      <3>2. CASE j # 1
        <4>1. j - 1 \in 1..Len(posted') /\ posted'[j - 1] = posted[j]
          BY <3>2, PostedTaken
        <4>. QED  BY <2>3, <4>1 DEF Waits
      <3>. QED  BY <3>1, <3>2
    <2>. QED  BY <2>1, <2>2, <2>3 DEF Waits
  <1>. QED  BY <1>1, <1>2, <1>3 DEF Unwritten

LEMMA UnwrittenDequeued ==
    ASSUME TypeOK, InOrder, Unwritten, queuedMessages # <<>>,
           queuedMessages' = Tail(queuedMessages), wire' = Append(wire, Head(queuedMessages)),
           UNCHANGED <<posted, sent>>
    PROVE  /\ Head(queuedMessages) = Len(wire) + 1
           /\ Len(wire) < sent
           /\ Unwritten'
  <1>. USE MessageTypes
  <1>1. /\ 1 \in 1..Len(queuedMessages) /\ Head(queuedMessages) = queuedMessages[1]
        /\ \A i \in 1..Len(queuedMessages') :
              i + 1 \in 1..Len(queuedMessages) /\ queuedMessages'[i] = queuedMessages[i + 1]
    BY Dequeued
  <1>2. Len(wire') = Len(wire) + 1
    BY <1>1 DEF TypeOK
  <1>3. queuedMessages[1] > Len(wire) /\ queuedMessages[1] <= sent
    BY <1>1 DEF Unwritten, InOrder
  <1>4. Waits(Len(wire) + 1)
    BY <1>3, SMTT(40) DEF Unwritten
  <1>5. queuedMessages[1] = Len(wire) + 1
    BY <1>1, <1>3, <1>4 DEF Waits, InOrder
  <1>6. \A i \in 1..Len(queuedMessages') : queuedMessages'[i] > Len(wire')
    BY <1>1, <1>2, <1>5 DEF InOrder
  <1>7. \A j \in 1..Len(posted) : posted[j].kind = "send" => posted[j].message > Len(wire')
    BY <1>1, <1>2, <1>5 DEF InOrder
  <1>8. ASSUME NEW m \in (Len(wire') + 1)..sent PROVE Waits(m)'
    <2>1. m \in (Len(wire) + 1)..sent /\ m # queuedMessages[1]
      BY <1>2, <1>5, <1>8
    <2>2. ASSUME NEW i \in 1..Len(queuedMessages), queuedMessages[i] = m PROVE Waits(m)'
      <3>1. i - 1 \in 1..Len(queuedMessages') /\ queuedMessages'[i - 1] = m
        BY <2>1, <2>2, Dequeued
      <3>. QED  BY <3>1 DEF Waits
    <2>3. Waits(m)
      BY <2>1 DEF Unwritten
    <2>. QED  BY <2>2, <2>3 DEF Waits
  <1>. QED  BY <1>1, <1>2, <1>3, <1>5, <1>6, <1>7, <1>8 DEF Unwritten

LEMMA NoneLostInductive == IInv /\ [Next]_vars => NoneLost'
  <1>. SUFFICES ASSUME IInv, [Next]_vars PROVE NoneLost'
    OBVIOUS
  <1>0. TypeOK /\ Phases /\ Ending /\ InOrder /\ NoneLost
    BY DEF IInv
  <1>. USE DEF owner, resolved, closure, writing
  <1>1. CASE CreateSocket
    <2>1. /\ Blank /\ posted = <<>> /\ queuedMessages = <<>> /\ sent = 0
          /\ UNCHANGED <<op, isOpen, isSending, sent, queuedMessages, wire>>
      BY <1>0, <1>1 DEF CreateSocket, Phases
    <2>2. CASE UNCHANGED posted
      BY <1>0, <2>1, <2>2 DEF NoneLost, Intact, RunPending, Unwritten, Waits
    <2>3. CASE posted' = Append(posted, Call("run"))
      <3>1. Unwritten
        BY <2>1 DEF Unwritten, Blank
      <3>. QED  BY <1>0, <2>1, <2>3, <3>1, Kinds, UnwrittenAppended DEF NoneLost
    <2>. QED  BY <1>1, <2>2, <2>3 DEF CreateSocket
  <1>2. CASE SendMessage \/ CloseHandle \/ TryShutdown
    <2>1. UNCHANGED <<op, isOpen, isSending, queuedMessages, wire>>
      BY <1>0, <1>2, OwnerCalls
    <2>2. CASE UNCHANGED <<posted, sent>>
      BY <1>0, <2>1, <2>2 DEF NoneLost, Intact, RunPending, Unwritten, Waits
    <2>3. ASSUME NEW c \in Posted, c.kind # "run", posted' = Append(posted, c),
                 \/ c.kind # "send" /\ UNCHANGED sent
                 \/ c = Message(sent') /\ sent' = sent + 1 /\ sent' \in 1..MaxSent
          PROVE  NoneLost'
      <3>1. Intact' => Intact
        BY <1>0, <2>1, <2>3, PostedAppended DEF Intact
      <3>2. Unwritten => Unwritten'
        BY <1>0, <2>1, <2>3, UnwrittenAppended
      <3>. QED  BY <1>0, <3>1, <3>2 DEF NoneLost
    <2>4. CASE posted' = Append(posted, Call("close")) /\ UNCHANGED sent
      BY <2>3, <2>4, Kinds
    <2>5. CASE sent' = sent + 1 /\ sent' \in 1..MaxSent /\ posted' = Append(posted, Message(sent'))
      BY <2>3, <2>5, Kinds
    <2>. QED  BY <1>0, <1>2, <2>2, <2>4, <2>5, OwnerCalls
  <1>3. CASE RunPosted
    <2>1. posted # <<>> /\ posted' = Tail(posted) /\ UNCHANGED <<sent, wire>>
      BY <1>3 DEF RunPosted, Run, CloseImpl, Enqueue
    <2>2. ~RunPending'
      BY <1>0, <2>1, PostedTaken DEF Phases
    <2>3. \/ UNCHANGED queuedMessages /\ Head(posted).kind # "send"
          \/ /\ Head(posted).kind = "send"
             /\ queuedMessages' = Append(queuedMessages, Head(posted).message)
      BY <1>3 DEF RunPosted, Run, CloseImpl, Enqueue, TrySend
    <2>4. Intact' => Intact
      <3>1. CASE Head(posted).kind = "run"
        BY <2>1, <3>1 DEF Intact, RunPending
      <3>2. CASE CloseImpl
        BY <2>2, <3>2 DEF Intact, CloseImpl
      <3>3. CASE Enqueue(Head(posted).message)
        <4>1. isSending' => isSending \/ isOpen
          BY <3>3, Zenon DEF Enqueue, TrySend
        <4>. QED  BY <2>2, <3>3, <4>1 DEF Intact, Enqueue
      <3>. QED  BY <1>3, <3>1, <3>2, <3>3 DEF RunPosted
    <2>5. Unwritten => Unwritten'
      BY <1>0, <2>1, <2>3, UnwrittenTaken
    <2>. QED  BY <1>0, <2>4, <2>5 DEF NoneLost
  <1>4. CASE OnWriteDone
    <2>1. queuedMessages # <<>> /\ queuedMessages' = Tail(queuedMessages) /\ isSending
      BY <1>0, <1>4 DEF OnWriteDone, TrySend, Ending, WritingOne
    <2>2. UNCHANGED <<posted, sent, op>>
      BY <1>4 DEF OnWriteDone
    <2>3. CASE wire' = Append(wire, Head(queuedMessages))
      <3>1. Unwritten
        BY <1>0, <2>1 DEF NoneLost, Intact
      <3>. QED  BY <1>0, <2>1, <2>2, <2>3, <3>1, UnwrittenDequeued DEF NoneLost
    <2>4. CASE ~isOpen' /\ ~isSending'
      <3>1. op \notin Unconnected /\ ~RunPending
        <4>1. ~Blank
          BY <2>1 DEF Blank
        <4>2. posted # <<>> => Head(posted) = posted[1] /\ 1 \in 1..Len(posted)
          BY <1>0 DEF TypeOK
        <4>. QED  BY <1>0, <2>1, <4>1, <4>2, NotBlank DEF Phases, RunPending
      <3>. QED  BY <2>2, <2>4, <3>1 DEF NoneLost, Intact, RunPending
    <2>5. wire' = Append(wire, Head(queuedMessages)) \/ (~isOpen' /\ ~isSending')
      BY <1>4, Zenon DEF OnWriteDone
    <2>. QED  BY <2>3, <2>4, <2>5
  <1>5. CASE Unmoved /\ (Intact' => Intact)
    BY <1>0, <1>5 DEF Unmoved, NoneLost, Unwritten, Waits
  <1>6. ASSUME Unmoved, isOpen' => isOpen \/ op \in Unconnected,
               isSending' => isSending \/ op \in Unconnected,
               op' \in Unconnected => op \in Unconnected
        PROVE  Intact' => Intact
    BY <1>6 DEF Unmoved, Intact, RunPending
  <1>. QED  BY <1>1, <1>2, <1>3, <1>4, <1>5, <1>6, Unmoving

-----------------------------------------------------------------------------
LEMMA InitIInv == Init => IInv
  <1>. SUFFICES ASSUME Init PROVE IInv
    OBVIOUS
  <1>. USE WebSocketAssumption DEF Init
  <1>1. TypeOK
    <2>1. NoEntries \in [{"IPv4", "IPv6"} -> Nat]
      BY DEF NoEntries
    <2>2. 0 \in 0..MaxSent
      BY DEF WebSocketAssumption
    <2>3. <<>> \in Seq(Posted) /\ <<>> \in Seq(1..MaxSent) /\ <<>> \in Seq(Callbacks)
      OBVIOUS
    <2>. QED  BY <2>1, <2>2, <2>3 DEF TypeOK
  <1>2. Phases
    <2>1. Blank /\ op \notin Unconnected /\ op # "reading" /\ Len(posted) = 0
      BY DEF Blank, Unconnected
    <2>. QED  BY <2>1 DEF Phases
  <1>3. Ending
    BY DEF Ending, WritingOne
  <1>4. InOrder
    BY DEF InOrder
  <1>5. NoneLost
    BY DEF NoneLost, Unwritten, Waits
  <1>. QED  BY <1>1, <1>2, <1>3, <1>4, <1>5 DEF IInv

LEMMA Invariant == Spec => []IInv
  <1>1. IInv /\ [Next]_vars => IInv'
    BY TypesInductive, PhasesInductive, EndingInductive, OrderInductive, NoneLostInductive
    DEF IInv, Ending
  <1>. QED  BY InitIInv, <1>1, PTL DEF Spec

(* Every variable keeps its type. *)
THEOREM TypeCorrect == Spec => []TypeOK
  <1>1. IInv => TypeOK
    BY DEF IInv
  <1>. QED  BY Invariant, <1>1, PTL

(* The assertion of onWriteDone and the one of the destructor hold. *)
THEOREM AssertionsAreTrue == Spec => []AssertionsHold
  <1>1. IInv => AssertionsHold
    BY DEF IInv, Ending, WritingOne, AssertionsHold, Outstanding, RunPending
  <1>. QED  BY Invariant, <1>1, PTL

-----------------------------------------------------------------------------
(* The refinement: every step is one of WebSocket's, or none. *)

Made == handle \notin {"none", "empty"}

LEMMA DetachRefines ==
    ASSUME IInv, Made, Made', Detach, UNCHANGED <<sent, wire>>
    PROVE  Promised!OnClose \/ UNCHANGED Promised!socketVars
  <1>1. CASE attached
    <2>1. ~Promised!Closed
      BY <1>1 DEF IInv, Ending, Made, Promised!Closed
    <2>. QED  BY <1>1, <2>1, DetachKeeps DEF IInv, Made, Promised!OnClose
  <1>2. CASE ~attached
    BY <1>2, DetachKeeps DEF IInv, Made, Promised!socketVars
  <1>. QED  BY <1>1, <1>2

LEMMA StepRefines == IInv /\ [Next]_vars => [Promised!WebSocketNext]_(Promised!socketVars)
  <1>. SUFFICES ASSUME IInv, [Next]_vars
                PROVE  Promised!WebSocketNext \/ UNCHANGED Promised!socketVars
    OBVIOUS
  <1>0. TypeOK /\ Phases /\ Ending /\ InOrder /\ NoneLost
    BY DEF IInv
  <1>. USE DEF owner, resolved, closure, writing
  <1>1. ASSUME Made, Made', UNCHANGED <<calls, sent, wire>>
        PROVE  UNCHANGED Promised!socketVars
    BY <1>1 DEF Made, Promised!socketVars
  <1>2. ASSUME ~Blank, UNCHANGED handle PROVE Made /\ Made'
    BY <1>0, <1>2, NotBlank DEF Made
  <1>3. CASE CreateSocket
    <2>1. CASE handle' = "empty"
      BY <1>3, <2>1 DEF CreateSocket, Promised!socketVars
    <2>2. CASE handle' = "held"
      BY <1>3, <2>2 DEF CreateSocket, Promised!CreateSocket, Promised!WebSocketNext
    <2>. QED  BY <1>3, <2>1, <2>2 DEF CreateSocket
  <1>4. CASE SendMessage
    BY <1>4 DEF SendMessage, Promised!SendMessage, Promised!WebSocketNext
  <1>5. CASE CloseHandle \/ TryShutdown \/ ThreadEnds \/ UNCHANGED vars
    BY <1>5 DEF CloseHandle, TryShutdown, ThreadEnds, vars, Promised!socketVars
  <1>6. CASE RunPosted
    <2>1. Made /\ Made' /\ UNCHANGED <<sent, wire>>
      BY <1>0, <1>6 DEF RunPosted, Run, CloseImpl, Enqueue, Phases, Made
    <2>2. UNCHANGED calls \/ Detach
      BY <1>6 DEF RunPosted, Run, CloseImpl, Enqueue, Fail
    <2>. QED  BY <1>1, <2>1, <2>2, DetachRefines DEF Promised!WebSocketNext
  <1>7. CASE OnResolve \/ OnTcpHandshake \/ OnTlsHandshake
    <2>1. Made /\ Made' /\ UNCHANGED <<sent, wire>>
      BY <1>2, <1>7 DEF OnResolve, OnTcpHandshake, OnTlsHandshake, Blank
    <2>2. UNCHANGED calls \/ Detach
      BY <1>7 DEF OnResolve, OnTcpHandshake, OnTlsHandshake, TryConnect, Fail
    <2>. QED  BY <1>1, <2>1, <2>2, DetachRefines DEF Promised!WebSocketNext
  <1>8. CASE OnWsHandshake
    <2>1. Made /\ Made' /\ UNCHANGED <<sent, wire>>
      BY <1>2, <1>8 DEF OnWsHandshake, Blank
    <2>2. CASE WsHandshakeDone /\ attached /\ ~isClosing
      <3>1. calls = <<>>
        BY <1>0, <1>8, <2>2 DEF OnWsHandshake, Phases, Unconnected
      <3>2. calls' = <<"open">>
        <4>1. calls' = Append(calls, "open")
          BY <2>2 DEF WsHandshakeDone
        <4>. QED  BY <3>1, <4>1
      <3>. QED  BY <2>1, <3>1, <3>2 DEF Made, Promised!OnOpen, Promised!WebSocketNext
    <2>3. UNCHANGED calls \/ Detach \/ (WsHandshakeDone /\ attached /\ ~isClosing)
      BY <1>8 DEF OnWsHandshake, WsHandshakeDone, WsHandshakeFailed
    <2>. QED  BY <1>1, <2>1, <2>2, <2>3, DetachRefines DEF Promised!WebSocketNext
  <1>9. CASE OnReadDone
    <2>1. Made /\ Made' /\ UNCHANGED <<sent, wire>>
      BY <1>2, <1>9 DEF OnReadDone, Blank
    <2>2. CASE attached /\ calls' = Append(calls, "message")
      <3>1. Promised!Opened /\ ~Promised!Closed
        BY <1>0, <1>9, <2>1, <2>2
        DEF OnReadDone, Phases, Ending, Made, Promised!Opened, Promised!Closed
      <3>. QED  BY <2>1, <2>2, <3>1 DEF Made, Promised!OnMessage, Promised!WebSocketNext
    <2>3. UNCHANGED calls \/ Detach \/ (attached /\ calls' = Append(calls, "message"))
      BY <1>9 DEF OnReadDone
    <2>. QED  BY <1>1, <2>1, <2>2, <2>3, DetachRefines DEF Promised!WebSocketNext
  <1>10. CASE OnWriteDone
    <2>1. Made /\ Made' /\ UNCHANGED <<sent, posted>>
      BY <1>2, <1>10 DEF OnWriteDone, Blank
    <2>2. CASE wire' = Append(wire, Head(queuedMessages)) /\ UNCHANGED calls
      <3>1. queuedMessages # <<>> /\ queuedMessages' = Tail(queuedMessages) /\ Unwritten
        BY <1>0, <1>10
        DEF OnWriteDone, TrySend, Ending, WritingOne, NoneLost, Intact
      <3>2. Head(queuedMessages) = Len(wire) + 1 /\ Len(wire) < sent
        BY <1>0, <2>1, <2>2, <3>1, UnwrittenDequeued
      <3>. QED  BY <2>1, <2>2, <3>2 DEF Made, Promised!Transmit, Promised!WebSocketNext
    <2>3. CASE Detach /\ UNCHANGED wire
      BY <2>1, <2>3, DetachRefines DEF Promised!WebSocketNext
    <2>. QED  BY <1>10, <2>2, <2>3 DEF OnWriteDone, Fail
  <1>11. CASE OnCloseDone
    <2>1. Made /\ Made' /\ UNCHANGED <<sent, wire>> /\ Detach
      BY <1>2, <1>11 DEF OnCloseDone, Blank
    <2>. QED  BY <2>1, DetachRefines DEF Promised!WebSocketNext
  <1>12. CASE StreamCloses
    BY <1>1, <1>2, <1>12 DEF StreamCloses, Blank
  <1>. QED  BY <1>3, <1>4, <1>5, <1>6, <1>7, <1>8, <1>9, <1>10, <1>11, <1>12
            DEF Next, ConnectStep

(* A connection keeps the promise of a WebSocket: whatever runs in which    *)
(* order, its listener hears of one opening at most, of messages after it,  *)
(* of one close, and messages are written once and in order.                *)
THEOREM Implements == Spec => ImplementsWebSocket
  <1>1. Init => Promised!WebSocketInit
    BY DEF Init, Promised!WebSocketInit
  <1>. QED  BY Invariant, <1>1, StepRefines, PTL
            DEF Spec, ImplementsWebSocket, Promised!WebSocketSpec
=============================================================================
