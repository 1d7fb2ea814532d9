-------------------------- MODULE WebSocketConnection --------------------------
(***************************************************************************)
(* One connection of chatterino::WebSocketPool, from createSocket to the   *)
(* end of the pool's thread.                                               *)
(*                                                                         *)
(* The owner's thread posts to the pool's thread, which runs what was      *)
(* posted in order, and in between the handlers of asynchronous operations *)
(* that finished: a chain of resolving, connecting, handshaking and        *)
(* reading, one write at a time, and the closing of the stream.  Each of   *)
(* the three may finish while another is in progress.                      *)
(*                                                                         *)
(* Beast's stream is the environment: it is open from the end of its       *)
(* handshake until an operation on it fails or closing it gets its turn.   *)
(* Closing one that is not open fails.                                     *)
(***************************************************************************)
EXTENDS Naturals, Sequences

CONSTANTS
    MaxAddresses,  \* bound: addresses of one IP version the host resolves to
    MaxSent,       \* bound: messages the owner sends
    MaxCalls       \* bound: callbacks of the listener before its onClose

ASSUME WebSocketAssumption == MaxAddresses \in Nat /\ MaxSent \in Nat /\ MaxCalls \in Nat

VARIABLES
    handle,         \* the owner's WebSocketHandle
    poolClosing,    \* WebSocketPoolImpl::closing; work is reset
    stopped,        \* the pool's thread has ended
    posted,         \* what was posted to the thread
    op,             \* the operation of the chain that is in progress
    entries,        \* resolvedEndpoints: how many are left of each IP version
    nextIsIPv6,
    isOpen,         \* stream.is_open()
    attached,       \* listener and pool are set, and the pool lists this
    isClosing,
    closing,        \* async_close is in progress
    queuedMessages,
    isSending,      \* a write is in progress
    calls,          \* callbacks of the listener (history)
    sent,           \* messages sent (history)
    wire            \* messages written (history)

owner == <<handle, poolClosing, sent>>
resolved == <<entries, nextIsIPv6>>
closure == <<isClosing, closing>>
writing == <<queuedMessages, isSending, wire>>
vars == <<owner, stopped, posted, op, resolved, isOpen, attached, closure, writing, calls>>

Call(kind) == [kind |-> kind, message |-> 0]
Message(m) == [kind |-> "send", message |-> m]
Posted == {Call("run"), Call("close")} \cup {Message(m) : m \in 1..MaxSent}

Callbacks == {"open", "message", "close"}

Unconnected == {"resolving", "connecting", "tls", "handshaking"}

TypeOK ==
    /\ handle \in {"none", "empty", "held", "closed", "dropped"}
    /\ poolClosing \in BOOLEAN
    /\ stopped \in BOOLEAN
    /\ posted \in Seq(Posted)
    /\ op \in Unconnected \cup {"none", "reading"}
    /\ entries \in [{"IPv4", "IPv6"} -> Nat]
    /\ nextIsIPv6 \in BOOLEAN
    /\ isOpen \in BOOLEAN
    /\ attached \in BOOLEAN
    /\ isClosing \in BOOLEAN
    /\ closing \in BOOLEAN
    /\ queuedMessages \in Seq(1..MaxSent)
    /\ isSending \in BOOLEAN
    /\ calls \in Seq(Callbacks)
    /\ sent \in 0..MaxSent
    /\ wire \in Seq(1..MaxSent)

NoEntries == [version \in {"IPv4", "IPv6"} |-> 0]

Init ==
    /\ handle = "none"
    /\ poolClosing = FALSE
    /\ stopped = FALSE
    /\ posted = <<>>
    /\ op = "none"
    /\ entries = NoEntries
    /\ nextIsIPv6 = TRUE
    /\ isOpen = FALSE
    /\ attached = FALSE
    /\ isClosing = FALSE
    /\ closing = FALSE
    /\ queuedMessages = <<>>
    /\ isSending = FALSE
    /\ calls = <<>>
    /\ sent = 0
    /\ wire = <<>>

(* Handlers keep the connection alive, and keep the thread running. *)
Outstanding == posted # <<>> \/ op # "none" \/ closing \/ isSending

-----------------------------------------------------------------------------
(* The owner's thread *)

(* createSocket: the handle is empty when the pool could not be set up or   *)
(* is closing, or the URL is no WebSocket's.                                *)
CreateSocket ==
    /\ handle = "none"
    /\ \/ /\ handle' = "empty"
          /\ UNCHANGED <<attached, posted>>
       \/ /\ ~poolClosing
          /\ handle' = "held"
          /\ attached' = TRUE
          /\ posted' = Append(posted, Call("run"))
    /\ UNCHANGED <<poolClosing, sent, stopped, op, resolved, isOpen, closure, writing, calls>>

(* The handle's pointer is weak: a call on a dead connection is dropped. *)
Post(call) ==
    posted' = IF attached \/ Outstanding THEN Append(posted, call) ELSE posted

SendMessage ==
    /\ handle \in {"held", "closed"}
    /\ sent < MaxSent
    /\ attached \/ Outstanding
    /\ sent' = sent + 1
    /\ posted' = Append(posted, Message(sent'))
    /\ UNCHANGED <<handle, poolClosing, stopped, op, resolved, isOpen, attached, closure,
                   writing, calls>>

(* close, then the destructor of the handle or just that *)
CloseHandle ==
    /\ \/ handle = "held" /\ handle' = "closed"
       \/ handle \in {"held", "closed"} /\ handle' = "dropped"
    /\ Post(Call("close"))
    /\ UNCHANGED <<poolClosing, sent, stopped, op, resolved, isOpen, attached, closure,
                   writing, calls>>

(* tryShutdown, which then waits for the thread to end *)
TryShutdown ==
    /\ ~poolClosing
    /\ poolClosing' = TRUE
    /\ posted' = IF attached THEN Append(posted, Call("close")) ELSE posted
    /\ UNCHANGED <<handle, sent, stopped, op, resolved, isOpen, attached, closure,
                   writing, calls>>

-----------------------------------------------------------------------------
(* The pool's thread *)

Detach ==
    /\ attached' = FALSE
    /\ calls' = IF attached THEN Append(calls, "close") ELSE calls

(* fail: a stream that has failed is not open any more, so there is nothing *)
(* to close.                                                                *)
Fail == Detach /\ UNCHANGED closure

(* Mutant: the next message is written before the last one is done. *)
TrySendAnyway(queue, sending, open) ==
    /\ queuedMessages' = queue
    /\ isSending' = open

TrySend(queue, sending, open) ==
    /\ queuedMessages' = queue
    /\ isSending' = (sending \/ (queue # <<>> /\ open))

(* setupStream may fail; a plain connection has none. *)
Run ==
    /\ \/ /\ op' = "resolving"
          /\ UNCHANGED <<attached, calls, closure>>
       \/ op' = "none" /\ Fail
    /\ UNCHANGED <<isOpen, writing>>

Enqueue(m) ==
    /\ TrySend(Append(queuedMessages, m), isSending, isOpen)
    /\ UNCHANGED <<op, isOpen, attached, closure, wire, calls>>

(* Mutant: the operations are cancelled and the stream is left. *)
CloseImplByCancelling ==
    /\ isClosing' = TRUE
    /\ UNCHANGED <<closing, isOpen>>
    /\ UNCHANGED <<op, attached, writing, calls>>

(* closeImpl: an open stream stops being so, unless a write has its turn. *)
CloseImpl ==
    /\ isClosing' = TRUE
    /\ closing' = (closing \/ ~isClosing)
    /\ isOpen' \in IF isClosing THEN {isOpen} ELSE {isOpen, FALSE}
    /\ UNCHANGED <<op, attached, writing, calls>>

RunPosted ==
    /\ posted # <<>>
    /\ posted' = Tail(posted)
    /\ \/ Head(posted).kind = "run" /\ Run
       \/ Head(posted).kind = "close" /\ CloseImpl
       \/ Head(posted).kind = "send" /\ Enqueue(Head(posted).message)
    /\ UNCHANGED <<owner, stopped, resolved>>

(* Mutants: the search goes on past the last entry; running out of entries  *)
(* is not a failure.                                                        *)
NextVersionUnchecked(e, v6) == IF v6 THEN "IPv6" ELSE "IPv4"
TryConnectQuietly(e, v6) ==
    IF e = NoEntries
    THEN op' = "none" /\ entries' = e /\ nextIsIPv6' = v6 /\ UNCHANGED <<attached, calls, closure>>
    ELSE /\ op' = "connecting"
         /\ \E version \in {"IPv4", "IPv6"} :
               e[version] > 0 /\ entries' = [e EXCEPT ![version] = @ - 1]
         /\ UNCHANGED <<nextIsIPv6, attached, calls, closure>>

(* The IP version of the next entry: alternating, as long as there are both *)
NextVersion(e, v6) ==
    IF (v6 /\ e["IPv6"] > 0) \/ e["IPv4"] = 0 THEN "IPv6" ELSE "IPv4"

(* tryConnect(advanceEntry()) *)
TryConnect(e, v6) ==
    IF e = NoEntries
    THEN op' = "none" /\ entries' = e /\ nextIsIPv6' = v6 /\ Fail
    ELSE /\ op' = "connecting"
         /\ entries' = [e EXCEPT ![NextVersion(e, v6)] = @ - 1]
         /\ nextIsIPv6' = (NextVersion(e, v6) = "IPv4")
         /\ UNCHANGED <<attached, calls, closure>>

(* Resolved, failed, or cancelled by closeImpl *)
OnResolve ==
    /\ op = "resolving"
    /\ \/ op' = "none" /\ Fail /\ UNCHANGED resolved
       \/ \E e \in [{"IPv4", "IPv6"} -> 0..MaxAddresses] :
             e # NoEntries /\ TryConnect(e, nextIsIPv6)
    /\ UNCHANGED <<owner, stopped, posted, isOpen, writing>>

(* An error, among them the timeout and the cancellation of closeImpl,      *)
(* makes it try the next entry.  After success comes the handshake of TLS   *)
(* or, for a plain connection, that of the WebSocket.                       *)
OnTcpHandshake ==
    /\ op = "connecting"
    /\ \/ TryConnect(entries, nextIsIPv6)
       \/ /\ op' \in {"tls", "handshaking"}
          /\ entries' = NoEntries /\ nextIsIPv6' = TRUE
          /\ UNCHANGED <<attached, calls, closure>>
    /\ UNCHANGED <<owner, stopped, posted, isOpen, writing>>

OnTlsHandshake ==
    /\ op = "tls"
    /\ \/ op' = "none" /\ Fail
       \/ op' = "handshaking" /\ UNCHANGED <<attached, calls, closure>>
    /\ UNCHANGED <<owner, stopped, posted, resolved, isOpen, writing>>

(* Mutant: a connection that was closed meanwhile is told that it is open. *)
WsHandshakeDoneAnyway ==
    /\ isOpen' = TRUE
    /\ op' = "reading"
    /\ calls' = Append(calls, "open")
    /\ TrySend(queuedMessages, isSending, TRUE)
    /\ UNCHANGED attached

(* Closing a stream during its handshake may win over its opening.  A       *)
(* connection that was closed or detached meanwhile ends here.              *)
WsHandshakeDone ==
    /\ isOpen' \in IF closing THEN BOOLEAN ELSE {TRUE}
    /\ IF attached /\ ~isClosing
       THEN /\ op' = "reading"
            /\ calls' = Append(calls, "open")
            /\ TrySend(queuedMessages, isSending, TRUE)
       ELSE /\ op' = "none"
            /\ UNCHANGED <<calls, queuedMessages, isSending>>
    /\ UNCHANGED attached

WsHandshakeFailed ==
    /\ op' = "none"
    /\ IF attached /\ ~isClosing THEN Detach ELSE UNCHANGED <<attached, calls>>
    /\ UNCHANGED <<isOpen, queuedMessages, isSending>>

OnWsHandshake ==
    /\ op = "handshaking"
    /\ WsHandshakeDone \/ WsHandshakeFailed
    /\ UNCHANGED <<owner, stopped, posted, resolved, closure, wire>>

(* A read that fails has failed the stream; a closed or detached connection *)
(* reads no further.                                                        *)
OnReadDone ==
    /\ op = "reading"
    /\ IF attached /\ ~isClosing
       THEN \/ op' = "none" /\ isOpen' = FALSE /\ Detach
            \/ /\ isOpen
               /\ Len(calls) < MaxCalls
               /\ calls' = Append(calls, "message")
               /\ UNCHANGED <<op, isOpen, attached>>
       ELSE op' = "none" /\ isOpen' \in {isOpen, FALSE} /\ UNCHANGED <<attached, calls>>
    /\ UNCHANGED <<owner, stopped, posted, resolved, closure, writing>>

(* So has a write that fails. *)
OnWriteDone ==
    /\ isSending
    /\ \/ /\ wire' = Append(wire, Head(queuedMessages))
          /\ TrySend(Tail(queuedMessages), FALSE, isOpen)
          /\ UNCHANGED <<isOpen, attached, closure, calls>>
       \/ /\ isOpen' = FALSE
          /\ queuedMessages' = Tail(queuedMessages)
          /\ isSending' = FALSE
          /\ Fail
          /\ UNCHANGED wire
    /\ UNCHANGED <<owner, stopped, posted, op, resolved>>

(* Mutant: only a stream that failed to close is detached. *)
CloseDoneOnError ==
    /\ closing
    /\ closing' = FALSE
    /\ isOpen' = FALSE
    /\ \/ Detach
       \/ UNCHANGED <<attached, calls>>
    /\ UNCHANGED <<owner, stopped, posted, op, resolved, isClosing, writing>>

(* The handler of async_close: it closed, failed or timed out. *)
OnCloseDone ==
    /\ closing
    /\ closing' = FALSE
    /\ isOpen' = FALSE
    /\ Detach
    /\ UNCHANGED <<owner, stopped, posted, op, resolved, isClosing, writing>>

(* Closing the stream gets its turn after a write. *)
StreamCloses ==
    /\ closing /\ isOpen
    /\ isOpen' = FALSE
    /\ UNCHANGED <<owner, stopped, posted, op, resolved, attached, closure, writing, calls>>

(* Nothing is left to run. *)
ThreadEnds ==
    /\ poolClosing /\ ~stopped /\ ~Outstanding
    /\ stopped' = TRUE
    /\ UNCHANGED <<owner, posted, op, resolved, isOpen, attached, closure, writing, calls>>

ConnectStep == OnResolve \/ OnTcpHandshake \/ OnTlsHandshake \/ OnWsHandshake

Next ==
    \/ CreateSocket \/ SendMessage \/ CloseHandle \/ TryShutdown
    \/ RunPosted \/ ConnectStep \/ OnReadDone \/ OnWriteDone
    \/ OnCloseDone \/ StreamCloses \/ ThreadEnds

Spec == Init /\ [][Next]_vars

(* The thread runs.  Resolving, the attempts to connect, both handshakes    *)
(* and closing time out (30 s each).  Nothing makes a peer send or take     *)
(* anything: a read or a write is sure to end only on a stream that failed  *)
(* or after closeImpl has cancelled it.                                     *)
FairSpec ==
    /\ Spec
    /\ WF_vars(RunPosted) /\ WF_vars(ConnectStep) /\ WF_vars(OnCloseDone)
    /\ WF_vars(ThreadEnds)
    /\ WF_vars((isClosing \/ ~isOpen) /\ (OnReadDone \/ OnWriteDone))

-----------------------------------------------------------------------------
(* Whatever the order in which handlers run, the owner gets what a          *)
(* WebSocket promises: one onOpen at most, before any message, one onClose, *)
(* nothing after it; messages are written once and in order.                *)
Promised == INSTANCE WebSocket WITH made <- handle \notin {"none", "empty"}

ImplementsWebSocket == Promised!WebSocketSpec

(* The code's assertions: a write that ends has its message in the queue,   *)
(* and no connection is destroyed that was not detached: as long as it is   *)
(* attached, something is in progress that will detach it.                  *)
AssertionsHold ==
    /\ isSending => queuedMessages # <<>>
    /\ attached => Outstanding

(* An attempt to connect ends: the listener hears of it. *)
ConnectEnds == attached ~> calls # <<>>

(* A connection that is closed by its owner gets detached, and a pool that  *)
(* is shut down comes to an end.                                            *)
CloseEnds ==
    /\ handle \in {"closed", "dropped"} ~> ~attached
    /\ poolClosing ~> stopped
=============================================================================
