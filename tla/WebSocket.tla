------------------------------- MODULE WebSocket -------------------------------
(***************************************************************************)
(* What a WebSocket of the pool promises to its owner, who has a           *)
(* WebSocketHandle to send and close and a WebSocketListener to be told:   *)
(* the listener is told of the opening at most once, of messages only      *)
(* after that, of the close once at most, and of nothing after it; what is *)
(* written to the peer is a prefix of what was sent, in its order.         *)
(***************************************************************************)
EXTENDS Naturals, Sequences

VARIABLES
    made,    \* createSocket returned a handle to a connection
    calls,   \* the listener's callbacks so far, in order
    sent,    \* messages given to the handle: 1, 2, ..., sent
    wire     \* messages written to the stream, in order

socketVars == <<made, calls, sent, wire>>

Opened == calls # <<>> /\ Head(calls) = "open"
Closed == calls # <<>> /\ calls[Len(calls)] = "close"

WebSocketInit ==
    /\ made = FALSE
    /\ calls = <<>>
    /\ sent = 0
    /\ wire = <<>>

CreateSocket ==
    /\ ~made
    /\ made' = TRUE
    /\ UNCHANGED <<calls, sent, wire>>

SendMessage ==
    /\ made
    /\ sent' = sent + 1
    /\ UNCHANGED <<made, calls, wire>>

(* One callback; opening also starts what was sent before. *)
OnOpen ==
    /\ made /\ calls = <<>>
    /\ calls' = <<"open">>
    /\ UNCHANGED <<made, sent, wire>>

OnMessage ==
    /\ Opened /\ ~Closed
    /\ calls' = Append(calls, "message")
    /\ UNCHANGED <<made, sent, wire>>

OnClose ==
    /\ made /\ ~Closed
    /\ calls' = Append(calls, "close")
    /\ UNCHANGED <<made, sent, wire>>

Transmit ==
    /\ Len(wire) < sent
    /\ wire' = Append(wire, Len(wire) + 1)
    /\ UNCHANGED <<made, calls, sent>>

WebSocketNext ==
    \/ CreateSocket \/ SendMessage \/ OnOpen \/ OnMessage \/ OnClose \/ Transmit

WebSocketSpec == WebSocketInit /\ [][WebSocketNext]_socketVars
=============================================================================
