----------------------------- MODULE IrcConnection -----------------------------
(***************************************************************************)
(* chatterino::IrcConnection: keeps one IRC connection to Twitch alive.    *)
(* The class adds to Communi's connection a ping timer that notices a dead *)
(* peer, a reconnect timer with a backoff, and a flag that tells an        *)
(* expected loss from an unexpected one.  TwitchIrcServer, whose handler   *)
(* for connectionLost is smartReconnect, is the only user; its connect()   *)
(* is Reconnect here.  All of it runs on the GUI thread.  The socket and   *)
(* the server behind it are the environment.                               *)
(***************************************************************************)
EXTENDS Naturals

CONSTANT MaxDisturbances   \* bound: losses, silent or late peers, requested reconnects

ASSUME IrcAssumption == MaxDisturbances \in Nat

VARIABLES
    status,        \* Communi's status; "connected" is after the 001 reply
    expectLoss,    \* expectConnectionLoss_
    waitingForPong,
    recentlyReceived,
    pingTimer,     \* pingTimer_ runs
    reconnectTimer,\* reconnectTimer_ is active
    silent,        \* the peer is gone but the socket does not know
    quiet,         \* ping intervals since the last message (history)
    disturbances   \* bound

ircVars == <<status, expectLoss, waitingForPong, recentlyReceived, pingTimer,
             reconnectTimer, silent, quiet, disturbances>>

Active == status \in {"connecting", "connected"}

IrcTypeOK ==
    /\ status \in {"inactive", "closed", "connecting", "connected"}
    /\ expectLoss \in BOOLEAN
    /\ waitingForPong \in BOOLEAN
    /\ recentlyReceived \in BOOLEAN
    /\ pingTimer \in BOOLEAN
    /\ reconnectTimer \in BOOLEAN
    /\ silent \in BOOLEAN
    /\ quiet \in 0..2
    /\ disturbances \in 0..MaxDisturbances

IrcInit ==
    /\ status = "inactive"
    /\ expectLoss = FALSE
    /\ waitingForPong = FALSE
    /\ recentlyReceived = TRUE
    /\ pingTimer = TRUE
    /\ reconnectTimer = FALSE
    /\ silent = FALSE
    /\ quiet = 0
    /\ disturbances = 0

Disturb ==
    /\ disturbances < MaxDisturbances
    /\ disturbances' = disturbances + 1

-----------------------------------------------------------------------------
(* Mutant: open keeps expecting the loss that close announced. *)
OpenFlagsStale ==
    /\ waitingForPong' = FALSE
    /\ recentlyReceived' = FALSE
    /\ UNCHANGED expectLoss

(* What open resets. *)
OpenFlags ==
    /\ expectLoss' = FALSE
    /\ waitingForPong' = FALSE
    /\ recentlyReceived' = FALSE

(* TwitchIrcServer::connect: close aborts the socket, expecting that, so    *)
(* only the ping timer stops; open connects again.  A pending reconnect     *)
(* timer keeps running.                                                     *)
Reconnect ==
    /\ IF status = "inactive" THEN UNCHANGED disturbances ELSE Disturb
    /\ OpenFlags
    /\ status' = "connecting"
    /\ pingTimer' = (pingTimer /\ ~Active)
    /\ silent' = FALSE
    /\ quiet' = 0
    /\ UNCHANGED reconnectTimer

(* reconnectTimer_ fires; Communi ignores an open while it is connecting. *)
ReconnectTimeout ==
    /\ reconnectTimer
    /\ reconnectTimer' = FALSE
    /\ IF status = "connected"
       THEN UNCHANGED <<status, expectLoss, waitingForPong, recentlyReceived, quiet>>
       ELSE OpenFlags /\ status' = "connecting" /\ quiet' = 0
    /\ UNCHANGED <<pingTimer, silent, disturbances>>

(* Mutant: the ping timer, stopped by the loss, is not started again. *)
ConnectedUnwatched ==
    /\ status = "connecting"
    /\ status' = "connected"
    /\ recentlyReceived' = TRUE
    /\ UNCHANGED <<expectLoss, waitingForPong, pingTimer, reconnectTimer, silent, quiet,
                   disturbances>>

(* Twitch greets the connection. *)
Connected ==
    /\ status = "connecting"
    /\ status' = "connected"
    /\ pingTimer' = TRUE
    /\ recentlyReceived' = TRUE
    /\ UNCHANGED <<expectLoss, waitingForPong, reconnectTimer, silent, quiet, disturbances>>

(* The socket becomes unconnected by itself. *)
Unconnected ==
    /\ status' = "closed"
    /\ pingTimer' = FALSE
    /\ reconnectTimer' = (reconnectTimer \/ ~expectLoss)
    /\ silent' = FALSE
    /\ UNCHANGED <<expectLoss, waitingForPong, recentlyReceived, quiet>>

ConnectFails == status = "connecting" /\ Unconnected /\ UNCHANGED disturbances

ConnectionDrops == status = "connected" /\ Unconnected /\ Disturb

(* The network stops carrying anything, as after a suspend. *)
PeerVanishes ==
    /\ status = "connected" /\ ~silent
    /\ Disturb
    /\ silent' = TRUE
    /\ UNCHANGED <<status, expectLoss, waitingForPong, recentlyReceived, pingTimer,
                   reconnectTimer, quiet>>

(* A message arrives; it may be the PONG that is waited for. *)
Receive ==
    /\ status = "connected" /\ ~silent
    /\ recentlyReceived' = TRUE
    /\ waitingForPong' \in {waitingForPong, FALSE}
    /\ quiet' = 0
    /\ UNCHANGED <<status, expectLoss, pingTimer, reconnectTimer, silent, disturbances>>

-----------------------------------------------------------------------------
(* Mutants: the closing of a timed-out connection is not signalled; a       *)
(* message does not settle the ping that preceded it.                       *)
CloseTimedOutQuietly ==
    /\ ~recentlyReceived /\ waitingForPong
    /\ expectLoss' = TRUE
    /\ status' = "closed"
    /\ pingTimer' = FALSE
    /\ silent' = FALSE
    /\ UNCHANGED <<waitingForPong, recentlyReceived, quiet, reconnectTimer>>
HeartbeatStillWaiting ==
    /\ recentlyReceived
    /\ recentlyReceived' = FALSE
    /\ quiet' = 0
    /\ UNCHANGED <<status, expectLoss, waitingForPong, pingTimer, reconnectTimer, silent>>

(* The three outcomes of the ping timer on a connected connection. *)
Heartbeat ==
    /\ recentlyReceived
    /\ recentlyReceived' = FALSE
    /\ waitingForPong' = FALSE
    /\ quiet' = 0
    /\ UNCHANGED <<status, expectLoss, pingTimer, reconnectTimer, silent>>

SendPing ==
    /\ ~recentlyReceived /\ ~waitingForPong
    /\ waitingForPong' = TRUE
    /\ quiet' = IF quiet < 2 THEN quiet + 1 ELSE 2
    /\ UNCHANGED <<status, expectLoss, recentlyReceived, pingTimer, reconnectTimer, silent>>

(* close expects the loss, so connectionLost is invoked here instead. *)
CloseTimedOut ==
    /\ ~recentlyReceived /\ waitingForPong
    /\ expectLoss' = TRUE
    /\ status' = "closed"
    /\ pingTimer' = FALSE
    /\ reconnectTimer' = TRUE
    /\ silent' = FALSE
    /\ UNCHANGED <<waitingForPong, recentlyReceived, quiet>>

(* A peer that is there but answers too late counts as a disturbance. *)
PingTimeout ==
    /\ pingTimer /\ status = "connected"
    /\ \/ (Heartbeat \/ SendPing) /\ UNCHANGED disturbances
       \/ CloseTimedOut /\ IF silent THEN UNCHANGED disturbances ELSE Disturb

IrcNext ==
    \/ Reconnect \/ ReconnectTimeout \/ Connected \/ ConnectFails \/ ConnectionDrops
    \/ PeerVanishes \/ Receive \/ PingTimeout

IrcSpec == IrcInit /\ [][IrcNext]_ircVars

-----------------------------------------------------------------------------
(* A connection that went down is always going to be opened again: whatever *)
(* order errors, timeouts, requested reconnects and the timer come in.      *)
LossIsRetried == status = "closed" => reconnectTimer

(* A connection is only given up for a timeout when nothing was received    *)
(* for one whole ping interval before the ping, and one after it.           *)
TimeoutIsEarned ==
    [][status = "connected" /\ status' = "closed" /\ expectLoss' => quiet = 1]_ircVars

(* A peer that vanished is noticed. *)
DeadPeerIsNoticed == silent ~> ~silent

(* The connection comes back whenever it is down. *)
ComesBack == status = "closed" ~> status = "connected"
=============================================================================
