-------------------------- MODULE IrcConnectionProofs --------------------------
(***************************************************************************)
(* Proofs about IrcConnection.  The inductive invariant says what the      *)
(* flags mean in each status: no loss is expected while the connection is  *)
(* active (so an unexpected one starts the timer), and a PING waits for    *)
(* its answer exactly when one interval was quiet.                         *)
(***************************************************************************)
EXTENDS IrcConnection, TLAPS

USE IrcAssumption DEF IrcAssumption

LossIsUnexpected == Active => ~expectLoss

FreshWhileConnecting == status = "connecting" => quiet = 0 /\ ~waitingForPong

QuietIsCounted ==
    status = "connected" => quiet = IF waitingForPong /\ ~recentlyReceived THEN 1 ELSE 0

IrcInv ==
    IrcTypeOK /\ LossIsRetried /\ LossIsUnexpected /\ FreshWhileConnecting /\ QuietIsCounted

(* The bound is respected. *)
LEMMA Bounded == 0 \in 0..MaxDisturbances
  OBVIOUS

LEMMA DisturbBounded ==
    ASSUME NEW d \in 0..MaxDisturbances, d < MaxDisturbances
    PROVE  d + 1 \in 0..MaxDisturbances
  OBVIOUS

LEMMA DisturbTyped ==
    ASSUME IrcTypeOK, Disturb
    PROVE  disturbances' \in 0..MaxDisturbances
<1>1. /\ disturbances \in 0..MaxDisturbances /\ disturbances < MaxDisturbances
      /\ disturbances' = disturbances + 1
  BY DEF IrcTypeOK, Disturb
<1> QED
  BY <1>1, DisturbBounded

LEMMA IrcInitInv == IrcInit => IrcInv
<1>1. ASSUME IrcInit PROVE IrcTypeOK
  <2>1. disturbances \in 0..MaxDisturbances
    BY <1>1, Bounded DEF IrcInit
  <2>2. quiet \in 0..2
    BY <1>1 DEF IrcInit
  <2> QED
    BY <1>1, <2>1, <2>2 DEF IrcInit, IrcTypeOK
<1> QED
  BY <1>1 DEF IrcInit, IrcInv, LossIsRetried, LossIsUnexpected, Active,
              FreshWhileConnecting, QuietIsCounted

(* No step makes a flag lie; the bound aside. *)
LEMMA IrcStepFlags ==
    ASSUME IrcInv, [IrcNext]_ircVars
    PROVE  /\ status' \in {"inactive", "closed", "connecting", "connected"}
           /\ expectLoss' \in BOOLEAN /\ waitingForPong' \in BOOLEAN
           /\ recentlyReceived' \in BOOLEAN /\ pingTimer' \in BOOLEAN
           /\ reconnectTimer' \in BOOLEAN /\ silent' \in BOOLEAN
           /\ LossIsRetried' /\ LossIsUnexpected' /\ FreshWhileConnecting'
<1> USE DEF IrcInv, IrcTypeOK, LossIsRetried, LossIsUnexpected, Active, FreshWhileConnecting
<1>1. CASE Reconnect
  BY <1>1 DEF Reconnect, OpenFlags
<1>2. CASE ReconnectTimeout
  BY <1>2 DEF ReconnectTimeout, OpenFlags
<1>3. CASE Connected
  BY <1>3 DEF Connected
<1>4. CASE ConnectFails \/ ConnectionDrops
  BY <1>4 DEF ConnectFails, ConnectionDrops, Unconnected
<1>5. CASE PeerVanishes
  BY <1>5 DEF PeerVanishes
<1>6. CASE Receive
  BY <1>6 DEF Receive
<1>7. CASE PingTimeout
  <2>1. CASE Heartbeat
    BY <1>7, <2>1 DEF PingTimeout, Heartbeat
  <2>2. CASE SendPing
    BY <1>7, <2>2 DEF PingTimeout, SendPing
  <2>3. CASE CloseTimedOut
    BY <1>7, <2>3 DEF PingTimeout, CloseTimedOut
  <2> QED
    BY <1>7, <2>1, <2>2, <2>3 DEF PingTimeout
<1>8. CASE UNCHANGED ircVars
  BY <1>8 DEF ircVars
<1> QED
  BY <1>1, <1>2, <1>3, <1>4, <1>5, <1>6, <1>7, <1>8 DEF IrcNext

(* Every step counts the quiet intervals right. *)
LEMMA IrcStepQuiet ==
    ASSUME IrcInv, [IrcNext]_ircVars
    PROVE  quiet' \in 0..2 /\ QuietIsCounted'
<1> USE DEF IrcInv, IrcTypeOK, FreshWhileConnecting, QuietIsCounted
<1>1. CASE Reconnect
  BY <1>1 DEF Reconnect
<1>2. CASE ReconnectTimeout
  BY <1>2 DEF ReconnectTimeout
<1>3. CASE Connected
  BY <1>3 DEF Connected
<1>4. CASE ConnectFails \/ ConnectionDrops
  BY <1>4 DEF ConnectFails, ConnectionDrops, Unconnected
<1>5. CASE PeerVanishes
  BY <1>5 DEF PeerVanishes
<1>6. CASE Receive
  BY <1>6 DEF Receive
<1>7. CASE PingTimeout
  <2>1. CASE Heartbeat
    BY <1>7, <2>1 DEF PingTimeout, Heartbeat
  <2>2. CASE SendPing
    <3>1. quiet = 0
      BY <1>7, <2>2 DEF PingTimeout, SendPing
    <3>2. quiet' = 1
      BY <2>2, <3>1 DEF SendPing
    <3> QED
      BY <1>7, <2>2, <3>2 DEF PingTimeout, SendPing
  <2>3. CASE CloseTimedOut
    BY <1>7, <2>3 DEF PingTimeout, CloseTimedOut
  <2> QED
    BY <1>7, <2>1, <2>2, <2>3 DEF PingTimeout
<1>8. CASE UNCHANGED ircVars
  BY <1>8 DEF ircVars
<1> QED
  BY <1>1, <1>2, <1>3, <1>4, <1>5, <1>6, <1>7, <1>8 DEF IrcNext

LEMMA IrcStepInv ==
    ASSUME IrcInv, [IrcNext]_ircVars
    PROVE  IrcInv'
<1>1. disturbances' \in 0..MaxDisturbances
  <2>1. UNCHANGED disturbances \/ Disturb
    BY DEF IrcNext, ircVars, Reconnect, ReconnectTimeout, Connected, ConnectFails,
           ConnectionDrops, PeerVanishes, Receive, PingTimeout
  <2>2. CASE UNCHANGED disturbances
    BY <2>2 DEF IrcInv, IrcTypeOK
  <2> QED
    BY <2>1, <2>2, DisturbTyped DEF IrcInv
<1> QED
  BY <1>1, IrcStepFlags, IrcStepQuiet DEF IrcInv, IrcTypeOK

(* The flags keep their meaning for ever. *)
THEOREM IrcInvariance == IrcSpec => []IrcInv
<1>1. IrcInv /\ [IrcNext]_ircVars => IrcInv'
  BY IrcStepInv
<1> QED
  BY <1>1, IrcInitInv, PTL DEF IrcSpec

(* A lost connection always has its reconnect timer running. *)
THEOREM LossRetried == IrcSpec => []LossIsRetried
<1>1. IrcInv => LossIsRetried
  BY DEF IrcInv
<1> QED
  BY <1>1, IrcInvariance, PTL

(* A connection is given up for a timeout only after a whole quiet ping     *)
(* interval before the ping, and a second one after it.                     *)
THEOREM TimeoutEarned == IrcSpec => TimeoutIsEarned
<1>1. ASSUME IrcInv, [IrcNext]_ircVars,
             status = "connected", status' = "closed", expectLoss'
      PROVE  quiet = 1
  <2>1. ~expectLoss
    BY <1>1 DEF IrcInv, LossIsUnexpected, Active
  <2>2. CASE PingTimeout
    <3>1. CloseTimedOut
      BY <1>1, <2>2 DEF PingTimeout, Heartbeat, SendPing
    <3> QED
      BY <1>1, <3>1 DEF CloseTimedOut, IrcInv, QuietIsCounted
  <2>3. CASE ConnectFails \/ ConnectionDrops
    BY <1>1, <2>1, <2>3 DEF ConnectFails, ConnectionDrops, Unconnected
  <2>4. CASE Reconnect \/ ReconnectTimeout \/ Connected
    BY <1>1, <2>4 DEF Reconnect, ReconnectTimeout, Connected
  <2>5. CASE PeerVanishes \/ Receive \/ UNCHANGED ircVars
    BY <1>1, <2>5 DEF PeerVanishes, Receive, ircVars
  <2> QED
    BY <1>1, <2>2, <2>3, <2>4, <2>5 DEF IrcNext
<1>2. IrcInv /\ [IrcNext]_ircVars
      => [status = "connected" /\ status' = "closed" /\ expectLoss' => quiet = 1]_ircVars
  BY <1>1
<1> QED
  BY <1>2, IrcInvariance, PTL DEF IrcSpec, TimeoutIsEarned
=============================================================================
