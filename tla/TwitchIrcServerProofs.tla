------------------------- MODULE TwitchIrcServerProofs -------------------------
(***************************************************************************)
(* Proofs about TwitchIrcServer for any names, budget and number of        *)
(* channels.  Every step of the server is a step of IrcConnection or       *)
(* leaves it alone, so what IrcConnectionProofs shows carries over; what   *)
(* is joined follows from the registry alone, wherever channels die.       *)
(***************************************************************************)
EXTENDS TwitchIrcServer, IrcConnectionProofs, SequenceTheorems, FiniteSetTheorems

(* What may be joined. *)
Plain == Names \ CustomNames

(* A channel object has its name until its destroyed signal was handled.    *)
NamedWhileAlive ==
    \A o \in Objects : life[o] \in {"live", "dying"} => nameOf[o] \in Names

QueueIsPlain == joinQueue \in Seq(Plain)

(* The channel side of TypeOK. *)
ChannelTypeOK ==
    /\ life \in [Objects -> {"unused", "live", "dying", "dead"}]
    /\ nameOf \in [Objects -> Names \cup {NoObject}]
    /\ registered \in [Names -> Objects \cup {NoObject}]

JoinedIsPlain == joined \subseteq Plain

Inv ==
    /\ IrcInv
    /\ ChannelTypeOK /\ NamedWhileAlive
    /\ QueueIsPlain /\ JoinedIsPlain /\ joinBudget \in 0..Budget
    /\ JoinedIsWanted

-----------------------------------------------------------------------------
(* Every step of the server is one of its read connection, or none. *)
LEMMA StepIsIrcStep == [Next]_serverVars => [IrcNext]_ircVars
  BY DEF Next, serverVars, IrcNext, GetOrAddChannel, DestroyChannel, DropOffThread,
         FinishDestruction, Unregister, OnReadConnected, ConnectServer, LoseServer,
         RetryServer, Ping, Environment, JoinCooldown

(* The server implements its connection's specification: it never touches   *)
(* the connection but through its operations.                               *)
THEOREM DrivesConnection == Spec => IrcSpec
<1>1. Init => IrcInit
  BY DEF Init
<1> QED
  BY <1>1, StepIsIrcStep, PTL DEF Spec, IrcSpec

(* A lost read connection always has its reconnect timer running, whatever  *)
(* the server does around it.                                               *)
THEOREM ServerLossRetried == Spec => []LossIsRetried
  BY DrivesConnection, LossRetried, PTL

-----------------------------------------------------------------------------
LEMMA Parts ==
    ASSUME NEW S, NEW s \in Seq(S), NEW n \in 0..Len(s)
    PROVE  SubSeq(s, 1, n) \in Seq(S) /\ SubSeq(s, n + 1, Len(s)) \in Seq(S)
<1>1. \A i \in 1..n : s[i] \in S
  OBVIOUS
<1>2. \A i \in (n + 1)..Len(s) : s[i] \in S
  OBVIOUS
<1>3. n \in Int /\ n + 1 \in Int /\ 1 \in Int /\ Len(s) \in Int
  OBVIOUS
<1>4. SubSeq(s, 1, n) \in Seq(S)
  BY <1>1, <1>3, SubSeqProperties
<1>5. SubSeq(s, n + 1, Len(s)) \in Seq(S)
  BY <1>2, <1>3, SubSeqProperties
<1> QED
  BY <1>4, <1>5

(* Passing JOINs on joins registered, plain names, and only when connected. *)
LEMMA PassJoinsStep ==
    ASSUME QueueIsPlain,
           NEW names \in Seq(Plain), NEW allowed \in Nat, NEW before \in SUBSET Plain,
           NEW reg, NEW connected \in BOOLEAN,
           PassJoins(names, allowed, before, reg, connected)
    PROVE  /\ QueueIsPlain' /\ JoinedIsPlain'
           /\ \A m \in joined' : m \in before \/ (connected /\ reg[m] # NoObject)
<1> DEFINE all    == joinQueue \o names
           n      == IF allowed < Len(all) THEN allowed ELSE Len(all)
           passed == SubSeq(all, 1, n)
<1>1. all \in Seq(Plain)
  BY DEF QueueIsPlain
<1>2. n \in 0..Len(all)
  <2>1. Len(all) \in Nat
    BY <1>1
  <2> QED
    BY <2>1
<1>3. passed \in Seq(Plain) /\ SubSeq(all, n + 1, Len(all)) \in Seq(Plain)
  <2> HIDE DEF all, n
  <2> QED
    BY <1>1, <1>2, Parts
<1>4. /\ joinQueue' = SubSeq(all, n + 1, Len(all))
      /\ joined' = IF connected THEN before \cup ActuallyJoin(passed, reg) ELSE before
  BY DEF PassJoins
<1> HIDE DEF all, n, passed
<1>5. ActuallyJoin(passed, reg) \subseteq Plain
  BY <1>3, RangeOfSeq DEF ActuallyJoin
<1>6. \A m \in ActuallyJoin(passed, reg) : reg[m] # NoObject
  BY DEF ActuallyJoin
<1> QED
  BY <1>3, <1>4, <1>5, <1>6 DEF QueueIsPlain, JoinedIsPlain

(* The budget a send takes is there. *)
LEMMA BudgetLeft ==
    ASSUME NEW b \in 0..Budget, NEW l \in Nat
    PROVE  LET n == IF b < l THEN b ELSE l IN n \in Nat /\ b - n \in 0..Budget
<1>1. Budget \in Nat
  BY ServerAssumption DEF ServerAssumption
<1> QED
  BY <1>1

LEMMA SendJoinsStep ==
    ASSUME QueueIsPlain, joinBudget \in 0..Budget,
           NEW names \in Seq(Plain), NEW before \in SUBSET Plain,
           NEW reg, NEW connected \in BOOLEAN,
           SendJoins(names, before, reg, connected)
    PROVE  /\ QueueIsPlain' /\ JoinedIsPlain' /\ joinBudget' \in 0..Budget
           /\ \A m \in joined' : m \in before \/ (connected /\ reg[m] # NoObject)
<1> DEFINE n == IF joinBudget < Len(names) THEN joinBudget ELSE Len(names)
<1>1. n \in Nat /\ joinBudget - n \in 0..Budget
  <2>1. Len(names) \in Nat
    OBVIOUS
  <2> QED
    BY <2>1, BudgetLeft
<1>2. PassJoins(names, n, before, reg, connected) /\ joinBudget' = joinBudget - n
  BY DEF SendJoins
<1> HIDE DEF n
<1> QED
  BY <1>1, <1>2, PassJoinsStep
-----------------------------------------------------------------------------
(* The cooldown and the open order. *)
LEMMA CooldownBudget ==
    ASSUME NEW b \in 0..Budget, b < Budget
    PROVE  b + 1 \in 0..Budget
<1>1. Budget \in Nat
  BY ServerAssumption DEF ServerAssumption
<1> QED
  BY <1>1

LEMMA OrderIsSeq ==
    ASSUME NEW S \in SUBSET Plain, NEW order \in Bijection(1..Cardinality(S), S)
    PROVE  order \in Seq(Plain)
<1>1. IsFiniteSet(S)
  BY ServerAssumption, FS_Subset DEF ServerAssumption, Plain
<1>2. Cardinality(S) \in Nat
  BY <1>1, FS_CardinalityType
<1>3. order \in [1..Cardinality(S) -> S]
  BY DEF Bijection, Injection
<1>4. order \in [1..Cardinality(S) -> Plain]
  BY <1>3
<1> QED
  BY <1>2, <1>4, SeqDef

(* Creating a channel registers it before its JOIN is sent. *)
LEMMA GetOrAddStep ==
    ASSUME Inv, NEW n \in Names, NEW o \in Objects, GetOrAddChannel(n, o)
    PROVE  /\ ChannelTypeOK' /\ NamedWhileAlive'
           /\ QueueIsPlain' /\ JoinedIsPlain' /\ joinBudget' \in 0..Budget
           /\ JoinedIsWanted'
<1>1. /\ life' = [life EXCEPT ![o] = "live"]
      /\ nameOf' = [nameOf EXCEPT ![o] = n]
      /\ registered' = [registered EXCEPT ![n] = o]
      /\ status' = status
  BY DEF GetOrAddChannel, ircVars
<1>2. ChannelTypeOK' /\ NamedWhileAlive'
  BY <1>1 DEF Inv, ChannelTypeOK, NamedWhileAlive
<1>3. o # NoObject
  BY ServerAssumption DEF ServerAssumption
<1>4. \A m \in Names : registered[m] # NoObject => registered'[m] # NoObject
  BY <1>1, <1>3 DEF Inv, ChannelTypeOK
<1>5. CASE status = "connected" /\ n \notin CustomNames
  <2>1. SendJoins(<<n>>, joined, registered', TRUE)
    BY <1>5 DEF GetOrAddChannel
  <2>2. <<n>> \in Seq(Plain) /\ joined \in SUBSET Plain
    BY <1>5 DEF Plain, Inv, JoinedIsPlain
  <2>3. /\ QueueIsPlain' /\ JoinedIsPlain' /\ joinBudget' \in 0..Budget
        /\ \A m \in joined' : m \in joined \/ (TRUE /\ registered'[m] # NoObject)
    BY <2>1, <2>2, SendJoinsStep DEF Inv
  <2>4. JoinedIsWanted'
    BY <1>1, <1>4, <1>5, <2>3 DEF Inv, JoinedIsWanted, JoinedIsPlain, Plain
  <2> QED
    BY <1>2, <2>3, <2>4
<1>6. CASE ~(status = "connected" /\ n \notin CustomNames)
  <2>1. UNCHANGED <<joined, joinQueue, joinBudget>>
    BY <1>6 DEF GetOrAddChannel, joinVars
  <2>2. JoinedIsWanted'
    BY <1>1, <1>4, <2>1 DEF Inv, JoinedIsWanted, JoinedIsPlain, Plain
  <2> QED
    BY <1>2, <2>1, <2>2 DEF Inv, QueueIsPlain, JoinedIsPlain
<1> QED
  BY <1>5, <1>6

(* The handler of destroyed removes and parts one and the same name. *)
LEMMA UnregisterStep ==
    ASSUME Inv, NEW o \in Objects, life[o] \in {"live", "dying"},
           life' = [life EXCEPT ![o] = "dead"], Unregister(o)
    PROVE  /\ ChannelTypeOK' /\ NamedWhileAlive'
           /\ QueueIsPlain' /\ JoinedIsPlain' /\ joinBudget' \in 0..Budget
           /\ JoinedIsWanted'
<1>1. /\ registered' = [registered EXCEPT ![nameOf[o]] = NoObject]
      /\ joined' = joined \ {nameOf[o]}
      /\ nameOf' = [nameOf EXCEPT ![o] = NoObject]
      /\ UNCHANGED <<joinQueue, joinBudget, status>>
  BY DEF Unregister, ircVars
<1>2. nameOf[o] \in Names
  BY DEF Inv, NamedWhileAlive
<1>3. ChannelTypeOK' /\ NamedWhileAlive'
  BY <1>1, <1>2 DEF Inv, ChannelTypeOK, NamedWhileAlive
<1>4. QueueIsPlain' /\ JoinedIsPlain' /\ joinBudget' \in 0..Budget
  BY <1>1 DEF Inv, QueueIsPlain, JoinedIsPlain
<1>5. JoinedIsWanted'
  BY <1>1 DEF Inv, JoinedIsWanted, JoinedIsPlain, Plain, ChannelTypeOK
<1> QED
  BY <1>3, <1>4, <1>5

(* Every live channel is sent on a new connection. *)
LEMMA OnReadConnectedStep ==
    ASSUME Inv, OnReadConnected
    PROVE  /\ ChannelTypeOK' /\ NamedWhileAlive'
           /\ QueueIsPlain' /\ JoinedIsPlain' /\ joinBudget' \in 0..Budget
           /\ JoinedIsWanted'
<1> DEFINE wanted == {n \in Names \ CustomNames : Live(n)}
<1>1. PICK order \in Bijection(1..Cardinality(wanted), wanted) :
          SendJoins(order, joined, registered, TRUE)
  BY DEF OnReadConnected
<1>2. wanted \in SUBSET Plain
  BY DEF Plain
<1>3. order \in Seq(Plain)
  <2> HIDE DEF wanted
  <2> QED
    BY <1>2, OrderIsSeq
<1>4. joined \in SUBSET Plain
  BY DEF Inv, JoinedIsPlain
<1>5. /\ QueueIsPlain' /\ JoinedIsPlain' /\ joinBudget' \in 0..Budget
      /\ \A m \in joined' : m \in joined \/ (TRUE /\ registered[m] # NoObject)
  BY <1>1, <1>3, <1>4, SendJoinsStep DEF Inv
<1>6. status' = "connected" /\ UNCHANGED <<life, nameOf, registered>>
  BY DEF OnReadConnected, Connected, channelVars
<1>7. JoinedIsWanted'
  BY <1>5, <1>6 DEF Inv, JoinedIsWanted, JoinedIsPlain, Plain
<1>8. ChannelTypeOK' /\ NamedWhileAlive'
  BY <1>6 DEF Inv, ChannelTypeOK, NamedWhileAlive
<1> QED
  BY <1>5, <1>7, <1>8

(* A fired cooldown timer lets at most one JOIN pass. *)
LEMMA JoinCooldownStep ==
    ASSUME Inv, JoinCooldown
    PROVE  /\ ChannelTypeOK' /\ NamedWhileAlive'
           /\ QueueIsPlain' /\ JoinedIsPlain' /\ joinBudget' \in 0..Budget
           /\ JoinedIsWanted'
<1>1. /\ PassJoins(<<>>, 1, joined, registered, status = "connected")
      /\ joinBudget < Budget
      /\ joinBudget' = IF joinQueue = <<>> THEN joinBudget + 1 ELSE joinBudget
      /\ UNCHANGED <<life, nameOf, registered, status>>
  BY DEF JoinCooldown, channelVars, ircVars
<1>2. joinBudget' \in 0..Budget
  BY <1>1, CooldownBudget DEF Inv
<1>3. joined \in SUBSET Plain /\ <<>> \in Seq(Plain) /\ 1 \in Nat
  BY DEF Inv, JoinedIsPlain
<1>4. (status = "connected") \in BOOLEAN
  OBVIOUS
<1>5. /\ QueueIsPlain' /\ JoinedIsPlain'
      /\ \A m \in joined' : m \in joined \/ (status = "connected" /\ registered[m] # NoObject)
  BY <1>1, <1>3, <1>4, PassJoinsStep, ZenonT(60) DEF Inv
<1>6. ChannelTypeOK' /\ NamedWhileAlive'
  BY <1>1 DEF Inv, ChannelTypeOK, NamedWhileAlive
<1>7. JoinedIsWanted'
  BY <1>1, <1>5 DEF Inv, JoinedIsWanted, JoinedIsPlain, Plain
<1> QED
  BY <1>2, <1>5, <1>6, <1>7

(* Where the connection goes down, nothing stays joined. *)
LEMMA DisconnectStep ==
    ASSUME Inv, UNCHANGED <<life, nameOf, registered, joinQueue, joinBudget>>,
           joined' = {} \/ (joined' = joined /\ (joined # {} => status' = "connected"))
    PROVE  /\ ChannelTypeOK' /\ NamedWhileAlive'
           /\ QueueIsPlain' /\ JoinedIsPlain' /\ joinBudget' \in 0..Budget
           /\ JoinedIsWanted'
  BY DEF Inv, ChannelTypeOK, NamedWhileAlive, QueueIsPlain, JoinedIsPlain, JoinedIsWanted

(* The inductive invariant is kept by every step of the server. *)
LEMMA InvStep ==
    ASSUME Inv, [Next]_serverVars
    PROVE  Inv'
<1>1. IrcInv'
  BY StepIsIrcStep, IrcStepInv DEF Inv
<1>2. ASSUME NEW o \in Objects, NEW n \in Names, GetOrAddChannel(n, o)
      PROVE  Inv'
  BY <1>1, <1>2, GetOrAddStep DEF Inv
<1>3. ASSUME NEW o \in Objects, DestroyChannel(o) \/ FinishDestruction(o)
      PROVE  Inv'
  <2>1. /\ life[o] \in {"live", "dying"} /\ life' = [life EXCEPT ![o] = "dead"]
        /\ Unregister(o)
    BY <1>3 DEF DestroyChannel, FinishDestruction
  <2> QED
    BY <1>1, <2>1, UnregisterStep DEF Inv
<1>4. ASSUME NEW o \in Objects, DropOffThread(o)
      PROVE  Inv'
  <2>1. /\ life[o] = "live" /\ life' = [life EXCEPT ![o] = "dying"]
        /\ UNCHANGED <<nameOf, registered, joined, joinQueue, joinBudget, status>>
    BY <1>4 DEF DropOffThread, joinVars, ircVars
  <2>2. ChannelTypeOK' /\ NamedWhileAlive'
    BY <2>1 DEF Inv, ChannelTypeOK, NamedWhileAlive
  <2> QED
    BY <1>1, <2>1, <2>2 DEF Inv, QueueIsPlain, JoinedIsPlain, JoinedIsWanted
<1>5. CASE OnReadConnected
  BY <1>1, <1>5, OnReadConnectedStep DEF Inv
<1>6. CASE ConnectServer \/ LoseServer
  <2>1. joined' = {} /\ UNCHANGED <<life, nameOf, registered, joinQueue, joinBudget>>
    BY <1>6 DEF ConnectServer, LoseServer, Disconnected, channelVars
  <2> QED
    BY <1>1, <2>1, DisconnectStep DEF Inv
<1>7. CASE Ping
  <2>1. /\ UNCHANGED <<life, nameOf, registered, joinQueue, joinBudget>>
        /\ joined' = IF status' = "connected" THEN joined ELSE {}
    BY <1>7 DEF Ping, channelVars
  <2> QED
    BY <1>1, <2>1, DisconnectStep DEF Inv
<1>8. CASE RetryServer \/ Environment
  <2>1. UNCHANGED <<life, nameOf, registered, joined, joinQueue, joinBudget>>
    BY <1>8 DEF RetryServer, Environment, channelVars, joinVars
  <2>2. status = "connected" => status' = "connected"
    BY <1>8 DEF RetryServer, ReconnectTimeout, Environment, PeerVanishes, Receive
  <2> QED
    BY <1>1, <2>1, <2>2, DisconnectStep DEF Inv, JoinedIsWanted
<1>9. CASE JoinCooldown
  BY <1>1, <1>9, JoinCooldownStep DEF Inv
<1>10. CASE UNCHANGED serverVars
  <2>1. UNCHANGED <<life, nameOf, registered, joined, joinQueue, joinBudget, status>>
    BY <1>10 DEF serverVars, channelVars, joinVars, ircVars
  <2> QED
    BY <1>1, <2>1, DisconnectStep DEF Inv, JoinedIsWanted
<1> QED
  BY <1>2, <1>3, <1>4, <1>5, <1>6, <1>7, <1>8, <1>9, <1>10 DEF Next

LEMMA InitInv == Init => Inv
<1> SUFFICES ASSUME Init PROVE Inv
  OBVIOUS
<1>1. IrcInv
  BY IrcInitInv DEF Init
<1>2. ChannelTypeOK /\ NamedWhileAlive
  BY DEF Init, ChannelTypeOK, NamedWhileAlive
<1>3. joinBudget \in 0..Budget
  <2>1. Budget \in Nat
    BY ServerAssumption DEF ServerAssumption
  <2> QED
    BY <2>1 DEF Init
<1> QED
  BY <1>1, <1>2, <1>3 DEF Init, Inv, QueueIsPlain, JoinedIsPlain, JoinedIsWanted

THEOREM Invariance == Spec => []Inv
<1>1. Inv /\ [Next]_serverVars => Inv'
  BY InvStep
<1> QED
  BY <1>1, InitInv, PTL DEF Spec

(* The server's variables keep their types, the JOIN budget its bounds. *)
THEOREM TypeCorrect == Spec => []TypeOK
<1>1. ASSUME Inv PROVE TypeOK
  <2>1. joinQueue \in Seq(Names) /\ joined \subseteq Names
    BY <1>1 DEF Inv, QueueIsPlain, JoinedIsPlain, Plain
  <2> QED
    BY <1>1, <2>1 DEF Inv, IrcInv, ChannelTypeOK, TypeOK
<1> QED
  BY <1>1, Invariance, PTL

(* Twitch has us joined to registered, joinable channels only, and only     *)
(* while connected, even when other threads destroy channels.               *)
THEOREM OnlyWantedJoined == Spec => []JoinedIsWanted
<1>1. Inv => JoinedIsWanted
  BY DEF Inv
<1> QED
  BY <1>1, Invariance, PTL
-----------------------------------------------------------------------------
(* With channels destroyed on the GUI thread only, the registry maps every  *)
(* live channel's name to that channel, which is why its JOIN is not lost.  *)
NoneDying == \A o \in Objects : life[o] # "dying"

RegistryIsRight == \A o \in Objects : life[o] = "live" => registered[nameOf[o]] = o

CalmInv == Inv /\ NoneDying /\ RegistryIsRight /\ OpenIsJoined

LEMMA RangeParts ==
    ASSUME NEW S, NEW s \in Seq(S), NEW n \in 0..Len(s)
    PROVE  Range(s) = Range(SubSeq(s, 1, n)) \cup Range(SubSeq(s, n + 1, Len(s)))
<1>1. /\ 1 \in 1..Len(s) + 1 /\ n \in (1 - 1)..Len(s) /\ Len(s) \in n..Len(s)
  <2>1. Len(s) \in Nat
    OBVIOUS
  <2> QED
    BY <2>1
<1>2. SubSeq(s, 1, n) \o SubSeq(s, n + 1, Len(s)) = SubSeq(s, 1, Len(s))
  BY <1>1, ConcatAdjacentSubSeq
<1>3. SubSeq(s, 1, Len(s)) = s
  BY SubSeqFull
<1>4. SubSeq(s, 1, n) \in Seq(S) /\ SubSeq(s, n + 1, Len(s)) \in Seq(S)
  BY Parts
<1>5. Range(SubSeq(s, 1, n) \o SubSeq(s, n + 1, Len(s)))
      = Range(SubSeq(s, 1, n)) \cup Range(SubSeq(s, n + 1, Len(s)))
  BY <1>4, RangeConcatenation
<1> QED
  BY <1>2, <1>3, <1>5, Zenon

(* On a live connection, no registered name is lost between queue and Twitch. *)
LEMMA PassJoinsKeeps ==
    ASSUME QueueIsPlain,
           NEW names \in Seq(Plain), NEW allowed \in Nat, NEW before \in SUBSET Plain,
           NEW reg, PassJoins(names, allowed, before, reg, TRUE),
           NEW m \in before \cup Range(joinQueue) \cup Range(names), reg[m] # NoObject
    PROVE  m \in joined' \cup Range(joinQueue')
<1> DEFINE all    == joinQueue \o names
           n      == IF allowed < Len(all) THEN allowed ELSE Len(all)
           passed == SubSeq(all, 1, n)
<1>1. all \in Seq(Plain)
  BY DEF QueueIsPlain
<1>2. n \in 0..Len(all)
  <2>1. Len(all) \in Nat
    BY <1>1
  <2> QED
    BY <2>1
<1>3. /\ joinQueue' = SubSeq(all, n + 1, Len(all))
      /\ joined' = before \cup ActuallyJoin(passed, reg)
  BY DEF PassJoins
<1>4. CASE m \in before
  BY <1>3, <1>4
<1>5. CASE m \in Range(joinQueue) \cup Range(names)
  <2>1. m \in Range(all)
    BY <1>5, RangeConcatenation DEF QueueIsPlain
  <2> HIDE DEF all, n
  <2>2. m \in Range(passed) \cup Range(joinQueue')
    BY <1>1, <1>2, <1>3, <2>1, RangeParts
  <2>3. m \in Range(passed) => m \in ActuallyJoin(passed, reg)
    BY DEF ActuallyJoin
  <2> HIDE DEF passed
  <2> QED
    BY <1>3, <2>2, <2>3
<1> QED
  BY <1>4, <1>5

LEMMA SendJoinsKeeps ==
    ASSUME QueueIsPlain, joinBudget \in 0..Budget,
           NEW names \in Seq(Plain), NEW before \in SUBSET Plain,
           NEW reg, SendJoins(names, before, reg, TRUE),
           NEW m \in before \cup Range(joinQueue) \cup Range(names), reg[m] # NoObject
    PROVE  m \in joined' \cup Range(joinQueue')
<1> DEFINE n == IF joinBudget < Len(names) THEN joinBudget ELSE Len(names)
<1>1. n \in Nat
  <2>1. Len(names) \in Nat
    OBVIOUS
  <2> QED
    BY <2>1, BudgetLeft
<1>2. PassJoins(names, n, before, reg, TRUE)
  BY DEF SendJoins
<1> HIDE DEF n
<1> QED
  BY <1>1, <1>2, PassJoinsKeeps

(* A step that keeps channels and JOINs, or leaves the connection down,     *)
(* keeps what the user sees joined.                                         *)
LEMMA CalmUnchanged ==
    ASSUME CalmInv, UNCHANGED <<life, nameOf, registered, joinQueue>>,
           status' = "connected" => status = "connected" /\ joined' = joined
    PROVE  NoneDying' /\ RegistryIsRight' /\ OpenIsJoined'
  BY DEF CalmInv, NoneDying, RegistryIsRight, OpenIsJoined

LEMMA CalmGetOrAdd ==
    ASSUME CalmInv, NEW n \in Names, NEW o \in Objects, GetOrAddChannel(n, o)
    PROVE  NoneDying' /\ RegistryIsRight' /\ OpenIsJoined'
<1>1. /\ life[o] = "unused" /\ ~Live(n)
      /\ life' = [life EXCEPT ![o] = "live"]
      /\ nameOf' = [nameOf EXCEPT ![o] = n]
      /\ registered' = [registered EXCEPT ![n] = o]
      /\ status' = status
  BY DEF GetOrAddChannel, ircVars
<1>2. ChannelTypeOK /\ NamedWhileAlive /\ NoneDying /\ RegistryIsRight
  BY DEF CalmInv, Inv
<1>3. o # NoObject
  BY ServerAssumption DEF ServerAssumption
<1>4. NoneDying'
  BY <1>1, <1>2 DEF NoneDying, ChannelTypeOK
<1>5. ASSUME NEW p \in Objects, life[p] = "live"
      PROVE  p # o /\ nameOf[p] # n /\ nameOf[p] \in Names /\ registered[nameOf[p]] = p
  <2>1. p # NoObject
    BY ServerAssumption DEF ServerAssumption
  <2> QED
    BY <1>1, <1>2, <1>5, <2>1 DEF RegistryIsRight, NamedWhileAlive, Live
<1>6. \A p \in Objects : life'[p] = "live" => p = o \/ life[p] = "live"
  BY <1>1, <1>2 DEF ChannelTypeOK
<1>7. nameOf'[o] = n /\ registered'[n] = o
  BY <1>1, <1>2 DEF ChannelTypeOK
<1>8. \A p \in Objects : life[p] = "live" =>
          nameOf'[p] = nameOf[p] /\ registered'[nameOf[p]] = p
  BY <1>1, <1>2, <1>5 DEF ChannelTypeOK
<1>9. RegistryIsRight'
  BY <1>6, <1>7, <1>8 DEF RegistryIsRight
<1>10. OpenIsJoined'
  <2>1. CASE status = "connected" /\ n \notin CustomNames
    <3>1. SendJoins(<<n>>, joined, registered', TRUE)
      BY <2>1 DEF GetOrAddChannel
    <3>2. /\ <<n>> \in Seq(Plain) /\ joined \in SUBSET Plain
          /\ QueueIsPlain /\ joinBudget \in 0..Budget
      BY <2>1 DEF Plain, CalmInv, Inv, JoinedIsPlain
    <3>3. \A m \in joined \cup Range(joinQueue) \cup Range(<<n>>) :
              registered'[m] # NoObject => m \in joined' \cup Range(joinQueue')
      BY <3>1, <3>2, SendJoinsKeeps
    <3>4. n \in Range(<<n>>)
      BY DEF Range
    <3>5. ASSUME NEW p \in Objects, life[p] = "live", nameOf[p] \notin CustomNames
          PROVE  nameOf[p] \in joined' \cup Range(joinQueue')
      <4>1. nameOf[p] \in joined \cup Range(joinQueue)
        BY <2>1, <3>5 DEF CalmInv, OpenIsJoined
      <4>2. registered'[nameOf[p]] # NoObject
        BY <1>8, <3>5, ServerAssumption DEF ServerAssumption
      <4> QED
        BY <3>3, <4>1, <4>2
    <3> QED
      BY <1>3, <1>6, <1>7, <1>8, <3>3, <3>4, <3>5 DEF OpenIsJoined
  <2>2. CASE ~(status = "connected" /\ n \notin CustomNames)
    <3>1. UNCHANGED <<joined, joinQueue>>
      BY <2>2 DEF GetOrAddChannel, joinVars
    <3> QED
      BY <1>1, <1>6, <1>7, <1>8, <2>2, <3>1 DEF CalmInv, OpenIsJoined
  <2> QED
    BY <2>1, <2>2
<1> QED
  BY <1>4, <1>9, <1>10

LEMMA CalmDestroy ==
    ASSUME CalmInv, NEW o \in Objects, DestroyChannel(o)
    PROVE  NoneDying' /\ RegistryIsRight' /\ OpenIsJoined'
<1>1. /\ life[o] = "live"
      /\ life' = [life EXCEPT ![o] = "dead"]
      /\ registered' = [registered EXCEPT ![nameOf[o]] = NoObject]
      /\ joined' = joined \ {nameOf[o]}
      /\ nameOf' = [nameOf EXCEPT ![o] = NoObject]
      /\ UNCHANGED <<joinQueue, status>>
  BY DEF DestroyChannel, Unregister, ircVars
<1>2. ChannelTypeOK /\ NamedWhileAlive /\ NoneDying /\ RegistryIsRight
  BY DEF CalmInv, Inv
<1>3. NoneDying'
  BY <1>1, <1>2 DEF NoneDying, ChannelTypeOK
<1>4. \A p \in Objects : life'[p] = "live" =>
          life[p] = "live" /\ p # o /\ nameOf'[p] = nameOf[p]
  BY <1>1, <1>2 DEF ChannelTypeOK
<1>5. \A p \in Objects : life[p] = "live" /\ p # o =>
          nameOf[p] # nameOf[o] /\ registered'[nameOf[p]] = p
  BY <1>1, <1>2 DEF ChannelTypeOK, RegistryIsRight, NamedWhileAlive
<1>6. RegistryIsRight'
  BY <1>4, <1>5 DEF RegistryIsRight
<1>7. OpenIsJoined'
  BY <1>1, <1>4, <1>5 DEF CalmInv, OpenIsJoined
<1> QED
  BY <1>3, <1>6, <1>7

LEMMA CalmOnReadConnected ==
    ASSUME CalmInv, OnReadConnected
    PROVE  NoneDying' /\ RegistryIsRight' /\ OpenIsJoined'
<1> DEFINE wanted == {n \in Names \ CustomNames : Live(n)}
<1>1. PICK order \in Bijection(1..Cardinality(wanted), wanted) :
          SendJoins(order, joined, registered, TRUE)
  BY DEF OnReadConnected
<1>2. wanted \in SUBSET Plain
  BY DEF Plain
<1>3. order \in Seq(Plain)
  <2> HIDE DEF wanted
  <2> QED
    BY <1>2, OrderIsSeq
<1>4. wanted \subseteq Range(order)
  <2> HIDE DEF wanted
  <2> QED
    BY DEF Bijection, Surjection, Range
<1>5. joined \in SUBSET Plain /\ QueueIsPlain /\ joinBudget \in 0..Budget
  BY DEF CalmInv, Inv, JoinedIsPlain
<1>6. \A m \in joined \cup Range(joinQueue) \cup Range(order) :
          registered[m] # NoObject => m \in joined' \cup Range(joinQueue')
  BY <1>1, <1>3, <1>5, SendJoinsKeeps
<1>7. UNCHANGED <<life, nameOf, registered>>
  BY DEF OnReadConnected, channelVars
<1>8. NoneDying' /\ RegistryIsRight'
  BY <1>7 DEF CalmInv, NoneDying, RegistryIsRight
<1>9. ASSUME NEW o \in Objects, life[o] = "live", nameOf[o] \notin CustomNames
      PROVE  nameOf[o] \in joined' \cup Range(joinQueue')
  <2>1. registered[nameOf[o]] = o /\ nameOf[o] \in Names /\ o # NoObject
    BY <1>9, ServerAssumption
       DEF CalmInv, Inv, RegistryIsRight, NamedWhileAlive, ServerAssumption
  <2>2. nameOf[o] \in wanted
    BY <1>9, <2>1 DEF Live
  <2> HIDE DEF wanted
  <2> QED
    BY <1>4, <1>6, <2>1, <2>2
<1>10. OpenIsJoined'
  BY <1>7, <1>9 DEF OpenIsJoined
<1> QED
  BY <1>8, <1>10

LEMMA CalmCooldown ==
    ASSUME CalmInv, JoinCooldown
    PROVE  NoneDying' /\ RegistryIsRight' /\ OpenIsJoined'
<1>1. /\ PassJoins(<<>>, 1, joined, registered, status = "connected")
      /\ UNCHANGED <<life, nameOf, registered, status>>
  BY DEF JoinCooldown, channelVars, ircVars
<1>2. NoneDying' /\ RegistryIsRight'
  BY <1>1 DEF CalmInv, NoneDying, RegistryIsRight
<1>3. ASSUME status = "connected",
             NEW o \in Objects, life[o] = "live", nameOf[o] \notin CustomNames
      PROVE  nameOf[o] \in joined' \cup Range(joinQueue')
  <2>1. nameOf[o] \in joined \cup Range(joinQueue)
    BY <1>3 DEF CalmInv, OpenIsJoined
  <2>2. registered[nameOf[o]] # NoObject
    BY <1>3, ServerAssumption DEF CalmInv, RegistryIsRight, ServerAssumption
  <2>3. PassJoins(<<>>, 1, joined, registered, TRUE)
    <3>1. (status = "connected") = TRUE
      BY <1>3
    <3> QED
      BY <1>1, <3>1
  <2>4. joined \in SUBSET Plain /\ <<>> \in Seq(Plain) /\ 1 \in Nat /\ QueueIsPlain
    BY DEF CalmInv, Inv, JoinedIsPlain
  <2> QED
    BY <2>1, <2>2, <2>3, <2>4, PassJoinsKeeps
<1>4. OpenIsJoined'
  BY <1>1, <1>3 DEF OpenIsJoined
<1> QED
  BY <1>2, <1>4

LEMMA CalmStep ==
    ASSUME "offThread" \notin Faults, CalmInv, [Next]_serverVars
    PROVE  CalmInv'
<1>1. Inv'
  BY InvStep DEF CalmInv
<1>2. ASSUME NEW o \in Objects, NEW n \in Names, GetOrAddChannel(n, o)
      PROVE  CalmInv'
  BY <1>1, <1>2, CalmGetOrAdd DEF CalmInv
<1>3. ASSUME NEW o \in Objects, DestroyChannel(o) \/ FinishDestruction(o) \/ DropOffThread(o)
      PROVE  CalmInv'
  <2>1. DestroyChannel(o)
    BY <1>3 DEF FinishDestruction, DropOffThread, CalmInv, NoneDying
  <2> QED
    BY <1>1, <2>1, CalmDestroy DEF CalmInv
<1>4. CASE OnReadConnected
  BY <1>1, <1>4, CalmOnReadConnected DEF CalmInv
<1>5. CASE ConnectServer \/ LoseServer
  <2>1. UNCHANGED <<life, nameOf, registered, joinQueue>> /\ status' # "connected"
    BY <1>5 DEF ConnectServer, LoseServer, Disconnected, channelVars, Reconnect,
                ConnectFails, ConnectionDrops, Unconnected
  <2> QED
    BY <1>1, <2>1, CalmUnchanged DEF CalmInv
<1>6. CASE Ping
  <2>1. /\ UNCHANGED <<life, nameOf, registered, joinQueue>> /\ status = "connected"
        /\ joined' = IF status' = "connected" THEN joined ELSE {}
    BY <1>6 DEF Ping, PingTimeout, channelVars
  <2> QED
    BY <1>1, <2>1, CalmUnchanged DEF CalmInv
<1>7. CASE RetryServer \/ Environment
  <2>1. UNCHANGED <<life, nameOf, registered, joined, joinQueue>>
    BY <1>7 DEF RetryServer, Environment, channelVars, joinVars
  <2>2. status' = "connected" => status = "connected"
    BY <1>7 DEF RetryServer, ReconnectTimeout, Environment, PeerVanishes, Receive
  <2> QED
    BY <1>1, <2>1, <2>2, CalmUnchanged DEF CalmInv
<1>8. CASE JoinCooldown
  BY <1>1, <1>8, CalmCooldown DEF CalmInv
<1>9. CASE UNCHANGED serverVars
  <2>1. UNCHANGED <<life, nameOf, registered, joined, joinQueue, status>>
    BY <1>9 DEF serverVars, channelVars, joinVars, ircVars
  <2> QED
    BY <1>1, <2>1, CalmUnchanged DEF CalmInv
<1> QED
  BY <1>2, <1>3, <1>4, <1>5, <1>6, <1>7, <1>8, <1>9 DEF Next

LEMMA CalmInvariance ==
    ASSUME "offThread" \notin Faults
    PROVE  Spec => []CalmInv
<1>1. Init => CalmInv
  BY InitInv DEF Init, IrcInit, CalmInv, NoneDying, RegistryIsRight, OpenIsJoined
<1>2. CalmInv /\ [Next]_serverVars => CalmInv'
  BY CalmStep
<1> QED
  BY <1>1, <1>2, PTL DEF Spec

(* While connected, every open channel is joined or its JOIN is queued:     *)
(* losses, reconnects and the rate limit drop none.                         *)
THEOREM OpenJoined ==
    ASSUME "offThread" \notin Faults
    PROVE  Spec => []OpenIsJoined
<1>1. CalmInv => OpenIsJoined
  BY DEF CalmInv
<1> QED
  BY <1>1, CalmInvariance, PTL

(* Two live channel objects never share a name. *)
THEOREM OnePerName ==
    ASSUME "offThread" \notin Faults
    PROVE  Spec => []OneObjectPerName
<1>1. CalmInv => OneObjectPerName
  BY DEF CalmInv, RegistryIsRight, OneObjectPerName
<1> QED
  BY <1>1, CalmInvariance, PTL
=============================================================================
