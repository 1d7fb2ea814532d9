---------------------------- MODULE TwitchIrcServer ----------------------------
(***************************************************************************)
(* chatterino::TwitchIrcServer: the channels the user has open, the read   *)
(* connection (IrcConnection) and the rate-limited queue of JOINs          *)
(* (RatelimitBucket, whose running timers are Budget - budget by theorem   *)
(* RatelimitBucketProofs!RateLimit).  A channel object removes itself from *)
(* the registry, by name, when it is destroyed.                            *)
(***************************************************************************)
EXTENDS IrcConnection, Sequences, FiniteSets, Functions

CONSTANTS
    Names,        \* channel names
    CustomNames,  \* names that start with "/": plugin channels, never joined
    MaxObjects,   \* bound: channel objects ever created
    NoObject,
    Budget,       \* JOIN_RATELIMIT_BUDGET
    Faults        \* "offThread": a channel's last reference dies on another thread

Objects == 1..MaxObjects

ASSUME ServerAssumption ==
    /\ IsFiniteSet(Names)
    /\ CustomNames \subseteq Names
    /\ MaxObjects \in Nat /\ Budget \in Nat
    /\ NoObject \notin Objects \cup Names

VARIABLES
    life,         \* of each channel object
    nameOf,       \* of each channel object while it exists, else NoObject
    registered,   \* channels: name -> channel object
    joined,       \* names Twitch has us joined to on this connection
    joinQueue,    \* joinBucket_'s queue
    joinBudget    \* joinBucket_'s budget

channelVars == <<life, nameOf, registered>>
joinVars == <<joined, joinQueue, joinBudget>>
serverVars == <<ircVars, channelVars, joinVars>>

TypeOK ==
    /\ IrcTypeOK
    /\ life \in [Objects -> {"unused", "live", "dying", "dead"}]
    /\ nameOf \in [Objects -> Names \cup {NoObject}]
    /\ registered \in [Names -> Objects \cup {NoObject}]
    /\ joined \subseteq Names
    /\ joinQueue \in Seq(Names)
    /\ joinBudget \in 0..Budget

Init ==
    /\ IrcInit
    /\ life = [o \in Objects |-> "unused"]
    /\ nameOf = [o \in Objects |-> NoObject]
    /\ registered = [n \in Names |-> NoObject]
    /\ joined = {}
    /\ joinQueue = <<>>
    /\ joinBudget = Budget

-----------------------------------------------------------------------------
(* Mutant: JOINs that waited are not checked against the registry. *)
ActuallyJoinAll(names, reg) == Range(names)

(* actuallyJoin on what the bucket lets pass, in one connection: a channel  *)
(* that was closed while its JOIN waited is not joined.                     *)
ActuallyJoin(names, reg) == {n \in Range(names) : reg[n] # NoObject}

(* The bucket is given `names` and allows `allowed` items to pass; what     *)
(* passes on a connection that is not up is lost.                           *)
PassJoins(names, allowed, before, reg, connected) ==
    LET all    == joinQueue \o names
        n      == IF allowed < Len(all) THEN allowed ELSE Len(all)
        passed == SubSeq(all, 1, n)
    IN  /\ joinQueue' = SubSeq(all, n + 1, Len(all))
        /\ joined' = IF connected THEN before \cup ActuallyJoin(passed, reg) ELSE before

(* Mutant: a send passes its item whether there is budget or not. *)
SendJoinsUnlimited(names, before, reg, connected) ==
    /\ PassJoins(names, Len(names), before, reg, connected)
    /\ joinBudget' = joinBudget - Len(names)

(* joinBucket_->send for each name in turn: each send passes one item on    *)
(* while there is budget.                                                   *)
SendJoins(names, before, reg, connected) ==
    LET n == IF joinBudget < Len(names) THEN joinBudget ELSE Len(names)
    IN  PassJoins(names, n, before, reg, connected) /\ joinBudget' = joinBudget - n

(* A cooldown timer of the bucket fires. *)
JoinCooldown ==
    /\ joinBudget < Budget
    /\ PassJoins(<<>>, 1, joined, registered, status = "connected")
    /\ joinBudget' = IF joinQueue = <<>> THEN joinBudget + 1 ELSE joinBudget
    /\ UNCHANGED <<ircVars, channelVars>>

-----------------------------------------------------------------------------
Live(n) == registered[n] # NoObject /\ life[registered[n]] = "live"

(* Mutant: a new channel waits for the next connect to be joined. *)
GetOrAddWithoutJoin(n, o) ==
    /\ life[o] = "unused" /\ \A p \in Objects : p < o => life[p] # "unused"
    /\ ~Live(n)
    /\ life' = [life EXCEPT ![o] = "live"]
    /\ nameOf' = [nameOf EXCEPT ![o] = n]
    /\ registered' = [registered EXCEPT ![n] = o]
    /\ UNCHANGED <<ircVars, joinVars>>

(* Mutant: a name gets a new channel whether it has one or not. *)
GetOrAddTwice(n, o) ==
    /\ life[o] = "unused" /\ \A p \in Objects : p < o => life[p] # "unused"
    /\ life' = [life EXCEPT ![o] = "live"]
    /\ nameOf' = [nameOf EXCEPT ![o] = n]
    /\ registered' = [registered EXCEPT ![n] = o]
    /\ IF status = "connected" /\ n \notin CustomNames
       THEN SendJoins(<<n>>, joined, registered', TRUE)
       ELSE UNCHANGED joinVars
    /\ UNCHANGED ircVars

(* A name without a live channel gets a new one, joined now when connected. *)
GetOrAddChannel(n, o) ==
    /\ life[o] = "unused" /\ \A p \in Objects : p < o => life[p] # "unused"
    /\ ~Live(n)
    /\ life' = [life EXCEPT ![o] = "live"]
    /\ nameOf' = [nameOf EXCEPT ![o] = n]
    /\ registered' = [registered EXCEPT ![n] = o]
    /\ IF status = "connected" /\ n \notin CustomNames
       THEN SendJoins(<<n>>, joined, registered', TRUE)
       ELSE UNCHANGED joinVars
    /\ UNCHANGED ircVars

(* The handler of a channel's destroyed signal: whichever object the name   *)
(* stands for by now, it is removed and parted.                             *)
Unregister(o) ==
    /\ registered' = [registered EXCEPT ![nameOf[o]] = NoObject]
    /\ joined' = joined \ {nameOf[o]}
    /\ nameOf' = [nameOf EXCEPT ![o] = NoObject]
    /\ UNCHANGED <<joinQueue, joinBudget, ircVars>>

(* The GUI thread drops the last reference. *)
DestroyChannel(o) ==
    /\ life[o] = "live"
    /\ life' = [life EXCEPT ![o] = "dead"]
    /\ Unregister(o)

(* Another thread drops it: the weak references expire at once, the         *)
(* destructor gets to its signal later.                                     *)
DropOffThread(o) ==
    /\ "offThread" \in Faults
    /\ life[o] = "live"
    /\ life' = [life EXCEPT ![o] = "dying"]
    /\ UNCHANGED <<nameOf, registered, ircVars, joinVars>>

FinishDestruction(o) ==
    /\ life[o] = "dying"
    /\ life' = [life EXCEPT ![o] = "dead"]
    /\ Unregister(o)

-----------------------------------------------------------------------------
(* The connection goes away, with its channel memberships. *)
Disconnected == joined' = {} /\ UNCHANGED <<channelVars, joinQueue, joinBudget>>

ConnectServer == Reconnect /\ Disconnected

LoseServer == (ConnectFails \/ ConnectionDrops) /\ Disconnected

(* Mutant: nothing is joined on a new connection. *)
OnReadConnectedWithoutJoin ==
    Connected /\ UNCHANGED <<channelVars, joinVars>>

(* onReadConnected: every live channel is joined.  The visible ones come    *)
(* first, and any may be visible: the order is left open.                   *)
OnReadConnected ==
    LET wanted == {n \in Names \ CustomNames : Live(n)}
    IN  /\ Connected
        /\ \E order \in Bijection(1..Cardinality(wanted), wanted) :
               SendJoins(order, joined, registered, TRUE)
        /\ UNCHANGED channelVars

Ping ==
    /\ PingTimeout
    /\ joined' = IF status' = "connected" THEN joined ELSE {}
    /\ UNCHANGED <<channelVars, joinQueue, joinBudget>>

Environment ==
    /\ PeerVanishes \/ Receive
    /\ UNCHANGED <<channelVars, joinVars>>

RetryServer == ReconnectTimeout /\ UNCHANGED <<channelVars, joinVars>>

Next ==
    \/ \E o \in Objects :
        \/ \E n \in Names : GetOrAddChannel(n, o)
        \/ DestroyChannel(o) \/ DropOffThread(o) \/ FinishDestruction(o)
    \/ OnReadConnected \/ ConnectServer \/ LoseServer \/ RetryServer \/ Ping \/ Environment
    \/ JoinCooldown

Spec == Init /\ [][Next]_serverVars

(* Timers fire and other threads run on.  A connect attempt is not refused  *)
(* for ever, and the user starts the program's first one.                   *)
FairSpec ==
    /\ Spec
    /\ WF_serverVars(Ping) /\ WF_serverVars(RetryServer) /\ WF_serverVars(JoinCooldown)
    /\ WF_serverVars(ConnectServer /\ status = "inactive")
    /\ WF_serverVars(\E o \in Objects : FinishDestruction(o))
    /\ SF_serverVars(OnReadConnected)

-----------------------------------------------------------------------------
(* Twitch only has us joined to channels that are registered here, and to   *)
(* none when the connection is down.                                        *)
JoinedIsWanted ==
    /\ \A n \in joined : registered[n] # NoObject /\ n \notin CustomNames
    /\ joined # {} => status = "connected"

(* While connected, every channel the user sees is joined or about to be.   *)
(* Holds unless another thread destroys channels.                           *)
OpenIsJoined ==
    status = "connected" =>
        \A o \in Objects : life[o] = "live" /\ nameOf[o] \notin CustomNames =>
            nameOf[o] \in joined \cup Range(joinQueue)

(* No two channel objects show the same name: messages for it reach one.    *)
OneObjectPerName ==
    \A o, p \in Objects : life[o] = "live" /\ life[p] = "live" /\ nameOf[o] = nameOf[p] => o = p

(* Every channel that stays open is joined in the end. *)
OpenGetsJoined ==
    \A n \in Names \ CustomNames : Live(n) ~> n \in joined \/ ~Live(n)
=============================================================================
