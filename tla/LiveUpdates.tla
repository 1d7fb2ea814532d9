------------------------------ MODULE LiveUpdates ------------------------------
(***************************************************************************)
(* chatterino::BasicPubSubManager with its BasicPubSubClients, as used by  *)
(* SeventvEventAPI: a pool of WebSocket connections that each carry a      *)
(* limited number of subscriptions.                                        *)
(*                                                                         *)
(* The manager lives on the GUI thread.  The sockets live on the thread of *)
(* the WebSocketPool and tell the manager of their opening and closing by  *)
(* posting to the GUI thread, so what the manager knows of a socket is     *)
(* older than the socket's state.  A handler that subscribes several       *)
(* topics at once is a loop of the GUI thread, during which sockets go on. *)
(***************************************************************************)
EXTENDS Integers, Sequences, FiniteSets, Functions

CONSTANTS
    Topics,           \* users, emote sets and Twitch channels
    Subscriptions,
    SubsOf,           \* the subscriptions of each topic
    Clients,          \* bound: slots for clients that exist at the same time
    NoClient,
    MaxSubscriptions, \* maxSubscriptions of a client
    Faults,           \* "early release": a topic is dropped while one of its
                      \* subscriptions waits for a client
    MaxCalls,         \* bound: topics subscribed over time
    MaxDisturbances   \* bound: connect attempts that fail, sockets that drop

ASSUME LiveUpdatesAssumption ==
    /\ SubsOf \in [Topics -> SUBSET Subscriptions]
    /\ \A t1, t2 \in Topics : t1 # t2 => SubsOf[t1] \cap SubsOf[t2] = {}
    /\ IsFiniteSet(Subscriptions)
    /\ NoClient \notin Clients
    /\ MaxSubscriptions \in Nat \ {0}
    /\ MaxCalls \in Nat /\ MaxDisturbances \in Nat

VARIABLES
    wanted,       \* topics in subscribedUsers, subscribedTwitchChannels, ...
    clients,      \* clients_: socket, open_ and subscriptions_ of each
    pending,      \* pendingSubscriptions_
    adding,       \* addingClient_
    retries,      \* connectBackoff_ timers that are running
    todo,         \* what the running handler still has to subscribe
    stopping,     \* stopping_; the pool is gone
    calls,
    disturbances

vars == <<wanted, clients, pending, adding, retries, todo, stopping, calls,
          disturbances>>

(* "none": no such client.  "failed", "dropped": the socket has closed      *)
(* before or after it had opened, and the manager will be told.             *)
Client ==
    [socket : {"none", "connecting", "up", "failed", "dropped"},
     open : BOOLEAN, subs : SUBSET Subscriptions]

Gone == [socket |-> "none", open |-> FALSE, subs |-> {}]

NewClient == [Gone EXCEPT !.socket = "connecting"]

TypeOK ==
    /\ wanted \subseteq Topics
    /\ clients \in [Clients -> Client]
    /\ pending \in Seq(Subscriptions)
    /\ adding \in BOOLEAN
    /\ retries \in Nat
    /\ todo \subseteq Subscriptions
    /\ stopping \in BOOLEAN
    /\ calls \in 0..MaxCalls
    /\ disturbances \in 0..MaxDisturbances

Init ==
    /\ wanted = {}
    /\ clients = [c \in Clients |-> Gone]
    /\ pending = <<>>
    /\ adding = FALSE
    /\ retries = 0
    /\ todo = {}
    /\ stopping = FALSE
    /\ calls = 0
    /\ disturbances = 0

-----------------------------------------------------------------------------
Exists(c) == clients[c].socket # "none"

HasRoom(c) == Exists(c) /\ Cardinality(clients[c].subs) < MaxSubscriptions

GuiIdle == todo = {}

(* addClient, from the clients and the flag its caller leaves it. *)
AddClient(cl, isAdding) ==
    IF isAdding \/ stopping
    THEN clients' = cl /\ adding' = isAdding
    ELSE /\ \E c \in Clients : /\ cl[c] = Gone
                               /\ clients' = [cl EXCEPT ![c] = NewClient]
         /\ adding' = TRUE

(* One subscribe of the handler's loop: trySubscribe takes the first client *)
(* with room in the order of a hash map, which the model leaves open.       *)
Subscribe(s) ==
    /\ s \in todo
    /\ todo' = todo \ {s}
    /\ \/ \E c \in Clients :
             /\ HasRoom(c)
             /\ clients' = [clients EXCEPT ![c].subs = @ \cup {s}]
             /\ UNCHANGED <<pending, adding>>
       \/ /\ ~\E c \in Clients : HasRoom(c)
          /\ AddClient(clients, adding)
          /\ pending' = Append(pending, s)
    /\ UNCHANGED <<wanted, retries, stopping, calls, disturbances>>

(* subscribeUser, subscribeTwitchChannel *)
SubscribeTopic(t) ==
    /\ GuiIdle
    /\ t \notin wanted
    /\ calls < MaxCalls
    /\ calls' = calls + 1
    /\ wanted' = wanted \cup {t}
    /\ todo' = SubsOf[t]
    /\ UNCHANGED <<clients, pending, adding, retries, stopping, disturbances>>

(* Mutant: unsubscribe returns after the first client in any case. *)
AnyClient(s) == {c \in Clients : Exists(c)}

(* The clients whose unsubscribe returns true *)
HaveSubscription(s) == {c \in Clients : s \in clients[c].subs}

(* unsubscribeUser, unsubscribeEmoteSet, unsubscribeTwitchChannel: of each  *)
(* subscription, the first client that has it forgets it.                   *)
UnsubscribeTopic(t) ==
    /\ GuiIdle
    /\ t \in wanted
    /\ "early release" \in Faults \/ SubsOf[t] \cap Range(pending) = {}
    /\ wanted' = wanted \ {t}
    /\ \E first \in [SubsOf[t] -> Clients \cup {NoClient}] :
          /\ \A s \in SubsOf[t] :
                first[s] \in IF HaveSubscription(s) = {} THEN {NoClient}
                                                       ELSE HaveSubscription(s)
          /\ clients' = [c \in Clients |->
                [clients[c] EXCEPT !.subs =
                    {s \in @ : s \notin SubsOf[t] \/ first[s] # c}]]
    /\ UNCHANGED <<pending, adding, retries, todo, stopping, calls, disturbances>>

-----------------------------------------------------------------------------
(* The subscriptions at the end of the backlog, n of them *)
Newest(n) == Range(SubSeq(pending, Len(pending) - n + 1, Len(pending)))

(* The client c takes n from the backlog: one by one, until it is full, and *)
(* never more than an empty client could.                                   *)
Takes(c, n) ==
    /\ n <= MaxSubscriptions
    /\ \A i \in 0..(n - 1) :
          Cardinality(clients[c].subs \cup Newest(i)) < MaxSubscriptions
    /\ \/ n = Len(pending) \/ n = MaxSubscriptions
       \/ Cardinality(clients[c].subs \cup Newest(n)) >= MaxSubscriptions

(* Mutant: nobody is asked to take the rest of the backlog. *)
OpenAddingNone(c) ==
    /\ GuiIdle
    /\ clients[c].socket \in {"up", "dropped"} /\ ~clients[c].open
    /\ \E n \in 0..Len(pending) :
          LET opened == [clients EXCEPT ![c].open = TRUE,
                                        ![c].subs = @ \cup Newest(n)]
          IN  /\ Takes(c, n)
              /\ pending' = SubSeq(pending, 1, Len(pending) - n)
              /\ clients' = opened /\ adding' = FALSE
    /\ UNCHANGED <<wanted, retries, todo, stopping, calls, disturbances>>

(* The client takes the newest of the backlog; for the rest, another is     *)
(* added.                                                                   *)
OnConnectionOpen(c) ==
    /\ GuiIdle
    /\ clients[c].socket \in {"up", "dropped"} /\ ~clients[c].open
    /\ \E n \in 0..Len(pending) :
          LET opened == [clients EXCEPT ![c].open = TRUE,
                                        ![c].subs = @ \cup Newest(n)]
          IN  /\ Takes(c, n)
              /\ pending' = SubSeq(pending, 1, Len(pending) - n)
              /\ IF n < Len(pending)
                 THEN AddClient(opened, FALSE)
                 ELSE clients' = opened /\ adding' = FALSE
    /\ UNCHANGED <<wanted, retries, todo, stopping, calls, disturbances>>

Closed(c) ==
    \/ clients[c].socket = "failed"
    \/ clients[c].socket = "dropped" /\ clients[c].open

(* Mutants: a client that never opened takes its subscriptions with it; no  *)
(* timer is started; the return after the timer is missing.                 *)
CloseForgetting(c) ==
    /\ retries' = retries + 1
    /\ UNCHANGED <<pending, todo>>
CloseWithoutRetry(c) ==
    /\ \E order \in Bijection(1..Cardinality(clients[c].subs), clients[c].subs) :
          pending' = pending \o order
    /\ UNCHANGED <<retries, todo>>
CloseFallingThrough(c) ==
    /\ \E order \in Bijection(1..Cardinality(clients[c].subs), clients[c].subs) :
          pending' = pending \o order
    /\ retries' = retries + 1
    /\ todo' = clients[c].subs

(* A client that never opened: its subscriptions go to the backlog, and     *)
(* another client is added after a while.                                   *)
CloseUnopened(c) ==
    /\ \E order \in Bijection(1..Cardinality(clients[c].subs), clients[c].subs) :
          pending' = pending \o order
    /\ retries' = retries + 1
    /\ UNCHANGED todo

OnConnectionClose(c) ==
    /\ GuiIdle
    /\ Closed(c)
    /\ clients' = [clients EXCEPT ![c] = Gone]
    /\ adding' = FALSE
    /\ IF stopping
       THEN UNCHANGED <<pending, retries, todo>>
       ELSE IF clients[c].open
       THEN todo' = clients[c].subs /\ UNCHANGED <<pending, retries>>
       ELSE CloseUnopened(c)
    /\ UNCHANGED <<wanted, stopping, calls, disturbances>>

RetryTimeout ==
    /\ GuiIdle
    /\ retries > 0
    /\ retries' = retries - 1
    /\ AddClient(clients, adding)
    /\ UNCHANGED <<wanted, pending, todo, stopping, calls, disturbances>>

(* Mutant: the pool is dropped and its sockets are left alone. *)
StopLeaving ==
    /\ GuiIdle /\ ~stopping
    /\ stopping' = TRUE
    /\ UNCHANGED <<clients, wanted, pending, adding, retries, todo, calls, disturbances>>

(* stop: the pool closes its sockets, of which some open meanwhile. *)
Stop ==
    /\ GuiIdle /\ ~stopping
    /\ stopping' = TRUE
    /\ \E late \in SUBSET Clients :
          clients' = [c \in Clients |-> [clients[c] EXCEPT !.socket =
              CASE @ = "up" \/ (@ = "connecting" /\ c \in late) -> "dropped"
                [] @ = "connecting" /\ c \notin late -> "failed"
                [] OTHER -> @]]
    /\ UNCHANGED <<wanted, pending, adding, retries, todo, calls, disturbances>>

-----------------------------------------------------------------------------
(* The thread of the sockets *)

Disturb ==
    /\ disturbances < MaxDisturbances
    /\ disturbances' = disturbances + 1

SocketOpens(c) ==
    /\ clients[c].socket = "connecting"
    /\ clients' = [clients EXCEPT ![c].socket = "up"]
    /\ UNCHANGED <<wanted, pending, adding, retries, todo, stopping, calls, disturbances>>

(* A failed attempt, an error, a missed heartbeat, a request to reconnect.  *)
SocketCloses(c) ==
    /\ clients[c].socket \in {"connecting", "up"}
    /\ Disturb
    /\ clients' = [clients EXCEPT ![c].socket =
                      IF @ = "up" THEN "dropped" ELSE "failed"]
    /\ UNCHANGED <<wanted, pending, adding, retries, todo, stopping, calls>>

(* What the GUI thread was posted, timers included *)
GuiStep ==
    \/ \E s \in Subscriptions : Subscribe(s)
    \/ \E c \in Clients : OnConnectionOpen(c) \/ OnConnectionClose(c)
    \/ RetryTimeout

SocketStep == \E c \in Clients : SocketOpens(c)

Next ==
    \/ \E t \in Topics : SubscribeTopic(t) \/ UnsubscribeTopic(t)
    \/ GuiStep
    \/ SocketStep
    \/ \E c \in Clients : SocketCloses(c)
    \/ Stop

Spec == Init /\ [][Next]_vars

(* The GUI thread keeps working off what is posted to it, and an attempt to *)
(* connect ends within its timeouts; not all attempts fail.                 *)
FairSpec == Spec /\ WF_vars(GuiStep) /\ WF_vars(SocketStep)

-----------------------------------------------------------------------------
SubsOfWanted == UNION {SubsOf[t] : t \in wanted}

(* However connections fail, close and fill up, no subscription of a topic  *)
(* that was not unsubscribed is lost: a client has it, or it is waiting.    *)
NothingForgotten ==
    ~stopping => \A s \in SubsOfWanted :
        \/ \E c \in Clients : s \in clients[c].subs
        \/ s \in Range(pending) \cup todo

(* What waits for a client does not wait in vain: one is about to open or   *)
(* to fail, or a timer is about to add one.                                 *)
PendingIsDriven ==
    ~stopping /\ pending # <<>> =>
        retries > 0 \/ \E c \in Clients : Exists(c) /\ ~clients[c].open

(* "at most #maxSubscriptions subscriptions" of a client, those it took     *)
(* before it opened and those of the backlog together.                      *)
WithinLimit ==
    \A c \in Clients : Cardinality(clients[c].subs) <= MaxSubscriptions

(* Unless topics are dropped early, a subscription is in one place only, so *)
(* unsubscribing it once is enough.                                         *)
InOnePlace ==
    /\ \A c, d \in Clients : c # d => clients[c].subs \cap clients[d].subs = {}
    /\ \A c \in Clients : clients[c].subs \cap (Range(pending) \cup todo) = {}
    /\ Range(pending) \cap todo = {}
    /\ \A i, j \in DOMAIN pending : pending[i] = pending[j] => i = j

(* "Unsubscribes from a user": no client has a subscription whose topic was *)
(* unsubscribed.                                                            *)
SubscribedIsWanted ==
    \A c \in Clients : clients[c].subs \subseteq SubsOfWanted

(* A topic that stays subscribed gets to an open connection. *)
Carried(s) ==
    \E c \in Clients : /\ s \in clients[c].subs
                       /\ clients[c].open /\ clients[c].socket = "up"

WantedIsCarried ==
    \A t \in Topics :
        t \in wanted ~> \/ t \notin wanted \/ stopping
                        \/ \A s \in SubsOf[t] : Carried(s)

(* Once stopped, every client goes away and none is added. *)
StopEndsAll == stopping ~> [](\A c \in Clients : ~Exists(c))
=============================================================================
