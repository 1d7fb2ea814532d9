--------------------------- MODULE LiveUpdatesProofs ---------------------------
(***************************************************************************)
(* Proofs about LiveUpdates, for any topics, subscriptions, limits, faults *)
(* and bounds.  That no subscription is lost and that clients keep to      *)
(* their limit is inductive with TypeOK; that what waits is driven needs   *)
(* AddingIsUnopened, what addingClient_ stands for.  That a subscription   *)
(* is in one place needs that all of them are wanted, and that is so when  *)
(* no topic is dropped early.                                              *)
(***************************************************************************)
EXTENDS LiveUpdates, FiniteSetTheorems, SequenceTheorems, TLAPS

USE LiveUpdatesAssumption

(* While a client is being added, one has not opened yet. *)
AddingIsUnopened ==
    ~stopping /\ adding => \E c \in Clients : Exists(c) /\ ~clients[c].open

-----------------------------------------------------------------------------
(* Lemmas about the operators of the model *)

LEMMA GoneAndNew ==
    /\ Gone \in Client /\ NewClient \in Client
    /\ Gone.socket = "none" /\ Gone.open = FALSE /\ Gone.subs = {}
    /\ NewClient.socket = "connecting" /\ NewClient.open = FALSE /\ NewClient.subs = {}
BY DEF Gone, NewClient, Client

(* addClient adds nothing but a new client, and when it does not add one    *)
(* while the pool exists, one is being added.                               *)
LEMMA AddClientEffect ==
    ASSUME NEW cl \in [Clients -> Client], NEW isAdding \in BOOLEAN,
           stopping \in BOOLEAN, AddClient(cl, isAdding)
    PROVE  /\ clients' \in [Clients -> Client]
           /\ adding' \in BOOLEAN
           /\ \A c \in Clients : \/ clients'[c] = cl[c]
                                 \/ cl[c] = Gone /\ clients'[c] = NewClient
           /\ ~stopping => /\ adding'
                           /\ isAdding \/ \E c \in Clients : clients'[c] = NewClient
<1>1. CASE isAdding \/ stopping
  BY <1>1 DEF AddClient
<1>2. CASE ~(isAdding \/ stopping)
  <2>1. PICK c \in Clients : cl[c] = Gone /\ clients' = [cl EXCEPT ![c] = NewClient]
    BY <1>2 DEF AddClient
  <2>2. adding' = TRUE
    BY <1>2 DEF AddClient
  <2>3. clients' \in [Clients -> Client]
    BY <2>1, GoneAndNew
  <2>4. clients'[c] = NewClient /\ \A d \in Clients : d # c => clients'[d] = cl[d]
    BY <2>1
  <2>5. \A d \in Clients : \/ clients'[d] = cl[d]
                           \/ cl[d] = Gone /\ clients'[d] = NewClient
    BY <2>1, <2>4
  <2>6. adding' \in BOOLEAN /\ adding'
    BY <2>2
  <2> QED
    BY <2>3, <2>4, <2>5, <2>6
<1> QED
  BY <1>1, <1>2

(* A backlog is what a client leaves of it and what it takes. *)
LEMMA BacklogSplits ==
    ASSUME pending \in Seq(Subscriptions), NEW n \in 0..Len(pending)
    PROVE  /\ SubSeq(pending, 1, Len(pending) - n) \in Seq(Subscriptions)
           /\ Newest(n) \subseteq Subscriptions
           /\ Range(pending) = Range(SubSeq(pending, 1, Len(pending) - n)) \cup Newest(n)
           /\ n = Len(pending) => SubSeq(pending, 1, Len(pending) - n) = <<>>
<1> DEFINE k == Len(pending) - n
           rest == SubSeq(pending, 1, k)
           newest == SubSeq(pending, k + 1, Len(pending))
<1>1. k \in Nat /\ k <= Len(pending) /\ Len(pending) \in Nat
  OBVIOUS
<1>2. /\ rest \in Seq(Subscriptions)
      /\ Len(rest) = k /\ \A i \in 1..k : rest[i] = pending[i]
  BY <1>1
<1>3. /\ newest \in Seq(Subscriptions)
      /\ Len(newest) = n /\ \A i \in 1..n : newest[i] = pending[k + i]
  BY <1>1
<1>4. Range(rest) = {pending[i] : i \in 1..k}
  <2>1. DOMAIN rest = 1..k
    BY <1>1, <1>2
  <2> HIDE DEF rest, k
  <2> QED
    BY <1>2, <2>1 DEF Range
<1>5. Newest(n) = {pending[k + i] : i \in 1..n}
  <2>1. Newest(n) = Range(newest)
    BY <1>1 DEF Newest
  <2>2. DOMAIN newest = 1..n
    BY <1>3
  <2> HIDE DEF newest, k
  <2> QED
    BY <1>3, <2>1, <2>2 DEF Range
<1>6. {pending[k + i] : i \in 1..n} = {pending[j] : j \in (k + 1)..Len(pending)}
  <2>1. ASSUME NEW i \in 1..n
        PROVE  k + i \in (k + 1)..Len(pending)
    BY <1>1
  <2>2. ASSUME NEW j \in (k + 1)..Len(pending)
        PROVE  j - k \in 1..n /\ k + (j - k) = j
    BY <1>1
  <2> HIDE DEF k
  <2> QED
    BY <2>1, <2>2
<1>7. Range(pending) = {pending[i] : i \in 1..Len(pending)}
  BY DEF Range
<1>8. 1..Len(pending) = (1..k) \cup ((k + 1)..Len(pending))
  BY <1>1
<1>9. Newest(n) \subseteq Subscriptions
  BY <1>1, <1>5
<1>10. n = Len(pending) => rest = <<>>
  BY <1>1
<1>11. Range(pending) = Range(rest) \cup Newest(n)
  <2> HIDE DEF k, rest
  <2> QED BY <1>4, <1>5, <1>6, <1>7, <1>8
<1> QED
  BY <1>2, <1>9, <1>10, <1>11

(* A list of a finite set holds just that set. *)
LEMMA OrderIsSequence ==
    ASSUME NEW S \in SUBSET Subscriptions,
           NEW order \in Bijection(1..Cardinality(S), S)
    PROVE  order \in Seq(Subscriptions) /\ Range(order) = S
<1>1. IsFiniteSet(S)
  BY FS_Subset
<1>2. Cardinality(S) \in Nat
  BY <1>1, FS_CardinalityType
<1>3. order \in [1..Cardinality(S) -> S]
  BY DEF Bijection, Injection, Surjection
<1>4. \A t \in S : \E s \in 1..Cardinality(S) : order[s] = t
  BY DEF Bijection, Surjection
<1>5. order \in Seq(Subscriptions)
  BY <1>2, <1>3
<1>6. Range(order) = S
  BY <1>3, <1>4 DEF Range
<1> QED
  BY <1>5, <1>6

LEMMA RangeOfAppended ==
    ASSUME NEW p \in Seq(Subscriptions), NEW q \in Seq(Subscriptions)
    PROVE  p \o q \in Seq(Subscriptions) /\ Range(p \o q) = Range(p) \cup Range(q)
<1>1. p \o q \in Seq(Subscriptions)
  OBVIOUS
<1>2. ASSUME NEW x \in Range(p \o q)
      PROVE  x \in Range(p) \cup Range(q)
  <2>1. PICK i \in DOMAIN (p \o q) : x = (p \o q)[i]
    BY <1>2 DEF Range
  <2>2. CASE i <= Len(p)
    <3>1. i \in DOMAIN p /\ x = p[i]
      BY <2>1, <2>2
    <3> QED BY <3>1 DEF Range
  <2>3. CASE i > Len(p)
    <3>1. i - Len(p) \in DOMAIN q /\ x = q[i - Len(p)]
      BY <2>1, <2>3
    <3> QED BY <3>1 DEF Range
  <2> QED
    BY <2>1, <2>2, <2>3
<1>3. ASSUME NEW x \in Range(p)
      PROVE  x \in Range(p \o q)
  <2>1. PICK i \in DOMAIN p : x = p[i]
    BY <1>3 DEF Range
  <2>2. i \in DOMAIN (p \o q) /\ x = (p \o q)[i]
    BY <2>1
  <2> QED BY <2>2 DEF Range
<1>4. ASSUME NEW x \in Range(q)
      PROVE  x \in Range(p \o q)
  <2>1. PICK i \in DOMAIN q : x = q[i]
    BY <1>4 DEF Range
  <2>2. Len(p) + i \in DOMAIN (p \o q) /\ x = (p \o q)[Len(p) + i]
    BY <2>1
  <2> QED BY <2>2 DEF Range
<1> QED
  BY <1>1, <1>2, <1>3, <1>4

-----------------------------------------------------------------------------
(* Type correctness *)

LEMMA InitTypeOK == Init => TypeOK
<1> SUFFICES ASSUME Init PROVE TypeOK
  OBVIOUS
<1>1. clients \in [Clients -> Client]
  BY GoneAndNew DEF Init
<1>2. pending \in Seq(Subscriptions)
  BY DEF Init
<1>3. wanted \subseteq Topics /\ todo \subseteq Subscriptions
  BY DEF Init
<1>4. adding \in BOOLEAN /\ stopping \in BOOLEAN
  BY DEF Init
<1>5. retries \in Nat /\ calls \in 0..MaxCalls /\ disturbances \in 0..MaxDisturbances
  BY DEF Init
<1> QED
  BY <1>1, <1>2, <1>3, <1>4, <1>5 DEF TypeOK

LEMMA SubscribeTypeOK ==
    ASSUME TypeOK, NEW s \in Subscriptions, Subscribe(s)
    PROVE  TypeOK'
<1>1. /\ todo' \subseteq Subscriptions
      /\ UNCHANGED <<wanted, retries, stopping, calls, disturbances>>
  BY DEF Subscribe, TypeOK
<1>2. /\ clients' \in [Clients -> Client]
      /\ pending' \in Seq(Subscriptions)
      /\ adding' \in BOOLEAN
  <2>1. CASE AddClient(clients, adding) /\ pending' = Append(pending, s)
    BY <2>1, AddClientEffect DEF TypeOK
  <2>2. ASSUME NEW c \in Clients,
               clients' = [clients EXCEPT ![c].subs = @ \cup {s}],
               UNCHANGED <<pending, adding>>
        PROVE  <1>2!1 /\ <1>2!2 /\ <1>2!3
    <3>1. [clients[c] EXCEPT !.subs = @ \cup {s}] \in Client
      BY DEF TypeOK, Client
    <3> QED
      BY <2>2, <3>1 DEF TypeOK
  <2> QED
    BY <2>1, <2>2 DEF Subscribe
<1> QED
  BY <1>1, <1>2 DEF TypeOK

LEMMA UnsubscribeTopicTypeOK ==
    ASSUME TypeOK, NEW t \in Topics, UnsubscribeTopic(t)
    PROVE  TypeOK'
<1>1. PICK first \in [SubsOf[t] -> Clients \cup {NoClient}] :
         clients' = [c \in Clients |->
                       [clients[c] EXCEPT !.subs =
                           {s \in @ : s \notin SubsOf[t] \/ first[s] # c}]]
  BY DEF UnsubscribeTopic
<1>2. ASSUME NEW c \in Clients
      PROVE  [clients[c] EXCEPT !.subs =
                 {s \in @ : s \notin SubsOf[t] \/ first[s] # c}] \in Client
  BY SMTT(40) DEF TypeOK, Client
<1>3. clients' \in [Clients -> Client]
  BY <1>1, <1>2
<1> QED
  BY <1>3 DEF UnsubscribeTopic, TypeOK

LEMMA OnConnectionOpenTypeOK ==
    ASSUME TypeOK, NEW c \in Clients, OnConnectionOpen(c)
    PROVE  TypeOK'
<1>1. PICK n \in 0..Len(pending) :
         LET opened == [clients EXCEPT ![c].open = TRUE, ![c].subs = @ \cup Newest(n)]
         IN  /\ pending' = SubSeq(pending, 1, Len(pending) - n)
             /\ IF n < Len(pending)
                THEN AddClient(opened, FALSE)
                ELSE clients' = opened /\ adding' = FALSE
  BY DEF OnConnectionOpen
<1> DEFINE opened == [clients EXCEPT ![c].open = TRUE, ![c].subs = @ \cup Newest(n)]
<1>2. pending' \in Seq(Subscriptions) /\ Newest(n) \subseteq Subscriptions
  BY <1>1, BacklogSplits DEF TypeOK
<1>3. opened \in [Clients -> Client]
  <2>1. [clients[c] EXCEPT !.open = TRUE, !.subs = @ \cup Newest(n)] \in Client
    BY <1>2 DEF TypeOK, Client
  <2> QED
    BY <2>1 DEF TypeOK
<1>4. clients' \in [Clients -> Client] /\ adding' \in BOOLEAN
  <2>1. stopping \in BOOLEAN
    BY DEF TypeOK
  <2>2. AddClient(opened, FALSE) \/ (clients' = opened /\ adding' = FALSE)
    BY <1>1
  <2> HIDE DEF opened
  <2> QED
    BY <1>3, <2>1, <2>2, AddClientEffect
<1> QED
  BY <1>2, <1>4 DEF OnConnectionOpen, TypeOK

LEMMA OnConnectionCloseTypeOK ==
    ASSUME TypeOK, NEW c \in Clients, OnConnectionClose(c)
    PROVE  TypeOK'
<1>1. clients' \in [Clients -> Client] /\ clients[c].subs \subseteq Subscriptions
  BY GoneAndNew DEF OnConnectionClose, TypeOK, Client
<1>2. pending' \in Seq(Subscriptions) /\ retries' \in Nat /\ todo' \subseteq Subscriptions
  <2>1. CASE CloseUnopened(c)
    <3>1. PICK order \in Bijection(1..Cardinality(clients[c].subs), clients[c].subs) :
             pending' = pending \o order
      BY <2>1 DEF CloseUnopened
    <3>2. pending' \in Seq(Subscriptions)
      BY <1>1, <3>1, OrderIsSequence, RangeOfAppended DEF TypeOK
    <3> QED
      BY <2>1, <3>2 DEF CloseUnopened, TypeOK
  <2>2. CASE UNCHANGED <<pending, retries, todo>>
    BY <2>2 DEF TypeOK
  <2>3. CASE todo' = clients[c].subs /\ UNCHANGED <<pending, retries>>
    BY <1>1, <2>3 DEF TypeOK
  <2> QED
    BY <2>1, <2>2, <2>3 DEF OnConnectionClose
<1> QED
  BY <1>1, <1>2 DEF OnConnectionClose, TypeOK

LEMMA RetryTimeoutTypeOK == TypeOK /\ RetryTimeout => TypeOK'
<1> SUFFICES ASSUME TypeOK, RetryTimeout PROVE TypeOK'
  OBVIOUS
<1>1. clients' \in [Clients -> Client] /\ adding' \in BOOLEAN
  BY AddClientEffect DEF RetryTimeout, TypeOK
<1>2. retries' \in Nat
  BY DEF RetryTimeout, TypeOK
<1> QED
  BY <1>1, <1>2 DEF RetryTimeout, TypeOK

LEMMA StopTypeOK == TypeOK /\ Stop => TypeOK'
<1> SUFFICES ASSUME TypeOK, Stop PROVE TypeOK'
  OBVIOUS
<1>1. PICK late \in SUBSET Clients :
         clients' = [c \in Clients |-> [clients[c] EXCEPT !.socket =
             CASE @ = "up" \/ (@ = "connecting" /\ c \in late) -> "dropped"
               [] @ = "connecting" /\ c \notin late -> "failed"
               [] OTHER -> @]]
  BY DEF Stop
<1>2. ASSUME NEW c \in Clients
      PROVE  clients'[c] \in Client
  <2>1. clients[c] \in Client
    BY DEF TypeOK
  <2> QED
    BY <1>1, <2>1 DEF Client
<1>3. clients' \in [Clients -> Client]
  BY <1>1, <1>2
<1> QED
  BY <1>3 DEF Stop, TypeOK

LEMMA SocketTypeOK ==
    ASSUME TypeOK, NEW c \in Clients, SocketOpens(c) \/ SocketCloses(c)
    PROVE  TypeOK'
<1>1. PICK s \in {"up", "dropped", "failed"} :
         clients' = [clients EXCEPT ![c].socket = s]
  BY DEF SocketOpens, SocketCloses
<1>2. [clients[c] EXCEPT !.socket = s] \in Client
  BY DEF TypeOK, Client
<1>3. clients' \in [Clients -> Client]
  BY <1>1, <1>2 DEF TypeOK
<1>4. disturbances' \in 0..MaxDisturbances
  BY DEF SocketOpens, SocketCloses, Disturb, TypeOK
<1> QED
  BY <1>3, <1>4 DEF SocketOpens, SocketCloses, TypeOK

LEMMA NextTypeOK == TypeOK /\ [Next]_vars => TypeOK'
<1> SUFFICES ASSUME TypeOK, [Next]_vars PROVE TypeOK'
  OBVIOUS
<1>1. ASSUME NEW t \in Topics, SubscribeTopic(t)
      PROVE  TypeOK'
  <2>1. SubsOf[t] \subseteq Subscriptions /\ calls' \in 0..MaxCalls
    BY <1>1 DEF SubscribeTopic, TypeOK
  <2> QED
    BY <1>1, <2>1 DEF SubscribeTopic, TypeOK
<1>2. CASE UNCHANGED vars
  BY <1>2 DEF vars, TypeOK
<1> QED
  BY <1>1, <1>2, SubscribeTypeOK, UnsubscribeTopicTypeOK, OnConnectionOpenTypeOK,
     OnConnectionCloseTypeOK, RetryTimeoutTypeOK, StopTypeOK, SocketTypeOK
     DEF Next, GuiStep, SocketStep

(* Every reachable state is well typed: the manager's flags, its backlog    *)
(* and its clients hold what their C++ types say, whatever order events     *)
(* arrive in.                                                               *)
THEOREM TypeCorrect == Spec => []TypeOK
BY InitTypeOK, NextTypeOK, PTL DEF Spec

-----------------------------------------------------------------------------
(* What waits for a client is driven *)

Unopened(c) == Exists(c) /\ ~clients[c].open

Driven == TypeOK /\ AddingIsUnopened /\ PendingIsDriven

(* Adding a client leaves every unopened one where it is, and makes one.    *)
LEMMA AddClientUnopened ==
    ASSUME NEW cl \in [Clients -> Client], NEW isAdding \in BOOLEAN,
           stopping \in BOOLEAN, AddClient(cl, isAdding), ~stopping,
           isAdding => \E c \in Clients : cl[c].socket # "none" /\ ~cl[c].open
    PROVE  \E c \in Clients : Unopened(c)'
<1>1. CASE isAdding
  <2>1. PICK c \in Clients : cl[c].socket # "none" /\ ~cl[c].open
    BY <1>1
  <2>2. clients'[c] = cl[c]
    BY <2>1, AddClientEffect, GoneAndNew
  <2> QED
    BY <2>1, <2>2 DEF Unopened, Exists
<1>2. CASE ~isAdding
  <2>1. PICK c \in Clients : clients'[c] = NewClient
    BY <1>2, AddClientEffect
  <2> QED
    BY <2>1, GoneAndNew DEF Unopened, Exists
<1> QED
  BY <1>1, <1>2

LEMMA InitDriven == Init => Driven
<1> SUFFICES ASSUME Init PROVE AddingIsUnopened /\ PendingIsDriven
  BY InitTypeOK DEF Driven
<1> QED
  BY DEF Init, AddingIsUnopened, PendingIsDriven

(* A step that leaves the flag, the timers and the unopened clients alone.  *)
LEMMA SameDriven ==
    ASSUME Driven, TypeOK',
           UNCHANGED <<adding, retries>>, pending' = pending,
           ~stopping' => ~stopping,
           \A c \in Clients : Unopened(c) => Unopened(c)'
    PROVE  Driven'
<1>1. AddingIsUnopened'
  BY DEF Driven, AddingIsUnopened, Unopened
<1>2. PendingIsDriven'
  BY DEF Driven, PendingIsDriven, Unopened
<1> QED
  BY <1>1, <1>2 DEF Driven

LEMMA NextDriven == Driven /\ [Next]_vars => Driven'
<1> SUFFICES ASSUME Driven, [Next]_vars PROVE Driven'
  OBVIOUS
<1> USE DEF Driven
<1>0. TypeOK'
  BY NextTypeOK
<1>1. ASSUME NEW t \in Topics, SubscribeTopic(t)
      PROVE  Driven'
  BY <1>0, <1>1, SameDriven DEF SubscribeTopic, Unopened, Exists
<1>2. ASSUME NEW t \in Topics, UnsubscribeTopic(t)
      PROVE  Driven'
  <2>1. \A c \in Clients : /\ clients'[c].socket = clients[c].socket
                           /\ clients'[c].open = clients[c].open
    BY <1>2, ZenonT(60) DEF UnsubscribeTopic, TypeOK, Client
  <2> QED
    BY <1>0, <1>2, <2>1, SameDriven DEF UnsubscribeTopic, Unopened, Exists
<1>3. ASSUME NEW s \in Subscriptions, Subscribe(s)
      PROVE  Driven'
  <2>1. CASE AddClient(clients, adding) /\ ~stopping
    <3>1. \E c \in Clients : Unopened(c)'
      BY <2>1, AddClientUnopened DEF TypeOK, AddingIsUnopened, Exists
    <3> QED
      BY <1>0, <3>1 DEF AddingIsUnopened, PendingIsDriven, Unopened
  <2>2. CASE stopping
    BY <1>0, <1>3, <2>2 DEF Subscribe, AddingIsUnopened, PendingIsDriven
  <2>3. ASSUME NEW c \in Clients,
               clients' = [clients EXCEPT ![c].subs = @ \cup {s}],
               UNCHANGED <<pending, adding>>
        PROVE  Driven'
    <3>1. \A d \in Clients : /\ clients'[d].socket = clients[d].socket
                              /\ clients'[d].open = clients[d].open
      BY <2>3 DEF TypeOK, Client
    <3> QED
      BY <1>0, <1>3, <2>3, <3>1, SameDriven DEF Subscribe, Unopened, Exists
  <2> QED
    BY <1>3, <2>1, <2>2, <2>3 DEF Subscribe
<1>4. ASSUME NEW c \in Clients, OnConnectionOpen(c)
      PROVE  Driven'
  <2>1. PICK n \in 0..Len(pending) :
           LET opened == [clients EXCEPT ![c].open = TRUE, ![c].subs = @ \cup Newest(n)]
           IN  /\ pending' = SubSeq(pending, 1, Len(pending) - n)
               /\ IF n < Len(pending)
                  THEN AddClient(opened, FALSE)
                  ELSE clients' = opened /\ adding' = FALSE
    BY <1>4 DEF OnConnectionOpen
  <2> DEFINE opened == [clients EXCEPT ![c].open = TRUE, ![c].subs = @ \cup Newest(n)]
  <2>2. CASE n = Len(pending)
    <3>1. pending' = <<>>
      BY <2>1, <2>2, BacklogSplits DEF TypeOK
    <3>2. ~(n < Len(pending))
      BY <2>2
    <3>3. adding' = FALSE
      BY <2>1, <3>2
    <3> QED
      BY <1>0, <3>1, <3>3 DEF AddingIsUnopened, PendingIsDriven
  <2>3. CASE n < Len(pending) /\ ~stopping
    <3>1. AddClient(opened, FALSE)
      BY <2>1, <2>3
    <3>2. opened \in [Clients -> Client]
      <4>1. Newest(n) \subseteq Subscriptions
        BY BacklogSplits DEF TypeOK
      <4>2. [clients[c] EXCEPT !.open = TRUE, !.subs = @ \cup Newest(n)] \in Client
        BY <4>1 DEF TypeOK, Client
      <4> QED
        BY <4>2 DEF TypeOK
    <3>3. \E d \in Clients : Unopened(d)'
      <4> HIDE DEF opened
      <4> QED
        BY <2>3, <3>1, <3>2, AddClientUnopened DEF TypeOK
    <3> QED
      BY <1>0, <3>3 DEF AddingIsUnopened, PendingIsDriven, Unopened
  <2>4. CASE stopping
    BY <1>0, <1>4, <2>4 DEF OnConnectionOpen, AddingIsUnopened, PendingIsDriven
  <2>5. n = Len(pending) \/ n < Len(pending)
    BY DEF TypeOK
  <2> QED
    BY <2>2, <2>3, <2>4, <2>5
<1>5. ASSUME NEW c \in Clients, OnConnectionClose(c)
      PROVE  Driven'
  <2>1. AddingIsUnopened'
    BY <1>5 DEF OnConnectionClose, AddingIsUnopened
  <2>2. CASE stopping
    BY <1>0, <1>5, <2>1, <2>2 DEF OnConnectionClose, PendingIsDriven
  <2>3. CASE ~stopping /\ CloseUnopened(c)
    <3>1. retries' > 0
      BY <2>3 DEF CloseUnopened, TypeOK
    <3> QED
      BY <1>0, <2>1, <3>1 DEF PendingIsDriven
  <2>4. CASE clients[c].open /\ UNCHANGED <<pending, retries>>
    <3>1. \A d \in Clients : Unopened(d) => Unopened(d)'
      BY <1>5, <2>4 DEF OnConnectionClose, Unopened, Exists, TypeOK
    <3>2. PendingIsDriven'
      BY <1>5, <2>4, <3>1 DEF OnConnectionClose, PendingIsDriven, Unopened
    <3> QED
      BY <1>0, <2>1, <3>2
  <2> QED
    BY <1>5, <2>2, <2>3, <2>4 DEF OnConnectionClose
<1>6. CASE RetryTimeout
  <2>1. CASE stopping
    BY <1>0, <1>6, <2>1 DEF RetryTimeout, AddingIsUnopened, PendingIsDriven
  <2>2. CASE ~stopping
    <3>1. \E c \in Clients : Unopened(c)'
      BY <1>6, <2>2, AddClientUnopened DEF RetryTimeout, TypeOK, AddingIsUnopened, Exists
    <3> QED
      BY <1>0, <3>1 DEF AddingIsUnopened, PendingIsDriven, Unopened
  <2> QED
    BY <2>1, <2>2
<1>7. CASE Stop
  BY <1>0, <1>7 DEF Stop, AddingIsUnopened, PendingIsDriven
<1>8. ASSUME NEW c \in Clients, SocketOpens(c) \/ SocketCloses(c)
      PROVE  Driven'
  <2>1. PICK s \in {"up", "dropped", "failed"} :
           clients' = [clients EXCEPT ![c].socket = s]
    BY <1>8 DEF SocketOpens, SocketCloses
  <2>2. \A d \in Clients : /\ clients'[d].open = clients[d].open
                           /\ clients[d].socket # "none" => clients'[d].socket # "none"
    BY <2>1 DEF TypeOK, Client
  <2>3. UNCHANGED <<adding, retries, pending, stopping>>
    BY <1>8 DEF SocketOpens, SocketCloses
  <2>4. ASSUME NEW d \in Clients, Unopened(d)
        PROVE  Unopened(d)'
    <3>1. clients[d].socket # "none" /\ ~clients[d].open
      BY <2>4 DEF Unopened, Exists
    <3>2. clients[d].open = FALSE
      BY <3>1 DEF TypeOK, Client
    <3>3. clients'[d].socket # "none" /\ clients'[d].open = FALSE
      BY <2>2, <3>1, <3>2
    <3> QED
      BY <3>3 DEF Unopened, Exists
  <2>5. ~stopping' => ~stopping
    BY <2>3
  <2>6. UNCHANGED <<adding, retries>> /\ pending' = pending
    BY <2>3
  <2> QED
    BY <1>0, <2>4, <2>5, <2>6, SameDriven
<1>9. CASE UNCHANGED vars
  BY <1>0, <1>9, SameDriven DEF vars, Unopened, Exists
<1> QED
  BY <1>1, <1>2, <1>3, <1>4, <1>5, <1>6, <1>7, <1>8, <1>9
     DEF Next, GuiStep, SocketStep

(* Whatever fails, closes or stops in whatever order, a subscription in the *)
(* backlog never waits for an event that is not going to come.              *)
THEOREM PendingDriven == Spec => []PendingIsDriven
<1>1. Spec => []Driven
  BY InitDriven, NextDriven, PTL DEF Spec
<1>2. Driven => PendingIsDriven
  BY DEF Driven
<1> QED
  BY <1>1, <1>2, PTL

-----------------------------------------------------------------------------
(* No subscription is lost *)

Placed(s) ==
    (\E c \in Clients : s \in clients[c].subs) \/ s \in Range(pending) \cup todo

Remembering == TypeOK /\ NothingForgotten

(* A step that loses no subscription and adds no topic. *)
LEMMA KeepsPlaced ==
    ASSUME Remembering, TypeOK', wanted' \subseteq wanted, ~stopping' => ~stopping,
           \A s \in Subscriptions : Placed(s) => Placed(s)'
    PROVE  Remembering'
<1>1. ASSUME ~stopping', NEW s \in SubsOfWanted'
      PROVE  Placed(s)'
  <2>1. s \in SubsOfWanted /\ s \in Subscriptions
    BY <1>1 DEF SubsOfWanted, Remembering, TypeOK
  <2> QED
    BY <1>1, <2>1 DEF Remembering, NothingForgotten, Placed
<1> QED
  BY <1>1 DEF Remembering, NothingForgotten, Placed

(* Adding a client takes no subscription from any. *)
LEMMA AddClientKeeps ==
    ASSUME NEW cl \in [Clients -> Client], NEW isAdding \in BOOLEAN,
           stopping \in BOOLEAN, AddClient(cl, isAdding)
    PROVE  \A c \in Clients : cl[c].subs \subseteq clients'[c].subs
BY AddClientEffect, GoneAndNew

LEMMA NextRemembering == Remembering /\ [Next]_vars => Remembering'
<1> SUFFICES ASSUME Remembering, [Next]_vars PROVE Remembering'
  OBVIOUS
<1>0. TypeOK /\ TypeOK'
  BY NextTypeOK DEF Remembering
<1>1. ASSUME NEW t \in Topics, SubscribeTopic(t)
      PROVE  Remembering'
  <2>1. ASSUME ~stopping', NEW s \in SubsOfWanted'
        PROVE  Placed(s)'
    <3>1. CASE s \in SubsOf[t]
      BY <1>1, <3>1 DEF SubscribeTopic, Placed
    <3>2. CASE s \in SubsOfWanted
      <4>1. Placed(s) /\ s \notin todo
        BY <1>1, <2>1, <3>2
           DEF SubscribeTopic, GuiIdle, Remembering, NothingForgotten, Placed
      <4> QED
        BY <1>1, <4>1 DEF SubscribeTopic, Placed
    <3> QED
      BY <1>1, <2>1, <3>1, <3>2 DEF SubscribeTopic, SubsOfWanted
  <2> QED
    BY <1>0, <2>1 DEF Remembering, NothingForgotten, Placed
<1>2. ASSUME NEW t \in Topics, UnsubscribeTopic(t)
      PROVE  Remembering'
  <2>1. ASSUME NEW s \in Subscriptions, s \notin SubsOf[t],
               NEW c \in Clients, s \in clients[c].subs
        PROVE  s \in clients'[c].subs
    <3>1. PICK first \in [SubsOf[t] -> Clients \cup {NoClient}] :
             clients' = [d \in Clients |->
                           [clients[d] EXCEPT !.subs =
                               {x \in @ : x \notin SubsOf[t] \/ first[x] # d}]]
      BY <1>2 DEF UnsubscribeTopic
    <3>2. clients[c] \in Client
      BY <1>0 DEF TypeOK
    <3> QED
      BY <2>1, <3>1, <3>2 DEF Client
  <2>2. ASSUME ~stopping', NEW s \in SubsOfWanted'
        PROVE  Placed(s)'
    <3>1. s \in SubsOfWanted /\ s \in Subscriptions /\ s \notin SubsOf[t]
      <4>1. wanted' = wanted \ {t}
        BY <1>2 DEF UnsubscribeTopic
      <4>2. PICK t2 \in wanted \ {t} : s \in SubsOf[t2]
        BY <2>2, <4>1 DEF SubsOfWanted
      <4>3. t2 \in Topics /\ t2 \in wanted /\ t2 # t
        BY <1>0, <4>2 DEF TypeOK
      <4> QED
        BY <4>2, <4>3 DEF SubsOfWanted
    <3>2. Placed(s)
      BY <1>2, <2>2, <3>1 DEF UnsubscribeTopic, Remembering, NothingForgotten, Placed
    <3> QED
      BY <1>2, <2>1, <3>1, <3>2 DEF UnsubscribeTopic, Placed
  <2> QED
    BY <1>0, <2>2 DEF Remembering, NothingForgotten, Placed
<1>3. ASSUME NEW s \in Subscriptions, Subscribe(s)
      PROVE  Remembering'
  <2>1. CASE AddClient(clients, adding) /\ pending' = Append(pending, s)
    <3>1. \A c \in Clients : clients[c].subs \subseteq clients'[c].subs
      BY <1>0, <2>1, AddClientKeeps DEF TypeOK
    <3>2. Range(pending') = Range(pending) \cup {s}
      <4>1. Append(pending, s) = pending \o <<s>> /\ <<s>> \in Seq(Subscriptions)
        BY <1>0 DEF TypeOK
      <4>2. Range(<<s>>) = {s}
        BY DEF Range
      <4>3. Range(pending \o <<s>>) = Range(pending) \cup Range(<<s>>)
        <5>1. pending \in Seq(Subscriptions)
          BY <1>0 DEF TypeOK
        <5> QED
          BY <4>1, <5>1, RangeOfAppended, Zenon
      <4>4. pending' = pending \o <<s>>
        BY <2>1, <4>1, Zenon
      <4> QED
        BY <4>2, <4>3, <4>4, Zenon
    <3>3. Range(pending)' = Range(pending')
      BY DEF Range
    <3> QED
      BY <1>0, <1>3, <3>1, <3>2, <3>3, KeepsPlaced DEF Subscribe, Placed
  <2>2. ASSUME NEW c \in Clients,
               clients' = [clients EXCEPT ![c].subs = @ \cup {s}],
               UNCHANGED <<pending, adding>>
        PROVE  Remembering'
    <3>1. /\ s \in clients'[c].subs
          /\ \A d \in Clients : clients[d].subs \subseteq clients'[d].subs
      BY <1>0, <2>2 DEF TypeOK, Client
    <3> QED
      BY <1>0, <1>3, <2>2, <3>1, KeepsPlaced DEF Subscribe, Placed
  <2> QED
    BY <1>3, <2>1, <2>2 DEF Subscribe
<1>4. ASSUME NEW c \in Clients, OnConnectionOpen(c)
      PROVE  Remembering'
  <2>1. PICK n \in 0..Len(pending) :
           LET opened == [clients EXCEPT ![c].open = TRUE, ![c].subs = @ \cup Newest(n)]
           IN  /\ pending' = SubSeq(pending, 1, Len(pending) - n)
               /\ IF n < Len(pending)
                  THEN AddClient(opened, FALSE)
                  ELSE clients' = opened /\ adding' = FALSE
    BY <1>4 DEF OnConnectionOpen
  <2> DEFINE opened == [clients EXCEPT ![c].open = TRUE, ![c].subs = @ \cup Newest(n)]
  <2>2. /\ opened \in [Clients -> Client]
        /\ Newest(n) \subseteq opened[c].subs
        /\ \A d \in Clients : clients[d].subs \subseteq opened[d].subs
    <3>1. Newest(n) \subseteq Subscriptions
      BY <1>0, BacklogSplits DEF TypeOK
    <3>2. [clients[c] EXCEPT !.open = TRUE, !.subs = @ \cup Newest(n)] \in Client
      BY <1>0, <3>1 DEF TypeOK, Client
    <3> QED
      BY <1>0, <3>2 DEF TypeOK, Client
  <2>3. \A d \in Clients : opened[d].subs \subseteq clients'[d].subs
    <3>1. stopping \in BOOLEAN
      BY <1>0 DEF TypeOK
    <3>2. AddClient(opened, FALSE) \/ clients' = opened
      BY <2>1
    <3> HIDE DEF opened
    <3> QED
      BY <2>2, <3>1, <3>2, AddClientKeeps
  <2> HIDE DEF opened
  <2>4. Range(pending) = Range(pending') \cup Newest(n)
    BY <1>0, <2>1, BacklogSplits DEF TypeOK
  <2>5. Range(pending)' = Range(pending')
    BY DEF Range
  <2>6. \A s \in Subscriptions : Placed(s) => Placed(s)'
    BY <1>4, <2>2, <2>3, <2>4, <2>5 DEF OnConnectionOpen, Placed
  <2> QED
    BY <1>0, <1>4, <2>6, KeepsPlaced DEF OnConnectionOpen
<1>5. ASSUME NEW c \in Clients, OnConnectionClose(c)
      PROVE  Remembering'
  <2>1. \A d \in Clients : d # c => clients'[d] = clients[d]
    BY <1>0, <1>5 DEF OnConnectionClose, TypeOK
  <2>2. UNCHANGED <<wanted, stopping>> /\ todo = {}
    BY <1>5 DEF OnConnectionClose, GuiIdle
  <2>3. CASE stopping
    BY <1>0, <2>2, <2>3 DEF Remembering, NothingForgotten
  <2>4. CASE todo' = clients[c].subs /\ UNCHANGED <<pending, retries>>
    <3>1. \A s \in Subscriptions : Placed(s) => Placed(s)'
      BY <2>1, <2>2, <2>4 DEF Placed
    <3> QED
      BY <1>0, <2>2, <3>1, KeepsPlaced
  <2>5. CASE CloseUnopened(c)
    <3>1. PICK order \in Bijection(1..Cardinality(clients[c].subs), clients[c].subs) :
             pending' = pending \o order
      BY <2>5 DEF CloseUnopened
    <3>2. clients[c].subs \subseteq Subscriptions
      BY <1>0 DEF TypeOK, Client
    <3>3. Range(pending') = Range(pending) \cup clients[c].subs
      BY <1>0, <3>1, <3>2, OrderIsSequence, RangeOfAppended DEF TypeOK
    <3>4. Range(pending)' = Range(pending')
      BY DEF Range
    <3>5. \A s \in Subscriptions : Placed(s) => Placed(s)'
      BY <2>1, <2>2, <3>3, <3>4 DEF Placed
    <3> QED
      BY <1>0, <2>2, <3>5, KeepsPlaced
  <2> QED
    BY <1>5, <2>3, <2>4, <2>5 DEF OnConnectionClose
<1>6. CASE RetryTimeout
  <2>1. \A c \in Clients : clients[c].subs \subseteq clients'[c].subs
    BY <1>0, <1>6, AddClientKeeps DEF RetryTimeout, TypeOK
  <2> QED
    BY <1>0, <1>6, <2>1, KeepsPlaced DEF RetryTimeout, Placed
<1>7. CASE Stop
  BY <1>0, <1>7 DEF Stop, Remembering, NothingForgotten
<1>8. ASSUME NEW c \in Clients, SocketOpens(c) \/ SocketCloses(c)
      PROVE  Remembering'
  <2>1. PICK x \in {"up", "dropped", "failed"} :
           clients' = [clients EXCEPT ![c].socket = x]
    BY <1>8 DEF SocketOpens, SocketCloses
  <2>2. \A d \in Clients : clients'[d].subs = clients[d].subs
    BY <1>0, <2>1 DEF TypeOK, Client
  <2>3. UNCHANGED <<wanted, pending, todo, stopping>>
    BY <1>8 DEF SocketOpens, SocketCloses
  <2>4. \A s \in Subscriptions : Placed(s) => Placed(s)'
    BY <2>2, <2>3 DEF Placed
  <2> QED
    BY <1>0, <2>3, <2>4, KeepsPlaced
<1>9. CASE UNCHANGED vars
  BY <1>0, <1>9, KeepsPlaced DEF vars, Placed
<1> QED
  BY <1>1, <1>2, <1>3, <1>4, <1>5, <1>6, <1>7, <1>8, <1>9
     DEF Next, GuiStep, SocketStep

(* Whatever order connections open, fail, fill up and close in, with early  *)
(* releases or without, a subscription of a topic that is still wanted is   *)
(* with a client, in the backlog or about to be subscribed again.           *)
THEOREM NoneForgotten == Spec => []NothingForgotten
<1>1. Init => Remembering
  BY InitTypeOK DEF Init, Remembering, NothingForgotten, SubsOfWanted
<1>2. Spec => []Remembering
  BY <1>1, NextRemembering, PTL DEF Spec
<1>3. Remembering => NothingForgotten
  BY DEF Remembering
<1> QED
  BY <1>2, <1>3, PTL

-----------------------------------------------------------------------------
(* No client takes too much *)

Sized == TypeOK /\ WithinLimit

(* One more of the backlog is one subscription more, at most. *)
LEMMA NewestGrows ==
    ASSUME pending \in Seq(Subscriptions), NEW n \in 1..Len(pending)
    PROVE  \E x \in Subscriptions : Newest(n) \subseteq Newest(n - 1) \cup {x}
<1> DEFINE k == Len(pending) - n
           more == SubSeq(pending, k + 1, Len(pending))
           fewer == SubSeq(pending, k + 2, Len(pending))
<1>1. Len(pending) \in Nat /\ k \in Nat /\ k < Len(pending) /\ n \in Nat
  OBVIOUS
<1>2. DOMAIN more = 1..n /\ \A i \in 1..n : more[i] = pending[k + i]
  BY <1>1
<1>3. DOMAIN fewer = 1..(n - 1) /\ \A i \in 1..(n - 1) : fewer[i] = pending[k + 1 + i]
  BY <1>1
<1>4. Newest(n) = Range(more) /\ Newest(n - 1) = Range(fewer)
  <2>1. Len(pending) - (n - 1) + 1 = k + 2 /\ Len(pending) - n + 1 = k + 1
    BY <1>1
  <2> QED
    BY <2>1 DEF Newest
<1>5. ASSUME NEW i \in 1..n, i # 1
      PROVE  more[i] \in Range(fewer)
  <2>1. i - 1 \in 1..(n - 1) /\ k + 1 + (i - 1) = k + i
    BY <1>1, <1>5
  <2>2. more[i] = fewer[i - 1]
    BY <1>2, <1>3, <2>1
  <2> HIDE DEF more, fewer, k
  <2> QED
    BY <1>3, <2>1, <2>2 DEF Range
<1>6. more[1] \in Subscriptions
  BY <1>1, <1>2
<1> HIDE DEF more, fewer, k
<1>7. Range(more) \subseteq Range(fewer) \cup {more[1]}
  BY <1>2, <1>5 DEF Range
<1> QED
  BY <1>4, <1>6, <1>7

(* One subscription more fits where there is room. *)
LEMMA OneMoreFits ==
    ASSUME NEW S \in SUBSET Subscriptions, NEW T \in SUBSET Subscriptions,
           NEW x \in Subscriptions,
           Cardinality(S) < MaxSubscriptions, T \subseteq S \cup {x}
    PROVE  Cardinality(T) <= MaxSubscriptions
<1>1. IsFiniteSet(S) /\ IsFiniteSet(S \cup {x})
  BY FS_Subset, FS_AddElement
<1>2. Cardinality(S) \in Nat /\ Cardinality(T) \in Nat
  BY <1>1, FS_Subset, FS_CardinalityType
<1>3. Cardinality(S \cup {x}) \in {Cardinality(S), Cardinality(S) + 1}
  BY <1>1, FS_AddElement
<1>4. Cardinality(T) <= Cardinality(S \cup {x})
  BY <1>1, FS_Subset
<1> QED
  BY <1>2, <1>3, <1>4

(* The clients of a step whose subscriptions are among those they had. *)
LEMMA ShrinksSized ==
    ASSUME Sized, TypeOK',
           \A c \in Clients : clients'[c].subs \subseteq clients[c].subs
    PROVE  Sized'
<1>1. ASSUME NEW c \in Clients
      PROVE  Cardinality(clients'[c].subs) <= MaxSubscriptions
  <2>1. clients[c].subs \subseteq Subscriptions
    BY DEF Sized, TypeOK, Client
  <2>2. IsFiniteSet(clients[c].subs)
    BY <2>1, FS_Subset
  <2>3. Cardinality(clients'[c].subs) <= Cardinality(clients[c].subs)
    BY <2>2, FS_Subset
  <2>4. Cardinality(clients'[c].subs) \in Nat /\ Cardinality(clients[c].subs) \in Nat
    BY <2>2, FS_Subset, FS_CardinalityType
  <2>5. Cardinality(clients[c].subs) <= MaxSubscriptions
    BY DEF Sized, WithinLimit
  <2> QED
    BY <2>3, <2>4, <2>5
<1> QED
  BY <1>1 DEF Sized, WithinLimit

(* Adding a client to clients within their limits. *)
LEMMA AddClientSized ==
    ASSUME NEW cl \in [Clients -> Client], NEW isAdding \in BOOLEAN,
           stopping \in BOOLEAN, AddClient(cl, isAdding), TypeOK',
           \A c \in Clients : Cardinality(cl[c].subs) <= MaxSubscriptions
    PROVE  Sized'
<1>1. ASSUME NEW c \in Clients
      PROVE  clients'[c].subs = cl[c].subs
  BY AddClientEffect, GoneAndNew
<1> QED
  BY <1>1 DEF Sized, WithinLimit

(* Stopping closes sockets and moves no subscription. *)
LEMMA StopMovesNone ==
    ASSUME TypeOK, Stop, NEW c \in Clients
    PROVE  clients'[c].subs = clients[c].subs
<1>1. PICK late \in SUBSET Clients :
         clients' = [d \in Clients |-> [clients[d] EXCEPT !.socket =
             CASE @ = "up" \/ (@ = "connecting" /\ d \in late) -> "dropped"
               [] @ = "connecting" /\ d \notin late -> "failed"
               [] OTHER -> @]]
  BY Zenon DEF Stop
<1> DEFINE x == CASE clients[c].socket = "up"
                     \/ (clients[c].socket = "connecting" /\ c \in late) -> "dropped"
                  [] clients[c].socket = "connecting" /\ c \notin late -> "failed"
                  [] OTHER -> clients[c].socket
<1>2. clients'[c] = [clients[c] EXCEPT !.socket = x]
  BY <1>1, Zenon
<1>3. clients[c] \in Client
  BY DEF TypeOK
<1> HIDE DEF x
<1> QED
  BY <1>2, <1>3 DEF Client

LEMMA NextSized == Sized /\ [Next]_vars => Sized'
<1> SUFFICES ASSUME Sized, [Next]_vars PROVE Sized'
  OBVIOUS
<1>0. TypeOK /\ TypeOK' /\ WithinLimit
  BY NextTypeOK DEF Sized
<1>1. ASSUME NEW t \in Topics, SubscribeTopic(t)
      PROVE  Sized'
  BY <1>0, <1>1, ShrinksSized DEF SubscribeTopic
<1>2. ASSUME NEW t \in Topics, UnsubscribeTopic(t)
      PROVE  Sized'
  <2>1. PICK first \in [SubsOf[t] -> Clients \cup {NoClient}] :
           clients' = [d \in Clients |->
                         [clients[d] EXCEPT !.subs =
                             {x \in @ : x \notin SubsOf[t] \/ first[x] # d}]]
    BY <1>2 DEF UnsubscribeTopic
  <2>2. \A c \in Clients : clients'[c].subs \subseteq clients[c].subs
    BY <1>0, <2>1 DEF TypeOK, Client
  <2> QED
    BY <1>0, <2>2, ShrinksSized
<1>3. ASSUME NEW s \in Subscriptions, Subscribe(s)
      PROVE  Sized'
  <2>1. CASE AddClient(clients, adding)
    BY <1>0, <2>1, AddClientSized DEF TypeOK, WithinLimit
  <2>2. ASSUME NEW c \in Clients, HasRoom(c),
               clients' = [clients EXCEPT ![c].subs = @ \cup {s}]
        PROVE  Sized'
    <3>1. /\ clients'[c].subs = clients[c].subs \cup {s}
          /\ clients[c].subs \subseteq Subscriptions
          /\ \A d \in Clients : d # c => clients'[d] = clients[d]
      BY <1>0, <2>2 DEF TypeOK, Client
    <3>2. Cardinality(clients'[c].subs) <= MaxSubscriptions
      BY <2>2, <3>1, OneMoreFits DEF HasRoom
    <3> QED
      BY <1>0, <3>1, <3>2 DEF Sized, WithinLimit
  <2> QED
    BY <1>3, <2>1, <2>2 DEF Subscribe
<1>4. ASSUME NEW c \in Clients, OnConnectionOpen(c)
      PROVE  Sized'
  <2>1. PICK n \in 0..Len(pending) :
           LET opened == [clients EXCEPT ![c].open = TRUE, ![c].subs = @ \cup Newest(n)]
           IN  /\ Takes(c, n)
               /\ IF n < Len(pending)
                  THEN AddClient(opened, FALSE)
                  ELSE clients' = opened /\ adding' = FALSE
    BY <1>4 DEF OnConnectionOpen
  <2> DEFINE opened == [clients EXCEPT ![c].open = TRUE, ![c].subs = @ \cup Newest(n)]
  <2>2. Newest(n) \subseteq Subscriptions /\ clients[c].subs \subseteq Subscriptions
    BY <1>0, BacklogSplits DEF TypeOK, Client
  <2>3. Cardinality(clients[c].subs \cup Newest(n)) <= MaxSubscriptions
    <3>1. CASE n = 0
      <4>1. Newest(0) = {}
        BY <1>0 DEF TypeOK, Newest, Range
      <4>2. clients[c].subs \cup Newest(n) = clients[c].subs
        BY <3>1, <4>1
      <4> QED
        BY <1>0, <4>2 DEF WithinLimit
    <3>2. CASE n # 0
      <4>1. n \in 1..Len(pending) /\ n - 1 \in 0..Len(pending) /\ n - 1 \in 0..(n - 1)
        BY <1>0, <3>2 DEF TypeOK
      <4>2. PICK x \in Subscriptions : Newest(n) \subseteq Newest(n - 1) \cup {x}
        BY <1>0, <4>1, NewestGrows DEF TypeOK
      <4>3. Newest(n - 1) \subseteq Subscriptions
        BY <1>0, <4>1, BacklogSplits DEF TypeOK
      <4>4. Cardinality(clients[c].subs \cup Newest(n - 1)) < MaxSubscriptions
        BY <2>1, <4>1 DEF Takes
      <4>5. clients[c].subs \cup Newest(n)
              \subseteq (clients[c].subs \cup Newest(n - 1)) \cup {x}
        BY <4>2
      <4> QED
        BY <2>2, <4>3, <4>4, <4>5, OneMoreFits
    <3> QED
      BY <3>1, <3>2
  <2>4. /\ opened \in [Clients -> Client]
        /\ opened[c].subs = clients[c].subs \cup Newest(n)
        /\ \A d \in Clients : d # c => opened[d] = clients[d]
    <3>1. [clients[c] EXCEPT !.open = TRUE, !.subs = @ \cup Newest(n)] \in Client
      BY <1>0, <2>2 DEF TypeOK, Client
    <3> QED
      BY <1>0, <3>1 DEF TypeOK, Client
  <2>5. AddClient(opened, FALSE) \/ clients' = opened
    BY <2>1
  <2> HIDE DEF opened
  <2>6. \A d \in Clients : Cardinality(opened[d].subs) <= MaxSubscriptions
    BY <1>0, <2>3, <2>4 DEF WithinLimit
  <2>7. CASE AddClient(opened, FALSE)
    BY <1>0, <2>4, <2>6, <2>7, AddClientSized DEF TypeOK
  <2>8. CASE clients' = opened
    BY <1>0, <2>6, <2>8 DEF Sized, WithinLimit
  <2> QED
    BY <2>5, <2>7, <2>8
<1>5. ASSUME NEW c \in Clients, OnConnectionClose(c)
      PROVE  Sized'
  <2>1. \A d \in Clients : clients'[d].subs \subseteq clients[d].subs
    BY <1>0, <1>5, GoneAndNew DEF OnConnectionClose, TypeOK
  <2> QED
    BY <1>0, <2>1, ShrinksSized
<1>6. CASE RetryTimeout
  BY <1>0, <1>6, AddClientSized DEF RetryTimeout, TypeOK, WithinLimit
<1>7. CASE Stop
  <2>1. \A c \in Clients : clients'[c].subs = clients[c].subs
    BY <1>0, <1>7, StopMovesNone
  <2> QED
    BY <1>0, <2>1, ShrinksSized
<1>8. ASSUME NEW c \in Clients, SocketOpens(c) \/ SocketCloses(c)
      PROVE  Sized'
  <2>1. PICK x \in {"up", "dropped", "failed"} :
           clients' = [clients EXCEPT ![c].socket = x]
    BY <1>8 DEF SocketOpens, SocketCloses
  <2>2. \A d \in Clients : clients'[d].subs = clients[d].subs
    BY <1>0, <2>1 DEF TypeOK, Client
  <2> QED
    BY <1>0, <2>2, ShrinksSized
<1>9. CASE UNCHANGED vars
  BY <1>0, <1>9, ShrinksSized DEF vars
<1> QED
  BY <1>1, <1>2, <1>3, <1>4, <1>5, <1>6, <1>7, <1>8, <1>9
     DEF Next, GuiStep, SocketStep

(* For any limit, a client never carries more subscriptions than that, also *)
(* when it takes some before it has opened and the backlog when it opens.   *)
THEOREM LimitKept == Spec => []WithinLimit
<1>1. Init => Sized
  <2> SUFFICES ASSUME Init PROVE WithinLimit
    BY InitTypeOK DEF Sized
  <2>1. \A c \in Clients : clients[c].subs = {}
    BY GoneAndNew DEF Init
  <2>2. Cardinality({}) = 0
    BY FS_EmptySet
  <2> QED
    BY <2>1, <2>2 DEF WithinLimit
<1>2. Spec => []Sized
  BY <1>1, NextSized, PTL DEF Spec
<1>3. Sized => WithinLimit
  BY DEF Sized
<1> QED
  BY <1>2, <1>3, PTL

-----------------------------------------------------------------------------
(* Unless topics are dropped early, every subscription is in one place      *)

Distinct(p) == \A i, j \in DOMAIN p : p[i] = p[j] => i = j

(* What clients have, what waits and what is to be subscribed is wanted. *)
AllWanted ==
    /\ SubscribedIsWanted
    /\ Range(pending) \subseteq SubsOfWanted
    /\ todo \subseteq SubsOfWanted

Tidy == TypeOK /\ AllWanted /\ InOnePlace

LEMMA DistinctAppended ==
    ASSUME NEW p \in Seq(Subscriptions), NEW q \in Seq(Subscriptions),
           Distinct(p), Distinct(q), Range(p) \cap Range(q) = {}
    PROVE  Distinct(p \o q)
<1> SUFFICES ASSUME NEW i \in DOMAIN (p \o q), NEW j \in DOMAIN (p \o q),
                    (p \o q)[i] = (p \o q)[j]
             PROVE  i = j
  BY DEF Distinct
<1>1. \A k \in DOMAIN (p \o q) :
         \/ k \in DOMAIN p /\ (p \o q)[k] = p[k]
         \/ k - Len(p) \in DOMAIN q /\ (p \o q)[k] = q[k - Len(p)]
  OBVIOUS
<1>2. i \in Int /\ j \in Int /\ Len(p) \in Int
  OBVIOUS
<1>3. \A k \in DOMAIN p, l \in DOMAIN q : p[k] # q[l]
  BY DEF Range
<1>4. CASE i \in DOMAIN p /\ (p \o q)[i] = p[i]
  BY <1>1, <1>3, <1>4 DEF Distinct
<1>5. CASE i - Len(p) \in DOMAIN q /\ (p \o q)[i] = q[i - Len(p)]
  <2>1. /\ j - Len(p) \in DOMAIN q
        /\ q[i - Len(p)] = q[j - Len(p)]
    BY <1>1, <1>3, <1>5
  <2>2. i - Len(p) = j - Len(p)
    BY <1>5, <2>1 DEF Distinct
  <2> QED
    BY <1>2, <2>2
<1> QED
  BY <1>1, <1>4, <1>5

(* What a client takes of a backlog without repetitions is not in the rest, *)
(* which has none either.                                                   *)
LEMMA BacklogParts ==
    ASSUME pending \in Seq(Subscriptions), Distinct(pending), NEW n \in 0..Len(pending)
    PROVE  /\ Distinct(SubSeq(pending, 1, Len(pending) - n))
           /\ Range(SubSeq(pending, 1, Len(pending) - n)) \cap Newest(n) = {}
<1> DEFINE k == Len(pending) - n
           rest == SubSeq(pending, 1, k)
           newest == SubSeq(pending, k + 1, Len(pending))
<1>1. k \in Nat /\ k <= Len(pending) /\ Len(pending) \in Nat /\ k + n = Len(pending)
  OBVIOUS
<1>2. DOMAIN rest = 1..k /\ \A i \in 1..k : rest[i] = pending[i]
  BY <1>1
<1>3. DOMAIN newest = 1..n /\ \A i \in 1..n : newest[i] = pending[k + i]
  BY <1>1
<1>4. Newest(n) = Range(newest)
  BY <1>1 DEF Newest
<1>5. \A i \in 1..k : i \in DOMAIN pending
  BY <1>1
<1>6. \A i \in 1..k, j \in 1..n : k + j \in DOMAIN pending /\ i # k + j
  BY <1>1
<1> HIDE DEF k, rest, newest
<1>7. Distinct(rest)
  BY <1>2, <1>5 DEF Distinct
<1>8. \A i \in 1..k, j \in 1..n : pending[i] # pending[k + j]
  BY <1>5, <1>6 DEF Distinct
<1>9. Range(rest) \cap Range(newest) = {}
  BY <1>2, <1>3, <1>8 DEF Range
<1> QED
  BY <1>4, <1>7, <1>9 DEF k, rest

(* A step that moves no subscription. *)
LEMMA KeepsTidy ==
    ASSUME Tidy, TypeOK', UNCHANGED <<wanted, pending, todo>>,
           \A c \in Clients : clients'[c].subs = clients[c].subs
    PROVE  Tidy'
<1>1. SubsOfWanted' = SubsOfWanted /\ Range(pending)' = Range(pending)
  BY DEF SubsOfWanted, Range
<1>2. AllWanted'
  BY <1>1 DEF Tidy, AllWanted, SubscribedIsWanted
<1>3. InOnePlace'
  BY <1>1 DEF Tidy, InOnePlace
<1> QED
  BY <1>2, <1>3 DEF Tidy

(* Adding a client moves none. *)
LEMMA AddClientMovesNone ==
    ASSUME NEW cl \in [Clients -> Client], NEW isAdding \in BOOLEAN,
           stopping \in BOOLEAN, AddClient(cl, isAdding)
    PROVE  \A c \in Clients : clients'[c].subs = cl[c].subs
BY AddClientEffect, GoneAndNew

LEMMA SubscribeTopicTidy ==
    ASSUME Tidy, TypeOK', NEW t \in Topics, SubscribeTopic(t)
    PROVE  Tidy'
<1>1. /\ todo = {} /\ t \notin wanted /\ wanted' = wanted \cup {t}
      /\ todo' = SubsOf[t] /\ UNCHANGED <<clients, pending>>
  BY DEF SubscribeTopic, GuiIdle
<1>2. wanted \subseteq Topics
  BY DEF Tidy, TypeOK
<1>3. SubsOfWanted' = SubsOfWanted \cup SubsOf[t]
  BY <1>1 DEF SubsOfWanted
<1>4. SubsOfWanted \cap SubsOf[t] = {}
  BY <1>1, <1>2 DEF SubsOfWanted
<1>5. Range(pending)' = Range(pending)
  BY <1>1 DEF Range
<1>6. AllWanted'
  BY <1>1, <1>3, <1>5 DEF Tidy, AllWanted, SubscribedIsWanted
<1>7. InOnePlace'
  BY <1>1, <1>4, <1>5 DEF Tidy, AllWanted, SubscribedIsWanted, InOnePlace
<1> QED
  BY <1>6, <1>7 DEF Tidy

(* The one client that has a subscription is the one that forgets it. *)
LEMMA UnsubscribeTopicTidy ==
    ASSUME "early release" \notin Faults,
           Tidy, TypeOK', NEW t \in Topics, UnsubscribeTopic(t)
    PROVE  Tidy'
<1>1. /\ todo = {} /\ wanted' = wanted \ {t} /\ SubsOf[t] \cap Range(pending) = {}
      /\ UNCHANGED <<pending, todo>>
  BY DEF UnsubscribeTopic, GuiIdle
<1>2. PICK first \in [SubsOf[t] -> Clients \cup {NoClient}] :
         /\ \A s \in SubsOf[t] :
               first[s] \in IF HaveSubscription(s) = {} THEN {NoClient}
                                                      ELSE HaveSubscription(s)
         /\ clients' = [c \in Clients |->
                          [clients[c] EXCEPT !.subs =
                              {s \in @ : s \notin SubsOf[t] \/ first[s] # c}]]
  BY Zenon DEF UnsubscribeTopic
<1>3. \A c \in Clients :
         clients'[c].subs = {x \in clients[c].subs : x \notin SubsOf[t] \/ first[x] # c}
  <2> SUFFICES ASSUME NEW c \in Clients
               PROVE  clients'[c].subs =
                        {x \in clients[c].subs : x \notin SubsOf[t] \/ first[x] # c}
    OBVIOUS
  <2>1. clients'[c] = [clients[c] EXCEPT !.subs =
                         {x \in @ : x \notin SubsOf[t] \/ first[x] # c}]
    BY <1>2
  <2>2. clients[c] \in Client
    BY DEF Tidy, TypeOK
  <2> QED
    BY <2>1, <2>2 DEF Client
<1>4. ASSUME NEW c \in Clients, NEW s \in clients[c].subs, s \in SubsOf[t]
      PROVE  first[s] = c
  <2>1. c \in HaveSubscription(s)
    BY <1>4 DEF HaveSubscription
  <2>2. first[s] \in HaveSubscription(s)
    BY <1>2, <1>4, <2>1
  <2> QED
    BY <1>4, <2>2 DEF HaveSubscription, Tidy, InOnePlace
<1>5. \A c \in Clients : clients'[c].subs = clients[c].subs \ SubsOf[t]
  BY <1>3, <1>4
<1>6. SubsOfWanted \ SubsOf[t] \subseteq SubsOfWanted'
  BY <1>1 DEF SubsOfWanted
<1>7. Range(pending)' = Range(pending)
  BY <1>1 DEF Range
<1>8. AllWanted'
  BY <1>1, <1>5, <1>6, <1>7 DEF Tidy, AllWanted, SubscribedIsWanted
<1>9. InOnePlace'
  BY <1>1, <1>5, <1>7 DEF Tidy, InOnePlace
<1> QED
  BY <1>8, <1>9 DEF Tidy

LEMMA SubscribeTidy ==
    ASSUME Tidy, TypeOK', NEW s \in Subscriptions, Subscribe(s)
    PROVE  Tidy'
<1>1. /\ TypeOK /\ s \in todo /\ todo' = todo \ {s} /\ wanted' = wanted
      /\ pending \in Seq(Subscriptions)
  BY DEF Subscribe, Tidy, TypeOK
<1>2. SubsOfWanted' = SubsOfWanted /\ s \in SubsOfWanted
  BY <1>1 DEF SubsOfWanted, Tidy, AllWanted
<1>3. /\ s \notin Range(pending)
      /\ \A c \in Clients : s \notin clients[c].subs
  BY <1>1 DEF Tidy, InOnePlace
<1>4. CASE AddClient(clients, adding) /\ pending' = Append(pending, s)
  <2>1. \A c \in Clients : clients'[c].subs = clients[c].subs
    BY <1>1, <1>4, AddClientMovesNone DEF TypeOK
  <2>2. <<s>> \in Seq(Subscriptions) /\ Range(<<s>>) = {s} /\ Distinct(<<s>>)
    BY DEF Range, Distinct
  <2>3. pending' = pending \o <<s>>
    BY <1>1, <1>4
  <2>4. Distinct(pending)
    BY DEF Tidy, InOnePlace, Distinct
  <2>5. Range(pending') = Range(pending) \cup {s}
    BY <1>1, <2>2, <2>3, RangeOfAppended, Zenon
  <2>6. Distinct(pending')
    <3>1. Range(pending) \cap Range(<<s>>) = {}
      BY <1>3, <2>2
    <3> QED
      BY <1>1, <2>2, <2>3, <2>4, <3>1, DistinctAppended, Zenon
  <2>7. Range(pending)' = Range(pending')
    BY DEF Range
  <2>8. AllWanted'
    BY <1>1, <1>2, <2>1, <2>5, <2>7 DEF Tidy, AllWanted, SubscribedIsWanted
  <2>9. InOnePlace'
    BY <1>1, <1>3, <2>1, <2>5, <2>6, <2>7 DEF Tidy, InOnePlace, Distinct
  <2> QED
    BY <2>8, <2>9 DEF Tidy
<1>5. ASSUME NEW c \in Clients,
             clients' = [clients EXCEPT ![c].subs = @ \cup {s}],
             UNCHANGED <<pending, adding>>
      PROVE  Tidy'
  <2>1. /\ clients'[c].subs = clients[c].subs \cup {s}
        /\ \A d \in Clients : d # c => clients'[d].subs = clients[d].subs
    BY <1>1, <1>5 DEF TypeOK, Client
  <2>2. Range(pending)' = Range(pending)
    BY <1>5 DEF Range
  <2>3. AllWanted'
    BY <1>1, <1>2, <2>1, <2>2 DEF Tidy, AllWanted, SubscribedIsWanted
  <2>4. InOnePlace'
    BY <1>1, <1>3, <1>5, <2>1, <2>2 DEF Tidy, InOnePlace
  <2> QED
    BY <2>3, <2>4 DEF Tidy
<1> QED
  BY <1>4, <1>5 DEF Subscribe

LEMMA OnConnectionOpenTidy ==
    ASSUME Tidy, TypeOK', NEW c \in Clients, OnConnectionOpen(c)
    PROVE  Tidy'
<1>1. PICK n \in 0..Len(pending) :
         LET opened == [clients EXCEPT ![c].open = TRUE, ![c].subs = @ \cup Newest(n)]
         IN  /\ pending' = SubSeq(pending, 1, Len(pending) - n)
             /\ IF n < Len(pending)
                THEN AddClient(opened, FALSE)
                ELSE clients' = opened /\ adding' = FALSE
  BY DEF OnConnectionOpen
<1> DEFINE opened == [clients EXCEPT ![c].open = TRUE, ![c].subs = @ \cup Newest(n)]
<1>2. TypeOK /\ pending \in Seq(Subscriptions) /\ Distinct(pending)
  BY DEF Tidy, TypeOK, InOnePlace, Distinct
<1>3. todo = {} /\ todo' = {} /\ wanted' = wanted
  BY DEF OnConnectionOpen, GuiIdle
<1>4. Newest(n) \subseteq Subscriptions /\ Newest(n) \subseteq Range(pending)
  BY <1>2, BacklogSplits
<1>5. Range(pending') \subseteq Range(pending)
  BY <1>1, <1>2, BacklogSplits
<1>6. Distinct(pending') /\ Range(pending') \cap Newest(n) = {}
  BY <1>1, <1>2, BacklogParts
<1>7. /\ opened \in [Clients -> Client]
      /\ opened[c].subs = clients[c].subs \cup Newest(n)
      /\ \A d \in Clients : d # c => opened[d].subs = clients[d].subs
  <2>1. [clients[c] EXCEPT !.open = TRUE, !.subs = @ \cup Newest(n)] \in Client
    BY <1>2, <1>4 DEF TypeOK, Client
  <2> QED
    BY <1>2, <2>1 DEF TypeOK, Client
<1>8. \A d \in Clients : clients'[d].subs = opened[d].subs
  <2>1. stopping \in BOOLEAN
    BY <1>2 DEF TypeOK
  <2>2. AddClient(opened, FALSE) \/ clients' = opened
    BY <1>1
  <2> HIDE DEF opened
  <2> QED
    BY <1>7, <2>1, <2>2, AddClientMovesNone
<1>9. /\ clients'[c].subs = clients[c].subs \cup Newest(n)
      /\ \A d \in Clients : d # c => clients'[d].subs = clients[d].subs
  BY <1>7, <1>8, Zenon
<1>10. SubsOfWanted' = SubsOfWanted /\ Range(pending)' = Range(pending')
  BY <1>3 DEF SubsOfWanted, Range
<1>11. AllWanted'
  BY <1>3, <1>4, <1>5, <1>9, <1>10 DEF Tidy, AllWanted, SubscribedIsWanted
<1>12. InOnePlace'
  <2>1. ASSUME NEW d \in Clients
        PROVE  clients'[d].subs \cap Range(pending') = {}
    BY <1>4, <1>5, <1>6, <1>9 DEF Tidy, InOnePlace
  <2>2. ASSUME NEW d \in Clients, NEW e \in Clients, d # e
        PROVE  clients'[d].subs \cap clients'[e].subs = {}
    BY <1>4, <1>9, <2>2 DEF Tidy, InOnePlace
  <2> QED
    BY <1>3, <1>6, <1>10, <2>1, <2>2 DEF InOnePlace, Distinct
<1> QED
  BY <1>11, <1>12 DEF Tidy

LEMMA OnConnectionCloseTidy ==
    ASSUME Tidy, TypeOK', NEW c \in Clients, OnConnectionClose(c)
    PROVE  Tidy'
<1>1. /\ TypeOK /\ pending \in Seq(Subscriptions) /\ Distinct(pending)
      /\ clients[c].subs \subseteq Subscriptions
  BY DEF Tidy, TypeOK, Client, InOnePlace, Distinct
<1>2. todo = {} /\ wanted' = wanted
  BY DEF OnConnectionClose, GuiIdle
<1>3. /\ clients'[c].subs = {}
      /\ \A d \in Clients : d # c => clients'[d].subs = clients[d].subs
  BY <1>1, GoneAndNew DEF OnConnectionClose, TypeOK
<1>4. SubsOfWanted' = SubsOfWanted
  BY <1>2 DEF SubsOfWanted
<1>5. CASE UNCHANGED <<pending, retries, todo>>
  <2>1. Range(pending)' = Range(pending)
    BY <1>5 DEF Range
  <2>2. AllWanted'
    BY <1>3, <1>4, <1>5, <2>1 DEF Tidy, AllWanted, SubscribedIsWanted
  <2>3. InOnePlace'
    BY <1>3, <1>5, <2>1 DEF Tidy, InOnePlace
  <2> QED
    BY <2>2, <2>3 DEF Tidy
<1>6. CASE todo' = clients[c].subs /\ UNCHANGED <<pending, retries>>
  <2>1. Range(pending)' = Range(pending)
    BY <1>6 DEF Range
  <2>2. AllWanted'
    BY <1>3, <1>4, <1>6, <2>1 DEF Tidy, AllWanted, SubscribedIsWanted
  <2>3. InOnePlace'
    BY <1>3, <1>6, <2>1 DEF Tidy, InOnePlace
  <2> QED
    BY <2>2, <2>3 DEF Tidy
<1>7. CASE CloseUnopened(c)
  <2>1. PICK order \in Bijection(1..Cardinality(clients[c].subs), clients[c].subs) :
           pending' = pending \o order
    BY <1>7 DEF CloseUnopened
  <2>2. todo' = {}
    BY <1>2, <1>7 DEF CloseUnopened
  <2>3. order \in Seq(Subscriptions) /\ Range(order) = clients[c].subs
    BY <1>1, OrderIsSequence
  <2>4. Distinct(order)
    BY DEF Bijection, Injection, IsInjective, Distinct
  <2>5. Range(pending) \cap Range(order) = {}
    BY <2>3 DEF Tidy, InOnePlace
  <2>6. Range(pending') = Range(pending) \cup clients[c].subs
    BY <1>1, <2>1, <2>3, RangeOfAppended, ZenonT(60)
  <2>7. Distinct(pending')
    BY <1>1, <2>1, <2>3, <2>4, <2>5, DistinctAppended, Zenon
  <2>8. Range(pending)' = Range(pending')
    BY DEF Range
  <2>9. AllWanted'
    BY <1>3, <1>4, <2>2, <2>6, <2>8 DEF Tidy, AllWanted, SubscribedIsWanted
  <2>10. InOnePlace'
    BY <1>3, <2>2, <2>6, <2>7, <2>8 DEF Tidy, InOnePlace, Distinct
  <2> QED
    BY <2>9, <2>10 DEF Tidy
<1> QED
  BY <1>5, <1>6, <1>7 DEF OnConnectionClose

LEMMA NextTidy ==
    ASSUME "early release" \notin Faults, Tidy, [Next]_vars
    PROVE  Tidy'
<1>0. TypeOK /\ TypeOK'
  BY NextTypeOK DEF Tidy
<1>1. CASE RetryTimeout
  <2>1. \A c \in Clients : clients'[c].subs = clients[c].subs
    BY <1>0, <1>1, AddClientMovesNone DEF RetryTimeout, TypeOK
  <2> QED
    BY <1>0, <1>1, <2>1, KeepsTidy DEF RetryTimeout
<1>2. CASE Stop
  <2>1. \A c \in Clients : clients'[c].subs = clients[c].subs
    BY <1>0, <1>2, StopMovesNone
  <2> QED
    BY <1>0, <1>2, <2>1, KeepsTidy DEF Stop
<1>3. ASSUME NEW c \in Clients, SocketOpens(c) \/ SocketCloses(c)
      PROVE  Tidy'
  <2>1. PICK x \in {"up", "dropped", "failed"} :
           clients' = [clients EXCEPT ![c].socket = x]
    BY <1>3 DEF SocketOpens, SocketCloses
  <2>2. \A d \in Clients : clients'[d].subs = clients[d].subs
    BY <1>0, <2>1 DEF TypeOK, Client
  <2> QED
    BY <1>0, <1>3, <2>2, KeepsTidy DEF SocketOpens, SocketCloses
<1>4. CASE UNCHANGED vars
  BY <1>0, <1>4, KeepsTidy DEF vars
<1> QED
  BY <1>0, <1>1, <1>2, <1>3, <1>4, SubscribeTopicTidy, UnsubscribeTopicTidy,
     SubscribeTidy, OnConnectionOpenTidy, OnConnectionCloseTidy
     DEF Next, GuiStep, SocketStep

LEMMA InitTidy == Init => Tidy
<1> SUFFICES ASSUME Init PROVE AllWanted /\ InOnePlace
  BY InitTypeOK DEF Tidy
<1>1. pending = <<>> /\ todo = {}
  BY DEF Init
<1>2. \A c \in Clients : clients[c].subs = {}
  BY GoneAndNew DEF Init
<1>3. DOMAIN pending = {} /\ Range(pending) = {}
  <2>1. pending \in Seq(Subscriptions) /\ Len(pending) = 0
    BY <1>1, EmptySeq, Zenon
  <2>2. DOMAIN pending = 1..0
    BY <2>1, LenProperties, Zenon
  <2>3. DOMAIN pending = {}
    BY <2>2
  <2> QED
    BY <2>3, Zenon DEF Range
<1>4. AllWanted
  BY <1>1, <1>2, <1>3, Zenon DEF AllWanted, SubscribedIsWanted
<1>5. InOnePlace
  BY <1>1, <1>2, <1>3 DEF InOnePlace
<1> QED
  BY <1>4, <1>5

LEMMA AlwaysTidy ==
    ASSUME "early release" \notin Faults
    PROVE  Spec => []Tidy
<1>1. Init => Tidy
  BY InitTidy
<1>2. Tidy /\ [Next]_vars => Tidy'
  BY NextTidy
<1> QED
  BY <1>1, <1>2, PTL DEF Spec

(* As long as no topic is dropped while one of its subscriptions waits, a   *)
(* subscription is never in two places, however often clients fail, fill up *)
(* and hand it on: unsubscribing it from the first client found is enough.  *)
THEOREM OnePlace ==
    ASSUME "early release" \notin Faults
    PROVE  Spec => []InOnePlace
<1>1. Tidy => InOnePlace
  BY DEF Tidy
<1> QED
  BY <1>1, AlwaysTidy, PTL

(* Under the same condition no client keeps a subscription of a topic that  *)
(* was unsubscribed.                                                        *)
THEOREM OnlyWantedSubscribed ==
    ASSUME "early release" \notin Faults
    PROVE  Spec => []SubscribedIsWanted
<1>1. Tidy => SubscribedIsWanted
  BY DEF Tidy, AllWanted
<1> QED
  BY <1>1, AlwaysTidy, PTL

=============================================================================
