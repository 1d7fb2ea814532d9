-------------------------- MODULE EventSubCalmProofs --------------------------
(***************************************************************************)
(* Proofs about EventSubController in a calm environment: callers keep one *)
(* account and release settled requests, no listener migrates, and a       *)
(* session drops only while no Helix request depends on it.  The           *)
(* assertions of the controller then hold and, if Helix never answers      *)
(* "forbidden", each attempt to subscribe has exactly one driver, for any  *)
(* requests, users, sessions and bounds.                                   *)
(***************************************************************************)
EXTENDS EventSubControllerProofs

CalmEnvironment == Faults \subseteq {"drop"}

-----------------------------------------------------------------------------
(* The inductive invariant.  Drivers(r) counts things of five kinds; here   *)
(* each kind is a predicate of its own, since a step takes the attempt from *)
(* one kind to another.                                                     *)

NoHandler(r) == \A i \in DOMAIN ready : ready[i].request # r

OneHandler(r) ==
    \E i \in DOMAIN ready :
        /\ ready[i].request = r
        /\ \A j \in DOMAIN ready : ready[j].request = r => j = i

Fires(r) == \E i \in DOMAIN ready : ready[i].kind = "fire" /\ ready[i].request = r

NoCreate(r) == \A c \in Sessions \cup {None} : creates[r][c] = 0

OneCreate(r) ==
    \E s \in Sessions :
        /\ creates[r][s] = 1
        /\ \A c \in Sessions \cup {None} : c # s => creates[r][c] = 0

Armed(r) == subscriptions[r].retryTimer = "armed"

Undriven(r) ==
    NoHandler(r) /\ NoCreate(r) /\ ~Armed(r) /\ io.request # r /\ r \notin io.rest

Driven(r) ==
    \/ OneHandler(r) /\ NoCreate(r) /\ ~Armed(r) /\ io.request # r /\ r \notin io.rest
    \/ NoHandler(r) /\ OneCreate(r) /\ ~Armed(r) /\ io.request # r /\ r \notin io.rest
    \/ NoHandler(r) /\ NoCreate(r) /\ Armed(r) /\ io.request # r /\ r \notin io.rest
    \/ NoHandler(r) /\ NoCreate(r) /\ ~Armed(r) /\ io.request = r /\ r \notin io.rest
    \/ NoHandler(r) /\ NoCreate(r) /\ ~Armed(r) /\ io.request # r /\ r \in io.rest

(* An attempt in progress has one driver, unless Helix has forbidden it;    *)
(* anything else has none.                                                  *)
Attempted(r) ==
    /\ IF InProgress(r) THEN Driven(r) \/ ("forbidden" \in Answers /\ Undriven(r))
                        ELSE Undriven(r)
    /\ Fires(r) <=> subscriptions[r].retryTimer = "expired"

(* The delete request belongs to the state, which has given up its ID.      *)
Deleted(r) ==
    /\ deletes[r] = IF subscriptions[r].state = "Unsubscribing" THEN 1 ELSE 0
    /\ subscriptions[r].state = "Unsubscribing" => ~subscriptions[r].hasID

(* What is attempted or subscribed is held. *)
HeldWhileUsed(r) ==
    InProgress(r) \/ subscriptions[r].state = "Subscribed" => handles[r] > 0

(* The entry and the sessions point at each other. *)
Linked(r) ==
    /\ subscriptions[r].connection # None =>
          /\ r \in known
          /\ subscriptions[r].state \in {"Subscribed", "Unsubscribing"}
    /\ \A s \in Sessions : r \in sessions[s].subs <=> subscriptions[r].connection = s

Regular(r) == Attempted(r) /\ Deleted(r) /\ HeldWhileUsed(r) /\ Linked(r)

OneAccount ==
    \A q, r \in Requests : handles[q] > 0 /\ handles[r] > 0 => Owner[q] = Owner[r]

(* What a session carries when a create request for it is answered is of    *)
(* the same user: nothing else can have been added in between.              *)
CreatesFit ==
    \A r \in Requests, s \in Sessions :
        creates[r][s] > 0 => \A q \in sessions[s].subs : Owner[q] = Owner[r]

CalmInv ==
    /\ OneUserPerSession
    /\ Running => /\ CreatesFit
                  /\ OneAccount
                  /\ \A r \in Requests : Regular(r)

LEMMA NoneIsNoSession == None \notin Sessions
BY ConstantsAssumption

(* The properties proved for any environment, which the steps rely on.      *)
Known ==
    /\ TypeOK
    /\ HandlesAreCounted
    /\ StateIsBacked
    /\ ConnectionListsRequest
    /\ BoundWhileInUse

-----------------------------------------------------------------------------
(* The queue of the io_context *)

(* Nothing about q changes in the queue. *)
SameQueue(q) ==
    /\ NoHandler(q) => NoHandler(q)'
    /\ OneHandler(q) => OneHandler(q)'
    /\ Fires(q)' <=> Fires(q)

LEMMA UnchangedQueue ==
    ASSUME UNCHANGED ready, NEW q
    PROVE  SameQueue(q)
BY DEF SameQueue, NoHandler, OneHandler, Fires

(* Posting a handler for r. *)
LEMMA Posting ==
    ASSUME TypeOK, NEW r \in Requests, NEW kind \in {"subscribe", "fire", "retry"},
           Post(kind, r), NEW q \in Requests
    PROVE  /\ q # r => SameQueue(q)
           /\ NoHandler(r) => OneHandler(r)'
           /\ Fires(r)' <=> Fires(r) \/ kind = "fire"
<1> DEFINE h == [kind |-> kind, request |-> r]
           n == Len(ready)
<1>1. h.kind = kind /\ h.request = r
  OBVIOUS
<1>2. ready' = Append(ready, h) /\ ready \in Seq(Handler)
  BY DEF Post, TypeOK
<1>3. n \in Nat /\ DOMAIN ready = 1..n
  BY <1>2
<1>h. h \in Handler
  BY DEF Handler
<1> HIDE DEF h
<1>4. /\ DOMAIN ready' = 1..(n + 1)
      /\ \A i \in 1..n : ready'[i] = ready[i]
      /\ ready'[n + 1] = h
  BY <1>2, <1>h
<1> HIDE DEF n
<1>5. \A i \in 1..(n + 1) : i \in 1..n \/ i = n + 1
  BY <1>3
<1>6. (n + 1) \in 1..(n + 1) /\ (n + 1) \notin 1..n /\ 1..n \subseteq 1..(n + 1)
  BY <1>3
<1>7. q # r => SameQueue(q)
  <2> SUFFICES ASSUME q # r PROVE SameQueue(q)
    OBVIOUS
  <2>1. NoHandler(q) => NoHandler(q)'
    BY <1>1, <1>3, <1>4, <1>5 DEF NoHandler
  <2>2. OneHandler(q) => OneHandler(q)'
    BY <1>1, <1>3, <1>4, <1>5, <1>6 DEF OneHandler
  <2>3. Fires(q)' <=> Fires(q)
    BY <1>1, <1>3, <1>4, <1>5, <1>6 DEF Fires
  <2> QED
    BY <2>1, <2>2, <2>3 DEF SameQueue
<1>8. NoHandler(r) => OneHandler(r)'
  BY <1>1, <1>3, <1>4, <1>5, <1>6 DEF NoHandler, OneHandler
<1>9. Fires(r)' <=> Fires(r) \/ kind = "fire"
  BY <1>1, <1>3, <1>4, <1>5, <1>6 DEF Fires
<1> QED
  BY <1>7, <1>8, <1>9

(* The first handler, for r, leaves the queue. *)
LEMMA Running1st ==
    ASSUME TypeOK, ready # <<>>, ready' = Tail(ready),
           NEW r \in Requests, Head(ready).request = r, NEW q \in Requests
    PROVE  /\ q # r => SameQueue(q)
           /\ ~NoHandler(r)
           /\ OneHandler(r) => /\ NoHandler(r)' /\ ~Fires(r)'
                               /\ Fires(r) <=> Head(ready).kind = "fire"
<1> DEFINE n == Len(ready)
<1>1. ready \in Seq(Handler)
  BY DEF TypeOK
<1>2. n \in Nat /\ n > 0 /\ DOMAIN ready = 1..n /\ Head(ready) = ready[1]
  BY <1>1
<1>3. DOMAIN ready' = 1..(n - 1) /\ \A i \in 1..(n - 1) : ready'[i] = ready[i + 1]
  BY <1>1, <1>2
<1> HIDE DEF n
<1>4. /\ 1 \in 1..n
      /\ \A i \in 1..(n - 1) : (i + 1) \in 1..n /\ i + 1 # 1
      /\ \A i \in 1..n : i = 1 \/ ((i - 1) \in 1..(n - 1) /\ (i - 1) + 1 = i)
      /\ \A i, j \in 1..(n - 1) : i + 1 = j + 1 => i = j
  BY <1>2
<1>5. ready[1].request = r
  BY <1>2
<1>6. q # r => SameQueue(q)
  <2> SUFFICES ASSUME q # r PROVE SameQueue(q)
    OBVIOUS
  <2>1. NoHandler(q) => NoHandler(q)'
    BY <1>2, <1>3, <1>4 DEF NoHandler
  <2>2. OneHandler(q) => OneHandler(q)'
    <3> SUFFICES ASSUME NEW i \in 1..n, ready[i].request = q,
                        \A j \in 1..n : ready[j].request = q => j = i
                 PROVE  OneHandler(q)'
      BY <1>2 DEF OneHandler
    <3>1. (i - 1) \in 1..(n - 1) /\ ready'[i - 1] = ready[i]
      BY <1>3, <1>4, <1>5
    <3>2. ASSUME NEW j \in 1..(n - 1), ready'[j].request = q
          PROVE  j = i - 1
      <4>1. (j + 1) \in 1..n
        BY <1>4
      <4>2. ready[j + 1].request = q
        BY <1>3, <3>2
      <4>3. j + 1 = i
        BY <4>1, <4>2
      <4> QED
        BY <4>3
    <3>3. (i - 1) \in DOMAIN ready' /\ ready'[i - 1].request = q
      BY <1>3, <3>1
    <3>4. \A j \in DOMAIN ready' : ready'[j].request = q => j = i - 1
      BY <1>3, <3>2
    <3> QED
      BY <3>3, <3>4 DEF OneHandler
  <2>3. Fires(q)' <=> Fires(q)
    <3>1. Fires(q)' => Fires(q)
      BY <1>2, <1>3, <1>4 DEF Fires
    <3>2. ASSUME NEW i \in 1..n, ready[i].kind = "fire", ready[i].request = q
          PROVE  Fires(q)'
      <4>1. (i - 1) \in 1..(n - 1) /\ ready'[i - 1] = ready[i]
        BY <1>3, <1>4, <1>5, <3>2
      <4> QED
        BY <1>3, <3>2, <4>1 DEF Fires
    <3> QED
      BY <1>2, <3>1, <3>2 DEF Fires
  <2> QED
    BY <2>1, <2>2, <2>3 DEF SameQueue
<1>7. ~NoHandler(r)
  BY <1>2, <1>4, <1>5 DEF NoHandler
<1>8. ASSUME OneHandler(r)
      PROVE  /\ NoHandler(r)' /\ ~Fires(r)'
             /\ Fires(r) <=> Head(ready).kind = "fire"
  <2>1. \A j \in 1..n : ready[j].request = r => j = 1
    BY <1>2, <1>4, <1>5, <1>8 DEF OneHandler
  <2>2. NoHandler(r)'
    <3>1. ASSUME NEW j \in 1..(n - 1) PROVE ready'[j].request # r
      <4>1. (j + 1) \in 1..n /\ j + 1 # 1 /\ ready'[j] = ready[j + 1]
        BY <1>3, <1>4
      <4> QED
        BY <2>1, <4>1
    <3> QED
      BY <1>3, <3>1 DEF NoHandler
  <2>3. ~Fires(r)'
    BY <2>2 DEF NoHandler, Fires
  <2>4. Fires(r) <=> Head(ready).kind = "fire"
    BY <1>2, <1>4, <1>5, <2>1 DEF Fires
  <2> QED
    BY <2>2, <2>3, <2>4
<1> QED
  BY <1>6, <1>7, <1>8

-----------------------------------------------------------------------------
(* The create requests in flight *)

LEMMA SameCreates ==
    ASSUME NEW q, creates'[q] = creates[q]
    PROVE  (NoCreate(q)' <=> NoCreate(q)) /\ (OneCreate(q)' <=> OneCreate(q))
BY DEF NoCreate, OneCreate

(* A create request is made for r, *)
LEMMA CreateAdded ==
    ASSUME TypeOK, NEW r \in Requests, NEW s \in Sessions,
           creates' = [creates EXCEPT ![r][s] = @ + 1], NEW q \in Requests
    PROVE  /\ q # r => creates'[q] = creates[q]
           /\ NoCreate(r) => OneCreate(r)'
<1>1. creates \in [Requests -> [Sessions \cup {None} -> Nat]]
  BY DEF TypeOK
<1>2. q # r => creates'[q] = creates[q]
  BY <1>1
<1>3. \A c \in Sessions \cup {None} :
         creates'[r][c] = IF c = s THEN creates[r][s] + 1 ELSE creates[r][c]
  BY <1>1
<1>4. NoCreate(r) => OneCreate(r)'
  BY <1>3 DEF NoCreate, OneCreate
<1> QED
  BY <1>2, <1>4

(* or answered. *)
LEMMA CreateTaken ==
    ASSUME TypeOK, NEW r \in Requests, NEW c \in Sessions \cup {None},
           creates[r][c] > 0, creates' = [creates EXCEPT ![r][c] = @ - 1],
           NEW q \in Requests
    PROVE  /\ q # r => creates'[q] = creates[q]
           /\ ~NoCreate(r)
           /\ OneCreate(r) => NoCreate(r)' /\ c \in Sessions
<1>1. creates \in [Requests -> [Sessions \cup {None} -> Nat]]
  BY DEF TypeOK
<1>2. q # r => creates'[q] = creates[q]
  BY <1>1
<1>3. \A b \in Sessions \cup {None} :
         creates'[r][b] = IF b = c THEN creates[r][c] - 1 ELSE creates[r][b]
  BY <1>1
<1>4. ~NoCreate(r)
  BY DEF NoCreate
<1>5. ASSUME OneCreate(r)
      PROVE  NoCreate(r)' /\ c \in Sessions
  <2>1. PICK s \in Sessions :
           /\ creates[r][s] = 1
           /\ \A b \in Sessions \cup {None} : b # s => creates[r][b] = 0
    BY <1>5 DEF OneCreate
  <2>2. c = s
    BY <2>1
  <2> QED
    BY <1>3, <2>1, <2>2 DEF NoCreate
<1> QED
  BY <1>2, <1>4, <1>5

(* A session ends that no create request names. *)
LEMMA NothingOrphaned ==
    ASSUME TypeOK, NEW s \in Sessions, NEW q \in Requests, creates[q][s] = 0,
           creates' = Orphaned(s)
    PROVE  creates'[q] = creates[q]
<1>1. creates[q] \in [Sessions \cup {None} -> Nat]
  BY DEF TypeOK
<1>2. creates'[q] = [creates[q] EXCEPT ![s] = 0, ![None] = @ + creates[q][s]]
  BY DEF Orphaned
<1>3. creates[q][None] + creates[q][s] = creates[q][None]
  BY <1>1
<1> QED
  BY <1>1, <1>2, <1>3

-----------------------------------------------------------------------------
(* What a step leaves alone *)

SameDrivers(q) ==
    /\ SameQueue(q)
    /\ creates'[q] = creates[q]
    /\ io'.request = q <=> io.request = q
    /\ q \in io'.rest <=> q \in io.rest

SameLinks(q) ==
    /\ q \in known => q \in known'
    /\ \A s \in Sessions : q \in sessions'[s].subs <=> q \in sessions[s].subs

Quiet(q) ==
    /\ subscriptions'[q] = subscriptions[q]
    /\ handles'[q] = handles[q]
    /\ deletes'[q] = deletes[q]
    /\ SameDrivers(q)
    /\ SameLinks(q)

(* The kinds of drivers exclude each other only as far as each is one. *)
LEMMA DriversKept ==
    ASSUME NEW q, SameDrivers(q), Armed(q)' <=> Armed(q)
    PROVE  (Driven(q) => Driven(q)') /\ (Undriven(q) => Undriven(q)')
BY SameCreates DEF SameDrivers, SameQueue, Driven, Undriven

LEMMA QuietStep ==
    ASSUME NEW q \in Requests, Regular(q), Quiet(q)
    PROVE  Regular(q)'
<1>1. Attempted(q)'
  <2>1. Attempted(q)
    BY DEF Regular
  <2>2. (Armed(q)' <=> Armed(q)) /\ (InProgress(q)' <=> InProgress(q))
    BY DEF Quiet, Armed, InProgress
  <2>3. (Driven(q) => Driven(q)') /\ (Undriven(q) => Undriven(q)')
    BY <2>2, DriversKept DEF Quiet
  <2>4. (Fires(q)' <=> Fires(q)) /\ subscriptions'[q] = subscriptions[q]
    BY DEF Quiet, SameDrivers, SameQueue
  <2> QED
    BY <2>1, <2>2, <2>3, <2>4 DEF Attempted
<1>2. Deleted(q)' /\ HeldWhileUsed(q)'
  BY DEF Regular, Quiet, Deleted, HeldWhileUsed, InProgress
<1>3. Linked(q)'
  BY DEF Regular, Quiet, Linked, SameLinks
<1> QED
  BY <1>1, <1>2, <1>3 DEF Regular

-----------------------------------------------------------------------------
(* The steps of the handles *)

(* Another entry is written or erased while the sessions stay. *)
LEMMA OthersQuiet ==
    ASSUME TypeOK, NEW r \in Requests, NEW q \in Requests, q # r,
           EraseSubscription(r) \/ \E e : SetSubscription(r, e),
           handles'[q] = handles[q], deletes'[q] = deletes[q],
           SameDrivers(q),
           \A s \in Sessions : q \in sessions'[s].subs <=> q \in sessions[s].subs
    PROVE  Quiet(q)
<1>1. subscriptions'[q] = subscriptions[q]
  BY Written, Erased
<1>2. q \in known => q \in known'
  BY DEF SetSubscription, EraseSubscription
<1> QED
  BY <1>1, <1>2 DEF Quiet, SameLinks

(* An entry that is not in progress has no timer. *)
LEMMA NoTimer ==
    ASSUME TypeOK, NEW q \in Requests, Attempted(q), ~Armed(q), ~Fires(q)
    PROVE  subscriptions[q].retryTimer = "none"
<1>1. subscriptions[q].retryTimer \in {"none", "armed", "expired"}
  BY EntryType DEF Subscription
<1> QED
  BY <1>1 DEF Attempted, Armed

LEMMA QueueOfOne ==
    ASSUME NEW q, NoHandler(q)
    PROVE  ~Fires(q)
BY DEF NoHandler, Fires

LEMMA SubscribeRegular ==
    ASSUME Known, NEW r \in Requests, NEW q \in Requests, Regular(q), Subscribe(r)
    PROVE  Regular(q)'
<1> DEFINE need == NeedToSubscribe(subscriptions[r].state)
           e == [subscriptions[r] EXCEPT !.state = IF need THEN "Subscribing" ELSE @,
                                         !.refCount = @ + 1]
<1>1. /\ e.state = IF need THEN "Subscribing" ELSE subscriptions[r].state
      /\ e.hasID = subscriptions[r].hasID
      /\ e.connection = subscriptions[r].connection
      /\ e.retryTimer = subscriptions[r].retryTimer
  BY EntryType DEF Known, Subscription
<1>2. /\ SetSubscription(r, e)
      /\ handles' = [handles EXCEPT ![r] = @ + 1]
      /\ IF need THEN Post("subscribe", r) ELSE UNCHANGED ready
      /\ UNCHANGED <<sessions, io, creates, deletes>>
  BY DEF Subscribe
<1>3. need <=> subscriptions[r].state \in {"Unsubscribed", "Failed"}
  BY DEF NeedToSubscribe
<1> HIDE DEF e, need
<1>t. TypeOK
  BY DEF Known
<1>4. CASE q # r
  <2>1. SameQueue(q)
    BY <1>2, <1>4, <1>t, Posting, UnchangedQueue
  <2>2. SameDrivers(q) /\ handles'[q] = handles[q] /\ deletes'[q] = deletes[q]
    BY <1>2, <1>4, <1>t, <2>1 DEF SameDrivers, TypeOK
  <2> QED
    BY <1>2, <1>4, <1>t, <2>2, OthersQuiet, QuietStep
<1>5. CASE q = r
  <2>1. subscriptions'[q] = e
    BY <1>2, <1>5, <1>t, Written
  <2>2. Attempted(q) /\ Deleted(q) /\ HeldWhileUsed(q) /\ Linked(q)
    BY DEF Regular
  <2>3. handles'[q] > 0
    BY <1>2, <1>5, <1>t DEF TypeOK
  <2>4. Fires(q)' <=> Fires(q)
    BY <1>2, <1>5, <1>t, Posting, UnchangedQueue DEF SameQueue
  <2>5. (NoCreate(q)' <=> NoCreate(q)) /\ (OneCreate(q)' <=> OneCreate(q))
    BY <1>2, SameCreates
  <2>6. Attempted(q)'
    <3>1. CASE need
      <4>1. ~InProgress(q) /\ InProgress(q)'
        BY <1>1, <1>3, <1>5, <2>1, <3>1 DEF InProgress
      <4>2. Undriven(q)
        BY <2>2, <4>1 DEF Attempted
      <4>3. OneHandler(q)'
        BY <1>2, <1>5, <1>t, <3>1, <4>2, Posting DEF Undriven
      <4>4. Driven(q)'
        BY <1>1, <1>2, <1>5, <2>1, <2>5, <4>2, <4>3 DEF Undriven, Driven, Armed
      <4> QED
        BY <1>1, <1>5, <2>1, <2>2, <2>4, <4>1, <4>4 DEF Attempted
    <3>2. CASE ~need
      <4>1. SameDrivers(q)
        BY <1>2, <3>2, UnchangedQueue DEF SameDrivers
      <4>2. (InProgress(q)' <=> InProgress(q)) /\ (Armed(q)' <=> Armed(q))
        BY <1>1, <1>5, <2>1, <3>2 DEF InProgress, Armed
      <4> QED
        BY <1>1, <1>5, <2>1, <2>2, <2>4, <4>1, <4>2, DriversKept DEF Attempted
    <3> QED
      BY <3>1, <3>2
  <2>7. Deleted(q)'
    BY <1>1, <1>2, <1>3, <1>5, <2>1, <2>2 DEF Deleted
  <2>8. HeldWhileUsed(q)'
    BY <2>3 DEF HeldWhileUsed
  <2>9. Linked(q)'
    BY <1>1, <1>2, <1>3, <1>5, <2>1, <2>2 DEF Linked, SetSubscription
  <2> QED
    BY <2>6, <2>7, <2>8, <2>9 DEF Regular
<1> QED
  BY <1>4, <1>5

LEMMA RemoveRefRegular ==
    ASSUME CalmEnvironment, Known, NEW r \in Requests, NEW q \in Requests,
           Regular(q), RemoveRef(r)
    PROVE  Regular(q)'
<1> DEFINE e == [subscriptions[r] EXCEPT !.refCount = @ - 1]
           released == [e EXCEPT !.retryTimer = "none"]
           unsubscribing == [released EXCEPT !.state = "Unsubscribing",
                                             !.hasID = FALSE]
           before == subscriptions[r]
<1>t. TypeOK /\ subscriptions[r] \in Subscription
  BY EntryType DEF Known
<1>1. /\ e.refCount = before.refCount - 1 /\ e.state = before.state
      /\ e.hasID = before.hasID /\ e.connection = before.connection
      /\ e.retryTimer = before.retryTimer
      /\ released.state = before.state /\ released.hasID = before.hasID
      /\ released.connection = before.connection /\ released.retryTimer = "none"
      /\ unsubscribing.state = "Unsubscribing" /\ ~unsubscribing.hasID
      /\ unsubscribing.connection = before.connection
      /\ unsubscribing.retryTimer = "none"
  BY <1>t DEF Subscription
<1>2. /\ Running /\ handles[r] > 0
      /\ handles' = [handles EXCEPT ![r] = @ - 1]
      /\ \/ e.refCount > 0 /\ SetSubscription(r, e) /\ UNCHANGED deletes
         \/ /\ e.refCount <= 0 /\ MayRelease(r) /\ ~e.hasID
            /\ SetSubscription(r, released) /\ UNCHANGED deletes
         \/ /\ e.refCount <= 0 /\ MayRelease(r) /\ e.hasID
            /\ SetSubscription(r, unsubscribing)
            /\ deletes' = [deletes EXCEPT ![r] = @ + 1]
      /\ UNCHANGED <<sessions, ready, io, creates>>
  BY DEF RemoveRef
<1> HIDE DEF e, released, unsubscribing
<1>3. before.refCount = handles[r] /\ before.refCount \in Int
  BY <1>2, <1>t DEF Known, HandlesAreCounted, Subscription
<1>4. SameDrivers(q)
  BY <1>2, UnchangedQueue DEF SameDrivers
<1>5. CASE q # r
  <2>1. handles'[q] = handles[q] /\ deletes'[q] = deletes[q]
    BY <1>2, <1>5, <1>t DEF TypeOK
  <2> QED
    BY <1>2, <1>4, <1>5, <1>t, <2>1, OthersQuiet, QuietStep
<1>6. CASE q = r
  <2>1. Attempted(q) /\ Deleted(q) /\ HeldWhileUsed(q) /\ Linked(q)
    BY DEF Regular
  <2>2. q \in known' /\ sessions' = sessions
    BY <1>2, <1>6 DEF SetSubscription
  <2>3. handles'[q] = handles[q] - 1
    BY <1>2, <1>6, <1>t DEF TypeOK
  <2>4. Fires(q)' <=> Fires(q)
    BY <1>4 DEF SameDrivers, SameQueue
  <2>5. CASE e.refCount > 0 /\ SetSubscription(r, e) /\ UNCHANGED deletes
    <3>1. subscriptions'[q] = e
      BY <1>6, <1>t, <2>5, Written
    <3>2. Attempted(q)'
      <4>1. (InProgress(q)' <=> InProgress(q)) /\ (Armed(q)' <=> Armed(q))
        BY <1>1, <1>6, <3>1 DEF InProgress, Armed
      <4> QED
        BY <1>1, <1>4, <1>6, <2>1, <2>4, <3>1, <4>1, DriversKept DEF Attempted
    <3>3. Deleted(q)' /\ Linked(q)'
      BY <1>1, <1>6, <2>1, <2>2, <2>5, <3>1 DEF Deleted, Linked
    <3>4. HeldWhileUsed(q)'
      <4>1. handles'[q] > 0
        BY <1>1, <1>3, <1>6, <2>3, <2>5
      <4> QED
        BY <4>1 DEF HeldWhileUsed
    <3> QED
      BY <3>2, <3>3, <3>4 DEF Regular
  <2>6. CASE e.refCount <= 0 /\ MayRelease(r)
    <3>1. ~InProgress(q)
      <4>1. "early release" \notin Faults
        BY DEF CalmEnvironment
      <4>2. ~(before.refCount > 1)
        BY <1>1, <1>3, <2>6
      <4> QED
        BY <1>6, <2>6, <4>1, <4>2 DEF MayRelease, InProgress
    <3>2. Undriven(q)
      BY <2>1, <3>1 DEF Attempted
    <3>3. subscriptions[q].retryTimer = "none" /\ ~Fires(q)
      BY <1>t, <2>1, <3>2, QueueOfOne, NoTimer DEF Undriven
    <3>4. ASSUME ~InProgress(q)', subscriptions'[q].retryTimer = "none"
          PROVE  Attempted(q)'
      <4>1. Armed(q)' <=> Armed(q)
        BY <3>3, <3>4 DEF Armed
      <4>2. Undriven(q)'
        BY <1>4, <3>2, <4>1, DriversKept
      <4> QED
        BY <2>4, <3>3, <3>4, <4>2 DEF Attempted
    <3>5. CASE ~e.hasID /\ SetSubscription(r, released) /\ UNCHANGED deletes
      <4>1. subscriptions'[q] = released
        BY <1>6, <1>t, <3>5, Written
      <4>2. before.state # "Subscribed"
        BY <1>1, <1>2, <1>6, <3>5 DEF Known, StateIsBacked
      <4>3. ~InProgress(q)'
        BY <1>1, <1>6, <3>1, <4>1 DEF InProgress
      <4>4. Attempted(q)'
        BY <1>1, <3>4, <4>1, <4>3
      <4>5. Deleted(q)' /\ HeldWhileUsed(q)' /\ Linked(q)'
        BY <1>1, <1>6, <2>1, <2>2, <3>5, <4>1, <4>2, <4>3
           DEF Deleted, HeldWhileUsed, Linked
      <4> QED
        BY <4>4, <4>5 DEF Regular
    <3>6. CASE /\ e.hasID /\ SetSubscription(r, unsubscribing)
               /\ deletes' = [deletes EXCEPT ![r] = @ + 1]
      <4>1. subscriptions'[q] = unsubscribing
        BY <1>6, <1>t, <3>6, Written
      <4>2. deletes'[q] = deletes[q] + 1
        BY <1>6, <1>t, <3>6 DEF TypeOK
      <4>3. deletes[q] = 0
        BY <1>1, <1>6, <2>1, <3>6 DEF Deleted
      <4>4. ~InProgress(q)'
        BY <1>1, <4>1 DEF InProgress
      <4>5. Attempted(q)'
        BY <1>1, <3>4, <4>1, <4>4
      <4>6. Deleted(q)' /\ HeldWhileUsed(q)' /\ Linked(q)'
        BY <1>1, <1>6, <2>1, <2>2, <4>1, <4>2, <4>3, <4>4
           DEF Deleted, HeldWhileUsed, Linked
      <4> QED
        BY <4>5, <4>6 DEF Regular
    <3> QED
      BY <1>1, <1>2, <1>3, <2>6, <3>5, <3>6
  <2> QED
    BY <1>2, <2>5, <2>6
<1> QED
  BY <1>5, <1>6

-----------------------------------------------------------------------------
(* The answers of Helix *)

(* Recording or removing r moves no other request. *)
LEMMA OthersListed ==
    ASSUME TypeOK, NEW r \in Requests, NEW c \in Sessions, NEW q \in Requests,
           q # r, sessions' = List(c, r) \/ sessions' = Delist(c, r),
           NEW s \in Sessions
    PROVE  q \in sessions'[s].subs <=> q \in sessions[s].subs
<1>1. CASE sessions' = List(c, r)
  BY <1>1, Listing
<1>2. CASE sessions' = Delist(c, r)
  BY <1>2, Delisting
<1> QED
  BY <1>1, <1>2

LEMMA DeleteAnsweredRegular ==
    ASSUME Known, Running, NEW r \in Requests, NEW q \in Requests, Regular(q),
           DeleteAnswered(r)
    PROVE  Regular(q)'
<1> DEFINE e == [subscriptions[r] EXCEPT !.state = "Subscribing",
                                         !.connection = None]
           before == subscriptions[r]
           c == subscriptions[r].connection
<1>t. /\ TypeOK /\ before \in Subscription
      /\ c \in Sessions \cup {None}
  BY EntryType DEF Known, Subscription
<1>1. /\ e.state = "Subscribing" /\ e.connection = None /\ e.hasID = before.hasID
      /\ e.retryTimer = before.retryTimer
      /\ FreshSubscription.state = "Unsubscribed"
      /\ FreshSubscription.connection = None
      /\ FreshSubscription.retryTimer = "none"
  BY <1>t DEF Subscription, FreshSubscription
<1>2. /\ deletes[r] > 0
      /\ deletes' = [deletes EXCEPT ![r] = @ - 1]
      /\ sessions' = IF c = None THEN sessions ELSE Delist(c, r)
      /\ \/ EraseSubscription(r) /\ UNCHANGED ready
         \/ /\ before.refCount # 0
            /\ SetSubscription(r, e) /\ Post("subscribe", r)
      /\ UNCHANGED <<handles, io, creates>>
  BY DEF DeleteAnswered
<1>3. before.refCount = handles[r] /\ handles[r] \in Nat
  BY <1>t DEF Known, HandlesAreCounted, TypeOK
<1> HIDE DEF e, c, before
<1>4. CASE q # r
  <2>1. SameQueue(q)
    BY <1>2, <1>4, <1>t, Posting, UnchangedQueue
  <2>2. SameDrivers(q) /\ handles'[q] = handles[q] /\ deletes'[q] = deletes[q]
    BY <1>2, <1>4, <1>t, <2>1 DEF SameDrivers, TypeOK
  <2>3. \A s \in Sessions : q \in sessions'[s].subs <=> q \in sessions[s].subs
    BY <1>2, <1>4, <1>t, OthersListed
  <2> QED
    BY <1>2, <1>4, <1>t, <2>2, <2>3, OthersQuiet, QuietStep
<1>5. CASE q = r
  <2>1. Attempted(q) /\ Deleted(q) /\ HeldWhileUsed(q) /\ Linked(q)
    BY DEF Regular
  <2>2. before.state = "Unsubscribing" /\ deletes'[q] = 0
    BY <1>2, <1>5, <1>t, <2>1 DEF Deleted, TypeOK, before
  <2>3. Undriven(q) /\ subscriptions[q].retryTimer = "none" /\ ~Fires(q)
    <3>1. ~InProgress(q)
      BY <1>5, <2>2 DEF InProgress, before
    <3>2. Undriven(q)
      BY <2>1, <3>1 DEF Attempted
    <3> QED
      BY <1>t, <2>1, <3>2, QueueOfOne, NoTimer DEF Undriven
  <2>4. \A s \in Sessions : q \notin sessions'[s].subs
    <3>1. CASE c = None
      BY <1>2, <1>5, <2>1, <3>1, NoneIsNoSession DEF Linked, c
    <3>2. CASE c \in Sessions
      <4>1. sessions' = Delist(c, r)
        BY <1>2, <3>2, NoneIsNoSession
      <4>2. \A s \in Sessions : s # c => q \notin sessions[s].subs
        BY <1>5, <2>1 DEF Linked, c
      <4> QED
        BY <1>5, <1>t, <3>2, <4>1, <4>2, Delisting
    <3> QED
      BY <1>t, <3>1, <3>2
  <2>5. (NoCreate(q)' <=> NoCreate(q)) /\ (OneCreate(q)' <=> OneCreate(q))
    BY <1>2, SameCreates
  <2>6. CASE EraseSubscription(r) /\ UNCHANGED ready
    <3>1. subscriptions'[q] = FreshSubscription
      BY <1>5, <1>t, <2>6, Erased
    <3>2. SameDrivers(q)
      BY <1>2, <2>6, UnchangedQueue DEF SameDrivers
    <3>3. Attempted(q)'
      <4>1. ~InProgress(q)' /\ (Armed(q)' <=> Armed(q))
        BY <1>1, <2>3, <3>1 DEF InProgress, Armed
      <4>2. Undriven(q)' /\ ~Fires(q)'
        BY <2>3, <3>2, <4>1, DriversKept DEF SameDrivers, SameQueue
      <4> QED
        BY <1>1, <3>1, <4>1, <4>2 DEF Attempted
    <3>4. Deleted(q)' /\ HeldWhileUsed(q)' /\ Linked(q)'
      <4>1. None \notin Sessions
        BY NoneIsNoSession
      <4> QED
        BY <1>1, <2>2, <2>4, <3>1, <4>1 DEF Deleted, HeldWhileUsed, InProgress, Linked
    <3> QED
      BY <3>3, <3>4 DEF Regular
  <2>7. CASE before.refCount # 0 /\ SetSubscription(r, e) /\ Post("subscribe", r)
    <3>1. subscriptions'[q] = e
      BY <1>5, <1>t, <2>7, Written
    <3>2. OneHandler(q)' /\ ~Fires(q)'
      BY <1>5, <1>t, <2>3, <2>7, Posting DEF Undriven
    <3>3. Attempted(q)'
      <4>1. InProgress(q)' /\ ~Armed(q)'
        BY <1>1, <1>5, <2>3, <3>1 DEF InProgress, Armed, before
      <4>2. Driven(q)'
        BY <1>2, <2>3, <2>5, <3>2, <4>1 DEF Driven, Undriven
      <4> QED
        BY <1>1, <1>5, <2>3, <3>1, <3>2, <4>1, <4>2 DEF Attempted, before
    <3>4. handles'[q] > 0
      BY <1>2, <1>3, <1>5, <2>7
    <3>5. Deleted(q)' /\ HeldWhileUsed(q)' /\ Linked(q)'
      <4>1. None \notin Sessions
        BY NoneIsNoSession
      <4> QED
        BY <1>1, <2>2, <2>4, <3>1, <3>4, <4>1 DEF Deleted, HeldWhileUsed, Linked
    <3> QED
      BY <3>3, <3>5 DEF Regular
  <2> QED
    BY <1>2, <2>6, <2>7
<1> QED
  BY <1>4, <1>5

LEMMA CreateAnsweredRegular ==
    ASSUME Known, Running, NEW r \in Requests,
           NEW c \in Sessions \cup {None}, NEW answer \in Answers,
           NEW q \in Requests, Regular(q), CreateAnswered(r, c, answer)
    PROVE  Regular(q)'
<1> DEFINE failed == [subscriptions[r] EXCEPT !.state = "Failed"]
           ok == Established(subscriptions[r], c)
           before == subscriptions[r]
<1>t. TypeOK /\ before \in Subscription
  BY EntryType DEF Known
<1>1. /\ failed.state = "Failed" /\ failed.connection = before.connection
      /\ failed.retryTimer = before.retryTimer
      /\ ok.state = "Subscribed" /\ ok.connection = c
      /\ ok.retryTimer = before.retryTimer
  BY <1>t DEF Subscription, Established
<1>2. /\ creates[r][c] > 0
      /\ creates' = [creates EXCEPT ![r][c] = @ - 1]
      /\ \/ /\ answer = "ok" /\ UNCHANGED ready
            /\ IF c # None THEN sessions' = List(c, r) /\ SetSubscription(r, ok)
                           ELSE UNCHANGED <<known, subscriptions, sessions>>
         \/ answer = "failed" /\ SetSubscription(r, failed) /\ UNCHANGED <<sessions, ready>>
         \/ "forbidden" \in Answers /\ UNCHANGED <<known, subscriptions, sessions, ready>>
         \/ Post("retry", r) /\ UNCHANGED <<known, subscriptions, sessions>>
      /\ UNCHANGED <<handles, io, deletes>>
  BY DEF CreateAnswered, MarkRequestSubscribed, MarkRequestFailed
<1> HIDE DEF failed, ok, before
<1>3. CASE q # r
  <2>1. SameQueue(q)
    BY <1>2, <1>3, <1>t, Posting, UnchangedQueue
  <2>2. creates'[q] = creates[q]
    BY <1>2, <1>3, <1>t, CreateTaken
  <2>3. SameDrivers(q) /\ handles'[q] = handles[q] /\ deletes'[q] = deletes[q]
    BY <1>2, <2>1, <2>2 DEF SameDrivers
  <2>4. \A s \in Sessions : q \in sessions'[s].subs <=> q \in sessions[s].subs
    BY <1>2, <1>3, <1>t, OthersListed
  <2>5. CASE UNCHANGED <<known, subscriptions>>
    <3>1. Quiet(q)
      BY <2>3, <2>4, <2>5 DEF Quiet, SameLinks
    <3> QED
      BY <3>1, QuietStep
  <2>6. CASE \E e : SetSubscription(r, e)
    BY <1>3, <1>t, <2>3, <2>4, <2>6, OthersQuiet, QuietStep
  <2> QED
    BY <1>2, <2>5, <2>6
<1>4. CASE q = r
  <2>1. Attempted(q) /\ Deleted(q) /\ HeldWhileUsed(q) /\ Linked(q)
    BY DEF Regular
  <2>2. InProgress(q) /\ Driven(q) /\ ~NoCreate(q)
    <3>1. ~NoCreate(q)
      BY <1>2, <1>4, <1>t, CreateTaken
    <3> QED
      BY <2>1, <3>1 DEF Attempted, Undriven
  <2>3. /\ NoHandler(q) /\ OneCreate(q) /\ ~Armed(q)
        /\ io.request # q /\ q \notin io.rest
    BY <2>2 DEF Driven
  <2>4. NoCreate(q)' /\ c \in Sessions /\ c # None
    BY <1>2, <1>4, <1>t, <2>3, CreateTaken, NoneIsNoSession
  <2>5. subscriptions[q].retryTimer = "none" /\ ~Fires(q)
    BY <1>t, <2>1, <2>3, QueueOfOne, NoTimer
  <2>6. /\ before.state \in {"Subscribing", "Retrying"} /\ deletes'[q] = 0
        /\ handles'[q] > 0 /\ before.connection = None
        /\ \A s \in Sessions : q \notin sessions[s].subs
    <3>1. before.state \in {"Subscribing", "Retrying"} /\ handles'[q] > 0
      BY <1>2, <1>4, <2>1, <2>2 DEF InProgress, HeldWhileUsed, before
    <3>2. before.connection = None
      BY <1>4, <2>1, <3>1 DEF Linked, before
    <3> QED
      BY <1>2, <1>4, <2>1, <3>1, <3>2, NoneIsNoSession DEF Deleted, Linked, before
  <2>settled. ASSUME UNCHANGED ready, ~InProgress(q)',
                     subscriptions'[q].retryTimer = "none"
              PROVE  Attempted(q)'
    <3>1. NoHandler(q)' /\ ~Fires(q)'
      BY <2>3, <2>5, <2>settled, UnchangedQueue DEF SameQueue
    <3>2. Undriven(q)'
      BY <1>2, <2>3, <2>4, <2>settled, <3>1 DEF Undriven, Armed
    <3> QED
      BY <2>settled, <3>1, <3>2 DEF Attempted
  <2>7. CASE answer = "ok" /\ UNCHANGED ready /\ sessions' = List(c, r)
             /\ SetSubscription(r, ok)
    <3>1. subscriptions'[q] = ok
      BY <1>4, <1>t, <2>7, Written
    <3>k. q \in known'
      BY <1>4, <2>7 DEF SetSubscription
    <3>2. ~InProgress(q)' /\ subscriptions'[q].retryTimer = "none"
      BY <1>1, <1>4, <2>5, <3>1 DEF InProgress, before
    <3>3. Deleted(q)' /\ HeldWhileUsed(q)'
      BY <1>1, <2>6, <3>1 DEF Deleted, HeldWhileUsed
    <3>4. Linked(q)'
      <4>1. \A s \in Sessions : q \in sessions'[s].subs <=> s = c
        BY <1>4, <1>t, <2>4, <2>6, <2>7, Listing
      <4> QED
        BY <1>1, <3>1, <3>k, <4>1 DEF Linked
    <3> QED
      BY <2>settled, <2>7, <3>2, <3>3, <3>4 DEF Regular
  <2>8. CASE SetSubscription(r, failed) /\ UNCHANGED <<sessions, ready>>
    <3>1. subscriptions'[q] = failed
      BY <1>4, <1>t, <2>8, Written
    <3>2. ~InProgress(q)' /\ subscriptions'[q].retryTimer = "none"
      BY <1>1, <1>4, <2>5, <3>1 DEF InProgress, before
    <3>3. None \notin Sessions
      BY NoneIsNoSession
    <3>4. Deleted(q)' /\ HeldWhileUsed(q)' /\ Linked(q)'
      BY <1>1, <2>6, <2>8, <3>1, <3>3 DEF Deleted, HeldWhileUsed, InProgress, Linked
    <3> QED
      BY <2>settled, <2>8, <3>2, <3>4 DEF Regular
  <2>9. CASE Post("retry", r) /\ UNCHANGED <<known, subscriptions, sessions>>
    <3>1. OneHandler(q)' /\ ~Fires(q)'
      BY <1>4, <1>t, <2>3, <2>5, <2>9, Posting
    <3>2. InProgress(q)' /\ ~Armed(q)'
      BY <2>2, <2>3, <2>9 DEF InProgress, Armed
    <3>3. Driven(q)'
      BY <1>2, <2>3, <2>4, <3>1, <3>2 DEF Driven
    <3>4. Attempted(q)'
      BY <2>5, <2>9, <3>1, <3>2, <3>3 DEF Attempted
    <3>5. Deleted(q)' /\ HeldWhileUsed(q)' /\ Linked(q)'
      BY <1>2, <2>1, <2>9 DEF Deleted, HeldWhileUsed, InProgress, Linked
    <3> QED
      BY <3>4, <3>5 DEF Regular
  <2>10. CASE "forbidden" \in Answers /\ UNCHANGED <<known, subscriptions, sessions, ready>>
    <3>1. NoHandler(q)' /\ ~Fires(q)'
      BY <2>3, <2>5, <2>10, UnchangedQueue DEF SameQueue
    <3>2. InProgress(q)' /\ ~Armed(q)'
      BY <2>2, <2>3, <2>10 DEF InProgress, Armed
    <3>3. Undriven(q)'
      BY <1>2, <2>3, <2>4, <3>1, <3>2 DEF Undriven
    <3>4. Attempted(q)'
      BY <2>5, <2>10, <3>1, <3>2, <3>3 DEF Attempted
    <3>5. Deleted(q)' /\ HeldWhileUsed(q)' /\ Linked(q)'
      BY <1>2, <2>1, <2>10 DEF Deleted, HeldWhileUsed, InProgress, Linked
    <3> QED
      BY <3>4, <3>5 DEF Regular
  <2> QED
    BY <1>2, <2>4, <2>7, <2>8, <2>9, <2>10
<1> QED
  BY <1>3, <1>4

-----------------------------------------------------------------------------
(* The steps of the IO thread *)

(* The request the IO thread is at: none between two steps. *)
LEMMA IoFields ==
    ASSUME TypeOK
    PROVE  /\ io.at = "idle" => io.request = None
           /\ io.at # "idle" => io.request \in Requests
           /\ DOMAIN io = {"at", "request", "rest"}
BY DEF TypeOK

(* Beginning an attempt changes at most the timer, *)
LEMMA Begun ==
    ASSUME TypeOK, NEW r \in Requests, NEW isRetry \in BOOLEAN,
           BeginSubscribe(r, isRetry)
    PROVE  /\ known' = known \cup {r}
           /\ \A q \in Requests : q # r => subscriptions'[q] = subscriptions[q]
           /\ subscriptions'[r].state = subscriptions[r].state
           /\ subscriptions'[r].hasID = subscriptions[r].hasID
           /\ subscriptions'[r].connection = subscriptions[r].connection
           /\ subscriptions'[r].retryTimer =
                  IF isRetry THEN "none" ELSE subscriptions[r].retryTimer
<1> DEFINE e == [subscriptions[r] EXCEPT
                    !.retryTimer = IF isRetry THEN "none" ELSE @]
<1>1. /\ e.state = subscriptions[r].state
      /\ e.hasID = subscriptions[r].hasID
      /\ e.connection = subscriptions[r].connection
      /\ e.retryTimer = IF isRetry THEN "none" ELSE subscriptions[r].retryTimer
  BY EntryType DEF Subscription
<1>2. SetSubscription(r, e)
  BY DEF BeginSubscribe
<1> HIDE DEF e
<1>3. known' = known \cup {r}
  BY <1>2 DEF SetSubscription
<1>4. subscriptions'[r] = e /\ \A q \in Requests : q # r => subscriptions'[q] = subscriptions[q]
  BY <1>2, Written
<1> QED
  BY <1>1, <1>3, <1>4

(* and retrying one that is held starts the timer. *)
LEMMA Retried ==
    ASSUME TypeOK, HandlesAreCounted, Running, NEW r \in Requests,
           handles[r] > 0, RetrySubscription(r)
    PROVE  /\ known' = known \cup {r}
           /\ \A q \in Requests : q # r => subscriptions'[q] = subscriptions[q]
           /\ subscriptions'[r].state = "Retrying"
           /\ subscriptions'[r].hasID = subscriptions[r].hasID
           /\ subscriptions'[r].connection = subscriptions[r].connection
           /\ subscriptions'[r].retryTimer = "armed"
<1> DEFINE e == [subscriptions[r] EXCEPT !.state = "Retrying",
                                         !.retryTimer = "armed"]
<1>1. /\ e.state = "Retrying"
      /\ e.hasID = subscriptions[r].hasID
      /\ e.connection = subscriptions[r].connection
      /\ e.retryTimer = "armed"
  BY EntryType DEF Subscription
<1>2. subscriptions[r].refCount # 0
  BY DEF HandlesAreCounted, TypeOK
<1>3. SetSubscription(r, e)
  BY <1>2 DEF RetrySubscription
<1> HIDE DEF e
<1>4. known' = known \cup {r}
  BY <1>3 DEF SetSubscription
<1>5. subscriptions'[r] = e /\ \A q \in Requests : q # r => subscriptions'[q] = subscriptions[q]
  BY <1>3, Written
<1> QED
  BY <1>1, <1>4, <1>5

(* The step that takes the IO thread to r, by a handler or after a loss,    *)
(* or back from it, does not touch another entry or a session.              *)
LEMMA OnlyFor ==
    ASSUME NEW r, NEW q \in Requests, q # r, Regular(q),
           subscriptions'[q] = subscriptions[q], known' = known \cup {r},
           UNCHANGED <<handles, sessions, deletes>>, SameDrivers(q)
    PROVE  Regular(q)'
<1>1. Quiet(q)
  BY DEF Quiet, SameLinks
<1> QED
  BY <1>1, QuietStep

(* In progress before and after, an entry keeps all but its attempt. *)
LEMMA OnlyAttempt ==
    ASSUME NEW q \in Requests, Regular(q), InProgress(q), InProgress(q)',
           subscriptions'[q].hasID = subscriptions[q].hasID,
           subscriptions'[q].connection = subscriptions[q].connection,
           UNCHANGED <<handles, sessions, deletes>>
    PROVE  Deleted(q)' /\ HeldWhileUsed(q)' /\ Linked(q)'
<1>1. Deleted(q)' /\ HeldWhileUsed(q)'
  BY DEF Regular, Deleted, HeldWhileUsed, InProgress
<1>2. subscriptions[q].connection = None
  BY DEF Regular, Linked, InProgress
<1>3. Linked(q)'
  BY <1>2 DEF Regular, Linked
<1> QED
  BY <1>1, <1>3

LEMMA RunHandlerRegular ==
    ASSUME Known, Running, NEW q \in Requests, \A p \in Requests : Regular(p),
           RunHandler
    PROVE  Regular(q)'
<1>t. TypeOK
  BY DEF Known
<1>0. Head(ready) \in Handler /\ ready # <<>> /\ ready' = Tail(ready)
  BY <1>t DEF RunHandler, TypeOK
<1>1. PICK r \in Requests : Head(ready).request = r
  BY <1>0 DEF Handler
<1>2. /\ IoIdle
      /\ \/ /\ Head(ready).kind = "retry"
            /\ RetrySubscription(r) /\ UNCHANGED io
         \/ /\ Head(ready).kind # "retry"
            /\ BeginSubscribe(r, Head(ready).kind = "fire")
            /\ io' = [io EXCEPT !.at = "pick", !.request = r]
      /\ UNCHANGED <<handles, sessions, creates, deletes>>
  BY <1>1, Zenon DEF RunHandler
<1>3. /\ r # None /\ q # None
      /\ io.request = None /\ io.rest = {}
  BY <1>2, <1>t, IoFields, ConstantsAssumption DEF IoIdle
<1>4. \/ Head(ready).kind = "retry" /\ RetrySubscription(r)
         /\ io'.request = None /\ io'.rest = {}
      \/ /\ Head(ready).kind # "retry"
         /\ BeginSubscribe(r, Head(ready).kind = "fire")
         /\ io'.request = r /\ io'.rest = {}
  BY <1>2, <1>3, <1>t, IoFields
<1>5. /\ OneHandler(r) /\ NoCreate(r) /\ ~Armed(r) /\ InProgress(r)
      /\ NoHandler(r)' /\ ~Fires(r)'
      /\ Fires(r) <=> Head(ready).kind = "fire"
      /\ handles[r] > 0
  <2>1. Attempted(r) /\ HeldWhileUsed(r)
    BY DEF Regular
  <2>2. ~NoHandler(r) /\ (OneHandler(r) => /\ NoHandler(r)' /\ ~Fires(r)'
                                           /\ Fires(r) <=> Head(ready).kind = "fire")
    BY <1>0, <1>1, <1>t, Running1st
  <2>3. InProgress(r)
    BY <2>1, <2>2 DEF Attempted, Undriven
  <2> QED
    BY <2>1, <2>2, <2>3 DEF Attempted, Driven, Undriven, HeldWhileUsed
<1>6. known' = known \cup {r}
  BY <1>4, <1>5, <1>t, Begun, Retried DEF Known
<1>7. CASE q # r
  <2>1. subscriptions'[q] = subscriptions[q]
    BY <1>4, <1>5, <1>7, <1>t, Begun, Retried DEF Known
  <2>2. SameDrivers(q)
    <3>1. SameQueue(q)
      BY <1>0, <1>1, <1>7, <1>t, Running1st
    <3> QED
      BY <1>2, <1>3, <1>4, <1>7, <3>1 DEF SameDrivers
  <2> QED
    BY <1>2, <1>6, <1>7, <2>1, <2>2, OnlyFor
<1>8. CASE q = r
  <2>1. (NoCreate(r)' <=> NoCreate(r)) /\ (OneCreate(r)' <=> OneCreate(r))
    BY <1>2, SameCreates
  <2>2. Attempted(r)
    BY DEF Regular
  <2>3. CASE /\ Head(ready).kind = "retry" /\ RetrySubscription(r)
             /\ io'.request = None /\ io'.rest = {}
    <3>1. /\ subscriptions'[r].state = "Retrying"
          /\ subscriptions'[r].hasID = subscriptions[r].hasID
          /\ subscriptions'[r].connection = subscriptions[r].connection
          /\ subscriptions'[r].retryTimer = "armed"
      BY <1>5, <1>t, <2>3, Retried DEF Known
    <3>2. InProgress(r)' /\ Armed(r)'
      BY <3>1 DEF InProgress, Armed
    <3>3. Driven(r)'
      BY <1>3, <1>5, <2>1, <2>3, <3>2 DEF Driven
    <3>4. Attempted(r)'
      BY <1>5, <3>1, <3>2, <3>3 DEF Attempted
    <3> QED
      BY <1>2, <1>5, <1>8, <3>1, <3>2, <3>4, OnlyAttempt DEF Regular
  <2>4. CASE /\ Head(ready).kind # "retry"
             /\ BeginSubscribe(r, Head(ready).kind = "fire")
             /\ io'.request = r /\ io'.rest = {}
    <3>1. /\ subscriptions'[r].state = subscriptions[r].state
          /\ subscriptions'[r].hasID = subscriptions[r].hasID
          /\ subscriptions'[r].connection = subscriptions[r].connection
          /\ subscriptions'[r].retryTimer =
                 IF Head(ready).kind = "fire" THEN "none" ELSE subscriptions[r].retryTimer
      BY <1>t, <2>4, Begun
    <3>2. subscriptions'[r].retryTimer = "none"
      <4>1. CASE Head(ready).kind = "fire"
        BY <3>1, <4>1
      <4>2. CASE Head(ready).kind # "fire"
        BY <1>5, <1>t, <2>2, <3>1, <4>2, NoTimer
      <4> QED
        BY <4>1, <4>2
    <3>3. InProgress(r)' /\ ~Armed(r)'
      BY <1>5, <3>1, <3>2 DEF InProgress, Armed
    <3>4. Driven(r)'
      BY <1>5, <2>1, <2>4, <3>3 DEF Driven
    <3>5. Attempted(r)'
      BY <1>5, <3>2, <3>3, <3>4 DEF Attempted
    <3> QED
      BY <1>2, <1>5, <1>8, <3>1, <3>3, <3>5, OnlyAttempt DEF Regular
  <2> QED
    BY <1>4, <1>8, <2>3, <2>4
<1> QED
  BY <1>7, <1>8

LEMMA ResubscribeRegular ==
    ASSUME Known, NEW r \in Requests, NEW q \in Requests, Regular(q), Resubscribe(r)
    PROVE  Regular(q)'
<1>t. TypeOK
  BY DEF Known
<1>1. /\ r # None /\ q # None
      /\ io.request = None /\ r \in io.rest
      /\ io'.request = r /\ io'.rest = io.rest \ {r}
      /\ BeginSubscribe(r, FALSE)
      /\ UNCHANGED <<handles, sessions, ready, creates, deletes>>
  BY <1>t, IoFields, ConstantsAssumption DEF Resubscribe
<1>2. /\ known' = known \cup {r}
      /\ q # r => subscriptions'[q] = subscriptions[q]
      /\ subscriptions'[r].state = subscriptions[r].state
      /\ subscriptions'[r].hasID = subscriptions[r].hasID
      /\ subscriptions'[r].connection = subscriptions[r].connection
      /\ subscriptions'[r].retryTimer = subscriptions[r].retryTimer
  BY <1>1, <1>t, Begun
<1>3. SameQueue(q)
  BY <1>1, UnchangedQueue
<1>4. CASE q # r
  <2>1. SameDrivers(q)
    BY <1>1, <1>3, <1>4 DEF SameDrivers
  <2> QED
    BY <1>1, <1>2, <1>4, <2>1, OnlyFor
<1>5. CASE q = r
  <2>1. Attempted(q)
    BY DEF Regular
  <2>2. InProgress(q) /\ NoHandler(q) /\ NoCreate(q) /\ ~Armed(q)
    BY <1>1, <1>5, <2>1 DEF Attempted, Undriven, Driven
  <2>3. InProgress(q)' /\ ~Armed(q)'
    BY <1>2, <1>5, <2>2 DEF InProgress, Armed
  <2>4. NoHandler(q)' /\ NoCreate(q)' /\ (Fires(q)' <=> Fires(q))
    BY <1>1, <1>3, <2>2, SameCreates DEF SameQueue
  <2>5. Driven(q)'
    BY <1>1, <1>5, <2>3, <2>4 DEF Driven
  <2>6. Attempted(q)'
    BY <1>2, <1>5, <2>1, <2>3, <2>4, <2>5 DEF Attempted
  <2> QED
    BY <1>1, <1>2, <1>5, <2>2, <2>3, <2>6, OnlyAttempt DEF Regular
<1> QED
  BY <1>4, <1>5

(* The request a connection was chosen for is driven by that step alone. *)
LEMMA AtStep ==
    ASSUME TypeOK, NEW r \in Requests, Regular(r), io.request = r
    PROVE  /\ InProgress(r) /\ NoHandler(r) /\ NoCreate(r) /\ ~Armed(r)
           /\ r \notin io.rest /\ handles[r] > 0
           /\ ~Fires(r) /\ subscriptions[r].retryTimer = "none"
<1>1. Attempted(r) /\ HeldWhileUsed(r)
  BY DEF Regular
<1>2. /\ InProgress(r) /\ NoHandler(r) /\ NoCreate(r) /\ ~Armed(r)
      /\ r \notin io.rest
  BY <1>1 DEF Attempted, Undriven, Driven
<1> QED
  BY <1>1, <1>2, QueueOfOne, NoTimer DEF HeldWhileUsed

LEMMA RequestCreateRegular ==
    ASSUME Known, NEW q \in Requests, \A p \in Requests : Regular(p), RequestCreate
    PROVE  Regular(q)'
<1>t. TypeOK
  BY DEF Known
<1>1. io.request \in Requests
  BY <1>t, IoFields DEF RequestCreate
<1>2. PICK r \in Requests : io.request = r
  BY <1>1
<1>3. PICK i \in Viable(r) : creates' = [creates EXCEPT ![r][connections[i]] = @ + 1]
  BY <1>2 DEF RequestCreate
<1>4. connections[i] \in Sessions
  BY <1>t DEF Viable, TypeOK
<1>5. PICK s \in Sessions : creates' = [creates EXCEPT ![r][s] = @ + 1]
  BY <1>3, <1>4
<1>6. /\ io'.request = None /\ io'.rest = io.rest
      /\ r # None /\ q # None
      /\ UNCHANGED <<known, subscriptions, handles, sessions, ready, deletes>>
  BY <1>t, IoFields, ConstantsAssumption DEF RequestCreate
<1>7. SameQueue(q)
  BY <1>6, UnchangedQueue
<1>8. CASE q # r
  <2>1. SameDrivers(q)
    BY <1>2, <1>5, <1>6, <1>7, <1>8, <1>t, CreateAdded DEF SameDrivers
  <2>2. Quiet(q)
    BY <1>6, <2>1 DEF Quiet, SameLinks
  <2> QED
    BY <2>2, QuietStep
<1>9. CASE q = r
  <2>1. /\ InProgress(q) /\ NoHandler(q) /\ NoCreate(q) /\ ~Armed(q)
        /\ q \notin io.rest /\ ~Fires(q) /\ subscriptions[q].retryTimer = "none"
    BY <1>2, <1>9, <1>t, AtStep
  <2>2. InProgress(q)' /\ ~Armed(q)'
    BY <1>6, <2>1 DEF InProgress, Armed
  <2>3. NoHandler(q)' /\ OneCreate(q)' /\ ~Fires(q)'
    BY <1>5, <1>7, <1>9, <1>t, <2>1, CreateAdded DEF SameQueue
  <2>4. Driven(q)'
    BY <1>6, <2>1, <2>2, <2>3 DEF Driven
  <2>5. Attempted(q)'
    BY <1>6, <2>1, <2>2, <2>3, <2>4 DEF Attempted
  <2> QED
    BY <1>6, <2>1, <2>2, <2>5, OnlyAttempt DEF Regular
<1> QED
  BY <1>8, <1>9

LEMMA ConnectionRegular ==
    ASSUME Known, NEW q \in Requests, Regular(q),
           CreateConnection \/ AwaitConnection
    PROVE  Regular(q)'
<1>t. TypeOK
  BY DEF Known
<1>1. /\ io'.request = io.request /\ io'.rest = io.rest
      /\ UNCHANGED <<known, subscriptions, handles, ready, creates, deletes>>
  BY <1>t, IoFields DEF CreateConnection, AwaitConnection
<1>2. \A s \in Sessions : q \in sessions'[s].subs <=> q \in sessions[s].subs
  <2>1. CASE CreateConnection
    <3>1. PICK t \in Sessions :
             ~sessions[t].live /\ sessions' = [sessions EXCEPT ![t] = FreshSession]
      BY <2>1 DEF CreateConnection
    <3>2. q \notin sessions[t].subs
      BY <3>1, NoneIsNoSession DEF Regular, Linked, Known, ConnectionListsRequest
    <3> QED
      BY <1>t, <3>1, <3>2 DEF TypeOK, FreshSession, EndedSession
  <2>2. CASE AwaitConnection
    BY <2>2 DEF AwaitConnection
  <2> QED
    BY <2>1, <2>2
<1>3. Quiet(q)
  BY <1>1, <1>2, UnchangedQueue DEF Quiet, SameDrivers, SameLinks
<1> QED
  BY <1>3, QuietStep

LEMMA ScheduleRetryRegular ==
    ASSUME Known, Running, NEW q \in Requests, \A p \in Requests : Regular(p),
           ScheduleRetry
    PROVE  Regular(q)'
<1>t. TypeOK
  BY DEF Known
<1>1. io.request \in Requests
  BY <1>t, IoFields DEF ScheduleRetry
<1>2. PICK r \in Requests : io.request = r
  BY <1>1
<1>3. /\ RetrySubscription(r)
      /\ io'.request = None /\ io'.rest = io.rest
      /\ r # None /\ q # None
      /\ UNCHANGED <<handles, sessions, ready, creates, deletes>>
  BY <1>2, <1>t, IoFields, ConstantsAssumption DEF ScheduleRetry
<1>4. SameQueue(q)
  BY <1>3, UnchangedQueue
<1>5. /\ InProgress(r) /\ NoHandler(r) /\ NoCreate(r)
      /\ r \notin io.rest /\ handles[r] > 0 /\ ~Fires(r)
  BY <1>2, <1>t, AtStep
<1>6. /\ known' = known \cup {r}
      /\ q # r => subscriptions'[q] = subscriptions[q]
      /\ subscriptions'[r].state = "Retrying"
      /\ subscriptions'[r].hasID = subscriptions[r].hasID
      /\ subscriptions'[r].connection = subscriptions[r].connection
      /\ subscriptions'[r].retryTimer = "armed"
  BY <1>3, <1>5, <1>t, Retried DEF Known
<1>7. CASE q # r
  <2>1. SameDrivers(q)
    BY <1>2, <1>3, <1>4, <1>7 DEF SameDrivers
  <2> QED
    BY <1>3, <1>6, <1>7, <2>1, OnlyFor
<1>8. CASE q = r
  <2>1. InProgress(q)' /\ Armed(q)'
    BY <1>6, <1>8 DEF InProgress, Armed
  <2>2. NoHandler(q)' /\ NoCreate(q)' /\ ~Fires(q)'
    BY <1>3, <1>4, <1>5, <1>8, SameCreates DEF SameQueue
  <2>3. Driven(q)'
    BY <1>3, <1>5, <1>8, <2>1, <2>2 DEF Driven
  <2>4. Attempted(q)'
    BY <1>6, <1>8, <2>1, <2>2, <2>3 DEF Attempted
  <2> QED
    BY <1>3, <1>5, <1>6, <1>8, <2>1, <2>4, OnlyAttempt DEF Regular
<1> QED
  BY <1>7, <1>8

LEMMA TimerRegular ==
    ASSUME Known, NEW r \in Requests, NEW q \in Requests, Regular(q),
           RetryTimerExpires(r)
    PROVE  Regular(q)'
<1> DEFINE e == [subscriptions[r] EXCEPT !.retryTimer = "expired"]
<1>t. TypeOK
  BY DEF Known
<1>1. /\ e.state = subscriptions[r].state
      /\ e.hasID = subscriptions[r].hasID
      /\ e.connection = subscriptions[r].connection
      /\ e.retryTimer = "expired"
  BY <1>t, EntryType DEF Subscription
<1>2. /\ Armed(r)
      /\ subscriptions' = [subscriptions EXCEPT ![r] = e]
      /\ Post("fire", r)
      /\ UNCHANGED <<known, handles, sessions, io, creates, deletes>>
  BY <1>t DEF RetryTimerExpires, TypeOK, Armed
<1> HIDE DEF e
<1>3. subscriptions'[q] = IF q = r THEN e ELSE subscriptions[q]
  BY <1>2, <1>t DEF TypeOK
<1>4. CASE q # r
  <2>1. SameQueue(q)
    BY <1>2, <1>4, <1>t, Posting
  <2>2. Quiet(q)
    BY <1>2, <1>3, <1>4, <2>1 DEF Quiet, SameDrivers, SameLinks
  <2> QED
    BY <2>2, QuietStep
<1>5. CASE q = r
  <2>1. Attempted(q)
    BY DEF Regular
  <2>2. /\ InProgress(q) /\ NoHandler(q) /\ NoCreate(q)
        /\ io.request # q /\ q \notin io.rest
    BY <1>2, <1>5, <2>1 DEF Attempted, Undriven, Driven
  <2>3. InProgress(q)' /\ ~Armed(q)'
    BY <1>1, <1>3, <1>5, <2>2 DEF InProgress, Armed
  <2>4. OneHandler(q)' /\ Fires(q)' /\ NoCreate(q)'
    BY <1>2, <1>5, <1>t, <2>2, Posting, SameCreates
  <2>5. Driven(q)'
    BY <1>2, <2>2, <2>3, <2>4 DEF Driven
  <2>6. Attempted(q)'
    BY <1>1, <1>3, <1>5, <2>3, <2>4, <2>5 DEF Attempted
  <2> QED
    BY <1>1, <1>2, <1>3, <1>5, <2>2, <2>3, <2>6, OnlyAttempt DEF Regular
<1> QED
  BY <1>4, <1>5

-----------------------------------------------------------------------------
(* The events of the sessions *)

LEMMA SessionWelcomeRegular ==
    ASSUME Known, NEW s \in Sessions, NEW q \in Requests, Regular(q),
           SessionWelcome(s)
    PROVE  Regular(q)'
<1>1. \A t \in Sessions : q \in sessions'[t].subs <=> q \in sessions[t].subs
  <2>1. TypeOK /\ sessions' = [sessions EXCEPT ![s] = [@ EXCEPT !.welcomed = TRUE]]
    BY DEF Known, SessionWelcome
  <2>2. [sessions[s] EXCEPT !.welcomed = TRUE].subs = sessions[s].subs
    BY <2>1 DEF TypeOK, Session
  <2> QED
    BY <2>1, <2>2 DEF TypeOK
<1>2. UNCHANGED <<known, subscriptions, handles, ready, io, creates, deletes>>
  BY DEF SessionWelcome
<1>3. Quiet(q)
  BY <1>1, <1>2, UnchangedQueue DEF Quiet, SameDrivers, SameLinks
<1> QED
  BY <1>3, QuietStep

(* A lost session takes no answer with it, and each of its requests gets    *)
(* a driver of its own: the resubscription.                                 *)
LEMMA SessionLostRegular ==
    ASSUME CalmEnvironment, Known, Running, NEW s \in Sessions, NEW q \in Requests,
           Regular(q), SessionLost(s)
    PROVE  Regular(q)'
<1> DEFINE e == [subscriptions[q] EXCEPT !.connection = None, !.state = "Subscribing"]
           lost == sessions[s].subs
<1>t. TypeOK /\ subscriptions[q] \in Subscription
  BY EntryType DEF Known
<1>1. /\ e.state = "Subscribing" /\ e.connection = None
      /\ e.retryTimer = subscriptions[q].retryTimer
  BY <1>t DEF Subscription
<1>2. /\ IoIdle /\ MayEnd(s)
      /\ sessions' = [sessions EXCEPT ![s] = EndedSession]
      /\ subscriptions'[q] = IF q \in lost \cap known THEN e ELSE Unlinked(s)[q]
      /\ creates' = Orphaned(s)
      /\ io' = [io EXCEPT !.rest = lost]
      /\ UNCHANGED <<known, handles, ready, deletes>>
  BY DEF SessionLost
<1> HIDE DEF e
<1>3. \A r \in Requests : creates[r][s] = 0 /\ (r \in lost => deletes[r] = 0)
  <2>1. "racing drop" \notin Faults
    BY DEF CalmEnvironment
  <2> QED
    BY <1>2, <2>1 DEF MayEnd
<1>4. /\ io.request = None /\ io.rest = {}
      /\ io'.request = None /\ io'.rest = lost
      /\ q # None /\ s # None
  BY <1>2, <1>t, IoFields, ConstantsAssumption DEF IoIdle
<1>5. creates'[q] = creates[q]
  BY <1>2, <1>3, <1>t, NothingOrphaned
<1>6. SameQueue(q)
  BY <1>2, UnchangedQueue
<1>7. Attempted(q) /\ Deleted(q) /\ HeldWhileUsed(q) /\ Linked(q)
  BY DEF Regular
<1>8. \A t \in Sessions : q \in sessions'[t].subs <=> t # s /\ q \in sessions[t].subs
  BY <1>2, <1>t DEF TypeOK, EndedSession
<1>9. CASE q \notin lost
  <2>1. subscriptions[q].connection # s
    BY <1>7, <1>9 DEF Linked
  <2>2. subscriptions'[q] = subscriptions[q]
    BY <1>2, <1>9, <2>1 DEF Unlinked
  <2>3. SameDrivers(q)
    BY <1>4, <1>5, <1>6, <1>9 DEF SameDrivers
  <2>4. Quiet(q)
    BY <1>2, <1>8, <1>9, <2>2, <2>3 DEF Quiet, SameLinks
  <2> QED
    BY <2>4, QuietStep
<1>10. CASE q \in lost
  <2>1. subscriptions[q].connection = s /\ q \in known
    BY <1>4, <1>7, <1>10 DEF Linked
  <2>2. subscriptions'[q] = e
    BY <1>2, <1>10, <2>1
  <2>3. subscriptions[q].state = "Subscribed"
    BY <1>3, <1>4, <1>7, <1>10, <2>1 DEF Linked, Deleted
  <2>4. Undriven(q) /\ subscriptions[q].retryTimer = "none" /\ ~Fires(q)
    <3>1. Undriven(q)
      BY <1>7, <2>3 DEF Attempted, InProgress
    <3> QED
      BY <1>7, <1>t, <3>1, QueueOfOne, NoTimer DEF Undriven
  <2>5. InProgress(q)' /\ ~Armed(q)'
    BY <1>1, <2>2, <2>4 DEF InProgress, Armed
  <2>6. NoHandler(q)' /\ NoCreate(q)' /\ ~Fires(q)'
    BY <1>5, <1>6, <2>4, SameCreates DEF Undriven, SameQueue
  <2>7. Attempted(q)'
    <3>1. Driven(q)'
      BY <1>4, <1>10, <2>5, <2>6 DEF Driven
    <3> QED
      BY <1>1, <2>2, <2>4, <2>5, <2>6, <3>1 DEF Attempted
  <2>8. Deleted(q)' /\ HeldWhileUsed(q)'
    BY <1>1, <1>2, <1>3, <1>7, <1>10, <2>2, <2>3 DEF Deleted, HeldWhileUsed
  <2>9. Linked(q)'
    <3>1. \A t \in Sessions : q \notin sessions'[t].subs
      BY <1>7, <1>8, <2>1 DEF Linked
    <3> QED
      BY <1>1, <2>2, <3>1, NoneIsNoSession DEF Linked
  <2> QED
    BY <2>7, <2>8, <2>9 DEF Regular
<1> QED
  BY <1>9, <1>10

(* Every step of a running application keeps every request regular.         *)
LEMMA RegularStep ==
    ASSUME CalmEnvironment, Known, Running, NEW q \in Requests,
           \A p \in Requests : Regular(p), [Next]_vars, Running'
    PROVE  Regular(q)'
<1>1. Regular(q)
  OBVIOUS
<1>2. ASSUME UNCHANGED vars
      PROVE  Regular(q)'
  <2>1. Quiet(q)
    BY <1>2, UnchangedQueue DEF vars, Quiet, SameDrivers, SameLinks
  <2> QED
    BY <1>1, <2>1, QuietStep
<1>3. ~SetQuitting /\ ~Destroy
  BY DEF SetQuitting, Destroy, Running
<1>4. \A s \in Sessions : ~SessionReconnect(s)
  BY DEF CalmEnvironment, SessionReconnect
<1> QED
  BY <1>1, <1>2, <1>3, <1>4, SubscribeRegular, RemoveRefRegular, DeleteAnsweredRegular,
     CreateAnsweredRegular, RunHandlerRegular, ResubscribeRegular,
     RequestCreateRegular, ConnectionRegular, ScheduleRetryRegular, TimerRegular,
     SessionWelcomeRegular, SessionLostRegular
     DEF Next, GuiStep, IoStep

-----------------------------------------------------------------------------
(* One user per session *)

(* A session keeps its user and adds no subscription, gives up both, or     *)
(* adds one that a create request named it for.                             *)
Shrinks(s) ==
    /\ sessions'[s].subs \subseteq sessions[s].subs
    /\ sessions'[s].user = sessions[s].user \/ sessions'[s].subs = {}

Gains(s, r) ==
    /\ Running /\ creates[r][s] > 0
    /\ sessions'[s].user = Owner[r]
    /\ sessions'[s].subs = sessions[s].subs \cup {r}

LEMMA Carriage ==
    ASSUME TypeOK, [Next]_vars, NEW s \in Sessions
    PROVE  Shrinks(s) \/ \E r \in Requests : Gains(s, r)
<1>1. CASE SessionsUnchanged
  BY <1>1 DEF SessionsUnchanged, Shrinks
<1>2. CASE Destroy
  BY <1>2 DEF Destroy, EndedSession, Shrinks
<1>3. CASE CreateConnection
  <2>1. PICK t \in Sessions : sessions' = [sessions EXCEPT ![t] = FreshSession]
    BY <1>3 DEF CreateConnection
  <2>2. FreshSession.subs = {}
    BY DEF FreshSession, EndedSession
  <2> QED
    BY <2>1, <2>2 DEF TypeOK, Shrinks
<1>4. ASSUME NEW t \in Sessions,
             SessionWelcome(t) \/ SessionLost(t) \/ SessionReconnect(t)
      PROVE  Shrinks(s)
  BY <1>4, SessionFates DEF EndedSession, Shrinks
<1>5. ASSUME NEW r \in Requests, DeleteAnswered(r)
      PROVE  Shrinks(s)
  <2>1. CASE UNCHANGED sessions
    BY <2>1 DEF Shrinks
  <2>2. ASSUME NEW c \in Sessions, sessions' = Delist(c, r)
        PROVE  Shrinks(s)
    BY <2>2, Delisting DEF Shrinks
  <2>3. \/ UNCHANGED sessions
        \/ /\ subscriptions[r].connection # None
           /\ sessions' = Delist(subscriptions[r].connection, r)
    BY <1>5 DEF DeleteAnswered
  <2>4. subscriptions[r].connection \in Sessions \cup {None}
    BY EntryType DEF Subscription
  <2> QED
    BY <2>1, <2>2, <2>3, <2>4
<1>6. ASSUME NEW r \in Requests, NEW c \in Sessions \cup {None},
             NEW answer \in Answers, CreateAnswered(r, c, answer)
      PROVE  Shrinks(s) \/ Gains(s, r)
  <2>1. CASE UNCHANGED sessions
    BY <2>1 DEF Shrinks
  <2>2. CASE Running /\ c \in Sessions /\ sessions' = List(c, r)
    <3>1. creates[r][c] > 0
      BY <1>6 DEF CreateAnswered
    <3>2. CASE s = c
      BY <2>2, <3>1, <3>2, Listing DEF Gains
    <3>3. CASE s # c
      BY <2>2, <3>3, Listing DEF Shrinks
    <3> QED
      BY <3>2, <3>3
  <2> QED
    BY <1>6, <2>1, <2>2 DEF CreateAnswered, MarkRequestSubscribed
<1>7. ASSUME NEW r \in Requests,
             Subscribe(r) \/ RemoveRef(r) \/ Resubscribe(r) \/ RetryTimerExpires(r)
      PROVE  SessionsUnchanged
  BY <1>7 DEF Subscribe, RemoveRef, Resubscribe, RetryTimerExpires, SessionsUnchanged
<1>8. CASE SetQuitting \/ RunHandler \/ RequestCreate \/ AwaitConnection
              \/ ScheduleRetry \/ UNCHANGED vars
  BY <1>1, <1>8 DEF SetQuitting, RunHandler, RequestCreate, AwaitConnection,
                    ScheduleRetry, vars, SessionsUnchanged
<1> QED
  BY <1>1, <1>2, <1>3, <1>4, <1>5, <1>6, <1>7, <1>8 DEF Next, GuiStep, IoStep

LEMMA OneUserStep ==
    ASSUME Known, CalmInv, [Next]_vars
    PROVE  OneUserPerSession'
<1> SUFFICES ASSUME NEW s \in Sessions, NEW q \in sessions'[s].subs
             PROVE  Owner[q] = sessions'[s].user
  BY DEF OneUserPerSession
<1>t. TypeOK
  BY DEF Known
<1>1. \A r \in sessions[s].subs : Owner[r] = sessions[s].user
  BY DEF CalmInv, OneUserPerSession
<1>2. CASE Shrinks(s)
  BY <1>1, <1>2 DEF Shrinks
<1>3. ASSUME NEW r \in Requests, Gains(s, r)
      PROVE  Owner[q] = sessions'[s].user
  <2>1. \A p \in sessions[s].subs : Owner[p] = Owner[r]
    BY <1>3 DEF Gains, CalmInv, CreatesFit
  <2> QED
    BY <1>3, <2>1 DEF Gains
<1> QED
  BY <1>2, <1>3, <1>t, Carriage

(* A create request in flight is for a held request. *)
LEMMA CreatesAreHeld ==
    ASSUME TypeOK, NEW r \in Requests, Regular(r), NEW s \in Sessions,
           creates[r][s] > 0
    PROVE  handles[r] > 0
<1>1. ~NoCreate(r)
  BY DEF NoCreate
<1>2. InProgress(r)
  BY <1>1 DEF Regular, Attempted, Undriven
<1> QED
  BY <1>2 DEF Regular, HeldWhileUsed

LEMMA CreatesFitStep ==
    ASSUME Known, CalmInv, Running, [Next]_vars
    PROVE  CreatesFit'
<1> SUFFICES ASSUME NEW r \in Requests, NEW s \in Sessions, creates'[r][s] > 0,
                    NEW q \in sessions'[s].subs
             PROVE  Owner[q] = Owner[r]
  BY DEF CreatesFit
<1>t. TypeOK
  BY DEF Known
<1>1. \A p \in Requests : Regular(p)
  BY DEF CalmInv
<1>2. CASE SessionsUnchanged /\ CanHandle(s, Owner[r])
  <2>1. q \in sessions[s].subs
    BY <1>2 DEF SessionsUnchanged
  <2>2. sessions[s].user = Owner[r]
    BY <1>2, <2>1 DEF CanHandle, Known, BoundWhileInUse
  <2> QED
    BY <2>1, <2>2 DEF CalmInv, OneUserPerSession
<1>3. CASE creates'[r][s] <= creates[r][s]
  <2>1. creates[r][s] > 0
    <3>1. TypeOK'
      BY <1>t, TypeStep
    <3>2. creates[r][s] \in Nat /\ creates'[r][s] \in Nat
      <4>1. /\ creates \in [Requests -> [Sessions \cup {None} -> Nat]]
            /\ creates' \in [Requests -> [Sessions \cup {None} -> Nat]]
        BY <1>t, <3>1 DEF TypeOK
      <4> QED
        BY <4>1
    <3> QED
      BY <1>3, <3>2
  <2>2. \A p \in sessions[s].subs : Owner[p] = Owner[r]
    BY <2>1 DEF CalmInv, CreatesFit
  <2>3. CASE Shrinks(s)
    BY <2>2, <2>3 DEF Shrinks
  <2>4. ASSUME NEW p \in Requests, Gains(s, p)
        PROVE  Owner[q] = Owner[r]
    <3>1. handles[p] > 0 /\ handles[r] > 0
      BY <1>1, <1>t, <2>1, <2>4, CreatesAreHeld DEF Gains
    <3>2. Owner[p] = Owner[r]
      BY <3>1 DEF CalmInv, OneAccount
    <3> QED
      BY <2>2, <2>4, <3>2 DEF Gains
  <2> QED
    BY <1>t, <2>3, <2>4, Carriage
<1> QED
  BY <1>2, <1>3, <1>t, NewCreates

(* Handles come one at a time, and only while no other account holds one.   *)
LEMMA HandleSteps ==
    ASSUME CalmEnvironment, Known, Running, [Next]_vars
    PROVE  \/ \A q \in Requests : handles'[q] <= handles[q]
           \/ \E r \in Requests :
                 /\ \A q \in Requests : q # r => handles'[q] = handles[q]
                 /\ \A q \in Requests : Owner[q] # Owner[r] => handles[q] = 0
<1>t. TypeOK
  BY DEF Known
<1>1. ASSUME NEW r \in Requests, Subscribe(r)
      PROVE  /\ \A q \in Requests : q # r => handles'[q] = handles[q]
             /\ \A q \in Requests : Owner[q] # Owner[r] => handles[q] = 0
  <2>1. "two accounts" \notin Faults
    BY DEF CalmEnvironment
  <2>2. \A q \in Requests : Owner[q] # Owner[r] => subscriptions[q].refCount = 0
    BY <1>1, <2>1 DEF Subscribe, MayAcquire
  <2>3. \A q \in Requests : q # r => handles'[q] = handles[q]
    BY <1>1, <1>t DEF Subscribe, TypeOK
  <2> QED
    BY <2>2, <2>3 DEF Known, HandlesAreCounted
<1>2. ASSUME NEW r \in Requests, RemoveRef(r), NEW q \in Requests
      PROVE  handles'[q] <= handles[q]
  <2>1. handles' = [handles EXCEPT ![r] = @ - 1] /\ handles \in [Requests -> Nat]
    BY <1>2, <1>t DEF RemoveRef, TypeOK
  <2> QED
    BY <2>1
<1>3. ASSUME UNCHANGED handles, NEW q \in Requests
      PROVE  handles'[q] <= handles[q]
  <2>1. handles[q] \in Nat
    BY <1>t DEF TypeOK
  <2> QED
    BY <1>3, <2>1
<1>4. \/ UNCHANGED handles
      \/ \E r \in Requests : Subscribe(r) \/ RemoveRef(r)
  BY DEF Next, GuiStep, IoStep, vars, DeleteAnswered, CreateAnswered, SetQuitting,
         Destroy, RunHandler, Resubscribe, RequestCreate, CreateConnection,
         AwaitConnection, ScheduleRetry, RetryTimerExpires, SessionWelcome,
         SessionLost, SessionReconnect
<1> QED
  BY <1>1, <1>2, <1>3, <1>4

LEMMA OneAccountStep ==
    ASSUME CalmEnvironment, Known, Running, OneAccount, [Next]_vars
    PROVE  OneAccount'
<1> SUFFICES ASSUME NEW q \in Requests, NEW r \in Requests,
                    handles'[q] > 0, handles'[r] > 0
             PROVE  Owner[q] = Owner[r]
  BY DEF OneAccount
<1>1. /\ handles \in [Requests -> Nat] /\ handles' \in [Requests -> Nat]
  BY TypeStep DEF Known, TypeOK
<1>2. CASE \A p \in Requests : handles'[p] <= handles[p]
  <2>1. handles[q] > 0 /\ handles[r] > 0
    BY <1>1, <1>2
  <2> QED
    BY <2>1 DEF OneAccount
<1>3. ASSUME NEW p \in Requests,
             \A u \in Requests : u # p => handles'[u] = handles[u],
             \A u \in Requests : Owner[u] # Owner[p] => handles[u] = 0
      PROVE  Owner[q] = Owner[r]
  <2>1. Owner[q] = Owner[p]
    BY <1>3
  <2>2. Owner[r] = Owner[p]
    BY <1>3
  <2> QED
    BY <2>1, <2>2
<1> QED
  BY <1>2, <1>3, HandleSteps

-----------------------------------------------------------------------------
(* The invariant and what follows from it *)

LEMMA CalmInit ==
    ASSUME Init
    PROVE  CalmInv
<1>1. /\ \A r \in Requests : /\ subscriptions[r] = FreshSubscription
                             /\ handles[r] = 0 /\ deletes[r] = 0
      /\ \A r \in Requests, c \in Sessions \cup {None} : creates[r][c] = 0
      /\ \A s \in Sessions : sessions[s].subs = {}
      /\ ready = <<>> /\ io.request = None /\ io.rest = {}
  BY DEF Init, EndedSession
<1>2. /\ FreshSubscription.state = "Unsubscribed"
      /\ FreshSubscription.connection = None
      /\ FreshSubscription.retryTimer = "none"
  BY DEF FreshSubscription
<1>3. OneUserPerSession /\ CreatesFit /\ OneAccount
  BY <1>1 DEF OneUserPerSession, CreatesFit, OneAccount
<1>4. ASSUME NEW r \in Requests
      PROVE  Regular(r)
  <2>1. NoHandler(r) /\ ~Fires(r)
    <3>1. DOMAIN ready = {}
      BY <1>1
    <3> QED
      BY <3>1 DEF NoHandler, Fires
  <2>2. Undriven(r) /\ ~InProgress(r)
    BY <1>1, <1>2, <2>1, ConstantsAssumption
       DEF Undriven, NoCreate, Armed, InProgress
  <2>3. Attempted(r)
    BY <1>1, <1>2, <2>1, <2>2 DEF Attempted
  <2>4. Deleted(r) /\ HeldWhileUsed(r) /\ Linked(r)
    BY <1>1, <1>2, NoneIsNoSession DEF Deleted, HeldWhileUsed, InProgress, Linked
  <2> QED
    BY <2>3, <2>4 DEF Regular
<1> QED
  BY <1>3, <1>4 DEF CalmInv

LEMMA CalmStep ==
    ASSUME CalmEnvironment, Known, CalmInv, [Next]_vars
    PROVE  CalmInv'
<1>1. OneUserPerSession'
  BY OneUserStep
<1>2. ASSUME Running'
      PROVE  CreatesFit' /\ OneAccount' /\ \A r \in Requests : Regular(r)'
  <2>1. Running
    BY <1>2, RunningBefore
  <2>2. OneAccount /\ \A r \in Requests : Regular(r)
    BY <2>1 DEF CalmInv
  <2> QED
    BY <1>2, <2>1, <2>2, CreatesFitStep, OneAccountStep, RegularStep
<1> QED
  BY <1>1, <1>2 DEF CalmInv

LEMMA CalmInvariant ==
    ASSUME CalmEnvironment
    PROVE  Spec => []CalmInv
<1>1. Init => CalmInv
  BY CalmInit
<1>2. TypeOK /\ HandlesAreCounted /\ StateIsBacked /\ ConnectionListsRequest
         /\ BoundWhileInUse /\ CalmInv /\ [Next]_vars => CalmInv'
  BY CalmStep DEF Known
<1> QED
  BY <1>1, <1>2, TypeCorrect, HandlesCounted, StatesBacked, ConnectionLists,
     BoundInUse, PTL DEF Spec

(* The five kinds of drivers, apart. *)
LEMMA DriverKinds ==
    ASSUME TypeOK, NEW r \in Requests
    PROVE  \A d : d \in Drivers(r) <=>
              \/ \E i \in DOMAIN ready :
                    ready[i].request = r /\ d = <<"handler", None, i>>
              \/ \E c \in Sessions \cup {None} : \E n \in 1..creates[r][c] :
                    d = <<"create", c, n>>
              \/ Armed(r) /\ d = <<"timer", None, 0>>
              \/ io.request = r /\ d = <<"step", None, 0>>
              \/ r \in io.rest /\ d = <<"rest", None, 0>>
<1>1. \A d : d \in HandlersFor(r) <=>
               \E i \in DOMAIN ready :
                  ready[i].request = r /\ d = <<"handler", None, i>>
  BY Zenon DEF HandlersFor
<1>2. \A d : d \in CreatesFor(r) <=>
               \E c \in Sessions \cup {None} : d \in CreatesTo(r, c)
  BY Zenon DEF CreatesFor
<1>3. \A d, c : d \in CreatesTo(r, c) <=>
                  \E n \in 1..creates[r][c] : d = <<"create", c, n>>
  BY Zenon DEF CreatesTo
<1>4. \A d : d \in Drivers(r) <=>
               \/ d \in HandlersFor(r) \/ d \in CreatesFor(r)
               \/ Armed(r) /\ d = <<"timer", None, 0>>
               \/ io.request = r /\ d = <<"step", None, 0>>
               \/ r \in io.rest /\ d = <<"rest", None, 0>>
  BY DEF Drivers, Armed
<1>5. \A d : d \in CreatesFor(r) <=>
               \E c \in Sessions \cup {None} : \E n \in 1..creates[r][c] :
                  d = <<"create", c, n>>
  BY <1>2, <1>3, Zenon
<1> QED
  <2> TAKE d
  <2> QED
    BY <1>1, <1>4, <1>5, Zenon

LEMMA DriversCounted ==
    ASSUME "forbidden" \notin Answers, TypeOK, NEW r \in Requests, Attempted(r)
    PROVE  Cardinality(Drivers(r)) = IF InProgress(r) THEN 1 ELSE 0
<1>1. \A c \in Sessions \cup {None} : creates[r][c] \in Nat
  BY DEF TypeOK
<1>none. ASSUME NoCreate(r), NEW c \in Sessions \cup {None}
         PROVE  1..creates[r][c] = {}
  BY <1>none DEF NoCreate
<1>2. CASE ~InProgress(r)
  <2>1. Undriven(r)
    BY <1>2 DEF Attempted
  <2>2. Drivers(r) = {}
    BY <1>none, <2>1, DriverKinds DEF Undriven, NoHandler
  <2> QED
    BY <1>2, <2>2, FS_EmptySet
<1>3. CASE InProgress(r)
  <2> SUFFICES Cardinality(Drivers(r)) = 1
    BY <1>3
  <2>1. Driven(r)
    BY <1>3 DEF Attempted
  <2>2. ASSUME NEW d, Drivers(r) = {d}
        PROVE  Cardinality(Drivers(r)) = 1
    BY <2>2, FS_Singleton
  <2>3. CASE OneHandler(r) /\ NoCreate(r) /\ ~Armed(r) /\ io.request # r /\ r \notin io.rest
    <3>1. PICK i \in DOMAIN ready :
             /\ ready[i].request = r
             /\ \A j \in DOMAIN ready : ready[j].request = r => j = i
      BY <2>3 DEF OneHandler
    <3>2. Drivers(r) = {<<"handler", None, i>>}
      BY <1>none, <2>3, <3>1, DriverKinds
    <3> QED
      BY <2>2, <3>2
  <2>4. CASE NoHandler(r) /\ OneCreate(r) /\ ~Armed(r) /\ io.request # r /\ r \notin io.rest
    <3>1. PICK s \in Sessions :
             /\ creates[r][s] = 1
             /\ \A c \in Sessions \cup {None} : c # s => creates[r][c] = 0
      BY <2>4 DEF OneCreate
    <3>2. \A c \in Sessions \cup {None} : \A n :
             n \in 1..creates[r][c] <=> c = s /\ n = 1
      BY <3>1
    <3>3. \A d : d \in Drivers(r) =>
             \E c \in Sessions \cup {None} : \E n \in 1..creates[r][c] :
                d = <<"create", c, n>>
      BY <2>4, DriverKinds, Zenon DEF NoHandler
    <3>4. \A d : d \in Drivers(r) <=> d = <<"create", s, 1>>
      <4>1. <<"create", s, 1>> \in Drivers(r)
        BY <3>2, DriverKinds, Zenon
      <4>2. ASSUME NEW d \in Drivers(r)
            PROVE  d = <<"create", s, 1>>
        <5>1. PICK c \in Sessions \cup {None} :
                 \E n \in 1..creates[r][c] : d = <<"create", c, n>>
          BY <3>3
        <5>2. PICK n \in 1..creates[r][c] : d = <<"create", c, n>>
          BY <5>1
        <5> QED
          BY <3>2, <5>2
      <4> QED
        BY <4>1, <4>2
    <3>5. Drivers(r) = {<<"create", s, 1>>}
      BY <3>4
    <3> QED
      BY <2>2, <3>5
  <2>5. CASE NoHandler(r) /\ NoCreate(r) /\ Armed(r) /\ io.request # r /\ r \notin io.rest
    <3>1. Drivers(r) = {<<"timer", None, 0>>}
      BY <1>none, <2>5, DriverKinds DEF NoHandler
    <3> QED
      BY <2>2, <3>1
  <2>6. CASE NoHandler(r) /\ NoCreate(r) /\ ~Armed(r) /\ io.request = r /\ r \notin io.rest
    <3>1. Drivers(r) = {<<"step", None, 0>>}
      BY <1>none, <2>6, DriverKinds DEF NoHandler
    <3> QED
      BY <2>2, <3>1
  <2>7. CASE NoHandler(r) /\ NoCreate(r) /\ ~Armed(r) /\ io.request # r /\ r \in io.rest
    <3>1. Drivers(r) = {<<"rest", None, 0>>}
      BY <1>none, <2>7, DriverKinds DEF NoHandler
    <3> QED
      BY <2>2, <3>1
  <2> QED
    BY <2>1, <2>3, <2>4, <2>5, <2>6, <2>7 DEF Driven
<1> QED
  BY <1>2, <1>3

(* In a calm environment without "forbidden" answers one thing drives each  *)
(* attempt to subscribe, and none is left for a request that is not being   *)
(* attempted: no retry, loss or release forgets an attempt or doubles it    *)
(* (Controller::subscribe, retrySubscription, reconnectConnection).         *)
THEOREM OneDriverEach ==
    ASSUME CalmEnvironment, "forbidden" \notin Answers
    PROVE  Spec => []OneDriver
<1>1. TypeOK /\ CalmInv => OneDriver
  BY DriversCounted DEF CalmInv, Regular, OneDriver
<1> QED
  BY <1>1, CalmInvariant, TypeCorrect, PTL

LEMMA AssertionsFollow ==
    ASSUME TypeOK, NEW r \in Requests, Regular(r)
    PROVE  /\ \A s \in Sessions : creates[r][s] > 0 => InProgress(r)
           /\ deletes[r] > 0 => /\ subscriptions[r].state = "Unsubscribing"
                                /\ subscriptions[r].retryTimer = "none"
           /\ subscriptions[r].retryTimer # "none" => io.request # r /\ InProgress(r)
<1>1. Attempted(r) /\ Deleted(r)
  BY DEF Regular
<1>2. \A s \in Sessions : creates[r][s] > 0 => ~NoCreate(r)
  BY DEF NoCreate
<1>3. \A s \in Sessions : creates[r][s] > 0 => InProgress(r)
  BY <1>1, <1>2 DEF Attempted, Undriven
<1>4. subscriptions[r].retryTimer # "none" => Armed(r) \/ Fires(r)
  BY <1>1, NoTimer
<1>5. Armed(r) \/ Fires(r) => io.request # r /\ InProgress(r)
  <2>1. Armed(r) \/ ~NoHandler(r) => io.request # r /\ InProgress(r)
    BY <1>1 DEF Attempted, Driven, Undriven
  <2> QED
    BY <2>1, QueueOfOne
<1>6. deletes[r] > 0 => subscriptions[r].state = "Unsubscribing"
  BY <1>1 DEF Deleted
<1>7. subscriptions[r].state = "Unsubscribing" => ~InProgress(r)
  BY DEF InProgress
<1> QED
  BY <1>3, <1>4, <1>5, <1>6, <1>7

(* In a calm environment the assertions of the controller hold: an answer   *)
(* finds its request waiting for it and a retry finds its timer             *)
(* (markRequestSubscribed, markRequestUnsubscribed, subscribe,              *)
(* retrySubscription).                                                      *)
THEOREM NothingUnexpected ==
    ASSUME CalmEnvironment
    PROVE  Spec => []AssertionsHold
<1>1. TypeOK /\ CalmInv => AssertionsHold
  <2> SUFFICES ASSUME TypeOK, CalmInv, Running
               PROVE  AssertionsHold
    BY DEF AssertionsHold, AnswersAreExpected, TimersAreExpected
  <2>1. \A r \in Requests : Regular(r)
    BY DEF CalmInv
  <2>2. AnswersAreExpected
    BY <2>1, AssertionsFollow DEF AnswersAreExpected
  <2>3. TimersAreExpected
    BY <2>1, AssertionsFollow DEF TimersAreExpected, Regular, Attempted, Fires
  <2> QED
    BY <2>2, <2>3 DEF AssertionsHold
<1> QED
  BY <1>1, CalmInvariant, TypeCorrect, PTL

(* In a calm environment no session ever carries subscriptions of two       *)
(* users, whatever order creates are answered in: the warning of            *)
(* Connection::markRequestSubscribed is never logged.                       *)
THEOREM OneUserEach ==
    ASSUME CalmEnvironment
    PROVE  Spec => []OneUserPerSession
<1>1. CalmInv => OneUserPerSession
  BY DEF CalmInv
<1> QED
  BY <1>1, CalmInvariant, PTL

(* In a calm environment an entry points at the one session that lists its  *)
(* request, and only while it is subscribed or unsubscribing: losses,       *)
(* answers and releases never leave the two registries apart.               *)
THEOREM SessionsMatch ==
    ASSUME CalmEnvironment
    PROVE  Spec => []SessionsMatchRegistry
<1>1. CalmInv => SessionsMatchRegistry
  BY NoneIsNoSession DEF CalmInv, Regular, Linked, SessionsMatchRegistry
<1> QED
  BY <1>1, CalmInvariant, PTL
=============================================================================
