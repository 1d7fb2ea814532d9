----------------------- MODULE EventSubControllerProofs -----------------------
(***************************************************************************)
(* Proofs about EventSubController, for any requests, users, sessions,     *)
(* answers, faults and bounds.  The safety properties that hold whatever   *)
(* the environment does are inductive together with TypeOK and, where a    *)
(* step relies on the reference count, HandlesAreCounted.                  *)
(***************************************************************************)
EXTENDS EventSubController, FiniteSetTheorems, SequenceTheorems, TLAPS

USE ConstantsAssumption

-----------------------------------------------------------------------------
(* Type correctness *)

(* Writing an entry keeps the registry well typed. *)
LEMMA SetSubscriptionType ==
    ASSUME TypeOK, NEW r \in Requests, NEW e \in Subscription,
           SetSubscription(r, e)
    PROVE  known' \in SUBSET Requests /\ subscriptions' \in [Requests -> Subscription]
BY DEF TypeOK, SetSubscription

(* So does erasing one. *)
LEMMA EraseSubscriptionType ==
    ASSUME TypeOK, NEW r \in Requests, EraseSubscription(r)
    PROVE  known' \in SUBSET Requests /\ subscriptions' \in [Requests -> Subscription]
<1>1. FreshSubscription \in Subscription
  BY DEF FreshSubscription, Subscription, States
<1> QED
  BY <1>1 DEF TypeOK, EraseSubscription

(* retrySubscription keeps the registry well typed. *)
LEMMA RetrySubscriptionType ==
    ASSUME TypeOK, NEW r \in Requests, RetrySubscription(r)
    PROVE  known' \in SUBSET Requests /\ subscriptions' \in [Requests -> Subscription]
<1> DEFINE e == [subscriptions[r] EXCEPT !.state = "Retrying",
                                         !.retryTimer = "armed"]
<1>1. e \in Subscription
  <2>1. subscriptions[r] \in Subscription
    BY DEF TypeOK
  <2> QED BY <2>1 DEF Subscription, States
<1>2. CASE UNCHANGED <<known, subscriptions>>
  BY <1>2 DEF TypeOK
<1>3. CASE EraseSubscription(r)
  BY <1>3, EraseSubscriptionType
<1>4. CASE SetSubscription(r, e)
  <2> HIDE DEF e
  <2> QED BY <1>1, <1>4, SetSubscriptionType
<1> QED
  BY <1>2, <1>3, <1>4 DEF RetrySubscription

(* Removing a connection from the list leaves a list of connections. *)
LEMMA WithoutType ==
    ASSUME NEW seq \in Seq(Sessions), NEW s
    PROVE  Without(seq, s) \in Seq(Sessions)
<1>1. CASE \E i \in DOMAIN seq : seq[i] = s
  <2> DEFINE at == CHOOSE i \in DOMAIN seq : seq[i] = s
             n == Len(seq) - 1
             res == [i \in 1..n |-> IF i < at THEN seq[i] ELSE seq[i + 1]]
  <2>1. n \in Nat /\ DOMAIN seq = 1..(n + 1)
    BY <1>1
  <2>2. \A i \in 1..n : seq[i] \in Sessions /\ seq[i + 1] \in Sessions
    BY <2>1
  <2>3. res \in [1..n -> Sessions]
    BY <2>2
  <2>4. res \in Seq(Sessions)
    <3> HIDE DEF res, n
    <3> QED BY <2>1, <2>3, SeqDef
  <2> QED BY <1>1, <2>4 DEF Without
<1>2. CASE ~ \E i \in DOMAIN seq : seq[i] = s
  BY <1>2 DEF Without
<1> QED
  BY <1>1, <1>2

(* The fields of an entry have the types of a Subscription. *)
LEMMA EntryType ==
    ASSUME TypeOK, NEW r \in Requests
    PROVE  subscriptions[r] \in Subscription
BY DEF TypeOK

(* Beginning an attempt keeps the registry well typed. *)
LEMMA BeginSubscribeType ==
    ASSUME TypeOK, NEW r \in Requests, NEW isRetry \in BOOLEAN,
           BeginSubscribe(r, isRetry)
    PROVE  known' \in SUBSET Requests /\ subscriptions' \in [Requests -> Subscription]
<1> DEFINE e == [subscriptions[r] EXCEPT
                    !.retryTimer = IF isRetry THEN "none" ELSE @]
<1>1. e \in Subscription
  <2>1. subscriptions[r] \in Subscription
    BY DEF TypeOK
  <2> QED BY <2>1 DEF Subscription
<1>2. SetSubscription(r, e)
  BY DEF BeginSubscribe
<1> QED
  <2> HIDE DEF e
  <2> QED BY <1>1, <1>2, SetSubscriptionType

(* Posting a handler keeps the queue well typed. *)
LEMMA PostType ==
    ASSUME TypeOK, NEW r \in Requests, NEW kind \in {"subscribe", "fire", "retry"},
           Post(kind, r)
    PROVE  ready' \in Seq(Handler)
<1>1. [kind |-> kind, request |-> r] \in Handler
  BY DEF Handler
<1> QED
  BY <1>1 DEF TypeOK, Post

(* So does ending a session, for the entries and the requests in flight. *)
LEMMA SessionEndTypes ==
    ASSUME TypeOK, NEW s \in Sessions
    PROVE  /\ Unlinked(s) \in [Requests -> Subscription]
           /\ Orphaned(s) \in [Requests -> [Sessions \cup {None} -> Nat]]
           /\ EndedSession \in Session /\ FreshSession \in Session
<1>1. \A r \in Requests : [subscriptions[r] EXCEPT !.connection = None] \in Subscription
  <2>1. \A r \in Requests : subscriptions[r] \in Subscription
    BY DEF TypeOK
  <2> QED BY <2>1 DEF Subscription
<1>2. Unlinked(s) \in [Requests -> Subscription]
  BY <1>1 DEF Unlinked, TypeOK
<1>3. \A r \in Requests : creates[r] \in [Sessions \cup {None} -> Nat]
  BY DEF TypeOK
<1>4. Orphaned(s) \in [Requests -> [Sessions \cup {None} -> Nat]]
  BY <1>3 DEF Orphaned
<1>5. EndedSession \in Session /\ FreshSession \in Session
  BY DEF EndedSession, FreshSession, Session
<1> QED
  BY <1>2, <1>4, <1>5

(* Every step preserves the types. *)
LEMMA TypeStep ==
    ASSUME TypeOK, [Next]_vars
    PROVE  TypeOK'
<1>1. ASSUME NEW r \in Requests, Subscribe(r)
      PROVE  TypeOK'
  <2> DEFINE e == [subscriptions[r] EXCEPT
                      !.state = IF NeedToSubscribe(subscriptions[r].state)
                                THEN "Subscribing" ELSE @,
                      !.refCount = @ + 1]
  <2>1. e \in Subscription
    <3>1. subscriptions[r] \in Subscription
      BY EntryType
    <3>2. subscriptions[r].refCount + 1 \in Int
      BY <3>1 DEF Subscription
    <3>3. \A n \in Int, state \in States :
             [subscriptions[r] EXCEPT !.state = state, !.refCount = n] \in Subscription
      BY <3>1 DEF Subscription
    <3>4. (IF NeedToSubscribe(subscriptions[r].state)
           THEN "Subscribing" ELSE subscriptions[r].state) \in States
      BY <3>1 DEF Subscription, States
    <3> QED BY <3>2, <3>3, <3>4
  <2>2. SetSubscription(r, e)
    BY <1>1 DEF Subscribe
  <2>3. known' \in SUBSET Requests /\ subscriptions' \in [Requests -> Subscription]
    <3> HIDE DEF e
    <3> QED BY <2>1, <2>2, SetSubscriptionType
  <2>4. ready' \in Seq(Handler)
    <3>1. CASE Post("subscribe", r)
      BY <3>1, PostType
    <3>2. CASE UNCHANGED ready
      BY <3>2 DEF TypeOK
    <3> QED BY <1>1, <3>1, <3>2 DEF Subscribe
  <2>5. /\ handles' \in [Requests -> Nat]
        /\ UNCHANGED <<sessions, connections, io, creates, deletes, phase,
                       disturbances>>
    BY <1>1 DEF Subscribe, TypeOK
  <2> QED
    BY <2>3, <2>4, <2>5 DEF TypeOK
<1>2. ASSUME NEW r \in Requests, RemoveRef(r)
      PROVE  TypeOK'
  <2> DEFINE e == [subscriptions[r] EXCEPT !.refCount = @ - 1]
             released == [e EXCEPT !.retryTimer = "none"]
             unsubscribing == [released EXCEPT !.state = "Unsubscribing",
                                               !.hasID = FALSE]
  <2>1. /\ e \in Subscription
        /\ released \in Subscription
        /\ unsubscribing \in Subscription
    <3>1. subscriptions[r] \in Subscription
      BY EntryType
    <3>2. subscriptions[r].refCount - 1 \in Int
      BY <3>1 DEF Subscription
    <3>3. \A n \in Int : [subscriptions[r] EXCEPT !.refCount = n] \in Subscription
      BY <3>1 DEF Subscription
    <3>4. e \in Subscription
      BY <3>2, <3>3
    <3> HIDE DEF e
    <3>5. released \in Subscription
      BY <3>4 DEF Subscription
    <3> HIDE DEF released
    <3> QED BY <3>4, <3>5 DEF Subscription, States
  <2>2. \/ SetSubscription(r, e)
        \/ SetSubscription(r, released)
        \/ SetSubscription(r, unsubscribing)
    BY <1>2 DEF RemoveRef
  <2>3. known' \in SUBSET Requests /\ subscriptions' \in [Requests -> Subscription]
    <3> HIDE DEF e, released, unsubscribing
    <3> QED BY <2>1, <2>2, SetSubscriptionType
  <2>4. deletes' \in [Requests -> Nat]
    <3>1. deletes' = deletes \/ deletes' = [deletes EXCEPT ![r] = @ + 1]
      BY <1>2 DEF RemoveRef
    <3>2. deletes \in [Requests -> Nat]
      BY DEF TypeOK
    <3> HIDE DEF e, released, unsubscribing
    <3>3. [deletes EXCEPT ![r] = @ + 1] \in [Requests -> Nat]
      BY <3>2
    <3> QED BY <3>1, <3>2, <3>3
  <2>5. handles' \in [Requests -> Nat]
    <3>1. handles[r] > 0 /\ handles' = [handles EXCEPT ![r] = @ - 1]
      BY <1>2 DEF RemoveRef
    <3> QED BY <3>1 DEF TypeOK
  <2> QED
    BY <1>2, <2>3, <2>4, <2>5 DEF RemoveRef, TypeOK
<1>3. ASSUME NEW r \in Requests, DeleteAnswered(r)
      PROVE  TypeOK'
  <2> DEFINE c == subscriptions[r].connection
             e == [subscriptions[r] EXCEPT !.state = "Subscribing",
                                           !.connection = None]
  <2>1. e \in Subscription /\ c \in Sessions \cup {None}
    BY EntryType DEF Subscription, States
  <2>2. known' \in SUBSET Requests /\ subscriptions' \in [Requests -> Subscription]
    <3>1. CASE UNCHANGED <<known, subscriptions>>
      BY <3>1 DEF TypeOK
    <3>2. CASE EraseSubscription(r)
      BY <3>2, EraseSubscriptionType
    <3>3. CASE SetSubscription(r, e)
      <4> HIDE DEF e
      <4> QED BY <2>1, <3>3, SetSubscriptionType
    <3> QED BY <1>3, <3>1, <3>2, <3>3 DEF DeleteAnswered
  <2>3. ready' \in Seq(Handler)
    <3>1. CASE Post("subscribe", r)
      BY <3>1, PostType
    <3>2. CASE UNCHANGED ready
      BY <3>2 DEF TypeOK
    <3> QED BY <1>3, <3>1, <3>2 DEF DeleteAnswered
  <2>4. sessions' \in [Sessions -> Session]
    <3>1. CASE UNCHANGED sessions
      BY <3>1 DEF TypeOK
    <3>2. CASE c # None /\ sessions' = Delist(c, r)
      <4>1. /\ sessions[c] \in Session /\ c \in Sessions
            /\ sessions \in [Sessions -> Session]
        BY <2>1, <3>2 DEF TypeOK
      <4>2. /\ [sessions[c] EXCEPT !.user = None, !.subs = @ \ {r}] \in Session
            /\ [sessions[c] EXCEPT !.subs = @ \ {r}] \in Session
        BY <4>1 DEF Session
      <4> QED BY <3>2, <4>1, <4>2 DEF Delist
    <3> QED BY <1>3, <3>1, <3>2 DEF DeleteAnswered
  <2>5. deletes' \in [Requests -> Nat]
    BY <1>3 DEF DeleteAnswered, TypeOK
  <2>6. UNCHANGED <<handles, connections, io, creates, phase, disturbances>>
    BY <1>3 DEF DeleteAnswered
  <2> QED
    BY <2>2, <2>3, <2>4, <2>5, <2>6 DEF TypeOK
<1>4. ASSUME NEW r \in Requests, NEW c \in Sessions \cup {None},
             NEW answer \in Answers, CreateAnswered(r, c, answer)
      PROVE  TypeOK'
  <2> DEFINE failed == [subscriptions[r] EXCEPT !.state = "Failed"]
             ok == Established(subscriptions[r], c)
  <2>1. failed \in Subscription /\ ok \in Subscription
    BY EntryType DEF Subscription, States, Established
  <2>2. known' \in SUBSET Requests /\ subscriptions' \in [Requests -> Subscription]
    <3>1. CASE UNCHANGED <<known, subscriptions>>
      BY <3>1 DEF TypeOK
    <3>2. CASE SetSubscription(r, failed) \/ SetSubscription(r, ok)
      <4> HIDE DEF failed, ok
      <4> QED BY <2>1, <3>2, SetSubscriptionType
    <3> QED
      BY <1>4, <3>1, <3>2 DEF CreateAnswered, MarkRequestSubscribed, MarkRequestFailed
  <2>3. ready' \in Seq(Handler)
    <3>1. CASE Post("retry", r)
      BY <3>1, PostType
    <3>2. CASE UNCHANGED ready
      BY <3>2 DEF TypeOK
    <3> QED BY <1>4, <3>1, <3>2 DEF CreateAnswered
  <2>4. sessions' \in [Sessions -> Session]
    <3>1. CASE UNCHANGED sessions
      BY <3>1 DEF TypeOK
    <3>2. CASE c # None /\ sessions' = List(c, r)
      <4>1. /\ sessions[c] \in Session /\ c \in Sessions
            /\ sessions \in [Sessions -> Session]
        BY <3>2 DEF TypeOK
      <4>2. [sessions[c] EXCEPT !.user = Owner[r], !.subs = @ \cup {r}] \in Session
        BY <4>1 DEF Session
      <4> QED BY <3>2, <4>1, <4>2 DEF List
    <3> QED BY <1>4, <3>1, <3>2 DEF CreateAnswered, MarkRequestSubscribed
  <2>5. creates' \in [Requests -> [Sessions \cup {None} -> Nat]]
    <3>0. creates[r][c] > 0 /\ creates' = [creates EXCEPT ![r][c] = @ - 1]
      BY <1>4 DEF CreateAnswered
    <3>1. creates[r] \in [Sessions \cup {None} -> Nat]
      BY DEF TypeOK
    <3>2. creates[r][c] - 1 \in Nat
      BY <3>0, <3>1
    <3>3. [creates[r] EXCEPT ![c] = @ - 1] \in [Sessions \cup {None} -> Nat]
      BY <3>1, <3>2
    <3> QED BY <3>0, <3>3 DEF TypeOK
  <2>6. disturbances' \in Nat
    BY <1>4 DEF CreateAnswered, Disturb, TypeOK
  <2> QED
    BY <1>4, <2>2, <2>3, <2>4, <2>5, <2>6 DEF CreateAnswered, TypeOK
<1>5. CASE SetQuitting
  BY <1>5 DEF SetQuitting, TypeOK
<1>6. CASE Destroy
  <2>1. FreshSubscription \in Subscription /\ EndedSession \in Session
    BY DEF FreshSubscription, Subscription, States, EndedSession, Session
  <2>2. /\ known' \in SUBSET Requests
        /\ subscriptions' \in [Requests -> Subscription]
        /\ sessions' \in [Sessions -> Session]
        /\ connections' \in Seq(Sessions)
        /\ phase' \in {"running", "quitting", "destroyed"}
        /\ UNCHANGED <<handles, ready, io, creates, deletes, disturbances>>
    BY <1>6, <2>1 DEF Destroy
  <2> QED
    BY <2>2 DEF TypeOK
<1>7. CASE RunHandler
  <2> DEFINE r == Head(ready).request
  <2>1. Head(ready) \in Handler /\ Tail(ready) \in Seq(Handler)
    BY <1>7 DEF RunHandler, TypeOK
  <2>2. r \in Requests
    BY <2>1 DEF Handler
  <2>3. known' \in SUBSET Requests /\ subscriptions' \in [Requests -> Subscription]
    <3>1. CASE UNCHANGED <<known, subscriptions>>
      BY <3>1 DEF TypeOK
    <3>2. CASE RetrySubscription(r)
      BY <2>2, <3>2, RetrySubscriptionType
    <3>3. CASE BeginSubscribe(r, Head(ready).kind = "fire")
      BY <2>2, <3>3, BeginSubscribeType
    <3> QED
      BY <1>7, <3>1, <3>2, <3>3 DEF RunHandler
  <2>4. io' = io \/ io' = [io EXCEPT !.at = "pick", !.request = r]
    BY <1>7 DEF RunHandler
  <2> QED
    BY <1>7, <2>1, <2>2, <2>3, <2>4 DEF RunHandler, TypeOK
<1>8. ASSUME NEW r \in Requests, Resubscribe(r)
      PROVE  TypeOK'
  BY <1>8, BeginSubscribeType DEF Resubscribe, TypeOK
<1>9. CASE RequestCreate
  <2> DEFINE r == io.request
  <2>1. PICK i \in Viable(r) : creates' = [creates EXCEPT
                                             ![r][connections[i]] = @ + 1]
    BY <1>9 DEF RequestCreate
  <2>2. /\ r \in Requests /\ creates[r] \in [Sessions \cup {None} -> Nat]
        /\ creates \in [Requests -> [Sessions \cup {None} -> Nat]]
    BY <1>9 DEF RequestCreate, TypeOK
  <2>3. connections[i] \in Sessions
    BY DEF Viable, TypeOK
  <2>4. [creates[r] EXCEPT ![connections[i]] = @ + 1]
           \in [Sessions \cup {None} -> Nat]
    BY <2>2, <2>3
  <2>5. creates' \in [Requests -> [Sessions \cup {None} -> Nat]]
    BY <2>1, <2>2, <2>4
  <2>6. io' \in [at : {"idle"}, request : {None}, rest : SUBSET Requests]
    BY <1>9 DEF RequestCreate, TypeOK
  <2>7. UNCHANGED <<known, subscriptions, handles, sessions, connections, ready,
                    deletes, phase, disturbances>>
    BY <1>9 DEF RequestCreate
  <2> QED
    BY <2>5, <2>6, <2>7 DEF TypeOK
<1>10. CASE CreateConnection
  <2>1. PICK s \in Sessions : sessions' = [sessions EXCEPT ![s] = FreshSession]
                              /\ connections' = Append(connections, s)
    BY <1>10 DEF CreateConnection
  <2>2. FreshSession \in Session
    BY <2>1, SessionEndTypes
  <2>3. sessions' \in [Sessions -> Session] /\ connections' \in Seq(Sessions)
    BY <2>1, <2>2 DEF TypeOK
  <2>4. io' \in [at : {"retry"}, request : Requests, rest : SUBSET Requests]
    BY <1>10 DEF CreateConnection, TypeOK
  <2>5. UNCHANGED <<known, subscriptions, handles, ready, creates, deletes,
                    phase, disturbances>>
    BY <1>10 DEF CreateConnection
  <2> QED
    BY <2>3, <2>4, <2>5 DEF TypeOK
<1>11. CASE AwaitConnection
  BY <1>11 DEF AwaitConnection, TypeOK
<1>12. CASE ScheduleRetry
  <2>1. io.request \in Requests
    BY <1>12 DEF ScheduleRetry, TypeOK
  <2> QED
    BY <1>12, <2>1, RetrySubscriptionType DEF ScheduleRetry, TypeOK
<1>13. ASSUME NEW r \in Requests, RetryTimerExpires(r)
       PROVE  TypeOK'
  <2> DEFINE e == [subscriptions[r] EXCEPT !.retryTimer = "expired"]
  <2>1. e \in Subscription
    BY EntryType DEF Subscription
  <2>2. subscriptions' = [subscriptions EXCEPT ![r] = e]
    BY <1>13 DEF RetryTimerExpires, TypeOK
  <2>3. subscriptions' \in [Requests -> Subscription]
    <3> HIDE DEF e
    <3> QED BY <2>1, <2>2 DEF TypeOK
  <2>4. ready' \in Seq(Handler)
    BY <1>13, PostType DEF RetryTimerExpires
  <2> QED
    BY <1>13, <2>3, <2>4 DEF RetryTimerExpires, TypeOK
<1>14. ASSUME NEW s \in Sessions, SessionWelcome(s)
       PROVE  TypeOK'
  <2>1. [sessions[s] EXCEPT !.welcomed = TRUE] \in Session
    <3>1. sessions[s] \in Session
      BY DEF TypeOK
    <3> QED BY <3>1 DEF Session
  <2>2. sessions' \in [Sessions -> Session]
    BY <1>14, <2>1 DEF SessionWelcome, TypeOK
  <2> QED
    BY <1>14, <2>2 DEF SessionWelcome, TypeOK
<1>15. ASSUME NEW s \in Sessions, SessionLost(s)
       PROVE  TypeOK'
  <2>1. \A r \in Requests :
           [subscriptions[r] EXCEPT !.connection = None, !.state = "Subscribing"]
              \in Subscription
    BY EntryType DEF Subscription, States
  <2>2. subscriptions' \in [Requests -> Subscription]
    BY <1>15, <2>1, SessionEndTypes DEF SessionLost
  <2>3. io' \in [at : {"idle"}, request : {None}, rest : SUBSET Requests]
    <3>1. (IF Running THEN sessions[s].subs ELSE {}) \in SUBSET Requests
      BY DEF TypeOK, Session
    <3> QED BY <1>15, <3>1 DEF SessionLost, TypeOK, IoIdle
  <2>4. connections' \in Seq(Sessions)
    BY <1>15, WithoutType DEF SessionLost, TypeOK
  <2>5. creates' \in [Requests -> [Sessions \cup {None} -> Nat]]
    BY <1>15, SessionEndTypes DEF SessionLost
  <2>6. sessions' \in [Sessions -> Session]
    <3>1. EndedSession \in Session
      BY SessionEndTypes
    <3> QED BY <1>15, <3>1 DEF SessionLost, TypeOK
  <2>7. disturbances' \in Nat
    <3>1. disturbances' = disturbances + 1
      BY <1>15 DEF SessionLost, Disturb
    <3> QED BY <3>1 DEF TypeOK
  <2>8. UNCHANGED <<known, handles, ready, deletes, phase>>
    BY <1>15 DEF SessionLost
  <2> QED
    BY <2>2, <2>3, <2>4, <2>5, <2>6, <2>7, <2>8 DEF TypeOK
<1>16. ASSUME NEW s \in Sessions, SessionReconnect(s)
       PROVE  TypeOK'
  <2>1. /\ Without(connections, s) \in Seq(Sessions)
        /\ Append(Without(connections, s), s) \in Seq(Sessions)
    BY WithoutType DEF TypeOK
  <2>2. /\ subscriptions' \in [Requests -> Subscription]
        /\ creates' \in [Requests -> [Sessions \cup {None} -> Nat]]
    BY <1>16, SessionEndTypes DEF SessionReconnect
  <2>3. sessions' \in [Sessions -> Session]
    <3>1. EndedSession \in Session
      BY SessionEndTypes
    <3> QED BY <1>16, <3>1 DEF SessionReconnect, TypeOK
  <2>4. connections' \in Seq(Sessions) /\ disturbances' \in Nat
    BY <1>16, <2>1 DEF SessionReconnect, Disturb, TypeOK
  <2>5. UNCHANGED <<known, handles, ready, io, deletes, phase>>
    BY <1>16 DEF SessionReconnect
  <2> QED
    BY <2>2, <2>3, <2>4, <2>5 DEF TypeOK
<1>17. CASE UNCHANGED vars
  BY <1>17 DEF vars, TypeOK
<1> QED
  BY <1>1, <1>2, <1>3, <1>4, <1>5, <1>6, <1>7, <1>8, <1>9, <1>10, <1>11, <1>12,
     <1>13, <1>14, <1>15, <1>16, <1>17 DEF Next, GuiStep, IoStep

(* The state of the controller is well typed in every behaviour. *)
THEOREM TypeCorrect == Spec => []TypeOK
<1>1. Init => TypeOK
  <2>1. FreshSubscription \in Subscription /\ EndedSession \in Session
    BY DEF FreshSubscription, Subscription, States, EndedSession, Session
  <2> QED BY <2>1 DEF Init, TypeOK
<1>2. TypeOK /\ [Next]_vars => TypeOK'
  BY TypeStep
<1> QED
  BY <1>1, <1>2, PTL DEF Spec

-----------------------------------------------------------------------------
(* Reference counts *)

(* Writing an entry without touching its count keeps the counts right. *)
LEMMA CountKept ==
    ASSUME TypeOK, HandlesAreCounted, UNCHANGED <<handles, phase>>,
           NEW r \in Requests, NEW e, SetSubscription(r, e),
           e.refCount = subscriptions[r].refCount
    PROVE  HandlesAreCounted'
BY DEF TypeOK, HandlesAreCounted, SetSubscription, Running

(* retrySubscription erases an entry only when nobody holds it. *)
LEMMA RetryKeepsCount ==
    ASSUME TypeOK, HandlesAreCounted, UNCHANGED <<handles, phase>>,
           NEW r \in Requests, RetrySubscription(r)
    PROVE  HandlesAreCounted'
<1> DEFINE e == [subscriptions[r] EXCEPT !.state = "Retrying",
                                         !.retryTimer = "armed"]
<1>1. CASE UNCHANGED <<known, subscriptions>>
  BY <1>1 DEF HandlesAreCounted, Running
<1>2. CASE Running /\ subscriptions[r].refCount = 0 /\ EraseSubscription(r)
  <2>1. FreshSubscription.refCount = 0
    BY DEF FreshSubscription
  <2> QED
    BY <1>2, <2>1 DEF TypeOK, HandlesAreCounted, EraseSubscription, Running
<1>3. CASE SetSubscription(r, e)
  <2>1. e.refCount = subscriptions[r].refCount
    BY EntryType DEF Subscription
  <2> HIDE DEF e
  <2> QED BY <1>3, <2>1, CountKept
<1> QED
  BY <1>1, <1>2, <1>3 DEF RetrySubscription

(* Beginning an attempt does not touch a count. *)
LEMMA BeginKeepsCount ==
    ASSUME TypeOK, HandlesAreCounted, UNCHANGED <<handles, phase>>,
           NEW r \in Requests, NEW isRetry \in BOOLEAN, BeginSubscribe(r, isRetry)
    PROVE  HandlesAreCounted'
<1> DEFINE e == [subscriptions[r] EXCEPT
                    !.retryTimer = IF isRetry THEN "none" ELSE @]
<1>1. e.refCount = subscriptions[r].refCount
  BY EntryType DEF Subscription
<1>2. SetSubscription(r, e)
  BY DEF BeginSubscribe
<1> HIDE DEF e
<1> QED
  BY <1>1, <1>2, CountKept

(* Ending a session does not touch a count either. *)
LEMMA UnlinkingKeepsCount ==
    ASSUME TypeOK, NEW s \in Sessions, NEW q \in Requests
    PROVE  /\ Unlinked(s)[q].refCount = subscriptions[q].refCount
           /\ [subscriptions[q] EXCEPT !.connection = None,
                                       !.state = "Subscribing"].refCount
                 = subscriptions[q].refCount
BY EntryType DEF Unlinked, Subscription

(* Every step keeps the counts right. *)
LEMMA CountStep ==
    ASSUME TypeOK, HandlesAreCounted, [Next]_vars
    PROVE  HandlesAreCounted'
<1>1. ASSUME NEW r \in Requests, Subscribe(r)
      PROVE  HandlesAreCounted'
  <2>1. PICK e : SetSubscription(r, e) /\ e.refCount = subscriptions[r].refCount + 1
    <3> DEFINE e == [subscriptions[r] EXCEPT
                        !.state = IF NeedToSubscribe(subscriptions[r].state)
                                  THEN "Subscribing" ELSE @,
                        !.refCount = @ + 1]
    <3>1. SetSubscription(r, e)
      BY <1>1 DEF Subscribe
    <3>2. e.refCount = subscriptions[r].refCount + 1
      BY EntryType DEF Subscription
    <3> HIDE DEF e
    <3> QED BY <3>1, <3>2
  <2>2. handles' = [handles EXCEPT ![r] = @ + 1] /\ UNCHANGED phase
    BY <1>1 DEF Subscribe
  <2> QED
    BY <2>1, <2>2 DEF TypeOK, HandlesAreCounted, SetSubscription, Running
<1>2. ASSUME NEW r \in Requests, RemoveRef(r)
      PROVE  HandlesAreCounted'
  <2>1. PICK e : SetSubscription(r, e) /\ e.refCount = subscriptions[r].refCount - 1
    <3> DEFINE e == [subscriptions[r] EXCEPT !.refCount = @ - 1]
               released == [e EXCEPT !.retryTimer = "none"]
               unsubscribing == [released EXCEPT !.state = "Unsubscribing",
                                                 !.hasID = FALSE]
    <3>1. \/ SetSubscription(r, e)
          \/ SetSubscription(r, released)
          \/ SetSubscription(r, unsubscribing)
      BY <1>2 DEF RemoveRef
    <3>2. /\ e.refCount = subscriptions[r].refCount - 1
          /\ released.refCount = subscriptions[r].refCount - 1
          /\ unsubscribing.refCount = subscriptions[r].refCount - 1
      BY EntryType DEF Subscription
    <3> HIDE DEF e, released, unsubscribing
    <3> QED BY <3>1, <3>2
  <2>2. Running /\ handles' = [handles EXCEPT ![r] = @ - 1] /\ UNCHANGED phase
    BY <1>2 DEF RemoveRef
  <2> QED
    BY <2>1, <2>2 DEF TypeOK, HandlesAreCounted, SetSubscription, Running
<1>3. ASSUME NEW r \in Requests, DeleteAnswered(r)
      PROVE  HandlesAreCounted'
  <2> DEFINE e == [subscriptions[r] EXCEPT !.state = "Subscribing",
                                           !.connection = None]
  <2>1. UNCHANGED <<handles, phase>>
    BY <1>3 DEF DeleteAnswered
  <2>2. CASE UNCHANGED <<known, subscriptions>>
    BY <2>1, <2>2 DEF HandlesAreCounted, Running
  <2>3. CASE subscriptions[r].refCount = 0 /\ EraseSubscription(r)
    <3>1. FreshSubscription.refCount = 0
      BY DEF FreshSubscription
    <3> QED
      BY <2>1, <2>3, <3>1 DEF TypeOK, HandlesAreCounted, EraseSubscription, Running
  <2>4. CASE SetSubscription(r, e)
    <3>1. e.refCount = subscriptions[r].refCount
      BY EntryType DEF Subscription
    <3> HIDE DEF e
    <3> QED BY <2>1, <2>4, <3>1, CountKept
  <2> QED
    BY <1>3, <2>2, <2>3, <2>4 DEF DeleteAnswered
<1>4. ASSUME NEW r \in Requests, NEW c \in Sessions \cup {None},
             NEW answer \in Answers, CreateAnswered(r, c, answer)
      PROVE  HandlesAreCounted'
  <2> DEFINE failed == [subscriptions[r] EXCEPT !.state = "Failed"]
             ok == Established(subscriptions[r], c)
  <2>1. UNCHANGED <<handles, phase>>
    BY <1>4 DEF CreateAnswered
  <2>2. CASE UNCHANGED <<known, subscriptions>>
    BY <2>1, <2>2 DEF HandlesAreCounted, Running
  <2>3. CASE SetSubscription(r, failed) \/ SetSubscription(r, ok)
    <3>1. /\ failed.refCount = subscriptions[r].refCount
          /\ ok.refCount = subscriptions[r].refCount
      BY EntryType DEF Subscription, Established
    <3> HIDE DEF failed, ok
    <3> QED BY <2>1, <2>3, <3>1, CountKept
  <2> QED
    BY <1>4, <2>2, <2>3
       DEF CreateAnswered, MarkRequestSubscribed, MarkRequestFailed
<1>5. CASE SetQuitting \/ Destroy
  BY <1>5 DEF SetQuitting, Destroy, HandlesAreCounted, Running
<1>6. CASE RunHandler
  <2> DEFINE r == Head(ready).request
  <2>0. Head(ready) \in Handler
    BY <1>6 DEF RunHandler, TypeOK
  <2>1. r \in Requests
    BY <2>0 DEF Handler
  <2>2. UNCHANGED <<handles, phase>>
    BY <1>6 DEF RunHandler
  <2>3. CASE UNCHANGED <<known, subscriptions>>
    BY <2>2, <2>3 DEF HandlesAreCounted, Running
  <2>4. CASE RetrySubscription(r)
    BY <2>1, <2>2, <2>4, RetryKeepsCount
  <2>5. CASE BeginSubscribe(r, Head(ready).kind = "fire")
    BY <2>1, <2>2, <2>5, BeginKeepsCount
  <2> QED
    BY <1>6, <2>3, <2>4, <2>5 DEF RunHandler
<1>7. ASSUME NEW r \in Requests, Resubscribe(r)
      PROVE  HandlesAreCounted'
  BY <1>7, BeginKeepsCount DEF Resubscribe
<1>8. CASE RequestCreate \/ CreateConnection \/ AwaitConnection
  BY <1>8 DEF RequestCreate, CreateConnection, AwaitConnection,
              HandlesAreCounted, Running
<1>9. CASE ScheduleRetry
  <2>1. io.request \in Requests
    BY <1>9 DEF ScheduleRetry, TypeOK
  <2> QED
    BY <1>9, <2>1, RetryKeepsCount DEF ScheduleRetry
<1>10. ASSUME NEW r \in Requests, RetryTimerExpires(r)
       PROVE  HandlesAreCounted'
  <2> DEFINE e == [subscriptions[r] EXCEPT !.retryTimer = "expired"]
  <2>1. e.refCount = subscriptions[r].refCount
    BY EntryType DEF Subscription
  <2>2. subscriptions' = [subscriptions EXCEPT ![r] = e]
    BY <1>10 DEF RetryTimerExpires, TypeOK
  <2> HIDE DEF e
  <2>3. UNCHANGED <<known, handles, phase>>
    BY <1>10 DEF RetryTimerExpires
  <2> QED
    BY <2>1, <2>2, <2>3 DEF TypeOK, HandlesAreCounted, Running
<1>11. ASSUME NEW s \in Sessions,
              SessionWelcome(s) \/ SessionLost(s) \/ SessionReconnect(s)
       PROVE  HandlesAreCounted'
  <2>1. UNCHANGED <<known, handles, phase>>
    BY <1>11 DEF SessionWelcome, SessionLost, SessionReconnect
  <2>2. \A q \in Requests : subscriptions'[q].refCount = subscriptions[q].refCount
    <3>1. CASE SessionWelcome(s)
      BY <3>1 DEF SessionWelcome
    <3>2. CASE SessionLost(s)
      BY <3>2, UnlinkingKeepsCount DEF SessionLost
    <3>3. CASE SessionReconnect(s)
      BY <3>3, UnlinkingKeepsCount DEF SessionReconnect
    <3> QED BY <1>11, <3>1, <3>2, <3>3
  <2> QED
    BY <2>1, <2>2 DEF HandlesAreCounted, Running
<1>12. CASE UNCHANGED vars
  BY <1>12 DEF vars, HandlesAreCounted, Running
<1> QED
  BY <1>1, <1>2, <1>3, <1>4, <1>5, <1>6, <1>7, <1>8, <1>9, <1>10, <1>11, <1>12
     DEF Next, GuiStep, IoStep

(* As long as the application runs, an entry counts exactly the handles     *)
(* that are alive, and is in the map while one is: no interleaving of       *)
(* releases, retries and answers erases a held entry.                       *)
THEOREM HandlesCounted == Spec => []HandlesAreCounted
<1>1. Init => HandlesAreCounted
  BY DEF Init, HandlesAreCounted, FreshSubscription
<1>2. TypeOK /\ HandlesAreCounted /\ [Next]_vars => HandlesAreCounted'
  BY CountStep
<1> QED
  BY <1>1, <1>2, TypeCorrect, PTL DEF Spec

-----------------------------------------------------------------------------
(* Sessions *)

SessionsUnchanged == UNCHANGED sessions

(* The steps that touch a session. *)
LEMMA SessionSteps ==
    ASSUME [Next]_vars
    PROVE  \/ SessionsUnchanged
           \/ Destroy \/ CreateConnection
           \/ \E s \in Sessions : SessionWelcome(s) \/ SessionLost(s)
                                                   \/ SessionReconnect(s)
           \/ \E r \in Requests, c \in Sessions \cup {None} :
                 c # None /\ sessions' = List(c, r)
           \/ \E r \in Requests :
                 /\ subscriptions[r].connection # None
                 /\ sessions' = Delist(subscriptions[r].connection, r)
<1>1. ASSUME NEW r \in Requests, Subscribe(r) \/ RemoveRef(r)
      PROVE  SessionsUnchanged
  BY <1>1 DEF Subscribe, RemoveRef, SessionsUnchanged
<1>2. ASSUME NEW r \in Requests, DeleteAnswered(r)
      PROVE  \/ SessionsUnchanged
             \/ /\ subscriptions[r].connection # None
                /\ sessions' = Delist(subscriptions[r].connection, r)
  BY <1>2 DEF DeleteAnswered, SessionsUnchanged
<1>3. ASSUME NEW r \in Requests, NEW c \in Sessions \cup {None},
             NEW answer \in Answers, CreateAnswered(r, c, answer)
      PROVE  SessionsUnchanged \/ (c # None /\ sessions' = List(c, r))
  BY <1>3 DEF CreateAnswered, MarkRequestSubscribed, SessionsUnchanged
<1>4. CASE SetQuitting \/ RunHandler \/ RequestCreate \/ AwaitConnection
              \/ ScheduleRetry \/ UNCHANGED vars
  BY <1>4 DEF SetQuitting, RunHandler, RequestCreate, AwaitConnection,
              ScheduleRetry, vars, SessionsUnchanged
<1>5. ASSUME NEW r \in Requests, Resubscribe(r) \/ RetryTimerExpires(r)
      PROVE  SessionsUnchanged
  BY <1>5 DEF Resubscribe, RetryTimerExpires, SessionsUnchanged
<1> QED
  BY <1>1, <1>2, <1>3, <1>4, <1>5 DEF Next, GuiStep, IoStep

(* Recording or removing a request leaves a session as live and as ready. *)
LEMMA ListingKeepsReadiness ==
    ASSUME TypeOK, NEW r \in Requests, NEW c \in Sessions,
           sessions' = List(c, r) \/ sessions' = Delist(c, r), NEW s \in Sessions
    PROVE  /\ sessions'[s].live = sessions[s].live
           /\ sessions'[s].welcomed = sessions[s].welcomed
<1>1. sessions \in [Sessions -> Session] /\ sessions[s] \in Session
  BY DEF TypeOK
<1>2. DOMAIN sessions[s] = {"live", "welcomed", "user", "subs"}
  BY <1>1 DEF Session
<1>3. CASE sessions' = List(c, r)
  BY <1>1, <1>2, <1>3 DEF List
<1>4. CASE sessions' = Delist(c, r)
  BY <1>1, <1>2, <1>4 DEF Delist
<1> QED
  BY <1>3, <1>4

NotReadyIsUnique == \A s, t \in OpenButNotReady : s = t

(* A connection is only opened while none is pending, and a moved listener  *)
(* keeps its session ID.                                                    *)
LEMMA NotReadyStep ==
    ASSUME TypeOK, NotReadyIsUnique, [Next]_vars
    PROVE  NotReadyIsUnique'
<1>1. CASE SessionsUnchanged
  BY <1>1 DEF SessionsUnchanged, NotReadyIsUnique, OpenButNotReady
<1>2. CASE Destroy
  BY <1>2 DEF Destroy, EndedSession, NotReadyIsUnique, OpenButNotReady
<1>3. CASE CreateConnection
  <2>1. PICK s \in Sessions : sessions' = [sessions EXCEPT ![s] = FreshSession]
    BY <1>3 DEF CreateConnection
  <2>2. OpenButNotReady = {}
    BY <1>3 DEF CreateConnection, ConnectionPending
  <2> QED
    BY <2>1, <2>2 DEF TypeOK, NotReadyIsUnique, OpenButNotReady
<1>4. ASSUME NEW s \in Sessions,
             SessionWelcome(s) \/ SessionLost(s) \/ SessionReconnect(s)
      PROVE  NotReadyIsUnique'
  <2>1. OpenButNotReady' \subseteq OpenButNotReady
    <3>1. CASE SessionWelcome(s)
      <4>1. sessions' = [sessions EXCEPT ![s] = [@ EXCEPT !.welcomed = TRUE]]
        BY <3>1 DEF SessionWelcome
      <4>2. [sessions[s] EXCEPT !.welcomed = TRUE].welcomed
        BY DEF TypeOK, Session
      <4> QED BY <4>1, <4>2 DEF TypeOK, OpenButNotReady
    <3>2. CASE SessionLost(s)
      BY <3>2 DEF SessionLost, EndedSession, OpenButNotReady, TypeOK
    <3>3. CASE SessionReconnect(s)
      BY <3>3 DEF SessionReconnect, EndedSession, OpenButNotReady, TypeOK
    <3> QED BY <1>4, <3>1, <3>2, <3>3
  <2> QED
    BY <2>1 DEF NotReadyIsUnique
<1>5. ASSUME NEW r \in Requests, NEW c \in Sessions,
             sessions' = List(c, r) \/ sessions' = Delist(c, r)
      PROVE  NotReadyIsUnique'
  BY <1>5, ListingKeepsReadiness DEF NotReadyIsUnique, OpenButNotReady
<1>6. \A r \in Requests :
         subscriptions[r].connection # None => subscriptions[r].connection \in Sessions
  BY EntryType DEF Subscription
<1> QED
  BY <1>1, <1>2, <1>3, <1>4, <1>5, <1>6, SessionSteps

(* At most one connection is open but not ready, so a burst of requests     *)
(* opens one connection and not one each.                                   *)
THEOREM OneNotReady == Spec => []AtMostOneNotReady
<1>1. Init => NotReadyIsUnique
  BY DEF Init, NotReadyIsUnique, OpenButNotReady, EndedSession
<1>2. TypeOK /\ NotReadyIsUnique /\ [Next]_vars => NotReadyIsUnique'
  BY NotReadyStep
<1>3. NotReadyIsUnique => AtMostOneNotReady
  <2> SUFFICES ASSUME NotReadyIsUnique
               PROVE  Cardinality(OpenButNotReady) <= 1
    BY DEF AtMostOneNotReady
  <2>1. CASE OpenButNotReady = {}
    BY <2>1, FS_EmptySet
  <2>2. ASSUME NEW s \in OpenButNotReady
        PROVE  Cardinality(OpenButNotReady) <= 1
    <3>1. OpenButNotReady = {s}
      BY <2>2 DEF NotReadyIsUnique
    <3>2. Cardinality({s}) = 1
      BY FS_Singleton
    <3> QED BY <3>1, <3>2
  <2> QED BY <2>1, <2>2
<1> QED
  BY <1>1, <1>2, <1>3, TypeCorrect, PTL DEF Spec

-----------------------------------------------------------------------------
(* Whom a session serves, and what for *)

(* What recording a request, and removing one, make of a session. *)
LEMMA Listing ==
    ASSUME TypeOK, NEW r \in Requests, NEW c \in Sessions, NEW s \in Sessions,
           sessions' = List(c, r)
    PROVE  IF s = c
           THEN sessions'[s].user = Owner[r] /\ sessions'[s].subs = sessions[s].subs \cup {r}
           ELSE sessions'[s] = sessions[s]
<1>1. sessions \in [Sessions -> Session] /\ sessions[s] \in Session
  BY DEF TypeOK
<1>2. DOMAIN sessions[s] = {"live", "welcomed", "user", "subs"}
  BY <1>1 DEF Session
<1> QED
  BY <1>1, <1>2 DEF List

LEMMA Delisting ==
    ASSUME TypeOK, NEW r \in Requests, NEW c \in Sessions, NEW s \in Sessions,
           sessions' = Delist(c, r)
    PROVE  IF s = c
           THEN /\ sessions'[s].user =
                       IF sessions[s].subs \subseteq {r} THEN None ELSE sessions[s].user
                /\ sessions'[s].subs = sessions[s].subs \ {r}
           ELSE sessions'[s] = sessions[s]
<1>1. sessions \in [Sessions -> Session] /\ sessions[s] \in Session
  BY DEF TypeOK
<1>2. DOMAIN sessions[s] = {"live", "welcomed", "user", "subs"}
  BY <1>1 DEF Session
<1> QED
  BY <1>1, <1>2 DEF Delist

(* Losing a session or moving its listener leaves a session as it is or     *)
(* ended; a welcome changes neither its user nor its subscriptions.         *)
LEMMA SessionFates ==
    ASSUME TypeOK, NEW s \in Sessions, NEW t \in Sessions,
           SessionWelcome(t) \/ SessionLost(t) \/ SessionReconnect(t)
    PROVE  \/ sessions'[s] = EndedSession /\ s = t
           \/ /\ sessions'[s].user = sessions[s].user
              /\ sessions'[s].subs = sessions[s].subs
              /\ sessions'[s].live = sessions[s].live
<1>1. sessions \in [Sessions -> Session] /\ sessions[s] \in Session
  BY DEF TypeOK
<1>2. DOMAIN sessions[s] = {"live", "welcomed", "user", "subs"}
  BY <1>1 DEF Session
<1>3. CASE SessionWelcome(t)
  BY <1>1, <1>2, <1>3 DEF SessionWelcome
<1>4. CASE SessionLost(t)
  BY <1>1, <1>4 DEF SessionLost
<1>5. CASE SessionReconnect(t)
  BY <1>1, <1>5 DEF SessionReconnect
<1> QED
  BY <1>3, <1>4, <1>5

(* A session gets its user with its first subscription and gives it up with *)
(* its last.                                                                *)
LEMMA BoundStep ==
    ASSUME TypeOK, BoundWhileInUse, [Next]_vars
    PROVE  BoundWhileInUse'
<1> SUFFICES ASSUME NEW s \in Sessions
             PROVE  sessions'[s].user = None <=> sessions'[s].subs = {}
  BY DEF BoundWhileInUse
<1>0. sessions[s].user = None <=> sessions[s].subs = {}
  BY DEF BoundWhileInUse
<1>1. CASE SessionsUnchanged
  BY <1>0, <1>1 DEF SessionsUnchanged
<1>2. CASE Destroy
  BY <1>2 DEF Destroy, EndedSession
<1>3. CASE CreateConnection
  BY <1>0, <1>3 DEF CreateConnection, FreshSession, EndedSession, TypeOK
<1>4. ASSUME NEW t \in Sessions,
             SessionWelcome(t) \/ SessionLost(t) \/ SessionReconnect(t)
      PROVE  sessions'[s].user = None <=> sessions'[s].subs = {}
  BY <1>0, <1>4, SessionFates DEF EndedSession
<1>5. ASSUME NEW r \in Requests, NEW c \in Sessions, sessions' = List(c, r)
      PROVE  sessions'[s].user = None <=> sessions'[s].subs = {}
  <2>1. Owner[r] # None
    OBVIOUS
  <2> QED
    BY <1>0, <1>5, <2>1, Listing
<1>6. ASSUME NEW r \in Requests, NEW c \in Sessions, sessions' = Delist(c, r)
      PROVE  sessions'[s].user = None <=> sessions'[s].subs = {}
  BY <1>0, <1>6, Delisting
<1>7. \A r \in Requests :
         subscriptions[r].connection # None => subscriptions[r].connection \in Sessions
  BY EntryType DEF Subscription
<1> QED
  BY <1>1, <1>2, <1>3, <1>4, <1>5, <1>6, <1>7, SessionSteps

(* A session has a user exactly while it carries subscriptions, whatever is *)
(* answered and lost (Connection::markRequestSubscribed,                    *)
(* markRequestUnsubscribed).                                                *)
THEOREM BoundInUse == Spec => []BoundWhileInUse
<1>1. Init => BoundWhileInUse
  BY DEF Init, BoundWhileInUse, EndedSession
<1>2. TypeOK /\ BoundWhileInUse /\ [Next]_vars => BoundWhileInUse'
  BY BoundStep
<1> QED
  BY <1>1, <1>2, TypeCorrect, PTL DEF Spec

-----------------------------------------------------------------------------
(* What the state of an entry says *)

(* The state of an entry is left alone, *)
KeepsState(q) ==
    /\ subscriptions'[q].state = subscriptions[q].state
    /\ subscriptions'[q].hasID = subscriptions[q].hasID
    /\ deletes'[q] >= deletes[q]
    /\ subscriptions'[q].state = "Unsubscribed" => handles'[q] <= handles[q]

(* or set to one that is backed by what it says. *)
SetsState(q) ==
    \/ subscriptions'[q].state \in {"Subscribing", "Retrying", "Failed"}
    \/ subscriptions'[q].state = "Unsubscribing" /\ deletes'[q] > 0
    \/ subscriptions'[q].state = "Subscribed" /\ subscriptions'[q].hasID
    \/ subscriptions'[q].state = "Unsubscribed" /\ handles'[q] = 0

(* Writing, erasing and retrying an entry leave the others alone. *)
LEMMA Written ==
    ASSUME TypeOK, NEW r \in Requests, NEW e, NEW q \in Requests,
           SetSubscription(r, e)
    PROVE  subscriptions'[q] = IF q = r THEN e ELSE subscriptions[q]
BY DEF TypeOK, SetSubscription

LEMMA Erased ==
    ASSUME TypeOK, NEW r \in Requests, NEW q \in Requests, EraseSubscription(r)
    PROVE  subscriptions'[q] = IF q = r THEN FreshSubscription ELSE subscriptions[q]
BY DEF TypeOK, EraseSubscription

LEMMA Unwritten ==
    ASSUME TypeOK, NEW q \in Requests, subscriptions'[q] = subscriptions[q],
           deletes'[q] = deletes[q], handles'[q] = handles[q]
    PROVE  KeepsState(q)
BY DEF TypeOK, KeepsState

LEMMA RetryStates ==
    ASSUME TypeOK, HandlesAreCounted, UNCHANGED <<handles, deletes>>,
           NEW r \in Requests, RetrySubscription(r), NEW q \in Requests
    PROVE  KeepsState(q) \/ SetsState(q)
<1> DEFINE e == [subscriptions[r] EXCEPT !.state = "Retrying",
                                         !.retryTimer = "armed"]
<1>1. CASE UNCHANGED <<known, subscriptions>> \/ q # r
  <2>1. subscriptions'[q] = subscriptions[q]
    BY <1>1, Written, Erased DEF RetrySubscription
  <2> QED
    BY <2>1, Unwritten
<1>2. CASE q = r /\ Running /\ subscriptions[r].refCount = 0 /\ EraseSubscription(r)
  <2>1. subscriptions'[q].state = "Unsubscribed"
    BY <1>2, Erased DEF FreshSubscription
  <2>2. handles'[q] = 0
    BY <1>2 DEF HandlesAreCounted
  <2> QED
    BY <2>1, <2>2 DEF SetsState
<1>3. CASE q = r /\ SetSubscription(r, e)
  <2>1. e.state = "Retrying"
    BY EntryType DEF Subscription
  <2> HIDE DEF e
  <2>2. subscriptions'[q] = e
    BY <1>3, Written
  <2> QED
    BY <2>1, <2>2 DEF SetsState
<1> QED
  BY <1>1, <1>2, <1>3 DEF RetrySubscription

LEMMA BeginStates ==
    ASSUME TypeOK, UNCHANGED <<handles, deletes>>, NEW r \in Requests,
           NEW isRetry \in BOOLEAN, BeginSubscribe(r, isRetry), NEW q \in Requests
    PROVE  KeepsState(q)
<1> DEFINE e == [subscriptions[r] EXCEPT
                    !.retryTimer = IF isRetry THEN "none" ELSE @]
<1>1. e.state = subscriptions[r].state /\ e.hasID = subscriptions[r].hasID
  BY EntryType DEF Subscription
<1>2. SetSubscription(r, e)
  BY DEF BeginSubscribe
<1> HIDE DEF e
<1>3. subscriptions'[q] = IF q = r THEN e ELSE subscriptions[q]
  BY <1>2, Written
<1> QED
  BY <1>1, <1>3, SMTT(40) DEF TypeOK, KeepsState

(* What runs has been running. *)
LEMMA RunningBefore ==
    ASSUME [Next]_vars, Running'
    PROVE  Running
BY DEF Next, GuiStep, IoStep, vars, Running, Subscribe, RemoveRef, DeleteAnswered,
       CreateAnswered, SetQuitting, Destroy, RunHandler, Resubscribe, RequestCreate,
       CreateConnection, AwaitConnection, ScheduleRetry, RetryTimerExpires,
       SessionWelcome, SessionLost, SessionReconnect

(* While the application runs, every step does one of the two.              *)
LEMMA StateSteps ==
    ASSUME TypeOK, HandlesAreCounted, [Next]_vars, Running', NEW q \in Requests
    PROVE  Running /\ (KeepsState(q) \/ SetsState(q))
<1>0. Running
  BY RunningBefore
<1> SUFFICES KeepsState(q) \/ SetsState(q)
  BY <1>0
<1>others. ASSUME NEW r \in Requests, q # r,
             \/ EraseSubscription(r) \/ \E e : SetSubscription(r, e),
             handles'[q] = handles[q], deletes'[q] = deletes[q]
      PROVE  KeepsState(q)
  BY <1>others, Written, Erased, Unwritten
<1>1. ASSUME NEW r \in Requests, Subscribe(r)
      PROVE  KeepsState(q) \/ SetsState(q)
  <2> DEFINE need == NeedToSubscribe(subscriptions[r].state)
             e == [subscriptions[r] EXCEPT !.state = IF need THEN "Subscribing" ELSE @,
                                           !.refCount = @ + 1]
  <2>1. /\ e.state = IF need THEN "Subscribing" ELSE subscriptions[r].state
        /\ e.hasID = subscriptions[r].hasID
    BY EntryType DEF Subscription
  <2>2. SetSubscription(r, e)
    BY <1>1 DEF Subscribe
  <2>3. need \/ subscriptions[r].state # "Unsubscribed"
    BY DEF NeedToSubscribe
  <2> HIDE DEF e, need
  <2>4. subscriptions'[q] = IF q = r THEN e ELSE subscriptions[q]
    BY <2>2, Written
  <2>5. UNCHANGED deletes /\ handles' = [handles EXCEPT ![r] = @ + 1]
    BY <1>1 DEF Subscribe
  <2> QED
    BY <2>1, <2>3, <2>4, <2>5 DEF TypeOK, KeepsState, SetsState
<1>2. ASSUME NEW r \in Requests, RemoveRef(r)
      PROVE  KeepsState(q) \/ SetsState(q)
  <2> DEFINE e == [subscriptions[r] EXCEPT !.refCount = @ - 1]
             released == [e EXCEPT !.retryTimer = "none"]
             unsubscribing == [released EXCEPT !.state = "Unsubscribing",
                                               !.hasID = FALSE]
  <2>1. \/ (SetSubscription(r, e) \/ SetSubscription(r, released)) /\ UNCHANGED deletes
        \/ /\ SetSubscription(r, unsubscribing)
           /\ deletes' = [deletes EXCEPT ![r] = @ + 1]
    BY <1>2 DEF RemoveRef
  <2>2. /\ e.state = subscriptions[r].state /\ e.hasID = subscriptions[r].hasID
        /\ released.state = subscriptions[r].state
        /\ released.hasID = subscriptions[r].hasID
        /\ unsubscribing.state = "Unsubscribing"
    BY EntryType DEF Subscription
  <2> HIDE DEF e, released, unsubscribing
  <2>3. handles[r] > 0 /\ handles' = [handles EXCEPT ![r] = @ - 1]
    BY <1>2 DEF RemoveRef
  <2>4. CASE (SetSubscription(r, e) \/ SetSubscription(r, released)) /\ UNCHANGED deletes
    <3>1. CASE q # r
      BY <1>others, <2>3, <2>4, <3>1 DEF TypeOK
    <3>2. CASE q = r
      <4>1. subscriptions'[q] \in {e, released}
        BY <2>4, <3>2, Written
      <4>2. deletes'[q] = deletes[q] /\ handles'[q] <= handles[q]
        BY <2>3, <2>4, <3>2 DEF TypeOK
      <4>3. /\ subscriptions'[q].state = subscriptions[q].state
            /\ subscriptions'[q].hasID = subscriptions[q].hasID
        BY <2>2, <3>2, <4>1
      <4>4. deletes'[q] >= deletes[q]
        BY <4>2 DEF TypeOK
      <4> QED
        BY <4>2, <4>3, <4>4 DEF KeepsState
    <3> QED
      BY <3>1, <3>2
  <2>5. CASE /\ SetSubscription(r, unsubscribing)
             /\ deletes' = [deletes EXCEPT ![r] = @ + 1]
    <3>1. CASE q # r
      BY <1>others, <2>3, <2>5, <3>1 DEF TypeOK
    <3>2. CASE q = r
      <4>1. subscriptions'[q] = unsubscribing
        BY <2>5, <3>2, Written
      <4>2. deletes'[q] > 0
        BY <2>5, <3>2 DEF TypeOK
      <4> QED
        BY <2>2, <4>1, <4>2 DEF SetsState
    <3> QED
      BY <3>1, <3>2
  <2> QED
    BY <2>1, <2>4, <2>5
<1>3. ASSUME NEW r \in Requests, DeleteAnswered(r)
      PROVE  KeepsState(q) \/ SetsState(q)
  <2> DEFINE e == [subscriptions[r] EXCEPT !.state = "Subscribing",
                                           !.connection = None]
  <2>1. UNCHANGED handles /\ deletes' = [deletes EXCEPT ![r] = @ - 1]
    BY <1>3 DEF DeleteAnswered
  <2>2. CASE subscriptions[r].refCount = 0 /\ EraseSubscription(r)
    <3>1. FreshSubscription.state = "Unsubscribed"
      BY DEF FreshSubscription
    <3>2. handles[r] = 0
      BY <1>0, <2>2 DEF HandlesAreCounted
    <3>3. CASE q # r
      BY <1>others, <2>1, <2>2, <3>3 DEF TypeOK
    <3>4. CASE q = r
      BY <2>1, <2>2, <3>1, <3>2, <3>4, Erased DEF SetsState
    <3> QED
      BY <3>3, <3>4
  <2>3. CASE SetSubscription(r, e)
    <3>1. e.state = "Subscribing"
      BY EntryType DEF Subscription
    <3> HIDE DEF e
    <3>3. CASE q # r
      BY <1>others, <2>1, <2>3, <3>3 DEF TypeOK
    <3>4. CASE q = r
      BY <2>3, <3>1, <3>4, Written DEF SetsState
    <3> QED
      BY <3>3, <3>4
  <2> QED
    BY <1>0, <1>3, <2>2, <2>3 DEF DeleteAnswered
<1>4. ASSUME NEW r \in Requests, NEW c \in Sessions \cup {None},
             NEW answer \in Answers, CreateAnswered(r, c, answer)
      PROVE  KeepsState(q) \/ SetsState(q)
  <2> DEFINE failed == [subscriptions[r] EXCEPT !.state = "Failed"]
             ok == Established(subscriptions[r], c)
  <2>1. UNCHANGED <<handles, deletes>>
    BY <1>4 DEF CreateAnswered
  <2>2. CASE UNCHANGED <<known, subscriptions>>
    BY <2>1, <2>2, Unwritten
  <2>3. CASE SetSubscription(r, failed) \/ SetSubscription(r, ok)
    <3>1. /\ failed.state = "Failed"
          /\ ok.state = "Subscribed" /\ ok.hasID
      BY EntryType DEF Subscription, Established
    <3> HIDE DEF failed, ok
    <3>2. CASE q = r
      BY <2>3, <3>1, <3>2, Written DEF SetsState
    <3>3. CASE q # r
      BY <2>1, <2>3, <3>3, Written, Unwritten
    <3> QED
      BY <3>2, <3>3
  <2> QED
    BY <1>4, <2>2, <2>3
       DEF CreateAnswered, MarkRequestSubscribed, MarkRequestFailed
<1>5. CASE SetQuitting \/ Destroy
  BY <1>5 DEF SetQuitting, Destroy, Running
<1>6. CASE RunHandler
  <2> DEFINE r == Head(ready).request
  <2>0. Head(ready) \in Handler
    BY <1>6 DEF RunHandler, TypeOK
  <2>1. r \in Requests
    BY <2>0 DEF Handler
  <2>2. UNCHANGED <<handles, deletes>>
    BY <1>6 DEF RunHandler
  <2>3. CASE UNCHANGED <<known, subscriptions>>
    BY <2>2, <2>3, Unwritten
  <2>4. CASE RetrySubscription(r)
    BY <2>1, <2>2, <2>4, RetryStates
  <2>5. CASE BeginSubscribe(r, Head(ready).kind = "fire")
    BY <2>1, <2>2, <2>5, BeginStates
  <2> QED
    BY <1>6, <2>3, <2>4, <2>5 DEF RunHandler
<1>7. ASSUME NEW r \in Requests, Resubscribe(r)
      PROVE  KeepsState(q) \/ SetsState(q)
  BY <1>7, BeginStates DEF Resubscribe
<1>8. CASE RequestCreate \/ CreateConnection \/ AwaitConnection \/ UNCHANGED vars
  BY <1>8, Unwritten DEF RequestCreate, CreateConnection, AwaitConnection, vars
<1>9. CASE ScheduleRetry
  <2>1. io.request \in Requests
    BY <1>9 DEF ScheduleRetry, TypeOK
  <2> QED
    BY <1>9, <2>1, RetryStates DEF ScheduleRetry
<1>10. ASSUME NEW r \in Requests, RetryTimerExpires(r)
       PROVE  KeepsState(q) \/ SetsState(q)
  <2> DEFINE e == [subscriptions[r] EXCEPT !.retryTimer = "expired"]
  <2>1. e.state = subscriptions[r].state /\ e.hasID = subscriptions[r].hasID
    BY EntryType DEF Subscription
  <2>2. subscriptions' = [subscriptions EXCEPT ![r] = e]
    BY <1>10 DEF RetryTimerExpires, TypeOK
  <2> HIDE DEF e
  <2>3. UNCHANGED <<handles, deletes>>
    BY <1>10 DEF RetryTimerExpires
  <2> QED
    BY <2>1, <2>2, <2>3 DEF TypeOK, KeepsState
<1>11. ASSUME NEW s \in Sessions,
              SessionWelcome(s) \/ SessionLost(s) \/ SessionReconnect(s)
       PROVE  KeepsState(q) \/ SetsState(q)
  <2>1. UNCHANGED <<handles, deletes>>
    BY <1>11 DEF SessionWelcome, SessionLost, SessionReconnect
  <2>2. /\ Unlinked(s)[q].state = subscriptions[q].state
        /\ Unlinked(s)[q].hasID = subscriptions[q].hasID
        /\ [subscriptions[q] EXCEPT !.connection = None,
                                    !.state = "Subscribing"].state = "Subscribing"
    BY EntryType DEF Unlinked, Subscription
  <2>3. CASE SessionWelcome(s)
    BY <2>1, <2>3, Unwritten DEF SessionWelcome
  <2>4. CASE SessionLost(s)
    <3>1. \/ subscriptions'[q] = Unlinked(s)[q]
          \/ subscriptions'[q].state = "Subscribing"
      BY <2>2, <2>4 DEF SessionLost
    <3> QED
      BY <2>1, <2>2, <3>1 DEF TypeOK, KeepsState, SetsState
  <2>5. CASE SessionReconnect(s)
    BY <2>1, <2>2, <2>5 DEF SessionReconnect, TypeOK, KeepsState
  <2> QED
    BY <1>11, <2>3, <2>4, <2>5
<1> QED
  BY <1>0, <1>1, <1>2, <1>3, <1>4, <1>5, <1>6, <1>7, <1>8, <1>9, <1>10, <1>11
     DEF Next, GuiStep, IoStep

(* "An unsubscribed subscription should have 0 references": only the last   *)
(* handle's end takes an entry back to that state, and a new handle takes   *)
(* it out again (Controller::subscribe, removeRef, retrySubscription).      *)
THEOREM UnsubscribedUnreferenced == Spec => []UnsubscribedIsUnreferenced
<1>1. Init => UnsubscribedIsUnreferenced
  BY DEF Init, UnsubscribedIsUnreferenced
<1>2. TypeOK /\ HandlesAreCounted /\ UnsubscribedIsUnreferenced /\ [Next]_vars
      => UnsubscribedIsUnreferenced'
  <2> SUFFICES ASSUME TypeOK, HandlesAreCounted, UnsubscribedIsUnreferenced, [Next]_vars,
                      Running', NEW q \in Requests, TypeOK',
                      subscriptions'[q].state = "Unsubscribed"
               PROVE  handles'[q] = 0
    BY TypeStep DEF UnsubscribedIsUnreferenced
  <2>1. Running /\ (KeepsState(q) \/ SetsState(q))
    BY StateSteps
  <2>2. handles[q] \in Nat /\ handles'[q] \in Nat
    BY DEF TypeOK
  <2> QED
    BY <2>1, <2>2 DEF UnsubscribedIsUnreferenced, KeepsState, SetsState
<1> QED
  BY <1>1, <1>2, TypeCorrect, HandlesCounted, PTL DEF Spec

(* A subscribed request has the ID to unsubscribe it with, and one that is  *)
(* unsubscribing has its delete request in flight, in any order of answers, *)
(* losses and releases (markRequestSubscribed, removeRef).                  *)
THEOREM StatesBacked == Spec => []StateIsBacked
<1>1. Init => StateIsBacked
  BY DEF Init, StateIsBacked, FreshSubscription
<1>2. TypeOK /\ HandlesAreCounted /\ StateIsBacked /\ [Next]_vars => StateIsBacked'
  <2> SUFFICES ASSUME TypeOK, HandlesAreCounted, StateIsBacked, [Next]_vars,
                      Running', NEW q \in Requests, TypeOK'
               PROVE  /\ subscriptions'[q].state = "Subscribed" => subscriptions'[q].hasID
                      /\ subscriptions'[q].state = "Unsubscribing" => deletes'[q] > 0
    BY TypeStep DEF StateIsBacked
  <2>1. Running /\ (KeepsState(q) \/ SetsState(q))
    BY StateSteps
  <2>2. deletes[q] \in Nat /\ deletes'[q] \in Nat
    BY DEF TypeOK
  <2> QED
    BY <2>1, <2>2 DEF StateIsBacked, KeepsState, SetsState
<1> QED
  BY <1>1, <1>2, TypeCorrect, HandlesCounted, PTL DEF Spec

-----------------------------------------------------------------------------
(* Entries and their sessions *)

(* What has a session ID is live, and so is what a create request names.    *)
WelcomedIsLive == \A s \in Sessions : sessions[s].welcomed => sessions[s].live

CreatesNameLive ==
    Running => \A r \in Requests, s \in Sessions :
                  creates[r][s] > 0 => sessions[s].live

(* A session ends with the controller, by a loss or by a migration. *)
LEMMA LivesOn ==
    ASSUME TypeOK, [Next]_vars, NEW s \in Sessions, sessions[s].live
    PROVE  sessions'[s].live \/ Destroy \/ SessionLost(s) \/ SessionReconnect(s)
<1>1. CASE SessionsUnchanged
  BY <1>1 DEF SessionsUnchanged
<1>2. CASE CreateConnection
  BY <1>2 DEF CreateConnection, TypeOK
<1>3. ASSUME NEW t \in Sessions,
             SessionWelcome(t) \/ SessionLost(t) \/ SessionReconnect(t)
      PROVE  sessions'[s].live \/ SessionLost(s) \/ SessionReconnect(s)
  <2>1. CASE SessionWelcome(t)
    <3>1. sessions[s] \in Session
      BY DEF TypeOK
    <3>2. DOMAIN sessions[s] = {"live", "welcomed", "user", "subs"}
      BY <3>1 DEF Session
    <3> QED
      BY <2>1, <3>2 DEF SessionWelcome, TypeOK
  <2>2. CASE SessionLost(t) \/ SessionReconnect(t)
    BY <2>2, SessionFates
  <2> QED
    BY <1>3, <2>1, <2>2
<1>4. ASSUME NEW r \in Requests, NEW c \in Sessions,
             sessions' = List(c, r) \/ sessions' = Delist(c, r)
      PROVE  sessions'[s].live
  BY <1>4, ListingKeepsReadiness
<1>5. \A r \in Requests :
         subscriptions[r].connection # None => subscriptions[r].connection \in Sessions
  BY EntryType DEF Subscription
<1> QED
  BY <1>1, <1>2, <1>3, <1>4, <1>5, SessionSteps

LEMMA WelcomedStep ==
    ASSUME TypeOK, WelcomedIsLive, [Next]_vars
    PROVE  WelcomedIsLive'
<1> SUFFICES ASSUME NEW s \in Sessions, sessions'[s].welcomed
             PROVE  sessions'[s].live
  BY DEF WelcomedIsLive
<1>0. sessions[s].welcomed => sessions[s].live
  BY DEF WelcomedIsLive
<1>1. CASE SessionsUnchanged
  BY <1>0, <1>1 DEF SessionsUnchanged
<1>2. CASE Destroy
  BY <1>2 DEF Destroy, EndedSession
<1>3. CASE CreateConnection
  <2>1. PICK t \in Sessions : sessions' = [sessions EXCEPT ![t] = FreshSession]
    BY <1>3 DEF CreateConnection
  <2>2. ~FreshSession.welcomed
    BY DEF FreshSession, EndedSession
  <2> QED
    BY <1>0, <2>1, <2>2 DEF TypeOK
<1>4. ASSUME NEW t \in Sessions,
             SessionWelcome(t) \/ SessionLost(t) \/ SessionReconnect(t)
      PROVE  sessions'[s].live
  <2>1. CASE s = t /\ SessionWelcome(t)
    <3>1. sessions[s].live
      BY <2>1 DEF SessionWelcome
    <3> QED
      BY <2>1, <3>1, SessionFates DEF SessionWelcome
  <2>2. CASE s # t \/ SessionLost(t) \/ SessionReconnect(t)
    <3>1. sessions'[s] \in {sessions[s], EndedSession}
      BY <1>4, <2>2 DEF SessionWelcome, SessionLost, SessionReconnect, TypeOK
    <3> QED
      BY <1>0, <3>1 DEF EndedSession
  <2> QED
    BY <1>4, <2>1, <2>2
<1>5. ASSUME NEW r \in Requests, NEW c \in Sessions,
             sessions' = List(c, r) \/ sessions' = Delist(c, r)
      PROVE  sessions'[s].live
  BY <1>0, <1>5, ListingKeepsReadiness
<1>6. \A r \in Requests :
         subscriptions[r].connection # None => subscriptions[r].connection \in Sessions
  BY EntryType DEF Subscription
<1> QED
  BY <1>1, <1>2, <1>3, <1>4, <1>5, <1>6, SessionSteps

(* Only subscribe makes a create request, for a welcomed session that       *)
(* serves the user.                                                         *)
LEMMA NewCreates ==
    ASSUME TypeOK, [Next]_vars, NEW r \in Requests, NEW s \in Sessions
    PROVE  \/ creates'[r][s] <= creates[r][s]
           \/ SessionsUnchanged /\ sessions[s].welcomed /\ CanHandle(s, Owner[r])
<1>1. creates \in [Requests -> [Sessions \cup {None} -> Nat]]
  BY DEF TypeOK
<1>2. creates[r][s] \in Nat
  BY <1>1
<1>3. CASE UNCHANGED creates
  BY <1>2, <1>3
<1>4. ASSUME NEW q \in Requests, NEW c \in Sessions \cup {None},
             NEW answer \in Answers, CreateAnswered(q, c, answer)
      PROVE  creates'[r][s] <= creates[r][s]
  BY <1>1, <1>2, <1>4 DEF CreateAnswered
<1>5. CASE RequestCreate
  <2>1. io.request \in Requests
    BY <1>5 DEF RequestCreate, TypeOK
  <2>2. PICK i \in Viable(io.request) :
           creates' = [creates EXCEPT ![io.request][connections[i]] = @ + 1]
    BY <1>5 DEF RequestCreate
  <2>3. /\ sessions[connections[i]].welcomed /\ SessionsUnchanged
        /\ CanHandle(connections[i], Owner[io.request])
    BY <1>5, <2>2 DEF RequestCreate, Viable, SessionsUnchanged
  <2>4. CASE s = connections[i] /\ r = io.request
    BY <2>3, <2>4
  <2>5. CASE s # connections[i] \/ r # io.request
    <3>1. creates'[r][s] = creates[r][s]
      BY <1>1, <2>1, <2>2, <2>5
    <3> QED
      BY <1>2, <3>1
  <2> QED
    BY <2>4, <2>5
<1>6. ASSUME NEW t \in Sessions, creates' = Orphaned(t)
      PROVE  creates'[r][s] <= creates[r][s]
  BY <1>1, <1>2, <1>6, SMTT(40) DEF Orphaned
<1>7. \/ UNCHANGED creates \/ RequestCreate
      \/ \E t \in Sessions : creates' = Orphaned(t)
      \/ \E q \in Requests, c \in Sessions \cup {None}, answer \in Answers :
            CreateAnswered(q, c, answer)
  BY DEF Next, GuiStep, IoStep, vars, Subscribe, RemoveRef, DeleteAnswered, SetQuitting,
         Destroy, RunHandler, Resubscribe, CreateConnection, AwaitConnection,
         ScheduleRetry, RetryTimerExpires, SessionWelcome, SessionLost, SessionReconnect
<1> QED
  BY <1>3, <1>4, <1>5, <1>6, <1>7

LEMMA CreatesStep ==
    ASSUME TypeOK, WelcomedIsLive, CreatesNameLive, [Next]_vars
    PROVE  CreatesNameLive'
<1> SUFFICES ASSUME Running', NEW r \in Requests, NEW s \in Sessions,
                    creates'[r][s] > 0
             PROVE  sessions'[s].live
  BY DEF CreatesNameLive
<1>1. CASE SessionsUnchanged /\ sessions[s].welcomed
  BY <1>1 DEF SessionsUnchanged, WelcomedIsLive
<1>2. CASE creates'[r][s] <= creates[r][s]
  <2>1. Running
    BY RunningBefore
  <2>2. creates[r][s] \in Nat /\ creates'[r][s] \in Nat
    <3>1. TypeOK'
      BY TypeStep
    <3>2. /\ creates \in [Requests -> [Sessions \cup {None} -> Nat]]
          /\ creates' \in [Requests -> [Sessions \cup {None} -> Nat]]
      BY <3>1 DEF TypeOK
    <3> QED
      BY <3>2
  <2>3. sessions[s].live
    BY <1>2, <2>1, <2>2 DEF CreatesNameLive
  <2>4. ~Destroy
    BY DEF Destroy, Running
  <2>5. ASSUME creates' = Orphaned(s) PROVE FALSE
    BY <2>5 DEF Orphaned, TypeOK
  <2> QED
    <3>1. SessionLost(s) \/ SessionReconnect(s) => creates' = Orphaned(s)
      BY DEF SessionLost, SessionReconnect
    <3> QED
      BY <2>3, <2>4, <2>5, <3>1, LivesOn
<1> QED
  BY <1>1, <1>2, NewCreates

(* The entry keeps a session that stays and keeps listing it, *)
KeepsConnection(q, c) ==
    /\ subscriptions[q].connection = c
    /\ sessions[c].live /\ q \in sessions[c].subs
          => sessions'[c].live /\ q \in sessions'[c].subs

(* or gets the one that its create request named. *)
GetsConnection(q, c) ==
    Running /\ creates[q][c] > 0 /\ sessions' = List(c, q)

(* Retrying and beginning an attempt leave an entry its session, or erase it. *)
LEMMA RetryConnections ==
    ASSUME TypeOK, NEW r \in Requests, RetrySubscription(r), NEW q \in Requests
    PROVE  subscriptions'[q].connection \in {subscriptions[q].connection, None}
<1> DEFINE e == [subscriptions[r] EXCEPT !.state = "Retrying",
                                         !.retryTimer = "armed"]
<1>1. e.connection = subscriptions[r].connection /\ FreshSubscription.connection = None
  BY EntryType DEF Subscription, FreshSubscription
<1>2. \/ UNCHANGED <<known, subscriptions>>
      \/ EraseSubscription(r)
      \/ SetSubscription(r, e)
  BY DEF RetrySubscription
<1> HIDE DEF e
<1> QED
  BY <1>1, <1>2, Written, Erased

LEMMA BeginConnections ==
    ASSUME TypeOK, NEW r \in Requests, NEW isRetry \in BOOLEAN,
           BeginSubscribe(r, isRetry), NEW q \in Requests
    PROVE  subscriptions'[q].connection = subscriptions[q].connection
<1> DEFINE e == [subscriptions[r] EXCEPT
                    !.retryTimer = IF isRetry THEN "none" ELSE @]
<1>1. e.connection = subscriptions[r].connection
  BY EntryType DEF Subscription
<1>2. SetSubscription(r, e)
  BY DEF BeginSubscribe
<1> HIDE DEF e
<1> QED
  BY <1>1, <1>2, Written

(* Recording a request removes none from a session. *)
LEMMA ListingKeeps ==
    ASSUME TypeOK, NEW r \in Requests, NEW b \in Sessions, NEW c \in Sessions,
           sessions' = List(b, r), NEW q \in sessions[c].subs
    PROVE  q \in sessions'[c].subs
BY Listing

(* Each step does one of the two to an entry that has a session then.       *)
LEMMA ConnectionSteps ==
    ASSUME TypeOK, [Next]_vars, NEW q \in Requests, NEW c \in Sessions,
           subscriptions'[q].connection = c
    PROVE  KeepsConnection(q, c) \/ GetsConnection(q, c)
<1> DEFINE kept == subscriptions'[q].connection \in {subscriptions[q].connection, None}
<1>0. c # None
  OBVIOUS
<1>kept. ASSUME kept, SessionsUnchanged PROVE KeepsConnection(q, c)
  BY <1>0, <1>kept DEF SessionsUnchanged, KeepsConnection
<1>written. ASSUME NEW r \in Requests, NEW e, SetSubscription(r, e),
                   e.connection \in {subscriptions[r].connection, None}
            PROVE  kept
  BY <1>written, Written
<1> HIDE DEF kept
<1>1. ASSUME NEW r \in Requests, Subscribe(r)
      PROVE  KeepsConnection(q, c)
  <2> DEFINE e == [subscriptions[r] EXCEPT
                      !.state = IF NeedToSubscribe(subscriptions[r].state)
                                THEN "Subscribing" ELSE @,
                      !.refCount = @ + 1]
  <2>1. SetSubscription(r, e) /\ SessionsUnchanged
    BY <1>1 DEF Subscribe, SessionsUnchanged
  <2>2. e.connection = subscriptions[r].connection
    BY EntryType DEF Subscription
  <2> HIDE DEF e
  <2> QED
    BY <1>kept, <1>written, <2>1, <2>2
<1>2. ASSUME NEW r \in Requests, RemoveRef(r)
      PROVE  KeepsConnection(q, c)
  <2> DEFINE e == [subscriptions[r] EXCEPT !.refCount = @ - 1]
             released == [e EXCEPT !.retryTimer = "none"]
             unsubscribing == [released EXCEPT !.state = "Unsubscribing",
                                               !.hasID = FALSE]
  <2>1. /\ SessionsUnchanged
        /\ \/ SetSubscription(r, e)
           \/ SetSubscription(r, released)
           \/ SetSubscription(r, unsubscribing)
    BY <1>2 DEF RemoveRef, SessionsUnchanged
  <2>2. /\ e.connection = subscriptions[r].connection
        /\ released.connection = subscriptions[r].connection
        /\ unsubscribing.connection = subscriptions[r].connection
    BY EntryType DEF Subscription
  <2> HIDE DEF e, released, unsubscribing
  <2> QED
    BY <1>kept, <1>written, <2>1, <2>2
<1>3. ASSUME NEW r \in Requests, DeleteAnswered(r)
      PROVE  KeepsConnection(q, c)
  <2> DEFINE e == [subscriptions[r] EXCEPT !.state = "Subscribing",
                                           !.connection = None]
             b == subscriptions[r].connection
  <2>1. CASE UNCHANGED <<known, subscriptions, sessions>>
    BY <2>1 DEF KeepsConnection
  <2>2. CASE /\ EraseSubscription(r) \/ SetSubscription(r, e)
             /\ sessions' = IF b = None THEN sessions ELSE Delist(b, r)
    <3>1. e.connection = None /\ FreshSubscription.connection = None
      BY EntryType DEF Subscription, FreshSubscription
    <3> HIDE DEF e
    <3>2. q # r /\ subscriptions[q].connection = c
      BY <1>0, <2>2, <3>1, Written, Erased
    <3>3. b \in Sessions \cup {None}
      BY EntryType DEF Subscription
    <3> HIDE DEF b
    <3>4. CASE b = None
      BY <2>2, <3>2, <3>4 DEF KeepsConnection
    <3>5. CASE b \in Sessions /\ sessions' = Delist(b, r)
      <4>1. sessions'[c].live = sessions[c].live
        BY <3>5, ListingKeepsReadiness
      <4>2. q \in sessions[c].subs => q \in sessions'[c].subs
        BY <3>2, <3>5, Delisting
      <4> QED
        BY <3>2, <4>1, <4>2 DEF KeepsConnection
    <3> QED
      BY <2>2, <3>3, <3>4, <3>5
  <2> QED
    BY <1>3, <2>1, <2>2 DEF DeleteAnswered
<1>4. ASSUME NEW r \in Requests, NEW b \in Sessions \cup {None},
             NEW answer \in Answers, CreateAnswered(r, b, answer)
      PROVE  KeepsConnection(q, c) \/ GetsConnection(q, c)
  <2> DEFINE failed == [subscriptions[r] EXCEPT !.state = "Failed"]
             ok == Established(subscriptions[r], b)
  <2>1. CASE UNCHANGED <<known, subscriptions, sessions>>
    BY <2>1 DEF KeepsConnection
  <2>2. CASE SetSubscription(r, failed) /\ UNCHANGED sessions
    <3>1. failed.connection = subscriptions[r].connection
      BY EntryType DEF Subscription
    <3> HIDE DEF failed
    <3> QED
      BY <1>kept, <1>written, <2>2, <3>1 DEF SessionsUnchanged
  <2>3. CASE /\ Running /\ b # None
             /\ SetSubscription(r, ok) /\ sessions' = List(b, r)
    <3>1. ok.connection = b
      BY EntryType DEF Subscription, Established
    <3> HIDE DEF ok
    <3>2. creates[r][b] > 0
      BY <1>4 DEF CreateAnswered
    <3>3. CASE q = r
      <4>1. b = c
        BY <2>3, <3>1, <3>3, Written
      <4> QED
        BY <2>3, <3>2, <3>3, <4>1 DEF GetsConnection
    <3>4. CASE q # r
      <4>1. subscriptions[q].connection = c
        BY <2>3, <3>4, Written
      <4>2. b \in Sessions
        BY <2>3
      <4>3. sessions'[c].live = sessions[c].live
        BY <2>3, <4>2, ListingKeepsReadiness
      <4>4. q \in sessions[c].subs => q \in sessions'[c].subs
        BY <2>3, <4>2, ListingKeeps
      <4> QED
        BY <4>1, <4>3, <4>4 DEF KeepsConnection
    <3> QED
      BY <3>3, <3>4
  <2> QED
    BY <1>4, <2>1, <2>2, <2>3
       DEF CreateAnswered, MarkRequestSubscribed, MarkRequestFailed
<1>5. CASE SetQuitting \/ RequestCreate \/ AwaitConnection \/ UNCHANGED vars
  BY <1>5 DEF SetQuitting, RequestCreate, AwaitConnection, vars, KeepsConnection
<1>6. CASE Destroy
  BY <1>0, <1>6 DEF Destroy, FreshSubscription
<1>7. CASE RunHandler
  <2> DEFINE r == Head(ready).request
  <2>0. Head(ready) \in Handler
    BY <1>7 DEF RunHandler, TypeOK
  <2>1. r \in Requests
    BY <2>0 DEF Handler
  <2>2. SessionsUnchanged
    BY <1>7 DEF RunHandler, SessionsUnchanged
  <2>3. CASE UNCHANGED <<known, subscriptions>>
    BY <1>kept, <2>2, <2>3 DEF kept
  <2>4. CASE RetrySubscription(r)
    BY <1>kept, <2>1, <2>2, <2>4, RetryConnections DEF kept
  <2>5. CASE BeginSubscribe(r, Head(ready).kind = "fire")
    BY <1>kept, <2>1, <2>2, <2>5, BeginConnections DEF kept
  <2> QED
    BY <1>7, <2>3, <2>4, <2>5 DEF RunHandler
<1>8. ASSUME NEW r \in Requests, Resubscribe(r)
      PROVE  KeepsConnection(q, c)
  BY <1>kept, <1>8, BeginConnections DEF Resubscribe, SessionsUnchanged, kept
<1>9. CASE CreateConnection
  <2>1. PICK t \in Sessions :
           ~sessions[t].live /\ sessions' = [sessions EXCEPT ![t] = FreshSession]
    BY <1>9 DEF CreateConnection
  <2>2. subscriptions[q].connection = c
    BY <1>9 DEF CreateConnection
  <2>3. sessions[c].live => sessions'[c] = sessions[c]
    BY <2>1 DEF TypeOK
  <2> QED
    BY <2>2, <2>3 DEF KeepsConnection
<1>10. CASE ScheduleRetry
  <2>1. io.request \in Requests
    BY <1>10 DEF ScheduleRetry, TypeOK
  <2>2. RetrySubscription(io.request) /\ SessionsUnchanged
    BY <1>10 DEF ScheduleRetry, SessionsUnchanged
  <2> QED
    BY <1>kept, <2>1, <2>2, RetryConnections DEF kept
<1>11. ASSUME NEW r \in Requests, RetryTimerExpires(r)
       PROVE  KeepsConnection(q, c)
  <2> DEFINE e == [subscriptions[r] EXCEPT !.retryTimer = "expired"]
  <2>1. e.connection = subscriptions[r].connection
    BY EntryType DEF Subscription
  <2>2. subscriptions' = [subscriptions EXCEPT ![r] = e] /\ SessionsUnchanged
    BY <1>11 DEF RetryTimerExpires, TypeOK, SessionsUnchanged
  <2> HIDE DEF e
  <2>3. subscriptions'[q].connection = subscriptions[q].connection
    BY <2>1, <2>2 DEF TypeOK
  <2> QED
    BY <1>kept, <2>2, <2>3 DEF kept
<1>12. ASSUME NEW s \in Sessions,
              SessionWelcome(s) \/ SessionLost(s) \/ SessionReconnect(s)
       PROVE  KeepsConnection(q, c)
  <2>1. /\ Unlinked(s)[q].connection = IF subscriptions[q].connection = s THEN None
                                       ELSE subscriptions[q].connection
        /\ [subscriptions[q] EXCEPT !.connection = None,
                                    !.state = "Subscribing"].connection = None
    BY EntryType DEF Unlinked, Subscription
  <2>2. CASE SessionWelcome(s)
    <3>1. sessions[c] \in Session
      BY DEF TypeOK
    <3>2. sessions'[c].live = sessions[c].live /\ sessions'[c].subs = sessions[c].subs
      BY <2>2, <3>1, SessionFates DEF SessionWelcome, TypeOK, Session
    <3> QED
      BY <2>2, <3>2 DEF SessionWelcome, KeepsConnection
  <2>3. CASE SessionLost(s) \/ SessionReconnect(s)
    <3>1. subscriptions[q].connection = c /\ c # s
      BY <1>0, <2>1, <2>3 DEF SessionLost, SessionReconnect
    <3>2. sessions'[c] = sessions[c]
      BY <2>3, <3>1 DEF SessionLost, SessionReconnect, TypeOK
    <3> QED
      BY <3>1, <3>2 DEF KeepsConnection
  <2> QED
    BY <1>12, <2>2, <2>3
<1> QED
  BY <1>1, <1>2, <1>3, <1>4, <1>5, <1>6, <1>7, <1>8, <1>9, <1>10, <1>11, <1>12
     DEF Next, GuiStep, IoStep

(* The session of an entry is live and lists it: no loss leaves an entry    *)
(* with a session that is gone, however losses, migrations, answers and     *)
(* retries meet (Controller::clearConnections, reconnectConnection,         *)
(* markRequestSubscribed).                                                  *)
THEOREM ConnectionLists == Spec => []ConnectionListsRequest
<1> DEFINE IInv == WelcomedIsLive /\ CreatesNameLive /\ ConnectionListsRequest
<1>1. Init => IInv
  BY DEF Init, WelcomedIsLive, CreatesNameLive, ConnectionListsRequest, EndedSession,
         FreshSubscription
<1>2. TypeOK /\ IInv /\ [Next]_vars => IInv'
  <2> SUFFICES ASSUME TypeOK, IInv, [Next]_vars
               PROVE  ConnectionListsRequest'
    BY WelcomedStep, CreatesStep
  <2> SUFFICES ASSUME NEW q \in Requests, NEW c \in Sessions,
                      subscriptions'[q].connection = c
               PROVE  sessions'[c].live /\ q \in sessions'[c].subs
    <3>1. TypeOK'
      BY TypeStep
    <3>2. \A r \in Requests : subscriptions'[r].connection \in Sessions \cup {None}
      BY <3>1 DEF TypeOK, Subscription
    <3> QED
      BY <3>2 DEF ConnectionListsRequest
  <2>1. CASE KeepsConnection(q, c)
    BY <2>1 DEF KeepsConnection, ConnectionListsRequest
  <2>2. CASE GetsConnection(q, c)
    <3>1. sessions[c].live
      BY <2>2 DEF GetsConnection, CreatesNameLive
    <3>2. sessions' = List(c, q)
      BY <2>2 DEF GetsConnection
    <3> QED
      BY <3>1, <3>2, Listing, ListingKeepsReadiness
  <2> QED
    BY <2>1, <2>2, ConnectionSteps
<1> QED
  BY <1>1, <1>2, TypeCorrect, PTL DEF Spec
=============================================================================
