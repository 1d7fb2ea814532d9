-------------------------- MODULE EventSubController --------------------------
(***************************************************************************)
(* chatterino::eventsub::Controller: the reference-counted registry of     *)
(* Twitch EventSub subscriptions.                                          *)
(*                                                                         *)
(* Two threads share the map Controller::subscriptions under a mutex:      *)
(*  - the GUI thread creates and destroys SubscriptionHandles and runs the *)
(*    callbacks of the Helix requests that create and delete               *)
(*    subscriptions;                                                       *)
(*  - the IO thread (io_context of one thread) runs posted handlers, retry *)
(*    timers and the events of the WebSocket sessions.                     *)
(*                                                                         *)
(* An action is one critical section of subscriptionsMutex, or one step of *)
(* the IO thread that takes no lock; the GUI thread can run between any    *)
(* two of them.  The assert()s of the code are no guards here: they are    *)
(* compiled out of a release build, and the properties below state them.   *)
(***************************************************************************)
EXTENDS Integers, Sequences, FiniteSets

CONSTANTS
    Requests,        \* SubscriptionRequests
    Users,           \* Twitch user IDs
    Owner,           \* ownerTwitchUserID of each request
    Sessions,        \* slots for concurrently live lib::Sessions
    None,            \* an expired or empty weak_ptr, an empty user ID
    Answers,         \* what Helix may answer to a create request
    Faults,          \* the environment's misbehaviour, see FaultKinds
    MaxHandles,      \* bound: live handles of each request
    MaxQueue,        \* bound: handlers ready to run
    MaxCreates,      \* bound: create requests in flight per request
    MaxDisturbances  \* bound: lost sessions, migrations and retry answers

AnswerKinds == {"ok", "failed", "forbidden", "retry"}

FaultKinds == {
    "drop",          \* a session ends while no Helix request depends on it
    "racing drop",   \* a session ends while one does
    "migrate",       \* Twitch sends session_reconnect with a URL
    "early release", \* the last handle goes while the attempt is in progress
    "two accounts"   \* requests of two users are held at the same time
}

ASSUME ConstantsAssumption ==
    /\ Owner \in [Requests -> Users]
    /\ None \notin Sessions \cup Users \cup Requests
    /\ Answers \subseteq AnswerKinds
    /\ Faults \subseteq FaultKinds
    /\ MaxHandles \in [Requests -> Nat]
    /\ {MaxQueue, MaxCreates, MaxDisturbances} \subseteq Nat

VARIABLES
    known,          \* the keys of Controller::subscriptions
    subscriptions,  \* their values; of an absent key, a fresh value
    handles,        \* live RawSubscriptionHandles of each request, until quitting
    sessions,       \* the sessions and their listeners (eventsub::Connection)
    connections,    \* Controller::connections, its expired entries left out
    ready,          \* handlers the io_context will run, in order
    io,             \* where the IO thread is inside a handler
    creates,        \* create requests in flight, by target session
    deletes,        \* delete requests in flight
    phase,          \* running, quitting (setQuitting), destroyed
    disturbances    \* how many disturbances happened

vars == <<known, subscriptions, handles, sessions, connections, ready, io,
          creates, deletes, phase, disturbances>>

States == {"Unsubscribed", "Failed", "Subscribing", "Retrying", "Subscribed",
           "Unsubscribing"}

Subscription ==
    [state : States, refCount : Int, connection : Sessions \cup {None},
     hasID : BOOLEAN, retryTimer : {"none", "armed", "expired"}]

(* Mutant: the state has no initializer. *)
UninitializedSubscription ==
    [state |-> None, refCount |-> 0, connection |-> None,
     hasID |-> FALSE, retryTimer |-> "none"]

FreshSubscription ==
    [state |-> "Unsubscribed", refCount |-> 0, connection |-> None,
     hasID |-> FALSE, retryTimer |-> "none"]

(* A live session is one that still has its listener.  "welcomed": the     *)
(* listener has a session ID.                                              *)
Session ==
    [live : BOOLEAN, welcomed : BOOLEAN, user : Users \cup {None},
     subs : SUBSET Requests]

EndedSession == [live |-> FALSE, welcomed |-> FALSE, user |-> None, subs |-> {}]

FreshSession == [EndedSession EXCEPT !.live = TRUE]

Handler == [kind : {"subscribe", "fire", "retry"}, request : Requests]

TypeOK ==
    /\ known \in SUBSET Requests
    /\ subscriptions \in [Requests -> Subscription]
    /\ handles \in [Requests -> Nat]
    /\ sessions \in [Sessions -> Session]
    /\ connections \in Seq(Sessions)
    /\ ready \in Seq(Handler)
    /\ io \in [at : {"idle"}, request : {None}, rest : SUBSET Requests]
             \cup [at : {"pick", "retry"}, request : Requests,
                   rest : SUBSET Requests]
    /\ creates \in [Requests -> [Sessions \cup {None} -> Nat]]
    /\ deletes \in [Requests -> Nat]
    /\ phase \in {"running", "quitting", "destroyed"}
    /\ disturbances \in Nat

Init ==
    /\ known = {}
    /\ subscriptions = [r \in Requests |-> FreshSubscription]
    /\ handles = [r \in Requests |-> 0]
    /\ sessions = [s \in Sessions |-> EndedSession]
    /\ connections = <<>>
    /\ ready = <<>>
    /\ io = [at |-> "idle", request |-> None, rest |-> {}]
    /\ creates = [r \in Requests |-> [s \in Sessions \cup {None} |-> 0]]
    /\ deletes = [r \in Requests |-> 0]
    /\ phase = "running"
    /\ disturbances = 0

-----------------------------------------------------------------------------
(* Helpers *)

Running == phase = "running"

IoIdle == io.at = "idle" /\ io.rest = {}

(* boost::asio::post *)
Post(kind, r) == ready' = Append(ready, [kind |-> kind, request |-> r])

RoomToPost == Len(ready) < MaxQueue

SetSubscription(r, e) ==
    /\ known' = known \cup {r}
    /\ subscriptions' = [subscriptions EXCEPT ![r] = e]

EraseSubscription(r) ==
    /\ known' = known \ {r}
    /\ subscriptions' = [subscriptions EXCEPT ![r] = FreshSubscription]

(* Mutant: any session serves any user. *)
CanHandleAll(s, user) == TRUE

CanHandle(s, user) == sessions[s].user \in {None, user}

(* getViableConnection: the first welcomed connection that serves the user *)
Viable(r) ==
    {i \in DOMAIN connections :
        /\ sessions[connections[i]].welcomed
        /\ CanHandle(connections[i], Owner[r])}

OpenButNotReady == {s \in Sessions : sessions[s].live /\ ~sessions[s].welcomed}

(* Mutant: connections that are not ready do not count. *)
NothingPending == FALSE

ConnectionPending == OpenButNotReady # {}

(* clearConnections: s is in the list once, and drops out. *)
Without(seq, s) ==
    IF \E i \in DOMAIN seq : seq[i] = s
    THEN LET at == CHOOSE i \in DOMAIN seq : seq[i] = s
         IN [i \in 1..(Len(seq) - 1) |-> IF i < at THEN seq[i] ELSE seq[i + 1]]
    ELSE seq

(* The weak_ptrs to session s expire: in the entries, and in the callbacks *)
(* of the create requests that were made for it.                           *)
Unlinked(s) ==
    [r \in Requests |->
        IF subscriptions[r].connection = s
        THEN [subscriptions[r] EXCEPT !.connection = None]
        ELSE subscriptions[r]]

Orphaned(s) ==
    [r \in Requests |->
        [creates[r] EXCEPT ![s] = 0, ![None] = @ + creates[r][s]]]

(* What the environment does: without the fault of that name, callers and  *)
(* Twitch keep to the following.                                           *)
MayAcquire(r) ==
    \/ "two accounts" \in Faults
    \/ \A q \in Requests :
          Owner[q] # Owner[r] => subscriptions[q].refCount = 0

MayRelease(r) ==
    \/ "early release" \in Faults
    \/ subscriptions[r].refCount > 1
    \/ subscriptions[r].state \notin {"Subscribing", "Retrying"}

MayEnd(s) ==
    \/ "racing drop" \in Faults
    \/ \A r \in Requests :
          /\ creates[r][s] = 0
          /\ r \in sessions[s].subs => deletes[r] = 0

Disturb ==
    /\ disturbances < MaxDisturbances
    /\ disturbances' = disturbances + 1

-----------------------------------------------------------------------------
(* GUI thread: handles *)

(* Mutant: a fresh entry is misjudged. *)
OnlyFailedNeeds(state) == state = "Failed"

NeedToSubscribe(state) == state \in {"Unsubscribed", "Failed"}

Subscribe(r) ==
    LET e == subscriptions[r]
        needToSubscribe == NeedToSubscribe(e.state)
    IN /\ Running
       /\ handles[r] < MaxHandles[r]
       /\ MayAcquire(r)
       /\ handles' = [handles EXCEPT ![r] = @ + 1]
       /\ SetSubscription(r,
             [e EXCEPT !.state = IF needToSubscribe THEN "Subscribing" ELSE @,
                       !.refCount = @ + 1])
       /\ IF needToSubscribe
          THEN RoomToPost /\ Post("subscribe", r)
          ELSE UNCHANGED ready
       /\ UNCHANGED <<sessions, connections, io, creates, deletes, phase,
                      disturbances>>

(* ~RawSubscriptionHandle and Controller::removeRef, which does nothing     *)
(* while the application quits: handles that die then are not counted.      *)
RemoveRef(r) ==
    LET e == [subscriptions[r] EXCEPT !.refCount = @ - 1]
        released == [e EXCEPT !.retryTimer = "none"]
    IN /\ Running
       /\ handles[r] > 0
       /\ handles' = [handles EXCEPT ![r] = @ - 1]
       /\ \/ /\ e.refCount > 0
             /\ SetSubscription(r, e)
             /\ UNCHANGED deletes
          \/ /\ e.refCount <= 0 /\ MayRelease(r)
             /\ ~e.hasID
             /\ SetSubscription(r, released)
             /\ UNCHANGED deletes
          \/ /\ e.refCount <= 0 /\ MayRelease(r)
             /\ e.hasID
             /\ SetSubscription(r, [released EXCEPT !.state = "Unsubscribing",
                                                    !.hasID = FALSE])
             /\ deletes' = [deletes EXCEPT ![r] = @ + 1]
       /\ UNCHANGED <<sessions, connections, ready, io, creates, phase,
                      disturbances>>

SetQuitting ==
    /\ Running
    /\ phase' = "quitting"
    /\ UNCHANGED <<known, subscriptions, handles, sessions, connections, ready,
                   io, creates, deletes, disturbances>>

(* ~Controller: closes the connections; the entries go with their timers. *)
Destroy ==
    /\ phase = "quitting"
    /\ phase' = "destroyed"
    /\ known' = {}
    /\ subscriptions' = [r \in Requests |-> FreshSubscription]
    /\ sessions' = [s \in Sessions |-> EndedSession]
    /\ connections' = <<>>
    /\ UNCHANGED <<handles, ready, io, creates, deletes, disturbances>>

-----------------------------------------------------------------------------
(* IO thread: subscribe(request, isRetry) in three steps, and its callers *)

(* Mutant: the timer of a retry is kept. *)
BeginKeepingTimer(r, isRetry) == SetSubscription(r, subscriptions[r])

(* Under the lock: a retry drops the timer that fired, or a newer one.     *)
BeginSubscribe(r, isRetry) ==
    SetSubscription(r, [subscriptions[r] EXCEPT
                           !.retryTimer = IF isRetry THEN "none" ELSE @])

(* Mutants: the last reference is taken for none; no timer is started. *)
RetryOffByOne(r) ==
    IF ~Running
    THEN UNCHANGED <<known, subscriptions>>
    ELSE IF subscriptions[r].refCount <= 1
    THEN EraseSubscription(r)
    ELSE SetSubscription(r, [subscriptions[r] EXCEPT !.state = "Retrying",
                                                     !.retryTimer = "armed"])
RetryWithoutTimer(r) ==
    IF ~Running
    THEN UNCHANGED <<known, subscriptions>>
    ELSE IF subscriptions[r].refCount = 0
    THEN EraseSubscription(r)
    ELSE SetSubscription(r, [subscriptions[r] EXCEPT !.state = "Retrying"])

RetrySubscription(r) ==
    IF ~Running
    THEN UNCHANGED <<known, subscriptions>>
    ELSE IF subscriptions[r].refCount = 0
    THEN EraseSubscription(r)
    ELSE SetSubscription(r, [subscriptions[r] EXCEPT !.state = "Retrying",
                                                     !.retryTimer = "armed"])

(* The next handler of the io_context runs. *)
RunHandler ==
    /\ IoIdle
    /\ ready # <<>>
    /\ ready' = Tail(ready)
    /\ LET r == Head(ready).request
       IN CASE Head(ready).kind = "retry" ->
                  RetrySubscription(r) /\ UNCHANGED io
            [] Head(ready).kind = "fire" /\ ~Running ->
                  UNCHANGED <<known, subscriptions, io>>
            [] OTHER ->
                  /\ BeginSubscribe(r, Head(ready).kind = "fire")
                  /\ io' = [io EXCEPT !.at = "pick", !.request = r]
    /\ UNCHANGED <<handles, sessions, connections, creates, deletes, phase,
                   disturbances>>

(* reconnectConnection subscribes again to what the lost session had. *)
Resubscribe(r) ==
    /\ io.at = "idle" /\ r \in io.rest
    /\ BeginSubscribe(r, FALSE)
    /\ io' = [at |-> "pick", request |-> r, rest |-> io.rest \ {r}]
    /\ UNCHANGED <<handles, sessions, connections, ready, creates, deletes,
                   phase, disturbances>>

(* A connection can take the subscription: ask Helix to create it. *)
RequestCreate ==
    /\ io.at = "pick"
    /\ Viable(io.request) # {}
    /\ \E i \in Viable(io.request) :
          /\ \A j \in Viable(io.request) : i <= j
          /\ creates[io.request][connections[i]] < MaxCreates
          /\ creates' = [creates EXCEPT
                            ![io.request][connections[i]] = @ + 1]
    /\ io' = [io EXCEPT !.at = "idle", !.request = None]
    /\ UNCHANGED <<known, subscriptions, handles, sessions, connections, ready,
                   deletes, phase, disturbances>>

(* No connection can, and none is about to be ready: open one. *)
CreateConnection ==
    /\ io.at = "pick"
    /\ Viable(io.request) = {}
    /\ ~ConnectionPending
    /\ \E s \in Sessions :
          /\ ~sessions[s].live
          /\ sessions' = [sessions EXCEPT ![s] = FreshSession]
          /\ connections' = Append(connections, s)
    /\ io' = [io EXCEPT !.at = "retry"]
    /\ UNCHANGED <<known, subscriptions, handles, ready, creates, deletes,
                   phase, disturbances>>

AwaitConnection ==
    /\ io.at = "pick"
    /\ Viable(io.request) = {}
    /\ ConnectionPending
    /\ io' = [io EXCEPT !.at = "retry"]
    /\ UNCHANGED <<known, subscriptions, handles, sessions, connections, ready,
                   creates, deletes, phase, disturbances>>

ScheduleRetry ==
    /\ io.at = "retry"
    /\ RetrySubscription(io.request)
    /\ io' = [io EXCEPT !.at = "idle", !.request = None]
    /\ UNCHANGED <<handles, sessions, connections, ready, creates, deletes,
                   phase, disturbances>>

(* The timer passes: its handler is queued, and no cancel reaches it now. *)
RetryTimerExpires(r) ==
    /\ subscriptions[r].retryTimer = "armed"
    /\ RoomToPost
    /\ subscriptions' = [subscriptions EXCEPT ![r].retryTimer = "expired"]
    /\ Post("fire", r)
    /\ UNCHANGED <<known, handles, sessions, connections, io, creates, deletes,
                   phase, disturbances>>

-----------------------------------------------------------------------------
(* IO thread: sessions *)

SessionWelcome(s) ==
    /\ IoIdle
    /\ sessions[s].live /\ ~sessions[s].welcomed
    /\ sessions' = [sessions EXCEPT ![s].welcomed = TRUE]
    /\ UNCHANGED <<known, subscriptions, handles, connections, ready, io,
                   creates, deletes, phase, disturbances>>

(* The session fails, closes or misses its keepalive: the listener learns  *)
(* of it and, unless the application quits, reconnectConnection resets the *)
(* requests it had.                                                        *)
SessionLost(s) ==
    LET lost == IF Running THEN sessions[s].subs ELSE {}
    IN /\ {"drop", "racing drop"} \cap Faults # {}
       /\ IoIdle
       /\ sessions[s].live
       /\ MayEnd(s)
       /\ Disturb
       /\ sessions' = [sessions EXCEPT ![s] = EndedSession]
       /\ connections' = Without(connections, s)
       /\ subscriptions' = [r \in Requests |->
             IF r \in lost \cap known
             THEN [subscriptions[r] EXCEPT !.connection = None,
                                           !.state = "Subscribing"]
             ELSE Unlinked(s)[r]]
       /\ creates' = Orphaned(s)
       /\ io' = [io EXCEPT !.rest = lost]
       /\ UNCHANGED <<known, handles, ready, deletes, phase>>

(* session_reconnect: the listener moves to a new session, which takes the *)
(* slot of the old one and its place at the end of the list.               *)
SessionReconnect(s) ==
    LET moves == Running /\ sessions[s].subs # {}
    IN /\ "migrate" \in Faults
       /\ IoIdle
       /\ sessions[s].live /\ sessions[s].welcomed
       /\ MayEnd(s)
       /\ Disturb
       /\ sessions' = [sessions EXCEPT ![s] = IF moves THEN @ ELSE EndedSession]
       /\ connections' = IF moves THEN Append(Without(connections, s), s)
                                  ELSE Without(connections, s)
       /\ subscriptions' = Unlinked(s)
       /\ creates' = Orphaned(s)
       /\ UNCHANGED <<known, handles, ready, io, deletes, phase>>

-----------------------------------------------------------------------------
(* GUI thread: answers of Helix *)

(* Mutants of Connection: the request is not recorded, not removed, or the *)
(* user of an emptied connection stays.                                    *)
ListUserOnly(s, r) == [sessions EXCEPT ![s].user = Owner[r]]
DelistNothing(s, r) == sessions
DelistRequestOnly(s, r) == [sessions EXCEPT ![s].subs = @ \ {r}]

(* Connection::markRequestSubscribed, Connection::markRequestUnsubscribed *)
List(s, r) ==
    [sessions EXCEPT ![s].user = Owner[r], ![s].subs = @ \cup {r}]

Delist(s, r) ==
    [sessions EXCEPT ![s].user = IF sessions[s].subs \subseteq {r} THEN None ELSE @,
                     ![s].subs = @ \ {r}]

(* Mutant: the subscription ID is not stored. *)
EstablishedWithoutID(e, c) ==
    [e EXCEPT !.connection = c, !.state = "Subscribed"]

Established(e, c) ==
    [e EXCEPT !.connection = c, !.hasID = TRUE, !.state = "Subscribed"]

(* c is None when the session has ended in the meantime. *)
MarkRequestSubscribed(r, c) ==
    IF Running /\ c # None
    THEN /\ sessions' = List(c, r)
         /\ SetSubscription(r, Established(subscriptions[r], c))
    ELSE UNCHANGED <<known, subscriptions, sessions>>

MarkRequestFailed(r) ==
    IF Running
    THEN SetSubscription(r, [subscriptions[r] EXCEPT !.state = "Failed"])
    ELSE UNCHANGED <<known, subscriptions>>

CreateAnswered(r, c, answer) ==
    /\ creates[r][c] > 0
    /\ creates' = [creates EXCEPT ![r][c] = @ - 1]
    /\ \/ /\ answer = "ok"
          /\ MarkRequestSubscribed(r, c)
          /\ UNCHANGED <<ready, disturbances>>
       \/ /\ answer = "failed"
          /\ MarkRequestFailed(r)
          /\ UNCHANGED <<sessions, ready, disturbances>>
       \/ /\ answer = "forbidden"
          /\ UNCHANGED <<known, subscriptions, sessions, ready, disturbances>>
       \/ /\ answer = "retry"
          /\ Disturb
          /\ RoomToPost
          /\ Post("retry", r)
          /\ UNCHANGED <<known, subscriptions, sessions>>
    /\ UNCHANGED <<handles, connections, io, deletes, phase>>

(* Both callbacks of the delete request: markRequestUnsubscribed. *)
DeleteAnswered(r) ==
    LET e == subscriptions[r]
        c == e.connection
    IN /\ deletes[r] > 0
       /\ deletes' = [deletes EXCEPT ![r] = @ - 1]
       /\ \/ /\ ~Running
             /\ UNCHANGED <<known, subscriptions, sessions, ready>>
          \/ /\ Running
             /\ sessions' = IF c = None THEN sessions ELSE Delist(c, r)
             /\ \/ /\ e.refCount = 0
                   /\ EraseSubscription(r)
                   /\ UNCHANGED ready
                \/ /\ e.refCount # 0
                   /\ SetSubscription(r, [e EXCEPT !.state = "Subscribing",
                                                   !.connection = None])
                   /\ RoomToPost
                   /\ Post("subscribe", r)
       /\ UNCHANGED <<handles, connections, io, creates, phase, disturbances>>

-----------------------------------------------------------------------------
GuiStep ==
    \/ \E r \in Requests :
          \/ Subscribe(r)
          \/ RemoveRef(r)
          \/ DeleteAnswered(r)
          \/ \E c \in Sessions \cup {None}, a \in Answers : CreateAnswered(r, c, a)
    \/ SetQuitting
    \/ Destroy

IoStep ==
    \/ RunHandler
    \/ \E r \in Requests : Resubscribe(r)
    \/ RequestCreate
    \/ CreateConnection
    \/ AwaitConnection
    \/ ScheduleRetry

Next ==
    \/ GuiStep
    \/ IoStep
    \/ \E r \in Requests : RetryTimerExpires(r)
    \/ \E s \in Sessions :
          SessionWelcome(s) \/ SessionLost(s) \/ SessionReconnect(s)

(* The IO thread runs, timers pass, every Helix request is answered (the    *)
(* network layer turns silence into an error), and a session that is open  *)
(* long enough is welcomed: the io_context runs every completed read, so   *)
(* other handlers cannot starve it.                                        *)
Fairness ==
    /\ WF_vars(IoStep)
    /\ \A r \in Requests :
          /\ WF_vars(RetryTimerExpires(r))
          /\ WF_vars(DeleteAnswered(r))
          /\ \A c \in Sessions \cup {None} :
                WF_vars(\E a \in Answers : CreateAnswered(r, c, a))
    /\ \A s \in Sessions : SF_vars(SessionWelcome(s))

Spec == Init /\ [][Next]_vars

FairSpec == Spec /\ Fairness

-----------------------------------------------------------------------------
(* Properties that hold whatever the environment does *)

(* The reference count of an entry is the number of live handles, and an    *)
(* entry is never erased under one: removeRef finds the entry it expects    *)
(* and its count cannot go below zero.                                      *)
HandlesAreCounted ==
    Running => \A r \in Requests :
                  /\ subscriptions[r].refCount = handles[r]
                  /\ handles[r] > 0 => r \in known

(* "There should only ever be 0 or 1" connections that are open but not     *)
(* ready (Controller::subscribe), however subscribes and retries interleave *)
(* with losses and migrations.                                              *)
AtMostOneNotReady == Cardinality(OpenButNotReady) <= 1

(* "An unsubscribed subscription should have 0 references": no answer or    *)
(* retry leaves a held request in a state that says nothing was attempted.  *)
UnsubscribedIsUnreferenced ==
    Running => \A r \in Requests :
                  subscriptions[r].state = "Unsubscribed" => handles[r] = 0

(* A request that counts as subscribed has the ID needed to unsubscribe it, *)
(* and one that is unsubscribing waits for a delete request that is really  *)
(* in flight, so it cannot stay unsubscribing.                              *)
StateIsBacked ==
    Running => \A r \in Requests :
        /\ subscriptions[r].state = "Subscribed" => subscriptions[r].hasID
        /\ subscriptions[r].state = "Unsubscribing" => deletes[r] > 0

(* The session an entry points at is live and lists the request, so losing  *)
(* that session resets the entry and no entry outlives its session.         *)
ConnectionListsRequest ==
    \A r \in Requests :
        LET s == subscriptions[r].connection
        IN s # None => sessions[s].live /\ r \in sessions[s].subs

(* A session is bound to a user exactly while it carries subscriptions: an  *)
(* emptied one can serve the next account, one in use serves only its own.  *)
BoundWhileInUse ==
    \A s \in Sessions : sessions[s].user = None <=> sessions[s].subs = {}

-----------------------------------------------------------------------------
(* Properties of a calm environment: Faults \subseteq {"drop"} and no       *)
(* "forbidden" answer.  Each fault breaks one of them; the README says how. *)

HandlersFor(r) ==
    {<<"handler", None, i>> : i \in {j \in DOMAIN ready : ready[j].request = r}}

CreatesTo(r, c) == {<<"create", c, n>> : n \in 1..creates[r][c]}

CreatesFor(r) == UNION {CreatesTo(r, c) : c \in Sessions \cup {None}}

(* Everything that is on its way to finish the attempt to subscribe to r:   *)
(* handlers in the queue, create requests, the retry timer, the step the IO *)
(* thread is in and those it has yet to do.                                 *)
Drivers(r) ==
    HandlersFor(r) \cup CreatesFor(r)
    \cup {d \in {<<"timer", None, 0>>} : subscriptions[r].retryTimer = "armed"}
    \cup {d \in {<<"step", None, 0>>} : io.request = r}
    \cup {d \in {<<"rest", None, 0>>} : r \in io.rest}

InProgress(r) == subscriptions[r].state \in {"Subscribing", "Retrying"}

(* "The initial subscription is currently in progress" / "A retry is        *)
(* currently in progress": exactly one thing drives each attempt, so none   *)
(* is forgotten and no two of them subscribe twice; no other state has one. *)
OneDriver ==
    Running => \A r \in Requests :
                  Cardinality(Drivers(r)) = IF InProgress(r) THEN 1 ELSE 0

(* The assertions of markRequestSubscribed and markRequestUnsubscribed: an  *)
(* answer finds its request in a state that was waiting for it.             *)
AnswersAreExpected ==
    Running => \A r \in Requests :
        /\ \A s \in Sessions : creates[r][s] > 0 => InProgress(r)
        /\ deletes[r] > 0 => /\ subscriptions[r].state = "Unsubscribing"
                             /\ subscriptions[r].retryTimer = "none"

(* The assertions of subscribe and retrySubscription on the retry timer: a  *)
(* fired retry finds its timer, any other step finds none to overwrite.     *)
TimersAreExpected ==
    Running => \A r \in Requests :
        LET timer == subscriptions[r].retryTimer
            fires == \E i \in DOMAIN ready :
                        ready[i].kind = "fire" /\ ready[i].request = r
        IN /\ fires <=> timer = "expired"
           /\ timer # "none" => io.request # r /\ InProgress(r)

(* The assertions of Controller: no answer and no retry comes when it is    *)
(* not expected, however subscribes, losses and answers follow each other.  *)
AssertionsHold == AnswersAreExpected /\ TimersAreExpected

(* "A subscription was made when another user's subscriptions were still    *)
(* active" never happens: a session carries one user's subscriptions.       *)
OneUserPerSession ==
    \A s \in Sessions : \A r \in sessions[s].subs : Owner[r] = sessions[s].user

(* What the sessions list and what the registry says agree in both ways.    *)
SessionsMatchRegistry ==
    Running => \A s \in Sessions, r \in Requests :
        /\ r \in sessions[s].subs <=> subscriptions[r].connection = s
        /\ r \in sessions[s].subs =>
              subscriptions[r].state \in {"Subscribed", "Unsubscribing"}

(* A held request is eventually subscribed, or has been refused by Twitch.  *)
HeldIsSettled ==
    \A r \in Requests :
        (Running /\ handles[r] > 0) ~>
            (~Running \/ handles[r] = 0
             \/ subscriptions[r].state \in {"Subscribed", "Failed"})

(* "If no more references exist of a specific subscription, we send an      *)
(* unsubscription request": a released request is eventually forgotten (a   *)
(* refused one stays in the map) and no session carries it any more.        *)
ReleasedIsUnsubscribed ==
    \A r \in Requests :
        (Running /\ handles[r] = 0) ~>
            (~Running \/ handles[r] > 0
             \/ (/\ r \in known => subscriptions[r].state = "Failed"
                 /\ \A s \in Sessions : r \notin sessions[s].subs))

(* "A retry is currently in progress" in particular of a held request.      *)
RetryingIsDriven ==
    Running => \A r \in Requests :
        handles[r] > 0 /\ subscriptions[r].state = "Retrying" => Drivers(r) # {}
=============================================================================
