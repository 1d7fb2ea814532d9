# OpenEmote: specifications

OpenEmote is a Twitch chat client in C++/Qt, derived from Chatterino. These
TLA+ modules specify the parts of it that keep a distributed state in step with
Twitch and 7TV over connections that fail: who is subscribed to what, who is
joined where, which messages a channel shows, and what happens when connections
are lost, come back and answer late. TLC checks each module on small instances of its constants;
TLAPS proves the invariants and action properties for every value of them.

Paths below are relative to `src/` in this repository's root; `eventsub/` stands
for `src/providers/twitch/eventsub/`.

## 1. The system

The program has a GUI thread (a Qt event loop) on which nearly all state lives,
and a few threads with an event loop of their own: the `io_context` of EventSub,
the one of the WebSocket pool, Qt's network threads. They communicate by posting
to each other's queue; EventSub's registry is the one large piece of state that
two threads share, under a mutex.

| Component | State | Operations | What is hard | What makes it correct |
|---|---|---|---|---|
| EventSub controller (`eventsub/Controller`, `Connection`, `SubscriptionHandle`, `lib/twitch-eventsub-ws/src/session.cpp`) | map of subscriptions: state, reference count, session, ID, retry timer; list of sessions, each with a user and its subscriptions | subscribe, release a handle, Helix create/delete and their answers, retry, welcome, loss, migration, shutdown | two threads; answers that arrive after the state they belong to; retries against releases; sessions that die between request and answer | counts match handles; at most one session is being opened; each attempt has exactly one driver; held requests settle, released ones are unsubscribed |
| Rate limit bucket (`src/util/RatelimitBucket`) | budget, queue, running timers | send, cooldown | overlapping cooldowns | never more than the budget per cooldown; order kept; nothing waits in vain |
| IRC connection (`src/providers/irc/IrcConnection2`) | Communi's status, flags, ping and reconnect timers | open, close, ping timeout, message, loss | flags shared by five handlers; expected against unexpected loss | every loss is retried; a connection is given up only when it is dead |
| Twitch IRC server (`src/providers/twitch/TwitchIrcServer`) | name to weak channel; JOIN bucket | getOrAddChannel, destruction, connected, connect | JOINs that wait while the registry changes; weak pointers that expire before they are removed | Twitch's memberships match the open channels; one object per name |
| Live updates (`src/providers/liveupdates/BasicPubSub*`, `src/providers/seventv/SeventvEventAPI`) | clients with their subscriptions, backlog, flag, timers | subscribe, unsubscribe, open, close, retry, stop | sockets open and close on another thread; clients are full | no subscription lost, none waits in vain, limits kept, stop ends everything |
| WebSocket pool (`src/common/websockets`) | sockets with strands and write queues | create, send, close | close against queued handlers | every socket opens at most once and closes exactly once |
| HTTP layer (`src/common/network`) | request, reply, timer | execute, finish, timeout, cancel | timeout against finish | callbacks run once, and always |
| Message store (`src/messages/LimitedQueue`, `src/common/Channel`) | circular buffer | push, prepend, replace, insert | full buffer, indices | the newest messages in order |
| Message history (`src/providers/recentmessages`, `TwitchChannel::loadRecentMessages*`) | loading flag, last time connected | load, reconnect load | loads that overlap, live messages meanwhile | no gap and no duplicate |
| Everything else: parsing, emotes, filters, commands, plugins, platform adapters, OpenEmote client, widgets, settings, sound, logging | | | sequential or I/O | see `components` in `PROJECT.json` |

How they interact: `TwitchChannel` is created and dropped by the user and asks
for EventSub handles, live-update topics and, through `TwitchIrcServer`, a JOIN.
`TwitchIrcServer` owns an `IrcConnection` and a `RatelimitBucket`. EventSub
sends its Helix requests through the HTTP layer, whose answers come back on the
GUI thread; live updates own a WebSocket pool.

## 2. Modules

    EventSubController        RatelimitBucket     IrcConnection      LiveUpdates
                                  :                     ^                :
                                  : queue and budget    | EXTENDS        : its sockets
                                  :.............. TwitchIrcServer        :
                                                        :                :
    LimitedQueue <--EXTENDS-- MessageHistory ...........:            WebSocket
                                  one channel's view of it               ^ INSTANCE
                                                              WebSocketConnection

Solid arrows are EXTENDS and INSTANCE; dotted lines join a module to one that
takes an abstraction of it as its environment. `TwitchIrcServerProofs` EXTENDS
`IrcConnectionProofs` and `EventSubCalmProofs` EXTENDS
`EventSubControllerProofs`; every other `<module>Proofs` EXTENDS its module only.

Each component has a module; `MC<module>` gives TLC the constants' values; a
`<module>Proofs` holds the theorems. A definition whose comment starts with
"Mutant:" is a plausible bug of the definition below it, kept to show that the
properties notice it; no specification uses it.

### EventSubController

An action is one critical section of `subscriptionsMutex`, or a step of the IO
thread that takes no lock. The GUI thread can run between any two.

| Variable | Code |
|---|---|
| `known`, `subscriptions` | `Controller::subscriptions`: `State`, `refCount`, `connection`, whether there is a `subscriptionID`, `retryTimer` |
| `handles` | living `RawSubscriptionHandle`s |
| `sessions`, `connections` | the library's sessions with their listeners (`Connection`), and the controller's list of weak pointers to them |
| `ready`, `io` | the `io_context`'s queue, and where the handler that runs is: between looking for a session and using it, in a loop over subscriptions |
| `creates`, `deletes` | Helix requests in flight; a create with the session it names |
| `phase` | `setQuitting`, then the destructor |

A retry timer is *armed*, then *expired* with its handler queued; only then can
it not be cancelled any more. A create request's answer is `ok`, `failed` (not
to be retried), `forbidden` or `retry`. Backoff delays are left out: a timer
fires some time. Assertions of the code are no guards, since a release build
compiles them out; `AssertionsHold` (`AnswersAreExpected` and
`TimersAreExpected`) and `OneUserPerSession` state them.

`Faults` names what the environment may do: `drop` (a session is lost while no
Helix request depends on it), `racing drop` (while one does), `migrate`
(session_reconnect with a URL), `early release` (the last handle goes while its
attempt is in progress), `two accounts`. The safety run has all of them. The
invariants of the calm run fail when one is added:

| Added | Fails |
|---|---|
| `racing drop` | `OneDriver`, `AssertionsHold` (both parts), `OneUserPerSession`, `SessionsMatchRegistry`: an answer meets an entry that the loss has reset |
| `migrate` | `SessionsMatchRegistry`: the successor has the list, the entries still name the session that ended |
| `early release` | `OneDriver`, `AssertionsHold` (timers), `OneUserPerSession` and, of the liveness properties, `ReleasedIsUnsubscribed` (findings 1, 2 and 4) |
| `two accounts` | `OneUserPerSession`: both users' requests are created on a session that has no user yet |
| answer `forbidden` | `OneDriver`, `HeldIsSettled`: the entry stays in progress and nothing drives it |

Once the application quits, `removeRef` does nothing, so the handles that die
from then on are not counted. `setQuitting` runs when the GUI's event loop ends.

### RatelimitBucket

The queue, the budget and the cooldown timers; `requested` and `passed` are
history variables. `HandleOne` is the function of that name.

### IrcConnection and TwitchIrcServer

`IrcConnection` is the class of that name, with `TwitchIrcServer`'s handler of
`connectionLost` (`smartReconnect`). Communi, the TCP socket and Twitch are the
environment: `status` becomes `connected` with the 001 reply, `silent` says the
peer has vanished without the socket noticing, `quiet` counts ping intervals
without a message (history).

`TwitchIrcServer` EXTENDS it and adds the registry, the channel objects' lives
and the JOIN queue. A channel object is *live* while a `shared_ptr` holds it,
*dying* between the last reference and its destructor's signal (which removes
its name from the registry), then *dead*. The two coincide on the GUI thread;
`Faults = {"offThread"}` lets another thread drop the last reference, as the
EventSub handlers, which lock a weak pointer on the IO thread, can. With it a
channel that was reopened meanwhile is removed from the registry by its
predecessor's signal: `OpenIsJoined` and `OneObjectPerName` fail;
`JoinedIsWanted` still holds. The bucket is abstracted to its queue and its
budget, whose sum with the running timers is constant by
`RatelimitBucketProofs!RateLimit`. The order in which a new connection joins the
channels depends on what is visible and is left open.

### LiveUpdates

`BasicPubSubManager` with its clients, used as by `SeventvEventAPI`. The manager
is told of an open or a close after it happened, so a socket is *connecting*,
*up*, *failed* (closed, never opened) or *dropped* (closed after opening), and
the manager's `open` lags behind. A handler that subscribes several topics is a
loop (`todo`): the GUI thread does nothing else meanwhile, the sockets do. The
first client with room is first in the order of a hash map: any. The order in
which a closed client's subscriptions join the backlog is that of a hash set:
any. `SubsOf` are disjoint, as the 7TV condition of a subscription names its
topic. With `Faults = {"early release"}` a topic may be unsubscribed while it
waits in the backlog, which the code overlooks (`SubscribedIsWanted`,
`InOnePlace`, and liveness of the topic subscribed anew).

### WebSocket and WebSocketConnection

`WebSocket` is what the pool promises the owner of a handle and a listener: one
`onOpen` at most and before any message, one `onClose` at most and nothing after
it; what is written is a prefix of what was sent. `WebSocketConnection` is how
the code keeps it (`ImplementsWebSocket`). The owner's thread posts; the pool's
thread runs `posted` in order, and between two of those the handler of any
operation that has finished. `op` is the one operation of the chain resolve,
connect, TLS, handshake, read that is in progress; `isSending` a write;
`closing` the closing of the stream. `attached` stands for the listener and pool
pointers and the pool's list, which `detach` clears together. `calls`, `sent`
and `wire` are history variables. A handle's weak pointer expires when nothing
refers to the connection (`attached \/ Outstanding`).

A close during the TCP connect (`src/common/websockets/detail/WebSocketConnectionImpl.cpp:339`,
"cancel all pending operations") cancels the attempt, whose handler then tries
the host's remaining addresses; `ConnectEnds` shows that this comes to an end.
The first address is an IPv6 one if there is one (`nextIsIPv6` starts true),
against the comment at `BalancedResolverResults.hpp:19`; nothing depends on it.

### LimitedQueue and MessageHistory

`LimitedQueue` gives each operation of the ring buffer as an operator on
sequences. The code's `boost::circular_buffer` is external: full, it overwrites
its first element for a new one, and refuses one in front of all others.

`MessageHistory` is one channel on the GUI thread: `messages` is
`Channel::messages_`; `roomId`, `disconnected`, `lastConnectedAt`, `loading` are
the members of `TwitchChannel` of those names (a room ID is known or not). Chat
messages are numbers in the order of Twitch's time, which is also the clock. The
connection is what a channel sees of `TwitchIrcServer`: `connected` but not
joined yet, `joined`, or `vanished`, which only the ping timer notices, after one
more heartbeat if a message came since the last (`pings`). `seen`, `lost` and
`restored` are history variables: what was ever shown, what nothing will ask for
any more, and the newest message of the first load. A load may bring all it
asked for up to the limit, a part with a notice, or fail; it may also never be
answered, since `recentmessages::load` sets no timeout
(`src/common/network/NetworkPrivate.hpp:58`). The setting that turns history off may
change between loads.

What the code misses is in the model as a reason for `lost`: a load that is
skipped because another is in progress (`CHANGELOG.md:928` has missing messages
loaded upon reconnecting without this exception), a load that fails, and a
heartbeat after the peer vanished, which moves `lastConnectedAt_` past messages
that never came. `NothingUnseen` says there is no other reason. A first load may
repeat messages that arrived while it was on its way; `InOrder` says that these
are the only ones out of order.

## 3. Runs

| Run | Question | Bounds and why they suffice |
|---|---|---|
| `eventsub_safety` | What holds whatever happens? | two requests of two users, one with two handles (sharing an entry), two session slots (a viable and an opening one, or a session and its successor), every fault once, queue of 2, one create per request. Two actors on each entry and one disturbance already give every overlap of request, answer, loss and release that the invariants are about; 2.6 million states, slots symmetric |
| `eventsub_calm` | Do attempts have one driver, settle and end? | three requests of two users (one user with two), two slots, two disturbances, `FairSpec` |
| `eventsub_release_in_flight` | Is a released request always unsubscribed? No: finding 1 | as the calm run with `early release` |
| `eventsub_retry_cancelled` | Does a held, retrying request have a driver? No: finding 2 | as above |
| `eventsub_account_switch` | Does a session carry one user's subscriptions? No: finding 4 | as above |
| `ratelimit_bucket` | All of the bucket, with liveness | two items, budget 2, six sends: a full budget, a queue of several and repeats |
| `twitch_irc_safety` | Losses retried, memberships wanted | two names and a plugin's, four objects (a name reopened while its predecessor dies), one JOIN per cooldown so that JOINs wait, three disturbances, `offThread` |
| `twitch_irc_calm` | Joined in the end; dead peers noticed | three objects, no fault, `FairSpec` |
| `liveupdates_calm` | Nothing lost, nothing left waiting, one place each, carried in the end, stop ends all | two topics of three subscriptions, two per client (one fills up and the rest needs another), four slots, so that one is always free for `AddClient`, two failures, three calls |
| `liveupdates_early_release` | Is an unsubscribed topic ever still subscribed? Yes: finding 3 | three slots, four calls, `early release` |
| `websocket` | Does a connection keep the promise, do attempts and closes end? | two addresses per IP version (both versions have one left when the other runs out), three messages (one written, one queued, one posted), three callbacks before the close, every failure at every point, closing by the owner, the peer and the pool |
| `message_history` | In order, nothing missed without a reason, the oldest leaves first | four messages, two per load, room for five of messages and notices: a load is cut, a queue is full, and a channel is lost and joined again twice, once during a load. It passes with room for six and for eight as well |

Deadlock is not checked in any run: with the bounds used up, or the controller
destroyed, or the queue passed on, the system comes to rest. Symmetry (session
slots, names, clients) is used in runs without liveness only.

`MaxQueue`, `MaxCreates`, `MaxHandles`, `MaxDisturbances`, `MaxObjects`,
`MaxCalls`, `MaxSends` and the numbers of session and client slots are the
bounds; they are guards of the actions that count, and nothing else depends on
them. All proofs hold for any value of them.

### Fairness

* Event loops run what is posted and timers fire (weak fairness of `IoStep`,
  `RetryTimerExpires`, `Cooldown`, `Ping`, `RetryServer`, `JoinCooldown`,
  `GuiStep`).
* Every Helix request is answered: it has a timeout of 5 s
  (`src/providers/twitch/api/Helix.cpp:3849`).
* A session or an IRC connection that gets long enough is greeted (strong
  fairness of `SessionWelcome` and `OnReadConnected`). The code has no timeout of its own
  before the greeting, so this is an assumption on Twitch; it is listed as a
  hazard.
* A WebSocket attempt ends within the pool's timeouts (weak fairness of
  `SocketStep`); not all attempts fail (`MaxDisturbances`).
* In `WebSocketConnection`, the pool's thread runs what is posted and ends when
  it can. Resolving, connecting and both handshakes time out after 30 s and so
  does closing (`FairSpec` names each as weakly fair). A read or a write of an
  open connection need never end: it is fair only once the stream is closed or
  being closed.
* `MessageHistory` has no fairness: whether a load is answered is up to the
  service.
* The user is not fair: opening, closing, subscribing and releasing may
  happen or not. Only the first `connect` of the program is, since
  `Application` makes it at start.

### Findings

1. A handle released while its create request is in flight leaves the
   subscription at Twitch. `removeRef` (`eventsub/Controller.cpp:171`) returns
   when there is no ID yet, and the answer, which brings the ID, does not look
   at the count. `eventsub/SubscriptionHandle.hpp:23` promises an
   unsubscription request.
2. A handle released while its retry waits cancels the timer
   (`eventsub/Controller.cpp:170`) and leaves the state `Retrying`; a later handle
   finds an attempt "currently in progress" (`eventsub/Controller.hpp:136`) that
   does not exist, and never gets its events.
3. A 7TV topic that is unsubscribed while its subscription is in the backlog
   (`src/providers/liveupdates/BasicPubSubManager.hpp:112` asks clients only) is
   subscribed when the next client opens and stays subscribed.
4. When the account changes while an attempt of the old one is in progress, one
   session carries subscriptions of both users, which
   `eventsub/Connection.cpp:425` asserts never happens: the session gets its user
   only from the first create request that succeeds.

## 4. Proofs

All theorems hold for any finite or infinite sets, any bounds and, unless said
otherwise, any faults. The assumptions are those of the modules' `ASSUME`s,
which every run evaluates.

* `EventSubControllerProofs`: `TypeCorrect`; `HandlesCounted` (inductive with
  `TypeOK`: only `Subscribe` and `RemoveRef` touch both sides, and every erasing
  step looks at the count in the same critical section); `OneNotReady`
  (inductive with `TypeOK`: a session is added only when none is open and not
  ready, by the IO thread alone; migration replaces the session it ends);
  `BoundInUse` (inductive with `TypeOK`). `UnsubscribedUnreferenced` and
  `StatesBacked` rest on one lemma about every step: it keeps an entry's state,
  or sets a state that something stands behind. `ConnectionLists` needs two facts
  more: a session that was welcomed is live, and while the controller runs, a
  create request in flight names a live session.
* `EventSubCalmProofs`: what the runs with faults show to hold in a calm
  environment only: `OneDriverEach`, `NothingUnexpected` (`AssertionsHold`),
  `OneUserEach` and `SessionsMatch`. They assume `Faults \subseteq {"drop"}`
  (`CalmEnvironment`), and `OneDriverEach` also that Helix never answers
  `forbidden`; the table under *EventSubController* shows that each of these is
  needed. The inductive invariant `CalmInv` says of every entry, while the
  controller runs: an attempt in progress is driven by one thing of one of five
  kinds (a queued handler, a create request, an armed timer, the step or the loop
  the IO thread is in) or was forbidden, and nothing drives any other entry
  (`Attempted`); a delete request is in flight exactly while it is being
  unsubscribed (`Deleted`); what is attempted or subscribed is held
  (`HeldWhileUsed`); the entry and the session it is subscribed on point at each
  other (`Linked`). The kinds are needed because each step takes the attempt from
  one to another. `OneUserPerSession` is not inductive without `CreatesFit`: what
  a session carries when a create request for it is in flight is of the same
  user. That holds because attempts are held and all handles are of one account
  (`OneAccount`). The five invariants of any environment above are used as known.
* `RatelimitBucketProofs`: `RateLimit`, `NoVainWaiting`, `Order`, from one
  invariant: what is running, what is left and what is queued.
* `IrcConnectionProofs`: `LossRetried` needs a strengthening: while the socket
  is in use, a loss is not expected unless the timer that makes up for it runs.
  `TimeoutEarned` needs to know what the flags say about `quiet`.
* `TwitchIrcServerProofs`: `DrivesConnection` shows that each step of the server
  is a step of the connection or leaves it alone, so the connection's theorems
  carry over (`ServerLossRetried`). `OnlyWantedJoined` holds for any faults.
  `OpenJoined` and `OnePerName` assume `"offThread" \notin Faults` and rest on
  the invariant that the registry and the live objects agree in both directions.
* `LiveUpdatesProofs`: `NoneForgotten` and `LimitKept` are inductive with
  `TypeOK`; the lemmas are about what `SubSeq`, `Append` and a listed set do to
  the backlog and how cardinalities grow by one. `PendingDriven` needs
  `AddingIsUnopened`: `addingClient_` is only set while a client has not opened.
  `OnePlace` and `OnlyWantedSubscribed` assume `"early release" \notin Faults`,
  which the run of early releases shows to be necessary. They are inductive
  together: that a topic's subscriptions are nowhere when it is subscribed needs
  that all of what clients have and what waits is wanted, and that unsubscribing
  one client is enough needs that no other has it.
* `WebSocketConnectionProofs`: `Implements` is the refinement, for any number of
  addresses, messages and callbacks. It needs four facts beside the types:
  `Phases` (until `run` the connection is blank, until the handshakes end nothing
  was told and nothing written), `Ending` (attached means that something is in
  progress that will detach it, and the close was told exactly when it is not),
  `InOrder` (numbers wait in the order in which they were sent) and `NoneLost`
  (what was sent and not written waits, unless a write failed). They are
  inductive together (`IInv`); the types and the code's assertions follow too.
* `MessageHistoryProofs`: `TypeCorrect`, `MessagesInOrder` (`InOrder`),
  `NothingIsMissed` (`NothingUnseen`) and `FrontLeavesFirst`
  (`LeavesAtTheFront`), for any limits and any number of messages and losses.
  The argument has three layers.
  1. The queue, for any elements and not about one specification: what pushing
     and inserting give at each position, with `InsertKeepsLimit`,
     `InsertRemovesOnlyTheFirst` and `PushFrontDeletesNothing`.
  2. The loop that fills in. It inserts into the live queue where it finds its
     place in a snapshot taken before, while the queue drops its first element
     whenever it is full, the one it is about to insert next to included. Every
     message gets a slot: an even one for those in the snapshot, the odd one
     before its `Anchor` for those that are filled in. `Precedes` orders messages
     by slot and time. After each item (`Fills`) the queue is sorted by
     `Precedes`, holds nothing else than the snapshot and the items so far, and
     lacks of these only what precedes all it holds, and that only if it is full.
     That gives order, uniqueness and leaving at the front at once (`FilledIn`).
     `Filled` is a recursive function, so this is an induction over the items
     and a proof that the function exists; both use `AllNaturals`, which is
     induction for a set in place of a predicate and follows from the naturals
     being well-founded.
  3. The inductive invariant `IInv`, checked with TLC on the run's instance, with
     room for one, three, five and six messages, before it was proved.
     `NothingUnseen` speaks of what is newer than the topmost message; the
     invariant has to account for every number (`Accounted`), and the alternative
     for the rest is `Missed`: older than all that is shown *and* than what a load
     in progress or the next one asks for, so that no answer can put something
     older above it. `RoomIsKnown`, `MarkedIsLeft` and `LoadsFit` relate the
     room ID, `disconnected_`, `lastConnectedAt_` and the load: that the channel
     is marked whenever it has a room ID and is not joined is what makes a
     message sent meanwhile newer than the time the next load asks from.
     `Preserved` also says of each step that messages leave at the front.

`LimitKept` (`WithinLimit`), `Order` (`FirstInFirstOut`) and the types of
`LiveUpdates` and `RatelimitBucket` are proved and not in a run's configuration.

Model-checked only: the liveness properties. Liveness under fairness and
`ENABLED` are outside what the prover supports. Every invariant and every other
action property of a passing run, and the refinement, are proved.

## 5. Not modelled

`PROJECT.json` lists every component with its status. Left out for good:
parsing and rendering, the generated payload parsers, plugins (a Lua
interpreter), the user interface, settings, sound, logging and native messaging
(I/O), encryption of whispers. Most of the repository's lines are of this kind:
sequential transformations and widgets, which unit tests reach.

Within the modelled components: the payload handlers of EventSub, delays and
their growth, the write connection of IRC and message sending, C++ object
lifetimes below `shared_ptr` counts (noted as hazards where they bite); the 1 s
after which the WebSocket pool's destructor gives up on its thread; the mentions
channel, which takes highlights from a first load of history, the timeouts and
separators of days among what history brings, and the changes of messages that
keep their place.

Not modelled, and worth it: `NetworkTask` (timeout against finish), of which the
models assume that a request is answered at most once; BTTV's use of the live
updates manager; the EventSub messages a channel shows.

## 6. Plan

1. `NetworkTask`: timeout, finish and cancel; callbacks once and always.
2. An abstract service of subscriptions (a topic is off, on its way, on or
   refused) implemented by `EventSubController` in a calm environment.
3. BTTV's use of `LiveUpdates`.
