---------------------------- MODULE MessageHistory ----------------------------
(***************************************************************************)
(* The messages a TwitchChannel shows: those that arrive while it is       *)
(* joined, and those the Recent Messages service returns for the time      *)
(* before that and for the times it was not.                               *)
(*                                                                         *)
(* The connection (IrcConnection, TwitchIrcServer) is reduced to what one  *)
(* channel sees of it, and chat messages to their numbers, in the order of *)
(* Twitch's time.  That time is the clock here: "now" is the number of     *)
(* messages sent so far.  Everything runs on the GUI thread.               *)
(***************************************************************************)
EXTENDS LimitedQueue, FiniteSets

CONSTANTS
    HistoryLimit,  \* twitchMessageHistoryLimit
    MaxSent,       \* bound: chat messages sent to the channel
    MaxDrops,      \* bound: connections lost
    Never          \* no time

ASSUME HistoryAssumption ==
    /\ HistoryLimit \in Nat /\ MaxSent \in Nat /\ MaxDrops \in Nat
    /\ Never \notin Nat

VARIABLES
    sent,             \* chat messages sent so far
    link,             \* the read connection, as far as this channel is concerned
    pings,            \* the ping timer still believes in a connection that is gone
    drops,            \* bound
    messages,         \* messages_
    roomId,           \* the room ID is known
    disconnected,     \* disconnected_
    lastConnectedAt,  \* lastConnectedAt_
    loading,          \* the load that set loadingRecentMessages_
    seen,             \* chat messages that were shown at some time (history)
    lost,             \* chat messages that nothing will load any more (history)
    restored          \* the newest message the first load brought (history)

connection == <<sent, link, pings, drops>>
joinState == <<roomId, disconnected, lastConnectedAt>>
vars == <<connection, messages, joinState, loading, seen, lost, restored>>

Times == 0..MaxSent
NotLoading == [kind |-> "none", after |-> 0, before |-> 0]
Kinds == {"live", "history"}
SystemKinds == {"connected", "disconnected", "notice"}
Entries == [kind : Kinds \cup SystemKinds, n : Nat]

TypeOK ==
    /\ sent \in Times
    /\ link \in {"down", "connected", "joined", "vanished"}
    /\ pings \in BOOLEAN
    /\ drops \in 0..MaxDrops
    /\ messages \in Seq(Entries) /\ Len(messages) <= Limit
    /\ roomId \in BOOLEAN
    /\ disconnected \in BOOLEAN
    /\ lastConnectedAt \in Times \cup {Never}
    /\ loading \in [kind : {"none", "first", "reconnect"}, after : Times, before : Times]
    /\ seen \subseteq 1..MaxSent
    /\ lost \subseteq 1..MaxSent
    /\ restored \in Times

Init ==
    /\ sent \in Times
    /\ link = "down"
    /\ pings = FALSE
    /\ drops = 0
    /\ messages = <<>>
    /\ roomId = FALSE
    /\ disconnected = FALSE
    /\ lastConnectedAt = Never
    /\ loading = NotLoading
    /\ seen = {}
    /\ lost = {}
    /\ restored = 0

-----------------------------------------------------------------------------
IsChat(m) == m.kind \in Kinds

(* The chat messages in a queue. *)
Shown(q) == {m.n : m \in {e \in Range(q) : IsChat(e)}}

Live(n) == [kind |-> "live", n |-> n]

(* A system message that no other message of the queue is. *)
System(q, kind) ==
    [kind |-> kind,
     n |-> CHOOSE n \in 0..Len(q) :
               /\ [kind |-> kind, n |-> n] \notin Range(q)
               /\ \A k \in 0..n - 1 : [kind |-> kind, n |-> k] \in Range(q)]

AddSystem(q, kind) == PushBack(q, System(q, kind))

(* What the service returns, oldest first. *)
History(numbers) ==
    [i \in 1..Cardinality(numbers) |->
        [kind |-> "history",
         n |-> CHOOSE n \in numbers : Cardinality({k \in numbers : k <= n}) = i]]

(* existingMessageIds, of the messages that are not system messages. *)
Existing(q) == Shown(q)

(* Mutant: what is filled in goes to the end. *)
LaterNone(q, m) == {}

(* Where in the snapshot the messages later than m are. *)
Later(q, m) == {i \in DOMAIN q : IsChat(q[i]) /\ m.n < q[i].n}

(* What is made of the queue, and of the message to go on after, when m is  *)
(* filled in: it goes before the first of the snapshot q that is later, or  *)
(* else after the last there was or that came after it this way.            *)
Placed(q, done, m) ==
    IF m.n \in Existing(q) THEN done
    ELSE IF Later(q, m) # {}
    THEN [done EXCEPT !.queue = InsertBefore(@, q[Min(Later(q, m))], m)]
    ELSE [queue |-> InsertAfter(done.queue, done.last, m), last |-> m]

(* The loop over the items: what it has made after each of them. *)
Filled(q, items) ==
    LET filled[k \in 0..Len(items)] ==
            IF k = 0 THEN [queue |-> q, last |-> Last(q)]
            ELSE Placed(q, filled[k - 1], items[k])
    IN  filled

(* fillInMissingMessages *)
FillInMissingMessages(q, items) ==
    IF q = <<>> THEN PushFront(q, items) ELSE Filled(q, items)[Len(items)].queue

-----------------------------------------------------------------------------
(* The messages a load can still bring.  A first load asks for no time, so  *)
(* it brings at least those sent before it.                                 *)
Covered(load) == IF load.kind = "none" THEN {} ELSE load.after + 1..load.before

See == seen' = seen \cup Shown(messages')

(* The channel will not ask for what was sent up to now any more. *)
GiveUp == lost' = lost \cup ((1..sent) \ (seen \cup Covered(loading')))

(* loadRecentMessages.  The setting may be off. *)
LoadRecentMessages(now) ==
    \/ loading.kind = "none" /\ loading' = [kind |-> "first", after |-> 0, before |-> now]
    \/ UNCHANGED loading

(* loadRecentMessagesReconnect: from when the channel was last connected to *)
(* now.  If another load is in progress, or the setting is off, there is    *)
(* none.                                                                    *)
LoadRecentMessagesReconnect ==
    \/ /\ loading.kind = "none"
       /\ loading' = [kind |-> "reconnect", after |-> lastConnectedAt, before |-> sent]
       /\ UNCHANGED lost
    \/ /\ UNCHANGED loading
       /\ GiveUp

(* setRoomId, which only the first room ID gets past. *)
SetRoomId(now) ==
    IF roomId THEN UNCHANGED <<joinState, loading>>
    ELSE /\ roomId' = TRUE
         /\ LoadRecentMessages(now)
         /\ disconnected' = FALSE
         /\ lastConnectedAt' = now

(* Mutant: a connection that is not joined again yet counts. *)
MarkConnectedEarly ==
    lastConnectedAt' = IF lastConnectedAt # Never THEN sent ELSE lastConnectedAt

(* markConnected *)
MarkConnected ==
    lastConnectedAt' =
        IF lastConnectedAt # Never /\ ~disconnected THEN sent ELSE lastConnectedAt

(* onDisconnected and markDisconnected, with the messages that leaves. *)
OnDisconnected(queue) ==
    /\ drops < MaxDrops
    /\ drops' = drops + 1
    /\ link' = "down"
    /\ pings' = FALSE
    /\ messages' = queue
    /\ disconnected' = (disconnected \/ roomId)
    /\ UNCHANGED <<sent, roomId, loading, lost, restored>>
    /\ See

-----------------------------------------------------------------------------
(* Someone writes to the channel.  A message that arrives may be the first  *)
(* that tells the room ID.                                                  *)
Privmsg ==
    /\ sent < MaxSent
    /\ sent' = sent + 1
    /\ IF link = "joined"
       THEN messages' = PushBack(messages, Live(sent')) /\ SetRoomId(sent')
       ELSE UNCHANGED <<messages, joinState, loading>>
    /\ UNCHANGED <<link, pings, drops, lost, restored>>
    /\ See

(* onReadConnected: a "disconnected" at the end becomes "reconnected". *)
OnReadConnected ==
    /\ link = "down"
    /\ link' = "connected"
    /\ messages' =
           IF messages # <<>> /\ Last(messages).kind = "disconnected"
           THEN ReplaceItem(messages, Last(messages), System(messages, "connected"))
           ELSE AddSystem(messages, "connected")
    /\ UNCHANGED <<sent, pings, drops, joinState, loading, lost, restored>>
    /\ See

(* The echo of our JOIN: handleJoinMessage and the channel's joined signal. *)
HandleJoin ==
    /\ link = "connected"
    /\ link' = "joined"
    /\ messages' = AddSystem(messages, "notice")
    /\ IF disconnected
       THEN /\ LoadRecentMessagesReconnect
            /\ lastConnectedAt' = sent
            /\ disconnected' = FALSE
       ELSE UNCHANGED <<loading, lost, lastConnectedAt, disconnected>>
    /\ UNCHANGED <<sent, pings, drops, roomId, restored>>
    /\ See

(* handleRoomStateMessage *)
HandleRoomState ==
    /\ link = "joined" /\ ~roomId
    /\ SetRoomId(sent)
    /\ UNCHANGED <<connection, messages, seen, lost, restored>>

(* The peer is gone, and the socket does not know.  A message it sent since *)
(* the ping timer last fired makes the timer take it for alive once more.   *)
PeerVanishes ==
    /\ link \in {"connected", "joined"}
    /\ link' = "vanished"
    /\ pings' \in BOOLEAN
    /\ UNCHANGED <<sent, drops, messages, joinState, loading, seen, lost, restored>>

(* The ping timer fires after messages arrived: markChannelsConnected.      *)
(* With a peer that is gone by now, what it did not send is given up.       *)
Heartbeat ==
    /\ link \in {"connected", "joined"} \/ pings
    /\ pings' = FALSE
    /\ MarkConnected
    /\ IF link = "vanished" /\ lastConnectedAt' # lastConnectedAt
       THEN lost' = lost \cup ((1..sent) \ (seen \cup Covered(loading)))
       ELSE UNCHANGED lost
    /\ UNCHANGED <<sent, link, drops, messages, roomId, disconnected, loading, seen, restored>>

(* The socket notices a loss. *)
LoseConnection ==
    /\ link # "down"
    /\ OnDisconnected(AddSystem(messages, "disconnected"))
    /\ UNCHANGED lastConnectedAt

(* The ping timer gives up, and says so after it closed the connection. *)
PingTimeout ==
    /\ link = "vanished" /\ ~pings
    /\ OnDisconnected(AddSystem(AddSystem(messages, "disconnected"), "notice"))
    /\ UNCHANGED lastConnectedAt

(* Twitch asks for a new connection. *)
HandleReconnect ==
    /\ link \in {"connected", "joined"}
    /\ MarkConnected
    /\ OnDisconnected(AddSystem(AddSystem(messages, "notice"), "disconnected"))

-----------------------------------------------------------------------------
(* onLoaded, with what the service returned for the load. *)
OnLoaded(queue, numbers) ==
    /\ messages' = IF loading.kind = "first" THEN PushFront(queue, History(numbers))
                   ELSE IF numbers = {} THEN queue
                   ELSE FillInMissingMessages(queue, History(numbers))
    /\ lost' = lost \cup (Covered(loading) \ (numbers \cup seen))
    /\ restored' = IF loading.kind = "first" /\ numbers # {} THEN Max(numbers) ELSE restored
    /\ loading' = NotLoading
    /\ UNCHANGED <<connection, joinState>>
    /\ See

(* The limit of a reconnect is lower if the channel was away for a short    *)
(* time only; it is meant to be enough for what was sent in that time.      *)
Newest(numbers) == {n \in numbers : Cardinality({k \in numbers : k >= n}) <= HistoryLimit}

(* What a load asks for, of which the service returns the newest.  A first  *)
(* load has no end: it gets what there is when the service answers.         *)
Asked(load, now) == load.after + 1..(IF load.kind = "first" THEN now ELSE load.before)

(* The service has all messages, or is recovering and may have gaps. *)
LoadSucceeds ==
    /\ loading.kind # "none"
    /\ \E now \in loading.before..sent :
           LET answer == Newest(Asked(loading, now))
           IN  \/ OnLoaded(messages, answer)
               \/ \E kept \in SUBSET answer \ {{}} :
                      OnLoaded(AddSystem(messages, "notice"), kept)

LoadFails ==
    /\ loading.kind # "none"
    /\ messages' = AddSystem(messages, "notice")
    /\ lost' = lost \cup (Covered(loading) \ seen)
    /\ loading' = NotLoading
    /\ UNCHANGED <<connection, joinState, restored>>
    /\ See

Next ==
    \/ Privmsg \/ OnReadConnected \/ HandleJoin \/ HandleRoomState
    \/ PeerVanishes \/ Heartbeat
    \/ LoseConnection \/ PingTimeout \/ HandleReconnect
    \/ LoadSucceeds \/ LoadFails

Spec == Init /\ [][Next]_vars

-----------------------------------------------------------------------------
(* Nothing newer than the topmost message, and than what the first load     *)
(* brought, goes unseen: it is or was shown, a load in progress brings it,  *)
(* or it will be asked for when the channel is joined again, unless it was  *)
(* given up: its load failed, was skipped or had gaps, or the ping timer    *)
(* was late (fillInMissingMessages, lastConnectedAt_, disconnected_).       *)
NothingUnseen ==
    LET top == CHOOSE i \in DOMAIN messages :
                   IsChat(messages[i]) /\ \A j \in 1..i - 1 : ~IsChat(messages[j])
    IN  Shown(messages) # {} =>
            \A n \in Max({messages[top].n, restored}) + 1..sent :
                \/ n \in seen \cup lost \cup Covered(loading)
                \/ link # "joined" /\ n > lastConnectedAt

(* Messages are shown in the order they were sent, each once, except that   *)
(* some that arrived before the first load was answered are below what it   *)
(* brought (addMessagesAtStart, fillInMissingMessages).                     *)
InOrder ==
    \A i, j \in DOMAIN messages :
        i < j /\ IsChat(messages[i]) /\ IsChat(messages[j]) =>
            \/ messages[i].n < messages[j].n
            \/ /\ messages[i].kind = "history" /\ messages[j].kind = "live"
               /\ messages[i].n <= restored

(* Messages leave only at the front, whatever is added and wherever: none   *)
(* below a live message that stays (LimitedQueue).                          *)
LeavesAtTheFront ==
    [][\A i, j \in DOMAIN messages :
          /\ i < j /\ messages[i].kind = "live" /\ messages[i] \in Range(messages')
          => messages[j] \in Range(messages') \/ ~IsChat(messages[j])]_vars
=============================================================================
