---------------------------- MODULE RatelimitBucket ----------------------------
(***************************************************************************)
(* chatterino::RatelimitBucket: items pass at once while there is budget   *)
(* and wait in a queue otherwise; each item that passes costs one unit of  *)
(* budget until its cooldown timer fires.  TwitchIrcServer sends its JOINs *)
(* through one.  Everything runs on the GUI thread, so send and the timer  *)
(* handler are atomic.                                                     *)
(***************************************************************************)
EXTENDS Integers, Sequences

CONSTANTS
    Items,     \* what is sent: channel names
    Budget,    \* items that may pass per cooldown
    MaxSends   \* bound: calls of send

ASSUME BucketAssumption == Budget \in Nat /\ MaxSends \in Nat

VARIABLES
    queue,     \* queue_
    budget,    \* budget_
    timers,    \* cooldown timers that are running
    requested, \* every item given to send, in order
    passed     \* every item given to callback_, in order

bucketVars == <<queue, budget, timers, requested, passed>>

TypeOK ==
    /\ queue \in Seq(Items)
    /\ budget \in 0..Budget
    /\ timers \in Nat
    /\ requested \in Seq(Items)
    /\ passed \in Seq(Items)

Init ==
    /\ queue = <<>>
    /\ budget = Budget
    /\ timers = 0
    /\ requested = <<>>
    /\ passed = <<>>

(* Mutant: a pass costs nothing. *)
HandleForFree(q, b, t) ==
    IF q = <<>>
    THEN queue' = q /\ budget' = b /\ timers' = t /\ UNCHANGED passed
    ELSE /\ queue' = Tail(q)
         /\ budget' = b
         /\ timers' = t + 1
         /\ passed' = Append(passed, Head(q))

(* handleOne, on the queue, budget and timers its caller leaves it. *)
HandleOne(q, b, t) ==
    IF q = <<>>
    THEN queue' = q /\ budget' = b /\ timers' = t /\ UNCHANGED passed
    ELSE /\ queue' = Tail(q)
         /\ budget' = b - 1
         /\ timers' = t + 1
         /\ passed' = Append(passed, Head(q))

Send(item) ==
    /\ Len(requested) < MaxSends
    /\ requested' = Append(requested, item)
    /\ IF budget > 0
       THEN HandleOne(Append(queue, item), budget, timers)
       ELSE /\ queue' = Append(queue, item)
            /\ UNCHANGED <<budget, timers, passed>>

(* Mutant: the timer gives the budget back and leaves the queue alone. *)
CooldownWithoutHandling ==
    /\ timers > 0
    /\ budget' = budget + 1
    /\ timers' = timers - 1
    /\ UNCHANGED <<queue, requested, passed>>

Cooldown ==
    /\ timers > 0
    /\ HandleOne(queue, budget + 1, timers - 1)
    /\ UNCHANGED requested

Next == (\E item \in Items : Send(item)) \/ Cooldown

Spec == Init /\ [][Next]_bucketVars

FairSpec == Spec /\ WF_bucketVars(Cooldown)

-----------------------------------------------------------------------------
(* Of the items that passed, no more than Budget are within their cooldown: *)
(* the budget is what the running timers have not taken.                    *)
RateIsLimited == budget + timers = Budget /\ timers <= Budget

(* An item waits only while the whole budget is taken. *)
NothingWaitsInVain == queue # <<>> => budget = 0

(* Items pass in the order they were sent, none twice and none lost. *)
FirstInFirstOut == passed \o queue = requested

(* Every item sent is eventually passed on. *)
EverythingPasses == \A n \in 1..MaxSends : Len(requested) >= n ~> Len(passed) >= n
=============================================================================
