------------------------- MODULE RatelimitBucketProofs -------------------------
(***************************************************************************)
(* Proofs about RatelimitBucket for any items and any budget.  A zero      *)
(* budget is included: nothing ever passes then.  The conservation law     *)
(* budget + timers = Budget makes the other two inductive.                 *)
(***************************************************************************)
EXTENDS RatelimitBucket, SequenceTheorems, TLAPS

USE BucketAssumption DEF BucketAssumption

Conserved == budget + timers = Budget

(* What the timers do not hold is a part of the budget. *)
LEMMA Share ==
    ASSUME NEW b \in Nat, NEW t \in Nat, b + t = Budget
    PROVE  b \in 0..Budget
  OBVIOUS

(* A timer that fires returns the share it held. *)
LEMMA Returned ==
    ASSUME NEW b \in Nat, NEW t \in Nat
    PROVE  (b + 1) + (t - 1) = b + t
  OBVIOUS

(* handleOne spends budget it has, or finds nothing to do. *)
LEMMA HandleOneStep ==
    ASSUME TypeOK,
           NEW q \in Seq(Items), NEW b \in Nat, NEW t \in Nat,
           b > 0, HandleOne(q, b, t)
    PROVE  /\ queue' \in Seq(Items) /\ budget' \in Nat /\ timers' \in Nat
           /\ passed' \in Seq(Items)
           /\ budget' + timers' = b + t
           /\ passed' \o queue' = passed \o q
           /\ queue' # <<>> => q # <<>> /\ budget' = b - 1
<1>1. CASE q = <<>>
  BY <1>1 DEF HandleOne, TypeOK
<1>2. CASE q # <<>>
  <2>1. Head(q) \in Items /\ Tail(q) \in Seq(Items)
    BY <1>2
  <2>2. /\ queue' = Tail(q) /\ budget' = b - 1 /\ timers' = t + 1
        /\ passed' = Append(passed, Head(q))
    BY <1>2 DEF HandleOne
  <2>3. Append(passed, Head(q)) \o Tail(q) = passed \o q
    BY <1>2, <2>1 DEF TypeOK
  <2> QED
    BY <1>2, <2>1, <2>2, <2>3, SMTT(40) DEF TypeOK
<1> QED
  BY <1>1, <1>2

Inv == TypeOK /\ Conserved /\ NothingWaitsInVain /\ FirstInFirstOut

(* Every step keeps the budget, the order and the queue right. *)
LEMMA InvStep ==
    ASSUME Inv, [Next]_bucketVars
    PROVE  Inv'
<1>1. budget \in Nat /\ timers \in Nat /\ budget + timers = Budget
  BY DEF Inv, TypeOK, Conserved
<1>2. ASSUME NEW item \in Items, Send(item)
      PROVE  Inv'
  <2>1. requested' = Append(requested, item) /\ requested' \in Seq(Items)
    BY <1>2 DEF Send, Inv, TypeOK
  <2>2. /\ Append(queue, item) \in Seq(Items)
        /\ passed \o Append(queue, item) = requested'
    BY <2>1 DEF Inv, TypeOK, FirstInFirstOut
  <2>3. CASE budget > 0
    <3>1. queue = <<>>
      BY <2>3 DEF Inv, NothingWaitsInVain
    <3>2. HandleOne(Append(queue, item), budget, timers)
      BY <1>2, <2>3 DEF Send
    <3>3. /\ queue' \in Seq(Items) /\ budget' \in Nat /\ timers' \in Nat
          /\ passed' \in Seq(Items)
          /\ budget' + timers' = budget + timers
          /\ passed' \o queue' = passed \o Append(queue, item)
      BY <1>1, <2>2, <2>3, <3>2, HandleOneStep DEF Inv
    <3>4. queue' = <<>>
      BY <3>1, <3>2 DEF HandleOne, Inv, TypeOK
    <3>5. budget' \in 0..Budget /\ Conserved'
      <4>1. /\ budget' \in Nat /\ timers' \in Nat
            /\ budget' + timers' = budget + timers
        BY <3>3
      <4>2. budget' + timers' = Budget
        BY <1>1, <4>1
      <4>3. budget' \in 0..Budget
        BY <4>1, <4>2, Share
      <4> QED
        BY <4>1, <4>2, <4>3 DEF Conserved
    <3>6. TypeOK'
      BY <2>1, <3>3, <3>5 DEF TypeOK
    <3>7. FirstInFirstOut'
      BY <2>2, <3>3 DEF FirstInFirstOut
    <3> QED
      BY <3>4, <3>5, <3>6, <3>7 DEF Inv, NothingWaitsInVain
  <2>4. CASE ~ budget > 0
    <3>1. queue' = Append(queue, item) /\ UNCHANGED <<budget, timers, passed>>
      BY <1>2, <2>4 DEF Send
    <3>2. budget = 0
      BY <1>1, <2>4
    <3> QED
      BY <1>1, <2>1, <2>2, <3>1, <3>2
         DEF Inv, TypeOK, Conserved, NothingWaitsInVain, FirstInFirstOut
  <2> QED BY <2>3, <2>4
<1>3. CASE Cooldown
  <2>1. timers > 0 /\ HandleOne(queue, budget + 1, timers - 1) /\ UNCHANGED requested
    BY <1>3 DEF Cooldown
  <2>2. /\ TypeOK /\ queue \in Seq(Items)
        /\ budget + 1 \in Nat /\ timers - 1 \in Nat /\ budget + 1 > 0
    BY <1>1, <2>1 DEF Inv, TypeOK
  <2>3. /\ queue' \in Seq(Items) /\ budget' \in Nat /\ timers' \in Nat
        /\ passed' \in Seq(Items)
        /\ budget' + timers' = (budget + 1) + (timers - 1)
        /\ passed' \o queue' = passed \o queue
        /\ queue' # <<>> => queue # <<>> /\ budget' = (budget + 1) - 1
    BY <2>1, <2>2, HandleOneStep
  <2>4. queue' # <<>> => budget' = 0
    BY <1>1, <2>3 DEF Inv, NothingWaitsInVain
  <2>5. requested' = requested
    BY <2>1
  <2>6. budget' \in 0..Budget /\ Conserved'
    <3>1. /\ budget' \in Nat /\ timers' \in Nat
          /\ budget' + timers' = (budget + 1) + (timers - 1)
      BY <2>3
    <3>2. budget' + timers' = Budget
      <4>1. (budget + 1) + (timers - 1) = budget + timers
        BY <1>1, Returned
      <4> QED
        BY <1>1, <3>1, <4>1, Zenon
    <3>3. budget' \in 0..Budget
      BY <3>1, <3>2, Share
    <3> QED
      BY <3>1, <3>2, <3>3 DEF Conserved
  <2>7. TypeOK'
    BY <2>2, <2>3, <2>5, <2>6 DEF TypeOK
  <2>8. FirstInFirstOut'
    BY <2>3, <2>5 DEF Inv, FirstInFirstOut
  <2> QED
    BY <2>4, <2>6, <2>7, <2>8 DEF Inv, NothingWaitsInVain
<1>4. CASE UNCHANGED bucketVars
  BY <1>4 DEF bucketVars, Inv, TypeOK, Conserved, NothingWaitsInVain, FirstInFirstOut
<1> QED
  BY <1>2, <1>3, <1>4 DEF Next

(* The inductive invariant holds in every behaviour. *)
THEOREM Invariance == Spec => []Inv
<1>1. Init => Inv
  BY DEF Init, Inv, TypeOK, Conserved, NothingWaitsInVain, FirstInFirstOut
<1>2. Inv /\ [Next]_bucketVars => Inv'
  BY InvStep
<1> QED
  BY <1>1, <1>2, PTL DEF Spec

(* No more than Budget items are within their cooldown at any time. *)
THEOREM RateLimit == Spec => []RateIsLimited
<1>1. Inv => RateIsLimited
  BY DEF Inv, TypeOK, Conserved, RateIsLimited
<1> QED
  BY <1>1, Invariance, PTL

(* The bucket is work-conserving: an item waits only on an empty budget. *)
THEOREM NoVainWaiting == Spec => []NothingWaitsInVain
<1>1. Inv => NothingWaitsInVain
  BY DEF Inv
<1> QED
  BY <1>1, Invariance, PTL

(* Items pass in the order of their send calls, each exactly once. *)
THEOREM Order == Spec => []FirstInFirstOut
<1>1. Inv => FirstInFirstOut
  BY DEF Inv
<1> QED
  BY <1>1, Invariance, PTL
=============================================================================
