------------------------- MODULE MessageHistoryProofs -------------------------
(***************************************************************************)
(* Proofs about LimitedQueue and MessageHistory: what the operations of    *)
(* the queue do to any queue within its limit, what filling in makes of    *)
(* one, and from these the properties of the messages a channel shows, for *)
(* any limits and any number of messages and losses.                       *)
(***************************************************************************)
EXTENDS MessageHistory, SequenceTheorems, FiniteSetTheorems, WellFoundedInduction, TLAPS

-----------------------------------------------------------------------------
(* Numbers *)

(* A set of naturals has a least element. *)
LEMMA Smallest ==
    ASSUME NEW S \in SUBSET Nat, S # {}
    PROVE  \E n \in S : \A m \in S : n <= m
<1>1. IsWellFoundedOn(OpToRel(<, Nat), Nat)
  BY NatLessThanWellFounded
<1>2. \E n \in S : \A m \in S : ~(<<m, n>> \in OpToRel(<, Nat))
  BY <1>1, WFMin, Zenon
<1>3. PICK n \in S : \A m \in S : ~(<<m, n>> \in OpToRel(<, Nat))
  BY <1>2
<1>4. \A m \in S : m < n => <<m, n>> \in OpToRel(<, Nat)
  BY DEF OpToRel
<1>5. \A m \in S : m \in Nat /\ n \in Nat
  OBVIOUS
<1>6. \A m \in S : ~(m < n)
  BY <1>3, <1>4, Zenon
<1>7. \A m \in S : n <= m
  BY <1>5, <1>6
<1> QED
  BY <1>7

(* Induction, for a set instead of a predicate. *)
LEMMA AllNaturals ==
    ASSUME NEW S, 0 \in S, \A n \in S \cap Nat : n + 1 \in S
    PROVE  Nat \subseteq S
<1> SUFFICES ASSUME Nat \ S # {} PROVE FALSE
  OBVIOUS
<1>1. PICK n \in Nat \ S : \A m \in Nat \ S : n <= m
  <2>1. Nat \ S \in SUBSET Nat
    OBVIOUS
  <2> QED
    BY <2>1, Smallest, Zenon
<1>2. n # 0 /\ n - 1 \in Nat /\ ~(n <= n - 1) /\ n - 1 + 1 = n
  BY <1>1
<1>3. n - 1 \in S
  BY <1>1, <1>2, Zenon
<1> QED
  BY <1>1, <1>2, <1>3, Zenon

LEMMA MinIs ==
    ASSUME NEW S \in SUBSET Nat, S # {}
    PROVE  Min(S) \in S /\ \A m \in S : Min(S) <= m
BY Smallest, Zenon DEF Min

LEMMA MaxIs ==
    ASSUME NEW b \in Nat, NEW S \in SUBSET (0..b), S # {}
    PROVE  Max(S) \in S /\ \A m \in S : Max(S) >= m
<1> DEFINE Rest == {k \in Nat : b - k \in S}
<1>1. Rest \in SUBSET Nat /\ Rest # {}
  <2>1. PICK x \in S : TRUE
    OBVIOUS
  <2>2. b - x \in Nat /\ b - (b - x) = x
    BY <2>1
  <2> QED
    BY <2>1, <2>2
<1>2. PICK k \in Rest : \A m \in Rest : k <= m
  BY <1>1, Smallest, Zenon
<1>3. ASSUME NEW m \in S PROVE b - k >= m
  <2>1. b - m \in Nat /\ b - (b - m) = m
    OBVIOUS
  <2>2. k <= b - m
    BY <1>2, <2>1
  <2> QED
    BY <2>2
<1>4. \E x \in S : \A m \in S : x >= m
  BY <1>2, <1>3
<1> QED
  BY <1>4, Zenon DEF Max

-----------------------------------------------------------------------------
(* The queue *)

(* A sequence with an item between its two parts. *)
Around(p, item, r) == p \o <<item>> \o r

(* q without what is before first, with the item in front of what was i-th. *)
Spliced(q, first, i, item) == Around(SubSeq(q, first, i - 1), item, SubSeq(q, i, Len(q)))

(* s has the item in some position. *)
Keeps(s, item) == \E k \in 1..Len(s) : s[k] = item

(* What a part of a sequence is. *)
LEMMA Parts ==
    ASSUME NEW T, NEW q \in Seq(T), NEW m \in 1..Len(q) + 1, NEW n \in 0..Len(q), m <= n + 1
    PROVE  /\ SubSeq(q, m, n) \in Seq(T)
           /\ Len(SubSeq(q, m, n)) = n - m + 1
           /\ \A j \in 1..n - m + 1 : SubSeq(q, m, n)[j] = q[m + j - 1]
  OBVIOUS

(* What a concatenation is. *)
LEMMA Concatenated ==
    ASSUME NEW T, NEW p \in Seq(T), NEW r \in Seq(T)
    PROVE  p \o r \in Seq(T) /\ Len(p \o r) = Len(p) + Len(r)
  OBVIOUS

(* What two parts and an item between them make, by position. *)
LEMMA Joined ==
    ASSUME NEW T, NEW p \in Seq(T), NEW item \in T, NEW r \in Seq(T)
    PROVE  /\ Around(p, item, r) \in Seq(T)
           /\ Len(Around(p, item, r)) = Len(p) + 1 + Len(r)
           /\ \A j \in 1..Len(p) : Around(p, item, r)[j] = p[j]
           /\ Around(p, item, r)[Len(p) + 1] = item
           /\ \A j \in 1..Len(r) : Around(p, item, r)[Len(p) + 1 + j] = r[j]
  BY DEF Around

(* s is q without what is before first, with one item more at i: the others *)
(* have their positions in between.                                         *)
Splices(T, s, q, first, i) ==
    /\ s \in Seq(T)
    /\ Len(s) = Len(q) - first + 2
    /\ \A j \in first..i - 1 : s[j - first + 1] = q[j]
    /\ \A j \in i..Len(q) : s[j - first + 2] = q[j]

(* What an insertion gives, by position. *)
LEMMA Inserted ==
    ASSUME NEW T, NEW q \in Seq(T), NEW first \in 1..Len(q) + 1,
           NEW i \in first..Len(q) + 1, NEW item \in T
    PROVE  Splices(T, Spliced(q, first, i, item), q, first, i)
<1>1. /\ SubSeq(q, first, i - 1) \in Seq(T)
      /\ Len(SubSeq(q, first, i - 1)) = i - first
      /\ \A j \in 1..i - first : SubSeq(q, first, i - 1)[j] = q[first + j - 1]
  BY Parts
<1>2. /\ SubSeq(q, i, Len(q)) \in Seq(T)
      /\ Len(SubSeq(q, i, Len(q))) = Len(q) - i + 1
      /\ \A j \in 1..Len(q) - i + 1 : SubSeq(q, i, Len(q))[j] = q[i + j - 1]
  BY Parts
<1> SUFFICES
        ASSUME NEW p \in Seq(T), NEW r \in Seq(T),
               Len(p) = i - first, \A j \in 1..i - first : p[j] = q[first + j - 1],
               Len(r) = Len(q) - i + 1, \A j \in 1..Len(q) - i + 1 : r[j] = q[i + j - 1]
        PROVE  /\ Around(p, item, r) \in Seq(T)
               /\ Len(Around(p, item, r)) = Len(q) - first + 2
               /\ \A j \in first..i - 1 : Around(p, item, r)[j - first + 1] = q[j]
               /\ \A j \in i..Len(q) : Around(p, item, r)[j - first + 2] = q[j]
  BY <1>1, <1>2 DEF Spliced, Splices
<1>3. /\ Around(p, item, r) \in Seq(T)
      /\ Len(Around(p, item, r)) = Len(q) - first + 2
  <2>1. <<item>> \in Seq(T) /\ Len(<<item>>) = 1
    OBVIOUS
  <2>2. p \o <<item>> \in Seq(T) /\ Len(p \o <<item>>) = Len(p) + 1
    BY <2>1, Concatenated, Zenon
  <2>5. /\ (p \o <<item>>) \o r \in Seq(T)
        /\ Len((p \o <<item>>) \o r) = Len(p) + 1 + Len(r)
    BY <2>2, Concatenated, ZenonT(60)
  <2>3. Around(p, item, r) = (p \o <<item>>) \o r
    BY DEF Around
  <2>4. Len(p) + 1 + Len(r) = Len(q) - first + 2
    OBVIOUS
  <2> QED
    BY <2>3, <2>4, <2>5
<1>4. ASSUME NEW j \in first..i - 1 PROVE Around(p, item, r)[j - first + 1] = q[j]
  <2>1. j - first + 1 \in 1..Len(p) /\ first + (j - first + 1) - 1 = j
    OBVIOUS
  <2>2. Around(p, item, r)[j - first + 1] = p[j - first + 1]
    BY <2>1 DEF Around
  <2> QED
    BY <2>1, <2>2
<1>5. ASSUME NEW j \in i..Len(q) PROVE Around(p, item, r)[j - first + 2] = q[j]
  <2>1. /\ j - i + 1 \in 1..Len(r)
        /\ Len(p) + 1 + (j - i + 1) = j - first + 2
        /\ i + (j - i + 1) - 1 = j
    OBVIOUS
  <2>2. Around(p, item, r)[Len(p) + 1 + (j - i + 1)] = r[j - i + 1]
    BY <2>1 DEF Around
  <2> QED
    BY <2>1, <2>2
<1> QED
  BY <1>3, <1>4, <1>5

(* What an insertion gives keeps every item from first on. *)
LEMMA InsertedKeeps ==
    ASSUME NEW T, NEW s, NEW q \in Seq(T), NEW first \in 1..Len(q) + 1,
           NEW i \in first..Len(q) + 1, Splices(T, s, q, first, i)
    PROVE  \A j \in first..Len(q) : Keeps(s, q[j])
<1> SUFFICES ASSUME NEW j \in first..Len(q)
             PROVE  Keeps(s, q[j])
  OBVIOUS
<1>1. /\ Len(s) = Len(q) - first + 2
      /\ \A k \in first..i - 1 : s[k - first + 1] = q[k]
      /\ \A k \in i..Len(q) : s[k - first + 2] = q[k]
  BY DEF Splices
<1>2. CASE j < i
  <2>1. j \in first..i - 1 /\ j - first + 1 \in 1..Len(s)
    BY <1>1, <1>2
  <2> QED
    BY <1>1, <2>1 DEF Keeps
<1>3. CASE j >= i
  <2>1. j \in i..Len(q) /\ j - first + 2 \in 1..Len(s)
    BY <1>1, <1>3
  <2> QED
    BY <1>1, <2>1 DEF Keeps
<1> QED
  BY <1>2, <1>3

(* An insertion splices, unless it is refused at the front of a full queue. *)
LEMMA InsertIsSpliced ==
    ASSUME NEW T, NEW q \in Seq(T), Len(q) <= Limit,
           NEW i \in 1..Len(q) + 1, NEW item \in T, ~(IsFull(q) /\ i = 1)
    PROVE  \E first \in 1..Len(q) + 1 :
             /\ first \in {1, 2}
             /\ first = 2 <=> IsFull(q)
             /\ i \in first..Len(q) + 1
             /\ Insert(q, i, item) = Spliced(q, first, i, item)
<1>1. CASE IsFull(q)
  <2>1. 2 \in 1..Len(q) + 1 /\ i \in 2..Len(q) + 1
    BY <1>1, LimitAssumption DEF IsFull
  <2>2. Insert(q, i, item) = Spliced(q, 2, i, item)
    BY <1>1 DEF Insert, Spliced, Around
  <2> QED
    BY <1>1, <2>1, <2>2
<1>2. CASE ~IsFull(q)
  <2>1. 1 \in 1..Len(q) + 1
    OBVIOUS
  <2>2. Insert(q, i, item) = Spliced(q, 1, i, item)
    BY <1>2 DEF Insert, Spliced, Around
  <2> QED
    BY <1>2, <2>1, <2>2
<1> QED
  BY <1>1, <1>2

(* The ends of a queue: what pushing makes of it, by position. *)
IsPushedBack(T, r, q, d, item) ==
    /\ r \in Seq(T)
    /\ d \in 0..Len(q)
    /\ Len(r) = Len(q) - d + 1
    /\ Len(r) <= Limit
    /\ \A j \in 1..Len(q) - d : r[j] = q[j + d]
    /\ r[Len(q) - d + 1] = item

LEMMA PushedBack ==
    ASSUME NEW T, NEW q \in Seq(T), Len(q) <= Limit, NEW item \in T
    PROVE  \E d \in Nat : IsPushedBack(T, PushBack(q, item), q, d, item)
<1> USE LimitAssumption
<1>1. Len(q) \in Nat /\ Len(q) + 1 \in 1..Len(q) + 1 /\ ~(IsFull(q) /\ Len(q) + 1 = 1)
  BY DEF IsFull
<1>2. CASE IsFull(q)
  <2> DEFINE p == SubSeq(q, 2, Len(q))
  <2>1. /\ p \in Seq(T) /\ Len(p) = Len(q) - 1
        /\ \A j \in 1..Len(q) - 1 : p[j] = q[2 + j - 1]
    <3>1. Len(q) \in 1..Len(q) /\ 2 \in 1..Len(q) + 1 /\ 2 <= Len(q) + 1 /\ Len(q) \in 0..Len(q)
      BY <1>2 DEF IsFull
    <3> HIDE DEF IsFull
    <3>2. Len(q) - 2 + 1 = Len(q) - 1
      BY <1>1
    <3> QED
      BY <3>1, <3>2, Parts
  <2>2. PushBack(q, item) = p \o <<item>> \o <<>>
    <3>1. SubSeq(q, Len(q) + 1, Len(q)) = <<>>
      OBVIOUS
    <3>2. Len(q) + 1 # 1 /\ Len(q) + 1 - 1 = Len(q)
      BY <1>1, <1>2
    <3>3. PushBack(q, item) = SubSeq(q, 2, Len(q) + 1 - 1) \o <<item>> \o SubSeq(q, Len(q) + 1, Len(q))
      BY <1>2, <3>2 DEF PushBack, Insert
    <3> QED
      BY <3>1, <3>2, <3>3, Zenon
  <2> HIDE DEF p
  <2>3. p \o <<item>> \o <<>> = Append(p, item)
    BY <2>1
  <2>4. IsPushedBack(T, Append(p, item), q, 1, item)
    BY <1>1, <1>2, <2>1 DEF IsPushedBack, IsFull
  <2> QED
    BY <2>2, <2>3, <2>4
<1>3. CASE ~IsFull(q)
  <2>1. PushBack(q, item) = Append(q, item)
    <3>1. SubSeq(q, Len(q) + 1, Len(q)) = <<>> /\ SubSeq(q, 1, Len(q) + 1 - 1) = q
      OBVIOUS
    <3>2. q \o <<item>> \o <<>> = Append(q, item)
      OBVIOUS
    <3>3. PushBack(q, item) = SubSeq(q, 1, Len(q) + 1 - 1) \o <<item>> \o SubSeq(q, Len(q) + 1, Len(q))
      BY <1>3 DEF PushBack, Insert
    <3> QED
      BY <3>1, <3>2, <3>3, Zenon
  <2>2. IsPushedBack(T, Append(q, item), q, 0, item)
    BY <1>1, <1>3 DEF IsPushedBack, IsFull
  <2> QED
    BY <2>1, <2>2
<1> QED
  BY <1>2, <1>3

IsPushedFront(T, r, q, d, items) ==
    /\ r \in Seq(T)
    /\ d \in 0..Len(items)
    /\ Len(r) = Len(items) - d + Len(q)
    /\ Len(r) <= Limit
    /\ \A j \in 1..Len(items) - d : r[j] = items[j + d]
    /\ \A j \in 1..Len(q) : r[Len(items) - d + j] = q[j]

LEMMA PushedFront ==
    ASSUME NEW T, NEW q \in Seq(T), Len(q) <= Limit, NEW items \in Seq(T)
    PROVE  \E d \in Nat : IsPushedFront(T, PushFront(q, items), q, d, items)
<1> USE LimitAssumption
<1> DEFINE space == Limit - Len(q)
           skipped == IF Len(items) > space THEN Len(items) - space ELSE 0
           front == SubSeq(items, skipped + 1, Len(items))
<1>1. skipped \in 0..Len(items) /\ Len(items) - skipped <= space
  OBVIOUS
<1>2. PushFront(q, items) = front \o q
  BY DEF PushFront
<1> HIDE DEF skipped
<1>3. /\ front \in Seq(T) /\ Len(front) = Len(items) - skipped
      /\ \A j \in 1..Len(items) - skipped : front[j] = items[skipped + 1 + j - 1]
  <2>1. /\ Len(items) \in Nat /\ skipped + 1 \in 1..Len(items) + 1
        /\ Len(items) \in 0..Len(items) /\ skipped + 1 <= Len(items) + 1
        /\ Len(items) - (skipped + 1) + 1 = Len(items) - skipped
    BY <1>1
  <2> QED
    BY <2>1, Parts
<1>4. \A j \in 1..Len(items) - skipped : front[j] = items[j + skipped]
  BY <1>1, <1>3
<1> HIDE DEF front
<1>5. /\ front \o q \in Seq(T)
      /\ Len(front \o q) = Len(front) + Len(q)
      /\ \A i \in 1..Len(front) + Len(q) :
            (front \o q)[i] = IF i <= Len(front) THEN front[i] ELSE q[i - Len(front)]
  BY <1>3, ConcatProperties, Zenon
<1>6. Len(front) \in Nat /\ Len(q) \in Nat
  BY <1>3, LenProperties, Zenon
<1>7. \A j \in 1..Len(q) : /\ Len(front) + j \in 1..Len(front) + Len(q)
                           /\ ~(Len(front) + j <= Len(front))
                           /\ Len(front) + j - Len(front) = j
  BY <1>6
<1>8. \A j \in 1..Len(q) : (front \o q)[Len(front) + j] = q[j]
  BY <1>5, <1>7
<1>9. \A j \in 1..Len(front) : (front \o q)[j] = front[j]
  BY <1>5, <1>6
<1>10. Len(front \o q) = Len(items) - skipped + Len(q) /\ Len(front \o q) <= Limit
  BY <1>1, <1>3, <1>5, <1>6
<1>11. IsPushedFront(T, front \o q, q, skipped, items)
  BY <1>1, <1>3, <1>4, <1>5, <1>8, <1>9, <1>10, Zenon DEF IsPushedFront
<1> QED
  BY <1>1, <1>2, <1>11

-----------------------------------------------------------------------------
(* Whatever is inserted wherever, the queue stays within its limit          *)
(* (LimitedQueue::pushBack, insertBefore, insertAfter).                     *)
THEOREM InsertKeepsLimit ==
    ASSUME NEW T, NEW q \in Seq(T), Len(q) <= Limit,
           NEW i \in 1..Len(q) + 1, NEW item \in T
    PROVE  Insert(q, i, item) \in Seq(T) /\ Len(Insert(q, i, item)) <= Limit
<1> USE LimitAssumption
<1>1. CASE IsFull(q) /\ i = 1
  BY <1>1 DEF Insert, IsFull
<1>2. CASE ~(IsFull(q) /\ i = 1)
  <2>1. PICK first \in 1..Len(q) + 1 :
           /\ first = 2 \/ ~IsFull(q)
           /\ i \in first..Len(q) + 1
           /\ Insert(q, i, item) = Spliced(q, first, i, item)
    BY <1>2, InsertIsSpliced
  <2>2. Splices(T, Spliced(q, first, i, item), q, first, i)
    BY <2>1, Inserted
  <2>3. /\ Insert(q, i, item) \in Seq(T)
        /\ Len(Insert(q, i, item)) = Len(q) - first + 2
    BY <2>1, <2>2 DEF Splices
  <2> QED
    BY <2>1, <2>3 DEF IsFull
<1> QED
  BY <1>1, <1>2

(* An insertion takes nothing but the first item away, and that only from   *)
(* a full queue (LimitedQueue::pushBack: "deleted").                        *)
THEOREM InsertRemovesOnlyTheFirst ==
    ASSUME NEW T, NEW q \in Seq(T), Len(q) <= Limit,
           NEW i \in 1..Len(q) + 1, NEW item \in T,
           NEW j \in 1..Len(q), j # 1 \/ ~IsFull(q)
    PROVE  Keeps(Insert(q, i, item), q[j])
<1> USE LimitAssumption
<1>1. CASE IsFull(q) /\ i = 1
  BY <1>1 DEF Insert, Keeps
<1>2. CASE ~(IsFull(q) /\ i = 1)
  <2>1. PICK first \in 1..Len(q) + 1 :
           /\ first \in {1, 2}
           /\ first = 1 \/ IsFull(q)
           /\ i \in first..Len(q) + 1
           /\ Insert(q, i, item) = Spliced(q, first, i, item)
    BY <1>2, InsertIsSpliced
  <2>2. Splices(T, Spliced(q, first, i, item), q, first, i)
    BY <2>1, Inserted
  <2>3. \A k \in first..Len(q) : Keeps(Spliced(q, first, i, item), q[k])
    BY <2>1, <2>2, InsertedKeeps
  <2>4. j \in first..Len(q)
    BY <2>1
  <2> QED
    BY <2>1, <2>3, <2>4, Zenon
<1> QED
  BY <1>1, <1>2

(* "No elements can be deleted from using this function": what was there is *)
(* what the queue ends with, and the queue stays within its limit           *)
(* (LimitedQueue::pushFront).                                               *)
THEOREM PushFrontDeletesNothing ==
    ASSUME NEW T, NEW q \in Seq(T), Len(q) <= Limit, NEW items \in Seq(T)
    PROVE  LET pushed == PushFront(q, items)
           IN  /\ pushed \in Seq(T) /\ Len(pushed) <= Limit
               /\ Len(q) <= Len(pushed)
               /\ \A j \in 1..Len(q) : pushed[Len(pushed) - Len(q) + j] = q[j]
<1>1. PICK d \in Nat : IsPushedFront(T, PushFront(q, items), q, d, items)
  BY PushedFront
<1>2. Len(PushFront(q, items)) - Len(q) = Len(items) - d /\ Len(q) <= Len(PushFront(q, items))
  BY <1>1 DEF IsPushedFront
<1> QED
  BY <1>1, <1>2 DEF IsPushedFront

(* No item is there twice: the items are objects. *)
Distinct(q) == \A i, j \in DOMAIN q : q[i] = q[j] => i = j

LEMMA InRange ==
    ASSUME NEW T, NEW q \in Seq(T)
    PROVE  /\ DOMAIN q = 1..Len(q)
           /\ \A i \in 1..Len(q) : q[i] \in Range(q) /\ q[i] \in T
           /\ \A e \in Range(q) : e \in T /\ \E i \in 1..Len(q) : q[i] = e
BY DEF Range

(* Where an item is found. *)
LEMMA PositionIs ==
    ASSUME NEW T, NEW q \in Seq(T), NEW needle \in Range(q)
    PROVE  /\ Position(q, needle) \in 1..Len(q)
           /\ q[Position(q, needle)] = needle
<1> DEFINE I == {i \in 1..Len(q) : q[i] = needle}
<1>1. I \in SUBSET Nat /\ I # {}
  BY InRange
<1>2. Min(I) \in I
  BY <1>1, MinIs, Zenon
<1>3. Position(q, needle) = Min(I)
  BY <1>1 DEF Position, SelectInSeq
<1> QED
  BY <1>2, <1>3

LEMMA OnlyPosition ==
    ASSUME NEW T, NEW q \in Seq(T), Distinct(q), NEW i \in 1..Len(q)
    PROVE  Position(q, q[i]) = i
<1>1. q[i] \in Range(q) /\ DOMAIN q = 1..Len(q)
  BY InRange
<1>2. Position(q, q[i]) \in 1..Len(q) /\ q[Position(q, q[i])] = q[i]
  BY <1>1, PositionIs
<1> QED
  BY <1>1, <1>2, Zenon DEF Distinct

-----------------------------------------------------------------------------
(* System messages and history *)

LEMMA KindsDiffer ==
    ASSUME NEW e
    PROVE  /\ e.kind = "live" => e.kind # "history"
           /\ e.kind = "live" \/ e.kind = "history" <=> IsChat(e)
           /\ e.kind \in SystemKinds => ~IsChat(e)
BY DEF IsChat, Kinds, SystemKinds

LEMMA EntryIs ==
    ASSUME NEW kind \in Kinds \cup SystemKinds, NEW n \in Nat
    PROVE  /\ [kind |-> kind, n |-> n] \in Entries
           /\ [kind |-> kind, n |-> n].kind = kind
           /\ [kind |-> kind, n |-> n].n = n
BY DEF Entries

LEMMA EntryFields ==
    ASSUME NEW e \in Entries
    PROVE  /\ e.kind \in Kinds \cup SystemKinds /\ e.n \in Nat
           /\ e = [kind |-> e.kind, n |-> e.n]
BY DEF Entries

(* There is a number for a system message that no message of the queue has. *)
LEMMA SystemIsNew ==
    ASSUME NEW q \in Seq(Entries), NEW kind \in SystemKinds
    PROVE  /\ System(q, kind) \in Entries
           /\ System(q, kind) \notin Range(q)
           /\ System(q, kind).kind = kind
<1> DEFINE Entry(n) == [kind |-> kind, n |-> n]
           Free == {n \in Nat : Entry(n) \notin Range(q)}
           N == 0..Len(q)
           P == 1..Len(q)
<1>1. /\ Len(q) \in Nat
      /\ IsFiniteSet(N) /\ Cardinality(N) = Len(q) + 1
      /\ IsFiniteSet(P) /\ Cardinality(P) = Len(q)
  <2>1. Len(q) \in Nat /\ 0 \in Int /\ 1 \in Int /\ Len(q) \in Int
    BY LenProperties
  <2>2. /\ IsFiniteSet(N) /\ Cardinality(N) = IF 0 > Len(q) THEN 0 ELSE Len(q) - 0 + 1
        /\ IsFiniteSet(P) /\ Cardinality(P) = IF 1 > Len(q) THEN 0 ELSE Len(q) - 1 + 1
    BY <2>1, FS_Interval, Zenon
  <2>3. IsFiniteSet(N) /\ IsFiniteSet(P)
    BY <2>2, Zenon
  <2> QED
    BY <2>1, <2>2, <2>3
<1>2. \A m, n \in Nat : Entry(m) = Entry(n) => m = n
  OBVIOUS
<1> HIDE DEF Entry
<1>3. \E n \in N : Entry(n) \notin Range(q)
  <2> SUFFICES ASSUME \A n \in N : Entry(n) \in Range(q)
               PROVE  FALSE
    OBVIOUS
  <2> DEFINE f == [n \in N |-> CHOOSE i \in P : q[i] = Entry(n)]
  <2>1. \A n \in N : \E i \in P : q[i] = Entry(n)
    BY InRange
  <2>2. \A n \in N : f[n] \in P /\ q[f[n]] = Entry(n)
    BY <2>1, Zenon
  <2>3. f \in [N -> P]
    BY <2>2, Zenon
  <2> HIDE DEF f
  <2>4. Cardinality(P) < Cardinality(N)
    BY <1>1
  <2> HIDE DEF N, P
  <2>5. PICK x \in N, y \in N : x # y /\ f[x] = f[y]
    BY <1>1, <2>3, <2>4, FS_PigeonHole, Zenon
  <2>6. Entry(x) = Entry(y)
    BY <2>2, <2>5, Zenon
  <2>7. x \in Nat /\ y \in Nat
    BY <1>1 DEF N
  <2> QED
    BY <1>2, <2>5, <2>6, <2>7, Zenon
<1>4. Free \in SUBSET Nat /\ Free # {}
  BY <1>1, <1>3
<1>5. PICK n \in Free : \A m \in Free : n <= m
  BY <1>4, Smallest, Zenon
<1>6. n \in N
  BY <1>1, <1>3, <1>5
<1>7. /\ Entry(n) \notin Range(q)
      /\ \A k \in 0..n - 1 : Entry(k) \in Range(q)
  BY <1>5
<1> DEFINE IsNew(m) == /\ Entry(m) \notin Range(q)
                       /\ \A k \in 0..m - 1 : Entry(k) \in Range(q)
           new == CHOOSE m \in N : IsNew(m)
<1>8. new \in N /\ IsNew(new)
  BY <1>6, <1>7, Zenon
<1>9. System(q, kind) = Entry(new)
  BY Zenon DEF System, Entry
<1>10. new \in Nat
  BY <1>1, <1>8
<1> HIDE DEF new
<1> QED
  BY <1>8, <1>9, <1>10, EntryIs DEF Entry

(* The numbers of a load up to one of them: its place in what it brings. *)
UpTo(numbers, n) == {k \in numbers : k <= n}

(* What the service returns is history, each of the numbers once, in order. *)
IsHistory(items) ==
    /\ items \in Seq(Entries)
    /\ \A i \in 1..Len(items) : items[i].kind = "history"
    /\ \A i, j \in 1..Len(items) : i < j => items[i].n < items[j].n

LEMMA UpToGrows ==
    ASSUME NEW b \in Nat, NEW numbers \in SUBSET (1..b), NEW n \in numbers
    PROVE  /\ IsFiniteSet(numbers) /\ Cardinality(numbers) \in Nat
           /\ Cardinality(UpTo(numbers, n)) \in 1..Cardinality(numbers)
           /\ \A m \in numbers :
                 m < n => Cardinality(UpTo(numbers, m)) < Cardinality(UpTo(numbers, n))
<1>1. IsFiniteSet(1..b)
  BY FS_Interval
<1>2. IsFiniteSet(numbers) /\ Cardinality(numbers) \in Nat
  BY <1>1, FS_Subset, FS_CardinalityType
<1>3. \A m \in numbers : /\ UpTo(numbers, m) \in SUBSET numbers
                         /\ m \in UpTo(numbers, m)
  BY DEF UpTo
<1>4. \A m \in numbers : /\ IsFiniteSet(UpTo(numbers, m))
                         /\ Cardinality(UpTo(numbers, m)) \in Nat
                         /\ Cardinality(UpTo(numbers, m)) <= Cardinality(numbers)
  BY <1>2, <1>3, FS_Subset, FS_CardinalityType
<1>5. Cardinality(UpTo(numbers, n)) # 0
  BY <1>3, <1>4, FS_EmptySet
<1>6. ASSUME NEW m \in numbers, m < n
      PROVE  Cardinality(UpTo(numbers, m)) < Cardinality(UpTo(numbers, n))
  <2>1. UpTo(numbers, m) \in SUBSET UpTo(numbers, n) /\ n \notin UpTo(numbers, m)
    <3>1. \A k \in numbers : k \in Int
      OBVIOUS
    <3>2. \A k \in numbers : k <= m => k <= n
      BY <1>6, <3>1
    <3>3. ~(n <= m)
      BY <1>6, <3>1
    <3> QED
      BY <3>2, <3>3 DEF UpTo
  <2>2. UpTo(numbers, m) # UpTo(numbers, n)
    BY <1>3, <2>1
  <2>3. /\ Cardinality(UpTo(numbers, m)) <= Cardinality(UpTo(numbers, n))
        /\ Cardinality(UpTo(numbers, n)) # Cardinality(UpTo(numbers, m))
    BY <1>4, <2>1, <2>2, FS_Subset, Zenon
  <2> QED
    BY <1>4, <2>3
<1> QED
  BY <1>2, <1>4, <1>5, <1>6

(* Every place is taken by a number. *)
LEMMA EveryPlaceIsTaken ==
    ASSUME NEW b \in Nat, NEW numbers \in SUBSET (1..b), NEW i \in 1..Cardinality(numbers)
    PROVE  \E n \in numbers : Cardinality(UpTo(numbers, n)) = i
<1> DEFINE C == Cardinality(numbers)
           place == [n \in numbers |-> Cardinality(UpTo(numbers, n))]
<1>1. IsFiniteSet(numbers) /\ C \in Nat
  <2>1. IsFiniteSet(1..b)
    BY FS_Interval
  <2> QED
    BY <2>1, FS_Subset, FS_CardinalityType
<1>2. IsFiniteSet(1..C) /\ Cardinality(1..C) = C
  BY <1>1, FS_Interval
<1>3. \A n \in numbers : place[n] \in 1..C
  BY UpToGrows
<1>4. \A m, n \in numbers : m < n => place[m] # place[n]
  <2>1. \A m, n \in numbers : m < n => place[m] < place[n]
    BY UpToGrows
  <2> QED
    BY <1>3, <2>1
<1>5. \A m, n \in numbers : place[m] = place[n] => m = n
  <2>1. \A m, n \in numbers : m < n \/ n < m \/ m = n
    OBVIOUS
  <2> QED
    BY <1>4, <2>1, Zenon
<1>6. place \in [numbers -> 1..C]
  BY <1>3, Zenon
<1>7. place \in Injection(numbers, 1..C)
  BY <1>5, <1>6, Zenon DEF Injection, IsInjective
<1>8. place \in Surjection(numbers, 1..C)
  BY <1>2, <1>7, FS_Injection, Zenon
<1> QED
  BY <1>8 DEF Surjection

LEMMA HistoryIs ==
    ASSUME NEW b \in Nat, NEW numbers \in SUBSET (1..b)
    PROVE  /\ IsHistory(History(numbers))
           /\ \A i \in 1..Len(History(numbers)) : History(numbers)[i].n \in numbers
           /\ \A n \in numbers : \E i \in 1..Len(History(numbers)) : History(numbers)[i].n = n
<1> DEFINE C == Cardinality(numbers)
           chosen(i) == CHOOSE n \in numbers : Cardinality(UpTo(numbers, n)) = i
           h == History(numbers)
<1>0. \A n \in numbers : n \in Nat
  OBVIOUS
<1>1. C \in Nat
  <2>1. IsFiniteSet(1..b)
    BY FS_Interval
  <2> QED
    BY <2>1, FS_Subset, FS_CardinalityType
<1>2. \A i \in 1..C : /\ chosen(i) \in numbers
                      /\ Cardinality(UpTo(numbers, chosen(i))) = i
  BY EveryPlaceIsTaken, Zenon
<1>3. h = [i \in 1..C |-> [kind |-> "history", n |-> chosen(i)]]
  BY Zenon DEF History, UpTo
<1> HIDE DEF chosen, h
<1>4. \A i \in 1..C : /\ h[i] \in Entries
                      /\ h[i].kind = "history"
                      /\ h[i].n = chosen(i)
  <2>1. "history" \in Kinds
    BY DEF Kinds
  <2>2. \A i \in 1..C : h[i] = [kind |-> "history", n |-> chosen(i)]
    BY <1>3
  <2>3. \A i \in 1..C : chosen(i) \in Nat
    BY <1>2, <1>0, Zenon
  <2>4. \A n \in Nat : /\ [kind |-> "history", n |-> n] \in Entries
                        /\ [kind |-> "history", n |-> n].kind = "history"
                        /\ [kind |-> "history", n |-> n].n = n
    BY <2>1, EntryIs, Zenon
  <2> SUFFICES ASSUME NEW i \in 1..C
               PROVE  h[i] \in Entries /\ h[i].kind = "history" /\ h[i].n = chosen(i)
    OBVIOUS
  <2> DEFINE e == [kind |-> "history", n |-> chosen(i)]
  <2>5. e \in Entries /\ e.kind = "history" /\ e.n = chosen(i)
    BY <2>3, <2>4, Zenon
  <2>6. h[i] = e
    BY <2>2
  <2> HIDE DEF e
  <2> QED
    BY <2>5, <2>6
<1>5. h \in [1..C -> Entries]
  BY <1>3, <1>4, Zenon
<1>6. h \in Seq(Entries) /\ Len(h) = C
  BY <1>1, <1>5
<1>7. ASSUME NEW i \in 1..C, NEW j \in 1..C, i < j
      PROVE  chosen(i) < chosen(j)
  <2>1. /\ chosen(i) \in numbers /\ Cardinality(UpTo(numbers, chosen(i))) = i
        /\ chosen(j) \in numbers /\ Cardinality(UpTo(numbers, chosen(j))) = j
    BY <1>2
  <2>2. chosen(j) < chosen(i) => j < i
    BY <2>1, UpToGrows
  <2>3. chosen(i) # chosen(j)
    BY <1>7, <2>1
  <2>4. chosen(i) \in Nat /\ chosen(j) \in Nat
    BY <2>1, <1>0, Zenon
  <2>5. ~(j < i)
    BY <1>7
  <2> QED
    BY <2>2, <2>3, <2>4, <2>5
<1>8. IsHistory(h)
  BY <1>4, <1>6, <1>7 DEF IsHistory
<1>9. ASSUME NEW n \in numbers
      PROVE  \E i \in 1..C : h[i].n = n
  <2> DEFINE i == Cardinality(UpTo(numbers, n))
  <2>1. i \in 1..C
    BY UpToGrows
  <2>2. chosen(i) \in numbers /\ Cardinality(UpTo(numbers, chosen(i))) = i
    BY <1>2, <2>1
  <2>3. chosen(i) = n
    <3>1. chosen(i) < n => i < i
      BY <2>2, UpToGrows
    <3>2. n < chosen(i) => i < i
      BY <2>2, UpToGrows
    <3>3. ~(i < i)
      BY <2>1
    <3> HIDE DEF i
    <3>4. chosen(i) \in Nat /\ n \in Nat
      BY <2>2, <1>0, Zenon
    <3> QED
      BY <3>1, <3>2, <3>3, <3>4
  <2> QED
    BY <1>4, <2>1, <2>3
<1> QED
  BY <1>2, <1>4, <1>6, <1>8, <1>9 DEF h

-----------------------------------------------------------------------------
(* Adding messages at the end *)

Queue(q) == q \in Seq(Entries) /\ Len(q) <= Limit /\ Distinct(q)

(* Of two chat messages the first of which is above the other. *)
Ordered(e, f, last) ==
    \/ e.n < f.n
    \/ e.kind = "history" /\ f.kind = "live" /\ e.n <= last

InOrderUpTo(q, last) ==
    \A i, j \in 1..Len(q) :
        i < j /\ IsChat(q[i]) /\ IsChat(q[j]) => Ordered(q[i], q[j], last)

(* What LeavesAtTheFront says of a step. *)
LeavesFront(q, r) ==
    \A i, j \in 1..Len(q) :
        /\ i < j /\ q[i].kind = "live" /\ q[i] \in Range(r)
        => q[j] \in Range(r) \/ ~IsChat(q[j])

Same(e, f) == e = f \/ (~IsChat(e) /\ ~IsChat(f))

(* r is q, as far as chat messages are concerned, without what were its     *)
(* first d.                                                                 *)
Slides(r, q, d) ==
    /\ d \in 0..Len(q)
    /\ Len(r) >= Len(q) - d
    /\ \A j \in 1..Len(q) - d : Same(r[j], q[j + d])
    /\ \A j \in 1..Len(r) : j > Len(q) - d => ~IsChat(r[j])

Slid(r, q) == \E d \in Nat : Slides(r, q, d)

LEMMA PushKeepsDistinct ==
    ASSUME NEW q, Queue(q), NEW item \in Entries, item \notin Range(q)
    PROVE  Queue(PushBack(q, item))
<1>1. PICK d \in Nat : IsPushedBack(Entries, PushBack(q, item), q, d, item)
  BY PushedBack DEF Queue
<1> DEFINE r == PushBack(q, item)
<1>2. /\ r \in Seq(Entries) /\ Len(q) \in Nat /\ d \in 0..Len(q)
      /\ Len(r) = Len(q) - d + 1 /\ Len(r) <= Limit
      /\ \A j \in 1..Len(q) - d : r[j] = q[j + d]
      /\ r[Len(q) - d + 1] = item
  BY <1>1 DEF IsPushedBack, Queue
<1> HIDE DEF r
<1>3. \A j \in 1..Len(q) : q[j] # item
  BY InRange DEF Queue
<1>4. ASSUME NEW i \in 1..Len(r), NEW j \in 1..Len(r), r[i] = r[j]
      PROVE  i = j
  <2>1. \A k \in 1..Len(r) : k \in 1..Len(q) - d \/ k = Len(q) - d + 1
    BY <1>2
  <2>2. \A k \in 1..Len(q) - d : k + d \in 1..Len(q)
    BY <1>2
  <2>3. \A k \in 1..Len(q) - d : r[k] # item
    BY <1>2, <1>3, <2>2
  <2>4. CASE i \in 1..Len(q) - d /\ j \in 1..Len(q) - d
    <3>1. q[i + d] = q[j + d]
      BY <1>2, <1>4, <2>4
    <3>2. i + d = j + d
      BY <2>2, <2>4, <3>1 DEF Queue, Distinct
    <3> QED
      BY <1>2, <3>2
  <2> QED
    BY <1>2, <1>4, <2>1, <2>3, <2>4
<1>5. DOMAIN r = 1..Len(r)
  BY <1>2
<1> QED
  BY <1>2, <1>4, <1>5 DEF Queue, Distinct, r

LEMMA SystemSlides ==
    ASSUME NEW q, Queue(q), NEW kind \in SystemKinds
    PROVE  Queue(AddSystem(q, kind)) /\ Slid(AddSystem(q, kind), q)
<1> DEFINE item == System(q, kind)
           r == PushBack(q, item)
<1>1. item \in Entries /\ item \notin Range(q) /\ ~IsChat(item)
  BY SystemIsNew, KindsDiffer DEF Queue
<1> HIDE DEF item
<1>2. Queue(r)
  BY <1>1, PushKeepsDistinct
<1>3. PICK d \in Nat : IsPushedBack(Entries, r, q, d, item)
  BY <1>1, PushedBack DEF Queue
<1>4. Len(q) \in Nat
  BY DEF Queue
<1>5. Slides(r, q, d)
  BY <1>1, <1>3, <1>4 DEF IsPushedBack, Slides, Same
<1> QED
  BY <1>2, <1>5 DEF AddSystem, Slid, item

LEMMA SameIsTransitive ==
    ASSUME NEW e, NEW f, NEW g, Same(e, f), Same(f, g)
    PROVE  Same(e, g)
BY DEF Same

LEMMA SlidTwice ==
    ASSUME NEW q, Queue(q), NEW r, Queue(r), NEW t, Queue(t), Slid(r, q), Slid(t, r)
    PROVE  Slid(t, q)
<1>1. PICK d \in Nat : Slides(r, q, d)
  BY DEF Slid
<1>2. PICK e \in Nat : Slides(t, r, e)
  BY DEF Slid
<1>3. Len(q) \in Nat /\ Len(r) \in Nat /\ Len(t) \in Nat
  BY DEF Queue
<1>4. /\ d \in 0..Len(q) /\ Len(r) >= Len(q) - d
      /\ \A j \in 1..Len(q) - d : Same(r[j], q[j + d])
      /\ \A j \in 1..Len(r) : j > Len(q) - d => ~IsChat(r[j])
  BY <1>1 DEF Slides
<1>5. /\ e \in 0..Len(r) /\ Len(t) >= Len(r) - e
      /\ \A j \in 1..Len(r) - e : Same(t[j], r[j + e])
      /\ \A j \in 1..Len(t) : j > Len(r) - e => ~IsChat(t[j])
  BY <1>2 DEF Slides
<1>6. CASE d + e <= Len(q)
  <2>1. ASSUME NEW j \in 1..Len(q) - (d + e)
        PROVE  Same(t[j], q[j + (d + e)])
    <3>1. /\ j \in 1..Len(r) - e /\ j + e \in 1..Len(q) - d
          /\ j + e + d = j + (d + e)
      BY <1>3, <1>4
    <3>2. Same(t[j], r[j + e]) /\ Same(r[j + e], q[j + e + d])
      BY <1>4, <1>5, <3>1, Zenon
    <3>3. Same(t[j], q[j + e + d])
      BY <3>2, SameIsTransitive, Zenon
    <3> QED
      BY <3>1, <3>3
  <2>2. ASSUME NEW j \in 1..Len(t), j > Len(q) - (d + e)
        PROVE  ~IsChat(t[j])
    <3>1. CASE j > Len(r) - e
      BY <1>5, <3>1
    <3>2. CASE j <= Len(r) - e
      <4>1. /\ j \in 1..Len(r) - e /\ j + e \in 1..Len(r)
            /\ j + e > Len(q) - d
        BY <1>3, <1>4, <1>5, <2>2, <3>2
      <4>2. ~IsChat(r[j + e]) /\ Same(t[j], r[j + e])
        BY <1>4, <1>5, <4>1
      <4> QED
        BY <4>2, Zenon DEF Same
    <3> QED
      BY <1>3, <1>5, <3>1, <3>2
  <2>3. d + e \in 0..Len(q) /\ Len(t) >= Len(q) - (d + e)
    BY <1>3, <1>4, <1>5, <1>6
  <2>4. Slides(t, q, d + e)
    BY <2>1, <2>2, <2>3 DEF Slides
  <2> QED
    BY <2>4 DEF Slid
<1>7. CASE d + e > Len(q)
  <2>1. ASSUME NEW j \in 1..Len(t)
        PROVE  ~IsChat(t[j])
    <3>1. CASE j > Len(r) - e
      BY <1>5, <3>1
    <3>2. CASE j <= Len(r) - e
      <4>1. /\ j \in 1..Len(r) - e /\ j + e \in 1..Len(r)
            /\ j + e > Len(q) - d
        BY <1>3, <1>4, <1>5, <1>7, <3>2
      <4>2. ~IsChat(r[j + e]) /\ Same(t[j], r[j + e])
        BY <1>4, <1>5, <4>1
      <4> QED
        BY <4>2, Zenon DEF Same
    <3> QED
      BY <1>3, <1>5, <3>1, <3>2
  <2>2. /\ Len(q) \in 0..Len(q) /\ Len(t) >= Len(q) - Len(q)
        /\ \A j \in 1..Len(q) - Len(q) : Same(t[j], q[j + Len(q)])
    BY <1>3
  <2>3. Slides(t, q, Len(q))
    BY <2>1, <2>2 DEF Slides
  <2> QED
    BY <1>3, <2>3 DEF Slid
<1> QED
  BY <1>3, <1>6, <1>7

(* Where a chat message of r was in q. *)
LEMMA SlidFrom ==
    ASSUME NEW q, Queue(q), NEW r, Queue(r), NEW d \in Nat, Slides(r, q, d),
           NEW i \in 1..Len(r), IsChat(r[i])
    PROVE  i + d \in 1..Len(q) /\ r[i] = q[i + d]
<1>1. Len(q) \in Nat /\ Len(r) \in Nat
  BY DEF Queue
<1>2. /\ d \in 0..Len(q) /\ Len(r) >= Len(q) - d
      /\ \A j \in 1..Len(q) - d : Same(r[j], q[j + d])
      /\ \A j \in 1..Len(r) : j > Len(q) - d => ~IsChat(r[j])
  BY DEF Slides
<1>3. i \in 1..Len(q) - d
  BY <1>1, <1>2
<1>4. Same(r[i], q[i + d]) /\ i + d \in 1..Len(q)
  BY <1>1, <1>2, <1>3
<1> QED
  BY <1>4, Zenon DEF Same

(* What is left of the messages is as it was. *)
LEMMA SlidKeeps ==
    ASSUME NEW q, Queue(q), NEW r, Queue(r), Slid(r, q)
    PROVE  /\ \A e \in Range(r) : IsChat(e) => e \in Range(q)
           /\ \A last : InOrderUpTo(q, last) => InOrderUpTo(r, last)
           /\ LeavesFront(q, r)
<1>1. PICK d \in Nat : Slides(r, q, d)
  BY DEF Slid
<1>2. q \in Seq(Entries) /\ r \in Seq(Entries) /\ Len(q) \in Nat /\ Len(r) \in Nat
  BY DEF Queue
<1>3. \A i \in 1..Len(r) : IsChat(r[i]) => i + d \in 1..Len(q) /\ r[i] = q[i + d]
  BY <1>1, SlidFrom
<1>4. ASSUME NEW e \in Range(r), IsChat(e)
      PROVE  e \in Range(q)
  BY <1>2, <1>3, <1>4, InRange
<1>5. ASSUME NEW last, InOrderUpTo(q, last)
      PROVE  InOrderUpTo(r, last)
  <2> SUFFICES ASSUME NEW i \in 1..Len(r), NEW j \in 1..Len(r), i < j,
                      IsChat(r[i]), IsChat(r[j])
               PROVE  Ordered(r[i], r[j], last)
    BY DEF InOrderUpTo
  <2>1. /\ i + d \in 1..Len(q) /\ r[i] = q[i + d]
        /\ j + d \in 1..Len(q) /\ r[j] = q[j + d]
    BY <1>3
  <2>2. i + d < j + d
    OBVIOUS
  <2> QED
    BY <1>5, <2>1, <2>2, Zenon DEF InOrderUpTo
<1>6. LeavesFront(q, r)
  <2> SUFFICES ASSUME NEW i \in 1..Len(q), NEW j \in 1..Len(q), i < j,
                      q[i].kind = "live", q[i] \in Range(r), IsChat(q[j])
               PROVE  q[j] \in Range(r)
    BY Zenon DEF LeavesFront
  <2>1. IsChat(q[i])
    BY KindsDiffer
  <2>2. PICK k \in 1..Len(r) : r[k] = q[i]
    BY <1>2, InRange
  <2>3. k + d \in 1..Len(q) /\ q[k + d] = q[i]
    BY <1>3, <2>1, <2>2
  <2>4. k + d = i
    BY <2>3 DEF Queue, Distinct
  <2>5. j - d \in 1..Len(q) - d /\ j - d + d = j /\ j - d \in 1..Len(r)
    BY <1>1, <1>2, <2>4 DEF Slides
  <2>6. Same(r[j - d], q[j])
    BY <1>1, <2>5 DEF Slides
  <2>7. r[j - d] = q[j]
    BY <2>6, Zenon DEF Same
  <2> QED
    BY <1>2, <2>5, <2>7, InRange
<1> QED
  BY <1>4, <1>5, <1>6

(* A "disconnected" at the end becomes "reconnected". *)
LEMMA ReplacedSlides ==
    ASSUME NEW q, Queue(q), q # <<>>, ~IsChat(Last(q)), NEW kind \in SystemKinds
    PROVE  LET r == ReplaceItem(q, Last(q), System(q, kind))
           IN  Queue(r) /\ Slid(r, q)
<1> DEFINE item == System(q, kind)
           r == [q EXCEPT ![Len(q)] = item]
<1>1. q \in Seq(Entries) /\ DOMAIN q = 1..Len(q) /\ Len(q) \in 1..Len(q) /\ Len(q) \in Nat
  BY DEF Queue
<1>2. item \in Entries /\ item \notin Range(q) /\ ~IsChat(item)
  BY SystemIsNew, KindsDiffer DEF Queue
<1> HIDE DEF item
<1>3. Last(q) = q[Len(q)] /\ Last(q) \in Range(q)
  BY <1>1, InRange DEF Last
<1>4. Position(q, Last(q)) = Len(q)
  BY <1>1, <1>3, OnlyPosition DEF Queue
<1>5. ReplaceItem(q, Last(q), item) = r
  BY <1>3, <1>4, Zenon DEF ReplaceItem
<1>6. /\ r \in Seq(Entries) /\ Len(r) = Len(q) /\ DOMAIN r = 1..Len(q)
      /\ \A i \in 1..Len(q) : r[i] = IF i = Len(q) THEN item ELSE q[i]
  BY <1>1, <1>2
<1> HIDE DEF r
<1>7. \A i \in 1..Len(q) : q[i] # item
  BY <1>1, <1>2, InRange
<1>8. ASSUME NEW i \in 1..Len(q), NEW j \in 1..Len(q), r[i] = r[j]
      PROVE  i = j
  <2>1. CASE i = Len(q) \/ j = Len(q)
    BY <1>6, <1>7, <1>8, <2>1
  <2>2. CASE i # Len(q) /\ j # Len(q)
    <3>1. q[i] = q[j]
      BY <1>6, <1>8, <2>2
    <3> QED
      BY <1>1, <3>1, Zenon DEF Queue, Distinct
  <2> QED
    BY <2>1, <2>2
<1>9. Distinct(r)
  BY <1>6, <1>8 DEF Distinct
<1>10. \A i \in 1..Len(q) : Same(r[i], q[i])
  BY <1>2, <1>3, <1>6 DEF Same
<1>11. Slides(r, q, 0)
  <2>2. \A j \in 1..Len(q) - 0 : j \in 1..Len(q) /\ j + 0 = j
    BY <1>1
  <2>3. \A j \in 1..Len(q) - 0 : Same(r[j], q[j + 0])
    BY <1>10, <2>2
  <2>4. /\ 0 \in 0..Len(q) /\ Len(r) >= Len(q) - 0
        /\ \A j \in 1..Len(r) : ~(j > Len(q) - 0)
    <3>1. Len(q) \in Nat /\ Len(r) = Len(q)
      BY <1>1, <1>6, Zenon
    <3> QED
      BY <3>1
  <2> QED
    BY <2>3, <2>4, Zenon DEF Slides
<1> QED
  BY <1>5, <1>6, <1>9, <1>11, Zenon DEF Queue, Slid, item

(* A chat message that is later than those there are. *)
LEMMA LivePushed ==
    ASSUME NEW q, Queue(q), NEW n \in Nat, NEW last, InOrderUpTo(q, last),
           \A e \in Range(q) : IsChat(e) => e.n < n
    PROVE  LET r == PushBack(q, Live(n))
           IN  /\ Queue(r)
               /\ Live(n) \in Range(r)
               /\ Range(r) \subseteq Range(q) \cup {Live(n)}
               /\ InOrderUpTo(r, last)
               /\ LeavesFront(q, r)
<1> DEFINE item == Live(n)
           r == PushBack(q, item)
<1>1. item \in Entries /\ item.kind = "live" /\ item.n = n /\ IsChat(item)
  BY EntryIs, KindsDiffer DEF Live, Kinds
<1> HIDE DEF item
<1>2. \A i \in 1..Len(q) : IsChat(q[i]) => q[i].n < n
  BY InRange DEF Queue
<1>3. item \notin Range(q)
  BY <1>1
<1>4. Queue(r)
  BY <1>1, <1>3, PushKeepsDistinct
<1>5. PICK d \in Nat : IsPushedBack(Entries, r, q, d, item)
  BY <1>1, PushedBack DEF Queue
<1> HIDE DEF r
<1>6. /\ q \in Seq(Entries) /\ r \in Seq(Entries) /\ Len(q) \in Nat /\ d \in 0..Len(q)
      /\ Len(r) = Len(q) - d + 1
      /\ \A j \in 1..Len(q) - d : r[j] = q[j + d]
      /\ r[Len(q) - d + 1] = item
  BY <1>5 DEF IsPushedBack, Queue
<1>7. \A k \in 1..Len(r) : \/ k \in 1..Len(q) - d /\ k + d \in 1..Len(q) /\ r[k] = q[k + d]
                           \/ k = Len(q) - d + 1 /\ r[k] = item
  BY <1>6
<1>8. item \in Range(r)
  <2>1. Len(q) - d + 1 \in 1..Len(r)
    BY <1>6
  <2> QED
    BY <1>6, <2>1, InRange
<1>9. Range(r) \subseteq Range(q) \cup {item}
  <2> SUFFICES ASSUME NEW e \in Range(r) PROVE e \in Range(q) \cup {item}
    OBVIOUS
  <2>1. PICK k \in 1..Len(r) : r[k] = e
    BY <1>6, InRange
  <2> QED
    BY <1>6, <1>7, <2>1, InRange
<1>10. ASSUME NEW i \in 1..Len(r), NEW j \in 1..Len(r), i < j, IsChat(r[i]), IsChat(r[j])
       PROVE  Ordered(r[i], r[j], last)
  <2>1. i \in 1..Len(q) - d /\ i + d \in 1..Len(q) /\ r[i] = q[i + d]
    BY <1>6, <1>7, <1>10
  <2>2. CASE j \in 1..Len(q) - d
    <3>1. j + d \in 1..Len(q) /\ r[j] = q[j + d] /\ i + d < j + d
      BY <1>6, <1>10, <2>2
    <3> QED
      BY <1>10, <2>1, <3>1, Zenon DEF InOrderUpTo
  <2>3. CASE r[j] = item
    BY <1>1, <1>2, <1>10, <2>1, <2>3 DEF Ordered
  <2> QED
    BY <1>7, <2>2, <2>3
<1>11. ASSUME NEW i \in 1..Len(q), NEW j \in 1..Len(q), i < j, q[i] \in Range(r)
       PROVE  q[j] \in Range(r)
  <2>1. PICK k \in 1..Len(r) : r[k] = q[i]
    BY <1>6, <1>11, InRange
  <2>2. q[i] # item
    BY <1>3, <1>6, InRange
  <2>3. k + d \in 1..Len(q) /\ q[k + d] = q[i]
    BY <1>7, <2>1, <2>2
  <2>4. k + d = i
    BY <1>6, <2>3 DEF Queue, Distinct
  <2>5. j - d \in 1..Len(q) - d /\ j - d + d = j /\ j - d \in 1..Len(r)
    BY <1>6, <1>11, <2>4
  <2>6. r[j - d] = q[j]
    BY <1>6, <2>5
  <2> QED
    BY <1>6, <2>5, <2>6, InRange
<1>12. InOrderUpTo(r, last) /\ LeavesFront(q, r)
  BY <1>10, <1>11, Zenon DEF InOrderUpTo, LeavesFront
<1> QED
  BY <1>4, <1>8, <1>9, <1>12 DEF item, r

-----------------------------------------------------------------------------
(* History in front of everything *)

(* The items are history, and what there is is not, or nothing. *)
LEMMA FrontPushed ==
    ASSUME NEW q, Queue(q), NEW items, IsHistory(items), NEW last, InOrderUpTo(q, last),
           \A e \in Range(q) : e.kind # "history",
           q = <<>> \/ \A i \in 1..Len(items) : items[i].n <= last
    PROVE  LET r == PushFront(q, items)
           IN  /\ Queue(r)
               /\ Range(q) \subseteq Range(r)
               /\ Range(r) \subseteq Range(q) \cup Range(items)
               /\ InOrderUpTo(r, last)
               /\ \A i \in 1..Len(items) :
                     \/ items[i] \in Range(r)
                     \/ q = <<>> => \A f \in Range(r) : items[i].n < f.n
<1> DEFINE r == PushFront(q, items)
<1>1. /\ q \in Seq(Entries) /\ Len(q) \in Nat /\ Len(q) <= Limit /\ Distinct(q)
      /\ DOMAIN q = 1..Len(q)
  BY DEF Queue
<1>2. /\ items \in Seq(Entries) /\ Len(items) \in Nat
      /\ \A i \in 1..Len(items) : items[i].kind = "history"
      /\ \A i, j \in 1..Len(items) : i < j => items[i].n < items[j].n
  BY DEF IsHistory
<1>3. PICK d \in Nat : IsPushedFront(Entries, r, q, d, items)
  BY <1>1, <1>2, PushedFront
<1> HIDE DEF r
<1>4. /\ r \in Seq(Entries) /\ d \in 0..Len(items)
      /\ Len(r) = Len(items) - d + Len(q) /\ Len(r) <= Limit
      /\ \A j \in 1..Len(items) - d : r[j] = items[j + d]
      /\ \A j \in 1..Len(q) : r[Len(items) - d + j] = q[j]
  BY <1>3 DEF IsPushedFront
<1> DEFINE m == Len(items) - d
<1>5. m \in Nat /\ Len(r) = m + Len(q) /\ m <= Len(items)
  BY <1>2, <1>4
<1>6. \A j \in 1..m : j + d \in 1..Len(items) /\ r[j] = items[j + d]
  BY <1>2, <1>4
<1>7. \A j \in 1..Len(q) : m + j \in 1..Len(r) /\ r[m + j] = q[j]
  BY <1>2, <1>4
<1>8. \A k \in 1..Len(r) : k \in 1..m \/ (k - m \in 1..Len(q) /\ m + (k - m) = k)
  BY <1>1, <1>5
<1> HIDE DEF m
<1>9. \A k \in 1..Len(r) : k \notin 1..m => k - m \in 1..Len(q) /\ r[k] = q[k - m]
  <2> SUFFICES ASSUME NEW k \in 1..Len(r), k \notin 1..m
               PROVE  k - m \in 1..Len(q) /\ r[k] = q[k - m]
    OBVIOUS
  <2>1. k - m \in 1..Len(q) /\ m + (k - m) = k
    BY <1>8
  <2>2. r[m + (k - m)] = q[k - m]
    BY <1>7, <2>1, Zenon
  <2> QED
    BY <2>1, <2>2
<1>10. \A k \in 1..Len(r) : k \in 1..m <=> r[k].kind = "history"
  <2> SUFFICES ASSUME NEW k \in 1..Len(r)
               PROVE  k \in 1..m <=> r[k].kind = "history"
    OBVIOUS
  <2>1. k \in 1..m => r[k].kind = "history"
    BY <1>2, <1>6
  <2>2. k \notin 1..m => r[k].kind # "history"
    BY <1>1, <1>9, InRange
  <2> QED
    BY <2>1, <2>2
<1>11. Queue(r)
  <2>1. ASSUME NEW i \in 1..Len(r), NEW j \in 1..Len(r), r[i] = r[j]
        PROVE  i = j
    <3>1. CASE i \in 1..m
      <4>1. j \in 1..m
        BY <1>10, <2>1, <3>1
      <4>2. items[i + d].n = items[j + d].n /\ i + d \in 1..Len(items) /\ j + d \in 1..Len(items)
        BY <1>6, <2>1, <3>1, <4>1
      <4>3. items[i + d].n \in Nat
        BY <1>2, <4>2, InRange, EntryFields
      <4>4. ~(i + d < j + d) /\ ~(j + d < i + d)
        BY <1>2, <4>2, <4>3
      <4> QED
        BY <1>4, <4>4
    <3>2. CASE i \notin 1..m
      <4>1. j \notin 1..m
        BY <1>10, <2>1, <3>2
      <4>2. i - m \in 1..Len(q) /\ j - m \in 1..Len(q) /\ q[i - m] = q[j - m]
        BY <1>9, <2>1, <3>2, <4>1
      <4>3. i - m = j - m
        BY <1>1, <4>2, Zenon DEF Distinct
      <4> QED
        BY <1>5, <4>3
    <3> QED
      BY <3>1, <3>2
  <2>2. DOMAIN r = 1..Len(r)
    BY <1>4
  <2> QED
    BY <1>4, <2>1, <2>2 DEF Queue, Distinct
<1>12. Range(q) \subseteq Range(r)
  <2> SUFFICES ASSUME NEW e \in Range(q) PROVE e \in Range(r)
    OBVIOUS
  <2>1. PICK j \in 1..Len(q) : q[j] = e
    BY <1>1, InRange
  <2>2. m + j \in 1..Len(r) /\ r[m + j] = e
    BY <1>7, <2>1
  <2> QED
    BY <1>4, <2>2, InRange
<1>13. Range(r) \subseteq Range(q) \cup Range(items)
  <2> SUFFICES ASSUME NEW e \in Range(r) PROVE e \in Range(q) \cup Range(items)
    OBVIOUS
  <2>1. PICK k \in 1..Len(r) : r[k] = e
    BY <1>4, InRange
  <2>2. CASE k \in 1..m
    BY <1>2, <1>6, <2>1, <2>2, InRange
  <2>3. CASE k \notin 1..m
    BY <1>1, <1>9, <2>1, <2>3, InRange
  <2> QED
    BY <2>2, <2>3
<1>14. ASSUME NEW i \in 1..Len(r), NEW j \in 1..Len(r), i < j, IsChat(r[i]), IsChat(r[j])
       PROVE  Ordered(r[i], r[j], last)
  <2>1. CASE i \in 1..m /\ j \in 1..m
    <3>1. i + d \in 1..Len(items) /\ j + d \in 1..Len(items) /\ i + d < j + d
      BY <1>4, <1>6, <1>14, <2>1
    <3>2. items[i + d].n < items[j + d].n
      BY <1>2, <3>1
    <3> QED
      BY <1>6, <2>1, <3>2 DEF Ordered
  <2>2. CASE i \in 1..m /\ j \notin 1..m
    <3>1. i + d \in 1..Len(items) /\ r[i] = items[i + d] /\ q # <<>>
      BY <1>1, <1>6, <1>9, <2>2
    <3>2. r[i].n <= last /\ r[i].kind = "history"
      BY <1>10, <2>2, <3>1
    <3>3. r[j].kind = "live"
      BY <1>10, <1>14, <2>2, KindsDiffer
    <3> QED
      BY <3>2, <3>3 DEF Ordered
  <2>3. CASE i \notin 1..m
    <3>1. j \notin 1..m
      BY <1>5, <1>14, <2>3
    <3>2. /\ i - m \in 1..Len(q) /\ r[i] = q[i - m]
          /\ j - m \in 1..Len(q) /\ r[j] = q[j - m]
      BY <1>9, <2>3, <3>1
    <3>3. i - m < j - m
      BY <1>5, <1>14
    <3> QED
      BY <1>14, <3>2, <3>3, Zenon DEF InOrderUpTo
  <2> QED
    BY <2>1, <2>2, <2>3
<1>15. ASSUME NEW i \in 1..Len(items), q = <<>>, items[i] \notin Range(r), NEW f \in Range(r)
       PROVE  items[i].n < f.n
  <2>1. PICK k \in 1..Len(r) : r[k] = f
    BY <1>4, InRange
  <2>2. k \in 1..m
    BY <1>9, <1>15, <1>1
  <2>3. k + d \in 1..Len(items) /\ f = items[k + d]
    BY <1>6, <2>1, <2>2
  <2>4. ASSUME i > d PROVE FALSE
    <3>1. i - d \in 1..m /\ i - d + d = i /\ i - d \in 1..Len(r)
      BY <1>1, <1>2, <1>4, <1>5, <2>4 DEF m
    <3>2. r[i - d] = items[i]
      BY <1>6, <3>1
    <3> QED
      BY <1>4, <1>15, <3>1, <3>2, InRange
  <2>5. i < k + d
    BY <1>4, <2>2, <2>4
  <2> QED
    BY <1>2, <2>3, <2>5
<1>16. InOrderUpTo(r, last)
  BY <1>14, Zenon DEF InOrderUpTo
<1> QED
  BY <1>11, <1>12, <1>13, <1>15, <1>16 DEF r

-----------------------------------------------------------------------------
(* Filling in: every message has its place between those of the snapshot q, *)
(* which are at the even slots.  What is missing goes to the odd slot in    *)
(* front of the first that is later, where it is sorted by its number.      *)

Anchor(q, m) == IF Later(q, m) # {} THEN Min(Later(q, m)) ELSE Len(q) + 1

Slot(q, e) == IF e \in Range(q) THEN 2 * Position(q, e) ELSE 2 * Anchor(q, e) - 1

Precedes(q, e, f) ==
    \/ Slot(q, e) < Slot(q, f)
    \/ Slot(q, e) = Slot(q, f) /\ e.n < f.n

SortedBy(q, s) == \A i, j \in 1..Len(s) : i < j => Precedes(q, s[i], s[j])

(* It had to leave, or could not be inserted: all there is comes after it.  *)
Gone(q, s, e) == IsFull(s) /\ \A f \in Range(s) : Precedes(q, e, f)

LEMMA AnchorIs ==
    ASSUME NEW q \in Seq(Entries), NEW m \in Entries
    PROVE  /\ Anchor(q, m) \in 1..Len(q) + 1
           /\ Later(q, m) # {} <=> Anchor(q, m) <= Len(q)
           /\ Anchor(q, m) <= Len(q) =>
                 IsChat(q[Anchor(q, m)]) /\ m.n < q[Anchor(q, m)].n
           /\ \A i \in 1..Len(q) :
                 i < Anchor(q, m) /\ IsChat(q[i]) => q[i].n <= m.n
<1>1. Len(q) \in Nat /\ DOMAIN q = 1..Len(q)
  OBVIOUS
<1>2. \A i \in 1..Len(q) : q[i].n \in Nat /\ m.n \in Nat
  BY InRange, EntryFields
<1>3. Later(q, m) = {i \in 1..Len(q) : IsChat(q[i]) /\ m.n < q[i].n}
  BY <1>1 DEF Later
<1>4. CASE Later(q, m) = {}
  <2>1. Anchor(q, m) = Len(q) + 1
    BY <1>4 DEF Anchor
  <2>2. \A i \in 1..Len(q) : IsChat(q[i]) => ~(m.n < q[i].n)
    BY <1>3, <1>4
  <2> QED
    BY <1>1, <1>2, <1>4, <2>1, <2>2
<1>5. CASE Later(q, m) # {}
  <2> DEFINE a == Anchor(q, m)
  <2>1. Later(q, m) \in SUBSET Nat
    BY <1>3
  <2>2. a \in Later(q, m) /\ \A i \in Later(q, m) : a <= i
    BY <1>5, <2>1, MinIs, Zenon DEF Anchor
  <2> HIDE DEF a
  <2>3. a \in 1..Len(q) /\ IsChat(q[a]) /\ m.n < q[a].n
    BY <1>3, <2>2, Zenon
  <2>4. ASSUME NEW i \in 1..Len(q), i < a, IsChat(q[i])
        PROVE  q[i].n <= m.n
    <3>1. ~(a <= i)
      BY <2>3, <2>4
    <3>2. ~(m.n < q[i].n)
      BY <1>3, <2>2, <2>4, <3>1, Zenon
    <3> QED
      BY <1>2, <3>2
  <2> QED
    BY <1>1, <1>5, <2>3, <2>4 DEF a
<1> QED
  BY <1>4, <1>5

LEMMA AnchorGrows ==
    ASSUME NEW q \in Seq(Entries), NEW e \in Entries, NEW f \in Entries, e.n <= f.n
    PROVE  Anchor(q, e) <= Anchor(q, f)
<1>1. /\ Anchor(q, e) \in 1..Len(q) + 1 /\ Anchor(q, f) \in 1..Len(q) + 1
      /\ Anchor(q, f) <= Len(q) => IsChat(q[Anchor(q, f)]) /\ f.n < q[Anchor(q, f)].n
      /\ \A i \in 1..Len(q) : i < Anchor(q, e) /\ IsChat(q[i]) => q[i].n <= e.n
  BY AnchorIs
<1>2. e.n \in Nat /\ f.n \in Nat /\ Len(q) \in Nat
  BY EntryFields
<1> SUFFICES ASSUME Anchor(q, f) < Anchor(q, e) PROVE FALSE
  BY <1>1
<1>3. Anchor(q, f) \in 1..Len(q)
  BY <1>1, <1>2
<1>4. q[Anchor(q, f)].n <= e.n /\ f.n < q[Anchor(q, f)].n /\ q[Anchor(q, f)].n \in Nat
  BY <1>1, <1>3, InRange, EntryFields
<1> QED
  BY <1>2, <1>4

LEMMA SlotIs ==
    ASSUME NEW q, Queue(q), NEW e \in Entries
    PROVE  /\ Slot(q, e) \in Nat
           /\ e \in Range(q) => Position(q, e) \in 1..Len(q) /\ q[Position(q, e)] = e
                                /\ Slot(q, e) = 2 * Position(q, e)
           /\ e \notin Range(q) => Anchor(q, e) \in 1..Len(q) + 1
                                   /\ Slot(q, e) = 2 * Anchor(q, e) - 1
<1>1. q \in Seq(Entries) /\ Len(q) \in Nat
  BY DEF Queue
<1>2. CASE e \in Range(q)
  <2>1. Position(q, e) \in 1..Len(q) /\ q[Position(q, e)] = e
    BY <1>1, <1>2, PositionIs
  <2>2. Slot(q, e) = 2 * Position(q, e)
    BY <1>2 DEF Slot
  <2> QED
    BY <1>1, <1>2, <2>1, <2>2
<1>3. CASE e \notin Range(q)
  <2>1. Anchor(q, e) \in 1..Len(q) + 1
    BY <1>1, AnchorIs
  <2>2. Slot(q, e) = 2 * Anchor(q, e) - 1
    BY <1>3 DEF Slot
  <2> QED
    BY <1>1, <1>3, <2>1, <2>2
<1> QED
  BY <1>2, <1>3

LEMMA SlotOf ==
    ASSUME NEW q, Queue(q), NEW i \in 1..Len(q)
    PROVE  Slot(q, q[i]) = 2 * i
<1>1. q \in Seq(Entries) /\ q[i] \in Range(q)
  BY InRange DEF Queue
<1>2. Position(q, q[i]) = i
  BY <1>1, OnlyPosition DEF Queue
<1> QED
  BY <1>1, <1>2 DEF Slot

LEMMA PrecedesIsTransitive ==
    ASSUME NEW q, Queue(q), NEW e \in Entries, NEW f \in Entries, NEW g \in Entries,
           Precedes(q, e, f), Precedes(q, f, g)
    PROVE  Precedes(q, e, g)
<1>1. Slot(q, e) \in Nat /\ Slot(q, f) \in Nat /\ Slot(q, g) \in Nat
  BY SlotIs
<1>2. e.n \in Nat /\ f.n \in Nat /\ g.n \in Nat
  BY EntryFields
<1> QED
  BY <1>1, <1>2 DEF Precedes

LEMMA PrecedesIsIrreflexive ==
    ASSUME NEW q, Queue(q), NEW e \in Entries
    PROVE  ~Precedes(q, e, e)
<1>1. Slot(q, e) \in Nat /\ e.n \in Nat
  BY SlotIs, EntryFields
<1> QED
  BY <1>1 DEF Precedes

LEMMA SortedIsDistinct ==
    ASSUME NEW q, Queue(q), NEW s \in Seq(Entries), SortedBy(q, s)
    PROVE  Distinct(s)
<1> SUFFICES ASSUME NEW i \in 1..Len(s), NEW j \in 1..Len(s), s[i] = s[j], i # j
             PROVE  FALSE
  BY InRange DEF Distinct
<1>1. s[i] \in Entries /\ ~Precedes(q, s[i], s[i])
  BY InRange, PrecedesIsIrreflexive
<1>2. i < j \/ j < i
  OBVIOUS
<1> QED
  BY <1>1, <1>2 DEF SortedBy

(* What an insertion at a message's place does. *)
InsertsWell(q, s, m, t) ==
    /\ t \in Seq(Entries)
    /\ Len(t) \in 1..Limit
    /\ IsFull(s) => IsFull(t)
    /\ SortedBy(q, t)
    /\ Range(t) \subseteq Range(s) \cup {m}
    /\ \A e \in Range(s) \cup {m} : e \in Range(t) \/ Gone(q, t, e)
    /\ IsFull(s) /\ m \in Range(t) => \E e \in Range(s) : Precedes(q, e, m)

(* m is in place at i. *)
Fits(q, s, i, m) ==
    /\ \A j \in 1..Len(s) : j < i => Precedes(q, s[j], m)
    /\ \A j \in 1..Len(s) : i <= j => Precedes(q, m, s[j])

LEMMA SplicedItem ==
    ASSUME NEW T, NEW q \in Seq(T), NEW first \in 1..Len(q) + 1,
           NEW i \in first..Len(q) + 1, NEW item \in T
    PROVE  Spliced(q, first, i, item)[i - first + 1] = item
<1>1. Len(q) \in Nat
  OBVIOUS
<1>2. /\ i - 1 \in 0..Len(q) /\ first <= i - 1 + 1 /\ i - 1 - first + 1 = i - first
      /\ i \in 1..Len(q) + 1 /\ Len(q) \in 0..Len(q) /\ i <= Len(q) + 1
  BY <1>1
<1>3. /\ SubSeq(q, first, i - 1) \in Seq(T)
      /\ Len(SubSeq(q, first, i - 1)) = i - first
  BY <1>2, Parts
<1>4. SubSeq(q, i, Len(q)) \in Seq(T)
  BY <1>2, Parts
<1>5. \A p, r \in Seq(T) : Around(p, item, r)[Len(p) + 1] = item
  BY Joined
<1> DEFINE p == SubSeq(q, first, i - 1)
           r == SubSeq(q, i, Len(q))
<1>6. Spliced(q, first, i, item) = Around(p, item, r)
  BY DEF Spliced
<1> HIDE DEF p, r
<1>7. Around(p, item, r)[Len(p) + 1] = item
  BY <1>3, <1>4, <1>5 DEF p, r
<1> QED
  BY <1>3, <1>6, <1>7 DEF p

LEMMA InsertedInPlace ==
    ASSUME NEW q, Queue(q), NEW s \in Seq(Entries), Len(s) \in 1..Limit, SortedBy(q, s),
           NEW i \in 1..Len(s) + 1, NEW m \in Entries, Fits(q, s, i, m)
    PROVE  LET t == Insert(s, i, m)
           IN  /\ InsertsWell(q, s, m, t)
               /\ Last(t) = IF i <= Len(s) THEN Last(s) ELSE m
<1> USE LimitAssumption
<1>1. CASE IsFull(s) /\ i = 1
  <2>1. Insert(s, i, m) = s
    BY <1>1 DEF Insert
  <2>2. \A j \in 1..Len(s) : Precedes(q, m, s[j])
    BY <1>1 DEF Fits
  <2>3. Gone(q, s, m)
    BY <1>1, <2>2, InRange DEF Gone
  <2>4. m \notin Range(s)
    BY <2>2, InRange, PrecedesIsIrreflexive
  <2>5. InsertsWell(q, s, m, s)
    BY <2>3, <2>4, Zenon DEF InsertsWell
  <2> QED
    BY <1>1, <2>1, <2>5
<1>2. CASE ~(IsFull(s) /\ i = 1)
  <2> DEFINE t == Insert(s, i, m)
  <2>1. Len(s) <= Limit
    OBVIOUS
  <2>2. PICK first \in 1..Len(s) + 1 :
           /\ first \in {1, 2}
           /\ first = 2 <=> IsFull(s)
           /\ i \in first..Len(s) + 1
           /\ t = Spliced(s, first, i, m)
    BY <1>2, <2>1, InsertIsSpliced
  <2>3. Splices(Entries, t, s, first, i)
    BY <2>2, Inserted
  <2>4. t[i - first + 1] = m
    BY <2>2, SplicedItem
  <2> HIDE DEF t
  <2>5. /\ t \in Seq(Entries) /\ Len(t) = Len(s) - first + 2
        /\ \A j \in first..i - 1 : t[j - first + 1] = s[j]
        /\ \A j \in i..Len(s) : t[j - first + 2] = s[j]
    BY <2>3 DEF Splices
  <2>6. /\ Len(s) \in Nat /\ Len(t) \in Nat /\ first \in Nat /\ i \in Nat /\ first >= 1
        /\ first <= i /\ i <= Len(s) + 1 /\ first <= 2
    BY <2>2, <2>5
  <2>7. \A k \in 1..Len(t) :
           \/ k < i - first + 1 /\ k + first - 1 \in first..i - 1 /\ (k + first - 1) - first + 1 = k
           \/ k = i - first + 1
           \/ k > i - first + 1 /\ k + first - 2 \in i..Len(s) /\ (k + first - 2) - first + 2 = k
    BY <2>5, <2>6
  <2>8. \A k \in 1..Len(t) :
           \/ k < i - first + 1 /\ t[k] = s[k + first - 1] /\ k + first - 1 \in first..Len(s)
              /\ k + first - 1 < i
           \/ k = i - first + 1 /\ t[k] = m
           \/ k > i - first + 1 /\ t[k] = s[k + first - 2] /\ k + first - 2 \in first..Len(s)
              /\ i <= k + first - 2
    <3> SUFFICES ASSUME NEW k \in 1..Len(t)
                 PROVE  \/ /\ k < i - first + 1 /\ t[k] = s[k + first - 1]
                           /\ k + first - 1 \in first..Len(s) /\ k + first - 1 < i
                        \/ k = i - first + 1 /\ t[k] = m
                        \/ /\ k > i - first + 1 /\ t[k] = s[k + first - 2]
                           /\ k + first - 2 \in first..Len(s) /\ i <= k + first - 2
      OBVIOUS
    <3>1. CASE k < i - first + 1
      <4>1. k + first - 1 \in first..i - 1 /\ (k + first - 1) - first + 1 = k
        BY <2>6, <2>7, <3>1
      <4>2. t[(k + first - 1) - first + 1] = s[k + first - 1]
        BY <2>5, <4>1, Zenon
      <4> QED
        BY <2>6, <3>1, <4>1, <4>2
    <3>2. CASE k = i - first + 1
      BY <2>4, <3>2
    <3>3. CASE k > i - first + 1
      <4>1. k + first - 2 \in i..Len(s) /\ (k + first - 2) - first + 2 = k
        BY <2>6, <2>7, <3>3
      <4>2. t[(k + first - 2) - first + 2] = s[k + first - 2]
        BY <2>5, <4>1, Zenon
      <4> QED
        BY <2>6, <3>3, <4>1, <4>2
    <3> QED
      BY <2>6, <3>1, <3>2, <3>3
  <2>9. SortedBy(q, t)
    <3> SUFFICES ASSUME NEW k \in 1..Len(t), NEW l \in 1..Len(t), k < l
                 PROVE  Precedes(q, t[k], t[l])
      BY DEF SortedBy
    <3>1. CASE k < i - first + 1
      <4>1. k + first - 1 \in 1..Len(s) /\ t[k] = s[k + first - 1] /\ k + first - 1 < i
        BY <2>6, <2>8, <3>1
      <4>2. CASE l < i - first + 1
        <5>1. /\ l + first - 1 \in 1..Len(s) /\ t[l] = s[l + first - 1]
              /\ k + first - 1 < l + first - 1
          BY <2>6, <2>8, <4>2
        <5> QED
          BY <4>1, <5>1, Zenon DEF SortedBy
      <4>3. CASE l = i - first + 1
        <5>1. t[l] = m
          BY <2>4, <4>3
        <5> QED
          BY <4>1, <5>1 DEF Fits
      <4>4. CASE l > i - first + 1
        <5>1. /\ l + first - 2 \in 1..Len(s) /\ t[l] = s[l + first - 2]
              /\ k + first - 1 < l + first - 2
          BY <2>6, <2>8, <3>1, <4>4
        <5> QED
          BY <4>1, <5>1, Zenon DEF SortedBy
      <4> QED
        BY <2>6, <4>2, <4>3, <4>4
    <3>2. CASE k = i - first + 1
      <4>1. t[k] = m
        BY <2>4, <3>2
      <4>2. l + first - 2 \in 1..Len(s) /\ t[l] = s[l + first - 2] /\ i <= l + first - 2
        BY <2>6, <2>8, <3>2
      <4> QED
        BY <4>1, <4>2 DEF Fits
    <3>3. CASE k > i - first + 1
      <4>1. k + first - 2 \in 1..Len(s) /\ t[k] = s[k + first - 2]
        BY <2>6, <2>8, <3>3
      <4>2. /\ l + first - 2 \in 1..Len(s) /\ t[l] = s[l + first - 2]
            /\ k + first - 2 < l + first - 2
        BY <2>6, <2>8, <3>3
      <4> QED
        BY <4>1, <4>2, Zenon DEF SortedBy
    <3> QED
      BY <2>6, <3>1, <3>2, <3>3
  <2>10. Range(t) \subseteq Range(s) \cup {m}
    <3> SUFFICES ASSUME NEW e \in Range(t) PROVE e \in Range(s) \cup {m}
      OBVIOUS
    <3>1. PICK k \in 1..Len(t) : t[k] = e
      BY <2>5, InRange
    <3>2. t[k] = m \/ \E j \in 1..Len(s) : t[k] = s[j]
      BY <2>6, <2>8
    <3> QED
      BY <3>1, <3>2, InRange
  <2>11. m \in Range(t)
    <3>1. i - first + 1 \in 1..Len(t)
      BY <2>5, <2>6
    <3> QED
      BY <2>4, <2>5, <3>1, InRange
  <2>12. ASSUME NEW e \in Range(s), e \notin Range(t)
         PROVE  Gone(q, t, e)
    <3>1. PICK j \in 1..Len(s) : s[j] = e
      BY InRange
    <3>2. ASSUME j >= first PROVE FALSE
      <4>1. CASE j < i
        <5>1. j \in first..i - 1 /\ j - first + 1 \in 1..Len(t)
          BY <2>5, <2>6, <3>2, <4>1
        <5> QED
          BY <2>5, <2>12, <3>1, <5>1, InRange
      <4>2. CASE j >= i
        <5>1. j \in i..Len(s) /\ j - first + 2 \in 1..Len(t)
          BY <2>5, <2>6, <3>2, <4>2
        <5> QED
          BY <2>5, <2>12, <3>1, <5>1, InRange
      <4> QED
        BY <2>6, <4>1, <4>2
    <3>3. j = 1 /\ first = 2 /\ IsFull(s) /\ 1 < i
      BY <2>2, <2>6, <3>2
    <3>4. ASSUME NEW k \in 1..Len(t) PROVE Precedes(q, e, t[k])
      <4>1. \/ t[k] = m
            \/ \E l \in 1..Len(s) : 1 < l /\ t[k] = s[l]
        BY <2>6, <2>8, <3>3
      <4>2. CASE t[k] = m
        BY <3>1, <3>3, <4>2 DEF Fits
      <4>3. CASE \E l \in 1..Len(s) : 1 < l /\ t[k] = s[l]
        BY <3>1, <3>3, <4>3 DEF SortedBy
      <4> QED
        BY <4>1, <4>2, <4>3
    <3>5. IsFull(t)
      BY <2>5, <2>6, <3>3 DEF IsFull
    <3>6. ASSUME NEW f \in Range(t) PROVE Precedes(q, e, f)
      <4>1. \E k \in 1..Len(t) : t[k] = f
        BY <2>5, InRange
      <4> QED
        BY <3>4, <4>1, Zenon
    <3> QED
      BY <3>5, <3>6 DEF Gone
  <2>13. Len(t) \in 1..Limit /\ (IsFull(s) => IsFull(t))
    BY <2>2, <2>5, <2>6 DEF IsFull
  <2>16. ASSUME IsFull(s) PROVE \E e \in Range(s) : Precedes(q, e, m)
    <3>1. 1 \in 1..Len(s) /\ 1 < i
      BY <2>2, <2>6, <2>16
    <3>2. s[1] \in Range(s) /\ Precedes(q, s[1], m)
      BY <3>1, InRange DEF Fits
    <3> QED
      BY <3>2
  <2>14. InsertsWell(q, s, m, t)
    BY <2>5, <2>9, <2>10, <2>11, <2>12, <2>13, <2>16, Zenon DEF InsertsWell
  <2>15. Last(t) = IF i <= Len(s) THEN Last(s) ELSE m
    <3>1. Last(t) = t[Len(t)] /\ Last(s) = s[Len(s)]
      BY DEF Last
    <3>2. CASE i <= Len(s)
      <4>1. Len(s) \in i..Len(s) /\ Len(s) - first + 2 = Len(t)
        BY <2>5, <2>6, <3>2
      <4>2. t[Len(s) - first + 2] = s[Len(s)]
        BY <2>5, <4>1, Zenon
      <4> QED
        BY <3>1, <3>2, <4>1, <4>2
    <3>3. CASE ~(i <= Len(s))
      <4>1. i - first + 1 = Len(t)
        BY <2>5, <2>6, <3>3
      <4> QED
        BY <2>4, <3>1, <3>3, <4>1
    <3> QED
      BY <3>2, <3>3
  <2> QED
    BY <2>14, <2>15 DEF t
<1> QED
  BY <1>1, <1>2

(* The messages of the loop after k of the items: those of the snapshot and *)
(* of the items that the snapshot lacks.                                    *)
IsTaken(q, items, k, e) ==
    \/ e \in Range(q)
    \/ \E l \in 1..k : e = items[l] /\ items[l].n \notin Existing(q)

States == [queue : Seq(Entries), last : Entries]

(* The invariant of the loop. *)
Fills(q, items, k, done) ==
    /\ done \in States
    /\ Len(done.queue) \in 1..Limit
    /\ SortedBy(q, done.queue)
    /\ \A e \in Range(done.queue) : IsTaken(q, items, k, e)
    /\ \A e \in Entries :
          IsTaken(q, items, k, e) => e \in Range(done.queue) \/ Gone(q, done.queue, e)
    /\ done.last = Last(done.queue)

LEMMA ShownIs ==
    ASSUME NEW q
    PROVE  /\ \A e \in Range(q) : IsChat(e) => e.n \in Shown(q)
           /\ \A n \in Shown(q) : \E e \in Range(q) : IsChat(e) /\ e.n = n
BY DEF Shown

LEMMA HistoryItem ==
    ASSUME NEW items, IsHistory(items), NEW l \in 1..Len(items)
    PROVE  /\ items[l] \in Entries /\ items[l].n \in Nat
           /\ items[l].kind = "history" /\ IsChat(items[l])
BY InRange, EntryFields, KindsDiffer DEF IsHistory

(* What the snapshot lacks is at an odd slot. *)
LEMMA NewSlot ==
    ASSUME NEW q, Queue(q), NEW items, IsHistory(items), NEW l \in 1..Len(items),
           items[l].n \notin Existing(q)
    PROVE  /\ items[l] \notin Range(q)
           /\ Anchor(q, items[l]) \in 1..Len(q) + 1
           /\ Slot(q, items[l]) = 2 * Anchor(q, items[l]) - 1
<1>1. items[l] \in Entries /\ IsChat(items[l])
  BY HistoryItem
<1>2. items[l] \notin Range(q)
  BY <1>1, ShownIs DEF Existing
<1> QED
  BY <1>1, <1>2, SlotIs

LEMMA TakenIsEntry ==
    ASSUME NEW q, Queue(q), NEW items, IsHistory(items),
           NEW k \in Nat, k <= Len(items), NEW e, IsTaken(q, items, k, e)
    PROVE  e \in Entries
<1>1. CASE e \in Range(q)
  BY <1>1, InRange DEF Queue
<1>2. CASE \E l \in 1..k : e = items[l]
  <2>1. PICK l \in 1..k : e = items[l]
    BY <1>2
  <2>2. l \in 1..Len(items)
    BY DEF IsHistory
  <2> QED
    BY <2>1, <2>2, HistoryItem
<1> QED
  BY <1>1, <1>2 DEF IsTaken

(* The next item comes after what there is at its slot. *)
LEMMA NextComesAfter ==
    ASSUME NEW q, Queue(q), NEW items, IsHistory(items), NEW k \in Nat,
           k + 1 \in 1..Len(items), items[k + 1].n \notin Existing(q),
           NEW e, IsTaken(q, items, k, e), Slot(q, e) <= Slot(q, items[k + 1])
    PROVE  Precedes(q, e, items[k + 1])
<1> DEFINE m == items[k + 1]
           a == Anchor(q, m)
<1>1. a \in Nat /\ Slot(q, m) = 2 * a - 1 /\ m \in Entries
  BY NewSlot, HistoryItem
<1>2. e \in Entries
  BY TakenIsEntry DEF IsHistory
<1>3. Slot(q, e) \in Nat
  BY <1>2, SlotIs
<1> HIDE DEF m, a
<1>4. CASE e \in Range(q)
  <2>1. Position(q, e) \in Nat /\ Slot(q, e) = 2 * Position(q, e)
    BY <1>2, <1>4, SlotIs
  <2>2. Slot(q, e) # Slot(q, m)
    <3> DEFINE p == Position(q, e)
    <3>1. p \in Nat /\ Slot(q, e) = 2 * p
      BY <2>1
    <3> HIDE DEF p
    <3> QED
      BY <1>1, <3>1
  <2>3. Slot(q, e) < Slot(q, m)
    BY <1>1, <1>3, <2>2 DEF m
  <2> QED
    BY <2>3 DEF Precedes, m
<1>5. CASE e \notin Range(q)
  <2>1. PICK l \in 1..k : e = items[l]
    BY <1>5 DEF IsTaken
  <2>2. e.n < m.n
    <3>1. l \in 1..Len(items) /\ l < k + 1
      BY DEF IsHistory
    <3> QED
      BY <2>1, <3>1 DEF IsHistory, m
  <2>3. Slot(q, e) < Slot(q, m) \/ Slot(q, e) = Slot(q, m)
    BY <1>1, <1>3 DEF m
  <2> QED
    BY <2>2, <2>3 DEF Precedes, m
<1> QED
  BY <1>4, <1>5

(* The place in front of the first later message of the snapshot. *)
LEMMA FitsBefore ==
    ASSUME NEW q, Queue(q), NEW items, IsHistory(items), NEW k \in Nat,
           k + 1 \in 1..Len(items), items[k + 1].n \notin Existing(q),
           NEW s \in Seq(Entries), SortedBy(q, s),
           \A e \in Range(s) : IsTaken(q, items, k, e),
           Anchor(q, items[k + 1]) <= Len(q),
           NEW i \in 1..Len(s), s[i] = q[Anchor(q, items[k + 1])]
    PROVE  Fits(q, s, i, items[k + 1])
<1> DEFINE m == items[k + 1]
           a == Anchor(q, m)
<1>1. a \in 1..Len(q) + 1 /\ Slot(q, m) = 2 * a - 1 /\ m \in Entries
  BY NewSlot, HistoryItem
<1>2. Len(q) \in Nat /\ a \in 1..Len(q)
  BY <1>1 DEF Queue
<1>3. Slot(q, q[a]) = 2 * a
  BY <1>2, SlotOf
<1>4. \A j \in 1..Len(s) : s[j] \in Entries /\ IsTaken(q, items, k, s[j]) /\ Slot(q, s[j]) \in Nat
  BY InRange, SlotIs
<1> HIDE DEF a
<1>5. ASSUME NEW j \in 1..Len(s), j < i
      PROVE  Precedes(q, s[j], m)
  <2>1. Precedes(q, s[j], q[a])
    BY <1>5 DEF SortedBy, a
  <2>2. Slot(q, s[j]) # 2 * a
    <3> SUFFICES ASSUME Slot(q, s[j]) = 2 * a PROVE FALSE
      OBVIOUS
    <3>1. s[j].n < q[a].n
      BY <1>2, <1>3, <2>1 DEF Precedes
    <3>2. CASE s[j] \in Range(q)
      <4> DEFINE p == Position(q, s[j])
      <4>1. p \in 1..Len(q) /\ Slot(q, s[j]) = 2 * p /\ q[p] = s[j]
        BY <1>4, <3>2, SlotIs
      <4> HIDE DEF p
      <4>2. p = a
        BY <1>2, <4>1
      <4>3. s[j].n \in Nat
        BY <1>4, EntryFields
      <4> QED
        BY <3>1, <4>1, <4>2, <4>3
    <3>3. CASE s[j] \notin Range(q)
      <4> DEFINE p == Anchor(q, s[j])
      <4>1. p \in 1..Len(q) + 1 /\ Slot(q, s[j]) = 2 * p - 1
        BY <1>4, <3>3, SlotIs
      <4> HIDE DEF p
      <4> QED
        BY <1>2, <4>1
    <3> QED
      BY <3>2, <3>3
  <2>3. Slot(q, s[j]) <= Slot(q, q[a])
    BY <1>2, <1>3, <1>4, <2>1 DEF Precedes
  <2>4. Slot(q, s[j]) <= Slot(q, m)
    <3> DEFINE x == Slot(q, s[j])
    <3>1. x \in Nat /\ a \in Nat /\ x # 2 * a /\ x <= 2 * a
      BY <1>2, <1>3, <1>4, <2>2, <2>3
    <3> HIDE DEF x
    <3>2. x <= 2 * a - 1
      BY <3>1
    <3> QED
      BY <1>1, <3>2 DEF x
  <2> QED
    BY <1>4, <2>4, NextComesAfter
<1>6. ASSUME NEW j \in 1..Len(s), i <= j
      PROVE  Precedes(q, m, s[j])
  <2>1. Slot(q, q[a]) <= Slot(q, s[j])
    <3>1. CASE i = j
      BY <1>2, <1>3, <3>1 DEF a
    <3>2. CASE i < j
      <4>1. Precedes(q, q[a], s[j])
        BY <3>2 DEF SortedBy, a
      <4> QED
        BY <1>2, <1>3, <1>4, <4>1 DEF Precedes
    <3> QED
      BY <1>6, <3>1, <3>2
  <2>2. Slot(q, m) < Slot(q, s[j])
    BY <1>1, <1>2, <1>3, <1>4, <2>1
  <2> QED
    BY <2>2 DEF Precedes
<1> QED
  BY <1>5, <1>6 DEF Fits

(* The place at the end, if there is no later message. *)
LEMMA FitsAtEnd ==
    ASSUME NEW q, Queue(q), NEW items, IsHistory(items), NEW k \in Nat,
           k + 1 \in 1..Len(items), items[k + 1].n \notin Existing(q),
           NEW s \in Seq(Entries), \A e \in Range(s) : IsTaken(q, items, k, e),
           Anchor(q, items[k + 1]) = Len(q) + 1
    PROVE  Fits(q, s, Len(s) + 1, items[k + 1])
<1> DEFINE m == items[k + 1]
<1>1. Len(q) \in Nat /\ Len(s) \in Nat
  BY DEF Queue
<1>2. Slot(q, m) = 2 * (Len(q) + 1) - 1
  BY NewSlot
<1>3. ASSUME NEW j \in 1..Len(s)
      PROVE  Precedes(q, s[j], m)
  <2>1. s[j] \in Entries /\ IsTaken(q, items, k, s[j])
    BY InRange
  <2>2. Slot(q, s[j]) <= 2 * (Len(q) + 1) - 1
    <3>1. CASE s[j] \in Range(q)
      <4> DEFINE p == Position(q, s[j])
      <4>1. p \in 1..Len(q) /\ Slot(q, s[j]) = 2 * p
        BY <2>1, <3>1, SlotIs
      <4> HIDE DEF p
      <4> QED
        BY <1>1, <4>1
    <3>2. CASE s[j] \notin Range(q)
      <4> DEFINE p == Anchor(q, s[j])
      <4>1. p \in 1..Len(q) + 1 /\ Slot(q, s[j]) = 2 * p - 1
        BY <2>1, <3>2, SlotIs
      <4> HIDE DEF p
      <4> QED
        BY <1>1, <4>1
    <3> QED
      BY <3>1, <3>2
  <2> QED
    BY <1>2, <2>1, <2>2, NextComesAfter
<1>4. \A j \in 1..Len(s) : ~(Len(s) + 1 <= j)
  BY <1>1
<1> QED
  BY <1>3, <1>4 DEF Fits

LEMMA FillsOn ==
    ASSUME NEW q, Queue(q), NEW items, IsHistory(items), NEW k \in Nat,
           k + 1 \in 1..Len(items), items[k + 1].n \notin Existing(q),
           NEW done, Fills(q, items, k, done), NEW next \in States,
           InsertsWell(q, done.queue, items[k + 1], next.queue), next.last = Last(next.queue)
    PROVE  Fills(q, items, k + 1, next)
<1> DEFINE m == items[k + 1]
           s == done.queue
           t == next.queue
<1>1. \A e : IsTaken(q, items, k + 1, e) <=> IsTaken(q, items, k, e) \/ e = m
  <2>1. \A l : l \in 1..k + 1 <=> l \in 1..k \/ l = k + 1
    OBVIOUS
  <2> QED
    BY <2>1, Zenon DEF IsTaken
<1>2. m \in Entries
  BY HistoryItem
<1>3. /\ s \in Seq(Entries)
      /\ \A e \in Range(s) : IsTaken(q, items, k, e)
      /\ \A e \in Entries : IsTaken(q, items, k, e) => e \in Range(s) \/ Gone(q, s, e)
  BY DEF Fills, States
<1>4. /\ t \in Seq(Entries) /\ Len(t) \in 1..Limit /\ SortedBy(q, t)
      /\ IsFull(s) => IsFull(t)
      /\ Range(t) \subseteq Range(s) \cup {m}
      /\ \A e \in Range(s) \cup {m} : e \in Range(t) \/ Gone(q, t, e)
      /\ IsFull(s) /\ m \in Range(t) => \E e \in Range(s) : Precedes(q, e, m)
  BY DEF InsertsWell
<1> HIDE DEF m, s, t
<1>5. \A e \in Range(t) : IsTaken(q, items, k + 1, e)
  BY <1>1, <1>3, <1>4
<1>6. ASSUME NEW e \in Entries, IsTaken(q, items, k + 1, e), e \notin Range(t)
      PROVE  Gone(q, t, e)
  <2>1. CASE e \in Range(s) \cup {m}
    BY <1>4, <1>6, <2>1
  <2>2. CASE e \notin Range(s) \cup {m}
    <3>1. Gone(q, s, e)
      BY <1>1, <1>3, <1>6, <2>2
    <3>2. IsFull(s) /\ \A f \in Range(s) : Precedes(q, e, f)
      BY <3>1 DEF Gone
    <3>3. ASSUME NEW f \in Range(t) PROVE Precedes(q, e, f)
      <4>1. CASE f \in Range(s)
        BY <3>2, <4>1
      <4>2. CASE f \notin Range(s)
        <5>1. f = m
          BY <1>4, <4>2
        <5>2. PICK g \in Range(s) : Precedes(q, g, m)
          BY <1>4, <3>2, <5>1
        <5>3. g \in Entries /\ Precedes(q, e, g)
          BY <1>3, <3>2, InRange
        <5> QED
          BY <1>2, <5>1, <5>2, <5>3, PrecedesIsTransitive
      <4> QED
        BY <4>1, <4>2
    <3> QED
      BY <1>4, <3>2, <3>3 DEF Gone
  <2> QED
    BY <2>1, <2>2
<1> QED
  BY <1>4, <1>5, <1>6, Zenon DEF Fills, t

LEMMA LoopStep ==
    ASSUME NEW q, Queue(q), NEW items, IsHistory(items), NEW k \in Nat,
           k + 1 \in 1..Len(items), NEW done, Fills(q, items, k, done)
    PROVE  Fills(q, items, k + 1, Placed(q, done, items[k + 1]))
<1> DEFINE m == items[k + 1]
           s == done.queue
           a == Anchor(q, m)
<1>1. m \in Entries /\ q \in Seq(Entries)
  BY HistoryItem DEF Queue
<1>2. /\ done \in States /\ s \in Seq(Entries) /\ Len(s) \in 1..Limit /\ SortedBy(q, s)
      /\ \A e \in Range(s) : IsTaken(q, items, k, e)
      /\ \A e \in Entries : IsTaken(q, items, k, e) => e \in Range(s) \/ Gone(q, s, e)
      /\ done.last = Last(s)
  BY DEF Fills, States
<1>3. CASE m.n \in Existing(q)
  <2>1. Placed(q, done, m) = done
    BY <1>3 DEF Placed
  <2>2. \A e : IsTaken(q, items, k + 1, e) <=> IsTaken(q, items, k, e)
    <3>1. \A l : l \in 1..k + 1 <=> l \in 1..k \/ l = k + 1
      OBVIOUS
    <3> QED
      BY <1>3, <3>1, Zenon DEF IsTaken
  <2>3. Fills(q, items, k + 1, done)
    BY <1>2, <2>2, Zenon DEF Fills
  <2> QED
    BY <2>1, <2>3
<1>4. CASE m.n \notin Existing(q) /\ Later(q, m) # {}
  <2>1. a \in 1..Len(q) /\ a = Min(Later(q, m)) /\ a <= Len(q)
    BY <1>1, <1>4, AnchorIs DEF Anchor
  <2> DEFINE t == InsertBefore(s, q[a], m)
             next == [done EXCEPT !.queue = t]
  <2>2. Placed(q, done, m) = next
    BY <1>4, <2>1 DEF Placed
  <2>3. next.queue = t /\ next.last = Last(s) /\ (t \in Seq(Entries) => next \in States)
    BY <1>2 DEF States
  <2> HIDE DEF next
  <2>4. CASE q[a] \in Range(s)
    <3> DEFINE i == Position(s, q[a])
    <3>1. i \in 1..Len(s) /\ s[i] = q[a]
      BY <1>2, <2>4, PositionIs
    <3>2. t = Insert(s, i, m)
      BY <2>4 DEF InsertBefore
    <3> HIDE DEF i, t
    <3>3. Fits(q, s, i, m)
      BY <1>2, <1>4, <2>1, <3>1, FitsBefore
    <3>4. i \in 1..Len(s) + 1 /\ i <= Len(s)
      BY <3>1
    <3>5. InsertsWell(q, s, m, t) /\ Last(t) = Last(s)
      BY <1>1, <1>2, <3>2, <3>3, <3>4, InsertedInPlace
    <3>6. next \in States
      BY <2>3, <3>5 DEF InsertsWell
    <3> QED
      BY <1>4, <2>2, <2>3, <3>5, <3>6, FillsOn
  <2>5. CASE q[a] \notin Range(s)
    <3>1. t = s
      BY <2>5 DEF InsertBefore
    <3> HIDE DEF t
    <3>2. q[a] \in Entries /\ q[a] \in Range(q)
      BY <1>1, <2>1, InRange
    <3>3. Gone(q, s, q[a])
      BY <1>2, <2>5, <3>2 DEF IsTaken
    <3>4. Precedes(q, m, q[a])
      <4>1. Slot(q, m) = 2 * a - 1 /\ Slot(q, q[a]) = 2 * a /\ a \in Nat
        BY <1>4, <2>1, NewSlot, SlotOf
      <4> HIDE DEF a
      <4>2. Slot(q, m) < Slot(q, q[a])
        BY <4>1
      <4> QED
        BY <4>2 DEF Precedes
    <3>5. \A f \in Range(s) : Precedes(q, m, f)
      BY <1>1, <1>2, <3>2, <3>3, <3>4, PrecedesIsTransitive, InRange DEF Gone
    <3>6. m \notin Range(s)
      BY <1>1, <3>5, PrecedesIsIrreflexive
    <3>7. Gone(q, s, m)
      BY <3>3, <3>5 DEF Gone
    <3>8. InsertsWell(q, s, m, s)
      BY <1>2, <3>6, <3>7, Zenon DEF InsertsWell
    <3>9. next \in States
      BY <1>2, <2>3, <3>1
    <3> QED
      BY <1>4, <2>2, <2>3, <3>1, <3>8, <3>9, FillsOn
  <2> QED
    BY <2>4, <2>5
<1>5. CASE m.n \notin Existing(q) /\ Later(q, m) = {}
  <2>1. a = Len(q) + 1
    BY <1>5 DEF Anchor
  <2> DEFINE t == InsertAfter(s, done.last, m)
             next == [queue |-> t, last |-> m]
  <2>2. Placed(q, done, m) = next
    BY <1>5 DEF Placed
  <2>3. Distinct(s) /\ Len(s) \in 1..Len(s) /\ done.last = s[Len(s)]
    BY <1>2, SortedIsDistinct DEF Last
  <2>4. done.last \in Range(s) /\ Position(s, done.last) = Len(s)
    BY <1>2, <2>3, InRange, OnlyPosition
  <2>5. t = Insert(s, Len(s) + 1, m)
    BY <2>4 DEF InsertAfter
  <2> HIDE DEF t
  <2>6. Fits(q, s, Len(s) + 1, m)
    BY <1>2, <1>5, <2>1, FitsAtEnd
  <2>7. Len(s) + 1 \in 1..Len(s) + 1 /\ ~(Len(s) + 1 <= Len(s))
    BY <1>2
  <2>8. InsertsWell(q, s, m, t) /\ Last(t) = m
    BY <1>1, <1>2, <2>5, <2>6, <2>7, InsertedInPlace
  <2>9. next.queue = t /\ next.last = m /\ next \in States
    BY <1>1, <2>8 DEF InsertsWell, States
  <2> HIDE DEF next
  <2> QED
    BY <1>5, <2>2, <2>8, <2>9, FillsOn
<1> QED
  BY <1>3, <1>4, <1>5

Start(q) == [queue |-> q, last |-> Last(q)]

(* f is what the loop makes of the first n items. *)
Loop(q, items, n, f) ==
    f = [k \in 0..n |-> IF k = 0 THEN Start(q) ELSE Placed(q, f[k - 1], items[k])]

(* The loop can run over any number of items. *)
LEMMA LoopRuns ==
    ASSUME NEW q, NEW items, NEW n \in Nat
    PROVE  \E f : Loop(q, items, n, f)
<1> DEFINE S == {l \in Nat : \E f : Loop(q, items, l, f)}
<1>1. 0 \in S
  <2> DEFINE f == [k \in 0..0 |-> Start(q)]
  <2>1. \A k \in 0..0 : k = 0
    OBVIOUS
  <2>2. f = [k \in 0..0 |-> IF k = 0 THEN Start(q) ELSE Placed(q, f[k - 1], items[k])]
    BY <2>1
  <2> HIDE DEF f
  <2> QED
    BY <2>2 DEF Loop
<1>2. ASSUME NEW l \in S \cap Nat PROVE l + 1 \in S
  <2>1. PICK f : Loop(q, items, l, f)
    OBVIOUS
  <2>2. \A k \in 0..l : f[k] = IF k = 0 THEN Start(q) ELSE Placed(q, f[k - 1], items[k])
    BY <2>1, Zenon DEF Loop
  <2> DEFINE g == [k \in 0..l + 1 |-> IF k <= l THEN f[k] ELSE Placed(q, f[l], items[l + 1])]
  <2>3. \A k \in 0..l + 1 : \/ k = 0 /\ k \in 0..l /\ k <= l
                            \/ k # 0 /\ k \in 0..l /\ k <= l /\ k - 1 \in 0..l + 1 /\ k - 1 <= l
                            \/ k # 0 /\ k = l + 1 /\ ~(k <= l) /\ k - 1 = l /\ l \in 0..l + 1 /\ l <= l
    OBVIOUS
  <2>4. \A k \in 0..l + 1 : k <= l => g[k] = f[k]
    OBVIOUS
  <2>5. g[l + 1] = Placed(q, f[l], items[l + 1])
    OBVIOUS
  <2>6. DOMAIN g = 0..l + 1 /\ g = [k \in 0..l + 1 |-> g[k]]
    OBVIOUS
  <2> HIDE DEF g
  <2>7. ASSUME NEW k \in 0..l + 1
        PROVE  g[k] = IF k = 0 THEN Start(q) ELSE Placed(q, g[k - 1], items[k])
    <3>1. CASE k = 0 /\ k \in 0..l /\ k <= l
      BY <2>2, <2>4, <3>1
    <3>2. CASE k # 0 /\ k \in 0..l /\ k <= l /\ k - 1 \in 0..l + 1 /\ k - 1 <= l
      BY <2>2, <2>4, <3>2
    <3>3. CASE k # 0 /\ k = l + 1 /\ ~(k <= l) /\ k - 1 = l /\ l \in 0..l + 1 /\ l <= l
      BY <2>4, <2>5, <3>3
    <3> QED
      BY <2>3, <3>1, <3>2, <3>3
  <2>8. Loop(q, items, l + 1, g)
    BY <2>6, <2>7 DEF Loop
  <2> QED
    BY <2>8
<1>3. Nat \subseteq S
  BY <1>1, <1>2, AllNaturals
<1> QED
  BY <1>3

LEMMA FilledIs ==
    ASSUME NEW q, NEW items, Len(items) \in Nat
    PROVE  Loop(q, items, Len(items), Filled(q, items))
<1>1. \E f : Loop(q, items, Len(items), f)
  BY LoopRuns
<1>2. Filled(q, items) = CHOOSE f : Loop(q, items, Len(items), f)
  BY Zenon DEF Filled, Loop, Start
<1> QED
  BY <1>1, <1>2, Zenon

LEMMA LoopEnds ==
    ASSUME NEW q, Queue(q), q # <<>>, NEW items, IsHistory(items)
    PROVE  Fills(q, items, Len(items), Filled(q, items)[Len(items)])
<1> DEFINE f == Filled(q, items)
           N == Len(items)
           S == {k \in Nat : k <= N => Fills(q, items, k, f[k])}
<1>1. N \in Nat
  BY DEF IsHistory
<1>8. Loop(q, items, N, f)
  BY <1>1, FilledIs
<1> HIDE DEF f
<1>2. \A k \in 0..N : f[k] = IF k = 0 THEN Start(q) ELSE Placed(q, f[k - 1], items[k])
  BY <1>8, Zenon DEF Loop
<1>3. Fills(q, items, 0, Start(q))
  <2>1. q \in Seq(Entries) /\ Len(q) \in 1..Limit /\ Len(q) \in 1..Len(q)
    BY LimitAssumption DEF Queue
  <2>2. Last(q) \in Entries
    BY <2>1, InRange DEF Last
  <2>3. Start(q) \in States /\ Start(q).queue = q /\ Start(q).last = Last(q)
    BY <2>1, <2>2 DEF Start, States
  <2>4. SortedBy(q, q)
    <3> SUFFICES ASSUME NEW i \in 1..Len(q), NEW j \in 1..Len(q), i < j
                 PROVE  Precedes(q, q[i], q[j])
      BY DEF SortedBy
    <3>1. Slot(q, q[i]) = 2 * i /\ Slot(q, q[j]) = 2 * j
      BY SlotOf
    <3>2. Slot(q, q[i]) < Slot(q, q[j])
      BY <3>1
    <3> QED
      BY <3>2 DEF Precedes
  <2>5. \A e : IsTaken(q, items, 0, e) <=> e \in Range(q)
    <3>1. 1..0 = {}
      OBVIOUS
    <3> QED
      BY <3>1, Zenon DEF IsTaken
  <2> QED
    BY <2>1, <2>3, <2>4, <2>5, Zenon DEF Fills
<1>4. 0 \in S
  <2>1. f[0] = Start(q)
    BY <1>1, <1>2
  <2> QED
    BY <1>3, <2>1
<1>5. ASSUME NEW k \in S \cap Nat PROVE k + 1 \in S
  <2> SUFFICES ASSUME k + 1 <= N PROVE Fills(q, items, k + 1, f[k + 1])
    OBVIOUS
  <2>1. k + 1 \in 0..N /\ k + 1 # 0 /\ k + 1 - 1 = k /\ k <= N /\ k + 1 \in 1..Len(items)
    BY <1>1
  <2>2. f[k + 1] = Placed(q, f[k], items[k + 1])
    <3>1. f[k + 1] = Placed(q, f[k + 1 - 1], items[k + 1])
      BY <1>2, <2>1
    <3> QED
      BY <2>1, <3>1, Zenon
  <2>3. Fills(q, items, k, f[k])
    BY <2>1
  <2> QED
    BY <2>1, <2>2, <2>3, LoopStep
<1>6. Nat \subseteq S
  BY <1>4, <1>5, AllNaturals
<1>7. N \in S
  BY <1>1, <1>6
<1> QED
  BY <1>1, <1>7 DEF f

(* The order by slots is the one in which messages are shown. *)
LEMMA SlotsAreInOrder ==
    ASSUME NEW q, Queue(q), NEW items, IsHistory(items), NEW last \in Nat, InOrderUpTo(q, last),
           NEW e, IsTaken(q, items, Len(items), e), IsChat(e),
           NEW f, IsTaken(q, items, Len(items), f), IsChat(f), Precedes(q, e, f)
    PROVE  Ordered(e, f, last)
<1>1. /\ q \in Seq(Entries) /\ Len(q) \in Nat /\ Len(items) \in Nat
      /\ e \in Entries /\ f \in Entries /\ e.n \in Nat /\ f.n \in Nat
  <2>1. q \in Seq(Entries) /\ Len(q) \in Nat /\ Len(items) \in Nat /\ Len(items) <= Len(items)
    BY DEF Queue, IsHistory
  <2>2. e \in Entries /\ f \in Entries
    BY <2>1, TakenIsEntry
  <2> QED
    BY <2>1, <2>2, EntryFields
<1>2. \A g : IsTaken(q, items, Len(items), g) /\ g \notin Range(q) =>
                g.kind = "history" /\ g.n \notin Existing(q)
  BY HistoryItem DEF IsTaken
<1>3. CASE e \in Range(q) /\ f \in Range(q)
  <2> DEFINE i == Position(q, e)
             j == Position(q, f)
  <2>1. /\ i \in 1..Len(q) /\ e = q[i] /\ Slot(q, e) = 2 * i
        /\ j \in 1..Len(q) /\ f = q[j] /\ Slot(q, f) = 2 * j
    BY <1>1, <1>3, SlotIs
  <2> HIDE DEF i, j
  <2>2. CASE i < j
    BY <2>1, <2>2 DEF InOrderUpTo
  <2>3. CASE ~(i < j)
    <3>1. i = j /\ e.n < f.n
      BY <2>1, <2>3 DEF Precedes
    <3> QED
      BY <1>1, <2>1, <3>1
  <2> QED
    BY <2>2, <2>3
<1>4. CASE e \in Range(q) /\ f \notin Range(q)
  <2> DEFINE i == Position(q, e)
             b == Anchor(q, f)
  <2>1. /\ i \in 1..Len(q) /\ e = q[i] /\ Slot(q, e) = 2 * i
        /\ b \in 1..Len(q) + 1 /\ Slot(q, f) = 2 * b - 1
        /\ \A k \in 1..Len(q) : k < b /\ IsChat(q[k]) => q[k].n <= f.n
    BY <1>1, <1>4, SlotIs, AnchorIs
  <2> HIDE DEF i, b
  <2>2. i < b
    BY <1>1, <2>1 DEF Precedes
  <2>3. e.n <= f.n
    BY <2>1, <2>2
  <2>4. e.n # f.n
    BY <1>2, <1>4, ShownIs DEF Existing
  <2> QED
    BY <1>1, <2>3, <2>4 DEF Ordered
<1>5. CASE e \notin Range(q) /\ f \in Range(q)
  <2> DEFINE a == Anchor(q, e)
             j == Position(q, f)
  <2>1. /\ j \in 1..Len(q) /\ f = q[j] /\ Slot(q, f) = 2 * j
        /\ a \in 1..Len(q) + 1 /\ Slot(q, e) = 2 * a - 1
        /\ a <= Len(q) => IsChat(q[a]) /\ e.n < q[a].n
    BY <1>1, <1>5, SlotIs, AnchorIs
  <2> HIDE DEF a, j
  <2>2. a <= j /\ a \in 1..Len(q)
    BY <1>1, <2>1 DEF Precedes
  <2>3. IsChat(q[a]) /\ e.n < q[a].n /\ q[a].n \in Nat
    BY <1>1, <2>1, <2>2, InRange, EntryFields
  <2>4. CASE a = j
    BY <2>1, <2>3, <2>4 DEF Ordered
  <2>5. CASE a < j
    <3>1. Ordered(q[a], f, last)
      BY <2>1, <2>2, <2>3, <2>5 DEF InOrderUpTo
    <3>2. e.kind = "history"
      BY <1>2, <1>5
    <3>3. q[a].n < f.n \/ (f.kind = "live" /\ q[a].n <= last)
      BY <3>1 DEF Ordered
    <3>4. e.n < f.n \/ (f.kind = "live" /\ e.n <= last)
      BY <1>1, <2>3, <3>3
    <3> QED
      BY <3>2, <3>4 DEF Ordered
  <2> QED
    BY <2>1, <2>2, <2>4, <2>5
<1>6. CASE e \notin Range(q) /\ f \notin Range(q)
  <2>1. /\ Anchor(q, e) \in Nat /\ Slot(q, e) = 2 * Anchor(q, e) - 1
        /\ Anchor(q, f) \in Nat /\ Slot(q, f) = 2 * Anchor(q, f) - 1
    BY <1>1, <1>6, SlotIs
  <2>2. f.n <= e.n => Anchor(q, f) <= Anchor(q, e)
    BY <1>1, AnchorGrows
  <2>3. e.n < f.n
    BY <1>1, <2>1, <2>2 DEF Precedes
  <2> QED
    BY <2>3 DEF Ordered
<1> QED
  BY <1>3, <1>4, <1>5, <1>6

(* Filling in keeps the order, takes from the front only, and brings what   *)
(* is asked for, unless it is older than all that is shown.                 *)
FillsIn(q, items, t, last) ==
    /\ Queue(t)
    /\ Range(t) \subseteq Range(q) \cup Range(items)
    /\ InOrderUpTo(t, last)
    /\ LeavesFront(q, t)
    /\ \A i \in 1..Len(items) :
          \/ items[i].n \in Shown(q) \cup Shown(t)
          \/ items[i].n <= last
          \/ \A f \in Range(t) : IsChat(f) => items[i].n < f.n

LEMMA LoopFillsIn ==
    ASSUME NEW q, Queue(q), q # <<>>, NEW items, IsHistory(items),
           NEW last \in Nat, InOrderUpTo(q, last)
    PROVE  FillsIn(q, items, Filled(q, items)[Len(items)].queue, last)
<1> DEFINE N == Len(items)
           done == Filled(q, items)[N]
           t == done.queue
<1>1. q \in Seq(Entries) /\ items \in Seq(Entries) /\ Len(q) \in Nat /\ N \in Nat
  BY DEF Queue, IsHistory
<1>2. Fills(q, items, N, done)
  BY LoopEnds
<1> HIDE DEF done
<1>3. /\ t \in Seq(Entries) /\ Len(t) \in 1..Limit /\ SortedBy(q, t)
      /\ \A e \in Range(t) : IsTaken(q, items, N, e)
      /\ \A e \in Entries : IsTaken(q, items, N, e) => e \in Range(t) \/ Gone(q, t, e)
  BY <1>2 DEF Fills, States
<1> HIDE DEF t
<1>4. Queue(t)
  BY <1>3, SortedIsDistinct, LimitAssumption DEF Queue
<1>5. Range(t) \subseteq Range(q) \cup Range(items)
  BY <1>1, <1>3, InRange DEF IsTaken
<1>6. InOrderUpTo(t, last)
  <2> SUFFICES ASSUME NEW i \in 1..Len(t), NEW j \in 1..Len(t), i < j,
                      IsChat(t[i]), IsChat(t[j])
               PROVE  Ordered(t[i], t[j], last)
    BY DEF InOrderUpTo
  <2>1. /\ IsTaken(q, items, N, t[i]) /\ IsTaken(q, items, N, t[j])
        /\ Precedes(q, t[i], t[j])
    BY <1>3, InRange DEF SortedBy
  <2> QED
    BY <2>1, SlotsAreInOrder
<1>7. LeavesFront(q, t)
  <2> SUFFICES ASSUME NEW i \in 1..Len(q), NEW j \in 1..Len(q), i < j,
                      q[i] \in Range(t), q[j] \notin Range(t)
               PROVE  FALSE
    BY Zenon DEF LeavesFront
  <2>1. q[j] \in Entries /\ q[j] \in Range(q)
    BY <1>1, InRange
  <2>2. Gone(q, t, q[j])
    BY <1>3, <2>1 DEF IsTaken
  <2>3. Precedes(q, q[j], q[i])
    BY <2>2 DEF Gone
  <2>4. Slot(q, q[i]) = 2 * i /\ Slot(q, q[j]) = 2 * j
    BY SlotOf
  <2>5. Slot(q, q[i]) < Slot(q, q[j])
    BY <2>4
  <2> QED
    BY <2>3, <2>4, <2>5 DEF Precedes
<1>8. ASSUME NEW i \in 1..N, items[i].n \notin Shown(q), items[i].n \notin Shown(t),
             ~(items[i].n <= last), NEW f \in Range(t), IsChat(f)
      PROVE  items[i].n < f.n
  <2> DEFINE m == items[i]
  <2>1. m \in Entries /\ IsChat(m) /\ IsTaken(q, items, N, m)
    BY <1>8, HistoryItem DEF IsTaken, Existing
  <2>2. m \notin Range(t)
    BY <1>8, <2>1, ShownIs
  <2>3. Precedes(q, m, f)
    BY <1>3, <2>1, <2>2 DEF Gone
  <2>4. Ordered(m, f, last)
    BY <1>3, <1>8, <2>1, <2>3, SlotsAreInOrder
  <2> QED
    BY <1>8, <2>4 DEF Ordered
<1> QED
  BY <1>4, <1>5, <1>6, <1>7, <1>8, Zenon DEF FillsIn, t, done

LEMMA FilledIn ==
    ASSUME NEW q, Queue(q), NEW items, IsHistory(items),
           NEW last \in Nat, InOrderUpTo(q, last)
    PROVE  FillsIn(q, items, FillInMissingMessages(q, items), last)
<1>1. CASE q = <<>>
  <2> DEFINE t == PushFront(q, items)
  <2>1. \A e : e \notin Range(q)
    BY <1>1 DEF Range
  <2>2. /\ Queue(t) /\ Range(t) \subseteq Range(q) \cup Range(items) /\ InOrderUpTo(t, last)
        /\ \A i \in 1..Len(items) :
              items[i] \in Range(t) \/ \A f \in Range(t) : items[i].n < f.n
    BY <1>1, <2>1, FrontPushed
  <2> HIDE DEF t
  <2>3. LeavesFront(q, t)
    BY <1>1 DEF LeavesFront
  <2>4. \A i \in 1..Len(items) : items[i] \in Range(t) => items[i].n \in Shown(t)
    BY HistoryItem, ShownIs
  <2>5. FillsIn(q, items, t, last)
    BY <2>2, <2>3, <2>4 DEF FillsIn
  <2> QED
    BY <1>1, <2>5 DEF FillInMissingMessages, t
<1>2. CASE q # <<>>
  BY <1>2, LoopFillsIn DEF FillInMissingMessages
<1> QED
  BY <1>1, <1>2

-----------------------------------------------------------------------------
(* The inductive invariant *)

InGoodOrder == Queue(messages) /\ InOrderUpTo(messages, restored)

NoHistory == \A e \in Range(messages) : e.kind # "history"

(* What is shown has been seen, and was sent before. *)
SeenIsSent == Shown(messages) \subseteq seen /\ seen \subseteq 1..sent

(* Before the room ID is known, nothing is shown, loaded or marked. *)
RoomIsKnown ==
    /\ roomId => lastConnectedAt \in 0..sent
    /\ ~roomId => Shown(messages) = {} /\ loading.kind = "none" /\ ~disconnected

(* disconnected_ is set while the channel is not joined again. *)
MarkedIsLeft ==
    /\ roomId /\ link \in {"down", "connected"} => disconnected
    /\ link = "joined" => ~disconnected

(* The first load is the first, and a load asks for the time before now. *)
LoadsFit ==
    /\ loading.kind # "none" => loading.before <= lastConnectedAt
    /\ loading.kind = "first" => loading.after = 0
    /\ loading.kind = "first" \/ ~roomId => NoHistory /\ restored = 0

(* Older than everything shown, and than what is or will be asked for. *)
Missed(n) ==
    /\ n <= lastConnectedAt
    /\ loading.kind # "none" => n <= loading.after
    /\ \A e \in Range(messages) : IsChat(e) => n < e.n

Accounted(n) ==
    \/ n \in seen \/ n \in lost \/ n \in Covered(loading)
    \/ link # "joined" /\ n > lastConnectedAt
    \/ n <= restored
    \/ Missed(n)

AllAccounted == roomId => \A n \in 1..sent : Accounted(n)

IInv ==
    /\ TypeOK
    /\ InGoodOrder
    /\ SeenIsSent
    /\ RoomIsKnown
    /\ MarkedIsLeft
    /\ LoadsFit
    /\ AllAccounted

(* A step keeps the invariant, and takes messages from the front only.      *)
Preserved ==
    /\ IInv'
    /\ LeavesFront(messages, messages')

-----------------------------------------------------------------------------
(* Steps that add nothing but system messages *)

OnlySlides ==
    /\ Queue(messages')
    /\ Slid(messages', messages)

LEMMA SlidItself ==
    ASSUME IInv
    PROVE  Queue(messages) /\ Slid(messages, messages)
<1>1. Queue(messages) /\ Len(messages) \in Nat
  BY DEF IInv, InGoodOrder, Queue
<1>2. Slides(messages, messages, 0)
  <2>1. \A j \in 1..Len(messages) - 0 : j + 0 = j
    OBVIOUS
  <2>2. 0 \in 0..Len(messages) /\ Len(messages) >= Len(messages) - 0
        /\ \A j \in 1..Len(messages) : ~(j > Len(messages) - 0)
    BY <1>1
  <2>3. \A j \in 1..Len(messages) - 0 : Same(messages[j], messages[j + 0])
    BY <2>1, Zenon DEF Same
  <2> QED
    BY <2>2, <2>3, Zenon DEF Slides
<1> QED
  BY <1>1, <1>2, Zenon DEF Slid

LEMMA UnchangedSlides ==
    ASSUME IInv, UNCHANGED messages
    PROVE  OnlySlides
<1>1. messages' = messages
  OBVIOUS
<1> QED
  BY <1>1, SlidItself, Zenon DEF OnlySlides

(* What slides is in order, and what it shows has been shown. *)
LEMMA SlidingKeeps ==
    ASSUME IInv, OnlySlides
    PROVE  /\ messages' \in Seq(Entries) /\ Len(messages') <= Limit
           /\ \A last : InOrderUpTo(messages, last) => InOrderUpTo(messages', last)
           /\ LeavesFront(messages, messages')
           /\ \A e \in Range(messages') : IsChat(e) => e \in Range(messages)
           /\ Shown(messages') \subseteq Shown(messages)
           /\ NoHistory => NoHistory'
<1>1. Queue(messages) /\ Queue(messages') /\ Slid(messages', messages)
  BY DEF IInv, InGoodOrder, OnlySlides
<1>2. /\ \A e \in Range(messages') : IsChat(e) => e \in Range(messages)
      /\ \A last : InOrderUpTo(messages, last) => InOrderUpTo(messages', last)
      /\ LeavesFront(messages, messages')
  BY <1>1, SlidKeeps
<1>3. Shown(messages') \subseteq Shown(messages)
  BY <1>2, ShownIs
<1>4. NoHistory => NoHistory'
  BY <1>2, KindsDiffer DEF NoHistory
<1> QED
  BY <1>1, <1>2, <1>3, <1>4 DEF Queue

LEMMA StaysAccounted ==
    ASSUME IInv, OnlySlides, NEW n, Accounted(n),
           seen \subseteq seen', lost \subseteq lost',
           UNCHANGED <<restored, loading, lastConnectedAt>>,
           link' = "joined" => link = "joined"
    PROVE  Accounted(n)'
<1>1. \A e \in Range(messages') : IsChat(e) => e \in Range(messages)
  BY SlidingKeeps
<1>2. Missed(n) => Missed(n)'
  BY <1>1 DEF Missed
<1> QED
  BY <1>2 DEF Accounted, Covered

(* What the invariant and a sliding step say of the next state at once. *)
LEMMA SlidingInvariant ==
    ASSUME IInv, OnlySlides, See, UNCHANGED <<restored, sent>>
    PROVE  /\ InGoodOrder'
           /\ SeenIsSent'
           /\ seen' = seen
           /\ LeavesFront(messages, messages')
           /\ messages' \in Seq(Entries) /\ Len(messages') <= Limit
           /\ Shown(messages') \subseteq Shown(messages)
           /\ NoHistory => NoHistory'
<1>1. /\ InOrderUpTo(messages, restored) /\ Queue(messages')
      /\ Shown(messages) \subseteq seen /\ seen \subseteq 1..sent
  BY DEF IInv, InGoodOrder, SeenIsSent, OnlySlides
<1>2. /\ messages' \in Seq(Entries) /\ Len(messages') <= Limit
      /\ InOrderUpTo(messages', restored)
      /\ LeavesFront(messages, messages')
      /\ Shown(messages') \subseteq Shown(messages)
      /\ NoHistory => NoHistory'
  BY <1>1, SlidingKeeps
<1>3. seen' = seen
  BY <1>1, <1>2 DEF See
<1>4. restored' = restored /\ sent' = sent
  OBVIOUS
<1>5. InGoodOrder'
  BY <1>1, <1>2, <1>4 DEF InGoodOrder
<1>6. SeenIsSent'
  BY <1>1, <1>2, <1>3, <1>4 DEF SeenIsSent
<1> QED
  BY <1>2, <1>3, <1>5, <1>6

(* What a load can bring is within the bound of what is sent. *)
LEMMA CoversSent ==
    ASSUME TypeOK
    PROVE  Covered(loading) \subseteq 1..MaxSent
<1>1. /\ loading.after \in Nat /\ loading.before \in Nat /\ loading.before <= MaxSent
      /\ MaxSent \in Nat
  BY HistoryAssumption DEF TypeOK, Times
<1> QED
  BY <1>1 DEF Covered

LEMMA OnReadConnectedKeeps ==
    ASSUME IInv, OnReadConnected
    PROVE  Preserved
<1>1. OnlySlides
  <2>1. Queue(messages) /\ "connected" \in SystemKinds /\ "disconnected" \in SystemKinds
    BY DEF IInv, InGoodOrder, SystemKinds
  <2>2. CASE messages # <<>> /\ Last(messages).kind = "disconnected"
    <3>1. ~IsChat(Last(messages))
      BY <2>1, <2>2, KindsDiffer
    <3>2. messages' = ReplaceItem(messages, Last(messages), System(messages, "connected"))
      BY <2>2 DEF OnReadConnected
    <3>3. Queue(messages') /\ Slid(messages', messages)
      BY <2>1, <2>2, <3>1, <3>2, ReplacedSlides
    <3> QED
      BY <3>3 DEF OnlySlides
  <2>3. CASE ~(messages # <<>> /\ Last(messages).kind = "disconnected")
    <3>1. messages' = AddSystem(messages, "connected")
      BY <2>3 DEF OnReadConnected
    <3>2. Queue(messages') /\ Slid(messages', messages)
      BY <2>1, <3>1, SystemSlides
    <3> QED
      BY <3>2 DEF OnlySlides
  <2> QED
    BY <2>2, <2>3
<1>2. /\ link = "down" /\ link' = "connected" /\ See
      /\ UNCHANGED <<sent, pings, drops, joinState, loading, lost, restored>>
  BY DEF OnReadConnected
<1>3. /\ InGoodOrder' /\ SeenIsSent' /\ seen' = seen
      /\ LeavesFront(messages, messages')
      /\ messages' \in Seq(Entries) /\ Len(messages') <= Limit
      /\ Shown(messages') \subseteq Shown(messages)
      /\ NoHistory => NoHistory'
  BY <1>1, <1>2, SlidingInvariant
<1>4. TypeOK'
  BY <1>2, <1>3 DEF IInv, TypeOK, joinState
<1>5. RoomIsKnown' /\ MarkedIsLeft' /\ LoadsFit'
  BY <1>2, <1>3 DEF IInv, RoomIsKnown, MarkedIsLeft, LoadsFit, joinState
<1>6. AllAccounted'
  <2>1. \A n : Accounted(n) => Accounted(n)'
    BY <1>1, <1>2, <1>3, StaysAccounted DEF joinState
  <2> QED
    BY <1>2, <2>1 DEF IInv, AllAccounted, joinState
<1> QED
  BY <1>3, <1>4, <1>5, <1>6 DEF Preserved, IInv

LEMMA HandleJoinKeeps ==
    ASSUME IInv, HandleJoin
    PROVE  Preserved
<1>1. /\ link = "connected" /\ link' = "joined" /\ See
      /\ UNCHANGED <<sent, pings, drops, roomId, restored>>
  BY DEF HandleJoin
<1>2. OnlySlides
  <2>1. Queue(messages) /\ "notice" \in SystemKinds
    BY DEF IInv, InGoodOrder, SystemKinds
  <2>2. messages' = AddSystem(messages, "notice")
    BY DEF HandleJoin
  <2>3. Queue(messages') /\ Slid(messages', messages)
    BY <2>1, <2>2, SystemSlides
  <2> QED
    BY <2>3 DEF OnlySlides
<1>3. /\ InGoodOrder' /\ SeenIsSent' /\ seen' = seen
      /\ LeavesFront(messages, messages')
      /\ messages' \in Seq(Entries) /\ Len(messages') <= Limit
      /\ Shown(messages') \subseteq Shown(messages)
      /\ NoHistory => NoHistory'
  BY <1>1, <1>2, SlidingInvariant
<1>4. \A e \in Range(messages') : IsChat(e) => e \in Range(messages)
  BY <1>2, SlidingKeeps
<1>5. /\ TypeOK /\ RoomIsKnown /\ MarkedIsLeft /\ LoadsFit /\ AllAccounted
      /\ sent \in Nat /\ sent <= MaxSent /\ MaxSent \in Nat
  BY HistoryAssumption DEF IInv, TypeOK, Times
<1>6. CASE disconnected
  <2>1. /\ roomId /\ roomId' /\ lastConnectedAt \in 0..sent
        /\ lastConnectedAt' = sent /\ disconnected' = FALSE
        /\ LoadRecentMessagesReconnect
    BY <1>1, <1>5, <1>6 DEF HandleJoin, RoomIsKnown
  <2>2. CASE /\ loading.kind = "none"
             /\ loading' = [kind |-> "reconnect", after |-> lastConnectedAt, before |-> sent]
             /\ UNCHANGED lost
    <3>1. /\ loading'.kind = "reconnect" /\ loading'.after = lastConnectedAt
          /\ loading'.before = sent
      BY <2>2
    <3>2. TypeOK'
      <4>1. loading' \in [kind : {"none", "first", "reconnect"}, after : Times, before : Times]
        BY <1>5, <2>1, <2>2 DEF Times
      <4> QED
        BY <1>1, <1>3, <1>5, <2>1, <2>2, <4>1 DEF TypeOK, Times
    <3>3. RoomIsKnown' /\ MarkedIsLeft' /\ LoadsFit'
      BY <1>1, <1>3, <1>5, <2>1, <3>1 DEF RoomIsKnown, MarkedIsLeft, LoadsFit
    <3>4. Covered(loading') = lastConnectedAt + 1..sent /\ Covered(loading) = {}
      BY <2>2, <3>1 DEF Covered
    <3>5. ASSUME NEW n \in 1..sent, Accounted(n) PROVE Accounted(n)'
      <4>1. CASE n \in seen \/ n \in lost \/ n <= restored
        BY <1>1, <1>3, <2>2, <4>1 DEF Accounted
      <4>2. CASE link # "joined" /\ n > lastConnectedAt
        <5>1. n \in lastConnectedAt + 1..sent
          BY <1>5, <2>1, <4>2
        <5> QED
          BY <3>4, <5>1 DEF Accounted
      <4>3. CASE Missed(n)
        <5>1. Missed(n)'
          BY <1>4, <1>5, <2>1, <3>1, <4>3 DEF Missed
        <5> QED
          BY <5>1 DEF Accounted
      <4> QED
        BY <3>4, <3>5, <4>1, <4>2, <4>3 DEF Accounted
    <3>6. AllAccounted'
      BY <1>1, <1>5, <2>1, <3>5 DEF AllAccounted
    <3> QED
      BY <1>3, <3>2, <3>3, <3>6 DEF Preserved, IInv
  <2>3. CASE UNCHANGED loading /\ GiveUp
    <3>1. loading' = loading /\ lost' = lost \cup ((1..sent) \ (seen \cup Covered(loading')))
      BY <2>3 DEF GiveUp
    <3>2. TypeOK'
      <4>1. lost \subseteq 1..MaxSent /\ 1..sent \subseteq 1..MaxSent
        BY <1>5 DEF TypeOK
      <4>2. lost' \subseteq 1..MaxSent
        BY <3>1, <4>1
      <4> QED
        BY <1>1, <1>3, <1>5, <2>1, <3>1, <4>2 DEF TypeOK, Times
    <3>3. RoomIsKnown' /\ MarkedIsLeft' /\ LoadsFit'
      <4>1. RoomIsKnown' /\ MarkedIsLeft'
        BY <1>1, <1>5, <2>1 DEF RoomIsKnown, MarkedIsLeft
      <4>2. loading'.kind # "none" => loading'.before <= lastConnectedAt'
        BY <1>5, <2>1, <3>1 DEF LoadsFit, TypeOK, Times
      <4> QED
        BY <1>1, <1>3, <1>5, <2>1, <3>1, <4>1, <4>2 DEF LoadsFit
    <3>4. ASSUME NEW n \in 1..sent PROVE Accounted(n)'
      <4>1. n \in seen' \/ n \in lost' \/ n \in Covered(loading')
        BY <1>3, <3>1
      <4> QED
        BY <4>1 DEF Accounted
    <3>5. AllAccounted'
      BY <1>1, <3>4 DEF AllAccounted
    <3> QED
      BY <1>3, <3>2, <3>3, <3>5 DEF Preserved, IInv
  <2> QED
    BY <2>1, <2>2, <2>3 DEF LoadRecentMessagesReconnect
<1>7. CASE ~disconnected
  <2>1. /\ disconnected = FALSE /\ ~roomId /\ roomId' = roomId
        /\ loading' = loading /\ lost' = lost /\ lastConnectedAt' = lastConnectedAt
        /\ disconnected' = disconnected
    BY <1>1, <1>5, <1>7 DEF HandleJoin, MarkedIsLeft, TypeOK
  <2>2. TypeOK'
    BY <1>1, <1>3, <1>5, <2>1 DEF TypeOK
  <2>3. RoomIsKnown' /\ LoadsFit'
    BY <1>1, <1>3, <1>5, <2>1 DEF RoomIsKnown, LoadsFit
  <2>4. MarkedIsLeft' /\ AllAccounted'
    BY <1>1, <2>1 DEF MarkedIsLeft, AllAccounted
  <2> QED
    BY <1>3, <2>2, <2>3, <2>4 DEF Preserved, IInv
<1> QED
  BY <1>6, <1>7

LEMMA HandleRoomStateKeeps ==
    ASSUME IInv, HandleRoomState
    PROVE  Preserved
<1>1. /\ link = "joined" /\ ~roomId
      /\ roomId' = TRUE /\ LoadRecentMessages(sent)
      /\ disconnected' = FALSE /\ lastConnectedAt' = sent
      /\ UNCHANGED <<connection, messages, seen, lost, restored>>
  BY DEF HandleRoomState, SetRoomId
<1>2. /\ TypeOK /\ InGoodOrder /\ SeenIsSent /\ RoomIsKnown /\ LoadsFit
      /\ sent \in Nat /\ sent <= MaxSent /\ MaxSent \in Nat
  BY HistoryAssumption DEF IInv, TypeOK, Times
<1>3. loading.kind = "none" /\ Shown(messages) = {} /\ NoHistory /\ restored = 0
  BY <1>1, <1>2 DEF RoomIsKnown, LoadsFit
<1>4. InGoodOrder' /\ SeenIsSent'
  BY <1>1, <1>2 DEF InGoodOrder, SeenIsSent, connection
<1>5. LeavesFront(messages, messages')
  <2>1. OnlySlides
    BY <1>1, UnchangedSlides
  <2> QED
    BY <2>1, SlidingKeeps
<1>6. MarkedIsLeft'
  BY <1>1 DEF MarkedIsLeft, connection
<1>7. NoHistory'
  BY <1>1, <1>3 DEF NoHistory
<1>8. CASE loading' = [kind |-> "first", after |-> 0, before |-> sent]
  <2>1. loading'.kind = "first" /\ loading'.after = 0 /\ loading'.before = sent
    BY <1>8
  <2>2. TypeOK'
    <3>1. loading' \in [kind : {"none", "first", "reconnect"}, after : Times, before : Times]
      BY <1>2, <1>8 DEF Times
    <3> QED
      BY <1>1, <1>2, <3>1 DEF TypeOK, Times, connection
  <2>3. RoomIsKnown' /\ LoadsFit'
    BY <1>1, <1>2, <1>3, <1>7, <2>1 DEF RoomIsKnown, LoadsFit, connection
  <2>4. Covered(loading') = 0 + 1..sent
    BY <2>1 DEF Covered
  <2>5. AllAccounted'
    BY <1>1, <2>4 DEF AllAccounted, Accounted, connection
  <2> QED
    BY <1>4, <1>5, <1>6, <2>2, <2>3, <2>5 DEF Preserved, IInv
<1>9. CASE UNCHANGED loading
  <2>1. TypeOK'
    BY <1>1, <1>2, <1>9 DEF TypeOK, Times, connection
  <2>2. RoomIsKnown' /\ LoadsFit'
    BY <1>1, <1>2, <1>3, <1>7, <1>9 DEF RoomIsKnown, LoadsFit, connection
  <2>3. \A e \in Range(messages) : ~IsChat(e)
    BY <1>3, ShownIs
  <2>4. ASSUME NEW n \in 1..sent PROVE Missed(n)'
    BY <1>1, <1>2, <1>3, <1>9, <2>3 DEF Missed
  <2>5. AllAccounted'
    BY <1>1, <2>4 DEF AllAccounted, Accounted, connection
  <2> QED
    BY <1>4, <1>5, <1>6, <2>1, <2>2, <2>5 DEF Preserved, IInv
<1> QED
  BY <1>1, <1>8, <1>9 DEF LoadRecentMessages

LEMMA PeerVanishesKeeps ==
    ASSUME IInv, PeerVanishes
    PROVE  Preserved
<1>1. /\ link' = "vanished" /\ pings' \in BOOLEAN
      /\ UNCHANGED <<sent, drops, messages, joinState, loading, seen, lost, restored>>
  BY DEF PeerVanishes
<1>2. OnlySlides
  BY <1>1, UnchangedSlides
<1>3. LeavesFront(messages, messages')
  BY <1>2, SlidingKeeps
<1>4. InGoodOrder' /\ SeenIsSent'
  BY <1>1 DEF IInv, InGoodOrder, SeenIsSent
<1>5. TypeOK'
  BY <1>1 DEF IInv, TypeOK, joinState
<1>6. RoomIsKnown' /\ MarkedIsLeft' /\ LoadsFit'
  BY <1>1 DEF IInv, RoomIsKnown, MarkedIsLeft, LoadsFit, NoHistory, joinState
<1>7. AllAccounted'
  <2>1. \A n : Accounted(n) => Accounted(n)'
    BY <1>1, <1>2, StaysAccounted DEF joinState
  <2> QED
    BY <1>1, <2>1 DEF IInv, AllAccounted, joinState
<1> QED
  BY <1>3, <1>4, <1>5, <1>6, <1>7 DEF Preserved, IInv

LEMMA HeartbeatKeeps ==
    ASSUME IInv, Heartbeat
    PROVE  Preserved
<1>1. /\ pings' = FALSE /\ MarkConnected
      /\ UNCHANGED <<sent, link, drops, messages, roomId, disconnected, loading, seen, restored>>
  BY DEF Heartbeat
<1>2. OnlySlides
  BY <1>1, UnchangedSlides
<1>3. LeavesFront(messages, messages')
  BY <1>2, SlidingKeeps
<1>4. InGoodOrder' /\ SeenIsSent'
  BY <1>1 DEF IInv, InGoodOrder, SeenIsSent
<1>5. /\ TypeOK /\ RoomIsKnown /\ MarkedIsLeft /\ LoadsFit /\ AllAccounted
      /\ sent \in Nat /\ sent <= MaxSent /\ MaxSent \in Nat
  BY HistoryAssumption DEF IInv, TypeOK, Times
<1>6. MarkedIsLeft' /\ (NoHistory => NoHistory')
  BY <1>1, <1>5 DEF MarkedIsLeft, NoHistory
<1>7. CASE lastConnectedAt' = lastConnectedAt
  <2>1. lost' = lost
    BY <1>7 DEF Heartbeat
  <2>2. TypeOK'
    BY <1>1, <1>5, <1>7, <2>1 DEF TypeOK
  <2>3. RoomIsKnown' /\ LoadsFit'
    BY <1>1, <1>5, <1>6, <1>7 DEF RoomIsKnown, LoadsFit
  <2>4. \A n : Accounted(n) => Accounted(n)'
    BY <1>1, <1>2, <1>7, <2>1, StaysAccounted
  <2>5. AllAccounted'
    BY <1>1, <1>5, <2>4 DEF AllAccounted
  <2> QED
    BY <1>3, <1>4, <1>6, <2>2, <2>3, <2>5 DEF Preserved, IInv
<1>8. CASE lastConnectedAt' # lastConnectedAt
  <2>1. /\ lastConnectedAt' = sent /\ ~disconnected /\ lastConnectedAt \in 0..MaxSent
    BY <1>1, <1>5, <1>8 DEF MarkConnected, TypeOK, Times
  <2>2. roomId => link \in {"joined", "vanished"}
    BY <1>5, <2>1 DEF MarkedIsLeft, TypeOK
  <2>3. /\ lost \subseteq lost' /\ lost' \subseteq 1..MaxSent
        /\ link = "vanished" => 1..sent \subseteq seen \cup lost' \cup Covered(loading)
    <3>1. lost \subseteq 1..MaxSent /\ 1..sent \subseteq 1..MaxSent
      BY <1>5 DEF TypeOK
    <3>2. CASE link = "vanished"
      <4>1. lost' = lost \cup ((1..sent) \ (seen \cup Covered(loading)))
        BY <1>8, <3>2 DEF Heartbeat
      <4> QED
        BY <3>1, <4>1
    <3>3. CASE link # "vanished"
      <4>1. lost' = lost
        BY <3>3 DEF Heartbeat
      <4> QED
        BY <3>1, <3>3, <4>1
    <3> QED
      BY <3>2, <3>3
  <2>4. TypeOK'
    BY <1>1, <1>5, <2>1, <2>3 DEF TypeOK, Times
  <2>5. RoomIsKnown' /\ LoadsFit'
    <3>1. RoomIsKnown'
      BY <1>1, <1>5, <2>1 DEF RoomIsKnown
    <3>2. loading.kind # "none" => loading.before <= sent
      BY <1>5, <2>1 DEF LoadsFit, RoomIsKnown, TypeOK, Times
    <3> QED
      BY <1>1, <1>5, <1>6, <2>1, <3>1, <3>2 DEF LoadsFit
  <2>6. ASSUME roomId, NEW n \in 1..sent PROVE Accounted(n)'
    <3>1. CASE link = "vanished"
      <4>1. n \in seen' \/ n \in lost' \/ n \in Covered(loading')
        BY <1>1, <2>3, <3>1
      <4> QED
        BY <4>1 DEF Accounted
    <3>2. CASE link = "joined"
      <4>1. Accounted(n)
        BY <1>5, <2>6 DEF AllAccounted
      <4>2. Missed(n) => Missed(n)'
        BY <1>1, <2>1, <2>6 DEF Missed
      <4>3. n \in seen \/ n \in lost \/ n \in Covered(loading) \/ n <= restored \/ Missed(n)
        BY <3>2, <4>1 DEF Accounted
      <4>4. n \in seen' \/ n \in lost' \/ n \in Covered(loading') \/ n <= restored' \/ Missed(n)'
        BY <1>1, <2>3, <4>2, <4>3
      <4> QED
        BY <4>4 DEF Accounted
    <3> QED
      BY <2>2, <2>6, <3>1, <3>2
  <2>7. AllAccounted'
    BY <1>1, <2>6 DEF AllAccounted
  <2> QED
    BY <1>3, <1>4, <1>6, <2>4, <2>5, <2>7 DEF Preserved, IInv
<1> QED
  BY <1>7, <1>8

(* What the channel does when the connection is lost, once it is known that *)
(* the messages only slide.                                                 *)
LEMMA OnDisconnectedKeeps ==
    ASSUME IInv, NEW STATE queue, OnDisconnected(queue), Queue(queue), Slid(queue, messages),
           roomId => lastConnectedAt' \in {lastConnectedAt, sent},
           ~roomId => lastConnectedAt' \in Times \cup {Never},
           lastConnectedAt' # lastConnectedAt => link = "joined" \/ ~roomId
    PROVE  Preserved
<1>1. /\ link' = "down" /\ pings' = FALSE /\ messages' = queue /\ See
      /\ drops' = drops + 1 /\ drops < MaxDrops
      /\ disconnected' = (disconnected \/ roomId)
      /\ sent' = sent /\ roomId' = roomId /\ loading' = loading /\ lost' = lost
      /\ restored' = restored
  BY DEF OnDisconnected
<1>2. OnlySlides
  BY <1>1 DEF OnlySlides
<1>3. /\ InGoodOrder' /\ SeenIsSent' /\ seen' = seen
      /\ LeavesFront(messages, messages')
      /\ messages' \in Seq(Entries) /\ Len(messages') <= Limit
      /\ Shown(messages') \subseteq Shown(messages)
      /\ NoHistory => NoHistory'
  BY <1>1, <1>2, SlidingInvariant
<1>4. /\ TypeOK /\ RoomIsKnown /\ MarkedIsLeft /\ LoadsFit /\ AllAccounted
      /\ sent \in Nat /\ sent <= MaxSent /\ MaxSent \in Nat /\ MaxDrops \in Nat
  BY HistoryAssumption DEF IInv, TypeOK, Times
<1>5. roomId => lastConnectedAt \in 0..sent /\ lastConnectedAt' \in 0..sent
               /\ lastConnectedAt <= lastConnectedAt'
  BY <1>4 DEF RoomIsKnown
<1>6. disconnected' \in BOOLEAN /\ (roomId => disconnected') /\ (~roomId => ~disconnected')
  BY <1>1, <1>4 DEF RoomIsKnown
<1>7. TypeOK'
  <2>1. lastConnectedAt' \in Times \cup {Never}
    BY <1>4, <1>5 DEF Times
  <2>2. drops' \in 0..MaxDrops
    BY <1>1, <1>4 DEF TypeOK
  <2> QED
    BY <1>1, <1>3, <1>4, <1>6, <2>1, <2>2 DEF TypeOK
<1>8. RoomIsKnown' /\ MarkedIsLeft'
  BY <1>1, <1>3, <1>4, <1>5, <1>6 DEF RoomIsKnown, MarkedIsLeft
<1>9. LoadsFit'
  <2>1. loading.kind # "none" => roomId /\ loading.before <= lastConnectedAt'
    BY <1>4, <1>5 DEF LoadsFit, RoomIsKnown, TypeOK, Times
  <2> QED
    BY <1>1, <1>3, <1>4, <2>1 DEF LoadsFit
<1>10. ASSUME roomId, NEW n \in 1..sent PROVE Accounted(n)'
  <2>1. Accounted(n)
    BY <1>4, <1>10 DEF AllAccounted
  <2>2. Missed(n) => Missed(n)'
    <3>1. \A e \in Range(messages') : IsChat(e) => e \in Range(messages)
      BY <1>2, SlidingKeeps
    <3> QED
      BY <1>1, <1>5, <1>10, <3>1 DEF Missed
  <2>3. link # "joined" /\ n > lastConnectedAt => link' # "joined" /\ n > lastConnectedAt'
    BY <1>1, <1>10
  <2>4. Covered(loading') = Covered(loading)
    BY <1>1
  <2> QED
    BY <1>1, <1>3, <2>1, <2>2, <2>3, <2>4 DEF Accounted
<1>11. AllAccounted'
  BY <1>1, <1>10 DEF AllAccounted
<1> QED
  BY <1>3, <1>7, <1>8, <1>9, <1>11 DEF Preserved, IInv

LEMMA LoseConnectionKeeps ==
    ASSUME IInv, LoseConnection
    PROVE  Preserved
<1> DEFINE queue == AddSystem(messages, "disconnected")
<1>1. OnDisconnected(queue) /\ lastConnectedAt' = lastConnectedAt
  BY DEF LoseConnection
<1>2. Queue(messages) /\ "disconnected" \in SystemKinds
  BY DEF IInv, InGoodOrder, SystemKinds
<1>3. Queue(queue) /\ Slid(queue, messages)
  BY <1>2, SystemSlides
<1>4. lastConnectedAt \in Times \cup {Never}
  BY DEF IInv, TypeOK
<1> HIDE DEF queue
<1> QED
  BY <1>1, <1>3, <1>4, OnDisconnectedKeeps

(* Two system messages, one after the other. *)
LEMMA SystemsSlide ==
    ASSUME NEW q, Queue(q), NEW first \in SystemKinds, NEW second \in SystemKinds
    PROVE  LET r == AddSystem(AddSystem(q, first), second)
           IN  Queue(r) /\ Slid(r, q)
<1> DEFINE r == AddSystem(q, first)
<1>1. Queue(r) /\ Slid(r, q)
  BY SystemSlides
<1> HIDE DEF r
<1>2. Queue(AddSystem(r, second)) /\ Slid(AddSystem(r, second), r)
  BY <1>1, SystemSlides
<1>3. Slid(AddSystem(r, second), q)
  BY <1>1, <1>2, SlidTwice
<1> QED
  BY <1>2, <1>3 DEF r

LEMMA PingTimeoutKeeps ==
    ASSUME IInv, PingTimeout
    PROVE  Preserved
<1> DEFINE queue == AddSystem(AddSystem(messages, "disconnected"), "notice")
<1>1. OnDisconnected(queue) /\ lastConnectedAt' = lastConnectedAt
  BY DEF PingTimeout
<1>2. Queue(messages) /\ "disconnected" \in SystemKinds /\ "notice" \in SystemKinds
  BY DEF IInv, InGoodOrder, SystemKinds
<1>3. Queue(queue) /\ Slid(queue, messages)
  BY <1>2, SystemsSlide
<1>4. lastConnectedAt \in Times \cup {Never}
  BY DEF IInv, TypeOK
<1> HIDE DEF queue
<1> QED
  BY <1>1, <1>3, <1>4, OnDisconnectedKeeps

LEMMA HandleReconnectKeeps ==
    ASSUME IInv, HandleReconnect
    PROVE  Preserved
<1> DEFINE queue == AddSystem(AddSystem(messages, "notice"), "disconnected")
<1>1. OnDisconnected(queue) /\ MarkConnected /\ link \in {"connected", "joined"}
  BY DEF HandleReconnect
<1>2. Queue(messages) /\ "disconnected" \in SystemKinds /\ "notice" \in SystemKinds
  BY DEF IInv, InGoodOrder, SystemKinds
<1>3. Queue(queue) /\ Slid(queue, messages)
  BY <1>2, SystemsSlide
<1>4. lastConnectedAt \in Times \cup {Never} /\ sent \in Times
  BY DEF IInv, TypeOK
<1>5. lastConnectedAt' \in {lastConnectedAt, sent}
  BY <1>1 DEF MarkConnected
<1>6. lastConnectedAt' # lastConnectedAt => link = "joined" \/ ~roomId
  BY <1>1 DEF MarkConnected, IInv, MarkedIsLeft
<1> HIDE DEF queue
<1> QED
  BY <1>1, <1>3, <1>4, <1>5, <1>6, OnDisconnectedKeeps

LEMMA LoadFailsKeeps ==
    ASSUME IInv, LoadFails
    PROVE  Preserved
<1>1. /\ loading.kind # "none" /\ loading' = NotLoading /\ See
      /\ lost' = lost \cup (Covered(loading) \ seen)
      /\ UNCHANGED <<connection, joinState, restored>>
  BY DEF LoadFails
<1>2. OnlySlides
  <2>1. Queue(messages) /\ "notice" \in SystemKinds
    BY DEF IInv, InGoodOrder, SystemKinds
  <2>2. messages' = AddSystem(messages, "notice")
    BY DEF LoadFails
  <2>3. Queue(messages') /\ Slid(messages', messages)
    BY <2>1, <2>2, SystemSlides
  <2> QED
    BY <2>3 DEF OnlySlides
<1>3. /\ InGoodOrder' /\ SeenIsSent' /\ seen' = seen
      /\ LeavesFront(messages, messages')
      /\ messages' \in Seq(Entries) /\ Len(messages') <= Limit
      /\ Shown(messages') \subseteq Shown(messages)
      /\ NoHistory => NoHistory'
  BY <1>1, <1>2, SlidingInvariant DEF connection
<1>4. /\ TypeOK /\ RoomIsKnown /\ MarkedIsLeft /\ LoadsFit /\ AllAccounted
      /\ sent \in Nat /\ sent <= MaxSent /\ MaxSent \in Nat
  BY HistoryAssumption DEF IInv, TypeOK, Times
<1>5. roomId /\ loading'.kind = "none"
  BY <1>1, <1>4 DEF RoomIsKnown, NotLoading
<1>6. Covered(loading) \subseteq 1..MaxSent
  BY <1>4, CoversSent
<1>7. TypeOK'
  <2>1. loading' \in [kind : {"none", "first", "reconnect"}, after : Times, before : Times]
    BY <1>1, <1>4 DEF NotLoading, Times
  <2>2. lost' \subseteq 1..MaxSent
    BY <1>1, <1>4, <1>6 DEF TypeOK
  <2> QED
    BY <1>1, <1>3, <1>4, <2>1, <2>2 DEF TypeOK, connection, joinState
<1>8. RoomIsKnown' /\ MarkedIsLeft' /\ LoadsFit'
  BY <1>1, <1>3, <1>4, <1>5 DEF RoomIsKnown, MarkedIsLeft, LoadsFit, connection, joinState
<1>9. ASSUME NEW n \in 1..sent PROVE Accounted(n)'
  <2>1. Accounted(n)
    BY <1>4, <1>5 DEF AllAccounted
  <2>2. Missed(n) => Missed(n)'
    <3>1. \A e \in Range(messages') : IsChat(e) => e \in Range(messages)
      BY <1>2, SlidingKeeps
    <3> QED
      BY <1>1, <1>5, <3>1 DEF Missed, joinState
  <2>3. n \in Covered(loading) => n \in seen \/ n \in lost'
    BY <1>1
  <2> QED
    BY <1>1, <1>3, <2>1, <2>2, <2>3 DEF Accounted, connection, joinState
<1>10. AllAccounted'
  BY <1>1, <1>9 DEF AllAccounted, connection, joinState
<1> QED
  BY <1>3, <1>7, <1>8, <1>10 DEF Preserved, IInv

-----------------------------------------------------------------------------
(* Steps that add chat messages *)

LEMMA PrivmsgUnseen ==
    ASSUME IInv, Privmsg, link # "joined"
    PROVE  Preserved
<1>1. /\ sent' = sent + 1 /\ sent < MaxSent /\ See
      /\ UNCHANGED <<messages, joinState, loading, link, pings, drops, lost, restored>>
  BY DEF Privmsg
<1>2. OnlySlides
  BY <1>1, UnchangedSlides
<1>3. LeavesFront(messages, messages')
  BY <1>2, SlidingKeeps
<1>4. /\ TypeOK /\ InGoodOrder /\ SeenIsSent /\ RoomIsKnown /\ MarkedIsLeft /\ LoadsFit
      /\ AllAccounted
      /\ sent \in Nat /\ sent <= MaxSent /\ MaxSent \in Nat
  BY HistoryAssumption DEF IInv, TypeOK, Times
<1>5. seen' = seen
  BY <1>1, <1>4 DEF See, SeenIsSent
<1>6. InGoodOrder' /\ SeenIsSent' /\ MarkedIsLeft' /\ (NoHistory => NoHistory')
  <2>1. 1..sent \subseteq 1..sent'
    BY <1>1, <1>4
  <2> QED
    BY <1>1, <1>4, <1>5, <2>1
    DEF InGoodOrder, SeenIsSent, MarkedIsLeft, NoHistory, joinState
<1>7. TypeOK'
  BY <1>1, <1>4, <1>5 DEF TypeOK, Times, joinState
<1>8. RoomIsKnown' /\ LoadsFit'
  BY <1>1, <1>4, <1>6 DEF RoomIsKnown, LoadsFit, joinState
<1>9. ASSUME roomId, NEW n \in 1..sent' PROVE Accounted(n)'
  <2>1. CASE n \in 1..sent
    <3>1. Accounted(n)
      BY <1>4, <1>9, <2>1 DEF AllAccounted
    <3> QED
      BY <1>1, <1>2, <1>5, <3>1, StaysAccounted DEF joinState
  <2>2. CASE n = sent + 1
    <3>1. link' # "joined" /\ n > lastConnectedAt'
      BY <1>1, <1>4, <1>9, <2>2 DEF RoomIsKnown, joinState
    <3> QED
      BY <3>1 DEF Accounted
  <2> QED
    BY <1>1, <1>4, <2>1, <2>2
<1>10. AllAccounted'
  BY <1>1, <1>9 DEF AllAccounted, joinState
<1> QED
  BY <1>3, <1>6, <1>7, <1>8, <1>10 DEF Preserved, IInv

LEMMA PrivmsgShown ==
    ASSUME IInv, Privmsg, link = "joined"
    PROVE  Preserved
<1>1. /\ sent' = sent + 1 /\ sent < MaxSent /\ See
      /\ messages' = PushBack(messages, Live(sent + 1)) /\ SetRoomId(sent + 1)
      /\ link' = link /\ pings' = pings /\ drops' = drops /\ lost' = lost
      /\ restored' = restored
  BY DEF Privmsg
<1>2. /\ TypeOK /\ InGoodOrder /\ SeenIsSent /\ RoomIsKnown /\ MarkedIsLeft /\ LoadsFit
      /\ AllAccounted
      /\ sent \in Nat /\ sent <= MaxSent /\ MaxSent \in Nat
  BY HistoryAssumption DEF IInv, TypeOK, Times
<1>3. \A e \in Range(messages) : IsChat(e) => e.n \in 1..sent
  BY <1>2, ShownIs DEF SeenIsSent
<1>4. Live(sent + 1).n = sent + 1 /\ Live(sent + 1).kind = "live" /\ IsChat(Live(sent + 1))
  BY KindsDiffer DEF Live
<1>5. /\ Queue(messages') /\ Live(sent + 1) \in Range(messages')
      /\ Range(messages') \subseteq Range(messages) \cup {Live(sent + 1)}
      /\ InOrderUpTo(messages', restored)
      /\ LeavesFront(messages, messages')
  <2>1. sent + 1 \in Nat /\ \A e \in Range(messages) : IsChat(e) => e.n < sent + 1
    BY <1>2, <1>3
  <2>2. Queue(messages) /\ InOrderUpTo(messages, restored)
    BY <1>2 DEF InGoodOrder
  <2> QED
    BY <1>1, <2>1, <2>2, LivePushed
<1>6. InGoodOrder' /\ messages' \in Seq(Entries) /\ Len(messages') <= Limit
  BY <1>1, <1>5 DEF InGoodOrder, Queue
<1>7. /\ \A e \in Range(messages') : IsChat(e) => e \in Range(messages) \/ e.n = sent + 1
      /\ NoHistory => NoHistory'
  BY <1>4, <1>5 DEF NoHistory
<1>8. sent + 1 \in Shown(messages') /\ Shown(messages') \subseteq 1..sent + 1
  BY <1>2, <1>3, <1>4, <1>5, <1>7, ShownIs
<1>9. SeenIsSent' /\ sent + 1 \in seen' /\ seen \subseteq seen' /\ seen' \subseteq 1..sent + 1
  <2>1. seen' = seen \cup Shown(messages') /\ seen \subseteq 1..sent /\ 1..sent \subseteq 1..sent + 1
    BY <1>1, <1>2 DEF See, SeenIsSent
  <2> QED
    BY <1>1, <1>8, <2>1 DEF SeenIsSent
<1>10. /\ sent' \in Times /\ seen' \subseteq 1..MaxSent
  <2>1. sent + 1 \in 0..MaxSent /\ 1..sent + 1 \subseteq 1..MaxSent
    BY <1>1, <1>2
  <2> QED
    BY <1>1, <1>9, <2>1 DEF Times
<1>11. CASE roomId
  <2>1. /\ roomId' = roomId /\ disconnected' = disconnected
        /\ lastConnectedAt' = lastConnectedAt /\ loading' = loading
    BY <1>1, <1>11 DEF SetRoomId, joinState
  <2>2. TypeOK'
    BY <1>1, <1>2, <1>6, <1>10, <2>1 DEF TypeOK
  <2>3. RoomIsKnown' /\ MarkedIsLeft' /\ LoadsFit'
    BY <1>1, <1>2, <1>7, <1>11, <2>1 DEF RoomIsKnown, MarkedIsLeft, LoadsFit
  <2>4. ASSUME NEW n \in 1..sent PROVE Accounted(n)'
    <3>1. Accounted(n)
      BY <1>2, <1>11 DEF AllAccounted
    <3>2. Missed(n) => Missed(n)'
      BY <1>2, <1>7, <2>1 DEF Missed
    <3> QED
      BY <1>1, <1>9, <2>1, <3>1, <3>2 DEF Accounted
  <2>5. AllAccounted'
    <3>1. \A n \in 1..sent' : n \in 1..sent \/ n = sent + 1
      BY <1>1, <1>2
    <3> QED
      BY <1>9, <2>4, <3>1 DEF AllAccounted, Accounted
  <2> QED
    BY <1>5, <1>6, <1>9, <2>2, <2>3, <2>5 DEF Preserved, IInv
<1>12. CASE ~roomId
  <2>1. /\ roomId' = TRUE /\ LoadRecentMessages(sent + 1)
        /\ disconnected' = FALSE /\ lastConnectedAt' = sent + 1
        /\ loading.kind = "none" /\ Shown(messages) = {} /\ NoHistory' /\ restored' = 0
    BY <1>1, <1>2, <1>7, <1>12 DEF SetRoomId, RoomIsKnown, LoadsFit
  <2>2. CASE loading' = [kind |-> "first", after |-> 0, before |-> sent + 1]
    <3>1. loading'.kind = "first" /\ loading'.after = 0 /\ loading'.before = sent + 1
      BY <2>2
    <3>2. TypeOK'
      <4>1. loading' \in [kind : {"none", "first", "reconnect"}, after : Times, before : Times]
        BY <1>1, <1>2, <2>2 DEF Times
      <4> QED
        BY <1>1, <1>2, <1>6, <1>10, <2>1, <4>1 DEF TypeOK, Times
    <3>3. RoomIsKnown' /\ MarkedIsLeft' /\ LoadsFit'
      BY <1>1, <1>2, <2>1, <3>1 DEF RoomIsKnown, MarkedIsLeft, LoadsFit
    <3>4. Covered(loading') = 0 + 1..sent + 1
      BY <3>1 DEF Covered
    <3>5. AllAccounted'
      BY <1>1, <3>4 DEF AllAccounted, Accounted
    <3> QED
      BY <1>5, <1>6, <1>9, <3>2, <3>3, <3>5 DEF Preserved, IInv
  <2>3. CASE loading' = loading
    <3>1. TypeOK'
      BY <1>1, <1>2, <1>6, <1>10, <2>1, <2>3 DEF TypeOK, Times
    <3>2. RoomIsKnown' /\ MarkedIsLeft' /\ LoadsFit'
      BY <1>1, <1>2, <2>1, <2>3 DEF RoomIsKnown, MarkedIsLeft, LoadsFit
    <3>3. \A e \in Range(messages') : IsChat(e) => e.n = sent + 1
      BY <1>7, <2>1, ShownIs
    <3>4. ASSUME NEW n \in 1..sent PROVE Missed(n)'
      BY <1>2, <2>1, <2>3, <3>3 DEF Missed
    <3>5. \A n \in 1..sent' : n \in 1..sent \/ n = sent + 1
      BY <1>1, <1>2
    <3>6. AllAccounted'
      BY <1>9, <3>4, <3>5 DEF AllAccounted, Accounted
    <3> QED
      BY <1>5, <1>6, <1>9, <3>1, <3>2, <3>6 DEF Preserved, IInv
  <2> QED
    BY <2>1, <2>2, <2>3 DEF LoadRecentMessages
<1> QED
  BY <1>11, <1>12

-----------------------------------------------------------------------------
(* A load is answered *)

LEMMA InOrderGrows ==
    ASSUME NEW q, Queue(q), NEW last \in Nat, NEW later \in Nat, last <= later,
           InOrderUpTo(q, last)
    PROVE  InOrderUpTo(q, later)
<1> SUFFICES ASSUME NEW i \in 1..Len(q), NEW j \in 1..Len(q), i < j,
                    IsChat(q[i]), IsChat(q[j])
             PROVE  Ordered(q[i], q[j], later)
  BY DEF InOrderUpTo
<1>1. Ordered(q[i], q[j], last)
  BY DEF InOrderUpTo
<1>2. q[i].n \in Nat
  BY InRange, EntryFields DEF Queue
<1> QED
  BY <1>1, <1>2 DEF Ordered

(* What slides and then loses no more than its front has lost its front.    *)
LEMMA SlidThenLeaves ==
    ASSUME NEW s, Queue(s), NEW q, Queue(q), Slid(q, s), NEW t, LeavesFront(q, t),
           \A e \in Range(t) : e.kind = "live" => e \in Range(q)
    PROVE  LeavesFront(s, t)
<1>1. PICK d \in Nat : Slides(q, s, d)
  BY DEF Slid
<1>2. /\ q \in Seq(Entries) /\ s \in Seq(Entries) /\ Len(q) \in Nat /\ Len(s) \in Nat
  BY DEF Queue
<1>3. LeavesFront(s, q)
  BY SlidKeeps
<1> SUFFICES ASSUME NEW i \in 1..Len(s), NEW j \in 1..Len(s), i < j,
                    s[i].kind = "live", s[i] \in Range(t), IsChat(s[j])
             PROVE  s[j] \in Range(t)
  BY Zenon DEF LeavesFront
<1>4. s[i] \in Range(q) /\ s[j] \in Range(q) /\ IsChat(s[i])
  BY <1>3, KindsDiffer DEF LeavesFront
<1>5. \A e \in Range(q) : \E k \in 1..Len(q) : q[k] = e
  BY <1>2 DEF Range
<1>6. PICK k \in 1..Len(q) : q[k] = s[i]
  BY <1>4, <1>5, Zenon
<1>7. PICK l \in 1..Len(q) : q[l] = s[j]
  BY <1>4, <1>5, Zenon
<1>8. k + d \in 1..Len(s) /\ s[k + d] = s[i] /\ l + d \in 1..Len(s) /\ s[l + d] = s[j]
  BY <1>1, <1>4, <1>6, <1>7, SlidFrom
<1>9. DOMAIN s = 1..Len(s) /\ Distinct(s)
  BY <1>2 DEF Queue
<1>10. k + d = i /\ l + d = j
  BY <1>8, <1>9, Zenon DEF Distinct
<1>11. k < l
  BY <1>10
<1> QED
  BY <1>6, <1>7, <1>11, Zenon DEF LeavesFront

(* What an answer does to the messages. *)
Answers(numbers) ==
    /\ Queue(messages')
    /\ restored' \in Times /\ restored <= restored'
    /\ InOrderUpTo(messages', restored')
    /\ LeavesFront(messages, messages')
    /\ \A e \in Range(messages') : IsChat(e) => e \in Range(messages) \/ e.n \in numbers
    /\ \A n \in numbers :
          \/ n \in Shown(messages) \cup Shown(messages')
          \/ n <= restored'
          \/ \A f \in Range(messages') : IsChat(f) => n < f.n

LEMMA FirstAnswers ==
    ASSUME IInv, NEW STATE queue, NEW STATE numbers, numbers \in SUBSET (1..sent),
           OnLoaded(queue, numbers),
           loading.kind = "first", Queue(queue), Slid(queue, messages)
    PROVE  Answers(numbers)
<1> DEFINE items == History(numbers)
<1>1. /\ messages' = PushFront(queue, items)
      /\ restored' = IF numbers # {} THEN Max(numbers) ELSE restored
  BY DEF OnLoaded
<1>2. /\ Queue(messages) /\ InOrderUpTo(messages, restored)
      /\ NoHistory /\ restored = 0
      /\ sent \in Nat /\ sent <= MaxSent /\ MaxSent \in Nat
  BY HistoryAssumption DEF IInv, InGoodOrder, LoadsFit, TypeOK, Times
<1>3. /\ IsHistory(items)
      /\ \A i \in 1..Len(items) : items[i].n \in numbers
  BY <1>2, HistoryIs
<1> HIDE DEF items
<1>4. /\ restored' \in Times /\ restored' \in Nat /\ restored <= restored'
      /\ \A n \in numbers : n <= restored'
  <2>1. CASE numbers = {}
    BY <1>1, <1>2, <2>1 DEF Times
  <2>2. CASE numbers # {}
    <3>1. numbers \in SUBSET (0..sent)
      BY <1>2
    <3>2. Max(numbers) \in numbers /\ \A n \in numbers : Max(numbers) >= n
      BY <1>2, <2>2, <3>1, MaxIs
    <3>3. restored' = Max(numbers)
      BY <1>1, <2>2
    <3>4. restored' \in 1..sent /\ \A n \in numbers : restored' >= n
      BY <3>2, <3>3
    <3>5. \A n \in numbers : n \in Nat
      BY <1>2
    <3> QED
      BY <1>2, <3>4, <3>5 DEF Times
  <2> QED
    BY <2>1, <2>2
<1>5. /\ \A e \in Range(queue) : IsChat(e) => e \in Range(messages)
      /\ InOrderUpTo(queue, restored)
  BY <1>2, SlidKeeps
<1>6. InOrderUpTo(queue, restored')
  BY <1>2, <1>4, <1>5, InOrderGrows
<1>7. \A e \in Range(queue) : e.kind # "history"
  BY <1>2, <1>5, KindsDiffer DEF NoHistory
<1>8. \A i \in 1..Len(items) : items[i].n <= restored'
  BY <1>3, <1>4
<1>9. /\ Queue(messages')
      /\ Range(queue) \subseteq Range(messages')
      /\ Range(messages') \subseteq Range(queue) \cup Range(items)
      /\ InOrderUpTo(messages', restored')
  <2> DEFINE r == PushFront(queue, items)
             last == restored'
  <2>1. r = messages' /\ InOrderUpTo(queue, last)
        /\ \A i \in 1..Len(items) : items[i].n <= last
    BY <1>1, <1>6, <1>8
  <2> HIDE DEF last
  <2>2. /\ Queue(r)
        /\ Range(queue) \subseteq Range(r)
        /\ Range(r) \subseteq Range(queue) \cup Range(items)
        /\ InOrderUpTo(r, last)
    BY <1>3, <1>7, <2>1, FrontPushed
  <2> QED
    BY <2>1, <2>2 DEF last
<1>10. \A e \in Range(items) : e.kind = "history" /\ e.n \in numbers
  BY <1>3, InRange DEF IsHistory
<1>11. LeavesFront(messages, messages')
  <2>1. LeavesFront(queue, messages')
    <3>1. \A j \in 1..Len(queue) : queue[j] \in Range(queue)
      BY InRange DEF Queue
    <3> QED
      BY <1>9, <3>1 DEF LeavesFront
  <2>2. \A e \in Range(messages') : e.kind = "live" => e \in Range(queue)
    BY <1>9, <1>10
  <2> QED
    BY <1>2, <2>1, <2>2, SlidThenLeaves
<1>12. \A e \in Range(messages') : IsChat(e) => e \in Range(messages) \/ e.n \in numbers
  BY <1>5, <1>9, <1>10
<1> QED
  BY <1>4, <1>9, <1>11, <1>12 DEF Answers

LEMMA ReconnectAnswers ==
    ASSUME IInv, NEW STATE queue, NEW STATE numbers, numbers \in SUBSET (1..sent),
           OnLoaded(queue, numbers),
           loading.kind # "first", Queue(queue), Slid(queue, messages)
    PROVE  Answers(numbers)
<1> DEFINE items == History(numbers)
<1>1. restored' = restored
  BY DEF OnLoaded
<1>2. /\ Queue(messages) /\ InOrderUpTo(messages, restored)
      /\ restored \in Times /\ restored \in Nat
      /\ sent \in Nat
  BY DEF IInv, InGoodOrder, TypeOK, Times
<1>3. /\ \A e \in Range(queue) : IsChat(e) => e \in Range(messages)
      /\ InOrderUpTo(queue, restored)
      /\ LeavesFront(messages, queue)
  BY <1>2, SlidKeeps
<1>4. CASE numbers = {}
  <2>1. messages' = queue
    BY <1>4 DEF OnLoaded
  <2>2. LeavesFront(messages, messages')
    BY <1>3, <2>1
  <2>3. InOrderUpTo(messages', restored')
    BY <1>1, <1>3, <2>1
  <2> QED
    BY <1>1, <1>2, <1>3, <1>4, <2>1, <2>2, <2>3 DEF Answers
<1>5. CASE numbers # {}
  <2> DEFINE t == FillInMissingMessages(queue, items)
  <2>1. messages' = t
    BY <1>5 DEF OnLoaded
  <2>2. /\ IsHistory(items)
        /\ \A i \in 1..Len(items) : items[i].n \in numbers
        /\ \A n \in numbers : \E i \in 1..Len(items) : items[i].n = n
    BY <1>2, HistoryIs
  <2> HIDE DEF items
  <2>3. FillsIn(queue, items, t, restored)
    BY <1>2, <1>3, <2>2, FilledIn
  <2> HIDE DEF t
  <2>4. \A e \in Range(items) : e.kind = "history" /\ e.n \in numbers
    BY <2>2, InRange DEF IsHistory
  <2>5. Queue(messages') /\ InOrderUpTo(messages', restored')
        /\ Range(messages') \subseteq Range(queue) \cup Range(items)
    BY <1>1, <2>1, <2>3 DEF FillsIn
  <2>6. LeavesFront(messages, messages')
    <3>1. LeavesFront(queue, t) /\ \A e \in Range(t) : e.kind = "live" => e \in Range(queue)
      BY <2>1, <2>3, <2>4, <2>5 DEF FillsIn
    <3>2. LeavesFront(messages, t)
      BY <1>2, <3>1, SlidThenLeaves
    <3> QED
      BY <2>1, <3>2
  <2>7. \A e \in Range(messages') : IsChat(e) => e \in Range(messages) \/ e.n \in numbers
    BY <1>3, <2>4, <2>5
  <2>8. ASSUME NEW n \in numbers
        PROVE  \/ n \in Shown(messages) \cup Shown(messages')
               \/ n <= restored'
               \/ \A f \in Range(messages') : IsChat(f) => n < f.n
    <3>1. Shown(queue) \subseteq Shown(messages)
      BY <1>3, ShownIs
    <3>2. PICK i \in 1..Len(items) : items[i].n = n
      BY <2>2
    <3>3. \/ n \in Shown(queue) \cup Shown(t)
          \/ n <= restored
          \/ \A f \in Range(t) : IsChat(f) => n < f.n
      BY <2>3, <3>2, Zenon DEF FillsIn
    <3> QED
      BY <1>1, <2>1, <3>1, <3>3
  <2> QED
    BY <1>1, <1>2, <2>5, <2>6, <2>7, <2>8 DEF Answers
<1> QED
  BY <1>4, <1>5

LEMMA OnLoadedKeeps ==
    ASSUME IInv, NEW STATE queue, NEW STATE numbers, numbers \in SUBSET (1..sent),
           OnLoaded(queue, numbers),
           loading.kind # "none", Queue(queue), Slid(queue, messages),
           loading.kind # "first" => numbers \subseteq Covered(loading)
    PROVE  Preserved
<1>1. /\ loading' = NotLoading /\ See
      /\ lost' = lost \cup (Covered(loading) \ (numbers \cup seen))
      /\ UNCHANGED <<connection, joinState>>
  BY DEF OnLoaded
<1>2. Answers(numbers)
  BY FirstAnswers, ReconnectAnswers
<1>3. /\ Queue(messages') /\ InOrderUpTo(messages', restored')
      /\ restored' \in Times /\ restored <= restored'
      /\ LeavesFront(messages, messages')
      /\ \A e \in Range(messages') : IsChat(e) => e \in Range(messages) \/ e.n \in numbers
      /\ \A n \in numbers :
            \/ n \in Shown(messages) \cup Shown(messages')
            \/ n <= restored'
            \/ \A f \in Range(messages') : IsChat(f) => n < f.n
  BY <1>2, Zenon DEF Answers
<1>4. /\ TypeOK /\ SeenIsSent /\ RoomIsKnown /\ MarkedIsLeft /\ LoadsFit /\ AllAccounted
      /\ sent \in Nat /\ sent <= MaxSent /\ MaxSent \in Nat /\ restored \in Nat
  BY HistoryAssumption DEF IInv, TypeOK, Times
<1>5. roomId /\ loading'.kind = "none" /\ lastConnectedAt \in 0..sent
  BY <1>1, <1>4 DEF RoomIsKnown, NotLoading
<1>6. InGoodOrder' /\ messages' \in Seq(Entries) /\ Len(messages') <= Limit
  BY <1>3 DEF InGoodOrder, Queue
<1>7. /\ SeenIsSent' /\ seen \subseteq seen' /\ Shown(messages') \subseteq seen'
      /\ Shown(messages) \subseteq seen /\ seen' \subseteq 1..sent
  <2>1. Shown(messages') \subseteq Shown(messages) \cup numbers
    BY <1>3, ShownIs
  <2>2. seen' = seen \cup Shown(messages')
    BY <1>1 DEF See
  <2>3. seen' \subseteq 1..sent
    BY <1>4, <2>1, <2>2 DEF SeenIsSent
  <2> QED
    BY <1>1, <1>4, <2>2, <2>3 DEF SeenIsSent, connection
<1>8. TypeOK'
  <2>1. loading' \in [kind : {"none", "first", "reconnect"}, after : Times, before : Times]
    BY <1>1, <1>4 DEF NotLoading, Times
  <2>2. lost' \subseteq 1..MaxSent
    <3>1. Covered(loading) \subseteq 1..MaxSent /\ lost \subseteq 1..MaxSent
      BY <1>4, CoversSent DEF TypeOK
    <3> QED
      BY <1>1, <3>1
  <2>3. seen' \subseteq 1..MaxSent
    BY <1>4, <1>7
  <2> QED
    BY <1>1, <1>3, <1>4, <1>6, <2>1, <2>2, <2>3 DEF TypeOK, connection, joinState
<1>9. RoomIsKnown' /\ MarkedIsLeft' /\ LoadsFit'
  BY <1>1, <1>4, <1>5 DEF RoomIsKnown, MarkedIsLeft, LoadsFit, connection, joinState
<1>10. Covered(loading) = loading.after + 1..loading.before /\ loading.after \in Nat
       /\ loading.before \in Nat /\ loading.before <= lastConnectedAt
       /\ (loading.kind = "first" => loading.after = 0)
  BY <1>4 DEF Covered, LoadsFit, TypeOK, Times
<1>11. ASSUME NEW n \in 1..sent PROVE Accounted(n)'
  <2>1. Accounted(n)
    BY <1>4, <1>5 DEF AllAccounted
  <2>2. CASE n \in seen \/ n \in lost
    BY <1>1, <1>7, <2>2 DEF Accounted
  <2>3. CASE link # "joined" /\ n > lastConnectedAt
    BY <1>1, <2>3 DEF Accounted, connection, joinState
  <2>4. CASE n <= restored
    <3>1. n <= restored'
      BY <1>3, <1>4, <2>4 DEF Times
    <3> QED
      BY <3>1 DEF Accounted
  <2>5. CASE Missed(n)
    <3>1. n <= lastConnectedAt /\ n <= loading.after
          /\ \A e \in Range(messages) : IsChat(e) => n < e.n
      BY <2>5 DEF Missed
    <3>2. \A k \in numbers : n < k
      <4>1. loading.kind # "first"
        BY <1>10, <3>1
      <4>2. numbers \subseteq loading.after + 1..loading.before
        BY <1>10, <4>1
      <4> QED
        BY <1>10, <3>1, <4>2
    <3>3. \A e \in Range(messages') : IsChat(e) => n < e.n
      BY <1>3, <3>1, <3>2
    <3>4. Missed(n)'
      BY <1>1, <1>5, <3>1, <3>3 DEF Missed, joinState
    <3> QED
      BY <3>4 DEF Accounted
  <2>6. CASE n \in Covered(loading)
    <3>1. CASE n \in numbers
      <4>1. CASE n \in seen' \/ n <= restored'
        BY <4>1 DEF Accounted
      <4>2. CASE \A f \in Range(messages') : IsChat(f) => n < f.n
        <5>1. n <= lastConnectedAt
          BY <1>5, <1>10, <2>6
        <5>2. Missed(n)'
          BY <1>1, <1>5, <4>2, <5>1 DEF Missed, joinState
        <5> QED
          BY <5>2 DEF Accounted
      <4>3. n \in Shown(messages) \cup Shown(messages') => n \in seen'
        BY <1>7
      <4> QED
        BY <1>3, <3>1, <4>1, <4>2, <4>3
    <3>2. CASE n \notin numbers
      <4>1. n \in seen' \/ n \in lost'
        BY <1>1, <1>7, <2>6, <3>2
      <4> QED
        BY <4>1 DEF Accounted
    <3> QED
      BY <3>1, <3>2
  <2> QED
    BY <2>1, <2>2, <2>3, <2>4, <2>5, <2>6 DEF Accounted
<1>12. AllAccounted'
  BY <1>1, <1>11 DEF AllAccounted, connection, joinState
<1> QED
  BY <1>3, <1>6, <1>7, <1>8, <1>9, <1>12 DEF Preserved, IInv

LEMMA LoadSucceedsKeeps ==
    ASSUME IInv, LoadSucceeds
    PROVE  Preserved
<1>1. PICK now \in loading.before..sent :
          \/ OnLoaded(messages, Newest(Asked(loading, now)))
          \/ \E kept \in SUBSET Newest(Asked(loading, now)) \ {{}} :
                 OnLoaded(AddSystem(messages, "notice"), kept)
  BY Zenon DEF LoadSucceeds
<1>2. loading.kind # "none"
  BY DEF LoadSucceeds
<1>3. /\ roomId /\ lastConnectedAt \in 0..sent /\ sent \in Nat
      /\ loading.after \in Nat /\ loading.before \in Nat /\ loading.before <= lastConnectedAt
  BY <1>2 DEF IInv, RoomIsKnown, LoadsFit, TypeOK, Times
<1> DEFINE answer == Newest(Asked(loading, now))
<1>4. answer \subseteq Asked(loading, now)
  BY DEF Newest
<1>5. Asked(loading, now) \subseteq 1..sent
  BY <1>3 DEF Asked
<1>6. loading.kind # "first" => Asked(loading, now) = Covered(loading)
  BY <1>2 DEF Asked, Covered
<1> HIDE DEF answer
<1>7. CASE OnLoaded(messages, answer)
  <2>1. Queue(messages) /\ Slid(messages, messages)
    BY SlidItself
  <2>2. answer \in SUBSET (1..sent) /\ (loading.kind # "first" => answer \subseteq Covered(loading))
    BY <1>4, <1>5, <1>6
  <2> QED
    BY <1>2, <1>7, <2>1, <2>2, OnLoadedKeeps
<1>8. ASSUME NEW kept \in SUBSET answer, OnLoaded(AddSystem(messages, "notice"), kept)
      PROVE  Preserved
  <2> DEFINE queue == AddSystem(messages, "notice")
  <2>1. Queue(messages) /\ "notice" \in SystemKinds
    BY DEF IInv, InGoodOrder, SystemKinds
  <2>2. Queue(queue) /\ Slid(queue, messages)
    BY <2>1, SystemSlides
  <2>3. kept \in SUBSET (1..sent) /\ (loading.kind # "first" => kept \subseteq Covered(loading))
    BY <1>4, <1>5, <1>6
  <2>4. OnLoaded(queue, kept)
    BY <1>8
  <2> HIDE DEF queue
  <2> QED
    BY <1>2, <2>2, <2>3, <2>4, OnLoadedKeeps
<1> QED
  BY <1>1, <1>7, <1>8 DEF answer

-----------------------------------------------------------------------------
(* The invariant, and what follows *)

LEMMA InitInv == Init => IInv
<1> SUFFICES ASSUME Init PROVE IInv
  OBVIOUS
<1>1. messages = <<>> /\ restored = 0 /\ roomId = FALSE /\ disconnected = FALSE
      /\ loading = NotLoading /\ seen = {} /\ lost = {} /\ sent \in Times /\ link = "down"
      /\ pings = FALSE /\ drops = 0 /\ lastConnectedAt = Never
  BY DEF Init
<1>2. messages \in Seq(Entries) /\ Len(messages) = 0 /\ Range(messages) = {}
  BY <1>1 DEF Range
<1>3. Len(messages) <= Limit
  BY <1>2, LimitAssumption
<1>4. TypeOK
  <2>1. loading \in [kind : {"none", "first", "reconnect"}, after : Times, before : Times]
    BY <1>1, HistoryAssumption DEF NotLoading, Times
  <2>2. drops \in 0..MaxDrops /\ restored \in Times
    BY <1>1, HistoryAssumption DEF Times
  <2>3. seen \subseteq 1..MaxSent /\ lost \subseteq 1..MaxSent
    BY <1>1
  <2> QED
    BY <1>1, <1>2, <1>3, <2>1, <2>2, <2>3 DEF TypeOK
<1>5. InGoodOrder
  BY <1>1, <1>2, <1>3 DEF InGoodOrder, Queue, Distinct, InOrderUpTo
<1>6. Shown(messages) = {}
  BY <1>2, ShownIs
<1>7. SeenIsSent /\ AllAccounted /\ MarkedIsLeft
  BY <1>1, <1>6 DEF SeenIsSent, AllAccounted, MarkedIsLeft
<1>8. RoomIsKnown /\ LoadsFit
  BY <1>1, <1>2, <1>6 DEF RoomIsKnown, LoadsFit, NoHistory, NotLoading
<1> QED
  BY <1>4, <1>5, <1>7, <1>8 DEF IInv

LEMMA StutteringKeeps ==
    ASSUME IInv, UNCHANGED vars
    PROVE  Preserved
<1>1. UNCHANGED <<sent, link, pings, drops, messages, roomId, disconnected, lastConnectedAt,
                  loading, seen, lost, restored>>
  BY DEF vars, connection, joinState
<1>2. OnlySlides
  BY <1>1, UnchangedSlides
<1>3. LeavesFront(messages, messages')
  BY <1>2, SlidingKeeps
<1>4. TypeOK' /\ InGoodOrder' /\ SeenIsSent' /\ RoomIsKnown' /\ MarkedIsLeft'
  BY <1>1 DEF IInv, TypeOK, InGoodOrder, SeenIsSent, RoomIsKnown, MarkedIsLeft
<1>5. LoadsFit'
  BY <1>1 DEF IInv, LoadsFit, NoHistory
<1>6. AllAccounted'
  <2>1. \A n : Accounted(n) => Accounted(n)'
    BY <1>1, <1>2, StaysAccounted
  <2> QED
    BY <1>1, <2>1 DEF IInv, AllAccounted
<1> QED
  BY <1>3, <1>4, <1>5, <1>6 DEF Preserved, IInv

LEMMA StepKeeps ==
    ASSUME IInv, [Next]_vars
    PROVE  Preserved
<1>1. CASE Privmsg
  BY <1>1, PrivmsgUnseen, PrivmsgShown
<1>2. CASE OnReadConnected
  BY <1>2, OnReadConnectedKeeps
<1>3. CASE HandleJoin
  BY <1>3, HandleJoinKeeps
<1>4. CASE HandleRoomState
  BY <1>4, HandleRoomStateKeeps
<1>5. CASE PeerVanishes
  BY <1>5, PeerVanishesKeeps
<1>6. CASE Heartbeat
  BY <1>6, HeartbeatKeeps
<1>7. CASE LoseConnection
  BY <1>7, LoseConnectionKeeps
<1>8. CASE PingTimeout
  BY <1>8, PingTimeoutKeeps
<1>9. CASE HandleReconnect
  BY <1>9, HandleReconnectKeeps
<1>10. CASE LoadSucceeds
  BY <1>10, LoadSucceedsKeeps
<1>11. CASE LoadFails
  BY <1>11, LoadFailsKeeps
<1>12. CASE UNCHANGED vars
  BY <1>12, StutteringKeeps
<1> QED
  BY <1>1, <1>2, <1>3, <1>4, <1>5, <1>6, <1>7, <1>8, <1>9, <1>10, <1>11, <1>12 DEF Next

LEMMA Invariance == Spec => []IInv
<1>1. Init => IInv
  BY InitInv
<1>2. IInv /\ [Next]_vars => IInv'
  BY StepKeeps DEF Preserved
<1> QED
  BY <1>1, <1>2, PTL DEF Spec

(* Every variable keeps its type, and the messages never exceed the limit   *)
(* (TwitchChannel, Channel, LimitedQueue).                                  *)
THEOREM TypeCorrect == Spec => []TypeOK
<1>1. IInv => TypeOK
  BY DEF IInv
<1> QED
  BY <1>1, Invariance, PTL

(* However messages arrive, are loaded and are filled in, they are shown in *)
(* the order they were sent, each once, but for the live ones that arrived  *)
(* before the first load was answered (addMessagesAtStart,                  *)
(* fillInMissingMessages).                                                  *)
THEOREM MessagesInOrder == Spec => []InOrder
<1>1. ASSUME IInv PROVE InOrder
  <2>1. Queue(messages) /\ InOrderUpTo(messages, restored)
    BY <1>1 DEF IInv, InGoodOrder
  <2>2. DOMAIN messages = 1..Len(messages)
    BY <2>1 DEF Queue
  <2> SUFFICES ASSUME NEW i \in DOMAIN messages, NEW j \in DOMAIN messages, i < j,
                      IsChat(messages[i]), IsChat(messages[j])
               PROVE  Ordered(messages[i], messages[j], restored)
    BY Zenon DEF InOrder, Ordered
  <2> QED
    BY <2>1, <2>2, Zenon DEF InOrderUpTo
<1> QED
  BY <1>1, Invariance, PTL

(* The topmost chat message is one. *)
LEMMA TopIs ==
    ASSUME IInv, Shown(messages) # {}
    PROVE  LET top == CHOOSE i \in DOMAIN messages :
                          IsChat(messages[i]) /\ \A j \in 1..i - 1 : ~IsChat(messages[j])
           IN  messages[top] \in Range(messages) /\ IsChat(messages[top])
<1> DEFINE T == {i \in 1..Len(messages) : IsChat(messages[i])}
<1>1. messages \in Seq(Entries) /\ DOMAIN messages = 1..Len(messages) /\ Len(messages) \in Nat
  BY DEF IInv, TypeOK
<1>2. PICK e \in Range(messages) : IsChat(e)
  BY ShownIs
<1>3. T \in SUBSET Nat /\ T # {}
  BY <1>1, <1>2, InRange
<1>4. PICK i \in T : \A m \in T : i <= m
  BY <1>3, Smallest, Zenon
<1>5. i \in 1..Len(messages) /\ IsChat(messages[i])
  BY <1>4
<1>6. \A j \in 1..i - 1 : ~IsChat(messages[j])
  <2>1. \A j \in 1..i - 1 : j \in 1..Len(messages) /\ ~(i <= j)
    BY <1>1, <1>5
  <2> QED
    BY <1>4, <2>1
<1>7. \E k \in DOMAIN messages :
         IsChat(messages[k]) /\ \A j \in 1..k - 1 : ~IsChat(messages[j])
  BY <1>1, <1>5, <1>6, Zenon
<1> DEFINE top == CHOOSE k \in DOMAIN messages :
                      IsChat(messages[k]) /\ \A j \in 1..k - 1 : ~IsChat(messages[j])
<1>8. top \in DOMAIN messages /\ IsChat(messages[top])
  BY <1>7, Zenon
<1> HIDE DEF top
<1>9. messages[top] \in Range(messages)
  BY <1>1, <1>8, InRange
<1> QED
  BY <1>8, <1>9 DEF top

(* Whatever was sent after the topmost message is or was shown, will be     *)
(* asked for, or was given up where the code gives it up: no drop of the    *)
(* connection, heartbeat, skipped or failed load loses a message otherwise  *)
(* (loadRecentMessagesReconnect, markConnected, markDisconnected).          *)
THEOREM NothingIsMissed == Spec => []NothingUnseen
<1>1. ASSUME IInv PROVE NothingUnseen
  <2> DEFINE top == CHOOSE i \in DOMAIN messages :
                        IsChat(messages[i]) /\ \A j \in 1..i - 1 : ~IsChat(messages[j])
             e == messages[top]
  <2> SUFFICES ASSUME Shown(messages) # {}, NEW n \in Max({e.n, restored}) + 1..sent
               PROVE  \/ n \in seen \cup lost \cup Covered(loading)
                      \/ link # "joined" /\ n > lastConnectedAt
    BY Zenon DEF NothingUnseen
  <2>1. e \in Range(messages) /\ IsChat(e)
    BY <1>1, TopIs
  <2> HIDE DEF e
  <2>2. /\ roomId /\ sent \in Nat /\ restored \in Nat /\ restored <= MaxSent /\ MaxSent \in Nat
        /\ seen \subseteq 1..MaxSent /\ Shown(messages) \subseteq seen
    BY <1>1, HistoryAssumption DEF IInv, RoomIsKnown, SeenIsSent, TypeOK, Times
  <2>3. e.n \in 1..MaxSent
    BY <2>1, <2>2, ShownIs
  <2>4. Max({e.n, restored}) \in Nat /\ Max({e.n, restored}) >= e.n
        /\ Max({e.n, restored}) >= restored
    <3>1. {e.n, restored} \in SUBSET (0..MaxSent) /\ {e.n, restored} # {}
      BY <2>2, <2>3
    <3>2. /\ Max({e.n, restored}) \in {e.n, restored}
          /\ \A m \in {e.n, restored} : Max({e.n, restored}) >= m
      BY <2>2, <3>1, MaxIs
    <3> QED
      BY <2>2, <2>3, <3>2
  <2>5. n \in 1..sent /\ n > e.n /\ n > restored
    BY <2>2, <2>3, <2>4
  <2>6. Accounted(n)
    BY <1>1, <2>2, <2>5 DEF IInv, AllAccounted
  <2>7. ~Missed(n)
    BY <2>1, <2>3, <2>5 DEF Missed
  <2>8. ~(n <= restored)
    BY <2>2, <2>5
  <2> QED
    BY <2>6, <2>7, <2>8 DEF Accounted
<1> QED
  BY <1>1, Invariance, PTL

(* No step takes a chat message out of the middle: whatever it adds and     *)
(* wherever, none below a live message that stays is gone (LimitedQueue).   *)
THEOREM FrontLeavesFirst == Spec => LeavesAtTheFront
<1> DEFINE FromTheFront ==
        \A i, j \in DOMAIN messages :
            /\ i < j /\ messages[i].kind = "live" /\ messages[i] \in Range(messages')
            => messages[j] \in Range(messages') \/ ~IsChat(messages[j])
<1>1. ASSUME IInv, [Next]_vars PROVE FromTheFront
  <2>1. LeavesFront(messages, messages')
    BY <1>1, StepKeeps DEF Preserved
  <2>2. DOMAIN messages = 1..Len(messages)
    BY <1>1 DEF IInv, TypeOK
  <2> QED
    BY <2>1, <2>2, Zenon DEF LeavesFront
<1>2. IInv /\ [Next]_vars => [FromTheFront]_vars
  BY <1>1
<1> QED
  BY <1>2, Invariance, PTL DEF Spec, LeavesAtTheFront
=============================================================================
