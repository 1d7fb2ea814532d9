----------------------------- MODULE LimitedQueue -----------------------------
(***************************************************************************)
(* chatterino::LimitedQueue, the ring buffer that holds the messages of a  *)
(* channel: what each of its operations makes of the items it holds, as    *)
(* operators on sequences.  A full boost::circular_buffer gives up its     *)
(* first item for a new one, and takes none in front of all others.        *)
(***************************************************************************)
EXTENDS Naturals, Sequences, SequencesExt

CONSTANT Limit   \* limit_

ASSUME LimitAssumption == Limit \in Nat \ {0}

IsFull(q) == Len(q) = Limit

(* Mutant: a full buffer gives up its last item (rinsert). *)
InsertAtTheExpenseOfTheLast(q, i, item) ==
    LET all == SubSeq(q, 1, i - 1) \o <<item>> \o SubSeq(q, i, Len(q))
    IN  IF IsFull(q) THEN SubSeq(all, 1, Limit) ELSE all

(* circular_buffer::insert, of an item that becomes the i-th of q. *)
Insert(q, i, item) ==
    IF ~IsFull(q) THEN SubSeq(q, 1, i - 1) \o <<item>> \o SubSeq(q, i, Len(q))
    ELSE IF i = 1 THEN q
    ELSE SubSeq(q, 2, i - 1) \o <<item>> \o SubSeq(q, i, Len(q))

(* Mutant: the buffer grows. *)
PushBackUnlimited(q, item) == Append(q, item)

(* pushBack *)
PushBack(q, item) == Insert(q, Len(q) + 1, item)

(* pushFront: the last of the items, as many as there is space for. *)
PushFront(q, items) ==
    LET space == Limit - Len(q)
        skipped == IF Len(items) > space THEN Len(items) - space ELSE 0
    IN  SubSeq(items, skipped + 1, Len(items)) \o q

Position(q, needle) == SelectInSeq(q, LAMBDA item : item = needle)

(* replaceItem: no change where the needle is not found. *)
ReplaceItem(q, needle, item) ==
    IF needle \in Range(q) THEN [q EXCEPT ![Position(q, needle)] = item] ELSE q

(* insertBefore, insertAfter *)
InsertBefore(q, needle, item) ==
    IF needle \in Range(q) THEN Insert(q, Position(q, needle), item) ELSE q

InsertAfter(q, needle, item) ==
    IF needle \in Range(q) THEN Insert(q, Position(q, needle) + 1, item) ELSE q
=============================================================================
