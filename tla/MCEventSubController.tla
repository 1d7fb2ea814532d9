------------------------- MODULE MCEventSubController -------------------------
(* Instances of EventSubController for TLC. *)
EXTENDS EventSubController, TLC

CONSTANTS r1, r2, r3, u1, u2, s1, s2

TwoUsers == r1 :> u1 @@ r2 :> u2
ThreeRequests == r1 :> u1 @@ r2 :> u1 @@ r3 :> u2

OneHandle == [r \in Requests |-> 1]
TwoHandlesOfOne == [r \in Requests |-> IF r = r1 THEN 2 ELSE 1]

(* Session slots are interchangeable: the order that matters is that of    *)
(* the list "connections".                                                 *)
SessionSymmetry == Permutations(Sessions)
=============================================================================
