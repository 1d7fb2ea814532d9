----------------------------- MODULE MCLiveUpdates -----------------------------
(***************************************************************************)
(* TLC instances of LiveUpdates.                                           *)
(***************************************************************************)
EXTENDS LiveUpdates, TLC

CONSTANTS user, channel, u, create, delete, c1, c2, c3, c4

(* A 7TV user has one subscription, a Twitch channel several. *)
Topic == user :> {u} @@ channel :> {create, delete}

(* Clients, and the subscriptions of a channel, are interchangeable. *)
Symmetry == Permutations(Clients) \cup Permutations({create, delete})
=============================================================================
