------------------------- MODULE MCRatelimitBucket -------------------------
(***************************************************************************)
(* TLC instance of RatelimitBucket.                                        *)
(***************************************************************************)
EXTENDS RatelimitBucket

CONSTANTS i1, i2

(* Two names, so that the same channel is also sent twice. *)
TwoItems == {i1, i2}
=============================================================================
