----------------------------- MODULE MCTurnSync -----------------------------
(***************************************************************************)
(* Two turns of which one item streams, with room for two deltas to wait:  *)
(* enough for a patch to be composed with a full turn or a patch, for a    *)
(* turn to end as the next one starts, and for a stale cache.              *)
(***************************************************************************)
EXTENDS TurnSync
=============================================================================
