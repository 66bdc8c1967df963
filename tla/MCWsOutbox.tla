----------------------------- MODULE MCWsOutbox -----------------------------
(***************************************************************************)
(* The keys of one connection that follows thread t1 in full and thread t2 *)
(* by turn deltas.  Five messages beyond connection_ready are enough for a *)
(* folded entry, a barrier, state behind it and a second barrier, while a  *)
(* message popped earlier waits for the loop.                              *)
(***************************************************************************)
EXTENDS WsOutbox

MCKeys ==
  { <<"thread_snapshot", "t1">>, <<"thread_state", "t1">>, <<"thread_state_delta", "t2">> }
=============================================================================
