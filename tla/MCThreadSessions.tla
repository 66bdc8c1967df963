-------------------------- MODULE MCThreadSessions --------------------------
(***************************************************************************)
(* Small instances of ThreadSessions.  Connections, requests and session   *)
(* objects are interchangeable.                                            *)
(***************************************************************************)
EXTENDS ThreadSessions, TLC

MCSymmetry == Permutations(Conns) \cup Permutations(Requests) \cup Permutations(Sessions)
=============================================================================
