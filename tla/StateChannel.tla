---------------------------- MODULE StateChannel ----------------------------
(***************************************************************************)
(* What a Codex WebSocket promises about the messages put on its outbox,   *)
(* whatever queue carries them.  Messages are numbered in the order they   *)
(* are put; log[n] is the coalesce key of message n, NoKey for an ordered  *)
(* event (an acknowledgement, an error, an approval, a user-input request).*)
(* got is the set of messages the client has received, as themselves or    *)
(* folded into a later state of the same key.                              *)
(***************************************************************************)
EXTENDS Integers, Sequences

CONSTANTS
  Keys,      \* the coalesce keys: pairs of a state type and a thread
  NoKey      \* the key of an ordered event, not one of Keys

VARIABLES log, got

channelVars == <<log, got>>

\* Two messages whose order the client may rely on.
Related(n, m) == log[n] = NoKey \/ log[m] = NoKey \/ log[n] = log[m]

\* The connection opens with an ordered event, connection_ready.
ChannelInit == log = <<NoKey>> /\ got = {}

Accept(k) ==
  /\ log' = Append(log, k)
  /\ UNCHANGED got

(***************************************************************************)
(* One frame: messages of one key, delivered once, and nothing they are    *)
(* ordered after is left behind.                                           *)
(***************************************************************************)
Deliver(S) ==
  /\ S # {} /\ S \cap got = {}
  /\ \A n, m \in S : log[n] = log[m]
  /\ \A n \in S : \A m \in 1 .. n - 1 : Related(n, m) => m \in got \cup S
  /\ got' = got \cup S
  /\ UNCHANGED log

ChannelNext ==
  \/ \E k \in Keys \cup {NoKey} : Accept(k)
  \/ \E S \in SUBSET (1 .. Len(log)) : Deliver(S)

ChannelSpec == ChannelInit /\ [][ChannelNext]_channelVars
=============================================================================
