--------------------------- MODULE ComponentsProofs ---------------------------
(***************************************************************************)
(* The components that MCComponents checks side by side: a step of them    *)
(* all is a step of one, and the others rest.                              *)
(***************************************************************************)
EXTENDS MCComponents, TLAPS

all == <<part, tunnel, daemon, models, settings, remote, events, recognition, weixin>>

LEMMA OthersRest ==
  ASSUME [Next]_all
  PROVE  /\ [Tunnel!Next]_tunnel /\ [Daemon!Next]_daemon /\ [Models!Next]_models
         /\ [Settings!Next]_settings /\ [Remote!Next]_remote /\ [Events!Next]_events
         /\ [Recognition!Next]_recognition /\ [Weixin!Next]_weixin
BY DEF Next, Own, all

\* A behaviour of them all is one of each.
THEOREM EachAlone ==
  Spec =>
    /\ Tunnel!Init /\ [][Tunnel!Next]_tunnel /\ Daemon!Init /\ [][Daemon!Next]_daemon
    /\ Models!Init /\ [][Models!Next]_models /\ Settings!Init /\ [][Settings!Next]_settings
    /\ Remote!Init /\ [][Remote!Next]_remote /\ Events!Init /\ [][Events!Next]_events
    /\ Recognition!Init /\ [][Recognition!Next]_recognition
    /\ Weixin!Init /\ [][Weixin!Next]_weixin
<1>1. Init => /\ Tunnel!Init /\ Daemon!Init /\ Models!Init /\ Settings!Init
              /\ Remote!Init /\ Events!Init /\ Recognition!Init /\ Weixin!Init
  BY DEF Init
<1>2. [Next]_all => 
         /\ [Tunnel!Next]_tunnel /\ [Daemon!Next]_daemon /\ [Models!Next]_models
         /\ [Settings!Next]_settings /\ [Remote!Next]_remote /\ [Events!Next]_events
         /\ [Recognition!Next]_recognition /\ [Weixin!Next]_weixin
  BY OthersRest
<1> QED
  BY <1>1, <1>2, PTL DEF Spec, all
=============================================================================
