---------------------------- MODULE SettingsProofs ----------------------------
(***************************************************************************)
(* The settings file, for any hosts, projects and threads, and for         *)
(* connections of any number.  The ids that loading gives are a recursive  *)
(* function of the list: what it computes is proved by induction, which is *)
(* done on sets, from the fact that < is well-founded on Nat.              *)
(***************************************************************************)
EXTENDS ServerProofs, WellFoundedInduction
-----------------------------------------------------------------------------
(***************************************************************************)
(* Induction.                                                              *)
(***************************************************************************)
LEMMA NatMinimum ==
  ASSUME NEW T, T \subseteq Nat, T # {}
  PROVE  \E x \in T : \A y \in T : x <= y
<1>1. PICK R : R = OpToRel(<, Nat)
  OBVIOUS
<1>2. IsWellFoundedOn(R, Nat)
  BY <1>1, NatLessThanWellFounded
<1>3. PICK x \in T : \A y \in T : <<y, x>> \notin R
  BY <1>2, WFMin
<1>4. \A y \in Nat, z \in Nat : y < z => <<y, z>> \in R
  BY <1>1 DEF OpToRel
<1>5. \A y \in T : ~(y < x)
  BY <1>3, <1>4
<1>6. \A y \in T : y \in Nat /\ x \in Nat
  OBVIOUS
<1>7. \A y \in T : x <= y
  BY <1>5, <1>6
<1> QED
  BY <1>7

LEMMA SetInduction ==
  ASSUME NEW S, 0 \in S, \A n \in Nat : n \in S => n + 1 \in S
  PROVE  Nat \subseteq S
<1> DEFINE T == Nat \ S
<1>1. SUFFICES ASSUME T # {} PROVE FALSE
  OBVIOUS
<1>2. PICK x \in T : \A y \in T : x <= y
  BY <1>1, NatMinimum
<1>3. x \in Nat /\ x # 0
  BY <1>2
<1>4. x - 1 \in Nat /\ x - 1 \notin T
  BY <1>2, <1>3
<1> QED
  BY <1>2, <1>3, <1>4
-----------------------------------------------------------------------------
(***************************************************************************)
(* The ids that NormalizeConnections gives.                                *)
(***************************************************************************)
Connections == Seq(Settings!Connection)

GivenId(conns, ids, i) ==
  IF conns[i].id \in {ids[j] : j \in 1 .. i - 1} \cup {NoId} THEN conns[i].host
  ELSE conns[i].id

LEMMA IdsExist ==
  ASSUME NEW conns, NEW n \in Nat
  PROVE  \E ids : ids = [i \in 1 .. n |-> GivenId(conns, ids, i)]
<1> DEFINE S == {m \in Nat : \E ids : \A i \in 1 .. m : ids[i] = GivenId(conns, ids, i)}
<1>1. 0 \in S
  OBVIOUS
<1>2. ASSUME NEW m \in Nat, m \in S PROVE m + 1 \in S
  <2>1. PICK ids : \A i \in 1 .. m : ids[i] = GivenId(conns, ids, i)
    BY <1>2
  <2>2. PICK more : more = [i \in 1 .. m + 1 |->
                              IF i <= m THEN ids[i] ELSE GivenId(conns, ids, m + 1)]
    OBVIOUS
  <2>3. ASSUME NEW i \in 1 .. m + 1 PROVE more[i] = GivenId(conns, more, i)
    <3>1. \A j \in 1 .. i - 1 : more[j] = ids[j]
      BY <2>2
    <3>2. GivenId(conns, more, i) = GivenId(conns, ids, i)
      BY <3>1 DEF GivenId
    <3>3. more[i] = GivenId(conns, ids, i)
      <4>1. CASE i <= m
        BY <2>1, <2>2, <4>1
      <4>2. CASE i = m + 1
        BY <2>2, <4>2
      <4> QED
        BY <4>1, <4>2
    <3> QED
      BY <3>2, <3>3
  <2> QED
    BY <2>3
<1>3. n \in S
  <2> HIDE DEF S
  <2> QED
    BY <1>1, <1>2, SetInduction
<1>4. PICK ids : \A i \in 1 .. n : ids[i] = GivenId(conns, ids, i)
  BY <1>3
<1>5. PICK all_ids : all_ids = [i \in 1 .. n |-> ids[i]]
  OBVIOUS
<1>6. ASSUME NEW i \in 1 .. n PROVE GivenId(conns, all_ids, i) = GivenId(conns, ids, i)
  <2>1. \A j \in 1 .. i - 1 : all_ids[j] = ids[j]
    BY <1>5
  <2> QED
    BY <2>1 DEF GivenId
<1>7. all_ids = [i \in 1 .. n |-> GivenId(conns, all_ids, i)]
  BY <1>4, <1>5, <1>6
<1> QED
  BY <1>7

LEMMA NormalizeIs ==
  ASSUME NEW conns \in Connections
  PROVE  LET N == Settings!NormalizeConnections(conns) IN
         /\ N \in Connections /\ Len(N) = Len(conns)
         /\ \A i \in 1 .. Len(conns) :
              /\ N[i].host = conns[i].host /\ N[i].auto = conns[i].auto
              /\ N[i].id = IF conns[i].id \in {N[j].id : j \in 1 .. i - 1} \cup {NoId}
                           THEN conns[i].host ELSE conns[i].id
<1> DEFINE n == Len(conns)
           ids == CHOOSE f : f = [i \in DOMAIN conns |-> GivenId(conns, f, i)]
<1>1. n \in Nat /\ DOMAIN conns = 1 .. n /\ \A i \in 1 .. n : conns[i] \in Settings!Connection
  BY DEF Connections
<1>2. ids = [i \in DOMAIN conns |-> GivenId(conns, ids, i)]
  BY <1>1, IdsExist
<1>3. Settings!NormalizeConnections(conns) = [i \in DOMAIN conns |-> [conns[i] EXCEPT !.id = ids[i]]]
  BY DEF Settings!NormalizeConnections, GivenId
<1> HIDE DEF ids
<1>4. PICK N : N = Settings!NormalizeConnections(conns)
  OBVIOUS
<1>5. /\ N = [i \in 1 .. n |-> [conns[i] EXCEPT !.id = ids[i]]]
      /\ \A i \in 1 .. n : ids[i] = GivenId(conns, ids, i)
  BY <1>1, <1>2, <1>3, <1>4
<1>6. ASSUME NEW i \in 1 .. n
      PROVE  /\ conns[i].host \in Hosts /\ conns[i].id \in Hosts \cup {NoId}
             /\ conns[i].auto \in BOOLEAN
             /\ ids[i] \in Hosts \cup {NoId}
             /\ N[i] \in Settings!Connection
             /\ N[i].id = ids[i] /\ N[i].host = conns[i].host /\ N[i].auto = conns[i].auto
  BY <1>1, <1>5 DEF GivenId, Settings!Connection
<1>7. N \in Connections /\ Len(N) = n
  BY <1>1, <1>5, <1>6 DEF Connections
<1>8. ASSUME NEW i \in 1 .. n
      PROVE  {N[j].id : j \in 1 .. i - 1} = {ids[j] : j \in 1 .. i - 1}
  <2>1. \A j \in 1 .. i - 1 : N[j].id = ids[j]
    BY <1>1, <1>6
  <2> QED
    BY <2>1
<1>9. ASSUME NEW i \in 1 .. n
      PROVE  N[i].id = IF conns[i].id \in {N[j].id : j \in 1 .. i - 1} \cup {NoId}
                       THEN conns[i].host ELSE conns[i].id
  BY <1>5, <1>6, <1>8 DEF GivenId
<1> QED
  BY <1>4, <1>6, <1>7, <1>9

\* A list that loading leaves as it is: an id that is there before is the host's.
Settled(conns) ==
  \A i \in 1 .. Len(conns) :
    /\ conns[i].id \in Hosts
    /\ (\E j \in 1 .. i - 1 : conns[j].id = conns[i].id) => conns[i].id = conns[i].host

\* No two connections have one id.
Distinct(conns) == \A i, j \in 1 .. Len(conns) : conns[i].id = conns[j].id => i = j

LEMMA NormalizeSettles ==
  ASSUME NEW conns \in Connections
  PROVE  Settled(Settings!NormalizeConnections(conns))
<1>1. PICK N : N = Settings!NormalizeConnections(conns)
  OBVIOUS
<1>2. /\ N \in Connections /\ Len(N) = Len(conns)
      /\ \A i \in 1 .. Len(conns) :
           /\ N[i].host = conns[i].host /\ N[i].auto = conns[i].auto
           /\ N[i].id = IF conns[i].id \in {N[j].id : j \in 1 .. i - 1} \cup {NoId}
                        THEN conns[i].host ELSE conns[i].id
  BY <1>1, NormalizeIs
<1>3. ASSUME NEW i \in 1 .. Len(N)
      PROVE  /\ N[i].id \in Hosts
             /\ (\E j \in 1 .. i - 1 : N[j].id = N[i].id) => N[i].id = N[i].host
  <2>1. conns[i] \in Settings!Connection
    BY <1>2 DEF Connections
  <2>2. conns[i].host \in Hosts /\ conns[i].id \in Hosts \cup {NoId}
    BY <2>1 DEF Settings!Connection
  <2>3. CASE conns[i].id \in {N[j].id : j \in 1 .. i - 1} \cup {NoId}
    BY <1>2, <2>2, <2>3
  <2>4. CASE conns[i].id \notin {N[j].id : j \in 1 .. i - 1} \cup {NoId}
    BY <1>2, <2>2, <2>4
  <2> QED
    BY <2>3, <2>4
<1>4. Settled(N)
  BY <1>3 DEF Settled
<1> QED
  BY <1>1, <1>4

\* What is settled at the head of a list stays.
LEMMA NormalizeKeeps ==
  ASSUME NEW conns \in Connections, NEW n \in Nat, n <= Len(conns),
         \A i \in 1 .. n :
           /\ conns[i].id \in Hosts
           /\ (\E j \in 1 .. i - 1 : conns[j].id = conns[i].id) => conns[i].id = conns[i].host
  PROVE  \A i \in 1 .. n : Settings!NormalizeConnections(conns)[i].id = conns[i].id
<1>1. PICK N : N = Settings!NormalizeConnections(conns)
  OBVIOUS
<1>2. /\ Len(conns) \in Nat
      /\ \A i \in 1 .. Len(conns) :
           N[i].id = IF conns[i].id \in {N[j].id : j \in 1 .. i - 1} \cup {NoId}
                     THEN conns[i].host ELSE conns[i].id
  BY <1>1, NormalizeIs DEF Connections
<1>3. NoId \notin Hosts
  BY ComponentConstants DEF Settings!SettingsConstants
<1> DEFINE S == {m \in Nat : m <= n => \A i \in 1 .. m : N[i].id = conns[i].id}
<1>4. 0 \in S
  OBVIOUS
<1>5. ASSUME NEW m \in Nat, m \in S PROVE m + 1 \in S
  <2>1. ASSUME m + 1 <= n PROVE \A i \in 1 .. m + 1 : N[i].id = conns[i].id
    <3>1. \A i \in 1 .. m : N[i].id = conns[i].id
      BY <1>5, <2>1
    <3>2. \A j \in 1 .. (m + 1) - 1 : N[j].id = conns[j].id
      BY <3>1
    <3>3. m + 1 \in 1 .. n /\ m + 1 \in 1 .. Len(conns)
      BY <1>2, <2>1
    <3>4. N[m + 1].id = conns[m + 1].id
      <4>1. CASE conns[m + 1].id \in {N[j].id : j \in 1 .. (m + 1) - 1} \cup {NoId}
        <5>1. N[m + 1].id = conns[m + 1].host
          BY <1>2, <3>3, <4>1
        <5>2. \E j \in 1 .. (m + 1) - 1 : conns[j].id = conns[m + 1].id
          BY <1>3, <3>2, <3>3, <4>1
        <5> QED
          BY <3>3, <5>1, <5>2
      <4>2. CASE conns[m + 1].id \notin {N[j].id : j \in 1 .. (m + 1) - 1} \cup {NoId}
        BY <1>2, <3>3, <4>2
      <4> QED
        BY <4>1, <4>2
    <3> QED
      BY <3>1, <3>4
  <2> QED
    BY <2>1
<1>6. n \in S
  <2> HIDE DEF S
  <2> QED
    BY <1>4, <1>5, SetInduction
<1> QED
  BY <1>1, <1>6

LEMMA IdsOfList ==
  ASSUME NEW conns \in Connections
  PROVE  Settings!Ids(conns) = {conns[i].id : i \in 1 .. Len(conns)}
BY DEF Settings!Ids, Connections

LEMMA SettledStays ==
  ASSUME NEW conns \in Connections, Settled(conns)
  PROVE  Settings!Ids(Settings!NormalizeConnections(conns)) = Settings!Ids(conns)
<1>1. PICK N : N = Settings!NormalizeConnections(conns)
  OBVIOUS
<1>2. N \in Connections /\ Len(N) = Len(conns) /\ Len(conns) \in Nat
  BY <1>1, NormalizeIs DEF Connections
<1>3. \A i \in 1 .. Len(conns) : N[i].id = conns[i].id
  <2>1. Len(conns) \in Nat /\ Len(conns) <= Len(conns)
    BY <1>2
  <2>2. \A i \in 1 .. Len(conns) :
          /\ conns[i].id \in Hosts
          /\ (\E j \in 1 .. i - 1 : conns[j].id = conns[i].id) => conns[i].id = conns[i].host
    BY <2>1 DEF Settled
  <2> QED
    BY <1>1, <2>1, <2>2, NormalizeKeeps
<1>4. {N[i].id : i \in 1 .. Len(conns)} = {conns[i].id : i \in 1 .. Len(conns)}
  BY <1>3
<1>5. Settings!Ids(N) = {N[i].id : i \in 1 .. Len(N)}
  BY <1>2, IdsOfList
<1> QED
  BY <1>1, <1>2, <1>4, <1>5, IdsOfList

LEMMA DistinctStays ==
  ASSUME NEW conns \in Connections, Settled(conns), Distinct(conns)
  PROVE  Distinct(Settings!NormalizeConnections(conns))
<1>1. PICK N : N = Settings!NormalizeConnections(conns)
  OBVIOUS
<1>2. Len(N) = Len(conns) /\ Len(conns) \in Nat /\ Len(conns) <= Len(conns)
  BY <1>1, NormalizeIs DEF Connections
<1>3. \A i \in 1 .. Len(conns) : N[i].id = conns[i].id
  BY <1>1, <1>2, NormalizeKeeps DEF Settled
<1> QED
  BY <1>1, <1>2, <1>3 DEF Distinct
-----------------------------------------------------------------------------
(***************************************************************************)
(* The connections with another id.                                        *)
(***************************************************************************)
\* The list k holds those of the first n connections whose id is not id.
Rest(conns, id, k, n) ==
  /\ k \in Connections
  /\ Settings!Ids(k) = {conns[i].id : i \in 1 .. n} \ {id}
  /\ Settled(conns) => Settled(k)
  /\ Distinct(conns) => Distinct(k)

LEMMA RestGrows ==
  ASSUME NEW conns \in Connections, NEW id, NEW k, NEW n \in Nat, n + 1 <= Len(conns),
         Rest(conns, id, k, n)
  PROVE  Rest(conns, id, IF conns[n + 1].id = id THEN k ELSE Append(k, conns[n + 1]), n + 1)
<1>1. /\ n + 1 \in 1 .. Len(conns) /\ conns[n + 1] \in Settings!Connection
      /\ {conns[i].id : i \in 1 .. n + 1} = {conns[i].id : i \in 1 .. n} \cup {conns[n + 1].id}
  BY DEF Connections
<1>2. CASE conns[n + 1].id = id
  BY <1>1, <1>2 DEF Rest
<1>3. CASE conns[n + 1].id # id
  <2>1. PICK m : m = Append(k, conns[n + 1])
    OBVIOUS
  <2>2. k \in Connections /\ Len(k) \in Nat
    BY DEF Rest, Connections
  <2>3. /\ m \in Connections /\ Len(m) = Len(k) + 1 /\ m[Len(k) + 1] = conns[n + 1]
        /\ \A i \in 1 .. Len(k) : m[i] = k[i]
    BY <1>1, <2>1, <2>2 DEF Connections
  <2>4. /\ Settings!Ids(k) = {k[i].id : i \in 1 .. Len(k)}
        /\ Settings!Ids(m) = {m[i].id : i \in 1 .. Len(k) + 1}
    BY <2>2, <2>3, IdsOfList
  <2>5. Settings!Ids(m) = Settings!Ids(k) \cup {conns[n + 1].id}
    BY <2>2, <2>3, <2>4
  <2>6. ASSUME Settled(conns) PROVE Settled(m)
    <3>1. Settled(k)
      BY <2>6 DEF Rest
    <3>2. ASSUME NEW i \in 1 .. Len(k)
          PROVE  /\ m[i].id \in Hosts
                 /\ (\E j \in 1 .. i - 1 : m[j].id = m[i].id) => m[i].id = m[i].host
      <4>1. \A j \in 1 .. i - 1 : m[j] = k[j]
        BY <2>2, <2>3
      <4> QED
        BY <2>3, <3>1, <4>1 DEF Settled
    <3>3. ASSUME \E j \in 1 .. Len(k) : m[j].id = conns[n + 1].id
          PROVE  conns[n + 1].id = conns[n + 1].host
      <4>1. conns[n + 1].id \in Settings!Ids(k)
        BY <2>3, <2>4, <3>3
      <4>2. \E j \in 1 .. n : conns[j].id = conns[n + 1].id
        BY <4>1 DEF Rest
      <4>3. \E j \in 1 .. (n + 1) - 1 : conns[j].id = conns[n + 1].id
        BY <4>2
      <4> QED
        BY <1>1, <2>6, <4>3 DEF Settled
    <3>4. conns[n + 1].id \in Hosts
      BY <1>1, <2>6 DEF Settled
    <3>5. ASSUME NEW i \in 1 .. Len(m)
          PROVE  /\ m[i].id \in Hosts
                 /\ (\E j \in 1 .. i - 1 : m[j].id = m[i].id) => m[i].id = m[i].host
      <4>1. CASE i \in 1 .. Len(k)
        BY <3>2, <4>1
      <4>2. CASE i = Len(k) + 1
        BY <2>2, <2>3, <3>3, <3>4, <4>2
      <4> QED
        BY <2>2, <2>3, <4>1, <4>2
    <3> QED
      BY <3>5 DEF Settled
  <2>7. ASSUME Distinct(conns) PROVE Distinct(m)
    <3>1. Distinct(k)
      BY <2>7 DEF Rest
    <3>2. \A i \in 1 .. n : conns[i].id # conns[n + 1].id
      BY <1>1, <2>7 DEF Distinct
    <3>3. conns[n + 1].id \notin Settings!Ids(k)
      BY <3>2 DEF Rest
    <3>4. \A i \in 1 .. Len(k) : m[i].id # m[Len(k) + 1].id
      BY <2>3, <2>4, <3>3
    <3>5. \A i, j \in 1 .. Len(k) : m[i].id = m[j].id => i = j
      BY <2>3, <3>1 DEF Distinct
    <3>6. \A i \in 1 .. Len(m) : i \in 1 .. Len(k) \/ i = Len(k) + 1
      BY <2>2, <2>3
    <3> QED
      BY <3>4, <3>5, <3>6 DEF Distinct
  <2>8. Rest(conns, id, m, n + 1)
    BY <1>1, <1>3, <2>3, <2>5, <2>6, <2>7 DEF Rest
  <2> QED
    BY <1>3, <2>1, <2>8
<1> QED
  BY <1>2, <1>3

KeptNext(conns, id, kept, n) ==
  IF n = 0 THEN <<>>
  ELSE IF conns[n].id = id THEN kept[n - 1] ELSE Append(kept[n - 1], conns[n])

LEMMA KeptExists ==
  ASSUME NEW conns, NEW id, NEW n \in Nat
  PROVE  \E kept : kept = [m \in 0 .. n |-> KeptNext(conns, id, kept, m)]
<1> DEFINE S == {m \in Nat : \E kept : \A i \in 0 .. m : kept[i] = KeptNext(conns, id, kept, i)}
<1>1. 0 \in S
  <2>1. PICK kept : kept = [i \in 0 .. 0 |-> <<>>]
    OBVIOUS
  <2>2. \A i \in 0 .. 0 : kept[i] = KeptNext(conns, id, kept, i)
    BY <2>1 DEF KeptNext
  <2> QED
    BY <2>2
<1>2. ASSUME NEW m \in Nat, m \in S PROVE m + 1 \in S
  <2>1. PICK kept : \A i \in 0 .. m : kept[i] = KeptNext(conns, id, kept, i)
    BY <1>2
  <2>2. PICK more : more = [i \in 0 .. m + 1 |->
                              IF i <= m THEN kept[i] ELSE KeptNext(conns, id, kept, m + 1)]
    OBVIOUS
  <2>3. \A i \in 0 .. m + 1 : i # 0 => more[i - 1] = kept[i - 1]
    BY <2>2
  <2>4. \A i \in 0 .. m + 1 : KeptNext(conns, id, more, i) = KeptNext(conns, id, kept, i)
    BY <2>3 DEF KeptNext
  <2>5. \A i \in 0 .. m + 1 : more[i] = KeptNext(conns, id, kept, i)
    BY <2>1, <2>2
  <2> QED
    BY <2>4, <2>5
<1>3. n \in S
  <2> HIDE DEF S
  <2> QED
    BY <1>1, <1>2, SetInduction
<1>4. PICK kept : \A i \in 0 .. n : kept[i] = KeptNext(conns, id, kept, i)
  BY <1>3
<1>5. PICK whole : whole = [i \in 0 .. n |-> kept[i]]
  OBVIOUS
<1>6. \A i \in 0 .. n : i # 0 => whole[i - 1] = kept[i - 1]
  BY <1>5
<1>7. \A i \in 0 .. n : KeptNext(conns, id, whole, i) = KeptNext(conns, id, kept, i)
  BY <1>6 DEF KeptNext
<1>8. whole = [i \in 0 .. n |-> KeptNext(conns, id, whole, i)]
  BY <1>4, <1>5, <1>7
<1> QED
  BY <1>8

LEMMA OthersIs ==
  ASSUME NEW conns \in Connections, NEW id
  PROVE  LET k == Settings!Others(conns, id) IN
         /\ k \in Connections /\ Settings!Ids(k) = Settings!Ids(conns) \ {id}
         /\ Settled(conns) => Settled(k)
         /\ Distinct(conns) => Distinct(k)
<1> DEFINE n == Len(conns)
           kept == CHOOSE f : f = [m \in 0 .. n |-> KeptNext(conns, id, f, m)]
<1>1. n \in Nat
  BY DEF Connections
<1>2. kept = [m \in 0 .. n |-> KeptNext(conns, id, kept, m)]
  BY <1>1, KeptExists
<1>3. Settings!Others(conns, id) = kept[n]
  BY DEF Settings!Others, KeptNext
<1> HIDE DEF kept
<1>4. \A m \in 0 .. n : kept[m] = KeptNext(conns, id, kept, m)
  BY <1>2
<1> DEFINE S == {m \in Nat : m <= n => Rest(conns, id, kept[m], m)}
<1>5. 0 \in S
  <2>1. kept[0] = <<>>
    BY <1>1, <1>4 DEF KeptNext
  <2>2. <<>> \in Connections /\ Len(<<>>) = 0
    BY DEF Connections
  <2>3. Settings!Ids(<<>>) = {}
    BY <2>2, IdsOfList
  <2>4. Rest(conns, id, <<>>, 0)
    BY <2>2, <2>3 DEF Rest, Settled, Distinct
  <2> QED
    BY <2>1, <2>4
<1>6. ASSUME NEW m \in Nat, m \in S PROVE m + 1 \in S
  <2>1. ASSUME m + 1 <= n PROVE Rest(conns, id, kept[m + 1], m + 1)
    <3>1. Rest(conns, id, kept[m], m)
      BY <1>1, <1>6, <2>1
    <3>2. kept[m + 1] = IF conns[m + 1].id = id THEN kept[m] ELSE Append(kept[m], conns[m + 1])
      BY <1>1, <1>4, <2>1 DEF KeptNext
    <3> QED
      BY <2>1, <3>1, <3>2, RestGrows
  <2> QED
    BY <2>1
<1>7. n \in S
  <2> HIDE DEF S, n
  <2> QED
    BY <1>1, <1>5, <1>6, SetInduction
<1>8. Rest(conns, id, kept[n], n)
  BY <1>1, <1>7
<1> QED
  BY <1>3, <1>8, IdsOfList DEF Rest
-----------------------------------------------------------------------------
(***************************************************************************)
(* Loading and repairing.                                                  *)
(***************************************************************************)
Apart(s) == DOMAIN s.assigned \cap (s.projectless \ Desktop) = {}
Refers(s) ==
  /\ s.active \in Settings!Ids(s.conns) \cup {NoId}
  /\ \A p \in s.projects : p.host \in Settings!Ids(s.conns) \cup {Local}
  /\ \A t \in DOMAIN s.assigned : s.assigned[t] \in Settings!ProjectIds(s.projects)
  /\ Apart(s)
\* Settings that loading does not change, but for the threads of the desktop.
Sound(s) == s \in Settings!Contents /\ Settled(s.conns) /\ Refers(s)

Assignments == Settings!Partial(Threads, Projects)

LEMMA AssignmentsAre ==
  ASSUME NEW f
  PROVE  f \in Assignments <=> \E D \in SUBSET Threads : f \in [D -> Projects]
<1>1. ASSUME f \in Assignments PROVE \E D \in SUBSET Threads : f \in [D -> Projects]
  BY <1>1 DEF Assignments, Settings!Partial
<1>2. ASSUME NEW D \in SUBSET Threads, f \in [D -> Projects] PROVE f \in Assignments
  BY <1>2 DEF Assignments, Settings!Partial
<1> QED
  BY <1>1, <1>2

LEMMA KeepIs ==
  ASSUME NEW f \in Assignments, NEW T
  PROVE  LET g == Settings!Keep(f, T) IN
         /\ g \in Assignments /\ DOMAIN g \subseteq DOMAIN f
         /\ \A t \in DOMAIN g : g[t] = f[t] /\ f[t] \in T
<1>1. PICK D \in SUBSET Threads : f \in [D -> Projects]
  BY AssignmentsAre
<1>2. PICK g : g = Settings!Keep(f, T)
  OBVIOUS
<1>3. PICK E \in SUBSET Threads : E = {x \in D : f[x] \in T}
  BY <1>1
<1>4. g = [x \in E |-> f[x]]
  BY <1>1, <1>2, <1>3 DEF Settings!Keep
<1>5. g \in [E -> Projects]
  BY <1>1, <1>3, <1>4
<1> QED
  BY <1>1, <1>2, <1>3, <1>4, <1>5, AssignmentsAre

LEMMA ContentsAre ==
  ASSUME NEW s \in Settings!Contents
  PROVE  /\ s.conns \in Connections /\ s.active \in Hosts \cup {NoId}
         /\ s.projects \in SUBSET Settings!Project /\ s.assigned \in Assignments
         /\ s.projectless \in SUBSET Threads /\ s.password \in BOOLEAN
BY DEF Settings!Contents, Connections, Assignments

\* One field at a time.
LEMMA ConnsSet ==
  ASSUME NEW s \in Settings!Contents, NEW v \in Connections
  PROVE  LET d == [s EXCEPT !.conns = v] IN
         /\ d \in Settings!Contents /\ d.conns = v /\ d.active = s.active
         /\ d.projects = s.projects /\ d.assigned = s.assigned
         /\ d.projectless = s.projectless /\ d.password = s.password
BY DEF Settings!Contents, Connections

LEMMA ActiveSet ==
  ASSUME NEW s \in Settings!Contents, NEW v \in Hosts \cup {NoId}
  PROVE  LET d == [s EXCEPT !.active = v] IN
         /\ d \in Settings!Contents /\ d.conns = s.conns /\ d.active = v
         /\ d.projects = s.projects /\ d.assigned = s.assigned
         /\ d.projectless = s.projectless /\ d.password = s.password
BY DEF Settings!Contents

LEMMA ProjectsSet ==
  ASSUME NEW s \in Settings!Contents, NEW v \in SUBSET Settings!Project
  PROVE  LET d == [s EXCEPT !.projects = v] IN
         /\ d \in Settings!Contents /\ d.conns = s.conns /\ d.active = s.active
         /\ d.projects = v /\ d.assigned = s.assigned
         /\ d.projectless = s.projectless /\ d.password = s.password
BY DEF Settings!Contents

LEMMA AssignedSet ==
  ASSUME NEW s \in Settings!Contents, NEW v \in Assignments
  PROVE  LET d == [s EXCEPT !.assigned = v] IN
         /\ d \in Settings!Contents /\ d.conns = s.conns /\ d.active = s.active
         /\ d.projects = s.projects /\ d.assigned = v
         /\ d.projectless = s.projectless /\ d.password = s.password
BY DEF Settings!Contents, Assignments

LEMMA ProjectlessSet ==
  ASSUME NEW s \in Settings!Contents, NEW v \in SUBSET Threads
  PROVE  LET d == [s EXCEPT !.projectless = v] IN
         /\ d \in Settings!Contents /\ d.conns = s.conns /\ d.active = s.active
         /\ d.projects = s.projects /\ d.assigned = s.assigned
         /\ d.projectless = v /\ d.password = s.password
BY DEF Settings!Contents

LEMMA PasswordSet ==
  ASSUME NEW s \in Settings!Contents, NEW v \in BOOLEAN
  PROVE  LET d == [s EXCEPT !.password = v] IN
         /\ d \in Settings!Contents /\ d.conns = s.conns /\ d.active = s.active
         /\ d.projects = s.projects /\ d.assigned = s.assigned
         /\ d.projectless = s.projectless /\ d.password = v
BY DEF Settings!Contents

LEMMA FinalizeIs ==
  ASSUME NEW s \in Settings!Contents
  PROVE  LET d == Settings!Finalize(s) IN
         /\ d \in Settings!Contents
         /\ d.conns = Settings!NormalizeConnections(s.conns)
         /\ d.active = IF s.active \in Settings!Ids(d.conns) THEN s.active ELSE NoId
         /\ d.projects = {p \in s.projects : p.host \in Settings!Ids(d.conns) \cup {Local}}
         /\ d.projectless = s.projectless \cup Desktop
         /\ d.assigned = Settings!Keep(s.assigned, Settings!ProjectIds(d.projects))
         /\ d.password = s.password
<1>0. Desktop \subseteq Threads
  BY ComponentConstants DEF Settings!SettingsConstants
<1>1. PICK conns : conns = Settings!NormalizeConnections(s.conns)
  OBVIOUS
<1>2. conns \in Connections
  BY <1>1, NormalizeIs, ContentsAre
<1>3. PICK known : known = {p \in s.projects : p.host \in Settings!Ids(conns) \cup {Local}}
  OBVIOUS
<1>4. known \in SUBSET Settings!Project
  BY <1>3, ContentsAre
<1>5. PICK active : active = IF s.active \in Settings!Ids(conns) THEN s.active ELSE NoId
  OBVIOUS
<1>6. active \in Hosts \cup {NoId}
  BY <1>5, ContentsAre
<1>7. PICK projectless : projectless = s.projectless \cup Desktop
  OBVIOUS
<1>8. projectless \in SUBSET Threads
  BY <1>0, <1>7, ContentsAre
<1>9. PICK assigned : assigned = Settings!Keep(s.assigned, Settings!ProjectIds(known))
  OBVIOUS
<1>10. assigned \in Assignments
  BY <1>9, KeepIs, ContentsAre
<1>11. PICK d1 : d1 = [s EXCEPT !.conns = conns]
  OBVIOUS
<1>12. PICK d2 : d2 = [d1 EXCEPT !.active = active]
  OBVIOUS
<1>13. PICK d3 : d3 = [d2 EXCEPT !.projects = known]
  OBVIOUS
<1>14. PICK d4 : d4 = [d3 EXCEPT !.projectless = projectless]
  OBVIOUS
<1>15. PICK d5 : d5 = [d4 EXCEPT !.assigned = assigned]
  OBVIOUS
<1>16. Settings!Finalize(s) =
         [s EXCEPT !.conns = conns,
                   !.active = IF @ \in Settings!Ids(conns) THEN @ ELSE NoId,
                   !.projects = known,
                   !.projectless = @ \cup Desktop,
                   !.assigned = Settings!Keep(@, Settings!ProjectIds(known))]
  BY <1>1, <1>3 DEF Settings!Finalize
<1>17. Settings!Finalize(s) = d5
  BY <1>5, <1>7, <1>9, <1>11, <1>12, <1>13, <1>14, <1>15, <1>16
     DEF Settings!Contents
<1>18. /\ d1 \in Settings!Contents /\ d1.conns = conns /\ d1.password = s.password
  BY <1>2, <1>11, ConnsSet
<1>19. /\ d2 \in Settings!Contents /\ d2.conns = conns /\ d2.active = active
       /\ d2.password = s.password
  BY <1>6, <1>12, <1>18, ActiveSet
<1>20. /\ d3 \in Settings!Contents /\ d3.conns = conns /\ d3.active = active
       /\ d3.projects = known /\ d3.password = s.password
  BY <1>4, <1>13, <1>19, ProjectsSet
<1>21. /\ d4 \in Settings!Contents /\ d4.conns = conns /\ d4.active = active
       /\ d4.projects = known /\ d4.projectless = projectless /\ d4.password = s.password
  BY <1>8, <1>14, <1>20, ProjectlessSet
<1>22. /\ d5 \in Settings!Contents /\ d5.conns = conns /\ d5.active = active
       /\ d5.projects = known /\ d5.projectless = projectless /\ d5.assigned = assigned
       /\ d5.password = s.password
  BY <1>10, <1>15, <1>21, AssignedSet
<1> QED
  BY <1>1, <1>3, <1>5, <1>7, <1>9, <1>17, <1>22

LEMMA FinalizeSound ==
  ASSUME NEW s \in Settings!Contents, Apart(s)
  PROVE  Sound(Settings!Finalize(s))
<1>1. PICK d : d = Settings!Finalize(s)
  OBVIOUS
<1>2. /\ d \in Settings!Contents
      /\ d.conns = Settings!NormalizeConnections(s.conns)
      /\ d.active = IF s.active \in Settings!Ids(d.conns) THEN s.active ELSE NoId
      /\ d.projects = {p \in s.projects : p.host \in Settings!Ids(d.conns) \cup {Local}}
      /\ d.projectless = s.projectless \cup Desktop
      /\ d.assigned = Settings!Keep(s.assigned, Settings!ProjectIds(d.projects))
  BY <1>1, FinalizeIs
<1>3. Settled(d.conns)
  BY <1>2, NormalizeSettles, ContentsAre
<1>4. /\ DOMAIN d.assigned \subseteq DOMAIN s.assigned
      /\ \A t \in DOMAIN d.assigned : d.assigned[t] \in Settings!ProjectIds(d.projects)
  BY <1>2, KeepIs, ContentsAre
<1>5. Refers(d)
  BY <1>2, <1>4 DEF Refers, Apart
<1>6. Sound(d)
  BY <1>2, <1>3, <1>5 DEF Sound
<1> QED
  BY <1>1, <1>6

\* Loading again what is sound keeps its connections and projects.
LEMMA SoundStays ==
  ASSUME NEW s, Sound(s)
  PROVE  /\ Settings!Ids(Settings!Finalize(s).conns) = Settings!Ids(s.conns)
         /\ Settings!Finalize(s).projects = s.projects
<1>1. s \in Settings!Contents /\ Settled(s.conns) /\ s.conns \in Connections
  BY ContentsAre DEF Sound
<1>2. PICK d : d = Settings!Finalize(s)
  OBVIOUS
<1>3. /\ d.conns = Settings!NormalizeConnections(s.conns)
      /\ d.projects = {p \in s.projects : p.host \in Settings!Ids(d.conns) \cup {Local}}
  BY <1>1, <1>2, FinalizeIs
<1>4. Settings!Ids(d.conns) = Settings!Ids(s.conns)
  BY <1>1, <1>3, SettledStays
<1>5. d.projects = s.projects
  BY <1>3, <1>4 DEF Sound, Refers
<1> QED
  BY <1>2, <1>4, <1>5

LEMMA DefaultsAre ==
  Settings!Defaults \in Settings!Contents /\ Apart(Settings!Defaults)
  /\ Settings!Defaults.password = FALSE
<1>1. PICK f : f = <<>>
  OBVIOUS
<1>2. DOMAIN f = {} /\ f = [t \in {} |-> 0]
  BY <1>1
<1>3. f \in [{} -> Projects]
  BY <1>2
<1>4. f \in Assignments
  BY <1>3, AssignmentsAre
<1>5. <<>> \in Seq(Settings!Connection)
  OBVIOUS
<1> QED
  BY <1>1, <1>2, <1>4, <1>5 DEF Settings!Defaults, Settings!Contents, Apart, Assignments
-----------------------------------------------------------------------------
(***************************************************************************)
(* What is stored: the file is sound, the password in force is the file's, *)
(* or none when there is no file, unless a write has raised.               *)
(***************************************************************************)
Password == IF Settings!Whole THEN file.password ELSE FALSE
Stored ==
  /\ Settings!Whole => Sound(file)
  /\ up => auth = Password \/ failed
  /\ auth \in BOOLEAN /\ up \in BOOLEAN /\ failed \in BOOLEAN
  /\ page.conns \in Connections /\ page.active \in Hosts \cup {NoId}
  /\ saves \in 0 .. MaxSaves /\ storeCrashes \in 0 .. MaxCrashes

LEMMA LoadedIs ==
  ASSUME Stored
  PROVE  /\ Sound(Settings!Loaded) /\ Settings!Loaded.password = Password
         /\ Settings!Loaded \in Settings!Contents
<1>1. PICK s : s = IF Settings!Whole THEN file ELSE Settings!Defaults
  OBVIOUS
<1>2. s \in Settings!Contents /\ Apart(s) /\ s.password = Password
  BY <1>1, DefaultsAre DEF Stored, Sound, Refers, Password
<1>3. Settings!Loaded = Settings!Finalize(s)
  BY <1>1 DEF Settings!Loaded
<1>4. Sound(Settings!Finalize(s)) /\ Settings!Finalize(s).password = s.password
  BY <1>2, FinalizeSound, FinalizeIs
<1> QED
  BY <1>2, <1>3, <1>4 DEF Sound

\* What a handler does when it writes s.
Writes(s) ==
  /\ Sound(s) /\ file' = s /\ up /\ up' = up
  /\ Stored' /\ Settings!Whole'

LEMMA WriteStores ==
  ASSUME Stored, NEW s, Sound(s), Settings!Write(s), auth' = s.password \/ failed',
         auth' \in BOOLEAN, failed' \in BOOLEAN, UNCHANGED page
  PROVE  Writes(s)
<1>1. /\ s \in Settings!Contents /\ s \notin Settings!Torn /\ s.password \in BOOLEAN
  BY ComponentConstants, ContentsAre DEF Sound, Settings!SettingsConstants, Settings!Torn
<1>2. /\ up /\ saves < MaxSaves /\ saves' = saves + 1 /\ file' = s
      /\ UNCHANGED <<up, storeCrashes>>
  BY DEF Settings!Write
<1>3. MaxSaves \in Nat
  BY ComponentConstants DEF Settings!SettingsConstants
<1>4. saves' \in 0 .. MaxSaves
  BY <1>2, <1>3 DEF Stored
<1> QED
  BY <1>1, <1>2, <1>4 DEF Stored, Password, Settings!Whole, Writes

LEMMA SaveStores ==
  ASSUME Stored, NEW s, Sound(s), Settings!Save(s), s.password = Settings!Loaded.password
  PROVE  Writes(s)
<1>1. Settings!Write(s) /\ UNCHANGED <<auth, failed, page>> /\ up
  BY DEF Settings!Save, Settings!Write
<1>2. (auth' = s.password \/ failed') /\ auth' \in BOOLEAN /\ failed' \in BOOLEAN
  BY <1>1, LoadedIs DEF Stored
<1> QED
  BY <1>1, <1>2, WriteStores

\* The projects a handler keeps are still loaded afterwards.
LEMMA WriteKeeps ==
  ASSUME NEW s, Writes(s), NEW p \in s.projects
  PROVE  p \in Settings!Loaded'.projects
<1>1. Settings!Loaded' = Settings!Finalize(s)
  BY DEF Writes, Settings!Loaded, Settings!Whole
<1>2. Settings!Finalize(s).projects = s.projects
  BY SoundStays DEF Writes
<1> QED
  BY <1>1, <1>2

\* What every step does: what is stored is sound again, and a project that was loaded
\* is still, unless the step is one of the exceptions.
Stores == Stored' /\ (\A p \in Settings!Loaded.projects : p \in Settings!Loaded'.projects)
-----------------------------------------------------------------------------
(***************************************************************************)
(* The handlers.                                                           *)
(***************************************************************************)
LEMMA ConnsSound ==
  ASSUME NEW s, Sound(s), NEW v \in Connections, Settled(v),
         Settings!Ids(s.conns) \subseteq Settings!Ids(v)
  PROVE  LET d == [s EXCEPT !.conns = v] IN
         Sound(d) /\ d.projects = s.projects /\ d.password = s.password
<1>1. PICK d : d = [s EXCEPT !.conns = v]
  OBVIOUS
<1>2. /\ d \in Settings!Contents /\ d.conns = v /\ d.active = s.active
      /\ d.projects = s.projects /\ d.assigned = s.assigned
      /\ d.projectless = s.projectless /\ d.password = s.password
  BY <1>1, ConnsSet DEF Sound
<1>3. Sound(d)
  BY <1>2 DEF Sound, Refers, Apart
<1> QED
  BY <1>1, <1>2, <1>3

\* A connection that is edited keeps its id, a new one takes none away.
LEMMA SavedIs ==
  ASSUME Stored, NEW id \in Hosts \cup {NoId}, NEW host \in Hosts, NEW auto \in BOOLEAN
  PROVE  LET N == Settings!Saved(id, host, auto) IN
         /\ N \in Connections /\ Settled(N)
         /\ Settings!Ids(Settings!Loaded.conns) \subseteq Settings!Ids(N)
         /\ Distinct(Settings!Loaded.conns)
            /\ (id = NoId => host \notin Settings!Ids(Settings!Loaded.conns)) => Distinct(N)
<1>1. PICK conns : conns = Settings!Loaded.conns
  OBVIOUS
<1>2. conns \in Connections /\ Settled(conns)
  BY <1>1, LoadedIs, ContentsAre DEF Sound
<1>3. PICK o : o = Settings!Others(conns, id)
  OBVIOUS
<1>4. o \in Connections /\ Settled(o) /\ Settings!Ids(o) = Settings!Ids(conns) \ {id}
  BY <1>2, <1>3, OthersIs
<1>5. PICK c : c = [id |-> id, host |-> host, auto |-> auto]
  OBVIOUS
<1>6. c \in Settings!Connection /\ c.id = id /\ c.host = host
  BY <1>5 DEF Settings!Connection
<1>7. PICK a : a = Append(o, c)
  OBVIOUS
<1>8. PICK n \in Nat : n = Len(o)
  BY <1>4 DEF Connections
<1>9. /\ a \in Connections /\ Len(a) = n + 1 /\ a[n + 1] = c
      /\ \A i \in 1 .. n : a[i] = o[i]
  BY <1>4, <1>6, <1>7, <1>8 DEF Connections
<1>10. PICK N : N = Settings!NormalizeConnections(a)
  OBVIOUS
<1>11. /\ N \in Connections /\ Len(N) = n + 1 /\ Settled(N)
       /\ N[n + 1].id = IF a[n + 1].id \in {N[j].id : j \in 1 .. (n + 1) - 1} \cup {NoId}
                        THEN a[n + 1].host ELSE a[n + 1].id
  BY <1>9, <1>10, NormalizeIs, NormalizeSettles
<1>12. \A i \in 1 .. n : N[i].id = o[i].id
  <2>1. ASSUME NEW i \in 1 .. n
        PROVE  /\ a[i].id \in Hosts
               /\ (\E j \in 1 .. i - 1 : a[j].id = a[i].id) => a[i].id = a[i].host
    <3>1. \A j \in 1 .. i - 1 : a[j] = o[j]
      BY <1>9
    <3> QED
      BY <1>4, <1>8, <1>9, <3>1 DEF Settled
  <2>2. n <= Len(a)
    BY <1>9
  <2>3. \A i \in 1 .. n : N[i].id = a[i].id
    BY <1>9, <1>10, <2>1, <2>2, NormalizeKeeps
  <2> QED
    BY <1>9, <2>3
<1>13. Settings!Ids(o) = {o[i].id : i \in 1 .. n}
  BY <1>4, <1>8, IdsOfList
<1>14. Settings!Ids(N) = {N[i].id : i \in 1 .. n + 1}
  BY <1>11, IdsOfList
<1>15. Settings!Ids(o) \subseteq Settings!Ids(N)
  BY <1>12, <1>13, <1>14
<1>16. id \in Settings!Ids(conns) => id \in Settings!Ids(N)
  <2>1. ASSUME id \in Settings!Ids(conns) PROVE id \in Settings!Ids(N)
    <3>1. id \in Hosts /\ id # NoId
      <4>1. NoId \notin Hosts
        BY ComponentConstants DEF Settings!SettingsConstants
      <4>2. \E i \in 1 .. Len(conns) : conns[i].id = id
        BY <1>2, <2>1, IdsOfList
      <4> QED
        BY <1>2, <4>1, <4>2 DEF Settled
    <3>2. \A j \in 1 .. (n + 1) - 1 : N[j].id # id
      BY <1>4, <1>12, <1>13
    <3>3. N[n + 1].id = id
      BY <1>6, <1>9, <1>11, <3>1, <3>2
    <3>4. n + 1 \in 1 .. n + 1
      OBVIOUS
    <3> QED
      BY <1>14, <3>3, <3>4
  <2> QED
    BY <2>1
<1>17. Settings!Ids(conns) \subseteq Settings!Ids(N)
  BY <1>4, <1>15, <1>16
<1>18. ASSUME Distinct(conns), id = NoId => host \notin Settings!Ids(conns)
       PROVE  Distinct(N)
  <2>1. \A i \in 1 .. n : N[i].id # id
    BY <1>4, <1>12, <1>13
  <2>2. N[n + 1].id = IF id = NoId THEN host ELSE id
    BY <1>6, <1>9, <1>11, <2>1
  <2>3. N[n + 1].id \notin Settings!Ids(o)
    BY <1>4, <1>18, <2>2
  <2>4. \A i \in 1 .. n : N[i].id # N[n + 1].id
    BY <1>12, <1>13, <2>3
  <2>5. Distinct(o)
    BY <1>2, <1>3, <1>18, OthersIs
  <2>6. \A i, j \in 1 .. n : N[i].id = N[j].id => i = j
    BY <1>8, <1>12, <2>5 DEF Distinct
  <2>7. \A i \in 1 .. Len(N) : i \in 1 .. n \/ i = n + 1
    BY <1>11
  <2> QED
    BY <2>4, <2>6, <2>7 DEF Distinct
<1>19. Settings!Saved(id, host, auto) = N
  BY <1>1, <1>3, <1>5, <1>7, <1>10 DEF Settings!Saved
<1> QED
  BY <1>1, <1>11, <1>17, <1>18, <1>19

LEMMA SaveConnectionStores ==
  ASSUME Stored, NEW id \in Hosts \cup {NoId}, NEW host \in Hosts, NEW auto \in BOOLEAN,
         Settings!SaveConnection(id, host, auto)
  PROVE  Stores
<1>1. PICK v : v = Settings!Saved(id, host, auto)
  OBVIOUS
<1>2. PICK s : s = [Settings!Loaded EXCEPT !.conns = v]
  OBVIOUS
<1>3. /\ Sound(s) /\ s.projects = Settings!Loaded.projects
      /\ s.password = Settings!Loaded.password
  BY <1>1, <1>2, SavedIs, LoadedIs, ConnsSound
<1>4. Settings!Save(s)
  BY <1>1, <1>2 DEF Settings!SaveConnection
<1>5. Writes(s)
  BY <1>3, <1>4, SaveStores
<1> QED
  BY <1>3, <1>5, WriteKeeps DEF Writes, Stores

LEMMA SetAutoConnectStores ==
  ASSUME Stored, NEW id \in Hosts, NEW auto \in BOOLEAN, Settings!SetAutoConnect(id, auto)
  PROVE  Stores
<1>1. PICK conns : conns = Settings!Loaded.conns
  OBVIOUS
<1>2. conns \in Connections /\ Settled(conns) /\ Settings!Loaded \in Settings!Contents
  BY <1>1, LoadedIs, ContentsAre DEF Sound
<1>3. PICK i \in DOMAIN conns : Settings!Save([Settings!Loaded EXCEPT !.conns[i].auto = auto])
  BY <1>1 DEF Settings!SetAutoConnect
<1>4. PICK c : c = [conns[i] EXCEPT !.auto = auto]
  OBVIOUS
<1>5. /\ DOMAIN conns = 1 .. Len(conns) /\ Len(conns) \in Nat
      /\ conns[i] \in Settings!Connection
  BY <1>2 DEF Connections
<1>6. c \in Settings!Connection /\ c.id = conns[i].id /\ c.host = conns[i].host
  BY <1>4, <1>5 DEF Settings!Connection
<1>7. PICK v : v = [conns EXCEPT ![i] = c]
  OBVIOUS
<1>8. /\ v \in Connections /\ Len(v) = Len(conns)
      /\ \A j \in 1 .. Len(conns) : v[j].id = conns[j].id /\ v[j].host = conns[j].host
  BY <1>2, <1>5, <1>6, <1>7 DEF Connections
<1>9. Settled(v)
  <2>1. ASSUME NEW j \in 1 .. Len(v)
        PROVE  /\ v[j].id \in Hosts
               /\ (\E k \in 1 .. j - 1 : v[k].id = v[j].id) => v[j].id = v[j].host
    <3>1. \A k \in 1 .. j - 1 : k \in 1 .. Len(conns)
      BY <1>5, <1>8
    <3> QED
      BY <1>2, <1>8, <3>1 DEF Settled
  <2> QED
    BY <2>1 DEF Settled
<1>10. Settings!Ids(v) = Settings!Ids(conns)
  <2>1. {v[j].id : j \in 1 .. Len(conns)} = {conns[j].id : j \in 1 .. Len(conns)}
    BY <1>8
  <2> QED
    BY <1>2, <1>8, <2>1, IdsOfList
<1>11. PICK s : s = [Settings!Loaded EXCEPT !.conns = v]
  OBVIOUS
<1>12. s = [Settings!Loaded EXCEPT !.conns[i].auto = auto]
  BY <1>1, <1>4, <1>7, <1>11
<1>13. /\ Sound(s) /\ s.projects = Settings!Loaded.projects
       /\ s.password = Settings!Loaded.password
  BY <1>1, <1>8, <1>9, <1>10, <1>11, LoadedIs, ConnsSound
<1>14. Writes(s)
  BY <1>3, <1>12, <1>13, SaveStores
<1> QED
  BY <1>13, <1>14, WriteKeeps DEF Writes, Stores

LEMMA SetActiveStores ==
  ASSUME Stored, NEW id \in Hosts \cup {NoId}, Settings!SetActive(id)
  PROVE  Stores
<1>1. PICK s : s = [Settings!Loaded EXCEPT !.active = id]
  OBVIOUS
<1>2. Sound(Settings!Loaded) /\ Settings!Loaded \in Settings!Contents
  BY LoadedIs
<1>3. /\ s \in Settings!Contents /\ s.conns = Settings!Loaded.conns /\ s.active = id
      /\ s.projects = Settings!Loaded.projects /\ s.assigned = Settings!Loaded.assigned
      /\ s.projectless = Settings!Loaded.projectless /\ s.password = Settings!Loaded.password
  BY <1>1, <1>2, ActiveSet
<1>4. id \in Settings!Ids(Settings!Loaded.conns) \cup {NoId} /\ Settings!Save(s)
  BY <1>1 DEF Settings!SetActive
<1>5. Sound(s)
  BY <1>2, <1>3, <1>4 DEF Sound, Refers, Apart
<1>6. Writes(s)
  BY <1>3, <1>4, <1>5, SaveStores
<1> QED
  BY <1>3, <1>6, WriteKeeps DEF Writes, Stores

LEMMA SaveProjectStores ==
  ASSUME Stored, NEW pid \in Projects, NEW host \in Hosts \cup {Local}, NEW path \in Paths,
         Settings!SaveProject(pid, host, path)
  PROVE  Stores
<1>1. PICK p : p = [id |-> pid, host |-> host, path |-> path]
  OBVIOUS
<1>2. p \in Settings!Project /\ p.host = host
  BY <1>1 DEF Settings!Project
<1>3. PICK v : v = Settings!Loaded.projects \cup {p}
  OBVIOUS
<1>4. PICK s : s = [Settings!Loaded EXCEPT !.projects = v]
  OBVIOUS
<1>5. Sound(Settings!Loaded) /\ Settings!Loaded \in Settings!Contents
  BY LoadedIs
<1>6. v \in SUBSET Settings!Project
  BY <1>2, <1>3, <1>5, ContentsAre
<1>7. /\ s \in Settings!Contents /\ s.conns = Settings!Loaded.conns
      /\ s.active = Settings!Loaded.active /\ s.projects = v
      /\ s.assigned = Settings!Loaded.assigned
      /\ s.projectless = Settings!Loaded.projectless /\ s.password = Settings!Loaded.password
  BY <1>4, <1>5, <1>6, ProjectsSet
<1>8. host \in Settings!Ids(Settings!Loaded.conns) \cup {Local} /\ Settings!Save(s)
  BY <1>1, <1>3, <1>4, <1>5 DEF Settings!SaveProject, Settings!Contents
<1>9. Settings!ProjectIds(Settings!Loaded.projects) \subseteq Settings!ProjectIds(v)
  BY <1>3 DEF Settings!ProjectIds
<1>10. Sound(s)
  BY <1>2, <1>3, <1>5, <1>7, <1>8, <1>9 DEF Sound, Refers, Apart
<1>11. Writes(s)
  BY <1>7, <1>8, <1>10, SaveStores
<1> QED
  BY <1>3, <1>7, <1>11, WriteKeeps DEF Writes, Stores

LEMMA DeleteProjectStores ==
  ASSUME Stored, NEW pid \in Projects, Settings!DeleteProject(pid)
  PROVE  Stored'
<1>1. PICK left : left = {p \in Settings!Loaded.projects : p.id # pid}
  OBVIOUS
<1>2. PICK assigned : assigned = Settings!Keep(Settings!Loaded.assigned, Settings!ProjectIds(left))
  OBVIOUS
<1>3. Sound(Settings!Loaded) /\ Settings!Loaded \in Settings!Contents
  BY LoadedIs
<1>4. left \in SUBSET Settings!Project
  BY <1>1, <1>3, ContentsAre
<1>5. /\ assigned \in Assignments /\ DOMAIN assigned \subseteq DOMAIN Settings!Loaded.assigned
      /\ \A t \in DOMAIN assigned : assigned[t] \in Settings!ProjectIds(left)
  BY <1>2, <1>3, ContentsAre, KeepIs
<1>6. PICK d : d = [Settings!Loaded EXCEPT !.projects = left]
  OBVIOUS
<1>7. PICK s : s = [d EXCEPT !.assigned = assigned]
  OBVIOUS
<1>8. Settings!Save(s)
  BY <1>1, <1>2, <1>3, <1>6, <1>7
     DEF Settings!DeleteProject, Settings!WithoutProject, Settings!Contents
<1>9. /\ d \in Settings!Contents /\ d.conns = Settings!Loaded.conns
      /\ d.active = Settings!Loaded.active /\ d.projects = left
      /\ d.projectless = Settings!Loaded.projectless /\ d.password = Settings!Loaded.password
  BY <1>3, <1>4, <1>6, ProjectsSet
<1>10. /\ s \in Settings!Contents /\ s.conns = d.conns /\ s.active = d.active
       /\ s.projects = left /\ s.assigned = assigned
       /\ s.projectless = d.projectless /\ s.password = d.password
  BY <1>5, <1>7, <1>9, AssignedSet
<1>11. Sound(s)
  BY <1>1, <1>3, <1>5, <1>9, <1>10 DEF Sound, Refers, Apart
<1> QED
  BY <1>8, <1>9, <1>10, <1>11, SaveStores DEF Writes

LEMMA DeleteConnectionStores ==
  ASSUME Stored, NEW id \in Hosts, Settings!DeleteConnection(id)
  PROVE  Stored'
<1>1. PICK L : L = Settings!Loaded
  OBVIOUS
<1>2. Sound(L) /\ L \in Settings!Contents
  BY <1>1, LoadedIs
<1>3. PICK gone : gone = {p \in L.projects : p.host = id}
  OBVIOUS
<1>4. PICK conns : conns = Settings!Others(L.conns, id)
  OBVIOUS
<1>5. conns \in Connections /\ Settled(conns) /\ Settings!Ids(conns) = Settings!Ids(L.conns) \ {id}
  BY <1>2, <1>4, OthersIs, ContentsAre DEF Sound
<1>6. PICK active : active = IF L.active = id THEN NoId ELSE L.active
  OBVIOUS
<1>7. active \in Hosts \cup {NoId}
  BY <1>2, <1>6, ContentsAre
<1>8. PICK projects : projects = L.projects \ gone
  OBVIOUS
<1>9. projects \in SUBSET Settings!Project
  BY <1>2, <1>8, ContentsAre
<1>10. PICK assigned :
         assigned = [t \in {u \in DOMAIN L.assigned :
                              L.assigned[u] \notin Settings!ProjectIds(gone)} |-> L.assigned[t]]
  OBVIOUS
<1>11. assigned \in Assignments /\ DOMAIN assigned \subseteq DOMAIN L.assigned
  <2>1. PICK D \in SUBSET Threads : L.assigned \in [D -> Projects]
    BY <1>2, ContentsAre, AssignmentsAre
  <2>2. PICK E \in SUBSET Threads :
          E = {u \in D : L.assigned[u] \notin Settings!ProjectIds(gone)}
    BY <2>1
  <2>3. assigned = [t \in E |-> L.assigned[t]]
    BY <1>10, <2>1, <2>2
  <2>4. assigned \in [E -> Projects] /\ DOMAIN assigned = E
    BY <2>1, <2>2, <2>3
  <2> QED
    BY <2>1, <2>2, <2>4, AssignmentsAre
<1>12. \A t \in DOMAIN assigned : assigned[t] \in Settings!ProjectIds(projects)
  <2>1. ASSUME NEW t \in DOMAIN assigned PROVE assigned[t] \in Settings!ProjectIds(projects)
    <3>1. /\ t \in DOMAIN L.assigned /\ assigned[t] = L.assigned[t]
          /\ L.assigned[t] \notin Settings!ProjectIds(gone)
      BY <1>10, <2>1
    <3>2. L.assigned[t] \in Settings!ProjectIds(L.projects)
      BY <1>2, <3>1 DEF Sound, Refers
    <3>3. PICK p \in L.projects : p.id = L.assigned[t]
      BY <3>2 DEF Settings!ProjectIds
    <3>4. p \notin gone
      BY <3>1, <3>3 DEF Settings!ProjectIds
    <3> QED
      BY <1>8, <3>1, <3>3, <3>4 DEF Settings!ProjectIds
  <2> QED
    BY <2>1
<1>13. PICK d1 : d1 = [L EXCEPT !.conns = conns]
  OBVIOUS
<1>14. PICK d2 : d2 = [d1 EXCEPT !.active = active]
  OBVIOUS
<1>15. PICK d3 : d3 = [d2 EXCEPT !.projects = projects]
  OBVIOUS
<1>16. PICK s : s = [d3 EXCEPT !.assigned = assigned]
  OBVIOUS
<1>17. Settings!WithoutConnection(id) =
         [L EXCEPT !.conns = Settings!Others(@, id),
                   !.active = IF @ = id THEN NoId ELSE @,
                   !.projects = @ \ gone,
                   !.assigned = [t \in {u \in DOMAIN @ : @[u] \notin Settings!ProjectIds(gone)}
                                   |-> @[t]]]
  BY <1>1, <1>3 DEF Settings!WithoutConnection
<1>18. Settings!WithoutConnection(id) = s
  BY <1>2, <1>4, <1>6, <1>8, <1>10, <1>13, <1>14, <1>15, <1>16, <1>17 DEF Settings!Contents
<1>19. /\ d1 \in Settings!Contents /\ d1.conns = conns
       /\ d1.projectless = L.projectless /\ d1.password = L.password
  BY <1>2, <1>5, <1>13, ConnsSet
<1>20. /\ d2 \in Settings!Contents /\ d2.conns = conns /\ d2.active = active
       /\ d2.projectless = L.projectless /\ d2.password = L.password
  BY <1>7, <1>14, <1>19, ActiveSet
<1>21. /\ d3 \in Settings!Contents /\ d3.conns = conns /\ d3.active = active
       /\ d3.projects = projects
       /\ d3.projectless = L.projectless /\ d3.password = L.password
  BY <1>9, <1>15, <1>20, ProjectsSet
<1>22. /\ s \in Settings!Contents /\ s.conns = conns /\ s.active = active
       /\ s.projects = projects /\ s.assigned = assigned
       /\ s.projectless = L.projectless /\ s.password = L.password
  BY <1>11, <1>16, <1>21, AssignedSet
<1>23. active \in Settings!Ids(conns) \cup {NoId}
  BY <1>2, <1>5, <1>6 DEF Sound, Refers
<1>24. \A p \in projects : p.host \in Settings!Ids(conns) \cup {Local}
  BY <1>2, <1>3, <1>5, <1>8 DEF Sound, Refers
<1>25. Sound(s)
  BY <1>2, <1>5, <1>11, <1>12, <1>22, <1>23, <1>24 DEF Sound, Refers, Apart
<1>26. Settings!Save(s)
  BY <1>18 DEF Settings!DeleteConnection
<1> QED
  BY <1>1, <1>22, <1>25, <1>26, SaveStores DEF Writes

\* A thread is assigned to a project that is there, and is no longer projectless.
LEMMA AssignmentStores ==
  ASSUME Stored, NEW t \in Threads, NEW pid, 
         pid \in Settings!ProjectIds(Settings!Loaded.projects),
         Settings!Save(Settings!Assignment(t, pid))
  PROVE  Stores
<1>1. PICK L : L = Settings!Loaded
  OBVIOUS
<1>2. Sound(L) /\ L \in Settings!Contents
  BY <1>1, LoadedIs
<1>3. PICK assigned :
        assigned = [u \in DOMAIN L.assigned \cup {t} |-> IF u = t THEN pid ELSE L.assigned[u]]
  OBVIOUS
<1>4. pid \in Projects
  <2>1. PICK p \in L.projects : p.id = pid
    BY <1>1 DEF Settings!ProjectIds
  <2>2. p \in Settings!Project
    BY <1>2, <2>1, ContentsAre
  <2> QED
    BY <2>1, <2>2 DEF Settings!Project
<1>5. assigned \in Assignments
  <2>1. PICK D \in SUBSET Threads : L.assigned \in [D -> Projects]
    BY <1>2, ContentsAre, AssignmentsAre
  <2>2. PICK E \in SUBSET Threads : E = D \cup {t}
    BY <2>1
  <2>3. assigned \in [E -> Projects]
    BY <1>3, <1>4, <2>1, <2>2
  <2> QED
    BY <2>2, <2>3, AssignmentsAre
<1>6. PICK projectless : projectless = L.projectless \ {t}
  OBVIOUS
<1>7. projectless \in SUBSET Threads
  BY <1>2, <1>6, ContentsAre
<1>8. PICK d : d = [L EXCEPT !.assigned = assigned]
  OBVIOUS
<1>9. PICK s : s = [d EXCEPT !.projectless = projectless]
  OBVIOUS
<1>10. Settings!Save(s)
  BY <1>1, <1>2, <1>3, <1>6, <1>8, <1>9 DEF Settings!Assignment, Settings!Contents
<1>11. /\ d \in Settings!Contents /\ d.conns = L.conns /\ d.active = L.active
       /\ d.projects = L.projects /\ d.assigned = assigned /\ d.password = L.password
  BY <1>2, <1>5, <1>8, AssignedSet
<1>12. /\ s \in Settings!Contents /\ s.conns = L.conns /\ s.active = L.active
       /\ s.projects = L.projects /\ s.assigned = assigned
       /\ s.projectless = projectless /\ s.password = L.password
  BY <1>7, <1>9, <1>11, ProjectlessSet
<1>13. Refers(s)
  <2>1. \A u \in DOMAIN assigned : assigned[u] \in Settings!ProjectIds(L.projects)
    BY <1>1, <1>2, <1>3 DEF Sound, Refers
  <2>2. DOMAIN assigned \cap (projectless \ Desktop) = {}
    BY <1>2, <1>3, <1>6 DEF Sound, Refers, Apart
  <2> QED
    BY <1>2, <1>12, <2>1, <2>2 DEF Sound, Refers, Apart
<1>14. Sound(s)
  BY <1>2, <1>12, <1>13 DEF Sound
<1>15. Writes(s)
  BY <1>1, <1>10, <1>12, <1>14, SaveStores
<1> QED
  BY <1>1, <1>12, <1>15, WriteKeeps DEF Writes, Stores

LEMMA AssignThreadStores ==
  ASSUME Stored, NEW t \in Threads, NEW host, NEW path, Settings!AssignThread(t, host, path)
  PROVE  Stores
<1>1. CASE \E p \in Settings!Loaded.projects : Settings!Save(Settings!Assignment(t, p.id))
  <2>1. PICK p \in Settings!Loaded.projects : Settings!Save(Settings!Assignment(t, p.id))
    BY <1>1
  <2>2. p.id \in Settings!ProjectIds(Settings!Loaded.projects)
    BY DEF Settings!ProjectIds
  <2> QED
    BY <2>1, <2>2, AssignmentStores
<1>2. CASE Settings!Save([Settings!Loaded EXCEPT !.assigned = [u \in DOMAIN @ \ {t} |-> @[u]],
                                                 !.projectless = @ \cup {t}])
  <2>1. PICK L : L = Settings!Loaded
    OBVIOUS
  <2>2. Sound(L) /\ L \in Settings!Contents
    BY <2>1, LoadedIs
  <2>3. PICK assigned : assigned = [u \in DOMAIN L.assigned \ {t} |-> L.assigned[u]]
    OBVIOUS
  <2>4. assigned \in Assignments
    <3>1. PICK D \in SUBSET Threads : L.assigned \in [D -> Projects]
      BY <2>2, ContentsAre, AssignmentsAre
    <3>2. PICK E \in SUBSET Threads : E = D \ {t}
      BY <3>1
    <3>3. assigned \in [E -> Projects]
      BY <2>3, <3>1, <3>2
    <3> QED
      BY <3>2, <3>3, AssignmentsAre
  <2>5. PICK projectless : projectless = L.projectless \cup {t}
    OBVIOUS
  <2>6. projectless \in SUBSET Threads
    BY <2>2, <2>5, ContentsAre
  <2>7. PICK d : d = [L EXCEPT !.assigned = assigned]
    OBVIOUS
  <2>8. PICK s : s = [d EXCEPT !.projectless = projectless]
    OBVIOUS
  <2>9. Settings!Save(s)
    BY <1>2, <2>1, <2>2, <2>3, <2>5, <2>7, <2>8 DEF Settings!Contents
  <2>10. /\ d \in Settings!Contents /\ d.conns = L.conns /\ d.active = L.active
         /\ d.projects = L.projects /\ d.assigned = assigned /\ d.password = L.password
    BY <2>2, <2>4, <2>7, AssignedSet
  <2>11. /\ s \in Settings!Contents /\ s.conns = L.conns /\ s.active = L.active
         /\ s.projects = L.projects /\ s.assigned = assigned
         /\ s.projectless = projectless /\ s.password = L.password
    BY <2>6, <2>8, <2>10, ProjectlessSet
  <2>12. /\ \A u \in DOMAIN assigned : assigned[u] \in Settings!ProjectIds(L.projects)
         /\ DOMAIN assigned \cap (projectless \ Desktop) = {}
    BY <2>2, <2>3, <2>5 DEF Sound, Refers, Apart
  <2>13. Sound(s)
    BY <2>2, <2>11, <2>12 DEF Sound, Refers, Apart
  <2>14. Writes(s)
    BY <2>1, <2>9, <2>11, <2>13, SaveStores
  <2> QED
    BY <2>1, <2>11, <2>14, WriteKeeps DEF Writes, Stores
<1> QED
  BY <1>1, <1>2 DEF Settings!AssignThread

LEMMA CopyAssignmentStores ==
  ASSUME Stored, NEW source \in Threads, NEW t \in Threads, Settings!CopyAssignment(source, t)
  PROVE  Stores
<1>1. CASE /\ source \in DOMAIN Settings!Loaded.assigned
           /\ Settings!Save(Settings!Assignment(t, Settings!Loaded.assigned[source]))
  <2>1. Settings!Loaded.assigned[source] \in Settings!ProjectIds(Settings!Loaded.projects)
    BY <1>1, LoadedIs DEF Sound, Refers
  <2> QED
    BY <1>1, <2>1, AssignmentStores
<1>2. CASE Settings!Save([Settings!Loaded EXCEPT !.projectless = @ \cup {t}])
  <2>1. PICK L : L = Settings!Loaded
    OBVIOUS
  <2>2. Sound(L) /\ L \in Settings!Contents /\ t \notin DOMAIN L.assigned
    BY <2>1, LoadedIs DEF Settings!CopyAssignment
  <2>3. PICK projectless : projectless = L.projectless \cup {t}
    OBVIOUS
  <2>4. projectless \in SUBSET Threads
    BY <2>2, <2>3, ContentsAre
  <2>5. PICK s : s = [L EXCEPT !.projectless = projectless]
    OBVIOUS
  <2>6. Settings!Save(s)
    BY <1>2, <2>1, <2>2, <2>3, <2>5 DEF Settings!Contents
  <2>7. /\ s \in Settings!Contents /\ s.conns = L.conns /\ s.active = L.active
        /\ s.projects = L.projects /\ s.assigned = L.assigned
        /\ s.projectless = projectless /\ s.password = L.password
    BY <2>2, <2>4, <2>5, ProjectlessSet
  <2>8. Sound(s)
    BY <2>2, <2>3, <2>7 DEF Sound, Refers, Apart
  <2>9. Writes(s)
    BY <2>1, <2>6, <2>7, <2>8, SaveStores
  <2> QED
    BY <2>1, <2>7, <2>9, WriteKeeps DEF Writes, Stores
<1> QED
  BY <1>1, <1>2 DEF Settings!CopyAssignment

LEMMA SaveSectionStores ==
  ASSUME Stored, Settings!SaveSection
  PROVE  Stores
<1>1. PICK s : s = Settings!Loaded
  OBVIOUS
<1>2. Sound(s) /\ Settings!Save(s)
  BY <1>1, LoadedIs DEF Settings!SaveSection
<1>3. Writes(s)
  BY <1>1, <1>2, SaveStores
<1> QED
  BY <1>1, <1>3, WriteKeeps DEF Writes, Stores

LEMMA SaveAuthStores ==
  ASSUME Stored, NEW enabled \in BOOLEAN, NEW password \in BOOLEAN,
         Settings!SaveAuth(enabled, password)
  PROVE  Stores
<1>1. PICK s : s = [Settings!Loaded EXCEPT !.password = enabled]
  OBVIOUS
<1>2. Sound(Settings!Loaded) /\ Settings!Loaded \in Settings!Contents
  BY LoadedIs
<1>3. /\ s \in Settings!Contents /\ s.conns = Settings!Loaded.conns
      /\ s.active = Settings!Loaded.active
      /\ s.projects = Settings!Loaded.projects /\ s.assigned = Settings!Loaded.assigned
      /\ s.projectless = Settings!Loaded.projectless /\ s.password = enabled
  BY <1>1, <1>2, PasswordSet
<1>4. Sound(s)
  BY <1>2, <1>3 DEF Sound, Refers, Apart
<1>5. /\ Settings!Write(s) /\ UNCHANGED page
      /\ auth' = s.password \/ failed'
      /\ auth' \in BOOLEAN /\ failed' \in BOOLEAN
  BY <1>1, <1>3 DEF Settings!SaveAuth, Stored
<1>6. Writes(s)
  BY <1>4, <1>5, WriteStores
<1> QED
  BY <1>3, <1>6, WriteKeeps DEF Writes, Stores

\* A page's list of connections drops projects only if it is not the one that is stored.
LEMMA SaveAppStores ==
  ASSUME Stored, Settings!SaveApp
  PROVE  Stored' /\ (page.conns = Settings!Loaded.conns => Stores)
<1>1. PICK L : L = Settings!Loaded
  OBVIOUS
<1>2. Sound(L) /\ L \in Settings!Contents
  BY <1>1, LoadedIs
<1>3. PICK d : d = [L EXCEPT !.conns = page.conns]
  OBVIOUS
<1>4. PICK e : e = [d EXCEPT !.active = page.active]
  OBVIOUS
<1>5. page.conns \in Connections /\ page.active \in Hosts \cup {NoId}
  BY DEF Stored
<1>6. /\ d \in Settings!Contents /\ d.conns = page.conns /\ d.projects = L.projects
      /\ d.assigned = L.assigned /\ d.projectless = L.projectless /\ d.password = L.password
  BY <1>2, <1>3, <1>5, ConnsSet
<1>7. /\ e \in Settings!Contents /\ e.conns = page.conns /\ e.projects = L.projects
      /\ e.assigned = L.assigned /\ e.projectless = L.projectless /\ e.password = L.password
  BY <1>4, <1>5, <1>6, ActiveSet
<1>8. Apart(e)
  BY <1>2, <1>7 DEF Sound, Refers, Apart
<1>9. PICK s : s = Settings!Finalize(e)
  OBVIOUS
<1>10. Sound(s)
  BY <1>7, <1>8, <1>9, FinalizeSound
<1>11. /\ s.conns = Settings!NormalizeConnections(e.conns) /\ s.password = e.password
       /\ s.projects = {p \in e.projects : p.host \in Settings!Ids(s.conns) \cup {Local}}
  BY <1>7, <1>9, FinalizeIs
<1>12. Settings!Save(s)
  <2>1. e = [L EXCEPT !.conns = page.conns, !.active = page.active]
    BY <1>2, <1>3, <1>4 DEF Settings!Contents
  <2> QED
    BY <1>1, <1>9, <2>1 DEF Settings!SaveApp
<1>13. Writes(s)
  BY <1>1, <1>7, <1>10, <1>11, <1>12, SaveStores
<1>14. ASSUME page.conns = L.conns PROVE s.projects = L.projects
  <2>1. Settings!Ids(s.conns) = Settings!Ids(L.conns)
    BY <1>2, <1>5, <1>7, <1>11, <1>14, SettledStays DEF Sound
  <2> QED
    BY <1>2, <1>7, <1>11, <2>1 DEF Sound, Refers
<1> QED
  BY <1>1, <1>13, <1>14, WriteKeeps DEF Writes, Stores

LEMMA FileRests ==
  ASSUME Stored, UNCHANGED file
  PROVE  /\ Settings!Loaded' = Settings!Loaded /\ Password' = Password
         /\ (Settings!Whole => Sound(file))'
         /\ \A p \in Settings!Loaded.projects : p \in Settings!Loaded'.projects
BY DEF Stored, Settings!Loaded, Settings!Whole, Password

\* Every step leaves what is stored sound, and keeps the projects but for the exceptions.
LEMMA StoredStep ==
  ASSUME Stored, Settings!Next
  PROVE  Stored' /\ Settings!EditKeepsProjectsStep
<1> DEFINE Kept == Settings!EditKeepsProjectsStep
<1>0. Stores => Stored' /\ Kept
  BY DEF Stores, Settings!EditKeepsProjectsStep
<1>1. CASE Settings!CrashInWrite
  <2>1. /\ file' \in Settings!Torn /\ up' = FALSE /\ UNCHANGED <<auth, failed, page>>
        /\ saves < MaxSaves /\ saves' = saves + 1
        /\ storeCrashes < MaxCrashes /\ storeCrashes' = storeCrashes + 1
    BY <1>1 DEF Settings!CrashInWrite
  <2>2. Kept
    BY <2>1 DEF Settings!EditKeepsProjectsStep
  <2>3. saves' \in 0 .. MaxSaves /\ storeCrashes' \in 0 .. MaxCrashes
    <3>1. MaxSaves \in Nat /\ MaxCrashes \in Nat
      BY ComponentConstants DEF Settings!SettingsConstants
    <3> QED
      BY <2>1, <3>1 DEF Stored
  <2> QED
    BY <2>1, <2>2, <2>3 DEF Stored, Settings!Whole
<1>15. CASE Settings!WriteRaises
  <2>1. /\ file' \in Settings!Torn /\ failed' = TRUE /\ UNCHANGED <<auth, page>>
        /\ saves < MaxSaves /\ saves' = saves + 1 /\ UNCHANGED <<up, storeCrashes>>
    BY <1>15 DEF Settings!WriteRaises, Settings!Write
  <2>2. Kept
    BY <2>1 DEF Settings!EditKeepsProjectsStep
  <2>3. saves' \in 0 .. MaxSaves
    <3>1. MaxSaves \in Nat
      BY ComponentConstants DEF Settings!SettingsConstants
    <3> QED
      BY <2>1, <3>1 DEF Stored
  <2> QED
    BY <2>1, <2>2, <2>3 DEF Stored, Settings!Whole
<1>2. CASE Settings!Restart
  <2>1. /\ up' = TRUE /\ auth' = Settings!Loaded.password /\ failed' = FALSE
        /\ UNCHANGED <<file, page, saves, storeCrashes>>
    BY <1>2 DEF Settings!Restart
  <2>2. auth' = Password'
    BY <2>1, LoadedIs, FileRests
  <2>3. auth' \in BOOLEAN
    BY <2>1, LoadedIs, ContentsAre
  <2> QED
    BY <1>0, <2>1, <2>2, <2>3, FileRests DEF Stores, Stored
<1>3. CASE Settings!ReadConfig
  <2>1. /\ page' = [conns |-> Settings!Loaded.conns, active |-> Settings!Loaded.active]
        /\ UNCHANGED <<file, auth, up, failed, saves, storeCrashes>>
    BY <1>3 DEF Settings!ReadConfig
  <2>2. page'.conns \in Connections /\ page'.active \in Hosts \cup {NoId}
    BY <2>1, LoadedIs, ContentsAre
  <2> QED
    BY <1>0, <2>1, <2>2, FileRests DEF Stores, Stored
<1>4. CASE Settings!SaveApp
  <2>1. Stored' /\ (page.conns = Settings!Loaded.conns => Stores)
    BY <1>4, SaveAppStores
  <2>2. page.conns # Settings!Loaded.conns => Kept
    BY <1>4 DEF Settings!EditKeepsProjectsStep, Settings!StalePage
  <2> QED
    BY <1>0, <2>1, <2>2
<1>5. CASE Settings!SaveSection
  BY <1>0, <1>5, SaveSectionStores
<1>6. CASE \E id \in Hosts \cup {NoId}, host \in Hosts, auto \in BOOLEAN :
             Settings!SaveConnection(id, host, auto)
  BY <1>0, <1>6, SaveConnectionStores
<1>7. CASE \E id \in Hosts, auto \in BOOLEAN : Settings!SetAutoConnect(id, auto)
  BY <1>0, <1>7, SetAutoConnectStores
<1>8. CASE \E id \in Hosts : Settings!DeleteConnection(id)
  <2>1. Stored'
    BY <1>8, DeleteConnectionStores
  <2>2. Kept
    BY <1>8 DEF Settings!EditKeepsProjectsStep
  <2> QED
    BY <2>1, <2>2
<1>9. CASE \E id \in Hosts \cup {NoId} : Settings!SetActive(id)
  BY <1>0, <1>9, SetActiveStores
<1>10. CASE \E pid \in Projects, host \in Hosts \cup {Local}, path \in Paths :
              Settings!SaveProject(pid, host, path)
  BY <1>0, <1>10, SaveProjectStores
<1>11. CASE \E pid \in Projects : Settings!DeleteProject(pid)
  <2>1. Stored'
    BY <1>11, DeleteProjectStores
  <2>2. Kept
    BY <1>11 DEF Settings!EditKeepsProjectsStep
  <2> QED
    BY <2>1, <2>2
<1>12. CASE \E t \in Threads, host \in Hosts \cup {Local}, path \in Paths :
              Settings!AssignThread(t, host, path)
  BY <1>0, <1>12, AssignThreadStores
<1>13. CASE \E s, t \in Threads : s # t /\ Settings!CopyAssignment(s, t)
  BY <1>0, <1>13, CopyAssignmentStores
<1>14. CASE \E enabled, password \in BOOLEAN : Settings!SaveAuth(enabled, password)
  BY <1>0, <1>14, SaveAuthStores
<1> QED
  BY <1>1, <1>2, <1>3, <1>4, <1>5, <1>6, <1>7, <1>8, <1>9, <1>10, <1>11, <1>12, <1>13, <1>14,
     <1>15
     DEF Settings!Next

LEMMA StoredHolds == Spec => []Stored /\ [][Settings!Next]_settings
<1>1. Settings!Init => Stored
  <2>1. MaxSaves \in Nat /\ MaxCrashes \in Nat
    BY ComponentConstants DEF Settings!SettingsConstants
  <2>2. <<>> \in Connections
    BY DEF Connections
  <2>3. 0 \in 0 .. MaxSaves /\ 0 \in 0 .. MaxCrashes
    BY <2>1
  <2>4. ASSUME Settings!Init PROVE page.conns \in Connections /\ page.active = NoId
    <3>1. page = [conns |-> <<>>, active |-> NoId]
      BY <2>4 DEF Settings!Init
    <3> QED
      BY <2>2, <3>1
  <2> QED
    BY <2>3, <2>4 DEF Settings!Init, Stored, Password, Settings!Whole, Settings!Torn
<1>2. Stored /\ [Settings!Next]_settings => Stored'
  <2>1. ASSUME Stored, UNCHANGED settings PROVE Stored'
    BY <2>1, FileRests DEF settings, Stored
  <2> QED
    BY <2>1, StoredStep
<1> QED
  BY <1>1, <1>2, EachAlone, PTL

\* What the file refers to is in the file, after any handlers in any order and after
\* torn writes; the password in force is the file's, but for a server in which a write has
\* raised, until a password is saved or it is restarted; and the recognizer is of the
\* configuration in force.
THEOREM CopiesAgreeHolds == Spec => []CopiesAgree
<1>1. Stored => Settings!SettingsAgree
  <2>1. ASSUME Stored, Settings!Whole
        PROVE  DOMAIN file.assigned \cap (file.projectless \ Desktop) = {}
    BY <2>1 DEF Stored, Sound, Refers, Apart
  <2> QED
    BY <2>1 DEF Stored, Sound, Refers, Password, Settings!SettingsAgree
<1>2. Settings!SettingsAgree /\ Recognition!RecognizerIsCurrent => CopiesAgree
  BY DEF CopiesAgree
<1> QED
  BY <1>1, <1>2, StoredHolds, RecognizerIsCurrentHolds, PTL

\* No handler but the deletions loses a project: not an edit of its connection, which
\* moves it in the list and may change its host.  A page that saves an old list and a
\* torn file are the exceptions.
THEOREM EditKeepsProjectsHolds == Spec => EditKeepsProjects
<1>1. Stored /\ [Settings!Next]_settings =>
        [part = "settings" => Settings!EditKeepsProjectsStep]_settings
  BY StoredStep
<1> QED
  BY <1>1, StoredHolds, PTL DEF EditKeepsProjects
-----------------------------------------------------------------------------
(***************************************************************************)
(* The ids of the connections.                                             *)
(***************************************************************************)
\* A connection is made to a host whose name is an id already.
Doubles ==
  \E host \in Hosts, auto \in BOOLEAN :
    Settings!SaveConnection(NoId, host, auto) /\ host \in Settings!Ids(Settings!Loaded.conns)

OneIdEach ==
  /\ Settings!Whole => Distinct(file.conns)
  /\ Settled(page.conns) /\ Distinct(page.conns)

LEMMA LoadedDistinct ==
  ASSUME Stored, OneIdEach
  PROVE  Distinct(Settings!Loaded.conns) /\ Settled(Settings!Loaded.conns)
<1>1. PICK s : s = IF Settings!Whole THEN file ELSE Settings!Defaults
  OBVIOUS
<1>2. Len(<<>>) = 0 /\ Settings!Defaults.conns = <<>>
  BY DEF Settings!Defaults
<1>3. s \in Settings!Contents /\ Settled(s.conns) /\ Distinct(s.conns)
  <2>1. CASE Settings!Whole
    BY <1>1, <2>1 DEF Stored, Sound, OneIdEach
  <2>2. CASE ~Settings!Whole
    BY <1>1, <1>2, <2>2, DefaultsAre DEF Settled, Distinct
  <2> QED
    BY <2>1, <2>2
<1>4. Settings!Loaded.conns = Settings!NormalizeConnections(s.conns)
  BY <1>1, <1>3, FinalizeIs DEF Settings!Loaded
<1> QED
  BY <1>3, <1>4, ContentsAre, DistinctStays, NormalizeSettles

LEMMA WriteOneIdEach ==
  ASSUME OneIdEach, NEW s, Settings!Write(s), UNCHANGED page, Distinct(s.conns)
  PROVE  OneIdEach'
BY DEF Settings!Write, OneIdEach

\* A handler that leaves the connections alone.
LEMMA SameConnections ==
  ASSUME Stored, OneIdEach, NEW s, Settings!Save(s), s.conns = Settings!Loaded.conns
  PROVE  OneIdEach'
BY WriteOneIdEach, LoadedDistinct DEF Settings!Save

LEMMA OneIdEachStep ==
  ASSUME Stored, OneIdEach, [Settings!Next]_settings, [~Doubles]_settings
  PROVE  OneIdEach'
<1> DEFINE L == Settings!Loaded
<1>1. /\ L \in Settings!Contents /\ L.conns \in Connections
      /\ Distinct(L.conns) /\ Settled(L.conns)
  BY LoadedIs, LoadedDistinct, ContentsAre
<1>2. CASE Settings!CrashInWrite \/ Settings!WriteRaises
  BY <1>2 DEF Settings!CrashInWrite, Settings!WriteRaises, Settings!Write, Settings!Whole,
         OneIdEach
<1>3. CASE Settings!Restart
  BY <1>3 DEF Settings!Restart, Settings!Whole, OneIdEach
<1>4. CASE Settings!ReadConfig
  <2>1. page' = [conns |-> L.conns, active |-> L.active] /\ UNCHANGED file
    BY <1>4 DEF Settings!ReadConfig
  <2>2. page'.conns = L.conns
    BY <2>1
  <2> QED
    BY <1>1, <2>1, <2>2 DEF Settings!Whole, OneIdEach
<1>5. CASE Settings!SaveApp
  <2>1. PICK e : e = [L EXCEPT !.conns = page.conns, !.active = page.active]
    OBVIOUS
  <2>2. page.conns \in Connections /\ page.active \in Hosts \cup {NoId}
    BY DEF Stored
  <2>3. e \in Settings!Contents /\ e.conns = page.conns
    BY <1>1, <2>1, <2>2 DEF Settings!Contents, Connections
  <2>4. Settings!Finalize(e).conns = Settings!NormalizeConnections(page.conns)
    BY <2>3, FinalizeIs
  <2>5. Distinct(Settings!Finalize(e).conns)
    BY <2>2, <2>4, DistinctStays DEF OneIdEach
  <2> QED
    BY <1>5, <2>1, <2>5, WriteOneIdEach DEF Settings!SaveApp, Settings!Save
<1>6. CASE Settings!SaveSection
  BY <1>6, SameConnections DEF Settings!SaveSection
<1>7. ASSUME NEW id \in Hosts \cup {NoId}, NEW host \in Hosts, NEW auto \in BOOLEAN,
             Settings!SaveConnection(id, host, auto), ~Doubles
      PROVE  OneIdEach'
  <2>1. PICK v : v = Settings!Saved(id, host, auto)
    OBVIOUS
  <2>2. id = NoId => host \notin Settings!Ids(L.conns)
    BY <1>7 DEF Doubles
  <2>3. v \in Connections /\ Distinct(v)
    BY <1>1, <2>1, <2>2, SavedIs
  <2>4. [L EXCEPT !.conns = v].conns = v
    BY <1>1, <2>3, ConnsSet
  <2> QED
    BY <1>7, <2>1, <2>3, <2>4, WriteOneIdEach DEF Settings!SaveConnection, Settings!Save
<1>8. ASSUME NEW id \in Hosts, NEW auto \in BOOLEAN, Settings!SetAutoConnect(id, auto)
      PROVE  OneIdEach'
  <2>1. PICK i \in DOMAIN L.conns : Settings!Save([L EXCEPT !.conns[i].auto = auto])
    BY <1>8 DEF Settings!SetAutoConnect
  <2>2. PICK v : v = [L.conns EXCEPT ![i].auto = auto]
    OBVIOUS
  <2>3. L.conns[i] \in Settings!Connection
    BY <1>1, <2>1 DEF Connections
  <2>4. Len(v) = Len(L.conns) /\ \A j \in 1 .. Len(v) : v[j].id = L.conns[j].id
    BY <1>1, <2>1, <2>2, <2>3 DEF Connections, Settings!Connection
  <2>5. Distinct(v)
    BY <1>1, <2>4 DEF Distinct
  <2>6. [L EXCEPT !.conns[i].auto = auto].conns = v
    BY <1>1, <2>2 DEF Settings!Contents
  <2> QED
    BY <2>1, <2>5, <2>6, WriteOneIdEach DEF Settings!Save
<1>9. ASSUME NEW id \in Hosts, Settings!DeleteConnection(id) PROVE OneIdEach'
  <2>1. Settings!WithoutConnection(id).conns = Settings!Others(L.conns, id)
    BY <1>1 DEF Settings!WithoutConnection, Settings!Contents
  <2>2. Distinct(Settings!Others(L.conns, id))
    BY <1>1, OthersIs
  <2> QED
    BY <1>9, <2>1, <2>2, WriteOneIdEach DEF Settings!DeleteConnection, Settings!Save
<1>10. ASSUME NEW id \in Hosts \cup {NoId}, Settings!SetActive(id) PROVE OneIdEach'
  <2>1. [L EXCEPT !.active = id].conns = L.conns
    BY <1>1 DEF Settings!Contents
  <2> QED
    BY <1>10, <2>1, SameConnections DEF Settings!SetActive
<1>11. ASSUME NEW pid \in Projects, NEW host \in Hosts \cup {Local}, NEW path \in Paths,
              Settings!SaveProject(pid, host, path)
       PROVE  OneIdEach'
  <2>1. PICK s : /\ s = [L EXCEPT !.projects =
                           @ \cup {[id |-> pid, host |-> host, path |-> path]}]
                 /\ Settings!Save(s)
    BY <1>11 DEF Settings!SaveProject
  <2>2. s.conns = L.conns
    BY <1>1, <2>1 DEF Settings!Contents
  <2> QED
    BY <2>1, <2>2, SameConnections
<1>12. ASSUME NEW pid \in Projects, Settings!DeleteProject(pid) PROVE OneIdEach'
  <2>1. Settings!WithoutProject(pid).conns = L.conns
    BY <1>1 DEF Settings!WithoutProject, Settings!Contents
  <2> QED
    BY <1>12, <2>1, SameConnections DEF Settings!DeleteProject
<1>13. ASSUME NEW t \in Threads, NEW pid, Settings!Save(Settings!Assignment(t, pid))
       PROVE  OneIdEach'
  <2>1. Settings!Assignment(t, pid).conns = L.conns
    BY <1>1 DEF Settings!Assignment, Settings!Contents
  <2> QED
    BY <1>13, <2>1, SameConnections
<1>14. ASSUME NEW t \in Threads, NEW host, NEW path, Settings!AssignThread(t, host, path)
       PROVE  OneIdEach'
  <2>1. CASE \E p \in L.projects : Settings!Save(Settings!Assignment(t, p.id))
    BY <1>13, <2>1
  <2>2. CASE Settings!Save([L EXCEPT !.assigned = [u \in DOMAIN @ \ {t} |-> @[u]],
                                     !.projectless = @ \cup {t}])
    <3>1. PICK s : /\ s = [L EXCEPT !.assigned = [u \in DOMAIN @ \ {t} |-> @[u]],
                                    !.projectless = @ \cup {t}]
                   /\ Settings!Save(s)
      BY <2>2
    <3>2. s.conns = L.conns
      BY <1>1, <3>1 DEF Settings!Contents
    <3> QED
      BY <3>1, <3>2, SameConnections
  <2> QED
    BY <1>14, <2>1, <2>2 DEF Settings!AssignThread
<1>15. ASSUME NEW source \in Threads, NEW t \in Threads, Settings!CopyAssignment(source, t)
       PROVE  OneIdEach'
  <2>1. CASE Settings!Save(Settings!Assignment(t, L.assigned[source]))
    BY <1>13, <2>1
  <2>2. CASE Settings!Save([L EXCEPT !.projectless = @ \cup {t}])
    <3>1. [L EXCEPT !.projectless = @ \cup {t}].conns = L.conns
      BY <1>1 DEF Settings!Contents
    <3> QED
      BY <2>2, <3>1, SameConnections
  <2> QED
    BY <1>15, <2>1, <2>2 DEF Settings!CopyAssignment
<1>16. ASSUME NEW enabled \in BOOLEAN, NEW password \in BOOLEAN,
              Settings!SaveAuth(enabled, password)
       PROVE  OneIdEach'
  <2>1. [L EXCEPT !.password = enabled].conns = L.conns
    BY <1>1 DEF Settings!Contents
  <2> QED
    BY <1>1, <1>16, <2>1, WriteOneIdEach DEF Settings!SaveAuth
<1>17. CASE UNCHANGED settings
  BY <1>17 DEF settings, OneIdEach, Settings!Whole
<1>18. CASE Settings!Next /\ ~Doubles
  BY <1>2, <1>3, <1>4, <1>5, <1>6, <1>7, <1>8, <1>9, <1>10, <1>11, <1>12, <1>14, <1>15,
     <1>16, <1>18 DEF Settings!Next
<1> QED
  BY <1>17, <1>18

\* Two connections come to share an id in one way only: the user adds one whose host's
\* name is the id of another.  No edit, deletion, page's copy or restart does it.
THEOREM OneWayToDouble == Spec /\ [][~Doubles]_settings => []UniqueConnectionIds
<1>1. Settings!Init => OneIdEach
  <2> SUFFICES ASSUME Settings!Init PROVE OneIdEach
    OBVIOUS
  <2>1. page = [conns |-> <<>>, active |-> NoId] /\ file = NoFile
    BY DEF Settings!Init
  <2>2. page.conns = <<>> /\ Len(<<>>) = 0
    BY <2>1
  <2> QED
    BY <2>1, <2>2 DEF OneIdEach, Settled, Distinct, Settings!Whole, Settings!Torn
<1>2. Stored /\ OneIdEach /\ [Settings!Next]_settings /\ [~Doubles]_settings => OneIdEach'
  BY OneIdEachStep
<1>3. Stored /\ OneIdEach => UniqueConnectionIds
  <2> SUFFICES ASSUME Stored, OneIdEach, Settings!Whole
               PROVE  \A i, j \in DOMAIN file.conns :
                        file.conns[i].id = file.conns[j].id => i = j
    BY DEF UniqueConnectionIds, Settings!UniqueConnectionIds
  <2>1. file.conns \in Connections
    BY ContentsAre DEF Stored, Sound
  <2>2. DOMAIN file.conns = 1 .. Len(file.conns)
    BY <2>1 DEF Connections
  <2> QED
    BY <2>2 DEF OneIdEach, Distinct
<1> QED
  BY <1>1, <1>2, <1>3, StoredHolds, EachAlone, PTL
=============================================================================
