---------------------------- MODULE TurnSyncProofs ----------------------------
(***************************************************************************)
(* The browser's copy of a thread's turns converges to what is published,  *)
(* for any number of turns, items, edits and waiting deltas, and texts of  *)
(* any length.  The recursive functions of the model run through lists of  *)
(* patches, ids and deltas; what they compute is proved by induction,      *)
(* which is done on sets, from the fact that < is well-founded on Nat.     *)
(***************************************************************************)
EXTENDS TurnSync, TLAPS, WellFoundedInduction
-----------------------------------------------------------------------------
(***************************************************************************)
(* Induction.                                                              *)
(***************************************************************************)
LEMMA SetInduction ==
  ASSUME NEW S, 0 \in S, \A n \in Nat : n \in S => n + 1 \in S
  PROVE  Nat \subseteq S
<1>1. SUFFICES ASSUME NEW T, T = Nat \ S, T # {} PROVE FALSE
  OBVIOUS
<1>2. PICK R : R = OpToRel(<, Nat)
  OBVIOUS
<1>3. IsWellFoundedOn(R, Nat)
  BY <1>2, NatLessThanWellFounded
<1>4. PICK x \in T : \A y \in T : <<y, x>> \notin R
  BY <1>1, <1>3, WFMin
<1>5. x \in Nat /\ x # 0
  BY <1>1, <1>4
<1>6. x - 1 \in Nat /\ x - 1 < x /\ (x - 1) + 1 = x
  BY <1>5
<1>7. <<x - 1, x>> \in R
  BY <1>2, <1>5, <1>6 DEF OpToRel
<1>8. x - 1 \in S
  BY <1>1, <1>4, <1>6, <1>7
<1> QED
  BY <1>1, <1>4, <1>6, <1>8
-----------------------------------------------------------------------------
(***************************************************************************)
(* Patches.                                                                *)
(***************************************************************************)
LEMMA Bounds ==
  /\ MaxTurns \in Nat /\ MaxItems \in Nat /\ MaxText \in Nat /\ MaxText > 0
  /\ MaxEdits \in Nat /\ MaxFrames \in Nat /\ MaxLosses \in Nat
BY SyncAssumption DEF SyncAssumption

LEMMA SeqOfIs ==
  ASSUME NEW S, NEW max \in Nat, NEW f
  PROVE  f \in SeqOf(S, max) <=> f \in Seq(S) /\ Len(f) <= max
<1>1. ASSUME f \in SeqOf(S, max) PROVE f \in Seq(S) /\ Len(f) <= max
  <2>1. PICK n \in 0 .. max : f \in [1 .. n -> S]
    BY <1>1 DEF SeqOf
  <2>2. f \in Seq(S)
    BY <2>1
  <2>3. Len(f) = n
    BY <2>1
  <2> QED
    BY <2>1, <2>2, <2>3
<1>2. ASSUME f \in Seq(S), Len(f) <= max PROVE f \in SeqOf(S, max)
  <2>1. Len(f) \in 0 .. max /\ f \in [1 .. Len(f) -> S]
    BY <1>2
  <2> QED
    BY <2>1 DEF SeqOf
<1> QED
  BY <1>1, <1>2

Letters == {"a", "b"}

LEMMA TextIs == \A t : t \in Text <=> t \in Seq(Letters) /\ Len(t) <= MaxText
BY SeqOfIs, Bounds DEF Text, Letters

LEMMA ItemsAre == \A s : s \in SeqOf(Text, MaxItems) <=> s \in Seq(Text) /\ Len(s) <= MaxItems
BY SeqOfIs, Bounds

FieldMaps == UNION {[F -> Values] : F \in SUBSET Fields}

LEMMA TurnIs ==
  ASSUME NEW t
  PROVE  t \in Turn <=> 
           /\ t = [id |-> t.id, fields |-> t.fields, items |-> t.items]
           /\ t.id \in TurnIds /\ t.fields \in FieldMaps
           /\ t.items \in Seq(Text) /\ Len(t.items) <= MaxItems
<1>1. t.items \in SeqOf(Text, MaxItems) <=> t.items \in Seq(Text) /\ Len(t.items) <= MaxItems
  BY ItemsAre
<1>2. t \in Turn <=> 
        /\ t = [id |-> t.id, fields |-> t.fields, items |-> t.items]
        /\ t.id \in TurnIds /\ t.fields \in FieldMaps /\ t.items \in SeqOf(Text, MaxItems)
  BY DEF Turn, FieldMaps
<1> QED
  BY <1>1, <1>2

\* A text that was continued is the one before with what was appended.
LEMMA ItemPatchIs ==
  ASSUME NEW old \in Text, NEW new \in Text
  PROVE  LET q == ItemPatch(old, new) IN
         IF "item" \in DOMAIN q THEN q.item = new ELSE old \o q.append = new
<1>1. /\ old \in Seq(Letters) /\ new \in Seq(Letters)
  BY TextIs
<1>2. CASE IsPrefix(old, new)
  <2>1. PICK s : s = SubSeq(new, Len(old) + 1, Len(new))
    OBVIOUS
  <2>2. ItemPatch(old, new) = [append |-> s]
    BY <1>2, <2>1 DEF ItemPatch
  <2>3. Len(old) <= Len(new) /\ SubSeq(old, 1, Len(old)) = SubSeq(new, 1, Len(old))
    BY <1>2 DEF IsPrefix
  <2>4. \A i \in 1 .. Len(old) : old[i] = new[i]
    <3>1. ASSUME NEW i \in 1 .. Len(old) PROVE old[i] = new[i]
      <4>1. SubSeq(old, 1, Len(old))[i] = old[i] /\ SubSeq(new, 1, Len(old))[i] = new[i]
        BY <1>1, <2>3
      <4> QED
        BY <2>3, <4>1
    <3> QED
      BY <3>1
  <2>5. s \in Seq(Letters) /\ Len(s) = Len(new) - Len(old)
        /\ \A i \in 1 .. Len(s) : s[i] = new[Len(old) + i]
    BY <1>1, <2>1, <2>3
  <2>6. old \o s = new
    <3>1. PICK m \in Nat, n \in Nat : m = Len(old) /\ n = Len(new)
      BY <1>1
    <3>2. PICK r : r = old \o s
      OBVIOUS
    <3>3. /\ r \in Seq(Letters) /\ Len(r) = n
          /\ \A i \in 1 .. m : r[i] = old[i]
          /\ \A i \in 1 .. n : ~(i <= m) => r[i] = s[i - m]
      BY <1>1, <2>3, <2>5, <3>1, <3>2
    <3>4. ASSUME NEW i \in 1 .. n PROVE r[i] = new[i]
      <4>1. CASE i <= m
        BY <2>4, <3>1, <3>3, <4>1
      <4>2. CASE ~(i <= m)
        <5>1. PICK k \in 1 .. Len(s) : k = i - m
          <6>1. Len(s) = n - m /\ m <= n /\ i \in Int /\ i <= n /\ m < i
            BY <2>3, <2>5, <3>1, <4>2
          <6>2. i - m \in 1 .. n - m
            BY <3>1, <6>1
          <6> QED
            BY <6>1, <6>2
        <5>2. m + k = i
          BY <3>1, <5>1
        <5> QED
          BY <2>5, <3>1, <3>3, <4>2, <5>1, <5>2
      <4> QED
        BY <4>1, <4>2
    <3>5. DOMAIN r = 1 .. n /\ DOMAIN new = 1 .. n
      BY <1>1, <3>1, <3>3
    <3>6. r = new
      BY <1>1, <3>3, <3>4, <3>5
    <3> QED
      BY <3>2, <3>6
  <2> QED
    BY <2>2, <2>6
<1>3. CASE ~IsPrefix(old, new)
  BY <1>3 DEF ItemPatch
<1> QED
  BY <1>2, <1>3

\* A patch takes the turn it was made from to the one it was made for.
THEOREM PatchRestores ==
  ASSUME NEW old \in Turn, NEW new \in Turn, old.id = new.id
  PROVE  Patched(old, TurnPatch(old, new)) = new
<1>1. PICK patch : patch = TurnPatch(old, new)
  OBVIOUS
<1>2. PICK F \in SUBSET Fields, G \in SUBSET Fields :
        old.fields \in [F -> Values] /\ new.fields \in [G -> Values]
  <2>1. old.fields \in FieldMaps /\ new.fields \in FieldMaps
    BY TurnIs
  <2> QED
    BY <2>1 DEF FieldMaps
<1>3. /\ old.items \in Seq(Text) /\ new.items \in Seq(Text)
  BY TurnIs
<1>4. PICK changed : changed = {k \in G : k \notin F \/ old.fields[k] # new.fields[k]}
  OBVIOUS
<1>5. PICK items : items = {i \in DOMAIN new.items :
                              i > Len(old.items) \/ old.items[i] # new.items[i]}
  OBVIOUS
<1>6. patch = [set |-> [k \in changed |-> new.fields[k]],
               remove |-> F \ G,
               count |-> Len(new.items),
               items |-> [i \in items |-> IF i > Len(old.items) THEN [item |-> new.items[i]]
                                          ELSE ItemPatch(old.items[i], new.items[i])]]
  BY <1>1, <1>2, <1>4, <1>5 DEF TurnPatch
<1>7. Over(patch.set, Restrict(old.fields, DOMAIN old.fields \ patch.remove)) = new.fields
  <2>1. PICK r : r = Restrict(old.fields, DOMAIN old.fields \ patch.remove)
    OBVIOUS
  <2>2. r = [k \in F \cap G |-> old.fields[k]]
    <3>1. DOMAIN old.fields \ patch.remove = F \cap G
      BY <1>2, <1>6
    <3> QED
      BY <2>1, <3>1 DEF Restrict
  <2>3. PICK s : s = Over(patch.set, r)
    OBVIOUS
  <2>4. s = [k \in DOMAIN patch.set \cup DOMAIN r |->
               IF k \in DOMAIN patch.set THEN patch.set[k] ELSE r[k]]
    BY <2>3 DEF Over
  <2>5. DOMAIN patch.set = changed /\ \A k \in changed : patch.set[k] = new.fields[k]
    BY <1>6
  <2>6. changed \cup (F \cap G) = G
    BY <1>4
  <2>7. DOMAIN s = G
    BY <2>2, <2>4, <2>5, <2>6
  <2>8. \A k \in G : s[k] = new.fields[k]
    BY <1>4, <2>2, <2>4, <2>5, <2>6
  <2>9. s = [k \in G |-> s[k]]
    BY <2>4, <2>7
  <2> QED
    BY <1>2, <2>1, <2>3, <2>8, <2>9
<1>8. PICK list : list = [i \in 1 .. patch.count |->
        LET was == IF i <= Len(old.items) THEN old.items[i] ELSE None IN
          IF i \notin DOMAIN patch.items THEN was
          ELSE IF "item" \in DOMAIN patch.items[i] THEN patch.items[i].item
          ELSE IF was = None THEN None
          ELSE was \o patch.items[i].append]
  OBVIOUS
<1>9. ASSUME NEW i \in 1 .. Len(new.items) PROVE list[i] = new.items[i]
  <2>1. patch.count = Len(new.items) /\ DOMAIN patch.items = items /\ i \in DOMAIN new.items
    BY <1>3, <1>6
  <2>2. CASE i \notin items
    <3>1. i <= Len(old.items) /\ old.items[i] = new.items[i]
      BY <1>3, <1>5, <2>1, <2>2
    <3>2. list[i] = old.items[i]
      BY <1>8, <2>1, <2>2, <3>1
    <3> QED
      BY <3>1, <3>2
  <2>3. CASE i \in items /\ i > Len(old.items)
    <3>1. patch.items[i] = [item |-> new.items[i]]
      BY <1>6, <2>3
    <3>2. "item" \in DOMAIN patch.items[i] /\ patch.items[i].item = new.items[i]
      BY <3>1
    <3>3. list[i] = patch.items[i].item
      BY <1>8, <2>1, <2>3, <3>2
    <3> QED
      BY <3>2, <3>3
  <2>4. CASE i \in items /\ ~(i > Len(old.items))
    <3>1. i <= Len(old.items) /\ old.items[i] \in Text /\ new.items[i] \in Text
      BY <1>3, <2>4
    <3>2. old.items[i] # None
      BY <3>1, SyncAssumption DEF SyncAssumption
    <3>3. PICK q : q = ItemPatch(old.items[i], new.items[i])
      OBVIOUS
    <3>4. IF "item" \in DOMAIN q THEN q.item = new.items[i]
          ELSE old.items[i] \o q.append = new.items[i]
      BY <3>1, <3>3, ItemPatchIs
    <3>5. patch.items[i] = q
      BY <1>6, <2>4, <3>3
    <3> QED
      BY <1>8, <2>1, <2>4, <3>1, <3>2, <3>4, <3>5
  <2> QED
    BY <2>2, <2>3, <2>4
<1>10. list = new.items
  <2>1. list = [i \in 1 .. Len(new.items) |-> list[i]]
    BY <1>6, <1>8
  <2>2. new.items = [i \in 1 .. Len(new.items) |-> new.items[i]]
    BY <1>3
  <2> QED
    BY <1>9, <2>1, <2>2
<1>11. Patched(old, patch) = [id |-> old.id, fields |-> new.fields, items |-> new.items]
  BY <1>7, <1>8, <1>10 DEF Patched
<1> QED
  BY <1>1, <1>11, TurnIs
-----------------------------------------------------------------------------
(***************************************************************************)
(* Lists of patches.                                                       *)
(***************************************************************************)
RunNext(turn, patches, f, n) == IF n = 0 THEN turn ELSE Patched(f[n - 1], patches[n])
\* f is the run of the patches through the turn.
Run(turn, patches, f) == \A n \in 0 .. Len(patches) : f[n] = RunNext(turn, patches, f, n)

LEMMA RunExists ==
  ASSUME NEW turn, NEW patches, Len(patches) \in Nat
  PROVE  \E f : f = [n \in 0 .. Len(patches) |-> RunNext(turn, patches, f, n)]
<1> DEFINE S == {m \in Nat : \E f : \A i \in 0 .. m : f[i] = RunNext(turn, patches, f, i)}
<1>1. 0 \in S
  <2>1. PICK f : f = [i \in 0 .. 0 |-> turn]
    OBVIOUS
  <2>2. \A i \in 0 .. 0 : f[i] = RunNext(turn, patches, f, i)
    BY <2>1 DEF RunNext
  <2> QED
    BY <2>2
<1>2. ASSUME NEW m \in Nat, m \in S PROVE m + 1 \in S
  <2>1. PICK f : \A i \in 0 .. m : f[i] = RunNext(turn, patches, f, i)
    BY <1>2
  <2>2. PICK g : g = [i \in 0 .. m + 1 |->
                        IF i <= m THEN f[i] ELSE RunNext(turn, patches, f, m + 1)]
    OBVIOUS
  <2>3. \A i \in 0 .. m + 1 : i # 0 => g[i - 1] = f[i - 1]
    BY <2>2
  <2>4. \A i \in 0 .. m + 1 : RunNext(turn, patches, g, i) = RunNext(turn, patches, f, i)
    BY <2>3 DEF RunNext
  <2>5. \A i \in 0 .. m + 1 : g[i] = RunNext(turn, patches, f, i)
    BY <2>1, <2>2
  <2> QED
    BY <2>4, <2>5
<1>3. Len(patches) \in S
  <2> HIDE DEF S
  <2> QED
    BY <1>1, <1>2, SetInduction
<1>4. PICK f : \A i \in 0 .. Len(patches) : f[i] = RunNext(turn, patches, f, i)
  BY <1>3
<1>5. PICK g : g = [i \in 0 .. Len(patches) |-> f[i]]
  OBVIOUS
<1>6. \A i \in 0 .. Len(patches) : i # 0 => g[i - 1] = f[i - 1]
  BY <1>5
<1>7. \A i \in 0 .. Len(patches) : RunNext(turn, patches, g, i) = RunNext(turn, patches, f, i)
  BY <1>6 DEF RunNext
<1>8. g = [i \in 0 .. Len(patches) |-> RunNext(turn, patches, g, i)]
  BY <1>4, <1>5, <1>7
<1> QED
  BY <1>8

LEMMA RunIs ==
  ASSUME NEW turn, NEW patches, Len(patches) \in Nat
  PROVE  /\ \E f : Run(turn, patches, f)
         /\ \A f : Run(turn, patches, f) => PatchedAll(turn, patches) = f[Len(patches)]
<1> DEFINE n == Len(patches)
           after == CHOOSE f : f = [m \in 0 .. n |-> RunNext(turn, patches, f, m)]
<1>1. after = [m \in 0 .. n |-> RunNext(turn, patches, after, m)]
  BY RunExists
<1>2. PatchedAll(turn, patches) = after[n]
  BY DEF PatchedAll, RunNext
<1> HIDE DEF after
<1>3. \A m \in 0 .. n : after[m] = RunNext(turn, patches, after, m)
  BY <1>1
<1>4. Run(turn, patches, after)
  BY <1>3 DEF Run
<1>5. ASSUME NEW f, Run(turn, patches, f) PROVE f[n] = after[n]
  <2> DEFINE S == {m \in Nat : m <= n => f[m] = after[m]}
  <2>1. 0 \in S
    BY <1>3, <1>5 DEF Run, RunNext
  <2>2. ASSUME NEW m \in Nat, m \in S PROVE m + 1 \in S
    <3>1. ASSUME m + 1 <= n PROVE f[m + 1] = after[m + 1]
      <4>1. f[m] = after[m] /\ m + 1 \in 0 .. n /\ (m + 1) - 1 = m /\ m + 1 # 0
        BY <2>2, <3>1
      <4>2. f[m + 1] = Patched(f[m], patches[m + 1])
        BY <1>5, <4>1 DEF Run, RunNext
      <4>3. after[m + 1] = Patched(after[m], patches[m + 1])
        BY <1>3, <4>1 DEF RunNext
      <4> QED
        BY <4>1, <4>2, <4>3
    <3> QED
      BY <3>1
  <2>3. n \in S
    <3> HIDE DEF S, n
    <3>1. n \in Nat
      BY DEF n
    <3> QED
      BY <2>1, <2>2, <3>1, SetInduction
  <2> QED
    BY <2>3
<1> QED
  BY <1>2, <1>4, <1>5

LEMMA NoPatches == ASSUME NEW turn PROVE PatchedAll(turn, <<>>) = turn
<1>1. Len(<<>>) = 0
  OBVIOUS
<1>2. PICK f : f = [n \in 0 .. 0 |-> turn]
  OBVIOUS
<1>3. Run(turn, <<>>, f)
  BY <1>1, <1>2 DEF Run, RunNext
<1> QED
  BY <1>1, <1>2, <1>3, RunIs

LEMMA OnePatch == ASSUME NEW turn, NEW p PROVE PatchedAll(turn, <<p>>) = Patched(turn, p)
<1>1. Len(<<p>>) = 1 /\ <<p>>[1] = p
  OBVIOUS
<1>2. PICK f : f = [n \in 0 .. 1 |-> IF n = 0 THEN turn ELSE Patched(turn, p)]
  OBVIOUS
<1>3. f[0] = turn /\ f[1] = Patched(turn, p)
  BY <1>2
<1>4. Run(turn, <<p>>, f)
  <2>1. ASSUME NEW n \in 0 .. 1 PROVE f[n] = RunNext(turn, <<p>>, f, n)
    <3>1. n = 0 \/ (n = 1 /\ n - 1 = 0 /\ n # 0)
      OBVIOUS
    <3> QED
      BY <1>1, <1>3, <3>1 DEF RunNext
  <2> QED
    BY <1>1, <2>1 DEF Run
<1> QED
  BY <1>1, <1>3, <1>4, RunIs

\* What two lists do one after the other.
LEMMA PatchesCompose ==
  ASSUME NEW turn, NEW P, NEW a \in Seq(P), NEW b \in Seq(P)
  PROVE  PatchedAll(turn, a \o b) = PatchedAll(PatchedAll(turn, a), b)
<1>1. PICK n \in Nat, k \in Nat : n = Len(a) /\ k = Len(b)
  OBVIOUS
<1>2. PICK c : c = a \o b
  OBVIOUS
<1>3. /\ Len(c) = n + k /\ \A i \in 1 .. n : c[i] = a[i]
      /\ \A i \in 1 .. k : c[n + i] = b[i]
  BY <1>1, <1>2
<1>4. PICK f : Run(turn, a, f)
  BY <1>1, RunIs
<1>5. PICK t : t = PatchedAll(turn, a)
  OBVIOUS
<1>6. t = f[n]
  BY <1>1, <1>4, <1>5, RunIs
<1>7. PICK g : Run(t, b, g)
  BY <1>1, RunIs
<1>8. PatchedAll(t, b) = g[k]
  BY <1>1, <1>7, RunIs
<1>9. PICK h : h = [m \in 0 .. n + k |-> IF m <= n THEN f[m] ELSE g[m - n]]
  OBVIOUS
<1>10. g[0] = f[n]
  BY <1>1, <1>6, <1>7 DEF Run, RunNext
<1>11. \A m \in 0 .. k : h[n + m] = g[m]
  <2>1. ASSUME NEW m \in 0 .. k PROVE h[n + m] = g[m]
    <3>1. n + m \in 0 .. n + k /\ (n + m) - n = m /\ (n + m <= n <=> m = 0)
      OBVIOUS
    <3> QED
      BY <1>9, <1>10, <3>1
  <2> QED
    BY <2>1
<1>12. Run(turn, c, h)
  <2>1. ASSUME NEW m \in 0 .. n + k PROVE h[m] = RunNext(turn, c, h, m)
    <3>1. CASE m <= n
      <4>1. h[m] = f[m] /\ f[m] = RunNext(turn, a, f, m)
        BY <1>1, <1>4, <1>9, <3>1 DEF Run
      <4>2. m # 0 => m \in 1 .. n /\ m - 1 \in 0 .. n + k /\ m - 1 <= n
        BY <3>1
      <4>3. m # 0 => c[m] = a[m] /\ h[m - 1] = f[m - 1]
        BY <1>3, <1>9, <4>2
      <4> QED
        BY <4>1, <4>3 DEF RunNext
    <3>2. CASE ~(m <= n)
      <4>1. PICK i \in 1 .. k : m = n + i
        <5>1. m - n \in 1 .. k /\ m = n + (m - n)
          BY <3>2
        <5> QED
          BY <5>1
      <4>2. i - 1 \in 0 .. k /\ n + (i - 1) = m - 1 /\ m # 0 /\ i # 0
        BY <4>1
      <4>3. h[m] = g[i] /\ h[m - 1] = g[i - 1] /\ c[m] = b[i]
        BY <1>3, <1>11, <4>1, <4>2
      <4>4. g[i] = RunNext(t, b, g, i)
        BY <1>1, <1>7 DEF Run
      <4> QED
        BY <4>2, <4>3, <4>4 DEF RunNext
    <3> QED
      BY <3>1, <3>2
  <2> QED
    BY <1>3, <2>1 DEF Run
<1>13. PatchedAll(turn, c) = h[n + k]
  BY <1>3, <1>12, RunIs
<1> QED
  BY <1>2, <1>5, <1>8, <1>11, <1>13
-----------------------------------------------------------------------------
(***************************************************************************)
(* Lists of ids.                                                           *)
(***************************************************************************)
LEMMA AllAmong ==
  ASSUME NEW I, NEW ids \in Seq(I), NEW D, \A i \in DOMAIN ids : ids[i] \in D
  PROVE  Among(ids, D) = ids
<1> DEFINE n == Len(ids)
           Next0(f, m) == IF m = 0 THEN <<>>
                          ELSE IF ids[m] \in D THEN Append(f[m - 1], ids[m]) ELSE f[m - 1]
           kept == CHOOSE f : f = [m \in 0 .. n |-> Next0(f, m)]
<1>1. PICK cut : cut = [m \in 0 .. n |-> SubSeq(ids, 1, m)]
  OBVIOUS
<1>2. ASSUME NEW m \in 0 .. n PROVE cut[m] = Next0(cut, m)
  <2>1. CASE m = 0
    BY <1>1, <2>1
  <2>2. CASE m # 0
    <3>1. m \in 1 .. n /\ m - 1 \in 0 .. n /\ m \in DOMAIN ids
      BY <2>2
    <3>2. Append(SubSeq(ids, 1, m - 1), ids[m]) = SubSeq(ids, 1, m)
      BY <3>1
    <3> QED
      BY <1>1, <2>2, <3>1, <3>2
  <2> QED
    BY <2>1, <2>2
<1>3. cut = [m \in 0 .. n |-> Next0(cut, m)]
  BY <1>1, <1>2
<1>4. kept = [m \in 0 .. n |-> Next0(kept, m)]
  BY <1>3
<1>5. Among(ids, D) = kept[n]
  BY DEF Among
<1> HIDE DEF kept
<1>6. \A m \in 0 .. n : kept[m] = Next0(kept, m)
  BY <1>4
<1> DEFINE S == {m \in Nat : m <= n => kept[m] = cut[m]}
<1>7. 0 \in S
  BY <1>2, <1>6
<1>8. ASSUME NEW m \in Nat, m \in S PROVE m + 1 \in S
  <2>1. ASSUME m + 1 <= n PROVE kept[m + 1] = cut[m + 1]
    <3>1. kept[m] = cut[m] /\ m + 1 \in 0 .. n /\ (m + 1) - 1 = m /\ m + 1 # 0
      BY <1>8, <2>1
    <3>2. kept[m + 1] = Next0(kept, m + 1) /\ cut[m + 1] = Next0(cut, m + 1)
      BY <1>2, <1>6, <3>1
    <3> QED
      BY <3>1, <3>2
  <2> QED
    BY <2>1
<1>9. n \in S
  <2> HIDE DEF S, n
  <2>1. n \in Nat
    BY DEF n
  <2> QED
    BY <1>7, <1>8, <2>1, SetInduction
<1>10. cut[n] = ids
  BY <1>1
<1> QED
  BY <1>5, <1>9, <1>10
-----------------------------------------------------------------------------
(***************************************************************************)
(* Deltas.                                                                 *)
(***************************************************************************)
Patches == {TurnPatch(old, new) : old \in Turn, new \in Turn}

TypedDelta(f) ==
  /\ f.ids \in Seq(TurnIds)
  /\ f.turns \in TurnMap /\ \A id \in DOMAIN f.turns : f.turns[id].id = id
  /\ \A id \in DOMAIN f.patches : f.patches[id] \in Seq(Patches)

\* The delta f takes the turns c to the turns d: it has each turn of d whole, or c
\* has the turn that its patches take there.
Takes(c, f, d) ==
  /\ Len(f.ids) = Len(d)
  /\ \A k \in 1 .. Len(d) :
       /\ f.ids[k] = d[k].id
       /\ IF d[k].id \in DOMAIN f.turns THEN d[k] = f.turns[d[k].id]
          ELSE /\ d[k].id \in Ids(c)
               /\ d[k] = PatchedAll(TurnOf(c, d[k].id), PatchesOf(f, d[k].id))

LEMMA TurnMapIs ==
  ASSUME NEW m
  PROVE  m \in TurnMap <=> \E D \in SUBSET TurnIds : m \in [D -> Turn]
<1>1. ASSUME m \in TurnMap PROVE \E D \in SUBSET TurnIds : m \in [D -> Turn]
  BY <1>1 DEF TurnMap
<1>2. ASSUME NEW D \in SUBSET TurnIds, m \in [D -> Turn] PROVE m \in TurnMap
  BY <1>2 DEF TurnMap
<1> QED
  BY <1>1, <1>2

LEMMA TurnsAre ==
  ASSUME NEW s, Turns(s)
  PROVE  /\ s \in Seq(Turn) /\ Len(s) \in Nat /\ DOMAIN s = 1 .. Len(s)
         /\ \A i \in 1 .. Len(s) : /\ s[i] \in Turn /\ s[i].id \in TurnIds
                                   /\ s[i].id \in Ids(s) /\ TurnOf(s, s[i].id) = s[i]
         /\ \A id \in Ids(s) : \E i \in 1 .. Len(s) : s[i].id = id /\ TurnOf(s, id) = s[i]
         /\ Ids(s) \subseteq TurnIds
         /\ \A i, j \in 1 .. Len(s) : s[i].id = s[j].id => i = j
<1>1. s \in Seq(Turn) /\ Len(s) \in Nat /\ DOMAIN s = 1 .. Len(s)
  BY DEF Turns
<1>2. \A i, j \in 1 .. Len(s) : s[i].id = s[j].id => i = j
  BY <1>1 DEF Turns
<1>3. \A i \in 1 .. Len(s) : s[i] \in Turn /\ s[i].id \in TurnIds /\ s[i].id \in Ids(s)
  BY <1>1, TurnIs DEF Ids
<1>4. \A i \in 1 .. Len(s) : TurnOf(s, s[i].id) = s[i]
  <2>1. ASSUME NEW i \in 1 .. Len(s) PROVE TurnOf(s, s[i].id) = s[i]
    <3>1. PICK j : j = CHOOSE m \in DOMAIN s : s[m].id = s[i].id
      OBVIOUS
    <3>2. j \in DOMAIN s /\ s[j].id = s[i].id
      BY <1>1, <3>1
    <3>3. j = i
      BY <1>1, <1>2, <3>2
    <3> QED
      BY <3>1, <3>3 DEF TurnOf
  <2> QED
    BY <2>1
<1>5. \A id \in Ids(s) : \E i \in 1 .. Len(s) : s[i].id = id
  BY <1>1 DEF Ids
<1> QED
  BY <1>1, <1>2, <1>3, <1>4, <1>5

LEMMA TakesIs ==
  ASSUME NEW c, NEW d, NEW f, Turns(c), Turns(d), TypedDelta(f), Takes(c, f, d)
  PROVE  Applied(c, f) = d
<1>1. PICK mine : mine = [id \in Ids(c) |-> PatchedAll(TurnOf(c, id), PatchesOf(f, id))]
  OBVIOUS
<1>2. PICK now : now = Over(f.turns, mine)
  OBVIOUS
<1>3. /\ DOMAIN now = DOMAIN f.turns \cup Ids(c)
      /\ \A id \in DOMAIN now : now[id] = IF id \in DOMAIN f.turns THEN f.turns[id] ELSE mine[id]
  BY <1>1, <1>2 DEF Over
<1>4. /\ f.ids \in Seq(TurnIds) /\ DOMAIN f.ids = 1 .. Len(f.ids) /\ Len(f.ids) = Len(d)
      /\ d \in Seq(Turn)
  BY TurnsAre DEF TypedDelta, Takes
<1>5. ASSUME NEW k \in 1 .. Len(d) PROVE f.ids[k] \in DOMAIN now /\ now[f.ids[k]] = d[k]
  <2>1. f.ids[k] = d[k].id
    BY DEF Takes
  <2>2. CASE d[k].id \in DOMAIN f.turns
    <3>1. d[k] = f.turns[d[k].id]
      BY <2>2 DEF Takes
    <3> QED
      BY <1>3, <2>1, <2>2, <3>1
  <2>3. CASE d[k].id \notin DOMAIN f.turns
    <3>1. d[k].id \in Ids(c) /\ d[k] = PatchedAll(TurnOf(c, d[k].id), PatchesOf(f, d[k].id))
      BY <2>3 DEF Takes
    <3>2. mine[d[k].id] = d[k]
      BY <1>1, <3>1
    <3> QED
      BY <1>3, <2>1, <2>3, <3>1, <3>2
  <2> QED
    BY <2>2, <2>3
<1>6. Among(f.ids, DOMAIN now) = f.ids
  BY <1>4, <1>5, AllAmong
<1>7. Applied(c, f) = [i \in DOMAIN f.ids |-> now[f.ids[i]]]
  BY <1>1, <1>2, <1>6 DEF Applied
<1>8. d = [i \in 1 .. Len(d) |-> d[i]]
  BY <1>4
<1> QED
  BY <1>4, <1>5, <1>7, <1>8

\* Composing two deltas does what they do one after the other.
LEMMA ComposeTakes ==
  ASSUME NEW c, NEW d, NEW e, NEW f, NEW g, Turns(c), Turns(d), Turns(e),
         TypedDelta(f), TypedDelta(g), Takes(c, f, d), Takes(d, g, e),
         DOMAIN g.patches \subseteq Ids(e)
  PROVE  TypedDelta(Compose(f, g)) /\ Takes(c, Compose(f, g), e)
<1>1. PICK mine : mine = [id \in DOMAIN f.turns |-> PatchedAll(f.turns[id], PatchesOf(g, id))]
  OBVIOUS
<1>2. PICK turns : turns = Over(g.turns, mine)
  OBVIOUS
<1>3. /\ DOMAIN turns = DOMAIN f.turns \cup DOMAIN g.turns
      /\ \A id \in DOMAIN turns : turns[id] = IF id \in DOMAIN g.turns THEN g.turns[id] ELSE mine[id]
      /\ turns = [id \in DOMAIN turns |-> turns[id]]
  BY <1>1, <1>2 DEF Over
<1>4. PICK both : both = AllPatches(f, g)
  OBVIOUS
<1>5. /\ DOMAIN both = DOMAIN f.patches \cup DOMAIN g.patches
      /\ \A id \in DOMAIN both : both[id] = PatchesOf(f, id) \o PatchesOf(g, id)
  BY <1>4 DEF AllPatches
<1>6. PICK patches : patches = Restrict(both, DOMAIN both \ DOMAIN turns)
  OBVIOUS
<1>7. /\ DOMAIN patches = DOMAIN both \ DOMAIN turns
      /\ \A id \in DOMAIN patches : patches[id] = both[id]
  BY <1>6 DEF Restrict
<1>8. PICK h : h = Compose(f, g)
  OBVIOUS
<1>9. h.ids = g.ids /\ h.turns = turns /\ h.patches = patches
  BY <1>1, <1>2, <1>4, <1>6, <1>8 DEF Compose
<1>10. \A id : PatchesOf(f, id) \in Seq(Patches) /\ PatchesOf(g, id) \in Seq(Patches)
  BY DEF TypedDelta, PatchesOf
<1>11. \A k \in 1 .. Len(e) : e[k] \in Turn
  BY TurnsAre
<1>12. ASSUME NEW k \in 1 .. Len(e), NEW id, id = e[k].id, id \notin DOMAIN g.turns
       PROVE  /\ id \in Ids(d) /\ e[k] = PatchedAll(TurnOf(d, id), PatchesOf(g, id))
              /\ IF id \in DOMAIN f.turns THEN TurnOf(d, id) = f.turns[id]
                 ELSE /\ id \in Ids(c)
                      /\ TurnOf(d, id) = PatchedAll(TurnOf(c, id), PatchesOf(f, id))
  <2>1. id \in Ids(d) /\ e[k] = PatchedAll(TurnOf(d, id), PatchesOf(g, id))
    BY <1>12 DEF Takes
  <2>2. PICK m \in 1 .. Len(d) : d[m].id = id /\ TurnOf(d, id) = d[m]
    BY <2>1, TurnsAre
  <2> QED
    BY <2>1, <2>2 DEF Takes
<1>13. TypedDelta(h)
  <2>1. PICK F \in SUBSET TurnIds, G \in SUBSET TurnIds :
          f.turns \in [F -> Turn] /\ g.turns \in [G -> Turn]
    BY TurnMapIs DEF TypedDelta
  <2>2. ASSUME NEW id \in F, id \notin G PROVE mine[id] \in Turn /\ mine[id].id = id
    <3>1. mine[id] = PatchedAll(f.turns[id], PatchesOf(g, id))
      BY <1>1, <2>1
    <3>2. CASE id \in Ids(e)
      <4>1. PICK k \in 1 .. Len(e) : e[k].id = id
        BY <3>2, TurnsAre
      <4>2. e[k] = mine[id]
        BY <1>12, <2>1, <2>2, <3>1, <4>1
      <4> QED
        BY <1>11, <4>1, <4>2
    <3>3. CASE id \notin Ids(e)
      <4>1. PatchesOf(g, id) = <<>>
        BY <3>3 DEF PatchesOf
      <4>2. mine[id] = f.turns[id]
        BY <3>1, <4>1, NoPatches
      <4> QED
        BY <2>1, <4>2 DEF TypedDelta
    <3> QED
      BY <3>2, <3>3
  <2>3. turns \in [F \cup G -> Turn] /\ \A id \in F \cup G : turns[id].id = id
    <3>1. \A id \in F \cup G : turns[id] \in Turn /\ turns[id].id = id
      BY <1>3, <2>1, <2>2 DEF TypedDelta
    <3> QED
      BY <1>3, <2>1, <3>1
  <2>4. turns \in TurnMap
    BY <2>3, TurnMapIs
  <2>5. ASSUME NEW id \in DOMAIN patches PROVE patches[id] \in Seq(Patches)
    <3>1. patches[id] = PatchesOf(f, id) \o PatchesOf(g, id)
      BY <1>5, <1>7
    <3> QED
      BY <1>10, <3>1
  <2>6. \A id \in DOMAIN turns : turns[id].id = id
    BY <2>3
  <2> QED
    BY <1>9, <2>4, <2>5, <2>6 DEF TypedDelta
<1>14. Takes(c, h, e)
  <2>1. ASSUME NEW k \in 1 .. Len(e), NEW id, id = e[k].id
        PROVE  IF id \in DOMAIN turns THEN e[k] = turns[id]
               ELSE id \in Ids(c) /\ e[k] = PatchedAll(TurnOf(c, id), PatchesOf(h, id))
    <3>1. CASE id \in DOMAIN g.turns
      BY <1>3, <2>1, <3>1 DEF Takes
    <3>2. CASE id \notin DOMAIN g.turns /\ id \in DOMAIN f.turns
      <4>1. turns[id] = PatchedAll(f.turns[id], PatchesOf(g, id)) /\ id \in DOMAIN turns
        BY <1>1, <1>3, <3>2
      <4> QED
        BY <1>12, <2>1, <3>2, <4>1
    <3>3. CASE id \notin DOMAIN g.turns /\ id \notin DOMAIN f.turns
      <4>1. id \notin DOMAIN turns
        BY <1>3, <3>3
      <4>2. PatchesOf(h, id) = PatchesOf(f, id) \o PatchesOf(g, id)
        <5>1. CASE id \in DOMAIN both
          <6>1. id \in DOMAIN patches
            BY <1>7, <4>1, <5>1
          <6>2. PatchesOf(h, id) = patches[id]
            BY <1>9, <6>1 DEF PatchesOf
          <6> QED
            BY <1>5, <1>7, <5>1, <6>1, <6>2
        <5>2. CASE id \notin DOMAIN both
          <6>1. PatchesOf(f, id) = <<>> /\ PatchesOf(g, id) = <<>>
            BY <1>5, <5>2 DEF PatchesOf
          <6>2. PatchesOf(h, id) = <<>>
            BY <1>7, <1>9, <5>2 DEF PatchesOf
          <6>3. <<>> \o <<>> = <<>>
            OBVIOUS
          <6> QED
            BY <6>1, <6>2, <6>3
        <5> QED
          BY <5>1, <5>2
      <4>3. PICK t : t = TurnOf(c, id)
        OBVIOUS
      <4>4. PatchedAll(t, PatchesOf(h, id)) = PatchedAll(PatchedAll(t, PatchesOf(f, id)), PatchesOf(g, id))
        BY <1>10, <4>2, PatchesCompose
      <4> QED
        BY <1>12, <2>1, <3>3, <4>1, <4>3, <4>4
    <3> QED
      BY <3>1, <3>2, <3>3
  <2>2. Len(h.ids) = Len(e) /\ \A k \in 1 .. Len(e) : h.ids[k] = e[k].id
    BY <1>9 DEF Takes
  <2> QED
    BY <1>9, <2>1, <2>2 DEF Takes
<1> QED
  BY <1>8, <1>13, <1>14
-----------------------------------------------------------------------------
(***************************************************************************)
(* The projector.                                                          *)
(***************************************************************************)

\* The projector p knows what of the turns t the turns c have: those it will not send
\* are there, and those it will patch are the ones it projected.
Knows(p, c, t) ==
  /\ \A i \in DOMAIN t : i \notin Candidates(p, t) =>
       t[i].id \in Ids(c) /\ TurnOf(c, t[i].id) = t[i]
  /\ \A id \in Ids(t) \cap DOMAIN p.projected :
       id \in Ids(c) /\ p.projected[id] = TurnOf(c, id)

LEMMA DeltaTakes ==
  ASSUME NEW p, NEW c, NEW t, Turns(c), Turns(t), Knows(p, c, t)
  PROVE  LET f == Delta(p, t) IN
         TypedDelta(f) /\ Takes(c, f, t) /\ DOMAIN f.patches \subseteq Ids(t)
<1>1. PICK f : f = Delta(p, t)
  OBVIOUS
<1>2. PICK full : full = IdsOf(t, Full(p, t))
  OBVIOUS
<1>3. PICK changed : changed = IdsOf(t, Changed(p, t))
  OBVIOUS
<1>4. /\ f.ids = [i \in DOMAIN t |-> t[i].id]
      /\ f.turns = [id \in full |-> TurnOf(t, id)]
      /\ f.patches = [id \in changed |-> <<TurnPatch(p.projected[id], TurnOf(t, id))>>]
  BY <1>1, <1>2, <1>3 DEF Delta
<1>5. /\ DOMAIN t = 1 .. Len(t) /\ Len(t) \in Nat
      /\ \A i \in 1 .. Len(t) : /\ t[i] \in Turn /\ t[i].id \in TurnIds
                                /\ t[i].id \in Ids(t) /\ TurnOf(t, t[i].id) = t[i]
      /\ \A i, j \in 1 .. Len(t) : t[i].id = t[j].id => i = j
  BY TurnsAre
<1>6. /\ \A i \in 1 .. Len(t) : t[i].id \in full <=> i \in Full(p, t)
      /\ \A i \in 1 .. Len(t) : t[i].id \in changed <=> i \in Changed(p, t)
      /\ Full(p, t) \subseteq 1 .. Len(t) /\ Changed(p, t) \subseteq 1 .. Len(t)
      /\ full \subseteq Ids(t) /\ changed \subseteq Ids(t)
  <2>1. Full(p, t) \subseteq 1 .. Len(t) /\ Changed(p, t) \subseteq 1 .. Len(t)
    BY <1>5 DEF Full, Changed, Candidates
  <2> QED
    BY <1>2, <1>3, <1>5, <2>1 DEF IdsOf
<1>7. \A id \in Ids(t) : \E i \in 1 .. Len(t) : t[i].id = id /\ TurnOf(t, id) = t[i]
  BY TurnsAre
<1>8. ASSUME NEW i \in Changed(p, t)
      PROVE  /\ t[i].id \in Ids(c) /\ p.projected[t[i].id] = TurnOf(c, t[i].id)
             /\ p.projected[t[i].id] \in Turn /\ p.projected[t[i].id].id = t[i].id
  <2>1. t[i].id \in Ids(t) \cap DOMAIN p.projected
    BY <1>5, <1>6 DEF Full, Changed
  <2>2. t[i].id \in Ids(c) /\ p.projected[t[i].id] = TurnOf(c, t[i].id)
    BY <2>1 DEF Knows
  <2>3. PICK m \in 1 .. Len(c) : c[m].id = t[i].id /\ TurnOf(c, t[i].id) = c[m] /\ c[m] \in Turn
    BY <2>2, TurnsAre
  <2> QED
    BY <2>2, <2>3
<1>9. TypedDelta(f)
  <2>1. f.ids \in Seq(TurnIds)
    BY <1>4, <1>5
  <2>2. f.turns \in TurnMap /\ \A id \in DOMAIN f.turns : f.turns[id].id = id
    <3>1. full \in SUBSET TurnIds
      BY <1>5, <1>6, <1>7
    <3>2. \A id \in full : TurnOf(t, id) \in Turn /\ TurnOf(t, id).id = id
      BY <1>5, <1>6, <1>7
    <3> QED
      BY <1>4, <3>1, <3>2, TurnMapIs
  <2>3. ASSUME NEW id \in changed PROVE f.patches[id] \in Seq(Patches)
    <3>1. PICK i \in 1 .. Len(t) : t[i].id = id /\ TurnOf(t, id) = t[i]
      BY <1>6, <1>7
    <3>2. i \in Changed(p, t)
      BY <1>6, <3>1
    <3>3. TurnPatch(p.projected[id], TurnOf(t, id)) \in Patches
      BY <1>5, <1>8, <3>1, <3>2 DEF Patches
    <3> QED
      BY <1>4, <3>3
  <2> QED
    BY <1>4, <2>1, <2>2, <2>3 DEF TypedDelta
<1>10. ASSUME NEW i \in 1 .. Len(t), i \notin Full(p, t)
       PROVE  /\ t[i].id \in Ids(c)
              /\ t[i] = PatchedAll(TurnOf(c, t[i].id), PatchesOf(f, t[i].id))
  <2>1. CASE i \in Changed(p, t)
    <3>1. PatchesOf(f, t[i].id) = <<TurnPatch(p.projected[t[i].id], t[i])>>
      BY <1>4, <1>5, <1>6, <2>1 DEF PatchesOf
    <3>2. PICK old \in Turn : old = TurnOf(c, t[i].id) /\ old.id = t[i].id
                              /\ old = p.projected[t[i].id] /\ t[i].id \in Ids(c)
      BY <1>8, <2>1
    <3>3. Patched(old, TurnPatch(old, t[i])) = t[i]
      BY <1>5, <3>2, PatchRestores
    <3> QED
      BY <3>1, <3>2, <3>3, OnePatch
  <2>2. CASE i \notin Changed(p, t)
    <3>1. PatchesOf(f, t[i].id) = <<>>
      BY <1>4, <1>6, <2>2 DEF PatchesOf
    <3>2. t[i].id \in Ids(c) /\ TurnOf(c, t[i].id) = t[i]
      <4>1. CASE i \notin Candidates(p, t)
        BY <1>5, <4>1 DEF Knows
      <4>2. CASE i \in Candidates(p, t)
        <5>1. t[i].id \in DOMAIN p.projected /\ p.projected[t[i].id] = t[i]
          BY <1>10, <2>2, <4>2 DEF Full, Changed
        <5> QED
          BY <1>5, <5>1 DEF Knows
      <4> QED
        BY <4>1, <4>2
    <3> QED
      BY <3>1, <3>2, NoPatches
  <2> QED
    BY <2>1, <2>2
<1>11. Takes(c, f, t)
  <2>1. Len(f.ids) = Len(t) /\ \A k \in 1 .. Len(t) : f.ids[k] = t[k].id
    BY <1>4, <1>5
  <2>2. ASSUME NEW k \in 1 .. Len(t), t[k].id \in DOMAIN f.turns PROVE t[k] = f.turns[t[k].id]
    BY <1>4, <1>5, <2>2
  <2>3. ASSUME NEW k \in 1 .. Len(t), t[k].id \notin DOMAIN f.turns
        PROVE  /\ t[k].id \in Ids(c)
               /\ t[k] = PatchedAll(TurnOf(c, t[k].id), PatchesOf(f, t[k].id))
    BY <1>4, <1>6, <1>10, <2>3
  <2> QED
    BY <2>1, <2>2, <2>3 DEF Takes
<1> QED
  BY <1>1, <1>4, <1>6, <1>9, <1>11

RunningIds(t) == {t[i].id : i \in {j \in DOMAIN t : Running(t[j])}}

\* The projector p has last projected the state s.
Synced(p, s) ==
  /\ p.known = Ids(s.turns) /\ p.mutable = RunningIds(s.turns) /\ p.live = s.live
  /\ \A id \in DOMAIN p.projected : id \in Ids(s.turns) /\ p.projected[id] = TurnOf(s.turns, id)

LEMMA ProjectedIs ==
  ASSUME NEW p, NEW s, Turns(s.turns), s.live \in Nat
  PROVE  Projected(p, s) \in Projectors /\ Synced(Projected(p, s), s)
<1>1. PICK t : t = s.turns
  OBVIOUS
<1>2. PICK q : q = Projected(p, s)
  OBVIOUS
<1>3. PICK now : now = IdsOf(t, Candidates(p, t))
  OBVIOUS
<1>4. PICK mutable : mutable = Mutable(t, Candidates(p, t))
  OBVIOUS
<1>5. PICK retained : retained = mutable \cup IdsOf(t, DOMAIN t \cap {Len(t)})
  OBVIOUS
<1>6. PICK D : D = retained \cap (now \cup DOMAIN p.projected)
  OBVIOUS
<1>7. q = [known |-> Ids(t), mutable |-> mutable, live |-> s.live,
           projected |-> [id \in D |-> IF id \in now THEN TurnOf(t, id) ELSE p.projected[id]]]
  BY <1>1, <1>2, <1>3, <1>4, <1>5, <1>6 DEF Projected
<1>8. mutable = RunningIds(t)
  BY <1>4 DEF Mutable, Candidates, RunningIds
<1>9. retained \subseteq now
  BY <1>3, <1>4, <1>5 DEF Mutable, IdsOf, Candidates
<1>10. D \subseteq now /\ now \subseteq Ids(t) /\ mutable \subseteq Ids(t) /\ Ids(t) \subseteq TurnIds
  <2>1. now \subseteq Ids(t) /\ mutable \subseteq Ids(t)
    BY <1>3, <1>8 DEF IdsOf, Candidates, Ids, RunningIds
  <2> QED
    BY <1>1, <1>6, <1>9, <2>1, TurnsAre
<1>11. \A id \in Ids(t) : TurnOf(t, id) \in Turn
  BY <1>1, TurnsAre
<1>12. PICK projected : projected = [id \in D |-> TurnOf(t, id)]
  OBVIOUS
<1>13. q = [known |-> Ids(t), mutable |-> mutable, live |-> s.live, projected |-> projected]
  BY <1>7, <1>10, <1>12
<1>14. projected \in TurnMap
  <2>1. projected \in [D -> Turn] /\ D \in SUBSET TurnIds
    BY <1>10, <1>11, <1>12
  <2> QED
    BY <2>1, TurnMapIs
<1>15. q \in Projectors
  <2>1. Ids(t) \in SUBSET TurnIds /\ mutable \in SUBSET TurnIds
    BY <1>10
  <2> QED
    BY <1>13, <1>14, <2>1 DEF Projectors
<1>16. Synced(q, s)
  BY <1>1, <1>8, <1>10, <1>12, <1>13 DEF Synced
<1> QED
  BY <1>2, <1>15, <1>16

\* What may become of turns: those that do not run stay as they are.
Evolves(a, b) ==
  \A id \in Ids(a) \cap Ids(b) : Running(TurnOf(a, id)) \/ TurnOf(b, id) = TurnOf(a, id)

LEMMA SyncedKnows ==
  ASSUME NEW p, NEW s, NEW t, Turns(s.turns), Turns(t), Synced(p, s), Evolves(s.turns, t)
  PROVE  Knows(p, s.turns, t)
<1>1. PICK c : c = s.turns
  OBVIOUS
<1>2. ASSUME NEW i \in DOMAIN t, i \notin Candidates(p, t)
      PROVE  t[i].id \in Ids(c) /\ TurnOf(c, t[i].id) = t[i]
  <2>1. t[i].id \in Ids(c) /\ t[i].id \notin RunningIds(c)
    BY <1>1, <1>2 DEF Candidates, Synced
  <2>2. t[i].id \in Ids(t) /\ TurnOf(t, t[i].id) = t[i]
    BY TurnsAre
  <2>3. ~Running(TurnOf(c, t[i].id))
    <3>1. PICK m \in 1 .. Len(c) : c[m].id = t[i].id /\ TurnOf(c, t[i].id) = c[m]
      BY <1>1, <2>1, TurnsAre
    <3>2. m \in DOMAIN c
      BY <1>1, TurnsAre
    <3> QED
      BY <2>1, <3>1, <3>2 DEF RunningIds
  <2> QED
    BY <1>1, <2>1, <2>2, <2>3 DEF Evolves
<1> QED
  BY <1>1, <1>2 DEF Knows, Synced

\* A new projector knows what it was told: of those turns, the ones that are still there
\* and do not run anymore are what the client has.
Told(known, mutable, c, t) ==
  \A id \in Ids(t) \cap (known \ mutable) :
    id \in Ids(c) /\ TurnOf(c, id) = TurnOf(t, id) /\ ~Running(TurnOf(t, id))

LEMMA ToldKnows ==
  ASSUME NEW p, NEW c, NEW t, Turns(t), DOMAIN p.projected = {}, Told(p.known, p.mutable, c, t)
  PROVE  Knows(p, c, t)
<1>1. ASSUME NEW i \in DOMAIN t, i \notin Candidates(p, t)
      PROVE  t[i].id \in Ids(c) /\ TurnOf(c, t[i].id) = t[i]
  <2>1. t[i].id \in p.known \ p.mutable
    BY <1>1 DEF Candidates
  <2>2. t[i].id \in Ids(t) /\ TurnOf(t, t[i].id) = t[i]
    BY TurnsAre
  <2> QED
    BY <2>1, <2>2 DEF Told
<1> QED
  BY <1>1 DEF Knows

\* The turns t begin with those that s has, by their ids.
Continues(s, t) == Len(s) <= Len(t) /\ \A i \in 1 .. Len(s) : s[i].id = t[i].id

\* When there is nothing to say, the turns are the ones projected last.
LEMMA NothingToSay ==
  ASSUME NEW p, NEW s, NEW r, Turns(s.turns), Turns(r.turns), Synced(p, s),
         Evolves(s.turns, r.turns), r.live = s.live => Continues(s.turns, r.turns),
         ~SaysAnything(p, r)
  PROVE  r.turns = s.turns
<1>1. PICK c : c = s.turns
  OBVIOUS
<1>2. PICK t : t = r.turns
  OBVIOUS
<1>3. Full(p, t) = {} /\ Changed(p, t) = {} /\ Continues(c, t)
  BY <1>1, <1>2 DEF SaysAnything, Synced
<1>4. Knows(p, c, t)
  BY <1>1, <1>2, SyncedKnows
<1>5. /\ c \in Seq(Turn) /\ t \in Seq(Turn)
      /\ \A i \in 1 .. Len(c) : TurnOf(c, c[i].id) = c[i]
      /\ \A id \in Ids(c) : \E i \in 1 .. Len(c) : c[i].id = id
      /\ \A i, j \in 1 .. Len(t) : t[i].id = t[j].id => i = j
      /\ \A i \in 1 .. Len(t) : t[i].id \in Ids(t)
  BY <1>1, <1>2, TurnsAre
<1>6. ASSUME NEW i \in 1 .. Len(t) PROVE t[i].id \in Ids(c) /\ TurnOf(c, t[i].id) = t[i]
  <2>0. i \in DOMAIN t
    BY <1>5
  <2>1. CASE i \notin Candidates(p, t)
    BY <1>4, <2>0, <2>1 DEF Knows
  <2>2. CASE i \in Candidates(p, t)
    <3>1. t[i].id \in DOMAIN p.projected /\ p.projected[t[i].id] = t[i]
      BY <1>3, <2>2 DEF Full, Changed
    <3> QED
      BY <1>4, <1>5, <3>1 DEF Knows
  <2> QED
    BY <2>1, <2>2
<1>7. \A i \in 1 .. Len(c) : i \in 1 .. Len(t) /\ t[i] = c[i]
  <2>1. ASSUME NEW i \in 1 .. Len(c) PROVE i \in 1 .. Len(t) /\ t[i] = c[i]
    <3>1. i \in 1 .. Len(t) /\ c[i].id = t[i].id
      BY <1>3, <1>5 DEF Continues
    <3> QED
      BY <1>5, <1>6, <3>1
  <2> QED
    BY <2>1
<1>8. Len(t) <= Len(c)
  <2>1. SUFFICES ASSUME ~(Len(t) <= Len(c)) PROVE FALSE
    OBVIOUS
  <2>2. PICK k \in 1 .. Len(t) : k = Len(t) /\ ~(k <= Len(c))
    BY <1>5, <2>1
  <2>3. PICK i \in 1 .. Len(c) : c[i].id = t[k].id
    BY <1>5, <1>6
  <2>4. i \in 1 .. Len(t) /\ t[i].id = t[k].id
    BY <1>7, <2>3
  <2>5. i = k
    BY <1>5, <2>4
  <2> QED
    BY <2>2, <2>5
<1>9. Len(t) = Len(c)
  BY <1>3, <1>5, <1>8 DEF Continues
<1> QED
  BY <1>1, <1>2, <1>5, <1>7, <1>9
-----------------------------------------------------------------------------
(***************************************************************************)
(* The thread's history: no id comes back, and what does not run stays.    *)
(***************************************************************************)
Past ==
  /\ Turns(conv.turns) /\ Ids(conv.turns) \subseteq 1 .. born
  /\ conv.live \in Nat /\ pub.live \in Nat /\ pub.live <= conv.live /\ conv.live <= edits
  /\ conv.live = pub.live => Continues(pub.turns, conv.turns)
  /\ Evolves(pub.turns, conv.turns)
  /\ pub.turns \in shown
  /\ \A s \in shown : /\ Turns(s) /\ Ids(s) \subseteq 1 .. born /\ Evolves(s, pub.turns)
                      /\ Ids(s) \cap Ids(conv.turns) \subseteq Ids(pub.turns)
  /\ born \in 0 .. MaxTurns /\ edits \in 0 .. MaxEdits /\ losses \in 0 .. MaxLosses

LEMMA ShownEvolves ==
  ASSUME Past, NEW s \in shown
  PROVE  Evolves(s, conv.turns)
BY DEF Past, Evolves

\* What Codex makes of the turns.
Follows(T) ==
  /\ Turns(T)
  /\ \A id \in Ids(T) \cap 1 .. born :
       /\ id \in Ids(conv.turns)
       /\ Running(TurnOf(conv.turns, id)) \/ TurnOf(T, id) = TurnOf(conv.turns, id)

LEMMA EditKeepsPast ==
  ASSUME Past, NEW T, NEW lives, Edit(T, lives), Follows(T), born' \in born .. MaxTurns,
         Ids(T) \subseteq 1 .. born',
         lives \subseteq {conv.live, Touched}, conv.live \in lives => Continues(conv.turns, T)
  PROVE  /\ Past' /\ conv'.turns = T
         /\ UNCHANGED <<pub, projector, request, outbox, client, stored, shown, losses>>
<1>1. PICK live \in lives : conv' = [turns |-> T, live |-> live]
  BY DEF Edit
<1>2. /\ edits < MaxEdits /\ edits' = edits + 1
      /\ UNCHANGED <<pub, projector, request, outbox, client, stored, shown, losses>>
  BY DEF Edit
<1>3. conv'.turns = T /\ conv'.live = live /\ live \in {conv.live, edits + 1}
  BY <1>1 DEF Touched
<1>4. edits \in Nat /\ born \in Nat /\ MaxEdits \in Nat /\ MaxTurns \in Nat
  BY Bounds DEF Past
<1>5. /\ conv'.live \in Nat /\ pub.live <= conv'.live /\ conv'.live <= edits'
      /\ edits' \in 0 .. MaxEdits
      /\ conv'.live = pub.live => conv.live = pub.live /\ live = conv.live
  BY <1>2, <1>3, <1>4 DEF Past
<1>6. conv'.live = pub.live => Continues(pub.turns, T)
  <2>1. ASSUME conv'.live = pub.live PROVE Continues(pub.turns, T)
    <3>1. Continues(pub.turns, conv.turns) /\ Continues(conv.turns, T)
      BY <1>1, <1>5, <2>1 DEF Past
    <3>2. Len(pub.turns) \in Nat /\ Len(conv.turns) \in Nat /\ Len(T) \in Nat
      BY TurnsAre DEF Past, Follows
    <3> QED
      BY <3>1, <3>2 DEF Continues
  <2> QED
    BY <2>1
<1>7. 1 .. born \subseteq 1 .. born'
  BY <1>4
<1>8. Evolves(pub.turns, T)
  BY DEF Evolves, Follows, Past
<1>9. \A s \in shown : Ids(s) \cap Ids(T) \subseteq Ids(pub.turns)
  BY DEF Follows, Past
<1>10. born' \in 0 .. MaxTurns
  BY <1>4
<1> QED
  BY <1>2, <1>3, <1>5, <1>6, <1>7, <1>8, <1>9, <1>10 DEF Past, Follows

LEMMA PublishKeepsPast ==
  ASSUME Past, Publish
  PROVE  Past'
<1>1. /\ pub' = conv /\ shown' = shown \cup {conv.turns}
      /\ UNCHANGED <<conv, born, edits, losses>>
  BY DEF Publish, counters
<1>2. \A s \in shown : Evolves(s, conv.turns)
  BY ShownEvolves
<1>3. Evolves(conv.turns, conv.turns)
  BY DEF Evolves
<1>4. Continues(conv.turns, conv.turns)
  BY TurnsAre DEF Continues, Past
<1>5. \A s \in shown' : /\ Turns(s) /\ Ids(s) \subseteq 1 .. born /\ Evolves(s, conv.turns)
                        /\ Ids(s) \cap Ids(conv.turns) \subseteq Ids(conv.turns)
  BY <1>1, <1>2, <1>3 DEF Past
<1> QED
  BY <1>1, <1>3, <1>4, <1>5 DEF Past
-----------------------------------------------------------------------------
(***************************************************************************)
(* The edits.                                                              *)
(***************************************************************************)

\* One running turn is replaced.
LEMMA ReplaceFollows ==
  ASSUME Past, NEW i \in DOMAIN conv.turns, Running(conv.turns[i]), NEW t \in Turn,
         t.id = conv.turns[i].id, NEW T, T = [conv.turns EXCEPT ![i] = t]
  PROVE  Follows(T) /\ Ids(T) = Ids(conv.turns) /\ Continues(conv.turns, T)
<1>1. PICK c : c = conv.turns
  OBVIOUS
<1>2. /\ Turns(c) /\ c \in Seq(Turn) /\ Len(c) \in Nat /\ DOMAIN c = 1 .. Len(c)
      /\ \A j, k \in 1 .. Len(c) : c[j].id = c[k].id => j = k
      /\ \A j \in 1 .. Len(c) : TurnOf(c, c[j].id) = c[j]
  BY <1>1, TurnsAre DEF Past
<1>3. /\ T \in Seq(Turn) /\ Len(T) = Len(c) /\ DOMAIN T = 1 .. Len(c)
      /\ \A j \in 1 .. Len(c) : T[j] = IF j = i THEN t ELSE c[j]
  BY <1>1, <1>2
<1>4. \A j \in 1 .. Len(c) : T[j].id = c[j].id
  BY <1>1, <1>3
<1>5. Turns(T)
  BY <1>2, <1>3, <1>4 DEF Turns
<1>6. Ids(T) = Ids(c)
  BY <1>2, <1>3, <1>4 DEF Ids
<1>7. ASSUME NEW id \in Ids(T)
      PROVE  Running(TurnOf(c, id)) \/ TurnOf(T, id) = TurnOf(c, id)
  <2>1. PICK j \in 1 .. Len(T) : T[j].id = id /\ TurnOf(T, id) = T[j]
    BY <1>5, TurnsAre
  <2>2. TurnOf(c, id) = c[j]
    BY <1>2, <1>3, <1>4, <2>1
  <2> QED
    BY <1>1, <1>3, <2>1, <2>2
<1>8. Follows(T)
  BY <1>1, <1>5, <1>6, <1>7 DEF Follows
<1>9. Continues(c, T)
  BY <1>2, <1>3, <1>4 DEF Continues
<1> QED
  BY <1>1, <1>6, <1>8, <1>9

LEMMA FrontFollows ==
  ASSUME Past, conv.turns # <<>>
  PROVE  Follows(Front(conv.turns)) /\ Ids(Front(conv.turns)) \subseteq Ids(conv.turns)
<1>1. PICK c : c = conv.turns
  OBVIOUS
<1>2. /\ Turns(c) /\ c \in Seq(Turn) /\ Len(c) \in Nat /\ DOMAIN c = 1 .. Len(c)
      /\ \A j, k \in 1 .. Len(c) : c[j].id = c[k].id => j = k
      /\ \A j \in 1 .. Len(c) : TurnOf(c, c[j].id) = c[j] /\ c[j].id \in Ids(c)
  BY <1>1, TurnsAre DEF Past
<1>3. PICK T : T = Front(c)
  OBVIOUS
<1>4. PICK n \in Nat : n + 1 = Len(c)
  <2>1. Len(c) # 0
    BY <1>1, <1>2
  <2>2. Len(c) - 1 \in Nat /\ (Len(c) - 1) + 1 = Len(c)
    BY <1>2, <2>1
  <2> QED
    BY <2>2
<1>5. T = SubSeq(c, 1, n)
  <2>1. Len(c) - 1 = n
    BY <1>4
  <2> QED
    BY <1>3, <2>1 DEF Front
<1>6. /\ T \in Seq(Turn) /\ Len(T) = n /\ DOMAIN T = 1 .. n
      /\ \A j \in 1 .. n : T[j] = c[j] /\ j \in 1 .. Len(c)
  BY <1>2, <1>4, <1>5
<1>7. Turns(T)
  BY <1>2, <1>6 DEF Turns
<1>8. Ids(T) \subseteq Ids(c)
  BY <1>2, <1>6 DEF Ids
<1>9. ASSUME NEW id \in Ids(T) PROVE TurnOf(T, id) = TurnOf(c, id)
  <2>1. PICK j \in 1 .. Len(T) : T[j].id = id /\ TurnOf(T, id) = T[j]
    BY <1>7, TurnsAre
  <2> QED
    BY <1>2, <1>6, <2>1
<1> QED
  BY <1>1, <1>3, <1>7, <1>8, <1>9 DEF Follows

LEMMA AppendFollows ==
  ASSUME Past, born < MaxTurns, NEW t \in Turn, t.id = born + 1,
         NEW T, T = Append(conv.turns, t)
  PROVE  Follows(T) /\ Ids(T) \subseteq 1 .. born + 1 /\ Continues(conv.turns, T)
<1>1. PICK c : c = conv.turns
  OBVIOUS
<1>2. /\ Turns(c) /\ c \in Seq(Turn) /\ Len(c) \in Nat /\ DOMAIN c = 1 .. Len(c)
      /\ \A j, k \in 1 .. Len(c) : c[j].id = c[k].id => j = k
      /\ \A j \in 1 .. Len(c) : TurnOf(c, c[j].id) = c[j] /\ c[j].id \in Ids(c)
  BY <1>1, TurnsAre DEF Past
<1>3. PICK n \in Nat : n = Len(c)
  BY <1>2
<1>4. /\ T \in Seq(Turn) /\ Len(T) = n + 1 /\ DOMAIN T = 1 .. n + 1 /\ T[n + 1] = t
      /\ \A j \in 1 .. n : T[j] = c[j]
  BY <1>1, <1>2, <1>3
<1>5. born \in Nat /\ born + 1 \notin Ids(c) /\ Ids(c) \subseteq 1 .. born
  BY <1>1, Bounds DEF Past
<1>6. \A j \in 1 .. n + 1 : (j \in 1 .. n /\ T[j].id \in Ids(c)) \/ (j = n + 1 /\ T[j].id = born + 1)
  <2>1. ASSUME NEW j \in 1 .. n + 1, j # n + 1 PROVE j \in 1 .. n
    BY <1>3, <2>1
  <2> QED
    BY <1>2, <1>3, <1>4, <2>1
<1>7. Turns(T)
  <2>1. ASSUME NEW j \in 1 .. n + 1, NEW k \in 1 .. n + 1, T[j].id = T[k].id PROVE j = k
    <3>1. CASE j \in 1 .. n /\ k \in 1 .. n
      BY <1>2, <1>3, <1>4, <2>1, <3>1
    <3>2. CASE j = n + 1 \/ k = n + 1
      BY <1>4, <1>5, <1>6, <2>1, <3>2
    <3> QED
      BY <1>6, <3>1, <3>2
  <2> QED
    BY <1>4, <2>1 DEF Turns
<1>8. Ids(T) \subseteq Ids(c) \cup {born + 1}
  BY <1>4, <1>6 DEF Ids
<1>9. ASSUME NEW id \in Ids(T) \cap 1 .. born PROVE id \in Ids(c) /\ TurnOf(T, id) = TurnOf(c, id)
  <2>0. PICK j \in 1 .. Len(T) : T[j].id = id /\ TurnOf(T, id) = T[j]
    <3>1. PICK U : U = T
      OBVIOUS
    <3>2. Turns(U) /\ id \in Ids(U)
      BY <1>7, <1>9, <3>1
    <3>3. \E j \in 1 .. Len(U) : U[j].id = id /\ TurnOf(U, id) = U[j]
      BY <3>2, TurnsAre
    <3> QED
      BY <3>1, <3>3
  <2>1. j \in 1 .. n + 1 /\ T[j].id = id /\ TurnOf(T, id) = T[j]
    BY <1>4, <2>0
  <2>2. id # born + 1
    BY <1>5
  <2>3. j \in 1 .. n /\ id \in Ids(c)
    BY <1>4, <1>6, <2>1, <2>2
  <2> QED
    BY <1>2, <1>3, <1>4, <2>1, <2>3
<1>10. Ids(T) \subseteq 1 .. born + 1
  BY <1>5, <1>8
<1>11. Continues(c, T)
  BY <1>3, <1>4 DEF Continues
<1> QED
  BY <1>1, <1>7, <1>9, <1>10, <1>11 DEF Follows

\* The turns that each edit makes.
LEMMA NewTurnKeepsPast ==
  ASSUME Past, NewTurn
  PROVE  /\ Past' /\ Follows(conv'.turns)
         /\ UNCHANGED <<pub, projector, request, outbox, client, stored, shown>>
         /\ born' \in born .. MaxTurns
<1>1. PICK fields : fields = [k \in Fields |-> IF k = "status" THEN "inProgress" ELSE "on"]
  OBVIOUS
<1>2. PICK t : t = [id |-> born + 1, items |-> <<>>, fields |-> fields]
  OBVIOUS
<1>3. PICK T : T = Append(conv.turns, t)
  OBVIOUS
<1>4. /\ born < MaxTurns /\ born' = born + 1
      /\ Edit(T, {conv.live, Touched})
  BY <1>1, <1>2, <1>3 DEF NewTurn
<1>5. born \in Nat /\ MaxTurns \in Nat
  BY Bounds DEF Past
<1>6. t \in Turn /\ t.id = born + 1
  <2>1. fields \in FieldMaps
    <3>1. fields \in [Fields -> Values]
      BY <1>1 DEF Values
    <3> QED
      BY <3>1 DEF FieldMaps
  <2>2. t.id \in TurnIds
    BY <1>2, <1>4, <1>5 DEF TurnIds
  <2>3. t.items \in Seq(Text) /\ Len(t.items) <= MaxItems
    BY <1>2, Bounds
  <2>4. t.id = born + 1 /\ t.fields = fields
        /\ t = [id |-> t.id, fields |-> t.fields, items |-> t.items]
    BY <1>2
  <2> QED
    BY <2>1, <2>2, <2>3, <2>4, TurnIs
<1>7. Follows(T) /\ Ids(T) \subseteq 1 .. born' /\ Continues(conv.turns, T)
  BY <1>3, <1>4, <1>6, AppendFollows
<1>8. born' \in born .. MaxTurns
  BY <1>4, <1>5
<1>9. /\ Past' /\ conv'.turns = T
      /\ UNCHANGED <<pub, projector, request, outbox, client, stored, shown, losses>>
  BY <1>4, <1>7, <1>8, EditKeepsPast
<1> QED
  BY <1>7, <1>8, <1>9

LEMMA RollbackKeepsPast ==
  ASSUME Past, Rollback
  PROVE  /\ Past' /\ Follows(conv'.turns)
         /\ UNCHANGED <<pub, projector, request, outbox, client, stored, shown>>
         /\ born' \in born .. MaxTurns
<1>1. PICK T : T = Front(conv.turns)
  OBVIOUS
<1>2. conv.turns # <<>> /\ born' = born /\ Edit(T, {Touched})
  BY <1>1 DEF Rollback
<1>3. born \in Nat /\ MaxTurns \in Nat /\ born' \in born .. MaxTurns
  BY <1>2, Bounds DEF Past
<1>4. Follows(T) /\ Ids(T) \subseteq 1 .. born'
  BY <1>1, <1>2, FrontFollows DEF Past
<1>5. conv.live \notin {Touched}
  <2>1. conv.live \in Nat /\ edits \in Nat /\ conv.live <= edits
    BY Bounds DEF Past
  <2>2. conv.live # edits + 1
    BY <2>1
  <2> QED
    BY <2>2 DEF Touched
<1>6. {Touched} \subseteq {conv.live, Touched}
  OBVIOUS
<1>7. /\ Past' /\ conv'.turns = T
      /\ UNCHANGED <<pub, projector, request, outbox, client, stored, shown, losses>>
  BY <1>2, <1>3, <1>4, <1>5, <1>6, EditKeepsPast
<1> QED
  BY <1>3, <1>4, <1>7

LEMMA ReplaceKeepsPast ==
  ASSUME Past, NEW i \in DOMAIN conv.turns, Running(conv.turns[i]), NEW t \in Turn,
         t.id = conv.turns[i].id, UNCHANGED born,
         Edit([conv.turns EXCEPT ![i] = t], {conv.live, Touched})
  PROVE  /\ Past' /\ Follows(conv'.turns)
         /\ UNCHANGED <<pub, projector, request, outbox, client, stored, shown>>
         /\ born' \in born .. MaxTurns
<1>1. PICK T : T = [conv.turns EXCEPT ![i] = t]
  OBVIOUS
<1>2. born \in Nat /\ MaxTurns \in Nat /\ born' = born /\ born' \in born .. MaxTurns
  BY Bounds DEF Past
<1>3. Follows(T) /\ Ids(T) = Ids(conv.turns) /\ Continues(conv.turns, T)
  BY <1>1, ReplaceFollows
<1>4. Ids(T) \subseteq 1 .. born'
  BY <1>2, <1>3 DEF Past
<1>5. /\ Past' /\ conv'.turns = T
      /\ UNCHANGED <<pub, projector, request, outbox, client, stored, shown, losses>>
  BY <1>1, <1>2, <1>3, <1>4, EditKeepsPast
<1> QED
  BY <1>2, <1>3, <1>5

\* A turn whose items are others is a turn.
LEMMA ItemsReplaced ==
  ASSUME NEW t \in Turn, NEW items \in Seq(Text), Len(items) <= MaxItems
  PROVE  [t EXCEPT !.items = items] \in Turn /\ [t EXCEPT !.items = items].id = t.id
<1>1. PICK u : u = [t EXCEPT !.items = items]
  OBVIOUS
<1>2. /\ t = [id |-> t.id, fields |-> t.fields, items |-> t.items]
      /\ t.id \in TurnIds /\ t.fields \in FieldMaps
  BY TurnIs
<1>3. u = [id |-> t.id, fields |-> t.fields, items |-> items]
  BY <1>1, <1>2
<1>4. /\ u = [id |-> u.id, fields |-> u.fields, items |-> u.items] /\ u.id = t.id
      /\ u.id \in TurnIds /\ u.fields \in FieldMaps /\ u.items \in Seq(Text)
      /\ Len(u.items) <= MaxItems
  BY <1>2, <1>3
<1>5. u \in Turn
  BY <1>4, TurnIs
<1> QED
  BY <1>1, <1>4, <1>5

LEMMA FieldsReplaced ==
  ASSUME NEW t \in Turn, NEW fields \in FieldMaps
  PROVE  [t EXCEPT !.fields = fields] \in Turn /\ [t EXCEPT !.fields = fields].id = t.id
<1>1. PICK u : u = [t EXCEPT !.fields = fields]
  OBVIOUS
<1>2. /\ t = [id |-> t.id, fields |-> t.fields, items |-> t.items]
      /\ t.id \in TurnIds /\ t.items \in Seq(Text) /\ Len(t.items) <= MaxItems
  BY TurnIs
<1>3. u = [id |-> t.id, fields |-> fields, items |-> t.items]
  BY <1>1, <1>2
<1>4. /\ u = [id |-> u.id, fields |-> u.fields, items |-> u.items] /\ u.id = t.id
      /\ u.id \in TurnIds /\ u.fields \in FieldMaps /\ u.items \in Seq(Text)
      /\ Len(u.items) <= MaxItems
  BY <1>2, <1>3
<1>5. u \in Turn
  BY <1>4, TurnIs
<1> QED
  BY <1>1, <1>4, <1>5

LEMMA TextReplaced ==
  ASSUME NEW t \in Turn, NEW n \in DOMAIN t.items, NEW text \in Text
  PROVE  LET items == [t.items EXCEPT ![n] = text]
         IN  items \in Seq(Text) /\ Len(items) <= MaxItems
<1>1. t.items \in Seq(Text) /\ Len(t.items) <= MaxItems
  BY TurnIs
<1> QED
  BY <1>1

LEMMA TurnChangesKeepsPast ==
  ASSUME Past, NEW i \in DOMAIN conv.turns, TurnChanges(i)
  PROVE  /\ Past' /\ Follows(conv'.turns)
         /\ UNCHANGED <<pub, projector, request, outbox, client, stored, shown>>
         /\ born' \in born .. MaxTurns
<1>1. PICK c : c = conv.turns
  OBVIOUS
<1>2. PICK t : t = c[i]
  OBVIOUS
<1>3. c \in Seq(Turn) /\ t \in Turn
  BY <1>1, <1>2, TurnsAre DEF Past
<1>4. /\ t.items \in Seq(Text) /\ Len(t.items) <= MaxItems /\ Len(t.items) \in Nat
      /\ \A n \in DOMAIN t.items : t.items[n] \in Text
  BY <1>3, TurnIs
<1>5. Running(c[i]) /\ UNCHANGED born
  BY <1>1 DEF TurnChanges
<1>6. ASSUME NEW u \in Turn, u.id = t.id, Edit([c EXCEPT ![i] = u], {conv.live, Touched})
      PROVE  /\ Past' /\ Follows(conv'.turns)
             /\ UNCHANGED <<pub, projector, request, outbox, client, stored, shown>>
             /\ born' \in born .. MaxTurns
  BY <1>1, <1>2, <1>5, <1>6, ReplaceKeepsPast
<1>7. ASSUME NEW items \in Seq(Text), Len(items) <= MaxItems,
             Edit([c EXCEPT ![i] = [t EXCEPT !.items = items]], {conv.live, Touched})
      PROVE  /\ Past' /\ Follows(conv'.turns)
             /\ UNCHANGED <<pub, projector, request, outbox, client, stored, shown>>
             /\ born' \in born .. MaxTurns
  <2>1. PICK u : u = [t EXCEPT !.items = items]
    OBVIOUS
  <2>2. u \in Turn /\ u.id = t.id
    BY <1>3, <1>7, <2>1, ItemsReplaced
  <2> QED
    BY <1>6, <1>7, <2>1, <2>2
<1>8. CASE \E n \in DOMAIN t.items :
             /\ Len(t.items[n]) < MaxText
             /\ Edit([c EXCEPT ![i].items[n] = Append(@, "a")], {conv.live, Touched})
  <2>1. PICK n \in DOMAIN t.items :
          /\ Len(t.items[n]) < MaxText
          /\ Edit([c EXCEPT ![i].items[n] = Append(@, "a")], {conv.live, Touched})
    BY <1>8
  <2>2. PICK text : text = Append(t.items[n], "a")
    OBVIOUS
  <2>3. text \in Text
    <3>1. t.items[n] \in Seq(Letters) /\ Len(t.items[n]) \in Nat
      BY <1>4, TextIs
    <3>2. "a" \in Letters
      BY DEF Letters
    <3>3. text \in Seq(Letters) /\ Len(text) = Len(t.items[n]) + 1
      BY <2>2, <3>1, <3>2
    <3>4. Len(text) <= MaxText
      BY <2>1, <3>1, <3>3, Bounds
    <3> QED
      BY <3>3, <3>4, TextIs
  <2>4. PICK items : items = [t.items EXCEPT ![n] = text]
    OBVIOUS
  <2>5. items \in Seq(Text) /\ Len(items) <= MaxItems
    BY <1>3, <2>3, <2>4, TextReplaced
  <2>6. [c EXCEPT ![i].items[n] = Append(@, "a")] = [c EXCEPT ![i] = [t EXCEPT !.items = items]]
    BY <1>2, <2>2, <2>4
  <2> QED
    BY <1>7, <2>1, <2>5, <2>6
<1>9. CASE \E n \in DOMAIN t.items :
             Edit([c EXCEPT ![i].items[n] = Rewritten(@)], {conv.live, Touched})
  <2>1. PICK n \in DOMAIN t.items :
          Edit([c EXCEPT ![i].items[n] = Rewritten(@)], {conv.live, Touched})
    BY <1>9
  <2>2. PICK text : text = Rewritten(t.items[n])
    OBVIOUS
  <2>3. text \in Text
    <3>1. text = [m \in 1 .. MaxText |-> "b"] /\ MaxText \in Nat
      BY <2>2, Bounds DEF Rewritten
    <3>2. text \in [1 .. MaxText -> Letters]
      BY <3>1 DEF Letters
    <3>3. text \in Seq(Letters) /\ Len(text) = MaxText
      BY <3>1, <3>2
    <3> QED
      BY <3>1, <3>3, TextIs
  <2>4. PICK items : items = [t.items EXCEPT ![n] = text]
    OBVIOUS
  <2>5. items \in Seq(Text) /\ Len(items) <= MaxItems
    BY <1>3, <2>3, <2>4, TextReplaced
  <2>6. [c EXCEPT ![i].items[n] = Rewritten(@)] = [c EXCEPT ![i] = [t EXCEPT !.items = items]]
    BY <1>2, <2>2, <2>4
  <2> QED
    BY <1>7, <2>1, <2>5, <2>6
<1>10. CASE /\ Len(t.items) < MaxItems
            /\ Edit([c EXCEPT ![i].items = Append(@, <<"a">>)], {conv.live, Touched})
  <2>1. <<"a">> \in Text
    <3>1. "a" \in Letters
      BY DEF Letters
    <3>0. <<"a">> \in Seq(Letters) /\ Len(<<"a">>) = 1
      BY <3>1
    <3>2. PICK text \in Seq(Letters) : text = <<"a">> /\ Len(text) = 1
      BY <3>0, Zenon
    <3>3. Len(text) <= MaxText
      BY <3>2, Bounds
    <3>4. text \in Text
      BY <3>3, TextIs
    <3> QED
      BY <3>2, <3>4
  <2>2. PICK items : items = Append(t.items, <<"a">>)
    OBVIOUS
  <2>3. items \in Seq(Text) /\ Len(items) = Len(t.items) + 1
    BY <1>4, <2>1, <2>2
  <2>4. Len(items) <= MaxItems
    BY <1>4, <1>10, <2>3, Bounds
  <2>5. [c EXCEPT ![i].items = Append(@, <<"a">>)] = [c EXCEPT ![i] = [t EXCEPT !.items = items]]
    BY <1>2, <2>2
  <2> QED
    BY <1>7, <1>10, <2>3, <2>4, <2>5
<1>11. CASE /\ t.items # <<>>
            /\ Edit([c EXCEPT ![i].items = Front(@)], {conv.live, Touched})
  <2>1. PICK items : items = Front(t.items)
    OBVIOUS
  <2>2. items \in Seq(Text) /\ Len(items) <= MaxItems
    <3>1. Len(t.items) # 0
      BY <1>4, <1>11
    <3>2. PICK k \in Nat : k + 1 = Len(t.items) /\ k = Len(t.items) - 1
      BY <1>4, <3>1
    <3>3. items = SubSeq(t.items, 1, k)
      BY <2>1, <3>2 DEF Front
    <3>4. items \in Seq(Text) /\ Len(items) = k
      BY <1>4, <3>2, <3>3
    <3> QED
      BY <1>4, <3>2, <3>4, Bounds
  <2>3. [c EXCEPT ![i].items = Front(@)] = [c EXCEPT ![i] = [t EXCEPT !.items = items]]
    BY <1>2, <2>1
  <2> QED
    BY <1>7, <1>11, <2>2, <2>3
<1>12. CASE Edit([c EXCEPT ![i].fields = [k \in {"status"} |-> "completed"]], {conv.live, Touched})
  <2>1. PICK fields : fields = [k \in {"status"} |-> "completed"]
    OBVIOUS
  <2>2. fields \in FieldMaps
    <3>1. fields \in [{"status"} -> Values] /\ {"status"} \in SUBSET Fields
      BY <2>1 DEF Values, Fields
    <3> QED
      BY <3>1 DEF FieldMaps
  <2>3. PICK u : u = [t EXCEPT !.fields = fields]
    OBVIOUS
  <2>4. u \in Turn /\ u.id = t.id
    BY <1>3, <2>2, <2>3, FieldsReplaced
  <2>5. [c EXCEPT ![i].fields = [k \in {"status"} |-> "completed"]] = [c EXCEPT ![i] = u]
    BY <1>2, <2>1, <2>3
  <2> QED
    BY <1>6, <1>12, <2>4, <2>5
<1> QED
  BY <1>1, <1>2, <1>8, <1>9, <1>10, <1>11, <1>12 DEF TurnChanges
-----------------------------------------------------------------------------
(***************************************************************************)
(* The deltas that wait.                                                   *)
(***************************************************************************)

\* The entries of the box take the turns start through the turns S, all among those
\* that were published.
Chain(S, box, start, seen) ==
  /\ \E E : box \in Seq(E)
  /\ S \in [0 .. Len(box) -> seen] /\ S[0] = start
  /\ \A i \in 1 .. Len(box) :
       /\ box[i] = [ack |-> box[i].ack, frame |-> box[i].frame] /\ box[i].ack \in BOOLEAN
       /\ TypedDelta(box[i].frame) /\ Takes(S[i - 1], box[i].frame, S[i])

LEMMA ChainGrows ==
  ASSUME NEW S, NEW box, NEW start, NEW seen, NEW more, Chain(S, box, start, seen),
         seen \subseteq more
  PROVE  Chain(S, box, start, more)
BY DEF Chain

\* What Put makes of the box.
Appended(box, ack, f) == Append(box, [ack |-> ack, frame |-> f])
Composed(box, f) == [box EXCEPT ![Len(box)].frame = Compose(@, f)]

LEMMA AppendKeepsChain ==
  ASSUME NEW S, NEW box, NEW start, NEW seen, Chain(S, box, start, seen),
         NEW f, NEW d \in seen, NEW ack \in BOOLEAN, TypedDelta(f), Takes(S[Len(box)], f, d),
         NEW new, new = Appended(box, ack, f)
  PROVE  /\ \E R : Chain(R, new, start, seen) /\ R[Len(new)] = d
         /\ \A i \in 1 .. Len(new) :
              new[i].ack => (ack /\ i = Len(new)) \/ (i \in 1 .. Len(box) /\ box[i].ack)
<1>1. PICK E : box \in Seq(E)
  BY DEF Chain
<1>2. PICK n \in Nat : n = Len(box)
  BY <1>1
<1>3. PICK e : e = [ack |-> ack, frame |-> f]
  OBVIOUS
<1>4. e.ack = ack /\ e.frame = f /\ e = [ack |-> e.ack, frame |-> e.frame]
  BY <1>3
<1>5. /\ new \in Seq(E \cup {e}) /\ Len(new) = n + 1 /\ new[n + 1] = e
      /\ \A i \in 1 .. n : new[i] = box[i]
  BY <1>1, <1>2, <1>3 DEF Appended
<1>6. PICK R : R = [i \in 0 .. n + 1 |-> IF i = n + 1 THEN d ELSE S[i]]
  OBVIOUS
<1>7. /\ S \in [0 .. n -> seen] /\ S[0] = start
      /\ \A i \in 1 .. n :
           /\ box[i] = [ack |-> box[i].ack, frame |-> box[i].frame] /\ box[i].ack \in BOOLEAN
           /\ TypedDelta(box[i].frame) /\ Takes(S[i - 1], box[i].frame, S[i])
  BY <1>2 DEF Chain
<1>8. \A i \in 0 .. n : R[i] = S[i] /\ i \in 0 .. n + 1
  BY <1>6
<1>9. R[n + 1] = d
  BY <1>6
<1>10. R \in [0 .. n + 1 -> seen]
  <2>1. ASSUME NEW i \in 0 .. n + 1 PROVE R[i] \in seen
    <3>1. CASE i = n + 1
      BY <1>9, <3>1
    <3>2. CASE i # n + 1
      <4>1. i \in 0 .. n
        BY <3>2
      <4> QED
        BY <1>7, <1>8, <4>1
    <3> QED
      BY <3>1, <3>2
  <2> QED
    BY <1>6, <2>1
<1>11. \A i \in 1 .. n + 1 : i = n + 1 \/ i \in 1 .. n
  OBVIOUS
<1>12. ASSUME NEW i \in 1 .. n + 1
       PROVE  /\ new[i] = [ack |-> new[i].ack, frame |-> new[i].frame] /\ new[i].ack \in BOOLEAN
              /\ TypedDelta(new[i].frame) /\ Takes(R[i - 1], new[i].frame, R[i])
              /\ new[i].ack => (ack /\ i = n + 1) \/ (i \in 1 .. n /\ box[i].ack)
  <2>1. CASE i = n + 1
    <3>1. i - 1 = n /\ R[n] = S[n]
      BY <1>8, <2>1
    <3> QED
      BY <1>2, <1>4, <1>5, <1>9, <2>1, <3>1
  <2>2. CASE i \in 1 .. n
    <3>1. i - 1 \in 0 .. n /\ i \in 0 .. n
      BY <2>2
    <3>2. R[i - 1] = S[i - 1] /\ R[i] = S[i] /\ new[i] = box[i]
      BY <1>5, <1>8, <2>2, <3>1
    <3> QED
      BY <1>7, <2>2, <3>2
  <2> QED
    BY <1>11, <2>1, <2>2
<1>13. R[0] = start
  BY <1>7, <1>8
<1>14. Chain(R, new, start, seen)
  BY <1>5, <1>10, <1>12, <1>13 DEF Chain
<1> QED
  BY <1>2, <1>5, <1>9, <1>12, <1>14

LEMMA ComposeKeepsChain ==
  ASSUME NEW S, NEW box, NEW start, NEW seen, Chain(S, box, start, seen),
         \A s \in seen : Turns(s), box # <<>>,
         NEW f, NEW d \in seen, TypedDelta(f), Takes(S[Len(box)], f, d),
         DOMAIN f.patches \subseteq Ids(d)
  PROVE  /\ Len(Composed(box, f)) = Len(box)
         /\ \E R : Chain(R, Composed(box, f), start, seen) /\ R[Len(box)] = d
         /\ \A i \in 1 .. Len(box) : Composed(box, f)[i].ack => box[i].ack
<1>0. PICK new : new = Composed(box, f)
  OBVIOUS
<1>1. PICK E : box \in Seq(E)
  BY DEF Chain
<1>2. PICK n \in Nat : n = Len(box)
  BY <1>1
<1>3. n # 0 /\ n \in 1 .. n /\ n - 1 \in 0 .. n /\ n \in 0 .. n
  BY <1>1, <1>2
<1>4. /\ S \in [0 .. n -> seen] /\ S[0] = start
      /\ \A i \in 1 .. n :
           /\ box[i] = [ack |-> box[i].ack, frame |-> box[i].frame] /\ box[i].ack \in BOOLEAN
           /\ TypedDelta(box[i].frame) /\ Takes(S[i - 1], box[i].frame, S[i])
  BY <1>2 DEF Chain
<1>5. PICK g : g = Compose(box[n].frame, f)
  OBVIOUS
<1>6. TypedDelta(g) /\ Takes(S[n - 1], g, d)
  <2>1. Turns(S[n - 1]) /\ Turns(S[n]) /\ Turns(d)
    BY <1>3, <1>4
  <2>2. TypedDelta(box[n].frame) /\ Takes(S[n - 1], box[n].frame, S[n]) /\ Takes(S[n], f, d)
    BY <1>2, <1>3, <1>4
  <2> QED
    BY <1>5, <2>1, <2>2, ComposeTakes
<1>7. PICK e : e = [ack |-> box[n].ack, frame |-> g]
  OBVIOUS
<1>8. e.ack = box[n].ack /\ e.frame = g /\ e = [ack |-> e.ack, frame |-> e.frame]
  BY <1>7
<1>9. new = [box EXCEPT ![n] = e]
  <2>1. PICK b : b = box[n]
    OBVIOUS
  <2>2. b = [ack |-> b.ack, frame |-> b.frame]
    BY <1>3, <1>4, <2>1
  <2>3. [b EXCEPT !.frame = Compose(@, f)] = e
    BY <1>5, <1>7, <2>1, <2>2
  <2>4. new = [box EXCEPT ![n] = [b EXCEPT !.frame = Compose(@, f)]]
    BY <1>0, <1>2, <2>1 DEF Composed
  <2> QED
    BY <2>3, <2>4
<1>10. /\ new \in Seq(E \cup {e}) /\ Len(new) = n /\ new[n] = e
       /\ \A i \in 1 .. n : i # n => new[i] = box[i]
  BY <1>1, <1>2, <1>3, <1>9
<1>11. PICK R : R = [S EXCEPT ![n] = d]
  OBVIOUS
<1>12. /\ R \in [0 .. n -> seen] /\ R[n] = d /\ \A i \in 0 .. n : i # n => R[i] = S[i]
  BY <1>3, <1>4, <1>11
<1>13. ASSUME NEW i \in 1 .. n
       PROVE  /\ new[i] = [ack |-> new[i].ack, frame |-> new[i].frame] /\ new[i].ack \in BOOLEAN
              /\ TypedDelta(new[i].frame) /\ Takes(R[i - 1], new[i].frame, R[i])
              /\ new[i].ack => box[i].ack
  <2>1. i - 1 \in 0 .. n /\ i - 1 # n /\ i \in 0 .. n
    OBVIOUS
  <2>2. R[i - 1] = S[i - 1]
    BY <1>12, <2>1
  <2>3. CASE i = n
    BY <1>3, <1>4, <1>6, <1>8, <1>10, <1>12, <2>2, <2>3
  <2>4. CASE i # n
    <3>1. new[i] = box[i] /\ R[i] = S[i]
      BY <1>10, <1>12, <2>1, <2>4
    <3> QED
      BY <1>4, <2>2, <3>1
  <2> QED
    BY <2>3, <2>4
<1>14. R[0] = start
  BY <1>3, <1>4, <1>12
<1>15. Chain(R, new, start, seen)
  BY <1>10, <1>12, <1>13, <1>14 DEF Chain
<1> QED
  BY <1>0, <1>2, <1>10, <1>12, <1>13, <1>15

LEMMA PutKeepsChain ==
  ASSUME NEW S, NEW seen, Chain(S, outbox, client, seen), \A s \in seen : Turns(s),
         NEW f, NEW d \in seen, NEW ack \in BOOLEAN, TypedDelta(f),
         Takes(S[Len(outbox)], f, d), DOMAIN f.patches \subseteq Ids(d),
         Put(ack, f), Len(outbox) <= MaxFrames
  PROVE  /\ \E R : Chain(R, outbox', client, seen) /\ R[Len(outbox')] = d
         /\ Len(outbox') <= MaxFrames
         /\ \A i \in 1 .. Len(outbox') :
              outbox'[i].ack => (ack /\ i = Len(outbox')) \/ (i \in 1 .. Len(outbox) /\ outbox[i].ack)
<1>1. PICK E : outbox \in Seq(E)
  BY DEF Chain
<1>2. PICK box : box = outbox
  OBVIOUS
<1>3. PICK new : new = outbox'
  OBVIOUS
<1>4. CASE box # <<>> /\ new = Composed(box, f)
  <2>1. Chain(S, box, client, seen) /\ Takes(S[Len(box)], f, d)
    BY <1>2
  <2>2. /\ Len(Composed(box, f)) = Len(box)
        /\ \E R : Chain(R, Composed(box, f), client, seen) /\ R[Len(box)] = d
        /\ \A i \in 1 .. Len(box) : Composed(box, f)[i].ack => box[i].ack
    BY <1>4, <2>1, ComposeKeepsChain
  <2> QED
    BY <1>2, <1>3, <1>4, <2>2
<1>5. CASE Len(box) < MaxFrames /\ new = Appended(box, ack, f)
  <2>1. /\ \E R : Chain(R, new, client, seen) /\ R[Len(new)] = d
        /\ \A i \in 1 .. Len(new) :
             new[i].ack => (ack /\ i = Len(new)) \/ (i \in 1 .. Len(box) /\ box[i].ack)
    <3>1. Chain(S, box, client, seen) /\ Takes(S[Len(box)], f, d)
      BY <1>2
    <3> QED
      BY <1>5, <3>1, AppendKeepsChain
  <2>2. Len(new) = Len(box) + 1 /\ Len(box) \in Nat
    BY <1>1, <1>2, <1>5 DEF Appended
  <2>3. Len(new) <= MaxFrames
    BY <1>5, <2>2, Bounds
  <2> QED
    BY <1>2, <1>3, <2>1, <2>3
<1> QED
  BY <1>2, <1>3, <1>4, <1>5 DEF Put, Composed, Appended

\* A delta that is delivered takes the client to the next turns of the chain.
LEMMA TailKeepsChain ==
  ASSUME NEW S, NEW box, NEW start, NEW seen, Chain(S, box, start, seen),
         \A s \in seen : Turns(s), box # <<>>
  PROVE  /\ Applied(start, Head(box).frame) = S[1] /\ S[1] \in seen
         /\ Len(Tail(box)) + 1 = Len(box) /\ Len(Tail(box)) \in Nat
         /\ \A i \in 1 .. Len(Tail(box)) : Tail(box)[i] = box[i + 1]
         /\ \E R : Chain(R, Tail(box), S[1], seen) /\ R[Len(Tail(box))] = S[Len(box)]
<1>1. PICK E : box \in Seq(E)
  BY DEF Chain
<1>2. Len(box) \in Nat /\ Len(box) # 0
  BY <1>1
<1>3. PICK n \in Nat : n + 1 = Len(box)
  <2>1. Len(box) - 1 \in Nat /\ (Len(box) - 1) + 1 = Len(box)
    BY <1>2
  <2> QED
    BY <2>1
<1>4. PICK new : new = Tail(box)
  OBVIOUS
<1>5. new \in Seq(E) /\ Len(new) = n /\ \A i \in 1 .. n : new[i] = box[i + 1]
  BY <1>1, <1>3, <1>4
<1>6. /\ S \in [0 .. n + 1 -> seen] /\ S[0] = start
      /\ \A i \in 1 .. n + 1 :
           /\ box[i] = [ack |-> box[i].ack, frame |-> box[i].frame] /\ box[i].ack \in BOOLEAN
           /\ TypedDelta(box[i].frame) /\ Takes(S[i - 1], box[i].frame, S[i])
  BY <1>3 DEF Chain
<1>7. Applied(start, Head(box).frame) = S[1] /\ S[1] \in seen
  <2>1. 1 \in 1 .. n + 1 /\ 1 \in 0 .. n + 1 /\ 0 \in 0 .. n + 1 /\ 1 - 1 = 0
    OBVIOUS
  <2>2. Turns(S[0]) /\ Turns(S[1]) /\ S[1] \in seen
    BY <1>6, <2>1
  <2>3. TypedDelta(box[1].frame) /\ Takes(S[0], box[1].frame, S[1])
    BY <1>6, <2>1
  <2>4. Applied(S[0], box[1].frame) = S[1]
    BY <2>2, <2>3, TakesIs
  <2>5. Head(box) = box[1]
    BY <1>1, <1>2
  <2> QED
    BY <1>6, <2>2, <2>4, <2>5
<1>8. PICK R : R = [i \in 0 .. n |-> S[i + 1]]
  OBVIOUS
<1>9. R \in [0 .. n -> seen] /\ R[0] = S[1] /\ R[n] = S[n + 1]
  <2>1. \A i \in 0 .. n : i + 1 \in 0 .. n + 1
    OBVIOUS
  <2> QED
    BY <1>6, <1>8, <2>1
<1>10. ASSUME NEW i \in 1 .. n
       PROVE  /\ new[i] = [ack |-> new[i].ack, frame |-> new[i].frame] /\ new[i].ack \in BOOLEAN
              /\ TypedDelta(new[i].frame) /\ Takes(R[i - 1], new[i].frame, R[i])
  <2>1. /\ i + 1 \in 1 .. n + 1 /\ i - 1 \in 0 .. n /\ i \in 0 .. n
        /\ (i - 1) + 1 = i /\ (i + 1) - 1 = i
    OBVIOUS
  <2>2. R[i - 1] = S[i] /\ R[i] = S[i + 1] /\ new[i] = box[i + 1]
    BY <1>5, <1>8, <2>1
  <2> QED
    BY <1>6, <2>1, <2>2
<1>11. Chain(R, new, S[1], seen)
  BY <1>5, <1>9, <1>10 DEF Chain
<1> QED
  BY <1>3, <1>4, <1>5, <1>7, <1>9, <1>11
-----------------------------------------------------------------------------
(***************************************************************************)
(* The inductive invariant.                                                *)
(***************************************************************************)

\* What a subscription was told of the client's turns is so, of the turns c that the
\* client will have: for what is published, and for what will be.
ToldAll(known, mutable, c) ==
  /\ known \subseteq 1 .. born
  /\ Told(known, mutable, c, pub.turns) /\ Told(known, mutable, c, conv.turns)

\* A subscription that waits for its first delta.
Waiting(p) == /\ request # None /\ request.phase = "registered"
              /\ DOMAIN p.projected = {} /\ p.live = None

\* The turns c that the client will have are those published last, or the projector
\* and the subscription asked for know enough of them.
End(c) ==
  /\ projector # None =>
       \/ Synced(projector, pub) /\ c = pub.turns
       \/ Waiting(projector) /\ ToldAll(projector.known, projector.mutable, c)
  /\ request # None /\ request.phase = "sent" => ToldAll(request.cached, request.refresh, c)

Flow ==
  /\ request \in Requests \cup {None} /\ projector \in Projectors \cup {None}
  /\ client \in shown /\ stored \in shown
  /\ Len(outbox) <= MaxFrames
  /\ projector = None => outbox = <<>> /\ (request = None \/ request.phase = "sent")
  /\ \A i \in 1 .. Len(outbox) :
       outbox[i].ack => request # None /\ request.phase = "acknowledged"
  /\ \A i, j \in 1 .. Len(outbox) : outbox[i].ack /\ outbox[j].ack => i = j

Linked == \E S : Chain(S, outbox, client, shown) /\ End(S[Len(outbox)])

Inv == Past /\ Flow /\ Linked

LEMMA NoneIsNot ==
  None \notin Requests /\ None \notin Projectors /\ None \notin Nat
BY SyncAssumption DEF SyncAssumption

LEMMA InitInv == Init => Inv
<1> SUFFICES ASSUME Init PROVE Inv
  OBVIOUS
<1>1. /\ conv = [turns |-> <<>>, live |-> 0] /\ pub = conv
      /\ projector = None /\ request = None /\ outbox = <<>>
      /\ client = <<>> /\ stored = <<>> /\ shown = {<<>>}
      /\ born = 0 /\ edits = 0 /\ losses = 0
  BY DEF Init
<1>2. PICK c : c = <<>>
  OBVIOUS
<1>3. Turns(c) /\ Ids(c) = {} /\ Len(c) = 0
  BY <1>2 DEF Turns, Ids
<1>4. Evolves(c, c) /\ Continues(c, c)
  BY <1>3 DEF Evolves, Continues
<1>5. conv.turns = c /\ pub.turns = c /\ conv.live = 0 /\ pub.live = 0 /\ shown = {c}
  BY <1>1, <1>2
<1>6. Past
  BY <1>1, <1>3, <1>4, <1>5, Bounds DEF Past
<1>7. Flow
  BY <1>1, Bounds DEF Flow
<1>8. Linked
  <2>1. PICK S : S = [i \in 0 .. 0 |-> c]
    OBVIOUS
  <2>2. Chain(S, outbox, client, shown)
    <3>1. <<>> \in Seq({}) /\ Len(<<>>) = 0
      OBVIOUS
    <3>2. S \in [0 .. Len(outbox) -> shown] /\ S[0] = client
      BY <1>1, <1>2, <1>5, <2>1, <3>1
    <3>3. \A i \in 1 .. Len(outbox) : FALSE
      BY <1>1, <3>1
    <3> QED
      BY <1>1, <3>1, <3>2, <3>3 DEF Chain
  <2>3. End(S[Len(outbox)])
    BY <1>1 DEF End
  <2> QED
    BY <2>2, <2>3 DEF Linked
<1> QED
  BY <1>6, <1>7, <1>8 DEF Inv

\* What a subscription was told stays so while the conversation goes on.
LEMMA ToldFollows ==
  ASSUME NEW known, NEW mutable, NEW c, NEW T, Follows(T), known \subseteq 1 .. born,
         Told(known, mutable, c, conv.turns)
  PROVE  Told(known, mutable, c, T)
<1>1. ASSUME NEW id \in Ids(T) \cap (known \ mutable)
      PROVE  id \in Ids(c) /\ TurnOf(c, id) = TurnOf(T, id) /\ ~Running(TurnOf(T, id))
  <2>1. /\ id \in Ids(conv.turns)
        /\ Running(TurnOf(conv.turns, id)) \/ TurnOf(T, id) = TurnOf(conv.turns, id)
    BY DEF Follows
  <2>2. /\ id \in Ids(c) /\ TurnOf(c, id) = TurnOf(conv.turns, id)
        /\ ~Running(TurnOf(conv.turns, id))
    BY <2>1 DEF Told
  <2> QED
    BY <2>1, <2>2
<1> QED
  BY <1>1 DEF Told

LEMMA EditKeepsInv ==
  ASSUME Inv, Past', Follows(conv'.turns), born' \in born .. MaxTurns,
         UNCHANGED <<pub, projector, request, outbox, client, stored, shown>>
  PROVE  Inv'
<1>1. Flow'
  BY DEF Inv, Flow
<1>2. PICK S : Chain(S, outbox, client, shown) /\ End(S[Len(outbox)])
  BY DEF Inv, Linked
<1>3. PICK c : c = S[Len(outbox)]
  OBVIOUS
<1>4. born \in Nat /\ born' \in Nat /\ 1 .. born \subseteq 1 .. born'
  BY Bounds DEF Inv, Past
<1>5. ASSUME NEW known, NEW mutable, ToldAll(known, mutable, c) PROVE ToldAll(known, mutable, c)'
  <2>1. /\ known \subseteq 1 .. born
        /\ Told(known, mutable, c, pub.turns) /\ Told(known, mutable, c, conv.turns)
    BY <1>5 DEF ToldAll
  <2>2. Told(known, mutable, c, conv'.turns)
    BY <2>1, ToldFollows
  <2> QED
    BY <1>4, <2>1, <2>2 DEF ToldAll
<1>6. End(c)'
  BY <1>2, <1>3, <1>5 DEF End, Waiting
<1>7. Linked'
  BY <1>2, <1>3, <1>6 DEF Linked
<1> QED
  BY <1>1, <1>7 DEF Inv

\* What the turns c that the client will have are, for the projector's next delta.
LEMMA EndKnows ==
  ASSUME NEW c, Past, Turns(c), End(c), projector # None, NEW t,
         t \in {pub.turns, conv.turns}
  PROVE  Knows(projector, c, t)
<1>1. Turns(pub.turns) /\ Turns(conv.turns) /\ Turns(t)
  BY DEF Past
<1>2. CASE Synced(projector, pub) /\ c = pub.turns
  <2>1. Evolves(pub.turns, t)
    BY DEF Past, Evolves
  <2> QED
    BY <1>1, <1>2, <2>1, SyncedKnows
<1>3. CASE Waiting(projector) /\ ToldAll(projector.known, projector.mutable, c)
  <2>1. Told(projector.known, projector.mutable, c, t) /\ DOMAIN projector.projected = {}
    BY <1>3 DEF ToldAll, Waiting
  <2> QED
    BY <1>1, <2>1, ToldKnows
<1> QED
  BY <1>2, <1>3 DEF End

\* The turns that a subscription is told of, from any published turns.
LEMMA ToldOfPublished ==
  ASSUME Past, NEW s \in shown, NEW known, NEW mutable, known = Ids(s), mutable = RunningIds(s),
         NEW c \in {s, pub.turns}
  PROVE  ToldAll(known, mutable, c)
<1>1. Turns(s) /\ known \subseteq 1 .. born
  BY DEF Past
<1>2. ASSUME NEW id \in known \ mutable PROVE ~Running(TurnOf(s, id))
  <2>1. PICK m \in 1 .. Len(s) : s[m].id = id /\ TurnOf(s, id) = s[m]
    BY <1>1, TurnsAre
  <2>2. m \in DOMAIN s
    BY <1>1, TurnsAre
  <2> QED
    BY <2>1, <2>2 DEF RunningIds
<1>3. /\ Evolves(s, pub.turns) /\ Evolves(s, conv.turns)
      /\ Ids(s) \cap Ids(conv.turns) \subseteq Ids(pub.turns)
  BY ShownEvolves DEF Past
<1>4. ASSUME NEW id \in Ids(pub.turns) \cap (known \ mutable)
      PROVE  TurnOf(pub.turns, id) = TurnOf(s, id) /\ ~Running(TurnOf(pub.turns, id))
  BY <1>2, <1>3 DEF Evolves
<1>5. ASSUME NEW id \in Ids(conv.turns) \cap (known \ mutable)
      PROVE  /\ TurnOf(conv.turns, id) = TurnOf(s, id) /\ ~Running(TurnOf(conv.turns, id))
             /\ id \in Ids(pub.turns)
  BY <1>2, <1>3 DEF Evolves
<1>6. Told(known, mutable, c, pub.turns)
  BY <1>4 DEF Told
<1>7. Told(known, mutable, c, conv.turns)
  BY <1>4, <1>5 DEF Told
<1> QED
  BY <1>1, <1>6, <1>7 DEF ToldAll
-----------------------------------------------------------------------------
(***************************************************************************)
(* The steps of the subscription.                                          *)
(***************************************************************************)

LEMMA PublishKeepsInv ==
  ASSUME Inv, Publish
  PROVE  Inv'
<1>1. /\ pub' = conv /\ shown' = shown \cup {conv.turns}
      /\ UNCHANGED <<conv, request, client, stored, born>>
  BY DEF Publish, counters
<1>2. Past /\ Past' /\ Flow
  BY PublishKeepsPast DEF Inv
<1>3. PICK S : Chain(S, outbox, client, shown) /\ End(S[Len(outbox)])
  BY DEF Inv, Linked
<1>4. PICK c : c = S[Len(outbox)]
  OBVIOUS
<1>5. Chain(S, outbox, client, shown')
  <2>1. shown \subseteq shown'
    BY <1>1
  <2> QED
    BY <1>3, <2>1, ChainGrows
<1>6. c \in shown /\ Turns(c) /\ Turns(conv.turns) /\ conv.live \in Nat /\ End(c)
  <2>1. Len(outbox) \in Nat /\ S \in [0 .. Len(outbox) -> shown]
    BY <1>3 DEF Chain
  <2>2. c \in shown
    BY <1>4, <2>1
  <2> QED
    BY <1>2, <1>3, <1>4, <2>2 DEF Past
<1>7. /\ client \in shown' /\ stored \in shown' /\ conv.turns \in shown'
      /\ \A s \in shown' : Turns(s)
  BY <1>1, <1>2 DEF Past, Flow
<1>8. ASSUME NEW known, NEW mutable, ToldAll(known, mutable, c), NEW d \in {c, conv.turns}
      PROVE  ToldAll(known, mutable, d)'
  <2>1. Told(known, mutable, c, conv.turns) /\ known \subseteq 1 .. born
    BY <1>8 DEF ToldAll
  <2>2. Told(known, mutable, d, conv.turns)
    BY <2>1 DEF Told
  <2> QED
    BY <1>1, <2>1, <2>2 DEF ToldAll
<1>9. CASE projector = None
  <2>1. UNCHANGED <<projector, outbox>>
    BY <1>9 DEF Publish
  <2>2. Flow'
    BY <1>1, <1>2, <1>7, <2>1 DEF Flow
  <2>3. End(c)'
    BY <1>1, <1>6, <1>8, <1>9, <2>1 DEF End
  <2>4. Linked'
    BY <1>1, <1>4, <1>5, <2>1, <2>3 DEF Linked
  <2> QED
    BY <1>2, <2>2, <2>4 DEF Inv
<1>10. CASE projector # None
  <2>1. /\ projector' = Projected(projector, conv)
        /\ IF SaysAnything(projector, conv) THEN Put(FALSE, Delta(projector, conv.turns))
           ELSE UNCHANGED outbox
    BY <1>10 DEF Publish
  <2>2. projector' \in Projectors /\ Synced(projector', conv) /\ projector' # None
    BY <1>6, <2>1, ProjectedIs, NoneIsNot
  <2>3. End(conv.turns)'
    <3>1. Synced(projector', pub') /\ conv.turns = pub'.turns
      BY <1>1, <2>2
    <3>2. ASSUME request # None, request.phase = "sent"
          PROVE  ToldAll(request.cached, request.refresh, conv.turns)'
      BY <1>1, <1>6, <1>8, <3>2 DEF End
    <3> QED
      BY <1>1, <3>1, <3>2 DEF End
  <2>4. CASE SaysAnything(projector, conv)
    <3>1. PICK f : f = Delta(projector, conv.turns)
      OBVIOUS
    <3>2. Knows(projector, c, conv.turns)
      BY <1>2, <1>6, <1>10, EndKnows
    <3>3. TypedDelta(f) /\ Takes(c, f, conv.turns) /\ DOMAIN f.patches \subseteq Ids(conv.turns)
      BY <1>6, <3>1, <3>2, DeltaTakes
    <3>4. Put(FALSE, f) /\ Len(outbox) <= MaxFrames /\ Takes(S[Len(outbox)], f, conv.turns)
      BY <1>2, <1>4, <2>1, <2>4, <3>1, <3>3 DEF Flow
    <3>5. /\ \E R : Chain(R, outbox', client, shown') /\ R[Len(outbox')] = conv.turns
          /\ Len(outbox') <= MaxFrames
          /\ \A i \in 1 .. Len(outbox') :
               outbox'[i].ack => (FALSE /\ i = Len(outbox')) \/ (i \in 1 .. Len(outbox) /\ outbox[i].ack)
      BY <1>5, <1>7, <3>3, <3>4, PutKeepsChain
    <3>6. Flow'
      BY <1>1, <1>2, <1>7, <2>2, <3>5 DEF Flow
    <3>7. Linked'
      BY <1>1, <2>3, <3>5 DEF Linked
    <3> QED
      BY <1>2, <3>6, <3>7 DEF Inv
  <2>5. CASE ~SaysAnything(projector, conv)
    <3>1. UNCHANGED outbox
      BY <2>1, <2>5
    <3>2. projector.live # None
      BY <1>6, <2>5, NoneIsNot DEF SaysAnything
    <3>3. Synced(projector, pub) /\ c = pub.turns
      BY <1>6, <1>10, <3>2 DEF End, Waiting
    <3>4. conv.turns = c
      <4>1. /\ Turns(pub.turns) /\ Turns(conv.turns) /\ Evolves(pub.turns, conv.turns)
            /\ conv.live = pub.live => Continues(pub.turns, conv.turns)
        BY <1>2 DEF Past
      <4> QED
        BY <2>5, <3>3, <4>1, NothingToSay
    <3>5. Flow'
      BY <1>1, <1>2, <1>7, <1>10, <2>2, <3>1 DEF Flow
    <3>6. Linked'
      BY <1>1, <1>4, <1>5, <2>3, <3>1, <3>4 DEF Linked
    <3> QED
      BY <1>2, <3>5, <3>6 DEF Inv
  <2> QED
    BY <2>4, <2>5
<1> QED
  BY <1>9, <1>10

LEMMA RequestKeepsInv ==
  ASSUME Inv, Request
  PROVE  Inv'
<1>1. /\ request = None
      /\ request' = [phase |-> "sent", cached |-> Ids(client), refresh |-> RunningIds(client)]
      /\ UNCHANGED <<conv, pub, projector, outbox, client, stored, shown, born, edits, losses>>
  BY DEF Request, RunningIds, counters
<1>2. Past' /\ Past /\ Flow
  BY <1>1 DEF Inv, Past
<1>3. PICK S : Chain(S, outbox, client, shown) /\ End(S[Len(outbox)])
  BY DEF Inv, Linked
<1>4. PICK c : c = S[Len(outbox)]
  OBVIOUS
<1>5. client \in shown /\ Turns(client)
  BY <1>2 DEF Past, Flow
<1>6. c \in {client, pub.turns}
  <2>1. CASE projector = None
    <3>1. Len(outbox) = 0 /\ S[0] = client
      BY <1>2, <1>3, <2>1 DEF Flow, Chain
    <3> QED
      BY <1>4, <3>1
  <2>2. CASE projector # None
    BY <1>1, <1>3, <1>4, <2>2 DEF End, Waiting
  <2> QED
    BY <2>1, <2>2
<1>7. ToldAll(Ids(client), RunningIds(client), c)
  BY <1>2, <1>5, <1>6, ToldOfPublished
<1>8. request' \in Requests /\ request' # None /\ request'.phase = "sent"
      /\ request'.cached = Ids(client) /\ request'.refresh = RunningIds(client)
  <2>1. Ids(client) \in SUBSET TurnIds /\ RunningIds(client) \in SUBSET TurnIds
    <3>1. Ids(client) \subseteq TurnIds
      BY <1>5, TurnsAre
    <3>2. RunningIds(client) \subseteq Ids(client)
      BY DEF RunningIds, Ids
    <3> QED
      BY <3>1, <3>2
  <2>2. request' \in Requests
    BY <1>1, <2>1 DEF Requests
  <2> QED
    BY <1>1, <2>2, NoneIsNot
<1>9. \A i \in 1 .. Len(outbox) : ~outbox[i].ack
  BY <1>1, <1>2 DEF Flow
<1>10. Flow'
  BY <1>1, <1>2, <1>8, <1>9 DEF Flow
<1>11. End(c)'
  <2>1. projector # None => Synced(projector, pub) /\ c = pub.turns
    BY <1>1, <1>3, <1>4 DEF End, Waiting
  <2>2. PICK known, mutable : known = request'.cached /\ mutable = request'.refresh
    OBVIOUS
  <2>3. ToldAll(known, mutable, c)'
    BY <1>1, <1>7, <1>8, <2>2 DEF ToldAll
  <2> QED
    BY <1>1, <2>1, <2>2, <2>3 DEF End
<1>12. Linked'
  BY <1>1, <1>3, <1>4, <1>11 DEF Linked
<1> QED
  BY <1>2, <1>10, <1>12 DEF Inv

LEMMA RegisterKeepsInv ==
  ASSUME Inv, Register
  PROVE  Inv'
<1>1. /\ request # None /\ request.phase = "sent"
      /\ projector' = NewProjector(request.cached, request.refresh)
      /\ request' = [request EXCEPT !.phase = "registered"]
      /\ UNCHANGED <<conv, pub, outbox, client, stored, shown, born, edits, losses>>
  BY DEF Register, counters
<1>2. Past' /\ Past /\ Flow
  BY <1>1 DEF Inv, Past
<1>3. PICK S : Chain(S, outbox, client, shown) /\ End(S[Len(outbox)])
  BY DEF Inv, Linked
<1>4. PICK c : c = S[Len(outbox)]
  OBVIOUS
<1>5. /\ request \in Requests /\ request.cached \in SUBSET TurnIds /\ request.refresh \in SUBSET TurnIds
      /\ ToldAll(request.cached, request.refresh, c)
  BY <1>1, <1>2, <1>3, <1>4 DEF Flow, Requests, End
<1>6. /\ projector'.known = request.cached /\ projector'.mutable = request.refresh
      /\ DOMAIN projector'.projected = {} /\ projector'.live = None
      /\ projector' \in Projectors /\ projector' # None
  <2>1. PICK empty : empty = <<>>
    OBVIOUS
  <2>2. DOMAIN empty = {} /\ empty \in TurnMap
    <3>1. DOMAIN empty = {} /\ empty = [x \in {} |-> x]
      BY <2>1
    <3>2. empty \in [{} -> Turn]
      BY <3>1
    <3> QED
      BY <3>1, <3>2, TurnMapIs
  <2>3. projector' = [known |-> request.cached, mutable |-> request.refresh, projected |-> empty,
                      live |-> None]
    BY <1>1, <2>1 DEF NewProjector
  <2>4. projector' \in Projectors
    BY <1>5, <2>2, <2>3 DEF Projectors
  <2> QED
    BY <2>2, <2>3, <2>4, NoneIsNot
<1>7. request' \in Requests /\ request' # None /\ request'.phase = "registered"
  <2>1. PICK r : r = request
    OBVIOUS
  <2>2. r = [phase |-> r.phase, cached |-> r.cached, refresh |-> r.refresh]
    BY <1>5, <2>1 DEF Requests
  <2>3. request' = [phase |-> "registered", cached |-> r.cached, refresh |-> r.refresh]
    BY <1>1, <2>1, <2>2
  <2>4. request' \in Requests
    BY <1>5, <2>1, <2>3 DEF Requests
  <2> QED
    BY <2>3, <2>4, NoneIsNot
<1>8. \A i \in 1 .. Len(outbox) : ~outbox[i].ack
  BY <1>1, <1>2 DEF Flow
<1>9. Flow'
  BY <1>1, <1>2, <1>6, <1>7, <1>8 DEF Flow
<1>10. End(c)'
  <2>1. PICK p : p = projector'
    OBVIOUS
  <2>2. ToldAll(p.known, p.mutable, c)'
    BY <1>1, <1>5, <1>6, <2>1 DEF ToldAll
  <2>3. Waiting(p)'
    BY <1>6, <1>7, <2>1 DEF Waiting
  <2> QED
    BY <1>7, <2>1, <2>2, <2>3 DEF End
<1>11. Linked'
  BY <1>1, <1>3, <1>4, <1>10 DEF Linked
<1> QED
  BY <1>2, <1>9, <1>11 DEF Inv

LEMMA AcknowledgeKeepsInv ==
  ASSUME Inv, Acknowledge
  PROVE  Inv'
<1>1. /\ request # None /\ request.phase = "registered"
      /\ projector' = Projected(projector, pub)
      /\ Put(TRUE, Delta(projector, pub.turns))
      /\ request' = [request EXCEPT !.phase = "acknowledged"]
      /\ UNCHANGED <<conv, pub, client, stored, shown, born, edits, losses>>
  BY DEF Acknowledge, counters
<1>2. Past' /\ Past /\ Flow
  BY <1>1 DEF Inv, Past
<1>3. PICK S : Chain(S, outbox, client, shown) /\ End(S[Len(outbox)])
  BY DEF Inv, Linked
<1>4. PICK c : c = S[Len(outbox)]
  OBVIOUS
<1>5. c \in shown /\ Turns(c) /\ End(c)
  <2>1. Len(outbox) \in Nat /\ S \in [0 .. Len(outbox) -> shown]
    BY <1>3 DEF Chain
  <2>2. c \in shown
    BY <1>4, <2>1
  <2> QED
    BY <1>2, <1>3, <1>4, <2>2 DEF Past
<1>6. /\ Turns(pub.turns) /\ pub.live \in Nat /\ pub.turns \in shown
      /\ \A s \in shown : Turns(s)
  BY <1>2 DEF Past
<1>7. projector # None
  BY <1>1, <1>2 DEF Flow
<1>8. projector' \in Projectors /\ Synced(projector', pub) /\ projector' # None
  BY <1>1, <1>6, ProjectedIs, NoneIsNot
<1>9. request' \in Requests /\ request' # None /\ request'.phase = "acknowledged"
  <2>1. PICK r : r = request
    OBVIOUS
  <2>2. r \in Requests /\ r = [phase |-> r.phase, cached |-> r.cached, refresh |-> r.refresh]
        /\ r.cached \in SUBSET TurnIds /\ r.refresh \in SUBSET TurnIds
    BY <1>1, <1>2, <2>1 DEF Flow, Requests
  <2>3. request' = [phase |-> "acknowledged", cached |-> r.cached, refresh |-> r.refresh]
    BY <1>1, <2>1, <2>2
  <2>4. request' \in Requests
    BY <2>2, <2>3 DEF Requests
  <2> QED
    BY <2>3, <2>4, NoneIsNot
<1>10. PICK f : f = Delta(projector, pub.turns)
  OBVIOUS
<1>11. TypedDelta(f) /\ Takes(c, f, pub.turns) /\ DOMAIN f.patches \subseteq Ids(pub.turns)
  <2>1. Knows(projector, c, pub.turns)
    BY <1>2, <1>5, <1>7, EndKnows
  <2> QED
    BY <1>5, <1>6, <1>10, <2>1, DeltaTakes
<1>12. /\ \E R : Chain(R, outbox', client, shown) /\ R[Len(outbox')] = pub.turns
       /\ Len(outbox') <= MaxFrames
       /\ \A i \in 1 .. Len(outbox') :
            outbox'[i].ack => (TRUE /\ i = Len(outbox')) \/ (i \in 1 .. Len(outbox) /\ outbox[i].ack)
  <2>1. Put(TRUE, f) /\ Len(outbox) <= MaxFrames /\ Takes(S[Len(outbox)], f, pub.turns)
    BY <1>1, <1>2, <1>4, <1>10, <1>11 DEF Flow
  <2> QED
    BY <1>3, <1>6, <1>11, <2>1, PutKeepsChain
<1>13. \A i \in 1 .. Len(outbox) : ~outbox[i].ack
  BY <1>1, <1>2 DEF Flow
<1>14. \A i \in 1 .. Len(outbox') : outbox'[i].ack => i = Len(outbox')
  BY <1>12, <1>13
<1>15. Flow'
  BY <1>1, <1>2, <1>8, <1>9, <1>12, <1>14 DEF Flow
<1>16. End(pub.turns)'
  <2>1. Synced(projector', pub') /\ pub.turns = pub'.turns
    BY <1>1, <1>8
  <2> QED
    BY <1>9, <2>1 DEF End
<1>17. Linked'
  BY <1>1, <1>12, <1>16 DEF Linked
<1> QED
  BY <1>2, <1>15, <1>17 DEF Inv

LEMMA DeliverKeepsInv ==
  ASSUME Inv, Deliver
  PROVE  Inv'
<1>1. /\ outbox # <<>>
      /\ client' = Applied(client, Head(outbox).frame)
      /\ outbox' = Tail(outbox)
      /\ request' = IF Head(outbox).ack THEN None ELSE request
      /\ UNCHANGED <<conv, pub, projector, stored, shown, born, edits, losses>>
  BY DEF Deliver, counters
<1>2. Past' /\ Past /\ Flow
  BY <1>1 DEF Inv, Past
<1>3. PICK S : Chain(S, outbox, client, shown) /\ End(S[Len(outbox)])
  BY DEF Inv, Linked
<1>4. PICK c : c = S[Len(outbox)]
  OBVIOUS
<1>5. \A s \in shown : Turns(s)
  BY <1>2 DEF Past
<1>6. /\ client' = S[1] /\ client' \in shown
      /\ Len(outbox') + 1 = Len(outbox) /\ Len(outbox') \in Nat
      /\ \A i \in 1 .. Len(outbox') : outbox'[i] = outbox[i + 1]
      /\ \E R : Chain(R, outbox', client', shown) /\ R[Len(outbox')] = c
  BY <1>1, <1>3, <1>4, <1>5, TailKeepsChain
<1>7. projector # None
  BY <1>1, <1>2 DEF Flow
<1>8. Head(outbox) = outbox[1] /\ 1 \in 1 .. Len(outbox)
  <2>1. PICK E : outbox \in Seq(E)
    BY <1>3 DEF Chain
  <2> QED
    BY <1>1, <2>1
<1>9. \A i \in 1 .. Len(outbox') : i + 1 \in 1 .. Len(outbox) /\ i + 1 # 1
  BY <1>6
<1>10. /\ request' \in Requests \cup {None}
       /\ \A i \in 1 .. Len(outbox') : outbox'[i].ack => request' # None /\ request'.phase = "acknowledged"
       /\ \A i, j \in 1 .. Len(outbox') : outbox'[i].ack /\ outbox'[j].ack => i = j
  <2>1. \A i, j \in 1 .. Len(outbox') : outbox'[i].ack /\ outbox'[j].ack => i = j
    <3>1. ASSUME NEW i \in 1 .. Len(outbox'), NEW j \in 1 .. Len(outbox'),
                 outbox'[i].ack, outbox'[j].ack
          PROVE  i = j
      <4>1. outbox[i + 1].ack /\ outbox[j + 1].ack
        BY <1>6, <3>1
      <4>2. i + 1 = j + 1
        BY <1>2, <1>9, <4>1 DEF Flow
      <4> QED
        BY <4>2
    <3> QED
      BY <3>1
  <2>2. CASE Head(outbox).ack
    <3>1. \A i \in 1 .. Len(outbox') : ~outbox'[i].ack
      <4>1. ASSUME NEW i \in 1 .. Len(outbox'), outbox'[i].ack PROVE FALSE
        <5>1. outbox[i + 1].ack /\ outbox[1].ack
          BY <1>6, <1>8, <2>2, <4>1
        <5> QED
          BY <1>2, <1>8, <1>9, <5>1 DEF Flow
      <4> QED
        BY <4>1
    <3> QED
      BY <1>1, <2>1, <2>2, <3>1
  <2>3. CASE ~Head(outbox).ack
    <3>1. request' = request
      BY <1>1, <2>3
    <3>2. \A i \in 1 .. Len(outbox') : outbox'[i].ack => request # None /\ request.phase = "acknowledged"
      BY <1>2, <1>6, <1>9 DEF Flow
    <3> QED
      BY <1>2, <2>1, <3>1, <3>2 DEF Flow
  <2> QED
    BY <2>2, <2>3
<1>11. Flow'
  <2>1. Len(outbox') <= MaxFrames
    BY <1>2, <1>6, Bounds DEF Flow
  <2> QED
    BY <1>1, <1>2, <1>6, <1>7, <1>10, <2>1 DEF Flow
<1>12. End(c)'
  <2>1. End(c)
    BY <1>3, <1>4
  <2>2. CASE Head(outbox).ack
    <3>1. request # None /\ request.phase = "acknowledged"
      BY <1>2, <1>8, <2>2 DEF Flow
    <3>2. Synced(projector, pub) /\ c = pub.turns
      BY <1>7, <2>1, <3>1 DEF End, Waiting
    <3>3. request' = None
      BY <1>1, <2>2
    <3> QED
      BY <1>1, <3>2, <3>3 DEF End
  <2>3. CASE ~Head(outbox).ack
    <3>1. request' = request
      BY <1>1, <2>3
    <3> QED
      BY <1>1, <2>1, <3>1 DEF End, Waiting, ToldAll
  <2> QED
    BY <2>2, <2>3
<1>13. Linked'
  BY <1>1, <1>6, <1>12 DEF Linked
<1> QED
  BY <1>2, <1>11, <1>13 DEF Inv

LEMMA PersistKeepsInv ==
  ASSUME Inv, Persist
  PROVE  Inv'
<1>1. /\ stored' = client
      /\ UNCHANGED <<conv, pub, projector, request, outbox, client, shown, born, edits, losses>>
  BY DEF Persist, counters
<1>2. Past' /\ Flow'
  BY <1>1 DEF Inv, Past, Flow
<1>3. Linked'
  BY <1>1 DEF Inv, Linked, End, Waiting, ToldAll
<1> QED
  BY <1>2, <1>3 DEF Inv

LEMMA LoseKeepsInv ==
  ASSUME Inv, Lose
  PROVE  Inv'
<1>1. /\ losses < MaxLosses /\ losses' = losses + 1
      /\ projector' = None /\ request' = None /\ outbox' = <<>>
      /\ client' \in {client, stored}
      /\ UNCHANGED <<conv, pub, stored, shown, born, edits>>
  BY DEF Lose
<1>2. losses' \in 0 .. MaxLosses
  BY <1>1, Bounds DEF Inv, Past
<1>3. Past'
  BY <1>1, <1>2 DEF Inv, Past
<1>4. PICK box : box = <<>>
  OBVIOUS
<1>5. box \in Seq({}) /\ Len(box) = 0 /\ outbox' = box
  BY <1>1, <1>4
<1>6. client' \in shown
  BY <1>1 DEF Inv, Flow
<1>7. Flow'
  BY <1>1, <1>5, <1>6, Bounds DEF Inv, Flow
<1>8. PICK S : S = [i \in 0 .. 0 |-> client']
  OBVIOUS
<1>9. Chain(S, box, client', shown)
  BY <1>5, <1>6, <1>8 DEF Chain
<1>10. Linked'
  BY <1>1, <1>5, <1>9 DEF Linked, End
<1> QED
  BY <1>3, <1>7, <1>10 DEF Inv

LEMMA NextKeepsInv == Inv /\ [Next]_vars => Inv'
<1> SUFFICES ASSUME Inv, [Next]_vars PROVE Inv'
  OBVIOUS
<1>1. Past
  BY DEF Inv
<1>2. CASE NewTurn
  BY <1>1, <1>2, NewTurnKeepsPast, EditKeepsInv
<1>3. CASE Rollback
  BY <1>1, <1>3, RollbackKeepsPast, EditKeepsInv
<1>4. CASE \E i \in DOMAIN conv.turns : TurnChanges(i)
  BY <1>1, <1>4, TurnChangesKeepsPast, EditKeepsInv
<1>5. CASE Publish
  BY <1>5, PublishKeepsInv
<1>6. CASE Request
  BY <1>6, RequestKeepsInv
<1>7. CASE Register
  BY <1>7, RegisterKeepsInv
<1>8. CASE Acknowledge
  BY <1>8, AcknowledgeKeepsInv
<1>9. CASE Deliver
  BY <1>9, DeliverKeepsInv
<1>10. CASE Persist
  BY <1>10, PersistKeepsInv
<1>11. CASE Lose
  BY <1>11, LoseKeepsInv
<1>12. CASE UNCHANGED vars
  <2>1. UNCHANGED <<conv, pub, projector, request, outbox, client, stored, shown, born, edits, losses>>
    BY <1>12 DEF vars
  <2> QED
    BY <2>1 DEF Inv, Past, Flow, Linked, End, Waiting, ToldAll
<1> QED
  BY <1>2, <1>3, <1>4, <1>5, <1>6, <1>7, <1>8, <1>9, <1>10, <1>11, <1>12 DEF Next
-----------------------------------------------------------------------------
(***************************************************************************)
(* The theorems.                                                           *)
(***************************************************************************)

\* Inv holds of every state.
LEMMA SpecInv == Spec => []Inv
BY InitInv, NextKeepsInv, PTL DEF Spec

\* What the server, the outbox and the browser hold is well-formed, no turn is there
\* twice, and a composed delta has no patch beside the full turn it applies to, so
\* that its turns are turns (turn_sync.py, ws_outbox.py, codexTurnSync.ts).
THEOREM TypeInvariant == Spec => []TypeOK
<1>1. Inv => TypeOK
  <2> SUFFICES ASSUME Inv PROVE TypeOK
    OBVIOUS
  <2>1. PICK S : Chain(S, outbox, client, shown)
    BY DEF Inv, Linked
  <2>2. PICK E : outbox \in Seq(E)
    BY <2>1 DEF Chain
  <2>3. DOMAIN outbox = 1 .. Len(outbox)
    BY <2>2
  <2>4. \A i \in DOMAIN outbox : outbox[i].frame.turns \in TurnMap
    BY <2>1, <2>3 DEF Chain, TypedDelta
  <2> QED
    BY <2>4 DEF Inv, Past, Flow, TypeOK
<1> QED
  BY <1>1, SpecInv, PTL

\* Once a subscription is acknowledged, the deltas that wait take the client to the
\* state last published, for any number of turns and of waiting deltas
\* (TurnEventProjector, _merge_thread_state_delta, applyDelta).
THEOREM ConvergesHolds == Spec => []Converges
<1>1. Inv => Converges
  <2> SUFFICES ASSUME Inv PROVE Converges
    OBVIOUS
  <2>1. PICK S : Chain(S, outbox, client, shown) /\ End(S[Len(outbox)])
    BY DEF Inv, Linked
  <2>2. PICK E : outbox \in Seq(E)
    BY <2>1 DEF Chain
  <2>3. PICK m \in Nat : m = Len(outbox)
    BY <2>2
  <2>4. /\ S \in [0 .. m -> shown] /\ S[0] = client
        /\ \A i \in 1 .. m : TypedDelta(outbox[i].frame) /\ Takes(S[i - 1], outbox[i].frame, S[i])
    BY <2>1, <2>3 DEF Chain
  <2>5. \A i \in 1 .. m : S[i] = Applied(S[i - 1], outbox[i].frame)
    <3>1. ASSUME NEW i \in 1 .. m PROVE S[i] = Applied(S[i - 1], outbox[i].frame)
      <4>1. i - 1 \in 0 .. m /\ i \in 0 .. m
        OBVIOUS
      <4>2. Turns(S[i - 1]) /\ Turns(S[i])
        BY <2>4, <4>1 DEF Inv, Past
      <4> QED
        BY <2>4, <4>2, TakesIs
    <3> QED
      BY <3>1
  <2>6. S = [n \in 0 .. m |-> IF n = 0 THEN client ELSE Applied(S[n - 1], outbox[n].frame)]
    <3>1. ASSUME NEW n \in 0 .. m
          PROVE  S[n] = IF n = 0 THEN client ELSE Applied(S[n - 1], outbox[n].frame)
      <4>1. n = 0 \/ n \in 1 .. m
        OBVIOUS
      <4> QED
        BY <2>4, <2>5, <4>1
    <3> QED
      BY <2>4, <3>1
  <2>7. PICK after : after = CHOOSE f :
          f = [n \in 0 .. m |-> IF n = 0 THEN client ELSE Applied(f[n - 1], outbox[n].frame)]
    OBVIOUS
  <2>8. after = [n \in 0 .. m |-> IF n = 0 THEN client ELSE Applied(after[n - 1], outbox[n].frame)]
    BY <2>6, <2>7
  <2>9. PICK N : N = {n \in Nat : n \in 0 .. m => after[n] = S[n]}
    OBVIOUS
  <2>10. Nat \subseteq N
    <3>1. 0 \in N
      BY <2>4, <2>8, <2>9
    <3>2. ASSUME NEW n \in Nat, n \in N PROVE n + 1 \in N
      <4>1. CASE n + 1 \in 0 .. m
        <5>1. n \in 0 .. m /\ n + 1 \in 1 .. m /\ n + 1 # 0 /\ (n + 1) - 1 = n
          BY <4>1
        <5>2. after[n + 1] = Applied(after[n], outbox[n + 1].frame)
          BY <2>8, <4>1, <5>1
        <5>3. S[n + 1] = Applied(S[n], outbox[n + 1].frame)
          BY <2>5, <5>1
        <5> QED
          BY <2>9, <3>2, <5>1, <5>2, <5>3
      <4>2. CASE n + 1 \notin 0 .. m
        BY <2>9, <4>2
      <4> QED
        BY <4>1, <4>2
    <3> QED
      BY <3>1, <3>2, SetInduction
  <2>11. after[m] = S[m]
    BY <2>9, <2>10
  <2>12. projector # None /\ (request = None \/ request.phase = "acknowledged") => S[m] = pub.turns
    BY <2>1, <2>3 DEF End, Waiting
  <2> QED
    BY <2>3, <2>7, <2>11, <2>12 DEF Converges
<1> QED
  BY <1>1, SpecInv, PTL

\* What the browser shows is the turns of one published state, never a mixture, also
\* after a lost connection and a reload (applyDelta, the cache of codexTurnCache.ts).
THEOREM ShowsPublishedStateHolds == Spec => []ShowsPublishedState
<1>1. Inv => ShowsPublishedState
  BY DEF Inv, Flow, ShowsPublishedState
<1> QED
  BY <1>1, SpecInv, PTL
=============================================================================
