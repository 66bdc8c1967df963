--------------------------- MODULE WsOutboxProofs ---------------------------
(***************************************************************************)
(* Every safety property of the outbox and the refinement of StateChannel, *)
(* for every set of keys and every bound on the number of messages.        *)
(***************************************************************************)
EXTENDS WsOutbox, TLAPS

\* What an entry holds: messages of its key, all still pending.
Entries ==
  \A i \in DOMAIN items :
    /\ items[i].id \in items[i].puts
    /\ \A n \in items[i].puts :
         n \in 1 .. Len(log) /\ log[n] = items[i].key /\ n \notin got /\ n \notin held

\* What the finished get() task holds: messages of one key, not yet sent.
Held ==
  /\ \A n \in held : n \in 1 .. Len(log) /\ n \notin got
  /\ \A n, m \in held : log[n] = log[m]
  /\ getter # "done" => held = {}

\* What was sent was put.
Got == \A n \in got : n \in 1 .. Len(log)

\* The deque, the hands of the loop and the wire are in the order of the puts
\* wherever the client relies on it.
ItemsOrdered ==
  \A i, j \in DOMAIN items : i < j =>
    \A n \in items[i].puts, m \in items[j].puts : Related(n, m) => n < m
HeldFirst ==
  \A n \in held : \A j \in DOMAIN items : \A m \in items[j].puts : Related(n, m) => n < m
GotFirst ==
  \A n \in got :
    /\ \A m \in held : Related(n, m) => n < m
    /\ \A j \in DOMAIN items : \A m \in items[j].puts : Related(n, m) => n < m

\* _coalesced_entries points at a pending entry of the key, and behind that
\* entry there is neither a barrier nor another entry of the key.
MapOk ==
  \A k \in Keys : coalesced[k] # 0 =>
    \E i \in DOMAIN items :
      /\ items[i].id = coalesced[k]
      /\ items[i].key = k
      /\ \A j \in DOMAIN items : j > i => items[j].key # NoKey /\ items[j].key # k

Inv ==
  /\ TypeOK /\ Entries /\ Held /\ Got /\ NothingLost
  /\ ItemsOrdered /\ HeldFirst /\ GotFirst /\ MapOk
-----------------------------------------------------------------------------
(***************************************************************************)
(* A put keeps the parts of the invariant that speak of the queue.         *)
(***************************************************************************)
LEMMA PutTypes ==
  ASSUME TypeOK, NEW k \in Keys \cup {NoKey}, PutNowait(k)
  PROVE  /\ items' \in Seq(Entry) /\ coalesced' \in [Keys -> Nat]
         /\ available' \in BOOLEAN /\ getter' \in GetterStates
         /\ log' \in Seq(Keys \cup {NoKey})
<1> USE DEF TypeOK
<1>1. NextPut \in Nat \ {0}
  BY DEF NextPut
<1>2. log' \in Seq(Keys \cup {NoKey})
  BY DEF PutNowait
<1>3. CASE k # NoKey /\ coalesced[k] # 0
  <2>1. Fold(k)
    BY <1>3 DEF PutNowait
  <2>2. DOMAIN items = 1 .. Len(items) /\ Len(items) \in Nat
    OBVIOUS
  <2>3. ASSUME NEW i \in 1 .. Len(items) PROVE items'[i] \in Entry
    <3>1. items[i] \in Entry
      OBVIOUS
    <3>2. [items[i] EXCEPT !.puts = @ \cup {NextPut}] \in Entry
      BY <3>1, <1>1 DEF Entry
    <3> QED
      BY <2>1, <2>2, <3>1, <3>2 DEF Fold
  <2>4. items' \in [1 .. Len(items) -> Entry]
    BY <2>1, <2>2, <2>3 DEF Fold
  <2>5. items' \in Seq(Entry)
    BY <2>2, <2>4
  <2> QED
    BY <2>1, <2>5, <1>2 DEF Fold
<1>4. CASE ~(k # NoKey /\ coalesced[k] # 0)
  <2>1. Enqueue(k)
    BY <1>4 DEF PutNowait
  <2>2. [id |-> NextPut, key |-> k, puts |-> {NextPut}] \in Entry
    BY <1>1 DEF Entry
  <2>3. items' \in Seq(Entry)
    BY <2>1, <2>2 DEF Enqueue
  <2>4. coalesced' \in [Keys -> Nat]
    BY <2>1, <1>1 DEF Enqueue, AfterBarrier, AfterState
  <2> QED
    BY <2>1, <2>3, <2>4, <1>2 DEF Enqueue, Woken, GetterStates
<1> QED
  BY <1>3, <1>4

(***************************************************************************)
(* Every variable keeps its type.                                          *)
(***************************************************************************)
THEOREM TypeInvariant == Spec => []TypeOK
<1>1. Init => TypeOK
  <2> SUFFICES ASSUME Init PROVE TypeOK
    OBVIOUS
  <2>1. [id |-> 1, key |-> NoKey, puts |-> {1}] \in Entry
    BY DEF Entry
  <2>2. items \in Seq(Entry)
    BY <2>1 DEF Init
  <2>3. log \in Seq(Keys \cup {NoKey})
    BY DEF Init
  <2>4. coalesced \in [Keys -> Nat]
    BY DEF Init
  <2> QED
    BY <2>2, <2>3, <2>4 DEF Init, TypeOK, GetterStates, LoopStates
<1>2. TypeOK /\ [Next]_vars => TypeOK'
  <2> SUFFICES ASSUME TypeOK, [Next]_vars PROVE TypeOK'
    OBVIOUS
  <2>1. ASSUME NEW k \in Keys \cup {NoKey}, Publish(k) PROVE TypeOK'
    BY <2>1, PutTypes DEF Publish, TypeOK
  <2>2. CASE GetWait
    BY <2>2 DEF GetWait, TypeOK, GetterStates
  <2>3. CASE GetPop
    <3>1. items \in Seq(Entry) /\ items # <<>>
      BY <2>3 DEF GetPop, TypeOK
    <3>2. Head(items) \in Entry /\ Tail(items) \in Seq(Entry)
      BY <3>1
    <3>3. held' \in SUBSET (Nat \ {0})
      BY <2>3, <3>2 DEF GetPop, Entry
    <3>4. coalesced' \in [Keys -> Nat]
      BY <2>3 DEF GetPop, AfterPop, TypeOK
    <3>5. available' \in BOOLEAN
      BY <2>3 DEF GetPop, TypeOK
    <3> QED
      BY <2>3, <3>2, <3>3, <3>4, <3>5 DEF GetPop, TypeOK, GetterStates
  <2>4. CASE SelectCommand
    BY <2>4 DEF SelectCommand, TypeOK, LoopStates
  <2>5. CASE SelectSend
    BY <2>5 DEF SelectSend, TypeOK, LoopStates
  <2>6. CASE HandlerDone
    <3>1. loop' \in LoopStates /\ heldFor' \in Nat
      BY <2>6 DEF HandlerDone, AfterHandler, TypeOK, LoopStates
    <3> QED
      BY <2>6, <3>1, PutTypes DEF HandlerDone, TypeOK
  <2>7. CASE Sent
    BY <2>7 DEF Sent, TypeOK, LoopStates, GetterStates
  <2>8. CASE Disconnect
    BY <2>8 DEF Disconnect, TypeOK, LoopStates, GetterStates
  <2>9. CASE UNCHANGED vars
    BY <2>9 DEF vars, TypeOK
  <2> QED
    BY <2>1, <2>2, <2>3, <2>4, <2>5, <2>6, <2>7, <2>8, <2>9 DEF Next
<1> QED
  BY <1>1, <1>2, PTL DEF Spec
-----------------------------------------------------------------------------
\* What a put does to the deque, seen from the entry w that takes the message:
\* every other entry is as it was, and nothing behind w is ordered after it.
Took(w, k) ==
  /\ w \in DOMAIN items' /\ DOMAIN items' = DOMAIN items \cup {w}
  /\ items'[w].key = k /\ items'[w].id \in items'[w].puts
  /\ NextPut \in items'[w].puts
  /\ \A j \in DOMAIN items' :
       j > w => k # NoKey /\ items'[j].key # NoKey /\ items'[j].key # k
  /\ \A i \in DOMAIN items :
       /\ i \in DOMAIN items'
       /\ items'[i].key = items[i].key /\ items'[i].id = items[i].id
       /\ items[i].puts \subseteq items'[i].puts
  /\ \A i \in DOMAIN items' : \A n \in items'[i].puts :
       \/ n = NextPut /\ i = w
       \/ i \in DOMAIN items /\ n \in items[i].puts

(***************************************************************************)
(* Both ways of put_nowait have that effect, and the map stays right.      *)
(***************************************************************************)
LEMMA FoldTakes ==
  ASSUME Inv, NEW k \in Keys, coalesced[k] # 0, Fold(k)
  PROVE  (\E w \in DOMAIN items' : Took(w, k)) /\ MapOk'
<1>1. PICK w \in DOMAIN items :
        /\ items[w].id = coalesced[k]
        /\ items[w].key = k
        /\ \A j \in DOMAIN items : j > w => items[j].key # NoKey /\ items[j].key # k
  BY DEF Inv, MapOk
<1>2. DOMAIN items = 1 .. Len(items) /\ Len(items) \in Nat
      /\ \A i \in DOMAIN items : items[i] \in Entry
  BY DEF Inv, TypeOK
<1>3. ASSUME NEW i \in DOMAIN items, items[i].id = coalesced[k] PROVE i = w
  <2>1. coalesced[k] \in items[i].puts /\ coalesced[k] \in items[w].puts
    BY <1>1, <1>3 DEF Inv, Entries
  <2>2. coalesced[k] \in Nat
    BY DEF Inv, TypeOK
  <2>3. Related(coalesced[k], coalesced[k])
    BY DEF Related
  <2> QED
    BY <1>2, <2>1, <2>2, <2>3 DEF Inv, ItemsOrdered
<1>4. DOMAIN items' = DOMAIN items
  BY DEF Fold
<1>5. ASSUME NEW i \in DOMAIN items
      PROVE  /\ items'[i].key = items[i].key /\ items'[i].id = items[i].id
             /\ i # w => items'[i].puts = items[i].puts
             /\ i = w => items'[i].puts = items[i].puts \cup {NextPut}
  BY <1>1, <1>2, <1>3 DEF Fold, Entry
<1>6. items[w].id \in items[w].puts
  BY DEF Inv, Entries
<1>7. Took(w, k)
  <2>1. /\ items'[w].key = k /\ items'[w].id \in items'[w].puts
        /\ NextPut \in items'[w].puts
    BY <1>1, <1>5, <1>6
  <2>2. \A j \in DOMAIN items' :
          j > w => k # NoKey /\ items'[j].key # NoKey /\ items'[j].key # k
    BY <1>1, <1>4, <1>5, KeyAssumption
  <2>3. \A i \in DOMAIN items :
          /\ items'[i].key = items[i].key /\ items'[i].id = items[i].id
          /\ items[i].puts \subseteq items'[i].puts
    BY <1>5
  <2>4. \A i \in DOMAIN items' : \A n \in items'[i].puts :
          \/ n = NextPut /\ i = w
          \/ i \in DOMAIN items /\ n \in items[i].puts
    BY <1>4, <1>5
  <2> QED
    BY <1>4, <2>1, <2>2, <2>3, <2>4 DEF Took
<1>8. MapOk'
  <2> SUFFICES ASSUME NEW c \in Keys, coalesced'[c] # 0
               PROVE  \E i \in DOMAIN items' :
                        /\ items'[i].id = coalesced'[c]
                        /\ items'[i].key = c
                        /\ \A j \in DOMAIN items' :
                             j > i => items'[j].key # NoKey /\ items'[j].key # c
    BY DEF MapOk
  <2>1. coalesced' = coalesced
    BY DEF Fold
  <2>2. PICK i \in DOMAIN items :
          /\ items[i].id = coalesced[c]
          /\ items[i].key = c
          /\ \A j \in DOMAIN items : j > i => items[j].key # NoKey /\ items[j].key # c
    BY <2>1 DEF Inv, MapOk
  <2> QED
    BY <1>4, <1>5, <2>1, <2>2
<1> QED
  BY <1>4, <1>7, <1>8

LEMMA EnqueueTakes ==
  ASSUME Inv, NEW k \in Keys \cup {NoKey}, Enqueue(k)
  PROVE  (\E w \in DOMAIN items' : Took(w, k)) /\ MapOk'
<1> DEFINE e == [id |-> NextPut, key |-> k, puts |-> {NextPut}]
           w == Len(items) + 1
<1>1. items \in Seq(Entry) /\ DOMAIN items = 1 .. Len(items) /\ Len(items) \in Nat
  BY DEF Inv, TypeOK
<1>2. items' = Append(items, e)
  BY DEF Enqueue
<1>3. DOMAIN items' = 1 .. w /\ items'[w] = e
      /\ \A i \in 1 .. Len(items) : items'[i] = items[i]
  BY <1>1, <1>2
<1>4. Took(w, k)
  BY <1>1, <1>3 DEF Took
<1>5. MapOk'
  <2> SUFFICES ASSUME NEW c \in Keys, coalesced'[c] # 0
               PROVE  \E i \in DOMAIN items' :
                        /\ items'[i].id = coalesced'[c]
                        /\ items'[i].key = c
                        /\ \A j \in DOMAIN items' :
                             j > i => items'[j].key # NoKey /\ items'[j].key # c
    BY DEF MapOk
  <2>1. k # NoKey
    BY DEF Enqueue, AfterBarrier
  <2>2. coalesced' = [coalesced EXCEPT ![k] = NextPut] /\ coalesced \in [Keys -> Nat]
    BY <2>1 DEF Enqueue, AfterState, Inv, TypeOK
  <2>3. CASE c = k
    BY <1>1, <1>3, <2>2, <2>3
  <2>4. CASE c # k
    <3>1. coalesced'[c] = coalesced[c]
      BY <2>2, <2>4
    <3>2. PICK i \in DOMAIN items :
            /\ items[i].id = coalesced[c]
            /\ items[i].key = c
            /\ \A j \in DOMAIN items : j > i => items[j].key # NoKey /\ items[j].key # c
      BY <3>1 DEF Inv, MapOk
    <3> QED
      BY <1>1, <1>3, <2>1, <2>4, <3>1, <3>2
  <2> QED
    BY <2>3, <2>4
<1> QED
  BY <1>1, <1>3, <1>4, <1>5

(***************************************************************************)
(* The ordering invariant survives a put.                                  *)
(***************************************************************************)
LEMMA PutKeepsOrder ==
  ASSUME Inv, NEW k \in Keys \cup {NoKey}, PutNowait(k), held' = held, got' = got
  PROVE  /\ Entries' /\ Held' /\ Got' /\ NothingLost'
         /\ ItemsOrdered' /\ HeldFirst' /\ GotFirst' /\ MapOk'
<1>1. (\E w \in DOMAIN items' : Took(w, k)) /\ MapOk'
  <2>1. CASE k # NoKey /\ coalesced[k] # 0
    BY <2>1, FoldTakes DEF PutNowait
  <2>2. CASE ~(k # NoKey /\ coalesced[k] # 0)
    BY <2>2, EnqueueTakes DEF PutNowait
  <2> QED
    BY <2>1, <2>2
<1>2. PICK w \in DOMAIN items' : Took(w, k)
  BY <1>1
<1>3. Len(log) \in Nat /\ NextPut = Len(log) + 1 /\ Len(log') = NextPut
      /\ log'[NextPut] = k /\ \A n \in 1 .. Len(log) : log'[n] = log[n]
  BY DEF Inv, TypeOK, PutNowait, NextPut
<1>4. getter' # "done" => getter # "done"
  BY DEF PutNowait, Fold, Enqueue, Woken
<1>5. \A n, m \in 1 .. Len(log) : Related(n, m)' <=> Related(n, m)
  BY <1>3 DEF Related
<1>6. \A n \in held \cup got : n \in 1 .. Len(log)
  BY DEF Inv, Held, Got
<1>7. \A i \in DOMAIN items : \A n \in items[i].puts : n \in 1 .. Len(log)
  BY DEF Inv, Entries
<1>8. \A i \in DOMAIN items' : \A n \in items'[i].puts :
         \/ n = NextPut /\ i = w
         \/ i \in DOMAIN items /\ n \in items[i].puts /\ n \in 1 .. Len(log)
  BY <1>2, <1>7 DEF Took
<1>9. \A i \in DOMAIN items : i \in DOMAIN items' /\ items'[i].key = items[i].key
  BY <1>2 DEF Took
<1> DOMAIN items' \subseteq Nat
  BY PutTypes DEF Inv
<1>10. Entries'
  <2> SUFFICES ASSUME NEW i \in DOMAIN items'
               PROVE  /\ items'[i].id \in items'[i].puts
                      /\ \A n \in items'[i].puts :
                           n \in 1 .. Len(log') /\ log'[n] = items'[i].key
                           /\ n \notin got' /\ n \notin held'
    BY DEF Entries
  <2>1. items'[i].id \in items'[i].puts
    <3>1. CASE i = w
      BY <1>2, <3>1 DEF Took
    <3>2. CASE i # w
      <4>1. i \in DOMAIN items
        BY <1>2, <3>2 DEF Took
      <4> QED
        BY <1>2, <4>1 DEF Took, Inv, Entries
    <3> QED
      BY <3>1, <3>2
  <2>2. ASSUME NEW n \in items'[i].puts
        PROVE  n \in 1 .. Len(log') /\ log'[n] = items'[i].key
               /\ n \notin got' /\ n \notin held'
    <3>1. CASE n = NextPut /\ i = w
      BY <1>2, <1>3, <1>6, <3>1 DEF Took
    <3>2. CASE i \in DOMAIN items /\ n \in items[i].puts /\ n \in 1 .. Len(log)
      BY <1>3, <1>9, <3>2 DEF Inv, Entries
    <3> QED
      BY <1>8, <2>2, <3>1, <3>2
  <2> QED
    BY <2>1, <2>2
<1>11. Held'
  <2>1. \A n, m \in held : log'[n] = log'[m]
    BY <1>3, <1>6 DEF Inv, Held
  <2> QED
    BY <1>3, <1>4, <1>6, <2>1 DEF Inv, Held
<1>12. Got'
  BY <1>3, <1>6 DEF Got
<1>13. NothingLost'
  <2> SUFFICES ASSUME NEW n \in 1 .. Len(log'), n \notin got \cup held
               PROVE  \E i \in DOMAIN items' : n \in items'[i].puts
    BY DEF NothingLost
  <2>1. CASE n = NextPut
    BY <1>2, <2>1 DEF Took
  <2>2. CASE n # NextPut
    <3>1. n \in 1 .. Len(log)
      BY <1>3, <2>2
    <3>2. PICK i \in DOMAIN items : n \in items[i].puts
      BY <3>1 DEF Inv, NothingLost
    <3> QED
      BY <1>2, <3>2 DEF Took
  <2> QED
    BY <2>1, <2>2
<1>14. ItemsOrdered'
  <2> SUFFICES ASSUME NEW i \in DOMAIN items', NEW j \in DOMAIN items', i < j,
                      NEW n \in items'[i].puts, NEW m \in items'[j].puts, Related(n, m)'
               PROVE  n < m
    BY DEF ItemsOrdered
  <2>1. CASE m = NextPut /\ j = w
    <3>1. i # w
      BY <2>1
    <3> QED
      BY <1>3, <1>8, <2>1, <3>1
  <2>2. CASE n = NextPut /\ i = w
    <3>1. k # NoKey /\ items'[j].key # NoKey /\ items'[j].key # k
      BY <1>2, <2>2 DEF Took
    <3>2. log'[n] = k /\ log'[m] = items'[j].key
      BY <1>3, <1>10, <2>2 DEF Entries
    <3> QED
      BY <3>1, <3>2 DEF Related
  <2>3. CASE i \in DOMAIN items /\ n \in items[i].puts /\ n \in 1 .. Len(log)
             /\ j \in DOMAIN items /\ m \in items[j].puts /\ m \in 1 .. Len(log)
    BY <1>5, <2>3 DEF Inv, ItemsOrdered
  <2> QED
    BY <1>8, <2>1, <2>2, <2>3
<1>15. HeldFirst'
  <2> SUFFICES ASSUME NEW n \in held, NEW j \in DOMAIN items', NEW m \in items'[j].puts,
                      Related(n, m)'
               PROVE  n < m
    BY DEF HeldFirst
  <2> QED
    BY <1>3, <1>5, <1>6, <1>8 DEF Inv, HeldFirst
<1>16. GotFirst'
  <2>1. ASSUME NEW n \in got, NEW m \in held, Related(n, m)' PROVE n < m
    BY <1>5, <1>6, <2>1 DEF Inv, GotFirst
  <2>2. ASSUME NEW n \in got, NEW j \in DOMAIN items', NEW m \in items'[j].puts, Related(n, m)'
        PROVE  n < m
    BY <1>3, <1>5, <1>6, <1>8, <2>2 DEF Inv, GotFirst
  <2> QED
    BY <2>1, <2>2 DEF GotFirst
<1> QED
  BY <1>1, <1>10, <1>11, <1>12, <1>13, <1>14, <1>15, <1>16

(***************************************************************************)
(* get() hands the oldest entry to the loop; the rest stays in order.      *)
(***************************************************************************)
LEMMA PopKeepsOrder ==
  ASSUME Inv, GetPop
  PROVE  /\ Entries' /\ Held' /\ Got' /\ NothingLost'
         /\ ItemsOrdered' /\ HeldFirst' /\ GotFirst' /\ MapOk'
<1> USE DEF Inv
<1>1. items \in Seq(Entry) /\ items # <<>> /\ items' = Tail(items) /\ log' = log /\ got' = got
  BY DEF GetPop, TypeOK
<1>2. Len(items) \in Nat /\ DOMAIN items = 1 .. Len(items) /\ 1 \in DOMAIN items
      /\ DOMAIN items' = 1 .. Len(items) - 1
      /\ \A i \in 1 .. Len(items) - 1 : items'[i] = items[i + 1] /\ i + 1 \in DOMAIN items
  BY <1>1
<1>3. held' = items[1].puts /\ held = {} /\ getter' = "done"
  BY <1>1 DEF GetPop, Held
<1>4. coalesced' = AfterPop(items[1])
  BY <1>1 DEF GetPop
<1>5. \A n, m : Related(n, m)' <=> Related(n, m)
  BY <1>1 DEF Related
<1>6. Entries'
  <2> SUFFICES ASSUME NEW i \in DOMAIN items'
               PROVE  /\ items'[i].id \in items'[i].puts
                      /\ \A n \in items'[i].puts :
                           n \in 1 .. Len(log) /\ log[n] = items'[i].key
                           /\ n \notin got /\ n \notin held'
    BY <1>1 DEF Entries
  <2>1. ASSUME NEW n \in items'[i].puts PROVE n \notin held'
    <3> SUFFICES ASSUME n \in items[1].puts PROVE FALSE
      BY <1>3
    <3>1. n \in 1 .. Len(log) /\ Related(n, n)
      BY <1>2 DEF Entries, Related
    <3> QED
      BY <1>2, <2>1, <3>1 DEF ItemsOrdered
  <2> QED
    BY <1>2, <2>1 DEF Entries
<1>7. Held'
  BY <1>1, <1>2, <1>3 DEF Held, Entries
<1>8. Got'
  BY <1>1 DEF Got
<1>9. NothingLost'
  <2> SUFFICES ASSUME NEW n \in 1 .. Len(log), n \notin got, n \notin held'
               PROVE  \E i \in DOMAIN items' : n \in items'[i].puts
    BY <1>1 DEF NothingLost
  <2>1. PICK i \in DOMAIN items : n \in items[i].puts
    BY <1>3 DEF NothingLost
  <2>2. i # 1
    BY <1>3, <2>1
  <2>3. i - 1 \in DOMAIN items' /\ items'[i - 1] = items[i]
    BY <1>2, <2>2
  <2> QED
    BY <2>1, <2>3
<1>10. ItemsOrdered'
  BY <1>2, <1>5 DEF ItemsOrdered
<1>11. HeldFirst'
  BY <1>2, <1>3, <1>5 DEF HeldFirst, ItemsOrdered
<1>12. GotFirst'
  BY <1>1, <1>2, <1>3, <1>5 DEF GotFirst
<1>13. MapOk'
  <2> SUFFICES ASSUME NEW c \in Keys, coalesced'[c] # 0
               PROVE  \E i \in DOMAIN items' :
                        /\ items'[i].id = coalesced'[c]
                        /\ items'[i].key = c
                        /\ \A j \in DOMAIN items' :
                             j > i => items'[j].key # NoKey /\ items'[j].key # c
    BY DEF MapOk
  <2>1. coalesced'[c] = coalesced[c]
        /\ ~(c = items[1].key /\ coalesced[c] = items[1].id)
    BY <1>4 DEF AfterPop
  <2>2. PICK i \in DOMAIN items :
          /\ items[i].id = coalesced[c]
          /\ items[i].key = c
          /\ \A j \in DOMAIN items : j > i => items[j].key # NoKey /\ items[j].key # c
    BY <2>1 DEF MapOk
  <2>3. i # 1
    BY <2>1, <2>2
  <2>4. i - 1 \in DOMAIN items' /\ items'[i - 1] = items[i]
    BY <1>2, <2>3
  <2>5. \A j \in DOMAIN items' : j > i - 1 => items'[j].key # NoKey /\ items'[j].key # c
    BY <1>2, <2>2
  <2> QED
    BY <2>1, <2>2, <2>4, <2>5
<1> QED
  BY <1>6, <1>7, <1>8, <1>9, <1>10, <1>11, <1>12, <1>13

(***************************************************************************)
(* The frame leaves: what the loop held becomes what the client has.       *)
(***************************************************************************)
LEMMA SentKeepsOrder ==
  ASSUME Inv, Sent
  PROVE  /\ Entries' /\ Held' /\ Got' /\ NothingLost'
         /\ ItemsOrdered' /\ HeldFirst' /\ GotFirst' /\ MapOk'
<1> USE DEF Inv
<1>1. items' = items /\ coalesced' = coalesced /\ log' = log
      /\ held' = {} /\ got' = got \cup held
  BY DEF Sent
<1>2. Entries' /\ Held' /\ Got' /\ NothingLost'
  BY <1>1 DEF Entries, Held, Got, NothingLost
<1>3. \A n, m : Related(n, m)' <=> Related(n, m)
  BY <1>1 DEF Related
<1>4. ItemsOrdered' /\ HeldFirst' /\ GotFirst'
  BY <1>1, <1>3 DEF ItemsOrdered, HeldFirst, GotFirst
<1> QED
  BY <1>1, <1>2, <1>4 DEF MapOk

(***************************************************************************)
(* A step that moves only the tasks keeps the order.                       *)
(***************************************************************************)
LEMMA TaskStepKeepsOrder ==
  ASSUME Inv, UNCHANGED <<items, coalesced, held, log, got>>,
         getter' # "done" => getter # "done"
  PROVE  /\ Entries' /\ Held' /\ Got' /\ NothingLost'
         /\ ItemsOrdered' /\ HeldFirst' /\ GotFirst' /\ MapOk'
<1>1. \A n, m : Related(n, m)' <=> Related(n, m)
  BY DEF Related
<1>2. ItemsOrdered' /\ HeldFirst' /\ GotFirst'
  BY <1>1 DEF Inv, ItemsOrdered, HeldFirst, GotFirst
<1> QED
  BY <1>2 DEF Inv, Entries, Held, Got, NothingLost, MapOk

(***************************************************************************)
(* The ordering invariant holds in every state.                            *)
(***************************************************************************)
THEOREM OrderInvariant == Spec => []Inv
<1>1. Init /\ TypeOK => Inv
  <2> SUFFICES ASSUME Init, TypeOK PROVE Inv
    OBVIOUS
  <2>1. DOMAIN items = {1} /\ items[1] = [id |-> 1, key |-> NoKey, puts |-> {1}]
        /\ Len(log) = 1 /\ log[1] = NoKey
    BY DEF Init
  <2> QED
    BY <2>1 DEF Init, Inv, Entries, Held, Got, NothingLost, ItemsOrdered, HeldFirst,
                GotFirst, MapOk
<1>2. Inv /\ TypeOK' /\ [Next]_vars => Inv'
  <2> SUFFICES ASSUME Inv, TypeOK', [Next]_vars PROVE Inv'
    OBVIOUS
  <2>1. ASSUME NEW k \in Keys \cup {NoKey}, Publish(k) PROVE Inv'
    BY <2>1, PutKeepsOrder DEF Publish, Inv
  <2>2. CASE GetWait
    BY <2>2, TaskStepKeepsOrder DEF GetWait, Inv
  <2>3. CASE GetPop
    BY <2>3, PopKeepsOrder DEF Inv
  <2>4. CASE SelectCommand
    BY <2>4, TaskStepKeepsOrder DEF SelectCommand, Inv
  <2>5. CASE SelectSend
    BY <2>5, TaskStepKeepsOrder DEF SelectSend, Inv
  <2>6. CASE HandlerDone
    BY <2>6, PutKeepsOrder DEF HandlerDone, Inv
  <2>7. CASE Sent
    BY <2>7, SentKeepsOrder DEF Inv
  <2>8. CASE Disconnect
    BY <2>8, TaskStepKeepsOrder DEF Disconnect, Inv
  <2>9. CASE UNCHANGED vars
    BY <2>9, TaskStepKeepsOrder DEF vars, Inv
  <2> QED
    BY <2>1, <2>2, <2>3, <2>4, <2>5, <2>6, <2>7, <2>8, <2>9 DEF Next
<1> QED
  BY <1>1, <1>2, TypeInvariant, PTL DEF Spec
-----------------------------------------------------------------------------
(***************************************************************************)
(* What put_nowait promises in its comment: nothing the client has was     *)
(* delivered ahead of an earlier ordered event or of earlier state of the  *)
(* same key.                                                               *)
(***************************************************************************)
THEOREM CausalDeliveryHolds == Spec => []CausalDelivery
<1>1. Inv => CausalDelivery
  <2> SUFFICES ASSUME Inv, NEW n \in got, NEW m \in 1 .. n - 1, Related(n, m)
               PROVE  m \in got
    BY DEF CausalDelivery
  <2>1. n \in 1 .. Len(log) /\ Len(log) \in Nat
    BY DEF Inv, Got, TypeOK
  <2>2. m \in 1 .. Len(log) /\ ~(n < m)
    BY <2>1
  <2> QED
    BY <2>2 DEF Inv, NothingLost, GotFirst
<1> QED
  BY <1>1, OrderInvariant, PTL

(***************************************************************************)
(* No message put on the outbox is dropped, whatever is folded into what.  *)
(***************************************************************************)
THEOREM NothingLostHolds == Spec => []NothingLost
<1>1. Inv => NothingLost
  BY DEF Inv
<1> QED
  BY <1>1, OrderInvariant, PTL

(***************************************************************************)
(* A step of the outbox and its loop is a step of the channel or leaves    *)
(* the client's view alone.                                                *)
(***************************************************************************)
LEMMA StepSimulation ==
  ASSUME Inv, [Next]_vars
  PROVE  [Channel!ChannelNext]_(Channel!channelVars)
<1> USE DEF Channel!ChannelNext, Channel!channelVars, Channel!Accept
<1>1. ASSUME NEW k \in Keys \cup {NoKey}, Publish(k)
      PROVE  Channel!Accept(k)
  BY <1>1 DEF Publish, PutNowait
<1>2. CASE Sent
  <2>1. CASE held = {}
    BY <1>2, <2>1 DEF Sent
  <2>2. CASE held # {}
    <3>1. held \in SUBSET (1 .. Len(log)) /\ held \cap got = {}
      BY DEF Inv, Held
    <3>2. \A n, m \in held : log[n] = log[m]
      BY DEF Inv, Held
    <3>3. ASSUME NEW n \in held, NEW m \in 1 .. n - 1, Related(n, m)
          PROVE  m \in got \cup held
      <4>1. n \in 1 .. Len(log) /\ Len(log) \in Nat
        BY DEF Inv, Held, TypeOK
      <4>2. m \in 1 .. Len(log) /\ ~(n < m)
        BY <4>1
      <4> QED
        BY <3>3, <4>2 DEF Inv, NothingLost, HeldFirst
    <3>4. Channel!Deliver(held)
      BY <1>2, <2>2, <3>1, <3>2, <3>3 DEF Channel!Deliver, Channel!Related, Related, Sent
    <3> QED
      BY <3>1, <3>4
  <2> QED
    BY <2>1, <2>2
<1>3. CASE HandlerDone
  BY <1>3 DEF HandlerDone, PutNowait
<1>4. CASE GetWait \/ GetPop \/ SelectCommand \/ SelectSend \/ Disconnect \/ UNCHANGED vars
  BY <1>4 DEF GetWait, GetPop, SelectCommand, SelectSend, Disconnect, vars
<1> QED
  BY <1>1, <1>2, <1>3, <1>4 DEF Next

(***************************************************************************)
(* The outbox implements the abstract channel.                             *)
(***************************************************************************)
THEOREM ChannelRefinement == Spec => ImplementsChannel
<1>1. Init => Channel!ChannelInit
  BY DEF Init, Channel!ChannelInit
<1> QED
  BY <1>1, StepSimulation, OrderInvariant, PTL
     DEF Spec, ImplementsChannel, Channel!ChannelSpec
-----------------------------------------------------------------------------
(***************************************************************************)
(* Waking.  A put that finds get() asleep wakes it, or folds into an entry *)
(* that get() would not have gone to sleep over.                           *)
(***************************************************************************)
LEMMA PutWakes ==
  ASSUME Inv, NoLostWakeup, NEW k \in Keys \cup {NoKey}, PutNowait(k)
  PROVE  NoLostWakeup'
<1>1. CASE k # NoKey /\ coalesced[k] # 0
  <2>1. items # <<>> /\ getter' = getter
    BY <1>1 DEF Inv, MapOk, PutNowait, Fold
  <2> QED
    BY <2>1 DEF NoLostWakeup
<1>2. CASE ~(k # NoKey /\ coalesced[k] # 0)
  BY <1>2 DEF PutNowait, Enqueue, Woken, NoLostWakeup
<1> QED
  BY <1>1, <1>2

\* get() is never left asleep on the event while the deque holds a message:
\* put_nowait folds without setting the event, and get() clears it only when it
\* finds the deque empty.
THEOREM NoLostWakeupHolds == Spec => []NoLostWakeup
<1>1. Init => NoLostWakeup
  BY DEF Init, NoLostWakeup
<1>2. Inv /\ NoLostWakeup /\ [Next]_vars => NoLostWakeup'
  <2> SUFFICES ASSUME Inv, NoLostWakeup, [Next]_vars PROVE NoLostWakeup'
    OBVIOUS
  <2>1. ASSUME NEW k \in Keys \cup {NoKey}, Publish(k) PROVE NoLostWakeup'
    BY <2>1, PutWakes DEF Publish
  <2>2. CASE HandlerDone
    BY <2>2, PutWakes DEF HandlerDone
  <2>3. CASE GetWait \/ GetPop \/ SelectCommand \/ SelectSend \/ Sent \/ Disconnect
               \/ UNCHANGED vars
    BY <2>3 DEF GetWait, GetPop, SelectCommand, SelectSend, Sent, Disconnect, vars, NoLostWakeup
  <2> QED
    BY <2>1, <2>2, <2>3 DEF Next
<1> QED
  BY <1>1, <1>2, OrderInvariant, PTL DEF Spec
-----------------------------------------------------------------------------
(***************************************************************************)
(* Patience.  What get() has returned waits for the command that was being *)
(* handled and for one more, whose wait sees the get() task done.          *)
(***************************************************************************)
Patience ==
  /\ getter = "done" => held # {}
  /\ held = {} => heldFor = 0
  /\ loop = "handling" /\ ~sendDone => heldFor = 0
  /\ loop \in {"select", "handling"} => heldFor <= 1
  /\ heldFor <= 2

\* Commands do not starve the sender, however many of them arrive.
THEOREM SenderNotStarvedHolds == Spec => []SenderNotStarved
<1>1. Init => Patience
  BY DEF Init, Patience
<1>2. Inv /\ Patience /\ [Next]_vars => Patience'
  <2> SUFFICES ASSUME Inv, Patience, [Next]_vars PROVE Patience'
    OBVIOUS
  <2> USE DEF Patience
  <2>0. heldFor \in Nat /\ sendDone \in BOOLEAN /\ loop \in LoopStates
        /\ (getter # "done" => held = {})
    BY DEF Inv, TypeOK, Held
  <2>1. ASSUME NEW k \in Keys \cup {NoKey}, Publish(k) PROVE Patience'
    BY <2>1 DEF Publish, PutNowait, Fold, Enqueue, Woken
  <2>2. CASE GetPop
    <3>1. held' # {}
      BY <2>2 DEF GetPop, Inv, TypeOK, Entries
    <3> QED
      BY <2>0, <2>2, <3>1 DEF GetPop
  <2>3. CASE SelectCommand
    BY <2>0, <2>3 DEF SelectCommand
  <2>4. CASE HandlerDone
    <3>1. getter' = "done" => getter = "done"
      BY <2>4 DEF HandlerDone, PutNowait, Fold, Enqueue, Woken
    <3> QED
      BY <2>0, <2>4, <3>1 DEF HandlerDone, AfterHandler, LoopStates
  <2>5. CASE GetWait \/ SelectSend \/ Sent \/ Disconnect \/ UNCHANGED vars
    BY <2>0, <2>5 DEF GetWait, SelectSend, Sent, Disconnect, vars, LoopStates
  <2> QED
    BY <2>1, <2>2, <2>3, <2>4, <2>5 DEF Next
<1>3. Patience => SenderNotStarved
  BY DEF Patience, SenderNotStarved
<1> QED
  BY <1>1, <1>2, <1>3, OrderInvariant, PTL DEF Spec
-----------------------------------------------------------------------------
(***************************************************************************)
(* The size of the deque.  The converse of MapOk: an entry of state with   *)
(* no barrier behind it is the one its key's next message is folded into.  *)
(***************************************************************************)
Indexed ==
  \A i \in DOMAIN items :
    items[i].key # NoKey /\ (\A j \in DOMAIN items : j > i => items[j].key # NoKey)
      => coalesced[items[i].key] = items[i].id

Bounded == Indexed /\ PendingBounded

LEMMA PutKeepsBounded ==
  ASSUME Inv, Bounded, NEW k \in Keys \cup {NoKey}, PutNowait(k)
  PROVE  Bounded'
<1>1. items \in Seq(Entry) /\ DOMAIN items = 1 .. Len(items) /\ Len(items) \in Nat
      /\ coalesced \in [Keys -> Nat] /\ \A i \in DOMAIN items : items[i] \in Entry
  BY DEF Inv, TypeOK
<1>2. CASE k # NoKey /\ coalesced[k] # 0
  <2>1. coalesced' = coalesced /\ DOMAIN items' = DOMAIN items
        /\ \A i \in DOMAIN items : items'[i].key = items[i].key /\ items'[i].id = items[i].id
    BY <1>1, <1>2 DEF PutNowait, Fold, Entry
  <2>3. Indexed'
    BY <2>1 DEF Bounded, Indexed
  <2>4. PendingBounded'
    <3> SUFFICES ASSUME NEW i \in DOMAIN items, NEW j \in DOMAIN items, i < j,
                        items'[i].key # NoKey, items'[i].key = items'[j].key
                 PROVE  \E b \in i + 1 .. j - 1 : items'[b].key = NoKey
      BY <2>1 DEF PendingBounded, Barrier
    <3>1. PICK b \in i + 1 .. j - 1 : items[b].key = NoKey
      BY <2>1 DEF Bounded, PendingBounded, Barrier
    <3> QED
      BY <1>1, <2>1, <3>1
  <2> QED
    BY <2>3, <2>4 DEF Bounded
<1>3. CASE ~(k # NoKey /\ coalesced[k] # 0)
  <2> DEFINE e == [id |-> NextPut, key |-> k, puts |-> {NextPut}]
             w == Len(items) + 1
  <2>1. items' = Append(items, e)
    BY <1>3 DEF PutNowait, Enqueue
  <2>2. DOMAIN items' = 1 .. w /\ items'[w].key = k /\ items'[w].id = NextPut
        /\ \A i \in 1 .. Len(items) : items'[i] = items[i]
    BY <1>1, <2>1
  <2>3. coalesced' = IF k = NoKey THEN AfterBarrier ELSE AfterState(k)
    BY <1>3 DEF PutNowait, Enqueue
  <2> HIDE DEF e
  <2>4. k # NoKey => \A i \in DOMAIN items : items[i].key = k =>
          \E b \in i + 1 .. Len(items) : items[b].key = NoKey
    BY <1>1, <1>3 DEF Bounded, Indexed, Inv, Entries
  <2>5. Indexed'
    <3> SUFFICES ASSUME NEW i \in 1 .. w, items'[i].key # NoKey,
                        \A j \in 1 .. w : j > i => items'[j].key # NoKey
                 PROVE  coalesced'[items'[i].key] = items'[i].id
      BY <2>2 DEF Indexed
    <3>1. k # NoKey
      BY <1>1, <2>2
    <3>2. coalesced' = [coalesced EXCEPT ![k] = NextPut]
      BY <2>3, <3>1 DEF AfterState
    <3>3. CASE i = w
      BY <1>1, <2>2, <3>1, <3>2, <3>3
    <3>4. CASE i # w
      <4>1. i \in DOMAIN items /\ items'[i] = items[i] /\ items[i].key \in Keys
        BY <1>1, <2>2, <3>4 DEF Entry
      <4>2. \A j \in DOMAIN items : j > i => items[j].key # NoKey
        BY <1>1, <2>2
      <4>3. coalesced[items[i].key] = items[i].id
        BY <4>1, <4>2 DEF Bounded, Indexed
      <4>4. items[i].key # k
        BY <1>1, <2>4, <3>1, <4>1, <4>2
      <4> QED
        BY <1>1, <3>2, <4>1, <4>3, <4>4
    <3> QED
      BY <3>3, <3>4
  <2>6. PendingBounded'
    <3> SUFFICES ASSUME NEW i \in 1 .. w, NEW j \in 1 .. w, i < j, items'[i].key # NoKey,
                        items'[i].key = items'[j].key
                 PROVE  \E b \in i + 1 .. j - 1 : items'[b].key = NoKey
      BY <2>2 DEF PendingBounded, Barrier
    <3>1. i \in DOMAIN items /\ items'[i] = items[i]
      BY <1>1, <2>2
    <3>2. CASE j = w
      <4>1. PICK b \in i + 1 .. Len(items) : items[b].key = NoKey
        BY <2>2, <2>4, <3>1, <3>2
      <4> QED
        BY <1>1, <2>2, <3>2, <4>1
    <3>3. CASE j # w
      <4>1. j \in DOMAIN items /\ items'[j] = items[j]
        BY <1>1, <2>2, <3>3
      <4>2. PICK b \in i + 1 .. j - 1 : items[b].key = NoKey
        BY <3>1, <4>1 DEF Bounded, PendingBounded, Barrier
      <4> QED
        BY <1>1, <2>2, <4>1, <4>2
    <3> QED
      BY <3>2, <3>3
  <2> QED
    BY <2>5, <2>6 DEF Bounded
<1> QED
  BY <1>2, <1>3

LEMMA PopKeepsBounded ==
  ASSUME Inv, Bounded, GetPop
  PROVE  Bounded'
<1>1. items \in Seq(Entry) /\ items # <<>> /\ items' = Tail(items)
      /\ coalesced \in [Keys -> Nat]
  BY DEF GetPop, Inv, TypeOK
<1>2. /\ Len(items) \in Nat /\ DOMAIN items = 1 .. Len(items) /\ 1 \in DOMAIN items
      /\ DOMAIN items' = 1 .. Len(items) - 1
      /\ \A i \in 1 .. Len(items) - 1 : items'[i] = items[i + 1] /\ i + 1 \in DOMAIN items
      /\ \A i \in DOMAIN items : items[i] \in Entry
  BY <1>1
<1>3. coalesced' = AfterPop(items[1])
  BY <1>1 DEF GetPop
<1>4. Indexed'
  <2> SUFFICES ASSUME NEW i \in 1 .. Len(items) - 1, items'[i].key # NoKey,
                      \A j \in 1 .. Len(items) - 1 : j > i => items'[j].key # NoKey
               PROVE  coalesced'[items'[i].key] = items'[i].id
    BY <1>2 DEF Indexed
  <2>1. /\ i + 1 \in DOMAIN items /\ items'[i] = items[i + 1]
        /\ items[i + 1].key \in Keys /\ items[i + 1].id \in Nat
    BY <1>2 DEF Entry
  <2>2. \A j \in DOMAIN items : j > i + 1 => items[j].key # NoKey
    <3> SUFFICES ASSUME NEW j \in DOMAIN items, j > i + 1 PROVE items[j].key # NoKey
      OBVIOUS
    <3>1. j - 1 \in 1 .. Len(items) - 1 /\ j - 1 > i /\ items'[j - 1] = items[j]
      BY <1>2
    <3> QED
      BY <3>1
  <2>3. coalesced[items[i + 1].key] = items[i + 1].id
    BY <2>1, <2>2 DEF Bounded, Indexed
  <2>4. items[i + 1].id # items[1].id
    <3>1. /\ items[i + 1].id \in items[i + 1].puts /\ items[1].id \in items[1].puts
          /\ 1 < i + 1
      BY <1>2, <2>1 DEF Inv, Entries
    <3>2. Related(items[i + 1].id, items[i + 1].id)
      BY DEF Related
    <3> QED
      BY <1>2, <2>1, <3>1, <3>2 DEF Inv, ItemsOrdered
  <2> QED
    BY <1>3, <2>1, <2>3, <2>4 DEF AfterPop
<1>5. PendingBounded'
  <2> SUFFICES ASSUME NEW i \in 1 .. Len(items) - 1, NEW j \in 1 .. Len(items) - 1, i < j,
                      items'[i].key # NoKey, items'[i].key = items'[j].key
               PROVE  \E b \in i + 1 .. j - 1 : items'[b].key = NoKey
    BY <1>2 DEF PendingBounded, Barrier
  <2>1. /\ i + 1 \in DOMAIN items /\ items'[i] = items[i + 1]
        /\ j + 1 \in DOMAIN items /\ items'[j] = items[j + 1]
    BY <1>2
  <2>2. PICK b \in i + 2 .. j : items[b].key = NoKey
    BY <2>1 DEF Bounded, PendingBounded, Barrier
  <2>3. b - 1 \in i + 1 .. j - 1 /\ items'[b - 1] = items[b]
    BY <1>2, <2>2
  <2> QED
    BY <2>2, <2>3
<1> QED
  BY <1>4, <1>5 DEF Bounded

\* Between two ordered events the deque holds one entry of a thread's state at
\* most: a client that reads slowly costs no more, however often states change.
THEOREM PendingBoundedHolds == Spec => []PendingBounded
<1>1. Init => Bounded
  <2> SUFFICES ASSUME Init PROVE Bounded
    OBVIOUS
  <2>1. DOMAIN items = {1} /\ items[1].key = NoKey
    BY DEF Init
  <2> QED
    BY <2>1 DEF Bounded, Indexed, PendingBounded, Barrier
<1>2. Inv /\ Bounded /\ [Next]_vars => Bounded'
  <2> SUFFICES ASSUME Inv, Bounded, [Next]_vars PROVE Bounded'
    OBVIOUS
  <2>1. ASSUME NEW k \in Keys \cup {NoKey}, Publish(k) PROVE Bounded'
    BY <2>1, PutKeepsBounded DEF Publish
  <2>2. CASE GetPop
    BY <2>2, PopKeepsBounded
  <2>3. CASE HandlerDone
    BY <2>3, PutKeepsBounded DEF HandlerDone
  <2>4. CASE GetWait \/ SelectCommand \/ SelectSend \/ Sent \/ Disconnect \/ UNCHANGED vars
    BY <2>4 DEF GetWait, SelectCommand, SelectSend, Sent, Disconnect, vars,
                Bounded, Indexed, PendingBounded, Barrier
  <2> QED
    BY <2>1, <2>2, <2>3, <2>4 DEF Next
<1>3. Bounded => PendingBounded
  BY DEF Bounded
<1> QED
  BY <1>1, <1>2, <1>3, OrderInvariant, PTL DEF Spec
=============================================================================
