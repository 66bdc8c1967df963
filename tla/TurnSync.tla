------------------------------ MODULE TurnSync ------------------------------
(***************************************************************************)
(* How a browser keeps a copy of one thread's turns: the TurnEventProjector *)
(* of its subscription (yier_web/codex/turn_sync.py) turns each published  *)
(* state into a delta of full turns and patches, the outbox composes the   *)
(* deltas that wait to be sent (ws_outbox.py), and the client applies them *)
(* to its snapshot (web/src/codex/lib/codexTurnSync.ts, codexTurnCache.ts), *)
(* from which it asks again after a lost connection, a reload or a new     *)
(* selection of the thread.                                                *)
(*                                                                         *)
(* A turn is its fields and the texts of its items; what the rest of the   *)
(* conversation state holds is the value `live`.  The messages of other    *)
(* kinds in the outbox are the choice of not composing two deltas.         *)
(***************************************************************************)
EXTENDS Integers, SequencesExt

CONSTANTS
  MaxTurns,   \* bound: turns ever created
  MaxItems,   \* bound: items of a turn
  MaxText,    \* bound: length of an item's text
  MaxEdits,   \* bound: changes Codex makes to the thread
  MaxFrames,  \* bound: entries of the outbox
  MaxLosses,  \* bound: connections lost and pages reloaded
  None

VARIABLES
  conv,       \* the conversation in Codex: [turns, live]
  pub,        \* the state last published by the watcher of the session
  projector,  \* the projector of the subscription, or None
  request,    \* a subscription asked for and not acknowledged yet, or None
  outbox,     \* the deltas of the thread that wait to be sent
  client,     \* the turns the browser has
  stored,     \* the turns its IndexedDB cache has
  shown,      \* history: the turns of every published state
  born, edits, losses

vars == <<conv, pub, projector, request, outbox, client, stored, shown, born, edits, losses>>
counters == <<born, edits, losses>>

Fields == {"status", "step"}
Values == {"inProgress", "completed", "on"}
Text == SeqOf({"a", "b"}, MaxText)
TurnIds == 1..MaxTurns
Turn == [id : TurnIds, fields : UNION {[F -> Values] : F \in SUBSET Fields},
         items : SeqOf(Text, MaxItems)]
TurnMap == UNION {[D -> Turn] : D \in SUBSET TurnIds}
Turns(s) == s \in Seq(Turn) /\ \A i, j \in DOMAIN s : s[i].id = s[j].id => i = j

Requests == [phase : {"sent", "registered", "acknowledged"},
             cached : SUBSET TurnIds, refresh : SUBSET TurnIds]
Projectors == [known : SUBSET TurnIds, mutable : SUBSET TurnIds,
               projected : TurnMap, live : Nat \cup {None}]

ASSUME SyncAssumption ==
  /\ {MaxTurns, MaxItems, MaxText, MaxEdits, MaxFrames, MaxLosses} \subseteq Nat /\ MaxText > 0
  /\ None \notin Requests /\ None \notin Projectors /\ None \notin Text /\ None \notin Nat

TypeOK ==
  /\ Turns(conv.turns) /\ Turns(pub.turns) /\ Turns(client) /\ Turns(stored)
  /\ \A i \in DOMAIN outbox : outbox[i].frame.turns \in TurnMap
  /\ Len(outbox) <= MaxFrames
  /\ projector \in Projectors \cup {None} /\ request \in Requests \cup {None}
  /\ born \in 0..MaxTurns /\ edits \in 0..MaxEdits /\ losses \in 0..MaxLosses

Init ==
  /\ conv = [turns |-> <<>>, live |-> 0] /\ pub = conv
  /\ projector = None /\ request = None /\ outbox = <<>>
  /\ client = <<>> /\ stored = <<>> /\ shown = {<<>>}
  /\ born = 0 /\ edits = 0 /\ losses = 0
-----------------------------------------------------------------------------
\* f where it is defined, g elsewhere.
Over(f, g) == [x \in DOMAIN f \cup DOMAIN g |-> IF x \in DOMAIN f THEN f[x] ELSE g[x]]

Ids(turns) == {turns[i].id : i \in DOMAIN turns}
Running(turn) == turn.fields["status"] = "inProgress"
TurnOf(turns, id) == turns[CHOOSE i \in DOMAIN turns : turns[i].id = id]

\* A mutated form of ItemPatch: longer texts are taken for appended ones.
LongerIsAppended(old, new) ==
  IF Len(new) > Len(old) THEN [append |-> SubSeq(new, Len(old) + 1, Len(new))] ELSE [item |-> new]

\* An item whose text was continued is patched with the suffix, another is replaced.
ItemPatch(old, new) ==
  IF IsPrefix(old, new) THEN [append |-> SubSeq(new, Len(old) + 1, Len(new))] ELSE [item |-> new]

\* turn_state_patch, for a turn that has changed.
TurnPatch(old, new) ==
  LET changed == {k \in DOMAIN new.fields :
                    k \notin DOMAIN old.fields \/ old.fields[k] # new.fields[k]}
      items == {i \in DOMAIN new.items : i > Len(old.items) \/ old.items[i] # new.items[i]}
  IN [set |-> [k \in changed |-> new.fields[k]],
      remove |-> DOMAIN old.fields \ DOMAIN new.fields,
      count |-> Len(new.items),
      items |-> [i \in items |-> IF i > Len(old.items) THEN [item |-> new.items[i]]
                                 ELSE ItemPatch(old.items[i], new.items[i])]]

\* _apply_turn_patch of the outbox and the loop of mergeTurnPatches: an item the
\* turn does not have is left empty, and nothing is appended to it.
Patched(turn, patch) ==
  [id |-> turn.id,
   fields |-> Over(patch.set, Restrict(turn.fields, DOMAIN turn.fields \ patch.remove)),
   items |-> [i \in 1..patch.count |->
     LET old == IF i <= Len(turn.items) THEN turn.items[i] ELSE None IN
       IF i \notin DOMAIN patch.items THEN old
       ELSE IF "item" \in DOMAIN patch.items[i] THEN patch.items[i].item
       ELSE IF old = None THEN None
       ELSE old \o patch.items[i].append]]

\* One patch after the other.
PatchedAll(turn, patches) ==
  LET after[n \in 0 .. Len(patches)] ==
        IF n = 0 THEN turn ELSE Patched(after[n - 1], patches[n])
  IN  after[Len(patches)]
-----------------------------------------------------------------------------
NewProjector(cached, refresh) ==
  [known |-> cached, mutable |-> refresh, projected |-> <<>>, live |-> None]

\* incremental_turn_state: the turns the client may not have in this form.
Candidates(p, turns) ==
  {i \in DOMAIN turns : \/ turns[i].id \notin p.known
                        \/ turns[i].id \in p.mutable
                        \/ Running(turns[i])
                        \/ i = Len(turns)}

\* A mutated form of Mutable: only the last turn may still change.
LastOnly(turns, candidates) ==
  {turns[i].id : i \in {j \in candidates : Running(turns[j]) /\ j = Len(turns)}}

\* The candidates that may still change: they are looked at again next time.
Mutable(turns, candidates) == {turns[i].id : i \in {j \in candidates : Running(turns[j])}}

\* The candidates sent whole, and those sent as a patch of what was sent before.
Full(p, turns) == {i \in Candidates(p, turns) : turns[i].id \notin DOMAIN p.projected}
Changed(p, turns) ==
  {i \in Candidates(p, turns) \ Full(p, turns) : p.projected[turns[i].id] # turns[i]}

IdsOf(turns, I) == {turns[i].id : i \in I}

\* thread_payload: the delta, the projector after it, and whether it says anything.
Delta(p, turns) ==
  [ids |-> [i \in DOMAIN turns |-> turns[i].id],
   turns |-> [id \in IdsOf(turns, Full(p, turns)) |-> TurnOf(turns, id)],
   patches |-> [id \in IdsOf(turns, Changed(p, turns)) |->
                  <<TurnPatch(p.projected[id], TurnOf(turns, id))>>]]

Projected(p, state) ==
  LET turns == state.turns
      now == IdsOf(turns, Candidates(p, turns))
      mutable == Mutable(turns, Candidates(p, turns))
      retained == mutable \cup IdsOf(turns, DOMAIN turns \cap {Len(turns)})
  IN [known |-> Ids(turns), mutable |-> mutable, live |-> state.live,
      projected |-> [id \in retained \cap (now \cup DOMAIN p.projected) |->
                       IF id \in now THEN TurnOf(turns, id) ELSE p.projected[id]]]

SaysAnything(p, state) ==
  Full(p, state.turns) # {} \/ Changed(p, state.turns) # {} \/ state.live # p.live
-----------------------------------------------------------------------------
\* The patches of a delta, by turn: one is never applied to another turn.
PatchesOf(frame, id) == IF id \in DOMAIN frame.patches THEN frame.patches[id] ELSE <<>>

AllPatches(f, g) == [id \in DOMAIN f.patches \cup DOMAIN g.patches |->
                       PatchesOf(f, id) \o PatchesOf(g, id)]

\* Mutated forms of Compose: the latest delta replaces the one that waits, or
\* its patches are kept beside the full turns they apply to.
KeepsLatest(f, g) == g
PatchesStayPending(f, g) ==
  [ids |-> g.ids, turns |-> Over(g.turns, f.turns), patches |-> AllPatches(f, g)]

\* _merge_thread_state_delta: one delta that does what f and then g do.
Compose(f, g) ==
  LET turns == Over(g.turns, [id \in DOMAIN f.turns |->
                                PatchedAll(f.turns[id], PatchesOf(g, id))])
      patches == AllPatches(f, g)
  IN [ids |-> g.ids, turns |-> turns,
      patches |-> Restrict(patches, DOMAIN patches \ DOMAIN turns)]

\* The ids that are in D, in their order.
Among(ids, D) ==
  LET kept[n \in 0 .. Len(ids)] ==
        IF n = 0 THEN <<>>
        ELSE IF ids[n] \in D THEN Append(kept[n - 1], ids[n]) ELSE kept[n - 1]
  IN  kept[Len(ids)]

\* applyDelta: patches first, then full turns, in the order of the ids.
Applied(turns, frame) ==
  LET now == Over(frame.turns, [id \in Ids(turns) |->
                                  PatchedAll(TurnOf(turns, id), PatchesOf(frame, id))])
      ids == Among(frame.ids, DOMAIN now)
  IN [i \in DOMAIN ids |-> now[ids[i]]]

Put(ack, frame) ==
  \/ /\ ~ack /\ outbox # <<>> /\ ~Last(outbox).ack
     /\ outbox' = [outbox EXCEPT ![Len(outbox)].frame = Compose(@, frame)]
  \/ /\ Len(outbox) < MaxFrames
     /\ outbox' = Append(outbox, [ack |-> ack, frame |-> frame])
-----------------------------------------------------------------------------
\* What Codex does to the conversation, by the changes the client renders.  The
\* rest of the state may change with it.
Edit(turns, lives) ==
  /\ edits < MaxEdits /\ edits' = edits + 1
  /\ \E live \in lives : conv' = [turns |-> turns, live |-> live]
  /\ UNCHANGED <<pub, projector, request, outbox, client, stored, shown, losses>>

\* A value of the rest of the state that was never there before.
Touched == edits + 1

NewTurn ==
  /\ born < MaxTurns /\ born' = born + 1
  /\ Edit(Append(conv.turns,
                 [id |-> born + 1, items |-> <<>>,
                  fields |-> [k \in Fields |-> IF k = "status" THEN "inProgress" ELSE "on"]]), {conv.live, Touched})

Rewritten(text) == [n \in 1..MaxText |-> "b"]

\* A running turn streams into an item, has one replaced, added or dropped, or ends.
TurnChanges(i) ==
  LET turn == conv.turns[i] IN
    /\ Running(turn) /\ UNCHANGED born
    /\ \/ \E n \in DOMAIN turn.items :
            \/ /\ Len(turn.items[n]) < MaxText
               /\ Edit([conv.turns EXCEPT ![i].items[n] = Append(@, "a")], {conv.live, Touched})
            \/ Edit([conv.turns EXCEPT ![i].items[n] = Rewritten(@)], {conv.live, Touched})
       \/ /\ Len(turn.items) < MaxItems
          /\ Edit([conv.turns EXCEPT ![i].items = Append(@, <<"a">>)], {conv.live, Touched})
       \/ /\ turn.items # <<>>
          /\ Edit([conv.turns EXCEPT ![i].items = Front(@)], {conv.live, Touched})
       \/ Edit([conv.turns EXCEPT ![i].fields = [k \in {"status"} |-> "completed"]], {conv.live, Touched})

\* The last turn is taken back, which the rest of the state shows too.
Rollback ==
  /\ conv.turns # <<>> /\ UNCHANGED born
  /\ Edit(Front(conv.turns), {Touched})
-----------------------------------------------------------------------------
\* _watch_thread: the current state is published and projected for the subscriber.
Publish ==
  /\ pub' = conv /\ shown' = shown \cup {conv.turns}
  /\ IF projector = None THEN UNCHANGED <<projector, outbox>>
     ELSE /\ projector' = Projected(projector, conv)
          /\ IF SaysAnything(projector, conv) THEN Put(FALSE, Delta(projector, conv.turns))
             ELSE UNCHANGED outbox
  /\ UNCHANGED <<conv, request, client, stored, counters>>

\* selectThread: the client asks, naming the turns of its snapshot.
Request ==
  /\ request = None
  /\ request' = [phase |-> "sent", cached |-> Ids(client),
                 refresh |-> {client[i].id : i \in {j \in DOMAIN client : Running(client[j])}}]
  /\ UNCHANGED <<conv, pub, projector, outbox, client, stored, shown, counters>>

\* subscribe: a new projector takes the place of the connection's former one.
Register ==
  /\ request # None /\ request.phase = "sent"
  /\ projector' = NewProjector(request.cached, request.refresh)
  /\ request' = [request EXCEPT !.phase = "registered"]
  /\ UNCHANGED <<conv, pub, outbox, client, stored, shown, counters>>

\* subscribe_with_turn_deltas, the thread open: the acknowledgement is projected.
Acknowledge ==
  /\ request # None /\ request.phase = "registered"
  /\ projector' = Projected(projector, pub)
  /\ Put(TRUE, Delta(projector, pub.turns))
  /\ request' = [request EXCEPT !.phase = "acknowledged"]
  /\ UNCHANGED <<conv, pub, client, stored, shown, counters>>

Deliver ==
  /\ outbox # <<>>
  /\ client' = Applied(client, Head(outbox).frame)
  /\ outbox' = Tail(outbox)
  /\ request' = IF Head(outbox).ack THEN None ELSE request
  /\ UNCHANGED <<conv, pub, projector, stored, shown, counters>>

\* The update of the IndexedDB cache that applyDelta began is done.
Persist ==
  /\ stored # client /\ stored' = client
  /\ UNCHANGED <<conv, pub, projector, request, outbox, client, shown, counters>>

\* The connection is lost with all that was in flight; a reloaded page starts
\* from the cache.
Lose ==
  /\ losses < MaxLosses /\ losses' = losses + 1
  /\ projector' = None /\ request' = None /\ outbox' = <<>>
  /\ client' \in {client, stored}
  /\ UNCHANGED <<conv, pub, stored, shown, born, edits>>

Next ==
  \/ NewTurn \/ Rollback
  \/ \E i \in DOMAIN conv.turns : TurnChanges(i)
  \/ Publish \/ Request \/ Register \/ Acknowledge \/ Deliver \/ Persist \/ Lose

Spec == Init /\ [][Next]_vars
-----------------------------------------------------------------------------
\* Once a subscription is acknowledged, the deltas that wait take the client from
\* what it shows to the state last published, however they were composed and
\* whatever its cache held: none is missing and none applies to the wrong base.
Converges ==
  LET after[n \in 0 .. Len(outbox)] ==
        IF n = 0 THEN client ELSE Applied(after[n - 1], outbox[n].frame)
  IN  (projector # None /\ (request = None \/ request.phase = "acknowledged")) =>
         after[Len(outbox)] = pub.turns

\* The browser never shows a mixture: its turns are those of one published state.
ShowsPublishedState == client \in shown
=============================================================================
