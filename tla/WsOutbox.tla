------------------------------ MODULE WsOutbox ------------------------------
(***************************************************************************)
(* CodexWebSocketOutbox (yier_web/codex/ws_outbox.py) and the connection   *)
(* loop that drains it (CodexController.websocket_handler in               *)
(* yier_web/routes/codex.py).                                              *)
(*                                                                         *)
(* Producers run on the same event loop as the connection: the session     *)
(* event hub puts at any moment between two awaits, a command handler puts *)
(* its results and then its acknowledgement.  The loop keeps one get()     *)
(* task alive, which may pop a message long before the loop sends it.      *)
(*                                                                         *)
(* A message is its number in the history `log`; what a coalesced entry    *)
(* holds is the set of messages folded into it (how two deltas compose is  *)
(* the subject of TurnSync).                                               *)
(***************************************************************************)
EXTENDS Integers, Sequences

CONSTANTS
  Keys,      \* the coalesce keys: (event type, thread id) pairs
  NoKey,     \* what _coalesce_key returns for an ordered event
  MaxPuts    \* bound: messages put in one behaviour

ASSUME KeyAssumption == NoKey \notin Keys
ASSUME BoundAssumption == MaxPuts \in Nat

VARIABLES
  items,      \* _items: the deque of entries
  coalesced,  \* _coalesced_entries: key -> id of the entry, 0 when absent
  available,  \* _available: the asyncio.Event
  getter,     \* the get() task: see GetterStates
  held,       \* the messages of the entry a finished get() task returned
  loop,       \* where websocket_handler is: see LoopStates
  sendDone,   \* the send task is in the `done` set asyncio.wait returned
  log,        \* history: the coalesce keys of the messages put so far
  got,        \* history: the messages sent on the socket
  heldFor     \* history: commands handled since get() returned

outboxVars == <<items, coalesced, available>>
vars == <<items, coalesced, available, getter, held, loop, sendDone, log, got, heldFor>>

\* Created (or resumed by the event, and about to look at the deque again),
\* suspended in _available.wait(), finished with a message, cancelled.
GetterStates == {"ready", "waiting", "done", "cancelled"}

\* In asyncio.wait, awaiting a command handler, awaiting socket.send, left.
LoopStates == {"select", "handling", "sending", "closed"}

Entry == [id : Nat \ {0}, key : Keys \cup {NoKey}, puts : SUBSET (Nat \ {0})]

TypeOK ==
  /\ items \in Seq(Entry)
  /\ coalesced \in [Keys -> Nat]
  /\ available \in BOOLEAN
  /\ getter \in GetterStates
  /\ held \in SUBSET (Nat \ {0})
  /\ loop \in LoopStates
  /\ sendDone \in BOOLEAN
  /\ log \in Seq(Keys \cup {NoKey})
  /\ got \in SUBSET (Nat \ {0})
  /\ heldFor \in Nat

Init ==
  \* websocket_handler puts connection_ready before it creates the get() task.
  /\ items = << [id |-> 1, key |-> NoKey, puts |-> {1}] >>
  /\ coalesced = [k \in Keys |-> 0]
  /\ available = TRUE
  /\ getter = "ready"
  /\ held = {}
  /\ loop = "select"
  /\ sendDone = FALSE
  /\ log = <<NoKey>>
  /\ got = {}
  /\ heldFor = 0
-----------------------------------------------------------------------------
\* The number the next message gets, which also names the entry it creates.
NextPut == Len(log) + 1

\* Mutated forms of the helpers below.
KeepsPending == coalesced
RegistersNothing(k) == coalesced
SleepsOn == getter
ForgetsNothing(entry) == coalesced
DropsKey(entry) == [k \in Keys \ {entry.key} |-> coalesced[k]]

\* An ordered event is a barrier: put_nowait forgets the pending entries, so
\* that later state queues behind it.
AfterBarrier == [k \in Keys |-> 0]

\* The new entry of a state message is the one later messages are folded into.
AfterState(k) == [coalesced EXCEPT ![k] = NextPut]

\* _available.set() resumes a get() task suspended on the event.
Woken == IF getter = "waiting" THEN "ready" ELSE getter

\* get() forgets the entry it pops, unless a newer one has taken its key.
AfterPop(entry) ==
  [k \in Keys |-> IF k = entry.key /\ coalesced[k] = entry.id
                  THEN 0 ELSE coalesced[k]]

\* put_nowait finds a pending entry of this key and folds the message into it.
Fold(k) ==
  /\ items' = [i \in DOMAIN items |->
                 IF items[i].id = coalesced[k]
                 THEN [items[i] EXCEPT !.puts = @ \cup {NextPut}]
                 ELSE items[i]]
  /\ UNCHANGED <<coalesced, available, getter>>

\* put_nowait appends an entry.
Enqueue(k) ==
  /\ items' = Append(items, [id |-> NextPut, key |-> k, puts |-> {NextPut}])
  /\ coalesced' = IF k = NoKey THEN AfterBarrier ELSE AfterState(k)
  /\ available' = TRUE
  /\ getter' = Woken

PutNowait(k) ==
  /\ log' = Append(log, k)
  /\ IF k # NoKey /\ coalesced[k] # 0 THEN Fold(k) ELSE Enqueue(k)

\* Bound: a command being handled will put its acknowledgement.
Room == Len(log) + (IF loop = "handling" THEN 1 ELSE 0) < MaxPuts

\* The hub (or a handler, before its acknowledgement) puts a message.  The
\* queue stays registered for a while after the socket is gone.
Publish(k) ==
  /\ Room
  /\ PutNowait(k)
  /\ UNCHANGED <<held, loop, sendDone, got, heldFor>>

\* get() finds the deque empty and suspends on the event.
GetWait ==
  /\ getter = "ready"
  /\ items = <<>>
  /\ available' = FALSE
  /\ getter' = "waiting"
  /\ UNCHANGED <<items, coalesced, held, loop, sendDone, log, got, heldFor>>

\* get() pops the oldest entry, which no later message may be folded into.
GetPop ==
  /\ getter = "ready"
  /\ items # <<>>
  /\ LET entry == Head(items) IN
       /\ items' = Tail(items)
       /\ available' = (available /\ Len(items) > 1)
       /\ coalesced' = AfterPop(entry)
       /\ held' = entry.puts
  /\ getter' = "done"
  /\ UNCHANGED <<loop, sendDone, log, got, heldFor>>
-----------------------------------------------------------------------------
\* asyncio.wait returns with a command; the get() task may be done as well.
SelectCommand ==
  /\ loop = "select"
  /\ Room
  /\ loop' = "handling"
  /\ sendDone' = (getter = "done")
  /\ UNCHANGED <<items, coalesced, available, getter, held, log, got, heldFor>>

\* asyncio.wait returns with the get() task alone.
SelectSend ==
  /\ loop = "select"
  /\ getter = "done"
  /\ loop' = "sending"
  /\ sendDone' = TRUE
  /\ UNCHANGED <<items, coalesced, available, getter, held, log, got, heldFor>>

\* Mutated forms of the two operators below.
BackToSelect == "select"
SentTwice ==
  /\ loop = "sending"
  /\ got' = got \cup held
  /\ loop' = "select"
  /\ sendDone' = FALSE
  /\ UNCHANGED <<items, coalesced, available, getter, held, log, heldFor>>

\* After a command, the loop sends what the same asyncio.wait returned.
AfterHandler == IF sendDone THEN "sending" ELSE "select"

\* _handle_ws_message puts the acknowledgement (or the error) and returns.
HandlerDone ==
  /\ loop = "handling"
  /\ PutNowait(NoKey)
  /\ loop' = AfterHandler
  /\ heldFor' = IF held # {} THEN heldFor + 1 ELSE 0
  /\ UNCHANGED <<held, sendDone, got>>

\* socket.send_json or send_bytes returns; a new get() task is created.
Sent ==
  /\ loop = "sending"
  /\ got' = got \cup held
  /\ held' = {}
  /\ getter' = "ready"
  /\ loop' = "select"
  /\ sendDone' = FALSE
  /\ heldFor' = 0
  /\ UNCHANGED <<items, coalesced, available, log>>

\* receive_json or a send raises: the loop ends and cancels a pending get().
Disconnect ==
  /\ loop \in {"select", "sending"}
  /\ loop' = "closed"
  /\ getter' = IF getter = "done" THEN "done" ELSE "cancelled"
  /\ UNCHANGED <<items, coalesced, available, held, sendDone, log, got, heldFor>>

Next ==
  \/ \E k \in Keys \cup {NoKey} : Publish(k)
  \/ GetWait
  \/ GetPop
  \/ SelectCommand
  \/ SelectSend
  \/ HandlerDone
  \/ Sent
  \/ Disconnect

Spec == Init /\ [][Next]_vars

\* The event loop runs every ready task; a command handler returns and the
\* socket accepts the frame, or the connection is closed.
Fairness ==
  /\ WF_vars(GetWait)
  /\ WF_vars(GetPop)
  /\ WF_vars(SelectSend)
  /\ WF_vars(HandlerDone)
  /\ WF_vars(Sent)

FairSpec == Spec /\ Fairness
-----------------------------------------------------------------------------
Related(n, m) == log[n] = NoKey \/ log[m] = NoKey \/ log[n] = log[m]

(***************************************************************************)
(* Ordered delivery.  Once the client has a message it has every earlier   *)
(* message that is an ordered event, or of the same key, and an ordered    *)
(* event arrives after all that was put before it: "later state must not   *)
(* move ahead of an acknowledgement, error, approval" (put_nowait).        *)
(***************************************************************************)
CausalDelivery ==
  \A n \in got : \A m \in 1 .. n - 1 : Related(n, m) => m \in got

(***************************************************************************)
(* No message is forgotten while the connection lives: each one was sent,  *)
(* is in the hands of the loop, or is still in the deque.  It fails if     *)
(* put_nowait folds into an entry get() has already handed out.            *)
(***************************************************************************)
NothingLost ==
  \A n \in 1 .. Len(log) :
    \/ n \in got \cup held
    \/ \E i \in DOMAIN items : n \in items[i].puts

(***************************************************************************)
(* No lost wake-up: the get() task is not asleep on the event while the    *)
(* deque holds a message, although folding a message does not set it.      *)
(***************************************************************************)
NoLostWakeup == items # <<>> => getter # "waiting"

(***************************************************************************)
(* What a slow client can cost: between two barriers the deque holds at    *)
(* most one entry for each key, however often a thread's state changes.    *)
(***************************************************************************)
Barrier(i) == items[i].key = NoKey
PendingBounded ==
  \A i, j \in DOMAIN items :
    (i < j /\ ~Barrier(i) /\ items[i].key = items[j].key)
      => \E b \in i + 1 .. j - 1 : Barrier(b)

(***************************************************************************)
(* Commands do not starve the sender: a message get() has returned waits   *)
(* for two command handlers at most (the loop looks at the send task after *)
(* every command of the wait that saw it done).                            *)
(***************************************************************************)
SenderNotStarved == heldFor <= 2

(***************************************************************************)
(* Every message put on the outbox of a connection that stays open is      *)
(* eventually sent, alone or folded into a later state.                    *)
(***************************************************************************)
EventuallySent ==
  \A n \in 1 .. MaxPuts : (Len(log) >= n) ~> (n \in got \/ loop = "closed")

(***************************************************************************)
(* The outbox and its loop implement the abstract channel: every step of   *)
(* the queue is a step of the channel or is invisible to the client.       *)
(***************************************************************************)
Channel == INSTANCE StateChannel WITH Keys <- Keys, NoKey <- NoKey, log <- log, got <- got
ImplementsChannel == Channel!ChannelSpec
=============================================================================
