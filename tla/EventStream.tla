----------------------------- MODULE EventStream -----------------------------
(***************************************************************************)
(* EventStreamBroker and the generators of GET /api/events/stream.  The    *)
(* broker puts every event into the queue of each subscriber, in one step: *)
(* the queues have no limit.  A generator waits for an item, the shutdown  *)
(* event or a timeout, with a task for the item that it must cancel when   *)
(* another of them comes first; asyncio's queue keeps the item when a get  *)
(* is cancelled after it has been woken (modelled as the library does).    *)
(***************************************************************************)
EXTENDS Integers, Sequences

CONSTANTS
  Clients,
  MaxEvents,  \* bound on the events published
  MaxPings,   \* bound on the timeouts
  Nothing     \* no item

StreamConstants == {MaxEvents, MaxPings} \subseteq Nat /\ Nothing \notin Nat

VARIABLES
  published,  \* how many events there have been; the n-th is n
  queue,      \* of each client
  since,      \* how many there had been when the client subscribed
  sent,       \* what has been yielded to the client
  phase,      \* see Phases: "taken" and "elapsed" are what woke its wait
  getter,     \* the task of queue.get(): see Getters
  item,       \* what it has taken, or Nothing
  shutdown,   \* the server's event
  pings

streamVars == <<published, queue, since, sent, phase, getter, item, shutdown, pings>>

Phases == {"new", "idle", "waiting", "taken", "elapsed", "closed"}
\* Made and not run yet, waiting for an item, told of one, over.
Getters == {"none", "made", "blocked", "woken", "done"}

TypeOK ==
  /\ published \in 0 .. MaxEvents /\ pings \in 0 .. MaxPings /\ shutdown \in BOOLEAN
  /\ \A c \in Clients :
       /\ queue[c] \in Seq(1 .. published) /\ sent[c] \in Seq(1 .. published)
       /\ since[c] \in 0 .. published /\ phase[c] \in Phases /\ getter[c] \in Getters
       /\ item[c] \in 1 .. published \cup {Nothing}

Init ==
  /\ published = 0 /\ shutdown = FALSE /\ pings = 0
  /\ queue = [c \in Clients |-> <<>>] /\ sent = [c \in Clients |-> <<>>]
  /\ since = [c \in Clients |-> 0] /\ phase = [c \in Clients |-> "new"]
  /\ getter = [c \in Clients |-> "none"] /\ item = [c \in Clients |-> Nothing]

Subscribed(c) == phase[c] \notin {"new", "closed"}

Subscribe(c) ==
  /\ phase[c] = "new" /\ phase' = [phase EXCEPT ![c] = "idle"]
  /\ since' = [since EXCEPT ![c] = published]
  /\ UNCHANGED <<published, queue, sent, getter, item, shutdown, pings>>

Publish ==
  /\ published < MaxEvents /\ published' = published + 1
  /\ queue' = [c \in Clients |->
       IF Subscribed(c) THEN Append(queue[c], published + 1) ELSE queue[c]]
  /\ getter' = [c \in Clients |->
       IF getter[c] = "blocked" THEN "woken" ELSE getter[c]]
  /\ UNCHANGED <<since, sent, phase, item, shutdown, pings>>

Wait(c) ==
  /\ phase[c] = "idle" /\ phase' = [phase EXCEPT ![c] = "waiting"]
  /\ getter' = [getter EXCEPT ![c] = "made"] /\ item' = [item EXCEPT ![c] = Nothing]
  /\ UNCHANGED <<published, queue, since, sent, shutdown, pings>>

GetterRuns(c) ==
  /\ getter[c] \in {"made", "woken"}
  /\ \/ /\ queue[c] = <<>> /\ getter' = [getter EXCEPT ![c] = "blocked"]
        /\ UNCHANGED <<queue, phase, item>>
     \/ /\ queue[c] # <<>> /\ getter' = [getter EXCEPT ![c] = "done"]
        /\ item' = [item EXCEPT ![c] = Head(queue[c])]
        /\ queue' = [queue EXCEPT ![c] = Tail(@)]
        /\ phase' = [phase EXCEPT ![c] = IF @ = "waiting" THEN "taken" ELSE @]
  /\ UNCHANGED <<published, since, sent, shutdown, pings>>

\* The timer of the wait, or the shutdown event, wakes the generator.
Timeout(c) ==
  /\ phase[c] = "waiting" /\ phase' = [phase EXCEPT ![c] = "elapsed"]
  /\ \/ pings < MaxPings /\ pings' = pings + 1
     \/ shutdown /\ UNCHANGED pings
  /\ UNCHANGED <<published, queue, since, sent, getter, item, shutdown>>

Shutdown ==
  /\ ~shutdown /\ shutdown' = TRUE
  /\ UNCHANGED <<published, queue, since, sent, phase, getter, item, pings>>

\* A mutant: a wait that was woken by the timer takes the item for absent.
HasItemBeforeTimer(c) == getter[c] = "done" /\ phase[c] # "elapsed"

\* What the wait looks at when it resumes: who is done by now.
HasItem(c) == getter[c] = "done"

\* The tasks that are not done are cancelled; the shutdown goes first.
Resume(c) ==
  /\ phase[c] \in {"taken", "elapsed"} /\ getter' = [getter EXCEPT ![c] = "none"]
  /\ item' = [item EXCEPT ![c] = Nothing]
  /\ \/ shutdown /\ phase' = [phase EXCEPT ![c] = "closed"] /\ UNCHANGED sent
     \/ /\ ~shutdown /\ phase' = [phase EXCEPT ![c] = "idle"]
        /\ sent' = IF HasItem(c) THEN [sent EXCEPT ![c] = Append(@, item[c])] ELSE sent
  /\ UNCHANGED <<published, queue, since, shutdown, pings>>

\* The client goes: the generator is closed at its yield or its await.
Leave(c) ==
  /\ Subscribed(c) /\ phase' = [phase EXCEPT ![c] = "closed"]
  /\ getter' = [getter EXCEPT ![c] = "none"] /\ item' = [item EXCEPT ![c] = Nothing]
  /\ UNCHANGED <<published, queue, since, sent, shutdown, pings>>

Next ==
  \/ Publish \/ Shutdown
  \/ \E c \in Clients :
       \/ Subscribe(c) \/ Wait(c) \/ GetterRuns(c) \/ Timeout(c) \/ Resume(c) \/ Leave(c)

Spec == Init /\ [][Next]_streamVars

(* A page that stays sees every event since it subscribed, once and in     *)
(* order: none is lost to a timeout or a ping that falls together with it. *)
(* What it has been sent, what its task holds and what its queue holds is  *)
(* at every moment all there has been.                                     *)
NothingLost ==
  \A c \in Clients : Subscribed(c) =>
    sent[c] \o (IF item[c] = Nothing THEN <<>> ELSE <<item[c]>>) \o queue[c]
      = [i \in 1 .. published - since[c] |-> since[c] + i]
=============================================================================
