--------------------------- MODULE ThreadSessions ---------------------------
(***************************************************************************)
(* The life of the Codex sessions behind the threads of the web workspace: *)
(* CodexIpcManager (yier_web/codex/ipc_manager.py) with the subscriber     *)
(* registry of CodexSessionEventHub (session_events.py), driven by the     *)
(* command handler of each WebSocket connection (routes/codex.py,          *)
(* ws_commands.py) and by HTTP requests.                                   *)
(*                                                                         *)
(* Everything runs on one event loop, so an action is the code between two *)
(* awaits of one task.  A call of the bridge library takes effect when it  *)
(* is made and returns later; Faults says which calls may raise.           *)
(***************************************************************************)
EXTENDS Integers, Sequences, FiniteSets

CONSTANTS
  Threads,    \* thread ids
  Existing,   \* the threads that exist at first; `start` creates the others
  Conns,      \* WebSocket connections: each runs one command at a time
  Requests,   \* tasks of HTTP requests
  Sessions,   \* bound: CodexIpcSession objects alive or referenced at once
  Commands,   \* the commands of this instance
  Faults,     \* the bridge calls that may raise
  NoThread, NoSession

ASSUME SessionAssumption == NoSession \notin Sessions
ASSUME TaskAssumption == Conns \cap Requests = {}
ASSUME ThreadAssumption == Existing \subseteq Threads /\ NoThread \notin Threads

Tasks == Conns \cup Requests
WsCommands == {"subscribe", "unsubscribe", "prompt", "archive", "start"}
HttpCommands == {"archive", "start", "restart"}
AllCommands == WsCommands \cup HttpCommands \cup {"leave"}
ASSUME CommandAssumption ==
  Commands \subseteq AllCommands /\ Faults \subseteq {"open", "follow", "archive", "stop"}

VARIABLES
  hub,      \* _thread_subscribers: thread -> the connections' queues
  threads,  \* _threads: thread -> the registered session
  lockq,    \* _lock: its holder, then the tasks waiting for it, in order
  sess,     \* the sessions: see Session
  task,     \* what each task awaits: see Task
  conn,     \* connection open or not
  book,     \* subscribed_thread_ids of each connection
  known,    \* the threads that exist in Codex
  told      \* history: archived threads a connection was told of since it subscribed

vars == <<hub, threads, lockq, sess, task, conn, book, known, told>>

\* A session that was stopped, or whose start failed, is Unused again.  One is
\* "left" when its stop raised or, its watchers raising first, was never called:
\* it may run on, and no task means to watch or to stop it.
Session == [state : {"unused", "opening", "live", "closing", "left"},
            thread : Threads \cup {NoThread}, following : BOOLEAN, watched : BOOLEAN]

\* pc: the await the task is suspended in; ok: how the call it made will end;
\* todo: what a restart has still to stop.
Task == [pc : {"idle", "lock", "opening", "following", "unfollowing", "archiving",
               "closing", "restarting"},
         cmd : AllCommands \cup {"none"}, thread : Threads \cup {NoThread},
         sess : Sessions \cup {NoSession}, follow : BOOLEAN, ok : BOOLEAN,
         todo : SUBSET (Threads \X Sessions)]

TypeOK ==
  /\ hub \in [Threads -> SUBSET Conns]
  /\ threads \in [Threads -> Sessions \cup {NoSession}]
  /\ lockq \in Seq(Tasks)
  /\ sess \in [Sessions -> Session]
  /\ task \in [Tasks -> Task]
  /\ conn \in [Conns -> {"open", "closed"}]
  /\ book \in [Conns -> SUBSET Threads]
  /\ known \in SUBSET Threads
  /\ told \in [Conns -> SUBSET Threads]

Unused == [state |-> "unused", thread |-> NoThread, following |-> FALSE, watched |-> FALSE]
Idle == [pc |-> "idle", cmd |-> "none", thread |-> NoThread, sess |-> NoSession,
         follow |-> FALSE, ok |-> TRUE, todo |-> {}]

Init ==
  /\ hub = [t \in Threads |-> {}]
  /\ threads = [t \in Threads |-> NoSession]
  /\ lockq = <<>>
  /\ sess = [s \in Sessions |-> Unused]
  /\ task = [k \in Tasks |-> Idle]
  /\ conn = [c \in Conns |-> "open"]
  /\ book = [c \in Conns |-> {}]
  /\ known = Existing
  /\ told = [c \in Conns |-> {}]
-----------------------------------------------------------------------------
\* The outcomes of a bridge call.
Outcomes(call) == IF call \in Faults THEN {TRUE, FALSE} ELSE {TRUE}

Awaiting(pc, c, t, s) ==
  [Idle EXCEPT !.pc = pc, !.cmd = c, !.thread = t, !.sess = s]

\* A session object no task or registry refers to any more may be reused; the
\* model forgets one that was left when its name is needed.
Referenced(s) ==
  \/ \E t \in Threads : threads[t] = s
  \/ \E k \in Tasks : task[k].sess = s \/ \E t \in Threads : <<t, s>> \in task[k].todo
Free == {s \in Sessions : sess[s].state \in {"unused", "left"} /\ ~Referenced(s)}

\* The sessions of S are given up: nobody stops or watches them.
GivenUp(S) ==
  [s \in Sessions |-> IF s \in S THEN [sess[s] EXCEPT !.state = "left", !.watched = FALSE]
                      ELSE sess[s]]

\* Mutated forms of the helpers below.
NeverReleases(k) == lockq
AnyIsLast(c, t) == c \in hub[t]
PopsNothing(t) == threads
DropsThread(t) == [u \in Threads \ {t} |-> threads[u]]
KeepsFailed(k) == hub
KeepsSubscribers(t) == hub
EmptiesThreads(c, T) == [t \in Threads |-> IF t \in T THEN {} ELSE hub[t]]
ClosesItsOwn(k) == task[k].sess

\* `async with self._lock` is left, or was never entered.
Release(k) == IF lockq # <<>> /\ Head(lockq) = k THEN Tail(lockq) ELSE lockq

\* subscribe_thread and unsubscribe_thread say whether the queue is the first or
\* the last of the thread.
First(c, t) == c = "subscribe" /\ hub[t] = {}
Last(c, t) == hub[t] = {c}

\* self._threads.pop(thread_id, None) and self._session_events.clear_thread(thread_id)
Popped(t) == [threads EXCEPT ![t] = NoSession]
Cleared(t) == [hub EXCEPT ![t] = {}]

\* subscribe removes its queue again when _ensure_thread raises.
AfterRaise(k) ==
  IF task[k].cmd = "subscribe" THEN [hub EXCEPT ![task[k].thread] = @ \ {k}] ELSE hub

\* What the command does once _ensure_thread returned session s: a subscription
\* is noted by the handler, archive_thread calls the bridge, a prompt is sent.
Arrive(k, c, t, s) ==
  /\ task' = [task EXCEPT ![k] =
                IF c = "archive" THEN Awaiting("archiving", c, t, s) ELSE Idle]
  /\ book' = IF c = "subscribe" THEN [book EXCEPT ![k] = @ \cup {t}] ELSE book

\* await session.set_following(True) of the registered session.
CallFollow(k, c, t) ==
  \E ok \in Outcomes("follow") :
    /\ sess' = IF ok THEN [sess EXCEPT ![threads[t]].following = TRUE] ELSE sess
    /\ task' = [task EXCEPT ![k] =
                  [Awaiting("following", c, t, threads[t]) EXCEPT !.ok = ok]]
    /\ UNCHANGED book

\* A new session is started, followed if asked, and hydrated.  Nothing refers to
\* it before it is registered, so the three awaits are one.
Open(k, c, t, follow) ==
  /\ \E s \in Free :
       /\ sess' = [sess EXCEPT ![s] = [Unused EXCEPT !.state = "opening", !.thread = t,
                                                     !.following = follow]]
       /\ task' = [task EXCEPT ![k] = Awaiting("opening", c, t, s)]
  /\ UNCHANGED book

\* A registered thread is followed if asked, then the command goes on.
Reuse(k, c, t, follow) ==
  /\ threads[t] # NoSession
  /\ IF follow THEN CallFollow(k, c, t) ELSE Arrive(k, c, t, threads[t]) /\ UNCHANGED sess

\* _ensure_thread up to its first await.
Ensure(k, c, t, follow) ==
  \/ Reuse(k, c, t, follow) /\ UNCHANGED lockq
  \/ /\ threads[t] = NoSession /\ lockq = <<>>
     /\ lockq' = <<k>>
     /\ Open(k, c, t, follow)
  \/ /\ threads[t] = NoSession /\ lockq # <<>>
     /\ lockq' = Append(lockq, k)
     /\ task' = [task EXCEPT ![k] =
                   [Awaiting("lock", c, t, NoSession) EXCEPT !.follow = follow]]
     /\ UNCHANGED <<sess, book>>
-----------------------------------------------------------------------------
Ready(k, c) ==
  /\ task[k].pc = "idle"
  /\ c \in Commands \cap (IF k \in Conns THEN WsCommands ELSE HttpCommands)
  /\ k \in Conns => conn[k] = "open"

\* subscribe: the queue joins the hub before the thread is opened.
Subscribe(c, t) ==
  /\ Ready(c, "subscribe") /\ t \in known
  /\ hub' = [hub EXCEPT ![t] = @ \cup {c}]
  /\ told' = [told EXCEPT ![c] = @ \ {t}]
  /\ Ensure(c, "subscribe", t, First("subscribe", t))
  /\ UNCHANGED <<threads, conn, known>>

\* send_prompt, and archive_thread up to its bridge call.
UseThread(k, c, t) ==
  /\ c \in {"prompt", "archive"} /\ Ready(k, c) /\ t \in known
  /\ Ensure(k, c, t, FALSE)
  /\ UNCHANGED <<hub, threads, conn, known, told>>

\* start_thread takes no lock; Codex knows the thread before the call returns.
StartThread(k, t) ==
  /\ Ready(k, "start") /\ t \notin known
  /\ known' = known \cup {t}
  /\ Open(k, "start", t, FALSE)
  /\ UNCHANGED <<hub, threads, lockq, conn, told>>

\* _ensure_thread, the lock acquired: the registry is read again.
LockTurn(k) ==
  /\ task[k].pc = "lock" /\ Head(lockq) = k
  /\ LET c == task[k].cmd  t == task[k].thread  follow == task[k].follow IN
       \/ Reuse(k, c, t, follow) /\ lockq' = IF follow THEN lockq ELSE Release(k)
       \/ threads[t] = NoSession /\ Open(k, c, t, follow) /\ UNCHANGED lockq
  /\ UNCHANGED <<hub, threads, conn, known, told>>

\* A mutated form of Register: it does not look for a registered session.
RegisterBlindly(k, t, s) ==
  /\ threads' = [threads EXCEPT ![t] = s]
  /\ sess' = [sess EXCEPT ![s].state = "live", ![s].watched = TRUE]

\* _register_session: the first session registered for a thread is kept, and its
\* watchers are created.
Register(k, t, s) ==
  IF threads[t] = NoSession
  THEN /\ threads' = [threads EXCEPT ![t] = s]
       /\ sess' = [sess EXCEPT ![s].state = "live", ![s].watched = TRUE]
  ELSE sess' = [sess EXCEPT ![s] = Unused] /\ UNCHANGED threads

\* The new session is hydrated: it is registered and the lock released.
OpenDone(k) ==
  /\ task[k].pc = "opening"
  /\ Register(k, task[k].thread, task[k].sess)
  /\ Arrive(k, task[k].cmd, task[k].thread, threads'[task[k].thread])
  /\ lockq' = Release(k)
  /\ UNCHANGED <<hub, conn, known, told>>

\* session.start() raised, or a later call did and the session was stopped; or
\* that stop raised, as may the one _register_session makes of a late session.
OpenFailed(k) ==
  /\ task[k].pc = "opening"
  /\ \/ "open" \in Faults /\ sess' = [sess EXCEPT ![task[k].sess] = Unused]
     \/ /\ "stop" \in Faults /\ ("open" \in Faults \/ threads[task[k].thread] # NoSession)
        /\ sess' = GivenUp({task[k].sess})
  /\ lockq' = Release(k)
  /\ hub' = AfterRaise(k)
  /\ task' = [task EXCEPT ![k] = Idle]
  /\ UNCHANGED <<threads, conn, book, known, told>>

\* set_following(True) returned or raised.  A delta subscription looks the
\* thread up once more and raises when it has gone: its queue stays in the hub.
FollowDone(k) ==
  /\ task[k].pc = "following"
  /\ lockq' = Release(k)
  /\ \/ task[k].ok /\ hub' = hub /\ Arrive(k, task[k].cmd, task[k].thread, task[k].sess)
     \/ /\ task[k].ok /\ threads[task[k].thread] = NoSession
        /\ task' = [task EXCEPT ![k] = Idle]
        /\ UNCHANGED <<hub, book>>
     \/ /\ ~task[k].ok
        /\ hub' = AfterRaise(k)
        /\ task' = [task EXCEPT ![k] = Idle]
        /\ UNCHANGED book
  /\ UNCHANGED <<threads, sess, conn, known, told>>
-----------------------------------------------------------------------------
\* Only the last subscriber of a registered thread makes a call when it goes.
Silent(c, t) == ~(Last(c, t) /\ threads[t] # NoSession)
HubWithout(c, T) == [t \in Threads |-> IF t \in T THEN hub[t] \ {c} ELSE hub[t]]

\* manager.unsubscribe for each thread of T, up to the first call that awaits.
LeaveThreads(c, cmd, T) ==
  \/ /\ \A t \in T : Silent(c, t)
     /\ hub' = HubWithout(c, T)
     /\ book' = [book EXCEPT ![c] = @ \ T]
     /\ task' = [task EXCEPT ![c] = Idle]
     /\ UNCHANGED sess
  \/ \E t \in T, P \in SUBSET T :
       /\ ~Silent(c, t) /\ \A u \in P : Silent(c, u)
       /\ hub' = HubWithout(c, P \cup {t})
       /\ book' = [book EXCEPT ![c] = @ \ P]
       /\ \E ok \in Outcomes("follow") :
            sess' = IF ok THEN [sess EXCEPT ![threads[t]].following = FALSE] ELSE sess
       /\ task' = [task EXCEPT ![c] = Awaiting("unfollowing", cmd, t, threads[t])]

Unsubscribe(c, t) ==
  /\ Ready(c, "unsubscribe") /\ t \in known
  /\ LeaveThreads(c, "unsubscribe", {t})
  /\ UNCHANGED <<threads, lockq, conn, known, told>>

\* The connection ended: the finally clause of websocket_handler.
Leave(c) ==
  /\ task[c].pc = "idle" /\ conn[c] = "open"
  /\ conn' = [conn EXCEPT ![c] = "closed"]
  /\ LeaveThreads(c, "leave", book[c])
  /\ UNCHANGED <<threads, lockq, known, told>>

\* set_following(False) returned or raised, which unsubscribe only logs.
UnfollowDone(c) ==
  /\ task[c].pc = "unfollowing"
  /\ IF task[c].cmd = "leave" /\ book[c] # {task[c].thread}
     THEN LeaveThreads(c, "leave", book[c] \ {task[c].thread})
     ELSE /\ task' = [task EXCEPT ![c] = Idle]
          /\ book' = [book EXCEPT ![c] = @ \ {task[c].thread}]
          /\ UNCHANGED <<hub, sess>>
  /\ UNCHANGED <<threads, lockq, conn, known, told>>

\* A client connects: a new queue and an empty book.
Reconnect(c) ==
  /\ conn[c] = "closed" /\ task[c].pc = "idle"
  /\ conn' = [conn EXCEPT ![c] = "open"]
  /\ book' = [book EXCEPT ![c] = {}]
  /\ told' = [told EXCEPT ![c] = {}]
  /\ UNCHANGED <<hub, threads, lockq, sess, task, known>>
-----------------------------------------------------------------------------
\* _close_thread stops the session that is registered now.
Closing(k) == threads[task[k].thread]

\* The bridge archived the thread: every subscriber of any thread is told, then
\* the thread is closed: popped, its watchers cancelled, its session stopped.
ArchiveDone(k) ==
  /\ task[k].pc = "archiving"
  /\ told' = [c \in Conns |-> IF c \in UNION {hub[t] : t \in Threads}
                              THEN told[c] \cup {task[k].thread} ELSE told[c]]
  /\ threads' = Popped(task[k].thread)
  /\ IF threads[task[k].thread] = NoSession
     THEN task' = [task EXCEPT ![k] = Idle] /\ UNCHANGED sess
     ELSE /\ sess' = [sess EXCEPT ![Closing(k)].state = "closing", ![Closing(k)].watched = FALSE]
          /\ task' = [task EXCEPT ![k] =
                        Awaiting("closing", "archive", task[k].thread, Closing(k))]
  /\ UNCHANGED <<hub, lockq, conn, book, known>>

ArchiveFailed(k) ==
  /\ task[k].pc = "archiving" /\ "archive" \in Faults
  /\ task' = [task EXCEPT ![k] = Idle]
  /\ UNCHANGED <<hub, threads, lockq, sess, conn, book, known, told>>

\* session.stop() of _close_thread returned, and the subscribers are dropped; or
\* a watcher or the stop raised: they are not, and the session is left.
CloseDone(k) ==
  /\ task[k].pc = "closing"
  /\ \/ sess' = [sess EXCEPT ![task[k].sess] = Unused] /\ hub' = Cleared(task[k].thread)
     \/ "stop" \in Faults /\ sess' = GivenUp({task[k].sess}) /\ hub' = hub
  /\ task' = [task EXCEPT ![k] = Idle]
  /\ UNCHANGED <<threads, lockq, conn, book, known, told>>

\* The next session a restart stops, or the end of the restart.
RestartNext(k, todo, after) ==
  IF todo = {}
  THEN task' = [task EXCEPT ![k] = Idle] /\ sess' = after
  ELSE \E p \in todo :
         /\ task' = [task EXCEPT ![k] = [Awaiting("restarting", "restart", p[1], p[2])
                                           EXCEPT !.todo = todo \ {p}]]
         /\ sess' = [after EXCEPT ![p[2]].state = "closing"]

\* _restart_host_sessions: the registered sessions are listed, and all their
\* watchers cancelled, before the first is stopped.
Restart(k) ==
  /\ Ready(k, "restart")
  /\ LET todo == {<<t, threads[t]>> : t \in {u \in known : threads[u] # NoSession}} IN
       RestartNext(k, todo, [s \in Sessions |->
         IF \E t \in Threads : <<t, s>> \in todo THEN [sess[s] EXCEPT !.watched = FALSE]
         ELSE sess[s]])
  /\ UNCHANGED <<hub, threads, lockq, conn, book, known, told>>

\* One session is stopped: whatever the thread has now is popped.
RestartDone(k) ==
  /\ task[k].pc = "restarting"
  /\ RestartNext(k, task[k].todo, [sess EXCEPT ![task[k].sess] = Unused])
  /\ threads' = Popped(task[k].thread)
  /\ hub' = Cleared(task[k].thread)
  /\ UNCHANGED <<lockq, conn, book, known, told>>

\* A watcher or session.stop() raised: this session, and the rest of the list
\* whose watchers are cancelled, are left as they are and where they are.
RestartFailed(k) ==
  /\ task[k].pc = "restarting" /\ "stop" \in Faults
  /\ sess' = GivenUp({task[k].sess} \cup {p[2] : p \in task[k].todo})
  /\ task' = [task EXCEPT ![k] = Idle]
  /\ UNCHANGED <<hub, threads, lockq, conn, book, known, told>>
-----------------------------------------------------------------------------
\* A task suspended in an await goes on.
Resume(k) ==
  \/ LockTurn(k)
  \/ OpenDone(k)
  \/ OpenFailed(k)
  \/ FollowDone(k)
  \/ k \in Conns /\ UnfollowDone(k)
  \/ ArchiveDone(k)
  \/ ArchiveFailed(k)
  \/ CloseDone(k)
  \/ RestartDone(k)
  \/ RestartFailed(k)

Next ==
  \/ \E c \in Conns, t \in Threads : Subscribe(c, t) \/ Unsubscribe(c, t)
  \/ \E c \in Conns : Leave(c) \/ Reconnect(c)
  \/ \E k \in Tasks, t \in Threads, cmd \in Commands : UseThread(k, cmd, t)
  \/ \E k \in Tasks, t \in Threads : StartThread(k, t)
  \/ \E k \in Tasks : Restart(k) \/ Resume(k)

Spec == Init /\ [][Next]_vars

\* The loop runs every task that is ready, and each call of the bridge returns or raises.
FairSpec == Spec /\ \A k \in Tasks : WF_vars(Resume(k))
-----------------------------------------------------------------------------
\* No command is about thread t, or will be.
Quiet(t) == \A k \in Tasks : task[k].thread # t /\ \A p \in task[k].todo : p[1] # t
Runs(s) == sess[s].state \in {"live", "left"}

\* What is registered for a thread is a session of that thread that runs and
\* whose state reaches the hub, whatever closes, fails or opens meanwhile.
RegisteredIsRunning ==
  \A t \in Threads : threads[t] # NoSession =>
    /\ sess[threads[t]].thread = t
    /\ sess[threads[t]].state = "live"
    /\ sess[threads[t]].watched

\* Every session that runs is registered, or its stop was tried and raised: none
\* is left behind unnoticed, however openings, starts and closings of a thread
\* interleave.
NoSessionLeak ==
  \A s \in Sessions : Runs(s) => sess[s].state = "left" \/ \E t \in Threads : threads[t] = s

\* A thread has one running session: "one CodexIpcSession per active thread".
OneSessionPerThread ==
  \A s1, s2 \in Sessions :
    Runs(s1) /\ Runs(s2) /\ sess[s1].thread = sess[s2].thread => s1 = s2

\* Codex is asked to stream a thread exactly while somebody subscribes to it,
\* once no command about the thread is under way.
FollowingTracksSubscribers ==
  \A t \in Threads : Quiet(t) /\ threads[t] # NoSession =>
    (sess[threads[t]].following <=> hub[t] # {})

\* Subscribers of a thread have a registered session of that thread that runs and
\* whose watchers bring them its states, once no command about the thread is
\* under way; excepted are sessions that a restart which raised has left.
SubscribersAreFed ==
  \A t \in Threads : Quiet(t) /\ hub[t] # {} =>
    /\ threads[t] # NoSession
    /\ sess[threads[t]].thread = t
    /\ Runs(threads[t])
    /\ sess[threads[t]].state = "live" => sess[threads[t]].watched

\* A queue the hub holds is one its connection will take out when it ends.
NoOrphanQueue ==
  \A c \in Conns, t \in Threads : task[c].pc = "idle" /\ c \in hub[t] =>
    conn[c] = "open" /\ t \in book[c]

\* A connection whose subscription was acknowledged stays subscribed until it
\* unsubscribes or is told that the thread was archived.
AckedStaysSubscribed ==
  \A c \in Conns, t \in Threads :
    task[c].pc = "idle" /\ conn[c] = "open" /\ t \in book[c] => c \in hub[t] \/ t \in told[c]

\* Every command ends: the lock is always released, and its waiters take turns.
CommandsEnd == \A k \in Tasks : (task[k].pc # "idle") ~> (task[k].pc = "idle")
=============================================================================
