------------------------ MODULE ThreadSessionsProofs ------------------------
(***************************************************************************)
(* The safety invariants of ThreadSessions, for any number of threads,     *)
(* connections, requests and sessions.  A theorem about one property says  *)
(* in its hypothesis which commands or failures break it; the runs that    *)
(* look for violations show that they do.                                  *)
(***************************************************************************)
EXTENDS ThreadSessions, TLAPS

\* What a task in an await was asked for: a command of this instance, about a
\* thread, that has such an await.
Fits(k, x) ==
  /\ x.pc = "idle" => x.cmd = "none"
  /\ x.pc # "idle" => x.thread \in Threads /\ x.cmd \in Commands \cup {"leave"}
  /\ x.pc \in {"lock", "opening", "following"} =>
       x.cmd \in {"subscribe", "prompt", "archive", "start"}
  /\ x.pc = "unfollowing" => k \in Conns /\ x.cmd \in {"unsubscribe", "leave"}
  /\ x.pc \in {"archiving", "closing"} => x.cmd = "archive"
  /\ x.pc = "restarting" => x.cmd = "restart"
  /\ x.pc \in {"opening", "following", "closing", "restarting"} => x.sess \in Sessions
  /\ x.cmd = "subscribe" => k \in Conns
Awaits == \A k \in Tasks : Fits(k, task[k])

\* What the other invariants rest on.
Base == TypeOK /\ Awaits
-----------------------------------------------------------------------------
(***************************************************************************)
(* The operators the actions are built from.                               *)
(***************************************************************************)
LEMMA Records ==
  /\ Idle \in Task /\ \A k \in Tasks : Fits(k, Idle)
  /\ Unused \in Session
BY DEF Idle, Task, Fits, Unused, Session

LEMMA Unwatched ==
  ASSUME NEW s \in Session
  PROVE  [s EXCEPT !.watched = FALSE] \in Session
BY DEF Session

LEMMA FollowingSet ==
  ASSUME NEW m \in [Sessions -> Session], NEW s \in Sessions, NEW b \in BOOLEAN
  PROVE  [m EXCEPT ![s].following = b] \in [Sessions -> Session]
<1>1. PICK x : x = [m[s] EXCEPT !.following = b]
  OBVIOUS
<1>2. m[s] \in Session
  OBVIOUS
<1>3. x \in Session
  BY <1>1, <1>2 DEF Session
<1>4. [m EXCEPT ![s].following = b] = [m EXCEPT ![s] = x]
  BY <1>1
<1> QED
  BY <1>3, <1>4

\* What a call about following leaves of the sessions.
LEMMA FollowingTypes ==
  ASSUME TypeOK, NEW s \in Sessions, NEW b \in BOOLEAN, NEW ok \in BOOLEAN,
         sess' = IF ok THEN [sess EXCEPT ![s].following = b] ELSE sess
  PROVE  sess' \in [Sessions -> Session]
<1>1. sess \in [Sessions -> Session]
  BY DEF TypeOK
<1>2. [sess EXCEPT ![s].following = b] \in [Sessions -> Session]
  BY <1>1, FollowingSet
<1> QED
  BY <1>1, <1>2

LEMMA TaskMoves ==
  ASSUME Base, NEW k \in Tasks, NEW x \in Task, Fits(k, x), task' = [task EXCEPT ![k] = x]
  PROVE  task' \in [Tasks -> Task] /\ Awaits'
BY DEF Base, TypeOK, Awaits, Fits

LEMMA RegisteredSession ==
  ASSUME NEW before \in [Sessions -> Session], NEW s \in Sessions, NEW after,
         after = [before EXCEPT ![s].state = "live", ![s].watched = TRUE]
  PROVE  /\ after \in [Sessions -> Session]
         /\ \A u \in Sessions \ {s} : after[u] = before[u]
         /\ after[s].state = "live" /\ after[s].watched = TRUE
         /\ after[s].thread = before[s].thread /\ after[s].following = before[s].following
<1> DEFINE new == [[before[s] EXCEPT !.state = "live"] EXCEPT !.watched = TRUE]
<1>1. /\ new \in Session /\ new.state = "live" /\ new.watched = TRUE
      /\ new.thread = before[s].thread /\ new.following = before[s].following
  BY DEF Session
<1>2. after = [before EXCEPT ![s] = new]
  OBVIOUS
<1> HIDE DEF new
<1> QED
  BY <1>1, <1>2

LEMMA ClosingSession ==
  ASSUME NEW before \in [Sessions -> Session], NEW s \in Sessions, NEW after,
         after = [before EXCEPT ![s].state = "closing"]
  PROVE  /\ after \in [Sessions -> Session]
         /\ \A u \in Sessions \ {s} : after[u] = before[u]
         /\ after[s].state = "closing" /\ after[s].thread = before[s].thread
<1> DEFINE new == [before[s] EXCEPT !.state = "closing"]
<1>1. new \in Session /\ new.state = "closing" /\ new.thread = before[s].thread
  BY DEF Session
<1>2. after = [before EXCEPT ![s] = new]
  OBVIOUS
<1> HIDE DEF new
<1> QED
  BY <1>1, <1>2

LEMMA ClosedSession ==
  ASSUME NEW before \in [Sessions -> Session], NEW s \in Sessions, NEW after,
         after = [before EXCEPT ![s].state = "closing", ![s].watched = FALSE]
  PROVE  /\ after \in [Sessions -> Session]
         /\ \A u \in Sessions \ {s} : after[u] = before[u]
         /\ after[s].state = "closing" /\ after[s].thread = before[s].thread
<1> DEFINE new == [[before[s] EXCEPT !.state = "closing"] EXCEPT !.watched = FALSE]
<1>1. new \in Session /\ new.state = "closing" /\ new.thread = before[s].thread
  BY DEF Session
<1>2. after = [before EXCEPT ![s] = new]
  OBVIOUS
<1> HIDE DEF new
<1> QED
  BY <1>1, <1>2

\* A session that is given up keeps its thread; the others stay as they are.
LEMMA GivenUpSessions ==
  ASSUME sess \in [Sessions -> Session], NEW S
  PROVE  /\ GivenUp(S) \in [Sessions -> Session]
         /\ \A u \in Sessions : u \notin S => GivenUp(S)[u] = sess[u]
         /\ \A u \in Sessions : GivenUp(S)[u].thread = sess[u].thread
         /\ \A u \in Sessions : u \in S => GivenUp(S)[u].state = "left"
<1> DEFINE new(u) == [[sess[u] EXCEPT !.state = "left"] EXCEPT !.watched = FALSE]
<1>1. \A u \in Sessions :
        new(u) \in Session /\ new(u).state = "left" /\ new(u).thread = sess[u].thread
  BY DEF Session
<1>2. GivenUp(S) = [u \in Sessions |-> IF u \in S THEN new(u) ELSE sess[u]]
  BY DEF GivenUp
<1> HIDE DEF new
<1> QED
  BY <1>1, <1>2

LEMMA ReleaseType ==
  ASSUME TypeOK, NEW k PROVE Release(k) \in Seq(Tasks)
BY DEF Release, TypeOK

\* What an operation of task k leaves well typed.
Typed(k) ==
  /\ sess' \in [Sessions -> Session]
  /\ book' \in [Conns -> SUBSET Threads]
  /\ \E x \in Task : Fits(k, x) /\ task' = [task EXCEPT ![k] = x]

UsesSession == {"subscribe", "prompt", "archive", "start"}

LEMMA ArriveTypes ==
  ASSUME Base, NEW k \in Tasks, NEW c \in UsesSession, c \in Commands, NEW t \in Threads,
         NEW s \in Sessions \cup {NoSession}, Arrive(k, c, t, s), 
         sess' \in [Sessions -> Session]
  PROVE  Typed(k)
<1>1. Commands \subseteq AllCommands /\ c \in AllCommands
  BY CommandAssumption DEF UsesSession, AllCommands, WsCommands, HttpCommands
<1>2. book' \in [Conns -> SUBSET Threads]
  BY DEF Arrive, Base, TypeOK
<1>3. CASE c = "archive"
  <2>1. Awaiting("archiving", c, t, s) \in Task /\ Fits(k, Awaiting("archiving", c, t, s))
    BY <1>1, <1>3 DEF Awaiting, Idle, Task, Fits
  <2> QED
    BY <2>1, <1>2, <1>3 DEF Arrive, Typed
<1>4. CASE c # "archive"
  BY <1>2, <1>4, Records DEF Arrive, Typed
<1> QED
  BY <1>3, <1>4

LEMMA FollowTypes ==
  ASSUME Base, NEW k \in Tasks, NEW c \in UsesSession, c \in Commands, NEW t \in Threads,
         c = "subscribe" => k \in Conns, threads[t] # NoSession, CallFollow(k, c, t)
  PROVE  Typed(k)
<1>1. Commands \subseteq AllCommands /\ c \in AllCommands
  BY CommandAssumption DEF UsesSession, AllCommands, WsCommands, HttpCommands
<1>2. threads[t] \in Sessions
  BY DEF Base, TypeOK
<1>3. PICK ok \in Outcomes("follow") :
        /\ sess' = IF ok THEN [sess EXCEPT ![threads[t]].following = TRUE] ELSE sess
        /\ task' = [task EXCEPT ![k] =
                      [Awaiting("following", c, t, threads[t]) EXCEPT !.ok = ok]]
  BY DEF CallFollow
<1>4. ok \in BOOLEAN
  BY DEF Outcomes
<1>5. sess' \in [Sessions -> Session]
  BY <1>2, <1>3, <1>4, FollowingTypes DEF Base
<1> DEFINE x == [Awaiting("following", c, t, threads[t]) EXCEPT !.ok = ok]
<1>6. x \in Task /\ x.pc = "following" /\ x.cmd = c /\ x.thread = t /\ x.sess = threads[t]
  BY <1>1, <1>2, <1>4 DEF Awaiting, Idle, Task
<1>7. Fits(k, x)
  BY <1>1, <1>2, <1>6 DEF Fits, UsesSession
<1> QED
  BY <1>3, <1>5, <1>6, <1>7 DEF CallFollow, Typed, Base, TypeOK

LEMMA OpenTypes ==
  ASSUME Base, NEW k \in Tasks, NEW c \in UsesSession, c \in Commands, NEW t \in Threads,
         c = "subscribe" => k \in Conns, NEW follow \in BOOLEAN, Open(k, c, t, follow)
  PROVE  Typed(k)
<1>1. Commands \subseteq AllCommands /\ c \in AllCommands
  BY CommandAssumption DEF UsesSession, AllCommands, WsCommands, HttpCommands
<1>2. PICK s \in Free :
        /\ sess' = [sess EXCEPT ![s] = [Unused EXCEPT !.state = "opening", !.thread = t,
                                                      !.following = follow]]
        /\ task' = [task EXCEPT ![k] = Awaiting("opening", c, t, s)]
  BY DEF Open
<1>3. s \in Sessions
  BY DEF Free
<1>4. sess' \in [Sessions -> Session]
  BY <1>2, <1>3 DEF Base, TypeOK, Session, Unused
<1>5. Awaiting("opening", c, t, s) \in Task /\ Fits(k, Awaiting("opening", c, t, s))
  BY <1>1, <1>3 DEF Awaiting, Idle, Task, Fits, UsesSession
<1> QED
  BY <1>2, <1>4, <1>5 DEF Open, Typed, Base, TypeOK

LEMMA ReuseTypes ==
  ASSUME Base, NEW k \in Tasks, NEW c \in UsesSession, c \in Commands, NEW t \in Threads,
         c = "subscribe" => k \in Conns, NEW follow \in BOOLEAN, Reuse(k, c, t, follow)
  PROVE  Typed(k)
<1>1. CASE follow
  BY <1>1, FollowTypes DEF Reuse
<1>2. CASE ~follow
  BY <1>2, ArriveTypes DEF Reuse, Base, TypeOK
<1> QED
  BY <1>1, <1>2

LEMMA EnsureTypes ==
  ASSUME Base, NEW k \in Tasks, NEW c \in UsesSession, c \in Commands, NEW t \in Threads,
         c = "subscribe" => k \in Conns, NEW follow \in BOOLEAN, Ensure(k, c, t, follow)
  PROVE  Typed(k) /\ lockq' \in Seq(Tasks)
<1>1. CASE Reuse(k, c, t, follow) /\ UNCHANGED lockq
  BY <1>1, ReuseTypes DEF Base, TypeOK
<1>2. CASE lockq' = <<k>> /\ Open(k, c, t, follow)
  BY <1>2, OpenTypes
<1>3. CASE /\ lockq' = Append(lockq, k)
           /\ task' = [task EXCEPT ![k] =
                         [Awaiting("lock", c, t, NoSession) EXCEPT !.follow = follow]]
           /\ UNCHANGED <<sess, book>>
  <2>1. Commands \subseteq AllCommands /\ c \in AllCommands
    BY CommandAssumption DEF UsesSession, AllCommands, WsCommands, HttpCommands
  <2> DEFINE x == [Awaiting("lock", c, t, NoSession) EXCEPT !.follow = follow]
  <2>2. x \in Task /\ x.pc = "lock" /\ x.cmd = c /\ x.thread = t
    BY <2>1 DEF Awaiting, Idle, Task
  <2>3. x \in Task /\ Fits(k, x)
    BY <2>1, <2>2 DEF Fits, UsesSession
  <2>4. lockq' \in Seq(Tasks)
    BY <1>3 DEF Base, TypeOK
  <2> QED
    BY <1>3, <2>3, <2>4 DEF Typed, Base, TypeOK
<1> QED
  BY <1>1, <1>2, <1>3 DEF Ensure

LEMMA LeaveTypes ==
  ASSUME Base, NEW c \in Conns, NEW cmd \in {"unsubscribe", "leave"},
         cmd \in Commands \cup {"leave"}, NEW T \in SUBSET Threads, LeaveThreads(c, cmd, T)
  PROVE  Typed(c) /\ hub' \in [Threads -> SUBSET Conns]
<1>1. cmd \in AllCommands /\ c \in Tasks
  BY DEF AllCommands, WsCommands, Tasks
<1>2. \A P \in SUBSET Threads : HubWithout(c, P) \in [Threads -> SUBSET Conns]
  BY DEF HubWithout, Base, TypeOK
<1>3. CASE /\ hub' = HubWithout(c, T) /\ book' = [book EXCEPT ![c] = @ \ T]
           /\ task' = [task EXCEPT ![c] = Idle] /\ UNCHANGED sess
  <2>1. book' \in [Conns -> SUBSET Threads]
    BY <1>3 DEF Base, TypeOK
  <2> QED
    BY <1>1, <1>2, <1>3, <2>1, Records DEF Typed, Base, TypeOK
<1>4. ASSUME NEW t \in T, NEW P \in SUBSET T, NEW ok \in BOOLEAN, ~Silent(c, t),
             hub' = HubWithout(c, P \cup {t}), book' = [book EXCEPT ![c] = @ \ P],
             sess' = IF ok THEN [sess EXCEPT ![threads[t]].following = FALSE] ELSE sess,
             task' = [task EXCEPT ![c] = Awaiting("unfollowing", cmd, t, threads[t])]
      PROVE  Typed(c) /\ hub' \in [Threads -> SUBSET Conns]
  <2>1. t \in Threads /\ P \cup {t} \in SUBSET Threads
    OBVIOUS
  <2>2. threads[t] \in Sessions
    BY <1>4, <2>1 DEF Silent, Base, TypeOK
  <2>3. sess' \in [Sessions -> Session]
    BY <1>4, <2>2, FollowingTypes DEF Base
  <2>4. book' \in [Conns -> SUBSET Threads]
    BY <1>4 DEF Base, TypeOK
  <2>5. /\ Awaiting("unfollowing", cmd, t, threads[t]) \in Task
        /\ Fits(c, Awaiting("unfollowing", cmd, t, threads[t]))
    BY <1>1, <2>1, <2>2 DEF Awaiting, Idle, Task, Fits
  <2> QED
    BY <1>2, <1>4, <2>1, <2>3, <2>4, <2>5 DEF Typed
<1>5. \A ok \in Outcomes("follow") : ok \in BOOLEAN
  BY DEF Outcomes
<1> QED
  BY <1>3, <1>4, <1>5 DEF LeaveThreads
-----------------------------------------------------------------------------
(***************************************************************************)
(* Every variable keeps its type, and every task its await.                *)
(***************************************************************************)
LEMMA TypedStep ==
  ASSUME Base, NEW k \in Tasks, Typed(k)
  PROVE  /\ sess' \in [Sessions -> Session] /\ book' \in [Conns -> SUBSET Threads]
         /\ task' \in [Tasks -> Task] /\ Awaits'
BY TaskMoves DEF Typed

LEMMA ReadyCommand ==
  ASSUME NEW k \in Tasks, NEW c, Ready(k, c)
  PROVE  c \in Commands /\ task[k].pc = "idle" /\ (k \in Conns => conn[k] = "open")
BY DEF Ready

LEMMA RestartTypes ==
  ASSUME Base, NEW k \in Tasks, NEW todo \in SUBSET (Threads \X Sessions),
         NEW after \in [Sessions -> Session], "restart" \in Commands,
         RestartNext(k, todo, after), UNCHANGED book
  PROVE  Typed(k)
<1>1. CASE todo = {}
  BY <1>1, Records DEF RestartNext, Typed, Base, TypeOK
<1>2. CASE todo # {}
  <2>1. PICK p \in todo :
          /\ task' = [task EXCEPT ![k] = [Awaiting("restarting", "restart", p[1], p[2])
                                           EXCEPT !.todo = todo \ {p}]]
          /\ sess' = [after EXCEPT ![p[2]].state = "closing"]
    BY <1>2 DEF RestartNext
  <2>2. p[1] \in Threads /\ p[2] \in Sessions
    OBVIOUS
  <2> DEFINE x == [Awaiting("restarting", "restart", p[1], p[2]) EXCEPT !.todo = todo \ {p}]
  <2>3. x \in Task /\ Fits(k, x)
    BY <2>2 DEF Awaiting, Idle, Task, Fits, AllCommands, HttpCommands
  <2>4. sess' \in [Sessions -> Session]
    BY <2>1, <2>2, ClosingSession
  <2> QED
    BY <2>1, <2>3, <2>4 DEF Typed, Base, TypeOK
<1> QED
  BY <1>1, <1>2

LEMMA BaseStep == Base /\ [Next]_vars => Base'
<1> SUFFICES ASSUME Base, [Next]_vars PROVE Base'
  OBVIOUS
<1> USE DEF Tasks
<1>1. ASSUME NEW c \in Conns, NEW t \in Threads, Subscribe(c, t) PROVE Base'
  <2>1. Typed(c) /\ lockq' \in Seq(Tasks)
    BY <1>1, ReadyCommand, EnsureTypes DEF Subscribe, First, UsesSession
  <2>2. hub' \in [Threads -> SUBSET Conns] /\ told' \in [Conns -> SUBSET Threads]
    BY <1>1 DEF Subscribe, Base, TypeOK
  <2> QED
    BY <1>1, <2>1, <2>2, TypedStep DEF Subscribe, Base, TypeOK
<1>2. ASSUME NEW c \in Conns, NEW t \in Threads, Unsubscribe(c, t) PROVE Base'
  <2>1. Typed(c) /\ hub' \in [Threads -> SUBSET Conns]
    BY <1>2, ReadyCommand, LeaveTypes DEF Unsubscribe
  <2> QED
    BY <1>2, <2>1, TypedStep DEF Unsubscribe, Base, TypeOK
<1>3. ASSUME NEW c \in Conns, Leave(c) PROVE Base'
  <2>1. book[c] \in SUBSET Threads
    BY DEF Base, TypeOK
  <2>2. Typed(c) /\ hub' \in [Threads -> SUBSET Conns]
    BY <1>3, <2>1, LeaveTypes DEF Leave
  <2> QED
    BY <1>3, <2>2, TypedStep DEF Leave, Base, TypeOK
<1>4. ASSUME NEW c \in Conns, Reconnect(c) PROVE Base'
  BY <1>4 DEF Reconnect, Base, TypeOK, Awaits, Fits
<1>5. ASSUME NEW k \in Tasks, NEW t \in Threads, NEW c \in Commands, UseThread(k, c, t)
      PROVE  Base'
  <2>1. Typed(k) /\ lockq' \in Seq(Tasks)
    BY <1>5, EnsureTypes DEF UseThread, UsesSession
  <2> QED
    BY <1>5, <2>1, TypedStep DEF UseThread, Base, TypeOK
<1>6. ASSUME NEW k \in Tasks, NEW t \in Threads, StartThread(k, t) PROVE Base'
  <2>1. Typed(k)
    BY <1>6, ReadyCommand, OpenTypes DEF StartThread, UsesSession
  <2> QED
    BY <1>6, <2>1, TypedStep DEF StartThread, Base, TypeOK
<1>7. ASSUME NEW k \in Tasks, Restart(k) PROVE Base'
  <2> DEFINE todo == {<<t, threads[t]>> : t \in {u \in known : threads[u] # NoSession}}
             after == [s \in Sessions |->
                         IF \E t \in Threads : <<t, s>> \in todo
                         THEN [sess[s] EXCEPT !.watched = FALSE] ELSE sess[s]]
  <2>1. RestartNext(k, todo, after) /\ "restart" \in Commands
    BY <1>7, ReadyCommand DEF Restart
  <2>2. todo \in SUBSET (Threads \X Sessions)
    BY DEF Base, TypeOK
  <2>3. after \in [Sessions -> Session]
    <3>1. \A s \in Sessions :
            sess[s] \in Session /\ [sess[s] EXCEPT !.watched = FALSE] \in Session
      BY Unwatched DEF Base, TypeOK
    <3> QED
      BY <3>1
  <2> HIDE DEF todo, after
  <2>4. Typed(k)
    BY <1>7, <2>1, <2>2, <2>3, RestartTypes DEF Restart
  <2> QED
    BY <1>7, <2>4, TypedStep DEF Restart, Base, TypeOK
<1>8. ASSUME NEW k \in Tasks, Resume(k) PROVE Base'
  <2> USE <1>8
  <2>0. /\ task[k] \in Task
        /\ task[k].pc # "idle" => task[k].thread \in Threads
        /\ Commands \subseteq AllCommands
    BY CommandAssumption DEF Base, TypeOK, Awaits, Fits
  <2>1. CASE LockTurn(k)
    <3>1. task[k].cmd \in UsesSession /\ task[k].cmd \in Commands /\ task[k].follow \in BOOLEAN
          /\ (task[k].cmd = "subscribe" => k \in Conns) /\ task[k].thread \in Threads
      BY <2>0, <2>1 DEF LockTurn, Base, Awaits, Fits, UsesSession, Task
    <3>2. Typed(k)
      BY <2>1, <3>1, ReuseTypes, OpenTypes DEF LockTurn
    <3> QED
      BY <2>1, <3>2, TypedStep, ReleaseType DEF LockTurn, Base, TypeOK
  <2>2. CASE OpenDone(k)
    <3>1. /\ task[k].cmd \in UsesSession /\ task[k].cmd \in Commands
          /\ task[k].thread \in Threads /\ task[k].sess \in Sessions
      BY <2>0, <2>2 DEF OpenDone, Base, Awaits, Fits, UsesSession, Task
    <3>2. threads' \in [Threads -> Sessions \cup {NoSession}] /\ sess' \in [Sessions -> Session]
      <4>1. CASE threads[task[k].thread] = NoSession
        <5>1. sess' = [sess EXCEPT ![task[k].sess].state = "live",
                                   ![task[k].sess].watched = TRUE]
          BY <2>2, <4>1 DEF OpenDone, Register
        <5>2. sess' \in [Sessions -> Session]
          BY <5>1, <3>1, RegisteredSession DEF Base, TypeOK
        <5> QED
          BY <2>2, <3>1, <4>1, <5>2 DEF OpenDone, Register, Base, TypeOK
      <4>2. CASE threads[task[k].thread] # NoSession
        BY <2>2, <4>2, Records DEF OpenDone, Register, Base, TypeOK
      <4> QED
        BY <4>1, <4>2
    <3>3. threads'[task[k].thread] \in Sessions \cup {NoSession}
      BY <3>1, <3>2
    <3>4. Typed(k)
      BY <2>2, <3>1, <3>2, <3>3, ArriveTypes DEF OpenDone
    <3> QED
      BY <2>2, <3>2, <3>4, TypedStep, ReleaseType DEF OpenDone, Base, TypeOK
  <2>3. CASE OpenFailed(k)
    <3>0. /\ GivenUp({task[k].sess}) \in [Sessions -> Session]
          /\ [sess EXCEPT ![task[k].sess] = Unused] \in [Sessions -> Session]
      BY Records, GivenUpSessions DEF Base, TypeOK
    <3>1. hub' \in [Threads -> SUBSET Conns] /\ sess' \in [Sessions -> Session]
      BY <2>3, <3>0 DEF OpenFailed, AfterRaise, Base, TypeOK
    <3>2. task' \in [Tasks -> Task] /\ Awaits'
      BY <2>3, Records, TaskMoves DEF OpenFailed
    <3> QED
      BY <2>3, <3>1, <3>2, ReleaseType DEF OpenFailed, Base, TypeOK
  <2>4. CASE FollowDone(k)
    <3>1. hub' \in [Threads -> SUBSET Conns] /\ sess' \in [Sessions -> Session]
      BY <2>4, Records DEF FollowDone, AfterRaise, Base, TypeOK
    <3>2. /\ task[k].cmd \in UsesSession /\ task[k].cmd \in Commands
          /\ task[k].thread \in Threads /\ task[k].sess \in Sessions
      BY <2>0, <2>4 DEF FollowDone, Base, Awaits, Fits, UsesSession, Task
    <3>3. Typed(k)
      <4>1. CASE Arrive(k, task[k].cmd, task[k].thread, task[k].sess)
        BY <3>1, <3>2, <4>1, ArriveTypes
      <4>2. CASE task' = [task EXCEPT ![k] = Idle] /\ UNCHANGED book
        BY <3>1, <4>2, Records DEF Typed, Base, TypeOK
      <4> QED
        BY <2>4, <4>1, <4>2 DEF FollowDone
    <3> QED
      BY <2>4, <3>1, <3>3, TypedStep, ReleaseType DEF FollowDone, Base, TypeOK
  <2>5. CASE k \in Conns /\ UnfollowDone(k)
    <3>1. task[k].cmd \in Commands \cup {"leave"} /\ task[k].thread \in Threads
      BY <2>5 DEF UnfollowDone, Base, Awaits, Fits
    <3>2. Typed(k) /\ hub' \in [Threads -> SUBSET Conns]
      <4>1. CASE LeaveThreads(k, "leave", book[k] \ {task[k].thread})
        <5>1. book[k] \ {task[k].thread} \in SUBSET Threads
          BY <2>5 DEF Base, TypeOK
        <5> QED
          BY <2>5, <4>1, <5>1, LeaveTypes
      <4>2. CASE /\ task' = [task EXCEPT ![k] = Idle]
                 /\ book' = [book EXCEPT ![k] = @ \ {task[k].thread}]
                 /\ UNCHANGED <<hub, sess>>
        <5>1. book' \in [Conns -> SUBSET Threads]
          BY <4>2 DEF Base, TypeOK
        <5> QED
          BY <4>2, <5>1, Records DEF Typed, Base, TypeOK
      <4> QED
        BY <2>5, <4>1, <4>2 DEF UnfollowDone
    <3> QED
      BY <2>5, <3>2, TypedStep DEF UnfollowDone, Base, TypeOK
  <2>6. CASE ArchiveDone(k)
    <3>1. told' \in [Conns -> SUBSET Threads] /\ threads' \in [Threads -> Sessions \cup {NoSession}]
      BY <2>0, <2>6 DEF ArchiveDone, Popped, Base, TypeOK
    <3>2. task[k].cmd = "archive" /\ "archive" \in Commands /\ task[k].thread \in Threads
      BY <2>6 DEF ArchiveDone, Base, Awaits, Fits
    <3>3. Typed(k)
      <4>1. CASE threads[task[k].thread] = NoSession
        BY <2>6, <4>1, Records DEF ArchiveDone, Typed, Base, TypeOK
      <4>2. CASE threads[task[k].thread] # NoSession
        <5> DEFINE x == Awaiting("closing", "archive", task[k].thread, Closing(k))
        <5>1. Closing(k) \in Sessions
          BY <3>2, <4>2 DEF Closing, Base, TypeOK
        <5>2. x \in Task /\ Fits(k, x)
          BY <3>2, <5>1 DEF Awaiting, Idle, Task, Fits, AllCommands, WsCommands
        <5>3. sess' \in [Sessions -> Session]
          <6>1. sess' = [sess EXCEPT ![Closing(k)].state = "closing",
                                     ![Closing(k)].watched = FALSE]
            BY <2>6, <4>2 DEF ArchiveDone
          <6>2. sess \in [Sessions -> Session]
            BY DEF Base, TypeOK
          <6>3. PICK s \in Sessions : s = Closing(k)
            BY <5>1
          <6>4. [sess EXCEPT ![s].state = "closing", ![s].watched = FALSE]
                  \in [Sessions -> Session]
            BY <6>2, ClosedSession
          <6> QED
            BY <6>1, <6>3, <6>4
        <5> QED
          BY <2>6, <4>2, <5>2, <5>3 DEF ArchiveDone, Typed, Base, TypeOK
      <4> QED
        BY <4>1, <4>2
    <3> QED
      BY <2>6, <3>1, <3>3, TypedStep DEF ArchiveDone, Base, TypeOK
  <2>7. CASE ArchiveFailed(k)
    BY <2>7, Records, TaskMoves DEF ArchiveFailed, Base, TypeOK
  <2>8. CASE CloseDone(k)
    <3>0. /\ GivenUp({task[k].sess}) \in [Sessions -> Session]
          /\ [sess EXCEPT ![task[k].sess] = Unused] \in [Sessions -> Session]
      BY Records, GivenUpSessions DEF Base, TypeOK
    <3>1. hub' \in [Threads -> SUBSET Conns] /\ sess' \in [Sessions -> Session]
      BY <2>8, <3>0 DEF CloseDone, Cleared, Base, TypeOK
    <3>2. task' \in [Tasks -> Task] /\ Awaits'
      BY <2>8, Records, TaskMoves DEF CloseDone
    <3> QED
      BY <2>8, <3>1, <3>2 DEF CloseDone, Base, TypeOK
  <2>9. CASE RestartDone(k)
    <3>1. /\ hub' \in [Threads -> SUBSET Conns]
          /\ threads' \in [Threads -> Sessions \cup {NoSession}]
      BY <2>9 DEF RestartDone, Cleared, Popped, Base, TypeOK
    <3>2. "restart" \in Commands
      BY <2>9 DEF RestartDone, Base, Awaits, Fits
    <3>3. [sess EXCEPT ![task[k].sess] = Unused] \in [Sessions -> Session]
      BY Records DEF Base, TypeOK
    <3>4. task[k].todo \in SUBSET (Threads \X Sessions)
      BY <2>0 DEF Task
    <3>5. Typed(k)
      BY <2>9, <3>2, <3>3, <3>4, RestartTypes DEF RestartDone
    <3> QED
      BY <2>9, <3>1, <3>5, TypedStep DEF RestartDone, Base, TypeOK
  <2>10. CASE RestartFailed(k)
    <3>1. sess' \in [Sessions -> Session]
      BY <2>10, GivenUpSessions DEF RestartFailed, Base, TypeOK
    <3> QED
      BY <2>10, <3>1, Records, TaskMoves DEF RestartFailed, Base, TypeOK
  <2> QED
    BY <2>1, <2>2, <2>3, <2>4, <2>5, <2>6, <2>7, <2>8, <2>9, <2>10 DEF Resume
<1>9. CASE UNCHANGED vars
  BY <1>9 DEF vars, Base, TypeOK, Awaits, Fits
<1> QED
  BY <1>1, <1>2, <1>3, <1>4, <1>5, <1>6, <1>7, <1>8, <1>9 DEF Next

LEMMA InitBase == Init => Base
BY Records, ThreadAssumption DEF Init, Base, TypeOK, Awaits, Fits

LEMMA BaseInvariant == Spec => []Base
BY InitBase, BaseStep, PTL DEF Spec

\* Every variable keeps its type, whatever commands are run and whatever calls
\* of the bridge raise.
THEOREM TypeInvariant == Spec => []TypeOK
<1>1. Base => TypeOK
  BY DEF Base
<1> QED
  BY <1>1, BaseInvariant, PTL
-----------------------------------------------------------------------------
(***************************************************************************)
(* The lock.                                                               *)
(***************************************************************************)

\* The lock is held by a task that opens or follows a session or is about to run;
\* the others of its queue wait for it, each in one place, and no task waits that
\* is not in the queue.
LockIsHeld ==
  /\ \A i, j \in 1 .. Len(lockq) : lockq[i] = lockq[j] => i = j
  /\ \A i \in 1 .. Len(lockq) :
       task[lockq[i]].pc = "lock" \/ (i = 1 /\ task[lockq[i]].pc \in {"opening", "following"})
  /\ \A k \in Tasks : task[k].pc = "lock" => \E i \in 1 .. Len(lockq) : lockq[i] = k

OthersStay(k) == \A l \in Tasks \ {k} : task'[l] = task[l]

LEMMA HeadIsFirst ==
  ASSUME Base PROVE /\ Len(lockq) \in Nat
                    /\ \A i \in 1 .. Len(lockq) : lockq[i] \in Tasks
                    /\ lockq # <<>> <=> Len(lockq) >= 1
                    /\ lockq # <<>> => Head(lockq) = lockq[1]
BY DEF Base, TypeOK

LEMMA TurnIsHolders ==
  ASSUME Base, LockIsHeld, NEW k \in Tasks, LockTurn(k)
  PROVE  lockq # <<>> /\ lockq[1] = k
BY HeadIsFirst DEF LockTurn, LockIsHeld

\* A task that is not of the queue.
LEMMA LockIsElsewhere ==
  ASSUME Base, LockIsHeld, NEW k \in Tasks, OthersStay(k), UNCHANGED lockq,
         task[k].pc \notin {"lock", "opening", "following"}, task'[k].pc # "lock"
  PROVE  LockIsHeld'
<1>1. \A i \in 1 .. Len(lockq) : lockq[i] \in Tasks \ {k}
  BY HeadIsFirst DEF LockIsHeld
<1> QED
  BY <1>1 DEF LockIsHeld, OthersStay

LEMMA LockIsTaken ==
  ASSUME Base, LockIsHeld, NEW k \in Tasks, OthersStay(k), lockq = <<>>, lockq' = <<k>>,
         task[k].pc = "idle", task'[k].pc = "opening"
  PROVE  LockIsHeld'
<1>1. Len(lockq') = 1 /\ lockq'[1] = k
  OBVIOUS
<1>2. \A l \in Tasks : task[l].pc # "lock"
  BY HeadIsFirst DEF LockIsHeld
<1>3. \A l \in Tasks : task'[l].pc # "lock"
  BY <1>2 DEF OthersStay
<1> QED
  BY <1>1, <1>3 DEF LockIsHeld

LEMMA LockIsJoined ==
  ASSUME Base, LockIsHeld, NEW k \in Tasks, OthersStay(k), lockq # <<>>,
         lockq' = Append(lockq, k), task[k].pc = "idle", task'[k].pc = "lock"
  PROVE  LockIsHeld'
<1> DEFINE n == Len(lockq)
<1>1. /\ Len(lockq') = n + 1 /\ lockq'[n + 1] = k
      /\ \A i \in 1 .. n : lockq'[i] = lockq[i]
  BY DEF Base, TypeOK
<1>2. n \in Nat /\ n >= 1 /\ \A i \in 1 .. n : lockq[i] \in Tasks \ {k}
  BY HeadIsFirst DEF LockIsHeld
<1> HIDE DEF n
<1>3. \A i \in 1 .. n + 1 : i \in 1 .. n \/ i = n + 1
  BY <1>2
<1>4. \A i, j \in 1 .. n + 1 : lockq'[i] = lockq'[j] => i = j
  BY <1>1, <1>2, <1>3 DEF LockIsHeld, n
<1>5. \A i \in 1 .. n + 1 : task'[lockq'[i]].pc = "lock"
                           \/ (i = 1 /\ task'[lockq'[i]].pc \in {"opening", "following"})
  BY <1>1, <1>2, <1>3 DEF LockIsHeld, OthersStay, n
<1>6. \A l \in Tasks : task'[l].pc = "lock" => \E i \in 1 .. n + 1 : lockq'[i] = l
  <2> SUFFICES ASSUME NEW l \in Tasks, task'[l].pc = "lock"
               PROVE  \E i \in 1 .. n + 1 : lockq'[i] = l
    OBVIOUS
  <2>1. CASE l = k
    BY <1>1, <1>2, <2>1
  <2>2. CASE l # k
    <3>1. PICK i \in 1 .. n : lockq[i] = l
      BY <2>2 DEF LockIsHeld, OthersStay, n
    <3> QED
      BY <1>1, <1>2, <3>1
  <2> QED
    BY <2>1, <2>2
<1> QED
  BY <1>1, <1>4, <1>5, <1>6 DEF LockIsHeld

\* The holder goes on without leaving the lock.
LEMMA LockIsKept ==
  ASSUME Base, LockIsHeld, NEW k \in Tasks, OthersStay(k), UNCHANGED lockq, lockq # <<>>,
         lockq[1] = k, task'[k].pc \in {"opening", "following"}
  PROVE  LockIsHeld'
<1>1. \A i \in 1 .. Len(lockq) : i # 1 => lockq[i] \in Tasks \ {k}
  BY HeadIsFirst DEF LockIsHeld
<1> QED
  BY <1>1 DEF LockIsHeld, OthersStay

LEMMA LockIsReleased ==
  ASSUME Base, LockIsHeld, NEW k \in Tasks, OthersStay(k), lockq' = Release(k),
         task'[k].pc # "lock", task[k].pc # "lock" \/ Head(lockq) = k,
         task[k].pc \in {"lock", "opening", "following"}
  PROVE  LockIsHeld'
<1> DEFINE n == Len(lockq)
<1>1. n \in Nat /\ \A i \in 1 .. n : lockq[i] \in Tasks
  BY HeadIsFirst
<1>2. CASE lockq # <<>> /\ Head(lockq) = k
  <2>1. lockq' = Tail(lockq) /\ n >= 1 /\ lockq[1] = k
    BY <1>2, HeadIsFirst DEF Release
  <2>2. Len(lockq') = n - 1 /\ \A i \in 1 .. n - 1 : lockq'[i] = lockq[i + 1]
    BY <1>2, <2>1 DEF Base, TypeOK
  <2> HIDE DEF n
  <2>3. \A i \in 1 .. n - 1 : i + 1 \in 1 .. n /\ i + 1 # 1
    BY <1>1
  <2>4. \A i, j \in 1 .. n - 1 : lockq'[i] = lockq'[j] => i = j
    <3> SUFFICES ASSUME NEW i \in 1 .. n - 1, NEW j \in 1 .. n - 1, lockq'[i] = lockq'[j]
                 PROVE  i = j
      OBVIOUS
    <3>1. i + 1 = j + 1
      BY <2>2, <2>3 DEF LockIsHeld, n
    <3> QED
      BY <1>1, <3>1
  <2>5. \A i \in 1 .. n - 1 : lockq'[i] # k /\ lockq'[i] \in Tasks
                              /\ task[lockq'[i]].pc = "lock"
    <3> TAKE i \in 1 .. n - 1
    <3>1. i + 1 \in 1 .. n /\ i + 1 # 1 /\ 1 \in 1 .. n /\ lockq'[i] = lockq[i + 1]
      BY <1>1, <2>1, <2>2, <2>3
    <3> QED
      BY <1>1, <2>1, <3>1 DEF LockIsHeld, n
  <2>6. \A i \in 1 .. n - 1 : task'[lockq'[i]].pc = "lock"
    BY <2>5 DEF OthersStay
  <2>7. \A l \in Tasks : task'[l].pc = "lock" => \E i \in 1 .. n - 1 : lockq'[i] = l
    <3> SUFFICES ASSUME NEW l \in Tasks, task'[l].pc = "lock"
                 PROVE  \E i \in 1 .. n - 1 : lockq'[i] = l
      OBVIOUS
    <3>1. l # k /\ task[l].pc = "lock"
      BY DEF OthersStay
    <3>2. PICK i \in 1 .. n : lockq[i] = l
      BY <3>1 DEF LockIsHeld, n
    <3>3. i # 1
      BY <2>1, <3>1, <3>2
    <3>4. i - 1 \in 1 .. n - 1 /\ (i - 1) + 1 = i
      BY <1>1, <3>3
    <3>5. lockq'[i - 1] = l
      BY <2>2, <3>2, <3>4
    <3> QED
      BY <3>4, <3>5
  <2> QED
    BY <2>2, <2>4, <2>6, <2>7 DEF LockIsHeld
<1>3. CASE ~(lockq # <<>> /\ Head(lockq) = k)
  <2>1. lockq' = lockq
    BY <1>3 DEF Release
  <2>2. \A i \in 1 .. n : lockq[i] # k
    <3> SUFFICES ASSUME NEW i \in 1 .. n, lockq[i] = k PROVE FALSE
      OBVIOUS
    <3>1. lockq # <<>> /\ Head(lockq) = lockq[1] /\ i # 1
      BY <1>1, <1>3, HeadIsFirst
    <3> QED
      BY <1>3, <3>1 DEF LockIsHeld
  <2>3. \A i \in 1 .. n : lockq[i] \in Tasks \ {k}
    BY <1>1, <2>2
  <2> QED
    BY <2>1, <2>3 DEF LockIsHeld, OthersStay
<1> QED
  BY <1>2, <1>3

LEMMA ArrivePc ==
  ASSUME Base, NEW k \in Tasks, NEW c, NEW t, NEW s, Arrive(k, c, t, s)
  PROVE  OthersStay(k) /\ task'[k].pc \in {"idle", "archiving"} /\ task'[k].cmd \in {c, "none"}
<1> DEFINE x == IF c = "archive" THEN Awaiting("archiving", c, t, s) ELSE Idle
<1>1. x.pc \in {"idle", "archiving"} /\ x.cmd \in {c, "none"}
  BY DEF Awaiting, Idle
<1>2. task' = [task EXCEPT ![k] = x]
  BY DEF Arrive
<1> HIDE DEF x
<1> QED
  BY <1>1, <1>2 DEF OthersStay, Base, TypeOK

LEMMA ReusePc ==
  ASSUME Base, NEW k \in Tasks, NEW c, NEW t \in Threads, NEW follow \in BOOLEAN,
         Reuse(k, c, t, follow)
  PROVE  /\ OthersStay(k) /\ task'[k].cmd \in {c, "none"}
         /\ IF follow THEN task'[k].pc = "following" ELSE task'[k].pc \in {"idle", "archiving"}
<1>1. CASE follow
  <2>1. PICK ok : task' = [task EXCEPT ![k] =
                             [Awaiting("following", c, t, threads[t]) EXCEPT !.ok = ok]]
    BY <1>1 DEF Reuse, CallFollow
  <2> DEFINE x == [Awaiting("following", c, t, threads[t]) EXCEPT !.ok = ok]
  <2>2. x.pc = "following" /\ x.cmd = c
    BY DEF Awaiting, Idle
  <2> HIDE DEF x
  <2>3. task' = [task EXCEPT ![k] = x]
    BY <2>1 DEF x
  <2> QED
    BY <1>1, <2>2, <2>3 DEF OthersStay, Base, TypeOK
<1>2. CASE ~follow
  BY <1>2, ArrivePc DEF Reuse
<1> QED
  BY <1>1, <1>2

LEMMA OpenPc ==
  ASSUME Base, NEW k \in Tasks, NEW c, NEW t, NEW follow, Open(k, c, t, follow)
  PROVE  OthersStay(k) /\ task'[k].pc = "opening" /\ task'[k].cmd = c
<1>1. PICK s : task' = [task EXCEPT ![k] = Awaiting("opening", c, t, s)]
  BY DEF Open
<1>2. Awaiting("opening", c, t, s).pc = "opening" /\ Awaiting("opening", c, t, s).cmd = c
  BY DEF Awaiting, Idle
<1> QED
  BY <1>1, <1>2 DEF OthersStay, Base, TypeOK

LEMMA LeavePc ==
  ASSUME Base, NEW c \in Conns, NEW cmd, NEW T, LeaveThreads(c, cmd, T)
  PROVE  OthersStay(c) /\ task'[c].pc \in {"idle", "unfollowing"}
<1>1. c \in Tasks
  BY DEF Tasks
<1>2. CASE task' = [task EXCEPT ![c] = Idle]
  <2>1. task'[c] = Idle /\ OthersStay(c)
    BY <1>1, <1>2 DEF OthersStay, Base, TypeOK
  <2> QED
    BY <2>1 DEF Idle
<1>3. ASSUME NEW t, NEW s, task' = [task EXCEPT ![c] = Awaiting("unfollowing", cmd, t, s)]
      PROVE  OthersStay(c) /\ task'[c].pc \in {"idle", "unfollowing"}
  <2> DEFINE x == Awaiting("unfollowing", cmd, t, s)
  <2>1. x.pc = "unfollowing"
    BY DEF Awaiting, Idle
  <2>2. task' = [task EXCEPT ![c] = x]
    BY <1>3
  <2> HIDE DEF x
  <2>3. task'[c] = x /\ OthersStay(c)
    BY <1>1, <2>2 DEF OthersStay, Base, TypeOK
  <2> QED
    BY <2>1, <2>3
<1> QED
  BY <1>2, <1>3 DEF LeaveThreads

LEMMA RestartPc ==
  ASSUME Base, NEW k \in Tasks, NEW todo, NEW after, RestartNext(k, todo, after)
  PROVE  /\ OthersStay(k)
         /\ task'[k] = Idle \/ (task'[k].pc = "restarting" /\ task'[k].cmd = "restart")
<1>1. CASE task' = [task EXCEPT ![k] = Idle]
  <2>1. OthersStay(k)
    BY <1>1 DEF OthersStay, Base, TypeOK
  <2>2. task'[k] = Idle
    BY <1>1 DEF Base, TypeOK
  <2> QED
    BY <2>1, <2>2
<1>2. ASSUME NEW p, task' = [task EXCEPT ![k] =
               [Awaiting("restarting", "restart", p[1], p[2]) EXCEPT !.todo = todo \ {p}]]
      PROVE  OthersStay(k) /\ task'[k].pc = "restarting" /\ task'[k].cmd = "restart"
  <2> DEFINE x == [Awaiting("restarting", "restart", p[1], p[2]) EXCEPT !.todo = todo \ {p}]
  <2>1. x.pc = "restarting" /\ x.cmd = "restart"
    BY DEF Awaiting, Idle
  <2>2. task' = [task EXCEPT ![k] = x]
    BY <1>2
  <2> HIDE DEF x
  <2> QED
    BY <2>1, <2>2 DEF OthersStay, Base, TypeOK
<1> QED
  BY <1>1, <1>2 DEF RestartNext

LEMMA EnsurePc ==
  ASSUME Base, NEW k \in Tasks, NEW c, NEW t \in Threads, NEW follow \in BOOLEAN,
         Ensure(k, c, t, follow)
  PROVE  /\ OthersStay(k) /\ task'[k].cmd \in {c, "none"}
         /\ task'[k].pc \in {"idle", "lock", "opening", "following", "archiving"}
         /\ c # "subscribe" => UNCHANGED book
<1>1. CASE Reuse(k, c, t, follow)
  <2>1. OthersStay(k) /\ task'[k].pc \in {"idle", "following", "archiving"}
        /\ task'[k].cmd \in {c, "none"}
    BY <1>1, ReusePc
  <2> QED
    BY <1>1, <2>1 DEF Reuse, CallFollow, Arrive
<1>2. CASE Open(k, c, t, follow)
  <2>1. OthersStay(k) /\ task'[k].pc = "opening" /\ task'[k].cmd = c
    BY <1>2, OpenPc
  <2>2. UNCHANGED book
    BY <1>2 DEF Open
  <2> QED
    BY <2>1, <2>2
<1>3. CASE UNCHANGED book
           /\ task' = [task EXCEPT ![k] =
                         [Awaiting("lock", c, t, NoSession) EXCEPT !.follow = follow]]
  <2> DEFINE x == [Awaiting("lock", c, t, NoSession) EXCEPT !.follow = follow]
  <2>1. x.pc = "lock" /\ x.cmd = c
    BY DEF Awaiting, Idle
  <2>2. task' = [task EXCEPT ![k] = x]
    BY <1>3
  <2> HIDE DEF x
  <2> QED
    BY <1>3, <2>1, <2>2 DEF OthersStay, Base, TypeOK
<1> QED
  BY <1>1, <1>2, <1>3 DEF Ensure

LEMMA EnsureKeepsLock ==
  ASSUME Base, LockIsHeld, NEW k \in Tasks, NEW c, NEW t \in Threads, NEW follow \in BOOLEAN,
         task[k].pc = "idle", Ensure(k, c, t, follow)
  PROVE  LockIsHeld'
<1>1. CASE Reuse(k, c, t, follow) /\ UNCHANGED lockq
  BY <1>1, ReusePc, LockIsElsewhere
<1>2. CASE lockq = <<>> /\ lockq' = <<k>> /\ Open(k, c, t, follow)
  BY <1>2, OpenPc, LockIsTaken
<1>3. CASE /\ lockq # <<>> /\ lockq' = Append(lockq, k)
           /\ task' = [task EXCEPT ![k] =
                         [Awaiting("lock", c, t, NoSession) EXCEPT !.follow = follow]]
  <2> DEFINE x == [Awaiting("lock", c, t, NoSession) EXCEPT !.follow = follow]
  <2>1. x.pc = "lock"
    BY DEF Awaiting, Idle
  <2>2. task' = [task EXCEPT ![k] = x]
    BY <1>3
  <2> HIDE DEF x
  <2>3. OthersStay(k) /\ task'[k].pc = "lock"
    BY <2>1, <2>2 DEF OthersStay, Base, TypeOK
  <2> QED
    BY <1>3, <2>3, LockIsJoined
<1> QED
  BY <1>1, <1>2, <1>3 DEF Ensure

LEMMA LockStep ==
  ASSUME Base, LockIsHeld, [Next]_vars
  PROVE  LockIsHeld'
<1> USE DEF Tasks
<1>0. Idle.pc = "idle"
  BY DEF Idle
<1>1. ASSUME NEW c \in Conns, NEW t \in Threads, Subscribe(c, t) PROVE LockIsHeld'
  BY <1>1, ReadyCommand, EnsureKeepsLock DEF Subscribe, First
<1>2. ASSUME NEW c \in Conns, NEW t \in Threads, Unsubscribe(c, t) PROVE LockIsHeld'
  BY <1>2, ReadyCommand, LeavePc, LockIsElsewhere DEF Unsubscribe
<1>3. ASSUME NEW c \in Conns, Leave(c) PROVE LockIsHeld'
  BY <1>3, LeavePc, LockIsElsewhere DEF Leave
<1>4. ASSUME NEW c \in Conns, Reconnect(c) PROVE LockIsHeld'
  BY <1>4 DEF Reconnect, LockIsHeld
<1>5. ASSUME NEW k \in Tasks, NEW t \in Threads, NEW c \in Commands, UseThread(k, c, t)
      PROVE  LockIsHeld'
  BY <1>5, ReadyCommand, EnsureKeepsLock DEF UseThread
<1>6. ASSUME NEW k \in Tasks, NEW t \in Threads, StartThread(k, t) PROVE LockIsHeld'
  BY <1>6, ReadyCommand, OpenPc, LockIsElsewhere DEF StartThread
<1>7. ASSUME NEW k \in Tasks, Restart(k) PROVE LockIsHeld'
  BY <1>0, <1>7, ReadyCommand, RestartPc, LockIsElsewhere DEF Restart
<1>8. ASSUME NEW k \in Tasks, Resume(k) PROVE LockIsHeld'
  <2>1. CASE LockTurn(k)
    <3>1. task[k].follow \in BOOLEAN /\ task[k].thread \in Threads /\ task[k].pc = "lock"
      BY <2>1 DEF LockTurn, Base, TypeOK, Task, Awaits, Fits
    <3>2. CASE /\ Reuse(k, task[k].cmd, task[k].thread, task[k].follow)
               /\ lockq' = IF task[k].follow THEN lockq ELSE Release(k)
      <4>1. CASE task[k].follow
        BY <2>1, <3>1, <3>2, <4>1, ReusePc, TurnIsHolders, LockIsKept
      <4>2. CASE ~task[k].follow
        <5>1. OthersStay(k) /\ task'[k].pc # "lock" /\ Head(lockq) = k
          BY <2>1, <3>1, <3>2, <4>2, ReusePc DEF LockTurn
        <5> QED
          BY <3>1, <3>2, <4>2, <5>1, LockIsReleased
      <4> QED
        BY <4>1, <4>2
    <3>3. CASE /\ Open(k, task[k].cmd, task[k].thread, task[k].follow)
               /\ UNCHANGED lockq
      BY <2>1, <3>3, OpenPc, TurnIsHolders, LockIsKept
    <3> QED
      BY <2>1, <3>2, <3>3 DEF LockTurn
  <2>2. CASE OpenDone(k)
    <3>1. OthersStay(k) /\ task'[k].pc \in {"idle", "archiving"}
      BY <2>2, ArrivePc DEF OpenDone
    <3> QED
      BY <2>2, <3>1, LockIsReleased DEF OpenDone
  <2>3. CASE OpenFailed(k)
    <3>1. OthersStay(k) /\ task'[k].pc = "idle"
      BY <1>0, <2>3 DEF OpenFailed, OthersStay, Base, TypeOK
    <3> QED
      BY <2>3, <3>1, LockIsReleased DEF OpenFailed
  <2>4. CASE FollowDone(k)
    <3>1. OthersStay(k) /\ task'[k].pc # "lock"
      <4>1. CASE Arrive(k, task[k].cmd, task[k].thread, task[k].sess)
        BY <4>1, ArrivePc
      <4>2. CASE task' = [task EXCEPT ![k] = Idle]
        BY <1>0, <4>2 DEF OthersStay, Base, TypeOK
      <4> QED
        BY <2>4, <4>1, <4>2 DEF FollowDone
    <3> QED
      BY <2>4, <3>1, LockIsReleased DEF FollowDone
  <2>5. CASE k \in Conns /\ UnfollowDone(k)
    <3>1. OthersStay(k) /\ task'[k].pc # "lock"
      <4>1. CASE LeaveThreads(k, "leave", book[k] \ {task[k].thread})
        BY <2>5, <4>1, LeavePc
      <4>2. CASE task' = [task EXCEPT ![k] = Idle]
        BY <1>0, <4>2 DEF OthersStay, Base, TypeOK
      <4> QED
        BY <2>5, <4>1, <4>2 DEF UnfollowDone
    <3> QED
      BY <2>5, <3>1, LockIsElsewhere DEF UnfollowDone
  <2>6. CASE ArchiveDone(k)
    <3>1. Awaiting("closing", "archive", task[k].thread, Closing(k)).pc = "closing"
      BY DEF Awaiting, Idle
    <3>2. OthersStay(k) /\ task'[k].pc # "lock"
      BY <1>0, <2>6, <3>1 DEF ArchiveDone, OthersStay, Base, TypeOK
    <3> QED
      BY <2>6, <3>2, LockIsElsewhere DEF ArchiveDone
  <2>7. CASE ArchiveFailed(k) \/ CloseDone(k) \/ RestartFailed(k)
    <3>1. OthersStay(k) /\ task'[k].pc # "lock"
      BY <1>0, <2>7 DEF ArchiveFailed, CloseDone, RestartFailed, OthersStay, Base, TypeOK
    <3> QED
      BY <2>7, <3>1, LockIsElsewhere DEF ArchiveFailed, CloseDone, RestartFailed
  <2>8. CASE RestartDone(k)
    BY <1>0, <2>8, RestartPc, LockIsElsewhere DEF RestartDone
  <2> QED
    BY <1>8, <2>1, <2>2, <2>3, <2>4, <2>5, <2>6, <2>7, <2>8 DEF Resume
<1>9. CASE UNCHANGED vars
  BY <1>9 DEF vars, LockIsHeld
<1> QED
  BY <1>1, <1>2, <1>3, <1>4, <1>5, <1>6, <1>7, <1>8, <1>9 DEF Next

\* The lock of the manager is held by one task that makes progress or is about to,
\* and every task that waits for it is in its queue, once: no turn is lost.
THEOREM LockInvariant == Spec => []LockIsHeld
<1>1. Init => LockIsHeld
  BY DEF Init, LockIsHeld, Idle
<1>2. Base /\ LockIsHeld /\ [Next]_vars => LockIsHeld'
  BY LockStep
<1> QED
  BY <1>1, <1>2, BaseInvariant, PTL DEF Spec
-----------------------------------------------------------------------------
(***************************************************************************)
(* The sessions, as long as no host is restarted.                          *)
(***************************************************************************)

\* A session that is opening or closing is in the hands of one task, which
\* opens it for its thread or closes it.
Handles(k, s) == task[k].pc \in {"opening", "closing"} /\ task[k].sess = s
OneHandler ==
  \A k \in Tasks, s \in Sessions : Handles(k, s) =>
    /\ sess[s].state = task[k].pc
    /\ task[k].pc = "opening" => sess[s].thread = task[k].thread
    /\ \A l \in Tasks : Handles(l, s) => l = k

\* NoSessionLeak, of the sessions whose stop was not tried.
LiveAreRegistered ==
  \A s \in Sessions : sess[s].state = "live" => \E t \in Threads : threads[t] = s
LEMMA NoneLeaked == LiveAreRegistered => NoSessionLeak
BY DEF LiveAreRegistered, NoSessionLeak, Runs

Running == OneHandler /\ RegisteredIsRunning /\ LiveAreRegistered

\* The awaits of a task that has a session to itself or has listed some.
Handling == {"opening", "closing", "restarting"}

\* Bridge calls about following change neither state nor thread of a session,
\* and this step opens and closes none.
OnlyFollows(k) ==
  /\ \A s \in Sessions : /\ sess'[s].state = sess[s].state
                         /\ sess'[s].thread = sess[s].thread
                         /\ sess'[s].watched = sess[s].watched
  /\ \E x \in Task : x.pc \notin Handling /\ task' = [task EXCEPT ![k] = x]

\* Task k gives up the session it was opening or has closed: it is stopped, or its
\* stop raised.
Drops(k) ==
  /\ task[k].pc \in {"opening", "closing"}
  /\ \/ sess' = [sess EXCEPT ![task[k].sess] = Unused]
     \/ "stop" \in Faults /\ sess' = GivenUp({task[k].sess})
  /\ \E x \in Task : x.pc \notin Handling /\ task' = [task EXCEPT ![k] = x]

\* What a step does to the registry, the sessions and the tasks.
Effect ==
  \/ UNCHANGED <<threads, sess, task>>
  \/ \E k \in Tasks :
       /\ task[k].pc \notin Handling /\ UNCHANGED threads
       /\ \/ OnlyFollows(k)
          \/ \E c \in AllCommands, t \in Threads, follow \in BOOLEAN : Open(k, c, t, follow)
  \/ \E k \in Tasks : Drops(k) /\ UNCHANGED threads
  \/ \E k \in Tasks : OpenDone(k) \/ ArchiveDone(k)
  \/ \E k \in Tasks : Restart(k) \/ RestartDone(k) \/ RestartFailed(k)

LEMMA DropsLeaves ==
  ASSUME Base, NEW k \in Tasks, Drops(k)
  PROVE  /\ task[k].sess \in Sessions
         /\ sess'[task[k].sess].state \in {"unused", "left"}
         /\ sess'[task[k].sess].state = "left" => "stop" \in Faults
         /\ \A u \in Sessions \ {task[k].sess} : sess'[u] = sess[u]
<1>1. task[k].sess \in Sessions /\ sess \in [Sessions -> Session]
  BY DEF Base, TypeOK, Awaits, Fits, Drops
<1>2. CASE sess' = [sess EXCEPT ![task[k].sess] = Unused]
  BY <1>1, <1>2 DEF Unused
<1>3. CASE "stop" \in Faults /\ sess' = GivenUp({task[k].sess})
  BY <1>1, <1>3, GivenUpSessions
<1> QED
  BY <1>1, <1>2, <1>3 DEF Drops

LEMMA ArriveFollows ==
  ASSUME Base, NEW k \in Tasks, NEW c \in AllCommands, NEW t \in Threads,
         NEW s \in Sessions \cup {NoSession}, Arrive(k, c, t, s), UNCHANGED sess
  PROVE  OnlyFollows(k)
<1>1. Awaiting("archiving", c, t, s) \in Task
  BY DEF Awaiting, Idle, Task
<1>2. Awaiting("archiving", c, t, s).pc \notin Handling
  BY DEF Awaiting, Idle, Handling
<1>3. Idle.pc \notin Handling
  BY DEF Idle, Handling
<1> QED
  BY <1>1, <1>2, <1>3, Records DEF Arrive, OnlyFollows

LEMMA ReuseFollows ==
  ASSUME Base, NEW k \in Tasks, NEW c \in AllCommands, NEW t \in Threads,
         NEW follow \in BOOLEAN, Reuse(k, c, t, follow)
  PROVE  OnlyFollows(k)
<1>0. threads[t] \in Sessions
  BY DEF Reuse, Base, TypeOK
<1>1. CASE follow
  <2>1. PICK ok \in Outcomes("follow") :
        /\ sess' = IF ok THEN [sess EXCEPT ![threads[t]].following = TRUE] ELSE sess
        /\ task' = [task EXCEPT ![k] =
                      [Awaiting("following", c, t, threads[t]) EXCEPT !.ok = ok]]
    BY <1>1 DEF Reuse, CallFollow
  <2>2. ok \in BOOLEAN
    BY DEF Outcomes
  <2> DEFINE x == [Awaiting("following", c, t, threads[t]) EXCEPT !.ok = ok]
  <2>3. x \in Task /\ x.pc = "following"
    BY <1>0, <2>2 DEF Awaiting, Idle, Task
  <2>4. \A s \in Sessions : /\ sess'[s].state = sess[s].state
                            /\ sess'[s].thread = sess[s].thread
                            /\ sess'[s].watched = sess[s].watched
    BY <1>0, <2>1 DEF Base, TypeOK, Session
  <2> QED
    BY <2>1, <2>3, <2>4 DEF OnlyFollows, Handling
<1>2. CASE ~follow
  BY <1>0, <1>2, ArriveFollows DEF Reuse
<1> QED
  BY <1>1, <1>2

LEMMA LeaveFollows ==
  ASSUME Base, NEW c \in Conns, NEW cmd \in {"unsubscribe", "leave"},
         NEW T \in SUBSET Threads, LeaveThreads(c, cmd, T)
  PROVE  OnlyFollows(c)
<1>0. cmd \in AllCommands /\ Idle.pc = "idle"
  BY DEF AllCommands, WsCommands, Idle
<1>1. CASE task' = [task EXCEPT ![c] = Idle] /\ UNCHANGED sess
  BY <1>0, <1>1, Records DEF OnlyFollows, Handling
<1>2. ASSUME NEW t \in T, NEW ok \in BOOLEAN, ~Silent(c, t),
             sess' = IF ok THEN [sess EXCEPT ![threads[t]].following = FALSE] ELSE sess,
             task' = [task EXCEPT ![c] = Awaiting("unfollowing", cmd, t, threads[t])]
      PROVE  OnlyFollows(c)
  <2>1. threads[t] \in Sessions
    BY <1>2 DEF Silent, Base, TypeOK
  <2> DEFINE x == Awaiting("unfollowing", cmd, t, threads[t])
  <2>2. x \in Task /\ x.pc = "unfollowing"
    BY <1>0, <2>1 DEF Awaiting, Idle, Task
  <2>3. \A s \in Sessions : /\ sess'[s].state = sess[s].state
                            /\ sess'[s].thread = sess[s].thread
                            /\ sess'[s].watched = sess[s].watched
    BY <1>2, <2>1 DEF Base, TypeOK, Session
  <2> QED
    BY <1>2, <2>2, <2>3 DEF OnlyFollows, Handling
<1>3. \A ok \in Outcomes("follow") : ok \in BOOLEAN
  BY DEF Outcomes
<1> QED
  BY <1>1, <1>2, <1>3 DEF LeaveThreads

LEMMA EffectStep ==
  ASSUME Base, [Next]_vars
  PROVE  Effect
<1> USE DEF Tasks
<1>0. Idle.pc = "idle" /\ Idle \in Task /\ Commands \subseteq AllCommands
  BY Records, CommandAssumption DEF Idle
<1>1. ASSUME NEW k \in Tasks, NEW c \in AllCommands, NEW t \in Threads, NEW follow \in BOOLEAN,
             task[k].pc = "idle", Ensure(k, c, t, follow), UNCHANGED threads
      PROVE  Effect
  <2>1. CASE Reuse(k, c, t, follow)
    BY <1>1, <2>1, ReuseFollows DEF Effect, Handling
  <2>2. CASE Open(k, c, t, follow)
    BY <1>1, <2>2 DEF Effect, Handling
  <2>3. CASE /\ task' = [task EXCEPT ![k] =
                           [Awaiting("lock", c, t, NoSession) EXCEPT !.follow = follow]]
             /\ UNCHANGED sess
    <3> DEFINE x == [Awaiting("lock", c, t, NoSession) EXCEPT !.follow = follow]
    <3>1. x \in Task /\ x.pc = "lock"
      BY DEF Awaiting, Idle, Task
    <3>2. OnlyFollows(k)
      BY <2>3, <3>1 DEF OnlyFollows, Handling
    <3> QED
      BY <1>1, <3>2 DEF Effect, Handling
  <2> QED
    BY <1>1, <2>1, <2>2, <2>3 DEF Ensure
<1>2. ASSUME NEW c \in Conns, NEW t \in Threads, Subscribe(c, t) PROVE Effect
  BY <1>0, <1>1, <1>2, ReadyCommand DEF Subscribe, First
<1>3. ASSUME NEW c \in Conns, NEW t \in Threads, Unsubscribe(c, t) PROVE Effect
  BY <1>3, ReadyCommand, LeaveFollows DEF Effect, Handling, Unsubscribe
<1>4. ASSUME NEW c \in Conns, Leave(c) PROVE Effect
  <2>1. book[c] \in SUBSET Threads
    BY DEF Base, TypeOK
  <2> QED
    BY <1>4, <2>1, LeaveFollows DEF Effect, Handling, Leave
<1>5. ASSUME NEW c \in Conns, Reconnect(c) PROVE Effect
  BY <1>5 DEF Reconnect, Effect
<1>6. ASSUME NEW k \in Tasks, NEW t \in Threads, NEW c \in Commands, UseThread(k, c, t)
      PROVE  Effect
  BY <1>0, <1>1, <1>6, ReadyCommand DEF UseThread
<1>7. ASSUME NEW k \in Tasks, NEW t \in Threads, StartThread(k, t) PROVE Effect
  BY <1>0, <1>7, ReadyCommand DEF Effect, Handling, StartThread
<1>8. ASSUME NEW k \in Tasks, Restart(k) PROVE Effect
  BY <1>8 DEF Effect
<1>9. ASSUME NEW k \in Tasks, Resume(k) PROVE Effect
  <2>0. /\ task[k] \in Task
        /\ task[k].pc # "idle" => task[k].thread \in Threads /\ task[k].cmd \in AllCommands
    BY <1>0 DEF Base, TypeOK, Awaits, Fits, Task, AllCommands
  <2>1. CASE LockTurn(k)
    <3>1. task[k].cmd \in AllCommands /\ task[k].follow \in BOOLEAN /\ task[k].thread \in Threads
      BY <2>0, <2>1 DEF LockTurn, Task
    <3>2. CASE Reuse(k, task[k].cmd, task[k].thread, task[k].follow)
      BY <2>1, <3>1, <3>2, ReuseFollows DEF Effect, Handling, LockTurn
    <3>3. CASE Open(k, task[k].cmd, task[k].thread, task[k].follow)
      BY <2>1, <3>1, <3>3 DEF Effect, Handling, LockTurn
    <3> QED
      BY <2>1, <3>2, <3>3 DEF LockTurn
  <2>2. CASE OpenDone(k)
    BY <2>2 DEF Effect
  <2>3. CASE OpenFailed(k)
    BY <1>0, <2>3 DEF Effect, Drops, Handling, OpenFailed
  <2>4. CASE FollowDone(k)
    <3>1. OnlyFollows(k)
      <4>1. task[k].cmd \in AllCommands /\ task[k].thread \in Threads
            /\ task[k].sess \in Sessions \cup {NoSession} /\ UNCHANGED sess
        BY <2>0, <2>4 DEF FollowDone, Task
      <4>2. CASE Arrive(k, task[k].cmd, task[k].thread, task[k].sess)
        BY <4>1, <4>2, ArriveFollows
      <4>3. CASE task' = [task EXCEPT ![k] = Idle]
        BY <1>0, <4>1, <4>3 DEF OnlyFollows, Handling
      <4> QED
        BY <2>4, <4>2, <4>3 DEF FollowDone
    <3> QED
      BY <2>4, <3>1 DEF Effect, Handling, FollowDone
  <2>5. CASE k \in Conns /\ UnfollowDone(k)
    <3>1. OnlyFollows(k)
      <4>1. CASE LeaveThreads(k, "leave", book[k] \ {task[k].thread})
        <5>1. book[k] \ {task[k].thread} \in SUBSET Threads
          BY <2>5 DEF Base, TypeOK
        <5> QED
          BY <2>5, <4>1, <5>1, LeaveFollows
      <4>2. CASE task' = [task EXCEPT ![k] = Idle] /\ UNCHANGED sess
        BY <1>0, <4>2 DEF OnlyFollows, Handling
      <4> QED
        BY <2>5, <4>1, <4>2 DEF UnfollowDone
    <3> QED
      BY <2>5, <3>1 DEF Effect, Handling, UnfollowDone
  <2>6. CASE ArchiveDone(k)
    BY <2>6 DEF Effect
  <2>7. CASE ArchiveFailed(k)
    <3>1. OnlyFollows(k)
      BY <1>0, <2>7 DEF ArchiveFailed, OnlyFollows, Handling
    <3> QED
      BY <2>7, <3>1 DEF Effect, Handling, ArchiveFailed
  <2>8. CASE CloseDone(k)
    BY <1>0, <2>8 DEF Effect, Drops, Handling, CloseDone
  <2>9. CASE RestartDone(k) \/ RestartFailed(k)
    BY <1>9, <2>9 DEF Effect
  <2> QED
    BY <1>9, <2>1, <2>2, <2>3, <2>4, <2>5, <2>6, <2>7, <2>8, <2>9 DEF Resume
<1>10. CASE UNCHANGED vars
  BY <1>10 DEF vars, Effect
<1> QED
  BY <1>2, <1>3, <1>4, <1>5, <1>6, <1>7, <1>8, <1>9, <1>10 DEF Next

\* A session that finds another one registered is given up.
LEMMA LateOpenDrops ==
  ASSUME Base, NEW k \in Tasks, OpenDone(k), threads[task[k].thread] # NoSession
  PROVE  Drops(k) /\ UNCHANGED threads
<1> DEFINE t == task[k].thread
           x == Awaiting("archiving", task[k].cmd, t, threads[t])
<1>1. /\ t \in Threads /\ task[k].cmd \in AllCommands /\ task[k].pc = "opening"
      /\ threads[t] \in Sessions \cup {NoSession}
  BY DEF OpenDone, Base, TypeOK, Task, Awaits, Fits
<1>2. sess' = [sess EXCEPT ![task[k].sess] = Unused] /\ UNCHANGED threads
  BY DEF OpenDone, Register
<1>3. x \in Task /\ x.pc = "archiving" /\ Idle \in Task /\ Idle.pc = "idle"
  BY <1>1, Records DEF Awaiting, Idle, Task
<1>4. task' = [task EXCEPT ![k] = x] \/ task' = [task EXCEPT ![k] = Idle]
  BY <1>2 DEF OpenDone, Arrive
<1>5. \E y \in Task : y.pc \notin Handling /\ task' = [task EXCEPT ![k] = y]
  BY <1>3, <1>4 DEF Handling
<1> QED
  BY <1>1, <1>2, <1>5 DEF Drops

LEMMA FollowingKeepsRunning ==
  ASSUME Base, Running, NEW k \in Tasks, OnlyFollows(k), UNCHANGED threads,
         task[k].pc \notin Handling
  PROVE  Running'
<1>1. PICK x \in Task : x.pc \notin Handling /\ task' = [task EXCEPT ![k] = x]
  BY DEF OnlyFollows
<1>2. \A l \in Tasks, s \in Sessions : Handles(l, s)' => Handles(l, s) /\ task'[l] = task[l]
  BY <1>1 DEF Handles, Handling, Base, TypeOK
<1>3. OneHandler'
  BY <1>2 DEF OnlyFollows, Running, OneHandler
<1>4. threads \in [Threads -> Sessions \cup {NoSession}]
  BY DEF Base, TypeOK
<1>5. RegisteredIsRunning'
  BY <1>4 DEF OnlyFollows, Running, RegisteredIsRunning
<1>6. LiveAreRegistered'
  BY <1>4 DEF OnlyFollows, Running, LiveAreRegistered
<1> QED
  BY <1>3, <1>5, <1>6 DEF Running

LEMMA OpenKeepsRunning ==
  ASSUME Base, Running, NEW k \in Tasks, NEW c \in AllCommands, NEW t \in Threads,
         NEW follow \in BOOLEAN, Open(k, c, t, follow), UNCHANGED threads,
         task[k].pc \notin Handling
  PROVE  Running'
<1>1. PICK s \in Free :
        /\ sess' = [sess EXCEPT ![s] = [Unused EXCEPT !.state = "opening", !.thread = t,
                                                      !.following = follow]]
        /\ task' = [task EXCEPT ![k] = Awaiting("opening", c, t, s)]
  BY DEF Open
<1>2. /\ s \in Sessions /\ sess[s].state \in {"unused", "left"}
      /\ sess'[s].state = "opening" /\ sess'[s].thread = t
      /\ \A u \in Sessions \ {s} : sess'[u] = sess[u]
  BY <1>1 DEF Free, Unused, Base, TypeOK
<1>3. /\ task'[k].pc = "opening" /\ task'[k].thread = t /\ task'[k].sess = s
      /\ \A l \in Tasks \ {k} : task'[l] = task[l]
  BY <1>1 DEF Awaiting, Idle, Base, TypeOK
<1>4. \A l \in Tasks, u \in Sessions : Handles(l, u)' <=>
        (IF l = k THEN u = s ELSE Handles(l, u) /\ u # s)
  BY <1>2, <1>3 DEF Handles, Handling, Running, OneHandler
<1>5. OneHandler'
  BY <1>2, <1>3, <1>4 DEF Running, OneHandler
<1>6. threads \in [Threads -> Sessions \cup {NoSession}]
  BY DEF Base, TypeOK
<1>7. RegisteredIsRunning'
  BY <1>2, <1>6 DEF Running, RegisteredIsRunning
<1>8. LiveAreRegistered'
  BY <1>2 DEF Running, LiveAreRegistered
<1> QED
  BY <1>5, <1>7, <1>8 DEF Running

LEMMA DropKeepsRunning ==
  ASSUME Base, Running, NEW k \in Tasks, Drops(k), UNCHANGED threads
  PROVE  Running'
<1>0. PICK x \in Task : x.pc \notin Handling /\ task' = [task EXCEPT ![k] = x]
  BY DEF Drops
<1>1. task[k].sess \in Sessions /\ Handles(k, task[k].sess)
  BY DEF Base, Awaits, Fits, Handles, Drops
<1>2. /\ sess'[task[k].sess].state \in {"unused", "left"}
      /\ \A u \in Sessions \ {task[k].sess} : sess'[u] = sess[u]
  BY DropsLeaves
<1>3. task'[k] = x /\ \A l \in Tasks \ {k} : task'[l] = task[l]
  BY <1>0 DEF Base, TypeOK
<1>4. \A l \in Tasks, u \in Sessions :
        Handles(l, u)' => Handles(l, u) /\ l # k /\ u # task[k].sess
  BY <1>0, <1>1, <1>3 DEF Handles, Handling, Running, OneHandler
<1>5. OneHandler'
  BY <1>2, <1>3, <1>4 DEF Running, OneHandler
<1>6. threads \in [Threads -> Sessions \cup {NoSession}]
  BY DEF Base, TypeOK
<1>7. \A t \in Threads : threads[t] # task[k].sess
  <2>1. sess[task[k].sess].state # "live" /\ task[k].sess # NoSession
    BY <1>1, SessionAssumption DEF Handles, Running, OneHandler
  <2> QED
    BY <2>1 DEF Running, RegisteredIsRunning
<1>8. RegisteredIsRunning'
  BY <1>2, <1>6, <1>7 DEF Running, RegisteredIsRunning
<1>9. LiveAreRegistered'
  BY <1>2 DEF Running, LiveAreRegistered
<1> QED
  BY <1>5, <1>8, <1>9 DEF Running

LEMMA OpenDoneKeepsRunning ==
  ASSUME Base, Running, NEW k \in Tasks, OpenDone(k)
  PROVE  Running'
<1> DEFINE t == task[k].thread
           s == task[k].sess
<1>1. /\ s \in Sessions /\ t \in Threads /\ task[k].cmd \in AllCommands
      /\ Handles(k, s) /\ sess[s].state = "opening" /\ sess[s].thread = t
  BY DEF OpenDone, Base, TypeOK, Task, Awaits, Fits, Handles, Running, OneHandler
<1>2. Arrive(k, task[k].cmd, t, threads'[t])
  BY DEF OpenDone
<1>3. PICK x : x.pc \notin {"opening", "closing"} /\ task' = [task EXCEPT ![k] = x]
  <2>1. Awaiting("archiving", task[k].cmd, t, threads'[t]).pc = "archiving" /\ Idle.pc = "idle"
    BY DEF Awaiting, Idle
  <2> QED
    BY <1>2, <2>1 DEF Arrive
<1>4. CASE threads[t] = NoSession
  <2>1. /\ threads' = [threads EXCEPT ![t] = s]
        /\ sess' = [sess EXCEPT ![s].state = "live", ![s].watched = TRUE]
    BY <1>4 DEF OpenDone, Register
  <2>2. /\ sess'[s].state = "live" /\ sess'[s].watched /\ sess'[s].thread = t
        /\ \A u \in Sessions \ {s} : sess'[u] = sess[u]
    BY <2>1, <1>1, RegisteredSession DEF Base, TypeOK
  <2>3. \A l \in Tasks, u \in Sessions : Handles(l, u)' => Handles(l, u) /\ l # k /\ u # s
    BY <1>1, <1>3 DEF Handles, Running, OneHandler, Base, TypeOK
  <2>4. OneHandler'
    BY <1>3, <2>2, <2>3 DEF Running, OneHandler, Base, TypeOK
  <2>5. threads'[t] = s /\ \A u \in Threads \ {t} : threads'[u] = threads[u]
    BY <2>1, <1>1 DEF Base, TypeOK
  <2>6. RegisteredIsRunning'
    BY <1>1, <2>2, <2>5 DEF Running, RegisteredIsRunning, Base, TypeOK
  <2>7. LiveAreRegistered'
    BY <1>1, <1>4, <2>2, <2>5, SessionAssumption DEF Running, LiveAreRegistered, Base, TypeOK
  <2> QED
    BY <2>4, <2>6, <2>7 DEF Running
<1>5. CASE threads[t] # NoSession
  BY <1>5, LateOpenDrops, DropKeepsRunning
<1> QED
  BY <1>4, <1>5

LEMMA ArchiveDoneKeepsRunning ==
  ASSUME Base, Running, NEW k \in Tasks, ArchiveDone(k)
  PROVE  Running'
<1> DEFINE t == task[k].thread
<1>1. t \in Threads /\ task[k].pc = "archiving" /\ threads' = [threads EXCEPT ![t] = NoSession]
  BY DEF ArchiveDone, Popped, Base, Awaits, Fits
<1>2. CASE threads[t] = NoSession
  <2>1. threads' = threads /\ UNCHANGED sess /\ task' = [task EXCEPT ![k] = Idle]
    BY <1>1, <1>2 DEF ArchiveDone, Base, TypeOK
  <2>2. OnlyFollows(k)
    BY <2>1, Records DEF OnlyFollows, Idle, Handling
  <2> QED
    BY <1>1, <2>1, <2>2, FollowingKeepsRunning DEF Handling
<1>3. CASE threads[t] # NoSession
  <2> DEFINE s == threads[t]
  <2>1. s \in Sessions /\ sess[s].state = "live" /\ sess[s].thread = t
    BY <1>1, <1>3 DEF Running, RegisteredIsRunning, Base, TypeOK
  <2>2. /\ sess' = [sess EXCEPT ![s].state = "closing", ![s].watched = FALSE]
        /\ task' = [task EXCEPT ![k] = Awaiting("closing", "archive", t, s)]
    BY <1>3 DEF ArchiveDone, Closing
  <2>3. Awaiting("closing", "archive", t, s).pc = "closing"
        /\ Awaiting("closing", "archive", t, s).sess = s
    BY DEF Awaiting, Idle
  <2>4. sess'[s].state = "closing" /\ \A u \in Sessions \ {s} : sess'[u] = sess[u]
    BY <2>1, <2>2, ClosedSession DEF Base, TypeOK
  <2>5. /\ task'[k].pc = "closing" /\ task'[k].sess = s
        /\ \A l \in Tasks \ {k} : task'[l] = task[l]
    BY <2>2, <2>3 DEF Base, TypeOK
  <2>6. \A l \in Tasks, u \in Sessions : Handles(l, u)' <=>
          (IF l = k THEN u = s ELSE Handles(l, u) /\ u # s)
    BY <2>1, <2>5 DEF Handles, Running, OneHandler
  <2>7. OneHandler'
    BY <2>1, <2>4, <2>5, <2>6 DEF Running, OneHandler
  <2>8. threads'[t] = NoSession /\ \A u \in Threads \ {t} : threads'[u] = threads[u]
    BY <1>1 DEF Base, TypeOK
  <2>9. threads \in [Threads -> Sessions \cup {NoSession}]
    BY DEF Base, TypeOK
  <2>10. RegisteredIsRunning'
    BY <2>1, <2>4, <2>8, <2>9 DEF Running, RegisteredIsRunning
  <2>11. LiveAreRegistered'
    BY <1>3, <2>1, <2>4, <2>8, <2>9 DEF Running, LiveAreRegistered
  <2> QED
    BY <2>7, <2>10, <2>11 DEF Running
<1> QED
  BY <1>2, <1>3

LEMMA RunningStep ==
  ASSUME "restart" \notin Commands, Base, Running, [Next]_vars
  PROVE  Running'
<1>1. Effect
  BY EffectStep
<1>2. CASE UNCHANGED <<threads, sess, task>>
  BY <1>2 DEF Running, OneHandler, Handles, RegisteredIsRunning, LiveAreRegistered
<1>3. ASSUME NEW k \in Tasks, task[k].pc \notin Handling, UNCHANGED threads, OnlyFollows(k)
      PROVE  Running'
  BY <1>3, FollowingKeepsRunning
<1>4. ASSUME NEW k \in Tasks, NEW c \in AllCommands, NEW t \in Threads, NEW follow \in BOOLEAN,
             task[k].pc \notin Handling, UNCHANGED threads, Open(k, c, t, follow)
      PROVE  Running'
  BY <1>4, OpenKeepsRunning
<1>5. ASSUME NEW k \in Tasks, Drops(k), UNCHANGED threads PROVE Running'
  BY <1>5, DropKeepsRunning
<1>6. ASSUME NEW k \in Tasks, OpenDone(k) PROVE Running'
  BY <1>6, OpenDoneKeepsRunning
<1>7. ASSUME NEW k \in Tasks, ArchiveDone(k) PROVE Running'
  BY <1>7, ArchiveDoneKeepsRunning
<1>8. ASSUME NEW k \in Tasks PROVE ~Restart(k) /\ ~RestartDone(k) /\ ~RestartFailed(k)
  <2>1. task[k].pc # "restarting"
    BY CommandAssumption DEF Base, Awaits, Fits
  <2> QED
    BY <2>1, ReadyCommand DEF Restart, RestartDone, RestartFailed
<1> QED
  BY <1>1, <1>2, <1>3, <1>4, <1>5, <1>6, <1>7, <1>8 DEF Effect

LEMMA RunningInvariant ==
  ASSUME "restart" \notin Commands PROVE Spec => [](Base /\ Running)
<1>1. Init => Base /\ Running
  <2>1. Init => Running
    BY DEF Init, Running, OneHandler, Handles, Idle, Unused, RegisteredIsRunning, LiveAreRegistered
  <2> QED
    BY <2>1, InitBase
<1>2. Base /\ Running /\ [Next]_vars => (Base /\ Running)'
  BY BaseStep, RunningStep
<1> QED
  BY <1>1, <1>2, PTL DEF Spec

\* What CodexIpcManager registers for a thread is a session of that thread that
\* runs and is watched, however openings, archivings and failures interleave.
\* A restart cancels the watchers of sessions it has not stopped yet.
THEOREM RegisteredIsRunningHolds ==
  ASSUME "restart" \notin Commands PROVE Spec => []RegisteredIsRunning
BY RunningInvariant, PTL DEF Running

\* Every session that runs is registered, so that a closing of its thread stops
\* it, or its stop was tried and raised.  Two restarts that overlap lose one.
THEOREM NoSessionLeakHolds ==
  ASSUME "restart" \notin Commands PROVE Spec => []NoSessionLeak
<1>1. Running => NoSessionLeak
  BY NoneLeaked DEF Running
<1> QED
  BY <1>1, RunningInvariant, PTL
-----------------------------------------------------------------------------
(***************************************************************************)
(* The sessions, restarts included, as long as no thread that a restart    *)
(* has still to close is closed by another restart or by an archiving.     *)
(***************************************************************************)

\* The threads task k takes out of the registry when its call returns, or later.
ToPop(k) ==
  {t \in Threads : /\ task[k].pc \in {"archiving", "restarting"}
                   /\ task[k].thread = t \/ \E p \in task[k].todo : p[1] = t}
Apart == \A k, l \in Tasks : task[k].pc = "restarting" /\ k # l => ToPop(k) \cap ToPop(l) = {}

\* A registered session is in nobody's hands and registered once, for its thread.
OwnThread ==
  \A t \in Threads : threads[t] # NoSession =>
    /\ \A k \in Tasks : ~Handles(k, threads[t])
    /\ sess[threads[t]].thread = t
    /\ \A u \in Threads : threads[u] = threads[t] => u = t

\* What a restart has listed is registered still.
StillListed(k) ==
  /\ threads[task[k].thread] = task[k].sess
  /\ \A p \in task[k].todo : threads[p[1]] = p[2] /\ p[1] # task[k].thread
Listed == \A k \in Tasks : task[k].pc = "restarting" => StillListed(k)

Tidy == OneHandler /\ LiveAreRegistered /\ OwnThread /\ Listed

LEMMA ListedTypes ==
  ASSUME Base, NEW k \in Tasks, task[k].pc = "restarting"
  PROVE  /\ task[k].thread \in Threads /\ task[k].sess \in Sessions
         /\ \A p \in task[k].todo : p[1] \in Threads /\ p[2] \in Sessions
<1>1. task[k].todo \in SUBSET (Threads \X Sessions)
  BY DEF Base, TypeOK, Task
<1>2. \A p \in task[k].todo : p[1] \in Threads /\ p[2] \in Sessions
  BY <1>1
<1> QED
  BY <1>2 DEF Base, Awaits, Fits

\* A step that takes nothing out of the registry and starts no restart.
LEMMA ListedStays ==
  ASSUME Base, Listed,
         \A t \in Threads : threads[t] # NoSession => threads'[t] = threads[t],
         \A l \in Tasks : task'[l].pc = "restarting" => task'[l] = task[l]
  PROVE  Listed'
<1> SUFFICES ASSUME NEW k \in Tasks, task'[k].pc = "restarting" PROVE StillListed(k)'
  BY DEF Listed
<1>1. task'[k] = task[k] /\ task[k].pc = "restarting" /\ StillListed(k)
  BY DEF Listed
<1>2. /\ task[k].thread \in Threads /\ task[k].sess # NoSession
      /\ \A p \in task[k].todo : p[1] \in Threads /\ p[2] # NoSession
  BY <1>1, ListedTypes, SessionAssumption
<1> QED
  BY <1>1, <1>2 DEF StillListed

LEMMA FollowingKeepsTidy ==
  ASSUME Base, Tidy, NEW k \in Tasks, OnlyFollows(k), UNCHANGED threads,
         task[k].pc \notin Handling
  PROVE  Tidy'
<1>1. PICK x \in Task : x.pc \notin Handling /\ task' = [task EXCEPT ![k] = x]
  BY DEF OnlyFollows
<1>2. \A l \in Tasks, s \in Sessions : Handles(l, s)' => Handles(l, s) /\ task'[l] = task[l]
  BY <1>1 DEF Handles, Handling, Base, TypeOK
<1>3. OneHandler'
  BY <1>2 DEF OnlyFollows, Tidy, OneHandler
<1>4. threads \in [Threads -> Sessions \cup {NoSession}]
  BY DEF Base, TypeOK
<1>5. LiveAreRegistered'
  BY <1>4 DEF OnlyFollows, Tidy, LiveAreRegistered
<1>6. OwnThread'
  BY <1>2, <1>4 DEF OnlyFollows, Tidy, OwnThread
<1>7. \A l \in Tasks : task'[l].pc = "restarting" => task'[l] = task[l]
  BY <1>1 DEF Handling, Base, TypeOK
<1>8. Listed'
  BY <1>7, ListedStays DEF Tidy
<1> QED
  BY <1>3, <1>5, <1>6, <1>8 DEF Tidy

LEMMA OpenKeepsTidy ==
  ASSUME Base, Tidy, NEW k \in Tasks, NEW c \in AllCommands, NEW t \in Threads,
         NEW follow \in BOOLEAN, Open(k, c, t, follow), UNCHANGED threads,
         task[k].pc \notin Handling
  PROVE  Tidy'
<1>1. PICK s \in Free :
        /\ sess' = [sess EXCEPT ![s] = [Unused EXCEPT !.state = "opening", !.thread = t,
                                                      !.following = follow]]
        /\ task' = [task EXCEPT ![k] = Awaiting("opening", c, t, s)]
  BY DEF Open
<1>2. /\ s \in Sessions /\ sess[s].state \in {"unused", "left"}
      /\ sess'[s].state = "opening" /\ sess'[s].thread = t
      /\ \A u \in Sessions \ {s} : sess'[u] = sess[u]
  BY <1>1 DEF Free, Unused, Base, TypeOK
<1>3. /\ task'[k].pc = "opening" /\ task'[k].thread = t /\ task'[k].sess = s
      /\ \A l \in Tasks \ {k} : task'[l] = task[l]
  BY <1>1 DEF Awaiting, Idle, Base, TypeOK
<1>4. \A l \in Tasks, u \in Sessions : Handles(l, u)' <=>
        (IF l = k THEN u = s ELSE Handles(l, u) /\ u # s)
  BY <1>2, <1>3 DEF Handles, Handling, Tidy, OneHandler
<1>5. OneHandler'
  BY <1>2, <1>3, <1>4 DEF Tidy, OneHandler
<1>6. \A u \in Threads : threads[u] # s
  BY <1>1 DEF Free, Referenced
<1>7. threads \in [Threads -> Sessions \cup {NoSession}]
  BY DEF Base, TypeOK
<1>8. LiveAreRegistered'
  BY <1>2 DEF Tidy, LiveAreRegistered
<1>9. OwnThread'
  BY <1>2, <1>4, <1>6, <1>7 DEF Tidy, OwnThread
<1>10. \A l \in Tasks : task'[l].pc = "restarting" => task'[l] = task[l]
  BY <1>3
<1>11. Listed'
  BY <1>10, ListedStays DEF Tidy
<1> QED
  BY <1>5, <1>8, <1>9, <1>11 DEF Tidy

LEMMA DropKeepsTidy ==
  ASSUME Base, Tidy, NEW k \in Tasks, Drops(k), UNCHANGED threads
  PROVE  Tidy'
<1>0. PICK x \in Task : x.pc \notin Handling /\ task' = [task EXCEPT ![k] = x]
  BY DEF Drops
<1>1. task[k].sess \in Sessions /\ Handles(k, task[k].sess)
  BY DEF Base, Awaits, Fits, Handles, Drops
<1>2. /\ sess'[task[k].sess].state \in {"unused", "left"}
      /\ \A u \in Sessions \ {task[k].sess} : sess'[u] = sess[u]
  BY DropsLeaves
<1>3. task'[k] = x /\ \A l \in Tasks \ {k} : task'[l] = task[l]
  BY <1>0 DEF Base, TypeOK
<1>4. \A l \in Tasks, u \in Sessions :
        Handles(l, u)' => Handles(l, u) /\ l # k /\ u # task[k].sess
  BY <1>0, <1>1, <1>3 DEF Handles, Handling, Tidy, OneHandler
<1>5. OneHandler'
  BY <1>2, <1>3, <1>4 DEF Tidy, OneHandler
<1>6. threads \in [Threads -> Sessions \cup {NoSession}]
  BY DEF Base, TypeOK
<1>7. \A t \in Threads : threads[t] # task[k].sess
  BY <1>1, SessionAssumption DEF Tidy, OwnThread
<1>8. LiveAreRegistered'
  BY <1>2 DEF Tidy, LiveAreRegistered
<1>9. OwnThread'
  BY <1>2, <1>4, <1>6, <1>7 DEF Tidy, OwnThread
<1>10. \A l \in Tasks : task'[l].pc = "restarting" => task'[l] = task[l]
  BY <1>0, <1>3 DEF Handling
<1>11. Listed'
  BY <1>10, ListedStays DEF Tidy
<1> QED
  BY <1>5, <1>8, <1>9, <1>11 DEF Tidy

LEMMA OpenDoneKeepsTidy ==
  ASSUME Base, Tidy, NEW k \in Tasks, OpenDone(k), threads[task[k].thread] = NoSession
  PROVE  Tidy'
<1> DEFINE t == task[k].thread
           s == task[k].sess
<1>1. /\ s \in Sessions /\ t \in Threads /\ task[k].cmd \in AllCommands
      /\ Handles(k, s) /\ sess[s].state = "opening" /\ sess[s].thread = t
  BY DEF OpenDone, Base, TypeOK, Task, Awaits, Fits, Handles, Tidy, OneHandler
<1>2. PICK x : x.pc \notin Handling /\ task' = [task EXCEPT ![k] = x]
  <2>1. Awaiting("archiving", task[k].cmd, t, threads'[t]).pc = "archiving" /\ Idle.pc = "idle"
    BY DEF Awaiting, Idle
  <2> QED
    BY <2>1 DEF OpenDone, Arrive, Handling
<1>3. task'[k] = x /\ \A l \in Tasks \ {k} : task'[l] = task[l]
  BY <1>2 DEF Base, TypeOK
<1>4. /\ threads' = [threads EXCEPT ![t] = s]
      /\ sess' = [sess EXCEPT ![s].state = "live", ![s].watched = TRUE]
  BY DEF OpenDone, Register
<1>5. /\ sess'[s].state = "live" /\ sess'[s].thread = t
      /\ \A u \in Sessions \ {s} : sess'[u] = sess[u]
  BY <1>4, <1>1, RegisteredSession DEF Base, TypeOK
<1>6. \A l \in Tasks, u \in Sessions : Handles(l, u)' => Handles(l, u) /\ l # k /\ u # s
  BY <1>1, <1>2, <1>3 DEF Handles, Handling, Tidy, OneHandler
<1>7. OneHandler'
  BY <1>3, <1>5, <1>6 DEF Tidy, OneHandler
<1>8. /\ threads \in [Threads -> Sessions \cup {NoSession}]
      /\ threads'[t] = s /\ \A u \in Threads \ {t} : threads'[u] = threads[u]
  BY <1>4, <1>1 DEF Base, TypeOK
<1>9. LiveAreRegistered'
  BY <1>1, <1>5, <1>8, SessionAssumption DEF Tidy, LiveAreRegistered
<1>10. \A u \in Threads : threads[u] # s
  BY <1>1, SessionAssumption DEF Tidy, OwnThread
<1>11. OwnThread'
  BY <1>1, <1>5, <1>6, <1>8, <1>10 DEF Tidy, OwnThread
<1>12. \A l \in Tasks : task'[l].pc = "restarting" => task'[l] = task[l]
  BY <1>2, <1>3 DEF Handling
<1>13. Listed'
  BY <1>8, <1>12, ListedStays DEF Tidy
<1> QED
  BY <1>7, <1>9, <1>11, <1>13 DEF Tidy

LEMMA ArchiveDoneKeepsTidy ==
  ASSUME Base, Tidy, Apart, NEW k \in Tasks, ArchiveDone(k)
  PROVE  Tidy'
<1> DEFINE t == task[k].thread
<1>1. t \in Threads /\ task[k].pc = "archiving" /\ threads' = [threads EXCEPT ![t] = NoSession]
  BY DEF ArchiveDone, Popped, Base, Awaits, Fits
<1>2. CASE threads[t] = NoSession
  <2>1. threads' = threads /\ UNCHANGED sess /\ task' = [task EXCEPT ![k] = Idle]
    BY <1>1, <1>2 DEF ArchiveDone, Base, TypeOK
  <2>2. OnlyFollows(k)
    BY <2>1, Records DEF OnlyFollows, Idle, Handling
  <2> QED
    BY <1>1, <2>1, <2>2, FollowingKeepsTidy DEF Handling
<1>3. CASE threads[t] # NoSession
  <2> DEFINE s == threads[t]
  <2>1. s \in Sessions /\ threads \in [Threads -> Sessions \cup {NoSession}]
    BY <1>1, <1>3 DEF Base, TypeOK
  <2>2. /\ sess' = [sess EXCEPT ![s].state = "closing", ![s].watched = FALSE]
        /\ task' = [task EXCEPT ![k] = Awaiting("closing", "archive", t, s)]
    BY <1>3 DEF ArchiveDone, Closing
  <2>3. Awaiting("closing", "archive", t, s).pc = "closing"
        /\ Awaiting("closing", "archive", t, s).sess = s
    BY DEF Awaiting, Idle
  <2>4. sess'[s].state = "closing" /\ \A u \in Sessions \ {s} : sess'[u] = sess[u]
    BY <2>1, <2>2, ClosedSession DEF Base, TypeOK
  <2>5. /\ task'[k].pc = "closing" /\ task'[k].sess = s
        /\ \A l \in Tasks \ {k} : task'[l] = task[l]
    BY <2>2, <2>3 DEF Base, TypeOK
  <2>6. \A l \in Tasks : ~Handles(l, s)
    BY <1>1, <1>3 DEF Tidy, OwnThread
  <2>7. \A l \in Tasks, u \in Sessions : Handles(l, u)' <=>
          (IF l = k THEN u = s ELSE Handles(l, u) /\ u # s)
    BY <2>5, <2>6 DEF Handles
  <2>8. OneHandler'
    BY <2>1, <2>4, <2>5, <2>7 DEF Tidy, OneHandler
  <2>9. threads'[t] = NoSession /\ \A u \in Threads \ {t} : threads'[u] = threads[u]
    BY <1>1 DEF Base, TypeOK
  <2>10. LiveAreRegistered'
    BY <1>1, <2>1, <2>4, <2>9 DEF Tidy, LiveAreRegistered
  <2>11. \A u \in Threads \ {t} : threads[u] # s
    BY <1>1, <1>3 DEF Tidy, OwnThread
  <2>12. OwnThread'
    BY <2>1, <2>4, <2>7, <2>9, <2>11 DEF Tidy, OwnThread
  <2>13. Listed'
    <3> SUFFICES ASSUME NEW l \in Tasks, task'[l].pc = "restarting" PROVE StillListed(l)'
      BY DEF Listed
    <3>1. l # k /\ task'[l] = task[l] /\ task[l].pc = "restarting"
      BY <2>5
    <3>2. t \in ToPop(k) /\ t \notin ToPop(l)
      BY <1>1, <3>1 DEF ToPop, Apart
    <3>3. task[l].thread # t /\ \A p \in task[l].todo : p[1] # t
      BY <1>1, <3>1, <3>2 DEF ToPop
    <3> QED
      BY <2>9, <3>1, <3>3, ListedTypes DEF StillListed, Tidy, Listed
  <2> QED
    BY <2>8, <2>10, <2>12, <2>13 DEF Tidy
<1> QED
  BY <1>2, <1>3

\* A restart goes on to the next session, or ends.  `after` is what the sessions
\* are by then.
LEMMA RestartNextKeepsTidy ==
  ASSUME Base, Tidy, NEW k \in Tasks, task[k].pc \notin {"opening", "closing"},
         NEW todo \in SUBSET (Threads \X Sessions), NEW after \in [Sessions -> Session],
         RestartNext(k, todo, after), threads' \in [Threads -> Sessions \cup {NoSession}],
         \A t \in Threads : threads'[t] \in {threads[t], NoSession},
         \A t \in Threads : threads'[t] # NoSession =>
            after[threads'[t]].thread = sess[threads'[t]].thread,
         \A l \in Tasks, s \in Sessions : Handles(l, s) =>
            after[s].state = sess[s].state /\ after[s].thread = sess[s].thread,
         \A s \in Sessions : after[s].state = "live" => \E t \in Threads : threads'[t] = s,
         \A p \in todo : threads'[p[1]] = p[2],
         \A l \in Tasks \ {k} : task[l].pc = "restarting" =>
            /\ threads'[task[l].thread] = task[l].sess
            /\ \A p \in task[l].todo : threads'[p[1]] = p[2] /\ p[1] # task[l].thread
  PROVE  Tidy'
<1>1. CASE todo = {}
  <2>1. task' = [task EXCEPT ![k] = Idle] /\ sess' = after
    BY <1>1 DEF RestartNext
  <2>2. task'[k].pc = "idle" /\ \A l \in Tasks \ {k} : task'[l] = task[l]
    BY <2>1 DEF Idle, Base, TypeOK
  <2>3. \A l \in Tasks, s \in Sessions : Handles(l, s)' => Handles(l, s) /\ task'[l] = task[l]
    BY <2>2 DEF Handles
  <2>4. OneHandler'
    BY <2>1, <2>3 DEF Tidy, OneHandler
  <2>5. LiveAreRegistered'
    BY <2>1 DEF LiveAreRegistered
  <2>6. OwnThread'
    BY <2>1, <2>3 DEF Tidy, OwnThread
  <2>7. Listed'
    BY <2>2 DEF Listed, StillListed
  <2> QED
    BY <2>4, <2>5, <2>6, <2>7 DEF Tidy
<1>2. CASE todo # {}
  <2>1. PICK p \in todo :
          /\ task' = [task EXCEPT ![k] = [Awaiting("restarting", "restart", p[1], p[2])
                                           EXCEPT !.todo = todo \ {p}]]
          /\ sess' = [after EXCEPT ![p[2]].state = "closing"]
    BY <1>2 DEF RestartNext
  <2>2. p[1] \in Threads /\ p[2] \in Sessions /\ threads'[p[1]] = p[2] /\ threads[p[1]] = p[2]
    BY SessionAssumption
  <2>3. /\ sess'[p[2]].state = "closing" /\ sess'[p[2]].thread = after[p[2]].thread
        /\ \A u \in Sessions \ {p[2]} : sess'[u] = after[u]
    BY <2>1, <2>2, ClosingSession
  <2>4. /\ task'[k].pc = "restarting" /\ task'[k].thread = p[1] /\ task'[k].sess = p[2]
        /\ task'[k].todo = todo \ {p}
        /\ \A l \in Tasks \ {k} : task'[l] = task[l]
    BY <2>1 DEF Awaiting, Idle, Base, TypeOK
  <2>5. \A l \in Tasks : ~Handles(l, p[2])
    BY <2>2, SessionAssumption DEF Tidy, OwnThread
  <2>6. \A l \in Tasks, s \in Sessions :
          Handles(l, s)' => Handles(l, s) /\ task'[l] = task[l] /\ s # p[2]
    BY <2>4, <2>5 DEF Handles
  <2>7. OneHandler'
    BY <2>3, <2>6 DEF Tidy, OneHandler
  <2>8. LiveAreRegistered'
    BY <2>2, <2>3 DEF LiveAreRegistered
  <2>9. OwnThread'
    BY <2>2, <2>3, <2>6 DEF Tidy, OwnThread
  <2>10. \A q \in todo \ {p} : threads'[q[1]] = q[2] /\ q[1] # p[1]
    <3> SUFFICES ASSUME NEW q \in todo \ {p} PROVE q[1] # p[1]
      OBVIOUS
    <3>1. q \in Threads \X Sessions /\ p \in Threads \X Sessions
      OBVIOUS
    <3>2. threads'[q[1]] = q[2] /\ threads'[p[1]] = p[2]
      OBVIOUS
    <3>3. q = <<q[1], q[2]>> /\ p = <<p[1], p[2]>>
      BY <3>1
    <3> QED
      BY <3>2, <3>3
  <2>11. Listed'
    BY <2>2, <2>4, <2>10 DEF Listed, StillListed
  <2> QED
    BY <2>7, <2>8, <2>9, <2>11 DEF Tidy
<1> QED
  BY <1>1, <1>2

LEMMA RestartKeepsTidy ==
  ASSUME Base, Tidy, NEW k \in Tasks, Restart(k)
  PROVE  Tidy'
<1> DEFINE todo == {<<t, threads[t]>> : t \in {u \in known : threads[u] # NoSession}}
           after == [s \in Sessions |->
             IF \E t \in Threads : <<t, s>> \in todo THEN [sess[s] EXCEPT !.watched = FALSE]
             ELSE sess[s]]
<1>1. RestartNext(k, todo, after) /\ UNCHANGED threads /\ task[k].pc = "idle"
  BY ReadyCommand DEF Restart
<1>2. /\ threads \in [Threads -> Sessions \cup {NoSession}] /\ known \in SUBSET Threads
      /\ sess \in [Sessions -> Session]
  BY DEF Base, TypeOK
<1>3. todo \in SUBSET (Threads \X Sessions)
  BY <1>2
<1>4. \A p \in todo : threads[p[1]] = p[2]
  OBVIOUS
<1> HIDE DEF todo
<1>5. after \in [Sessions -> Session]
  BY <1>2, Unwatched
<1>6. \A s \in Sessions : after[s].state = sess[s].state /\ after[s].thread = sess[s].thread
  BY <1>2 DEF Session
<1> HIDE DEF after
<1>7. \A s \in Sessions : after[s].state = "live" => \E t \in Threads : threads'[t] = s
  BY <1>1, <1>6 DEF Tidy, LiveAreRegistered
<1>8. \A l \in Tasks \ {k} : task[l].pc = "restarting" =>
        /\ threads'[task[l].thread] = task[l].sess
        /\ \A p \in task[l].todo : threads'[p[1]] = p[2] /\ p[1] # task[l].thread
  BY <1>1 DEF Tidy, Listed, StillListed
<1> QED
  BY <1>1, <1>2, <1>3, <1>4, <1>5, <1>6, <1>7, <1>8, RestartNextKeepsTidy

LEMMA RestartDoneKeepsTidy ==
  ASSUME Base, Tidy, Apart, NEW k \in Tasks, RestartDone(k)
  PROVE  Tidy'
<1> DEFINE t == task[k].thread
           s == task[k].sess
           after == [sess EXCEPT ![s] = Unused]
<1>1. task[k].pc = "restarting" /\ RestartNext(k, task[k].todo, after)
      /\ threads' = [threads EXCEPT ![t] = NoSession]
  BY DEF RestartDone, Popped
<1>2. /\ t \in Threads /\ s \in Sessions /\ threads[t] = s
      /\ \A p \in task[k].todo : p[1] \in Threads /\ threads[p[1]] = p[2] /\ p[1] # t
  BY <1>1, ListedTypes DEF Tidy, Listed, StillListed
<1>3. /\ threads \in [Threads -> Sessions \cup {NoSession}] /\ sess \in [Sessions -> Session]
      /\ task[k].todo \in SUBSET (Threads \X Sessions)
  BY DEF Base, TypeOK, Task
<1>4. /\ threads'[t] = NoSession /\ \A u \in Threads \ {t} : threads'[u] = threads[u]
      /\ threads' \in [Threads -> Sessions \cup {NoSession}]
  BY <1>1, <1>2, <1>3
<1>5. /\ after \in [Sessions -> Session] /\ after[s].state = "unused"
      /\ \A u \in Sessions \ {s} : after[u] = sess[u]
  BY <1>2, <1>3, Records DEF Unused
<1> HIDE DEF after
<1>6. \A l \in Tasks : ~Handles(l, s)
  BY <1>2, SessionAssumption DEF Tidy, OwnThread
<1>7. \A u \in Sessions : after[u].state = "live" => \E v \in Threads : threads'[v] = u
  BY <1>2, <1>4, <1>5 DEF Tidy, LiveAreRegistered
<1>8. \A p \in task[k].todo : threads'[p[1]] = p[2]
  BY <1>2, <1>4
<1>9. ASSUME NEW l \in Tasks \ {k}, task[l].pc = "restarting"
      PROVE  /\ threads'[task[l].thread] = task[l].sess
             /\ \A p \in task[l].todo : threads'[p[1]] = p[2] /\ p[1] # task[l].thread
  <2>1. t \in ToPop(k) /\ t \notin ToPop(l)
    BY <1>1, <1>2, <1>9 DEF ToPop, Apart
  <2>2. task[l].thread # t /\ \A p \in task[l].todo : p[1] # t
    BY <1>2, <1>9, <2>1 DEF ToPop
  <2> QED
    BY <1>4, <1>9, <2>2, ListedTypes DEF StillListed, Tidy, Listed
<1>10. \A u \in Threads : threads'[u] # NoSession =>
         after[threads'[u]].thread = sess[threads'[u]].thread
  <2>1. \A u \in Threads \ {t} : threads[u] # s
    BY <1>2, SessionAssumption DEF Tidy, OwnThread
  <2> QED
    BY <1>3, <1>4, <1>5, <2>1
<1>11. \A l \in Tasks, u \in Sessions : Handles(l, u) =>
         after[u].state = sess[u].state /\ after[u].thread = sess[u].thread
  BY <1>5, <1>6
<1>12. task[k].pc \notin {"opening", "closing"}
       /\ \A u \in Threads : threads'[u] \in {threads[u], NoSession}
  BY <1>1, <1>4
<1> QED
  BY <1>1, <1>3, <1>4, <1>5, <1>7, <1>8, <1>9, <1>10, <1>11, <1>12, RestartNextKeepsTidy

\* The session that could not be stopped, and the rest of the list, stay registered.
LEMMA RestartFailedKeepsTidy ==
  ASSUME Base, Tidy, NEW k \in Tasks, RestartFailed(k)
  PROVE  Tidy'
<1> DEFINE S == {task[k].sess} \cup {p[2] : p \in task[k].todo}
<1>1. task[k].pc = "restarting" /\ UNCHANGED threads
      /\ sess' = GivenUp(S) /\ task' = [task EXCEPT ![k] = Idle]
  BY DEF RestartFailed
<1>2. \A u \in S : \E t \in Threads : threads[t] = u /\ threads[t] # NoSession
  <2>1. /\ task[k].thread \in Threads /\ threads[task[k].thread] = task[k].sess
        /\ task[k].sess # NoSession
    BY <1>1, ListedTypes, SessionAssumption DEF Tidy, Listed, StillListed
  <2>2. \A p \in task[k].todo : p[1] \in Threads /\ threads[p[1]] = p[2] /\ p[2] # NoSession
    BY <1>1, ListedTypes, SessionAssumption DEF Tidy, Listed, StillListed
  <2> QED
    BY <2>1, <2>2
<1> HIDE DEF S
<1>3. /\ \A u \in Sessions : u \notin S => sess'[u] = sess[u]
      /\ \A u \in Sessions : sess'[u].thread = sess[u].thread
      /\ \A u \in Sessions : u \in S => sess'[u].state = "left"
  BY <1>1, GivenUpSessions DEF Base, TypeOK
<1>4. task'[k].pc = "idle" /\ \A l \in Tasks \ {k} : task'[l] = task[l]
  BY <1>1 DEF Idle, Base, TypeOK
<1>5. \A l \in Tasks, u \in S : ~Handles(l, u)
  BY <1>2 DEF Tidy, OwnThread
<1>6. \A l \in Tasks, u \in Sessions :
        Handles(l, u)' => Handles(l, u) /\ task'[l] = task[l] /\ u \notin S
  BY <1>4, <1>5 DEF Handles
<1>7. OneHandler'
  BY <1>3, <1>6 DEF Tidy, OneHandler
<1>8. threads \in [Threads -> Sessions \cup {NoSession}]
  BY DEF Base, TypeOK
<1>9. LiveAreRegistered'
  BY <1>1, <1>3 DEF Tidy, LiveAreRegistered
<1>10. OwnThread'
  BY <1>1, <1>3, <1>6, <1>8 DEF Tidy, OwnThread
<1>11. \A l \in Tasks : task'[l].pc = "restarting" => task'[l] = task[l]
  BY <1>4
<1>12. Listed'
  BY <1>1, <1>11, ListedStays DEF Tidy
<1> QED
  BY <1>7, <1>9, <1>10, <1>12 DEF Tidy

LEMMA TidyStep ==
  ASSUME Base, Tidy, Apart, [Next]_vars
  PROVE  Tidy'
<1>1. Effect
  BY EffectStep
<1>2. CASE UNCHANGED <<threads, sess, task>>
  BY <1>2 DEF Tidy, OneHandler, Handles, LiveAreRegistered, OwnThread, Listed, StillListed
<1>3. ASSUME NEW k \in Tasks, task[k].pc \notin Handling, UNCHANGED threads, OnlyFollows(k)
      PROVE  Tidy'
  BY <1>3, FollowingKeepsTidy
<1>4. ASSUME NEW k \in Tasks, NEW c \in AllCommands, NEW t \in Threads, NEW follow \in BOOLEAN,
             task[k].pc \notin Handling, UNCHANGED threads, Open(k, c, t, follow)
      PROVE  Tidy'
  BY <1>4, OpenKeepsTidy
<1>5. ASSUME NEW k \in Tasks, Drops(k), UNCHANGED threads PROVE Tidy'
  BY <1>5, DropKeepsTidy
<1>6. ASSUME NEW k \in Tasks, OpenDone(k) PROVE Tidy'
  <2>1. CASE threads[task[k].thread] = NoSession
    BY <1>6, <2>1, OpenDoneKeepsTidy
  <2>2. CASE threads[task[k].thread] # NoSession
    BY <1>6, <2>2, LateOpenDrops, DropKeepsTidy
  <2> QED
    BY <2>1, <2>2
<1>7. ASSUME NEW k \in Tasks, ArchiveDone(k) PROVE Tidy'
  BY <1>7, ArchiveDoneKeepsTidy
<1>8. ASSUME NEW k \in Tasks, Restart(k) PROVE Tidy'
  BY <1>8, RestartKeepsTidy
<1>9. ASSUME NEW k \in Tasks, RestartDone(k) PROVE Tidy'
  BY <1>9, RestartDoneKeepsTidy
<1>10. ASSUME NEW k \in Tasks, RestartFailed(k) PROVE Tidy'
  BY <1>10, RestartFailedKeepsTidy
<1> QED
  BY <1>1, <1>2, <1>3, <1>4, <1>5, <1>6, <1>7, <1>8, <1>9, <1>10 DEF Effect

LEMMA TidyInvariant == Spec /\ []Apart => [](Base /\ Tidy)
<1>1. Init => Tidy
  <2>1. Idle.pc = "idle" /\ Unused.state = "unused"
    BY DEF Idle, Unused
  <2>2. ASSUME Init
        PROVE  /\ \A k \in Tasks : task[k].pc = "idle"
               /\ \A s \in Sessions : sess[s].state = "unused"
               /\ \A t \in Threads : threads[t] = NoSession
    BY <2>1, <2>2 DEF Init
  <2> QED
    BY <2>2 DEF Tidy, OneHandler, Handles, LiveAreRegistered, OwnThread, Listed
<1>2. Base /\ Tidy /\ Apart /\ [Next]_vars => (Base /\ Tidy)'
  BY BaseStep, TidyStep
<1> QED
  BY <1>1, <1>2, InitBase, PTL DEF Spec

\* Every session that runs is registered, or its stop was tried and raised,
\* restarts and failures of any call included: no other is lost but where a restart
\* closes a thread that another restart or an archiving is closing too.
THEOREM NoSessionLeakApart == Spec /\ []Apart => []NoSessionLeak
<1>1. Tidy => NoSessionLeak
  BY NoneLeaked DEF Tidy
<1> QED
  BY <1>1, TidyInvariant, PTL

\* Where no stop raises, no session is left.
NoneLeft == \A s \in Sessions : sess[s].state # "left"
LEMMA NoneLeftStep ==
  ASSUME "stop" \notin Faults, Base, NoneLeft, [Next]_vars
  PROVE  NoneLeft'
<1>0. sess \in [Sessions -> Session] /\ Unused.state = "unused"
  BY DEF Base, TypeOK, Unused
<1>1. CASE UNCHANGED <<threads, sess, task>>
  BY <1>1 DEF NoneLeft
<1>2. ASSUME NEW k \in Tasks, OnlyFollows(k) PROVE NoneLeft'
  BY <1>2 DEF OnlyFollows, NoneLeft
<1>3. ASSUME NEW k \in Tasks, NEW c \in AllCommands, NEW t \in Threads, NEW follow \in BOOLEAN,
             Open(k, c, t, follow)
      PROVE  NoneLeft'
  <2>1. PICK s \in Free :
          sess' = [sess EXCEPT ![s] = [Unused EXCEPT !.state = "opening", !.thread = t,
                                                     !.following = follow]]
    BY <1>3 DEF Open
  <2>2. sess'[s].state = "opening" /\ \A u \in Sessions \ {s} : sess'[u] = sess[u]
    BY <1>0, <2>1 DEF Free, Unused
  <2> QED
    BY <2>2 DEF NoneLeft
<1>4. ASSUME NEW k \in Tasks, Drops(k) PROVE NoneLeft'
  BY <1>4, DropsLeaves DEF NoneLeft
<1>5. ASSUME NEW k \in Tasks, OpenDone(k) PROVE NoneLeft'
  <2>1. CASE threads[task[k].thread] = NoSession
    <3>1. task[k].sess \in Sessions
      BY <1>5 DEF OpenDone, Base, Awaits, Fits
    <3>2. sess' = [sess EXCEPT ![task[k].sess].state = "live", ![task[k].sess].watched = TRUE]
      BY <1>5, <2>1 DEF OpenDone, Register
    <3> QED
      BY <1>0, <3>1, <3>2, RegisteredSession DEF NoneLeft
  <2>2. CASE threads[task[k].thread] # NoSession
    BY <1>4, <1>5, <2>2, LateOpenDrops
  <2> QED
    BY <2>1, <2>2
<1>6. ASSUME NEW k \in Tasks, ArchiveDone(k) PROVE NoneLeft'
  <2>1. CASE threads[task[k].thread] = NoSession
    BY <1>6, <2>1 DEF ArchiveDone, NoneLeft
  <2>2. CASE threads[task[k].thread] # NoSession
    <3>1. Closing(k) \in Sessions
      BY <1>6, <2>2 DEF ArchiveDone, Closing, Base, TypeOK, Awaits, Fits
    <3>2. sess' = [sess EXCEPT ![Closing(k)].state = "closing", ![Closing(k)].watched = FALSE]
      BY <1>6, <2>2 DEF ArchiveDone
    <3> QED
      BY <1>0, <3>1, <3>2, ClosedSession DEF NoneLeft
  <2> QED
    BY <2>1, <2>2
<1>7. ASSUME NEW k \in Tasks, NEW todo \in SUBSET (Threads \X Sessions),
             NEW after \in [Sessions -> Session], RestartNext(k, todo, after),
             \A s \in Sessions : after[s].state # "left"
      PROVE  NoneLeft'
  <2>1. CASE todo = {}
    BY <1>7, <2>1 DEF RestartNext, NoneLeft
  <2>2. CASE todo # {}
    <3>1. PICK p \in todo : sess' = [after EXCEPT ![p[2]].state = "closing"]
      BY <1>7, <2>2 DEF RestartNext
    <3>2. p[2] \in Sessions
      OBVIOUS
    <3> QED
      BY <1>7, <3>1, <3>2, ClosingSession DEF NoneLeft
  <2> QED
    BY <2>1, <2>2
<1>8. ASSUME NEW k \in Tasks, Restart(k) PROVE NoneLeft'
  <2> DEFINE todo == {<<t, threads[t]>> : t \in {u \in known : threads[u] # NoSession}}
             after == [s \in Sessions |->
               IF \E t \in Threads : <<t, s>> \in todo THEN [sess[s] EXCEPT !.watched = FALSE]
               ELSE sess[s]]
  <2>1. RestartNext(k, todo, after)
    BY <1>8 DEF Restart
  <2>2. todo \in SUBSET (Threads \X Sessions)
    BY DEF Base, TypeOK
  <2> HIDE DEF todo
  <2>3. after \in [Sessions -> Session]
    BY <1>0, Unwatched
  <2>4. \A s \in Sessions : after[s].state # "left"
    BY <1>0 DEF Session, NoneLeft
  <2> HIDE DEF after
  <2> QED
    BY <1>7, <2>1, <2>2, <2>3, <2>4
<1>9. ASSUME NEW k \in Tasks, RestartDone(k) PROVE NoneLeft'
  <2> DEFINE after == [sess EXCEPT ![task[k].sess] = Unused]
  <2>1. RestartNext(k, task[k].todo, after)
    BY <1>9 DEF RestartDone
  <2>2. task[k].todo \in SUBSET (Threads \X Sessions)
    BY DEF Base, TypeOK, Task
  <2>3. after \in [Sessions -> Session] /\ \A s \in Sessions : after[s].state # "left"
    BY <1>0, Records DEF NoneLeft
  <2> HIDE DEF after
  <2> QED
    BY <1>7, <2>1, <2>2, <2>3
<1>10. ASSUME NEW k \in Tasks PROVE ~RestartFailed(k)
  BY DEF RestartFailed
<1> QED
  BY <1>1, <1>2, <1>3, <1>4, <1>5, <1>6, <1>8, <1>9, <1>10, EffectStep DEF Effect

\* "one CodexIpcSession per active thread", where no restart closes a thread that
\* another task closes and no stop raises, a session whose stop raised being one
\* that may run: both `start` and `_ensure_thread` may open the thread, and one of
\* the two sessions is given up.
THEOREM OneSessionPerThreadApart ==
  ASSUME "stop" \notin Faults PROVE Spec /\ []Apart => []OneSessionPerThread
<1>1. Tidy /\ NoneLeft => OneSessionPerThread
  <2> SUFFICES ASSUME Tidy, NoneLeft, NEW s1 \in Sessions, NEW s2 \in Sessions,
                      Runs(s1), Runs(s2), sess[s1].thread = sess[s2].thread
               PROVE  s1 = s2
    BY DEF OneSessionPerThread
  <2>0. sess[s1].state = "live" /\ sess[s2].state = "live"
    BY DEF Runs, NoneLeft
  <2>1. PICK t1 \in Threads : threads[t1] = s1
    BY <2>0 DEF Tidy, LiveAreRegistered
  <2>2. PICK t2 \in Threads : threads[t2] = s2
    BY <2>0 DEF Tidy, LiveAreRegistered
  <2>3. sess[s1].thread = t1 /\ sess[s2].thread = t2
    BY <2>1, <2>2, SessionAssumption DEF Tidy, OwnThread
  <2> QED
    BY <2>1, <2>2, <2>3
<1>2. Init => NoneLeft
  BY DEF Init, NoneLeft, Unused
<1>3. Base /\ NoneLeft /\ [Next]_vars => NoneLeft'
  BY NoneLeftStep
<1> QED
  BY <1>1, <1>2, <1>3, TidyInvariant, PTL DEF Spec

\* What is registered and what no restart has still to stop runs and is watched,
\* or is in one of the states `excepted`.
InRestart(t) == \E k \in Tasks : task[k].pc = "restarting" /\ t \in ToPop(k)
Fed(excepted, s) == (sess[s].state = "live" /\ sess[s].watched) \/ sess[s].state \in excepted
OthersRun(excepted) ==
  \A t \in Threads : threads[t] # NoSession /\ ~InRestart(t) => Fed(excepted, threads[t])

\* A step that leaves the restarts alone, and what is registered as it was.
LEMMA OthersStayRunning ==
  ASSUME Base, NEW X, OthersRun(X), threads' \in [Threads -> Sessions \cup {NoSession}],
         \A l \in Tasks : task[l].pc = "restarting" => task'[l] = task[l],
         \A t \in Threads : threads'[t] # NoSession =>
            \/ threads'[t] = threads[t] /\ (Fed(X, threads[t]) => Fed(X, threads[t])')
            \/ Fed(X, threads[t])'
  PROVE  OthersRun(X)'
<1> SUFFICES ASSUME NEW t \in Threads, threads'[t] # NoSession, ~InRestart(t)'
             PROVE  Fed(X, threads[t])'
  BY DEF OthersRun
<1>1. ~InRestart(t)
  <2> SUFFICES ASSUME NEW l \in Tasks, task[l].pc = "restarting", t \in ToPop(l) PROVE FALSE
    BY DEF InRestart
  <2>1. task'[l] = task[l]
    OBVIOUS
  <2>2. t \in ToPop(l)'
    BY <2>1 DEF ToPop
  <2> QED
    BY <2>1, <2>2 DEF InRestart
<1> QED
  BY <1>1 DEF OthersRun

LEMMA FollowingKeepsOthers ==
  ASSUME Base, NEW X, OthersRun(X), NEW k \in Tasks, OnlyFollows(k), UNCHANGED threads,
         task[k].pc \notin Handling
  PROVE  OthersRun(X)'
<1>1. threads \in [Threads -> Sessions \cup {NoSession}] /\ DOMAIN task = Tasks
  BY DEF Base, TypeOK
<1>2. \A l \in Tasks : task[l].pc = "restarting" => task'[l] = task[l]
  BY <1>1 DEF OnlyFollows, Handling
<1>3. \A s \in Sessions : Fed(X, s) => Fed(X, s)'
  BY DEF Fed, OnlyFollows
<1> QED
  BY <1>1, <1>2, <1>3, OthersStayRunning

\* A step that changes one session, which is not registered.
LEMMA OneSessionKeepsOthers ==
  ASSUME Base, NEW X, OthersRun(X), NEW k \in Tasks, UNCHANGED threads,
         NEW s \in Sessions, \A t \in Threads : threads[t] # s,
         \A u \in Sessions \ {s} : sess'[u] = sess[u],
         task[k].pc # "restarting", \A l \in Tasks \ {k} : task'[l] = task[l]
  PROVE  OthersRun(X)'
<1>1. threads \in [Threads -> Sessions \cup {NoSession}]
  BY DEF Base, TypeOK
<1>2. \A l \in Tasks : task[l].pc = "restarting" => task'[l] = task[l]
  OBVIOUS
<1>3. \A u \in Sessions \ {s} : Fed(X, u) => Fed(X, u)'
  BY DEF Fed
<1> QED
  BY <1>1, <1>2, <1>3, OthersStayRunning

LEMMA OpenKeepsOthers ==
  ASSUME Base, NEW X, OthersRun(X), NEW k \in Tasks, NEW c \in AllCommands, NEW t \in Threads,
         NEW follow \in BOOLEAN, Open(k, c, t, follow), UNCHANGED threads,
         task[k].pc \notin Handling
  PROVE  OthersRun(X)'
<1>1. PICK s \in Free :
        /\ sess' = [sess EXCEPT ![s] = [Unused EXCEPT !.state = "opening", !.thread = t,
                                                      !.following = follow]]
        /\ task' = [task EXCEPT ![k] = Awaiting("opening", c, t, s)]
  BY DEF Open
<1>2. s \in Sessions /\ \A u \in Threads : threads[u] # s
  BY <1>1 DEF Free, Referenced
<1>3. /\ \A u \in Sessions \ {s} : sess'[u] = sess[u]
      /\ \A l \in Tasks \ {k} : task'[l] = task[l]
  BY <1>1 DEF Base, TypeOK
<1> QED
  BY <1>2, <1>3, OneSessionKeepsOthers DEF Handling

LEMMA DropKeepsOthers ==
  ASSUME Base, Tidy, NEW X, OthersRun(X), NEW k \in Tasks, Drops(k), UNCHANGED threads
  PROVE  OthersRun(X)'
<1>1. task[k].sess \in Sessions /\ Handles(k, task[k].sess)
  BY DEF Base, Awaits, Fits, Handles, Drops
<1>2. /\ \A u \in Sessions \ {task[k].sess} : sess'[u] = sess[u]
      /\ \A l \in Tasks \ {k} : task'[l] = task[l]
      /\ task[k].pc # "restarting"
  BY DropsLeaves DEF Drops, Base, TypeOK
<1>3. \A t \in Threads : threads[t] # task[k].sess
  BY <1>1, SessionAssumption DEF Tidy, OwnThread
<1> QED
  BY <1>1, <1>2, <1>3, OneSessionKeepsOthers

LEMMA OpenDoneKeepsOthers ==
  ASSUME Base, NEW X, OthersRun(X), NEW k \in Tasks, OpenDone(k), threads[task[k].thread] = NoSession
  PROVE  OthersRun(X)'
<1> DEFINE t == task[k].thread
           s == task[k].sess
<1>1. s \in Sessions /\ t \in Threads /\ task[k].pc = "opening"
  BY DEF OpenDone, Base, TypeOK, Task, Awaits, Fits
<1>2. \A l \in Tasks \ {k} : task'[l] = task[l]
  BY DEF OpenDone, Arrive, Base, TypeOK
<1>3. /\ threads' = [threads EXCEPT ![t] = s]
      /\ sess' = [sess EXCEPT ![s].state = "live", ![s].watched = TRUE]
  BY DEF OpenDone, Register
<1>4. /\ sess'[s].state = "live" /\ sess'[s].watched
      /\ \A u \in Sessions \ {s} : sess'[u] = sess[u]
  BY <1>1, <1>3, RegisteredSession DEF Base, TypeOK
<1>5. \A u \in Sessions : Fed(X, u) => Fed(X, u)'
  BY <1>4 DEF Fed
<1>6. /\ threads \in [Threads -> Sessions \cup {NoSession}]
      /\ threads'[t] = s /\ \A u \in Threads \ {t} : threads'[u] = threads[u]
      /\ threads' \in [Threads -> Sessions \cup {NoSession}]
  BY <1>1, <1>3 DEF Base, TypeOK
<1>7. \A l \in Tasks : task[l].pc = "restarting" => task'[l] = task[l]
  BY <1>1, <1>2
<1>8. ASSUME NEW u \in Threads, threads'[u] # NoSession
      PROVE  \/ threads'[u] = threads[u] /\ (Fed(X, threads[u]) => Fed(X, threads[u])')
             \/ Fed(X, threads[u])'
  <2>1. CASE u = t
    <3>1. threads'[u] = s
      BY <1>6, <2>1
    <3> QED
      BY <1>4, <3>1 DEF Fed
  <2>2. CASE u # t
    <3>1. threads'[u] = threads[u] /\ threads[u] \in Sessions
      BY <1>6, <1>8, <2>2
    <3> QED
      BY <1>5, <3>1
  <2> QED
    BY <2>1, <2>2
<1> QED
  BY <1>6, <1>7, <1>8, OthersStayRunning

LEMMA ArchiveDoneKeepsOthers ==
  ASSUME Base, Tidy, NEW X, OthersRun(X), NEW k \in Tasks, ArchiveDone(k)
  PROVE  OthersRun(X)'
<1> DEFINE t == task[k].thread
<1>1. t \in Threads /\ task[k].pc = "archiving" /\ threads' = [threads EXCEPT ![t] = NoSession]
  BY DEF ArchiveDone, Popped, Base, Awaits, Fits
<1>2. /\ threads \in [Threads -> Sessions \cup {NoSession}] /\ DOMAIN task = Tasks
      /\ DOMAIN sess = Sessions
  BY DEF Base, TypeOK
<1>3. /\ threads'[t] = NoSession /\ \A u \in Threads \ {t} : threads'[u] = threads[u]
      /\ threads' \in [Threads -> Sessions \cup {NoSession}]
  BY <1>1, <1>2
<1>4. \A l \in Tasks : task[l].pc = "restarting" => task'[l] = task[l]
  BY <1>1, <1>2 DEF ArchiveDone
<1>5. \A s \in Sessions : s # threads[t] => sess'[s] = sess[s]
  BY <1>2 DEF ArchiveDone, Closing
<1>6. \A u \in Threads : u # t /\ threads[u] # NoSession => threads[u] # threads[t]
  BY <1>1 DEF Tidy, OwnThread
<1>7. \A u \in Threads : threads'[u] # NoSession =>
        threads'[u] = threads[u] /\ sess'[threads[u]] = sess[threads[u]]
  BY <1>2, <1>3, <1>5, <1>6
<1> QED
  BY <1>3, <1>4, <1>7, OthersStayRunning DEF Fed

\* A restart goes on to the next session: all that runs, and that it leaves, is
\* in its list or unlike what it changes.
LEMMA RestartNextKeepsOthers ==
  ASSUME Base, NEW X, NEW k \in Tasks, NEW todo \in SUBSET (Threads \X Sessions),
         NEW after \in [Sessions -> Session], RestartNext(k, todo, after),
         threads' \in [Threads -> Sessions \cup {NoSession}],
         \A t, u \in Threads : threads'[t] # NoSession /\ threads'[t] = threads'[u] => t = u,
         \A p \in todo : threads'[p[1]] = p[2],
         \A t \in Threads : threads'[t] # NoSession /\ (\A p \in todo : p[1] # t) =>
            \/ after[threads'[t]].state = "live" /\ after[threads'[t]].watched
            \/ after[threads'[t]].state \in X
            \/ \E l \in Tasks \ {k} : task[l].pc = "restarting" /\ t \in ToPop(l)
  PROVE  OthersRun(X)'
<1> SUFFICES ASSUME NEW t \in Threads, threads'[t] # NoSession, ~InRestart(t)'
             PROVE  Fed(X, threads[t])'
  BY DEF OthersRun
<1>1. \A l \in Tasks \ {k} : task'[l] = task[l]
  BY DEF RestartNext, Base, TypeOK
<1>2. ~ \E l \in Tasks \ {k} : task[l].pc = "restarting" /\ t \in ToPop(l)
  <2> SUFFICES ASSUME NEW l \in Tasks \ {k}, task[l].pc = "restarting", t \in ToPop(l)
               PROVE  FALSE
    OBVIOUS
  <2>1. task'[l] = task[l]
    BY <1>1
  <2>2. t \in ToPop(l)'
    BY <2>1 DEF ToPop
  <2> QED
    BY <2>1, <2>2 DEF InRestart
<1>3. CASE todo = {}
  <2>1. sess' = after
    BY <1>3 DEF RestartNext
  <2> QED
    BY <1>2, <1>3, <2>1 DEF Fed
<1>4. CASE todo # {}
  <2>1. PICK p \in todo :
          /\ task' = [task EXCEPT ![k] = [Awaiting("restarting", "restart", p[1], p[2])
                                           EXCEPT !.todo = todo \ {p}]]
          /\ sess' = [after EXCEPT ![p[2]].state = "closing"]
    BY <1>4 DEF RestartNext
  <2>2. p[1] \in Threads /\ p[2] \in Sessions /\ threads'[p[1]] = p[2]
    OBVIOUS
  <2>3. \A u \in Sessions \ {p[2]} : sess'[u] = after[u]
    BY <2>1, <2>2, ClosingSession
  <2>4. /\ task'[k].pc = "restarting" /\ task'[k].thread = p[1]
        /\ task'[k].todo = todo \ {p}
    BY <2>1 DEF Awaiting, Idle, Base, TypeOK
  <2>5. t \notin ToPop(k)'
    BY <2>4 DEF InRestart
  <2>6. t # p[1] /\ \A q \in todo \ {p} : q[1] # t
    BY <2>4, <2>5 DEF ToPop
  <2>7. threads'[t] \in Sessions \ {p[2]}
    BY <2>2, <2>6
  <2>8. \A q \in todo : q[1] # t
    BY <2>6
  <2> QED
    BY <1>2, <2>3, <2>7, <2>8 DEF Fed
<1> QED
  BY <1>3, <1>4

LEMMA RestartKeepsOthers ==
  ASSUME Base, Tidy, NEW X, OthersRun(X), NEW k \in Tasks, Restart(k)
  PROVE  OthersRun(X)'
<1> DEFINE todo == {<<t, threads[t]>> : t \in {u \in known : threads[u] # NoSession}}
           after == [s \in Sessions |->
             IF \E t \in Threads : <<t, s>> \in todo THEN [sess[s] EXCEPT !.watched = FALSE]
             ELSE sess[s]]
<1>1. RestartNext(k, todo, after) /\ UNCHANGED threads /\ task[k].pc = "idle"
  BY ReadyCommand DEF Restart
<1>2. /\ threads \in [Threads -> Sessions \cup {NoSession}] /\ known \in SUBSET Threads
      /\ sess \in [Sessions -> Session]
  BY DEF Base, TypeOK
<1>3. todo \in SUBSET (Threads \X Sessions)
  BY <1>2
<1>4. \A p \in todo : threads'[p[1]] = p[2]
  BY <1>1
<1> HIDE DEF todo
<1>5. after \in [Sessions -> Session]
  BY <1>2, Unwatched
<1>6. \A t, u \in Threads : threads'[t] # NoSession /\ threads'[t] = threads'[u] => t = u
  BY <1>1 DEF Tidy, OwnThread
<1>7. ASSUME NEW t \in Threads, threads'[t] # NoSession, \A p \in todo : p[1] # t
      PROVE  \/ after[threads'[t]].state = "live" /\ after[threads'[t]].watched
             \/ after[threads'[t]].state \in X
             \/ \E l \in Tasks \ {k} : task[l].pc = "restarting" /\ t \in ToPop(l)
  <2>1. threads[t] \in Sessions /\ threads'[t] = threads[t]
    BY <1>1, <1>2, <1>7
  <2>2. CASE InRestart(t)
    BY <1>1, <2>2 DEF InRestart
  <2>3. CASE ~InRestart(t)
    <3>1. Fed(X, threads[t])
      BY <1>7, <2>1, <2>3 DEF OthersRun
    <3>2. ~ \E u \in Threads : <<u, threads[t]>> \in todo
      <4> SUFFICES ASSUME NEW u \in Threads, <<u, threads[t]>> \in todo PROVE FALSE
        OBVIOUS
      <4>1. threads'[u] = threads[t]
        BY <1>4
      <4> QED
        BY <1>6, <1>7, <2>1, <4>1
    <3> QED
      BY <2>1, <3>1, <3>2 DEF Fed
  <2> QED
    BY <2>2, <2>3
<1> HIDE DEF after
<1> QED
  BY <1>1, <1>2, <1>3, <1>4, <1>5, <1>6, <1>7, RestartNextKeepsOthers

LEMMA RestartDoneKeepsOthers ==
  ASSUME Base, Tidy, NEW X, OthersRun(X), NEW k \in Tasks, RestartDone(k)
  PROVE  OthersRun(X)'
<1> DEFINE t == task[k].thread
           s == task[k].sess
           after == [sess EXCEPT ![s] = Unused]
<1>1. task[k].pc = "restarting" /\ RestartNext(k, task[k].todo, after)
      /\ threads' = [threads EXCEPT ![t] = NoSession]
  BY DEF RestartDone, Popped
<1>2. /\ t \in Threads /\ s \in Sessions /\ threads[t] = s
      /\ \A p \in task[k].todo : p[1] \in Threads /\ threads[p[1]] = p[2] /\ p[1] # t
  BY <1>1, ListedTypes DEF Tidy, Listed, StillListed
<1>3. /\ threads \in [Threads -> Sessions \cup {NoSession}] /\ sess \in [Sessions -> Session]
      /\ task[k].todo \in SUBSET (Threads \X Sessions)
  BY DEF Base, TypeOK, Task
<1>4. /\ threads'[t] = NoSession /\ \A u \in Threads \ {t} : threads'[u] = threads[u]
      /\ threads' \in [Threads -> Sessions \cup {NoSession}]
  BY <1>1, <1>2, <1>3
<1>5. /\ after \in [Sessions -> Session]
      /\ \A u \in Sessions \ {s} : after[u] = sess[u]
  BY <1>2, <1>3, Records
<1> HIDE DEF after
<1>6. \A u, v \in Threads : threads[u] # NoSession /\ threads[u] = threads[v] => u = v
  BY DEF Tidy, OwnThread
<1>7. \A u, v \in Threads : threads'[u] # NoSession /\ threads'[u] = threads'[v] => u = v
  BY <1>4, <1>6
<1>8. \A p \in task[k].todo : threads'[p[1]] = p[2]
  BY <1>2, <1>4
<1>9. ASSUME NEW u \in Threads, threads'[u] # NoSession, \A p \in task[k].todo : p[1] # u
      PROVE  \/ after[threads'[u]].state = "live" /\ after[threads'[u]].watched
             \/ after[threads'[u]].state \in X
             \/ \E l \in Tasks \ {k} : task[l].pc = "restarting" /\ u \in ToPop(l)
  <2>1. u # t /\ threads'[u] = threads[u] /\ threads[u] \in Sessions
    BY <1>3, <1>4, <1>9
  <2>2. threads[u] # s
    BY <1>2, <1>6, <1>9, <2>1
  <2>3. u \notin ToPop(k)
    BY <1>9, <2>1 DEF ToPop
  <2>4. CASE InRestart(u)
    BY <2>3, <2>4 DEF InRestart
  <2>5. CASE ~InRestart(u)
    BY <1>5, <1>9, <2>1, <2>2, <2>5 DEF OthersRun, Fed
  <2> QED
    BY <2>4, <2>5
<1> QED
  BY <1>1, <1>3, <1>4, <1>5, <1>7, <1>8, <1>9, RestartNextKeepsOthers

\* A restart that fails leaves all that it had listed.
LEMMA RestartFailedKeepsOthers ==
  ASSUME Base, Tidy, OthersRun({"left"}), NEW k \in Tasks, RestartFailed(k)
  PROVE  OthersRun({"left"})'
<1> DEFINE S == {task[k].sess} \cup {p[2] : p \in task[k].todo}
<1>1. task[k].pc = "restarting" /\ UNCHANGED threads
      /\ sess' = GivenUp(S) /\ task' = [task EXCEPT ![k] = Idle]
  BY DEF RestartFailed
<1>2. \A l \in Tasks \ {k} : task'[l] = task[l]
  BY <1>1 DEF Base, TypeOK
<1> SUFFICES ASSUME NEW t \in Threads, threads[t] # NoSession, ~InRestart(t)'
             PROVE  Fed({"left"}, threads[t])'
  BY <1>1 DEF OthersRun
<1>3. threads[t] \in Sessions
  BY DEF Base, TypeOK
<1>4. CASE t \in ToPop(k)
  <2>1. threads[t] \in S
    BY <1>1, <1>4 DEF ToPop, Tidy, Listed, StillListed
  <2> HIDE DEF S
  <2>2. sess'[threads[t]].state = "left"
    BY <1>1, <1>3, <2>1, GivenUpSessions DEF Base, TypeOK
  <2> QED
    BY <1>1, <2>2 DEF Fed
<1>5. CASE t \notin ToPop(k)
  <2>1. ~InRestart(t)
    <3> SUFFICES ASSUME NEW l \in Tasks, task[l].pc = "restarting", t \in ToPop(l) PROVE FALSE
      BY DEF InRestart
    <3>1. l # k /\ task'[l] = task[l]
      BY <1>2, <1>5
    <3>2. t \in ToPop(l)'
      BY <3>1 DEF ToPop
    <3> QED
      BY <3>1, <3>2 DEF InRestart
  <2>2. Fed({"left"}, threads[t])
    BY <2>1 DEF OthersRun
  <2> HIDE DEF S
  <2>3. sess'[threads[t]] = sess[threads[t]] \/ sess'[threads[t]].state = "left"
    BY <1>1, <1>3, GivenUpSessions DEF Base, TypeOK
  <2> QED
    BY <1>1, <2>2, <2>3 DEF Fed
<1> QED
  BY <1>4, <1>5

\* A stop that raises ends the restart.
RestartFails == \E k \in Tasks : RestartFailed(k)

LEMMA OthersStep ==
  ASSUME Base, Tidy, NEW X, OthersRun(X), [Next]_vars,
         X = {"left"} \/ [~RestartFails]_vars
  PROVE  OthersRun(X)'
<1>1. CASE UNCHANGED <<threads, sess, task>>
  BY <1>1 DEF OthersRun, InRestart, ToPop, Fed
<1>2. ASSUME NEW k \in Tasks, task[k].pc \notin Handling, UNCHANGED threads, OnlyFollows(k)
      PROVE  OthersRun(X)'
  BY <1>2, FollowingKeepsOthers
<1>3. ASSUME NEW k \in Tasks, NEW c \in AllCommands, NEW t \in Threads, NEW follow \in BOOLEAN,
             task[k].pc \notin Handling, UNCHANGED threads, Open(k, c, t, follow)
      PROVE  OthersRun(X)'
  BY <1>3, OpenKeepsOthers
<1>4. ASSUME NEW k \in Tasks, Drops(k), UNCHANGED threads PROVE OthersRun(X)'
  BY <1>4, DropKeepsOthers
<1>5. ASSUME NEW k \in Tasks, OpenDone(k) PROVE OthersRun(X)'
  <2>1. CASE threads[task[k].thread] = NoSession
    BY <1>5, <2>1, OpenDoneKeepsOthers
  <2>2. CASE threads[task[k].thread] # NoSession
    BY <1>5, <2>2, LateOpenDrops, DropKeepsOthers
  <2> QED
    BY <2>1, <2>2
<1>6. ASSUME NEW k \in Tasks, ArchiveDone(k) PROVE OthersRun(X)'
  BY <1>6, ArchiveDoneKeepsOthers
<1>7. ASSUME NEW k \in Tasks, Restart(k) PROVE OthersRun(X)'
  BY <1>7, RestartKeepsOthers
<1>8. ASSUME NEW k \in Tasks, RestartDone(k) PROVE OthersRun(X)'
  BY <1>8, RestartDoneKeepsOthers
<1>9. ASSUME NEW k \in Tasks, RestartFailed(k) PROVE OthersRun(X)'
  <2>1. CASE X = {"left"}
    BY <1>9, <2>1, RestartFailedKeepsOthers
  <2>2. CASE [~RestartFails]_vars
    <3>1. UNCHANGED vars
      BY <1>9, <2>2 DEF RestartFails
    <3> QED
      BY <1>1, <3>1 DEF vars
  <2> QED
    BY <2>1, <2>2
<1> QED
  BY <1>1, <1>2, <1>3, <1>4, <1>5, <1>6, <1>7, <1>8, <1>9, EffectStep DEF Effect

\* Restarts included, what is registered is a running, watched session of its
\* thread whenever no restart is under way, if no restart fails: one that does has
\* cancelled the watchers of threads that it leaves registered.
NoRestart == \A k \in Tasks : task[k].pc # "restarting"
THEOREM RegisteredIsRunningAfter ==
  Spec /\ []Apart /\ [][~RestartFails]_vars => [](NoRestart => RegisteredIsRunning)
<1>1. Init => OthersRun({})
  BY DEF Init, OthersRun
<1>2. Base /\ Tidy /\ OthersRun({}) /\ [Next]_vars /\ [~RestartFails]_vars => OthersRun({})'
  BY OthersStep
<1>3. Base /\ Tidy /\ OthersRun({}) /\ NoRestart => RegisteredIsRunning
  <2> SUFFICES ASSUME Base, Tidy, OthersRun({}), NoRestart, NEW t \in Threads,
                      threads[t] # NoSession
               PROVE  /\ sess[threads[t]].thread = t /\ sess[threads[t]].state = "live"
                      /\ sess[threads[t]].watched
    BY DEF RegisteredIsRunning
  <2>1. ~InRestart(t)
    BY DEF InRestart, NoRestart
  <2> QED
    BY <2>1 DEF OthersRun, Fed, Tidy, OwnThread
<1> QED
  BY <1>1, <1>2, <1>3, TidyInvariant, PTL DEF Spec
-----------------------------------------------------------------------------
(***************************************************************************)
(* The subscribers of a thread without a session.                          *)
(***************************************************************************)

\* What _ensure_thread leaves task k in, and who is not concerned.
Ensured(k, c, t) ==
  /\ \A l \in Tasks \ {k} : task'[l] = task[l]
  /\ \/ /\ task'[k].pc \in {"lock", "opening"} /\ threads[t] = NoSession
        /\ task'[k].cmd = c /\ task'[k].thread = t /\ book' = book
     \/ /\ task'[k].pc = "following" /\ threads[t] # NoSession
        /\ task'[k].cmd = c /\ task'[k].thread = t /\ book' = book
     \/ /\ task'[k] = Idle /\ threads[t] # NoSession
        /\ book' = IF c = "subscribe" THEN [book EXCEPT ![k] = @ \cup {t}] ELSE book

LEMMA ReuseEnsures ==
  ASSUME Base, NEW k \in Tasks, NEW c, c # "archive", NEW t \in Threads,
         NEW follow \in BOOLEAN, Reuse(k, c, t, follow)
  PROVE  Ensured(k, c, t) /\ (task'[k].pc = "following" => follow)
         /\ task'[k].pc \in {"following", "idle"}
<1>1. CASE follow
  <2>1. PICK ok : task' = [task EXCEPT ![k] =
                             [Awaiting("following", c, t, threads[t]) EXCEPT !.ok = ok]]
    BY <1>1 DEF Reuse, CallFollow
  <2> DEFINE x == [Awaiting("following", c, t, threads[t]) EXCEPT !.ok = ok]
  <2>2. x.pc = "following" /\ x.cmd = c /\ x.thread = t
    BY DEF Awaiting, Idle
  <2>3. task'[k] = x /\ \A l \in Tasks \ {k} : task'[l] = task[l]
    BY <2>1 DEF Base, TypeOK
  <2> HIDE DEF x
  <2> QED
    BY <1>1, <2>2, <2>3 DEF Reuse, CallFollow, Ensured
<1>2. CASE ~follow
  BY <1>2 DEF Reuse, Arrive, Ensured, Base, TypeOK, Idle
<1> QED
  BY <1>1, <1>2

LEMMA OpenEnsures ==
  ASSUME Base, NEW k \in Tasks, NEW c, NEW t \in Threads, threads[t] = NoSession,
         NEW follow, Open(k, c, t, follow)
  PROVE  Ensured(k, c, t) /\ task'[k].pc = "opening"
<1>1. PICK s : task' = [task EXCEPT ![k] = Awaiting("opening", c, t, s)]
  BY DEF Open
<1>2. /\ Awaiting("opening", c, t, s).pc = "opening" /\ Awaiting("opening", c, t, s).cmd = c
      /\ Awaiting("opening", c, t, s).thread = t
  BY DEF Awaiting, Idle
<1> QED
  BY <1>1, <1>2 DEF Open, Ensured, Base, TypeOK

LEMMA EnsureEnsures ==
  ASSUME Base, NEW k \in Tasks, NEW c, c # "archive", NEW t \in Threads,
         NEW follow \in BOOLEAN, Ensure(k, c, t, follow)
  PROVE  Ensured(k, c, t) /\ (task'[k].pc = "following" => follow)
<1>1. CASE Reuse(k, c, t, follow)
  BY <1>1, ReuseEnsures
<1>2. CASE threads[t] = NoSession /\ Open(k, c, t, follow)
  BY <1>2, OpenEnsures
<1>3. CASE /\ threads[t] = NoSession
           /\ task' = [task EXCEPT ![k] =
                         [Awaiting("lock", c, t, NoSession) EXCEPT !.follow = follow]]
           /\ UNCHANGED <<sess, book>>
  <2> DEFINE x == [Awaiting("lock", c, t, NoSession) EXCEPT !.follow = follow]
  <2>1. x.pc = "lock" /\ x.cmd = c /\ x.thread = t
    BY DEF Awaiting, Idle
  <2>2. task'[k] = x /\ \A l \in Tasks \ {k} : task'[l] = task[l]
    BY <1>3 DEF Base, TypeOK
  <2> HIDE DEF x
  <2> QED
    BY <1>3, <2>1, <2>2 DEF Ensured
<1> QED
  BY <1>1, <1>2, <1>3 DEF Ensure

\* How far manager.unsubscribe comes with the threads of T: it has left them, or
\* those of P, and is about to return from the call it makes for t.
Left(c, cmd, T) ==
  /\ \A l \in Tasks \ {c} : task'[l] = task[l]
  /\ \A d \in Conns \ {c} : book'[d] = book[d]
  /\ \/ /\ task'[c] = Idle /\ book'[c] = book[c] \ T
        /\ \A u \in Threads : hub'[u] = IF u \in T THEN hub[u] \ {c} ELSE hub[u]
     \/ \E t \in T : \E P \in SUBSET (T \ {t}) :
          /\ task'[c].pc = "unfollowing" /\ task'[c].cmd = cmd /\ task'[c].thread = t
          /\ book'[c] = book[c] \ P
          /\ \A u \in Threads : hub'[u] = IF u \in P \cup {t} THEN hub[u] \ {c} ELSE hub[u]

LEMMA LeaveLeaves ==
  ASSUME Base, NEW c \in Conns, NEW cmd, NEW T \in SUBSET Threads, LeaveThreads(c, cmd, T)
  PROVE  Left(c, cmd, T)
<1>0. c \in Tasks
  BY DEF Tasks
<1>1. CASE /\ hub' = HubWithout(c, T) /\ book' = [book EXCEPT ![c] = @ \ T]
           /\ task' = [task EXCEPT ![c] = Idle]
  BY <1>0, <1>1 DEF Left, HubWithout, Base, TypeOK
<1>2. ASSUME NEW t \in T, NEW P \in SUBSET T, ~Silent(c, t), \A u \in P : Silent(c, u),
             hub' = HubWithout(c, P \cup {t}), book' = [book EXCEPT ![c] = @ \ P],
             task' = [task EXCEPT ![c] = Awaiting("unfollowing", cmd, t, threads[t])]
      PROVE  Left(c, cmd, T)
  <2> DEFINE x == Awaiting("unfollowing", cmd, t, threads[t])
  <2>1. x.pc = "unfollowing" /\ x.cmd = cmd /\ x.thread = t
    BY DEF Awaiting, Idle
  <2> HIDE DEF x
  <2>2. task'[c] = x /\ \A l \in Tasks \ {c} : task'[l] = task[l]
    BY <1>0, <1>2 DEF x, Base, TypeOK
  <2>3. book'[c] = book[c] \ P /\ \A d \in Conns \ {c} : book'[d] = book[d]
    BY <1>2 DEF Base, TypeOK
  <2>4. P \in SUBSET (T \ {t})
    BY <1>2
  <2>5. \A u \in Threads : hub'[u] = IF u \in P \cup {t} THEN hub[u] \ {c} ELSE hub[u]
    BY <1>2 DEF HubWithout
  <2> QED
    BY <2>1, <2>2, <2>3, <2>4, <2>5 DEF Left
<1> QED
  BY <1>1, <1>2 DEF LeaveThreads

\* A queue of a thread without a session is that of a connection that still
\* opens the thread for its subscription, or is about to be dropped: the thread's
\* session is being stopped.
WaitsFor(c, t) ==
  task[c].pc \in {"lock", "opening"} /\ task[c].cmd = "subscribe" /\ task[c].thread = t
IsClosed(t) == \E k \in Tasks : task[k].pc = "closing" /\ task[k].thread = t
UnfedIsDropped ==
  \A c \in Conns, t \in Threads :
    c \in hub[t] /\ threads[t] = NoSession => WaitsFor(c, t) \/ IsClosed(t)

LEMMA UnfedStays ==
  ASSUME UnfedIsDropped, NEW k \in Tasks, OthersStay(k), task[k].pc # "closing",
         task[k].pc \in {"lock", "opening"} => task[k].cmd # "subscribe",
         \A c \in Conns, t \in Threads : c \in hub'[t] => c \in hub[t],
         \A t \in Threads : threads[t] # NoSession => threads'[t] # NoSession
  PROVE  UnfedIsDropped'
<1> SUFFICES ASSUME NEW c \in Conns, NEW t \in Threads, c \in hub'[t], threads'[t] = NoSession
             PROVE  WaitsFor(c, t)' \/ IsClosed(t)'
  BY DEF UnfedIsDropped
<1>1. c \in Tasks
  BY DEF Tasks
<1>2. CASE WaitsFor(c, t)
  BY <1>1, <1>2 DEF WaitsFor, OthersStay
<1>3. CASE IsClosed(t)
  BY <1>3 DEF IsClosed, OthersStay
<1> QED
  BY <1>2, <1>3 DEF UnfedIsDropped

LEMMA UnfedStep ==
  ASSUME "archive" \notin Commands \/ "stop" \notin Faults, Base, UnfedIsDropped, [Next]_vars
  PROVE  UnfedIsDropped'
<1> USE DEF Tasks
<1>0. Commands \subseteq AllCommands /\ Idle.pc = "idle"
  BY CommandAssumption DEF Idle
<1>1. ASSUME NEW c \in Conns, NEW t \in Threads, Subscribe(c, t) PROVE UnfedIsDropped'
  <2>1. task[c].pc = "idle" /\ UNCHANGED threads /\ hub' = [hub EXCEPT ![t] = @ \cup {c}]
    BY <1>1, ReadyCommand DEF Subscribe
  <2>2. Ensured(c, "subscribe", t)
    BY <1>1, EnsureEnsures DEF Subscribe, First
  <2> SUFFICES ASSUME NEW d \in Conns, NEW u \in Threads, d \in hub'[u], threads'[u] = NoSession
               PROVE  WaitsFor(d, u)' \/ IsClosed(u)'
    BY DEF UnfedIsDropped
  <2>3. CASE d = c /\ u = t
    BY <2>1, <2>2, <2>3 DEF Ensured, WaitsFor
  <2>4. CASE ~(d = c /\ u = t)
    <3>1. d \in hub[u]
      BY <2>1, <2>4 DEF Base, TypeOK
    <3>2. WaitsFor(d, u) \/ IsClosed(u)
      BY <2>1, <3>1 DEF UnfedIsDropped
    <3> QED
      BY <2>1, <2>2, <3>2 DEF Ensured, WaitsFor, IsClosed
  <2> QED
    BY <2>3, <2>4
<1>2. ASSUME NEW c \in Conns, NEW cmd, NEW T \in SUBSET Threads, LeaveThreads(c, cmd, T),
             task[c].pc \in {"idle", "unfollowing"}, UNCHANGED threads
      PROVE  UnfedIsDropped'
  <2>0. Left(c, cmd, T)
    BY <1>2, LeaveLeaves
  <2>1. \A d \in Conns, t \in Threads : d \in hub'[t] => d \in hub[t]
    <3>1. CASE \A u \in Threads : hub'[u] = IF u \in T THEN hub[u] \ {c} ELSE hub[u]
      BY <3>1
    <3>2. ASSUME NEW P, \A u \in Threads : hub'[u] = IF u \in P THEN hub[u] \ {c} ELSE hub[u]
          PROVE  \A d \in Conns, t \in Threads : d \in hub'[t] => d \in hub[t]
      BY <3>2
    <3> QED
      BY <2>0, <3>1, <3>2 DEF Left
  <2> QED
    BY <1>2, <2>1, LeavePc, UnfedStays
<1>3. ASSUME NEW c \in Conns, NEW t \in Threads, Unsubscribe(c, t) PROVE UnfedIsDropped'
  BY <1>2, <1>3, ReadyCommand DEF Unsubscribe
<1>4. ASSUME NEW c \in Conns, Leave(c) PROVE UnfedIsDropped'
  <2>1. book[c] \in SUBSET Threads
    BY DEF Base, TypeOK
  <2> QED
    BY <1>2, <1>4, <2>1 DEF Leave
<1>5. ASSUME UNCHANGED <<hub, threads, task>> PROVE UnfedIsDropped'
  BY <1>5 DEF UnfedIsDropped, WaitsFor, IsClosed
<1>6. ASSUME NEW c \in Conns, Reconnect(c) PROVE UnfedIsDropped'
  BY <1>5, <1>6 DEF Reconnect
<1>7. ASSUME NEW k \in Tasks, NEW t \in Threads, NEW c \in Commands, UseThread(k, c, t)
      PROVE  UnfedIsDropped'
  <2>1. OthersStay(k)
    BY <1>7, EnsurePc DEF UseThread
  <2> QED
    BY <1>7, <2>1, ReadyCommand, UnfedStays DEF UseThread
<1>8. ASSUME NEW k \in Tasks, NEW t \in Threads, StartThread(k, t) PROVE UnfedIsDropped'
  BY <1>8, ReadyCommand, OpenPc, UnfedStays DEF StartThread
<1>9. ASSUME NEW k \in Tasks, Restart(k) PROVE UnfedIsDropped'
  BY <1>9, ReadyCommand, RestartPc, UnfedStays DEF Restart
<1>10. ASSUME NEW k \in Tasks, Resume(k) PROVE UnfedIsDropped'
  <2>0. /\ task[k].pc # "idle" => task[k].thread \in Threads
        /\ task[k].cmd = "subscribe" => k \in Conns
        /\ task[k].follow \in BOOLEAN
    BY <1>0 DEF Base, TypeOK, Awaits, Fits, Task
  <2>1. CASE LockTurn(k)
    <3>0. task[k].thread \in Threads /\ task[k].follow \in BOOLEAN
      BY <2>0, <2>1 DEF LockTurn
    <3>1. CASE task[k].cmd = "subscribe"
      <4>1. Ensured(k, "subscribe", task[k].thread)
        BY <2>1, <3>0, <3>1, ReuseEnsures, OpenEnsures DEF LockTurn
      <4>2. UNCHANGED <<hub, threads>> /\ task[k].pc = "lock"
        BY <2>1 DEF LockTurn
      <4> SUFFICES ASSUME NEW d \in Conns, NEW u \in Threads, d \in hub'[u],
                          threads'[u] = NoSession
                   PROVE  WaitsFor(d, u)' \/ IsClosed(u)'
        BY DEF UnfedIsDropped
      <4>3. WaitsFor(d, u) \/ IsClosed(u)
        BY <4>2 DEF UnfedIsDropped
      <4>4. CASE d = k /\ WaitsFor(d, u)
        BY <4>1, <4>2, <4>4 DEF Ensured, WaitsFor
      <4> QED
        BY <4>1, <4>2, <4>3, <4>4 DEF Ensured, WaitsFor, IsClosed
    <3>2. CASE task[k].cmd # "subscribe"
      <4>1. OthersStay(k)
        BY <2>1, <3>0, ReusePc, OpenPc DEF LockTurn
      <4> QED
        BY <2>1, <3>2, <4>1, UnfedStays DEF LockTurn
    <3> QED
      BY <3>1, <3>2
  <2>2. CASE OpenDone(k)
    <3>1. /\ \A t \in Threads : threads[t] # NoSession => threads'[t] # NoSession
          /\ threads'[task[k].thread] # NoSession
      BY <2>0, <2>2, SessionAssumption DEF OpenDone, Register, Base, TypeOK, Awaits, Fits
    <3>2. OthersStay(k) /\ UNCHANGED hub /\ task[k].pc = "opening"
      BY <2>2, ArrivePc DEF OpenDone
    <3> QED
      BY <3>1, <3>2 DEF UnfedIsDropped, WaitsFor, IsClosed, OthersStay
  <2>3. CASE OpenFailed(k)
    <3>1. OthersStay(k) /\ UNCHANGED threads /\ task[k].pc = "opening" /\ hub' = AfterRaise(k)
      BY <2>3 DEF OpenFailed, OthersStay, Base, TypeOK
    <3>2. /\ \A d \in Conns, u \in Threads : d \in hub'[u] => d \in hub[u]
          /\ \A u \in Threads : WaitsFor(k, u) => k \notin hub'[u]
      BY <3>1 DEF AfterRaise, WaitsFor, Base, TypeOK
    <3> QED
      BY <3>1, <3>2 DEF UnfedIsDropped, WaitsFor, IsClosed, OthersStay
  <2>4. CASE FollowDone(k)
    <3>1. OthersStay(k)
      <4>1. CASE Arrive(k, task[k].cmd, task[k].thread, task[k].sess)
        BY <4>1, ArrivePc
      <4>2. CASE task' = [task EXCEPT ![k] = Idle]
        BY <4>2 DEF OthersStay, Base, TypeOK
      <4> QED
        BY <2>4, <4>1, <4>2 DEF FollowDone
    <3>2. \A d \in Conns, u \in Threads : d \in hub'[u] => d \in hub[u]
      BY <2>4 DEF FollowDone, AfterRaise, Base, TypeOK
    <3> QED
      BY <2>4, <3>1, <3>2, UnfedStays DEF FollowDone
  <2>5. CASE k \in Conns /\ UnfollowDone(k)
    <3>1. CASE LeaveThreads(k, "leave", book[k] \ {task[k].thread})
      <4>1. book[k] \ {task[k].thread} \in SUBSET Threads
        BY <2>5 DEF Base, TypeOK
      <4> QED
        BY <1>2, <2>5, <3>1, <4>1 DEF UnfollowDone
    <3>2. CASE task' = [task EXCEPT ![k] = Idle] /\ UNCHANGED hub
      <4>1. OthersStay(k)
        BY <3>2 DEF OthersStay, Base, TypeOK
      <4> QED
        BY <2>5, <3>2, <4>1, UnfedStays DEF UnfollowDone
    <3> QED
      BY <2>5, <3>1, <3>2 DEF UnfollowDone
  <2>6. CASE ArchiveDone(k)
    <3>0. PICK t \in Threads : t = task[k].thread
      BY <2>0, <2>6 DEF ArchiveDone
    <3>1. /\ task[k].pc = "archiving" /\ UNCHANGED hub
          /\ threads' = [threads EXCEPT ![t] = NoSession]
      BY <2>6, <3>0 DEF ArchiveDone, Popped
    <3>2. CASE threads[t] = NoSession
      <4>1. OthersStay(k) /\ threads' = threads
        BY <2>6, <3>0, <3>1, <3>2 DEF ArchiveDone, OthersStay, Base, TypeOK
      <4> QED
        BY <3>1, <4>1, UnfedStays
    <3>3. CASE threads[t] # NoSession
      <4> DEFINE x == Awaiting("closing", "archive", t, Closing(k))
      <4>1. x.pc = "closing" /\ x.thread = t
        BY DEF Awaiting, Idle
      <4>2. task' = [task EXCEPT ![k] = x]
        BY <2>6, <3>0, <3>3 DEF ArchiveDone
      <4> HIDE DEF x
      <4>3. OthersStay(k) /\ IsClosed(t)'
        BY <4>1, <4>2 DEF OthersStay, IsClosed, Base, TypeOK
      <4>4. \A u \in Threads \ {t} : threads'[u] = threads[u]
        BY <3>1 DEF Base, TypeOK
      <4> SUFFICES ASSUME NEW d \in Conns, NEW u \in Threads, d \in hub[u],
                          threads[u] = NoSession
                   PROVE  WaitsFor(d, u)' \/ IsClosed(u)'
        BY <3>1, <4>3, <4>4 DEF UnfedIsDropped
      <4>5. CASE WaitsFor(d, u)
        BY <3>1, <4>3, <4>5 DEF WaitsFor, OthersStay
      <4>6. CASE IsClosed(u)
        BY <3>1, <4>3, <4>6 DEF IsClosed, OthersStay
      <4> QED
        BY <4>5, <4>6 DEF UnfedIsDropped
    <3> QED
      BY <3>2, <3>3
  <2>7. CASE ArchiveFailed(k)
    <3>1. OthersStay(k)
      BY <2>7 DEF ArchiveFailed, OthersStay, Base, TypeOK
    <3> QED
      BY <2>7, <3>1, UnfedStays DEF ArchiveFailed
  <2>8. CASE CloseDone(k)
    <3>1. task[k].pc = "closing" /\ UNCHANGED threads /\ task[k].thread \in Threads
          /\ OthersStay(k)
      BY <2>0, <2>8 DEF CloseDone, OthersStay, Base, TypeOK
    <3>2. "stop" \notin Faults
      BY <3>1 DEF Base, Awaits, Fits
    <3>3. hub' = [hub EXCEPT ![task[k].thread] = {}]
      BY <2>8, <3>2 DEF CloseDone, Cleared
    <3>4. hub'[task[k].thread] = {}
          /\ \A u \in Threads \ {task[k].thread} : hub'[u] = hub[u]
      BY <3>1, <3>3 DEF Base, TypeOK
    <3> QED
      BY <3>1, <3>4 DEF UnfedIsDropped, WaitsFor, IsClosed, OthersStay
  <2>9. CASE RestartDone(k)
    <3>1. /\ OthersStay(k) /\ task[k].pc = "restarting" /\ hub'[task[k].thread] = {}
          /\ \A t \in Threads \ {task[k].thread} : hub'[t] = hub[t] /\ threads'[t] = threads[t]
      BY <2>0, <2>9, RestartPc DEF RestartDone, Cleared, Popped, Base, TypeOK
    <3> QED
      BY <3>1 DEF UnfedIsDropped, WaitsFor, IsClosed, OthersStay
  <2>10. CASE RestartFailed(k)
    <3>1. OthersStay(k)
      BY <2>10 DEF RestartFailed, OthersStay, Base, TypeOK
    <3> QED
      BY <2>10, <3>1, UnfedStays DEF RestartFailed
  <2> QED
    BY <1>10, <2>1, <2>2, <2>3, <2>4, <2>5, <2>6, <2>7, <2>8, <2>9, <2>10 DEF Resume
<1>11. CASE UNCHANGED vars
  BY <1>5, <1>11 DEF vars
<1> QED
  BY <1>1, <1>3, <1>4, <1>6, <1>7, <1>8, <1>9, <1>10, <1>11 DEF Next

LEMMA UnfedInvariant ==
  ASSUME "archive" \notin Commands \/ "stop" \notin Faults
  PROVE  Spec => []UnfedIsDropped
<1>1. Init => UnfedIsDropped
  BY DEF Init, UnfedIsDropped
<1>2. Base /\ UnfedIsDropped /\ [Next]_vars => UnfedIsDropped'
  BY UnfedStep
<1> QED
  BY <1>1, <1>2, BaseInvariant, PTL DEF Spec

\* The subscribers of a thread have a registered session of it that runs and is
\* watched, once no command about it is under way, or one that a failed restart has
\* left.  An archived thread whose session cannot be stopped keeps its queues.
THEOREM SubscribersAreFedHolds ==
  ASSUME "archive" \notin Commands \/ "stop" \notin Faults
  PROVE  Spec /\ []Apart => []SubscribersAreFed
<1>1. Base /\ UnfedIsDropped /\ Tidy /\ OthersRun({"left"}) => SubscribersAreFed
  <2> SUFFICES ASSUME Base, UnfedIsDropped, Tidy, OthersRun({"left"}),
                      NEW t \in Threads, Quiet(t), hub[t] # {}
               PROVE  /\ threads[t] # NoSession
                      /\ sess[threads[t]].thread = t /\ Runs(threads[t])
                      /\ sess[threads[t]].state = "live" => sess[threads[t]].watched
    BY DEF SubscribersAreFed
  <2>1. PICK c \in Conns : c \in hub[t]
    BY DEF Base, TypeOK
  <2>2. ~WaitsFor(c, t) /\ ~IsClosed(t)
    BY DEF WaitsFor, IsClosed, Quiet, Tasks
  <2>3. threads[t] # NoSession
    BY <2>1, <2>2 DEF UnfedIsDropped
  <2>4. ~InRestart(t)
    BY DEF InRestart, ToPop, Quiet
  <2> QED
    BY <2>3, <2>4 DEF OthersRun, Fed, Runs, Tidy, OwnThread
<1>2. Init => OthersRun({"left"})
  BY DEF Init, OthersRun
<1>3. Base /\ Tidy /\ OthersRun({"left"}) /\ [Next]_vars => OthersRun({"left"})'
  BY OthersStep
<1> QED
  BY <1>1, <1>2, <1>3, BaseInvariant, TidyInvariant, UnfedInvariant, PTL DEF Spec
-----------------------------------------------------------------------------
(***************************************************************************)
(* The queues of the hub and the books of their connections.               *)
(***************************************************************************)

\* Every queue of the hub is in its connection's book, or will be when the
\* subscription ends; a connection that ends has only those left that it has
\* still to take out.
Booked ==
  \A c \in Conns, t \in Threads : c \in hub[t] =>
    /\ t \in book[c] \/ (task[c].cmd = "subscribe" /\ task[c].thread = t)
    /\ task[c].pc = "unfollowing" => t # task[c].thread
    /\ conn[c] = "open" \/ (task[c].cmd = "leave" /\ task[c].pc = "unfollowing")

\* A subscription finds that the thread it has had followed is gone, and raises.
Orphans ==
  \E c \in Conns :
    /\ FollowDone(c) /\ task[c].cmd = "subscribe" /\ UNCHANGED <<hub, book>>
    /\ task[c].ok /\ threads[task[c].thread] = NoSession /\ c \in hub[task[c].thread]

\* A step of a task that neither subscribes nor unsubscribes, and adds no queue.
LEMMA BookedStays ==
  ASSUME Booked, NEW k \in Tasks, OthersStay(k), UNCHANGED <<conn, book>>,
         task[k].cmd # "subscribe", task[k].pc # "unfollowing", task'[k].pc # "unfollowing",
         \A c \in Conns, t \in Threads : c \in hub'[t] => c \in hub[t]
  PROVE  Booked'
<1> SUFFICES ASSUME NEW d \in Conns, NEW u \in Threads, d \in hub'[u]
             PROVE  /\ u \in book[d] \/ (task'[d].cmd = "subscribe" /\ task'[d].thread = u)
                    /\ task'[d].pc = "unfollowing" => u # task'[d].thread
                    /\ conn[d] = "open"
                       \/ (task'[d].cmd = "leave" /\ task'[d].pc = "unfollowing")
  BY DEF Booked
<1>1. CASE d = k
  BY <1>1 DEF Booked
<1>2. CASE d # k
  BY <1>2 DEF Booked, OthersStay, Tasks
<1> QED
  BY <1>1, <1>2

LEMMA EnsuredKeepsBooked ==
  ASSUME Base, Booked, NEW k \in Tasks, NEW c, NEW t \in Threads, Ensured(k, c, t),
         c = "subscribe" => k \in Conns,
         \/ task[k].pc = "idle" /\ (k \in Conns => conn[k] = "open")
            /\ hub' = IF c = "subscribe" THEN [hub EXCEPT ![t] = @ \cup {k}] ELSE hub
         \/ task[k].pc = "lock" /\ task[k].cmd = c /\ task[k].thread = t /\ hub' = hub,
         UNCHANGED <<threads, conn>>
  PROVE  Booked'
<1> USE DEF Tasks
<1>1. task[k].pc = "idle" => task[k].cmd = "none"
  BY DEF Base, Awaits, Fits
<1>2. Idle.pc = "idle" /\ Idle.cmd = "none"
  BY DEF Idle
<1>4. ASSUME NEW d \in Conns, NEW u \in Threads, (d \in hub[u])'
      PROVE  /\ u \in book'[d] \/ (task'[d].cmd = "subscribe" /\ task'[d].thread = u)
             /\ task'[d].pc = "unfollowing" => u # task'[d].thread
             /\ conn'[d] = "open" \/ (task'[d].cmd = "leave" /\ task'[d].pc = "unfollowing")
  <2>1. CASE d # k
    BY <1>4, <2>1 DEF Ensured, Booked, Base, TypeOK
  <2>2. CASE d = k
    <3>1. d \in hub[u] \/ (u = t /\ c = "subscribe" /\ task[k].pc = "idle")
      BY <1>4, <2>2 DEF Base, TypeOK
    <3>2. u \in book[d] \/ (u = t /\ c = "subscribe")
      BY <1>1, <2>2, <3>1 DEF Booked
    <3>3. u \in book'[d] \/ (task'[d].cmd = "subscribe" /\ task'[d].thread = u)
      BY <2>2, <3>2 DEF Ensured, Base, TypeOK
    <3>4. conn[d] = "open"
      BY <2>2, <3>1 DEF Booked
    <3>5. task'[d].pc # "unfollowing"
      BY <1>2, <2>2 DEF Ensured
    <3> QED
      BY <3>3, <3>4, <3>5
  <2> QED
    BY <2>1, <2>2
<1> QED
  BY <1>4 DEF Booked

LEMMA LeftKeepsBooked ==
  ASSUME Base, Booked, NEW c \in Conns, NEW cmd, NEW T \in SUBSET Threads,
         Left(c, cmd, T), UNCHANGED threads, 
         \A d \in Conns \ {c} : conn'[d] = conn[d],
         \/ /\ task[c].pc = "idle" /\ cmd = "unsubscribe" /\ UNCHANGED conn
         \/ /\ task[c].pc = "idle" /\ cmd = "leave" /\ T = book[c]
         \/ /\ task[c].pc = "unfollowing" /\ task[c].cmd = "leave" /\ cmd = "leave"
            /\ T = book[c] \ {task[c].thread}
  PROVE  Booked'
<1> USE DEF Tasks
<1>1. task[c].pc = "idle" => task[c].cmd = "none"
  BY DEF Base, Awaits, Fits
<1>2. Idle.pc = "idle" /\ Idle.cmd = "none"
  BY DEF Idle
<1>4. ASSUME NEW d \in Conns, NEW u \in Threads, (d \in hub[u])'
      PROVE  /\ u \in book'[d] \/ (task'[d].cmd = "subscribe" /\ task'[d].thread = u)
             /\ task'[d].pc = "unfollowing" => u # task'[d].thread
             /\ conn'[d] = "open" \/ (task'[d].cmd = "leave" /\ task'[d].pc = "unfollowing")
  <2>0. d \in hub[u]
    BY <1>4 DEF Left, Base, TypeOK
  <2>1. CASE d # c
    BY <2>0, <2>1 DEF Left, Booked
  <2>2. CASE d = c
    <3>1. u \in book[c] /\ (task[c].pc = "unfollowing" => u # task[c].thread)
          /\ (task[c].pc = "idle" => conn[c] = "open")
      BY <1>1, <2>0, <2>2 DEF Booked
    <3>2. CASE /\ task'[c] = Idle /\ book'[c] = book[c] \ T
               /\ \A v \in Threads : hub'[v] = IF v \in T THEN hub[v] \ {c} ELSE hub[v]
      <4>1. u \notin T
        BY <1>4, <2>2, <3>2
      <4> QED
        BY <1>2, <2>2, <3>1, <3>2, <4>1
    <3>3. ASSUME NEW t \in T, NEW P \in SUBSET (T \ {t}),
                 task'[c].pc = "unfollowing", task'[c].cmd = cmd, task'[c].thread = t,
                 book'[c] = book[c] \ P,
                 \A v \in Threads :
                   hub'[v] = IF v \in P \cup {t} THEN hub[v] \ {c} ELSE hub[v]
          PROVE  u \in book'[d] /\ u # task'[d].thread
      <4>1. u \notin P \cup {t}
        BY <1>4, <2>2, <3>3
      <4> QED
        BY <2>2, <3>1, <3>3, <4>1
    <3>4. CASE task'[c] = Idle /\ book'[c] = book[c] \ T
               /\ \A v \in Threads : hub'[v] = IF v \in T THEN hub[v] \ {c} ELSE hub[v]
      BY <3>2, <3>4
    <3>5. CASE ~(task'[c] = Idle /\ book'[c] = book[c] \ T
                 /\ \A v \in Threads : hub'[v] = IF v \in T THEN hub[v] \ {c} ELSE hub[v])
      <4>1. PICK t \in T : \E P \in SUBSET (T \ {t}) :
              /\ task'[c].pc = "unfollowing" /\ task'[c].cmd = cmd /\ task'[c].thread = t
              /\ book'[c] = book[c] \ P
              /\ \A v \in Threads :
                   hub'[v] = IF v \in P \cup {t} THEN hub[v] \ {c} ELSE hub[v]
        BY <3>5 DEF Left
      <4>2. u \in book'[d] /\ u # task'[d].thread
        BY <3>3, <4>1
      <4>3. conn'[d] = "open" \/ (task'[d].cmd = "leave" /\ task'[d].pc = "unfollowing")
        BY <2>2, <3>1, <4>1
      <4> QED
        BY <4>2, <4>3
    <3> QED
      BY <3>4, <3>5
  <2> QED
    BY <2>1, <2>2
<1> QED
  BY <1>4 DEF Booked

\* A subscription ends: it is noted, or its queue is taken out again, unless the
\* hub has dropped it.
LEMMA EndedKeepsBooked ==
  ASSUME Base, Booked, NEW k \in Tasks, task[k].pc \in {"opening", "following"},
         task[k].cmd = "subscribe", UNCHANGED conn, OthersStay(k), task'[k] = Idle,
         \/ UNCHANGED hub /\ book' = [book EXCEPT ![k] = @ \cup {task[k].thread}]
         \/ UNCHANGED <<hub, book>> /\ k \notin hub[task[k].thread]
         \/ hub' = AfterRaise(k) /\ UNCHANGED book
  PROVE  Booked'
<1> USE DEF Tasks
<1>1. Idle.pc = "idle" /\ Idle.cmd = "none" /\ k \in Conns /\ task[k].thread \in Threads
  BY DEF Idle, Base, Awaits, Fits
<1> SUFFICES ASSUME NEW d \in Conns, NEW u \in Threads, (d \in hub[u])'
             PROVE  /\ u \in book'[d] \/ (task'[d].cmd = "subscribe" /\ task'[d].thread = u)
                    /\ task'[d].pc = "unfollowing" => u # task'[d].thread
                    /\ conn'[d] = "open"
                       \/ (task'[d].cmd = "leave" /\ task'[d].pc = "unfollowing")
  BY DEF Booked
<1>2. d \in hub[u]
  BY DEF AfterRaise, Base, TypeOK
<1>3. CASE d # k
  <2>1. book'[d] = book[d] /\ task'[d] = task[d]
    BY <1>3 DEF OthersStay, Base, TypeOK
  <2> QED
    BY <1>2, <2>1 DEF Booked
<1>4. CASE d = k
  <2>1. conn[d] = "open" /\ (u \in book[d] \/ task[k].thread = u)
    BY <1>2, <1>4 DEF Booked
  <2>2. u \in book'[k]
    <3>1. CASE book' = [book EXCEPT ![k] = @ \cup {task[k].thread}]
      BY <1>1, <1>4, <2>1, <3>1 DEF Base, TypeOK
    <3>2. CASE UNCHANGED <<hub, book>> /\ k \notin hub[task[k].thread]
      BY <1>2, <1>4, <2>1, <3>2
    <3>3. CASE hub' = AfterRaise(k) /\ UNCHANGED book
      <4>1. u # task[k].thread
        BY <1>1, <1>4, <3>3 DEF AfterRaise, Base, TypeOK
      <4> QED
        BY <1>4, <2>1, <3>3, <4>1
    <3> QED
      BY <3>1, <3>2, <3>3
  <2> QED
    BY <1>1, <1>4, <2>1, <2>2
<1> QED
  BY <1>3, <1>4

LEMMA BookedStep ==
  ASSUME Base, Booked, [Next]_vars, ~Orphans
  PROVE  Booked'
<1> USE DEF Tasks
<1>0. Idle.pc = "idle" /\ Idle.cmd = "none"
  BY DEF Idle
<1>1. ASSUME NEW c \in Conns, NEW t \in Threads, Subscribe(c, t) PROVE Booked'
  <2>1. Ensured(c, "subscribe", t)
    BY <1>1, EnsureEnsures DEF Subscribe, First
  <2> QED
    BY <1>1, <2>1, ReadyCommand, EnsuredKeepsBooked DEF Subscribe
<1>2. ASSUME NEW c \in Conns, NEW t \in Threads, Unsubscribe(c, t) PROVE Booked'
  BY <1>2, ReadyCommand, LeaveLeaves, LeftKeepsBooked DEF Unsubscribe
<1>3. ASSUME NEW c \in Conns, Leave(c) PROVE Booked'
  <2>1. book[c] \in SUBSET Threads /\ \A d \in Conns \ {c} : conn'[d] = conn[d]
    BY <1>3 DEF Leave, Base, TypeOK
  <2> QED
    BY <1>3, <2>1, LeaveLeaves, LeftKeepsBooked DEF Leave
<1>4. ASSUME NEW c \in Conns, Reconnect(c) PROVE Booked'
  <2>1. task[c].pc = "idle" /\ task[c].cmd = "none"
    BY <1>4 DEF Reconnect, Base, Awaits, Fits
  <2>2. \A t \in Threads : c \notin hub[t]
    BY <1>4, <2>1 DEF Reconnect, Booked
  <2>3. \A d \in Conns \ {c} : conn'[d] = conn[d] /\ book'[d] = book[d]
    BY <1>4 DEF Reconnect, Base, TypeOK
  <2> QED
    BY <1>4, <2>2, <2>3 DEF Reconnect, Booked
<1>5. ASSUME NEW k \in Tasks, task[k].pc = "idle"
      PROVE  task[k].cmd # "subscribe" /\ task[k].pc # "unfollowing"
  BY <1>5 DEF Base, Awaits, Fits
<1>6. ASSUME NEW k \in Tasks, NEW t \in Threads, NEW c \in Commands, UseThread(k, c, t)
      PROVE  Booked'
  <2>1. OthersStay(k) /\ task'[k].pc # "unfollowing" /\ UNCHANGED book
    BY <1>6, EnsurePc DEF UseThread
  <2> QED
    BY <1>5, <1>6, <2>1, ReadyCommand, BookedStays DEF UseThread
<1>7. ASSUME NEW k \in Tasks, NEW t \in Threads, StartThread(k, t) PROVE Booked'
  <2>1. OthersStay(k) /\ task'[k].pc # "unfollowing"
    BY <1>7, OpenPc DEF StartThread
  <2>2. UNCHANGED book
    BY <1>7 DEF StartThread, Open
  <2> QED
    BY <1>5, <1>7, <2>1, <2>2, ReadyCommand, BookedStays DEF StartThread
<1>8. ASSUME NEW k \in Tasks, Restart(k) PROVE Booked'
  <2>1. OthersStay(k) /\ task'[k].pc # "unfollowing"
    BY <1>0, <1>8, RestartPc DEF Restart
  <2> QED
    BY <1>5, <1>8, <2>1, ReadyCommand, BookedStays DEF Restart
<1>9. ASSUME NEW k \in Conns, UnfollowDone(k) PROVE Booked'
  <2>0. task[k].thread \in Threads /\ task[k].pc = "unfollowing"
    BY <1>9 DEF UnfollowDone, Base, Awaits, Fits
  <2>1. CASE task[k].cmd = "leave" /\ LeaveThreads(k, "leave", book[k] \ {task[k].thread})
    <3>1. book[k] \ {task[k].thread} \in SUBSET Threads
      BY <1>9 DEF Base, TypeOK
    <3> QED
      BY <1>9, <2>1, <3>1, LeaveLeaves, LeftKeepsBooked DEF UnfollowDone
  <2>2. CASE /\ task' = [task EXCEPT ![k] = Idle]
             /\ book' = [book EXCEPT ![k] = @ \ {task[k].thread}]
             /\ UNCHANGED <<hub, sess>>
             /\ task[k].cmd = "leave" => book[k] = {task[k].thread}
    <3>1. /\ task'[k] = Idle /\ \A l \in Tasks \ {k} : task'[l] = task[l]
          /\ book'[k] = book[k] \ {task[k].thread}
          /\ \A d \in Conns \ {k} : book'[d] = book[d]
      BY <1>9, <2>2 DEF Base, TypeOK
    <3>2. \A t \in Threads : k \in hub[t] => conn[k] = "open" /\ t \in book'[k]
      BY <2>0, <2>2, <3>1 DEF Booked, Base, Awaits, Fits
    <3> QED
      BY <1>0, <1>9, <2>2, <3>1, <3>2 DEF UnfollowDone, Booked
  <2> QED
    BY <1>9, <2>1, <2>2 DEF UnfollowDone
<1>10. ASSUME NEW k \in Tasks, Resume(k), ~(k \in Conns /\ UnfollowDone(k)),
              task[k].cmd # "subscribe"
       PROVE  Booked'
  <2>0. /\ task[k].pc # "idle" => task[k].thread \in Threads
        /\ task[k].follow \in BOOLEAN
    BY DEF Base, TypeOK, Awaits, Fits, Task
  <2>1. ASSUME OthersStay(k), task'[k].pc # "unfollowing", task[k].pc # "unfollowing",
               UNCHANGED <<hub, conn, book>>
        PROVE  Booked'
    BY <1>10, <2>1, BookedStays
  <2>2. ASSUME NEW t, NEW s, Arrive(k, task[k].cmd, t, s)
        PROVE  OthersStay(k) /\ task'[k].pc # "unfollowing" /\ UNCHANGED book
    <3>1. OthersStay(k) /\ task'[k].pc # "unfollowing"
      BY <2>2, ArrivePc
    <3> QED
      BY <1>10, <2>2, <3>1 DEF Arrive
  <2>3. ASSUME task' = [task EXCEPT ![k] = Idle]
        PROVE  OthersStay(k) /\ task'[k].pc # "unfollowing"
    BY <1>0, <2>3 DEF OthersStay, Base, TypeOK
  <2>4. CASE LockTurn(k)
    <3>1. task[k].pc = "lock" /\ task[k].thread \in Threads /\ UNCHANGED <<hub, conn>>
      BY <2>0, <2>4 DEF LockTurn
    <3>2. CASE Reuse(k, task[k].cmd, task[k].thread, task[k].follow)
      <4>1. OthersStay(k) /\ task'[k].pc # "unfollowing"
        BY <2>0, <3>1, <3>2, ReusePc
      <4>2. UNCHANGED book
        BY <1>10, <3>2 DEF Reuse, CallFollow, Arrive
      <4> QED
        BY <2>1, <3>1, <4>1, <4>2
    <3>3. CASE Open(k, task[k].cmd, task[k].thread, task[k].follow)
      <4>1. OthersStay(k) /\ task'[k].pc # "unfollowing"
        BY <3>3, OpenPc
      <4>2. UNCHANGED book
        BY <3>3 DEF Open
      <4> QED
        BY <2>1, <3>1, <4>1, <4>2
    <3> QED
      BY <2>4, <3>2, <3>3 DEF LockTurn
  <2>5. CASE OpenDone(k)
    BY <2>1, <2>2, <2>5 DEF OpenDone
  <2>6. CASE OpenFailed(k)
    <3>1. UNCHANGED <<hub, conn, book>> /\ task[k].pc = "opening"
      BY <1>10, <2>6 DEF OpenFailed, AfterRaise
    <3> QED
      BY <2>1, <2>3, <2>6, <3>1 DEF OpenFailed
  <2>7. CASE FollowDone(k)
    <3>1. UNCHANGED <<hub, conn>> /\ task[k].pc = "following"
      BY <1>10, <2>7 DEF FollowDone, AfterRaise
    <3>2. CASE Arrive(k, task[k].cmd, task[k].thread, task[k].sess)
      BY <2>1, <2>2, <3>1, <3>2
    <3>3. CASE task' = [task EXCEPT ![k] = Idle] /\ UNCHANGED book
      BY <2>1, <2>3, <3>1, <3>3
    <3> QED
      BY <2>7, <3>2, <3>3 DEF FollowDone
  <2>8. CASE ArchiveDone(k)
    <3>1. OthersStay(k) /\ task'[k].pc # "unfollowing"
      <4>1. ASSUME NEW s, task' = [task EXCEPT ![k] =
                                     Awaiting("closing", "archive", task[k].thread, s)]
            PROVE  OthersStay(k) /\ task'[k].pc # "unfollowing"
        <5> DEFINE x == Awaiting("closing", "archive", task[k].thread, s)
        <5>1. x.pc = "closing"
          BY DEF Awaiting, Idle
        <5>2. task' = [task EXCEPT ![k] = x]
          BY <4>1
        <5> HIDE DEF x
        <5> QED
          BY <5>1, <5>2 DEF OthersStay, Base, TypeOK
      <4> QED
        BY <2>3, <2>8, <4>1 DEF ArchiveDone
    <3> QED
      BY <2>1, <2>8, <3>1 DEF ArchiveDone
  <2>9. CASE ArchiveFailed(k) \/ RestartFailed(k)
    BY <2>1, <2>3, <2>9 DEF ArchiveFailed, RestartFailed
  <2>10. CASE CloseDone(k)
    <3>1. /\ UNCHANGED <<conn, book>> /\ task[k].pc = "closing"
          /\ \A c \in Conns, t \in Threads : c \in hub'[t] => c \in hub[t]
      BY <2>10 DEF CloseDone, Cleared, Base, TypeOK
    <3> QED
      BY <1>10, <2>3, <2>10, <3>1, BookedStays DEF CloseDone
  <2>11. CASE RestartDone(k)
    <3>1. /\ UNCHANGED <<conn, book>> /\ task[k].pc = "restarting"
          /\ \A c \in Conns, t \in Threads : c \in hub'[t] => c \in hub[t]
      BY <2>11 DEF RestartDone, Cleared, Base, TypeOK
    <3>2. OthersStay(k) /\ task'[k].pc # "unfollowing"
      BY <1>0, <2>11, RestartPc DEF RestartDone
    <3> QED
      BY <1>10, <3>1, <3>2, BookedStays
  <2> QED
    BY <1>10, <2>4, <2>5, <2>6, <2>7, <2>8, <2>9, <2>10, <2>11 DEF Resume
<1>11. ASSUME NEW k \in Tasks, Resume(k), ~(k \in Conns /\ UnfollowDone(k)),
              task[k].cmd = "subscribe"
       PROVE  Booked'
  <2>0. k \in Conns /\ (task[k].pc # "idle" => task[k].thread \in Threads)
        /\ task[k].pc \in {"lock", "opening", "following"} /\ task[k].follow \in BOOLEAN
    <3>1. task[k].pc \notin {"idle", "unfollowing", "archiving", "closing", "restarting"}
      BY <1>11 DEF Base, Awaits, Fits
    <3> QED
      BY <1>11, <3>1 DEF Base, TypeOK, Awaits, Fits, Task
  <2>1. CASE LockTurn(k)
    <3>1. Ensured(k, "subscribe", task[k].thread)
      BY <1>11, <2>0, <2>1, ReuseEnsures, OpenEnsures DEF LockTurn
    <3> QED
      BY <1>11, <2>0, <2>1, <3>1, EnsuredKeepsBooked DEF LockTurn
  <2>2. CASE OpenDone(k)
    <3>1. task'[k] = Idle /\ OthersStay(k)
          /\ book' = [book EXCEPT ![k] = @ \cup {task[k].thread}]
      BY <1>11, <2>2 DEF OpenDone, Arrive, OthersStay, Base, TypeOK
    <3> QED
      BY <1>11, <2>2, <3>1, EndedKeepsBooked DEF OpenDone
  <2>3. CASE OpenFailed(k)
    <3>1. task'[k] = Idle /\ OthersStay(k)
      BY <2>3 DEF OpenFailed, OthersStay, Base, TypeOK
    <3> QED
      BY <1>11, <2>3, <3>1, EndedKeepsBooked DEF OpenFailed
  <2>4. CASE FollowDone(k)
    <3>1. task'[k] = Idle /\ OthersStay(k)
      BY <1>11, <2>4 DEF FollowDone, Arrive, OthersStay, Base, TypeOK
    <3>2. CASE hub' = hub /\ Arrive(k, "subscribe", task[k].thread, task[k].sess)
      BY <1>11, <2>4, <3>1, <3>2, EndedKeepsBooked DEF FollowDone, Arrive
    <3>3. CASE /\ task[k].ok /\ threads[task[k].thread] = NoSession
               /\ UNCHANGED <<hub, book>>
      <4>1. k \notin hub[task[k].thread]
        BY <1>11, <2>0, <2>4, <3>3 DEF Orphans
      <4> QED
        BY <1>11, <2>4, <3>1, <3>3, <4>1, EndedKeepsBooked DEF FollowDone
    <3>4. CASE hub' = AfterRaise(k) /\ UNCHANGED book
      BY <1>11, <2>4, <3>1, <3>4, EndedKeepsBooked DEF FollowDone
    <3> QED
      BY <1>11, <2>4, <3>2, <3>3, <3>4 DEF FollowDone
  <2> QED
    BY <1>11, <2>0, <2>1, <2>2, <2>3, <2>4
       DEF Resume, ArchiveDone, ArchiveFailed, CloseDone, RestartDone, RestartFailed
<1>12. CASE UNCHANGED vars
  BY <1>12 DEF vars, Booked
<1> QED
  BY <1>1, <1>2, <1>3, <1>4, <1>6, <1>7, <1>8, <1>9, <1>10, <1>11, <1>12 DEF Next

\* A queue in the hub is one that its connection takes out when it ends, whatever
\* the commands and the failures, but for one case: the thread is archived while
\* a subscription waits for its session to be followed; `subscribe` then raises
\* and leaves its queue.
THEOREM OneWayToOrphan == Spec /\ [][~Orphans]_vars => []NoOrphanQueue
<1>1. Init => Booked
  BY DEF Init, Booked
<1>2. Base /\ Booked /\ [Next]_vars /\ [~Orphans]_vars => Booked'
  <2>1. Base /\ Booked /\ UNCHANGED vars => Booked'
    BY DEF vars, Booked
  <2> QED
    BY <2>1, BookedStep
<1>3. Base /\ Booked => NoOrphanQueue
  BY DEF Booked, NoOrphanQueue, Base, Awaits, Fits, Tasks
<1> QED
  BY <1>1, <1>2, <1>3, BaseInvariant, PTL DEF Spec

\* That case needs an archiving: without one no thread loses its session while it
\* has subscribers.
THEOREM NoOrphanQueueHolds ==
  ASSUME "archive" \notin Commands PROVE Spec => []NoOrphanQueue
<1>1. Base /\ UnfedIsDropped /\ [Next]_vars => ~Orphans
  <2> SUFFICES ASSUME Base, UnfedIsDropped, NEW c \in Conns, FollowDone(c),
                      threads[task[c].thread] = NoSession, c \in hub[task[c].thread]
               PROVE  FALSE
    BY DEF Orphans
  <2>1. task[c].pc = "following" /\ task[c].thread \in Threads
    BY DEF FollowDone, Base, Awaits, Fits, Tasks
  <2>2. ~WaitsFor(c, task[c].thread)
    BY <2>1 DEF WaitsFor
  <2>3. ~IsClosed(task[c].thread)
    BY CommandAssumption DEF IsClosed, Base, Awaits, Fits
  <2> QED
    BY <2>1, <2>2, <2>3 DEF UnfedIsDropped
<1> QED
  BY <1>1, BaseInvariant, UnfedInvariant, OneWayToOrphan, PTL DEF Spec
-----------------------------------------------------------------------------
(***************************************************************************)
(* The acknowledged subscriptions, as long as no thread is archived and no *)
(* host is restarted: nothing then takes a session from the registry.      *)
(***************************************************************************)

\* What is in a connection's book is registered and in the hub, but for the
\* thread the connection is just leaving; a subscription under way is in the hub
\* and not in the book yet.
Acked ==
  \A c \in Conns :
    /\ task[c].cmd = "leave" => conn[c] = "closed"
    /\ task[c].cmd = "subscribe" =>
         c \in hub[task[c].thread] /\ (conn[c] = "open" => task[c].thread \notin book[c])
    /\ task[c].pc = "following" => threads[task[c].thread] # NoSession
    /\ conn[c] = "open" => \A t \in book[c] :
         /\ threads[t] # NoSession
         /\ c \in hub[t] \/ (task[c].pc = "unfollowing" /\ task[c].thread = t)

\* Threads stay registered, and no other connection is concerned.
OnlyTask(k) ==
  /\ \A l \in Tasks \ {k} : task'[l] = task[l]
  /\ \A d \in Conns \ {k} : /\ book'[d] = book[d] /\ conn'[d] = conn[d]
                            /\ \A t \in Threads : d \in hub'[t] <=> d \in hub[t]
  /\ \A t \in Threads : threads'[t] = threads[t] \/ threads'[t] # NoSession

LEMMA OthersStayAcked ==
  ASSUME Base, Acked, NEW k \in Tasks, OnlyTask(k), NEW d \in Conns, d # k
  PROVE  /\ task'[d].cmd = "leave" => conn'[d] = "closed"
         /\ task'[d].cmd = "subscribe" =>
              d \in hub'[task'[d].thread] /\ (conn'[d] = "open" => task'[d].thread \notin book'[d])
         /\ task'[d].pc = "following" => threads'[task'[d].thread] # NoSession
         /\ conn'[d] = "open" => \A t \in book'[d] :
              /\ threads'[t] # NoSession
              /\ d \in hub'[t] \/ (task'[d].pc = "unfollowing" /\ task'[d].thread = t)
<1>1. task'[d] = task[d] /\ book'[d] = book[d] /\ conn'[d] = conn[d] /\ book[d] \subseteq Threads
  BY DEF OnlyTask, Base, TypeOK, Tasks
<1>2. task[d].pc = "following" \/ task[d].cmd = "subscribe" => task[d].thread \in Threads
  BY DEF Base, Awaits, Fits, Tasks
<1> QED
  BY <1>1, <1>2 DEF Acked, OnlyTask

LEMMA EnsuredKeepsAcked ==
  ASSUME Base, Acked, NEW k \in Tasks, NEW c, NEW t \in Threads, Ensured(k, c, t),
         c \in UsesSession, c = "subscribe" => k \in Conns,
         \/ /\ task[k].pc = "idle"
            /\ hub' = IF c = "subscribe" THEN [hub EXCEPT ![t] = @ \cup {k}] ELSE hub
            /\ task'[k].pc = "following" /\ c = "subscribe" => hub[t] = {}
         \/ task[k].pc = "lock" /\ task[k].cmd = c /\ task[k].thread = t /\ hub' = hub,
         UNCHANGED <<threads, conn>>
  PROVE  Acked'
<1> USE DEF Tasks
<1>1. task[k].pc = "idle" => task[k].cmd = "none"
  BY DEF Base, Awaits, Fits
<1>2. Idle.pc = "idle" /\ Idle.cmd = "none"
  BY DEF Idle
<1>3. OnlyTask(k)
  BY DEF OnlyTask, Ensured, Base, TypeOK
<1>4. ASSUME k \in Conns
      PROVE  /\ task'[k].cmd = "leave" => conn'[k] = "closed"
             /\ task'[k].cmd = "subscribe" =>
                  k \in hub'[task'[k].thread]
                  /\ (conn'[k] = "open" => task'[k].thread \notin book'[k])
             /\ task'[k].pc = "following" => threads'[task'[k].thread] # NoSession
             /\ conn'[k] = "open" => \A u \in book'[k] :
                  /\ threads'[u] # NoSession
                  /\ k \in hub'[u] \/ (task'[k].pc = "unfollowing" /\ task'[k].thread = u)
  <2>1. c = "subscribe" => k \in hub'[t]
    BY <1>4 DEF Acked, Base, TypeOK
  <2>2. \A u \in book[k] : conn[k] = "open" => threads[u] # NoSession /\ k \in hub'[u]
    BY <1>1, <1>4 DEF Acked, Base, TypeOK
  <2>3. CASE task'[k] = Idle /\ threads[t] # NoSession
             /\ book' = IF c = "subscribe" THEN [book EXCEPT ![k] = @ \cup {t}] ELSE book
    <3>1. \A u \in book'[k] : u \in book[k] \/ (c = "subscribe" /\ u = t)
      BY <1>4, <2>3 DEF Base, TypeOK
    <3> QED
      BY <1>2, <2>1, <2>2, <2>3, <3>1
  <2>4. CASE /\ task'[k].pc \in {"lock", "opening"} /\ threads[t] = NoSession
             /\ task'[k].cmd = c /\ task'[k].thread = t /\ book' = book
    <3>1. c = "subscribe" /\ conn[k] = "open" => t \notin book[k]
      BY <1>4, <2>4 DEF Acked
    <3> QED
      BY <2>1, <2>2, <2>4, <3>1 DEF UsesSession
  <2>5. CASE /\ task'[k].pc = "following" /\ threads[t] # NoSession
             /\ task'[k].cmd = c /\ task'[k].thread = t /\ book' = book
    <3>1. c = "subscribe" /\ conn[k] = "open" => t \notin book[k]
      BY <1>1, <1>4, <2>5 DEF Acked, Base, TypeOK
    <3> QED
      BY <2>1, <2>2, <2>5, <3>1 DEF UsesSession
  <2> QED
    BY <2>3, <2>4, <2>5 DEF Ensured
<1> QED
  BY <1>3, <1>4, OthersStayAcked DEF Acked

LEMMA LeftKeepsAcked ==
  ASSUME Base, Acked, NEW c \in Conns, NEW cmd, NEW T \in SUBSET Threads,
         Left(c, cmd, T), UNCHANGED threads, \A d \in Conns \ {c} : conn'[d] = conn[d],
         \/ task[c].pc = "idle" /\ cmd = "unsubscribe" /\ UNCHANGED conn /\ \A t, u \in T : t = u
         \/ cmd = "leave" /\ conn'[c] = "closed"
  PROVE  Acked'
<1> USE DEF Tasks
<1>1. Idle.pc = "idle" /\ Idle.cmd = "none"
  BY DEF Idle
<1>2. OnlyTask(c)
  BY DEF OnlyTask, Left, Base, TypeOK
<1>3. /\ task'[c].cmd = "leave" => conn'[c] = "closed"
      /\ task'[c].cmd # "subscribe"
      /\ task'[c].pc # "following"
  BY <1>1 DEF Left
<1>4. ASSUME conn'[c] = "open", NEW u \in book'[c]
      PROVE  /\ threads'[u] # NoSession
             /\ c \in hub'[u] \/ (task'[c].pc = "unfollowing" /\ task'[c].thread = u)
  <2>1. /\ task[c].pc = "idle" /\ conn[c] = "open" /\ \A t, v \in T : t = v
        /\ u \in book[c] /\ u \in Threads
    BY <1>4 DEF Left, Base, TypeOK
  <2>2. threads[u] # NoSession /\ c \in hub[u]
    BY <2>1 DEF Acked
  <2> QED
    BY <1>4, <2>1, <2>2 DEF Left
<1> QED
  BY <1>2, <1>3, <1>4, OthersStayAcked DEF Acked

\* A task ends its command.
LEMMA EndedKeepsAcked ==
  ASSUME Base, Acked, NEW k \in Tasks, OnlyTask(k), task'[k] = Idle, UNCHANGED conn,
         k \in Conns /\ conn[k] = "open" => \A t \in book'[k] :
           threads'[t] # NoSession /\ k \in hub'[t]
  PROVE  Acked'
<1>1. Idle.pc = "idle" /\ Idle.cmd = "none"
  BY DEF Idle
<1> QED
  BY <1>1, OthersStayAcked DEF Acked

LEMMA AckedStep ==
  ASSUME "archive" \notin Commands, "restart" \notin Commands, Base, Acked, [Next]_vars
  PROVE  Acked'
<1> USE DEF Tasks
<1>0. Idle.pc = "idle" /\ Idle.cmd = "none" /\ Commands \subseteq AllCommands
  BY CommandAssumption DEF Idle
<1>1. ASSUME NEW c \in Conns, NEW t \in Threads, Subscribe(c, t) PROVE Acked'
  <2>1. Ensured(c, "subscribe", t) /\ (task'[c].pc = "following" => hub[t] = {})
    BY <1>1, EnsureEnsures DEF Subscribe, First
  <2> QED
    BY <1>1, <2>1, ReadyCommand, EnsuredKeepsAcked DEF Subscribe, UsesSession
<1>2. ASSUME NEW c \in Conns, NEW t \in Threads, Unsubscribe(c, t) PROVE Acked'
  BY <1>2, ReadyCommand, LeaveLeaves, LeftKeepsAcked DEF Unsubscribe
<1>3. ASSUME NEW c \in Conns, Leave(c) PROVE Acked'
  <2>1. /\ book[c] \in SUBSET Threads /\ conn'[c] = "closed"
        /\ \A d \in Conns \ {c} : conn'[d] = conn[d]
    BY <1>3 DEF Leave, Base, TypeOK
  <2> QED
    BY <1>3, <2>1, LeaveLeaves, LeftKeepsAcked DEF Leave
<1>4. ASSUME NEW c \in Conns, Reconnect(c) PROVE Acked'
  <2>1. task[c].pc = "idle" /\ task[c].cmd = "none"
    BY <1>4 DEF Reconnect, Base, Awaits, Fits
  <2> QED
    BY <1>4, <2>1 DEF Reconnect, Acked, Base, TypeOK
<1>5. ASSUME NEW k \in Tasks, NEW t \in Threads, NEW c \in Commands, UseThread(k, c, t)
      PROVE  Acked'
  <2>1. c = "prompt" /\ Ensured(k, c, t)
    BY <1>5, EnsureEnsures DEF UseThread
  <2> QED
    BY <1>5, <2>1, ReadyCommand, EnsuredKeepsAcked DEF UseThread, UsesSession
<1>6. ASSUME NEW k \in Tasks, NEW t \in Threads, StartThread(k, t) PROVE Acked'
  <2>1. PICK s : task' = [task EXCEPT ![k] = Awaiting("opening", "start", t, s)]
    BY <1>6 DEF StartThread, Open
  <2>2. /\ Awaiting("opening", "start", t, s).pc = "opening"
        /\ Awaiting("opening", "start", t, s).cmd = "start"
    BY DEF Awaiting, Idle
  <2>3. /\ task'[k].pc = "opening" /\ task'[k].cmd = "start"
        /\ \A l \in Tasks \ {k} : task'[l] = task[l]
    BY <2>1, <2>2 DEF Base, TypeOK
  <2>4. OnlyTask(k)
    BY <1>6, <2>3 DEF StartThread, Open, OnlyTask
  <2>5. task[k].pc = "idle"
    BY <1>6, ReadyCommand DEF StartThread
  <2> QED
    BY <1>6, <2>3, <2>4, <2>5, OthersStayAcked DEF StartThread, Open, Acked
<1>7. ASSUME NEW k \in Tasks, Restart(k) PROVE Acked'
  BY <1>7, ReadyCommand DEF Restart
<1>8. ASSUME NEW k \in Tasks, Resume(k) PROVE Acked'
  <2>0. /\ task[k].pc # "idle" => task[k].thread \in Threads
        /\ task[k].pc \notin {"archiving", "closing", "restarting"}
        /\ task[k].pc \in {"lock", "opening", "following"} =>
             task[k].cmd # "archive" /\ task[k].cmd \in UsesSession
        /\ task[k].cmd = "subscribe" => k \in Conns
        /\ task[k].follow \in BOOLEAN
        /\ k \in Conns => book[k] \subseteq Threads
    BY <1>0 DEF Base, TypeOK, Awaits, Fits, Task, UsesSession
  <2>1. CASE LockTurn(k)
    <3>1. Ensured(k, task[k].cmd, task[k].thread)
      BY <2>0, <2>1, ReuseEnsures, OpenEnsures DEF LockTurn
    <3> QED
      BY <2>0, <2>1, <3>1, EnsuredKeepsAcked DEF LockTurn
  <2>2. CASE OpenDone(k)
    <3>1. /\ \A t \in Threads : threads'[t] = threads[t] \/ threads'[t] # NoSession
          /\ threads'[task[k].thread] # NoSession
      BY <2>0, <2>2, SessionAssumption DEF OpenDone, Register, Base, TypeOK, Awaits, Fits
    <3>2. /\ task'[k] = Idle /\ \A l \in Tasks \ {k} : task'[l] = task[l]
          /\ hub' = hub /\ conn' = conn
          /\ \A d \in Conns \ {k} : book'[d] = book[d]
          /\ k \in Conns => book'[k] = IF task[k].cmd = "subscribe"
                                       THEN book[k] \cup {task[k].thread} ELSE book[k]
      BY <2>0, <2>2 DEF OpenDone, Arrive, Base, TypeOK
    <3>3. OnlyTask(k)
      BY <3>1, <3>2 DEF OnlyTask
    <3>4. k \in Conns /\ conn[k] = "open" => \A t \in book'[k] :
            threads'[t] # NoSession /\ k \in hub'[t]
      BY <2>0, <2>2, <3>1, <3>2 DEF OpenDone, Acked
    <3> QED
      BY <3>2, <3>3, <3>4, EndedKeepsAcked
  <2>3. CASE OpenFailed(k) \/ FollowDone(k)
    <3>1. /\ task'[k] = Idle /\ \A l \in Tasks \ {k} : task'[l] = task[l]
          /\ threads' = threads /\ conn' = conn
          /\ \A d \in Conns \ {k} : book'[d] = book[d]
      BY <2>0, <2>3 DEF OpenFailed, FollowDone, Arrive, Base, TypeOK
    <3>2. \A d \in Conns \ {k}, t \in Threads : d \in AfterRaise(k)[t] <=> d \in hub[t]
      BY DEF AfterRaise, Base, TypeOK
    <3>3. OnlyTask(k)
      <4>1. hub' \in {hub, AfterRaise(k)}
        BY <2>3 DEF OpenFailed, FollowDone
      <4> QED
        BY <3>1, <3>2, <4>1 DEF OnlyTask
    <3>4. ASSUME k \in Conns, conn[k] = "open", NEW t \in book'[k]
          PROVE  threads'[t] # NoSession /\ k \in hub'[t]
      <4>1. /\ task[k].pc \in {"opening", "following"}
            /\ task[k].pc = "following" => threads[task[k].thread] # NoSession
            /\ task[k].cmd = "subscribe" =>
                 k \in hub[task[k].thread] /\ task[k].thread \notin book[k]
            /\ \A u \in book[k] : threads[u] # NoSession /\ k \in hub[u]
        BY <2>3, <3>4 DEF OpenFailed, FollowDone, Acked
      <4>2. CASE hub' = AfterRaise(k) /\ UNCHANGED book
        BY <2>0, <3>1, <3>4, <4>1, <4>2 DEF AfterRaise, Base, TypeOK
      <4>3. CASE UNCHANGED <<hub, book>>
        BY <3>1, <3>4, <4>1, <4>3
      <4>4. CASE /\ hub' = hub /\ task[k].pc = "following"
                 /\ Arrive(k, task[k].cmd, task[k].thread, task[k].sess)
        <5>1. t \in book[k] \/ (task[k].cmd = "subscribe" /\ t = task[k].thread)
          BY <3>4, <4>4 DEF Arrive, Base, TypeOK
        <5> QED
          BY <3>1, <4>1, <4>4, <5>1
      <4> QED
        BY <2>3, <4>2, <4>3, <4>4 DEF OpenFailed, FollowDone
    <3> QED
      BY <3>1, <3>3, <3>4, EndedKeepsAcked
  <2>4. CASE k \in Conns /\ UnfollowDone(k)
    <3>1. CASE task[k].cmd = "leave" /\ LeaveThreads(k, "leave", book[k] \ {task[k].thread})
      <4>1. book[k] \ {task[k].thread} \in SUBSET Threads /\ conn'[k] = "closed"
        BY <2>0, <2>4, <3>1 DEF UnfollowDone, Acked
      <4> QED
        BY <2>4, <3>1, <4>1, LeaveLeaves, LeftKeepsAcked DEF UnfollowDone
    <3>2. CASE /\ task' = [task EXCEPT ![k] = Idle]
               /\ book' = [book EXCEPT ![k] = @ \ {task[k].thread}]
               /\ UNCHANGED <<hub, sess>>
      <4>1. /\ task'[k] = Idle /\ \A l \in Tasks \ {k} : task'[l] = task[l]
            /\ book'[k] = book[k] \ {task[k].thread}
            /\ \A d \in Conns \ {k} : book'[d] = book[d]
        BY <2>4, <3>2 DEF Base, TypeOK
      <4>2. OnlyTask(k)
        BY <2>4, <3>2, <4>1 DEF UnfollowDone, OnlyTask
      <4>3. conn[k] = "open" => \A t \in book'[k] : threads'[t] # NoSession /\ k \in hub'[t]
        BY <2>4, <3>2, <4>1 DEF UnfollowDone, Acked
      <4> QED
        BY <2>4, <4>1, <4>2, <4>3, EndedKeepsAcked DEF UnfollowDone
    <3> QED
      BY <2>4, <3>1, <3>2 DEF UnfollowDone
  <2>5. CASE ArchiveDone(k) \/ ArchiveFailed(k) \/ CloseDone(k)
    BY <2>0, <2>5 DEF ArchiveDone, ArchiveFailed, CloseDone
  <2>6. CASE RestartDone(k) \/ RestartFailed(k)
    BY <2>0, <2>6 DEF RestartDone, RestartFailed
  <2> QED
    BY <1>8, <2>1, <2>2, <2>3, <2>4, <2>5, <2>6 DEF Resume
<1>9. CASE UNCHANGED vars
  BY <1>9 DEF vars, Acked
<1> QED
  BY <1>1, <1>2, <1>3, <1>4, <1>5, <1>6, <1>7, <1>8, <1>9 DEF Next

\* Who was told that it is subscribed stays subscribed until it unsubscribes.
\* An archiving or a restart clears the subscribers it finds when it ends.
THEOREM AckedStaysSubscribedHolds ==
  ASSUME "archive" \notin Commands, "restart" \notin Commands
  PROVE  Spec => []AckedStaysSubscribed
<1>1. Init => Acked
  BY DEF Init, Acked, Idle, Tasks
<1>2. Base /\ Acked /\ [Next]_vars => Acked'
  BY AckedStep
<1>3. Acked => AckedStaysSubscribed
  BY DEF Acked, AckedStaysSubscribed
<1> QED
  BY <1>1, <1>2, <1>3, BaseInvariant, PTL DEF Spec
-----------------------------------------------------------------------------
(***************************************************************************)
(* What loses an acknowledged subscription, all commands and failures      *)
(* included.                                                               *)
(***************************************************************************)

\* A subscription of a thread whose session is being stopped, a restart that
\* closes a thread with subscribers, and a repeated subscription that raises.
Loses ==
  \/ \E c \in Conns, t \in Threads : IsClosed(t) /\ Subscribe(c, t)
  \/ \E k \in Tasks : RestartDone(k) /\ hub[task[k].thread] # {}
  \/ \E c \in Conns :
       /\ task[c].cmd = "subscribe" /\ task[c].thread \in book[c]
       /\ OpenFailed(c) \/ (FollowDone(c) /\ ~task[c].ok)

Concerns(c, t) ==
  (conn[c] = "open" /\ t \in book[c]) \/ (task[c].cmd = "subscribe" /\ task[c].thread = t)

\* What connection c has booked, or is about to, is in the hub, or c was told of
\* the archiving; and c was told when the closing that drops its queue began.
Noted(c) ==
  /\ task[c].cmd = "leave" => conn[c] = "closed"
  /\ conn[c] = "open" =>
       \A t \in book[c] : \/ c \in hub[t] \/ t \in told[c]
                          \/ task[c].pc = "unfollowing" /\ task[c].thread = t
  /\ task[c].cmd = "subscribe" => c \in hub[task[c].thread] \/ task[c].thread \in told[c]
  /\ \A t \in Threads : IsClosed(t) /\ c \in hub[t] /\ Concerns(c, t) => t \in told[c]
AllNoted == \A c \in Conns : Noted(c)

LEMMA ClosedStays ==
  ASSUME NEW k \in Tasks, OthersStay(k), task'[k].pc # "closing"
  PROVE  \A t \in Threads : IsClosed(t)' => IsClosed(t)
BY DEF IsClosed, OthersStay

LEMMA SubscribedThread ==
  ASSUME Base, NEW c \in Conns, task[c].cmd = "subscribe" PROVE task[c].thread \in Threads
BY DEF Base, Awaits, Fits, Tasks

\* A step that does not concern connection c.
LEMMA NotedElsewhere ==
  ASSUME Base, NEW c \in Conns, Noted(c), task'[c] = task[c], book'[c] = book[c],
         conn'[c] = conn[c], told[c] \subseteq told'[c],
         \A t \in Threads : c \in hub'[t] <=> c \in hub[t],
         \A t \in Threads : IsClosed(t)' => IsClosed(t) \/ (c \in hub[t] => t \in told'[c])
  PROVE  Noted(c)'
<1>1. book[c] \subseteq Threads
  BY DEF Base, TypeOK
<1>2. (task[c].cmd = "leave" => conn[c] = "closed")'
  BY DEF Noted
<1>3. (conn[c] = "open" =>
         \A t \in book[c] : \/ c \in hub[t] \/ t \in told[c]
                            \/ task[c].pc = "unfollowing" /\ task[c].thread = t)'
  BY <1>1 DEF Noted
<1>4. (task[c].cmd = "subscribe" => c \in hub[task[c].thread] \/ task[c].thread \in told[c])'
  BY SubscribedThread DEF Noted
<1>5. ASSUME NEW t \in Threads, (IsClosed(t) /\ c \in hub[t] /\ Concerns(c, t))'
      PROVE  t \in told'[c]
  <2>1. c \in hub[t] /\ Concerns(c, t)
    BY <1>5 DEF Concerns
  <2> QED
    BY <1>5, <2>1 DEF Noted
<1> QED
  BY <1>2, <1>3, <1>4, <1>5 DEF Noted

\* A step of a task that changes no subscription.
LEMMA NotedStays ==
  ASSUME Base, AllNoted, NEW k \in Tasks, OthersStay(k), UNCHANGED <<hub, told, conn, book>>,
         task[k].pc # "unfollowing", task'[k].pc # "closing",
         task'[k].cmd \notin {"subscribe", "leave"}
  PROVE  AllNoted'
<1>1. \A t \in Threads : IsClosed(t)' => IsClosed(t)
  BY ClosedStays
<1> SUFFICES ASSUME NEW c \in Conns PROVE Noted(c)'
  BY DEF AllNoted
<1>2. CASE c # k
  <2>1. task'[c] = task[c]
    BY <1>2 DEF OthersStay, Tasks
  <2> QED
    BY <1>1, <2>1, NotedElsewhere DEF AllNoted
<1>3. CASE c = k
  <2>1. Noted(c)
    BY DEF AllNoted
  <2>2. \A t \in Threads : Concerns(c, t)' => Concerns(c, t)
    BY <1>3 DEF Concerns
  <2>3. \A t \in Threads : (IsClosed(t) /\ c \in hub[t] /\ Concerns(c, t) => t \in told[c])'
    BY <1>1, <2>1, <2>2 DEF Noted
  <2> QED
    BY <1>3, <2>1, <2>3 DEF Noted
<1> QED
  BY <1>2, <1>3

LEMMA EnsuredKeepsNoted ==
  ASSUME Base, AllNoted, NEW k \in Conns, NEW t \in Threads, Ensured(k, "subscribe", t),
         UNCHANGED conn,
         \/ /\ task[k].pc = "idle" /\ conn[k] = "open" /\ ~IsClosed(t)
            /\ hub' = [hub EXCEPT ![t] = @ \cup {k}]
            /\ told' = [told EXCEPT ![k] = @ \ {t}]
         \/ /\ task[k].pc = "lock" /\ task[k].cmd = "subscribe" /\ task[k].thread = t
            /\ UNCHANGED <<hub, told>>
  PROVE  AllNoted'
<1> USE DEF Tasks
<1>1. OthersStay(k) /\ task'[k].pc \notin {"closing", "unfollowing"}
      /\ task'[k].cmd \in {"subscribe", "none"}
      /\ (task'[k].cmd = "subscribe" => task'[k].thread = t)
  BY DEF Ensured, OthersStay, Idle
<1>2. \A u \in Threads : IsClosed(u)' => IsClosed(u)
  BY <1>1, ClosedStays
<1>3. \A d \in Conns \ {k} : book'[d] = book[d]
  BY DEF Ensured, Base, TypeOK
<1>4. book'[k] \in {book[k], book[k] \cup {t}} /\ book[k] \subseteq Threads
  BY DEF Ensured, Base, TypeOK
<1>5. /\ \A d \in Conns \ {k} : told'[d] = told[d]
      /\ \A d \in Conns \ {k}, u \in Threads : d \in hub'[u] <=> d \in hub[u]
      /\ \A u \in Threads \ {t} : /\ k \in hub'[u] <=> k \in hub[u]
                                  /\ u \in told'[k] <=> u \in told[k]
  BY DEF Base, TypeOK
<1>6. k \in hub'[t] \/ t \in told'[k]
  <2>1. CASE hub' = [hub EXCEPT ![t] = @ \cup {k}]
    BY <2>1 DEF Base, TypeOK
  <2>2. CASE task[k].cmd = "subscribe" /\ task[k].thread = t /\ UNCHANGED <<hub, told>>
    BY <2>2 DEF AllNoted, Noted
  <2> QED
    BY <2>1, <2>2
<1>7. task[k].pc # "unfollowing"
  OBVIOUS
<1> SUFFICES ASSUME NEW c \in Conns PROVE Noted(c)'
  BY DEF AllNoted
<1>8. CASE c # k
  <2>1. task'[c] = task[c]
    BY <1>1, <1>8 DEF OthersStay
  <2> QED
    BY <1>2, <1>3, <1>5, <1>8, <2>1, NotedElsewhere DEF AllNoted
<1>9. CASE c = k
  <2>1. Noted(k)
    BY DEF AllNoted
  <2>2. ASSUME NEW u \in book'[k], conn[k] = "open" PROVE k \in hub'[u] \/ u \in told'[k]
    <3>1. CASE u = t
      BY <1>6, <3>1
    <3>2. CASE u # t
      BY <1>4, <1>5, <1>7, <2>1, <2>2, <3>2 DEF Noted
    <3> QED
      BY <3>1, <3>2
  <2>3. ASSUME NEW u \in Threads, (IsClosed(u) /\ k \in hub[u] /\ Concerns(k, u))'
        PROVE  u \in told'[k]
    <3>1. IsClosed(u)
      BY <1>2, <2>3
    <3>2. CASE u = t
      <4>1. /\ task[k].cmd = "subscribe" /\ task[k].thread = t /\ UNCHANGED <<hub, told>>
        BY <3>1, <3>2
      <4> QED
        BY <2>1, <2>3, <3>1, <3>2, <4>1 DEF Noted, Concerns
    <3>3. CASE u # t
      <4>1. k \in hub[u] /\ conn[k] = "open" /\ u \in book[k]
        BY <1>1, <1>4, <1>5, <2>3, <3>3 DEF Concerns
      <4> QED
        BY <1>5, <2>1, <3>1, <3>3, <4>1 DEF Noted, Concerns
    <3> QED
      BY <3>2, <3>3
  <2> QED
    BY <1>1, <1>6, <1>9, <2>2, <2>3 DEF Noted
<1> QED
  BY <1>8, <1>9

\* A subscription ends: it is noted, or it is the first one and raised.
LEMMA EndedKeepsNoted ==
  ASSUME Base, AllNoted, NEW k \in Conns, task[k].pc \in {"opening", "following"},
         task[k].cmd = "subscribe", UNCHANGED <<conn, told>>, OthersStay(k), task'[k] = Idle,
         \/ UNCHANGED hub /\ book' = [book EXCEPT ![k] = @ \cup {task[k].thread}]
         \/ hub' = AfterRaise(k) /\ UNCHANGED book /\ task[k].thread \notin book[k]
  PROVE  AllNoted'
<1> USE DEF Tasks
<1>0. PICK t \in Threads : t = task[k].thread
  BY SubscribedThread
<1>1. task'[k].pc = "idle" /\ task'[k].cmd = "none"
  BY DEF Idle
<1>2. \A u \in Threads : IsClosed(u)' => IsClosed(u)
  BY <1>1, ClosedStays
<1>3. /\ \A d \in Conns \ {k} : book'[d] = book[d]
      /\ \A d \in Conns \ {k}, u \in Threads : d \in hub'[u] <=> d \in hub[u]
      /\ \A u \in Threads \ {t} : k \in hub'[u] <=> k \in hub[u]
      /\ \A u \in Threads : k \in hub'[u] => k \in hub[u]
  BY <1>0 DEF AfterRaise, Base, TypeOK
<1>4. /\ book'[k] \subseteq book[k] \cup {t} /\ book[k] \subseteq Threads
      /\ t \in book'[k] => UNCHANGED hub
  BY <1>0 DEF Base, TypeOK
<1> SUFFICES ASSUME NEW c \in Conns PROVE Noted(c)'
  BY DEF AllNoted
<1>5. CASE c # k
  <2>1. task'[c] = task[c]
    BY <1>5 DEF OthersStay
  <2> QED
    BY <1>2, <1>3, <1>5, <2>1, NotedElsewhere DEF AllNoted
<1>6. CASE c = k
  <2>1. Noted(k) /\ task[k].pc # "unfollowing"
    BY DEF AllNoted
  <2>2. ASSUME NEW u \in book'[k], conn[k] = "open" PROVE k \in hub'[u] \/ u \in told[k]
    <3>1. CASE u = t
      BY <1>0, <1>4, <2>1, <3>1 DEF Noted
    <3>2. CASE u # t
      BY <1>3, <1>4, <2>1, <2>2, <3>2 DEF Noted
    <3> QED
      BY <3>1, <3>2
  <2>3. ASSUME NEW u \in Threads, (IsClosed(u) /\ k \in hub[u] /\ Concerns(k, u))'
        PROVE  u \in told[k]
    <3>1. IsClosed(u) /\ k \in hub[u]
      BY <1>2, <1>3, <2>3
    <3>2. u \in book[k] \cup {t} /\ conn[k] = "open"
      BY <1>1, <1>4, <2>3 DEF Concerns
    <3>3. Concerns(k, u)
      BY <1>0, <3>2 DEF Concerns
    <3> QED
      BY <2>1, <3>1, <3>3 DEF Noted
  <2> QED
    BY <1>1, <1>6, <2>2, <2>3 DEF Noted
<1> QED
  BY <1>5, <1>6

LEMMA LeftKeepsNoted ==
  ASSUME Base, AllNoted, NEW c \in Conns, NEW cmd \in {"unsubscribe", "leave"},
         NEW T \in SUBSET Threads, Left(c, cmd, T), UNCHANGED told,
         \A d \in Conns \ {c} : conn'[d] = conn[d],
         \/ task[c].pc = "idle" /\ cmd = "unsubscribe" /\ UNCHANGED conn
         \/ cmd = "leave" /\ conn'[c] = "closed"
  PROVE  AllNoted'
<1> USE DEF Tasks
<1>1. OthersStay(c) /\ \A d \in Conns \ {c} : book'[d] = book[d]
  BY DEF Left, OthersStay
<1>2. PICK P \in SUBSET Threads, Q \in SUBSET Threads :
        /\ book'[c] = book[c] \ P
        /\ \A u \in Threads : hub'[u] = IF u \in Q THEN hub[u] \ {c} ELSE hub[u]
        /\ \/ task'[c] = Idle /\ Q = P
           \/ /\ task'[c].pc = "unfollowing" /\ task'[c].cmd = cmd
              /\ Q = P \cup {task'[c].thread}
  <2>1. CASE /\ task'[c] = Idle /\ book'[c] = book[c] \ T
             /\ \A u \in Threads : hub'[u] = IF u \in T THEN hub[u] \ {c} ELSE hub[u]
    BY <2>1
  <2>2. ASSUME NEW t \in T, NEW P \in SUBSET (T \ {t}),
               task'[c].pc = "unfollowing", task'[c].cmd = cmd, task'[c].thread = t,
               book'[c] = book[c] \ P,
               \A u \in Threads : hub'[u] = IF u \in P \cup {t} THEN hub[u] \ {c} ELSE hub[u]
        PROVE  \E R \in SUBSET Threads, Q \in SUBSET Threads :
                 /\ book'[c] = book[c] \ R
                 /\ \A u \in Threads : hub'[u] = IF u \in Q THEN hub[u] \ {c} ELSE hub[u]
                 /\ \/ task'[c] = Idle /\ Q = R
                    \/ /\ task'[c].pc = "unfollowing" /\ task'[c].cmd = cmd
                       /\ Q = R \cup {task'[c].thread}
    <3>1. P \in SUBSET Threads /\ P \cup {t} \in SUBSET Threads
      OBVIOUS
    <3> QED
      BY <2>2, <3>1
  <2>3. CASE \E t \in T : \E P \in SUBSET (T \ {t}) :
               /\ task'[c].pc = "unfollowing" /\ task'[c].cmd = cmd /\ task'[c].thread = t
               /\ book'[c] = book[c] \ P
               /\ \A u \in Threads :
                    hub'[u] = IF u \in P \cup {t} THEN hub[u] \ {c} ELSE hub[u]
    BY <2>2, <2>3
  <2> QED
    BY <2>1, <2>3 DEF Left
<1>3. task'[c].pc \in {"idle", "unfollowing"} /\ task'[c].cmd \in {"none", cmd}
  BY <1>2 DEF Idle
<1>4. \A u \in Threads : IsClosed(u)' => IsClosed(u)
  BY <1>1, <1>3, ClosedStays
<1> SUFFICES ASSUME NEW d \in Conns PROVE Noted(d)'
  BY DEF AllNoted
<1>5. CASE d # c
  <2>1. task'[d] = task[d] /\ \A u \in Threads : d \in hub'[u] <=> d \in hub[u]
    BY <1>1, <1>2, <1>5 DEF OthersStay
  <2> QED
    BY <1>1, <1>4, <1>5, <2>1, NotedElsewhere DEF AllNoted
<1>6. CASE d = c
  <2>1. Noted(c) /\ book[c] \subseteq Threads
    BY DEF AllNoted, Base, TypeOK
  <2>2. conn'[c] = "open" => conn[c] = "open" /\ cmd = "unsubscribe" /\ task[c].pc = "idle"
    OBVIOUS
  <2>3. ASSUME NEW u \in book'[c], conn'[c] = "open"
        PROVE  \/ c \in hub'[u] \/ u \in told[c]
               \/ task'[c].pc = "unfollowing" /\ task'[c].thread = u
    <3>1. u \in book[c] /\ u \notin P
      BY <1>2
    <3>2. c \in hub[u] \/ u \in told[c]
      BY <2>1, <2>2, <2>3, <3>1 DEF Noted
    <3>3. CASE u \in Q
      BY <1>2, <3>1, <3>3
    <3>4. CASE u \notin Q
      BY <1>2, <2>1, <3>1, <3>2, <3>4
    <3> QED
      BY <3>3, <3>4
  <2>4. ASSUME NEW u \in Threads, (IsClosed(u) /\ c \in hub[u] /\ Concerns(c, u))'
        PROVE  u \in told[c]
    <3>1. IsClosed(u) /\ c \in hub[u]
      BY <1>2, <1>4, <2>4
    <3>2. Concerns(c, u)
      BY <1>2, <1>3, <2>2, <2>4 DEF Concerns
    <3> QED
      BY <2>1, <3>1, <3>2 DEF Noted
  <2>5. task'[c].cmd = "leave" => conn'[c] = "closed"
    BY <1>3
  <2>6. task'[c].cmd # "subscribe"
    BY <1>3
  <2> QED
    BY <1>6, <2>3, <2>4, <2>5, <2>6 DEF Noted
<1> QED
  BY <1>5, <1>6

\* The session of an archived thread is being stopped: all subscribers were told.
LEMMA ArchiveDoneKeepsNoted ==
  ASSUME Base, AllNoted, NEW k \in Tasks, ArchiveDone(k)
  PROVE  AllNoted'
<1>0. PICK t \in Threads : t = task[k].thread
  BY DEF ArchiveDone, Base, Awaits, Fits
<1>1. /\ UNCHANGED <<hub, conn, book>> /\ task[k].pc = "archiving" /\ task[k].cmd = "archive"
      /\ \A c \in Conns : told'[c] = IF c \in UNION {hub[u] : u \in Threads}
                                     THEN told[c] \cup {t} ELSE told[c]
  BY <1>0 DEF ArchiveDone, Base, Awaits, Fits
<1>2. PICK x : /\ task' = [task EXCEPT ![k] = x] /\ x.cmd \notin {"subscribe", "leave"}
               /\ x.pc \in {"idle", "closing"} /\ (x.pc = "closing" => x.thread = t)
  <2>1. /\ Idle.pc = "idle" /\ Idle.cmd = "none"
        /\ Awaiting("closing", "archive", t, Closing(k)).pc = "closing"
        /\ Awaiting("closing", "archive", t, Closing(k)).cmd = "archive"
        /\ Awaiting("closing", "archive", t, Closing(k)).thread = t
    BY DEF Awaiting, Idle
  <2> QED
    BY <1>0, <2>1 DEF ArchiveDone
<1>3. task'[k] = x /\ OthersStay(k)
  BY <1>2 DEF OthersStay, Base, TypeOK
<1>4. \A u \in Threads : IsClosed(u)' => IsClosed(u) \/ u = t
  BY <1>2, <1>3 DEF IsClosed, OthersStay
<1>5. \A c \in Conns, u \in Threads : IsClosed(u)' => IsClosed(u) \/ (c \in hub[u] => u \in told'[c])
  BY <1>1, <1>4
<1> SUFFICES ASSUME NEW c \in Conns PROVE Noted(c)'
  BY DEF AllNoted
<1>6. told[c] \subseteq told'[c]
  BY <1>1
<1>7. CASE c # k
  <2>1. task'[c] = task[c]
    BY <1>3, <1>7 DEF OthersStay, Tasks
  <2> QED
    BY <1>1, <1>5, <1>6, <2>1, NotedElsewhere DEF AllNoted
<1>8. CASE c = k
  <2>1. Noted(c) /\ book[c] \subseteq Threads
    BY DEF AllNoted, Base, TypeOK
  <2>2. \A u \in Threads : Concerns(c, u)' => Concerns(c, u)
    BY <1>1, <1>2, <1>3, <1>8 DEF Concerns
  <2>3. \A u \in Threads : (IsClosed(u) /\ c \in hub[u] /\ Concerns(c, u) => u \in told[c])'
    BY <1>1, <1>5, <1>6, <2>1, <2>2 DEF Noted
  <2>4. (conn[c] = "open" =>
           \A u \in book[c] : \/ c \in hub[u] \/ u \in told[c]
                              \/ task[c].pc = "unfollowing" /\ task[c].thread = u)'
    BY <1>1, <1>6, <1>8, <2>1 DEF Noted
  <2> QED
    BY <1>2, <1>3, <1>8, <2>3, <2>4 DEF Noted
<1> QED
  BY <1>7, <1>8

\* The session is stopped, and the queues are dropped.
LEMMA CloseDoneKeepsNoted ==
  ASSUME Base, AllNoted, NEW k \in Tasks, CloseDone(k)
  PROVE  AllNoted'
<1>0. PICK t \in Threads : t = task[k].thread
  BY DEF CloseDone, Base, Awaits, Fits
<1>1. /\ UNCHANGED <<told, conn, book>> /\ task[k].pc = "closing"
      /\ IsClosed(t) /\ task[k].cmd = "archive"
  BY <1>0 DEF CloseDone, IsClosed, Base, Awaits, Fits
<1>2. task'[k].pc = "idle" /\ task'[k].cmd = "none" /\ OthersStay(k)
  BY DEF CloseDone, OthersStay, Idle, Base, TypeOK
<1>3. \A u \in Threads : IsClosed(u)' => IsClosed(u)
  BY <1>2, ClosedStays
<1>4. /\ \A u \in Threads \ {t} : hub'[u] = hub[u]
      /\ hub'[t] \subseteq hub[t]
  BY <1>0 DEF CloseDone, Cleared, Base, TypeOK
<1> SUFFICES ASSUME NEW c \in Conns PROVE Noted(c)'
  BY DEF AllNoted
<1>5. Noted(c) /\ book[c] \subseteq Threads
  BY DEF AllNoted, Base, TypeOK
<1>6. task'[c] = task[c] \/ (c = k /\ task'[c].pc = "idle" /\ task'[c].cmd = "none")
  BY <1>2 DEF OthersStay, Tasks
<1>7. \A u \in Threads : Concerns(c, u)' => Concerns(c, u)
  BY <1>1, <1>6 DEF Concerns
<1>8. \A u \in Threads : Concerns(c, u) /\ c \in hub[u] => c \in hub'[u] \/ u \in told[c]
  BY <1>1, <1>4, <1>5 DEF Noted
<1>9. \A u \in Threads : (IsClosed(u) /\ c \in hub[u] /\ Concerns(c, u) => u \in told[c])'
  BY <1>1, <1>3, <1>4, <1>5, <1>7 DEF Noted
<1>10. ASSUME NEW u \in book[c], conn[c] = "open"
       PROVE  \/ c \in hub'[u] \/ u \in told[c]
              \/ task'[c].pc = "unfollowing" /\ task'[c].thread = u
  <2>1. Concerns(c, u)
    BY <1>10 DEF Concerns
  <2> QED
    BY <1>1, <1>5, <1>6, <1>8, <1>10, <2>1 DEF Noted
<1>11. task'[c].cmd = "subscribe" =>
         c \in hub'[task'[c].thread] \/ task'[c].thread \in told[c]
  <2> SUFFICES ASSUME task[c].cmd = "subscribe", task'[c] = task[c]
               PROVE  c \in hub'[task[c].thread] \/ task[c].thread \in told[c]
    BY <1>6
  <2>1. task[c].thread \in Threads /\ Concerns(c, task[c].thread)
    BY SubscribedThread DEF Concerns
  <2> QED
    BY <1>5, <1>8, <2>1 DEF Noted
<1>12. task'[c].cmd = "leave" => conn[c] = "closed"
  BY <1>5, <1>6 DEF Noted
<1> QED
  BY <1>1, <1>9, <1>10, <1>11, <1>12 DEF Noted

LEMMA NotedStep ==
  ASSUME Base, AllNoted, [Next]_vars, ~Loses
  PROVE  AllNoted'
<1> USE DEF Tasks
<1>0. Idle.pc = "idle" /\ Idle.cmd = "none"
  BY DEF Idle
<1>1. ASSUME NEW c \in Conns, NEW t \in Threads, Subscribe(c, t) PROVE AllNoted'
  <2>1. Ensured(c, "subscribe", t)
    BY <1>1, EnsureEnsures DEF Subscribe, First
  <2>2. ~IsClosed(t)
    BY <1>1 DEF Loses
  <2>3. task[c].pc = "idle" /\ conn[c] = "open" /\ UNCHANGED conn
        /\ hub' = [hub EXCEPT ![t] = @ \cup {c}] /\ told' = [told EXCEPT ![c] = @ \ {t}]
    BY <1>1, ReadyCommand DEF Subscribe
  <2> QED
    BY <2>1, <2>2, <2>3, EnsuredKeepsNoted
<1>2. ASSUME NEW c \in Conns, NEW t \in Threads, Unsubscribe(c, t) PROVE AllNoted'
  BY <1>2, ReadyCommand, LeaveLeaves, LeftKeepsNoted DEF Unsubscribe
<1>3. ASSUME NEW c \in Conns, Leave(c) PROVE AllNoted'
  <2>1. book[c] \in SUBSET Threads /\ \A d \in Conns \ {c} : conn'[d] = conn[d]
    BY <1>3 DEF Leave, Base, TypeOK
  <2>2. conn'[c] = "closed" /\ UNCHANGED told
    BY <1>3 DEF Leave, Base, TypeOK
  <2>3. Left(c, "leave", book[c])
    BY <1>3, <2>1, LeaveLeaves DEF Leave
  <2> QED
    BY <2>1, <2>2, <2>3, LeftKeepsNoted
<1>4. ASSUME NEW c \in Conns, Reconnect(c) PROVE AllNoted'
  <2>1. task[c].cmd = "none" /\ UNCHANGED <<task, hub>>
    BY <1>4 DEF Reconnect, Base, Awaits, Fits
  <2>2. /\ book'[c] = {} /\ \A d \in Conns \ {c} :
             conn'[d] = conn[d] /\ book'[d] = book[d] /\ told'[d] = told[d]
    BY <1>4 DEF Reconnect, Base, TypeOK
  <2>3. \A u \in Threads : IsClosed(u)' => IsClosed(u)
    BY <2>1 DEF IsClosed
  <2> SUFFICES ASSUME NEW d \in Conns PROVE Noted(d)'
    BY DEF AllNoted
  <2>4. CASE d # c
    BY <2>1, <2>2, <2>3, <2>4, NotedElsewhere DEF AllNoted
  <2>5. CASE d = c
    BY <2>1, <2>2, <2>5 DEF Noted, Concerns
  <2> QED
    BY <2>4, <2>5
<1>5. ASSUME NEW k \in Tasks, NEW t \in Threads, NEW c \in Commands, UseThread(k, c, t)
      PROVE  AllNoted'
  <2>1. c \in {"prompt", "archive"} /\ Ensure(k, c, t, FALSE) /\ task[k].pc = "idle"
        /\ UNCHANGED <<hub, told, conn>>
    BY <1>5, ReadyCommand DEF UseThread
  <2>2. OthersStay(k) /\ task'[k].pc # "closing" /\ task'[k].cmd \notin {"subscribe", "leave"}
        /\ UNCHANGED book
    BY <2>1, EnsurePc
  <2> QED
    BY <2>1, <2>2, NotedStays
<1>6. ASSUME NEW k \in Tasks, NEW t \in Threads, StartThread(k, t) PROVE AllNoted'
  <2>1. Open(k, "start", t, FALSE) /\ task[k].pc = "idle" /\ UNCHANGED <<hub, told, conn>>
    BY <1>6, ReadyCommand DEF StartThread
  <2>2. OthersStay(k) /\ task'[k].pc = "opening" /\ task'[k].cmd = "start"
    BY <2>1, OpenPc
  <2>3. UNCHANGED book
    BY <2>1 DEF Open
  <2> QED
    BY <2>1, <2>2, <2>3, NotedStays
<1>7. ASSUME NEW k \in Tasks, Restart(k) PROVE AllNoted'
  <2>1. task[k].pc = "idle" /\ UNCHANGED <<hub, told, conn, book>>
    BY <1>7, ReadyCommand DEF Restart
  <2>2. OthersStay(k) /\ task'[k].pc # "closing" /\ task'[k].cmd \notin {"subscribe", "leave"}
    BY <1>0, <1>7, RestartPc DEF Restart
  <2> QED
    BY <2>1, <2>2, NotedStays
<1>8. ASSUME NEW k \in Conns, UnfollowDone(k) PROVE AllNoted'
  <2>0. task[k].thread \in Threads /\ task[k].pc = "unfollowing"
        /\ task[k].cmd \in {"unsubscribe", "leave"} /\ UNCHANGED <<conn, told>>
    BY <1>8 DEF UnfollowDone, Base, Awaits, Fits
  <2>1. CASE task[k].cmd = "leave" /\ LeaveThreads(k, "leave", book[k] \ {task[k].thread})
    <3>1. book[k] \ {task[k].thread} \in SUBSET Threads /\ conn'[k] = "closed"
      BY <2>0, <2>1 DEF AllNoted, Noted, Base, TypeOK
    <3>2. Left(k, "leave", book[k] \ {task[k].thread})
      BY <2>1, <3>1, LeaveLeaves
    <3> QED
      BY <2>0, <3>1, <3>2, LeftKeepsNoted
  <2>2. CASE /\ task' = [task EXCEPT ![k] = Idle]
             /\ book' = [book EXCEPT ![k] = @ \ {task[k].thread}]
             /\ UNCHANGED hub
    <3>1. /\ task'[k].pc = "idle" /\ task'[k].cmd = "none" /\ OthersStay(k)
          /\ book'[k] = book[k] \ {task[k].thread}
          /\ \A d \in Conns \ {k} : book'[d] = book[d]
      BY <1>0, <2>2 DEF OthersStay, Base, TypeOK
    <3>2. \A u \in Threads : IsClosed(u)' => IsClosed(u)
      BY <3>1, ClosedStays
    <3> SUFFICES ASSUME NEW c \in Conns PROVE Noted(c)'
      BY DEF AllNoted
    <3>3. CASE c # k
      <4>1. task'[c] = task[c]
        BY <3>1, <3>3 DEF OthersStay
      <4> QED
        BY <2>0, <2>2, <3>1, <3>2, <3>3, <4>1, NotedElsewhere DEF AllNoted
    <3>4. CASE c = k
      <4>1. Noted(k)
        BY DEF AllNoted
      <4>2. \A u \in Threads : Concerns(k, u)' => Concerns(k, u)
        BY <2>0, <3>1 DEF Concerns
      <4>3. \A u \in Threads :
              (IsClosed(u) /\ k \in hub[u] /\ Concerns(k, u) => u \in told[k])'
        BY <2>0, <2>2, <3>2, <4>1, <4>2 DEF Noted
      <4>4. ASSUME conn[k] = "open", NEW u \in book'[k] PROVE k \in hub[u] \/ u \in told[k]
        BY <3>1, <4>1, <4>4 DEF Noted
      <4> QED
        BY <2>0, <2>2, <3>1, <3>4, <4>3, <4>4 DEF Noted
    <3> QED
      BY <3>3, <3>4
  <2> QED
    BY <1>8, <2>1, <2>2 DEF UnfollowDone
<1>9. ASSUME NEW k \in Tasks, Resume(k), ~(k \in Conns /\ UnfollowDone(k)) PROVE AllNoted'
  <2>0. /\ task[k].pc # "idle" => task[k].thread \in Threads
        /\ task[k].cmd = "subscribe" => k \in Conns
        /\ task[k].pc \in {"lock", "opening", "following"} => task[k].cmd # "leave"
        /\ task[k].follow \in BOOLEAN
    BY DEF Base, TypeOK, Awaits, Fits, Task
  <2>1. ASSUME task' = [task EXCEPT ![k] = Idle], UNCHANGED <<hub, told, conn, book>>,
               task[k].pc # "unfollowing"
        PROVE  AllNoted'
    <3>1. OthersStay(k) /\ task'[k].pc = "idle" /\ task'[k].cmd = "none"
      BY <1>0, <2>1 DEF OthersStay, Base, TypeOK
    <3> QED
      BY <2>1, <3>1, NotedStays
  <2>2. ASSUME NEW t, NEW s, Arrive(k, task[k].cmd, task[k].thread, s),
               UNCHANGED <<hub, told, conn>>, task[k].pc \in {"opening", "following"}
        PROVE  AllNoted'
    <3>1. CASE task[k].cmd = "subscribe"
      <4>1. task'[k] = Idle /\ OthersStay(k) /\ k \in Conns
            /\ book' = [book EXCEPT ![k] = @ \cup {task[k].thread}]
        BY <2>0, <2>2, <3>1 DEF Arrive, OthersStay, Base, TypeOK
      <4> QED
        BY <2>2, <3>1, <4>1, EndedKeepsNoted
    <3>2. CASE task[k].cmd # "subscribe"
      <4>1. OthersStay(k) /\ task'[k].pc # "closing"
            /\ task'[k].cmd \notin {"subscribe", "leave"}
        BY <2>0, <2>2, <3>2, ArrivePc
      <4>2. UNCHANGED book
        BY <2>2, <3>2 DEF Arrive
      <4> QED
        BY <2>2, <4>1, <4>2, NotedStays
    <3> QED
      BY <3>1, <3>2
  <2>3. ASSUME hub' = AfterRaise(k), task' = [task EXCEPT ![k] = Idle],
               UNCHANGED <<told, conn, book>>, task[k].pc \in {"opening", "following"},
               task[k].cmd = "subscribe" => task[k].thread \notin book[k]
        PROVE  AllNoted'
    <3>1. CASE task[k].cmd = "subscribe"
      <4>1. task'[k] = Idle /\ OthersStay(k) /\ k \in Conns
        BY <2>0, <2>3, <3>1 DEF OthersStay, Base, TypeOK
      <4> QED
        BY <2>3, <3>1, <4>1, EndedKeepsNoted
    <3>2. CASE task[k].cmd # "subscribe"
      BY <2>1, <2>3, <3>2 DEF AfterRaise
    <3> QED
      BY <3>1, <3>2
  <2>4. CASE LockTurn(k)
    <3>0. task[k].pc = "lock" /\ task[k].thread \in Threads /\ UNCHANGED <<hub, told, conn>>
      BY <2>0, <2>4 DEF LockTurn
    <3>1. CASE task[k].cmd = "subscribe"
      <4>1. Ensured(k, "subscribe", task[k].thread)
        BY <2>0, <2>4, <3>0, <3>1, ReuseEnsures, OpenEnsures DEF LockTurn
      <4> QED
        BY <2>0, <3>0, <3>1, <4>1, EnsuredKeepsNoted
    <3>2. CASE task[k].cmd # "subscribe" /\ Reuse(k, task[k].cmd, task[k].thread, task[k].follow)
      <4>1. OthersStay(k) /\ task'[k].pc # "closing"
            /\ task'[k].cmd \notin {"subscribe", "leave"}
        BY <2>0, <3>0, <3>2, ReusePc
      <4>2. UNCHANGED book
        BY <3>2 DEF Reuse, CallFollow, Arrive
      <4> QED
        BY <3>0, <4>1, <4>2, NotedStays
    <3>3. CASE task[k].cmd # "subscribe" /\ Open(k, task[k].cmd, task[k].thread, task[k].follow)
      <4>1. OthersStay(k) /\ task'[k].pc # "closing"
            /\ task'[k].cmd \notin {"subscribe", "leave"}
        BY <2>0, <3>0, <3>3, OpenPc
      <4>2. UNCHANGED book
        BY <3>3 DEF Open
      <4> QED
        BY <3>0, <4>1, <4>2, NotedStays
    <3> QED
      BY <2>4, <3>1, <3>2, <3>3 DEF LockTurn
  <2>5. CASE OpenDone(k)
    BY <2>2, <2>5 DEF OpenDone
  <2>6. CASE OpenFailed(k)
    <3>1. task[k].cmd = "subscribe" => task[k].thread \notin book[k]
      BY <2>0, <2>6 DEF Loses
    <3> QED
      BY <2>3, <2>6, <3>1 DEF OpenFailed
  <2>7. CASE FollowDone(k)
    <3>1. task[k].pc = "following" /\ UNCHANGED <<told, conn>>
      BY <2>7 DEF FollowDone
    <3>2. CASE hub' = hub /\ Arrive(k, task[k].cmd, task[k].thread, task[k].sess)
      BY <2>2, <3>1, <3>2
    <3>3. CASE task' = [task EXCEPT ![k] = Idle] /\ UNCHANGED <<hub, book>>
      BY <2>1, <3>1, <3>3
    <3>4. CASE ~task[k].ok /\ hub' = AfterRaise(k) /\ task' = [task EXCEPT ![k] = Idle]
               /\ UNCHANGED book
      <4>1. task[k].cmd = "subscribe" => task[k].thread \notin book[k]
        BY <2>0, <2>7, <3>4 DEF Loses
      <4> QED
        BY <2>3, <3>1, <3>4, <4>1
    <3> QED
      BY <2>7, <3>2, <3>3, <3>4 DEF FollowDone
  <2>8. CASE ArchiveDone(k)
    BY <2>8, ArchiveDoneKeepsNoted
  <2>9. CASE ArchiveFailed(k) \/ RestartFailed(k)
    BY <2>1, <2>9 DEF ArchiveFailed, RestartFailed
  <2>10. CASE CloseDone(k)
    BY <2>10, CloseDoneKeepsNoted
  <2>11. CASE RestartDone(k)
    <3>1. hub[task[k].thread] = {}
      BY <2>11 DEF Loses
    <3>2. UNCHANGED <<hub, told, conn, book>> /\ task[k].pc = "restarting"
      BY <2>0, <2>11, <3>1 DEF RestartDone, Cleared, Base, TypeOK
    <3>3. OthersStay(k) /\ task'[k].pc # "closing" /\ task'[k].cmd \notin {"subscribe", "leave"}
      BY <1>0, <2>11, RestartPc DEF RestartDone
    <3> QED
      BY <3>2, <3>3, NotedStays
  <2> QED
    BY <1>9, <2>4, <2>5, <2>6, <2>7, <2>8, <2>9, <2>10, <2>11 DEF Resume
<1>10. CASE UNCHANGED vars
  BY <1>10 DEF vars, AllNoted, Noted, Concerns, IsClosed
<1> QED
  BY <1>1, <1>2, <1>3, <1>4, <1>5, <1>6, <1>7, <1>8, <1>9, <1>10 DEF Next

\* An acknowledged subscription is lost in three ways only, whatever the commands
\* and the failures: the thread's session is being stopped when it is subscribed
\* to, a restart closes the thread, or the subscription is repeated and raises.
\* In every other step who was told of it stays subscribed until it unsubscribes
\* or is told that the thread was archived.
THEOREM ThreeWaysToLose == Spec /\ [][~Loses]_vars => []AckedStaysSubscribed
<1>1. Init => AllNoted
  BY DEF Init, AllNoted, Noted, IsClosed, Idle, Tasks
<1>2. Base /\ AllNoted /\ [Next]_vars /\ [~Loses]_vars => AllNoted'
  <2>1. AllNoted /\ UNCHANGED vars => AllNoted'
    BY DEF vars, AllNoted, Noted, Concerns, IsClosed
  <2> QED
    BY <2>1, NotedStep
<1>3. AllNoted => AckedStaysSubscribed
  BY DEF AllNoted, Noted, AckedStaysSubscribed
<1> QED
  BY <1>1, <1>2, <1>3, BaseInvariant, PTL DEF Spec
-----------------------------------------------------------------------------
(***************************************************************************)
(* Following.  Commands are subscriptions and prompts, the calls that open *)
(* and follow a session succeed, and no stop raises.                       *)
(***************************************************************************)
OnlySubscriptions ==
  /\ Commands \subseteq {"subscribe", "unsubscribe", "prompt"}
  /\ Faults \cap {"open", "follow", "stop"} = {}

\* A subscriber that will have the thread followed: it waits to, or the session
\* it opens is.
Asks(c, t) ==
  /\ task[c].cmd = "subscribe" /\ task[c].thread = t /\ c \in hub[t]
  /\ \/ task[c].pc = "lock" /\ task[c].follow
     \/ task[c].pc = "opening" /\ sess[task[c].sess].following

Streamed(t) == threads[t] # NoSession /\ sess[threads[t]].following

\* Who opens holds the lock and opens a thread that has no session; who asks
\* for following is a subscriber; and the calls it makes succeed.
Asking ==
  \A k \in Tasks :
    /\ task[k].pc = "opening" =>
         /\ threads[task[k].thread] = NoSession /\ lockq # <<>> /\ Head(lockq) = k
         /\ sess[task[k].sess].following => k \in Conns /\ Asks(k, task[k].thread)
    /\ task[k].pc = "lock" /\ task[k].follow => k \in Conns /\ Asks(k, task[k].thread)
    /\ task[k].ok

\* A thread with subscribers is streamed, or one of them will ask for it; a
\* streamed thread has subscribers.
Streams ==
  \A t \in Threads :
    /\ hub[t] # {} => Streamed(t) \/ \E c \in Conns : Asks(c, t)
    /\ Streamed(t) => hub[t] # {}

Following == LockIsHeld /\ Running /\ Asking /\ Streams

LEMMA Succeeds ==
  ASSUME OnlySubscriptions PROVE Outcomes("follow") = {TRUE} /\ "restart" \notin Commands
BY DEF OnlySubscriptions, Outcomes

\* A step of task k about thread t, as the others see it.
Elsewhere(k, t) ==
  /\ \A l \in Tasks \ {k} : task'[l] = task[l]
  /\ \A l \in Tasks : task[l].pc = "opening" =>
       sess'[task[l].sess].following = sess[task[l].sess].following
  /\ \A u \in Threads \ {t} :
       /\ threads'[u] = threads[u] /\ hub'[u] = hub[u] 
       /\ threads[u] # NoSession => sess'[threads[u]].following = sess[threads[u]].following
  /\ hub[t] \subseteq hub'[t]

LEMMA AsksStays ==
  ASSUME Base, NEW k \in Tasks, NEW t \in Threads, Elsewhere(k, t),
         NEW d \in Conns, d # k, NEW u \in Threads, Asks(d, u)
  PROVE  Asks(d, u)'
BY DEF Elsewhere, Asks, Tasks

LEMMA StreamsElsewhere ==
  ASSUME Base, Streams, NEW k \in Tasks, NEW t \in Threads, Elsewhere(k, t),
         \A u \in Threads \ {t} : k \in Conns => ~Asks(k, u),
         NEW u \in Threads \ {t}
  PROVE  (hub[u] # {} => Streamed(u) \/ \E c \in Conns : Asks(c, u))'
         /\ (Streamed(u) => hub[u] # {})'
<1>1. Streamed(u)' <=> Streamed(u)
  BY DEF Elsewhere, Streamed
<1>2. \A c \in Conns : Asks(c, u) => Asks(c, u)'
  BY AsksStays
<1>3. hub'[u] = hub[u]
  BY DEF Elsewhere
<1> QED
  BY <1>1, <1>2, <1>3 DEF Streams

\* Registered sessions and those that are opening are all different.
LEMMA Distinct ==
  ASSUME Base, Running
  PROVE  /\ \A t \in Threads : threads[t] # NoSession => threads[t] \in Sessions
         /\ \A t, u \in Threads : threads[t] # NoSession /\ threads[t] = threads[u] => t = u
         /\ \A l \in Tasks : task[l].pc = "opening" =>
              task[l].sess \in Sessions /\ \A t \in Threads : threads[t] # task[l].sess
         /\ \A l, m \in Tasks : task[l].pc = "opening" /\ task[m].pc = "opening"
              /\ task[l].sess = task[m].sess => l = m
<1>1. \A t \in Threads : threads[t] # NoSession =>
        threads[t] \in Sessions /\ sess[threads[t]].state = "live" /\ sess[threads[t]].thread = t
  BY DEF Running, RegisteredIsRunning, Base, TypeOK
<1>2. \A l \in Tasks : task[l].pc = "opening" =>
        /\ task[l].sess \in Sessions /\ Handles(l, task[l].sess)
        /\ sess[task[l].sess].state = "opening"
  BY DEF Base, Awaits, Fits, Handles, Running, OneHandler
<1>3. \A l, m \in Tasks : task[l].pc = "opening" /\ task[m].pc = "opening"
        /\ task[l].sess = task[m].sess => l = m
  BY <1>2 DEF Running, OneHandler, Handles
<1>4. \A l \in Tasks, t \in Threads : task[l].pc = "opening" => threads[t] # task[l].sess
  BY <1>1, <1>2, SessionAssumption
<1> QED
  BY <1>1, <1>2, <1>3, <1>4

\* What a call of _ensure_thread does to the session of its thread.
Called(k, c, t, follow) ==
  \/ /\ threads[t] # NoSession /\ task'[k].pc \in {"following", "idle"}
     /\ task'[k].ok
     /\ IF follow
        THEN /\ sess'[threads[t]].following
             /\ \A s \in Sessions \ {threads[t]} : sess'[s] = sess[s]
        ELSE sess' = sess
  \/ /\ threads[t] = NoSession /\ task'[k].pc = "opening" /\ task'[k].ok
     /\ task'[k].cmd = c /\ task'[k].thread = t
     /\ sess'[task'[k].sess].following = follow
     /\ \A l \in Tasks : task[l].pc = "opening" => sess'[task[l].sess] = sess[task[l].sess]
     /\ \A u \in Threads : threads[u] # NoSession => sess'[threads[u]] = sess[threads[u]]

LEMMA ReuseCalled ==
  ASSUME Base, OnlySubscriptions, NEW k \in Tasks, NEW c, c # "archive", NEW t \in Threads,
         NEW follow \in BOOLEAN, Reuse(k, c, t, follow)
  PROVE  Called(k, c, t, follow)
<1>0. threads[t] \in Sessions
  BY DEF Reuse, Base, TypeOK
<1>1. CASE follow
  <2>1. /\ sess' = [sess EXCEPT ![threads[t]].following = TRUE]
        /\ task' = [task EXCEPT ![k] =
                      [Awaiting("following", c, t, threads[t]) EXCEPT !.ok = TRUE]]
    BY <1>1, Succeeds DEF Reuse, CallFollow
  <2> DEFINE x == [Awaiting("following", c, t, threads[t]) EXCEPT !.ok = TRUE]
  <2>2. x.pc = "following" /\ x.ok
    BY DEF Awaiting, Idle
  <2>3. task'[k] = x
    BY <2>1 DEF Base, TypeOK
  <2> HIDE DEF x
  <2>4. sess'[threads[t]].following /\ \A s \in Sessions \ {threads[t]} : sess'[s] = sess[s]
    BY <1>0, <2>1 DEF Base, TypeOK, Session
  <2> QED
    BY <1>1, <2>2, <2>3, <2>4 DEF Reuse, Called
<1>2. CASE ~follow
  BY <1>2 DEF Reuse, Arrive, Called, Base, TypeOK, Idle
<1> QED
  BY <1>1, <1>2

LEMMA OpenCalled ==
  ASSUME Base, Running, NEW k \in Tasks, NEW c, NEW t \in Threads,
         NEW follow \in BOOLEAN, threads[t] = NoSession, Open(k, c, t, follow)
  PROVE  Called(k, c, t, follow)
<1>1. PICK s \in Free :
        /\ sess' = [sess EXCEPT ![s] = [Unused EXCEPT !.state = "opening", !.thread = t,
                                                      !.following = follow]]
        /\ task' = [task EXCEPT ![k] = Awaiting("opening", c, t, s)]
  BY DEF Open
<1>2. /\ s \in Sessions /\ sess'[s].following = follow
      /\ \A u \in Sessions \ {s} : sess'[u] = sess[u]
      /\ \A u \in Threads : threads[u] # s /\ \A l \in Tasks : task[l].sess # s
  BY <1>1 DEF Free, Referenced, Unused, Base, TypeOK
<1> DEFINE x == Awaiting("opening", c, t, s)
<1>3. x.pc = "opening" /\ x.ok /\ x.cmd = c /\ x.thread = t /\ x.sess = s
  BY DEF Awaiting, Idle
<1>4. task'[k] = x
  BY <1>1 DEF Base, TypeOK
<1> HIDE DEF x
<1>5. /\ \A l \in Tasks : task[l].pc = "opening" => sess'[task[l].sess] = sess[task[l].sess]
      /\ \A u \in Threads : threads[u] # NoSession => sess'[threads[u]] = sess[threads[u]]
  BY <1>2, Distinct
<1> QED
  BY <1>2, <1>3, <1>4, <1>5 DEF Called

Waiting(k, c, t, follow) ==
  /\ threads[t] = NoSession /\ task'[k].pc = "lock" /\ task'[k].ok /\ sess' = sess
  /\ task'[k].cmd = c /\ task'[k].thread = t /\ task'[k].follow = follow

LEMMA CalledKeepsFollowing ==
  ASSUME Base, Following, NEW k \in Tasks, NEW c \in {"subscribe", "prompt"}, NEW t \in Threads,
         NEW follow \in BOOLEAN, c = "subscribe" => k \in Conns,
         Called(k, c, t, follow) \/ Waiting(k, c, t, follow),
         \A l \in Tasks \ {k} : task'[l] = task[l], UNCHANGED threads,
         \A l \in Tasks : task'[l].pc = "opening" => lockq' # <<>> /\ Head(lockq') = l,
         \/ /\ task[k].pc = "idle" /\ follow = (c = "subscribe" /\ hub[t] = {})
            /\ hub' = IF c = "subscribe" THEN [hub EXCEPT ![t] = @ \cup {k}] ELSE hub
         \/ /\ task[k].pc = "lock" /\ task[k].follow = follow /\ hub' = hub
            /\ task[k].cmd = c /\ task[k].thread = t
  PROVE  Asking' /\ Streams'
<1> USE DEF Tasks
<1>1. /\ \A u \in Threads : k \in Conns /\ Asks(k, u) => u = t /\ task[k].pc = "lock" /\ follow
      /\ hub[t] \subseteq hub'[t] /\ \A u \in Threads \ {t} : hub'[u] = hub[u]
      /\ follow => c = "subscribe" /\ k \in hub'[t]
  BY DEF Asks, Following, Asking, Base, TypeOK
<1>2. /\ \A l \in Tasks : task[l].pc = "opening" =>
           sess'[task[l].sess].following = sess[task[l].sess].following
      /\ \A u \in Threads \ {t} : threads[u] # NoSession =>
           sess'[threads[u]].following = sess[threads[u]].following
  <2>1. CASE threads[t] = NoSession
    BY <2>1 DEF Called, Waiting
  <2>2. CASE threads[t] # NoSession
    <3>1. \A s \in Sessions \ {threads[t]} : sess'[s] = sess[s]
      BY <2>2 DEF Called, Waiting
    <3> QED
      BY <2>2, <3>1, Distinct DEF Following
  <2> QED
    BY <2>1, <2>2
<1>3. Elsewhere(k, t)
  BY <1>1, <1>2 DEF Elsewhere
<1>4. \A d \in Conns \ {k}, u \in Threads : Asks(d, u) => Asks(d, u)'
  BY <1>3, AsksStays
<1>5. threads[t] = NoSession /\ follow => k \in Conns /\ Asks(k, t)'
  BY <1>1 DEF Called, Waiting, Asks
<1>6. (hub[t] # {} => Streamed(t) \/ \E d \in Conns : Asks(d, t))' /\ (Streamed(t) => hub[t] # {})'
  <2>1. CASE threads[t] = NoSession
    <3>1. ~Streamed(t)' /\ ~Streamed(t)
      BY <2>1 DEF Streamed
    <3>2. CASE follow
      BY <1>5, <2>1, <3>1, <3>2
    <3>3. CASE ~follow
      <4>1. hub[t] # {} \/ hub'[t] = {}
        BY <3>3 DEF Base, TypeOK
      <4>2. \A d \in Conns : Asks(d, t) => d # k
        BY <1>1, <3>3
      <4> QED
        BY <1>4, <3>1, <4>1, <4>2 DEF Following, Streams
    <3> QED
      BY <3>2, <3>3
  <2>2. CASE threads[t] # NoSession /\ follow
    <3>1. Streamed(t)' /\ hub'[t] # {}
      BY <1>1, <2>2 DEF Streamed, Called, Waiting
    <3> QED
      BY <3>1
  <2>3. CASE threads[t] # NoSession /\ ~follow
    <3>1. Streamed(t)' <=> Streamed(t)
      BY <2>3 DEF Streamed, Called, Waiting
    <3>2. hub[t] # {} \/ hub'[t] = {}
      BY <2>3 DEF Base, TypeOK
    <3>3. \A d \in Conns : Asks(d, t) => d # k
      BY <1>1, <2>3
    <3> QED
      BY <1>1, <1>4, <3>1, <3>2, <3>3 DEF Following, Streams
  <2> QED
    BY <2>1, <2>2, <2>3
<1>7. Streams'
  <2>1. \A u \in Threads \ {t} : k \in Conns => ~Asks(k, u)
    BY <1>1
  <2>2. \A u \in Threads \ {t} : 
          (hub[u] # {} => Streamed(u) \/ \E d \in Conns : Asks(d, u))'
          /\ (Streamed(u) => hub[u] # {})'
    BY <1>3, <2>1, StreamsElsewhere DEF Following
  <2> QED
    BY <1>6, <2>2 DEF Streams
<1>8. ASSUME NEW l \in Tasks
      PROVE  /\ task'[l].pc = "opening" =>
                  /\ threads'[task'[l].thread] = NoSession /\ lockq' # <<>> /\ Head(lockq') = l
                  /\ sess'[task'[l].sess].following => l \in Conns /\ Asks(l, task[l].thread)'
             /\ task'[l].pc = "lock" /\ task'[l].follow => l \in Conns /\ Asks(l, task[l].thread)'
             /\ task'[l].ok
  <2>1. CASE l = k
    BY <1>5, <2>1 DEF Called, Waiting
  <2>2. CASE l # k
    <3>1. task'[l] = task[l] /\ (task[l].pc # "idle" => task[l].thread \in Threads)
      BY <2>2 DEF Base, Awaits, Fits
    <3>2. task[l].pc = "opening" => sess'[task[l].sess].following = sess[task[l].sess].following
      BY <1>2
    <3> QED
      BY <1>4, <2>2, <3>1, <3>2 DEF Following, Asking
  <2> QED
    BY <2>1, <2>2
<1> QED
  BY <1>7, <1>8 DEF Asking

\* The lock goes from an opening task to nobody else.
LEMMA ReleaseKeepsHead ==
  ASSUME Base, Asking, NEW k \in Tasks
  PROVE  \A l \in Tasks \ {k} : task[l].pc = "opening" =>
           Release(k) # <<>> /\ Head(Release(k)) = l
<1> SUFFICES ASSUME NEW l \in Tasks \ {k}, task[l].pc = "opening"
             PROVE  Release(k) # <<>> /\ Head(Release(k)) = l
  OBVIOUS
<1>1. lockq # <<>> /\ Head(lockq) = l
  BY DEF Asking
<1>2. Release(k) = lockq
  BY <1>1 DEF Release
<1> QED
  BY <1>1, <1>2

LEMMA EnsureKeepsFollowing ==
  ASSUME OnlySubscriptions, Base, Following, NEW k \in Tasks, NEW c \in {"subscribe", "prompt"},
         NEW t \in Threads, c = "subscribe" => k \in Conns, NEW follow \in BOOLEAN,
         task[k].pc = "idle", follow = (c = "subscribe" /\ hub[t] = {}), UNCHANGED threads,
         hub' = IF c = "subscribe" THEN [hub EXCEPT ![t] = @ \cup {k}] ELSE hub,
         Ensure(k, c, t, follow)
  PROVE  Asking' /\ Streams'
<1>1. \A l \in Tasks \ {k} : task'[l] = task[l]
  BY EnsureEnsures DEF Ensured
<1>2. CASE Reuse(k, c, t, follow) /\ UNCHANGED lockq
  <2>1. Called(k, c, t, follow)
    BY <1>2, ReuseCalled
  <2>2. task'[k].pc # "opening"
    BY <1>2, ReusePc
  <2>3. \A l \in Tasks : task'[l].pc = "opening" => lockq' # <<>> /\ Head(lockq') = l
    BY <1>1, <1>2, <2>2 DEF Following, Asking
  <2> QED
    BY <1>1, <2>1, <2>3, CalledKeepsFollowing
<1>3. CASE /\ threads[t] = NoSession /\ lockq = <<>> /\ lockq' = <<k>>
           /\ Open(k, c, t, follow)
  <2>1. Called(k, c, t, follow)
    BY <1>3, OpenCalled DEF Following
  <2>2. \A l \in Tasks : task'[l].pc = "opening" => lockq' # <<>> /\ Head(lockq') = l
    BY <1>1, <1>3 DEF Following, Asking
  <2> QED
    BY <1>1, <2>1, <2>2, CalledKeepsFollowing
<1>4. CASE /\ threads[t] = NoSession /\ lockq # <<>> /\ lockq' = Append(lockq, k)
           /\ task' = [task EXCEPT ![k] =
                         [Awaiting("lock", c, t, NoSession) EXCEPT !.follow = follow]]
           /\ UNCHANGED <<sess, book>>
  <2> DEFINE x == [Awaiting("lock", c, t, NoSession) EXCEPT !.follow = follow]
  <2>1. x.pc = "lock" /\ x.ok /\ x.cmd = c /\ x.thread = t /\ x.follow = follow
    BY DEF Awaiting, Idle
  <2>2. task'[k] = x
    BY <1>4 DEF Base, TypeOK
  <2> HIDE DEF x
  <2>3. Waiting(k, c, t, follow)
    BY <1>4, <2>1, <2>2 DEF Waiting
  <2>4. lockq' # <<>> /\ Head(lockq') = Head(lockq)
    <3>1. lockq \in Seq(Tasks)
      BY DEF Base, TypeOK
    <3> QED
      BY <1>4, <3>1
  <2>5. \A l \in Tasks : task'[l].pc = "opening" => lockq' # <<>> /\ Head(lockq') = l
    BY <1>1, <2>1, <2>2, <2>4 DEF Following, Asking
  <2> QED
    BY <1>1, <2>3, <2>5, CalledKeepsFollowing
<1> QED
  BY <1>2, <1>3, <1>4 DEF Ensure

LEMMA LockTurnKeepsFollowing ==
  ASSUME OnlySubscriptions, Base, Following, NEW k \in Tasks, LockTurn(k)
  PROVE  Asking' /\ Streams'
<1> DEFINE c == task[k].cmd
           t == task[k].thread
           follow == task[k].follow
<1>1. /\ c \in {"subscribe", "prompt"} /\ t \in Threads /\ follow \in BOOLEAN
      /\ c = "subscribe" => k \in Conns
  BY CommandAssumption DEF LockTurn, Base, TypeOK, Awaits, Fits, Task, OnlySubscriptions
<1>2. task[k].pc = "lock" /\ Head(lockq) = k /\ UNCHANGED <<hub, threads>>
  BY DEF LockTurn
<1>3. CASE Reuse(k, c, t, follow) /\ lockq' = IF follow THEN lockq ELSE Release(k)
  <2>0. Called(k, c, t, follow)
    BY <1>1, <1>3, ReuseCalled
  <2>1. task'[k].pc # "opening"
    BY <1>1, <1>3, ReusePc
  <2>2. \A l \in Tasks \ {k} : task'[l] = task[l]
    BY <1>1, <1>3, ReusePc DEF OthersStay
  <2>3. \A l \in Tasks : task'[l].pc = "opening" => lockq' # <<>> /\ Head(lockq') = l
    BY <1>3, <2>1, <2>2, ReleaseKeepsHead DEF Following, Asking
  <2> QED
    BY <1>1, <1>2, <2>0, <2>2, <2>3, CalledKeepsFollowing
<1>4. CASE threads[t] = NoSession /\ Open(k, c, t, follow) /\ UNCHANGED lockq
  <2>1. Called(k, c, t, follow) 
    BY <1>1, <1>4, OpenCalled DEF Following
  <2>2. \A l \in Tasks \ {k} : task'[l] = task[l]
    BY <1>4, OpenPc DEF OthersStay
  <2>3. lockq # <<>>
    BY TurnIsHolders DEF Following
  <2>4. \A l \in Tasks : task'[l].pc = "opening" => lockq' # <<>> /\ Head(lockq') = l
    BY <1>2, <1>4, <2>2, <2>3 DEF Following, Asking
  <2> QED
    BY <1>1, <1>2, <2>1, <2>2, <2>4, CalledKeepsFollowing
<1> QED
  BY <1>3, <1>4 DEF LockTurn

LEMMA OpenDoneKeepsFollowing ==
  ASSUME OnlySubscriptions, Base, Following, NEW k \in Tasks, OpenDone(k)
  PROVE  Asking' /\ Streams'
<1> USE DEF Tasks
<1>0. PICK t \in Threads, s \in Sessions : t = task[k].thread /\ s = task[k].sess
  BY DEF OpenDone, Base, Awaits, Fits
<1> USE <1>0
<1>1. task[k].pc = "opening" /\ task[k].cmd # "archive" /\ threads[t] = NoSession /\ task[k].ok
  BY CommandAssumption
     DEF OpenDone, Base, Awaits, Fits, Following, Asking, OnlySubscriptions
<1>2. /\ threads' = [threads EXCEPT ![t] = s]
      /\ sess' = [sess EXCEPT ![s].state = "live", ![s].watched = TRUE]
      /\ hub' = hub /\ lockq' = Release(k)
  BY <1>1 DEF OpenDone, Register
<1>3. task'[k] = Idle /\ \A l \in Tasks \ {k} : task'[l] = task[l]
  BY <1>1 DEF OpenDone, Arrive, Base, TypeOK
<1>4. \A u \in Sessions : sess'[u].following = sess[u].following
  BY <1>1, <1>2, RegisteredSession DEF Base, TypeOK
<1>5. threads'[t] = s /\ \A u \in Threads \ {t} : threads'[u] = threads[u]
  BY <1>1, <1>2 DEF Base, TypeOK
<1>6. Elsewhere(k, t)
  <2>1. \A l \in Tasks : task[l].pc = "opening" => task[l].sess \in Sessions
    BY DEF Base, Awaits, Fits
  <2>2. \A u \in Threads : threads[u] # NoSession => threads[u] \in Sessions
    BY DEF Base, TypeOK
  <2> QED
    BY <1>2, <1>3, <1>4, <1>5, <2>1, <2>2 DEF Elsewhere
<1>7. \A d \in Conns \ {k}, u \in Threads : Asks(d, u) => Asks(d, u)'
  BY <1>6, AsksStays
<1>8. Streamed(t)' <=> sess[s].following
  BY <1>1, <1>4, <1>5, SessionAssumption DEF Streamed
<1>9. sess[s].following => k \in Conns /\ Asks(k, t)
  BY <1>1 DEF Following, Asking
<1>10. k \in Conns => (Asks(k, t) => sess[s].following) /\ \A u \in Threads \ {t} : ~Asks(k, u)
  BY <1>1 DEF Asks
<1>11. (hub[t] # {} => Streamed(t) \/ \E d \in Conns : Asks(d, t))' /\ (Streamed(t) => hub[t] # {})'
  <2>1. ~Streamed(t)
    BY <1>1 DEF Streamed
  <2>2. hub[t] # {} => \E d \in Conns : Asks(d, t)
    BY <1>1, <2>1 DEF Following, Streams
  <2>3. sess[s].following => hub[t] # {}
    BY <1>9 DEF Asks
  <2> QED
    BY <1>2, <1>7, <1>8, <1>10, <2>2, <2>3
<1>12. Streams'
  <2>1. \A u \in Threads \ {t} : k \in Conns => ~Asks(k, u)
    BY <1>10
  <2>2. \A u \in Threads \ {t} :
          (hub[u] # {} => Streamed(u) \/ \E d \in Conns : Asks(d, u))'
          /\ (Streamed(u) => hub[u] # {})'
    BY <1>6, <2>1, StreamsElsewhere DEF Following
  <2> QED
    BY <1>11, <2>2 DEF Streams
<1>13. \A l \in Tasks : task'[l].pc = "opening" => FALSE
  BY <1>1, <1>3 DEF Following, Asking, Idle
<1>14. ASSUME NEW l \in Tasks
       PROVE  /\ task'[l].pc = "lock" /\ task'[l].follow => l \in Conns /\ Asks(l, task[l].thread)'
              /\ task'[l].ok
  <2>1. CASE l = k
    BY <1>3, <2>1 DEF Idle
  <2>2. CASE l # k
    <3>1. task'[l] = task[l] /\ (task[l].pc # "idle" => task[l].thread \in Threads)
      BY <1>3, <2>2 DEF Base, Awaits, Fits
    <3> QED
      BY <1>7, <2>2, <3>1 DEF Following, Asking
  <2> QED
    BY <2>1, <2>2
<1> QED
  BY <1>12, <1>13, <1>14 DEF Asking

\* A task that neither opens nor waits goes on, and the hub and the sessions
\* are left alone.
LEMMA MoveKeepsFollowing ==
  ASSUME Base, Following, NEW k \in Tasks, OthersStay(k), task'[k].ok,
         task[k].pc \notin {"opening", "lock"}, task'[k].pc \notin {"opening", "lock"},
         UNCHANGED <<hub, threads, sess>>, lockq' = lockq \/ lockq' = Release(k)
  PROVE  Asking' /\ Streams'
<1> USE DEF Tasks
<1>1. \A d \in Conns, t \in Threads : Asks(d, t) => d # k
  BY DEF Asks
<1>2. \A d \in Conns, t \in Threads : Asks(d, t) => Asks(d, t)'
  BY <1>1 DEF Asks, OthersStay
<1>3. Streams'
  BY <1>2 DEF Following, Streams, Streamed
<1>4. \A l \in Tasks \ {k} : task[l].pc = "opening" => lockq' # <<>> /\ Head(lockq') = l
  BY ReleaseKeepsHead DEF Following, Asking
<1>5. \A l \in Tasks : task[l].pc # "idle" => task[l].thread \in Threads
  BY DEF Base, Awaits, Fits
<1>6. Asking'
  BY <1>2, <1>4, <1>5 DEF Following, Asking, OthersStay
<1> QED
  BY <1>3, <1>6

LEMMA LeaveKeepsFollowing ==
  ASSUME OnlySubscriptions, Base, Following, NEW c \in Conns, NEW cmd,
         NEW T \in SUBSET Threads, LeaveThreads(c, cmd, T), UNCHANGED <<threads, lockq>>,
         task[c].pc \notin {"opening", "lock"}
  PROVE  Asking' /\ Streams'
<1> USE DEF Tasks
<1>0. c \in Tasks
  OBVIOUS
<1>1. \A d \in Conns, u \in Threads : Asks(d, u) => d # c
  BY DEF Asks
<1>2. /\ OthersStay(c) /\ task'[c].pc \in {"idle", "unfollowing"} /\ task'[c].ok
  <2>1. CASE task' = [task EXCEPT ![c] = Idle]
    <3>1. task'[c] = Idle
      BY <1>0, <2>1 DEF Base, TypeOK
    <3> QED
      BY <3>1, LeavePc DEF Idle
  <2>2. ASSUME NEW t, NEW s, task' = [task EXCEPT ![c] = Awaiting("unfollowing", cmd, t, s)]
        PROVE  task'[c].ok
    <3> DEFINE x == Awaiting("unfollowing", cmd, t, s)
    <3>1. x.ok
      BY DEF Awaiting, Idle
    <3>2. task' = [task EXCEPT ![c] = x]
      BY <2>2
    <3> HIDE DEF x
    <3> QED
      BY <1>0, <3>1, <3>2 DEF Base, TypeOK
  <2> QED
    BY <2>1, <2>2, LeavePc DEF LeaveThreads
<1>3. ASSUME NEW P \in SUBSET T, \A u \in P : Silent(c, u), NEW U \in SUBSET Threads,
             P \subseteq U, \A u \in U : u \in P \/ hub[u] = {c},
             \A u \in Threads : hub'[u] = IF u \in U THEN hub[u] \ {c} ELSE hub[u],
             \A s \in Sessions : sess[s].state = "opening" => sess'[s] = sess[s],
             \A u \in Threads : Streamed(u)' <=> (Streamed(u) /\ u \notin U \ P)
      PROVE  Asking' /\ Streams'
  <2>1. \A d \in Conns, u \in Threads : Asks(d, u) => Asks(d, u)'
    <3> SUFFICES ASSUME NEW d \in Conns, NEW u \in Threads, Asks(d, u) PROVE Asks(d, u)'
      OBVIOUS
    <3>1. d # c /\ task'[d] = task[d] /\ d \in hub'[u]
      BY <1>1, <1>2, <1>3 DEF OthersStay, Asks
    <3>2. task[d].pc = "opening" => sess'[task[d].sess] = sess[task[d].sess]
      BY <1>3 DEF Following, Running, OneHandler, Handles, Base, Awaits, Fits
    <3> QED
      BY <3>1, <3>2 DEF Asks
  <2>2. ASSUME NEW u \in Threads
        PROVE  /\ hub'[u] # {} => Streamed(u)' \/ \E d \in Conns : Asks(d, u)'
               /\ Streamed(u)' => hub'[u] # {}
    <3>1. hub'[u] # {} => hub[u] # {} /\ (u \in U => u \in P)
      BY <1>3
    <3>2. Streamed(u) /\ u \in P => hub[u] # {c}
      BY <1>3 DEF Silent, Last, Streamed
    <3>3. ASSUME Streamed(u)' PROVE hub'[u] # {}
      <4>1. Streamed(u) /\ u \notin U \ P /\ hub[u] # {}
        BY <1>3, <3>3 DEF Following, Streams
      <4>2. CASE u \in P
        <5>1. hub[u] # {c} /\ hub'[u] = hub[u] \ {c}
          BY <1>3, <3>2, <4>1, <4>2
        <5> QED
          BY <4>1, <5>1
      <4>3. CASE u \notin P
        <5>1. hub'[u] = hub[u]
          BY <1>3, <4>1, <4>3
        <5> QED
          BY <4>1, <5>1
      <4> QED
        BY <4>2, <4>3
    <3> QED
      BY <1>3, <2>1, <3>1, <3>3 DEF Following, Streams
  <2>3. ASSUME NEW l \in Tasks
        PROVE  /\ task'[l].pc = "opening" =>
                    /\ threads'[task'[l].thread] = NoSession /\ lockq' # <<>> /\ Head(lockq') = l
                    /\ sess'[task'[l].sess].following => l \in Conns /\ Asks(l, task[l].thread)'
               /\ task'[l].pc = "lock" /\ task'[l].follow =>
                    l \in Conns /\ Asks(l, task[l].thread)'
               /\ task'[l].ok
    <3>1. CASE l = c
      BY <1>2, <3>1
    <3>2. CASE l # c
      <4>1. task'[l] = task[l] /\ (task[l].pc # "idle" => task[l].thread \in Threads)
        BY <1>2, <3>2 DEF OthersStay, Base, Awaits, Fits
      <4>2. task[l].pc = "opening" => sess'[task[l].sess] = sess[task[l].sess]
        BY <1>3 DEF Following, Running, OneHandler, Handles, Base, Awaits, Fits
      <4> QED
        BY <2>1, <3>2, <4>1, <4>2 DEF Following, Asking
    <3> QED
      BY <3>1, <3>2
  <2> QED
    BY <2>2, <2>3 DEF Asking, Streams
<1>4. CASE (\A t \in T : Silent(c, t)) /\ hub' = HubWithout(c, T) /\ UNCHANGED sess
  <2>1. \A u \in Threads : hub'[u] = IF u \in T THEN hub[u] \ {c} ELSE hub[u]
    BY <1>4 DEF HubWithout
  <2>2. \A u \in Threads : Streamed(u)' <=> (Streamed(u) /\ u \notin T \ T)
    BY <1>4 DEF Streamed
  <2> QED
    BY <1>3, <1>4, <2>1, <2>2
<1>5. ASSUME NEW t \in T, NEW P \in SUBSET T, ~Silent(c, t), \A u \in P : Silent(c, u),
             hub' = HubWithout(c, P \cup {t}),
             sess' = [sess EXCEPT ![threads[t]].following = FALSE]
      PROVE  Asking' /\ Streams'
  <2>1. /\ hub[t] = {c} /\ t \notin P /\ threads[t] \in Sessions
        /\ sess[threads[t]].state = "live"
    BY <1>5 DEF Silent, Last, Following, Running, RegisteredIsRunning, Base, TypeOK
  <2>2. /\ ~sess'[threads[t]].following
        /\ \A s \in Sessions \ {threads[t]} : sess'[s] = sess[s]
    BY <1>5, <2>1 DEF Base, TypeOK, Session
  <2>3. \A u \in Threads :
          hub'[u] = IF u \in P \cup {t} THEN hub[u] \ {c} ELSE hub[u]
    BY <1>5 DEF HubWithout
  <2>4. \A u \in Threads : Streamed(u)' <=> (Streamed(u) /\ u \notin (P \cup {t}) \ P)
    BY <2>1, <2>2, Distinct DEF Streamed, Following
  <2>5. \A s \in Sessions : sess[s].state = "opening" => sess'[s] = sess[s]
    BY <2>1, <2>2
  <2>6. P \cup {t} \in SUBSET Threads /\ P \subseteq P \cup {t}
        /\ \A u \in P \cup {t} : u \in P \/ hub[u] = {c}
    BY <2>1
  <2> QED
    BY <1>3, <1>5, <2>3, <2>4, <2>5, <2>6
<1>6. ASSUME NEW t \in T, NEW P \in SUBSET T,
             ~Silent(c, t), \A u \in P : Silent(c, u), hub' = HubWithout(c, P \cup {t}),
             \E ok \in Outcomes("follow") :
               sess' = IF ok THEN [sess EXCEPT ![threads[t]].following = FALSE] ELSE sess
      PROVE  Asking' /\ Streams'
  <2> DEFINE unfollowed == [sess EXCEPT ![threads[t]].following = FALSE]
  <2>1. PICK ok \in Outcomes("follow") : sess' = IF ok THEN unfollowed ELSE sess
    BY <1>6
  <2>2. ok = TRUE
    BY Succeeds
  <2> HIDE DEF unfollowed
  <2>3. sess' = unfollowed
    BY <2>1, <2>2
  <2> USE DEF unfollowed
  <2> QED
    BY <1>5, <1>6, <2>3
<1>7. CASE \E t \in T, P \in SUBSET T :
             /\ ~Silent(c, t) /\ \A u \in P : Silent(c, u)
             /\ hub' = HubWithout(c, P \cup {t})
             /\ \E ok \in Outcomes("follow") :
                  sess' = IF ok THEN [sess EXCEPT ![threads[t]].following = FALSE] ELSE sess
  BY <1>6, <1>7
<1> QED
  <2> HIDE DEF Tasks
  <2> QED
    BY <1>4, <1>7, Zenon DEF LeaveThreads

LEMMA FollowingStep ==
  ASSUME OnlySubscriptions, Base, Following, [Next]_vars
  PROVE  Following'
<1> USE DEF Tasks
<1>0. /\ "archive" \notin Commands /\ "start" \notin Commands /\ "restart" \notin Commands
      /\ Idle.pc = "idle" /\ Idle.ok
      /\ \A u \in Threads : hub[u] \subseteq Conns
  BY DEF OnlySubscriptions, Idle, Base, TypeOK
<1> SUFFICES Asking' /\ Streams'
  BY <1>0, LockStep, RunningStep DEF Following
<1>1. ASSUME NEW c \in Conns, NEW t \in Threads, Subscribe(c, t) PROVE Asking' /\ Streams'
  BY <1>0, <1>1, ReadyCommand, EnsureKeepsFollowing DEF Subscribe, First
<1>2. ASSUME NEW c \in Conns, NEW t \in Threads, Unsubscribe(c, t) PROVE Asking' /\ Streams'
  BY <1>2, ReadyCommand, LeaveKeepsFollowing DEF Unsubscribe
<1>3. ASSUME NEW c \in Conns, Leave(c) PROVE Asking' /\ Streams'
  <2>1. book[c] \in SUBSET Threads
    BY DEF Base, TypeOK
  <2> QED
    BY <1>3, <2>1, LeaveKeepsFollowing DEF Leave
<1>4. ASSUME NEW c \in Conns, Reconnect(c) PROVE Asking' /\ Streams'
  BY <1>4 DEF Reconnect, Following, Asking, Streams, Streamed, Asks
<1>5. ASSUME NEW k \in Tasks, NEW t \in Threads, NEW c \in Commands, UseThread(k, c, t)
      PROVE  Asking' /\ Streams'
  <2>1. c = "prompt" /\ task[k].pc = "idle"
    BY <1>0, <1>5, ReadyCommand DEF UseThread
  <2> QED
    BY <1>5, <2>1, EnsureKeepsFollowing DEF UseThread
<1>6. ASSUME NEW k \in Tasks, NEW t \in Threads, StartThread(k, t) PROVE Asking' /\ Streams'
  BY <1>0, <1>6, ReadyCommand DEF StartThread
<1>7. ASSUME NEW k \in Tasks, Restart(k) PROVE Asking' /\ Streams'
  BY <1>0, <1>7, ReadyCommand DEF Restart
<1>8. ASSUME NEW k \in Tasks, Resume(k) PROVE Asking' /\ Streams'
  <2>0. /\ task[k].ok
        /\ task[k].pc \notin {"archiving", "closing", "restarting"}
        /\ task[k].pc = "following" => task[k].cmd # "archive"
        /\ k \in Conns => book[k] \subseteq Threads
    BY <1>0 DEF Following, Asking, Base, TypeOK, Awaits, Fits
  <2>1. CASE LockTurn(k)
    BY <2>1, LockTurnKeepsFollowing
  <2>2. CASE OpenDone(k)
    BY <2>2, OpenDoneKeepsFollowing
  <2>3. CASE OpenFailed(k)
    BY <2>3 DEF OpenFailed, OnlySubscriptions
  <2>4. CASE FollowDone(k)
    <3>1. task' = [task EXCEPT ![k] = Idle] /\ hub' = hub
      BY <2>0, <2>4 DEF FollowDone, Arrive
    <3>2. task'[k] = Idle /\ OthersStay(k)
      BY <3>1 DEF OthersStay, Base, TypeOK
    <3> QED
      BY <1>0, <2>4, <3>1, <3>2, MoveKeepsFollowing DEF FollowDone
  <2>5. CASE k \in Conns /\ UnfollowDone(k)
    <3>1. CASE task[k].cmd = "leave" /\ LeaveThreads(k, "leave", book[k] \ {task[k].thread})
      <4>1. book[k] \ {task[k].thread} \in SUBSET Threads
        BY <2>0, <2>5
      <4> QED
        BY <2>5, <3>1, <4>1, LeaveKeepsFollowing DEF UnfollowDone
    <3>2. CASE task' = [task EXCEPT ![k] = Idle] /\ UNCHANGED <<hub, sess>>
      <4>1. task'[k] = Idle /\ OthersStay(k)
        BY <3>2 DEF OthersStay, Base, TypeOK
      <4> QED
        BY <1>0, <2>5, <3>2, <4>1, MoveKeepsFollowing DEF UnfollowDone
    <3> QED
      BY <2>5, <3>1, <3>2 DEF UnfollowDone
  <2>6. CASE ArchiveDone(k) \/ ArchiveFailed(k) \/ CloseDone(k)
    BY <2>0, <2>6 DEF ArchiveDone, ArchiveFailed, CloseDone
  <2>7. CASE RestartDone(k) \/ RestartFailed(k)
    BY <2>0, <2>7 DEF RestartDone, RestartFailed
  <2> QED
    BY <1>8, <2>1, <2>2, <2>3, <2>4, <2>5, <2>6, <2>7 DEF Resume
<1>9. CASE UNCHANGED vars
  BY <1>9 DEF vars, Following, Asking, Streams, Streamed, Asks
<1> QED
  BY <1>1, <1>2, <1>3, <1>4, <1>5, <1>6, <1>7, <1>8, <1>9 DEF Next

\* Once no task is about a thread, Codex streams it exactly while somebody
\* subscribes to it, when the commands are subscriptions, their ends and prompts
\* and the calls that open, follow and stop a session succeed.
THEOREM FollowingTracksSubscribersHolds ==
  ASSUME OnlySubscriptions PROVE Spec => []FollowingTracksSubscribers
<1>1. Init => Following
  <2>1. Init => Asking /\ Streams
    BY DEF Init, Asking, Streams, Streamed, Idle
  <2>2. Init => LockIsHeld
    BY DEF Init, LockIsHeld, Idle
  <2>3. Init => Running
    BY DEF Init, Running, OneHandler, Handles, Idle, Unused, RegisteredIsRunning, LiveAreRegistered
  <2> QED
    BY <2>1, <2>2, <2>3 DEF Following
<1>2. Base /\ Following /\ [Next]_vars => Following'
  BY FollowingStep
<1>3. Following => FollowingTracksSubscribers
  <2>1. \A t \in Threads : Quiet(t) => \A c \in Conns : ~Asks(c, t)
    BY DEF Quiet, Asks, Tasks
  <2> QED
    BY <2>1 DEF Following, Streams, Streamed, FollowingTracksSubscribers
<1> QED
  BY <1>1, <1>2, <1>3, BaseInvariant, PTL DEF Spec
=============================================================================
