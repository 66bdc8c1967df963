--------------------------- MODULE BrowserConnection ---------------------------
(***************************************************************************)
(* The browser's side of a connection: CodexSocket and                     *)
(* CodexReconnectController (web/src/codex/lib/codexSocket.ts and          *)
(* codexReconnect.ts), and the part of useCodexWorkspace.ts that connects, *)
(* restores the thread shown after a reconnection and changes it.          *)
(*                                                                         *)
(* The async functions are tasks: "boot" is connect(), "retry" the one run *)
(* of runReconnect that may be under way, a click is a selectThread() of   *)
(* the user.  A task waits at an await until its promise is settled; the   *)
(* browser runs every settled task before it dispatches another event      *)
(* (microtasks), which is the guard EventLoop.  The server answers the     *)
(* commands of a connection in the order they were sent, and forgets the   *)
(* connection's subscriptions when it ends (ThreadSessions).               *)
(***************************************************************************)
EXTENDS Integers, Sequences

CONSTANTS
  Threads,      \* the threads the server lists
  NoThread,     \* the empty string: no thread is shown, a new chat
  Clicks,       \* the selections the user makes
  MaxFaults,    \* bound: connects that fail and connections that drop
  MaxToggles,   \* bound: changes of the network and of the page's visibility
  MaxRefusals   \* bound: commands the server answers with an error

ASSUME ThreadAssumption == NoThread \notin Threads /\ Threads # {}
ASSUME ClickAssumption == Clicks \cap {"boot", "retry"} = {}
ASSUME BoundAssumption ==
  MaxFaults \in Nat /\ MaxToggles \in Nat /\ MaxRefusals \in Nat

VARIABLES
  ctl,       \* the controller's fields and the state it last published
  sock,      \* the WebSocket: none, connecting, failed (closing), open
  env,       \* navigator.onLine and document.visibilityState
  events,    \* online and offline events the browser has yet to dispatch
  pc,        \* what each task awaits
  settled,   \* whether that promise is settled, and how
  target,    \* the thread a task selects
  active,    \* activeThreadId: the thread shown
  activeSub, \* activeSubscriptionId: the thread it believes is subscribed
  listed,    \* the sidebar has threads to click on
  wire,      \* commands sent on this connection and not answered
  served,    \* the threads this connection is subscribed to at the server
  refused,   \* history: the server refused a command of this connection
  fresh,     \* history: New chat was the user's last choice
  tried,     \* history: the number of the last attempt since the connection broke
  used       \* history: the bounded events that have happened

clientVars == <<active, activeSub, listed, fresh>>
serverVars == <<wire, served, refused>>
taskVars == <<pc, settled, target>>
vars == <<ctl, sock, env, events, clientVars, serverVars, taskVars, tried, used>>

Tasks == {"boot", "retry"} \cup Clicks
Status == {"idle", "connecting", "open", "closed", "error"}
Down == {"closed", "error"}
Commands == {"list", "unsubscribe", "subscribe"}

TypeOK ==
  /\ ctl \in [status : Status, started : BOOLEAN, recovering : BOOLEAN,
              timer : BOOLEAN, reconnecting : BOOLEAN, attempt : Nat,
              phase : {"idle", "open", "scheduled", "connecting", "offline"},
              shown : Nat]
  /\ sock \in {"none", "connecting", "failed", "open"}
  /\ env \in [online : BOOLEAN, visible : BOOLEAN]
  /\ events \in Seq({"online", "offline"})
  /\ pc \in [Tasks -> Commands \cup {"idle", "connect", "cache", "done"}]
  /\ settled \in [Tasks -> {"no", "ok", "failed"}]
  /\ target \in [Tasks -> Threads \cup {NoThread}]
  /\ {active, activeSub} \subseteq Threads \cup {NoThread}
  /\ served \in SUBSET Threads
  /\ \A i \in DOMAIN wire :
       wire[i] \in [task : Tasks, command : Commands, thread : Threads \cup {NoThread}]
  /\ {listed, refused, fresh} \subseteq BOOLEAN
  /\ tried \in Nat
  /\ used \in [faults : 0 .. MaxFaults, toggles : 0 .. MaxToggles,
               refusals : 0 .. MaxRefusals]

Init ==
  /\ ctl = [status |-> "idle", started |-> FALSE, recovering |-> FALSE,
            timer |-> FALSE, reconnecting |-> FALSE, attempt |-> 0,
            phase |-> "idle", shown |-> 0]
  /\ sock = "none"
  /\ env \in [online : {TRUE}, visible : BOOLEAN]
  /\ events = <<>>
  /\ pc = [t \in Tasks |-> "idle"]
  /\ settled = [t \in Tasks |-> "no"]
  /\ target = [t \in Tasks |-> NoThread]
  /\ active \in Threads \cup {NoThread}    \* readActiveThreadId
  /\ activeSub = NoThread
  /\ wire = <<>> /\ served = {}
  /\ listed = FALSE /\ refused = FALSE /\ fresh = FALSE
  /\ tried = 0
  /\ used = [faults |-> 0, toggles |-> 0, refusals |-> 0]
-----------------------------------------------------------------------------
(***************************************************************************)
(* CodexReconnectController.  Its methods are synchronous: each is the     *)
(* controller c it leaves, in the environment e it reads.                  *)
(***************************************************************************)
CanReconnectNow(e) == e.online /\ e.visible

\* Mutated forms of the methods below.
MissesErrors(c, e) ==
  c.started /\ c.status = "closed" /\ CanReconnectNow(e)
CountsFromZero(c) ==
  IF ~c.reconnecting /\ c.phase \in {"scheduled", "offline"} /\ c.shown > c.attempt
  THEN c.shown ELSE c.attempt - 1

ShouldReconnect(c, e) ==
  c.started /\ c.status \notin {"open", "connecting"} /\ CanReconnectNow(e)

PublishState(c, phase, n) == [c EXCEPT !.phase = phase, !.shown = n]

\* The number of the attempt that will follow.
WaitingAttempt(c) ==
  IF ~c.reconnecting /\ c.phase \in {"scheduled", "offline"} /\ c.shown > c.attempt
  THEN c.shown ELSE c.attempt + 1

PublishWaitingState(c, e, n) ==
  PublishState(c, IF e.online THEN "scheduled" ELSE "offline", n)

ScheduleReconnect(c, e) ==
  IF ~c.started \/ ~c.recovering \/ c.status \in {"open", "connecting"} THEN c
  ELSE IF ~CanReconnectNow(e) THEN PublishWaitingState(c, e, WaitingAttempt(c))
  ELSE IF c.timer THEN c
  ELSE [PublishState(c, "scheduled", c.attempt + 1) EXCEPT !.attempt = @ + 1, !.timer = TRUE]

HandleStatus(c, status, e) ==
  LET d == [c EXCEPT !.status = status] IN
  CASE status = "open" ->
         [PublishState(d, "open", 0) EXCEPT !.recovering = FALSE, !.attempt = 0, !.timer = FALSE]
    [] status = "connecting" /\ d.recovering ->
         PublishState(d, "connecting", IF d.attempt > 1 THEN d.attempt ELSE 1)
    [] status \in Down /\ d.started ->
         ScheduleReconnect([d EXCEPT !.recovering = TRUE], e)
    [] OTHER -> d

\* handleVisibilityChange when the page is hidden, handleOffline: the timer
\* is cleared, and the attempt it would have made is shown as waiting.
PendingAttempt(c) == IF c.timer THEN c.attempt ELSE WaitingAttempt(c)
Hidden(c, e) ==
  IF ~c.recovering THEN c
  ELSE PublishWaitingState([c EXCEPT !.timer = FALSE], e, PendingAttempt(c))
HandleOffline(c) ==
  IF ~c.recovering THEN c
  ELSE PublishState([c EXCEPT !.timer = FALSE], "offline", PendingAttempt(c))

\* Mutated forms of the three methods below.
ForgetsShown(c) ==
  LET n == IF c.attempt = 0 THEN 1 ELSE c.attempt
  IN  [PublishState(c, "connecting", n) EXCEPT !.attempt = n, !.reconnecting = TRUE]
SchedulesNothing(c, e) == [c EXCEPT !.reconnecting = FALSE]
KeepsTimer(c) ==
  [PublishState(c, "idle", 0) EXCEPT !.started = FALSE, !.recovering = FALSE, !.attempt = 0]

\* runReconnect up to its await: the attempt is at least the one shown.
BeginAttempt(c) ==
  LET n == CHOOSE m \in {1, c.attempt, c.shown} : \A k \in {1, c.attempt, c.shown} : k <= m
  IN  [PublishState(c, "connecting", n) EXCEPT !.attempt = n, !.reconnecting = TRUE]

\* The finally clause of runReconnect.
EndAttempt(c, e) ==
  LET d == [c EXCEPT !.reconnecting = FALSE] IN
  IF d.recovering /\ d.status \in Down THEN ScheduleReconnect(d, e) ELSE d

Stopped(c) ==
  [PublishState(c, "idle", 0) EXCEPT !.started = FALSE, !.recovering = FALSE,
                                     !.attempt = 0, !.timer = FALSE]
-----------------------------------------------------------------------------
\* The browser dispatches an event when no task is ready to run, and the
\* close event of a socket directly after its error event.
Quiet == \A t \in Tasks : settled[t] = "no"
EventLoop == Quiet /\ sock # "failed"

\* useCodexWorkspace listens to the socket from connect() to its unmounting.
OnStatus(status, e) ==
  ctl' = IF ctl.started THEN HandleStatus(ctl, status, e) ELSE ctl

Settle(S, how) == settled' = [t \in Tasks |-> IF t \in S THEN how ELSE settled[t]]
Awaiting(points) == {t \in Tasks : pc[t] \in points}

\* runReconnect: one attempt at a time; options.reconnect is
\* restoreSocketConnection, which creates a WebSocket before its first await.
RunReconnect(c, e) ==
  IF c.reconnecting \/ ~ShouldReconnect(c, e)
  THEN ctl' = c /\ UNCHANGED <<sock, pc, tried>>
  ELSE /\ tried' = BeginAttempt(c).attempt
       /\ ctl' = HandleStatus(BeginAttempt(c), "connecting", e)
       /\ sock' = "connecting"
       /\ pc' = [pc EXCEPT !["retry"] = "connect"]

\* Mutated form: the timer is left running.
LeavesTimer(c, e) ==
  IF ShouldReconnect(c, e) THEN RunReconnect(c, e) ELSE ctl' = c /\ UNCHANGED <<sock, pc, tried>>
ReconnectImmediately(c, e) ==
  IF ShouldReconnect(c, e)
  THEN RunReconnect([c EXCEPT !.timer = FALSE], e)
  ELSE ctl' = c /\ UNCHANGED <<sock, pc, tried>>

Use(counter, bound) ==
  used[counter] < bound /\ used' = [used EXCEPT ![counter] = @ + 1]
-----------------------------------------------------------------------------
\* connect() of a mounted workspace: start() and the first connection.
Boot ==
  /\ EventLoop
  /\ pc["boot"] = "idle"
  /\ ctl' = HandleStatus([ctl EXCEPT !.started = TRUE], "connecting", env)
  /\ sock' = "connecting"
  /\ pc' = [pc EXCEPT !["boot"] = "connect"]
  /\ UNCHANGED <<tried, env, events, clientVars, serverVars, settled, target, used>>

TimerFires ==
  /\ EventLoop
  /\ ctl.timer
  /\ RunReconnect([ctl EXCEPT !.timer = FALSE], env)
  /\ UNCHANGED <<env, events, clientVars, serverVars, settled, target, used>>

\* visibilitychange is dispatched with the change it announces.
VisibilityChange ==
  /\ EventLoop
  /\ Use("toggles", MaxToggles)
  /\ env' = [env EXCEPT !.visible = ~@]
  /\ \/ ~ctl.started /\ UNCHANGED <<ctl, sock, pc, tried>>
     \/ ctl.started /\ env'.visible /\ ReconnectImmediately(ctl, env')
     \/ /\ ctl.started /\ ~env'.visible
        /\ ctl' = Hidden(ctl, env') /\ UNCHANGED <<sock, pc, tried>>
  /\ UNCHANGED <<events, clientVars, serverVars, settled, target>>

\* navigator.onLine changes at once; the event that tells is queued.
NetworkChange ==
  /\ Use("toggles", MaxToggles)
  /\ env' = [env EXCEPT !.online = ~@]
  /\ events' = Append(events, IF env.online THEN "offline" ELSE "online")
  /\ UNCHANGED <<tried, ctl, sock, clientVars, serverVars, taskVars>>

DispatchNetworkEvent ==
  /\ EventLoop
  /\ events # <<>>
  /\ events' = Tail(events)
  /\ \/ ~ctl.started /\ UNCHANGED <<ctl, sock, pc, tried>>
     \/ ctl.started /\ Head(events) = "online" /\ ReconnectImmediately(ctl, env)
     \/ /\ ctl.started /\ Head(events) = "offline"
        /\ ctl' = HandleOffline(ctl) /\ UNCHANGED <<sock, pc, tried>>
  /\ UNCHANGED <<env, clientVars, serverVars, settled, target, used>>

\* pageshow: the page returns from the back/forward cache.
PageShow ==
  /\ EventLoop
  /\ ctl.started /\ env.visible
  /\ Use("toggles", MaxToggles)
  /\ ReconnectImmediately(ctl, env)
  /\ UNCHANGED <<env, events, clientVars, serverVars, settled, target>>
-----------------------------------------------------------------------------
SocketOpens ==
  /\ EventLoop
  /\ sock = "connecting"
  /\ sock' = "open"
  /\ OnStatus("open", env)
  /\ Settle(Awaiting({"connect"}), "ok")
  /\ wire' = <<>> /\ served' = {} /\ refused' = FALSE /\ tried' = 0
  /\ UNCHANGED <<env, events, clientVars, pc, target, used>>

\* onerror before onopen, and the onclose that follows it.
ConnectFails ==
  /\ EventLoop
  /\ sock = "connecting"
  /\ Use("faults", MaxFaults)
  /\ sock' = "failed"
  /\ OnStatus("error", env)
  /\ Settle(Awaiting({"connect"}), "failed")
  /\ UNCHANGED <<tried, env, events, clientVars, serverVars, pc, target>>
FailedCloses ==
  /\ Quiet
  /\ sock = "failed"
  /\ sock' = "none"
  /\ OnStatus("error", env)
  /\ UNCHANGED <<tried, env, events, clientVars, serverVars, taskVars, used>>

\* onclose of an open socket: the commands in flight are rejected.
SocketDrops ==
  /\ EventLoop
  /\ sock = "open"
  /\ Use("faults", MaxFaults)
  /\ sock' = "none"
  /\ OnStatus("closed", env)
  /\ Settle(Awaiting(Commands), "failed")
  /\ wire' = <<>> /\ served' = {}
  /\ UNCHANGED <<tried, env, events, clientVars, refused, pc, target>>

\* onBeforeUnmount: teardownSocketConnection and socket.close().
Unmount ==
  /\ EventLoop
  /\ ctl.started
  /\ ctl' = Stopped(ctl)
  /\ sock' = "none"
  /\ Settle(Awaiting(Commands \cup {"connect"}), "failed")
  /\ wire' = <<>> /\ served' = {}
  /\ UNCHANGED <<tried, env, events, clientVars, refused, pc, target, used>>
-----------------------------------------------------------------------------
\* sendCommand rejects at once without an open socket.
Send(t, command, thread) ==
  /\ pc' = [pc EXCEPT ![t] = command]
  /\ IF sock = "open"
     THEN /\ wire' = Append(wire, [task |-> t, command |-> command, thread |-> thread])
          /\ settled' = [settled EXCEPT ![t] = "no"]
     ELSE settled' = [settled EXCEPT ![t] = "failed"] /\ UNCHANGED wire

\* selectThread from the point where the previous thread is unsubscribed: the
\* selection is shown, and the cache is read for the subscription.
Show(t, thread) ==
  /\ active' = thread
  /\ activeSub' = thread
  /\ pc' = [pc EXCEPT ![t] = "cache"]
  /\ settled' = [settled EXCEPT ![t] = "no"]

SelectThread(t, thread) ==
  /\ target' = [target EXCEPT ![t] = thread]
  /\ IF activeSub \notin {NoThread, thread}
     THEN Send(t, "unsubscribe", activeSub) /\ UNCHANGED <<active, activeSub>>
     ELSE Show(t, thread) /\ UNCHANGED wire

\* A task is over; for the retry, runReconnect's finally clause runs.
Finish(t) ==
  /\ pc' = [pc EXCEPT ![t] = IF t = "retry" THEN "idle" ELSE "done"]
  /\ settled' = [settled EXCEPT ![t] = "no"]
  /\ target' = [target EXCEPT ![t] = NoThread]
  /\ ctl' = IF t = "retry" THEN EndAttempt(ctl, env) ELSE ctl

\* Mutated form: connected, and nothing is selected.
OnlyConnects(t) ==
  /\ pc[t] = "connect" /\ settled[t] = "ok"
  /\ Finish(t)
  /\ UNCHANGED <<active, activeSub, wire, listed>>

\* A settled task runs to its next await.
Restore(t) ==        \* restoreSocketConnection: connected, refresh the list
  /\ pc[t] = "connect" /\ settled[t] = "ok"
  /\ Send(t, "list", NoThread)
  /\ UNCHANGED <<ctl, target, active, activeSub, listed>>
SelectRestored(t) == \* refreshWorkspaceAndSelect: the list has arrived
  /\ pc[t] = "list" /\ settled[t] = "ok"
  /\ listed' = TRUE
  /\ \E thread \in IF active # NoThread THEN {active} ELSE Threads : SelectThread(t, thread)
  /\ UNCHANGED ctl
ShowSelected(t) ==   \* the unsubscription has been answered, or has failed
  /\ pc[t] = "unsubscribe" /\ settled[t] # "no"
  /\ Show(t, target[t])
  /\ UNCHANGED <<ctl, target, wire, listed>>
Subscribe(t) ==
  /\ pc[t] = "cache" /\ settled[t] # "no"
  /\ Send(t, "subscribe", target[t])
  /\ UNCHANGED <<ctl, target, active, activeSub, listed>>
Over(t) ==
  /\ \/ pc[t] \in {"connect", "list"} /\ settled[t] = "failed"
     \/ pc[t] = "subscribe" /\ settled[t] # "no"
  /\ Finish(t)
  /\ UNCHANGED <<active, activeSub, wire, listed>>

Continue(t) ==
  /\ \/ Restore(t) \/ SelectRestored(t) \/ ShowSelected(t) \/ Subscribe(t) \/ Over(t)
  /\ UNCHANGED <<tried, sock, env, events, served, refused, fresh, used>>

\* turnSync.subscriptionCache has read the browser's database.
CacheRead(t) ==
  /\ EventLoop
  /\ pc[t] = "cache"
  /\ Settle({t}, "ok")
  /\ UNCHANGED <<tried, ctl, sock, env, events, clientVars, serverVars, pc, target, used>>

\* The user chooses a thread in the sidebar, or New chat.
Click(t) ==
  /\ EventLoop
  /\ t \in Clicks /\ pc[t] = "idle"
  /\ ctl.started /\ listed
  /\ \E thread \in Threads : SelectThread(t, thread)
  /\ fresh' = FALSE
  /\ UNCHANGED <<tried, ctl, sock, env, events, listed, served, refused, used>>
StartNewChat ==
  /\ EventLoop
  /\ ctl.started
  /\ active' = NoThread /\ activeSub' = NoThread
  /\ fresh' = TRUE
  /\ UNCHANGED <<tried, ctl, sock, env, events, listed, serverVars, taskVars, used>>

\* The server answers the oldest command, and the answer arrives.
AfterCommand(cmd) ==
  CASE cmd.command = "subscribe" -> served \cup {cmd.thread}
    [] cmd.command = "unsubscribe" -> served \ {cmd.thread}
    [] OTHER -> served
Answer ==
  /\ EventLoop
  /\ wire # <<>>
  /\ wire' = Tail(wire)
  /\ \/ /\ served' = AfterCommand(Head(wire))
        /\ Settle({Head(wire).task}, "ok")
        /\ UNCHANGED <<refused, used>>
     \/ /\ Head(wire).command # "unsubscribe"
        /\ Use("refusals", MaxRefusals)
        /\ Settle({Head(wire).task}, "failed")
        /\ refused' = TRUE
        /\ UNCHANGED served
  /\ UNCHANGED <<tried, ctl, sock, env, events, clientVars, pc, target>>
-----------------------------------------------------------------------------
Next ==
  \/ Boot \/ TimerFires \/ Unmount
  \/ VisibilityChange \/ NetworkChange \/ DispatchNetworkEvent \/ PageShow
  \/ SocketOpens \/ ConnectFails \/ FailedCloses \/ SocketDrops
  \/ StartNewChat \/ Answer
  \/ \E t \in Tasks : Continue(t) \/ CacheRead(t) \/ Click(t)

Spec == Init /\ [][Next]_vars

\* The browser dispatches its events, fires its timers, runs its tasks and
\* answers from its database; a connection that does not fail is
\* established, and the server answers on a connection that lasts.
Fairness ==
  /\ WF_vars(Boot) /\ WF_vars(TimerFires) /\ WF_vars(DispatchNetworkEvent)
  /\ WF_vars(SocketOpens) /\ WF_vars(FailedCloses) /\ WF_vars(Answer)
  /\ \A t \in Tasks : WF_vars(Continue(t)) /\ WF_vars(CacheRead(t))

FairSpec == Spec /\ Fairness
-----------------------------------------------------------------------------
(***************************************************************************)
(* No reconnection is forgotten: whenever the connection is down, the page *)
(* is visible and the browser online, either the timer runs or an attempt  *)
(* is under way that will schedule the next one.  It fails if a timer that *)
(* fires during an attempt, or a page that was hidden, leaves neither.     *)
(***************************************************************************)
RetryPending ==
  (/\ EventLoop /\ events = <<>>
   /\ ctl.recovering /\ ctl.status \in Down /\ CanReconnectNow(env))
    => ctl.timer \/ ctl.reconnecting

(***************************************************************************)
(* The controller knows the state of the socket whatever the order of      *)
(* connects, failures and events: what it says of the connection is what   *)
(* the socket is, and a retry is due only when there is no socket.         *)
(***************************************************************************)
StatusIsTrue ==
  (EventLoop /\ ctl.started) =>
    /\ ctl.status = "open" <=> sock = "open"
    /\ ctl.status = "connecting" <=> sock = "connecting"
    /\ ctl.timer => sock = "none"

(***************************************************************************)
(* An unmounted workspace is left alone: no timer, no socket and no notice *)
(* of a lost connection, although a retry, a selection or a cache read may *)
(* still be under way.                                                     *)
(***************************************************************************)
Unmounted == pc["boot"] # "idle" /\ ~ctl.started
LeftAlone == Unmounted => sock = "none" /\ ~ctl.timer /\ ctl.phase = "idle"

(***************************************************************************)
(* The retries back off: each attempt since the connection broke has a     *)
(* higher number than the one before, and the number is what the delay is  *)
(* computed from (up to 15 seconds; an immediate retry has none), whatever *)
(* the timer, the finally clause and the events of the page have started   *)
(* and cancelled in between.                                               *)
(***************************************************************************)
RetriesBackOff ==
  [][pc["retry"] = "idle" /\ pc'["retry"] = "connect" => ctl'.attempt > tried]_vars

(***************************************************************************)
(* Once the page stays visible and the browser online, the connection is   *)
(* re-established, for good when nothing breaks it again.                  *)
(***************************************************************************)
Usable == ctl.started /\ CanReconnectNow(env)
Recovers == <>[]Usable => <>[](ctl.status = "open")

(***************************************************************************)
(* ... and the thread that is shown is the one the server sends updates    *)
(* of, whatever was selected while the connection was down or being        *)
(* restored, unless the server refused a command of this connection.       *)
(***************************************************************************)
Resubscribes ==
  <>[]Usable => <>[](refused \/ active \in served \cup {NoThread})

(***************************************************************************)
(* "New chat" clears the active thread, so that the next message creates a *)
(* fresh thread (the comment on startNewChat): it stays cleared until the  *)
(* user selects a thread.                                                  *)
(***************************************************************************)
NewChatStays == fresh => active = NoThread
=============================================================================
