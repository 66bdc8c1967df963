----------------------------- MODULE RemoteHosts -----------------------------
(***************************************************************************)
(* The sessions CodexIpcManager keeps per SSH host to list threads with    *)
(* (_workspace_sessions), the statuses it shows of the connections, and    *)
(* the requests that open, use, restart and close them, interleaved at     *)
(* their awaits.  Connections are the ones of settings.json; a session is  *)
(* opened with the version of the connection the settings have then.       *)
(* The local host goes through the same table, has no connection and no    *)
(* status, and is never restarted.  What an SSH session does is external:  *)
(* starting, listing and stopping succeed or fail, and so does closing the *)
(* sessions of the host's threads, which a restart does first.             *)
(***************************************************************************)
EXTENDS Integers

CONSTANTS
  Hosts,        \* connection ids
  Tasks,        \* requests in flight at once
  MaxSessions,  \* bound on the sessions opened
  MaxVersions,  \* bound on the saves of connections
  MaxRequests,  \* bound on the requests but for those that make a connection
  None

RemoteConstants ==
  /\ Hosts # {} /\ {MaxSessions, MaxVersions, MaxRequests} \subseteq Nat
  /\ None \notin Nat \cup Tasks \cup {"connecting", "connected", "error", "disconnected"}

VARIABLES
  conn,      \* [version, made, auto] or None: the connection in the settings
  versions,  \* versions given out
  table,     \* _workspace_sessions: a session or None
  session,   \* [cfg, phase] of the sessions opened; one is lost that is out of the
             \* table when its stop raised or was cancelled, or nobody called it
  opened,    \* how many were
  status,    \* _remote_connection_statuses, or None
  task,      \* the requests in flight
  open,      \* the manager has not been stopped
  requests,
  behind     \* sessions whose connection was changed and that nobody then closed

remoteVars ==
  <<conn, versions, table, session, opened, status, task, open, requests, behind>>
registry == <<table, session, opened>>

Ops == {"list", "recents", "use", "restart", "update", "delete", "autoOn", "autoOff",
        "test", "install"}
Places == {"idle", "ensure", "starting", "failing", "calling", "close", "stopping",
           "report", "threads", "remote"}
Statuses == {"connecting", "connected", "error", "disconnected", None}
Idle == [op |-> "use", host |-> CHOOSE h \in Hosts : TRUE, at |-> "idle", mine |-> 0,
         ok |-> TRUE, rounds |-> 0]

TypeOK ==
  /\ \A h \in Hosts : conn[h] # None =>
       /\ conn[h].made \in 1 .. conn[h].version /\ conn[h].version \in 1 .. versions
       /\ conn[h].auto \in BOOLEAN
  /\ versions \in 0 .. MaxVersions /\ opened \in 0 .. MaxSessions
  /\ table \in [Hosts -> 1 .. opened \cup {None}]
  /\ session \in [1 .. opened ->
                    [cfg : 1 .. versions, phase : {"starting", "running", "stopped", "lost"}]]
  /\ status \in [Hosts -> Statuses]
  /\ task \in [Tasks -> [op : Ops, host : Hosts, at : Places, mine : 0 .. opened,
                         ok : BOOLEAN, rounds : 0 .. 2]]
  /\ open \in BOOLEAN /\ requests \in 0 .. MaxRequests
  /\ behind \subseteq 1 .. opened

Init ==
  /\ conn = [h \in Hosts |-> None] /\ versions = 0
  /\ table = [h \in Hosts |-> None] /\ session = <<>> /\ opened = 0
  /\ status = [h \in Hosts |-> None]
  /\ task = [t \in Tasks |-> Idle] /\ open = TRUE /\ requests = 0
  /\ behind = {}

Host(t) == task[t].host
At(t, place) == task[t].at = place
Go(t, place) == task' = [task EXCEPT ![t].at = place]
Finish(t) == task' = [task EXCEPT ![t] = Idle]
Show(h, value) == status' = [status EXCEPT ![h] = value]

(***************************************************************************)
(* Requests arrive.  Their first steps, up to an await, are synchronous.   *)
(***************************************************************************)
Accept(t, op, h, place) ==
  /\ open /\ At(t, "idle") /\ requests < MaxRequests /\ requests' = requests + 1
  /\ \E rounds \in 1 .. (IF op = "list" THEN 2 ELSE 1) :
       task' = [task EXCEPT ![t] = [op |-> op, host |-> h, at |-> place, mine |-> 0,
                                    ok |-> TRUE, rounds |-> rounds]]

\* What is saved of the connection comes with the request.
SaveConnection(h) ==
  /\ versions < MaxVersions /\ versions' = versions + 1
  /\ \E auto \in BOOLEAN :
       conn' = [conn EXCEPT ![h] =
         [version |-> versions + 1,
          made |-> IF conn[h] = None THEN versions + 1 ELSE conn[h].made,
          auto |-> auto]]

Create(h) ==
  /\ open /\ conn[h] = None /\ SaveConnection(h)
  /\ UNCHANGED <<registry, status, task, open, requests, behind>>

\* The application's settings come whole from the browser, connections and all: what
\* they change of a connection, or remove, no session is closed for.
SaveApp(h) ==
  /\ open /\ conn[h] # None
  /\ requests < MaxRequests /\ requests' = requests + 1
  /\ \/ SaveConnection(h)
     \/ /\ versions < MaxVersions /\ versions' = versions + 1
        /\ conn' = [conn EXCEPT ![h] = None]
  /\ behind' = behind \cup ({table[h]} \ {None})
  /\ UNCHANGED <<registry, status, task, open>>

\* The page of projects first, if the host has any, then that of recent threads.
BeginListing(t, h, op) ==
  /\ conn[h] # None /\ conn[h].auto
  /\ Accept(t, op, h, "ensure")
  /\ UNCHANGED <<conn, versions, registry, status, open, behind>>

BeginUse(t, h) ==
  /\ Accept(t, "use", h, "ensure")
  /\ UNCHANGED <<conn, versions, registry, status, open, behind>>

BeginRestart(t, h) ==
  /\ conn[h] # None /\ Accept(t, "restart", h, "threads") /\ Show(h, "connecting")
  /\ UNCHANGED <<conn, versions, registry, open, behind>>

\* A mutant: the settings are saved, and the host's sessions stay.
UpdateOnly(t, h) ==
  /\ SaveConnection(h)
  /\ Accept(t, "update", h, "idle") /\ Show(h, "connecting")
  /\ UNCHANGED <<registry, open, behind>>

\* The new settings are saved before the sessions are restarted; an id that
\* is not there is made.
BeginUpdate(t, h) ==
  /\ SaveConnection(h)
  /\ Accept(t, "update", h, "threads") /\ Show(h, "connecting")
  /\ UNCHANGED <<registry, open, behind>>

BeginDelete(t, h) ==
  /\ Accept(t, "delete", h, "threads")
  /\ UNCHANGED <<conn, versions, registry, status, open, behind>>

BeginAutoConnect(t, h, on) ==
  /\ conn[h] # None /\ conn' = [conn EXCEPT ![h].auto = on]
  /\ Accept(t, IF on THEN "autoOn" ELSE "autoOff", h, "threads")
  /\ UNCHANGED <<versions, registry, status, open, behind>>

\* ssh runs `codex --version`, or the installer.
BeginRemote(t, h, op) ==
  /\ conn[h] # None /\ Accept(t, op, h, "remote") /\ Show(h, "connecting")
  /\ UNCHANGED <<conn, versions, registry, open, behind>>

(***************************************************************************)
(* Taking a session out of the table, and what a request does next.        *)
(***************************************************************************)
\* The end of a request after the sessions of its host are closed.
Closed(t) ==
  LET h == Host(t) IN
  CASE task[t].op = "list" ->
         /\ task' = [task EXCEPT ![t].at = "report", ![t].ok = FALSE]
         /\ UNCHANGED <<conn, status>>
    [] task[t].op = "delete" ->
         /\ Show(h, None) /\ conn' = [conn EXCEPT ![h] = None] /\ Finish(t)
    [] task[t].op \in {"autoOn", "autoOff"} ->
         /\ Show(h, IF task[t].op = "autoOn" THEN "connecting" ELSE "disconnected")
         /\ Finish(t) /\ UNCHANGED conn
    [] OTHER -> Finish(t) /\ UNCHANGED <<conn, status>>

\* What becomes of a session that is told to stop: a stop that raises is passed over.
Told(s) ==
  \E raises \in BOOLEAN :
    session' = [session EXCEPT ![s].phase =
                  IF raises /\ @ # "stopped" THEN "lost" ELSE "stopped"]

\* The session is popped at once and stopped in an await.
Close(t) ==
  LET h == Host(t) IN
  /\ \/ table[h] = None /\ Closed(t)
     \/ /\ table[h] # None
        /\ task' = [task EXCEPT ![t].at = "stopping", ![t].mine = table[h]]
        /\ UNCHANGED <<conn, status>>
  /\ table' = [table EXCEPT ![h] = None]
  /\ UNCHANGED <<versions, opened, open, requests, behind>>

Stopping(t) ==
  /\ At(t, "stopping") /\ Closed(t) /\ Told(task[t].mine)
  /\ UNCHANGED <<versions, table, opened, open, requests, behind>>

\* A failed listing closes the host's session, whosoever it is; a failed
\* page of recent threads does when the pages of all hosts are in.
Raise(t) ==
  \/ task[t].op = "list" /\ Close(t)
  \/ /\ task[t].op # "list"
     /\ IF task[t].op = "recents" THEN Go(t, "close") ELSE Finish(t)
     /\ UNCHANGED <<conn, versions, table, opened, status, open, requests, behind>>

CloseHost(t) == (At(t, "close") \/ At(t, "threads")) /\ Close(t) /\ UNCHANGED session

\* Closing a session of the host's threads raises, and the request with it, before it
\* comes to the session of the table.
ThreadsRaise(t) ==
  /\ At(t, "threads") /\ Finish(t)
  /\ behind' = behind \cup (IF task[t].op = "update" THEN {table[Host(t)]} \ {None} ELSE {})
  /\ UNCHANGED <<conn, versions, registry, status, open, requests>>

(***************************************************************************)
(* _ensure_workspace_session and the calls made on the session.            *)
(***************************************************************************)
\* A mutant: one that has not started yet is opened again.
ExistingRunning(h) == table[h] # None /\ session[table[h]].phase = "running"

\* A session that is in the table is used, whether it has started or not.
Existing(h) == table[h] # None

EnsureUnknown(t) == At(t, "ensure") /\ conn[Host(t)] = None /\ Raise(t) /\ UNCHANGED session

EnsureExisting(t) ==
  /\ At(t, "ensure") /\ conn[Host(t)] # None /\ Existing(Host(t)) /\ Go(t, "calling")
  /\ UNCHANGED <<conn, versions, registry, status, open, requests, behind>>

EnsureOpens(t) ==
  /\ At(t, "ensure") /\ conn[Host(t)] # None /\ ~Existing(Host(t))
  /\ opened < MaxSessions /\ opened' = opened + 1
  /\ session' = [i \in 1 .. opened + 1 |->
       IF i \in 1 .. opened THEN session[i]
       ELSE [cfg |-> conn[Host(t)].version, phase |-> "starting"]]
  /\ table' = [table EXCEPT ![Host(t)] = opened + 1]
  /\ task' = [task EXCEPT ![t].at = "starting", ![t].mine = opened + 1]
  /\ UNCHANGED <<conn, versions, status, open, requests, behind>>

\* Another request may have stopped it while it was starting.
Started(t) ==
  /\ At(t, "starting") /\ Go(t, "calling")
  /\ session' = [session EXCEPT ![task[t].mine].phase =
                   IF @ = "starting" THEN "running" ELSE @]
  /\ UNCHANGED <<conn, versions, table, opened, status, open, requests, behind>>

\* Whatever the host has in the table is popped; the own session is stopped.
StartFails(t) ==
  /\ At(t, "starting") /\ Go(t, "failing")
  /\ table' = [table EXCEPT ![Host(t)] = None]
  /\ session' = [i \in DOMAIN session |->
       IF i = table[Host(t)] /\ i # task[t].mine THEN [session[i] EXCEPT !.phase = "lost"]
       ELSE session[i]]
  /\ UNCHANGED <<conn, versions, opened, status, open, requests, behind>>

FailedStops(t) == At(t, "failing") /\ Told(task[t].mine) /\ Raise(t)

CallReturns(t) ==
  /\ At(t, "calling")
  /\ \/ task[t].op = "list" /\ task[t].rounds = 2
        /\ task' = [task EXCEPT ![t].at = "ensure", ![t].rounds = 1]
     \/ task[t].op = "list" /\ task[t].rounds = 1 /\ Go(t, "report")
     \/ task[t].op # "list" /\ Finish(t)
  /\ UNCHANGED <<conn, versions, registry, status, open, requests, behind>>

CallFails(t) == At(t, "calling") /\ Raise(t) /\ UNCHANGED session

\* A page of a listing has 5 seconds; its coroutine is cancelled wherever it is, in
\* the stop of a session that failed to start too.  Nothing catches that.
TimesOut(t) ==
  /\ task[t].op = "list" /\ Raise(t)
  /\ \/ task[t].at \in {"starting", "calling"} /\ UNCHANGED session
     \/ At(t, "failing") /\ Told(task[t].mine)

\* When all hosts are listed: the status, then those of unknown hosts go.
Report(t) ==
  /\ At(t, "report") /\ Finish(t)
  /\ status' = [h \in Hosts |->
       IF conn[h] = None THEN None
       ELSE IF h # Host(t) THEN status[h]
       ELSE IF task[t].ok THEN "connected" ELSE "error"]
  /\ UNCHANGED <<conn, versions, registry, open, requests, behind>>

RemoteEnds(t, ok) ==
  LET h == Host(t)
      restarts == ok /\ task[t].op = "install" /\ conn[h] # None
  IN
  /\ At(t, "remote") /\ UNCHANGED <<conn, versions, registry, open, requests, behind>>
  /\ \/ restarts /\ Show(h, "connecting") /\ Go(t, "threads")
     \/ /\ ~restarts /\ Finish(t)
        /\ IF ok /\ task[t].op = "install" THEN UNCHANGED status
           ELSE Show(h, IF ok THEN "connected" ELSE "error")

\* The server has answered its requests and stops.  A session that raises ends it,
\* before those of the hosts that follow are stopped and before the table is cleared.
Stop ==
  /\ open /\ open' = FALSE /\ \A t \in Tasks : At(t, "idle")
  /\ \E done \in SUBSET Hosts :
       /\ session' = [i \in DOMAIN session |->
            IF \E h \in done : table[h] = i THEN [session[i] EXCEPT !.phase = "stopped"]
            ELSE session[i]]
       /\ \/ done = Hosts /\ table' = [h \in Hosts |-> None]
          \/ done # Hosts /\ UNCHANGED table
  /\ UNCHANGED <<conn, versions, opened, status, task, requests, behind>>

Step(t) ==
  \/ CloseHost(t) \/ ThreadsRaise(t) \/ Stopping(t) \/ EnsureUnknown(t) \/ EnsureExisting(t)
  \/ EnsureOpens(t) \/ Started(t) \/ StartFails(t) \/ FailedStops(t)
  \/ CallReturns(t) \/ CallFails(t) \/ TimesOut(t) \/ Report(t)
  \/ \E ok \in BOOLEAN : RemoteEnds(t, ok)

Next ==
  \/ Stop
  \/ \E h \in Hosts : Create(h) \/ SaveApp(h)
  \/ \E t \in Tasks : Step(t)
  \/ \E t \in Tasks, h \in Hosts :
       \/ \E op \in {"list", "recents"} : BeginListing(t, h, op)
       \/ BeginUse(t, h) \/ BeginRestart(t, h) \/ BeginUpdate(t, h) \/ BeginDelete(t, h)
       \/ \E on \in BOOLEAN : BeginAutoConnect(t, h, on)
       \/ \E op \in {"test", "install"} : BeginRemote(t, h, op)

Spec == Init /\ [][Next]_remoteVars

(***************************************************************************)
(* Properties.                                                             *)
(***************************************************************************)

(* No SSH process is left that nothing refers to: a session that has not   *)
(* been stopped is in the table, or a request is about to stop it.  The    *)
(* ways to lose one are named: its stop raises, or is cancelled when a     *)
(* listing's time is up while its failed start is cleaned up, or a start   *)
(* that fails pops another session, opened in the host's place since.      *)
NoneDropped ==
  \A s \in 1 .. opened :
    \/ session[s].phase \in {"stopped", "lost"}
    \/ \E h \in Hosts : table[h] = s
    \/ \E t \in Tasks : task[t].at \in {"stopping", "failing"} /\ task[t].mine = s

(* A listing never goes to where a connection no longer points: the        *)
(* session in the table was opened with the settings the connection has,   *)
(* unless an update is on its way to close it.  Excepted are the sessions  *)
(* the application's settings changed the connection of, or that an update *)
(* did not come to because closing one of a thread raised, and a session   *)
(* that outlived the deletion of a connection, reopened by a listing while *)
(* it was being closed: it is older than the connection made again.        *)
CurrentSettings ==
  \A h \in Hosts :
    (conn[h] # None /\ table[h] # None /\ session[table[h]].cfg >= conn[h].made) =>
      \/ session[table[h]].cfg = conn[h].version \/ table[h] \in behind
      \/ \E t \in Tasks : task[t].op = "update" /\ Host(t) = h /\ At(t, "threads")
=============================================================================
