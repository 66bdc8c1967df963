---------------------------- MODULE SettingsStore ----------------------------
(***************************************************************************)
(* ~/.yier/web/settings.json as AppConfigService reads and rewrites it,    *)
(* with AuthService's copy of the password.  Every handler that saves is   *)
(* synchronous in the server's only event loop: it loads the whole file,   *)
(* changes its part and writes the whole file back, in one step.  The file *)
(* is truncated first: a crash in the write, or a write that raises in a   *)
(* server that goes on, leaves a torn one.  The next load takes that for   *)
(* none, unless it ends inside a character: then every load raises.        *)
(* The id of a connection that is made without one is its host's name, so  *)
(* ids are drawn from Hosts.  A project has one root path.                 *)
(***************************************************************************)
EXTENDS Integers, Sequences

CONSTANTS
  Hosts,      \* names of SSH hosts, and the ids made from them
  Paths,      \* project directories
  Pids,       \* project ids (uuid4: never given twice)
  Threads,
  Desktop,    \* the threads Codex Desktop lists as projectless
  MaxSaves,   \* bound on the writes of the file
  MaxCrashes, \* bound on the crashes in a write
  NoId, Local,
  NoFile,     \* there is no file, or a torn one that does not parse: they load alike
  Unreadable  \* a torn file that is not text

Connection == [id : Hosts \cup {NoId}, host : Hosts, auto : BOOLEAN]
Project == [id : Pids, host : Hosts \cup {Local}, path : Paths]
Partial(S, T) == UNION {[D -> T] : D \in SUBSET S}

\* What the file holds.
Contents ==
  [conns : Seq(Connection), active : Hosts \cup {NoId}, projects : SUBSET Project,
   assigned : Partial(Threads, Pids), projectless : SUBSET Threads, password : BOOLEAN]

SettingsConstants ==
  /\ Desktop \subseteq Threads /\ MaxSaves \in Nat /\ MaxCrashes \in Nat
  /\ NoId \notin Hosts /\ Local \notin Hosts
  /\ NoFile \notin Contents /\ Unreadable \notin Contents

VARIABLES
  file,   \* the settings it holds, NoFile or Unreadable
  auth,   \* the server's copy: a password is in force
  up,     \* the server runs
  failed, \* a write has raised, and auth has not been read again since
  page,   \* a client's copy of the connections, from GET /api/config
  saves, crashes

settingsVars == <<file, auth, up, failed, page, saves, crashes>>

Torn == {NoFile, Unreadable}
Whole == file \notin Torn
Readable == file # Unreadable

TypeOK ==
  /\ Whole => file \in Contents
  /\ auth \in BOOLEAN /\ up \in BOOLEAN /\ failed \in BOOLEAN
  /\ page.conns \in Seq(Connection) /\ page.active \in Hosts \cup {NoId}
  /\ saves \in 0 .. MaxSaves /\ crashes \in 0 .. MaxCrashes

Init ==
  /\ file = NoFile /\ auth = FALSE /\ up = TRUE /\ failed = FALSE
  /\ page = [conns |-> <<>>, active |-> NoId]
  /\ saves = 0 /\ crashes = 0

(***************************************************************************)
(* Loading.                                                                *)
(***************************************************************************)
Ids(conns) == {conns[i].id : i \in DOMAIN conns}

\* A missing or repeated id is made from the host.
NormalizeConnections(conns) ==
  LET id[i \in DOMAIN conns] ==
        LET seen == {id[j] : j \in 1 .. i - 1}
        IN  IF conns[i].id \in seen \cup {NoId} THEN conns[i].host ELSE conns[i].id
  IN  [i \in DOMAIN conns |-> [conns[i] EXCEPT !.id = id[i]]]

Keep(f, T) == [x \in {y \in DOMAIN f : f[y] \in T} |-> f[x]]
ProjectIds(projects) == {p.id : p \in projects}

Finalize(s) ==
  LET conns == NormalizeConnections(s.conns)
      known == {p \in s.projects : p.host \in Ids(conns) \cup {Local}}
  IN  [s EXCEPT !.conns = conns,
                !.active = IF @ \in Ids(conns) THEN @ ELSE NoId,
                !.projects = known,
                !.projectless = @ \cup Desktop,
                !.assigned = Keep(@, ProjectIds(known))]

Defaults == [conns |-> <<>>, active |-> NoId, projects |-> {}, assigned |-> <<>>,
             projectless |-> {}, password |-> FALSE]

Loaded == Finalize(IF Whole THEN file ELSE Defaults)

(***************************************************************************)
(* Writing.                                                                *)
(***************************************************************************)
Write(s) ==
  /\ up /\ Readable /\ saves < MaxSaves /\ saves' = saves + 1
  /\ file' = s /\ UNCHANGED <<up, crashes>>

\* The disk is full, say: the handler answers 500 and the server goes on.
WriteRaises ==
  /\ \E s \in Torn : Write(s)
  /\ failed' = TRUE /\ UNCHANGED <<auth, page>>

CrashInWrite ==
  /\ up /\ Readable /\ saves < MaxSaves /\ saves' = saves + 1
  /\ crashes < MaxCrashes /\ crashes' = crashes + 1
  /\ file' \in Torn /\ up' = FALSE
  /\ UNCHANGED <<auth, failed, page>>

\* A server that cannot read the file does not start.
Restart ==
  /\ ~up /\ Readable /\ up' = TRUE
  /\ auth' = Loaded.password /\ failed' = FALSE
  /\ UNCHANGED <<file, page, saves, crashes>>

Save(s) == Write(s) /\ UNCHANGED <<auth, failed, page>>

(***************************************************************************)
(* Connections.                                                            *)
(***************************************************************************)
\* The connections that have another id.
Others(conns, id) ==
  LET kept[n \in 0 .. Len(conns)] ==
        IF n = 0 THEN <<>>
        ELSE IF conns[n].id = id THEN kept[n - 1] ELSE Append(kept[n - 1], conns[n])
  IN  kept[Len(conns)]

\* A mutant: an edited connection takes its id from its new host.
SavedByHost(id, host, auto) ==
  NormalizeConnections(Append(Others(Loaded.conns, id),
                              [id |-> NoId, host |-> host, auto |-> auto]))

Saved(id, host, auto) ==
  NormalizeConnections(Append(Others(Loaded.conns, id),
                              [id |-> id, host |-> host, auto |-> auto]))

\* POST gives no id, PUT the one of the connection it edits, or makes again.
SaveConnection(id, host, auto) ==
  Save([Loaded EXCEPT !.conns = Saved(id, host, auto)])

SetAutoConnect(id, auto) ==
  \E i \in DOMAIN Loaded.conns :
    /\ Loaded.conns[i].id = id
    /\ \A j \in 1 .. i - 1 : Loaded.conns[j].id # id
    /\ Save([Loaded EXCEPT !.conns[i].auto = auto])

WithoutConnection(id) ==
  LET gone == {p \in Loaded.projects : p.host = id}
  IN  [Loaded EXCEPT !.conns = Others(@, id),
                     !.active = IF @ = id THEN NoId ELSE @,
                     !.projects = @ \ gone,
                     !.assigned = [t \in {u \in DOMAIN @ : @[u] \notin ProjectIds(gone)} |-> @[t]]]
DeleteConnection(id) == Save(WithoutConnection(id))

SetActive(id) ==
  /\ id \in Ids(Loaded.conns) \cup {NoId}
  /\ Save([Loaded EXCEPT !.active = id])

(***************************************************************************)
(* Projects and the threads assigned to them.                              *)
(***************************************************************************)
SaveProject(pid, host, path) ==
  /\ host \in Ids(Loaded.conns) \cup {Local}
  /\ ~\E p \in Loaded.projects : p.host = host /\ p.path = path
  /\ pid \notin ProjectIds(Loaded.projects)
  /\ Save([Loaded EXCEPT !.projects = @ \cup {[id |-> pid, host |-> host, path |-> path]}])

\* A mutant: the threads of a deleted project stay assigned to it.
WithoutProjectOnly(pid) == [Loaded EXCEPT !.projects = {p \in @ : p.id # pid}]

WithoutProject(pid) ==
  LET left == {p \in Loaded.projects : p.id # pid}
  IN  [Loaded EXCEPT !.projects = left, !.assigned = Keep(@, ProjectIds(left))]

DeleteProject(pid) == pid \in ProjectIds(Loaded.projects) /\ Save(WithoutProject(pid))

Assignment(t, pid) == [Loaded EXCEPT
  !.assigned = [u \in DOMAIN @ \cup {t} |-> IF u = t THEN pid ELSE @[u]],
  !.projectless = @ \ {t}]

\* A project is looked up by host and directory; the thread may have none.
AssignThread(t, host, path) ==
  \/ \E p \in Loaded.projects :
       p.host = host /\ p.path = path /\ Save(Assignment(t, p.id))
  \/ /\ ~\E p \in Loaded.projects : p.host = host /\ p.path = path
     /\ Save([Loaded EXCEPT !.assigned = [u \in DOMAIN @ \ {t} |-> @[u]],
                            !.projectless = @ \cup {t}])

\* A fork goes where the thread it is forked from is; it is a thread of its own.
CopyAssignment(source, t) ==
  /\ t \notin DOMAIN Loaded.assigned
  /\ \/ source \in DOMAIN Loaded.assigned /\ Save(Assignment(t, Loaded.assigned[source]))
     \/ /\ source \notin DOMAIN Loaded.assigned /\ source \in Loaded.projectless
        /\ Save([Loaded EXCEPT !.projectless = @ \cup {t}])

(***************************************************************************)
(* The other sections, and the copies other parts hold.                    *)
(***************************************************************************)
\* The language model, allowed roots or speech section: the rest is rewritten.
SaveSection == Save(Loaded)

\* The copy is read again, unless the chmod after the write raises.
SaveAuth(enabled, password) ==
  /\ enabled => password \/ Loaded.password
  /\ Write([Loaded EXCEPT !.password = enabled])
  /\ \/ auth' = enabled /\ failed' = FALSE
     \/ auth' = auth /\ failed' = TRUE
  /\ UNCHANGED page

ReadConfig ==
  /\ up /\ Readable
  /\ page' = [conns |-> Loaded.conns, active |-> Loaded.active]
  /\ UNCHANGED <<file, auth, up, failed, saves, crashes>>

\* The page's connections replace the file's, however old they are.
SaveApp ==
  Save(Finalize([Loaded EXCEPT !.conns = page.conns, !.active = page.active]))

Next ==
  \/ WriteRaises \/ CrashInWrite \/ Restart \/ ReadConfig \/ SaveApp \/ SaveSection
  \/ \E id \in Hosts \cup {NoId}, host \in Hosts, auto \in BOOLEAN :
       SaveConnection(id, host, auto)
  \/ \E id \in Hosts, auto \in BOOLEAN : SetAutoConnect(id, auto)
  \/ \E id \in Hosts : DeleteConnection(id)
  \/ \E id \in Hosts \cup {NoId} : SetActive(id)
  \/ \E pid \in Pids, host \in Hosts \cup {Local}, path \in Paths :
       SaveProject(pid, host, path)
  \/ \E pid \in Pids : DeleteProject(pid)
  \/ \E t \in Threads, host \in Hosts \cup {Local}, path \in Paths :
       AssignThread(t, host, path)
  \/ \E s, t \in Threads : s # t /\ CopyAssignment(s, t)
  \/ \E enabled, password \in BOOLEAN : SaveAuth(enabled, password)

Spec == Init /\ [][Next]_settingsVars

(***************************************************************************)
(* Properties.                                                             *)
(***************************************************************************)

(* What the file holds refers to what the file holds, whichever handlers   *)
(* wrote it and in whatever order, after a torn write as well: the active  *)
(* connection and the hosts of the projects are there, threads are         *)
(* assigned to projects that are, and no thread is both assigned and, by   *)
(* this server's doing, projectless.  The password the server enforces is  *)
(* the one it will enforce after a restart, as long as there is a whole    *)
(* file, but for a server in which a write has raised: it keeps the old    *)
(* password until one is saved or it is restarted.                         *)
SettingsAgree ==
  /\ Whole =>
       /\ file.active \in Ids(file.conns) \cup {NoId}
       /\ \A p \in file.projects : p.host \in Ids(file.conns) \cup {Local}
       /\ \A t \in DOMAIN file.assigned : file.assigned[t] \in ProjectIds(file.projects)
       /\ DOMAIN file.assigned \cap (file.projectless \ Desktop) = {}
  /\ up /\ Whole => auth = file.password \/ failed

\* A step of a client that carries an old copy of the connections.
StalePage == page.conns # Loaded.conns /\ SaveApp

(* A project leaves the list only when it or its connection is deleted:    *)
(* editing a connection, which moves it to the end of the list and may     *)
(* change its host, keeps the projects that live there.  The save of an    *)
(* out of date page and a torn file are the exceptions.                    *)
EditKeepsProjectsStep ==
  \A p \in Loaded.projects :
    \/ p \in Loaded'.projects
    \/ \E pid \in Pids : DeleteProject(pid)
    \/ \E id \in Hosts : DeleteConnection(id)
    \/ StalePage \/ file' \in Torn
EditKeepsProjects == [][EditKeepsProjectsStep]_settingsVars

(* Two connections never share an id: the normalisation tests for an id it *)
(* has seen, and delete, update and the sessions all go by the id.         *)
UniqueConnectionIds ==
  Whole => \A i, j \in DOMAIN file.conns :
             file.conns[i].id = file.conns[j].id => i = j
=============================================================================
