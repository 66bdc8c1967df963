------------------------------- MODULE Tunnel -------------------------------
(***************************************************************************)
(* The tunnel command of the CLI (TunnelManager): start, status and stop,  *)
(* each a short-lived process of its own, share three files of the runtime *)
(* directory and nothing else: the state file (which process, which        *)
(* temporary directory), the pid file, which cloudflared writes once it is *)
(* connected, and the temporary directories.  No lock is taken.            *)
(*                                                                         *)
(* proc[p] is what the operating system runs under the process id p:       *)
(* cloudflared ("starting", "up", or "stopping" after a SIGTERM), a process*)
(* of somebody else ("foreign"), or nothing ("free").  The log and its     *)
(* patterns are abstracted to whether the wait for readiness succeeds.     *)
(***************************************************************************)
EXTENDS Integers, FiniteSets

CONSTANTS
  Cli,        \* the terminals a command can be run in
  Pids,       \* process ids
  MaxStarts,  \* bound on the start commands
  None        \* no state, no process, no directory

TunnelConstants ==
  /\ MaxStarts \in Nat /\ None \notin Pids \cup (1 .. MaxStarts)
  /\ None \notin [pid : Pids, dir : (1 .. MaxStarts) \cup {None}]

VARIABLES
  stateFile,  \* open-codex-ui-tunnel.json: None or [pid, dir]
  pidFile,    \* open-codex-ui-tunnel.pid: None or a process id
  dirs,       \* the temporary directories, numbered by the start that made them
  proc,       \* process id -> what runs under it
  cli,        \* terminal -> the command it runs
  starts,     \* start commands so far
  passed,     \* stops whose process id somebody else was given after their check
  hitForeign, \* a signal has reached a process of somebody else, not so given
  disturbed   \* two commands have overlapped, or one was interrupted

tunnelVars == <<stateFile, pidFile, dirs, proc, cli, starts, passed, hitForeign, disturbed>>

Dirs == 1 .. MaxStarts
Modes == {"quick", "managed-remote", "managed-local"}
Files == [pid : Pids, dir : Dirs \cup {None}]
Idle == [pc |-> "idle", op |-> "status", mode |-> "quick",
         pid |-> None, dir |-> None, seen |-> None]

TypeOK ==
  /\ stateFile \in Files \cup {None}
  /\ pidFile \in Pids \cup {None}
  /\ dirs \subseteq Dirs
  /\ proc \in [Pids -> {"free", "starting", "up", "stopping", "foreign"}]
  /\ cli \in [Cli -> [pc : {"idle", "clean", "prepare", "spawn", "wait", "record",
                            "fail", "term", "kill"},
                      op : {"start", "status", "stop"}, mode : Modes,
                      pid : Pids \cup {None}, dir : Dirs \cup {None},
                      seen : Files \cup {None}]]
  /\ starts \in 0 .. MaxStarts
  /\ passed \subseteq Cli /\ hitForeign \in BOOLEAN /\ disturbed \in BOOLEAN

Init ==
  /\ stateFile = None /\ pidFile = None /\ dirs = {}
  /\ proc = [p \in Pids |-> "free"]
  /\ cli = [c \in Cli |-> Idle]
  /\ starts = 0 /\ passed = {} /\ hitForeign = FALSE /\ disturbed = FALSE

Cloudflared == {"starting", "up", "stopping"}
Alive(p) == p # None /\ proc[p] \in Cloudflared

\* A mutant: the process id alone, as if ps were not asked.
PidAlone(s) == proc[s.pid] # "free" /\ pidFile = s.pid

\* _is_owned_process: the pid is alive, the pid file names it, and ps shows
\* cloudflared started with this pid file.
IsOwned(s) == proc[s.pid] # "free" /\ pidFile = s.pid /\ proc[s.pid] # "foreign"

\* stop has checked the process and is about to signal it.
Signalling(c, p) == cli[c].pc \in {"term", "kill"} /\ cli[c].seen.pid = p
\* The process under p is somebody else's, and was when the stop in c looked.
Stranger(c, p) == proc[p] = "foreign" /\ c \notin passed

Goto(c, pc) == cli' = [cli EXCEPT ![c].pc = pc]
Return(c) == cli' = [cli EXCEPT ![c] = Idle]

(***************************************************************************)
(* Every command begins with the state file and the check of its process.  *)
(***************************************************************************)
Begin(c, op) ==
  /\ cli[c].pc = "idle"
  /\ op = "start" => starts < MaxStarts
  /\ starts' = IF op = "start" THEN starts + 1 ELSE starts
  /\ disturbed' = (disturbed \/ \E d \in Cli \ {c} : cli[d].pc # "idle")
  /\ cli' = [cli EXCEPT ![c] =
       [Idle EXCEPT !.op = op, !.seen = stateFile,
          !.pc = IF stateFile # None /\ ~IsOwned(stateFile) THEN "clean"
                 ELSE IF stateFile = None /\ op = "start" THEN "prepare"
                 ELSE IF stateFile # None /\ op = "stop" THEN "term"
                 ELSE "idle"]]
  /\ passed' = passed \ {c}
  /\ UNCHANGED <<stateFile, pidFile, dirs, proc, hitForeign>>

\* _cleanup_state, of a stale state or after the process has been stopped.
Clean(c) ==
  /\ cli[c].pc = "clean"
  /\ dirs' = dirs \ {cli[c].seen.dir}
  /\ stateFile' = None /\ pidFile' = None
  /\ IF cli[c].op = "start" THEN cli' = [cli EXCEPT ![c].pc = "prepare", ![c].seen = None]
                            ELSE Return(c)
  /\ UNCHANGED <<proc, starts, passed, hitForeign, disturbed>>

(***************************************************************************)
(* The mode's preparation: an executable, an origin that answers, a token  *)
(* or a configuration; each may be missing.  quick and managed-remote make *)
(* a temporary directory, for cloudflared's HOME or for the token file, a  *)
(* new one: Dirs has as many as there are starts.                          *)
(***************************************************************************)
PrepareFails(c) ==
  /\ cli[c].pc = "prepare"
  /\ Return(c)
  /\ UNCHANGED <<stateFile, pidFile, dirs, proc, starts, passed, hitForeign, disturbed>>

Prepare(c, mode) ==
  /\ cli[c].pc = "prepare"
  /\ Dirs \ dirs # {}
  /\ LET dir == IF mode = "managed-local" THEN None ELSE CHOOSE d \in Dirs \ dirs : TRUE IN
     /\ dirs' = dirs \cup ({dir} \ {None})
     /\ cli' = [cli EXCEPT ![c].pc = "spawn", ![c].mode = mode, ![c].dir = dir]
  /\ UNCHANGED <<stateFile, pidFile, proc, starts, passed, hitForeign, disturbed>>

\* _spawn: the pid file goes first; cloudflared gets a session of its own and
\* outlives the command.
Spawn(c) ==
  /\ cli[c].pc = "spawn"
  /\ pidFile' = None
  /\ \/ Goto(c, "fail") /\ UNCHANGED proc
     \/ \E p \in {q \in Pids : proc[q] = "free" /\ \A d \in Cli : cli[d].pid # q} :
          /\ proc' = [proc EXCEPT ![p] = "starting"]
          /\ cli' = [cli EXCEPT ![c].pc = "wait", ![c].pid = p]
  /\ UNCHANGED <<stateFile, dirs, starts, passed, hitForeign, disturbed>>

\* _wait_for_ready returns: the process runs and the pid file is its own.  The
\* token file is removed at once, the HOME of a quick tunnel stays.
Ready(c) ==
  /\ cli[c].pc = "wait" /\ Alive(cli[c].pid) /\ pidFile = cli[c].pid
  /\ IF cli[c].mode = "managed-remote"
     THEN /\ dirs' = dirs \ {cli[c].dir}
          /\ cli' = [cli EXCEPT ![c].pc = "record", ![c].dir = None]
     ELSE Goto(c, "record") /\ UNCHANGED dirs
  /\ UNCHANGED <<stateFile, pidFile, proc, starts, passed, hitForeign, disturbed>>

\* A mutant: a start that gives up without its except clause.
GivesUp(c) ==
  /\ cli[c].pc = "wait"
  /\ Return(c)
  /\ UNCHANGED <<stateFile, pidFile, dirs, proc, starts, passed, hitForeign, disturbed>>

\* It raises: a fatal line in the log, an exit of cloudflared, or the timeout.
NotReady(c) ==
  /\ cli[c].pc = "wait"
  /\ Goto(c, "fail")
  /\ UNCHANGED <<stateFile, pidFile, dirs, proc, starts, passed, hitForeign, disturbed>>

\* _write_state replaces the file in one rename; it may fail (a full disk).
Record(c) ==
  /\ cli[c].pc = "record"
  /\ \/ /\ stateFile' = [pid |-> cli[c].pid, dir |-> cli[c].dir]
        /\ Return(c)
     \/ Goto(c, "fail") /\ UNCHANGED stateFile
  /\ UNCHANGED <<pidFile, dirs, proc, starts, passed, hitForeign, disturbed>>

\* The except clause of start: the child is terminated (SIGTERM, then SIGKILL
\* after five seconds), its directory and the pid file are removed.
StartFailed(c) ==
  /\ cli[c].pc = "fail"
  /\ proc' = [p \in Pids |-> IF p = cli[c].pid /\ Alive(p) THEN "free" ELSE proc[p]]
  /\ dirs' = dirs \ {cli[c].dir}
  /\ pidFile' = None
  /\ Return(c)
  /\ UNCHANGED <<stateFile, starts, passed, hitForeign, disturbed>>

(***************************************************************************)
(* stop: SIGTERM to the process group, five seconds of grace in which it   *)
(* looks for the process again, by its id alone, and SIGKILL.  A signal to *)
(* a process that has just exited raises, the state stays.                 *)
(***************************************************************************)
Sigterm(c) ==
  LET p == cli[c].seen.pid IN
  /\ cli[c].pc = "term"
  /\ IF proc[p] = "free" THEN Return(c) ELSE Goto(c, "kill")
  /\ proc' = IF Alive(p) THEN [proc EXCEPT ![p] = "stopping"] ELSE proc
  /\ hitForeign' = (hitForeign \/ Stranger(c, p))
  /\ UNCHANGED <<stateFile, pidFile, dirs, starts, passed, disturbed>>

Sigkill(c) ==
  LET p == cli[c].seen.pid IN
  /\ cli[c].pc = "kill"
  /\ proc' = [proc EXCEPT ![p] = "free"]
  /\ hitForeign' = (hitForeign \/ Stranger(c, p))
  /\ Goto(c, "clean") \/ (proc[p] = "free" /\ Return(c))
  /\ UNCHANGED <<stateFile, pidFile, dirs, starts, passed, disturbed>>

\* The terminal is closed or Ctrl-C is pressed, which `except Exception` does
\* not catch.
Interrupt(c) ==
  /\ cli[c].pc # "idle"
  /\ disturbed' = TRUE
  /\ Return(c)
  /\ UNCHANGED <<stateFile, pidFile, dirs, proc, starts, passed, hitForeign>>

(***************************************************************************)
(* cloudflared and the operating system.  The id of a child is kept for    *)
(* the start that made it, which signals no child it has reaped.  Nothing  *)
(* keeps the id a stop has checked: another process may have it by the     *)
(* time the signal is sent.                                                *)
(***************************************************************************)
Connected(p) ==
  /\ proc[p] = "starting"
  /\ proc' = [proc EXCEPT ![p] = "up"] /\ pidFile' = p
  /\ UNCHANGED <<stateFile, dirs, cli, starts, passed, hitForeign, disturbed>>

Exited(p) ==
  /\ proc[p] # "free"
  /\ proc' = [proc EXCEPT ![p] = "free"]
  /\ UNCHANGED <<stateFile, pidFile, dirs, cli, starts, passed, hitForeign, disturbed>>

Reused(p) ==
  /\ proc[p] = "free"
  /\ \A c \in Cli : cli[c].pid # p
  /\ proc' = [proc EXCEPT ![p] = "foreign"]
  /\ passed' = passed \cup {c \in Cli : Signalling(c, p)}
  /\ UNCHANGED <<stateFile, pidFile, dirs, cli, starts, hitForeign, disturbed>>

Next ==
  \/ \E c \in Cli :
       \/ \E op \in {"start", "status", "stop"} : Begin(c, op)
       \/ Clean(c) \/ PrepareFails(c) \/ Spawn(c) \/ Ready(c) \/ NotReady(c)
       \/ \E mode \in Modes : Prepare(c, mode)
       \/ Record(c) \/ StartFailed(c) \/ Sigterm(c) \/ Sigkill(c) \/ Interrupt(c)
  \/ \E p \in Pids : Connected(p) \/ Exited(p) \/ Reused(p)

Spec == Init /\ [][Next]_tunnelVars

(***************************************************************************)
(* However commands overlap and are interrupted, stop signals no process   *)
(* but the cloudflared that start recorded: not the one that had its id    *)
(* when stop looked.  It does reach one that is given the id between that  *)
(* look and the signal: nothing in the code closes that window.            *)
(***************************************************************************)
OnlyOursSignalled == ~hitForeign

(***************************************************************************)
(* As long as commands neither overlap nor are interrupted, whatever else  *)
(* fails on the way: a running cloudflared is one that stop would find, or *)
(* belongs to a start still at work, and every temporary directory, the    *)
(* ones with a token among them, is recorded or belongs to such a start.   *)
(***************************************************************************)
NothingLeftBehind ==
  ~disturbed =>
    /\ \A p \in Pids : Alive(p) =>
         \/ stateFile # None /\ stateFile.pid = p /\ IsOwned(stateFile)
         \/ \E c \in Cli : p = cli[c].pid
    /\ \A d \in dirs :
         \/ stateFile # None /\ stateFile.dir = d
         \/ \E c \in Cli : d = cli[c].dir
=============================================================================
