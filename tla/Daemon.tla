------------------------------- MODULE Daemon -------------------------------
(***************************************************************************)
(* `daemon install|start|stop|uninstall` and `update` (DaemonManager,      *)
(* UvToolUpdater) over the service manager of the platform: launchd,       *)
(* systemd --user or the Windows task scheduler.  A command is a sequence  *)
(* of steps; it ends early when a step raises, or when it is interrupted   *)
(* between two steps.  Some commands of the manager are run with           *)
(* check=False: they may fail and nobody notices.  The manager acts by     *)
(* itself: it finishes an unload it has been asked for, notices a crash and*)
(* restarts the server, and starts it at login.  Configurations stand for  *)
(* host, port and executable.                                              *)
(***************************************************************************)
EXTENDS Integers, Sequences

CONSTANTS
  Configs,      \* addresses to serve
  MaxCommands,  \* bound on the commands
  MaxCrashes,   \* bound on the crashes of the server
  None

DaemonConstants ==
  /\ MaxCommands \in Nat /\ MaxCrashes \in Nat
  /\ Configs # {} /\ None \notin Configs   \* there is a default address

VARIABLES
  platform,   \* "launchd", "systemd" or "windows"
  unit,       \* the plist, unit file or registered task: a configuration or None
  loaded,     \* the configuration the manager has read, or None
  leaving,    \* launchd: a bootout has been asked and is not over
  serving,    \* the configuration of the server that runs, or None
  crashed,    \* the server has exited by itself and has not been restarted
  env,        \* open-codex-ui-env.json is there
  state,      \* open-codex-ui-service.json: the configuration it names, or None
  cmd,        \* [op, cfg, todo]: the command at work and the steps it has left
  outcome,    \* how the last command ended: "ok", "error", "interrupted"
  ignored,    \* steps that have failed unnoticed and have not succeeded since
  commands, crashes

daemonVars == <<platform, unit, loaded, leaving, serving, crashed, env, state,
                cmd, outcome, ignored, commands, crashes>>
managerVars == <<unit, loaded, leaving, serving, crashed>>

Platforms == {"launchd", "systemd", "windows"}
Ops == {"install", "start", "stop", "update", "uninstall"}
Steps == {"tool", "env", "stop", "unloaded", "write", "load", "state", "start",
          "stopIfRunning", "updateTool", "unlink", "reload", "forgetState", "forgetEnv"}

TypeOK ==
  /\ platform \in Platforms
  /\ {unit, loaded, serving, state} \subseteq Configs \cup {None}
  /\ leaving \in BOOLEAN /\ crashed \in BOOLEAN /\ env \in BOOLEAN
  /\ cmd.op \in Ops /\ cmd.cfg \in Configs /\ cmd.todo \in Seq(Steps)
  /\ outcome \in {"ok", "error", "interrupted"} /\ ignored \subseteq {"stop", "unlink"}
  /\ (loaded = None => ~leaving) /\ (leaving => platform = "launchd")
  /\ commands \in 0 .. MaxCommands /\ crashes \in 0 .. MaxCrashes

Init ==
  /\ platform \in Platforms
  /\ unit = None /\ loaded = None /\ serving = None /\ state = None
  /\ leaving = FALSE /\ crashed = FALSE /\ env = FALSE
  /\ cmd = [op |-> "start", cfg |-> CHOOSE c \in Configs : TRUE, todo |-> <<>>]
  /\ outcome = "ok" /\ ignored = {} /\ commands = 0 /\ crashes = 0

Idle == cmd.todo = <<>>

(***************************************************************************)
(* The steps of each command.  LaunchdService.install stops the agent      *)
(* first; systemd and Windows register over what runs.                     *)
(***************************************************************************)
Install == <<"tool", "env">>
           \o (IF platform = "launchd" THEN <<"stop">> ELSE <<>>)
           \o <<"write", "load", "state">>

\* A mutant: the files go before the service is stopped.
FilesFirst == <<"forgetState", "forgetEnv", "stop", "unlink">>

Uninstall == <<"stop", "unlink", "forgetState", "forgetEnv">>

Program(op) ==
  CASE op = "install" -> Install
    [] op = "start" -> <<"start">>
    [] op = "stop" -> <<"stopIfRunning">>
    [] op = "uninstall" -> Uninstall
    [] op = "update" -> <<"updateTool">>

Command(op, cfg) ==
  /\ Idle /\ commands < MaxCommands
  /\ commands' = commands + 1
  /\ cmd' = [op |-> op, cfg |-> cfg, todo |-> Program(op)]
  /\ UNCHANGED <<platform, managerVars, env, state, outcome, ignored, crashes>>

\* The step at work succeeds, and the steps of `more` come before the rest.
Proceed(more) ==
  LET rest == more \o Tail(cmd.todo) IN
  /\ cmd' = [cmd EXCEPT !.todo = rest]
  /\ outcome' = IF rest = <<>> THEN "ok" ELSE outcome

Raise == cmd' = [cmd EXCEPT !.todo = <<>>] /\ outcome' = "error"

At(step) == ~Idle /\ Head(cmd.todo) = step

(***************************************************************************)
(* systemctl stop, systemctl disable --now, schtasks /End and /Delete are  *)
(* run with check=False; every other step that fails raises.               *)
(***************************************************************************)
Unchecked == (At("stop") /\ platform # "launchd") \/ (At("unlink") /\ platform = "windows")

StepRaises ==
  /\ ~Idle /\ ~Unchecked
  /\ Raise
  /\ UNCHANGED <<platform, managerVars, env, state, ignored, commands, crashes>>

FailureIgnored ==
  /\ Unchecked /\ unit # None
  /\ ignored' = ignored \cup {Head(cmd.todo)}
  /\ Proceed(<<>>)
  /\ UNCHANGED <<platform, managerVars, env, state, commands, crashes>>

(***************************************************************************)
(* Steps on the two files and on the tool.                                 *)
(***************************************************************************)
InstallTool ==
  /\ At("tool")
  /\ Proceed(<<>>)
  /\ UNCHANGED <<platform, managerVars, env, state, ignored, commands, crashes>>

Files ==
  /\ \/ At("env") /\ env' = TRUE /\ UNCHANGED state
     \/ At("state") /\ state' = cmd.cfg /\ UNCHANGED env
     \/ At("forgetState") /\ state' = None /\ UNCHANGED env
     \/ At("forgetEnv") /\ env' = FALSE /\ UNCHANGED state
  /\ Proceed(<<>>)
  /\ UNCHANGED <<platform, managerVars, ignored, commands, crashes>>

\* update asks for the status, installs the new release, and restarts the
\* service if it was running.
UpdateTool ==
  /\ At("updateTool")
  /\ Proceed(IF unit # None /\ serving # None THEN <<"stop", "start">> ELSE <<>>)
  /\ UNCHANGED <<platform, managerVars, env, state, ignored, commands, crashes>>

\* DaemonManager.stop looks at the status first.
StopIfRunning ==
  /\ At("stopIfRunning")
  /\ Proceed(IF unit # None /\ serving # None THEN <<"stop">> ELSE <<>>)
  /\ UNCHANGED <<platform, managerVars, env, state, ignored, commands, crashes>>

(***************************************************************************)
(* launchd: bootout returns before the agent is unloaded, so stop polls,   *)
(* and gives up after two seconds; a second bootout in between raises.     *)
(***************************************************************************)
StopLaunchd ==
  /\ At("stop") /\ platform = "launchd"
  /\ \/ loaded = None /\ Proceed(<<>>) /\ UNCHANGED leaving
     \/ loaded # None /\ ~leaving /\ leaving' = TRUE /\ Proceed(<<"unloaded">>)
     \/ loaded # None /\ leaving /\ Raise /\ UNCHANGED leaving
  /\ UNCHANGED <<platform, unit, loaded, serving, crashed, env, state, ignored,
                 commands, crashes>>

WaitUntilUnloaded ==
  /\ At("unloaded")
  /\ IF loaded = None THEN Proceed(<<>>) ELSE Raise
  /\ UNCHANGED <<platform, managerVars, env, state, ignored, commands, crashes>>

\* The agent of the plist is bootstrapped and, RunAtLoad, runs.
Bootstrap == loaded' = unit /\ serving' = unit /\ crashed' = FALSE

\* A mutant: no wait for a bootout that is not over.
StartAtOnce ==
  /\ At("start") /\ platform = "launchd"
  /\ IF unit = None THEN Raise ELSE Proceed(<<>>)
  /\ IF unit # None /\ loaded = None THEN Bootstrap ELSE UNCHANGED <<loaded, serving, crashed>>
  /\ UNCHANGED <<platform, unit, leaving, env, state, ignored, commands, crashes>>

StartLaunchd ==
  /\ At("start") /\ platform = "launchd"
  /\ \/ /\ unit = None
        /\ Raise /\ UNCHANGED <<loaded, serving, crashed>>
     \/ /\ unit # None /\ loaded # None /\ ~leaving   \* kickstart -k
        /\ serving' = loaded /\ crashed' = FALSE
        /\ Proceed(<<>>) /\ UNCHANGED loaded
     \/ /\ unit # None /\ loaded # None /\ leaving    \* kickstart is refused
        /\ Proceed(<<"unloaded", "load">>) /\ UNCHANGED <<loaded, serving, crashed>>
     \/ /\ unit # None /\ loaded = None
        /\ Bootstrap /\ Proceed(<<>>)
  /\ UNCHANGED <<platform, unit, leaving, env, state, ignored, commands, crashes>>

LoadLaunchd ==
  /\ At("load") /\ platform = "launchd"
  /\ Bootstrap /\ Proceed(<<>>)
  /\ UNCHANGED <<platform, unit, leaving, env, state, ignored, commands, crashes>>

UnlinkPlist ==
  /\ At("unlink") /\ platform = "launchd"
  /\ unit' = None /\ Proceed(<<>>)
  /\ UNCHANGED <<platform, loaded, leaving, serving, crashed, env, state, ignored,
                 commands, crashes>>

\* install of every platform: the new file replaces the old one (on Windows,
\* the task is registered).
WriteUnit ==
  /\ At("write")
  /\ unit' = cmd.cfg
  /\ loaded' = IF platform = "windows" THEN cmd.cfg ELSE loaded
  /\ Proceed(<<>>)
  /\ UNCHANGED <<platform, leaving, serving, crashed, env, state, ignored,
                 commands, crashes>>

(***************************************************************************)
(* systemd and Windows: a start of what runs already changes nothing.      *)
(***************************************************************************)
EnsureRunning(cfg) ==
  /\ serving' = IF serving = None THEN cfg ELSE serving
  /\ crashed' = FALSE

LoadOther ==
  /\ At("load") /\ platform # "launchd"
  /\ loaded' = unit                       \* daemon-reload
  /\ \/ EnsureRunning(unit) /\ Proceed(<<>>) \* enable --now, schtasks /Run
     \/ Raise /\ UNCHANGED <<serving, crashed>>
  /\ UNCHANGED <<platform, unit, leaving, env, state, ignored, commands, crashes>>

StartOther ==
  /\ At("start") /\ platform # "launchd"
  /\ loaded' = IF loaded = None THEN unit ELSE loaded   \* systemd reads it on demand
  /\ IF unit = None THEN Raise /\ UNCHANGED <<serving, crashed>>
                    ELSE EnsureRunning(loaded') /\ Proceed(<<>>)
  /\ UNCHANGED <<platform, unit, leaving, env, state, ignored, commands, crashes>>

StopOther ==
  /\ At("stop") /\ platform # "launchd"
  /\ IF unit = None THEN UNCHANGED <<serving, crashed, ignored>>
     ELSE serving' = None /\ crashed' = FALSE /\ ignored' = ignored \ {"stop"}
  /\ Proceed(<<>>)
  /\ UNCHANGED <<platform, unit, loaded, leaving, env, state, commands, crashes>>

\* systemd: without a unit file uninstall leaves the manager alone.
UnlinkSystemd ==
  /\ At("unlink") /\ platform = "systemd"
  /\ unit' = None /\ Proceed(IF unit = None THEN <<>> ELSE <<"reload">>)
  /\ UNCHANGED <<platform, loaded, leaving, serving, crashed, env, state, ignored,
                 commands, crashes>>

ReloadSystemd ==
  /\ At("reload")
  /\ loaded' = unit /\ Proceed(<<>>)
  /\ UNCHANGED <<platform, unit, leaving, serving, crashed, env, state, ignored,
                 commands, crashes>>

DeleteTask ==
  /\ At("unlink") /\ platform = "windows"
  /\ unit' = None /\ loaded' = None /\ ignored' = ignored \ {"unlink"}
  /\ Proceed(<<>>)
  /\ UNCHANGED <<platform, leaving, serving, crashed, env, state, commands, crashes>>

Interrupt ==
  /\ ~Idle
  /\ cmd' = [cmd EXCEPT !.todo = <<>>] /\ outcome' = "interrupted"
  /\ UNCHANGED <<platform, managerVars, env, state, ignored, commands, crashes>>

(***************************************************************************)
(* The manager.                                                            *)
(***************************************************************************)
Unload ==
  /\ leaving
  /\ leaving' = FALSE /\ loaded' = None /\ serving' = None /\ crashed' = FALSE
  /\ UNCHANGED <<platform, unit, env, state, cmd, outcome, ignored, commands, crashes>>

Crash ==
  /\ serving # None /\ crashes < MaxCrashes
  /\ crashes' = crashes + 1
  /\ serving' = None /\ crashed' = TRUE
  /\ UNCHANGED <<platform, unit, loaded, leaving, env, state, cmd, outcome, ignored,
                 commands>>

\* KeepAlive, Restart=on-failure: after five seconds; a task is not restarted.
Respawn ==
  /\ crashed /\ platform # "windows" /\ loaded # None /\ ~leaving
  /\ serving' = loaded /\ crashed' = FALSE
  /\ UNCHANGED <<platform, unit, loaded, leaving, env, state, cmd, outcome, ignored,
                 commands, crashes>>

Login ==
  /\ Idle
  /\ loaded' = unit /\ serving' = unit /\ leaving' = FALSE /\ crashed' = FALSE
  /\ UNCHANGED <<platform, unit, env, state, cmd, outcome, ignored, commands, crashes>>

Next ==
  \/ \E op \in Ops, cfg \in Configs : Command(op, cfg)
  \/ InstallTool \/ Files \/ UpdateTool \/ StopIfRunning
  \/ StopLaunchd \/ WaitUntilUnloaded \/ StartLaunchd \/ LoadLaunchd \/ UnlinkPlist
  \/ WriteUnit \/ LoadOther \/ StartOther \/ StopOther
  \/ UnlinkSystemd \/ ReloadSystemd \/ DeleteTask \/ StepRaises \/ FailureIgnored
  \/ Interrupt \/ Unload \/ Crash \/ Respawn \/ Login

Spec == Init /\ [][Next]_daemonVars

(***************************************************************************)
(* The service always finds the environment file it is started with: as    *)
(* long as it is registered, or the manager may start what it has loaded   *)
(* (launchd keeps an agent alive, systemd restarts a unit that fails), the *)
(* file is there, wherever install and uninstall are cut off or raise.     *)
(* Excepted are the removal of the task and the stop that fail unnoticed:  *)
(* uninstall deletes the file all the same.                                *)
(***************************************************************************)
EnvironmentPresent ==
  /\ unit # None => env \/ "unlink" \in ignored
  /\ loaded # None /\ (platform = "launchd" \/ serving # None \/ crashed)
       => env \/ ignored # {}

(***************************************************************************)
(* A command that reports success has done what it says: after install and *)
(* start the server runs, or has crashed since and is the manager's, on    *)
(* launchd at the address that install was given (the other managers leave *)
(* a server that runs already as it is); after update it runs if it ran    *)
(* before; after uninstall, and after a stop that found it running, it does*)
(* not run and will not be restarted, and after uninstall it is not        *)
(* registered, unless a stop or a removal has failed unnoticed and none    *)
(* has succeeded since.  Even if an earlier stop timed out on a bootout    *)
(* still at work.                                                          *)
(***************************************************************************)
Succeeds(op) == cmd.op = op /\ ~Idle /\ cmd'.todo = <<>> /\ outcome' = "ok"
EndsAsAskedStep ==
  /\ Succeeds("install") \/ Succeeds("start") => (serving' # None \/ crashed') /\ ~leaving'
  /\ Succeeds("install") /\ platform = "launchd" => serving' = cmd.cfg \/ crashed'
  /\ Succeeds("update") /\ ~At("updateTool") => serving' # None /\ ~leaving'
  /\ (Succeeds("stop") /\ ~At("stopIfRunning")) \/ Succeeds("uninstall")
       => (serving' = None /\ ~crashed') \/ "stop" \in ignored'
  /\ Succeeds("uninstall") => unit' = None \/ "unlink" \in ignored'
EndsAsAsked == [][EndsAsAskedStep]_daemonVars
=============================================================================
