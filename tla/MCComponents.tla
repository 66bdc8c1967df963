---------------------------- MODULE MCComponents ----------------------------
(***************************************************************************)
(* Model checking of the components that share no state with each other:   *)
(* files of the runtime and home directories, tables and caches of one     *)
(* part of the server each.  A behaviour is one of one component, chosen   *)
(* at the start in "part"; the others stay as they begin.  Since none      *)
(* reads what another writes, what holds of each alone holds of them side  *)
(* by side, and the run needs the sum of their states, not the product.    *)
(***************************************************************************)
EXTENDS Naturals, TLC

CONSTANTS
  None, NoId, Local, NoFile, Unreadable, Nothing,
  Cli, Pids, MaxStarts,
  Configs, MaxCommands, MaxCrashes,
  Workers, Service, MaxJobs,
  Hosts, Paths, Projects, Threads, Desktop, MaxSaves,
  Remotes, Tasks, MaxSessions, MaxVersions, MaxRequests,
  Clients, MaxEvents, MaxPings,
  MaxSpeechSaves, MaxWords,
  Accounts, MaxMessages, MaxTasks

VARIABLES
  part,
  \* Tunnel
  stateFile, pidFile, dirs, proc, cli, starts, passed, hitForeign, disturbed,
  \* Daemon
  platform, unit, loaded, leaving, serving, crashed, env, state, cmd, outcome,
  ignored, commands, crashes,
  \* SpeechModels
  model, archive, link, job, download, jobs, installed, torn, raced,
  \* SettingsStore
  file, auth, up, failed, page, saves, storeCrashes,
  \* RemoteHosts
  conn, versions, table, session, opened, status, request, open, requests, behind,
  \* EventStream
  published, queue, since, sent, phase, getter, item, shutdown, pings,
  \* SpeechRecognition
  config, recognizer, lock, saving, present, stream, speechSaves,
  \* WeixinChannel
  saved, cursor, arrived, handled, task, polls, logins, context, summary, stopper,
  manager, todo, channelCrashes

Tunnel == INSTANCE Tunnel
Daemon == INSTANCE Daemon
Models == INSTANCE SpeechModels WITH part <- archive, status <- download
Settings == INSTANCE SettingsStore WITH Pids <- Projects, crashes <- storeCrashes
Remote == INSTANCE RemoteHosts WITH Hosts <- Remotes, task <- request
Events == INSTANCE EventStream
Recognition == INSTANCE SpeechRecognition WITH MaxSaves <- MaxSpeechSaves,
                                               saves <- speechSaves
Weixin == INSTANCE WeixinChannel WITH crashes <- channelCrashes

ASSUME ComponentConstants ==
  /\ Tunnel!TunnelConstants /\ Daemon!DaemonConstants /\ Models!SpeechModelConstants
  /\ Settings!SettingsConstants /\ Remote!RemoteConstants /\ Events!StreamConstants
  /\ Recognition!RecognitionConstants /\ Weixin!WeixinConstants

Parts == {"tunnel", "daemon", "models", "settings", "remote", "events", "recognition",
          "weixin"}

\* What is chosen at the start is chosen for the component that runs only.
Init ==
  /\ part \in Parts
  /\ Tunnel!Init /\ Daemon!Init /\ Models!Init /\ Settings!Init
  /\ Remote!Init /\ Events!Init /\ Recognition!Init /\ Weixin!Init
  /\ part # "daemon" => platform = "launchd"
  /\ part # "models" => link = "none"
  /\ part # "recognition" =>
       config = (CHOOSE k \in Configs : TRUE) /\ present = {}
  /\ part # "weixin" => saved = {}

\* The requests that use the workspace sessions are alike.
TaskSymmetry == Permutations(Tasks)

Own(p) == part = p /\ UNCHANGED part
tunnel == <<stateFile, pidFile, dirs, proc, cli, starts, passed, hitForeign, disturbed>>
daemon == <<platform, unit, loaded, leaving, serving, crashed, env, state, cmd, outcome,
            ignored, commands, crashes>>
models == <<model, archive, link, job, download, jobs, installed, torn, raced>>
settings == <<file, auth, up, failed, page, saves, storeCrashes>>
remote == <<conn, versions, table, session, opened, status, request, open, requests,
            behind>>
events == <<published, queue, since, sent, phase, getter, item, shutdown, pings>>
recognition == <<config, recognizer, lock, saving, present, stream, speechSaves>>
weixin == <<saved, cursor, arrived, handled, task, polls, logins, context, summary,
            stopper, manager, todo, channelCrashes>>

Next ==
  \/ /\ Own("tunnel") /\ Tunnel!Next
     /\ UNCHANGED <<daemon, models, settings, remote, events, recognition, weixin>>
  \/ /\ Own("daemon") /\ Daemon!Next
     /\ UNCHANGED <<tunnel, models, settings, remote, events, recognition, weixin>>
  \/ /\ Own("models") /\ Models!Next
     /\ UNCHANGED <<tunnel, daemon, settings, remote, events, recognition, weixin>>
  \/ /\ Own("settings") /\ Settings!Next
     /\ UNCHANGED <<tunnel, daemon, models, remote, events, recognition, weixin>>
  \/ /\ Own("remote") /\ Remote!Next
     /\ UNCHANGED <<tunnel, daemon, models, settings, events, recognition, weixin>>
  \/ /\ Own("events") /\ Events!Next
     /\ UNCHANGED <<tunnel, daemon, models, settings, remote, recognition, weixin>>
  \/ /\ Own("recognition") /\ Recognition!Next
     /\ UNCHANGED <<tunnel, daemon, models, settings, remote, events, weixin>>
  \/ /\ Own("weixin") /\ Weixin!Next
     /\ UNCHANGED <<tunnel, daemon, models, settings, remote, events, recognition>>

Spec == Init /\ [][Next]_<<part, tunnel, daemon, models, settings, remote, events,
                           recognition, weixin>>

\* The type invariant of the component that runs; the others are as they begin.
TypeOK ==
  /\ part = "tunnel" => Tunnel!TypeOK
  /\ part = "daemon" => Daemon!TypeOK
  /\ part = "models" => Models!TypeOK
  /\ part = "settings" => Settings!TypeOK
  /\ part = "remote" => Remote!TypeOK
  /\ part = "events" => Events!TypeOK
  /\ part = "recognition" => Recognition!TypeOK
  /\ part = "weixin" => Weixin!TypeOK

(***************************************************************************)
(* The properties are stated, and explained, in the components' modules.   *)
(***************************************************************************)

\* stop signals only the cloudflared that start recorded, or what took its id since.
OnlyOursSignalled == Tunnel!OnlyOursSignalled
\* Undisturbed commands leave no process and no directory unrecorded.
NothingLeftBehind == Tunnel!NothingLeftBehind
\* The manager starts the service without its environment file only after a failure
\* that uninstall ignored.
EnvironmentPresent == Daemon!EnvironmentPresent
\* A command of the service that reports success has done what it says, unless it
\* ignored a failure on the way.
EndsAsAsked == [][part = "daemon" => Daemon!EndsAsAskedStep]_daemon
\* Only verified bytes become the model.
OnlyVerifiedInstalled == Models!OnlyVerifiedInstalled
\* An installed model stays usable.
StaysUsable == Models!StaysUsable
\* What the server holds of its settings, or has built from them, agrees
\* with them: references, the recognizer and, unless a write has raised, the password.
CopiesAgree == Settings!SettingsAgree /\ Recognition!RecognizerIsCurrent
\* Editing a connection keeps its projects.
EditKeepsProjects == [][part = "settings" => Settings!EditKeepsProjectsStep]_settings
\* A workspace session not yet stopped is in the table, is about to be stopped or is
\* known to be lost.
NoneDropped == Remote!NoneDropped
\* A listing uses a session opened with the connection's present settings, but for
\* those known to be left behind.
CurrentSettings == Remote!CurrentSettings
\* A page that stays sees every event once and in order.
NothingLost == Events!NothingLost
\* A channel message is handed on at most once and in order.
HandledOnce == Weixin!HandledOnce
\* Every live poll is the one the table has.
PollsAreTracked == Weixin!PollsAreTracked
\* Two connections never share an id.
UniqueConnectionIds == Settings!UniqueConnectionIds
=============================================================================
