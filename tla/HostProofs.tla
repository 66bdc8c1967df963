------------------------------ MODULE HostProofs ------------------------------
(***************************************************************************)
(* The parts that work on the user's machine from short-lived processes:   *)
(* the tunnel command, the daemon command and the managed speech model,    *)
(* for any number of terminals, process ids, addresses and workers.        *)
(***************************************************************************)
EXTENDS SettingsProofs
-----------------------------------------------------------------------------
(***************************************************************************)
(* The tunnel: what stop signals.                                          *)
(***************************************************************************)

Fields == {"pc", "op", "mode", "pid", "dir", "seen"}
\* A command that is about to signal has seen a process that was not a stranger's.
Shaped(c) ==
  /\ DOMAIN cli[c] = Fields /\ cli[c].pid \in Pids \cup {None}
  /\ cli[c].dir \in Tunnel!Dirs \cup {None}
  /\ cli[c].pc \in {"wait", "record"} => cli[c].pid \in Pids
  /\ cli[c].seen # None => cli[c].seen.pid \in Pids
Aims(c) ==
  cli[c].pc \in {"term", "kill"} =>
    cli[c].seen # None /\ ~Tunnel!Stranger(c, cli[c].seen.pid)
Signals ==
  /\ DOMAIN cli = Cli /\ DOMAIN proc = Pids
  /\ stateFile # None => stateFile.pid \in Pids
  /\ \A c \in Cli : Shaped(c) /\ Aims(c)
  /\ ~hitForeign

\* What a step of the command in terminal c leaves alone.
ApartFrom(c) == DOMAIN cli' = Cli /\ \A d \in Cli \ {c} : cli'[d] = cli[d]
\* A step of the command in terminal c gives no process id to somebody else.
NoneReused(c) ==
  /\ DOMAIN proc' = Pids /\ passed \ {c} \subseteq passed'
  /\ \A p \in Pids : proc'[p] = "foreign" => proc[p] = "foreign"

LEMMA IdleCommand ==
  /\ DOMAIN Tunnel!Idle = Fields /\ Tunnel!Idle.pc = "idle" /\ Tunnel!Idle.pid = None
  /\ Tunnel!Idle.dir = None /\ Tunnel!Idle.seen = None
BY DEF Tunnel!Idle, Fields

LEMMA SignalsStay ==
  ASSUME Signals, NEW c \in Cli, ApartFrom(c), NoneReused(c), Shaped(c)', Aims(c)', ~hitForeign',
         stateFile' # None => stateFile'.pid \in Pids
  PROVE  Signals'
<1>1. ASSUME NEW d \in Cli, d # c PROVE Shaped(d)' /\ Aims(d)'
  <2>1. cli'[d] = cli[d] /\ Shaped(d) /\ Aims(d)
    BY <1>1 DEF ApartFrom, Signals
  <2> QED
    BY <1>1, <2>1 DEF Shaped, Aims, NoneReused, Tunnel!Stranger
<1> QED
  BY <1>1 DEF Signals, ApartFrom, NoneReused

LEMMA BeginSignals ==
  ASSUME Signals, NEW c \in Cli, NEW op, Tunnel!Begin(c, op)
  PROVE  Signals'
<1>1. /\ stateFile' = stateFile /\ proc' = proc /\ hitForeign' = hitForeign
      /\ pidFile' = pidFile /\ passed' = passed \ {c}
  BY DEF Tunnel!Begin
<1> DEFINE next == IF stateFile # None /\ ~Tunnel!IsOwned(stateFile) THEN "clean"
                   ELSE IF stateFile = None /\ op = "start" THEN "prepare"
                   ELSE IF stateFile # None /\ op = "stop" THEN "term" ELSE "idle"
           r == [Tunnel!Idle EXCEPT !.op = op, !.seen = stateFile, !.pc = next]
<1>2. /\ cli' = [cli EXCEPT ![c] = r] /\ DOMAIN r = Fields /\ r.pid = None /\ r.dir = None
      /\ r.seen = stateFile /\ r.pc = next
  <2>1. cli' = [cli EXCEPT ![c] = r]
    BY DEF Tunnel!Begin
  <2> HIDE DEF next
  <2> QED
    BY <2>1, IdleCommand DEF Fields
<1> HIDE DEF r
<1>3. ApartFrom(c) /\ cli'[c] = r
  BY <1>2 DEF ApartFrom, Signals
<1>4. Shaped(c)'
  BY <1>1, <1>2, <1>3 DEF Shaped, Signals
<1>5. Aims(c)'
  BY <1>1, <1>2, <1>3 DEF Aims, Tunnel!IsOwned, Tunnel!Stranger
<1>6. NoneReused(c)
  BY <1>1 DEF NoneReused, Signals
<1> QED
  BY <1>1, <1>3, <1>4, <1>5, <1>6, SignalsStay DEF Signals

\* A command that goes on, or returns, without aiming.
LEMMA OnwardSignals ==
  ASSUME Signals, NEW c \in Cli, NEW r, cli' = [cli EXCEPT ![c] = r], DOMAIN r = Fields,
         r.pid \in Pids \cup {None}, r.dir \in Tunnel!Dirs \cup {None}, r.pc \in {"wait", "record"} => r.pid \in Pids,
         r.seen \in {None, cli[c].seen}, r.pc \notin {"term", "kill"},
         NoneReused(c), ~hitForeign', stateFile' # None => stateFile'.pid \in Pids
  PROVE  Signals'
<1>1. ApartFrom(c) /\ cli'[c] = r
  BY DEF ApartFrom, Signals
<1>2. Shaped(c)' /\ Aims(c)'
  BY <1>1 DEF Shaped, Aims, Signals
<1> QED
  BY <1>1, <1>2, SignalsStay

\* What a command does to its own record.
Goes(c, pc) ==
  \E r : /\ cli' = [cli EXCEPT ![c] = r] /\ DOMAIN r = Fields /\ r.pc = pc
         /\ r.pid = cli[c].pid /\ r.dir = cli[c].dir /\ r.seen = cli[c].seen
LEMMA GotoGoes ==
  ASSUME Signals, NEW c \in Cli, NEW pc, Tunnel!Goto(c, pc) PROVE Goes(c, pc)
<1> DEFINE r == [cli[c] EXCEPT !.pc = pc]
<1>1. cli' = [cli EXCEPT ![c] = r] /\ DOMAIN cli[c] = Fields
  BY DEF Tunnel!Goto, Signals, Shaped
<1>2. /\ DOMAIN r = Fields /\ r.pc = pc /\ r.pid = cli[c].pid /\ r.dir = cli[c].dir
      /\ r.seen = cli[c].seen
  BY <1>1 DEF Fields
<1> HIDE DEF r
<1> QED
  BY <1>1, <1>2 DEF Goes
LEMMA ReturnIdles ==
  ASSUME NEW c \in Cli, Tunnel!Return(c)
  PROVE  \E r : /\ cli' = [cli EXCEPT ![c] = r] /\ DOMAIN r = Fields /\ r.pc = "idle"
                /\ r.pid = None /\ r.dir = None /\ r.seen = None
BY IdleCommand DEF Tunnel!Return

LEMMA CommandSignals ==
  ASSUME Signals, NEW c \in Cli,
         \/ Tunnel!Clean(c) \/ Tunnel!PrepareFails(c) \/ Tunnel!Spawn(c) \/ Tunnel!Ready(c)
         \/ Tunnel!NotReady(c) \/ \E mode \in Tunnel!Modes : Tunnel!Prepare(c, mode)
         \/ Tunnel!Record(c) \/ Tunnel!StartFailed(c) \/ Tunnel!Interrupt(c)
  PROVE  Signals'
<1>1. ~hitForeign'
  <2>1. hitForeign' = hitForeign
    BY DEF Tunnel!Clean, Tunnel!PrepareFails, Tunnel!Spawn, Tunnel!Ready, Tunnel!NotReady,
           Tunnel!Prepare, Tunnel!Record, Tunnel!StartFailed, Tunnel!Interrupt
  <2> QED
    BY <2>1 DEF Signals
<1>2. NoneReused(c)
  <2>0. passed' = passed
    BY DEF Tunnel!Clean, Tunnel!PrepareFails, Tunnel!Spawn, Tunnel!Ready, Tunnel!NotReady,
           Tunnel!Prepare, Tunnel!Record, Tunnel!StartFailed, Tunnel!Interrupt
  <2>1. CASE proc' = proc
    BY <2>0, <2>1 DEF NoneReused, Signals
  <2>2. CASE Tunnel!Spawn(c)
    BY <2>0, <2>2 DEF NoneReused, Signals, Tunnel!Spawn
  <2>3. CASE Tunnel!StartFailed(c)
    BY <2>0, <2>3 DEF NoneReused, Signals, Tunnel!StartFailed
  <2> QED
    BY <2>1, <2>2, <2>3 DEF Tunnel!Clean, Tunnel!PrepareFails, Tunnel!Ready,
       Tunnel!NotReady, Tunnel!Prepare, Tunnel!Record, Tunnel!Interrupt
<1>3. stateFile' # None => stateFile'.pid \in Pids
  <2>1. CASE stateFile' \in {None, stateFile}
    BY <2>1 DEF Signals
  <2>2. CASE Tunnel!Record(c)
    BY <2>2 DEF Tunnel!Record, Signals, Shaped
  <2> QED
    BY <2>1, <2>2 DEF Tunnel!Clean, Tunnel!PrepareFails, Tunnel!Spawn, Tunnel!Ready,
       Tunnel!NotReady, Tunnel!Prepare, Tunnel!StartFailed, Tunnel!Interrupt
<1>4. /\ DOMAIN cli[c] = Fields /\ cli[c].pid \in Pids \cup {None}
      /\ cli[c].dir \in Tunnel!Dirs \cup {None}
  BY DEF Signals, Shaped
<1>5. CASE Tunnel!Return(c)
  BY <1>1, <1>2, <1>3, <1>5, ReturnIdles, OnwardSignals
<1>6. CASE Tunnel!Goto(c, "fail")
  BY <1>1, <1>2, <1>3, <1>4, <1>6, GotoGoes, OnwardSignals DEF Goes
<1>7. CASE Tunnel!Goto(c, "record") /\ cli[c].pc = "wait"
  <2>1. cli[c].pid \in Pids
    BY <1>7 DEF Signals, Shaped
  <2> QED
    BY <1>1, <1>2, <1>3, <1>4, <1>7, <2>1, GotoGoes, OnwardSignals DEF Goes
<1>8. CASE cli[c].pc = "wait" /\ cli' = [cli EXCEPT ![c].pc = "record", ![c].dir = None]
  <2>1. cli[c].pid \in Pids
    BY <1>8 DEF Signals, Shaped
  <2> DEFINE r == [cli[c] EXCEPT !.pc = "record", !.dir = None]
  <2>2. /\ cli' = [cli EXCEPT ![c] = r] /\ DOMAIN r = Fields /\ r.pc = "record"
        /\ r.dir = None /\ r.pid = cli[c].pid /\ r.seen = cli[c].seen
    BY <1>4, <1>8 DEF Fields
  <2> HIDE DEF r
  <2> QED
    BY <1>1, <1>2, <1>3, <1>4, <2>1, <2>2, OnwardSignals
<1>9. CASE cli' = [cli EXCEPT ![c].pc = "prepare", ![c].seen = None]
  <2> DEFINE r == [cli[c] EXCEPT !.pc = "prepare", !.seen = None]
  <2>1. /\ cli' = [cli EXCEPT ![c] = r] /\ DOMAIN r = Fields /\ r.pc = "prepare"
        /\ r.dir = cli[c].dir /\ r.pid = cli[c].pid /\ r.seen = None
    BY <1>4, <1>9 DEF Fields
  <2> HIDE DEF r
  <2> QED
    BY <1>1, <1>2, <1>3, <1>4, <2>1, OnwardSignals
<1>10. ASSUME NEW mode, NEW dir \in Tunnel!Dirs \cup {None},
              cli' = [cli EXCEPT ![c].pc = "spawn", ![c].mode = mode, ![c].dir = dir]
       PROVE  Signals'
  <2> DEFINE r == [cli[c] EXCEPT !.pc = "spawn", !.mode = mode, !.dir = dir]
  <2>1. /\ cli' = [cli EXCEPT ![c] = r] /\ DOMAIN r = Fields /\ r.pc = "spawn"
        /\ r.dir = dir /\ r.pid = cli[c].pid /\ r.seen = cli[c].seen
    BY <1>4, <1>10 DEF Fields
  <2> HIDE DEF r
  <2> QED
    BY <1>1, <1>2, <1>3, <1>4, <2>1, OnwardSignals
<1>11. ASSUME NEW p \in Pids, cli' = [cli EXCEPT ![c].pc = "wait", ![c].pid = p]
       PROVE  Signals'
  <2> DEFINE r == [cli[c] EXCEPT !.pc = "wait", !.pid = p]
  <2>1. /\ cli' = [cli EXCEPT ![c] = r] /\ DOMAIN r = Fields /\ r.pc = "wait"
        /\ r.dir = cli[c].dir /\ r.pid \in Pids /\ r.seen = cli[c].seen
    BY <1>4, <1>11 DEF Fields
  <2> HIDE DEF r
  <2> QED
    BY <1>1, <1>2, <1>3, <1>4, <2>1, OnwardSignals
<1>12. ASSUME NEW mode, Tunnel!Prepare(c, mode) PROVE Signals'
  BY <1>10, <1>12 DEF Tunnel!Prepare
<1> QED
  BY <1>5, <1>6, <1>7, <1>8, <1>9, <1>11, <1>12 DEF Tunnel!Clean, Tunnel!PrepareFails,
     Tunnel!Spawn, Tunnel!Ready, Tunnel!NotReady, Tunnel!Record,
     Tunnel!StartFailed, Tunnel!Interrupt

LEMMA StopSignals ==
  ASSUME Signals, NEW c \in Cli, Tunnel!Sigterm(c) \/ Tunnel!Sigkill(c)
  PROVE  Signals'
<1>1. PICK p \in Pids :
        p = cli[c].seen.pid /\ ~Tunnel!Stranger(c, p) /\ cli[c].seen # None
  BY DEF Tunnel!Sigterm, Tunnel!Sigkill, Signals, Shaped, Aims
<1>2. ~hitForeign'
  <2>1. hitForeign' = (hitForeign \/ Tunnel!Stranger(c, p))
    BY <1>1 DEF Tunnel!Sigterm, Tunnel!Sigkill
  <2> QED
    BY <1>1, <2>1 DEF Signals
<1>3. stateFile' = stateFile
  BY DEF Tunnel!Sigterm, Tunnel!Sigkill
<1>4. NoneReused(c)
  BY <1>1 DEF Tunnel!Sigterm, Tunnel!Sigkill, NoneReused, Signals
<1>5. CASE Tunnel!Return(c)
  BY <1>2, <1>3, <1>4, <1>5, ReturnIdles, OnwardSignals DEF Signals
<1>6. CASE Tunnel!Goto(c, "kill") \/ Tunnel!Goto(c, "clean")
  <2>1. PICK r : /\ cli' = [cli EXCEPT ![c] = r] /\ DOMAIN r = Fields
                 /\ r.pc \in {"kill", "clean"}
                 /\ r.pid = cli[c].pid /\ r.dir = cli[c].dir /\ r.seen = cli[c].seen
    BY <1>6, GotoGoes DEF Goes
  <2>2. ApartFrom(c) /\ cli'[c] = r
    BY <2>1 DEF ApartFrom, Signals
  <2>3. Shaped(c)'
    BY <2>1, <2>2 DEF Shaped, Signals
  <2>4. Aims(c)'
    <3>1. passed' = passed
      BY DEF Tunnel!Sigterm, Tunnel!Sigkill
    <3> QED
      BY <1>1, <1>4, <2>1, <2>2, <3>1 DEF Aims, NoneReused, Tunnel!Stranger
  <2> QED
    BY <1>2, <1>3, <1>4, <2>2, <2>3, <2>4, SignalsStay DEF Signals
<1> QED
  BY <1>5, <1>6 DEF Tunnel!Sigterm, Tunnel!Sigkill

LEMMA SignalsStep ==
  ASSUME Signals, [Tunnel!Next]_tunnel
  PROVE  Signals'
<1>1. ASSUME NEW p \in Pids, Tunnel!Connected(p) \/ Tunnel!Exited(p) \/ Tunnel!Reused(p)
      PROVE  Signals'
  <2>1. /\ stateFile' = stateFile /\ cli' = cli /\ hitForeign' = hitForeign
        /\ \E v \in {"up", "free", "foreign"} : proc' = [proc EXCEPT ![p] = v]
        /\ passed \subseteq passed'
        /\ proc'[p] = "foreign" => {c \in Cli : Tunnel!Signalling(c, p)} \subseteq passed'
    BY <1>1 DEF Tunnel!Connected, Tunnel!Exited, Tunnel!Reused, Signals
  <2>2. ASSUME NEW c \in Cli PROVE Shaped(c)' /\ Aims(c)'
    <3>1. Shaped(c) /\ Aims(c)
      BY DEF Signals
    <3>2. Shaped(c)'
      BY <2>1, <3>1 DEF Shaped
    <3>3. Aims(c)'
      BY <2>1, <3>1 DEF Aims, Signals, Tunnel!Stranger, Tunnel!Signalling
    <3> QED
      BY <3>2, <3>3
  <2>3. ~hitForeign'
    BY <2>1 DEF Signals
  <2>4. DOMAIN cli' = Cli /\ DOMAIN proc' = Pids /\ (stateFile' # None => stateFile'.pid \in Pids)
    BY <2>1 DEF Signals
  <2> QED
    BY <2>2, <2>3, <2>4 DEF Signals
<1>2. CASE UNCHANGED tunnel
  <2>1. /\ stateFile' = stateFile /\ cli' = cli /\ proc' = proc /\ hitForeign' = hitForeign
        /\ passed' = passed
    BY <1>2 DEF tunnel
  <2> QED
    BY <2>1 DEF Signals, Shaped, Aims, Tunnel!Stranger
<1> QED
  BY <1>1, <1>2, BeginSignals, CommandSignals, StopSignals DEF Tunnel!Next

LEMMA SignalsHold == Spec => []Signals /\ [][Tunnel!Next]_tunnel /\ Tunnel!Init
<1>1. Tunnel!Init => Signals
  <2>1. ASSUME Tunnel!Init, NEW c \in Cli PROVE Shaped(c) /\ Aims(c)
    BY <2>1, IdleCommand DEF Tunnel!Init, Shaped, Aims
  <2> QED
    BY <2>1 DEF Tunnel!Init, Signals
<1>2. Signals /\ [Tunnel!Next]_tunnel => Signals'
  BY SignalsStep
<1> QED
  BY <1>1, <1>2, EachAlone, PTL

\* stop signals only the cloudflared that start recorded, however commands overlap and
\* are interrupted, unless the id is passed on between its check and its signal.
THEOREM OnlyOursSignalledHolds == Spec => []OnlyOursSignalled
<1>1. Signals => OnlyOursSignalled
  BY DEF Signals, OnlyOursSignalled, Tunnel!OnlyOursSignalled
<1> QED
  BY <1>1, SignalsHold, PTL
-----------------------------------------------------------------------------
(***************************************************************************)
(* The tunnel: what commands leave behind.                                 *)
(***************************************************************************)

\* Only a start that has spawned holds a process, only one that has prepared a
\* directory.
Fits(c) ==
  /\ cli[c].pc \in {"idle", "clean", "prepare", "term", "kill"} =>
       cli[c].pid = None /\ cli[c].dir = None
  /\ cli[c].pc = "spawn" => cli[c].pid = None
\* A start at work has found no state, and nothing runs until it spawns; a command
\* that stops or cleans up works on the state there is.
Working(c) ==
  /\ cli[c].pc \in {"prepare", "spawn", "wait", "record", "fail"} => stateFile = None
  /\ cli[c].pid # None => stateFile = None
  /\ cli[c].pc \in {"clean", "term", "kill"} => stateFile # None /\ cli[c].seen = stateFile
  /\ cli[c].pc \in {"clean", "prepare", "spawn"} => \A p \in Pids : ~Tunnel!Alive(p)
  /\ cli[c].pc = "record" => pidFile = cli[c].pid
Recorded(p) == stateFile # None /\ stateFile.pid = p /\ Tunnel!IsOwned(stateFile)
Filed(d) == stateFile # None /\ stateFile.dir = d
TidyFor(c) ==
  /\ \A p \in Pids : Tunnel!Alive(p) => Recorded(p) \/ p = cli[c].pid
  /\ \A d \in dirs : Filed(d) \/ d = cli[c].dir
AtWork(c) == cli[c].pc # "idle"
OneAtWork == \A c, d \in Cli : AtWork(c) /\ AtWork(d) => c = d
Placed == None \notin dirs /\ \A c \in Cli : Fits(c)
Orderly == OneAtWork /\ (\A c \in Cli : Working(c)) /\ NothingLeftBehind

\* What the command at work holds is all that is held.
LEMMA Sole ==
  ASSUME Placed, Orderly, ~disturbed, NEW c \in Cli,
         AtWork(c) \/ \A d \in Cli : ~AtWork(d), None \notin Pids
  PROVE  TidyFor(c) /\ \A d \in Cli \ {c} : ~AtWork(d)
<1>1. ASSUME NEW d \in Cli, d # c PROVE ~AtWork(d) /\ cli[d].pid = None /\ cli[d].dir = None
  <2>1. ~AtWork(d)
    BY <1>1 DEF Orderly, OneAtWork
  <2> QED
    BY <2>1 DEF AtWork, Placed, Fits
<1>2. ASSUME NEW p \in Pids, Tunnel!Alive(p) PROVE Recorded(p) \/ p = cli[c].pid
  <2>1. Recorded(p) \/ \E d \in Cli : p = cli[d].pid
    BY <1>2 DEF Orderly, NothingLeftBehind, Tunnel!NothingLeftBehind, Recorded
  <2> QED
    BY <1>1, <2>1
<1>3. ASSUME NEW d \in dirs PROVE Filed(d) \/ d = cli[c].dir
  <2>1. Filed(d) \/ \E e \in Cli : d = cli[e].dir
    BY DEF Orderly, NothingLeftBehind, Tunnel!NothingLeftBehind, Filed
  <2>2. d # None
    BY DEF Placed
  <2> QED
    BY <1>1, <2>1, <2>2
<1> QED
  BY <1>1, <1>2, <1>3 DEF TidyFor

\* It is enough to follow the command at work.
LEMMA Follows ==
  ASSUME Placed, NEW c \in Cli, ApartFrom(c), \A d \in Cli \ {c} : ~AtWork(d),
         Working(c)', TidyFor(c)'
  PROVE  Orderly'
<1>1. \A d \in Cli \ {c} : ~AtWork(d)'
  BY DEF ApartFrom, AtWork
<1>2. OneAtWork'
  BY <1>1 DEF OneAtWork
<1>3. ASSUME NEW d \in Cli PROVE Working(d)'
  <2>1. CASE d = c
    BY <2>1
  <2>2. CASE d # c
    <3>1. cli'[d].pc = "idle"
      BY <1>1, <2>2 DEF AtWork
    <3>2. cli'[d].pid = None
      BY <2>2, <3>1 DEF ApartFrom, Placed, Fits
    <3> QED
      BY <3>1, <3>2 DEF Working
  <2> QED
    BY <2>1, <2>2
<1>4. NothingLeftBehind'
  BY DEF TidyFor, Recorded, Filed, NothingLeftBehind, Tunnel!NothingLeftBehind
<1> QED
  BY <1>2, <1>3, <1>4 DEF Orderly

LEMMA PlacedMoves ==
  ASSUME Placed, NEW c \in Cli, ApartFrom(c), Fits(c)', None \notin dirs' PROVE Placed'
<1>1. ASSUME NEW d \in Cli, d # c PROVE Fits(d)'
  <2>1. cli'[d] = cli[d] /\ Fits(d)
    BY <1>1 DEF ApartFrom, Placed
  <2> QED
    BY <2>1 DEF Fits
<1> QED
  BY <1>1 DEF Placed

LEMMA Change ==
  ASSUME Signals, NEW c \in Cli, NEW r, cli' = [cli EXCEPT ![c] = r]
  PROVE  ApartFrom(c) /\ cli'[c] = r
BY DEF ApartFrom, Signals

LEMMA BeginTidies ==
  ASSUME Signals, Placed, ~disturbed => Orderly, None \notin Pids,
         NEW c \in Cli, NEW op, Tunnel!Begin(c, op)
  PROVE  Placed' /\ (~disturbed' => Orderly')
<1>1. /\ stateFile' = stateFile /\ proc' = proc /\ pidFile' = pidFile /\ dirs' = dirs
      /\ cli[c].pc = "idle"
  BY DEF Tunnel!Begin
<1> DEFINE next == IF stateFile # None /\ ~Tunnel!IsOwned(stateFile) THEN "clean"
                   ELSE IF stateFile = None /\ op = "start" THEN "prepare"
                   ELSE IF stateFile # None /\ op = "stop" THEN "term" ELSE "idle"
           r == [Tunnel!Idle EXCEPT !.op = op, !.seen = stateFile, !.pc = next]
<1>2. /\ cli' = [cli EXCEPT ![c] = r] /\ DOMAIN r = Fields /\ r.pid = None /\ r.dir = None
      /\ r.seen = stateFile /\ r.pc = next
  <2>1. cli' = [cli EXCEPT ![c] = r]
    BY DEF Tunnel!Begin
  <2> HIDE DEF next
  <2> QED
    BY <2>1, IdleCommand DEF Fields
<1> HIDE DEF r
<1>3. ApartFrom(c) /\ cli'[c] = r
  BY <1>2, Change
<1>4. Fits(c)'
  BY <1>2, <1>3 DEF Fits
<1>5. ASSUME ~disturbed' PROVE Orderly'
  <2>1. ~disturbed /\ \A d \in Cli \ {c} : ~AtWork(d)
    <3>1. disturbed' = (disturbed \/ \E d \in Cli \ {c} : cli[d].pc # "idle")
      BY DEF Tunnel!Begin
    <3> QED
      BY <1>5, <3>1 DEF AtWork
  <2>2. \A d \in Cli : ~AtWork(d)
    BY <1>1, <2>1 DEF AtWork
  <2>3. TidyFor(c) /\ cli[c].pid = None /\ cli[c].dir = None
    <3>1. cli[c].pid = None /\ cli[c].dir = None
      BY <1>1 DEF Placed, Fits
    <3> QED
      BY <2>1, <2>2, <3>1, Sole
  <2>4. stateFile = None \/ ~Tunnel!IsOwned(stateFile) => \A p \in Pids : ~Tunnel!Alive(p)
    BY <2>3 DEF TidyFor, Recorded
  <2>5. TidyFor(c)'
    BY <1>1, <1>2, <1>3, <2>3 DEF TidyFor, Recorded, Filed, Tunnel!Alive, Tunnel!IsOwned
  <2>6. Working(c)'
    BY <1>1, <1>2, <1>3, <2>4 DEF Working, Tunnel!Alive
  <2> QED
    BY <1>3, <2>1, <2>5, <2>6, Follows
<1>6. None \notin dirs'
  BY <1>1 DEF Placed
<1> QED
  BY <1>3, <1>4, <1>5, <1>6, PlacedMoves

\* A step of the command at work, followed by its own record alone.
LEMMA ActionTidies ==
  ASSUME Signals, Placed, ~disturbed => Orderly, None \notin Pids, NEW c \in Cli, AtWork(c),
         NEW r, cli' = [cli EXCEPT ![c] = r], disturbed' = disturbed,
         r.pc \in {"idle", "clean", "prepare", "term", "kill"} => r.pid = None /\ r.dir = None,
         r.pc = "spawn" => r.pid = None, None \notin dirs',
         TidyFor(c) /\ Working(c) => TidyFor(c)' /\ Working(c)'
  PROVE  Placed' /\ (~disturbed' => Orderly')
<1>1. ApartFrom(c) /\ cli'[c] = r
  BY Change
<1>2. Fits(c)'
  BY <1>1 DEF Fits
<1>3. Placed'
  BY <1>1, <1>2, PlacedMoves
<1>4. ASSUME ~disturbed' PROVE Orderly'
  <2>1. ~disturbed
    BY <1>4
  <2>2. TidyFor(c) /\ \A d \in Cli \ {c} : ~AtWork(d)
    BY <2>1, Sole
  <2>3. Working(c)
    BY <2>1 DEF Orderly
  <2> QED
    BY <1>1, <2>2, <2>3, Follows
<1> QED
  BY <1>3, <1>4

LEMMA CleanTidies ==
  ASSUME Signals, Placed, ~disturbed => Orderly, None \notin Pids,
         NEW c \in Cli, Tunnel!Clean(c)
  PROVE  Placed' /\ (~disturbed' => Orderly')
<1>1. /\ cli[c].pc = "clean" /\ dirs' = dirs \ {cli[c].seen.dir} /\ stateFile' = None
      /\ pidFile' = None /\ proc' = proc /\ disturbed' = disturbed
      /\ DOMAIN cli[c] = Fields /\ cli[c].pid = None /\ cli[c].dir = None
  BY DEF Tunnel!Clean, Signals, Shaped, Placed, Fits
<1>2. PICK r : /\ cli' = [cli EXCEPT ![c] = r] /\ r.pc \in {"idle", "prepare"}
               /\ r.pid = None /\ r.dir = None
  <2>1. CASE Tunnel!Return(c)
    BY <2>1, ReturnIdles
  <2>2. CASE cli' = [cli EXCEPT ![c].pc = "prepare", ![c].seen = None]
    <3> DEFINE r == [cli[c] EXCEPT !.pc = "prepare", !.seen = None]
    <3>1. /\ cli' = [cli EXCEPT ![c] = r] /\ r.pc = "prepare" /\ r.pid = None /\ r.dir = None
      BY <1>1, <2>2 DEF Fields
    <3> HIDE DEF r
    <3> QED
      BY <3>1
  <2> QED
    BY <2>1, <2>2 DEF Tunnel!Clean
<1>3. cli'[c] = r
  BY <1>2, Change
<1>4. ASSUME TidyFor(c), Working(c) PROVE TidyFor(c)' /\ Working(c)'
  <2>1. /\ stateFile # None /\ cli[c].seen = stateFile
        /\ \A p \in Pids : ~Tunnel!Alive(p)
    BY <1>1, <1>4 DEF Working
  <2>2. dirs' = {}
    <3>1. \A d \in dirs : d = cli[c].seen.dir
      <4>1. None \notin dirs
        BY DEF Placed
      <4> QED
        BY <1>1, <1>4, <2>1, <4>1 DEF TidyFor, Filed
    <3> QED
      BY <1>1, <3>1
  <2>3. \A p \in Pids : ~Tunnel!Alive(p)'
    BY <1>1, <2>1 DEF Tunnel!Alive
  <2> QED
    BY <1>1, <1>2, <1>3, <2>2, <2>3 DEF TidyFor, Working
<1>5. None \notin dirs'
  BY <1>1 DEF Placed
<1>6. AtWork(c)
  BY <1>1 DEF AtWork
<1> QED
  BY <1>1, <1>2, <1>4, <1>5, <1>6, ActionTidies

\* Preparing, with what it makes recorded in the command; a failure makes nothing.
LEMMA PrepareTidies ==
  ASSUME Signals, Placed, ~disturbed => Orderly, None \notin Pids, NEW c \in Cli,
         Tunnel!PrepareFails(c) \/ \E mode \in Tunnel!Modes : Tunnel!Prepare(c, mode)
  PROVE  Placed' /\ (~disturbed' => Orderly')
<1>1. /\ cli[c].pc = "prepare" /\ stateFile' = stateFile /\ pidFile' = pidFile
      /\ proc' = proc /\ disturbed' = disturbed
      /\ DOMAIN cli[c] = Fields /\ cli[c].pid = None /\ cli[c].dir = None
  BY DEF Tunnel!PrepareFails, Tunnel!Prepare, Signals, Shaped, Placed, Fits
<1>2. PICK r : /\ cli' = [cli EXCEPT ![c] = r] /\ r.pc \in {"idle", "spawn"} /\ r.pid = None
               /\ (r.pc = "idle" => r.dir = None)
               /\ dirs' = dirs \cup ({r.dir} \ {None})
  <2>1. CASE Tunnel!PrepareFails(c)
    <3>1. Tunnel!Return(c) /\ dirs' = dirs
      BY <2>1 DEF Tunnel!PrepareFails
    <3>2. dirs = dirs \cup ({None} \ {None})
      OBVIOUS
    <3> QED
      BY <3>1, <3>2, ReturnIdles
  <2>2. ASSUME NEW mode, Tunnel!Prepare(c, mode)
        PROVE  \E r : /\ cli' = [cli EXCEPT ![c] = r] /\ r.pc \in {"idle", "spawn"}
                      /\ r.pid = None /\ (r.pc = "idle" => r.dir = None)
                      /\ dirs' = dirs \cup ({r.dir} \ {None})
    <3>1. PICK dir : /\ dirs' = dirs \cup ({dir} \ {None})
                     /\ cli' = [cli EXCEPT ![c].pc = "spawn", ![c].mode = mode, ![c].dir = dir]
      BY <2>2 DEF Tunnel!Prepare
    <3> DEFINE r == [cli[c] EXCEPT !.pc = "spawn", !.mode = mode, !.dir = dir]
    <3>2. cli' = [cli EXCEPT ![c] = r] /\ r.pc = "spawn" /\ r.pid = None /\ r.dir = dir
      BY <1>1, <3>1 DEF Fields
    <3> HIDE DEF r
    <3> QED
      BY <3>1, <3>2
  <2> QED
    BY <2>1, <2>2
<1>3. cli'[c] = r
  BY <1>2, Change
<1>4. ASSUME TidyFor(c), Working(c) PROVE TidyFor(c)' /\ Working(c)'
  <2>1. stateFile = None /\ \A p \in Pids : ~Tunnel!Alive(p)
    BY <1>1, <1>4 DEF Working
  <2>2. \A p \in Pids : ~Tunnel!Alive(p)'
    BY <1>1, <2>1 DEF Tunnel!Alive
  <2>3. Working(c)'
    BY <1>1, <1>2, <1>3, <2>1, <2>2 DEF Working
  <2>4. dirs = {}
    <3>1. None \notin dirs
      BY DEF Placed
    <3> QED
      BY <1>1, <1>4, <2>1, <3>1 DEF TidyFor, Filed
  <2>5. \A d \in dirs' : d = r.dir
    BY <1>2, <2>4
  <2> QED
    BY <1>3, <2>2, <2>3, <2>5 DEF TidyFor
<1>5. None \notin dirs' /\ AtWork(c)
  BY <1>1, <1>2 DEF Placed, AtWork
<1> QED
  BY <1>1, <1>2, <1>4, <1>5, ActionTidies

LEMMA SpawnTidies ==
  ASSUME Signals, Placed, ~disturbed => Orderly, None \notin Pids,
         NEW c \in Cli, Tunnel!Spawn(c)
  PROVE  Placed' /\ (~disturbed' => Orderly')
<1>1. /\ cli[c].pc = "spawn" /\ stateFile' = stateFile /\ pidFile' = None
      /\ dirs' = dirs /\ disturbed' = disturbed
      /\ DOMAIN cli[c] = Fields /\ DOMAIN proc = Pids
  BY DEF Tunnel!Spawn, Signals, Shaped
<1>2. PICK r : /\ cli' = [cli EXCEPT ![c] = r] /\ r.pc \in {"fail", "wait"}
               /\ r.dir = cli[c].dir
               /\ \A p \in Pids : p = r.pid \/ proc'[p] = proc[p]
  <2>1. CASE Tunnel!Goto(c, "fail") /\ proc' = proc
    BY <2>1, GotoGoes DEF Goes
  <2>2. ASSUME NEW p \in Pids, proc' = [proc EXCEPT ![p] = "starting"],
               cli' = [cli EXCEPT ![c].pc = "wait", ![c].pid = p]
        PROVE  \E r : /\ cli' = [cli EXCEPT ![c] = r] /\ r.pc \in {"fail", "wait"}
                      /\ r.dir = cli[c].dir
                      /\ \A q \in Pids : q = r.pid \/ proc'[q] = proc[q]
    <3> DEFINE r == [cli[c] EXCEPT !.pc = "wait", !.pid = p]
    <3>1. cli' = [cli EXCEPT ![c] = r] /\ r.pc = "wait" /\ r.pid = p /\ r.dir = cli[c].dir
      BY <1>1, <2>2 DEF Fields
    <3>2. \A q \in Pids : q = p \/ proc'[q] = proc[q]
      BY <1>1, <2>2
    <3> HIDE DEF r
    <3> QED
      BY <3>1, <3>2
  <2> QED
    BY <2>1, <2>2 DEF Tunnel!Spawn
<1>3. cli'[c] = r
  BY <1>2, Change
<1>4. ASSUME TidyFor(c), Working(c) PROVE TidyFor(c)' /\ Working(c)'
  <2>1. stateFile = None /\ \A p \in Pids : ~Tunnel!Alive(p)
    BY <1>1, <1>4 DEF Working
  <2>2. \A p \in Pids : Tunnel!Alive(p)' => p = r.pid
    BY <1>2, <2>1 DEF Tunnel!Alive
  <2>3. Working(c)'
    BY <1>1, <1>2, <1>3, <2>1 DEF Working
  <2>4. \A d \in dirs' : d = r.dir
    BY <1>1, <1>2, <1>4, <2>1 DEF TidyFor, Filed
  <2> QED
    BY <1>3, <2>2, <2>3, <2>4 DEF TidyFor
<1>5. None \notin dirs' /\ AtWork(c)
  BY <1>1 DEF Placed, AtWork
<1> QED
  BY <1>1, <1>2, <1>4, <1>5, ActionTidies

LEMMA WaitTidies ==
  ASSUME Signals, Placed, ~disturbed => Orderly, None \notin Pids,
         NEW c \in Cli, Tunnel!Ready(c) \/ Tunnel!NotReady(c)
  PROVE  Placed' /\ (~disturbed' => Orderly')
<1>1. /\ cli[c].pc = "wait" /\ stateFile' = stateFile /\ pidFile' = pidFile
      /\ proc' = proc /\ disturbed' = disturbed /\ DOMAIN cli[c] = Fields
      /\ None \notin dirs
  BY DEF Tunnel!Ready, Tunnel!NotReady, Signals, Shaped, Placed
<1>2. PICK r : /\ cli' = [cli EXCEPT ![c] = r] /\ r.pc \in {"fail", "record"}
               /\ r.pid = cli[c].pid
               /\ \/ dirs' = dirs /\ r.dir = cli[c].dir
                  \/ dirs' = dirs \ {cli[c].dir}
               /\ (r.pc = "record" => pidFile = cli[c].pid)
  <2>1. CASE Tunnel!Goto(c, "fail") /\ dirs' = dirs
    BY <2>1, GotoGoes DEF Goes
  <2>2. CASE Tunnel!Goto(c, "record") /\ dirs' = dirs /\ pidFile = cli[c].pid
    BY <2>2, GotoGoes DEF Goes
  <2>3. CASE /\ cli' = [cli EXCEPT ![c].pc = "record", ![c].dir = None]
             /\ dirs' = dirs \ {cli[c].dir} /\ pidFile = cli[c].pid
    <3> DEFINE r == [cli[c] EXCEPT !.pc = "record", !.dir = None]
    <3>1. cli' = [cli EXCEPT ![c] = r] /\ r.pc = "record" /\ r.pid = cli[c].pid
      BY <1>1, <2>3 DEF Fields
    <3> HIDE DEF r
    <3> QED
      BY <2>3, <3>1
  <2> QED
    BY <2>1, <2>2, <2>3 DEF Tunnel!Ready, Tunnel!NotReady
<1>3. cli'[c] = r
  BY <1>2, Change
<1>4. ASSUME TidyFor(c), Working(c) PROVE TidyFor(c)' /\ Working(c)'
  <2>1. stateFile = None
    BY <1>1, <1>4 DEF Working
  <2>2. Working(c)'
    BY <1>1, <1>2, <1>3, <2>1 DEF Working
  <2>3. \A p \in Pids : Tunnel!Alive(p)' => p = r.pid
    BY <1>1, <1>2, <1>4, <2>1 DEF TidyFor, Recorded, Tunnel!Alive
  <2>4. \A d \in dirs' : d = r.dir
    BY <1>2, <1>4, <2>1 DEF TidyFor, Filed
  <2> QED
    BY <1>3, <2>2, <2>3, <2>4 DEF TidyFor
<1>5. None \notin dirs' /\ AtWork(c)
  BY <1>1, <1>2 DEF AtWork
<1> QED
  BY <1>1, <1>2, <1>4, <1>5, ActionTidies

\* The state file takes over what the command holds.
LEMMA RecordTidies ==
  ASSUME Signals, Placed, ~disturbed => Orderly, None \notin Pids,
         NEW c \in Cli, Tunnel!Record(c)
  PROVE  Placed' /\ (~disturbed' => Orderly')
<1>1. /\ cli[c].pc = "record" /\ pidFile' = pidFile /\ dirs' = dirs /\ proc' = proc
      /\ disturbed' = disturbed /\ None \notin dirs
  BY DEF Tunnel!Record, Placed
<1>0. AtWork(c)
  BY <1>1 DEF AtWork
<1>2. CASE Tunnel!Goto(c, "fail") /\ stateFile' = stateFile
  <2>1. PICK r : /\ cli' = [cli EXCEPT ![c] = r] /\ r.pc = "fail"
                 /\ r.pid = cli[c].pid /\ r.dir = cli[c].dir
    BY <1>2, GotoGoes DEF Goes
  <2>2. cli'[c] = r
    BY <2>1, Change
  <2>3. ASSUME TidyFor(c), Working(c) PROVE TidyFor(c)' /\ Working(c)'
    <3>1. Working(c)'
      BY <1>1, <1>2, <2>1, <2>2, <2>3 DEF Working
    <3>2. TidyFor(c)'
      BY <1>1, <1>2, <2>1, <2>2, <2>3 DEF TidyFor, Recorded, Filed, Tunnel!Alive, Tunnel!IsOwned
    <3> QED
      BY <3>1, <3>2
  <2> QED
    BY <1>0, <1>1, <2>1, <2>3, ActionTidies
<1>3. CASE Tunnel!Return(c) /\ stateFile' = [pid |-> cli[c].pid, dir |-> cli[c].dir]
  <2>1. PICK r : /\ cli' = [cli EXCEPT ![c] = r] /\ r.pc = "idle" /\ r.pid = None
                 /\ r.dir = None
    BY <1>3, ReturnIdles
  <2>2. cli'[c] = r
    BY <2>1, Change
  <2> DEFINE s == [pid |-> cli[c].pid, dir |-> cli[c].dir]
  <2>3. stateFile' = s /\ s.pid = cli[c].pid /\ s.dir = cli[c].dir /\ s # None
    <3>1. cli[c].pid \in Pids /\ cli[c].dir \in (1 .. MaxStarts) \cup {None}
      BY <1>1 DEF Signals, Shaped, Tunnel!Dirs
    <3>2. s \in [pid : Pids, dir : (1 .. MaxStarts) \cup {None}]
      BY <3>1
    <3> QED
      BY <1>3, <3>2, ComponentConstants DEF Tunnel!TunnelConstants
  <2> HIDE DEF s
  <2>4. ASSUME TidyFor(c), Working(c) PROVE TidyFor(c)' /\ Working(c)'
    <3>1. stateFile = None /\ pidFile = cli[c].pid
      BY <1>1, <2>4 DEF Working
    <3>2. ASSUME NEW p \in Pids, Tunnel!Alive(p)' PROVE Recorded(p)'
      BY <1>1, <2>3, <2>4, <3>1, <3>2 DEF TidyFor, Recorded, Tunnel!Alive, Tunnel!IsOwned,
         Tunnel!Cloudflared
    <3>3. ASSUME NEW d \in dirs PROVE Filed(d)'
      BY <1>1, <2>3, <2>4, <3>1 DEF TidyFor, Filed
    <3>4. Working(c)'
      BY <2>1, <2>2 DEF Working
    <3> QED
      BY <1>1, <3>2, <3>3, <3>4 DEF TidyFor
  <2> QED
    BY <1>0, <1>1, <2>1, <2>4, ActionTidies
<1> QED
  BY <1>2, <1>3 DEF Tunnel!Record

LEMMA FailedTidies ==
  ASSUME Signals, Placed, ~disturbed => Orderly, None \notin Pids,
         NEW c \in Cli, Tunnel!StartFailed(c)
  PROVE  Placed' /\ (~disturbed' => Orderly')
<1>1. /\ cli[c].pc = "fail" /\ stateFile' = stateFile /\ dirs' = dirs \ {cli[c].dir}
      /\ proc' = [p \in Pids |-> IF p = cli[c].pid /\ Tunnel!Alive(p) THEN "free" ELSE proc[p]]
      /\ disturbed' = disturbed /\ None \notin dirs
  BY DEF Tunnel!StartFailed, Placed
<1>2. PICK r : cli' = [cli EXCEPT ![c] = r] /\ r.pc = "idle" /\ r.pid = None /\ r.dir = None
  BY ReturnIdles DEF Tunnel!StartFailed
<1>3. cli'[c] = r
  BY <1>2, Change
<1>4. ASSUME TidyFor(c), Working(c) PROVE TidyFor(c)' /\ Working(c)'
  <2>1. stateFile = None
    BY <1>1, <1>4 DEF Working
  <2>2. ASSUME NEW p \in Pids PROVE ~Tunnel!Alive(p)'
    BY <1>1, <1>4, <2>1 DEF TidyFor, Recorded, Tunnel!Alive, Tunnel!Cloudflared
  <2>3. dirs' = {}
    BY <1>1, <1>4, <2>1 DEF TidyFor, Filed
  <2>4. Working(c)'
    BY <1>2, <1>3 DEF Working
  <2> QED
    BY <2>2, <2>3, <2>4 DEF TidyFor
<1>5. None \notin dirs' /\ AtWork(c)
  BY <1>1 DEF AtWork
<1> QED
  BY <1>1, <1>2, <1>4, <1>5, ActionTidies

LEMMA StopTidies ==
  ASSUME Signals, Placed, ~disturbed => Orderly, None \notin Pids,
         NEW c \in Cli, Tunnel!Sigterm(c) \/ Tunnel!Sigkill(c)
  PROVE  Placed' /\ (~disturbed' => Orderly')
<1>1. /\ cli[c].pc \in {"term", "kill"} /\ stateFile' = stateFile /\ dirs' = dirs
      /\ pidFile' = pidFile /\ disturbed' = disturbed /\ None \notin dirs
      /\ cli[c].pid = None /\ cli[c].dir = None /\ AtWork(c)
  BY DEF Tunnel!Sigterm, Tunnel!Sigkill, Placed, Fits, AtWork
<1>2. PICK p \in Pids : p = cli[c].seen.pid /\ cli[c].seen # None
  BY DEF Tunnel!Sigterm, Tunnel!Sigkill, Signals, Shaped, Aims
<1>3. PICK r : /\ cli' = [cli EXCEPT ![c] = r] /\ r.pc \in {"idle", "kill", "clean"}
               /\ r.pid = None /\ r.dir = None
               /\ (r.pc # "idle" => r.seen = cli[c].seen)
               /\ (r.pc = "clean" => proc' = [proc EXCEPT ![p] = "free"])
  <2>1. CASE Tunnel!Return(c)
    BY <2>1, ReturnIdles
  <2>2. CASE \/ Tunnel!Goto(c, "kill")
             \/ Tunnel!Goto(c, "clean") /\ proc' = [proc EXCEPT ![p] = "free"]
    BY <1>1, <2>2, GotoGoes DEF Goes
  <2> QED
    BY <1>2, <2>1, <2>2 DEF Tunnel!Sigterm, Tunnel!Sigkill
<1>4. cli'[c] = r
  BY <1>3, Change
<1>5. ASSUME NEW q \in Pids, Tunnel!Alive(q)' PROVE Tunnel!Alive(q)
  BY <1>2, <1>5 DEF Tunnel!Sigterm, Tunnel!Sigkill, Tunnel!Alive, Tunnel!Cloudflared, Signals
<1>6. ASSUME TidyFor(c), Working(c) PROVE TidyFor(c)' /\ Working(c)'
  <2>1. stateFile # None /\ stateFile.pid = p /\ cli[c].seen = stateFile
    BY <1>1, <1>2, <1>6 DEF Working
  <2>2. ASSUME NEW q \in Pids, Tunnel!Alive(q)' PROVE q = p /\ Recorded(q)'
    <3>1. q = p /\ pidFile = p
      BY <1>1, <1>5, <1>6, <2>1, <2>2 DEF TidyFor, Recorded, Tunnel!IsOwned
    <3> QED
      BY <1>1, <2>1, <2>2, <3>1 DEF Recorded, Tunnel!IsOwned, Tunnel!Alive, Tunnel!Cloudflared
  <2>3. r.pc = "clean" => \A q \in Pids : ~Tunnel!Alive(q)'
    <3>1. ASSUME r.pc = "clean" PROVE ~Tunnel!Alive(p)'
      BY <1>3, <3>1 DEF Signals, Tunnel!Alive, Tunnel!Cloudflared
    <3> QED
      BY <2>2, <3>1
  <2>4. Working(c)'
    BY <1>1, <1>3, <1>4, <2>1, <2>3 DEF Working
  <2>5. ASSUME NEW d \in dirs PROVE Filed(d)'
    BY <1>1, <1>6 DEF TidyFor, Filed
  <2> QED
    BY <1>1, <2>2, <2>4, <2>5 DEF TidyFor
<1> QED
  BY <1>1, <1>3, <1>6, ActionTidies

\* cloudflared and the system: what runs is held or recorded, and stays so.
LEMMA SystemTidies ==
  ASSUME Signals, Placed, ~disturbed => Orderly, None \notin Pids, NEW p \in Pids,
         Tunnel!Connected(p) \/ Tunnel!Exited(p) \/ Tunnel!Reused(p)
  PROVE  Placed' /\ (~disturbed' => Orderly')
<1>1. /\ stateFile' = stateFile /\ dirs' = dirs /\ cli' = cli /\ disturbed' = disturbed
  BY DEF Tunnel!Connected, Tunnel!Exited, Tunnel!Reused
<1>2. Placed'
  BY <1>1 DEF Placed, Fits
<1>3. ASSUME NEW q \in Pids, Tunnel!Alive(q)' PROVE Tunnel!Alive(q)
  BY <1>3 DEF Tunnel!Connected, Tunnel!Exited, Tunnel!Reused, Tunnel!Alive,
              Tunnel!Cloudflared, Signals
<1>4. ASSUME ~disturbed' PROVE Orderly'
  <2>1. Orderly
    BY <1>1, <1>4
  <2>2. OneAtWork'
    BY <1>1, <2>1 DEF Orderly, OneAtWork, AtWork
  <2>0. ~disturbed
    BY <1>1, <1>4
  <2>3. pidFile' = pidFile \/ (pidFile' = p /\ Tunnel!Alive(p))
    BY DEF Tunnel!Connected, Tunnel!Exited, Tunnel!Reused, Tunnel!Alive, Tunnel!Cloudflared
  <2>4. ASSUME NEW q \in Pids, Tunnel!Alive(q)
        PROVE  Recorded(q) \/ \E c \in Cli : q = cli[c].pid /\ AtWork(c) /\ stateFile = None
    <3>1. Recorded(q) \/ \E c \in Cli : q = cli[c].pid
      BY <2>0, <2>1, <2>4 DEF Orderly, NothingLeftBehind, Tunnel!NothingLeftBehind, Recorded
    <3>2. ASSUME NEW c \in Cli, q = cli[c].pid PROVE AtWork(c) /\ stateFile = None
      <4>1. cli[c].pid # None
        BY <3>2
      <4>2. AtWork(c)
        BY <4>1 DEF Placed, Fits, AtWork
      <4>3. stateFile = None
        BY <2>1, <4>1 DEF Orderly, Working
      <4> QED
        BY <4>2, <4>3
    <3> QED
      BY <3>1, <3>2
  <2>5. ASSUME NEW c \in Cli PROVE Working(c)'
    <3>1. Working(c)
      BY <2>1 DEF Orderly
    <3>2. cli[c].pc = "record" => pidFile' = cli[c].pid
      <4>1. ASSUME cli[c].pc = "record", Tunnel!Alive(p) PROVE p = cli[c].pid
        <5>1. stateFile = None /\ AtWork(c)
          BY <3>1, <4>1 DEF Working, AtWork
        <5> QED
          BY <2>1, <2>4, <4>1, <5>1 DEF Recorded, Orderly, OneAtWork
      <4> QED
        BY <2>3, <3>1, <4>1 DEF Working
    <3>3. cli[c].pc \in {"clean", "prepare", "spawn"} => \A q \in Pids : ~Tunnel!Alive(q)'
      BY <1>3, <3>1 DEF Working
    <3> QED
      BY <1>1, <3>1, <3>2, <3>3 DEF Working
  <2>6. ASSUME NEW q \in Pids, Tunnel!Alive(q)'
        PROVE  Recorded(q)' \/ \E c \in Cli : q = cli'[c].pid
    <3>1. Tunnel!Alive(q)
      BY <1>3, <2>6
    <3>2. CASE Recorded(q)
      <4>1. pidFile' = q
        <5>1. pidFile = q /\ stateFile # None /\ stateFile.pid = q
          BY <3>2 DEF Recorded, Tunnel!IsOwned
        <5>2. Tunnel!Alive(p) => p = q
          BY <2>4, <5>1 DEF Recorded
        <5> QED
          BY <2>3, <5>1, <5>2
      <4> QED
        BY <1>1, <2>6, <3>2, <4>1 DEF Recorded, Tunnel!IsOwned, Tunnel!Alive,
           Tunnel!Cloudflared
    <3>3. CASE \E c \in Cli : q = cli[c].pid
      BY <1>1, <3>3
    <3> QED
      BY <2>4, <3>1, <3>2, <3>3
  <2>7. NothingLeftBehind'
    <3>1. \A d \in dirs' : Filed(d)' \/ \E c \in Cli : d = cli'[c].dir
      BY <1>1, <1>4, <2>1 DEF Orderly, NothingLeftBehind, Tunnel!NothingLeftBehind, Filed
    <3> QED
      BY <2>6, <3>1 DEF Recorded, Filed, NothingLeftBehind, Tunnel!NothingLeftBehind
  <2> QED
    BY <2>2, <2>5, <2>7 DEF Orderly
<1> QED
  BY <1>2, <1>4

LEMMA TidyStep ==
  ASSUME Signals, Placed, ~disturbed => Orderly, [Tunnel!Next]_tunnel
  PROVE  Placed' /\ (~disturbed' => Orderly')
<1>0. None \notin Pids
  BY ComponentConstants DEF Tunnel!TunnelConstants
<1>1. ASSUME NEW c \in Cli, Tunnel!Interrupt(c) PROVE Placed' /\ (~disturbed' => Orderly')
  <2>1. PICK r : cli' = [cli EXCEPT ![c] = r] /\ r.pc = "idle" /\ r.pid = None /\ r.dir = None
    BY <1>1, ReturnIdles DEF Tunnel!Interrupt
  <2>2. ApartFrom(c) /\ cli'[c] = r
    BY <2>1, Change
  <2>3. Fits(c)' /\ dirs' = dirs /\ None \notin dirs'
    BY <1>1, <2>1, <2>2 DEF Fits, Tunnel!Interrupt, Placed
  <2>4. disturbed' = TRUE
    BY <1>1 DEF Tunnel!Interrupt
  <2> QED
    BY <2>2, <2>3, <2>4, PlacedMoves
<1>2. CASE UNCHANGED tunnel
  <2>1. /\ stateFile' = stateFile /\ cli' = cli /\ proc' = proc /\ dirs' = dirs
        /\ pidFile' = pidFile /\ disturbed' = disturbed
    BY <1>2 DEF tunnel
  <2>2. Placed'
    BY <2>1 DEF Placed, Fits
  <2>3. ASSUME ~disturbed' PROVE Orderly'
    <3>1. Orderly
      BY <2>1, <2>3
    <3> QED
      BY <2>1, <3>1 DEF Orderly, OneAtWork, AtWork, Working, NothingLeftBehind,
         Tunnel!NothingLeftBehind, Tunnel!Alive, Tunnel!IsOwned
  <2> QED
    BY <2>2, <2>3
<1> QED
  BY <1>0, <1>1, <1>2, BeginTidies, CleanTidies, PrepareTidies, SpawnTidies, WaitTidies,
     RecordTidies, FailedTidies, StopTidies, SystemTidies DEF Tunnel!Next

\* As long as commands neither overlap nor are interrupted, what runs and what lies in
\* the temporary directories is recorded, or belongs to a start still at work.
THEOREM NothingLeftBehindHolds == Spec => []NothingLeftBehind
<1> DEFINE Tidy == Placed /\ (~disturbed => Orderly)
<1>1. Tunnel!Init => Tidy
  <2>1. ASSUME Tunnel!Init PROVE Tidy
    <3>1. /\ dirs = {} /\ stateFile = None /\ \A p \in Pids : ~Tunnel!Alive(p)
      BY <2>1 DEF Tunnel!Init, Tunnel!Alive, Tunnel!Cloudflared
    <3>2. ASSUME NEW c \in Cli PROVE Fits(c) /\ Working(c) /\ ~AtWork(c)
      BY <2>1, <3>1, IdleCommand DEF Tunnel!Init, Fits, Working, AtWork
    <3> QED
      BY <3>1, <3>2 DEF Placed, Orderly, OneAtWork, NothingLeftBehind,
         Tunnel!NothingLeftBehind
  <2> QED
    BY <2>1
<1>2. Signals /\ Tidy /\ [Tunnel!Next]_tunnel => Tidy'
  BY TidyStep
<1>3. Tidy => NothingLeftBehind
  <2>1. CASE disturbed
    BY <2>1 DEF NothingLeftBehind, Tunnel!NothingLeftBehind
  <2>2. CASE ~disturbed
    BY <2>2 DEF Orderly
  <2> QED
    BY <2>1, <2>2
<1> HIDE DEF Tidy
<1> QED
  BY <1>1, <1>2, <1>3, SignalsHold, PTL
-----------------------------------------------------------------------------
(***************************************************************************)
(* Types of the tunnel.                                                    *)
(***************************************************************************)
CliRecords ==
  [pc : {"idle", "clean", "prepare", "spawn", "wait", "record", "fail", "term", "kill"},
   op : {"start", "status", "stop"}, mode : Tunnel!Modes,
   pid : Pids \cup {None}, dir : Tunnel!Dirs \cup {None}, seen : Tunnel!Files \cup {None}]
Spawned(x) == x.pc \in {"wait", "record"} => x.pid \in Pids
\* A start records the process that it has spawned.
TunnelTypes == Tunnel!TypeOK /\ \A c \in Cli : Spawned(cli[c])

LEMMA CliTypes ==
  ASSUME TunnelTypes, NEW c \in Cli, NEW x \in CliRecords, Spawned(x),
         cli' = [cli EXCEPT ![c] = x]
  PROVE  cli' \in [Cli -> CliRecords] /\ \A d \in Cli : Spawned(cli'[d])
BY DEF TunnelTypes, Tunnel!TypeOK, CliRecords, Spawned

LEMMA GotoTypes ==
  ASSUME TunnelTypes, NEW c \in Cli, NEW pc, Tunnel!Goto(c, pc),
         pc \in {"clean", "fail", "kill"} \/ (pc = "record" /\ cli[c].pc = "wait")
  PROVE  cli' \in [Cli -> CliRecords] /\ \A d \in Cli : Spawned(cli'[d])
<1>1. PICK x : x = [cli[c] EXCEPT !.pc = pc]
  OBVIOUS
<1>2. cli[c] \in CliRecords /\ Spawned(cli[c])
  BY DEF TunnelTypes, Tunnel!TypeOK, CliRecords
<1>3. x \in CliRecords /\ Spawned(x)
  BY <1>1, <1>2 DEF CliRecords, Spawned
<1>4. cli' = [cli EXCEPT ![c] = x]
  BY <1>1 DEF Tunnel!Goto
<1> QED
  BY <1>3, <1>4, CliTypes

LEMMA ReturnTypes ==
  ASSUME TunnelTypes, NEW c \in Cli, Tunnel!Return(c)
  PROVE  cli' \in [Cli -> CliRecords] /\ \A d \in Cli : Spawned(cli'[d])
<1>1. Tunnel!Idle \in CliRecords /\ Spawned(Tunnel!Idle)
  BY DEF Tunnel!Idle, CliRecords, Spawned, Tunnel!Modes
<1> QED
  BY <1>1, CliTypes DEF Tunnel!Return

LEMMA TunnelStep ==
  ASSUME TunnelTypes, [Tunnel!Next]_tunnel
  PROVE  TunnelTypes'
<1> USE DEF TunnelTypes, Tunnel!TypeOK
<1>0. CliRecords = 
        [pc : {"idle", "clean", "prepare", "spawn", "wait", "record",
                            "fail", "term", "kill"},
                      op : {"start", "status", "stop"}, mode : Tunnel!Modes,
                      pid : Pids \cup {None}, dir : Tunnel!Dirs \cup {None},
                      seen : Tunnel!Files \cup {None}]
  BY DEF CliRecords
<1>1. ASSUME NEW c \in Cli, NEW op \in {"start", "status", "stop"}, Tunnel!Begin(c, op)
      PROVE TunnelTypes'
  <2>1. PICK pc : pc = IF stateFile # None /\ ~Tunnel!IsOwned(stateFile) THEN "clean"
                 ELSE IF stateFile = None /\ op = "start" THEN "prepare"
                 ELSE IF stateFile # None /\ op = "stop" THEN "term"
                 ELSE "idle"
    OBVIOUS
  <2>2. PICK x : x = [Tunnel!Idle EXCEPT !.op = op, !.seen = stateFile, !.pc = pc]
    OBVIOUS
  <2>3. x = [pc |-> pc, op |-> op, mode |-> "quick", pid |-> None, dir |-> None,
             seen |-> stateFile]
    BY <2>2 DEF Tunnel!Idle
  <2>4. pc \in {"clean", "prepare", "term", "idle"}
    BY <2>1
  <2>5. x \in CliRecords /\ Spawned(x)
    BY <2>3, <2>4 DEF CliRecords, Spawned, Tunnel!Modes
  <2>6. cli' = [cli EXCEPT ![c] = x]
    BY <1>1, <2>1, <2>2 DEF Tunnel!Begin
  <2>7. cli' \in [Cli -> CliRecords] /\ \A d \in Cli : Spawned(cli'[d])
    BY <2>5, <2>6, CliTypes
  <2>8. starts' \in 0 .. MaxStarts /\ disturbed' \in BOOLEAN
    BY <1>1, ComponentConstants DEF Tunnel!Begin, ComponentConstants, Tunnel!TunnelConstants
  <2> QED
    BY <1>0, <1>1, <2>7, <2>8 DEF Tunnel!Begin
<1>2. ASSUME NEW c \in Cli, Tunnel!Clean(c)
      PROVE TunnelTypes'
  <2>1. cli' \in [Cli -> CliRecords] /\ \A d \in Cli : Spawned(cli'[d])
    <3>1. CASE Tunnel!Return(c)
      BY <3>1, ReturnTypes
    <3>2. CASE cli' = [cli EXCEPT ![c].pc = "prepare", ![c].seen = None]
      <4>1. PICK x : x = [cli[c] EXCEPT !.pc = "prepare", !.seen = None]
        OBVIOUS
      <4>0. cli[c] \in CliRecords
        BY DEF TunnelTypes, Tunnel!TypeOK, CliRecords
      <4>2. x \in CliRecords /\ x.pc = "prepare"
        BY <4>0, <4>1 DEF CliRecords
      <4>3. Spawned(x)
        BY <4>2 DEF Spawned
      <4>4. cli' = [cli EXCEPT ![c] = x]
        BY <3>2, <4>1
      <4> QED
        BY <4>2, <4>3, <4>4, CliTypes
    <3> QED
      BY <1>2, <3>1, <3>2 DEF Tunnel!Clean
  <2> QED
    BY <1>0, <1>2, <2>1 DEF Tunnel!Clean
<1>3. ASSUME NEW c \in Cli, Tunnel!PrepareFails(c) \/ Tunnel!Interrupt(c)
      PROVE TunnelTypes'
  <2>1. Tunnel!Return(c)
    BY <1>3 DEF Tunnel!PrepareFails, Tunnel!Interrupt
  <2>2. cli' \in [Cli -> CliRecords] /\ \A d \in Cli : Spawned(cli'[d])
    BY <2>1, ReturnTypes
  <2> QED
    BY <1>0, <1>3, <2>2 DEF Tunnel!PrepareFails, Tunnel!Interrupt
<1>4. ASSUME NEW c \in Cli, NEW mode \in Tunnel!Modes, Tunnel!Prepare(c, mode)
      PROVE TunnelTypes'
  <2>1. PICK dir : dir = IF mode = "managed-local" THEN None
                         ELSE CHOOSE d \in Tunnel!Dirs \ dirs : TRUE
    OBVIOUS
  <2>2. dir \in Tunnel!Dirs \cup {None}
    BY <1>4, <2>1 DEF Tunnel!Prepare
  <2>3. PICK x : x = [cli[c] EXCEPT !.pc = "spawn", !.mode = mode, !.dir = dir]
    OBVIOUS
  <2>4. x \in CliRecords /\ Spawned(x)
    BY <2>2, <2>3 DEF CliRecords, Spawned
  <2>5. /\ cli' = [cli EXCEPT ![c].pc = "spawn", ![c].mode = mode, ![c].dir = dir]
        /\ dirs' = dirs \cup ({dir} \ {None})
    BY <1>4, <2>1 DEF Tunnel!Prepare
  <2>6. cli' = [cli EXCEPT ![c] = x]
    BY <2>3, <2>5
  <2>7. cli' \in [Cli -> CliRecords] /\ \A d \in Cli : Spawned(cli'[d])
    BY <2>4, <2>6, CliTypes
  <2> QED
    BY <1>0, <1>4, <2>2, <2>5, <2>7 DEF Tunnel!Prepare
<1>5. ASSUME NEW c \in Cli, Tunnel!Spawn(c)
      PROVE TunnelTypes'
  <2>1. CASE Tunnel!Goto(c, "fail") /\ UNCHANGED proc
    <3>1. cli' \in [Cli -> CliRecords] /\ \A d \in Cli : Spawned(cli'[d])
      BY <2>1, GotoTypes
    <3> QED
      BY <1>0, <1>5, <2>1, <3>1 DEF Tunnel!Spawn
  <2>2. ASSUME NEW p \in Pids, proc' = [proc EXCEPT ![p] = "starting"],
               cli' = [cli EXCEPT ![c].pc = "wait", ![c].pid = p]
        PROVE TunnelTypes'
    <3>1. PICK x : x = [cli[c] EXCEPT !.pc = "wait", !.pid = p]
      OBVIOUS
    <3>0. cli[c] \in CliRecords
      BY DEF TunnelTypes, Tunnel!TypeOK, CliRecords
    <3>2. x \in CliRecords /\ Spawned(x)
      <4>1. x \in CliRecords /\ x.pid = p
        BY <3>0, <3>1 DEF CliRecords
      <4> QED
        BY <4>1 DEF Spawned
    <3>3. cli' = [cli EXCEPT ![c] = x]
      BY <2>2, <3>1
    <3>4. cli' \in [Cli -> CliRecords] /\ \A d \in Cli : Spawned(cli'[d])
      BY <3>2, <3>3, CliTypes
    <3> QED
      BY <1>0, <1>5, <2>2, <3>4 DEF Tunnel!Spawn
  <2> QED
    BY <1>5, <2>1, <2>2 DEF Tunnel!Spawn
<1>6. ASSUME NEW c \in Cli, Tunnel!Ready(c)
      PROVE TunnelTypes'
  <2>1. cli' \in [Cli -> CliRecords] /\ \A d \in Cli : Spawned(cli'[d])
    <3>1. CASE Tunnel!Goto(c, "record")
      BY <1>6, <3>1, GotoTypes DEF Tunnel!Ready
    <3>2. CASE cli' = [cli EXCEPT ![c].pc = "record", ![c].dir = None]
      <4>1. PICK x : x = [cli[c] EXCEPT !.pc = "record", !.dir = None]
        OBVIOUS
      <4>2. x \in CliRecords /\ Spawned(x)
        BY <1>6, <4>1 DEF CliRecords, Spawned, Tunnel!Ready
      <4>3. cli' = [cli EXCEPT ![c] = x]
        BY <3>2, <4>1
      <4> QED
        BY <4>2, <4>3, CliTypes
    <3> QED
      BY <1>6, <3>1, <3>2 DEF Tunnel!Ready
  <2> QED
    BY <1>0, <1>6, <2>1 DEF Tunnel!Ready
<1>7. ASSUME NEW c \in Cli, Tunnel!NotReady(c)
      PROVE TunnelTypes'
  <2>1. cli' \in [Cli -> CliRecords] /\ \A d \in Cli : Spawned(cli'[d])
    BY <1>7, GotoTypes DEF Tunnel!NotReady
  <2> QED
    BY <1>0, <1>7, <2>1 DEF Tunnel!NotReady
<1>8. ASSUME NEW c \in Cli, Tunnel!Record(c)
      PROVE TunnelTypes'
  <2>1. cli' \in [Cli -> CliRecords] /\ \A d \in Cli : Spawned(cli'[d])
    BY <1>8, GotoTypes, ReturnTypes DEF Tunnel!Record
  <2>2. [pid |-> cli[c].pid, dir |-> cli[c].dir] \in Tunnel!Files
    BY <1>8 DEF Tunnel!Record, Spawned, Tunnel!Files
  <2> QED
    BY <1>0, <1>8, <2>1, <2>2 DEF Tunnel!Record
<1>9. ASSUME NEW c \in Cli, Tunnel!StartFailed(c)
      PROVE TunnelTypes'
  <2>1. cli' \in [Cli -> CliRecords] /\ \A d \in Cli : Spawned(cli'[d])
    BY <1>9, ReturnTypes DEF Tunnel!StartFailed
  <2> QED
    BY <1>0, <1>9, <2>1 DEF Tunnel!StartFailed
<1>10. ASSUME NEW c \in Cli, Tunnel!Sigterm(c) \/ Tunnel!Sigkill(c)
      PROVE TunnelTypes'
  <2>1. cli' \in [Cli -> CliRecords] /\ \A d \in Cli : Spawned(cli'[d])
    BY <1>10, GotoTypes, ReturnTypes DEF Tunnel!Sigterm, Tunnel!Sigkill
  <2>2. proc' \in [Pids -> {"free", "starting", "up", "stopping", "foreign"}]
        /\ hitForeign' \in BOOLEAN
    BY <1>10 DEF Tunnel!Sigterm, Tunnel!Sigkill, Tunnel!Stranger
  <2> QED
    BY <1>0, <1>10, <2>1, <2>2 DEF Tunnel!Sigterm, Tunnel!Sigkill
<1>11. ASSUME NEW p \in Pids, Tunnel!Connected(p) \/ Tunnel!Exited(p) \/ Tunnel!Reused(p)
      PROVE TunnelTypes'
  BY <1>11 DEF Tunnel!Connected, Tunnel!Exited, Tunnel!Reused
<1>12. CASE UNCHANGED tunnel
  BY <1>12 DEF tunnel
<1> QED
  BY <1>1, <1>2, <1>3, <1>4, <1>5, <1>6, <1>7, <1>8, <1>9, <1>10, <1>11, <1>12 DEF Tunnel!Next

LEMMA TunnelTypeHolds == Spec => []Tunnel!TypeOK
<1>1. Tunnel!Init => TunnelTypes
  <2>1. ASSUME Tunnel!Init PROVE TunnelTypes
    <3>1. Tunnel!Idle \in CliRecords /\ Spawned(Tunnel!Idle)
      BY DEF Tunnel!Idle, CliRecords, Spawned, Tunnel!Modes
    <3>2. cli \in [Cli -> CliRecords] /\ \A c \in Cli : Spawned(cli[c])
      BY <2>1, <3>1 DEF Tunnel!Init
    <3>3. starts \in 0 .. MaxStarts
      BY <2>1, ComponentConstants DEF Tunnel!Init, ComponentConstants, Tunnel!TunnelConstants
    <3> QED
      BY <2>1, <3>2, <3>3 DEF Tunnel!Init, TunnelTypes, Tunnel!TypeOK, CliRecords
  <2> QED
    BY <2>1
<1>2. TunnelTypes => Tunnel!TypeOK
  BY DEF TunnelTypes
<1>3. TunnelTypes /\ [Tunnel!Next]_tunnel => TunnelTypes'
  BY TunnelStep
<1> QED
  BY <1>1, <1>2, <1>3, EachAlone, PTL
-----------------------------------------------------------------------------
(***************************************************************************)
(* The daemon command.                                                     *)
(***************************************************************************)

(***************************************************************************)
(* A daemon command that succeeds: where each command may be, what it has  *)
(* made sure of by then, and what the manager can do in between.           *)
(***************************************************************************)
InstallHere == <<"tool", "env", "stop", "write", "load", "state">>
EnvHere == <<"env", "stop", "write", "load", "state">>
StopFirst == <<"stop", "write", "load", "state">>
UnloadedFirst == <<"unloaded", "write", "load", "state">>
InstallThere == <<"tool", "env", "write", "load", "state">>
EnvThere == <<"env", "write", "load", "state">>
Writing == <<"write", "load", "state">>
LoadingIt == <<"load", "state">>
Uninstalling == <<"stop", "unlink", "forgetState", "forgetEnv">>
UnloadedUnlink == <<"unloaded", "unlink", "forgetState", "forgetEnv">>
Unlinking == <<"unlink", "forgetState", "forgetEnv">>
Reloading == <<"reload", "forgetState", "forgetEnv">>
Forgetting == <<"forgetState", "forgetEnv">>
StartOnly == <<"start">>
LoadOnly == <<"load">>
StopOnly == <<"stop">>
UnloadedOnly == <<"unloaded">>
StopAsked == <<"stopIfRunning">>
UpdateAsked == <<"updateTool">>
UnloadedLoad == <<"unloaded", "load">>
StopStart == <<"stop", "start">>
UnloadedStart == <<"unloaded", "start">>
StateOnly == <<"state">>
EnvOnly == <<"forgetEnv">>

\* Two lists of steps, the first step of the one done, and `more` to do before the rest.
Moves(t, step, more, r) == t # <<>> /\ Head(t) = step /\ more \o Tail(t) = r /\ r # <<>>
Finishes(t, step) == t # <<>> /\ Head(t) = step /\ <<>> \o Tail(t) = <<>>

\* A step put before one, two or three others.
LEMMA BeforeOne ==
  ASSUME NEW a
  PROVE  <<"unloaded">> \o <<a>> = <<"unloaded", a>>
<1>1. PICK u : u = <<"unloaded">> \o <<a>>
  OBVIOUS
<1>2. /\ <<"unloaded">> \in Seq({"unloaded", a}) /\ <<a>> \in Seq({"unloaded", a})
      /\ Len(<<"unloaded">>) = 1 /\ Len(<<a>>) = 1
      /\ <<"unloaded">>[1] = "unloaded" /\ <<a>>[1] = a
  OBVIOUS
<1>3. /\ u \in Seq({"unloaded", a}) /\ Len(u) = 2 /\ u[1] = "unloaded" /\ u[2] = a
  BY <1>1, <1>2
<1>4. u = <<"unloaded", a>>
  BY <1>3
<1> QED
  BY <1>1, <1>4

LEMMA BeforeTwo ==
  ASSUME NEW a, NEW b
  PROVE  <<"reload">> \o <<a, b>> = <<"reload", a, b>>
<1>1. PICK u : u = <<"reload">> \o <<a, b>>
  OBVIOUS
<1>2. PICK S : S = {"reload", a, b}
  OBVIOUS
<1>3. /\ <<"reload">> \in Seq(S) /\ <<a, b>> \in Seq(S)
      /\ Len(<<"reload">>) = 1 /\ Len(<<a, b>>) = 2
      /\ <<"reload">>[1] = "reload" /\ <<a, b>>[1] = a /\ <<a, b>>[2] = b
  BY <1>2
<1>4. u \in Seq(S) /\ Len(u) = 3 /\ u[1] = "reload" /\ u[2] = a /\ u[3] = b
  BY <1>1, <1>3
<1>5. u = <<"reload", a, b>>
  BY <1>4
<1> QED
  BY <1>1, <1>5

LEMMA BeforeThree ==
  ASSUME NEW a, NEW b, NEW c
  PROVE  <<"unloaded">> \o <<a, b, c>> = <<"unloaded", a, b, c>>
<1>1. PICK u : u = <<"unloaded">> \o <<a, b, c>>
  OBVIOUS
<1>2. PICK S : S = {"unloaded", a, b, c}
  OBVIOUS
<1>3. /\ <<"unloaded">> \in Seq(S) /\ <<a, b, c>> \in Seq(S)
      /\ Len(<<"unloaded">>) = 1 /\ Len(<<a, b, c>>) = 3
      /\ <<"unloaded">>[1] = "unloaded"
      /\ <<a, b, c>>[1] = a /\ <<a, b, c>>[2] = b /\ <<a, b, c>>[3] = c
  BY <1>2
<1>4. /\ u \in Seq(S) /\ Len(u) = 4 /\ u[1] = "unloaded" /\ u[2] = a /\ u[3] = b /\ u[4] = c
  BY <1>1, <1>3
<1>5. u = <<"unloaded", a, b, c>>
  BY <1>4
<1> QED
  BY <1>1, <1>5

LEMMA InstallPlan ==
  /\ Moves(InstallHere, "tool", <<>>, EnvHere)
  /\ Moves(EnvHere, "env", <<>>, StopFirst)
  /\ Moves(StopFirst, "stop", <<>>, Writing)
  /\ Moves(StopFirst, "stop", <<"unloaded">>, UnloadedFirst)
  /\ Moves(UnloadedFirst, "unloaded", <<>>, Writing)
  /\ Moves(InstallThere, "tool", <<>>, EnvThere)
  /\ Moves(EnvThere, "env", <<>>, Writing)
  /\ Moves(Writing, "write", <<>>, LoadingIt)
  /\ Moves(LoadingIt, "load", <<>>, StateOnly)
  /\ Finishes(StateOnly, "state")
<1>1. Moves(InstallHere, "tool", <<>>, EnvHere)
  BY DEF InstallHere, EnvHere, Moves
<1>2. Moves(EnvHere, "env", <<>>, StopFirst)
  BY DEF EnvHere, StopFirst, Moves
<1>3. Moves(StopFirst, "stop", <<>>, Writing)
  BY DEF StopFirst, Writing, Moves
<1>4. Moves(StopFirst, "stop", <<"unloaded">>, UnloadedFirst)
  BY BeforeThree DEF StopFirst, UnloadedFirst, Moves
<1>5. Moves(UnloadedFirst, "unloaded", <<>>, Writing)
  BY DEF UnloadedFirst, Writing, Moves
<1>6. Moves(InstallThere, "tool", <<>>, EnvThere)
  BY DEF InstallThere, EnvThere, Moves
<1>7. Moves(EnvThere, "env", <<>>, Writing)
  BY DEF EnvThere, Writing, Moves
<1>8. Moves(Writing, "write", <<>>, LoadingIt)
  BY DEF Writing, LoadingIt, Moves
<1>9. Moves(LoadingIt, "load", <<>>, StateOnly)
  BY DEF LoadingIt, Moves, StateOnly
<1>10. Finishes(StateOnly, "state")
  BY DEF Finishes, StateOnly
<1> QED
  BY <1>1, <1>2, <1>3, <1>4, <1>5, <1>6, <1>7, <1>8, <1>9, <1>10

LEMMA UninstallPlan ==
  /\ Moves(Uninstalling, "stop", <<>>, Unlinking)
  /\ Moves(Uninstalling, "stop", <<"unloaded">>, UnloadedUnlink)
  /\ Moves(UnloadedUnlink, "unloaded", <<>>, Unlinking)
  /\ Moves(Unlinking, "unlink", <<>>, Forgetting)
  /\ Moves(Unlinking, "unlink", <<"reload">>, Reloading)
  /\ Moves(Reloading, "reload", <<>>, Forgetting)
  /\ Moves(Forgetting, "forgetState", <<>>, EnvOnly)
  /\ Finishes(EnvOnly, "forgetEnv")
<1>1. Moves(Uninstalling, "stop", <<>>, Unlinking)
  BY DEF Uninstalling, Unlinking, Moves
<1>2. Moves(Uninstalling, "stop", <<"unloaded">>, UnloadedUnlink)
  BY BeforeThree DEF Uninstalling, UnloadedUnlink, Moves
<1>3. Moves(UnloadedUnlink, "unloaded", <<>>, Unlinking)
  BY DEF UnloadedUnlink, Unlinking, Moves
<1>4. Moves(Unlinking, "unlink", <<>>, Forgetting)
  BY DEF Unlinking, Forgetting, Moves
<1>5. Moves(Forgetting, "forgetState", <<>>, EnvOnly)
  BY DEF Forgetting, Moves, EnvOnly
<1>6. Finishes(EnvOnly, "forgetEnv")
  BY DEF Finishes, EnvOnly
<1>7. Moves(Unlinking, "unlink", <<"reload">>, Reloading)
  BY BeforeTwo DEF Unlinking, Reloading, Moves
<1>8. Moves(Reloading, "reload", <<>>, Forgetting)
  BY DEF Reloading, Forgetting, Moves
<1> QED
  BY <1>1, <1>2, <1>3, <1>4, <1>5, <1>6, <1>7, <1>8

LEMMA RunPlan ==
  /\ Finishes(StartOnly, "start")
  /\ Finishes(LoadOnly, "load")
  /\ Finishes(StopOnly, "stop")
  /\ Finishes(UnloadedOnly, "unloaded")
  /\ Finishes(StopAsked, "stopIfRunning")
  /\ Finishes(UpdateAsked, "updateTool")
  /\ Moves(StartOnly, "start", <<"unloaded", "load">>, UnloadedLoad)
  /\ Moves(UnloadedLoad, "unloaded", <<>>, LoadOnly)
  /\ Moves(StopAsked, "stopIfRunning", <<"stop">>, StopOnly)
  /\ Moves(StopOnly, "stop", <<"unloaded">>, UnloadedOnly)
  /\ Moves(UpdateAsked, "updateTool", <<"stop", "start">>, StopStart)
  /\ Moves(StopStart, "stop", <<>>, StartOnly)
  /\ Moves(StopStart, "stop", <<"unloaded">>, UnloadedStart)
  /\ Moves(UnloadedStart, "unloaded", <<>>, StartOnly)
<1>1. Finishes(StartOnly, "start")
  BY DEF Finishes, StartOnly
<1>2. Finishes(LoadOnly, "load")
  BY DEF Finishes, LoadOnly
<1>3. Finishes(StopOnly, "stop")
  BY DEF Finishes, StopOnly
<1>4. Finishes(UnloadedOnly, "unloaded")
  BY DEF Finishes, UnloadedOnly
<1>5. Finishes(StopAsked, "stopIfRunning")
  BY DEF Finishes, StopAsked
<1>6. Finishes(UpdateAsked, "updateTool")
  BY DEF Finishes, UpdateAsked
<1>7. Moves(StartOnly, "start", <<"unloaded", "load">>, UnloadedLoad)
  BY DEF Moves, StartOnly, UnloadedLoad
<1>8. Moves(UnloadedLoad, "unloaded", <<>>, LoadOnly)
  BY DEF Moves, LoadOnly, UnloadedLoad
<1>9. Moves(StopAsked, "stopIfRunning", <<"stop">>, StopOnly)
  BY DEF Moves, StopOnly, StopAsked
<1>10. Moves(StopOnly, "stop", <<"unloaded">>, UnloadedOnly)
  BY DEF Moves, StopOnly, UnloadedOnly
<1>11. Moves(UpdateAsked, "updateTool", <<"stop", "start">>, StopStart)
  BY DEF Moves, UpdateAsked, StopStart
<1>12. Moves(StopStart, "stop", <<>>, StartOnly)
  BY DEF Moves, StartOnly, StopStart
<1>13. Moves(StopStart, "stop", <<"unloaded">>, UnloadedStart)
  BY BeforeOne DEF Moves, StopStart, UnloadedStart
<1>14. Moves(UnloadedStart, "unloaded", <<>>, StartOnly)
  BY DEF Moves, StartOnly, UnloadedStart
<1> QED
  BY <1>1, <1>2, <1>3, <1>4, <1>5, <1>6, <1>7, <1>8, <1>9, <1>10, <1>11, <1>12, <1>13, <1>14

Down == serving = None /\ ~crashed

\* The manager has the agent that it unloads; what it does not have, or what is not
\* installed, does not run and is not restarted, and what may be started finds its
\* file, but for the failures that nobody noticed.
Life ==
  /\ {unit, loaded, serving} \subseteq Configs \cup {None}
  /\ leaving => platform = "launchd" /\ loaded # None
  /\ platform = "launchd" /\ loaded = None => Down
  /\ platform # "launchd" /\ unit = None => Down \/ "stop" \in ignored
  /\ ignored \subseteq {"stop", "unlink"} /\ (platform = "launchd" => ignored = {})
  /\ unit # None => env \/ "unlink" \in ignored
  /\ platform = "launchd" /\ loaded # None => env
  /\ platform # "launchd" => Down \/ env \/ ignored # {}

\* What an uninstall has made sure of before it deletes the files, and an install
\* after it has loaded the service.
Stopped == IF platform = "launchd" THEN loaded = None ELSE Down \/ "stop" \in ignored
Removed == unit = None \/ "unlink" \in ignored
AtAddress == platform = "launchd" => loaded = cmd.cfg /\ (serving = cmd.cfg \/ crashed)

Runs == cmd.op \in {"start", "update"}
OnCourse ==
  \/ cmd.todo = <<>>
  \/ /\ cmd.op = "install"
     /\ \/ platform = "launchd" /\ cmd.todo \in {InstallHere, EnvHere}
        \/ platform = "launchd" /\ cmd.todo \in {StopFirst, UnloadedFirst} /\ env
        \/ platform # "launchd" /\ cmd.todo \in {InstallThere, EnvThere}
        \/ cmd.todo = Writing /\ ~leaving /\ env
        \/ cmd.todo = LoadingIt /\ ~leaving /\ unit = cmd.cfg
        \/ cmd.todo = StateOnly /\ ~leaving /\ (serving # None \/ crashed) /\ AtAddress
  \/ Runs /\ cmd.todo = StartOnly
  \/ Runs /\ cmd.todo = UnloadedLoad /\ unit # None
  \/ Runs /\ cmd.todo = LoadOnly /\ unit # None /\ ~leaving
  \/ cmd.op = "stop" /\ cmd.todo \in {StopAsked, StopOnly}
  \/ cmd.op = "stop" /\ cmd.todo = UnloadedOnly /\ platform = "launchd"
  \/ cmd.op = "update" /\ cmd.todo \in {UpdateAsked, StopStart, UnloadedStart}
  \/ cmd.op = "uninstall" /\ cmd.todo = Uninstalling
  \/ cmd.op = "uninstall" /\ cmd.todo = UnloadedUnlink /\ platform = "launchd"
  \/ cmd.op = "uninstall" /\ cmd.todo = Unlinking /\ Stopped
  \/ cmd.op = "uninstall" /\ cmd.todo = Reloading /\ Stopped /\ Removed /\ platform # "launchd"
  \/ cmd.op = "uninstall" /\ cmd.todo \in {Forgetting, EnvOnly} /\ Stopped /\ Removed

\* Each command is where it may be, and has made sure of what it needs by then.
Course ==
  /\ DOMAIN cmd = {"op", "cfg", "todo"} /\ cmd.cfg \in Configs
  /\ Life /\ OnCourse

AsAsked == Daemon!EndsAsAskedStep

LEMMA ConfigsThere == Configs # {} /\ None \notin Configs
BY ComponentConstants DEF ComponentConstants, Daemon!DaemonConstants

LEMMA ProceedMoves ==
  ASSUME DOMAIN cmd = {"op", "cfg", "todo"}, NEW more, Daemon!Proceed(more)
  PROVE  /\ DOMAIN cmd' = {"op", "cfg", "todo"} /\ cmd'.op = cmd.op /\ cmd'.cfg = cmd.cfg
         /\ cmd'.todo = more \o Tail(cmd.todo)
BY DEF Daemon!Proceed

\* A command that ends otherwise says so.
LEMMA GivesUp ==
  ASSUME Course, cmd' = [cmd EXCEPT !.todo = <<>>], outcome' # "ok", Life'
  PROVE  Course' /\ AsAsked
<1>1. DOMAIN cmd' = {"op", "cfg", "todo"} /\ cmd'.cfg = cmd.cfg /\ cmd'.todo = <<>>
  BY DEF Course
<1> QED
  BY <1>1 DEF Course, OnCourse, AsAsked, Daemon!EndsAsAskedStep, Daemon!Succeeds

\* Of a step that is not the last, nothing is asked.
LEMMA GoesOn ==
  ASSUME cmd'.todo # <<>> \/ cmd.todo = <<>>
  PROVE  AsAsked
BY DEF AsAsked, Daemon!EndsAsAskedStep, Daemon!Succeeds, Daemon!Idle

LEMMA Joined ==
  ASSUME NEW S, NEW s \in Seq(S), NEW t \in Seq(S)
  PROVE  /\ s \o t \in Seq(S) /\ Len(s \o t) = Len(s) + Len(t)
         /\ \A i \in 1 .. Len(s) : (s \o t)[i] = s[i]
         /\ \A i \in 1 .. Len(t) : (s \o t)[Len(s) + i] = t[i]
OBVIOUS

LEMMA InstallIs ==
  /\ platform = "launchd" => Daemon!Install = InstallHere
  /\ platform # "launchd" => Daemon!Install = InstallThere
<1> DEFINE S == {"tool", "env", "stop", "write", "load", "state"}
           begin == <<"tool", "env">>
<1>1. /\ begin \in Seq(S) /\ Len(begin) = 2 /\ begin[1] = "tool" /\ begin[2] = "env"
      /\ Writing \in Seq(S) /\ Len(Writing) = 3
      /\ Writing[1] = "write" /\ Writing[2] = "load" /\ Writing[3] = "state"
  BY DEF Writing
<1>2. /\ <<"stop">> \in Seq(S) /\ Len(<<"stop">>) = 1 /\ <<"stop">>[1] = "stop"
  OBVIOUS
<1>3. ASSUME platform = "launchd"
      PROVE  Daemon!Install = InstallHere
  <2>1. PICK b : b = begin
    OBVIOUS
  <2>2. PICK mid : mid = b \o <<"stop">>
    OBVIOUS
  <2>3. /\ mid \in Seq(S) /\ Len(mid) = 3 /\ mid[1] = "tool" /\ mid[2] = "env"
        /\ mid[3] = "stop"
    <3>1. /\ mid \in Seq(S) /\ Len(mid) = 2 + 1
          /\ mid[1] = b[1] /\ mid[2] = b[2] /\ mid[2 + 1] = <<"stop">>[1]
      <4> HIDE DEF S, begin
      <4> QED
        BY <1>1, <1>2, <2>1, <2>2, Joined
    <3> QED
      BY <1>1, <1>2, <2>1, <3>1
  <2>4. PICK w : w = Writing
    OBVIOUS
  <2>5. PICK u : u = mid \o w
    OBVIOUS
  <2>6. /\ u \in Seq(S) /\ Len(u) = 6 /\ u[1] = "tool" /\ u[2] = "env" /\ u[3] = "stop"
        /\ u[4] = "write" /\ u[5] = "load" /\ u[6] = "state"
    <3>1. /\ u \in Seq(S) /\ Len(u) = Len(mid) + Len(w)
          /\ \A i \in 1 .. Len(mid) : u[i] = mid[i]
          /\ \A i \in 1 .. Len(w) : u[Len(mid) + i] = w[i]
      <4> HIDE DEF S, begin
      <4> QED
        <5>1. mid \in Seq(S) /\ w \in Seq(S)
          BY <1>1, <2>3, <2>4
        <5>2. /\ mid \o w \in Seq(S) /\ Len(mid \o w) = Len(mid) + Len(w)
              /\ \A i \in 1 .. Len(mid) : (mid \o w)[i] = mid[i]
              /\ \A i \in 1 .. Len(w) : (mid \o w)[Len(mid) + i] = w[i]
          BY <5>1, Joined
        <5> QED
          BY <2>5, <5>2
    <3>2. Len(w) = 3 /\ w[1] = "write" /\ w[2] = "load" /\ w[3] = "state"
      BY <1>1, <2>4
    <3> QED
      BY <2>3, <3>1, <3>2
  <2>7. u = InstallHere
    BY <2>6 DEF InstallHere
  <2>8. Daemon!Install = u
    BY <1>3, <2>1, <2>2, <2>4, <2>5 DEF Daemon!Install, Writing
  <2> QED
    BY <2>7, <2>8
<1>4. ASSUME platform # "launchd"
      PROVE  Daemon!Install = InstallThere
  <2>1. PICK b : b = begin
    OBVIOUS
  <2>4. PICK w : w = Writing
    OBVIOUS
  <2>5. PICK u : u = b \o w
    OBVIOUS
  <2>6. /\ u \in Seq(S) /\ Len(u) = 5 /\ u[1] = "tool" /\ u[2] = "env"
        /\ u[3] = "write" /\ u[4] = "load" /\ u[5] = "state"
    <3>1. /\ u \in Seq(S) /\ Len(u) = Len(b) + Len(w)
          /\ \A i \in 1 .. Len(b) : u[i] = b[i]
          /\ \A i \in 1 .. Len(w) : u[Len(b) + i] = w[i]
      <4> HIDE DEF S, begin
      <4> QED
        BY <1>1, <2>1, <2>4, <2>5, Joined
    <3>2. Len(w) = 3 /\ w[1] = "write" /\ w[2] = "load" /\ w[3] = "state"
      BY <1>1, <2>4
    <3>3. Len(b) = 2 /\ b[1] = "tool" /\ b[2] = "env"
      BY <1>1, <2>1
    <3> QED
      BY <3>1, <3>2, <3>3
  <2>7. u = InstallThere
    BY <2>6 DEF InstallThere
  <2>8. b \o <<>> = b
    BY <1>1, <2>1
  <2>9. Daemon!Install = u
    BY <1>4, <2>1, <2>4, <2>5, <2>8 DEF Daemon!Install, Writing
  <2> QED
    BY <2>7, <2>9
<1> QED
  BY <1>3, <1>4

LEMMA CommandCourse ==
  ASSUME Course, NEW op \in Daemon!Ops, NEW cfg \in Configs, Daemon!Command(op, cfg)
  PROVE  Course' /\ AsAsked
<1>1. /\ cmd' = [op |-> op, cfg |-> cfg, todo |-> Daemon!Program(op)] /\ cmd.todo = <<>>
      /\ UNCHANGED <<platform, unit, loaded, leaving, serving, crashed, env, ignored>>
  BY DEF Daemon!Command, Daemon!managerVars, Daemon!Idle
<1>2. DOMAIN cmd' = {"op", "cfg", "todo"} /\ cmd'.op = op /\ cmd'.cfg = cfg
      /\ cmd'.todo = Daemon!Program(op)
  BY <1>1
<1>3. Life' /\ AsAsked
  BY <1>1, GoesOn DEF Course, Life, Down
<1>4. CASE op = "install"
  <2>1. /\ platform = "launchd" => Daemon!Program(op) = InstallHere
        /\ platform # "launchd" => Daemon!Program(op) = InstallThere
    BY <1>4, InstallIs DEF Daemon!Program
  <2> QED
    BY <1>1, <1>2, <1>3, <1>4, <2>1 DEF Course, OnCourse
<1>5. CASE op = "uninstall"
  <2>1. Daemon!Program(op) = Uninstalling
    BY <1>5 DEF Daemon!Program, Daemon!Uninstall, Uninstalling
  <2> QED
    BY <1>2, <1>3, <1>5, <2>1 DEF Course, OnCourse
<1>6. CASE op = "start"
  <2>1. Daemon!Program(op) = StartOnly
    BY <1>6 DEF Daemon!Program, StartOnly
  <2> QED
    BY <1>2, <1>3, <1>6, <2>1 DEF Course, OnCourse, Runs
<1>7. CASE op = "stop"
  <2>1. Daemon!Program(op) = StopAsked
    BY <1>7 DEF Daemon!Program, StopAsked
  <2> QED
    BY <1>2, <1>3, <1>7, <2>1 DEF Course, OnCourse
<1>8. CASE op = "update"
  <2>1. Daemon!Program(op) = UpdateAsked
    BY <1>8 DEF Daemon!Program, UpdateAsked
  <2> QED
    BY <1>2, <1>3, <1>8, <2>1 DEF Course, OnCourse
<1> QED
  BY <1>4, <1>5, <1>6, <1>7, <1>8 DEF Daemon!Ops

\* Where a command is, by the step it is at.
LEMMA Places ==
  ASSUME Course, cmd.todo # <<>>
  PROVE  LET t == cmd.todo
             h == Head(cmd.todo)
         IN
    /\ h = "tool" => cmd.op = "install" /\ \/ platform = "launchd" /\ t = InstallHere
                                           \/ platform # "launchd" /\ t = InstallThere
    /\ h = "env" => cmd.op = "install" /\ \/ platform = "launchd" /\ t = EnvHere
                                          \/ platform # "launchd" /\ t = EnvThere
    /\ h = "stop" => \/ cmd.op = "install" /\ platform = "launchd" /\ t = StopFirst /\ env
                     \/ cmd.op = "stop" /\ t = StopOnly
                     \/ cmd.op = "update" /\ t = StopStart
                     \/ cmd.op = "uninstall" /\ t = Uninstalling
    /\ h = "unloaded" => \/ cmd.op = "install" /\ platform = "launchd" /\ t = UnloadedFirst /\ env
                         \/ Runs /\ t = UnloadedLoad /\ unit # None
                         \/ cmd.op = "stop" /\ platform = "launchd" /\ t = UnloadedOnly
                         \/ cmd.op = "update" /\ t = UnloadedStart
                         \/ cmd.op = "uninstall" /\ platform = "launchd" /\ t = UnloadedUnlink
    /\ h = "write" => cmd.op = "install" /\ t = Writing /\ ~leaving /\ env
    /\ h = "load" => \/ cmd.op = "install" /\ t = LoadingIt /\ ~leaving /\ unit = cmd.cfg
                     \/ Runs /\ t = LoadOnly /\ ~leaving /\ unit # None
    /\ h = "state" => /\ cmd.op = "install" /\ t = StateOnly /\ ~leaving /\ AtAddress
                      /\ serving # None \/ crashed
    /\ h = "start" => Runs /\ t = StartOnly
    /\ h = "stopIfRunning" => cmd.op = "stop" /\ t = StopAsked
    /\ h = "updateTool" => cmd.op = "update" /\ t = UpdateAsked
    /\ h = "unlink" => cmd.op = "uninstall" /\ t = Unlinking /\ Stopped
    /\ h = "reload" => /\ cmd.op = "uninstall" /\ t = Reloading /\ Stopped /\ Removed
                       /\ platform # "launchd"
    /\ h = "forgetState" => cmd.op = "uninstall" /\ t = Forgetting /\ Stopped /\ Removed
    /\ h = "forgetEnv" => cmd.op = "uninstall" /\ t = EnvOnly /\ Stopped /\ Removed
<1>1. /\ Head(InstallHere) = "tool" /\ Head(EnvHere) = "env" /\ Head(StopFirst) = "stop"
      /\ Head(UnloadedFirst) = "unloaded" /\ Head(InstallThere) = "tool" /\ Head(EnvThere) = "env"
      /\ Head(Writing) = "write" /\ Head(LoadingIt) = "load" /\ Head(StateOnly) = "state"
  BY InstallPlan DEF Moves, Finishes
<1>2. /\ Head(Uninstalling) = "stop" /\ Head(UnloadedUnlink) = "unloaded"
      /\ Head(Unlinking) = "unlink" /\ Head(Forgetting) = "forgetState"
      /\ Head(EnvOnly) = "forgetEnv" /\ Head(Reloading) = "reload"
  BY UninstallPlan DEF Moves, Finishes
<1>3. /\ Head(StartOnly) = "start" /\ Head(UnloadedLoad) = "unloaded" /\ Head(LoadOnly) = "load"
      /\ Head(StopAsked) = "stopIfRunning" /\ Head(StopOnly) = "stop"
      /\ Head(UnloadedOnly) = "unloaded" /\ Head(UpdateAsked) = "updateTool"
      /\ Head(StopStart) = "stop" /\ Head(UnloadedStart) = "unloaded"
  BY RunPlan DEF Moves, Finishes
<1> QED
  BY <1>1, <1>2, <1>3 DEF Course, OnCourse


\* The command goes on with the steps r.
Steers(r) ==
  DOMAIN cmd' = {"op", "cfg", "todo"} /\ cmd'.op = cmd.op /\ cmd'.cfg = cmd.cfg /\ cmd'.todo = r

LEMMA Turned ==
  ASSUME Course, NEW step, NEW more, NEW r,
         Moves(cmd.todo, step, more, r), Daemon!Proceed(more)
  PROVE  Steers(r) /\ AsAsked
<1>1. Steers(r) /\ r # <<>>
  BY ProceedMoves DEF Course, Moves, Steers
<1> QED
  BY <1>1, GoesOn DEF Steers

LEMMA Finished ==
  ASSUME Course, NEW step, Finishes(cmd.todo, step), Daemon!Proceed(<<>>), Life'
  PROVE  Steers(<<>>) /\ Course'
<1>1. Steers(<<>>)
  BY ProceedMoves DEF Course, Finishes, Steers
<1> QED
  BY <1>1 DEF Steers, Course, OnCourse

\* A step that ends a command keeps its promise to that command.
LEMMA PromiseKept ==
  ASSUME Course, Steers(<<>>), NEW op, cmd.op = op,
         op \in {"install", "start"} => (serving' # None \/ crashed') /\ ~leaving',
         op = "update" => Daemon!At("updateTool") \/ (serving' # None /\ ~leaving'),
         op = "install" => (platform = "launchd" => serving' = cmd.cfg \/ crashed'),
         op = "stop" => Daemon!At("stopIfRunning") \/ Down' \/ "stop" \in ignored',
         op = "uninstall" => (Down' \/ "stop" \in ignored') /\ Removed'
  PROVE  AsAsked
BY DEF AsAsked, Daemon!EndsAsAskedStep, Daemon!Succeeds, Down, Removed

LEMMA StaysAlive ==
  ASSUME Course, UNCHANGED <<platform, unit, loaded, leaving, serving, crashed, env, ignored>>
  PROVE  Life' /\ (Down' <=> Down) /\ (Stopped' <=> Stopped) /\ (Removed' <=> Removed)
BY DEF Course, Life, Down, Stopped, Removed

\* An uninstall that has stopped the service has it down, or the failure is known of.
LEMMA StoppedIsDown ==
  ASSUME Life, Stopped
  PROVE  Down \/ "stop" \in ignored
BY DEF Life, Stopped

LEMMA ToolCourse ==
  ASSUME Course, Daemon!InstallTool
  PROVE  Course' /\ AsAsked
<1>1. /\ UNCHANGED <<platform, unit, loaded, leaving, serving, crashed, env, ignored>>
      /\ cmd.todo # <<>> /\ Head(cmd.todo) = "tool" /\ Daemon!Proceed(<<>>)
  BY DEF Daemon!InstallTool, Daemon!managerVars, Daemon!At, Daemon!Idle
<1>2. Life'
  BY <1>1, StaysAlive
<1>3. CASE platform = "launchd" /\ cmd.todo = InstallHere
  <2>1. Steers(EnvHere) /\ AsAsked
    BY <1>1, <1>3, InstallPlan, Turned
  <2>2. cmd.op = "install"
    BY <1>1, Places
  <2> QED
    BY <1>1, <1>2, <1>3, <2>1, <2>2 DEF Course, OnCourse, Steers
<1>4. CASE platform # "launchd" /\ cmd.todo = InstallThere
  <2>1. Steers(EnvThere) /\ AsAsked
    BY <1>1, <1>4, InstallPlan, Turned
  <2>2. cmd.op = "install"
    BY <1>1, Places
  <2> QED
    BY <1>1, <1>2, <1>4, <2>1, <2>2 DEF Course, OnCourse, Steers
<1> QED
  BY <1>1, <1>3, <1>4, Places

\* A step that raises.
LEMMA RaisesCourse ==
  ASSUME Course, Daemon!StepRaises
  PROVE  Course' /\ AsAsked
<1>1. /\ UNCHANGED <<platform, unit, loaded, leaving, serving, crashed, env, ignored>>
      /\ cmd' = [cmd EXCEPT !.todo = <<>>] /\ outcome' # "ok"
  BY DEF Daemon!StepRaises, Daemon!Raise, Daemon!managerVars
<1>2. Life'
  BY <1>1, StaysAlive
<1> QED
  BY <1>1, <1>2, GivesUp

LEMMA FilesCourse ==
  ASSUME Course, Daemon!Files
  PROVE  Course' /\ AsAsked
<1>1. /\ UNCHANGED <<platform, unit, loaded, leaving, serving, crashed, ignored>>
      /\ cmd.todo # <<>> /\ Head(cmd.todo) \in {"env", "state", "forgetState", "forgetEnv"}
      /\ Daemon!Proceed(<<>>)
      /\ IF Head(cmd.todo) = "env" THEN env'
         ELSE Head(cmd.todo) # "forgetEnv" => env' = env
  BY DEF Daemon!Files, Daemon!managerVars, Daemon!At, Daemon!Idle
<1>2. /\ Down' <=> Down
      /\ Stopped' <=> Stopped
      /\ Removed' <=> Removed
  BY <1>1 DEF Down, Stopped, Removed
<1>7. ASSUME Head(cmd.todo) # "forgetEnv"
      PROVE  Life'
  BY <1>1, <1>2, <1>7 DEF Course, Life
<1>3. CASE Head(cmd.todo) = "env"
  <2>1. CASE platform = "launchd" /\ cmd.todo = EnvHere
    <3>1. Steers(StopFirst) /\ AsAsked
      BY <1>1, <2>1, InstallPlan, Turned
    <3>2. cmd.op = "install"
      BY <1>1, <1>3, Places
    <3> QED
      BY <1>1, <1>3, <1>7, <2>1, <3>1, <3>2 DEF Course, OnCourse, Steers
  <2>2. CASE platform # "launchd" /\ cmd.todo = EnvThere
    <3>1. Steers(Writing) /\ AsAsked
      BY <1>1, <2>2, InstallPlan, Turned
    <3>2. cmd.op = "install" /\ ~leaving
      BY <1>1, <1>3, <2>2, Places DEF Course, Life
    <3> QED
      BY <1>1, <1>3, <1>7, <2>2, <3>1, <3>2 DEF Course, OnCourse, Steers
  <2> QED
    BY <1>1, <1>3, <2>1, <2>2, Places
<1>4. CASE Head(cmd.todo) = "state"
  <2>1. /\ cmd.op = "install" /\ cmd.todo = StateOnly /\ ~leaving /\ AtAddress
        /\ serving # None \/ crashed
    BY <1>1, <1>4, Places
  <2>2. Steers(<<>>) /\ Course'
    BY <1>1, <1>4, <1>7, <2>1, InstallPlan, Finished
  <2> QED
    BY <1>1, <2>1, <2>2, PromiseKept DEF AtAddress
<1>5. CASE Head(cmd.todo) = "forgetState"
  <2>1. cmd.op = "uninstall" /\ cmd.todo = Forgetting /\ Stopped /\ Removed
    BY <1>1, <1>5, Places
  <2>2. Steers(EnvOnly) /\ AsAsked
    BY <1>1, <2>1, UninstallPlan, Turned
  <2> QED
    BY <1>1, <1>2, <1>5, <1>7, <2>1, <2>2 DEF Course, OnCourse, Steers
<1>6. CASE Head(cmd.todo) = "forgetEnv"
  <2>1. cmd.op = "uninstall" /\ cmd.todo = EnvOnly /\ Stopped /\ Removed
    BY <1>1, <1>6, Places
  <2>2. Life'
    BY <1>1, <1>2, <2>1 DEF Course, Life, Stopped, Removed
  <2>3. Steers(<<>>) /\ Course'
    BY <1>1, <2>1, <2>2, UninstallPlan, Finished
  <2>4. Down' \/ "stop" \in ignored'
    BY <1>1, <1>2, <2>1, StoppedIsDown DEF Course
  <2> QED
    BY <1>2, <2>1, <2>3, <2>4, PromiseKept
<1> QED
  BY <1>1, <1>3, <1>4, <1>5, <1>6

LEMMA AskingCourse ==
  ASSUME Course, Daemon!UpdateTool \/ Daemon!StopIfRunning
  PROVE  Course' /\ AsAsked
<1>1. /\ UNCHANGED <<platform, unit, loaded, leaving, serving, crashed, env, ignored>> /\ cmd.todo # <<>>
  BY DEF Daemon!UpdateTool, Daemon!StopIfRunning, Daemon!managerVars, Daemon!At, Daemon!Idle
<1>2. Life'
  BY <1>1, StaysAlive
<1>4. CASE Daemon!UpdateTool
  <2>1. cmd.op = "update" /\ cmd.todo = UpdateAsked /\ Daemon!At("updateTool")
    BY <1>1, <1>4, Places DEF Daemon!UpdateTool, Daemon!At
  <2>2. CASE Daemon!Proceed(<<"stop", "start">>)
    <3>1. Steers(StopStart) /\ AsAsked
      BY <2>1, <2>2, RunPlan, Turned
    <3> QED
      BY <1>1, <1>2, <2>1, <3>1 DEF Course, OnCourse, Steers
  <2>3. CASE Daemon!Proceed(<<>>)
    <3>1. Steers(<<>>) /\ Course'
      BY <1>2, <2>1, <2>3, RunPlan, Finished
    <3> QED
      BY <2>1, <3>1, PromiseKept
  <2> QED
    BY <1>4, <2>2, <2>3 DEF Daemon!UpdateTool
<1>5. CASE Daemon!StopIfRunning
  <2>1. cmd.op = "stop" /\ cmd.todo = StopAsked /\ Daemon!At("stopIfRunning")
    BY <1>1, <1>5, Places DEF Daemon!StopIfRunning, Daemon!At
  <2>2. CASE Daemon!Proceed(<<"stop">>)
    <3>1. Steers(StopOnly) /\ AsAsked
      BY <2>1, <2>2, RunPlan, Turned
    <3> QED
      BY <1>1, <1>2, <2>1, <3>1 DEF Course, OnCourse, Steers
  <2>3. CASE Daemon!Proceed(<<>>)
    <3>1. Steers(<<>>) /\ Course'
      BY <1>2, <2>1, <2>3, RunPlan, Finished
    <3> QED
      BY <2>1, <3>1 DEF AsAsked, Daemon!EndsAsAskedStep, Daemon!Succeeds
  <2> QED
    BY <1>5, <2>2, <2>3 DEF Daemon!StopIfRunning
<1> QED
  BY <1>4, <1>5

LEMMA StopHereCourse ==
  ASSUME Course, Daemon!StopLaunchd
  PROVE  Course' /\ AsAsked
<1>1. /\ UNCHANGED <<platform, unit, loaded, serving, crashed, env, ignored>>
      /\ cmd.todo # <<>> /\ Head(cmd.todo) = "stop" /\ platform = "launchd"
  BY DEF Daemon!StopLaunchd, Daemon!At, Daemon!Idle
<1>2. CASE loaded # None /\ leaving /\ Daemon!Raise /\ UNCHANGED leaving
  <2>1. Life'
    BY <1>1, <1>2, StaysAlive
  <2> QED
    BY <1>2, <2>1, GivesUp DEF Daemon!Raise
<1>3. CASE loaded = None /\ Daemon!Proceed(<<>>) /\ UNCHANGED leaving
  <2>1. Life' /\ Down /\ Down' /\ ~leaving /\ ~leaving' /\ Stopped'
    BY <1>1, <1>3, StaysAlive DEF Course, Life, Stopped
  <2>2. CASE cmd.op = "install" /\ cmd.todo = StopFirst
    <3>1. Steers(Writing) /\ AsAsked
      BY <1>3, <2>2, InstallPlan, Turned
    <3>2. env
      BY <1>1, <2>2, Places
    <3> QED
      BY <1>1, <2>1, <2>2, <3>1, <3>2 DEF Course, OnCourse, Steers
  <2>3. CASE cmd.op = "stop" /\ cmd.todo = StopOnly
    <3>1. Steers(<<>>) /\ Course'
      BY <1>3, <2>1, <2>3, RunPlan, Finished
    <3> QED
      BY <2>1, <2>3, <3>1, PromiseKept
  <2>4. CASE cmd.op = "update" /\ cmd.todo = StopStart
    <3>1. Steers(StartOnly) /\ AsAsked
      BY <1>3, <2>4, RunPlan, Turned
    <3> QED
      BY <2>1, <2>4, <3>1 DEF Course, OnCourse, Steers, Runs
  <2>5. CASE cmd.op = "uninstall" /\ cmd.todo = Uninstalling
    <3>1. Steers(Unlinking) /\ AsAsked
      BY <1>3, <2>5, UninstallPlan, Turned
    <3> QED
      BY <2>1, <2>5, <3>1 DEF Course, OnCourse, Steers
  <2> QED
    BY <1>1, <2>2, <2>3, <2>4, <2>5, Places
<1>4. CASE loaded # None /\ ~leaving /\ leaving' = TRUE /\ Daemon!Proceed(<<"unloaded">>)
  <2>1. Life'
    BY <1>1, <1>4 DEF Course, Life, Down
  <2>2. CASE cmd.op = "install" /\ cmd.todo = StopFirst
    <3>1. Steers(UnloadedFirst) /\ AsAsked
      BY <1>4, <2>2, InstallPlan, Turned
    <3>2. env
      BY <1>1, <2>2, Places
    <3> QED
      BY <1>1, <2>1, <2>2, <3>1, <3>2 DEF Course, OnCourse, Steers
  <2>3. CASE cmd.op = "stop" /\ cmd.todo = StopOnly
    <3>1. Steers(UnloadedOnly) /\ AsAsked
      BY <1>4, <2>3, RunPlan, Turned
    <3> QED
      BY <1>1, <2>1, <2>3, <3>1 DEF Course, OnCourse, Steers
  <2>4. CASE cmd.op = "update" /\ cmd.todo = StopStart
    <3>1. Steers(UnloadedStart) /\ AsAsked
      BY <1>4, <2>4, RunPlan, Turned
    <3> QED
      BY <2>1, <2>4, <3>1 DEF Course, OnCourse, Steers
  <2>5. CASE cmd.op = "uninstall" /\ cmd.todo = Uninstalling
    <3>1. Steers(UnloadedUnlink) /\ AsAsked
      BY <1>4, <2>5, UninstallPlan, Turned
    <3> QED
      BY <1>1, <2>1, <2>5, <3>1 DEF Course, OnCourse, Steers
  <2> QED
    BY <1>1, <2>2, <2>3, <2>4, <2>5, Places
<1> QED
  BY <1>2, <1>3, <1>4 DEF Daemon!StopLaunchd

LEMMA UnloadedCourse ==
  ASSUME Course, Daemon!WaitUntilUnloaded
  PROVE  Course' /\ AsAsked
<1>1. /\ UNCHANGED <<platform, unit, loaded, leaving, serving, crashed, env, ignored>>
      /\ cmd.todo # <<>> /\ Head(cmd.todo) = "unloaded"
      /\ \/ loaded = None /\ Daemon!Proceed(<<>>)
         \/ Daemon!Raise
  BY DEF Daemon!WaitUntilUnloaded, Daemon!managerVars, Daemon!At, Daemon!Idle
<1>2. Life' /\ (Down' <=> Down) /\ (Stopped' <=> Stopped)
  BY <1>1, StaysAlive
<1>3. CASE Daemon!Raise
  BY <1>2, <1>3, GivesUp DEF Daemon!Raise
<1>4. CASE loaded = None /\ Daemon!Proceed(<<>>)
  <2>1. ~leaving /\ ~leaving' /\ (platform = "launchd" => Down)
    BY <1>1, <1>4 DEF Course, Life
  <2>7. platform = "launchd" => Stopped
    BY <1>4 DEF Stopped
  <2>2. CASE cmd.op = "install" /\ cmd.todo = UnloadedFirst
    <3>1. Steers(Writing) /\ AsAsked
      BY <1>4, <2>2, InstallPlan, Turned
    <3>2. env
      BY <1>1, <2>2, Places DEF Runs
    <3> QED
      BY <1>1, <1>2, <2>1, <2>2, <3>1, <3>2 DEF Course, OnCourse, Steers
  <2>3. CASE Runs /\ cmd.todo = UnloadedLoad /\ unit # None
    <3>1. Steers(LoadOnly) /\ AsAsked
      BY <1>4, <2>3, RunPlan, Turned
    <3> QED
      BY <1>1, <1>2, <2>1, <2>3, <3>1 DEF Course, OnCourse, Steers, Runs
  <2>4. CASE cmd.op = "stop" /\ platform = "launchd" /\ cmd.todo = UnloadedOnly
    <3>1. Steers(<<>>) /\ Course'
      BY <1>2, <1>4, <2>4, RunPlan, Finished
    <3> QED
      BY <1>2, <2>1, <2>4, <3>1, PromiseKept
  <2>5. CASE cmd.op = "update" /\ cmd.todo = UnloadedStart
    <3>1. Steers(StartOnly) /\ AsAsked
      BY <1>4, <2>5, RunPlan, Turned
    <3> QED
      BY <1>2, <2>5, <3>1 DEF Course, OnCourse, Steers, Runs
  <2>6. CASE cmd.op = "uninstall" /\ platform = "launchd" /\ cmd.todo = UnloadedUnlink
    <3>1. Steers(Unlinking) /\ AsAsked
      BY <1>4, <2>6, UninstallPlan, Turned
    <3> QED
      BY <1>2, <2>1, <2>6, <2>7, <3>1 DEF Course, OnCourse, Steers
  <2> QED
    BY <1>1, <2>2, <2>3, <2>4, <2>5, <2>6, Places
<1> QED
  BY <1>1, <1>3, <1>4


LEMMA StartHereCourse ==
  ASSUME Course, Daemon!StartLaunchd
  PROVE  Course' /\ AsAsked
<1>1. /\ UNCHANGED <<platform, unit, leaving, env, ignored>> /\ platform = "launchd"
      /\ cmd.todo # <<>> /\ Head(cmd.todo) = "start"
  BY DEF Daemon!StartLaunchd, Daemon!At, Daemon!Idle
<1>2. Runs /\ cmd.todo = StartOnly
  BY <1>1, Places
<1>3. CASE unit = None /\ Daemon!Raise /\ UNCHANGED <<loaded, serving, crashed>>
  <2>1. Life'
    BY <1>1, <1>3, StaysAlive
  <2> QED
    BY <1>3, <2>1, GivesUp DEF Daemon!Raise
<1>4. CASE /\ unit # None /\ loaded # None /\ leaving
           /\ Daemon!Proceed(<<"unloaded", "load">>) /\ UNCHANGED <<loaded, serving, crashed>>
  <2>1. Life'
    BY <1>1, <1>4, StaysAlive
  <2>2. Steers(UnloadedLoad) /\ AsAsked
    BY <1>2, <1>4, RunPlan, Turned
  <2> QED
    BY <1>1, <1>2, <1>4, <2>1, <2>2 DEF Course, OnCourse, Steers, Runs
<1>5. ASSUME Life', serving' # None, ~leaving', Daemon!Proceed(<<>>)
      PROVE  Course' /\ AsAsked
  <2>1. Steers(<<>>) /\ Course'
    BY <1>2, <1>5, RunPlan, Finished
  <2> QED
    BY <1>2, <1>5, <2>1, PromiseKept DEF Runs
<1>6. CASE /\ unit # None /\ loaded # None /\ ~leaving /\ serving' = loaded /\ crashed' = FALSE
           /\ Daemon!Proceed(<<>>) /\ UNCHANGED loaded
  <2>1. Life'
    BY <1>1, <1>6 DEF Course, Life, Down
  <2> QED
    BY <1>1, <1>5, <1>6, <2>1
<1>7. CASE unit # None /\ loaded = None /\ Daemon!Bootstrap /\ Daemon!Proceed(<<>>)
  <2>1. Life' /\ serving' # None /\ ~leaving'
    BY <1>1, <1>7 DEF Course, Life, Down, Daemon!Bootstrap
  <2> QED
    BY <1>5, <1>7, <2>1
<1> QED
  BY <1>3, <1>4, <1>6, <1>7 DEF Daemon!StartLaunchd

\* Loading, on every platform.
LEMMA LoadedCourse ==
  ASSUME Course, Daemon!LoadLaunchd \/ Daemon!LoadOther
  PROVE  Course' /\ AsAsked
<1>1. /\ UNCHANGED <<platform, unit, leaving, env, ignored>>
      /\ cmd.todo # <<>> /\ Head(cmd.todo) = "load" /\ loaded' = unit
  BY DEF Daemon!LoadLaunchd, Daemon!LoadOther, Daemon!Bootstrap, Daemon!At, Daemon!Idle
<1>2. unit # None /\ ~leaving
  BY <1>1, ConfigsThere, Places DEF Course
<1>3. CASE Daemon!Raise /\ UNCHANGED <<serving, crashed>> /\ platform # "launchd"
  <2>1. Life'
    BY <1>1, <1>2, <1>3 DEF Course, Life, Down
  <2> QED
    BY <1>3, <2>1, GivesUp DEF Daemon!Raise
<1>4. CASE /\ Daemon!Proceed(<<>>) /\ ~crashed'
           /\ \/ serving' = unit
              \/ serving' = serving /\ serving # None /\ platform # "launchd"
  <2>1. Life' /\ serving' # None /\ ~leaving'
    BY <1>1, <1>2, <1>4 DEF Course, Life, Down
  <2>2. CASE cmd.op = "install" /\ cmd.todo = LoadingIt
    <3>1. Steers(StateOnly) /\ AsAsked
      BY <1>4, <2>2, InstallPlan, Turned
    <3>2. unit = cmd.cfg
      BY <1>1, <2>2, Places DEF Runs
    <3>3. AtAddress'
      BY <1>1, <1>4, <3>1, <3>2 DEF AtAddress, Steers
    <3> QED
      BY <2>1, <2>2, <3>1, <3>3 DEF Course, OnCourse, Steers
  <2>3. CASE Runs /\ cmd.todo = LoadOnly
    <3>1. Steers(<<>>) /\ Course'
      BY <1>4, <2>1, <2>3, RunPlan, Finished
    <3> QED
      BY <2>1, <2>3, <3>1, PromiseKept DEF Runs
  <2> QED
    BY <1>1, <2>2, <2>3, Places
<1>5. CASE Daemon!LoadLaunchd
  <2>1. Daemon!Proceed(<<>>) /\ ~crashed' /\ serving' = unit
    BY <1>5 DEF Daemon!LoadLaunchd, Daemon!Bootstrap
  <2> QED
    BY <1>4, <2>1
<1>6. CASE Daemon!LoadOther
  <2>1. /\ platform # "launchd"
        /\ \/ Daemon!EnsureRunning(unit) /\ Daemon!Proceed(<<>>)
           \/ Daemon!Raise /\ UNCHANGED <<serving, crashed>>
    BY <1>6 DEF Daemon!LoadOther
  <2>2. Daemon!EnsureRunning(unit) => ~crashed' /\ (serving' = unit \/ (serving' = serving /\ serving # None))
    BY DEF Daemon!EnsureRunning
  <2> QED
    BY <1>3, <1>4, <2>1, <2>2
<1> QED
  BY <1>5, <1>6

LEMMA WriteCourse ==
  ASSUME Course, Daemon!WriteUnit
  PROVE  Course' /\ AsAsked
<1>1. /\ UNCHANGED <<platform, leaving, serving, crashed, env, ignored>> /\ Daemon!Proceed(<<>>)
      /\ cmd.todo # <<>> /\ Head(cmd.todo) = "write" /\ unit' = cmd.cfg
      /\ loaded' = IF platform = "windows" THEN cmd.cfg ELSE loaded
  BY DEF Daemon!WriteUnit, Daemon!At, Daemon!Idle
<1>2. cmd.op = "install" /\ cmd.todo = Writing /\ ~leaving /\ env
  BY <1>1, Places
<1>3. Life' /\ unit' # None
  BY <1>1, <1>2, ConfigsThere DEF Course, Life, Down
<1>4. Steers(LoadingIt) /\ AsAsked
  BY <1>1, <1>2, InstallPlan, Turned
<1> QED
  BY <1>1, <1>2, <1>3, <1>4 DEF Course, OnCourse, Steers

LEMMA UnlinkCourse ==
  ASSUME Course, Daemon!UnlinkPlist \/ Daemon!UnlinkSystemd \/ Daemon!DeleteTask
  PROVE  Course' /\ AsAsked
<1>1. /\ UNCHANGED <<platform, leaving, serving, crashed, env>>
      /\ cmd.todo # <<>> /\ Head(cmd.todo) = "unlink" /\ unit' = None
      /\ \/ loaded' = loaded /\ ignored' = ignored
         \/ loaded' = None /\ ignored' = ignored \ {"unlink"} /\ platform # "launchd"
      /\ \/ Daemon!Proceed(<<>>)
         \/ Daemon!Proceed(<<"reload">>) /\ platform # "launchd"
  <2>1. CASE Daemon!UnlinkPlist
    BY <2>1 DEF Daemon!UnlinkPlist, Daemon!At, Daemon!Idle
  <2>2. CASE Daemon!UnlinkSystemd
    BY <2>2 DEF Daemon!UnlinkSystemd, Daemon!At, Daemon!Idle
  <2>3. CASE Daemon!DeleteTask
    BY <2>3 DEF Daemon!DeleteTask, Daemon!At, Daemon!Idle
  <2> QED
    BY <2>1, <2>2, <2>3
<1>2. cmd.op = "uninstall" /\ cmd.todo = Unlinking /\ Stopped
  BY <1>1, Places
<1>3. Stopped' /\ Removed'
  BY <1>1, <1>2 DEF Stopped, Removed, Down
<1>4. Life'
  <2>1. platform # "launchd" => Down' \/ "stop" \in ignored'
    BY <1>1, <1>2 DEF Stopped, Down
  <2>2. ignored' \subseteq {"stop", "unlink"} /\ (platform = "launchd" => ignored' = {})
    BY <1>1 DEF Course, Life
  <2>3. /\ {unit', loaded', serving'} \subseteq Configs \cup {None}
        /\ leaving' => platform = "launchd" /\ loaded' # None
        /\ platform = "launchd" /\ loaded' = None => Down'
        /\ platform = "launchd" /\ loaded' # None => env'
    BY <1>1 DEF Course, Life, Down
  <2>4. platform # "launchd" => Down' \/ env' \/ ignored' # {}
    BY <2>1
  <2> QED
    BY <1>1, <2>1, <2>2, <2>3, <2>4 DEF Life
<1>5. CASE Daemon!Proceed(<<>>)
  <2>1. Steers(Forgetting) /\ AsAsked
    BY <1>2, <1>5, UninstallPlan, Turned
  <2> QED
    BY <1>2, <1>3, <1>4, <2>1 DEF Course, OnCourse, Steers
<1>6. CASE Daemon!Proceed(<<"reload">>) /\ platform # "launchd"
  <2>1. Steers(Reloading) /\ AsAsked
    BY <1>2, <1>6, UninstallPlan, Turned
  <2> QED
    BY <1>1, <1>2, <1>3, <1>4, <1>6, <2>1 DEF Course, OnCourse, Steers
<1> QED
  BY <1>1, <1>5, <1>6

LEMMA ReloadCourse ==
  ASSUME Course, Daemon!ReloadSystemd
  PROVE  Course' /\ AsAsked
<1>1. /\ UNCHANGED <<platform, unit, leaving, serving, crashed, env, ignored>>
      /\ cmd.todo # <<>> /\ Head(cmd.todo) = "reload" /\ loaded' = unit
      /\ Daemon!Proceed(<<>>)
  BY DEF Daemon!ReloadSystemd, Daemon!At, Daemon!Idle
<1>2. /\ cmd.op = "uninstall" /\ cmd.todo = Reloading /\ Stopped /\ Removed
      /\ platform # "launchd"
  BY <1>1, Places
<1>3. Life' /\ Stopped' /\ Removed'
  BY <1>1, <1>2 DEF Course, Life, Down, Stopped, Removed
<1>4. Steers(Forgetting) /\ AsAsked
  BY <1>1, <1>2, UninstallPlan, Turned
<1> QED
  BY <1>2, <1>3, <1>4 DEF Course, OnCourse, Steers

LEMMA StartThereCourse ==
  ASSUME Course, Daemon!StartOther
  PROVE  Course' /\ AsAsked
<1>1. /\ UNCHANGED <<platform, unit, leaving, env, ignored>> /\ platform # "launchd"
      /\ cmd.todo # <<>> /\ Head(cmd.todo) = "start"
      /\ loaded' = IF loaded = None THEN unit ELSE loaded
  BY DEF Daemon!StartOther, Daemon!At, Daemon!Idle
<1>2. Runs /\ cmd.todo = StartOnly /\ ~leaving'
  BY <1>1, Places DEF Course, Life
<1>3. CASE unit = None /\ Daemon!Raise /\ UNCHANGED <<serving, crashed>>
  <2>1. Life'
    BY <1>1, <1>3 DEF Course, Life, Down
  <2> QED
    BY <1>3, <2>1, GivesUp DEF Daemon!Raise
<1>4. CASE unit # None /\ Daemon!EnsureRunning(loaded') /\ Daemon!Proceed(<<>>)
  <2>1. Life' /\ serving' # None
    BY <1>1, <1>4 DEF Course, Life, Down, Daemon!EnsureRunning
  <2>2. Steers(<<>>) /\ Course'
    BY <1>2, <1>4, <2>1, RunPlan, Finished
  <2> QED
    BY <1>2, <2>1, <2>2, PromiseKept DEF Runs
<1> QED
  BY <1>3, <1>4 DEF Daemon!StartOther

\* Off launchd the service is stopped at once, or it is not and nobody notices.
LEMMA StopThereCourse ==
  ASSUME Course, \/ Daemon!StopOther
                 \/ Daemon!FailureIgnored /\ Daemon!At("stop")
  PROVE  Course' /\ AsAsked
<1>1. /\ UNCHANGED <<platform, unit, loaded, leaving, env>> /\ platform # "launchd"
      /\ cmd.todo # <<>> /\ Head(cmd.todo) = "stop" /\ Daemon!Proceed(<<>>)
      /\ \/ unit = None /\ UNCHANGED <<serving, crashed, ignored>>
         \/ unit # None /\ serving' = None /\ crashed' = FALSE /\ ignored' = ignored \ {"stop"}
         \/ UNCHANGED <<serving, crashed>> /\ ignored' = ignored \cup {"stop"}
  <2>1. CASE Daemon!StopOther
    BY <2>1 DEF Daemon!StopOther, Daemon!At, Daemon!Idle
  <2>2. CASE Daemon!FailureIgnored /\ Daemon!At("stop")
    BY <2>2 DEF Daemon!FailureIgnored, Daemon!Unchecked, Daemon!At, Daemon!Idle,
                Daemon!managerVars
  <2> QED
    BY <2>1, <2>2
<1>2. Down' \/ "stop" \in ignored'
  BY <1>1 DEF Course, Life, Down
<1>3. Stopped'
  BY <1>1, <1>2 DEF Stopped
<1>4. Life'
  BY <1>1, <1>2 DEF Course, Life, Down
<1>5. CASE cmd.op = "stop" /\ cmd.todo = StopOnly
  <2>1. Steers(<<>>) /\ Course'
    BY <1>1, <1>4, <1>5, RunPlan, Finished
  <2> QED
    BY <1>2, <1>5, <2>1, PromiseKept
<1>6. CASE cmd.op = "update" /\ cmd.todo = StopStart
  <2>1. Steers(StartOnly) /\ AsAsked
    BY <1>1, <1>6, RunPlan, Turned
  <2> QED
    BY <1>4, <1>6, <2>1 DEF Course, OnCourse, Steers, Runs
<1>7. CASE cmd.op = "uninstall" /\ cmd.todo = Uninstalling
  <2>1. Steers(Unlinking) /\ AsAsked
    BY <1>1, <1>7, UninstallPlan, Turned
  <2> QED
    BY <1>3, <1>4, <1>7, <2>1 DEF Course, OnCourse, Steers
<1> QED
  BY <1>1, <1>5, <1>6, <1>7, Places

\* A task that cannot be deleted stays, and uninstall goes on.
LEMMA KeptTaskCourse ==
  ASSUME Course, Daemon!FailureIgnored, ~Daemon!At("stop")
  PROVE  Course' /\ AsAsked
<1>1. /\ UNCHANGED <<platform, unit, loaded, leaving, serving, crashed, env>>
      /\ platform = "windows" /\ cmd.todo # <<>> /\ Head(cmd.todo) = "unlink"
      /\ Daemon!Proceed(<<>>) /\ ignored' = ignored \cup {"unlink"}
  BY DEF Daemon!FailureIgnored, Daemon!Unchecked, Daemon!At, Daemon!Idle, Daemon!managerVars
<1>2. cmd.op = "uninstall" /\ cmd.todo = Unlinking /\ Stopped
  BY <1>1, Places
<1>3. Stopped' /\ Removed'
  BY <1>1, <1>2 DEF Stopped, Removed, Down
<1>4. Life'
  BY <1>1 DEF Course, Life, Down
<1>5. Steers(Forgetting) /\ AsAsked
  BY <1>1, <1>2, UninstallPlan, Turned
<1> QED
  BY <1>2, <1>3, <1>4, <1>5 DEF Course, OnCourse, Steers

\* The manager's own steps take nothing from a command: launchd lets go only of what it
\* is asked to, and what is down stays down.
LEMMA ManagerCourse ==
  ASSUME Course, \/ Daemon!Unload \/ Daemon!Crash \/ Daemon!Respawn \/ Daemon!Login
                 \/ UNCHANGED daemon
  PROVE  Course' /\ AsAsked
<1>1. cmd' = cmd /\ AsAsked
  BY GoesOn DEF daemon, Daemon!Unload, Daemon!Crash, Daemon!Respawn, Daemon!Login
<1>2. UNCHANGED <<platform, unit, env, ignored>>
  BY DEF daemon, Daemon!Unload, Daemon!Crash, Daemon!Respawn, Daemon!Login
<1>3. CASE Daemon!Unload
  <2>1. Life' /\ leaving /\ ~leaving'
    BY <1>2, <1>3 DEF Course, Life, Down, Daemon!Unload
  <2>2. Stopped' /\ (Removed' <=> Removed) /\ platform = "launchd"
    BY <1>2, <1>3 DEF Course, Life, Stopped, Removed, Daemon!Unload
  <2> QED
    BY <1>1, <1>2, <2>1, <2>2 DEF Course, OnCourse, Runs
<1>4. CASE Daemon!Crash
  <2>1. Life' /\ leaving' = leaving /\ crashed' /\ (AtAddress => AtAddress')
    BY <1>1, <1>2, <1>4 DEF Course, Life, Down, AtAddress, Daemon!Crash
  <2>2. (Stopped => Stopped') /\ (Removed => Removed')
    BY <1>2, <1>4 DEF Course, Life, Down, Stopped, Removed, Daemon!Crash
  <2> QED
    BY <1>1, <1>2, <2>1, <2>2 DEF Course, OnCourse, Runs
<1>5. CASE Daemon!Respawn
  <2>1. Life' /\ leaving' = leaving /\ serving' # None /\ (AtAddress => AtAddress')
    BY <1>1, <1>2, <1>5 DEF Course, Life, Down, AtAddress, Daemon!Respawn
  <2>2. (Stopped => Stopped') /\ (Removed => Removed')
    BY <1>2, <1>5 DEF Course, Life, Down, Stopped, Removed, Daemon!Respawn
  <2> QED
    BY <1>1, <1>2, <2>1, <2>2 DEF Course, OnCourse, Runs
<1>6. CASE Daemon!Login
  <2>1. Life' /\ cmd.todo = <<>>
    BY <1>2, <1>6 DEF Course, Life, Down, Daemon!Login, Daemon!Idle
  <2> QED
    BY <1>1, <2>1 DEF Course, OnCourse
<1>7. CASE UNCHANGED daemon
  <2>1. UNCHANGED <<platform, unit, loaded, leaving, serving, crashed, env, ignored>>
    BY <1>7 DEF daemon
  <2>2. Life' /\ (Stopped' <=> Stopped) /\ (Removed' <=> Removed) /\ (AtAddress' <=> AtAddress)
    BY <1>1, <2>1, StaysAlive DEF AtAddress
  <2> QED
    BY <1>1, <2>1, <2>2 DEF Course, OnCourse, Runs
<1> QED
  BY <1>3, <1>4, <1>5, <1>6, <1>7

LEMMA InterruptCourse ==
  ASSUME Course, Daemon!Interrupt
  PROVE  Course' /\ AsAsked
<1>1. /\ UNCHANGED <<platform, unit, loaded, leaving, serving, crashed, env, ignored>>
      /\ cmd' = [cmd EXCEPT !.todo = <<>>] /\ outcome' # "ok"
  BY DEF Daemon!Interrupt, Daemon!managerVars
<1>2. Life'
  BY <1>1, StaysAlive
<1> QED
  BY <1>1, <1>2, GivesUp

LEMMA CourseStep == Course /\ [Daemon!Next]_daemon => Course' /\ AsAsked
BY CommandCourse, ToolCourse, FilesCourse, AskingCourse, StopHereCourse, UnloadedCourse,
   StartHereCourse, LoadedCourse, WriteCourse, UnlinkCourse, ReloadCourse, StartThereCourse,
   StopThereCourse, KeptTaskCourse, RaisesCourse, ManagerCourse, InterruptCourse
   DEF Daemon!Next

LEMMA CourseHolds == Spec => []Course
<1>1. Daemon!Init => Course
  <2>1. ASSUME Daemon!Init PROVE Course
    <3>1. /\ cmd.todo = <<>> /\ DOMAIN cmd = {"op", "cfg", "todo"} /\ cmd.cfg \in Configs
          /\ unit = None /\ loaded = None /\ serving = None /\ ~leaving /\ ~crashed
          /\ ignored = {}
      BY <2>1, ConfigsThere DEF Daemon!Init
    <3> QED
      BY <3>1 DEF Course, OnCourse, Life, Down
  <2> QED
    BY <2>1
<1> QED
  BY <1>1, CourseStep, EachAlone, PTL

(***************************************************************************)
(* The service always finds the environment file it is started with, where-*)
(* ever a command is cut off or raises, on every platform: install writes  *)
(* the file before the unit, and uninstall deletes it when the service has *)
(* been stopped and is no longer registered.  The exceptions are those of  *)
(* the property: a stop or a removal off launchd that has failed, which    *)
(* uninstall does not notice.                                              *)
(***************************************************************************)
THEOREM EnvironmentPresentHolds == Spec => []EnvironmentPresent
<1>1. Course => EnvironmentPresent
  BY DEF Course, Life, Down, EnvironmentPresent, Daemon!EnvironmentPresent
<1> QED
  BY <1>1, CourseHolds, PTL

(***************************************************************************)
(* A command of the daemon that reports success has done what it says,     *)
(* whatever the service manager did meanwhile and however an earlier one   *)
(* was cut off: after install and start the server runs or has crashed     *)
(* since and is the manager's, on launchd at the address of that install;  *)
(* after update it runs if it ran before; after uninstall and after a stop *)
(* that found it running it does not run and will not be restarted, and    *)
(* after uninstall it is not registered, unless the stop or the removal,   *)
(* or an earlier one that nothing has made good, has failed unnoticed.     *)
(***************************************************************************)
THEOREM EndsAsAskedHolds == Spec => EndsAsAsked
<1>1. AsAsked => (part = "daemon" => Daemon!EndsAsAskedStep)
  BY DEF AsAsked
<1> QED
  BY <1>1, CourseStep, CourseHolds, EachAlone, PTL DEF EndsAsAsked
-----------------------------------------------------------------------------
(***************************************************************************)
(* Types of the daemon: where a command may be says which steps it has.    *)
(***************************************************************************)
LEMMA CourseSteps ==
  ASSUME Course
  PROVE  cmd.todo \in Seq(Daemon!Steps)
<1>1. /\ InstallHere \in Seq(Daemon!Steps) /\ EnvHere \in Seq(Daemon!Steps)
      /\ StopFirst \in Seq(Daemon!Steps) /\ UnloadedFirst \in Seq(Daemon!Steps)
      /\ InstallThere \in Seq(Daemon!Steps) /\ EnvThere \in Seq(Daemon!Steps)
      /\ Writing \in Seq(Daemon!Steps) /\ LoadingIt \in Seq(Daemon!Steps)
      /\ StateOnly \in Seq(Daemon!Steps)
  BY DEF InstallHere, EnvHere, StopFirst, UnloadedFirst, InstallThere, EnvThere, Writing,
         LoadingIt, StateOnly, Daemon!Steps
<1>2. /\ Uninstalling \in Seq(Daemon!Steps) /\ UnloadedUnlink \in Seq(Daemon!Steps)
      /\ Unlinking \in Seq(Daemon!Steps) /\ Forgetting \in Seq(Daemon!Steps)
      /\ EnvOnly \in Seq(Daemon!Steps) /\ Reloading \in Seq(Daemon!Steps)
  BY DEF Uninstalling, UnloadedUnlink, Unlinking, Reloading, Forgetting, EnvOnly, Daemon!Steps
<1>3. /\ StartOnly \in Seq(Daemon!Steps) /\ LoadOnly \in Seq(Daemon!Steps)
      /\ StopOnly \in Seq(Daemon!Steps) /\ UnloadedOnly \in Seq(Daemon!Steps)
      /\ StopAsked \in Seq(Daemon!Steps) /\ UpdateAsked \in Seq(Daemon!Steps)
      /\ UnloadedLoad \in Seq(Daemon!Steps) /\ StopStart \in Seq(Daemon!Steps)
      /\ UnloadedStart \in Seq(Daemon!Steps) /\ <<>> \in Seq(Daemon!Steps)
  BY DEF StartOnly, LoadOnly, StopOnly, UnloadedOnly, StopAsked, UpdateAsked, UnloadedLoad,
         StopStart, UnloadedStart, Daemon!Steps
<1> QED
  BY <1>1, <1>2, <1>3 DEF Course, OnCourse

\* The variables that Course does not speak of.
DaemonRest ==
  /\ platform \in Daemon!Platforms /\ state \in Configs \cup {None}
  /\ env \in BOOLEAN /\ crashed \in BOOLEAN /\ leaving \in BOOLEAN
  /\ cmd.op \in Daemon!Ops /\ outcome \in {"ok", "error", "interrupted"}
  /\ commands \in 0 .. MaxCommands /\ crashes \in 0 .. MaxCrashes

\* A step of a command changes only its list of steps and the outcome.
LEMMA CommandRests ==
  ASSUME Course, DaemonRest,
         \/ \E more : Daemon!Proceed(more)
         \/ Daemon!Raise \/ Daemon!Interrupt
  PROVE  cmd'.op \in Daemon!Ops /\ outcome' \in {"ok", "error", "interrupted"}
<1>1. cmd'.op = cmd.op
  BY DEF Course, Daemon!Proceed, Daemon!Raise, Daemon!Interrupt
<1>2. outcome' \in {"ok", "error", "interrupted"}
  BY DEF DaemonRest, Daemon!Proceed, Daemon!Raise, Daemon!Interrupt
<1> QED
  BY <1>1, <1>2 DEF DaemonRest

LEMMA DaemonRestStep ==
  ASSUME Course, DaemonRest, [Daemon!Next]_daemon
  PROVE  DaemonRest'
<1> USE DEF DaemonRest
<1>1. ASSUME NEW op \in Daemon!Ops, NEW cfg \in Configs, Daemon!Command(op, cfg)
      PROVE  DaemonRest'
  <2>1. commands' \in 0 .. MaxCommands
    BY <1>1, ComponentConstants DEF Daemon!Command, ComponentConstants, Daemon!DaemonConstants
  <2>2. cmd'.op = op
    BY <1>1 DEF Daemon!Command
  <2> QED
    BY <1>1, <2>1, <2>2 DEF Daemon!Command, Daemon!managerVars
<1>2. CASE Daemon!InstallTool \/ Daemon!UpdateTool \/ Daemon!StopIfRunning
           \/ Daemon!WaitUntilUnloaded \/ Daemon!Interrupt
           \/ Daemon!StepRaises \/ Daemon!FailureIgnored
  <2>1. \/ \E more : Daemon!Proceed(more)
        \/ Daemon!Raise \/ Daemon!Interrupt
    BY <1>2 DEF Daemon!InstallTool, Daemon!UpdateTool, Daemon!StopIfRunning,
                Daemon!WaitUntilUnloaded, Daemon!StepRaises, Daemon!FailureIgnored
  <2>2. UNCHANGED <<platform, crashed, leaving, env, state, commands, crashes>>
    BY <1>2 DEF Daemon!InstallTool, Daemon!UpdateTool, Daemon!StopIfRunning,
                Daemon!WaitUntilUnloaded, Daemon!Interrupt, Daemon!StepRaises,
                Daemon!FailureIgnored, Daemon!managerVars
  <2> QED
    BY <2>1, <2>2, CommandRests
<1>3. CASE Daemon!Files
  <2>1. Daemon!Proceed(<<>>)
    BY <1>3 DEF Daemon!Files
  <2>2. UNCHANGED <<platform, crashed, leaving, commands, crashes>>
    BY <1>3 DEF Daemon!Files, Daemon!managerVars
  <2>3. state' \in Configs \cup {None} /\ env' \in BOOLEAN
    BY <1>3 DEF Daemon!Files, Course
  <2> QED
    BY <2>1, <2>2, <2>3, CommandRests
<1>4. CASE Daemon!StopLaunchd
  <2>1. \/ \E more : Daemon!Proceed(more)
        \/ Daemon!Raise
    BY <1>4 DEF Daemon!StopLaunchd
  <2>2. UNCHANGED <<platform, crashed, env, state, commands, crashes>> /\ leaving' \in BOOLEAN
    BY <1>4 DEF Daemon!StopLaunchd
  <2> QED
    BY <2>1, <2>2, CommandRests
<1>5. CASE Daemon!StartLaunchd \/ Daemon!LoadLaunchd
  <2>1. \/ \E more : Daemon!Proceed(more)
        \/ Daemon!Raise
    BY <1>5 DEF Daemon!StartLaunchd, Daemon!LoadLaunchd
  <2>2. UNCHANGED <<platform, leaving, env, state, commands, crashes>> /\ crashed' \in BOOLEAN
    BY <1>5 DEF Daemon!StartLaunchd, Daemon!LoadLaunchd, Daemon!Bootstrap
  <2> QED
    BY <2>1, <2>2, CommandRests
<1>6. CASE Daemon!UnlinkPlist \/ Daemon!WriteUnit \/ Daemon!UnlinkSystemd
           \/ Daemon!ReloadSystemd \/ Daemon!DeleteTask
  <2>1. \E more : Daemon!Proceed(more)
    BY <1>6 DEF Daemon!UnlinkPlist, Daemon!WriteUnit, Daemon!UnlinkSystemd,
                Daemon!ReloadSystemd, Daemon!DeleteTask
  <2>2. UNCHANGED <<platform, leaving, crashed, env, state, commands, crashes>>
    BY <1>6 DEF Daemon!UnlinkPlist, Daemon!WriteUnit, Daemon!UnlinkSystemd,
                Daemon!ReloadSystemd, Daemon!DeleteTask
  <2> QED
    BY <2>1, <2>2, CommandRests
<1>7. CASE Daemon!LoadOther \/ Daemon!StartOther \/ Daemon!StopOther
  <2>1. \/ \E more : Daemon!Proceed(more)
        \/ Daemon!Raise
    BY <1>7 DEF Daemon!LoadOther, Daemon!StartOther, Daemon!StopOther
  <2>2. UNCHANGED <<platform, leaving, env, state, commands, crashes>> /\ crashed' \in BOOLEAN
    BY <1>7 DEF Daemon!LoadOther, Daemon!StartOther, Daemon!StopOther, Daemon!EnsureRunning
  <2> QED
    BY <2>1, <2>2, CommandRests
<1>8. CASE Daemon!Crash
  <2>1. crashes' \in 0 .. MaxCrashes
    BY <1>8, ComponentConstants DEF Daemon!Crash, ComponentConstants, Daemon!DaemonConstants
  <2> QED
    BY <1>8, <2>1 DEF Daemon!Crash
<1>9. CASE Daemon!Unload \/ Daemon!Respawn \/ Daemon!Login \/ UNCHANGED daemon
  BY <1>9 DEF Daemon!Unload, Daemon!Respawn, Daemon!Login, daemon
<1> QED
  BY <1>1, <1>2, <1>3, <1>4, <1>5, <1>6, <1>7, <1>8, <1>9 DEF Daemon!Next

LEMMA DaemonTypeHolds == Spec => []Daemon!TypeOK
<1>1. Daemon!Init => DaemonRest
  <2>1. Daemon!Init => commands \in 0 .. MaxCommands /\ crashes \in 0 .. MaxCrashes
    BY ComponentConstants DEF Daemon!Init, ComponentConstants, Daemon!DaemonConstants
  <2>2. Daemon!Init => cmd.op = "start"
    BY DEF Daemon!Init
  <2> QED
    BY <2>1, <2>2 DEF Daemon!Init, DaemonRest, Daemon!Ops
<1>2. Course /\ DaemonRest /\ [Daemon!Next]_daemon => DaemonRest'
  BY DaemonRestStep
<1>3. Course /\ DaemonRest => Daemon!TypeOK
  BY CourseSteps DEF Course, Life, DaemonRest, Daemon!TypeOK
<1> QED
  BY <1>1, <1>2, <1>3, CourseHolds, EachAlone, PTL
-----------------------------------------------------------------------------
(***************************************************************************)
(* The managed speech model.                                               *)
(***************************************************************************)
JobFields == {"pc", "ext", "backup", "alone"}
Installing(w) == job[w].pc \notin {"idle", "rmtree", "rmpart"}
Removing(w) == job[w].pc \in {"rmtree", "rmpart"}

WholeJob(w) ==
  /\ DOMAIN job[w] = JobFields
  /\ job[w].ext \in {"none", "good", "bad"} /\ job[w].backup \in Models!Models
  /\ job[w].pc \in {"rename", "replace"} => job[w].ext # "none"
Jobs == DOMAIN job = Workers /\ \A w \in Workers : WholeJob(w)

\* What a step of worker w leaves alone.
OnlyJob(w) == DOMAIN job' = Workers /\ \A v \in Workers \ {w} : job'[v] = job[v]
\* Worker w ends, or goes on to pc with what it has.
Gone(w) ==
  /\ DOMAIN job'[w] = JobFields /\ job'[w].pc = "idle" /\ job'[w].ext = "none"
  /\ job'[w].backup = "none" /\ ~job'[w].alone
GoesTo(w, pc) ==
  /\ DOMAIN job'[w] = JobFields /\ job'[w].pc = pc /\ job'[w].ext = job[w].ext
  /\ job'[w].backup = job[w].backup /\ job'[w].alone = job[w].alone

LEMMA NoJobIs ==
  /\ DOMAIN Models!NoJob = JobFields /\ Models!NoJob.pc = "idle" /\ Models!NoJob.ext = "none"
  /\ Models!NoJob.backup = "none" /\ Models!NoJob.alone = FALSE
BY DEF Models!NoJob, JobFields

LEMMA EndMoves ==
  ASSUME Jobs, NEW w \in Workers, job' = [job EXCEPT ![w] = Models!NoJob]
  PROVE  OnlyJob(w) /\ Gone(w)
<1>1. job'[w] = Models!NoJob
  BY DEF Jobs
<1> QED
  BY <1>1, NoJobIs DEF OnlyJob, Gone, Jobs

LEMMA GotoMoves ==
  ASSUME Jobs, NEW w \in Workers, NEW pc, job' = [job EXCEPT ![w].pc = pc]
  PROVE  OnlyJob(w) /\ GoesTo(w, pc)
<1> DEFINE r == [job[w] EXCEPT !.pc = pc]
<1>1. job' = [job EXCEPT ![w] = r]
  OBVIOUS
<1>2. /\ DOMAIN r = JobFields /\ r.pc = pc /\ r.ext = job[w].ext
      /\ r.backup = job[w].backup /\ r.alone = job[w].alone
  BY DEF Jobs, WholeJob, JobFields
<1> HIDE DEF r
<1>3. job'[w] = r
  BY <1>1 DEF Jobs
<1> QED
  BY <1>1, <1>2, <1>3 DEF OnlyJob, GoesTo, Jobs

\* How each step moves its worker.
LEMMA ExtractMoves ==
  ASSUME Jobs, NEW w \in Workers, job' = [job EXCEPT ![w].pc = "rename", ![w].ext = archive]
  PROVE  /\ OnlyJob(w) /\ DOMAIN job'[w] = JobFields /\ job'[w].pc = "rename"
         /\ job'[w].ext = archive /\ job'[w].backup = job[w].backup
         /\ job'[w].alone = job[w].alone
<1> DEFINE r == [job[w] EXCEPT !.pc = "rename", !.ext = archive]
<1>1. job' = [job EXCEPT ![w] = r]
  BY DEF Jobs
<1>2. /\ DOMAIN r = JobFields /\ r.pc = "rename" /\ r.ext = archive
      /\ r.backup = job[w].backup /\ r.alone = job[w].alone
  BY DEF Jobs, WholeJob, JobFields
<1> HIDE DEF r
<1>3. job'[w] = r
  BY <1>1 DEF Jobs
<1> QED
  BY <1>1, <1>2, <1>3 DEF OnlyJob, Jobs

LEMMA RenameMoves ==
  ASSUME Jobs, NEW w \in Workers, job' = [job EXCEPT ![w].pc = "replace", ![w].backup = model]
  PROVE  /\ OnlyJob(w) /\ DOMAIN job'[w] = JobFields /\ job'[w].pc = "replace"
         /\ job'[w].ext = job[w].ext /\ job'[w].backup = model
         /\ job'[w].alone = job[w].alone
<1> DEFINE r == [job[w] EXCEPT !.pc = "replace", !.backup = model]
<1>1. job' = [job EXCEPT ![w] = r]
  BY DEF Jobs
<1>2. /\ DOMAIN r = JobFields /\ r.pc = "replace" /\ r.ext = job[w].ext
      /\ r.backup = model /\ r.alone = job[w].alone
  BY DEF Jobs, WholeJob, JobFields
<1> HIDE DEF r
<1>3. job'[w] = r
  BY <1>1 DEF Jobs
<1> QED
  BY <1>1, <1>2, <1>3 DEF OnlyJob, Jobs

LEMMA InstallMoves ==
  ASSUME Jobs, NEW w \in Workers, NEW force, Models!Install(w, force)
  PROVE  /\ OnlyJob(w) /\ DOMAIN job'[w] = JobFields
         /\ job'[w].pc \in {"activate", "download"}
         /\ job'[w].pc = "activate" => Models!Valid(model)
         /\ job'[w].ext = "none" /\ job'[w].backup = "none"
         /\ job'[w].alone => \A v \in Workers : ~Removing(v)
<1> DEFINE go == IF Models!Valid(model) /\ ~force THEN "activate" ELSE "download"
           apart == \A v \in Workers : job[v].pc \notin {"rmtree", "rmpart"}
           r == [Models!NoJob EXCEPT !.pc = go, !.alone = apart]
<1>1. job' = [job EXCEPT ![w] = r]
  BY DEF Models!Install
<1>2. /\ DOMAIN r = JobFields /\ r.pc = go /\ r.ext = "none"
      /\ r.backup = "none" /\ r.alone = apart
  BY NoJobIs DEF JobFields
<1>3. /\ go \in {"activate", "download"}
      /\ go = "activate" => Models!Valid(model)
      /\ apart => \A v \in Workers : ~Removing(v)
  BY DEF Removing
<1> HIDE DEF r, go, apart
<1>4. job'[w] = r
  BY <1>1 DEF Jobs
<1> QED
  BY <1>1, <1>2, <1>3, <1>4 DEF OnlyJob, Jobs

\* A removal that goes on: no install at work counts any more.
LEMMA RemoveMoves ==
  ASSUME Jobs, NEW w \in Workers, Models!Remove(w),
         link \notin {"custom", "dir"}
  PROVE  /\ DOMAIN job' = Workers
         /\ DOMAIN job'[w] = JobFields /\ job'[w].pc = "rmtree" /\ job'[w].ext = "none"
         /\ job'[w].backup = "none"
         /\ \A v \in Workers \ {w} :
              /\ DOMAIN job'[v] = JobFields /\ job'[v].pc = job[v].pc
              /\ job'[v].ext = job[v].ext /\ job'[v].backup = job[v].backup
         /\ \A v \in Workers : ~job'[v].alone
         /\ ~installed'
<1> DEFINE r == [Models!NoJob EXCEPT !.pc = "rmtree"]
           a(v) == [job[v] EXCEPT !.alone = FALSE]
<1>1. job' = [v \in Workers |-> IF v = w THEN r ELSE a(v)] /\ ~installed'
  BY DEF Models!Remove
<1>2. /\ DOMAIN r = JobFields /\ r.ext = "none" /\ r.backup = "none" /\ r.pc = "rmtree"
      /\ r.alone = FALSE
  BY NoJobIs DEF JobFields
<1>3. ASSUME NEW v \in Workers
      PROVE  /\ DOMAIN a(v) = JobFields /\ a(v).pc = job[v].pc /\ a(v).ext = job[v].ext
             /\ a(v).backup = job[v].backup /\ a(v).alone = FALSE
  BY DEF Jobs, WholeJob, JobFields
<1> HIDE DEF r, a
<1>4. ASSUME NEW v \in Workers PROVE job'[v] = IF v = w THEN r ELSE a(v)
  BY <1>1
<1> QED
  BY <1>1, <1>2, <1>3, <1>4

\* The shape of the jobs is kept.
LEMMA JobsStep ==
  ASSUME Jobs, model \in Models!Models, [Models!Next]_models
  PROVE  Jobs' /\ model' \in Models!Models
<1>1. ASSUME NEW w \in Workers, OnlyJob(w), WholeJob(w)' PROVE Jobs'
  BY <1>1 DEF Jobs, OnlyJob, WholeJob
<1>2. ASSUME NEW w \in Workers, Gone(w) PROVE WholeJob(w)'
  BY <1>2 DEF Gone, WholeJob, Models!Models
<1>3. ASSUME NEW w \in Workers, NEW pc, GoesTo(w, pc),
             pc \notin {"rename", "replace"} PROVE WholeJob(w)'
  BY <1>3 DEF GoesTo, WholeJob, Jobs
<1>4. ASSUME NEW w \in Workers, job' = [job EXCEPT ![w] = Models!NoJob] PROVE Jobs'
  BY <1>1, <1>2, <1>4, EndMoves
<1>5. ASSUME NEW w \in Workers, NEW pc \in {"transfer", "verify", "extract", "activate", "finish",
                                            "rmpart"},
             job' = [job EXCEPT ![w].pc = pc] PROVE Jobs'
  BY <1>1, <1>3, <1>5, GotoMoves
<1>6. CASE Models!AlreadyReady \/ UNCHANGED models
  BY <1>6 DEF Models!AlreadyReady, models, Jobs, WholeJob
<1>7. ASSUME NEW w \in Workers, NEW force \in BOOLEAN, Models!Install(w, force)
      PROVE  Jobs' /\ model' \in Models!Models
  <2>1. WholeJob(w)' /\ OnlyJob(w)
    BY <1>7, InstallMoves DEF WholeJob, Models!Models
  <2> QED
    BY <1>1, <1>7, <2>1 DEF Models!Install
<1>8. ASSUME NEW w \in Workers, Models!Request(w) \/ Models!Transfer(w) \/ Models!Verify(w)
                                  \/ Models!Activate(w) \/ Models!Finish(w)
                                  \/ Models!RemovePart(w)
      PROVE  Jobs' /\ model' \in Models!Models
  <2>1. model' = model
    BY <1>8 DEF Models!Request, Models!Transfer, Models!Verify, Models!Activate,
       Models!Finish, Models!RemovePart
  <2>2. \/ job' = [job EXCEPT ![w] = Models!NoJob]
        \/ \E pc \in {"transfer", "verify", "extract", "activate", "finish", "rmpart"} :
             job' = [job EXCEPT ![w].pc = pc]
    BY <1>8 DEF Models!Request, Models!Transfer, Models!Verify, Models!Activate,
       Models!Finish, Models!RemovePart, Models!Goto, Models!Fail
  <2> QED
    BY <1>4, <1>5, <2>1, <2>2
<1>9. ASSUME NEW w \in Workers, Models!Extract(w)
      PROVE  Jobs' /\ model' \in Models!Models
  <2>1. CASE Models!Fail(w)
    BY <1>4, <1>9, <2>1 DEF Models!Extract, Models!Fail
  <2>2. CASE /\ archive \in {"good", "bad"}
             /\ job' = [job EXCEPT ![w].pc = "rename", ![w].ext = archive]
    <3>1. WholeJob(w)' /\ OnlyJob(w)
      BY <2>2, ExtractMoves DEF WholeJob, Jobs
    <3> QED
      BY <1>1, <1>9, <3>1 DEF Models!Extract
  <2> QED
    BY <1>9, <2>1, <2>2 DEF Models!Extract
<1>10. ASSUME NEW w \in Workers, Models!Rename(w)
       PROVE  Jobs' /\ model' \in Models!Models
  <2>1. CASE Models!Fail(w) /\ model' = model
    BY <1>4, <1>10, <2>1 DEF Models!Rename, Models!Fail
  <2>2. CASE /\ model' = "none"
             /\ job' = [job EXCEPT ![w].pc = "replace", ![w].backup = model]
    <3>1. WholeJob(w)' /\ OnlyJob(w)
      BY <1>10, <2>2, RenameMoves DEF WholeJob, Jobs, Models!Rename
    <3> QED
      BY <1>1, <2>2, <3>1 DEF Models!Models
  <2> QED
    BY <1>10, <2>1, <2>2 DEF Models!Rename
<1>11. ASSUME NEW w \in Workers, Models!Replace(w)
       PROVE  Jobs' /\ model' \in Models!Models
  <2>1. model' \in {job[w].ext, job[w].backup, model}
    BY <1>11 DEF Models!Replace, Models!PutInPlace
  <2>2. model' \in Models!Models
    BY <2>1 DEF Jobs, WholeJob, Models!Models
  <2>3. Jobs'
    BY <1>4, <1>5, <1>11 DEF Models!Replace, Models!Goto, Models!Fail
  <2> QED
    BY <2>2, <2>3
<1>12. ASSUME NEW w \in Workers, Models!Remove(w)
       PROVE  Jobs' /\ model' \in Models!Models
  <2>1. CASE link \in {"custom", "dir"}
    BY <1>12, <2>1 DEF Models!Remove, Jobs, WholeJob
  <2>2. CASE link \notin {"custom", "dir"}
    <3>1. ASSUME NEW v \in Workers PROVE WholeJob(v)'
      BY <1>12, <2>2, RemoveMoves DEF WholeJob, Jobs, Models!Models
    <3> QED
      BY <1>12, <2>2, <3>1, RemoveMoves DEF Jobs, Models!Remove
  <2> QED
    BY <2>1, <2>2
<1>13. ASSUME NEW w \in Workers, Models!RemoveTree(w)
       PROVE  Jobs' /\ model' \in Models!Models
  BY <1>5, <1>13 DEF Models!RemoveTree, Models!Goto, Models!Models
<1>14. ASSUME NEW w \in Workers, Models!Kill(w)
       PROVE  Jobs' /\ model' \in Models!Models
  BY <1>4, <1>14 DEF Models!Kill, Models!Models
<1> QED
  BY <1>6, <1>7, <1>8, <1>9, <1>10, <1>11, <1>12, <1>13, <1>14 DEF Models!Next

(***************************************************************************)
(* While installs do not overlap, what the one at work extracts, has       *)
(* extracted and has put aside comes from right bytes.                     *)
(***************************************************************************)
FromRightBytes(w) ==
  /\ Installing(w) => \A v \in Workers \ {w} : ~Installing(v)
  /\ job[w].pc = "extract" => archive # "bad"
  /\ job[w].pc \in {"rename", "replace"} => job[w].ext # "bad"
  /\ job[w].pc = "replace" => job[w].backup # "bad"
Verified == ~raced => (model # "bad" /\ \A w \in Workers : FromRightBytes(w))

LEMMA MovesVerified ==
  ASSUME Jobs, Verified, NEW w \in Workers, OnlyJob(w), raced => raced',
         ~raced' => /\ model' # "bad"
                    /\ Installing(w)' => \/ Installing(w)
                                         \/ \A v \in Workers \ {w} : job[v].pc = "idle"
                    /\ job'[w].pc = "extract" => archive' # "bad"
                    /\ job'[w].pc \in {"rename", "replace"} => job'[w].ext # "bad"
                    /\ job'[w].pc = "replace" => job'[w].backup # "bad"
                    /\ archive' = "bad" => archive = "bad" \/ Installing(w)
  PROVE  Verified'
<1> SUFFICES ASSUME ~raced' PROVE model' # "bad" /\ \A v \in Workers : FromRightBytes(v)'
  BY DEF Verified
<1>1. /\ ~raced /\ model # "bad"
      /\ \A v \in Workers : FromRightBytes(v)
  BY DEF Verified
<1>2. ASSUME NEW v \in Workers \ {w}
      PROVE  /\ job'[v] = job[v]
             /\ Installing(v)' = Installing(v)
             /\ Installing(v) => ~Installing(w)'
  <2>1. job'[v] = job[v]
    BY DEF OnlyJob
  <2>2. Installing(v) /\ Installing(w) => FALSE
    BY <1>1 DEF FromRightBytes
  <2> QED
    BY <2>1, <2>2 DEF Installing
<1>3. FromRightBytes(w)'
  <2>1. Installing(w)' => \A v \in Workers \ {w} : ~Installing(v)'
    BY <1>2
  <2> QED
    BY <2>1 DEF FromRightBytes
<1>4. ASSUME NEW v \in Workers \ {w} PROVE FromRightBytes(v)'
  <2>1. FromRightBytes(v)
    BY <1>1
  <2>2. ASSUME job[v].pc = "extract" PROVE archive' # "bad"
    <3>1. Installing(v)
      BY <2>2 DEF Installing
    <3>2. ~Installing(w)
      BY <2>1, <3>1 DEF FromRightBytes
    <3> QED
      BY <2>1, <2>2, <3>2 DEF FromRightBytes
  <2>3. Installing(v)' => \A u \in Workers \ {v} : ~Installing(u)'
    <3>1. ASSUME Installing(v), NEW u \in Workers \ {v} PROVE ~Installing(u)'
      <4>1. CASE u = w
        BY <1>2, <3>1, <4>1
      <4>2. CASE u # w
        BY <1>2, <2>1, <3>1, <4>2 DEF FromRightBytes
      <4> QED
        BY <4>1, <4>2
    <3> QED
      BY <1>2, <3>1
  <2> QED
    BY <1>2, <2>1, <2>2, <2>3 DEF FromRightBytes
<1> QED
  BY <1>3, <1>4

LEMMA VerifiedStep ==
  ASSUME Jobs, Verified, [Models!Next]_models
  PROVE  Verified'
<1>1. CASE Models!AlreadyReady \/ UNCHANGED models
  BY <1>1 DEF Models!AlreadyReady, models, Verified, FromRightBytes, Installing
\* A step that moves no bytes, and after which the worker has none to look at.
<1>2. ASSUME NEW w \in Workers, OnlyJob(w), raced' = raced,
             model' \in {model, "none", "half"}, archive' = archive \/ archive' # "bad",
             Gone(w) \/ \E pc \in {"transfer", "verify", "activate", "finish", "rmpart"} :
                          GoesTo(w, pc) /\ (pc # "rmpart" => Installing(w))
      PROVE  Verified'
  <2>1. /\ Installing(w)' => Installing(w)
        /\ job'[w].pc \notin {"extract", "rename", "replace"}
    BY <1>2 DEF Gone, GoesTo, Installing
  <2>2. ~raced' => model' # "bad"
    BY <1>2 DEF Verified
  <2> QED
    BY <1>2, <2>1, <2>2, MovesVerified
<1>3. ASSUME NEW w \in Workers, NEW force \in BOOLEAN, Models!Install(w, force) PROVE Verified'
  <2>1. /\ OnlyJob(w) /\ job'[w].pc \notin {"extract", "rename", "replace"}
        /\ archive' = archive /\ model' = model /\ raced => raced'
        /\ ~raced' => \A v \in Workers \ {w} : job[v].pc = "idle"
    BY <1>3, InstallMoves DEF Models!Install
  <2>2. ~raced' => model' # "bad"
    BY <1>3, <2>1 DEF Verified, Models!Install
  <2> QED
    BY <1>3, <2>1, <2>2, MovesVerified DEF Models!Install
<1>4. ASSUME NEW w \in Workers, Models!Request(w) PROVE Verified'
  <2>1. /\ Installing(w) /\ raced' = raced /\ model' = model
        /\ archive' = archive \/ archive' # "bad"
        /\ \/ job' = [job EXCEPT ![w] = Models!NoJob]
           \/ \E pc \in {"verify", "transfer"} : job' = [job EXCEPT ![w].pc = pc]
    BY <1>4 DEF Models!Request, Models!Fail, Models!Goto, Installing
  <2> QED
    BY <1>2, <2>1, EndMoves, GotoMoves
<1>5. ASSUME NEW w \in Workers, Models!Transfer(w) PROVE Verified'
  <2>1. /\ Installing(w) /\ raced' = raced /\ model' = model
        /\ \/ job' = [job EXCEPT ![w] = Models!NoJob]
           \/ job' = [job EXCEPT ![w].pc = "verify"]
    BY <1>5 DEF Models!Transfer, Models!Fail, Models!Goto, Installing
  <2>2. OnlyJob(w) /\ job'[w].pc \notin {"extract", "rename", "replace"}
    BY <2>1, EndMoves, GotoMoves DEF Gone, GoesTo
  <2>3. ~raced' => model' # "bad"
    BY <2>1 DEF Verified
  <2> QED
    BY <2>1, <2>2, <2>3, MovesVerified
<1>6. ASSUME NEW w \in Workers, Models!Verify(w) PROVE Verified'
  <2>1. CASE archive = "good"
    <3>1. /\ job' = [job EXCEPT ![w].pc = "extract"] /\ archive' = "good" /\ Installing(w)
          /\ raced' = raced /\ model' = model
      BY <1>6, <2>1 DEF Models!Verify, Models!Goto, Installing
    <3>2. OnlyJob(w) /\ job'[w].pc = "extract"
      BY <3>1, GotoMoves DEF GoesTo
    <3>3. ~raced' => model' # "bad"
      BY <3>1 DEF Verified
    <3> QED
      BY <3>1, <3>2, <3>3, MovesVerified
  <2>2. CASE archive # "good"
    BY <1>2, <1>6, <2>2, EndMoves DEF Models!Verify, Models!Fail
  <2> QED
    BY <2>1, <2>2
<1>7. ASSUME NEW w \in Workers, Models!Extract(w) PROVE Verified'
  <2>1. CASE Models!Fail(w)
    BY <1>2, <1>7, <2>1, EndMoves DEF Models!Extract, Models!Fail
  <2>2. CASE job' = [job EXCEPT ![w].pc = "rename", ![w].ext = archive]
    <3>1. /\ OnlyJob(w) /\ job'[w].pc = "rename" /\ job'[w].ext = archive
          /\ raced' = raced /\ model' = model /\ archive' = archive
          /\ job[w].pc = "extract" /\ Installing(w)
      BY <1>7, <2>2, ExtractMoves DEF Models!Extract, Installing
    <3>2. ~raced' => model' # "bad" /\ archive # "bad"
      BY <3>1 DEF Verified, FromRightBytes
    <3> QED
      BY <3>1, <3>2, MovesVerified
  <2> QED
    BY <1>7, <2>1, <2>2 DEF Models!Extract
<1>8. ASSUME NEW w \in Workers, Models!Rename(w) PROVE Verified'
  <2>1. CASE Models!Fail(w) /\ model' = model
    BY <1>2, <1>8, <2>1, EndMoves DEF Models!Rename, Models!Fail
  <2>2. CASE /\ model' = "none"
             /\ job' = [job EXCEPT ![w].pc = "replace", ![w].backup = model]
    <3>1. /\ OnlyJob(w) /\ job'[w].pc = "replace" /\ job'[w].ext = job[w].ext
          /\ job'[w].backup = model /\ raced' = raced /\ archive' = archive
          /\ job[w].pc = "rename" /\ Installing(w)
      BY <1>8, <2>2, RenameMoves DEF Models!Rename, Installing
    <3>2. ~raced' => model # "bad" /\ job[w].ext # "bad"
      BY <3>1 DEF Verified, FromRightBytes
    <3> QED
      BY <2>2, <3>1, <3>2, MovesVerified
  <2> QED
    BY <1>8, <2>1, <2>2 DEF Models!Rename
<1>9. ASSUME NEW w \in Workers, Models!Replace(w) PROVE Verified'
  <2>1. /\ job[w].pc = "replace" /\ Installing(w) /\ raced' = raced /\ archive' = archive
        /\ model' \in {model, job[w].ext, job[w].backup}
        /\ \/ job' = [job EXCEPT ![w] = Models!NoJob]
           \/ job' = [job EXCEPT ![w].pc = "activate"]
    BY <1>9 DEF Models!Replace, Models!PutInPlace, Models!Fail, Models!Goto, Installing
  <2>2. OnlyJob(w) /\ job'[w].pc \notin {"extract", "rename", "replace"}
    BY <2>1, EndMoves, GotoMoves DEF Gone, GoesTo
  <2>3. ~raced' => model' # "bad"
    BY <2>1 DEF Verified, FromRightBytes
  <2> QED
    BY <2>1, <2>2, <2>3, MovesVerified
<1>10. ASSUME NEW w \in Workers, Models!Activate(w) \/ Models!Finish(w) PROVE Verified'
  <2>1. /\ Installing(w) /\ raced' = raced /\ model' = model
        /\ archive' = archive \/ archive' # "bad"
        /\ \/ job' = [job EXCEPT ![w] = Models!NoJob]
           \/ job' = [job EXCEPT ![w].pc = "finish"]
    BY <1>10 DEF Models!Activate, Models!Finish, Models!Fail, Models!Goto, Installing
  <2> QED
    BY <1>2, <2>1, EndMoves, GotoMoves
<1>11. ASSUME NEW w \in Workers, Models!Remove(w) PROVE Verified'
  <2>1. archive' = archive /\ model' = model /\ raced' = raced
    BY <1>11 DEF Models!Remove
  <2>2. CASE link \in {"custom", "dir"}
    BY <1>11, <2>1, <2>2 DEF Models!Remove, Verified, FromRightBytes, Installing
  <2>3. CASE link \notin {"custom", "dir"}
    <3>1. /\ job'[w].pc = "rmtree"
          /\ \A v \in Workers \ {w} : /\ job'[v].pc = job[v].pc /\ job'[v].ext = job[v].ext
                                      /\ job'[v].backup = job[v].backup
      BY <1>11, <2>3, RemoveMoves
    <3>2. ASSUME ~raced, NEW v \in Workers PROVE FromRightBytes(v)'
      <4>1. FromRightBytes(v)
        BY <3>2 DEF Verified
      <4>2. \A u \in Workers : Installing(u)' => Installing(u)
        BY <3>1 DEF Installing
      <4>3. CASE v = w
        BY <3>1, <4>3 DEF FromRightBytes, Installing
      <4>4. CASE v # w
        BY <2>1, <3>1, <4>1, <4>2, <4>4 DEF FromRightBytes
      <4> QED
        BY <4>3, <4>4
    <3> QED
      BY <2>1, <3>2 DEF Verified
  <2> QED
    BY <2>2, <2>3
<1>12. ASSUME NEW w \in Workers, Models!RemoveTree(w) \/ Models!RemovePart(w) PROVE Verified'
  <2>1. /\ raced' = raced /\ model' \in {model, "none"}
        /\ archive' = archive \/ archive' # "bad"
        /\ \/ job' = [job EXCEPT ![w] = Models!NoJob]
           \/ job' = [job EXCEPT ![w].pc = "rmpart"]
    BY <1>12 DEF Models!RemoveTree, Models!RemovePart, Models!Goto
  <2> QED
    BY <1>2, <2>1, EndMoves, GotoMoves
<1>13. ASSUME NEW w \in Workers, Models!Kill(w) PROVE Verified'
  BY <1>2, <1>13, EndMoves DEF Models!Kill
<1> QED
  BY <1>1, <1>3, <1>4, <1>5, <1>6, <1>7, <1>8, <1>9, <1>10, <1>11, <1>12, <1>13
     DEF Models!Next

LEMMA JobsBegin == Models!Init => Jobs /\ model \in Models!Models
<1>1. ASSUME Models!Init, NEW w \in Workers PROVE WholeJob(w)
  BY <1>1, NoJobIs DEF Models!Init, WholeJob, Models!Models
<1> QED
  BY <1>1 DEF Models!Init, Jobs, Models!Models

LEMMA JobsHold == Spec => [](Jobs /\ model \in Models!Models)
<1> DEFINE I == Jobs /\ model \in Models!Models
<1>1. Models!Init => I
  BY JobsBegin
<1>2. I /\ [Models!Next]_models => I'
  BY JobsStep
<1> QED
  BY <1>1, <1>2, EachAlone, PTL

(***************************************************************************)
(* Only bytes with the right checksum become the model, through resumed,   *)
(* restarted and corrupted transfers and kills, while installs do not      *)
(* overlap: nobody but the install at work writes the archive between its  *)
(* check and its extraction, and what it puts aside was right before.      *)
(***************************************************************************)
THEOREM OnlyVerifiedInstalledHolds == Spec => []OnlyVerifiedInstalled
<1>1. Models!Init => Verified
  <2>1. ASSUME Models!Init PROVE Verified
    <3>1. model = "none" /\ \A w \in Workers : job[w].pc = "idle"
      BY <2>1, NoJobIs DEF Models!Init
    <3> QED
      BY <3>1 DEF Verified, FromRightBytes, Installing
  <2> QED
    BY <2>1
<1>2. Jobs /\ Verified /\ [Models!Next]_models => Verified'
  BY VerifiedStep
<1>3. Verified => OnlyVerifiedInstalled
  BY DEF Verified, OnlyVerifiedInstalled, Models!OnlyVerifiedInstalled
<1> QED
  BY <1>1, <1>2, <1>3, JobsHold, EachAlone, PTL

(***************************************************************************)
(* An install that counts, alone, was not overtaken by a removal; the      *)
(* model it leaves is in its place or in the backup of an install that is  *)
(* about to put a new one there.                                           *)
(***************************************************************************)
Putting(w) == job[w].pc = "replace"
InPlace ==
  \/ Models!Valid(model)
  \/ model = "none" /\ \E w \in Workers : Putting(w) /\ Models!Valid(job[w].backup)
Counts(w) == job[w].alone /\ job[w].pc \in {"activate", "finish"}
Trusted == installed \/ \E w \in Workers : Counts(w)
Undisturbed ==
  \A w \in Workers : Removing(w) => ~installed /\ \A v \in Workers : ~job[v].alone
Linked ==
  /\ installed => link = "managed"
  /\ \A w \in Workers : job[w].alone /\ job[w].pc = "finish" => link = "managed"
NoRemains ==
  ~torn => model # "half" /\ \A w \in Workers : Putting(w) => job[w].backup # "half"
Kept == ~torn /\ Trusted => InPlace
Lasting == Undisturbed /\ Linked /\ NoRemains /\ Kept

LEMMA MovesLasting ==
  ASSUME Jobs, Lasting, NEW w \in Workers, OnlyJob(w),
         Removing(w)' => Removing(w),
         job'[w].alone => job[w].alone \/ \A v \in Workers : ~Removing(v),
         installed' => installed \/ (job[w].alone /\ job[w].pc = "finish"),
         link' = link \/ link' = "managed",
         job'[w].alone /\ job'[w].pc = "finish" => link' = "managed",
         NoRemains',
         ~torn' /\ (Trusted \/ Counts(w)') => InPlace'
  PROVE  Lasting'
<1>1. ASSUME NEW v \in Workers \ {w} PROVE job'[v] = job[v]
  BY DEF OnlyJob
<1>2. Undisturbed'
  <2>1. ASSUME NEW v \in Workers, Removing(v)'
        PROVE  ~installed' /\ \A u \in Workers : ~job'[u].alone
    <3>1. Removing(v)
      BY <1>1, <2>1 DEF Removing
    <3>2. ~installed /\ \A u \in Workers : ~job[u].alone
      BY <3>1 DEF Lasting, Undisturbed
    <3> QED
      BY <1>1, <3>1, <3>2
  <2> QED
    BY <2>1 DEF Undisturbed
<1>3. Linked'
  <2>1. link = "managed" => link' = "managed"
    OBVIOUS
  <2>2. ASSUME NEW v \in Workers \ {w}, job'[v].alone, job'[v].pc = "finish"
        PROVE  link = "managed"
    BY <1>1, <2>2 DEF Lasting, Linked
  <2>3. installed' => link = "managed"
    BY DEF Lasting, Linked
  <2> QED
    BY <2>1, <2>2, <2>3 DEF Linked
<1>4. Kept'
  <2>1. ASSUME Trusted' PROVE Trusted \/ Counts(w)'
    <3>1. CASE installed'
      BY <3>1 DEF Trusted, Counts
    <3>2. ASSUME NEW v \in Workers, Counts(v)' PROVE Trusted \/ Counts(w)'
      <4>1. CASE v = w
        BY <3>2, <4>1
      <4>2. CASE v # w
        BY <1>1, <3>2, <4>2 DEF Trusted, Counts
      <4> QED
        BY <4>1, <4>2
    <3> QED
      BY <2>1, <3>1, <3>2 DEF Trusted
  <2> QED
    BY <2>1 DEF Kept
<1> QED
  BY <1>2, <1>3, <1>4 DEF Lasting

\* A step of a worker that neither puts nor takes the model.
LEMMA QuietLasting ==
  ASSUME Jobs, Lasting, NEW w \in Workers, OnlyJob(w), model' = model,
         torn' <=> torn, ~Putting(w), ~Putting(w)',
         Removing(w)' => Removing(w),
         job'[w].alone => job[w].alone \/ \A v \in Workers : ~Removing(v),
         installed' => installed \/ (job[w].alone /\ job[w].pc = "finish"),
         link' = link \/ link' = "managed",
         job'[w].alone /\ job'[w].pc = "finish" => link' = "managed",
         Counts(w)' => Counts(w) \/ Models!Valid(model)
  PROVE  Lasting'
<1>1. ASSUME NEW v \in Workers
      PROVE  /\ Putting(v)' <=> Putting(v)
             /\ Putting(v) => job'[v] = job[v]
  BY DEF OnlyJob, Putting
<1>2. NoRemains'
  BY <1>1 DEF Lasting, NoRemains
<1>3. InPlace => InPlace'
  BY <1>1 DEF InPlace, Models!Valid
<1>4. ~torn' /\ (Trusted \/ Counts(w)') => InPlace'
  <2>1. Counts(w)' => Trusted \/ InPlace
    BY DEF Trusted, InPlace
  <2> QED
    BY <1>3, <2>1 DEF Lasting, Kept
<1> QED
  BY <1>2, <1>4, MovesLasting

LEMMA LastingStep ==
  ASSUME Jobs, model \in Models!Models, Lasting, [Models!Next]_models
  PROVE  Lasting'
<1>1. CASE Models!AlreadyReady \/ UNCHANGED models
  <2>1. /\ job' = job /\ model' = model /\ installed' = installed /\ torn' = torn
        /\ link' = link
    BY <1>1 DEF Models!AlreadyReady, models
  <2> QED
    BY <2>1 DEF Lasting, Undisturbed, Linked, NoRemains, Kept, Trusted, InPlace, Counts,
       Putting, Removing, Models!Valid
<1>2. ASSUME NEW w \in Workers, ~Putting(w), model' = model, torn' <=> torn,
             installed' = installed, link' = link,
             Gone(w) \/ \E pc \in {"transfer", "verify", "extract"} : GoesTo(w, pc),
             OnlyJob(w)
      PROVE  Lasting'
  <2>1. /\ job'[w].pc \notin {"replace", "rmtree", "rmpart", "activate", "finish"}
        /\ job'[w].alone => job[w].alone
    BY <1>2 DEF Gone, GoesTo
  <2> QED
    BY <1>2, <2>1, QuietLasting DEF Putting, Removing, Counts
<1>3. ASSUME NEW w \in Workers, NEW force \in BOOLEAN, Models!Install(w, force) PROVE Lasting'
  <2>1. /\ OnlyJob(w) /\ job'[w].pc \in {"activate", "download"}
        /\ job'[w].pc = "activate" => Models!Valid(model)
        /\ job'[w].alone => \A v \in Workers : ~Removing(v)
    BY <1>3, InstallMoves
  <2>2. /\ model' = model /\ torn' = torn /\ installed' = installed /\ link' = link
        /\ ~Putting(w)
    BY <1>3 DEF Models!Install, Putting
  <2>3. Counts(w)' => Models!Valid(model)
    BY <2>1 DEF Counts
  <2> QED
    BY <2>1, <2>2, <2>3, QuietLasting DEF Putting, Removing
<1>4. ASSUME NEW w \in Workers, Models!Request(w) \/ Models!Transfer(w) \/ Models!Verify(w)
      PROVE  Lasting'
  <2>1. /\ ~Putting(w) /\ model' = model /\ torn' = torn /\ installed' = installed
        /\ link' = link
        /\ \/ job' = [job EXCEPT ![w] = Models!NoJob]
           \/ \E pc \in {"transfer", "verify", "extract"} : job' = [job EXCEPT ![w].pc = pc]
    BY <1>4 DEF Models!Request, Models!Transfer, Models!Verify, Models!Fail, Models!Goto,
       Putting
  <2> QED
    BY <1>2, <2>1, EndMoves, GotoMoves
<1>5. ASSUME NEW w \in Workers, Models!Extract(w) PROVE Lasting'
  <2>1. /\ ~Putting(w) /\ model' = model /\ torn' = torn /\ installed' = installed
        /\ link' = link
    BY <1>5 DEF Models!Extract, Putting
  <2>2. CASE Models!Fail(w)
    BY <1>2, <2>1, <2>2, EndMoves DEF Models!Fail
  <2>3. CASE job' = [job EXCEPT ![w].pc = "rename", ![w].ext = archive]
    <3>1. /\ OnlyJob(w) /\ job'[w].pc = "rename" /\ job'[w].alone = job[w].alone
      BY <2>3, ExtractMoves
    <3> QED
      BY <2>1, <3>1, QuietLasting DEF Putting, Removing, Counts
  <2> QED
    BY <1>5, <2>2, <2>3 DEF Models!Extract
<1>6. ASSUME NEW w \in Workers, Models!Rename(w) PROVE Lasting'
  <2>1. ~Putting(w) /\ torn' = torn /\ installed' = installed /\ link' = link
    BY <1>6 DEF Models!Rename, Putting
  <2>2. CASE Models!Fail(w) /\ model' = model
    BY <1>2, <2>1, <2>2, EndMoves DEF Models!Fail
  <2>3. CASE /\ model' = "none"
             /\ job' = [job EXCEPT ![w].pc = "replace", ![w].backup = model]
    <3>1. /\ OnlyJob(w) /\ job'[w].pc = "replace" /\ job'[w].alone = job[w].alone
          /\ job'[w].backup = model
      BY <2>3, RenameMoves
    <3>2. NoRemains'
      BY <2>1, <2>3, <3>1 DEF Lasting, NoRemains, Putting, OnlyJob
    <3>3. InPlace => InPlace'
      <4>1. CASE Models!Valid(model)
        BY <2>3, <3>1, <4>1 DEF InPlace, Putting, Models!Valid
      <4>2. ASSUME NEW v \in Workers, Putting(v), Models!Valid(job[v].backup)
            PROVE  InPlace'
        <5>1. job'[v] = job[v]
          BY <2>1, <3>1, <4>2 DEF OnlyJob
        <5> QED
          BY <2>3, <4>2, <5>1 DEF InPlace, Putting, Models!Valid
      <4> QED
        BY <4>1, <4>2 DEF InPlace
    <3>4. ~Counts(w)'
      BY <3>1 DEF Counts
    <3> QED
      BY <2>1, <3>1, <3>2, <3>3, <3>4, MovesLasting DEF Removing, Lasting, Kept
  <2> QED
    BY <1>6, <2>2, <2>3 DEF Models!Rename
<1>7. ASSUME NEW w \in Workers, Models!Replace(w), Models!PutInPlace(w) PROVE Lasting'
  <2>1. /\ Putting(w) /\ installed' = installed /\ link' = link /\ model' = job[w].ext
        /\ job[w].ext \in {"good", "bad"}
    BY <1>7 DEF Models!Replace, Models!PutInPlace, Putting, Jobs, WholeJob
  <2>2. /\ OnlyJob(w) /\ job'[w].alone => job[w].alone
    BY <1>7, EndMoves, GotoMoves DEF Models!Replace, Models!Goto, Models!Fail, Gone, GoesTo
  <2>3. job'[w].pc \in {"activate", "idle"} /\ OnlyJob(w)
    BY <1>7, EndMoves, GotoMoves DEF Models!Replace, Models!Goto, Models!Fail, Gone, GoesTo
  <2>4. NoRemains'
    <3>1. ASSUME ~torn', NEW v \in Workers, Putting(v)' PROVE job'[v].backup # "half"
      <4>1. v # w /\ job'[v] = job[v]
        BY <2>3, <3>1 DEF Putting, OnlyJob
      <4> QED
        BY <1>7, <3>1, <4>1 DEF Models!PutInPlace, Putting
    <3> QED
      BY <2>1, <3>1 DEF NoRemains
  <2>5. InPlace'
    BY <2>1 DEF InPlace, Models!Valid
  <2> QED
    BY <2>1, <2>2, <2>3, <2>4, <2>5, MovesLasting DEF Removing
<1>8. ASSUME NEW w \in Workers, Models!Replace(w), Models!Fail(w), torn' = torn,
             model' = IF model = "none" THEN job[w].backup ELSE model
      PROVE  Lasting'
  <2>1. /\ Putting(w) /\ installed' = installed /\ link' = link
        /\ job[w].backup \in Models!Models
    BY <1>8 DEF Models!Replace, Putting, Jobs, WholeJob
  <2>2. OnlyJob(w) /\ job'[w].pc = "idle" /\ ~job'[w].alone
    BY <1>8, EndMoves DEF Models!Fail, Gone
  <2>3. ASSUME ~torn PROVE model # "half" /\ job[w].backup # "half"
    BY <2>1, <2>3 DEF Lasting, NoRemains
  <2>4. NoRemains'
    BY <1>8, <2>2, <2>3 DEF NoRemains, Lasting, OnlyJob, Putting
  <2>5. ASSUME ~torn, InPlace PROVE InPlace'
    <3>1. CASE Models!Valid(model)
      BY <1>8, <3>1 DEF InPlace, Models!Valid
    <3>2. CASE model = "none" /\ job[w].backup # "none"
      BY <1>8, <2>1, <2>3, <2>5, <3>2 DEF InPlace, Models!Valid, Models!Models
    <3>3. ASSUME model = "none", job[w].backup = "none",
                 NEW v \in Workers, Putting(v), Models!Valid(job[v].backup)
          PROVE  InPlace'
      <4>1. v # w
        BY <3>3 DEF Models!Valid
      <4>2. job'[v] = job[v] /\ model' = "none"
        BY <1>8, <2>2, <3>3, <4>1 DEF OnlyJob
      <4> QED
        BY <3>3, <4>2 DEF InPlace, Putting, Models!Valid
    <3> QED
      BY <2>5, <3>1, <3>2, <3>3 DEF InPlace
  <2>6. ~torn' /\ (Trusted \/ Counts(w)') => InPlace'
    BY <1>8, <2>2, <2>5 DEF Lasting, Kept, Counts
  <2> QED
    BY <2>1, <2>2, <2>4, <2>6, MovesLasting DEF Removing
<1>9. ASSUME NEW w \in Workers, Models!Activate(w) \/ Models!Finish(w) PROVE Lasting'
  <2>1. /\ ~Putting(w) /\ model' = model /\ torn' = torn
        /\ job[w].pc \in {"activate", "finish"}
        /\ installed' => installed \/ (job[w].alone /\ job[w].pc = "finish")
        /\ link' = link \/ link' = "managed"
        /\ \/ job' = [job EXCEPT ![w] = Models!NoJob]
           \/ job' = [job EXCEPT ![w].pc = "finish"] /\ link' = "managed"
    <3>1. CASE Models!Activate(w)
      BY <3>1 DEF Models!Activate, Models!Fail, Models!Goto, Putting
    <3>2. CASE Models!Finish(w)
      BY <3>2 DEF Models!Finish, Putting
    <3> QED
      BY <1>9, <3>1, <3>2
  <2>2. /\ OnlyJob(w)
        /\ job'[w].alone => job[w].alone
        /\ job'[w].pc = "idle" \/ (job'[w].pc = "finish" /\ link' = "managed")
    BY <2>1, EndMoves, GotoMoves DEF Gone, GoesTo
  <2>3. Counts(w)' => Counts(w)
    BY <2>1, <2>2 DEF Counts
  <2>4. /\ ~Putting(w)'
        /\ ~Removing(w)'
        /\ job'[w].alone /\ job'[w].pc = "finish" => link' = "managed"
    BY <2>2 DEF Putting, Removing
  <2> QED
    BY <2>1, <2>2, <2>3, <2>4, QuietLasting
<1>10. ASSUME NEW w \in Workers, Models!Remove(w) PROVE Lasting'
  <2>1. model' = model /\ torn' = torn
    BY <1>10 DEF Models!Remove
  <2>2. CASE link \in {"custom", "dir"}
    <3>1. job' = job /\ link' = link /\ installed' = installed
      BY <1>10, <2>2 DEF Models!Remove
    <3> QED
      BY <2>1, <3>1 DEF Lasting, Undisturbed, Linked, NoRemains, Kept, Trusted,
         InPlace, Counts, Putting, Removing, Models!Valid
  <2>3. CASE link \notin {"custom", "dir"}
    <3>1. /\ job'[w].pc = "rmtree" /\ ~installed' /\ \A v \in Workers : ~job'[v].alone
          /\ \A v \in Workers \ {w} : job'[v].pc = job[v].pc /\ job'[v].backup = job[v].backup
      BY <1>10, <2>3, RemoveMoves
    <3>2. NoRemains'
      BY <2>1, <3>1 DEF Lasting, NoRemains, Putting
    <3>3. Undisturbed' /\ Linked' /\ ~Trusted'
      BY <3>1 DEF Undisturbed, Linked, Trusted, Counts
    <3> QED
      BY <3>2, <3>3 DEF Lasting, Kept
  <2> QED
    BY <2>2, <2>3
<1>11. ASSUME NEW w \in Workers, Models!RemoveTree(w) PROVE Lasting'
  <2>1. /\ Removing(w) /\ model' = "none" /\ torn' = torn /\ installed' = installed
        /\ link' = link /\ job' = [job EXCEPT ![w].pc = "rmpart"]
    BY <1>11 DEF Models!RemoveTree, Models!Goto, Removing
  <2>2. OnlyJob(w) /\ job'[w].pc = "rmpart" /\ job'[w].alone = job[w].alone
    BY <2>1, GotoMoves DEF GoesTo
  <2>3. ~Trusted /\ ~Counts(w)'
    BY <2>1, <2>2 DEF Lasting, Undisturbed, Trusted, Counts
  <2>4. NoRemains'
    BY <2>1, <2>2 DEF Lasting, NoRemains, Putting, OnlyJob
  <2> QED
    BY <2>1, <2>2, <2>3, <2>4, MovesLasting
<1>12. ASSUME NEW w \in Workers, Models!RemovePart(w) PROVE Lasting'
  <2>1. /\ ~Putting(w) /\ model' = model /\ torn' = torn /\ installed' = installed
        /\ link' = link /\ job' = [job EXCEPT ![w] = Models!NoJob]
    BY <1>12 DEF Models!RemovePart, Putting
  <2> QED
    BY <1>2, <2>1, EndMoves
<1>13. ASSUME NEW w \in Workers, Models!Kill(w) PROVE Lasting'
  <2>1. /\ installed' = installed /\ link' = link /\ OnlyJob(w) /\ Gone(w)
    BY <1>13, EndMoves DEF Models!Kill
  <2>2. CASE torn'
    <3>1. NoRemains' /\ ~Removing(w)'
      BY <2>1, <2>2 DEF NoRemains, Removing, Gone
    <3> QED
      BY <2>1, <2>2, <3>1, MovesLasting DEF Gone
  <2>3. CASE ~torn'
    <3>1. ~torn /\ ~Putting(w) /\ model' # "half"
      BY <1>13, <2>3 DEF Models!Kill, Putting
    <3>2. model' = model
      BY <1>13, <3>1 DEF Models!Kill
    <3> QED
      BY <1>2, <2>1, <2>3, <3>1, <3>2
  <2> QED
    BY <2>2, <2>3
<1>14. ASSUME NEW w \in Workers, Models!Replace(w) PROVE Lasting'
  BY <1>7, <1>8, <1>14 DEF Models!Replace
<1> QED
  BY <1>1, <1>3, <1>4, <1>5, <1>6, <1>9, <1>10, <1>11, <1>12, <1>13, <1>14 DEF Models!Next

(***************************************************************************)
(* A model that has been installed stays usable until it is removed, for   *)
(* any number of processes that install it again, fail and are killed,     *)
(* except between the two renames and in a removal: each of them finds the *)
(* model in its place or leaves it to the one that has it in its backup,   *)
(* and puts it back when it fails.                                         *)
(***************************************************************************)
THEOREM StaysUsableHolds == Spec => []StaysUsable
<1>1. Models!Init => Lasting
  <2>1. ASSUME Models!Init PROVE Lasting
    <3>1. /\ model = "none" /\ ~installed
          /\ \A w \in Workers : job[w].pc = "idle"
      BY <2>1, NoJobIs DEF Models!Init
    <3> QED
      BY <3>1 DEF Lasting, Undisturbed, Linked, NoRemains, Kept, Trusted, Counts, Putting,
         Removing
  <2> QED
    BY <2>1
<1> DEFINE I == Jobs /\ model \in Models!Models
<1>2. I /\ Lasting /\ [Models!Next]_models => Lasting'
  BY LastingStep
<1>3. Lasting => StaysUsable
  <2>1. ASSUME Lasting, installed, ~torn
        PROVE  Models!Usable \/ \E w \in Workers : job[w].pc = "replace"
    <3>1. link = "managed" /\ InPlace
      BY <2>1 DEF Lasting, Linked, Kept, Trusted
    <3> QED
      BY <3>1 DEF InPlace, Putting, Models!Usable
  <2> QED
    BY <2>1 DEF StaysUsable, Models!StaysUsable
<1>4. Spec => []I
  BY JobsHold
<1> HIDE DEF I
<1> QED
  BY <1>1, <1>2, <1>3, <1>4, EachAlone, PTL
-----------------------------------------------------------------------------
(***************************************************************************)
(* Types of the speech model.  The server only downloads: what removes is  *)
(* another worker, so that the status and the server's job agree.          *)
(***************************************************************************)
JobPlaces == {"idle", "download", "transfer", "verify", "extract", "rename", "replace",
              "activate", "finish", "rmtree", "rmpart"}
JobRecords ==
  [pc : JobPlaces, ext : Models!Models, backup : Models!Models, alone : BOOLEAN]
ModelTypes == Models!TypeOK /\ ~Removing(Service)

\* What a step says of the jobs and of the status.
JobTypes ==
  /\ job' \in [Workers -> JobRecords] /\ ~Removing(Service)'
  /\ download' \in {"idle", "downloading", "ready", "error"}
  /\ download' = "downloading" <=> job'[Service].pc # "idle"

LEMMA JobsTyped ==
  /\ ModelTypes => job \in [Workers -> JobRecords]
  /\ Service \in Workers /\ MaxJobs \in Nat
  /\ Models!NoJob \in JobRecords /\ Models!NoJob.pc = "idle"
BY ComponentConstants
   DEF ModelTypes, Models!TypeOK, JobRecords, JobPlaces, Models!NoJob, Models!Models,
       ComponentConstants, Models!SpeechModelConstants

LEMMA MoveTypes ==
  ASSUME ModelTypes, NEW w \in Workers, NEW x \in JobRecords, job' = [job EXCEPT ![w] = x],
         w # Service => download' = download,
         w = Service => /\ x.pc \notin {"rmtree", "rmpart"}
                        /\ download' \in {"idle", "downloading", "ready", "error"}
                        /\ download' = "downloading" <=> x.pc # "idle"
  PROVE  JobTypes
<1>1. job \in [Workers -> JobRecords] /\ Service \in Workers
  BY JobsTyped
<1>2. job' \in [Workers -> JobRecords]
  BY <1>1
<1>3. CASE w = Service
  <2>1. job'[Service] = x
    BY <1>1, <1>3
  <2> QED
    BY <1>2, <1>3, <2>1 DEF JobTypes, Removing
<1>4. CASE w # Service
  <2>1. job'[Service] = job[Service]
    BY <1>1, <1>4
  <2> QED
    BY <1>2, <1>4, <2>1 DEF JobTypes, Removing, ModelTypes, Models!TypeOK
<1> QED
  BY <1>3, <1>4

LEMMA GoTypes ==
  ASSUME ModelTypes, NEW w \in Workers, job[w].pc # "idle",
         NEW pc \in JobPlaces \ {"idle"}, w = Service => pc # "rmpart" /\ pc # "rmtree",
         Models!Goto(w, pc)
  PROVE  JobTypes
<1>1. PICK x : x = [job[w] EXCEPT !.pc = pc]
  OBVIOUS
<1>2. job \in [Workers -> JobRecords]
  BY JobsTyped
<1>3. x \in JobRecords /\ x.pc = pc
  BY <1>1, <1>2 DEF JobRecords
<1>4. job' = [job EXCEPT ![w] = x] /\ download' = download
  BY <1>1 DEF Models!Goto
<1>5. w = Service => /\ x.pc \notin {"rmtree", "rmpart"}
                     /\ download' \in {"idle", "downloading", "ready", "error"}
                     /\ download' = "downloading" <=> x.pc # "idle"
  BY <1>3, <1>4 DEF ModelTypes, Models!TypeOK
<1> QED
  BY <1>3, <1>4, <1>5, MoveTypes

LEMMA EndTypes ==
  ASSUME ModelTypes, NEW w \in Workers, NEW s \in {"idle", "ready", "error"},
         job' = [job EXCEPT ![w] = Models!NoJob],
         \/ Models!Report(w, s)
         \/ download' = download /\ w # Service
  PROVE  JobTypes
<1>1. Models!NoJob \in JobRecords /\ Models!NoJob.pc = "idle"
  BY JobsTyped
<1>2. /\ w # Service => download' = download
      /\ w = Service => download' = s
  BY DEF Models!Report
<1>3. w = Service => /\ Models!NoJob.pc \notin {"rmtree", "rmpart"}
                     /\ download' \in {"idle", "downloading", "ready", "error"}
                     /\ download' = "downloading" <=> Models!NoJob.pc # "idle"
  BY <1>1, <1>2
<1> QED
  BY <1>1, <1>2, <1>3, MoveTypes

LEMMA FailTypes ==
  ASSUME ModelTypes, NEW w \in Workers, Models!Fail(w)
  PROVE  JobTypes
BY EndTypes DEF Models!Fail

LEMMA ModelTypesAgain ==
  ASSUME ModelTypes, JobTypes, archive' \in Models!Parts, model' \in Models!Models,
         link' \in {"none", "managed", "custom", "dir"}, jobs' \in 0 .. MaxJobs,
         installed' \in BOOLEAN, torn' \in BOOLEAN, raced' \in BOOLEAN
  PROVE  ModelTypes'
BY DEF ModelTypes, JobTypes, Models!TypeOK, JobRecords, JobPlaces

LEMMA ModelStep ==
  ASSUME ModelTypes, [Models!Next]_models
  PROVE  ModelTypes'
<1>0. /\ archive \in Models!Parts /\ model \in Models!Models
      /\ link \in {"none", "managed", "custom", "dir"} /\ jobs \in 0 .. MaxJobs
      /\ installed \in BOOLEAN /\ torn \in BOOLEAN /\ raced \in BOOLEAN
      /\ job \in [Workers -> JobRecords] /\ MaxJobs \in Nat
  BY JobsTyped DEF ModelTypes, Models!TypeOK
<1>1. ASSUME NEW w \in Workers, NEW force \in BOOLEAN, Models!Install(w, force)
      PROVE ModelTypes'
  <2>1. PICK pc : pc = IF Models!Valid(model) /\ ~force THEN "activate" ELSE "download"
    OBVIOUS
  <2>2. PICK alone \in BOOLEAN :
          alone = \A v \in Workers : job[v].pc \notin {"rmtree", "rmpart"}
    OBVIOUS
  <2>3. PICK x : x = [Models!NoJob EXCEPT !.pc = pc, !.alone = alone]
    OBVIOUS
  <2>4. x \in JobRecords /\ x.pc = pc /\ pc \in {"activate", "download"}
    BY <2>1, <2>2, <2>3 DEF Models!NoJob, JobRecords, JobPlaces, Models!Models
  <2>5. job' = [job EXCEPT ![w] = x]
    BY <1>1, <2>1, <2>2, <2>3 DEF Models!Install
  <2>6. IF w = Service THEN download' = "downloading" ELSE download' = download
    BY <1>1 DEF Models!Install, Models!Report
  <2>7. JobTypes
    BY <2>4, <2>5, <2>6, MoveTypes
  <2>8. jobs' \in 0 .. MaxJobs
    BY <1>0, <1>1 DEF Models!Install
  <2>9. raced' \in BOOLEAN
    BY <1>0, <1>1 DEF Models!Install
  <2> QED
    BY <1>0, <1>1, <2>7, <2>8, <2>9, ModelTypesAgain DEF Models!Install
<1>2. CASE Models!AlreadyReady
  BY <1>2 DEF Models!AlreadyReady, ModelTypes, Models!TypeOK, Removing
<1>3. ASSUME NEW w \in Workers, Models!Request(w)
      PROVE ModelTypes'
  <2>1. JobTypes
    <3>1. job[w].pc = "download"
          /\ (Models!Goto(w, "verify") \/ Models!Goto(w, "transfer") \/ Models!Fail(w))
      BY <1>3 DEF Models!Request
    <3>2. {"verify", "transfer"} \subseteq JobPlaces \ {"idle"}
      BY DEF JobPlaces
    <3> QED
      BY <3>1, <3>2, GoTypes, FailTypes
  <2>2. archive' \in Models!Parts
    BY <1>0, <1>3 DEF Models!Request, Models!Parts
  <2> QED
    BY <1>0, <1>3, <2>1, <2>2, ModelTypesAgain DEF Models!Request
<1>4. ASSUME NEW w \in Workers, Models!Transfer(w)
      PROVE ModelTypes'
  <2>1. JobTypes
    <3>1. job[w].pc = "transfer" /\ (Models!Goto(w, "verify") \/ Models!Fail(w))
      BY <1>4 DEF Models!Transfer
    <3>2. "verify" \in JobPlaces \ {"idle"}
      BY DEF JobPlaces
    <3> QED
      BY <3>1, <3>2, GoTypes, FailTypes
  <2>2. archive' \in Models!Parts
    <3>1. (CASE archive = "partial" -> {"good", "bad"}
             [] archive = "none" -> {"none"}
             [] OTHER -> {"bad"}) \subseteq Models!Parts
      BY Zenon DEF Models!Parts
    <3>2. (IF archive = "partial" THEN {"partial", "tainted"} ELSE {archive})
            \subseteq Models!Parts
      BY <1>0 DEF Models!Parts
    <3> QED
      BY <1>4, <3>1, <3>2, Zenon DEF Models!Transfer
  <2> QED
    BY <1>0, <1>4, <2>1, <2>2, ModelTypesAgain DEF Models!Transfer
<1>5. ASSUME NEW w \in Workers, Models!Verify(w)
      PROVE ModelTypes'
  <2>1. JobTypes
    <3>1. job[w].pc = "verify" /\ (Models!Goto(w, "extract") \/ Models!Fail(w))
      BY <1>5 DEF Models!Verify
    <3>2. "extract" \in JobPlaces \ {"idle"}
      BY DEF JobPlaces
    <3> QED
      BY <3>1, <3>2, GoTypes, FailTypes
  <2>2. archive' \in Models!Parts
    BY <1>0, <1>5 DEF Models!Verify, Models!Parts
  <2> QED
    BY <1>0, <1>5, <2>1, <2>2, ModelTypesAgain DEF Models!Verify
<1>6. ASSUME NEW w \in Workers, Models!Extract(w)
      PROVE ModelTypes'
  <2>1. JobTypes
    <3>1. CASE Models!Fail(w)
      BY <3>1, FailTypes
    <3>2. CASE /\ archive \in {"good", "bad"} /\ UNCHANGED download
               /\ job' = [job EXCEPT ![w].pc = "rename", ![w].ext = archive]
      <4>1. PICK x : x = [job[w] EXCEPT !.pc = "rename", !.ext = archive]
        OBVIOUS
      <4>2. x \in JobRecords /\ x.pc = "rename"
        BY <1>0, <3>2, <4>1 DEF JobRecords, JobPlaces, Models!Models
      <4>3. job' = [job EXCEPT ![w] = x]
        BY <1>0, <3>2, <4>1
      <4>4. w = Service => download = "downloading"
        BY <1>6 DEF Models!Extract, ModelTypes, Models!TypeOK
      <4> QED
        BY <3>2, <4>2, <4>3, <4>4, MoveTypes
    <3> QED
      BY <1>6, <3>1, <3>2 DEF Models!Extract
  <2> QED
    BY <1>0, <1>6, <2>1, ModelTypesAgain DEF Models!Extract
<1>7. ASSUME NEW w \in Workers, Models!Rename(w)
      PROVE ModelTypes'
  <2>1. JobTypes
    <3>1. CASE Models!Fail(w)
      BY <3>1, FailTypes
    <3>2. CASE /\ job' = [job EXCEPT ![w].pc = "replace", ![w].backup = model]
               /\ UNCHANGED download
      <4>1. PICK x : x = [job[w] EXCEPT !.pc = "replace", !.backup = model]
        OBVIOUS
      <4>2. x \in JobRecords /\ x.pc = "replace"
        BY <1>0, <4>1 DEF JobRecords, JobPlaces
      <4>3. job' = [job EXCEPT ![w] = x]
        BY <1>0, <3>2, <4>1
      <4>4. w = Service => download = "downloading"
        BY <1>7 DEF Models!Rename, ModelTypes, Models!TypeOK
      <4> QED
        BY <3>2, <4>2, <4>3, <4>4, MoveTypes
    <3> QED
      BY <1>7, <3>1, <3>2 DEF Models!Rename
  <2>2. model' \in Models!Models
    BY <1>0, <1>7 DEF Models!Rename, Models!Models
  <2> QED
    BY <1>0, <1>7, <2>1, <2>2, ModelTypesAgain DEF Models!Rename
<1>8. ASSUME NEW w \in Workers, Models!Replace(w)
      PROVE ModelTypes'
  <2>1. JobTypes
    <3>1. job[w].pc = "replace" /\ (Models!Goto(w, "activate") \/ Models!Fail(w))
      BY <1>8 DEF Models!Replace
    <3>2. "activate" \in JobPlaces \ {"idle"}
      BY DEF JobPlaces
    <3> QED
      BY <3>1, <3>2, GoTypes, FailTypes
  <2>2. job[w].ext \in Models!Models /\ job[w].backup \in Models!Models
    BY <1>0 DEF JobRecords
  <2>3. model' \in Models!Models /\ torn' \in BOOLEAN
    BY <1>0, <1>8, <2>2 DEF Models!Replace, Models!PutInPlace
  <2> QED
    BY <1>0, <1>8, <2>1, <2>3, ModelTypesAgain DEF Models!Replace
<1>9. ASSUME NEW w \in Workers, Models!Activate(w)
      PROVE ModelTypes'
  <2>1. JobTypes
    <3>1. job[w].pc = "activate" /\ (Models!Goto(w, "finish") \/ Models!Fail(w))
      BY <1>9 DEF Models!Activate
    <3>2. "finish" \in JobPlaces \ {"idle"}
      BY DEF JobPlaces
    <3> QED
      BY <3>1, <3>2, GoTypes, FailTypes
  <2> QED
    BY <1>0, <1>9, <2>1, ModelTypesAgain DEF Models!Activate
<1>10. ASSUME NEW w \in Workers, Models!Finish(w)
      PROVE ModelTypes'
  <2>1. JobTypes
    BY <1>10, EndTypes DEF Models!Finish
  <2>2. archive' \in Models!Parts /\ installed' \in BOOLEAN
    <3>1. job[w].alone \in BOOLEAN
      BY <1>0 DEF JobRecords
    <3> QED
      BY <1>0, <1>10, <3>1 DEF Models!Finish, Models!Parts
  <2> QED
    BY <1>0, <1>10, <2>1, <2>2, ModelTypesAgain DEF Models!Finish
<1>11. ASSUME NEW w \in Workers, Models!Remove(w)
      PROVE ModelTypes'
  <2>1. JobTypes
    <3>1. CASE UNCHANGED job
      BY <1>11, <3>1 DEF Models!Remove, JobTypes, ModelTypes, Models!TypeOK, JobRecords,
                         JobPlaces, Removing
    <3>2. CASE job' = [v \in Workers |-> IF v = w THEN [Models!NoJob EXCEPT !.pc = "rmtree"]
                                       ELSE [job[v] EXCEPT !.alone = FALSE]]
      <4>1. PICK x : x = [Models!NoJob EXCEPT !.pc = "rmtree"]
        OBVIOUS
      <4>2. x \in JobRecords
        BY <4>1, JobsTyped DEF JobRecords, JobPlaces
      <4>3. ASSUME NEW v \in Workers, v # w
            PROVE  job'[v] \in JobRecords /\ job'[v].pc = job[v].pc
        <5>1. job'[v] = [job[v] EXCEPT !.alone = FALSE]
          BY <3>2, <4>3
        <5> QED
          BY <1>0, <5>1 DEF JobRecords
      <4>4. job'[w] = x /\ DOMAIN job' = Workers
        BY <3>2, <4>1
      <4>5. job' \in [Workers -> JobRecords]
        <5>1. \A v \in Workers : job'[v] \in JobRecords
          BY <4>2, <4>3, <4>4
        <5> QED
          BY <3>2, <4>4, <5>1
      <4>6. w # Service /\ download' = download /\ Service \in Workers
        BY <1>11, JobsTyped DEF Models!Remove
      <4>7. job'[Service].pc = job[Service].pc
        BY <4>3, <4>6
      <4> QED
        BY <4>5, <4>6, <4>7 DEF JobTypes, Removing, ModelTypes, Models!TypeOK
    <3> QED
      BY <1>11, <3>1, <3>2 DEF Models!Remove
  <2>2. jobs' \in 0 .. MaxJobs
    BY <1>0, <1>11 DEF Models!Remove
  <2>3. link' \in {"none", "managed", "custom", "dir"} /\ installed' \in BOOLEAN
    BY <1>0, <1>11 DEF Models!Remove
  <2> QED
    BY <1>0, <1>11, <2>1, <2>2, <2>3, ModelTypesAgain DEF Models!Remove
<1>12. ASSUME NEW w \in Workers, Models!RemoveTree(w)
      PROVE ModelTypes'
  <2>1. JobTypes
    <3>1. job[w].pc = "rmtree" /\ Models!Goto(w, "rmpart") /\ w # Service
      BY <1>12 DEF Models!RemoveTree, ModelTypes, Removing
    <3>2. "rmpart" \in JobPlaces \ {"idle"}
      BY DEF JobPlaces
    <3> QED
      BY <3>1, <3>2, GoTypes
  <2> QED
    BY <1>0, <1>12, <2>1, ModelTypesAgain DEF Models!RemoveTree, Models!Models
<1>13. ASSUME NEW w \in Workers, Models!RemovePart(w)
      PROVE ModelTypes'
  <2>1. JobTypes
    BY <1>13, EndTypes DEF Models!RemovePart, ModelTypes, Removing
  <2> QED
    BY <1>0, <1>13, <2>1, ModelTypesAgain DEF Models!RemovePart, Models!Parts
<1>14. ASSUME NEW w \in Workers, Models!Kill(w)
      PROVE ModelTypes'
  <2>1. JobTypes
    BY <1>14, EndTypes DEF Models!Kill
  <2>2. model' \in Models!Models /\ torn' \in BOOLEAN
    BY <1>0, <1>14 DEF Models!Kill, Models!Models
  <2> QED
    BY <1>0, <1>14, <2>1, <2>2, ModelTypesAgain DEF Models!Kill
<1>15. CASE UNCHANGED models
  BY <1>15 DEF models, ModelTypes, Models!TypeOK, Removing
<1> QED
  BY <1>1, <1>2, <1>3, <1>4, <1>5, <1>6, <1>7, <1>8, <1>9, <1>10, <1>11, <1>12, <1>13, <1>14,
     <1>15 DEF Models!Next

LEMMA ModelTypeHolds == Spec => []Models!TypeOK
<1>1. Models!Init => ModelTypes
  <2>1. ASSUME Models!Init PROVE ModelTypes
    <3>1. job \in [Workers -> JobRecords] /\ job[Service].pc = "idle"
      BY <2>1, JobsTyped DEF Models!Init
    <3>2. jobs \in 0 .. MaxJobs
      BY <2>1, JobsTyped DEF Models!Init
    <3>3. /\ archive \in Models!Parts /\ model \in Models!Models
          /\ link \in {"none", "managed", "custom", "dir"} /\ download = "idle"
          /\ installed \in BOOLEAN /\ torn \in BOOLEAN /\ raced \in BOOLEAN
      BY <2>1 DEF Models!Init, Models!Parts, Models!Models
    <3> QED
      BY <3>1, <3>2, <3>3 DEF ModelTypes, Models!TypeOK, JobRecords, JobPlaces, Removing
  <2> QED
    BY <2>1
<1>2. ModelTypes /\ [Models!Next]_models => ModelTypes'
  BY ModelStep
<1>3. ModelTypes => Models!TypeOK
  BY DEF ModelTypes
<1> QED
  BY <1>1, <1>2, <1>3, EachAlone, PTL
-----------------------------------------------------------------------------
(***************************************************************************)
(* The types of them all.                                                  *)
(***************************************************************************)

LEMMA SettingsTypesHold == Spec => []Settings!TypeOK
<1>1. Stored => Settings!TypeOK
  BY DEF Stored, Sound, Connections, Settings!TypeOK
<1> QED
  BY <1>1, StoredHolds, PTL

\* Whichever component runs, its files, tables and tasks stay of the kinds it is
\* written for: no table refers to a session or a task that has not been made, no
\* queue holds an event that has not been published, no command is left with steps
\* that are none.
THEOREM ComponentTypes == Spec => []TypeOK
<1>1. /\ Tunnel!TypeOK /\ Daemon!TypeOK /\ Models!TypeOK /\ Settings!TypeOK
      /\ Remote!TypeOK /\ Events!TypeOK /\ Recognition!TypeOK /\ Weixin!TypeOK
      => TypeOK
  BY DEF TypeOK
<1> QED
  BY <1>1, TunnelTypeHolds, DaemonTypeHolds, ModelTypeHolds, SettingsTypesHold,
     RemoteTypesHold, EventTypesHold, RecognitionTypesHold, ChannelTypesHold, PTL
=============================================================================
