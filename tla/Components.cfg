\* All components that share no state, one at a time.
CONSTANTS
  None = None
  NoId = NoId
  Local = Local
  NoFile = NoFile
  Unreadable = Unreadable
  Nothing = Nothing
  Cli = {c1, c2}
  Pids = {p1, p2}
  MaxStarts = 2
  Configs = {k1, k2}
  MaxCommands = 4
  MaxCrashes = 1
  Workers = {svc, cmd}
  Service = svc
  MaxJobs = 5
  Hosts = {h1, h2}
  Paths = {d1}
  Projects = {j1}
  Threads = {t1, t2}
  Desktop = {t2}
  MaxSaves = 4
  Remotes = {r1}
  Tasks = {q1, q2, q3}
  MaxSessions = 2
  MaxVersions = 2
  MaxRequests = 3
  Clients = {b1, b2}
  MaxEvents = 3
  MaxPings = 2
  MaxSpeechSaves = 2
  MaxWords = 1
  Accounts = {a1}
  MaxMessages = 2
  MaxTasks = 3
SPECIFICATION Spec
SYMMETRY TaskSymmetry
CHECK_DEADLOCK FALSE
INVARIANTS
  TypeOK
  OnlyOursSignalled
  NothingLeftBehind
  EnvironmentPresent
  OnlyVerifiedInstalled
  StaysUsable
  CopiesAgree
  CurrentSettings
  NoneDropped
  NothingLost
  HandledOnce
  PollsAreTracked
PROPERTIES
  EndsAsAsked
  EditKeepsProjects
