SPECIFICATION FairSpec
CONSTANTS
  Threads = {t1}
  Existing = {}
  Conns = {c1, c2}
  Requests = {r1}
  Sessions = {s1, s2}
  Commands = {"subscribe", "unsubscribe", "archive", "start"}
  Faults = {"open", "follow", "archive", "stop"}
  NoThread = NoThread
  NoSession = NoSession
INVARIANTS
  TypeOK
  RegisteredIsRunning
  NoSessionLeak
PROPERTIES
  CommandsEnd
