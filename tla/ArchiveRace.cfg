SPECIFICATION Spec
CONSTANTS
  Threads = {t1}
  Existing = {t1}
  Conns = {c1, c2}
  Requests = {}
  Sessions = {s1, s2, s3, s4}
  Commands = {"subscribe", "archive"}
  Faults = {}
  NoThread = NoThread
  NoSession = NoSession
INVARIANTS
  AckedStaysSubscribed
SYMMETRY MCSymmetry
