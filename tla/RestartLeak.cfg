SPECIFICATION Spec
CONSTANTS
  Threads = {t1}
  Existing = {t1}
  Conns = {c1, c2}
  Requests = {r1, r2}
  Sessions = {s1, s2, s3, s4}
  Commands = {"subscribe", "restart"}
  Faults = {}
  NoThread = NoThread
  NoSession = NoSession
INVARIANTS
  OneSessionPerThread
SYMMETRY MCSymmetry
