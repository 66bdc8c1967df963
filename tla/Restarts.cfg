SPECIFICATION Spec
CONSTANTS
  Threads = {t1, t2}
  Existing = {t1, t2}
  Conns = {c1, c2}
  Requests = {r1}
  Sessions = {s1, s2, s3, s4}
  Commands = {"subscribe", "unsubscribe", "restart"}
  Faults = {"open", "follow", "stop"}
  NoThread = NoThread
  NoSession = NoSession
INVARIANTS
  SubscribersAreFed
  NoOrphanQueue
SYMMETRY MCSymmetry
