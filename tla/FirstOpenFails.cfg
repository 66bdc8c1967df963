SPECIFICATION Spec
CONSTANTS
  Threads = {t1}
  Existing = {t1}
  Conns = {c1, c2}
  Requests = {}
  Sessions = {s1, s2}
  Commands = {"subscribe"}
  Faults = {"open"}
  NoThread = NoThread
  NoSession = NoSession
INVARIANTS
  FollowingTracksSubscribers
SYMMETRY MCSymmetry
