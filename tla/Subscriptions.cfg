SPECIFICATION Spec
CONSTANTS
  Threads = {t1, t2}
  Existing = {t1, t2}
  Conns = {c1, c2, c3}
  Requests = {}
  Sessions = {s1, s2, s3}
  Commands = {"subscribe", "unsubscribe", "prompt"}
  Faults = {}
  NoThread = NoThread
  NoSession = NoSession
INVARIANTS
  FollowingTracksSubscribers
  AckedStaysSubscribed
SYMMETRY MCSymmetry
