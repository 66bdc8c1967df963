SPECIFICATION FairSpec
CONSTANTS
  Threads = {t1, t2}
  NoThread = none
  Clicks = {c1}
  MaxFaults = 2
  MaxToggles = 2
  MaxRefusals = 1
INVARIANTS TypeOK RetryPending StatusIsTrue LeftAlone
PROPERTIES RetriesBackOff Recovers Resubscribes
CHECK_DEADLOCK FALSE
