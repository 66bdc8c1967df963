SPECIFICATION Spec
CONSTANTS
  Threads = {t1}
  NoThread = none
  Clicks = {c1}
  MaxFaults = 1
  MaxToggles = 0
  MaxRefusals = 0
INVARIANT NewChatStays
CHECK_DEADLOCK FALSE
