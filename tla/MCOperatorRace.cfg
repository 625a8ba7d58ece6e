SPECIFICATION FairSpec
CONSTANTS
  d1 = d1
  s1 = s1
  o1 = o1
  o2 = o2
  x1 = x1
  x2 = x2
  c1 = c1
  c2 = c2
  c3 = c3
  NoOne = NoOne
  Decisions = {d1}
  Sessions = {s1}
  Operators = {o1}
  Dispatchers = {x1, x2}
  CommandIds = {c1, c2}
  Deadline <- OneDeadline
  Expiry <- OneExpiry
  Disconnects = FALSE
  MaxVersion = 2
  MaxTime = 2
PROPERTY KillFencesSends
PROPERTY CommandsAreAnswered
CHECK_DEADLOCK FALSE
