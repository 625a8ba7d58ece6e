SPECIFICATION FairSpec
CONSTANTS
  m1 = m1
  m2 = m2
  m3 = m3
  p1 = p1
  p2 = p2
  w1 = w1
  w2 = w2
  d1 = d1
  d2 = d2
  t1 = t1
  t2 = t2
  r1 = r1
  NoOne = NoOne
  Msgs = {m1, m2, m3}
  Producers = {p1}
  Writers = {w1, w2}
  Workers = {d1, d2}
  Tools = {}
  ToolIds = {}
  Service <- OneService
  Legacy = {m1}
  LegacyId <- OldRow
  FirstId = 2
  MaxId = 4
  Corrupt = {}
  Aged = {}
  AttemptLimits = {1, 3}
INVARIANT AtMostOncePublish
INVARIANT CausalOrder
PROPERTY EventuallySettledOrEscalated
CHECK_DEADLOCK FALSE
