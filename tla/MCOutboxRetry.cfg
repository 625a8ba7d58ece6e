SPECIFICATION FairSpec
CONSTANTS
  m1 = m1
  m2 = m2
  m3 = m3
  p1 = p1
  p2 = p2
  w1 = w1
  w2 = w2
  d1 = d1
  d2 = d2
  t1 = t1
  t2 = t2
  r1 = r1
  NoOne = NoOne
  Msgs = {m1, m2}
  Producers = {p1}
  Writers = {w1}
  Workers = {d1}
  Tools = {}
  ToolIds = {}
  Service <- OneReplica
  Legacy = {}
  LegacyId <- NoLegacy
  FirstId = 1
  MaxId = 2
  Corrupt = {}
  Aged = {}
  AttemptLimits = {}
PROPERTY AbandonedClaimIsRetried
CHECK_DEADLOCK FALSE
