SPECIFICATION Spec
CONSTANTS
  m1 = m1
  m2 = m2
  m3 = m3
  p1 = p1
  p2 = p2
  w1 = w1
  w2 = w2
  d1 = d1
  d2 = d2
  t1 = t1
  t2 = t2
  r1 = r1
  NoOne = NoOne
  Msgs = {m1, m2, m3}
  Producers = {p1, p2}
  Writers = {w1}
  Workers = {d1}
  Tools = {t1, t2}
  ToolIds = {r1}
  Service <- OneReplica
  Legacy = {m1, m2}
  LegacyId <- TwoOldRows
  FirstId = 3
  MaxId = 4
  Corrupt = {m2}
  Aged = {m1}
  AttemptLimits = {1, 3}
SYMMETRY RecoverySymmetry
INVARIANT PublishedWasAccepted
 
PROPERTY ImplementsContract
CHECK_DEADLOCK FALSE
