SPECIFICATION FairSpec
CONSTANTS
  e1 = e1
  e2 = e2
  e3 = e3
  m1 = m1
  b1 = b1
  b2 = b2
  c1 = c1
  p1 = p1
  p2 = p2
  d1 = d1
  Nobody = Nobody
  Envelopes = {e1, e2, e3}
  Msgs = {m1}
  Bodies = {b1, b2}
  MsgOf <- ReusedId
  BodyOf <- ReusedBody
  Consumers = {c1}
  Procs = {p1, p2, d1}
  ConsumerOf <- OneStandalone
  Direct = {d1}
INVARIANT EffectsOnce
INVARIANT AckedIsCompleted
PROPERTY EventuallyAcked
CHECK_DEADLOCK FALSE
