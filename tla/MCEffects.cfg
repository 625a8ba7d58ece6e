SPECIFICATION PartsSpec
CONSTANTS
  o1 = o1
  o2 = o2
  o3 = o3
  k1 = k1
  k2 = k2
  x1 = x1
  x2 = x2
  None = None
  Effects = {o1, o2, o3, k1, k2}
  Compensations = {k1, k2}
  Tasks = {x1, x2}
  Configs <- TwoConfigs
  MinReserve = 1
  MaxTime = 3
  EffectKeys = {"e1"}
  Senders = {"s1", "s2", "s3"}
  KeyOf <- OneKey
  ContentOf <- Contents
  Answers = {"OPEN", "FILLED"}
  RecoveryDelay = 2
  CallBound = 1
  JournalTime = 4
  MaxFaults = 2
  Plans <- TwoPlans
  Symbols = {"btc", "eth"}
  Metrics = {"basis", "spread"}
  Observations <- Seen
  Window = 4
  Period = 3
  Slack = 1
  MinShare = 70
  Quantile = 60
  Ttl = 1
  EvidenceEffects = 1
  EvidenceTime = 5
SYMMETRY TaskSymmetry
INVARIANTS PartsTypeOK OneOrderPerEffect JournalIsTrue WindowBound OneLiveEntry SessionIsAccounted ArmedOnEvidence
PROPERTIES OnlyCompensationsCrowdOut StopFencesSends
CHECK_DEADLOCK FALSE
