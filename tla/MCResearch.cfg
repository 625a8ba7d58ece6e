SPECIFICATION Spec
CONSTANTS
  None = None
  m1 = m1
  m2 = m2
  Symbols = {"btc", "eth"}
  Bars <- MCBars
  Frames <- MCFrames
  MaxFrames = 4
  Sims <- MCSims
  Campaigns <- MCCampaigns
SYMMETRY Twins
INVARIANTS TypeOK TapeIsSound JournalVerifies NoHindsight CountIsEarned SpendIsBounded
CHECK_DEADLOCK FALSE
