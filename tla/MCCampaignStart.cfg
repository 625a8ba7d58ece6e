SPECIFICATION Spec
CONSTANTS
  Windows = {1}
  CutOff <- MCCutOff
  PairBy <- MCPairBy
  Sources = {"market"}
  Arms = {"strategy-review"}
  Skew = 0
  Amounts = {}
  MaxTick = 4
INVARIANT StartIsAccounted
CHECK_DEADLOCK FALSE
