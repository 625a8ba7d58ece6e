SPECIFICATION FairSpec
CONSTANTS
  None = None
  Procs = {"executor", "console"}
  Tasks <- GateTasks
  Home <- GateHome
  Path <- GatePath
  GatePool = 5
  Executors = {"e1", "e2"}
  MaxFaults = 3
  Migrations = {16, 17, 18, 26, 28}
  Services = {"runtime", "controlled"}
  Manifest <- Manifests
  Histories = {{}, {16}, {16, 17}, {16, 18}}
  Writers = {"w1", "w2"}
  Expected <- Reviewed
  Producers = {"quant"}
  ProducerOf <- Offline
  WriterPool = 2
  Windows = {1}
  CutOff <- CutOffs
  PairBy <- PairBys
  Sources = {"market"}
  Arms = {"strategy-review"}
  Skew = 0
  Amounts = {}
  MaxTick = 4
INVARIANTS TypeOK BarrierHolds SchemaIsGuarded
PROPERTIES NobodyIsStuck CampaignIsSealed
CHECK_DEADLOCK FALSE
