SPECIFICATION Spec
CONSTANTS
  NumRows = 3
  Slices = {h1, h2}
  Scan <- MCScan
  State0 <- MCState0
  States <- MCStates
  MaxBatches = 1
  Slots = {s1, s2}
  Files = {f1}
  MaxCkpts = 2
  LoadLimit = 1
  MaxTurns = 3
  MaxSlotSaves = 2
  Capacity = 2
  Ks = {1, 2}
  DecayDays = {0}
  MaxAdds = 3
  MaxHits = 1
  MaxTime = 2
  MaxSaves = 2
  Weights = {w1, w2}
  Inputs = {x1, x2}
  Ctx = Ctx
  None = None
  MaxCalls = 2
  MaxLoads = 4
INVARIANTS
  SsmTypeOK
  SourceIntact
  SlotTypeOK
  SidecarNotNewer
  StoreTypeOK
  Parallel
  LastUseOfHits
  GpuTypeOK
  NothingLeaks
  DeviceUndisturbed
  ResultIsProduct
PROPERTIES
  ImplementsCopy
  OnlyOwnedRows
  RestoresSaved
  NeverPartial
  ForgetsColdest
  RollsBack
  MatmulReturns
CHECK_DEADLOCK FALSE
