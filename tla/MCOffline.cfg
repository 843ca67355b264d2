SPECIFICATION Spec
CONSTANTS
  KitTile = 2
  NTiles = {4, 8, 16}
  CTile = 2
  IntMax = 127
  KitShapes <- MCKitShapes
  Ms = {1, 2}
  \* Blocks of two kernels, two generations: K = 2 gives a stride between
  \* N / 2 and N, K = 3 one beyond N; K = 1 and K = 9 are refused.
  N = 6
  HN = 6
  WBlock = 2
  Half = 1
  Gens = 2
  Ks = {1, 2, 3, 9}
  HK = 4
  TagMax = 64
  Cap = 250
  PoisonDepth = 170
  Tensors <- MCTensors
  Probed = {1, 2}
  NTile = 2
  KTile = 2
  NMults = {3, 4}
  BankGroups = {0, 2, 4, 8}
  BankRuns = 2
  NLayers = 3
  NSamples = 2
  LinearOrder <- MCLinearOrder
  Circle = 6
  Near = 1
  PromoteAfter = 2
  Truths = {"A", "B"}
  Sightings = 3
  NReaders = 3
  Events = 4
  Cartridges = {"a", "b", "c"}
  Tries = 2
  Chains = {1, 2, 3}
  Reps = 2
  Shapes = 2
  Times = {0, 1, 2}
  Block = 4
  Widths = {3, 4, 6, 8, 9}
  Groups = {0, 1, 2, 3, 4, 8}
  Layers = 2
  NKV = 2
  Ratio = 2
  Runs = 4
INVARIANTS
  CatchesDamage
  
  BankIndexed
  ErrorsOnce
  CalibratedOnQuantized
  SameFunction
  VerdictTrue
  HandlesFreed
  MeasuredClean
  NameIsFirstTruth
  ReachedCounted
  NoOtherCartridge
PROPERTIES
  HealthVerdictTrue
CHECK_DEADLOCK FALSE
