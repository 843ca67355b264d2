SPECIFICATION FairSpec
CONSTANTS
  NoThread = NoThread
  Threads = {t1, t2}
  Units <- MCUnits
  CnaUnits <- MCCnaUnits
  RegcmdLen <- MCRegcmdLen
  EnvMax <- MCEnvMax
  EnvSkip <- MCEnvSkip
  MaxSubmits = 3
INVARIANTS
  TypeOK
  WindowFilled
  SkipRespected
PROPERTIES
  DumpIntact
  SubmitReturns
