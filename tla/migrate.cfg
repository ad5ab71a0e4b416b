CONSTANTS
  s1 = s1  s2 = s2
  Runners <- TwoRunners
  MaxFiles = 3
  MaxFailures = 2
SPECIFICATION MigrateSpec
INVARIANTS MigrateTypeOK LedgerIsSchema InOrder ServesItsSchema MigrateInv
PROPERTY EverybodyServes
CHECK_DEADLOCK FALSE
