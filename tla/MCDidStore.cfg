CONSTANTS
  Threads <- MCThreads2
  Verkeys = {k1, k2}
  BadSeed = BadSeed
  Methods = {m1, m2}
  BadMethods = {}
  Metas = {a}
  None = None
  MaxOps = 3
  MaxFaults = 1
SPECIFICATION Spec
INVARIANT TypeOK KeysBacked CreatedDidNeverDuplicated
CHECK_DEADLOCK FALSE
