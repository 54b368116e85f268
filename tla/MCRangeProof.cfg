CONSTANTS
  KeyStrs <- MCKeyStrs
  Vals = {v1}
  Bounds <- MCBounds
  MaxKvs = 4
  None = None
SPECIFICATION Spec
INVARIANT TypeOK RangeExact HonestRangeVerifies
CHECK_DEADLOCK FALSE
