CONSTANTS
  MaxLen = 5
  LedgerSizes <- MCLedgerSizesZero
  SeqNos <- MCSeqNos
  U64 = 16
  MaxTurns = 4
  None = None
  Undecodable = Undecodable
SPECIFICATION Spec


CHECK_DEADLOCK FALSE
PROPERTY TurnsTerminateAlways
