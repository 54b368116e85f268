CONSTANTS
  MaxLen = 5
  LedgerSizes <- MCLedgerSizes
  SeqNos <- MCSeqNos
  U64 = 16
  MaxTurns = 4
  None = None
  Undecodable = Undecodable
SPECIFICATION Spec
INVARIANT TypeOK HonestProofVerifies VerifiedLeafInLedger VerifiedPositionWhenSizeTrue
PROPERTY TurnsTerminate
CHECK_DEADLOCK FALSE
