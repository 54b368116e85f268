\* Two ParsedSP items per reply: the loop, its early returns and the
\* multi-signature consistency check, and the refinement of the one-step
\* decision.
CONSTANTS
  n1 = n1
  n2 = n2
  n3 = n3
  n4 = n4
  x1 = x1
  r1 = r1
  r2 = r2
  BadRoot = BadRoot
  None = None
  Malformed = Malformed
  Nodes <- MCNodes
  Unknown = {x1}
  Byz = {n4}
  F = 1
  Roots = {r1, r2}
  Values <- MCValuesPair
  HonestValues <- MCHonestValues
  PartSeqs <- MCPartSeqsQuorum
  MaxProofs = 2
  Times = {0, 1, 2}
  Threshold = 1
SPECIFICATION Spec
INVARIANT TypeOK AssertsOnlyFromConsistentProofs
PROPERTY EngineSpec
CHECK_DEADLOCK FALSE
