\* Violation: a participants list that repeats the faulty node.
CONSTANTS
  PartSeqs <- MCPartSeqs
  Values <- MCValues
  MaxProofs = 1
INVARIANT AttestedValueAuthentic
CONSTANTS
  n1 = n1
  n2 = n2
  n3 = n3
  n4 = n4
  x1 = x1
  r1 = r1
  r2 = r2
  BadRoot = BadRoot
  None = None
  Malformed = Malformed
  Nodes <- MCNodes
  Unknown = {x1}
  Byz = {n4}
  F = 1
  Roots = {r1, r2}
  Times = {0, 1, 2}
  Threshold = 1
  HonestValues <- MCHonestValues
SPECIFICATION Spec
CHECK_DEADLOCK FALSE
