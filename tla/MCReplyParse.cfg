CONSTANTS
  Types <- MCAllTypes
  PastTypes <- MCPastTypes
  Strs <- MCStrs
  Nums <- MCNums
  Requests <- MCRequests
  SPTypes <- MCSPTypes
  MultiTypes <- MCMultiTypes
  RepliesFor <- MCRepliesFor
  None = None
SPECIFICATION ReplySpec
INVARIANT DerivationAsSpecified
INVARIANT ValueAsSpecified
INVARIANT FromAccumulatorChecked
CHECK_DEADLOCK FALSE
