\* Three signers, single and multi signatures in every order, fees added
\* before or after them, over six request bodies.
CONSTANTS
  KeyOrder <- MCKeyOrder
  Requests <- MCRequests
  Signers = {"V1", "V2", "V3"}
SPECIFICATION Spec
INVARIANT TypeOK SignaturesVerify
PROPERTY SigningPayloadSpec
CHECK_DEADLOCK FALSE
