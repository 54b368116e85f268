--------------------------- MODULE MCTxnSignature ---------------------------
(***************************************************************************)
(* Requests for TxnSignature: the first unit test's body; an ATTRIB with a *)
(* raw value and a GET_ATTR with a hash, whose members are digested; an   *)
(* ATTRIB whose raw is null, which cannot be signed; a SET_FEES request   *)
(* whose operation has a fees member of its own, not skipped because it   *)
(* is not at top level; and a request that arrives with "signature": null *)
(* (the last unit test).  Three signers.                                     *)
(***************************************************************************)
EXTENDS TxnSignature

MCKeyOrder ==
  <<"1", "age", "dest", "enc", "fees", "hash", "identifier", "name", "operation",
    "phones", "protocolVersion", "raw", "reqId", "rust", "signature",
    "signatures", "type">>

Phones == JArr(<<JStr("1234567"), JStr("2345678"),
                 JObj("rust" :> JNum(5) @@ "age" :> JNum(1)), JNum(3)>>)

Test1 == JObj("name" :> JStr("John Doe") @@ "age" :> JNum(43)
              @@ "operation" :> JObj("dest" :> JNum(54)) @@ "phones" :> Phones)

Req(op, n) ==
  JObj("identifier" :> JStr("V1") @@ "reqId" :> JNum(n)
       @@ "protocolVersion" :> JNum(2) @@ "operation" :> op)

Attrib == Req(JObj("type" :> JStr("100") @@ "dest" :> JStr("V1") @@ "raw" :> JStr("ep")), 1)

GetAttr == Req(JObj("type" :> JStr("104") @@ "dest" :> JStr("V2") @@ "hash" :> JStr("h")), 2)

AttribNullRaw == Req(JObj("type" :> JStr("100") @@ "dest" :> JStr("V1") @@ "raw" :> JNull), 3)

SetFeesReq == Req(JObj("type" :> JStr("20000") @@ "fees" :> JObj("1" :> JNum(4))), 4)

MCRequests == {Test1, Attrib, GetAttr, AttribNullRaw, SetFeesReq,
               Put(Req(JObj("type" :> JStr("1") @@ "dest" :> JStr("V2")), 5), "signature", JNull)}

=============================================================================
