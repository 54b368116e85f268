---------------------------- MODULE MCReplyParse ----------------------------
(* One request of each built-in read type (GET_REVOC_REG_DELTA with and   *)
(* without `from`, GET_TXN_AUTHR_AGRMT by latest, digest and version), and *)
(* for each type replies without data, with data as an object, as a string *)
(* with and without whitespace, as a string that is no JSON, with the     *)
(* proof material present or missing, and with the type's optional parts   *)
(* present or missing.                                                     *)
EXTENDS ReplyParse, MCKeyDerivation

MCSPTypes == MCAllTypes \ {"GET_VALIDATOR_INFO"}

MCMultiTypes == {"GET_REVOC_REG_DELTA"}

SPOk == JObj("proof_nodes" :> JStr("p") @@ "root_hash" :> JStr("r")
              @@ "multi_signature" :> JStr("ms"))

SPNoNodes == JObj("root_hash" :> JStr("r") @@ "multi_signature" :> JStr("ms"))

Reply(d, sp) ==
  JObj("data" :> d @@ "seqNo" :> JNum(1) @@ "txnTime" :> JNum(2) @@ "state_proof" :> sp)

Text(j, ws) == [t |-> "text", json |-> j, ws |-> ws]

Val == JObj("k" :> JStr("a"))

NymData == JObj("identifier" :> JStr("a") @@ "verkey" :> JStr("v"))

SchemaData(extra) ==
  JObj(("name" :> JStr("a") @@ "version" :> JStr("b"))
       @@ (IF extra THEN "attrNames" :> JArr(<<JStr("x")>>) ELSE <<>>))

DeltaData(to, from, spf) ==
  JObj(("value" :> JObj((IF to THEN "accum_to" :> Val ELSE <<>>)
                        @@ (IF from THEN "accum_from" :> Val ELSE <<>>)))
       @@ (IF spf THEN "stateProofFrom" :> SPOk ELSE <<>>))

RuleData == { JArr(<<JObj("constraint" :> Val)>>), JArr(<<JObj("other" :> Val)>>),
              JArr(<<>>) }

TaaData == JObj("text" :> JStr("a") @@ "version" :> JStr("b"))

Txn(type, raw) ==
  JObj("type" :> JStr(type)
       @@ "data" :> JObj(IF raw = None THEN "enc" :> JStr("e") ELSE "raw" :> JStr(raw)))

TxnData(type, raw, sig) ==
  JObj(("auditPath" :> JArr(<<JStr("h")>>) @@ "rootHash" :> JStr("t")
        @@ "ledgerSize" :> JNum(3) @@ "txn" :> Txn(type, raw)
        @@ "txnMetadata" :> JObj("seqNo" :> JNum(7)))
       @@ (IF sig THEN "multi_signature" :> JStr("dms") ELSE <<>>))

(* Data per type; the ATTRIB transactions of GET_TXN carry a non-empty    *)
(* raw, or an enc.                                                         *)
MCData(t) ==
  CASE t = "GET_NYM" -> {NymData, Text(NymData, TRUE)}
    [] t = "GET_ATTR" -> {Val, Text(Val, TRUE), Text(Val, FALSE), [t |-> "badtext"], JNum(3)}
    [] t = "GET_SCHEMA" -> {SchemaData(FALSE), SchemaData(TRUE), JArr(<<>>)}
    [] t = "GET_REVOC_REG_DELTA" ->
         {DeltaData(to, from, spf) : to, from, spf \in BOOLEAN}
    [] t = "GET_AUTH_RULE" -> RuleData
    [] t = "GET_TXN_AUTHR_AGRMT" -> {TaaData}
    [] t = "GET_TXN" ->
         {TxnData(ty, raw, sig) : ty \in {"1", "100"}, raw \in {"s", None}, sig \in BOOLEAN}
         \cup {JObj("auditPath" :> JArr(<<>>) @@ "rootHash" :> JStr("t")
                    @@ "ledgerSize" :> JNum(0))}
    [] OTHER -> {Val}

MCRepliesFor(t) ==
  { Reply(d, sp) : d \in MCData(t) \cup {JNull}, sp \in {SPOk, SPNoNodes} }
  \cup (IF t = "GET_TXN" THEN { JObj("data" :> d) : d \in MCData(t) } ELSE {})

=============================================================================
