----------------------------- MODULE ReplyParse -----------------------------
(***************************************************************************)
(* parse_generic_reply_for_proof_checking and the built-in reply parsers   *)
(* of libindy_vdr/src/state_proof/mod.rs (_parse_reply_for_builtin_sp,     *)
(* _parse_reply_for_sp, _parse_reply_for_multi_sp,                         *)
(* _parse_reply_for_proof_value): how a reply to a built-in read request   *)
(* becomes the list of ParsedSP to verify, under the key KeyDerivation     *)
(* derived from the request.                                               *)
(*                                                                         *)
(* A JSON value is a tagged record: JNull, JStr(s), JNum(n), JObj(f) with  *)
(* f a function from member names, JArr(s).  json[k] is Get, value[k] = x  *)
(* is Put.  Compact serialization (to_string), base64, SHA-256 with hex    *)
(* are injective and each is a record naming its input: Ser(j), B64(x),    *)
(* Hex(x).  A data field sent as a string is [t |-> "text"] with the JSON  *)
(* it holds and whether it is spelled with whitespace, so that its         *)
(* original text differs from the serialization of what it parses to; one *)
(* that is no JSON is [t |-> "badtext"].  The reply's type is taken to be  *)
(* the request's.                                                          *)
(***************************************************************************)
EXTENDS KeyDerivation, TLC

CONSTANTS
  SPTypes,        \* REQUESTS_FOR_STATE_PROOFS
  MultiTypes,     \* REQUESTS_FOR_MULTI_STATE_PROOFS
  RepliesFor(_)   \* the replies a node may send to a request of a type

(* The specification (section 4.4) names GET_REVOC_REG_DELTA as the one   *)
(* multi-proof type; the constant is defined outside this tree.           *)
ASSUME ReplyParseAssumption ==
  /\ MultiTypes \subseteq SPTypes
  /\ MultiTypes = {"GET_REVOC_REG_DELTA"}

VARIABLES
  reply,    \* the reply JSON
  parsed    \* [done |-> FALSE] before, then sps the Option<Vec<ParsedSP>>

rvars == <<req, ver, out, reply, parsed>>

-----------------------------------------------------------------------------
JNull == [t |-> "null"]

JStr(s) == [t |-> "str", v |-> s]

JNum(n) == [t |-> "num", v |-> n]

JObj(f) == [t |-> "obj", v |-> f]

JArr(s) == [t |-> "arr", v |-> s]

Ser(j) == [t |-> "ser", of |-> j]

B64(x) == [t |-> "b64", of |-> x]

Hex(x) == [t |-> "hex", of |-> x]

Get(j, k) == IF j.t = "obj" /\ k \in DOMAIN j.v THEN j.v[k] ELSE JNull

Put(j, k, x) == JObj(k :> x @@ j.v)

Pick(j, ks) == JObj([k \in ks |-> Get(j, k)])

Err == [ok |-> FALSE]

Ok(x) == [ok |-> TRUE, v |-> x]

(* A variant that keeps the re-serialized data instead of the original     *)
(* string.                                                                 *)
NormalizeDataReserialized(d) ==
  CASE d.t = "null" -> Ok([data |-> None, parsed |-> JNull])
    [] d.t \in {"obj", "arr"} -> Ok([data |-> Ser(d), parsed |-> d])
    [] d.t = "text" -> Ok([data |-> Ser(d.json), parsed |-> d.json])
    [] OTHER -> Err

(* The (data, parsed_data) match on json_msg["data"].                      *)
NormalizeData(d) ==
  CASE d.t = "null" -> Ok([data |-> None, parsed |-> JNull])
    [] d.t = "text" ->
         Ok([data |-> IF d.ws THEN [t |-> "spaced", of |-> d.json] ELSE Ser(d.json),
             parsed |-> d.json])
    [] d.t \in {"obj", "arr"} -> Ok([data |-> Ser(d), parsed |-> d])
    [] OTHER -> Err

StartsWith(key, p) == Len(key) >= Len(p) /\ SubSeq(key, 1, Len(p)) = p

_is_full_taa_state_value_expected(key) == StartsWith(key, <<"2", ":", "d", ":">>)

(* A variant that knows only the Node1_4 marker.                           *)
RevDeltaDigitOnly(key) == StartsWith(key, <<"6", ":">>)

_if_rev_delta_multi_state_proof_expected(key) ==
  StartsWith(key, <<Ctl(6), ":">>) \/ StartsWith(key, <<"6", ":">>)

(* The ATTRIB adjustment of a GET_TXN value: raw, else enc, by the hex of  *)
(* its SHA-256 unless it is empty.                                         *)
AdjustAttrib(value) ==
  LET txn == Get(value, "txn")
      dt == Get(txn, "data")
      fix(f) == Put(value, "txn", Put(txn, "data",
                  Put(dt, f, IF Get(dt, f).v = "" THEN JStr("") ELSE Hex(Get(dt, f)))))
  IN  CASE Get(txn, "type") # JStr("100") -> value
        [] Get(dt, "raw").t = "str" -> fix("raw")
        [] Get(dt, "enc").t = "str" -> fix("enc")
        [] OTHER -> value

TxnFields == {"txn", "txnMetadata", "ver", "reqSignature"}

(* _parse_reply_for_proof_value: Err, or Ok of the value string or None.   *)
_parse_reply_for_proof_value(m, data, pd, x, key) ==
  LET sq == Get(m, "seqNo")
      tm == Get(m, "txnTime")
      v0 == CASE x = "GET_NYM" -> JObj("seqNo" :> sq @@ "txnTime" :> tm)
              [] x = "GET_AUTH_RULE" -> JObj(<<>>)
              [] x # "GET_TXN_AUTHR_AGRMT" \/ _is_full_taa_state_value_expected(key) ->
                   JObj("lsn" :> sq @@ "lut" :> tm)
              [] OTHER -> JObj(<<>>)
      present == {f \in TxnFields : Get(pd, f) # JNull}
      rest == DOMAIN pd.v \ {"name", "version"}
      accum_to == Get(Get(pd, "value"), "accum_to")
      StrOr(j) == IF j.t = "str" THEN j.v ELSE ""
      value ==
        CASE x = "GET_TXN" ->
               IF present = {} THEN None ELSE AdjustAttrib(Pick(pd, present))
          [] x = "GET_NYM" ->
               Put(Put(Put(v0, "identifier", Get(pd, "identifier")),
                   "role", Get(pd, "role")), "verkey", Get(pd, "verkey"))
          [] x = "GET_ATTR" -> Put(v0, "val", Hex(data))
          [] x \in {"GET_CRED_DEF", "GET_REVOC_REG_DEF", "GET_REVOC_REG",
                    "GET_TXN_AUTHR_AGRMT_AML"} -> Put(v0, "val", pd)
          [] x = "GET_AUTH_RULE" ->
               IF pd.t = "arr" /\ pd.v # <<>> THEN Get(pd.v[1], "constraint") ELSE None
          [] x = "GET_SCHEMA" /\ pd.t = "obj" ->
               IF rest = {} THEN None ELSE Put(v0, "val", Pick(pd, rest))
          [] x = "GET_REVOC_REG_DELTA" ->
               IF accum_to = JNull THEN None ELSE Put(v0, "val", accum_to)
          [] x = "GET_TXN_AUTHR_AGRMT" ->
               IF _is_full_taa_state_value_expected(key) THEN Put(v0, "val", pd)
               ELSE Hex(JStr(StrOr(Get(pd, "version")) \o StrOr(Get(pd, "text"))))
          [] OTHER -> [t |-> "error"]
  IN  CASE data = None -> Ok(None)
        [] value # None /\ value.t = "error" -> Err
        [] value = None -> Ok(None)
        [] value.t \in {"str", "hex"} -> Ok(value)
        [] OTHER -> Ok(Ser(value))

SP(root, nodes, sig, key, value, vt) ==
  [root_hash |-> root, proof_nodes |-> nodes, multi_signature |-> sig,
   kvs |-> <<<<B64(key), value>>>>, verification_type |-> vt]

(* _parse_reply_for_sp: the proof material, then the value.               *)
_parse_reply_for_sp(m, data, pd, x, key) ==
  LET sp == Get(m, "state_proof")
      val == _parse_reply_for_proof_value(m, data, pd, x, key)
      sig == IF sp.t = "obj" /\ "multi_signature" \in DOMAIN sp.v
             THEN sp.v["multi_signature"] ELSE Get(pd, "multi_signature")
  IN  CASE x # "GET_TXN" /\ Get(sp, "proof_nodes").t = "str"
                         /\ Get(sp, "root_hash").t = "str" /\ val.ok ->
             Ok(SP(Get(sp, "root_hash"), Get(sp, "proof_nodes"),
                   Get(sp, "multi_signature"), key, val.v, [kind |-> "Simple"]))
        [] x = "GET_TXN" /\ Get(pd, "auditPath").t = "arr" /\ Get(pd, "rootHash").t = "str"
                         /\ Get(pd, "ledgerSize").t = "num" /\ val.ok ->
             Ok(SP(Get(pd, "rootHash"), B64(Ser(Get(pd, "auditPath"))), sig, key, val.v,
                   [kind |-> "MerkleTree", len |-> Get(pd, "ledgerSize").v]))
        [] OTHER -> Err

(* _parse_reply_for_multi_sp: Ok(None) when no second proof is expected.   *)
(* The guards are disjoint, as the match arms are tried in order.         *)
_parse_reply_for_multi_sp(pd, x, key) ==
  LET sp == Get(pd, "stateProofFrom")
      af == Get(Get(pd, "value"), "accum_from")
  IN  CASE x = "GET_REVOC_REG_DELTA" /\ ~_if_rev_delta_multi_state_proof_expected(key) ->
             Ok(None)
        [] x = "GET_REVOC_REG_DELTA" /\ _if_rev_delta_multi_state_proof_expected(key)
                                     /\ Get(sp, "proof_nodes").t = "str"
                                     /\ Get(sp, "root_hash").t = "str" ->
             Ok(SP(Get(sp, "root_hash"), Get(sp, "proof_nodes"),
                   Get(sp, "multi_signature"), key,
                   IF af = JNull THEN None
                   ELSE Ser(JObj("lsn" :> Get(af, "seqNo") @@ "lut" :> Get(af, "txnTime")
                                 @@ "val" :> af)),
                   [kind |-> "Simple"]))
        [] OTHER -> Err

(* The early returns in the order the code takes them.                     *)
_parse_reply_for_builtin_sp(m, x, key) ==
  LET n == NormalizeData(Get(m, "data"))
      s == _parse_reply_for_sp(m, n.v.data, n.v.parsed, x, key)
      t == _parse_reply_for_multi_sp(n.v.parsed, x, key)
  IN  IF ~n.ok \/ ~s.ok THEN None
      ELSE IF x \notin MultiTypes THEN <<s.v>>
      ELSE IF ~t.ok THEN None
      ELSE IF t.v = None THEN <<s.v>>
      ELSE <<s.v, t.v>>

(* A reply of a type without a built-in parser goes to the custom parser, *)
(* which is not modelled: None.                                            *)
parse_generic_reply_for_proof_checking(m, x, key) ==
  IF x \notin SPTypes \/ key = None THEN None
  ELSE _parse_reply_for_builtin_sp(m, x, key)

ReplyInit ==
  /\ Init
  /\ reply \in RepliesFor(req.type)
  /\ parsed = [done |-> FALSE]

(* check_state_proof hands the reply to the parser with the request's key. *)
parse_reply ==
  /\ out # None /\ ~parsed.done
  /\ parsed' = [done |-> TRUE,
                sps |-> parse_generic_reply_for_proof_checking(reply, req.type, out.key)]
  /\ UNCHANGED <<req, ver, out, reply>>

ReplyNext ==
  \/ derive /\ UNCHANGED <<reply, parsed>>
  \/ parse_reply

ReplySpec == ReplyInit /\ [][ReplyNext]_rvars
-----------------------------------------------------------------------------
(* The expected value of the specification (section 4.4.1), from the      *)
(* reply JSON, the type and the key; NoSpecValue where the section says    *)
(* nothing (an accum_to or a constraint that is missing, a GET_TXN reply   *)
(* with none of its four fields, a GET_SCHEMA reply whose data is no      *)
(* object).  A reply without data proves absence ("none means prove       *)
(* absence").                                                              *)
NoSpecValue == [t |-> "unspecified"]

SpecValue(m, x, key) ==
  LET d == Get(m, "data")
      pd == IF d.t = "text" THEN d.json ELSE d
      raw == IF d.t = "text" /\ d.ws THEN [t |-> "spaced", of |-> d.json]
             ELSE Ser(pd)
      wrap(v) == Ser(JObj("lsn" :> Get(m, "seqNo") @@ "lut" :> Get(m, "txnTime")
                          @@ "val" :> v))
      txn == Get(pd, "txn")
      dt == Get(txn, "data")
      hashed == [f \in DOMAIN dt.v |->
                   IF f \in {"raw", "enc"} /\ dt.v[f].t = "str" THEN Hex(dt.v[f]) ELSE dt.v[f]]
      fields == {f \in TxnFields : Get(pd, f) # JNull}
  IN
  CASE d.t = "null" -> None
    [] x = "GET_NYM" ->
         Ser(JObj([f \in {"seqNo", "txnTime"} |-> Get(m, f)]
                  @@ [f \in {"identifier", "role", "verkey"} |-> Get(pd, f)]))
    [] x = "GET_ATTR" -> wrap(Hex(raw))
    [] x = "GET_SCHEMA" ->
         IF pd.t # "obj" THEN NoSpecValue
         ELSE IF DOMAIN pd.v \subseteq {"name", "version"} THEN None
         ELSE wrap(JObj([f \in DOMAIN pd.v \ {"name", "version"} |-> pd.v[f]]))
    [] x \in {"GET_CRED_DEF", "GET_REVOC_REG_DEF", "GET_REVOC_REG",
              "GET_TXN_AUTHR_AGRMT_AML"} -> wrap(pd)
    [] x = "GET_REVOC_REG_DELTA" ->
         IF Get(Get(pd, "value"), "accum_to") = JNull THEN NoSpecValue
         ELSE wrap(Get(Get(pd, "value"), "accum_to"))
    [] x = "GET_AUTH_RULE" ->
         IF pd.t = "arr" /\ pd.v # <<>> THEN Ser(Get(pd.v[1], "constraint"))
         ELSE NoSpecValue
    [] x = "GET_TXN_AUTHR_AGRMT" ->
         IF SubSeq(key, 1, 4) = <<"2", ":", "d", ":">> THEN wrap(pd)
         ELSE IF {Get(pd, "version").t, Get(pd, "text").t} # {"str"} THEN NoSpecValue
         ELSE Hex(JStr(Get(pd, "version").v \o Get(pd, "text").v))
    [] x = "GET_TXN" ->
         IF fields = {} THEN NoSpecValue
         ELSE IF Get(txn, "type") = JStr("100") /\ dt.t = "obj"
         THEN Ser(JObj([f \in fields |-> IF f = "txn"
                                         THEN JObj("data" :> JObj(hashed) @@ txn.v)
                                         ELSE pd.v[f]]))
         ELSE Ser(JObj([f \in fields |-> pd.v[f]]))
    [] OTHER -> NoSpecValue

(* The value a built-in reply is checked against is the expected value of *)
(* the specification: what _parse_reply_for_proof_value builds from the    *)
(* reply (per type, from the raw data text, with lsn/lut, the TAA digest, *)
(* the ATTRIB hashing of GET_TXN) is what the ledger stores under the key. *)
ValueAsSpecified ==
  parsed.done /\ parsed.sps # None =>
    \/ SpecValue(reply, req.type, out.key) = NoSpecValue
    \/ parsed.sps[1].kvs[1][2] = SpecValue(reply, req.type, out.key)

(* A reply to a GET_REVOC_REG_DELTA request with `from` is handed on for  *)
(* checking only together with a second proof, of the accumulator at      *)
(* `from`, on both protocol versions; a reply to one without `from`        *)
(* carries one proof.  This ties the marker parse_key_from_request_for_    *)
(* builtin_sp writes to the prefixes _if_rev_delta_multi_state_proof_      *)
(* expected looks for.                                                     *)
FromAccumulatorChecked ==
  parsed.done /\ parsed.sps # None /\ req.type = "GET_REVOC_REG_DELTA" =>
    (Len(parsed.sps) = 2 <=> req.from # None)
=============================================================================
