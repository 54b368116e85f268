---------------------------- MODULE TxnSignature ----------------------------
(***************************************************************************)
(* serialize_signature and _serialize_signature of                        *)
(* libindy_vdr/src/utils/txn_signature.rs, and the signing of a request   *)
(* with them.  A signer asks for the signing input of the request as it   *)
(* is now, signs it and stores the signature in the request: under        *)
(* "signature", or under its DID in the "signatures" object of a          *)
(* multi-signed request.  A payment plugin may add "fees" before or after *)
(* the signatures.  The ledger node checks every signature against the    *)
(* signing input of the request it receives.  The signing calls are not   *)
(* in this tree, and the specification puts signing out of its scope      *)
(* (section 1): how clients sign is this model's own assumption about the *)
(* environment.  A signature is the signer's DID, standing for            *)
(* the bytes it signed, which sigs records.                                *)
(***************************************************************************)
EXTENDS JsonValue

CONSTANTS
  Signers,    \* the DIDs that sign a request, as strings
  Requests    \* the request JSON bodies handed to the signers

VARIABLES
  request,    \* the request JSON as it is now
  sigs        \* [by, over] records: a signer and the signing input it signed

vars == <<request, sigs>>

ATTRIB == "100"

GET_ATTR == "104"

(* A variant without "signatures": a multi-signed request's own           *)
(* signatures become part of what the next signer signs.                  *)
SkippedKeysNoMulti == {"signature", "fees"}

(* The members skipped at top level "as in python code".                  *)
SkippedKeys == {"signature", "fees", "signatures"}

HashedKeys == {"raw", "hash", "enc"}

(* v["operation"]["type"].as_str(): "none" (no transaction type) unless   *)
(* it is a string.                                                         *)
OperationType(v) ==
  LET t == Get(Get(v, "operation"), "type") IN IF t.t = "str" THEN t.v ELSE "none"

(* The value an object member is serialized from: for ATTRIB and GET_ATTR *)
(* requests a raw, hash or enc member is replaced by its hex SHA-256,     *)
(* and one that is no string ends the call with "Cannot update hash       *)
(* context".                                                              *)
HashedValue(type, key, value) ==
  IF type \in {ATTRIB, GET_ATTR} /\ key \in HashedKeys
    THEN IF value.t = "str" THEN Ok(JStr(Sha256Hex(value.v))) ELSE Err
  ELSE Ok(value)

RECURSIVE _serialize_signature(_, _, _), SerializeArray(_, _, _),
          SerializeObjectMidFirst(_, _, _, _, _, _), SerializeObject(_, _, _, _, _, _)

(* The match on v.                                                         *)
_serialize_signature(v, is_top_level, type) ==
  CASE v.t = "bool" -> Ok(IF v.v THEN "True" ELSE "False")
    [] v.t = "num" -> Ok(ToString(v.v))
    [] v.t = "str" -> Ok(v.v)
    [] v.t = "arr" -> SerializeArray(v.v, type, <<>>)
    [] v.t = "obj" -> SerializeObject(v.v, SortedKeys(v.v), is_top_level, type, "", FALSE)
    [] OTHER -> Ok("")

(* The Array arm: each element serialized below top level, the collect    *)
(* stopping at the first Err, the strings joined with ",".                *)
SerializeArray(s, type, done) ==
  IF Len(done) = Len(s) THEN Ok(JoinStr(done, ","))
  ELSE LET r == _serialize_signature(s[Len(done) + 1], FALSE, type)
       IN  IF r.ok THEN SerializeArray(s, type, Append(done, r.v)) ELSE r

(* A variant of the Object arm that pushes the separator before the skip  *)
(* check.                                                                  *)
SerializeObjectMidFirst(map, keys, is_top_level, type, result, in_middle) ==
  IF keys = <<>> THEN Ok(result)
  ELSE LET key == Head(keys)
           sep == IF in_middle THEN "|" ELSE ""
       IN  IF is_top_level /\ key \in SkippedKeys
             THEN SerializeObjectMidFirst(map, Tail(keys), is_top_level, type, result \o sep, in_middle)
           ELSE LET value == HashedValue(type, key, map[key])
                    s == IF value.ok THEN _serialize_signature(value.v, FALSE, type) ELSE value
                IN  IF ~s.ok THEN s
                    ELSE SerializeObjectMidFirst(map, Tail(keys), is_top_level, type,
                                                 result \o sep \o key \o ":" \o s.v, TRUE)

(* The Object arm: the for loop over map.keys() with in_middle; a skipped *)
(* key changes nothing, a failed hash or member returns its Err.          *)
SerializeObject(map, keys, is_top_level, type, result, in_middle) ==
  IF keys = <<>> THEN Ok(result)
  ELSE LET key == Head(keys) IN
       IF is_top_level /\ key \in SkippedKeys
         THEN SerializeObject(map, Tail(keys), is_top_level, type, result, in_middle)
       ELSE LET sep == IF in_middle THEN "|" ELSE ""
                value == HashedValue(type, key, map[key])
                s == IF value.ok THEN _serialize_signature(value.v, FALSE, type) ELSE value
            IN  IF ~s.ok THEN s
                ELSE SerializeObject(map, Tail(keys), is_top_level, type,
                                     result \o sep \o key \o ":" \o s.v, TRUE)

serialize_signature(v) == _serialize_signature(v, TRUE, OperationType(v))
-----------------------------------------------------------------------------
Signed == {s.by : s \in sigs}

Init == request \in Requests /\ sigs = {}

(* Sign the signing input and store the signature under "signature".      *)
SetSignature(d) ==
  /\ d \notin Signed
  /\ serialize_signature(request).ok
  /\ sigs' = sigs \cup {[by |-> d, over |-> serialize_signature(request).v]}
  /\ request' = Put(request, "signature", JStr(d))

(* A variant that puts the signature at top level under the DID.          *)
SetMultiSignatureTopLevel(d) ==
  /\ d \notin Signed
  /\ serialize_signature(request).ok
  /\ sigs' = sigs \cup {[by |-> d, over |-> serialize_signature(request).v]}
  /\ request' = Put(request, d, JStr(d))

(* Sign the signing input and add the signature to "signatures".          *)
SetMultiSignature(d) ==
  /\ d \notin Signed
  /\ serialize_signature(request).ok
  /\ sigs' = sigs \cup {[by |-> d, over |-> serialize_signature(request).v]}
  /\ request' = Put(request, "signatures",
                    JObj(d :> JStr(d) @@ Members(Get(request, "signatures"))))

(* The payment plugin adds the fees member.                               *)
SetFees ==
  /\ Get(request, "fees") = JNull
  /\ request' = Put(request, "fees", JArr(<<JStr("txo"), JNum(1)>>))
  /\ UNCHANGED sigs

Next ==
  \/ \E d \in Signers : SetSignature(d) \/ SetMultiSignature(d)
  \/ SetFees

Spec == Init /\ [][Next]_vars
-----------------------------------------------------------------------------
TypeOK ==
  /\ request.t = "obj" /\ DOMAIN request.v \subseteq Range(KeyOrder)
  /\ sigs \subseteq [by : Signers, over : STRING]

(* A node that receives the request now computes, for each signature in   *)
(* it, the string its signer signed: serialize_signature must skip every  *)
(* member a signature or the fees were put into after an earlier signer   *)
(* signed, whatever the order of set_signature, set_multi_signature and   *)
(* the fees.                                                               *)
SignaturesVerify ==
  \A s \in sigs : serialize_signature(request) = Ok(s.over)

(* The members the signatures and the fees are carried in.                *)
CarrierMembers == {"signature", "signatures", "fees"}

(* The payload of the request: what is left without those members.        *)
Payload == Without(request, CarrierMembers)

Abstract == INSTANCE SigningPayload
              WITH payload <- Payload, signed <- sigs,
                   Payloads <- {Without(r, CarrierMembers) : r \in Requests}

(* Signing with serialize_signature implements SigningPayload: the payload *)
(* never changes, and every signer signs its canonical form, the normal   *)
(* form of the nodes with the items joined rather than built with the     *)
(* in_middle flag of the loop.                                             *)
SigningPayloadSpec == Abstract!Spec
=============================================================================
