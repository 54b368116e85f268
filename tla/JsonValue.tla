----------------------------- MODULE JsonValue -----------------------------
(***************************************************************************)
(* serde_json::Value as the signing serializer of                         *)
(* libindy_vdr/src/utils/txn_signature.rs sees it: a tagged record JNull,  *)
(* JBool(b), JNum(n), JStr(s), JArr(seq) or JObj(f), f a function from     *)
(* member names to values.  Strings are TLC strings and the serializer's  *)
(* output is built with \o.  Without the preserve_order feature a          *)
(* serde_json Map is a BTreeMap, so map.keys() yields the member names in  *)
(* byte order: KeyOrder lists every member name a request may use in that  *)
(* order.  SHA-256 followed by hex::encode is an injective token naming    *)
(* its input, and a u64's to_string is ToString.                           *)
(***************************************************************************)
EXTENDS Naturals, Sequences, SequencesExt, TLC

CONSTANT KeyOrder   \* the member names, ascending in byte order

JNull == [t |-> "null"]

JBool(b) == [t |-> "bool", v |-> b]

JNum(n) == [t |-> "num", v |-> n]

JStr(s) == [t |-> "str", v |-> s]

JArr(s) == [t |-> "arr", v |-> s]

JObj(f) == [t |-> "obj", v |-> f]

(* value[key]: Null for a missing member or a value that is no object.    *)
Get(j, k) == IF j.t = "obj" /\ k \in DOMAIN j.v THEN j.v[k] ELSE JNull

(* The members of an object, none for any other value.                    *)
Members(j) == IF j.t = "obj" THEN j.v ELSE <<>>

(* value[key] = x on an object.                                            *)
Put(j, k, x) == JObj(k :> x @@ Members(j))

(* The object without the members named in ks.                            *)
Without(j, ks) == JObj([k \in DOMAIN Members(j) \ ks |-> j.v[k]])

(* map.keys(): the member names of f in byte order.                       *)
SortedKeys(f) == SelectSeq(KeyOrder, LAMBDA k : k \in DOMAIN f)

(* hex::encode(Sha256::digest(s)).                                         *)
Sha256Hex(s) == "sha256(" \o s \o ")"

Err == [ok |-> FALSE]

Ok(x) == [ok |-> TRUE, v |-> x]

(* Vec<String>::join(sep).                                                 *)
JoinStr(parts, sep) ==
  IF parts = <<>> THEN ""
  ELSE FoldLeft(LAMBDA acc, p : acc \o sep \o p, Head(parts), Tail(parts))
=============================================================================
