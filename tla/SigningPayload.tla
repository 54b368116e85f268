--------------------------- MODULE SigningPayload ---------------------------
(***************************************************************************)
(* What request signing promises: a request has one payload, the request  *)
(* without the members signatures are carried in, and every signer signs  *)
(* the payload's canonical form, the normal form the ledger nodes compute  *)
(* to check a signature ("as in python code", txn_signature.rs): the      *)
(* members of an object as key:value items in byte order of the keys,     *)
(* joined with "|"; array elements joined with ","; True and False for    *)
(* booleans; the empty string for null; and, in an ATTRIB or GET_ATTR     *)
(* request, the hex SHA-256 digest of every raw, hash or enc member in    *)
(* place of its value, which must be a string.                            *)
(*                                                                         *)
(* This is the abstract specification; TxnSignature, the signing of a    *)
(* request with serialize_signature, is shown to implement it.            *)
(***************************************************************************)
EXTENDS JsonValue

CONSTANTS
  Signers,    \* the DIDs that sign a request
  Payloads    \* the payloads of the requests

VARIABLES
  payload,    \* the request's payload
  signed      \* [by, over] records: a signer and the string it signed

vars == <<payload, signed>>

AttribTypes == {"100", "104"}

DigestedMembers == {"raw", "hash", "enc"}

(* The value the canonical form holds for member k.                       *)
Digested(attrib, k, x) ==
  IF attrib /\ k \in DigestedMembers
    THEN IF x.t = "str" THEN Ok(JStr(Sha256Hex(x.v))) ELSE Err
  ELSE Ok(x)

RECURSIVE CanonOf(_, _)

(* The canonical form of v, Err when a digested member is no string.      *)
CanonOf(v, attrib) ==
  CASE v.t = "bool" -> Ok(IF v.v THEN "True" ELSE "False")
    [] v.t = "num" -> Ok(ToString(v.v))
    [] v.t = "str" -> Ok(v.v)
    [] v.t = "arr" ->
         LET parts == [i \in DOMAIN v.v |-> CanonOf(v.v[i], attrib)]
         IN  IF \E i \in DOMAIN parts : ~parts[i].ok THEN Err
             ELSE Ok(JoinStr([i \in DOMAIN parts |-> parts[i].v], ","))
    [] v.t = "obj" ->
         LET ks == SortedKeys(v.v)
             item(k) == LET d == Digested(attrib, k, v.v[k])
                        IN  IF d.ok THEN CanonOf(d.v, attrib) ELSE Err
             parts == [i \in DOMAIN ks |-> item(ks[i])]
         IN  IF \E i \in DOMAIN parts : ~parts[i].ok THEN Err
             ELSE Ok(JoinStr([i \in DOMAIN parts |-> ks[i] \o ":" \o parts[i].v], "|"))
    [] OTHER -> Ok("")

Canon(p) == CanonOf(p, Get(Get(p, "operation"), "type") \in {JStr(t) : t \in AttribTypes})

Init == payload \in Payloads /\ signed = {}

(* A signer that has not signed yet signs the canonical form.             *)
Sign(d) ==
  /\ Canon(payload).ok
  /\ d \notin {s.by : s \in signed}
  /\ signed' = signed \cup {[by |-> d, over |-> Canon(payload).v]}
  /\ UNCHANGED payload

Next == \E d \in Signers : Sign(d)

Spec == Init /\ [][Next]_vars
=============================================================================
