---------------------------- MODULE KeyDerivation ----------------------------
(***************************************************************************)
(* parse_key_from_request_for_builtin_sp and                               *)
(* parse_timestamp_from_req_for_builtin_sp of                              *)
(* libindy_vdr/src/state_proof/mod.rs: the state key a built-in read       *)
(* request is answered under, and the timestamps it asks about.            *)
(*                                                                         *)
(* A string is a sequence of one-character strings, so that format! and    *)
(* extend_from_slice are concatenation (\o) and two keys are equal exactly *)
(* when their bytes are.  A SHA-256 digest of s is one token, the string  *)
(* "sha256(s)" (for its 32 bytes), its hex encoding the token "hex(s)", a  *)
(* raw marker byte \x0n the token "ctl-n": each is longer than one        *)
(* character, so never equal to one, and the digest is taken as injective.  A request is a record of the     *)
(* operation fields the function reads, None where the field is absent or *)
(* not of the type it reads.                                               *)
(***************************************************************************)
EXTENDS Naturals, Sequences

CONSTANTS
  Types,      \* operation.type values of the requests
  PastTypes,  \* REQUESTS_FOR_STATE_PROOFS_IN_THE_PAST
  Strs,       \* the string field values, as character sequences
  Nums,       \* the u64 field values
  Requests,   \* the requests to derive keys for
  None

ASSUME KeyDerivationAssumption ==
  /\ Nums \subseteq Nat
  /\ PastTypes \subseteq Types
  /\ None \notin Strs /\ None \notin Nums
  /\ Strs \subseteq Seq(STRING)
  /\ \A r \in Requests : r.revocRegDefId \in Strs \cup {None}

Versions == {"Node1_3", "Node1_4"}

VARIABLES
  req,   \* the request
  ver,   \* the negotiated ProtocolVersion
  out    \* the key and the timestamp pair derived, None before

vars == <<req, ver, out>>

-----------------------------------------------------------------------------
Digit(d) == <<"0", "1", "2", "3", "4", "5", "6", "7", "8", "9">>[d + 1]

(* format!("{}", n) of a u64.                                              *)
Dec(n) ==
  LET f[m \in 0..n] == IF m < 10 THEN <<Digit(m)>>
                       ELSE f[m \div 10] \o <<Digit(m % 10)>>
  IN  f[n]

(* The marker of a key: a raw control byte on Node1_3, else the digit.     *)
(* The characters of a string as one TLC string.                          *)
Flat(s) == LET f[i \in 0..Len(s)] == IF i = 0 THEN "" ELSE f[i - 1] \o s[i]
           IN  f[Len(s)]

Ctl(n) == "ctl-" \o Digit(n)

(* The raw byte \x0n is no digit character, and two of them differ when  *)
(* their n does.                                                           *)
ASSUME MarkerAssumption ==
  \A a, b \in 0..9 : Ctl(a) # Digit(b) /\ (a # b => Ctl(a) # Ctl(b))

MarkerInverted(n, v) == IF v = "Node1_3" THEN <<Digit(n)>> ELSE <<Ctl(n)>>

Marker(n, v) == IF v = "Node1_3" THEN <<Ctl(n)>> ELSE <<Digit(n)>>

Sha256(s) == <<"sha256(" \o Flat(s) \o ")">>

HexSha256(s) == <<"hex(" \o Flat(s) \o ")">>

(* The first of raw, enc and hash that is a string.                        *)
AttrName(r) ==
  IF r.raw # None THEN r.raw ELSE IF r.enc # None THEN r.enc ELSE r.hash

(* dest, or origin when dest is no string.                                 *)
Dest(r) == IF r.dest # None THEN r.dest ELSE r.origin

Colon == <<":">>

Dashes == <<"-", "-">>

(* The key_suffix match: None where the function returns None.             *)
KeySuffix(r, v) ==
  CASE r.type = "GET_ATTR" ->
         IF AttrName(r) = None THEN None
         ELSE Colon \o Marker(1, v) \o Colon \o HexSha256(AttrName(r))
    [] r.type = "GET_CRED_DEF" ->
         IF r.signature_type = None \/ r.ref = None THEN None
         ELSE Colon \o Marker(3, v) \o Colon \o r.signature_type \o Colon \o Dec(r.ref)
              \o (IF v = "Node1_3" \/ r.tag = None THEN <<>> ELSE Colon \o r.tag)
    [] r.type \in {"GET_NYM", "GET_REVOC_REG_DEF"} -> <<>>
    [] r.type = "GET_SCHEMA" ->
         IF r.name = None \/ r.sver = None THEN None
         ELSE Colon \o Marker(2, v) \o Colon \o r.name \o Colon \o r.sver
    [] r.type = "GET_REVOC_REG" ->
         IF r.revocRegDefId = None THEN None
         ELSE Marker(6, v) \o Colon \o r.revocRegDefId
    [] r.type = "GET_AUTH_RULE" ->
         IF r.auth_type = None \/ r.auth_action = None \/ r.field = None THEN None
         ELSE LET old == IF r.old_value # None THEN r.old_value
                         ELSE IF r.auth_action = <<"A", "D", "D">> THEN <<"*">>
                         ELSE <<>>
                  new == IF r.new_value # None THEN r.new_value ELSE <<>>
              IN  <<"1", ":">> \o r.auth_type \o Dashes \o r.auth_action \o Dashes
                  \o r.field \o Dashes \o old \o Dashes \o new
    [] r.type = "GET_REVOC_REG_DELTA" ->
         IF r.revocRegDefId = None THEN None
         ELSE Marker(IF r.from = None THEN 5 ELSE 6, v) \o Colon \o r.revocRegDefId
    [] r.type = "GET_TXN_AUTHR_AGRMT" ->
         CASE r.version = None /\ r.digest = None -> <<"2", ":", "l", "a", "t", "e", "s", "t">>
           [] r.version = None /\ r.digest # None /\ r.timestamp = None ->
                <<"2", ":", "d", ":">> \o r.digest
           [] r.version # None /\ r.digest = None /\ r.timestamp = None ->
                <<"2", ":", "v", ":">> \o r.version
           [] OTHER -> None
    [] r.type = "GET_TXN_AUTHR_AGRMT_AML" ->
         IF r.version # None THEN <<"3", ":", "v", ":">> \o r.version
         ELSE <<"3", ":", "l", "a", "t", "e", "s", "t">>
    [] r.type = "GET_TXN" -> IF r.data_no = None THEN None ELSE Dec(r.data_no)
    [] OTHER -> None

(* The key_prefix match.                                                   *)
KeyPrefix(r) ==
  CASE r.type = "GET_NYM" -> IF Dest(r) = None THEN None ELSE Sha256(Dest(r))
    [] r.type \in {"GET_REVOC_REG", "GET_REVOC_REG_DELTA", "GET_TXN_AUTHR_AGRMT",
                   "GET_TXN_AUTHR_AGRMT_AML", "GET_AUTH_RULE", "GET_TXN"} -> <<>>
    [] r.type = "GET_REVOC_REG_DEF" -> r.id
    [] OTHER -> Dest(r)

parse_key_from_request_for_builtin_sp(r, v) ==
  IF KeySuffix(r, v) = None \/ KeyPrefix(r) = None THEN None
  ELSE KeyPrefix(r) \o KeySuffix(r, v)

parse_timestamp_from_req_for_builtin_sp(r) ==
  CASE r.type \notin PastTypes -> <<None, None>>
    [] r.type = "GET_TXN" -> <<None, 0>>
    [] r.type \in {"GET_REVOC_REG", "GET_TXN_AUTHR_AGRMT", "GET_TXN_AUTHR_AGRMT_AML"} ->
         <<None, r.timestamp>>
    [] r.type = "GET_REVOC_REG_DELTA" -> <<r.from, r.to>>
    [] OTHER -> <<None, None>>

Init ==
  /\ req \in Requests
  /\ ver \in Versions
  /\ out = None

(* The caller derives the key and the requested timestamps of a request.  *)
derive ==
  /\ out = None
  /\ out' = [key |-> parse_key_from_request_for_builtin_sp(req, ver),
             ts |-> parse_timestamp_from_req_for_builtin_sp(req)]
  /\ UNCHANGED <<req, ver>>

Next == derive

Spec == Init /\ [][Next]_vars
-----------------------------------------------------------------------------
(* The key table of the specification (section 4.3, KeyDeriver).  Markers *)
(* are substituted by protocol version in the rows whose suffix names one *)
(* (":1:", ":2:", ":3:", "5:", "6:"); the AUTH_RULE and TAA rows are      *)
(* literal.  For the TAA the table names no key for a request with more   *)
(* than one of version, digest and timestamp: Unspecified.                *)
Unspecified == "unspecified"

SpecAttr(r) ==
  IF r.raw # None THEN r.raw ELSE IF r.enc # None THEN r.enc ELSE r.hash

SpecKey(r, v) ==
  LET m(n) == IF v = "Node1_3" THEN <<"ctl-" \o Digit(n)>> ELSE <<Digit(n)>>
      rrd(n) == IF r.revocRegDefId = None THEN None
                ELSE m(n) \o <<":">> \o r.revocRegDefId
  IN
  CASE r.type = "GET_NYM" -> IF r.dest = None THEN None ELSE <<"sha256(" \o Flat(r.dest) \o ")">>
    [] r.type = "GET_ATTR" ->
         IF r.dest = None \/ SpecAttr(r) = None THEN None
         ELSE r.dest \o <<":">> \o m(1) \o <<":", "hex(" \o Flat(SpecAttr(r)) \o ")">>
    [] r.type = "GET_CRED_DEF" ->
         IF r.dest = None \/ r.signature_type = None \/ r.ref = None THEN None
         ELSE r.dest \o <<":">> \o m(3) \o <<":">> \o r.signature_type \o <<":">>
              \o Dec(r.ref)
              \o (IF r.tag # None /\ v # "Node1_3" THEN <<":">> \o r.tag ELSE <<>>)
    [] r.type = "GET_SCHEMA" ->
         IF r.dest = None \/ r.name = None \/ r.sver = None THEN None
         ELSE r.dest \o <<":">> \o m(2) \o <<":">> \o r.name \o <<":">> \o r.sver
    [] r.type = "GET_REVOC_REG_DEF" -> r.id
    [] r.type = "GET_REVOC_REG" -> rrd(5)
    [] r.type = "GET_REVOC_REG_DELTA" -> rrd(IF r.from = None THEN 5 ELSE 6)
    [] r.type = "GET_AUTH_RULE" ->
         IF r.auth_type = None \/ r.auth_action = None \/ r.field = None THEN None
         ELSE <<"1", ":">> \o r.auth_type \o <<"-", "-">> \o r.auth_action
              \o <<"-", "-">> \o r.field \o <<"-", "-">>
              \o (IF r.old_value # None THEN r.old_value
                  ELSE IF r.auth_action = <<"A", "D", "D">> THEN <<"*">> ELSE <<>>)
              \o <<"-", "-">> \o (IF r.new_value # None THEN r.new_value ELSE <<>>)
    [] r.type = "GET_TXN_AUTHR_AGRMT" ->
         CASE r.version = None /\ r.digest = None -> <<"2", ":", "l", "a", "t", "e", "s", "t">>
           [] r.version = None /\ r.digest # None /\ r.timestamp = None ->
                <<"2", ":", "d", ":">> \o r.digest
           [] r.version # None /\ r.digest = None /\ r.timestamp = None ->
                <<"2", ":", "v", ":">> \o r.version
           [] OTHER -> Unspecified
    [] r.type = "GET_TXN_AUTHR_AGRMT_AML" ->
         IF r.version = None THEN <<"3", ":", "l", "a", "t", "e", "s", "t">>
         ELSE <<"3", ":", "v", ":">> \o r.version
    [] r.type = "GET_TXN" -> IF r.data_no = None THEN None ELSE Dec(r.data_no)
    [] OTHER -> None

(* "only a fixed set of types may look into the past; for them, timestamp *)
(* or (from,to) is pulled from the operation; GET_TXN returns (none, 0)". *)
SpecTimestamps(r) ==
  IF r.type \notin PastTypes THEN <<None, None>>
  ELSE IF r.type = "GET_TXN" THEN <<None, 0>>
  ELSE IF r.type = "GET_REVOC_REG_DELTA" THEN <<r.from, r.to>>
  ELSE <<None, r.timestamp>>

(* The key parse_key_from_request_for_builtin_sp derives for a request,    *)
(* and the timestamps parse_timestamp_from_req_for_builtin_sp takes from  *)
(* it, are those of the specification's KeyDeriver table, for both         *)
(* protocol versions: a proof checked under that key is a proof about the  *)
(* entity the request asked for.                                           *)
DerivationAsSpecified ==
  out # None =>
    /\ SpecKey(req, ver) = Unspecified \/ out.key = SpecKey(req, ver)
    /\ out.ts = SpecTimestamps(req)
=============================================================================
