-------------------------- MODULE ReplyParseProofs --------------------------
(***************************************************************************)
(* Proofs about the key derivation and the reply parsers (modules          *)
(* KeyDerivation and ReplyParse), for every request, reply and protocol    *)
(* version.                                                                *)
(*                                                                         *)
(* FromAccumulatorChecked ties two functions of state_proof/mod.rs that    *)
(* never call each other: parse_key_from_request_for_builtin_sp writes the *)
(* marker 6 (as \x06 or "6") into the key of a GET_REVOC_REG_DELTA with   *)
(* `from`, and 5 without, and _parse_reply_for_builtin_sp asks for a      *)
(* second proof exactly when _if_rev_delta_multi_state_proof_expected      *)
(* finds "\x06:" or "6:" at the start of that key.                         *)
(***************************************************************************)
EXTENDS ReplyParse, SequenceTheorems, TLAPS

USE KeyDerivationAssumption, ReplyParseAssumption, MarkerAssumption

(* What the model keeps between its two steps: the key derive computed,    *)
(* and the parser's answer on it.                                          *)
PInv ==
  /\ req \in Requests
  /\ ver \in Versions
  /\ out # None => out.key = parse_key_from_request_for_builtin_sp(req, ver)
  /\ parsed.done =>
       /\ out # None
       /\ parsed.sps = parse_generic_reply_for_proof_checking(reply, req.type, out.key)

LEMMA InitPInv == ReplyInit => PInv
BY DEF ReplyInit, Init, PInv

LEMMA NextPInv == PInv /\ [ReplyNext]_rvars => PInv'
<1> SUFFICES ASSUME PInv, [ReplyNext]_rvars PROVE PInv'
  OBVIOUS
<1>1. CASE derive /\ UNCHANGED <<reply, parsed>>
  <2>1. ~parsed.done
    BY <1>1 DEF derive, PInv
  <2>. QED
    BY <1>1, <2>1 DEF derive, PInv
<1>2. CASE parse_reply
  BY <1>2 DEF parse_reply, PInv
<1>3. CASE UNCHANGED rvars
  BY <1>3 DEF rvars, PInv
<1>. QED
  BY <1>1, <1>2, <1>3 DEF ReplyNext

-----------------------------------------------------------------------------
(* The marker character: \x0n on Node1_3 and the digit n on Node1_4.      *)
MarkerChar(n, v) == IF v = "Node1_3" THEN Ctl(n) ELSE Digit(n)

(* Two one-element sequences concatenate to the pair.                      *)
LEMMA PairConcat ==
  ASSUME NEW a, NEW b
  PROVE  <<a>> \o <<b>> = <<a, b>>
<1>1. <<a>> \in Seq({a, b}) /\ <<b>> \in Seq({a, b})
  OBVIOUS
<1>2. /\ <<a>> \o <<b>> \in Seq({a, b})
      /\ Len(<<a>> \o <<b>>) = 2
      /\ \A i \in 1..2 : (<<a>> \o <<b>>)[i] = IF i <= 1 THEN a ELSE b
  BY <1>1, ConcatProperties
<1>3. <<a, b>> \in Seq({a, b}) /\ Len(<<a, b>>) = 2
  OBVIOUS
<1>4. \A i \in 1..Len(<<a>> \o <<b>>) : (<<a>> \o <<b>>)[i] = <<a, b>>[i]
  BY <1>2
<1>. QED
  BY <1>2, <1>3, <1>4, SeqEqual, Zenon

(* The key of a GET_REVOC_REG_DELTA is the marker (6 with `from`, 5       *)
(* without), a colon and the registry id.                                  *)
LEMMA DeltaKeyShape ==
  ASSUME NEW r \in Requests, NEW v \in Versions, r.type = "GET_REVOC_REG_DELTA",
         parse_key_from_request_for_builtin_sp(r, v) # None
  PROVE  /\ r.revocRegDefId \in Seq(STRING)
         /\ parse_key_from_request_for_builtin_sp(r, v)
              = <<MarkerChar(IF r.from = None THEN 5 ELSE 6, v), ":">> \o r.revocRegDefId
<1> DEFINE n == IF r.from = None THEN 5 ELSE 6
<1>1. KeyPrefix(r) = <<>>
  BY DEF KeyPrefix
<1>2. KeySuffix(r, v) = IF r.revocRegDefId = None THEN None
                        ELSE Marker(n, v) \o Colon \o r.revocRegDefId
  BY DEF KeySuffix
<1>3. r.revocRegDefId # None
  BY <1>1, <1>2 DEF parse_key_from_request_for_builtin_sp
<1>4. r.revocRegDefId \in Seq(STRING)
  BY <1>3
<1>5. Marker(n, v) \o Colon = <<MarkerChar(n, v), ":">>
  <2>1. CASE v = "Node1_3"
    <3>1. Marker(n, v) = <<Ctl(n)>> /\ MarkerChar(n, v) = Ctl(n)
      BY <2>1 DEF Marker, MarkerChar
    <3>. QED
      BY <3>1, PairConcat DEF Colon
  <2>2. CASE v # "Node1_3"
    <3>1. Marker(n, v) = <<Digit(n)>> /\ MarkerChar(n, v) = Digit(n)
      BY <2>2 DEF Marker, MarkerChar
    <3>. QED
      BY <3>1, PairConcat DEF Colon
  <2>. QED
    BY <2>1, <2>2
<1>6. parse_key_from_request_for_builtin_sp(r, v) = <<>> \o (Marker(n, v) \o Colon \o r.revocRegDefId)
  BY <1>1, <1>2, <1>3 DEF parse_key_from_request_for_builtin_sp
<1> DEFINE Chars == STRING \cup {MarkerChar(n, v), ":"}
<1>7. <<MarkerChar(n, v), ":">> \o r.revocRegDefId \in Seq(Chars)
  <2>1. <<MarkerChar(n, v), ":">> \in Seq(Chars)
    OBVIOUS
  <2>2. r.revocRegDefId \in Seq(Chars)
    BY <1>4
  <2>. QED
    BY <2>1, <2>2, ConcatProperties
<1>. QED
  BY <1>4, <1>5, <1>6, <1>7, ConcatEmptySeq

(* A sequence that starts with <<M, ":">> starts with <<c, ":">> exactly   *)
(* when c is M.                                                            *)
LEMMA PairPrefix ==
  ASSUME NEW M, NEW c, NEW S, NEW rest \in Seq(S)
  PROVE  StartsWith(<<M, ":">> \o rest, <<c, ":">>) <=> M = c
<1> DEFINE T == S \cup {M, ":"}
           key == <<M, ":">> \o rest
<1>1. <<M, ":">> \in Seq(T) /\ rest \in Seq(T)
  OBVIOUS
<1>2. /\ key \in Seq(T)
      /\ Len(key) = 2 + Len(rest)
      /\ key[1] = M /\ key[2] = ":"
  BY <1>1, ConcatProperties
<1>3. Len(key) >= 2
  BY <1>2
<1>4. SubSeq(key, 1, 2) = <<M, ":">>
  <2>1. \A i \in 1..2 : key[i] \in T
    BY <1>2, <1>3, ElementOfSeq
  <2>2. /\ SubSeq(key, 1, 2) \in Seq(T)
        /\ Len(SubSeq(key, 1, 2)) = 2
        /\ \A i \in 1..2 : SubSeq(key, 1, 2)[i] = key[i]
    BY <2>1, SubSeqProperties
  <2>3. <<M, ":">> \in Seq(T) /\ Len(<<M, ":">>) = 2
    OBVIOUS
  <2>4. \A i \in 1..Len(SubSeq(key, 1, 2)) : SubSeq(key, 1, 2)[i] = <<M, ":">>[i]
    BY <1>2, <2>2
  <2>. QED
    BY <2>2, <2>3, <2>4, SeqEqual, Zenon
<1>. QED
  BY <1>3, <1>4 DEF StartsWith

(* _if_rev_delta_multi_state_proof_expected finds the marker 6 in the key *)
(* of a GET_REVOC_REG_DELTA exactly when the request has `from`, on both  *)
(* protocol versions.                                                      *)
LEMMA DeltaExpected ==
  ASSUME NEW r \in Requests, NEW v \in Versions, r.type = "GET_REVOC_REG_DELTA",
         parse_key_from_request_for_builtin_sp(r, v) # None
  PROVE  _if_rev_delta_multi_state_proof_expected(parse_key_from_request_for_builtin_sp(r, v))
           <=> r.from # None
<1> DEFINE n == IF r.from = None THEN 5 ELSE 6
           M == MarkerChar(n, v)
           key == parse_key_from_request_for_builtin_sp(r, v)
<1>1. r.revocRegDefId \in Seq(STRING) /\ key = <<M, ":">> \o r.revocRegDefId
  BY DeltaKeyShape
<1>2. _if_rev_delta_multi_state_proof_expected(key) <=> M = Ctl(6) \/ M = "6"
  <2>1. StartsWith(key, <<Ctl(6), ":">>) <=> M = Ctl(6)
    BY <1>1, PairPrefix
  <2>2. StartsWith(key, <<"6", ":">>) <=> M = "6"
    BY <1>1, PairPrefix
  <2>. QED
    BY <2>1, <2>2 DEF _if_rev_delta_multi_state_proof_expected
<1>3. Digit(5) = "5" /\ Digit(6) = "6"
  BY DEF Digit
<1>4. Ctl(5) # Ctl(6) /\ Ctl(5) # Digit(6) /\ Ctl(6) # Digit(5)
  BY MarkerAssumption
<1>5. M = Ctl(6) \/ M = "6" <=> r.from # None
  BY <1>3, <1>4 DEF MarkerChar
<1>. QED
  BY <1>2, <1>5

(* None, Rust's None, is no ParsedSP record.                               *)
NoneNotSP == \A a, b, c, d, e, f : SP(a, b, c, d, e, f) # None

(* A GET_REVOC_REG_DELTA reply that parses yields two proofs exactly when *)
(* _if_rev_delta_multi_state_proof_expected accepts the key: the second,  *)
(* from _parse_reply_for_multi_sp, is Some only then.                      *)
LEMMA DeltaParsedLength ==
  ASSUME NoneNotSP, NEW m, NEW key, key # None,
         parse_generic_reply_for_proof_checking(m, "GET_REVOC_REG_DELTA", key) # None
  PROVE  Len(parse_generic_reply_for_proof_checking(m, "GET_REVOC_REG_DELTA", key)) = 2
           <=> _if_rev_delta_multi_state_proof_expected(key)
<1> DEFINE x == "GET_REVOC_REG_DELTA"
           nd == NormalizeData(Get(m, "data"))
           s == _parse_reply_for_sp(m, nd.v.data, nd.v.parsed, x, key)
           t == _parse_reply_for_multi_sp(nd.v.parsed, x, key)
           sps == parse_generic_reply_for_proof_checking(m, x, key)
<1>1. x \in SPTypes /\ x \in MultiTypes
  OBVIOUS
<1>2. sps = IF ~nd.ok \/ ~s.ok THEN None
            ELSE IF ~t.ok THEN None
            ELSE IF t.v = None THEN <<s.v>>
            ELSE <<s.v, t.v>>
  BY <1>1 DEF parse_generic_reply_for_proof_checking, _parse_reply_for_builtin_sp
<1>3. t.ok /\ sps = IF t.v = None THEN <<s.v>> ELSE <<s.v, t.v>>
  BY <1>2
<1>4. CASE ~_if_rev_delta_multi_state_proof_expected(key)
  <2>1. t = Ok(None)
    BY <1>4 DEF _parse_reply_for_multi_sp
  <2>2. Len(sps) = 1
    BY <1>3, <2>1 DEF Ok
  <2>. QED
    BY <1>4, <2>2
<1>5. CASE _if_rev_delta_multi_state_proof_expected(key)
  <2>1. t.ok => t.v # None
    BY <1>5 DEF _parse_reply_for_multi_sp, Ok, Err, NoneNotSP
  <2>2. Len(sps) = 2
    BY <1>3, <2>1
  <2>. QED
    BY <1>5, <2>2
<1>. QED
  BY <1>4, <1>5

-----------------------------------------------------------------------------
(* A reply to a GET_REVOC_REG_DELTA request that parse_generic_reply_for_ *)
(* proof_checking accepts carries the proof of the accumulator at `from`  *)
(* exactly when the request has `from`, for every request, reply and      *)
(* protocol version: the marker parse_key_from_request_for_builtin_sp     *)
(* writes is the one _if_rev_delta_multi_state_proof_expected reads.      *)
THEOREM FromAccumulatorProved ==
  ASSUME NoneNotSP
  PROVE  ReplySpec => []FromAccumulatorChecked
<1>1. PInv => FromAccumulatorChecked
  <2> SUFFICES ASSUME PInv, parsed.done, parsed.sps # None,
                      req.type = "GET_REVOC_REG_DELTA"
               PROVE  Len(parsed.sps) = 2 <=> req.from # None
    BY DEF FromAccumulatorChecked
  <2>1. /\ out.key = parse_key_from_request_for_builtin_sp(req, ver)
        /\ parsed.sps = parse_generic_reply_for_proof_checking(reply, req.type, out.key)
        /\ req \in Requests /\ ver \in Versions
    BY DEF PInv
  <2>2. out.key # None
    BY <2>1 DEF parse_generic_reply_for_proof_checking
  <2>3. Len(parsed.sps) = 2 <=> _if_rev_delta_multi_state_proof_expected(out.key)
    BY <2>1, <2>2, DeltaParsedLength
  <2>. QED
    BY <2>1, <2>2, <2>3, DeltaExpected
<1>. QED
  BY <1>1, InitPInv, NextPInv, PTL DEF ReplySpec
====
