--------------------------- MODULE StateProofData ---------------------------
(***************************************************************************)
(* The data the state-proof engine of libindy_vdr/src/state_proof/mod.rs  *)
(* works on, and the pure checks it applies to it: the root check and the  *)
(* multi-signature checks of verify_parsed_sp, _verify_proof_signature,    *)
(* _parse_reply_for_proof_signature_checking and check_freshness.          *)
(*                                                                         *)
(* A ParsedSP is abstracted to what verify_parsed_sp tells apart: its root *)
(* string, whether its proof nodes decode, the verdict of the trie, range  *)
(* or audit-path algorithm on its key-value list (modelled on their own in *)
(* later modules), and its multi-signature.  A BLS multi-signature is      *)
(* abstracted by unforgeability: an aggregate that verifies over a value   *)
(* for the keys of a participants list (one key per list entry, repeated   *)
(* entries included) can be put together only if the value is one the     *)
(* correct validators signed, or if every listed participant is faulty.    *)
(***************************************************************************)
EXTENDS Naturals, Sequences, FiniteSets

CONSTANTS
  Nodes,         \* aliases with a BLS key in bls_keys (VerifierKeys)
  Unknown,       \* participant names that have no key in bls_keys
  Byz,           \* the faulty validators: they sign any value
  F,             \* f, the Byzantine tolerance handed to check_state_proof
  Roots,         \* base58 strings of root hashes
  BadRoot,       \* a root_hash string that base58 does not decode
  Values,        \* the multi_signature "value" headers a reply may carry
  HonestValues,  \* the headers the correct validators have signed
  PartSeqs,      \* the participants lists a reply may carry
  MaxProofs,     \* the most ParsedSP items a parser hands over
  Times,         \* seconds: timestamps, last_write_time and now
  Threshold,     \* the freshness threshold in seconds
  Malformed,     \* a participants field that is no array of strings
  None           \* the absent value of an Option

RootStrs == Roots \cup {BadRoot}

(* A header: its state_root_hash and txn_root_hash fields (None when the   *)
(* field is not a string) and whether it deserialises into                 *)
(* StateProofAssertions.                                                   *)
Headers == [sroot : RootStrs \cup {None}, troot : RootStrs \cup {None},
            ok : BOOLEAN]

(* "agg": base58 of a BLS multi-signature that verifies over the value for *)
(* the participants' keys; "bad": one that decodes but does not verify;    *)
(* "undecodable": a string that is no multi-signature; "absent": no string.*)
SigKinds == {"agg", "bad", "undecodable", "absent"}

Names == Nodes \cup Unknown

(* The errors of _verify_proof_signature.                                  *)
SigErrors == {"key_not_found", "insufficient", "decode", "verify_failed"}

ASSUME ConstantsAssumption ==
  /\ Byz \subseteq Nodes
  /\ Nodes \cap Unknown = {}
  /\ F \in Nat /\ F <= Cardinality(Nodes)
  /\ Cardinality(Byz) <= F
  /\ Values \subseteq Headers
  /\ HonestValues \subseteq Values
  /\ PartSeqs \subseteq Seq(Names)
  /\ MaxProofs \in Nat
  /\ Times \subseteq Nat /\ Times # {} /\ Threshold \in Nat
  /\ None \notin RootStrs \cup Nodes \cup Unknown \cup Times
  /\ None \notin SigErrors
  /\ Malformed \notin PartSeqs
  /\ None \notin [value : Values, participants : PartSeqs \cup {Malformed},
                  signature : SigKinds]

(* The pool is finite and more than twice f: the specification has        *)
(* N >= 3f + 1 for the validator key set; the quorum argument needs only   *)
(* N > 2f.  check_state_proof itself checks neither.                      *)
ASSUME QuorumAssumption ==
  IsFiniteSet(Nodes) /\ 2 * F < Cardinality(Nodes)

(* Only these multi-signatures can occur: an aggregate that verifies needs *)
(* a signature of every listed participant over the value.                 *)
Signable(m) ==
  /\ m.participants # Malformed
  /\ \/ m.value \in HonestValues
     \/ \A i \in DOMAIN m.participants : m.participants[i] \in Byz

MultiSigs ==
  { m \in [value : Values, participants : PartSeqs \cup {Malformed},
           signature : SigKinds] :
      m.signature = "agg" => Signable(m) }

(* The verdict of the key-value algorithm selected by kvs_to_verify:       *)
(* "unsupported" is the KeyValuesInSP::SubTrie format.                     *)
KvsVerdicts == {"pass", "fail", "unsupported"}

ParsedSPs == [root : RootStrs, nodes_ok : BOOLEAN, kvs : KvsVerdicts,
              multi_signature : MultiSigs]

(* What parse_generic_reply_for_proof_checking returns: None, or a list of *)
(* ParsedSP (a custom parser may return an empty one).                     *)
Replies == {None} \cup UNION { [1..n -> ParsedSPs] : n \in 0..MaxProofs }

(* The inputs of check_freshness: requested_timestamps, last_write_time,  *)
(* the left last write time found in the reply, and get_cur_time().        *)
FreshInputs == [from : Times \cup {None}, to : Times \cup {None},
                lwt : Times, left : Times \cup {None}, now : Times]

Results == [kind : {"Verified", "Expired", "Invalid"}, asserts : Values \cup {None}]
           \cup {[kind |-> "Missing", asserts |-> None]}

Pending == [kind |-> "Pending", asserts |-> None]

(* The signature's claimed root equals the proof root, as state root or as *)
(* txn root.                                                               *)
RootMatches(sp) ==
  \/ sp.multi_signature.value.sroot = sp.root
  \/ sp.multi_signature.value.troot = sp.root

(* The checks of the loop body of verify_parsed_sp other than the          *)
(* multi-signature consistency check.                                      *)
ProofPasses(sp) ==
  /\ RootMatches(sp)
  /\ sp.nodes_ok
  /\ sp.root # BadRoot
  /\ sp.kvs = "pass"

(* _parse_reply_for_proof_signature_checking returns Some.                 *)
parse_reply_for_proof_signature_checking(m) ==
  m.signature # "absent" /\ m.participants # Malformed

(* A variant that takes f itself as the number of signers required.       *)
verify_proof_signature_f(m) ==
  LET parts == m.participants IN
  IF \E i \in DOMAIN parts : parts[i] \notin Nodes THEN "key_not_found"
  ELSE IF Len(parts) < F THEN "insufficient"
  ELSE IF m.signature = "undecodable" THEN "decode"
  ELSE IF m.signature # "agg" THEN "verify_failed"
  ELSE None

(* The error _verify_proof_signature returns, None when it returns Ok.     *)
verify_proof_signature(m) ==
  LET parts == m.participants IN
  IF \E i \in DOMAIN parts : parts[i] \notin Nodes THEN "key_not_found"
  ELSE IF Len(parts) < Cardinality(Nodes) - F THEN "insufficient"
  ELSE IF m.signature = "undecodable" THEN "decode"
  ELSE IF m.signature # "agg" THEN "verify_failed"
  ELSE None

check_freshness(t) ==
  LET left  == IF t.left = None THEN 0 ELSE t.left
      right == IF t.to = None THEN t.now ELSE t.to
  IN  /\ t.from # None => t.from <= Threshold + left
      /\ right <= Threshold + t.lwt
=============================================================================
