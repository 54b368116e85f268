---------------------------- MODULE MCStateProof ----------------------------
(***************************************************************************)
(* Small instances of StateProof for TLC: four validators of which one is  *)
(* faulty (N = 4, f = 1, so N - f = 3 participants are required), one      *)
(* unknown participant name, two roots.                                    *)
(***************************************************************************)
EXTENDS StateProof

CONSTANTS n1, n2, n3, n4, x1, r1, r2

MCNodes == {n1, n2, n3, n4}

(* The header the correct validators signed, a header forged for another   *)
(* state root, one that does not deserialise into StateProofAssertions,    *)
(* and one whose state root is no base58.                                  *)
HonestHeader == [sroot |-> r1, troot |-> r2, ok |-> TRUE]

ForgedHeader == [sroot |-> r2, troot |-> None, ok |-> TRUE]

MCValues ==
  { HonestHeader, ForgedHeader,
    [sroot |-> r1, troot |-> None, ok |-> FALSE],
    [sroot |-> BadRoot, troot |-> None, ok |-> TRUE] }

MCHonestValues == {HonestHeader}

MCValuesPair == {HonestHeader, ForgedHeader}

(* Every participants list of at most three names.                         *)
MCPartSeqs == UNION { [1..n -> MCNodes \cup {x1}] : n \in 0..3 }

MCPartSeqsQuorum == {<<n1, n2, n3>>}
=============================================================================
