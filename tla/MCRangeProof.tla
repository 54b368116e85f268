---------------------------- MODULE MCRangeProof ----------------------------
(* Instances of RangeProof for TLC.                                         *)
EXTENDS RangeProof

(* Canonical decimal suffixes, as the ledger writes them, and one key that *)
(* is no number.                                                           *)
MCKeyStrs == {<<"1">>, <<"2">>, <<"3">>, <<"x">>}

MCBounds == 0..4
=============================================================================
