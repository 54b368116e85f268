----------------------------- MODULE MCDidStore -----------------------------
(* Instances of DidStore for TLC.                                           *)
EXTENDS DidStore

MCThreads2 == {"t1", "t2"}
=============================================================================
