---------------------------- MODULE MCMerkleAudit ----------------------------
(* Ledgers of up to MaxLen transactions; ledgerSize and seq_no one past them.*)
EXTENDS MerkleAudit

MCLedgerSizes == 1..(MaxLen + 1)

MCLedgerSizesZero == 0..(MaxLen + 1)

MCSeqNos == 0..(MaxLen + 1)
=============================================================================
