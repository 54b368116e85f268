----------------------------- MODULE MCWalletFs -----------------------------
(* Small file systems for WalletFs: a wallet home, two wallet ids (side by *)
(* side, or nested in one another), a backup directory bk with a         *)
(* libindy backup file bk/l in it, and export and import paths bk/e,       *)
(* bk/e.db and bk/l.                                                       *)
EXTENDS WalletFs

C(n, x) == <<n, x>>

MCHome == << C("wallet", "") >>

MCIdsFlat == { << C("a", "") >>, << C("b", "") >> }

(* "a", "a/b", "a/b/a", whose wallet directory is the directory the store *)
(* of "a/b" goes in, and "a/a.db", whose wallet directory is the file of   *)
(* "a".                                                                    *)
MCIdsNested == { << C("a", "") >>, << C("a", ""), C("b", "") >>,
                 << C("a", ""), C("b", ""), C("a", "") >>,
                 << C("a", ""), C("a", "db") >> }

(* Both: two wallets side by side, and the nested ids.                     *)
MCIdsAll == MCIdsFlat \cup MCIdsNested

Bk == << C("bk", "") >>

MCBackupPaths == { Bk \o << C("e", "") >>, Bk \o << C("e", "db") >>,
                   Bk \o << C("l", "") >> }

Rec(t, id, v) == [type |-> t, id |-> id, val |-> v]

(* A libindy export of a wallet with a key, a DID and its metadata, and a  *)
(* DID of another party; and one that also carries metadata for that DID.  *)
MCStreams ==
  { << Rec("Indy::Key", "v1", "x"), Rec("Indy::Did", "d1", "x"),
       Rec("Indy::DidMetadata", "d1", "y"), Rec("Indy::TheirDid", "d2", "x") >>,
    << Rec("Indy::Did", "d1", "x"), Rec("Indy::TheirDid", "d2", "x"),
       Rec("Indy::DidMetadata", "d2", "y"), Rec("Indy::Key", "v1", "x") >> }

MCInitFs ==
  { (Bk :> [kind |-> "dir"]) @@
    (Bk \o << C("l", "") >> :> [kind |-> "libindy", key |-> "k1", stream |-> s])
    : s \in MCStreams }

(* The instance meets the hypotheses of the proofs: the backups lie        *)
(* outside the wallet home, which is empty at the start.                   *)
ASSUME MCHomeHypotheses == BackupsOutsideHome /\ FreshHome
=============================================================================
