--------------------------- MODULE WalletFsProofs ---------------------------
(***************************************************************************)
(* Proofs about WalletFs: where the wallet handlers can put a store under  *)
(* the wallet home, and which stores Wallet::delete (remove_backend        *)
(* followed by WalletDirectory::delete's remove_dir_all) removes: its own  *)
(* and those of wallets whose sqlite file lies in its directory, for every *)
(* home, set of ids, backup paths and initial file system that meet        *)
(* BackupsOutsideHome and FreshHome.                                       *)
(***************************************************************************)
EXTENDS WalletFs, SequenceTheorems, TLAPS

(* What the file system f holds under the wallet home: directories the     *)
(* handlers made with create_path, and stores of wallets whose sqlite     *)
(* directory is one of them.                                               *)
FsInv(f) ==
  /\ DOMAIN f \subseteq Paths
  /\ \A q \in DOMAIN f : "kind" \in DOMAIN f[q]
  /\ \A q \in DOMAIN f : IsPrefix(Home, q) /\ f[q].kind = "dir" => q \in Made
  /\ \A q \in DOMAIN f : IsPrefix(Home, q) /\ f[q].kind # "dir" => q \in CreatableDbs

IInv == FsInv(fs)

USE WalletFsAssumption

-----------------------------------------------------------------------------
(* IsPrefix is transitive.                                                 *)
LEMMA PrefixTrans ==
  ASSUME NEW S, NEW a \in Seq(S), NEW b \in Seq(S), NEW c \in Seq(S),
         IsPrefix(a, b), IsPrefix(b, c)
  PROVE  IsPrefix(a, c)
  BY DEF IsPrefix

(* Every member of Prefixes(p) is a sequence and a prefix of p.            *)
LEMMA PrefixesArePrefixes ==
  ASSUME NEW S, NEW p \in Seq(S), NEW r \in Prefixes(p)
  PROVE  r \in Seq(S) /\ IsPrefix(r, p)
  BY DEF Prefixes, IsPrefix

(* PathBuf::set_extension("db") keeps the path's length and every         *)
(* component but the last.                                                 *)
LEMMA WithDbPath ==
  ASSUME NEW p \in Paths, p # <<>>
  PROVE  /\ WithDb(p) \in Paths
         /\ Len(WithDb(p)) = Len(p)
         /\ \A i \in 1..(Len(p) - 1) : WithDb(p)[i] = p[i]
  <1>1. Len(p) \in Nat /\ Len(p) >= 1
    BY EmptySeq, LenProperties DEF Paths
  <1>2. <<p[Len(p)][1], "db">> \in PathComponents
    BY <1>1 DEF Paths, PathComponents
  <1>. QED
    BY <1>1, <1>2 DEF WithDb, Paths

(* wallet_path(id) and the sqlite file of id, and its directory, are paths *)
(* under the wallet home.                                                  *)
LEMMA WalletPaths ==
  ASSUME NEW id \in Ids
  PROVE  /\ WalletPath(id) \in Paths /\ IsPrefix(Home, WalletPath(id))
         /\ DbPath(id) \in Paths /\ IsPrefix(Home, DbPath(id))
         /\ Front(DbPath(id)) \in Paths /\ IsPrefix(Home, Front(DbPath(id)))
  <1>1. /\ Home \o id \in Paths /\ Home \o id \o id \in Paths
        /\ Len(Home \o id \o id) = Len(Home) + 2 * Len(id) /\ Len(id) >= 1
    BY EmptySeq, LenProperties DEF Paths
  <1>2. WalletPath(id) \in Paths /\ IsPrefix(Home, WalletPath(id))
    BY <1>1 DEF WalletPath, IsPrefix, Paths
  <1>. DEFINE w == Home \o id \o id
  <1>3. w # <<>>
    BY <1>1, EmptySeq DEF Paths
  <1>4. /\ DbPath(id) \in Paths /\ Len(DbPath(id)) = Len(w)
        /\ \A i \in 1..(Len(w) - 1) : DbPath(id)[i] = w[i]
    BY <1>1, <1>3, WithDbPath DEF DbPath, WalletPath
  <1>5. IsPrefix(Home, DbPath(id))
    BY <1>1, <1>4 DEF IsPrefix, Paths
  <1>6. Front(DbPath(id)) \in Paths /\ IsPrefix(Home, Front(DbPath(id)))
    BY <1>1, <1>4 DEF Front, IsPrefix, Paths
  <1>. QED
    BY <1>2, <1>4, <1>5, <1>6

(* The sqlite path of a backup is a path.                                  *)
LEMMA BackupPathsArePaths ==
  ASSUME NEW p \in BackupPaths
  PROVE  BackupDb(p) \in Paths
  <1>1. p \in Paths /\ p # <<>> /\ Last(p) \in PathComponents
    BY EmptySeq, LenProperties DEF Last, Paths
  <1>2. p \o <<Last(p)>> \in Paths /\ p \o <<Last(p)>> # <<>>
    BY <1>1 DEF Paths
  <1>. QED
    BY <1>1, <1>2, WithDbPath DEF BackupDb

-----------------------------------------------------------------------------
(* DirBuilder's recursive create keeps FsInv when the directories it may  *)
(* add under the home are ones create_path makes.                          *)
LEMMA MkdirInv ==
  ASSUME NEW f, FsInv(f), NEW p \in Paths,
         \A r \in Prefixes(p) : IsPrefix(Home, r) => r \in Made
  PROVE  FsInv(Mkdir(f, p))
  <1>1. Prefixes(p) \subseteq Paths
    BY PrefixesArePrefixes DEF Paths
  <1>. DEFINE g == Mkdir(f, p)
  <1>2. DOMAIN g = DOMAIN f \cup (Prefixes(p) \ {<<>>})
    BY DEF Mkdir
  <1>3. \A q \in DOMAIN g : g[q] = IF q \in DOMAIN f THEN f[q] ELSE [kind |-> "dir"]
    BY DEF Mkdir
  <1>. QED
    BY <1>1, <1>2, <1>3 DEF FsInv

(* Removing paths keeps FsInv.                                             *)
LEMMA RestrictInv ==
  ASSUME NEW f, FsInv(f), NEW S, S \subseteq DOMAIN f
  PROVE  FsInv(Restrict(f, S))
  BY DEF FsInv, Restrict

(* The store provision_backend returns, with its entries set, is a store. *)
LEMMA ProvisionedStore ==
  ASSUME NEW f, FsInv(f), NEW p, NEW k, NEW d, Provisioned(f, p, k) # None
  PROVE  LET node == [Provisioned(f, p, k) EXCEPT !.data = d]
         IN  "kind" \in DOMAIN node /\ node.kind = "store"
  <1>. DEFINE st == Provisioned(f, p, k)
  <1>1. "kind" \in DOMAIN st /\ st.kind = "store"
    <2>1. CASE p \in DOMAIN f
      BY <2>1 DEF Provisioned, FsInv
    <2>2. CASE p \notin DOMAIN f
      BY <2>2 DEF Provisioned
    <2>. QED
      BY <2>1, <2>2
  <1>. QED
    BY <1>1

(* A store put at p keeps FsInv when p may hold a store under the home.    *)
LEMMA StoreInv ==
  ASSUME NEW f, FsInv(f), NEW p \in Paths, NEW g,
         DOMAIN g = DOMAIN f \cup {p}, \A x \in DOMAIN f \ {p} : g[x] = f[x],
         "kind" \in DOMAIN g[p], g[p].kind = "store",
         IsPrefix(Home, p) => p \in CreatableDbs
  PROVE  FsInv(g)
  BY DEF FsInv

(* provision_backend succeeds at the sqlite path of id only where the      *)
(* store may be: its directory is one create_path makes.                   *)
LEMMA DbCreatable ==
  ASSUME NEW f, FsInv(f), NEW id \in Ids, NEW k,
         Provisioned(f, DbPath(id), k) # None
  PROVE  DbPath(id) \in CreatableDbs
  <1>1. IsPrefix(Home, DbPath(id)) /\ IsPrefix(Home, Front(DbPath(id)))
    BY WalletPaths
  <1>2. CASE DbPath(id) \in DOMAIN f
    BY <1>1, <1>2 DEF Provisioned, FsInv
  <1>3. CASE DbPath(id) \notin DOMAIN f
    <2>1. Front(DbPath(id)) \in DOMAIN f /\ f[Front(DbPath(id))].kind = "dir"
      BY <1>3 DEF Provisioned
    <2>2. Creatable(id)
      BY <1>1, <2>1 DEF FsInv, Creatable
    <2>. QED
      BY <2>2 DEF CreatableDbs
  <1>. QED
    BY <1>2, <1>3

(* The end of a handler from provision_backend on keeps FsInv.             *)
LEMMA ProvisionStep ==
  ASSUME NEW f1, FsInv(f1), NEW p \in Paths, NEW kp, NEW st,
         st = Provisioned(f1, p, kp),
         st # None => (IsPrefix(Home, p) => p \in CreatableDbs),
         NEW data, NEW n, NEW op, NEW id, NEW q, NEW k, NEW ok,
         Provision(f1, p, st, data, n, op, id, q, k, ok)
  PROVE  FsInv(fs')
  <1>1. CASE st # None /\ fs' = [x \in DOMAIN f1 \cup {p} |->
                                   IF x = p THEN [st EXCEPT !.data = data] ELSE f1[x]]
    <2>1. "kind" \in DOMAIN [st EXCEPT !.data = data] /\ [st EXCEPT !.data = data].kind = "store"
      BY <1>1, ProvisionedStore
    <2>2. IsPrefix(Home, p) => p \in CreatableDbs
      BY <1>1
    <2>3. /\ DOMAIN fs' = DOMAIN f1 \cup {p}
          /\ \A x \in DOMAIN f1 \ {p} : fs'[x] = f1[x]
          /\ fs'[p] = [st EXCEPT !.data = data]
      BY <1>1
    <2>. QED
      BY <2>1, <2>2, <2>3, StoreInv
  <1>2. CASE fs' = f1
    BY <1>2
  <1>. QED
    BY <1>1, <1>2 DEF Provision

-----------------------------------------------------------------------------
(* The hypotheses on the constants: backups outside the wallet home, and  *)
(* nothing under the home at the start.                                    *)
DeleteHypotheses == BackupsOutsideHome /\ FreshHome

LEMMA InitInv ==
  ASSUME FreshHome
  PROVE  Init => IInv
  BY DEF Init, IInv, FsInv, FreshHome, Nodes

(* Every handler keeps FsInv.                                              *)
LEMMA NextInv ==
  ASSUME BackupsOutsideHome
  PROVE  IInv /\ [Next]_vars => IInv'
  <1> SUFFICES ASSUME IInv, [Next]_vars PROVE IInv'
    OBVIOUS
  <1>1. ASSUME NEW id \in Ids, NEW k \in Keys, create(id, k)
        PROVE  IInv'
    <2>1. CASE ~MkdirOk(fs, WalletPath(id))
      BY <1>1, <2>1 DEF create, Refused, IInv
    <2>2. CASE MkdirOk(fs, WalletPath(id))
      <3>. DEFINE f1 == Mkdir(fs, WalletPath(id))
                  st == Provisioned(f1, DbPath(id), k)
      <3>1. FsInv(f1)
        BY WalletPaths, MkdirInv DEF IInv, Made
      <3>2. st # None => DbPath(id) \in CreatableDbs
        BY <3>1, DbCreatable
      <3>3. Provision(f1, DbPath(id), st, IF st = None THEN <<>> ELSE st.data, 0,
                      "create", id, None, k, TRUE)
        BY <1>1, <2>2 DEF create
      <3>. QED
        BY <3>1, <3>2, <3>3, WalletPaths, ProvisionStep DEF IInv
    <2>. QED
      BY <2>1, <2>2
  <1>2. ASSUME NEW id \in Ids, NEW k \in Keys, NEW nk \in Keys \cup {None}, open(id, k, nk)
        PROVE  IInv'
    BY <1>2 DEF open, Refused, IInv, FsInv, IsStore
  <1>3. ASSUME NEW id \in Ids, delete(id)
        PROVE  IInv'
    <2>1. CASE ~IsStore(DbPath(id))
      BY <1>3, <2>1 DEF delete, Refused, IInv
    <2>2. CASE IsStore(DbPath(id))
      <3>. DEFINE gone == Restrict(fs, DOMAIN fs \ {DbPath(id)})
      <3>1. FsInv(gone) /\ DOMAIN gone = DOMAIN fs \ {DbPath(id)}
        BY RestrictInv DEF IInv, Restrict
      <3>2. FsInv(Restrict(gone, {q \in DOMAIN gone : ~IsPrefix(WalletPath(id), q)}))
        BY <3>1, RestrictInv
      <3>. QED
        BY <1>3, <2>2, <3>1, <3>2 DEF delete, IInv
    <2>. QED
      BY <2>1, <2>2
  <1>4. ASSUME NEW id \in Ids, NEW k \in Keys, NEW p \in BackupPaths, NEW bk \in Keys,
               export(id, k, p, bk)
        PROVE  IInv'
    <2>1. CASE p \in DOMAIN fs \/ ~MkdirOk(fs, p)
      BY <1>4, <2>1 DEF export, Refused, IInv
    <2>2. CASE ~(p \in DOMAIN fs \/ ~MkdirOk(fs, p))
      <3>. DEFINE f1 == Mkdir(fs, p)
                  st == Provisioned(f1, BackupDb(p), bk)
                  src == fs[DbPath(id)].data
      <3>1. p \in Paths /\ ~IsPrefix(Home, p) /\ ~IsPrefix(Home, BackupDb(p))
        BY DEF BackupsOutsideHome
      <3>2. \A r \in Prefixes(p) : ~IsPrefix(Home, r)
        BY <3>1, PrefixesArePrefixes, PrefixTrans DEF Paths
      <3>3. FsInv(f1)
        BY <3>1, <3>2, MkdirInv DEF IInv
      <3>4. PICK lost \in SUBSET DOMAIN src :
              Provision(f1, BackupDb(p), st,
                        IF st = None THEN <<>> ELSE CopyInto(st.data, src, lost),
                        Cardinality(lost), "export", id, p, bk, TRUE)
        BY <1>4, <2>2 DEF export
      <3>. QED
        BY <3>1, <3>3, <3>4, BackupPathsArePaths, ProvisionStep DEF IInv
    <2>. QED
      BY <2>1, <2>2
  <1>5. ASSUME NEW id \in Ids, NEW k \in Keys, NEW p \in BackupPaths, NEW bk \in Keys,
               import(id, k, p, bk)
        PROVE  IInv'
    <2>. DEFINE f1 == Mkdir(fs, WalletPath(id))
                st == Provisioned(f1, DbPath(id), k)
    <2>1. MkdirOk(fs, WalletPath(id)) => FsInv(f1)
      BY WalletPaths, MkdirInv DEF IInv, Made
    <2>2. MkdirOk(fs, WalletPath(id)) => (st # None => DbPath(id) \in CreatableDbs)
      BY <2>1, DbCreatable
    <2>3. CASE p \notin DOMAIN fs
      BY <1>5, <2>3 DEF import, Refused, IInv
    <2>4. CASE p \in DOMAIN fs /\ (fs[p].kind = "dir" \/ IsDb(p))
      <3>1. ImportAskar(id, k, p, bk)
        BY <1>5, <2>4 DEF import
      <3>2. CASE ~(IsStore(BackupDb(p)) /\ fs[BackupDb(p)].key = bk) \/ ~MkdirOk(fs, WalletPath(id))
        BY <3>1, <3>2 DEF ImportAskar, Refused, IInv
      <3>3. CASE ~(~(IsStore(BackupDb(p)) /\ fs[BackupDb(p)].key = bk) \/ ~MkdirOk(fs, WalletPath(id)))
        <4>1. PICK lost \in SUBSET DOMAIN fs[BackupDb(p)].data :
                Provision(f1, DbPath(id), st,
                          IF st = None THEN <<>> ELSE CopyInto(st.data, fs[BackupDb(p)].data, lost),
                          Cardinality(lost), "import", id, p, k, TRUE)
          BY <3>1, <3>3 DEF ImportAskar
        <4>. QED
          BY <2>1, <2>2, <3>3, <4>1, WalletPaths, ProvisionStep DEF IInv
      <3>. QED
        BY <3>2, <3>3
    <2>5. CASE p \in DOMAIN fs /\ ~(fs[p].kind = "dir" \/ IsDb(p))
      <3>1. ImportLibindy(id, k, p, bk)
        BY <1>5, <2>5 DEF import
      <3>2. CASE ~(fs[p].kind = "libindy" /\ fs[p].key = bk) \/ ~MkdirOk(fs, WalletPath(id))
        BY <3>1, <3>2 DEF ImportLibindy, Refused, IInv
      <3>3. CASE ~(~(fs[p].kind = "libindy" /\ fs[p].key = bk) \/ ~MkdirOk(fs, WalletPath(id)))
        <4>1. PICK lost \in SUBSET DOMAIN fs[p].stream, broke \in SUBSET Fetching(fs[p].stream) :
                LET n == Cardinality(lost) + Cardinality(broke)
                    res == IF st = None THEN [data |-> <<>>, err |-> TRUE]
                           ELSE LibCopy(st.data, fs[p].stream, lost, broke)
                IN  Provision(f1, DbPath(id), st, res.data, n, "import", id, p, k, ~res.err)
          BY <3>1, <3>3 DEF ImportLibindy
        <4>. QED
          BY <2>1, <2>2, <3>3, <4>1, WalletPaths, ProvisionStep DEF IInv
      <3>. QED
        BY <3>2, <3>3
    <2>. QED
      BY <2>3, <2>4, <2>5
  <1>6. CASE UNCHANGED vars
    BY <1>6 DEF vars, IInv
  <1>. QED
    BY <1>1, <1>2, <1>3, <1>4, <1>5, <1>6 DEF Next

(* FsInv holds in every reachable state: under the wallet home there are  *)
(* only the directories create_path makes and the stores of wallets whose  *)
(* sqlite directory is one of them.                                        *)
THEOREM HomeInvariant ==
  ASSUME FreshHome, BackupsOutsideHome
  PROVE  Spec => []IInv
  BY InitInv, NextInv, PTL DEF Spec

-----------------------------------------------------------------------------
(* The call each step records: a handler other than delete never reports  *)
(* itself as a delete.                                                     *)
LEMMA OnlyDeleteIsDelete ==
  ASSUME [Next]_vars, last'.op = "delete", last.op # "delete" \/ ~UNCHANGED vars
  PROVE  \E id \in Ids : delete(id)
  <1>1. ASSUME NEW id \in Ids, NEW k \in Keys, create(id, k) PROVE FALSE
    BY <1>1 DEF create, Provision, Refused, Result
  <1>2. ASSUME NEW id \in Ids, NEW k \in Keys, NEW nk \in Keys \cup {None}, open(id, k, nk)
        PROVE FALSE
    BY <1>2 DEF open, Refused, Result
  <1>3. ASSUME NEW id \in Ids, NEW k \in Keys, NEW p \in BackupPaths, NEW bk \in Keys,
               export(id, k, p, bk)
        PROVE FALSE
    BY <1>3 DEF export, Provision, Refused, Result
  <1>4. ASSUME NEW id \in Ids, NEW k \in Keys, NEW p \in BackupPaths, NEW bk \in Keys,
               import(id, k, p, bk)
        PROVE FALSE
    BY <1>4 DEF import, ImportAskar, ImportLibindy, Provision, Refused, Result
  <1>. QED
    BY <1>1, <1>2, <1>3, <1>4 DEF Next, vars

(* The step form of DeleteOnlyNested.                                      *)
DeleteStep ==
  last'.op = "delete" =>
    \A q \in DOMAIN fs \ {DbPath(last'.id)} :
      IsStore(q) /\ ~(q \in DOMAIN fs' /\ fs'[q] = fs[q]) =>
        \E id2 \in Ids : q = DbPath(id2) /\ IsPrefix(WalletPath(last'.id), q)

(* A store that remove_dir_all of wallet_path(id) reaches lies under the  *)
(* home, so by FsInv it is the sqlite file of a wallet.                    *)
LEMMA DeleteReachesWallets ==
  ASSUME IInv, NEW id \in Ids, NEW q \in DOMAIN fs, IsStore(q),
         IsPrefix(WalletPath(id), q)
  PROVE  \E id2 \in Ids : q = DbPath(id2)
  <1>1. q \in Paths /\ IsPrefix(Home, q)
    BY WalletPaths, PrefixTrans DEF IInv, FsInv, Paths
  <1>. QED
    BY <1>1 DEF IInv, FsInv, IsStore, CreatableDbs

LEMMA DeleteStepHolds ==
  ASSUME IInv, [Next]_vars
  PROVE  DeleteStep
  <1> SUFFICES ASSUME last'.op = "delete",
                      NEW q \in DOMAIN fs \ {DbPath(last'.id)}, IsStore(q),
                      ~(q \in DOMAIN fs' /\ fs'[q] = fs[q])
               PROVE  \E id2 \in Ids : q = DbPath(id2) /\ IsPrefix(WalletPath(last'.id), q)
    BY DEF DeleteStep
  <1>1. CASE UNCHANGED vars
    BY <1>1 DEF vars
  <1>2. CASE ~UNCHANGED vars
    <2>1. PICK id \in Ids : delete(id)
      BY <1>2, OnlyDeleteIsDelete
    <2>2. CASE ~IsStore(DbPath(id))
      BY <2>1, <2>2 DEF delete, Refused
    <2>3. CASE IsStore(DbPath(id))
      <3>1. last'.id = id
        BY <2>1, <2>3 DEF delete, Result, Fault
      <3>2. IsPrefix(WalletPath(id), q)
        BY <2>1, <2>3, <3>1 DEF delete, Restrict, Fault
      <3>. QED
        BY <3>1, <3>2, DeleteReachesWallets
    <2>. QED
      BY <2>2, <2>3
  <1>. QED
    BY <1>1, <1>2

(* Wallet::delete(id) removes, besides its own store, only stores of      *)
(* wallets whose sqlite file lies in wallet_path(id), for every home, set *)
(* of ids, backup paths and initial file system meeting the hypotheses.   *)
(* Which of those exist depends on the ids: with a, a/b and a/b/a the     *)
(* store of a/b does, and DeleteOnlyOwn fails (wallet_delete_nested).     *)
THEOREM DeleteOnlyNestedProved ==
  ASSUME DeleteHypotheses
  PROVE  Spec => DeleteOnlyNested
  <1>1. Spec => []IInv
    BY HomeInvariant DEF DeleteHypotheses
  <1>2. IInv /\ [Next]_vars => [DeleteStep]_vars
    BY DeleteStepHolds DEF DeleteHypotheses
  <1>. QED
    BY <1>1, <1>2, PTL DEF Spec, DeleteOnlyNested, DeleteStep
=============================================================================
