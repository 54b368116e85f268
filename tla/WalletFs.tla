------------------------------ MODULE WalletFs ------------------------------
(***************************************************************************)
(* The wallet lifecycle of libindy_vdr/src/tools/wallet/mod.rs over the    *)
(* file system it works on: Wallet::create, open (with rekey), delete,     *)
(* export and import of an Askar or a libindy backup, with WalletConfig,   *)
(* WalletDirectory and WalletBackup ("tools/wallet copy/") and the sqlite  *)
(* paths of WalletUri (tools/wallet/uri.rs).                               *)
(*                                                                         *)
(* A path is a sequence of components, a component a pair of a stem and an *)
(* extension ("" for none), so that PathBuf::push and set_extension("db")  *)
(* are modelled by what they do.  fs maps every existing path to what is   *)
(* there: a directory, an Askar sqlite store (its pass key and entries) or *)
(* a libindy backup file (its key and its record stream).  Each handler is *)
(* one step; the CLI and the FFI run one at a time.                        *)
(*                                                                         *)
(* Askar's sqlite backend is outside this tree; it is modelled as its      *)
(* documentation describes it: provision_backend with recreate = false     *)
(* creates a store when the file is absent and its directory exists, and  *)
(* opens a store already there with the same key; open_backend needs the   *)
(* store's key; remove_backend removes the file and returns whether it was *)
(* there; an insert of a name already present fails.  An Askar call may    *)
(* also fail on I/O, at most MaxFaults times in a run.                     *)
(***************************************************************************)
EXTENDS Naturals, Sequences, SequencesExt, FiniteSets

CONSTANTS
  Home,         \* EnvironmentUtils::wallet_home_path(), a path
  Ids,          \* WalletConfig::id values, as the paths they push
  BackupPaths,  \* ExportConfig::path and ImportConfig::path values
  Keys,         \* pass keys of wallets and backups
  Dids,         \* names of CATEGORY_DID entries
  Verkeys,      \* names of key entries
  Vals,         \* entry values
  InitFs,       \* the file systems a run may start from
  MaxOps,       \* the number of calls in a run
  MaxFaults,    \* the number of Askar I/O failures in a run
  None

Entries == Dids \cup Verkeys

(* What a libindy backup stream may hold: BackupRecord type_, id, value.   *)
LibRecords ==
  [type : {"Indy::Key"}, id : Verkeys, val : Vals]
  \cup [type : {"Indy::Did", "Indy::TemporaryDid", "Indy::DidMetadata"},
        id : Dids, val : Vals]
  \cup [type : {"Indy::TheirDid"}, id : Dids, val : Vals]

Data == UNION { [E -> Vals] : E \in SUBSET Entries }

Nodes ==
  {[kind |-> "dir"]}
  \cup [kind : {"store"}, key : Keys, data : Data]
  \cup [kind : {"libindy"}, key : Keys, stream : Seq(LibRecords)]

(* A path component: a stem and an extension, "db" among them.            *)
PathComponents == STRING \X (STRING \cup {"db"})

Paths == Seq(PathComponents)

ASSUME WalletFsAssumption ==
  /\ Dids \cap Verkeys = {}
  /\ MaxOps \in Nat /\ MaxFaults \in Nat
  /\ None \notin Keys
  /\ Home \in Paths
  /\ Ids \subseteq Paths \ {<<>>} /\ BackupPaths \subseteq Paths \ {<<>>}
  /\ \A f \in InitFs : DOMAIN f \subseteq Paths /\ \A q \in DOMAIN f : f[q] \in Nodes

VARIABLES
  fs,       \* path -> node, for every path that exists
  last,     \* the call of the last step and whether it returned Ok
  ops,      \* calls made
  faults    \* Askar I/O failures so far

vars == <<fs, last, ops, faults>>

-----------------------------------------------------------------------------
(* PathBuf::set_extension("db") on the last component.                     *)
WithDb(p) == [p EXCEPT ![Len(p)] = <<@[1], "db">>]

IsDb(p) == p # <<>> /\ Last(p)[2] = "db"

(* EnvironmentUtils::wallet_path(id).                                      *)
WalletPath(id) == Home \o id

(* build_sqlite_uri with path None: wallet_path(id), push(id),             *)
(* set_extension("db").                                                    *)
DbPath(id) == WithDb(WalletPath(id) \o id)

(* build_sqlite_uri with Some(path) and WalletBackup::id() (the file       *)
(* name): the path itself when it ends in ".db", else path/<name>.db.      *)
BackupDb(p) == IF IsDb(p) THEN p ELSE WithDb(p \o <<Last(p)>>)

IsStore(q) == q \in DOMAIN fs /\ fs[q].kind = "store"

(* DirBuilder::new().recursive(true).create(p) succeeds unless a prefix is *)
(* a file; it adds the missing directories.                                *)
MkdirOk(f, p) == \A q \in Prefixes(p) : q \in DOMAIN f => f[q].kind = "dir"

(* A variant that makes only p itself, as a non-recursive DirBuilder     *)
(* that did not check the parent would.                                    *)
MkdirOnlyLast(f, p) == [q \in DOMAIN f \cup {p} |->
                          IF q \in DOMAIN f THEN f[q] ELSE [kind |-> "dir"]]

Mkdir(f, p) == [q \in DOMAIN f \cup (Prefixes(p) \ {<<>>}) |->
                  IF q \in DOMAIN f THEN f[q] ELSE [kind |-> "dir"]]

(* provision_backend(.., recreate = false) at p on f: the store it returns *)
(* (None when it fails).                                                   *)
Provisioned(f, p, k) ==
  IF p \in DOMAIN f
  THEN IF f[p].kind = "store" /\ f[p].key = k THEN f[p] ELSE None
  ELSE IF Len(p) > 1 /\ Front(p) \in DOMAIN f /\ f[Front(p)].kind = "dir"
       THEN [kind |-> "store", key |-> k, data |-> <<>>]
       ELSE None

(* copy_records_from_askar_store: every DID entry and every key of `from`  *)
(* is inserted into `to`; an insert that fails (a name already there, or   *)
(* one of the failed inserts `lost`) is dropped by .ok().                  *)
CopyInto(to, from, lost) ==
  LET new == (DOMAIN from) \ (DOMAIN to \cup lost)
  IN  [e \in DOMAIN to \cup new |-> IF e \in DOMAIN to THEN to[e] ELSE from[e]]

LibStep(acc, x) ==
  LET r == x.rec IN
  IF acc.err THEN acc
  ELSE CASE r.type \in {"Indy::Key", "Indy::Did"} ->
              [acc EXCEPT !.data = CopyInto(acc.data, [e \in {r.id} |-> r.val],
                                            IF x.lost THEN {r.id} ELSE {})]
         [] r.type \in {"Indy::TemporaryDid", "Indy::DidMetadata"} ->
              IF x.broke \/ r.id \notin DOMAIN acc.data THEN [acc EXCEPT !.err = TRUE]
              ELSE IF x.lost THEN acc
              ELSE [acc EXCEPT !.data[r.id] = r.val]
         [] OTHER -> acc

(* The record loop over the stream, with the records whose write (lost)   *)
(* or fetch (broke) fails.                                                 *)
LibCopy(to, stream, lost, broke) ==
  FoldLeft(LibStep, [data |-> to, err |-> FALSE],
           [i \in DOMAIN stream |-> [rec |-> stream[i], lost |-> i \in lost,
                                     broke |-> i \in broke]])

(* The records of a stream that fetch a DID: TemporaryDid, DidMetadata.    *)
Fetching(stream) ==
  {i \in DOMAIN stream : stream[i].type \in {"Indy::TemporaryDid", "Indy::DidMetadata"}}

Result(op, id, p, k, ok) == [op |-> op, id |-> id, path |-> p, key |-> k, ok |-> ok]

Call == ops < MaxOps /\ ops' = ops + 1

(* An Askar call that fails on I/O.                                        *)
Fault == faults < MaxFaults /\ faults' = faults + 1

Init ==
  /\ fs \in InitFs
  /\ last = Result("none", None, None, None, TRUE)
  /\ ops = 0
  /\ faults = 0

-----------------------------------------------------------------------------
(* The end of a handler from its provision_backend call on: the store st *)
(* it returns (None when it fails) is put at p on f1 with entries data, n  *)
(* of the inserts before having failed; or provisioning fails, on its own  *)
(* or on I/O, and the directories made before it stay.                     *)
Provision(f1, p, st, data, n, op, id, q, k, ok) ==
  \/ /\ st # None
     /\ fs' = [x \in DOMAIN f1 \cup {p} |->
                IF x = p THEN [st EXCEPT !.data = data] ELSE f1[x]]
     /\ faults' = faults + n
     /\ last' = Result(op, id, q, k, ok)
  \/ /\ st = None
     /\ fs' = f1
     /\ UNCHANGED faults
     /\ last' = Result(op, id, q, k, FALSE)
  \/ /\ st # None /\ n = 0
     /\ Fault
     /\ fs' = f1
     /\ last' = Result(op, id, q, k, FALSE)

Refused(op, id, q, k) ==
  /\ last' = Result(op, id, q, k, FALSE)
  /\ UNCHANGED <<fs, faults>>

(* Wallet::create.  config.exists() looks for wallets/<id>.json, which no  *)
(* code of this tree writes (WalletConfig::store has no caller), so it is  *)
(* always false and the Duplicate return never happens.                    *)
create(id, k) ==
  /\ Call
  /\ IF ~MkdirOk(fs, WalletPath(id)) THEN Refused("create", id, None, k)
     ELSE LET f1 == Mkdir(fs, WalletPath(id))
              st == Provisioned(f1, DbPath(id), k)
          IN  Provision(f1, DbPath(id), st, IF st = None THEN <<>> ELSE st.data, 0,
                        "create", id, None, k, TRUE)

(* Wallet::open, and store.rekey when credentials carry a rekey.           *)
open(id, k, nk) ==
  /\ Call
  /\ IF ~(IsStore(DbPath(id)) /\ fs[DbPath(id)].key = k)
     THEN Refused("open", id, None, k)
     ELSE /\ fs' = IF nk = None THEN fs ELSE [fs EXCEPT ![DbPath(id)].key = nk]
          /\ last' = Result("open", id, None, k, TRUE)
          /\ UNCHANGED faults

(* A variant whose WalletDirectory::delete removes the wallet home        *)
(* instead of wallet_path(id).                                             *)
delete_home(id) ==
  /\ Call
  /\ IF ~IsStore(DbPath(id)) THEN Refused("delete", id, None, None)
     ELSE LET gone == Restrict(fs, DOMAIN fs \ {DbPath(id)}) IN
          \/ /\ fs' = Restrict(gone, {q \in DOMAIN gone : ~IsPrefix(Home, q)})
             /\ last' = Result("delete", id, None, None, TRUE)
             /\ UNCHANGED faults
          \/ /\ Fault
             /\ fs' = gone
             /\ last' = Result("delete", id, None, None, FALSE)

(* Wallet::delete: remove_backend, then WalletDirectory::delete, which is  *)
(* remove_dir_all of wallet_path(id).                                      *)
delete(id) ==
  /\ Call
  /\ IF ~IsStore(DbPath(id)) THEN Refused("delete", id, None, None)
     ELSE LET gone == Restrict(fs, DOMAIN fs \ {DbPath(id)}) IN
          \/ /\ fs' = Restrict(gone, {q \in DOMAIN gone : ~IsPrefix(WalletPath(id), q)})
             /\ last' = Result("delete", id, None, None, TRUE)
             /\ UNCHANGED faults
          \/ /\ Fault
             /\ fs' = gone
             /\ last' = Result("delete", id, None, None, FALSE)

(* A variant of export without the init_dir check that the path is new.   *)
export_no_init_check(id, k, p, bk) ==
  /\ IsStore(DbPath(id)) /\ fs[DbPath(id)].key = k
  /\ Call
  /\ IF ~MkdirOk(fs, p) THEN Refused("export", id, p, bk)
     ELSE LET f1 == Mkdir(fs, p)
              st == Provisioned(f1, BackupDb(p), bk)
              src == fs[DbPath(id)].data
          IN  \E lost \in SUBSET DOMAIN src :
                /\ faults + Cardinality(lost) <= MaxFaults
                /\ lost = {} \/ st # None
                /\ Provision(f1, BackupDb(p), st,
                             IF st = None THEN <<>> ELSE CopyInto(st.data, src, lost),
                             Cardinality(lost), "export", id, p, bk, TRUE)

(* Wallet::export on the store of an open wallet (Wallet::open with key k  *)
(* returned it): init_dir refuses a path that exists and makes the         *)
(* directory, then the backup store is provisioned at the sqlite path of   *)
(* the backup and the records are copied.                                  *)
export(id, k, p, bk) ==
  /\ IsStore(DbPath(id)) /\ fs[DbPath(id)].key = k
  /\ Call
  /\ IF p \in DOMAIN fs \/ ~MkdirOk(fs, p) THEN Refused("export", id, p, bk)
     ELSE LET f1 == Mkdir(fs, p)
              st == Provisioned(f1, BackupDb(p), bk)
              src == fs[DbPath(id)].data
          IN  \E lost \in SUBSET DOMAIN src :
                /\ faults + Cardinality(lost) <= MaxFaults
                /\ lost = {} \/ st # None
                /\ Provision(f1, BackupDb(p), st,
                             IF st = None THEN <<>> ELSE CopyInto(st.data, src, lost),
                             Cardinality(lost), "export", id, p, bk, TRUE)

ImportAskar(id, k, p, bk) ==
  LET bp == BackupDb(p) IN
  IF ~(IsStore(bp) /\ fs[bp].key = bk) \/ ~MkdirOk(fs, WalletPath(id))
  THEN Refused("import", id, p, k)
  ELSE LET f1 == Mkdir(fs, WalletPath(id))
           st == Provisioned(f1, DbPath(id), k)
       IN  \E lost \in SUBSET DOMAIN fs[bp].data :
             /\ faults + Cardinality(lost) <= MaxFaults
             /\ lost = {} \/ st # None
             /\ Provision(f1, DbPath(id), st,
                          IF st = None THEN <<>> ELSE CopyInto(st.data, fs[bp].data, lost),
                          Cardinality(lost), "import", id, p, k, TRUE)

(* import_libindy_backup: LibindyBackupReader::init (the file must be a    *)
(* libindy backup and the key its key), create_path, provision, then the   *)
(* record loop, which returns on the first TemporaryDid or DidMetadata of  *)
(* a DID not in the wallet or whose fetch fails, leaving what it inserted, *)
(* and drops the inserts and replaces that fail.                           *)
ImportLibindy(id, k, p, bk) ==
  IF ~(fs[p].kind = "libindy" /\ fs[p].key = bk) \/ ~MkdirOk(fs, WalletPath(id))
  THEN Refused("import", id, p, k)
  ELSE LET f1 == Mkdir(fs, WalletPath(id))
           st == Provisioned(f1, DbPath(id), k)
           s == fs[p].stream
       IN  \E lost \in SUBSET DOMAIN s, broke \in SUBSET Fetching(s) :
             LET n == Cardinality(lost) + Cardinality(broke)
                 res == IF st = None THEN [data |-> <<>>, err |-> TRUE]
                        ELSE LibCopy(st.data, s, lost, broke)
             IN  /\ faults + n <= MaxFaults
                 /\ n = 0 \/ st # None
                 /\ Provision(f1, DbPath(id), st, res.data, n, "import", id, p, k, ~res.err)

(* Wallet::import: the backup must exist; config.exists() is always false  *)
(* (see create); a directory or a ".db" file is an Askar backup, any other *)
(* file a libindy one.                                                     *)
import(id, k, p, bk) ==
  /\ Call
  /\ IF p \notin DOMAIN fs THEN Refused("import", id, p, k)
     ELSE IF fs[p].kind = "dir" \/ IsDb(p) THEN ImportAskar(id, k, p, bk)
     ELSE ImportLibindy(id, k, p, bk)

Next ==
  \E id \in Ids, k \in Keys :
    \/ create(id, k)
    \/ \E nk \in Keys \cup {None} : open(id, k, nk)
    \/ delete(id)
    \/ \E p \in BackupPaths, bk \in Keys : export(id, k, p, bk) \/ import(id, k, p, bk)

Spec == Init /\ [][Next]_vars

-----------------------------------------------------------------------------
(* fs is a tree: what exists lies in a directory that exists.              *)
TypeOK ==
  /\ \A q \in DOMAIN fs : fs[q] \in Nodes
  /\ \A q \in DOMAIN fs : Len(q) > 1 => Front(q) \in DOMAIN fs /\ fs[Front(q)].kind = "dir"
  /\ last.op \in {"none", "create", "open", "delete", "export", "import"}
  /\ last.ok \in BOOLEAN
  /\ ops \in 0..MaxOps
  /\ faults \in 0..MaxFaults

(* The step is a call of op that returned Ok.                              *)
OkCall(op) == last'.op = op /\ last'.ok

(* The backup the step's import read is an Askar one.                      *)
AskarImport == fs[last'.path].kind = "dir" \/ IsDb(last'.path)

(* Wallet::export: an export that returns Ok with no I/O failure on the    *)
(* way has written, under the backup's key, a store holding exactly the    *)
(* DID entries and keys of the wallet it was called on.                    *)
ExportFaithful ==
  [][ OkCall("export") /\ faults' = faults =>
        LET b == fs'[BackupDb(last'.path)] IN
        /\ b.kind = "store" /\ b.key = last'.key
        /\ b.data = fs[DbPath(last'.id)].data ]_vars

LibNames(stream) ==
  { stream[i].id : i \in { i \in DOMAIN stream :
                             stream[i].type \in {"Indy::Key", "Indy::Did"} } }

DeleteOnlyOwn ==
  [][ last'.op = "delete" =>
        \A q \in DOMAIN fs \ {DbPath(last'.id)} :
          IsStore(q) => q \in DOMAIN fs' /\ fs'[q] = fs[q] ]_vars

(* What Wallet::delete(id) does remove: besides its own store, only the   *)
(* stores of wallets whose sqlite file lies in id's wallet directory;      *)
(* never a backup, a store elsewhere or a wallet beside it.               *)
DeleteOnlyNested ==
  [][ last'.op = "delete" =>
        \A q \in DOMAIN fs \ {DbPath(last'.id)} :
          IsStore(q) /\ ~(q \in DOMAIN fs' /\ fs'[q] = fs[q]) =>
            \E id2 \in Ids : q = DbPath(id2) /\ IsPrefix(WalletPath(last'.id), q) ]_vars

-----------------------------------------------------------------------------
(* Where DeleteOnlyNested rests: the directories the handlers make under the *)
(* wallet home are those of create_path, the prefixes of wallet_path(id); *)
(* a wallet's store can be provisioned only where its sqlite file's       *)
(* directory is one of them.                                               *)
Made == UNION { Prefixes(WalletPath(id)) : id \in Ids }

Creatable(id) == Front(DbPath(id)) \in Made

CreatableDbs == { DbPath(id) : id \in { id \in Ids : Creatable(id) } }

(* Backups are written and read outside the wallet home.                  *)
BackupsOutsideHome ==
  \A p \in BackupPaths : ~IsPrefix(Home, p) /\ ~IsPrefix(Home, BackupDb(p))

(* The wallet home holds nothing yet.                                      *)
FreshHome == \A f \in InitFs : \A q \in DOMAIN f : ~IsPrefix(Home, q)
=============================================================================
