------------------------------ MODULE DidStore ------------------------------
(***************************************************************************)
(* The DID tools of libindy_vdr/src/tools/did (Did::create,               *)
(* replace_keys_start, replace_keys_apply, set_metadata, qualify) over     *)
(* the Askar store of tools/wallet/mod.rs.  Every store call of the code   *)
(* (fetch_record, insert_key, store_record, remove_record) opens a session *)
(* of its own and is one atomic step here; a DID operation is a sequence   *)
(* of such steps, and the steps of operations of different threads on one *)
(* wallet interleave.  The operations are public functions of the crate;   *)
(* the FFI (ffi/did.rs) exposes only Did::create, and the others have no   *)
(* caller in this tree.  Each store call may also                          *)
(* fail (an I/O or busy error), and the operation then returns the error   *)
(* with what it has already written left in the store.                     *)
(*                                                                         *)
(* A DID is named by its method (None for an unqualified DID) and its base *)
(* (base58 of the first 16 bytes of the verkey it was created with, an     *)
(* injective function abstracted to the verkey itself).  A seed is         *)
(* abstracted to the verkey it yields; BadSeed is one Seed::from_str       *)
(* refuses.                                                                *)
(***************************************************************************)
EXTENDS Naturals, FiniteSets, TLC

CONSTANTS
  Threads,     \* callers sharing the wallet
  Verkeys,     \* Ed25519 verkeys, one per seed
  BadSeed,     \* a seed string Seed::from_str refuses
  Methods,     \* DID method names
  BadMethods,  \* method names DidValue::to_qualified refuses
  Metas,       \* metadata strings
  None,
  MaxOps,      \* the number of DID operations the callers start
  MaxFaults    \* the number of store calls that fail

ASSUME DidStoreAssumption ==
  /\ BadMethods \subseteq Methods
  /\ MaxOps \in Nat /\ MaxFaults \in Nat
  /\ None \notin Verkeys \cup Methods \cup Metas \cup {BadSeed}
  /\ BadSeed \notin Verkeys

Names == (Methods \cup {None}) \X Verkeys

(* DidInfo with the tags of its entry: verkey, next_verkey, metadata,      *)
(* method, and the "verkey" and "method" EntryTags.                        *)
Records == [verkey : Verkeys, next : Verkeys \cup {None},
            metadata : Metas \cup {None}, method : Methods \cup {None},
            tag_verkey : Verkeys, tag_method : Methods \cup {None}]

Args == [did : Names \cup {None}, seed : Verkeys \cup {BadSeed, None},
         method : Methods \cup {None}, metadata : Metas \cup {None}]

VARIABLES
  dids,       \* the category "did" of the store: name -> record
  keys,       \* the verkeys of the keys in the store
  pc,         \* pc[t]: the next store call of thread t, "idle" between calls
  arg,        \* arg[t]: the arguments of the operation thread t runs
  read,       \* read[t]: the record the operation fetched, or None
  ops,        \* operations started
  faults,     \* store calls failed
  created,    \* bases of the DIDs created (a DID create returned Ok)
  lastMeta    \* lastMeta[b]: metadata of the last Ok create/set_metadata

vars == <<dids, keys, pc, arg, read, ops, faults, created, lastMeta>>

store == <<dids, keys>>
ghost == <<created, lastMeta>>

Put(n, r) == [x \in DOMAIN dids \cup {n} |-> IF x = n THEN r ELSE dids[x]]

Drop(n) == [x \in DOMAIN dids \ {n} |-> dids[x]]

Base(n) == n[2]

(* Seed::from_str accepts the seed: 32 bytes, base64 of 32 bytes, or 64    *)
(* hex digits.                                                             *)
SeedAccepted(s) == s # BadSeed

(* DidValue::to_qualified(method) of a name: the same base under method.   *)
Qualified(n, m) == <<m, Base(n)>>

Init ==
  /\ dids = [x \in {} |-> None]
  /\ keys = {}
  /\ pc = [t \in Threads |-> "idle"]
  /\ arg = [t \in Threads |-> [did |-> None, seed |-> None, method |-> None,
                               metadata |-> None]]
  /\ read = [t \in Threads |-> None]
  /\ ops = 0 /\ faults = 0
  /\ created = {}
  /\ lastMeta = [b \in Verkeys |-> None]

(* The operation returns: an error, or Ok after its last store call.       *)
Return(t) == pc' = [pc EXCEPT ![t] = "idle"] /\ read' = [read EXCEPT ![t] = None]

Goto(t, l) == pc' = [pc EXCEPT ![t] = l]

(* The store call of thread t fails and the operation returns the error.   *)
Fault(t) ==
  /\ pc[t] # "idle" /\ faults < MaxFaults
  /\ faults' = faults + 1
  /\ Return(t)
  /\ UNCHANGED <<store, arg, ops, ghost>>

(* A caller starts a DID operation.                                        *)
Call(t) ==
  /\ pc[t] = "idle" /\ ops < MaxOps
  /\ ops' = ops + 1
  /\ \/ \E s \in Verkeys \cup {BadSeed}, m \in Methods \cup {None},
          md \in Metas \cup {None} :
          /\ arg' = [arg EXCEPT ![t] = [did |-> None, seed |-> s, method |-> m,
                                         metadata |-> md]]
          /\ Goto(t, "create_key")
     \/ \E n \in Names, s \in Verkeys \cup {BadSeed} :
          /\ arg' = [arg EXCEPT ![t] = [did |-> n, seed |-> s, method |-> None,
                                         metadata |-> None]]
          /\ Goto(t, "start_read")
     \/ \E n \in Names :
          /\ arg' = [arg EXCEPT ![t] = [did |-> n, seed |-> None, method |-> None,
                                         metadata |-> None]]
          /\ Goto(t, "apply_read")
     \/ \E n \in Names, md \in Metas :
          /\ arg' = [arg EXCEPT ![t] = [did |-> n, seed |-> None, method |-> None,
                                         metadata |-> md]]
          /\ Goto(t, "meta_read")
     \/ \E n \in Names, m \in Methods :
          /\ arg' = [arg EXCEPT ![t] = [did |-> n, seed |-> None, method |-> m,
                                         metadata |-> None]]
          /\ Goto(t, "qualify_read")
  /\ UNCHANGED <<store, read, faults, ghost>>

(* Key::create as the first call of Did::create: Seed::from_str, then      *)
(* insert_key, which fails on a key already in the store.                  *)
create_key(t) ==
  /\ pc[t] = "create_key"
  /\ LET s == arg[t].seed IN
       \/ /\ ~SeedAccepted(s) \/ s \in keys
          /\ Return(t) /\ UNCHANGED keys
       \/ /\ SeedAccepted(s) /\ s \notin keys
          /\ keys' = keys \cup {s}
          /\ Goto(t, "create_check") /\ UNCHANGED read
  /\ UNCHANGED <<dids, arg, ops, faults, ghost>>

(* get_opt_record of the unqualified DID: "DID already exits" if present;  *)
(* then to_qualified of the method, if one is given.                       *)
create_check(t) ==
  /\ pc[t] = "create_check"
  /\ LET a == arg[t] IN
       \/ /\ <<None, a.seed>> \in DOMAIN dids \/ a.method \in BadMethods
          /\ Return(t)
       \/ /\ <<None, a.seed>> \notin DOMAIN dids /\ a.method \notin BadMethods
          /\ Goto(t, "create_store") /\ UNCHANGED read
  /\ UNCHANGED <<store, arg, ops, faults, ghost>>

(* store_record(.., new = true): insert, which fails on a name in use.     *)
create_store(t) ==
  /\ pc[t] = "create_store"
  /\ LET a == arg[t]
         n == <<a.method, a.seed>>
     IN  IF n \in DOMAIN dids THEN UNCHANGED <<dids, ghost>>
         ELSE /\ dids' = Put(n, [verkey |-> a.seed, next |-> None,
                                 metadata |-> a.metadata, method |-> a.method,
                                 tag_verkey |-> a.seed, tag_method |-> a.method])
              /\ created' = created \cup {a.seed}
              /\ lastMeta' = [lastMeta EXCEPT ![a.seed] = a.metadata]
  /\ Return(t)
  /\ UNCHANGED <<keys, arg, ops, faults>>

(* A variant in which replace_keys_apply does not refuse a DID without a  *)
(* next verkey.                                                            *)
get_record_no_next_check(t) ==
  /\ pc[t] \in {"start_read", "apply_read", "meta_read", "qualify_read"}
  /\ LET n == arg[t].did IN
       \/ /\ \/ n \notin DOMAIN dids
             \/ pc[t] = "qualify_read" /\ arg[t].method \in BadMethods
          /\ Return(t)
       \/ /\ n \in DOMAIN dids
          /\ pc[t] = "qualify_read" => arg[t].method \notin BadMethods
          /\ read' = [read EXCEPT ![t] = dids[n]]
          /\ Goto(t, CASE pc[t] = "start_read" -> "start_key"
                       [] pc[t] = "apply_read" -> "apply_store"
                       [] pc[t] = "meta_read" -> "meta_store"
                       [] pc[t] = "qualify_read" -> "qualify_remove")
  /\ UNCHANGED <<store, arg, ops, faults, ghost>>

(* get_record(did, true), the first call of replace_keys_start,            *)
(* replace_keys_apply, set_metadata and qualify: NotFound if absent.  It   *)
(* holds no lock once its session is dropped.  replace_keys_apply also     *)
(* returns InvalidEntityState when no next verkey is set, and qualify an   *)
(* error when to_qualified refuses the method.                             *)
get_record(t) ==
  /\ pc[t] \in {"start_read", "apply_read", "meta_read", "qualify_read"}
  /\ LET n == arg[t].did IN
       \/ /\ \/ n \notin DOMAIN dids
             \/ pc[t] = "apply_read" /\ n \in DOMAIN dids /\ dids[n].next = None
             \/ pc[t] = "qualify_read" /\ arg[t].method \in BadMethods
          /\ Return(t)
       \/ /\ n \in DOMAIN dids
          /\ pc[t] = "apply_read" => dids[n].next # None
          /\ pc[t] = "qualify_read" => arg[t].method \notin BadMethods
          /\ read' = [read EXCEPT ![t] = dids[n]]
          /\ Goto(t, CASE pc[t] = "start_read" -> "start_key"
                       [] pc[t] = "apply_read" -> "apply_store"
                       [] pc[t] = "meta_read" -> "meta_store"
                       [] pc[t] = "qualify_read" -> "qualify_remove")
  /\ UNCHANGED <<store, arg, ops, faults, ghost>>

(* A variant whose Key::create does not insert the key.                    *)
start_key_no_insert(t) ==
  /\ pc[t] = "start_key"
  /\ LET s == arg[t].seed IN
       \/ /\ ~SeedAccepted(s) \/ s \in keys
          /\ Return(t) /\ UNCHANGED keys
       \/ /\ SeedAccepted(s) /\ s \notin keys
          /\ UNCHANGED keys
          /\ Goto(t, "start_store") /\ UNCHANGED read
  /\ UNCHANGED <<dids, arg, ops, faults, ghost>>

(* Key::create of replace_keys_start.                                      *)
start_key(t) ==
  /\ pc[t] = "start_key"
  /\ LET s == arg[t].seed IN
       \/ /\ ~SeedAccepted(s) \/ s \in keys
          /\ Return(t) /\ UNCHANGED keys
       \/ /\ SeedAccepted(s) /\ s \notin keys
          /\ keys' = keys \cup {s}
          /\ Goto(t, "start_store") /\ UNCHANGED read
  /\ UNCHANGED <<dids, arg, ops, faults, ghost>>

(* store_record(.., new = false): replace, which fails on a missing name;  *)
(* the record written is the one read, changed, with the entry's old tags. *)
Replace(t, r) ==
  LET n == arg[t].did IN
  \/ /\ n \notin DOMAIN dids
     /\ UNCHANGED <<dids, ghost>>
  \/ /\ n \in DOMAIN dids
     /\ dids' = Put(n, r)
     /\ created' = created
     /\ lastMeta' = IF pc[t] = "meta_store"
                    THEN [lastMeta EXCEPT ![Base(n)] = arg[t].metadata]
                    ELSE lastMeta

(* The write of replace_keys_start: next_verkey set to the new verkey.     *)
start_store(t) ==
  /\ pc[t] = "start_store"
  /\ Replace(t, [read[t] EXCEPT !.next = arg[t].seed])
  /\ Return(t)
  /\ UNCHANGED <<keys, arg, ops, faults>>

(* The write of replace_keys_apply: the next verkey becomes the verkey.    *)
apply_store(t) ==
  /\ pc[t] = "apply_store"
  /\ Replace(t, [read[t] EXCEPT !.verkey = read[t].next, !.next = None])
  /\ Return(t)
  /\ UNCHANGED <<keys, arg, ops, faults>>

(* The write of set_metadata.                                              *)
meta_store(t) ==
  /\ pc[t] = "meta_store"
  /\ Replace(t, [read[t] EXCEPT !.metadata = arg[t].metadata])
  /\ Return(t)
  /\ UNCHANGED <<keys, arg, ops, faults>>

(* A variant that stores the qualified DID without removing the old one.   *)
qualify_remove_keep(t) ==
  /\ pc[t] = "qualify_remove"
  /\ LET n == arg[t].did IN
       \/ /\ n \notin DOMAIN dids
          /\ Return(t) /\ UNCHANGED dids
       \/ /\ n \in DOMAIN dids
          /\ UNCHANGED dids
          /\ Goto(t, "qualify_store") /\ UNCHANGED read
  /\ UNCHANGED <<keys, arg, ops, faults, ghost>>

(* qualify: remove_record of the old name, which fails if it is gone.      *)
qualify_remove(t) ==
  /\ pc[t] = "qualify_remove"
  /\ LET n == arg[t].did IN
       \/ /\ n \notin DOMAIN dids
          /\ Return(t) /\ UNCHANGED dids
       \/ /\ n \in DOMAIN dids
          /\ dids' = Drop(n)
          /\ Goto(t, "qualify_store") /\ UNCHANGED read
  /\ UNCHANGED <<keys, arg, ops, faults, ghost>>

(* qualify: store_record(.., new = true) of the record read under the      *)
(* qualified name, with its old method field and tags.                     *)
qualify_store(t) ==
  /\ pc[t] = "qualify_store"
  /\ LET q == Qualified(arg[t].did, arg[t].method) IN
       dids' = IF q \in DOMAIN dids THEN dids ELSE Put(q, read[t])
  /\ Return(t)
  /\ UNCHANGED <<keys, arg, ops, faults, ghost>>

Next ==
  \E t \in Threads :
    \/ Call(t) \/ Fault(t)
    \/ create_key(t) \/ create_check(t) \/ create_store(t)
    \/ get_record(t) \/ start_key(t) \/ start_store(t)
    \/ apply_store(t) \/ meta_store(t)
    \/ qualify_remove(t) \/ qualify_store(t)

Spec == Init /\ [][Next]_vars

-----------------------------------------------------------------------------
InFlight(t) == pc[t] # "idle"

TypeOK ==
  /\ DOMAIN dids \subseteq Names /\ \A n \in DOMAIN dids : dids[n] \in Records
  /\ keys \subseteq Verkeys
  /\ pc \in [Threads -> {"idle", "create_key", "create_check", "create_store",
                         "start_read", "start_key", "start_store", "apply_read",
                         "apply_store", "meta_read", "meta_store", "qualify_read",
                         "qualify_remove", "qualify_store"}]
  /\ arg \in [Threads -> Args]
  /\ read \in [Threads -> Records \cup {None}]
  /\ ops \in 0..MaxOps /\ faults \in 0..MaxFaults
  /\ created \subseteq Verkeys
  /\ lastMeta \in [Verkeys -> Metas \cup {None}]

(* Did::sign and replace_keys_apply can use every DID record: the key of   *)
(* its verkey, and of its next verkey when one is set, is in the wallet.   *)
KeysBacked ==
  \A n \in DOMAIN dids :
    /\ dids[n].verkey \in keys
    /\ dids[n].next # None => dids[n].next \in keys

(* Thread t is inside qualify, between removing the old name and storing   *)
(* the record under the new one.                                          *)
Renaming(t, b) == pc[t] = "qualify_store" /\ Base(arg[t].did) = b

(* A DID that Did::create returned is never in the wallet under two       *)
(* names, through every later replace, set_metadata and qualify of any     *)
(* thread and every failed store call (a qualify that is renaming it holds *)
(* it as one of the names).  The duplicate check of create looks up the    *)
(* unqualified name while qualify stores a qualified one, and qualify      *)
(* removes the old name and stores the new one in two store calls.         *)
CreatedDidNeverDuplicated ==
  \A b \in created :
    Cardinality({n \in DOMAIN dids : Base(n) = b})
      + Cardinality({t \in Threads : Renaming(t, b)}) <= 1

(* The metadata of a DID is the one the last Ok set_metadata (or the       *)
(* create) gave it: no later write of another operation undoes it.         *)
MetadataIsLastSet ==
  \A n \in DOMAIN dids : dids[n].metadata = lastMeta[Base(n)]

=============================================================================
