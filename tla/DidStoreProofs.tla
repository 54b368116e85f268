--------------------------- MODULE DidStoreProofs ---------------------------
(***************************************************************************)
(* Proofs about DidStore for every set of threads, verkeys, methods and    *)
(* metadata and every MaxOps and MaxFaults: the store keeps its types, and *)
(* every DID record's verkey, and next verkey when set, has its key in the *)
(* wallet (KeysBacked), and no created DID is ever held under two names   *)
(* (CreatedDidNeverDuplicated), whatever the interleaving and whichever  *)
(* store calls fail.                                                       *)
(*                                                                         *)
(* KeysBacked alone is not inductive: create_store writes a record whose   *)
(* verkey is the seed create_key inserted one store call earlier, and      *)
(* start_store and apply_store write the record get_record read, so the    *)
(* invariant must also speak of the threads between those calls.  Keys are *)
(* never removed, which is what makes a key inserted or read earlier still *)
(* present when the record is written.                                     *)
(***************************************************************************)
EXTENDS DidStore, FiniteSetTheorems, TLAPS

(* The program counters at which the operation holds the record it read.  *)
HoldsRead == {"start_key", "start_store", "apply_store", "meta_store",
              "qualify_remove", "qualify_store"}

(* The program counters at which the operation has a seed to insert or    *)
(* has inserted it.                                                       *)
HasSeed == {"create_key", "create_check", "create_store", "start_read",
            "start_key", "start_store"}

(* The program counters at which the operation names an existing DID.     *)
HasDid == {"start_read", "start_key", "start_store", "apply_read",
           "apply_store", "meta_read", "meta_store", "qualify_read",
           "qualify_remove", "qualify_store"}

(* A record whose keys are in the wallet.                                  *)
Backed(r) == r.verkey \in keys /\ (r.next # None => r.next \in keys)

(* The inductive invariant.                                                *)
IInv ==
  /\ TypeOK
  /\ KeysBacked
  /\ \A t \in Threads : pc[t] \in HasSeed => arg[t].seed # None
  /\ \A t \in Threads : pc[t] \in HasDid => arg[t].did \in Names
  /\ \A t \in Threads :
       pc[t] \in {"create_check", "create_store", "start_store"} => arg[t].seed \in keys
  /\ \A t \in Threads : pc[t] \in HoldsRead => read[t] \in Records /\ Backed(read[t])
  /\ \A t \in Threads : pc[t] = "apply_store" => read[t].next # None

LEMMA InitIInv == Init => IInv
BY DidStoreAssumption DEF Init, IInv, TypeOK, KeysBacked, HoldsRead, HasSeed, HasDid, Args, Names

LEMMA NextIInv == IInv /\ [Next]_vars => IInv'
<1>. SUFFICES ASSUME IInv, [Next]_vars PROVE IInv'
  OBVIOUS
<1>1. ASSUME NEW t \in Threads, Call(t) PROVE IInv'
  <2>1. PICK a \in Args, l \in {"create_key", "start_read", "apply_read", "meta_read",
                              "qualify_read"} :
           /\ arg' = [arg EXCEPT ![t] = a] /\ pc' = [pc EXCEPT ![t] = l]
           /\ l \in HasSeed => a.seed # None
           /\ l \in HasDid => a.did \in Names
    BY <1>1, DidStoreAssumption DEF Call, Args, Names, HasSeed, HasDid, Goto
  <2>2. UNCHANGED <<dids, keys, read, faults, ghost>> /\ ops' = ops + 1 /\ ops < MaxOps
    BY <1>1 DEF Call, store
  <2>. QED BY <1>1, <2>1, <2>2, DidStoreAssumption DEF IInv, TypeOK, KeysBacked, HoldsRead, HasSeed, HasDid, Backed, Return, Goto, store, ghost
<1>2. ASSUME NEW t \in Threads, Fault(t) PROVE IInv'
  BY <1>2, DidStoreAssumption DEF Fault, IInv, TypeOK, KeysBacked, HoldsRead, HasSeed, HasDid, Backed, Return, Goto, store, ghost
<1>3. ASSUME NEW t \in Threads, create_key(t) PROVE IInv'
  BY <1>3, DidStoreAssumption DEF create_key, SeedAccepted, Args, IInv, TypeOK, KeysBacked, HoldsRead, HasSeed, HasDid, Backed, Return, Goto, store, ghost
<1>4. ASSUME NEW t \in Threads, create_check(t) PROVE IInv'
  BY <1>4, DidStoreAssumption DEF create_check, IInv, TypeOK, KeysBacked, HoldsRead, HasSeed, HasDid, Backed, Return, Goto, store, ghost
<1>5. ASSUME NEW t \in Threads, create_store(t) PROVE IInv'
  BY <1>5, DidStoreAssumption DEF create_store, Put, Records, Names, Args, IInv, TypeOK, KeysBacked, HoldsRead, HasSeed, HasDid, Backed, Return, Goto, store, ghost
<1>6. ASSUME NEW t \in Threads, get_record(t) PROVE IInv'
  BY <1>6, DidStoreAssumption DEF get_record, IInv, TypeOK, KeysBacked, HoldsRead, HasSeed, HasDid, Backed, Return, Goto, store, ghost
<1>7. ASSUME NEW t \in Threads, start_key(t) PROVE IInv'
  <2>. DEFINE s == arg[t].seed
  <2>1. CASE ~SeedAccepted(s) \/ s \in keys
    BY <1>7, <2>1 DEF start_key, IInv, TypeOK, KeysBacked, HoldsRead, HasSeed, HasDid, Backed, Return, Goto, store, ghost
  <2>2. CASE SeedAccepted(s) /\ s \notin keys
    <3>1. s \in Verkeys
      BY <1>7, <2>2, DidStoreAssumption DEF start_key, SeedAccepted, Args, IInv, TypeOK, HasSeed
    <3>2. keys' = keys \cup {s} /\ pc' = [pc EXCEPT ![t] = "start_store"]
          /\ UNCHANGED <<dids, arg, read, ops, faults, ghost>>
      BY <1>7, <2>2 DEF start_key, Goto
    <3>3. pc[t] = "start_key" /\ IInv
      BY <1>7 DEF start_key
    <3>4. TypeOK' /\ KeysBacked'
      BY <3>1, <3>2, <3>3 DEF IInv, TypeOK, KeysBacked, ghost
    <3>5. (\A u \in Threads : pc[u] \in HoldsRead => read[u] \in Records /\ Backed(read[u]))'
      BY <3>2, <3>3 DEF IInv, TypeOK, HoldsRead, Backed
    <3>. QED BY <3>2, <3>3, <3>4, <3>5 DEF IInv, TypeOK, HasSeed, HasDid
  <2>. QED BY <2>1, <2>2
<1>8. ASSUME NEW t \in Threads, start_store(t) PROVE IInv'
  BY <1>8, DidStoreAssumption DEF start_store, Replace, Put, Records, Base, IInv, TypeOK, KeysBacked, HoldsRead, HasSeed, HasDid, Backed, Return, Goto, store, ghost
<1>9. ASSUME NEW t \in Threads, apply_store(t) PROVE IInv'
  <2>. DEFINE r == [read[t] EXCEPT !.verkey = read[t].next, !.next = None]
              n == arg[t].did
  <2>1. r \in Records /\ r.verkey \in keys /\ r.next = None
    <3>1. /\ read[t] \in Records /\ read[t].next \in keys /\ keys \subseteq Verkeys
      BY <1>9 DEF apply_store, IInv, TypeOK, HoldsRead, Backed
    <3>. QED BY <3>1 DEF Records
  <2>2. CASE n \notin DOMAIN dids
    BY <1>9, <2>2 DEF apply_store, Replace, IInv, TypeOK, KeysBacked, HoldsRead, HasSeed, HasDid, Backed, Return, Goto, store, ghost
  <2>3. CASE n \in DOMAIN dids
    <3>1. dids' = Put(n, r) /\ keys' = keys
      BY <1>9, <2>3 DEF apply_store, Replace
    <3>2. Base(n) \in Verkeys
      BY <1>9, <2>3 DEF apply_store, IInv, TypeOK, Names, Base
    <3>. QED
      BY <1>9, <2>1, <2>3, <3>1, <3>2, DidStoreAssumption
      DEF apply_store, Replace, Put, IInv, TypeOK, KeysBacked, HoldsRead, HasSeed, HasDid, Backed, Return, Goto, store, ghost
  <2>. QED BY <2>2, <2>3
<1>10. ASSUME NEW t \in Threads, meta_store(t) PROVE IInv'
  <2>. DEFINE r == [read[t] EXCEPT !.metadata = arg[t].metadata]
              n == arg[t].did
  <2>1. r \in Records /\ Backed(r)
    <3>1. read[t] \in Records /\ Backed(read[t]) /\ arg[t].metadata \in Metas \cup {None}
      BY <1>10 DEF meta_store, IInv, TypeOK, HoldsRead, Args
    <3>. QED BY <3>1 DEF Records, Backed
  <2>2. CASE n \notin DOMAIN dids
    BY <1>10, <2>2 DEF meta_store, Replace, IInv, TypeOK, KeysBacked, HoldsRead, HasSeed, HasDid, Backed, Return, Goto, store, ghost
  <2>3. CASE n \in DOMAIN dids
    <3>1. dids' = Put(n, r) /\ keys' = keys
      BY <1>10, <2>3 DEF meta_store, Replace
    <3>2. Base(n) \in Verkeys /\ arg[t].metadata \in Metas \cup {None}
      BY <1>10, <2>3 DEF meta_store, IInv, TypeOK, Names, Base, Args
    <3>. QED
      BY <1>10, <2>1, <2>3, <3>1, <3>2, DidStoreAssumption
      DEF meta_store, Replace, Put, IInv, TypeOK, KeysBacked, HoldsRead, HasSeed, HasDid, Backed, Return, Goto, store, ghost
  <2>. QED BY <2>2, <2>3
<1>11. ASSUME NEW t \in Threads, qualify_remove(t) PROVE IInv'
  BY <1>11, DidStoreAssumption DEF qualify_remove, Drop, IInv, TypeOK, KeysBacked, HoldsRead, HasSeed, HasDid, Backed, Return, Goto, store, ghost
<1>12. ASSUME NEW t \in Threads, qualify_store(t) PROVE IInv'
  BY <1>12, DidStoreAssumption DEF qualify_store, Put, Qualified, Base, Names, Args, IInv, TypeOK, KeysBacked, HoldsRead, HasSeed, HasDid, Backed, Return, Goto, store, ghost
<1>13. CASE UNCHANGED vars
  BY <1>13 DEF vars, IInv, TypeOK, KeysBacked, HoldsRead, HasSeed, HasDid, Backed, Return, Goto, store, ghost
<1>. QED BY <1>1, <1>2, <1>3, <1>4, <1>5, <1>6, <1>7, <1>8, <1>9, <1>10, <1>11,
            <1>12, <1>13 DEF Next

(* Thread t is in Did::create between the insert of its key and the store *)
(* of its record.                                                          *)
Creating(t) == pc[t] \in {"create_check", "create_store"}

(* The invariant behind CreatedDidNeverDuplicated.  The base of a DID is   *)
(* the verkey it was created with, and its key is never removed; so a     *)
(* create whose insert_key succeeded holds a base that no DID, no renaming *)
(* qualify and no other create holds, and a qualify between its remove and *)
(* its store holds a base that no DID in the wallet has.                   *)
Uniq ==
  /\ \A n \in DOMAIN dids : Base(n) \in keys
  /\ \A t \in Threads : pc[t] = "qualify_store" => Base(arg[t].did) \in keys
  /\ \A n1, n2 \in DOMAIN dids : Base(n1) = Base(n2) => n1 = n2
  /\ \A t \in Threads, n \in DOMAIN dids :
       pc[t] = "qualify_store" => Base(n) # Base(arg[t].did)
  /\ \A t, u \in Threads :
       t # u /\ pc[t] = "qualify_store" /\ pc[u] = "qualify_store"
         => Base(arg[t].did) # Base(arg[u].did)
  /\ \A t \in Threads : Creating(t) =>
       /\ \A n \in DOMAIN dids : Base(n) # arg[t].seed
       /\ \A u \in Threads : pc[u] = "qualify_store" => Base(arg[u].did) # arg[t].seed
       /\ \A u \in Threads \ {t} : Creating(u) => arg[u].seed # arg[t].seed

UInv == IInv /\ Uniq

LEMMA PutDomain == ASSUME NEW n, NEW r PROVE DOMAIN Put(n, r) = DOMAIN dids \cup {n}
BY DEF Put

LEMMA DropDomain == ASSUME NEW n PROVE DOMAIN Drop(n) = DOMAIN dids \ {n}
BY DEF Drop

(* A replace (start_store, apply_store, meta_store) keeps the names of    *)
(* the DIDs and returns; it cannot disturb Uniq.                           *)
LEMMA ReplaceUniq ==
  ASSUME IInv, Uniq, NEW t \in Threads, NEW r,
         pc[t] \in {"start_store", "apply_store", "meta_store"},
         Replace(t, r), Return(t), UNCHANGED <<keys, arg>>
  PROVE  Uniq'
<1>1. DOMAIN dids' = DOMAIN dids
  BY PutDomain DEF Replace
<1>2. pc' = [pc EXCEPT ![t] = "idle"]
  BY DEF Return
<1>. QED BY <1>1, <1>2 DEF Uniq, Creating, IInv, TypeOK, Base

LEMMA InitUniq == Init => Uniq
BY DEF Init, Uniq, Creating, Return, Goto, store, ghost

LEMMA NextUniq == IInv /\ Uniq /\ [Next]_vars => Uniq'
<1>. SUFFICES ASSUME IInv, Uniq, [Next]_vars PROVE Uniq'
  OBVIOUS
<1>1. ASSUME NEW t \in Threads, Call(t) PROVE Uniq'
  BY <1>1 DEF Call, Uniq, Creating, IInv, TypeOK, Base, Return, Goto, store, ghost
<1>2. ASSUME NEW t \in Threads, Fault(t) PROVE Uniq'
  BY <1>2 DEF Fault, Uniq, Creating, IInv, TypeOK, Base, Return, Goto, store, ghost
<1>3. ASSUME NEW t \in Threads, create_key(t) PROVE Uniq'
  BY <1>3 DEF create_key, HasSeed, Uniq, Creating, IInv, TypeOK, Base, Return, Goto, store, ghost
<1>4. ASSUME NEW t \in Threads, create_check(t) PROVE Uniq'
  BY <1>4 DEF create_check, Uniq, Creating, IInv, TypeOK, Base, Return, Goto, store, ghost
<1>5. ASSUME NEW t \in Threads, create_store(t) PROVE Uniq'
  <2>. DEFINE n == <<arg[t].method, arg[t].seed>>
  <2>1. pc[t] = "create_store" /\ pc' = [pc EXCEPT ![t] = "idle"] /\ UNCHANGED <<keys, arg>>
    BY <1>5 DEF create_store, Return
  <2>2. CASE n \in DOMAIN dids
    BY <1>5, <2>1, <2>2 DEF create_store, Uniq, Creating, IInv, TypeOK, Base
  <2>3. CASE n \notin DOMAIN dids
    <3>1. DOMAIN dids' = DOMAIN dids \cup {n}
      BY <1>5, <2>3, PutDomain DEF create_store
    <3>2. Base(n) = arg[t].seed /\ arg[t].seed \in keys
      BY <2>1 DEF Base, IInv
    <3>3. /\ \A m \in DOMAIN dids : Base(m) # arg[t].seed
          /\ \A u \in Threads : pc[u] = "qualify_store" => Base(arg[u].did) # arg[t].seed
          /\ \A u \in Threads \ {t} : Creating(u) => arg[u].seed # arg[t].seed
      BY <2>1 DEF Uniq, Creating
    <3>. QED BY <2>1, <3>1, <3>2, <3>3 DEF Uniq, Creating, IInv, TypeOK, Base
  <2>. QED BY <2>2, <2>3
<1>6. ASSUME NEW t \in Threads, get_record(t) PROVE Uniq'
  BY <1>6 DEF get_record, Uniq, Creating, IInv, TypeOK, Base, Return, Goto, store, ghost
<1>7. ASSUME NEW t \in Threads, start_key(t) PROVE Uniq'
  BY <1>7 DEF start_key, Uniq, Creating, IInv, TypeOK, Base, Return, Goto, store, ghost
<1>8. ASSUME NEW t \in Threads, start_store(t) PROVE Uniq'
  BY <1>8, ReplaceUniq DEF start_store
<1>9. ASSUME NEW t \in Threads, apply_store(t) PROVE Uniq'
  BY <1>9, ReplaceUniq DEF apply_store
<1>10. ASSUME NEW t \in Threads, meta_store(t) PROVE Uniq'
  BY <1>10, ReplaceUniq DEF meta_store
<1>11. ASSUME NEW t \in Threads, qualify_remove(t) PROVE Uniq'
  <2>. DEFINE n == arg[t].did
  <2>1. pc[t] = "qualify_remove" /\ UNCHANGED <<keys, arg>>
    BY <1>11 DEF qualify_remove
  <2>2. CASE n \notin DOMAIN dids
    <3>1. dids' = dids /\ pc' = [pc EXCEPT ![t] = "idle"]
      BY <1>11, <2>2 DEF qualify_remove, Return
    <3>. QED BY <2>1, <3>1 DEF Uniq, Creating, IInv, TypeOK, Base
  <2>3. CASE n \in DOMAIN dids
    <3>1. DOMAIN dids' = DOMAIN dids \ {n} /\ pc' = [pc EXCEPT ![t] = "qualify_store"]
      BY <1>11, <2>3, DropDomain DEF qualify_remove, Goto
    <3>2. /\ Base(n) \in keys
          /\ \A m \in DOMAIN dids \ {n} : Base(m) # Base(n)
          /\ \A u \in Threads : pc[u] = "qualify_store" => Base(arg[u].did) # Base(n)
          /\ \A u \in Threads : Creating(u) => arg[u].seed # Base(n)
      BY <2>3 DEF Uniq
    <3>. QED BY <2>1, <3>1, <3>2 DEF Uniq, Creating, IInv, TypeOK, Base
  <2>. QED BY <2>2, <2>3
<1>12. ASSUME NEW t \in Threads, qualify_store(t) PROVE Uniq'
  <2>. DEFINE q == Qualified(arg[t].did, arg[t].method)
  <2>1. pc[t] = "qualify_store" /\ pc' = [pc EXCEPT ![t] = "idle"] /\ UNCHANGED <<keys, arg>>
    BY <1>12 DEF qualify_store, Return
  <2>2. CASE q \in DOMAIN dids
    BY <1>12, <2>1, <2>2 DEF qualify_store, Uniq, Creating, IInv, TypeOK, Base
  <2>3. CASE q \notin DOMAIN dids
    <3>1. DOMAIN dids' = DOMAIN dids \cup {q}
      BY <1>12, <2>3, PutDomain DEF qualify_store
    <3>2. Base(q) = Base(arg[t].did)
      BY DEF Qualified, Base
    <3>3. /\ Base(q) \in keys
          /\ \A m \in DOMAIN dids : Base(m) # Base(q)
          /\ \A u \in Threads \ {t} : pc[u] = "qualify_store" => Base(arg[u].did) # Base(q)
          /\ \A u \in Threads : Creating(u) => arg[u].seed # Base(q)
      BY <2>1, <3>2 DEF Uniq
    <3>. QED BY <2>1, <3>1, <3>3 DEF Uniq, Creating, IInv, TypeOK, Base
  <2>. QED BY <2>2, <2>3
<1>13. CASE UNCHANGED vars
  BY <1>13 DEF vars, Uniq, Creating, IInv, TypeOK, Base, Return, Goto, store, ghost
<1>. QED BY <1>1, <1>2, <1>3, <1>4, <1>5, <1>6, <1>7, <1>8, <1>9, <1>10, <1>11,
            <1>12, <1>13 DEF Next

(* The DID store keeps its types through every interleaving of the DID    *)
(* operations of tools/did and every failed store call.                    *)
THEOREM TypeCorrect == Spec => []TypeOK
<1>1. IInv => TypeOK BY DEF IInv
<1>. QED BY InitIInv, NextIInv, <1>1, PTL DEF Spec

(* Every DID record the tools write (Did::create, replace_keys_start and   *)
(* _apply, set_metadata, qualify) names only verkeys whose keys are in the *)
(* wallet, for any number of threads and failures: the record can always  *)
(* be used to sign.                                                        *)
THEOREM KeysAlwaysBacked == Spec => []KeysBacked
<1>1. IInv => KeysBacked BY DEF IInv
<1>. QED BY InitIInv, NextIInv, <1>1, PTL DEF Spec

(* Two sets with at most one element each, one of them empty, have at     *)
(* most one element between them.                                          *)
LEMMA AtMostOne ==
  ASSUME NEW S, NEW T, \A x, y \in S : x = y, \A x, y \in T : x = y,
         S = {} \/ T = {}
  PROVE  Cardinality(S) + Cardinality(T) <= 1
<1>1. ASSUME NEW X, \A x, y \in X : x = y
      PROVE  IsFiniteSet(X) /\ Cardinality(X) \in {0, 1}
  <2>1. CASE X = {}
    BY <2>1, FS_EmptySet
  <2>2. CASE X # {}
    <3>1. PICK x \in X : TRUE
      BY <2>2
    <3>2. X = {x}
      BY <1>1, <3>1
    <3>. QED BY <3>2, FS_Singleton
  <2>. QED BY <2>1, <2>2
<1>2. Cardinality(S) \in {0, 1} /\ Cardinality(T) \in {0, 1}
  BY <1>1
<1>3. Cardinality(S) = 0 \/ Cardinality(T) = 0
  BY FS_EmptySet
<1>. QED BY <1>2, <1>3

(* Did::create checks for an existing DID only under the unqualified name *)
(* and qualify moves a DID in two store calls, yet no DID that create      *)
(* returned is ever in the wallet under two names, for any number of       *)
(* threads and failed store calls: insert_key refuses the key of a DID     *)
(* that exists, and that key is never removed.                             *)
THEOREM NeverDuplicated == Spec => []CreatedDidNeverDuplicated
<1>1. Init => UInv
  BY InitIInv, InitUniq DEF UInv
<1>2. UInv /\ [Next]_vars => UInv'
  BY NextIInv, NextUniq DEF UInv
<1>3. UInv => CreatedDidNeverDuplicated
  <2>. SUFFICES ASSUME UInv, NEW b \in created
                PROVE  Cardinality({n \in DOMAIN dids : Base(n) = b})
                         + Cardinality({t \in Threads : Renaming(t, b)}) <= 1
    BY DEF CreatedDidNeverDuplicated
  <2>1. \A x, y \in {n \in DOMAIN dids : Base(n) = b} : x = y
    BY DEF UInv, Uniq
  <2>2. \A x, y \in {t \in Threads : Renaming(t, b)} : x = y
    BY DEF UInv, Uniq, Renaming
  <2>3. {n \in DOMAIN dids : Base(n) = b} = {} \/ {t \in Threads : Renaming(t, b)} = {}
    BY DEF UInv, Uniq, Renaming
  <2>. QED BY <2>1, <2>2, <2>3, AtMostOne
<1>. QED BY <1>1, <1>2, <1>3, PTL DEF Spec
=============================================================================
