----------------------------- MODULE MerkleAudit -----------------------------
(***************************************************************************)
(* The audit-path check of a GET_TXN reply: _verify_merkle_tree and        *)
(* _calculate_turns of libindy_vdr/src/state_proof/mod.rs, with the fold   *)
(* of MerkleTree::check_inclusion_proof.                                   *)
(*                                                                         *)
(* The ledger whose root the validators signed (txn_root_hash) has n       *)
(* transactions; the transaction with seq_no i is the leaf value i.  The   *)
(* client asked for seq_no seq (the "data" of its request); the replying   *)
(* node supplies the leaf value val, ledgerSize len and the audit path, none*)
(* of which the multi-signature covers.  A hash is modelled by the term it *)
(* hashes: LeafHash(x) for sha256(0x00 || x) and NodeHash(l, r) for        *)
(* sha256(0x01 || l || r), so that two hashes are equal only if their      *)
(* inputs are (collision resistance).  The node picks the path's entries   *)
(* among the hashes it could know: those of the subtrees of the ledger, of *)
(* a leaf outside it, and a string that is no base58.                      *)
(*                                                                         *)
(*   pc = "start"   _verify_merkle_tree was called                         *)
(*   pc = "turns"   the while loop of _calculate_turns                     *)
(*   pc = "check"   turns are computed and reversed; the path is checked   *)
(*   pc = "done"    _verify_merkle_tree returned result                    *)
(***************************************************************************)
EXTENDS Naturals, Sequences, SequencesExt

CONSTANTS
  MaxLen,       \* the largest ledger: n \in 1..MaxLen
  LedgerSizes,  \* the ledgerSize values a reply may carry
  SeqNos,       \* the seq_no values a request may carry
  U64,          \* 2^64, the modulus of u64 arithmetic (a smaller stand-in
                \* for TLC: only its being above every length matters)
  MaxTurns,     \* the most iterations of the loop of _calculate_turns
  None,         \* no value in the reply
  Undecodable   \* an audit-path entry that base58 does not decode

ASSUME MerkleAssumption ==
  /\ MaxLen \in Nat \ {0}
  /\ LedgerSizes \subseteq Nat /\ SeqNos \subseteq Nat
  /\ U64 \in Nat /\ U64 > MaxLen + 1
  /\ MaxTurns \in Nat
  /\ None \notin Nat

VARIABLES
  n,       \* the size of the ledger behind the signed root
  len,     \* the ledgerSize of the reply
  seq,     \* the seq_no of the request
  val,     \* the leaf value of the reply, None if absent
  idx,     \* idx of _calculate_turns
  length,  \* length of _calculate_turns
  turns,   \* result of _calculate_turns: TRUE is "sibling on the right"
  pc,
  result,  \* what _verify_merkle_tree returns
  honest   \* the path checked was the RFC 6962 audit path of seq in n

vars == <<n, len, seq, val, idx, length, turns, pc, result, honest>>

LeafHash(x) == <<0, x>>
NodeHash(l, r) == <<1, l, r>>

Pow2s == {2^e : e \in 0..(MaxLen + 1)}

(* u64::next_power_of_two: the least power of two >= x; 1 for x = 0.      *)
NextPowerOfTwo(x) == CHOOSE p \in Pow2s : p >= x /\ (p = 1 \/ p \div 2 < x)

(* One step of the fold of check_inclusion_proof: the sibling hash goes to *)
(* the right when the turn is TRUE.                                        *)
FoldStep(acc, step) ==
  IF step[2] THEN NodeHash(acc, step[1]) ELSE NodeHash(step[1], acc)

(* MerkleTree::check_inclusion_proof(root, leaf, path) computes this and   *)
(* compares it with the root.                                              *)
InclusionRoot(leaf, path, ts) == FoldLeft(FoldStep, LeafHash(leaf), Zip(path, ts))

-----------------------------------------------------------------------------
(* The reference: the RFC 6962 tree hash of the leaves lo+1 .. lo+sz, and  *)
(* the audit path of leaf index m in it, from the leaf up.                 *)
Split(sz) == CHOOSE p \in Pow2s : p < sz /\ sz <= 2 * p

MTH[lo \in 0..MaxLen, sz \in 1..MaxLen] ==
  IF sz = 1 THEN LeafHash(lo + 1)
  ELSE NodeHash(MTH[lo, Split(sz)], MTH[lo + Split(sz), sz - Split(sz)])

AuditPath[m \in 0..MaxLen, lo \in 0..MaxLen, sz \in 1..MaxLen] ==
  IF sz = 1 THEN <<>>
  ELSE IF m < Split(sz)
       THEN Append(AuditPath[m, lo, Split(sz)],
                   MTH[lo + Split(sz), sz - Split(sz)])
       ELSE Append(AuditPath[m - Split(sz), lo + Split(sz), sz - Split(sz)],
                   MTH[lo, Split(sz)])

Root == MTH[0, n]

(* The hashes a node can put into an audit path.                           *)
Candidates ==
  {MTH[r[1], r[2]] : r \in {r \in (0..(n - 1)) \X (1..n) : r[1] + r[2] <= n}}
    \cup {LeafHash(0), Undecodable}

(* Paths of the length the turns ask for, and one entry short.             *)
Paths ==
  UNION {[1..j -> Candidates] : j \in {Len(turns), Len(turns) - 1} \cap Nat}

-----------------------------------------------------------------------------
Init ==
  /\ n \in 1..MaxLen
  /\ len \in LedgerSizes
  /\ seq \in SeqNos
  /\ val \in (0..MaxLen) \cup {None}
  /\ idx = 0 /\ length = 0 /\ turns = <<>>
  /\ pc = "start"
  /\ result = FALSE /\ honest = FALSE

(* A variant of Start that computes seq_no - 1 without u64 wrapping.      *)
StartSigned ==
  /\ pc = "start"
  /\ \/ /\ val = None
        /\ pc' = "done"
        /\ UNCHANGED <<idx, length>>
     \/ /\ val # None
        /\ idx' = seq - 1
        /\ length' = len
        /\ pc' = "turns"
  /\ UNCHANGED <<n, len, seq, val, turns, result, honest>>

(* _verify_merkle_tree up to the call of _calculate_turns(length,          *)
(* seq_no - 1): no value is an early false; seq_no - 1 wraps for 0.        *)
Start ==
  /\ pc = "start"
  /\ \/ /\ val = None
        /\ pc' = "done"
        /\ UNCHANGED <<idx, length>>
     \/ /\ val # None
        /\ idx' = (seq - 1) % U64
        /\ length' = len
        /\ pc' = "turns"
  /\ UNCHANGED <<n, len, seq, val, turns, result, honest>>

(* Variants of the loop body: the split point not halved, and the left    *)
(* subtree taken one index too far.                                        *)
TurnStepNoHalf ==
  /\ pc = "turns"
  /\ length # 1
  /\ Len(turns) < MaxTurns
  /\ LET middle == NextPowerOfTwo(length)
         right  == idx < middle
     IN  /\ turns' = Append(turns, right)
         /\ idx' = IF right THEN idx ELSE idx - middle
         /\ length' = IF right THEN middle ELSE length - middle
  /\ UNCHANGED <<n, len, seq, val, pc, result, honest>>

TurnStepLessEq ==
  /\ pc = "turns"
  /\ length # 1
  /\ Len(turns) < MaxTurns
  /\ LET middle == NextPowerOfTwo(length) \div 2
         right  == idx <= middle
     IN  /\ turns' = Append(turns, right)
         /\ idx' = IF right THEN idx ELSE idx - middle
         /\ length' = IF right THEN middle ELSE length - middle
  /\ UNCHANGED <<n, len, seq, val, pc, result, honest>>

(* One iteration of the while loop of _calculate_turns.                    *)
TurnStep ==
  /\ pc = "turns"
  /\ length # 1
  /\ Len(turns) < MaxTurns
  /\ LET middle == NextPowerOfTwo(length) \div 2
         right  == idx < middle
     IN  /\ turns' = Append(turns, right)
         /\ idx' = IF right THEN idx ELSE idx - middle
         /\ length' = IF right THEN middle ELSE length - middle
  /\ UNCHANGED <<n, len, seq, val, pc, result, honest>>

(* A variant that forgets result.reverse().                                *)
TurnsDoneUnreversed ==
  /\ pc = "turns"
  /\ length = 1
  /\ pc' = "check"
  /\ UNCHANGED <<n, len, seq, val, idx, length, turns, result, honest>>

(* The loop ends: result.reverse().                                        *)
TurnsDone ==
  /\ pc = "turns"
  /\ length = 1
  /\ turns' = Reverse(turns)
  /\ pc' = "check"
  /\ UNCHANGED <<n, len, seq, val, idx, length, result, honest>>

(* A variant that takes any Ok of check_inclusion_proof for a match.      *)
CheckPathAnyOk ==
  /\ pc = "check"
  /\ \E path \in Paths :
       /\ result' = /\ Len(path) = Len(turns)
                    /\ \A i \in 1..Len(path) : path[i] # Undecodable
       /\ honest' = (seq \in 1..n /\ path = AuditPath[seq - 1, 0, n])
  /\ pc' = "done"
  /\ UNCHANGED <<n, len, seq, val, idx, length, turns>>

(* The rest of _verify_merkle_tree: the count of hashes must equal the     *)
(* count of turns, each hash must decode, and the fold must give the root. *)
CheckPath ==
  /\ pc = "check"
  /\ \E path \in Paths :
       /\ result' = /\ Len(path) = Len(turns)
                    /\ \A i \in 1..Len(path) : path[i] # Undecodable
                    /\ InclusionRoot(val, path, turns) = Root
       /\ honest' = (seq \in 1..n /\ path = AuditPath[seq - 1, 0, n])
  /\ pc' = "done"
  /\ UNCHANGED <<n, len, seq, val, idx, length, turns>>

Next == Start \/ TurnStep \/ TurnsDone \/ CheckPath

(* _verify_merkle_tree is a plain function call: each step is taken as     *)
(* soon as it is enabled.                                                  *)
Spec == Init /\ [][Next]_vars /\ WF_vars(Next)

-----------------------------------------------------------------------------
TypeOK ==
  /\ n \in 1..MaxLen
  /\ len \in LedgerSizes /\ seq \in SeqNos
  /\ val \in (0..MaxLen) \cup {None}
  /\ idx \in 0..(U64 - 1) /\ length \in Nat
  /\ turns \in Seq(BOOLEAN) /\ Len(turns) <= MaxTurns
  /\ pc \in {"start", "turns", "check", "done"}
  /\ result \in BOOLEAN /\ honest \in BOOLEAN

(* Completeness: the RFC 6962 audit path of a transaction, with the true   *)
(* ledgerSize, is accepted by _verify_merkle_tree; the turns computed by   *)
(* _calculate_turns place every sibling on the side the tree has it.       *)
HonestProofVerifies ==
  (pc = "done" /\ honest /\ len = n /\ val = seq) => result

(* Whatever path and ledgerSize a node sends, an accepted leaf value is a  *)
(* transaction of the signed ledger: the fold starts from a leaf hash and  *)
(* only node hashes reach the root.                                        *)
VerifiedLeafInLedger == result => val \in 1..n

(* With the true ledgerSize and a seq_no inside the ledger, an accepted    *)
(* value is the transaction at that seq_no: the turn bits fix a single     *)
(* leaf position.                                                          *)
VerifiedPositionWhenSizeTrue ==
  (result /\ len = n /\ seq \in 1..n) => val = seq

(* The loop of _calculate_turns ends for every ledgerSize other than 0.    *)
TurnsTerminate == (len # 0) => <>(pc = "done")

(* Spec section 4.5: an audit proof is for a leaf at seq_no in 1..length,  *)
(* so with the true ledgerSize an accepted value is the transaction at     *)
(* seq_no.  _verify_merkle_tree never compares seq_no with the length.     *)
PositionSoundForTrueSize == (result /\ len = n) => (seq \in 1..n /\ val = seq)

(* Spec section 8: tampering with ledgerSize yields Invalid, so an         *)
(* accepted value is the transaction at seq_no even when the node chose   *)
(* ledgerSize.  ledgerSize is not covered by the multi-signature.          *)
PositionSoundInRange ==
  (result /\ seq \in 1..n /\ seq \in 1..len) => val = seq

(* _calculate_turns returns for every ledgerSize a reply may carry.        *)
TurnsTerminateAlways == <>(pc = "done")
=============================================================================
