----------------------------- MODULE RangeProof -----------------------------
(***************************************************************************)
(* _verify_proof_range of libindy_vdr/src/state_proof/mod.rs, the          *)
(* NumericalSuffixAscendingNoGaps check of a ParsedSP: the entries of the  *)
(* trie under a prefix are parsed by their numeric suffix, sorted, cut on  *)
(* the left at `from` and on the right at `next` by binary search, and the *)
(* slice must equal the key-value list the reply claims.                   *)
(*                                                                         *)
(* A key is represented by its suffix after the prefix, a sequence of      *)
(* characters, so that str::parse::<u64> is modelled by what it does: an   *)
(* optional leading '+' and at least one decimal digit.  The trie content  *)
(* under the prefix is the function trie from suffixes to values; the     *)
(* order in which get_all_values yields it (trie order, fixed by the trie  *)
(* code outside this tree) is left open, and so is the index              *)
(* slice::binary_search_by_key returns among several equal keys, which its *)
(* documentation leaves unspecified.                                       *)
(***************************************************************************)
EXTENDS Naturals, Sequences, SequencesExt

CONSTANTS
  KeyStrs,   \* suffixes of the keys the trie may hold under the prefix
  Vals,      \* the values stored under those keys
  Bounds,    \* the u64 values `from` and `next` may take
  MaxKvs,    \* the longest kvs list a reply carries
  None       \* the absent value of an Option

ASSUME RangeAssumption ==
  /\ Bounds \subseteq Nat
  /\ MaxKvs \in Nat
  /\ None \notin Bounds

Digits == <<"0", "1", "2", "3", "4", "5", "6", "7", "8", "9">>

DigitVal(c) == CHOOSE d \in 0..9 : Digits[d + 1] = c

(* The digits of the suffix once u64::from_str has taken off a '+'.        *)
Unsigned(s) == IF s # <<>> /\ Head(s) = "+" THEN Tail(s) ELSE s

(* key.replacen(prefix, "", 1).parse::<u64>() is Ok.                       *)
ParsesU64(s) ==
  /\ Unsigned(s) # <<>>
  /\ \A i \in 1..Len(Unsigned(s)) : Unsigned(s)[i] \in ToSet(Digits)

(* The number it returns.                                                  *)
SuffixNo(s) ==
  LET d == Unsigned(s)
      v[i \in 0..Len(d)] == IF i = 0 THEN 0 ELSE 10 * v[i - 1] + DigitVal(d[i])
  IN  v[Len(d)]

Tries == UNION { [S -> Vals] : S \in SUBSET KeyStrs }

KvsLists ==
  UNION { SetToSeqs(P) : P \in { P \in SUBSET (KeyStrs \X Vals) :
                                   Cardinality(P) <= MaxKvs } }

VARIABLES
  trie,      \* the entries under the prefix that the signed root commits to
  walk_ok,   \* the proof nodes hold the root and every node below the prefix
  from,      \* NumericalSuffixAscendingNoGapsData::from
  next,      \* NumericalSuffixAscendingNoGapsData::next
  kvs,       \* the key-value list of the reply
  pc,
  result     \* the bool _verify_proof_range returns

vars == <<trie, walk_ok, from, next, kvs, pc, result>>

(* vals_for_sort after sort_by_key: the keys in an order of ascending      *)
(* suffix (a stable sort of an order left open).                           *)
SortedBySuffix(S) ==
  { s \in SetToSeqs(S) : IsSorted(s, LAMBDA a, b : SuffixNo(a) <= SuffixNo(b)) }

(* binary_search_by_key(&x, ..) on s: Ok(idx) for an idx holding x, any of *)
(* them; Err(idx) with the insertion point when none does (0-based).      *)
Hits(s, x) == { i \in 0..(Len(s) - 1) : SuffixNo(s[i + 1]) = x }

InsertionPoint(s, x) == Len(SelectSeq(s, LAMBDA k : SuffixNo(k) < x))

(* A variant that drops the key found at `from` as well.                   *)
FromCutsPastHit(s) ==
  IF from = None THEN {s}
  ELSE { SubSeq(s, i + 2, Len(s)) :
           i \in IF Hits(s, from) # {} THEN Hits(s, from)
                 ELSE {InsertionPoint(s, from)} }

(* vals_with_from: Ok(idx) | Err(idx) => vals_for_sort[idx..].             *)
FromCuts(s) ==
  IF from = None THEN {s}
  ELSE { SubSeq(s, i + 1, Len(s)) :
           i \in IF Hits(s, from) # {} THEN Hits(s, from)
                 ELSE {InsertionPoint(s, from)} }

(* A variant that takes the whole list when `next` is not found.           *)
NextCutsErrWhole(w) ==
  IF next = None \/ Hits(w, next) = {} THEN {w}
  ELSE { SubSeq(w, 1, i) : i \in Hits(w, next) }

(* vals_slice: Ok(idx) => &vals_with_from[..idx]; Err(_) returns false,    *)
(* here the empty set of slices.                                           *)
NextCuts(w) ==
  IF next = None THEN {w}
  ELSE { SubSeq(w, 1, i) : i \in Hits(w, next) }

(* vals_prepared: the (key, value) pairs of a slice.                       *)
Entries(v) == [i \in DOMAIN v |-> <<v[i], trie[v[i]]>>]

Init ==
  /\ trie \in Tries
  /\ walk_ok \in BOOLEAN
  /\ from \in Bounds \cup {None}
  /\ next \in Bounds \cup {None}
  /\ kvs \in KvsLists
  /\ pc = "start"
  /\ result = None

(* A variant whose early returns give no verdict.                          *)
verify_proof_range_no_return ==
  /\ pc = "start"
  /\ pc' = "done"
  /\ \/ /\ ~walk_ok \/ \E k \in DOMAIN trie : ~ParsesU64(k)
        /\ UNCHANGED result
     \/ /\ walk_ok
        /\ \A k \in DOMAIN trie : ParsesU64(k)
        /\ \E s \in SortedBySuffix(DOMAIN trie) :
             \E w \in FromCuts(s) :
               IF NextCuts(w) = {} THEN result' = FALSE
               ELSE \E v \in NextCuts(w) : result' = (Entries(v) = kvs)
  /\ UNCHANGED <<trie, walk_ok, from, next, kvs>>

(* The whole of _verify_proof_range.  The first disjunct is its early      *)
(* returns before the sort: the root is not among the nodes, or            *)
(* get_all_values fails, or a suffix does not parse.                       *)
verify_proof_range ==
  /\ pc = "start"
  /\ pc' = "done"
  /\ \/ /\ ~walk_ok \/ \E k \in DOMAIN trie : ~ParsesU64(k)
        /\ result' = FALSE
     \/ /\ walk_ok
        /\ \A k \in DOMAIN trie : ParsesU64(k)
        /\ \E s \in SortedBySuffix(DOMAIN trie) :
             \E w \in FromCuts(s) :
               IF NextCuts(w) = {} THEN result' = FALSE
               ELSE \E v \in NextCuts(w) : result' = (Entries(v) = kvs)
  /\ UNCHANGED <<trie, walk_ok, from, next, kvs>>

Next == verify_proof_range

Spec == Init /\ [][Next]_vars

-----------------------------------------------------------------------------
(* The entries of the trie whose suffix lies in [from, next).              *)
InRange(k) ==
  /\ from # None => from <= SuffixNo(k)
  /\ next # None => SuffixNo(k) < next

RangeEntries == { <<k, trie[k]>> : k \in { k \in DOMAIN trie : InRange(k) } }

(* `next` is a suffix of the trie at or past `from`.                       *)
NextPresent ==
  next # None =>
    /\ from # None => from <= next
    /\ \E k \in DOMAIN trie : SuffixNo(k) = next

AllParse == \A k \in DOMAIN trie : ParsesU64(k)

TypeOK ==
  /\ trie \in Tries
  /\ walk_ok \in BOOLEAN
  /\ from \in Bounds \cup {None} /\ next \in Bounds \cup {None}
  /\ kvs \in KvsLists
  /\ pc \in {"start", "done"}
  /\ result \in BOOLEAN \cup {None}
  /\ (result = None) = (pc = "start")

(* Range completeness as the spec states it: a list accepted by            *)
(* _verify_proof_range holds every trie entry with suffix in [from, next)  *)
(* and nothing else, once each and in ascending order of suffix, and       *)
(* `next`, when given, is a suffix present in the trie and not below       *)
(* `from`.                                                                 *)
RangeExact ==
  result = TRUE =>
    /\ ToSet(kvs) = RangeEntries
    /\ IsSorted(kvs, LAMBDA a, b : SuffixNo(a[1]) < SuffixNo(b[1]))
    /\ NextPresent

(* A reply that lists exactly that range in ascending order, over a proof  *)
(* that reaches the whole subtree of well-formed keys, is accepted.        *)
HonestRangeVerifies ==
  (/\ pc = "done" /\ walk_ok /\ AllParse /\ NextPresent
   /\ ToSet(kvs) = RangeEntries
   /\ IsSorted(kvs, LAMBDA a, b : SuffixNo(a[1]) < SuffixNo(b[1])))
  => result = TRUE
=============================================================================
