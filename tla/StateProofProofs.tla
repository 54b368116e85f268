-------------------------- MODULE StateProofProofs --------------------------
(***************************************************************************)
(* Proofs about the step-by-step model of check_state_proof and            *)
(* verify_parsed_sp (module StateProof), for every value of the constants. *)
(*                                                                         *)
(* The invariant AssertsOnlyFromConsistentProofs talks about the finished  *)
(* call only; it is not inductive.  The strengthening IInv says what the   *)
(* loop of verify_parsed_sp has established while it runs: the items      *)
(* 1 .. k-1 passed their checks and carry the kept multi_sig, which is     *)
(* None exactly before the first item.                                     *)
(***************************************************************************)
EXTENDS StateProof, SequenceTheorems, FiniteSetTheorems, TLAPS

(* Items 1 .. kk-1 passed the loop body and carry the kept multi_sig.      *)
LoopOK(kk) ==
  \A j \in 1..(kk - 1) :
     ProofPasses(reply[j]) /\ reply[j].multi_signature = acc

IInv ==
  /\ TypeOK
  /\ pc = "parse" => k = 1 /\ acc = None /\ result = Pending
  /\ pc \in {"loop", "fresh"} =>
        /\ reply # None /\ result = Pending
        /\ k <= Len(reply) + 1
        /\ (acc = None <=> k = 1)
        /\ LoopOK(k)
  /\ pc = "fresh" => k = Len(reply) + 1 /\ acc # None
  /\ result.asserts # None =>
        /\ pc = "done" /\ reply # None
        /\ k = Len(reply) + 1 /\ Len(reply) >= 1 /\ acc # None /\ LoopOK(k)
        /\ result.asserts = acc.value

-----------------------------------------------------------------------------
(* A reply other than None is a sequence of at most MaxProofs ParsedSPs.   *)
LEMMA ReplyIsSeq ==
  ASSUME NEW r \in Replies, r # None
  PROVE  /\ r \in Seq(ParsedSPs)
         /\ Len(r) \in 0..MaxProofs
         /\ \A j \in 1..Len(r) : r[j] \in ParsedSPs
<1>1. PICK n \in 0..MaxProofs : r \in [1..n -> ParsedSPs]
  BY DEF Replies
<1>2. MaxProofs \in Nat
  BY ConstantsAssumption
<1>3. r \in Seq(ParsedSPs)
  BY <1>1, <1>2, SeqDef
<1>4. Len(r) = n
  BY <1>1, <1>2, <1>3, LenProperties
<1>. QED
  BY <1>1, <1>2, <1>3, <1>4

(* None is no multi-signature.                                             *)
LEMMA NoneNotMultiSig == None \notin MultiSigs
BY ConstantsAssumption DEF MultiSigs

(* _verify_proof_signature returns one of its four errors or Ok.           *)
LEMMA SigErrorType ==
  ASSUME NEW m
  PROVE  verify_proof_signature(m) \in SigErrors \cup {None}
BY DEF verify_proof_signature, SigErrors

-----------------------------------------------------------------------------
(* The strengthening holds when check_state_proof is called.               *)
LEMMA InitIInv == Init => IInv
<1> SUFFICES ASSUME Init PROVE IInv
  OBVIOUS
<1>1. MaxProofs \in Nat
  BY ConstantsAssumption
<1>2. TypeOK
  BY <1>1 DEF Init, TypeOK, Pending
<1>. QED
  BY <1>2 DEF Init, IInv, Pending

(* Every step of the model keeps the strengthening.                        *)
LEMMA NextIInv == IInv /\ [Next]_vars => IInv'
<1> SUFFICES ASSUME IInv, [Next]_vars PROVE IInv'
  OBVIOUS
<1>1. CASE CheckStateProof
  <2>1. pc = "parse" /\ k = 1 /\ acc = None /\ result = Pending
    BY <1>1 DEF CheckStateProof, IInv
  <2>2. UNCHANGED <<reply, k, acc, verr, fresh>>
    BY <1>1 DEF CheckStateProof
  <2>3. CASE reply = None
    <3>1. pc' = "done" /\ result' = [kind |-> "Missing", asserts |-> None]
      BY <1>1, <2>3 DEF CheckStateProof
    <3>. QED
      BY <2>1, <2>2, <3>1 DEF IInv, TypeOK, Results
  <2>4. CASE reply # None
    <3>1. pc' = "loop" /\ result' = result
      BY <1>1, <2>4 DEF CheckStateProof
    <3>2. Len(reply) \in Nat
      BY <2>4, ReplyIsSeq DEF IInv, TypeOK
    <3>3. LoopOK(k)'
      BY <2>1, <2>2 DEF LoopOK
    <3>. QED
      BY <2>1, <2>2, <2>4, <3>1, <3>2, <3>3 DEF IInv, TypeOK, Pending
  <2>. QED
    BY <2>3, <2>4
<1>2. CASE VerifyProof
  <2>1. /\ pc = "loop" /\ reply # None /\ result = Pending
        /\ k \in 1..Len(reply) /\ (acc = None <=> k = 1) /\ LoopOK(k)
    BY <1>2 DEF VerifyProof, IInv, TypeOK
  <2>2. /\ reply \in Seq(ParsedSPs) /\ Len(reply) \in 0..MaxProofs
        /\ reply[k] \in ParsedSPs /\ MaxProofs \in Nat
    BY <2>1, ReplyIsSeq, ConstantsAssumption DEF IInv, TypeOK
  <2>3. k' = k + 1 /\ reply' = reply /\ verr' = verr /\ fresh' = fresh
    BY <1>2 DEF VerifyProof
  <2>4. k' \in 1..(MaxProofs + 1) /\ reply' \in Replies /\ verr' \in SigErrors \cup {None}
        /\ fresh' \in BOOLEAN \cup {None}
    BY <2>1, <2>2, <2>3 DEF IInv, TypeOK
  <2>. DEFINE sp == reply[k]
  <2>5. CASE ~RootMatches(sp) \/ (acc # None /\ acc # sp.multi_signature)
    <3>1. pc' = "done" /\ result' = Invalid(None) /\ acc' = acc
      BY <1>2, <2>5 DEF VerifyProof, Fail
    <3>2. TypeOK'
      BY <2>4, <3>1 DEF IInv, TypeOK, Results, Invalid
    <3>. QED
      BY <3>1, <3>2 DEF IInv, Invalid
  <2>6. CASE RootMatches(sp) /\ (acc = None \/ acc = sp.multi_signature)
    <3>1. acc' = sp.multi_signature /\ acc' \in MultiSigs
      BY <1>2, <2>2, <2>6 DEF VerifyProof, ParsedSPs
    <3>2. CASE ProofPasses(sp)
      <4>1. pc' = "loop" /\ result' = result
        BY <1>2, <2>6, <3>2 DEF VerifyProof, ProofPasses
      <4>2. LoopOK(k)'
        <5>1. acc # None => acc = acc'
          BY <2>6, <3>1
        <5>2. \A j \in 1..k : ProofPasses(reply[j]) /\ reply[j].multi_signature = acc'
          BY <2>1, <2>2, <3>1, <3>2, <5>1 DEF LoopOK
        <5>. QED
          BY <2>1, <2>3, <5>2 DEF LoopOK
      <4>3. TypeOK'
        BY <2>1, <2>4, <3>1, <4>1 DEF IInv, TypeOK
      <4>. QED
        BY <2>1, <2>2, <2>3, <3>1, <4>1, <4>2, <4>3, NoneNotMultiSig DEF IInv
    <3>3. CASE ~ProofPasses(sp)
      <4>1. pc' = "done" /\ result' = Invalid(None)
        BY <1>2, <2>6, <3>3 DEF VerifyProof, ProofPasses, Fail
      <4>2. TypeOK'
        BY <2>4, <3>1, <4>1 DEF IInv, TypeOK, Results, Invalid
      <4>. QED
        BY <4>1, <4>2 DEF IInv, Invalid
    <3>. QED
      BY <3>2, <3>3
  <2>. QED
    BY <2>5, <2>6
<1>3. CASE VerifySignature
  <2>1. /\ pc = "loop" /\ reply # None /\ result = Pending
        /\ k = Len(reply) + 1 /\ (acc = None <=> k = 1) /\ LoopOK(k)
    BY <1>3 DEF VerifySignature, IInv, TypeOK
  <2>2. UNCHANGED <<reply, k, acc, fresh>>
    BY <1>3 DEF VerifySignature
  <2>3. LoopOK(k)'
    BY <2>1, <2>2 DEF LoopOK
  <2>4. CASE acc = None \/ ~parse_reply_for_proof_signature_checking(acc)
    <3>1. pc' = "done" /\ result' = Invalid(None) /\ verr' = verr
      BY <1>3, <2>4 DEF VerifySignature, Fail
    <3>2. TypeOK'
      BY <2>2, <3>1 DEF IInv, TypeOK, Results, Invalid
    <3>. QED
      BY <3>1, <3>2 DEF IInv, Invalid
  <2>5. CASE acc # None /\ parse_reply_for_proof_signature_checking(acc)
    <3>1. verr' = verify_proof_signature(acc) /\ verr' \in SigErrors \cup {None}
      BY <1>3, <2>5, SigErrorType DEF VerifySignature
    <3>2. CASE pc' = "fresh" /\ result' = result
      <4>1. TypeOK'
        BY <2>1, <2>2, <3>1, <3>2 DEF IInv, TypeOK
      <4>. QED
        BY <2>1, <2>2, <2>3, <2>5, <3>2, <4>1 DEF IInv, Pending
    <3>3. CASE pc' = "done" /\ result' = Invalid(None)
      <4>1. TypeOK'
        BY <2>2, <3>1, <3>3 DEF IInv, TypeOK, Results, Invalid
      <4>. QED
        BY <3>3, <4>1 DEF IInv, Invalid
    <3>. QED
      BY <1>3, <2>5, <3>2, <3>3 DEF VerifySignature, Fail
  <2>. QED
    BY <2>4, <2>5
<1>4. CASE CheckFreshness
  <2>1. pc = "fresh" /\ reply # None /\ k = Len(reply) + 1 /\ acc # None /\ LoopOK(k)
    BY <1>4 DEF CheckFreshness, IInv
  <2>8. Len(reply) >= 1
    <3>1. k # 1 /\ Len(reply) \in Nat
      BY <2>1, ReplyIsSeq DEF IInv, TypeOK
    <3>. QED
      BY <2>1, <3>1
  <2>2. acc \in MultiSigs
    BY <2>1 DEF IInv, TypeOK
  <2>3. UNCHANGED <<reply, k, acc, verr>> /\ pc' = "done"
    BY <1>4 DEF CheckFreshness
  <2>4. LoopOK(k)'
    BY <2>1, <2>3 DEF LoopOK
  <2>5. acc.value \in Values
    BY <2>2 DEF MultiSigs
  <2>6. /\ result' \in Results /\ result'.asserts = acc.value
        /\ fresh' \in BOOLEAN \cup {None}
    <3>1. CASE verr # None
      BY <1>4, <2>5, <3>1 DEF CheckFreshness, Results, Invalid, IInv, TypeOK
    <3>2. CASE verr = None
      <4>1. PICK t \in FreshInputs :
              /\ fresh' = check_freshness(t)
              /\ result' = [kind |-> IF fresh' THEN "Verified" ELSE "Expired",
                            asserts |-> acc.value]
        BY <1>4, <3>2 DEF CheckFreshness
      <4>2. fresh' \in BOOLEAN
        BY <4>1 DEF check_freshness
      <4>. QED
        BY <2>5, <4>1, <4>2 DEF Results
    <3>. QED
      BY <3>1, <3>2
  <2>7. TypeOK'
    BY <2>2, <2>3, <2>6 DEF IInv, TypeOK
  <2>. QED
    BY <2>1, <2>3, <2>4, <2>6, <2>7, <2>8 DEF IInv
<1>5. CASE UNCHANGED vars
  BY <1>5 DEF vars, IInv, TypeOK, LoopOK
<1>. QED
  BY <1>1, <1>2, <1>3, <1>4, <1>5 DEF Next

-----------------------------------------------------------------------------
(* Every state of check_state_proof has its variables in their types.      *)
THEOREM TypeCorrect == Spec => []TypeOK
<1>1. IInv => TypeOK
  BY DEF IInv
<1>. QED
  BY <1>1, InitIInv, NextIInv, PTL DEF Spec

(* For every pool, threshold and reply size: whenever check_state_proof    *)
(* hands out asserts, every parsed proof of the reply passed the loop of   *)
(* verify_parsed_sp and carries the first one's multi-signature, whose     *)
(* value the asserts are.                                                  *)
THEOREM ConsistentAsserts == Spec => []AssertsOnlyFromConsistentProofs
<1>1. IInv => AssertsOnlyFromConsistentProofs
  <2> SUFFICES ASSUME IInv, result.asserts # None
               PROVE  AssertsOnlyFromConsistentProofs
    BY DEF AssertsOnlyFromConsistentProofs
  <2>1. /\ reply # None /\ k = Len(reply) + 1 /\ acc # None /\ LoopOK(k)
        /\ result.asserts = acc.value
    BY DEF IInv
  <2>2. reply \in Seq(ParsedSPs) /\ Len(reply) \in 0..MaxProofs
    BY <2>1, ReplyIsSeq DEF IInv, TypeOK
  <2>3. Len(reply) >= 1
    BY DEF IInv
  <2>4. \A j \in 1..Len(reply) :
           ProofPasses(reply[j]) /\ reply[j].multi_signature = acc
    BY <2>1, <2>2 DEF LoopOK
  <2>5. reply[1].multi_signature = acc
    BY <2>3, <2>4
  <2>. QED
    BY <2>1, <2>3, <2>4, <2>5 DEF AssertsOnlyFromConsistentProofs
<1>. QED
  BY <1>1, InitIInv, NextIInv, PTL DEF Spec

-----------------------------------------------------------------------------
(* What the signature phase established: at "fresh" verify_err is the      *)
(* verdict of _verify_proof_signature on the kept multi_sig, and a         *)
(* Verified or Expired result comes from a multi_sig it accepted.          *)
SigInv ==
  /\ pc = "fresh" => verr = verify_proof_signature(acc)
  /\ Attested =>
        /\ pc = "done" /\ acc # None
        /\ verify_proof_signature(acc) = None
        /\ result.asserts = acc.value

LEMMA InitSigInv == Init => SigInv
BY DEF Init, SigInv, Attested, Pending

LEMMA NextSigInv == IInv /\ SigInv /\ [Next]_vars => SigInv'
<1> SUFFICES ASSUME IInv, SigInv, [Next]_vars PROVE SigInv'
  OBVIOUS
<1>1. CASE CheckStateProof
  <2>1. pc' \in {"done", "loop"} /\ result'.kind \in {"Missing", "Pending"}
    BY <1>1 DEF CheckStateProof, IInv, Pending
  <2>. QED
    BY <2>1 DEF SigInv, Attested
<1>2. CASE VerifyProof
  <2>1. pc' \in {"done", "loop"} /\ result'.kind \in {"Invalid", "Pending"}
    BY <1>2 DEF VerifyProof, Fail, Invalid, IInv, Pending
  <2>. QED
    BY <2>1 DEF SigInv, Attested
<1>3. CASE VerifySignature
  <2>1. acc' = acc /\ result = Pending
    BY <1>3 DEF VerifySignature, IInv
  <2>2. \/ pc' = "fresh" /\ verr' = verify_proof_signature(acc) /\ result' = result
        \/ pc' = "done" /\ result' = Invalid(None)
    BY <1>3 DEF VerifySignature, Fail
  <2>. QED
    BY <2>1, <2>2 DEF SigInv, Attested, Pending, Invalid
<1>4. CASE CheckFreshness
  <2>1. pc = "fresh" /\ acc # None /\ verr = verify_proof_signature(acc)
    BY <1>4 DEF CheckFreshness, IInv, SigInv
  <2>2. UNCHANGED <<acc, verr>> /\ pc' = "done"
    BY <1>4 DEF CheckFreshness
  <2>3. CASE verr # None
    <3>1. result' = Invalid(acc.value)
      BY <1>4, <2>3 DEF CheckFreshness
    <3>. QED
      BY <2>2, <3>1 DEF SigInv, Attested, Invalid
  <2>4. CASE verr = None
    <3>1. result'.asserts = acc.value
      BY <1>4, <2>4 DEF CheckFreshness
    <3>. QED
      BY <2>1, <2>2, <2>4, <3>1 DEF SigInv, Attested
  <2>. QED
    BY <2>3, <2>4
<1>5. CASE UNCHANGED vars
  BY <1>5 DEF vars, SigInv, Attested
<1>. QED
  BY <1>1, <1>2, <1>3, <1>4, <1>5 DEF Next

(* Pigeonhole: a participants list that names no node twice and only      *)
(* faulty nodes has at most f entries.                                      *)
LEMMA FaultyListShort ==
  ASSUME NEW p \in Seq(Names), IsInjective(p), \A i \in 1..Len(p) : p[i] \in Byz
  PROVE  Len(p) <= F
<1>1. p \in Injection(1..Len(p), Byz)
  BY DEF Injection, IsInjective
<1>2. IsFiniteSet(Byz) /\ Cardinality(Byz) <= F
  BY QuorumAssumption, ConstantsAssumption, FS_Subset
<1>3. Cardinality(1..Len(p)) <= Cardinality(Byz)
  BY <1>1, <1>2, FS_Injection
<1>4. Len(p) \in Nat
  BY LenProperties
<1>5. Cardinality(1..Len(p)) = Len(p)
  BY <1>4, FS_Interval
<1>6. Cardinality(Byz) \in Nat /\ F \in Nat
  BY <1>2, ConstantsAssumption, FS_CardinalityType
<1>. QED
  BY <1>2, <1>3, <1>4, <1>5, <1>6

(* A multi-signature _verify_proof_signature accepts, whose participants   *)
(* list names no node twice, is over a header the correct validators       *)
(* signed: its N - f entries are more than the f faulty nodes.             *)
LEMMA AcceptedDistinctIsHonest ==
  ASSUME NEW m \in MultiSigs, verify_proof_signature(m) = None,
         IsInjective(m.participants)
  PROVE  m.value \in HonestValues
<1>9. None \notin SigErrors
  BY ConstantsAssumption
<1>0. m.signature = "agg"
  BY <1>9 DEF verify_proof_signature, SigErrors
<1>1. m.signature = "agg" /\ m.participants # Malformed
  BY <1>0 DEF MultiSigs, Signable
<1>2. m.participants \in Seq(Names)
  BY <1>1, ConstantsAssumption DEF MultiSigs
<1>7. Cardinality(Nodes) \in Nat /\ F \in Nat /\ Len(m.participants) \in Nat
  <2>1. Cardinality(Nodes) \in Nat
    BY QuorumAssumption, FS_CardinalityType
  <2>2. Len(m.participants) \in Nat
    BY <1>2, LenProperties
  <2>. QED
    BY <2>1, <2>2, ConstantsAssumption
<1>3. Len(m.participants) >= Cardinality(Nodes) - F
  <2>1. ~(Len(m.participants) < Cardinality(Nodes) - F)
    BY <1>9 DEF verify_proof_signature, SigErrors, SigErrors
  <2>. QED
    BY <1>7, <2>1
<1>4. \/ m.value \in HonestValues
      \/ \A i \in DOMAIN m.participants : m.participants[i] \in Byz
  BY <1>1 DEF MultiSigs, Signable
<1>5. SUFFICES ASSUME m.value \notin HonestValues PROVE FALSE
  OBVIOUS
<1>6. Len(m.participants) <= F
  BY <1>2, <1>4, <1>5, FaultyListShort
<1>. QED
  BY <1>3, <1>6, <1>7, QuorumAssumption

(* For every pool of N > 2f validators with at most f faulty, every reply *)
(* and every freshness input: a Verified or Expired result whose           *)
(* participants list names no node twice carries a header the correct     *)
(* validators signed.  This is the N - f threshold of                      *)
(* _verify_proof_signature doing its job once repeated names are ruled out *)
(* (duplicate_participants shows it failing with them).                    *)
THEOREM DistinctQuorum == Spec => []DistinctQuorumAuthentic
<1>1. Init => IInv /\ SigInv
  BY InitIInv, InitSigInv
<1>2. IInv /\ SigInv /\ [Next]_vars => IInv' /\ SigInv'
  BY NextIInv, NextSigInv
<1>3. IInv /\ SigInv => DistinctQuorumAuthentic
  <2> SUFFICES ASSUME IInv, SigInv, Attested, IsInjective(acc.participants)
               PROVE  result.asserts \in HonestValues
    BY DEF DistinctQuorumAuthentic
  <2>1. acc # None /\ verify_proof_signature(acc) = None /\ result.asserts = acc.value
    BY DEF SigInv
  <2>2. acc \in MultiSigs
    BY <2>1 DEF IInv, TypeOK
  <2>. QED
    BY <2>1, <2>2, AcceptedDistinctIsHonest
<1>. QED
  BY <1>1, <1>2, <1>3, PTL DEF Spec

-----------------------------------------------------------------------------
(* Refinement.  Every step of the model either leaves the reply, the       *)
(* freshness verdict and the result alone, or is the single step of        *)
(* StateProofEngine that decides the result.  Besides IInv and SigInv this *)
(* needs what the signature phase checked before it moved to "fresh", and *)
(* that check_freshness is only called by the last step.                   *)
RInv ==
  /\ pc # "done" => fresh = None
  /\ pc = "fresh" => parse_reply_for_proof_signature_checking(acc) /\ acc.value.ok

LEMMA InitRInv == Init => RInv
BY DEF Init, RInv

LEMMA NextRInv == IInv /\ RInv /\ [Next]_vars => RInv'
<1> SUFFICES ASSUME IInv, RInv, [Next]_vars PROVE RInv'
  OBVIOUS
<1>1. CASE CheckStateProof
  BY <1>1 DEF CheckStateProof, RInv
<1>2. CASE VerifyProof
  BY <1>2 DEF VerifyProof, Fail, RInv
<1>3. CASE VerifySignature
  BY <1>3 DEF VerifySignature, Fail, RInv
<1>4. CASE CheckFreshness
  BY <1>4 DEF CheckFreshness, RInv
<1>5. CASE UNCHANGED vars
  BY <1>5 DEF vars, RInv
<1>. QED
  BY <1>1, <1>2, <1>3, <1>4, <1>5 DEF Next

(* check_freshness has an input to decide on: some time value exists.      *)
LEMMA SomeFreshInput == \E t \in FreshInputs : TRUE
<1>1. PICK x \in Times : TRUE
  BY ConstantsAssumption
<1>2. [from |-> None, to |-> None, lwt |-> x, left |-> None, now |-> x] \in FreshInputs
  BY <1>1 DEF FreshInputs
<1>. QED
  BY <1>2

(* When the loop has run through every item, the reply passes the          *)
(* engine's AllProofsPass and its first item carries the kept multi_sig.   *)
LEMMA LoopDone ==
  ASSUME IInv, pc \in {"loop", "fresh"}, k = Len(reply) + 1, acc # None
  PROVE  Engine!AllProofsPass(reply) /\ reply[1].multi_signature = acc
<1>1. reply # None /\ (acc = None <=> k = 1) /\ LoopOK(k)
  BY DEF IInv
<1>2. Len(reply) \in Nat
  BY <1>1, ReplyIsSeq DEF IInv, TypeOK
<1>3. Len(reply) >= 1
  BY <1>1, <1>2
<1>4. \A j \in 1..Len(reply) : ProofPasses(reply[j]) /\ reply[j].multi_signature = acc
  BY <1>1 DEF LoopOK
<1>5. reply[1].multi_signature = acc
  BY <1>3, <1>4
<1>. QED
  BY <1>3, <1>4, <1>5 DEF Engine!AllProofsPass, ProofPasses, Engine!ProofPasses, RootMatches, Engine!RootMatches

(* An item that fails the loop body makes the engine's AllProofsPass false.*)
LEMMA LoopFails ==
  ASSUME IInv, pc = "loop", NEW kk \in 1..Len(reply), kk = k,
         \/ ~ProofPasses(reply[kk])
         \/ acc # None /\ reply[kk].multi_signature # acc
  PROVE  ~Engine!AllProofsPass(reply)
<1>1. (acc = None <=> k = 1) /\ LoopOK(k)
  BY DEF IInv
<1>2. acc # None => reply[1].multi_signature = acc
  <2>1. acc # None => 1 \in 1..(k - 1)
    BY <1>1
  <2>. QED
    BY <1>1, <2>1 DEF LoopOK
<1>3. Len(reply) \in Nat
  BY ReplyIsSeq DEF IInv, TypeOK
<1>. QED
  BY <1>2, <1>3 DEF Engine!AllProofsPass, ProofPasses, Engine!ProofPasses, RootMatches, Engine!RootMatches

(* The engine is instanced over the same data: its copies of the data     *)
(* operators are the model's.                                              *)
LEMMA EngineData ==
  /\ Engine!Replies = Replies
  /\ Engine!Pending = Pending
  /\ Engine!FreshInputs = FreshInputs
  /\ \A t : Engine!check_freshness(t) = check_freshness(t)
  /\ \A m : Engine!parse_reply_for_proof_signature_checking(m)
              = parse_reply_for_proof_signature_checking(m)
  /\ \A m : Engine!verify_proof_signature(m) = verify_proof_signature(m)
<1>1. Engine!MultiSigs = MultiSigs
  BY DEF Engine!MultiSigs, MultiSigs, Engine!Signable, Signable, Engine!SigKinds,
         SigKinds, Engine!Names, Names
<1>2. Engine!Replies = Replies
  BY <1>1 DEF Engine!Replies, Replies, Engine!ParsedSPs, ParsedSPs, Engine!RootStrs,
         RootStrs, Engine!KvsVerdicts, KvsVerdicts
<1>3. \A m : Engine!verify_proof_signature(m) = verify_proof_signature(m)
  BY DEF Engine!verify_proof_signature, verify_proof_signature, Engine!Cardinality,
         Cardinality
<1>. QED
  BY <1>2, <1>3 DEF Engine!Pending, Pending, Engine!FreshInputs, FreshInputs,
         Engine!check_freshness, check_freshness,
         Engine!parse_reply_for_proof_signature_checking,
         parse_reply_for_proof_signature_checking

(* Each step of the model is a step of the engine's Decided or leaves the  *)
(* engine's variables alone.                                               *)
LEMMA StepRefines ==
  IInv /\ SigInv /\ RInv /\ [Next]_vars => [Engine!Decided]_Engine!vars
<1> SUFFICES ASSUME IInv, SigInv, RInv, [Next]_vars
             PROVE  [Engine!Decided]_Engine!vars
  OBVIOUS
<1>0. PICK t0 \in FreshInputs : TRUE
  BY SomeFreshInput
(* An early Invalid(None) is the engine's decision on any freshness input. *)
<1>9. ASSUME reply # None, ~Engine!AllProofsPass(reply), result = Pending,
             result' = Invalid(None), fresh = None, fresh' = fresh, reply' = reply
      PROVE  Engine!Decided
  <2>1. Engine!Decide(reply, t0) = Invalid(None)
    BY <1>9, EngineData DEF Engine!Decide, Engine!Invalid, Invalid
  <2>. QED
    BY <1>0, <1>9, <2>1, EngineData DEF Engine!Decided, Invalid
<1>1. CASE CheckStateProof
  <2>1. pc = "parse" /\ result = Pending /\ fresh = None
        /\ UNCHANGED <<reply, fresh>>
    BY <1>1 DEF CheckStateProof, IInv, RInv
  <2>2. CASE reply = None
    <3>1. result' = [kind |-> "Missing", asserts |-> None]
      BY <1>1, <2>2 DEF CheckStateProof
    <3>2. Engine!Decide(reply, t0) = result'
      BY <2>2, <3>1, EngineData DEF Engine!Decide
    <3>. QED
      BY <1>0, <2>1, <3>1, <3>2, EngineData DEF Engine!Decided
  <2>3. CASE reply # None
    BY <1>1, <2>3 DEF CheckStateProof, Engine!vars
  <2>. QED
    BY <2>2, <2>3
<1>2. CASE VerifyProof
  <2>1. /\ pc = "loop" /\ reply # None /\ result = Pending /\ fresh = None
        /\ k \in 1..Len(reply) /\ UNCHANGED <<reply, fresh>>
    BY <1>2 DEF VerifyProof, IInv, RInv, TypeOK
  <2>2. CASE result' = result
    BY <2>1, <2>2 DEF Engine!vars
  <2>3. CASE result' # result
    <3>1. /\ result' = Invalid(None)
          /\ \/ ~ProofPasses(reply[k])
             \/ acc # None /\ reply[k].multi_signature # acc
      BY <1>2, <2>3 DEF VerifyProof, Fail, ProofPasses
    <3>2. ~Engine!AllProofsPass(reply)
      BY <2>1, <3>1, LoopFails
    <3>. QED
      BY <1>9, <2>1, <3>1, <3>2
  <2>. QED
    BY <2>2, <2>3
<1>3. CASE VerifySignature
  <2>1. /\ pc = "loop" /\ reply # None /\ result = Pending /\ fresh = None
        /\ k = Len(reply) + 1 /\ (acc = None <=> k = 1) /\ UNCHANGED <<reply, fresh>>
    <3>1. pc = "loop" /\ reply # None /\ k > Len(reply) /\ UNCHANGED <<reply, fresh>>
      BY <1>3 DEF VerifySignature, IInv
    <3>2. Len(reply) \in Nat
      BY <3>1, ReplyIsSeq DEF IInv, TypeOK
    <3>. QED
      BY <3>1, <3>2 DEF IInv, RInv, TypeOK
  <2>2. CASE result' = result
    BY <2>1, <2>2 DEF Engine!vars
  <2>3. CASE result' # result
    <3>1. /\ result' = Invalid(None)
          /\ \/ acc = None
             \/ ~parse_reply_for_proof_signature_checking(acc)
             \/ ~acc.value.ok
      BY <1>3, <2>3 DEF VerifySignature, Fail
    <3>2. CASE acc = None
      <4>1. Len(reply) = 0
        BY <2>1, <3>2, ReplyIsSeq DEF IInv, TypeOK
      <4>2. ~Engine!AllProofsPass(reply)
        BY <4>1 DEF Engine!AllProofsPass
      <4>. QED
        BY <1>9, <2>1, <3>1, <4>2
    <3>3. CASE acc # None
      <4>1. Engine!AllProofsPass(reply) /\ reply[1].multi_signature = acc
        BY <2>1, <3>3, LoopDone
      <4>2. Engine!Decide(reply, t0) = Invalid(None)
        BY <2>1, <3>1, <3>3, <4>1, EngineData DEF Engine!Decide, Engine!Invalid, Invalid
      <4>. QED
        BY <1>0, <2>1, <3>1, <4>2, EngineData DEF Engine!Decided, Invalid
    <3>. QED
      BY <3>2, <3>3
  <2>. QED
    BY <2>2, <2>3
<1>4. CASE CheckFreshness
  <2>1. /\ pc = "fresh" /\ reply # None /\ result = Pending /\ fresh = None
        /\ k = Len(reply) + 1 /\ acc # None /\ UNCHANGED reply
        /\ parse_reply_for_proof_signature_checking(acc) /\ acc.value.ok
        /\ verr = verify_proof_signature(acc)
    BY <1>4 DEF CheckFreshness, IInv, RInv, SigInv
  <2>2. Engine!AllProofsPass(reply) /\ reply[1].multi_signature = acc
    BY <2>1, LoopDone
  <2>3. CASE verr # None
    <3>1. result' = Invalid(acc.value) /\ fresh' = fresh
      BY <1>4, <2>3 DEF CheckFreshness
    <3>2. Engine!Decide(reply, t0) = Invalid(acc.value)
      BY <2>1, <2>2, <2>3, EngineData DEF Engine!Decide, Engine!Invalid, Invalid
    <3>. QED
      BY <1>0, <2>1, <3>1, <3>2, EngineData DEF Engine!Decided, Invalid
  <2>4. CASE verr = None
    <3>1. PICK t \in FreshInputs :
            /\ fresh' = check_freshness(t)
            /\ result' = [kind |-> IF fresh' THEN "Verified" ELSE "Expired",
                          asserts |-> acc.value]
      BY <1>4, <2>4 DEF CheckFreshness
    <3>2. Engine!Decide(reply, t) = result'
      BY <2>1, <2>2, <2>4, <3>1, EngineData DEF Engine!Decide
    <3>. QED
      BY <2>1, <3>1, <3>2, EngineData DEF Engine!Decided
  <2>. QED
    BY <2>3, <2>4
<1>5. CASE UNCHANGED vars
  BY <1>5 DEF vars, Engine!vars
<1>. QED
  BY <1>1, <1>2, <1>3, <1>4, <1>5 DEF Next

(* check_state_proof, walked item by item with its early returns, decides *)
(* exactly as the one-step engine does: for every pool, threshold, reply   *)
(* size and time set, every behaviour of StateProof is one of              *)
(* StateProofEngine.  The state_proof_loop run checks the same refinement  *)
(* (EngineSpec) on four validators.                                        *)
THEOREM Refinement == Spec => EngineSpec
<1>1. Init => IInv /\ SigInv /\ RInv
  BY InitIInv, InitSigInv, InitRInv
<1>2. IInv /\ SigInv /\ RInv /\ [Next]_vars => IInv' /\ SigInv' /\ RInv'
  BY NextIInv, NextSigInv, NextRInv
<1>3. Init => Engine!Init
  BY EngineData DEF Init, Engine!Init
<1>. QED
  BY <1>1, <1>2, <1>3, StepRefines, PTL DEF Spec, EngineSpec, Engine!Spec
=============================================================================
