----------------------------- MODULE StateProof -----------------------------
(***************************************************************************)
(* check_state_proof and verify_parsed_sp of                               *)
(* libindy_vdr/src/state_proof/mod.rs, step by step: the match on the      *)
(* parser's answer, one step per iteration of the loop over the ParsedSP   *)
(* items (root check, multi-signature consistency, decoding, key-value     *)
(* verdict, each an early return), the signature phase, and the final      *)
(* match with the freshness check.                                         *)
(*                                                                         *)
(*   pc = "parse"     check_state_proof has the parser's answer in reply   *)
(*   pc = "loop"      the for loop of verify_parsed_sp is at item k        *)
(*   pc = "fresh"     verify_parsed_sp returned Ok((asserts, verr))        *)
(*   pc = "done"      check_state_proof returned result                    *)
(***************************************************************************)
EXTENDS StateProofData, Functions

VARIABLES
  reply,    \* the Option<Vec<ParsedSP>> of parse_generic_reply_for_proof_checking
  pc,       \* the control point, see above
  k,        \* the index of the ParsedSP the loop is at
  acc,      \* multi_sig: the first item's multi-signature, None before it
  verr,     \* verify_err: the error of _verify_proof_signature, None if Ok
  fresh,    \* the verdict of check_freshness, None until it is called
  result    \* the StateProofResult, Pending until check_state_proof returns

vars == <<reply, pc, k, acc, verr, fresh, result>>

Invalid(a) == [kind |-> "Invalid", asserts |-> a]

(* An Err of verify_parsed_sp: check_state_proof returns Invalid(err, None)*)
Fail ==
  /\ result' = Invalid(None)
  /\ pc' = "done"

Init ==
  /\ reply \in Replies
  /\ pc = "parse"
  /\ k = 1
  /\ acc = None
  /\ verr = None
  /\ fresh = None
  /\ result = Pending

(* check_state_proof: None from the parser is Missing, Some goes on to     *)
(* verify_parsed_sp.                                                       *)
CheckStateProof ==
  /\ pc = "parse"
  /\ \/ /\ reply = None
        /\ result' = [kind |-> "Missing", asserts |-> None]
        /\ pc' = "done"
     \/ /\ reply # None
        /\ pc' = "loop"
        /\ UNCHANGED result
  /\ UNCHANGED <<reply, k, acc, verr, fresh>>

(* A variant of the loop body without the multi-signature consistency     *)
(* check.                                                                  *)
VerifyProofNoConsistency ==
  /\ pc = "loop"
  /\ k <= Len(reply)
  /\ LET sp == reply[k] IN
     \/ /\ ~RootMatches(sp)
        /\ Fail /\ UNCHANGED acc
     \/ /\ RootMatches(sp)
        /\ acc' = IF acc = None THEN sp.multi_signature ELSE acc
        /\ IF sp.nodes_ok /\ sp.root # BadRoot /\ sp.kvs = "pass"
             THEN pc' = "loop" /\ UNCHANGED result
             ELSE Fail
  /\ k' = k + 1
  /\ UNCHANGED <<reply, verr, fresh>>

(* One iteration of the for loop of verify_parsed_sp.                      *)
VerifyProof ==
  /\ pc = "loop"
  /\ k <= Len(reply)
  /\ LET sp == reply[k] IN
     \/ /\ ~RootMatches(sp)
        /\ Fail /\ UNCHANGED acc
     \/ /\ RootMatches(sp)
        /\ acc # None /\ acc # sp.multi_signature
        /\ Fail /\ UNCHANGED acc
     \/ /\ RootMatches(sp)
        /\ acc = None \/ acc = sp.multi_signature
        /\ acc' = IF acc = None THEN sp.multi_signature ELSE acc
        /\ IF sp.nodes_ok /\ sp.root # BadRoot /\ sp.kvs = "pass"
             THEN pc' = "loop" /\ UNCHANGED result
             ELSE Fail
  /\ k' = k + 1
  /\ UNCHANGED <<reply, verr, fresh>>

(* After the loop: with no item there is no multi_sig to check; otherwise  *)
(* parse the signature, verify it and deserialise the asserts.             *)
VerifySignature ==
  /\ pc = "loop"
  /\ k > Len(reply)
  /\ \/ /\ acc = None
        /\ Fail
        /\ UNCHANGED verr
     \/ /\ acc # None
        /\ ~parse_reply_for_proof_signature_checking(acc)
        /\ Fail
        /\ UNCHANGED verr
     \/ /\ acc # None
        /\ parse_reply_for_proof_signature_checking(acc)
        /\ verr' = verify_proof_signature(acc)
        /\ IF acc.value.ok
             THEN pc' = "fresh" /\ UNCHANGED result
             ELSE Fail
  /\ UNCHANGED <<reply, k, acc, fresh>>

(* A variant with the freshness verdict inverted.                         *)
CheckFreshnessInverted ==
  /\ pc = "fresh"
  /\ \/ /\ verr # None
        /\ result' = Invalid(acc.value)
        /\ UNCHANGED fresh
     \/ /\ verr = None
        /\ \E t \in FreshInputs :
             /\ fresh' = check_freshness(t)
             /\ result' = [kind |-> IF fresh' THEN "Expired" ELSE "Verified",
                           asserts |-> acc.value]
  /\ pc' = "done"
  /\ UNCHANGED <<reply, k, acc, verr>>

(* A variant that hands out the whole multi-signature as the asserts.     *)
CheckFreshnessWholeSig ==
  /\ pc = "fresh"
  /\ \/ /\ verr # None
        /\ result' = Invalid(acc)
        /\ UNCHANGED fresh
     \/ /\ verr = None
        /\ \E t \in FreshInputs :
             /\ fresh' = check_freshness(t)
             /\ result' = [kind |-> IF fresh' THEN "Verified" ELSE "Expired",
                           asserts |-> acc]
  /\ pc' = "done"
  /\ UNCHANGED <<reply, k, acc, verr>>

(* check_state_proof on Ok((asserts, verr)): a signature error gives       *)
(* Invalid with the asserts, otherwise check_freshness decides.            *)
CheckFreshness ==
  /\ pc = "fresh"
  /\ \/ /\ verr # None
        /\ result' = Invalid(acc.value)
        /\ UNCHANGED fresh
     \/ /\ verr = None
        /\ \E t \in FreshInputs :
             /\ fresh' = check_freshness(t)
             /\ result' = [kind |-> IF fresh' THEN "Verified" ELSE "Expired",
                           asserts |-> acc.value]
  /\ pc' = "done"
  /\ UNCHANGED <<reply, k, acc, verr>>

Next == CheckStateProof \/ VerifyProof \/ VerifySignature \/ CheckFreshness

Spec == Init /\ [][Next]_vars

-----------------------------------------------------------------------------
TypeOK ==
  /\ reply \in Replies
  /\ pc \in {"parse", "loop", "fresh", "done"}
  /\ k \in 1..(MaxProofs + 1)
  /\ acc \in MultiSigs \cup {None}
  /\ verr \in SigErrors \cup {None}
  /\ fresh \in BOOLEAN \cup {None}
  /\ result \in Results \cup {Pending}

Attested == result.kind \in {"Verified", "Expired"}

(* Whenever check_state_proof hands out asserts (Verified, Expired, or     *)
(* Invalid after a signature failure), every ParsedSP of the reply passed  *)
(* the root, decoding and key-value checks of the loop, all of them carry  *)
(* one and the same multi-signature, and the asserts are its value.  A     *)
(* loop that stopped early, skipped the consistency check or compared with *)
(* the wrong item breaks it.                                               *)
AssertsOnlyFromConsistentProofs ==
  result.asserts # None =>
    /\ reply # None /\ Len(reply) >= 1
    /\ \A j \in 1..Len(reply) :
          /\ ProofPasses(reply[j])
          /\ reply[j].multi_signature = reply[1].multi_signature
    /\ result.asserts = reply[1].multi_signature.value

(* A Verified or Expired result whose participants list names no node      *)
(* twice carries a header the correct validators signed: the N - f         *)
(* threshold of _verify_proof_signature, with at most f faulty nodes, is   *)
(* more than the faulty nodes can reach on their own.                      *)
DistinctQuorumAuthentic ==
  (Attested /\ IsInjective(acc.participants)) => result.asserts \in HonestValues

(* Every Verified or Expired result carries a header the correct           *)
(* validators signed: spec section 3 asks for N - f distinct participant   *)
(* signatures.                                                             *)
AttestedValueAuthentic ==
  Attested => result.asserts \in HonestValues

(* The step-by-step engine implements the one-step decision.               *)
Engine == INSTANCE StateProofEngine

EngineSpec == Engine!Spec
=============================================================================
