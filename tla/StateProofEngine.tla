-------------------------- MODULE StateProofEngine --------------------------
(***************************************************************************)
(* What check_state_proof promises, as one atomic step: from the parsed    *)
(* proofs of a reply it decides Missing, Invalid (with or without the      *)
(* asserted header), Expired or Verified.  The detailed module StateProof  *)
(* walks the loop of verify_parsed_sp with its early returns and is shown  *)
(* to implement this specification.                                        *)
(***************************************************************************)
EXTENDS StateProofData

VARIABLES
  reply,   \* what the parser returned
  fresh,   \* the verdict of check_freshness, None until it is called
  result   \* the StateProofResult, Pending until it is decided

vars == <<reply, fresh, result>>

(* Every proof passes its own checks and carries the first one's           *)
(* multi-signature.                                                        *)
AllProofsPass(sps) ==
  /\ Len(sps) >= 1
  /\ \A j \in 1..Len(sps) :
        ProofPasses(sps[j]) /\ sps[j].multi_signature = sps[1].multi_signature

Invalid(a) == [kind |-> "Invalid", asserts |-> a]

Decide(sps, t) ==
  IF sps = None THEN [kind |-> "Missing", asserts |-> None]
  ELSE IF ~AllProofsPass(sps) THEN Invalid(None)
  ELSE LET m == sps[1].multi_signature IN
       IF ~parse_reply_for_proof_signature_checking(m) \/ ~m.value.ok
         THEN Invalid(None)
       ELSE IF verify_proof_signature(m) # None THEN Invalid(m.value)
       ELSE IF check_freshness(t) THEN [kind |-> "Verified", asserts |-> m.value]
       ELSE [kind |-> "Expired", asserts |-> m.value]

Init == reply \in Replies /\ fresh = None /\ result = Pending

Decided ==
  /\ result = Pending
  /\ \E t \in FreshInputs :
       /\ result' = Decide(reply, t)
       /\ fresh' = IF result'.kind \in {"Verified", "Expired"}
                      THEN check_freshness(t) ELSE None
  /\ UNCHANGED reply

Spec == Init /\ [][Decided]_vars
=============================================================================
