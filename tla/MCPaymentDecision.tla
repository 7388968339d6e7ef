-------------------------- MODULE MCPaymentDecision --------------------------
(***************************************************************************)
(* Small instances of PaymentDecision.                                     *)
(***************************************************************************)
EXTENDS PaymentDecision, TLC

CONSTANTS w1, w2, a1, c1

(* Two verdicts with the same ceiling: only the word keeps the second from *)
(* being paid.                                                             *)
SafeOrCaution == {[verdict |-> "SAFE", usd |-> 1], [verdict |-> "CAUTION", usd |-> 1]}

Symmetry == Permutations(Workers)
=============================================================================
