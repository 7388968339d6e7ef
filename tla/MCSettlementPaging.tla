------------------------- MODULE MCSettlementPaging -------------------------
(***************************************************************************)
(* A small instance of SettlementPaging.                                   *)
(***************************************************************************)
EXTENDS SettlementPaging

CONSTANTS s1, s2

Payment(s) == [from |-> s, inbound |-> TRUE, amount |-> 1]

(* Two payers, a withdrawal to one of them, and dust.                      *)
AFewKinds == {Payment(s1), Payment(s2), [Payment(s1) EXCEPT !.inbound = FALSE],
              [Payment(s2) EXCEPT !.amount = 0]}
=============================================================================
