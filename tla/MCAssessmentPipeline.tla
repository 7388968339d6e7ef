------------------------ MODULE MCAssessmentPipeline ------------------------
(***************************************************************************)
(* A small instance of AssessmentPipeline.                                 *)
(***************************************************************************)
EXTENDS AssessmentPipeline

CONSTANTS w1, w2, a1, a2, o1, o2, e1, e2

V(o, n, e) == [owner |-> o, sold |-> n, endpoint |-> e]

Life(first, second) == [a \in Agents |-> IF a = a1 THEN first ELSE second]

(* Agents that sell, and change hands in both directions.                  *)
Siblings == Life(<<V(o1, 0, NoEndpoint), V(o2, 1, NoEndpoint)>>,
                 <<V(o2, 0, NoEndpoint), V(o1, 0, NoEndpoint)>>)

(* An agent that moves to another endpoint, and one that loses its owner.  *)
Moving == Life(<<V(NoOwner, 0, e1), V(NoOwner, 0, e2)>>, <<>>)
Orphaned == Life(<<V(o1, 0, NoEndpoint), V(NoOwner, 1, NoEndpoint)>>, <<>>)

SomeLives == {Siblings, Moving, Orphaned}
=============================================================================
