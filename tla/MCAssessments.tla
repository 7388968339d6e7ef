---------------------------- MODULE MCAssessments ----------------------------
(***************************************************************************)
(* Small instances of Assessments: the agents to begin with and what the   *)
(* sources may come to say of them.                                        *)
(***************************************************************************)
EXTENDS Assessments, TLC

CONSTANTS e1, e2

Listed(services) ==
  [isAsp |-> TRUE, services |-> services, probes |-> (e1 :> "x402" @@ e2 :> "api"), flapping |-> FALSE,
   slow |-> FALSE, approval |-> 4, online |-> 1, status |-> 1, sales |-> 0, security |-> 450,
   described |-> TRUE, test_named |-> FALSE, reviews |-> NoReviews, settlement |-> Absent,
   content |-> "clean", malicious |-> FALSE, domain |-> "absent", payto |-> FALSE,
   age |-> Absent, fleet |-> Absent]

At(fee, url) == [fee |-> fee, endpoint |-> url]

Newcomer == Listed({At(100, e1)})

(* A free service with sales, a sub-cent one, a priced one on two endpoints. *)
FreeSeller == [Listed({At(0, e1)}) EXCEPT !.sales = 50]

CheapSeller == [Listed({At(5, e1)}) EXCEPT !.sales = 99, !.security = Absent]

Proven == [Listed({At(100, e1), At(10, e2)}) EXCEPT !.sales = 100, !.payto = TRUE,
             !.reviews = [rated |-> 20, positive |-> 20, reviewers |-> 20, distinct |-> 20,
                          own |-> FALSE]]

AgentToAgent == [Listed({At(20, NoEndpoint)}) EXCEPT !.sales = 30]

(* Three reviews from two reviewers, one of a farm of shells.               *)
Shell == [Listed({At(1, e1)}) EXCEPT !.sales = 9, !.described = FALSE,
            !.fleet = [known |-> 99, sales |-> 19, templated |-> 75],
            !.reviews = [rated |-> 4, positive |-> 4, reviewers |-> 4, distinct |-> 2,
                         own |-> FALSE]]

Everyone == {Newcomer, FreeSeller, CheapSeller, Proven, AgentToAgent, Shell}

FeesListed == {0, 5, 10, 100, 3000}

Counts == {1, 9, 10, 20, 100, 500}

Stars == {150, 300, 425, 500}

(* Nothing on chain, an organic book, thin but clean, one payer, a handful  *)
(* replaying one amount, ten payments by three wallets.                     *)
Books ==
  {[tx |-> 0,  payers |-> 0,  top1 |-> 0,   identical |-> 0,   volume |-> 0],
   [tx |-> 20, payers |-> 12, top1 |-> 20,  identical |-> 30,  volume |-> 11000],
   [tx |-> 6,  payers |-> 6,  top1 |-> 30,  identical |-> 50,  volume |-> 300],
   [tx |-> 1,  payers |-> 1,  top1 |-> 100, identical |-> 100, volume |-> 50000],
   [tx |-> 8,  payers |-> 4,  top1 |-> 25,  identical |-> 100, volume |-> 50000],
   [tx |-> 10, payers |-> 3,  top1 |-> 40,  identical |-> 30,  volume |-> 9000]}

(* No other agent, an honest startup, a real business, farms of three sizes. *)
Owners ==
  {[known |-> 0, sales |-> 0, templated |-> 0], [known |-> 5, sales |-> 0, templated |-> 0],
   [known |-> 31, sales |-> 69, templated |-> 0], [known |-> 5, sales |-> 12, templated |-> 5],
   [known |-> 19, sales |-> 1, templated |-> 0], [known |-> 98, sales |-> 19, templated |-> 75]}
=============================================================================
