----------------------------- MODULE MCAuditSale -----------------------------
(***************************************************************************)
(* Small instances of AuditSale: which requests the buyers send.           *)
(***************************************************************************)
EXTENDS AuditSale, TLC

CONSTANTS b1, b2, a1, a2

Req(method, query, body) == [method |-> method, query |-> query, body |-> body, agent |-> a1]

(* Every way of saying which agent, once per place it can be said.         *)
EveryForm == {Req("GET", "none", "none"), Req("GET", "id", "none"), Req("GET", "name", "none"),
              Req("GET", "none", "id"), Req("POST", "none", "id"), Req("POST", "none", "name"),
              Req("POST", "bad", "none"), Req("POST", "none", "bad")}

RefusedEndpoint == [Req("GET", "id", "none") EXCEPT !.agent = a2]

EveryFormAndRefused == EveryForm \cup {RefusedEndpoint}

ById == {Req("GET", "id", "none")}

ByName == {Req("GET", "name", "none")}

ByIdOrName == ById \cup ByName

InBody == {Req("GET", "none", "id"), Req("POST", "none", "name")}

Symmetry == Permutations(Buyers)
=============================================================================
