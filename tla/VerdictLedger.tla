---------------------------- MODULE VerdictLedger ----------------------------
(***************************************************************************)
(* What oracle/store.py promises its readers, with no database in sight.   *)
(* An agent has one current verdict; issuing a new one replaces it, and    *)
(* the very step that moves the verdict announces the move as a crossing   *)
(* ("records a TRANSITION ... instead of silently overwriting",            *)
(* store.py:10-12).                                                        *)
(***************************************************************************)
EXTENDS Naturals, Sequences

CONSTANTS Agents, Verdicts, Unrated

VARIABLES
  current,     \* the verdict each agent is known by, Unrated before the first
  crossings    \* what /changes announces, oldest first

vars == <<current, crossings>>

Crossing == [agent : Agents, from : Verdicts, to : Verdicts]

Init ==
  /\ current = [a \in Agents |-> Unrated]
  /\ crossings = << >>

(* A verdict is issued: it becomes current, and is announced iff it moved. *)
Issue(a, v) ==
  /\ current' = [current EXCEPT ![a] = v]
  /\ crossings' = IF current[a] \in {Unrated, v}
                  THEN crossings
                  ELSE Append(crossings, [agent |-> a, from |-> current[a], to |-> v])

Next == \E a \in Agents, v \in Verdicts : Issue(a, v)

Spec == Init /\ [][Next]_vars
=============================================================================
