---------------------------- MODULE MCVerdictStore ----------------------------
(***************************************************************************)
(* Small instances of VerdictStore.                                        *)
(***************************************************************************)
EXTENDS VerdictStore, TLC

CONSTANTS w1, w2, a1, a2

(* Workers and agents are interchangeable; no temporal property is checked *)
(* in a run that uses the symmetry.                                        *)
Symmetry == Permutations(Workers) \cup Permutations(Agents)
=============================================================================
