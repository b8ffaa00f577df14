---------------------------- MODULE MCLifecycle ----------------------------
(***************************************************************************)
(* Lifecycle for TLC.                                                      *)
(***************************************************************************)
EXTENDS Lifecycle, TLC

\* The fair behaviours in which warden goes on serving.  For the answer of every
\* request nothing is lost: an exit ends the obligation, and draining only takes
\* Arrive away, which no fairness asks for.
ServingSpec == Init /\ [][Next /\ UNCHANGED phase]_vars /\ Fairness

Symmetry == Permutations(Requests)
=============================================================================
