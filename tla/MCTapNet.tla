------------------------------ MODULE MCTapNet ------------------------------
(***************************************************************************)
(* TapNet for TLC.                                                         *)
(***************************************************************************)
EXTENDS TapNet, TLC

\* Every id has device names of its own.
DevDistinct == [i \in Ids |-> i]
\* The sessions agree in the characters that device names keep.
DevShared == [i \in Ids |-> IF i \in Sessions THEN "s" ELSE i]

Failing == Cmds \cup {"lookup"}

\* One slot, names that collide, the end of the subnets, restarts.
Serial == [dev |-> DevShared, slots |-> 1, subnetMax |-> 2, canFail |-> Failing \ {"tapmove"},
           restarts |-> TRUE, apart |-> FALSE]
\* Two slots and requests that are kept apart.
Parallel(fail) == [dev |-> DevDistinct, slots |-> 2, subnetMax |-> 16383, canFail |-> fail,
                   restarts |-> FALSE, apart |-> TRUE]

MCDeployments == {Serial, Parallel(Failing), Parallel(Failing \ {"tapmove"})}

Symmetry == Permutations(Requests)
=============================================================================
