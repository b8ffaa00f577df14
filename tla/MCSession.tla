----------------------------- MODULE MCSession -----------------------------
(* Requests of one session are interchangeable: a job is known by name only. *)
EXTENDS Session, TLC

Deployed(jailed, faults) == [jailed |-> jailed, faults |-> faults]

\* A jailer and everything up to the export; no jailer and everything but a Delete
\* that fails.
MCDeployments ==
  {Deployed(TRUE, {"timeout", "api"}), Deployed(FALSE, {"timeout", "api", "export", "crash"})}

\* No jailer, and jobs that time out.
MCPlain == {Deployed(FALSE, {"timeout"})}

Symmetry == Permutations(Requests)
=============================================================================
