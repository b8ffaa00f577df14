---------------------------- MODULE MCRateLimit ----------------------------
(* Time is bounded: a behaviour of MaxClock ticks. *)
EXTENDS RateLimit, TLC

CONSTANT MaxClock

Horizon == clock <= MaxClock
Symmetry == Permutations(Keys) \cup Permutations(Handlers)
=============================================================================
