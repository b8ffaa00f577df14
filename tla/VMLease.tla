------------------------------ MODULE VMLease ------------------------------
(***************************************************************************)
(* What the VM gate promises (internal/runtime/gate.go): at most Max       *)
(* leases are out at a time, a microVM runs only under its request's       *)
(* lease, and a lease comes back only after that microVM stopped running.  *)
(* The module Lifecycle is shown to implement this specification.          *)
(***************************************************************************)
EXTENDS Naturals, FiniteSets

CONSTANTS Clients,  \* the requests that may ask for a microVM
          Max       \* the number of slots of the gate

VARIABLES leases,   \* the clients that hold a slot
          live      \* the clients whose microVM runs

vars == <<leases, live>>

Init == leases = {} /\ live = {}

Acquire(c) ==
  /\ c \notin leases
  /\ Cardinality(leases) < Max
  /\ leases' = leases \cup {c}
  /\ UNCHANGED live

Start(c) ==
  /\ c \in leases \ live
  /\ live' = live \cup {c}
  /\ UNCHANGED leases

Stop(c) ==
  /\ c \in live
  /\ live' = live \ {c}
  /\ UNCHANGED leases

Release(c) ==
  /\ c \in leases \ live
  /\ leases' = leases \ {c}
  /\ UNCHANGED live

Next == \E c \in Clients : Acquire(c) \/ Start(c) \/ Stop(c) \/ Release(c)

Spec == Init /\ [][Next]_vars
=============================================================================
