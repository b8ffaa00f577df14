---------------------------- MODULE SessionValue ----------------------------
(***************************************************************************)
(* What the snapshots of a session promise its clients                     *)
(* (internal/snapshot, internal/runtime/fcsnap.go): the session is one     *)
(* value, memory and disk together.  A microVM starts from it, a snapshot  *)
(* replaces it whole by what the microVM has become, a microVM without one *)
(* leaves it alone, and it is given up only between two microVMs.  Module  *)
(* Session is shown to implement this specification.                       *)
(***************************************************************************)
CONSTANTS Jobs,   \* the requests of the session, each with one job
          Gone    \* the mark of a request without a microVM

VARIABLES value,  \* the jobs whose effects the session holds
          guest   \* the jobs whose effects the microVM of a request holds, or Gone

vars == <<value, guest>>

Free == \A j \in Jobs : guest[j] = Gone

Init == value = {} /\ guest = [j \in Jobs |-> Gone]

Boot(j) ==
  /\ Free
  /\ guest' = [guest EXCEPT ![j] = value]
  /\ UNCHANGED value

Run(j) ==
  /\ guest[j] = value
  /\ guest' = [guest EXCEPT ![j] = value \cup {j}]
  /\ UNCHANGED value

Save(j) ==
  /\ guest[j] = value \cup {j}
  /\ value' = guest[j]
  /\ UNCHANGED guest

End(j) ==
  /\ guest[j] # Gone
  /\ guest' = [guest EXCEPT ![j] = Gone]
  /\ UNCHANGED value

Reset ==
  /\ Free
  /\ value' = {}
  /\ UNCHANGED guest

Next == Reset \/ \E j \in Jobs : Boot(j) \/ Run(j) \/ Save(j) \/ End(j)

Spec == Init /\ [][Next]_vars
=============================================================================
