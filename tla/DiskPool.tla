----------------------------- MODULE DiskPool ------------------------------
(***************************************************************************)
(* What the interface DiskPool (internal/runtime/pool.go) promises to      *)
(* Boot, without files, fills and channels: Acquire gives a microVM a      *)
(* clean golden root filesystem or an error, and from then on only the     *)
(* guest of that microVM changes it.  Module FilePool implements it.       *)
(***************************************************************************)
CONSTANT Boots    \* calls of Acquire, one for each microVM

VARIABLE rootfs   \* what is at the dst of a call

Init == rootfs = [b \in Boots |-> "none"]

\* Acquire(dst): the disk is golden, or there is an error.
Acquire(b) ==
  /\ rootfs[b] = "none"
  /\ \E r \in {"golden", "failed"} : rootfs' = [rootfs EXCEPT ![b] = r]

\* The guest writes its disk; a dirty disk is nobody else's, now or later.
Write(b) ==
  /\ rootfs[b] = "golden"
  /\ rootfs' = [rootfs EXCEPT ![b] = "dirty"]

Next == \E b \in Boots : Acquire(b) \/ Write(b)

Spec == Init /\ [][Next]_rootfs
=============================================================================
