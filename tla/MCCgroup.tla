------------------------------ MODULE MCCgroup ------------------------------
(***************************************************************************)
(* Module Cgroup for TLC: two microVMs in two lives of warden, the first  *)
(* with a chain of processes (sudo, jailer, firecracker), the second with  *)
(* two, perhaps beside orphans of the first under the same id.             *)
(***************************************************************************)
EXTENDS Cgroup

MCTree == <<3, 2>>
=============================================================================
