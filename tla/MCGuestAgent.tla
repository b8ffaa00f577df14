---------------------------- MODULE MCGuestAgent ----------------------------
(***************************************************************************)
(* GuestAgent for TLC.                                                     *)
(***************************************************************************)
EXTENDS GuestAgent
=============================================================================
