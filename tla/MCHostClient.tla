---------------------------- MODULE MCHostClient ----------------------------
(***************************************************************************)
(* HostClient on a small instance.  The run checks liveness: no symmetry.  *)
(***************************************************************************)
EXTENDS HostClient
=============================================================================
