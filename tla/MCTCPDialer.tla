----------------------------- MODULE MCTCPDialer ----------------------------
(***************************************************************************)
(* TCPDialer on a small instance: two callers, one host with two           *)
(* addresses.                                                              *)
(***************************************************************************)
EXTENDS TCPDialer

CONSTANTS a1, a2

MCLookups == {<<a1, a2>>}
=============================================================================
