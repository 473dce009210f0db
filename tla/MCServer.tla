------------------------------ MODULE MCServer ------------------------------
(***************************************************************************)
(* Server on a small instance.  The goroutines that use the listener are   *)
(* the workers, the accept loop and the one that calls Close.              *)
(***************************************************************************)
EXTENDS Server

MCProcs == Chans \cup {AcceptLoop, Closer}
=============================================================================
