---------------------------- MODULE MCConnManager ---------------------------
(***************************************************************************)
(* ConnManager on a small instance: ConnManager.cfg has three users for    *)
(* two connections, and a second cleaner goroutine, in case one is         *)
(* launched while the first still runs.                                    *)
(***************************************************************************)
EXTENDS ConnManager
=============================================================================
