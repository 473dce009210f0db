---------------------------- MODULE MCProxyConn ----------------------------
(***************************************************************************)
(* ProxyConn on a small instance.  The handlers block a request, send it   *)
(* through the super proxy, or answer it themselves; a request no handler  *)
(* is registered for keeps the hijacker's last decision.                   *)
(***************************************************************************)
EXTENDS ProxyConn, TLC

CONSTANTS s1, d1

MCDecisions == {[req |-> [proxy |-> s1, dial |-> Nil], resp |-> "block"],
                [req |-> [proxy |-> s1, dial |-> d1], resp |-> "inspect"],
                [req |-> [proxy |-> Nil, dial |-> Nil], resp |-> "override"]}

Symmetry == Permutations(Conns)
=============================================================================
