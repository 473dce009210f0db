--------------------------- MODULE HijackerChain ---------------------------
(***************************************************************************)
(* proxy/hijacker.go: what the proxy promises to a Hijacker, as the        *)
(* comment on the interface states it: the order of the calls, and that    *)
(* every BeforeRequest is followed by its AfterResponse, before the next   *)
(* request and before the hijacker goes back to its pool.  One thing is    *)
(* not in that comment: a request that is no GET or HEAD and is made again *)
(* is shown to the hijacker again, so that OnRequest may be repeated.      *)
(*                                                                         *)
(* call[c] is the last call made to the hijacker of connection c, "none"   *)
(* when c has no hijacker.  A step that goes further along a chain than    *)
(* one call leaves out, or takes together, the calls between.              *)
(***************************************************************************)
EXTENDS Naturals, Sequences

CONSTANT Conns

VARIABLE call

\* Once for a connection, or for a request that is not on a tunnel.
Opening == <<"RewriteHost", "OnConnect", "SSLBump", "RewriteTLSServerName">>

\* The chain in square brackets: once for each request.
Request == <<"BeforeRequest", "SuperProxy", "Block", "HijackResponse", "Dial",
             "OnRequest", "OnResponse", "AfterResponse">>

\* A tunnel that is not decrypted: the same calls, with no AfterResponse due.
Tunnel == <<"SSLBump", "TunnelSuperProxy", "TunnelBlock", "TunnelDial">>

Chains == {Opening, Request, Tunnel}

In(a, s) == \E i \in 1 .. Len(s) : s[i] = a

\* b may be the next call after a.  In the middle of a request only a later call
\* of the same request is.
Follows(a, b) ==
    \/ a = "none" /\ b = "RewriteHost"
    \/ \E s \in Chains : \E i, j \in 1 .. Len(s) : i < j /\ s[i] = a /\ s[j] = b
    \/ a = "OnRequest" /\ b = "OnRequestAgain"
    \/ a = "OnRequestAgain" /\ b \in {"OnResponse", "AfterResponse"}
    \/ (In(a, Opening) \/ a = "AfterResponse") /\ b = "BeforeRequest"
    \/ (In(a, Opening) \/ In(a, Tunnel) \/ a = "AfterResponse") /\ b = "none"

ChainInit == call = [c \in Conns |-> "none"]

Call(c) ==
    /\ Follows(call[c], call'[c])
    /\ \A x \in Conns \ {c} : call'[x] = call[x]

ChainSpec == ChainInit /\ [][\E c \in Conns : Call(c)]_call
=============================================================================
