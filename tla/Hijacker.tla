------------------------------ MODULE Hijacker ------------------------------
(***************************************************************************)
(* plugin/hijacker.go: the Hijacker that the plugin's HijackerPool gives   *)
(* to each request of the proxy, as a record and what the methods make of  *)
(* it.                                                                     *)
(*                                                                         *)
(* A decision is what a handler returned: req a HijackedRequest (the super *)
(* proxy and the dialer to use) or Nil, resp a HijackedResponse (its type) *)
(* or Nil.  NoMatch stands for a request that no handler is registered     *)
(* for.  Paths, headers and names are left out: no method looks at them    *)
(* but the router, which is Router.                                        *)
(***************************************************************************)
CONSTANTS
    Nil,
    NoMatch,
    Decisions,          \* what handlers may return, records of req and resp
    DefaultSuperProxy,
    DefaultDial,
    BlockByDefault

ASSUME BlockAssumption == BlockByDefault \in BOOLEAN

\* Get and Init: the hijacker starts afresh, whatever it was used for before.
Init_(isHTTPS) == [https |-> isHTTPS, sslBump |-> FALSE, req |-> Nil, resp |-> Nil]

\* SSLBump remembers the handler's answer.
SSLBump(h, answer) == [h EXCEPT !.sslBump = answer]

\* BeforeRequest: only a request that a handler is registered for replaces the
\* last decision.
BeforeRequest(h, d) ==
    IF d = NoMatch THEN h ELSE [h EXCEPT !.req = d.req, !.resp = d.resp]

\* Resolve asks the SSL handler, for a tunnel that is not decrypted.
Resolve(h, d) ==
    IF h.https /\ ~h.sslBump /\ d # NoMatch THEN [h EXCEPT !.req = d.req] ELSE h

SuperProxy(h) == IF h.req # Nil THEN h.req.proxy ELSE DefaultSuperProxy

Block(h) == IF h.resp # Nil THEN h.resp = "block" ELSE BlockByDefault

HijackResponse(h) == h.resp = "override"

\* Dial and DialTLS; Nil stands for transport.Dial.
Dial(h) == IF h.req # Nil THEN h.req.dial ELSE DefaultDial
=============================================================================
