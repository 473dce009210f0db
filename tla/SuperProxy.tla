----------------------------- MODULE SuperProxy -----------------------------
(***************************************************************************)
(* The tunnel through a super proxy: MakeTunnel of                         *)
(* superproxy/superproxy.go with the handshakes of http.go and socks.go.   *)
(*                                                                         *)
(* An HTTP proxy's answer is read through a pooled bufio.Reader, which is  *)
(* released when the handshake is over; a SOCKS5 proxy's answers are read  *)
(* from the connection, byte for byte.  What the handshake writes is left  *)
(* out: a write fails or it does not.                                      *)
(***************************************************************************)
EXTENDS Framing

CONSTANTS IPv4len, IPv6len   \* bytes of an address in a SOCKS5 reply

ASSUME AddressAssumption == IPv4len \in Nat /\ IPv6len \in Nat

VARIABLE open   \* the connection to the proxy is open at this end

HTTPPhases == {"http start line", "http header"}
SOCKS5Phases == {"greeting", "auth", "reply", "domain", "address", "port"}

StartTunnel(kind) ==
    CASE kind = "none"   -> StartHeader
      [] kind = "http"   -> [StartHeader EXCEPT !.at = "http start line"]
      [] kind = "socks5" -> [StartHeader EXCEPT !.at = "greeting", !.n = 0]

\* MakeTunnel returns the connection; who reads it next has a reader of its own.
Established == p' = StartHeader

\* MakeTunnel returns an error.  The paths of SOCKS5 leave the connection open.
TunnelEnds(how) ==
    /\ p' = [p EXCEPT !.at = how]
    /\ open' = (p.at \in SOCKS5Phases)

TunnelFails == TunnelEnds("failed")

\* readHTTPProxyResp reads a line of the answer; the empty one ends it, and
\* what the released reader holds beyond it is gone.
HTTPLine ==
    LET len == LineLen(buf)
        line == SubSeq(buf, 1, len)
    IN  /\ p.at \in HTTPPhases /\ Peeked /\ len > 0
        /\ \/ /\ p.at = "http start line" /\ "200" \in Range(line)
              /\ p' = [p EXCEPT !.at = "http header", !.n = 1]
              /\ buf' = From(buf, len + 1)
              /\ UNCHANGED <<wire, closed, open>>
           \/ /\ p.at = "http start line" /\ "200" \notin Range(line)
              /\ TunnelFails /\ buf' = <<>> /\ UNCHANGED <<wire, closed>>
           \/ /\ p.at = "http header" /\ ~IsEmptyLine(line)
              /\ buf' = From(buf, len + 1)
              /\ p' = [p EXCEPT !.n = 1] /\ UNCHANGED <<wire, closed, open>>
           \/ /\ p.at = "http header" /\ IsEmptyLine(line)
              /\ Established /\ buf' = <<>> /\ UNCHANGED <<wire, closed, open>>

HTTPNeedMore ==
    /\ p.at \in HTTPPhases /\ Peeked /\ LineLen(buf) = 0 /\ ~BufferFull
    /\ p' = [p EXCEPT !.n = Len(buf) + 1]
    /\ UNCHANGED <<wire, buf, closed, open>>

\* The write of the request fails, the answer ends early, or a line of it is
\* longer than the reader's buffer.
HTTPFails ==
    /\ p.at \in HTTPPhases
    /\ \/ PeekEOF /\ TunnelFails
       \/ Peeked /\ LineLen(buf) = 0 /\ BufferFull /\ TunnelFails
       \/ p.at = "http start line" /\ buf = <<>> /\ TunnelEnds("aborted")
    /\ UNCHANGED <<wire, buf, closed>>

\* A bug: a domain's length is taken for the length of the rest of the reply.
ReadLenWithoutPort ==
    CASE p.at = "greeting" -> 2  [] p.at = "auth" -> 2  [] p.at = "reply" -> 4
      [] p.at = "domain" -> 1    [] p.at = "address" -> p.left  [] p.at = "port" -> 0

\* How many bytes the handshake reads next; p.left is the length of the address.
ReadLen ==
    CASE p.at = "greeting" -> 2  [] p.at = "auth" -> 2  [] p.at = "reply" -> 4
      [] p.at = "domain" -> 1    [] p.at = "address" -> p.left  [] p.at = "port" -> 2

To(at) == p' = [p EXCEPT !.at = at] /\ UNCHANGED open
ToAddress(len) == p' = [p EXCEPT !.at = "address", !.left = len] /\ UNCHANGED open

\* connectSOCKS5Proxy reads the next part of the proxy's answers.
SOCKS5Read ==
    LET b == SubSeq(wire, 1, ReadLen)
    IN  /\ p.at \in SOCKS5Phases /\ ReadFull(ReadLen)
        /\ \/ p.at = "greeting" /\ (b[1] # "5" \/ b[2] = "no method") /\ TunnelFails
           \/ p.at = "greeting" /\ b[1] = "5" /\ b[2] = "password" /\ To("auth")
           \/ p.at = "greeting" /\ b[1] = "5" /\ b[2] \notin {"password", "no method"} /\ To("reply")
           \/ p.at = "auth" /\ IF b[2] = "ok" THEN To("reply") ELSE TunnelFails
           \/ p.at = "reply" /\ b[2] # "ok" /\ TunnelFails
           \/ p.at = "reply" /\ b[2] = "ok" /\ b[4] = "ip4" /\ ToAddress(IPv4len)
           \/ p.at = "reply" /\ b[2] = "ok" /\ b[4] = "ip6" /\ ToAddress(IPv6len)
           \/ p.at = "reply" /\ b[2] = "ok" /\ b[4] = "domain" /\ To("domain")
           \/ p.at = "reply" /\ b[2] = "ok" /\ b[4] \notin {"ip4", "ip6", "domain"} /\ TunnelFails
           \/ p.at = "domain" /\ ToAddress(Lengths[b[1]])
           \/ p.at = "address" /\ To("port")
           \/ p.at = "port" /\ Established /\ UNCHANGED open

\* A malformed target, a failed write, or the end of the proxy's answers.
SOCKS5Fails ==
    /\ p.at \in SOCKS5Phases
    /\ \/ ReadFullEOF(ReadLen) /\ TunnelFails
       \/ /\ p.at \in {"greeting", "auth", "reply"} /\ TunnelEnds("aborted")
          /\ UNCHANGED <<wire, buf, closed>>

TunnelNext == HTTPLine \/ HTTPNeedMore \/ HTTPFails \/ SOCKS5Read \/ SOCKS5Fails
=============================================================================
