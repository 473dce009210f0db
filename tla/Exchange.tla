------------------------------ MODULE Exchange ------------------------------
(***************************************************************************)
(* An exchange on a new connection: the tunnel through a super proxy, if   *)
(* there is one, then the header and the body of a message.  The peer      *)
(* sends a script; the network delivers it in fragments or cuts it short.  *)
(***************************************************************************)
EXTENDS SuperProxy

CONSTANT Scripts   \* what peers send, see IsReply and IsMessage

VARIABLES
    script,    \* [proxy, reply, header, body, next]
    sent,      \* the target has sent its message
    early,     \* it did so before the tunnel was handed out
    cut        \* the connection broke

vars == <<wire, buf, closed, p, open, script, sent, early, cut>>

-----------------------------------------------------------------------------
(* What peers send, by plain definitions over the whole text *)

\* The number that hex digits stand for.
HexValue(digits) ==
    LET value[i \in 0 .. Len(digits)] ==
            IF i = 0 THEN 0 ELSE 16 * value[i - 1] + HexDigits[digits[i]]
    IN  value[Len(digits)]

\* A size line of k digits starts at the i-th byte of s.
SizeLine(s, i, k) ==
    /\ k \in 1 .. MaxHexIntChars /\ i + k + 1 <= Len(s)
    /\ \A j \in i .. i + k - 1 : s[j] \in DOMAIN HexDigits
    /\ s[i + k] = "\r" /\ s[i + k + 1] = "\n"

\* The chunk that starts at i: its size, and where the next one starts.  The two
\* bytes that end a chunk are not looked at.
HasSizeLine(s, i) == \E k \in 1 .. MaxHexIntChars : SizeLine(s, i, k)
SizeDigits(s, i) == CHOOSE k \in 1 .. MaxHexIntChars : SizeLine(s, i, k)
ChunkSize(s, i) == HexValue(SubSeq(s, i, i + SizeDigits(s, i) - 1))
ChunkAfter(s, i) == i + SizeDigits(s, i) + 2 + ChunkSize(s, i) + 2

\* How long a body is whose chunks go on at i: 0 when a size line is malformed or
\* s ends too early.
ChunkedEnds(s) ==
    LET ends[i \in 1 .. Len(s) + 1] ==
            IF ~HasSizeLine(s, i) \/ ChunkAfter(s, i) > Len(s) + 1 THEN 0
            ELSE IF ChunkSize(s, i) = 0 THEN ChunkAfter(s, i) - 1
            ELSE ends[ChunkAfter(s, i)]
    IN  ends

ChunkedLen(s) == ChunkedEnds(s)[1]

\* The script's message: a header up to its first empty line, a body of the type
\* and length the header says, and what comes after it.
Type(s) == ContentLength(s.header)
IsMessage(s) ==
    /\ {s.header, s.body, s.next} \subseteq Seq(Byte)
    /\ s.header # <<>> /\ HeaderLen(s.header) = Len(s.header)
    /\ Type(s) >= 0 => Len(s.body) = Type(s)
    /\ Type(s) = -1 => ChunkedLen(s.body \o s.next) \in {0, Len(s.body)}
    /\ Type(s) = -2 => s.next = <<>> /\ Len(s.body) < MaxInt64

WellFormed(s) == Type(s) = -1 => ChunkedLen(s.body \o s.next) > 0

\* The reader's buffer can hold the header, and every line of an HTTP proxy's
\* answer: a stretch as long as the buffer has a line feed in it.
Fits(s) ==
    /\ Len(s.header) <= BufSize
    /\ s.proxy = "http" =>
          \A i \in 1 .. Len(s.reply) - BufSize + 1 :
             \E j \in i .. i + BufSize - 1 : s.reply[j] = "\n"

\* An HTTP proxy accepts: a line with a 200 and a header.
HTTPGrants(r) ==
    LET line == LineLen(r)
    IN  line > 0 /\ "200" \in Range(SubSeq(r, 1, line)) /\ HeaderLen(From(r, line + 1)) > 0

HTTPReplyLen(r) == LineLen(r) + HeaderLen(From(r, LineLen(r) + 1))

\* A SOCKS5 proxy accepts the method, the password if it asked for one, and the
\* request: the connect reply starts after ReplyAt bytes.
ReplyAt(r) == IF r[2] = "password" THEN 4 ELSE 2
MethodGranted(r) == Len(r) >= 2 /\ r[1] = "5" /\ r[2] # "no method"
LoggedIn(r) == MethodGranted(r) /\ Len(r) >= ReplyAt(r) /\ (r[2] = "password" => r[4] = "ok")
AddressTypes == {"ip4", "ip6", "domain"}

SOCKS5Grants(r) ==
    LET a == ReplyAt(r)
    IN  /\ LoggedIn(r) /\ Len(r) > a + 4 /\ r[a + 2] = "ok" /\ r[a + 4] \in AddressTypes
        /\ r[a + 4] = "ip4" => Len(r) = a + 4 + IPv4len + 2
        /\ r[a + 4] = "ip6" => Len(r) = a + 4 + IPv6len + 2
        /\ r[a + 4] = "domain" =>
              r[a + 5] \in DOMAIN Lengths /\ Len(r) = a + 5 + Lengths[r[a + 5]] + 2

SOCKS5Refuses(r) ==
    LET a == ReplyAt(r)
    IN  \/ Len(r) >= 2 /\ ~MethodGranted(r)
        \/ MethodGranted(r) /\ Len(r) >= a /\ ~LoggedIn(r)
        \/ LoggedIn(r) /\ Len(r) >= a + 4 /\ (r[a + 2] # "ok" \/ r[a + 4] \notin AddressTypes)

Accepts(s) ==
    /\ s.proxy = "http" => HTTPGrants(s.reply)
    /\ s.proxy = "socks5" => SOCKS5Grants(s.reply)

IsReply(s) ==
    /\ s.reply \in Seq(Byte) /\ s.proxy \in {"none", "http", "socks5"}
    /\ s.proxy = "none" => s.reply = <<>>
    /\ s.proxy = "http" /\ Accepts(s) => HTTPReplyLen(s.reply) = Len(s.reply)
    /\ s.proxy = "socks5" => Accepts(s) \/ SOCKS5Refuses(s.reply)

ASSUME ScriptsAssumption == \A s \in Scripts : IsReply(s) /\ IsMessage(s)

-----------------------------------------------------------------------------
(* The exchange *)

Message == script.header \o script.body \o script.next
InTunnel == p.at \in HTTPPhases \cup SOCKS5Phases
Ended == p.at \in {"done", "failed", "aborted", "panicked"}

Init ==
    /\ script \in Scripts
    /\ wire = script.reply /\ buf = <<>> /\ closed = FALSE
    /\ p = StartTunnel(script.proxy) /\ open = TRUE
    /\ sent = FALSE /\ early = FALSE /\ cut = FALSE

\* The target sends its message, if need be before it is asked for anything: as
\* soon as a proxy that accepts has connected to it.
TargetSends ==
    /\ ~sent /\ ~closed /\ Accepts(script)
    /\ sent' = TRUE /\ early' = InTunnel
    /\ wire' = wire \o Message
    /\ UNCHANGED <<buf, closed, p, open, script, cut>>

\* The peer closes when it has sent everything.
PeerCloses ==
    /\ ~closed /\ (sent \/ ~Accepts(script))
    /\ closed' = TRUE
    /\ UNCHANGED <<wire, buf, p, open, script, sent, early, cut>>

\* The connection breaks: what is still on its way is lost from some byte on.
Breaks ==
    /\ ~closed /\ ~Ended
    /\ closed' = TRUE /\ cut' = TRUE
    /\ \E k \in 0 .. Len(wire) : wire' = SubSeq(wire, 1, k)
    /\ UNCHANGED <<buf, p, open, script, sent, early>>

Step ==
    /\ ~Ended
    /\ \/ Fill /\ UNCHANGED open
       \/ FramingNext /\ UNCHANGED open
       \/ TunnelNext
    /\ UNCHANGED <<script, sent, early, cut>>

Next == TargetSends \/ PeerCloses \/ Breaks \/ Step
Spec == Init /\ [][Next]_vars

\* The program's goroutine runs.  No peer is made to send or to close: MakeTunnel
\* arms no read deadline and ReadTimeout is unlimited by default.
FairSpec == Spec /\ WF_vars(Step)

-----------------------------------------------------------------------------
(* Properties *)

\* The pooled reader of an HTTP proxy's answer may have taken what a target says
\* early with it: nothing is claimed of the message then.
Robbed == script.proxy = "http" /\ early

\* However the stream is cut into fragments, a message that is taken for whole
\* was passed on byte for byte and what follows it is left for the next one;
\* only a body of type identity may miss its end.  A parser fails on a message
\* only when the connection broke, the proxy refused, the message is malformed
\* or a header is larger than the reader's buffer, and panics only on a chunk
\* size with the byte 0xFF in it (ParseHeaderFields, Body.Parse, ReadHexInt).
MessageFramed == ~Robbed =>
    /\ p.at = "done" =>
          IF p.type = -2
          THEN IsPrefix(p.out, script.body) /\ (p.out = script.body \/ cut)
          ELSE p.out = script.body /\ IsPrefix(buf \o wire, script.next)
    /\ p.at = "failed" => cut \/ ~Accepts(script) \/ ~WellFormed(script) \/ ~Fits(script)
    /\ p.at = "panicked" =>
          ~WellFormed(script) /\ "0xFF" \in Range(script.body \o script.next)

\* A tunnel is handed out only when the proxy accepted, and then the next byte
\* of the connection is the first of the target's, when the proxy is a SOCKS5
\* proxy whatever the target does, and when it is an HTTP proxy if the target
\* waits for the tunnel (MakeTunnel; the lengths that connectSOCKS5Proxy computes
\* for the address it discards; the line that ends readHTTPProxyResp).
TunnelAligned ==
    /\ ~InTunnel /\ p.at \notin {"failed", "aborted"} => Accepts(script)
    /\ p.at = "header" /\ ~Robbed => IsPrefix(buf \o wire, Message)

\* The goroutine waits for bytes that the peer has not sent.
Starved ==
    /\ ~closed
    /\ IF p.at \in SOCKS5Phases THEN Len(wire) < ReadLen
       ELSE Len(buf) < p.n /\ wire = <<>>

\* Every exchange ends or waits for a silent peer, and it ends once the peer has
\* closed: a parser that needs more asks for more than it has, and fails when it
\* can hold no more (ParseHeaderFields, readHTTPProxyResp).
ExchangeEnds == <>[](Ended \/ Starved)
=============================================================================
