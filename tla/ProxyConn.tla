----------------------------- MODULE ProxyConn -----------------------------
(***************************************************************************)
(* proxy/proxy.go, proxy/client.go, client/client.go: the goroutine that   *)
(* serves one client connection (serveConn, do, proxyHTTP, decryptHTTPS,   *)
(* tunnelHTTPS), over what all of them share: the client's dialer, its     *)
(* table of host clients and the super proxies' tokens.                    *)
(*                                                                         *)
(* wire is what the client has sent and the proxy has not consumed: for    *)
(* each request its "line", its "head" and, for some, its "body".  The     *)
(* first buf of them are in the bufio.Reader.  A read of what is not there *)
(* waits; the client may close or break its connection instead.  Any write *)
(* to the client may fail.                                                 *)
(*                                                                         *)
(* Of HostClient.Do there are the attempts that read the request from the  *)
(* client, and the return (the rest is HostClient); DoRaw is one step, and *)
(* so is copying a response.  Time is left out of mCleaner: a host client  *)
(* may be old enough at any moment, as a new one is, whose lastUseTime is  *)
(* 0.                                                                      *)
(*                                                                         *)
(* The pooled Request objects are left out: what the goroutine does to one *)
(* that an idle timeout left it with is a data race, and a parse that      *)
(* fails because of it is among the failures of ParseFails.                *)
(***************************************************************************)
EXTENDS Hijacker, Naturals, Sequences, FiniteSets

CONSTANTS
    Conns,
    Hosts,
    SuperProxies,
    MaxConcurrency, \* tokens of a super proxy
    HasHijacker,    \* p.HijackerPool is set
    Methods,        \* of "get" (GET and HEAD) and "post" (any other but CONNECT)
    MaxWire         \* bound: how many items the client may have outstanding

ASSUME TokensAssumption == MaxConcurrency \in Nat \ {0}
ASSUME ConnsAssumption == IsFiniteSet(Conns)

VARIABLES
    conn,      \* the goroutine of each connection
    tokens,    \* concurrencyChan of each super proxy
    dial,      \* p.client.Dial and p.client.DialTLS
    table,     \* hostClients and hostTLSClients: the dialer of each host client
    cleaners   \* running mCleaner goroutines of each table

shared == <<tokens, dial, table, cleaners>>
vars == <<conn, shared>>

Keys == Hosts \cup SuperProxies
NoClient == "none"
Dialers == {Nil, DefaultDial} \cup {d.req.dial : d \in {x \in Decisions : x.req # Nil}}

Idle == [pc |-> "closed", kind |-> "get", wire |-> <<>>, buf |-> 0, h |-> Nil,
         call |-> "none", host |-> Nil, proxy |-> Nil, err |-> "nil", via |-> Nil,
         peeked |-> FALSE, lingers |-> FALSE]

\* The hijackers, as Get and the handlers leave them.
HijackerStates == [https : BOOLEAN, sslBump : BOOLEAN, req : {Nil} \cup {d.req : d \in Decisions},
                   resp : {Nil} \cup {d.resp : d \in Decisions}]

ASSUME MethodsAssumption == Methods \subseteq {"get", "post"}
ASSUME NilAssumption == Nil \notin HijackerStates /\ NoClient \notin Dialers
ASSUME SuperProxiesAssumption ==
    /\ Nil \notin SuperProxies
    /\ DefaultSuperProxy \in SuperProxies \cup {Nil}
    /\ \A d \in Decisions : d.req # Nil => d.req.proxy \in SuperProxies \cup {Nil}

PCTypeOK ==
    /\ \A c \in Conns :
        /\ conn[c].pc \in {"closed", "parse", "do", "connect", "mitm", "bump", "prepare",
                           "reparse", "super", "token", "block", "dialer", "table",
                           "launch", "doing", "sent", "fake", "finish", "return"}
        /\ conn[c].kind \in {"get", "post", "connect"}
        /\ conn[c].wire \in Seq({"line", "head", "body"})
        /\ conn[c].buf \in 0 .. Len(conn[c].wire)
        /\ conn[c].h \in HijackerStates \cup {Nil}
        /\ conn[c].host \in Hosts \cup {Nil}
        /\ conn[c].proxy \in SuperProxies \cup {Nil}
        /\ conn[c].err \in {"nil", "eof", "err"}
        /\ conn[c].via \in Dialers
    /\ tokens \in [SuperProxies -> 0 .. MaxConcurrency]
    /\ dial \in Dialers
    /\ table \in [BOOLEAN -> [Keys -> Dialers \cup {NoClient}]]
    /\ cleaners \in [BOOLEAN -> Nat]

PCInit ==
    /\ conn = [c \in Conns |-> Idle]
    /\ tokens = [s \in SuperProxies |-> MaxConcurrency]
    /\ dial = Nil
    /\ table = [tls \in BOOLEAN |-> [k \in Keys |-> NoClient]]
    /\ cleaners = [tls \in BOOLEAN |-> 0]

-----------------------------------------------------------------------------
\* The client, and a goroutine that was left behind.

\* A request is sent.  What comes in the middle of an earlier request is as if it
\* had come before it and not been buffered.
Send(c, request) ==
    /\ conn[c].pc \in {"parse", "bump"}
    /\ Len(conn[c].wire) + Len(request) <= MaxWire
    /\ conn' = [conn EXCEPT ![c].wire = @ \o request]
    /\ UNCHANGED shared

\* DoRaw has returned, but its goroutine that reads from the client takes what
\* comes next, fails to write it to the connection DoRaw closed, and ends.
Steal(c) ==
    LET r == conn[c] IN
    /\ r.lingers /\ Len(r.wire) > r.buf
    /\ conn' = [conn EXCEPT ![c].wire = SubSeq(@, 1, r.buf) \o SubSeq(@, r.buf + 2, Len(@)),
                            ![c].lingers = FALSE]
    /\ UNCHANGED shared

\* How much the reader may hold once n items are in it: it reads only when it
\* has less, and then what there is.
Filled(r, n) == IF r.buf >= n THEN {r.buf} ELSE n .. Len(r.wire)

\* n items are read, and the reader holds b of what is left.
Read(r, n, b) == [r EXCEPT !.wire = SubSeq(@, n + 1, Len(@)), !.buf = b - n]

\* r goes on at pc.
At(r, pc) == [r EXCEPT !.pc = pc]

\* do returns e: of the request nothing is left but what its reader holds.
Return(r, e) == [Idle EXCEPT !.pc = "return", !.err = e, !.call = r.call,
                             !.wire = r.wire, !.buf = r.buf, !.lingers = r.lingers]

\* The hijacker of r, if there is one, is called.
Called(r, name) == IF r.h = Nil THEN r ELSE [r EXCEPT !.call = name]

-----------------------------------------------------------------------------
\* serveConn begins.
Accept(c) ==
    /\ conn[c].pc = "closed"
    /\ conn' = [conn EXCEPT ![c] = [Idle EXCEPT !.pc = "parse"]]
    /\ UNCHANGED shared

\* serveConn returns, and the worker closes the connection: before a request when
\* the deadline cannot be set, the start line does not come in time, cannot be
\* read or is malformed, or the host is missing and the client is told so.
ParseFails(c) ==
    /\ conn[c].pc = "parse"
    /\ conn' = [conn EXCEPT ![c] = Idle]
    /\ UNCHANGED shared

\* serveConn: parseStartLine.  What is not a start line may still parse as one.
ParseStartLine(c, kind, host) ==
    LET r == conn[c] IN
    /\ r.pc = "parse"
    /\ r.wire # <<>>
    /\ \E b \in Filled(r, 1) :
        conn' = [conn EXCEPT ![c] =
                    [At(Read(r, 1, b), "do") EXCEPT !.kind = kind, !.host = host]]
    /\ UNCHANGED shared

\* do: a hijacker is taken, and may refuse the host with a 502.
Do(c) ==
    LET r == conn[c]
        g == [r EXCEPT !.h = Init_(r.kind = "connect"), !.call = "RewriteHost"]
    IN
    /\ r.pc = "do"
    /\ \/ /\ conn' = [conn EXCEPT ![c] =
                        At(IF HasHijacker THEN g ELSE r,
                           IF r.kind = "connect" THEN "connect" ELSE "prepare")]
       \/ /\ HasHijacker
          /\ \E e \in {"eof", "err"} : conn' = [conn EXCEPT ![c] = Return(g, e)]
    /\ UNCHANGED shared

\* do: the header of a CONNECT is peeked at, OnConnect may decline, and the
\* header is discarded.
Connect(c) ==
    LET r == conn[c] IN
    /\ r.pc = "connect"
    /\ \/ conn' = [conn EXCEPT ![c] = Return(r, "err")]
       \/ /\ r.wire # <<>>
          /\ \E b \in Filled(r, 1) :
             LET p == Read(r, 1, b) IN
             \/ /\ r.h # Nil
                /\ \E e \in {"eof", "err"} :
                    conn' = [conn EXCEPT ![c] = Return(Called([r EXCEPT !.buf = b], "OnConnect"), e)]
             \/ conn' = [conn EXCEPT ![c] = At(Called(p, "SSLBump"), "super")]
             \/ /\ r.h # Nil
                /\ conn' = [conn EXCEPT ![c] =
                    At(Called([p EXCEPT !.h = SSLBump(@, TRUE)], "SSLBump"), "mitm")]
    /\ UNCHANGED shared

\* decryptHTTPS: the handshake, after which the client speaks inside TLS and to
\* another reader.
HijackTLS(c) ==
    /\ conn[c].pc = "mitm"
    /\ \/ conn' = [conn EXCEPT ![c] = Return(@, "err")]
       \/ conn' = [conn EXCEPT ![c] =
            At(Called([@ EXCEPT !.wire = <<>>, !.buf = 0], "RewriteTLSServerName"), "bump")]
    /\ UNCHANGED shared

\* decryptHTTPS: the loop over the decrypted requests.  Its reader is not reset.
BumpParse(c, kind) ==
    LET r == conn[c] IN
    /\ r.pc = "bump"
    /\ \/ /\ r.wire # <<>>
          /\ \E b \in Filled(r, 1) :
              conn' = [conn EXCEPT ![c] = [At(Read(r, 1, b), "prepare") EXCEPT !.kind = kind]]
       \/ \E e \in {"eof", "err"} : conn' = [conn EXCEPT ![c] = Return(r, e)]
    /\ UNCHANGED shared

-----------------------------------------------------------------------------
\* PrePare: the header is peeked at, and the hijacker decides on the request.
PrePare(c) ==
    LET r == conn[c] IN
    /\ r.pc = "prepare"
    /\ \/ conn' = [conn EXCEPT ![c] = Return(r, "err")]
       \/ /\ r.wire # <<>>
          /\ \E b \in Filled(r, 1), d \in Decisions \cup {NoMatch} :
             LET p == [r EXCEPT !.buf = b, !.peeked = TRUE] IN
             conn' = [conn EXCEPT ![c] =
                IF r.h = Nil THEN At(p, "super")
                ELSE At(Called([p EXCEPT !.h = BeforeRequest(@, d)], "BeforeRequest"),
                        "reparse")]
    /\ UNCHANGED shared

\* A bug: AfterResponse is called only for a request that was prepared.
ReparseUnpaired(c) ==
    /\ conn[c].pc = "reparse"
    /\ \/ conn' = [conn EXCEPT ![c] = At(@, "super")]
       \/ conn' = [conn EXCEPT ![c] = Return(@, "err")]
    /\ UNCHANGED shared

\* PrePare: the header the hijacker gave is parsed; proxyHTTP calls AfterResponse
\* when that fails.
Reparse(c) ==
    /\ conn[c].pc = "reparse"
    /\ \/ conn' = [conn EXCEPT ![c] = At(@, "super")]
       \/ conn' = [conn EXCEPT ![c] = Return(Called(@, "AfterResponse"), "err")]
    /\ UNCHANGED shared

\* A tunnel's calls are told apart from a request's.
TunnelCall == [SuperProxy |-> "TunnelSuperProxy", Block |-> "TunnelBlock", Dial |-> "TunnelDial"]
CallIn(r, name) == Called(r, IF r.kind = "connect" THEN TunnelCall[name] ELSE name)

\* makeDNSLookUpAndSetSuperProxy.
SetSuperProxy(c) ==
    LET r == conn[c] IN
    /\ r.pc = "super"
    /\ \E d \in Decisions \cup {NoMatch} :
       LET h == IF r.h = Nil THEN Nil ELSE Resolve(r.h, d)
           s == IF h = Nil THEN DefaultSuperProxy ELSE SuperProxy(h)
       IN conn' = [conn EXCEPT ![c] =
            At(CallIn([r EXCEPT !.h = h, !.proxy = s], "SuperProxy"),
               IF s = Nil THEN "block" ELSE "token")]
    /\ UNCHANGED shared

AcquireToken(c) ==
    LET r == conn[c] IN
    /\ r.pc = "token"
    /\ tokens[r.proxy] > 0
    /\ tokens' = [tokens EXCEPT ![r.proxy] = @ - 1]
    /\ conn' = [conn EXCEPT ![c] = At(r, "block")]
    /\ UNCHANGED <<dial, table, cleaners>>

\* proxyHTTP, tunnelHTTPS: the request may be blocked with a 502, and a request
\* (no tunnel) answered by the hijacker.
BlockOrHijack(c) ==
    LET r == conn[c] IN
    /\ r.pc = "block"
    /\ \/ /\ r.h # Nil /\ Block(r.h)
          /\ \E e \in {"nil", "err"} :
                conn' = [conn EXCEPT ![c] = [At(CallIn(r, "Block"), "finish") EXCEPT !.err = e]]
       \/ /\ ~(r.h # Nil /\ Block(r.h))
          /\ conn' = [conn EXCEPT ![c] =
                IF r.kind = "connect" THEN At(CallIn(r, "Block"), "dialer")
                ELSE At(Called(r, "HijackResponse"),
                        IF r.h # Nil /\ HijackResponse(r.h) THEN "fake" ELSE "dialer")]
    /\ UNCHANGED shared

\* The items of this request that are still on the wire once its line is read.
OwnItems(r) == IF Len(r.wire) >= 2 /\ r.wire[2] = "body" THEN 2 ELSE 1

\* DoFake: the request is read to its end, then the hijacker's response copied.
DoFake(c) ==
    LET r == conn[c]
        n == OwnItems(r)
    IN
    /\ r.pc = "fake"
    /\ \/ \E b \in Filled(r, n) :
            conn' = [conn EXCEPT ![c] = [At(Called(Read(r, n, b), "OnResponse"), "finish")
                                            EXCEPT !.err = "nil", !.peeked = FALSE]]
       \/ \E e \in {"eof", "err"} :
            conn' = [conn EXCEPT ![c] = [At(Called(r, "OnRequest"), "finish") EXCEPT !.err = e]]
    /\ UNCHANGED shared

\* setClientDialer writes the client that all connections share.
SetClientDialer(c) ==
    LET r == conn[c] IN
    /\ r.pc = "dialer"
    /\ dial' = IF r.h = Nil THEN DefaultDial ELSE Dial(r.h)
    /\ conn' = [conn EXCEPT ![c] = At(CallIn(r, "Dial"), "table")]
    /\ UNCHANGED <<tokens, table, cleaners>>

-----------------------------------------------------------------------------
\* getHostClient: which of the two tables, and under which host.
IsTLS(r) == r.h # Nil /\ r.h.sslBump
TableOf(r) == IF r.proxy = Nil THEN IsTLS(r) ELSE FALSE
KeyOf(r) == IF r.proxy = Nil THEN r.host ELSE r.proxy
Clients(tls) == {k \in Keys : table[tls][k] # NoClient}

\* getHostClient: the host client keeps the dialer it was made with.  The first
\* one of a table starts the cleaner, once the lock is given up.
GetHostClient(c) ==
    LET r == conn[c]
        t == TableOf(r)
        k == KeyOf(r)
    IN
    /\ r.pc = "table"
    /\ IF k \in Clients(t)
       THEN /\ conn' = [conn EXCEPT ![c] = [At(r, "doing") EXCEPT !.via = table[t][k]]]
            /\ UNCHANGED table
       ELSE /\ table' = [table EXCEPT ![t][k] = dial]
            /\ conn' = [conn EXCEPT ![c] =
                 [At(r, IF Clients(t) = {} THEN "launch" ELSE "doing") EXCEPT !.via = dial]]
    /\ UNCHANGED <<tokens, dial, cleaners>>

LaunchCleaner(c) ==
    /\ conn[c].pc = "launch"
    /\ cleaners' = [cleaners EXCEPT ![TableOf(conn[c])] = @ + 1]
    /\ conn' = [conn EXCEPT ![c] = At(@, "doing")]
    /\ UNCHANGED <<tokens, dial, table>>

\* A bug: the goroutine goes on over an empty table, which the next client starts
\* another one for.
MCleanerRunsOn(tls, old) ==
    /\ cleaners[tls] > 0
    /\ table' = [table EXCEPT ![tls] = [k \in Keys |-> IF k \in old THEN NoClient ELSE @[k]]]
    /\ UNCHANGED <<conn, tokens, dial, cleaners>>

\* mCleaner: a pass under the lock removes the clients that are old, and the
\* goroutine ends when none is left.
MCleaner(tls, old) ==
    /\ cleaners[tls] > 0
    /\ table' = [table EXCEPT ![tls] = [k \in Keys |-> IF k \in old THEN NoClient ELSE @[k]]]
    /\ cleaners' = [cleaners EXCEPT ![tls] = IF Clients(tls) \subseteq old THEN @ - 1 ELSE @]
    /\ UNCHANGED <<conn, tokens, dial>>

\* HostClient.Do: the first attempt that gets a connection reads the request from
\* the client, but not the body of a GET or HEAD.  WriteHeaderTo calls OnRequest and
\* discards the header.
SendRequest(c) ==
    LET r == conn[c]
        own == IF r.kind = "get" THEN 1 ELSE OwnItems(r)
    IN
    /\ r.pc = "doing" /\ r.kind # "connect"
    /\ \E b \in Filled(r, own) :
        conn' = [conn EXCEPT ![c] = [At(Called(Read(r, own, b), "OnRequest"), "sent")
                                        EXCEPT !.peeked = FALSE]]
    /\ UNCHANGED shared

\* HostClient.Do tries again, after io.EOF from the host.  A GET or HEAD is sent from
\* the cache; another method is read from the client once more: OnRequest is called
\* again, and what was sent behind the request is taken for it, as far as it goes.
SendAgain(c) ==
    LET r == conn[c] IN
    /\ r.pc = "sent" /\ r.kind = "post"
    /\ \E n \in 0 .. Len(r.wire) : \E b \in Filled(r, n) :
        conn' = [conn EXCEPT ![c] = At(Called(Read(r, n, b), "OnRequestAgain"), "sent")]
    /\ UNCHANGED shared

\* HostClient.Do returns: the response was copied; or an attempt failed, before the
\* request was read, after it, or after the response had begun.
DoReturns(c) ==
    LET r == conn[c] IN
    /\ r.kind # "connect"
    /\ \E name \in {r.call, "OnResponse"}, e \in {"nil", "err"} :
        /\ r.pc = "sent" \/ (r.pc = "doing" /\ name = r.call /\ e = "err")
        /\ e = "nil" => name = "OnResponse"
        /\ conn' = [conn EXCEPT ![c] = [At(Called(r, name), "finish") EXCEPT !.err = e]]
    /\ UNCHANGED shared

\* HostClient.DoRaw returns, when one direction of the tunnel has ended: the
\* other goroutine may still read from the client.
DoRawReturns(c) ==
    /\ conn[c].pc = "doing" /\ conn[c].kind = "connect"
    /\ \E e \in {"nil", "eof", "err"}, left \in BOOLEAN :
        conn' = [conn EXCEPT ![c] = [At(@, "finish") EXCEPT !.err = e, !.lingers = left]]
    /\ UNCHANGED shared

-----------------------------------------------------------------------------
\* A bug: a blocked request pushes its token back itself, and the deferred call
\* pushes it back again.
FinishBlockedTwice(c) ==
    LET r == conn[c]
        after == IF r.kind = "connect" THEN r ELSE Called(r, "AfterResponse")
        pushes == IF r.call \in {"Block", "TunnelBlock"} THEN 2 ELSE 1
    IN
    /\ r.pc = "finish"
    /\ conn' = [conn EXCEPT ![c] =
            IF IsTLS(r) /\ r.err = "nil"
            THEN [At(after, "bump") EXCEPT !.proxy = Nil, !.via = Nil, !.kind = "get"]
            ELSE Return(after, r.err)]
    /\ tokens' = [s \in SuperProxies |-> tokens[s] + (IF s = r.proxy THEN pushes ELSE 0)]
    /\ UNCHANGED <<dial, table, cleaners>>

\* A bug: PushBackToken is deferred behind the return of a blocked request.
FinishBlockedKeepsToken(c) ==
    LET r == conn[c]
        after == IF r.kind = "connect" THEN r ELSE Called(r, "AfterResponse")
    IN
    /\ r.pc = "finish"
    /\ conn' = [conn EXCEPT ![c] =
            IF IsTLS(r) /\ r.err = "nil"
            THEN [At(after, "bump") EXCEPT !.proxy = Nil, !.via = Nil, !.kind = "get"]
            ELSE Return(after, r.err)]
    /\ tokens' = [s \in SuperProxies |->
            tokens[s] + (IF s = r.proxy /\ r.call # "Block" THEN 1 ELSE 0)]
    /\ UNCHANGED <<dial, table, cleaners>>

\* proxyHTTP and tunnelHTTPS return: AfterResponse (a request's), then
\* PushBackToken.  A decrypted connection goes on unless there was an error.
Finish(c) ==
    LET r == conn[c]
        after == IF r.kind = "connect" THEN r ELSE Called(r, "AfterResponse")
    IN
    /\ r.pc = "finish"
    /\ conn' = [conn EXCEPT ![c] =
            IF IsTLS(r) /\ r.err = "nil"
            THEN [At(after, "bump") EXCEPT !.proxy = Nil, !.via = Nil, !.kind = "get"]
            ELSE Return(after, r.err)]
    /\ tokens' = [s \in SuperProxies |-> tokens[s] + (IF s = r.proxy THEN 1 ELSE 0)]
    /\ UNCHANGED <<dial, table, cleaners>>

\* serveConn: the hijacker goes back, and the loop ends on an error or when the
\* header said so.
Leave(c) ==
    /\ conn[c].pc = "return"
    /\ conn' = [conn EXCEPT ![c] = Idle]
    /\ UNCHANGED shared

\* serveConn: the request and the reader are reset for the next one: what the
\* reader held is gone.
KeepAlive(c) ==
    LET r == conn[c] IN
    /\ r.pc = "return"
    /\ r.err = "nil"
    /\ conn' = [conn EXCEPT ![c] =
        [Idle EXCEPT !.pc = "parse", !.lingers = r.lingers,
                     !.wire = SubSeq(r.wire, r.buf + 1, Len(r.wire))]]
    /\ UNCHANGED shared

-----------------------------------------------------------------------------
\* The steps of a request that has begun.
RequestStep(c) ==
    \/ Do(c) \/ Connect(c) \/ HijackTLS(c) \/ PrePare(c) \/ Reparse(c)
    \/ SetSuperProxy(c) \/ BlockOrHijack(c) \/ DoFake(c) \/ SetClientDialer(c)
    \/ GetHostClient(c) \/ LaunchCleaner(c) \/ SendRequest(c) \/ SendAgain(c)
    \/ DoReturns(c) \/ DoRawReturns(c) \/ Finish(c) \/ Leave(c) \/ KeepAlive(c)

Requests == {<<"line", "head">>, <<"line", "head", "body">>}

Next ==
    \/ \E c \in Conns : RequestStep(c) \/ AcquireToken(c)
    \/ \E c \in Conns, request \in Requests : Send(c, request)
    \/ \E c \in Conns : Accept(c) \/ Steal(c) \/ ParseFails(c)
    \/ \E c \in Conns, kind \in Methods \cup {"connect"}, host \in Hosts :
            ParseStartLine(c, kind, host)
    \/ \E c \in Conns, kind \in Methods : BumpParse(c, kind)
    \/ \E tls \in BOOLEAN : \E old \in SUBSET Clients(tls) : MCleaner(tls, old)

Spec == PCInit /\ [][Next]_vars

-----------------------------------------------------------------------------
\* Every super proxy token is in its channel or with one request that goes
\* through that proxy, whatever way requests end.
TokensConserved ==
    \A s \in SuperProxies :
        tokens[s] + Cardinality({c \in Conns : /\ conn[c].proxy = s
                                                /\ conn[c].pc # "token"}) = MaxConcurrency

\* A table of host clients that has an entry has one cleaner, running or about
\* to be launched, and never two.
OneTableCleaner ==
    \A tls \in BOOLEAN :
        cleaners[tls] + Cardinality({c \in Conns : conn[c].pc = "launch" /\ TableOf(conn[c]) = tls})
            = IF Clients(tls) = {} THEN 0 ELSE 1

\* The calls to a hijacker follow the chain that the interface documents, but that a
\* request sent again calls OnRequest again; and each BeforeRequest is paired with an
\* AfterResponse on every path.
Chain == INSTANCE HijackerChain WITH call <- [c \in Conns |-> conn[c].call]
CallsFollowChain == Chain!ChainSpec

\* client.go:261: "the header only peeks for parsing in `PrePare`, discard it
\* after using": no start line is parsed behind a header that was peeked at and
\* not discarded.
HeaderDiscarded ==
    \A c \in Conns : conn[c].pc \in {"parse", "bump"} => ~conn[c].peeked

\* hijacker.go:55: "Dial called every TCP connection made to addr, default dialer
\* is used when nil func returned": a request is made with its own dialer.
OwnDialer ==
    \A c \in Conns :
        conn[c].pc = "doing"
            => conn[c].via = (IF conn[c].h = Nil THEN DefaultDial ELSE Dial(conn[c].h))
=============================================================================
