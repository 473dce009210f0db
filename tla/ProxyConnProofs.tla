-------------------------- MODULE ProxyConnProofs --------------------------
(***************************************************************************)
(* TokensConserved, OneTableCleaner and CallsFollowChain, for any number   *)
(* of connections, hosts, super proxies and tokens, whatever the handlers  *)
(* decide and whatever the client sends.                                   *)
(*                                                                         *)
(* A step of a connection changes its own record.  All there is to say of  *)
(* most steps is that the new record is as PCInv wants it, that the call   *)
(* to the hijacker stays or is one that may follow, and that the           *)
(* connection neither takes nor gives up a token or the launch of a        *)
(* cleaner: Goes.  The counts follow for all of these steps at once, and   *)
(* so does the refinement of HijackerChain.                                *)
(***************************************************************************)
EXTENDS ProxyConn, FiniteSetTheorems, TLAPS

Places == {"closed", "parse", "do", "connect", "mitm", "bump", "prepare", "reparse", "super",
           "token", "block", "dialer", "table", "launch", "doing", "sent", "fake", "finish",
           "return"}

Items == {"line", "head", "body"}

\* The fields of a connection and their types.
Fields(r) == DOMAIN r = {"pc", "kind", "wire", "buf", "h", "call", "host", "proxy", "err",
                         "via", "peeked", "lingers"}
Typed(r) ==
    /\ Fields(r)
    /\ r.pc \in Places
    /\ r.kind \in {"get", "post", "connect"}
    /\ r.wire \in Seq(Items)
    /\ r.buf \in Nat /\ r.buf <= Len(r.wire)
    /\ r.h \in HijackerStates \cup {Nil}
    /\ r.host \in Hosts \cup {Nil}
    /\ r.proxy \in SuperProxies \cup {Nil}
    /\ r.err \in {"nil", "eof", "err"}
    /\ r.via \in Dialers

\* What holds of one connection wherever its goroutine is: which proxy and host
\* it has, whether its request is a tunnel, and which call its hijacker has had.
Unproxied == {"closed", "parse", "do", "connect", "mitm", "bump", "prepare", "reparse",
              "super", "return"}
Placed(r) ==
    /\ r.pc \in Unproxied => r.proxy = Nil
    /\ r.pc = "token" => r.proxy # Nil
    /\ r.pc \notin {"closed", "parse", "return"} => r.host \in Hosts
    /\ r.pc = "connect" => r.kind = "connect"
    /\ r.pc \in {"prepare", "reparse", "fake", "sent"} => r.kind # "connect"
    /\ r.kind = "connect" /\ r.pc \notin {"mitm", "bump"} => ~IsTLS(r)
    /\ r.pc \in {"closed", "parse", "do", "return"} => r.h = Nil

\* The calls after which a connection may give its hijacker back.
Closing == {"none", "RewriteHost", "OnConnect", "SSLBump", "RewriteTLSServerName",
            "AfterResponse", "TunnelSuperProxy", "TunnelBlock", "TunnelDial"}

CallOfRequest(r) ==
    /\ r.pc = "super" => r.call = "BeforeRequest"
    /\ r.pc \in {"token", "block"} => r.call = "SuperProxy"
    /\ r.pc = "dialer" => r.call = "HijackResponse"
    /\ r.pc \in {"table", "launch", "doing"} => r.call = "Dial"
    /\ r.pc = "sent" => r.call \in {"OnRequest", "OnRequestAgain"}
    /\ r.pc = "finish" => r.call \in {"Block", "Dial", "OnRequest", "OnRequestAgain", "OnResponse"}

CallOfTunnel(r) ==
    /\ r.pc = "super" => r.call = "SSLBump"
    /\ r.pc \in {"token", "block"} => r.call = "TunnelSuperProxy"
    /\ r.pc = "dialer" => r.call = "TunnelBlock"
    /\ r.pc \in {"table", "launch", "doing"} => r.call = "TunnelDial"
    /\ r.pc = "finish" => r.call \in {"TunnelBlock", "TunnelDial"}

CallOpening(r) ==
    /\ r.pc = "connect" => r.call = "RewriteHost"
    /\ r.pc = "mitm" => r.call = "SSLBump"
    /\ r.pc = "bump" => r.call \in {"RewriteTLSServerName", "AfterResponse"}
    /\ r.pc = "prepare" => r.call \in {"RewriteHost", "RewriteTLSServerName", "AfterResponse"}
    /\ r.pc = "reparse" => r.call = "BeforeRequest"
    /\ r.pc = "fake" => r.call = "HijackResponse"

CalledAt(r) ==
    /\ r.pc = "return" => r.call \in Closing
    /\ r.h = Nil /\ r.pc # "return" => r.call = "none"
    /\ r.h # Nil => /\ CallOpening(r)
                    /\ IF r.kind = "connect" THEN CallOfTunnel(r) ELSE CallOfRequest(r)

SharedTypeOK ==
    /\ tokens \in [SuperProxies -> 0 .. MaxConcurrency]
    /\ dial \in Dialers
    /\ table \in [BOOLEAN -> [Keys -> Dialers \cup {NoClient}]]
    /\ cleaners \in [BOOLEAN -> Nat]

Sound(r) == Typed(r) /\ Placed(r) /\ CalledAt(r)

PCInv ==
    /\ DOMAIN conn = Conns
    /\ \A c \in Conns : Sound(conn[c])
    /\ SharedTypeOK
    /\ TokensConserved
    /\ OneTableCleaner

\* c holds a token of s, and c is to launch the cleaner of a table.
Holds(r, s) == r.proxy = s /\ r.pc # "token"
Launches(r, tls) == r.pc = "launch" /\ TableOf(r) = tls

\* From r to e the hijacker is called as it may be.
Calls(r, e) == e.call = r.call \/ Chain!Follows(r.call, e.call)

\* From r to e no token and no launch changes hands.
Quiet(r, e) ==
    /\ \A s \in SuperProxies : Holds(e, s) <=> Holds(r, s)
    /\ \A tls \in BOOLEAN : Launches(e, tls) <=> Launches(r, tls)

\* Connection c takes a step to e.
Moves(c, e) ==
    /\ conn' = [conn EXCEPT ![c] = e]
    /\ Sound(e)
    /\ Calls(conn[c], e)

Goes(c) == \E e : Moves(c, e) /\ Quiet(conn[c], e)

-----------------------------------------------------------------------------
\* The pairs of calls that the proxy makes one after the other.
LEMMA FollowsPairs ==
    /\ Chain!Follows("none", "RewriteHost")
    /\ Chain!Follows("RewriteHost", "OnConnect")
    /\ Chain!Follows("RewriteHost", "SSLBump")
    /\ Chain!Follows("SSLBump", "RewriteTLSServerName")
    /\ Chain!Follows("SSLBump", "TunnelSuperProxy")
    /\ Chain!Follows("TunnelSuperProxy", "TunnelBlock")
    /\ Chain!Follows("TunnelBlock", "TunnelDial")
    /\ Chain!Follows("RewriteHost", "BeforeRequest")
    /\ Chain!Follows("RewriteTLSServerName", "BeforeRequest")
    /\ Chain!Follows("AfterResponse", "BeforeRequest")
    /\ Chain!Follows("BeforeRequest", "SuperProxy")
    /\ Chain!Follows("BeforeRequest", "AfterResponse")
    /\ Chain!Follows("SuperProxy", "Block")
    /\ Chain!Follows("SuperProxy", "HijackResponse")
    /\ Chain!Follows("HijackResponse", "Dial")
    /\ Chain!Follows("HijackResponse", "OnRequest")
    /\ Chain!Follows("HijackResponse", "OnResponse")
    /\ Chain!Follows("Dial", "OnRequest")
    /\ Chain!Follows("OnRequest", "OnRequestAgain")
    /\ Chain!Follows("OnRequest", "OnResponse")
    /\ Chain!Follows("OnRequestAgain", "OnResponse")
    /\ \A a \in {"Block", "Dial", "OnRequest", "OnRequestAgain", "OnResponse"} :
            Chain!Follows(a, "AfterResponse")
    /\ \A a \in Closing \ {"none"} : Chain!Follows(a, "none")
<1> USE DEF Chain!Follows, Chain!Chains, Chain!Opening, Chain!Request, Chain!Tunnel, Chain!In
<1>1. /\ Chain!Follows("none", "RewriteHost")
      /\ Chain!Follows("RewriteHost", "OnConnect")
      /\ Chain!Follows("RewriteHost", "SSLBump")
      /\ Chain!Follows("SSLBump", "RewriteTLSServerName")
      /\ Chain!Follows("RewriteHost", "BeforeRequest")
      /\ Chain!Follows("RewriteTLSServerName", "BeforeRequest")
      /\ Chain!Follows("AfterResponse", "BeforeRequest")
  OBVIOUS
<1>2. /\ Chain!Follows("SSLBump", "TunnelSuperProxy")
      /\ Chain!Follows("TunnelSuperProxy", "TunnelBlock")
      /\ Chain!Follows("TunnelBlock", "TunnelDial")
  OBVIOUS
<1>3. /\ Chain!Follows("BeforeRequest", "SuperProxy")
      /\ Chain!Follows("BeforeRequest", "AfterResponse")
      /\ Chain!Follows("SuperProxy", "Block")
      /\ Chain!Follows("SuperProxy", "HijackResponse")
      /\ Chain!Follows("HijackResponse", "Dial")
  OBVIOUS
<1>4. /\ Chain!Follows("HijackResponse", "OnRequest")
      /\ Chain!Follows("HijackResponse", "OnResponse")
      /\ Chain!Follows("Dial", "OnRequest")
      /\ Chain!Follows("OnRequest", "OnRequestAgain")
      /\ Chain!Follows("OnRequest", "OnResponse")
      /\ Chain!Follows("OnRequestAgain", "OnResponse")
  OBVIOUS
<1>5. /\ Chain!Follows("Block", "AfterResponse") /\ Chain!Follows("Dial", "AfterResponse")
      /\ Chain!Follows("OnRequest", "AfterResponse") /\ Chain!Follows("OnResponse", "AfterResponse")
      /\ Chain!Follows("OnRequestAgain", "AfterResponse")
  OBVIOUS
<1>6. /\ Chain!In("RewriteHost", Chain!Opening) /\ Chain!In("OnConnect", Chain!Opening)
      /\ Chain!In("SSLBump", Chain!Opening) /\ Chain!In("RewriteTLSServerName", Chain!Opening)
      /\ Chain!In("TunnelSuperProxy", Chain!Tunnel) /\ Chain!In("TunnelBlock", Chain!Tunnel)
      /\ Chain!In("TunnelDial", Chain!Tunnel)
  OBVIOUS
<1> HIDE DEF Chain!Chains, Chain!Opening, Chain!Request, Chain!Tunnel, Chain!In
<1>7. ASSUME NEW a \in Closing \ {"none"} PROVE Chain!Follows(a, "none")
  BY <1>6 DEF Closing
<1> HIDE DEF Chain!Follows
<1> QED BY <1>1, <1>2, <1>3, <1>4, <1>5, <1>7

\* What the reader may hold after it has been filled.
LEMMA FilledBounds ==
    ASSUME NEW r, Typed(r), NEW n \in Nat, NEW b \in Filled(r, n)
    PROVE  b \in Nat /\ n <= b /\ b <= Len(r.wire)
  BY DEF Typed, Filled

\* What is left of the client's data.
LEMMA RestOfWire ==
    ASSUME NEW w \in Seq(Items), NEW n \in Nat, n <= Len(w)
    PROVE  /\ SubSeq(w, n + 1, Len(w)) \in Seq(Items)
           /\ Len(SubSeq(w, n + 1, Len(w))) = Len(w) - n
           /\ Len(w) \in Nat
<1>1. Len(w) \in Nat
  OBVIOUS
<1>2. \A i \in n + 1 .. Len(w) : w[i] \in Items
  OBVIOUS
<1> QED BY <1>1, <1>2

\* The operations on a record change the fields that they name.
LEMMA AtFields ==
    ASSUME NEW r, Fields(r), NEW pc, NEW e, e = At(r, pc)
    PROVE  /\ Fields(e) /\ e.pc = pc /\ e.kind = r.kind /\ e.wire = r.wire /\ e.buf = r.buf
           /\ e.h = r.h /\ e.call = r.call /\ e.host = r.host /\ e.proxy = r.proxy
           /\ e.err = r.err /\ e.via = r.via /\ e.lingers = r.lingers
  BY DEF At, Fields

\* The same of a call.
LEMMA CalledFields ==
    ASSUME NEW r, Fields(r), NEW name, NEW e, e = Called(r, name)
    PROVE  /\ Fields(e) /\ e.pc = r.pc /\ e.kind = r.kind /\ e.wire = r.wire /\ e.buf = r.buf
           /\ e.h = r.h /\ e.call = (IF r.h = Nil THEN r.call ELSE name) /\ e.host = r.host
           /\ e.proxy = r.proxy /\ e.err = r.err /\ e.via = r.via /\ e.lingers = r.lingers
  BY DEF Called, Fields

\* The same of a read of n items.
LEMMA ReadFields ==
    ASSUME NEW r, Typed(r), NEW n \in Nat, NEW b \in Filled(r, n), NEW e, e = Read(r, n, b)
    PROVE  /\ Fields(e) /\ e.pc = r.pc /\ e.kind = r.kind /\ e.h = r.h /\ e.call = r.call
           /\ e.host = r.host /\ e.proxy = r.proxy /\ e.err = r.err /\ e.via = r.via
           /\ e.lingers = r.lingers
           /\ e.wire \in Seq(Items) /\ e.buf \in Nat /\ e.buf <= Len(e.wire)
<1>1. /\ Fields(e) /\ e.pc = r.pc /\ e.kind = r.kind /\ e.h = r.h /\ e.call = r.call
      /\ e.host = r.host /\ e.proxy = r.proxy /\ e.err = r.err /\ e.via = r.via
      /\ e.lingers = r.lingers
      /\ e.wire = SubSeq(r.wire, n + 1, Len(r.wire)) /\ e.buf = b - n
  BY DEF Read, Typed, Fields
<1>2. b \in Nat /\ n <= b /\ b <= Len(r.wire)
  BY FilledBounds
<1>3. r.wire \in Seq(Items) /\ Len(r.wire) \in Nat /\ n <= Len(r.wire)
  BY <1>2 DEF Typed
<1>4. e.wire \in Seq(Items) /\ Len(e.wire) = Len(r.wire) - n
  BY <1>1, <1>3, RestOfWire
<1> QED BY <1>1, <1>2, <1>3, <1>4

\* do returns: what it returns with is sound when the hijacker may be given back.
LEMMA ReturnSound ==
    ASSUME NEW r, r.call \in Closing, r.wire \in Seq(Items), r.buf \in Nat,
           r.buf <= Len(r.wire), NEW err \in {"nil", "eof", "err"}
    PROVE  /\ Sound(Return(r, err)) /\ Return(r, err).pc = "return"
           /\ Return(r, err).proxy = Nil /\ Return(r, err).call = r.call
<1> DEFINE e == Return(r, err)
<1>1. /\ Fields(e) /\ e.pc = "return" /\ e.kind = "get" /\ e.wire = r.wire /\ e.buf = r.buf
      /\ e.h = Nil /\ e.call = r.call /\ e.host = Nil /\ e.proxy = Nil /\ e.err = err
      /\ e.via = Nil
  BY DEF Return, Idle, Fields
<1> HIDE DEF e
<1>2. Typed(e)
  BY <1>1 DEF Typed, Places, Dialers
<1>3. Placed(e) /\ CalledAt(e)
  BY <1>1 DEF Placed, CalledAt, Unproxied, IsTLS
<1> QED BY <1>1, <1>2, <1>3 DEF Sound, e

\* A connection that is closed, or waits for its first request.
LEMMA IdleSound ==
    ASSUME NEW e, Fields(e), e.pc \in {"closed", "parse"}, e.kind = "get", e.h = Nil,
           e.call = "none", e.host = Nil, e.proxy = Nil, e.err = "nil", e.via = Nil,
           e.wire \in Seq(Items), e.buf \in Nat, e.buf <= Len(e.wire)
    PROVE  Sound(e)
<1>1. Typed(e)
  BY DEF Typed, Places, Dialers
<1>2. Placed(e) /\ CalledAt(e)
  BY DEF Placed, CalledAt, Unproxied, IsTLS
<1> QED BY <1>1, <1>2 DEF Sound

-----------------------------------------------------------------------------
\* What PCInv says of one connection.
LEMMA SoundConn ==
    ASSUME NEW c \in Conns, PCInv
    PROVE  Sound(conn[c]) /\ Typed(conn[c]) /\ Placed(conn[c]) /\ CalledAt(conn[c]) /\ Fields(conn[c])
  BY DEF PCInv, Sound, Typed

\* A step between two records that hold no token, or the same, and launch nothing.
LEMMA QuietMove ==
    ASSUME NEW c \in Conns, NEW e, Moves(c, e), conn[c].pc # "launch", e.pc # "launch",
           \/ /\ conn[c].proxy = Nil
              /\ e.proxy = Nil \/ e.pc = "token"
           \/ e.proxy = conn[c].proxy /\ conn[c].pc # "token" /\ e.pc # "token"
    PROVE  Goes(c)
  BY SuperProxiesAssumption DEF Goes, Quiet, Holds, Launches

\* A request that has no token yet ends.
LEMMA ReturnGoes ==
    ASSUME NEW c \in Conns, NEW r, NEW err \in {"nil", "eof", "err"},
           conn' = [conn EXCEPT ![c] = Return(r, err)],
           r.call \in Closing, r.wire \in Seq(Items), r.buf \in Nat, r.buf <= Len(r.wire),
           Calls(conn[c], r), conn[c].proxy = Nil, conn[c].pc # "launch"
    PROVE  Goes(c)
<1> DEFINE e == Return(r, err)
<1>1. Sound(e) /\ e.pc = "return" /\ e.proxy = Nil /\ e.call = r.call
  BY ReturnSound
<1>2. conn' = [conn EXCEPT ![c] = e]
  OBVIOUS
<1> HIDE DEF e
<1>3. Moves(c, e)
  BY <1>1, <1>2 DEF Moves, Calls
<1> QED BY <1>1, <1>3, QuietMove

\* A connection that has no token ends, or begins anew.
LEMMA IdleGoes ==
    ASSUME NEW c \in Conns, PCInv, NEW e, conn' = [conn EXCEPT ![c] = e],
           Fields(e), e.pc \in {"closed", "parse"}, e.kind = "get", e.h = Nil,
           e.call = "none", e.host = Nil, e.proxy = Nil, e.err = "nil", e.via = Nil,
           e.wire \in Seq(Items), e.buf \in Nat, e.buf <= Len(e.wire),
           conn[c].pc \in {"closed", "parse", "return"}
    PROVE  Goes(c)
<1>1. Sound(e)
  BY IdleSound
<1>2. conn[c].proxy = Nil /\ conn[c].call \in Closing
  BY SoundConn DEF Placed, CalledAt, Unproxied, Closing
<1>3. Calls(conn[c], e)
  BY <1>2, FollowsPairs DEF Calls
<1> QED BY <1>1, <1>2, <1>3, QuietMove DEF Moves

\* The client sends a request.
LEMMA SendGoes ==
    ASSUME NEW c \in Conns, PCInv, NEW request \in Requests, Send(c, request)
    PROVE  Goes(c)
<1> DEFINE r == conn[c]
           w == r.wire \o request
           e == [r EXCEPT !.wire = w]
<1>1. Typed(r) /\ Placed(r) /\ CalledAt(r) /\ Fields(r)
  BY SoundConn
<1>2. request \in Seq(Items) /\ Len(request) \in Nat
  <2>1. <<"line", "head">> \in Seq(Items) /\ <<"line", "head", "body">> \in Seq(Items)
    BY DEF Items
  <2>2. request \in Seq(Items)
    BY <2>1, Zenon DEF Requests
  <2> QED BY <2>2
<1>3. r.wire \in Seq(Items) /\ Len(r.wire) \in Nat /\ r.buf \in Nat /\ r.buf <= Len(r.wire)
  BY <1>1 DEF Typed
<1>4. w \in Seq(Items) /\ Len(w) = Len(r.wire) + Len(request)
  BY <1>2, <1>3
<1>5. conn' = [conn EXCEPT ![c] = e] /\ r.pc \in {"parse", "bump"}
  BY DEF Send
<1>6. /\ Fields(e) /\ e.pc = r.pc /\ e.kind = r.kind /\ e.wire = w /\ e.buf = r.buf
      /\ e.h = r.h /\ e.call = r.call /\ e.host = r.host /\ e.proxy = r.proxy
      /\ e.err = r.err /\ e.via = r.via
  BY <1>1 DEF Fields
<1> HIDE DEF e, w
<1>7. Typed(e) /\ Placed(e) /\ CalledAt(e)
  <2>1. Typed(e)
    BY <1>1, <1>2, <1>3, <1>4, <1>6 DEF Typed
  <2>2. Placed(e) /\ CalledAt(e)
    BY <1>1, <1>6 DEF Placed, CalledAt, IsTLS, CallOpening, CallOfTunnel, CallOfRequest
  <2> QED BY <2>1, <2>2
<1>8. Moves(c, e)
  BY <1>5, <1>6, <1>7 DEF Moves, Sound, Calls
<1> QED BY <1>1, <1>5, <1>6, <1>8, QuietMove DEF Placed, Unproxied

\* A goroutine left behind takes what comes.
LEMMA StealGoes ==
    ASSUME NEW c \in Conns, PCInv, Steal(c)
    PROVE  Goes(c)
<1> DEFINE r == conn[c]
           w == SubSeq(r.wire, 1, r.buf) \o SubSeq(r.wire, r.buf + 2, Len(r.wire))
           e == [r EXCEPT !.wire = w, !.lingers = FALSE]
<1>1. Typed(r) /\ Placed(r) /\ CalledAt(r) /\ Fields(r)
  BY SoundConn
<1>2. r.wire \in Seq(Items) /\ Len(r.wire) \in Nat /\ r.buf \in Nat /\ r.buf < Len(r.wire)
  BY <1>1 DEF Typed, Steal
<1>3. w \in Seq(Items) /\ r.buf <= Len(w)
  <2> DEFINE w1 == SubSeq(r.wire, 1, r.buf)
             w2 == SubSeq(r.wire, r.buf + 2, Len(r.wire))
  <2>1. w1 \in Seq(Items) /\ Len(w1) = r.buf
    BY <1>2
  <2>2. w2 \in Seq(Items) /\ Len(w2) \in Nat
    BY <1>2
  <2> HIDE DEF w1, w2
  <2>3. w1 \o w2 \in Seq(Items) /\ Len(w1 \o w2) = Len(w1) + Len(w2)
    BY <2>1, <2>2
  <2> QED BY <1>2, <2>1, <2>2, <2>3 DEF w1, w2
<1>4. conn' = [conn EXCEPT ![c] = e]
  BY DEF Steal
<1>5. /\ Fields(e) /\ e.pc = r.pc /\ e.kind = r.kind /\ e.wire = w /\ e.buf = r.buf
      /\ e.h = r.h /\ e.call = r.call /\ e.host = r.host /\ e.proxy = r.proxy
      /\ e.err = r.err /\ e.via = r.via
  BY <1>1 DEF Fields
<1> HIDE DEF e, w
<1>6. Typed(e)
  BY <1>1, <1>2, <1>3, <1>5 DEF Typed
<1>7. Placed(e) /\ CalledAt(e)
  BY <1>1, <1>5 DEF Placed, CalledAt, IsTLS, CallOpening, CallOfTunnel, CallOfRequest
<1>8. Quiet(r, e)
  BY <1>5 DEF Quiet, Holds, Launches, TableOf, IsTLS
<1> QED BY <1>4, <1>5, <1>6, <1>7, <1>8 DEF Goes, Moves, Sound, Calls

\* A connection begins, or ends before a request.
LEMMA AcceptGoes ==
    ASSUME NEW c \in Conns, PCInv, Accept(c) \/ ParseFails(c) \/ Leave(c)
    PROVE  Goes(c)
<1>1. PICK e \in {Idle, [Idle EXCEPT !.pc = "parse"]} : conn' = [conn EXCEPT ![c] = e]
  BY DEF Accept, ParseFails, Leave
<1>2. /\ Fields(e) /\ e.pc \in {"closed", "parse"} /\ e.kind = "get" /\ e.h = Nil
      /\ e.call = "none" /\ e.host = Nil /\ e.proxy = Nil /\ e.err = "nil" /\ e.via = Nil
      /\ e.wire = << >> /\ e.buf = 0
  BY DEF Idle, Fields
<1>3. e.wire \in Seq(Items) /\ e.buf \in Nat /\ e.buf <= Len(e.wire)
  BY <1>2
<1>4. conn[c].pc \in {"closed", "parse", "return"}
  BY DEF Accept, ParseFails, Leave
<1> QED BY <1>1, <1>2, <1>3, <1>4, IdleGoes

\* The connection is kept for the next request.
LEMMA KeepAliveGoes ==
    ASSUME NEW c \in Conns, PCInv, KeepAlive(c)
    PROVE  Goes(c)
<1> DEFINE r == conn[c]
           w == SubSeq(r.wire, r.buf + 1, Len(r.wire))
           e == [Idle EXCEPT !.pc = "parse", !.lingers = r.lingers, !.wire = w]
<1>1. r.wire \in Seq(Items) /\ r.buf \in Nat /\ r.buf <= Len(r.wire)
  BY SoundConn DEF Typed
<1>2. w \in Seq(Items) /\ Len(w) \in Nat
  BY <1>1, RestOfWire
<1>3. conn' = [conn EXCEPT ![c] = e] /\ r.pc = "return"
  BY DEF KeepAlive
<1>4. /\ Fields(e) /\ e.pc = "parse" /\ e.kind = "get" /\ e.h = Nil
      /\ e.call = "none" /\ e.host = Nil /\ e.proxy = Nil /\ e.err = "nil" /\ e.via = Nil
      /\ e.wire = w /\ e.buf = 0
  BY DEF Idle, Fields
<1> HIDE DEF e, w
<1>5. e.wire \in Seq(Items) /\ e.buf \in Nat /\ e.buf <= Len(e.wire)
  BY <1>2, <1>4
<1>6. r.pc \in {"closed", "parse", "return"} /\ e.pc \in {"closed", "parse"}
  BY <1>3, <1>4
<1> QED BY <1>3, <1>4, <1>5, <1>6, IdleGoes

\* A start line is parsed.
LEMMA ParseStartLineGoes ==
    ASSUME NEW c \in Conns, PCInv, NEW kind \in Methods \cup {"connect"}, NEW host \in Hosts,
           ParseStartLine(c, kind, host)
    PROVE  Goes(c)
<1> DEFINE r == conn[c]
<1>1. Typed(r) /\ Placed(r) /\ CalledAt(r) /\ Fields(r)
  BY SoundConn
<1>2. PICK b \in Filled(r, 1) :
        conn' = [conn EXCEPT ![c] = [At(Read(r, 1, b), "do") EXCEPT !.kind = kind, !.host = host]]
  BY DEF ParseStartLine
<1> DEFINE m == Read(r, 1, b)
           a == At(m, "do")
           e == [a EXCEPT !.kind = kind, !.host = host]
<1>3. /\ Fields(m) /\ m.pc = r.pc /\ m.h = r.h /\ m.call = r.call
      /\ m.proxy = r.proxy /\ m.err = r.err /\ m.via = r.via
      /\ m.wire \in Seq(Items) /\ m.buf \in Nat /\ m.buf <= Len(m.wire)
  BY <1>1, ReadFields
<1> HIDE DEF m
<1>4. /\ Fields(a) /\ a.pc = "do" /\ a.wire = m.wire /\ a.buf = m.buf
      /\ a.h = r.h /\ a.call = r.call /\ a.proxy = r.proxy /\ a.err = r.err /\ a.via = r.via
  BY <1>3, AtFields
<1> HIDE DEF a
<1>5. /\ Fields(e) /\ e.pc = "do" /\ e.kind = kind /\ e.wire = a.wire /\ e.buf = a.buf
      /\ e.h = r.h /\ e.call = r.call /\ e.host = host /\ e.proxy = r.proxy
      /\ e.err = r.err /\ e.via = r.via
  BY <1>4 DEF Fields
<1>6. conn' = [conn EXCEPT ![c] = e] /\ r.pc = "parse"
  BY <1>2 DEF ParseStartLine, a, m
<1> HIDE DEF e
<1>7. Typed(e)
  BY <1>1, <1>3, <1>4, <1>5, MethodsAssumption DEF Typed, Places
<1>8. Placed(e) /\ CalledAt(e) /\ r.proxy = Nil
  BY <1>1, <1>5, <1>6 DEF Placed, CalledAt, Unproxied, IsTLS
<1> QED BY <1>5, <1>6, <1>7, <1>8, QuietMove DEF Moves, Sound, Calls

\* The hijackers that the handlers leave are hijackers, and no handler touches
\* what SSLBump has decided.
LEMMA HijackerTypes ==
    ASSUME NEW h \in HijackerStates, NEW d \in Decisions \cup {NoMatch}
    PROVE  /\ BeforeRequest(h, d) \in HijackerStates /\ BeforeRequest(h, d).sslBump = h.sslBump
           /\ Resolve(h, d) \in HijackerStates /\ Resolve(h, d).sslBump = h.sslBump
           /\ SSLBump(h, TRUE) \in HijackerStates
           /\ SuperProxy(h) \in SuperProxies \cup {Nil}
           /\ Dial(h) \in Dialers
<1>1. /\ BeforeRequest(h, d) \in HijackerStates /\ BeforeRequest(h, d).sslBump = h.sslBump
      /\ Resolve(h, d) \in HijackerStates /\ Resolve(h, d).sslBump = h.sslBump
      /\ SSLBump(h, TRUE) \in HijackerStates
  BY DEF HijackerStates, BeforeRequest, Resolve, SSLBump
<1>2. h.req # Nil => \E x \in Decisions : x.req = h.req
  BY DEF HijackerStates
<1>3. SuperProxy(h) \in SuperProxies \cup {Nil}
  BY <1>2, SuperProxiesAssumption DEF SuperProxy
<1>4. Dial(h) \in Dialers
  BY <1>2 DEF Dial, Dialers
<1> QED BY <1>1, <1>3, <1>4

\* A new hijacker.
LEMMA InitHijacker ==
    ASSUME NEW https \in BOOLEAN
    PROVE  Init_(https) \in HijackerStates /\ ~Init_(https).sslBump /\ Init_(https) # Nil
<1>1. Init_(https) \in HijackerStates /\ ~Init_(https).sslBump
  BY DEF Init_, HijackerStates
<1> QED BY <1>1, NilAssumption

\* A hijacker is taken.
LEMMA DoGoes ==
    ASSUME NEW c \in Conns, PCInv, Do(c)
    PROVE  Goes(c)
<1> DEFINE r == conn[c]
           h == Init_(r.kind = "connect")
           g == [r EXCEPT !.h = h, !.call = "RewriteHost"]
           pc == IF r.kind = "connect" THEN "connect" ELSE "prepare"
<1>1. Typed(r) /\ Placed(r) /\ CalledAt(r) /\ Fields(r) /\ r.pc = "do"
  BY SoundConn DEF Do
<1>2. r.h = Nil /\ r.call = "none" /\ r.proxy = Nil
  BY <1>1 DEF Placed, CalledAt, Unproxied
<1>3. h \in HijackerStates /\ ~h.sslBump /\ h # Nil
  BY InitHijacker
<1> HIDE DEF h
<1>4. /\ Fields(g) /\ g.pc = r.pc /\ g.kind = r.kind /\ g.wire = r.wire /\ g.buf = r.buf
      /\ g.h = h /\ g.call = "RewriteHost" /\ g.host = r.host /\ g.proxy = r.proxy
      /\ g.err = r.err /\ g.via = r.via
  BY <1>1 DEF Fields
<1>5. \/ conn' = [conn EXCEPT ![c] = At(g, pc)]
      \/ conn' = [conn EXCEPT ![c] = At(r, pc)]
      \/ \E err \in {"eof", "err"} : conn' = [conn EXCEPT ![c] = Return(g, err)]
  BY DEF Do, h
<1> HIDE DEF g
<1>6. Calls(r, g)
  BY <1>2, <1>4, FollowsPairs DEF Calls
<1>7. CASE conn' = [conn EXCEPT ![c] = At(g, pc)]
  <2> DEFINE e == At(g, pc)
  <2>1. /\ Fields(e) /\ e.pc = pc /\ e.kind = g.kind /\ e.wire = g.wire /\ e.buf = g.buf
        /\ e.h = g.h /\ e.call = g.call /\ e.host = g.host /\ e.proxy = g.proxy
        /\ e.err = g.err /\ e.via = g.via
    BY <1>4, AtFields
  <2> HIDE DEF e
  <2>2. Typed(e)
    BY <1>1, <1>3, <1>4, <2>1 DEF Typed, Places
  <2>3. Placed(e) /\ CalledAt(e)
    BY <1>1, <1>2, <1>3, <1>4, <2>1
       DEF Placed, CalledAt, Unproxied, IsTLS, CallOpening, CallOfTunnel, CallOfRequest
  <2>4. Moves(c, e)
    BY <1>6, <1>7, <2>1, <2>2, <2>3 DEF Moves, Sound, Calls, e
  <2> QED BY <1>1, <1>2, <1>4, <2>1, <2>4, QuietMove
<1>8. CASE conn' = [conn EXCEPT ![c] = At(r, pc)]
  <2> DEFINE e == At(r, pc)
  <2>1. /\ Fields(e) /\ e.pc = pc /\ e.kind = r.kind /\ e.wire = r.wire /\ e.buf = r.buf
        /\ e.h = r.h /\ e.call = r.call /\ e.host = r.host /\ e.proxy = r.proxy
        /\ e.err = r.err /\ e.via = r.via
    BY <1>1, AtFields
  <2> HIDE DEF e
  <2>2. Typed(e)
    BY <1>1, <2>1 DEF Typed, Places
  <2>3. Placed(e) /\ CalledAt(e)
    BY <1>1, <1>2, <2>1 DEF Placed, CalledAt, Unproxied, IsTLS
  <2>4. Moves(c, e)
    BY <1>8, <2>1, <2>2, <2>3 DEF Moves, Sound, Calls, e
  <2> QED BY <1>1, <1>2, <2>1, <2>4, QuietMove
<1>9. ASSUME NEW err \in {"eof", "err"}, conn' = [conn EXCEPT ![c] = Return(g, err)]
      PROVE  Goes(c)
  <2>1. g.call \in Closing /\ g.wire \in Seq(Items) /\ g.buf \in Nat /\ g.buf <= Len(g.wire)
    BY <1>1, <1>4 DEF Typed, Closing
  <2>2. r.proxy = Nil /\ r.pc # "launch" /\ err \in {"nil", "eof", "err"}
    BY <1>1, <1>2
  <2> QED BY <1>6, <1>9, <2>1, <2>2, ReturnGoes
<1> QED BY <1>5, <1>7, <1>8, <1>9

\* A CONNECT is answered, or declined, or its header does not come.
LEMMA ConnectGoes ==
    ASSUME NEW c \in Conns, PCInv, Connect(c)
    PROVE  Goes(c)
<1> DEFINE r == conn[c]
<1>1. Typed(r) /\ Placed(r) /\ CalledAt(r) /\ Fields(r) /\ r.pc = "connect"
  BY SoundConn DEF Connect
<1>2. /\ r.proxy = Nil /\ r.kind = "connect" /\ ~IsTLS(r) /\ r.host \in Hosts
      /\ r.call = IF r.h = Nil THEN "none" ELSE "RewriteHost"
  BY <1>1 DEF Placed, CalledAt, Unproxied, CallOpening
<1>3. r.wire \in Seq(Items) /\ r.buf \in Nat /\ r.buf <= Len(r.wire)
  BY <1>1 DEF Typed
<1>4. CASE conn' = [conn EXCEPT ![c] = Return(r, "err")]
  <2>1. r.call \in Closing /\ Calls(conn[c], r) /\ "err" \in {"nil", "eof", "err"}
    BY <1>2 DEF Closing, Calls
  <2> QED BY <1>1, <1>2, <1>3, <1>4, <2>1, ReturnGoes
<1>5. ASSUME NEW b \in Filled(r, 1), NEW err \in {"eof", "err"}, r.h # Nil,
             conn' = [conn EXCEPT ![c] = Return(Called([r EXCEPT !.buf = b], "OnConnect"), err)]
      PROVE  Goes(c)
  <2> DEFINE m == [r EXCEPT !.buf = b]
             a == Called(m, "OnConnect")
  <2>1. b \in Nat /\ b <= Len(r.wire)
    BY <1>1, FilledBounds
  <2>2. Fields(m) /\ m.wire = r.wire /\ m.buf = b /\ m.h = r.h
    BY <1>1 DEF Fields
  <2> HIDE DEF m
  <2>3. a.wire = r.wire /\ a.buf = b /\ a.call = "OnConnect"
    BY <1>5, <2>2, CalledFields
  <2>4. conn' = [conn EXCEPT ![c] = Return(a, err)]
    BY <1>5 DEF m
  <2> HIDE DEF a
  <2>5. Calls(r, a) /\ a.call \in Closing
    BY <1>2, <1>5, <2>3, FollowsPairs DEF Calls, Closing
  <2>6. a.wire \in Seq(Items) /\ a.buf \in Nat /\ a.buf <= Len(a.wire)
    BY <1>3, <2>1, <2>3
  <2> QED BY <1>1, <1>2, <2>4, <2>5, <2>6, ReturnGoes
<1>6. ASSUME NEW b \in Filled(r, 1),
             conn' = [conn EXCEPT ![c] = At(Called(Read(r, 1, b), "SSLBump"), "super")]
      PROVE  Goes(c)
  <2> DEFINE m == Read(r, 1, b)
             a == Called(m, "SSLBump")
             e == At(a, "super")
  <2>1. /\ Fields(m) /\ m.kind = r.kind /\ m.h = r.h /\ m.call = r.call
        /\ m.host = r.host /\ m.proxy = r.proxy /\ m.err = r.err /\ m.via = r.via
        /\ m.wire \in Seq(Items) /\ m.buf \in Nat /\ m.buf <= Len(m.wire)
    BY <1>1, ReadFields
  <2> HIDE DEF m
  <2>2. /\ Fields(a) /\ a.kind = r.kind /\ a.h = r.h
        /\ a.call = (IF r.h = Nil THEN r.call ELSE "SSLBump")
        /\ a.host = r.host /\ a.proxy = r.proxy /\ a.err = r.err /\ a.via = r.via
        /\ a.wire = m.wire /\ a.buf = m.buf
    BY <2>1, CalledFields
  <2> HIDE DEF a
  <2>3. /\ Fields(e) /\ e.pc = "super" /\ e.kind = r.kind /\ e.h = r.h /\ e.call = a.call
        /\ e.host = r.host /\ e.proxy = r.proxy /\ e.err = r.err /\ e.via = r.via
        /\ e.wire = m.wire /\ e.buf = m.buf
    BY <2>2, AtFields
  <2>4. conn' = [conn EXCEPT ![c] = e]
    BY <1>6 DEF a, m
  <2> HIDE DEF e
  <2>5. Typed(e)
    BY <1>1, <2>1, <2>3 DEF Typed, Places
  <2>6. Placed(e) /\ CalledAt(e)
    BY <1>1, <1>2, <2>2, <2>3
       DEF Placed, CalledAt, Unproxied, IsTLS, CallOpening, CallOfTunnel, CallOfRequest
  <2>7. Calls(r, e)
    BY <1>2, <2>2, <2>3, FollowsPairs DEF Calls
  <2> QED BY <1>1, <1>2, <2>3, <2>4, <2>5, <2>6, <2>7, QuietMove DEF Moves, Sound
<1>7. ASSUME NEW b \in Filled(r, 1), r.h # Nil,
             conn' = [conn EXCEPT ![c] =
                At(Called([Read(r, 1, b) EXCEPT !.h = SSLBump(@, TRUE)], "SSLBump"), "mitm")]
      PROVE  Goes(c)
  <2> DEFINE m == Read(r, 1, b)
             h == SSLBump(r.h, TRUE)
             n == [m EXCEPT !.h = h]
             a == Called(n, "SSLBump")
             e == At(a, "mitm")
  <2>1. /\ Fields(m) /\ m.kind = r.kind /\ m.h = r.h /\ m.call = r.call
        /\ m.host = r.host /\ m.proxy = r.proxy /\ m.err = r.err /\ m.via = r.via
        /\ m.wire \in Seq(Items) /\ m.buf \in Nat /\ m.buf <= Len(m.wire)
    BY <1>1, ReadFields
  <2>2. r.h \in HijackerStates
    BY <1>1, <1>7 DEF Typed
  <2>3. h \in HijackerStates /\ h # Nil
    BY <2>2, HijackerTypes, NilAssumption
  <2>4. conn' = [conn EXCEPT ![c] = e]
    BY <1>7, <2>1
  <2> HIDE DEF m, h
  <2>5. /\ Fields(n) /\ n.kind = r.kind /\ n.h = h /\ n.call = r.call
        /\ n.host = r.host /\ n.proxy = r.proxy /\ n.err = r.err /\ n.via = r.via
        /\ n.wire = m.wire /\ n.buf = m.buf
    BY <2>1 DEF Fields
  <2> HIDE DEF n
  <2>6. /\ Fields(a) /\ a.kind = r.kind /\ a.h = h /\ a.call = "SSLBump"
        /\ a.host = r.host /\ a.proxy = r.proxy /\ a.err = r.err /\ a.via = r.via
        /\ a.wire = m.wire /\ a.buf = m.buf
    BY <2>3, <2>5, CalledFields
  <2> HIDE DEF a
  <2>7. /\ Fields(e) /\ e.pc = "mitm" /\ e.kind = r.kind /\ e.h = h /\ e.call = "SSLBump"
        /\ e.host = r.host /\ e.proxy = r.proxy /\ e.err = r.err /\ e.via = r.via
        /\ e.wire = m.wire /\ e.buf = m.buf
    BY <2>6, AtFields
  <2> HIDE DEF e
  <2>8. Typed(e)
    BY <1>1, <2>1, <2>3, <2>7 DEF Typed, Places
  <2>9. Placed(e) /\ CalledAt(e)
    BY <1>1, <1>2, <2>3, <2>7
       DEF Placed, CalledAt, Unproxied, IsTLS, CallOpening, CallOfTunnel, CallOfRequest
  <2>10. Calls(r, e)
    BY <1>2, <1>7, <2>7, FollowsPairs DEF Calls
  <2> QED BY <1>1, <1>2, <2>4, <2>7, <2>8, <2>9, <2>10, QuietMove DEF Moves, Sound
<1>8. \/ conn' = [conn EXCEPT ![c] = Return(r, "err")]
      \/ \E b \in Filled(r, 1) :
            \/ /\ r.h # Nil
               /\ \E err \in {"eof", "err"} :
                    conn' = [conn EXCEPT ![c] = Return(Called([r EXCEPT !.buf = b], "OnConnect"), err)]
            \/ conn' = [conn EXCEPT ![c] = At(Called(Read(r, 1, b), "SSLBump"), "super")]
            \/ /\ r.h # Nil
               /\ conn' = [conn EXCEPT ![c] =
                    At(Called([Read(r, 1, b) EXCEPT !.h = SSLBump(@, TRUE)], "SSLBump"), "mitm")]
  BY DEF Connect
<1> QED BY <1>4, <1>5, <1>6, <1>7, <1>8

\* The TLS handshake with the client.
LEMMA HijackTLSGoes ==
    ASSUME NEW c \in Conns, PCInv, HijackTLS(c)
    PROVE  Goes(c)
<1> DEFINE r == conn[c]
           empty == << >>
           m == [r EXCEPT !.wire = empty, !.buf = 0]
           a == Called(m, "RewriteTLSServerName")
           e == At(a, "bump")
<1>1. Typed(r) /\ Placed(r) /\ CalledAt(r) /\ Fields(r) /\ r.pc = "mitm"
  BY SoundConn DEF HijackTLS
<1>2. /\ r.proxy = Nil /\ r.host \in Hosts
      /\ r.call = IF r.h = Nil THEN "none" ELSE "SSLBump"
  BY <1>1 DEF Placed, CalledAt, Unproxied, CallOpening
<1>3. r.wire \in Seq(Items) /\ r.buf \in Nat /\ r.buf <= Len(r.wire)
  BY <1>1 DEF Typed
<1>4. \/ conn' = [conn EXCEPT ![c] = Return(r, "err")]
      \/ conn' = [conn EXCEPT ![c] = e]
  BY DEF HijackTLS
<1>5. CASE conn' = [conn EXCEPT ![c] = Return(r, "err")]
  <2>1. r.call \in Closing /\ Calls(conn[c], r) /\ "err" \in {"nil", "eof", "err"}
    BY <1>2 DEF Closing, Calls
  <2> QED BY <1>1, <1>2, <1>3, <1>5, <2>1, ReturnGoes
<1>6. CASE conn' = [conn EXCEPT ![c] = e]
  <2>1. empty \in Seq(Items) /\ Len(empty) = 0
    OBVIOUS
  <2> HIDE DEF empty
  <2>2. /\ Fields(m) /\ m.kind = r.kind /\ m.h = r.h /\ m.call = r.call
        /\ m.host = r.host /\ m.proxy = r.proxy /\ m.err = r.err /\ m.via = r.via
        /\ m.wire = empty /\ m.buf = 0
    BY <1>1 DEF Fields
  <2> HIDE DEF m
  <2>3. /\ Fields(a) /\ a.kind = r.kind /\ a.h = r.h
        /\ a.call = (IF r.h = Nil THEN r.call ELSE "RewriteTLSServerName")
        /\ a.host = r.host /\ a.proxy = r.proxy /\ a.err = r.err /\ a.via = r.via
        /\ a.wire = empty /\ a.buf = 0
    BY <2>2, CalledFields
  <2> HIDE DEF a
  <2>4. /\ Fields(e) /\ e.pc = "bump" /\ e.kind = r.kind /\ e.h = r.h /\ e.call = a.call
        /\ e.host = r.host /\ e.proxy = r.proxy /\ e.err = r.err /\ e.via = r.via
        /\ e.wire = empty /\ e.buf = 0
    BY <2>3, AtFields
  <2> HIDE DEF e
  <2>5. Typed(e)
    BY <1>1, <2>1, <2>4 DEF Typed, Places
  <2>6. Placed(e) /\ CalledAt(e)
    BY <1>1, <1>2, <2>3, <2>4
       DEF Placed, CalledAt, Unproxied, IsTLS, CallOpening, CallOfTunnel, CallOfRequest
  <2>7. Calls(r, e)
    BY <1>2, <2>3, <2>4, FollowsPairs DEF Calls
  <2> QED BY <1>1, <1>2, <1>6, <2>4, <2>5, <2>6, <2>7, QuietMove DEF Moves, Sound
<1> QED BY <1>4, <1>5, <1>6

\* The next decrypted request.
LEMMA BumpParseGoes ==
    ASSUME NEW c \in Conns, PCInv, NEW kind \in Methods, BumpParse(c, kind)
    PROVE  Goes(c)
<1> DEFINE r == conn[c]
<1>1. Typed(r) /\ Placed(r) /\ CalledAt(r) /\ Fields(r) /\ r.pc = "bump"
  BY SoundConn DEF BumpParse
<1>2. /\ r.proxy = Nil /\ r.host \in Hosts
      /\ r.h = Nil => r.call = "none"
      /\ r.h # Nil => r.call \in {"RewriteTLSServerName", "AfterResponse"}
  BY <1>1 DEF Placed, CalledAt, Unproxied, CallOpening
<1>3. r.wire \in Seq(Items) /\ r.buf \in Nat /\ r.buf <= Len(r.wire)
  BY <1>1 DEF Typed
<1>4. ASSUME NEW err \in {"eof", "err"}, conn' = [conn EXCEPT ![c] = Return(r, err)]
      PROVE  Goes(c)
  <2>1. r.call \in Closing /\ Calls(conn[c], r) /\ err \in {"nil", "eof", "err"}
    BY <1>2 DEF Closing, Calls
  <2> QED BY <1>1, <1>2, <1>3, <1>4, <2>1, ReturnGoes
<1>5. ASSUME NEW b \in Filled(r, 1),
             conn' = [conn EXCEPT ![c] = [At(Read(r, 1, b), "prepare") EXCEPT !.kind = kind]]
      PROVE  Goes(c)
  <2> DEFINE m == Read(r, 1, b)
             a == At(m, "prepare")
             e == [a EXCEPT !.kind = kind]
  <2>1. /\ Fields(m) /\ m.h = r.h /\ m.call = r.call
        /\ m.host = r.host /\ m.proxy = r.proxy /\ m.err = r.err /\ m.via = r.via
        /\ m.wire \in Seq(Items) /\ m.buf \in Nat /\ m.buf <= Len(m.wire)
    BY <1>1, ReadFields
  <2> HIDE DEF m
  <2>2. /\ Fields(a) /\ a.pc = "prepare" /\ a.h = r.h /\ a.call = r.call
        /\ a.host = r.host /\ a.proxy = r.proxy /\ a.err = r.err /\ a.via = r.via
        /\ a.wire = m.wire /\ a.buf = m.buf
    BY <2>1, AtFields
  <2> HIDE DEF a
  <2>3. /\ Fields(e) /\ e.pc = "prepare" /\ e.kind = kind /\ e.h = r.h /\ e.call = r.call
        /\ e.host = r.host /\ e.proxy = r.proxy /\ e.err = r.err /\ e.via = r.via
        /\ e.wire = m.wire /\ e.buf = m.buf
    BY <2>2 DEF Fields
  <2>4. conn' = [conn EXCEPT ![c] = e]
    BY <1>5 DEF a, m
  <2> HIDE DEF e
  <2>5. kind \in {"get", "post"}
    BY MethodsAssumption
  <2>6. Typed(e)
    BY <1>1, <2>1, <2>3, <2>5 DEF Typed, Places
  <2>7. Placed(e) /\ CalledAt(e)
    BY <1>1, <1>2, <2>3, <2>5
       DEF Placed, CalledAt, Unproxied, IsTLS, CallOpening, CallOfTunnel, CallOfRequest
  <2> QED BY <1>1, <1>2, <2>3, <2>4, <2>6, <2>7, QuietMove DEF Moves, Sound, Calls
<1> QED BY <1>4, <1>5 DEF BumpParse

\* The hijacker decides on a request.
LEMMA PrePareGoes ==
    ASSUME NEW c \in Conns, PCInv, PrePare(c)
    PROVE  Goes(c)
<1> DEFINE r == conn[c]
<1>1. Typed(r) /\ Placed(r) /\ CalledAt(r) /\ Fields(r) /\ r.pc = "prepare"
  BY SoundConn DEF PrePare
<1>2. /\ r.proxy = Nil /\ r.host \in Hosts /\ r.kind # "connect"
      /\ r.h = Nil => r.call = "none"
      /\ r.h # Nil => r.call \in {"RewriteHost", "RewriteTLSServerName", "AfterResponse"}
  BY <1>1 DEF Placed, CalledAt, Unproxied, CallOpening
<1>3. r.wire \in Seq(Items) /\ r.buf \in Nat /\ r.buf <= Len(r.wire)
  BY <1>1 DEF Typed
<1>4. CASE conn' = [conn EXCEPT ![c] = Return(r, "err")]
  <2>1. r.call \in Closing /\ Calls(conn[c], r) /\ "err" \in {"nil", "eof", "err"}
    BY <1>2 DEF Closing, Calls
  <2> QED BY <1>1, <1>2, <1>3, <1>4, <2>1, ReturnGoes
<1>5. ASSUME NEW b \in Filled(r, 1), NEW d \in Decisions \cup {NoMatch},
             conn' = [conn EXCEPT ![c] =
                IF r.h = Nil THEN At([r EXCEPT !.buf = b, !.peeked = TRUE], "super")
                ELSE At(Called([[r EXCEPT !.buf = b, !.peeked = TRUE]
                                    EXCEPT !.h = BeforeRequest(@, d)], "BeforeRequest"), "reparse")]
      PROVE  Goes(c)
  <2> DEFINE m == [r EXCEPT !.buf = b, !.peeked = TRUE]
             h == BeforeRequest(r.h, d)
             n == [m EXCEPT !.h = h]
             a == Called(n, "BeforeRequest")
             e == IF r.h = Nil THEN At(m, "super") ELSE At(a, "reparse")
  <2>1. /\ Fields(m) /\ m.kind = r.kind /\ m.h = r.h /\ m.call = r.call
        /\ m.host = r.host /\ m.proxy = r.proxy /\ m.err = r.err /\ m.via = r.via
        /\ m.wire = r.wire /\ m.buf = b
    BY <1>1 DEF Fields
  <2>2. b \in Nat /\ b <= Len(r.wire)
    BY <1>1, FilledBounds
  <2>3. conn' = [conn EXCEPT ![c] = e]
    BY <1>5, <2>1
  <2> HIDE DEF m, h
  <2>4. CASE r.h = Nil
    <3> DEFINE x == At(m, "super")
    <3>1. e = x
      BY <2>4
    <3>2. /\ Fields(x) /\ x.pc = "super" /\ x.kind = r.kind /\ x.h = r.h /\ x.call = r.call
          /\ x.host = r.host /\ x.proxy = r.proxy /\ x.err = r.err /\ x.via = r.via
          /\ x.wire = r.wire /\ x.buf = b
      BY <2>1, AtFields
    <3> HIDE DEF x, e
    <3>3. Typed(x)
      BY <1>1, <2>2, <3>2 DEF Typed, Places
    <3>4. Placed(x) /\ CalledAt(x)
      BY <1>1, <1>2, <2>4, <3>2
         DEF Placed, CalledAt, Unproxied, IsTLS
    <3> QED BY <1>1, <1>2, <2>3, <3>1, <3>2, <3>3, <3>4, QuietMove DEF Moves, Sound, Calls
  <2>5. CASE r.h # Nil
    <3> DEFINE x == At(a, "reparse")
    <3>1. e = x
      BY <2>5
    <3>2. h \in HijackerStates /\ h # Nil
      BY <1>1, <2>5, HijackerTypes, NilAssumption DEF Typed, h
    <3> HIDE DEF e
    <3>3. /\ Fields(n) /\ n.kind = r.kind /\ n.h = h /\ n.call = r.call
          /\ n.host = r.host /\ n.proxy = r.proxy /\ n.err = r.err /\ n.via = r.via
          /\ n.wire = r.wire /\ n.buf = b
      BY <2>1 DEF Fields
    <3> HIDE DEF n
    <3>4. /\ Fields(a) /\ a.kind = r.kind /\ a.h = h /\ a.call = "BeforeRequest"
          /\ a.host = r.host /\ a.proxy = r.proxy /\ a.err = r.err /\ a.via = r.via
          /\ a.wire = r.wire /\ a.buf = b
      BY <3>2, <3>3, CalledFields
    <3> HIDE DEF a
    <3>5. /\ Fields(x) /\ x.pc = "reparse" /\ x.kind = r.kind /\ x.h = h
          /\ x.call = "BeforeRequest" /\ x.host = r.host /\ x.proxy = r.proxy
          /\ x.err = r.err /\ x.via = r.via /\ x.wire = r.wire /\ x.buf = b
      BY <3>4, AtFields
    <3> HIDE DEF x
    <3>6. Typed(x)
      BY <1>1, <2>2, <3>2, <3>5 DEF Typed, Places
    <3>7. Placed(x) /\ CalledAt(x)
      BY <1>1, <1>2, <3>2, <3>5
         DEF Placed, CalledAt, Unproxied, IsTLS, CallOpening, CallOfTunnel, CallOfRequest
    <3>8. Calls(r, x)
      BY <1>2, <2>5, <3>5, FollowsPairs DEF Calls
    <3> QED BY <1>1, <1>2, <2>3, <3>1, <3>5, <3>6, <3>7, <3>8, QuietMove DEF Moves, Sound
  <2> QED BY <2>4, <2>5
<1> QED BY <1>4, <1>5 DEF PrePare

\* The header that the hijacker gave is parsed.
LEMMA ReparseGoes ==
    ASSUME NEW c \in Conns, PCInv, Reparse(c)
    PROVE  Goes(c)
<1> DEFINE r == conn[c]
           a == Called(r, "AfterResponse")
           e == At(r, "super")
<1>1. Typed(r) /\ Placed(r) /\ CalledAt(r) /\ Fields(r) /\ r.pc = "reparse"
  BY SoundConn DEF Reparse
<1>2. /\ r.proxy = Nil /\ r.host \in Hosts /\ r.kind # "connect"
      /\ r.call = IF r.h = Nil THEN "none" ELSE "BeforeRequest"
  BY <1>1 DEF Placed, CalledAt, Unproxied, CallOpening
<1>3. r.wire \in Seq(Items) /\ r.buf \in Nat /\ r.buf <= Len(r.wire)
  BY <1>1 DEF Typed
<1>4. \/ conn' = [conn EXCEPT ![c] = Return(a, "err")]
      \/ conn' = [conn EXCEPT ![c] = e]
  BY DEF Reparse
<1>5. a.call = (IF r.h = Nil THEN r.call ELSE "AfterResponse") /\ a.wire = r.wire /\ a.buf = r.buf
  BY <1>1, CalledFields
<1>6. /\ Fields(e) /\ e.pc = "super" /\ e.kind = r.kind /\ e.h = r.h /\ e.call = r.call
      /\ e.host = r.host /\ e.proxy = r.proxy /\ e.err = r.err /\ e.via = r.via
      /\ e.wire = r.wire /\ e.buf = r.buf
  BY <1>1, AtFields
<1> HIDE DEF a, e
<1>7. CASE conn' = [conn EXCEPT ![c] = Return(a, "err")]
  <2>1. a.call \in Closing /\ Calls(conn[c], a) /\ "err" \in {"nil", "eof", "err"}
    BY <1>2, <1>5, FollowsPairs DEF Closing, Calls
  <2>2. a.wire \in Seq(Items) /\ a.buf \in Nat /\ a.buf <= Len(a.wire)
    BY <1>3, <1>5
  <2> QED BY <1>1, <1>2, <1>7, <2>1, <2>2, ReturnGoes
<1>8. CASE conn' = [conn EXCEPT ![c] = e]
  <2>1. Typed(e)
    BY <1>1, <1>6 DEF Typed, Places
  <2>2. Placed(e) /\ CalledAt(e)
    BY <1>1, <1>2, <1>6
       DEF Placed, CalledAt, Unproxied, IsTLS, CallOpening, CallOfTunnel, CallOfRequest
  <2> QED BY <1>1, <1>2, <1>6, <1>8, <2>1, <2>2, QuietMove DEF Moves, Sound, Calls
<1> QED BY <1>4, <1>7, <1>8

\* A call that differs between a tunnel and a request.
LEMMA CallInFields ==
    ASSUME NEW r, Fields(r), NEW name \in {"SuperProxy", "Block", "Dial"}, NEW e, e = CallIn(r, name)
    PROVE  /\ Fields(e) /\ e.pc = r.pc /\ e.kind = r.kind /\ e.wire = r.wire /\ e.buf = r.buf
           /\ e.h = r.h /\ e.host = r.host
           /\ e.proxy = r.proxy /\ e.err = r.err /\ e.via = r.via /\ e.lingers = r.lingers
           /\ r.h = Nil => e.call = r.call
           /\ r.h # Nil /\ r.kind # "connect" => e.call = name
           /\ r.h # Nil /\ r.kind = "connect" /\ name = "SuperProxy" => e.call = "TunnelSuperProxy"
           /\ r.h # Nil /\ r.kind = "connect" /\ name = "Block" => e.call = "TunnelBlock"
           /\ r.h # Nil /\ r.kind = "connect" /\ name = "Dial" => e.call = "TunnelDial"
<1> DEFINE call == IF r.kind = "connect" THEN TunnelCall[name] ELSE name
<1>1. /\ name = "SuperProxy" => TunnelCall[name] = "TunnelSuperProxy"
      /\ name = "Block" => TunnelCall[name] = "TunnelBlock"
      /\ name = "Dial" => TunnelCall[name] = "TunnelDial"
  BY DEF TunnelCall
<1>2. e = Called(r, call)
  BY DEF CallIn
<1> HIDE DEF call
<1>3. /\ Fields(e) /\ e.pc = r.pc /\ e.kind = r.kind /\ e.wire = r.wire /\ e.buf = r.buf
      /\ e.h = r.h /\ e.call = (IF r.h = Nil THEN r.call ELSE call) /\ e.host = r.host
      /\ e.proxy = r.proxy /\ e.err = r.err /\ e.via = r.via /\ e.lingers = r.lingers
  BY <1>2, CalledFields
<1> QED BY <1>1, <1>3 DEF call

\* The super proxy is chosen.
LEMMA SetSuperProxyGoes ==
    ASSUME NEW c \in Conns, PCInv, SetSuperProxy(c)
    PROVE  Goes(c)
<1> DEFINE r == conn[c]
<1>1. Typed(r) /\ Placed(r) /\ CalledAt(r) /\ Fields(r) /\ r.pc = "super"
  BY SoundConn DEF SetSuperProxy
<1>2. /\ r.proxy = Nil /\ r.host \in Hosts /\ (r.kind = "connect" => ~IsTLS(r))
      /\ r.h = Nil => r.call = "none"
      /\ r.h # Nil => r.call = IF r.kind = "connect" THEN "SSLBump" ELSE "BeforeRequest"
  BY <1>1 DEF Placed, CalledAt, Unproxied, CallOfTunnel, CallOfRequest
<1>3. PICK d \in Decisions \cup {NoMatch} :
        LET h == IF r.h = Nil THEN Nil ELSE Resolve(r.h, d)
            s == IF h = Nil THEN DefaultSuperProxy ELSE SuperProxy(h)
        IN conn' = [conn EXCEPT ![c] =
             At(CallIn([r EXCEPT !.h = h, !.proxy = s], "SuperProxy"),
                IF s = Nil THEN "block" ELSE "token")]
  BY DEF SetSuperProxy
<1> DEFINE h == IF r.h = Nil THEN Nil ELSE Resolve(r.h, d)
           s == IF h = Nil THEN DefaultSuperProxy ELSE SuperProxy(h)
           pc == IF s = Nil THEN "block" ELSE "token"
           m == [r EXCEPT !.h = h, !.proxy = s]
           a == CallIn(m, "SuperProxy")
           e == At(a, pc)
<1>4. /\ h \in HijackerStates \cup {Nil} /\ (h = Nil <=> r.h = Nil)
      /\ r.h # Nil => h.sslBump = r.h.sslBump
  <2>1. CASE r.h = Nil
    BY <2>1
  <2>2. CASE r.h # Nil
    <3>1. r.h \in HijackerStates
      BY <1>1, <2>2 DEF Typed
    <3> QED BY <2>2, <3>1, HijackerTypes, NilAssumption
  <2> QED BY <2>1, <2>2
<1>5. s \in SuperProxies \cup {Nil}
  <2>1. CASE h = Nil
    BY <2>1, SuperProxiesAssumption
  <2>2. CASE h # Nil
    <3>1. h \in HijackerStates
      BY <1>4, <2>2
    <3> HIDE DEF h
    <3> QED BY <2>2, <3>1, HijackerTypes
  <2> QED BY <2>1, <2>2
<1>6. conn' = [conn EXCEPT ![c] = e]
  BY <1>3
<1> HIDE DEF h, s
<1>7. /\ Fields(m) /\ m.kind = r.kind /\ m.h = h /\ m.call = r.call
      /\ m.host = r.host /\ m.proxy = s /\ m.err = r.err /\ m.via = r.via
      /\ m.wire = r.wire /\ m.buf = r.buf
  BY <1>1 DEF Fields
<1> HIDE DEF m
<1>8. /\ Fields(a) /\ a.kind = r.kind /\ a.h = h
      /\ a.host = r.host /\ a.proxy = s /\ a.err = r.err /\ a.via = r.via
      /\ a.wire = r.wire /\ a.buf = r.buf
      /\ h = Nil => a.call = r.call
      /\ h # Nil => a.call = IF r.kind = "connect" THEN "TunnelSuperProxy" ELSE "SuperProxy"
  BY <1>7, CallInFields
<1> HIDE DEF a
<1>9. /\ Fields(e) /\ e.pc = pc /\ e.kind = r.kind /\ e.h = h /\ e.call = a.call
      /\ e.host = r.host /\ e.proxy = s /\ e.err = r.err /\ e.via = r.via
      /\ e.wire = r.wire /\ e.buf = r.buf
  BY <1>8, AtFields
<1> HIDE DEF e
<1>10. Typed(e)
  BY <1>1, <1>4, <1>5, <1>9 DEF Typed, Places
<1>11. Placed(e)
  BY <1>1, <1>2, <1>4, <1>9 DEF Placed, Unproxied, IsTLS
<1>12. CalledAt(e)
  BY <1>2, <1>4, <1>8, <1>9 DEF CalledAt, CallOpening, CallOfTunnel, CallOfRequest
<1>13. Calls(r, e)
  BY <1>2, <1>4, <1>8, <1>9, FollowsPairs DEF Calls
<1> QED BY <1>1, <1>2, <1>6, <1>9, <1>10, <1>11, <1>12, <1>13, QuietMove DEF Moves, Sound

\* What is known of a request that has its token, if it needs one.
LEMMA ProxiedCall ==
    ASSUME NEW r, Placed(r), CalledAt(r), r.pc \in {"block", "dialer", "table", "launch", "doing"}
    PROVE  /\ r.host \in Hosts /\ (r.kind = "connect" => ~IsTLS(r))
           /\ r.h = Nil => r.call = "none"
           /\ r.h # Nil /\ r.pc = "block" =>
                r.call = IF r.kind = "connect" THEN "TunnelSuperProxy" ELSE "SuperProxy"
           /\ r.h # Nil /\ r.pc = "dialer" =>
                r.call = IF r.kind = "connect" THEN "TunnelBlock" ELSE "HijackResponse"
           /\ r.h # Nil /\ r.pc \in {"table", "launch", "doing"} =>
                r.call = IF r.kind = "connect" THEN "TunnelDial" ELSE "Dial"
  BY DEF Placed, CalledAt, CallOfTunnel, CallOfRequest

\* A request is blocked, or answered by the hijacker, or goes on.
LEMMA BlockOrHijackGoes ==
    ASSUME NEW c \in Conns, PCInv, BlockOrHijack(c)
    PROVE  Goes(c)
<1> DEFINE r == conn[c]
<1>1. Typed(r) /\ Placed(r) /\ CalledAt(r) /\ Fields(r) /\ r.pc = "block"
  BY SoundConn DEF BlockOrHijack
<1>2. /\ r.host \in Hosts /\ (r.kind = "connect" => ~IsTLS(r))
      /\ r.h = Nil => r.call = "none"
      /\ r.h # Nil => r.call = IF r.kind = "connect" THEN "TunnelSuperProxy" ELSE "SuperProxy"
  BY <1>1, ProxiedCall
<1>3. ASSUME NEW err \in {"nil", "err"}, r.h # Nil,
             conn' = [conn EXCEPT ![c] = [At(CallIn(r, "Block"), "finish") EXCEPT !.err = err]]
      PROVE  Goes(c)
  <2> DEFINE m == CallIn(r, "Block")
             a == At(m, "finish")
             e == [a EXCEPT !.err = err]
  <2>1. /\ Fields(m) /\ m.kind = r.kind /\ m.h = r.h
        /\ m.host = r.host /\ m.proxy = r.proxy /\ m.err = r.err /\ m.via = r.via
        /\ m.wire = r.wire /\ m.buf = r.buf
        /\ m.call = IF r.kind = "connect" THEN "TunnelBlock" ELSE "Block"
    BY <1>1, <1>3, CallInFields
  <2> HIDE DEF m
  <2>2. /\ Fields(a) /\ a.pc = "finish" /\ a.kind = r.kind /\ a.h = r.h /\ a.call = m.call
        /\ a.host = r.host /\ a.proxy = r.proxy /\ a.err = r.err /\ a.via = r.via
        /\ a.wire = r.wire /\ a.buf = r.buf
    BY <2>1, AtFields
  <2> HIDE DEF a
  <2>3. /\ Fields(e) /\ e.pc = "finish" /\ e.kind = r.kind /\ e.h = r.h /\ e.call = m.call
        /\ e.host = r.host /\ e.proxy = r.proxy /\ e.err = err /\ e.via = r.via
        /\ e.wire = r.wire /\ e.buf = r.buf
    BY <2>2 DEF Fields
  <2>4. conn' = [conn EXCEPT ![c] = e]
    BY <1>3 DEF a, m
  <2> HIDE DEF e
  <2>5. Typed(e)
    BY <1>1, <2>3 DEF Typed, Places
  <2>6. Placed(e)
    BY <1>1, <1>2, <2>3 DEF Placed, Unproxied, IsTLS
  <2>7. CalledAt(e)
    BY <1>3, <2>1, <2>3 DEF CalledAt, CallOpening, CallOfTunnel, CallOfRequest
  <2>8. Calls(r, e)
    BY <1>2, <1>3, <2>1, <2>3, FollowsPairs DEF Calls
  <2> QED BY <1>1, <2>3, <2>4, <2>5, <2>6, <2>7, <2>8, QuietMove DEF Moves, Sound
<1>4. ASSUME NEW a, NEW pc,
             conn' = [conn EXCEPT ![c] = At(a, pc)],
             \/ r.kind = "connect" /\ a = CallIn(r, "Block") /\ pc = "dialer"
             \/ r.kind # "connect" /\ a = Called(r, "HijackResponse") /\ pc \in {"fake", "dialer"}
      PROVE  Goes(c)
  <2> DEFINE e == At(a, pc)
  <2>1. /\ Fields(a) /\ a.kind = r.kind /\ a.h = r.h
        /\ a.host = r.host /\ a.proxy = r.proxy /\ a.err = r.err /\ a.via = r.via
        /\ a.wire = r.wire /\ a.buf = r.buf
        /\ r.h = Nil => a.call = "none"
        /\ r.h # Nil => a.call = IF r.kind = "connect" THEN "TunnelBlock" ELSE "HijackResponse"
    <3>1. CASE r.kind = "connect"
      BY <1>1, <1>2, <1>4, <3>1, CallInFields
    <3>2. CASE r.kind # "connect"
      BY <1>1, <1>2, <1>4, <3>2, CalledFields
    <3> QED BY <3>1, <3>2
  <2>2. /\ Fields(e) /\ e.pc = pc /\ e.kind = r.kind /\ e.h = r.h /\ e.call = a.call
        /\ e.host = r.host /\ e.proxy = r.proxy /\ e.err = r.err /\ e.via = r.via
        /\ e.wire = r.wire /\ e.buf = r.buf
    BY <2>1, AtFields
  <2> HIDE DEF e
  <2>3. Typed(e)
    BY <1>1, <1>4, <2>2 DEF Typed, Places
  <2>4. Placed(e)
    BY <1>1, <1>2, <1>4, <2>2 DEF Placed, Unproxied, IsTLS
  <2>5. CalledAt(e)
    BY <1>2, <1>4, <2>1, <2>2 DEF CalledAt, CallOpening, CallOfTunnel, CallOfRequest
  <2>6. Calls(r, e)
    BY <1>2, <2>1, <2>2, FollowsPairs DEF Calls
  <2>7. Moves(c, e)
    BY <1>4, <2>3, <2>4, <2>5, <2>6 DEF Moves, Sound, e
  <2> QED BY <1>1, <1>4, <2>2, <2>7, QuietMove
<1>5. \/ /\ r.h # Nil
         /\ \E err \in {"nil", "err"} :
              conn' = [conn EXCEPT ![c] = [At(CallIn(r, "Block"), "finish") EXCEPT !.err = err]]
      \/ \E pc : /\ conn' = [conn EXCEPT ![c] = At(CallIn(r, "Block"), pc)]
                 /\ r.kind = "connect" /\ pc = "dialer"
      \/ \E pc : /\ conn' = [conn EXCEPT ![c] = At(Called(r, "HijackResponse"), pc)]
                 /\ r.kind # "connect" /\ pc \in {"fake", "dialer"}
  BY DEF BlockOrHijack
<1> QED BY <1>3, <1>4, <1>5

\* The host client is told how to dial.
LEMMA SetClientDialerGoes ==
    ASSUME NEW c \in Conns, PCInv, SetClientDialer(c)
    PROVE  Goes(c) /\ dial' \in Dialers
<1> DEFINE r == conn[c]
           a == CallIn(r, "Dial")
           e == At(a, "table")
<1>1. Typed(r) /\ Placed(r) /\ CalledAt(r) /\ Fields(r) /\ r.pc = "dialer"
  BY SoundConn DEF SetClientDialer
<1>2. /\ r.host \in Hosts /\ (r.kind = "connect" => ~IsTLS(r))
      /\ r.h = Nil => r.call = "none"
      /\ r.h # Nil => r.call = IF r.kind = "connect" THEN "TunnelBlock" ELSE "HijackResponse"
  BY <1>1, ProxiedCall
<1>3. /\ Fields(a) /\ a.kind = r.kind /\ a.h = r.h
      /\ a.host = r.host /\ a.proxy = r.proxy /\ a.err = r.err /\ a.via = r.via
      /\ a.wire = r.wire /\ a.buf = r.buf
      /\ r.h = Nil => a.call = r.call
      /\ r.h # Nil => a.call = IF r.kind = "connect" THEN "TunnelDial" ELSE "Dial"
  BY <1>1, CallInFields
<1>4. conn' = [conn EXCEPT ![c] = e]
  BY DEF SetClientDialer
<1>5. dial' \in Dialers
  <2>1. CASE r.h = Nil
    BY <2>1 DEF SetClientDialer, Dialers
  <2>2. CASE r.h # Nil
    <3>1. r.h \in HijackerStates
      BY <1>1, <2>2 DEF Typed
    <3>2. Dial(r.h) \in Dialers
      BY <3>1, HijackerTypes
    <3> QED BY <2>2, <3>2 DEF SetClientDialer
  <2> QED BY <2>1, <2>2
<1> HIDE DEF a
<1>6. /\ Fields(e) /\ e.pc = "table" /\ e.kind = r.kind /\ e.h = r.h /\ e.call = a.call
      /\ e.host = r.host /\ e.proxy = r.proxy /\ e.err = r.err /\ e.via = r.via
      /\ e.wire = r.wire /\ e.buf = r.buf
  BY <1>3, AtFields
<1> HIDE DEF e
<1>7. Typed(e)
  BY <1>1, <1>6 DEF Typed, Places
<1>8. Placed(e)
  BY <1>1, <1>2, <1>6 DEF Placed, Unproxied, IsTLS
<1>9. CalledAt(e)
  BY <1>2, <1>3, <1>6 DEF CalledAt, CallOpening, CallOfTunnel, CallOfRequest
<1>10. Calls(r, e)
  BY <1>2, <1>3, <1>6, FollowsPairs DEF Calls
<1> QED BY <1>1, <1>4, <1>5, <1>6, <1>7, <1>8, <1>9, <1>10, QuietMove DEF Moves, Sound

\* A request that the hijacker answers ends.
LEMMA AnsweredGoes ==
    ASSUME NEW c \in Conns, PCInv, conn[c].pc = "fake", conn[c].kind # "connect",
           NEW n \in Nat, NEW b \in Filled(conn[c], n),
           conn' = [conn EXCEPT ![c] = [At(Called(Read(conn[c], n, b), "OnResponse"), "finish")
                                            EXCEPT !.err = "nil", !.peeked = FALSE]]
    PROVE  Goes(c)
<1> DEFINE r == conn[c]
           m == Read(r, n, b)
           d == Called(m, "OnResponse")
           a == At(d, "finish")
           e == [a EXCEPT !.err = "nil", !.peeked = FALSE]
<1>1. Typed(r) /\ Placed(r) /\ CalledAt(r) /\ Fields(r)
  BY SoundConn
<1>2. /\ r.host \in Hosts
      /\ r.h = Nil => r.call = "none"
      /\ r.h # Nil => r.call = "HijackResponse"
  BY <1>1 DEF Placed, CalledAt, CallOfRequest, CallOpening
<1>3. /\ Fields(m) /\ m.kind = r.kind /\ m.h = r.h /\ m.call = r.call
      /\ m.host = r.host /\ m.proxy = r.proxy /\ m.err = r.err /\ m.via = r.via
      /\ m.wire \in Seq(Items) /\ m.buf \in Nat /\ m.buf <= Len(m.wire)
  BY <1>1, ReadFields
<1> HIDE DEF m
<1>4. /\ Fields(d) /\ d.kind = r.kind /\ d.h = r.h
      /\ d.call = (IF r.h = Nil THEN r.call ELSE "OnResponse")
      /\ d.host = r.host /\ d.proxy = r.proxy /\ d.err = r.err /\ d.via = r.via
      /\ d.wire = m.wire /\ d.buf = m.buf
  BY <1>3, CalledFields
<1> HIDE DEF d
<1>5. /\ Fields(a) /\ a.pc = "finish" /\ a.kind = r.kind /\ a.h = r.h /\ a.call = d.call
      /\ a.host = r.host /\ a.proxy = r.proxy /\ a.err = r.err /\ a.via = r.via
      /\ a.wire = m.wire /\ a.buf = m.buf
  BY <1>4, AtFields
<1> HIDE DEF a
<1>6. /\ Fields(e) /\ e.pc = "finish" /\ e.kind = r.kind /\ e.h = r.h /\ e.call = d.call
      /\ e.host = r.host /\ e.proxy = r.proxy /\ e.err = "nil" /\ e.via = r.via
      /\ e.wire = m.wire /\ e.buf = m.buf
  BY <1>5 DEF Fields
<1>7. conn' = [conn EXCEPT ![c] = e]
  BY DEF a, d, m
<1> HIDE DEF e
<1>8. Typed(e)
  BY <1>1, <1>3, <1>6 DEF Typed, Places
<1>9. Placed(e)
  BY <1>1, <1>2, <1>6 DEF Placed, Unproxied, IsTLS
<1>10. CalledAt(e)
  BY <1>2, <1>4, <1>6 DEF CalledAt, CallOpening, CallOfTunnel, CallOfRequest
<1>11. Calls(r, e)
  BY <1>2, <1>4, <1>6, FollowsPairs DEF Calls
<1> QED BY <1>6, <1>7, <1>8, <1>9, <1>10, <1>11, QuietMove DEF Moves, Sound

\* A request that is read from the client, once or again, is under way.
LEMMA SentGoes ==
    ASSUME NEW c \in Conns, PCInv, conn[c].kind # "connect",
           NEW n \in Nat, NEW b \in Filled(conn[c], n), NEW name, NEW e,
           \/ conn[c].pc = "doing" /\ name = "OnRequest"
           \/ conn[c].pc = "sent" /\ name = "OnRequestAgain",
           \/ e = At(Called(Read(conn[c], n, b), name), "sent")
           \/ e = [At(Called(Read(conn[c], n, b), name), "sent") EXCEPT !.peeked = FALSE],
           conn' = [conn EXCEPT ![c] = e]
    PROVE  Goes(c)
<1> DEFINE r == conn[c]
           m == Read(r, n, b)
           d == Called(m, name)
           a == At(d, "sent")
<1>1. Typed(r) /\ Placed(r) /\ CalledAt(r) /\ Fields(r)
  BY SoundConn
<1>2. /\ r.host \in Hosts
      /\ r.h = Nil => r.call = "none"
      /\ r.h # Nil /\ r.pc = "doing" => r.call = "Dial"
      /\ r.h # Nil /\ r.pc = "sent" => r.call \in {"OnRequest", "OnRequestAgain"}
  BY <1>1 DEF Placed, CalledAt, CallOfRequest
<1>3. /\ Fields(m) /\ m.kind = r.kind /\ m.h = r.h /\ m.call = r.call
      /\ m.host = r.host /\ m.proxy = r.proxy /\ m.err = r.err /\ m.via = r.via
      /\ m.wire \in Seq(Items) /\ m.buf \in Nat /\ m.buf <= Len(m.wire)
  BY <1>1, ReadFields
<1>4. e = a \/ e = [a EXCEPT !.peeked = FALSE]
  OBVIOUS
<1> HIDE DEF m
<1>5. /\ Fields(d) /\ d.kind = r.kind /\ d.h = r.h
      /\ d.call = (IF r.h = Nil THEN r.call ELSE name)
      /\ d.host = r.host /\ d.proxy = r.proxy /\ d.err = r.err /\ d.via = r.via
      /\ d.wire = m.wire /\ d.buf = m.buf
  BY <1>3, CalledFields
<1> HIDE DEF d
<1>6. /\ Fields(a) /\ a.pc = "sent" /\ a.kind = r.kind /\ a.h = r.h /\ a.call = d.call
      /\ a.host = r.host /\ a.proxy = r.proxy /\ a.err = r.err /\ a.via = r.via
      /\ a.wire = m.wire /\ a.buf = m.buf
  BY <1>5, AtFields
<1> HIDE DEF a
<1>7. /\ Fields(e) /\ e.pc = "sent" /\ e.kind = r.kind /\ e.h = r.h /\ e.call = d.call
      /\ e.host = r.host /\ e.proxy = r.proxy /\ e.err = r.err /\ e.via = r.via
      /\ e.wire = m.wire /\ e.buf = m.buf
  BY <1>4, <1>6 DEF Fields
<1>8. Typed(e)
  BY <1>1, <1>3, <1>7 DEF Typed, Places
<1>9. Placed(e)
  BY <1>1, <1>2, <1>7 DEF Placed, Unproxied, IsTLS
<1>10. CalledAt(e)
  BY <1>2, <1>5, <1>7 DEF CalledAt, CallOpening, CallOfTunnel, CallOfRequest
<1>11. Calls(r, e)
  BY <1>2, <1>5, <1>7, FollowsPairs DEF Calls
<1> QED BY <1>7, <1>8, <1>9, <1>10, <1>11, QuietMove DEF Moves, Sound

\* A request ends: it was answered by the host, or it failed.
LEMMA EndedGoes ==
    ASSUME NEW c \in Conns, PCInv, conn[c].kind # "connect",
           NEW err \in {"nil", "eof", "err"}, NEW name,
           \/ conn[c].pc = "fake" /\ name = "OnRequest"
           \/ conn[c].pc = "doing" /\ name = conn[c].call
           \/ conn[c].pc = "sent" /\ name \in {conn[c].call, "OnResponse"},
           conn' = [conn EXCEPT ![c] = [At(Called(conn[c], name), "finish") EXCEPT !.err = err]]
    PROVE  Goes(c)
<1> DEFINE r == conn[c]
           d == Called(r, name)
           a == At(d, "finish")
           e == [a EXCEPT !.err = err]
<1>1. Typed(r) /\ Placed(r) /\ CalledAt(r) /\ Fields(r)
  BY SoundConn
<1>2. /\ r.host \in Hosts
      /\ r.h = Nil => r.call = "none"
      /\ r.h # Nil /\ r.pc = "fake" => r.call = "HijackResponse"
      /\ r.h # Nil /\ r.pc = "doing" => r.call = "Dial"
      /\ r.h # Nil /\ r.pc = "sent" => r.call \in {"OnRequest", "OnRequestAgain"}
  BY <1>1 DEF Placed, CalledAt, CallOfRequest, CallOpening
<1>3. /\ Fields(d) /\ d.kind = r.kind /\ d.h = r.h
      /\ d.call = (IF r.h = Nil THEN r.call ELSE name)
      /\ d.host = r.host /\ d.proxy = r.proxy /\ d.err = r.err /\ d.via = r.via
      /\ d.wire = r.wire /\ d.buf = r.buf
  BY <1>1, CalledFields
<1> HIDE DEF d
<1>4. /\ Fields(a) /\ a.pc = "finish" /\ a.kind = r.kind /\ a.h = r.h /\ a.call = d.call
      /\ a.host = r.host /\ a.proxy = r.proxy /\ a.err = r.err /\ a.via = r.via
      /\ a.wire = r.wire /\ a.buf = r.buf
  BY <1>3, AtFields
<1> HIDE DEF a
<1>5. /\ Fields(e) /\ e.pc = "finish" /\ e.kind = r.kind /\ e.h = r.h /\ e.call = d.call
      /\ e.host = r.host /\ e.proxy = r.proxy /\ e.err = err /\ e.via = r.via
      /\ e.wire = r.wire /\ e.buf = r.buf
  BY <1>4 DEF Fields
<1>6. conn' = [conn EXCEPT ![c] = e]
  BY DEF a, d
<1> HIDE DEF e
<1>7. Typed(e)
  BY <1>1, <1>5 DEF Typed, Places
<1>8. Placed(e)
  BY <1>1, <1>2, <1>5 DEF Placed, Unproxied, IsTLS
<1>9. CalledAt(e)
  BY <1>2, <1>3, <1>5 DEF CalledAt, CallOpening, CallOfTunnel, CallOfRequest
<1>10. Calls(r, e)
  BY <1>2, <1>3, <1>5, FollowsPairs DEF Calls
<1> QED BY <1>5, <1>6, <1>7, <1>8, <1>9, <1>10, QuietMove DEF Moves, Sound

\* DoFake.
LEMMA DoFakeGoes ==
    ASSUME NEW c \in Conns, PCInv, DoFake(c)
    PROVE  Goes(c)
<1> DEFINE r == conn[c]
           n == OwnItems(r)
<1>1. r.kind # "connect" /\ r.pc = "fake"
  BY SoundConn DEF DoFake, Placed
<1>2. n \in Nat
  BY DEF OwnItems
<1>3. \/ \E b \in Filled(r, n) :
           conn' = [conn EXCEPT ![c] = [At(Called(Read(r, n, b), "OnResponse"), "finish")
                                           EXCEPT !.err = "nil", !.peeked = FALSE]]
      \/ \E err \in {"eof", "err"} :
           conn' = [conn EXCEPT ![c] = [At(Called(r, "OnRequest"), "finish") EXCEPT !.err = err]]
  BY DEF DoFake
<1> HIDE DEF n
<1> QED BY <1>1, <1>2, <1>3, AnsweredGoes, EndedGoes

\* HostClient.Do: its attempts, and its return.
LEMMA SendRequestGoes ==
    ASSUME NEW c \in Conns, PCInv, SendRequest(c)
    PROVE  Goes(c)
<1> DEFINE r == conn[c]
           own == IF r.kind = "get" THEN 1 ELSE OwnItems(r)
<1>1. r.kind # "connect" /\ r.pc = "doing"
  BY DEF SendRequest
<1>2. own \in Nat
  BY DEF OwnItems
<1>3. PICK b \in Filled(r, own) :
        conn' = [conn EXCEPT ![c] = [At(Called(Read(r, own, b), "OnRequest"), "sent")
                                        EXCEPT !.peeked = FALSE]]
  BY DEF SendRequest
<1> HIDE DEF own
<1> QED BY <1>1, <1>2, <1>3, SentGoes

LEMMA SendAgainGoes ==
    ASSUME NEW c \in Conns, PCInv, SendAgain(c)
    PROVE  Goes(c)
<1> DEFINE r == conn[c]
<1>1. r.kind # "connect" /\ r.pc = "sent"
  BY DEF SendAgain
<1>2. Len(r.wire) \in Nat
  BY SoundConn DEF Typed
<1>3. PICK n \in 0 .. Len(r.wire) : \E b \in Filled(r, n) :
        conn' = [conn EXCEPT ![c] = At(Called(Read(r, n, b), "OnRequestAgain"), "sent")]
  BY DEF SendAgain
<1>4. n \in Nat
  BY <1>2
<1> QED BY <1>1, <1>3, <1>4, SentGoes

LEMMA DoReturnsGoes ==
    ASSUME NEW c \in Conns, PCInv, DoReturns(c)
    PROVE  Goes(c)
  BY EndedGoes DEF DoReturns

\* A tunnel ends.
LEMMA DoRawReturnsGoes ==
    ASSUME NEW c \in Conns, PCInv, DoRawReturns(c)
    PROVE  Goes(c)
<1> DEFINE r == conn[c]
           a == At(r, "finish")
<1>1. Typed(r) /\ Placed(r) /\ CalledAt(r) /\ Fields(r) /\ r.pc = "doing" /\ r.kind = "connect"
  BY SoundConn DEF DoRawReturns
<1>2. /\ r.host \in Hosts /\ ~IsTLS(r)
      /\ r.h = Nil => r.call = "none"
      /\ r.h # Nil => r.call = "TunnelDial"
  BY <1>1, ProxiedCall
<1>3. PICK err \in {"nil", "eof", "err"}, left \in BOOLEAN :
        conn' = [conn EXCEPT ![c] = [a EXCEPT !.err = err, !.lingers = left]]
  BY DEF DoRawReturns
<1> DEFINE e == [a EXCEPT !.err = err, !.lingers = left]
<1>4. /\ Fields(a) /\ a.pc = "finish" /\ a.kind = r.kind /\ a.h = r.h /\ a.call = r.call
      /\ a.host = r.host /\ a.proxy = r.proxy /\ a.err = r.err /\ a.via = r.via
      /\ a.wire = r.wire /\ a.buf = r.buf
  BY <1>1, AtFields
<1> HIDE DEF a
<1>5. /\ Fields(e) /\ e.pc = "finish" /\ e.kind = r.kind /\ e.h = r.h /\ e.call = r.call
      /\ e.host = r.host /\ e.proxy = r.proxy /\ e.err = err /\ e.via = r.via
      /\ e.wire = r.wire /\ e.buf = r.buf
  BY <1>4 DEF Fields
<1> HIDE DEF e
<1>6. Typed(e)
  BY <1>1, <1>5 DEF Typed, Places
<1>7. Placed(e)
  BY <1>1, <1>2, <1>5 DEF Placed, Unproxied, IsTLS
<1>8. CalledAt(e)
  BY <1>1, <1>2, <1>5 DEF CalledAt, CallOpening, CallOfTunnel, CallOfRequest
<1>9. Moves(c, e)
  BY <1>3, <1>5, <1>6, <1>7, <1>8 DEF Moves, Sound, Calls, e
<1> QED BY <1>1, <1>5, <1>9, QuietMove

-----------------------------------------------------------------------------
\* The steps that are not quiet move one connection too.

\* A token is taken.
LEMMA AcquireTokenMoves ==
    ASSUME NEW c \in Conns, PCInv, AcquireToken(c)
    PROVE  \E e : Moves(c, e) /\ e.pc = "block" /\ e.proxy = conn[c].proxy
<1> DEFINE r == conn[c]
           e == At(r, "block")
<1>1. Typed(r) /\ Placed(r) /\ CalledAt(r) /\ Fields(r) /\ r.pc = "token"
  BY SoundConn DEF AcquireToken
<1>2. /\ Fields(e) /\ e.pc = "block" /\ e.kind = r.kind /\ e.h = r.h /\ e.call = r.call
      /\ e.host = r.host /\ e.proxy = r.proxy /\ e.err = r.err /\ e.via = r.via
      /\ e.wire = r.wire /\ e.buf = r.buf
  BY <1>1, AtFields
<1>3. conn' = [conn EXCEPT ![c] = e]
  BY DEF AcquireToken
<1> HIDE DEF e
<1>4. Typed(e)
  BY <1>1, <1>2 DEF Typed, Places
<1>5. Placed(e) /\ CalledAt(e)
  BY <1>1, <1>2
     DEF Placed, CalledAt, Unproxied, IsTLS, CallOpening, CallOfTunnel, CallOfRequest
<1> QED BY <1>2, <1>3, <1>4, <1>5 DEF Moves, Sound, Calls

\* A host client is found or made.
LEMMA GetHostClientMoves ==
    ASSUME NEW c \in Conns, PCInv, NEW pc \in {"launch", "doing"}, NEW via \in Dialers,
           conn[c].pc = "table", conn' = [conn EXCEPT ![c] = [At(@, pc) EXCEPT !.via = via]]
    PROVE  \E e : Moves(c, e) /\ e.pc = pc /\ e.proxy = conn[c].proxy /\ e.h = conn[c].h
<1> DEFINE r == conn[c]
           a == At(r, pc)
           e == [a EXCEPT !.via = via]
<1>1. Typed(r) /\ Placed(r) /\ CalledAt(r) /\ Fields(r)
  BY SoundConn
<1>2. /\ Fields(a) /\ a.pc = pc /\ a.kind = r.kind /\ a.h = r.h /\ a.call = r.call
      /\ a.host = r.host /\ a.proxy = r.proxy /\ a.err = r.err /\ a.via = r.via
      /\ a.wire = r.wire /\ a.buf = r.buf
  BY <1>1, AtFields
<1>3. conn' = [conn EXCEPT ![c] = e]
  OBVIOUS
<1> HIDE DEF a
<1>4. /\ Fields(e) /\ e.pc = pc /\ e.kind = r.kind /\ e.h = r.h /\ e.call = r.call
      /\ e.host = r.host /\ e.proxy = r.proxy /\ e.err = r.err /\ e.via = via
      /\ e.wire = r.wire /\ e.buf = r.buf
  BY <1>2 DEF Fields
<1> HIDE DEF e
<1>5. Typed(e)
  BY <1>1, <1>4 DEF Typed, Places
<1>6. Placed(e) /\ CalledAt(e)
  BY <1>1, <1>4
     DEF Placed, CalledAt, Unproxied, IsTLS, CallOpening, CallOfTunnel, CallOfRequest
<1> QED BY <1>3, <1>4, <1>5, <1>6 DEF Moves, Sound, Calls

\* A cleaner is launched.
LEMMA LaunchCleanerMoves ==
    ASSUME NEW c \in Conns, PCInv, LaunchCleaner(c)
    PROVE  \E e : Moves(c, e) /\ e.pc = "doing" /\ e.proxy = conn[c].proxy
<1> DEFINE r == conn[c]
           e == At(r, "doing")
<1>1. Typed(r) /\ Placed(r) /\ CalledAt(r) /\ Fields(r) /\ r.pc = "launch"
  BY SoundConn DEF LaunchCleaner
<1>2. /\ Fields(e) /\ e.pc = "doing" /\ e.kind = r.kind /\ e.h = r.h /\ e.call = r.call
      /\ e.host = r.host /\ e.proxy = r.proxy /\ e.err = r.err /\ e.via = r.via
      /\ e.wire = r.wire /\ e.buf = r.buf
  BY <1>1, AtFields
<1>3. conn' = [conn EXCEPT ![c] = e]
  BY DEF LaunchCleaner
<1> HIDE DEF e
<1>4. Typed(e)
  BY <1>1, <1>2 DEF Typed, Places
<1>5. Placed(e) /\ CalledAt(e)
  BY <1>1, <1>2
     DEF Placed, CalledAt, Unproxied, IsTLS, CallOpening, CallOfTunnel, CallOfRequest
<1> QED BY <1>2, <1>3, <1>4, <1>5 DEF Moves, Sound, Calls

\* A request ends.
LEMMA FinishMoves ==
    ASSUME NEW c \in Conns, PCInv, Finish(c)
    PROVE  \E e : Moves(c, e) /\ e.pc # "launch" /\ e.proxy = Nil
<1> DEFINE r == conn[c]
           after == IF r.kind = "connect" THEN r ELSE Called(r, "AfterResponse")
<1>1. Typed(r) /\ Placed(r) /\ CalledAt(r) /\ Fields(r) /\ r.pc = "finish"
  BY SoundConn DEF Finish
<1>2. /\ r.host \in Hosts /\ (r.kind = "connect" => ~IsTLS(r))
      /\ r.h = Nil => r.call = "none"
      /\ r.h # Nil /\ r.kind = "connect" => r.call \in {"TunnelBlock", "TunnelDial"}
      /\ r.h # Nil /\ r.kind # "connect" => r.call \in {"Block", "Dial", "OnRequest", "OnRequestAgain", "OnResponse"}
  BY <1>1 DEF Placed, CalledAt, CallOfTunnel, CallOfRequest
<1>3. /\ Fields(after) /\ after.kind = r.kind /\ after.h = r.h
      /\ after.call = (IF r.kind = "connect" \/ r.h = Nil THEN r.call ELSE "AfterResponse")
      /\ after.host = r.host /\ after.proxy = r.proxy /\ after.err = r.err /\ after.via = r.via
      /\ after.wire = r.wire /\ after.buf = r.buf
  BY <1>1, CalledFields
<1>4. conn' = [conn EXCEPT ![c] =
            IF IsTLS(r) /\ r.err = "nil"
            THEN [At(after, "bump") EXCEPT !.proxy = Nil, !.via = Nil, !.kind = "get"]
            ELSE Return(after, r.err)]
  BY DEF Finish
<1> HIDE DEF after
<1>5. Calls(r, after) /\ after.call \in Closing
  BY <1>2, <1>3, FollowsPairs DEF Calls, Closing
<1>6. CASE IsTLS(r) /\ r.err = "nil"
  <2> DEFINE a == At(after, "bump")
             e == [a EXCEPT !.proxy = Nil, !.via = Nil, !.kind = "get"]
  <2>1. /\ Fields(a) /\ a.pc = "bump" /\ a.h = r.h /\ a.call = after.call
        /\ a.host = r.host /\ a.err = r.err /\ a.wire = r.wire /\ a.buf = r.buf
    BY <1>3, AtFields
  <2>2. conn' = [conn EXCEPT ![c] = e]
    BY <1>4, <1>6
  <2> HIDE DEF a
  <2>3. /\ Fields(e) /\ e.pc = "bump" /\ e.kind = "get" /\ e.h = r.h /\ e.call = after.call
        /\ e.host = r.host /\ e.proxy = Nil /\ e.err = r.err /\ e.via = Nil
        /\ e.wire = r.wire /\ e.buf = r.buf
    BY <2>1 DEF Fields
  <2> HIDE DEF e
  <2>4. Typed(e)
    BY <1>1, <2>3 DEF Typed, Places, Dialers
  <2>5. Placed(e)
    BY <1>2, <2>3 DEF Placed, Unproxied
  <2>6. CalledAt(e)
    BY <1>2, <1>3, <1>6, <2>3
       DEF CalledAt, IsTLS, CallOpening, CallOfTunnel, CallOfRequest
  <2> QED BY <1>5, <2>2, <2>3, <2>4, <2>5, <2>6 DEF Moves, Sound, Calls
<1>7. CASE ~(IsTLS(r) /\ r.err = "nil")
  <2> DEFINE e == Return(after, r.err)
  <2>1. /\ after.wire \in Seq(Items) /\ after.buf \in Nat /\ after.buf <= Len(after.wire)
        /\ r.err \in {"nil", "eof", "err"}
    BY <1>1, <1>3 DEF Typed
  <2>2. Sound(e) /\ e.pc = "return" /\ e.proxy = Nil /\ e.call = after.call
    BY <1>5, <2>1, ReturnSound
  <2>3. conn' = [conn EXCEPT ![c] = e]
    BY <1>4, <1>7
  <2> HIDE DEF e
  <2> QED BY <1>5, <2>2, <2>3 DEF Moves, Calls
<1> QED BY <1>6, <1>7

-----------------------------------------------------------------------------
\* Who holds a token of s, and who is to launch a cleaner.
Holders(s) == {c \in Conns : Holds(conn[c], s)}
Launchers(tls) == {c \in Conns : Launches(conn[c], tls)}

\* The two invariants, of the sets that they count.
LEMMA Counts ==
    /\ TokensConserved <=>
         \A s \in SuperProxies : tokens[s] + Cardinality(Holders(s)) = MaxConcurrency
    /\ OneTableCleaner <=>
         \A tls \in BOOLEAN :
            cleaners[tls] + Cardinality(Launchers(tls)) = IF Clients(tls) = {} THEN 0 ELSE 1
  BY DEF TokensConserved, OneTableCleaner, Holders, Launchers, Holds, Launches

\* The sets are finite.
LEMMA FiniteCounts ==
    /\ \A s : IsFiniteSet(Holders(s)) /\ Cardinality(Holders(s)) \in Nat
    /\ \A tls : IsFiniteSet(Launchers(tls)) /\ Cardinality(Launchers(tls)) \in Nat
<1>1. ASSUME NEW S \in SUBSET Conns PROVE IsFiniteSet(S) /\ Cardinality(S) \in Nat
  BY ConnsAssumption, FS_Subset, FS_CardinalityType
<1>2. \A s : Holders(s) \in SUBSET Conns
  BY DEF Holders
<1>3. \A tls : Launchers(tls) \in SUBSET Conns
  BY DEF Launchers
<1> QED BY <1>1, <1>2, <1>3

\* A step of one connection leaves the others alone.
LEMMA MovesOne ==
    ASSUME NEW c \in Conns, PCInv, NEW e, Moves(c, e)
    PROVE  /\ DOMAIN conn' = Conns
           /\ conn'[c] = e
           /\ \A x \in Conns \ {c} : conn'[x] = conn[x]
           /\ \A x \in Conns : Sound(conn[x])'
<1>1. DOMAIN conn = Conns /\ conn' = [conn EXCEPT ![c] = e] /\ Sound(e)
  BY DEF PCInv, Moves
<1>2. DOMAIN conn' = Conns /\ conn'[c] = e /\ \A x \in Conns \ {c} : conn'[x] = conn[x]
  BY <1>1
<1>3. \A x \in Conns : Sound(conn'[x])
  BY <1>1, <1>2 DEF PCInv
<1>4. \A x \in Conns : Sound(conn[x])'
  BY <1>3 DEF Sound, Typed, Fields, Placed, CalledAt, IsTLS, CallOpening, CallOfTunnel, CallOfRequest
<1> QED BY <1>2, <1>4

\* How the holders of a token change.
LEMMA HoldersAfter ==
    ASSUME NEW c \in Conns, PCInv, NEW e, Moves(c, e), NEW s
    PROVE  Cardinality(Holders(s))' = Cardinality(Holders(s))
                + (IF Holds(e, s) THEN 1 ELSE 0) - (IF Holds(conn[c], s) THEN 1 ELSE 0)
<1> DEFINE H == Holders(s)
           G == {x \in Conns : Holds(conn'[x], s)}
<1>1. conn'[c] = e /\ \A x \in Conns \ {c} : conn'[x] = conn[x]
  BY MovesOne
<1>2. Holders(s)' = G
  BY DEF Holders, Holds
<1>3. IsFiniteSet(H) /\ Cardinality(H) \in Nat
  BY FiniteCounts
<1>4. CASE Holds(e, s) <=> Holds(conn[c], s)
  <2>1. G = H
    BY <1>1, <1>4 DEF Holders
  <2> QED BY <1>2, <1>3, <1>4, <2>1
<1>5. CASE Holds(e, s) /\ ~Holds(conn[c], s)
  <2>1. G = H \cup {c} /\ c \notin H
    BY <1>1, <1>5 DEF Holders
  <2>2. Cardinality(G) = Cardinality(H) + 1
    BY <1>3, <2>1, FS_AddElement
  <2> QED BY <1>2, <1>3, <1>5, <2>2
<1>6. CASE ~Holds(e, s) /\ Holds(conn[c], s)
  <2>1. G = H \ {c} /\ c \in H
    BY <1>1, <1>6 DEF Holders
  <2>2. Cardinality(G) = Cardinality(H) - 1
    BY <1>3, <2>1, FS_RemoveElement
  <2> QED BY <1>2, <1>3, <1>6, <2>2
<1> QED BY <1>4, <1>5, <1>6

\* How the connections that are to launch a cleaner change.
LEMMA LaunchersAfter ==
    ASSUME NEW c \in Conns, PCInv, NEW e, Moves(c, e), NEW tls
    PROVE  Cardinality(Launchers(tls))' = Cardinality(Launchers(tls))
                + (IF Launches(e, tls) THEN 1 ELSE 0) - (IF Launches(conn[c], tls) THEN 1 ELSE 0)
<1> DEFINE H == Launchers(tls)
           G == {x \in Conns : Launches(conn'[x], tls)}
<1>1. conn'[c] = e /\ \A x \in Conns \ {c} : conn'[x] = conn[x]
  BY MovesOne
<1>2. Launchers(tls)' = G
  BY DEF Launchers, Launches, TableOf, IsTLS
<1>3. IsFiniteSet(H) /\ Cardinality(H) \in Nat
  BY FiniteCounts
<1>4. CASE Launches(e, tls) <=> Launches(conn[c], tls)
  <2>1. G = H
    BY <1>1, <1>4 DEF Launchers
  <2> QED BY <1>2, <1>3, <1>4, <2>1
<1>5. CASE Launches(e, tls) /\ ~Launches(conn[c], tls)
  <2>1. G = H \cup {c} /\ c \notin H
    BY <1>1, <1>5 DEF Launchers
  <2>2. Cardinality(G) = Cardinality(H) + 1
    BY <1>3, <2>1, FS_AddElement
  <2> QED BY <1>2, <1>3, <1>5, <2>2
<1>6. CASE ~Launches(e, tls) /\ Launches(conn[c], tls)
  <2>1. G = H \ {c} /\ c \in H
    BY <1>1, <1>6 DEF Launchers
  <2>2. Cardinality(G) = Cardinality(H) - 1
    BY <1>3, <2>1, FS_RemoveElement
  <2> QED BY <1>2, <1>3, <1>6, <2>2
<1> QED BY <1>4, <1>5, <1>6

-----------------------------------------------------------------------------
\* A quiet step.
LEMMA GoesInv ==
    ASSUME NEW c \in Conns, PCInv, Goes(c), dial' \in Dialers, UNCHANGED <<tokens, table, cleaners>>
    PROVE  PCInv'
<1>1. PICK e : Moves(c, e) /\ Quiet(conn[c], e)
  BY DEF Goes
<1>2. DOMAIN conn' = Conns /\ \A x \in Conns : Sound(conn[x])'
  BY <1>1, MovesOne
<1>3. SharedTypeOK'
  BY DEF PCInv, SharedTypeOK
<1>4. TokensConserved'
  <2> SUFFICES ASSUME NEW s \in SuperProxies
               PROVE  (tokens[s] + Cardinality(Holders(s)) = MaxConcurrency)'
    BY DEF TokensConserved, Holders, Holds
  <2>1. tokens[s] + Cardinality(Holders(s)) = MaxConcurrency
    BY Counts DEF PCInv
  <2>2. Cardinality(Holders(s))' = Cardinality(Holders(s))
    BY <1>1, HoldersAfter, FiniteCounts DEF Quiet
  <2> QED BY <2>1, <2>2
<1>5. OneTableCleaner'
  <2> SUFFICES ASSUME NEW tls \in BOOLEAN
               PROVE  (cleaners[tls] + Cardinality(Launchers(tls))
                            = IF Clients(tls) = {} THEN 0 ELSE 1)'
    BY DEF OneTableCleaner, Launchers, Launches
  <2>1. cleaners[tls] + Cardinality(Launchers(tls)) = IF Clients(tls) = {} THEN 0 ELSE 1
    BY Counts DEF PCInv
  <2>2. Cardinality(Launchers(tls))' = Cardinality(Launchers(tls))
    BY <1>1, LaunchersAfter, FiniteCounts DEF Quiet
  <2>3. Clients(tls)' = Clients(tls)
    BY DEF Clients
  <2> QED BY <2>1, <2>2, <2>3
<1> QED BY <1>2, <1>3, <1>4, <1>5 DEF PCInv

\* A token is taken: one less in the channel, one more holder.
LEMMA AcquireTokenInv ==
    ASSUME NEW c \in Conns, PCInv, AcquireToken(c)
    PROVE  PCInv'
<1> DEFINE r == conn[c]
           p == r.proxy
<1>1. PICK e : Moves(c, e) /\ e.pc = "block" /\ e.proxy = p
  BY AcquireTokenMoves
<1>2. DOMAIN conn' = Conns /\ \A x \in Conns : Sound(conn[x])'
  BY <1>1, MovesOne
<1>3. /\ r.pc = "token" /\ p \in SuperProxies /\ tokens[p] > 0
      /\ tokens' = [tokens EXCEPT ![p] = tokens[p] - 1]
      /\ UNCHANGED <<dial, table, cleaners>>
  BY SoundConn DEF AcquireToken, Typed, Placed
<1>4. tokens \in [SuperProxies -> 0 .. MaxConcurrency] /\ MaxConcurrency \in Nat
  BY TokensAssumption DEF PCInv, SharedTypeOK
<1>5. SharedTypeOK'
  <2>1. tokens[p] - 1 \in 0 .. MaxConcurrency
    BY <1>3, <1>4
  <2>2. tokens' \in [SuperProxies -> 0 .. MaxConcurrency]
    BY <1>3, <1>4, <2>1
  <2> QED BY <1>3, <2>2 DEF PCInv, SharedTypeOK
<1>6. TokensConserved'
  <2> SUFFICES ASSUME NEW s \in SuperProxies
               PROVE  (tokens[s] + Cardinality(Holders(s)) = MaxConcurrency)'
    BY DEF TokensConserved, Holders, Holds
  <2>1. tokens[s] + Cardinality(Holders(s)) = MaxConcurrency
    BY Counts DEF PCInv
  <2>2. Cardinality(Holders(s)) \in Nat /\ tokens[s] \in Nat
    BY <1>4, FiniteCounts
  <2>3. Cardinality(Holders(s))' = Cardinality(Holders(s)) + (IF s = p THEN 1 ELSE 0)
    BY <1>1, <1>3, <2>2, HoldersAfter DEF Holds
  <2>4. tokens'[s] = tokens[s] - (IF s = p THEN 1 ELSE 0)
    BY <1>3, <1>4, <2>2
  <2> QED BY <2>1, <2>2, <2>3, <2>4
<1>7. OneTableCleaner'
  <2> SUFFICES ASSUME NEW tls \in BOOLEAN
               PROVE  (cleaners[tls] + Cardinality(Launchers(tls))
                            = IF Clients(tls) = {} THEN 0 ELSE 1)'
    BY DEF OneTableCleaner, Launchers, Launches
  <2>1. cleaners[tls] + Cardinality(Launchers(tls)) = IF Clients(tls) = {} THEN 0 ELSE 1
    BY Counts DEF PCInv
  <2>2. Cardinality(Launchers(tls))' = Cardinality(Launchers(tls))
    BY <1>1, <1>3, LaunchersAfter, FiniteCounts DEF Launches
  <2>3. Clients(tls)' = Clients(tls) /\ cleaners' = cleaners
    BY <1>3 DEF Clients
  <2> QED BY <2>1, <2>2, <2>3
<1> QED BY <1>2, <1>5, <1>6, <1>7 DEF PCInv

\* A request ends: its token goes back to the channel.
LEMMA FinishInv ==
    ASSUME NEW c \in Conns, PCInv, Finish(c)
    PROVE  PCInv'
<1> DEFINE r == conn[c]
           p == r.proxy
<1>1. PICK e : Moves(c, e) /\ e.pc # "launch" /\ e.proxy = Nil
  BY FinishMoves
<1>2. DOMAIN conn' = Conns /\ \A x \in Conns : Sound(conn[x])'
  BY <1>1, MovesOne
<1>3. /\ r.pc = "finish"
      /\ tokens' = [s \in SuperProxies |-> tokens[s] + (IF s = p THEN 1 ELSE 0)]
      /\ UNCHANGED <<dial, table, cleaners>>
  BY DEF Finish
<1>4. tokens \in [SuperProxies -> 0 .. MaxConcurrency] /\ MaxConcurrency \in Nat
  BY TokensAssumption DEF PCInv, SharedTypeOK
<1>5. ASSUME NEW s \in SuperProxies
      PROVE  /\ tokens'[s] + Cardinality(Holders(s))' = MaxConcurrency
             /\ tokens'[s] \in 0 .. MaxConcurrency
  <2>1. tokens[s] + Cardinality(Holders(s)) = MaxConcurrency
    BY Counts DEF PCInv
  <2>2. Cardinality(Holders(s)) \in Nat /\ tokens[s] \in Nat
    BY <1>4, FiniteCounts
  <2>3. Cardinality(Holders(s))' = Cardinality(Holders(s)) - (IF s = p THEN 1 ELSE 0)
    BY <1>1, <1>3, <2>2, HoldersAfter, SuperProxiesAssumption DEF Holds
  <2>4. tokens'[s] = tokens[s] + (IF s = p THEN 1 ELSE 0)
    BY <1>3
  <2>5. Cardinality(Holders(s))' \in Nat
    <3>1. Cardinality(Holders(s)) # 0 \/ s # p
      <4>1. s = p => c \in Holders(s)
        BY <1>3 DEF Holders, Holds
      <4> QED BY <4>1, FiniteCounts, FS_EmptySet
    <3> QED BY <2>2, <2>3, <3>1
  <2> QED BY <1>4, <2>1, <2>2, <2>3, <2>4, <2>5
<1>6. SharedTypeOK'
  <2>1. tokens' \in [SuperProxies -> 0 .. MaxConcurrency]
    BY <1>3, <1>5
  <2> QED BY <1>3, <2>1 DEF PCInv, SharedTypeOK
<1>7. TokensConserved'
  BY <1>5 DEF TokensConserved, Holders, Holds
<1>8. OneTableCleaner'
  <2> SUFFICES ASSUME NEW tls \in BOOLEAN
               PROVE  (cleaners[tls] + Cardinality(Launchers(tls))
                            = IF Clients(tls) = {} THEN 0 ELSE 1)'
    BY DEF OneTableCleaner, Launchers, Launches
  <2>1. cleaners[tls] + Cardinality(Launchers(tls)) = IF Clients(tls) = {} THEN 0 ELSE 1
    BY Counts DEF PCInv
  <2>2. Cardinality(Launchers(tls))' = Cardinality(Launchers(tls))
    BY <1>1, <1>3, LaunchersAfter, FiniteCounts DEF Launches
  <2>3. Clients(tls)' = Clients(tls) /\ cleaners' = cleaners
    BY <1>3 DEF Clients
  <2> QED BY <2>1, <2>2, <2>3
<1> QED BY <1>2, <1>6, <1>7, <1>8 DEF PCInv

\* The tokens, in a step that neither takes nor gives one.
LEMMA TokensKept ==
    ASSUME NEW c \in Conns, PCInv, NEW e, Moves(c, e), conn[c].pc # "token", e.pc # "token",
           e.proxy = conn[c].proxy, UNCHANGED tokens
    PROVE  TokensConserved'
<1> SUFFICES ASSUME NEW s \in SuperProxies
             PROVE  (tokens[s] + Cardinality(Holders(s)) = MaxConcurrency)'
  BY DEF TokensConserved, Holders, Holds
<1>1. tokens[s] + Cardinality(Holders(s)) = MaxConcurrency
  BY Counts DEF PCInv
<1>2. Cardinality(Holders(s))' = Cardinality(Holders(s))
  BY HoldersAfter, FiniteCounts DEF Holds
<1> QED BY <1>1, <1>2

\* A cleaner is launched: one more runs, one less is about to be launched.
LEMMA LaunchCleanerInv ==
    ASSUME NEW c \in Conns, PCInv, LaunchCleaner(c)
    PROVE  PCInv'
<1> DEFINE r == conn[c]
           t == TableOf(r)
<1>1. PICK e : Moves(c, e) /\ e.pc = "doing" /\ e.proxy = r.proxy
  BY LaunchCleanerMoves
<1>2. DOMAIN conn' = Conns /\ \A x \in Conns : Sound(conn[x])'
  BY <1>1, MovesOne
<1>3. /\ r.pc = "launch" /\ cleaners' = [cleaners EXCEPT ![t] = cleaners[t] + 1]
      /\ UNCHANGED <<tokens, dial, table>>
  BY DEF LaunchCleaner
<1>4. cleaners \in [BOOLEAN -> Nat]
  BY DEF PCInv, SharedTypeOK
<1>5. t \in BOOLEAN
  BY SoundConn DEF TableOf, IsTLS, Typed, HijackerStates
<1> HIDE DEF t
<1>6. SharedTypeOK'
  <2>1. cleaners' \in [BOOLEAN -> Nat]
    BY <1>3, <1>4, <1>5
  <2> QED BY <1>3, <2>1 DEF PCInv, SharedTypeOK
<1>7. TokensConserved'
  BY <1>1, <1>3, TokensKept
<1>8. OneTableCleaner'
  <2> SUFFICES ASSUME NEW tls \in BOOLEAN
               PROVE  (cleaners[tls] + Cardinality(Launchers(tls))
                            = IF Clients(tls) = {} THEN 0 ELSE 1)'
    BY DEF OneTableCleaner, Launchers, Launches
  <2>1. cleaners[tls] + Cardinality(Launchers(tls)) = IF Clients(tls) = {} THEN 0 ELSE 1
    BY Counts DEF PCInv
  <2>2. Cardinality(Launchers(tls)) \in Nat /\ cleaners[tls] \in Nat
    BY <1>4, FiniteCounts
  <2>3. Cardinality(Launchers(tls))' = Cardinality(Launchers(tls)) - (IF tls = t THEN 1 ELSE 0)
    BY <1>1, <1>3, <2>2, LaunchersAfter DEF Launches, t
  <2>4. cleaners'[tls] = cleaners[tls] + (IF tls = t THEN 1 ELSE 0)
    BY <1>3, <1>4, <1>5, <2>2
  <2>5. Clients(tls)' = Clients(tls)
    BY <1>3 DEF Clients
  <2> QED BY <2>1, <2>2, <2>3, <2>4, <2>5
<1> QED BY <1>2, <1>6, <1>7, <1>8 DEF PCInv

\* A host client is found, or made: the first of a table brings a cleaner with it.
LEMMA GetHostClientInv ==
    ASSUME NEW c \in Conns, PCInv, GetHostClient(c)
    PROVE  PCInv' /\ \E e : Moves(c, e)
<1> DEFINE r == conn[c]
           t == TableOf(r)
           k == KeyOf(r)
<1>1. Typed(r) /\ Placed(r) /\ r.pc = "table"
  BY SoundConn DEF GetHostClient
<1>2. t \in BOOLEAN /\ k \in Keys
  BY <1>1 DEF TableOf, KeyOf, IsTLS, Typed, Placed, HijackerStates, Keys
<1>3. /\ table \in [BOOLEAN -> [Keys -> Dialers \cup {NoClient}]] /\ dial \in Dialers
      /\ dial # NoClient
  BY NilAssumption DEF PCInv, SharedTypeOK
<1>4. UNCHANGED <<tokens, dial, cleaners>>
  BY DEF GetHostClient
<1>5. CASE k \in Clients(t)
  <2> DEFINE via == table[t][k]
  <2>1. conn' = [conn EXCEPT ![c] = [At(@, "doing") EXCEPT !.via = via]] /\ UNCHANGED table
    BY <1>5 DEF GetHostClient
  <2>2. via \in Dialers
    BY <1>2, <1>3, <1>5 DEF Clients
  <2> HIDE DEF via
  <2>3. PICK e : Moves(c, e) /\ e.pc = "doing" /\ e.proxy = r.proxy
    BY <1>1, <2>1, <2>2, GetHostClientMoves
  <2>4. Goes(c)
    BY <1>1, <2>3, QuietMove
  <2>5. dial' \in Dialers /\ UNCHANGED <<tokens, table, cleaners>>
    BY <1>3, <1>4, <2>1
  <2> QED BY <2>3, <2>4, <2>5, GoesInv
<1>6. CASE k \notin Clients(t)
  <2> DEFINE pc == IF Clients(t) = {} THEN "launch" ELSE "doing"
  <2>1. /\ conn' = [conn EXCEPT ![c] = [At(@, pc) EXCEPT !.via = dial]]
        /\ table' = [table EXCEPT ![t][k] = dial]
    BY <1>6 DEF GetHostClient
  <2>2. pc \in {"launch", "doing"} /\ pc # "token"
    OBVIOUS
  <2>3. PICK e : Moves(c, e) /\ e.pc = pc /\ e.proxy = r.proxy /\ e.h = r.h
    <3> HIDE DEF pc
    <3> QED BY <1>1, <1>3, <2>1, <2>2, GetHostClientMoves
  <2>4. DOMAIN conn' = Conns /\ \A x \in Conns : Sound(conn[x])'
    BY <2>3, MovesOne
  <2>5. SharedTypeOK'
    <3>1. table' \in [BOOLEAN -> [Keys -> Dialers \cup {NoClient}]]
      BY <1>2, <1>3, <2>1
    <3> QED BY <1>4, <3>1 DEF PCInv, SharedTypeOK
  <2>6. TokensConserved'
    BY <1>1, <1>4, <2>2, <2>3, TokensKept
  <2>7. OneTableCleaner'
    <3> SUFFICES ASSUME NEW tls \in BOOLEAN
                 PROVE  (cleaners[tls] + Cardinality(Launchers(tls))
                              = IF Clients(tls) = {} THEN 0 ELSE 1)'
      BY DEF OneTableCleaner, Launchers, Launches
    <3>1. cleaners[tls] + Cardinality(Launchers(tls)) = IF Clients(tls) = {} THEN 0 ELSE 1
      BY Counts DEF PCInv
    <3>2. Cardinality(Launchers(tls)) \in Nat /\ cleaners[tls] \in Nat
      BY FiniteCounts DEF PCInv, SharedTypeOK
    <3>3. TableOf(e) = t
      BY <2>3 DEF TableOf, IsTLS
    <3>4. Cardinality(Launchers(tls))' =
            Cardinality(Launchers(tls)) + (IF tls = t /\ Clients(t) = {} THEN 1 ELSE 0)
      BY <1>1, <2>3, <3>2, <3>3, LaunchersAfter DEF Launches
    <3>5. tls = t => Clients(tls)' # {}
      <4>1. table'[t][k] = dial
        BY <1>2, <1>3, <2>1
      <4> HIDE DEF t, k
      <4> QED BY <1>2, <1>3, <4>1 DEF Clients
    <3>6. tls # t => Clients(tls)' = Clients(tls)
      <4> HIDE DEF t, k
      <4>1. tls # t => table'[tls] = table[tls]
        BY <1>2, <1>3, <2>1
      <4> QED BY <4>1 DEF Clients
    <3> QED BY <1>4, <3>1, <3>2, <3>4, <3>5, <3>6
  <2> QED BY <2>3, <2>4, <2>5, <2>6, <2>7 DEF PCInv
<1> QED BY <1>5, <1>6

\* A pass of a cleaner: it ends when it leaves its table empty.
LEMMA MCleanerInv ==
    ASSUME PCInv, NEW tls \in BOOLEAN, NEW old \in SUBSET Clients(tls), MCleaner(tls, old)
    PROVE  PCInv'
<1> DEFINE left == [k \in Keys |-> IF k \in old THEN NoClient ELSE table[tls][k]]
           n == IF Clients(tls) \subseteq old THEN cleaners[tls] - 1 ELSE cleaners[tls]
<1>1. /\ cleaners[tls] > 0 /\ table' = [table EXCEPT ![tls] = left]
      /\ cleaners' = [cleaners EXCEPT ![tls] = n]
      /\ UNCHANGED <<conn, tokens, dial>>
  BY DEF MCleaner
<1>2. /\ table \in [BOOLEAN -> [Keys -> Dialers \cup {NoClient}]]
      /\ cleaners \in [BOOLEAN -> Nat]
  BY DEF PCInv, SharedTypeOK
<1>3. left \in [Keys -> Dialers \cup {NoClient}] /\ n \in Nat
  BY <1>1, <1>2
<1>4. SharedTypeOK'
  <2> HIDE DEF left, n
  <2>1. table' \in [BOOLEAN -> [Keys -> Dialers \cup {NoClient}]] /\ cleaners' \in [BOOLEAN -> Nat]
    BY <1>1, <1>2, <1>3
  <2> QED BY <1>1, <2>1 DEF PCInv, SharedTypeOK
<1>5. TokensConserved'
  BY <1>1 DEF PCInv, TokensConserved
<1>6. OneTableCleaner'
  <2> SUFFICES ASSUME NEW x \in BOOLEAN
               PROVE  (cleaners[x] + Cardinality(Launchers(x)) = IF Clients(x) = {} THEN 0 ELSE 1)'
    BY DEF OneTableCleaner, Launchers, Launches
  <2>1. cleaners[x] + Cardinality(Launchers(x)) = IF Clients(x) = {} THEN 0 ELSE 1
    BY Counts DEF PCInv
  <2>2. Cardinality(Launchers(x)) \in Nat /\ cleaners[x] \in Nat
    BY <1>2, FiniteCounts
  <2>3. Cardinality(Launchers(x))' = Cardinality(Launchers(x))
    BY <1>1 DEF Launchers, Launches, TableOf, IsTLS
  <2>4. CASE x = tls
    <3>1. cleaners[x] = 1 /\ Cardinality(Launchers(x)) = 0 /\ Clients(x) # {}
      BY <1>1, <2>1, <2>2, <2>4
    <3>2. table'[x] = left /\ cleaners'[x] = n
      <4> HIDE DEF left, n
      <4> QED BY <1>1, <1>2, <2>4
    <3>3. Clients(x)' = Clients(x) \ old
      BY <2>4, <3>2 DEF Clients
    <3>4. n = IF Clients(x) \ old = {} THEN 0 ELSE 1
      BY <2>4, <3>1
    <3> QED BY <2>3, <3>1, <3>2, <3>3, <3>4
  <2>5. CASE x # tls
    <3>1. table'[x] = table[x] /\ cleaners'[x] = cleaners[x]
      <4> HIDE DEF left, n
      <4> QED BY <1>1, <1>2, <2>5
    <3>2. Clients(x)' = Clients(x)
      BY <3>1 DEF Clients
    <3> QED BY <2>1, <2>3, <3>1, <3>2
  <2> QED BY <2>4, <2>5
<1>7. DOMAIN conn' = Conns /\ \A x \in Conns : Sound(conn[x])'
  BY <1>1 DEF PCInv, Sound, Typed, Fields, Placed, CalledAt, IsTLS, CallOpening, CallOfTunnel,
              CallOfRequest
<1> QED BY <1>4, <1>5, <1>6, <1>7 DEF PCInv

-----------------------------------------------------------------------------
\* Every step is one of a connection, or of a cleaner.
LEMMA StepCases ==
    ASSUME PCInv, Next
    PROVE  \/ /\ \E c \in Conns : Goes(c)
              /\ dial' \in Dialers /\ UNCHANGED <<tokens, table, cleaners>>
           \/ \E c \in Conns : AcquireToken(c) \/ Finish(c) \/ GetHostClient(c) \/ LaunchCleaner(c)
           \/ \E tls \in BOOLEAN : \E old \in SUBSET Clients(tls) : MCleaner(tls, old)
<1>1. dial \in Dialers
  BY DEF PCInv, SharedTypeOK
<1>2. ASSUME NEW c \in Conns, NEW request \in Requests, Send(c, request)
      PROVE  Goes(c) /\ UNCHANGED shared
  BY <1>2, SendGoes DEF Send
<1>3. ASSUME NEW c \in Conns, Accept(c) \/ Steal(c) \/ ParseFails(c)
      PROVE  Goes(c) /\ UNCHANGED shared
  BY <1>3, AcceptGoes, StealGoes DEF Accept, Steal, ParseFails
<1>4. ASSUME NEW c \in Conns, NEW kind \in Methods \cup {"connect"}, NEW host \in Hosts,
             ParseStartLine(c, kind, host)
      PROVE  Goes(c) /\ UNCHANGED shared
  BY <1>4, ParseStartLineGoes DEF ParseStartLine
<1>5. ASSUME NEW c \in Conns, NEW kind \in Methods, BumpParse(c, kind)
      PROVE  Goes(c) /\ UNCHANGED shared
  BY <1>5, BumpParseGoes DEF BumpParse
<1>6. ASSUME NEW c \in Conns, SetClientDialer(c)
      PROVE  Goes(c) /\ dial' \in Dialers /\ UNCHANGED <<tokens, table, cleaners>>
  BY <1>6, SetClientDialerGoes DEF SetClientDialer
<1>7. ASSUME NEW c \in Conns, Do(c) \/ Connect(c) \/ HijackTLS(c) \/ PrePare(c) \/ Reparse(c)
      PROVE  Goes(c) /\ UNCHANGED shared
  <2>1. UNCHANGED shared
    BY <1>7 DEF Do, Connect, HijackTLS, PrePare, Reparse
  <2> QED BY <1>7, <2>1, DoGoes, ConnectGoes, HijackTLSGoes, PrePareGoes, ReparseGoes
<1>8. ASSUME NEW c \in Conns,
             SetSuperProxy(c) \/ BlockOrHijack(c) \/ DoFake(c) \/ SendRequest(c)
                \/ SendAgain(c) \/ DoReturns(c) \/ DoRawReturns(c)
      PROVE  Goes(c) /\ UNCHANGED shared
  <2>1. UNCHANGED shared
    BY <1>8 DEF SetSuperProxy, BlockOrHijack, DoFake, SendRequest, SendAgain, DoReturns, DoRawReturns
  <2> QED BY <1>8, <2>1, SetSuperProxyGoes, BlockOrHijackGoes, DoFakeGoes, SendRequestGoes,
              SendAgainGoes, DoReturnsGoes, DoRawReturnsGoes
<1>9. ASSUME NEW c \in Conns, Leave(c) \/ KeepAlive(c)
      PROVE  Goes(c) /\ UNCHANGED shared
  BY <1>9, AcceptGoes, KeepAliveGoes DEF Leave, KeepAlive
<1>10. ASSUME UNCHANGED shared
       PROVE  dial' \in Dialers /\ UNCHANGED <<tokens, table, cleaners>>
  BY <1>1, <1>10 DEF shared
<1> QED BY <1>2, <1>3, <1>4, <1>5, <1>6, <1>7, <1>8, <1>9, <1>10 DEF Next, RequestStep

\* A new proxy has all its tokens and no cleaner.
LEMMA InitInv == PCInit => PCInv
<1> SUFFICES ASSUME PCInit PROVE PCInv
  OBVIOUS
<1>1. ASSUME NEW c \in Conns
      PROVE  conn[c] = Idle
  BY DEF PCInit
<1>2. /\ Fields(Idle) /\ Idle.pc = "closed" /\ Idle.kind = "get" /\ Idle.h = Nil
      /\ Idle.call = "none" /\ Idle.host = Nil /\ Idle.proxy = Nil /\ Idle.err = "nil"
      /\ Idle.via = Nil /\ Idle.wire = << >> /\ Idle.buf = 0
  BY DEF Idle, Fields
<1>3. Idle.wire \in Seq(Items) /\ Idle.buf \in Nat /\ Idle.buf <= Len(Idle.wire)
  BY <1>2
<1>4. Idle.pc \in {"closed", "parse"} /\ Sound(Idle)
  BY <1>2, <1>3, IdleSound
<1>5. SharedTypeOK
  <2>1. tokens \in [SuperProxies -> 0 .. MaxConcurrency]
    BY TokensAssumption DEF PCInit
  <2>2. dial \in Dialers
    BY DEF PCInit, Dialers
  <2>3. table \in [BOOLEAN -> [Keys -> Dialers \cup {NoClient}]] /\ cleaners \in [BOOLEAN -> Nat]
    BY DEF PCInit
  <2> QED BY <2>1, <2>2, <2>3 DEF SharedTypeOK
<1>6. Cardinality({}) = 0
  BY FS_EmptySet
<1>7. TokensConserved
  <2>1. ASSUME NEW s \in SuperProxies PROVE Holders(s) = {} /\ tokens[s] = MaxConcurrency
    BY <1>1, <1>2, SuperProxiesAssumption DEF Holders, Holds, PCInit
  <2> QED BY <1>6, <2>1, Counts, TokensAssumption
<1>8. OneTableCleaner
  <2>1. ASSUME NEW tls \in BOOLEAN
        PROVE  Launchers(tls) = {} /\ Clients(tls) = {} /\ cleaners[tls] = 0
    BY <1>1, <1>2 DEF Launchers, Launches, Clients, PCInit
  <2> QED BY <1>6, <2>1, Counts
<1>9. DOMAIN conn = Conns
  BY DEF PCInit
<1> QED BY <1>1, <1>4, <1>5, <1>7, <1>8, <1>9 DEF PCInv

\* PCInv is inductive.
LEMMA StepInv == PCInv /\ [Next]_vars => PCInv'
<1> SUFFICES ASSUME PCInv, [Next]_vars PROVE PCInv'
  OBVIOUS
<1>1. CASE Next
  <2>1. ASSUME NEW c \in Conns, GetHostClient(c) PROVE PCInv'
    BY <2>1, GetHostClientInv
  <2> QED BY <1>1, <2>1, StepCases, GoesInv, AcquireTokenInv, FinishInv, LaunchCleanerInv, MCleanerInv
<1>2. CASE UNCHANGED vars
  <2>1. UNCHANGED <<conn, tokens, dial, table, cleaners>>
    BY <1>2 DEF vars, shared
  <2>2. DOMAIN conn' = Conns /\ \A x \in Conns : Sound(conn[x])'
    BY <2>1 DEF PCInv, Sound, Typed, Fields, Placed, CalledAt, IsTLS, CallOpening, CallOfTunnel,
                CallOfRequest
  <2>3. SharedTypeOK' /\ TokensConserved'
    BY <2>1 DEF PCInv, SharedTypeOK, TokensConserved
  <2>4. OneTableCleaner'
    BY <2>1 DEF PCInv, OneTableCleaner, Clients, TableOf, IsTLS
  <2> QED BY <2>2, <2>3, <2>4 DEF PCInv
<1> QED BY <1>1, <1>2

\* PCInv holds of every reachable state.
THEOREM Invariant == Spec => []PCInv
  BY InitInv, StepInv, PTL DEF Spec

\* The type invariant.
THEOREM TypeCorrect == Spec => []PCTypeOK
<1>1. PCInv => PCTypeOK
  BY DEF PCInv, PCTypeOK, SharedTypeOK, Sound, Typed, Places, Items
<1> QED BY <1>1, Invariant, PTL

\* However requests end (blocked, answered by the hijacker, failed, tunnelled or
\* decrypted), the super proxy's tokens in the channel and those of the requests
\* that go through it make up its limit: none is lost and none given back twice.
THEOREM TokensAreConserved == Spec => []TokensConserved
<1>1. PCInv => TokensConserved
  BY DEF PCInv
<1> QED BY <1>1, Invariant, PTL

\* However getHostClient and mCleaner interleave, a table that is not empty has one
\* cleaner, running or about to be, and an empty one none.
THEOREM TableHasOneCleaner == Spec => []OneTableCleaner
<1>1. PCInv => OneTableCleaner
  BY DEF PCInv
<1> QED BY <1>1, Invariant, PTL

\* A step of a connection is a call that may follow, or none.
LEMMA MovesRefines ==
    ASSUME NEW c \in Conns, PCInv, NEW e, Moves(c, e)
    PROVE  \/ \E x \in Conns : Chain!Call(x)
           \/ UNCHANGED [x \in Conns |-> conn[x].call]
<1>1. conn'[c] = e /\ \A x \in Conns \ {c} : conn'[x] = conn[x]
  BY MovesOne
<1>2. CASE e.call = conn[c].call
  BY <1>1, <1>2
<1>3. CASE Chain!Follows(conn[c].call, e.call)
  <2>1. Chain!Call(c)
    BY <1>1, <1>3 DEF Chain!Call, Chain!Follows, Chain!In
  <2> QED BY <2>1
<1> QED BY <1>2, <1>3 DEF Moves, Calls

\* The connections implement HijackerChain: each hijacker is called in the order
\* that the interface documents, and whoever is called BeforeRequest is called
\* AfterResponse before the next request and before it is given back, whatever
\* the request ran into.
THEOREM CallsAreChained == Spec => CallsFollowChain
<1>1. PCInit => Chain!ChainInit
  BY DEF PCInit, Chain!ChainInit, Idle
<1>2. PCInv /\ [Next]_vars =>
        [\E c \in Conns : Chain!Call(c)]_([c \in Conns |-> conn[c].call])
  <2> SUFFICES ASSUME PCInv, [Next]_vars
               PROVE  \/ \E x \in Conns : Chain!Call(x)
                      \/ UNCHANGED [x \in Conns |-> conn[x].call]
    OBVIOUS
  <2>1. ASSUME NEW c \in Conns, NEW e, Moves(c, e)
        PROVE  \/ \E x \in Conns : Chain!Call(x)
               \/ UNCHANGED [x \in Conns |-> conn[x].call]
    BY <2>1, MovesRefines
  <2>2. CASE UNCHANGED conn
    BY <2>2
  <2>3. CASE \E c \in Conns : \E e : Moves(c, e)
    BY <2>1, <2>3
  <2>4. Next => UNCHANGED conn \/ \E c \in Conns : \E e : Moves(c, e)
    <3> SUFFICES ASSUME Next PROVE UNCHANGED conn \/ \E c \in Conns : \E e : Moves(c, e)
      OBVIOUS
    <3>1. ASSUME NEW c \in Conns, Goes(c) PROVE \E e : Moves(c, e)
      BY <3>1 DEF Goes
    <3>2. ASSUME NEW c \in Conns, AcquireToken(c) \/ Finish(c) \/ GetHostClient(c) \/ LaunchCleaner(c)
          PROVE  \E e : Moves(c, e)
      BY <3>2, AcquireTokenMoves, FinishMoves, GetHostClientInv, LaunchCleanerMoves
    <3>3. ASSUME NEW tls \in BOOLEAN, NEW old \in SUBSET Clients(tls), MCleaner(tls, old)
          PROVE  UNCHANGED conn
      BY <3>3 DEF MCleaner
    <3> QED BY <3>1, <3>2, <3>3, StepCases
  <2> QED BY <2>2, <2>3, <2>4 DEF vars
<1> QED BY <1>1, <1>2, Invariant, PTL DEF Spec, CallsFollowChain, Chain!ChainSpec
=============================================================================
