----------------------------- MODULE HostClient -----------------------------
(***************************************************************************)
(* client/client.go, client/dialer.go: HostClient.Do, do and DoRaw, over   *)
(* the ConnManager of one host.                                            *)
(*                                                                         *)
(* Each user of the ConnManager is a goroutine that makes one request at a *)
(* time: a "get" (GET or HEAD), a "post" (any other method) or a "raw"     *)
(* tunnel (DoRaw).  Nothing in the program calls ReleaseConn, so that      *)
(* conns is always empty here and AcquireIdle has no place.                *)
(*                                                                         *)
(* A wrapper's Last...DeadlineTime is abstracted to whether it lies within *)
(* a quarter of the timeout (recent), and a socket's deadlines to whether  *)
(* they are set (armed): only an armed deadline ends an operation whose    *)
(* peer stays silent.                                                      *)
(*                                                                         *)
(* The ConnManager's cleaner does not run here: it closes idle             *)
(* connections only, and ConnManager has it.                               *)
(***************************************************************************)
EXTENDS ConnManager

CONSTANTS
    MaxAttempts,  \* Do's maxAttempts: 5
    MaxRedials,   \* do's bound on redialCount: 3
    Deadlines     \* the timeouts that are set, of "read" and "write"

ASSUME AttemptsAssumption == MaxAttempts \in Nat \ {0} /\ MaxRedials \in Nat
ASSUME DeadlinesAssumption == Deadlines \subseteq {"read", "write"}

VARIABLES
    hpc,
    kind,
    attempts,
    redials,
    dialled,   \* what makeDialer's dial returned: "none", "conn", "eof" or "err"
    cached,    \* reqCacheForRetry holds the request
    outcome,   \* what do returns: [retry, err]
    armed,     \* the deadlines set on the connection's socket
    recent,    \* the deadlines the wrapper believes to be fresh
    pendingRequests,
    consumed,  \* how often the request was read from the client's connection
    responding \* the response has begun to arrive

reqVars == <<hpc, kind, attempts, redials, dialled, cached, outcome, consumed,
             responding>>
vars == <<cmVars, reqVars, armed, recent, pendingRequests>>

Errors == {"nil", "eof", "other", "noFree"}

HCTypeOK ==
    /\ CMTypeOK
    /\ hpc \in [Users -> {"idle", "dial", "acquire", "write", "send", "read",
                          "peek", "body", "tunnel", "forward", "closing", "return"}]
    /\ kind \in [Users -> {"get", "post", "raw"}]
    /\ attempts \in [Users -> 0 .. MaxAttempts]
    /\ redials \in [Users -> 0 .. MaxRedials]
    /\ dialled \in [Users -> {"none", "conn", "eof", "err"}]
    /\ cached \in [Users -> BOOLEAN]
    /\ outcome \in [Users -> [retry : BOOLEAN, err : Errors]]
    /\ armed \in [CC -> SUBSET {"read", "write"}]
    /\ recent \in [CC -> SUBSET {"read", "write"}]
    /\ pendingRequests \in Nat
    /\ consumed \in [Users -> Nat]
    /\ responding \in [Users -> BOOLEAN]

Ok == [retry |-> FALSE, err |-> "nil"]
Fail(again, e) == [retry |-> again, err |-> e]

HCInit ==
    /\ CMInit
    /\ hpc = [u \in Users |-> "idle"]
    /\ kind = [u \in Users |-> "get"]
    /\ attempts = [u \in Users |-> 0]
    /\ redials = [u \in Users |-> 0]
    /\ dialled = [u \in Users |-> "none"]
    /\ cached = [u \in Users |-> FALSE]
    /\ outcome = [u \in Users |-> Ok]
    /\ armed = [cc \in CC |-> {}]
    /\ recent = [cc \in CC |-> {}]
    /\ pendingRequests = 0
    /\ consumed = [u \in Users |-> 0]
    /\ responding = [u \in Users |-> FALSE]

\* u goes from one program counter to another.
Goto(u, from, to) == hpc[u] = from /\ hpc' = [hpc EXCEPT ![u] = to]

sockVars == <<armed, recent>>

-----------------------------------------------------------------------------
\* Do or DoRaw is called.
Begin(u, k) ==
    /\ Goto(u, "idle", "dial")
    /\ kind' = [kind EXCEPT ![u] = k]
    /\ pendingRequests' = IF k = "raw" THEN pendingRequests ELSE pendingRequests + 1
    /\ UNCHANGED <<cmVars, attempts, redials, dialled, cached, outcome, consumed,
                   responding, sockVars>>

\* makeDialer, or DoRaw itself, dials before AcquireConn is called.  When DoRaw
\* cannot dial it returns at once.
Dial(u, d) ==
    /\ hpc[u] = "dial"
    /\ hpc' = [hpc EXCEPT ![u] = IF kind[u] = "raw" /\ d # "conn" THEN "return" ELSE "acquire"]
    /\ dialled' = [dialled EXCEPT ![u] = d]
    /\ outcome' = [outcome EXCEPT ![u] = IF d = "conn" THEN Ok ELSE Fail(FALSE, "other")]
    /\ UNCHANGED <<cmVars, kind, attempts, redials, cached, consumed, responding,
                   sockVars, pendingRequests>>

\* AcquireConn finds no room: the connection just dialled is dropped, open.
NoFreeConns(u) ==
    /\ Goto(u, "acquire", "return")
    /\ AcquireNone(u)
    /\ outcome' = [outcome EXCEPT ![u] = Fail(FALSE, "noFree")]
    /\ dialled' = [dialled EXCEPT ![u] = "none"]
    /\ UNCHANGED <<kind, attempts, redials, cached, consumed, responding, sockVars,
                   pendingRequests>>

\* AcquireConn counts the connection and, if need be, launches the cleaner.
TakeSlot(u) ==
    /\ hpc[u] = "acquire"
    /\ AcquireNew(u) \/ \E k \in Cleaners : Launch(u, k)
    /\ UNCHANGED <<reqVars, sockVars, pendingRequests>>

\* AcquireConn wraps what was dialled.  The wrapper comes from connPool with the
\* deadline times of its last connection, the socket has none.
WrapConn(u, cc) ==
    /\ hpc[u] = "acquire"
    /\ dialled[u] = "conn"
    /\ DialOK(u, cc)
    /\ hpc' = [hpc EXCEPT ![u] = IF kind[u] = "raw" THEN "tunnel" ELSE "write"]
    /\ dialled' = [dialled EXCEPT ![u] = "none"]
    /\ UNCHANGED <<kind, attempts, redials, cached, outcome, consumed, responding,
                   sockVars, pendingRequests>>

\* AcquireConn returns the dial's error.  After io.EOF do sleeps and dials again,
\* up to MaxRedials times.
WrapFails(u) ==
    /\ hpc[u] = "acquire"
    /\ dialled[u] \in {"eof", "err"}
    /\ DialFails(u)
    /\ \/ /\ dialled[u] = "eof"
          /\ redials[u] < MaxRedials
          /\ redials' = [redials EXCEPT ![u] = @ + 1]
          /\ hpc' = [hpc EXCEPT ![u] = "dial"]
          /\ UNCHANGED outcome
       \/ /\ dialled[u] = "err" \/ redials[u] >= MaxRedials
          /\ outcome' = [outcome EXCEPT ![u] = Fail(FALSE, "other")]
          /\ hpc' = [hpc EXCEPT ![u] = "return"]
          /\ UNCHANGED redials
    /\ dialled' = [dialled EXCEPT ![u] = "none"]
    /\ UNCHANGED <<kind, attempts, cached, consumed, responding, sockVars,
                   pendingRequests>>

-----------------------------------------------------------------------------
\* CloseConn is called, and do or DoRaw will return o.
CloseAndReturn(u, from, o) ==
    /\ Goto(u, from, "closing")
    /\ outcome' = [outcome EXCEPT ![u] = o]
    /\ CloseConn(u)

Closed(u) ==
    /\ Goto(u, "closing", "return")
    /\ CloseConnEnds(u)
    /\ armed' = [armed EXCEPT ![ucc[u]] = {}]
    /\ UNCHANGED <<kind, attempts, redials, dialled, cached, outcome, consumed,
                   responding, recent, pendingRequests>>

\* do or DoRaw returns o and forgets the connection: it stays open and counted.
LeakAndReturn(u, from, o) ==
    /\ Goto(u, from, "return")
    /\ outcome' = [outcome EXCEPT ![u] = o]
    /\ upc' = [upc EXCEPT ![u] = "out"]
    /\ ucc' = [ucc EXCEPT ![u] = NoConn]
    /\ UNCHANGED <<cmShared, cstate, idleFor, cleanerVars>>

\* The deadline d is set unless it was set less than a quarter of the timeout
\* ago, according to the wrapper; it may fail on a broken connection.
DeadlineStep(u, d, to) ==
    LET cc == ucc[u] IN
    \/ /\ Goto(u, d, to)
       /\ IF d \in recent[cc] \/ d \notin Deadlines
          THEN UNCHANGED <<armed, recent>>
          ELSE /\ armed' = [armed EXCEPT ![cc] = @ \cup {d}]
               /\ recent' = [recent EXCEPT ![cc] = @ \cup {d}]
       /\ UNCHANGED <<cmVars, outcome>>
    \/ /\ hpc[u] = d
       /\ d \in Deadlines \ recent[cc]
       /\ CloseAndReturn(u, d, Fail(kind[u] # "raw", "other"))
       /\ UNCHANGED <<armed, recent>>

\* A quarter of the timeout passes.
DeadlineAges(cc, d) ==
    /\ d \in recent[cc]
    /\ recent' = [recent EXCEPT ![cc] = @ \ {d}]
    /\ UNCHANGED <<cmVars, reqVars, armed, pendingRequests>>

SetWriteDeadline(u) ==
    /\ DeadlineStep(u, "write", IF kind[u] = "raw" THEN "forward" ELSE "send")
    /\ UNCHANGED <<kind, attempts, redials, dialled, cached, consumed, responding,
                   pendingRequests>>

SetReadDeadline(u) ==
    /\ DeadlineStep(u, "read", IF kind[u] = "raw" THEN "write" ELSE "peek")
    /\ UNCHANGED <<kind, attempts, redials, dialled, cached, consumed, responding,
                   pendingRequests>>

-----------------------------------------------------------------------------
\* do: readFromReqAndWriteToIOWriter reads the request from the client, into
\* the cache (get) or straight to the connection (post).
ReadRequestAlways(u) ==
    /\ hpc[u] = "send"
    /\ consumed' = [consumed EXCEPT ![u] = @ + 1]
    /\ \/ /\ cached' = [cached EXCEPT ![u] = kind[u] = "get"]
          /\ hpc' = [hpc EXCEPT ![u] = IF kind[u] = "get" THEN "send" ELSE "read"]
          /\ UNCHANGED <<cmVars, outcome>>
       \/ /\ CloseAndReturn(u, "send", Fail(FALSE, "other"))
          /\ UNCHANGED cached
    /\ UNCHANGED <<kind, attempts, redials, dialled, responding, sockVars,
                   pendingRequests>>

ReadRequest(u) ==
    /\ hpc[u] = "send"
    /\ ~cached[u]
    /\ consumed' = [consumed EXCEPT ![u] = @ + 1]
    /\ \/ /\ cached' = [cached EXCEPT ![u] = kind[u] = "get"]
          /\ hpc' = [hpc EXCEPT ![u] = IF kind[u] = "get" THEN "send" ELSE "read"]
          /\ UNCHANGED <<cmVars, outcome>>
       \/ /\ CloseAndReturn(u, "send", Fail(FALSE, "other"))
          /\ UNCHANGED cached
    /\ UNCHANGED <<kind, attempts, redials, dialled, responding, sockVars,
                   pendingRequests>>

\* do: writeData sends the cached request.
SendCached(u) ==
    /\ cached[u]
    /\ \/ /\ Goto(u, "send", "read")
          /\ UNCHANGED <<cmVars, outcome>>
       \/ CloseAndReturn(u, "send", Fail(TRUE, "other"))
    /\ UNCHANGED <<kind, attempts, redials, dialled, cached, consumed, responding,
                   sockVars, pendingRequests>>

\* do: Peek(1) waits for the response's first byte.  When it fails do returns
\* without CloseConn.
Peek(u) ==
    /\ \/ /\ Goto(u, "peek", "body")
          /\ responding' = [responding EXCEPT ![u] = TRUE]
          /\ UNCHANGED <<cmVars, outcome>>
       \/ /\ LeakAndReturn(u, "peek", Fail(TRUE, "eof"))
          /\ UNCHANGED responding
       \/ /\ LeakAndReturn(u, "peek", Fail(FALSE, "other"))
          /\ UNCHANGED responding
    /\ UNCHANGED <<kind, attempts, redials, dialled, cached, consumed, armed,
                   recent, pendingRequests>>

\* do: resp.ReadFrom, then CloseConn, whatever the headers say of keep-alive.
ReadResponseRetried(u) ==
    /\ \/ CloseAndReturn(u, "body", Ok)
       \/ CloseAndReturn(u, "body", Fail(TRUE, "eof"))
    /\ UNCHANGED <<kind, attempts, redials, dialled, cached, consumed, responding,
                   sockVars, pendingRequests>>

ReadResponse(u) ==
    /\ \/ CloseAndReturn(u, "body", Ok)
       \/ CloseAndReturn(u, "body", Fail(FALSE, "eof"))
       \/ CloseAndReturn(u, "body", Fail(FALSE, "other"))
    /\ UNCHANGED <<kind, attempts, redials, dialled, cached, consumed, responding,
                   sockVars, pendingRequests>>

\* DoRaw: onTunnelMade(nil) tells the client; when it fails DoRaw returns without
\* CloseConn.
TunnelMade(u) ==
    /\ \/ /\ Goto(u, "tunnel", "read")
          /\ UNCHANGED <<cmVars, outcome>>
       \/ LeakAndReturn(u, "tunnel", Fail(FALSE, "other"))
    /\ UNCHANGED <<kind, attempts, redials, dialled, cached, consumed, responding,
                   armed, recent, pendingRequests>>

\* DoRaw: the first of the two Forward goroutines ends.
Forwarded(u) ==
    /\ \/ CloseAndReturn(u, "forward", Ok)
       \/ CloseAndReturn(u, "forward", Fail(FALSE, "other"))
    /\ UNCHANGED <<kind, attempts, redials, dialled, cached, consumed, responding,
                   sockVars, pendingRequests>>

-----------------------------------------------------------------------------
\* Do calls do again.
Again(u) ==
    /\ outcome[u].err # "nil" /\ outcome[u].retry
    /\ kind[u] = "get" \/ outcome[u].err = "eof"
    /\ attempts[u] + 1 < MaxAttempts

RetryUncounted(u) ==
    /\ Goto(u, "return", "dial")
    /\ Again(u)
    /\ redials' = [redials EXCEPT ![u] = 0]
    /\ UNCHANGED <<cmVars, kind, attempts, dialled, cached, outcome, consumed,
                   responding, sockVars, pendingRequests>>

Retry(u) ==
    /\ Goto(u, "return", "dial")
    /\ Again(u)
    /\ attempts' = [attempts EXCEPT ![u] = @ + 1]
    /\ redials' = [redials EXCEPT ![u] = 0]
    /\ UNCHANGED <<cmVars, kind, dialled, cached, outcome, consumed, responding,
                   sockVars, pendingRequests>>

\* Do, unlike DoRaw, counted its request.
PendingDownAlways(k) == pendingRequests - 1

PendingDown(k) == IF k = "raw" THEN pendingRequests ELSE pendingRequests - 1

\* Do or DoRaw returns, and its variables are gone.
End(u) ==
    /\ Goto(u, "return", "idle")
    /\ ~Again(u)
    /\ pendingRequests' = PendingDown(kind[u])
    /\ kind' = [kind EXCEPT ![u] = "get"]
    /\ attempts' = [attempts EXCEPT ![u] = 0]
    /\ redials' = [redials EXCEPT ![u] = 0]
    /\ dialled' = [dialled EXCEPT ![u] = "none"]
    /\ cached' = [cached EXCEPT ![u] = FALSE]
    /\ outcome' = [outcome EXCEPT ![u] = Ok]
    /\ consumed' = [consumed EXCEPT ![u] = 0]
    /\ responding' = [responding EXCEPT ![u] = FALSE]
    /\ UNCHANGED <<cmVars, sockVars>>

\* What a request does once it has begun; the peers' answers are in the choices.
RequestStep(u) ==
    \/ \E d \in {"conn", "eof", "err"} : Dial(u, d)
    \/ NoFreeConns(u)
    \/ TakeSlot(u)
    \/ \E cc \in CC : WrapConn(u, cc)
    \/ WrapFails(u)
    \/ Closed(u)
    \/ SetWriteDeadline(u)
    \/ ReadRequest(u)
    \/ SendCached(u)
    \/ SetReadDeadline(u)
    \/ Peek(u)
    \/ ReadResponse(u)
    \/ TunnelMade(u)
    \/ Forwarded(u)
    \/ Retry(u)
    \/ End(u)

Next ==
    \/ \E u \in Users, k \in {"get", "post", "raw"} : Begin(u, k)
    \/ \E u \in Users : RequestStep(u)
    \/ \E cc \in CC, d \in Deadlines : DeadlineAges(cc, d)

Spec == HCInit /\ [][Next]_vars

\* u is in an operation that nothing but its peer ends: the dial, whose handshake
\* with a super proxy has no deadline (MakeTunnel sets none); reading the request
\* from the client or writing to the client, whose connection is the caller's;
\* forwarding; and reads and writes on a socket with no armed deadline, because
\* none is configured or because the wrapper is wrong about it.
Blocked(u) ==
    \/ hpc[u] \in {"dial", "body", "tunnel", "forward"}
    \/ hpc[u] = "send" /\ (cached[u] => "write" \notin armed[ucc[u]])
    \/ hpc[u] = "peek" /\ "read" \notin armed[ucc[u]]

\* Goroutines that can run are scheduled, and an armed deadline expires.
Fairness == \A u \in Users : WF_vars(~Blocked(u) /\ RequestStep(u))

FairSpec == Spec /\ Fairness

-----------------------------------------------------------------------------
\* The wrappers with an open socket, less those that CloseConn has counted down
\* and is about to close; and the users with a slot and no connection yet.
Closing(cc) == \E u \in Users : upc[u] = "closing" /\ ucc[u] = cc
OpenConns == {cc \in CC : cstate[cc] = "open" /\ ~Closing(cc)}
Reserved == {u \in Users : upc[u] \in {"launch", "dial"}}

\* connsCount is the number of open sockets and of dials under way, on every path
\* of do and DoRaw, those that never call CloseConn included: no slot is held by
\* nothing and none is given back twice, so that at most MaxConns sockets are open.
ConnsAccounted ==
    /\ connsCount = Cardinality(OpenConns) + Cardinality(Reserved)
    /\ connsCount <= MaxConns

\* client.go:415-416: "ErrNoFreeConns is returned if all HostClient.MaxConns
\* connections to the host are busy".  A connection is busy while a request has it
\* or is about to.
NoFreeMeansBusy ==
    [][\A u \in Users : outcome'[u].err = "noFree" /\ outcome[u].err # "noFree" =>
          Cardinality(Counted) >= MaxConns]_vars

\* Once the response has begun to reach the client the request is not made
\* again, so that no client sees two responses, or a part of one and another.
NoRetryAfterResponse ==
    [][\A u \in Users : responding[u] /\ hpc[u] = "return" => hpc'[u] # "dial"]_vars

\* However often a GET or HEAD is retried, the request is read from the client
\* once: the later attempts send the cache.
GetReadOnce == \A u \in Users : kind[u] = "get" => consumed[u] <= 1

\* The redials and the retries come to an end: every Do and DoRaw returns, unless
\* it stays for ever in an operation that only its peer can end.
RequestEnds == \A u \in Users : []<>(hpc[u] = "idle") \/ <>[]Blocked(u)
=============================================================================
