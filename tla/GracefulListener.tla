-------------------------- MODULE GracefulListener --------------------------
(***************************************************************************)
(* server/listener.go: a listener that counts its open connections, so     *)
(* that Close can wait for them.                                           *)
(*                                                                         *)
(* Any goroutine p may be inside Accept, inside Close of the listener or   *)
(* inside Close of a connection; gpc[p] says where.  Each atomic operation *)
(* on connsCount and shutdown is a step of its own, as are the calls of    *)
(* the wrapped listener and connection (external: package net).            *)
(*                                                                         *)
(* The actions are given by the goroutine p, so that a module with the     *)
(* callers' own state can conjoin them with the callers' steps.            *)
(***************************************************************************)
EXTENDS Integers, FiniteSets

CONSTANTS
    Conns,
    Procs,       \* the goroutines
    NoConn,
    CanTimeout   \* whether maxWaitTime may elapse

ASSUME ConnsAssumption == IsFiniteSet(Conns) /\ NoConn \notin Conns
ASSUME ProcsAssumption == IsFiniteSet(Procs)

VARIABLES
    listening,   \* the wrapped listener is open
    sock,        \* each connection's socket: "none", "open" or "closed"
    connsCount,
    shutdown,
    doneCloses,  \* how often close(ln.done) was called: twice is a panic
    closeResult, \* what the Close that waits returned
    gpc,
    gconn,       \* the connection p is accepting or closing
    gcount       \* closeConn's local connsCount

lnVars == <<listening, sock, connsCount, shutdown, doneCloses, closeResult,
            gpc, gconn, gcount>>

LnTypeOK ==
    /\ listening \in BOOLEAN
    /\ sock \in [Conns -> {"none", "open", "closed"}]
    /\ connsCount \in 0 .. Cardinality(Conns)
    /\ shutdown \in Nat
    /\ doneCloses \in 0 .. 2
    /\ closeResult \in {"none", "nil", "timeout"}
    /\ gpc \in [Procs -> {"out", "count", "dec", "check", "shutdown", "load", "select"}]
    /\ gconn \in [Procs -> Conns \cup {NoConn}]
    /\ gcount \in [Procs -> 0 .. Cardinality(Conns)]

LnInit ==
    /\ listening = TRUE
    /\ sock = [c \in Conns |-> "none"]
    /\ connsCount = 0
    /\ shutdown = 0
    /\ doneCloses = 0
    /\ closeResult = "none"
    /\ gpc = [p \in Procs |-> "out"]
    /\ gconn = [p \in Procs |-> NoConn]
    /\ gcount = [p \in Procs |-> 0]

\* close of a closed channel: the process dies.
Panicked == doneCloses > 1

At(p, from, to) == gpc[p] = from /\ gpc' = [gpc EXCEPT ![p] = to]

-----------------------------------------------------------------------------
\* Accept: the wrapped Accept returns a connection,
InnerAccept(p, c) ==
    /\ At(p, "out", "count")
    /\ listening
    /\ sock[c] = "none"
    /\ sock' = [sock EXCEPT ![c] = "open"]
    /\ gconn' = [gconn EXCEPT ![p] = c]
    /\ UNCHANGED <<listening, connsCount, shutdown, doneCloses, closeResult, gcount>>

\* which is then counted and returned.
CountConnForgotten(p) ==
    /\ At(p, "count", "out")
    /\ gconn' = [gconn EXCEPT ![p] = NoConn]
    /\ UNCHANGED <<listening, sock, connsCount, shutdown, doneCloses, closeResult, gcount>>

CountConn(p) ==
    /\ At(p, "count", "out")
    /\ connsCount' = connsCount + 1
    /\ gconn' = [gconn EXCEPT ![p] = NoConn]
    /\ UNCHANGED <<listening, sock, shutdown, doneCloses, closeResult, gcount>>

\* gracefulConn.Close: the wrapped Close fails on a closed socket,
ConnCloseFails(p, c) ==
    /\ gpc[p] = "out"
    /\ sock[c] = "closed"
    /\ UNCHANGED lnVars

\* and otherwise closes it, and closeConn is called.
ConnCloseUnchecked(p, c) ==
    /\ At(p, "out", "dec")
    /\ sock' = [sock EXCEPT ![c] = "closed"]
    /\ gconn' = [gconn EXCEPT ![p] = c]
    /\ UNCHANGED <<listening, connsCount, shutdown, doneCloses, closeResult, gcount>>

ConnClose(p, c) ==
    /\ At(p, "out", "dec")
    /\ sock[c] = "open"
    /\ sock' = [sock EXCEPT ![c] = "closed"]
    /\ gconn' = [gconn EXCEPT ![p] = c]
    /\ UNCHANGED <<listening, connsCount, shutdown, doneCloses, closeResult, gcount>>

\* closeConn: the decrement. It never wraps around: CountMatchesSockets.
DecConns(p) ==
    /\ At(p, "dec", "check")
    /\ connsCount' = connsCount - 1
    /\ gcount' = [gcount EXCEPT ![p] = connsCount - 1]
    /\ UNCHANGED <<listening, sock, shutdown, doneCloses, closeResult, gconn>>

\* closeConn: the last connection of a shutdown closes done.
CheckShutdown(p) ==
    /\ At(p, "check", "out")
    /\ doneCloses' = IF shutdown # 0 /\ gcount[p] = 0 THEN doneCloses + 1 ELSE doneCloses
    /\ gconn' = [gconn EXCEPT ![p] = NoConn]
    /\ UNCHANGED <<listening, sock, connsCount, shutdown, closeResult, gcount>>

-----------------------------------------------------------------------------
\* Close: the wrapped Close fails on a closed listener, which is not an error,
LnCloseAgain(p) ==
    /\ gpc[p] = "out"
    /\ ~listening
    /\ UNCHANGED lnVars

\* and otherwise ends accepting, and waitForZeroConns is called.
LnClose(p) ==
    /\ At(p, "out", "shutdown")
    /\ listening
    /\ listening' = FALSE
    /\ UNCHANGED <<sock, connsCount, shutdown, doneCloses, closeResult, gconn, gcount>>

AddShutdown(p) ==
    /\ At(p, "shutdown", "load")
    /\ shutdown' = shutdown + 1
    /\ UNCHANGED <<listening, sock, connsCount, doneCloses, closeResult, gconn, gcount>>

\* waitForZeroConns: return at once when the count is zero,
NoConns(p) ==
    /\ At(p, "load", "out")
    /\ connsCount = 0
    /\ doneCloses' = doneCloses + 1
    /\ closeResult' = "nil"
    /\ UNCHANGED <<listening, sock, connsCount, shutdown, gconn, gcount>>

\* else wait for done,
SomeConns(p) ==
    /\ At(p, "load", "select")
    /\ connsCount # 0
    /\ UNCHANGED <<listening, sock, connsCount, shutdown, doneCloses, closeResult,
                   gconn, gcount>>

WaitDone(p) ==
    /\ At(p, "select", "out")
    /\ doneCloses > 0
    /\ closeResult' = "nil"
    /\ UNCHANGED <<listening, sock, connsCount, shutdown, doneCloses, gconn, gcount>>

\* for no longer than maxWaitTime.
WaitTimeout(p) ==
    /\ At(p, "select", "out")
    /\ CanTimeout
    /\ closeResult' = "timeout"
    /\ UNCHANGED <<listening, sock, connsCount, shutdown, doneCloses, gconn, gcount>>

-----------------------------------------------------------------------------
OpenSocks == {c \in Conns : sock[c] = "open"}
Inside(pc) == {p \in Procs : gpc[p] = pc}

\* connsCount is the number of open sockets but for the goroutines between a
\* socket's change and the count's: a connection closed by its worker and by
\* Server.Close at once is counted down once, so the unsigned count never
\* wraps around.
CountMatchesSockets ==
    connsCount + Cardinality(Inside("count"))
       = Cardinality(OpenSocks) + Cardinality(Inside("dec"))
=============================================================================
