------------------------------- MODULE Server -------------------------------
(***************************************************************************)
(* server/server.go: the accept loop of ListenAndServe over a              *)
(* GracefulListener and a WorkerPool, the table of active connections that *)
(* the workers keep through trackConn, and Close.                          *)
(*                                                                         *)
(* The goroutines are the accept loop, the workers and the goroutine that  *)
(* calls Close.  A step of the accept loop or of a worker is a step of the *)
(* pool conjoined with the step of the listener it makes.  s.mu is held    *)
(* across steps only by Close.                                             *)
(*                                                                         *)
(* The pool's cleaner does not run here: it touches nothing but the pool,  *)
(* and WorkerPool has it.                                                  *)
(***************************************************************************)
EXTENDS GracefulListener, Sequences

CONSTANTS Chans, AcceptLoop, Closer, MaxWorkersCount

ASSUME MaxWorkersAssumption == MaxWorkersCount \in Nat \ {0}
ASSUME GoroutinesAssumption ==
    /\ Chans \cup {AcceptLoop, Closer} \subseteq Procs
    /\ AcceptLoop \notin Chans /\ Closer \notin Chans /\ AcceptLoop # Closer
    /\ NoConn \notin Chans

VARIABLES workerChanCap, workersCount, mustStop, stopCh, ready, q,
          idleFor, wpc, wconn, cpc, cconn, cch, kpc, scratch,
          connState

VARIABLES
    activeConn,  \* s.activeConn
    spc,         \* the goroutine in Close: "idle", "listener", "range", "closing", "done"
    sconn        \* Close's loop variable

serverVars == <<activeConn, spc, sconn>>
wpVars == <<workerChanCap, workersCount, mustStop, stopCh, ready, q,
            idleFor, wpc, wconn, cpc, cconn, cch, kpc, scratch,
            connState>>

WP == INSTANCE WorkerPool WITH
         Callers <- {AcceptLoop},
         Nil <- NoConn,
         MaxIdleWorkerDuration <- 0

vars == <<lnVars, wpVars, serverVars>>

TypeOK ==
    /\ LnTypeOK
    /\ WP!TypeOK
    /\ activeConn \subseteq Conns
    /\ spc \in {"idle", "listener", "range", "closing", "done"}
    /\ sconn \in Conns \cup {NoConn}

\* ListenAndServe has checked its configuration and called wp.Start.
Init ==
    /\ LnInit
    /\ WP!Init
    /\ activeConn = {}
    /\ spc = "idle"
    /\ sconn = NoConn

MuNeverUnlocked == spc = "idle"

MuFree == spc \in {"idle", "done"}

-----------------------------------------------------------------------------
\* The accept loop.
StartPool == WP!Start /\ UNCHANGED <<lnVars, serverVars>>

\* acceptConn: the listener's Accept, in two steps.
AcceptInner(c) ==
    /\ stopCh # "nil"
    /\ cpc[AcceptLoop] = "idle"
    /\ InnerAccept(AcceptLoop, c)
    /\ UNCHANGED <<wpVars, serverVars>>

AcceptReturns(c) ==
    /\ gconn[AcceptLoop] = c
    /\ CountConn(AcceptLoop)
    /\ WP!Accept(AcceptLoop, c)
    /\ UNCHANGED serverVars

\* acceptConn failed for good, because the listener is closed or for another
\* reason: wp.Stop, and ListenAndServe returns.  After a temporary error it
\* sleeps and accepts again, which changes nothing.
AcceptFails ==
    /\ gpc[AcceptLoop] = "out"
    /\ WP!StopClose(AcceptLoop)
    /\ UNCHANGED <<lnVars, serverVars>>

\* The steps inside Serve and Stop, which leave the listener alone.
ServeOrStop ==
    /\ \/ WP!GetChReady(AcceptLoop)
       \/ WP!GetChCreate(AcceptLoop)
       \/ WP!GetChNone(AcceptLoop)
       \/ \E ch \in Chans : WP!Spawn(AcceptLoop, ch)
       \/ WP!Send(AcceptLoop)
       \/ WP!StopLock(AcceptLoop)
       \/ WP!StopSend(AcceptLoop)
       \/ WP!StopUnlock(AcceptLoop)
    /\ UNCHANGED <<lnVars, serverVars>>

\* Serve returned false: OnConcurrencyLimitExceeded, then c.Close(), whose last
\* step ends the loop's body.
RefuseClose ==
    /\ cpc[AcceptLoop] = "reject"
    /\ ConnClose(AcceptLoop, cconn[AcceptLoop])
    /\ UNCHANGED <<wpVars, serverVars>>

RefuseCount ==
    /\ DecConns(AcceptLoop)
    /\ UNCHANGED <<wpVars, serverVars>>

RefuseEnds ==
    /\ CheckShutdown(AcceptLoop)
    /\ WP!Reject(AcceptLoop)
    /\ UNCHANGED serverVars

AcceptLoopStep ==
    \/ StartPool
    \/ \E c \in Conns : AcceptReturns(c)
    \/ ServeOrStop
    \/ RefuseClose
    \/ RefuseCount
    \/ RefuseEnds

-----------------------------------------------------------------------------
\* A worker.

\* trackConn(c, true)
Track(ch) ==
    /\ MuFree
    /\ WP!Track(ch)
    /\ activeConn' = activeConn \cup {wconn[ch]}
    /\ UNCHANGED <<lnVars, spc, sconn>>

\* trackConn(c, false)
UntrackForgotten(ch) ==
    /\ MuFree
    /\ WP!Untrack(ch)
    /\ UNCHANGED <<lnVars, serverVars>>

Untrack(ch) ==
    /\ MuFree
    /\ WP!Untrack(ch)
    /\ activeConn' = activeConn \ {wconn[ch]}
    /\ UNCHANGED <<lnVars, spc, sconn>>

\* c.Close() of a connection that Server.Close has closed: an error, ignored.
WorkerCloseFails(ch) ==
    /\ wpc[ch] = "close"
    /\ ConnCloseFails(ch, wconn[ch])
    /\ WP!CloseConn(ch)
    /\ UNCHANGED serverVars

WorkerClose(ch) ==
    /\ wpc[ch] = "close"
    /\ ConnClose(ch, wconn[ch])
    /\ UNCHANGED <<wpVars, serverVars>>

WorkerCloseCount(ch) ==
    /\ DecConns(ch)
    /\ UNCHANGED <<wpVars, serverVars>>

WorkerCloseEnds(ch) ==
    /\ CheckShutdown(ch)
    /\ WP!CloseConn(ch)
    /\ UNCHANGED serverVars

\* The steps that leave the listener and the server alone.
WorkerInner(ch) ==
    /\ \/ WP!Arrive(ch)
       \/ WP!Recv(ch)
       \/ WP!Handle(ch)
       \/ WP!Stamp(ch)
       \/ WP!Release(ch)
       \/ WP!Exit(ch)
       \/ WP!Put(ch)
    /\ UNCHANGED <<lnVars, serverVars>>

WorkerStep(ch) ==
    \/ WorkerInner(ch)
    \/ Track(ch)
    \/ Untrack(ch)
    \/ WorkerCloseFails(ch)
    \/ WorkerClose(ch)
    \/ WorkerCloseCount(ch)
    \/ WorkerCloseEnds(ch)

-----------------------------------------------------------------------------
\* Close, under s.mu: first the listener's Close,
CloseCalled ==
    /\ spc = "idle"
    /\ stopCh # "nil"
    /\ spc' = "listener"
    /\ LnClose(Closer)
    /\ UNCHANGED <<wpVars, activeConn, sconn>>

\* a call of Close after the first: the listener's Close returns at once,
CloseAgain ==
    /\ spc = "done"
    /\ LnCloseAgain(Closer)
    /\ spc' = "range"
    /\ UNCHANGED <<wpVars, activeConn, sconn>>

CloseInListener ==
    /\ AddShutdown(Closer) \/ SomeConns(Closer)
    /\ UNCHANGED <<wpVars, serverVars>>

ListenerClosed ==
    /\ NoConns(Closer) \/ WaitDone(Closer) \/ WaitTimeout(Closer)
    /\ spc' = "range"
    /\ UNCHANGED <<wpVars, activeConn, sconn>>

\* then, for each active connection in any order, c.Close() and delete,
CloseRange(c) ==
    /\ spc = "range"
    /\ c \in activeConn
    /\ ConnClose(Closer, c)
    /\ sconn' = c
    /\ spc' = "closing"
    /\ UNCHANGED <<wpVars, activeConn>>

CloseRangeFails(c) ==
    /\ spc = "range"
    /\ c \in activeConn
    /\ ConnCloseFails(Closer, c)
    /\ activeConn' = activeConn \ {c}
    /\ UNCHANGED <<wpVars, spc, sconn>>

CloseCount ==
    /\ DecConns(Closer)
    /\ UNCHANGED <<wpVars, serverVars>>

CloseDelete ==
    /\ CheckShutdown(Closer)
    /\ activeConn' = activeConn \ {sconn}
    /\ sconn' = NoConn
    /\ spc' = "range"
    /\ UNCHANGED wpVars

\* and the unlock.
CloseReturns ==
    /\ spc = "range"
    /\ activeConn = {}
    /\ spc' = "done"
    /\ UNCHANGED <<lnVars, wpVars, activeConn, sconn>>

CloserStep ==
    \/ CloseInListener
    \/ ListenerClosed
    \/ \E c \in Conns : CloseRange(c) \/ CloseRangeFails(c)
    \/ CloseCount
    \/ CloseDelete
    \/ CloseReturns

-----------------------------------------------------------------------------
Next ==
    /\ ~Panicked
    /\ \/ \E c \in Conns : AcceptInner(c)
       \/ AcceptFails
       \/ AcceptLoopStep
       \/ \E ch \in Chans : WorkerStep(ch)
       \/ CloseCalled
       \/ CloseAgain
       \/ CloserStep

Spec == Init /\ [][Next]_vars

\* As in WorkerPool, goroutines that can run are scheduled and handlers return.
\* Accept of a closed listener returns an error.  A goroutine that waits for
\* s.mu gets it although others keep taking it: sync.Mutex does not starve.
Fairness ==
    /\ WF_vars(~Panicked /\ AcceptLoopStep)
    /\ WF_vars(~Panicked /\ ~listening /\ AcceptFails)
    /\ \A ch \in Chans : WF_vars(~Panicked /\ WorkerStep(ch))
    /\ \A ch \in Chans : SF_vars(~Panicked /\ (Track(ch) \/ Untrack(ch)))
    /\ WF_vars(~Panicked /\ CloserStep)

FairSpec == Spec /\ Fairness

-----------------------------------------------------------------------------
\* The connections between trackConn(c, true) and trackConn(c, false).
Tracked == {wconn[ch] : ch \in {ch \in Chans : wpc[ch] \in {"handle", "untrack"}}}

\* activeConn is exactly the connections being served, less those that Close
\* has closed: Close finds each of them, and no finished connection stays in
\* the table.
ActiveAreTracked ==
    /\ activeConn \subseteq Tracked
    /\ \A c \in Tracked \ activeConn : sock[c] = "closed"

\* Once Close is called, ListenAndServe returns, every worker ends and every
\* accepted connection is closed, also one that was accepted while Close was
\* running; unless close(ln.done) is called twice and the process panics.
ShutdownCompletes ==
    spc # "idle" ~>
       \/ Panicked
       \/ /\ spc = "done"
          /\ cpc[AcceptLoop] = "stopped"
          /\ \A ch \in Chans : wpc[ch] = "free"
          /\ OpenSocks = {}
=============================================================================
