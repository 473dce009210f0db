----------------------------- MODULE WorkerPool -----------------------------
(***************************************************************************)
(* server/workerpool.go: a pool of goroutines that serve connections.      *)
(*                                                                         *)
(* A worker goroutine is bound to one workerChan for its whole life, so a  *)
(* worker is named by its workerChan: wpc[ch] is the program counter of    *)
(* the goroutine that reads ch, "free" when there is none (the workerChan  *)
(* is in workerChanPool, or is yet to be made).  Callers are the           *)
(* goroutines that call Serve; in this program there is one, the accept    *)
(* loop of Server.ListenAndServe, which also calls Stop.                   *)
(*                                                                         *)
(* Sections under wp.lock are single steps, except that of Stop, which     *)
(* sends on channels while it holds the lock.                              *)
(*                                                                         *)
(* A new worker, and one that release has just put into ready, can be      *)
(* handed out before it is back at its receive ("loop").  A send on a      *)
(* channel of capacity 0 is a rendezvous: it waits until the worker is at  *)
(* its receive ("recv").  The value then sits in q[ch] for the instant     *)
(* before the worker's Recv step.                                          *)
(***************************************************************************)
EXTENDS Integers, FiniteSets, SequencesExt

CONSTANTS
    Conns,                  \* the connections that may arrive
    Chans,                  \* the workerChans
    Callers,                \* the goroutines that call Serve
    MaxWorkersCount,
    MaxIdleWorkerDuration,  \* what getMaxIdleWorkerDuration returns, in whole
                            \* seconds, the grain of the coarse clock
    Nil                     \* the nil connection: tells a worker to stop

ASSUME MaxWorkersAssumption == MaxWorkersCount \in Nat \ {0}
ASSUME TimeAssumption == MaxIdleWorkerDuration \in Nat
ASSUME ChansAssumption == IsFiniteSet(Chans) /\ IsFiniteSet(Callers)
ASSUME NilAssumption == Nil \notin Conns /\ Nil \notin Chans

VARIABLES
    workerChanCap,  \* 0 if GOMAXPROCS = 1, else 1; fixed when the process starts
    workersCount,
    mustStop,
    stopCh,         \* "nil" before Start, then "open"; Stop has "closed" it
    ready,          \* wp.ready: the idle workers, least recently released first
    q,              \* q[ch]: the content of ch.ch
    idleFor,        \* time since ch.idleFor, of a worker that release stamped
    wpc, wconn,     \* the workers: program counter, connection being served
    cpc, cconn, cch,\* the callers: program counter, connection, workerChan
    kpc, scratch,   \* the cleaner goroutine and clean's scratch
    connState       \* what has been done with each connection

poolVars   == <<workersCount, mustStop, stopCh, ready>>
workerVars == <<wpc, wconn>>
callerVars == <<cpc, cconn, cch>>
cleanVars  == <<kpc, scratch>>
vars == <<workerChanCap, poolVars, q, idleFor, workerVars, callerVars,
          cleanVars, connState>>

\* Idle times are counted up to here: as good as for ever.
LongIdle == MaxIdleWorkerDuration + 2

WorkerPC == {"free", "loop", "recv", "track", "handle", "untrack", "close", "stamp",
             "release", "exit", "put"}
CallerPC == {"idle", "getCh", "create", "send", "reject", "stop", "stopping",
             "stopped"}

TypeOK ==
    /\ workerChanCap \in {0, 1}
    /\ workersCount \in Nat
    /\ mustStop \in BOOLEAN
    /\ stopCh \in {"nil", "open", "closed"}
    /\ ready \in Seq(Chans)
    /\ q \in [Chans -> Seq(Conns \cup {Nil})]
    /\ idleFor \in [Chans -> 0 .. LongIdle]
    /\ wpc \in [Chans -> WorkerPC]
    /\ wconn \in [Chans -> Conns \cup {Nil}]
    /\ cpc \in [Callers -> CallerPC]
    /\ cconn \in [Callers -> Conns \cup {Nil}]
    /\ cch \in [Callers -> Chans \cup {Nil}]
    /\ kpc \in {"off", "scan", "send", "check", "sleep"}
    /\ scratch \in Seq(Chans)
    /\ connState \in [Conns -> {"new", "accepted", "served", "closed"}]

Init ==
    /\ workerChanCap \in {0, 1}
    /\ workersCount = 0
    /\ mustStop = FALSE
    /\ stopCh = "nil"
    /\ ready = <<>>
    /\ q = [ch \in Chans |-> <<>>]
    /\ idleFor = [ch \in Chans |-> 0]
    /\ wpc = [ch \in Chans |-> "free"]
    /\ wconn = [ch \in Chans |-> Nil]
    /\ cpc = [a \in Callers |-> "idle"]
    /\ cconn = [a \in Callers |-> Nil]
    /\ cch = [a \in Callers |-> Nil]
    /\ kpc = "off"
    /\ scratch = <<>>
    /\ connState = [c \in Conns |-> "new"]

-----------------------------------------------------------------------------

\* wp.lock is held across steps only by Stop.
LockFree == \A a \in Callers : cpc[a] # "stopping"

\* Whether a send on ch.ch proceeds now.
CanSend(ch) == q[ch] = <<>> /\ (workerChanCap = 0 => wpc[ch] = "recv")

SendTo(ch, v) == CanSend(ch) /\ q' = [q EXCEPT ![ch] = Append(@, v)]

\* A second passes for the workers that have stamped their time of last use.
Tick ==
    /\ idleFor' = [ch \in Chans |->
                     IF (wpc[ch] = "release" \/ Contains(ready, ch)) /\ idleFor[ch] < LongIdle
                     THEN idleFor[ch] + 1 ELSE idleFor[ch]]
    /\ UNCHANGED <<workerChanCap, poolVars, q, workerVars, callerVars, cleanVars,
                   connState>>

\* Start makes stopCh and launches the cleaner.
Start ==
    /\ stopCh = "nil"
    /\ stopCh' = "open"
    /\ kpc' = "scan"
    /\ UNCHANGED <<workerChanCap, workersCount, mustStop, ready, q, idleFor,
                   workerVars, callerVars, scratch, connState>>

-----------------------------------------------------------------------------
\* The callers: Serve, what the accept loop does when it fails, and Stop.

\* A connection was accepted; the caller enters Serve.
Accept(a, c) ==
    /\ stopCh # "nil"
    /\ cpc[a] = "idle"
    /\ connState[c] = "new"
    /\ connState' = [connState EXCEPT ![c] = "accepted"]
    /\ cconn' = [cconn EXCEPT ![a] = c]
    /\ cpc' = [cpc EXCEPT ![a] = "getCh"]
    /\ UNCHANGED <<workerChanCap, poolVars, q, idleFor, workerVars, cch,
                   cleanVars>>

\* The locked section of getCh hands out the most recently released worker,
GetChReadyNotPopped(a) ==
    /\ cpc[a] = "getCh"
    /\ LockFree
    /\ ready # <<>>
    /\ cch' = [cch EXCEPT ![a] = Last(ready)]
    /\ cpc' = [cpc EXCEPT ![a] = "send"]
    /\ UNCHANGED <<workerChanCap, poolVars, q, idleFor, workerVars,
                   cconn, cleanVars, connState>>

GetChReady(a) ==
    /\ cpc[a] = "getCh"
    /\ LockFree
    /\ ready # <<>>
    /\ cch' = [cch EXCEPT ![a] = Last(ready)]
    /\ ready' = Front(ready)
    /\ cpc' = [cpc EXCEPT ![a] = "send"]
    /\ UNCHANGED <<workerChanCap, workersCount, mustStop, stopCh, q,
                   idleFor, workerVars, cconn, cleanVars, connState>>

\* or, when no worker is idle, decides to create one,
GetChCreateUncounted(a) ==
    /\ cpc[a] = "getCh"
    /\ LockFree
    /\ ready = <<>>
    /\ workersCount < MaxWorkersCount
    /\ cpc' = [cpc EXCEPT ![a] = "create"]
    /\ UNCHANGED <<workerChanCap, poolVars, q, idleFor, workerVars,
                   cconn, cch, cleanVars, connState>>

GetChCreateOneMore(a) ==
    /\ cpc[a] = "getCh"
    /\ LockFree
    /\ ready = <<>>
    /\ workersCount <= MaxWorkersCount
    /\ workersCount' = workersCount + 1
    /\ cpc' = [cpc EXCEPT ![a] = "create"]
    /\ UNCHANGED <<workerChanCap, mustStop, stopCh, ready, q, idleFor,
                   workerVars, cconn, cch, cleanVars, connState>>

GetChCreate(a) ==
    /\ cpc[a] = "getCh"
    /\ LockFree
    /\ ready = <<>>
    /\ workersCount < MaxWorkersCount
    /\ workersCount' = workersCount + 1
    /\ cpc' = [cpc EXCEPT ![a] = "create"]
    /\ UNCHANGED <<workerChanCap, mustStop, stopCh, ready, q, idleFor,
                   workerVars, cconn, cch, cleanVars, connState>>

\* or returns nil when there are MaxWorkersCount of them.
GetChNone(a) ==
    /\ cpc[a] = "getCh"
    /\ LockFree
    /\ ready = <<>>
    /\ workersCount >= MaxWorkersCount
    /\ cpc' = [cpc EXCEPT ![a] = "reject"]
    /\ UNCHANGED <<workerChanCap, poolVars, q, idleFor, workerVars,
                   cconn, cch, cleanVars, connState>>

\* The rest of getCh: a workerChan from workerChanPool (or a new one), and the
\* goroutine that will read it, which has yet to run when getCh returns.  What is
\* in the channel is left as it was.
Spawn(a, ch) ==
    /\ cpc[a] = "create"
    /\ wpc[ch] = "free"
    /\ wpc' = [wpc EXCEPT ![ch] = "loop"]
    /\ cch' = [cch EXCEPT ![a] = ch]
    /\ cpc' = [cpc EXCEPT ![a] = "send"]
    /\ UNCHANGED <<workerChanCap, poolVars, q, idleFor, wconn, cconn,
                   cleanVars, connState>>

\* Serve: ch.ch <- c.
SendThenReject(a) ==
    /\ cpc[a] = "send"
    /\ SendTo(cch[a], cconn[a])
    /\ cpc' = [cpc EXCEPT ![a] = "reject"]
    /\ UNCHANGED <<workerChanCap, poolVars, idleFor, workerVars, cconn,
                   cch, cleanVars, connState>>

Send(a) ==
    /\ cpc[a] = "send"
    /\ SendTo(cch[a], cconn[a])
    /\ cpc' = [cpc EXCEPT ![a] = "idle"]
    /\ cconn' = [cconn EXCEPT ![a] = Nil]
    /\ cch' = [cch EXCEPT ![a] = Nil]
    /\ UNCHANGED <<workerChanCap, poolVars, idleFor, workerVars,
                   cleanVars, connState>>

\* Serve returned false: the accept loop closes the connection itself.
Reject(a) ==
    /\ cpc[a] = "reject"
    /\ connState' = [connState EXCEPT ![cconn[a]] = "closed"]
    /\ cconn' = [cconn EXCEPT ![a] = Nil]
    /\ cpc' = [cpc EXCEPT ![a] = "idle"]
    /\ UNCHANGED <<workerChanCap, poolVars, q, idleFor, workerVars, cch,
                   cleanVars>>

\* Stop: close(wp.stopCh),
StopClose(a) ==
    /\ cpc[a] = "idle"
    /\ stopCh = "open"
    /\ stopCh' = "closed"
    /\ cpc' = [cpc EXCEPT ![a] = "stop"]
    /\ UNCHANGED <<workerChanCap, workersCount, mustStop, ready, q,
                   idleFor, workerVars, cconn, cch, cleanVars, connState>>

\* then wp.lock.Lock(),
StopLock(a) ==
    /\ cpc[a] = "stop"
    /\ LockFree
    /\ cpc' = [cpc EXCEPT ![a] = "stopping"]
    /\ UNCHANGED <<workerChanCap, poolVars, q, idleFor, workerVars, cconn, cch,
                   cleanVars, connState>>

\* under wp.lock, ch.ch <- nil for each idle worker,
StopSend(a) ==
    /\ cpc[a] = "stopping"
    /\ ready # <<>>
    /\ SendTo(Head(ready), Nil)
    /\ ready' = Tail(ready)
    /\ UNCHANGED <<workerChanCap, workersCount, mustStop, stopCh,
                   idleFor, workerVars, callerVars, cleanVars, connState>>

\* and mustStop for the busy ones.
StopUnlock(a) ==
    /\ cpc[a] = "stopping"
    /\ ready = <<>>
    /\ mustStop' = TRUE
    /\ cpc' = [cpc EXCEPT ![a] = "stopped"]
    /\ UNCHANGED <<workerChanCap, workersCount, stopCh, ready, q,
                   idleFor, workerVars, cconn, cch, cleanVars, connState>>

-----------------------------------------------------------------------------
\* workerFunc: the life of a worker.

\* A step of worker ch from one program counter to the next that touches
\* nothing else of the worker.
Move(ch, from, to) == wpc[ch] = from /\ wpc' = [wpc EXCEPT ![ch] = to]

\* The goroutine gets to the receive of its loop: it starts to run, or comes from
\* the unlock of release.
Arrive(ch) ==
    /\ Move(ch, "loop", "recv")
    /\ UNCHANGED <<workerChanCap, poolVars, q, idleFor, wconn,
                   callerVars, cleanVars, connState>>

\* for c = range ch.ch: a nil connection ends the worker.  The time of last use is
\* not read again before release sets it.
Recv(ch) ==
    /\ wpc[ch] = "recv"
    /\ q[ch] # <<>>
    /\ q' = [q EXCEPT ![ch] = Tail(@)]
    /\ wconn' = [wconn EXCEPT ![ch] = Head(q[ch])]
    /\ wpc' = [wpc EXCEPT ![ch] = IF Head(q[ch]) = Nil THEN "exit" ELSE "track"]
    /\ idleFor' = [idleFor EXCEPT ![ch] = 0]
    /\ UNCHANGED <<workerChanCap, poolVars, callerVars, cleanVars, connState>>

\* wp.Tracker(c, true)
Track(ch) ==
    /\ Move(ch, "track", "handle")
    /\ UNCHANGED <<workerChanCap, poolVars, q, idleFor, wconn,
                   callerVars, cleanVars, connState>>

\* wp.WorkerFunc(c) returns, with or without an error.
Handle(ch) ==
    /\ Move(ch, "handle", "untrack")
    /\ connState' = [connState EXCEPT ![wconn[ch]] = "served"]
    /\ UNCHANGED <<workerChanCap, poolVars, q, idleFor, wconn,
                   callerVars, cleanVars>>

\* wp.Tracker(c, false)
Untrack(ch) ==
    /\ Move(ch, "untrack", "close")
    /\ UNCHANGED <<workerChanCap, poolVars, q, idleFor, wconn,
                   callerVars, cleanVars, connState>>

\* c.Close()
CloseConn(ch) ==
    /\ Move(ch, "close", "stamp")
    /\ connState' = [connState EXCEPT ![wconn[ch]] = "closed"]
    /\ wconn' = [wconn EXCEPT ![ch] = Nil]
    /\ UNCHANGED <<workerChanCap, poolVars, q, idleFor, callerVars,
                   cleanVars>>

\* release, before wp.lock: the time of last use.
Stamp(ch) ==
    /\ Move(ch, "stamp", "release")
    /\ idleFor' = [idleFor EXCEPT ![ch] = 0]
    /\ UNCHANGED <<workerChanCap, poolVars, q, wconn, callerVars, cleanVars,
                   connState>>

\* release, under wp.lock: join the idle workers unless the pool is stopped.
ReleaseIgnoringStop(ch) ==
    /\ wpc[ch] = "release"
    /\ LockFree
    /\ ready' = Append(ready, ch)
    /\ wpc' = [wpc EXCEPT ![ch] = "loop"]
    /\ UNCHANGED <<workerChanCap, workersCount, mustStop, stopCh, q,
                   idleFor, wconn, callerVars, cleanVars, connState>>

Release(ch) ==
    /\ wpc[ch] = "release"
    /\ LockFree
    /\ \/ /\ mustStop
          /\ wpc' = [wpc EXCEPT ![ch] = "exit"]
          /\ UNCHANGED ready
       \/ /\ ~mustStop
          /\ ready' = Append(ready, ch)
          /\ wpc' = [wpc EXCEPT ![ch] = "loop"]
    /\ UNCHANGED <<workerChanCap, workersCount, mustStop, stopCh, q,
                   idleFor, wconn, callerVars, cleanVars, connState>>

\* The end of workerFunc: workersCount-- under wp.lock.
Exit(ch) ==
    /\ Move(ch, "exit", "put")
    /\ LockFree
    /\ workersCount' = workersCount - 1
    /\ UNCHANGED <<workerChanCap, mustStop, stopCh, ready, q, idleFor,
                   wconn, callerVars, cleanVars, connState>>

\* wp.workerChanPool.Put(vch), the goroutine's last step.
Put(ch) ==
    /\ Move(ch, "put", "free")
    /\ UNCHANGED <<workerChanCap, poolVars, q, idleFor, wconn,
                   callerVars, cleanVars, connState>>

-----------------------------------------------------------------------------
\* clean, called in a loop by the goroutine that Start launches.

\* The worker has been idle too long, for a clock that lags behind.
ExpiredReversed(ch, lag) == lag - idleFor[ch] > MaxIdleWorkerDuration

Expired(ch, lag) == idleFor[ch] - lag > MaxIdleWorkerDuration

\* Under wp.lock: the longest prefix of expired workers leaves ready.  The time
\* was read before the lock (lag 1); on the other hand the coarse clock of the
\* stamps, truncated and refreshed once a second, was itself late (lag -1, -2).
\* release stamps before it locks, so ready need not be in the order of idleFor.
CleanScanNotRemoved ==
    /\ kpc = "scan"
    /\ LockFree
    /\ \E lag \in -2 .. 1, i \in 0 .. Len(ready) :
          /\ \A j \in 1 .. i : Expired(ready[j], lag)
          /\ i < Len(ready) => ~Expired(ready[i + 1], lag)
          /\ scratch' = SubSeq(ready, 1, i)
    /\ kpc' = "send"
    /\ UNCHANGED <<workerChanCap, poolVars, q, idleFor, workerVars,
                   callerVars, connState>>

CleanScan ==
    /\ kpc = "scan"
    /\ LockFree
    /\ \E lag \in -2 .. 1, i \in 0 .. Len(ready) :
          /\ \A j \in 1 .. i : Expired(ready[j], lag)
          /\ i < Len(ready) => ~Expired(ready[i + 1], lag)
          /\ scratch' = SubSeq(ready, 1, i)
          /\ ready' = SubSeq(ready, i + 1, Len(ready))
    /\ kpc' = "send"
    /\ UNCHANGED <<workerChanCap, workersCount, mustStop, stopCh, q,
                   idleFor, workerVars, callerVars, connState>>

\* Outside the lock: ch.ch <- nil for the next obsolete worker.
CleanSend ==
    /\ kpc = "send"
    /\ scratch # <<>>
    /\ SendTo(Head(scratch), Nil)
    /\ scratch' = Tail(scratch)
    /\ UNCHANGED <<workerChanCap, poolVars, idleFor, workerVars,
                   callerVars, kpc, connState>>

CleanDone ==
    /\ kpc = "send"
    /\ scratch = <<>>
    /\ kpc' = "check"
    /\ UNCHANGED <<workerChanCap, poolVars, q, idleFor, workerVars,
                   callerVars, scratch, connState>>

\* select on stopCh: leave, or sleep and clean again.
CleanCheck ==
    /\ kpc = "check"
    /\ kpc' = IF stopCh = "closed" THEN "off" ELSE "sleep"
    /\ UNCHANGED <<workerChanCap, poolVars, q, idleFor, workerVars,
                   callerVars, scratch, connState>>

CleanWake ==
    /\ kpc = "sleep"
    /\ kpc' = "scan"
    /\ UNCHANGED <<workerChanCap, poolVars, q, idleFor, workerVars,
                   callerVars, scratch, connState>>

-----------------------------------------------------------------------------
\* What the program does once a caller is inside Serve or Stop.
CallerStep(a) ==
    \/ GetChReady(a)
    \/ GetChCreate(a)
    \/ GetChNone(a)
    \/ \E ch \in Chans : Spawn(a, ch)
    \/ Send(a)
    \/ Reject(a)
    \/ StopLock(a)
    \/ StopSend(a)
    \/ StopUnlock(a)

WorkerStep(ch) ==
    \/ Arrive(ch)
    \/ Recv(ch)
    \/ Track(ch)
    \/ Handle(ch)
    \/ Untrack(ch)
    \/ CloseConn(ch)
    \/ Stamp(ch)
    \/ Release(ch)
    \/ Exit(ch)
    \/ Put(ch)

CleanStep ==
    \/ CleanScan
    \/ CleanSend
    \/ CleanDone
    \/ CleanCheck
    \/ CleanWake

Next ==
    \/ Tick
    \/ Start
    \/ \E a \in Callers : \E c \in Conns : Accept(a, c)
    \/ \E a \in Callers : StopClose(a)
    \/ \E a \in Callers : CallerStep(a)
    \/ \E ch \in Chans : WorkerStep(ch)
    \/ CleanStep

\* Goroutines that can run are scheduled, time passes, and a handler returns
\* (which Proxy.serveConn does when its peers or its deadlines let it).
Fairness ==
    /\ \A a \in Callers : WF_vars(CallerStep(a))
    /\ \A ch \in Chans : WF_vars(WorkerStep(ch))
    /\ WF_vars(CleanStep)
    /\ WF_vars(Tick)

Spec == Init /\ [][Next]_vars
FairSpec == Spec /\ Fairness

-----------------------------------------------------------------------------
\* The goroutines that exist and have not yet left workerFunc, together with
\* those that a caller is about to launch.
Workers == {ch \in Chans : wpc[ch] \notin {"free", "put"}}
Creating == {a \in Callers : cpc[a] = "create"}

\* workersCount is the number of workers, although it is raised before the
\* goroutine exists (getCh) and lowered by the goroutine itself (workerFunc),
\* and never exceeds MaxWorkersCount.
CountExact ==
    /\ workersCount = Cardinality(Workers) + Cardinality(Creating)
    /\ workersCount <= MaxWorkersCount

InHand(ch) == \E a \in Callers : cpc[a] = "send" /\ cch[a] = ch

\* Somebody has the right to send to the worker.
Held(ch) == Contains(ready, ch) \/ Contains(scratch, ch) \/ InHand(ch)

\* The right to send to a worker has at most one holder: wp.ready, the scratch
\* of clean, which is empty between two calls, or one caller between getCh and
\* its send.
HeldOnce ==
    /\ kpc # "send" => scratch = <<>>
    /\ IsInjective(ready)
    /\ IsInjective(scratch)
    /\ \A ch \in Chans : ~(Contains(ready, ch) /\ Contains(scratch, ch))
    /\ \A a \in Callers : cpc[a] = "send" =>
          /\ cch[a] \in Chans
          /\ ~Contains(ready, cch[a])
          /\ ~Contains(scratch, cch[a])
          /\ \A b \in Callers : cpc[b] = "send" /\ cch[b] = cch[a] => b = a

\* The worker is at its receive or on its way there, with nothing left to do that
\* needs a lock or a peer.
AtReceive(ch) == wpc[ch] \in {"loop", "recv"}

\* Who holds the right to send to a worker finds it waiting, or about to wait,
\* with an empty channel, and such a worker is held: it is never forgotten.  No
\* channel has a value that its worker will not receive.
HeldIffWaiting ==
    /\ \A ch \in Chans : Held(ch) <=> (AtReceive(ch) /\ q[ch] = <<>>)
    /\ \A ch \in Chans : ~AtReceive(ch) => q[ch] = <<>>
    /\ \A ch \in Chans : Len(q[ch]) <= 1

\* getCh, clean, Stop and release pass each idle worker from one holder to the
\* next: none is handed to two senders, told to stop while it is handed out, or
\* lost, and workerChanPool never hands out a channel with something in it.
SoleHolder == HeldOnce /\ HeldIffWaiting

\* A send on ch.ch proceeds now, or waits for nothing but the rendezvous with a
\* worker that is on its way to its receive.
Meets(ch) ==
    \/ CanSend(ch)
    \/ workerChanCap = 0 /\ q[ch] = <<>> /\ wpc[ch] = "loop"

\* No sender waits for a handler, for wp.lock or behind another value: neither the
\* accept loop in Serve, nor clean, nor Stop, which sends while it holds wp.lock.
\* With capacity 1 a send never waits (what workerpool.go:159-162 wants of it);
\* with capacity 0 it waits at most for its worker to get to the receive, the
\* blocking that the comments of clean and of workerChanCap allow.
SenderMeetsWorker ==
    /\ \A a \in Callers : cpc[a] = "send" => Meets(cch[a])
    /\ \A a \in Callers : cpc[a] = "stopping" /\ ready # <<>> => Meets(Head(ready))
    /\ kpc = "send" /\ scratch # <<>> => Meets(Head(scratch))

\* A connection is handled by one worker, once, and closed once, after its
\* handler returned or because Serve refused it.
ConnLifecycle ==
    [][\A c \in Conns : connState'[c] # connState[c] =>
          <<connState[c], connState'[c]>> \in
             {<<"new", "accepted">>, <<"accepted", "served">>,
              <<"served", "closed">>, <<"accepted", "closed">>}]_vars

\* Every accepted connection is closed in the end, by its worker or by the
\* accept loop, whatever clean and Stop do meanwhile.
AcceptedClosed ==
    \A c \in Conns : connState[c] = "accepted" ~> connState[c] = "closed"

\* Stop ends the pool: the busy workers notice mustStop and the idle ones get
\* their nil, so that no goroutine of the pool is left.
StopDrains ==
    mustStop ~> (workersCount = 0 /\ kpc = "off"
                   /\ \A ch \in Chans : wpc[ch] = "free")

\* No worker idles for ever: clean takes it out of ready, if Serve or Stop does
\* not, although ready need not be sorted by time of last use and clean looks
\* only at a prefix.
IdleWorkerLeaves == \A ch \in Chans : Contains(ready, ch) ~> ~Contains(ready, ch)
=============================================================================
