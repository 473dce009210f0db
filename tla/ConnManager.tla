---------------------------- MODULE ConnManager -----------------------------
(***************************************************************************)
(* transport/connmanager.go: the connections to one host.                  *)
(*                                                                         *)
(* A user u is a goroutine that acquires a connection and then closes it   *)
(* or releases it for reuse; the goroutine that ReleaseConn launches goes  *)
(* on as u.  A connection is named by its wrapper *Conn (set CC): cstate   *)
(* says whether the wrapper holds an open net.Conn or is in connPool (or   *)
(* yet to be made).  Sections under connsLock are single steps.            *)
(*                                                                         *)
(* The actions are given by the goroutine, so that HostClient can conjoin  *)
(* them with its own steps.                                                *)
(***************************************************************************)
EXTENDS Integers, FiniteSets, SequencesExt

CONSTANTS
    Users,
    Cleaners,            \* the goroutines that may run connsCleaner
    CC,
    MaxConns,
    MaxIdleConnDuration, \* in seconds, the grain of the coarse clock
    NoConn

ASSUME MaxConnsAssumption == MaxConns \in Nat \ {0} /\ MaxIdleConnDuration \in Nat
ASSUME UsersAssumption == IsFiniteSet(Users) /\ IsFiniteSet(Cleaners) /\ Cleaners # {}
ASSUME NoConnAssumption == NoConn \notin CC

VARIABLES
    connsCount,
    conns,           \* the idle connections, least recently released first
    connsCleanerRun,
    cstate,          \* "free" or "open"
    idleFor,         \* time since cc.lastUseTime, of a connection being released
    upc, ucc,        \* the users: program counter, connection
    kpc, kcc, scratch \* the cleaners: program counter, connection being closed, scratch

cmShared == <<connsCount, conns, connsCleanerRun>>
userVars == <<upc, ucc>>
cleanerVars == <<kpc, kcc, scratch>>
cmVars == <<cmShared, cstate, idleFor, userVars, cleanerVars>>

\* Idle times are counted up to here: as good as for ever.
LongIdle == MaxIdleConnDuration + 2

UserPC == {"out", "launch", "dial", "using", "closing", "probe", "append"}
CleanerPC == {"off", "scan", "close", "closing", "check", "sleep"}

CMTypeOK ==
    /\ connsCount \in Nat
    /\ conns \in Seq(CC)
    /\ connsCleanerRun \in BOOLEAN
    /\ cstate \in [CC -> {"free", "open"}]
    /\ idleFor \in [CC -> 0 .. LongIdle]
    /\ upc \in [Users -> UserPC]
    /\ ucc \in [Users -> CC \cup {NoConn}]
    /\ kpc \in [Cleaners -> CleanerPC]
    /\ kcc \in [Cleaners -> CC \cup {NoConn}]
    /\ scratch \in [Cleaners -> Seq(CC)]

CMInit ==
    /\ connsCount = 0
    /\ conns = <<>>
    /\ connsCleanerRun = FALSE
    /\ cstate = [cc \in CC |-> "free"]
    /\ idleFor = [cc \in CC |-> 0]
    /\ upc = [u \in Users |-> "out"]
    /\ ucc = [u \in Users |-> NoConn]
    /\ kpc = [k \in Cleaners |-> "off"]
    /\ kcc = [k \in Cleaners |-> NoConn]
    /\ scratch = [k \in Cleaners |-> <<>>]


\* A second passes for the connections that were stamped.
Tick ==
    /\ idleFor' = [cc \in CC |->
                     IF /\ Contains(conns, cc) \/ \E u \in Users : upc[u] = "append" /\ ucc[u] = cc
                        /\ idleFor[cc] < LongIdle
                     THEN idleFor[cc] + 1 ELSE idleFor[cc]]
    /\ UNCHANGED <<cmShared, cstate, userVars, cleanerVars>>

-----------------------------------------------------------------------------
\* AcquireConn, under connsLock: the most recently released connection,
AcquireIdle(u) ==
    /\ upc[u] = "out"
    /\ conns # <<>>
    /\ ucc' = [ucc EXCEPT ![u] = Last(conns)]
    /\ idleFor' = [idleFor EXCEPT ![Last(conns)] = 0]
    /\ conns' = Front(conns)
    /\ upc' = [upc EXCEPT ![u] = "using"]
    /\ UNCHANGED <<connsCount, connsCleanerRun, cstate, cleanerVars>>

\* or the right to dial one, and the duty to launch the cleaner when none runs,
AcquireNewUncounted(u) ==
    /\ upc[u] = "out"
    /\ conns = <<>>
    /\ connsCount < MaxConns
    /\ connsCleanerRun' = TRUE
    /\ upc' = [upc EXCEPT ![u] = IF connsCleanerRun THEN "dial" ELSE "launch"]
    /\ UNCHANGED <<connsCount, conns, cstate, idleFor, ucc, cleanerVars>>

AcquireNewOneMore(u) ==
    /\ upc[u] = "out"
    /\ conns = <<>>
    /\ connsCount <= MaxConns
    /\ connsCount' = connsCount + 1
    /\ connsCleanerRun' = TRUE
    /\ upc' = [upc EXCEPT ![u] = IF connsCleanerRun THEN "dial" ELSE "launch"]
    /\ UNCHANGED <<conns, cstate, idleFor, ucc, cleanerVars>>

AcquireNew(u) ==
    /\ upc[u] = "out"
    /\ conns = <<>>
    /\ connsCount < MaxConns
    /\ connsCount' = connsCount + 1
    /\ connsCleanerRun' = TRUE
    /\ upc' = [upc EXCEPT ![u] = IF connsCleanerRun THEN "dial" ELSE "launch"]
    /\ UNCHANGED <<conns, cstate, idleFor, ucc, cleanerVars>>

\* or ErrNoFreeConns.
AcquireNone(u) ==
    /\ upc[u] = "out"
    /\ conns = <<>>
    /\ connsCount >= MaxConns
    /\ UNCHANGED cmVars

\* go c.connsCleaner()
Launch(u, k) ==
    /\ upc[u] = "launch"
    /\ kpc[k] = "off"
    /\ kpc' = [kpc EXCEPT ![k] = "scan"]
    /\ upc' = [upc EXCEPT ![u] = "dial"]
    /\ UNCHANGED <<cmShared, cstate, idleFor, ucc, kcc, scratch>>

\* The dialer returned a connection: acquireClientConn wraps it.
DialOK(u, cc) ==
    /\ upc[u] = "dial"
    /\ cstate[cc] = "free"
    /\ cstate' = [cstate EXCEPT ![cc] = "open"]
    /\ ucc' = [ucc EXCEPT ![u] = cc]
    /\ upc' = [upc EXCEPT ![u] = "using"]
    /\ UNCHANGED <<cmShared, idleFor, cleanerVars>>

\* The dialer failed: decConnsCount.
DialFailsUncounted(u) ==
    /\ upc[u] = "dial"
    /\ upc' = [upc EXCEPT ![u] = "out"]
    /\ UNCHANGED <<cmShared, cstate, idleFor, ucc, cleanerVars>>

DialFails(u) ==
    /\ upc[u] = "dial"
    /\ connsCount' = connsCount - 1
    /\ upc' = [upc EXCEPT ![u] = "out"]
    /\ UNCHANGED <<conns, connsCleanerRun, cstate, idleFor, ucc, cleanerVars>>

-----------------------------------------------------------------------------
\* CloseConn: decConnsCount first, then Close and releaseClientConn.
CloseConn(u) ==
    /\ upc[u] = "using"
    /\ connsCount' = connsCount - 1
    /\ upc' = [upc EXCEPT ![u] = "closing"]
    /\ UNCHANGED <<conns, connsCleanerRun, cstate, idleFor, ucc, cleanerVars>>

CloseConnEnds(u) ==
    /\ upc[u] = "closing"
    /\ cstate' = [cstate EXCEPT ![ucc[u]] = "free"]
    /\ ucc' = [ucc EXCEPT ![u] = NoConn]
    /\ upc' = [upc EXCEPT ![u] = "out"]
    /\ UNCHANGED <<cmShared, idleFor, cleanerVars>>

\* ReleaseConn hands the connection to a goroutine,
ReleaseConn(u) ==
    /\ upc[u] = "using"
    /\ upc' = [upc EXCEPT ![u] = "probe"]
    /\ UNCHANGED <<cmShared, cstate, idleFor, ucc, cleanerVars>>

\* which closes it when isConnClosedByRemote,
ReleaseClosed(u) ==
    /\ upc[u] = "probe"
    /\ connsCount' = connsCount - 1
    /\ upc' = [upc EXCEPT ![u] = "closing"]
    /\ UNCHANGED <<conns, connsCleanerRun, cstate, idleFor, ucc, cleanerVars>>

\* else stamps it,
ReleaseStamp(u) ==
    /\ upc[u] = "probe"
    /\ idleFor' = [idleFor EXCEPT ![ucc[u]] = 0]
    /\ upc' = [upc EXCEPT ![u] = "append"]
    /\ UNCHANGED <<cmShared, cstate, ucc, cleanerVars>>

\* and then, under connsLock, adds it to the idle connections.
ReleaseAppend(u) ==
    /\ upc[u] = "append"
    /\ conns' = Append(conns, ucc[u])
    /\ ucc' = [ucc EXCEPT ![u] = NoConn]
    /\ upc' = [upc EXCEPT ![u] = "out"]
    /\ UNCHANGED <<connsCount, connsCleanerRun, cstate, idleFor, cleanerVars>>

-----------------------------------------------------------------------------
\* connsCleaner.

\* The connection has been idle too long, for a clock that lags behind.
Expired(cc, lag) == idleFor[cc] - lag > MaxIdleConnDuration

\* Under connsLock: the longest prefix of expired connections leaves conns.  The
\* time was read before the lock (lag 1); on the other hand the coarse clock of
\* the stamps, truncated and refreshed once a second, was itself late (lag -1, -2).
CleanerScanNotRemoved(k) ==
    /\ kpc[k] = "scan"
    /\ \E lag \in -2 .. 1, i \in 0 .. Len(conns) :
          /\ \A j \in 1 .. i : Expired(conns[j], lag)
          /\ i < Len(conns) => ~Expired(conns[i + 1], lag)
          /\ scratch' = [scratch EXCEPT ![k] = SubSeq(conns, 1, i)]
    /\ kpc' = [kpc EXCEPT ![k] = "close"]
    /\ UNCHANGED <<cmShared, cstate, idleFor, userVars, kcc>>

CleanerScan(k) ==
    /\ kpc[k] = "scan"
    /\ \E lag \in -2 .. 1, i \in 0 .. Len(conns) :
          /\ \A j \in 1 .. i : Expired(conns[j], lag)
          /\ i < Len(conns) => ~Expired(conns[i + 1], lag)
          /\ scratch' = [scratch EXCEPT ![k] = SubSeq(conns, 1, i)]
          /\ conns' = SubSeq(conns, i + 1, Len(conns))
    /\ kpc' = [kpc EXCEPT ![k] = "close"]
    /\ UNCHANGED <<connsCount, connsCleanerRun, cstate, idleFor, userVars, kcc>>

\* CloseConn of the next one: the count, then the connection.
CleanerClose(k) ==
    /\ kpc[k] = "close"
    /\ scratch[k] # <<>>
    /\ connsCount' = connsCount - 1
    /\ kcc' = [kcc EXCEPT ![k] = Head(scratch[k])]
    /\ scratch' = [scratch EXCEPT ![k] = Tail(@)]
    /\ kpc' = [kpc EXCEPT ![k] = "closing"]
    /\ UNCHANGED <<conns, connsCleanerRun, cstate, idleFor, userVars>>

CleanerCloseEnds(k) ==
    /\ kpc[k] = "closing"
    /\ cstate' = [cstate EXCEPT ![kcc[k]] = "free"]
    /\ idleFor' = [idleFor EXCEPT ![kcc[k]] = 0]
    /\ kcc' = [kcc EXCEPT ![k] = NoConn]
    /\ kpc' = [kpc EXCEPT ![k] = "close"]
    /\ UNCHANGED <<cmShared, userVars, scratch>>

CleanerClosed(k) ==
    /\ kpc[k] = "close"
    /\ scratch[k] = <<>>
    /\ kpc' = [kpc EXCEPT ![k] = "check"]
    /\ UNCHANGED <<cmShared, cstate, idleFor, userVars, kcc, scratch>>

\* Under connsLock: the cleaner ends when there are no connections.
CleanerStopUnflagged(k) ==
    /\ kpc[k] = "check"
    /\ connsCount = 0
    /\ kpc' = [kpc EXCEPT ![k] = "off"]
    /\ UNCHANGED <<cmShared, cstate, idleFor, userVars, kcc, scratch>>

CleanerStopNoneIdle(k) ==
    /\ kpc[k] = "check"
    /\ conns = <<>>
    /\ connsCleanerRun' = FALSE
    /\ kpc' = [kpc EXCEPT ![k] = "off"]
    /\ UNCHANGED <<connsCount, conns, cstate, idleFor, userVars, kcc, scratch>>

CleanerStop(k) ==
    /\ kpc[k] = "check"
    /\ connsCount = 0
    /\ connsCleanerRun' = FALSE
    /\ kpc' = [kpc EXCEPT ![k] = "off"]
    /\ UNCHANGED <<connsCount, conns, cstate, idleFor, userVars, kcc, scratch>>

CleanerSleep(k) ==
    /\ kpc[k] = "check"
    /\ connsCount # 0
    /\ kpc' = [kpc EXCEPT ![k] = "sleep"]
    /\ UNCHANGED <<cmShared, cstate, idleFor, userVars, kcc, scratch>>

CleanerWake(k) ==
    /\ kpc[k] = "sleep"
    /\ kpc' = [kpc EXCEPT ![k] = "scan"]
    /\ UNCHANGED <<cmShared, cstate, idleFor, userVars, kcc, scratch>>

-----------------------------------------------------------------------------
Acquire(u) ==
    \/ AcquireIdle(u)
    \/ AcquireNew(u)
    \/ AcquireNone(u)

\* What goes on by itself once AcquireConn, CloseConn or ReleaseConn is called.
UserStep(u) ==
    \/ \E k \in Cleaners : Launch(u, k)
    \/ \E cc \in CC : DialOK(u, cc)
    \/ DialFails(u)
    \/ CloseConnEnds(u)
    \/ ReleaseClosed(u)
    \/ ReleaseStamp(u)
    \/ ReleaseAppend(u)

CleanerStep(k) ==
    \/ CleanerScan(k)
    \/ CleanerClose(k)
    \/ CleanerCloseEnds(k)
    \/ CleanerClosed(k)
    \/ CleanerStop(k)
    \/ CleanerSleep(k)
    \/ CleanerWake(k)

CMNext ==
    \/ Tick
    \/ \E u \in Users : Acquire(u) \/ CloseConn(u) \/ ReleaseConn(u) \/ UserStep(u)
    \/ \E k \in Cleaners : CleanerStep(k)

CMSpec == CMInit /\ [][CMNext]_cmVars

\* Goroutines that can run are scheduled, dialers return, and time passes.
CMFairness ==
    /\ WF_cmVars(Tick)
    /\ \A u \in Users : WF_cmVars(UserStep(u))
    /\ \A k \in Cleaners : WF_cmVars(CleanerStep(k))

CMFairSpec == CMSpec /\ CMFairness

-----------------------------------------------------------------------------
\* The users whose connection, or whose right to dial one, is counted.
Counted == {u \in Users : upc[u] \in {"launch", "dial", "using", "probe", "append"}}

\* Every counted connection is dialled, used, being released, idle or about to
\* be closed by the cleaner: no path of AcquireConn, CloseConn, ReleaseConn and
\* connsCleaner loses a decrement or makes one twice, and there are at most
\* MaxConns.
ConnsCountExact ==
    /\ \E k \in Cleaners :
          /\ \A j \in Cleaners \ {k} : scratch[j] = <<>>
          /\ connsCount = Cardinality(Counted) + Len(conns) + Len(scratch[k])
    /\ connsCount <= MaxConns


\* u and k hold cc: nobody else may use or close it.
UserHolds(u, cc) == upc[u] \in {"using", "closing", "probe", "append"} /\ ucc[u] = cc
CleanerHolds(k, cc) == Contains(scratch[k], cc) \/ (kpc[k] = "closing" /\ kcc[k] = cc)

\* An open connection is in one place: idle, with one user or with the cleaner.
\* So no connection is handed to two users, used after it was closed or put in
\* connPool twice.
OneHolder ==
    /\ IsInjective(conns)
    /\ \A k \in Cleaners : IsInjective(scratch[k])
    /\ \A cc \in CC : Contains(conns, cc) =>
          /\ \A u \in Users : ~UserHolds(u, cc)
          /\ \A k \in Cleaners : ~CleanerHolds(k, cc)
    /\ \A cc \in CC, u \in Users : UserHolds(u, cc) =>
          /\ \A v \in Users \ {u} : ~UserHolds(v, cc)
          /\ \A k \in Cleaners : ~CleanerHolds(k, cc)
    /\ \A cc \in CC, k \in Cleaners : CleanerHolds(k, cc) =>
          /\ \A j \in Cleaners \ {k} : ~CleanerHolds(j, cc)
          /\ ~(Contains(scratch[k], cc) /\ kcc[k] = cc)
    /\ \A cc \in CC : cstate[cc] = "open" <=>
          \/ Contains(conns, cc)
          \/ \E u \in Users : UserHolds(u, cc)
          \/ \E k \in Cleaners : CleanerHolds(k, cc)

\* The goroutines that run connsCleaner, or are about to launch it.
CleanersUp == {k \in Cleaners : kpc[k] # "off"}
Launching == {u \in Users : upc[u] = "launch"}

\* There is at most one cleaner; connsCleanerRun says whether there is; and
\* there is one while there are connections, in spite of the cleaner deciding
\* to stop while users come and go.
OneCleaner ==
    /\ Cardinality(CleanersUp) + Cardinality(Launching) = IF connsCleanerRun THEN 1 ELSE 0
    /\ connsCount > 0 => connsCleanerRun

\* No connection idles for ever: it is used again, or the cleaner closes it,
\* although conns need not be sorted by time of last use.
IdleConnLeaves == \A cc \in CC : Contains(conns, cc) ~> ~Contains(conns, cc)
=============================================================================
