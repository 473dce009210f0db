----------------------------- MODULE ServerProofs ---------------------------
(***************************************************************************)
(* TypeOK, CountMatchesSockets and ActiveAreTracked, for any number of     *)
(* connections and workers, and that the pool inside the server behaves as *)
(* WorkerPool says.                                                        *)
(*                                                                         *)
(* The three parts of the server hold together.  That a connection is      *)
(* counted down once needs that it is closed by someone who has it, and    *)
(* after it was counted; that activeConn is right after an Untrack needs   *)
(* that no two workers have the same connection; that the worker's count   *)
(* is a number needs that it is exact.  So the invariant has a part for    *)
(* the pool, one for the listener and one for Server.Close.                *)
(***************************************************************************)
EXTENDS Server, FiniteSetTheorems, SequenceTheorems, TLAPS

\* The goroutines that have a connection: the accept loop inside Serve, a worker
\* from its receive to its c.Close(); or it is in a worker's channel.
InServe == {"getCh", "create", "send", "reject"}
WithConn == {"track", "handle", "untrack", "close"}
LoopHas(c) == cpc[AcceptLoop] \in InServe /\ cconn[AcceptLoop] = c
Sent(ch, c) == q[ch] # <<>> /\ Head(q[ch]) = c
WorkerHas(ch, c) == wpc[ch] \in WithConn /\ wconn[ch] = c

\* An accepted connection is in one place until it is closed.
PoolPlaces ==
    /\ cpc[AcceptLoop] \in InServe => cconn[AcceptLoop] \in Conns
    /\ cpc[AcceptLoop] = "send" => cch[AcceptLoop] \in Chans
    /\ \A ch \in Chans : wpc[ch] \in WithConn => wconn[ch] \in Conns
    /\ \A ch \in Chans : Len(q[ch]) <= 1
    /\ \A c \in Conns :
          /\ LoopHas(c) =>
                connState[c] # "new" /\ \A ch \in Chans : ~Sent(ch, c) /\ ~WorkerHas(ch, c)
          /\ \A ch \in Chans : Sent(ch, c) =>
                /\ connState[c] # "new"
                /\ \A w \in Chans : ~WorkerHas(w, c) /\ (w # ch => ~Sent(w, c))
          /\ \A ch \in Chans : WorkerHas(ch, c) =>
                connState[c] # "new" /\ \A w \in Chans : w # ch => ~WorkerHas(w, c)

\* workersCount counts the workers, and the one that the accept loop launches.
WorkersExact == workersCount = Cardinality(WP!Workers) + Cardinality(WP!Creating)

PoolInv == WP!TypeOK /\ WorkersExact /\ PoolPlaces

\* The connections that connsCount counts: the open ones but the one that Accept
\* is about to count, and the closed ones that closeConn is about to count down.
CountedSocks ==
    {c \in Conns :
        \/ sock[c] = "open" /\ ~(gpc[AcceptLoop] = "count" /\ gconn[AcceptLoop] = c)
        \/ \E p \in Procs : gpc[p] = "dec" /\ gconn[p] = c}

ListenerCounted == connsCount = Cardinality(CountedSocks)

\* Only the accept loop accepts, and the pool does not know of what it has not
\* counted; a socket is closed once.
ListenerSound ==
    /\ \A p \in Procs : gpc[p] = "count" => p = AcceptLoop
    /\ gpc[AcceptLoop] = "count" =>
          /\ gconn[AcceptLoop] \in Conns
          /\ sock[gconn[AcceptLoop]] = "open" /\ connState[gconn[AcceptLoop]] = "new"
    /\ \A p \in Procs : gpc[p] = "dec" => gconn[p] \in Conns /\ sock[gconn[p]] = "closed"
    /\ \A p, r \in Procs : gpc[p] = "dec" /\ gpc[r] = "dec" /\ gconn[p] = gconn[r] => p = r
    /\ \A c \in Conns : connState[c] # "new" => sock[c] # "none"

ListenerInv == LnTypeOK /\ CountMatchesSockets /\ ListenerCounted /\ ListenerSound

\* What Close has taken from the table it has closed.
CloserInv ==
    /\ activeConn \subseteq Conns
    /\ spc \in {"idle", "listener", "range", "closing", "done"}
    /\ sconn \in Conns \cup {NoConn}
    /\ gpc[Closer] \in {"dec", "check"} => spc = "closing"
    /\ spc = "closing" => sconn \in Conns /\ sock[sconn] = "closed"
    /\ ActiveAreTracked

SInv == PoolInv /\ ListenerInv /\ CloserInv

\* The steps of the pool that the server makes.
LoopStep ==
    \/ \E c \in Conns : WP!Accept(AcceptLoop, c)
    \/ WP!StopClose(AcceptLoop)
    \/ WP!GetChReady(AcceptLoop)
    \/ WP!GetChCreate(AcceptLoop)
    \/ WP!GetChNone(AcceptLoop)
    \/ \E ch \in Chans : WP!Spawn(AcceptLoop, ch)
    \/ WP!Send(AcceptLoop)
    \/ WP!Reject(AcceptLoop)
    \/ WP!StopLock(AcceptLoop)
    \/ WP!StopSend(AcceptLoop)
    \/ WP!StopUnlock(AcceptLoop)
WorkStep(ch) ==
    \/ WP!Arrive(ch)
    \/ WP!Recv(ch)
    \/ WP!Track(ch)
    \/ WP!Handle(ch)
    \/ WP!Untrack(ch)
    \/ WP!CloseConn(ch)
    \/ WP!Stamp(ch)
    \/ WP!Release(ch)
    \/ WP!Exit(ch)
    \/ WP!Put(ch)
PoolStep == WP!Start \/ LoopStep \/ \E ch \in Chans : WorkStep(ch)

-----------------------------------------------------------------------------
\* The goroutines are finitely many, so what is counted has a number.
LEMMA ServerFinite ==
    /\ IsFiniteSet(Chans)
    /\ IsFiniteSet(WP!Workers) /\ Cardinality(WP!Workers) \in Nat
    /\ IsFiniteSet(WP!Creating) /\ Cardinality(WP!Creating) \in Nat
<1>1. Chans \in SUBSET Procs
  BY GoroutinesAssumption
<1>2. IsFiniteSet(Chans)
  BY <1>1, ProcsAssumption, FS_Subset
<1>3. WP!Workers \in SUBSET Chans
  BY DEF WP!Workers
<1>4. IsFiniteSet({AcceptLoop})
  BY FS_Singleton
<1>5. WP!Creating \in SUBSET {AcceptLoop}
  BY DEF WP!Creating
<1>6. IsFiniteSet(WP!Workers) /\ IsFiniteSet(WP!Creating)
  BY <1>2, <1>3, <1>4, <1>5, FS_Subset
<1> QED BY <1>2, <1>6, FS_CardinalityType

\* A send, of a connection by Serve or of nil by Stop, finds the channel empty.
LEMMA SendServed ==
    ASSUME q \in [Chans -> Seq(Conns \cup {NoConn})],
           NEW ch \in Chans, NEW v \in Conns \cup {NoConn}, WP!SendTo(ch, v)
    PROVE  /\ q' \in [Chans -> Seq(Conns \cup {NoConn})]
           /\ q[ch] = <<>>
           /\ q'[ch] = <<v>>
           /\ \A w \in Chans \ {ch} : q'[w] = q[w]
<1>1. q[ch] = <<>> /\ q' = [q EXCEPT ![ch] = Append(q[ch], v)]
  BY DEF WP!SendTo, WP!CanSend
<1>2. Append(q[ch], v) = <<v>> /\ <<v>> \in Seq(Conns \cup {NoConn})
  BY <1>1
<1> QED BY <1>1, <1>2

\* The accept loop's steps in the pool keep the types.
LEMMA LoopTypeOK == PoolInv /\ (WP!Start \/ LoopStep) => WP!TypeOK'
<1> SUFFICES ASSUME PoolInv, WP!Start \/ LoopStep PROVE WP!TypeOK'
  OBVIOUS
<1> USE DEF WP!TypeOK, WP!WorkerPC, WP!CallerPC
<1>0. WP!TypeOK /\ WorkersExact /\ PoolPlaces
  BY DEF PoolInv
<1>1. CASE WP!Start
  BY <1>0, <1>1 DEF WP!Start, WP!workerVars, WP!callerVars
<1>2. ASSUME NEW c \in Conns, WP!Accept(AcceptLoop, c) PROVE WP!TypeOK'
  BY <1>0, <1>2 DEF WP!Accept, WP!poolVars, WP!workerVars, WP!cleanVars
<1>3. CASE WP!StopClose(AcceptLoop)
  BY <1>0, <1>3 DEF WP!StopClose, WP!workerVars, WP!cleanVars
<1>4. CASE WP!GetChReady(AcceptLoop)
  <2>1. ready \in Seq(Chans) /\ ready # <<>>
    BY <1>0, <1>4 DEF WP!GetChReady
  <2>2. WP!Front(ready) \in Seq(Chans) /\ WP!Last(ready) \in Chans
    BY <2>1 DEF WP!Front, WP!Last
  <2> QED BY <1>0, <1>4, <2>2 DEF WP!GetChReady, WP!workerVars, WP!cleanVars
<1>5. CASE WP!GetChCreate(AcceptLoop)
  BY <1>0, <1>5 DEF WP!GetChCreate, WP!workerVars, WP!cleanVars
<1>6. CASE WP!GetChNone(AcceptLoop)
  BY <1>0, <1>6 DEF WP!GetChNone, WP!poolVars, WP!workerVars, WP!cleanVars
<1>7. ASSUME NEW ch \in Chans, WP!Spawn(AcceptLoop, ch) PROVE WP!TypeOK'
  BY <1>0, <1>7 DEF WP!Spawn, WP!poolVars, WP!cleanVars
<1>8. CASE WP!Send(AcceptLoop)
  <2>1. cch[AcceptLoop] \in Chans /\ cconn[AcceptLoop] \in Conns \cup {NoConn}
    BY <1>0, <1>8 DEF WP!Send, PoolPlaces
  <2>2. q' \in [Chans -> Seq(Conns \cup {NoConn})]
    BY <1>0, <1>8, <2>1, SendServed DEF WP!Send
  <2> QED BY <1>0, <1>8, <2>2 DEF WP!Send, WP!poolVars, WP!workerVars, WP!cleanVars
<1>9. CASE WP!Reject(AcceptLoop)
  BY <1>0, <1>9 DEF WP!Reject, WP!poolVars, WP!workerVars, WP!cleanVars
<1>10. CASE WP!StopLock(AcceptLoop)
  BY <1>0, <1>10 DEF WP!StopLock, WP!poolVars, WP!workerVars, WP!cleanVars
<1>11. CASE WP!StopSend(AcceptLoop)
  <2>1. Head(ready) \in Chans /\ Tail(ready) \in Seq(Chans)
    BY <1>0, <1>11 DEF WP!StopSend
  <2>2. q' \in [Chans -> Seq(Conns \cup {NoConn})]
    BY <1>0, <1>11, <2>1, SendServed DEF WP!StopSend
  <2>3. /\ ready' = Tail(ready)
        /\ UNCHANGED <<workerChanCap, workersCount, mustStop, stopCh, idleFor, wpc, wconn>>
        /\ UNCHANGED <<cpc, cconn, cch, kpc, scratch, connState>>
    BY <1>11 DEF WP!StopSend, WP!workerVars, WP!callerVars, WP!cleanVars
  <2> QED BY <1>0, <2>1, <2>2, <2>3
<1>12. CASE WP!StopUnlock(AcceptLoop)
  BY <1>0, <1>12 DEF WP!StopUnlock, WP!workerVars, WP!cleanVars
<1> QED BY <1>1, <1>2, <1>3, <1>4, <1>5, <1>6, <1>7, <1>8, <1>9, <1>10, <1>11, <1>12 DEF LoopStep

\* So do the workers'.
LEMMA WorkTypeOK ==
    ASSUME PoolInv, NEW ch \in Chans, WorkStep(ch)
    PROVE  WP!TypeOK'
<1> USE DEF WP!TypeOK, WP!WorkerPC, WP!CallerPC
<1>0. WP!TypeOK /\ WorkersExact
  BY DEF PoolInv
<1>1. CASE WP!Recv(ch)
  <2>1. Head(q[ch]) \in Conns \cup {NoConn} /\ Tail(q[ch]) \in Seq(Conns \cup {NoConn})
    BY <1>0, <1>1 DEF WP!Recv
  <2>2. idleFor' \in [Chans -> 0 .. WP!LongIdle]
    BY <1>0, <1>1 DEF WP!Recv, WP!LongIdle
  <2> QED BY <1>0, <1>1, <2>1, <2>2 DEF WP!Recv, WP!poolVars, WP!callerVars, WP!cleanVars
<1>2. CASE WP!Arrive(ch) \/ WP!Track(ch) \/ WP!Untrack(ch) \/ WP!Put(ch)
  BY <1>0, <1>2 DEF WP!Arrive, WP!Track, WP!Untrack, WP!Put, WP!Move, WP!poolVars, WP!callerVars, WP!cleanVars
<1>3. CASE WP!Handle(ch)
  BY <1>0, <1>3 DEF WP!Handle, WP!Move, WP!poolVars, WP!callerVars, WP!cleanVars
<1>4. CASE WP!CloseConn(ch)
  BY <1>0, <1>4 DEF WP!CloseConn, WP!Move, WP!poolVars, WP!callerVars, WP!cleanVars
<1>5. CASE WP!Stamp(ch)
  <2>1. idleFor' \in [Chans -> 0 .. WP!LongIdle]
    BY <1>0, <1>5 DEF WP!Stamp, WP!LongIdle
  <2> QED BY <1>0, <1>5, <2>1 DEF WP!Stamp, WP!Move, WP!poolVars, WP!callerVars, WP!cleanVars
<1>6. CASE WP!Release(ch)
  <2>1. /\ ready' = ready \/ ready' = Append(ready, ch)
        /\ \/ wpc' = [wpc EXCEPT ![ch] = "exit"]
           \/ wpc' = [wpc EXCEPT ![ch] = "loop"]
    BY <1>6, Zenon DEF WP!Release
  <2>2. ready \in Seq(Chans)
    BY <1>0
  <2>3. Append(ready, ch) \in Seq(Chans)
    BY <2>2, AppendProperties
  <2>4. wpc' \in [Chans -> WP!WorkerPC]
    BY <1>0, <2>1
  <2>5. /\ UNCHANGED <<workerChanCap, workersCount, mustStop, stopCh, q, idleFor, wconn, connState>>
        /\ UNCHANGED <<cpc, cconn, cch, kpc, scratch>>
    BY <1>6 DEF WP!Release, WP!callerVars, WP!cleanVars
  <2> QED BY <1>0, <2>1, <2>2, <2>3, <2>4, <2>5
<1>7. CASE WP!Exit(ch)
  <2>1. ch \in WP!Workers
    BY <1>7 DEF WP!Exit, WP!Move, WP!Workers
  <2>2. workersCount # 0
    BY <1>0, <2>1, ServerFinite, FS_EmptySet DEF WorkersExact
  <2> QED BY <1>0, <1>7, <2>2 DEF WP!Exit, WP!Move, WP!callerVars, WP!cleanVars
<1> QED BY <1>1, <1>2, <1>3, <1>4, <1>5, <1>6, <1>7 DEF WorkStep

-----------------------------------------------------------------------------
\* A step of the pool keeps workersCount exact.
LEMMA PoolCounts == PoolInv /\ PoolStep => WorkersExact'
<1> SUFFICES ASSUME PoolInv, PoolStep PROVE WorkersExact'
  OBVIOUS
<1>0. WP!TypeOK /\ WorkersExact
  BY DEF PoolInv
<1>1. /\ cpc \in [{AcceptLoop} -> WP!CallerPC]
      /\ wpc \in [Chans -> WP!WorkerPC]
      /\ workersCount \in Nat
  BY <1>0 DEF WP!TypeOK
<1> USE DEF WP!Workers, WP!Creating
<1>2. CASE workersCount' = workersCount /\ WP!Workers' = WP!Workers /\ WP!Creating' = WP!Creating
  BY <1>0, <1>2 DEF WorkersExact
<1>3. CASE WP!Start
  BY <1>2, <1>3 DEF WP!Start, WP!workerVars, WP!callerVars
<1>4. CASE WP!GetChCreate(AcceptLoop)
  <2>1. /\ WP!Creating' = WP!Creating \cup {AcceptLoop} /\ AcceptLoop \notin WP!Creating
        /\ WP!Workers' = WP!Workers /\ workersCount' = workersCount + 1
    BY <1>1, <1>4 DEF WP!GetChCreate, WP!workerVars
  <2> HIDE DEF WP!Workers, WP!Creating
  <2>2. Cardinality(WP!Creating') = Cardinality(WP!Creating) + 1
    BY <2>1, ServerFinite, FS_AddElement
  <2> QED BY <1>0, <2>1, <2>2, ServerFinite DEF WorkersExact
<1>5. ASSUME NEW ch \in Chans, WP!Spawn(AcceptLoop, ch) PROVE WorkersExact'
  <2>1. /\ WP!Creating' = WP!Creating \ {AcceptLoop} /\ AcceptLoop \in WP!Creating
        /\ WP!Workers' = WP!Workers \cup {ch} /\ ch \notin WP!Workers
        /\ workersCount' = workersCount
    BY <1>1, <1>5 DEF WP!Spawn, WP!poolVars
  <2> HIDE DEF WP!Workers, WP!Creating
  <2>2. Cardinality(WP!Creating') = Cardinality(WP!Creating) - 1
    BY <2>1, ServerFinite, FS_RemoveElement
  <2>3. Cardinality(WP!Workers') = Cardinality(WP!Workers) + 1
    BY <2>1, ServerFinite, FS_AddElement
  <2> QED BY <1>0, <2>1, <2>2, <2>3, ServerFinite DEF WorkersExact
<1>6. ASSUME NEW ch \in Chans, WP!Exit(ch) PROVE WorkersExact'
  <2>1. /\ WP!Workers' = WP!Workers \ {ch} /\ ch \in WP!Workers
        /\ WP!Creating' = WP!Creating /\ workersCount' = workersCount - 1
    BY <1>1, <1>6 DEF WP!Exit, WP!Move, WP!callerVars
  <2> HIDE DEF WP!Workers, WP!Creating
  <2>2. Cardinality(WP!Workers') = Cardinality(WP!Workers) - 1
    BY <2>1, ServerFinite, FS_RemoveElement
  <2> QED BY <1>0, <2>1, <2>2, ServerFinite DEF WorkersExact
<1>7. ASSUME LoopStep, ~WP!GetChCreate(AcceptLoop),
             ~\E ch \in Chans : WP!Spawn(AcceptLoop, ch)
      PROVE  WorkersExact'
  <2>1. workersCount' = workersCount /\ wpc' = wpc
    BY <1>7 DEF LoopStep, WP!Accept, WP!StopClose, WP!GetChReady, WP!GetChNone, WP!Send, WP!Reject,
                WP!StopLock, WP!StopSend, WP!StopUnlock, WP!poolVars, WP!workerVars
  <2>2. WP!Creating' = WP!Creating
    BY <1>1, <1>7 DEF LoopStep, WP!Accept, WP!StopClose, WP!GetChReady, WP!GetChNone, WP!Send,
                      WP!Reject, WP!StopLock, WP!StopSend, WP!StopUnlock, WP!callerVars
  <2> QED BY <1>2, <2>1, <2>2
<1>8. ASSUME NEW ch \in Chans, WorkStep(ch), ~WP!Exit(ch) PROVE WorkersExact'
  <2>1. workersCount' = workersCount /\ cpc' = cpc
    BY <1>8 DEF WorkStep, WP!Arrive, WP!Recv, WP!Track, WP!Handle, WP!Untrack, WP!CloseConn, WP!Stamp,
                WP!Release, WP!Put, WP!poolVars, WP!callerVars
  <2>2. WP!Workers' = WP!Workers
    BY <1>1, <1>8 DEF WorkStep, WP!Arrive, WP!Recv, WP!Track, WP!Handle, WP!Untrack, WP!CloseConn, WP!Stamp,
                      WP!Release, WP!Put, WP!Move, WP!WorkerPC
  <2> QED BY <1>2, <2>1, <2>2
<1> HIDE DEF WP!Workers, WP!Creating
<1> QED BY <1>3, <1>4, <1>5, <1>6, <1>7, <1>8 DEF PoolStep, LoopStep

-----------------------------------------------------------------------------
\* A step that leaves the connections with whoever has them, or takes them, keeps PoolPlaces.
LEMMA SamePlace ==
    ASSUME PoolPlaces,
           \A c \in Conns : connState'[c] = "new" => connState[c] = "new",
           \A ch \in Chans : Len(q'[ch]) <= 1,
           cpc'[AcceptLoop] \in InServe =>
              cpc[AcceptLoop] \in InServe /\ cconn'[AcceptLoop] = cconn[AcceptLoop],
           cpc'[AcceptLoop] = "send" => cch'[AcceptLoop] \in Chans,
           \A ch \in Chans, c \in Conns : Sent(ch, c)' <=> Sent(ch, c),
           \A ch \in Chans : wpc'[ch] \in WithConn =>
              wpc[ch] \in WithConn /\ wconn'[ch] = wconn[ch]
    PROVE  PoolPlaces'
<1>1. \A c \in Conns : LoopHas(c)' => LoopHas(c)
  BY DEF LoopHas
<1>2. \A ch \in Chans, c \in Conns : WorkerHas(ch, c)' => WorkerHas(ch, c)
  BY DEF WorkerHas
<1>3. /\ cpc'[AcceptLoop] \in InServe => cconn'[AcceptLoop] \in Conns
      /\ \A ch \in Chans : wpc'[ch] \in WithConn => wconn'[ch] \in Conns
  BY DEF PoolPlaces
<1>4. ASSUME NEW c \in Conns, LoopHas(c)'
      PROVE  connState'[c] # "new" /\ \A ch \in Chans : ~Sent(ch, c)' /\ ~WorkerHas(ch, c)'
  BY <1>1, <1>2, <1>4 DEF PoolPlaces
<1>5. ASSUME NEW c \in Conns, NEW ch \in Chans, Sent(ch, c)'
      PROVE  /\ connState'[c] # "new"
             /\ \A w \in Chans : ~WorkerHas(w, c)' /\ (w # ch => ~Sent(w, c)')
  BY <1>2, <1>5 DEF PoolPlaces
<1>6. ASSUME NEW c \in Conns, NEW ch \in Chans, WorkerHas(ch, c)'
      PROVE  connState'[c] # "new" /\ \A w \in Chans : w # ch => ~WorkerHas(w, c)'
  BY <1>2, <1>6 DEF PoolPlaces
<1> QED BY <1>3, <1>4, <1>5, <1>6 DEF PoolPlaces

\* Accept gives the accept loop a connection that nobody had.
LEMMA AcceptPlace ==
    ASSUME WP!TypeOK, PoolPlaces, NEW d \in Conns, WP!Accept(AcceptLoop, d)
    PROVE  PoolPlaces'
<1>1. /\ cpc[AcceptLoop] = "idle" /\ connState[d] = "new"
      /\ cpc'[AcceptLoop] = "getCh" /\ cconn'[AcceptLoop] = d
      /\ connState'[d] = "accepted" /\ \A c \in Conns \ {d} : connState'[c] = connState[c]
      /\ UNCHANGED <<q, wpc, wconn>>
  BY DEF WP!Accept, WP!TypeOK, WP!workerVars
<1>2. /\ \A c \in Conns : LoopHas(c)' <=> c = d
      /\ \A ch \in Chans, c \in Conns : WorkerHas(ch, c)' <=> WorkerHas(ch, c)
      /\ \A ch \in Chans, c \in Conns : Sent(ch, c)' <=> Sent(ch, c)
  BY <1>1 DEF LoopHas, WorkerHas, Sent, InServe
<1>3. \A ch \in Chans : ~Sent(ch, d) /\ ~WorkerHas(ch, d)
  BY <1>1 DEF PoolPlaces
<1>4. /\ cpc'[AcceptLoop] \in InServe => cconn'[AcceptLoop] \in Conns
      /\ cpc'[AcceptLoop] = "send" => cch'[AcceptLoop] \in Chans
      /\ \A ch \in Chans : wpc'[ch] \in WithConn => wconn'[ch] \in Conns
      /\ \A ch \in Chans : Len(q'[ch]) <= 1
  BY <1>1 DEF PoolPlaces
<1>5. ASSUME NEW c \in Conns, LoopHas(c)'
      PROVE  connState'[c] # "new" /\ \A ch \in Chans : ~Sent(ch, c)' /\ ~WorkerHas(ch, c)'
  BY <1>1, <1>2, <1>3, <1>5
<1>6. ASSUME NEW c \in Conns, NEW ch \in Chans, Sent(ch, c)'
      PROVE  /\ connState'[c] # "new"
             /\ \A w \in Chans : ~WorkerHas(w, c)' /\ (w # ch => ~Sent(w, c)')
  BY <1>1, <1>2, <1>3, <1>6 DEF PoolPlaces
<1>7. ASSUME NEW c \in Conns, NEW ch \in Chans, WorkerHas(ch, c)'
      PROVE  connState'[c] # "new" /\ \A w \in Chans : w # ch => ~WorkerHas(w, c)'
  BY <1>1, <1>2, <1>3, <1>7 DEF PoolPlaces
<1> QED BY <1>4, <1>5, <1>6, <1>7 DEF PoolPlaces

\* Serve passes it to the channel of a worker.
LEMMA SendPlace ==
    ASSUME WP!TypeOK, PoolPlaces, WP!Send(AcceptLoop)
    PROVE  PoolPlaces'
<1> DEFINE d == cconn[AcceptLoop]
<1>0. PICK v \in Chans : v = cch[AcceptLoop]
  BY DEF WP!Send, PoolPlaces
<1>1. /\ cpc[AcceptLoop] = "send" /\ cpc'[AcceptLoop] = "idle"
      /\ WP!SendTo(v, d) /\ UNCHANGED <<wpc, wconn, connState>>
  BY <1>0 DEF WP!Send, WP!TypeOK, WP!workerVars
<1>2. d \in Conns /\ LoopHas(d)
  BY <1>1 DEF PoolPlaces, LoopHas, InServe
<1> HIDE DEF d
<1>3. q \in [Chans -> Seq(Conns \cup {NoConn})]
  BY DEF WP!TypeOK
<1>4. q[v] = <<>> /\ q'[v] = <<d>> /\ \A w \in Chans \ {v} : q'[w] = q[w]
  BY <1>1, <1>2, <1>3, SendServed
<1>5. /\ \A c \in Conns : ~LoopHas(c)'
      /\ \A ch \in Chans, c \in Conns : WorkerHas(ch, c)' <=> WorkerHas(ch, c)
  BY <1>1 DEF LoopHas, WorkerHas, InServe
<1>6. /\ \A c \in Conns : Sent(v, c)' <=> c = d
      /\ \A ch \in Chans \ {v}, c \in Conns : Sent(ch, c)' <=> Sent(ch, c)
  <2>1. q'[v] # <<>> /\ Head(q'[v]) = d
    BY <1>4
  <2> QED BY <1>4, <2>1 DEF Sent
<1>7. connState[d] # "new" /\ \A ch \in Chans : ~Sent(ch, d) /\ ~WorkerHas(ch, d)
  BY <1>2 DEF PoolPlaces
<1>8. \A ch \in Chans : Len(q'[ch]) <= 1
  <2> SUFFICES ASSUME NEW ch \in Chans PROVE Len(q'[ch]) <= 1
    OBVIOUS
  <2>1. CASE ch = v
    <3>1. Len(q'[v]) = 1
      BY <1>4
    <3> QED BY <2>1, <3>1
  <2>2. CASE ch # v
    BY <1>4, <2>2 DEF PoolPlaces
  <2> QED BY <2>1, <2>2
<1>9. /\ cpc'[AcceptLoop] \notin InServe /\ cpc'[AcceptLoop] # "send"
      /\ \A ch \in Chans : wpc'[ch] \in WithConn => wconn'[ch] \in Conns
  BY <1>1 DEF PoolPlaces, InServe
<1>10. ASSUME NEW c \in Conns, NEW ch \in Chans, Sent(ch, c)'
       PROVE  /\ connState'[c] # "new"
              /\ \A w \in Chans : ~WorkerHas(w, c)' /\ (w # ch => ~Sent(w, c)')
  <2>1. CASE c = d
    BY <1>1, <1>5, <1>6, <1>7, <1>10, <2>1
  <2>2. CASE c # d
    <3>1. ch # v /\ Sent(ch, c)
      BY <1>2, <1>6, <1>10, <2>2
    <3>2. \A w \in Chans : Sent(w, c)' => Sent(w, c)
      BY <1>2, <1>6, <2>2
    <3>3. connState[c] # "new" /\ \A w \in Chans : ~WorkerHas(w, c) /\ (w # ch => ~Sent(w, c))
      BY <3>1 DEF PoolPlaces
    <3> QED BY <1>1, <1>5, <3>2, <3>3
  <2> QED BY <2>1, <2>2
<1>11. ASSUME NEW c \in Conns, NEW ch \in Chans, WorkerHas(ch, c)'
       PROVE  connState'[c] # "new" /\ \A w \in Chans : w # ch => ~WorkerHas(w, c)'
  BY <1>1, <1>5, <1>11 DEF PoolPlaces
<1> QED BY <1>5, <1>8, <1>9, <1>10, <1>11 DEF PoolPlaces

\* A worker receives it from its channel.
LEMMA RecvPlace ==
    ASSUME WP!TypeOK, PoolPlaces, NEW v \in Chans, WP!Recv(v)
    PROVE  PoolPlaces'
<1> DEFINE d == Head(q[v])
<1>1. q \in [Chans -> Seq(Conns \cup {NoConn})] /\ q[v] # <<>>
  BY DEF WP!Recv, WP!TypeOK
<1>2. d \in Conns \cup {NoConn} /\ Tail(q[v]) = <<>>
  <2>1. q[v] \in Seq(Conns \cup {NoConn}) /\ Len(q[v]) <= 1
    BY <1>1 DEF PoolPlaces
  <2>2. Tail(q[v]) \in Seq(Conns \cup {NoConn}) /\ Len(Tail(q[v])) = Len(q[v]) - 1
    BY <1>1, <2>1, HeadTailProperties
  <2>3. Len(q[v]) \in Nat /\ Len(Tail(q[v])) \in Nat
    BY <2>1, <2>2, LenProperties
  <2>4. Len(Tail(q[v])) = 0
    <3> DEFINE m == Len(Tail(q[v]))
               n == Len(q[v])
    <3>1. m \in Nat /\ n \in Nat /\ n <= 1 /\ m = n - 1
      BY <2>1, <2>2, <2>3
    <3> HIDE DEF m, n
    <3>2. m = 0
      BY <3>1
    <3> QED BY <3>2 DEF m
  <2>5. Tail(q[v]) = <<>>
    BY <2>2, <2>4, EmptySeq
  <2>6. Head(q[v]) \in Conns \cup {NoConn}
    BY <1>1, <2>1, HeadTailProperties
  <2> QED BY <2>5, <2>6
<1>3. Sent(v, d)
  BY <1>1 DEF Sent
<1>4. \A c \in Conns : Sent(v, c) => c = d
  BY DEF Sent
<1>5. /\ q'[v] = Tail(q[v]) /\ wconn'[v] = d /\ wpc[v] = "recv"
      /\ wpc'[v] = IF d = NoConn THEN "exit" ELSE "track"
      /\ UNCHANGED <<cpc, cconn, cch, connState>>
      /\ \A w \in Chans \ {v} : q'[w] = q[w] /\ wconn'[w] = wconn[w] /\ wpc'[w] = wpc[w]
  BY DEF WP!Recv, WP!TypeOK, WP!callerVars
<1> HIDE DEF d
<1>6. /\ \A c \in Conns : LoopHas(c)' <=> LoopHas(c)
      /\ \A c \in Conns : WorkerHas(v, c)' <=> c = d
      /\ \A ch \in Chans \ {v}, c \in Conns : WorkerHas(ch, c)' <=> WorkerHas(ch, c)
      /\ \A c \in Conns : ~Sent(v, c)'
      /\ \A ch \in Chans \ {v}, c \in Conns : Sent(ch, c)' <=> Sent(ch, c)
  BY <1>2, <1>5, ConnsAssumption DEF LoopHas, WorkerHas, Sent, WithConn
<1>7. /\ cpc'[AcceptLoop] \in InServe => cconn'[AcceptLoop] \in Conns
      /\ cpc'[AcceptLoop] = "send" => cch'[AcceptLoop] \in Chans
  BY <1>5 DEF PoolPlaces
<1>8. ASSUME NEW ch \in Chans
      PROVE  (wpc'[ch] \in WithConn => wconn'[ch] \in Conns) /\ Len(q'[ch]) <= 1
  <2>1. CASE ch = v
    <3>1. Len(q'[v]) = 0
      BY <1>2, <1>5, EmptySeq
    <3>2. Len(q'[v]) <= 1
      BY <3>1
    <3>3. wpc'[v] \in WithConn => wconn'[v] \in Conns
      BY <1>2, <1>5 DEF WithConn
    <3> QED BY <2>1, <3>2, <3>3
  <2>2. CASE ch # v
    BY <1>5, <2>2 DEF PoolPlaces
  <2> QED BY <2>1, <2>2
<1>9. ASSUME NEW c \in Conns, LoopHas(c)'
      PROVE  connState'[c] # "new" /\ \A ch \in Chans : ~Sent(ch, c)' /\ ~WorkerHas(ch, c)'
  BY <1>3, <1>5, <1>6, <1>9 DEF PoolPlaces
<1>10. ASSUME NEW c \in Conns, NEW ch \in Chans, Sent(ch, c)'
       PROVE  /\ connState'[c] # "new"
              /\ \A w \in Chans : ~WorkerHas(w, c)' /\ (w # ch => ~Sent(w, c)')
  <2>1. ch # v /\ Sent(ch, c)
    BY <1>6, <1>10
  <2>2. c # d
    BY <1>3, <2>1 DEF PoolPlaces
  <2> QED BY <1>5, <1>6, <2>1, <2>2 DEF PoolPlaces
<1>11. ASSUME NEW c \in Conns, NEW ch \in Chans, WorkerHas(ch, c)'
       PROVE  connState'[c] # "new" /\ \A w \in Chans : w # ch => ~WorkerHas(w, c)'
  <2>1. CASE c = d
    BY <1>3, <1>5, <1>6, <1>11, <2>1 DEF PoolPlaces
  <2>2. CASE c # d
    BY <1>5, <1>6, <1>11, <2>2 DEF PoolPlaces
  <2> QED BY <2>1, <2>2
<1> QED BY <1>7, <1>8, <1>9, <1>10, <1>11 DEF PoolPlaces

\* A step of the pool keeps every connection in one place.
LEMMA PoolKeepsPlaces == PoolInv /\ PoolStep => PoolPlaces'
<1> SUFFICES ASSUME PoolInv, PoolStep PROVE PoolPlaces'
  OBVIOUS
<1>0. WP!TypeOK /\ PoolPlaces
  BY DEF PoolInv
<1>1. /\ cpc \in [{AcceptLoop} -> WP!CallerPC] /\ cconn \in [{AcceptLoop} -> Conns \cup {NoConn}]
      /\ wpc \in [Chans -> WP!WorkerPC] /\ wconn \in [Chans -> Conns \cup {NoConn}]
      /\ connState \in [Conns -> {"new", "accepted", "served", "closed"}]
      /\ cch \in [{AcceptLoop} -> Chans \cup {NoConn}]
      /\ ready \in Seq(Chans)
  BY <1>0 DEF WP!TypeOK
<1>2. ASSUME q' = q PROVE /\ \A ch \in Chans : Len(q'[ch]) <= 1
                          /\ \A ch \in Chans, c \in Conns : Sent(ch, c)' <=> Sent(ch, c)
  BY <1>0, <1>2 DEF PoolPlaces, Sent
<1> USE DEF WP!poolVars, WP!workerVars, WP!callerVars, WP!cleanVars
<1>3. CASE WP!Start \/ WP!StopClose(AcceptLoop) \/ WP!GetChCreate(AcceptLoop)
           \/ WP!GetChNone(AcceptLoop) \/ WP!StopLock(AcceptLoop) \/ WP!StopUnlock(AcceptLoop)
  <2>1. UNCHANGED <<q, wpc, wconn, cconn, cch, connState>>
    BY <1>3 DEF WP!Start, WP!StopClose, WP!GetChCreate, WP!GetChNone, WP!StopLock, WP!StopUnlock
  <2>2. /\ cpc'[AcceptLoop] \in InServe => cpc[AcceptLoop] \in InServe
        /\ cpc'[AcceptLoop] = "send" => cpc[AcceptLoop] = "send"
    BY <1>1, <1>3 DEF WP!Start, WP!StopClose, WP!GetChCreate, WP!GetChNone, WP!StopLock,
                      WP!StopUnlock, InServe
  <2>3. cpc'[AcceptLoop] = "send" => cch'[AcceptLoop] \in Chans
    BY <1>0, <2>1, <2>2 DEF PoolPlaces
  <2> QED BY <1>0, <1>2, <2>1, <2>2, <2>3, SamePlace
<1>4. ASSUME NEW c \in Conns, WP!Accept(AcceptLoop, c) PROVE PoolPlaces'
  BY <1>0, <1>4, AcceptPlace
<1>5. CASE WP!GetChReady(AcceptLoop)
  <2>1. ready # <<>> /\ cch'[AcceptLoop] = WP!Last(ready)
    BY <1>1, <1>5 DEF WP!GetChReady
  <2>2. cch'[AcceptLoop] \in Chans
    BY <1>1, <2>1 DEF WP!Last
  <2>3. UNCHANGED <<q, wpc, wconn, cconn, connState>> /\ cpc[AcceptLoop] \in InServe
    BY <1>5 DEF WP!GetChReady, InServe
  <2> QED BY <1>0, <1>2, <2>2, <2>3, SamePlace
<1>6. ASSUME NEW ch \in Chans, WP!Spawn(AcceptLoop, ch) PROVE PoolPlaces'
  <2>1. UNCHANGED <<q, wconn, cconn, connState>> /\ cpc[AcceptLoop] \in InServe
    BY <1>6 DEF WP!Spawn, InServe
  <2>2. cch'[AcceptLoop] \in Chans /\ \A w \in Chans : wpc'[w] \in WithConn => wpc[w] \in WithConn
    BY <1>1, <1>6 DEF WP!Spawn, WithConn
  <2> QED BY <1>0, <1>2, <2>1, <2>2, SamePlace
<1>7. CASE WP!Send(AcceptLoop)
  BY <1>0, <1>7, SendPlace
<1>8. CASE WP!Reject(AcceptLoop)
  <2>1. UNCHANGED <<q, wpc, wconn>> /\ cpc'[AcceptLoop] = "idle"
    BY <1>1, <1>8 DEF WP!Reject
  <2>2. \A c \in Conns : connState'[c] = "new" => connState[c] = "new"
    BY <1>1, <1>8 DEF WP!Reject
  <2>3. cpc'[AcceptLoop] \notin InServe /\ cpc'[AcceptLoop] # "send"
    BY <2>1 DEF InServe
  <2> QED BY <1>0, <1>2, <2>1, <2>2, <2>3, SamePlace
<1>9. CASE WP!StopSend(AcceptLoop)
  <2> DEFINE v == Head(ready)
  <2>1. /\ WP!SendTo(v, NoConn) /\ v \in Chans
        /\ UNCHANGED <<wpc, wconn, cpc, cconn, cch, connState>>
    BY <1>1, <1>9 DEF WP!StopSend
  <2> HIDE DEF v
  <2>2. q \in [Chans -> Seq(Conns \cup {NoConn})]
    BY <1>0 DEF WP!TypeOK
  <2>3. q[v] = <<>> /\ q'[v] = <<NoConn>> /\ \A w \in Chans \ {v} : q'[w] = q[w]
    BY <2>1, <2>2, SendServed
  <2>4. Len(<<NoConn>>) <= 1 /\ Head(<<NoConn>>) = NoConn
    OBVIOUS
  <2>5. ASSUME NEW ch \in Chans
        PROVE  Len(q'[ch]) <= 1 /\ \A c \in Conns : Sent(ch, c)' <=> Sent(ch, c)
    <3>1. CASE ch = v
      BY <2>3, <2>4, <3>1, ConnsAssumption DEF Sent
    <3>2. CASE ch # v
      BY <1>0, <2>3, <3>2 DEF Sent, PoolPlaces
    <3> QED BY <3>1, <3>2
  <2>6. cpc'[AcceptLoop] = "send" => cch'[AcceptLoop] \in Chans
    BY <1>0, <2>1 DEF PoolPlaces
  <2> QED BY <1>0, <2>1, <2>5, <2>6, SamePlace
<1>10. ASSUME NEW w \in Chans, WorkStep(w) PROVE PoolPlaces'
  <2>1. CASE WP!Recv(w)
    BY <1>0, <2>1, RecvPlace
  <2>2. CASE ~WP!Recv(w)
    <3>1. UNCHANGED <<q, cpc, cconn, cch>>
      BY <1>10, <2>2 DEF WorkStep, WP!Arrive, WP!Track, WP!Handle, WP!Untrack, WP!CloseConn, WP!Stamp,
                         WP!Release, WP!Exit, WP!Put
    <3>2. \A c \in Conns : connState'[c] = "new" => connState[c] = "new"
      BY <1>1, <1>10, <2>2 DEF WorkStep, WP!Arrive, WP!Track, WP!Handle, WP!Untrack, WP!CloseConn, WP!Stamp,
                               WP!Release, WP!Exit, WP!Put
    <3>3. \A ch \in Chans : wpc'[ch] \in WithConn =>
             wpc[ch] \in WithConn /\ wconn'[ch] = wconn[ch]
      BY <1>1, <1>10, <2>2 DEF WorkStep, WP!Arrive, WP!Track, WP!Handle, WP!Untrack, WP!CloseConn, WP!Stamp,
                               WP!Release, WP!Exit, WP!Put, WP!Move, WithConn
    <3>4. cpc'[AcceptLoop] = "send" => cch'[AcceptLoop] \in Chans
      BY <1>0, <3>1 DEF PoolPlaces
    <3> QED BY <1>0, <1>2, <3>1, <3>2, <3>3, <3>4, SamePlace
  <2> QED BY <2>1, <2>2
<1> QED BY <1>3, <1>4, <1>5, <1>6, <1>7, <1>8, <1>9, <1>10 DEF PoolStep, LoopStep

\* A step of the pool keeps its part of the invariant.
LEMMA PoolKept == PoolInv /\ PoolStep => PoolInv'
  BY LoopTypeOK, WorkTypeOK, PoolCounts, PoolKeepsPlaces DEF PoolInv, PoolStep

-----------------------------------------------------------------------------
\* The sockets and the goroutines of the listener are finitely many.
LEMMA ListenerFinite ==
    /\ Cardinality(Conns) \in Nat
    /\ \A S \in SUBSET Conns :
          IsFiniteSet(S) /\ Cardinality(S) \in Nat /\ Cardinality(S) <= Cardinality(Conns)
    /\ \A S \in SUBSET Procs : IsFiniteSet(S) /\ Cardinality(S) \in Nat
<1>1. Cardinality(Conns) \in Nat
  BY ConnsAssumption, FS_CardinalityType
<1>2. ASSUME NEW S \in SUBSET Conns
      PROVE  IsFiniteSet(S) /\ Cardinality(S) \in Nat /\ Cardinality(S) <= Cardinality(Conns)
  BY <1>2, ConnsAssumption, FS_Subset, FS_CardinalityType
<1>3. ASSUME NEW S \in SUBSET Procs PROVE IsFiniteSet(S) /\ Cardinality(S) \in Nat
  BY <1>3, ProcsAssumption, FS_Subset, FS_CardinalityType
<1> QED BY <1>1, <1>2, <1>3

\* A goroutine enters or leaves a part of the listener's code.
LEMMA InsideMoves ==
    ASSUME LnTypeOK, NEW p \in Procs
    PROVE  /\ At(p, "out", "count") =>
                 /\ Cardinality(Inside("count")') = Cardinality(Inside("count")) + 1
                 /\ Inside("dec")' = Inside("dec")
           /\ At(p, "count", "out") =>
                 /\ Cardinality(Inside("count")') = Cardinality(Inside("count")) - 1
                 /\ Inside("dec")' = Inside("dec")
           /\ At(p, "out", "dec") =>
                 /\ Cardinality(Inside("dec")') = Cardinality(Inside("dec")) + 1
                 /\ Inside("count")' = Inside("count")
           /\ At(p, "dec", "check") =>
                 /\ Cardinality(Inside("dec")') = Cardinality(Inside("dec")) - 1
                 /\ Inside("count")' = Inside("count")
<1>1. gpc \in [Procs -> {"out", "count", "dec", "check", "shutdown", "load", "select"}]
  BY DEF LnTypeOK
<1>2. IsFiniteSet(Inside("count")) /\ IsFiniteSet(Inside("dec"))
  BY ListenerFinite DEF Inside
<1>3. ASSUME At(p, "out", "count")
      PROVE  /\ Cardinality(Inside("count")') = Cardinality(Inside("count")) + 1
             /\ Inside("dec")' = Inside("dec")
  <2>1. Inside("count")' = Inside("count") \cup {p} /\ p \notin Inside("count")
    BY <1>1, <1>3 DEF Inside, At
  <2>2. Inside("dec")' = Inside("dec")
    BY <1>1, <1>3 DEF Inside, At
  <2> QED BY <1>2, <2>1, <2>2, FS_AddElement
<1>4. ASSUME At(p, "count", "out")
      PROVE  /\ Cardinality(Inside("count")') = Cardinality(Inside("count")) - 1
             /\ Inside("dec")' = Inside("dec")
  <2>1. Inside("count")' = Inside("count") \ {p} /\ p \in Inside("count")
    BY <1>1, <1>4 DEF Inside, At
  <2>2. Inside("dec")' = Inside("dec")
    BY <1>1, <1>4 DEF Inside, At
  <2> QED BY <1>2, <2>1, <2>2, FS_RemoveElement
<1>5. ASSUME At(p, "out", "dec")
      PROVE  /\ Cardinality(Inside("dec")') = Cardinality(Inside("dec")) + 1
             /\ Inside("count")' = Inside("count")
  <2>1. Inside("dec")' = Inside("dec") \cup {p} /\ p \notin Inside("dec")
    BY <1>1, <1>5 DEF Inside, At
  <2>2. Inside("count")' = Inside("count")
    BY <1>1, <1>5 DEF Inside, At
  <2> QED BY <1>2, <2>1, <2>2, FS_AddElement
<1>6. ASSUME At(p, "dec", "check")
      PROVE  /\ Cardinality(Inside("dec")') = Cardinality(Inside("dec")) - 1
             /\ Inside("count")' = Inside("count")
  <2>1. Inside("dec")' = Inside("dec") \ {p} /\ p \in Inside("dec")
    BY <1>1, <1>6 DEF Inside, At
  <2>2. Inside("count")' = Inside("count")
    BY <1>1, <1>6 DEF Inside, At
  <2> QED BY <1>2, <2>1, <2>2, FS_RemoveElement
<1> QED BY <1>3, <1>4, <1>5, <1>6

\* The terms of CountMatchesSockets are numbers.
LEMMA CountsAreNumbers ==
    ASSUME LnTypeOK
    PROVE  /\ Cardinality(OpenSocks) \in Nat /\ Cardinality(Inside("count")) \in Nat
           /\ Cardinality(Inside("dec")) \in Nat /\ connsCount \in Nat
<1>1. OpenSocks \in SUBSET Conns /\ Inside("count") \in SUBSET Procs /\ Inside("dec") \in SUBSET Procs
  BY DEF OpenSocks, Inside
<1>2. connsCount \in Nat
  BY ListenerFinite DEF LnTypeOK
<1> QED BY <1>1, <1>2, ListenerFinite

\* A step that neither opens, closes nor counts a connection.
LEMMA QuietListener ==
    ASSUME ListenerInv, LnTypeOK', UNCHANGED <<sock, connsCount>>,
           \A p \in Procs, x \in {"count", "dec"} :
              /\ gpc'[p] = x <=> gpc[p] = x
              /\ gpc[p] = x => gconn'[p] = gconn[p],
           \A c \in Conns : connState'[c] = "new" <=> connState[c] = "new"
    PROVE  ListenerInv'
<1>1. AcceptLoop \in Procs
  BY GoroutinesAssumption
<1>2. CountMatchesSockets'
  <2>1. Inside("count")' = Inside("count") /\ Inside("dec")' = Inside("dec") /\ OpenSocks' = OpenSocks
    BY DEF Inside, OpenSocks
  <2> QED BY <2>1 DEF ListenerInv, CountMatchesSockets
<1>3. ListenerCounted'
  <2>1. CountedSocks' = CountedSocks
    <3>1. \A c \in Conns : (gpc'[AcceptLoop] = "count" /\ gconn'[AcceptLoop] = c)
             <=> (gpc[AcceptLoop] = "count" /\ gconn[AcceptLoop] = c)
      BY <1>1
    <3>2. \A c \in Conns, p \in Procs : (gpc'[p] = "dec" /\ gconn'[p] = c)
             <=> (gpc[p] = "dec" /\ gconn[p] = c)
      OBVIOUS
    <3> QED BY <3>1, <3>2 DEF CountedSocks
  <2> QED BY <2>1 DEF ListenerInv, ListenerCounted
<1>4. ListenerSound'
  <2>1. ListenerSound
    BY DEF ListenerInv
  <2>2. gpc'[AcceptLoop] = "count" =>
           gpc[AcceptLoop] = "count" /\ gconn'[AcceptLoop] = gconn[AcceptLoop]
    BY <1>1
  <2>3. \A p \in Procs : gpc'[p] = "dec" => gpc[p] = "dec" /\ gconn'[p] = gconn[p]
    OBVIOUS
  <2> QED BY <2>1, <2>2, <2>3 DEF ListenerSound
<1> QED BY <1>2, <1>3, <1>4 DEF ListenerInv

\* Accept has got a connection from the wrapped listener.
LEMMA InnerAcceptListener ==
    ASSUME ListenerInv, NEW c \in Conns, InnerAccept(AcceptLoop, c), UNCHANGED connState
    PROVE  ListenerInv'
<1>1. AcceptLoop \in Procs
  BY GoroutinesAssumption
<1>2. LnTypeOK /\ ListenerSound
  BY DEF ListenerInv
<1>3. /\ gpc[AcceptLoop] = "out" /\ sock[c] = "none"
      /\ gpc' = [gpc EXCEPT ![AcceptLoop] = "count"]
      /\ sock' = [sock EXCEPT ![c] = "open"] /\ gconn' = [gconn EXCEPT ![AcceptLoop] = c]
      /\ UNCHANGED <<listening, connsCount, shutdown, doneCloses, closeResult, gcount>>
  BY DEF InnerAccept, At
<1>4. /\ gpc'[AcceptLoop] = "count" /\ gconn'[AcceptLoop] = c /\ sock'[c] = "open"
      /\ \A p \in Procs \ {AcceptLoop} : gpc'[p] = gpc[p] /\ gconn'[p] = gconn[p]
      /\ \A d \in Conns \ {c} : sock'[d] = sock[d]
  BY <1>1, <1>2, <1>3 DEF LnTypeOK
<1>5. connState[c] = "new"
  BY <1>2, <1>3 DEF ListenerSound
<1>6. LnTypeOK'
  BY <1>1, <1>2, <1>3 DEF LnTypeOK
<1>7. CountMatchesSockets'
  <2>1. At(AcceptLoop, "out", "count")
    BY DEF InnerAccept
  <2>2. /\ Cardinality(Inside("count")') = Cardinality(Inside("count")) + 1
        /\ Inside("dec")' = Inside("dec")
    BY <1>1, <1>2, <2>1, InsideMoves
  <2>3. OpenSocks' = OpenSocks \cup {c} /\ c \notin OpenSocks
    BY <1>3, <1>4 DEF OpenSocks
  <2>4. Cardinality(OpenSocks') = Cardinality(OpenSocks) + 1
    BY <2>3, ListenerFinite, FS_AddElement DEF OpenSocks
  <2> QED BY <1>2, <1>3, <2>2, <2>4, CountsAreNumbers DEF ListenerInv, CountMatchesSockets
<1>8. ListenerCounted'
  <2>1. \A p \in Procs : (gpc'[p] = "dec" <=> gpc[p] = "dec") /\ (gpc[p] = "dec" => gconn'[p] = gconn[p])
    BY <1>3, <1>4
  <2>2. \A d \in Conns : (\E p \in Procs : gpc'[p] = "dec" /\ gconn'[p] = d)
           <=> (\E p \in Procs : gpc[p] = "dec" /\ gconn[p] = d)
    BY <2>1
  <2>3. ~\E p \in Procs : gpc[p] = "dec" /\ gconn[p] = c
    BY <1>2, <1>3 DEF ListenerSound
  <2>4. CountedSocks' = CountedSocks
    BY <1>3, <1>4, <2>2, <2>3 DEF CountedSocks
  <2> QED BY <1>3, <2>4 DEF ListenerInv, ListenerCounted
<1>9. ListenerSound'
  <2>1. \A p \in Procs : gpc'[p] = "dec" => gpc[p] = "dec" /\ gconn'[p] = gconn[p]
    BY <1>4
  <2>2. \A p \in Procs : gpc'[p] = "dec" => gconn'[p] \in Conns /\ gconn'[p] # c
    BY <1>2, <1>3, <2>1 DEF ListenerSound
  <2>3. \A d \in Conns : sock'[d] = sock[d] \/ d = c
    BY <1>4
  <2> QED BY <1>2, <1>4, <1>5, <2>1, <2>2, <2>3 DEF ListenerSound
<1> QED BY <1>6, <1>7, <1>8, <1>9 DEF ListenerInv

\* Accept counts its connection, and the accept loop calls Serve with it.
LEMMA CountConnListener ==
    ASSUME ListenerInv, CountConn(AcceptLoop), NEW c \in Conns, c = gconn[AcceptLoop],
           connState'[c] # "new", \A d \in Conns \ {c} : connState'[d] = connState[d]
    PROVE  ListenerInv'
<1>1. AcceptLoop \in Procs
  BY GoroutinesAssumption
<1>2. LnTypeOK /\ ListenerSound /\ ListenerCounted
  BY DEF ListenerInv
<1>3. /\ gpc[AcceptLoop] = "count" /\ gpc' = [gpc EXCEPT ![AcceptLoop] = "out"]
      /\ connsCount' = connsCount + 1 /\ gconn' = [gconn EXCEPT ![AcceptLoop] = NoConn]
      /\ UNCHANGED <<listening, sock, shutdown, doneCloses, closeResult, gcount>>
  BY DEF CountConn, At
<1>4. /\ gpc'[AcceptLoop] = "out" /\ sock[c] = "open"
      /\ \A p \in Procs \ {AcceptLoop} : gpc'[p] = gpc[p] /\ gconn'[p] = gconn[p]
  BY <1>1, <1>2, <1>3 DEF LnTypeOK, ListenerSound
<1>5. \A p \in Procs : (gpc'[p] = "dec" <=> gpc[p] = "dec") /\ (gpc[p] = "dec" => gconn'[p] = gconn[p])
  BY <1>3, <1>4
<1>6. Cardinality(CountedSocks') = Cardinality(CountedSocks) + 1
  <2>1. ~\E p \in Procs : gpc[p] = "dec" /\ gconn[p] = c
    BY <1>2, <1>4 DEF ListenerSound
  <2>2. \A d \in Conns : (\E p \in Procs : gpc'[p] = "dec" /\ gconn'[p] = d)
           <=> (\E p \in Procs : gpc[p] = "dec" /\ gconn[p] = d)
    BY <1>5
  <2>3. CountedSocks' = CountedSocks \cup {c} /\ c \notin CountedSocks
    BY <1>3, <1>4, <2>1, <2>2 DEF CountedSocks
  <2>4. CountedSocks \in SUBSET Conns
    BY DEF CountedSocks
  <2> QED BY <2>3, <2>4, ListenerFinite, FS_AddElement
<1>7. ListenerCounted'
  BY <1>2, <1>3, <1>6 DEF ListenerCounted
<1>8. LnTypeOK'
  <2>1. CountedSocks' \in SUBSET Conns
    BY DEF CountedSocks
  <2>2. connsCount' \in 0 .. Cardinality(Conns)
    BY <1>7, <2>1, ListenerFinite DEF ListenerCounted
  <2> QED BY <1>1, <1>2, <1>3, <2>2 DEF LnTypeOK
<1>9. CountMatchesSockets'
  <2>1. At(AcceptLoop, "count", "out") /\ OpenSocks' = OpenSocks
    BY <1>3 DEF CountConn, OpenSocks
  <2>2. /\ Cardinality(Inside("count")') = Cardinality(Inside("count")) - 1
        /\ Inside("dec")' = Inside("dec")
    BY <1>1, <1>2, <2>1, InsideMoves
  <2> QED BY <1>2, <1>3, <2>1, <2>2, CountsAreNumbers DEF ListenerInv, CountMatchesSockets
<1>10. ListenerSound'
  <2>1. \A d \in Conns : connState'[d] # "new" => sock'[d] # "none"
    BY <1>2, <1>3, <1>4 DEF ListenerSound
  <2>2. \A p \in Procs : gpc'[p] # "count"
    BY <1>2, <1>3, <1>4 DEF ListenerSound
  <2>3. \A p \in Procs : gpc'[p] = "dec" => gpc[p] = "dec" /\ gconn'[p] = gconn[p]
    BY <1>5
  <2> QED BY <1>1, <1>2, <1>3, <2>1, <2>2, <2>3 DEF ListenerSound
<1> QED BY <1>7, <1>8, <1>9, <1>10 DEF ListenerInv

\* A goroutine that has the connection closes its socket.
LEMMA ConnCloseListener ==
    ASSUME ListenerInv, NEW p \in Procs, NEW c \in Conns, ConnClose(p, c),
           connState[c] # "new", UNCHANGED connState
    PROVE  ListenerInv'
<1>1. AcceptLoop \in Procs
  BY GoroutinesAssumption
<1>2. LnTypeOK /\ ListenerSound
  BY DEF ListenerInv
<1>3. /\ gpc[p] = "out" /\ gpc' = [gpc EXCEPT ![p] = "dec"] /\ sock[c] = "open"
      /\ sock' = [sock EXCEPT ![c] = "closed"] /\ gconn' = [gconn EXCEPT ![p] = c]
      /\ UNCHANGED <<listening, connsCount, shutdown, doneCloses, closeResult, gcount>>
  BY DEF ConnClose, At
<1>4. /\ gpc'[p] = "dec" /\ gconn'[p] = c /\ sock'[c] = "closed"
      /\ \A r \in Procs \ {p} : gpc'[r] = gpc[r] /\ gconn'[r] = gconn[r]
      /\ \A d \in Conns \ {c} : sock'[d] = sock[d]
  BY <1>2, <1>3 DEF LnTypeOK
<1>5. /\ \A r \in Procs : gpc[r] = "dec" => r # p /\ gconn[r] # c
      /\ ~(gpc[AcceptLoop] = "count" /\ gconn[AcceptLoop] = c)
  BY <1>2, <1>3 DEF ListenerSound
<1>6. LnTypeOK'
  BY <1>2, <1>3 DEF LnTypeOK
<1>7. CountMatchesSockets'
  <2>1. At(p, "out", "dec")
    BY DEF ConnClose
  <2>2. /\ Cardinality(Inside("dec")') = Cardinality(Inside("dec")) + 1
        /\ Inside("count")' = Inside("count")
    BY <1>2, <2>1, InsideMoves
  <2>3. OpenSocks' = OpenSocks \ {c} /\ c \in OpenSocks
    BY <1>3, <1>4 DEF OpenSocks
  <2>4. Cardinality(OpenSocks') = Cardinality(OpenSocks) - 1
    BY <2>3, ListenerFinite, FS_RemoveElement DEF OpenSocks
  <2> QED BY <1>2, <1>3, <2>2, <2>4, CountsAreNumbers DEF ListenerInv, CountMatchesSockets
<1>8. ListenerCounted'
  <2>1. \A d \in Conns : (gpc'[AcceptLoop] = "count" /\ gconn'[AcceptLoop] = d)
           <=> (gpc[AcceptLoop] = "count" /\ gconn[AcceptLoop] = d)
    BY <1>1, <1>3, <1>4
  <2>2. \A d \in Conns : (\E r \in Procs : gpc'[r] = "dec" /\ gconn'[r] = d)
           <=> (d = c \/ \E r \in Procs : gpc[r] = "dec" /\ gconn[r] = d)
    BY <1>4, <1>5
  <2>3. CountedSocks' = CountedSocks
    BY <1>3, <1>4, <1>5, <2>1, <2>2 DEF CountedSocks
  <2> QED BY <1>3, <2>3 DEF ListenerInv, ListenerCounted
<1>9. ListenerSound'
  <2>1. /\ \A r \in Procs : gpc'[r] = "count" => gpc[r] = "count" /\ gconn'[r] = gconn[r]
        /\ \A r \in Procs : gpc'[r] = "dec" /\ r # p => gpc[r] = "dec" /\ gconn'[r] = gconn[r]
    BY <1>4
  <2>2. gpc'[AcceptLoop] = "count" =>
           /\ gconn'[AcceptLoop] \in Conns
           /\ sock'[gconn'[AcceptLoop]] = "open" /\ connState'[gconn'[AcceptLoop]] = "new"
    BY <1>1, <1>2, <1>4, <1>5, <2>1 DEF ListenerSound
  <2>3. \A r \in Procs : gpc'[r] = "dec" => gconn'[r] \in Conns /\ sock'[gconn'[r]] = "closed"
    BY <1>2, <1>4, <1>5, <2>1 DEF ListenerSound
  <2>4. \A r, s \in Procs : gpc'[r] = "dec" /\ gpc'[s] = "dec" /\ gconn'[r] = gconn'[s] => r = s
    BY <1>2, <1>4, <1>5, <2>1 DEF ListenerSound
  <2>5. \A d \in Conns : connState'[d] # "new" => sock'[d] # "none"
    BY <1>2, <1>4 DEF ListenerSound
  <2>6. \A r \in Procs : gpc'[r] = "count" => r = AcceptLoop
    BY <1>2, <2>1 DEF ListenerSound
  <2> QED BY <2>2, <2>3, <2>4, <2>5, <2>6 DEF ListenerSound
<1> QED BY <1>6, <1>7, <1>8, <1>9 DEF ListenerInv

\* closeConn counts the connection down.
LEMMA DecConnsListener ==
    ASSUME ListenerInv, NEW p \in Procs, DecConns(p), UNCHANGED connState
    PROVE  ListenerInv'
<1>1. AcceptLoop \in Procs
  BY GoroutinesAssumption
<1>2. LnTypeOK /\ ListenerSound /\ ListenerCounted
  BY DEF ListenerInv
<1>3. /\ gpc[p] = "dec" /\ gpc' = [gpc EXCEPT ![p] = "check"]
      /\ connsCount' = connsCount - 1 /\ gcount' = [gcount EXCEPT ![p] = connsCount - 1]
      /\ UNCHANGED <<listening, sock, shutdown, doneCloses, closeResult, gconn>>
  BY DEF DecConns, At
<1>4. gpc'[p] = "check" /\ \A r \in Procs \ {p} : gpc'[r] = gpc[r]
  BY <1>2, <1>3 DEF LnTypeOK
<1>5. PICK c \in Conns : c = gconn[p] /\ sock[c] = "closed"
  BY <1>2, <1>3 DEF ListenerSound
<1>6. Cardinality(CountedSocks') = Cardinality(CountedSocks) - 1
  <2>1. \A d \in Conns : (\E r \in Procs : gpc'[r] = "dec" /\ gconn'[r] = d)
           <=> (d # c /\ \E r \in Procs : gpc[r] = "dec" /\ gconn[r] = d)
    <3>1. \A r \in Procs : gpc'[r] = "dec" <=> (gpc[r] = "dec" /\ r # p)
      BY <1>3, <1>4
    <3>2. \A r \in Procs : gpc[r] = "dec" /\ gconn[r] = c => r = p
      BY <1>2, <1>3, <1>5 DEF ListenerSound
    <3> QED BY <1>3, <1>5, <3>1, <3>2
  <2>2. gpc'[AcceptLoop] = "count" <=> gpc[AcceptLoop] = "count"
    BY <1>1, <1>3, <1>4
  <2>3. \A d \in Conns : d \in CountedSocks' <=> d # c /\ d \in CountedSocks
    BY <1>3, <1>5, <2>1, <2>2 DEF CountedSocks
  <2>4. c \in CountedSocks /\ CountedSocks \in SUBSET Conns /\ CountedSocks' \in SUBSET Conns
    BY <1>3, <1>5 DEF CountedSocks
  <2>5. CountedSocks' = CountedSocks \ {c}
    BY <2>3, <2>4
  <2> QED BY <2>4, <2>5, ListenerFinite, FS_RemoveElement
<1>7. ListenerCounted'
  BY <1>2, <1>3, <1>6 DEF ListenerCounted
<1>8. LnTypeOK'
  <2>1. CountedSocks' \in SUBSET Conns
    BY DEF CountedSocks
  <2>2. connsCount' \in 0 .. Cardinality(Conns)
    BY <1>7, <2>1, ListenerFinite DEF ListenerCounted
  <2>3. gcount' \in [Procs -> 0 .. Cardinality(Conns)]
    BY <1>2, <1>3, <2>2 DEF LnTypeOK
  <2> QED BY <1>2, <1>3, <2>2, <2>3 DEF LnTypeOK
<1>9. CountMatchesSockets'
  <2>1. At(p, "dec", "check") /\ OpenSocks' = OpenSocks
    BY <1>3 DEF DecConns, OpenSocks
  <2>2. /\ Cardinality(Inside("dec")') = Cardinality(Inside("dec")) - 1
        /\ Inside("count")' = Inside("count")
    BY <1>2, <2>1, InsideMoves
  <2> QED BY <1>2, <1>3, <2>1, <2>2, CountsAreNumbers DEF ListenerInv, CountMatchesSockets
<1>10. ListenerSound'
  <2>1. \A r \in Procs, x \in {"count", "dec"} : gpc'[r] = x => gpc[r] = x
    BY <1>4
  <2> QED BY <1>1, <1>2, <1>3, <2>1 DEF ListenerSound
<1> QED BY <1>7, <1>8, <1>9, <1>10 DEF ListenerInv

\* The other steps of the listener: what closeConn does after it has counted, and
\* Close of the listener.
LEMMA MovesQuietly ==
    ASSUME ListenerInv, ~Panicked, NEW p \in Procs,
           \/ CheckShutdown(p) \/ LnClose(p) \/ AddShutdown(p) \/ NoConns(p)
           \/ SomeConns(p) \/ WaitDone(p) \/ WaitTimeout(p),
           \A c \in Conns : connState'[c] = "new" <=> connState[c] = "new"
    PROVE  ListenerInv'
<1>1. LnTypeOK /\ doneCloses \in {0, 1}
  BY DEF ListenerInv, LnTypeOK, Panicked
<1>2. /\ \E to \in {"out", "shutdown", "load", "select"} : gpc' = [gpc EXCEPT ![p] = to]
      /\ gpc[p] \notin {"count", "dec"}
      /\ gconn' = gconn \/ gconn' = [gconn EXCEPT ![p] = NoConn]
      /\ UNCHANGED <<sock, connsCount, gcount>>
  BY DEF CheckShutdown, LnClose, AddShutdown, NoConns, SomeConns, WaitDone, WaitTimeout, At
<1>3. /\ doneCloses' \in 0 .. 2 /\ shutdown' \in Nat
      /\ listening' \in BOOLEAN /\ closeResult' \in {"none", "nil", "timeout"}
  <2>1. doneCloses' \in {doneCloses, doneCloses + 1} /\ shutdown' \in {shutdown, shutdown + 1}
    BY DEF CheckShutdown, LnClose, AddShutdown, NoConns, SomeConns, WaitDone, WaitTimeout
  <2>2. /\ listening' = listening \/ listening' = FALSE
        /\ closeResult' = closeResult \/ closeResult' = "nil" \/ closeResult' = "timeout"
    BY DEF CheckShutdown, LnClose, AddShutdown, NoConns, SomeConns, WaitDone, WaitTimeout
  <2>3. doneCloses' \in 0 .. 2 /\ shutdown' \in Nat
    BY <1>1, <2>1 DEF LnTypeOK
  <2> QED BY <1>1, <2>2, <2>3 DEF LnTypeOK
<1>4. LnTypeOK'
  BY <1>1, <1>2, <1>3 DEF LnTypeOK
<1>5. \A r \in Procs, x \in {"count", "dec"} :
         /\ gpc'[r] = x <=> gpc[r] = x
         /\ gpc[r] = x => gconn'[r] = gconn[r]
  BY <1>1, <1>2 DEF LnTypeOK
<1> QED BY <1>2, <1>4, <1>5, QuietListener

\* A step that leaves the listener alone.
LEMMA SameListener ==
    ASSUME ListenerInv, UNCHANGED lnVars,
           \A c \in Conns : connState'[c] = "new" <=> connState[c] = "new"
    PROVE  ListenerInv'
<1>1. LnTypeOK'
  BY DEF ListenerInv, LnTypeOK, lnVars
<1> QED BY <1>1, QuietListener DEF lnVars

-----------------------------------------------------------------------------
\* Only Accept makes a connection known to the pool.
LEMMA NewStaysNew ==
    ASSUME PoolInv, PoolStep, ~\E c \in Conns : WP!Accept(AcceptLoop, c)
    PROVE  \A c \in Conns : connState'[c] = "new" <=> connState[c] = "new"
<1>1. WP!TypeOK /\ PoolPlaces
  BY DEF PoolInv
<1>2. connState \in [Conns -> {"new", "accepted", "served", "closed"}]
  BY <1>1 DEF WP!TypeOK
<1>3. CASE WP!Reject(AcceptLoop)
  <2> DEFINE d == cconn[AcceptLoop]
  <2>1. d \in Conns /\ LoopHas(d) /\ connState' = [connState EXCEPT ![d] = "closed"]
    BY <1>1, <1>3 DEF WP!Reject, PoolPlaces, LoopHas, InServe
  <2>2. connState[d] # "new"
    BY <1>1, <2>1 DEF PoolPlaces
  <2> HIDE DEF d
  <2> QED BY <1>2, <2>1, <2>2
<1>4. ASSUME NEW ch \in Chans, WP!Handle(ch) \/ WP!CloseConn(ch)
      PROVE  \A c \in Conns : connState'[c] = "new" <=> connState[c] = "new"
  <2> DEFINE d == wconn[ch]
  <2>1. /\ d \in Conns /\ WorkerHas(ch, d)
        /\ \/ connState' = [connState EXCEPT ![d] = "served"]
           \/ connState' = [connState EXCEPT ![d] = "closed"]
    BY <1>1, <1>4 DEF WP!Handle, WP!CloseConn, WP!Move, PoolPlaces, WorkerHas, WithConn
  <2>2. connState[d] # "new"
    BY <1>1, <2>1 DEF PoolPlaces
  <2> HIDE DEF d
  <2> QED BY <1>2, <2>1, <2>2
<1>5. CASE WP!Start \/ (LoopStep /\ ~WP!Reject(AcceptLoop))
  <2>1. connState' = connState
    BY <1>5 DEF LoopStep, WP!Start, WP!StopClose, WP!GetChReady, WP!GetChCreate, WP!GetChNone,
                WP!Spawn, WP!Send, WP!StopLock, WP!StopSend, WP!StopUnlock
  <2> QED BY <2>1
<1>6. ASSUME NEW ch \in Chans, WorkStep(ch), ~WP!Handle(ch), ~WP!CloseConn(ch)
      PROVE  \A c \in Conns : connState'[c] = "new" <=> connState[c] = "new"
  <2>1. connState' = connState
    BY <1>6 DEF WorkStep, WP!Arrive, WP!Recv, WP!Track, WP!Untrack, WP!Stamp, WP!Release, WP!Exit, WP!Put
  <2> QED BY <2>1
<1> QED BY <1>3, <1>4, <1>5, <1>6 DEF PoolStep

\* A step that leaves the pool alone.
LEMMA SamePool ==
    ASSUME PoolInv, UNCHANGED wpVars
    PROVE  PoolInv'
<1>1. /\ UNCHANGED <<workerChanCap, workersCount, mustStop, stopCh, ready, q, idleFor, wpc, wconn>>
      /\ UNCHANGED <<cpc, cconn, cch, kpc, scratch, connState>>
  BY DEF wpVars
<1>2. WP!TypeOK'
  BY <1>1 DEF PoolInv, WP!TypeOK
<1>3. WorkersExact'
  BY <1>1 DEF PoolInv, WorkersExact, WP!Workers, WP!Creating
<1>4. PoolPlaces'
  BY <1>1 DEF PoolInv, PoolPlaces, LoopHas, WorkerHas, Sent
<1> QED BY <1>2, <1>3, <1>4 DEF PoolInv

\* The pool's part of every step of the server.
LEMMA StepPool == PoolInv /\ Next => PoolInv'
<1> SUFFICES ASSUME PoolInv, Next PROVE PoolInv'
  OBVIOUS
<1>1. CASE PoolStep
  BY <1>1, PoolKept
<1>2. CASE UNCHANGED wpVars
  BY <1>2, SamePool
<1>3. CASE \E c \in Conns : AcceptInner(c)
  BY <1>2, <1>3 DEF AcceptInner
<1>4. CASE AcceptFails
  BY <1>1, <1>4 DEF AcceptFails, PoolStep, LoopStep
<1>5. CASE AcceptLoopStep
  BY <1>1, <1>2, <1>5 DEF AcceptLoopStep, StartPool, AcceptReturns, ServeOrStop, RefuseClose,
                          RefuseCount, RefuseEnds, PoolStep, LoopStep
<1>6. ASSUME NEW ch \in Chans, WorkerStep(ch) PROVE PoolInv'
  BY <1>1, <1>2, <1>6 DEF WorkerStep, WorkerInner, Track, Untrack, WorkerCloseFails, WorkerClose,
                          WorkerCloseCount, WorkerCloseEnds, PoolStep, WorkStep
<1>7. CASE CloseCalled \/ CloseAgain \/ CloserStep
  BY <1>2, <1>7 DEF CloseCalled, CloseAgain, CloserStep, CloseInListener, ListenerClosed, CloseRange,
                    CloseRangeFails, CloseCount, CloseDelete, CloseReturns
<1> QED BY <1>3, <1>4, <1>5, <1>6, <1>7 DEF Next

\* The listener's part.
LEMMA StepListener == SInv /\ Next => ListenerInv'
<1> SUFFICES ASSUME SInv, Next PROVE ListenerInv'
  OBVIOUS
<1>0. PoolInv /\ PoolPlaces /\ ListenerInv /\ CloserInv /\ ~Panicked
  BY DEF SInv, PoolInv, Next
<1>1. AcceptLoop \in Procs /\ Closer \in Procs /\ Chans \subseteq Procs
  BY GoroutinesAssumption
<1>2. ASSUME PoolStep, ~\E c \in Conns : WP!Accept(AcceptLoop, c)
      PROVE  \A c \in Conns : connState'[c] = "new" <=> connState[c] = "new"
  BY <1>0, <1>2, NewStaysNew
<1>3. ASSUME UNCHANGED wpVars
      PROVE  connState' = connState /\ \A c \in Conns : connState'[c] = "new" <=> connState[c] = "new"
  BY <1>3 DEF wpVars
\* No other step of the accept loop or of a worker is Accept.
<1>4. ASSUME NEW c \in Conns, WP!Accept(AcceptLoop, c)
      PROVE  cpc[AcceptLoop] = "idle" /\ cpc'[AcceptLoop] = "getCh" /\ stopCh # "nil"
  BY <1>0, <1>4 DEF WP!Accept, PoolInv, WP!TypeOK
<1>5. ASSUME NEW c \in Conns, AcceptInner(c) PROVE ListenerInv'
  BY <1>0, <1>3, <1>5, InnerAcceptListener DEF AcceptInner
<1>6. CASE AcceptFails
  <2>1. WP!StopClose(AcceptLoop) /\ UNCHANGED lnVars
    BY <1>6 DEF AcceptFails
  <2>2. connState' = connState
    BY <2>1 DEF WP!StopClose
  <2> QED BY <1>0, <2>1, <2>2, SameListener
<1>7. CASE AcceptLoopStep
  <2>1. CASE StartPool \/ ServeOrStop
    <3>1. UNCHANGED lnVars /\ connState' = connState
      BY <2>1 DEF StartPool, ServeOrStop, WP!Start, WP!GetChReady, WP!GetChCreate, WP!GetChNone,
                  WP!Spawn, WP!Send, WP!StopLock, WP!StopSend, WP!StopUnlock
    <3> QED BY <1>0, <3>1, SameListener
  <2>2. ASSUME NEW c \in Conns, AcceptReturns(c) PROVE ListenerInv'
    <3>1. /\ CountConn(AcceptLoop) /\ c = gconn[AcceptLoop]
          /\ connState' = [connState EXCEPT ![c] = "accepted"]
      BY <2>2 DEF AcceptReturns, WP!Accept
    <3>2. connState \in [Conns -> {"new", "accepted", "served", "closed"}]
      BY <1>0 DEF PoolInv, WP!TypeOK
    <3>3. connState'[c] # "new" /\ \A d \in Conns \ {c} : connState'[d] = connState[d]
      BY <3>1, <3>2
    <3> QED BY <1>0, <3>1, <3>3, CountConnListener
  <2>3. CASE RefuseClose
    <3>1. PICK c \in Conns : c = cconn[AcceptLoop] /\ LoopHas(c)
      BY <1>0, <2>3 DEF RefuseClose, PoolPlaces, LoopHas, InServe
    <3>2. connState[c] # "new"
      BY <1>0, <3>1 DEF PoolPlaces
    <3>3. ConnClose(AcceptLoop, c) /\ connState' = connState
      BY <1>3, <2>3, <3>1 DEF RefuseClose
    <3> QED BY <1>0, <1>1, <3>2, <3>3, ConnCloseListener
  <2>4. CASE RefuseCount
    BY <1>0, <1>1, <1>3, <2>4, DecConnsListener DEF RefuseCount
  <2>5. CASE RefuseEnds
    <3>1. CheckShutdown(AcceptLoop) /\ WP!Reject(AcceptLoop) /\ PoolStep
      BY <2>5 DEF RefuseEnds, PoolStep, LoopStep
    <3>2. ~\E c \in Conns : WP!Accept(AcceptLoop, c)
      BY <1>4, <3>1 DEF WP!Reject
    <3> QED BY <1>0, <1>1, <1>2, <3>1, <3>2, MovesQuietly
  <2> QED BY <1>7, <2>1, <2>2, <2>3, <2>4, <2>5 DEF AcceptLoopStep
<1>8. ASSUME NEW ch \in Chans, WorkerStep(ch) PROVE ListenerInv'
  <2>0. ASSUME WorkStep(ch)
        PROVE  \A c \in Conns : connState'[c] = "new" <=> connState[c] = "new"
    <3>1. cpc' = cpc /\ PoolStep
      BY <2>0 DEF PoolStep, WorkStep, WP!Arrive, WP!Recv, WP!Track, WP!Handle, WP!Untrack, WP!CloseConn, WP!Stamp,
                  WP!Release, WP!Exit, WP!Put, WP!callerVars
    <3> QED BY <1>2, <1>4, <3>1
  <2>1. CASE WorkerInner(ch) \/ Track(ch) \/ Untrack(ch) \/ WorkerCloseFails(ch)
    <3>1. UNCHANGED lnVars /\ WorkStep(ch)
      BY <2>1 DEF WorkerInner, Track, Untrack, WorkerCloseFails, ConnCloseFails, WorkStep
    <3> QED BY <1>0, <2>0, <3>1, SameListener
  <2>2. CASE WorkerClose(ch)
    <3>1. PICK c \in Conns : c = wconn[ch] /\ WorkerHas(ch, c)
      BY <1>0, <2>2 DEF WorkerClose, PoolPlaces, WorkerHas, WithConn
    <3>2. connState[c] # "new"
      BY <1>0, <3>1 DEF PoolPlaces
    <3>3. ConnClose(ch, c) /\ connState' = connState
      BY <1>3, <2>2, <3>1 DEF WorkerClose
    <3> QED BY <1>0, <1>1, <3>2, <3>3, ConnCloseListener
  <2>3. CASE WorkerCloseCount(ch)
    BY <1>0, <1>1, <1>3, <2>3, DecConnsListener DEF WorkerCloseCount
  <2>4. CASE WorkerCloseEnds(ch)
    <3>1. CheckShutdown(ch) /\ WorkStep(ch)
      BY <2>4 DEF WorkerCloseEnds, WorkStep
    <3> QED BY <1>0, <1>1, <2>0, <3>1, MovesQuietly
  <2> QED BY <1>8, <2>1, <2>2, <2>3, <2>4 DEF WorkerStep
<1>9. CASE CloseCalled
  BY <1>0, <1>1, <1>3, <1>9, MovesQuietly DEF CloseCalled
<1>10. CASE CloseAgain
  BY <1>0, <1>3, <1>10, SameListener DEF CloseAgain, LnCloseAgain
<1>11. CASE CloserStep
  <2>1. CASE CloseInListener
    BY <1>0, <1>1, <1>3, <2>1, MovesQuietly DEF CloseInListener
  <2>2. CASE ListenerClosed
    BY <1>0, <1>1, <1>3, <2>2, MovesQuietly DEF ListenerClosed
  <2>3. ASSUME NEW c \in Conns, CloseRange(c) PROVE ListenerInv'
    <3>1. c \in Tracked
      BY <1>0, <2>3 DEF CloseRange, CloserInv, ActiveAreTracked
    <3>2. PICK ch \in Chans : WorkerHas(ch, c)
      BY <3>1 DEF Tracked, WorkerHas, WithConn
    <3>3. connState[c] # "new"
      BY <1>0, <3>2 DEF PoolPlaces
    <3>4. ConnClose(Closer, c) /\ connState' = connState
      BY <1>3, <2>3 DEF CloseRange
    <3> QED BY <1>0, <1>1, <3>3, <3>4, ConnCloseListener
  <2>4. ASSUME NEW c \in Conns, CloseRangeFails(c) PROVE ListenerInv'
    BY <1>0, <1>3, <2>4, SameListener DEF CloseRangeFails, ConnCloseFails
  <2>5. CASE CloseCount
    BY <1>0, <1>1, <1>3, <2>5, DecConnsListener DEF CloseCount
  <2>6. CASE CloseDelete
    BY <1>0, <1>1, <1>3, <2>6, MovesQuietly DEF CloseDelete
  <2>7. CASE CloseReturns
    BY <1>0, <1>3, <2>7, SameListener DEF CloseReturns
  <2> QED BY <1>11, <2>1, <2>2, <2>3, <2>4, <2>5, <2>6, <2>7 DEF CloserStep
<1> QED BY <1>5, <1>6, <1>7, <1>8, <1>9, <1>10, <1>11 DEF Next

-----------------------------------------------------------------------------
\* A step that leaves the server's state, and what is tracked, as they were, and
\* opens no closed socket.
LEMMA SameCloser ==
    ASSUME CloserInv, UNCHANGED serverVars,
           gpc'[Closer] \in {"dec", "check"} => gpc[Closer] \in {"dec", "check"},
           \A c \in Conns : sock[c] = "closed" => sock'[c] = "closed",
           \A ch \in Chans :
              /\ wpc'[ch] \in {"handle", "untrack"} <=> wpc[ch] \in {"handle", "untrack"}
              /\ wpc[ch] \in {"handle", "untrack"} => wconn'[ch] = wconn[ch] /\ wconn[ch] \in Conns
    PROVE  CloserInv'
<1>1. Tracked' = Tracked /\ Tracked \subseteq Conns
  BY DEF Tracked
<1>2. ActiveAreTracked'
  BY <1>1 DEF CloserInv, ActiveAreTracked, serverVars
<1> QED BY <1>2 DEF CloserInv, serverVars

\* The part of Server.Close and of its table.
LEMMA StepCloser == SInv /\ Next => CloserInv'
<1> SUFFICES ASSUME SInv, Next PROVE CloserInv'
  OBVIOUS
<1>0. PoolPlaces /\ LnTypeOK /\ CloserInv
  BY DEF SInv, PoolInv, ListenerInv
<1>1. AcceptLoop \in Procs /\ Closer \in Procs /\ Chans \subseteq Procs
      /\ Closer # AcceptLoop /\ Closer \notin Chans
  BY GoroutinesAssumption
<1>2. /\ gpc \in [Procs -> {"out", "count", "dec", "check", "shutdown", "load", "select"}]
      /\ sock \in [Conns -> {"none", "open", "closed"}]
      /\ wpc \in [Chans -> WP!WorkerPC] /\ wconn \in [Chans -> Conns \cup {NoConn}]
  BY <1>0 DEF LnTypeOK, SInv, PoolInv, WP!TypeOK
<1>3. \A ch \in Chans : wpc[ch] \in {"handle", "untrack"} => wconn[ch] \in Conns
  BY <1>0 DEF PoolPlaces, WithConn
\* What the listener does for the other goroutines.
<1>4. ASSUME NEW p \in Procs, p # Closer,
             \/ CountConn(p) \/ DecConns(p) \/ CheckShutdown(p) \/ UNCHANGED lnVars
             \/ \E c \in Conns : InnerAccept(p, c) \/ ConnClose(p, c)
      PROVE  /\ gpc'[Closer] = gpc[Closer]
             /\ \A c \in Conns : sock[c] = "closed" => sock'[c] = "closed"
  <2>1. CASE \E c \in Conns : InnerAccept(p, c) \/ ConnClose(p, c)
    BY <1>1, <1>2, <1>4, <2>1 DEF InnerAccept, ConnClose, At
  <2>2. CASE CountConn(p) \/ DecConns(p) \/ CheckShutdown(p)
    BY <1>1, <1>2, <1>4, <2>2 DEF CountConn, DecConns, CheckShutdown, At
  <2>3. CASE UNCHANGED lnVars
    BY <2>3 DEF lnVars
  <2> QED BY <1>4, <2>1, <2>2, <2>3
\* What the pool does but for Track and Untrack.
<1>5. ASSUME UNCHANGED <<wpc, wconn>> \/ \E ch \in Chans : WP!Spawn(AcceptLoop, ch)
      PROVE  \A ch \in Chans :
                /\ wpc'[ch] \in {"handle", "untrack"} <=> wpc[ch] \in {"handle", "untrack"}
                /\ wpc[ch] \in {"handle", "untrack"} => wconn'[ch] = wconn[ch] /\ wconn[ch] \in Conns
  BY <1>2, <1>3, <1>5 DEF WP!Spawn
<1>6. ASSUME NEW w \in Chans, WorkStep(w), ~WP!Track(w), ~WP!Untrack(w)
      PROVE  \A ch \in Chans :
                /\ wpc'[ch] \in {"handle", "untrack"} <=> wpc[ch] \in {"handle", "untrack"}
                /\ wpc[ch] \in {"handle", "untrack"} => wconn'[ch] = wconn[ch] /\ wconn[ch] \in Conns
  BY <1>2, <1>3, <1>6 DEF WorkStep, WP!Arrive, WP!Recv, WP!Handle, WP!CloseConn, WP!Stamp, WP!Release, WP!Exit,
                          WP!Put, WP!Move
<1>7. ASSUME UNCHANGED wpVars PROVE UNCHANGED <<wpc, wconn>>
  BY <1>7 DEF wpVars
<1>8. CASE AcceptFails \/ AcceptLoopStep \/ \E c \in Conns : AcceptInner(c)
  <2>1. UNCHANGED serverVars
    BY <1>8 DEF AcceptFails, AcceptInner, AcceptLoopStep, StartPool, AcceptReturns, ServeOrStop,
                RefuseClose, RefuseCount, RefuseEnds
  <2>2. \/ CountConn(AcceptLoop) \/ DecConns(AcceptLoop) \/ CheckShutdown(AcceptLoop)
        \/ UNCHANGED lnVars \/ \E c \in Conns : InnerAccept(AcceptLoop, c) \/ ConnClose(AcceptLoop, c)
    <3>1. CASE RefuseClose
      BY <1>0, <3>1 DEF RefuseClose, PoolPlaces, InServe
    <3> QED BY <1>8, <3>1 DEF AcceptFails, AcceptInner, AcceptLoopStep, StartPool, AcceptReturns,
                              ServeOrStop, RefuseCount, RefuseEnds
  <2>3. UNCHANGED <<wpc, wconn>> \/ \E ch \in Chans : WP!Spawn(AcceptLoop, ch)
    BY <1>7, <1>8 DEF AcceptFails, AcceptInner, AcceptLoopStep, StartPool, AcceptReturns, ServeOrStop,
                      RefuseClose, RefuseCount, RefuseEnds, WP!Start, WP!Accept, WP!StopClose,
                      WP!GetChReady, WP!GetChCreate, WP!GetChNone, WP!Send, WP!Reject, WP!StopLock,
                      WP!StopSend, WP!StopUnlock, WP!workerVars
  <2>4. /\ gpc'[Closer] = gpc[Closer]
        /\ \A c \in Conns : sock[c] = "closed" => sock'[c] = "closed"
    BY <1>1, <1>4, <2>2
  <2> QED BY <1>0, <1>5, <2>1, <2>3, <2>4, SameCloser
<1>9. ASSUME NEW w \in Chans, WorkerStep(w) PROVE CloserInv'
  <2>1. CASE WorkerInner(w) \/ WorkerCloseFails(w) \/ WorkerClose(w) \/ WorkerCloseCount(w)
             \/ WorkerCloseEnds(w)
    <3>1. UNCHANGED serverVars
      BY <2>1 DEF WorkerInner, WorkerCloseFails, WorkerClose, WorkerCloseCount, WorkerCloseEnds
    <3>2. \/ CountConn(w) \/ DecConns(w) \/ CheckShutdown(w)
          \/ UNCHANGED lnVars \/ \E c \in Conns : InnerAccept(w, c) \/ ConnClose(w, c)
      <4>1. CASE WorkerClose(w)
        BY <1>0, <4>1 DEF WorkerClose, PoolPlaces, WithConn
      <4> QED BY <2>1, <4>1 DEF WorkerInner, WorkerCloseFails, ConnCloseFails, WorkerCloseCount,
                                WorkerCloseEnds
    <3>3. UNCHANGED <<wpc, wconn>> \/ (WorkStep(w) /\ ~WP!Track(w) /\ ~WP!Untrack(w))
      <4>1. CASE UNCHANGED wpVars
        BY <1>7, <4>1
      <4>2. ASSUME \/ WP!Arrive(w) \/ WP!Recv(w) \/ WP!Handle(w) \/ WP!Stamp(w) \/ WP!Release(w) \/ WP!Exit(w)
                   \/ WP!Put(w) \/ WP!CloseConn(w)
            PROVE  WorkStep(w) /\ wpc[w] \notin {"track", "untrack"}
        BY <4>2 DEF WorkStep, WP!Arrive, WP!Recv, WP!Handle, WP!Stamp, WP!Release, WP!Exit, WP!Put, WP!CloseConn,
                    WP!Move
      <4>3. WP!Track(w) \/ WP!Untrack(w) => wpc[w] \in {"track", "untrack"}
        BY DEF WP!Track, WP!Untrack, WP!Move
      <4> QED BY <2>1, <4>1, <4>2, <4>3 DEF WorkerInner, WorkerCloseFails, WorkerClose,
                                            WorkerCloseCount, WorkerCloseEnds
    <3>4. /\ gpc'[Closer] = gpc[Closer]
          /\ \A c \in Conns : sock[c] = "closed" => sock'[c] = "closed"
      BY <1>1, <1>4, <3>2
    <3> QED BY <1>0, <1>5, <1>6, <3>1, <3>3, <3>4, SameCloser
  <2>2. CASE Track(w)
    <3>1. /\ wpc[w] = "track" /\ wpc' = [wpc EXCEPT ![w] = "handle"]
          /\ activeConn' = activeConn \cup {wconn[w]}
          /\ UNCHANGED <<wconn, lnVars, spc, sconn>>
      BY <2>2 DEF Track, WP!Track, WP!Move
    <3>2. wconn[w] \in Conns
      BY <1>0, <3>1 DEF PoolPlaces, WithConn
    <3>3. \A ch \in Chans :
             wpc'[ch] \in {"handle", "untrack"} <=> (ch = w \/ wpc[ch] \in {"handle", "untrack"})
      BY <1>2, <3>1
    <3>4. Tracked' = Tracked \cup {wconn[w]}
      BY <3>1, <3>3 DEF Tracked
    <3>5. ActiveAreTracked'
      BY <1>0, <3>1, <3>4 DEF CloserInv, ActiveAreTracked, lnVars
    <3> QED BY <1>0, <3>1, <3>2, <3>5 DEF CloserInv, lnVars
  <2>3. CASE Untrack(w)
    <3>1. /\ wpc[w] = "untrack" /\ wpc' = [wpc EXCEPT ![w] = "close"]
          /\ activeConn' = activeConn \ {wconn[w]}
          /\ UNCHANGED <<wconn, lnVars, spc, sconn>>
      BY <2>3 DEF Untrack, WP!Untrack, WP!Move
    <3>2. PICK c \in Conns : c = wconn[w] /\ WorkerHas(w, c)
      BY <1>0, <3>1 DEF PoolPlaces, WorkerHas, WithConn
    <3>3. \A ch \in Chans : ch # w => ~WorkerHas(ch, c)
      BY <1>0, <3>2 DEF PoolPlaces
    <3>4. \A ch \in Chans :
             wpc'[ch] \in {"handle", "untrack"} <=> (ch # w /\ wpc[ch] \in {"handle", "untrack"})
      BY <1>2, <3>1
    <3>5. \A ch \in Chans : ch # w /\ wpc[ch] \in {"handle", "untrack"} => wconn[ch] # c
      BY <3>3 DEF WorkerHas, WithConn
    <3>6. Tracked' = Tracked \ {c}
      BY <3>1, <3>2, <3>4, <3>5 DEF Tracked
    <3>7. ActiveAreTracked'
      BY <1>0, <3>1, <3>2, <3>6 DEF CloserInv, ActiveAreTracked, lnVars
    <3> QED BY <1>0, <3>1, <3>7 DEF CloserInv, lnVars
  <2> QED BY <1>9, <2>1, <2>2, <2>3 DEF WorkerStep
<1>10. CASE CloseCalled \/ CloseAgain \/ CloserStep
  <2>0. UNCHANGED wpVars
    BY <1>10 DEF CloseCalled, CloseAgain, CloserStep, CloseInListener, ListenerClosed, CloseRange,
                 CloseRangeFails, CloseCount, CloseDelete, CloseReturns
  <2>1. Tracked' = Tracked /\ Tracked \subseteq Conns
    BY <1>3, <1>7, <2>0 DEF Tracked
  <2>2. CASE CloseInListener \/ CloseCount
    <3>1. UNCHANGED serverVars /\ sock' = sock
      BY <2>2 DEF CloseInListener, CloseCount, AddShutdown, SomeConns, DecConns
    <3>2. gpc'[Closer] \in {"dec", "check"} => gpc[Closer] \in {"dec", "check"}
      BY <1>1, <1>2, <2>2 DEF CloseInListener, CloseCount, AddShutdown, SomeConns, DecConns, At
    <3> QED BY <1>0, <1>5, <1>7, <2>0, <3>1, <3>2, SameCloser
  <2>3. CASE CloseCalled \/ CloseAgain \/ ListenerClosed \/ CloseReturns
    <3>1. UNCHANGED <<activeConn, sconn, sock>> /\ spc' \in {"listener", "range", "done"}
      BY <2>3 DEF CloseCalled, CloseAgain, ListenerClosed, CloseReturns, LnClose, LnCloseAgain, NoConns,
                  WaitDone, WaitTimeout, lnVars
    <3>2. gpc'[Closer] \notin {"dec", "check"}
      <4>1. CASE CloseReturns
        BY <1>0, <4>1 DEF CloseReturns, CloserInv, lnVars
      <4> QED BY <1>1, <1>2, <2>3, <4>1 DEF CloseCalled, CloseAgain, ListenerClosed, LnClose,
                                            LnCloseAgain, NoConns, WaitDone, WaitTimeout, At, lnVars
    <3>3. ActiveAreTracked'
      BY <1>0, <2>1, <3>1 DEF CloserInv, ActiveAreTracked
    <3> QED BY <1>0, <3>1, <3>2, <3>3 DEF CloserInv
  <2>4. ASSUME NEW c \in Conns, CloseRange(c) PROVE CloserInv'
    <3>1. /\ activeConn' = activeConn /\ spc' = "closing" /\ sconn' = c
          /\ sock' = [sock EXCEPT ![c] = "closed"]
      BY <2>4 DEF CloseRange, ConnClose
    <3>2. sock'[c] = "closed" /\ \A d \in Conns : sock[d] = "closed" => sock'[d] = "closed"
      BY <1>2, <3>1
    <3>3. ActiveAreTracked'
      BY <1>0, <2>1, <3>1, <3>2 DEF CloserInv, ActiveAreTracked
    <3> QED BY <1>0, <3>1, <3>2, <3>3 DEF CloserInv
  <2>5. ASSUME NEW c \in Conns, CloseRangeFails(c) PROVE CloserInv'
    <3>1. /\ activeConn' = activeConn \ {c} /\ sock[c] = "closed"
          /\ UNCHANGED <<spc, sconn, sock, gpc>>
      BY <2>5 DEF CloseRangeFails, ConnCloseFails, lnVars
    <3>2. ActiveAreTracked'
      BY <1>0, <2>1, <3>1 DEF CloserInv, ActiveAreTracked
    <3> QED BY <1>0, <3>1, <3>2 DEF CloserInv
  <2>6. CASE CloseDelete
    <3>1. /\ gpc[Closer] = "check" /\ gpc'[Closer] = "out"
          /\ activeConn' = activeConn \ {sconn} /\ sconn' = NoConn /\ spc' = "range" /\ sock' = sock
      BY <1>1, <1>2, <2>6 DEF CloseDelete, CheckShutdown, At
    <3>2. sconn \in Conns /\ sock[sconn] = "closed"
      BY <1>0, <3>1 DEF CloserInv
    <3>3. ActiveAreTracked'
      BY <1>0, <2>1, <3>1, <3>2 DEF CloserInv, ActiveAreTracked
    <3> QED BY <1>0, <3>1, <3>3 DEF CloserInv
  <2> QED BY <1>10, <2>2, <2>3, <2>4, <2>5, <2>6 DEF CloserStep
<1> QED BY <1>8, <1>9, <1>10 DEF Next

-----------------------------------------------------------------------------
\* Before the program has accepted anything.
LEMMA InitSInv == Init => SInv
<1> SUFFICES ASSUME Init PROVE SInv
  OBVIOUS
<1>1. AcceptLoop \in Procs /\ Closer \in Procs
  BY GoroutinesAssumption
<1>2. LnInit /\ WP!Init /\ activeConn = {} /\ spc = "idle" /\ sconn = NoConn
  BY DEF Init
<1>3. WP!TypeOK
  <2>1. idleFor \in [Chans -> 0 .. WP!LongIdle]
    BY <1>2 DEF WP!Init, WP!LongIdle
  <2>2. q \in [Chans -> Seq(Conns \cup {NoConn})] /\ ready \in Seq(Chans) /\ scratch \in Seq(Chans)
    BY <1>2 DEF WP!Init
  <2> QED BY <1>2, <2>1, <2>2 DEF WP!Init, WP!TypeOK, WP!WorkerPC, WP!CallerPC
<1>4. WorkersExact
  <2>1. WP!Workers = {} /\ WP!Creating = {} /\ workersCount = 0
    BY <1>2 DEF WP!Init, WP!Workers, WP!Creating
  <2> QED BY <2>1, FS_EmptySet DEF WorkersExact
<1>5. PoolPlaces
  <2>1. cpc[AcceptLoop] = "idle" /\ \A ch \in Chans : wpc[ch] = "free" /\ q[ch] = <<>>
    BY <1>2 DEF WP!Init
  <2>2. Len(<<>>) = 0
    BY EmptySeq
  <2>3. \A ch \in Chans : Len(q[ch]) <= 1
    BY <2>1, <2>2
  <2> QED BY <2>1, <2>3 DEF PoolPlaces, LoopHas, WorkerHas, Sent, InServe, WithConn
<1>6. LnTypeOK
  BY <1>2, ListenerFinite DEF LnInit, LnTypeOK
<1>7. CountMatchesSockets /\ ListenerCounted
  <2>1. Inside("count") = {} /\ Inside("dec") = {} /\ OpenSocks = {} /\ CountedSocks = {}
    BY <1>2 DEF LnInit, Inside, OpenSocks, CountedSocks
  <2>2. connsCount = 0
    BY <1>2 DEF LnInit
  <2> QED BY <2>1, <2>2, FS_EmptySet DEF CountMatchesSockets, ListenerCounted
<1>8. ListenerSound
  <2>1. /\ \A p \in Procs : gpc[p] = "out"
        /\ \A c \in Conns : connState[c] = "new"
    BY <1>2 DEF LnInit, WP!Init
  <2> QED BY <1>1, <2>1 DEF ListenerSound
<1>9. CloserInv
  <2>1. gpc[Closer] = "out" /\ Tracked = {}
    BY <1>1, <1>2 DEF LnInit, WP!Init, Tracked
  <2> QED BY <1>2, <2>1 DEF CloserInv, ActiveAreTracked
<1> QED BY <1>3, <1>4, <1>5, <1>6, <1>7, <1>8, <1>9 DEF SInv, PoolInv, ListenerInv

\* The pool, the listener and Server.Close keep their parts of the invariant in
\* every interleaving of the accept loop, the workers and the calls of Close.
THEOREM ServerInvariant == Spec => []SInv
<1>1. SInv /\ [Next]_vars => SInv'
  <2> SUFFICES ASSUME SInv, [Next]_vars PROVE SInv'
    OBVIOUS
  <2>1. CASE Next
    BY <2>1, StepPool, StepListener, StepCloser DEF SInv
  <2>2. CASE UNCHANGED vars
    <3>1. UNCHANGED wpVars /\ UNCHANGED lnVars /\ UNCHANGED serverVars
      BY <2>2 DEF vars
    <3>2. connState' = connState /\ UNCHANGED <<wpc, wconn, gpc, sock>>
      BY <3>1 DEF wpVars, lnVars
    <3>3. PoolInv' /\ ListenerInv'
      BY <3>1, <3>2, SamePool, SameListener DEF SInv
    <3>4. CloserInv'
      BY <3>1, <3>2 DEF SInv, CloserInv, ActiveAreTracked, Tracked, serverVars
    <3> QED BY <3>3, <3>4 DEF SInv
  <2> QED BY <2>1, <2>2
<1> QED BY <1>1, InitSInv, PTL DEF Spec

\* Every variable of the server, its listener and its pool keeps its type: neither
\* count is lowered below zero, and done is closed at most once too often.
THEOREM ServerTypeCorrect == Spec => []TypeOK
<1>1. SInv => TypeOK
  BY DEF SInv, PoolInv, ListenerInv, CloserInv, TypeOK
<1> QED BY <1>1, ServerInvariant, PTL

\* A connection is counted when it is accepted and counted down when it is closed,
\* once, although its worker and Server.Close may both close it.
THEOREM SocketsAreCounted == Spec => []CountMatchesSockets
<1>1. SInv => CountMatchesSockets
  BY DEF SInv, ListenerInv
<1> QED BY <1>1, ServerInvariant, PTL

\* activeConn is what the workers serve, but for what Close has closed.
THEOREM TableIsExact == Spec => []ActiveAreTracked
<1>1. SInv => ActiveAreTracked
  BY DEF SInv, CloserInv
<1> QED BY <1>1, ServerInvariant, PTL

-----------------------------------------------------------------------------
\* The pool inside the server is the pool of WorkerPool: whatever the listener and
\* Close do, each step of the server is a step of the pool or leaves it alone, so
\* that what is proved of the pool holds in the server.
THEOREM ServerRunsPool == Spec => WP!Spec
<1>1. Init => WP!Init
  BY DEF Init
<1>2. [Next]_vars => [WP!Next]_(WP!vars)
  <2> SUFFICES ASSUME [Next]_vars PROVE WP!Next \/ UNCHANGED WP!vars
    OBVIOUS
  <2>1. CASE UNCHANGED wpVars
    <3>1. UNCHANGED WP!vars
      BY <2>1 DEF wpVars, WP!vars, WP!poolVars, WP!workerVars, WP!callerVars, WP!cleanVars
    <3> QED BY <3>1
  <2>2. CASE UNCHANGED vars
    BY <2>1, <2>2 DEF vars
  <2>3. CASE AcceptFails \/ \E c \in Conns : AcceptInner(c)
    BY <2>1, <2>3 DEF AcceptFails, AcceptInner, WP!Next
  <2>4. CASE AcceptLoopStep
    BY <2>1, <2>4 DEF AcceptLoopStep, StartPool, AcceptReturns, ServeOrStop, RefuseClose, RefuseCount,
                      RefuseEnds, WP!Next, WP!CallerStep
  <2>5. ASSUME NEW ch \in Chans, WorkerStep(ch) PROVE WP!Next \/ UNCHANGED WP!vars
    <3>1. UNCHANGED wpVars \/ WP!WorkerStep(ch)
      BY <2>5 DEF WorkerStep, WorkerInner, Track, Untrack, WorkerCloseFails, WorkerClose,
                  WorkerCloseCount, WorkerCloseEnds, WP!WorkerStep
    <3> QED BY <2>1, <3>1 DEF WP!Next
  <2>6. CASE CloseCalled \/ CloseAgain \/ CloserStep
    BY <2>1, <2>6 DEF CloseCalled, CloseAgain, CloserStep, CloseInListener, ListenerClosed, CloseRange,
                      CloseRangeFails, CloseCount, CloseDelete, CloseReturns
  <2> QED BY <2>2, <2>3, <2>4, <2>5, <2>6 DEF Next
<1> QED BY <1>1, <1>2, PTL DEF Spec, WP!Spec
=============================================================================
