-------------------------- MODULE WorkerPoolProofs --------------------------
(***************************************************************************)
(* The safety of WorkerPool for any number of connections, workerChans and *)
(* callers, any MaxWorkersCount and either channel capacity.               *)
(*                                                                         *)
(* The type invariant is not inductive by itself: that workersCount is not *)
(* lowered below zero follows from CountExact, and that a caller sends on  *)
(* a workerChan from HeldOnce.  HeldOnce and HeldIffWaiting need each      *)
(* other: that a released worker is not already in ready is known because  *)
(* it was not waiting.                                                     *)
(*                                                                         *)
(* ConnLifecycle needs OnePlace besides: a connection has one goroutine or *)
(* is in one channel, and who has it says how far it has got.              *)
(***************************************************************************)
EXTENDS WorkerPool, BasicLemmas, FiniteSetTheorems

\* There is no cleaner before Start.
NoCleanerYet == stopCh = "nil" => kpc = "off"

\* The inductive invariant.
IInv == TypeOK /\ CountExact /\ HeldOnce /\ HeldIffWaiting /\ NoCleanerYet

USE MaxWorkersAssumption, TimeAssumption

\* The number of workers and of callers about to launch one is finite.
LEMMA FiniteCounts ==
    /\ IsFiniteSet(Workers) /\ IsFiniteSet(Creating)
    /\ Cardinality(Workers) \in Nat /\ Cardinality(Creating) \in Nat
<1>1. Workers \in SUBSET Chans /\ Creating \in SUBSET Callers
  BY DEF Workers, Creating
<1>2. IsFiniteSet(Workers) /\ IsFiniteSet(Creating)
  BY <1>1, ChansAssumption, FS_Subset
<1> QED BY <1>2, FS_CardinalityType

-----------------------------------------------------------------------------
\* The program starts with no worker, nothing idle and nothing counted.
LEMMA InitIInv == Init => IInv
<1> SUFFICES ASSUME Init PROVE IInv
  OBVIOUS
<1>1. TypeOK
  <2>1. idleFor \in [Chans -> 0 .. LongIdle]
    BY DEF Init, LongIdle
  <2>2. q \in [Chans -> Seq(Conns \cup {Nil})]
    BY DEF Init
  <2>3. ready \in Seq(Chans) /\ scratch \in Seq(Chans)
    BY DEF Init
  <2> QED BY <2>1, <2>2, <2>3 DEF Init, TypeOK, WorkerPC, CallerPC
<1>2. CountExact
  <2>1. Workers = {} /\ Creating = {}
    BY DEF Init, Workers, Creating
  <2> QED BY <2>1, FS_EmptySet DEF Init, CountExact
<1>3. HeldOnce
  BY EmptyList DEF Init, HeldOnce
<1>4. HeldIffWaiting
  BY EmptyList DEF Init, HeldIffWaiting, AtReceive, Held, InHand
<1>5. NoCleanerYet
  BY DEF Init, NoCleanerYet
<1> QED BY <1>1, <1>2, <1>3, <1>4, <1>5 DEF IInv

-----------------------------------------------------------------------------
\* A send leaves every channel a sequence of connections and nils.
LEMMA SendTyped ==
    ASSUME q \in [Chans -> Seq(Conns \cup {Nil})],
           NEW ch \in Chans, NEW v \in Conns \cup {Nil}, SendTo(ch, v)
    PROVE  q' \in [Chans -> Seq(Conns \cup {Nil})]
<1>1. q[ch] \in Seq(Conns \cup {Nil})
  OBVIOUS
<1>2. Append(q[ch], v) \in Seq(Conns \cup {Nil})
  BY <1>1, AppendProperties
<1>3. q' = [q EXCEPT ![ch] = Append(q[ch], v)]
  BY DEF SendTo
<1> QED BY <1>2, <1>3

\* A step keeps the types.
LEMMA StepTypeOK == IInv /\ Next => TypeOK'
<1> SUFFICES ASSUME IInv, Next PROVE TypeOK'
  OBVIOUS
<1> USE DEF TypeOK, WorkerPC, CallerPC
<1>0. TypeOK /\ CountExact /\ HeldOnce
  BY DEF IInv
<1>1. CASE Tick
  <2>1. idleFor' \in [Chans -> 0 .. LongIdle]
    BY <1>0, <1>1 DEF Tick, LongIdle
  <2> QED BY <1>0, <1>1, <2>1 DEF Tick, poolVars, workerVars, callerVars, cleanVars
<1>2. CASE Start
  BY <1>0, <1>2 DEF Start, workerVars, callerVars
<1>3. ASSUME NEW a \in Callers, NEW c \in Conns, Accept(a, c) PROVE TypeOK'
  BY <1>0, <1>3 DEF Accept, poolVars, workerVars, cleanVars
<1>4. ASSUME NEW a \in Callers, StopClose(a) PROVE TypeOK'
  BY <1>0, <1>4 DEF StopClose, workerVars, cleanVars
<1>5. ASSUME NEW a \in Callers, CallerStep(a) PROVE TypeOK'
  <2>1. CASE GetChReady(a)
    <3>1. Front(ready) \in Seq(Chans) /\ Last(ready) \in Chans
      BY <1>0, <2>1, FrontList DEF GetChReady, HeldOnce
    <3> QED BY <1>0, <2>1, <3>1 DEF GetChReady, workerVars, cleanVars
  <2>2. CASE GetChCreate(a)
    BY <1>0, <2>2 DEF GetChCreate, workerVars, cleanVars
  <2>3. CASE GetChNone(a)
    BY <1>0, <2>3 DEF GetChNone, poolVars, workerVars, cleanVars
  <2>4. ASSUME NEW ch \in Chans, Spawn(a, ch) PROVE TypeOK'
    BY <1>0, <2>4 DEF Spawn, poolVars, cleanVars
  <2>5. CASE Send(a)
    <3>1. cch[a] \in Chans
      BY <1>0, <2>5 DEF Send, HeldOnce
    <3>2. q' \in [Chans -> Seq(Conns \cup {Nil})]
      BY <1>0, <2>5, <3>1, SendTyped DEF Send
    <3> QED BY <1>0, <2>5, <3>2 DEF Send, poolVars, workerVars, cleanVars
  <2>6. CASE Reject(a)
    BY <1>0, <2>6 DEF Reject, poolVars, workerVars, cleanVars
  <2>7. CASE StopSend(a)
    <3>1. Head(ready) \in Chans /\ Tail(ready) \in Seq(Chans)
      BY <1>0, <2>7 DEF StopSend
    <3>2. q' \in [Chans -> Seq(Conns \cup {Nil})]
      BY <1>0, <2>7, <3>1, SendTyped DEF StopSend
    <3>3. ready' \in Seq(Chans)
      BY <2>7, <3>1 DEF StopSend
    <3>4. /\ UNCHANGED <<workerChanCap, workersCount, mustStop, stopCh, idleFor, wpc, wconn>>
          /\ UNCHANGED <<cpc, cconn, cch, kpc, scratch, connState>>
      BY <2>7 DEF StopSend, workerVars, callerVars, cleanVars
    <3> QED BY <1>0, <3>2, <3>3, <3>4
  <2>8. CASE StopUnlock(a)
    BY <1>0, <2>8 DEF StopUnlock, workerVars, cleanVars
  <2>9. CASE StopLock(a)
    BY <1>0, <2>9 DEF StopLock, poolVars, workerVars, cleanVars
  <2> QED BY <1>5, <2>1, <2>2, <2>3, <2>4, <2>5, <2>6, <2>7, <2>8, <2>9 DEF CallerStep
<1>6. ASSUME NEW ch \in Chans, WorkerStep(ch) PROVE TypeOK'
  <2>1. CASE Recv(ch)
    <3>1. Head(q[ch]) \in Conns \cup {Nil} /\ Tail(q[ch]) \in Seq(Conns \cup {Nil})
      BY <1>0, <2>1 DEF Recv
    <3>2. idleFor' \in [Chans -> 0 .. LongIdle]
      BY <1>0, <2>1 DEF Recv, LongIdle
    <3> QED BY <1>0, <2>1, <3>1, <3>2 DEF Recv, poolVars, callerVars, cleanVars
  <2>2. CASE Track(ch)
    BY <1>0, <2>2 DEF Track, Move, poolVars, callerVars, cleanVars
  <2>3. CASE Handle(ch)
    BY <1>0, <2>3 DEF Handle, Move, poolVars, callerVars, cleanVars
  <2>4. CASE Untrack(ch)
    BY <1>0, <2>4 DEF Untrack, Move, poolVars, callerVars, cleanVars
  <2>5. CASE CloseConn(ch)
    BY <1>0, <2>5 DEF CloseConn, Move, poolVars, callerVars, cleanVars
  <2>6. CASE Stamp(ch)
    <3>1. idleFor' \in [Chans -> 0 .. LongIdle]
      BY <1>0, <2>6 DEF Stamp, LongIdle
    <3> QED BY <1>0, <2>6, <3>1 DEF Stamp, Move, poolVars, callerVars, cleanVars
  <2>7. CASE Release(ch)
    <3>0. /\ ready' = ready \/ ready' = Append(ready, ch)
          /\ \/ wpc' = [wpc EXCEPT ![ch] = "exit"]
             \/ wpc' = [wpc EXCEPT ![ch] = "loop"]
      BY <2>7, Zenon DEF Release
    <3>1. ready' \in Seq(Chans)
      <4>1. ready \in Seq(Chans)
        BY <1>0
      <4>2. Append(ready, ch) \in Seq(Chans)
        BY <4>1, AppendProperties
      <4> QED BY <3>0, <4>1, <4>2
    <3>2. wpc' \in [Chans -> WorkerPC]
      BY <1>0, <3>0
    <3>3. /\ UNCHANGED <<workerChanCap, workersCount, mustStop, stopCh, q, idleFor,
                         wconn, connState>>
          /\ UNCHANGED <<cpc, cconn, cch, kpc, scratch>>
      BY <2>7 DEF Release, callerVars, cleanVars
    <3> QED BY <1>0, <3>1, <3>2, <3>3
  <2>8. CASE Exit(ch)
    <3>1. ch \in Workers
      BY <2>8 DEF Exit, Move, Workers
    <3>2. workersCount # 0
      BY <1>0, <3>1, FiniteCounts, FS_EmptySet DEF CountExact
    <3> QED BY <1>0, <2>8, <3>2 DEF Exit, Move, callerVars, cleanVars
  <2>9. CASE Put(ch)
    BY <1>0, <2>9 DEF Put, Move, poolVars, callerVars, cleanVars
  <2>10. CASE Arrive(ch)
    BY <1>0, <2>10 DEF Arrive, Move, poolVars, callerVars, cleanVars
  <2> QED BY <1>6, <2>1, <2>2, <2>3, <2>4, <2>5, <2>6, <2>7, <2>8, <2>9, <2>10 DEF WorkerStep
<1>7. CASE CleanStep
  <2>1. CASE CleanScan
    <3>1. PICK i \in 0 .. Len(ready) :
             /\ scratch' = SubSeq(ready, 1, i)
             /\ ready' = SubSeq(ready, i + 1, Len(ready))
      BY <2>1 DEF CleanScan
    <3>2. scratch' \in Seq(Chans) /\ ready' \in Seq(Chans)
      BY <1>0, <3>1, SplitList DEF HeldOnce
    <3> QED BY <1>0, <2>1, <3>2 DEF CleanScan, workerVars, callerVars
  <2>2. CASE CleanSend
    <3>1. Head(scratch) \in Chans /\ Tail(scratch) \in Seq(Chans)
      BY <1>0, <2>2 DEF CleanSend
    <3>2. q' \in [Chans -> Seq(Conns \cup {Nil})]
      BY <1>0, <2>2, <3>1, SendTyped DEF CleanSend
    <3> QED BY <1>0, <2>2, <3>1, <3>2 DEF CleanSend, poolVars, workerVars, callerVars
  <2>3. CASE CleanDone
    BY <1>0, <2>3 DEF CleanDone, poolVars, workerVars, callerVars
  <2>4. CASE CleanCheck
    BY <1>0, <2>4 DEF CleanCheck, poolVars, workerVars, callerVars
  <2>5. CASE CleanWake
    BY <1>0, <2>5 DEF CleanWake, poolVars, workerVars, callerVars
  <2> QED BY <1>7, <2>1, <2>2, <2>3, <2>4, <2>5 DEF CleanStep
<1> QED BY <1>1, <1>2, <1>3, <1>4, <1>5, <1>6, <1>7 DEF Next

-----------------------------------------------------------------------------
\* A step that leaves the count, the workers and the callers about to launch one
\* keeps CountExact.
LEMMA SameCount ==
    ASSUME CountExact, workersCount' = workersCount, Workers' = Workers,
           Creating' = Creating
    PROVE  CountExact'
  BY DEF CountExact

\* A step keeps workersCount exact.
LEMMA StepCountExact == IInv /\ Next => CountExact'
<1> SUFFICES ASSUME IInv, Next PROVE CountExact'
  OBVIOUS
<1>0. TypeOK /\ CountExact
  BY DEF IInv
<1> USE DEF TypeOK, Workers, Creating
<1>1. CASE Tick
  BY <1>0, <1>1, SameCount DEF Tick, poolVars, workerVars, callerVars
<1>2. CASE Start
  BY <1>0, <1>2, SameCount DEF Start, workerVars, callerVars
<1>3. ASSUME NEW a \in Callers, NEW c \in Conns, Accept(a, c) PROVE CountExact'
  <2>1. Creating' = Creating
    BY <1>0, <1>3 DEF Accept
  <2> QED BY <1>0, <1>3, <2>1, SameCount DEF Accept, poolVars, workerVars
<1>4. ASSUME NEW a \in Callers, StopClose(a) PROVE CountExact'
  <2>1. Creating' = Creating
    BY <1>0, <1>4 DEF StopClose
  <2> QED BY <1>0, <1>4, <2>1, SameCount DEF StopClose, workerVars
<1>5. ASSUME NEW a \in Callers, CallerStep(a) PROVE CountExact'
  <2>1. CASE GetChReady(a)
    <3>1. Creating' = Creating
      BY <1>0, <2>1 DEF GetChReady
    <3> QED BY <1>0, <2>1, <3>1, SameCount DEF GetChReady, workerVars
  <2>2. CASE GetChCreate(a)
    <3>1. Creating' = Creating \cup {a} /\ a \notin Creating
      BY <1>0, <2>2 DEF GetChCreate
    <3>2. Workers' = Workers
      BY <2>2 DEF GetChCreate, workerVars
    <3>3. Cardinality(Creating') = Cardinality(Creating) + 1
      BY <3>1, FiniteCounts, FS_AddElement
    <3>4. workersCount' = workersCount + 1 /\ workersCount < MaxWorkersCount
      BY <2>2 DEF GetChCreate
    <3> HIDE DEF Workers, Creating
    <3>5. workersCount' <= MaxWorkersCount
      BY <1>0, <3>4
    <3>6. workersCount' = Cardinality(Workers') + Cardinality(Creating')
      BY <1>0, <3>2, <3>3, <3>4, FiniteCounts DEF CountExact
    <3> QED BY <3>5, <3>6 DEF CountExact
  <2>3. CASE GetChNone(a)
    <3>1. Creating' = Creating
      BY <1>0, <2>3 DEF GetChNone
    <3> QED BY <1>0, <2>3, <3>1, SameCount DEF GetChNone, poolVars, workerVars
  <2>4. ASSUME NEW ch \in Chans, Spawn(a, ch) PROVE CountExact'
    <3>1. Creating' = Creating \ {a} /\ a \in Creating
      BY <1>0, <2>4 DEF Spawn
    <3>2. Workers' = Workers \cup {ch} /\ ch \notin Workers
      BY <1>0, <2>4 DEF Spawn
    <3>3. Cardinality(Creating') = Cardinality(Creating) - 1
      BY <3>1, FiniteCounts, FS_RemoveElement
    <3>4. Cardinality(Workers') = Cardinality(Workers) + 1
      BY <3>2, FiniteCounts, FS_AddElement
    <3>5. workersCount' = workersCount
      BY <2>4 DEF Spawn, poolVars
    <3> HIDE DEF Workers, Creating
    <3>6. Cardinality(Workers') + Cardinality(Creating')
             = Cardinality(Workers) + Cardinality(Creating)
      BY <3>3, <3>4, FiniteCounts
    <3> QED BY <1>0, <3>5, <3>6 DEF CountExact
  <2>5. CASE Send(a)
    <3>1. Creating' = Creating
      BY <1>0, <2>5 DEF Send
    <3> QED BY <1>0, <2>5, <3>1, SameCount DEF Send, poolVars, workerVars
  <2>6. CASE Reject(a)
    <3>1. Creating' = Creating
      BY <1>0, <2>6 DEF Reject
    <3> QED BY <1>0, <2>6, <3>1, SameCount DEF Reject, poolVars, workerVars
  <2>7. CASE StopSend(a)
    BY <1>0, <2>7, SameCount DEF StopSend, workerVars, callerVars
  <2>8. CASE StopUnlock(a)
    <3>1. Creating' = Creating
      BY <1>0, <2>8 DEF StopUnlock
    <3> QED BY <1>0, <2>8, <3>1, SameCount DEF StopUnlock, workerVars
  <2>9. CASE StopLock(a)
    <3>1. Creating' = Creating
      BY <1>0, <2>9 DEF StopLock
    <3> QED BY <1>0, <2>9, <3>1, SameCount DEF StopLock, poolVars, workerVars
  <2> QED BY <1>5, <2>1, <2>2, <2>3, <2>4, <2>5, <2>6, <2>7, <2>8, <2>9 DEF CallerStep
<1>6. ASSUME NEW ch \in Chans, WorkerStep(ch) PROVE CountExact'
  <2>1. CASE Exit(ch)
    <3>1. Workers' = Workers \ {ch} /\ ch \in Workers
      BY <1>0, <2>1 DEF Exit, Move
    <3>2. Cardinality(Workers') = Cardinality(Workers) - 1
      BY <3>1, FiniteCounts, FS_RemoveElement
    <3>3. Creating' = Creating /\ workersCount' = workersCount - 1
      BY <2>1 DEF Exit, callerVars
    <3>4. workersCount \in Nat /\ Cardinality(Workers) \in Nat /\ Cardinality(Creating) \in Nat
      BY <1>0, FiniteCounts
    <3> HIDE DEF Workers, Creating, TypeOK
    <3>5. /\ workersCount = Cardinality(Workers) + Cardinality(Creating)
          /\ workersCount <= MaxWorkersCount
      BY <1>0 DEF CountExact
    <3>6. /\ workersCount' = Cardinality(Workers') + Cardinality(Creating')
          /\ workersCount' <= MaxWorkersCount
      BY <3>2, <3>3, <3>4, <3>5
    <3> QED BY <3>6 DEF CountExact
  <2>2. CASE ~Exit(ch)
    <3>1. Workers' = Workers
      BY <1>0, <1>6, <2>2 DEF WorkerStep, Arrive, Recv, Track, Handle, Untrack, CloseConn,
                              Stamp, Release, Put, Move
    <3>2. workersCount' = workersCount /\ UNCHANGED callerVars
      BY <1>6, <2>2 DEF WorkerStep, Arrive, Recv, Track, Handle, Untrack, CloseConn,
                        Stamp, Release, Put, poolVars
    <3> QED BY <1>0, <3>1, <3>2, SameCount DEF callerVars
  <2> QED BY <2>1, <2>2
<1>7. CASE CleanStep
  <2>1. UNCHANGED <<workersCount, workerVars, callerVars>>
    BY <1>7 DEF CleanStep, CleanScan, CleanSend, CleanDone, CleanCheck, CleanWake,
                poolVars
  <2> QED BY <1>0, <2>1, SameCount DEF workerVars, callerVars
<1> QED BY <1>1, <1>2, <1>3, <1>4, <1>5, <1>6, <1>7 DEF Next

-----------------------------------------------------------------------------
\* A step keeps NoCleanerYet: the cleaner's steps need a cleaner.
LEMMA StepNoCleanerYet == IInv /\ Next => NoCleanerYet'
<1> SUFFICES ASSUME IInv, Next, stopCh' = "nil" PROVE kpc' = "off"
  BY DEF NoCleanerYet
<1>1. CASE stopCh = "nil" /\ kpc' = kpc
  BY <1>1 DEF IInv, NoCleanerYet
<1>2. CASE Tick
  BY <1>1, <1>2 DEF Tick, poolVars, cleanVars
<1>3. CASE Start
  BY <1>3 DEF Start
<1>4. ASSUME NEW a \in Callers, NEW c \in Conns, Accept(a, c) PROVE kpc' = "off"
  BY <1>1, <1>4 DEF Accept, poolVars, cleanVars
<1>5. ASSUME NEW a \in Callers, StopClose(a) PROVE kpc' = "off"
  BY <1>5 DEF StopClose
<1>6. ASSUME NEW a \in Callers, CallerStep(a) PROVE kpc' = "off"
  BY <1>1, <1>6 DEF CallerStep, GetChReady, GetChCreate, GetChNone, Spawn, Send, Reject,
                    StopLock, StopSend, StopUnlock, poolVars, cleanVars
<1>7. ASSUME NEW ch \in Chans, WorkerStep(ch) PROVE kpc' = "off"
  BY <1>1, <1>7 DEF WorkerStep, Arrive, Recv, Track, Handle, Untrack, CloseConn, Stamp, Release,
                    Exit, Put, poolVars, cleanVars
<1>8. CASE CleanStep
  <2>1. stopCh' = stopCh /\ kpc # "off"
    BY <1>8 DEF CleanStep, CleanScan, CleanSend, CleanDone, CleanCheck, CleanWake, poolVars
  <2> QED BY <2>1 DEF IInv, NoCleanerYet
<1> QED BY <1>2, <1>3, <1>4, <1>5, <1>6, <1>7, <1>8 DEF Next

-----------------------------------------------------------------------------
\* What the steps that move no worker between holders leave alone.
LEMMA SameHolders ==
    ASSUME HeldOnce, HeldIffWaiting,
           ready' = ready, scratch' = scratch, q' = q, cch' = cch,
           kpc' # "send" => scratch' = <<>>,
           \A a \in Callers : cpc'[a] = "send" <=> cpc[a] = "send",
           \A ch \in Chans : AtReceive(ch)' <=> AtReceive(ch)
    PROVE  HeldOnce' /\ HeldIffWaiting'
<1>1. HeldOnce'
  BY DEF HeldOnce
<1>2. \A ch \in Chans : InHand(ch)' <=> InHand(ch)
  BY DEF InHand
<1>3. HeldIffWaiting'
  BY <1>2 DEF HeldIffWaiting, AtReceive, Held
<1> QED BY <1>1, <1>3

\* getCh hands out the worker that was released last.
LEMMA GetChReadyHeld ==
    ASSUME TypeOK, HeldOnce, HeldIffWaiting, NEW a \in Callers, GetChReady(a)
    PROVE  HeldOnce' /\ HeldIffWaiting'
<1> DEFINE w == Last(ready)
<1>1. /\ w \in Chans
      /\ IsInjective(ready')
      /\ \A y : Contains(ready, y) <=> Contains(ready', y) \/ y = w
      /\ ~Contains(ready', w)
  BY FrontList DEF GetChReady, HeldOnce, TypeOK
<1>2. /\ cpc' = [cpc EXCEPT ![a] = "send"] /\ cch' = [cch EXCEPT ![a] = w]
      /\ cpc[a] = "getCh"
      /\ UNCHANGED <<wpc, q, scratch, kpc>>
  BY DEF GetChReady, workerVars, cleanVars
<1>3. cpc \in [Callers -> CallerPC] /\ cch \in [Callers -> Chans \cup {Nil}]
  BY DEF TypeOK
<1> HIDE DEF w
<1>4. ~Contains(scratch, w) /\ ~InHand(w)
  BY <1>1 DEF HeldOnce, InHand
<1>5. HeldOnce'
  <2>1. \A ch \in Chans : ~(Contains(ready', ch) /\ Contains(scratch', ch))
    BY <1>1, <1>2 DEF HeldOnce
  <2>2. ASSUME NEW b \in Callers, cpc'[b] = "send"
        PROVE  /\ cch'[b] \in Chans
               /\ ~Contains(ready', cch'[b])
               /\ ~Contains(scratch', cch'[b])
               /\ \A d \in Callers : cpc'[d] = "send" /\ cch'[d] = cch'[b] => d = b
    <3>1. CASE b = a
      BY <1>1, <1>2, <1>3, <1>4, <3>1 DEF InHand
    <3>2. CASE b # a
      BY <1>1, <1>2, <1>3, <1>4, <2>2, <3>2 DEF InHand, HeldOnce
    <3> QED BY <3>1, <3>2
  <2> QED BY <1>1, <1>2, <2>1, <2>2 DEF HeldOnce
<1>6. \A ch \in Chans : InHand(ch)' <=> InHand(ch) \/ ch = w
  BY <1>2, <1>3 DEF InHand
<1>7. HeldIffWaiting'
  BY <1>1, <1>2, <1>6 DEF HeldIffWaiting, AtReceive, Held
<1> QED BY <1>5, <1>7

\* getCh launches a worker for the caller alone.
LEMMA SpawnHeld ==
    ASSUME TypeOK, HeldOnce, HeldIffWaiting, NEW a \in Callers, NEW w \in Chans,
           Spawn(a, w)
    PROVE  HeldOnce' /\ HeldIffWaiting'
<1>1. /\ cpc' = [cpc EXCEPT ![a] = "send"] /\ cch' = [cch EXCEPT ![a] = w]
      /\ cpc[a] = "create" /\ wpc[w] = "free"
      /\ wpc' = [wpc EXCEPT ![w] = "loop"]
      /\ UNCHANGED <<q, ready, scratch, kpc>>
  BY DEF Spawn, poolVars, cleanVars
<1>2. /\ cpc \in [Callers -> CallerPC] /\ cch \in [Callers -> Chans \cup {Nil}]
      /\ wpc \in [Chans -> WorkerPC]
  BY DEF TypeOK
<1>3. ~Contains(ready, w) /\ ~Contains(scratch, w) /\ ~InHand(w) /\ q[w] = <<>>
  BY <1>1 DEF HeldIffWaiting, AtReceive, Held
<1>4. HeldOnce'
  <2>1. ASSUME NEW b \in Callers, cpc'[b] = "send"
        PROVE  /\ cch'[b] \in Chans
               /\ ~Contains(ready', cch'[b])
               /\ ~Contains(scratch', cch'[b])
               /\ \A d \in Callers : cpc'[d] = "send" /\ cch'[d] = cch'[b] => d = b
    <3>1. CASE b = a
      BY <1>1, <1>2, <1>3, <3>1 DEF InHand
    <3>2. CASE b # a
      BY <1>1, <1>2, <1>3, <2>1, <3>2 DEF InHand, HeldOnce
    <3> QED BY <3>1, <3>2
  <2> QED BY <1>1, <2>1 DEF HeldOnce
<1>5. \A ch \in Chans : InHand(ch)' <=> InHand(ch) \/ ch = w
  BY <1>1, <1>2 DEF InHand
<1>6. HeldIffWaiting'
  BY <1>1, <1>2, <1>3, <1>5 DEF HeldIffWaiting, AtReceive, Held
<1> QED BY <1>4, <1>6

\* A send to a worker, by whoever held it: the value is its first.
LEMMA SendToFills ==
    ASSUME TypeOK, HeldIffWaiting, NEW w \in Chans, NEW v \in Conns \cup {Nil},
           SendTo(w, v)
    PROVE  /\ q'[w] # <<>> /\ Len(q'[w]) = 1
           /\ \A ch \in Chans \ {w} : q'[ch] = q[ch]
<1>1. q[w] = <<>> /\ q' = [q EXCEPT ![w] = Append(@, v)]
  BY DEF SendTo, CanSend
<1>2. q \in [Chans -> Seq(Conns \cup {Nil})]
  BY DEF TypeOK
<1>3. q'[w] = <<v>>
  BY <1>1, <1>2
<1> QED BY <1>1, <1>2, <1>3

\* A worker that was sent something is no longer held, and no longer waits.
LEMMA SentHeld ==
    ASSUME HeldIffWaiting, NEW w \in Chans, AtReceive(w), wpc' = wpc,
           q'[w] # <<>>, Len(q'[w]) = 1,
           \A ch \in Chans \ {w} : q'[ch] = q[ch],
           \A ch \in Chans : Held(ch)' <=> Held(ch) /\ ch # w
    PROVE  HeldIffWaiting'
<1>1. ASSUME NEW ch \in Chans
      PROVE  /\ Held(ch)' <=> (AtReceive(ch)' /\ q'[ch] = <<>>)
             /\ ~AtReceive(ch)' => q'[ch] = <<>>
             /\ Len(q'[ch]) <= 1
  <2>1. CASE ch = w
    <3>1. Len(q'[ch]) <= 1
      <4>1. Len(q'[ch]) = 1
        BY <2>1, Zenon
      <4> QED BY <4>1
    <3>2. ~Held(ch)'
      BY <2>1
    <3> QED BY <2>1, <3>1, <3>2 DEF AtReceive
  <2>2. CASE ch # w
    BY <2>2 DEF HeldIffWaiting, AtReceive
  <2> QED BY <2>1, <2>2
<1> QED BY <1>1 DEF HeldIffWaiting, AtReceive

\* Serve gives the worker up with its send.
LEMMA SendHeld ==
    ASSUME TypeOK, HeldOnce, HeldIffWaiting, NEW a \in Callers, Send(a)
    PROVE  HeldOnce' /\ HeldIffWaiting'
<1> DEFINE w == cch[a]
<1>1. /\ cpc[a] = "send"
      /\ cpc' = [cpc EXCEPT ![a] = "idle"] /\ cch' = [cch EXCEPT ![a] = Nil]
      /\ UNCHANGED <<wpc, ready, scratch, kpc>>
  BY DEF Send, poolVars, workerVars, cleanVars
<1>2. /\ cpc \in [Callers -> CallerPC] /\ cch \in [Callers -> Chans \cup {Nil}]
      /\ cconn[a] \in Conns \cup {Nil}
  BY DEF TypeOK
<1>3. /\ w \in Chans /\ InHand(w)
      /\ ~Contains(ready, w) /\ ~Contains(scratch, w)
      /\ \A b \in Callers : cpc[b] = "send" /\ cch[b] = w => b = a
  BY <1>1 DEF HeldOnce, InHand
<1>4. /\ q'[w] # <<>> /\ Len(q'[w]) = 1
      /\ \A ch \in Chans \ {w} : q'[ch] = q[ch]
  BY <1>2, <1>3, SendToFills DEF Send
<1>5. AtReceive(w)
  BY <1>3 DEF HeldIffWaiting, AtReceive, Held
<1> HIDE DEF w
<1>6. \A b \in Callers : cpc'[b] = "send" <=> cpc[b] = "send" /\ b # a
  BY <1>1, <1>2
<1>7. \A b \in Callers \ {a} : cch'[b] = cch[b]
  BY <1>1, <1>2
<1>8. HeldOnce'
  BY <1>1, <1>6, <1>7 DEF HeldOnce
<1>9. \A ch \in Chans : InHand(ch)' <=> InHand(ch) /\ ch # w
  BY <1>3, <1>6, <1>7 DEF InHand, w
<1>10. HeldIffWaiting'
  BY <1>1, <1>3, <1>4, <1>5, <1>9, SentHeld DEF Held
<1> QED BY <1>8, <1>10

\* Stop gives the first idle worker its nil.
LEMMA StopSendHeld ==
    ASSUME TypeOK, HeldOnce, HeldIffWaiting, NEW a \in Callers, StopSend(a)
    PROVE  HeldOnce' /\ HeldIffWaiting'
<1> DEFINE w == Head(ready)
<1>1. /\ w \in Chans
      /\ IsInjective(ready')
      /\ \A y : Contains(ready, y) <=> Contains(ready', y) \/ y = w
      /\ ~Contains(ready', w)
  BY TailList DEF StopSend, HeldOnce, TypeOK
<1>2. UNCHANGED <<wpc, cpc, cch, scratch, kpc>>
  BY DEF StopSend, workerVars, callerVars, cleanVars
<1>3. /\ q'[w] # <<>> /\ Len(q'[w]) = 1
      /\ \A ch \in Chans \ {w} : q'[ch] = q[ch]
  BY <1>1, SendToFills DEF StopSend
<1> HIDE DEF w
<1>4. AtReceive(w) /\ ~Contains(scratch, w) /\ ~InHand(w)
  BY <1>1 DEF HeldIffWaiting, AtReceive, Held, HeldOnce, InHand
<1>5. HeldOnce'
  BY <1>1, <1>2 DEF HeldOnce
<1>6. \A ch \in Chans : InHand(ch)' <=> InHand(ch)
  BY <1>2 DEF InHand
<1>7. HeldIffWaiting'
  BY <1>1, <1>2, <1>3, <1>4, <1>6, SentHeld DEF Held
<1> QED BY <1>5, <1>7

\* clean gives the first obsolete worker its nil.
LEMMA CleanSendHeld ==
    ASSUME TypeOK, HeldOnce, HeldIffWaiting, CleanSend
    PROVE  HeldOnce' /\ HeldIffWaiting'
<1> DEFINE w == Head(scratch)
<1>1. /\ w \in Chans
      /\ IsInjective(scratch')
      /\ \A y : Contains(scratch, y) <=> Contains(scratch', y) \/ y = w
      /\ ~Contains(scratch', w)
  BY TailList DEF CleanSend, HeldOnce, TypeOK
<1>2. kpc = "send" /\ UNCHANGED <<wpc, cpc, cch, ready, kpc>>
  BY DEF CleanSend, poolVars, workerVars, callerVars
<1>3. /\ q'[w] # <<>> /\ Len(q'[w]) = 1
      /\ \A ch \in Chans \ {w} : q'[ch] = q[ch]
  BY <1>1, SendToFills DEF CleanSend
<1> HIDE DEF w
<1>4. AtReceive(w) /\ ~Contains(ready, w) /\ ~InHand(w)
  BY <1>1 DEF HeldIffWaiting, AtReceive, Held, HeldOnce, InHand
<1>5. HeldOnce'
  BY <1>1, <1>2 DEF HeldOnce
<1>6. \A ch \in Chans : InHand(ch)' <=> InHand(ch)
  BY <1>2 DEF InHand
<1>7. HeldIffWaiting'
  BY <1>1, <1>2, <1>3, <1>4, <1>6, SentHeld DEF Held
<1> QED BY <1>5, <1>7

\* A worker takes what it was sent: it is held by nobody, and its channel is
\* empty again.
LEMMA RecvHeld ==
    ASSUME TypeOK, HeldOnce, HeldIffWaiting, NEW w \in Chans, Recv(w)
    PROVE  HeldOnce' /\ HeldIffWaiting'
<1>1. /\ wpc[w] = "recv" /\ q[w] # <<>>
      /\ q' = [q EXCEPT ![w] = Tail(@)]
      /\ UNCHANGED <<cpc, cch, ready, scratch, kpc>>
  BY DEF Recv, poolVars, callerVars, cleanVars
<1>2. /\ wpc'[w] \notin {"loop", "recv"}
      /\ \A ch \in Chans \ {w} : wpc'[ch] = wpc[ch]
  BY DEF Recv, TypeOK
<1>3. ~Held(w)
  BY <1>1 DEF HeldIffWaiting, AtReceive
<1>4. q'[w] = <<>> /\ \A ch \in Chans \ {w} : q'[ch] = q[ch]
  <2>1. q \in [Chans -> Seq(Conns \cup {Nil})]
    BY DEF TypeOK
  <2>2. Len(q[w]) <= 1
    BY DEF HeldIffWaiting, AtReceive
  <2>3. Tail(q[w]) \in Seq(Conns \cup {Nil}) /\ Len(Tail(q[w])) = 0
    <3>1. q[w] \in Seq(Conns \cup {Nil})
      BY <2>1
    <3>2. Len(q[w]) \in Nat /\ Len(q[w]) # 0
      BY <1>1, <3>1, LenProperties, EmptySeq
    <3>3. Len(q[w]) = 1
      <4> DEFINE n == Len(q[w])
      <4>1. n <= 1 /\ n \in Nat /\ n # 0
        BY <2>2, <3>2
      <4> HIDE DEF n
      <4>2. n = 1
        BY <4>1
      <4> QED BY <4>2 DEF n
    <3> QED BY <1>1, <3>1, <3>3, HeadTailProperties
  <2>4. Tail(q[w]) = <<>>
    BY <2>3, EmptySeq
  <2> QED BY <1>1, <2>1, <2>4
<1>5. HeldOnce'
  BY <1>1 DEF HeldOnce
<1>6. \A ch \in Chans : Held(ch)' <=> Held(ch)
  BY <1>1 DEF Held, InHand
<1>7. ASSUME NEW ch \in Chans
      PROVE  /\ Held(ch)' <=> (AtReceive(ch)' /\ q'[ch] = <<>>)
             /\ ~AtReceive(ch)' => q'[ch] = <<>>
             /\ Len(q'[ch]) <= 1
  <2>1. CASE ch = w
    BY <1>2, <1>3, <1>4, <1>6, <2>1 DEF AtReceive
  <2>2. CASE ch # w
    BY <1>2, <1>4, <1>6, <2>2 DEF HeldIffWaiting, AtReceive
  <2> QED BY <2>1, <2>2
<1> QED BY <1>5, <1>7 DEF HeldIffWaiting, AtReceive

\* A worker that releases itself was held by nobody and is now in ready, unless
\* the pool is stopped.
LEMMA ReleaseHeld ==
    ASSUME TypeOK, HeldOnce, HeldIffWaiting, NEW w \in Chans, Release(w)
    PROVE  HeldOnce' /\ HeldIffWaiting'
<1>1. /\ wpc[w] = "release"
      /\ UNCHANGED <<q, cpc, cch, scratch, kpc>>
  BY DEF Release, callerVars, cleanVars
<1>2. \/ wpc' = [wpc EXCEPT ![w] = "exit"] /\ ready' = ready
      \/ wpc' = [wpc EXCEPT ![w] = "loop"] /\ ready' = Append(ready, w)
  BY Zenon DEF Release
<1>3. wpc \in [Chans -> WorkerPC] /\ ready \in Seq(Chans)
  BY DEF TypeOK
<1>4. ~Held(w) /\ q[w] = <<>>
  BY <1>1 DEF HeldIffWaiting, AtReceive
<1>5. CASE wpc' = [wpc EXCEPT ![w] = "exit"] /\ ready' = ready
  <2>1. \A ch \in Chans : AtReceive(ch)' <=> AtReceive(ch)
    BY <1>1, <1>3, <1>5 DEF AtReceive
  <2> QED BY <1>1, <1>5, <2>1, SameHolders DEF HeldOnce
<1>6. CASE wpc' = [wpc EXCEPT ![w] = "loop"] /\ ready' = Append(ready, w)
  <2>1. /\ IsInjective(ready')
        /\ \A y : Contains(ready', y) <=> Contains(ready, y) \/ y = w
    BY <1>3, <1>4, <1>6, AppendList DEF HeldOnce, Held
  <2>2. HeldOnce'
    <3>1. \A ch \in Chans : ~(Contains(ready', ch) /\ Contains(scratch', ch))
      BY <1>1, <1>4, <2>1 DEF HeldOnce, Held
    <3>2. \A b \in Callers : cpc[b] = "send" => ~Contains(ready', cch[b])
      BY <1>4, <2>1 DEF HeldOnce, Held, InHand
    <3> QED BY <1>1, <2>1, <3>1, <3>2 DEF HeldOnce
  <2>3. \A ch \in Chans : Held(ch)' <=> Held(ch) \/ ch = w
    BY <1>1, <2>1 DEF Held, InHand
  <2>4. HeldIffWaiting'
    BY <1>1, <1>3, <1>4, <1>6, <2>3 DEF HeldIffWaiting, AtReceive
  <2> QED BY <2>2, <2>4
<1> QED BY <1>2, <1>5, <1>6

\* clean moves the expired workers from ready to scratch.
LEMMA CleanScanHeld ==
    ASSUME TypeOK, HeldOnce, HeldIffWaiting, CleanScan
    PROVE  HeldOnce' /\ HeldIffWaiting'
<1>1. PICK i \in 0 .. Len(ready) :
         /\ scratch' = SubSeq(ready, 1, i)
         /\ ready' = SubSeq(ready, i + 1, Len(ready))
  BY DEF CleanScan
<1>2. kpc = "scan" /\ kpc' = "send" /\ UNCHANGED <<q, wpc, cpc, cch>>
  BY DEF CleanScan, workerVars, callerVars
<1>3. ready \in Seq(Chans) /\ IsInjective(ready)
  BY DEF TypeOK, HeldOnce
<1>4. /\ IsInjective(scratch') /\ IsInjective(ready')
      /\ \A y : Contains(ready, y) <=> Contains(scratch', y) \/ Contains(ready', y)
      /\ \A y : ~(Contains(scratch', y) /\ Contains(ready', y))
  BY <1>1, <1>3, SplitList
<1>5. \A y : ~Contains(scratch, y)
  BY <1>2, EmptyList DEF HeldOnce
<1>6. HeldOnce'
  BY <1>2, <1>4 DEF HeldOnce
<1>7. \A ch \in Chans : Held(ch)' <=> Held(ch)
  BY <1>2, <1>4, <1>5 DEF Held, InHand
<1>8. HeldIffWaiting'
  BY <1>2, <1>7 DEF HeldIffWaiting, AtReceive
<1> QED BY <1>6, <1>8

-----------------------------------------------------------------------------
\* A step keeps every worker with one holder.
LEMMA StepHeld == IInv /\ Next => HeldOnce' /\ HeldIffWaiting'
<1> SUFFICES ASSUME IInv, Next PROVE HeldOnce' /\ HeldIffWaiting'
  OBVIOUS
<1>0. TypeOK /\ HeldOnce /\ HeldIffWaiting /\ NoCleanerYet
  BY DEF IInv
<1>1. /\ cpc \in [Callers -> CallerPC] /\ wpc \in [Chans -> WorkerPC]
      /\ kpc # "send" => scratch = <<>>
  BY <1>0 DEF TypeOK, HeldOnce
<1>2. CASE Tick
  BY <1>0, <1>1, <1>2, SameHolders DEF AtReceive, Tick, poolVars, workerVars, callerVars, cleanVars
<1>3. CASE Start
  BY <1>0, <1>1, <1>3, SameHolders DEF AtReceive, Start, NoCleanerYet, workerVars, callerVars
<1>4. ASSUME NEW a \in Callers, NEW c \in Conns, Accept(a, c)
      PROVE  HeldOnce' /\ HeldIffWaiting'
  BY <1>0, <1>1, <1>4, SameHolders DEF AtReceive, Accept, poolVars, workerVars, cleanVars
<1>5. ASSUME NEW a \in Callers, StopClose(a)
      PROVE  HeldOnce' /\ HeldIffWaiting'
  BY <1>0, <1>1, <1>5, SameHolders DEF AtReceive, StopClose, workerVars, cleanVars
<1>6. ASSUME NEW a \in Callers, CallerStep(a)
      PROVE  HeldOnce' /\ HeldIffWaiting'
  <2>1. CASE GetChReady(a)
    BY <1>0, <2>1, GetChReadyHeld
  <2>2. CASE GetChCreate(a)
    BY <1>0, <1>1, <2>2, SameHolders DEF AtReceive, GetChCreate, workerVars, cleanVars
  <2>3. CASE GetChNone(a)
    BY <1>0, <1>1, <2>3, SameHolders DEF AtReceive, GetChNone, poolVars, workerVars, cleanVars
  <2>4. ASSUME NEW ch \in Chans, Spawn(a, ch) PROVE HeldOnce' /\ HeldIffWaiting'
    BY <1>0, <2>4, SpawnHeld
  <2>5. CASE Send(a)
    BY <1>0, <2>5, SendHeld
  <2>6. CASE Reject(a)
    BY <1>0, <1>1, <2>6, SameHolders DEF AtReceive, Reject, poolVars, workerVars, cleanVars
  <2>7. CASE StopSend(a)
    BY <1>0, <2>7, StopSendHeld
  <2>8. CASE StopUnlock(a)
    BY <1>0, <1>1, <2>8, SameHolders DEF AtReceive, StopUnlock, workerVars, cleanVars
  <2>9. CASE StopLock(a)
    BY <1>0, <1>1, <2>9, SameHolders DEF AtReceive, StopLock, poolVars, workerVars, cleanVars
  <2> QED BY <1>6, <2>1, <2>2, <2>3, <2>4, <2>5, <2>6, <2>7, <2>8, <2>9 DEF CallerStep
<1>7. ASSUME NEW ch \in Chans, WorkerStep(ch)
      PROVE  HeldOnce' /\ HeldIffWaiting'
  <2>1. CASE Recv(ch)
    BY <1>0, <2>1, RecvHeld
  <2>2. CASE Release(ch)
    BY <1>0, <2>2, ReleaseHeld
  <2>3. CASE Arrive(ch) \/ Track(ch) \/ Handle(ch) \/ Untrack(ch) \/ CloseConn(ch) \/ Stamp(ch)
                \/ Exit(ch) \/ Put(ch)
    <3>1. \A w \in Chans : AtReceive(w)' <=> AtReceive(w)
      BY <1>1, <2>3 DEF AtReceive, Arrive, Track, Handle, Untrack, CloseConn, Stamp, Exit, Put, Move
    <3>2. UNCHANGED <<ready, q, callerVars, cleanVars>>
      BY <2>3 DEF Arrive, Track, Handle, Untrack, CloseConn, Stamp, Exit, Put, poolVars
    <3> QED BY <1>0, <1>1, <3>1, <3>2, SameHolders DEF AtReceive, callerVars, cleanVars
  <2> QED BY <1>7, <2>1, <2>2, <2>3 DEF WorkerStep
<1>8. CASE CleanStep
  <2>1. CASE CleanScan
    BY <1>0, <2>1, CleanScanHeld
  <2>2. CASE CleanSend
    BY <1>0, <2>2, CleanSendHeld
  <2>3. CASE CleanDone \/ CleanCheck \/ CleanWake
    BY <1>0, <1>1, <2>3, SameHolders DEF AtReceive, CleanDone, CleanCheck, CleanWake, poolVars,
                                         workerVars, callerVars
  <2> QED BY <1>8, <2>1, <2>2, <2>3 DEF CleanStep
<1> QED BY <1>2, <1>3, <1>4, <1>5, <1>6, <1>7, <1>8 DEF Next

-----------------------------------------------------------------------------
\* The invariant holds in every reachable state of the pool.
THEOREM Invariance == Spec => []IInv
<1>1. Init => IInv
  BY InitIInv
<1>2. IInv /\ [Next]_vars => IInv'
  <2> SUFFICES ASSUME IInv, [Next]_vars PROVE IInv'
    OBVIOUS
  <2>1. CASE Next
    BY <2>1, StepTypeOK, StepCountExact, StepHeld, StepNoCleanerYet DEF IInv
  <2>2. CASE UNCHANGED vars
    BY <2>2 DEF vars, poolVars, workerVars, callerVars, cleanVars, IInv, TypeOK,
                CountExact, Workers, Creating, HeldOnce, HeldIffWaiting, AtReceive, Held, InHand,
                NoCleanerYet
  <2> QED BY <2>1, <2>2
<1> QED BY <1>1, <1>2, PTL DEF Spec

\* Type correctness; in particular workersCount is never negative and no caller
\* sends on a nil workerChan.
THEOREM TypeCorrect == Spec => []TypeOK
<1>1. IInv => TypeOK
  BY DEF IInv
<1> QED BY <1>1, Invariance, PTL

\* workersCount is the number of workers, never more than MaxWorkersCount,
\* whatever getCh, clean, Stop and the workers' ends interleave.
THEOREM WorkersCounted == Spec => []CountExact
<1>1. IInv => CountExact
  BY DEF IInv
<1> QED BY <1>1, Invariance, PTL

\* No worker is handed to two senders, told to stop while it is handed out, or
\* forgotten.
THEOREM OneHolderEach == Spec => []SoleHolder
<1>1. IInv => SoleHolder
  BY DEF IInv, SoleHolder
<1> QED BY <1>1, Invariance, PTL

\* Serve, clean and Stop never wait in a send behind a handler, a lock or another
\* value: with capacity 1 the send goes through at once, with capacity 0 it waits at
\* most for a worker that is on its way to its receive.  So Stop, which sends under
\* wp.lock, waits for nobody that needs that lock.
THEOREM SendersMeetWorkers == Spec => []SenderMeetsWorker
<1>1. IInv => SenderMeetsWorker
  <2> SUFFICES ASSUME IInv PROVE SenderMeetsWorker
    OBVIOUS
  <2>1. \A ch \in Chans : Held(ch) => Meets(ch)
    BY DEF IInv, TypeOK, HeldIffWaiting, AtReceive, CanSend, Meets
  <2>2. ASSUME NEW a \in Callers, cpc[a] = "send" PROVE Meets(cch[a])
    BY <2>1, <2>2 DEF IInv, HeldOnce, Held, InHand
  <2>3. ASSUME ready # <<>> PROVE Meets(Head(ready))
    BY <2>1, <2>3, TailList DEF IInv, TypeOK, HeldOnce, Held
  <2>4. ASSUME scratch # <<>> PROVE Meets(Head(scratch))
    BY <2>1, <2>4, TailList DEF IInv, TypeOK, HeldOnce, Held
  <2> QED BY <2>2, <2>3, <2>4 DEF SenderMeetsWorker
<1> QED BY <1>1, Invariance, PTL

-----------------------------------------------------------------------------
\* The goroutines that have a connection: a caller inside Serve, a worker from its
\* receive to its c.Close().
Serving == {"getCh", "create", "send", "reject"}
CallerHas(a, c) == cpc[a] \in Serving /\ cconn[a] = c
WorkerHas(ch, c) == wpc[ch] \in {"track", "handle", "untrack", "close"} /\ wconn[ch] = c

\* An accepted connection is in one place, a caller, a channel or a worker, until
\* it is closed; where it is says what has been done with it.
OnePlace ==
    /\ \A a \in Callers : cpc[a] \in Serving => cconn[a] \in Conns
    /\ \A ch \in Chans : wpc[ch] \in {"track", "handle", "untrack", "close"} => wconn[ch] \in Conns
    /\ \A c \in Conns :
          /\ \A a \in Callers : CallerHas(a, c) =>
                /\ connState[c] = "accepted"
                /\ \A b \in Callers \ {a} : ~CallerHas(b, c)
                /\ \A ch \in Chans : ~Contains(q[ch], c) /\ ~WorkerHas(ch, c)
          /\ \A ch \in Chans : Contains(q[ch], c) =>
                /\ connState[c] = "accepted"
                /\ \A w \in Chans \ {ch} : ~Contains(q[w], c)
                /\ \A w \in Chans : ~WorkerHas(w, c)
          /\ \A ch \in Chans : WorkerHas(ch, c) =>
                /\ connState[c] = IF wpc[ch] \in {"track", "handle"} THEN "accepted" ELSE "served"
                /\ \A w \in Chans \ {ch} : ~WorkerHas(w, c)

\* What the steps that move no connection leave alone.
LEMMA SamePlaces ==
    ASSUME OnePlace, connState' = connState,
           \A a \in Callers : (cpc'[a] \in Serving <=> cpc[a] \in Serving) /\ cconn'[a] = cconn[a],
           \A ch \in Chans, c \in Conns : Contains(q'[ch], c) <=> Contains(q[ch], c),
           \A ch \in Chans : wconn'[ch] = wconn[ch],
           \A ch \in Chans, pcs \in {{"track", "handle"}, {"untrack", "close"}} :
              wpc'[ch] \in pcs <=> wpc[ch] \in pcs
    PROVE  OnePlace'
<1>1. \A ch \in Chans :
        /\ wpc'[ch] \in {"track", "handle"} <=> wpc[ch] \in {"track", "handle"}
        /\ wpc'[ch] \in {"untrack", "close"} <=> wpc[ch] \in {"untrack", "close"}
  OBVIOUS
<1>2. \A ch \in Chans :
        wpc'[ch] \in {"track", "handle", "untrack", "close"}
           <=> wpc[ch] \in {"track", "handle", "untrack", "close"}
  BY <1>1
<1>3. \A a \in Callers, c \in Conns : CallerHas(a, c)' <=> CallerHas(a, c)
  BY DEF CallerHas
<1>4. \A ch \in Chans, c \in Conns : WorkerHas(ch, c)' <=> WorkerHas(ch, c)
  BY <1>2 DEF WorkerHas
<1> QED BY <1>1, <1>2, <1>3, <1>4 DEF OnePlace

\* A nil that is sent is no connection.
LEMMA NilSent ==
    ASSUME TypeOK, NEW w \in Chans, SendTo(w, Nil)
    PROVE  \A ch \in Chans, c \in Conns : Contains(q'[ch], c) <=> Contains(q[ch], c)
<1>1. q[w] = <<>> /\ q' = [q EXCEPT ![w] = Append(q[w], Nil)] /\ q \in [Chans -> Seq(Conns \cup {Nil})]
  BY DEF SendTo, CanSend, TypeOK
<1>2. q'[w] = <<Nil>> /\ \A ch \in Chans \ {w} : q'[ch] = q[ch]
  BY <1>1
<1>3. \A c \in Conns : ~Contains(q'[w], c) /\ ~Contains(q[w], c)
  BY <1>1, <1>2, NilAssumption DEF Contains
<1> QED BY <1>2, <1>3

\* A connection is accepted: it was nowhere.
LEMMA AcceptPlaces ==
    ASSUME TypeOK, OnePlace, NEW a \in Callers, NEW d \in Conns, Accept(a, d)
    PROVE  OnePlace'
<1>1. /\ cpc[a] = "idle" /\ connState[d] = "new" /\ connState' = [connState EXCEPT ![d] = "accepted"]
      /\ cconn' = [cconn EXCEPT ![a] = d] /\ cpc' = [cpc EXCEPT ![a] = "getCh"]
      /\ UNCHANGED <<q, wpc, wconn>>
  BY DEF Accept, workerVars
<1>2. /\ cpc'[a] = "getCh" /\ cconn'[a] = d /\ connState'[d] = "accepted"
      /\ \A b \in Callers \ {a} : cpc'[b] = cpc[b] /\ cconn'[b] = cconn[b]
      /\ \A c \in Conns \ {d} : connState'[c] = connState[c]
  BY <1>1 DEF TypeOK
<1>3. /\ \A c \in Conns : CallerHas(a, c)' <=> c = d
      /\ \A b \in Callers \ {a}, c \in Conns : CallerHas(b, c)' <=> CallerHas(b, c)
      /\ \A c \in Conns : ~CallerHas(a, c)
      /\ \A ch \in Chans, c \in Conns : WorkerHas(ch, c)' <=> WorkerHas(ch, c)
  BY <1>1, <1>2 DEF CallerHas, WorkerHas, Serving
<1>4. /\ \A b \in Callers : ~CallerHas(b, d)
      /\ \A ch \in Chans : ~Contains(q[ch], d) /\ ~WorkerHas(ch, d)
  BY <1>1 DEF OnePlace
<1> QED BY <1>1, <1>2, <1>3, <1>4 DEF OnePlace

\* Serve sends its connection, from the caller to the channel.
LEMMA SendPlaces ==
    ASSUME TypeOK, HeldOnce, OnePlace, NEW a \in Callers, Send(a)
    PROVE  OnePlace'
<1> DEFINE w == cch[a]
           d == cconn[a]
<1>1. /\ cpc[a] = "send" /\ q[w] = <<>> /\ q' = [q EXCEPT ![w] = Append(q[w], d)]
      /\ cpc' = [cpc EXCEPT ![a] = "idle"]
      /\ cconn' = [cconn EXCEPT ![a] = Nil] /\ UNCHANGED <<wpc, wconn, connState>>
  BY DEF Send, SendTo, CanSend, workerVars
<1>2. w \in Chans /\ d \in Conns /\ CallerHas(a, d)
  BY <1>1 DEF HeldOnce, OnePlace, CallerHas, Serving
<1>3. \A c \in Conns : CallerHas(a, c) => c = d
  BY DEF CallerHas
<1> HIDE DEF w, d
<1>4. q'[w] = <<d>> /\ \A ch \in Chans \ {w} : q'[ch] = q[ch]
  BY <1>1, <1>2 DEF TypeOK
<1>5. /\ \A c \in Conns : (Contains(q'[w], c) <=> c = d) /\ ~Contains(q[w], c)
      /\ \A ch \in Chans \ {w}, c \in Conns : Contains(q'[ch], c) <=> Contains(q[ch], c)
  BY <1>1, <1>4 DEF Contains
<1>6. /\ cpc'[a] = "idle"
      /\ \A b \in Callers \ {a} : cpc'[b] = cpc[b] /\ cconn'[b] = cconn[b]
  BY <1>1 DEF TypeOK
<1>7. /\ \A c \in Conns : ~CallerHas(a, c)'
      /\ \A b \in Callers \ {a}, c \in Conns : CallerHas(b, c)' <=> CallerHas(b, c)
      /\ \A ch \in Chans, c \in Conns : WorkerHas(ch, c)' <=> WorkerHas(ch, c)
  BY <1>1, <1>6 DEF CallerHas, WorkerHas, Serving
<1>8. /\ connState[d] = "accepted" /\ \A b \in Callers \ {a} : ~CallerHas(b, d)
      /\ \A ch \in Chans : ~Contains(q[ch], d) /\ ~WorkerHas(ch, d)
  BY <1>2 DEF OnePlace
<1>9. /\ \A b \in Callers : cpc'[b] \in Serving => cconn'[b] \in Conns
      /\ \A ch \in Chans :
            wpc'[ch] \in {"track", "handle", "untrack", "close"} => wconn'[ch] \in Conns
  BY <1>1, <1>6 DEF OnePlace, Serving
<1>10. ASSUME NEW c \in Conns
       PROVE  /\ \A b \in Callers : CallerHas(b, c)' =>
                    /\ connState'[c] = "accepted"
                    /\ \A e \in Callers \ {b} : ~CallerHas(e, c)'
                    /\ \A ch \in Chans : ~Contains(q'[ch], c) /\ ~WorkerHas(ch, c)'
              /\ \A ch \in Chans : Contains(q'[ch], c) =>
                    /\ connState'[c] = "accepted"
                    /\ \A v \in Chans \ {ch} : ~Contains(q'[v], c)
                    /\ \A v \in Chans : ~WorkerHas(v, c)'
              /\ \A ch \in Chans : WorkerHas(ch, c)' =>
                    /\ connState'[c] = IF wpc'[ch] \in {"track", "handle"} THEN "accepted" ELSE "served"
                    /\ \A v \in Chans \ {ch} : ~WorkerHas(v, c)'
  <2>1. CASE c = d
    BY <1>1, <1>2, <1>5, <1>7, <1>8, <2>1
  <2>2. CASE c # d
    BY <1>1, <1>2, <1>5, <1>7, <2>2 DEF OnePlace
  <2> QED BY <2>1, <2>2
<1> QED BY <1>9, <1>10 DEF OnePlace

\* Serve returned false, and the accept loop has closed the connection.
LEMMA RejectPlaces ==
    ASSUME TypeOK, OnePlace, NEW a \in Callers, Reject(a)
    PROVE  OnePlace'
<1> DEFINE d == cconn[a]
<1>1. /\ cpc[a] = "reject" /\ connState' = [connState EXCEPT ![d] = "closed"]
      /\ cpc' = [cpc EXCEPT ![a] = "idle"] /\ cconn' = [cconn EXCEPT ![a] = Nil]
      /\ UNCHANGED <<q, wpc, wconn>>
  BY DEF Reject, workerVars
<1>2. d \in Conns /\ CallerHas(a, d) /\ \A c \in Conns : CallerHas(a, c) => c = d
  BY <1>1 DEF OnePlace, CallerHas, Serving
<1> HIDE DEF d
<1>3. /\ cpc'[a] = "idle"
      /\ \A b \in Callers \ {a} : cpc'[b] = cpc[b] /\ cconn'[b] = cconn[b]
      /\ \A c \in Conns \ {d} : connState'[c] = connState[c]
  BY <1>1 DEF TypeOK
<1>4. /\ \A c \in Conns : ~CallerHas(a, c)'
      /\ \A b \in Callers \ {a}, c \in Conns : CallerHas(b, c)' <=> CallerHas(b, c)
      /\ \A ch \in Chans, c \in Conns : WorkerHas(ch, c)' <=> WorkerHas(ch, c)
  BY <1>1, <1>3 DEF CallerHas, WorkerHas, Serving
<1>5. /\ \A b \in Callers \ {a} : ~CallerHas(b, d)
      /\ \A ch \in Chans : ~Contains(q[ch], d) /\ ~WorkerHas(ch, d)
  BY <1>2 DEF OnePlace
<1> QED BY <1>1, <1>2, <1>3, <1>4, <1>5 DEF OnePlace, Serving

\* A worker receives its connection, from its channel.
LEMMA RecvPlaces ==
    ASSUME TypeOK, HeldIffWaiting, OnePlace, NEW w \in Chans, Recv(w)
    PROVE  OnePlace'
<1> DEFINE d == Head(q[w])
<1>1. /\ wpc[w] = "recv" /\ q[w] # <<>> /\ q' = [q EXCEPT ![w] = Tail(q[w])]
      /\ wconn' = [wconn EXCEPT ![w] = d]
      /\ wpc' = [wpc EXCEPT ![w] = IF d = Nil THEN "exit" ELSE "track"]
      /\ UNCHANGED <<cpc, cconn, connState>>
  BY DEF Recv, callerVars, TypeOK
<1>2. /\ q[w] \in Seq(Conns \cup {Nil}) /\ Len(q[w]) = 1 /\ d = q[w][1] /\ d \in Conns \cup {Nil}
      /\ Tail(q[w]) = <<>>
  <2>1. q[w] \in Seq(Conns \cup {Nil})
    BY DEF TypeOK
  <2> DEFINE n == Len(q[w])
  <2>2. n <= 1 /\ n \in Nat /\ n # 0
    BY <1>1, <2>1, LenProperties, EmptySeq DEF HeldIffWaiting
  <2> HIDE DEF n
  <2>3. n = 1
    BY <2>2
  <2>4. Tail(q[w]) \in Seq(Conns \cup {Nil}) /\ Len(Tail(q[w])) = 0
    BY <1>1, <2>1, <2>3, HeadTailProperties DEF n
  <2>5. Tail(q[w]) = <<>>
    BY <2>4, EmptySeq
  <2> QED BY <1>1, <2>1, <2>3, <2>5, HeadTailProperties DEF n
<1> HIDE DEF d
<1>3. /\ q'[w] = <<>> /\ wconn'[w] = d /\ wpc'[w] = (IF d = Nil THEN "exit" ELSE "track")
      /\ \A ch \in Chans \ {w} : q'[ch] = q[ch] /\ wconn'[ch] = wconn[ch] /\ wpc'[ch] = wpc[ch]
  BY <1>1, <1>2 DEF TypeOK
<1>4. /\ \A c : Contains(q[w], c) <=> c = d
      /\ \A c : ~Contains(q'[w], c)
  BY <1>2, <1>3, EmptyList DEF Contains
<1>5. /\ \A a \in Callers, c \in Conns : CallerHas(a, c)' <=> CallerHas(a, c)
      /\ \A ch \in Chans \ {w}, c \in Conns : WorkerHas(ch, c)' <=> WorkerHas(ch, c)
      /\ \A c \in Conns : (WorkerHas(w, c)' <=> c = d) /\ ~WorkerHas(w, c)
  BY <1>1, <1>3, NilAssumption DEF CallerHas, WorkerHas
<1>6. /\ \A b \in Callers : cpc'[b] \in Serving => cconn'[b] \in Conns
      /\ \A ch \in Chans :
            wpc'[ch] \in {"track", "handle", "untrack", "close"} => wconn'[ch] \in Conns
  BY <1>1, <1>2, <1>3 DEF OnePlace
<1>7. ASSUME NEW c \in Conns
      PROVE  /\ \A b \in Callers : CallerHas(b, c)' =>
                   /\ connState'[c] = "accepted"
                   /\ \A e \in Callers \ {b} : ~CallerHas(e, c)'
                   /\ \A ch \in Chans : ~Contains(q'[ch], c) /\ ~WorkerHas(ch, c)'
             /\ \A ch \in Chans : Contains(q'[ch], c) =>
                   /\ connState'[c] = "accepted"
                   /\ \A v \in Chans \ {ch} : ~Contains(q'[v], c)
                   /\ \A v \in Chans : ~WorkerHas(v, c)'
             /\ \A ch \in Chans : WorkerHas(ch, c)' =>
                   /\ connState'[c] = IF wpc'[ch] \in {"track", "handle"} THEN "accepted" ELSE "served"
                   /\ \A v \in Chans \ {ch} : ~WorkerHas(v, c)'
  <2>1. CASE c = d
    <3>1. /\ connState[c] = "accepted" /\ \A v \in Chans \ {w} : ~Contains(q[v], c)
          /\ \A v \in Chans : ~WorkerHas(v, c) /\ \A b \in Callers : ~CallerHas(b, c)
      BY <1>4, <2>1 DEF OnePlace
    <3>2. wpc'[w] = "track"
      BY <1>3, <2>1, NilAssumption
    <3> QED BY <1>1, <1>3, <1>4, <1>5, <2>1, <3>1, <3>2
  <2>2. CASE c # d
    <3>1. \A ch \in Chans : Contains(q'[ch], c) <=> Contains(q[ch], c)
      BY <1>3, <1>4, <2>2
    <3>2. \A ch \in Chans : WorkerHas(ch, c)' <=> WorkerHas(ch, c)
      BY <1>5, <2>2
    <3>3. \A ch \in Chans : WorkerHas(ch, c) => wpc'[ch] = wpc[ch]
      BY <1>3, <1>5
    <3> QED BY <1>1, <1>5, <3>1, <3>2, <3>3 DEF OnePlace
  <2> QED BY <2>1, <2>2
<1> QED BY <1>6, <1>7 DEF OnePlace

\* The handler returns.
LEMMA HandlePlaces ==
    ASSUME TypeOK, OnePlace, NEW w \in Chans, Handle(w)
    PROVE  OnePlace'
<1> DEFINE d == wconn[w]
<1>1. /\ wpc[w] = "handle" /\ connState' = [connState EXCEPT ![d] = "served"]
      /\ wpc' = [wpc EXCEPT ![w] = "untrack"] /\ UNCHANGED <<cpc, cconn, q, wconn>>
  BY DEF Handle, Move, callerVars
<1>2. d \in Conns /\ WorkerHas(w, d) /\ \A c \in Conns : WorkerHas(w, c) => c = d
  BY <1>1 DEF OnePlace, WorkerHas
<1> HIDE DEF d
<1>3. /\ wpc'[w] = "untrack" /\ connState'[d] = "served"
      /\ \A ch \in Chans \ {w} : wpc'[ch] = wpc[ch]
      /\ \A c \in Conns \ {d} : connState'[c] = connState[c]
  BY <1>1, <1>2 DEF TypeOK
<1>4. /\ \A a \in Callers, c \in Conns : CallerHas(a, c)' <=> CallerHas(a, c)
      /\ \A ch \in Chans, c \in Conns : WorkerHas(ch, c)' <=> WorkerHas(ch, c)
  BY <1>1, <1>3 DEF CallerHas, WorkerHas
<1>5. /\ \A v \in Chans \ {w} : ~WorkerHas(v, d)
      /\ \A v \in Chans : ~Contains(q[v], d) /\ \A b \in Callers : ~CallerHas(b, d)
  BY <1>2 DEF OnePlace
<1> QED BY <1>1, <1>2, <1>3, <1>4, <1>5 DEF OnePlace

\* The worker closes its connection.
LEMMA CloseConnPlaces ==
    ASSUME TypeOK, OnePlace, NEW w \in Chans, CloseConn(w)
    PROVE  OnePlace'
<1> DEFINE d == wconn[w]
<1>1. /\ wpc[w] = "close" /\ connState' = [connState EXCEPT ![d] = "closed"]
      /\ wpc' = [wpc EXCEPT ![w] = "stamp"] /\ wconn' = [wconn EXCEPT ![w] = Nil]
      /\ UNCHANGED <<cpc, cconn, q>>
  BY DEF CloseConn, Move, callerVars
<1>2. d \in Conns /\ WorkerHas(w, d) /\ \A c \in Conns : WorkerHas(w, c) => c = d
  BY <1>1 DEF OnePlace, WorkerHas
<1> HIDE DEF d
<1>3. /\ wpc'[w] = "stamp"
      /\ \A ch \in Chans \ {w} : wpc'[ch] = wpc[ch] /\ wconn'[ch] = wconn[ch]
      /\ \A c \in Conns \ {d} : connState'[c] = connState[c]
  BY <1>1, <1>2 DEF TypeOK
<1>4. /\ \A a \in Callers, c \in Conns : CallerHas(a, c)' <=> CallerHas(a, c)
      /\ \A ch \in Chans \ {w}, c \in Conns : WorkerHas(ch, c)' <=> WorkerHas(ch, c)
      /\ \A c \in Conns : ~WorkerHas(w, c)'
  BY <1>1, <1>3 DEF CallerHas, WorkerHas
<1>5. /\ \A v \in Chans \ {w} : ~WorkerHas(v, d)
      /\ \A v \in Chans : ~Contains(q[v], d) /\ \A b \in Callers : ~CallerHas(b, d)
  BY <1>2 DEF OnePlace
<1> QED BY <1>1, <1>2, <1>3, <1>4, <1>5 DEF OnePlace

\* A step keeps every connection in one place.
LEMMA StepPlaces == IInv /\ OnePlace /\ Next => OnePlace'
<1> SUFFICES ASSUME IInv, OnePlace, Next PROVE OnePlace'
  OBVIOUS
<1>1. TypeOK /\ HeldOnce /\ HeldIffWaiting
  BY DEF IInv
<1>2. cpc \in [Callers -> CallerPC] /\ wpc \in [Chans -> WorkerPC]
  BY <1>1 DEF TypeOK
<1>3. CASE Tick
  BY <1>3, SamePlaces DEF Tick, workerVars, callerVars
<1>4. CASE Start
  BY <1>4, SamePlaces DEF Start, workerVars, callerVars
<1>5. ASSUME NEW a \in Callers, NEW c \in Conns, Accept(a, c) PROVE OnePlace'
  BY <1>1, <1>5, AcceptPlaces
<1>6. ASSUME NEW a \in Callers, StopClose(a) PROVE OnePlace'
  BY <1>2, <1>6, SamePlaces DEF StopClose, workerVars, Serving
<1>7. ASSUME NEW a \in Callers, CallerStep(a) PROVE OnePlace'
  <2>1. CASE GetChReady(a) \/ GetChCreate(a) \/ GetChNone(a) \/ StopLock(a) \/ StopUnlock(a)
    <3>1. UNCHANGED <<q, wpc, wconn, cconn, connState>>
      BY <2>1 DEF GetChReady, GetChCreate, GetChNone, StopLock, StopUnlock, workerVars
    <3>2. \A b \in Callers : cpc'[b] \in Serving <=> cpc[b] \in Serving
      BY <1>2, <2>1 DEF GetChReady, GetChCreate, GetChNone, StopLock, StopUnlock, Serving
    <3> QED BY <3>1, <3>2, SamePlaces
  <2>2. ASSUME NEW ch \in Chans, Spawn(a, ch) PROVE OnePlace'
    <3>1. UNCHANGED <<q, wconn, cconn, connState>>
      BY <2>2 DEF Spawn
    <3>2. /\ \A b \in Callers : cpc'[b] \in Serving <=> cpc[b] \in Serving
          /\ \A w \in Chans, pcs \in {{"track", "handle"}, {"untrack", "close"}} :
                wpc'[w] \in pcs <=> wpc[w] \in pcs
      BY <1>2, <2>2 DEF Spawn, Serving
    <3> QED BY <3>1, <3>2, SamePlaces
  <2>3. CASE Send(a)
    BY <1>1, <2>3, SendPlaces
  <2>4. CASE Reject(a)
    BY <1>1, <2>4, RejectPlaces
  <2>5. CASE StopSend(a)
    <3>1. ready # <<>> /\ SendTo(Head(ready), Nil) /\ UNCHANGED <<cpc, cconn, wpc, wconn, connState>>
      BY <2>5 DEF StopSend, workerVars, callerVars
    <3>2. Head(ready) \in Chans
      BY <1>1, <3>1, TailList DEF TypeOK, HeldOnce
    <3>3. \A ch \in Chans, c \in Conns : Contains(q'[ch], c) <=> Contains(q[ch], c)
      BY <1>1, <3>1, <3>2, NilSent
    <3> QED BY <3>1, <3>3, SamePlaces
  <2> QED BY <1>7, <2>1, <2>2, <2>3, <2>4, <2>5 DEF CallerStep
<1>8. ASSUME NEW w \in Chans, WorkerStep(w) PROVE OnePlace'
  <2>1. CASE Recv(w)
    BY <1>1, <2>1, RecvPlaces
  <2>2. CASE Handle(w)
    BY <1>1, <2>2, HandlePlaces
  <2>3. CASE CloseConn(w)
    BY <1>1, <2>3, CloseConnPlaces
  <2>4. CASE Arrive(w) \/ Track(w) \/ Untrack(w) \/ Stamp(w) \/ Release(w) \/ Exit(w) \/ Put(w)
    <3>1. UNCHANGED <<q, wconn, cpc, cconn, connState>>
      BY <2>4 DEF Arrive, Track, Untrack, Stamp, Release, Exit, Put, callerVars
    <3>2. \A ch \in Chans, pcs \in {{"track", "handle"}, {"untrack", "close"}} :
             wpc'[ch] \in pcs <=> wpc[ch] \in pcs
      BY <1>2, <2>4 DEF Arrive, Track, Untrack, Stamp, Release, Exit, Put, Move
    <3> QED BY <3>1, <3>2, SamePlaces
  <2> QED BY <1>8, <2>1, <2>2, <2>3, <2>4 DEF WorkerStep
<1>9. CASE CleanStep
  <2>1. CASE CleanSend
    <3>1. /\ scratch # <<>> /\ SendTo(Head(scratch), Nil)
          /\ UNCHANGED <<cpc, cconn, wpc, wconn, connState>>
      BY <2>1 DEF CleanSend, workerVars, callerVars
    <3>2. Head(scratch) \in Chans
      BY <1>1, <3>1, TailList DEF TypeOK, HeldOnce
    <3>3. \A ch \in Chans, c \in Conns : Contains(q'[ch], c) <=> Contains(q[ch], c)
      BY <1>1, <3>1, <3>2, NilSent
    <3> QED BY <3>1, <3>3, SamePlaces
  <2>2. CASE CleanScan \/ CleanDone \/ CleanCheck \/ CleanWake
    <3>1. UNCHANGED <<q, cpc, cconn, wpc, wconn, connState>>
      BY <2>2 DEF CleanScan, CleanDone, CleanCheck, CleanWake, workerVars, callerVars
    <3> QED BY <3>1, SamePlaces
  <2> QED BY <1>9, <2>1, <2>2 DEF CleanStep
<1> QED BY <1>3, <1>4, <1>5, <1>6, <1>7, <1>8, <1>9 DEF Next

\* A connection that was accepted is with the accept loop, on its way to a worker
\* or with one worker: no two goroutines ever have it.
THEOREM ConnsHaveOnePlace == Spec => []OnePlace
<1>1. Init => OnePlace
  BY EmptyList DEF Init, OnePlace, CallerHas, WorkerHas, Serving
<1>2. IInv /\ OnePlace /\ [Next]_vars => OnePlace'
  <2> SUFFICES ASSUME IInv, OnePlace, [Next]_vars PROVE OnePlace'
    OBVIOUS
  <2>1. CASE UNCHANGED vars
    BY <2>1, SamePlaces DEF vars, workerVars, callerVars
  <2> QED BY <2>1, StepPlaces
<1> QED BY <1>1, <1>2, Invariance, PTL DEF Spec

\* A worker calls its handler once for each connection and closes it once,
\* afterwards; the accept loop closes only what Serve refused.
THEOREM LifecycleIsKept == Spec => ConnLifecycle
<1> DEFINE Edges == {<<"new", "accepted">>, <<"accepted", "served">>,
                     <<"served", "closed">>, <<"accepted", "closed">>}
           Kept == \A c \in Conns :
                      connState'[c] # connState[c] => <<connState[c], connState'[c]>> \in Edges
<1>1. IInv /\ OnePlace /\ [Next]_vars => [Kept]_vars
  <2> SUFFICES ASSUME IInv, OnePlace, Next PROVE Kept
    OBVIOUS
  <2>1. connState \in [Conns -> {"new", "accepted", "served", "closed"}]
    BY DEF IInv, TypeOK
  <2>2. ASSUME NEW d \in Conns, NEW s, connState' = [connState EXCEPT ![d] = s],
               <<connState[d], s>> \in Edges
        PROVE  Kept
    <3> SUFFICES ASSUME NEW c \in Conns, connState'[c] # connState[c]
                 PROVE  <<connState[c], connState'[c]>> \in Edges
      OBVIOUS
    <3> HIDE DEF Edges
    <3>1. c = d /\ connState'[c] = s
      BY <2>1, <2>2
    <3> QED BY <2>2, <3>1
  <2>3. CASE connState' = connState
    BY <2>3
  <2>4. ASSUME NEW a \in Callers, NEW c \in Conns, Accept(a, c) PROVE Kept
    <3>1. connState' = [connState EXCEPT ![c] = "accepted"] /\ <<connState[c], "accepted">> \in Edges
      BY <2>4 DEF Accept
    <3> QED BY <2>2, <3>1
  <2>5. ASSUME NEW a \in Callers, Reject(a) PROVE Kept
    <3>1. cconn[a] \in Conns /\ connState[cconn[a]] = "accepted"
      BY <2>5 DEF Reject, OnePlace, CallerHas, Serving
    <3>2. connState' = [connState EXCEPT ![cconn[a]] = "closed"]
      BY <2>5 DEF Reject
    <3>3. <<connState[cconn[a]], "closed">> \in Edges
      BY <3>1
    <3> QED BY <2>2, <3>1, <3>2, <3>3
  <2>6. ASSUME NEW w \in Chans, Handle(w) PROVE Kept
    <3>1. wconn[w] \in Conns /\ connState[wconn[w]] = "accepted"
      BY <2>6 DEF Handle, Move, OnePlace, WorkerHas
    <3>2. connState' = [connState EXCEPT ![wconn[w]] = "served"]
      BY <2>6 DEF Handle
    <3>3. <<connState[wconn[w]], "served">> \in Edges
      BY <3>1
    <3> QED BY <2>2, <3>1, <3>2, <3>3
  <2>7. ASSUME NEW w \in Chans, CloseConn(w) PROVE Kept
    <3>1. wconn[w] \in Conns /\ connState[wconn[w]] = "served"
      BY <2>7 DEF CloseConn, Move, OnePlace, WorkerHas
    <3>2. connState' = [connState EXCEPT ![wconn[w]] = "closed"]
      BY <2>7 DEF CloseConn
    <3>3. <<connState[wconn[w]], "closed">> \in Edges
      BY <3>1
    <3> QED BY <2>2, <3>1, <3>2, <3>3
  <2> HIDE DEF Kept, Edges
  <2>8. ASSUME NEW a \in Callers, CallerStep(a) PROVE Kept
    <3>1. CASE Reject(a)
      BY <2>5, <3>1
    <3>2. CASE ~Reject(a)
      BY <2>3, <2>8, <3>2 DEF CallerStep, GetChReady, GetChCreate, GetChNone, Spawn, Send, StopLock,
                              StopSend, StopUnlock
    <3> QED BY <3>1, <3>2
  <2>9. ASSUME NEW w \in Chans, WorkerStep(w) PROVE Kept
    <3>1. CASE Arrive(w) \/ Track(w) \/ Untrack(w) \/ Recv(w) \/ Stamp(w) \/ Release(w) \/ Exit(w) \/ Put(w)
      BY <2>3, <3>1 DEF Arrive, Recv, Track, Untrack, Stamp, Release, Exit, Put
    <3> QED BY <2>6, <2>7, <2>9, <3>1 DEF WorkerStep
  <2>10. CASE Tick \/ Start \/ CleanStep \/ \E a \in Callers : StopClose(a)
    BY <2>3, <2>10 DEF Tick, Start, CleanStep, CleanScan, CleanSend, CleanDone, CleanCheck, CleanWake,
                       StopClose
  <2> QED BY <2>4, <2>8, <2>9, <2>10 DEF Next
<1> QED BY <1>1, Invariance, ConnsHaveOnePlace, PTL DEF Spec, ConnLifecycle
=============================================================================
