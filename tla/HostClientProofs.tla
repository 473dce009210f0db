-------------------------- MODULE HostClientProofs --------------------------
(***************************************************************************)
(* First the ConnManager alone: ConnsCountExact, OneHolder and OneCleaner, *)
(* for any number of users, cleaner goroutines and connections, any limit  *)
(* and any idle time.  None of the three is inductive alone.  That a       *)
(* decrement finds something to count down needs the count; that the       *)
(* cleaner's scratch is the only one needs OneCleaner; that a connection   *)
(* is appended to a list that does not hold it needs OneHolder.  What      *)
(* CMInv adds to them is where a goroutine has a connection at all:        *)
(* UsersPlaced and CleanersPlaced.                                         *)
(*                                                                         *)
(* Then the HostClient: HCTypeOK, ConnsAccounted, GetReadOnce and          *)
(* NoRetryAfterResponse, for any number of requests, connections, attempts *)
(* and redials.  The invariant has three parts.  Accounted: what is        *)
(* counted is open or about to be, and with at most one user.              *)
(* RequestSound: where a request is says what it holds of the ConnManager, *)
(* and what do has decided says what it may have read from the client and  *)
(* sent to it.  PendingExact: pendingRequests counts the calls of Do.      *)
(***************************************************************************)
EXTENDS HostClient, BasicLemmas, FiniteSetTheorems

-----------------------------------------------------------------------------
(* The connection manager *)

Busy == {"using", "closing", "probe", "append"}
CountedPC == {"launch", "dial", "using", "probe", "append"}

UsersPlaced == \A u \in Users : upc[u] \in Busy => ucc[u] \in CC

CleanersPlaced ==
    \A k \in Cleaners :
        /\ kpc[k] \notin {"close", "closing"} => scratch[k] = <<>>
        /\ IF kpc[k] = "closing" THEN kcc[k] \in CC ELSE kcc[k] = NoConn

CMInv ==
    /\ CMTypeOK
    /\ UsersPlaced
    /\ CleanersPlaced
    /\ ConnsCountExact
    /\ OneHolder
    /\ OneCleaner

-----------------------------------------------------------------------------
\* The sets that are counted are finite.
LEMMA FiniteCounts ==
    /\ IsFiniteSet(Counted) /\ Cardinality(Counted) \in Nat
    /\ IsFiniteSet(Launching) /\ Cardinality(Launching) \in Nat
    /\ IsFiniteSet(CleanersUp) /\ Cardinality(CleanersUp) \in Nat
<1>1. Counted \in SUBSET Users /\ Launching \in SUBSET Users /\ CleanersUp \in SUBSET Cleaners
  BY DEF Counted, Launching, CleanersUp
<1> QED BY <1>1, UsersAssumption, FS_Subset, FS_CardinalityType

\* A user that goes on enters or leaves the sets that are counted.
LEMMA UserMoves ==
    ASSUME CMTypeOK, NEW u \in Users, NEW p \in UserPC, upc' = [upc EXCEPT ![u] = p]
    PROVE  /\ Cardinality(Counted)' = Cardinality(Counted)
                + (IF p \in CountedPC THEN 1 ELSE 0) - (IF upc[u] \in CountedPC THEN 1 ELSE 0)
           /\ Cardinality(Launching)' = Cardinality(Launching)
                + (IF p = "launch" THEN 1 ELSE 0) - (IF upc[u] = "launch" THEN 1 ELSE 0)
<1>1. upc'[u] = p /\ \A v \in Users \ {u} : upc'[v] = upc[v]
  BY DEF CMTypeOK
<1>2. IsFiniteSet(Counted) /\ Cardinality(Counted) \in Nat
      /\ IsFiniteSet(Launching) /\ Cardinality(Launching) \in Nat
  BY FiniteCounts
<1>3. Cardinality(Counted)' = Cardinality(Counted)
        + (IF p \in CountedPC THEN 1 ELSE 0) - (IF upc[u] \in CountedPC THEN 1 ELSE 0)
  <2> DEFINE H == {v \in Users : upc[v] \in CountedPC}
             G == {v \in Users : upc'[v] \in CountedPC}
  <2>1. Counted = H /\ Counted' = G
    BY DEF Counted, CountedPC
  <2> HIDE DEF H, G
  <2>2. IsFiniteSet(H) /\ Cardinality(H) \in Nat
    BY <1>2, <2>1
  <2>3. CASE (p \in CountedPC) <=> (upc[u] \in CountedPC)
    <3>1. G = H
      BY <1>1, <2>3 DEF G, H
    <3> QED BY <2>1, <2>2, <2>3, <3>1
  <2>4. CASE p \in CountedPC /\ upc[u] \notin CountedPC
    <3>1. G = H \cup {u} /\ u \notin H
      BY <1>1, <2>4 DEF G, H
    <3>2. Cardinality(G) = Cardinality(H) + 1
      BY <2>2, <3>1, FS_AddElement
    <3> QED BY <2>1, <2>2, <2>4, <3>2
  <2>5. CASE p \notin CountedPC /\ upc[u] \in CountedPC
    <3>1. G = H \ {u} /\ u \in H
      BY <1>1, <2>5 DEF G, H
    <3>2. Cardinality(G) = Cardinality(H) - 1
      BY <2>2, <3>1, FS_RemoveElement
    <3> QED BY <2>1, <2>2, <2>5, <3>2
  <2> QED BY <2>3, <2>4, <2>5
<1>4. Cardinality(Launching)' = Cardinality(Launching)
        + (IF p = "launch" THEN 1 ELSE 0) - (IF upc[u] = "launch" THEN 1 ELSE 0)
  <2> DEFINE H == {v \in Users : upc[v] = "launch"}
             G == {v \in Users : upc'[v] = "launch"}
  <2>1. Launching = H /\ Launching' = G
    BY DEF Launching
  <2> HIDE DEF H, G
  <2>2. IsFiniteSet(H) /\ Cardinality(H) \in Nat
    BY <1>2, <2>1
  <2>3. CASE (p = "launch") <=> (upc[u] = "launch")
    <3>1. G = H
      BY <1>1, <2>3 DEF G, H
    <3> QED BY <2>1, <2>2, <2>3, <3>1
  <2>4. CASE p = "launch" /\ upc[u] # "launch"
    <3>1. G = H \cup {u} /\ u \notin H
      BY <1>1, <2>4 DEF G, H
    <3>2. Cardinality(G) = Cardinality(H) + 1
      BY <2>2, <3>1, FS_AddElement
    <3> QED BY <2>1, <2>2, <2>4, <3>2
  <2>5. CASE p # "launch" /\ upc[u] = "launch"
    <3>1. G = H \ {u} /\ u \in H
      BY <1>1, <2>5 DEF G, H
    <3>2. Cardinality(G) = Cardinality(H) - 1
      BY <2>2, <3>1, FS_RemoveElement
    <3> QED BY <2>1, <2>2, <2>5, <3>2
  <2> QED BY <2>3, <2>4, <2>5
<1> QED BY <1>3, <1>4

\* The same of a cleaner.
LEMMA CleanerMoves ==
    ASSUME CMTypeOK, NEW k \in Cleaners, NEW p \in CleanerPC, kpc' = [kpc EXCEPT ![k] = p]
    PROVE  Cardinality(CleanersUp)' = Cardinality(CleanersUp)
                + (IF p # "off" THEN 1 ELSE 0) - (IF kpc[k] # "off" THEN 1 ELSE 0)
<1> DEFINE H == {j \in Cleaners : kpc[j] # "off"}
           G == {j \in Cleaners : kpc'[j] # "off"}
<1>1. kpc'[k] = p /\ \A j \in Cleaners \ {k} : kpc'[j] = kpc[j]
  BY DEF CMTypeOK
<1>2. CleanersUp = H /\ CleanersUp' = G
  BY DEF CleanersUp
<1> HIDE DEF H, G
<1>3. IsFiniteSet(H) /\ Cardinality(H) \in Nat
  BY <1>2, FiniteCounts
<1>4. CASE (p # "off") <=> (kpc[k] # "off")
  <2>1. G = H
    BY <1>1, <1>4 DEF G, H
  <2> QED BY <1>2, <1>3, <1>4, <2>1
<1>5. CASE p # "off" /\ kpc[k] = "off"
  <2>1. G = H \cup {k} /\ k \notin H
    BY <1>1, <1>5 DEF G, H
  <2>2. Cardinality(G) = Cardinality(H) + 1
    BY <1>3, <2>1, FS_AddElement
  <2> QED BY <1>2, <1>3, <1>5, <2>2
<1>6. CASE p = "off" /\ kpc[k] # "off"
  <2>1. G = H \ {k} /\ k \in H
    BY <1>1, <1>6 DEF G, H
  <2>2. Cardinality(G) = Cardinality(H) - 1
    BY <1>3, <2>1, FS_RemoveElement
  <2> QED BY <1>2, <1>3, <1>6, <2>2
<1> QED BY <1>4, <1>5, <1>6

\* A cleaner that is up is the only one, and connsCleanerRun says so.
LEMMA OnlyCleaner ==
    ASSUME CMInv, NEW k \in Cleaners, kpc[k] # "off"
    PROVE  /\ \A j \in Cleaners \ {k} : kpc[j] = "off"
           /\ connsCleanerRun
           /\ Cardinality(CleanersUp) = 1 /\ Cardinality(Launching) = 0
<1>1. /\ IsFiniteSet(CleanersUp) /\ Cardinality(CleanersUp) \in Nat
      /\ Cardinality(Launching) \in Nat
      /\ Cardinality(CleanersUp) + Cardinality(Launching) = IF connsCleanerRun THEN 1 ELSE 0
  BY FiniteCounts DEF CMInv, OneCleaner
<1>2. k \in CleanersUp
  BY DEF CleanersUp
<1>3. Cardinality(CleanersUp) # 0
  BY <1>1, <1>2, FS_EmptySet
<1>4. connsCleanerRun /\ Cardinality(CleanersUp) = 1 /\ Cardinality(Launching) = 0
  BY <1>1, <1>3
<1>5. ASSUME NEW j \in Cleaners \ {k}, kpc[j] # "off" PROVE FALSE
  <2>1. j \in CleanersUp \ {k}
    BY <1>5 DEF CleanersUp
  <2>2. IsFiniteSet(CleanersUp \ {k}) /\ Cardinality(CleanersUp \ {k}) = 0
    BY <1>1, <1>2, <1>4, FS_RemoveElement
  <2> QED BY <2>1, <2>2, FS_EmptySet
<1> QED BY <1>4, <1>5

\* So the count is made with its scratch.
LEMMA CountOfCleaner ==
    ASSUME CMInv, NEW k \in Cleaners, kpc[k] # "off"
    PROVE  /\ \A j \in Cleaners \ {k} : scratch[j] = <<>>
           /\ connsCount = Cardinality(Counted) + Len(conns) + Len(scratch[k])
<1>1. PICK i \in Cleaners :
        /\ \A j \in Cleaners \ {i} : scratch[j] = <<>>
        /\ connsCount = Cardinality(Counted) + Len(conns) + Len(scratch[i])
  BY DEF CMInv, ConnsCountExact
<1>2. \A j \in Cleaners \ {k} : scratch[j] = <<>>
  BY OnlyCleaner DEF CMInv, CleanersPlaced
<1>3. Len(scratch[i]) = Len(scratch[k])
  BY <1>1, <1>2
<1> QED BY <1>1, <1>2, <1>3

-----------------------------------------------------------------------------
\* The parts of the invariant that a step of a user leaves as they are.

\* The count, when it changes with what it counts.
LEMMA CountKept ==
    ASSUME CMInv, NEW u \in Users, NEW p \in UserPC, upc' = [upc EXCEPT ![u] = p],
           scratch' = scratch, Len(conns') \in Nat,
           connsCount' + (IF upc[u] \in CountedPC THEN 1 ELSE 0) + Len(conns)
                = connsCount + (IF p \in CountedPC THEN 1 ELSE 0) + Len(conns'),
           connsCount' \in Int,
           connsCount' <= MaxConns
    PROVE  ConnsCountExact' /\ connsCount' \in Nat
<1>1. PICK k \in Cleaners :
        /\ \A j \in Cleaners \ {k} : scratch[j] = <<>>
        /\ connsCount = Cardinality(Counted) + Len(conns) + Len(scratch[k])
  BY DEF CMInv, ConnsCountExact
<1>2. /\ connsCount \in Nat /\ Len(conns) \in Nat /\ Len(scratch[k]) \in Nat
      /\ Cardinality(Counted) \in Nat
  BY FiniteCounts DEF CMInv, CMTypeOK
<1>3. Cardinality(Counted)' = Cardinality(Counted)
        + (IF p \in CountedPC THEN 1 ELSE 0) - (IF upc[u] \in CountedPC THEN 1 ELSE 0)
  BY UserMoves DEF CMInv
<1>4. Cardinality(Counted)' \in Nat
  <2>1. upc[u] \in CountedPC => Cardinality(Counted) # 0
    <3>1. upc[u] \in CountedPC => u \in Counted
      BY DEF Counted, CountedPC
    <3> QED BY <3>1, FiniteCounts, FS_EmptySet
  <2> QED BY <1>2, <1>3, <2>1
<1>5. connsCount' = Cardinality(Counted)' + Len(conns') + Len(scratch'[k])
  <2> DEFINE a == IF p \in CountedPC THEN 1 ELSE 0
             b == IF upc[u] \in CountedPC THEN 1 ELSE 0
             before == Cardinality(Counted)
             after == Cardinality(Counted)'
             l == Len(conns)
             m == Len(conns')
             r == Len(scratch[k])
             n == connsCount'
  <2>1. /\ a \in Int /\ b \in Int /\ before \in Int /\ l \in Int /\ m \in Int /\ r \in Int /\ n \in Int
        /\ n + b + l = connsCount + a + m
        /\ after = before + a - b
        /\ connsCount = before + l + r
    BY <1>1, <1>2, <1>3
  <2>2. Len(scratch'[k]) = r
    OBVIOUS
  <2> HIDE DEF a, b, before, after, l, m, r, n
  <2>3. n = after + m + r
    BY <2>1
  <2> QED BY <2>2, <2>3 DEF n, after, m
<1>6. \A j \in Cleaners \ {k} : scratch'[j] = <<>>
  BY <1>1
<1> QED BY <1>2, <1>4, <1>5, <1>6 DEF ConnsCountExact

\* The cleaner, when no user begins or ends to launch it.
LEMMA CleanerKept ==
    ASSUME CMInv, NEW u \in Users, NEW p \in UserPC, upc' = [upc EXCEPT ![u] = p],
           upc[u] # "launch", p # "launch", kpc' = kpc, connsCleanerRun' = connsCleanerRun,
           connsCount' > 0 => connsCount > 0
    PROVE  OneCleaner'
<1>1. Cardinality(Launching)' = Cardinality(Launching) /\ Cardinality(Launching) \in Nat
  <2>1. Cardinality(Launching)' = Cardinality(Launching)
          + (IF p = "launch" THEN 1 ELSE 0) - (IF upc[u] = "launch" THEN 1 ELSE 0)
    BY UserMoves DEF CMInv
  <2>2. Cardinality(Launching) \in Nat
    BY FiniteCounts
  <2> QED BY <2>1, <2>2
<1>2. Cardinality(CleanersUp)' = Cardinality(CleanersUp)
  BY DEF CleanersUp
<1> QED BY <1>1, <1>2 DEF CMInv, OneCleaner

\* The holders, when none changes.
LEMMA HoldersKept ==
    ASSUME OneHolder, conns' = conns, scratch' = scratch, cstate' = cstate,
           \A u \in Users, cc \in CC : UserHolds(u, cc)' <=> UserHolds(u, cc),
           \A k \in Cleaners, cc \in CC : CleanerHolds(k, cc)' <=> CleanerHolds(k, cc),
           \A k \in Cleaners, cc \in CC : kcc'[k] = cc => kcc[k] = cc
    PROVE  OneHolder'
  BY DEF OneHolder

\* What a user holds, after it has gone on.
LEMMA HoldsAfter ==
    ASSUME CMTypeOK, NEW u \in Users, NEW p \in UserPC, upc' = [upc EXCEPT ![u] = p],
           ucc' = ucc \/ \E x : ucc' = [ucc EXCEPT ![u] = x]
    PROVE  /\ \A v \in Users \ {u}, cc \in CC : UserHolds(v, cc)' <=> UserHolds(v, cc)
           /\ \A cc \in CC : UserHolds(u, cc)' <=> p \in Busy /\ ucc'[u] = cc
  BY DEF CMTypeOK, UserHolds, Busy

\* The users have their connections, after one has gone on.
LEMMA PlacedAfter ==
    ASSUME CMTypeOK, UsersPlaced, NEW u \in Users, NEW p \in UserPC, upc' = [upc EXCEPT ![u] = p],
           ucc' = ucc \/ \E x : ucc' = [ucc EXCEPT ![u] = x],
           p \in Busy => ucc'[u] \in CC
    PROVE  UsersPlaced'
  BY DEF CMTypeOK, UsersPlaced

\* A step of a user that changes at most the count and its own program counter.
LEMMA UserGoesOn ==
    ASSUME CMInv, NEW u \in Users, NEW p \in UserPC, upc' = [upc EXCEPT ![u] = p],
           UNCHANGED <<conns, connsCleanerRun, cstate, ucc, cleanerVars>>,
           idleFor' \in [CC -> 0 .. LongIdle],
           upc[u] # "launch", p # "launch",
           upc[u] \in Busy <=> p \in Busy,
           connsCount' = connsCount - (IF upc[u] \in CountedPC /\ p \notin CountedPC THEN 1 ELSE 0),
           p \in CountedPC => upc[u] \in CountedPC
    PROVE  CMInv'
<1>1. CMTypeOK /\ UsersPlaced /\ CleanersPlaced /\ OneHolder /\ ConnsCountExact
  BY DEF CMInv
<1>2. UNCHANGED <<kpc, kcc, scratch>>
  BY DEF cleanerVars
<1>3. connsCount \in Nat /\ Len(conns) \in Nat /\ MaxConns \in Nat /\ connsCount <= MaxConns
  BY <1>1, MaxConnsAssumption DEF CMTypeOK, ConnsCountExact
<1>4. ConnsCountExact' /\ connsCount' \in Nat
  <2>1. /\ connsCount' + (IF upc[u] \in CountedPC THEN 1 ELSE 0) + Len(conns)
                = connsCount + (IF p \in CountedPC THEN 1 ELSE 0) + Len(conns')
        /\ connsCount' \in Int /\ connsCount' <= MaxConns /\ Len(conns') \in Nat
    <3>1. Len(conns') = Len(conns)
      OBVIOUS
    <3>2. CASE upc[u] \in CountedPC /\ p \notin CountedPC
      BY <1>3, <3>1, <3>2
    <3>3. CASE upc[u] \in CountedPC /\ p \in CountedPC
      BY <1>3, <3>1, <3>3
    <3>4. CASE upc[u] \notin CountedPC /\ p \notin CountedPC
      BY <1>3, <3>1, <3>4
    <3> QED BY <3>2, <3>3, <3>4
  <2> QED BY <1>2, <2>1, CountKept
<1>5. CMTypeOK'
  BY <1>1, <1>2, <1>4 DEF CMTypeOK
<1>6. UsersPlaced'
  BY <1>1, PlacedAfter DEF UsersPlaced, CMTypeOK
<1>7. CleanersPlaced'
  BY <1>1, <1>2 DEF CleanersPlaced
<1>8. OneHolder'
  <2>1. \A v \in Users, cc \in CC : UserHolds(v, cc)' <=> UserHolds(v, cc)
    BY <1>1 DEF UserHolds, Busy, CMTypeOK
  <2>2. \A k \in Cleaners, cc \in CC : CleanerHolds(k, cc)' <=> CleanerHolds(k, cc)
    BY <1>2 DEF CleanerHolds
  <2> QED BY <1>1, <1>2, <2>1, <2>2, HoldersKept
<1>9. OneCleaner'
  <2>1. connsCount' > 0 => connsCount > 0
    BY <1>3
  <2> QED BY <1>2, <2>1, CleanerKept
<1> QED BY <1>4, <1>5, <1>6, <1>7, <1>8, <1>9 DEF CMInv

-----------------------------------------------------------------------------
\* Time passes.
LEMMA TickInv ==
    ASSUME CMInv, Tick
    PROVE  CMInv'
<1>1. UNCHANGED <<connsCount, conns, connsCleanerRun, cstate, upc, ucc, kpc, kcc, scratch>>
  BY DEF Tick, cmShared, userVars, cleanerVars
<1>2. idleFor' \in [CC -> 0 .. LongIdle]
  <2>1. idleFor \in [CC -> 0 .. LongIdle] /\ LongIdle \in Nat
    BY MaxConnsAssumption DEF CMInv, CMTypeOK, LongIdle
  <2>2. \A cc \in CC : idleFor[cc] < LongIdle => idleFor[cc] + 1 \in 0 .. LongIdle
    BY <2>1
  <2> QED BY <2>1, <2>2 DEF Tick
<1>3. CMTypeOK' /\ UsersPlaced' /\ CleanersPlaced'
  BY <1>1, <1>2 DEF CMInv, CMTypeOK, UsersPlaced, CleanersPlaced
<1>4. ConnsCountExact' /\ OneCleaner'
  BY <1>1 DEF CMInv, ConnsCountExact, Counted, OneCleaner, Launching, CleanersUp
<1>5. OneHolder'
  <2>1. \A v \in Users, cc \in CC : UserHolds(v, cc)' <=> UserHolds(v, cc)
    BY <1>1 DEF UserHolds
  <2>2. \A k \in Cleaners, cc \in CC : CleanerHolds(k, cc)' <=> CleanerHolds(k, cc)
    BY <1>1 DEF CleanerHolds
  <2> QED BY <1>1, <2>1, <2>2, HoldersKept DEF CMInv
<1> QED BY <1>3, <1>4, <1>5 DEF CMInv

\* AcquireConn takes an idle connection.
LEMMA AcquireIdleInv ==
    ASSUME CMInv, NEW u \in Users, AcquireIdle(u)
    PROVE  CMInv'
<1> DEFINE last == Last(conns)
           front == Front(conns)
<1>1. /\ upc[u] = "out" /\ conns # <<>> /\ ucc' = [ucc EXCEPT ![u] = last]
      /\ idleFor' = [idleFor EXCEPT ![last] = 0] /\ conns' = front
      /\ upc' = [upc EXCEPT ![u] = "using"]
      /\ UNCHANGED <<connsCount, connsCleanerRun, cstate, kpc, kcc, scratch>>
  BY DEF AcquireIdle, cleanerVars
<1>2. CMTypeOK /\ UsersPlaced /\ CleanersPlaced /\ OneHolder /\ ConnsCountExact /\ "using" \in UserPC
  BY DEF CMInv, UserPC
<1>3. conns \in Seq(CC) /\ IsInjective(conns) /\ Len(conns) \in Nat
  BY <1>2 DEF CMTypeOK, OneHolder
<1>4. /\ front \in Seq(CC) /\ last \in CC /\ IsInjective(front)
      /\ \A y : Contains(conns, y) <=> Contains(front, y) \/ y = last
      /\ ~Contains(front, last)
  BY <1>1, <1>3, FrontList
<1>5. Len(front) = Len(conns) - 1 /\ Len(front) \in Nat
  <2>1. Len(conns) \in Nat \ {0}
    BY <1>1, <1>3, EmptySeq
  <2>2. \A i \in 1 .. Len(conns) - 1 : conns[i] \in CC
    BY <1>3, <2>1, ElementOfSeq
  <2> DEFINE n == Len(conns)
             m == Len(front)
  <2>3. m = IF 1 <= n - 1 THEN n - 1 - 1 + 1 ELSE 0
    BY <2>1, <2>2, SubSeqProperties DEF Front
  <2> HIDE DEF m, n
  <2>4. n \in Nat \ {0} => m = n - 1 /\ m \in Nat
    BY <2>3
  <2> QED BY <2>1, <2>4 DEF m, n
<1> HIDE DEF last, front
<1>6. connsCount \in Nat /\ MaxConns \in Nat /\ connsCount <= MaxConns
  BY <1>2, MaxConnsAssumption DEF CMTypeOK, ConnsCountExact
<1>7. ConnsCountExact'
  <2> DEFINE p == "using"
  <2>1. /\ connsCount' + (IF upc[u] \in CountedPC THEN 1 ELSE 0) + Len(conns)
                = connsCount + (IF p \in CountedPC THEN 1 ELSE 0) + Len(conns')
        /\ connsCount' \in Int /\ connsCount' <= MaxConns /\ Len(conns') \in Nat
    BY <1>1, <1>3, <1>5, <1>6 DEF CountedPC
  <2>2. p \in UserPC /\ upc' = [upc EXCEPT ![u] = p] /\ scratch' = scratch
    BY <1>1, <1>2
  <2> HIDE DEF p
  <2> QED BY <2>1, <2>2, CountKept
<1>8. CMTypeOK'
  <2>1. idleFor' \in [CC -> 0 .. LongIdle]
    BY <1>1, <1>2, <1>4, MaxConnsAssumption DEF CMTypeOK, LongIdle
  <2> QED BY <1>1, <1>2, <1>4, <2>1 DEF CMTypeOK
<1>9. UsersPlaced'
  BY <1>1, <1>2, <1>4, PlacedAfter DEF CMTypeOK
<1>10. CleanersPlaced'
  BY <1>1, <1>2 DEF CleanersPlaced
<1>11. OneCleaner'
  BY <1>1, <1>2, <1>6, CleanerKept
<1>12. OneHolder'
  <2>1. /\ \A v \in Users \ {u}, cc \in CC : UserHolds(v, cc)' <=> UserHolds(v, cc)
        /\ \A cc \in CC : UserHolds(u, cc)' <=> cc = last
    BY <1>1, <1>2, HoldsAfter DEF Busy, CMTypeOK
  <2>2. \A k \in Cleaners, cc \in CC : CleanerHolds(k, cc)' <=> CleanerHolds(k, cc)
    BY <1>1 DEF CleanerHolds
  <2>3. \A cc \in CC : ~UserHolds(u, cc)
    BY <1>1 DEF UserHolds
  <2> QED BY <1>1, <1>2, <1>4, <2>1, <2>2, <2>3 DEF OneHolder
<1> QED BY <1>7, <1>8, <1>9, <1>10, <1>11, <1>12 DEF CMInv

\* AcquireConn counts a new connection, and takes on the launch of the cleaner.
LEMMA AcquireNewInv ==
    ASSUME CMInv, NEW u \in Users, AcquireNew(u)
    PROVE  CMInv'
<1> DEFINE p == IF connsCleanerRun THEN "dial" ELSE "launch"
<1>1. /\ upc[u] = "out" /\ connsCount < MaxConns /\ connsCount' = connsCount + 1
      /\ connsCleanerRun' = TRUE /\ upc' = [upc EXCEPT ![u] = p]
      /\ UNCHANGED <<conns, cstate, idleFor, ucc, kpc, kcc, scratch>>
  BY DEF AcquireNew, cleanerVars
<1>2. /\ CMTypeOK /\ UsersPlaced /\ CleanersPlaced /\ OneHolder /\ OneCleaner
      /\ p \in UserPC /\ p \in CountedPC /\ p \notin Busy
  BY DEF CMInv, UserPC, CountedPC, Busy
<1>3. connsCount \in Nat /\ Len(conns) \in Nat /\ MaxConns \in Nat
  BY <1>2, MaxConnsAssumption DEF CMTypeOK
<1>4. OneCleaner'
  <2>1. Cardinality(Launching)' = Cardinality(Launching) + (IF p = "launch" THEN 1 ELSE 0)
    <3>1. /\ Cardinality(Launching)' = Cardinality(Launching)
                + (IF p = "launch" THEN 1 ELSE 0) - (IF upc[u] = "launch" THEN 1 ELSE 0)
          /\ Cardinality(Launching) \in Nat
      <4> HIDE DEF p
      <4> QED BY <1>1, <1>2, UserMoves, FiniteCounts
    <3> QED BY <1>1, <3>1
  <2>2. Cardinality(CleanersUp)' = Cardinality(CleanersUp)
    BY <1>1 DEF CleanersUp
  <2>3. Cardinality(Launching) \in Nat /\ Cardinality(CleanersUp) \in Nat
    BY FiniteCounts
  <2>4. connsCleanerRun \in BOOLEAN
    BY <1>2 DEF CMTypeOK
  <2> QED BY <1>1, <1>2, <2>1, <2>2, <2>3, <2>4 DEF OneCleaner
<1> HIDE DEF p
<1>5. ConnsCountExact' /\ connsCount' \in Nat
  <2>1. upc[u] \notin CountedPC
    BY <1>1 DEF CountedPC
  <2>2. /\ connsCount' + (IF upc[u] \in CountedPC THEN 1 ELSE 0) + Len(conns)
                = connsCount + (IF p \in CountedPC THEN 1 ELSE 0) + Len(conns')
        /\ connsCount' \in Int /\ connsCount' <= MaxConns /\ Len(conns') \in Nat
    BY <1>1, <1>2, <1>3, <2>1
  <2> QED BY <1>1, <1>2, <2>2, CountKept
<1>6. CMTypeOK' /\ CleanersPlaced'
  BY <1>1, <1>2, <1>5 DEF CMTypeOK, CleanersPlaced
<1>7. UsersPlaced'
  BY <1>1, <1>2, PlacedAfter
<1>8. OneHolder'
  <2>1. \A v \in Users, cc \in CC : UserHolds(v, cc)' <=> UserHolds(v, cc)
    BY <1>1, <1>2 DEF UserHolds, Busy, CMTypeOK
  <2>2. \A k \in Cleaners, cc \in CC : CleanerHolds(k, cc)' <=> CleanerHolds(k, cc)
    BY <1>1 DEF CleanerHolds
  <2> QED BY <1>1, <1>2, <2>1, <2>2, HoldersKept
<1> QED BY <1>4, <1>5, <1>6, <1>7, <1>8 DEF CMInv

\* The cleaner is launched: there was none, and now there is one.
LEMMA LaunchInv ==
    ASSUME CMInv, NEW u \in Users, NEW k \in Cleaners, Launch(u, k)
    PROVE  CMInv'
<1>1. /\ upc[u] = "launch" /\ kpc[k] = "off"
      /\ kpc' = [kpc EXCEPT ![k] = "scan"] /\ upc' = [upc EXCEPT ![u] = "dial"]
      /\ UNCHANGED <<connsCount, conns, connsCleanerRun, cstate, idleFor, ucc, kcc, scratch>>
  BY DEF Launch, cmShared
<1>2. /\ CMTypeOK /\ UsersPlaced /\ CleanersPlaced /\ OneHolder /\ OneCleaner /\ ConnsCountExact
      /\ "dial" \in UserPC /\ "scan" \in CleanerPC
  BY DEF CMInv, UserPC, CleanerPC
<1>3. connsCount \in Nat /\ Len(conns) \in Nat /\ MaxConns \in Nat /\ connsCount <= MaxConns
  BY <1>2, MaxConnsAssumption DEF CMTypeOK, ConnsCountExact
<1>4. ConnsCountExact'
  <2> DEFINE p == "dial"
  <2>1. upc[u] \in CountedPC /\ p \in CountedPC
    BY <1>1 DEF CountedPC
  <2>2. p \in UserPC /\ upc' = [upc EXCEPT ![u] = p] /\ scratch' = scratch
    BY <1>1, <1>2
  <2> HIDE DEF p
  <2>3. /\ connsCount' + (IF upc[u] \in CountedPC THEN 1 ELSE 0) + Len(conns)
                = connsCount + (IF p \in CountedPC THEN 1 ELSE 0) + Len(conns')
        /\ connsCount' \in Int /\ connsCount' <= MaxConns /\ Len(conns') \in Nat
    BY <1>1, <1>3, <2>1
  <2> QED BY <2>2, <2>3, CountKept
<1>5. CMTypeOK'
  BY <1>1, <1>2 DEF CMTypeOK
<1>6. UsersPlaced'
  BY <1>1, <1>2, PlacedAfter DEF Busy
<1>7. CleanersPlaced'
  BY <1>1, <1>2 DEF CleanersPlaced, CMTypeOK
<1>8. OneHolder'
  <2>1. \A v \in Users, cc \in CC : UserHolds(v, cc)' <=> UserHolds(v, cc)
    BY <1>1, <1>2 DEF UserHolds, CMTypeOK
  <2>2. \A j \in Cleaners, cc \in CC : CleanerHolds(j, cc)' <=> CleanerHolds(j, cc)
    BY <1>1, <1>2 DEF CleanerHolds, CMTypeOK
  <2> QED BY <1>1, <1>2, <2>1, <2>2, HoldersKept
<1>9. OneCleaner'
  <2>1. Cardinality(Launching) \in Nat /\ Cardinality(CleanersUp) \in Nat
    BY FiniteCounts
  <2>2. Cardinality(Launching)' = Cardinality(Launching) - 1
    <3>1. Cardinality(Launching)' = Cardinality(Launching)
            + (IF "dial" = "launch" THEN 1 ELSE 0) - (IF upc[u] = "launch" THEN 1 ELSE 0)
      BY <1>1, <1>2, UserMoves
    <3> QED BY <1>1, <2>1, <3>1
  <2>3. Cardinality(CleanersUp)' = Cardinality(CleanersUp) + 1
    <3>1. Cardinality(CleanersUp)' = Cardinality(CleanersUp)
            + (IF "scan" # "off" THEN 1 ELSE 0) - (IF kpc[k] # "off" THEN 1 ELSE 0)
      BY <1>1, <1>2, CleanerMoves
    <3> QED BY <1>1, <2>1, <3>1
  <2> QED BY <1>1, <1>2, <2>1, <2>2, <2>3 DEF OneCleaner
<1> QED BY <1>4, <1>5, <1>6, <1>7, <1>8, <1>9 DEF CMInv

\* The dialer returned a connection: a free wrapper is nobody's.
LEMMA DialOKInv ==
    ASSUME CMInv, NEW u \in Users, NEW cc \in CC, DialOK(u, cc)
    PROVE  CMInv'
<1>1. /\ upc[u] = "dial" /\ cstate[cc] = "free" /\ cstate' = [cstate EXCEPT ![cc] = "open"]
      /\ ucc' = [ucc EXCEPT ![u] = cc] /\ upc' = [upc EXCEPT ![u] = "using"]
      /\ UNCHANGED <<connsCount, conns, connsCleanerRun, idleFor, kpc, kcc, scratch>>
  BY DEF DialOK, cmShared, cleanerVars
<1>2. /\ CMTypeOK /\ UsersPlaced /\ CleanersPlaced /\ OneHolder /\ OneCleaner /\ ConnsCountExact
      /\ "using" \in UserPC
  BY DEF CMInv, UserPC
<1>3. connsCount \in Nat /\ Len(conns) \in Nat /\ MaxConns \in Nat /\ connsCount <= MaxConns
  BY <1>2, MaxConnsAssumption DEF CMTypeOK, ConnsCountExact
<1>4. ConnsCountExact'
  <2> DEFINE p == "using"
  <2>1. upc[u] \in CountedPC /\ p \in CountedPC
    BY <1>1 DEF CountedPC
  <2>2. p \in UserPC /\ upc' = [upc EXCEPT ![u] = p] /\ scratch' = scratch
    BY <1>1, <1>2
  <2> HIDE DEF p
  <2>3. /\ connsCount' + (IF upc[u] \in CountedPC THEN 1 ELSE 0) + Len(conns)
                = connsCount + (IF p \in CountedPC THEN 1 ELSE 0) + Len(conns')
        /\ connsCount' \in Int /\ connsCount' <= MaxConns /\ Len(conns') \in Nat
    BY <1>1, <1>3, <2>1
  <2> QED BY <2>2, <2>3, CountKept
<1>5. CMTypeOK' /\ CleanersPlaced'
  BY <1>1, <1>2 DEF CMTypeOK, CleanersPlaced
<1>6. UsersPlaced'
  BY <1>1, <1>2, PlacedAfter DEF CMTypeOK
<1>7. OneCleaner'
  BY <1>1, <1>2, <1>3, CleanerKept
<1>8. OneHolder'
  <2>1. /\ \A v \in Users \ {u}, d \in CC : UserHolds(v, d)' <=> UserHolds(v, d)
        /\ \A d \in CC : UserHolds(u, d)' <=> d = cc
    BY <1>1, <1>2, HoldsAfter DEF Busy, CMTypeOK
  <2>2. \A k \in Cleaners, d \in CC : CleanerHolds(k, d)' <=> CleanerHolds(k, d)
    BY <1>1 DEF CleanerHolds
  <2>3. \A d \in CC : ~UserHolds(u, d)
    BY <1>1 DEF UserHolds
  <2>4. /\ ~Contains(conns, cc)
        /\ \A v \in Users : ~UserHolds(v, cc)
        /\ \A k \in Cleaners : ~CleanerHolds(k, cc)
    BY <1>1, <1>2 DEF OneHolder
  <2>5. cstate'[cc] = "open" /\ \A d \in CC \ {cc} : cstate'[d] = cstate[d]
    BY <1>1, <1>2 DEF CMTypeOK
  <2> QED BY <1>1, <1>2, <2>1, <2>2, <2>3, <2>4, <2>5 DEF OneHolder
<1> QED BY <1>4, <1>5, <1>6, <1>7, <1>8 DEF CMInv

\* The steps of a user that touch neither the lists nor its connection.
LEMMA UserGoesOnInv ==
    ASSUME CMInv, NEW u \in Users,
           \/ DialFails(u) \/ CloseConn(u) \/ ReleaseConn(u) \/ ReleaseClosed(u) \/ ReleaseStamp(u)
    PROVE  CMInv'
<1>1. CMTypeOK /\ UsersPlaced /\ connsCount \in Nat
  BY DEF CMInv, CMTypeOK
<1>2. CASE DialFails(u)
  <2> DEFINE p == "out"
  <2>1. /\ p \in UserPC /\ upc' = [upc EXCEPT ![u] = p] /\ upc[u] # "launch" /\ p # "launch"
        /\ upc[u] \in CountedPC /\ p \notin CountedPC /\ upc[u] \notin Busy /\ p \notin Busy
        /\ connsCount' = connsCount - 1
        /\ UNCHANGED <<conns, connsCleanerRun, cstate, ucc, cleanerVars>>
        /\ idleFor' \in [CC -> 0 .. LongIdle]
    BY <1>1, <1>2 DEF DialFails, CMTypeOK, UserPC, CountedPC, Busy
  <2> HIDE DEF p
  <2>2. connsCount' = connsCount - (IF upc[u] \in CountedPC /\ p \notin CountedPC THEN 1 ELSE 0)
    BY <2>1
  <2> QED BY <2>1, <2>2, UserGoesOn
<1>3. CASE CloseConn(u) \/ ReleaseClosed(u)
  <2> DEFINE p == "closing"
  <2>1. /\ p \in UserPC /\ upc' = [upc EXCEPT ![u] = p] /\ upc[u] # "launch" /\ p # "launch"
        /\ upc[u] \in CountedPC /\ p \notin CountedPC /\ upc[u] \in Busy /\ p \in Busy
        /\ connsCount' = connsCount - 1
        /\ UNCHANGED <<conns, connsCleanerRun, cstate, ucc, cleanerVars>>
        /\ idleFor' \in [CC -> 0 .. LongIdle]
    BY <1>1, <1>3 DEF CloseConn, ReleaseClosed, CMTypeOK, UserPC, CountedPC, Busy
  <2> HIDE DEF p
  <2>2. connsCount' = connsCount - (IF upc[u] \in CountedPC /\ p \notin CountedPC THEN 1 ELSE 0)
    BY <2>1
  <2> QED BY <2>1, <2>2, UserGoesOn
<1>4. CASE ReleaseConn(u)
  <2> DEFINE p == "probe"
  <2>1. /\ p \in UserPC /\ upc' = [upc EXCEPT ![u] = p] /\ upc[u] # "launch" /\ p # "launch"
        /\ upc[u] \in CountedPC /\ p \in CountedPC /\ upc[u] \in Busy /\ p \in Busy
        /\ connsCount' = connsCount
        /\ UNCHANGED <<conns, connsCleanerRun, cstate, ucc, cleanerVars>>
        /\ idleFor' \in [CC -> 0 .. LongIdle]
    BY <1>1, <1>4 DEF ReleaseConn, cmShared, CMTypeOK, UserPC, CountedPC, Busy
  <2> HIDE DEF p
  <2>2. connsCount' = connsCount - (IF upc[u] \in CountedPC /\ p \notin CountedPC THEN 1 ELSE 0)
    BY <1>1, <2>1
  <2> QED BY <2>1, <2>2, UserGoesOn
<1>5. CASE ReleaseStamp(u)
  <2> DEFINE p == "append"
  <2>1. /\ p \in UserPC /\ upc' = [upc EXCEPT ![u] = p] /\ upc[u] # "launch" /\ p # "launch"
        /\ upc[u] \in CountedPC /\ p \in CountedPC /\ upc[u] \in Busy /\ p \in Busy
        /\ connsCount' = connsCount
        /\ UNCHANGED <<conns, connsCleanerRun, cstate, ucc, cleanerVars>>
    BY <1>5 DEF ReleaseStamp, cmShared, UserPC, CountedPC, Busy
  <2>2. idleFor' \in [CC -> 0 .. LongIdle]
    <3>1. 0 \in 0 .. LongIdle
      BY MaxConnsAssumption DEF LongIdle
    <3>2. idleFor' = [idleFor EXCEPT ![ucc[u]] = 0]
      BY <1>5 DEF ReleaseStamp
    <3> QED BY <1>1, <3>1, <3>2 DEF CMTypeOK
  <2> HIDE DEF p
  <2>3. connsCount' = connsCount - (IF upc[u] \in CountedPC /\ p \notin CountedPC THEN 1 ELSE 0)
    BY <1>1, <2>1
  <2> QED BY <2>1, <2>2, <2>3, UserGoesOn
<1> QED BY <1>2, <1>3, <1>4, <1>5

\* CloseConn ends: the wrapper is free.
LEMMA CloseConnEndsInv ==
    ASSUME CMInv, NEW u \in Users, CloseConnEnds(u)
    PROVE  CMInv'
<1> DEFINE cc == ucc[u]
<1>1. /\ upc[u] = "closing" /\ cstate' = [cstate EXCEPT ![cc] = "free"]
      /\ ucc' = [ucc EXCEPT ![u] = NoConn] /\ upc' = [upc EXCEPT ![u] = "out"]
      /\ UNCHANGED <<connsCount, conns, connsCleanerRun, idleFor, kpc, kcc, scratch>>
  BY DEF CloseConnEnds, cmShared, cleanerVars
<1>2. /\ CMTypeOK /\ UsersPlaced /\ CleanersPlaced /\ OneHolder /\ OneCleaner /\ ConnsCountExact
      /\ "out" \in UserPC
  BY DEF CMInv, UserPC
<1>3. connsCount \in Nat /\ Len(conns) \in Nat /\ MaxConns \in Nat /\ connsCount <= MaxConns
  BY <1>2, MaxConnsAssumption DEF CMTypeOK, ConnsCountExact
<1>4. cc \in CC /\ UserHolds(u, cc)
  BY <1>1, <1>2 DEF UsersPlaced, Busy, UserHolds
<1> HIDE DEF cc
<1>5. ConnsCountExact'
  <2> DEFINE p == "out"
  <2>1. upc[u] \notin CountedPC /\ p \notin CountedPC
    BY <1>1 DEF CountedPC
  <2>2. p \in UserPC /\ upc' = [upc EXCEPT ![u] = p] /\ scratch' = scratch
    BY <1>1, <1>2
  <2> HIDE DEF p
  <2>3. /\ connsCount' + (IF upc[u] \in CountedPC THEN 1 ELSE 0) + Len(conns)
                = connsCount + (IF p \in CountedPC THEN 1 ELSE 0) + Len(conns')
        /\ connsCount' \in Int /\ connsCount' <= MaxConns /\ Len(conns') \in Nat
    BY <1>1, <1>3, <2>1
  <2> QED BY <2>2, <2>3, CountKept
<1>6. CMTypeOK' /\ CleanersPlaced'
  BY <1>1, <1>2, <1>4 DEF CMTypeOK, CleanersPlaced
<1>7. UsersPlaced'
  BY <1>1, <1>2, PlacedAfter DEF Busy
<1>8. OneCleaner'
  BY <1>1, <1>2, <1>3, CleanerKept
<1>9. OneHolder'
  <2>1. /\ \A v \in Users \ {u}, d \in CC : UserHolds(v, d)' <=> UserHolds(v, d)
        /\ \A d \in CC : ~UserHolds(u, d)'
    BY <1>1, <1>2, HoldsAfter DEF Busy
  <2>2. \A k \in Cleaners, d \in CC : CleanerHolds(k, d)' <=> CleanerHolds(k, d)
    BY <1>1 DEF CleanerHolds
  <2>3. \A d \in CC : UserHolds(u, d) => d = cc
    BY DEF UserHolds, cc
  <2>4. /\ ~Contains(conns, cc)
        /\ \A v \in Users \ {u} : ~UserHolds(v, cc)
        /\ \A k \in Cleaners : ~CleanerHolds(k, cc)
    BY <1>2, <1>4 DEF OneHolder
  <2>5. cstate'[cc] = "free" /\ \A d \in CC \ {cc} : cstate'[d] = cstate[d]
    BY <1>1, <1>2, <1>4 DEF CMTypeOK
  <2> QED BY <1>1, <1>2, <2>1, <2>2, <2>3, <2>4, <2>5 DEF OneHolder
<1> QED BY <1>5, <1>6, <1>7, <1>8, <1>9 DEF CMInv

\* The connection goes to the idle ones, where it was not.
LEMMA ReleaseAppendInv ==
    ASSUME CMInv, NEW u \in Users, ReleaseAppend(u)
    PROVE  CMInv'
<1> DEFINE cc == ucc[u]
           more == Append(conns, cc)
<1>1. /\ upc[u] = "append" /\ conns' = more
      /\ ucc' = [ucc EXCEPT ![u] = NoConn] /\ upc' = [upc EXCEPT ![u] = "out"]
      /\ UNCHANGED <<connsCount, connsCleanerRun, cstate, idleFor, kpc, kcc, scratch>>
  BY DEF ReleaseAppend, cleanerVars
<1>2. /\ CMTypeOK /\ UsersPlaced /\ CleanersPlaced /\ OneHolder /\ OneCleaner /\ ConnsCountExact
      /\ "out" \in UserPC
  BY DEF CMInv, UserPC
<1>3. /\ connsCount \in Nat /\ Len(conns) \in Nat /\ MaxConns \in Nat /\ connsCount <= MaxConns
      /\ conns \in Seq(CC) /\ IsInjective(conns)
  BY <1>2, MaxConnsAssumption DEF CMTypeOK, ConnsCountExact, OneHolder
<1>4. cc \in CC /\ UserHolds(u, cc)
  BY <1>1, <1>2 DEF UsersPlaced, Busy, UserHolds
<1>5. /\ ~Contains(conns, cc)
      /\ \A v \in Users \ {u} : ~UserHolds(v, cc)
      /\ \A k \in Cleaners : ~CleanerHolds(k, cc)
      /\ \A d \in CC : UserHolds(u, d) => d = cc
  BY <1>2, <1>4 DEF OneHolder, UserHolds
<1> HIDE DEF cc
<1>6. /\ more \in Seq(CC) /\ IsInjective(more) /\ Len(more) = Len(conns) + 1
      /\ \A y : Contains(more, y) <=> Contains(conns, y) \/ y = cc
  BY <1>3, <1>4, <1>5, AppendList
<1> HIDE DEF more
<1>7. ConnsCountExact'
  <2> DEFINE p == "out"
  <2>1. upc[u] \in CountedPC /\ p \notin CountedPC
    BY <1>1 DEF CountedPC
  <2>2. p \in UserPC /\ upc' = [upc EXCEPT ![u] = p] /\ scratch' = scratch
    BY <1>1, <1>2
  <2> HIDE DEF p
  <2>3. /\ connsCount' + (IF upc[u] \in CountedPC THEN 1 ELSE 0) + Len(conns)
                = connsCount + (IF p \in CountedPC THEN 1 ELSE 0) + Len(conns')
        /\ connsCount' \in Int /\ connsCount' <= MaxConns /\ Len(conns') \in Nat
    BY <1>1, <1>3, <1>6, <2>1
  <2> QED BY <2>2, <2>3, CountKept
<1>8. CMTypeOK' /\ CleanersPlaced'
  BY <1>1, <1>2, <1>6 DEF CMTypeOK, CleanersPlaced
<1>9. UsersPlaced'
  BY <1>1, <1>2, PlacedAfter DEF Busy
<1>10. OneCleaner'
  BY <1>1, <1>2, <1>3, CleanerKept
<1>11. OneHolder'
  <2>1. /\ \A v \in Users \ {u}, d \in CC : UserHolds(v, d)' <=> UserHolds(v, d)
        /\ \A d \in CC : ~UserHolds(u, d)'
    BY <1>1, <1>2, HoldsAfter DEF Busy
  <2>2. \A k \in Cleaners, d \in CC : CleanerHolds(k, d)' <=> CleanerHolds(k, d)
    BY <1>1 DEF CleanerHolds
  <2> QED BY <1>1, <1>2, <1>4, <1>5, <1>6, <2>1, <2>2 DEF OneHolder
<1> QED BY <1>7, <1>8, <1>9, <1>10, <1>11 DEF CMInv

-----------------------------------------------------------------------------
\* The steps of the cleaner.

\* While it is up and stays up, it is the only one, and the users are as they were.
LEMMA CleanerGoesOn ==
    ASSUME CMInv, NEW k \in Cleaners, NEW p \in CleanerPC, kpc' = [kpc EXCEPT ![k] = p],
           kpc[k] # "off", p # "off",
           UNCHANGED <<connsCleanerRun, upc, ucc>>,
           connsCount' > 0 => connsCount > 0
    PROVE  /\ OneCleaner' /\ UsersPlaced' /\ Counted' = Counted
           /\ \A v \in Users, cc \in CC : UserHolds(v, cc)' <=> UserHolds(v, cc)
<1>1. Cardinality(CleanersUp)' = Cardinality(CleanersUp)
  <2>1. Cardinality(CleanersUp)' = Cardinality(CleanersUp)
          + (IF p # "off" THEN 1 ELSE 0) - (IF kpc[k] # "off" THEN 1 ELSE 0)
    BY CleanerMoves DEF CMInv
  <2>2. Cardinality(CleanersUp) \in Nat
    BY FiniteCounts
  <2> QED BY <2>1, <2>2
<1>2. Launching' = Launching /\ Counted' = Counted
  BY DEF Launching, Counted
<1>3. OneCleaner'
  BY <1>1, <1>2 DEF CMInv, OneCleaner
<1>4. UsersPlaced' /\ \A v \in Users, cc \in CC : UserHolds(v, cc)' <=> UserHolds(v, cc)
  BY DEF CMInv, UsersPlaced, UserHolds
<1> QED BY <1>2, <1>3, <1>4

\* What the other cleaners hold: nothing.
LEMMA OthersHoldNothing ==
    ASSUME CMInv, NEW k \in Cleaners, kpc[k] # "off"
    PROVE  \A j \in Cleaners \ {k} :
              /\ scratch[j] = <<>> /\ kpc[j] = "off" /\ kcc[j] = NoConn
              /\ \A cc \in CC : ~CleanerHolds(j, cc)
<1>1. \A j \in Cleaners \ {k} : scratch[j] = <<>> /\ kpc[j] = "off" /\ kcc[j] = NoConn
  BY OnlyCleaner DEF CMInv, CleanersPlaced
<1> QED BY <1>1, EmptyList DEF CleanerHolds

\* The cleaner goes from one of its sections to the next.
LEMMA CleanerQuietInv ==
    ASSUME CMInv, NEW k \in Cleaners, CleanerClosed(k) \/ CleanerSleep(k) \/ CleanerWake(k)
    PROVE  CMInv'
<1>1. PICK p \in CleanerPC \ {"off", "closing"} :
        /\ kpc' = [kpc EXCEPT ![k] = p] /\ kpc[k] \in {"close", "check", "sleep"}
        /\ (kpc[k] = "close" => scratch[k] = <<>>)
        /\ UNCHANGED <<connsCount, conns, connsCleanerRun, cstate, idleFor, upc, ucc, kcc, scratch>>
  BY DEF CleanerClosed, CleanerSleep, CleanerWake, CleanerPC, cmShared, userVars
<1>2. CMTypeOK /\ CleanersPlaced /\ OneHolder /\ ConnsCountExact
  BY DEF CMInv
<1>3. /\ OneCleaner' /\ UsersPlaced' /\ Counted' = Counted
      /\ \A v \in Users, cc \in CC : UserHolds(v, cc)' <=> UserHolds(v, cc)
  <2>1. kpc[k] # "off" /\ p # "off" /\ (connsCount' > 0 => connsCount > 0)
    BY <1>1
  <2> QED BY <1>1, <2>1, CleanerGoesOn
<1>4. CMTypeOK'
  BY <1>1, <1>2 DEF CMTypeOK
<1>5. CleanersPlaced'
  BY <1>1, <1>2 DEF CleanersPlaced, CMTypeOK
<1>6. ConnsCountExact'
  BY <1>1, <1>2, <1>3 DEF ConnsCountExact
<1>7. OneHolder'
  <2>1. \A j \in Cleaners, cc \in CC : CleanerHolds(j, cc)' <=> CleanerHolds(j, cc)
    BY <1>1, <1>2 DEF CleanerHolds, CMTypeOK
  <2> QED BY <1>1, <1>2, <1>3, <2>1, HoldersKept
<1> QED BY <1>3, <1>4, <1>5, <1>6, <1>7 DEF CMInv

\* The cleaner ends: nothing is counted, so it has nothing left to close.
LEMMA CleanerStopInv ==
    ASSUME CMInv, NEW k \in Cleaners, CleanerStop(k)
    PROVE  CMInv'
<1>1. /\ kpc[k] = "check" /\ connsCount = 0 /\ connsCleanerRun' = FALSE
      /\ kpc' = [kpc EXCEPT ![k] = "off"]
      /\ UNCHANGED <<connsCount, conns, cstate, idleFor, upc, ucc, kcc, scratch>>
  BY DEF CleanerStop, userVars
<1>2. CMTypeOK /\ UsersPlaced /\ CleanersPlaced /\ OneHolder /\ ConnsCountExact /\ "off" \in CleanerPC
  BY DEF CMInv, CleanerPC
<1>3. CMTypeOK' /\ UsersPlaced'
  BY <1>1, <1>2 DEF CMTypeOK, UsersPlaced
<1>4. CleanersPlaced'
  BY <1>1, <1>2 DEF CleanersPlaced, CMTypeOK
<1>5. ConnsCountExact'
  BY <1>1, <1>2 DEF ConnsCountExact, Counted
<1>6. OneCleaner'
  <2>1. Cardinality(CleanersUp) = 1 /\ Cardinality(Launching) = 0
    BY <1>1, OnlyCleaner
  <2>2. Cardinality(CleanersUp)' = Cardinality(CleanersUp)
          + (IF "off" # "off" THEN 1 ELSE 0) - (IF kpc[k] # "off" THEN 1 ELSE 0)
    BY <1>1, <1>2, CleanerMoves
  <2>3. Launching' = Launching
    BY <1>1 DEF Launching
  <2>4. Cardinality(CleanersUp)' = 0 /\ Cardinality(Launching)' = 0
    BY <1>1, <2>1, <2>2, <2>3
  <2> QED BY <1>1, <2>4 DEF OneCleaner
<1>7. OneHolder'
  <2>1. \A v \in Users, cc \in CC : UserHolds(v, cc)' <=> UserHolds(v, cc)
    BY <1>1 DEF UserHolds
  <2>2. \A j \in Cleaners, cc \in CC : CleanerHolds(j, cc)' <=> CleanerHolds(j, cc)
    BY <1>1, <1>2 DEF CleanerHolds, CMTypeOK
  <2> QED BY <1>1, <1>2, <2>1, <2>2, HoldersKept
<1> QED BY <1>3, <1>4, <1>5, <1>6, <1>7 DEF CMInv

\* The expired connections go from conns to the cleaner's scratch.
LEMMA CleanerScanInv ==
    ASSUME CMInv, NEW k \in Cleaners, CleanerScan(k)
    PROVE  CMInv'
<1>1. PICK i \in 0 .. Len(conns) :
        /\ scratch' = [scratch EXCEPT ![k] = SubSeq(conns, 1, i)]
        /\ conns' = SubSeq(conns, i + 1, Len(conns))
  BY DEF CleanerScan
<1> DEFINE old == SubSeq(conns, 1, i)
           new == SubSeq(conns, i + 1, Len(conns))
<1>2. /\ scratch' = [scratch EXCEPT ![k] = old] /\ conns' = new
      /\ kpc[k] = "scan" /\ kpc' = [kpc EXCEPT ![k] = "close"]
      /\ UNCHANGED <<connsCount, connsCleanerRun, cstate, idleFor, upc, ucc, kcc>>
  BY <1>1 DEF CleanerScan, userVars
<1>3. CMTypeOK /\ UsersPlaced /\ CleanersPlaced /\ OneHolder /\ ConnsCountExact /\ "close" \in CleanerPC
  BY DEF CMInv, CleanerPC
<1>4. conns \in Seq(CC) /\ IsInjective(conns) /\ Len(conns) \in Nat /\ connsCount \in Nat
  BY <1>3 DEF CMTypeOK, OneHolder
<1>5. /\ old \in Seq(CC) /\ new \in Seq(CC) /\ IsInjective(old) /\ IsInjective(new)
      /\ \A y : Contains(conns, y) <=> Contains(old, y) \/ Contains(new, y)
      /\ \A y : ~(Contains(old, y) /\ Contains(new, y))
  BY <1>4, SplitList
<1>6. Len(old) = i /\ Len(new) = Len(conns) - i
  <2>1. i \in Nat /\ i <= Len(conns) /\ \A j \in 1 .. Len(conns) : conns[j] \in CC
    BY <1>4, ElementOfSeq
  <2>2. Len(old) = IF 1 <= i THEN i - 1 + 1 ELSE 0
    <3>1. \A j \in 1 .. i : conns[j] \in CC
      BY <1>4, <2>1
    <3> QED BY <2>1, <3>1, SubSeqProperties
  <2>3. Len(new) = IF i + 1 <= Len(conns) THEN Len(conns) - (i + 1) + 1 ELSE 0
    <3>1. i + 1 \in Int /\ Len(conns) \in Int /\ \A j \in i + 1 .. Len(conns) : conns[j] \in CC
      BY <1>4, <2>1
    <3> QED BY <3>1, SubSeqProperties
  <2> DEFINE n == Len(conns)
             a == Len(old)
             b == Len(new)
  <2>4. /\ n \in Nat /\ i \in Nat /\ i <= n /\ a = (IF 1 <= i THEN i - 1 + 1 ELSE 0)
        /\ b = (IF i + 1 <= n THEN n - (i + 1) + 1 ELSE 0)
    BY <1>4, <2>1, <2>2, <2>3
  <2> HIDE DEF n, a, b
  <2>5. a = i /\ b = n - i
    BY <2>4
  <2> QED BY <2>5 DEF n, a, b
<1> HIDE DEF old, new
<1>7. /\ OneCleaner' /\ UsersPlaced' /\ Counted' = Counted
      /\ \A v \in Users, cc \in CC : UserHolds(v, cc)' <=> UserHolds(v, cc)
  <2>1. kpc[k] # "off" /\ (connsCount' > 0 => connsCount > 0)
    BY <1>2
  <2> QED BY <1>2, <1>3, <2>1, CleanerGoesOn
<1>8. /\ scratch[k] = <<>>
      /\ \A j \in Cleaners \ {k} : scratch[j] = <<>> /\ kpc[j] = "off" /\ kcc[j] = NoConn
      /\ \A j \in Cleaners \ {k}, cc \in CC : ~CleanerHolds(j, cc)
  BY <1>2, <1>3, OthersHoldNothing DEF CleanersPlaced
<1>9. /\ scratch'[k] = old /\ kpc'[k] = "close" /\ kcc[k] = NoConn
      /\ \A j \in Cleaners \ {k} : scratch'[j] = scratch[j] /\ kpc'[j] = kpc[j]
  BY <1>2, <1>3 DEF CMTypeOK, CleanersPlaced
<1>10. CMTypeOK'
  BY <1>2, <1>3, <1>5 DEF CMTypeOK
<1>11. CleanersPlaced'
  BY <1>2, <1>3, <1>8, <1>9 DEF CleanersPlaced
<1>12. ConnsCountExact'
  <2>1. connsCount = Cardinality(Counted) + Len(conns) + Len(scratch[k]) /\ connsCount <= MaxConns
    BY <1>2, <1>3, CountOfCleaner DEF ConnsCountExact
  <2>2. Len(scratch[k]) = 0 /\ Cardinality(Counted) \in Nat
    BY <1>8, FiniteCounts
  <2>3. connsCount = Cardinality(Counted) + (Len(conns) - i) + i
    BY <1>4, <2>1, <2>2
  <2>4. connsCount' = Cardinality(Counted)' + Len(conns') + Len(scratch'[k])
    BY <1>2, <1>6, <1>7, <1>9, <2>3
  <2>5. \A j \in Cleaners \ {k} : scratch'[j] = <<>>
    BY <1>8, <1>9
  <2> QED BY <1>2, <2>1, <2>4, <2>5 DEF ConnsCountExact
<1>13. OneHolder'
  <2>1. \A j \in Cleaners \ {k}, cc \in CC : ~CleanerHolds(j, cc)'
    BY <1>2, <1>8, <1>9, EmptyList DEF CleanerHolds
  <2>2. \A cc \in CC : CleanerHolds(k, cc)' <=> Contains(old, cc)
    BY <1>9 DEF CleanerHolds
  <2>3. \A cc \in CC : ~CleanerHolds(k, cc)
    BY <1>2, <1>8, EmptyList DEF CleanerHolds
  <2>4. \A j \in Cleaners : IsInjective(scratch'[j])
    BY <1>5, <1>8, <1>9, EmptyList
  <2>5. \A cc \in CC : kcc'[k] # cc
    BY <1>2, <1>9, NoConnAssumption
  <2> QED BY <1>2, <1>3, <1>5, <1>7, <1>8, <2>1, <2>2, <2>3, <2>4, <2>5 DEF OneHolder
<1> QED BY <1>7, <1>10, <1>11, <1>12, <1>13 DEF CMInv

\* The next connection of scratch is counted down, and is then the one being closed.
LEMMA CleanerCloseInv ==
    ASSUME CMInv, NEW k \in Cleaners, CleanerClose(k)
    PROVE  CMInv'
<1> DEFINE list == scratch[k]
           head == Head(list)
           tail == Tail(list)
<1>1. /\ scratch' = [scratch EXCEPT ![k] = tail] /\ list # <<>>
      /\ kcc' = [kcc EXCEPT ![k] = head] /\ connsCount' = connsCount - 1
      /\ kpc[k] = "close" /\ kpc' = [kpc EXCEPT ![k] = "closing"]
      /\ UNCHANGED <<conns, connsCleanerRun, cstate, idleFor, upc, ucc>>
  BY DEF CleanerClose, userVars, CMInv, CMTypeOK
<1>2. /\ CMTypeOK /\ UsersPlaced /\ CleanersPlaced /\ OneHolder /\ ConnsCountExact
      /\ "closing" \in CleanerPC
  BY DEF CMInv, CleanerPC
<1>3. /\ list \in Seq(CC) /\ IsInjective(list) /\ Len(list) \in Nat /\ connsCount \in Nat
      /\ Len(conns) \in Nat
  BY <1>2 DEF CMTypeOK, OneHolder
<1>4. /\ tail \in Seq(CC) /\ head \in CC /\ IsInjective(tail)
      /\ \A y : Contains(list, y) <=> Contains(tail, y) \/ y = head
      /\ ~Contains(tail, head)
  BY <1>1, <1>3, TailList
<1>5. Len(tail) = Len(list) - 1 /\ Len(tail) \in Nat
  BY <1>1, <1>3, HeadTailProperties
<1>6. /\ scratch[k] = list /\ scratch'[k] = tail /\ kpc'[k] = "closing" /\ kcc'[k] = head /\ kcc[k] = NoConn
      /\ \A j \in Cleaners \ {k} : scratch'[j] = scratch[j] /\ kpc'[j] = kpc[j] /\ kcc'[j] = kcc[j]
  BY <1>1, <1>2 DEF CMTypeOK, CleanersPlaced
<1> HIDE DEF list, head, tail
<1>7. /\ OneCleaner' /\ UsersPlaced' /\ Counted' = Counted
      /\ \A v \in Users, cc \in CC : UserHolds(v, cc)' <=> UserHolds(v, cc)
  <2>1. kpc[k] # "off" /\ (connsCount' > 0 => connsCount > 0)
    BY <1>1, <1>3
  <2> QED BY <1>1, <1>2, <2>1, CleanerGoesOn
<1>8. \A j \in Cleaners \ {k} :
        /\ scratch[j] = <<>> /\ kpc[j] = "off" /\ kcc[j] = NoConn
        /\ \A cc \in CC : ~CleanerHolds(j, cc)
  BY <1>1, OthersHoldNothing
<1>9. ConnsCountExact' /\ connsCount' \in Nat
  <2>1. /\ connsCount = Cardinality(Counted) + Len(conns) + Len(list) /\ connsCount <= MaxConns
        /\ MaxConns \in Nat
    BY <1>1, <1>2, <1>6, CountOfCleaner, MaxConnsAssumption DEF ConnsCountExact
  <2>2. Cardinality(Counted) \in Nat
    BY FiniteCounts
  <2>3. /\ connsCount - 1 = Cardinality(Counted) + Len(conns) + Len(tail)
        /\ connsCount - 1 \in Nat /\ connsCount - 1 <= MaxConns
    BY <1>3, <1>5, <2>1, <2>2
  <2>4. /\ connsCount' = Cardinality(Counted)' + Len(conns') + Len(scratch'[k])
        /\ connsCount' \in Nat /\ connsCount' <= MaxConns
    BY <1>1, <1>6, <1>7, <2>3
  <2>5. \A j \in Cleaners \ {k} : scratch'[j] = <<>>
    BY <1>6, <1>8
  <2> QED BY <2>4, <2>5 DEF ConnsCountExact
<1>10. CMTypeOK'
  BY <1>1, <1>2, <1>4, <1>9 DEF CMTypeOK
<1>11. CleanersPlaced'
  BY <1>4, <1>6, <1>8 DEF CleanersPlaced
<1>12. OneHolder'
  <2>1. \A j \in Cleaners \ {k}, cc \in CC : ~CleanerHolds(j, cc)'
    BY <1>6, <1>8, EmptyList DEF CleanerHolds
  <2>2. \A cc \in CC : CleanerHolds(k, cc)' <=> Contains(tail, cc) \/ cc = head
    BY <1>6 DEF CleanerHolds
  <2>3. \A cc \in CC : CleanerHolds(k, cc) <=> Contains(list, cc)
    BY <1>1, <1>6 DEF CleanerHolds
  <2>4. \A cc \in CC : CleanerHolds(k, cc)' <=> CleanerHolds(k, cc)
    BY <1>4, <2>2, <2>3
  <2>5. \A j \in Cleaners : IsInjective(scratch'[j])
    BY <1>4, <1>6, <1>8, EmptyList
  <2>6. \A cc \in CC : ~(Contains(scratch'[k], cc) /\ kcc'[k] = cc)
    BY <1>4, <1>6
  <2>7. \A j \in Cleaners, cc \in CC : CleanerHolds(j, cc)' <=> CleanerHolds(j, cc)
    BY <1>8, <2>1, <2>4
  <2>8. \A j \in Cleaners \ {k}, cc \in CC : ~(Contains(scratch'[j], cc) /\ kcc'[j] = cc)
    BY <1>6, <1>8, NoConnAssumption
  <2> QED BY <1>1, <1>2, <1>7, <2>5, <2>6, <2>7, <2>8 DEF OneHolder
<1> QED BY <1>7, <1>9, <1>10, <1>11, <1>12 DEF CMInv

\* The connection is closed, and its wrapper free.
LEMMA CleanerCloseEndsInv ==
    ASSUME CMInv, NEW k \in Cleaners, CleanerCloseEnds(k)
    PROVE  CMInv'
<1> DEFINE cc == kcc[k]
<1>1. /\ kpc[k] = "closing" /\ cstate' = [cstate EXCEPT ![cc] = "free"]
      /\ idleFor' = [idleFor EXCEPT ![cc] = 0] /\ kcc' = [kcc EXCEPT ![k] = NoConn]
      /\ kpc' = [kpc EXCEPT ![k] = "close"]
      /\ UNCHANGED <<connsCount, conns, connsCleanerRun, upc, ucc, scratch>>
  BY DEF CleanerCloseEnds, cmShared, userVars
<1>2. CMTypeOK /\ UsersPlaced /\ CleanersPlaced /\ OneHolder /\ ConnsCountExact /\ "close" \in CleanerPC
  BY DEF CMInv, CleanerPC
<1>3. cc \in CC /\ CleanerHolds(k, cc) /\ kcc[k] = cc
  BY <1>1, <1>2 DEF CleanersPlaced, CleanerHolds
<1> HIDE DEF cc
<1>4. /\ ~Contains(conns, cc) /\ ~Contains(scratch[k], cc)
      /\ \A v \in Users : ~UserHolds(v, cc)
      /\ \A j \in Cleaners \ {k} : ~CleanerHolds(j, cc)
  BY <1>2, <1>3 DEF OneHolder
<1>5. /\ OneCleaner' /\ UsersPlaced' /\ Counted' = Counted
      /\ \A v \in Users, d \in CC : UserHolds(v, d)' <=> UserHolds(v, d)
  <2>1. kpc[k] # "off" /\ (connsCount' > 0 => connsCount > 0)
    BY <1>1
  <2> QED BY <1>1, <1>2, <2>1, CleanerGoesOn
<1>6. /\ kpc'[k] = "close" /\ kcc'[k] = NoConn /\ cstate'[cc] = "free"
      /\ \A j \in Cleaners \ {k} : kpc'[j] = kpc[j] /\ kcc'[j] = kcc[j]
      /\ \A d \in CC \ {cc} : cstate'[d] = cstate[d]
  BY <1>1, <1>2, <1>3 DEF CMTypeOK
<1>7. CMTypeOK'
  <2>1. idleFor' \in [CC -> 0 .. LongIdle]
    BY <1>1, <1>2, <1>3, MaxConnsAssumption DEF CMTypeOK, LongIdle
  <2> QED BY <1>1, <1>2, <1>3, <2>1 DEF CMTypeOK
<1>8. CleanersPlaced'
  BY <1>1, <1>2, <1>6 DEF CleanersPlaced
<1>9. ConnsCountExact'
  BY <1>1, <1>2, <1>5 DEF ConnsCountExact
<1>10. OneHolder'
  <2>1. \A j \in Cleaners \ {k}, d \in CC : CleanerHolds(j, d)' <=> CleanerHolds(j, d)
    BY <1>1, <1>6 DEF CleanerHolds
  <2>2. \A d \in CC : CleanerHolds(k, d)' <=> CleanerHolds(k, d) /\ d # cc
    BY <1>1, <1>3, <1>4, <1>6 DEF CleanerHolds
  <2>3. \A d \in CC : kcc'[k] # d
    BY <1>6, NoConnAssumption
  <2> QED BY <1>1, <1>2, <1>3, <1>4, <1>5, <1>6, <2>1, <2>2, <2>3 DEF OneHolder
<1> QED BY <1>5, <1>7, <1>8, <1>9, <1>10 DEF CMInv

-----------------------------------------------------------------------------
\* It holds of a manager that nobody has called yet,
LEMMA CMInitInv ==
    ASSUME CMInit
    PROVE  CMInv
<1>1. CMTypeOK
  <2>1. 0 \in 0 .. LongIdle
    BY MaxConnsAssumption DEF LongIdle
  <2>2. idleFor \in [CC -> 0 .. LongIdle] /\ cstate \in [CC -> {"free", "open"}]
    BY <2>1 DEF CMInit
  <2>3. scratch \in [Cleaners -> Seq(CC)] /\ conns \in Seq(CC)
    BY EmptySeq DEF CMInit
  <2>4. upc \in [Users -> UserPC] /\ ucc \in [Users -> CC \cup {NoConn}]
    BY DEF CMInit, UserPC
  <2>5. kpc \in [Cleaners -> CleanerPC] /\ kcc \in [Cleaners -> CC \cup {NoConn}]
    BY DEF CMInit, CleanerPC
  <2>6. connsCount \in Nat /\ connsCleanerRun \in BOOLEAN
    BY DEF CMInit
  <2> QED BY <2>2, <2>3, <2>4, <2>5, <2>6 DEF CMTypeOK
<1>2. UsersPlaced /\ CleanersPlaced
  BY DEF CMInit, UsersPlaced, CleanersPlaced, Busy
<1>3. Counted = {} /\ Launching = {} /\ CleanersUp = {}
  BY DEF CMInit, Counted, Launching, CleanersUp
<1>4. ConnsCountExact
  <2>1. PICK k \in Cleaners : TRUE
    BY UsersAssumption
  <2>2. Len(conns) = 0 /\ Len(scratch[k]) = 0 /\ connsCount = 0
    BY DEF CMInit
  <2>3. \A j \in Cleaners \ {k} : scratch[j] = <<>>
    BY DEF CMInit
  <2>4. Cardinality(Counted) = 0
    BY <1>3, FS_EmptySet
  <2> QED BY <2>2, <2>3, <2>4, MaxConnsAssumption DEF ConnsCountExact
<1>5. OneHolder
  <2>1. /\ IsInjective(conns) /\ \A k \in Cleaners : IsInjective(scratch[k])
        /\ \A cc \in CC : ~Contains(conns, cc) /\ cstate[cc] = "free"
    BY EmptyList DEF CMInit
  <2>2. \A cc \in CC : /\ \A u \in Users : ~UserHolds(u, cc)
                       /\ \A k \in Cleaners : ~CleanerHolds(k, cc)
    BY EmptyList DEF CMInit, UserHolds, CleanerHolds
  <2> QED BY <2>1, <2>2 DEF OneHolder
<1>6. OneCleaner
  BY <1>3, FS_EmptySet DEF CMInit, OneCleaner
<1> QED BY <1>1, <1>2, <1>4, <1>5, <1>6 DEF CMInv

\* and every step keeps it.
LEMMA CMStepInv ==
    ASSUME CMInv, [CMNext]_cmVars
    PROVE  CMInv'
<1>1. CASE UNCHANGED cmVars
  <2>1. UNCHANGED <<connsCount, conns, connsCleanerRun, cstate, idleFor, upc, ucc, kpc, kcc, scratch>>
    BY <1>1 DEF cmVars, cmShared, userVars, cleanerVars
  <2>2. CMTypeOK' /\ UsersPlaced' /\ CleanersPlaced'
    BY <2>1 DEF CMInv, CMTypeOK, UsersPlaced, CleanersPlaced
  <2>3. ConnsCountExact' /\ OneCleaner'
    BY <2>1 DEF CMInv, ConnsCountExact, Counted, OneCleaner, Launching, CleanersUp
  <2>4. OneHolder'
    <3>1. /\ \A v \in Users, cc \in CC : UserHolds(v, cc)' <=> UserHolds(v, cc)
          /\ \A k \in Cleaners, cc \in CC : CleanerHolds(k, cc)' <=> CleanerHolds(k, cc)
      BY <2>1 DEF UserHolds, CleanerHolds
    <3> QED BY <2>1, <3>1, HoldersKept DEF CMInv
  <2> QED BY <2>2, <2>3, <2>4 DEF CMInv
<1>2. CASE Tick
  BY <1>2, TickInv
<1>3. ASSUME NEW u \in Users, Acquire(u) PROVE CMInv'
  <2>1. CASE AcquireIdle(u)
    BY <2>1, AcquireIdleInv
  <2>2. CASE AcquireNew(u)
    BY <2>2, AcquireNewInv
  <2>3. CASE AcquireNone(u)
    BY <1>1, <2>3 DEF AcquireNone
  <2> QED BY <1>3, <2>1, <2>2, <2>3 DEF Acquire
<1>4. ASSUME NEW u \in Users, CloseConn(u) \/ ReleaseConn(u) \/ UserStep(u) PROVE CMInv'
  <2>1. ASSUME NEW k \in Cleaners, Launch(u, k) PROVE CMInv'
    BY <2>1, LaunchInv
  <2>2. ASSUME NEW cc \in CC, DialOK(u, cc) PROVE CMInv'
    BY <2>2, DialOKInv
  <2>3. CASE CloseConnEnds(u)
    BY <2>3, CloseConnEndsInv
  <2>4. CASE ReleaseAppend(u)
    BY <2>4, ReleaseAppendInv
  <2>5. CASE DialFails(u) \/ CloseConn(u) \/ ReleaseConn(u) \/ ReleaseClosed(u) \/ ReleaseStamp(u)
    BY <2>5, UserGoesOnInv
  <2> QED BY <1>4, <2>1, <2>2, <2>3, <2>4, <2>5 DEF UserStep
<1>5. ASSUME NEW k \in Cleaners, CleanerStep(k) PROVE CMInv'
  <2>1. CASE CleanerScan(k)
    BY <2>1, CleanerScanInv
  <2>2. CASE CleanerClose(k)
    BY <2>2, CleanerCloseInv
  <2>3. CASE CleanerCloseEnds(k)
    BY <2>3, CleanerCloseEndsInv
  <2>4. CASE CleanerStop(k)
    BY <2>4, CleanerStopInv
  <2>5. CASE CleanerClosed(k) \/ CleanerSleep(k) \/ CleanerWake(k)
    BY <2>5, CleanerQuietInv
  <2> QED BY <1>5, <2>1, <2>2, <2>3, <2>4, <2>5 DEF CleanerStep
<1> QED BY <1>1, <1>2, <1>3, <1>4, <1>5 DEF CMNext

-----------------------------------------------------------------------------
\* The connection manager keeps its invariant.
THEOREM ManagerInvariant == CMSpec => []CMInv
<1>1. CMInit => CMInv
  BY CMInitInv
<1>2. CMInv /\ [CMNext]_cmVars => CMInv'
  BY CMStepInv
<1> QED BY <1>1, <1>2, PTL DEF CMSpec

\* Its variables have their types; in particular connsCount never goes below 0.
THEOREM ManagerTypeCorrect == CMSpec => []CMTypeOK
<1>1. CMInv => CMTypeOK
  BY DEF CMInv
<1> QED BY <1>1, ManagerInvariant, PTL

\* AcquireConn, CloseConn, ReleaseConn and connsCleaner together keep connsCount
\* equal to the connections there are, and never more than MaxConns.
THEOREM CountIsExact == CMSpec => []ConnsCountExact
<1>1. CMInv => ConnsCountExact
  BY DEF CMInv
<1> QED BY <1>1, ManagerInvariant, PTL

\* No connection is with two users, with a user and the cleaner, or with one of
\* them and idle; none that is with one of them is back in connPool.
THEOREM ConnsHaveOneHolder == CMSpec => []OneHolder
<1>1. CMInv => OneHolder
  BY DEF CMInv
<1> QED BY <1>1, ManagerInvariant, PTL

\* connsCleanerRun is right about the cleaner, which is there while a connection is.
THEOREM ManagerHasOneCleaner == CMSpec => []OneCleaner
<1>1. CMInv => OneCleaner
  BY DEF CMInv
<1> QED BY <1>1, ManagerInvariant, PTL

-----------------------------------------------------------------------------
(* The host client *)

\* A connection is with at most one user, and open while it is.
HeldApart ==
    /\ \A u \in Users : upc[u] \in Busy => ucc[u] \in CC /\ cstate[ucc[u]] = "open"
    /\ \A u, v \in Users : upc[u] \in Busy /\ upc[v] \in Busy /\ ucc[u] = ucc[v] => u = v

Accounted ==
    /\ CMTypeOK
    /\ conns = <<>>
    /\ IsFiniteSet(OpenConns)
    /\ HeldApart
    /\ ConnsAccounted

\* Where a request is, and where it is in the ConnManager.
Coupled(u) ==
    /\ hpc[u] \in {"idle", "dial", "return"} => upc[u] = "out"
    /\ hpc[u] = "acquire" => upc[u] \in {"out", "launch", "dial"}
    /\ hpc[u] \in {"write", "send", "read", "peek", "body", "tunnel", "forward"} => upc[u] = "using"
    /\ hpc[u] = "closing" => upc[u] = "closing"

\* do has returned, or is about to, and its caller will not call it again.
GivenUp(u) == hpc[u] \in {"closing", "return"} /\ ~outcome[u].retry

\* A response that has begun is being read, or do will not be called again.
\* A request that was read from the client is in the cache, or the same.
RequestSound(u) ==
    /\ Coupled(u)
    /\ hpc[u] = "idle" => consumed[u] = 0 /\ ~cached[u] /\ ~responding[u]
    /\ responding[u] => hpc[u] = "body" \/ GivenUp(u)
    /\ kind[u] = "get" => consumed[u] <= 1
    /\ kind[u] = "get" /\ consumed[u] = 1 => cached[u] \/ GivenUp(u)

\* The calls of Do that have not returned.
Pending == {u \in Users : hpc[u] # "idle" /\ kind[u] # "raw"}
PendingExact == pendingRequests = Cardinality(Pending)

\* The types of what HostClient adds to the ConnManager.
RequestPC == {"idle", "dial", "acquire", "write", "send", "read",
              "peek", "body", "tunnel", "forward", "closing", "return"}
RequestTypeOK ==
    /\ hpc \in [Users -> RequestPC]
    /\ kind \in [Users -> {"get", "post", "raw"}]
    /\ attempts \in [Users -> 0 .. MaxAttempts]
    /\ redials \in [Users -> 0 .. MaxRedials]
    /\ dialled \in [Users -> {"none", "conn", "eof", "err"}]
    /\ cached \in [Users -> BOOLEAN]
    /\ outcome \in [Users -> [retry : BOOLEAN, err : Errors]]
    /\ consumed \in [Users -> Nat]
    /\ responding \in [Users -> BOOLEAN]
SockTypeOK ==
    /\ armed \in [CC -> SUBSET {"read", "write"}]
    /\ recent \in [CC -> SUBSET {"read", "write"}]

HCInv ==
    /\ Accounted
    /\ RequestTypeOK
    /\ SockTypeOK
    /\ \A u \in Users : RequestSound(u)
    /\ PendingExact

-----------------------------------------------------------------------------
\* What the steps of HostClient do to the ConnManager.

\* Nothing.
LEMMA AccountedKept ==
    ASSUME Accounted, UNCHANGED cmVars
    PROVE  Accounted'
<1>1. UNCHANGED <<connsCount, conns, connsCleanerRun, cstate, idleFor, upc, ucc, kpc, kcc, scratch>>
  BY DEF cmVars, cmShared, userVars, cleanerVars
<1>2. CMTypeOK' /\ HeldApart'
  BY <1>1 DEF Accounted, CMTypeOK, HeldApart
<1>3. OpenConns' = OpenConns /\ Reserved' = Reserved
  BY <1>1 DEF OpenConns, Closing, Reserved
<1>4. ConnsAccounted'
  BY <1>1, <1>3 DEF Accounted, ConnsAccounted
<1> QED BY <1>1, <1>2, <1>3, <1>4 DEF Accounted

\* The users with a slot and no connection are finitely many.
LEMMA ReservedFinite == IsFiniteSet(Reserved) /\ Cardinality(Reserved) \in Nat
<1>1. Reserved \in SUBSET Users
  BY DEF Reserved
<1> QED BY <1>1, UsersAssumption, FS_Subset, FS_CardinalityType

\* The count changes with the slots and the open connections.
LEMMA AccountedAfter ==
    ASSUME Accounted, CMTypeOK', conns' = conns, HeldApart', IsFiniteSet(OpenConns'),
           NEW d \in Int, NEW e \in Int, connsCount' = connsCount + d + e, connsCount' <= MaxConns,
           Cardinality(OpenConns') = Cardinality(OpenConns) + d,
           Cardinality(Reserved') = Cardinality(Reserved) + e
    PROVE  Accounted'
<1> DEFINE open == Cardinality(OpenConns)
           kept == Cardinality(Reserved)
           openNow == Cardinality(OpenConns')
           keptNow == Cardinality(Reserved')
<1>1. connsCount = open + kept /\ open \in Nat /\ kept \in Nat
  BY ReservedFinite, FS_CardinalityType DEF Accounted, ConnsAccounted
<1>2. openNow = open + d /\ keptNow = kept + e
  OBVIOUS
<1> HIDE DEF open, kept, openNow, keptNow
<1>3. connsCount' = openNow + keptNow
  BY <1>1, <1>2
<1>4. ConnsAccounted'
  BY <1>3 DEF ConnsAccounted, openNow, keptNow
<1> QED BY <1>4 DEF Accounted

\* A user that goes from one program counter to another joins the users with a
\* slot and no connection, or leaves them.
LEMMA ReservedMoves ==
    ASSUME CMTypeOK, NEW u \in Users, NEW p \in UserPC, upc' = [upc EXCEPT ![u] = p]
    PROVE  /\ (p \in {"launch", "dial"} <=> upc[u] \in {"launch", "dial"}) => Reserved' = Reserved
           /\ p \in {"launch", "dial"} /\ upc[u] \notin {"launch", "dial"} =>
                 Cardinality(Reserved') = Cardinality(Reserved) + 1
           /\ p \notin {"launch", "dial"} /\ upc[u] \in {"launch", "dial"} =>
                 Cardinality(Reserved') = Cardinality(Reserved) - 1
<1>1. upc'[u] = p /\ \A v \in Users \ {u} : upc'[v] = upc[v]
  BY DEF CMTypeOK
<1>2. IsFiniteSet(Reserved)
  BY ReservedFinite
<1>3. (p \in {"launch", "dial"} <=> upc[u] \in {"launch", "dial"}) => Reserved' = Reserved
  BY <1>1 DEF Reserved
<1>4. ASSUME p \in {"launch", "dial"}, upc[u] \notin {"launch", "dial"}
      PROVE  Cardinality(Reserved') = Cardinality(Reserved) + 1
  <2>1. Reserved' = Reserved \cup {u} /\ u \notin Reserved
    BY <1>1, <1>4 DEF Reserved
  <2> QED BY <1>2, <2>1, FS_AddElement
<1>5. ASSUME p \notin {"launch", "dial"}, upc[u] \in {"launch", "dial"}
      PROVE  Cardinality(Reserved') = Cardinality(Reserved) - 1
  <2>1. Reserved' = Reserved \ {u} /\ u \in Reserved
    BY <1>1, <1>5 DEF Reserved
  <2> QED BY <1>2, <2>1, FS_RemoveElement
<1> QED BY <1>3, <1>4, <1>5

\* A slot is taken, or the cleaner launched.
LEMMA TakeSlotAccounted ==
    ASSUME Accounted, NEW u \in Users, AcquireNew(u) \/ \E k \in Cleaners : Launch(u, k)
    PROVE  Accounted'
<1>1. /\ CMTypeOK /\ HeldApart /\ connsCount \in Nat /\ IsFiniteSet(OpenConns)
      /\ Cardinality(OpenConns) \in Nat /\ Cardinality(Reserved) \in Nat /\ connsCount <= MaxConns
  BY ReservedFinite, FS_CardinalityType DEF Accounted, CMTypeOK, ConnsAccounted
<1>2. CASE AcquireNew(u)
  <2> DEFINE p == IF connsCleanerRun THEN "dial" ELSE "launch"
  <2>1. /\ upc[u] = "out" /\ connsCount' = connsCount + 1 /\ connsCleanerRun' = TRUE
        /\ upc' = [upc EXCEPT ![u] = p] /\ connsCount < MaxConns
        /\ UNCHANGED <<conns, cstate, idleFor, ucc, kpc, kcc, scratch>>
    BY <1>2 DEF AcquireNew, cleanerVars
  <2>2. p \in UserPC /\ p \in {"launch", "dial"} /\ p \notin Busy
    BY DEF UserPC, Busy
  <2> HIDE DEF p
  <2>3. CMTypeOK' /\ HeldApart'
    BY <1>1, <2>1, <2>2 DEF CMTypeOK, HeldApart
  <2>4. OpenConns' = OpenConns
    <3>1. \A v \in Users : upc'[v] = "closing" <=> upc[v] = "closing"
      BY <1>1, <2>1, <2>2 DEF CMTypeOK
    <3> QED BY <2>1, <3>1 DEF OpenConns, Closing
  <2>5. Cardinality(Reserved') = Cardinality(Reserved) + 1
    BY <1>1, <2>1, <2>2, ReservedMoves
  <2>6. /\ Cardinality(OpenConns') = Cardinality(OpenConns) + 0
        /\ connsCount' = connsCount + 0 + 1
        /\ connsCount' <= MaxConns
    BY <1>1, <2>1, <2>4, MaxConnsAssumption
  <2> QED BY <1>1, <2>1, <2>3, <2>4, <2>5, <2>6, AccountedAfter
<1>3. ASSUME NEW k \in Cleaners, Launch(u, k) PROVE Accounted'
  <2> DEFINE p == "dial"
  <2>1. /\ upc[u] = "launch" /\ kpc' = [kpc EXCEPT ![k] = "scan"] /\ upc' = [upc EXCEPT ![u] = p]
        /\ UNCHANGED <<connsCount, conns, connsCleanerRun, cstate, idleFor, ucc, kcc, scratch>>
    BY <1>3 DEF Launch, cmShared
  <2>2. /\ p \in UserPC /\ p \in {"launch", "dial"} /\ p \notin Busy /\ "scan" \in CleanerPC
        /\ upc[u] \in {"launch", "dial"}
    BY <2>1 DEF UserPC, Busy, CleanerPC
  <2> HIDE DEF p
  <2>3. CMTypeOK' /\ HeldApart'
    BY <1>1, <2>1, <2>2 DEF CMTypeOK, HeldApart
  <2>4. OpenConns' = OpenConns
    <3>1. \A v \in Users : upc'[v] = "closing" <=> upc[v] = "closing"
      BY <1>1, <2>1, <2>2 DEF CMTypeOK
    <3> QED BY <2>1, <3>1 DEF OpenConns, Closing
  <2>5. Reserved' = Reserved
    BY <1>1, <2>1, <2>2, ReservedMoves
  <2>6. /\ Cardinality(OpenConns') = Cardinality(OpenConns) + 0
        /\ Cardinality(Reserved') = Cardinality(Reserved) + 0
        /\ connsCount' = connsCount + 0 + 0
        /\ connsCount' <= MaxConns
    BY <1>1, <2>1, <2>4, <2>5
  <2> QED BY <1>1, <2>1, <2>3, <2>4, <2>6, AccountedAfter
<1> QED BY <1>2, <1>3

\* A connection is wrapped: the wrapper was free, so nobody had it.
LEMMA DialOKAccounted ==
    ASSUME Accounted, NEW u \in Users, NEW cc \in CC, DialOK(u, cc)
    PROVE  Accounted'
<1> DEFINE p == "using"
<1>1. /\ CMTypeOK /\ HeldApart /\ connsCount \in Nat /\ IsFiniteSet(OpenConns)
      /\ Cardinality(OpenConns) \in Nat /\ Cardinality(Reserved) \in Nat /\ connsCount <= MaxConns
  BY ReservedFinite, FS_CardinalityType DEF Accounted, CMTypeOK, ConnsAccounted
<1>2. /\ upc[u] = "dial" /\ cstate[cc] = "free" /\ cstate' = [cstate EXCEPT ![cc] = "open"]
      /\ ucc' = [ucc EXCEPT ![u] = cc] /\ upc' = [upc EXCEPT ![u] = p]
      /\ UNCHANGED <<connsCount, conns, connsCleanerRun, idleFor, kpc, kcc, scratch>>
  BY DEF DialOK, cmShared, cleanerVars
<1>3. /\ p \in UserPC /\ p \in Busy /\ p \notin {"launch", "dial", "closing"}
      /\ upc[u] \in {"launch", "dial"} /\ upc[u] # "closing"
  BY <1>2 DEF UserPC, Busy
<1> HIDE DEF p
<1>4. CMTypeOK'
  BY <1>1, <1>2, <1>3 DEF CMTypeOK
<1>5. /\ upc'[u] = p /\ ucc'[u] = cc /\ cstate'[cc] = "open"
      /\ \A v \in Users \ {u} : upc'[v] = upc[v] /\ ucc'[v] = ucc[v]
      /\ \A e \in CC \ {cc} : cstate'[e] = cstate[e]
  BY <1>1, <1>2 DEF CMTypeOK
<1>6. \A v \in Users : upc[v] \in Busy => ucc[v] # cc
  BY <1>1, <1>2 DEF HeldApart
<1>7. HeldApart'
  BY <1>1, <1>5, <1>6 DEF HeldApart
<1>8. OpenConns' = OpenConns \cup {cc} /\ cc \notin OpenConns
  <2>1. \A e \in CC : Closing(e)' <=> Closing(e)
    BY <1>3, <1>5 DEF Closing
  <2>2. ~Closing(cc)
    BY <1>6 DEF Closing, Busy
  <2> QED BY <1>2, <1>5, <2>1, <2>2 DEF OpenConns
<1>9. IsFiniteSet(OpenConns') /\ Cardinality(OpenConns') = Cardinality(OpenConns) + 1
  BY <1>1, <1>8, FS_AddElement
<1>10. Cardinality(Reserved') = Cardinality(Reserved) + (-1)
  <2>1. Cardinality(Reserved') = Cardinality(Reserved) - 1
    BY <1>1, <1>2, <1>3, ReservedMoves
  <2> QED BY <1>1, <2>1
<1>11. connsCount' = connsCount + 1 + (-1) /\ connsCount' <= MaxConns
  BY <1>1, <1>2
<1> QED BY <1>2, <1>4, <1>7, <1>9, <1>10, <1>11, AccountedAfter

\* A dial failed: its slot is given back.
LEMMA DialFailsAccounted ==
    ASSUME Accounted, NEW u \in Users, DialFails(u)
    PROVE  Accounted'
<1> DEFINE p == "out"
<1>1. /\ CMTypeOK /\ HeldApart /\ connsCount \in Nat /\ IsFiniteSet(OpenConns)
      /\ Cardinality(OpenConns) \in Nat /\ Cardinality(Reserved) \in Nat /\ connsCount <= MaxConns
      /\ connsCount = Cardinality(OpenConns) + Cardinality(Reserved)
  BY ReservedFinite, FS_CardinalityType DEF Accounted, CMTypeOK, ConnsAccounted
<1>2. /\ upc[u] = "dial" /\ upc' = [upc EXCEPT ![u] = p] /\ connsCount' = connsCount - 1
      /\ UNCHANGED <<conns, connsCleanerRun, cstate, idleFor, ucc, kpc, kcc, scratch>>
  BY DEF DialFails, cleanerVars
<1>3. /\ p \in UserPC /\ p \notin Busy /\ p \notin {"launch", "dial", "closing"}
      /\ upc[u] \in {"launch", "dial"} /\ upc[u] # "closing"
  BY <1>2 DEF UserPC, Busy
<1> HIDE DEF p
<1>4. Cardinality(Reserved) # 0
  <2>1. u \in Reserved
    BY <1>3 DEF Reserved
  <2> QED BY <2>1, ReservedFinite, FS_EmptySet
<1>5. connsCount' \in Nat
  BY <1>1, <1>2, <1>4
<1>6. CMTypeOK' /\ HeldApart'
  BY <1>1, <1>2, <1>3, <1>5 DEF CMTypeOK, HeldApart
<1>7. OpenConns' = OpenConns
  <2>1. \A v \in Users : upc'[v] = "closing" <=> upc[v] = "closing"
    BY <1>1, <1>2, <1>3 DEF CMTypeOK
  <2> QED BY <1>2, <2>1 DEF OpenConns, Closing
<1>8. Cardinality(Reserved') = Cardinality(Reserved) + (-1)
  <2>1. Cardinality(Reserved') = Cardinality(Reserved) - 1
    BY <1>1, <1>2, <1>3, ReservedMoves
  <2> QED BY <1>1, <2>1
<1>9. /\ Cardinality(OpenConns') = Cardinality(OpenConns) + 0
      /\ connsCount' = connsCount + 0 + (-1) /\ connsCount' <= MaxConns
  BY <1>1, <1>2, <1>7, MaxConnsAssumption
<1> QED BY <1>1, <1>2, <1>6, <1>7, <1>8, <1>9, AccountedAfter

\* CloseConn is called: one open connection is counted down, and it was counted.
LEMMA CloseConnAccounted ==
    ASSUME Accounted, NEW u \in Users, CloseConn(u)
    PROVE  Accounted'
<1> DEFINE p == "closing"
           cc == ucc[u]
<1>1. /\ CMTypeOK /\ HeldApart /\ connsCount \in Nat /\ IsFiniteSet(OpenConns)
      /\ Cardinality(OpenConns) \in Nat /\ Cardinality(Reserved) \in Nat /\ connsCount <= MaxConns
      /\ connsCount = Cardinality(OpenConns) + Cardinality(Reserved)
  BY ReservedFinite, FS_CardinalityType DEF Accounted, CMTypeOK, ConnsAccounted
<1>2. /\ upc[u] = "using" /\ upc' = [upc EXCEPT ![u] = p] /\ connsCount' = connsCount - 1
      /\ UNCHANGED <<conns, connsCleanerRun, cstate, idleFor, ucc, kpc, kcc, scratch>>
  BY DEF CloseConn, cleanerVars
<1>3. /\ p \in UserPC /\ p \in Busy /\ p = "closing" /\ p \notin {"launch", "dial"}
      /\ upc[u] \in Busy /\ upc[u] \notin {"launch", "dial"} /\ upc[u] # "closing"
  BY <1>2 DEF UserPC, Busy
<1>4. /\ cc \in CC /\ cstate[cc] = "open"
      /\ \A v \in Users \ {u} : upc[v] \in Busy => ucc[v] # cc
  BY <1>1, <1>3 DEF HeldApart
<1> HIDE DEF p
<1>5. upc'[u] = p /\ \A v \in Users \ {u} : upc'[v] = upc[v]
  BY <1>1, <1>2 DEF CMTypeOK
<1>6. OpenConns' = OpenConns \ {cc} /\ cc \in OpenConns
  <2>1. ~Closing(cc)
    BY <1>3, <1>4 DEF Closing, Busy
  <2>2. \A e \in CC : Closing(e)' <=> Closing(e) \/ e = cc
    BY <1>2, <1>3, <1>5 DEF Closing
  <2> QED BY <1>2, <1>4, <2>1, <2>2 DEF OpenConns
<1> HIDE DEF cc
<1>7. IsFiniteSet(OpenConns') /\ Cardinality(OpenConns') = Cardinality(OpenConns) + (-1)
  <2>1. IsFiniteSet(OpenConns') /\ Cardinality(OpenConns') = Cardinality(OpenConns) - 1
    BY <1>1, <1>6, FS_RemoveElement
  <2> QED BY <1>1, <2>1
<1>8. connsCount' \in Nat
  <2>1. Cardinality(OpenConns) # 0
    BY <1>1, <1>6, FS_EmptySet
  <2> QED BY <1>1, <1>2, <2>1
<1>9. CMTypeOK'
  BY <1>1, <1>2, <1>3, <1>8 DEF CMTypeOK
<1>10. HeldApart'
  BY <1>1, <1>2, <1>3, <1>5 DEF HeldApart
<1>11. Reserved' = Reserved
  BY <1>1, <1>2, <1>3, ReservedMoves
<1>12. /\ Cardinality(Reserved') = Cardinality(Reserved) + 0
       /\ connsCount' = connsCount + (-1) + 0 /\ connsCount' <= MaxConns
  BY <1>1, <1>2, <1>11, MaxConnsAssumption
<1> QED BY <1>2, <1>7, <1>9, <1>10, <1>12, AccountedAfter

\* CloseConn ends: the wrapper is free, and it is nobody else's.
LEMMA CloseConnEndsAccounted ==
    ASSUME Accounted, NEW u \in Users, CloseConnEnds(u)
    PROVE  Accounted'
<1> DEFINE p == "out"
           cc == ucc[u]
<1>1. /\ CMTypeOK /\ HeldApart /\ connsCount \in Nat /\ IsFiniteSet(OpenConns)
      /\ Cardinality(OpenConns) \in Nat /\ Cardinality(Reserved) \in Nat /\ connsCount <= MaxConns
  BY ReservedFinite, FS_CardinalityType DEF Accounted, CMTypeOK, ConnsAccounted
<1>2. /\ upc[u] = "closing" /\ cstate' = [cstate EXCEPT ![cc] = "free"]
      /\ ucc' = [ucc EXCEPT ![u] = NoConn] /\ upc' = [upc EXCEPT ![u] = p]
      /\ UNCHANGED <<connsCount, conns, connsCleanerRun, idleFor, kpc, kcc, scratch>>
  BY DEF CloseConnEnds, cmShared, cleanerVars
<1>3. /\ p \in UserPC /\ p \notin Busy /\ p \notin {"launch", "dial"} /\ p # "closing"
      /\ upc[u] \in Busy /\ upc[u] \notin {"launch", "dial"}
  BY <1>2 DEF UserPC, Busy
<1>4. /\ cc \in CC /\ \A v \in Users \ {u} : upc[v] \in Busy => ucc[v] # cc
      /\ Closing(cc)
  BY <1>1, <1>2, <1>3 DEF HeldApart, Closing
<1>5. \A e \in CC \ {cc} : ucc[u] # e
  OBVIOUS
<1> HIDE DEF p, cc
<1>6. CMTypeOK'
  BY <1>1, <1>2, <1>3, <1>4 DEF CMTypeOK
<1>7. /\ upc'[u] = p /\ cstate'[cc] = "free"
      /\ \A v \in Users \ {u} : upc'[v] = upc[v] /\ ucc'[v] = ucc[v]
      /\ \A e \in CC \ {cc} : cstate'[e] = cstate[e]
  BY <1>1, <1>2, <1>4 DEF CMTypeOK
<1>8. HeldApart'
  BY <1>1, <1>3, <1>4, <1>7 DEF HeldApart
<1>9. OpenConns' = OpenConns
  <2>1. \A e \in CC \ {cc} : Closing(e)' <=> Closing(e)
    BY <1>3, <1>5, <1>7 DEF Closing
  <2> QED BY <1>4, <1>7, <2>1 DEF OpenConns
<1>10. Reserved' = Reserved
  BY <1>1, <1>2, <1>3, ReservedMoves
<1>11. /\ Cardinality(OpenConns') = Cardinality(OpenConns) + 0
       /\ Cardinality(Reserved') = Cardinality(Reserved) + 0
       /\ connsCount' = connsCount + 0 + 0 /\ connsCount' <= MaxConns
  BY <1>1, <1>2, <1>9, <1>10
<1> QED BY <1>1, <1>2, <1>6, <1>8, <1>9, <1>11, AccountedAfter

\* A connection is forgotten: it stays open, and counted.
LEMMA LeakAccounted ==
    ASSUME Accounted, NEW u \in Users, upc[u] = "using", upc' = [upc EXCEPT ![u] = "out"],
           ucc' = [ucc EXCEPT ![u] = NoConn], UNCHANGED <<cmShared, cstate, idleFor, cleanerVars>>
    PROVE  Accounted'
<1> DEFINE p == "out"
<1>1. /\ CMTypeOK /\ HeldApart /\ connsCount \in Nat /\ IsFiniteSet(OpenConns)
      /\ Cardinality(OpenConns) \in Nat /\ Cardinality(Reserved) \in Nat /\ connsCount <= MaxConns
  BY ReservedFinite, FS_CardinalityType DEF Accounted, CMTypeOK, ConnsAccounted
<1>2. /\ upc' = [upc EXCEPT ![u] = p]
      /\ UNCHANGED <<connsCount, conns, connsCleanerRun, cstate, idleFor, kpc, kcc, scratch>>
  BY DEF cmShared, cleanerVars
<1>3. /\ p \in UserPC /\ p \notin Busy /\ p \notin {"launch", "dial"} /\ p # "closing"
      /\ upc[u] \notin {"launch", "dial"} /\ upc[u] # "closing"
  BY DEF UserPC, Busy
<1> HIDE DEF p
<1>4. CMTypeOK'
  BY <1>1, <1>2, <1>3 DEF CMTypeOK
<1>5. upc'[u] = p /\ \A v \in Users \ {u} : upc'[v] = upc[v] /\ ucc'[v] = ucc[v]
  BY <1>1, <1>2 DEF CMTypeOK
<1>6. HeldApart'
  BY <1>1, <1>2, <1>3, <1>5 DEF HeldApart
<1>7. OpenConns' = OpenConns
  <2>1. \A e \in CC : Closing(e)' <=> Closing(e)
    BY <1>3, <1>5 DEF Closing
  <2> QED BY <1>2, <2>1 DEF OpenConns
<1>8. Reserved' = Reserved
  BY <1>1, <1>2, <1>3, ReservedMoves
<1>9. /\ Cardinality(OpenConns') = Cardinality(OpenConns) + 0
      /\ Cardinality(Reserved') = Cardinality(Reserved) + 0
      /\ connsCount' = connsCount + 0 + 0 /\ connsCount' <= MaxConns
  BY <1>1, <1>2, <1>7, <1>8
<1> QED BY <1>1, <1>2, <1>4, <1>6, <1>7, <1>9, AccountedAfter

-----------------------------------------------------------------------------
\* What they do to the requests.

\* The request of v is left alone.
Left(v) ==
    /\ hpc'[v] = hpc[v] /\ upc'[v] = upc[v] /\ kind'[v] = kind[v] /\ cached'[v] = cached[v]
    /\ outcome'[v] = outcome[v] /\ consumed'[v] = consumed[v] /\ responding'[v] = responding[v]

\* The request of u goes on, and the others are left alone; do is called again
\* only when it told Do to.
Proceeds(u) ==
    /\ RequestTypeOK' /\ SockTypeOK'
    /\ RequestSound(u)'
    /\ \A v \in Users \ {u} : Left(v)
    /\ hpc[u] # "idle" /\ hpc'[u] # "idle" /\ kind' = kind /\ pendingRequests' = pendingRequests
    /\ hpc[u] = "return" /\ hpc'[u] = "dial" => outcome[u].retry

\* A request that is left alone stays sound.
LEMMA LeftSound ==
    ASSUME NEW v \in Users, RequestSound(v), Left(v)
    PROVE  RequestSound(v)'
  BY DEF RequestSound, Coupled, GivenUp, Left

\* A step that lets a request go on keeps the invariant.
LEMMA ProceedsInv ==
    ASSUME HCInv, NEW u \in Users, Accounted', Proceeds(u)
    PROVE  HCInv'
<1>1. \A v \in Users : RequestSound(v)'
  BY LeftSound DEF HCInv, Proceeds
<1>2. Pending' = Pending
  BY DEF Pending, Proceeds, Left
<1>3. PendingExact'
  BY <1>2 DEF HCInv, PendingExact, Proceeds
<1> QED BY <1>1, <1>3 DEF HCInv, Proceeds

\* What the invariant says of one request.
LEMMA OfRequest ==
    ASSUME HCInv, NEW u \in Users
    PROVE  /\ RequestTypeOK /\ SockTypeOK /\ RequestSound(u) /\ upc \in [Users -> UserPC]
           /\ hpc[u] \in RequestPC /\ consumed[u] \in Nat /\ ucc[u] \in CC \cup {NoConn}
  BY DEF HCInv, RequestTypeOK, Accounted, CMTypeOK

\* What do and DoRaw return.
LEMMA OutcomeTyped ==
    /\ Ok \in [retry : BOOLEAN, err : Errors] /\ ~Ok.retry
    /\ \A b \in BOOLEAN, e \in {"eof", "other", "noFree"} :
          Fail(b, e) \in [retry : BOOLEAN, err : Errors] /\ (Fail(b, e).retry <=> b)
  BY DEF Ok, Fail, Errors

\* makeDialer dials.
LEMMA DialGoes ==
    ASSUME HCInv, NEW u \in Users, NEW d \in {"conn", "eof", "err"}, Dial(u, d)
    PROVE  Accounted' /\ Proceeds(u)
<1>1. RequestTypeOK /\ SockTypeOK /\ RequestSound(u) /\ upc \in [Users -> UserPC]
  BY OfRequest
<1>2. UNCHANGED <<cmVars, armed, recent, upc>>
  BY DEF Dial, sockVars, cmVars, userVars
<1>3. Accounted'
  BY <1>2, AccountedKept DEF HCInv
<1>4. RequestTypeOK' /\ SockTypeOK'
  BY <1>1, <1>2 DEF Dial, RequestTypeOK, SockTypeOK, RequestPC, Ok, Fail, Errors
<1>5. RequestSound(u)'
  BY <1>1, <1>2 DEF Dial, RequestTypeOK, RequestSound, Coupled, GivenUp, Ok, Fail
<1>6. \A v \in Users \ {u} : Left(v)
  BY <1>1, <1>2 DEF Dial, RequestTypeOK, Left
<1>7. hpc[u] # "idle" /\ hpc'[u] # "idle" /\ hpc[u] # "return"
  BY <1>1 DEF Dial, RequestTypeOK
<1> QED BY <1>3, <1>4, <1>5, <1>6, <1>7 DEF Proceeds, Dial

\* AcquireConn finds no room.
LEMMA NoFreeConnsGoes ==
    ASSUME HCInv, NEW u \in Users, NoFreeConns(u)
    PROVE  Accounted' /\ Proceeds(u)
<1>1. RequestTypeOK /\ SockTypeOK /\ RequestSound(u) /\ upc \in [Users -> UserPC]
  BY OfRequest
<1>2. upc[u] = "out" /\ UNCHANGED <<cmVars, armed, recent, upc>>
  BY DEF NoFreeConns, AcquireNone, sockVars, cmVars, userVars
<1>3. Accounted'
  BY <1>2, AccountedKept DEF HCInv
<1>4. RequestTypeOK' /\ SockTypeOK'
  BY <1>1, <1>2 DEF NoFreeConns, Goto, RequestTypeOK, SockTypeOK, RequestPC, Fail, Errors
<1>5. RequestSound(u)'
  BY <1>1, <1>2 DEF NoFreeConns, Goto, RequestTypeOK, RequestSound, Coupled, GivenUp, Fail
<1>6. \A v \in Users \ {u} : Left(v)
  BY <1>1, <1>2 DEF NoFreeConns, Goto, RequestTypeOK, Left
<1>7. hpc[u] # "idle" /\ hpc'[u] # "idle" /\ hpc[u] # "return"
  BY <1>1 DEF NoFreeConns, Goto, RequestTypeOK
<1> QED BY <1>3, <1>4, <1>5, <1>6, <1>7 DEF Proceeds, NoFreeConns

\* AcquireConn counts the connection, or launches the cleaner.
LEMMA TakeSlotGoes ==
    ASSUME HCInv, NEW u \in Users, TakeSlot(u)
    PROVE  Accounted' /\ Proceeds(u)
<1>1. RequestTypeOK /\ SockTypeOK /\ RequestSound(u) /\ upc \in [Users -> UserPC]
  BY OfRequest
<1>2. UNCHANGED <<hpc, kind, attempts, redials, dialled, cached, outcome, consumed, responding,
                  armed, recent, pendingRequests>>
  BY DEF TakeSlot, reqVars, sockVars
<1>3. PICK p \in {"launch", "dial"} : upc' = [upc EXCEPT ![u] = p]
  BY DEF TakeSlot, AcquireNew, Launch
<1>4. Accounted'
  BY <1>2, TakeSlotAccounted DEF HCInv, TakeSlot
<1>5. RequestTypeOK' /\ SockTypeOK'
  BY <1>1, <1>2 DEF RequestTypeOK, SockTypeOK
<1>6. RequestSound(u)'
  BY <1>1, <1>2, <1>3 DEF TakeSlot, RequestSound, Coupled, GivenUp
<1>7. \A v \in Users \ {u} : Left(v)
  BY <1>1, <1>2, <1>3 DEF Left
<1> QED BY <1>2, <1>4, <1>5, <1>6, <1>7 DEF Proceeds, TakeSlot

\* AcquireConn wraps what was dialled.
LEMMA WrapConnGoes ==
    ASSUME HCInv, NEW u \in Users, NEW cc \in CC, WrapConn(u, cc)
    PROVE  Accounted' /\ Proceeds(u)
<1>1. RequestTypeOK /\ SockTypeOK /\ RequestSound(u) /\ upc \in [Users -> UserPC]
  BY OfRequest
<1>2. /\ UNCHANGED <<armed, recent>>
      /\ upc' = [upc EXCEPT ![u] = "using"]
  BY DEF WrapConn, DialOK, sockVars
<1>3. Accounted'
  BY <1>2, DialOKAccounted DEF HCInv, WrapConn
<1>4. RequestTypeOK' /\ SockTypeOK'
  BY <1>1, <1>2 DEF WrapConn, RequestTypeOK, SockTypeOK, RequestPC
<1>5. RequestSound(u)'
  BY <1>1, <1>2 DEF WrapConn, RequestTypeOK, RequestSound, Coupled, GivenUp
<1>6. \A v \in Users \ {u} : Left(v)
  BY <1>1, <1>2 DEF WrapConn, RequestTypeOK, Left
<1>7. hpc[u] # "idle" /\ hpc'[u] # "idle" /\ hpc[u] # "return"
  BY <1>1 DEF WrapConn, RequestTypeOK
<1> QED BY <1>3, <1>4, <1>5, <1>6, <1>7 DEF Proceeds, WrapConn

\* AcquireConn returns the dial's error: do dials again, or returns.
LEMMA WrapFailsGoes ==
    ASSUME HCInv, NEW u \in Users, WrapFails(u)
    PROVE  Accounted' /\ Proceeds(u)
<1>1. RequestTypeOK /\ SockTypeOK /\ RequestSound(u) /\ upc \in [Users -> UserPC]
  BY OfRequest
<1>2. /\ UNCHANGED <<kind, attempts, cached, consumed, responding, armed, recent,
                     pendingRequests>>
      /\ upc' = [upc EXCEPT ![u] = "out"] /\ hpc[u] = "acquire"
      /\ dialled' = [dialled EXCEPT ![u] = "none"]
  BY DEF WrapFails, DialFails, sockVars
<1>3. Accounted'
  BY <1>2, DialFailsAccounted DEF HCInv, WrapFails
<1>4. \/ /\ redials[u] < MaxRedials /\ redials' = [redials EXCEPT ![u] = redials[u] + 1]
         /\ hpc' = [hpc EXCEPT ![u] = "dial"] /\ outcome' = outcome
      \/ /\ outcome' = [outcome EXCEPT ![u] = [retry |-> FALSE, err |-> "other"]]
         /\ hpc' = [hpc EXCEPT ![u] = "return"] /\ redials' = redials
  BY DEF WrapFails, Fail
<1>5. RequestTypeOK' /\ SockTypeOK'
  <2>1. redials' \in [Users -> 0 .. MaxRedials]
    <3>1. redials[u] \in 0 .. MaxRedials /\ MaxRedials \in Nat
      BY <1>1, AttemptsAssumption DEF RequestTypeOK
    <3>2. redials[u] < MaxRedials => redials[u] + 1 \in 0 .. MaxRedials
      BY <3>1
    <3> QED BY <1>1, <1>4, <3>2 DEF RequestTypeOK
  <2>2. outcome' \in [Users -> [retry : BOOLEAN, err : Errors]] /\ hpc' \in [Users -> RequestPC]
    <3>1. [retry |-> FALSE, err |-> "other"] \in [retry : BOOLEAN, err : Errors]
      BY DEF Errors
    <3>2. "dial" \in RequestPC /\ "return" \in RequestPC
      BY DEF RequestPC
    <3> DEFINE o == [retry |-> FALSE, err |-> "other"]
    <3> HIDE DEF o
    <3>3. outcome' = outcome \/ outcome' = [outcome EXCEPT ![u] = o]
      BY <1>4 DEF o
    <3>4. hpc' = [hpc EXCEPT ![u] = "dial"] \/ hpc' = [hpc EXCEPT ![u] = "return"]
      BY <1>4
    <3>5. o \in [retry : BOOLEAN, err : Errors]
      BY <3>1 DEF o
    <3>6. outcome' \in [Users -> [retry : BOOLEAN, err : Errors]]
      BY <1>1, <3>3, <3>5 DEF RequestTypeOK
    <3>7. hpc' \in [Users -> RequestPC]
      BY <1>1, <3>2, <3>4 DEF RequestTypeOK
    <3> QED BY <3>6, <3>7
  <2> QED BY <1>1, <1>2, <2>1, <2>2 DEF RequestTypeOK, SockTypeOK
<1>6. RequestSound(u)'
  BY <1>1, <1>2, <1>4 DEF RequestTypeOK, RequestSound, Coupled, GivenUp
<1>7. \A v \in Users \ {u} : Left(v)
  BY <1>1, <1>2, <1>4 DEF RequestTypeOK, Left
<1>8. hpc[u] # "idle" /\ hpc'[u] # "idle" /\ hpc[u] # "return"
  BY <1>1, <1>2, <1>4 DEF RequestTypeOK
<1> QED BY <1>2, <1>3, <1>5, <1>6, <1>7, <1>8 DEF Proceeds

\* Where a request has a connection.
Using == {"write", "send", "read", "peek", "body", "tunnel", "forward"}

\* CloseConn is called with a request that may be tried again only if its
\* response has not begun and it can be sent again.
LEMMA CloseAndReturnGoes ==
    ASSUME HCInv, NEW u \in Users, NEW from \in Using, NEW o \in [retry : BOOLEAN, err : Errors],
           NEW n \in Nat, CloseAndReturn(u, from, o), consumed' = [consumed EXCEPT ![u] = n],
           UNCHANGED <<kind, attempts, redials, dialled, cached, responding, armed, recent,
                       pendingRequests>>,
           responding[u] => ~o.retry,
           kind[u] = "get" => n <= 1,
           kind[u] = "get" /\ n = 1 => cached[u] \/ ~o.retry
    PROVE  Accounted' /\ Proceeds(u)
<1>1. RequestTypeOK /\ SockTypeOK /\ RequestSound(u) /\ upc \in [Users -> UserPC]
  BY OfRequest
<1>2. /\ hpc[u] = from /\ hpc' = [hpc EXCEPT ![u] = "closing"]
      /\ outcome' = [outcome EXCEPT ![u] = o] /\ upc' = [upc EXCEPT ![u] = "closing"]
  BY DEF CloseAndReturn, Goto, CloseConn
<1>3. Accounted'
  BY CloseConnAccounted DEF HCInv, CloseAndReturn
<1>4. RequestTypeOK' /\ SockTypeOK'
  <2>1. "closing" \in RequestPC
    BY DEF RequestPC
  <2> QED BY <1>1, <1>2, <2>1 DEF RequestTypeOK, SockTypeOK
<1>5. /\ hpc'[u] = "closing" /\ upc'[u] = "closing" /\ outcome'[u] = o /\ consumed'[u] = n
      /\ \A v \in Users \ {u} : Left(v)
  BY <1>1, <1>2 DEF RequestTypeOK, Left
<1>6. RequestSound(u)'
  BY <1>5 DEF RequestSound, Coupled, GivenUp
<1>7. hpc[u] # "idle" /\ hpc[u] # "return"
  BY <1>2 DEF Using
<1> QED BY <1>3, <1>4, <1>5, <1>6, <1>7 DEF Proceeds

\* do or DoRaw forgets the connection.
LEMMA LeakAndReturnGoes ==
    ASSUME HCInv, NEW u \in Users, NEW from \in {"peek", "tunnel"},
           NEW o \in [retry : BOOLEAN, err : Errors], LeakAndReturn(u, from, o),
           UNCHANGED <<kind, attempts, redials, dialled, cached, consumed, responding, armed, recent,
                       pendingRequests>>
    PROVE  Accounted' /\ Proceeds(u)
<1>1. RequestTypeOK /\ SockTypeOK /\ RequestSound(u) /\ upc \in [Users -> UserPC]
  BY OfRequest
<1>2. /\ hpc[u] = from /\ hpc' = [hpc EXCEPT ![u] = "return"]
      /\ outcome' = [outcome EXCEPT ![u] = o] /\ upc' = [upc EXCEPT ![u] = "out"]
  BY DEF LeakAndReturn, Goto
<1>3. /\ upc[u] = "using" /\ ~responding[u]
      /\ kind[u] = "get" => consumed[u] <= 1
      /\ kind[u] = "get" /\ consumed[u] = 1 => cached[u]
  BY <1>1, <1>2 DEF RequestSound, Coupled, GivenUp
<1>4. Accounted'
  BY <1>3, LeakAccounted DEF HCInv, LeakAndReturn
<1>5. RequestTypeOK' /\ SockTypeOK'
  <2>1. "return" \in RequestPC
    BY DEF RequestPC
  <2> QED BY <1>1, <1>2, <2>1 DEF RequestTypeOK, SockTypeOK
<1>6. /\ hpc'[u] = "return" /\ upc'[u] = "out" /\ outcome'[u] = o
      /\ \A v \in Users \ {u} : Left(v)
  BY <1>1, <1>2 DEF RequestTypeOK, Left
<1>7. RequestSound(u)'
  BY <1>3, <1>6 DEF RequestSound, Coupled, GivenUp
<1>8. hpc[u] # "idle" /\ hpc[u] # "return"
  BY <1>2
<1> QED BY <1>4, <1>5, <1>6, <1>7, <1>8 DEF Proceeds

\* A request goes from one place where it has a connection to another, while
\* no response has begun.
LEMMA UsingGoes ==
    ASSUME HCInv, NEW u \in Users, NEW from \in Using \ {"body"}, NEW to \in Using,
           Goto(u, from, to),
           UNCHANGED <<cmVars, kind, attempts, redials, dialled, cached, outcome, consumed,
                       pendingRequests>>,
           responding' = [responding EXCEPT ![u] = to = "body"],
           SockTypeOK'
    PROVE  Accounted' /\ Proceeds(u)
<1>1. RequestTypeOK /\ RequestSound(u) /\ upc \in [Users -> UserPC]
  BY OfRequest
<1>2. hpc[u] = from /\ hpc' = [hpc EXCEPT ![u] = to] /\ upc' = upc
  BY DEF Goto, cmVars, userVars
<1>3. Accounted'
  BY AccountedKept DEF HCInv
<1>4. RequestTypeOK'
  <2>1. to \in RequestPC /\ (to = "body") \in BOOLEAN
    BY DEF RequestPC, Using
  <2> QED BY <1>1, <1>2, <2>1 DEF RequestTypeOK
<1>5. /\ hpc'[u] = to /\ (responding'[u] <=> to = "body")
      /\ \A v \in Users \ {u} : Left(v)
  BY <1>1, <1>2 DEF RequestTypeOK, Left
<1>6. RequestSound(u)'
  BY <1>1, <1>2, <1>5 DEF RequestSound, Coupled, GivenUp, Using
<1>7. hpc[u] \notin {"idle", "return"} /\ hpc'[u] # "idle"
  BY <1>2, <1>5 DEF Using
<1> QED BY <1>3, <1>4, <1>5, <1>6, <1>7 DEF Proceeds

\* While it waits or sends, no response has begun, and what was read is cached.
LEMMA NotYetAnswered ==
    ASSUME HCInv, NEW u \in Users, hpc[u] \in Using \ {"body"}
    PROVE  /\ ~responding[u] /\ responding = [responding EXCEPT ![u] = FALSE]
           /\ consumed = [consumed EXCEPT ![u] = consumed[u]] /\ consumed[u] \in Nat
           /\ kind[u] = "get" => consumed[u] <= 1
           /\ kind[u] = "get" /\ consumed[u] = 1 => cached[u]
<1>1. RequestTypeOK /\ RequestSound(u)
  BY OfRequest
<1>2. ~responding[u] /\ (kind[u] = "get" => consumed[u] <= 1)
      /\ (kind[u] = "get" /\ consumed[u] = 1 => cached[u])
  BY <1>1 DEF RequestSound, GivenUp, Using
<1>3. responding = [responding EXCEPT ![u] = FALSE]
  BY <1>1, <1>2 DEF RequestTypeOK
<1>4. consumed = [consumed EXCEPT ![u] = consumed[u]] /\ consumed[u] \in Nat
  BY <1>1 DEF RequestTypeOK
<1> QED BY <1>2, <1>3, <1>4

\* The deadlines are set, or cannot be.
LEMMA DeadlineGoes ==
    ASSUME HCInv, NEW u \in Users, NEW d \in {"read", "write"}, NEW to \in Using \ {"body"},
           DeadlineStep(u, d, to),
           UNCHANGED <<kind, attempts, redials, dialled, cached, consumed, responding,
                       pendingRequests>>
    PROVE  Accounted' /\ Proceeds(u)
<1> DEFINE o == [retry |-> kind[u] # "raw", err |-> "other"]
<1>1. d \in Using \ {"body"} /\ o \in [retry : BOOLEAN, err : Errors]
  BY DEF Using, Errors
<1>2. SockTypeOK /\ RequestTypeOK
  BY DEF HCInv
<1>3. hpc[u] = d
  BY DEF DeadlineStep, Goto, CloseAndReturn
<1>4. /\ ~responding[u] /\ responding = [responding EXCEPT ![u] = FALSE]
      /\ consumed = [consumed EXCEPT ![u] = consumed[u]] /\ consumed[u] \in Nat
      /\ kind[u] = "get" => consumed[u] <= 1
      /\ kind[u] = "get" /\ consumed[u] = 1 => cached[u]
  BY <1>1, <1>3, NotYetAnswered
<1>5. CASE CloseAndReturn(u, d, o) /\ UNCHANGED <<armed, recent>>
  <2> HIDE DEF o
  <2>1. consumed' = [consumed EXCEPT ![u] = consumed[u]]
    BY <1>4
  <2> QED BY <1>1, <1>4, <1>5, <2>1, CloseAndReturnGoes
<1>6. CASE /\ Goto(u, d, to) /\ UNCHANGED <<cmVars, outcome>>
           /\ IF d \in recent[ucc[u]] \/ d \notin Deadlines
              THEN UNCHANGED <<armed, recent>>
              ELSE /\ armed' = [armed EXCEPT ![ucc[u]] = @ \cup {d}]
                   /\ recent' = [recent EXCEPT ![ucc[u]] = @ \cup {d}]
  <2>1. SockTypeOK'
    BY <1>2, <1>6 DEF SockTypeOK
  <2>2. responding' = [responding EXCEPT ![u] = to = "body"]
    BY <1>4
  <2> QED BY <1>1, <1>6, <2>1, <2>2, UsingGoes
<1> QED BY <1>5, <1>6 DEF DeadlineStep, Fail

\* do and DoRaw set their deadlines.
LEMMA SetDeadlineGoes ==
    ASSUME HCInv, NEW u \in Users, SetWriteDeadline(u) \/ SetReadDeadline(u)
    PROVE  Accounted' /\ Proceeds(u)
<1>1. CASE SetWriteDeadline(u)
  <2> DEFINE to == IF kind[u] = "raw" THEN "forward" ELSE "send"
  <2>1. to \in Using \ {"body"}
    BY DEF Using
  <2>2. /\ DeadlineStep(u, "write", to)
        /\ UNCHANGED <<kind, attempts, redials, dialled, cached, consumed, responding,
                       pendingRequests>>
    BY <1>1 DEF SetWriteDeadline
  <2> HIDE DEF to
  <2> QED BY <2>1, <2>2, DeadlineGoes
<1>2. CASE SetReadDeadline(u)
  <2> DEFINE to == IF kind[u] = "raw" THEN "write" ELSE "peek"
  <2>1. to \in Using \ {"body"}
    BY DEF Using
  <2>2. /\ DeadlineStep(u, "read", to)
        /\ UNCHANGED <<kind, attempts, redials, dialled, cached, consumed, responding,
                       pendingRequests>>
    BY <1>2 DEF SetReadDeadline
  <2> HIDE DEF to
  <2> QED BY <2>1, <2>2, DeadlineGoes
<1> QED BY <1>1, <1>2

\* The request is read from the client: if it is a get, for the first time.
LEMMA ReadRequestGoes ==
    ASSUME HCInv, NEW u \in Users, ReadRequest(u)
    PROVE  Accounted' /\ Proceeds(u)
<1> DEFINE n == consumed[u] + 1
           o == [retry |-> FALSE, err |-> "other"]
<1>1. RequestTypeOK /\ SockTypeOK /\ RequestSound(u) /\ upc \in [Users -> UserPC]
  BY OfRequest
<1>2. /\ hpc[u] = "send" /\ ~cached[u]
      /\ consumed' = [consumed EXCEPT ![u] = n]
      /\ UNCHANGED <<kind, attempts, redials, dialled, responding, armed, recent,
                     pendingRequests>>
  BY DEF ReadRequest, sockVars
<1>3. "send" \in Using /\ hpc[u] \in Using \ {"body"} /\ o \in [retry : BOOLEAN, err : Errors]
  BY <1>2 DEF Using, Errors
<1>4. n \in Nat /\ (kind[u] = "get" => n = 1) /\ ~responding[u]
  <2>1. /\ consumed[u] \in Nat /\ ~responding[u]
        /\ kind[u] = "get" => consumed[u] <= 1
        /\ kind[u] = "get" /\ consumed[u] = 1 => cached[u]
    BY <1>3, NotYetAnswered
  <2> QED BY <1>2, <2>1
<1> HIDE DEF n
<1>5. CASE CloseAndReturn(u, "send", o) /\ cached' = cached
  <2>1. /\ (responding[u] => ~o.retry) /\ (kind[u] = "get" => n <= 1)
        /\ (kind[u] = "get" /\ n = 1 => cached[u] \/ ~o.retry)
    BY <1>4
  <2> HIDE DEF o
  <2> QED BY <1>2, <1>3, <1>4, <1>5, <2>1, CloseAndReturnGoes
<1>6. CASE /\ cached' = [cached EXCEPT ![u] = kind[u] = "get"]
           /\ hpc' = [hpc EXCEPT ![u] = IF kind[u] = "get" THEN "send" ELSE "read"]
           /\ UNCHANGED <<cmVars, outcome>>
  <2>1. UNCHANGED <<cmVars, upc>>
    BY <1>2, <1>6 DEF cmVars, userVars
  <2>2. Accounted'
    BY <2>1, AccountedKept DEF HCInv
  <2>3. RequestTypeOK' /\ SockTypeOK'
    <3>1. "send" \in RequestPC /\ "read" \in RequestPC /\ (kind[u] = "get") \in BOOLEAN
      BY DEF RequestPC
    <3> QED BY <1>1, <1>2, <1>4, <1>6, <3>1 DEF RequestTypeOK, SockTypeOK
  <2>4. /\ hpc'[u] \in {"send", "read"} /\ consumed'[u] = n /\ (cached'[u] <=> kind[u] = "get")
        /\ upc'[u] = upc[u] /\ kind'[u] = kind[u] /\ responding'[u] = responding[u]
        /\ \A v \in Users \ {u} : Left(v)
    BY <1>1, <1>2, <1>6, <2>1 DEF RequestTypeOK, Left
  <2>5. upc[u] = "using"
    BY <1>1, <1>2 DEF RequestSound, Coupled
  <2>6. RequestSound(u)'
    BY <1>4, <2>4, <2>5 DEF RequestSound, Coupled, GivenUp
  <2> QED BY <1>2, <2>2, <2>3, <2>4, <2>6 DEF Proceeds
<1> QED BY <1>5, <1>6 DEF ReadRequest, Fail

\* The cached request is sent.
LEMMA SendCachedGoes ==
    ASSUME HCInv, NEW u \in Users, SendCached(u)
    PROVE  Accounted' /\ Proceeds(u)
<1> DEFINE o == [retry |-> TRUE, err |-> "other"]
<1>1. /\ hpc[u] = "send" /\ cached[u]
      /\ UNCHANGED <<kind, attempts, redials, dialled, cached, consumed, responding, armed, recent,
                     pendingRequests>>
  BY DEF SendCached, Goto, CloseAndReturn, sockVars
<1>2. /\ "send" \in Using \ {"body"} /\ "read" \in Using /\ hpc[u] \in Using \ {"body"}
      /\ o \in [retry : BOOLEAN, err : Errors]
  BY <1>1 DEF Using, Errors
<1>3. /\ ~responding[u] /\ responding = [responding EXCEPT ![u] = FALSE]
      /\ consumed = [consumed EXCEPT ![u] = consumed[u]] /\ consumed[u] \in Nat
      /\ kind[u] = "get" => consumed[u] <= 1
  BY <1>2, NotYetAnswered
<1>4. CASE CloseAndReturn(u, "send", o)
  <2> HIDE DEF o
  <2>1. consumed' = [consumed EXCEPT ![u] = consumed[u]]
    BY <1>1, <1>3
  <2> QED BY <1>1, <1>2, <1>3, <1>4, <2>1, CloseAndReturnGoes
<1>5. CASE Goto(u, "send", "read") /\ UNCHANGED <<cmVars, outcome>>
  <2> DEFINE to == "read"
  <2>1. SockTypeOK' /\ responding' = [responding EXCEPT ![u] = to = "body"]
    BY <1>1, <1>3 DEF HCInv, SockTypeOK
  <2>2. to \in Using /\ Goto(u, "send", to)
    BY <1>2, <1>5
  <2> HIDE DEF to
  <2> QED BY <1>1, <1>2, <1>5, <2>1, <2>2, UsingGoes
<1> QED BY <1>4, <1>5 DEF SendCached, Fail

\* The response begins, or the connection is forgotten.
LEMMA PeekGoes ==
    ASSUME HCInv, NEW u \in Users, Peek(u)
    PROVE  Accounted' /\ Proceeds(u)
<1>1. UNCHANGED <<kind, attempts, redials, dialled, cached, consumed, armed, recent, pendingRequests>>
  BY DEF Peek
<1>2. CASE /\ Goto(u, "peek", "body") /\ responding' = [responding EXCEPT ![u] = TRUE]
           /\ UNCHANGED <<cmVars, outcome>>
  <2> DEFINE to == "body"
  <2>1. SockTypeOK' /\ responding' = [responding EXCEPT ![u] = to = "body"]
    BY <1>1, <1>2 DEF HCInv, SockTypeOK
  <2>2. to \in Using /\ "peek" \in Using \ {"body"} /\ Goto(u, "peek", to)
    BY <1>2 DEF Using
  <2> HIDE DEF to
  <2> QED BY <1>1, <1>2, <2>1, <2>2, UsingGoes
<1>3. ASSUME NEW o \in {Fail(TRUE, "eof"), Fail(FALSE, "other")}, LeakAndReturn(u, "peek", o),
             responding' = responding
      PROVE  Accounted' /\ Proceeds(u)
  <2>1. o \in [retry : BOOLEAN, err : Errors]
    BY OutcomeTyped
  <2> QED BY <1>1, <1>3, <2>1, LeakAndReturnGoes
<1> QED BY <1>2, <1>3 DEF Peek

\* The response is read, or breaks off: either way do will not be called again.
LEMMA ReadResponseGoes ==
    ASSUME HCInv, NEW u \in Users, ReadResponse(u)
    PROVE  Accounted' /\ Proceeds(u)
<1>1. PICK o \in {Ok, Fail(FALSE, "eof"), Fail(FALSE, "other")} : CloseAndReturn(u, "body", o)
  BY DEF ReadResponse
<1>2. o \in [retry : BOOLEAN, err : Errors] /\ ~o.retry
  BY OutcomeTyped
<1>3. UNCHANGED <<kind, attempts, redials, dialled, cached, consumed, responding, armed, recent,
                  pendingRequests>>
  BY DEF ReadResponse, sockVars
<1>4. consumed' = [consumed EXCEPT ![u] = consumed[u]] /\ consumed[u] \in Nat
  BY <1>3, OfRequest DEF RequestTypeOK
<1>5. kind[u] = "get" => consumed[u] <= 1
  BY OfRequest DEF RequestSound
<1>6. "body" \in Using
  BY DEF Using
<1> QED BY <1>1, <1>2, <1>3, <1>4, <1>5, <1>6, CloseAndReturnGoes

\* The tunnel is made, or the connection forgotten.
LEMMA TunnelMadeGoes ==
    ASSUME HCInv, NEW u \in Users, TunnelMade(u)
    PROVE  Accounted' /\ Proceeds(u)
<1>1. UNCHANGED <<kind, attempts, redials, dialled, cached, consumed, responding, armed, recent,
                  pendingRequests>>
  BY DEF TunnelMade
<1>2. CASE Goto(u, "tunnel", "read") /\ UNCHANGED <<cmVars, outcome>>
  <2> DEFINE to == "read"
  <2>1. hpc[u] \in Using \ {"body"} /\ "tunnel" \in Using \ {"body"} /\ to \in Using
    BY <1>2 DEF Goto, Using
  <2>2. SockTypeOK' /\ responding' = [responding EXCEPT ![u] = to = "body"]
    BY <1>1, <2>1, NotYetAnswered DEF HCInv, SockTypeOK
  <2>3. Goto(u, "tunnel", to)
    BY <1>2
  <2> HIDE DEF to
  <2> QED BY <1>1, <1>2, <2>1, <2>2, <2>3, UsingGoes
<1>3. ASSUME NEW o, o = Fail(FALSE, "other"), LeakAndReturn(u, "tunnel", o)
      PROVE  Accounted' /\ Proceeds(u)
  <2>1. o \in [retry : BOOLEAN, err : Errors]
    BY <1>3 DEF Fail, Errors
  <2> QED BY <1>1, <1>3, <2>1, LeakAndReturnGoes
<1> QED BY <1>2, <1>3 DEF TunnelMade

\* A direction of the tunnel ends.
LEMMA ForwardedGoes ==
    ASSUME HCInv, NEW u \in Users, Forwarded(u)
    PROVE  Accounted' /\ Proceeds(u)
<1>1. PICK o \in {Ok, Fail(FALSE, "other")} : CloseAndReturn(u, "forward", o)
  BY DEF Forwarded
<1>2. o \in [retry : BOOLEAN, err : Errors] /\ ~o.retry
  BY OutcomeTyped
<1>3. UNCHANGED <<kind, attempts, redials, dialled, cached, consumed, responding, armed, recent,
                  pendingRequests>>
  BY DEF Forwarded, sockVars
<1>4. consumed' = [consumed EXCEPT ![u] = consumed[u]] /\ consumed[u] \in Nat
  BY <1>3, OfRequest DEF RequestTypeOK
<1>5. kind[u] = "get" => consumed[u] <= 1
  BY OfRequest DEF RequestSound
<1>6. "forward" \in Using
  BY DEF Using
<1> QED BY <1>1, <1>2, <1>3, <1>4, <1>5, <1>6, CloseAndReturnGoes

\* CloseConn ends, and do or DoRaw returns.
LEMMA ClosedGoes ==
    ASSUME HCInv, NEW u \in Users, Closed(u)
    PROVE  Accounted' /\ Proceeds(u)
<1>1. RequestTypeOK /\ SockTypeOK /\ RequestSound(u) /\ upc \in [Users -> UserPC]
  BY OfRequest
<1>2. /\ hpc[u] = "closing" /\ hpc' = [hpc EXCEPT ![u] = "return"]
      /\ upc' = [upc EXCEPT ![u] = "out"] /\ armed' = [armed EXCEPT ![ucc[u]] = {}]
      /\ UNCHANGED <<kind, attempts, redials, dialled, cached, outcome, consumed,
                     responding, recent, pendingRequests>>
  BY DEF Closed, Goto, CloseConnEnds
<1>3. Accounted'
  BY <1>2, CloseConnEndsAccounted DEF HCInv, Closed
<1>4. RequestTypeOK' /\ SockTypeOK'
  <2>1. "return" \in RequestPC
    BY DEF RequestPC
  <2> QED BY <1>1, <1>2, <2>1 DEF RequestTypeOK, SockTypeOK
<1>5. hpc'[u] = "return" /\ upc'[u] = "out" /\ \A v \in Users \ {u} : Left(v)
  BY <1>1, <1>2 DEF RequestTypeOK, Left
<1>6. RequestSound(u)'
  BY <1>1, <1>2, <1>5 DEF RequestSound, Coupled, GivenUp
<1> QED BY <1>2, <1>3, <1>4, <1>5, <1>6 DEF Proceeds

\* Do calls do again: it was told to, so no response has begun.
LEMMA RetryGoes ==
    ASSUME HCInv, NEW u \in Users, Retry(u)
    PROVE  Accounted' /\ Proceeds(u)
<1>1. RequestTypeOK /\ SockTypeOK /\ RequestSound(u) /\ upc \in [Users -> UserPC]
  BY OfRequest
<1>2. /\ hpc[u] = "return" /\ hpc' = [hpc EXCEPT ![u] = "dial"] /\ outcome[u].retry
      /\ attempts[u] + 1 < MaxAttempts
      /\ attempts' = [attempts EXCEPT ![u] = attempts[u] + 1]
      /\ redials' = [redials EXCEPT ![u] = 0]
      /\ UNCHANGED <<cmVars, upc, kind, dialled, cached, outcome, consumed, responding,
                     armed, recent, pendingRequests>>
  BY DEF Retry, Goto, Again, sockVars, cmVars, userVars
<1>3. Accounted'
  BY <1>2, AccountedKept DEF HCInv
<1>4. RequestTypeOK' /\ SockTypeOK'
  <2>1. "dial" \in RequestPC
    BY DEF RequestPC
  <2>2. attempts[u] \in 0 .. MaxAttempts /\ MaxAttempts \in Nat /\ 0 \in 0 .. MaxRedials
    BY <1>1, AttemptsAssumption DEF RequestTypeOK
  <2>3. attempts[u] + 1 \in 0 .. MaxAttempts
    BY <1>2, <2>2
  <2> QED BY <1>1, <1>2, <2>1, <2>2, <2>3 DEF RequestTypeOK, SockTypeOK
<1>5. hpc'[u] = "dial" /\ \A v \in Users \ {u} : Left(v)
  BY <1>1, <1>2 DEF RequestTypeOK, Left
<1>6. RequestSound(u)'
  BY <1>1, <1>2, <1>5 DEF RequestSound, Coupled, GivenUp
<1> QED BY <1>2, <1>3, <1>4, <1>5, <1>6 DEF Proceeds

-----------------------------------------------------------------------------
\* The beginning and the end of a request, where Do counts it.
LEMMA PendingFinite == IsFiniteSet(Pending) /\ Cardinality(Pending) \in Nat
<1>1. Pending \in SUBSET Users
  BY DEF Pending
<1> QED BY <1>1, UsersAssumption, FS_Subset, FS_CardinalityType

\* Do or DoRaw is called.
LEMMA BeginInv ==
    ASSUME HCInv, NEW u \in Users, NEW k \in {"get", "post", "raw"}, Begin(u, k)
    PROVE  HCInv'
<1>1. RequestTypeOK /\ SockTypeOK /\ RequestSound(u) /\ upc \in [Users -> UserPC]
  BY OfRequest
<1>2. /\ hpc[u] = "idle" /\ hpc' = [hpc EXCEPT ![u] = "dial"] /\ kind' = [kind EXCEPT ![u] = k]
      /\ UNCHANGED <<cmVars, upc, attempts, redials, dialled, cached, outcome, consumed,
                     responding, armed, recent>>
      /\ pendingRequests' = IF k = "raw" THEN pendingRequests ELSE pendingRequests + 1
  BY DEF Begin, Goto, sockVars, cmVars, userVars
<1>3. Accounted'
  BY <1>2, AccountedKept DEF HCInv
<1>4. RequestTypeOK' /\ SockTypeOK'
  <2>1. "dial" \in RequestPC
    BY DEF RequestPC
  <2> QED BY <1>1, <1>2, <2>1 DEF RequestTypeOK, SockTypeOK
<1>5. hpc'[u] = "dial" /\ kind'[u] = k /\ \A v \in Users \ {u} : Left(v)
  BY <1>1, <1>2 DEF RequestTypeOK, Left
<1>6. \A v \in Users : RequestSound(v)'
  <2>1. RequestSound(u)'
    BY <1>1, <1>2, <1>5 DEF RequestSound, Coupled, GivenUp
  <2> QED BY <1>5, <2>1, LeftSound DEF HCInv
<1>7. PendingExact'
  <2>1. CASE k = "raw"
    <3>1. Pending' = Pending
      BY <1>2, <1>5, <2>1 DEF Pending, Left
    <3> QED BY <1>2, <2>1, <3>1 DEF HCInv, PendingExact
  <2>2. CASE k # "raw"
    <3>1. Pending' = Pending \cup {u} /\ u \notin Pending
      BY <1>2, <1>5, <2>2 DEF Pending, Left
    <3>2. Cardinality(Pending)' = Cardinality(Pending) + 1
      BY <3>1, PendingFinite, FS_AddElement
    <3> QED BY <1>2, <2>2, <3>2 DEF HCInv, PendingExact
  <2> QED BY <2>1, <2>2
<1> QED BY <1>3, <1>4, <1>6, <1>7 DEF HCInv

\* Do or DoRaw returns.
LEMMA EndInv ==
    ASSUME HCInv, NEW u \in Users, End(u)
    PROVE  HCInv'
<1>1. RequestTypeOK /\ SockTypeOK /\ RequestSound(u) /\ upc \in [Users -> UserPC]
  BY OfRequest
<1>2. /\ hpc[u] = "return" /\ hpc' = [hpc EXCEPT ![u] = "idle"]
      /\ kind' = [kind EXCEPT ![u] = "get"] /\ attempts' = [attempts EXCEPT ![u] = 0]
      /\ redials' = [redials EXCEPT ![u] = 0] /\ dialled' = [dialled EXCEPT ![u] = "none"]
      /\ cached' = [cached EXCEPT ![u] = FALSE] /\ outcome' = [outcome EXCEPT ![u] = Ok]
      /\ consumed' = [consumed EXCEPT ![u] = 0] /\ responding' = [responding EXCEPT ![u] = FALSE]
      /\ UNCHANGED <<cmVars, upc, armed, recent>>
      /\ pendingRequests' = IF kind[u] = "raw" THEN pendingRequests ELSE pendingRequests - 1
  BY DEF End, Goto, PendingDown, sockVars, cmVars, userVars
<1>3. Accounted'
  BY <1>2, AccountedKept DEF HCInv
<1>4. RequestTypeOK' /\ SockTypeOK'
  <2>1. "idle" \in RequestPC /\ 0 \in 0 .. MaxAttempts /\ 0 \in 0 .. MaxRedials
    BY AttemptsAssumption DEF RequestPC
  <2> QED BY <1>1, <1>2, <2>1, OutcomeTyped DEF RequestTypeOK, SockTypeOK
<1>5. /\ hpc'[u] = "idle" /\ consumed'[u] = 0 /\ ~cached'[u] /\ ~responding'[u] /\ upc'[u] = upc[u]
      /\ \A v \in Users \ {u} : Left(v)
  BY <1>1, <1>2 DEF RequestTypeOK, Left
<1>6. \A v \in Users : RequestSound(v)'
  <2>1. RequestSound(u)'
    BY <1>1, <1>2, <1>5 DEF RequestSound, Coupled
  <2> QED BY <1>5, <2>1, LeftSound DEF HCInv
<1>7. PendingExact'
  <2>1. CASE kind[u] = "raw"
    <3>1. Pending' = Pending
      BY <1>2, <1>5, <2>1 DEF Pending, Left
    <3> QED BY <1>2, <2>1, <3>1 DEF HCInv, PendingExact
  <2>2. CASE kind[u] # "raw"
    <3>1. Pending' = Pending \ {u} /\ u \in Pending
      BY <1>2, <1>5, <2>2 DEF Pending, Left
    <3>2. Cardinality(Pending)' = Cardinality(Pending) - 1
      BY <3>1, PendingFinite, FS_RemoveElement
    <3> QED BY <1>2, <2>2, <3>2 DEF HCInv, PendingExact
  <2> QED BY <2>1, <2>2
<1> QED BY <1>3, <1>4, <1>6, <1>7 DEF HCInv

\* No request goes on.
LEMMA QuietInv ==
    ASSUME HCInv, UNCHANGED <<cmVars, reqVars, pendingRequests>>, SockTypeOK'
    PROVE  HCInv'
<1>1. UNCHANGED <<hpc, kind, attempts, redials, dialled, cached, outcome, consumed, responding, upc>>
  BY DEF reqVars, cmVars, userVars
<1>2. Accounted'
  BY AccountedKept DEF HCInv
<1>3. \A v \in Users : RequestSound(v)'
  BY <1>1, LeftSound DEF HCInv, Left
<1>4. RequestTypeOK' /\ PendingExact'
  BY <1>1 DEF HCInv, RequestTypeOK, PendingExact, Pending
<1> QED BY <1>2, <1>3, <1>4 DEF HCInv

\* A quarter of the timeout passes.
LEMMA DeadlineAgesInv ==
    ASSUME HCInv, NEW cc \in CC, NEW d \in Deadlines, DeadlineAges(cc, d)
    PROVE  HCInv'
<1>1. SockTypeOK'
  BY DEF HCInv, SockTypeOK, DeadlineAges
<1> QED BY <1>1, QuietInv DEF DeadlineAges

-----------------------------------------------------------------------------
\* A request that has begun goes on, or ends.
LEMMA RequestGoes ==
    ASSUME HCInv, NEW u \in Users, RequestStep(u)
    PROVE  (Accounted' /\ Proceeds(u)) \/ End(u)
<1>1. ASSUME NEW d \in {"conn", "eof", "err"}, Dial(u, d) PROVE Accounted' /\ Proceeds(u)
  BY <1>1, DialGoes
<1>2. ASSUME NEW cc \in CC, WrapConn(u, cc) PROVE Accounted' /\ Proceeds(u)
  BY <1>2, WrapConnGoes
<1>3. CASE NoFreeConns(u)
  BY <1>3, NoFreeConnsGoes
<1>4. CASE TakeSlot(u)
  BY <1>4, TakeSlotGoes
<1>5. CASE WrapFails(u)
  BY <1>5, WrapFailsGoes
<1>6. CASE Closed(u)
  BY <1>6, ClosedGoes
<1>7. CASE SetWriteDeadline(u) \/ SetReadDeadline(u)
  BY <1>7, SetDeadlineGoes
<1>8. CASE ReadRequest(u)
  BY <1>8, ReadRequestGoes
<1>9. CASE SendCached(u)
  BY <1>9, SendCachedGoes
<1>10. CASE Peek(u)
  BY <1>10, PeekGoes
<1>11. CASE ReadResponse(u)
  BY <1>11, ReadResponseGoes
<1>12. CASE TunnelMade(u)
  BY <1>12, TunnelMadeGoes
<1>13. CASE Forwarded(u)
  BY <1>13, ForwardedGoes
<1>14. CASE Retry(u)
  BY <1>14, RetryGoes
<1> QED BY <1>1, <1>2, <1>3, <1>4, <1>5, <1>6, <1>7, <1>8, <1>9, <1>10, <1>11, <1>12, <1>13,
           <1>14 DEF RequestStep

\* It holds before the first request,
LEMMA HCInitInv ==
    ASSUME HCInit
    PROVE  HCInv
<1>1. CMInit /\ CMInv
  BY CMInitInv DEF HCInit
<1>2. Accounted
  <2>1. CMTypeOK /\ conns = <<>> /\ connsCount = 0
    BY <1>1 DEF CMInv, CMInit, HCInit
  <2>2. HeldApart
    BY <1>1 DEF CMInit, HCInit, HeldApart, Busy
  <2>3. OpenConns = {} /\ Reserved = {}
    BY <1>1 DEF CMInit, OpenConns, Reserved
  <2>4. ConnsAccounted
    BY <2>1, <2>3, FS_EmptySet, MaxConnsAssumption DEF ConnsAccounted
  <2> QED BY <2>1, <2>2, <2>3, <2>4, FS_EmptySet DEF Accounted
<1>3. RequestTypeOK
  <2>1. 0 \in 0 .. MaxAttempts /\ 0 \in 0 .. MaxRedials
    BY AttemptsAssumption
  <2> QED BY <2>1, OutcomeTyped DEF HCInit, RequestTypeOK, RequestPC
<1>4. SockTypeOK
  BY DEF HCInit, SockTypeOK
<1>5. \A u \in Users : RequestSound(u)
  BY <1>1 DEF HCInit, CMInit, RequestSound, Coupled
<1>6. PendingExact
  <2>1. Pending = {}
    BY DEF HCInit, Pending
  <2> QED BY <2>1, FS_EmptySet DEF HCInit, PendingExact
<1> QED BY <1>2, <1>3, <1>4, <1>5, <1>6 DEF HCInv

\* and every step keeps it.
LEMMA HCStepInv ==
    ASSUME HCInv, [Next]_vars
    PROVE  HCInv'
<1>1. CASE UNCHANGED vars
  <2>1. SockTypeOK'
    BY <1>1 DEF vars, HCInv, SockTypeOK
  <2> QED BY <1>1, <2>1, QuietInv DEF vars
<1>2. ASSUME NEW u \in Users, NEW k \in {"get", "post", "raw"}, Begin(u, k) PROVE HCInv'
  BY <1>2, BeginInv
<1>3. ASSUME NEW u \in Users, RequestStep(u) PROVE HCInv'
  BY <1>3, RequestGoes, ProceedsInv, EndInv
<1>4. ASSUME NEW cc \in CC, NEW d \in Deadlines, DeadlineAges(cc, d) PROVE HCInv'
  BY <1>4, DeadlineAgesInv
<1> QED BY <1>1, <1>2, <1>3, <1>4 DEF Next

-----------------------------------------------------------------------------
\* The host client keeps its invariant.
THEOREM ClientInvariant == Spec => []HCInv
<1>1. HCInit => HCInv
  BY HCInitInv
<1>2. HCInv /\ [Next]_vars => HCInv'
  BY HCStepInv
<1> QED BY <1>1, <1>2, PTL DEF Spec

\* The variables of HostClient and of its ConnManager have their types; in
\* particular neither connsCount nor pendingRequests goes below 0.
THEOREM ClientTypeCorrect == Spec => []HCTypeOK
<1>1. HCInv => HCTypeOK
  BY PendingFinite DEF HCInv, Accounted, RequestTypeOK, RequestPC, SockTypeOK, PendingExact, HCTypeOK
<1> QED BY <1>1, ClientInvariant, PTL

\* Whatever do and DoRaw meet, connsCount is the open sockets and the dials under
\* way, and at most MaxConns: also after Peek's and onTunnelMade's error paths,
\* which leave a socket open that no request has.
THEOREM ConnsAreAccounted == Spec => []ConnsAccounted
<1>1. HCInv => ConnsAccounted
  BY DEF HCInv, Accounted
<1> QED BY <1>1, ClientInvariant, PTL

\* No number of retries makes do read a GET or HEAD twice from the client.
THEOREM GetsAreReadOnce == Spec => []GetReadOnce
<1>1. HCInv => GetReadOnce
  BY DEF HCInv, RequestSound, GetReadOnce
<1> QED BY <1>1, ClientInvariant, PTL

\* Do never calls do again for a request whose response has begun.
THEOREM ResponsesAreNotRetried == Spec => NoRetryAfterResponse
<1> DEFINE Kept == \A u \in Users : responding[u] /\ hpc[u] = "return" => hpc'[u] # "dial"
<1>1. HCInv /\ [Next]_vars => [Kept]_vars
  <2> SUFFICES ASSUME HCInv, Next, NEW u \in Users, responding[u], hpc[u] = "return"
               PROVE  hpc'[u] # "dial"
    OBVIOUS
  <2>1. ~outcome[u].retry
    BY DEF HCInv, RequestSound, GivenUp
  <2>2. hpc \in [Users -> RequestPC]
    BY DEF HCInv, RequestTypeOK
  <2>3. ASSUME NEW w \in Users, NEW k \in {"get", "post", "raw"}, Begin(w, k) PROVE hpc'[u] # "dial"
    BY <2>2, <2>3 DEF Begin, Goto
  <2>4. ASSUME NEW w \in Users, RequestStep(w) PROVE hpc'[u] # "dial"
    <3>1. CASE End(w)
      BY <2>2, <3>1 DEF End, Goto
    <3>2. CASE Proceeds(w)
      BY <2>1, <3>2 DEF Proceeds, Left
    <3> QED BY <2>4, <3>1, <3>2, RequestGoes
  <2>5. ASSUME NEW cc \in CC, NEW d \in Deadlines, DeadlineAges(cc, d) PROVE hpc'[u] # "dial"
    BY <2>5 DEF DeadlineAges, reqVars
  <2> QED BY <2>3, <2>4, <2>5 DEF Next
<1> QED BY <1>1, ClientInvariant, PTL DEF Spec, NoRetryAfterResponse
=============================================================================
