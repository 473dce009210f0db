--------------------------- MODULE TCPDialerProofs --------------------------
(***************************************************************************)
(* The safety of TCPDialer for any number of callers, dials at a time,     *)
(* hosts and addresses.                                                    *)
(*                                                                         *)
(* OwnResult speaks of the callers that wait.  To be inductive it must     *)
(* also say where the channels of the other goroutines are: a goroutine    *)
(* whose caller timed out has a channel that no caller and no pool has,    *)
(* so that its late result reaches nobody.                                 *)
(***************************************************************************)
EXTENDS TCPDialer, FiniteSetTheorems, TLAPS

\* The goroutines that have yet to send their result.
Active(g) == gpc[g] \in {"dial", "send"}

\* A caller has a channel while it waits, alone, and the pool does not have it.
CallerChans ==
    /\ \A c \in Callers : dpc[c] = "wait" <=> dch[c] # Nil
    /\ \A c, d \in Callers : dch[c] # Nil /\ dch[c] = dch[d] => c = d
    /\ \A c \in Callers : dch[c] \notin resultPool

\* So has a goroutine that has yet to send, and its channel is empty.
SenderChans ==
    \A g \in Goroutines : Active(g) =>
       /\ gch[g] \in ResultChans \ resultPool
       /\ results[gch[g]] = <<>>
       /\ \A h \in Goroutines : Active(h) /\ gch[h] = gch[g] => h = g

\* The caller at the other end is the one that launched the goroutine.
SenderCallers ==
    \A g \in Goroutines, c \in Callers :
       Active(g) /\ dch[c] = gch[g] => gres[g].for = c /\ gres[g].addr = Address(c)

\* A result that is in a channel is that of the caller who waits for it.
ResultsClaimed ==
    \A ch \in ResultChans : results[ch] # <<>> =>
       \E c \in Callers : /\ dch[c] = ch
                          /\ results[ch][1].for = c
                          /\ results[ch][1].addr = Address(c)

\* A caller that waits has a result or will be sent one.
CallersServed ==
    \A c \in Callers : dch[c] # Nil =>
       \/ results[dch[c]] # <<>>
       \/ \E g \in Goroutines : Active(g) /\ gch[g] = dch[c]

\* The loop over the addresses has some left.
LoopInv ==
    \A c \in Callers : dpc[c] \in {"try", "token", "check", "wait"} =>
       addrs[c] \in Lookups /\ n[c] \in 1 .. Len(addrs[c])

ChanInv == CallerChans /\ SenderChans /\ SenderCallers /\ ResultsClaimed /\ CallersServed

\* The inductive invariant.
DialInv == DialTypeOK /\ LoopInv /\ TokensExact /\ ChanInv

USE LimitAssumption

-----------------------------------------------------------------------------
\* The address that a caller in the loop dials is one of those found.
LEMMA AddressFound ==
    ASSUME NEW c \in Callers, addrs[c] \in Lookups, n[c] \in 1 .. Len(addrs[c]),
           idx[c] \in Nat
    PROVE  Address(c) \in Addresses
<1>1. addrs[c] \in Seq(Range(addrs[c]))
  BY LookupsAssumption
<1>2. (idx[c] % n[c]) + 1 \in 1 .. Len(addrs[c])
  <2>1. Len(addrs[c]) \in Nat
    BY <1>1
  <2>2. idx[c] % n[c] \in 0 .. n[c] - 1
    BY <2>1
  <2> QED BY <2>1, <2>2
<1>3. Address(c) \in Range(addrs[c])
  BY <1>1, <1>2 DEF Address
<1> QED BY <1>3 DEF Addresses

\* What the steps keep that move no channel and no result.
LEMMA SameChans ==
    ASSUME ChanInv, UNCHANGED <<results, resultPool, dch, gch, gres>>,
           \A g \in Goroutines : Active(g)' <=> Active(g),
           \A c \in Callers : dpc'[c] = "wait" <=> dpc[c] = "wait",
           \A c \in Callers : dpc[c] = "wait" =>
              addrs'[c] = addrs[c] /\ idx'[c] = idx[c] /\ n'[c] = n[c]
    PROVE  ChanInv'
<1> USE DEF ChanInv
<1>1. \A c \in Callers : dch[c] # Nil => Address(c)' = Address(c)
  BY DEF Address, CallerChans
<1>2. CallerChans'
  BY DEF CallerChans
<1>3. SenderChans'
  BY DEF SenderChans
<1>4. SenderCallers'
  <2> SUFFICES ASSUME NEW g \in Goroutines, NEW c \in Callers, Active(g)', dch'[c] = gch'[g]
               PROVE  gres'[g].for = c /\ gres'[g].addr = Address(c)'
    BY DEF SenderCallers
  <2>1. Active(g) /\ dch[c] = gch[g] /\ dch[c] # Nil
    BY NilAssumption DEF SenderChans
  <2> QED BY <1>1, <2>1 DEF SenderCallers
<1>5. ResultsClaimed'
  <2> SUFFICES ASSUME NEW ch \in ResultChans, results'[ch] # <<>>
               PROVE  \E c \in Callers : /\ dch'[c] = ch
                                         /\ results'[ch][1].for = c
                                         /\ results'[ch][1].addr = Address(c)'
    BY DEF ResultsClaimed
  <2>1. PICK c \in Callers : /\ dch[c] = ch
                             /\ results[ch][1].for = c
                             /\ results[ch][1].addr = Address(c)
    BY DEF ResultsClaimed
  <2> QED BY <1>1, <2>1, NilAssumption
<1>6. CallersServed'
  BY DEF CallersServed
<1> QED BY <1>2, <1>3, <1>4, <1>5, <1>6

-----------------------------------------------------------------------------
\* A goroutine launched with a channel that nobody has.
LEMMA LaunchChans ==
    ASSUME DialTypeOK, ChanInv, NEW c \in Callers, Launch(c) PROVE ChanInv'
<1> USE DEF DialTypeOK, ChanInv
<1>1. PICK g \in Goroutines, ch \in ResultChans \ (UsedChans \ resultPool) :
         /\ gpc[g] = "free"
         /\ resultPool' = resultPool \ {ch}
         /\ dch' = [dch EXCEPT ![c] = ch]
         /\ gch' = [gch EXCEPT ![g] = ch]
         /\ gpc' = [gpc EXCEPT ![g] = "dial"]
         /\ gres' = [gres EXCEPT ![g] = [for |-> c, addr |-> Address(c), ok |-> FALSE]]
  BY DEF Launch
<1>2. /\ dpc[c] = "check" /\ dpc' = [dpc EXCEPT ![c] = "wait"]
      /\ UNCHANGED <<results, addrs, idx, n>>
  BY DEF Launch, Goto
<1>3. /\ \A d \in Callers : dch[d] # ch
      /\ \A h \in Goroutines : Active(h) => gch[h] # ch
  BY <1>1 DEF UsedChans, CallerChans, SenderChans, Active, Range
<1>4. results[ch] = <<>>
  BY <1>1, <1>3 DEF ResultsClaimed
<1>5. \A d \in Callers : Address(d)' = Address(d)
  BY <1>2 DEF Address
<1>6. \A h \in Goroutines : Active(h)' <=> Active(h) \/ h = g
  BY <1>1 DEF Active
<1>7. ~Active(g) /\ ch # Nil /\ dch[c] = Nil
  BY <1>1, <1>2, NilAssumption DEF Active, CallerChans
<1>8. CallerChans'
  BY <1>1, <1>2, <1>3, <1>7 DEF CallerChans
<1>9. SenderChans'
  BY <1>1, <1>2, <1>3, <1>4, <1>6, <1>7 DEF SenderChans
<1>10. SenderCallers'
  <2> SUFFICES ASSUME NEW h \in Goroutines, NEW d \in Callers, Active(h)', dch'[d] = gch'[h]
               PROVE  gres'[h].for = d /\ gres'[h].addr = Address(d)'
    BY DEF SenderCallers
  <2>1. CASE h = g
    <3>1. d = c
      BY <1>1, <1>3, <2>1
    <3> QED BY <1>1, <1>5, <2>1, <3>1
  <2>2. CASE h # g
    <3>1. Active(h) /\ gch'[h] = gch[h] /\ gres'[h] = gres[h] /\ gch[h] # ch
      BY <1>1, <1>3, <1>6, <2>2
    <3>2. d # c /\ dch'[d] = dch[d]
      BY <1>1, <3>1
    <3> QED BY <1>5, <3>1, <3>2 DEF SenderCallers
  <2> QED BY <2>1, <2>2
<1>11. ResultsClaimed'
  <2> SUFFICES ASSUME NEW x \in ResultChans, results'[x] # <<>>
               PROVE  \E d \in Callers : /\ dch'[d] = x
                                         /\ results'[x][1].for = d
                                         /\ results'[x][1].addr = Address(d)'
    BY DEF ResultsClaimed
  <2>1. PICK d \in Callers : /\ dch[d] = x
                             /\ results[x][1].for = d
                             /\ results[x][1].addr = Address(d)
    BY <1>2 DEF ResultsClaimed
  <2>2. d # c /\ dch'[d] = x
    BY <1>1, <1>7, <2>1, NilAssumption
  <2> QED BY <1>2, <1>5, <2>1, <2>2
<1>12. CallersServed'
  <2> SUFFICES ASSUME NEW d \in Callers, dch'[d] # Nil
               PROVE  \/ results'[dch'[d]] # <<>>
                      \/ \E h \in Goroutines : Active(h)' /\ gch'[h] = dch'[d]
    BY DEF CallersServed
  <2>1. CASE d = c
    BY <1>1, <1>6, <2>1
  <2>2. CASE d # c
    <3>1. dch'[d] = dch[d]
      BY <1>1, <2>2
    <3>2. ASSUME NEW h \in Goroutines, Active(h), gch[h] = dch[d]
          PROVE  Active(h)' /\ gch'[h] = dch'[d]
      BY <1>1, <1>6, <1>7, <3>1, <3>2
    <3> QED BY <1>2, <3>1, <3>2 DEF CallersServed
  <2> QED BY <2>1, <2>2
<1> QED BY <1>8, <1>9, <1>10, <1>11, <1>12

\* A caller that stops waiting, with its result or without.
LEMMA LeaveChans ==
    ASSUME DialTypeOK, ChanInv, NEW c \in Callers, dpc[c] = "wait",
           NEW pc \in DialPC \ {"wait"}, Goto(c, pc),
           results' = [results EXCEPT ![dch[c]] = <<>>],
           dch' = [dch EXCEPT ![c] = Nil],
           \/ resultPool' = resultPool
           \/ results[dch[c]] # <<>> /\ resultPool' = resultPool \cup {dch[c]},
           UNCHANGED <<addrs, goVars>>,
           \A d \in Callers \ {c} : idx'[d] = idx[d] /\ n'[d] = n[d]
    PROVE  ChanInv'
<1> USE DEF DialTypeOK, ChanInv
<1>1. dch[c] \in ResultChans
  BY DEF CallerChans
<1>2. \A d \in Callers : d # c => Address(d)' = Address(d) /\ dch'[d] = dch[d]
  BY DEF Address
<1>3. \A g \in Goroutines : Active(g)' <=> Active(g)
  BY DEF Active, goVars
<1>4. gch' = gch /\ gres' = gres /\ dpc' = [dpc EXCEPT ![c] = pc]
  BY DEF goVars, Goto
<1>5. dch'[c] = Nil
  OBVIOUS
<1>6. \A d \in Callers : d # c /\ dch[d] # Nil => dch[d] # dch[c]
  BY DEF CallerChans
<1>7. CallerChans'
  BY <1>1, <1>4, <1>6, NilAssumption DEF CallerChans
<1>8. SenderChans'
  <2> SUFFICES ASSUME NEW g \in Goroutines, Active(g)
               PROVE  /\ gch[g] \in ResultChans \ resultPool'
                      /\ results'[gch[g]] = <<>>
                      /\ \A h \in Goroutines : Active(h) /\ gch[h] = gch[g] => h = g
    BY <1>3, <1>4 DEF SenderChans
  <2> QED BY <1>1 DEF SenderChans
<1>9. SenderCallers'
  <2> SUFFICES ASSUME NEW g \in Goroutines, NEW d \in Callers, Active(g), dch'[d] = gch[g]
               PROVE  gres[g].for = d /\ gres[g].addr = Address(d)'
    BY <1>3, <1>4 DEF SenderCallers
  <2>1. d # c
    BY <1>5, NilAssumption DEF SenderChans
  <2> QED BY <1>2, <2>1 DEF SenderCallers
<1>10. ResultsClaimed'
  <2> SUFFICES ASSUME NEW x \in ResultChans, results'[x] # <<>>
               PROVE  \E d \in Callers : /\ dch'[d] = x
                                         /\ results'[x][1].for = d
                                         /\ results'[x][1].addr = Address(d)'
    BY DEF ResultsClaimed
  <2>1. x # dch[c] /\ results'[x] = results[x]
    BY <1>1
  <2>2. PICK d \in Callers : /\ dch[d] = x
                             /\ results[x][1].for = d
                             /\ results[x][1].addr = Address(d)
    BY <2>1 DEF ResultsClaimed
  <2> QED BY <1>2, <2>1, <2>2
<1>11. CallersServed'
  <2> SUFFICES ASSUME NEW d \in Callers, dch'[d] # Nil
               PROVE  \/ results'[dch'[d]] # <<>>
                      \/ \E h \in Goroutines : Active(h)' /\ gch'[h] = dch'[d]
    BY DEF CallersServed
  <2>1. d # c /\ dch'[d] = dch[d] /\ dch[d] # dch[c] /\ dch[d] \in ResultChans
    BY <1>2, <1>5, <1>6
  <2>2. results'[dch[d]] = results[dch[d]]
    BY <2>1
  <2> QED BY <1>3, <1>4, <2>1, <2>2 DEF CallersServed
<1> QED BY <1>7, <1>8, <1>9, <1>10, <1>11

\* A goroutine sends its result, to its caller or to nobody.
LEMMA SendChans ==
    ASSUME DialTypeOK, ChanInv, NEW g \in Goroutines, SendResult(g) PROVE ChanInv'
<1> USE DEF DialTypeOK, ChanInv
<1>1. /\ gpc[g] = "send" /\ gpc' = [gpc EXCEPT ![g] = "token"]
      /\ gch' = [gch EXCEPT ![g] = Nil] /\ gres' = [gres EXCEPT ![g] = Nil]
      /\ UNCHANGED <<resultPool, dpc, dch, addrs, idx, n>>
  BY DEF SendResult, loopVars
<1>2. Active(g) /\ gch[g] \in ResultChans \ resultPool /\ results[gch[g]] = <<>>
  BY <1>1 DEF Active, SenderChans
<1>3. \A h \in Goroutines : Active(h)' <=> Active(h) /\ h # g
  BY <1>1 DEF Active
<1>4. \A d \in Callers : Address(d)' = Address(d)
  BY <1>1 DEF Address
<1>5. \A h \in Goroutines : h # g => gch'[h] = gch[h] /\ gres'[h] = gres[h]
  BY <1>1
<1>6. \A h \in Goroutines : Active(h) /\ h # g => gch[h] # gch[g]
  BY <1>2 DEF SenderChans
<1>7. \/ results' = [results EXCEPT ![gch[g]] = <<gres[g]>>] /\ \E c \in Callers : dch[c] = gch[g]
      \/ results' = results /\ \A c \in Callers : dch[c] # gch[g]
  BY <1>2 DEF SendResult, Range
<1>8. \A x \in ResultChans : x # gch[g] => results'[x] = results[x]
  BY <1>7
<1>9. CallerChans'
  BY <1>1 DEF CallerChans
<1>10. SenderChans'
  <2> SUFFICES ASSUME NEW h \in Goroutines, Active(h)'
               PROVE  /\ gch'[h] \in ResultChans \ resultPool'
                      /\ results'[gch'[h]] = <<>>
                      /\ \A k \in Goroutines : Active(k)' /\ gch'[k] = gch'[h] => k = h
    BY DEF SenderChans
  <2>1. Active(h) /\ h # g /\ gch'[h] = gch[h] /\ gch[h] # gch[g]
    BY <1>3, <1>5, <1>6
  <2> QED BY <1>1, <1>3, <1>5, <1>8, <2>1 DEF SenderChans
<1>11. SenderCallers'
  <2> SUFFICES ASSUME NEW h \in Goroutines, NEW c \in Callers, Active(h)', dch'[c] = gch'[h]
               PROVE  gres'[h].for = c /\ gres'[h].addr = Address(c)'
    BY DEF SenderCallers
  <2>1. Active(h) /\ h # g /\ gch'[h] = gch[h] /\ gres'[h] = gres[h] /\ dch[c] = gch[h]
    BY <1>1, <1>3, <1>5
  <2> QED BY <1>4, <2>1 DEF SenderCallers
<1>12. ResultsClaimed'
  <2> SUFFICES ASSUME NEW x \in ResultChans, results'[x] # <<>>
               PROVE  \E d \in Callers : /\ dch[d] = x
                                         /\ results'[x][1].for = d
                                         /\ results'[x][1].addr = Address(d)
    BY <1>1, <1>4 DEF ResultsClaimed
  <2>1. CASE x = gch[g]
    <3>1. PICK c \in Callers : dch[c] = gch[g]
      BY <1>2, <1>7, <2>1
    <3>2. results'[x] = <<gres[g]>>
      BY <1>2, <1>7, <2>1, <3>1
    <3>3. gres[g].for = c /\ gres[g].addr = Address(c)
      BY <1>2, <3>1 DEF SenderCallers
    <3> QED BY <2>1, <3>1, <3>2, <3>3
  <2>2. CASE x # gch[g]
    BY <1>8, <2>2 DEF ResultsClaimed
  <2> QED BY <2>1, <2>2
<1>13. CallersServed'
  <2> SUFFICES ASSUME NEW d \in Callers, dch[d] # Nil
               PROVE  \/ results'[dch[d]] # <<>>
                      \/ \E h \in Goroutines : Active(h)' /\ gch'[h] = dch[d]
    BY <1>1 DEF CallersServed
  <2>1. CASE dch[d] = gch[g]
    <3>1. results'[gch[g]] = <<gres[g]>>
      BY <1>2, <1>7, <2>1
    <3> QED BY <2>1, <3>1
  <2>2. CASE dch[d] # gch[g]
    <3>1. results'[dch[d]] = results[dch[d]]
      BY <1>8, <2>2
    <3>2. ASSUME NEW h \in Goroutines, Active(h), gch[h] = dch[d]
          PROVE  Active(h)' /\ gch'[h] = dch[d]
      BY <1>3, <1>5, <2>2, <3>2
    <3> QED BY <3>1, <3>2 DEF CallersServed
  <2> QED BY <2>1, <2>2
<1> QED BY <1>9, <1>10, <1>11, <1>12, <1>13

\* dialTCP returns.
LEMMA DialTCPChans ==
    ASSUME DialTypeOK, ChanInv, NEW g \in Goroutines, DialTCP(g) PROVE ChanInv'
<1> USE DEF DialTypeOK, ChanInv
<1>1. /\ gpc[g] = "dial" /\ gpc' = [gpc EXCEPT ![g] = "send"]
      /\ UNCHANGED <<results, resultPool, dpc, dch, gch, addrs, idx, n>>
  BY DEF DialTCP, chanVars, loopVars
<1>2. \A h \in Goroutines : Active(h)' <=> Active(h)
  BY <1>1 DEF Active
<1>3. PICK ok \in BOOLEAN : gres' = [gres EXCEPT ![g].ok = ok]
  BY DEF DialTCP
<1>4. \A h \in Goroutines : Active(h) => gres'[h].for = gres[h].for /\ gres'[h].addr = gres[h].addr
  BY <1>1, <1>3 DEF Active, Result
<1>5. \A d \in Callers : Address(d)' = Address(d)
  BY <1>1 DEF Address
<1>6. CallerChans'
  BY <1>1 DEF CallerChans
<1>7. SenderChans'
  BY <1>1, <1>2 DEF SenderChans
<1>8. SenderCallers'
  <2> SUFFICES ASSUME NEW h \in Goroutines, NEW c \in Callers, Active(h), dch[c] = gch[h]
               PROVE  gres'[h].for = c /\ gres'[h].addr = Address(c)
    BY <1>1, <1>2, <1>5 DEF SenderCallers
  <2> QED BY <1>4 DEF SenderCallers
<1>9. ResultsClaimed'
  BY <1>1, <1>5 DEF ResultsClaimed
<1>10. CallersServed'
  BY <1>1, <1>2 DEF CallersServed
<1> QED BY <1>6, <1>7, <1>8, <1>9, <1>10

\* Every step keeps ChanInv.
LEMMA StepChanInv == DialInv /\ DialNext => ChanInv'
<1> SUFFICES ASSUME DialInv, DialNext PROVE ChanInv'
  OBVIOUS
<1>0. DialTypeOK /\ ChanInv
  BY DEF DialInv
<1> USE DEF DialTypeOK, Goto
<1>1. ASSUME NEW c \in Callers, NEW h \in Hosts, UseEntry(c, h) \/ Resolve(c, h) PROVE ChanInv'
  BY <1>0, <1>1, SameChans DEF UseEntry, Resolve, Begin, chanVars, goVars, loopVars, Active
<1>2. ASSUME NEW c \in Callers, DialStep(c) PROVE ChanInv'
  <2>1. ASSUME NEW s \in Lookups, LookupOK(c, s) PROVE ChanInv'
    BY <1>0, <2>1, SameChans DEF LookupOK, Begin, chanVars, goVars, loopVars, Active
  <2>2. CASE LookupFails(c) \/ Try(c) \/ TryLate(c) \/ TokenComes(c) \/ TokenTimeout(c) \/ CheckLate(c)
    BY <1>0, <2>2, SameChans DEF LookupFails, Try, TryLate, TokenComes, TokenTimeout, CheckLate,
                                 chanVars, goVars, loopVars, Active
  <2>3. CASE Launch(c)
    BY <1>0, <2>3, LaunchChans
  <2>4. CASE ResultOK(c)
    BY <1>0, <2>4, LeaveChans DEF ResultOK, loopVars, DialPC
  <2>5. CASE ResultErr(c)
    <3>1. PICK pc \in {"try", "err"} : dpc' = [dpc EXCEPT ![c] = pc]
      BY <2>5 DEF ResultErr
    <3> QED BY <1>0, <2>5, <3>1, LeaveChans DEF ResultErr, DialPC
  <2>6. CASE ResultTimeout(c)
    BY <1>0, <2>6, LeaveChans DEF ResultTimeout, loopVars, DialPC
  <2> QED BY <1>2, <2>1, <2>2, <2>3, <2>4, <2>5, <2>6 DEF DialStep
<1>3. ASSUME NEW c \in Callers, DialReturns(c) PROVE ChanInv'
  BY <1>0, <1>3, SameChans DEF DialReturns, chanVars, goVars, Active
<1>4. CASE DialBackground
  <2>1. CASE AddrsClean
    BY <1>0, <2>1, SameChans DEF AddrsClean, chanVars, goVars, loopVars, Active
  <2>2. ASSUME NEW h \in Hosts, GrowsOld(h) PROVE ChanInv'
    BY <1>0, <2>2, SameChans DEF GrowsOld, chanVars, goVars, loopVars, Active
  <2>3. ASSUME NEW c \in Callers, DeadlinePasses(c) PROVE ChanInv'
    BY <1>0, <2>3, SameChans DEF DeadlinePasses, chanVars, goVars, loopVars, Active
  <2>4. ASSUME NEW g \in Goroutines, DialTCP(g) PROVE ChanInv'
    BY <1>0, <2>4, DialTCPChans
  <2>5. ASSUME NEW g \in Goroutines, SendResult(g) PROVE ChanInv'
    BY <1>0, <2>5, SendChans
  <2>6. ASSUME NEW g \in Goroutines, TokenBack(g) PROVE ChanInv'
    BY <1>0, <2>6, SameChans DEF TokenBack, chanVars, loopVars, Active
  <2> QED BY <1>4, <2>1, <2>2, <2>3, <2>4, <2>5, <2>6 DEF DialBackground
<1> QED BY <1>1, <1>2, <1>3, <1>4 DEF DialNext

-----------------------------------------------------------------------------
\* The goroutines and the callers that hold a token.
Busy == {g \in Goroutines : gpc[g] # "free"}
Checking == {c \in Callers : dpc[c] = "check"}

\* Both are finite, and so are all their successors.
LEMMA FiniteHolders ==
    /\ IsFiniteSet(Busy) /\ IsFiniteSet(Checking)
    /\ Cardinality(Busy) \in Nat /\ Cardinality(Checking) \in Nat
<1>1. Busy \in SUBSET Goroutines /\ Checking \in SUBSET Callers
  BY DEF Busy, Checking
<1>2. IsFiniteSet(Busy) /\ IsFiniteSet(Checking)
  BY <1>1, GoroutinesAssumption, FS_Subset
<1> QED BY <1>2, FS_CardinalityType

\* No token is out when the program starts.
LEMMA InitDialInv == DialInit => DialInv
<1> SUFFICES ASSUME DialInit PROVE DialInv
  OBVIOUS
<1>1. DialTypeOK
  <2>1. results \in [ResultChans -> Seq(Result)]
    BY DEF DialInit
  <2>2. 0 \in 0 .. IdxMod - 1
    OBVIOUS
  <2> QED BY <2>1, <2>2 DEF DialInit, DialTypeOK, DialPC
<1>2. LoopInv
  BY DEF DialInit, LoopInv
<1>3. TokensExact
  <2>1. Busy = {} /\ Checking = {}
    BY DEF DialInit, Busy, Checking
  <2>2. tokens = Cardinality(Busy) + Cardinality(Checking)
    BY <2>1, FS_EmptySet DEF DialInit
  <2> QED BY <2>2 DEF TokensExact, Busy, Checking
<1>4. ChanInv
  BY DEF DialInit, ChanInv, CallerChans, SenderChans, SenderCallers, ResultsClaimed,
         CallersServed, Active
<1> QED BY <1>1, <1>2, <1>3, <1>4 DEF DialInv

\* Every step keeps the bounds of the loop.
LEMMA StepLoopInv == DialInv /\ DialNext => LoopInv'
<1> SUFFICES ASSUME DialInv, DialNext PROVE LoopInv'
  OBVIOUS
<1> USE DEF LoopInv, DialTypeOK, Goto
<1>0. DialTypeOK /\ LoopInv
  BY DEF DialInv
<1>1. \A s \in Lookups : Len(s) \in Nat /\ 1 \in 1 .. Len(s) /\ Len(s) \in 1 .. Len(s)
  <2> SUFFICES ASSUME NEW s \in Lookups PROVE Len(s) \in Nat /\ Len(s) >= 1
    OBVIOUS
  <2>1. s \in Seq(Range(s)) /\ s # <<>>
    BY LookupsAssumption
  <2> QED BY <2>1
<1>2. ASSUME NEW c \in Callers, NEW h \in Hosts, UseEntry(c, h) PROVE LoopInv'
  <2>1. tcpAddrsMap[h].addrs \in Lookups
    BY <1>0, <1>2 DEF UseEntry, Entry
  <2>2. /\ addrs' = [addrs EXCEPT ![c] = tcpAddrsMap[h].addrs]
        /\ n' = [n EXCEPT ![c] = Len(tcpAddrsMap[h].addrs)]
        /\ dpc' = [dpc EXCEPT ![c] = "try"]
    BY <1>2 DEF UseEntry, Begin
  <2> QED BY <1>0, <1>1, <2>1, <2>2
<1>3. ASSUME NEW c \in Callers, NEW h \in Hosts, Resolve(c, h) PROVE LoopInv'
  BY <1>0, <1>3 DEF Resolve, loopVars
<1>4. ASSUME NEW c \in Callers, DialStep(c) PROVE LoopInv'
  <2>1. ASSUME NEW s \in Lookups, LookupOK(c, s) PROVE LoopInv'
    <3>1. /\ addrs' = [addrs EXCEPT ![c] = s]
          /\ n' = [n EXCEPT ![c] = Len(s)]
          /\ dpc' = [dpc EXCEPT ![c] = "try"]
      BY <2>1 DEF LookupOK, Begin
    <3> QED BY <1>0, <1>1, <3>1
  <2>2. CASE LookupFails(c) \/ Try(c) \/ TryLate(c) \/ TokenComes(c) \/ TokenTimeout(c) \/ CheckLate(c)
    BY <1>0, <2>2 DEF LookupFails, Try, TryLate, TokenComes, TokenTimeout, CheckLate, loopVars
  <2>3. CASE Launch(c) \/ ResultOK(c) \/ ResultTimeout(c)
    BY <1>0, <2>3 DEF Launch, ResultOK, ResultTimeout, loopVars
  <2>4. CASE ResultErr(c)
    <3>1. /\ dpc[c] = "wait" /\ addrs' = addrs
          /\ n' = [n EXCEPT ![c] = n[c] - 1]
          /\ dpc' = [dpc EXCEPT ![c] = IF n[c] > 1 THEN "try" ELSE "err"]
      BY <2>4 DEF ResultErr
    <3>2. n[c] > 1 => n[c] - 1 \in 1 .. Len(addrs[c])
      BY <1>0, <1>1, <3>1
    <3> QED BY <1>0, <3>1, <3>2
  <2> QED BY <1>4, <2>1, <2>2, <2>3, <2>4 DEF DialStep
<1>5. ASSUME NEW c \in Callers, DialReturns(c) PROVE LoopInv'
  BY <1>0, <1>5 DEF DialReturns
<1>6. CASE DialBackground
  BY <1>0, <1>6 DEF DialBackground, AddrsClean, GrowsOld, DeadlinePasses, DialTCP, SendResult,
                    TokenBack, loopVars
<1> QED BY <1>2, <1>3, <1>4, <1>5, <1>6 DEF DialNext

\* Every step keeps the count of the tokens.
LEMMA StepTokensExact == DialInv /\ DialNext => TokensExact'
<1> SUFFICES ASSUME DialInv, DialNext PROVE TokensExact'
  OBVIOUS
<1>0. /\ DialTypeOK
      /\ tokens = Cardinality(Busy) + Cardinality(Checking)
  BY DEF DialInv, TokensExact, Busy, Checking
<1>1. tokens' = Cardinality(Busy') + Cardinality(Checking') => TokensExact'
  BY DEF TokensExact, Busy, Checking
<1> USE DEF DialTypeOK, Goto
<1>2. ASSUME tokens' = tokens, Busy' = Busy, Checking' = Checking PROVE TokensExact'
  BY <1>0, <1>1, <1>2
<1>3. ASSUME NEW c \in Callers, tokens' = tokens + 1, Busy' = Busy,
             c \notin Checking, Checking' = Checking \cup {c}
      PROVE  TokensExact'
  <2>1. Cardinality(Checking') = Cardinality(Checking) + 1
    BY <1>3, FiniteHolders, FS_AddElement
  <2> QED BY <1>0, <1>1, <1>3, <2>1, FiniteHolders
<1>4. ASSUME NEW c \in Callers, NEW h \in Hosts, UseEntry(c, h) \/ Resolve(c, h) PROVE TokensExact'
  <2>1. tokens' = tokens /\ Busy' = Busy /\ Checking' = Checking
    BY <1>0, <1>4 DEF UseEntry, Resolve, Begin, goVars, Busy, Checking
  <2> QED BY <1>2, <2>1
<1>5. ASSUME NEW c \in Callers, DialStep(c) PROVE TokensExact'
  <2>1. ASSUME NEW s \in Lookups, LookupOK(c, s) PROVE TokensExact'
    <3>1. tokens' = tokens /\ Busy' = Busy /\ Checking' = Checking
      BY <1>0, <2>1 DEF LookupOK, Begin, goVars, Busy, Checking
    <3> QED BY <1>2, <3>1
  <2>2. CASE LookupFails(c) \/ TryLate(c) \/ TokenTimeout(c)
    <3>1. tokens' = tokens /\ Busy' = Busy /\ Checking' = Checking
      BY <1>0, <2>2 DEF LookupFails, TryLate, TokenTimeout, goVars, Busy, Checking
    <3> QED BY <1>2, <3>1
  <2>3. CASE Try(c)
    <3>1. CASE tokens < MaxDialConcurrency
      <4>1. /\ dpc[c] = "try" /\ dpc' = [dpc EXCEPT ![c] = "check"]
            /\ tokens' = tokens + 1 /\ gpc' = gpc
        BY <2>3, <3>1 DEF Try, goVars
      <4>2. Busy' = Busy /\ c \notin Checking /\ Checking' = Checking \cup {c}
        BY <1>0, <4>1 DEF Busy, Checking
      <4> QED BY <1>3, <4>1, <4>2
    <3>2. CASE ~(tokens < MaxDialConcurrency)
      <4>1. tokens' = tokens /\ Busy' = Busy /\ Checking' = Checking
        BY <1>0, <2>3, <3>2 DEF Try, goVars, Busy, Checking
      <4> QED BY <1>2, <4>1
    <3> QED BY <3>1, <3>2
  <2>4. CASE TokenComes(c)
    <3>1. /\ dpc[c] = "token" /\ dpc' = [dpc EXCEPT ![c] = "check"]
          /\ tokens' = tokens + 1 /\ gpc' = gpc
      BY <2>4 DEF TokenComes, goVars
    <3>2. Busy' = Busy /\ c \notin Checking /\ Checking' = Checking \cup {c}
      BY <1>0, <3>1 DEF Busy, Checking
    <3> QED BY <1>3, <3>1, <3>2
  <2>5. CASE CheckLate(c)
    <3>1. /\ dpc[c] = "check" /\ dpc' = [dpc EXCEPT ![c] = "timeout"]
          /\ tokens' = tokens - 1 /\ gpc' = gpc
      BY <2>5 DEF CheckLate, goVars
    <3>2. Busy' = Busy /\ c \in Checking /\ Checking' = Checking \ {c}
      BY <1>0, <3>1 DEF Busy, Checking
    <3>3. Cardinality(Checking') = Cardinality(Checking) - 1
      BY <3>2, FiniteHolders, FS_RemoveElement
    <3> QED BY <1>0, <1>1, <3>1, <3>2, <3>3, FiniteHolders
  <2>6. CASE Launch(c)
    <3>1. PICK g \in Goroutines : gpc[g] = "free" /\ gpc' = [gpc EXCEPT ![g] = "dial"]
      BY <2>6 DEF Launch
    <3>2. dpc[c] = "check" /\ dpc' = [dpc EXCEPT ![c] = "wait"] /\ tokens' = tokens
      BY <2>6 DEF Launch
    <3>3. Busy' = Busy \cup {g} /\ g \notin Busy
      BY <1>0, <3>1 DEF Busy
    <3>4. Checking' = Checking \ {c} /\ c \in Checking
      BY <1>0, <3>2 DEF Checking
    <3>5. Cardinality(Busy') = Cardinality(Busy) + 1
      BY <3>3, FiniteHolders, FS_AddElement
    <3>6. Cardinality(Checking') = Cardinality(Checking) - 1
      BY <3>4, FiniteHolders, FS_RemoveElement
    <3> QED BY <1>0, <1>1, <3>2, <3>5, <3>6, FiniteHolders
  <2>7. CASE ResultOK(c) \/ ResultErr(c) \/ ResultTimeout(c)
    <3>1. tokens' = tokens /\ gpc' = gpc
      BY <2>7 DEF ResultOK, ResultErr, ResultTimeout, goVars
    <3>2. dpc[c] = "wait" /\ \E pc \in {"ok", "err", "try", "timeout"} : dpc' = [dpc EXCEPT ![c] = pc]
      BY <2>7 DEF ResultOK, ResultErr, ResultTimeout
    <3>3. Checking' = Checking
      BY <1>0, <3>2 DEF Checking
    <3>4. Busy' = Busy
      BY <3>1 DEF Busy
    <3> QED BY <1>2, <3>1, <3>3, <3>4
  <2> QED BY <1>5, <2>1, <2>2, <2>3, <2>4, <2>5, <2>6, <2>7 DEF DialStep
<1>6. ASSUME NEW c \in Callers, DialReturns(c) PROVE TokensExact'
  <2>1. tokens' = tokens /\ Busy' = Busy /\ Checking' = Checking
    BY <1>0, <1>6 DEF DialReturns, goVars, Busy, Checking
  <2> QED BY <1>2, <2>1
<1>7. CASE DialBackground
  <2>1. CASE AddrsClean \/ (\E h \in Hosts : GrowsOld(h)) \/ (\E c \in Callers : DeadlinePasses(c))
    <3>1. tokens' = tokens /\ Busy' = Busy /\ Checking' = Checking
      BY <2>1 DEF AddrsClean, GrowsOld, DeadlinePasses, goVars, Busy, Checking
    <3> QED BY <1>2, <3>1
  <2>2. ASSUME NEW g \in Goroutines, DialTCP(g) \/ SendResult(g) PROVE TokensExact'
    <3>1. tokens' = tokens /\ Busy' = Busy /\ Checking' = Checking
      BY <1>0, <2>2 DEF DialTCP, SendResult, Busy, Checking
    <3> QED BY <1>2, <3>1
  <2>3. ASSUME NEW g \in Goroutines, TokenBack(g) PROVE TokensExact'
    <3>1. /\ gpc[g] = "token" /\ gpc' = [gpc EXCEPT ![g] = "free"]
          /\ tokens' = tokens - 1 /\ dpc' = dpc
      BY <2>3 DEF TokenBack
    <3>2. Busy' = Busy \ {g} /\ g \in Busy /\ Checking' = Checking
      BY <1>0, <3>1 DEF Busy, Checking
    <3>3. Cardinality(Busy') = Cardinality(Busy) - 1
      BY <3>2, FiniteHolders, FS_RemoveElement
    <3> QED BY <1>0, <1>1, <3>1, <3>2, <3>3, FiniteHolders
  <2> QED BY <1>7, <2>1, <2>2, <2>3 DEF DialBackground
<1> QED BY <1>4, <1>5, <1>6, <1>7 DEF DialNext

\* An entry stays one when it is marked or ages.
LEMMA EntryChanges ==
    ASSUME NEW e \in Entry
    PROVE  /\ \A p \in BOOLEAN : [e EXCEPT !.pending = p] \in Entry
           /\ \A a \in Age : [e EXCEPT !.age = a] \in Entry
  BY DEF Entry

\* Every step keeps the types: with the bounds of the loop an address is always
\* found, and with the count of the tokens there is one to give back.
LEMMA StepDialTypeOK == DialInv /\ DialNext => DialTypeOK'
<1> SUFFICES ASSUME DialInv, DialNext PROVE DialTypeOK'
  OBVIOUS
<1>0. DialTypeOK /\ LoopInv
  BY DEF DialInv
<1>1. tokens = Cardinality(Busy) + Cardinality(Checking)
  BY DEF DialInv, TokensExact, Busy, Checking
<1> USE DEF DialTypeOK, Goto, DialPC
<1>2. ASSUME NEW c \in Callers, NEW h, NEW e \in Entry, Begin(c, h, e),
             dhost' \in [Callers -> Hosts \cup {Nil}]
      PROVE  DialTypeOK'
  <2> DEFINE i == (e.idx + 1) % IdxMod
  <2>1. i \in 0 .. IdxMod - 1
    BY DEF Entry
  <2>2. [e EXCEPT !.idx = i] \in Entry
    BY <2>1 DEF Entry
  <2>3. tcpAddrsMap' \in [Hosts -> Entry \cup {Nil}]
    BY <1>0, <1>2, <2>2 DEF Begin, Put
  <2>4. e.addrs \in Lookups /\ Len(e.addrs) \in Nat
    BY LookupsAssumption DEF Entry
  <2> HIDE DEF i
  <2>5. /\ idx' = [idx EXCEPT ![c] = i]
        /\ addrs' = [addrs EXCEPT ![c] = e.addrs]
        /\ n' = [n EXCEPT ![c] = Len(e.addrs)]
        /\ dpc' = [dpc EXCEPT ![c] = "try"]
        /\ UNCHANGED <<tokens, results, resultPool, late, dch, gpc, gch, gres>>
    BY <1>2 DEF Begin, i, chanVars, goVars
  <2> QED BY <1>0, <1>2, <2>1, <2>3, <2>4, <2>5
<1>3. ASSUME NEW c \in Callers, NEW h \in Hosts, UseEntry(c, h) PROVE DialTypeOK'
  <2>1. tcpAddrsMap[h] \in Entry /\ dhost' \in [Callers -> Hosts \cup {Nil}]
    BY <1>0, <1>3 DEF UseEntry
  <2> QED BY <1>2, <1>3, <2>1 DEF UseEntry
<1>4. ASSUME NEW c \in Callers, NEW h \in Hosts, Resolve(c, h) PROVE DialTypeOK'
  <2>1. tcpAddrsMap' \in [Hosts -> Entry \cup {Nil}]
    <3>1. CASE UNCHANGED tcpAddrsMap
      BY <1>0, <3>1
    <3>2. CASE tcpAddrsMap[h] # Nil /\ Put(h, [tcpAddrsMap[h] EXCEPT !.pending = TRUE])
      <4>1. [tcpAddrsMap[h] EXCEPT !.pending = TRUE] \in Entry
        BY <1>0, <3>2, EntryChanges
      <4> QED BY <1>0, <3>2, <4>1 DEF Put
    <3> QED BY <1>4, <3>1, <3>2 DEF Resolve
  <2> QED BY <1>0, <1>4, <2>1 DEF Resolve, chanVars, loopVars, goVars
<1>5. ASSUME NEW c \in Callers, DialStep(c) PROVE DialTypeOK'
  <2>1. ASSUME NEW s \in Lookups, LookupOK(c, s) PROVE DialTypeOK'
    <3> DEFINE e == [addrs |-> s, idx |-> 0, age |-> "fresh", pending |-> FALSE]
    <3>1. e \in Entry
      BY DEF Entry, Age
    <3>2. Begin(c, dhost[c], e) /\ dhost' \in [Callers -> Hosts \cup {Nil}]
      BY <1>0, <2>1 DEF LookupOK
    <3> HIDE DEF e
    <3> QED BY <1>2, <3>1, <3>2
  <2>2. CASE LookupFails(c)
    <3>1. tcpAddrsMap' \in [Hosts -> Entry \cup {Nil}]
      <4>1. CASE UNCHANGED tcpAddrsMap
        BY <1>0, <4>1
      <4>2. CASE /\ tcpAddrsMap[dhost[c]] # Nil
                 /\ Put(dhost[c], [tcpAddrsMap[dhost[c]] EXCEPT !.pending = FALSE])
        <5>1. dhost[c] \in Hosts => [tcpAddrsMap[dhost[c]] EXCEPT !.pending = FALSE] \in Entry
          <6>1. dhost[c] \in Hosts => tcpAddrsMap[dhost[c]] \in Entry
            BY <1>0, <4>2
          <6>2. tcpAddrsMap[dhost[c]] \in Entry
                  => [tcpAddrsMap[dhost[c]] EXCEPT !.pending = FALSE] \in Entry
            BY EntryChanges
          <6> QED BY <6>1, <6>2
        <5> QED BY <1>0, <4>2, <5>1 DEF Put
      <4> QED BY <2>2, <4>1, <4>2 DEF LookupFails
    <3> QED BY <1>0, <2>2, <3>1 DEF LookupFails, chanVars, loopVars, goVars
  <2>3. CASE Try(c) \/ TokenComes(c)
    <3>1. tokens' \in 0 .. MaxDialConcurrency
      BY <1>0, <2>3 DEF Try, TokenComes
    <3> QED BY <1>0, <2>3, <3>1 DEF Try, TokenComes, chanVars, loopVars, goVars
  <2>4. CASE TryLate(c) \/ TokenTimeout(c)
    BY <1>0, <2>4 DEF TryLate, TokenTimeout, chanVars, loopVars, goVars
  <2>5. CASE CheckLate(c)
    <3>1. c \in Checking
      BY <2>5 DEF CheckLate, Checking
    <3>2. Cardinality(Checking) # 0
      BY <3>1, FiniteHolders, FS_EmptySet
    <3>3. tokens' \in 0 .. MaxDialConcurrency
      BY <1>0, <1>1, <2>5, <3>2, FiniteHolders DEF CheckLate
    <3> QED BY <1>0, <2>5, <3>3 DEF CheckLate, chanVars, loopVars, goVars
  <2>6. CASE Launch(c)
    <3>1. PICK g \in Goroutines, ch \in ResultChans \ (UsedChans \ resultPool) :
             /\ resultPool' = resultPool \ {ch}
             /\ dch' = [dch EXCEPT ![c] = ch]
             /\ gch' = [gch EXCEPT ![g] = ch]
             /\ gpc' = [gpc EXCEPT ![g] = "dial"]
             /\ gres' = [gres EXCEPT ![g] = [for |-> c, addr |-> Address(c), ok |-> FALSE]]
      BY <2>6 DEF Launch
    <3>2. Address(c) \in Addresses
      <4>1. addrs[c] \in Lookups /\ n[c] \in 1 .. Len(addrs[c]) /\ idx[c] \in Nat
        BY <1>0, <2>6 DEF Launch, LoopInv
      <4> QED BY <4>1, AddressFound
    <3> DEFINE r == [for |-> c, addr |-> Address(c), ok |-> FALSE]
    <3>3. r \in Result
      BY <3>2 DEF Result
    <3> HIDE DEF r
    <3> QED BY <1>0, <2>6, <3>1, <3>3 DEF Launch, r
  <2>7. CASE ResultOK(c) \/ ResultErr(c) \/ ResultTimeout(c)
    <3>1. results' \in [ResultChans -> Seq(Result)]
      <4>1. results' = [results EXCEPT ![dch[c]] = <<>>]
        BY <2>7 DEF ResultOK, ResultErr, ResultTimeout
      <4>2. <<>> \in Seq(Result)
        OBVIOUS
      <4> QED BY <1>0, <4>1, <4>2
    <3>2. resultPool' \subseteq ResultChans
      <4>1. dch[c] \in ResultChans
        BY <1>0, <2>7 DEF ResultOK, ResultErr, ResultTimeout, DialInv, ChanInv, CallerChans
      <4> QED BY <1>0, <2>7, <4>1 DEF ResultOK, ResultErr, ResultTimeout
    <3>3. dch' \in [Callers -> ResultChans \cup {Nil}] /\ dpc' \in [Callers -> DialPC]
      BY <1>0, <2>7 DEF ResultOK, ResultErr, ResultTimeout
    <3>4. idx' \in [Callers -> 0 .. IdxMod - 1]
      <4>1. (idx[c] + 1) % IdxMod \in 0 .. IdxMod - 1
        BY <1>0
      <4>2. idx' = idx \/ idx' = [idx EXCEPT ![c] = (idx[c] + 1) % IdxMod]
        BY <2>7 DEF ResultOK, ResultErr, ResultTimeout, loopVars
      <4> QED BY <1>0, <4>1, <4>2
    <3>5. n' \in [Callers -> Nat]
      <4>1. dpc[c] = "wait"
        BY <2>7 DEF ResultOK, ResultErr, ResultTimeout
      <4>2. n[c] - 1 \in Nat
        BY <1>0, <4>1 DEF LoopInv
      <4>3. n' = n \/ n' = [n EXCEPT ![c] = n[c] - 1]
        BY <2>7 DEF ResultOK, ResultErr, ResultTimeout, loopVars
      <4> QED BY <1>0, <4>2, <4>3
    <3> QED BY <1>0, <2>7, <3>1, <3>2, <3>3, <3>4, <3>5
            DEF ResultOK, ResultErr, ResultTimeout, loopVars, goVars
  <2> QED BY <1>5, <2>1, <2>2, <2>3, <2>4, <2>5, <2>6, <2>7 DEF DialStep
<1>6. ASSUME NEW c \in Callers, DialReturns(c) PROVE DialTypeOK'
  <2>1. 0 \in 0 .. IdxMod - 1
    OBVIOUS
  <2> QED BY <1>0, <1>6, <2>1 DEF DialReturns, chanVars, goVars
<1>7. CASE DialBackground
  <2>1. CASE AddrsClean
    BY <1>0, <2>1 DEF AddrsClean, chanVars, loopVars, goVars
  <2>2. ASSUME NEW h \in Hosts, GrowsOld(h) PROVE DialTypeOK'
    <3>1. tcpAddrsMap' \in [Hosts -> Entry \cup {Nil}]
      <4>1. PICK a \in Age : tcpAddrsMap' = [tcpAddrsMap EXCEPT ![h] = [tcpAddrsMap[h] EXCEPT !.age = a]]
        BY <2>2 DEF GrowsOld, Put, Age
      <4>2. [tcpAddrsMap[h] EXCEPT !.age = a] \in Entry
        BY <1>0, <2>2, EntryChanges DEF GrowsOld
      <4> QED BY <1>0, <4>1, <4>2
    <3> QED BY <1>0, <2>2, <3>1 DEF GrowsOld, chanVars, loopVars, goVars
  <2>3. ASSUME NEW c \in Callers, DeadlinePasses(c) PROVE DialTypeOK'
    BY <1>0, <2>3 DEF DeadlinePasses, chanVars, loopVars, goVars
  <2>4. ASSUME NEW g \in Goroutines, DialTCP(g) PROVE DialTypeOK'
    <3>1. PICK ok \in BOOLEAN : gres' = [gres EXCEPT ![g].ok = ok]
      BY <2>4 DEF DialTCP
    <3>2. [gres[g] EXCEPT !.ok = ok] \in Result
      BY <1>0, <2>4 DEF DialTCP, Result
    <3> QED BY <1>0, <2>4, <3>1, <3>2 DEF DialTCP, chanVars, loopVars
  <2>5. ASSUME NEW g \in Goroutines, SendResult(g) PROVE DialTypeOK'
    <3>1. <<gres[g]>> \in Seq(Result)
      BY <1>0, <2>5 DEF SendResult
    <3>2. results' \in [ResultChans -> Seq(Result)]
      BY <1>0, <2>5, <3>1 DEF SendResult
    <3> QED BY <1>0, <2>5, <3>2 DEF SendResult, loopVars
  <2>6. ASSUME NEW g \in Goroutines, TokenBack(g) PROVE DialTypeOK'
    <3>1. tokens' \in 0 .. MaxDialConcurrency
      BY <1>0, <2>6 DEF TokenBack
    <3> QED BY <1>0, <2>6, <3>1 DEF TokenBack, chanVars, loopVars
  <2> QED BY <1>7, <2>1, <2>2, <2>3, <2>4, <2>5, <2>6 DEF DialBackground
<1> QED BY <1>3, <1>4, <1>5, <1>6, <1>7 DEF DialNext

\* Every step keeps somebody who resolves a pending host.
LEMMA StepPending == DialTypeOK /\ PendingHasResolver /\ DialNext => PendingHasResolver'
<1> SUFFICES ASSUME DialTypeOK, PendingHasResolver, DialNext,
                    NEW h \in Hosts, tcpAddrsMap'[h] # Nil, tcpAddrsMap'[h].pending
             PROVE  \E c \in Callers : dhost'[c] = h /\ dpc'[c] = "lookup"
  BY DEF PendingHasResolver
<1> USE DEF DialTypeOK, PendingHasResolver, Goto, Put, Entry
<1>1. ASSUME NEW c \in Callers, NEW x \in Hosts, UseEntry(c, x)
      PROVE  \E d \in Callers : dhost'[d] = h /\ dpc'[d] = "lookup"
  <2>1. tcpAddrsMap[h] # Nil /\ tcpAddrsMap[h].pending
    BY <1>1 DEF UseEntry, Begin
  <2>2. PICK d \in Callers : dhost[d] = h /\ dpc[d] = "lookup"
    BY <2>1
  <2> QED BY <1>1, <2>2 DEF UseEntry, Begin
<1>2. ASSUME NEW c \in Callers, NEW x \in Hosts, Resolve(c, x)
      PROVE  \E d \in Callers : dhost'[d] = h /\ dpc'[d] = "lookup"
  <2>1. CASE x = h
    BY <1>2, <2>1 DEF Resolve
  <2>2. CASE x # h
    <3>1. tcpAddrsMap[h] # Nil /\ tcpAddrsMap[h].pending
      BY <1>2, <2>2 DEF Resolve
    <3>2. PICK d \in Callers : dhost[d] = h /\ dpc[d] = "lookup"
      BY <3>1
    <3> QED BY <1>2, <3>2 DEF Resolve
  <2> QED BY <2>1, <2>2
<1>3. ASSUME NEW c \in Callers, DialStep(c)
      PROVE  \E d \in Callers : dhost'[d] = h /\ dpc'[d] = "lookup"
  <2>1. ASSUME NEW s \in Lookups, LookupOK(c, s)
        PROVE  \E d \in Callers : dhost'[d] = h /\ dpc'[d] = "lookup"
    <3>1. dhost[c] # h /\ tcpAddrsMap[h] # Nil /\ tcpAddrsMap[h].pending
      BY <2>1 DEF LookupOK, Begin
    <3>2. PICK d \in Callers : dhost[d] = h /\ dpc[d] = "lookup"
      BY <3>1
    <3> QED BY <2>1, <3>1, <3>2 DEF LookupOK, Begin
  <2>2. CASE LookupFails(c)
    <3>1. dhost[c] # h /\ tcpAddrsMap[h] # Nil /\ tcpAddrsMap[h].pending
      BY <2>2 DEF LookupFails
    <3>2. PICK d \in Callers : dhost[d] = h /\ dpc[d] = "lookup"
      BY <3>1
    <3> QED BY <2>2, <3>1, <3>2 DEF LookupFails
  <2>3. CASE \/ Try(c) \/ TryLate(c) \/ TokenComes(c) \/ TokenTimeout(c) \/ CheckLate(c)
             \/ Launch(c) \/ ResultOK(c) \/ ResultErr(c) \/ ResultTimeout(c)
    <3>1. tcpAddrsMap' = tcpAddrsMap /\ dhost' = dhost
      BY <2>3 DEF Try, TryLate, TokenComes, TokenTimeout, CheckLate, Launch, ResultOK,
                  ResultErr, ResultTimeout
    <3>2. dpc[c] # "lookup" /\ \A d \in Callers : d # c => dpc'[d] = dpc[d]
      BY <2>3 DEF Try, TryLate, TokenComes, TokenTimeout, CheckLate, Launch, ResultOK,
                  ResultErr, ResultTimeout
    <3>3. PICK d \in Callers : dhost[d] = h /\ dpc[d] = "lookup"
      BY <3>1
    <3> QED BY <3>1, <3>2, <3>3
  <2> QED BY <1>3, <2>1, <2>2, <2>3 DEF DialStep
<1>4. ASSUME NEW c \in Callers, DialReturns(c)
      PROVE  \E d \in Callers : dhost'[d] = h /\ dpc'[d] = "lookup"
  BY <1>4 DEF DialReturns
<1>5. CASE DialBackground
  <2>1. dhost' = dhost /\ dpc' = dpc
    BY <1>5 DEF DialBackground, AddrsClean, GrowsOld, DeadlinePasses, DialTCP, SendResult, TokenBack
  <2>2. tcpAddrsMap[h] # Nil /\ tcpAddrsMap[h].pending
    <3>1. CASE AddrsClean
      BY <3>1 DEF AddrsClean
    <3>2. ASSUME NEW x \in Hosts, GrowsOld(x)
          PROVE  tcpAddrsMap[h] # Nil /\ tcpAddrsMap[h].pending
      BY <3>2 DEF GrowsOld
    <3>3. CASE tcpAddrsMap' = tcpAddrsMap
      BY <3>3
    <3> QED BY <1>5, <3>1, <3>2, <3>3
            DEF DialBackground, DeadlinePasses, DialTCP, SendResult, TokenBack
  <2>3. PICK d \in Callers : dhost[d] = h /\ dpc[d] = "lookup"
    BY <2>2
  <2> QED BY <2>1, <2>3
<1> QED BY <1>1, <1>2, <1>3, <1>4, <1>5 DEF DialNext

-----------------------------------------------------------------------------
\* What the channels hold gives every caller its own result.
LEMMA OwnResultFollows == DialInv => OwnResult
<1> SUFFICES ASSUME DialInv PROVE OwnResult
  OBVIOUS
<1> USE DEF DialInv, ChanInv, DialTypeOK
<1>1. ASSUME NEW c \in Callers, dpc[c] = "wait"
      PROVE  \/ /\ results[dch[c]] # <<>>
                /\ results[dch[c]][1].for = c /\ results[dch[c]][1].addr = Address(c)
                /\ Senders(dch[c]) = {}
             \/ /\ results[dch[c]] = <<>>
                /\ \E g \in Goroutines :
                      /\ Senders(dch[c]) = {g}
                      /\ gres[g].for = c /\ gres[g].addr = Address(c)
  <2>1. dch[c] # Nil /\ dch[c] \in ResultChans
    BY <1>1 DEF CallerChans
  <2>2. CASE results[dch[c]] # <<>>
    <3>1. PICK d \in Callers : /\ dch[d] = dch[c]
                               /\ results[dch[c]][1].for = d
                               /\ results[dch[c]][1].addr = Address(d)
      BY <2>1, <2>2 DEF ResultsClaimed
    <3>2. d = c
      BY <2>1, <3>1 DEF CallerChans
    <3>3. Senders(dch[c]) = {}
      BY <2>2 DEF Senders, SenderChans, Active
    <3> QED BY <2>2, <3>1, <3>2, <3>3
  <2>3. CASE results[dch[c]] = <<>>
    <3>1. PICK g \in Goroutines : Active(g) /\ gch[g] = dch[c]
      BY <2>1, <2>3 DEF CallersServed
    <3>2. Senders(dch[c]) = {g}
      BY <3>1 DEF Senders, SenderChans, Active
    <3>3. gres[g].for = c /\ gres[g].addr = Address(c)
      BY <3>1 DEF SenderCallers
    <3> QED BY <2>3, <3>2, <3>3
  <2> QED BY <2>2, <2>3
<1>2. ASSUME NEW ch \in resultPool PROVE results[ch] = <<>> /\ Senders(ch) = {}
  <2>1. results[ch] = <<>>
    BY DEF ResultsClaimed, CallerChans
  <2>2. Senders(ch) = {}
    BY DEF Senders, SenderChans, Active
  <2> QED BY <2>1, <2>2
<1>3. ASSUME NEW g \in Goroutines, gpc[g] = "send" PROVE results[gch[g]] = <<>>
  BY <1>3 DEF SenderChans, Active
<1> QED BY <1>1, <1>2, <1>3 DEF OwnResult

\* DialInv is an invariant.
LEMMA DialInvariant == DialSpec => []DialInv
<1>1. DialInit => DialInv
  BY InitDialInv
<1>2. DialInv /\ [DialNext]_dialVars => DialInv'
  <2>1. DialInv /\ DialNext => DialInv'
    BY StepDialTypeOK, StepLoopInv, StepTokensExact, StepChanInv DEF DialInv
  <2>2. DialInv /\ UNCHANGED dialVars => DialInv'
    <3> SUFFICES ASSUME DialInv, UNCHANGED dialVars PROVE DialInv'
      OBVIOUS
    <3> USE DEF DialInv, dialVars, chanVars, loopVars, goVars
    <3>1. DialTypeOK'
      BY DEF DialTypeOK
    <3>2. LoopInv'
      BY DEF LoopInv
    <3>3. TokensExact'
      BY DEF TokensExact
    <3>4. ChanInv'
      BY SameChans DEF Active
    <3> QED BY <3>1, <3>2, <3>3, <3>4
  <2> QED BY <2>1, <2>2
<1> QED BY <1>1, <1>2, PTL DEF DialSpec

\* newDial and tryDial keep their variables in their types, however many callers
\* and goroutines there are: in particular addrs[idx%n] is always an address that
\* was looked up, and concurrencyCh never holds more than its capacity.
THEOREM DialTypeCorrect == DialSpec => []DialTypeOK
<1>1. DialInv => DialTypeOK
  BY DEF DialInv
<1> QED BY <1>1, DialInvariant, PTL

\* No path of tryDial loses a token of concurrencyCh or gives one back twice.
THEOREM TokensKept == DialSpec => []TokensExact
<1>1. DialInv => TokensExact
  BY DEF DialInv
<1> QED BY <1>1, DialInvariant, PTL

\* A caller of tryDial receives the result of its own dial only, although result
\* channels are pooled and dials outlive the callers that time out.
THEOREM ResultsOwn == DialSpec => []OwnResult
<1> QED BY OwnResultFollows, DialInvariant, PTL

\* An entry of tcpAddrsMap is pending only while getTCPAddrs of some caller is
\* resolving its host.
THEOREM PendingResolved == DialSpec => []PendingHasResolver
<1>1. DialInit => PendingHasResolver
  BY DEF DialInit, PendingHasResolver
<1>2. DialTypeOK /\ PendingHasResolver /\ [DialNext]_dialVars => PendingHasResolver'
  BY StepPending DEF PendingHasResolver, dialVars
<1> QED BY <1>1, <1>2, DialTypeCorrect, PTL DEF DialSpec
=============================================================================
