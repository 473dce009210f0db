------------------------------ MODULE TCPDialer -----------------------------
(***************************************************************************)
(* transport/tcpdialer.go: dialling with a cache of resolved addresses, a  *)
(* limit on concurrent dials and a timeout.                                *)
(*                                                                         *)
(* A caller is a goroutine inside the function that newDial returns; a     *)
(* dialling goroutine is one that tryDial launches.  A result channel has  *)
(* a name, as it goes through dialResultChanPool; one that nobody refers   *)
(* to any more is garbage with what is in it, and its name serves for the  *)
(* next channel that is made.  Sections under tcpAddrsLock are single      *)
(* steps.                                                                  *)
(*                                                                         *)
(* getTCPAddrs increments the index of an entry right after the lock       *)
(* section that found or stored it.  Here that is one step: only the       *)
(* increments of other callers could come between, so that at most who of  *)
(* them gets which number would differ.                                    *)
(***************************************************************************)
EXTENDS Integers, FiniteSets, SequencesExt

CONSTANTS
    Hosts,
    Callers,
    Goroutines,          \* the dialling goroutines
    ResultChans,
    Lookups,             \* what lookupIP may find: sequences of addresses
    MaxDialConcurrency,
    IdxMod,              \* addrsIdx is counted modulo this: 2^32
    Nil

ASSUME LimitAssumption == MaxDialConcurrency \in Nat \ {0} /\ IdxMod \in Nat \ {0}
ASSUME LookupsAssumption == \A s \in Lookups : s \in Seq(Range(s)) /\ s # <<>>
ASSUME GoroutinesAssumption == IsFiniteSet(Callers) /\ IsFiniteSet(Goroutines)
ASSUME NilAssumption == Nil \notin ResultChans

VARIABLES
    tcpAddrsMap,       \* the entry of each host, Nil when there is none
    tokens,            \* how many are in concurrencyCh
    results,           \* results[ch]: the content of a result channel
    resultPool,        \* dialResultChanPool
    dpc, dhost,        \* the callers: program counter, host
    addrs, idx, n,     \* the variables of the loop over the addresses
    late,              \* the deadline has passed
    dch,               \* the result channel the caller waits on
    gpc, gch, gres     \* the goroutines: program counter, channel, dial result

chanVars == <<results, resultPool>>
loopVars == <<addrs, idx, n>>
goVars == <<gpc, gch, gres>>
dialVars == <<tcpAddrsMap, tokens, chanVars, dpc, dhost, loopVars, late, dch, goVars>>

DialPC == {"idle", "lookup", "try", "token", "check", "wait",
           "ok", "err", "timeout"}

\* fresh for DefaultDNSCacheDuration, expired after twice that time
Age == {"fresh", "stale", "expired"}

Addresses == UNION {Range(s) : s \in Lookups}

\* The outcome of dialTCP, and for whom and what it was called.
Result == [for : Callers, addr : Addresses, ok : BOOLEAN]

Entry == [addrs : Lookups, idx : 0 .. IdxMod - 1, age : Age, pending : BOOLEAN]

DialTypeOK ==
    /\ tcpAddrsMap \in [Hosts -> Entry \cup {Nil}]
    /\ tokens \in 0 .. MaxDialConcurrency
    /\ results \in [ResultChans -> Seq(Result)]
    /\ resultPool \subseteq ResultChans
    /\ dpc \in [Callers -> DialPC]
    /\ dhost \in [Callers -> Hosts \cup {Nil}]
    /\ addrs \in [Callers -> Lookups \cup {<<>>}]
    /\ idx \in [Callers -> 0 .. IdxMod - 1]
    /\ n \in [Callers -> Nat]
    /\ late \in [Callers -> BOOLEAN]
    /\ dch \in [Callers -> ResultChans \cup {Nil}]
    /\ gpc \in [Goroutines -> {"free", "dial", "send", "token"}]
    /\ gch \in [Goroutines -> ResultChans \cup {Nil}]
    /\ gres \in [Goroutines -> Result \cup {Nil}]
    /\ \A g \in Goroutines : gpc[g] \in {"dial", "send"} => gres[g] \in Result

DialInit ==
    /\ tcpAddrsMap = [h \in Hosts |-> Nil]
    /\ tokens = 0
    /\ results = [ch \in ResultChans |-> <<>>]
    /\ resultPool = {}
    /\ dpc = [c \in Callers |-> "idle"]
    /\ dhost = [c \in Callers |-> Nil]
    /\ addrs = [c \in Callers |-> <<>>]
    /\ idx = [c \in Callers |-> 0]
    /\ n = [c \in Callers |-> 0]
    /\ late = [c \in Callers |-> FALSE]
    /\ dch = [c \in Callers |-> Nil]
    /\ gpc = [g \in Goroutines |-> "free"]
    /\ gch = [g \in Goroutines |-> Nil]
    /\ gres = [g \in Goroutines |-> Nil]

Goto(c, pc) == dpc' = [dpc EXCEPT ![c] = pc]

-----------------------------------------------------------------------------
\* getTCPAddrs.

\* The entry is to be resolved again, by one of the callers who find it so.
Refresh(e) == ~e.pending /\ e.age # "fresh"

Put(h, e) == tcpAddrsMap' = [tcpAddrsMap EXCEPT ![h] = e]

\* atomic.AddUint32(&e.addrsIdx, 1), and the start of the loop over the addresses.
Begin(c, h, e) ==
    LET i == (e.idx + 1) % IdxMod IN
    /\ Put(h, [e EXCEPT !.idx = i])
    /\ idx' = [idx EXCEPT ![c] = i]
    /\ addrs' = [addrs EXCEPT ![c] = e.addrs]
    /\ n' = [n EXCEPT ![c] = Len(e.addrs)]
    /\ Goto(c, "try")
    /\ UNCHANGED <<tokens, chanVars, late, dch, goVars>>

\* Dial is called; the first lock section finds an entry to use, although it may
\* be stale when somebody else is resolving it,
UseEntry(c, h) ==
    /\ dpc[c] = "idle"
    /\ tcpAddrsMap[h] # Nil /\ ~Refresh(tcpAddrsMap[h])
    /\ dhost' = [dhost EXCEPT ![c] = h]
    /\ Begin(c, h, tcpAddrsMap[h])

\* or marks the stale one pending, or finds none, and goes on to resolve.
Resolve(c, h) ==
    /\ dpc[c] = "idle"
    /\ LET e == tcpAddrsMap[h] IN
          \/ e = Nil /\ UNCHANGED tcpAddrsMap
          \/ e # Nil /\ Refresh(e) /\ Put(h, [e EXCEPT !.pending = TRUE])
    /\ dhost' = [dhost EXCEPT ![c] = h]
    /\ Goto(c, "lookup")
    /\ UNCHANGED <<tokens, chanVars, loopVars, late, dch, goVars>>

\* resolveTCPAddrs found addresses: a new entry takes the place of whatever is
\* there by now.
LookupOK(c, s) ==
    /\ dpc[c] = "lookup"
    /\ Begin(c, dhost[c], [addrs |-> s, idx |-> 0, age |-> "fresh", pending |-> FALSE])
    /\ UNCHANGED dhost

\* It found none: the entry that is there now is no longer pending.
LookupFailsStillPending(c) ==
    /\ dpc[c] = "lookup"
    /\ Goto(c, "err")
    /\ UNCHANGED <<tcpAddrsMap, tokens, chanVars, dhost, loopVars, late, dch, goVars>>

LookupFails(c) ==
    /\ dpc[c] = "lookup"
    /\ LET e == tcpAddrsMap[dhost[c]] IN
          \/ e = Nil /\ UNCHANGED tcpAddrsMap
          \/ e # Nil /\ Put(dhost[c], [e EXCEPT !.pending = FALSE])
    /\ Goto(c, "err")
    /\ UNCHANGED <<tokens, chanVars, dhost, loopVars, late, dch, goVars>>

\* tcpAddrsClean, a goroutine that never ends, drops what has expired.
AddrsClean ==
    /\ tcpAddrsMap' = [h \in Hosts |->
                         IF tcpAddrsMap[h] # Nil /\ tcpAddrsMap[h].age = "expired"
                         THEN Nil ELSE tcpAddrsMap[h]]
    /\ UNCHANGED <<tokens, chanVars, dpc, dhost, loopVars, late, dch, goVars>>

\* Time passes, for an entry and for a caller's deadline.
GrowsOld(h) ==
    /\ tcpAddrsMap[h] # Nil /\ tcpAddrsMap[h].age # "expired"
    /\ Put(h, [tcpAddrsMap[h] EXCEPT !.age = IF @ = "fresh" THEN "stale" ELSE "expired"])
    /\ UNCHANGED <<tokens, chanVars, dpc, dhost, loopVars, late, dch, goVars>>

DeadlinePasses(c) ==
    /\ dpc[c] \in {"try", "token", "check", "wait"}
    /\ ~late[c]
    /\ late' = [late EXCEPT ![c] = TRUE]
    /\ UNCHANGED <<tcpAddrsMap, tokens, chanVars, dpc, dhost, loopVars, dch, goVars>>

-----------------------------------------------------------------------------
\* tryDial.

\* addrs[idx%n], in a slice that is indexed from 0.
Address(c) == addrs[c][(idx[c] % n[c]) + 1]

\* A token at once, else with a timer.
TryNoLimit(c) ==
    /\ dpc[c] = "try"
    /\ ~late[c]
    /\ Goto(c, "check")
    /\ tokens' = tokens + 1
    /\ UNCHANGED <<tcpAddrsMap, chanVars, dhost, loopVars, late, dch, goVars>>

Try(c) ==
    /\ dpc[c] = "try"
    /\ ~late[c]
    /\ \/ tokens < MaxDialConcurrency /\ Goto(c, "check") /\ tokens' = tokens + 1
       \/ tokens = MaxDialConcurrency /\ Goto(c, "token") /\ UNCHANGED tokens
    /\ UNCHANGED <<tcpAddrsMap, chanVars, dhost, loopVars, late, dch, goVars>>

TryLate(c) ==
    /\ dpc[c] = "try"
    /\ late[c]
    /\ Goto(c, "timeout")
    /\ UNCHANGED <<tcpAddrsMap, tokens, chanVars, dhost, loopVars, late, dch, goVars>>

TokenComes(c) ==
    /\ dpc[c] = "token"
    /\ tokens < MaxDialConcurrency
    /\ tokens' = tokens + 1
    /\ Goto(c, "check")
    /\ UNCHANGED <<tcpAddrsMap, chanVars, dhost, loopVars, late, dch, goVars>>

TokenTimeoutWithToken(c) ==
    /\ dpc[c] = "token"
    /\ late[c]
    /\ tokens < MaxDialConcurrency
    /\ Goto(c, "timeout")
    /\ UNCHANGED <<tcpAddrsMap, tokens, chanVars, dhost, loopVars, late, dch, goVars>>

TokenTimeout(c) ==
    /\ dpc[c] = "token"
    /\ late[c]
    /\ Goto(c, "timeout")
    /\ UNCHANGED <<tcpAddrsMap, tokens, chanVars, dhost, loopVars, late, dch, goVars>>

\* The deadline passed while the token came: it goes back.
CheckLateKeepsToken(c) ==
    /\ dpc[c] = "check"
    /\ late[c]
    /\ Goto(c, "timeout")
    /\ UNCHANGED <<tcpAddrsMap, tokens, chanVars, dhost, loopVars, late, dch, goVars>>

CheckLate(c) ==
    /\ dpc[c] = "check"
    /\ late[c]
    /\ tokens' = tokens - 1
    /\ Goto(c, "timeout")
    /\ UNCHANGED <<tcpAddrsMap, chanVars, dhost, loopVars, late, dch, goVars>>

\* The channels that a fresh one is not.
UsedChans == resultPool \cup Range(dch)
                \cup {gch[g] : g \in {g \in Goroutines : gpc[g] \in {"dial", "send"}}}

\* The goroutine is launched with a channel from the pool or, when the pool has
\* none to give, a new one.
Launch(c) ==
    /\ dpc[c] = "check"
    /\ ~late[c]
    /\ \E g \in Goroutines, ch \in ResultChans \ (UsedChans \ resultPool) :
          /\ gpc[g] = "free"
          /\ resultPool' = resultPool \ {ch}
          /\ dch' = [dch EXCEPT ![c] = ch]
          /\ gch' = [gch EXCEPT ![g] = ch]
          /\ gpc' = [gpc EXCEPT ![g] = "dial"]
          /\ gres' = [gres EXCEPT ![g] = [for |-> c, addr |-> Address(c), ok |-> FALSE]]
    /\ Goto(c, "wait")
    /\ UNCHANGED <<tcpAddrsMap, tokens, results, dhost, addrs, idx, n, late>>

\* The result came: the channel goes back to the pool, and on an error the loop
\* goes on to the next address while there are more to try.
ResultOK(c) ==
    /\ dpc[c] = "wait"
    /\ results[dch[c]] # <<>> /\ results[dch[c]][1].ok
    /\ results' = [results EXCEPT ![dch[c]] = <<>>]
    /\ resultPool' = resultPool \cup {dch[c]}
    /\ dch' = [dch EXCEPT ![c] = Nil]
    /\ Goto(c, "ok")
    /\ UNCHANGED <<tcpAddrsMap, tokens, dhost, loopVars, late, goVars>>

ResultErr(c) ==
    /\ dpc[c] = "wait"
    /\ results[dch[c]] # <<>> /\ ~results[dch[c]][1].ok
    /\ results' = [results EXCEPT ![dch[c]] = <<>>]
    /\ resultPool' = resultPool \cup {dch[c]}
    /\ dch' = [dch EXCEPT ![c] = Nil]
    /\ idx' = [idx EXCEPT ![c] = (@ + 1) % IdxMod]
    /\ n' = [n EXCEPT ![c] = @ - 1]
    /\ Goto(c, IF n[c] > 1 THEN "try" ELSE "err")
    /\ UNCHANGED <<tcpAddrsMap, tokens, dhost, addrs, late, goVars>>

\* The timer won: the channel is left to the goroutine, and what it has brought or
\* will bring, a connection perhaps, is lost.
ResultTimeoutPooled(c) ==
    /\ dpc[c] = "wait"
    /\ late[c]
    /\ resultPool' = resultPool \cup {dch[c]}
    /\ dch' = [dch EXCEPT ![c] = Nil]
    /\ Goto(c, "timeout")
    /\ UNCHANGED <<tcpAddrsMap, tokens, results, dhost, loopVars, late, goVars>>

ResultTimeout(c) ==
    /\ dpc[c] = "wait"
    /\ late[c]
    /\ results' = [results EXCEPT ![dch[c]] = <<>>]
    /\ dch' = [dch EXCEPT ![c] = Nil]
    /\ Goto(c, "timeout")
    /\ UNCHANGED <<tcpAddrsMap, tokens, resultPool, dhost, loopVars, late, goVars>>

\* Dial returns: a connection, an error, or ErrDialTimeout.
DialReturns(c) ==
    /\ dpc[c] \in {"ok", "err", "timeout"}
    /\ Goto(c, "idle")
    /\ dhost' = [dhost EXCEPT ![c] = Nil]
    /\ addrs' = [addrs EXCEPT ![c] = <<>>]
    /\ idx' = [idx EXCEPT ![c] = 0]
    /\ n' = [n EXCEPT ![c] = 0]
    /\ late' = [late EXCEPT ![c] = FALSE]
    /\ UNCHANGED <<tcpAddrsMap, tokens, chanVars, dch, goVars>>

-----------------------------------------------------------------------------
\* The goroutine of tryDial: dialTCP returns, at some time,
DialTCP(g) ==
    /\ gpc[g] = "dial"
    /\ gpc' = [gpc EXCEPT ![g] = "send"]
    /\ \E ok \in BOOLEAN : gres' = [gres EXCEPT ![g].ok = ok]
    /\ UNCHANGED <<tcpAddrsMap, tokens, chanVars, dpc, dhost, loopVars, late, dch, gch>>

\* ch <- dr, a channel of capacity 1, where the result is lost if nobody has the
\* channel any more,
SendResult(g) ==
    /\ gpc[g] = "send"
    /\ results[gch[g]] = <<>>
    /\ results' = IF gch[g] \in Range(dch) \cup resultPool
                  THEN [results EXCEPT ![gch[g]] = <<gres[g]>>] ELSE results
    /\ gpc' = [gpc EXCEPT ![g] = "token"]
    /\ gch' = [gch EXCEPT ![g] = Nil]
    /\ gres' = [gres EXCEPT ![g] = Nil]
    /\ UNCHANGED <<tcpAddrsMap, tokens, resultPool, dpc, dhost, loopVars, late, dch>>

\* <-concurrencyCh.
TokenBack(g) ==
    /\ gpc[g] = "token"
    /\ tokens > 0
    /\ tokens' = tokens - 1
    /\ gpc' = [gpc EXCEPT ![g] = "free"]
    /\ UNCHANGED <<tcpAddrsMap, chanVars, dpc, dhost, loopVars, late, dch, gch, gres>>

-----------------------------------------------------------------------------
\* What a caller does once it is inside Dial.
DialStep(c) ==
    \/ \E s \in Lookups : LookupOK(c, s)
    \/ LookupFails(c)
    \/ Try(c)
    \/ TryLate(c)
    \/ TokenComes(c)
    \/ TokenTimeout(c)
    \/ CheckLate(c)
    \/ Launch(c)
    \/ ResultOK(c)
    \/ ResultErr(c)
    \/ ResultTimeout(c)

\* What happens besides.
DialBackground ==
    \/ AddrsClean
    \/ \E h \in Hosts : GrowsOld(h)
    \/ \E c \in Callers : DeadlinePasses(c)
    \/ \E g \in Goroutines : DialTCP(g) \/ SendResult(g) \/ TokenBack(g)

DialNext ==
    \/ \E c \in Callers, h \in Hosts : UseEntry(c, h) \/ Resolve(c, h)
    \/ \E c \in Callers : DialStep(c) \/ DialReturns(c)
    \/ DialBackground

DialSpec == DialInit /\ [][DialNext]_dialVars

\* Callers are scheduled, lookupIP returns and deadlines pass.  Nothing is assumed
\* of dialTCP: an address may never answer.
DialFairness ==
    /\ \A c \in Callers : WF_dialVars(DialStep(c) \/ DialReturns(c))
    /\ \A c \in Callers : WF_dialVars(DeadlinePasses(c))

DialFairSpec == DialSpec /\ DialFairness

-----------------------------------------------------------------------------
\* A token is held by every dialling goroutine and by the callers about to launch
\* one, and by nobody else: no path of tryDial loses one or gives it back twice.
TokensExact ==
    tokens = Cardinality({g \in Goroutines : gpc[g] # "free"})
                + Cardinality({c \in Callers : dpc[c] = "check"})

\* The goroutines that have yet to send on ch.
Senders(ch) == {g \in Goroutines : gpc[g] \in {"dial", "send"} /\ gch[g] = ch}

\* A caller that waits gets the result of its own dial and no other: either it is
\* in the channel already, or one goroutine will send it.  No channel of the pool
\* has, or will get, a late result, and no goroutine waits in its send.
OwnResult ==
    /\ \A c \in Callers : dpc[c] = "wait" =>
          \/ /\ results[dch[c]] # <<>>
             /\ results[dch[c]][1].for = c /\ results[dch[c]][1].addr = Address(c)
             /\ Senders(dch[c]) = {}
          \/ /\ results[dch[c]] = <<>>
             /\ \E g \in Goroutines :
                   /\ Senders(dch[c]) = {g}
                   /\ gres[g].for = c /\ gres[g].addr = Address(c)
    /\ \A ch \in resultPool : results[ch] = <<>> /\ Senders(ch) = {}
    /\ \A g \in Goroutines : gpc[g] = "send" => results[gch[g]] = <<>>

\* A stale entry stays in use only while somebody is resolving its host again:
\* the mark is never left behind by a lookup that failed.
PendingHasResolver ==
    \A h \in Hosts :
       tcpAddrsMap[h] # Nil /\ tcpAddrsMap[h].pending =>
          \E c \in Callers : dhost[c] = h /\ dpc[c] = "lookup"

\* Dial returns, even when dialTCP never does and all tokens are held for ever.
DialEnds ==
    \A c \in Callers : dpc[c] # "idle" ~> dpc[c] = "idle"
=============================================================================
