---------------------------- MODULE MemoryCache ----------------------------
(***************************************************************************)
(* plugin/memcache.go: a sync.Map of responses with an expiry time, used   *)
(* by concurrent requests and swept by a janitor: a pool made with a       *)
(* cleanInterval that is not positive has none, and keeps what nobody asks *)
(* for.  The map is seen at the one key of the requests.  Load, Store and  *)
(* Delete are single steps; what a caller does between two of them is not. *)
(***************************************************************************)
EXTENDS CacheDownload

CONSTANTS
    TTL,       \* memoryCachePool.ttl
    MaxTime    \* bound on the clock

ASSUME TTLAssumption == TTL \in Nat

VARIABLES
    pool,      \* the item stored for the key, or None
    now,       \* servertime.CoarseTimeNow
    mem,       \* the MemoryCache of each request
    janitor    \* what the janitor is about to do: "wait" or "delete"

memVars == <<pool, now, mem, janitor>>

MemInit ==
    /\ pool = None /\ now = 0 /\ janitor = "wait"
    /\ mem = [r \in Requests |-> Download]

Expired(item) == now > item.exp

\* Init and the pool's Get: a hit, a miss, or an expired item to delete.
MemGet(r) ==
    /\ mem[r].at = "idle"
    /\ \/ pool = None /\ mem' = [mem EXCEPT ![r].at = "header"]
       \/ /\ pool # None /\ ~Expired(pool)
          /\ mem' = [mem EXCEPT ![r].at = "hit", ![r].hit = pool]
       \/ pool # None /\ Expired(pool) /\ mem' = [mem EXCEPT ![r].at = "delete"]
    /\ UNCHANGED <<pool, now, janitor>>

\* Get deletes by key, whatever is stored there by now.
MemDelete(r) ==
    /\ mem[r].at = "delete"
    /\ pool' = None
    /\ mem' = [mem EXCEPT ![r].at = "header"]
    /\ UNCHANGED <<now, janitor>>

MemWriteHeader(r) ==
    /\ mem[r].at = "header"
    /\ \E resp \in Responses : mem' = [mem EXCEPT ![r] = Started(@, resp)]
    /\ UNCHANGED <<pool, now, janitor>>

MemWrite(r) ==
    /\ mem[r].at = "body" /\ HasMore(mem[r])
    /\ mem' = [mem EXCEPT ![r] = Written(@)]
    /\ UNCHANGED <<pool, now, janitor>>

\* Close and set, at the end of the body or where the response broke off.  An
\* age that is not positive stands for the pool's own.
MemClose(r) ==
    LET d == mem[r]
        ttl == IF d.resp.maxAge > 0 THEN d.resp.maxAge ELSE TTL
    IN  /\ d.at \in {"body", "close"}
        /\ pool' = IF SizeAccepted(d) THEN [resp |-> d.resp, data |-> d.data, exp |-> now + ttl]
                    ELSE pool
        /\ mem' = [mem EXCEPT ![r].at = "closed"]
        /\ UNCHANGED <<now, janitor>>

\* The request is over, or it failed before an answer came; another may follow.
MemDone(r) ==
    /\ mem[r].at \in {"hit", "closed", "header"}
    /\ mem' = [mem EXCEPT ![r] = Download]
    /\ UNCHANGED <<pool, now, janitor>>

Tick == now < MaxTime /\ now' = now + 1 /\ UNCHANGED <<pool, mem, janitor>>

\* A bug: the comparison is swapped, the janitor looks for items that live.
SweepSwapped ==
    /\ janitor = "wait" /\ pool # None /\ ~Expired(pool)
    /\ janitor' = "delete" /\ UNCHANGED <<pool, now, mem>>

\* deleteExpired: Range finds an expired item, then deletes by key.
Sweep ==
    /\ janitor = "wait" /\ pool # None /\ Expired(pool)
    /\ janitor' = "delete" /\ UNCHANGED <<pool, now, mem>>

SweepDelete ==
    /\ janitor = "delete"
    /\ pool' = None /\ janitor' = "wait" /\ UNCHANGED <<now, mem>>

MemRequest(r) ==
    MemGet(r) \/ MemDelete(r) \/ MemWriteHeader(r) \/ MemWrite(r) \/ MemClose(r) \/ MemDone(r)

MemNext == (\E r \in Requests : MemRequest(r)) \/ Tick \/ Sweep \/ SweepDelete
=============================================================================
