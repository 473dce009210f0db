------------------------------- MODULE Caches -------------------------------
(***************************************************************************)
(* The caches an application puts behind its hijacker: a handler uses the  *)
(* one or the other for a key.                                             *)
(***************************************************************************)
EXTENDS MemoryCache, FileCache

VARIABLE cache   \* which one: "memory" or "file"

vars == <<cache, memVars, fileVars>>

Init == cache \in {"memory", "file"} /\ MemInit /\ FileInit

Next ==
    \/ cache = "memory" /\ MemNext /\ UNCHANGED <<cache, fileVars>>
    \/ cache = "file" /\ FileNext /\ UNCHANGED <<cache, memVars>>

Spec == Init /\ [][Next]_vars

\* The ticker of the janitor fires again and again, and its sweep is not blocked.
FairSpec ==
    /\ Spec
    /\ WF_vars(cache = "memory" /\ (Sweep \/ SweepDelete) /\ UNCHANGED <<cache, fileVars>>)

-----------------------------------------------------------------------------
(* Properties *)

Stored == {pool, cacheFile}
Served == {mem[r].hit : r \in Requests} \cup {file[r].hit : r \in Requests}

\* A response that says how long it is, is stored and served whole or not at all,
\* and no error is: whatever other downloads of the key, failing writes of the
\* body, broken responses or a crash of the process come between
\* (checkDownloadedFile, Close).  One thing else gets into the cache: the start
\* line alone, when the write of the header behind it fails, for no size is
\* expected then (writeHeaderTo).
ItemsWhole ==
    \A item \in (Stored \cup Served) \ {None} :
        /\ item.resp.valid
        /\ KnownSize(item.resp) => Whole(item) \/ item.data = <<0>>

\* An expired response does not stay in the memory of a pool that has a janitor.
ExpiredDropped ==
    (pool # None /\ Expired(pool)) ~> (pool = None \/ ~Expired(pool))
=============================================================================
