---------------------------- MODULE PluginProofs ----------------------------
(***************************************************************************)
(* Proofs about the package plugin.                                        *)
(*                                                                         *)
(* The caches: ItemsWhole, for any number of requests, any answers, any    *)
(* time to live and any number of crashes.                                 *)
(* What is stored is whole because of what a download has written so far:  *)
(* never more units than have arrived, and when as many then exactly the   *)
(* ones that have, in their order.                                         *)
(*                                                                         *)
(* The table of handlers for tunnels: SSLHandlerExact, for any globs and   *)
(* host names and any number of registrations.  The greedy loop of glob is *)
(* shown to agree with a plain match of the pattern, from its last part to *)
(* its first.                                                              *)
(***************************************************************************)
EXTENDS Caches, SSLRouters, BasicLemmas

-----------------------------------------------------------------------------
(* The caches *)

Items == [resp : Responses, data : Seq(Nat)]
TimedItems == [resp : Responses, data : Seq(Nat), exp : Int]
Phases == {"idle", "hit", "delete", "open", "remove", "create", "header", "body",
           "close", "closing", "closed"}
Downloads(hits) ==
    [at : Phases, resp : Responses \cup {None}, pos : Nat, data : Seq(Nat), size : Int,
     hit : hits \cup {None}]

CachesTypeOK ==
    /\ pool \in TimedItems \cup {None}
    /\ cacheFile \in Items \cup {None}
    /\ mem \in [Requests -> Downloads(TimedItems)]
    /\ file \in [Requests -> Downloads(Items)]
    /\ now \in Nat

\* An item of the cache, as ItemsWhole wants it.
Sound(item) ==
    /\ item.resp.valid
    /\ KnownSize(item.resp) => Whole(item) \/ item.data = <<0>>

\* The first n units of a response.
Units(n) == [i \in 1 .. n |-> i - 1]

\* What a download has written, up to the unit it waits for.
InBody(d) ==
    /\ d.resp \in Responses /\ d.resp.valid
    /\ d.pos <= d.resp.len + 2
    /\ Len(d.data) <= d.pos
    /\ Len(d.data) = d.pos => d.data = Units(d.pos)
    /\ KnownSize(d.resp) => d.size = d.resp.len + 2

InClose(d) ==
    /\ d.resp \in Responses
    /\ d.size = -1
    /\ Len(d.data) >= 1 => d.resp.valid /\ d.data = <<0>>

Fresh(d) == d.size = -1 /\ d.data = <<>>

SoundDownload(d) ==
    /\ d.hit # None => Sound(d.hit)
    /\ d.at = "body" => InBody(d)
    /\ d.at = "close" => InClose(d)
    /\ d.at \in {"idle", "delete", "open", "remove", "create", "header"} => Fresh(d)

AllSound ==
    /\ pool # None => Sound(pool)
    /\ cacheFile # None => Sound(cacheFile)
    /\ \A r \in Requests : SoundDownload(mem[r]) /\ SoundDownload(file[r])

CachesInv == CachesTypeOK /\ AllSound

-----------------------------------------------------------------------------
\* A download of the file cache or the memory cache that is about to begin.
LEMMA NewDownload ==
    ASSUME NEW hits
    PROVE  Download \in Downloads(hits) /\ SoundDownload(Download)
  BY DEF Download, Downloads, Phases, SoundDownload, Fresh

\* WriteHeader.
LEMMA StartedSound ==
    ASSUME NEW hits, NEW d \in Downloads(hits), SoundDownload(d), d.at = "header",
           NEW resp \in Responses
    PROVE  /\ Started(d, resp) \in Downloads(hits)
           /\ SoundDownload(Started(d, resp))
           /\ Started(d, resp).at \in {"body", "close"}
<1>1. resp.valid \in BOOLEAN /\ resp.known \in BOOLEAN /\ resp.len \in Nat
  BY ResponsesAssumption
<1>2. <<0, 1>> \in Seq(Nat) /\ Len(<<0, 1>>) = 2 /\ <<0, 1>> = Units(2)
  BY DEF Units
<1>3. CASE resp.valid
  <2> DEFINE e == Started(d, resp)
             n == IF KnownSize(resp) THEN resp.len + 2 ELSE -1
             start == <<0, 1>>
  <2>1. /\ e.at = "body" /\ e.resp = resp /\ e.pos = 2 /\ e.data = <<0, 1>> /\ e.hit = d.hit
        /\ e.size = IF KnownSize(resp) THEN resp.len + 2 ELSE -1
        /\ e \in Downloads(hits)
    <3>1. n \in Int /\ start \in Seq(Nat)
      BY <1>1, <1>2
    <3> DEFINE c == [d EXCEPT !.at = "body", !.resp = resp, !.pos = 2]
    <3>2. /\ c.at = "body" /\ c.resp = resp /\ c.pos = 2 /\ c.hit = d.hit
          /\ c \in Downloads(hits)
      BY DEF Downloads, Phases
    <3>3. e = [c EXCEPT !.data = start, !.size = n]
      BY <1>3 DEF Started
    <3> HIDE DEF c, e, n, start
    <3>4. /\ e.at = "body" /\ e.resp = resp /\ e.pos = 2 /\ e.data = start /\ e.size = n
          /\ e.hit = d.hit /\ e \in Downloads(hits)
      BY <3>1, <3>2, <3>3 DEF Downloads
    <3> QED BY <3>4 DEF n, start
  <2> HIDE DEF e
  <2>2. InBody(e)
    BY <1>1, <1>2, <1>3, <2>1 DEF InBody
  <2> QED BY <2>1, <2>2 DEF SoundDownload, e
<1>4. CASE ~resp.valid
  <2> DEFINE e == Started(d, resp)
  <2>1. /\ e.at = "close" /\ e.resp = resp /\ e.hit = d.hit /\ e.data = <<>> /\ e.size = -1
        /\ e \in Downloads(hits)
    BY <1>1, <1>4 DEF Started, Downloads, Phases, SoundDownload, Fresh
  <2> HIDE DEF e
  <2> QED BY <2>1 DEF SoundDownload, InClose, e
<1> QED BY <1>1, <1>3, <1>4

\* A write of the header that fails.
LEMMA HeaderFailedSound ==
    ASSUME NEW hits, NEW d \in Downloads(hits), SoundDownload(d), d.at = "header",
           NEW resp \in Responses, resp.valid, NEW written \in HeaderParts
    PROVE  /\ HeaderFailed(d, resp, written) \in Downloads(hits)
           /\ SoundDownload(HeaderFailed(d, resp, written))
           /\ HeaderFailed(d, resp, written).at = "close"
<1> DEFINE e == HeaderFailed(d, resp, written)
<1>1. written \in Seq(Nat)
  <2>1. <<>> \in Seq(Nat) /\ <<0>> \in Seq(Nat)
    OBVIOUS
  <2> QED BY <2>1, Zenon DEF HeaderParts
<1>2. /\ e.at = "close" /\ e.resp = resp /\ e.hit = d.hit /\ e.size = -1 /\ e.data = written
      /\ e \in Downloads(hits)
  BY <1>1 DEF HeaderFailed, Downloads, Phases, SoundDownload, Fresh
<1>3. Len(written) >= 1 => written = <<0>>
  BY DEF HeaderParts
<1> HIDE DEF e
<1> QED BY <1>2, <1>3 DEF SoundDownload, InClose, e

\* A write of the body, one that succeeds and one that does not.
LEMMA WrittenSound ==
    ASSUME NEW hits, NEW d \in Downloads(hits), SoundDownload(d), d.at = "body", HasMore(d)
    PROVE  /\ Written(d) \in Downloads(hits)
           /\ SoundDownload(Written(d))
           /\ Written(d).at = "body"
           /\ [d EXCEPT !.pos = @ + 1] \in Downloads(hits)
           /\ SoundDownload([d EXCEPT !.pos = @ + 1])
<1>1. /\ InBody(d) /\ d.resp.len \in Nat /\ d.pos \in Nat /\ d.data \in Seq(Nat)
      /\ Len(d.data) \in Nat
  BY ResponsesAssumption DEF SoundDownload, Downloads, InBody
<1>2. d.pos + 1 <= d.resp.len + 2
  BY <1>1 DEF HasMore
<1>3. ASSUME Len(Append(d.data, d.pos)) = d.pos + 1
      PROVE  Append(d.data, d.pos) = Units(d.pos + 1)
  BY <1>1, <1>3 DEF InBody, Units
<1>4. InBody(Written(d)) /\ Written(d).at = "body" /\ Written(d).hit = d.hit
      /\ Written(d) \in Downloads(hits)
  <2> DEFINE e == Written(d)
  <2>1. /\ e.resp = d.resp /\ e.pos = d.pos + 1 /\ e.data = Append(d.data, d.pos)
        /\ e.size = d.size /\ e.at = "body" /\ e.hit = d.hit /\ e \in Downloads(hits)
    <3>1. Append(d.data, d.pos) \in Seq(Nat) /\ d.pos + 1 \in Nat
      BY <1>1
    <3> DEFINE units == Append(d.data, d.pos)
    <3>2. e = [d EXCEPT !.pos = d.pos + 1, !.data = units]
      BY DEF Written
    <3> HIDE DEF e, units
    <3> QED BY <3>1, <3>2 DEF Downloads, units
  <2>2. Len(Append(d.data, d.pos)) = Len(d.data) + 1
    BY <1>1
  <2> HIDE DEF e
  <2>3. InBody(e)
    BY <1>1, <1>2, <1>3, <2>1, <2>2 DEF InBody
  <2> QED BY <2>1, <2>3 DEF e
<1>5. /\ InBody([d EXCEPT !.pos = @ + 1])
      /\ [d EXCEPT !.pos = @ + 1].at = "body"
      /\ [d EXCEPT !.pos = @ + 1].hit = d.hit
      /\ [d EXCEPT !.pos = @ + 1] \in Downloads(hits)
  <2> DEFINE e == [d EXCEPT !.pos = @ + 1]
  <2>1. /\ e.resp = d.resp /\ e.pos = d.pos + 1 /\ e.data = d.data
        /\ e.size = d.size /\ e.at = "body" /\ e.hit = d.hit /\ e \in Downloads(hits)
    BY <1>1 DEF Downloads
  <2> HIDE DEF e
  <2>2. InBody(e)
    BY <1>1, <1>2, <2>1 DEF InBody
  <2> QED BY <2>1, <2>2 DEF e
<1> QED BY <1>4, <1>5 DEF SoundDownload

\* What Close accepts is sound.
LEMMA AcceptedSound ==
    ASSUME NEW hits, NEW d \in Downloads(hits), SoundDownload(d), d.at \in {"body", "close"},
           SizeAccepted(d), NEW item, item.resp = d.resp, item.data = d.data
    PROVE  d.resp \in Responses /\ Sound(item)
<1>1. CASE d.at = "body"
  <2>1. /\ InBody(d) /\ d.resp.len \in Nat /\ d.pos \in Nat /\ Len(d.data) \in Nat
        /\ d.size \in Int
    BY <1>1, ResponsesAssumption DEF SoundDownload, Downloads, InBody
  <2>2. ASSUME KnownSize(d.resp) PROVE d.data = Units(d.resp.len + 2)
    BY <2>1, <2>2 DEF InBody, SizeAccepted
  <2> QED BY <2>1, <2>2 DEF InBody, Sound, Whole, Units
<1>2. CASE d.at = "close"
  BY <1>2 DEF SoundDownload, InClose, SizeAccepted, Sound
<1> QED BY <1>1, <1>2

-----------------------------------------------------------------------------
\* The memory cache.
LEMMA MemStep ==
    ASSUME CachesInv, MemNext, UNCHANGED fileVars
    PROVE  CachesInv'
<1>1. cacheFile' = cacheFile /\ file' = file
  BY DEF fileVars
<1>2. SUFFICES /\ pool' \in TimedItems \cup {None}
               /\ mem' \in [Requests -> Downloads(TimedItems)]
               /\ now' \in Nat
               /\ pool' # None => Sound(pool')
               /\ \A r \in Requests : SoundDownload(mem'[r])
  BY <1>1 DEF CachesInv, CachesTypeOK, AllSound
<1> USE DEF CachesInv, CachesTypeOK, AllSound
<1>3. ASSUME NEW r \in Requests, NEW e \in Downloads(TimedItems), SoundDownload(e),
             mem' = [mem EXCEPT ![r] = e]
      PROVE  /\ mem' \in [Requests -> Downloads(TimedItems)]
             /\ \A q \in Requests : SoundDownload(mem'[q])
  BY <1>3
<1>4. ASSUME NEW r \in Requests, MemRequest(r) PROVE 
             /\ pool' \in TimedItems \cup {None}
             /\ mem' \in [Requests -> Downloads(TimedItems)]
             /\ now' \in Nat
             /\ pool' # None => Sound(pool')
             /\ \A q \in Requests : SoundDownload(mem'[q])
  <2> DEFINE d == mem[r]
  <2>1. d \in Downloads(TimedItems) /\ SoundDownload(d)
    OBVIOUS
  <2>2. CASE MemGet(r)
    <3>1. CASE mem' = [mem EXCEPT ![r].at = "header"] /\ d.at = "idle"
      <4>1. [d EXCEPT !.at = "header"] \in Downloads(TimedItems)
            /\ SoundDownload([d EXCEPT !.at = "header"])
        BY <2>1, <3>1 DEF Downloads, Phases, SoundDownload, Fresh
      <4> QED BY <1>3, <2>2, <3>1, <4>1 DEF MemGet
    <3>2. CASE mem' = [mem EXCEPT ![r].at = "hit", ![r].hit = pool] /\ pool # None
      <4> DEFINE e == [d EXCEPT !.at = "hit", !.hit = pool]
      <4>1. e \in Downloads(TimedItems) /\ e.at = "hit" /\ e.hit = pool
        BY <2>1, <3>2 DEF Downloads, Phases
      <4>2. SoundDownload(e)
        BY <3>2, <4>1 DEF SoundDownload
      <4>3. mem' = [mem EXCEPT ![r] = e]
        BY <3>2
      <4> QED BY <1>3, <2>2, <4>1, <4>2, <4>3 DEF MemGet
    <3>3. CASE mem' = [mem EXCEPT ![r].at = "delete"] /\ d.at = "idle"
      <4>1. [d EXCEPT !.at = "delete"] \in Downloads(TimedItems)
            /\ SoundDownload([d EXCEPT !.at = "delete"])
        BY <2>1, <3>3 DEF Downloads, Phases, SoundDownload, Fresh
      <4> QED BY <1>3, <2>2, <3>3, <4>1 DEF MemGet
    <3> QED BY <2>2, <3>1, <3>2, <3>3 DEF MemGet
  <2>3. CASE MemDelete(r)
    <3>1. [d EXCEPT !.at = "header"] \in Downloads(TimedItems)
          /\ SoundDownload([d EXCEPT !.at = "header"])
      BY <2>1, <2>3 DEF MemDelete, Downloads, Phases, SoundDownload, Fresh
    <3> QED BY <1>3, <2>3, <3>1 DEF MemDelete
  <2>4. CASE MemWriteHeader(r)
    <3>1. PICK resp \in Responses : mem' = [mem EXCEPT ![r] = Started(@, resp)]
      BY <2>4 DEF MemWriteHeader
    <3>2. Started(d, resp) \in Downloads(TimedItems) /\ SoundDownload(Started(d, resp))
      BY <2>1, <2>4, StartedSound DEF MemWriteHeader
    <3> QED BY <1>3, <2>4, <3>1, <3>2 DEF MemWriteHeader
  <2>5. CASE MemWrite(r)
    <3>1. Written(d) \in Downloads(TimedItems) /\ SoundDownload(Written(d))
      BY <2>1, <2>5, WrittenSound DEF MemWrite
    <3> QED BY <1>3, <2>5, <3>1 DEF MemWrite
  <2>6. CASE MemClose(r)
    <3> DEFINE e == [d EXCEPT !.at = "closed"]
               ttl == IF d.resp.maxAge > 0 THEN d.resp.maxAge ELSE TTL
               item == [resp |-> d.resp, data |-> d.data, exp |-> now + ttl]
    <3>1. e \in Downloads(TimedItems) /\ e.at = "closed" /\ e.hit = d.hit
      BY <2>1 DEF Downloads, Phases
    <3>2. SoundDownload(e)
      BY <2>1, <3>1 DEF SoundDownload
    <3>3. ASSUME SizeAccepted(d) PROVE item \in TimedItems /\ Sound(item)
      <4>1. d.resp \in Responses /\ Sound(item)
        BY <2>1, <2>6, <3>3, AcceptedSound DEF MemClose
      <4>2. d.resp.maxAge \in Int
        BY <4>1, ResponsesAssumption
      <4>3. now + ttl \in Int
        BY <4>2, TTLAssumption
      <4> HIDE DEF ttl
      <4>4. item \in TimedItems
        BY <2>1, <4>1, <4>3 DEF TimedItems, Downloads
      <4> QED BY <4>1, <4>4
    <3>4. pool' = IF SizeAccepted(d) THEN item ELSE pool
      BY <2>6 DEF MemClose
    <3>5. pool' \in TimedItems \cup {None} /\ (pool' # None => Sound(pool'))
      <4> HIDE DEF item
      <4> QED BY <3>3, <3>4
    <3>6. mem' = [mem EXCEPT ![r] = e] /\ now' = now
      BY <2>6 DEF MemClose
    <3> HIDE DEF e
    <3> QED BY <1>3, <3>1, <3>2, <3>5, <3>6
  <2>7. CASE MemDone(r)
    BY <1>3, <2>7, NewDownload DEF MemDone
  <2> QED BY <1>4, <2>2, <2>3, <2>4, <2>5, <2>6, <2>7 DEF MemRequest
<1>5. CASE Tick
  BY <1>5 DEF Tick
<1>6. CASE Sweep
  BY <1>6 DEF Sweep
<1>7. CASE SweepDelete
  BY <1>7 DEF SweepDelete
<1> QED BY <1>4, <1>5, <1>6, <1>7 DEF MemNext

-----------------------------------------------------------------------------
\* The file cache.
LEMMA FileStep ==
    ASSUME CachesInv, FileNext, UNCHANGED memVars
    PROVE  CachesInv'
<1> DEFINE Good == /\ cacheFile' \in Items \cup {None}
                   /\ file' \in [Requests -> Downloads(Items)]
                   /\ cacheFile' # None => Sound(cacheFile')
                   /\ \A q \in Requests : SoundDownload(file'[q])
<1>1. pool' = pool /\ mem' = mem /\ now' = now
  BY DEF memVars
<1>2. SUFFICES Good
  BY <1>1 DEF CachesInv, CachesTypeOK, AllSound
<1> USE DEF CachesInv, CachesTypeOK, AllSound
<1>3. ASSUME NEW r \in Requests, NEW e \in Downloads(Items), SoundDownload(e),
             file' = [file EXCEPT ![r] = e],
             cacheFile' \in Items \cup {None}, cacheFile' # None => Sound(cacheFile')
      PROVE  Good
  BY <1>3
<1>4. ASSUME NEW r \in Requests, FileRequest(r) PROVE Good
  <2> DEFINE d == file[r]
  <2>1. d \in Downloads(Items) /\ SoundDownload(d)
    OBVIOUS
  <2>2. ASSUME NEW at \in Phases,
               \/ at \in {"hit", "closing", "closed"}
               \/ Fresh(d) /\ at \notin {"body", "close"}
        PROVE  /\ [d EXCEPT !.at = at] \in Downloads(Items)
               /\ SoundDownload([d EXCEPT !.at = at])
               /\ [d EXCEPT !.at = at].at = at
    <3> DEFINE e == [d EXCEPT !.at = at]
    <3>1. /\ e \in Downloads(Items) /\ e.at = at /\ e.hit = d.hit
          /\ e.size = d.size /\ e.data = d.data
      BY <2>1 DEF Downloads
    <3> HIDE DEF e
    <3>2. SoundDownload(e)
      BY <2>1, <2>2, <3>1 DEF SoundDownload, Fresh
    <3> QED BY <3>1, <3>2 DEF e
  <2> HIDE DEF Good
  <2>3. CASE Stat(r)
    <3> DEFINE at == IF cacheFile = None THEN "create" ELSE "open"
    <3>1. at \in {"create", "open"} /\ at \in Phases
      BY DEF Phases
    <3>2. Fresh(d)
      BY <2>1, <2>3 DEF Stat, SoundDownload
    <3>3. file' = [file EXCEPT ![r] = [d EXCEPT !.at = at]] /\ cacheFile' = cacheFile
      BY <2>3 DEF Stat
    <3> HIDE DEF at
    <3> QED BY <1>3, <2>2, <3>1, <3>2, <3>3
  <2>4. CASE Open(r)
    <3>1. Fresh(d) /\ cacheFile' = cacheFile
      BY <2>1, <2>4 DEF Open, SoundDownload
    <3>2. CASE cacheFile # None /\ file' = [file EXCEPT ![r].at = "hit", ![r].hit = cacheFile]
      <4> DEFINE e == [d EXCEPT !.at = "hit", !.hit = cacheFile]
      <4>1. e \in Downloads(Items) /\ e.at = "hit" /\ e.hit = cacheFile
        BY <2>1, <3>2 DEF Downloads, Phases
      <4>2. file' = [file EXCEPT ![r] = e]
        BY <3>2
      <4> HIDE DEF e
      <4>3. SoundDownload(e)
        BY <3>2, <4>1 DEF SoundDownload
      <4> QED BY <1>3, <3>1, <4>1, <4>2, <4>3
    <3>3. CASE file' = [file EXCEPT ![r].at = "remove"]
      <4>1. "remove" \in Phases
        BY DEF Phases
      <4> QED BY <1>3, <2>2, <3>1, <3>3, <4>1
    <3> QED BY <2>4, <3>2, <3>3 DEF Open
  <2>5. CASE RemoveFile(r)
    <3>1. "create" \in Phases /\ Fresh(d) /\ cacheFile' \in {None, cacheFile}
          /\ file' = [file EXCEPT ![r] = [d EXCEPT !.at = "create"]]
      BY <2>1, <2>5 DEF RemoveFile, SoundDownload, Phases
    <3> QED BY <1>3, <2>2, <3>1
  <2>6. CASE Create(r)
    <3>1. "header" \in Phases /\ "closed" \in Phases /\ Fresh(d)
          /\ cacheFile' = cacheFile
      BY <2>1, <2>6 DEF Create, SoundDownload, Phases
    <3>2. CASE file' = [file EXCEPT ![r].at = "header"]
      BY <1>3, <2>2, <3>1, <3>2
    <3>3. CASE file' = [file EXCEPT ![r].at = "closed"]
      BY <1>3, <2>2, <3>1, <3>3
    <3> QED BY <2>6, <3>2, <3>3 DEF Create
  <2>7. CASE FileWriteHeader(r)
    <3>1. d.at = "header" /\ cacheFile' = cacheFile
      BY <2>7 DEF FileWriteHeader
    <3>2. ASSUME NEW resp \in Responses, file' = [file EXCEPT ![r] = Started(@, resp)]
          PROVE  Good
      <4>1. /\ Started(d, resp) \in Downloads(Items) /\ SoundDownload(Started(d, resp))
        BY <2>1, <3>1, StartedSound
      <4>2. file' = [file EXCEPT ![r] = Started(d, resp)]
        BY <3>2
      <4> QED BY <1>3, <3>1, <4>1, <4>2
    <3>3. ASSUME NEW resp \in Responses, resp.valid, NEW written \in HeaderParts,
                 file' = [file EXCEPT ![r] = HeaderFailed(@, resp, written)]
          PROVE  Good
      <4> DEFINE e == HeaderFailed(d, resp, written)
      <4>1. e \in Downloads(Items) /\ SoundDownload(e)
        BY <2>1, <3>1, <3>3, HeaderFailedSound
      <4>2. file' = [file EXCEPT ![r] = e]
        BY <3>3
      <4> HIDE DEF e
      <4> QED BY <1>3, <3>1, <4>1, <4>2
    <3> QED BY <2>7, <3>2, <3>3 DEF FileWriteHeader
  <2>8. CASE FileWrite(r)
    <3>1. /\ Written(d) \in Downloads(Items) /\ SoundDownload(Written(d)) /\ Written(d).at = "body"
          /\ [d EXCEPT !.pos = @ + 1] \in Downloads(Items)
          /\ SoundDownload([d EXCEPT !.pos = @ + 1])
      BY <2>1, <2>8, WrittenSound DEF FileWrite
    <3>2. [d EXCEPT !.pos = @ + 1].at = "body"
      BY <2>1, <2>8 DEF FileWrite, Downloads
    <3>3. cacheFile' = cacheFile
      BY <2>8 DEF FileWrite
    <3>4. \/ file' = [file EXCEPT ![r] = Written(d)]
          \/ file' = [file EXCEPT ![r] = [d EXCEPT !.pos = @ + 1]]
      BY <2>8 DEF FileWrite
    <3> QED BY <1>3, <3>1, <3>2, <3>3, <3>4
  <2>9. CASE FileRename(r)
    <3>1. "closing" \in Phases /\ d.at \in {"body", "close"}
          /\ file' = [file EXCEPT ![r] = [d EXCEPT !.at = "closing"]]
      BY <2>9 DEF FileRename, Phases
    <3>2. ASSUME SizeAccepted(d) PROVE Item(d) \in Items /\ Sound(Item(d))
      <4>1. Item(d).resp = d.resp /\ Item(d).data = d.data
        BY DEF Item
      <4>2. d.resp \in Responses /\ Sound(Item(d))
        BY <2>1, <3>1, <3>2, <4>1, AcceptedSound
      <4> QED BY <2>1, <4>2 DEF Item, Items, Downloads
    <3>3. cacheFile' \in Items \cup {None} /\ (cacheFile' # None => Sound(cacheFile'))
      BY <2>9, <3>2 DEF FileRename
    <3> QED BY <1>3, <2>2, <3>1, <3>3
  <2>10. CASE FileClose(r)
    <3>1. "closed" \in Phases /\ cacheFile' = cacheFile
          /\ file' = [file EXCEPT ![r] = [d EXCEPT !.at = "closed"]]
      BY <2>10 DEF FileClose, Phases
    <3> QED BY <1>3, <2>2, <3>1
  <2>11. CASE FileDone(r)
    BY <1>3, <2>11, NewDownload DEF FileDone
  <2>12. CASE FileAbandon(r)
    BY <1>3, <2>12, NewDownload DEF FileAbandon
  <2> QED BY <1>4, <2>3, <2>4, <2>5, <2>6, <2>7, <2>8, <2>9, <2>10, <2>11, <2>12 DEF FileRequest
<1>5. CASE Crash
  BY <1>5, NewDownload DEF Crash
<1> QED BY <1>4, <1>5 DEF FileNext

-----------------------------------------------------------------------------
\* The invariant, from the empty caches on.
THEOREM CachesInvariant == Spec => []CachesInv
<1>1. Init => CachesInv
  <2> SUFFICES ASSUME Init PROVE CachesInv
    OBVIOUS
  <2> QED BY NewDownload DEF Init, MemInit, FileInit, CachesInv, CachesTypeOK, AllSound
<1>2. CachesInv /\ [Next]_vars => CachesInv'
  <2> SUFFICES ASSUME CachesInv, [Next]_vars PROVE CachesInv'
    OBVIOUS
  <2>1. CASE MemNext /\ UNCHANGED fileVars
    BY <2>1, MemStep
  <2>2. CASE FileNext /\ UNCHANGED memVars
    BY <2>2, FileStep
  <2>3. CASE UNCHANGED vars
    BY <2>3 DEF vars, memVars, fileVars, CachesInv, CachesTypeOK, AllSound
  <2> QED BY <2>1, <2>2, <2>3 DEF Next
<1> QED BY <1>1, <1>2, PTL DEF Spec

\* A response with a positive content length is stored and served whole or not at
\* all, but for a start line whose header could not be written, and no error is
\* stored, whatever the requests, the answers and the failures (writeHeaderTo and
\* checkDownloadedFile of the file cache, Close of the memory cache).
THEOREM CachedWhole == Spec => []ItemsWhole
<1>1. CachesInv => ItemsWhole
  <2> SUFFICES ASSUME CachesInv, NEW item \in (Stored \cup Served) \ {None}
               PROVE  Sound(item)
    BY DEF ItemsWhole, Sound
  <2>1. CASE item \in Stored
    BY <2>1 DEF Stored, CachesInv, AllSound
  <2>2. CASE item \in Served
    BY <2>2 DEF Served, CachesInv, AllSound, SoundDownload
  <2> QED BY <2>1, <2>2
<1> QED BY <1>1, CachesInvariant, PTL

-----------------------------------------------------------------------------
(* Host globs *)

\* PartEnd: the part from i on has no "*", and one follows it unless it is the last.
LEMMA PartEndIs ==
    ASSUME NEW g \in Seq(STRING), NEW i \in 1 .. Len(g) + 1
    PROVE  /\ PartEnd(g, i) \in i .. Len(g) + 1
           /\ PartEnd(g, i) <= Len(g) => g[PartEnd(g, i)] = "*"
           /\ \A j \in i .. PartEnd(g, i) - 1 : g[j] # "*"
  <1> DEFINE T == {j \in i .. Len(g) : g[j] = "*"} \cup {Len(g) + 1}
  <1>1. T \subseteq Nat /\ T # {}
    OBVIOUS
  <1>2. Min(T) \in T /\ \A k \in T : Min(T) <= k
    <2> HIDE DEF T
    <2> QED BY <1>1, MinOf
  <1>3. PICK e \in T : PartEnd(g, i) = e /\ \A k \in T : e <= k
    <2>1. PartEnd(g, i) = Min(T)
      BY DEF PartEnd
    <2> HIDE DEF T
    <2> QED BY <1>2, <2>1
  <1>4. Len(g) \in Nat /\ i \in Nat /\ i <= Len(g) + 1
    OBVIOUS
  <1>5. e \in i .. Len(g) + 1 /\ (e <= Len(g) => g[e] = "*")
    BY <1>4
  <1>6. ASSUME NEW j \in i .. e - 1, g[j] = "*" PROVE FALSE
    <2>1. j \in T
      BY <1>4, <1>5, <1>6
    <2> QED BY <1>3, <1>5, <2>1
  <1> QED BY <1>3, <1>5, <1>6

\* The equation of Matching.
LEMMA MatchingDef ==
    ASSUME NEW g \in Seq(STRING), NEW s \in Seq(STRING), NEW i \in 1 .. Len(g) + 1
    PROVE  /\ Matching(g, s)[i] \subseteq 0 .. Len(s)
           /\ i > Len(g) => Matching(g, s)[i] = {Len(s)}
           /\ i <= Len(g) /\ g[i] = "*" =>
                 \A k \in 0 .. Len(s) : k \in Matching(g, s)[i] <=>
                     \E m \in Matching(g, s)[i + 1] : k <= m
           /\ i <= Len(g) /\ g[i] # "*" =>
                 \A k \in 0 .. Len(s) : k \in Matching(g, s)[i] <=>
                     k < Len(s) /\ s[k + 1] = g[i] /\ k + 1 \in Matching(g, s)[i + 1]
  <1> DEFINE n == Len(g) + 1
             V == SUBSET (0 .. Len(s))
             Before(j, v) == IF g[j] = "*" THEN {k \in 0 .. Len(s) : \E m \in v : k <= m}
                             ELSE {k \in 0 .. Len(s) - 1 : s[k + 1] = g[j] /\ k + 1 \in v}
             Eq(f, j) == IF j > Len(g) THEN {Len(s)} ELSE Before(j, f[j + 1])
             Is(f) == f = [j \in 1 .. n |-> Eq(f, j)]
             to == [j \in 1 .. n |-> j + 1]
             own == [j \in 1 .. n |-> {Len(s)}]
             F == [j \in 1 .. n |-> [v \in V |-> Before(j, v)]]
  <1>0. n \in Nat /\ n = Len(g) + 1 /\ Len(g) \in Nat /\ i \in 1 .. n
    OBVIOUS
  <1>1. ASSUME NEW j \in 1 .. n
        PROVE  /\ own[j] = {Len(s)} /\ {Len(s)} \in V /\ to[j] = j + 1
               /\ \A v \in V : F[j][v] = Before(j, v) /\ Before(j, v) \in V
    OBVIOUS
  <1> HIDE DEF n, V, to, own, F, Before
  <1>2. PICK f \in [1 .. n -> V] : Recursive(f, n, to, own, F)
    <2>1. \A j \in 1 .. n : own[j] \in V /\ \A v \in V : F[j][v] \in V
      BY <1>1
    <2> QED BY <1>0, <2>1, Recursion
  <1>3. ASSUME NEW j \in 1 .. n PROVE f[j] = Eq(f, j)
    <2>1. f[j] = IF to[j] \in j + 1 .. n THEN F[j][f[to[j]]] ELSE own[j]
      BY <1>2 DEF Recursive
    <2>2. CASE j > Len(g)
      BY <1>0, <1>1, <2>1, <2>2
    <2>3. CASE ~(j > Len(g))
      <3>1. j + 1 \in 1 .. n /\ j + 1 \in j + 1 .. n
        BY <1>0, <2>3
      <3>2. f[j + 1] \in V
        BY <3>1
      <3> QED BY <1>1, <2>1, <2>3, <3>1, <3>2
    <2> QED BY <2>2, <2>3
  <1>4. Is(f)
    <2> HIDE DEF Eq
    <2> QED BY <1>3
  <1>5. Is(Matching(g, s))
    <2>1. Matching(g, s) = CHOOSE h : Is(h)
      BY DEF Matching, Before, n
    <2> HIDE DEF Is
    <2> QED BY <1>4, <2>1
  <1>6. Matching(g, s)[i] = Eq(Matching(g, s), i)
    <2> HIDE DEF Eq
    <2> QED BY <1>0, <1>5
  <1>7. Eq(Matching(g, s), i) \in V
    BY <1>0 DEF Before, V
  <1>8. i <= Len(g) => Matching(g, s)[i] = Before(i, Matching(g, s)[i + 1])
    BY <1>0, <1>6
  <1>9. i > Len(g) => Matching(g, s)[i] = {Len(s)}
    BY <1>6
  <1> HIDE DEF Eq
  <1>10. Len(s) \in Nat
    OBVIOUS
  <1> QED BY <1>6, <1>7, <1>8, <1>9, <1>10 DEF Before, V

\* The characters of g from i to e, none of them a "*", match only themselves.
LEMMA MatchesPart ==
    ASSUME NEW g \in Seq(STRING), NEW s \in Seq(STRING),
           NEW e \in 1 .. Len(g) + 1, NEW i \in 1 .. e, \A j \in i .. e - 1 : g[j] # "*",
           NEW k \in 0 .. Len(s)
    PROVE  k \in Matching(g, s)[i] <=> PartAt(g, i, e, s, k) /\ k + (e - i) \in Matching(g, s)[e]
  <1> DEFINE M == Matching(g, s)
             Good(d) == \A x \in 0 .. Len(s) :
                           x \in M[e - d] <=> PartAt(g, e - d, e, s, x) /\ x + d \in M[e]
             T == {d \in 0 .. e - i : Good(d)}
  <1>0. Len(g) \in Nat /\ Len(s) \in Nat /\ e \in Nat /\ i \in Nat
    OBVIOUS
  <1> HIDE DEF M
  <1>1. 0 \in T
    <2>1. e - 0 = e /\ 0 \in 0 .. e - i
      BY <1>0
    <2>2. \A x \in 0 .. Len(s) : x + 0 = x /\ PartAt(g, e, e, s, x)
      BY <1>0 DEF PartAt
    <2> QED BY <2>1, <2>2
  <1>2. ASSUME NEW d \in 0 .. (e - i) - 1, d \in T PROVE d + 1 \in T
    <2> DEFINE j == e - (d + 1)
    <2>1. /\ j \in 1 .. Len(g) /\ j \in i .. e - 1 /\ j + 1 = e - d /\ d + 1 \in 0 .. e - i
          /\ e - j = d + 1 /\ e - (j + 1) = d /\ j \in Nat /\ d \in Nat
      BY <1>0
    <2>2. g[j] # "*"
      BY <2>1
    <2> HIDE DEF j
    <2>3. \A x \in 0 .. Len(s) : x \in M[j] <=> x < Len(s) /\ s[x + 1] = g[j] /\ x + 1 \in M[j + 1]
      <3>1. j \in 1 .. Len(g) + 1 /\ j <= Len(g)
        BY <1>0, <2>1
      <3> QED BY <2>2, <3>1, MatchingDef DEF M
    <2>4. M[e] \subseteq 0 .. Len(s)
      BY MatchingDef DEF M
    <2>5. ASSUME NEW x \in 0 .. Len(s)
          PROVE  x \in M[j] <=> PartAt(g, j, e, s, x) /\ x + (d + 1) \in M[e]
      <3>1. CASE x = Len(s)
        <4>1. x \notin M[j]
          BY <1>0, <2>3, <3>1
        <4>2. ~PartAt(g, j, e, s, x)
          BY <1>0, <2>1, <3>1 DEF PartAt
        <4> QED BY <4>1, <4>2
      <3>2. CASE x # Len(s)
        <4>1. x \in 0 .. Len(s) - 1 /\ x + 1 \in 0 .. Len(s) /\ x + 1 + d = x + (d + 1)
          BY <1>0, <2>1, <3>2
        <4>2. x + 1 \in M[j + 1] <=> PartAt(g, j + 1, e, s, x + 1) /\ x + (d + 1) \in M[e]
          BY <1>2, <2>1, <4>1
        <4>3. PartAt(g, j, e, s, x) <=> s[x + 1] = g[j] /\ PartAt(g, j + 1, e, s, x + 1)
          <5>1. ASSUME PartAt(g, j, e, s, x)
                PROVE  s[x + 1] = g[j] /\ PartAt(g, j + 1, e, s, x + 1)
            <6>1. x + (d + 1) <= Len(s) /\ \A l \in j .. e - 1 : s[x + 1 + (l - j)] = g[l]
              BY <2>1, <5>1 DEF PartAt
            <6>2. s[x + 1 + (j - j)] = g[j] /\ x + 1 + (j - j) = x + 1
              BY <1>0, <2>1, <6>1
            <6>3. x + 1 + (e - (j + 1)) <= Len(s)
              BY <1>0, <2>1, <6>1
            <6>4. ASSUME NEW l \in j + 1 .. e - 1 PROVE s[x + 1 + 1 + (l - (j + 1))] = g[l]
              <7>1. l \in j .. e - 1 /\ x + 1 + 1 + (l - (j + 1)) = x + 1 + (l - j)
                BY <1>0, <2>1
              <7> QED BY <6>1, <7>1
            <6> QED BY <6>2, <6>3, <6>4 DEF PartAt
          <5>2. ASSUME s[x + 1] = g[j], PartAt(g, j + 1, e, s, x + 1)
                PROVE  PartAt(g, j, e, s, x)
            <6>1. /\ x + 1 + (e - (j + 1)) <= Len(s)
                  /\ \A l \in j + 1 .. e - 1 : s[x + 1 + 1 + (l - (j + 1))] = g[l]
              BY <5>2 DEF PartAt
            <6>2. x + (e - j) <= Len(s)
              BY <1>0, <2>1, <6>1
            <6>3. ASSUME NEW l \in j .. e - 1 PROVE s[x + 1 + (l - j)] = g[l]
              <7>1. CASE l = j
                <8>1. x + 1 + (l - j) = x + 1
                  BY <2>1, <7>1
                <8> QED BY <5>2, <7>1, <8>1
              <7>2. CASE l # j
                <8>1. l \in j + 1 .. e - 1 /\ x + 1 + 1 + (l - (j + 1)) = x + 1 + (l - j)
                  BY <1>0, <2>1, <7>2
                <8> QED BY <6>1, <8>1
              <7> QED BY <7>1, <7>2
            <6> QED BY <6>2, <6>3 DEF PartAt
          <5> QED BY <5>1, <5>2
        <4> QED BY <2>3, <4>1, <4>2, <4>3
      <3> QED BY <3>1, <3>2
    <2> QED BY <2>1, <2>5 DEF j
  <1>3. e - i \in T
    <2> DEFINE n == e - i
    <2>1. n \in Nat /\ n \in 0 .. n
      BY <1>0
    <2>2. \A d \in 0 .. n - 1 : d \in T => d + 1 \in T
      BY <1>2
    <2> HIDE DEF T, n
    <2>3. n \in T
      BY <1>1, <2>1, <2>2, Upto
    <2> QED BY <2>3 DEF n
  <1>4. e - (e - i) = i
    BY <1>0
  <1> QED BY <1>3, <1>4 DEF M

\* The equation of GlobLoop.
LEMMA GlobLoopDef ==
    ASSUME NEW g \in Seq(STRING), NEW s \in Seq(STRING),
           NEW i \in 1 .. Len(g) + 1, NEW k \in 0 .. Len(s)
    PROVE  LET e == PartEnd(g, i)
               P == Places(g, i, e, s, k)
           IN  GlobLoop(g, s)[i][k] <=>
                   IF e > Len(g) THEN Len(s) - (e - i) \in P
                   ELSE P # {} /\ GlobLoop(g, s)[e + 1][Min(P) + (e - i)]
  <1> DEFINE n == Len(g) + 1
             K == 0 .. Len(s)
             V == [K -> BOOLEAN]
             E(j) == PartEnd(g, j)
             P(j, x) == Places(g, j, E(j), s, x)
             Ends(j, x) == Len(s) - (E(j) - j) \in P(j, x)
             Goes(j, x, v) == P(j, x) # {} /\ v[Min(P(j, x)) + (E(j) - j)]
             Row(f, j) == [x \in K |-> IF E(j) > Len(g) THEN Ends(j, x) ELSE Goes(j, x, f[E(j) + 1])]
             Is(f) == f = [j \in 1 .. n |-> Row(f, j)]
             to == [j \in 1 .. n |-> E(j) + 1]
             own == [j \in 1 .. n |-> [x \in K |-> Ends(j, x)]]
             F == [j \in 1 .. n |-> [v \in V |-> [x \in K |-> Goes(j, x, v)]]]
  <1>0. n \in Nat /\ n = Len(g) + 1 /\ Len(g) \in Nat /\ i \in 1 .. n /\ k \in K
    OBVIOUS
  <1>1. Is(GlobLoop(g, s)) \/ ~\E f : Is(f)
    <2>1. GlobLoop(g, s) = CHOOSE f : Is(f)
      BY DEF GlobLoop
    <2> HIDE DEF Is
    <2> QED BY <2>1
  <1> HIDE DEF P, K, Ends, Goes
  <1>2. ASSUME NEW j \in 1 .. n
        PROVE  /\ own[j] = [x \in K |-> Ends(j, x)] /\ own[j] \in V
               /\ to[j] = E(j) + 1
               /\ \A v \in V : F[j][v] = [x \in K |-> Goes(j, x, v)] /\ F[j][v] \in V
    <2>1. \A x \in K : Ends(j, x) \in BOOLEAN /\ \A v \in V : Goes(j, x, v) \in BOOLEAN
      BY DEF Ends, Goes
    <2> HIDE DEF E
    <2> QED BY <2>1
  <1>3. ASSUME NEW j \in 1 .. n
        PROVE  E(j) \in j .. n
    BY <1>0, PartEndIs
  <1> HIDE DEF n, V, to, own, F, E
  <1>4. PICK f \in [1 .. n -> V] : Recursive(f, n, to, own, F)
    <2>1. \A j \in 1 .. n : own[j] \in V /\ \A v \in V : F[j][v] \in V
      BY <1>2
    <2> QED BY <1>0, <2>1, Recursion
  <1>5. ASSUME NEW j \in 1 .. n PROVE f[j] = Row(f, j)
    <2>0. to[j] = E(j) + 1 /\ E(j) \in j .. n /\ j \in Nat
      <3>1. to[j] = E(j) + 1
        BY <1>2
      <3> QED BY <1>0, <1>3, <3>1
    <2>1. f[j] = IF to[j] \in j + 1 .. n THEN F[j][f[to[j]]] ELSE own[j]
      BY <1>4 DEF Recursive
    <2>2. CASE E(j) > Len(g)
      <3>1. ~(to[j] \in j + 1 .. n)
        BY <1>0, <2>0, <2>2
      <3> QED BY <1>2, <2>1, <2>2, <3>1
    <2>3. CASE ~(E(j) > Len(g))
      <3>1. to[j] \in j + 1 .. n /\ to[j] = E(j) + 1 /\ E(j) + 1 \in 1 .. n
        BY <1>0, <2>0, <2>3
      <3>2. f[E(j) + 1] \in V
        BY <3>1
      <3>3. f[j] = [x \in K |-> Goes(j, x, f[E(j) + 1])]
        BY <1>2, <2>1, <3>1, <3>2
      <3> QED BY <2>3, <3>3
    <2> QED BY <2>2, <2>3
  <1>6. Is(f)
    <2> HIDE DEF Row
    <2> QED BY <1>5
  <1>7. Is(GlobLoop(g, s))
    <2> HIDE DEF Is
    <2> QED BY <1>1, <1>6
  <1>8. GlobLoop(g, s)[i] = Row(GlobLoop(g, s), i)
    <2> HIDE DEF Row
    <2> QED BY <1>0, <1>7
  <1>9. GlobLoop(g, s)[i][k] =
            IF E(i) > Len(g) THEN Ends(i, k) ELSE Goes(i, k, GlobLoop(g, s)[E(i) + 1])
    BY <1>0, <1>8
  <1> QED BY <1>9 DEF Ends, Goes, P, E

\* The greedy loop is right: it succeeds from the part at i on exactly if the
\* pattern from i on matches what is left of the subject at some later place.
LEMMA LoopIsMatch ==
    ASSUME NEW g \in Seq(STRING), NEW s \in Seq(STRING),
           NEW i \in 1 .. Len(g) + 1, NEW k \in 0 .. Len(s)
    PROVE  GlobLoop(g, s)[i][k] <=> \E m \in Matching(g, s)[i] : k <= m
  <1> DEFINE n == Len(g) + 1
             M == Matching(g, s)
             Right(j) == \A x \in 0 .. Len(s) : GlobLoop(g, s)[j][x] <=> \E m \in M[j] : x <= m
             Bad == {d \in 0 .. Len(g) : ~Right(n - d)}
  <1>0. Len(g) \in Nat /\ Len(s) \in Nat /\ n = Len(g) + 1
    OBVIOUS
  <1> HIDE DEF M, n
  <1>1. ASSUME NEW j \in 1 .. n, \A l \in j + 1 .. n : Right(l) PROVE Right(j)
    <2> DEFINE e == PartEnd(g, j)
               P(x) == Places(g, j, e, s, x)
    <2>1. /\ e \in j .. n /\ (e <= Len(g) => g[e] = "*")
          /\ \A l \in j .. e - 1 : g[l] # "*"
      BY <1>0, PartEndIs
    <2>2. ASSUME NEW x \in 0 .. Len(s)
          PROVE  GlobLoop(g, s)[j][x] <=>
                     IF e > Len(g) THEN Len(s) - (e - j) \in P(x)
                     ELSE P(x) # {} /\ GlobLoop(g, s)[e + 1][Min(P(x)) + (e - j)]
      BY <1>0, GlobLoopDef
    <2> HIDE DEF e, P
    <2>3. ASSUME NEW m \in 0 .. Len(s)
          PROVE  m \in M[j] <=> PartAt(g, j, e, s, m) /\ m + (e - j) \in M[e]
      <3>1. e \in 1 .. Len(g) + 1 /\ j \in 1 .. e
        BY <1>0, <2>1
      <3> QED BY <2>1, <3>1, MatchesPart DEF M
    <2>4. M[j] \subseteq 0 .. Len(s)
      BY <1>0, MatchingDef DEF M
    <2>5. \A x \in 0 .. Len(s) : P(x) = {m \in x .. Len(s) : PartAt(g, j, e, s, m)}
      BY DEF P, Places
    <2>6. ASSUME NEW x \in 0 .. Len(s)
          PROVE  GlobLoop(g, s)[j][x] <=> \E m \in M[j] : x <= m
      <3>1. CASE e > Len(g)
        <4>1. M[e] = {Len(s)} /\ e = n
          BY <1>0, <2>1, <3>1, MatchingDef DEF M
        <4>2. GlobLoop(g, s)[j][x] <=> Len(s) - (e - j) \in P(x)
          BY <2>2, <3>1
        <4>3. ASSUME Len(s) - (e - j) \in P(x) PROVE \E m \in M[j] : x <= m
          <5>1. /\ Len(s) - (e - j) \in x .. Len(s)
                /\ PartAt(g, j, e, s, Len(s) - (e - j))
            BY <2>5, <4>3
          <5>2. Len(s) - (e - j) \in 0 .. Len(s) /\ (Len(s) - (e - j)) + (e - j) = Len(s)
            BY <1>0, <2>1, <5>1
          <5>3. Len(s) - (e - j) \in M[j]
            BY <2>3, <4>1, <5>1, <5>2
          <5> QED BY <5>1, <5>3
        <4>4. ASSUME NEW m \in M[j], x <= m PROVE Len(s) - (e - j) \in P(x)
          <5>1. m \in 0 .. Len(s) /\ PartAt(g, j, e, s, m) /\ m + (e - j) = Len(s)
            BY <2>3, <2>4, <4>1, <4>4
          <5>2. m = Len(s) - (e - j) /\ m \in x .. Len(s)
            BY <1>0, <2>1, <4>4, <5>1
          <5> QED BY <2>5, <5>1, <5>2
        <4> QED BY <4>2, <4>3, <4>4
      <3>2. CASE ~(e > Len(g))
        <4>1. e <= Len(g) /\ g[e] = "*" /\ e + 1 \in j + 1 .. n /\ e \in 1 .. n
          BY <1>0, <2>1, <3>2
        <4>2. Right(e + 1)
          BY <1>1, <4>1
        <4>3. \A y \in 0 .. Len(s) : y \in M[e] <=> \E m \in M[e + 1] : y <= m
          BY <1>0, <4>1, MatchingDef DEF M
        <4>4. \A y \in 0 .. Len(s) : GlobLoop(g, s)[e + 1][y] <=> y \in M[e]
          BY <4>2, <4>3
        <4>5. GlobLoop(g, s)[j][x] <=> P(x) # {} /\ GlobLoop(g, s)[e + 1][Min(P(x)) + (e - j)]
          BY <2>2, <3>2
        <4>6. ASSUME P(x) # {}
              PROVE  /\ Min(P(x)) \in x .. Len(s) /\ PartAt(g, j, e, s, Min(P(x)))
                     /\ Min(P(x)) + (e - j) \in 0 .. Len(s)
                     /\ \A m \in P(x) : Min(P(x)) <= m
          <5>1. P(x) \subseteq Nat
            BY <2>5
          <5>2. Min(P(x)) \in P(x) /\ \A m \in P(x) : Min(P(x)) <= m
            BY <4>6, <5>1, MinOf
          <5>3. PartAt(g, j, e, s, Min(P(x))) /\ Min(P(x)) \in x .. Len(s)
            BY <2>5, <5>2
          <5>4. Min(P(x)) + (e - j) <= Len(s)
            BY <5>3 DEF PartAt
          <5> QED BY <1>0, <2>1, <5>2, <5>3, <5>4
        <4>7. ASSUME P(x) # {}, GlobLoop(g, s)[e + 1][Min(P(x)) + (e - j)]
              PROVE  \E m \in M[j] : x <= m
          <5>1. Min(P(x)) + (e - j) \in M[e]
            BY <4>4, <4>6, <4>7
          <5>2. Min(P(x)) \in 0 .. Len(s) /\ x <= Min(P(x))
            BY <4>6, <4>7
          <5>3. Min(P(x)) \in M[j]
            BY <2>3, <4>6, <4>7, <5>1, <5>2
          <5> QED BY <5>2, <5>3
        <4>8. ASSUME NEW m \in M[j], x <= m
              PROVE  P(x) # {} /\ GlobLoop(g, s)[e + 1][Min(P(x)) + (e - j)]
          <5>1. m \in 0 .. Len(s) /\ PartAt(g, j, e, s, m) /\ m + (e - j) \in M[e]
            BY <2>3, <2>4, <4>8
          <5>2. m \in P(x)
            BY <1>0, <2>5, <4>8, <5>1
          <5>3. Min(P(x)) <= m /\ Min(P(x)) \in Nat /\ Min(P(x)) + (e - j) \in 0 .. Len(s)
            BY <4>6, <5>2
          <5>4. M[e] \subseteq 0 .. Len(s)
            BY <1>0, <4>1, MatchingDef DEF M
          <5>5. PICK y \in M[e + 1] : m + (e - j) <= y
            BY <4>3, <5>1, <5>4
          <5>6. y \in Nat
            <6>1. e + 1 \in 1 .. Len(g) + 1
              BY <1>0, <2>1, <4>1
            <6>2. M[e + 1] \subseteq 0 .. Len(s)
              BY <6>1, MatchingDef DEF M
            <6> QED BY <6>2
          <5>7. Min(P(x)) + (e - j) <= y
            BY <2>1, <4>1, <5>1, <5>3, <5>5, <5>6
          <5>8. Min(P(x)) + (e - j) \in M[e]
            BY <4>3, <5>3, <5>7
          <5> QED BY <4>4, <5>2, <5>3, <5>8
        <4> QED BY <4>5, <4>7, <4>8
      <3> QED BY <3>1, <3>2
    <2> QED BY <2>6
  <1> HIDE DEF Right
  <1>2. Bad = {}
    <2>1. SUFFICES ASSUME Bad # {} PROVE FALSE
      OBVIOUS
    <2>2. PICK d \in Bad : \A x \in Bad : d <= x
      <3>1. Bad \subseteq Nat
        OBVIOUS
      <3> HIDE DEF Bad
      <3> QED BY <2>1, <3>1, Least
    <2>3. n - d \in 1 .. n /\ ~Right(n - d) /\ d \in Nat /\ n \in Nat
      BY <1>0, <2>2
    <2>4. ASSUME NEW l \in (n - d) + 1 .. n PROVE Right(l)
      <3>1. n - l \in 0 .. Len(g) /\ n - l < d /\ n - (n - l) = l
        BY <1>0, <2>3
      <3>2. n - l \notin Bad
        <4> HIDE DEF Bad
        <4> QED BY <2>2, <2>3, <3>1
      <3> QED BY <3>1, <3>2
    <2> QED BY <1>1, <2>3, <2>4
  <1>3. Right(i)
    <2>1. n - i \in 0 .. Len(g) /\ n - (n - i) = i
      BY <1>0
    <2> QED BY <1>2, <2>1
  <1> QED BY <1>3 DEF Right, M

\* glob says what a plain match of the pattern says.
LEMMA GlobIsMatch ==
    ASSUME NEW g \in Seq(STRING), NEW s \in Seq(STRING)
    PROVE  glob(g, s) <=> GlobMatches(g, s)
  <1> DEFINE e == PartEnd(g, 1)
             M == Matching(g, s)
  <1>0. Len(g) \in Nat /\ Len(s) \in Nat /\ 1 \in 1 .. Len(g) + 1
    OBVIOUS
  <1>1. /\ e \in 1 .. Len(g) + 1 /\ (e <= Len(g) => g[e] = "*")
        /\ \A j \in 1 .. e - 1 : g[j] # "*"
    BY <1>0, PartEndIs
  <1>2. glob(g, s) <=> IF e > Len(g) THEN s = g
                       ELSE PartAt(g, 1, e, s, 0) /\ GlobLoop(g, s)[e + 1][e - 1]
    BY DEF glob
  <1> HIDE DEF e
  <1>3. GlobMatches(g, s) <=> PartAt(g, 1, e, s, 0) /\ e - 1 \in M[e]
    <2>1. 0 \in 0 .. Len(s) /\ 0 + (e - 1) = e - 1 /\ 1 \in 1 .. e
      BY <1>0, <1>1
    <2> QED BY <1>1, <2>1, MatchesPart DEF GlobMatches
  <1> HIDE DEF M
  <1>4. CASE e > Len(g)
    <2>1. e = Len(g) + 1 /\ M[e] = {Len(s)}
      BY <1>0, <1>1, <1>4, MatchingDef DEF M
    <2>2. s = g <=> Len(s) = Len(g) /\ \A j \in 1 .. Len(g) : s[j] = g[j]
      BY SeqEqual
    <2>3. PartAt(g, 1, e, s, 0) /\ e - 1 \in M[e] <=>
              Len(s) = Len(g) /\ \A j \in 1 .. Len(g) : s[j] = g[j]
      <3>1. e - 1 = Len(g) /\ 0 + (e - 1) = Len(g) /\ 1 .. e - 1 = 1 .. Len(g)
        BY <1>0, <2>1
      <3>2. \A j \in 1 .. Len(g) : 0 + 1 + (j - 1) = j
        BY <1>0
      <3> QED BY <1>0, <2>1, <3>1, <3>2 DEF PartAt
    <2> QED BY <1>2, <1>3, <1>4, <2>2, <2>3
  <1>5. CASE ~(e > Len(g))
    <2>1. e <= Len(g) /\ g[e] = "*" /\ e + 1 \in 1 .. Len(g) + 1
      BY <1>0, <1>1, <1>5
    <2>2. ASSUME PartAt(g, 1, e, s, 0)
          PROVE  GlobLoop(g, s)[e + 1][e - 1] <=> e - 1 \in M[e]
      <3>1. e - 1 \in 0 .. Len(s)
        BY <1>0, <1>1, <2>2 DEF PartAt
      <3>2. GlobLoop(g, s)[e + 1][e - 1] <=> \E m \in M[e + 1] : e - 1 <= m
        BY <2>1, <3>1, LoopIsMatch DEF M
      <3>3. e - 1 \in M[e] <=> \E m \in M[e + 1] : e - 1 <= m
        BY <1>1, <2>1, <3>1, MatchingDef DEF M
      <3> QED BY <3>2, <3>3
    <2> QED BY <1>2, <1>3, <1>5, <2>2
  <1> QED BY <1>4, <1>5

-----------------------------------------------------------------------------
(* The table of handlers for tunnels *)

\* The list has every registration, and the map the last one of each glob.
SSLInv ==
    /\ sslRegistered \in Seq(SSLGlobs) /\ sslGlobList = sslRegistered
    /\ DOMAIN sslFuncMap = Range(sslRegistered)
    /\ \A i \in 1 .. Len(sslRegistered) :
          LET last == sslFuncMap[sslRegistered[i]]
          IN  /\ last \in i .. Len(sslRegistered)
              /\ sslRegistered[last] = sslRegistered[i]

LEMMA SSLInitInv == SSLInit => SSLInv
  <1>1. Range(<<>>) = {} /\ DOMAIN <<>> = {} /\ <<>> \in Seq(SSLGlobs) /\ Len(<<>>) = 0
    BY DEF Range
  <1> QED BY <1>1 DEF SSLInit, SSLInv

LEMMA SetSSLInv ==
    ASSUME SSLInv, NEW host \in SSLGlobs, SetSSL(host)
    PROVE  SSLInv'
  <1> DEFINE r == sslRegistered
             n == Len(sslRegistered)
  <1>1. r \in Seq(SSLGlobs) /\ n \in Nat /\ r' = Append(r, host) /\ sslGlobList' = r'
    BY DEF SSLInv, SetSSL
  <1>2. /\ r' \in Seq(SSLGlobs) /\ Len(r') = n + 1 /\ r'[n + 1] = host
        /\ \A i \in 1 .. n : r'[i] = r[i]
    BY <1>1
  <1>3. Range(r') = {host} \cup Range(r)
    BY <1>1, <1>2 DEF Range
  <1>4. /\ DOMAIN sslFuncMap' = {host} \cup Range(r)
        /\ sslFuncMap'[host] = n + 1
        /\ \A g \in Range(r) : g # host => sslFuncMap'[g] = sslFuncMap[g]
    BY DEF SSLInv, SetSSL
  <1>5. ASSUME NEW i \in 1 .. n + 1
        PROVE  sslFuncMap'[r'[i]] \in i .. n + 1 /\ r'[sslFuncMap'[r'[i]]] = r'[i]
    <2>1. CASE r'[i] = host
      BY <1>1, <1>2, <1>4, <2>1
    <2>2. CASE r'[i] # host
      <3>1. i \in 1 .. n /\ r'[i] = r[i]
        BY <1>1, <1>2, <2>2
      <3>2. r[i] \in Range(r)
        BY <1>1, <3>1 DEF Range
      <3>3. sslFuncMap'[r'[i]] = sslFuncMap[r[i]]
        BY <1>4, <2>2, <3>1, <3>2
      <3>4. sslFuncMap[r[i]] \in i .. n /\ r[sslFuncMap[r[i]]] = r[i]
        BY <3>1 DEF SSLInv
      <3> QED BY <1>1, <1>2, <3>1, <3>3, <3>4
    <2> QED BY <2>1, <2>2
  <1> HIDE DEF n
  <1> QED BY <1>1, <1>2, <1>3, <1>4, <1>5 DEF SSLInv

\* The table's inductive invariant.
THEOREM SSLInvariant == SSLSpec => []SSLInv
  <1>1. SSLInv /\ [SSLNext]_sslVars => SSLInv'
    <2>1. CASE SSLNext
      BY <2>1, SetSSLInv DEF SSLNext
    <2>2. CASE UNCHANGED sslVars
      BY <2>2 DEF sslVars, SSLInv
    <2> QED BY <2>1, <2>2
  <1> QED BY <1>1, SSLInitInv, PTL DEF SSLSpec

\* SSLHandlerExact: whatever globs tunnels are registered for, how often and in
\* what order, and whatever host is looked up, SSLRouters.GetHandleFunc finds the
\* handler last registered for the first glob that matches.
THEOREM SSLHandlersAreExact == SSLSpec => []SSLHandlerExact
  <1>1. ASSUME SSLInv PROVE SSLHandlerExact
    <2> SUFFICES ASSUME NEW host \in SSLHosts
                 PROVE  LET can == {i \in DOMAIN sslRegistered : GlobMatches(sslRegistered[i], host)}
                        IN  IF can = {} THEN GetHandleSSLFunc(host) = Nil
                            ELSE GetHandleSSLFunc(host) =
                                Max({i \in DOMAIN sslRegistered : sslRegistered[i] = sslRegistered[Min(can)]})
      BY DEF SSLHandlerExact
    <2> DEFINE r == sslRegistered
               n == Len(sslRegistered)
               can == {i \in DOMAIN r : GlobMatches(r[i], host)}
               hit == {i \in 1 .. Len(sslGlobList) : glob(sslGlobList[i], host)}
               same == {i \in DOMAIN r : r[i] = r[Min(can)]}
               last == sslFuncMap[r[Min(can)]]
    <2>1. r \in Seq(SSLGlobs) /\ n \in Nat /\ DOMAIN r = 1 .. n /\ sslGlobList = r
      BY <1>1 DEF SSLInv
    <2>2. hit = can
      <3>1. ASSUME NEW i \in 1 .. n PROVE glob(r[i], host) <=> GlobMatches(r[i], host)
        <4>1. r[i] \in Seq(STRING) /\ host \in Seq(STRING)
          BY <2>1, SSLAssumption
        <4> QED BY <4>1, GlobIsMatch
      <3> QED BY <2>1, <3>1
    <2>3. GetHandleSSLFunc(host) =
              LET at == IF hit # {} THEN Min(hit) ELSE 0
              IN  IF at = 0 THEN Nil ELSE sslFuncMap[sslGlobList[at]]
      BY DEF GetHandleSSLFunc, SelectInSeq
    <2>4. can \subseteq 1 .. n
      BY <2>1
    <2> HIDE DEF hit, can
    <2>5. CASE can = {}
      BY <2>2, <2>3, <2>5 DEF can
    <2>6. CASE can # {}
      <3>1. Min(can) \in 1 .. n
        <4>1. can \subseteq Nat
          BY <2>1, <2>4
        <4> QED BY <2>4, <2>6, <4>1, MinOf
      <3>2. GetHandleSSLFunc(host) = last
        BY <2>1, <2>2, <2>3, <2>6, <3>1
      <3>3. last \in Min(can) .. n /\ r[last] = r[Min(can)]
        BY <1>1, <3>1 DEF SSLInv
      <3>4. last \in same /\ last \in 1 .. n
        BY <2>1, <3>1, <3>3
      <3>5. ASSUME NEW i \in same PROVE last >= i
        <4>1. i \in 1 .. n /\ r[i] = r[Min(can)]
          BY <2>1
        <4>2. sslFuncMap[r[i]] \in i .. n
          BY <1>1, <4>1 DEF SSLInv
        <4> QED BY <4>1, <4>2
      <3>6. Max(same) = last
        <4>1. same \subseteq 1 .. n
          BY <2>1
        <4> HIDE DEF same, last, n
        <4>2. Max(same) \in same /\ \A i \in same : Max(same) >= i
          <5>1. \E x \in same : \A y \in same : x >= y
            BY <3>4, <3>5
          <5> QED BY <5>1 DEF Max
        <4>3. Max(same) >= last /\ last >= Max(same)
          BY <3>4, <3>5, <4>2
        <4>4. last \in Nat /\ Max(same) \in Nat
          <5>1. \A x \in 1 .. n : x \in Nat
            BY <2>1
          <5> QED BY <3>4, <4>1, <4>2, <5>1
        <4> QED BY <4>3, <4>4
      <3> QED BY <2>6, <3>2, <3>6 DEF can
    <2> QED BY <2>5, <2>6
  <1> QED BY <1>1, SSLInvariant, PTL
=============================================================================
