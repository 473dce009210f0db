# A TLA+ model of fastproxy

fastproxy is an HTTP(S) forward proxy in Go. A server accepts connections and
hands them to a pool of workers; a worker runs the proxy's keep-alive loop on
its connection, reads a request, and either has the client package make it
(directly or through a super proxy), or opens a tunnel. This directory holds
TLA+ modules translated from the source, the TLC configurations that check them
on small instances, and proofs that TLAPS checks. `PROJECT.json` lists the
components, runs, mutants, hazards, findings and theorems, and maps every
definition to its lines.

## Inventory of the system

| component | state | operations | what is hard | what makes it correct |
|---|---|---|---|---|
| worker pool, `server/workerpool.go` | `workersCount`, `ready`, `mustStop`, `stopCh`, `workerChanPool` | `Start`, `Serve`, `getCh`, `release`, `clean`, `Stop`, `workerFunc` | sends outside (clean) and inside (Stop) the lock, reuse of channels, an unsorted `ready` | exact count, one sender per worker, a sender waits for its worker's receive at most, every connection closed once, Stop drains |
| graceful listener, `server/listener.go` | `connsCount`, `shutdown`, `done` | `Accept`, `Close`, `gracefulConn.Close` | two atomics read one after the other | count equals open sockets; Close waits for them |
| server, `server/server.go` | `activeConn`, `mu` | accept loop, `trackConn`, `Close` | Close holds `mu` while it waits | `activeConn` is what is served; shutdown completes |
| connection manager, `transport/connmanager.go` | `connsCount`, `conns`, `connsCleanerRun`, `connPool` | `AcquireConn`, `CloseConn`, `ReleaseConn`, `connsCleaner` | cleaner starting and stopping, closing outside the lock | exact count, one holder, one cleaner |
| host client, `client/client.go`, `client/dialer.go` | `pendingRequests`, cached TLS config, retry buffer | `Do`, `do`, `DoRaw`, `makeDialer` | retries and redials, error paths after a connection was acquired, deadlines kept in pooled wrappers | a counted slot is an open socket, no retry after the response began, retries end |
| table of host clients, `client/client.go` | `hostClients`, `hostTLSClients` | `getHostClient`, `mCleaner` | a client is dropped from the table while it is in use | at most `MaxConnsPerHost` per host, one cleaner per table |
| TCP dialer, `transport/tcpdialer.go` | `tcpAddrsMap`, `concurrencyCh` | `Dial`, `tryDial`, `getTCPAddrs`, `tcpAddrsClean` | late results after a timeout, concurrent lookups | tokens come back, every address is tried, no socket is lost |
| super proxy, `superproxy/` | `concurrencyChan`, credentials | `MakeTunnel`, `AcquireToken`, `PushBackToken`, `SetMaxConcurrency` | failing halfway through a handshake, resizing with tokens out | tokens conserved, sockets closed on failure |
| proxy loop, `proxy/proxy.go`, `proxy/client.go` | request, reader, deadlines, hijacker | `serveConn`, `do`, `proxyHTTP`, `decryptHTTPS`, `tunnelHTTPS` | the parsing goroutine that outlives an idle timeout, the forwarding goroutine that outlives a tunnel | one reader of the connection, pooled objects have one user, callbacks in order |
| HTTP framing, `http/`, `util/` | the parser's position in a buffered stream | `Header.Parse`, `ParseHeaderFields`, `Body.Parse`, `ReadHexInt` | every fragmentation of the stream, boundaries, breaks | what is taken for whole is whole; the next message is untouched; parsing ends |
| router and hijacker, `plugin/router.go`, `plugin/hijacker.go` | radix trees by host glob and method; a hijacker's last decision | `Set`, `Get`, `addRoute`, `getValue`, `glob`; the callbacks | trees that split, grow and reorder; the capacity of a slice | lookups agree with plain matching in every order of registration |
| caches, `plugin/memcache.go`, `plugin/filecache.go` | items with expiry; files under "downloading" and "cache" | `Init`, `WriteHeader`, `Write`, `Close`, the janitor | concurrent downloads of a key, broken responses, failing writes, crashes | what is stored and served is whole; expired items go |
| URIs, `uri/` | none | parsers | boundaries | |
| MITM and certificates | certificate cache | `FakeTargetServerName`, signing | mostly library calls | |
| pools, timers, coarse clock | free lists | `Get`/`Put` | use after release | |

Interaction: `Proxy.Serve` wraps its listener in a `GracefulNetListener` and runs
`Server.ListenAndServe`; the accept loop calls `WorkerPool.Serve`; a worker calls
back `Server.trackConn`, then `Proxy.serveConn`, which calls `Client.Do` or
`DoRaw`; these look up a `HostClient`, which dials (possibly through a super
proxy) and takes a slot of its `ConnManager`. `Proxy.Close` calls `Server.Close`
from another goroutine. State is shared under mutexes (`wp.lock`, `s.mu`,
`connsLock`, `hostClientsLock`, `tcpAddrsLock`) or through atomics (listener).
The hijacker of a connection belongs to the plugin: it asks the router for a
handler and keeps what that returns, and a handler may put a cache behind a
response. Only the file cache persists anything.

## Modules

| module | models | remarks |
|---|---|---|
| `WorkerPool` | `server/workerpool.go`, and what the accept loop does around `Serve` and `Stop` | a worker is named by its workerChan; every lock section, send, receive and callback is a step |
| `GracefulListener` | `server/listener.go` | actions parameterised by the goroutine; each atomic operation is a step |
| `Server` | `server/server.go` | composes `GracefulListener` (EXTENDS) and `WorkerPool` (INSTANCE): a step of the accept loop or a worker is a step of the pool conjoined with the step of the listener it makes |
| `ConnManager` | `transport/connmanager.go` | users, the cleaner goroutines, the pool of wrappers |
| `HostClient` | `HostClient.Do`, `do`, `DoRaw`, `makeDialer` | EXTENDS `ConnManager` and conjoins its actions |
| `TCPDialer` | `transport/tcpdialer.go` | callers of `Dial`, the goroutines of `tryDial`, the cache of addresses and its cleaner |
| `ProxyConn` | `proxy/proxy.go`, `proxy/client.go`, the table of host clients and `Client.Do`, `DoRaw`, `DoFake` of `client/client.go`, the tokens of a super proxy | EXTENDS `Hijacker`; one goroutine per connection, `mCleaner`, and the `Forward` goroutine a tunnel leaves behind |
| `Hijacker` | `plugin/hijacker.go` | the plugin's hijacker as a record, its methods as operators |
| `HijackerChain` | the comment on the interface in `proxy/hijacker.go` | an abstract specification: the order of the calls; `ProxyConn` implements it (`INSTANCE ... WITH call <- ...`) |
| `SSLRouters` | `SSLRouters` and `glob` of `plugin/router.go` | the table of the handlers for tunnels, and the matching of hosts |
| `Router` | `Routers` and the tree of `plugin/router.go` | EXTENDS `SSLRouters`, whose `glob` it uses: the radix tree as a value, `addRoute` and `getValue` as operators, registrations as actions |
| `Bufio` | external: `bufio.Reader` and the connection below it | a read returns any non-empty part of what has arrived |
| `Framing` | `http/header.go`, `http/body.go`, `util/hex.go` | EXTENDS `Bufio` |
| `SuperProxy` | `superproxy/superproxy.go`, `http.go`, `socks.go` | EXTENDS `Framing`: the two handshakes of `MakeTunnel` |
| `Exchange` | a connection from the tunnel to the end of a message | composes `SuperProxy` and `Framing` with a peer that sends, closes or breaks |
| `CacheDownload` | what the two caches share: `writeHeaderTo`, `checkDownloadedFile` | |
| `MemoryCache`, `FileCache` | `plugin/memcache.go`, `plugin/filecache.go` | EXTEND `CacheDownload` |
| `Caches` | an application's choice of one or the other | composes them and states their properties |
| `BasicLemmas` | | what the proofs share: least elements, induction and recursive functions over numbers, lists without repetition |
| `WorkerPoolProofs`, `ServerProofs`, `HostClientProofs`, `TCPDialerProofs`, `ProxyConnProofs`, `ExchangeProofs`, `PluginProofs` | | the theorems about the module of that name; `ServerProofs` has those about `GracefulListener` too, `HostClientProofs` those about `ConnManager`, `PluginProofs` those about `Caches` and `SSLRouters` |
| `MCWorkerPool`, `MCServer`, `MCConnManager`, `MCHostClient`, `MCTCPDialer`, `MCProxyConn`, `MCRouter`, `MCExchange`, `MCCaches` | | the instances TLC checks |

**WorkerPool.** `wpc[ch]` is the program counter of the goroutine that reads
`ch`; `"free"` means the workerChan is in `workerChanPool` or yet to be made. A
channel of capacity 0 (GOMAXPROCS = 1) accepts a send only when its worker is
at the receive; both capacities are initial states. A worker that was spawned,
or has released itself, is handed out before it gets to its receive (`"loop"`,
`Arrive`). `wp.lock` is held across
steps only by `Stop` (`LockFree`), which sends while it holds it. `getCh` is
four actions: the three outcomes of its lock section and `Spawn`. Times are
seconds since the stamp, counted up to `LongIdle`; `clean` compares them with a
clock that was read before the lock, against stamps of the coarse clock, which
is truncated to the second and refreshed once a second (`lag`).

**GracefulListener, Server.** Closing a socket twice fails the second time, as
in package net, and then nothing is counted. `Panicked` is a second
`close(ln.done)`, after which nothing happens any more. The pool's cleaner is
left out of `Server`: it touches the pool only.

**ConnManager, HostClient.** The slot is taken under the lock, then the cleaner
is launched, then the dialer is called. `HostClient` dials before it acquires,
as `makeDialer` does. `ReleaseConn` has no caller in this program, so in
`HostClient` no connection is ever idle; `ConnManager` checks it all the same.
The content of requests and responses is abstracted to success, end of file and
other errors; the wrapper's deadline times to "set less than a quarter of the
timeout ago". `armed` is what deadlines a socket really has; where it has none, or
where the code sets none, only the peer ends an operation (`Blocked`). A
connection that `do` or `DoRaw` drops without `CloseConn` stays open and counted
(`LeakAndReturn`).

**TCPDialer.** A caller is a goroutine inside the function that `newDial`
returns. Sections under `tcpAddrsLock` are single steps, and the increment of
an entry's index belongs to the section before it: only increments of other
callers could come between. A result channel has a name because it goes through
`dialResultChanPool`; one that nobody refers to is garbage, with the result in
it. A timer fires only after the deadline (`late`), and when both a token or a
result and the timer are there either branch of the `select` may be taken. The
ages of an entry are fresh, stale (to be resolved again) and expired (to be
dropped). The pooled timers, and the memoised dialers of `getDialer`, are not
modelled.

**ProxyConn, Hijacker, HijackerChain.** `conn[c]` is the goroutine of a
connection: where it is, the items of the client that have arrived (`wire`: a
start line, a header, a body) and how many of them the reader has buffered
(`buf`), its hijacker, the last call made to it (`call`), the super proxy it
holds a token of. The requests are steps at the places where another connection
can come between: the token channel, the write of the shared `p.client.Dial`,
the lock of the host client table, the launch of its cleaner. Of `HostClient.Do`
and `DoRaw` there is here what the client's connection and the hijacker see of
them: the request is read and shown to `OnRequest` (`SendRequest`), perhaps once
more (`SendAgain`), and then any outcome; `HostClient` has their inside.
An item is read whole; that the idle timeout releases a request its parsing
goroutine still fills is a parse that fails (`ParseFails`). `Steal` is the
`Forward` goroutine of a tunnel that ended: it may take what the client sends
next. A POST that is sent again has no body left to read, and may take the next
item for it; `OnRequest` is called again, as `"OnRequestAgain"`, so that the
repetition is a step of `HijackerChain` and no stuttering. Time is left out: `mCleaner` may find any entry old.
`HijackerChain` says which call may follow which; a step of `ProxyConn` may make
several calls, or leave out those that a path does not make.

**Router.** A path, a host name or a glob is a sequence of characters. `Set` is
`Routers.Set`: it inserts the pattern into the tree of its glob and method, or
panics. The reference definitions (`Applicable`, `Bindings`, `GlobMatches`) are
over the list of registrations and know nothing of trees. In `glob` a part of
`strings.Split(pattern, "*")` is given by where it begins and ends in the
pattern, and what is left of the subject by how much of it was trimmed;
`GlobLoop` is the loop over the parts from a given one on. `Router` shares one
bound, `MaxSets`, between the registrations of both tables; `SSLSpec` is the
table of `SSLRouters` by itself, without a bound.

**Bufio, Framing, SuperProxy, Exchange.** The stream is a sequence of bytes,
some of which stand for a text no property takes apart (a field of a header). A
parser blocks in `Peek`, `ReadByte` or `io.ReadFull` until `Fill` has read
enough, in any fragments, up to the size of the reader's buffer; a header, or a
line of an HTTP proxy's answer, that fills the buffer fails with
`bufio.ErrBufferFull` (`HeaderTooLarge`, as `http/header_test.go:16` expects). `size` and `digits` follow `ReadHexInt` digit by
digit; an integer that is too long is refused by their number
(`MaxHexIntChars`), so no overflow occurs, and the byte 0xFF, for which
`hex2intTable` has no entry, is a panic. What a released reader has buffered is
gone, as in `readHTTPProxyResp`. A target may send its message as soon as a proxy
that accepts has connected to it (`early`). A script is what the peers send: a reply of the
proxy, a header, a body and what comes after the body. `IsReply` and `IsMessage`
say how these fit together, by definitions over the whole text: a reply that
the proxy accepts with is no longer than it says, a body has the length of its
header or of its chunks (`ChunkedLen`; the two bytes after a chunk may be any,
as the code skips them). Replies that refuse, and chunks with a malformed size
line or a missing end, are scripts too.

**Caches.** The caches are seen at one key; `Load`, `Store`, `Delete` of the map
and each system call of the file cache is a step. A response is its start line,
its header and the units of its body, and `size` is what the cache expects of
it, -1 without a positive content length. `os.Remove` of an expired file may
fail, and the file stays. A crash keeps the files of the cache and nothing else.
The files under "downloading" are not followed when their request is gone: their
names are random, nobody opens them again, and whether `Close` can remove one is
up to the operating system. The janitor is that of a positive `cleanInterval`;
without one `NewMemoryCachePool` starts none, and expired items go only by `Get`.

## Runs

Passing:

* `worker_pool`: 3 connections, 2 workerChans, one caller (there is one accept
  loop), `MaxWorkersCount` 2, idle limit under a second. The third connection
  meets the limit, and workers are reused, told to stop by `clean` and by
  `Stop`. Deadlock is not checked: a stopped pool stops.
  `CountExact`, `SoleHolder`, `SenderMeetsWorker` and the action property
  `ConnLifecycle` are safety; `AcceptedClosed`, `StopDrains` and
  `IdleWorkerLeaves` need fairness.
* `server`: 3 connections, 1 worker allowed and 2 workerChans (so that a new
  worker may start while an old one puts its channel back), so that a
  connection is refused. `CountMatchesSockets`, `ActiveAreTracked`,
  `ShutdownCompletes`. A stopped server stops: no deadlock check.
* `conn_manager`: 3 users for 2 connections, 2 goroutines that may be the
  cleaner. `ConnsCountExact`, `OneHolder`, `OneCleaner`, `IdleConnLeaves`.
* `host_client`: 2 concurrent requests, `MaxAttempts` 2 and `MaxRedials` 1
  instead of 5 and 3 (the first and the last attempt are what the guards tell
  apart), a read timeout. `ConnsAccounted` (a slot is counted for an open socket
  or a dial under way, and for nothing else), `GetReadOnce`,
  `NoRetryAfterResponse`, and `RequestEnds`: every request returns or is for ever
  in an operation that only its peer can end.
* `tcp_dialer`: 2 callers, one host with two addresses, one token, so
  that one caller waits for the token of the other and a late result meets a
  reused channel. `IdxMod` is 2 instead of 2^32: with two addresses only
  the parity of the index matters. `TokensExact`, `OwnResult`,
  `PendingHasResolver`, and `DialEnds` although a dial may never return.
* `proxy_conn`: 2 connections (symmetric), one host, one super proxy with one
  token, so that one connection waits for the token of the other; up to
  `MaxWire` 2 outstanding items, which is a request or the rest of one and what
  may be taken for it. The handlers block, go through the proxy, or answer
  themselves. `TokensConserved`, `OneTableCleaner`, and `CallsFollowChain`,
  that `ProxyConn` implements `HijackerChain`. Some connection can always move:
  deadlock is checked.
* `router`: 23 patterns that meet each other in every way (equal, prefix,
  branch, the same or another wildcard, malformed), overlapping globs and
  methods, every sequence of at most `MaxSets` 3 registrations: three are enough
  for a node to be split, given a second child and reordered. All paths of a "/"
  and at most three characters over an alphabet of three are looked up, and some
  longer ones. `LookupExact`, `ParamsFit`, `SSLHandlerExact`. Registration ends,
  so deadlock is not checked.
* `exchange`: a body of every type, both orders of length and encoding, malformed
  size lines, one with the byte 0xFF, a header larger than the buffer
  (`BufSize` 8), both handshakes with each reply and address type and one too large
  for the reader, each cut into fragments and broken off everywhere, with targets
  that speak at any time. Two hexadecimal digits are the most here, addresses have
  2 and 3 bytes. `MessageFramed`, `TunnelAligned`, `ExchangeEnds`. The pooled
  reader of the HTTP handshake drops what a target says before the tunnel is handed
  out; that case (`Robbed`) is in the run, and the two invariants say nothing of
  the message then. An exchange ends: no deadlock check.
* `caches`: 2 concurrent requests for a key, one after the other as often as
  time allows; a response of known size, one of unknown size, one of length 0, an
  error; the clock to 3 with a time to live of 1 and an age of 2; 2 crashes.
  `ItemsWhole`, `ExpiredDropped`.

Violations, each of a sentence of the repository:

* `host_client_no_free`: a request whose response cannot be peeked at, or whose
  tunnel callback fails, returns without `CloseConn` (`client/client.go:572`,
  `:355`). Its connection stays open and counted, and a later request gets
  `ErrNoFreeConns` although no connection is busy, which the comments of
  `Client.Do` and `HostClient.Do` exclude. The instance of `host_client`.
* `proxy_header_discarded`: a blocked request on a decrypted connection leaves
  its header, which was only peeked at, in the reader, and it is parsed as the
  next start line. One connection, `MaxWire` 6.
* `proxy_own_dialer`: the dialer a hijacker chose is written to the client that
  all connections share, and read from it only when a host client is made; a
  request may be dialled by the function of another one.

Fairness: goroutines that can run are scheduled (weak fairness of each
goroutine's steps), time passes, `lookupIP` and the handlers of the worker pool
return, and so do the dialers of `ConnManager`; of `dialTCP` in `TCPDialer` and of
the dials in `HostClient` nothing is assumed. Workers that wait for `s.mu` get it
although others keep taking it (strong fairness: `sync.Mutex` hands over to a
waiter after a millisecond). In `HostClient` an armed deadline expires, and an
operation on a socket without one, or on the client's connection, may last for
ever: `RequestEnds` says that nothing else does. In `Exchange` only the program's
own goroutine is fair. No peer is made to send or to close, for `MakeTunnel` arms no
deadline and `ReadTimeout` is unlimited by default, and `ExchangeEnds` says that a
goroutine which does not end is waiting for bytes that were never sent.
In `Caches` the ticker of the janitor fires again.
Nothing is assumed of connections arriving, of `Stop` and `Close` being called,
of the clock of the caches, or, outside `TCPDialer`, of deadlines being reached.

## Also visible in the models

What the code does, is in the models as it is, and no run forbids:

* The listener's `Close` may return nil while a connection is open: `Accept`
  counts it after it accepted it. `Server.Close` holds `s.mu` while the listener
  waits for connections whose workers need `s.mu` before they close them; only
  `maxWaitTime` ends it (`Server`).
* The loop of `newDial` takes `addrs[idx%n]` while `idx` grows and `n` shrinks: of
  two addresses it may dial one twice and the other never, and return the error,
  although `transport/tcpdialer.go:51` says that it dials all of them (`Address`,
  `ResultErr` of `TCPDialer`).
* A POST that is made again after io.EOF runs `WriteHeaderTo` once more:
  `OnRequest` is called twice in one chain, where the comment at
  `proxy/hijacker.go:14` has it once (`SendAgain`). `HijackerChain` admits this
  repetition and no other.
* `readHTTPProxyResp` releases a reader that may hold the first bytes of the target
  (`superproxy/http.go:85`): a target that speaks first loses them (`Robbed`).
* The byte 0xFF in a chunk size is an index out of range in `hex2intTable`
  (`util/hex.go:34`, `:54`), a panic (`Hex`).
* The last `closeConn` and `waitForZeroConns` may both close `ln.done`, a panic
  (`Panicked`).
* A silent peer blocks a request for ever when no deadline is armed, and a tunnel's
  handshake has none at all (`Blocked`, `Starved`).
* A wrapper from `connPool` remembers the read deadline of an earlier socket,
  and the new one may get none (`transport/connmanager.go:207`; `HostClient`).
* `AfterResponse` is deferred with `err` as it is then, so it is always called
  with nil (`proxy/proxy.go:306`), and `BeforeRequest` leaves the decision of
  the last request when no handler matches (`ProxyConn`, `Hijacker`).
* The failing paths of the SOCKS5 handshake leave the connection to the proxy
  open (`SuperProxy`).
* "/*a/b" is accepted after "/*a" and never found (`Router`; alone it panics).
* A file whose header could not be written after its start line has no expected
  size, and the start line alone goes into the cache (`FileCache`): the exception
  that `ItemsWhole` names. A response without a positive length that broke off goes
  into both caches; of these it says only that their code was valid.
* The janitor and `Get` delete by key: what they delete may have been stored
  since they looked (`MemoryCache`). It costs a download, nothing else.

## Proofs

Each safety invariant that a run checks is proved for every value of the
constants, except `LookupExact` and `ParamsFit` of `Router`; and so are the
action properties and the refinements. In each module one inductive invariant is
shown to hold at first and to survive every action, and the properties follow
from it. TLC has checked the inductive invariants on instances like those of the
runs.

| module | theorems |
|---|---|
| `WorkerPoolProofs` | `TypeCorrect`, `WorkersCounted` (`CountExact`), `OneHolderEach` (`SoleHolder`), `SendersMeetWorkers` (`SenderMeetsWorker`), `ConnsHaveOnePlace` (`OnePlace`), `LifecycleIsKept` (`ConnLifecycle`, an action property) |
| `ServerProofs` | `ServerInvariant`, `ServerTypeCorrect`, `SocketsAreCounted` (`CountMatchesSockets`), `TableIsExact` (`ActiveAreTracked`), `ServerRunsPool` (a refinement of `WorkerPool`) |
| `HostClientProofs` | of `ConnManager`: `ManagerInvariant`, `ManagerTypeCorrect`, `CountIsExact` (`ConnsCountExact`), `ConnsHaveOneHolder` (`OneHolder`), `ManagerHasOneCleaner` (`OneCleaner`); of `HostClient`: `ClientInvariant`, `ClientTypeCorrect`, `ConnsAreAccounted` (`ConnsAccounted`), `GetsAreReadOnce` (`GetReadOnce`), `ResponsesAreNotRetried` (`NoRetryAfterResponse`, an action property) |
| `TCPDialerProofs` | `DialTypeCorrect`, `TokensKept` (`TokensExact`), `ResultsOwn` (`OwnResult`), `PendingResolved` (`PendingHasResolver`) |
| `ProxyConnProofs` | `Invariant`, `TypeCorrect`, `TokensAreConserved` (`TokensConserved`), `TableHasOneCleaner` (`OneTableCleaner`), `CallsAreChained` (`CallsFollowChain`, a refinement of `HijackerChain`) |
| `ExchangeProofs` | `ExchangeInvariant`, `MessagesAreFramed` (`MessageFramed`), `TunnelsAreAligned` (`TunnelAligned`) |
| `PluginProofs` | of `Caches`: `CachesInvariant`, `CachedWhole` (`ItemsWhole`); of `SSLRouters`: `SSLInvariant`, `SSLHandlersAreExact` (`SSLHandlerExact`) |

**WorkerPool**, for every set of connections, finite sets of workerChans and
callers, every `MaxWorkersCount` above zero, every idle limit and both channel
capacities. The inductive invariant is

    IInv == TypeOK /\ CountExact /\ HeldOnce /\ HeldIffWaiting /\ NoCleanerYet

No part is inductive alone. `workersCount - 1` is a natural number because the
worker that ends is counted (`CountExact`). That a worker which releases itself
is not in `ready` already follows from `HeldIffWaiting`: the holders are
exactly the workers that wait, or are on their way to their receive, with an empty
channel, and it did not. That
`HeldIffWaiting` survives a send needs `HeldOnce`: the sender was the only
holder. `NoCleanerYet` says that `Start` does not find a cleaner with something
in `scratch`. `SenderMeetsWorker` is then immediate: whoever may send finds the
worker at its receive, or with nothing to do but get there, and an empty channel.
A worker on its way needs no lock, so not even `Stop`, which holds it, waits for
ever. `ConnLifecycle` needs `OnePlace`
besides: an accepted connection is with one caller, in one channel or with one
worker, and which of them says how far it has got; so a handler is not called,
nor a connection closed, a second time.

The assumptions are those of `WorkerPool` (`MaxWorkersAssumption`,
`TimeAssumption`, `ChansAssumption`, `NilAssumption`; TLC evaluates them on the
instance). The cardinalities move by one element at a time, so the proof uses
`FS_AddElement` and `FS_RemoveElement`; the lists use the lemmas of `BasicLemmas`.

**Server**, for finite sets of connections and goroutines. The invariant has a
part for each of the three:

    SInv == PoolInv /\ ListenerInv /\ CloserInv

`CountMatchesSockets` balances two counters and two sets, and says nothing of
which connection is counted; so it is not inductive, nor does it keep the
unsigned count from wrapping around. `ListenerCounted` names the connections
that are counted (`CountedSocks`): the open ones but for that which `Accept` is
about to count, and the closed ones that some `closeConn` is about to count
down. `ListenerSound` says that no two goroutines are about to count down the
same one. That a connection is closed only after it was counted comes from the
pool: who closes it has it (`PoolPlaces`), or found it in `activeConn`, which
has only what a worker has (`ActiveAreTracked`), and what the pool knows was
counted. In the other direction `Untrack` keeps `activeConn` right because no
two workers have the same connection (`PoolPlaces`); and what `Close` deletes
is closed (`CloserInv`). `WorkersExact` makes `workersCount - 1` a number.

`ServerRunsPool` is the refinement of `WorkerPool` by `Server`: every step of
the server is a step of the pool or leaves it alone. With it what
`WorkerPoolProofs` shows of the pool holds in the server. `PoolInv` is proved
again on the instance `WP` all the same, since the prover does not see the
theorems of an instantiated module. The assumptions: `ConnsAssumption`,
`ProcsAssumption` (finite sets, `NoConn` no connection), `MaxWorkersAssumption`,
and `GoroutinesAssumption` (the accept loop, the caller of `Close` and the
workers are different goroutines).

**ConnManager**, for any connections, finite sets of users and of goroutines
that may be the cleaner, every limit above zero and every idle time.

    CMInv == CMTypeOK /\ UsersPlaced /\ CleanersPlaced
               /\ ConnsCountExact /\ OneHolder /\ OneCleaner

The three properties need each other: a decrement finds something to count down
because of the count; the count has one `scratch` in it because there is one
cleaner; and a connection is appended to a list that does not hold it because
it has one holder. `UsersPlaced` and `CleanersPlaced` say where a goroutine has
a connection at all. Assumptions: `MaxConnsAssumption`, `UsersAssumption` (some
goroutine may be the cleaner, as the count names one), `NoConnAssumption`.

**HostClient**, for any requests, attempts and redials.

    HCInv == Accounted /\ RequestTypeOK /\ SockTypeOK
               /\ (\A u \in Users : RequestSound(u)) /\ PendingExact

`HostClient` does not implement `ConnManager`: it drops open connections, which
is no step of the manager. So `CMInv` is not reused, but the lemmas about its
actions are. `Accounted` has `ConnsAccounted`, which counts sockets and not who
uses them, and what makes it inductive: the connection a request closes is open
and its own (`HeldApart`), and no connection is ever idle.
`RequestSound` couples a request with its state in the manager; for `GetReadOnce`
it says that what was read from the client is in the cache or `do` will not be
called again, and for `NoRetryAfterResponse` that a response that has begun is
being read or, again, `do` has decided against a retry. Assumptions:
`AttemptsAssumption`, `DeadlinesAssumption`, and those of `ConnManager`.

**ProxyConn**, for any finite set of connections, any hosts, super proxies,
tokens and decisions of the handlers, and streams of any length.

    PCInv == DOMAIN conn = Conns /\ (\A c \in Conns : Sound(conn[c]))
               /\ SharedTypeOK /\ TokensConserved /\ OneTableCleaner

`Sound` says of one connection which super proxy and host it has, whether its
request is a tunnel, and which call its hijacker has had last, by where its
goroutine is. A token is given back by who holds it because a connection has a
proxy only on the way from the token to the end of the request (`Placed`). Most
actions do no more than replace the record of one connection, and `Goes` says
what such a step must not do: from it the counts and the step of
`HijackerChain` follow at once. The refinement mapping takes `call` to the last
call of each connection; a step of `ProxyConn` maps to one step of
`HijackerChain` or to none. Assumptions: `TokensAssumption`, `ConnsAssumption`,
`MethodsAssumption`, `NilAssumption` and `SuperProxiesAssumption` (a decision
names a super proxy or none).

**TCPDialer**, for any finite sets of callers and goroutines, any hosts and
lookups and every limit. The first three theorems follow from

    DialInv == DialTypeOK /\ LoopInv /\ TokensExact /\ ChanInv

`OwnResult` is not inductive: it speaks of callers that wait, and the danger is
a goroutine whose caller has timed out. `ChanInv` says where all channels are:
a caller that waits and a goroutine that has yet to send each has its channel
alone, apart from each other when they belong together, and the pool has none
of these; a result in a channel is that of the caller who waits on it. `LoopInv`
(the loop over the addresses has some left) makes `addrs[idx%n]` an address,
and `TokensExact` that there is a token to take back. `PendingHasResolver` is
inductive with the types. The assumptions are those `TCPDialer` states: a lookup
that succeeds gives at least one address, the limit is above zero, the sets of
callers and goroutines are finite, `Nil` is no channel.

**Caches**, for any requests, any answers, any time to live and any number of
crashes.

    CachesInv == CachesTypeOK /\ AllSound

`ItemsWhole` speaks of what is stored, and what is stored comes from a download:
`AllSound` says of each download that it has never written more units than have
arrived, and when as many then exactly these in their order (`InBody`). So a
download whose length is that of the response has all of it: a write that failed
can not be made up for by a later one. A download that `Close` gets without a
body has no expected size (`InClose`), and one that has yet to begin has
written nothing (`Fresh`). The assumptions are `ResponsesAssumption` (the fields
of a response have their types) and `TTLAssumption`.

**Exchange**, for any scripts that `ScriptsAssumption` admits, so for any header,
body, chunks and replies, of any length, for every size of the reader's buffer,
and for every fragmentation and break.

    ExchangeInv == (early => sent /\ Accepts(script)) /\ (Robbed \/ ExInv)
    ExInv == ExTypeOK /\ (cut => closed) /\ (closed => sent \/ cut \/ ~Accepts(script))
               /\ Failing
               /\ (p.at \notin {"failed", "aborted", "panicked"} =>
                     \E pos \in 0 .. Arrived : Holds(pos) /\ Place(pos))

The properties speak of the end of a message or of a tunnel; the invariant says
where the reader is in between. `Holds(pos)` says that no byte is lost or
repeated: the buffer and the wire hold what was sent after the first `pos`
bytes, all of it unless the connection broke. `Place(pos)` says, by the parser's
phase, that this is the place it takes itself to be at. In a header, what it has
seen has no empty line. In a size line, `size` is the value of the digits that
were read. In a chunk, the length of the body as the plain definition computes
it from the first chunk (`ChunkedLen`) is what it computes from the next one. In
an answer of a SOCKS5 proxy, `pos` is the sum of the parts before. A fragment
moves bytes from the wire to the buffer and keeps `pos`; every other step moves
`pos` by what it discards. A parser that fails has met the end of a stream that
broke, a refusal, a header without an end in a full buffer, or a size line that is
none, and then `ChunkedLen` is 0; one that panics has met the byte 0xFF (`Failing`).
A target behind an HTTP proxy that speaks before the tunnel is handed out may lose
bytes (`Robbed`), and of the rest of that exchange nothing is proved but that the
proxy accepted. The assumptions: `BufSizeAssumption`, `LengthsAssumption`,
`HexAssumption` (neither a CR nor the byte 0xFF is a digit), `LimitsAssumption`,
`AddressAssumption` and `ScriptsAssumption`.

**SSLRouters**, for any globs, any hosts and any number of registrations.

    SSLInv == sslGlobList = sslRegistered, and sslFuncMap has for each glob in
              it the last place it is registered at

The argument is about `glob`. The reference (`Matching`) reads the pattern
character by character and lets a "*" take any run of characters; the code takes
each part where `strings.Index` finds it first. `LoopIsMatch` shows, from the
last part to the first, that taking the first place loses nothing: the rest of
the pattern begins with a "*", so when it matches after a later place it matches
after the first one too. `GlobIsMatch` adds the first part, which is anchored.
Every step of `Router` is one of these steps or leaves the table alone, so the
theorem speaks of the table there too; that remark is read off `Router`'s `Next`
and is no theorem, since `Router` reaches RECURSIVE operators. The assumption is `SSLAssumption`: globs and hosts are sequences of
characters.

Both proofs need to know what a function defined by recursion computes. The
library states induction with an operator as parameter, which the provers do not
instantiate; but that "less than" is well founded, and that a set then has a
minimal element, are statements about sets. From these `BasicLemmas` derives
`Least`, `Upto` (induction, for a set of numbers) and `Recursion` (there is a
function that takes its value at a place from the one at a greater place). So
`ChunkedEnds`, `GlobLoop` and `Matching` are what their definitions say, and
`HexValue`, which goes the other way, by `Upto` (`HexStepsExist`).

Only model-checked:

* the liveness properties `AcceptedClosed`, `StopDrains`, `IdleWorkerLeaves`,
  `ShutdownCompletes`, `IdleConnLeaves`, `RequestEnds`, `DialEnds`,
  `ExchangeEnds` and `ExpiredDropped`: fairness and ENABLED are out of the
  prover's reach;
* `LookupExact` and `ParamsFit` of `Router`: `addRoute` and `getValue` are
  RECURSIVE operators over nested trees, and the prover has no SMT backend in a
  module that reaches one.

## Not modelled

* Parsing of URIs (`uri/`), and the text of start lines, header fields and
  handshakes: substrings of one string, with no shared state.
* MITM: key generation, certificates and TLS are library calls; in `ProxyConn`
  the handshake succeeds or fails.
* `findCaseInsensitivePath` and `cleanPath` of the router, which nothing calls,
  and the trailing slash recommendation, which `Get` drops.
* Trailers of a chunked body, which the code does not parse either.
* Super proxies of type HTTPS, whose host clients go into the table for TLS.
* `SetMaxConcurrency` on a super proxy in use: only `NewSuperProxy` calls it.
* `AcquireConn`'s socket when there is no free slot: it is dropped without
  `Close`, and the model does not follow sockets without a wrapper.
* Data races on pooled objects beyond their effect on a parse: the request and
  reader that an idle timeout releases, the buffer of `CopyWithIdleDuration`.
* Logging, status texts and error pages; the wrappers of `sync.Pool` except
  where an object is used after it was put back; tests and the example program.

## Plan

What could be proved next: `ParamsFit`, that a lookup never has more parameters
than the slice has room for, and then `LookupExact`. Both need the tree of
`Router` as a table of nodes that refer to each other, with the loops of
`addRoute` and `getValue` as steps over it, since an invariant of nodes can be
proved and the value of a RECURSIVE operator can not.
