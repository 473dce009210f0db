--------------------------- MODULE CacheDownload ---------------------------
(***************************************************************************)
(* What the memory cache and the file cache of the plugin share: the       *)
(* response a request downloads into the cache while it is passed on, and  *)
(* the check of its size (writeHeaderTo and checkDownloadedFile of         *)
(* plugin/filecache.go, Close of plugin/memcache.go).                      *)
(*                                                                         *)
(* A response is its start line, unit 0, its header, unit 1, and the units *)
(* 2 .. len + 1 of its body.  known says that the header has a content     *)
(* length, len is 0 or more; size is the number of units the cache         *)
(* expects, -1 for any.                                                    *)
(***************************************************************************)
EXTENDS Integers, Sequences

CONSTANTS
    Requests,    \* concurrent requests for one key
    Responses,   \* the answers they may get: [valid, known, len, maxAge]
    None         \* no item, no response

ASSUME ResponsesAssumption ==
    Responses \subseteq [valid : BOOLEAN, known : BOOLEAN, len : Nat, maxAge : Int]

Download == [at |-> "idle", resp |-> None, pos |-> 0, data |-> <<>>, size |-> -1,
             hit |-> None]

\* A content length that is positive.
KnownSize(resp) == resp.known /\ resp.len > 0

\* The header goes to the cache unless the status is one not to be saved.  A
\* content length of 0 is taken for none.
Started(d, resp) ==
    IF resp.valid
    THEN [d EXCEPT !.at = "body", !.resp = resp, !.pos = 2, !.data = <<0, 1>>,
                   !.size = IF KnownSize(resp) THEN resp.len + 2 ELSE -1]
    ELSE [d EXCEPT !.at = "close", !.resp = resp]

\* What a failing write of the header leaves: nothing, or the start line.
HeaderParts == {<<>>, <<0>>}

\* A write of the header fails after some of it, and the writer is closed.  No
\* size is expected then.
HeaderFailed(d, resp, written) ==
    [d EXCEPT !.at = "close", !.resp = resp, !.data = written]

\* The next unit of the body arrives and is written.
HasMore(d) == d.pos <= d.resp.len + 1
Written(d) == [d EXCEPT !.pos = @ + 1, !.data = Append(@, d.pos)]

\* A bug: the size is compared only for a body that came to its end.
SizeAcceptedAnyLength(d) == Len(d.data) >= 1

\* Nothing but an empty download is refused when no size is expected.
SizeAccepted(d) ==
    /\ Len(d.data) >= 1
    /\ d.size > 0 => Len(d.data) = d.size

Item(d) == [resp |-> d.resp, data |-> d.data]
Whole(item) == item.data = [i \in 1 .. item.resp.len + 2 |-> i - 1]
=============================================================================
