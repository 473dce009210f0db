----------------------------- MODULE FileCache -----------------------------
(***************************************************************************)
(* plugin/filecache.go: responses kept as files.  A download goes to a     *)
(* file of its own with a random name under "downloading" and is renamed   *)
(* into "cache" when it is whole.  The process may crash between any two   *)
(* system calls and start again: the files stay.  One under "downloading"  *)
(* has a name nobody uses again, so those are not told apart here from     *)
(* none.                                                                   *)
(***************************************************************************)
EXTENDS CacheDownload

CONSTANT MaxCrashes   \* bound on the number of crashes

VARIABLES
    cacheFile,   \* the file cache/<key>, or None
    file,        \* the FileCache of each request
    crashes      \* how often the process has crashed

fileVars == <<cacheFile, file, crashes>>

FileInit ==
    /\ cacheFile = None /\ crashes = 0
    /\ file = [r \in Requests |-> Download]

\* Init asks whether the file exists.
Stat(r) ==
    /\ file[r].at = "idle"
    /\ file' = [file EXCEPT ![r].at = IF cacheFile = None THEN "create" ELSE "open"]
    /\ UNCHANGED <<cacheFile, crashes>>

\* Init opens it; when that fails the file is removed by its name, whatever it
\* is by now, if it can be, and the response is downloaded.
Open(r) ==
    /\ file[r].at = "open"
    /\ \/ /\ cacheFile # None
          /\ file' = [file EXCEPT ![r].at = "hit", ![r].hit = cacheFile]
       \/ file' = [file EXCEPT ![r].at = "remove"]
    /\ UNCHANGED <<cacheFile, crashes>>

RemoveFile(r) ==
    /\ file[r].at = "remove"
    /\ cacheFile' \in {None, cacheFile}
    /\ file' = [file EXCEPT ![r].at = "create"]
    /\ UNCHANGED crashes

\* The file of the download is made, or it cannot be and nothing is written.
Create(r) ==
    /\ file[r].at = "create"
    /\ \/ file' = [file EXCEPT ![r].at = "header"]
       \/ file' = [file EXCEPT ![r].at = "closed"]
    /\ UNCHANGED <<cacheFile, crashes>>

\* OnResponse closes the cache when the header cannot be written: nothing of it
\* was, or the start line alone.
FileWriteHeader(r) ==
    /\ file[r].at = "header"
    /\ \/ \E resp \in Responses : file' = [file EXCEPT ![r] = Started(@, resp)]
       \/ \E resp \in {x \in Responses : x.valid}, written \in HeaderParts :
            file' = [file EXCEPT ![r] = HeaderFailed(@, resp, written)]
    /\ UNCHANGED <<cacheFile, crashes>>

\* A write of the body that fails is ignored by copyBody, and the next one is tried.
FileWrite(r) ==
    /\ file[r].at = "body" /\ HasMore(file[r])
    /\ \/ file' = [file EXCEPT ![r] = Written(@)]
       \/ file' = [file EXCEPT ![r].pos = @ + 1]
    /\ UNCHANGED <<cacheFile, crashes>>

\* Close: moveDownloadedFileToCache, at the end of the body or where it broke off.
FileRename(r) ==
    /\ file[r].at \in {"body", "close"}
    /\ \/ SizeAccepted(file[r]) /\ cacheFile' = Item(file[r])
       \/ UNCHANGED cacheFile   \* refused, or a system call failed
    /\ file' = [file EXCEPT ![r].at = "closing"]
    /\ UNCHANGED crashes

\* The rest of Close removes the file of the download if it is still there and
\* the system lets it: what stays is in nobody's way.
FileClose(r) ==
    /\ file[r].at = "closing"
    /\ file' = [file EXCEPT ![r].at = "closed"]
    /\ UNCHANGED <<cacheFile, crashes>>

FileDone(r) ==
    /\ file[r].at \in {"hit", "closed"}
    /\ file' = [file EXCEPT ![r] = Download]
    /\ UNCHANGED <<cacheFile, crashes>>

\* The request fails before it has a response: nobody calls Close, and the file
\* stays behind.
FileAbandon(r) ==
    /\ file[r].at = "header"
    /\ file' = [file EXCEPT ![r] = Download]
    /\ UNCHANGED <<cacheFile, crashes>>

Crash ==
    /\ crashes < MaxCrashes
    /\ crashes' = crashes + 1
    /\ file' = [r \in Requests |-> Download]
    /\ UNCHANGED cacheFile

FileRequest(r) ==
    \/ Stat(r) \/ Open(r) \/ RemoveFile(r) \/ Create(r) \/ FileWriteHeader(r)
    \/ FileWrite(r) \/ FileRename(r) \/ FileClose(r) \/ FileDone(r) \/ FileAbandon(r)

FileNext == (\E r \in Requests : FileRequest(r)) \/ Crash
=============================================================================
