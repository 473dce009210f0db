----------------------------- MODULE SSLRouters -----------------------------
(***************************************************************************)
(* SSLRouters and glob of plugin/router.go: the table of the handlers for  *)
(* tunnels, and the matching of host names that both routing tables use.   *)
(*                                                                         *)
(* A host name or a glob is a sequence of characters.  A handler is named  *)
(* by the place of its registration, Nil is Go's nil.  A part of a glob,   *)
(* of those that strings.Split(pattern, "*") returns, is given by where it *)
(* begins and where it ends; what is left of the subject, by how much of   *)
(* it was trimmed.                                                         *)
(***************************************************************************)
EXTENDS Integers, SequencesExt, FiniteSetsExt

CONSTANTS
    SSLGlobs,   \* the host globs tunnels are registered for
    SSLHosts    \* the host names of tunnels looked up

ASSUME SSLAssumption == SSLGlobs \subseteq Seq(STRING) /\ SSLHosts \subseteq Seq(STRING)

VARIABLES
    sslFuncMap,     \* SSLRouters.sslFuncMap: host glob -> handler
    sslGlobList,    \* SSLRouters.globList
    sslRegistered   \* history: the globs of the registrations in their order

sslVars == <<sslFuncMap, sslGlobList, sslRegistered>>

Nil == 0

-----------------------------------------------------------------------------
(* Host globs *)

\* The end of the part that begins at i: the next "*", or the end of g.
PartEnd(g, i) == Min({j \in i .. Len(g) : g[j] = "*"} \cup {Len(g) + 1})

\* The part of g from i up to e is in s after its first m characters.
PartAt(g, i, e, s, m) ==
    /\ m + (e - i) <= Len(s)
    /\ \A j \in i .. e - 1 : s[m + 1 + (j - i)] = g[j]

\* Where the part may be when k characters are trimmed; strings.Index is the first.
Places(g, i, e, s, k) == {m \in k .. Len(s) : PartAt(g, i, e, s, m)}

\* A bug: the text a middle part matched is not trimmed from the subject.
GlobLoopUntrimmed(g, s) ==
    LET Loop[i \in 1 .. Len(g) + 1] ==
            LET e == PartEnd(g, i)
            IN  [k \in 0 .. Len(s) |->
                    IF e > Len(g) THEN Len(s) - (e - i) \in Places(g, i, e, s, k)
                    ELSE Places(g, i, e, s, k) # {} /\ Loop[e + 1][k]]
    IN  Loop

\* What the loop over the parts returns from the part at i on, after the first
\* one, when k characters of s are trimmed.
GlobLoop(g, s) ==
    LET Loop[i \in 1 .. Len(g) + 1] ==
            LET e == PartEnd(g, i)
            IN  [k \in 0 .. Len(s) |->
                    IF e > Len(g) THEN Len(s) - (e - i) \in Places(g, i, e, s, k)
                    ELSE /\ Places(g, i, e, s, k) # {}
                         /\ Loop[e + 1][Min(Places(g, i, e, s, k)) + (e - i)]]
    IN  Loop

glob(pattern, subj) ==
    LET e == PartEnd(pattern, 1)
    IN  IF e > Len(pattern) THEN subj = pattern
        ELSE PartAt(pattern, 1, e, subj, 0) /\ GlobLoop(pattern, subj)[e + 1][e - 1]

-----------------------------------------------------------------------------
(* The table *)

SSLInit == sslFuncMap = <<>> /\ sslGlobList = <<>> /\ sslRegistered = <<>>

\* SSLRouters.Set: a second handler for a glob replaces the first.
SetSSL(host) ==
    /\ sslFuncMap' = [g \in DOMAIN sslFuncMap \cup {host} |->
                          IF g = host THEN Len(sslRegistered) + 1 ELSE sslFuncMap[g]]
    /\ sslGlobList' = Append(sslGlobList, host)
    /\ sslRegistered' = Append(sslRegistered, host)

SSLNext == \E host \in SSLGlobs : SetSSL(host)

SSLSpec == SSLInit /\ [][SSLNext]_sslVars

\* SSLRouters.GetHandleFunc
GetHandleSSLFunc(host) ==
    LET at == SelectInSeq(sslGlobList, LAMBDA g : glob(g, host))
    IN  IF at = 0 THEN Nil ELSE sslFuncMap[sslGlobList[at]]

-----------------------------------------------------------------------------
(* Reference definitions *)

\* For each i the k such that the characters of g from i on match those of s
\* after the first k, where a "*" stands for any run of characters.
Matching(g, s) ==
    LET Match[i \in 1 .. Len(g) + 1] ==
            IF i > Len(g) THEN {Len(s)}
            ELSE IF g[i] = "*" THEN {k \in 0 .. Len(s) : \E m \in Match[i + 1] : k <= m}
            ELSE {k \in 0 .. Len(s) - 1 : s[k + 1] = g[i] /\ k + 1 \in Match[i + 1]}
    IN  Match

GlobMatches(g, s) == 0 \in Matching(g, s)[1]

-----------------------------------------------------------------------------
(* Properties *)

\* A tunnel's host gets the handler last registered for the first listed glob
\* that matches it, where a glob is a plain pattern match (glob's greedy search).
SSLHandlerExact ==
    \A host \in SSLHosts :
        LET can == {i \in DOMAIN sslRegistered : GlobMatches(sslRegistered[i], host)}
        IN  IF can = {} THEN GetHandleSSLFunc(host) = Nil
            ELSE GetHandleSSLFunc(host) =
                    Max({i \in DOMAIN sslRegistered : sslRegistered[i] = sslRegistered[Min(can)]})
=============================================================================
