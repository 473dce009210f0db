------------------------------- MODULE Router -------------------------------
(***************************************************************************)
(* The routing tables of the hijacker plugin, plugin/router.go.            *)
(*                                                                         *)
(* A handler is registered for a method, a glob over host names and a path *)
(* pattern.  The patterns of one host and method are kept in a radix tree, *)
(* a value of this module: a node is a record, its children a sequence.    *)
(* A path is a sequence of characters.  A handler is named by the place of *)
(* its registration.  SSLRouters has the globs and the table of tunnels.   *)
(*                                                                         *)
(* getValue's trailing slash recommendation is left out: Get drops it.     *)
(***************************************************************************)
EXTENDS SSLRouters

CONSTANTS
    Routes,                  \* the <<method, host glob, path pattern>> handlers are
                             \* registered for; the method "*" is any
    Methods, Hosts, Paths,   \* the methods, host names and paths looked up
    MaxSets                  \* bound on the number of registrations

VARIABLES
    routers,        \* Routers.routers: host glob -> method -> root node
    globList,       \* Routers.globList
    registered,     \* history: the registrations in their order
    panicked        \* a Set has panicked

vars == <<routers, globList, registered, panicked, sslVars>>

Wild == {":", "*"}
From(s, i) == SubSeq(s, i, Len(s))

-----------------------------------------------------------------------------
(* The radix tree *)

Node == [path |-> <<>>, wildChild |-> FALSE, nType |-> "static", maxParams |-> 0,
         indices |-> <<>>, children |-> <<>>, handle |-> Nil, priority |-> 0]

\* What addRoute and insertChild are worth when they panic.
Panic == [nType |-> "panic"]

\* A node with its child at pos replaced, unless that child panicked.
WithChild(n, pos, child) ==
    IF child = Panic THEN Panic ELSE [n EXCEPT !.children = [@ EXCEPT ![pos] = child]]

countParams(path) == Min({255, Len(SelectSeq(path, LAMBDA c : c \in Wild))})

Moved(s, pos, newPos) ==
    SubSeq(s, 1, newPos - 1) \o <<s[pos]>> \o SubSeq(s, newPos, pos - 1) \o From(s, pos + 1)

\* A bug: the children move, the index characters stay.
incrementChildPrioIndicesStay(n, pos) ==
    LET prio == n.children[pos].priority + 1
        newPos == Min({i \in 1 .. pos :
                          \A j \in i .. pos - 1 : n.children[j].priority < prio})
    IN  [pos |-> newPos,
         node |-> [n EXCEPT !.children = Moved([@ EXCEPT ![pos].priority = prio], pos, newPos)]]

\* incrementChildPrio: the node after it, and where the child now is.
incrementChildPrio(n, pos) ==
    LET prio == n.children[pos].priority + 1
        newPos == Min({i \in 1 .. pos :
                          \A j \in i .. pos - 1 : n.children[j].priority < prio})
    IN  [pos |-> newPos,
         node |-> [n EXCEPT !.children = Moved([@ EXCEPT ![pos].priority = prio], pos, newPos),
                            !.indices = Moved(@, pos, newPos)]]

RECURSIVE insertChild(_, _, _, _)
insertChild(n, numParams, path, handle) ==
    IF numParams = 0 THEN [n EXCEPT !.path = path, !.handle = handle]
    ELSE LET i == Min({j \in DOMAIN path : path[j] \in Wild})
             end == Min({j \in i + 1 .. Len(path) : path[j] = "/"} \cup {Len(path) + 1})
             name == SubSeq(path, i, end - 1)
             Param == [Node EXCEPT !.nType = "param", !.maxParams = numParams, !.priority = 1]
             Rest == insertChild([Node EXCEPT !.maxParams = numParams - 1, !.priority = 1],
                                 numParams - 1, From(path, end), handle)
             Variable == [Node EXCEPT !.path = From(path, i - 1), !.nType = "catchAll",
                                      !.maxParams = 1, !.handle = handle, !.priority = 1]
             CatchAll == [Node EXCEPT !.wildChild = TRUE, !.nType = "catchAll", !.maxParams = 1,
                                      !.children = <<Variable>>, !.priority = 1]
         IN  CASE \/ \E j \in 2 .. Len(name) : name[j] \in Wild
                  \/ n.children # <<>>
                  \/ Len(name) < 2 -> Panic
               [] OTHER ->
                  IF path[i] = ":"
                  THEN LET child == IF end <= Len(path)
                                    THEN WithChild([Param EXCEPT !.path = name, !.children = <<Node>>],
                                                   1, Rest)
                                    ELSE insertChild(Param, numParams - 1, name, handle)
                       IN  WithChild([n EXCEPT !.path = IF i > 1 THEN SubSeq(path, 1, i - 1) ELSE @,
                                               !.wildChild = TRUE, !.children = <<Node>>],
                                     1, child)
                  ELSE IF \/ end # Len(path) + 1 \/ numParams > 1
                          \/ n.path # <<>> /\ Last(n.path) = "/"
                          \/ i = 1 \/ path[i - 1] # "/"
                  THEN Panic
                  ELSE [n EXCEPT !.path = SubSeq(path, 1, i - 2), !.indices = <<"/">>,
                                 !.children = <<CatchAll>>]

\* The edge of n split after its first i characters.
Split(n, i) ==
    LET child == [n EXCEPT !.path = From(@, i + 1), !.nType = "static", !.priority = @ - 1,
                           !.maxParams = Max({0} \cup {c.maxParams : c \in Range(n.children)})]
    IN  [n EXCEPT !.path = SubSeq(@, 1, i), !.indices = <<n.path[i + 1]>>,
                  !.children = <<child>>, !.handle = Nil, !.wildChild = FALSE]

\* A bug: maxParams of a wildcard node that gets deeper routes is not updated.
RaisedPriorityOnly(n, numParams) == [n EXCEPT !.priority = @ + 1]

Raised(n, numParams) == [n EXCEPT !.priority = @ + 1, !.maxParams = Max({@, numParams})]

\* The loop "walk" of addRoute, at a node whose priority is already raised.
RECURSIVE walk(_, _, _, _)
walk(n0, path0, numParams, handle) ==
    LET i == Len(LongestCommonPrefix({path0, n0.path}))
        n1 == [n0 EXCEPT !.maxParams = Max({@, numParams})]
        n == IF i < Len(n1.path) THEN Split(n1, i) ELSE n1
        path == From(path0, i + 1)
        Wildcard == n.children[1]
        Slot(c) == CHOOSE j \in DOMAIN n.indices : n.indices[j] = c
        Prio == incrementChildPrio(n, Slot(path[1]))
        Grown == incrementChildPrio([n EXCEPT !.indices = Append(@, path[1]),
                                     !.children = Append(@, [Node EXCEPT !.maxParams = numParams])],
                                    Len(n.indices) + 1)
    IN  CASE path = <<>> -> IF n.handle # Nil THEN Panic ELSE [n EXCEPT !.handle = handle]
          [] path # <<>> /\ n.wildChild ->
                IF /\ IsPrefix(Wildcard.path, path)
                   /\ Len(Wildcard.path) = Len(path) \/ path[Len(Wildcard.path) + 1] = "/"
                THEN WithChild(n, 1, walk(Raised(Wildcard, numParams), path, numParams - 1, handle))
                ELSE Panic
          [] OTHER ->
                IF n.nType = "param" /\ path[1] = "/" /\ Len(n.children) = 1
                THEN WithChild(n, 1, walk([n.children[1] EXCEPT !.priority = @ + 1],
                                          path, numParams, handle))
                ELSE IF path[1] \in Range(n.indices)
                THEN WithChild(Prio.node, Prio.pos,
                               walk(Prio.node.children[Prio.pos], path, numParams, handle))
                ELSE IF path[1] \in Wild
                THEN insertChild(n, numParams, path, handle)
                ELSE WithChild(Grown.node, Grown.pos,
                               insertChild(Grown.node.children[Grown.pos], numParams, path, handle))

addRoute(root, path, handle) ==
    LET n == [root EXCEPT !.priority = @ + 1]
        new == insertChild(n, countParams(path), path, handle)
    IN  IF n.path # <<>> \/ n.children # <<>>
        THEN walk(n, path, countParams(path), handle)
        ELSE IF new = Panic THEN Panic ELSE [new EXCEPT !.nType = "root"]

\* What a lookup is worth: the handler, the values bound to the wildcards,
\* and whether one of them did not fit into the preallocated slice.
Found(handle, p) == [handle |-> handle, params |-> p, overrun |-> FALSE]
NotFound == Found(Nil, <<>>)
Overrun == [NotFound EXCEPT !.overrun = TRUE]

RECURSIVE getValue(_, _, _, _)
getValue(n, path, p, capacity) ==
    LET rest == From(path, Len(n.path) + 1)
        w == n.children[1]
        room == IF p = <<>> THEN w.maxParams ELSE capacity
        end == Min({j \in DOMAIN rest : rest[j] = "/"} \cup {Len(rest) + 1})
        Bound(name, value) == Append(p, [key |-> name, value |-> value])
    IN  IF path = n.path THEN Found(n.handle, p)
        ELSE IF Len(path) <= Len(n.path) \/ ~IsPrefix(n.path, path) THEN NotFound
        ELSE IF ~n.wildChild
        THEN IF rest[1] \notin Range(n.indices) THEN NotFound
             ELSE getValue(n.children[CHOOSE j \in DOMAIN n.indices : n.indices[j] = rest[1]],
                           rest, p, capacity)
        ELSE IF Len(p) + 1 > room THEN Overrun
        ELSE IF w.nType = "catchAll" THEN Found(w.handle, Bound(From(w.path, 3), rest))
        ELSE LET q == Bound(Tail(w.path), SubSeq(rest, 1, end - 1))
             IN  IF end > Len(rest) THEN Found(w.handle, q)
                 ELSE IF w.children = <<>> THEN NotFound
                 ELSE getValue(w.children[1], From(rest, end), q, room)

-----------------------------------------------------------------------------
(* The table *)

\* router.Get: the tree of "*" answers only for a method that has no tree.
Get(trees, method, path) ==
    LET key == IF method \in DOMAIN trees THEN method ELSE "*"
    IN  IF key \in DOMAIN trees THEN getValue(trees[key], path, <<>>, 0) ELSE NotFound

\* Routers.GetHandleFunc
GetHandleFunc(method, host, path) ==
    LET Hit(g) == glob(g, host) /\ Get(routers[g], method, path).handle # Nil
        at == SelectInSeq(globList, Hit)
    IN  IF at = 0 THEN NotFound ELSE Get(routers[globList[at]], method, path)

Init ==
    /\ routers = <<>> /\ globList = <<>> /\ registered = <<>> /\ panicked = FALSE
    /\ SSLInit

Handle == Len(registered) + 1
MaySet == ~panicked /\ Len(registered) + Len(sslRegistered) < MaxSets

\* Routers.Set: a pattern the tree refuses panics before the glob is listed.
Set(method, host, path) ==
    LET trees == IF host \in DOMAIN routers THEN routers[host] ELSE <<>>
        root == IF method \in DOMAIN trees THEN trees[method] ELSE Node
        added == IF Head(path) # "/" THEN Panic ELSE addRoute(root, path, Handle)
    IN  /\ MaySet
        /\ \/ /\ added = Panic
              /\ panicked' = TRUE
              /\ UNCHANGED <<routers, globList, registered>>
           \/ /\ added # Panic
              /\ routers' = (host :> ((method :> added) @@ trees)) @@ routers
              /\ globList' = Append(globList, host)
              /\ registered' = Append(registered, [method |-> method, host |-> host, path |-> path])
              /\ UNCHANGED panicked
        /\ UNCHANGED sslVars

Next ==
    \/ \E r \in Routes : Set(r[1], r[2], r[3])
    \/ /\ MaySet
       /\ SSLNext
       /\ UNCHANGED <<routers, globList, registered, panicked>>

Spec == Init /\ [][Next]_vars

-----------------------------------------------------------------------------
(* Reference definitions *)

\* The bindings under which the path s matches the pattern g: at most one, and
\* none when text follows a catch-all.  addRoute accepts such a pattern below an
\* equal catch-all that is already there, and no request reaches its handler.
RECURSIVE Bindings(_, _)
Bindings(g, s) ==
    LET end(t) == Min({j \in DOMAIN t : t[j] = "/"} \cup {Len(t) + 1})
        Value(k, v) == [key |-> k, value |-> v]
        key == SubSeq(g, 2, end(g) - 1)
    IN  IF g = <<>> THEN {p \in {<<>>} : s = <<>>}
        ELSE IF s = <<>> THEN {}
        ELSE IF g[1] = ":"
        THEN {<<Value(key, SubSeq(s, 1, end(s) - 1))>> \o p :
                  p \in Bindings(From(g, end(g)), From(s, end(s)))}
        ELSE IF Len(g) > 1 /\ g[2] = "*"
        THEN {p \in {<<Value(From(g, 3), s)>>} : s[1] = "/" /\ "/" \notin Range(From(g, 3))}
        ELSE IF g[1] = s[1] THEN Bindings(Tail(g), Tail(s)) ELSE {}

\* The registrations a request of the method to the host and path may reach.
Applicable(method, host, path) ==
    {i \in DOMAIN registered :
        LET r == registered[i]
            Own == \E j \in DOMAIN registered :
                      registered[j].host = r.host /\ registered[j].method = method
        IN  /\ GlobMatches(r.host, host)
            /\ r.method = IF Own THEN method ELSE "*"
            /\ Bindings(r.path, path) # {}}

\* The registration i comes before j: its glob was listed first.
Listed(i) == SelectInSeq(registered, LAMBDA r : r.host = registered[i].host)

-----------------------------------------------------------------------------
(* Properties *)

\* Whatever was registered and in whatever order, a lookup finds the one
\* pattern that matches, of the matching glob that was listed first, and binds
\* its wildcards to the right text (Routers.GetHandleFunc over the trees that
\* addRoute splits, grows and reorders).
LookupExact ==
    \A method \in Methods, host \in Hosts, path \in Paths :
        LET found == GetHandleFunc(method, host, path)
            can == Applicable(method, host, path)
            best == {i \in can : \A j \in can : Listed(i) <= Listed(j)}
        IN  IF best = {} THEN found.handle = Nil
            ELSE best = {found.handle} /\ found.params \in Bindings(registered[found.handle].path, path)

\* No lookup expands the slice of parameters beyond the capacity maxParams gave
\* it at the first wildcard (p[:i+1] in getValue would panic in a request).
ParamsFit ==
    \A g \in DOMAIN routers : \A method \in DOMAIN routers[g], path \in Paths :
        ~getValue(routers[g][method], path, <<>>, 0).overrun
=============================================================================
