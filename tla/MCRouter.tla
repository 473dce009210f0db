------------------------------ MODULE MCRouter ------------------------------
EXTENDS Router

\* Every way two patterns can meet in a tree: equal, prefix, branch, the same
\* or another wildcard, a wildcard against text, and the malformed ones.
MCPatterns ==
    { <<"/">>, <<"/", "a">>, <<"/", "a", "b">>, <<"/", "b">>, <<"/", "a", "/">>,
      <<"/", "a", "/", "b">>, <<"/", "b", "/", "a", "b">>,
      <<"/", ":", "a">>, <<"/", ":", "a", "b">>, <<"/", ":", "a", "/">>,
      <<"/", ":", "a", "/", "b">>, <<"/", ":", "a", "/", ":", "b">>,
      <<"/", ":", "a", "/", "b", ":", "a">>, <<"/", ":", "a", "/", "b", "/", "*", "a">>,
      <<"/", "a", ":", "b">>, <<"/", "a", "/", ":", "b">>, <<"/", "a", "/", "*", "b">>,
      <<"/", "*", "a">>, <<"a">>, <<"/", ":">>, <<"/", "a", "*", "b">>,
      <<"/", ":", "a", "*", "b">>, <<"/", "*", "a", "/", "b">> }

AnyHost == <<"*">>
MCRoutes ==
    { <<"GET", AnyHost, p>> : p \in MCPatterns } \cup
    { <<"*", AnyHost, <<"/", ":", "a">>>>, <<"GET", <<"a", "*">>, <<"/", "b">>>>,
      <<"*", <<"a", "*">>, <<"/", "a">>>> }

MCSSLGlobs == { AnyHost, <<"a">>, <<"b", "*">>, <<"*", "a", "*", "a">>, <<"a", "*", "b", "*", "b">> }

Upto(n, S) == UNION {[1 .. k -> S] : k \in 1 .. n}

\* All host names of at most four characters a and b; all paths of a "/" and at
\* most three characters a, b and "/", and longer ones for three wildcards.
MCSSLHosts == Upto(4, {"a", "b"})
MCHosts == {<<"a">>, <<"b">>}
MCPaths ==
    {<<"/">> \o p : p \in Upto(3, {"/", "a", "b"}) \cup {<<>>}} \cup
    { <<"/", "a", "/", "b", "/">>, <<"/", "a", "/", "b", "/", "a">>,
      <<"/", "b", "/", "b", "a">>, <<"/", "b", "/", "a", "b">>, <<"/", "/", "b", "/", "a">> }
=============================================================================
