----------------------------- MODULE MCExchange -----------------------------
EXTENDS Exchange

CRLF == <<"\r", "\n">>
Script(proxy, reply, header, body) ==
    [proxy |-> proxy, reply |-> reply, header |-> header \o CRLF \o CRLF, body |-> body,
     next |-> IF "identity" \in Range(header) THEN <<>> ELSE <<"1", "\n">>]

MCLengths == "length 2" :> 2 @@ "length 0" :> 0 @@ "1" :> 1 @@ "2" :> 2
MCHexDigits == "0" :> 0 @@ "1" :> 1 @@ "2" :> 2

Chunk(digits, data) == digits \o CRLF \o data \o CRLF
Chunks == Chunk(<<"0", "2">>, <<"x", "\r">>) \o Chunk(<<"1">>, <<"0">>) \o Chunk(<<"0">>, <<>>)

\* Messages: without a body, of each type, with both a length and an encoding in
\* either order, malformed size lines (too long, empty, no CR, no LF, the byte
\* 0xFF), and a header that the reader's buffer cannot hold.
Messages ==
    { Script("none", <<>>, h, b) :
        <<h, b>> \in { << <<"field">>, <<>> >>, << <<"length 0">>, <<>> >>,
                       << <<"length 2">>, <<"x", "y">> >>,
                       << <<"length 2", "\n", "chunked">>, Chunks >>,
                       << <<"chunked">> \o CRLF \o <<"length 2">>, Chunks >>,
                       << <<"identity">>, <<"x", "\r", "\n", "y">> >> } } \cup
    { Script("none", <<>>, <<"chunked">>, b) :
        b \in { Chunk(<<"0", "0", "1">>, <<"x">>), Chunk(<<>>, <<"x">>),
                <<"1", "x", "\n">>, <<"1", "\r", "x">>,
                Chunk(<<"0xFF">>, <<"x">>), Chunk(<<"1", "0xFF">>, <<"x">>) } } \cup
    { Script("none", <<>>, <<"field", "\r", "\n", "length 2", "\r", "\n", "field">>, <<"x", "y">>) }

Tunnels ==
    { <<"http", <<"200">> \o CRLF \o CRLF>>,
      <<"http", <<"200">> \o CRLF \o <<"field", "\n", "field">> \o CRLF \o CRLF>>,
      <<"http", <<"200">> \o CRLF \o [i \in 1 .. 8 |-> "field"] \o CRLF \o CRLF>>,
      <<"http", <<"407">> \o CRLF \o CRLF>> } \cup
    { <<"socks5", <<"5", "none", "5", "ok", "0">> \o a \o <<"port", "port">>>> :
        a \in { <<"ip4", "a", "a">>, <<"ip6", "a", "a", "a">>, <<"domain", "1", "a">> } } \cup
    { <<"socks5", <<"5", "password", "1", "ok", "5", "ok", "0", "domain", "2", "a", "b", "port", "port">>>>,
      <<"socks5", <<"5", "password", "1", "no">>>>,
      <<"socks5", <<"5", "no method">>>>, <<"socks5", <<"4", "none">>>>,
      <<"socks5", <<"5", "none", "5", "refused", "0", "ip4">>>>,
      <<"socks5", <<"5", "none", "5", "ok", "0", "unknown">>>> }

MCScripts ==
    Messages \cup { Script(t[1], t[2], <<"length 2">>, <<"x", "y">>) : t \in Tunnels }
=============================================================================
