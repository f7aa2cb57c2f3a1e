---------------------------- MODULE MCHttpRequest ----------------------------
(***************************************************************************)
(* The streams HttpRequest is checked on: well-formed requests and         *)
(* responses made of a line, headers and a body, each of a set of short    *)
(* ones with any one byte replaced, pipelined requests for Service, all    *)
(* short URLs and all short query strings.                                 *)
(***************************************************************************)
EXTENDS HttpRequest

CRLF == <<"CR", "LF">>
In(use, type, hc, ctx, bytes, key) ==
  [use |-> use, type |-> type, headersComplete |-> hc, context |-> ctx, bytes |-> bytes, key |-> key]

Version(minor) == <<"SP", "H", "T", "T", "P", "/", "1", ".", minor>>
Line(method, url, minor, eol) == method \o <<"SP">> \o url \o Version(minor) \o eol
Get(url) == Line(<<"G", "E">>, url, "1", CRLF)
Post == Line(<<"P", "O">>, <<"/">>, "1", CRLF)
Header(name, value, eol) == name \o <<":">> \o value \o eol
Length(n) == Header(<<"c", "l">>, <<"SP", n>>, CRLF)
Chunked == Header(<<"t", "e">>, <<"c", "k">>, CRLF)
X == Header(<<"x", "t">>, <<"SP", "x">>, CRLF)
Chunk == <<"2", "CR", "LF", "x", "x", "CR", "LF">>
LastChunk == <<"0", "CR", "LF">>

\* Request lines, each with an empty header.
Lines ==
  {Line(m, u, v, e) \o CRLF :
     m \in {<<"G", "E">>, <<"P", "U">>, <<"H", "E", "K">>, <<"C", "H", "K">>, <<"C", "O", "P">>},
     u \in {<<"/">>, <<"/", "x", "?", "x", "#", "x">>, <<"x", ":", "/", "/", "x", ":", "1", "/">>,
            <<"x", ":", "/", "/", "[", "c", "]", "?", "?">>},
     v \in {"0", "1"}, e \in {CRLF, <<"LF">>}}
  \cup {Line(<<"C", "O", "N">>, <<"x", ":", "1">>, "1", CRLF) \o CRLF,
        <<"G", "E", "SP", "/", "CR", "LF", "CR", "LF">>,
        <<"G", "E", "SP", "/", "?", "LF", "LF">>}

\* Header lines of every kind of value, alone and followed by another.
Values == {<<>>, <<"SP">>, <<"x">>, <<"SP", "x", "SP", "x">>, <<"x", "CR", "LF", "SP", "x">>, <<"x", "CR", "x", "x">>,
           <<"QT", "x", "QT">>, <<"QT", "BS", "CR", "x">>, <<"x", "QT", "BS", "CTL", "QT">>, <<"c", "k">>, <<"c", "k", "SP">>,
           <<"2">>, <<"0">>, <<"5", "5">>, <<"1", "0">>, <<"2", "SP", "5">>, <<"1", "CR", "LF", "SP", "2">>}
Names == {<<"x">>, <<"c", "l">>, <<"c", "l", "x">>, <<"t", "e">>, <<"u", "p">>, <<"T", "t">>}
Headers ==
  {Get(<<"/">>) \o Header(n, v, e) \o o \o CRLF \o <<"x", "x">> :
     n \in Names, v \in Values, e \in {CRLF, <<"LF">>}, o \in {<<>>, X}}

Bodies ==
  {Post \o h \o CRLF \o b :
     h \in {Length("2"), Length("1") \o Length("2"), Length("0"), Header(<<"u", "p">>, <<"x">>, CRLF) \o Length("2")},
     b \in {<<"x", "x">>, <<"x", "x", "x">>}}
  \cup {Post \o Chunked \o CRLF \o b :
          b \in {Chunk \o LastChunk \o CRLF, Chunk \o Chunk \o LastChunk \o X \o CRLF,
                 <<"1", "0", "CR", "LF">>, <<"1", ";", "x">> \o CRLF \o <<"x">> \o CRLF \o LastChunk \o <<"LF">>,
                 <<"c", "SP", "CR">>, LastChunk \o Length("2") \o CRLF, <<"2", "4">>, <<"5", "5", "5">>}}

\* Any one byte of a message is another one.
Damaged(messages) ==
  {[m EXCEPT ![i] = ch] : ch \in {"CR", "LF", "SP", ":", "/", "0", "9", "c", "CTL"}, <<m, i>> \in
     UNION {{<<m, i>> : i \in 1..Len(m)} : m \in messages}}

Sample == {Post \o Length("2") \o X \o CRLF \o <<"x", "x">>,
           Post \o Chunked \o CRLF \o Chunk \o LastChunk \o X \o CRLF}

StatusLine(code) == <<"H", "T", "T", "P", "/", "1", ".", "1", "SP">> \o code
Responses ==
  {StatusLine(c) \o s \o h \o CRLF \o <<"x", "x">> :
     c \in {<<"2", "0", "0">>, <<"2", "0", "4">>}, s \in {CRLF, <<"SP", "x", "x">> \o CRLF, <<"SP", "LF">>, <<"LF">>},
     h \in {<<>>, Length("2"), Chunked}}

RequestInputs == Lines \cup Headers \cup Bodies \cup Damaged(Sample)
ServiceRequests == {Get(<<"/", "x">>) \o CRLF, Get(<<"/">>) \o Header(<<"k">>, <<"k">>, CRLF) \o CRLF,
                    Post \o Length("2") \o Header(<<"e">>, <<"x">>, CRLF) \o CRLF \o <<"x", "x">>,
                    Line(<<"G", "E">>, <<"/", "x">>, "0", CRLF) \o Header(<<"k">>, <<"e", "e">>, CRLF) \o CRLF,
                    <<"x">>, <<"G", "E", "SP", "/", "x", "LF", "LF">>}
UrlChars == {"C", "1", "/", ":", "@", "?", "#", "[", "]"}
TextsUpTo(S, n) == UNION {[1..k -> S] : k \in 0..n}

MCInputs ==
       {In("request", "REQUEST", 0, "none", m, <<>>) : m \in RequestInputs}
  \cup {In("recorder", t, hc, "none", m, <<>>) : t \in {"RESPONSE", "BOTH"}, hc \in {0, 1}, m \in Responses}
  \cup {In("recorder", "BOTH", 0, "none", m, <<>>) : m \in {Get(<<"/">>) \o CRLF, Line(<<"H", "E", "K">>, <<"/">>, "1", CRLF) \o CRLF}}
  \cup {In("recorder", "RESPONSE", 0, "none", m, <<>>) :
          m \in {CRLF, StatusLine(<<"2", "0">>)} \cup Damaged({StatusLine(<<"2", "SP", "x">>) \o CRLF \o Length("2") \o CRLF})}
  \cup {In("service", "REQUEST", 0, "user", a \o b, <<>>) : a \in ServiceRequests, b \in ServiceRequests \cup {<<>>}}
  \cup {In("url", "REQUEST", 0, "none", p \o m, <<>>) :
          p \in {<<>>, <<"x", ":", "/", "/">>}, m \in TextsUpTo(UrlChars, 3)}
  \cup {In("query", "REQUEST", 0, "none", <<"/">> \o m, k) :
          k \in {<<"x">>, <<"x", "c">>}, m \in TextsUpTo({"x", "c", "=", "&", "?"}, 4)}

\* A request on a connection whose context nobody has set.
MCFreshInputs == {In("service", "REQUEST", 0, "none", m, <<>>) : m \in ServiceRequests}

MCPaths == {<<"/", "x">>}
=============================================================================
