------------------------------- MODULE HttpUrl -------------------------------
(***************************************************************************)
(* The pure text functions of the HTTP code: http_parser_parse_url and     *)
(* http_parse_host (src/evpphttp/http_parser.cpp), URLParser::parse        *)
(* (src/httpc/url_parser.cpp) and Context::FindQueryFromURI                *)
(* (src/http/context.cpp).  A text is a sequence of Chars; a field is an   *)
(* [off, len] pair, as in http_parser_url, with off counted from 0.        *)
(***************************************************************************)
EXTENDS HttpParser

CONSTANT PortMax     \* 0xffff, scaled down

ASSUME PortAssumption == PortMax \in Nat

NoField == [off |-> 0, len |-> 0]
Fields == {"SCHEMA", "HOST", "PORT", "PATH", "QUERY", "FRAGMENT", "USERINFO"}

\* std::string(buf, off, len)
Text(buf, f) == SubSeq(buf, f.off + 1, f.off + f.len)

\* The first position from `from' on whose byte is in `stop', Len(text) + 1 if there is none.
FindFrom(text, from, stop) ==
  LET at == {i \in from..Len(text) : text[i] \in stop}
  IN  IF at = {} THEN Len(text) + 1 ELSE CHOOSE i \in at : \A j \in at : i <= j

\* atoi and strtoul: the digits up to the first byte that is not one.
ToNumber(text) ==
  LET Value[n \in 0..Len(text)] == IF n = 0 THEN 0 ELSE 10 * Value[n - 1] + Digit(text[n])
  IN  Value[FindFrom(text, 1, Chars \ Num) - 1]

-----------------------------------------------------------------------------
(* http_parser_parse_url                                                   *)

parse_url_char(s, ch) ==
  CASE ch \in {"SP", "CR", "LF"} -> "s_dead"
    [] ch \notin {"SP", "CR", "LF"} /\ s = "s_req_spaces_before_url" ->
         (CASE ch \in {"/", "*"} -> "s_req_path" [] ch \in Alpha -> "s_req_schema" [] OTHER -> "s_dead")
    [] s = "s_req_schema" ->
         (CASE ch \in Alpha -> s [] ch = ":" -> "s_req_schema_slash" [] OTHER -> "s_dead")
    [] s = "s_req_schema_slash" -> (IF ch = "/" THEN "s_req_schema_slash_slash" ELSE "s_dead")
    [] s = "s_req_schema_slash_slash" -> (IF ch = "/" THEN "s_req_server_start" ELSE "s_dead")
    [] s \in {"s_req_server_start", "s_req_server", "s_req_server_with_at"} ->
         (CASE ch = "/" -> "s_req_path"
            [] ch = "?" -> "s_req_query_string_start"
            [] ch = "@" -> IF s = "s_req_server_with_at" THEN "s_dead" ELSE "s_req_server_with_at"
            [] IsUserinfoChar(ch) \/ ch \in {"[", "]"} -> "s_req_server"
            [] OTHER -> "s_dead")
    [] s \in DOMAIN UrlTail ->
         (CASE IsUrlChar(ch) -> UrlTail[s][1]
            [] ch = "?" -> IF s = "s_req_query_string_start" THEN "s_req_query_string" ELSE UrlTail[s][2]
            [] ch = "#" -> UrlTail[s][3]
            [] OTHER    -> "s_dead")
    [] OTHER -> "s_dead"

FieldOf == [s_req_schema |-> "SCHEMA", s_req_server |-> "HOST", s_req_server_with_at |-> "HOST",
            s_req_path |-> "PATH", s_req_query_string |-> "QUERY", s_req_fragment |-> "FRAGMENT"]

\* One byte of the loop of http_parser_parse_url: u is [s, uf, at, set, field].
UrlByte(u, p, ch) ==
  LET s == parse_url_char(u.s, ch)
      z == [u EXCEPT !.s = s, !.at = @ \/ s = "s_req_server_with_at"]
      uf == FieldOf[s]
  IN  IF u.s = "s_dead" \/ s \notin DOMAIN FieldOf THEN [u EXCEPT !.s = s]
      ELSE IF uf = u.uf THEN [z EXCEPT !.field[uf].len = @ + 1]
      ELSE [z EXCEPT !.uf = uf, !.set = @ \cup {uf}, !.field[uf] = [off |-> p, len |-> 1]]

http_parse_host_char(s, ch) ==
  CASE s \in {"userinfo", "userinfo_start"} ->
         (CASE ch = "@" -> "host_start" [] IsUserinfoChar(ch) -> "userinfo" [] OTHER -> "dead")
    [] s = "host_start" -> (CASE ch = "[" -> "v6_start" [] IsHostChar(ch) -> "host" [] OTHER -> "dead")
    [] s = "host" -> (CASE IsHostChar(ch) -> "host" [] ch = ":" -> "port_start" [] OTHER -> "dead")
    [] s = "v6_end" -> (IF ch = ":" THEN "port_start" ELSE "dead")
    [] s \in {"v6", "v6_start"} ->
         (CASE ch = "]" /\ s = "v6" -> "v6_end" [] IsHex(ch) \/ ch \in {":", "."} -> "v6" [] OTHER -> "dead")
    [] s \in {"port", "port_start"} -> (IF ch \in Num THEN "port" ELSE "dead")
    [] OTHER -> "dead"

HostFieldOf == [host |-> "HOST", v6 |-> "HOST", port |-> "PORT", userinfo |-> "USERINFO"]

HostByte(u, p, ch) ==
  LET s == http_parse_host_char(u.s, ch)
      z == [u EXCEPT !.s = s]
      f == HostFieldOf[s]
  IN  IF s \notin DOMAIN HostFieldOf THEN z
      ELSE [z EXCEPT !.set = IF f = "HOST" THEN @ ELSE @ \cup {f},
                     !.field[f] = IF s = u.s THEN [@ EXCEPT !.len = @ + 1]
                                  ELSE [off |-> p, len |-> IF f = "HOST" THEN @.len + 1 ELSE 1]]

HostEnd(u) ==
  [u EXCEPT !.ok = u.s \notin {"dead", "host_start", "v6_start", "v6", "port_start", "userinfo", "userinfo_start"}]

HostBytes(buf, range, start) ==
  LET Scan[n \in 0..range.len] ==
        IF n = 0 THEN start ELSE HostByte(Scan[n - 1], range.off + n - 1, buf[range.off + n])
  IN  Scan[range.len]

http_parse_host(buf, u) ==
  HostEnd(HostBytes(buf, u.field["HOST"],
                    [u EXCEPT !.s = IF u.at THEN "userinfo_start" ELSE "host_start", !.field["HOST"].len = 0]))

UrlBytes(buf, start) ==
  LET Scan[n \in 0..Len(buf)] == IF n = 0 THEN start ELSE UrlByte(Scan[n - 1], n - 1, buf[n])
  IN  Scan[Len(buf)]

\* host must be present if there is a schema
UrlHost(buf, u) ==
  CASE u.s = "s_dead" -> [u EXCEPT !.ok = FALSE]
    [] u.s # "s_dead" /\ u.set \cap {"SCHEMA", "HOST"} # {} -> http_parse_host(buf, u)
    [] OTHER -> u

UrlPort(u, port, is_connect) ==
  CASE ~u.ok \/ (is_connect /\ u.set # {"HOST", "PORT"}) -> [u EXCEPT !.ok = FALSE]
    [] OTHER -> IF "PORT" \notin u.set THEN u
                ELSE [u EXCEPT !.ok = port <= PortMax, !.port = IF port <= PortMax THEN port ELSE 0]

UrlEnd(buf, u, is_connect) ==
  UrlPort(u, IF "PORT" \in u.set THEN ToNumber(SubSeq(buf, u.field["PORT"].off + 1, Len(buf))) ELSE 0, is_connect)

\* The caller has zeroed u: with a schema and no host, the host's range is read although
\* nothing has set it.
http_parser_parse_url(buf, is_connect) ==
  UrlEnd(buf,
         UrlHost(buf, UrlBytes(buf,
           [s |-> IF is_connect THEN "s_req_server_start" ELSE "s_req_spaces_before_url", uf |-> "MAX",
            at |-> FALSE, ok |-> TRUE, set |-> {}, port |-> 0, field |-> [f \in Fields |-> NoField]])),
         is_connect)

-----------------------------------------------------------------------------
(* URLParser::parse                                                        *)

LowerText(text) == [i \in 1..Len(text) |-> LOWER(text[i])]

\* Mutant: a '?' right after the host does not end it.
URLParserHostToSlash(url) ==
  LET ends == {i \in 1..Len(url) - 2 : SubSeq(url, i, i + 2) = <<":", "/", "/">>}
      schemaEnd == IF ends = {} THEN 0 ELSE CHOOSE i \in ends : \A j \in ends : i <= j
      hostAt == IF ends = {} THEN 1 ELSE schemaEnd + 3
      hostEnd == FindFrom(url, hostAt, {":", "/", "#"})
      has(i, ch) == i <= Len(url) /\ url[i] = ch
      portAt == IF has(hostEnd, ":") THEN hostEnd + 1 ELSE hostEnd
      portEnd == IF portAt > hostEnd /\ portAt <= Len(url) THEN FindFrom(url, portAt, {":", "/", "?", "#"})
                 ELSE portAt
      pathEnd == IF has(portEnd, "/") THEN FindFrom(url, portEnd, {"?", "#"}) ELSE portEnd
  IN  [schema |-> LowerText(SubSeq(url, 1, schemaEnd - 1)),
       host   |-> LowerText(SubSeq(url, hostAt, hostEnd - 1)),
       port   |-> IF portAt > hostEnd /\ portAt <= Len(url) THEN ToNumber(SubSeq(url, portAt, Len(url))) ELSE 80,
       path   |-> SubSeq(url, portEnd, pathEnd - 1),
       query  |-> IF has(pathEnd, "?") THEN SubSeq(url, pathEnd + 1, Len(url)) ELSE <<>>]

URLParser(url) ==
  LET ends == {i \in 1..Len(url) - 2 : SubSeq(url, i, i + 2) = <<":", "/", "/">>}
      schemaEnd == IF ends = {} THEN 0 ELSE CHOOSE i \in ends : \A j \in ends : i <= j
      hostAt == IF ends = {} THEN 1 ELSE schemaEnd + 3
      hostEnd == FindFrom(url, hostAt, {":", "/", "?", "#"})
      has(i, ch) == i <= Len(url) /\ url[i] = ch
      portAt == IF has(hostEnd, ":") THEN hostEnd + 1 ELSE hostEnd
      portEnd == IF portAt > hostEnd /\ portAt <= Len(url) THEN FindFrom(url, portAt, {":", "/", "?", "#"})
                 ELSE portAt
      pathEnd == IF has(portEnd, "/") THEN FindFrom(url, portEnd, {"?", "#"}) ELSE portEnd
  IN  [schema |-> LowerText(SubSeq(url, 1, schemaEnd - 1)),
       host   |-> LowerText(SubSeq(url, hostAt, hostEnd - 1)),
       port   |-> IF portAt > hostEnd /\ portAt <= Len(url) THEN ToNumber(SubSeq(url, portAt, Len(url))) ELSE 80,
       path   |-> SubSeq(url, portEnd, pathEnd - 1),
       query  |-> IF has(pathEnd, "?") THEN SubSeq(url, pathEnd + 1, Len(url)) ELSE <<>>]

-----------------------------------------------------------------------------
(* Context::FindQueryFromURI.  The text ends with the NUL of a C string,   *)
(* here the end of the sequence.                                           *)

\* How many bytes of key stand at position p of uri.
Matched(uri, p, key) ==
  LET same == {n \in 0..Len(key) : p + n - 1 <= Len(uri) /\ SubSeq(uri, p, p + n - 1) = SubSeq(key, 1, n)}
  IN  CHOOSE n \in same : \A m \in same : m <= n

FindQueryFromURI(uri, key) ==
  LET start == FindFrom(uri, 1, {"?"})
      \* the loop from position p, for the positions from the end of the text down
      From[k \in 0..Len(uri)] ==
        LET p == Len(uri) + 1 - k
            index == Matched(uri, p, key)
            v == p + Len(key) + 1
            next == FindFrom(uri, p + index, {"&"}) + 1
        IN  IF k = 0 THEN <<>>
            ELSE IF index = Len(key) /\ v - 1 <= Len(uri) /\ uri[v - 1] = "="
            THEN SubSeq(uri, v, FindFrom(uri, v, {"&"}) - 1)
            ELSE IF next > Len(uri) THEN <<>> ELSE From[Len(uri) + 1 - next]
  IN  IF start >= Len(uri) THEN <<>> ELSE From[Len(uri) - start]
=============================================================================
