----------------------------- MODULE HttpRequest -----------------------------
(***************************************************************************)
(* evpphttp: HttpRequest (include/eventpp/evpphttp/http_request.hpp) fed   *)
(* by the parser, Service (src/evpphttp/service.cpp) that makes one per    *)
(* request and answers it, HttpResponse (src/evpphttp/http_response.cpp).  *)
(*                                                                         *)
(* The bytes of a stream arrive in pieces whose ends the peer and the      *)
(* network choose.  `use' says who reads them:                             *)
(*   "request"   an HttpRequest whose Parse is called for every piece;     *)
(*   "recorder"  http_parser_execute itself, for responses, with callbacks *)
(*               that record like HttpRequest's and never pause;           *)
(*   "service"   Service::OnMessage, called by TCPConn for every piece.    *)
(* Byte is one iteration of the parser's loop, EndPiece the return of the  *)
(* call at the end of the piece.                                           *)
(***************************************************************************)
EXTENDS HttpUrl

CONSTANTS Inputs,          \* the streams read: [use, type, headersComplete, context, bytes, key]
          Paths            \* the paths Service::RegisterHandler was called with

\* Texts the response looks for, scaled: the header names, and what #key makes of the two
\* arguments of is_connection_xx: `keep - alive' has blanks that the header value has not.
ConnectionField == <<"k">>
CloseText == <<"k">>
KeepAliveText == <<"e", "SP", "e">>
ExpectField == <<"e">>

VARIABLES in,          \* the stream
          pos,         \* bytes of it consumed
          inCall,      \* http_parser_execute: "no", "entered" before its first byte, "yes"
          r,           \* the HttpRequest being filled
          replies,     \* what HttpResponse has sent
          conn,        \* TCPConn: "connected", or "closing" after Close
          context,     \* conn->context(): "none", "user" (set by the application), "request"
          thrown,      \* std::any_cast has thrown bad_any_cast
          whole,       \* history: the same bytes, parsed in one call
          bareCR,      \* history: a CR in a header value was not followed by LF
          announced,   \* history: body bytes announced by lengths and chunk sizes
          torn,        \* history: a piece has ended inside a request
          requests     \* history: the requests the stream has completed
vars == <<in, pos, inCall, r, replies, conn, context, thrown, whole, bareCR, announced, torn, requests>>
history == <<whole, bareCR, announced, torn, requests>>

-----------------------------------------------------------------------------
(* HttpRequest: its constructor and its callbacks.                         *)

NewRequest(type) ==
  [parser |-> http_parser_init(type), url |-> <<>>, field |-> <<>>, value |-> <<>>,
   field_value |-> <<>>, body |-> <<>>, pre_state |-> "none", is_completed |-> FALSE,
   send_continue |-> FALSE, u |-> [set |-> {}]]

\* map::operator[] on a function from names to values (<<>> is the empty one)
Store(map, key, value) == [k \in DOMAIN map \cup {key} |-> IF k = key THEN value ELSE map[k]]

OnMessageEnd(q) ==
  [q EXCEPT !.is_completed = TRUE,
            !.parser.http_errno = IF in.use = "recorder" THEN @ ELSE "PAUSED"]

OnUrl(q, data) == [q EXCEPT !.url = @ \o data]

\* 51 is s_header_field
OnField(q, data, state) ==
  [q EXCEPT !.field = IF q.pre_state = "s_header_field" THEN @ \o data ELSE data, !.pre_state = state]

\* 53 is s_header_value, 55 s_header_almost_done
OnValue(q, data, state) ==
  LET v == IF q.pre_state = "s_header_value" THEN q.value \o data ELSE data
      z == [q EXCEPT !.value = v, !.pre_state = state]
  IN  IF state # "s_header_almost_done" THEN z
      ELSE [z EXCEPT !.field_value = Store(@, q.field, v), !.field = <<>>, !.value = <<>>]

OnBody(q, data) == [q EXCEPT !.body = @ \o data]

OnHeaderComplete(q) == [q EXCEPT !.u = http_parser_parse_url(q.url, TRUE)]

url_path(q) == IF "PATH" \in q.u.set THEN Text(q.url, q.u.field["PATH"]) ELSE <<>>

OnCallback(q, cb) ==
  CASE cb.on = "url"              -> OnUrl(q, cb.data)
    [] cb.on = "header_field"     -> OnField(q, cb.data, cb.state)
    [] cb.on = "header_value"     -> OnValue(q, cb.data, cb.state)
    [] cb.on = "body"             -> OnBody(q, cb.data)
    [] cb.on = "headers_complete" -> OnHeaderComplete(q)
    [] cb.on = "message_complete" -> OnMessageEnd(q)
    [] OTHER                      -> q

\* q with the parser p, after the callbacks p has made, in their order.
Callbacks(q, p) ==
  LET After[n \in 0..Len(p.cbs)] ==
        IF n = 0 THEN [q EXCEPT !.parser = p] ELSE OnCallback(After[n - 1], p.cbs[n])
  IN  [After[Len(p.cbs)] EXCEPT !.parser.cbs = <<>>]

TakeByte(q, ch) == Callbacks(q, Execute(q.parser, ch, in.headersComplete))

\* The call returns at the end of its bytes; at the next one the marks are set again.
TakeEnd(q, overflow) ==
  LET e == Callbacks(q, EndOfData(q.parser, overflow))
  IN  IF e.parser.http_errno = "OK" THEN [e EXCEPT !.parser = NextCall(@)] ELSE e

Failed(q) == q.parser.http_errno \notin {"OK", "PAUSED"}

\* The call returns before the end of the bytes: an error, a pause, or another protocol.
Returned(q) == q.parser.http_errno # "OK" \/ q.is_completed

-----------------------------------------------------------------------------
(* HttpResponse                                                            *)

Close(q) ==
  ConnectionField \in DOMAIN q.field_value /\ LowerText(q.field_value[ConnectionField]) = CloseText
KeepAlive(q) ==
  ConnectionField \in DOMAIN q.field_value /\ LowerText(q.field_value[ConnectionField]) = KeepAliveText

\* Mutant: the connection of an HTTP/1.0 reply is not marked to be closed.
MakeHttpResponseOpen(q, code, chunked) ==
  LET v11 == q.parser.http_major > 9 \/ q.parser.http_minor > 9
      major == IF v11 THEN 1 ELSE q.parser.http_major
      minor == IF v11 THEN 1 ELSE q.parser.http_minor
      close == code = 400 \/ Close(q) \/ (major = 1 /\ minor = 0 /\ ~KeepAlive(q))
  IN  [code |-> code, major |-> major, close |-> code = 400 \/ Close(q), path |-> url_path(q),
       framing |-> CASE code = 400 \/ major # 1 -> "none"
                     [] code # 400 /\ major = 1 /\ chunked -> "chunked"
                     [] OTHER -> IF close THEN "none" ELSE "length"]

\* MakeHttpResponse: how the reply to q tells its length, and whether the connection is closed.
\* Before the version is read http_major and http_minor are what the memory held; any 400 closes.
MakeHttpResponse(q, code, chunked) ==
  LET v11 == q.parser.http_major > 9 \/ q.parser.http_minor > 9
      major == IF v11 THEN 1 ELSE q.parser.http_major
      minor == IF v11 THEN 1 ELSE q.parser.http_minor
      close == code = 400 \/ Close(q) \/ (major = 1 /\ minor = 0 /\ ~KeepAlive(q))
  IN  [code |-> code, major |-> major, close |-> close, path |-> url_path(q),
       framing |-> CASE code = 400 \/ major # 1 -> "none"
                     [] code # 400 /\ major = 1 /\ chunked -> "chunked"
                     [] OTHER -> IF close THEN "none" ELSE "length"]

\* SendReply and SendContinue: nothing is sent on a connection that is not connected.
SendReply(q, code, chunked) ==
  LET reply == MakeHttpResponse(q, code, chunked)
  IN  IF conn # "connected" THEN UNCHANGED <<replies, conn>>
      ELSE /\ replies' = Append(replies, IF code = 100 THEN [code |-> 100] ELSE reply)
           /\ conn' = IF code # 100 /\ reply.close THEN "closing" ELSE conn

-----------------------------------------------------------------------------
Init ==
  /\ in \in Inputs
  /\ pos = 0 /\ inCall = "no"
  /\ r = NewRequest(in.type)
  /\ replies = <<>> /\ conn = "connected" /\ context = in.context /\ thrown = FALSE
  /\ whole = NewRequest(in.type) /\ bareCR = FALSE /\ announced = 0 /\ torn = FALSE /\ requests = <<>>

\* Bytes are there to be read, and the reader reads them.
More ==
  /\ in.use \in {"request", "recorder", "service"}
  /\ pos < Len(in.bytes) /\ ~thrown /\ ~Returned(r)
  /\ conn = "connected" \/ inCall # "no"

\* What the byte announces: a length when the headers are done, a chunk's size when it is read.
Announces(q, n) ==
  IF \/ q.parser.state # n.parser.state /\ n.parser.state = "s_body_identity"
     \/ q.parser.state # n.parser.state /\ n.parser.state = "s_chunk_data"
  THEN n.parser.content_length ELSE 0

\* Service::OnMessage is entered.  Without a context it casts what is not there.
OnMessage ==
  /\ in.use = "service" /\ inCall = "no" /\ More
  /\ thrown' = (context = "none")
  /\ inCall' = IF thrown' THEN "no" ELSE "entered"
  /\ r' = NewRequest("REQUEST")
  /\ UNCHANGED <<in, pos, replies, conn, context, history>>

\* One iteration of the loop of http_parser_execute.
Byte ==
  /\ More
  /\ in.use = "service" => inCall # "no"
  /\ LET ch == in.bytes[pos + 1]
         w == TakeByte(IF whole.is_completed THEN NewRequest(in.type) ELSE whole, ch)
     IN  /\ r' = TakeByte(r, ch)
         /\ whole' = w
         /\ bareCR' = (bareCR \/ (whole.parser.state = "s_header_almost_done" /\ ch # "LF"))
         /\ announced' = announced + Announces(r, r')
         /\ requests' = IF w.is_completed THEN Append(requests, url_path(w)) ELSE requests
  /\ pos' = pos + 1
  /\ inCall' = "yes"
  /\ UNCHANGED <<in, replies, conn, context, thrown, torn>>

\* The piece ends: the call returns at the end of its bytes.  Service keeps the incomplete
\* request in the context, and says 100 if it asks to be told to go on: evutil_ascii_strcasecmp
\* compares the field's name, which is never "100-continue".
EndPiece ==
  /\ inCall = "yes" /\ ~Returned(r)
  /\ \E overflow \in BOOLEAN :
       /\ overflow => ParsingHeader(r.parser)
       /\ r' = TakeEnd(r, overflow)
  /\ inCall' = IF Failed(r') THEN inCall ELSE "no"
  /\ torn' = TRUE
  /\ IF in.use = "service" /\ ~Failed(r')
     THEN /\ context' = "request"
          /\ IF ExpectField \in DOMAIN r'.field_value /\ ~r'.send_continue
             THEN SendReply(r', 100, FALSE) ELSE UNCHANGED <<replies, conn>>
     ELSE UNCHANGED <<context, replies, conn>>
  /\ UNCHANGED <<in, pos, thrown, whole, bareCR, announced, requests>>

\* Parse has failed: Service answers 400 and closes.
BadRequest ==
  /\ in.use = "service" /\ inCall = "yes" /\ Failed(r)
  /\ SendReply(r, 400, FALSE)
  /\ inCall' = "no"
  /\ UNCHANGED <<in, pos, r, context, thrown, history>>

\* Mutant: the HttpRequest is declared outside the loop and used again.
DispatchReuse ==
  /\ in.use = "service" /\ inCall = "yes" /\ r.is_completed
  /\ \E chunked \in BOOLEAN :
       IF url_path(r) \in Paths THEN SendReply(r, 200, chunked) ELSE SendReply(r, 404, FALSE) /\ ~chunked
  /\ \E more \in BOOLEAN :
       /\ more => pos < Len(in.bytes)
       /\ inCall' = IF more THEN "entered" ELSE "no"
  /\ r' = [r EXCEPT !.is_completed = FALSE, !.parser = http_parser_init("REQUEST")]
  /\ UNCHANGED <<in, pos, context, thrown, history>>

\* Parse has completed the request: its callback is called, here with an answer at once, and the
\* loop goes on with the bytes left, if the piece has more.
Dispatch ==
  /\ in.use = "service" /\ inCall = "yes" /\ r.is_completed
  /\ \E chunked \in BOOLEAN :
       IF url_path(r) \in Paths THEN SendReply(r, 200, chunked) ELSE SendReply(r, 404, FALSE) /\ ~chunked
  /\ \E more \in BOOLEAN :
       /\ more => pos < Len(in.bytes)
       /\ inCall' = IF more THEN "entered" ELSE "no"
  /\ r' = NewRequest("REQUEST")
  /\ UNCHANGED <<in, pos, context, thrown, history>>

\* The stream ends: the recorder calls http_parser_execute with no bytes.
EndOfInput ==
  /\ in.use = "recorder" /\ pos = Len(in.bytes) /\ inCall = "no" /\ ~Returned(r)
  /\ r' = Callbacks(r, EndOfStream(r.parser))
  /\ whole' = Callbacks(TakeEnd(whole, FALSE), EndOfStream(TakeEnd(whole, FALSE).parser))
  /\ UNCHANGED <<in, pos, inCall, replies, conn, context, thrown, bareCR, announced, torn, requests>>

Next == OnMessage \/ Byte \/ EndPiece \/ BadRequest \/ Dispatch \/ EndOfInput

Spec == Init /\ [][Next]_vars

-----------------------------------------------------------------------------
(* What is checked.                                                        *)

\* A connection whose application leaves the context alone gets its first message read, as the
\* test before the change of type said: `if (!conn->context().IsEmpty())'.
FirstMessageServed == ~thrown

\* What an HttpRequest holds, and what the parser goes on with, does not depend on where the
\* stream was cut into pieces: after every call it is what one call with all the bytes so far
\* would have left, and a stream is refused or not alike (http_parser_execute's marks, OnField's
\* and OnValue's pre_state).  A header
\* value with a CR that is no line end is excepted: the bytes after it are delivered only if a
\* piece ends among them; so is a header found too long, which is only looked at when a piece ends.
SplitIndependent ==
  (/\ in.use \in {"request", "recorder"} /\ pos > 0
   /\ inCall = "no" \/ Returned(r)
   /\ ~bareCR /\ r.parser.http_errno # "HEADER_OVERFLOW")
    => IF Failed(r) THEN r.parser.http_errno = whole.parser.http_errno
       ELSE r = IF Returned(whole) THEN whole ELSE TakeEnd(whole, FALSE)

\* The asserts of http_parser_execute hold for every stream: no callback in an error state, at
\* most one mark, a body state only with bytes to come, chunk states only when chunked; and
\* content_length never passes the largest value, the checks before *= 10 and *= 16 suffice.
ParserAssertsHold == r.parser.asserts /\ r.parser.content_length \in -1..INT64_MAX

\* A completed message has exactly the body bytes its Content-Length or its chunk sizes announced.
BodyAsAnnounced ==
  (in.use = "request" /\ r.is_completed) => Len(r.body) = announced

\* Service::OnMessage's loop answers pipelined requests one by one in their order, while no piece
\* ends inside a request and the connection is open.
PipelinedAnswered ==
  (in.use = "service" /\ ~torn /\ inCall = "no" /\ ~thrown)
    => /\ \A i \in 1..Len(replies) :
            IF i <= Len(requests) THEN replies[i].path = requests[i] ELSE replies[i].code = 400
       /\ conn = "connected" => Len(replies) = Len(requests)

\* A reply to an HTTP/1.x request that leaves the connection open tells where it ends
\* (MakeHttpResponse: Content-Length or chunked).
OpenReplyFramed ==
  \A i \in 1..Len(replies) :
    (replies[i].code # 100 /\ replies[i].major = 1 /\ ~replies[i].close) => replies[i].framing # "none"

FieldOrder == <<"SCHEMA", "USERINFO", "HOST", "PORT", "PATH", "QUERY", "FRAGMENT">>
FieldBytes(f) == f.off + 1 .. f.off + f.len

Accounted(buf, u) ==
  u.ok =>
    /\ \A f \in u.set : u.field[f].len > 0 /\ FieldBytes(u.field[f]) \subseteq 1..Len(buf)
    /\ \A i, j \in 1..7 : (i < j /\ {FieldOrder[i], FieldOrder[j]} \subseteq u.set)
         => u.field[FieldOrder[i]].off + u.field[FieldOrder[i]].len <= u.field[FieldOrder[j]].off
    /\ \A i \in 1..Len(buf) : (\A f \in u.set : i \notin FieldBytes(u.field[f]))
         => buf[i] \in {":", "/", "@", "?", "#", "[", "]"}

\* http_parser_parse_url accounts for every byte of a URL it accepts: the fields it sets are not
\* empty, lie in order, do not overlap, and what lies between them is delimiters.
UrlAccounted ==
  in.use = "url" => \A connect \in BOOLEAN : Accounted(in.bytes, http_parser_parse_url(in.bytes, connect))

SameParts(url, u, o) ==
  LET text(f) == IF f \in u.set THEN Text(url, u.field[f]) ELSE <<>>
  IN  (u.ok /\ "SCHEMA" \in u.set)
        => /\ o.host = LowerText(text("HOST")) /\ o.schema = LowerText(text("SCHEMA"))
           /\ o.path = text("PATH") /\ o.query = text("QUERY")
           /\ o.port = IF "PORT" \in u.set THEN u.port ELSE 80

\* The repository's two URL parsers agree on the URLs both are made for: URLParser finds the
\* host, port, path and query that http_parser_parse_url finds, when there is a schema, and no
\* userinfo, IPv6 address or fragment.
UrlParsersAgree ==
  (in.use = "url" /\ \A i \in 1..Len(in.bytes) : in.bytes[i] \notin {"@", "[", "#"})
    => SameParts(in.bytes, http_parser_parse_url(in.bytes, FALSE), URLParser(in.bytes))

\* The items of the query string that start with the text t: where each starts and ends.
QueryItems(uri, t) ==
  {<<i + 1, FindFrom(uri, i + 1, {"&"}) - 1>> :
     i \in {i \in FindFrom(uri, 1, {"?"})..Len(uri) :
              /\ i = FindFrom(uri, 1, {"?"}) \/ uri[i] = "&"
              /\ i + Len(t) <= Len(uri) /\ SubSeq(uri, i + 1, i + Len(t)) = t}}

FirstOf(uri, named, n, found) ==
  IF named = {} THEN found = <<>>
  ELSE \E q \in named : (\A o \in named : q[1] <= o[1]) /\ found = SubSeq(uri, q[1] + n, q[2])

\* FindQueryFromURI returns the value of the first item of the query whose name is the key.
FirstQueryFound ==
  in.use = "query" =>
    FirstOf(in.bytes, QueryItems(in.bytes, in.key \o <<"=">>), Len(in.key) + 1, FindQueryFromURI(in.bytes, in.key))
=============================================================================
