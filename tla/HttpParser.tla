----------------------------- MODULE HttpParser -----------------------------
(***************************************************************************)
(* http_parser_execute (src/evpphttp/http_parser.cpp) as a function of one *)
(* byte: Execute(s, ch) is what one iteration of its loop does to the      *)
(* parser s, EndOfData(s) what happens when the bytes of a call run out.   *)
(* A `goto reexecute_byte' is the application of the next state's operator *)
(* to the same byte.                                                       *)
(*                                                                         *)
(* A byte is a member of Chars, one representative per class the code      *)
(* tells apart.  The keywords and methods are scaled to two or three       *)
(* letters; header_state and index work on them as on the long ones.  The  *)
(* fast-forward loops over header bytes (MOVE_THE_HEAD, MOVE_FAST) and     *)
(* over body bytes do what their byte-by-byte form does.                   *)
(*                                                                         *)
(* mark and text stand for the one mark that is set and the bytes from it  *)
(* to p.  cbs lists the callbacks this iteration has made, each with its   *)
(* bytes and with parser->state as the callback sees it.                   *)
(***************************************************************************)
EXTENDS Integers, Sequences, FiniteSets

CONSTANT INT64_MAX     \* the largest content_length, scaled down

ASSUME MaxAssumption == INT64_MAX \in Nat /\ INT64_MAX >= 20

-----------------------------------------------------------------------------
(* Character classes.                                                      *)

Num == {"0", "1", "2", "4", "5", "9"}
Upper == {"C", "E", "G", "H", "K", "N", "O", "P", "T", "U"}
Lower == {"c", "e", "k", "l", "p", "t", "u", "x"}
Alpha == Upper \cup Lower
AlphaNum == Alpha \cup Num
Chars == AlphaNum \cup {"CR", "LF", "SP", "TAB", ":", "/", "*", ".", "?", "#", "[", "]", "@", ";",
                        "=", "&", "QT", "BS", "CTL"}

LOWER(ch) == CASE ch = "C" -> "c" [] ch = "E" -> "e" [] ch = "T" -> "t"
               [] ch = "U" -> "u" [] ch = "K" -> "k" [] ch = "P" -> "p" [] OTHER -> ch
Digit(ch) == CASE ch = "0" -> 0 [] ch = "1" -> 1 [] ch = "2" -> 2
               [] ch = "4" -> 4 [] ch = "5" -> 5 [] OTHER -> 9
IsHex(ch) == ch \in Num \cup {"C", "E", "c", "e"}
Unhex(ch) == IF ch \in Num THEN Digit(ch) ELSE IF LOWER(ch) = "c" THEN 12 ELSE 14
IsToken(ch) == ch \in AlphaNum \cup {"*", ".", "#", "&"}
IsUrlChar(ch) == ch \notin {"SP", "CR", "LF", "?", "#", "CTL"}
IsUserinfoChar(ch) == ch \in AlphaNum \cup {".", "*", ":", ";", "=", "&"}
IsHostChar(ch) == ch \in AlphaNum \cup {"."}
IsHeaderChar(ch) == ch # "CTL"

Keyword == [content_length    |-> <<"c", "l">>,  transfer_encoding |-> <<"t", "e">>,
            upgrade           |-> <<"u", "p">>,  chunked           |-> <<"c", "k">>]

method_strings == [GET  |-> <<"G", "E">>,      HEAD |-> <<"H", "E", "K">>,
                   POST |-> <<"P", "O">>,      PUT  |-> <<"P", "U">>,
                   CONNECT |-> <<"C", "O", "N">>, COPY |-> <<"C", "O", "P">>,
                   CHECKOUT |-> <<"C", "H", "K">>]

\* The method a first letter is taken for, and the ones that share a prefix with it:
\* <<method so far, index, byte, method it turns out to be>>.
FirstMethod == [C |-> "CONNECT", G |-> "GET", H |-> "HEAD", P |-> "POST"]
MethodBranch == {<<"CONNECT", 1, "H", "CHECKOUT">>, <<"CONNECT", 2, "P", "COPY">>,
                 <<"POST", 1, "U", "PUT">>}

-----------------------------------------------------------------------------
(* The parser record, its callbacks and its errors.                        *)

NewMessage(type) == CASE type = "REQUEST" -> "s_pre_start_req" [] OTHER -> "s_pre_start_res"

http_parser_init(t) ==
  [type |-> t,
   state |-> IF t = "BOTH" THEN "s_pre_start_req_or_res" ELSE NewMessage(t),
   header_state |-> "h_general", index |-> 0, content_length |-> -1, flags |-> {},
   method |-> "none", http_major |-> 0, http_minor |-> 0, status_code |-> 0, upgrade |-> FALSE,
   http_errno |-> "OK", mark |-> "none", text |-> <<>>, cbs |-> <<>>, asserts |-> TRUE]

To(s, state) == [s EXCEPT !.state = state]
Fail(s, e) == [s EXCEPT !.http_errno = e, !.mark = "none", !.text = <<>>]
Check(s, cond) == [s EXCEPT !.asserts = @ /\ cond]

\* MARK: non-destructive if the mark is already set; at most one kind may be set.
Mark(s, kind) == Check([s EXCEPT !.mark = IF @ = "none" THEN kind ELSE @], s.mark \in {"none", kind})

\* The byte stays between the mark and p.
Keep(s, ch) == IF s.mark = "none" THEN s ELSE [s EXCEPT !.text = Append(@, ch)]

Call(s, on, data) ==
  Check([s EXCEPT !.cbs = Append(@, [on |-> on, data |-> data, state |-> s.state])],
         s.http_errno = "OK")
Notify(s, on) == Call(s, on, <<>>)
Data(s, kind) ==
  IF s.mark # kind THEN s
  ELSE [Call(s, kind, s.text) EXCEPT !.mark = "none", !.text = <<>>]
Space(s) == Call(s, "header_value", <<"SP">>)

Complete(s) == Notify(To(s, NewMessage(s.type)), "message_complete")

-----------------------------------------------------------------------------
(* The start line.                                                         *)

StartReq(s, ch) ==
  LET z == [s EXCEPT !.flags = {}, !.content_length = -1]
  IN  IF ch \notin DOMAIN FirstMethod THEN Fail(z, "INVALID_METHOD")
      ELSE [To(z, "s_req_method") EXCEPT !.method = FirstMethod[ch], !.index = 1]

StartRes(s, ch) ==
  LET z == [s EXCEPT !.flags = {}, !.content_length = -1]
  IN  IF ch = "H" THEN To(z, "s_res_H") ELSE Fail(z, "INVALID_CONSTANT")

StartReqOrRes(s, ch) ==
  IF ch = "H" THEN To([s EXCEPT !.flags = {}, !.content_length = -1], "s_res_or_resp_H")
  ELSE StartReq([s EXCEPT !.type = "REQUEST"], ch)

ResOrRespH(s, ch) ==
  CASE ch = "T" -> [To(s, "s_res_HT") EXCEPT !.type = "RESPONSE"]
    [] ch = "E" -> [To(s, "s_req_method") EXCEPT !.type = "REQUEST", !.method = "HEAD", !.index = 2]
    [] OTHER    -> Fail(s, "INVALID_CONSTANT")

PreStart(s, ch) ==
  IF ch \in {"CR", "LF"} THEN s
  ELSE CASE s.state = "s_pre_start_req" -> StartReq(Notify(To(s, "s_start_req"), "message_begin"), ch)
         [] s.state = "s_pre_start_res" -> StartRes(Notify(To(s, "s_start_res"), "message_begin"), ch)
         [] OTHER -> StartReqOrRes(Notify(To(s, "s_start_req_or_res"), "message_begin"), ch)

ReqMethod(s, ch) ==
  LET matcher == method_strings[s.method]
      turn == {b \in MethodBranch : b[1] = s.method /\ b[2] = s.index /\ b[3] = ch}
      next == [s EXCEPT !.index = @ + 1]
  IN  CASE ch = "SP" /\ s.index = Len(matcher) -> To(next, "s_req_spaces_before_url")
        [] s.index < Len(matcher) /\ ch = matcher[s.index + 1] -> next
        [] OTHER -> IF turn # {} THEN [next EXCEPT !.method = (CHOOSE b \in turn : TRUE)[4]]
                    ELSE Fail(s, IF s.method = "CONNECT" \/ (s.method = "POST" /\ s.index = 1)
                                 THEN "UNKNOWN" ELSE "INVALID_METHOD")

HostStart(s, ch) ==
  CASE ch = "["        -> To(s, "s_req_host_ipv6")
    [] ch \in AlphaNum -> To(s, "s_req_host")
    [] OTHER           -> Fail(s, "INVALID_HOST")

SpacesBeforeUrl(s, ch) ==
  CASE ch = "SP"             -> s
    [] s.method = "CONNECT" /\ ch # "SP" -> HostStart(Mark(To(s, "s_req_host_start"), "url"), ch)
    [] s.method # "CONNECT" /\ ch \in {"/", "*"} -> Mark(To(s, "s_req_path"), "url")
    [] s.method # "CONNECT" /\ ch \in Alpha -> Mark(To(s, "s_req_schema"), "url")
    [] OTHER -> Fail(s, "INVALID_URL")

Schema(s, ch) ==
  CASE ch \in Alpha -> s
    [] ch = ":"     -> To(s, "s_req_schema_slash")
    [] OTHER        -> Fail(s, "INVALID_URL")

UrlToVersion(s) == Data(To(s, "s_req_http_start"), "url")

\* After the host, and after the port: a port only after the host.
HostDone(s, ch) ==
  CASE ch = ":" /\ s.state = "s_req_host_done" -> To(s, "s_req_port")
    [] ch = "/"  -> To(s, "s_req_path")
    [] ch = "SP" -> UrlToVersion(s)
    [] ch = "?"  -> To(s, "s_req_query_string_start")
    [] OTHER     -> Fail(s, IF s.state = "s_req_port" THEN "INVALID_PORT" ELSE "INVALID_HOST")

Host(s, ch) == IF IsHostChar(ch) THEN s ELSE HostDone(To(s, "s_req_host_done"), ch)

HostIpv6(s, ch) ==
  CASE IsHex(ch) \/ ch = ":" -> s
    [] ch = "]"  -> To(s, "s_req_host_done")
    [] OTHER     -> Fail(s, "INVALID_HOST")

Port(s, ch) == IF ch \in Num THEN s ELSE HostDone(s, ch)

\* The five states from the path to the end of the URL: where a URL character, a '?' and a '#'
\* lead from each, and the error of each.
UrlTail ==
  [s_req_path               |-> <<"s_req_path", "s_req_query_string_start", "s_req_fragment_start", "INVALID_PATH">>,
   s_req_query_string_start |-> <<"s_req_query_string", "s_req_query_string_start", "s_req_fragment_start", "INVALID_QUERY_STRING">>,
   s_req_query_string       |-> <<"s_req_query_string", "s_req_query_string", "s_req_fragment_start", "INVALID_QUERY_STRING">>,
   s_req_fragment_start     |-> <<"s_req_fragment", "s_req_fragment", "s_req_fragment_start", "INVALID_FRAGMENT">>,
   s_req_fragment           |-> <<"s_req_fragment", "s_req_fragment", "s_req_fragment", "INVALID_FRAGMENT">>]

PathToFragment(s, ch) ==
  LET row == UrlTail[s.state]
      v09 == [s EXCEPT !.http_major = 0, !.http_minor = 9]
  IN  CASE IsUrlChar(ch) -> To(s, row[1])
        [] ch = "?"  -> To(s, row[2])
        [] ch = "#"  -> To(s, row[3])
        [] ch = "SP" -> UrlToVersion(s)
        [] ch = "CR" -> Data(To(v09, "s_req_line_almost_done"), "url")
        [] ch = "LF" -> Data(To(v09, "s_header_field_start"), "url")
        [] OTHER     -> Fail(s, row[4])

HttpStart(s, ch) ==
  CASE ch = "H"  -> To(s, "s_req_http_H")
    [] ch = "SP" -> s
    [] OTHER     -> Fail(s, "INVALID_CONSTANT")

\* STRICT_CHECK is empty in this build: any byte is taken for the letters of HTTP/ and for the
\* line feed of a status line.
AnyByte ==
  [s_req_schema_slash |-> "s_req_schema_slash_slash", s_req_schema_slash_slash |-> "s_req_host_start",
   s_req_http_H |-> "s_req_http_HT", s_req_http_HT |-> "s_req_http_HTT", s_req_http_HTT |-> "s_req_http_HTTP",
   s_req_http_HTTP |-> "s_req_first_http_major",
   s_res_H |-> "s_res_HT", s_res_HT |-> "s_res_HTT", s_res_HTT |-> "s_res_HTTP",
   s_res_HTTP |-> "s_res_first_http_major", s_res_line_almost_done |-> "s_header_field_start"]

FirstMajor(s, ch, next) ==
  IF ch \in Num THEN [To(s, next) EXCEPT !.http_major = Digit(ch)] ELSE Fail(s, "INVALID_VERSION")
FirstMinor(s, ch, next) ==
  IF ch \in Num THEN [To(s, next) EXCEPT !.http_minor = Digit(ch)] ELSE Fail(s, "INVALID_VERSION")

Major(s, ch, next) ==
  LET v == 10 * s.http_major + Digit(ch)
  IN  CASE ch = "." -> To(s, next)
        [] ch \in Num /\ v <= 999 -> [s EXCEPT !.http_major = v]
        [] OTHER    -> Fail(s, "INVALID_VERSION")

MinorDigit(s, ch) ==
  LET v == 10 * s.http_minor + Digit(ch)
  IN  IF ch \in Num /\ v <= 999 THEN [s EXCEPT !.http_minor = v] ELSE Fail(s, "INVALID_VERSION")

ReqMinor(s, ch) ==
  CASE ch = "CR" -> To(s, "s_req_line_almost_done")
    [] ch = "LF" -> To(s, "s_header_field_start")
    [] OTHER     -> MinorDigit(s, ch)

ReqLineAlmostDone(s, ch) ==
  IF ch = "LF" THEN To(s, "s_header_field_start") ELSE Fail(s, "LF_EXPECTED")

ResMinor(s, ch) == IF ch = "SP" THEN To(s, "s_res_first_status_code") ELSE MinorDigit(s, ch)

FirstStatusCode(s, ch) ==
  CASE ch \in Num -> [To(s, "s_res_status_code") EXCEPT !.status_code = Digit(ch)]
    [] ch = "SP"  -> s
    [] OTHER      -> Fail(s, "INVALID_STATUS")

StatusCode(s, ch) ==
  LET v == 10 * s.status_code + Digit(ch)
  IN  CASE ch = "SP" -> To(s, "s_res_status")
        [] ch = "CR" -> To(s, "s_res_line_almost_done")
        [] ch = "LF" -> To(s, "s_header_field_start")
        [] ch \in Num /\ v <= 999 -> [s EXCEPT !.status_code = v]
        [] OTHER     -> Fail(s, "INVALID_STATUS")

Status(s, ch) ==
  LET m == Mark(s, "reason")
  IN  CASE ch = "CR" -> Data(To(m, "s_res_line_almost_done"), "reason")
        [] ch = "LF" -> Data(To(m, "s_header_field_start"), "reason")
        [] OTHER     -> m

-----------------------------------------------------------------------------
(* The end of the headers and of the message.                              *)

MessageDone(s) == Complete(s)

\* The body that follows, decided when the headers are complete.
HeadersDone(s) ==
  LET chunked == "CHUNKED" \in s.flags
      skip    == "SKIPBODY" \in s.flags
      hasBody == chunked \/ s.content_length > 0
      bodiless == s.type = "REQUEST" \/ s.status_code \in 100..199 \cup {204, 304}
  IN  CASE skip \/ (s.upgrade /\ (s.method = "CONNECT" \/ ~hasBody)) -> Complete(s)
        [] OTHER -> CASE chunked -> To(s, "s_chunk_size_start")
                      [] ~chunked /\ s.content_length > 0 -> To(s, "s_body_identity")
                      [] ~hasBody /\ (s.content_length = 0 \/ bodiless) -> Complete(s)
                      [] OTHER -> To(s, "s_body_identity_eof")

\* headersComplete: what the on_headers_complete callback returns, 0 or 1 (no body follows).
HeadersAlmostDone(s, ch, headersComplete) ==
  LET up == [To(s, "s_headers_done")
              EXCEPT !.upgrade = "UPGRADE" \in s.flags \/ s.method = "CONNECT"]
      told == [Notify(up, "headers_complete")
                EXCEPT !.flags = IF headersComplete = 1 THEN @ \cup {"SKIPBODY"} ELSE @]
  IN  CASE ch # "LF" -> Fail(s, "STRICT")
        [] ch = "LF" /\ "TRAILING" \in s.flags -> MessageDone(Notify(To(s, "s_message_done"), "chunk_complete"))
        [] OTHER -> HeadersDone(told)

-----------------------------------------------------------------------------
(* Header lines.                                                           *)

HeaderFieldStart(s, ch, headersComplete) ==
  CASE ch = "CR" -> To(s, "s_headers_almost_done")
    [] ch = "LF" -> HeadersAlmostDone(To(s, "s_headers_almost_done"), ch, headersComplete)
    [] ch \notin {"CR", "LF"} /\ ~IsToken(ch) -> Fail(s, "INVALID_HEADER_TOKEN")
    [] OTHER ->
         LET c == LOWER(ch)
         IN  [Mark(To(s, "s_header_field"), "header_field")
                EXCEPT !.index = 0,
                       !.header_state = CASE c = "c" -> "h_matching_content_length"
                                          [] c = "t" -> "h_matching_transfer_encoding"
                                          [] c = "u" -> "h_matching_upgrade"
                                          [] OTHER   -> "h_general"]

\* One more letter of a keyword being matched: on to `matched' at its last letter.
Matching(s, ch, keyword, matched) ==
  LET i == s.index + 1
  IN  [s EXCEPT !.index = i,
                !.header_state = CASE i >= Len(keyword) -> "h_general"
                                   [] i < Len(keyword) /\ LOWER(ch) # keyword[i + 1] -> "h_general"
                                   [] i = Len(keyword) - 1 /\ LOWER(ch) = keyword[i + 1] -> matched
                                   [] OTHER -> @]

HeaderField(s, ch) ==
  CASE IsToken(ch) ->
         (CASE s.header_state = "h_general" -> s
            [] s.header_state = "h_matching_content_length" ->
                 Matching(s, ch, Keyword.content_length, "h_content_length")
            [] s.header_state = "h_matching_transfer_encoding" ->
                 Matching(s, ch, Keyword.transfer_encoding, "h_transfer_encoding")
            [] s.header_state = "h_matching_upgrade" -> Matching(s, ch, Keyword.upgrade, "h_upgrade")
            [] s.header_state \in {"h_content_length", "h_transfer_encoding", "h_upgrade"} ->
                 [s EXCEPT !.header_state = "h_general"]
            [] OTHER -> Check(s, FALSE))
    [] ch = ":" -> Data(To(s, "s_header_value_start"), "header_field")
    [] OTHER    -> Fail(s, "INVALID_HEADER_TOKEN")

EmptyValueError(s) ==
  CASE s.header_state = "h_content_length"    -> "INVALID_CONTENT_LENGTH"
    [] s.header_state = "h_transfer_encoding" -> "INVALID_TRANSFER_ENCODING"
    [] s.header_state = "h_upgrade"           -> "INVALID_UPGRADE"
    [] OTHER -> "OK"

HeaderValueStart(s, ch) ==
  LET m == [Mark(To(s, "s_header_value"), "header_value") EXCEPT !.index = 0]
      h == s.header_state
  IN  CASE ch \in {"SP", "TAB"} -> s
        [] ch \in {"CR", "LF"} /\ EmptyValueError(s) # "OK" -> Fail(s, EmptyValueError(s))
        [] ch = "CR" /\ EmptyValueError(s) = "OK" ->
             Data([To(m, "s_header_almost_done") EXCEPT !.header_state = "h_general"], "header_value")
        [] ch = "LF" /\ EmptyValueError(s) = "OK" -> Data(To(m, "s_header_field_start"), "header_value")
        [] OTHER ->
             CASE h = "h_upgrade" -> [m EXCEPT !.flags = @ \cup {"UPGRADE"}, !.header_state = "h_general"]
               [] h = "h_transfer_encoding" ->
                    [m EXCEPT !.header_state = IF LOWER(ch) = "c" THEN "h_matching_transfer_encoding_chunked"
                                               ELSE "h_general"]
               [] h = "h_content_length" /\ ch \in Num -> [m EXCEPT !.content_length = Digit(ch)]
               [] h = "h_content_length" /\ ch \notin Num -> Fail(s, "INVALID_CONTENT_LENGTH")
               [] OTHER -> [m EXCEPT !.header_state = IF ch = "QT" THEN "h_general_and_quote" ELSE "h_general"]

HeaderAlmostDone(s, ch) ==
  LET f == [s EXCEPT !.flags = IF s.header_state = "h_transfer_encoding_chunked" THEN @ \cup {"CHUNKED"} ELSE @]
  IN  IF ch = "LF" THEN To(f, "s_header_value_lws") ELSE Space(To(f, "s_header_value"))

ContentLengthDigit(s, ch) ==
  CASE ch = "SP" -> s
    [] ch \in Num /\ s.content_length <= (INT64_MAX - 10) \div 10 ->
         [s EXCEPT !.content_length = 10 * @ + Digit(ch)]
    [] ch \in Num /\ s.content_length > (INT64_MAX - 10) \div 10 -> Fail(s, "HUGE_CONTENT_LENGTH")
    [] OTHER -> Fail(s, "INVALID_CONTENT_LENGTH")

HeaderValue(s, ch) ==
  LET h == s.header_state
      escaped == h = "h_general_and_quote_and_escape"
      now(x) == [s EXCEPT !.header_state = x]
  IN  CASE ch = "CR" /\ ~escaped -> Data(To(s, "s_header_almost_done"), "header_value")
        [] ch = "LF" /\ ~escaped ->
             HeaderAlmostDone(Data(To(s, "s_header_almost_done"), "header_value"), ch)
        [] ~IsHeaderChar(ch) /\ ~escaped -> Fail(s, "INVALID_HEADER_TOKEN")
        [] OTHER ->
             CASE h = "h_general" -> IF ch = "QT" THEN now("h_general_and_quote") ELSE s
               [] h = "h_general_and_quote" ->
                    (CASE ch = "QT" -> now("h_general")
                       [] ch = "BS" -> now("h_general_and_quote_and_escape")
                       [] OTHER     -> s)
               [] escaped -> now("h_general_and_quote")
               [] h = "h_transfer_encoding" -> Fail(s, "INVALID_HEADER_TOKEN")
               [] h = "h_content_length" -> ContentLengthDigit(s, ch)
               [] h = "h_matching_transfer_encoding_chunked" ->
                    Matching(s, ch, Keyword.chunked, "h_transfer_encoding_chunked")
               [] h = "h_transfer_encoding_chunked" -> IF ch = "SP" THEN s ELSE now("h_general")
               [] OTHER -> now("h_general")

HeaderValueLws(s, ch, headersComplete) ==
  IF ch \in {"SP", "TAB"} THEN Space(To(s, "s_header_value_start"))
  ELSE HeaderFieldStart(To(s, "s_header_field_start"), ch, headersComplete)

-----------------------------------------------------------------------------
(* The body.                                                               *)

\* Mutant: the body callback without its one extra byte.
BodyIdentityNoExtraByte(s, ch) ==
  LET b == Mark([Check(s, s.content_length > 0) EXCEPT !.content_length = @ - 1], "body")
  IN  IF b.content_length = 0 THEN MessageDone(Data(To(b, "s_message_done"), "body")) ELSE b

BodyIdentity(s, ch) ==
  LET b == Mark([Check(s, s.content_length > 0) EXCEPT !.content_length = @ - 1], "body")
  IN  IF b.content_length = 0 THEN MessageDone(Data(Keep(To(b, "s_message_done"), ch), "body")) ELSE b

ChunkSizeStart(s, ch) ==
  IF IsHex(ch) THEN [To(s, "s_chunk_size") EXCEPT !.content_length = Unhex(ch)]
  ELSE Fail(s, "INVALID_CHUNK_SIZE")

ChunkSize(s, ch) ==
  CASE ch = "CR" -> To(s, "s_chunk_size_almost_done")
    [] ch \in {";", "SP"} -> To(s, "s_chunk_parameters")
    [] IsHex(ch) /\ s.content_length <= (INT64_MAX - Unhex(ch)) \div 16 ->
         [s EXCEPT !.content_length = 16 * @ + Unhex(ch)]
    [] IsHex(ch) /\ s.content_length > (INT64_MAX - Unhex(ch)) \div 16 -> Fail(s, "HUGE_CHUNK_SIZE")
    [] OTHER -> Fail(s, "INVALID_CHUNK_SIZE")

ChunkParameters(s, ch) == IF ch = "CR" THEN To(s, "s_chunk_size_almost_done") ELSE s

ChunkSizeAlmostDone(s) ==
  IF s.content_length = 0
  THEN Notify(To([s EXCEPT !.flags = @ \cup {"TRAILING"}], "s_header_field_start"), "chunk_header")
  ELSE Notify(To(s, "s_chunk_data"), "chunk_header")

ChunkData(s) ==
  LET b == Mark([Check(s, s.content_length > 0) EXCEPT !.content_length = @ - 1], "body")
  IN  IF b.content_length = 0 THEN To(b, "s_chunk_data_almost_done") ELSE b

ChunkDataAlmostDone(s) == Data(To(Check(s, s.content_length = 0), "s_chunk_data_done"), "body")

ChunkDataDone(s) == Notify(To(s, "s_chunk_size_start"), "chunk_complete")

-----------------------------------------------------------------------------
(* One byte, and the end of the bytes.                                     *)

ChunkStates == {"s_chunk_size_start", "s_chunk_size", "s_chunk_parameters", "s_chunk_size_almost_done",
                "s_chunk_data", "s_chunk_data_almost_done", "s_chunk_data_done"}

StartLineByte(s, ch) ==
  CASE s.state \in {"s_pre_start_req", "s_pre_start_res", "s_pre_start_req_or_res"} -> PreStart(s, ch)
    [] s.state = "s_res_or_resp_H"         -> ResOrRespH(s, ch)
    [] s.state = "s_req_method"            -> ReqMethod(s, ch)
    [] s.state = "s_req_spaces_before_url" -> SpacesBeforeUrl(s, ch)
    [] s.state = "s_req_schema"            -> Schema(s, ch)
    [] s.state = "s_req_host_start"        -> HostStart(s, ch)
    [] s.state = "s_req_host"              -> Host(s, ch)
    [] s.state = "s_req_host_ipv6"         -> HostIpv6(s, ch)
    [] s.state = "s_req_host_done"         -> HostDone(s, ch)
    [] s.state = "s_req_port"              -> Port(s, ch)
    [] s.state \in DOMAIN UrlTail          -> PathToFragment(s, ch)
    [] s.state = "s_req_http_start"        -> HttpStart(s, ch)
    [] s.state \in DOMAIN AnyByte          -> To(s, AnyByte[s.state])
    [] s.state = "s_req_first_http_major"  -> FirstMajor(s, ch, "s_req_http_major")
    [] s.state = "s_res_first_http_major"  -> FirstMajor(s, ch, "s_res_http_major")
    [] s.state = "s_req_http_major"        -> Major(s, ch, "s_req_first_http_minor")
    [] s.state = "s_res_http_major"        -> Major(s, ch, "s_res_first_http_minor")
    [] s.state = "s_req_first_http_minor"  -> FirstMinor(s, ch, "s_req_http_minor")
    [] s.state = "s_res_first_http_minor"  -> FirstMinor(s, ch, "s_res_http_minor")
    [] s.state = "s_req_http_minor"        -> ReqMinor(s, ch)
    [] s.state = "s_res_http_minor"        -> ResMinor(s, ch)
    [] s.state = "s_req_line_almost_done"  -> ReqLineAlmostDone(s, ch)
    [] s.state = "s_res_first_status_code" -> FirstStatusCode(s, ch)
    [] s.state = "s_res_status_code"       -> StatusCode(s, ch)
    [] OTHER                               -> Status(s, ch)

HeaderByte(s, ch, headersComplete) ==
  CASE s.state = "s_header_field_start"  -> HeaderFieldStart(s, ch, headersComplete)
    [] s.state = "s_header_field"        -> HeaderField(s, ch)
    [] s.state = "s_header_value_start"  -> HeaderValueStart(s, ch)
    [] s.state = "s_header_value"        -> HeaderValue(s, ch)
    [] s.state = "s_header_almost_done"  -> HeaderAlmostDone(s, ch)
    [] s.state = "s_header_value_lws"    -> HeaderValueLws(s, ch, headersComplete)
    [] OTHER                             -> HeadersAlmostDone(s, ch, headersComplete)

BodyByte(s, ch) ==
  CASE s.state = "s_body_identity"          -> BodyIdentity(s, ch)
    [] s.state = "s_body_identity_eof"      -> Mark(s, "body")
    [] s.state = "s_chunk_size_start"       -> ChunkSizeStart(s, ch)
    [] s.state = "s_chunk_size"             -> ChunkSize(s, ch)
    [] s.state = "s_chunk_parameters"       -> ChunkParameters(s, ch)
    [] s.state = "s_chunk_size_almost_done" -> ChunkSizeAlmostDone(s)
    [] s.state = "s_chunk_data"             -> ChunkData(s)
    [] s.state = "s_chunk_data_almost_done" -> ChunkDataAlmostDone(s)
    [] OTHER                                -> ChunkDataDone(s)

HeaderStates == {"s_header_field_start", "s_header_field", "s_header_value_start", "s_header_value",
                 "s_header_almost_done", "s_header_value_lws", "s_headers_almost_done"}
BodyStates == ChunkStates \cup {"s_body_identity", "s_body_identity_eof"}

\* One iteration of the loop.  The callbacks of the iteration are in cbs afterwards.
Execute(old, ch, headersComplete) ==
  LET s == Check([old EXCEPT !.cbs = <<>>], old.state \in ChunkStates => "CHUNKED" \in old.flags)
  IN  Keep(CASE s.state \in HeaderStates -> HeaderByte(s, ch, headersComplete)
             [] s.state \in BodyStates   -> BodyByte(s, ch)
             [] OTHER                    -> StartLineByte(s, ch),
           ch)

\* Whether the message's first line and headers, or a chunk's, are being read: PARSING_HEADER.
ParsingHeader(s) == s.state \notin {"s_body_identity", "s_body_identity_eof", "s_chunk_data",
                                    "s_chunk_data_almost_done", "s_chunk_data_done"}

\* Mutant: s_req_port is missing from the list.
MarkAtStartNoPort(state) ==
  CASE state = "s_header_field" -> "header_field"
    [] state = "s_header_value" -> "header_value"
    [] state \in DOMAIN UrlTail \cup {"s_req_schema", "s_req_schema_slash", "s_req_schema_slash_slash",
                 "s_req_host_start", "s_req_host", "s_req_host_ipv6", "s_req_host_done"} -> "url"
    [] state = "s_res_status" -> "reason"
    [] OTHER -> "none"

\* The marks a call sets again at its first byte.
MarkAtStart(state) ==
  CASE state = "s_header_field" -> "header_field"
    [] state = "s_header_value" -> "header_value"
    [] state \in DOMAIN UrlTail \cup {"s_req_schema", "s_req_schema_slash", "s_req_schema_slash_slash",
                 "s_req_port", "s_req_host_start", "s_req_host", "s_req_host_ipv6", "s_req_host_done"} -> "url"
    [] state = "s_res_status" -> "reason"
    [] OTHER -> "none"

\* The bytes of a call have run out: an overlong header is an error, a mark left over is
\* delivered.  Then the next call begins.  nread is abstracted: `overflow' says whether the
\* bytes counted since the message or chunk began exceed HTTP_MAX_HEADER_SIZE.
EndOfData(old, overflow) ==
  LET s == [old EXCEPT !.cbs = <<>>]
  IN  IF overflow /\ ParsingHeader(s) THEN Fail(s, "HEADER_OVERFLOW")
      ELSE IF s.mark = "none" THEN s ELSE Data(s, s.mark)

NextCall(s) == [s EXCEPT !.mark = MarkAtStart(s.state), !.cbs = <<>>]

\* A call with no bytes: the end of the stream.
EndOfStream(old) ==
  LET s == [old EXCEPT !.cbs = <<>>]
  IN  CASE s.state = "s_body_identity_eof" -> Notify(s, "message_complete")
        [] s.state \in {"s_pre_start_req", "s_pre_start_res", "s_pre_start_req_or_res"} -> s
        [] OTHER -> Fail(s, "INVALID_EOF_STATE")
=============================================================================
