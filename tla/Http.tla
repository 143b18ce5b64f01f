-------------------------------- MODULE Http --------------------------------
(***************************************************************************)
(* The HTTP server (src/src/httpserv/httpserv.c): a request record per      *)
(* connection, filled by a parser that takes the request character by       *)
(* character, from however many segments, and the choice of the answer.     *)
(*                                                                          *)
(* Abstractions.  A run of ordinary characters is one token, as are a space *)
(* and a colon; an endpoint is one token.  The ETag of a file is its name.  *)
(* Base64 and MD5 do what they are for: of a Basic credential only whether  *)
(* it is "admin:admin" matters, of a Digest response the method it was      *)
(* computed for, by someone who knows the password.  Names and values fit   *)
(* their buffers.                                                           *)
(***************************************************************************)
EXTENDS Integers, Sequences

LOCAL INSTANCE SequencesExt

CONSTANTS
    HttpFiles,      \* the names of the files in the image, after a slash, in order
    Escaped(_, _)   \* the character that two hexadecimal digits stand for

\* The request record after memset.  sent is history: the answers so far.
NewRequest ==
    [state |-> "s_init", n |-> <<>>, v |-> <<>>, method |-> "none", uri |-> <<>>,
     digest |-> <<>>, has_authorization |-> FALSE, response |-> <<>>, sent |-> <<>>]

SendStatus(q, status) == [q EXCEPT !.sent = Append(@, status)]

----------------------------------------------------------------------------
\* The parser.

ph_method  == <<"ph", "method">>
ph_uri     == <<"ph", "uri">>
ph_version == <<"ph", "version">>

\* http_check_user.
CheckUser(value) == value = <<"Basic", " ", "admin:admin">>

\* httpserv_header_handler.
HeaderHandler(q, name, value) ==
    CASE name = ph_method /\ value \in {<<"GET">>, <<"HEAD">>} -> [q EXCEPT !.method = value[1]]
      [] name = ph_method /\ value \notin {<<"GET">>, <<"HEAD">>} ->
            SendStatus([q EXCEPT !.method = "other"], 501)
      [] name = ph_uri -> [q EXCEPT !.uri = value]
      [] name = <<"If-None-Match">> -> [q EXCEPT !.digest = value]
      [] name = <<"Authorization">> /\ value # <<>> /\ Head(value) = "Basic" ->
            [q EXCEPT !.has_authorization = @ \/ CheckUser(value)]
      [] name = <<"Authorization">> /\ value # <<>> /\ Head(value) = "Digest" ->
            [q EXCEPT !.response = value]
      [] OTHER -> q

\* The parts of the request line: what ends each, what follows, and what it is.
RequestLine ==
    LET method == [ends |-> " ", next |-> "s_uri", name |-> ph_method]
    IN  [s_init |-> method, s_method |-> method,
         s_uri |-> [ends |-> " ", next |-> "s_version", name |-> ph_uri],
         s_version |-> [ends |-> "CR", next |-> "s_name", name |-> ph_version]]

\* httpserv_parse2_ch.
ParseCh(q, ch) ==
    CASE q.state \in DOMAIN RequestLine ->
            LET part == RequestLine[q.state]
            IN  IF ch = part.ends
                THEN HeaderHandler([q EXCEPT !.state = part.next, !.n = <<>>], part.name, q.n)
                ELSE [q EXCEPT !.state = IF @ = "s_init" THEN "s_method" ELSE @,
                               !.n = Append(@, ch)]
      [] q.state = "s_name" ->
            (CASE ch = "LF" -> q
               [] ch = "CR" -> [q EXCEPT !.state = "s_done"]
               [] ch = ":"  -> [q EXCEPT !.state = "s_value", !.v = <<>>]
               [] OTHER     -> [q EXCEPT !.n = Append(@, ch)])
      [] q.state = "s_value" ->
            (CASE ch = " " /\ q.v = <<>> -> q
               [] ch = "CR" ->
                    HeaderHandler([q EXCEPT !.state = "s_name", !.n = <<>>], q.n, q.v)
               [] OTHER     -> [q EXCEPT !.v = Append(@, ch)])
      [] q.state = "s_done" -> q

----------------------------------------------------------------------------
\* The answers.

\* httpapp_dispatch_dynamic_request: the status of each endpoint's answer.
Pages == {"/query/usage", "/query/bindings", "/query/list", "/query/stats",
          "/query/billing", "/usage.csv"}
Redirecting == {"/", "/commit"}
WithArgument == {"/name?name=", "/merge?name=", "/period?day="}

DispatchStatus(uri) ==
    CASE uri \in {<<x>> : x \in Pages} -> 200
      [] uri \in {<<x>> : x \in Redirecting} \/ Head(uri) \in WithArgument -> 302
      [] OTHER -> 404

\* uri_decode: s counts the characters of an escape read so far.
UriDecode(src) ==
    LET Decode(d, c) ==
            CASE d.s = 0 /\ c = "%" -> [d EXCEPT !.s = 1]
              [] d.s = 0 /\ c # "%" -> [d EXCEPT !.dest = Append(@, IF c = "+" THEN " " ELSE c)]
              [] d.s = 1 -> [d EXCEPT !.s = 2, !.digit = c]
              [] d.s = 2 -> [d EXCEPT !.s = 0, !.dest = Append(@, Escaped(d.digit, c))]
    IN  FoldLeft(Decode, [s |-> 0, digit |-> "0", dest |-> <<>>], src).dest

\* fs_find_file: which is the first file whose name the URI starts with, if any.
FsFindFile(uri) ==
    LET Starts(name) == IsPrefix(name, uri)
    IN  SelectInSeq(HttpFiles, Starts)

\* http_process_auth: a response computed for HEAD is not the one expected.
ProcessAuth(q, method) ==
    [q EXCEPT !.has_authorization = @ \/ q.response = <<"Digest", " ", method>>]

\* httpserv_get_request, which decodes the URI in its place.
GetRequest(q) ==
    LET uri == UriDecode(q.uri)
        d   == ProcessAuth([q EXCEPT !.uri = uri], "GET")
        in  == d.has_authorization
    IN  CASE uri = <<>> -> SendStatus(q, 500)
          [] uri # <<>> /\ ~in -> SendStatus(d, 401)
          [] uri # <<>> /\ in /\ FsFindFile(uri) # 0 ->
                SendStatus(d, IF q.digest = HttpFiles[FsFindFile(uri)] THEN 304 ELSE 200)
          [] OTHER -> SendStatus(d, DispatchStatus(uri))

\* mutant: a segment is parsed as if it were the first
EvDataAfresh(q, segment) ==
    LET p == FoldLeft(ParseCh, [q EXCEPT !.state = "s_init", !.n = <<>>], segment)
    IN  IF p.state = "s_done" /\ p.method \in {"GET", "HEAD"} THEN GetRequest(p) ELSE p

\* httpserv_handler of ev_data.
EvData(q, segment) ==
    LET p == FoldLeft(ParseCh, q, segment)
    IN  IF p.state = "s_done" /\ p.method \in {"GET", "HEAD"} THEN GetRequest(p) ELSE p

\* The request record of a connection that brought the segments, in order.
RequestOf(segments) == FoldLeft(EvData, NewRequest, segments)
=============================================================================
