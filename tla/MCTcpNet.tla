------------------------------ MODULE MCTcpNet ------------------------------
\* TcpNet for TLC.
EXTENDS TcpNet

CONSTANTS r1, r2, p1, header, body, header2, error, error2

MCBufLen == [b \in Buffers |-> IF b = body THEN 3 ELSE 1]

Admin == <<"Authorization", <<"Basic", " ", "admin:admin">>>>

ListPage == <<"/list", ".", "htm">>
MCHttpFiles == <<ListPage, <<"/list", ".">>>>   \* the URI of the first starts with both

Escape(x, y) ==
    CASE <<x, y>> = <<"2", "e">> -> "."
      [] <<x, y>> = <<"2", "5">> -> "%"
      [] OTHER -> "?"

\* Requests in one segment, one cut in an escape, one whose final line feed comes
\* alone, and one whose URI is another when it is decoded again.
MCAsked ==
    LET whole(m, uri, headers, status) ==
            [method |-> m, uri |-> uri, headers |-> headers, cut |-> 0,
             status |-> status, again |-> status]
        digest == <<"Authorization", <<"Digest", " ", "GET">>>>
        seen   == <<"If-None-Match", ListPage>>
        name   == <<"/name?name=", "x">>
    IN  [page   |-> whole("GET", ListPage, <<Admin>>, 200),
         cached |-> whole("GET", ListPage, <<digest, seen>>, 304),
         split  |-> [whole("GET", <<"/list", "%", "2", "e", "htm">>, <<Admin>>, 200)
                        EXCEPT !.cut = 5],
         lone   |-> [whole("HEAD", name, <<Admin>>, 302) EXCEPT !.cut = 17],
         other  |-> whole("POST", <<"/commit">>, <<Admin>>, 501),
         nobody |-> whole("GET", <<"/">>, <<>>, 401),
         empty  |-> whole("GET", <<>>, <<Admin>>, 500),
         twice  |-> [whole("GET", <<"/list", "%", "2", "5", "2", "e", "htm">>, <<Admin>>, 404)
                        EXCEPT !.again = 200]]

\* A page is a header and a body, other answers only have a header; no request
\* should be answered with anything else.
MCContent(p, k, status) ==
    CASE p \in {"page", "split"} /\ k = 1 /\ status = 200 ->
            <<header2, body>>
      [] p \in {"cached", "lone"} /\ status \in {302, 304} ->
            <<IF k = 1 THEN header ELSE header2>>
      [] OTHER -> <<IF k = 1 THEN error ELSE error2>>

SplitRequest == [r \in Remotes |-> {"split"}]
AnyCut       == [r \in Remotes |-> {"split", "lone"}]
TwoClients   == [r \in Remotes |-> IF r = r1 THEN {"cached"} ELSE {"page"}]

\* What the network does not lose, run by run.
Nothing(dir, s) == FALSE

\* The SYN-ACK and the FIN of the router, each sent only once.
SentOnce(dir, s) == dir = "toClient" /\ s.flags \cap {"SYN", "FIN"} # {}

\* The acknowledgement of the router's FIN, which comes last.
AckOfFin(dir, s) ==
    /\ dir = "toServer" /\ s.flags = {"ACK"} /\ s.len = 0
    /\ s.ack = (InitSeq + 2 + Len(Response(s.remote))) % SeqSpace

\* What ends a connection only if it arrives.
NeverRepeated(dir, s) == SentOnce(dir, s) \/ AckOfFin(dir, s)

\* Everything but what the client acknowledges.
AllButAcks(dir, s) == ~(dir = "toServer" /\ s.len = 0 /\ s.flags = {"ACK"})
=============================================================================
