------------------------------- MODULE TcpNet -------------------------------
(***************************************************************************)
(* The TCP component of the router talking to clients over a network.       *)
(*                                                                          *)
(* The router is module Tcp, with the application the repository has: the   *)
(* HTTP server of module Http listens on one port, answers requests from    *)
(* within its ev_data callback and never calls tcp_close.  A client is an   *)
(* RFC 793 end point that opens one connection, sends one request, cut into *)
(* segments, reads the whole response and closes; it retransmits until it   *)
(* is acknowledged.  The network is a queue of segments in each direction   *)
(* per client; it may lose, duplicate or overtake segments, MaxFaults times *)
(* in all, but a segment of a queue for which Reliable holds is never lost. *)
(***************************************************************************)
EXTENDS Tcp, Http

CONSTANTS
    HttpPort,       \* the port the HTTP server listens on
    Plans,          \* Plans[r]: the requests client r may make
    Asked,          \* the requests: method, uri, headers, where each is cut into
                    \* segments, the status it should be answered with, and the
                    \* one it is answered with again
    Content(_, _, _),   \* the buffers of the k-th answer to a request
    HalfClose,      \* whether clients may close before they read the response
    Faults,         \* subset of {"lose", "duplicate", "delay", "clock"}
    MaxFaults,      \* bound on the number of faults
    MaxInFlight,    \* timers expire only while fewer segments are in flight
    Reliable(_, _)  \* which segments, in which queue, the network does not lose

ASSUME NetAssumption ==
    /\ HttpPort \in Ports
    /\ \A r \in Remotes : Plans[r] \subseteq DOMAIN Asked
    /\ Faults \subseteq {"lose", "duplicate", "delay", "clock"} /\ MaxFaults \in Nat
    /\ MaxInFlight \in Nat \ {0} /\ HalfClose \in BOOLEAN

VARIABLES
    client,     \* the clients' connection records
    toServer,   \* segments on their way to the router, per client
    toClient,   \* segments on their way to each client
    faults,     \* faults so far
    heard       \* per row: the request units its ev_data events carried

netVars == <<client, toServer, toClient, faults, heard>>
allVars == <<vars, netVars>>

----------------------------------------------------------------------------
\* The request, as the client writes it and cuts it: a unit of its stream is a
\* segment.

Written(a) ==
    LET line(k) == <<a.headers[k][1], ":", " ">> \o a.headers[k][2] \o <<"CR", "LF">>
        H[k \in 0..Len(a.headers)] == IF k = 0 THEN <<>> ELSE H[k - 1] \o line(k)
    IN  <<a.method, " ">> \o a.uri \o <<" ", "HTTP/1.1", "CR", "LF">>
            \o H[Len(a.headers)] \o <<"CR", "LF">>

\* The final line feed comes alone when the cut is before it.
LineFeedAlone(a) == a.cut = Len(Written(a)) - 1

Segments(a) ==
    IF a.cut = 0 THEN <<Written(a)>>
    ELSE <<SubSeq(Written(a), 1, a.cut), SubSeq(Written(a), a.cut + 1, Len(Written(a)))>>

\* The HTTP server's answer to each unit of each request.
Replies ==
    LET sent(p, n) == RequestOf(SubSeq(Segments(Asked[p]), 1, n)).sent
        reply(p, n) ==
            IF sent(p, n) = sent(p, n - 1) THEN <<>>
            ELSE Content(p, Len(sent(p, n)), sent(p, n)[Len(sent(p, n))])
    IN  [p \in DOMAIN Asked |-> [n \in DOMAIN Segments(Asked[p]) |-> reply(p, n)]]

\* The client.  Unit n of its stream has sequence number n, the SYN has 0 and
\* the FIN the number after the last unit.

Requests(r) == Len(Replies[client[r].plan])

\* The units of the response, in the order the server sends them.
Units(b) == [k \in 1..BufLen[b] |-> <<b, k - 1>>]

UnitsOf(ds) == IF Len(ds) = 1 THEN Units(ds[1]) ELSE Units(ds[1]) \o Units(ds[2])

\* What the client should read: the one answer to its request - which comes
\* twice when the final line feed comes alone, since data that arrives after
\* the request is over has it answered again (httpserv.c:483).
Expected ==
    [p \in DOMAIN Asked |->
        LET a == Asked[p]
            again == IF LineFeedAlone(a) THEN UnitsOf(Content(p, 2, a.again)) ELSE <<>>
        IN  UnitsOf(Content(p, 1, a.status)) \o again]

Response(r) == Expected[client[r].plan]

\* The units the server sends, if it is asked as it should be.
AllOf(ds) == IF Len(ds) = 0 THEN <<>> ELSE UnitsOf(ds)

Stream(p) ==
    IF Len(Replies[p]) = 1 THEN AllOf(Replies[p][1])
                           ELSE AllOf(Replies[p][1]) \o AllOf(Replies[p][2])

\* An answer is nothing, a header, or a header and a body; requests and responses
\* are short compared with the sequence space.
ASSUME AnswersAssumption ==
    \A p \in DOMAIN Asked : \A n \in DOMAIN Replies[p] :
        \/ Replies[p][n] \in {<<>>} \cup {<<b>> : b \in Buffers}
        \/ \E b, c \in Buffers : b # c /\ Replies[p][n] = <<b, c>>
ASSUME LengthAssumption ==
    \A p \in DOMAIN Asked : Len(Replies[p]) + 2 < SeqSpace /\ Len(Stream(p)) < SeqSpace

\* A buffer stands for one call of tcp_send: no two connections, and no two
\* answers on one connection, have a buffer in common.
ASSUME BuffersAssumption ==
    \A r, x \in Remotes : \A p \in Plans[r], q \in Plans[x] :
        \A n \in DOMAIN Replies[p], m \in DOMAIN Replies[q] :
            r # x \/ (p = q /\ n # m) => Elems(Replies[p][n]) \cap Elems(Replies[q][m]) = {}

NewClient(p) ==
    [plan |-> p, state |-> "IDLE", una |-> 0, nxt |-> 0, rcv |-> 0, got |-> <<>>]

FromClient(r, flags, seq, len) ==
    [remote |-> r, port |-> HttpPort, flags |-> flags, seq |-> seq,
     ack |-> IF "ACK" \in flags THEN client[r].rcv ELSE 0,
     len |-> len, data |-> NoBuf, ofs |-> seq]

\* The segment that carries number n of the client's sequence space.
SegmentAt(r, n) ==
    CASE n = 0           -> FromClient(r, {"SYN"}, 0, 0)
      [] n > Requests(r) -> FromClient(r, {"FIN", "ACK"}, n, 0)
      [] OTHER           -> FromClient(r, {"ACK"}, n, 1)

\* Retransmission timers are long compared with the time in flight.
Calm(r) == Len(toServer[r]) + Len(toClient[r]) < MaxInFlight

Put(r, s) == toServer' = [toServer EXCEPT ![r] = Append(@, s)]

ClientOpen(r) ==
    /\ client[r].state = "IDLE"
    /\ client' = [client EXCEPT ![r].state = "SYN_SENT", ![r].nxt = 1]
    /\ Put(r, SegmentAt(r, 0))
    /\ UNCHANGED <<vars, toClient, faults, heard>>

ClientSend(r) ==
    /\ client[r].state = "ESTABLISHED"
    /\ client[r].nxt <= Requests(r)
    /\ client' = [client EXCEPT ![r].nxt = @ + 1]
    /\ Put(r, SegmentAt(r, client[r].nxt))
    /\ UNCHANGED <<vars, toClient, faults, heard>>

\* The client closes when it has read the response (it knows its length), or
\* closes its direction early and still waits for the response.
ClientClose(r) ==
    /\ client[r].state = "ESTABLISHED"
    /\ client[r].nxt > Requests(r)
    /\ HalfClose \/ Len(client[r].got) = Len(Response(r))
    /\ client' = [client EXCEPT ![r].state = "FIN_WAIT", ![r].nxt = @ + 1]
    /\ Put(r, SegmentAt(r, client[r].nxt))
    /\ UNCHANGED <<vars, toClient, faults, heard>>

ClientRetransmit(r) ==
    /\ client[r].una # client[r].nxt
    /\ Calm(r)
    /\ Put(r, SegmentAt(r, client[r].una))
    /\ UNCHANGED <<vars, client, toClient, faults, heard>>

\* The client's record after it received segment s, by RFC 793: data is taken
\* from the next expected number on, everything else is out of window, as is
\* everything that follows the router's FIN.
Received(r, s) ==
    LET c == client[r]
        reads == c.state # "TIME_WAIT"
        skip == (c.rcv - s.seq) % SeqSpace
        una == IF s.ack \in (c.una + 1)..c.nxt THEN s.ack ELSE c.una
    IN  IF c.state = "SYN_SENT"
        THEN IF s.flags = {"SYN", "ACK"} /\ s.ack = 1
             THEN [c EXCEPT !.state = "ESTABLISHED", !.una = 1,
                            !.rcv = (s.seq + 1) % SeqSpace]
             ELSE c
        ELSE IF reads /\ s.len > 0 /\ skip < s.len
        THEN [c EXCEPT !.una = una, !.rcv = (s.seq + s.len) % SeqSpace,
                       !.got = @ \o [k \in 1..(s.len - skip) |->
                                        <<s.data, s.ofs + skip + k - 1>>]]
        ELSE IF reads /\ "FIN" \in s.flags /\ s.seq = c.rcv
        THEN [c EXCEPT !.una = una, !.rcv = (@ + 1) % SeqSpace, !.state = "TIME_WAIT"]
        ELSE [c EXCEPT !.una = una]

\* Anything that takes sequence numbers is acknowledged, expected or not.
Answers(r, s) == client[r].state # "SYN_SENT" \/ Received(r, s) # client[r]

ClientReceive(r) ==
    /\ toClient[r] # <<>>
    /\ client[r].state # "IDLE"
    /\ LET s == Head(toClient[r])
           c == Received(r, s)
           ack == [FromClient(r, {"ACK"}, c.nxt, 0) EXCEPT !.ack = c.rcv]
       IN  /\ client' = [client EXCEPT ![r] = c]
           /\ IF Answers(r, s) /\ (s.len > 0 \/ s.flags # {"ACK"})
              THEN Put(r, ack) ELSE UNCHANGED toServer
    /\ toClient' = [toClient EXCEPT ![r] = Tail(@)]
    /\ UNCHANGED <<vars, faults, heard>>

----------------------------------------------------------------------------
\* The router.

\* The segments a step of the router sent reach the queues of their clients.
Transmit ==
    toClient' = [r \in Remotes |->
        LET rows == {i \in Slots : out'[i] # <<>> /\ out'[i][1].remote = r}
        IN  IF rows = {} THEN toClient[r]
            ELSE toClient[r] \o out'[CHOOSE i \in rows : TRUE]]

\* The application starts hearing a connection afresh when it is opened.
Heard(i, units) ==
    heard' = [j \in Slots |-> IF j \notin opened' THEN <<>>
                              ELSE heard[j] \o (IF j = i THEN units ELSE <<>>)]

\* The HTTP server's answer to the next unit of a request.
Reply(r, i) ==
    IF Len(heard[i]) < Requests(r) THEN Replies[client[r].plan][Len(heard[i]) + 1] ELSE <<>>

ServerListen ==
    /\ TcpNewListenSock(HttpPort)
    /\ UNCHANGED netVars

Ignored(s) == Connections(s.remote, s.port) = {} /\ s.flags # {"SYN"}

ServerReceive(r) ==
    /\ toServer[r] # <<>>
    /\ toServer' = [toServer EXCEPT ![r] = Tail(@)]
    /\ LET s == Head(toServer[r])
       IN  \/ Control(s) /\ Heard(0, <<>>)
           \/ \E i \in Slots : HandleData(i, s, Reply(r, i)) /\ Heard(i, <<s.ofs>>)
           \/ Ignored(s) /\ UNCHANGED <<vars, heard>>
    /\ IF Ignored(Head(toServer[r])) THEN UNCHANGED toClient ELSE Transmit
    /\ UNCHANGED <<client, faults>>

ServerProcess ==
    /\ TcpProcess
    /\ Transmit
    /\ UNCHANGED <<client, toServer, faults, heard>>

ServerElapse(i) ==
    /\ Elapse(i) /\ ~tcp_conns[i].due
    /\ Calm(tcp_conns[i].remote)
    /\ UNCHANGED netVars

\* SNTP puts the clock back before tcp_process looks: a timer runs on.
ServerClockSet(i) ==
    /\ "clock" \in Faults /\ faults < MaxFaults
    /\ faults' = faults + 1
    /\ Elapse(i) /\ tcp_conns[i].due
    /\ UNCHANGED <<client, toServer, toClient, heard>>

----------------------------------------------------------------------------
\* The network.

\* What a fault makes of the queue q in direction dir.
Faulty(dir, q) ==
    {q2 \in {Tail(q)} : "lose" \in Faults /\ ~Reliable(dir, Head(q))}
    \cup {q2 \in {Append(q, Head(q))} : "duplicate" \in Faults}
    \cup {q2 \in {Append(Tail(q), Head(q))} : "delay" \in Faults /\ Len(q) > 1}

Fault(r) ==
    /\ faults < MaxFaults
    /\ faults' = faults + 1
    /\ \/ /\ toServer[r] # <<>>
          /\ \E q \in Faulty("toServer", toServer[r]) : toServer' = [toServer EXCEPT ![r] = q]
          /\ UNCHANGED toClient
       \/ /\ toClient[r] # <<>>
          /\ \E q \in Faulty("toClient", toClient[r]) : toClient' = [toClient EXCEPT ![r] = q]
          /\ UNCHANGED toServer
    /\ UNCHANGED <<vars, client, heard>>

NetInit ==
    /\ Init
    /\ client \in {c \in [Remotes -> {NewClient(p) : p \in DOMAIN Asked}] :
                        \A r \in Remotes : c[r].plan \in Plans[r]}
    /\ toServer = [r \in Remotes |-> <<>>]
    /\ toClient = [r \in Remotes |-> <<>>]
    /\ faults = 0
    /\ heard = [i \in Slots |-> <<>>]

ClientStep(r) ==
    ClientOpen(r) \/ ClientSend(r) \/ ClientClose(r) \/ ClientReceive(r)

NetNext ==
    \/ ServerListen
    \/ ServerProcess
    \/ \E i \in Slots : ServerElapse(i) \/ ServerClockSet(i)
    \/ \E r \in Remotes :
        ClientStep(r) \/ ClientRetransmit(r) \/ ServerReceive(r) \/ Fault(r)

\* The main loop receives what arrives and calls tcp_process forever, and clients
\* that have something to do eventually do it.  The time of a timer passes even if
\* something is under way again and again.
NetFairness ==
    /\ WF_allVars(ServerListen)
    /\ WF_allVars(ServerProcess)
    /\ \A i \in Slots : SF_allVars(ServerElapse(i))
    /\ \A r \in Remotes : /\ WF_allVars(ClientStep(r))
                          /\ WF_allVars(ClientRetransmit(r))
                          /\ WF_allVars(ServerReceive(r))

NetSpec == NetInit /\ [][NetNext]_allVars
FairNetSpec == NetSpec /\ NetFairness

----------------------------------------------------------------------------
\* Properties.

IsPrefixOf(p, q) == Len(p) <= Len(q) /\ p = SubSeq(q, 1, Len(p))

\* What the application was handed on a connection is the client's stream
\* from its start, in order, each unit once (tcp.c:320-325), whatever the
\* network loses, repeats or reorders.
RequestInOrder ==
    \A i \in Slots : \A k \in DOMAIN heard[i] : heard[i][k] = k

\* Cut as its client cuts it, each request is answered as the client expects.
AnsweredAsExpected == \A p \in DOMAIN Asked : Stream(p) = Expected[p]

\* However a request is cut into segments, it is answered once and as it should
\* be: what the parser keeps between segments is enough.  Only what comes after
\* the carriage return of the blank line, that is, the line feed alone, has it
\* answered again, with its URI decoded twice (httpserv.c:483, 258), but for the
\* method that is not known.  This is about every request there is, and looked at
\* before the first one comes.
CutsDoNotMatter ==
    (\A r \in Remotes : client[r].state = "IDLE") =>
        /\ AnsweredAsExpected
        /\ \A p \in DOMAIN Asked :
            LET w == Written(Asked[p])
                cut(i, j) ==
                    <<SubSeq(w, 1, i), SubSeq(w, i + 1, j), SubSeq(w, j + 1, Len(w))>>
                again(j) == IF j = Len(w) - 1 /\ Asked[p].status # 501
                            THEN <<Asked[p].again>> ELSE <<>>
            IN  \A j \in 2..(Len(w) - 1), i \in 1..(Len(w) - 2) : i < j =>
                    RequestOf(cut(i, j)).sent = <<Asked[p].status>> \o again(j)

\* What the client has read is a prefix of the response: no byte of another
\* buffer, none twice, none skipped (tcp.c:207-219, 408-423).
ResponseIsPrefix ==
    \A r \in Remotes : IsPrefixOf(client[r].got, Response(r))

\* The router releases a buffer only when the client has read all of it.
ReleasedWhenRead ==
    \A i \in Slots : tcp_conns[i].state = "ESTABLISHED" =>
        LET r == tcp_conns[i].remote
        IN  client[r].state = "ESTABLISHED" =>
            \A n \in 1..Len(heard[i]) : \A b \in Elems(Replies[client[r].plan][n]) :
                owner[b] = "app" => \A u \in Elems(Units(b)) : u \in Elems(client[r].got)

\* Every client reads its whole response.
ResponseDelivered ==
    \A r \in Remotes : <>(client[r].got = Response(r))

\* Every buffer comes back to the application in the end.
BuffersReturned ==
    \A b \in Buffers : []<>(owner[b] = "app")

\* Every client gets to close its connection.
ClientsClose == \A r \in Remotes : <>(client[r].state = "TIME_WAIT")

\* When the clients are done, so are the connections: their rows are free.
RowsReleased == []<>(\A i \in Slots : ~Open(i))
=============================================================================
