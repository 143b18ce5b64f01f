-------------------------------- MODULE Tcp --------------------------------
(***************************************************************************)
(* The TCP component of the router (src/src/ip/tcp.c, tcp.h): a fixed table *)
(* of connections, driven by received segments (tcp_receive_packet), by the *)
(* calls of the application (tcp_new_listen_sock, tcp_send, tcp_close) and  *)
(* by the main loop (tcp_process).  Everything runs on one thread, and the  *)
(* application is called back synchronously, so each of those calls is one  *)
(* action here.  The remote ends are arbitrary: any segment of Wire may     *)
(* arrive at any time.  TcpNet composes this module with a real client and  *)
(* a real network.                                                          *)
(*                                                                          *)
(* Abstractions.  A remote host and port are one value of Remotes.          *)
(* Sequence numbers live in 0..SeqSpace-1 (2^32 in the code).  Lengths      *)
(* count units, of which MAXSEGSIZE fit a segment.  Of a queued buffer's    *)
(* last_send_time only whether the head's has expired matters ("due").      *)
(* A segment that does not leave because arp_make_eth_header finds no       *)
(* address (tcp.c:171) is a segment the network loses.                      *)
(***************************************************************************)
EXTENDS Integers, Sequences, FiniteSets

CONSTANTS
    TCP_MAX_CONNS,  \* rows of the connection table (40 in the code)
    MAXSEGSIZE,     \* most units in one segment (1024 bytes in the code)
    SeqSpace,       \* size of the sequence space (2^32 in the code)
    InitSeq,        \* initial sequence number of every connection (0x400)
    Remotes,        \* remote endpoints
    NoRemote,       \* the zero remotehost and remoteport
    Ports,          \* local ports
    NoPort,         \* the zero localport
    Buffers,        \* buffers the application may hand to tcp_send
    NoBuf,          \* the payload of a segment that carries none of ours
    BufLen,         \* length of each buffer
    Wire            \* segments that may arrive

Slots == 0..(TCP_MAX_CONNS - 1)
SeqNo == 0..(SeqSpace - 1)
Flag  == {"SYN", "ACK", "RST", "FIN"}

\* A TCP segment; data says which of our buffers its bytes come from and at
\* which offset they start, for the segments we send.
Segment ==
    [remote : Remotes, port : Ports, flags : SUBSET Flag, seq : SeqNo,
     ack : SeqNo, len : Nat, data : Buffers \cup {NoBuf}, ofs : Nat]

ASSUME ConnsAssumption  == TCP_MAX_CONNS \in Nat
ASSUME SizeAssumption   == MAXSEGSIZE \in Nat \ {0}
ASSUME SeqAssumption    == SeqSpace \in Nat \ {0} /\ InitSeq \in SeqNo
ASSUME NoneAssumption   == NoRemote \notin Remotes /\ NoPort \notin Ports
ASSUME BufferAssumption == BufLen \in [Buffers -> Nat] /\ NoBuf \notin Buffers
ASSUME WireAssumption   == Wire \subseteq Segment

VARIABLES
    tcp_conns,  \* the connection table
    owner,      \* who may touch a buffer: "app", "stack" or nobody ("dropped")
    opened,     \* sockets with an ev_opened and no ev_closed yet
    out         \* what each row sent in the last step, in order

vars == <<tcp_conns, owner, opened, out>>

State == {"CLOSED", "LISTENING", "SYN", "ESTABLISHED", "CLOSING", "LAST_ACK"}

\* A tcp_buf: ofs units of it are acknowledged already.
TcpBuf == [data : Buffers, ofs : Nat, seq : SeqNo]

TcpConn ==
    [state : State, remote : Remotes \cup {NoRemote}, port : Ports \cup {NoPort},
     incoming : SeqNo, nextOut : SeqNo, sendbuf : Seq(TcpBuf), due : BOOLEAN]

\* What memset( conn, 0, sizeof( tcp_conn ) ) leaves.
ClosedConn ==
    [state |-> "CLOSED", remote |-> NoRemote, port |-> NoPort,
     incoming |-> 0, nextOut |-> 0, sendbuf |-> <<>>, due |-> FALSE]

Open(i) == tcp_conns[i].state \notin {"CLOSED", "LISTENING"}

----------------------------------------------------------------------------
\* Looking up the table.

\* mutant: a row that waits for its last ACK is reused
FreeOrClosing == {i \in Slots : tcp_conns[i].state \in {"CLOSED", "LAST_ACK"}}

Free == {i \in Slots : tcp_conns[i].state = "CLOSED"}

Listeners(port) ==
    {i \in Slots : /\ tcp_conns[i].state # "CLOSED"
                   /\ tcp_conns[i].port = port
                   /\ tcp_conns[i].remote = NoRemote}

\* mutant: a connection that is not established yet is not found
EstablishedConnections(remote, port) ==
    {i \in Slots : /\ tcp_conns[i].state \notin {"CLOSED", "SYN"}
                   /\ tcp_conns[i].port = port
                   /\ tcp_conns[i].remote = remote}

Connections(remote, port) ==
    {i \in Slots : /\ tcp_conns[i].state # "CLOSED"
                   /\ tcp_conns[i].port = port
                   /\ tcp_conns[i].remote = remote}

IsFirst(i, S) == i \in S /\ \A j \in S : i <= j
IsLast(i, S)  == i \in S /\ \A j \in S : j <= i

----------------------------------------------------------------------------
\* The send queue.

Remaining(b) == BufLen[b.data] - b.ofs

\* Unacknowledged units in the first i buffers of q.
Before(q) ==
    LET f[i \in 0..Len(q)] == IF i = 0 THEN 0 ELSE f[i - 1] + Remaining(q[i])
    IN  f

\* mutant: a buffer acknowledged in part is freed
StopsBetweenBuffers(q, n, k) == k = Len(q) \/ Before(q)[k] >= n

\* The loop that frees buffers stops after k of them: the queue is empty, no
\* unit is left to drop, or those left are a part of the next buffer.
Stops(q, n, k) == k = Len(q) \/ Before(q)[k] >= n \/ Before(q)[k + 1] > n

\* How many buffers at the head of q an acknowledgement of n units frees.
Freed(q, n) ==
    CHOOSE k \in 0..Len(q) : Stops(q, n, k) /\ \A j \in 0..(k - 1) : ~Stops(q, n, j)

\* mutant: the newest buffers are freed
UnbufferNewest(q, n) == SubSeq(q, 1, Len(q) - Freed(q, n))

Unbuffer(q, n) ==
    LET k    == Freed(q, n)
        rest == SubSeq(q, k + 1, Len(q))
    IN  IF k < Len(q) /\ Before(q)[k] < n
        THEN [rest EXCEPT ![1].ofs = @ + n - Before(q)[k]]
        ELSE rest

QueuedIn(q) == {q[k].data : k \in 1..Len(q)}

EarliestUnacked(c) ==
    IF c.sendbuf # <<>> THEN (c.sendbuf[1].seq + c.sendbuf[1].ofs) % SeqSpace
                        ELSE c.nextOut

CommitWithoutWrap(c, n) == [c EXCEPT !.nextOut = @ + n]  \* mutant: no overflow

CommitSequenceRange(c, n) == [c EXCEPT !.nextOut = (@ + n) % SeqSpace]

----------------------------------------------------------------------------
\* Segments sent.

Header(c, flags, seq) ==
    [remote |-> c.remote, port |-> c.port, flags |-> flags, seq |-> seq,
     ack |-> IF "ACK" \in flags THEN c.incoming ELSE 0,
     len |-> 0, data |-> NoBuf, ofs |-> 0]

SynAck(c) == Header(c, {"SYN", "ACK"}, c.nextOut)
Ack(c)    == Header(c, {"ACK"}, c.nextOut)
AckForFin(c) == Header(c, {"ACK"}, c.nextOut)  \* mutant: the FIN flag is missing

FinAck(c) == Header(c, {"FIN", "ACK"}, c.nextOut)

\* The segment that carries the next of left units of b, from offset o on.
DataSegment(c, b, o, seq, left) ==
    [Header(c, {"ACK"}, seq % SeqSpace)
        EXCEPT !.len = IF left < MAXSEGSIZE THEN left ELSE MAXSEGSIZE,
               !.data = b.data, !.ofs = o]

\* mutants: the length left does not count what is acknowledged; every chunk
\* has the sequence number of its buffer
ChunkPastEnd(c, b, o) == DataSegment(c, b, o, b.seq + o, BufLen[b.data])
ChunkAtBufferSeq(c, b, o) == DataSegment(c, b, o, b.seq, BufLen[b.data] - o)

Chunk(c, b, o) == DataSegment(c, b, o, b.seq + o, BufLen[b.data] - o)

\* tcp_send_buffer: the whole buffer in chunks; nothing for an empty one.
Chunks(c, b) ==
    [k \in 1..((BufLen[b.data] + MAXSEGSIZE - 1) \div MAXSEGSIZE) |->
        Chunk(c, b, (k - 1) * MAXSEGSIZE)]

\* mutant: the sequence number is taken after the range is committed
NewBufAfterCommit(c, d) ==
    [data |-> d, ofs |-> 0, seq |-> (c.nextOut + BufLen[d]) % SeqSpace]

\* tcp_send of one buffer by an established connection.
NewBuf(c, d) == [data |-> d, ofs |-> 0, seq |-> c.nextOut]

Sent(c, d) ==
    [CommitSequenceRange(c, BufLen[d])
        EXCEPT !.sendbuf = Append(@, NewBuf(c, d))]

\* A response is at most two buffers: <<>>, <<header>> or <<header, body>>.
SendAll(c, ds) ==
    CASE Len(ds) = 0 -> c
      [] Len(ds) = 1 -> Sent(c, ds[1])
      [] OTHER       -> Sent(Sent(c, ds[1]), ds[2])

SentChunks(c, ds) ==
    CASE Len(ds) = 0 -> <<>>
      [] Len(ds) = 1 -> Chunks(c, NewBuf(c, ds[1]))
      [] OTHER       -> Chunks(c, NewBuf(c, ds[1]))
                            \o Chunks(c, NewBuf(Sent(c, ds[1]), ds[2]))

OwnedByApp == {b \in Buffers : owner[b] = "app"}

\* What the application may send from one ev_data callback.
Responses ==
    {<<>>} \cup {<<b>> : b \in OwnedByApp}
           \cup {<<p[1], p[2]>> : p \in {x \in OwnedByApp \X OwnedByApp : x[1] # x[2]}}

Elems(ds) == {ds[k] : k \in 1..Len(ds)}

\* Row i sends the segments ss, the others nothing.
Emit(i, ss) == [j \in Slots |-> IF j = i THEN ss ELSE <<>>]
Silent == [j \in Slots |-> <<>>]

----------------------------------------------------------------------------
Init ==
    /\ tcp_conns = [i \in Slots |-> ClosedConn]
    /\ owner = [b \in Buffers |-> "app"]
    /\ opened = {}
    /\ out = Silent

\* Buffers given to the stack, given back by ev_releasebuf, and lost.
Own(S, who) == [b \in Buffers |-> IF b \in S THEN who ELSE owner[b]]

\* tcp_new_listen_sock.  When the port has a listener the call changes
\* nothing; when the table is full tcp_find_listener returns null and the
\* call dereferences it, so the program never calls it then.
TcpNewListenSock(port) ==
    /\ Listeners(port) = {}
    /\ \E i \in Slots :
        /\ IsLast(i, Free)
        /\ tcp_conns' = [tcp_conns EXCEPT ![i] =
                            [ClosedConn EXCEPT !.state = "LISTENING", !.port = port]]
    /\ out' = Silent
    /\ UNCHANGED <<owner, opened>>

\* handle_listen_port: a SYN to a listening port takes the first free row.
\* Without a free row, or with any other flag, the segment is ignored.
HandleListenPort(s) ==
    /\ Connections(s.remote, s.port) = {}
    /\ Listeners(s.port) # {}
    /\ s.flags = {"SYN"}
    /\ \E i \in Slots :
        LET c == [ClosedConn EXCEPT !.state = "SYN", !.remote = s.remote,
                    !.port = s.port, !.incoming = (s.seq + 1) % SeqSpace,
                    !.nextOut = InitSeq]
        IN  /\ IsFirst(i, Free)
            /\ tcp_conns' = [tcp_conns EXCEPT ![i] = CommitSequenceRange(c, 1)]
            /\ out' = Emit(i, <<SynAck(c)>>)
            /\ opened' = opened \cup {i}
    /\ UNCHANGED owner

\* The connection a segment is for.
Target(i, s) == IsFirst(i, Connections(s.remote, s.port))

\* mutants: the queue is not released; ev_closed is not raised
KillLeakingBuffers(i) ==
    /\ tcp_conns' = [tcp_conns EXCEPT ![i] = ClosedConn]
    /\ opened' = opened \ {i}
    /\ UNCHANGED owner

KillSilently(i) ==
    /\ tcp_conns' = [tcp_conns EXCEPT ![i] = ClosedConn]
    /\ owner' = Own(QueuedIn(tcp_conns[i].sendbuf), "app")
    /\ UNCHANGED opened

\* kill_connection: the application gets every buffer back (unbuffering
\* 0xffffffff units empties any queue), then ev_closed.
Kill(i) ==
    /\ tcp_conns' = [tcp_conns EXCEPT ![i] = ClosedConn]
    /\ owner' = Own(QueuedIn(tcp_conns[i].sendbuf), "app")
    /\ opened' = opened \ {i}

\* Whatever segment follows the SYN establishes the connection, and is not
\* looked at any further.
EstablishConnection(i, s) ==
    /\ Target(i, s)
    /\ tcp_conns[i].state = "SYN"
    /\ tcp_conns' = [tcp_conns EXCEPT ![i].state = "ESTABLISHED"]
    /\ out' = Silent
    /\ UNCHANGED <<owner, opened>>

ConnectionReset(i, s) ==
    /\ Target(i, s)
    /\ tcp_conns[i].state # "SYN"
    /\ "RST" \in s.flags
    /\ Kill(i)
    /\ out' = Silent

\* In LAST_ACK any acknowledgement ends the connection.
LastAck(i, s) ==
    /\ Target(i, s)
    /\ tcp_conns[i].state = "LAST_ACK"
    /\ "RST" \notin s.flags
    /\ "ACK" \in s.flags
    /\ Kill(i)
    /\ out' = Silent

\* The code that runs before the FIN and data of a segment are looked at.
Drop(c, s) == (s.ack - EarliestUnacked(c)) % SeqSpace

Acknowledged(c, s) ==
    IF "ACK" \notin s.flags \/ Drop(c, s) = 0 THEN c
    ELSE LET q == Unbuffer(c.sendbuf, Drop(c, s))
         IN  [c EXCEPT !.sendbuf = q, !.due = (q # <<>>)]

PassesAckStepHalfClosed(i, s) ==   \* mutant: the last ACK closes nothing
    /\ Target(i, s)
    /\ tcp_conns[i].state # "SYN"
    /\ "RST" \notin s.flags

PassesAckStep(i, s) ==
    /\ Target(i, s)
    /\ tcp_conns[i].state # "SYN"
    /\ "RST" \notin s.flags
    /\ ~(tcp_conns[i].state = "LAST_ACK" /\ "ACK" \in s.flags)

ReleasesNothing(i, q) == {}   \* mutant: ev_releasebuf is never raised

Released(i, q) == QueuedIn(tcp_conns[i].sendbuf) \ QueuedIn(q)

\* mutant: the connection stays as it was
FinSentStaysOpen(c) == CommitSequenceRange(c, 1)

FinSent(c) == [CommitSequenceRange(c, 1) EXCEPT !.state = "LAST_ACK"]

\* A FIN is acknowledged whatever its sequence number; an established
\* connection answers with its own FIN, any other is closed.
HandleFin(i, s) ==
    LET c == [Acknowledged(tcp_conns[i], s)
                EXCEPT !.incoming = (@ + 1) % SeqSpace]
    IN  /\ PassesAckStep(i, s)
        /\ "FIN" \in s.flags
        /\ IF c.state = "ESTABLISHED"
           THEN /\ tcp_conns' = [tcp_conns EXCEPT ![i] = FinSent(c)]
                /\ owner' = Own(Released(i, c.sendbuf), "app")
                /\ out' = Emit(i, <<Ack(c), FinAck(c)>>)
                /\ UNCHANGED opened
           ELSE Kill(i) /\ out' = Emit(i, <<Ack(c)>>)

DeliverAnyData(c, s) == s.len # 0     \* mutant: accepts data out of sequence

InSequence(c, s) == s.len # 0 /\ s.seq = c.incoming

\* In-sequence data goes to the application, which may answer with tcp_send
\* before the data is acknowledged.  A buffer sent by a connection that is no
\* longer established is forgotten: no queue, no ev_releasebuf.
HandleData(i, s, ds) ==
    LET a == Acknowledged(tcp_conns[i], s)
        c == [a EXCEPT !.incoming = (s.seq + s.len) % SeqSpace]
        sends == c.state = "ESTABLISHED"
    IN  /\ PassesAckStep(i, s)
        /\ "FIN" \notin s.flags
        /\ InSequence(a, s)
        /\ tcp_conns' = [tcp_conns EXCEPT ![i] = IF sends THEN SendAll(c, ds) ELSE c]
        /\ out' = Emit(i, IF sends
                          THEN Append(SentChunks(c, ds), Ack(SendAll(c, ds)))
                          ELSE <<Ack(c)>>)
        /\ owner' = [b \in Buffers |->
                        IF b \in Elems(ds) THEN IF sends THEN "stack" ELSE "dropped"
                        ELSE IF b \in Released(i, a.sendbuf) THEN "app" ELSE owner[b]]
        /\ UNCHANGED opened

\* Every other segment: only its acknowledgement counts.
HandleAck(i, s) ==
    LET c == Acknowledged(tcp_conns[i], s)
    IN  /\ PassesAckStep(i, s)
        /\ "FIN" \notin s.flags
        /\ ~InSequence(c, s)
        /\ tcp_conns' = [tcp_conns EXCEPT ![i] = c]
        /\ owner' = Own(Released(i, c.sendbuf), "app")
        /\ out' = Silent
        /\ UNCHANGED opened

\* handle_connection and handle_listen_port, for every segment that passes
\* no data to the application.
Control(s) ==
    \/ HandleListenPort(s)
    \/ \E i \in Slots :
        \/ EstablishConnection(i, s)
        \/ ConnectionReset(i, s)
        \/ LastAck(i, s)
        \/ HandleFin(i, s)
        \/ HandleAck(i, s)

\* tcp_receive_packet.
Receive(s) ==
    \/ Control(s)
    \/ \E i \in Slots, ds \in Responses : HandleData(i, s, ds)

\* tcp_send outside a callback, on a socket the application knows.
TcpSend(i, d) ==
    /\ i \in opened
    /\ owner[d] = "app"
    /\ IF tcp_conns[i].state = "ESTABLISHED"
       THEN /\ tcp_conns' = [tcp_conns EXCEPT ![i] = Sent(@, d)]
            /\ out' = Emit(i, SentChunks(tcp_conns[i], <<d>>))
            /\ owner' = Own({d}, "stack")
       ELSE /\ owner' = Own({d}, "dropped")
            /\ out' = Silent
            /\ UNCHANGED tcp_conns
    /\ UNCHANGED opened

\* tcp_close; on a socket that is not established it changes nothing.
TcpClose(i) ==
    /\ i \in opened
    /\ tcp_conns[i].state = "ESTABLISHED"
    /\ tcp_conns' = [tcp_conns EXCEPT ![i] =
                        [CommitSequenceRange(@, 1) EXCEPT !.state = "CLOSING"]]
    /\ out' = Emit(i, <<FinAck(tcp_conns[i])>>)
    /\ UNCHANGED <<owner, opened>>

\* tcp_process: one chunk of the head buffer of each connection whose timer
\* has expired.
Expired(i) == Open(i) /\ tcp_conns[i].sendbuf # <<>> /\ tcp_conns[i].due

\* mutant: always the first chunk of the buffer
RetransmissionOfStart(c) ==
    LET b == c.sendbuf[1]
    IN  IF Remaining(b) = 0 THEN <<>> ELSE <<Chunk(c, b, 0)>>

Retransmission(c) ==
    LET b == c.sendbuf[1]
    IN  IF Remaining(b) = 0 THEN <<>> ELSE <<Chunk(c, b, b.ofs)>>

TcpProcess ==
    /\ \E i \in Slots : Expired(i)
    /\ tcp_conns' = [i \in Slots |->
                        IF Expired(i) THEN [tcp_conns[i] EXCEPT !.due = FALSE]
                                      ELSE tcp_conns[i]]
    /\ out' = [i \in Slots |-> IF Expired(i) THEN Retransmission(tcp_conns[i])
                                          ELSE <<>>]
    /\ UNCHANGED <<owner, opened>>

\* TCP_RETRANSMIT_TIMEOUT passes for the head buffer of a connection - or, when
\* set_time puts the clock back, has not passed any more.
Elapse(i) ==
    /\ tcp_conns[i].sendbuf # <<>>
    /\ tcp_conns' = [tcp_conns EXCEPT ![i].due = ~@]
    /\ out' = Silent
    /\ UNCHANGED <<owner, opened>>

Next ==
    \/ \E p \in Ports : TcpNewListenSock(p)
    \/ \E s \in Wire : Receive(s)
    \/ \E i \in Slots : \/ \E d \in Buffers : TcpSend(i, d)
                        \/ TcpClose(i)
                        \/ Elapse(i)
    \/ TcpProcess

Spec == Init /\ [][Next]_vars

----------------------------------------------------------------------------
\* Properties.

\* Every row of the table is a connection, and an idle row is all zero.
TypeOK ==
    /\ tcp_conns \in [Slots -> TcpConn]
    /\ owner \in [Buffers -> {"app", "stack", "dropped"}]
    /\ opened \subseteq Slots
    /\ out \in [Slots -> Seq(Segment)]

\* tcp_find_connection and tcp_find_listener return the first match: no two
\* rows may ever serve the same remote end and port, nor two listeners one
\* port, whatever segments arrive while rows come and go.
UniqueConnections ==
    \A i, j \in Slots :
        /\ tcp_conns[i].state # "CLOSED"
        /\ tcp_conns[i].port = tcp_conns[j].port
        /\ tcp_conns[i].remote = tcp_conns[j].remote
        => i = j

\* The application knows exactly the rows that are connections: no ev_opened
\* is missing (tcp.c:244), no ev_closed is forgotten (tcp.c:250), so the
\* context the HTTP server allocates per socket is there and is freed.
OpenedMatchesState == opened = {i \in Slots : Open(i)}

\* A buffer handed to tcp_send sits in exactly one place of one send queue
\* until ev_releasebuf gives it back: it is neither lost from a queue nor
\* released while a retransmission could still read it (tcp.c:143-163).
BufferOwnership ==
    /\ \A i \in Slots : \A k \in DOMAIN tcp_conns[i].sendbuf :
        /\ owner[tcp_conns[i].sendbuf[k].data] = "stack"
        /\ \A j \in Slots : \A m \in DOMAIN tcp_conns[j].sendbuf :
            tcp_conns[i].sendbuf[k].data = tcp_conns[j].sendbuf[m].data
                => i = j /\ k = m
    /\ \A b \in Buffers : owner[b] = "stack" =>
            \E i \in Slots : b \in QueuedIn(tcp_conns[i].sendbuf)

\* The number after the last unit of a buffer, and how many a FIN took.
EndSeq(b) == (b.seq + BufLen[b.data]) % SeqSpace
FinTaken(c) == IF c.state \in {"CLOSING", "LAST_ACK"} THEN 1 ELSE 0

Contiguous(c) ==
    LET q == c.sendbuf
    IN  \A k \in DOMAIN q :
            /\ EndSeq(q[k]) = IF k < Len(q) THEN q[k + 1].seq
                              ELSE (c.nextOut - FinTaken(c)) % SeqSpace
            /\ k > 1 => q[k].ofs = 0
            /\ q[k].ofs = 0 \/ q[k].ofs < BufLen[q[k].data]

\* The queued buffers tile the sequence space from the first unacknowledged
\* unit to next_outgoing_seq_no, less the one number a FIN took: what a
\* retransmission sends carries the numbers the first transmission had.
SendSpaceContiguous == \A i \in Slots : Contiguous(tcp_conns[i])

\* No segment carries bytes of a buffer the application has back, or bytes
\* outside the buffer, and every data segment is numbered by its place in it.
SegmentsReadOwnedBytes ==
    \A i \in Slots : \A k \in DOMAIN out[i] :
        LET s == out[i][k]
            c == tcp_conns[i]
        IN  s.data # NoBuf =>
                /\ owner[s.data] = "stack"
                /\ s.len > 0 /\ s.ofs + s.len <= BufLen[s.data]
                /\ c.remote = s.remote /\ c.port = s.port
                /\ \E m \in DOMAIN c.sendbuf :
                    /\ c.sendbuf[m].data = s.data
                    /\ (c.sendbuf[m].seq + s.ofs) % SeqSpace = s.seq

\* tcp.h:22 says of a buffer given to tcp_send that it "will be passed back in
\* an ev_releasebuf event when we're done": none is ever forgotten.
NoBufferForgotten == \A b \in Buffers : owner[b] # "dropped"

\* A row never changes hands without being closed in between, and a
\* connection only moves forward: SYN, ESTABLISHED, then closing.
Rank(st) == CASE st = "SYN" -> 1 [] st = "ESTABLISHED" -> 2 [] OTHER -> 3

ConnectionSteps ==
    \A i \in Slots : Open(i) /\ tcp_conns'[i].state # "CLOSED" =>
        /\ tcp_conns'[i].remote = tcp_conns[i].remote
        /\ tcp_conns'[i].port = tcp_conns[i].port
        /\ Rank(tcp_conns[i].state) <= Rank(tcp_conns'[i].state)

ConnectionsMoveForward == [][ConnectionSteps]_vars

\* Sockets as the application sees them.
Api == INSTANCE SocketApi WITH
    Sockets <- Slots, Buffers <- Buffers, open <- opened,
    lent <- [i \in Slots |-> [k \in DOMAIN tcp_conns[i].sendbuf |->
                                tcp_conns[i].sendbuf[k].data]]

\* Tcp keeps the promise of SocketApi: the buffers of a socket come back in
\* the order they were sent, all of them by ev_closed (tcp.c:143-163, 247).
ImplementsSocketApi == Api!Spec
=============================================================================
