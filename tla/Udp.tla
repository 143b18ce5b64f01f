-------------------------------- MODULE Udp --------------------------------
(***************************************************************************)
(* The UDP sockets of the router (src/src/ip/udp.c).  The router is one     *)
(* record h, which a handler takes and returns changed:                     *)
(*   h.conf, h.arptab   see Arp           h.udp     the socket table        *)
(*   h.dhcp             see Dhcp          h.sntp    see Sntp                *)
(*   h.ticks            ticks()           h.offset  time_offset             *)
(*   h.out              the frames sent since eth_getpacket returned        *)
(*                                                                          *)
(* Abstractions.  A socket is named by its port, which stands for its       *)
(* handler too.  No caller asks for a dynamic port or closes a socket.      *)
(***************************************************************************)
EXTENDS Arp

CONSTANTS
    UDP_MAX_CONNS,  \* sockets (40 in the code)
    NoPort          \* of a socket without a handler

ASSUME UdpAssumption == UDP_MAX_CONNS \in Nat \ {0}

UdpSlots == 0..(UDP_MAX_CONNS - 1)
NoSockets == [i \in UdpSlots |-> NoPort]

\* mutant: the slots are counted from one
FindConnFromOne(conns, port) ==
    {i \in UdpSlots : i > 0 /\ conns[i] \in {port, NoPort}
                       /\ \A j \in UdpSlots : conns[j] = port => j = i}

\* udp_find_conn_by_port: the sockets it may return, at most one.
FindConn(conns, port) ==
    LET bound == {i \in UdpSlots : conns[i] = port}
        free  == {i \in UdpSlots : conns[i] = NoPort}
    IN  IF bound # {} THEN bound ELSE IF free = {} THEN {} ELSE {LastOf(free)}

Bound(h, port) == \E i \in UdpSlots : h.udp[i] = port

\* udp_new_sock, which fails when it returns h.
UdpNewSock(h, port) ==
    IF Bound(h, port) \/ FindConn(h.udp, port) = {} THEN h
    ELSE [h EXCEPT !.udp[LastOf(FindConn(h.udp, port))] = port]

SendPacket(h, f) == [h EXCEPT !.out = Append(@, f)]

\* A datagram to the given port, from a socket that is bound.
UdpSend(h, from, to, d) ==
    IF Bound(h, from) THEN SendPacket(h, Addressed(h.conf, h.arptab, to, d)) ELSE h
=============================================================================
