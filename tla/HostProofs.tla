----------------------------- MODULE HostProofs -----------------------------
(***************************************************************************)
(* Theorems about the router as a host of its network, for every number of *)
(* servers, size of the ARP table, range of ticks() and set of timeouts,   *)
(* and for answers that are late, lost, repeated or refused any number of  *)
(* times.  The handlers are functions of the router's record: each has a   *)
(* lemma that says what it does to it.                                     *)
(***************************************************************************)
EXTENDS Host, TLAPS, SequenceTheorems, FiniteSetTheorems

----------------------------------------------------------------------------
\* Types.

AnyIface == Ifaces \cup {0, EveryIface}
AnyMac   == Macs \cup {BcastMac}

Conf     == [host : Addrs, mask : {"host", "net"}, router : Addrs]
Entry    == [iface : Ifaces \cup {0}, net_addr : Addrs, phys_addr : AnyMac]
ArpTable == [Entries -> Entry]
Sockets  == [UdpSlots -> Ports \cup {NoPort}]

DhcpState ==
    [state : {"IDLE", "WAIT_FOR_OFFER", "WAIT_FOR_ACK", "DONE"},
     server : Servers \cup {NoServer}, age : Nat]

SntpState ==
    [state : {"NOT_READY", "IDLE", "WAITING_FOR_RESPONSE"},
     interval : MIN_INTERVAL..MAX_INTERVAL, next : 0..(TickMod - 1)]

\* What the router sends.
Sent ==
    {Message(DHCP_SERVER_PORT, type, server, a) :
            type \in {"DISCOVER", "REQUEST"}, server \in Servers \cup {NoServer}, a \in Addrs}
    \cup {[port |-> SNTP_PORT, type |-> "REQUEST"], [port |-> PING, type |-> "REPLY"]}
    \cup {[port |-> NBNS_PORT, type |-> "RESPONSE", addr |-> a] : a \in Addrs}

OutFrame ==
    [kind : {"arp"}, iface : AnyIface, mac : AnyMac, op : {"REQUEST", "REPLY"},
     spa : Addrs, tpa : Addrs]
    \cup [kind : {"ip"}, iface : AnyIface, mac : AnyMac, src : Addrs, dst : Addrs, data : Sent]

HostRec ==
    [conf : Conf, arptab : ArpTable, udp : Sockets, dhcp : DhcpState, sntp : SntpState,
     ticks : 0..(TickMod - 1), offset : {0, FromNtp(TrueTime)}, out : Seq(OutFrame)]

\* g is h but for what it has sent more.
Longer(p, q) == Len(p) <= Len(q) /\ \A k \in 1..Len(p) : q[k] = p[k]

OnlySends(h, g) ==
    /\ g \in HostRec
    /\ g.conf = h.conf /\ g.arptab = h.arptab /\ g.udp = h.udp /\ g.dhcp = h.dhcp
    /\ g.sntp = h.sntp /\ g.ticks = h.ticks /\ g.offset = h.offset
    /\ Longer(h.out, g.out)

----------------------------------------------------------------------------
\* Least and greatest elements.

LEMMA LeastNat ==
    ASSUME NEW T \in SUBSET Nat, T # {}
    PROVE  \E m \in T : \A k \in T : m <= k
<1> DEFINE R == OpToRel(<, Nat)
<1>1. R = {p \in Nat \X Nat : p[1] < p[2]}
  BY DEF OpToRel
<1>2. IsWellFoundedOn(R, Nat)
  BY NatLessThanWellFounded
<1> HIDE DEF R
<1>3. PICK m \in T : \A k \in T : <<k, m>> \notin R
  BY <1>2, WFMin
<1>4. ASSUME NEW k \in T, k < m PROVE FALSE
  <2>1. <<k, m>> \in Nat \X Nat /\ <<k, m>>[1] < <<k, m>>[2]
    BY <1>4
  <2> QED BY <1>1, <1>3, <2>1
<1> QED BY <1>4

LEMMA LastOfIn ==
    ASSUME NEW n \in Nat, NEW T \in SUBSET (0..n), T # {}
    PROVE  LastOf(T) \in T /\ \A k \in T : k <= LastOf(T)
<1> DEFINE U == {m \in Nat : \A k \in T : k <= m}
<1>1. n \in U
  OBVIOUS
<1>2. PICK m \in U : \A k \in U : m <= k
  BY <1>1, LeastNat
<1>3. m \in Nat /\ \A k \in T : k <= m
  OBVIOUS
<1>4. ASSUME m \notin T PROVE FALSE
  <2>1. PICK k0 \in T : TRUE
    OBVIOUS
  <2>2. k0 \in 0..n /\ m - 1 \in Nat
    BY <1>3, <1>4, <2>1
  <2>3. ASSUME NEW k \in T PROVE k <= m - 1
    <3>1. k \in 0..n /\ k <= m /\ k # m
      BY <1>3, <1>4
    <3> QED BY <1>3, <3>1
  <2>4. m - 1 \in U
    BY <2>2, <2>3
  <2> QED BY <1>2, <1>3, <2>4
<1>5. \E i \in T : \A j \in T : j <= i
  BY <1>3, <1>4
<1> QED BY <1>5 DEF LastOf

LEMMA LastOfOne == ASSUME NEW i \in Int PROVE LastOf({i}) = i
BY DEF LastOf

----------------------------------------------------------------------------
\* arptab.c and arp.c.

LEMMA FindSlotType ==
    ASSUME NEW t, NEW a
    PROVE  /\ FindSlot(t, a) \in Entries
           /\ Mapping(t, a) # {} => FindSlot(t, a) \in Mapping(t, a)
<1>1. Live(t) \subseteq Entries /\ Mapping(t, a) \subseteq Entries
  BY DEF Live, Mapping
<1>2. ARPTAB_SIZE - 1 \in Nat /\ Entries = 0..(ARPTAB_SIZE - 1) /\ Entries # {}
  <2>1. ARPTAB_SIZE \in Nat \ {0}
    BY ArpAssumption
  <2>2. 0 \in Entries
    BY <2>1 DEF Entries
  <2> QED BY <2>1, <2>2 DEF Entries
<1>3. OldestSlot(t) \in Entries
  <2> DEFINE T == IF Live(t) # Entries THEN Entries \ Live(t) ELSE Entries
  <2>1. T \in SUBSET (0..(ARPTAB_SIZE - 1)) /\ T # {}
    BY <1>1, <1>2
  <2> HIDE DEF T
  <2>2. LastOf(T) \in T
    BY <1>2, <2>1, LastOfIn
  <2> QED BY <1>2, <2>1, <2>2 DEF OldestSlot, T
<1> QED BY <1>1, <1>3 DEF FindSlot

LEMMA InsertType ==
    ASSUME NEW t \in ArpTable, NEW i \in Ifaces \cup {0}, NEW a \in Addrs, NEW mac \in Macs
    PROVE  Insert(t, i, a, mac) \in ArpTable
<1>1. [iface |-> i, net_addr |-> a, phys_addr |-> mac] \in Entry
  BY DEF Entry, AnyMac
<1> QED BY <1>1 DEF ArpTable, Insert

LEMMA NextHopType ==
    ASSUME NEW c \in Conf, NEW a \in Addrs
    PROVE  NextHop(c, a) \in Addrs
BY DEF NextHop, Conf

LEMMA AddressedType ==
    ASSUME NEW c \in Conf, NEW t \in ArpTable, NEW a \in Addrs, NEW d \in Sent
    PROVE  Addressed(c, t, a, d) \in OutFrame
<1> DEFINE hop == NextHop(c, a)
           found == Query(c, t, hop)
<1>1. hop \in Addrs /\ c.host \in Addrs
  BY NextHopType DEF Conf
<1>2. CASE found = {}
  <2>1. Addressed(c, t, a, d) = ArpRequest(c, hop)
    BY <1>2 DEF Addressed
  <2> HIDE DEF hop
  <2> QED BY <1>1, <2>1 DEF ArpRequest, OutFrame, AnyIface, AnyMac
<1>3. CASE found # {}
  <2> DEFINE e == CHOOSE x \in found : TRUE
  <2>1. e \in found
    BY <1>3
  <2>2. Addressed(c, t, a, d) =
            [kind |-> "ip", iface |-> e.iface, mac |-> e.phys_addr, src |-> c.host,
             dst |-> a, data |-> d]
    BY <1>3 DEF Addressed
  <2>3. e.iface \in AnyIface /\ e.phys_addr \in AnyMac
    <3>1. CASE hop \in {BcastAddr(c), AllOnes}
      BY <2>1, <3>1 DEF Query, AnyIface, AnyMac
    <3>2. CASE hop \notin {BcastAddr(c), AllOnes}
      <4>1. \E k \in Entries : e = t[k]
        BY <2>1, <3>2 DEF Query, Mapping, Live
      <4> QED BY <4>1 DEF ArpTable, Entry, AnyIface
    <3> QED BY <3>1, <3>2
  <2> HIDE DEF e
  <2> QED BY <1>1, <2>2, <2>3 DEF OutFrame
<1> QED BY <1>2, <1>3

----------------------------------------------------------------------------
\* udp.c.

LEMMA SendPacketOnlySends ==
    ASSUME NEW h \in HostRec, NEW f \in OutFrame
    PROVE  /\ OnlySends(h, SendPacket(h, f))
           /\ SendPacket(h, f).out = Append(h.out, f)
<1> DEFINE g == SendPacket(h, f)
<1>1. h.out \in Seq(OutFrame)
  BY DEF HostRec
<1>2. /\ Append(h.out, f) \in Seq(OutFrame) /\ Longer(h.out, Append(h.out, f))
  BY <1>1, AppendProperties, LenProperties DEF Longer
<1>3. g = [h EXCEPT !.out = Append(h.out, f)]
  BY DEF SendPacket
<1> HIDE DEF g
<1>4. g \in HostRec /\ g.out = Append(h.out, f)
  BY <1>2, <1>3 DEF HostRec
<1>5. /\ g.conf = h.conf /\ g.arptab = h.arptab /\ g.udp = h.udp /\ g.dhcp = h.dhcp
      /\ g.sntp = h.sntp /\ g.ticks = h.ticks /\ g.offset = h.offset
  BY <1>3 DEF HostRec
<1> QED BY <1>2, <1>4, <1>5 DEF OnlySends, g

LEMMA NothingSent == ASSUME NEW h \in HostRec PROVE OnlySends(h, h)
<1>1. Len(h.out) \in Nat
  BY LenProperties DEF HostRec
<1> QED BY <1>1 DEF OnlySends, Longer

LEMMA UdpSendOnlySends ==
    ASSUME NEW h \in HostRec, NEW from, NEW to \in Addrs, NEW d \in Sent
    PROVE  OnlySends(h, UdpSend(h, from, to, d))
<1>1. h.conf \in Conf /\ h.arptab \in ArpTable
  BY DEF HostRec
<1>2. Addressed(h.conf, h.arptab, to, d) \in OutFrame
  BY <1>1, AddressedType
<1> QED BY <1>2, SendPacketOnlySends, NothingSent DEF UdpSend

\* The slot in which a new socket is put.
TakesSlot(h, g, port) ==
    \E i \in UdpSlots :
        /\ h.udp[i] = NoPort
        /\ g.udp = [h.udp EXCEPT ![i] = port]

LEMMA NewSock ==
    ASSUME NEW h \in HostRec, NEW port \in Ports, ~Bound(h, port),
           \E i \in UdpSlots : h.udp[i] = NoPort
    PROVE  LET g == UdpNewSock(h, port)
           IN  /\ TakesSlot(h, g, port) /\ g \in HostRec /\ g # h
               /\ g.conf = h.conf /\ g.arptab = h.arptab /\ g.dhcp = h.dhcp
               /\ g.sntp = h.sntp /\ g.ticks = h.ticks /\ g.offset = h.offset
               /\ g.out = h.out
<1> DEFINE g == UdpNewSock(h, port)
           free == {i \in UdpSlots : h.udp[i] = NoPort}
           i == LastOf(free)
<1>1. UDP_MAX_CONNS - 1 \in Nat /\ UdpSlots = 0..(UDP_MAX_CONNS - 1)
  BY UdpAssumption DEF UdpSlots
<1>2. free # {} /\ free \in SUBSET (0..(UDP_MAX_CONNS - 1))
  BY <1>1
<1>3. i \in free
  <2> HIDE DEF free
  <2> QED BY <1>1, <1>2, LastOfIn
<1>4. FindConn(h.udp, port) = {i}
  <2>1. {j \in UdpSlots : h.udp[j] = port} = {}
    BY DEF Bound
  <2> HIDE DEF free, i
  <2>2. i = LastOf(free)
    BY DEF i
  <2> QED BY <1>2, <2>1, <2>2 DEF FindConn, free
<1>5. i \in UdpSlots /\ i \in Int /\ h.udp[i] = NoPort
  BY <1>1, <1>3
<1> HIDE DEF i, free
<1>6. g = [h EXCEPT !.udp[i] = port]
  BY <1>4, <1>5, LastOfOne DEF UdpNewSock
<1> HIDE DEF g
<1>7. h.udp \in [UdpSlots -> Ports \cup {NoPort}]
  BY DEF HostRec, Sockets
<1>8. g \in HostRec /\ g.udp = [h.udp EXCEPT ![i] = port]
  BY <1>5, <1>6, <1>7 DEF HostRec, Sockets
<1>9. g # h
  <2>1. g.udp[i] = port /\ h.udp[i] = NoPort /\ port # NoPort
    BY <1>5, <1>7, <1>8, SocketsAssumption
  <2> QED BY <2>1
<1>10. /\ g.conf = h.conf /\ g.arptab = h.arptab /\ g.dhcp = h.dhcp
       /\ g.sntp = h.sntp /\ g.ticks = h.ticks /\ g.offset = h.offset
       /\ g.out = h.out
  BY <1>6 DEF HostRec
<1> QED BY <1>5, <1>8, <1>9, <1>10 DEF TakesSlot, g

----------------------------------------------------------------------------
\* What is invariant of the router.

\* The sockets are different, those opened first are open, and the third one is
\* exactly while DHCP is done and SNTP runs.
SocketsRight(h) ==
    /\ \A i, j \in UdpSlots : h.udp[i] = h.udp[j] /\ h.udp[i] # NoPort => i = j
    /\ Bound(h, DHCP_CLIENT_PORT) /\ Bound(h, NBNS_PORT)
    /\ Bound(h, SNTP_PORT) <=> h.sntp.state # "NOT_READY"
    /\ h.dhcp.state = "DONE" <=> h.sntp.state # "NOT_READY"

\* No address has two entries.
OneEntryEach(t) == \A i, j \in Live(t) : t[i].net_addr = t[j].net_addr => i = j

\* A configured host has the whole of a lease.
Whole(h) ==
    h.dhcp.state = "DONE" =>
        \E s \in Servers :
            /\ s = h.dhcp.server
            /\ h.conf = [host |-> Lease[s], mask |-> "net", router |-> Router[s]]

\* What the servers and the station send.
Grants ==
    {Message(DHCP_CLIENT_PORT, type, s, Lease[s]) : type \in {"OFFER", "ACK"}, s \in Servers}
    \cup {Message(DHCP_CLIENT_PORT, "NAK", s, Zero) : s \in Servers}

\* As they are sent, and as they may arrive.
TimeAnswers ==
    [port : {SNTP_PORT}, type : {"ANSWER"}, size : {SNTP_SIZE, SNTP_SIZE + 20},
     mode : {2, 3}, time : {TrueTime}]

Queries == {[port |-> PING, type |-> "REQUEST"], [port |-> NBNS_PORT, type |-> "QUERY"]}

InFrame ==
    [kind : {"arp"}, iface : Ifaces \cup {0}, mac : Macs, op : {"REQUEST", "REPLY"},
     spa : Addrs, tpa : Addrs]
    \cup [kind : {"ip"}, iface : Ifaces \cup {0}, mac : Macs, src : Addrs, dst : Addrs,
          data : Grants \cup TimeAnswers \cup Queries]

----------------------------------------------------------------------------
\* dhcp.c.

LEMMA PortsDiffer ==
    /\ DHCP_CLIENT_PORT # NBNS_PORT /\ DHCP_CLIENT_PORT # SNTP_PORT /\ NBNS_PORT # SNTP_PORT
    /\ PING \notin Ports
BY DEF DHCP_CLIENT_PORT, NBNS_PORT, SNTP_PORT, PING, Ports

LEMMA RoomForSntp ==
    ASSUME NEW h \in HostRec, SocketsRight(h), ~Bound(h, SNTP_PORT)
    PROVE  \E i \in UdpSlots : h.udp[i] = NoPort
<1> SUFFICES ASSUME \A i \in UdpSlots : h.udp[i] # NoPort PROVE FALSE
  OBVIOUS
<1>1. {0, 1, 2} \subseteq UdpSlots
  BY UdpAssumption, SocketsAssumption DEF UdpSlots
<1>2. \A i \in UdpSlots : h.udp[i] \in {DHCP_CLIENT_PORT, NBNS_PORT}
  BY DEF Bound, HostRec, Sockets, Ports
<1>3. \A i, j \in UdpSlots : h.udp[i] = h.udp[j] => i = j
  BY DEF SocketsRight
<1> QED BY <1>1, <1>2, <1>3

\* A message is sent and the state set.
HasAsked(h, g, state) ==
    /\ g \in HostRec /\ g.dhcp.state = state
    /\ g.conf = h.conf /\ g.arptab = h.arptab /\ g.udp = h.udp
    /\ g.sntp = h.sntp /\ g.ticks = h.ticks /\ g.offset = h.offset
    /\ Longer(h.out, g.out)

LEMMA AskType ==
    ASSUME NEW h \in HostRec, NEW type \in {"DISCOVER", "REQUEST"},
           NEW server \in Servers \cup {NoServer},
           NEW state \in {"WAIT_FOR_OFFER", "WAIT_FOR_ACK"}
    PROVE  HasAsked(h, Ask(h, type, server, state), state)
<1> DEFINE d == Message(DHCP_SERVER_PORT, type, server, h.conf.host)
           u == UdpSend(h, DHCP_CLIENT_PORT, AllOnes, d)
           g == Ask(h, type, server, state)
<1>1. h.conf.host \in Addrs
  BY DEF HostRec, Conf
<1>2. d \in Sent
  BY <1>1 DEF Sent
<1>3. AllOnes \in Addrs
  BY ArpAssumption
<1> HIDE DEF d
<1>4. OnlySends(h, u)
  BY <1>2, <1>3, UdpSendOnlySends
<1>5. g = [u EXCEPT !.dhcp.age = 0, !.dhcp.state = state]
  BY DEF Ask, d
<1> HIDE DEF u, g
<1>6. u \in HostRec /\ u.dhcp \in DhcpState
  BY <1>4 DEF OnlySends, HostRec
<1>7. /\ g \in HostRec /\ g.dhcp.state = state
  BY <1>5, <1>6 DEF HostRec, DhcpState
<1>8. /\ g.conf = u.conf /\ g.arptab = u.arptab /\ g.udp = u.udp
      /\ g.sntp = u.sntp /\ g.ticks = u.ticks /\ g.offset = u.offset /\ g.out = u.out
  BY <1>5, <1>6 DEF HostRec
<1> QED BY <1>4, <1>7, <1>8 DEF OnlySends, HasAsked, g

\* What a step of the DHCP client leaves of the router.
DhcpFrame(h, g) ==
    /\ g.arptab = h.arptab /\ g.ticks = h.ticks /\ g.offset = h.offset
    /\ Longer(h.out, g.out)

LEMMA SocketsKept ==
    ASSUME NEW h \in HostRec, NEW g \in HostRec, SocketsRight(h), g.udp = h.udp,
           g.sntp.state = "NOT_READY" <=> h.sntp.state = "NOT_READY",
           g.dhcp.state = "DONE" <=> h.dhcp.state = "DONE"
    PROVE  SocketsRight(g)
BY DEF SocketsRight, Bound

LEMMA ParseMsgType ==
    ASSUME NEW h \in HostRec, NEW m \in Grants
    PROVE  LET p == ParseMsg(h, m)
           IN  /\ p \in HostRec /\ DhcpFrame(h, p)
               /\ p.udp = h.udp /\ p.sntp = h.sntp /\ p.dhcp.state = h.dhcp.state
               /\ p.dhcp.server = m.server /\ m.server \in Servers
               /\ m.type = "ACK" =>
                    p.conf = [host |-> Lease[m.server], mask |-> "net",
                              router |-> Router[m.server]]
<1> DEFINE p == ParseMsg(h, m)
           c == IF m.type = "ACK"
                THEN [host |-> m.addr, mask |-> "net", router |-> Router[m.server]]
                ELSE [h.conf EXCEPT !.host = m.addr]
<1>1. /\ m.server \in Servers /\ m.addr \in Addrs
      /\ m.type = "ACK" => m.addr = Lease[m.server]
  <2>1. CASE \E type \in {"OFFER", "ACK"}, s \in Servers :
                m = Message(DHCP_CLIENT_PORT, type, s, Lease[s])
    BY <2>1, HostAssumption DEF Message
  <2>2. CASE \E s \in Servers : m = Message(DHCP_CLIENT_PORT, "NAK", s, Zero)
    BY <2>2, ArpAssumption DEF Message
  <2> QED BY <2>1, <2>2 DEF Grants
<1>2. h.conf \in Conf /\ h.dhcp \in DhcpState
  BY DEF HostRec
<1>3. c \in Conf
  BY <1>1, <1>2, DhcpAssumption DEF Conf
<1>4. m.type = "ACK" => c = [host |-> Lease[m.server], mask |-> "net",
                             router |-> Router[m.server]]
  BY <1>1
<1>5. p = [h EXCEPT !.dhcp.server = m.server, !.conf = c]
  BY <1>2 DEF ParseMsg, HostRec
<1> HIDE DEF c, p
<1>6. p \in HostRec /\ p.conf = c
  BY <1>1, <1>2, <1>3, <1>5 DEF HostRec, DhcpState
<1>7. /\ p.arptab = h.arptab /\ p.ticks = h.ticks /\ p.offset = h.offset
      /\ p.udp = h.udp /\ p.sntp = h.sntp /\ p.out = h.out
  BY <1>5 DEF HostRec
<1>8. p.dhcp.state = h.dhcp.state /\ p.dhcp.server = m.server
  BY <1>2, <1>5 DEF HostRec, DhcpState
<1>9. Longer(h.out, p.out)
  BY <1>7, NothingSent DEF OnlySends
<1> QED BY <1>1, <1>4, <1>6, <1>7, <1>8, <1>9 DEF DhcpFrame, p

\* SNTP runs from now on, with a socket of its own.
LEMMA SntpInitType ==
    ASSUME NEW h \in HostRec, SocketsRight(h), h.dhcp.state # "DONE",
           NEW p \in HostRec, p = [h EXCEPT !.dhcp.state = "DONE"]
    PROVE  LET g == SntpInit(p)
           IN  /\ g \in HostRec /\ SocketsRight(g) /\ DhcpFrame(h, g)
               /\ g.conf = h.conf /\ g.dhcp = p.dhcp
               /\ h.sntp.state = "NOT_READY" /\ g.sntp = [h.sntp EXCEPT !.state = "IDLE"]
<1> DEFINE u == UdpNewSock(p, SNTP_PORT)
           g == SntpInit(p)
<1>1. h.dhcp \in DhcpState /\ h.sntp \in SntpState
  BY DEF HostRec
<1>2. /\ p.dhcp.state = "DONE" /\ p.conf = h.conf /\ p.arptab = h.arptab /\ p.udp = h.udp
      /\ p.sntp = h.sntp /\ p.ticks = h.ticks /\ p.offset = h.offset /\ p.out = h.out
  BY <1>1 DEF HostRec, DhcpState
<1>3. h.sntp.state = "NOT_READY" /\ ~Bound(h, SNTP_PORT)
  BY DEF SocketsRight
<1>4. \E i \in UdpSlots : p.udp[i] = NoPort
  BY <1>2, <1>3, RoomForSntp
<1>5. ~Bound(p, SNTP_PORT) /\ SNTP_PORT \in Ports
  BY <1>2, <1>3 DEF Bound, Ports
<1>6. /\ TakesSlot(p, u, SNTP_PORT) /\ u \in HostRec /\ u # p
      /\ u.conf = p.conf /\ u.arptab = p.arptab /\ u.dhcp = p.dhcp
      /\ u.sntp = p.sntp /\ u.ticks = p.ticks /\ u.offset = p.offset /\ u.out = p.out
  BY <1>4, <1>5, NewSock
<1>7. g = [u EXCEPT !.sntp.state = "IDLE"]
  BY <1>6 DEF SntpInit
<1> HIDE DEF u, g
<1>8. u.sntp \in SntpState
  BY <1>6 DEF HostRec
<1>9. /\ g \in HostRec /\ g.sntp = [h.sntp EXCEPT !.state = "IDLE"]
      /\ g.sntp.state = "IDLE"
  BY <1>2, <1>6, <1>7, <1>8 DEF HostRec, SntpState
<1>10. /\ g.conf = h.conf /\ g.dhcp = p.dhcp /\ g.arptab = h.arptab /\ g.udp = u.udp
       /\ g.ticks = h.ticks /\ g.offset = h.offset /\ g.out = h.out
  BY <1>2, <1>6, <1>7 DEF HostRec
<1>11. PICK i \in UdpSlots : h.udp[i] = NoPort /\ g.udp = [h.udp EXCEPT ![i] = SNTP_PORT]
  BY <1>2, <1>6, <1>10 DEF TakesSlot
<1>12. \A j \in UdpSlots : g.udp[j] = IF j = i THEN SNTP_PORT ELSE h.udp[j]
  BY <1>11 DEF HostRec, Sockets
<1>13. SocketsRight(g)
  <2>1. \A j, k \in UdpSlots : g.udp[j] = g.udp[k] /\ g.udp[j] # NoPort => j = k
    BY <1>3, <1>12 DEF SocketsRight, Bound
  <2>2. Bound(g, DHCP_CLIENT_PORT) /\ Bound(g, NBNS_PORT)
    <3>1. NoPort \notin Ports
      BY SocketsAssumption
    <3> QED BY <1>11, <1>12, <3>1 DEF SocketsRight, Bound, Ports
  <2>3. Bound(g, SNTP_PORT)
    BY <1>12 DEF Bound
  <2> QED BY <1>2, <1>9, <1>10, <2>1, <2>2, <2>3 DEF SocketsRight
<1>14. Longer(h.out, g.out)
  BY <1>10, NothingSent DEF OnlySends
<1> QED BY <1>3, <1>9, <1>10, <1>13, <1>14 DEF DhcpFrame, g

\* SNTP is left alone or started.
SntpStarts(h, g) ==
    \/ g.sntp = h.sntp
    \/ h.sntp.state = "NOT_READY" /\ g.sntp = [h.sntp EXCEPT !.state = "IDLE"]

LEMMA DhcpEventType ==
    ASSUME NEW h \in HostRec, SocketsRight(h), NEW m \in Grants
    PROVE  LET g == DhcpEvent(h, m)
           IN  /\ g \in HostRec /\ SocketsRight(g) /\ DhcpFrame(h, g) /\ SntpStarts(h, g)
               /\ (h.dhcp.state = "DONE" => m.type = "ACK") => Whole(g)
<1> DEFINE p == ParseMsg(h, m)
           q == [p EXCEPT !.dhcp.state = "DONE"]
           g == DhcpEvent(h, m)
<1>1. /\ p \in HostRec /\ DhcpFrame(h, p) /\ p.udp = h.udp /\ p.sntp = h.sntp
      /\ p.dhcp.state = h.dhcp.state /\ p.dhcp.server = m.server /\ m.server \in Servers
      /\ m.type = "ACK" => p.conf = [host |-> Lease[m.server], mask |-> "net",
                                     router |-> Router[m.server]]
  BY ParseMsgType
<1>2. m.type \in {"OFFER", "ACK", "NAK"}
  BY DEF Grants, Message
<1>3. p.dhcp \in DhcpState
  BY <1>1 DEF HostRec
<1>4. /\ SendRequest(p) = Ask(p, "REQUEST", p.dhcp.server, "WAIT_FOR_ACK")
      /\ SendDiscover(p) = Ask(p, "DISCOVER", NoServer, "WAIT_FOR_OFFER")
      /\ p.dhcp.server \in Servers \cup {NoServer}
  BY <1>1 DEF SendRequest, SendDiscover
<1>5. CASE h.dhcp.state = "DONE"
  <2>1. g = p
    BY <1>5 DEF DhcpEvent
  <2>2. SocketsRight(p)
    BY <1>1, SocketsKept
  <2>3. m.type = "ACK" => Whole(p)
    BY <1>1 DEF Whole
  <2> QED BY <1>1, <1>5, <2>1, <2>2, <2>3 DEF SntpStarts
<1>6. CASE h.dhcp.state # "DONE" /\ m.type = "ACK"
  <2>1. g = SntpInit(q)
    BY <1>6 DEF DhcpEvent
  <2>2. SocketsRight(p)
    BY <1>1, SocketsKept
  <2>3. q \in HostRec /\ q.dhcp.server = m.server
    BY <1>1, <1>3 DEF HostRec, DhcpState
  <2> HIDE DEF g, p, q
  <2>4. q = [p EXCEPT !.dhcp.state = "DONE"]
    BY DEF q
  <2>5. /\ SntpInit(q) \in HostRec /\ SocketsRight(SntpInit(q)) /\ DhcpFrame(p, SntpInit(q))
        /\ SntpInit(q).conf = p.conf /\ SntpInit(q).dhcp = q.dhcp
        /\ p.sntp.state = "NOT_READY"
        /\ SntpInit(q).sntp = [p.sntp EXCEPT !.state = "IDLE"]
    BY <1>1, <1>6, <2>2, <2>3, <2>4, SntpInitType
  <2>6. DhcpFrame(h, g)
    BY <1>1, <2>1, <2>5 DEF DhcpFrame, Longer
  <2>7. Whole(g)
    BY <1>1, <1>6, <2>1, <2>3, <2>5 DEF Whole
  <2>8. SntpStarts(h, g)
    BY <1>1, <2>1, <2>5 DEF SntpStarts
  <2> QED BY <2>1, <2>5, <2>6, <2>7, <2>8 DEF g
<1>7. CASE h.dhcp.state # "DONE" /\ m.type # "ACK"
  <2>1. g = SendRequest(p) \/ g = SendDiscover(p)
    BY <1>7 DEF DhcpEvent
  <2>2. /\ HasAsked(p, SendRequest(p), "WAIT_FOR_ACK")
        /\ HasAsked(p, SendDiscover(p), "WAIT_FOR_OFFER")
    <3> HIDE DEF p
    <3> QED BY <1>1, <1>4, AskType
  <2> HIDE DEF p, g
  <2>3. /\ g \in HostRec /\ g.dhcp.state \in {"WAIT_FOR_ACK", "WAIT_FOR_OFFER"}
        /\ g.conf = p.conf /\ g.arptab = p.arptab /\ g.udp = p.udp
        /\ g.sntp = p.sntp /\ g.ticks = p.ticks /\ g.offset = p.offset
        /\ Longer(p.out, g.out)
    BY <2>1, <2>2 DEF HasAsked
  <2>4. SocketsRight(g)
    BY <1>1, <1>7, <2>3, SocketsKept
  <2>5. DhcpFrame(h, g) /\ SntpStarts(h, g)
    BY <1>1, <2>3 DEF DhcpFrame, SntpStarts, Longer
  <2>6. Whole(g)
    BY <2>3 DEF Whole
  <2> QED BY <2>3, <2>4, <2>5, <2>6 DEF g
<1> QED BY <1>5, <1>6, <1>7

LEMMA DhcpProcessType ==
    ASSUME NEW h \in HostRec, SocketsRight(h)
    PROVE  LET g == DhcpProcess(h)
           IN  /\ g \in HostRec /\ SocketsRight(g) /\ DhcpFrame(h, g)
               /\ g.sntp = h.sntp /\ g.conf = h.conf
               /\ Whole(h) => Whole(g)
<1> DEFINE g == DhcpProcess(h)
<1>1. CASE g = h
  <2>1. Longer(h.out, h.out)
    BY NothingSent DEF OnlySends
  <2> QED BY <1>1, <2>1 DEF DhcpFrame
<1>2. CASE g # h
  <2>1. /\ h.dhcp.state # "DONE"
        /\ \/ g = Ask(h, "REQUEST", h.dhcp.server, "WAIT_FOR_ACK")
           \/ g = Ask(h, "DISCOVER", NoServer, "WAIT_FOR_OFFER")
    BY <1>2 DEF DhcpProcess, SendRequest, SendDiscover
  <2>2. h.dhcp.server \in Servers \cup {NoServer}
    BY DEF HostRec, DhcpState
  <2>3. /\ HasAsked(h, Ask(h, "REQUEST", h.dhcp.server, "WAIT_FOR_ACK"), "WAIT_FOR_ACK")
        /\ HasAsked(h, Ask(h, "DISCOVER", NoServer, "WAIT_FOR_OFFER"), "WAIT_FOR_OFFER")
    BY <2>2, AskType
  <2> HIDE DEF g
  <2>4. /\ g \in HostRec /\ g.dhcp.state \in {"WAIT_FOR_ACK", "WAIT_FOR_OFFER"}
        /\ g.conf = h.conf /\ g.arptab = h.arptab /\ g.udp = h.udp
        /\ g.sntp = h.sntp /\ g.ticks = h.ticks /\ g.offset = h.offset
        /\ Longer(h.out, g.out)
    BY <2>1, <2>3 DEF HasAsked
  <2>5. SocketsRight(g) /\ Whole(g)
    BY <2>1, <2>4, SocketsKept DEF Whole
  <2> QED BY <2>4, <2>5 DEF DhcpFrame, g
<1> QED BY <1>1, <1>2

----------------------------------------------------------------------------
\* sntp.c.

LEMMA TicksInType ==
    ASSUME NEW h \in HostRec, NEW n \in 0..(TickMod - 1)
    PROVE  TicksIn(h, n) \in 0..(TickMod - 1)
<1>1. TickMod \in Nat \ {0} /\ h.ticks \in Nat /\ h.ticks + n \in Int
  BY SntpAssumption DEF HostRec
<1>2. (h.ticks + n) % TickMod \in 0..(TickMod - 1)
  BY <1>1
<1> QED BY <1>2 DEF TicksIn

\* What a step of the SNTP client leaves of the router.
SntpFrame(h, g) ==
    /\ g \in HostRec
    /\ g.conf = h.conf /\ g.arptab = h.arptab /\ g.udp = h.udp /\ g.dhcp = h.dhcp
    /\ g.ticks = h.ticks
    /\ g.sntp.state = "NOT_READY" <=> h.sntp.state = "NOT_READY"
    /\ Longer(h.out, g.out)

LEMMA SntpProcessType ==
    ASSUME NEW h \in HostRec
    PROVE  LET g == SntpProcess(h)
           IN  /\ SntpFrame(h, g) /\ g.offset = h.offset
               /\ h.sntp.state = "NOT_READY" \/ h.ticks <= h.sntp.next => g = h
<1> DEFINE g == SntpProcess(h)
           d == [port |-> SNTP_PORT, type |-> "REQUEST"]
<1>1. /\ h.ticks \in Nat /\ h.sntp.next \in Nat /\ h.sntp \in SntpState
      /\ h.sntp.interval \in MIN_INTERVAL..MAX_INTERVAL
  BY DEF HostRec, SntpState
<1>2. CASE h.sntp.state = "NOT_READY" \/ h.ticks <= h.sntp.next
  <2>1. g = h
    BY <1>1, <1>2 DEF SntpProcess
  <2>2. Longer(h.out, h.out)
    BY NothingSent DEF OnlySends
  <2> QED BY <2>1, <2>2 DEF SntpFrame
<1>3. CASE h.sntp.state = "IDLE" /\ h.ticks > h.sntp.next
  <2> DEFINE u == SntpSendRequest(h)
             next == TicksIn(h, TIMEOUT)
  <2>1. d \in Sent /\ TimeServer \in Addrs
    BY SntpAssumption DEF Sent
  <2>2. OnlySends(h, u)
    BY <2>1, UdpSendOnlySends DEF SntpSendRequest
  <2>3. TIMEOUT \in 0..(TickMod - 1)
    BY SntpAssumption
  <2>4. next \in 0..(TickMod - 1)
    BY <2>3, TicksInType
  <2>5. ~(h.sntp.state = "NOT_READY" \/ h.ticks <= h.sntp.next)
    BY <1>1, <1>3
  <2> HIDE DEF u, next
  <2>6. g = [u EXCEPT !.sntp.state = "WAITING_FOR_RESPONSE", !.sntp.next = next]
    BY <1>3, <2>5 DEF SntpProcess, u, next
  <2> HIDE DEF g
  <2>7. u \in HostRec /\ u.sntp \in SntpState
    BY <2>2 DEF OnlySends, HostRec
  <2>8. g \in HostRec /\ g.sntp.state = "WAITING_FOR_RESPONSE"
    BY <2>4, <2>6, <2>7 DEF HostRec, SntpState
  <2>9. /\ g.conf = u.conf /\ g.arptab = u.arptab /\ g.udp = u.udp /\ g.dhcp = u.dhcp
        /\ g.ticks = u.ticks /\ g.offset = u.offset /\ g.out = u.out
    BY <2>6, <2>7 DEF HostRec
  <2>10. SntpFrame(h, g) /\ g.offset = h.offset
    BY <1>3, <2>2, <2>8, <2>9 DEF OnlySends, SntpFrame
  <2> QED BY <2>5, <2>10 DEF g
<1>4. CASE h.sntp.state \notin {"NOT_READY", "IDLE"} /\ ~(h.ticks <= h.sntp.next)
  <2> DEFINE s == [state |-> "IDLE", interval |-> Backoff(h.sntp.interval),
                   next |-> TicksIn(h, h.sntp.interval)]
  <2>1. /\ MIN_INTERVAL \in Nat /\ MAX_INTERVAL \in Nat /\ MAX_INTERVAL <= TickMod - 1
        /\ MIN_INTERVAL <= MAX_INTERVAL /\ TickMod \in Nat
    BY SntpAssumption
  <2>2. Backoff(h.sntp.interval) \in MIN_INTERVAL..MAX_INTERVAL
    BY <1>1, <2>1 DEF Backoff
  <2>3. h.sntp.interval \in 0..(TickMod - 1)
    BY <1>1, <2>1
  <2>4. TicksIn(h, h.sntp.interval) \in 0..(TickMod - 1)
    BY <2>3, TicksInType
  <2>5. s \in SntpState /\ s.state = "IDLE"
    BY <2>2, <2>4 DEF SntpState
  <2>6. g = [h EXCEPT !.sntp = s]
    BY <1>4 DEF SntpProcess, HostRec
  <2> HIDE DEF g, s
  <2>7. g \in HostRec /\ g.sntp = s
    BY <2>5, <2>6 DEF HostRec
  <2>8. /\ g.conf = h.conf /\ g.arptab = h.arptab /\ g.udp = h.udp /\ g.dhcp = h.dhcp
        /\ g.ticks = h.ticks /\ g.offset = h.offset /\ g.out = h.out
    BY <2>6 DEF HostRec
  <2>9. Longer(h.out, g.out)
    BY <2>8, NothingSent DEF OnlySends
  <2>10. SntpFrame(h, g) /\ g.offset = h.offset
    BY <1>4, <2>5, <2>7, <2>8, <2>9 DEF SntpFrame
  <2> QED BY <1>4, <2>10 DEF g
<1>5. h.sntp.state \in {"NOT_READY", "IDLE", "WAITING_FOR_RESPONSE"}
  BY <1>1 DEF SntpState
<1>6. h.ticks > h.sntp.next <=> ~(h.ticks <= h.sntp.next)
  BY <1>1
<1> HIDE DEF g
<1>7. /\ SntpFrame(h, g) /\ g.offset = h.offset
      /\ h.sntp.state = "NOT_READY" \/ h.ticks <= h.sntp.next => g = h
  BY <1>2, <1>3, <1>4, <1>5, <1>6 DEF g
<1> QED BY <1>7 DEF g

\* The state of SNTP after an answer.
Synchronised(h) ==
    [state |-> "IDLE", interval |-> MIN_INTERVAL, next |-> TicksIn(h, RESYNC_INTERVAL)]

LEMMA GetResponseType ==
    ASSUME NEW h \in HostRec, h.sntp.state # "NOT_READY", NEW m \in TimeAnswers,
           ~Unsynchronized(m)
    PROVE  LET g == GetResponse(h, m)
           IN  /\ SntpFrame(h, g)
               /\ g.offset = FromNtp(TrueTime) - h.offset /\ g.sntp = Synchronised(h)
<1> DEFINE u == [h EXCEPT !.sntp = Synchronised(h)]
           g == GetResponse(h, m)
<1>1. /\ MIN_INTERVAL \in MIN_INTERVAL..MAX_INTERVAL
      /\ RESYNC_INTERVAL \in 0..(TickMod - 1)
  BY SntpAssumption
<1>2. TicksIn(h, RESYNC_INTERVAL) \in 0..(TickMod - 1)
  BY <1>1, TicksInType
<1>3. Synchronised(h) \in SntpState /\ Synchronised(h).state = "IDLE"
  BY <1>1, <1>2 DEF Synchronised, SntpState
<1>4. u \in HostRec /\ u.offset = h.offset /\ u.sntp = Synchronised(h)
  BY <1>3 DEF HostRec
<1>5. FromNtp(TrueTime) - h.offset \in {0, FromNtp(TrueTime)}
  BY HostAssumption DEF HostRec, FromNtp, EpochError
<1>6. g = [u EXCEPT !.offset = FromNtp(TrueTime) - h.offset]
  BY <1>4 DEF GetResponse, SetTime, GetTime, Synchronised, TimeAnswers
<1>7. /\ u.conf = h.conf /\ u.arptab = h.arptab /\ u.udp = h.udp /\ u.dhcp = h.dhcp
      /\ u.ticks = h.ticks /\ u.out = h.out
  BY DEF HostRec
<1> HIDE DEF u, g
<1>8. g \in HostRec /\ g.offset = FromNtp(TrueTime) - h.offset
  BY <1>4, <1>5, <1>6 DEF HostRec
<1>9. /\ g.conf = u.conf /\ g.arptab = u.arptab /\ g.udp = u.udp /\ g.dhcp = u.dhcp
      /\ g.ticks = u.ticks /\ g.out = u.out /\ g.sntp = u.sntp
  BY <1>4, <1>6 DEF HostRec
<1>10. Longer(h.out, g.out)
  BY <1>7, <1>9, NothingSent DEF OnlySends
<1>11. g.sntp = Synchronised(h) /\ SntpFrame(h, g)
  BY <1>3, <1>4, <1>7, <1>8, <1>9, <1>10 DEF SntpFrame
<1> QED BY <1>8, <1>11 DEF g

----------------------------------------------------------------------------
\* stack.c.

LEMMA InsertKeeps ==
    ASSUME NEW t \in ArpTable, OneEntryEach(t), NEW i \in Ifaces \cup {0}, NEW a \in Addrs,
           NEW mac \in Macs
    PROVE  LET u == Insert(t, i, a, mac)
               k == FindSlot(t, a)
           IN  /\ u \in ArpTable /\ OneEntryEach(u)
               /\ Mapping(u, a) = {k}
               /\ u[k] = [iface |-> i, net_addr |-> a, phys_addr |-> mac]
<1> DEFINE e == [iface |-> i, net_addr |-> a, phys_addr |-> mac]
           k == FindSlot(t, a)
           u == Insert(t, i, a, mac)
<1>1. u \in ArpTable
  BY InsertType
<1>2. k \in Entries /\ (Mapping(t, a) # {} => k \in Mapping(t, a))
  BY FindSlotType
<1>3. e # NoEntry /\ e.net_addr = a
  BY ArpAssumption DEF NoEntry
<1>4. \A j \in Entries : u[j] = IF j = k THEN e ELSE t[j]
  BY <1>2 DEF Insert, ArpTable
<1> HIDE DEF u, k, e
<1>5. Live(u) = Live(t) \cup {k}
  BY <1>2, <1>3, <1>4 DEF Live
<1>6. \A j \in Live(t) : t[j].net_addr = a => j = k
  BY <1>2 DEF OneEntryEach, Mapping
<1>7. Live(t) \subseteq Entries
  BY DEF Live
<1>8. OneEntryEach(u)
  BY <1>2, <1>3, <1>4, <1>5, <1>6, <1>7 DEF OneEntryEach
<1>9. Mapping(u, a) = {k}
  BY <1>2, <1>3, <1>4, <1>5, <1>6, <1>7 DEF Mapping
<1> QED BY <1>1, <1>2, <1>4, <1>8, <1>9 DEF u, k, e

\* What is invariant of the router, the lease apart.
Right(h) == h \in HostRec /\ SocketsRight(h) /\ OneEntryEach(h.arptab)

\* SNTP got an answer.
Answering(h, g) ==
    /\ h.sntp.state # "NOT_READY"
    /\ g.offset = FromNtp(TrueTime) - h.offset /\ g.sntp = Synchronised(h)

\* What a frame changes of the clock.
ClockStep(h, g) ==
    /\ g.ticks = h.ticks
    /\ \/ g.offset = h.offset /\ SntpStarts(h, g)
       \/ Answering(h, g)

LEMMA LearntType ==
    ASSUME NEW h, Right(h), NEW f \in InFrame, NEW a \in Addrs
    PROVE  LET g == Learnt(h, f, a)
           IN  /\ Right(g)
               /\ g.arptab = Insert(h.arptab, f.iface, a, f.mac)
               /\ g.conf = h.conf /\ g.udp = h.udp /\ g.dhcp = h.dhcp /\ g.sntp = h.sntp
               /\ g.ticks = h.ticks /\ g.offset = h.offset /\ g.out = h.out
<1> DEFINE u == Insert(h.arptab, f.iface, a, f.mac)
           g == Learnt(h, f, a)
<1>1. h \in HostRec /\ h.arptab \in ArpTable /\ OneEntryEach(h.arptab) /\ SocketsRight(h)
  BY DEF Right, HostRec
<1>2. f.iface \in Ifaces \cup {0} /\ f.mac \in Macs
  BY DEF InFrame
<1>3. u \in ArpTable /\ OneEntryEach(u)
  BY <1>1, <1>2, InsertKeeps
<1>4. g = [h EXCEPT !.arptab = u]
  BY <1>1 DEF Learnt
<1> HIDE DEF g, u
<1>5. g \in HostRec /\ g.arptab = u
  BY <1>1, <1>3, <1>4 DEF HostRec
<1>6. /\ g.conf = h.conf /\ g.udp = h.udp /\ g.dhcp = h.dhcp /\ g.sntp = h.sntp
      /\ g.ticks = h.ticks /\ g.offset = h.offset /\ g.out = h.out
  BY <1>1, <1>4 DEF HostRec
<1>7. SocketsRight(g)
  BY <1>1, <1>5, <1>6, SocketsKept
<1> QED BY <1>3, <1>5, <1>6, <1>7 DEF Right, g, u

\* Whether f is a message that changes the configuration of a configured host.
ComesLate(h, f) ==
    /\ h.dhcp.state = "DONE" /\ f.kind = "ip"
    /\ f.data.port = DHCP_CLIENT_PORT /\ f.data.type # "ACK"

LEMMA InData ==
    ASSUME NEW d \in Grants \cup TimeAnswers \cup Queries
    PROVE  /\ d \in Grants => d.port = DHCP_CLIENT_PORT
           /\ d.port = DHCP_CLIENT_PORT => d \in Grants
           /\ d.port = SNTP_PORT => d \in TimeAnswers
           /\ d.port \in {PING, DHCP_CLIENT_PORT, NBNS_PORT, SNTP_PORT}
BY DEF Grants, TimeAnswers, Queries, Message, PING, DHCP_CLIENT_PORT, NBNS_PORT, SNTP_PORT

LEMMA OnlySendsRight ==
    ASSUME NEW h, Right(h), NEW g, OnlySends(h, g)
    PROVE  /\ Right(g) /\ g.conf = h.conf /\ ClockStep(h, g) /\ Longer(h.out, g.out)
           /\ g.arptab = h.arptab /\ (Whole(h) => Whole(g))
<1>1. g \in HostRec /\ h \in HostRec
  BY DEF Right, OnlySends
<1>2. SocketsRight(g)
  BY <1>1, SocketsKept DEF Right, OnlySends
<1> QED BY <1>1, <1>2 DEF Right, OnlySends, ClockStep, SntpStarts, Whole

LEMMA IpReceiveType ==
    ASSUME NEW h, Right(h), NEW f \in InFrame, f.kind = "ip"
    PROVE  LET g == IpReceive(h, f)
           IN  /\ Right(g) /\ ClockStep(h, g)
               /\ Whole(h) /\ ~ComesLate(h, f) => Whole(g)
<1> DEFINE g == IpReceive(h, f)
<1>1. f.src \in Addrs /\ f.data \in Grants \cup TimeAnswers \cup Queries
  BY DEF InFrame
<1>2. h \in HostRec /\ h.conf \in Conf /\ h.arptab \in ArpTable /\ SocketsRight(h)
  BY DEF Right, HostRec
<1>3. CASE f.data.port = PING
  <2> DEFINE d == [port |-> PING, type |-> "REPLY"]
  <2>1. d \in Sent
    BY DEF Sent
  <2> HIDE DEF d
  <2>2. Addressed(h.conf, h.arptab, f.src, d) \in OutFrame
    BY <1>1, <1>2, <2>1, AddressedType
  <2>3. g = SendPacket(h, Addressed(h.conf, h.arptab, f.src, d))
    BY <1>3, PortsDiffer DEF IpReceive, IcmpSendReply, d, Ports
  <2>4. OnlySends(h, g)
    BY <1>2, <2>2, <2>3, SendPacketOnlySends
  <2> QED BY <2>4, OnlySendsRight
<1>4. CASE f.data.port = NBNS_PORT
  <2> DEFINE d == [port |-> NBNS_PORT, type |-> "RESPONSE", addr |-> h.conf.host]
  <2>1. d \in Sent
    BY <1>2 DEF Sent, Conf
  <2> HIDE DEF d
  <2>2. g = UdpSend(h, NBNS_PORT, f.src, d)
    BY <1>2, <1>4, PortsDiffer DEF IpReceive, NbnsSendResponse, d, Ports, SocketsRight
  <2>3. OnlySends(h, g)
    BY <1>1, <1>2, <2>1, <2>2, UdpSendOnlySends
  <2> QED BY <2>3, OnlySendsRight
<1>5. CASE f.data.port = DHCP_CLIENT_PORT
  <2>1. f.data \in Grants
    BY <1>1, <1>5, InData
  <2>2. g = DhcpEvent(h, f.data)
    BY <1>2, <1>5, PortsDiffer DEF IpReceive, Ports, SocketsRight
  <2> HIDE DEF g
  <2>3. /\ g \in HostRec /\ SocketsRight(g) /\ DhcpFrame(h, g) /\ SntpStarts(h, g)
        /\ (h.dhcp.state = "DONE" => f.data.type = "ACK") => Whole(g)
    BY <1>2, <2>1, <2>2, DhcpEventType
  <2>4. ~ComesLate(h, f) => Whole(g)
    BY <1>5, <2>3 DEF ComesLate
  <2>5. Right(g) /\ ClockStep(h, g)
    BY <2>3 DEF Right, ClockStep, DhcpFrame
  <2> QED BY <2>4, <2>5 DEF g
<1>6. CASE f.data.port = SNTP_PORT
  <2>1. f.data \in TimeAnswers
    BY <1>1, <1>6, InData
  <2>2. CASE Bound(h, SNTP_PORT) /\ f.data.size = SNTP_SIZE /\ ~Unsynchronized(f.data)
    <3>1. g = GetResponse(h, f.data)
      BY <1>6, <2>2, PortsDiffer DEF IpReceive, SntpEvent, Ports
    <3>2. h.sntp.state # "NOT_READY"
      BY <1>2, <2>2 DEF SocketsRight
    <3> HIDE DEF g
    <3>3. SntpFrame(h, g) /\ g.offset = FromNtp(TrueTime) - h.offset /\ g.sntp = Synchronised(h)
      BY <1>2, <2>1, <2>2, <3>1, <3>2, GetResponseType
    <3>4. g \in HostRec /\ SocketsRight(g)
      BY <1>2, <3>3, SocketsKept DEF SntpFrame
    <3>5. Right(g) /\ ClockStep(h, g) /\ (Whole(h) => Whole(g))
      BY <3>2, <3>3, <3>4 DEF Right, ClockStep, Answering, SntpFrame, Whole
    <3> QED BY <3>5 DEF g
  <2>3. CASE ~(Bound(h, SNTP_PORT) /\ f.data.size = SNTP_SIZE /\ ~Unsynchronized(f.data))
    <3>1. g = h
      BY <1>6, <2>3, PortsDiffer DEF IpReceive, SntpEvent, GetResponse, Ports
    <3> QED BY <3>1 DEF ClockStep, SntpStarts
  <2> QED BY <2>2, <2>3
<1>7. f.data.port \in {PING, DHCP_CLIENT_PORT, NBNS_PORT, SNTP_PORT}
  BY <1>1, InData
<1> QED BY <1>3, <1>4, <1>5, <1>6, <1>7

LEMMA ReceivePacketType ==
    ASSUME NEW h, Right(h), NEW f \in InFrame
    PROVE  LET g == ReceivePacket(h, f)
           IN  /\ Right(g) /\ ClockStep(h, g)
               /\ Whole(h) /\ ~ComesLate(h, f) => Whole(g)
<1> DEFINE g == ReceivePacket(h, f)
<1>1. CASE f.kind = "arp" /\ AsksForHost(h.conf, f)
  <2>1. g = SendPacket(h, ArpReply(h.conf, f))
    BY <1>1 DEF ReceivePacket, HandleArp
  <2>2. h \in HostRec /\ h.conf.host \in Addrs
    BY DEF Right, HostRec, Conf
  <2>3. ArpReply(h.conf, f) \in OutFrame
    BY <1>1, <2>2 DEF ArpReply, OutFrame, InFrame, AnyIface, AnyMac
  <2>4. OnlySends(h, g)
    BY <2>1, <2>2, <2>3, SendPacketOnlySends
  <2> QED BY <2>4, OnlySendsRight
<1>2. ASSUME NEW a \in Addrs
      PROVE  LET l == Learnt(h, f, a)
             IN  /\ Right(l) /\ ClockStep(h, l) /\ (Whole(h) => Whole(l))
                 /\ l.dhcp = h.dhcp /\ l.ticks = h.ticks /\ l.offset = h.offset
                 /\ l.sntp = h.sntp
  <2> DEFINE l == Learnt(h, f, a)
  <2>1. /\ Right(l) /\ l.conf = h.conf /\ l.dhcp = h.dhcp /\ l.sntp = h.sntp
        /\ l.ticks = h.ticks /\ l.offset = h.offset
    BY LearntType
  <2> HIDE DEF l
  <2>2. ClockStep(h, l) /\ (Whole(h) => Whole(l))
    BY <2>1 DEF ClockStep, SntpStarts, Whole
  <2> QED BY <2>1, <2>2 DEF l
<1>3. CASE f.kind = "arp" /\ ~AsksForHost(h.conf, f)
  <2>1. g = Learnt(h, f, f.spa) /\ f.spa \in Addrs
    BY <1>3 DEF ReceivePacket, HandleArp, InFrame
  <2> QED BY <1>2, <2>1
<1>4. CASE f.kind = "ip"
  <2> DEFINE l == Learnt(h, f, f.src)
  <2>1. f.src \in Addrs
    BY <1>4 DEF InFrame
  <2>2. /\ Right(l) /\ ClockStep(h, l) /\ (Whole(h) => Whole(l))
        /\ l.dhcp = h.dhcp /\ l.ticks = h.ticks /\ l.offset = h.offset /\ l.sntp = h.sntp
    BY <1>2, <2>1
  <2>3. CASE ~ForUs(h, f)
    <3>1. g = l
      BY <1>4, <2>3 DEF ReceivePacket
    <3> QED BY <2>2, <3>1
  <2>4. CASE ForUs(h, f)
    <3>1. g = IpReceive(l, f)
      BY <1>4, <2>4 DEF ReceivePacket
    <3> HIDE DEF g, l
    <3>2. /\ Right(g) /\ ClockStep(l, g)
          /\ Whole(l) /\ ~ComesLate(l, f) => Whole(g)
      BY <1>4, <2>2, <3>1, IpReceiveType
    <3>3. ComesLate(l, f) <=> ComesLate(h, f)
      BY <2>2 DEF ComesLate
    <3>4. ClockStep(h, g)
      BY <2>2, <3>2 DEF ClockStep, SntpStarts, Answering, Synchronised, TicksIn
    <3> QED BY <2>2, <3>2, <3>3, <3>4 DEF g
  <2> QED BY <2>3, <2>4
<1>5. f.kind \in {"arp", "ip"}
  BY DEF InFrame
<1> QED BY <1>1, <1>3, <1>4, <1>5

LEMMA ProcessType ==
    ASSUME NEW h, Right(h)
    PROVE  LET g == Process(h)
           IN  /\ Right(g) /\ Longer(h.out, g.out) /\ (Whole(h) => Whole(g))
               /\ g.conf = h.conf /\ g.arptab = h.arptab
               /\ g.ticks = h.ticks /\ g.offset = h.offset
               /\ g.sntp.state = "NOT_READY" <=> h.sntp.state = "NOT_READY"
               /\ h.sntp.state = "NOT_READY" \/ h.ticks <= h.sntp.next => g.sntp = h.sntp
<1> DEFINE d == DhcpProcess(h)
           g == SntpProcess(d)
<1>1. Process(h) = g
  BY DEF Process
<1>2. h \in HostRec /\ SocketsRight(h) /\ OneEntryEach(h.arptab)
  BY DEF Right
<1>3. /\ d \in HostRec /\ SocketsRight(d) /\ DhcpFrame(h, d) /\ d.sntp = h.sntp
      /\ d.conf = h.conf /\ (Whole(h) => Whole(d))
  BY <1>2, DhcpProcessType
<1> HIDE DEF d
<1>4. /\ SntpFrame(d, g) /\ g.offset = d.offset
      /\ d.sntp.state = "NOT_READY" \/ d.ticks <= d.sntp.next => g = d
  BY <1>3, SntpProcessType
<1> HIDE DEF g
<1>5. SocketsRight(g)
  BY <1>3, <1>4, SocketsKept DEF SntpFrame
<1>6. Right(g)
  BY <1>2, <1>3, <1>4, <1>5 DEF Right, SntpFrame, DhcpFrame
<1>7. Longer(h.out, g.out)
  <2>1. Longer(h.out, d.out) /\ Longer(d.out, g.out)
    BY <1>3, <1>4 DEF DhcpFrame, SntpFrame
  <2>2. Len(h.out) \in Nat /\ Len(d.out) \in Nat /\ Len(g.out) \in Nat
    BY <1>2, <1>3, <1>4, LenProperties DEF HostRec, SntpFrame
  <2> QED BY <2>1, <2>2 DEF Longer
<1>8. Whole(h) => Whole(g)
  BY <1>3, <1>4 DEF SntpFrame, Whole
<1>9. /\ g.conf = h.conf /\ g.arptab = h.arptab
      /\ g.ticks = h.ticks /\ g.offset = h.offset
      /\ g.sntp.state = "NOT_READY" <=> h.sntp.state = "NOT_READY"
  BY <1>3, <1>4 DEF SntpFrame, DhcpFrame
<1>10. h.sntp.state = "NOT_READY" \/ h.ticks <= h.sntp.next => g.sntp = h.sntp
  BY <1>3, <1>4 DEF DhcpFrame
<1> QED BY <1>1, <1>6, <1>7, <1>8, <1>9, <1>10

LEMMA Started ==
    /\ Right(StartedHost) /\ StartedHost.dhcp.state # "DONE"
    /\ StartedHost.sntp.state = "NOT_READY" /\ StartedHost.offset = 0
<1> DEFINE blank == [conf |-> Unconfigured, arptab |-> [i \in Entries |-> NoEntry],
                     udp |-> NoSockets, sntp |-> SntpNotReady,
                     dhcp |-> [state |-> "IDLE", server |-> NoServer, age |-> 0],
                     ticks |-> 0, offset |-> 0, out |-> <<>>]
           u == UdpNewSock(blank, DHCP_CLIENT_PORT)
           a == SendDiscover(u)
           g == UdpNewSock(a, NBNS_PORT)
<1>1. StartedHost = UdpNewSock(DhcpInit(blank), NBNS_PORT)
  BY DEF StartedHost
<1>2. blank \in HostRec
  <2>1. Unconfigured \in Conf
    BY ArpAssumption DEF Unconfigured, Conf
  <2>2. NoEntry \in Entry
    BY ArpAssumption DEF NoEntry, Entry, AnyMac
  <2>3. [i \in Entries |-> NoEntry] \in ArpTable
    BY <2>2 DEF ArpTable
  <2>4. NoSockets \in Sockets
    BY DEF NoSockets, Sockets
  <2>5. SntpNotReady \in SntpState
    BY SntpAssumption DEF SntpNotReady, SntpState
  <2>6. [state |-> "IDLE", server |-> NoServer, age |-> 0] \in DhcpState
    BY DEF DhcpState
  <2>7. 0 \in 0..(TickMod - 1) /\ <<>> \in Seq(OutFrame)
    BY SntpAssumption
  <2> QED BY <2>1, <2>3, <2>4, <2>5, <2>6, <2>7 DEF HostRec
<1>3. /\ blank.sntp.state = "NOT_READY" /\ blank.offset = 0
      /\ blank.arptab = [i \in Entries |-> NoEntry]
      /\ \A i \in UdpSlots : blank.udp[i] = NoPort
  BY DEF SntpNotReady, NoSockets
<1> HIDE DEF blank
<1>4. /\ {0, 1, 2} \subseteq UdpSlots /\ NoPort \notin Ports
      /\ {DHCP_CLIENT_PORT, NBNS_PORT, SNTP_PORT} \subseteq Ports
  BY UdpAssumption, SocketsAssumption DEF UdpSlots, Ports
<1>5. ~Bound(blank, DHCP_CLIENT_PORT)
  BY <1>3, <1>4 DEF Bound
<1>6. \E i \in UdpSlots : blank.udp[i] = NoPort
  BY <1>3, <1>4
<1>7. /\ TakesSlot(blank, u, DHCP_CLIENT_PORT) /\ u \in HostRec
      /\ u.arptab = blank.arptab /\ u.sntp = blank.sntp /\ u.offset = blank.offset
  BY <1>2, <1>4, <1>5, <1>6, NewSock
<1>8. PICK i \in UdpSlots : \A k \in UdpSlots :
            u.udp[k] = IF k = i THEN DHCP_CLIENT_PORT ELSE NoPort
  BY <1>2, <1>3, <1>7 DEF TakesSlot, HostRec, Sockets
<1> HIDE DEF u
<1>9. HasAsked(u, a, "WAIT_FOR_OFFER")
  BY <1>7, AskType DEF SendDiscover
<1> HIDE DEF a
<1>10. /\ a \in HostRec /\ a.udp = u.udp /\ a.arptab = u.arptab /\ a.sntp = u.sntp
       /\ a.offset = u.offset /\ a.dhcp.state = "WAIT_FOR_OFFER"
  BY <1>9 DEF HasAsked
<1>11. ~Bound(a, NBNS_PORT) /\ \E k \in UdpSlots : a.udp[k] = NoPort
  BY <1>4, <1>8, <1>10, PortsDiffer DEF Bound
<1>12. /\ TakesSlot(a, g, NBNS_PORT) /\ g \in HostRec
       /\ g.arptab = a.arptab /\ g.sntp = a.sntp /\ g.offset = a.offset /\ g.dhcp = a.dhcp
  BY <1>4, <1>10, <1>11, NewSock
<1> HIDE DEF g
<1>13. PICK j \in UdpSlots : /\ a.udp[j] = NoPort
                             /\ \A k \in UdpSlots :
                                    g.udp[k] = IF k = j THEN NBNS_PORT ELSE a.udp[k]
  BY <1>10, <1>12 DEF TakesSlot, HostRec, Sockets
<1>14. /\ i # j /\ g.udp[i] = DHCP_CLIENT_PORT /\ g.udp[j] = NBNS_PORT
       /\ \A k \in UdpSlots \ {i, j} : g.udp[k] = NoPort
  BY <1>4, <1>8, <1>10, <1>13
<1>15. g.sntp.state = "NOT_READY" /\ g.offset = 0 /\ g.dhcp.state = "WAIT_FOR_OFFER"
  BY <1>3, <1>7, <1>10, <1>12
<1>16. SocketsRight(g)
  BY <1>4, <1>14, <1>15, PortsDiffer DEF SocketsRight, Bound
<1>17. OneEntryEach(g.arptab)
  <2>1. g.arptab = [k \in Entries |-> NoEntry]
    BY <1>3, <1>7, <1>10, <1>12
  <2> QED BY <2>1 DEF OneEntryEach, Live
<1>18. StartedHost = g
  <2>1. u # blank
    BY <1>3, <1>4, <1>8
  <2>2. DhcpInit(blank) = a
    BY <2>1 DEF DhcpInit, u, a
  <2> QED BY <1>1, <2>2 DEF g
<1> QED BY <1>12, <1>15, <1>16, <1>17, <1>18 DEF Right

----------------------------------------------------------------------------
\* The servers.

LEMMA AnswerType ==
    ASSUME NEW s \in Servers, NEW f \in OutFrame
    PROVE  Answer(s, f) \in Seq(InFrame)
<1>1. s \in Addrs /\ s \in Macs /\ Lease[s] \in Addrs /\ AllOnes \in Addrs /\ TimeServer \in Addrs
  BY ArpAssumption, SntpAssumption, DhcpAssumption, HostAssumption
<1>2. ASSUME NEW type \in {"OFFER", "ACK"}
      PROVE  Datagram(0, s, s, AllOnes, Message(DHCP_CLIENT_PORT, type, s, Lease[s])) \in InFrame
  <2> DEFINE m == Message(DHCP_CLIENT_PORT, type, s, Lease[s])
  <2>1. m \in Grants
    BY DEF Grants
  <2> HIDE DEF m
  <2> QED BY <1>1, <2>1 DEF Datagram, InFrame, m
<1>3. ASSUME NEW a \in Addrs
      PROVE  /\ Datagram(0, s, TimeServer, a, TimeAnswer) \in InFrame
             /\ [kind |-> "arp", iface |-> 0, mac |-> s, op |-> "REPLY", spa |-> s, tpa |-> a]
                    \in InFrame
  <2>1. TimeAnswer \in TimeAnswers
    BY DEF TimeAnswer, TimeAnswers
  <2> QED BY <1>1, <2>1 DEF Datagram, InFrame
<1>4. f.kind \in {"arp", "ip"} /\ (f.kind = "arp" => f.spa \in Addrs)
      /\ (f.kind = "ip" => f.src \in Addrs)
  BY DEF OutFrame
<1> DEFINE Grant(type) == Datagram(0, s, s, AllOnes, Message(DHCP_CLIENT_PORT, type, s, Lease[s]))
           Reply == [kind |-> "arp", iface |-> 0, mac |-> s, op |-> "REPLY", spa |-> s,
                     tpa |-> f.spa]
           Time == Datagram(0, s, TimeServer, f.src, TimeAnswer)
<1>5. \/ Answer(s, f) = <<>>
      \/ f.kind = "arp" /\ Answer(s, f) = <<Reply>>
      \/ f.kind = "ip" /\ Answer(s, f) = <<Time>>
      \/ Answer(s, f) = <<Grant("OFFER")>> \/ Answer(s, f) = <<Grant("ACK")>>
  BY DEF Answer, DHCP_SERVER_PORT, SNTP_PORT
<1>6. Grant("OFFER") \in InFrame /\ Grant("ACK") \in InFrame
  BY <1>2
<1>7. (f.kind = "arp" => Reply \in InFrame) /\ (f.kind = "ip" => Time \in InFrame)
  BY <1>3, <1>4
<1> HIDE DEF Grant, Reply, Time
<1>8. Answer(s, f) = <<>> \/ \E x \in InFrame : Answer(s, f) = <<x>>
  BY <1>5, <1>6, <1>7
<1>9. <<>> \in Seq(InFrame) /\ \A x \in InFrame : <<x>> \in Seq(InFrame)
  OBVIOUS
<1> QED BY <1>8, <1>9

\* The answers to a sequence of frames are defined for every sequence: a least
\* beginning without them would be one frame longer than one that has them.
LEMMA AnsweredType ==
    ASSUME NEW s \in Servers, NEW out \in Seq(OutFrame)
    PROVE  Answered(s, out) \in Seq(InFrame)
<1> DEFINE Ans(n, f) == f = [k \in 0..n |-> IF k = 0 THEN <<>>
                                            ELSE f[k - 1] \o Answer(s, out[k])]
           Missing == {n \in 0..Len(out) : ~\E f : Ans(n, f)}
           A == CHOOSE f : Ans(Len(out), f)
           Bad == {n \in 0..Len(out) : A[n] \notin Seq(InFrame)}
<1>1. Len(out) \in Nat
  BY LenProperties
<1>2. Missing = {}
  <2>1. SUFFICES ASSUME Missing # {} PROVE FALSE
    OBVIOUS
  <2>2. PICK m \in Missing : \A k \in Missing : m <= k
    <3> HIDE DEF Ans
    <3>1. Missing \in SUBSET Nat
      BY <1>1
    <3> HIDE DEF Missing
    <3> QED BY <2>1, <3>1, LeastNat
  <2>3. m \in 0..Len(out) /\ ~\E f : Ans(m, f)
    BY <2>2
  <2>4. m # 0
    <3>1. Ans(0, [k \in 0..0 |-> <<>>])
      OBVIOUS
    <3> QED BY <2>3, <3>1
  <2>5. PICK g : Ans(m - 1, g)
    <3>1. m \in Int /\ m - 1 \in 0..Len(out)
      BY <1>1, <2>3, <2>4
    <3>2. m - 1 \notin Missing
      <4> HIDE DEF Missing
      <4> QED BY <2>2, <3>1
    <3> QED BY <3>1, <3>2
  <2> DEFINE h == [k \in 0..m |-> IF k = m THEN g[m - 1] \o Answer(s, out[m]) ELSE g[k]]
  <2>6. ASSUME NEW k \in 0..m
        PROVE  h[k] = IF k = 0 THEN <<>> ELSE h[k - 1] \o Answer(s, out[k])
    <3>1. CASE k = m
      <4>1. m - 1 \in 0..m /\ m - 1 # m
        BY <1>1, <2>3, <2>4
      <4> QED BY <2>4, <3>1, <4>1
    <3>2. CASE k # m
      <4>1. k \in 0..(m - 1) /\ (k # 0 => k - 1 \in 0..m /\ k - 1 # m)
        BY <1>1, <2>3, <3>2
      <4> QED BY <2>5, <3>2, <4>1
    <3> QED BY <3>1, <3>2
  <2>7. Ans(m, h)
    BY <2>6
  <2> QED BY <2>3, <2>7
<1>3. \E f : Ans(Len(out), f)
  <2> HIDE DEF Ans
  <2> QED BY <1>1, <1>2
<1>4. Answered(s, out) = IF s \in silent THEN <<>> ELSE A[Len(out)]
  BY DEF Answered
<1>5. Ans(Len(out), A)
  <2> HIDE DEF Ans
  <2> QED BY <1>3
<1> HIDE DEF A
<1>6. Bad = {}
  <2>1. SUFFICES ASSUME Bad # {} PROVE FALSE
    OBVIOUS
  <2>2. PICK m \in Bad : \A k \in Bad : m <= k
    <3>1. Bad \in SUBSET Nat
      BY <1>1
    <3> HIDE DEF Bad
    <3> QED BY <2>1, <3>1, LeastNat
  <2>3. m \in 0..Len(out) /\ m # 0
    <3>1. A[0] = <<>>
      BY <1>1, <1>5
    <3> HIDE DEF Ans
    <3>2. m \in 0..Len(out) /\ A[m] \notin Seq(InFrame)
      BY <2>2
    <3>3. <<>> \in Seq(InFrame)
      OBVIOUS
    <3> QED BY <3>1, <3>2, <3>3
  <2>4. A[m] = A[m - 1] \o Answer(s, out[m])
    BY <1>1, <1>5, <2>3
  <2>5. A[m - 1] \in Seq(InFrame)
    BY <1>1, <2>2, <2>3
  <2>6. out[m] \in OutFrame
    BY <1>1, <2>3, ElementOfSeq
  <2>7. Answer(s, out[m]) \in Seq(InFrame)
    BY <2>6, AnswerType
  <2>8. A[m] \in Seq(InFrame)
    <3> HIDE DEF Ans
    <3> QED BY <2>4, <2>5, <2>7, ConcatProperties
  <2> QED BY <2>2, <2>8
<1>7. A[Len(out)] \in Seq(InFrame)
  BY <1>1, <1>6
<1> QED BY <1>4, <1>7

----------------------------------------------------------------------------
\* How long SNTP is silent.

LEMMA ModNear ==
    ASSUME NEW M \in Nat \ {0}, NEW a \in Int, NEW r \in 0..(M - 1),
           a = r \/ a = r + M \/ a = r - M
    PROVE  a % M = r
<1>1. CASE a = r
  <2>1. a = M * 0 + r
    BY <1>1
  <2> QED BY <2>1
<1>2. CASE a = r + M
  <2>1. a = M * 1 + r
    BY <1>2
  <2> QED BY <2>1
<1>3. CASE a = r - M
  <2>1. a = M * (-1) + r
    BY <1>3
  <2> QED BY <2>1
<1> QED BY <1>1, <1>2, <1>3

\* ticks() when the clock was set, q ticks before; q does not reach TickMod.
SetAt(h, q) == IF q <= h.ticks THEN h.ticks - q ELSE h.ticks - q + TickMod

\* The clock was set q ticks ago, or more than RESYNC_INTERVAL ticks ago: in
\* between SNTP waits for the end of RESYNC_INTERVAL, which ticks() reaches
\* without a wrap or does not.
Paced(h, q) ==
    /\ q \in 0..(RESYNC_INTERVAL + 1)
    /\ h.sntp.state = "NOT_READY" => q = RESYNC_INTERVAL + 1
    /\ q <= RESYNC_INTERVAL =>
            \/ SetAt(h, q) >= TickMod - RESYNC_INTERVAL
            \/ /\ h.sntp.state = "IDLE"
               /\ h.sntp.next = SetAt(h, q) + RESYNC_INTERVAL
               /\ h.ticks = SetAt(h, q) + q

LEMMA Intervals ==
    /\ TickMod \in Nat \ {0} /\ RESYNC_INTERVAL \in Nat \ {0} /\ RESYNC_INTERVAL < TickMod
BY SntpAssumption

LEMMA TicksType ==
    ASSUME NEW h \in HostRec
    PROVE  h.ticks \in Nat /\ h.ticks < TickMod /\ h.sntp.next \in Nat
BY Intervals DEF HostRec, SntpState

LEMMA TicksInIs ==
    ASSUME NEW h \in HostRec, NEW n \in Nat, n < TickMod
    PROVE  TicksIn(h, n) = IF h.ticks + n < TickMod THEN h.ticks + n ELSE h.ticks + n - TickMod
<1> DEFINE r == IF h.ticks + n < TickMod THEN h.ticks + n ELSE h.ticks + n - TickMod
<1>1. h.ticks \in Nat /\ h.ticks < TickMod /\ TickMod \in Nat \ {0}
  BY TicksType, Intervals
<1>2. /\ h.ticks + n \in Int /\ r \in 0..(TickMod - 1)
      /\ h.ticks + n = r \/ h.ticks + n = r + TickMod
  BY <1>1
<1> HIDE DEF r
<1>3. (h.ticks + n) % TickMod = r
  BY <1>1, <1>2, ModNear
<1> QED BY <1>3 DEF TicksIn, r

LEMMA SetAtIs ==
    ASSUME NEW h \in HostRec, NEW q \in Nat, q <= RESYNC_INTERVAL
    PROVE  (h.ticks - q) % TickMod = SetAt(h, q)
<1>1. h.ticks \in Nat /\ h.ticks < TickMod /\ TickMod \in Nat \ {0} /\ q < TickMod
  BY TicksType, Intervals
<1>2. /\ h.ticks - q \in Int /\ SetAt(h, q) \in 0..(TickMod - 1)
      /\ h.ticks - q = SetAt(h, q) \/ h.ticks - q = SetAt(h, q) - TickMod
  BY <1>1 DEF SetAt
<1> QED BY <1>1, <1>2, ModNear

LEMMA PacedThroughAnswer ==
    ASSUME NEW h \in HostRec, NEW g \in HostRec, Answering(h, g), g.ticks = h.ticks
    PROVE  Paced(g, 0)
<1>1. h.ticks \in Nat /\ h.ticks < TickMod
  BY TicksType
<1>2. SetAt(g, 0) = h.ticks
  BY <1>1 DEF SetAt
<1>3. g.sntp.state = "IDLE" /\ g.sntp.next = TicksIn(h, RESYNC_INTERVAL)
  BY DEF Answering, Synchronised
<1>4. h.ticks + RESYNC_INTERVAL < TickMod => g.sntp.next = h.ticks + RESYNC_INTERVAL
  BY <1>3, TicksInIs, Intervals
<1>5. h.ticks >= TickMod - RESYNC_INTERVAL \/ h.ticks + RESYNC_INTERVAL < TickMod
  BY <1>1, Intervals
<1>6. 0 \in 0..(RESYNC_INTERVAL + 1) /\ h.ticks = h.ticks + 0
  BY <1>1, Intervals
<1> QED BY <1>2, <1>3, <1>4, <1>5, <1>6 DEF Paced

LEMMA PacedThroughFrame ==
    ASSUME NEW h \in HostRec, NEW g \in HostRec, NEW q, Paced(h, q),
           SntpStarts(h, g), g.ticks = h.ticks
    PROVE  Paced(g, q)
<1>1. SetAt(g, q) = SetAt(h, q)
  BY DEF SetAt
<1>2. CASE g.sntp = h.sntp
  BY <1>1, <1>2 DEF Paced
<1>3. CASE h.sntp.state = "NOT_READY"
  <2>1. q = RESYNC_INTERVAL + 1 /\ ~(q <= RESYNC_INTERVAL)
    BY <1>3, Intervals DEF Paced
  <2> QED BY <2>1 DEF Paced
<1> QED BY <1>2, <1>3 DEF SntpStarts

LEMMA PacedThroughTick ==
    ASSUME NEW h \in HostRec, NEW g \in HostRec, NEW q, Paced(h, q), g.sntp = h.sntp,
           g.ticks = TicksIn(h, 1)
    PROVE  Paced(g, IF q <= RESYNC_INTERVAL THEN q + 1 ELSE q) /\ g.ticks # h.ticks
<1>1. /\ h.ticks \in Nat /\ h.ticks < TickMod /\ TickMod \in Nat \ {0, 1}
      /\ g.ticks = IF h.ticks + 1 < TickMod THEN h.ticks + 1 ELSE h.ticks + 1 - TickMod
  BY TicksType, TicksInIs, Intervals
<1>2. g.ticks # h.ticks
  BY <1>1
<1>3. q \in 0..(RESYNC_INTERVAL + 1) /\ RESYNC_INTERVAL \in Nat
  BY Intervals DEF Paced
<1>4. CASE ~(q <= RESYNC_INTERVAL)
  BY <1>2, <1>3, <1>4 DEF Paced
<1>5. CASE q <= RESYNC_INTERVAL
  <2>1. q + 1 \in 0..(RESYNC_INTERVAL + 1)
    BY <1>3, <1>5
  <2>2. h.sntp.state # "NOT_READY"
    BY <1>3, <1>5 DEF Paced
  <2>3. CASE ~(q + 1 <= RESYNC_INTERVAL)
    BY <1>2, <1>5, <2>1, <2>2, <2>3 DEF Paced
  <2>4. CASE q + 1 <= RESYNC_INTERVAL
    <3>1. SetAt(g, q + 1) = SetAt(h, q)
      BY <1>1, <1>3, <2>4, Intervals DEF SetAt
    <3>2. CASE SetAt(h, q) >= TickMod - RESYNC_INTERVAL
      BY <1>2, <1>5, <2>1, <2>2, <3>1, <3>2 DEF Paced
    <3>3. CASE ~(SetAt(h, q) >= TickMod - RESYNC_INTERVAL)
      <4>1. /\ h.sntp.state = "IDLE" /\ h.sntp.next = SetAt(h, q) + RESYNC_INTERVAL
            /\ h.ticks = SetAt(h, q) + q
        BY <1>5, <3>3 DEF Paced
      <4>2. SetAt(h, q) \in Int
        BY <1>1, <1>3 DEF SetAt
      <4>3. h.ticks + 1 < TickMod
        BY <1>1, <1>3, <2>4, <3>3, <4>1, <4>2
      <4>4. g.ticks = SetAt(h, q) + (q + 1)
        BY <1>1, <1>3, <4>1, <4>2, <4>3
      <4> QED BY <1>2, <1>5, <2>1, <3>1, <4>1, <4>4 DEF Paced
    <3> QED BY <3>2, <3>3
  <2> QED BY <2>3, <2>4
<1> QED BY <1>4, <1>5

LEMMA PacedThroughProcess ==
    ASSUME NEW h, Right(h), NEW q, Paced(h, q)
    PROVE  Paced(Process(h), q)
<1> DEFINE g == Process(h)
<1>1. /\ Right(g) /\ g.ticks = h.ticks
      /\ g.sntp.state = "NOT_READY" <=> h.sntp.state = "NOT_READY"
      /\ h.sntp.state = "NOT_READY" \/ h.ticks <= h.sntp.next => g.sntp = h.sntp
  BY ProcessType
<1>2. h.ticks \in Nat /\ h.ticks < TickMod
  BY TicksType DEF Right
<1> HIDE DEF g
<1>3. SetAt(g, q) = SetAt(h, q)
  BY <1>1 DEF SetAt
<1>4. q \in 0..(RESYNC_INTERVAL + 1) /\ RESYNC_INTERVAL \in Nat
  BY Intervals DEF Paced
<1>5. CASE ~(q <= RESYNC_INTERVAL) \/ SetAt(h, q) >= TickMod - RESYNC_INTERVAL
  BY <1>1, <1>3, <1>5 DEF Paced, g
<1>6. CASE q <= RESYNC_INTERVAL /\ ~(SetAt(h, q) >= TickMod - RESYNC_INTERVAL)
  <2>1. /\ h.sntp.next = SetAt(h, q) + RESYNC_INTERVAL /\ h.ticks = SetAt(h, q) + q
    BY <1>6 DEF Paced
  <2>2. SetAt(h, q) \in Int
    BY <1>2, <1>4, Intervals DEF SetAt
  <2>3. h.ticks <= h.sntp.next
    BY <1>4, <1>6, <2>1, <2>2
  <2>4. Paced(g, q)
    BY <1>1, <1>3, <2>3 DEF Paced
  <2> QED BY <2>4 DEF g
<1> QED BY <1>5, <1>6

----------------------------------------------------------------------------
\* The inductive invariant.

HostInv ==
    /\ Right(host)
    /\ answers \in [Servers -> Seq(InFrame)]
    /\ late \/ Whole(host)
    /\ Paced(host, quiet)
    /\ asked => host.sntp.state = "WAITING_FOR_RESPONSE"

LEMMA FreshRight ==
    ASSUME HostInv
    PROVE  /\ Right(Fresh) /\ Paced(Fresh, quiet)
           /\ Fresh.conf = host.conf /\ Fresh.arptab = host.arptab /\ Fresh.udp = host.udp
           /\ Fresh.dhcp = host.dhcp /\ Fresh.sntp = host.sntp /\ Fresh.ticks = host.ticks
           /\ Fresh.offset = host.offset /\ Fresh.out = <<>>
<1>1. host \in HostRec /\ SocketsRight(host) /\ OneEntryEach(host.arptab) /\ Paced(host, quiet)
  BY DEF HostInv, Right
<1>2. /\ Fresh.conf = host.conf /\ Fresh.arptab = host.arptab /\ Fresh.udp = host.udp
      /\ Fresh.dhcp = host.dhcp /\ Fresh.sntp = host.sntp /\ Fresh.ticks = host.ticks
      /\ Fresh.offset = host.offset /\ Fresh.out = <<>>
  BY <1>1 DEF Fresh, HostRec
<1>3. Fresh \in HostRec
  <2>1. <<>> \in Seq(OutFrame)
    OBVIOUS
  <2> QED BY <1>1, <2>1 DEF Fresh, HostRec
<1>4. SocketsRight(Fresh)
  BY <1>1, <1>2, <1>3, SocketsKept
<1>5. Paced(Fresh, quiet)
  BY <1>1, <1>2 DEF Paced, SetAt
<1> QED BY <1>1, <1>2, <1>3, <1>4, <1>5 DEF Right

\* What is the same for a frame and for time.
LEMMA IterateStep ==
    ASSUME NEW r, Right(r), NEW left \in [Servers -> Seq(InFrame)], Iterate(r, left)
    PROVE  /\ host' = Process(r) /\ Right(host')
           /\ answers' \in [Servers -> Seq(InFrame)]
           /\ Whole(r) => Whole(host')
           /\ Paced(r, quiet') => Paced(host', quiet')
           /\ asked' => host'.sntp.state = "WAITING_FOR_RESPONSE"
<1> DEFINE p == Process(r)
<1>1. /\ host' = p /\ answers' = [s \in Servers |-> left[s] \o Answered(s, p.out)]
  BY DEF Iterate
<1>2. asked' => p.sntp.state = "WAITING_FOR_RESPONSE"
  BY DEF Iterate
<1>3. Right(p) /\ (Whole(r) => Whole(p))
  BY ProcessType
<1>4. Paced(r, quiet') => Paced(p, quiet')
  BY PacedThroughProcess
<1> HIDE DEF p
<1>5. p.out \in Seq(OutFrame)
  BY <1>3 DEF Right, HostRec
<1>6. ASSUME NEW s \in Servers
      PROVE  left[s] \o Answered(s, p.out) \in Seq(InFrame)
  <2>1. Answered(s, p.out) \in Seq(InFrame) /\ left[s] \in Seq(InFrame)
    BY <1>5, AnsweredType
  <2> QED BY <2>1, ConcatProperties
<1>7. answers' \in [Servers -> Seq(InFrame)]
  BY <1>1, <1>6
<1> QED BY <1>1, <1>2, <1>3, <1>4, <1>7 DEF p

LEMMA ReceiveStep ==
    ASSUME HostInv, NEW f \in InFrame, NEW left \in [Servers -> Seq(InFrame)],
           Iterate(ReceivePacket(Fresh, f), left)
    PROVE  /\ Right(host') /\ answers' \in [Servers -> Seq(InFrame)]
           /\ Whole(host) /\ ~ComesLate(host, f) => Whole(host')
           /\ Paced(host', quiet')
           /\ asked' => host'.sntp.state = "WAITING_FOR_RESPONSE"
<1> DEFINE r == ReceivePacket(Fresh, f)
<1>1. /\ Right(Fresh) /\ Paced(Fresh, quiet) /\ Fresh.conf = host.conf
      /\ Fresh.dhcp = host.dhcp /\ Fresh.ticks = host.ticks /\ Fresh.offset = host.offset
  BY FreshRight
<1>2. /\ Right(r) /\ ClockStep(Fresh, r)
      /\ Whole(Fresh) /\ ~ComesLate(Fresh, f) => Whole(r)
  BY <1>1, ReceivePacketType
<1>3. (Whole(host) => Whole(Fresh)) /\ (ComesLate(Fresh, f) => ComesLate(host, f))
  BY <1>1 DEF Whole, ComesLate
<1>4. quiet' = CASE r.offset # host.offset -> 0
                 [] ~(r.offset # host.offset) /\ r.ticks # host.ticks
                        /\ quiet <= RESYNC_INTERVAL -> quiet + 1
                 [] OTHER -> quiet
  BY DEF Iterate
<1> HIDE DEF r
<1>5. r.ticks = host.ticks /\ Fresh \in HostRec /\ r \in HostRec
  BY <1>1, <1>2 DEF ClockStep, Right
<1>6. Paced(r, quiet')
  <2>1. CASE r.offset # host.offset
    <3>1. Answering(Fresh, r)
      BY <1>1, <1>2, <2>1 DEF ClockStep
    <3>2. quiet' = 0
      BY <1>4, <2>1
    <3> QED BY <1>1, <1>5, <3>1, <3>2, PacedThroughAnswer
  <2>2. CASE r.offset = host.offset
    <3>1. ~Answering(Fresh, r)
      <4>1. Fresh.offset \in {0, FromNtp(TrueTime)} /\ FromNtp(TrueTime) \in Nat \ {0}
        BY <1>5, HostAssumption DEF HostRec, FromNtp, EpochError
      <4>2. FromNtp(TrueTime) - Fresh.offset # Fresh.offset
        BY <4>1
      <4> QED BY <1>1, <2>2, <4>2 DEF Answering
    <3>2. SntpStarts(Fresh, r)
      BY <1>2, <3>1 DEF ClockStep
    <3>3. quiet' = quiet
      BY <1>4, <1>5, <2>2
    <3> QED BY <1>1, <1>5, <3>2, <3>3, PacedThroughFrame
  <2> QED BY <2>1, <2>2
<1>7. Iterate(r, left)
  BY DEF r
<1>8. /\ Right(host') /\ answers' \in [Servers -> Seq(InFrame)]
      /\ Whole(r) => Whole(host')
      /\ Paced(r, quiet') => Paced(host', quiet')
      /\ asked' => host'.sntp.state = "WAITING_FOR_RESPONSE"
  BY <1>2, <1>7, IterateStep
<1> QED BY <1>2, <1>3, <1>6, <1>8

LEMMA TakeAnswerStep ==
    ASSUME HostInv, NEW s \in Servers, TakeAnswer(s)
    PROVE  HostInv'
<1> DEFINE f == Head(answers[s])
           left == [answers EXCEPT ![s] = Tail(@)]
<1>1. answers \in [Servers -> Seq(InFrame)] /\ answers[s] # <<>>
  BY DEF HostInv, TakeAnswer
<1>2. f \in InFrame /\ Tail(answers[s]) \in Seq(InFrame)
  BY <1>1, HeadTailProperties
<1>3. left \in [Servers -> Seq(InFrame)]
  BY <1>1, <1>2
<1>4. /\ Iterate(ReceivePacket(Fresh, f), left)
      /\ late' = (late \/ Late(f))
  BY DEF TakeAnswer
<1>5. Late(f) <=> ComesLate(host, f)
  BY DEF Late, ComesLate
<1> HIDE DEF f, left
<1>6. /\ Right(host') /\ answers' \in [Servers -> Seq(InFrame)]
      /\ Whole(host) /\ ~ComesLate(host, f) => Whole(host')
      /\ Paced(host', quiet')
      /\ asked' => host'.sntp.state = "WAITING_FOR_RESPONSE"
  BY <1>2, <1>3, <1>4, ReceiveStep
<1>7. late' \/ Whole(host')
  <2>1. late \/ Whole(host)
    BY DEF HostInv
  <2> QED BY <1>4, <1>5, <1>6, <2>1, Zenon
<1> QED BY <1>6, <1>7 DEF HostInv

LEMMA ChatterType ==
    ASSUME NEW c \in Conf, NEW f \in Chatter(c)
    PROVE  f \in InFrame /\ ~(f.kind = "ip" /\ f.data.port = DHCP_CLIENT_PORT)
<1>1. /\ Station \in Macs /\ Station \in Addrs /\ c.host \in Addrs /\ AllOnes \in Addrs
  BY HostAssumption, StationAssumption, ArpAssumption DEF Conf
<1>2. PICK i \in Ifaces :
        \/ \E a \in {c.host, Station} :
                f = [kind |-> "arp", iface |-> i, mac |-> Station, op |-> "REQUEST",
                     spa |-> Station, tpa |-> a]
        \/ f = Datagram(i, Station, Station, c.host, [port |-> PING, type |-> "REQUEST"])
        \/ f = Datagram(i, Station, Station, AllOnes, [port |-> NBNS_PORT, type |-> "QUERY"])
  BY DEF Chatter
<1>3. CASE f.kind = "arp"
  BY <1>1, <1>2, <1>3 DEF InFrame, Datagram
<1>4. CASE f.kind # "arp"
  <2>1. \E d \in Queries, a \in {c.host, AllOnes} : f = Datagram(i, Station, Station, a, d)
    BY <1>2, <1>4 DEF Queries
  <2>2. \A d \in Queries : d.port # DHCP_CLIENT_PORT
    BY DEF Queries, PING, NBNS_PORT, DHCP_CLIENT_PORT
  <2> QED BY <1>1, <2>1, <2>2 DEF InFrame, Datagram
<1> QED BY <1>3, <1>4

LEMMA TakeChatterStep ==
    ASSUME HostInv, TakeChatter
    PROVE  HostInv'
<1>1. host.conf \in Conf /\ answers \in [Servers -> Seq(InFrame)]
  BY DEF HostInv, Right, HostRec
<1>2. PICK f \in Chatter(host.conf) : Iterate(ReceivePacket(Fresh, f), answers)
  BY DEF TakeChatter
<1>3. f \in InFrame /\ ~ComesLate(host, f)
  BY <1>1, ChatterType DEF ComesLate
<1>4. /\ Right(host') /\ answers' \in [Servers -> Seq(InFrame)]
      /\ Whole(host) => Whole(host')
      /\ Paced(host', quiet')
      /\ asked' => host'.sntp.state = "WAITING_FOR_RESPONSE"
  BY <1>1, <1>2, <1>3, ReceiveStep
<1>5. late' = late
  BY DEF TakeChatter
<1>6. late' \/ Whole(host')
  BY <1>4, <1>5 DEF HostInv
<1> QED BY <1>4, <1>6 DEF HostInv

LEMMA TickStep ==
    ASSUME HostInv, Tick
    PROVE  HostInv'
<1> DEFINE r == [Fresh EXCEPT !.ticks = TicksIn(host, 1), !.dhcp.age = Older(@)]
<1>1. /\ Right(Fresh) /\ Paced(Fresh, quiet) /\ Fresh.conf = host.conf
      /\ Fresh.dhcp = host.dhcp /\ Fresh.ticks = host.ticks /\ Fresh.offset = host.offset
      /\ Fresh.sntp = host.sntp
  BY FreshRight
<1>2. Fresh \in HostRec /\ Fresh.dhcp \in DhcpState /\ host \in HostRec
  BY <1>1 DEF Right, HostRec, HostInv
<1>3. TicksIn(host, 1) \in 0..(TickMod - 1) /\ TicksIn(host, 1) = TicksIn(Fresh, 1)
  <2>1. 1 \in 0..(TickMod - 1)
    BY Intervals
  <2> QED BY <1>1, <1>2, <2>1, TicksInType DEF TicksIn
<1>4. Older(Fresh.dhcp.age) \in Nat
  BY <1>2 DEF Older, DhcpState
<1>5. Iterate(r, answers)
  BY DEF Tick
<1>6. /\ r.conf = Fresh.conf /\ r.arptab = Fresh.arptab /\ r.udp = Fresh.udp
      /\ r.sntp = Fresh.sntp /\ r.offset = Fresh.offset
      /\ r.ticks = TicksIn(Fresh, 1)
      /\ r.dhcp = [Fresh.dhcp EXCEPT !.age = Older(@)]
  BY <1>2, <1>3 DEF HostRec
<1>7. r \in HostRec
  BY <1>2, <1>3, <1>4 DEF HostRec, DhcpState
<1>8. r.dhcp.state = Fresh.dhcp.state /\ r.dhcp.server = Fresh.dhcp.server
  BY <1>2, <1>6 DEF DhcpState
<1>9. quiet' = CASE r.offset # host.offset -> 0
                 [] ~(r.offset # host.offset) /\ r.ticks # host.ticks
                        /\ quiet <= RESYNC_INTERVAL -> quiet + 1
                 [] OTHER -> quiet
  BY <1>5 DEF Iterate
<1> HIDE DEF r
<1>10. Right(r)
  <2>1. SocketsRight(r)
    BY <1>1, <1>2, <1>6, <1>7, <1>8, SocketsKept DEF Right
  <2> QED BY <1>1, <1>6, <1>7, <2>1 DEF Right
<1>11. /\ Paced(r, IF quiet <= RESYNC_INTERVAL THEN quiet + 1 ELSE quiet)
       /\ r.ticks # host.ticks
  BY <1>1, <1>2, <1>6, <1>7, PacedThroughTick
<1>12. quiet' = IF quiet <= RESYNC_INTERVAL THEN quiet + 1 ELSE quiet
  BY <1>1, <1>6, <1>9, <1>11
<1>13. answers \in [Servers -> Seq(InFrame)]
  BY DEF HostInv
<1>14. /\ Right(host') /\ answers' \in [Servers -> Seq(InFrame)]
       /\ Whole(r) => Whole(host')
       /\ Paced(r, quiet') => Paced(host', quiet')
       /\ asked' => host'.sntp.state = "WAITING_FOR_RESPONSE"
  BY <1>5, <1>10, <1>13, IterateStep
<1>15. Paced(host', quiet')
  BY <1>11, <1>12, <1>14
<1>16. Whole(host) => Whole(r)
  BY <1>1, <1>6, <1>8 DEF Whole
<1>17. late' = late
  BY DEF Tick
<1>18. late' \/ Whole(host')
  BY <1>14, <1>16, <1>17 DEF HostInv
<1> QED BY <1>14, <1>15, <1>18 DEF HostInv

LEMMA NakType ==
    ASSUME NEW f \in InFrame, IsAck(f)
    PROVE  Nak(f) \in InFrame
<1>1. f.kind = "ip" /\ f.data.type = "ACK"
  BY DEF IsAck
<1>2. f.data \in Grants \cup TimeAnswers \cup Queries
  BY <1>1 DEF InFrame
<1>3. f.data \in Grants
  BY <1>1, <1>2 DEF TimeAnswers, Queries
<1>4. f.data.server \in Servers
  BY <1>3 DEF Grants, Message
<1> DEFINE m == Message(DHCP_CLIENT_PORT, "NAK", f.data.server, Zero)
<1>5. m \in Grants
  BY <1>4 DEF Grants
<1>6. Nak(f) = [f EXCEPT !.data = m]
  BY DEF Nak
<1> HIDE DEF m
<1> QED BY <1>1, <1>5, <1>6 DEF InFrame

\* What becomes of an answer may arrive.
LEMMA SpoiltType ==
    ASSUME NEW f \in InFrame, NEW g \in Spoilt(f)
    PROVE  g \in InFrame
<1>1. CASE IsAck(f) /\ g = Nak(f)
  BY <1>1, NakType
<1>2. CASE IsTime(f) /\ \/ g = [f EXCEPT !.data.size = SNTP_SIZE + 20]
                        \/ g = [f EXCEPT !.data.mode = 3]
  <2>1. f.kind = "ip" /\ f.data.type = "ANSWER"
    BY <1>2 DEF IsTime
  <2>2. f.data \in TimeAnswers
    BY <2>1 DEF InFrame, Grants, Queries, Message
  <2>3. \A e \in TimeAnswers : [f EXCEPT !.data = e] \in InFrame
    BY <2>1 DEF InFrame
  <2>4. CASE g = [f EXCEPT !.data.size = SNTP_SIZE + 20]
    <3>1. [f.data EXCEPT !.size = SNTP_SIZE + 20] \in TimeAnswers
      BY <2>2 DEF TimeAnswers
    <3> QED BY <2>3, <2>4, <3>1
  <2>5. CASE g = [f EXCEPT !.data.mode = 3]
    <3>1. [f.data EXCEPT !.mode = 3] \in TimeAnswers
      BY <2>2 DEF TimeAnswers
    <3> QED BY <2>3, <2>5, <3>1
  <2> QED BY <1>2, <2>4, <2>5
<1> QED BY <1>1, <1>2 DEF Spoilt

LEMMA FaultStep ==
    ASSUME HostInv, NEW s \in Servers, Fault(s)
    PROVE  HostInv'
<1>1. answers \in [Servers -> Seq(InFrame)] /\ answers[s] \in Seq(InFrame)
  BY DEF HostInv
<1>2. UNCHANGED <<host, asked, quiet, late>>
  BY DEF Fault
<1>3. answers' \in [Servers -> Seq(InFrame)]
  <2>1. CASE UNCHANGED answers
    BY <1>1, <2>1
  <2>2. CASE answers[s] # <<>> /\ ~UNCHANGED answers
    <3> DEFINE f == Head(answers[s])
               rest == Tail(answers[s])
    <3>1. f \in InFrame /\ rest \in Seq(InFrame)
      BY <1>1, <2>2, HeadTailProperties
    <3>2. PICK q : /\ answers' = [answers EXCEPT ![s] = q]
                   /\ \/ q = rest
                      \/ q = <<f>> \o answers[s]
                      \/ \E g \in Spoilt(f) : q = <<g>> \o rest
      BY <2>2 DEF Fault
    <3> HIDE DEF f, rest
    <3>3. <<f>> \o answers[s] \in Seq(InFrame)
      BY <1>1, <3>1, ConcatProperties
    <3>4. ASSUME NEW g \in Spoilt(f) PROVE <<g>> \o rest \in Seq(InFrame)
      <4>1. g \in InFrame
        BY <3>1, SpoiltType
      <4> QED BY <3>1, <4>1, ConcatProperties
    <3>5. q \in Seq(InFrame)
      BY <3>1, <3>2, <3>3, <3>4
    <3> QED BY <1>1, <3>2, <3>5
  <2> QED BY <2>1, <2>2 DEF Fault
<1>4. late' \/ Whole(host')
  BY <1>2 DEF HostInv
<1>5. asked' => host'.sntp.state = "WAITING_FOR_RESPONSE"
  BY <1>2 DEF HostInv
<1>6. Right(host') /\ Paced(host', quiet')
  BY <1>2 DEF HostInv
<1> QED BY <1>3, <1>4, <1>5, <1>6 DEF HostInv

LEMMA HostInvInit == HostInit => HostInv
<1> SUFFICES ASSUME HostInit PROVE HostInv
  OBVIOUS
<1>1. /\ host = StartedHost
      /\ answers = [s \in Servers |-> Answered(s, StartedHost.out)]
      /\ quiet = RESYNC_INTERVAL + 1 /\ ~asked
  BY DEF HostInit
<1>2. /\ Right(host) /\ host.dhcp.state # "DONE"
  BY <1>1, Started
<1>3. host.out \in Seq(OutFrame)
  BY <1>2 DEF Right, HostRec
<1>4. answers \in [Servers -> Seq(InFrame)]
  <2>1. \A s \in Servers : Answered(s, host.out) \in Seq(InFrame)
    BY <1>3, AnsweredType
  <2> QED BY <1>1, <2>1
<1>5. Paced(host, quiet)
  BY <1>1, Intervals DEF Paced
<1> QED BY <1>1, <1>2, <1>4, <1>5 DEF HostInv, Whole

LEMMA HostInvStep == HostInv /\ [HostNext]_hostVars => HostInv'
<1> SUFFICES ASSUME HostInv, [HostNext]_hostVars PROVE HostInv'
  OBVIOUS
<1>1. CASE UNCHANGED hostVars
  BY <1>1 DEF hostVars, HostInv
<1>2. CASE HostNext
  BY <1>2, TickStep, TakeChatterStep, TakeAnswerStep, FaultStep DEF HostNext
<1> QED BY <1>1, <1>2

LEMMA HostInvariant == HostSpec => []HostInv
BY HostInvInit, HostInvStep, PTL DEF HostSpec

\* Every reachable state of the router as a host is well typed: what it takes
\* from frames are addresses and interfaces, and the intervals of SNTP keep to
\* their bounds however often it backs off (sntp.c:88-106).
THEOREM HostTyped == HostSpec => []HostTypeOK
<1>1. HostInv => HostTypeOK
  <2> SUFFICES ASSUME HostInv PROVE HostTypeOK
    OBVIOUS
  <2>1. host \in HostRec
    BY DEF HostInv, Right
  <2>2. /\ host.conf \in Conf /\ host.arptab \in ArpTable /\ host.dhcp \in DhcpState
        /\ host.sntp \in SntpState
    BY <2>1 DEF HostRec
  <2>3. \A i \in Entries : /\ host.arptab[i].iface \in Ifaces \cup {0}
                           /\ host.arptab[i].phys_addr \in Macs \cup {BcastMac}
    BY <2>2 DEF ArpTable, Entry, AnyMac
  <2> QED BY <2>2, <2>3 DEF HostTypeOK, Conf, DhcpState, SntpState
<1> QED BY <1>1, HostInvariant, PTL

\* The configuration of a configured host is that of one lease, whole, while no
\* OFFER or NAK comes late (dhcp.c:218).
THEOREM LeaseStaysWhole == HostSpec => []LeaseWhole
<1>1. HostInv => LeaseWhole
  BY DEF HostInv, Whole, LeaseWhole
<1> QED BY <1>1, HostInvariant, PTL

\* A configured host runs SNTP, and only it does, on one socket (dhcp.c:261-262,
\* udp.c).
THEOREM SntpRunsAfterDhcp == HostSpec => []SntpAfterDhcp
<1>1. HostInv => SntpAfterDhcp
  BY DEF HostInv, Right, SocketsRight, SntpAfterDhcp
<1> QED BY <1>1, HostInvariant, PTL

\* SNTP is silent for RESYNC_INTERVAL after an answer, unless ticks() wraps
\* before that (sntp.c:63, 109).
THEOREM RequestsStayPaced == HostSpec => []RequestsPaced
<1>1. HostInv => RequestsPaced
  <2> SUFFICES ASSUME HostInv, asked, ~(quiet > RESYNC_INTERVAL)
               PROVE  (host.ticks - quiet) % TickMod >= TickMod - RESYNC_INTERVAL
    BY DEF RequestsPaced
  <2>1. host \in HostRec /\ Paced(host, quiet) /\ host.sntp.state = "WAITING_FOR_RESPONSE"
    BY DEF HostInv, Right
  <2>2. quiet \in Nat /\ quiet <= RESYNC_INTERVAL
    BY <2>1, Intervals DEF Paced
  <2>3. SetAt(host, quiet) >= TickMod - RESYNC_INTERVAL
    BY <2>1, <2>2 DEF Paced
  <2> QED BY <2>1, <2>2, <2>3, SetAtIs
<1> QED BY <1>1, HostInvariant, PTL

----------------------------------------------------------------------------
\* A station that pings or looks for the router.

\* The answer to frame f of the station.
AnswersStation(o, f) ==
    /\ o.kind = "ip" /\ o.dst = Station /\ o.data.port = f.data.port
    /\ o.iface = f.iface /\ o.mac = f.mac

\* The station is in the table once it was heard, and found there.
LEMMA StationFound ==
    ASSUME NEW h, Right(h), h.conf.mask = "net", InSubnet(h.conf, Station),
           NEW f \in InFrame, f.kind = "ip", f.src = Station, NEW d,
           NEW l, l = Learnt(h, f, f.src), d.port = f.data.port
    PROVE  AnswersStation(Addressed(l.conf, l.arptab, Station, d), f)
<1> DEFINE u == Insert(h.arptab, f.iface, Station, f.mac)
           e == [iface |-> f.iface, net_addr |-> Station, phys_addr |-> f.mac]
           k == FindSlot(h.arptab, Station)
<1>1. /\ Station \in Addrs /\ Station # AllOnes /\ \A a \in Addrs : Station # Bcast[Net[a]]
  BY StationAssumption
<1>2. /\ h.conf \in Conf /\ h.arptab \in ArpTable /\ OneEntryEach(h.arptab)
      /\ h.conf.host \in Addrs
  BY DEF Right, HostRec, Conf
<1>3. f.iface \in Ifaces \cup {0} /\ f.mac \in Macs
  BY DEF InFrame
<1>4. l.conf = h.conf /\ l.arptab = u
  BY <1>1, LearntType
<1>5. Mapping(u, Station) = {k} /\ u[k] = e
  BY <1>1, <1>2, <1>3, InsertKeeps
<1> HIDE DEF u, k, e
<1>6. NextHop(h.conf, Station) = Station
  BY DEF NextHop
<1>7. Station \notin {BcastAddr(h.conf), AllOnes}
  BY <1>1, <1>2 DEF BcastAddr
<1>8. Query(h.conf, u, Station) = {e}
  BY <1>5, <1>7 DEF Query
<1>9. Addressed(l.conf, l.arptab, Station, d) =
            [kind |-> "ip", iface |-> e.iface, mac |-> e.phys_addr,
             src |-> h.conf.host, dst |-> Station, data |-> d]
  BY <1>4, <1>6, <1>8 DEF Addressed
<1> QED BY <1>9 DEF AnswersStation, e

LEMMA StationAnswered ==
    ASSUME NEW h, Right(h), NEW f \in Chatter(h.conf), f.kind = "ip"
    PROVE  LET g == ReceivePacket(h, f)
           IN  /\ g.conf = h.conf
               /\ h.conf.mask = "net" /\ InSubnet(h.conf, Station) =>
                        \E k \in 1..Len(g.out) : AnswersStation(g.out[k], f)
<1> DEFINE g == ReceivePacket(h, f)
           l == Learnt(h, f, f.src)
<1>1. h.conf \in Conf /\ h.conf.host \in Addrs
  BY DEF Right, HostRec, Conf
<1>2. f \in InFrame
  BY <1>1, ChatterType
<1>3. PICK i \in Ifaces :
        \/ f = Datagram(i, Station, Station, h.conf.host, [port |-> PING, type |-> "REQUEST"])
        \/ f = Datagram(i, Station, Station, AllOnes, [port |-> NBNS_PORT, type |-> "QUERY"])
  BY DEF Chatter
<1>4. /\ f.src = Station /\ Station \in Addrs /\ f.dst \in {h.conf.host, AllOnes}
      /\ f.data.port \in {PING, NBNS_PORT}
  BY <1>3, StationAssumption DEF Datagram
<1>5. g = IpReceive(l, f)
  BY <1>4 DEF ReceivePacket, ForUs
<1>6. Right(l) /\ l.conf = h.conf
  BY <1>2, <1>4, LearntType
<1>7. l \in HostRec /\ l.conf \in Conf /\ l.arptab \in ArpTable /\ Bound(l, NBNS_PORT)
  BY <1>6 DEF Right, HostRec, SocketsRight
<1> DEFINE d == IF f.data.port = PING THEN [port |-> PING, type |-> "REPLY"]
                ELSE [port |-> NBNS_PORT, type |-> "RESPONSE", addr |-> l.conf.host]
           a == Addressed(l.conf, l.arptab, Station, d)
<1>8. d \in Sent /\ d.port = f.data.port
  BY <1>1, <1>4, <1>6 DEF Sent
<1>9. g = SendPacket(l, a)
  BY <1>4, <1>5, <1>7, PortsDiffer
     DEF IpReceive, IcmpSendReply, NbnsSendResponse, UdpSend, Ports
<1> HIDE DEF d, g
<1>10. h.conf.mask = "net" /\ InSubnet(h.conf, Station) => AnswersStation(a, f)
  <2> HIDE DEF l
  <2>1. l = Learnt(h, f, f.src)
    BY DEF l
  <2> QED BY <1>2, <1>4, <1>8, <2>1, StationFound
<1>11. a \in OutFrame
  BY <1>4, <1>7, <1>8, AddressedType
<1> HIDE DEF a, l
<1>12. OnlySends(l, g) /\ g.out = Append(l.out, a)
  BY <1>7, <1>9, <1>11, SendPacketOnlySends
<1>13. l.out \in Seq(OutFrame)
  BY <1>7 DEF HostRec
<1>14. Len(g.out) \in 1..Len(g.out) /\ g.out[Len(g.out)] = a
  <2>1. Len(g.out) = Len(l.out) + 1 /\ g.out[Len(l.out) + 1] = a /\ Len(l.out) \in Nat
    BY <1>11, <1>12, <1>13, AppendProperties, LenProperties
  <2> QED BY <2>1
<1>15. g.conf = h.conf
  BY <1>6, <1>12 DEF OnlySends
<1> QED BY <1>10, <1>14, <1>15 DEF g

LEMMA AnswersGoBackStep ==
    ASSUME HostInv, AnswersGoBack, [HostNext]_hostVars
    PROVE  AnswersGoBack'
<1>1. CASE UNCHANGED <<host, heard>>
  BY <1>1 DEF AnswersGoBack, InSubnet, Masked
<1>2. CASE heard' = NoFrame
  BY <1>2 DEF AnswersGoBack, NoFrame
<1>3. CASE TakeChatter
  <2>1. SUFFICES ASSUME heard'.kind = "ip", host'.conf.mask = "net",
                        InSubnet(host'.conf, Station)
                 PROVE  \E k \in DOMAIN host'.out : AnswersStation(host'.out[k], heard')
    BY DEF AnswersGoBack, AnswersStation
  <2>2. PICK f \in Chatter(host.conf) :
                Iterate(ReceivePacket(Fresh, f), answers) /\ heard' = f
    BY <1>3 DEF TakeChatter
  <2> DEFINE r == ReceivePacket(Fresh, f)
  <2>3. Right(Fresh) /\ Fresh.conf = host.conf
    BY FreshRight
  <2>4. host.conf \in Conf /\ answers \in [Servers -> Seq(InFrame)]
    BY DEF HostInv, Right, HostRec
  <2>5. f \in InFrame
    BY <2>2, <2>4, ChatterType
  <2>6. Right(r)
    BY <2>3, <2>5, ReceivePacketType
  <2> HIDE DEF r
  <2>7. host' = Process(r) /\ Right(host')
    <3>1. Iterate(r, answers)
      BY <2>2 DEF r
    <3> QED BY <2>4, <2>6, <3>1, IterateStep
  <2>8. Longer(r.out, host'.out) /\ host'.conf = r.conf
    BY <2>6, <2>7, ProcessType
  <2>9. /\ r.conf = host.conf
        /\ host.conf.mask = "net" /\ InSubnet(host.conf, Station) =>
                \E k \in 1..Len(r.out) : AnswersStation(r.out[k], f)
    <3>1. f.kind = "ip"
      BY <2>1, <2>2
    <3> QED BY <2>2, <2>3, <3>1, StationAnswered DEF r
  <2>10. PICK k \in 1..Len(r.out) : AnswersStation(r.out[k], f)
    BY <2>1, <2>8, <2>9
  <2>11. r.out \in Seq(OutFrame) /\ host'.out \in Seq(OutFrame)
    BY <2>6, <2>7 DEF Right, HostRec
  <2>12. k \in DOMAIN host'.out /\ host'.out[k] = r.out[k]
    BY <2>8, <2>11, LenProperties DEF Longer
  <2> QED BY <2>2, <2>10, <2>12
<1>4. CASE HostNext
  BY <1>1, <1>2, <1>3, <1>4 DEF HostNext, Tick, TakeAnswer, Fault
<1> QED BY <1>1, <1>4 DEF hostVars

\* A ping or a query from the subnet is answered at once, and where it came
\* from, however full the ARP table (arptab.c:19-35).
THEOREM AnswersGoBackToSender == HostSpec => []AnswersGoBack
<1>1. HostInit => AnswersGoBack
  BY DEF HostInit, AnswersGoBack, NoFrame
<1>2. HostInv /\ AnswersGoBack /\ [HostNext]_hostVars => AnswersGoBack'
  BY AnswersGoBackStep
<1> QED BY <1>1, <1>2, HostInvariant, PTL DEF HostSpec
=============================================================================
