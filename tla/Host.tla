-------------------------------- MODULE Host --------------------------------
(***************************************************************************)
(* The router as a host of its network: IP dispatch (src/src/ip/stack.c),   *)
(* ping (ip/icmp.c), the name service (nbns.c), DHCP and SNTP, run by the   *)
(* main loop (win32/main.c) on a network of DHCP servers and a station that *)
(* talks to the router.                                                     *)
(*                                                                          *)
(* Each server answers at once but its answers take any time; they arrive   *)
(* in order, and those of different servers in any order.  A server is also *)
(* the gateway it grants, and relays to the time server.  At most MaxEvents *)
(* times an answer is lost or duplicated, an ACK is a NAK, the answer of    *)
(* the time server is garbled, a server fails and all others are up from    *)
(* then on, or the station sends a frame.                                   *)
(***************************************************************************)
EXTENDS Dhcp

CONSTANTS
    Lease,          \* the address each server grants
    Station,        \* address of the station, and its physical address
    Ifaces,         \* the interfaces it may be on
    TrueTime,       \* what the machine's clock lacks
    Faults,         \* subset of {"lose", "duplicate", "nak", "garble", "fail"}
    MaxEvents,      \* bound on the faults and the frames of the station
    MaxInFlight     \* time passes only while each server has fewer answers under way

ASSUME HostAssumption ==
    /\ Lease \in [Servers -> Addrs] /\ Station \in Macs /\ Servers \subseteq Macs
    /\ TrueTime \in Nat \ {0} /\ MaxEvents \in Nat
    /\ MaxInFlight \in Nat \ {0}

\* The station is a host, not a broadcast address.
ASSUME StationAssumption ==
    /\ Station \in Addrs \ {AllOnes} /\ \A a \in Addrs : Station # Bcast[Net[a]]

VARIABLES
    host,       \* the router, see Udp
    answers,    \* per server: the frames on their way to the router
    silent,     \* the servers that are down
    events,     \* faults and frames of the station so far
    heard,      \* history: the frame of the station taken in the last step
    asked,      \* history: whether SNTP asked in the last step
    quiet,      \* history: ticks since the clock was set
    late        \* history: whether a configured host took an OFFER or a NAK

hostVars == <<host, answers, silent, events, heard, asked, quiet, late>>

----------------------------------------------------------------------------
\* The stack.

NBNS_PORT == "nbns"
PING == "ping"

\* The sockets of the router; there is room for all of them.
Ports == {DHCP_CLIENT_PORT, NBNS_PORT, SNTP_PORT}

ASSUME SocketsAssumption == UDP_MAX_CONNS >= 3 /\ NoPort \notin Ports

IcmpSendReply(h, f) ==
    SendPacket(h, Addressed(h.conf, h.arptab, f.src, [port |-> PING, type |-> "REPLY"]))

NbnsSendResponse(h, f) ==
    UdpSend(h, NBNS_PORT, f.src, [port |-> NBNS_PORT, type |-> "RESPONSE", addr |-> h.conf.host])

\* ip_receive_packet, with udp_receive_packet and the handlers of the sockets.
IpReceive(h, f) ==
    CASE f.data.port = PING -> IcmpSendReply(h, f)
      [] f.data.port = DHCP_CLIENT_PORT /\ Bound(h, DHCP_CLIENT_PORT) -> DhcpEvent(h, f.data)
      [] f.data.port = NBNS_PORT /\ Bound(h, NBNS_PORT) -> NbnsSendResponse(h, f)
      [] f.data.port = SNTP_PORT /\ Bound(h, SNTP_PORT) -> SntpEvent(h, f.data)
      [] OTHER -> h

Learnt(h, f, a) == [h EXCEPT !.arptab = Insert(@, f.iface, a, f.mac)]

HandleArp(h, f) ==
    IF AsksForHost(h.conf, f) THEN SendPacket(h, ArpReply(h.conf, f))
    ELSE Learnt(h, f, f.spa)

ForUs(h, f) == f.dst \in {BcastAddr(h.conf), h.conf.host, AllOnes}

\* mutant: the sender's address is not learnt
ReceiveWithoutLearning(h, f) ==
    CASE f.kind = "arp"               -> HandleArp(h, f)
      [] f.kind = "ip" /\ ForUs(h, f) -> IpReceive(h, f)
      [] OTHER -> h

\* ipstack_receive_packet.
ReceivePacket(h, f) ==
    CASE f.kind = "arp"               -> HandleArp(h, f)
      [] f.kind = "ip" /\ ForUs(h, f) -> IpReceive(Learnt(h, f, f.src), f)
      [] OTHER -> Learnt(h, f, f.src)

\* The rest of an iteration of the main loop.
Process(h) == SntpProcess(DhcpProcess(h))

\* The router once main has initialised it.
StartedHost ==
    LET blank == [conf |-> Unconfigured, arptab |-> [i \in Entries |-> NoEntry],
                  udp |-> NoSockets, sntp |-> SntpNotReady,
                  dhcp |-> [state |-> "IDLE", server |-> NoServer, age |-> 0],
                  ticks |-> 0, offset |-> 0, out |-> <<>>]
    IN  UdpNewSock(DhcpInit(blank), NBNS_PORT)

----------------------------------------------------------------------------
\* The network.

Datagram(iface, mac, src, dst, d) ==
    [kind |-> "ip", iface |-> iface, mac |-> mac, src |-> src, dst |-> dst, data |-> d]

TimeAnswer ==
    [port |-> SNTP_PORT, type |-> "ANSWER", size |-> SNTP_SIZE, mode |-> 2, time |-> TrueTime]

\* What server s, on interface 0, answers to frame f: a sequence of frames.
Answer(s, f) ==
    LET grants(type) == <<Datagram(0, s, s, AllOnes, Message(DHCP_CLIENT_PORT, type, s, Lease[s]))>>
    IN  CASE f.mac \notin {BcastMac, s} -> <<>>
          [] f.kind = "arp" ->
                IF f.op = "REQUEST" /\ f.tpa = s
                THEN <<[kind |-> "arp", iface |-> 0, mac |-> s, op |-> "REPLY",
                        spa |-> s, tpa |-> f.spa]>>
                ELSE <<>>
          [] f.kind = "ip" /\ f.data.port = DHCP_SERVER_PORT ->
                IF f.data.type = "DISCOVER" THEN grants("OFFER")
                ELSE IF f.data.server = s THEN grants("ACK") ELSE <<>>
          [] f.kind = "ip" /\ f.data.port = SNTP_PORT ->
                <<Datagram(0, s, TimeServer, f.src, TimeAnswer)>>
          [] OTHER -> <<>>

Answered(s, out) ==
    LET A[n \in 0..Len(out)] == IF n = 0 THEN <<>> ELSE A[n - 1] \o Answer(s, out[n])
    IN  IF s \in silent THEN <<>> ELSE A[Len(out)]

\* What the station may send: it asks for the router's physical address, tells
\* its own, pings, or looks for the router's name.
Chatter(c) ==
    UNION {{[kind |-> "arp", iface |-> i, mac |-> Station, op |-> "REQUEST",
             spa |-> Station, tpa |-> a] : a \in {c.host, Station}}
           \cup {Datagram(i, Station, Station, c.host, [port |-> PING, type |-> "REQUEST"]),
                 Datagram(i, Station, Station, AllOnes, [port |-> NBNS_PORT, type |-> "QUERY"])}
           : i \in Ifaces}

NoFrame == [kind |-> "none"]

----------------------------------------------------------------------------
\* The router takes r, what came of a frame or of time, through the rest of its
\* main loop; the servers answer what it sends, and have left under way.
Iterate(received, left) ==
    \E r \in {received} : \E p \in {Process(r)} : LET set == r.offset # host.offset IN
        /\ host' = p
        /\ answers' = [s \in Servers |-> left[s] \o Answered(s, p.out)]
        /\ asked' = (r.sntp.state = "IDLE" /\ p.sntp.state = "WAITING_FOR_RESPONSE")
        /\ quiet' = CASE set -> 0
                      [] ~set /\ r.ticks # host.ticks /\ quiet <= RESYNC_INTERVAL -> quiet + 1
                      [] OTHER -> quiet

Fresh == [host EXCEPT !.out = <<>>]

\* Whether a message changes the configuration of a configured host.
Late(f) ==
    /\ host.dhcp.state = "DONE" /\ f.kind = "ip"
    /\ f.data.port = DHCP_CLIENT_PORT /\ f.data.type # "ACK"

TakeAnswer(s) ==
    /\ answers[s] # <<>>
    /\ LET f == Head(answers[s])
       IN  /\ Iterate(ReceivePacket(Fresh, f), [answers EXCEPT ![s] = Tail(@)])
           /\ late' = (late \/ Late(f))
    /\ heard' = NoFrame
    /\ UNCHANGED <<silent, events>>

TakeChatter ==
    /\ events < MaxEvents
    /\ events' = events + 1
    /\ \E f \in Chatter(host.conf) :
        /\ Iterate(ReceivePacket(Fresh, f), answers)
        /\ heard' = f
    /\ UNCHANGED <<silent, late>>

Older(n) == IF n < DHCP_TIMEOUT THEN n + 1 ELSE n

\* The clock ticks, and the main loop finds no frame.
Tick ==
    /\ \A s \in Servers : Len(answers[s]) < MaxInFlight
    /\ Iterate([Fresh EXCEPT !.ticks = TicksIn(host, 1), !.dhcp.age = Older(@)], answers)
    /\ heard' = NoFrame
    /\ UNCHANGED <<silent, events, late>>

Nak(f) == [f EXCEPT !.data = Message(DHCP_CLIENT_PORT, "NAK", f.data.server, Zero)]

IsAck(f) == f.kind = "ip" /\ f.data.type = "ACK"
IsTime(f) == f.kind = "ip" /\ f.data.type = "ANSWER"

\* What becomes of answer f: the server takes its offer back, or a time answer has
\* the wrong size or the mode of a client.
Spoilt(f) ==
    (IF "nak" \in Faults /\ IsAck(f) THEN {Nak(f)} ELSE {})
    \cup (IF "garble" \in Faults /\ IsTime(f)
          THEN {[f EXCEPT !.data.size = SNTP_SIZE + 20], [f EXCEPT !.data.mode = 3]} ELSE {})

Fault(s) ==
    /\ events < MaxEvents
    /\ events' = events + 1
    /\ \/ /\ answers[s] # <<>>
          /\ \E q \in {Tail(answers[s]) : k \in Faults \cap {"lose"}}
                   \cup {<<Head(answers[s])>> \o answers[s] : k \in Faults \cap {"duplicate"}}
                   \cup {<<f>> \o Tail(answers[s]) : f \in Spoilt(Head(answers[s]))} :
                answers' = [answers EXCEPT ![s] = q]
          /\ UNCHANGED silent
       \/ /\ "fail" \in Faults /\ s \notin silent
          /\ silent' = {s}
          /\ UNCHANGED answers
    /\ UNCHANGED <<host, heard, asked, quiet, late>>

HostInit ==
    /\ host = StartedHost
    /\ silent \in SUBSET Servers \ {Servers}
    /\ answers = [s \in Servers |-> Answered(s, StartedHost.out)]
    /\ events = 0 /\ heard = NoFrame
    /\ asked = FALSE /\ quiet = RESYNC_INTERVAL + 1 /\ late = FALSE

HostNext ==
    Tick \/ TakeChatter \/ \E s \in Servers : TakeAnswer(s) \/ Fault(s)

\* The main loop runs forever: it takes what arrives, and time passes.
HostFairness == WF_hostVars(Tick) /\ \A s \in Servers : WF_hostVars(TakeAnswer(s))

HostSpec == HostInit /\ [][HostNext]_hostVars /\ HostFairness

----------------------------------------------------------------------------
\* Properties.

HostTypeOK ==
    /\ host.conf \in [host : Addrs, mask : {"host", "net"}, router : Addrs]
    /\ \A i \in Entries : /\ host.arptab[i].iface \in Ifaces \cup {0}
                          /\ host.arptab[i].phys_addr \in Macs \cup {BcastMac}
    /\ host.dhcp.state \in {"IDLE", "WAIT_FOR_OFFER", "WAIT_FOR_ACK", "DONE"}
    /\ host.sntp.interval \in MIN_INTERVAL..MAX_INTERVAL
    /\ host.sntp.next \in 0..(TickMod - 1)

\* A configured host has the address, netmask and router of one lease, that of
\* the server it heard last, and never parts of two - as long as no OFFER or
\* NAK comes after the ACK: parse_msg takes the address from those too
\* (dhcp.c:218, before the state is looked at in 249).
LeaseWhole ==
    host.dhcp.state = "DONE" /\ ~late =>
        \E s \in Servers :
            /\ s = host.dhcp.server
            /\ host.conf = [host |-> Lease[s], mask |-> "net", router |-> Router[s]]

\* A configured host runs SNTP, once, and only it does (dhcp.c:261-262): no
\* lease, however often acknowledged, takes a second socket.
SntpAfterDhcp ==
    /\ host.dhcp.state = "DONE" <=> host.sntp.state # "NOT_READY"
    /\ \A i, j \in UdpSlots : host.udp[i] = host.udp[j] /\ host.udp[i] # NoPort => i = j

\* A ping from the subnet is answered at once, and where it came from: the
\* sender just heard is in the ARP table, however full (arptab.c:19-35).
AnswersGoBack ==
    heard.kind = "ip" /\ host.conf.mask = "net" /\ InSubnet(host.conf, Station) =>
        \E k \in DOMAIN host.out :
            /\ host.out[k].kind = "ip" /\ host.out[k].dst = Station
            /\ host.out[k].data.port = heard.data.port
            /\ host.out[k].iface = heard.iface /\ host.out[k].mac = heard.mac

\* After an answer SNTP is silent for RESYNC_INTERVAL ("once every two hours",
\* sntp.c:14) - unless the answer came less than RESYNC_INTERVAL before ticks()
\* wraps: next_sync_time is then small already, and every iteration up to the
\* wrap may ask (sntp.c:63, 109).
RequestsPaced ==
    asked => \/ quiet > RESYNC_INTERVAL
             \/ (host.ticks - quiet) % TickMod >= TickMod - RESYNC_INTERVAL

\* When an answer has "synchronized" the clock (sntp.c:70), it is right up to
\* what the conversion of the answer is off.  The code sets a clock that is
\* right back: set_time measures from a time that contains the offset.
ClockSynchronized == quiet = 0 => host.offset \in TrueTime..(TrueTime + EpochError)

\* Though messages are lost, repeated and refused, and servers are down or fail,
\* the host is configured for good as long as the server whose offer it has taken
\* does not fail before its ACK (dhcp.c:225-271; else see ConfiguredByOther).
Configured ==
    [](host.dhcp.state = "WAIT_FOR_ACK" => host.dhcp.server \notin silent)
        => <>[](host.dhcp.state = "DONE")

\* Though servers fail, the host is configured as long as one is up: a client whose
\* request is not answered starts again (RFC 2131, 3.1), but the code repeats the
\* request forever (dhcp.c:231).
ConfiguredByOther == <>[](host.dhcp.state = "DONE")

\* SNTP never stops asking, lost answers, ARP misses and wraps of ticks()
\* notwithstanding, unless next_sync_time is the last value of ticks(), which
\* is never exceeded (sntp.c:109).
KeepsAsking ==
    \/ <>[](host.sntp.state = "NOT_READY")
    \/ []<>asked
    \/ <>[](host.sntp.next = TickMod - 1)
=============================================================================
