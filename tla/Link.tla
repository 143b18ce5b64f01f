-------------------------------- MODULE Link --------------------------------
(***************************************************************************)
(* Frames through the router: the Win32 ethernet driver                     *)
(* (src/src/win32/hal_ethernet.c) and the choice of the outgoing interface  *)
(* in the main loop (win32/main.c).                                         *)
(*                                                                          *)
(* pcap captures what stations send on an interface and, in order, what the *)
(* router itself sends there, as long as its buffer has room; a ring per    *)
(* interface of the frames sent last is to tell them apart.                 *)
(*                                                                          *)
(* Abstractions.  A frame has addresses and an id.  It equals another when  *)
(* their bytes do; the code compares up to the shorter length, so no frame  *)
(* is taken to be the beginning of another.  A station's network address is *)
(* named as its physical one.  What the stack itself sends, whenever it     *)
(* does, is one of Own, to every interface.  pcap_sendpacket succeeds.      *)
(***************************************************************************)
EXTENDS Arp

CONSTANTS
    RSB_SIZE,       \* slots of a ring (8 in the code)
    PcapSize,       \* frames pcap holds of an interface
    Ifaces,         \* interfaces
    RouterMac,
    Home,           \* the interface each station is on
    Frames,         \* what stations send, each at most once
    Own,            \* what the router itself sends to everyone
    MaxOwn          \* bound: how often it does

NeverFilled == [id |-> "none"]      \* a slot whose len is 0: it matches any frame

ASSUME LinkAssumption ==
    /\ RSB_SIZE \in Nat \ {0, 1} /\ PcapSize \in Nat \ {0} /\ MaxOwn \in Nat
    /\ Home \in [Macs -> Ifaces] /\ EveryIface \notin Ifaces
    /\ \A f \in Frames : f.src \in Macs
    /\ \A f \in Own : f.src = RouterMac /\ f.dst = BcastMac
    /\ RouterMac \notin Macs \cup {BcastMac}
    /\ NeverFilled \notin Frames \cup Own

VARIABLES
    rings,      \* sendbuf: the ring of each interface
    captured,   \* what pcap holds, per interface, the oldest first
    arptab,     \* the ARP cache
    unsent,     \* the frames stations have not sent yet
    own,        \* how often the router sent something itself
    log,        \* history: the frames the router sent on each interface
    taken,      \* history: how often each frame was taken for a new one, up to
                \* MaxTaken and once more; one to another host is charged each time
    mixed       \* history: whether a station or the router itself sent something
                \* while frames were under way

linkVars == <<rings, captured, arptab, unsent, own, log, taken, mixed>>

----------------------------------------------------------------------------
\* The ring of recently sent frames.

Slots == 0..(RSB_SIZE - 1)

EmptyRing == [packets |-> [x \in Slots |-> NeverFilled], head |-> 0, tail |-> 0]

After(x) == (x + 1) % RSB_SIZE

\* The slots from the tail up to, but without, the head.
Window(ring) == {x \in Slots : (x - ring.tail) % RSB_SIZE < (ring.head - ring.tail) % RSB_SIZE}

\* mutant: the newest but one is not looked at either
RsbCheckShort(ring, f) ==
    \E x \in Window(ring) : After(x) # ring.head /\ ring.packets[x] \in {f, NeverFilled}

RsbCheck(ring, f) == \E x \in Window(ring) : ring.packets[x] \in {f, NeverFilled}

\* mutants: the tail is not moved on; a frame that is there is not stored again
RsbInsertKeepingTail(ring, f) ==
    [ring EXCEPT !.head = After(@), !.packets[After(ring.head)] = f]

RsbInsertOnce(ring, f) ==
    IF RsbCheck(ring, f) THEN ring ELSE RsbInsertKeepingTail(ring, f)

RsbInsert(ring, f) ==
    LET head == After(ring.head)
    IN  [packets |-> [ring.packets EXCEPT ![head] = f], head |-> head,
         tail |-> IF ring.tail = head THEN After(head) ELSE ring.tail]

----------------------------------------------------------------------------
\* eth_find_interface, with the choice that handle_packet makes for a frame to
\* another host.
IFACE_INTERNAL == 254

DestIface(f) ==
    CASE f.dst = RouterMac -> IFACE_INTERNAL
      [] f.dst = BcastMac  -> EveryIface
      [] QueryIf(arptab, f.dst) # {} /\ f.dst \notin {RouterMac, BcastMac} ->
            CHOOSE i \in QueryIf(arptab, f.dst) : TRUE
      [] OTHER -> EveryIface

\* mutant: a broadcast goes back to where it came from
OutgoingEverywhere(src, dest) ==
    IF dest = EveryIface THEN Ifaces ELSE {dest} \ {src, IFACE_INTERNAL}

\* eth_inject: the interfaces a frame goes out on.
Outgoing(src, dest) ==
    IF dest = EveryIface THEN Ifaces \ {src} ELSE {dest} \ {src, IFACE_INTERNAL}

\* The newest frames of a log, one less than a ring has slots.
Recent(l) == IF Len(l) < RSB_SIZE THEN l ELSE Tail(l)

\* pcap drops a frame that finds its buffer full.
Capture(q, f) == IF Len(q) < PcapSize THEN Append(q, f) ELSE q

\* The frame is sent on the interfaces in D, where pcap captures it too; pending
\* is what pcap holds so far.
Inject(f, D, pending) ==
    /\ rings' = [i \in Ifaces |-> IF i \in D THEN RsbInsert(rings[i], f) ELSE rings[i]]
    /\ captured' = [i \in Ifaces |-> IF i \in D THEN Capture(pending[i], f) ELSE pending[i]]
    /\ log' = [i \in Ifaces |-> IF i \in D THEN Append(Recent(log[i]), f) ELSE log[i]]

\* The stack learns from frames for the router and from broadcasts.
Stacked(f) == f.dst \in {RouterMac, BcastMac}

MaxTaken == 3

OnceMore(n) == IF n <= MaxTaken THEN n + 1 ELSE n

\* eth_getpacket and handle_packet.  Before the main loop dhcp_init has broadcast.
Receive(i) ==
    /\ own > 0
    /\ captured[i] # <<>>
    /\ LET f == Head(captured[i])
           pending == [captured EXCEPT ![i] = Tail(@)]
       IN  \/ /\ RsbCheck(rings[i], f)
              /\ captured' = pending
              /\ UNCHANGED <<rings, arptab, log, taken>>
           \/ /\ ~RsbCheck(rings[i], f)
              /\ Inject(f, Outgoing(i, DestIface(f)), pending)
              /\ arptab' = IF Stacked(f) THEN Insert(arptab, i, f.src, f.src) ELSE arptab
              /\ taken' = [g \in Frames |-> IF g = f THEN OnceMore(taken[g]) ELSE taken[g]]
    /\ UNCHANGED <<unsent, own, mixed>>

Quiet == \A i \in Ifaces : captured[i] = <<>>

\* eth_inject_packet of what the stack sends.
SendOwn ==
    /\ own < MaxOwn
    /\ own' = own + 1
    /\ mixed' = (mixed \/ ~Quiet)
    /\ \E f \in Own : Inject(f, Ifaces, captured)
    /\ UNCHANGED <<arptab, unsent, taken>>

\* A station sends a frame.
StationSends ==
    \E f \in unsent :
        /\ captured' = [captured EXCEPT ![Home[f.src]] = Capture(@, f)]
        /\ unsent' = unsent \ {f}
        /\ mixed' = (mixed \/ ~Quiet)
        /\ UNCHANGED <<rings, arptab, own, log, taken>>

LinkInit ==
    /\ rings = [i \in Ifaces |-> EmptyRing]
    /\ captured = [i \in Ifaces |-> <<>>]
    /\ arptab = [i \in Entries |-> NoEntry]
    /\ unsent = Frames /\ own = 0
    /\ log = [i \in Ifaces |-> <<>>]
    /\ taken = [f \in Frames |-> 0] /\ mixed = FALSE

LinkNext == StationSends \/ SendOwn \/ \E i \in Ifaces : Receive(i)

\* The main loop takes what pcap holds, and the stack repeats its broadcasts
\* while nobody answers (DHCP).
LinkSpec ==
    /\ LinkInit /\ [][LinkNext]_linkVars
    /\ WF_linkVars(SendOwn) /\ \A i \in Ifaces : WF_linkVars(Receive(i))

----------------------------------------------------------------------------
\* Properties.

\* What a ring remembers of the frames sent on its interface: those before the
\* newest, back to the RSB_SIZE-th.  The newest one is not looked at
\* (hal_ethernet.c:48), and until it is full a ring takes every frame for one
\* of the router's own (hal_ethernet.c:50: a slot never filled has length 0).
RingRemembers ==
    \A i \in Ifaces : \A f \in Frames \cup Own :
        LET n == Len(log[i])
        IN  RsbCheck(rings[i], f) <=>
                \/ 0 < n /\ n < RSB_SIZE
                \/ \E k \in 1..(RSB_SIZE - 1) : k < n /\ log[i][n - k] = f

\* The router hears its own newest frame and sends it round once more, but no
\* storm comes of it: a frame sent while nothing else is under way is taken, and
\* charged to its sender, three times at most, however many interfaces there are -
\* from its station, from one interface it went out on, and from its station's
\* again (hal_ethernet.c:48, 209).
EchoesBounded == ~mixed => \A f \in Frames : taken[f] <= MaxTaken

\* A station that sends while nothing else is under way is learnt on its own
\* interface once its frame has died out, although copies of it are learnt on
\* others in between (main.c:57-61).
LearntHome ==
    Quiet /\ ~mixed =>
        \A k \in Live(arptab) :
            LET m == arptab[k].phys_addr
            IN  m \in Macs => arptab[k].iface = Home[m]

\* The router's own broadcasts fill the rings, so that it hears every station in
\* the end; it is deaf from its first frame to the RSB_SIZE-th.
WarmsUp == <>[](\A i \in Ifaces : ~RsbCheck(rings[i], [id |-> "new"]))
=============================================================================
