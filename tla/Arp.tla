-------------------------------- MODULE Arp --------------------------------
(***************************************************************************)
(* The host configuration of the router (src/src/ip/conf.c) and its ARP     *)
(* cache (ip/arptab.c, ip/arp.c): which interface and physical address a    *)
(* frame for an IP address is sent to, and what is learnt from the frames   *)
(* received.                                                                *)
(*                                                                          *)
(* Abstractions.  An address is a member of Addrs; Net and Bcast give its   *)
(* network and the broadcast address of that network.  A netmask is either  *)
(* "host" (0xffffffff, before the host is configured) or "net".             *)
(* Nothing calls ipstack_tick, so that the ttl of an entry is what          *)
(* arptab_insert made it: an entry is there or it is not.  A frame is a     *)
(* record whose mac is its source when it is received, and its destination  *)
(* when it is sent.                                                         *)
(***************************************************************************)
EXTENDS Integers, Sequences, FiniteSets

CONSTANTS
    ARPTAB_SIZE,    \* entries of the cache (64 in the code)
    Addrs,          \* IP addresses
    Zero, AllOnes,  \* 0.0.0.0 and 255.255.255.255
    Net,            \* the network of each address, once the netmask is known
    Bcast,          \* the broadcast address of each network
    Macs,           \* physical addresses of other hosts
    BcastMac        \* the broadcast physical address

ASSUME ArpAssumption ==
    /\ ARPTAB_SIZE \in Nat \ {0}
    /\ {Zero, AllOnes} \subseteq Addrs /\ BcastMac \notin Macs
    /\ \A a \in Addrs : Bcast[Net[a]] \in Addrs

Entries == 0..(ARPTAB_SIZE - 1)

\* An entry with ttl zero: it maps no address.
NoEntry == [iface |-> 0, net_addr |-> Zero, phys_addr |-> BcastMac]

\* IFACE_BROADCAST: every interface.
EveryIface == 255

----------------------------------------------------------------------------
\* conf.c and conf.h; c is a configuration.

Unconfigured == [host |-> Zero, mask |-> "host", router |-> Zero]

Masked(c, a) == IF c.mask = "host" THEN a ELSE Net[a]
InSubnet(c, a) == Masked(c, c.host) = Masked(c, a)
BcastAddr(c) == IF c.mask = "host" THEN c.host ELSE Bcast[Net[c.host]]

----------------------------------------------------------------------------
\* arptab.c; t is a cache.

Live(t) == {i \in Entries : t[i] # NoEntry}
Mapping(t, a) == {i \in Live(t) : t[i].net_addr = a}

LastOf(S) == CHOOSE i \in S : \A j \in S : j <= i

OldestSlot(t) == LastOf(IF Live(t) # Entries THEN Entries \ Live(t) ELSE Entries)

\* arptab_findslot: the entry of a, else the last of the oldest entries.
FindSlot(t, a) ==
    IF Mapping(t, a) # {} THEN CHOOSE i \in Mapping(t, a) : TRUE ELSE OldestSlot(t)

Insert(t, iface, a, mac) ==
    [t EXCEPT ![FindSlot(t, a)] = [iface |-> iface, net_addr |-> a, phys_addr |-> mac]]

\* What a query finds: a set of at most one entry.
Query(c, t, a) ==
    IF a \in {BcastAddr(c), AllOnes}
    THEN {[iface |-> EveryIface, net_addr |-> a, phys_addr |-> BcastMac]}
    ELSE {t[i] : i \in Mapping(t, IF InSubnet(c, a) THEN a ELSE c.router)}

\* arptab_queryif: the interface a physical address was last heard on.
QueryIf(t, mac) ==
    LET S == {i \in Live(t) : t[i].phys_addr = mac}
    IN  IF S = {} THEN {} ELSE {t[CHOOSE i \in S : \A j \in S : i <= j].iface}

----------------------------------------------------------------------------
\* arp.c.

\* The address whose physical address a frame for a needs.
NextHop(c, a) == IF c.router # Zero /\ ~InSubnet(c, a) THEN c.router ELSE a

ArpRequest(c, a) ==
    [kind |-> "arp", iface |-> EveryIface, mac |-> BcastMac, op |-> "REQUEST",
     spa |-> c.host, tpa |-> a]

ArpReply(c, f) ==
    [kind |-> "arp", iface |-> f.iface, mac |-> f.mac, op |-> "REPLY",
     spa |-> c.host, tpa |-> f.spa]

\* A request for the host itself is answered, and teaches it nothing.
AsksForHost(c, f) == f.op = "REQUEST" /\ f.tpa # f.spa /\ f.tpa = c.host

\* arp_make_eth_header and the frame it heads: the datagram d to address a, or
\* the ARP request sent in its place.
Addressed(c, t, a, d) ==
    LET found == Query(c, t, NextHop(c, a))
    IN  IF found = {} THEN ArpRequest(c, NextHop(c, a))
        ELSE LET e == CHOOSE x \in found : TRUE
             IN  [kind |-> "ip", iface |-> e.iface, mac |-> e.phys_addr,
                  src |-> c.host, dst |-> a, data |-> d]
=============================================================================
