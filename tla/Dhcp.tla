-------------------------------- MODULE Dhcp --------------------------------
(***************************************************************************)
(* The DHCP client (src/src/dhcp.c), which configures the host and starts   *)
(* SNTP.                                                                    *)
(*                                                                          *)
(* Abstractions.  A message is its type, the server's identifier and the    *)
(* address it is about; it is for this host (op and xid agree), its type    *)
(* comes before the options that depend on it, and an ACK brings a netmask  *)
(* and the router Router[server].  Of tickCount only the time passed since  *)
(* is kept, up to DHCP_TIMEOUT; the code subtracts, so the wrap of ticks()  *)
(* does not matter.                                                         *)
(***************************************************************************)
EXTENDS Sntp

CONSTANTS
    DHCP_TIMEOUT,
    Servers,        \* addresses of DHCP servers
    NoServer,       \* serverid at the start: 0
    Router          \* the default router each server grants

ASSUME DhcpAssumption ==
    /\ DHCP_TIMEOUT \in Nat \ {0}
    /\ Servers \subseteq Addrs /\ NoServer \notin Servers
    /\ Router \in [Servers -> Addrs]

DHCP_SERVER_PORT == "bootps"
DHCP_CLIENT_PORT == "bootpc"

Message(port, type, server, addr) ==
    [port |-> port, type |-> type, server |-> server, addr |-> addr]

\* What send_discover and send_request have in common.
Ask(h, type, server, state) ==
    [UdpSend(h, DHCP_CLIENT_PORT, AllOnes,
             Message(DHCP_SERVER_PORT, type, server, h.conf.host))
        EXCEPT !.dhcp.age = 0, !.dhcp.state = state]

SendDiscover(h) == Ask(h, "DISCOVER", NoServer, "WAIT_FOR_OFFER")
SendRequest(h)  == Ask(h, "REQUEST", h.dhcp.server, "WAIT_FOR_ACK")

\* mutant: the netmask and router of the first lease stay
ParseMsgOnce(h, m) ==
    [h EXCEPT !.dhcp.server = m.server, !.conf.host = m.addr,
              !.conf.mask = IF m.type = "ACK" THEN "net" ELSE @,
              !.conf.router = IF m.type = "ACK" /\ @ = Zero THEN Router[m.server] ELSE @]

\* parse_msg with parse_options.
ParseMsg(h, m) ==
    [h EXCEPT !.dhcp.server = m.server,
              !.conf = IF m.type = "ACK"
                       THEN [host |-> m.addr, mask |-> "net", router |-> Router[m.server]]
                       ELSE [@ EXCEPT !.host = m.addr]]

DhcpEvent(h, m) ==
    LET p == ParseMsg(h, m)
    IN  CASE h.dhcp.state = "DONE" -> p
          [] h.dhcp.state # "DONE" /\ m.type = "OFFER" -> SendRequest(p)
          [] h.dhcp.state # "DONE" /\ m.type = "ACK" ->
                SntpInit([p EXCEPT !.dhcp.state = "DONE"])
          [] OTHER -> SendDiscover(p)

\* mutant: a request is not repeated
DhcpProcessOffer(h) ==
    IF h.dhcp.age >= DHCP_TIMEOUT /\ h.dhcp.state = "WAIT_FOR_OFFER"
    THEN SendDiscover(h) ELSE h

DhcpProcess(h) ==
    CASE h.dhcp.age >= DHCP_TIMEOUT /\ h.dhcp.state = "WAIT_FOR_ACK"   -> SendRequest(h)
      [] h.dhcp.age >= DHCP_TIMEOUT /\ h.dhcp.state = "WAIT_FOR_OFFER" -> SendDiscover(h)
      [] OTHER -> h

DhcpInit(h) ==
    LET g == UdpNewSock(h, DHCP_CLIENT_PORT)
    IN  IF g = h THEN h ELSE SendDiscover(g)
=============================================================================
