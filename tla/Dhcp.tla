-------------------------------- MODULE Dhcp --------------------------------
(***************************************************************************)
(* How the TCP/IP server gets its address: the start of servers/tcpip      *)
(* main.c, dhcp.c, the UDP sockets below it (udp.c) and the device's       *)
(* settings (device.c); with DHCP servers and another client on the same   *)
(* network.  Frames on the network may be lost or arrive in any order.     *)
(***************************************************************************)
EXTENDS Integers, Sequences, FiniteSets

CONSTANTS
    Servers,        \* DHCP servers
    Others,         \* other clients that ask for an address
    Options,        \* subsets of {"netmask", "router", "dns"} that servers send with an ACK
    Lossy,          \* are frames lost?
    MaxFrames       \* bound on frames on the network

DhcpAssumption ==
    /\ "us" \notin Others /\ Options \subseteq SUBSET {"netmask", "router", "dns"}
    /\ Lossy \in BOOLEAN /\ MaxFrames \in Nat

Clients == {"us"} \cup Others
DHCP_CLIENT == 68
DHCP_SERVER == 67
DNS_CLIENT == 3535

\* Addresses are named by the server that leases them and the client; the unspecified one is 0.
Addrs == Servers \X Clients
UNSPECIFIED == <<"none", "none">>
BROADCAST == <<"all", "all">>
DHCP_SERVERS == <<"server", "server">>   \* a broadcast that servers listen to

VARIABLES
    pc,             \* "start", "configuring" or "ready" (registered as a service)
    device,         \* struct device, and dns_server_ipaddr: what is set
    active_pcbs,    \* ports with a UDP socket
    wire,           \* frames on the network
    offered,        \* history: addresses offered to anybody
    asked,          \* history: who has asked for which address
    datagram        \* the last struct udp_datagram: [port] with the port its sender used

vars == <<pc, device, active_pcbs, wire, offered, asked, datagram>>

Frame(type, client, addr, opts, to, port) ==
    [type |-> type, client |-> client, addr |-> addr, opts |-> opts, to |-> to, port |-> port]

TypeOK ==
    /\ pc \in {"start", "configuring", "ready"}
    /\ device.ipaddr \in Addrs \cup {UNSPECIFIED} /\ device.set \subseteq {"netmask", "router", "dns"}
    /\ active_pcbs \subseteq {DHCP_CLIENT, DNS_CLIENT}
    /\ offered \subseteq Addrs /\ asked \subseteq Clients \X (Addrs \cup {UNSPECIFIED})

\* What the other clients ask for is on its way too.
Init ==
    /\ pc = "start" /\ device = [ipaddr |-> UNSPECIFIED, set |-> {}] /\ active_pcbs = {}
    /\ wire = {Frame("DISCOVER", c, UNSPECIFIED, {}, DHCP_SERVERS, DHCP_SERVER) : c \in Others}
    /\ offered = {} /\ asked = {} /\ datagram = [port |-> 0, from |-> 0]
-----------------------------------------------------------------------------
\* dhcp_transmit
dhcp_transmit(type, addr) == Frame(type, "us", addr, {}, DHCP_SERVERS, DHCP_SERVER)

\* As bound, the port of servers bound.
bound_server == {DHCP_SERVER, DNS_CLIENT}

\* dhcp_init, dns_init: udp_new, udp_bind
bound == {DHCP_CLIENT, DNS_CLIENT}

\* main up to its first loop: device_init, dns_init, dhcp_init, device_enable_dhcp.
Start ==
    /\ pc = "start" /\ pc' = "configuring"
    /\ active_pcbs' = bound
    /\ wire' = wire \cup {dhcp_transmit("DISCOVER", UNSPECIFIED)}
    /\ UNCHANGED <<device, offered, asked, datagram>>

\* device_dst_is_ours
device_dst_is_ours(f) == f.to = BROADCAST \/ (device.ipaddr # UNSPECIFIED /\ f.to = device.ipaddr)

\* udp_lookup
udp_lookup(port) == port \in active_pcbs

\* ipv4_receive: is the frame for us, and for a socket?  Frames have the length they say.
ipv4_receive(f) == device_dst_is_ours(f) /\ udp_lookup(f.port)

\* udp_receive: what is queued for the socket.
udp_receive(f) == [port |-> f.port, from |-> DHCP_SERVER]

\* As has_all, one of them being enough.
has_any(opts) == opts # {}

\* An ACK has everything that is needed.
has_all(opts) == opts = {"netmask", "router", "dns"}

\* As requested, the address of the device asked for.
requested_own(f) == device.ipaddr

\* The address that a REQUEST asks for.
requested(f) == f.addr

\* dhcp_process: OFFER, ACK and other messages.  Neither the transaction nor the client is looked
\* at.
dhcp_process(f) ==
    /\ IF f.type = "OFFER"
       THEN /\ wire' = (wire \ {f}) \cup {dhcp_transmit("REQUEST", requested(f))}
            /\ asked' = asked \cup {<<"us", requested(f)>>}
       ELSE wire' = wire \ {f} /\ UNCHANGED asked
    /\ device' = IF f.type = "ACK" /\ has_all(f.opts) THEN [ipaddr |-> f.addr, set |-> f.opts] ELSE device

\* device_ready, which ends the first loop of main.
device_ready == device'.ipaddr # UNSPECIFIED

\* NET_RECV_MSG in either loop of main: ethernet_receive, ipv4_receive, udp_receive,
\* dhcp_receive.
NetRecv ==
    \E f \in wire :
        /\ pc # "start" /\ f.to # DHCP_SERVERS
        /\ IF ipv4_receive(f)
           THEN datagram' = udp_receive(f) /\ dhcp_process(f)
           ELSE wire' = wire \ {f} /\ UNCHANGED <<datagram, device, asked>>
        /\ pc' = IF device_ready THEN "ready" ELSE pc
        /\ UNCHANGED <<active_pcbs, offered>>

\* A server answers.  To us it broadcasts, as the flags ask for; to others as they have asked.
Answer(f, type, addr, opts) ==
    \E to \in {BROADCAST} \cup (IF f.client = "us" THEN {} ELSE {addr}) :
        wire' = (wire \ {f}) \cup {Frame(type, f.client, addr, opts, to, DHCP_CLIENT)}

\* Every server offers an address to the sender of a DISCOVER.
ServerOffers ==
    \E f \in wire :
        /\ f.type = "DISCOVER" /\ f.to = DHCP_SERVERS
        /\ wire' = (wire \ {f}) \cup {Frame("OFFER", f.client, <<s, f.client>>, {}, BROADCAST, DHCP_CLIENT) : s \in Servers}
        /\ offered' = offered \cup {<<s, f.client>> : s \in Servers}
    /\ UNCHANGED <<pc, device, active_pcbs, asked, datagram>>

\* The server whose address is asked for acknowledges; the other clients ask in their turn.
ServerAcks ==
    /\ \E f \in wire, opts \in Options :
        /\ f.type = "REQUEST" /\ Answer(f, "ACK", f.addr, opts)
    /\ UNCHANGED <<pc, device, active_pcbs, offered, asked, datagram>>

OtherRequests ==
    /\ \E f \in wire :
        /\ f.type = "OFFER" /\ f.client \in Others /\ Cardinality(wire) < MaxFrames
        /\ <<f.client, f.addr>> \notin asked /\ asked' = asked \cup {<<f.client, f.addr>>}
        /\ wire' = wire \cup {Frame("REQUEST", f.client, f.addr, {}, DHCP_SERVERS, DHCP_SERVER)}
    /\ UNCHANGED <<pc, device, active_pcbs, offered, datagram>>

Lose == Lossy /\ \E f \in wire : wire' = wire \ {f} /\ UNCHANGED <<pc, device, active_pcbs, offered, asked, datagram>>

Next == Start \/ NetRecv \/ ServerOffers \/ ServerAcks \/ OtherRequests \/ Lose

Spec == Init /\ [][Next]_vars
-----------------------------------------------------------------------------
\* Once applications are served there is a gateway, a netmask and a DNS server: the assertion
\* in device_get_next_hop holds, and dns_query has an address to send to.
ReadyConfigured == pc = "ready" => device.set = {"netmask", "router", "dns"}

\* We only ask for addresses that have been offered.
AsksOffered == \A r \in asked : r[2] \in offered

\* If no frame is lost the server gets an address and serves.
GetsReady == []<>(pc = "ready")
-----------------------------------------------------------------------------
(* What the source says and the code does not do (README, Disagreements).  *)

\* Our address is one that is leased to us ("the IP address has been assigned").
OwnLease == device.ipaddr # UNSPECIFIED => device.ipaddr[2] = "us"

\* Once there is an address the configuration has ended ("ends the automatic configuration").
AddressStable == [][device.ipaddr # UNSPECIFIED => device' = device]_vars

\* The port in a received datagram is that of its sender.
SourcePort == datagram.port = datagram.from
=============================================================================
