----------------------------- MODULE MCNetwork ------------------------------
(***************************************************************************)
(* The parts of the TCP/IP server, and its clients, for TLC.  They share   *)
(* no state here: in a behaviour one of them runs, sys, and the others     *)
(* stay where they start, so that a run explores them all, side by side,   *)
(* and a property of one is a property of the whole.                       *)
(***************************************************************************)
EXTENDS Integers, Sequences, FiniteSets

CONSTANTS
    Components,     \* the ones to explore
    \* Tcp
    tcp_MBUF_MAX_LEN, SeqSpace, TCP_RX_BUF_SIZE, MaxPacket, tcp_ReadMax, PeerIss,
    PeerWindow, tcp_MaxData, Writes, tcp_MaxConnects, tcp_Lossy, Ends, MaxNet,
    \* MbufQueue
    mbuf_MBUF_MAX_LEN, Inputs, MaxLen, MaxBytes,
    \* Arp
    Local, Remote, Gateway, NumEntries, arp_Lossy, MaxPackets, MaxUptime,
    \* Dhcp
    Servers, Others, Options, dhcp_Lossy, MaxFrames,
    \* Dns
    dns_Tasks, Hosts, Missing, Long, IdMod, dns_Lossy, MaxQueries,
    \* Sockets
    sock_Tasks, SOCKETS_MAX, TCP_PCBS_MAX, Ports, Urls, sock_ReadMax, SegmentMax, DataWords,
    sock_MaxConnects, sock_MaxData, MaxQueue, MaxKills

VARIABLES
    sys,            \* the component that runs
    \* Tcp
    tcp_pc, pcb, tx_buf, rx_buf, retransmit_at, out, in, written, received, closed_msgs,
    opened, peer,
    \* MbufQueue
    chain, result, mbuf_count,
    \* Arp
    table, uptime, arp_asked, packets, sent,
    \* Dhcp
    dhcp_pc, device, dhcp_active_pcbs, dhcp_wire, offered, dhcp_asked, datagram,
    \* Dns
    waiting, got, dns_requests, next_query_id, dns_wire, dns_count, alive,
    \* Sockets
    sockets, pcbs, sock_active_pcbs, server, async_messages, destroyed, client, opener,
    kills

\* Bytes that are put into an mbuf at once.
Pieces == {<<>>, <<1>>, <<2, 1>>, <<1, 2, 2>>}

\* URLs: the address that the test of http uses, one that is too short, and
\* one with another scheme.
SomeUrls == {[http |-> TRUE, host |-> <<10, 0, 2, 100>>], [http |-> TRUE, host |-> <<10, 0, 2>>],
             [http |-> FALSE, host |-> <<10, 0, 2, 100>>]}

tcp == INSTANCE Tcp WITH
    MBUF_MAX_LEN <- tcp_MBUF_MAX_LEN, ReadMax <- tcp_ReadMax, MaxData <- tcp_MaxData,
    MaxConnects <- tcp_MaxConnects, Lossy <- tcp_Lossy, pc <- tcp_pc
mbuf == INSTANCE MbufQueue WITH
    MBUF_MAX_LEN <- mbuf_MBUF_MAX_LEN, count <- mbuf_count
arp == INSTANCE Arp WITH
    Lossy <- arp_Lossy, asked <- arp_asked
dhcp == INSTANCE Dhcp WITH
    Lossy <- dhcp_Lossy, pc <- dhcp_pc, active_pcbs <- dhcp_active_pcbs, wire <- dhcp_wire,
    asked <- dhcp_asked
dns == INSTANCE Dns WITH
    Tasks <- dns_Tasks, Lossy <- dns_Lossy, wire <- dns_wire, count <- dns_count
sock == INSTANCE Sockets WITH
    Tasks <- sock_Tasks, ReadMax <- sock_ReadMax, MaxConnects <- sock_MaxConnects, MaxData
    <- sock_MaxData, active_pcbs <- sock_active_pcbs

ASSUME NetworkAssumption ==
    /\ tcp!TcpAssumption /\ tcp!MbufAssumption
    /\ mbuf!MbufAssumption
    /\ arp!ArpAssumption
    /\ dhcp!DhcpAssumption
    /\ dns!DnsAssumption
    /\ sock!SocketsAssumption

TcpVars ==
    <<tcp_pc, pcb, tx_buf, rx_buf, retransmit_at, out, in, written, received, closed_msgs,
      opened, peer>>
MbufVars == <<chain, result, mbuf_count>>
ArpVars == <<table, uptime, arp_asked, packets, sent>>
DhcpVars == <<dhcp_pc, device, dhcp_active_pcbs, dhcp_wire, offered, dhcp_asked, datagram>>
DnsVars == <<waiting, got, dns_requests, next_query_id, dns_wire, dns_count, alive>>
SocketsVars ==
    <<sockets, pcbs, sock_active_pcbs, server, async_messages, destroyed, client, opener,
      kills>>
vars == <<sys, TcpVars, MbufVars, ArpVars, DhcpVars, DnsVars, SocketsVars>>

Init ==
    /\ sys \in Components
    /\ tcp!Init /\ mbuf!Init /\ arp!Init /\ dhcp!Init /\ dns!Init /\ sock!Init

TcpStep ==
    /\ sys = "tcp" /\ tcp!Next
    /\ UNCHANGED <<sys, MbufVars, ArpVars, DhcpVars, DnsVars, SocketsVars>>

MbufStep ==
    /\ sys = "mbuf" /\ mbuf!Next
    /\ UNCHANGED <<sys, TcpVars, ArpVars, DhcpVars, DnsVars, SocketsVars>>

ArpStep ==
    /\ sys = "arp" /\ arp!Next
    /\ UNCHANGED <<sys, TcpVars, MbufVars, DhcpVars, DnsVars, SocketsVars>>

DhcpStep ==
    /\ sys = "dhcp" /\ dhcp!Next
    /\ UNCHANGED <<sys, TcpVars, MbufVars, ArpVars, DnsVars, SocketsVars>>

DnsStep ==
    /\ sys = "dns" /\ dns!Next
    /\ UNCHANGED <<sys, TcpVars, MbufVars, ArpVars, DhcpVars, SocketsVars>>

SocketsStep ==
    /\ sys = "sockets" /\ sock!Next
    /\ UNCHANGED <<sys, TcpVars, MbufVars, ArpVars, DhcpVars, DnsVars>>

Next == TcpStep \/ MbufStep \/ ArpStep \/ DhcpStep \/ DnsStep \/ SocketsStep

Spec == Init /\ [][Next]_vars

(***************************************************************************)
(* Fairness.  TCP: the server's loop runs, its timer comes, the peer       *)
(* answers and resends, and a network that loses segments does not lose    *)
(* all of them, with data or without.  ARP: hosts answer, which without    *)
(* losses is the only way out of arp_asked.  DHCP and DNS: the loop takes  *)
(* the packets that have come, in any order, and the other servers answer. *)
(* Sockets: the server handles what it is sent, and tasks take their       *)
(* messages.  The kernel starves no task (Kernel!NoStarvation).            *)
(***************************************************************************)
Fairness ==
    /\ WF_TcpVars(sys = "tcp" /\ tcp!tcp_flush) /\ WF_TcpVars(sys = "tcp" /\ tcp!time_passes)
    /\ WF_TcpVars(sys = "tcp" /\ tcp!timer) /\ SF_TcpVars(sys = "tcp" /\ tcp!peer_resend)
    /\ \A pure \in BOOLEAN :
        /\ SF_TcpVars(sys = "tcp" /\ tcp!tcp_receive /\ (Head(in).data = <<>>) = pure)
        /\ SF_TcpVars(sys = "tcp" /\ tcp!peer_receive /\ (Head(out).data = <<>>) = pure)
    /\ \A h \in Local : []<>(h \notin arp_asked)
    /\ WF_DhcpVars(sys = "dhcp" /\ dhcp!Start) /\ WF_DhcpVars(sys = "dhcp" /\ dhcp!NetRecv)
    /\ WF_DhcpVars(sys = "dhcp" /\ dhcp!ServerOffers)
    /\ WF_DhcpVars(sys = "dhcp" /\ dhcp!ServerAcks)
    /\ WF_DnsVars(sys = "dns" /\ \E p \in dns_wire : dns!DnsReceive(p))
    /\ WF_DnsVars(sys = "dns" /\ \E p \in dns_wire : dns!Serve(p))
    /\ \A t \in sock_Tasks : /\ WF_SocketsVars(sys = "sockets" /\ sock!Request(t))
                             /\ WF_SocketsVars(sys = "sockets" /\ sock!do_task_destroyed(t))

FairSpec == Spec /\ Fairness
-----------------------------------------------------------------------------
\* tcp.c: through losses, repetitions and retransmissions the peer gets what the application
\* wrote, and the application what the peer sent, in order and once; the transmit buffer has
\* just the bytes that are not acknowledged, the window is the room in the receive buffer, and
\* both ends agree on the sequence numbers between them.
StreamsIntact ==
    sys = "tcp" => /\ tcp!TypeOK /\ tcp!TxIntact /\ tcp!RxIntact /\ tcp!TxBufferMatches
                   /\ tcp!WindowKept /\ tcp!InSync

\* arp.c, dhcp.c and dns.c: a frame goes to the next hop of its packet, those to one hop in
\* their order and once, and none is left waiting for a hop that is known; applications are
\* served once the device has an address, which was offered to it; a task gets the address
\* of the name it has asked for, and requests in the list and tasks that wait are the same.
AddressesRight ==
    /\ sys = "arp" => /\ arp!TypeOK /\ arp!EntriesUnique /\ arp!SentRight
                      /\ arp!InOrder /\ arp!NoneStuck
    /\ sys = "dhcp" => dhcp!TypeOK /\ dhcp!ReadyConfigured /\ dhcp!AsksOffered
    /\ sys = "dns" => dns!TypeOK /\ dns!AnswerMatches /\ dns!RequestsWaiting

\* main.c of the server, and http.c: sockets, control blocks and ports match, so none runs
\* out; a task gets messages about its own connections only; no socket stays allocated for
\* a task that is gone.
SocketsOwned ==
    sys = "sockets" => /\ sock!TypeOK /\ sock!TablesSound /\ sock!OwnMessages /\ sock!NoOrphans

\* mbuf.c: a chain of mbufs is a queue of bytes.
ImplementsByteQueue == mbuf!ImplementsByteQueue /\ [](sys = "mbuf" => mbuf!TypeOK)
-----------------------------------------------------------------------------
\* tcp.c: a connection is established in the end, if SYNs are not lost, and everything that
\* either side writes gets to the other.
StreamsFlow == tcp!Connects /\ tcp!Delivers /\ tcp!Receives

\* What is asked for comes in the end: packets that wait for ARP are sent, if hosts answer and
\* the table is large enough; without losses the server gets an address by DHCP, and a query
\* for a name that exists is answered; a task that waits for the server goes on.
RequestsEnd ==
    arp!AllSent /\ (sys = "dhcp" => dhcp!GetsReady) /\ dns!Resolves /\ sock!Returns
=============================================================================
