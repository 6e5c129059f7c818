-------------------------------- MODULE Arp --------------------------------
(***************************************************************************)
(* Sending IPv4 packets over Ethernet: routing (servers/tcpip/device.c),   *)
(* ethernet.c, and the ARP table with its queues of packets that wait for  *)
(* an answer (arp.c).  Hosts answer requests or announce themselves; the   *)
(* MAC address of a host is the host itself.                               *)
(***************************************************************************)
EXTENDS Integers, Sequences

CONSTANTS
    Local,          \* hosts of our network
    Remote,         \* hosts beyond the gateway
    Gateway,        \* device.gateway
    NumEntries,     \* ARP_ENTRIES_MAX
    Lossy,          \* are requests and answers lost?
    MaxPackets,     \* bound on packets sent
    MaxUptime       \* bound on the clock

ArpAssumption ==
    /\ Gateway \in Local /\ Local \cap Remote = {} /\ NumEntries \in Nat \ {0}
    /\ Lossy \in BOOLEAN /\ MaxPackets \in Nat /\ MaxUptime \in Nat

Entries == 1 .. NumEntries
None == "none"

VARIABLES
    table,          \* struct arp_table
    uptime,         \* sys_uptime
    asked,          \* hosts for which a request is on the wire
    packets,        \* the packets handed to ethernet_transmit: their destinations
    sent            \* frames to the driver: [pkt, mac]

vars == <<table, uptime, asked, packets, sent>>

NewEntry == [in_use |-> FALSE, resolved |-> FALSE, ipaddr |-> None, queue |-> <<>>, time |-> 0]

TypeOK ==
    /\ \A e \in Entries :
        /\ table[e].in_use \in BOOLEAN /\ table[e].resolved \in BOOLEAN
        /\ table[e].ipaddr \in Local \cup {None} /\ table[e].time \in 0 .. MaxUptime
        /\ \A i \in 1 .. Len(table[e].queue) : table[e].queue[i].pkt \in 1 .. MaxPackets
    /\ asked \subseteq Local /\ packets \in Seq(Local \cup Remote)
    /\ \A i \in 1 .. Len(sent) : sent[i].mac \in Local

Init ==
    /\ table = [e \in Entries |-> NewEntry] /\ uptime = 0
    /\ asked = {} /\ packets = <<>> /\ sent = <<>>
-----------------------------------------------------------------------------
\* As device_get_next_hop, everything sent to the gateway.
gateway_hop(dst) == Gateway

\* device_get_next_hop
device_get_next_hop(dst) == IF dst \in Local THEN dst ELSE Gateway

\* lookup_entry: 0 is NULL
lookup_entry(tbl, ip) ==
    LET found == {e \in Entries : tbl[e].in_use /\ tbl[e].ipaddr = ip} IN
    IF found = {} THEN 0 ELSE CHOOSE e \in found : \A f \in found : e <= f

\* As alloc_entry, an entry in use preferred.
first_entry(tbl) == 1

\* alloc_entry: the first entry not in use, or else the one not accessed for longest.
alloc_entry(tbl) ==
    LET free == {e \in Entries : ~tbl[e].in_use}
        Older(e, f) == tbl[e].time < tbl[f].time \/ (tbl[e].time = tbl[f].time /\ e <= f) IN
    IF free # {} THEN CHOOSE e \in free : \A f \in free : e <= f
    ELSE CHOOSE e \in Entries : \A f \in Entries : Older(e, f)

\* As arp_enqueue, the packet put in front.
arp_enqueue_front(s, dst, pkt) ==
    LET old == lookup_entry(s.table, dst)
        e == IF old # 0 THEN old ELSE alloc_entry(s.table)
        qe == [pkt |-> pkt, dst |-> dst] IN
    [s EXCEPT !.table[e] = [in_use |-> TRUE, resolved |-> FALSE, ipaddr |-> dst,
                            queue |-> IF old # 0 THEN <<qe>> \o @.queue ELSE <<qe>>,
                            time |-> IF old # 0 THEN @.time ELSE uptime]]

\* As arp_enqueue, a new entry every time.
arp_enqueue_new(s, dst, pkt) ==
    [s EXCEPT !.table[alloc_entry(s.table)] =
        [in_use |-> TRUE, resolved |-> FALSE, ipaddr |-> dst, time |-> uptime,
         queue |-> <<[pkt |-> pkt, dst |-> dst]>>]]

\* arp_enqueue.  list_init in alloc_entry forgets the queue of an entry that is used again.
arp_enqueue(s, dst, pkt) ==
    LET old == lookup_entry(s.table, dst)
        e == IF old # 0 THEN old ELSE alloc_entry(s.table)
        qe == [pkt |-> pkt, dst |-> dst] IN
    [s EXCEPT !.table[e] = [in_use |-> TRUE, resolved |-> FALSE, ipaddr |-> dst,
                            queue |-> IF old # 0 THEN Append(@.queue, qe) ELSE <<qe>>,
                            time |-> IF old # 0 THEN @.time ELSE uptime]]

\* arp_resolve: 0 if it fails
arp_resolve(s, ip) ==
    LET e == lookup_entry(s.table, ip) IN IF e # 0 /\ s.table[e].resolved THEN e ELSE 0

\* arp_request
arp_request(s, ip) == [s EXCEPT !.asked = @ \cup {ip}]

\* ethernet_transmit
ethernet_transmit(s, dst, pkt) ==
    LET hop == device_get_next_hop(dst)
        e == arp_resolve(s, hop) IN
    IF e = 0 THEN arp_request(arp_enqueue(s, hop, pkt), hop)
    ELSE [s EXCEPT !.table[e].time = uptime, !.sent = Append(@, [pkt |-> pkt, mac |-> hop])]

\* As flush, the packets left where they are.
flush_nothing(s, e) == s

\* The loop of arp_register_macaddr.
flush(s, e) ==
    LET queue == s.table[e].queue
        after[n \in 0 .. Len(queue)] ==
            IF n = 0 THEN [s EXCEPT !.table[e].queue = <<>>]
            ELSE ethernet_transmit(after[n - 1], queue[n].dst, queue[n].pkt) IN
    after[Len(queue)]

\* arp_register_macaddr
arp_register_macaddr(s, ip) ==
    LET old == lookup_entry(s.table, ip)
        e == IF old # 0 THEN old ELSE alloc_entry(s.table) IN
    flush([s EXCEPT !.table[e] = [in_use |-> TRUE, resolved |-> TRUE, ipaddr |-> ip, time |-> uptime,
                                  queue |-> IF old # 0 THEN @.queue ELSE <<>>]], e)
-----------------------------------------------------------------------------
Stack == [table |-> table, asked |-> asked, sent |-> sent]
Becomes(s) == \E r \in {s} : table' = r.table /\ asked' = r.asked /\ sent' = r.sent

\* ipv4_transmit: TCP, DHCP and DNS send a packet.
Transmit(dst) ==
    /\ Len(packets) < MaxPackets /\ packets' = Append(packets, dst)
    /\ Becomes(ethernet_transmit(Stack, dst, Len(packets) + 1))
    /\ UNCHANGED uptime

\* A host answers our request: arp_receive of an ARP_OP_REPLY.
Answer(h) ==
    /\ h \in asked
    /\ Becomes(arp_register_macaddr([Stack EXCEPT !.asked = @ \ {h}], h))
    /\ UNCHANGED <<uptime, packets>>

\* A host announces itself: a reply that nobody has asked for.
Announce(h) ==
    /\ Lossy /\ h \notin asked
    /\ Becomes(arp_register_macaddr(Stack, h))
    /\ UNCHANGED <<uptime, packets>>

\* The request or its answer is lost.
Lose(h) ==
    /\ Lossy /\ h \in asked /\ asked' = asked \ {h}
    /\ UNCHANGED <<table, uptime, packets, sent>>

Tick == uptime < MaxUptime /\ uptime' = uptime + 1 /\ UNCHANGED <<table, asked, packets, sent>>

Next ==
    \/ \E d \in Local \cup Remote : Transmit(d)
    \/ \E h \in Local : Answer(h)
    \/ \E h \in Local : Announce(h)
    \/ \E h \in Local : Lose(h)
    \/ Tick

Spec == Init /\ [][Next]_vars
-----------------------------------------------------------------------------
\* A host has one entry: lookup_entry would find only the first.
EntriesUnique ==
    \A e, f \in Entries : table[e].in_use /\ table[f].in_use /\ table[e].ipaddr = table[f].ipaddr => e = f

\* Every frame goes to the next hop of its packet.
SentRight ==
    \A i \in 1 .. Len(sent) :
        LET dst == packets[sent[i].pkt] IN sent[i].mac = IF dst \in Local THEN dst ELSE Gateway

\* Packets to one next hop leave in their order, each at most once, whether they have waited or
\* not.
InOrder == \A i, j \in 1 .. Len(sent) : i < j /\ sent[i].mac = sent[j].mac => sent[i].pkt < sent[j].pkt

\* No packet waits in an entry that is resolved, where no answer would release it.
NoneStuck == \A e \in Entries : table[e].resolved => table[e].queue = <<>>

\* Every packet is sent, if hosts answer and the table is large enough.
AllSent == []<>(\A p \in 1 .. Len(packets) : \E i \in 1 .. Len(sent) : sent[i].pkt = p)
-----------------------------------------------------------------------------
(* What the source says and the code does not do (README, Disagreements).  *)

\* A waiting packet has its destination: "not the next hop but the destination in the IP header".
QueueDst ==
    \A e \in Entries : \A i \in 1 .. Len(table[e].queue) :
        table[e].queue[i].dst = packets[table[e].queue[i].pkt]

\* "The packets added by this function are sent when the answer is received."
Kept ==
    \A p \in 1 .. Len(packets) :
        \/ \E i \in 1 .. Len(sent) : sent[i].pkt = p
        \/ \E e \in Entries : \E i \in 1 .. Len(table[e].queue) : table[e].queue[i].pkt = p
=============================================================================
