----------------------------- MODULE VirtioNet -----------------------------
(***************************************************************************)
(* The driver of the network card (servers/virtio_net/main.c) with its DMA *)
(* buffers (libs/user/dmabuf.c), the card, and the interrupt between them. *)
(* Packets are numbered.  The card takes what the driver offers in order,  *)
(* finishes sending in any order and receives in order.                    *)
(***************************************************************************)
EXTENDS Virtqueue, SequencesExt, FiniteSetsExt

CONSTANTS
    NumTx, NumRx,       \* NUM_TX_BUFFERS, NUM_RX_BUFFERS
    MaxSend, MaxArrive  \* bounds on the packets in each direction

NetAssumption == {NumTx, NumRx, MaxSend, MaxArrive} \subseteq Nat /\ NumRx =< NumDescs

VARIABLES
    rx, tx,         \* the two queues
    tx_used,        \* dmabuf->used of tx_dmabuf
    rx_buf, tx_buf, \* contents of the buffers: a packet, or 0
    isr,            \* the card's interrupt status register
    irq,            \* NOTIFY_IRQ is pending for the driver
    kicked,         \* virtq_notify(tx) and the card has not looked since
    pc,             \* "recv", "tx_loop", "rx_loop" or "rx_push"
    popped,         \* irq_handler: the buffer between virtq_pop and virtq_push
    opened,         \* tcpip_server is known
    sent,           \* packets the TCP/IP server has sent
    accepted,       \* history: those transmit took
    wire,           \* history: packets the card has put on the wire
    arrived,        \* packets that have come in from the wire
    delivered       \* history: packets given to the TCP/IP server

drv  == <<pc, popped>>
hist == <<sent, accepted, wire, arrived, delivered>>
vars == <<rx, tx, tx_used, rx_buf, tx_buf, isr, irq, kicked, drv, opened, hist>>

TypeOK ==
    /\ rx.num_free \in 0 .. NumDescs /\ tx.num_free \in 0 .. NumDescs
    /\ tx_used \subseteq 1 .. NumTx
    /\ rx_buf \in [1 .. NumRx -> 0 .. MaxArrive] /\ tx_buf \in [1 .. NumTx -> 0 .. MaxSend]
    /\ isr \in BOOLEAN /\ irq \in BOOLEAN /\ kicked \in BOOLEAN /\ opened \in BOOLEAN
    /\ pc \in {"recv", "tx_loop", "rx_loop", "rx_push"} /\ popped \in 0 .. NumRx
    /\ sent \in 0 .. MaxSend /\ arrived \in 0 .. MaxArrive

\* init_device: all receive buffers are offered to the card.
FilledRx ==
    LET fill[k \in 0 .. NumRx] == IF k = 0 THEN NewQueue ELSE virtq_push(fill[k - 1], <<k>>).vq
    IN  fill[NumRx]

Init ==
    /\ rx = FilledRx /\ tx = NewQueue
    /\ tx_used = {} /\ rx_buf = [b \in 1 .. NumRx |-> 0] /\ tx_buf = [b \in 1 .. NumTx |-> 0]
    /\ isr = FALSE /\ irq = FALSE /\ kicked = FALSE /\ pc = "recv" /\ popped = 0
    /\ opened = FALSE /\ sent = 0 /\ accepted = <<>> /\ wire = <<>> /\ arrived = 0 /\ delivered = <<>>
-----------------------------------------------------------------------------
(* The driver.                                                             *)

\* NET_OPEN
net_open ==
    /\ pc = "recv" /\ ~opened /\ opened' = TRUE
    /\ UNCHANGED <<rx, tx, tx_used, rx_buf, tx_buf, isr, irq, kicked, drv, hist>>

\* As dmabuf_alloc, not marking the buffer.
AllocUnmarked == [b |-> IF 1 .. NumTx = {} THEN 0 ELSE 1, used |-> tx_used]

\* dmabuf_alloc: the first buffer that is not used; 0 if there is none.
dmabuf_alloc ==
    LET unused == (1 .. NumTx) \ tx_used
    IN  IF unused = {} THEN [b |-> 0, used |-> tx_used]
        ELSE [b |-> Min(unused), used |-> tx_used \cup {Min(unused)}]

\* As virtq_notify, doing nothing.
NoNotify(ok) == UNCHANGED kicked

\* virtq_notify, after a chain has been pushed.
virtq_notify(ok) == kicked' = (ok \/ kicked)

\* NET_SEND: transmit.  Without a buffer or a descriptor the packet is dropped with a message;
\* in the second case the buffer is not given back.
transmit ==
    LET a == dmabuf_alloc
        p == virtq_push(tx, <<a.b>>)
    IN
    /\ pc = "recv" /\ opened /\ sent < MaxSend /\ sent' = sent + 1
    /\ tx_used' = a.used
    /\ IF a.b = 0 THEN UNCHANGED <<tx, tx_buf, kicked, accepted>>
       ELSE /\ tx' = p.vq /\ tx_buf' = [tx_buf EXCEPT ![a.b] = sent']
            /\ virtq_notify(p.ok)
            /\ accepted' = IF p.ok THEN Append(accepted, sent') ELSE accepted
    /\ UNCHANGED <<rx, rx_buf, isr, irq, drv, opened, wire, arrived, delivered>>

\* NOTIFY_IRQ: irq_handler reads and acknowledges the interrupt status, then looks at the queues.
irq_handler ==
    /\ pc = "recv" /\ irq /\ irq' = FALSE /\ isr' = FALSE
    /\ pc' = IF isr THEN "tx_loop" ELSE "recv"
    /\ UNCHANGED <<rx, tx, tx_used, rx_buf, tx_buf, kicked, popped, opened, hist>>

\* As TxFreed, without dmabuf_free.
TxNotFreed(b) == tx_used

\* dmabuf_free of a buffer that has been sent.
TxFreed(b) == tx_used \ {b}

irq_tx ==
    /\ pc = "tx_loop"
    /\ IF virtq_is_empty(tx) THEN pc' = "rx_loop" /\ UNCHANGED <<tx, tx_used>>
       ELSE LET r == virtq_pop(tx) IN
            tx' = r.vq /\ tx_used' = TxFreed(r.addrs[1]) /\ UNCHANGED pc
    /\ UNCHANGED <<rx, rx_buf, tx_buf, isr, irq, kicked, popped, opened, hist>>

\* As RxEnd, acknowledging the interrupt only now.
AckAtEnd == pc' = "recv" /\ isr' = FALSE

\* irq_handler returns.
RxEnd == pc' = "recv" /\ UNCHANGED isr

\* A received packet goes to the TCP/IP server, with a send that fails while there is none.
irq_rx ==
    /\ pc = "rx_loop"
    /\ IF virtq_is_empty(rx) THEN RxEnd /\ UNCHANGED <<rx, popped, delivered>>
       ELSE LET r == virtq_pop(rx) IN
            /\ rx' = r.vq /\ popped' = r.addrs[1] /\ pc' = "rx_push"
            /\ delivered' = IF opened THEN Append(delivered, rx_buf[r.addrs[1]]) ELSE delivered
            /\ UNCHANGED isr
    /\ UNCHANGED <<tx, tx_used, rx_buf, tx_buf, irq, kicked, opened, sent, accepted, wire, arrived>>

\* The buffer goes back to the card.
irq_rx_push ==
    /\ pc = "rx_push"
    /\ rx' = virtq_push(rx, <<popped>>).vq /\ popped' = 0 /\ pc' = "rx_loop"
    /\ UNCHANGED <<tx, tx_used, rx_buf, tx_buf, isr, irq, kicked, opened, hist>>
-----------------------------------------------------------------------------
(* The card and the interrupt.                                             *)

card_takes ==
    /\ kicked /\ IF CanTake(tx) THEN tx' = DeviceTakes(tx) /\ UNCHANGED kicked
                 ELSE kicked' = FALSE /\ UNCHANGED tx
    /\ UNCHANGED <<rx, tx_used, rx_buf, tx_buf, isr, irq, drv, opened, hist>>

card_sends ==
    /\ \E d \in tx.busy :
        /\ tx' = DeviceUses(tx, d) /\ wire' = Append(wire, tx_buf[tx.addr[d]])
    /\ isr' = TRUE
    /\ UNCHANGED <<rx, tx_used, rx_buf, tx_buf, irq, kicked, drv, opened, sent, accepted, arrived, delivered>>

\* A packet comes in; without a buffer for it the card drops it.
card_receives ==
    /\ arrived < MaxArrive /\ arrived' = arrived + 1
    /\ IF CanTake(rx)
       THEN LET d == NextTaken(rx) IN
            /\ rx' = DeviceUses(DeviceTakes(rx), d) /\ rx_buf' = [rx_buf EXCEPT ![rx.addr[d]] = arrived']
            /\ isr' = TRUE
       ELSE UNCHANGED <<rx, rx_buf, isr>>
    /\ UNCHANGED <<tx, tx_used, tx_buf, irq, kicked, drv, opened, sent, accepted, wire, delivered>>

\* handle_interrupt in the kernel, as long as the line is up.
interrupt ==
    /\ isr /\ ~irq /\ irq' = TRUE
    /\ UNCHANGED <<rx, tx, tx_used, rx_buf, tx_buf, isr, kicked, drv, opened, hist>>

Driver == irq_handler \/ irq_tx \/ irq_rx \/ irq_rx_push
Next == Driver \/ net_open \/ transmit \/ card_takes \/ card_sends \/ card_receives \/ interrupt

Spec == Init /\ [][Next]_vars
-----------------------------------------------------------------------------
\* In both queues every descriptor is free or in one chain that is under way.
DescsSound == QueueSound(rx) /\ QueueSound(tx)

\* DMA: no buffer is offered to the card twice, or given to transmit while the card may
\* still read it; and none is lost.
BuffersSound ==
    LET txs == {tx.addr[h] : h \in Heads(tx)}
        rxs == {rx.addr[h] : h \in Heads(rx)}
    IN  /\ txs = tx_used /\ Cardinality(Heads(tx)) = Cardinality(txs)
        /\ rxs = (1 .. NumRx) \ {popped} /\ Cardinality(Heads(rx)) = Cardinality(rxs)

\* A packet transmit took goes onto the wire as it was, once.
SentOnce == IsInjective(wire) /\ ToSet(wire) \subseteq ToSet(accepted)

\* Received packets reach the TCP/IP server in order, none twice and none mixed up.
InOrder == \A i, j \in 1 .. Len(delivered) : i < j => delivered[i] < delivered[j]

\* No interrupt is lost: what the card has used is taken by the driver in the end.
Noticed == []<>(virtq_is_empty(rx) /\ virtq_is_empty(tx))

\* Each packet that was taken goes out.
Sent == []<>(ToSet(accepted) \subseteq ToSet(wire))
=============================================================================
