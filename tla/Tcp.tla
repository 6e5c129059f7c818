-------------------------------- MODULE Tcp --------------------------------
(***************************************************************************)
(* One TCP connection of the TCP/IP server (servers/tcpip/tcp.c and the    *)
(* main loop of servers/tcpip/main.c): active open, data in both           *)
(* directions with retransmission, passive close and reset, over a network *)
(* that loses and repeats segments but keeps their order (tcp.c says that  *)
(* it assumes so).  The buffers are the mbuf chains of module Mbuf.        *)
(*                                                                         *)
(* The peer is any correct TCP; it is external.  Sequence numbers wrap.    *)
(* Time is abstracted: a retransmission timer is in the future until it    *)
(* is in the past, so num_retransmits, which only sets its length, is left *)
(* out, as are ports, checksums and TCP_PEND_FIN, which nothing sets.      *)
(***************************************************************************)
EXTENDS Mbuf

CONSTANTS
    SeqSpace,             \* sequence numbers are modulo this (2^32)
    TCP_RX_BUF_SIZE,    \* initial window
    MaxPacket,          \* most data bytes that fit in a packet to the driver
    ReadMax,            \* most bytes of one tcpip_read
    PeerIss,            \* the peer's initial sequence number
    PeerWindow,         \* the window the peer advertises, and keeps to
    MaxData,            \* bytes each side sends in all
    Writes,             \* lengths of the application's writes
    MaxConnects,        \* connections opened one after the other, to the same port
    Lossy,              \* what the network may lose: "SYN", "DATA"
    Ends,               \* how a connection may end: "FIN", "RST", "CLOSE"
    MaxNet              \* segments in flight in each direction

TcpAssumption ==
    /\ SeqSpace \in Nat /\ 2 * MaxData + 4 < SeqSpace /\ PeerIss \in 0 .. SeqSpace - 1
    /\ TCP_RX_BUF_SIZE \in Nat \ {0} /\ MaxPacket \in Nat \ {0} /\ ReadMax \in Nat \ {0}
    /\ PeerWindow \in Nat \ {0} /\ MaxData \in 0 .. 9 /\ Writes \subseteq 1 .. MaxData
    /\ MaxConnects \in Nat /\ MaxNet \in Nat \ {0}

VARIABLES
    pc,                 \* the server: "flush" (tcp_flush), "recv" (ipc_recv), "panic"
    pcb,                \* struct tcp_pcb; state "NONE" when it is not in use
    tx_buf, rx_buf,
    retransmit_at,      \* "unset" (0), "future" or "past"
    out, in,            \* segments on the way to the peer and from it
    written, received,  \* application: bytes written to and read from the connection
    closed_msgs,        \* application: it has been told that the connection is closed
    opened,             \* number of connections opened so far
    peer                \* the peer's connection

appVars == <<written, received, closed_msgs, opened>>
vars == <<pc, pcb, tx_buf, rx_buf, retransmit_at, out, in, appVars, peer>>

Seqs == 0 .. SeqSpace - 1
Plus(a, n) == (a + n) % SeqSpace
Minus(a, b) == (a - b + SeqSpace) % SeqSpace

Flags == {"SYN", "ACK", "PSH", "FIN", "RST"}
Segments == [flags : SUBSET Flags, seq : Seqs, ack : Seqs, win : Nat, data : Seq(0 .. 20)]

\* The bytes the application writes are 1, 2, ...; the peer's are 11, 12, ...
Stream(base, n) == [i \in 1 .. n |-> base + i]
PeerStream(n) == Stream(10, n)

NoPcb == [state |-> "NONE", pending |-> {}, next_seqno |-> 0, last_ack |-> 0,
          local_winsize |-> 0, remote_winsize |-> 0]
Listening == [state |-> "LISTEN", rcv |-> 0, got |-> <<>>, una |-> PeerIss, nxt |-> PeerIss,
              win |-> 0, fin |-> FALSE]

TypeOK ==
    /\ pc \in {"flush", "recv", "panic"}
    /\ pcb.state \in {"NONE", "SYN_SENT", "ESTABLISHED", "CLOSED"}
    /\ pcb.pending \subseteq {"SYN", "ACK"}
    /\ pcb.next_seqno \in Seqs /\ pcb.last_ack \in Seqs
    /\ pcb.local_winsize \in 0 .. TCP_RX_BUF_SIZE /\ pcb.remote_winsize \in Nat
    /\ retransmit_at \in {"unset", "future", "past"}
    /\ \A ch \in {out, in} : \A i \in DOMAIN ch : ch[i] \in Segments

Init ==
    /\ pc = "flush" /\ pcb = NoPcb /\ tx_buf = <<mbuf_alloc>> /\ rx_buf = <<mbuf_alloc>>
    /\ retransmit_at = "unset" /\ out = <<>> /\ in = <<>>
    /\ written = <<>> /\ received = <<>> /\ closed_msgs = FALSE /\ opened = 0
    /\ peer = Listening
-----------------------------------------------------------------------------
(* Requests of the application.                                            *)

\* As NewPending, without the SYN.
NothingPending == {}

NewPending == {"SYN"}

\* As Reopened, with a window that stays as it is.
StaysShut(n) == pcb.local_winsize

\* The window after n bytes have been read.
Reopened(n) == pcb.local_winsize + n

\* TCPIP_CONNECT_MSG: tcp_new and tcp_connect.
tcp_connect ==
    /\ pc = "recv" /\ pcb.state = "NONE" /\ opened < MaxConnects
    /\ pcb' = [NoPcb EXCEPT !.state = "SYN_SENT", !.pending = NewPending,
                            !.local_winsize = TCP_RX_BUF_SIZE]
    /\ tx_buf' = <<mbuf_alloc>> /\ rx_buf' = <<mbuf_alloc>> /\ retransmit_at' = "unset"
    /\ written' = <<>> /\ received' = <<>> /\ closed_msgs' = FALSE /\ opened' = opened + 1
    /\ pc' = "flush"
    /\ UNCHANGED <<out, in, peer>>

\* TCPIP_WRITE_MSG.
tcp_write(n) ==
    /\ pc = "recv" /\ pcb.state # "NONE" /\ Len(written) + n =< MaxData
    /\ LET data == SubSeq(Stream(0, MaxData), Len(written) + 1, Len(written) + n)
       IN tx_buf' = mbuf_append_bytes(tx_buf, data) /\ written' = written \o data
    /\ retransmit_at' = "unset"
    /\ pc' = "flush"
    /\ UNCHANGED <<pcb, rx_buf, out, in, received, closed_msgs, opened, peer>>

\* TCPIP_READ_MSG.
tcp_read ==
    /\ pc = "recv" /\ pcb.state # "NONE" /\ ~mbuf_is_empty(rx_buf)
    /\ LET r == mbuf_read(rx_buf, ReadMax)
       IN /\ rx_buf' = r.chain
          /\ received' = received \o r.read
          /\ pcb' = [pcb EXCEPT !.local_winsize = Reopened(Len(r.read))]
    /\ pc' = "flush"
    /\ UNCHANGED <<tx_buf, retransmit_at, out, in, written, closed_msgs, opened, peer>>

\* TCPIP_CLOSE_MSG, or the death of the owner: the PCB is freed, the peer told nothing.
tcp_close ==
    /\ pc = "recv" /\ pcb.state # "NONE" /\ "CLOSE" \in Ends
    /\ pcb' = NoPcb /\ tx_buf' = <<mbuf_alloc>> /\ rx_buf' = <<mbuf_alloc>>
    /\ retransmit_at' = "unset"
    /\ pc' = "flush"
    /\ UNCHANGED <<out, in, appVars, peer>>
-----------------------------------------------------------------------------
(* Sending.                                                                *)

\* As Timed, never sending again.
TimedForever == retransmit_at # "unset"

\* The retransmission timer is set and has not expired.
Timed == retransmit_at = "future"

\* As Unacked, starting after what has been sent before.
UnackedTail == IF pcb.state = "ESTABLISHED"
               THEN mbuf_peek(mbuf_discard(tx_buf, 1), pcb.remote_winsize) ELSE <<>>

\* The payload: everything not acknowledged, as far as remote_winsize allows.
Unacked == IF pcb.state = "ESTABLISHED" THEN mbuf_peek(tx_buf, pcb.remote_winsize) ELSE <<>>

\* A segment put on a network that holds MaxNet of them, and loses what is more.
Put(ch, seg) == IF Len(ch) < MaxNet THEN Append(ch, seg) ELSE ch

\* A packet that does not fit into a message to the driver is dropped
\* (callback_ethernet_transmit).
Transmitted(seg) == IF Len(seg.data) =< MaxPacket THEN Put(out, seg) ELSE out

\* The window less what is sent.  One of 2^16 bytes or more is not counted down: to use
\* it up takes thousands of retransmissions without an answer of the peer.
Charged(win, n) == IF win >= 65536 THEN win ELSE win - n

\* tcp_flush: tcp_transmit for the connection.
tcp_flush ==
    /\ pc = "flush" /\ pc' = "recv"
    /\ LET data == Content(Unacked)
           flags == (IF data # <<>> THEN {"ACK", "PSH"} ELSE {}) \cup pcb.pending
           seg == [flags |-> flags, seq |-> pcb.next_seqno,
                   ack |-> IF "ACK" \in flags THEN pcb.last_ack ELSE 0,
                   win |-> pcb.local_winsize, data |-> data]
       IN IF pcb.state = "NONE" \/ Timed \/ flags = {}
          THEN UNCHANGED <<pcb, out, retransmit_at>>
          ELSE /\ out' = Transmitted(seg)
               /\ pcb' = [pcb EXCEPT !.pending = {}, !.remote_winsize = Charged(@, Len(data))]
               /\ retransmit_at' = "future"
    /\ UNCHANGED <<tx_buf, rx_buf, in, appVars, peer>>

time_passes ==
    /\ retransmit_at = "future" /\ retransmit_at' = "past"
    /\ UNCHANGED <<pc, pcb, tx_buf, rx_buf, out, in, appVars, peer>>

\* NOTIFY_TIMER_MSG: one more round of the main loop.
timer == pc = "recv" /\ pc' = "flush"
         /\ UNCHANGED <<pcb, tx_buf, rx_buf, retransmit_at, out, in, appVars, peer>>
-----------------------------------------------------------------------------
(* Receiving: NET_RECV_MSG with a segment for this connection.             *)

\* ntoh32 of the 16-bit field: the window arrives multiplied by 2^16.
RemoteWindow(win) == win * 65536

\* As Expected, accepting a segment that repeats old data.
ExpectedOrOld(seg) == Minus(pcb.last_ack, seg.seq) < SeqSpace \div 2

Expected(seg) == seg.seq = pcb.last_ack

\* As AckedLen, for an acknowledgement that counts the next byte.
AckedOneMore(seg) == Minus(seg.ack, pcb.next_seqno) + 1

\* acked_len = ack - next_seqno.
AckedLen(seg) == Minus(seg.ack, pcb.next_seqno)

Acceptable(seg) == seg.data # <<>> /\ Len(seg.data) =< pcb.local_winsize

\* As FirstAck, not counting the SYN.
SynNotCounted(seg) == seg.seq

FirstAck(seg) == Plus(seg.seq, 1)

\* As Answer, with silence.
NoAnswer == pcb.pending

\* The answer to a segment that is not the expected one: the last ACK again.
Answer == pcb.pending \cup {"ACK"}

\* State SYN_SENT: any SYN or ACK is taken for the SYN+ACK.
process_syn_sent(seg) ==
    /\ IF seg.flags \cap {"SYN", "ACK"} = {}
       THEN /\ pcb' = [pcb EXCEPT !.remote_winsize = RemoteWindow(seg.win)]
            /\ UNCHANGED retransmit_at
       ELSE /\ pcb' = [pcb EXCEPT !.remote_winsize = RemoteWindow(seg.win),
                                  !.next_seqno = seg.ack, !.last_ack = FirstAck(seg),
                                  !.state = "ESTABLISHED", !.pending = @ \cup {"ACK"}]
            /\ retransmit_at' = "unset"
    /\ UNCHANGED <<tx_buf, rx_buf, closed_msgs>>

\* The send buffer without what the segment acknowledges.
Left(seg) == mbuf_discard(tx_buf, AckedLen(seg))

\* State ESTABLISHED: acknowledgement, data, then FIN.
process_established(seg) ==
    LET fin == "FIN" \in seg.flags
        n == IF Acceptable(seg) THEN Len(seg.data) ELSE 0
    IN /\ tx_buf' = Left(seg)
       /\ rx_buf' = IF n > 0 THEN mbuf_append(rx_buf, mbuf_new(seg.data)) ELSE rx_buf
       /\ pcb' = [pcb EXCEPT !.remote_winsize = RemoteWindow(seg.win),
                             !.next_seqno = Plus(@, AckedLen(seg)),
                             !.last_ack = Plus(@, IF fin THEN n + 1 ELSE n),
                             !.local_winsize = @ - n,
                             !.pending = IF n > 0 \/ fin THEN @ \cup {"ACK"} ELSE @,
                             !.state = IF fin THEN "CLOSED" ELSE @]
       /\ retransmit_at' = IF fin THEN "unset" ELSE retransmit_at
       /\ closed_msgs' = (closed_msgs \/ fin)

\* ASSERT(mbuf_len(pcb->tx_buf) == 0) on FIN.
AssertFails(seg) ==
    /\ pcb.state = "ESTABLISHED" /\ Expected(seg) /\ "RST" \notin seg.flags
    /\ "FIN" \in seg.flags /\ ~mbuf_is_empty(Left(seg))

tcp_process(seg) ==
    \/ /\ pcb.state = "NONE"
       /\ UNCHANGED <<pcb, tx_buf, rx_buf, retransmit_at, closed_msgs>>
    \/ /\ pcb.state # "NONE" /\ "RST" \in seg.flags
       /\ closed_msgs' = TRUE
       /\ UNCHANGED <<pcb, tx_buf, rx_buf, retransmit_at>>
    \/ /\ pcb.state = "SYN_SENT" /\ "RST" \notin seg.flags
       /\ process_syn_sent(seg)
    \/ /\ pcb.state \in {"ESTABLISHED", "CLOSED"} /\ "RST" \notin seg.flags /\ ~Expected(seg)
       /\ pcb' = [pcb EXCEPT !.pending = Answer]
       /\ UNCHANGED <<tx_buf, rx_buf, retransmit_at, closed_msgs>>
    \/ /\ pcb.state = "ESTABLISHED" /\ "RST" \notin seg.flags /\ Expected(seg)
       /\ process_established(seg)
    \/ /\ pcb.state = "CLOSED" /\ "RST" \notin seg.flags /\ Expected(seg)
       /\ pcb' = [pcb EXCEPT !.remote_winsize = RemoteWindow(seg.win)]
       /\ UNCHANGED <<tx_buf, rx_buf, retransmit_at, closed_msgs>>

\* tcp_receive, and back to the head of the main loop.
tcp_receive ==
    /\ pc = "recv" /\ in # <<>>
    /\ tcp_process(Head(in))
    /\ pc' = IF AssertFails(Head(in)) THEN "panic" ELSE "flush"
    /\ in' = Tail(in)
    /\ UNCHANGED <<out, written, received, opened, peer>>
-----------------------------------------------------------------------------
(* The peer and the network.                                               *)

FromPeer(flags, seq, data) ==
    [flags |-> flags, seq |-> seq, ack |-> peer'.rcv, win |-> PeerWindow, data |-> data]

\* What the peer has sent and not seen acknowledged: SYN+ACK, or data, or FIN.
PeerUnacked ==
    LET from == Minus(peer.una, PeerIss)
        data == Minus(peer.nxt, PeerIss) - 1 - (IF peer.fin THEN 1 ELSE 0)
    IN IF from = 0 THEN FromPeer({"SYN", "ACK"}, PeerIss, <<>>)
       ELSE FromPeer({"ACK"} \cup (IF peer.fin THEN {"FIN"} ELSE {}), peer.una,
                     SubSeq(PeerStream(data), from, data))

PeerUnchanged == UNCHANGED <<pc, pcb, tx_buf, rx_buf, retransmit_at, appVars>>

\* A segment arrives at the peer.
peer_receive ==
    /\ out # <<>> /\ out' = Tail(out)
    /\ LET seg == Head(out)
           skip == Minus(peer.rcv, seg.seq)
           new == IF skip < Len(seg.data)
                  THEN SubSeq(seg.data, skip + 1, Lesser(Len(seg.data), skip + PeerWindow))
                  ELSE <<>>
       IN \/ /\ "SYN" \in seg.flags /\ peer.state = "LISTEN"
             /\ peer' = [peer EXCEPT !.state = "OPEN", !.rcv = Plus(seg.seq, 1), !.win = seg.win,
                                     !.nxt = Plus(PeerIss, 1)]
             /\ in' = Put(in, FromPeer({"SYN", "ACK"}, PeerIss, <<>>))
          \/ /\ "SYN" \in seg.flags /\ peer.state = "OPEN"
             \* A repeated SYN, or on an open connection that of a new one: a challenge.
             /\ UNCHANGED peer
             /\ in' = Put(in, IF peer.una = PeerIss
                                THEN FromPeer({"SYN", "ACK"}, PeerIss, <<>>)
                                ELSE FromPeer({"ACK"}, peer.nxt, <<>>))
          \/ /\ "SYN" \notin seg.flags /\ peer.state = "OPEN"
             /\ peer' = [peer EXCEPT !.got = @ \o new, !.rcv = Plus(@, Len(new)), !.win = seg.win,
                                     !.una = IF Minus(seg.ack, @) =< Minus(peer.nxt, @)
                                             THEN seg.ack ELSE @]
             /\ in' = IF seg.data = <<>> THEN in ELSE Put(in, FromPeer({"ACK"}, peer.nxt, <<>>))
          \/ /\ peer.state = "CLOSED"
             /\ UNCHANGED <<peer, in>>
    /\ PeerUnchanged

PeerSent == Minus(peer.nxt, PeerIss) - 1

peer_send ==
    /\ peer.state = "OPEN" /\ peer.una # PeerIss /\ ~peer.fin /\ PeerSent < MaxData
    /\ Minus(peer.nxt, peer.una) < peer.win /\ Len(in) < MaxNet
    /\ peer' = [peer EXCEPT !.nxt = Plus(@, 1)]
    /\ in' = Append(in, FromPeer({"ACK", "PSH"}, peer.nxt, <<10 + PeerSent + 1>>))
    /\ UNCHANGED out /\ PeerUnchanged

peer_fin ==
    /\ peer.state = "OPEN" /\ peer.una # PeerIss /\ ~peer.fin /\ "FIN" \in Ends
    /\ Len(in) < MaxNet
    /\ peer' = [peer EXCEPT !.nxt = Plus(@, 1), !.fin = TRUE]
    /\ in' = Append(in, FromPeer({"ACK", "FIN"}, peer.nxt, <<>>))
    /\ UNCHANGED out /\ PeerUnchanged

peer_resend ==
    /\ peer.state = "OPEN" /\ peer.una # peer.nxt /\ in = <<>>
    /\ UNCHANGED peer
    /\ in' = Append(in, PeerUnacked)
    /\ UNCHANGED out /\ PeerUnchanged

peer_reset ==
    /\ peer.state = "OPEN" /\ "RST" \in Ends /\ Len(in) < MaxNet
    /\ peer' = [peer EXCEPT !.state = "CLOSED"]
    /\ in' = Append(in, FromPeer({"RST"}, peer.nxt, <<>>))
    /\ UNCHANGED out /\ PeerUnchanged

Class(seg) == IF "SYN" \in seg.flags THEN "SYN" ELSE "DATA"

\* (A segment that is lost while the server sends might as well be lost when it waits.)
lose ==
    /\ \/ out # <<>> /\ Class(Head(out)) \in Lossy /\ out' = Tail(out) /\ UNCHANGED in
       \/ pc = "recv" /\ in # <<>> /\ Class(Head(in)) \in Lossy /\ in' = Tail(in) /\ UNCHANGED out
    /\ UNCHANGED peer /\ PeerUnchanged

duplicate ==
    /\ \/ Len(out) = 1 /\ Len(out) < MaxNet /\ out' = out \o out /\ UNCHANGED in
       \/ Len(in) = 1 /\ Len(in) < MaxNet /\ in' = in \o in /\ UNCHANGED out
    /\ UNCHANGED peer /\ PeerUnchanged

Next ==
    \/ tcp_connect \/ tcp_read \/ tcp_close \/ (\E n \in Writes : tcp_write(n))
    \/ tcp_flush \/ time_passes \/ timer \/ tcp_receive
    \/ peer_receive \/ peer_send \/ peer_fin \/ peer_resend \/ peer_reset
    \/ lose \/ duplicate

Spec == Init /\ [][Next]_vars
-----------------------------------------------------------------------------
\* Bytes of the peer that the server has acknowledged.
AckedToPeer == Minus(pcb.last_ack, PeerIss) - 1 - (IF pcb.state = "CLOSED" THEN 1 ELSE 0)

\* What the peer gets is what the application wrote, in order, once: losses,
\* repetitions and retransmissions of everything unacknowledged do not show.
TxIntact == opened = 1 => IsPrefix(peer.got, written)

\* What the application has read and what is buffered for it is exactly what the peer
\* has been told was received.
RxIntact ==
    opened = 1 /\ pcb.state \in {"ESTABLISHED", "CLOSED"} =>
        received \o Content(rx_buf) = PeerStream(AckedToPeer)

\* The send buffer is what the peer has not acknowledged, and nothing is taken for
\* acknowledged that the peer has not got.
TxBufferMatches ==
    opened = 1 /\ pcb.state \in {"ESTABLISHED", "CLOSED"} =>
        /\ Minus(pcb.next_seqno, 1) =< Len(peer.got)
        /\ SubSeq(written, 1, Minus(pcb.next_seqno, 1)) \o Content(tx_buf) = written

\* Every byte of the receive buffer is either advertised to the peer or filled.
WindowKept ==
    pcb.state # "NONE" => mbuf_len(rx_buf) + pcb.local_winsize = TCP_RX_BUF_SIZE

\* The comment in tcp_process: a connection is established by a SYN+ACK, so the two
\* sides agree on the sequence numbers.
InSync ==
    pcb.state = "ESTABLISHED" =>
        Minus(pcb.last_ack, PeerIss) =< Minus(peer.nxt, PeerIss) /\ pcb.last_ack # PeerIss

\* A connection that is opened is established in the end, whatever segments are lost.
Connects == []<>(pcb.state # "SYN_SENT")

\* Everything written on an established connection arrives.
Delivers == []<>(pcb.state = "ESTABLISHED" => peer.got = written)

\* Everything the peer has sent is received and acknowledged.
Receives == []<>(peer.state = "OPEN" => peer.una = peer.nxt)
-----------------------------------------------------------------------------
(* What the source says and the code does not do (README, Disagreements).  *)

\* The assertion in tcp_process: when a FIN arrives, everything has been sent.
AllSentAtFin == pc # "panic"

\* The comment in tcp_transmit: the window is reduced so as not to send too much.
WithinPeerWindow == \A i \in DOMAIN out : Len(out[i].data) =< PeerWindow
=============================================================================
