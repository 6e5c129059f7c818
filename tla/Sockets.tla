------------------------------ MODULE Sockets ------------------------------
(***************************************************************************)
(* The sockets of the TCP/IP server and the program that uses them: the    *)
(* requests of servers/tcpip/main.c, the table of control blocks and the   *)
(* ports of servers/tcpip/tcp.c, the messages that tell a task of data and *)
(* of the end of a connection, and http_get of servers/shell/http.c, which *)
(* every task in Tasks runs again and again.                               *)
(*                                                                         *)
(* A connection's segments are events here; module Tcp has what is in      *)
(* them, AsyncIpc how an asynchronous message travels, VmServer how task   *)
(* numbers are used again.  A task that is waiting for the answer of a     *)
(* request runs on to its next request or receive when the answer comes.   *)
(***************************************************************************)
EXTENDS Naturals, Sequences, FiniteSets, FiniteSetsExt

CONSTANTS
    Tasks,              \* tasks that run http_get
    SOCKETS_MAX,
    TCP_PCBS_MAX,
    Ports,              \* ephemeral ports, 49152 .. 65535
    Urls,               \* records [http, host]: the scheme, the numbers of the host
    ReadMax,            \* most data of one tcpip_read
    SegmentMax,         \* most data of one segment
    DataWords,          \* what the first four bytes of data read may be, as an integer
    MaxConnects,        \* connections opened in all
    MaxData,            \* data sent on a connection
    MaxQueue,           \* messages waiting for a task
    MaxKills            \* tasks destroyed

SocketsAssumption ==
    /\ SOCKETS_MAX \in Nat \ {0} /\ TCP_PCBS_MAX \in Nat /\ TCP_PCBS_MAX > SOCKETS_MAX
    /\ Ports \subseteq Nat /\ IsFiniteSet(Ports) /\ Cardinality(Ports) >= TCP_PCBS_MAX
    /\ ReadMax \in Nat \ {0} /\ SegmentMax \in Nat \ {0} /\ DataWords \subseteq Nat
    /\ \A u \in Urls : u.http \in BOOLEAN /\ u.host \in Seq(0 .. 255)
    /\ MaxConnects \in Nat /\ MaxData \in Nat /\ MaxQueue \in Nat /\ MaxKills \in Nat

VARIABLES
    sockets,            \* struct socket by number; tcp_pcb is a number too
    pcbs,               \* struct tcp_pcb; conn numbers the connection, over is its end
    active_pcbs,        \* the ones in the list
    server,             \* "up", or "dead" after a NULL pointer
    async_messages,     \* the server's queue for each task
    destroyed,          \* tasks whose TASK_DESTROYED_MSG is on its way
    client,             \* http_get of each task; pc names the request it waits for
    opener,             \* history: the task that asked for each connection
    kills

vars == <<sockets, pcbs, active_pcbs, server, async_messages, destroyed, client, opener, kills>>

Fds == 1 .. SOCKETS_MAX
Pcbs == 1 .. TCP_PCBS_MAX
NULL == 0
Nobody == "nobody"
Addresses == Seq(0 .. 255)

FreeSocket == [used |-> FALSE, task |-> Nobody, tcp_pcb |-> NULL]
FreePcb == [in_use |-> FALSE, state |-> "CLOSED", port |-> 0, remote |-> <<>>, arg |-> NULL,
            rx |-> 0, conn |-> 0, sent |-> 0, over |-> FALSE]
Idle == [pc |-> "idle", sock |-> NULL, word |-> NULL, url |-> <<>>]

TypeOK ==
    /\ \A s \in Fds : /\ sockets[s].used \in BOOLEAN /\ sockets[s].task \in Tasks \cup {Nobody}
                      /\ sockets[s].tcp_pcb \in {NULL} \cup Pcbs
    /\ \A p \in Pcbs : /\ pcbs[p].state \in {"CLOSED", "SYN_SENT", "ESTABLISHED"}
                       /\ pcbs[p].port \in {0} \cup Ports /\ pcbs[p].arg \in {NULL} \cup Fds
                       /\ pcbs[p].rx \in 0 .. MaxData /\ pcbs[p].conn \in 0 .. MaxConnects
    /\ active_pcbs \subseteq Pcbs /\ server \in {"up", "dead"}
    /\ destroyed \subseteq Tasks /\ opener \in Seq(Tasks)
    /\ \A t \in Tasks :
        /\ client[t].pc \in {"idle", "connect", "write", "recv", "read", "lastread", "close",
                             "dead", "panic"}
        /\ client[t].sock \in {NULL} \cup Fds
        /\ \A i \in DOMAIN async_messages[t] :
            async_messages[t][i] \in [type : {"DATA", "CLOSED"}, sock : Fds, conn : Nat]

Init ==
    /\ sockets = [s \in Fds |-> FreeSocket] /\ pcbs = [p \in Pcbs |-> FreePcb]
    /\ active_pcbs = {} /\ server = "up" /\ destroyed = {} /\ opener = <<>> /\ kills = 0
    /\ async_messages = [t \in Tasks |-> <<>>] /\ client = [t \in Tasks |-> Idle]
-----------------------------------------------------------------------------
(* The server's tables.                                                    *)

\* The first number in S, NULL when there is none.
First(S) == IF S = {} THEN NULL ELSE Min(S)

alloc_socket == First({s \in Fds : ~sockets[s].used})

tcp_new == First({p \in Pcbs : ~pcbs[p].in_use})

\* As tcp_lookup_local, finding no control block.
tcp_lookup_never(port) == {}

\* The local addresses are all unspecified, so only the port tells.
tcp_lookup_local(port) == {p \in active_pcbs : pcbs[p].port = port}

lookup_socket(task, sock) ==
    IF sock \in Fds /\ sockets[sock].used /\ sockets[sock].task = task THEN sock ELSE NULL

\* The sockets in S are no longer used; their control blocks are as before.
OnlyTheSockets(S) ==
    /\ sockets' = [s \in Fds |-> IF s \in S THEN [sockets[s] EXCEPT !.used = FALSE] ELSE sockets[s]]
    /\ UNCHANGED <<pcbs, active_pcbs>>

\* free_socket and tcp_close of each socket in S.
free_sockets(S) ==
    LET closed == {sockets[s].tcp_pcb : s \in S}
    IN /\ sockets' = [s \in Fds |-> IF s \in S THEN [sockets[s] EXCEPT !.used = FALSE]
                                               ELSE sockets[s]]
       /\ pcbs' = [p \in Pcbs |-> IF p \in closed THEN [pcbs[p] EXCEPT !.in_use = FALSE, !.rx = 0]
                                                  ELSE pcbs[p]]
       /\ active_pcbs' = active_pcbs \ closed
-----------------------------------------------------------------------------
(* http_get up to its first request.                                       *)

\* parse_ipaddr: the numbers before the first three dots, and the third again.
parse_ipaddr(host) == <<host[1], host[2], host[3], host[3]>>

\* resolve_url, of an address: FALSE when it prints a warning instead.
Resolves(url) == url.http /\ Len(url.host) >= 4

http_get(t, url) ==
    /\ client[t].pc = "idle" /\ Len(opener) < MaxConnects
    /\ client' = [client EXCEPT ![t].pc = IF Resolves(url) THEN "connect" ELSE "idle",
                                ![t].url = IF Resolves(url) THEN url.host ELSE <<>>]
    /\ UNCHANGED <<sockets, pcbs, active_pcbs, server, async_messages, destroyed, opener, kills>>
-----------------------------------------------------------------------------
(* Requests, each with the answer and what http_get does with it.          *)

\* TCPIP_CONNECT_MSG.
Connect(t) ==
    LET sock == alloc_socket
        pcb == tcp_new
        port == Min({q \in Ports : tcp_lookup_local(q) = {}})
    IN /\ server = "up" /\ client[t].pc = "connect"
       /\ Len(opener) < MaxConnects
       /\ pcbs' = [pcbs EXCEPT ![pcb] =
                    [FreePcb EXCEPT !.in_use = TRUE, !.state = "SYN_SENT", !.port = port,
                                    !.remote = parse_ipaddr(client[t].url), !.arg = sock,
                                    !.conn = Len(opener) + 1]]
       /\ active_pcbs' = active_pcbs \cup {pcb}
       /\ opener' = Append(opener, t)
       /\ \/ /\ sock # NULL
             /\ sockets' = [sockets EXCEPT ![sock] = [used |-> TRUE, task |-> t, tcp_pcb |-> pcb]]
             /\ client' = [client EXCEPT ![t].pc = "write", ![t].sock = sock]
             /\ UNCHANGED server
          \/ /\ sock = NULL     \* sock->task = m.src
             /\ server' = "dead"
             /\ UNCHANGED <<sockets, client>>
       /\ UNCHANGED <<async_messages, destroyed, kills>>

\* TCPIP_WRITE_MSG; http_get asserts that it succeeds.
Write(t) ==
    /\ server = "up" /\ client[t].pc = "write"
    /\ client' = [client EXCEPT ![t].pc =
                    IF lookup_socket(t, client[t].sock) = NULL THEN "panic" ELSE "recv"]
    /\ UNCHANGED <<sockets, pcbs, active_pcbs, server, async_messages, destroyed, opener, kills>>

\* ipc_recv of http_get: TCPIP_DATA_MSG or TCPIP_CLOSED_MSG, and then TCPIP_READ_MSG.
Recv(t) ==
    /\ server = "up" /\ client[t].pc = "recv" /\ async_messages[t] # <<>>
    /\ LET m == Head(async_messages[t])
       IN client' = [client EXCEPT ![t].pc = IF m.type = "DATA" THEN "read" ELSE "lastread",
                                   ![t].word = m.sock]
    /\ async_messages' = [async_messages EXCEPT ![t] = Tail(@)]
    /\ UNCHANGED <<sockets, pcbs, active_pcbs, server, destroyed, opener, kills>>

\* TCPIP_READ_MSG.  The data is where the socket's number was, if there is any.
Read(t) ==
    LET sock == lookup_socket(t, client[t].word)
        pcb == sockets[sock].tcp_pcb
        n == Min({pcbs[pcb].rx, ReadMax})
    IN /\ server = "up" /\ client[t].pc \in {"read", "lastread"}
       /\ \/ /\ sock = NULL
             /\ client' = [client EXCEPT ![t].pc = "panic"]
             /\ UNCHANGED pcbs
          \/ /\ sock # NULL
             /\ pcbs' = [pcbs EXCEPT ![pcb].rx = @ - n]
             /\ \E w \in IF n = 0 THEN {client[t].word} ELSE DataWords :
                    client' = [client EXCEPT
                                ![t].pc = IF client[t].pc = "read" THEN "recv" ELSE "close",
                                ![t].word = w]
       /\ UNCHANGED <<sockets, active_pcbs, server, async_messages, destroyed, opener, kills>>

\* TCPIP_CLOSE_MSG, of the number that is in the message; http_get returns.
Close(t) ==
    LET sock == lookup_socket(t, client[t].word)
    IN /\ server = "up" /\ client[t].pc = "close"
       /\ free_sockets({sock} \ {NULL})
       /\ client' = [client EXCEPT ![t] = Idle]
       /\ UNCHANGED <<server, async_messages, destroyed, opener, kills>>

\* A task ends.
Kill(t) ==
    /\ client[t].pc # "dead" /\ kills < MaxKills
    /\ client' = [client EXCEPT ![t] = [Idle EXCEPT !.pc = "dead"]]
    /\ destroyed' = destroyed \cup {t} /\ kills' = kills + 1
    /\ UNCHANGED <<sockets, pcbs, active_pcbs, server, async_messages, opener>>

\* As Owned, for a server that does not look.
NoneOwned(t) == {}

\* The sockets that do_task_destroyed frees.
Owned(t) == {s \in Fds : sockets[s].used /\ sockets[s].task = t}

\* TASK_DESTROYED_MSG.
do_task_destroyed(t) ==
    /\ server = "up" /\ t \in destroyed
    /\ free_sockets(Owned(t))
    /\ destroyed' = destroyed \ {t}
    /\ UNCHANGED <<server, async_messages, client, opener, kills>>
-----------------------------------------------------------------------------
(* Segments for the connection of an active control block.  The peer is    *)
(* external: it sends nothing but resets after its FIN or RST.             *)

\* As Callback, of the end of a connection: nothing is sent.
NoCallback(p, type) == async_messages

\* callback_tcp_data, callback_tcp_fin and callback_tcp_rst.
Callback(p, type) ==
    LET sock == pcbs[p].arg
        t == sockets[sock].task
        m == [type |-> type, sock |-> sock, conn |-> pcbs[p].conn]
    IN [async_messages EXCEPT ![t] = Append(@, m)]

Room(p) == Len(async_messages[sockets[pcbs[p].arg].task]) < MaxQueue

\* What a segment leaves alone.
OfServer == UNCHANGED <<sockets, active_pcbs, server, destroyed, client, opener, kills>>

SynAck(p) ==
    /\ server = "up" /\ p \in active_pcbs /\ pcbs[p].state = "SYN_SENT" /\ ~pcbs[p].over
    /\ pcbs' = [pcbs EXCEPT ![p].state = "ESTABLISHED"]
    /\ OfServer /\ UNCHANGED async_messages

Data(p, n) ==
    /\ server = "up" /\ p \in active_pcbs /\ pcbs[p].state = "ESTABLISHED" /\ Room(p)
    /\ ~pcbs[p].over
    /\ pcbs[p].sent + n =< MaxData
    /\ pcbs' = [pcbs EXCEPT ![p].rx = @ + n, ![p].sent = @ + n]
    /\ async_messages' = Callback(p, "DATA")
    /\ OfServer

Fin(p) ==
    /\ server = "up" /\ p \in active_pcbs /\ pcbs[p].state = "ESTABLISHED" /\ Room(p)
    /\ ~pcbs[p].over
    /\ pcbs' = [pcbs EXCEPT ![p].state = "CLOSED", ![p].over = TRUE]
    /\ async_messages' = Callback(p, "CLOSED")
    /\ OfServer

\* A reset, in any state and of a connection that is over too.
Rst(p) ==
    /\ server = "up" /\ p \in active_pcbs /\ Room(p)
    /\ pcbs' = [pcbs EXCEPT ![p].over = TRUE]
    /\ async_messages' = Callback(p, "CLOSED")
    /\ OfServer
-----------------------------------------------------------------------------
Request(t) == Connect(t) \/ Write(t) \/ Recv(t) \/ Read(t) \/ Close(t)

Segment(p) ==
    \/ SynAck(p) \/ Fin(p) \/ Rst(p)
    \/ \E n \in 1 .. SegmentMax : Data(p, n)

Next ==
    \/ \E t \in Tasks : \/ \E u \in Urls : http_get(t, u)
                        \/ Request(t) \/ Kill(t) \/ do_task_destroyed(t)
    \/ \E p \in Pcbs : Segment(p)

Spec == Init /\ [][Next]_vars
-----------------------------------------------------------------------------
(* Properties.                                                             *)

\* The control blocks in use are the ones of the used sockets and the ones in
\* the list, one for each socket and pointing back at it, and no two have the
\* same port.  So there is always a block and a port for a new socket, and
\* tcp_new and tcp_connect (main.c does not check the first) do not fail.
TablesSound ==
    LET used == {s \in Fds : sockets[s].used}
        inUse == {p \in Pcbs : pcbs[p].in_use}
    IN server = "up" =>
        /\ inUse = active_pcbs /\ inUse = {sockets[s].tcp_pcb : s \in used}
        /\ \A s \in used : pcbs[sockets[s].tcp_pcb].arg = s
        /\ \A p, q \in inUse : pcbs[p].port = pcbs[q].port => p = q

\* A task gets, and reads with, only what belongs to connections that it asked
\* for: a control block that outlives its socket would tell the next owner.
OwnMessages ==
    /\ \A t \in Tasks : \A i \in DOMAIN async_messages[t] : opener[async_messages[t][i].conn] = t
    /\ \A t \in Tasks : client[t].pc \in {"read", "lastread"} =>
        LET sock == lookup_socket(t, client[t].word)
        IN sock # NULL => opener[pcbs[sockets[sock].tcp_pcb].conn] = t

\* No socket stays behind when its owner has ended and the server knows it
\* (main.c says that it watches tasks for this).
NoOrphans ==
    \A s \in Fds : sockets[s].used => client[sockets[s].task].pc # "dead"
                                      \/ sockets[s].task \in destroyed

\* http_get returns once the peer has ended its connection.
Returns ==
    \A t \in Tasks :
        []<>(client[t].pc = "recv" =>
                \A p \in active_pcbs : pcbs[p].arg = client[t].sock => ~pcbs[p].over)
-----------------------------------------------------------------------------
(* What the source says and the code does not do (README, Disagreements).  *)

\* The server survives a client that opens one socket too many: alloc_socket
\* has a value for that (main.c line 19).
ServerAlive == server = "up"

\* http_get connects to the address that is in the URL (the test asks for
\* 10.0.2.100).
DialsUrl ==
    \A s \in Fds : sockets[s].used /\ client[sockets[s].task].sock = s =>
        pcbs[sockets[s].tcp_pcb].remote = SubSeq(client[sockets[s].task].url, 1, 4)

\* http_get has closed its socket when it returns.
ClosesOwn == \A t \in Tasks : client[t].pc = "idle" => Owned(t) = {}

\* http_get has read everything that the peer sent before its FIN when it
\* closes the socket.
WholeBody ==
    \A t \in Tasks :
        client[t].pc = "close" /\ lookup_socket(t, client[t].sock) # NULL =>
            LET p == sockets[client[t].sock].tcp_pcb
            IN pcbs[p].over /\ pcbs[p].state = "CLOSED" => pcbs[p].rx = 0

\* A task that is told that its socket is closed has a socket that is.
ClosedIsTrue ==
    \A t \in Tasks : client[t].pc = "lastread" =>
        LET sock == lookup_socket(t, client[t].word)
        IN sock # NULL => pcbs[sockets[sock].tcp_pcb].over

\* The assertions of http_get on the server's answers hold.
NoClientPanic == \A t \in Tasks : client[t].pc # "panic"
=============================================================================
