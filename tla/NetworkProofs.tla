--------------------------- MODULE NetworkProofs ---------------------------
(***************************************************************************)
(* Theorems about the components of MCNetwork, for any values of their     *)
(* constants that MCNetwork assumes.                                       *)
(***************************************************************************)
EXTENDS MCNetwork, FiniteSetTheorems, WellFoundedInduction, TLAPS

-----------------------------------------------------------------------------
(* Sockets.                                                                *)

\* Hosts of the URLs, and remote addresses that come of them.
UrlHosts == {<<>>} \cup {u.host : u \in Urls}
Remotes == {<<>>} \cup {sock!parse_ipaddr(h) : h \in UrlHosts}

\* The types of the records in the server's tables, of messages and of clients.
SocketRec == [used : BOOLEAN, task : sock_Tasks \cup {sock!Nobody}, tcp_pcb : {0} \cup sock!Pcbs]
PcbRec == [in_use : BOOLEAN, state : {"CLOSED", "SYN_SENT", "ESTABLISHED"}, port : {0} \cup Ports,
           remote : Remotes, arg : {0} \cup sock!Fds, rx : 0 .. sock_MaxData,
           conn : 0 .. sock_MaxConnects, sent : 0 .. sock_MaxData, over : BOOLEAN]
MsgRec == [type : {"DATA", "CLOSED"}, sock : sock!Fds, conn : Nat]
ClientRec == [pc : {"idle", "connect", "write", "recv", "read", "lastread", "close", "dead", "panic"},
              sock : {0} \cup sock!Fds, word : Nat, url : UrlHosts]

SocketTypes ==
    /\ sockets \in [sock!Fds -> SocketRec] /\ pcbs \in [sock!Pcbs -> PcbRec]
    /\ \A p \in sock!Pcbs : pcbs[p].rx =< pcbs[p].sent
    /\ sock_active_pcbs \subseteq sock!Pcbs /\ server \in {"up", "dead"}
    /\ destroyed \subseteq sock_Tasks /\ opener \in Seq(sock_Tasks)
    /\ client \in [sock_Tasks -> ClientRec] /\ async_messages \in [sock_Tasks -> Seq(MsgRec)]

\* Sockets and control blocks point at each other, one to one.
Linked ==
    server = "up" =>
        /\ \A p \in sock!Pcbs : pcbs[p].in_use <=> p \in sock_active_pcbs
        /\ \A s \in sock!Fds : sockets[s].used =>
            /\ sockets[s].tcp_pcb \in sock!Pcbs /\ pcbs[sockets[s].tcp_pcb].in_use
            /\ pcbs[sockets[s].tcp_pcb].arg = s
        /\ \A p \in sock!Pcbs : pcbs[p].in_use =>
            /\ pcbs[p].arg \in sock!Fds /\ sockets[pcbs[p].arg].used
            /\ sockets[pcbs[p].arg].tcp_pcb = p
        /\ \A p, q \in sock!Pcbs :
            pcbs[p].in_use /\ pcbs[q].in_use /\ pcbs[p].port = pcbs[q].port => p = q

\* A socket belongs to the task that has asked for its connection.
Owners ==
    \A s \in sock!Fds : sockets[s].used =>
        LET p == sockets[s].tcp_pcb
        IN  /\ p \in sock!Pcbs /\ pcbs[p].conn \in 1 .. Len(opener)
            /\ opener[pcbs[p].conn] = sockets[s].task

\* A message is for the task that has asked for its connection.
MessagesOwn ==
    \A t \in sock_Tasks : \A i \in 1 .. Len(async_messages[t]) :
        /\ async_messages[t][i].conn \in 1 .. Len(opener)
        /\ opener[async_messages[t][i].conn] = t

\* The invariant of the sockets.
SocketsInv == SocketTypes /\ Linked /\ Owners /\ MessagesOwn /\ sock!NoOrphans

\* What is used of the constants.
LEMMA SocketConstants ==
    /\ SOCKETS_MAX \in Nat /\ TCP_PCBS_MAX \in Nat /\ TCP_PCBS_MAX > SOCKETS_MAX
    /\ Ports \subseteq Nat /\ IsFiniteSet(Ports) /\ Cardinality(Ports) >= TCP_PCBS_MAX
    /\ sock_MaxConnects \in Nat /\ sock_MaxData \in Nat /\ sock_ReadMax \in Nat /\ DataWords \subseteq Nat
    /\ SegmentMax \in Nat
    /\ sock!Fds \subseteq Nat /\ sock!Pcbs \subseteq Nat /\ 0 \notin sock!Fds /\ 0 \notin sock!Pcbs
  BY NetworkAssumption DEF NetworkAssumption, sock!SocketsAssumption, sock!Fds, sock!Pcbs,
     sock!IsFiniteSet, sock!Cardinality, IsFiniteSet, Cardinality

\* The invariant is what the run checks, and more.
LEMMA SocketsInvEnough == SocketsInv => sock!TypeOK /\ sock!TablesSound /\ sock!OwnMessages /\ sock!NoOrphans
<1>. SUFFICES ASSUME SocketsInv PROVE sock!TypeOK /\ sock!TablesSound /\ sock!OwnMessages
  BY DEF SocketsInv
<1>0. SocketTypes /\ Linked /\ Owners /\ MessagesOwn
  BY DEF SocketsInv
<1>1. sock!TypeOK
  <2>1. /\ \A s \in sock!Fds : sockets[s] \in SocketRec
        /\ \A p \in sock!Pcbs : pcbs[p] \in PcbRec
        /\ \A t \in sock_Tasks : client[t] \in ClientRec /\ async_messages[t] \in Seq(MsgRec)
    BY <1>0 DEF SocketTypes
  <2>2. \A s \in sock!Fds : /\ sockets[s].used \in BOOLEAN /\ sockets[s].task \in sock_Tasks \cup {sock!Nobody}
                            /\ sockets[s].tcp_pcb \in {sock!NULL} \cup sock!Pcbs
    BY <2>1 DEF SocketRec, sock!NULL
  <2>3. \A p \in sock!Pcbs :
          /\ pcbs[p].state \in {"CLOSED", "SYN_SENT", "ESTABLISHED"}
          /\ pcbs[p].port \in {0} \cup Ports /\ pcbs[p].arg \in {sock!NULL} \cup sock!Fds
          /\ pcbs[p].rx \in 0 .. sock_MaxData /\ pcbs[p].conn \in 0 .. sock_MaxConnects
    BY <2>1 DEF PcbRec, sock!NULL
  <2>4. \A t \in sock_Tasks :
          /\ client[t].pc \in {"idle", "connect", "write", "recv", "read", "lastread", "close",
                               "dead", "panic"}
          /\ client[t].sock \in {sock!NULL} \cup sock!Fds
    BY <2>1 DEF ClientRec, sock!NULL
  <2>5. \A t \in sock_Tasks : \A i \in DOMAIN async_messages[t] :
          async_messages[t][i] \in [type : {"DATA", "CLOSED"}, sock : sock!Fds, conn : Nat]
    <3>1. ASSUME NEW m \in Seq(MsgRec), NEW i \in DOMAIN m PROVE m[i] \in MsgRec
      OBVIOUS
    <3>. QED BY <2>1, <3>1 DEF MsgRec
  <2>. QED BY <1>0, <2>2, <2>3, <2>4, <2>5 DEF sock!TypeOK, SocketTypes
<1>2. sock!TablesSound
  <2>. DEFINE used == {s \in sock!Fds : sockets[s].used}
              inUse == {p \in sock!Pcbs : pcbs[p].in_use}
  <2>. SUFFICES ASSUME server = "up"
                PROVE  /\ inUse = sock_active_pcbs /\ inUse = {sockets[s].tcp_pcb : s \in used}
                       /\ \A s \in used : pcbs[sockets[s].tcp_pcb].arg = s
                       /\ \A p, q \in inUse : pcbs[p].port = pcbs[q].port => p = q
    BY DEF sock!TablesSound
  <2>1. inUse = sock_active_pcbs
    BY <1>0 DEF Linked, SocketTypes
  <2>2. inUse \subseteq {sockets[s].tcp_pcb : s \in used}
    <3>. SUFFICES ASSUME NEW p \in inUse PROVE \E s \in used : p = sockets[s].tcp_pcb
      OBVIOUS
    <3>1. pcbs[p].arg \in used /\ sockets[pcbs[p].arg].tcp_pcb = p
      BY <1>0 DEF Linked
    <3>. QED BY <3>1
  <2>3. {sockets[s].tcp_pcb : s \in used} \subseteq inUse
    BY <1>0 DEF Linked
  <2>4. \A s \in used : pcbs[sockets[s].tcp_pcb].arg = s
    BY <1>0 DEF Linked
  <2>5. \A p, q \in inUse : pcbs[p].port = pcbs[q].port => p = q
    BY <1>0 DEF Linked
  <2>. QED BY <2>1, <2>2, <2>3, <2>4, <2>5
<1>3. sock!OwnMessages
  <2>1. \A t \in sock_Tasks : async_messages[t] \in Seq(MsgRec)
    BY <1>0 DEF SocketTypes
  <2>2. \A t \in sock_Tasks : DOMAIN async_messages[t] = 1 .. Len(async_messages[t])
    BY <2>1
  <2>3. \A t \in sock_Tasks : \A i \in DOMAIN async_messages[t] : opener[async_messages[t][i].conn] = t
    BY <1>0, <2>2 DEF MessagesOwn
  <2>4. ASSUME NEW t \in sock_Tasks, sock!lookup_socket(t, client[t].word) # sock!NULL
        PROVE  opener[pcbs[sockets[sock!lookup_socket(t, client[t].word)].tcp_pcb].conn] = t
    BY <1>0, <2>4 DEF sock!lookup_socket, Owners
  <2>. QED BY <2>3, <2>4 DEF sock!OwnMessages
<1>. QED BY <1>1, <1>2, <1>3

\* The least of some naturals.
LEMMA LeastNatural ==
    ASSUME NEW S \in SUBSET Nat, S # {}
    PROVE  sock!Min(S) \in S
<1>1. PICK x \in S : \A y \in S : ~(<<y, x>> \in OpToRel(<, Nat))
  BY NatLessThanWellFounded, WFMin
<1>2. \A y \in S : x =< y
  <2>. SUFFICES ASSUME NEW y \in S PROVE x =< y
    OBVIOUS
  <2>1. x \in Nat /\ y \in Nat
    OBVIOUS
  <2>2. ~(y < x)
    BY <1>1, <2>1, Zenon DEF OpToRel
  <2>. QED BY <2>1, <2>2
<1>. QED BY <1>1, <1>2 DEF sock!Min

\* The sizes of the server's tables.
LEMMA TableSizes ==
    /\ IsFiniteSet(sock!Fds) /\ Cardinality(sock!Fds) = SOCKETS_MAX
    /\ IsFiniteSet(sock!Pcbs) /\ Cardinality(sock!Pcbs) = TCP_PCBS_MAX
<1>1. ASSUME NEW n \in Nat PROVE IsFiniteSet(1 .. n) /\ Cardinality(1 .. n) = n
  BY FS_Interval
<1>. QED BY <1>1, SocketConstants DEF sock!Fds, sock!Pcbs

\* While a socket is free so are a control block and a port: there are more of them.
LEMMA TablesLast ==
    ASSUME SocketTypes, Linked, server = "up"
    PROVE  /\ sock!tcp_new \in sock!Pcbs /\ ~pcbs[sock!tcp_new].in_use
           /\ LET port == sock!Min({q \in Ports : sock!tcp_lookup_local(q) = {}})
              IN  port \in Ports /\ \A p \in sock_active_pcbs : pcbs[p].port # port
<1>. DEFINE A == sock_active_pcbs
            used == {s \in sock!Fds : sockets[s].used}
            f == [s \in used |-> sockets[s].tcp_pcb]
            g == [p \in A |-> pcbs[p].port]
            G == {pcbs[p].port : p \in A}
<1>0. /\ SOCKETS_MAX \in Nat /\ TCP_PCBS_MAX \in Nat /\ TCP_PCBS_MAX > SOCKETS_MAX
      /\ IsFiniteSet(Ports) /\ Cardinality(Ports) >= TCP_PCBS_MAX /\ Cardinality(Ports) \in Nat
  BY SocketConstants, FS_CardinalityType
<1>1. IsFiniteSet(used) /\ Cardinality(used) =< SOCKETS_MAX /\ Cardinality(used) \in Nat
  <2>1. IsFiniteSet(sock!Fds) /\ Cardinality(sock!Fds) = SOCKETS_MAX
    BY TableSizes
  <2>2. used \in SUBSET sock!Fds
    OBVIOUS
  <2>. QED BY <2>1, <2>2, FS_Subset, FS_CardinalityType
<1>2. IsFiniteSet(A) /\ Cardinality(A) =< SOCKETS_MAX /\ Cardinality(A) \in Nat
  <2>1. f \in [used -> A]
    <3>1. ASSUME NEW s \in used PROVE sockets[s].tcp_pcb \in A
      BY DEF Linked
    <3>. QED BY <3>1
  <2>2. \A p \in A : \E s \in used : f[s] = p
    <3>. SUFFICES ASSUME NEW p \in A PROVE \E s \in used : f[s] = p
      OBVIOUS
    <3>1. p \in sock!Pcbs /\ pcbs[p].in_use
      BY DEF Linked, SocketTypes
    <3>2. pcbs[p].arg \in used /\ f[pcbs[p].arg] = p
      BY <3>1 DEF Linked
    <3>. QED BY <3>2
  <2>3. f \in Surjection(used, A)
    BY <2>1, <2>2 DEF Surjection
  <2>4. IsFiniteSet(A) /\ Cardinality(A) =< Cardinality(used) /\ Cardinality(A) \in Nat
    BY <1>1, <2>3, FS_Surjection, FS_CardinalityType
  <2>. QED BY <1>0, <1>1, <2>4
<1>3. IsFiniteSet(G) /\ Cardinality(G) =< SOCKETS_MAX /\ Cardinality(G) \in Nat
  <2>1. g \in Surjection(A, G)
    BY DEF Surjection
  <2>2. IsFiniteSet(G) /\ Cardinality(G) =< Cardinality(A) /\ Cardinality(G) \in Nat
    BY <1>2, <2>1, FS_Surjection, FS_CardinalityType
  <2>. QED BY <1>0, <1>2, <2>2
<1>4. PICK p \in sock!Pcbs : p \notin A
  <2>1. IsFiniteSet(sock!Pcbs) /\ Cardinality(sock!Pcbs) = TCP_PCBS_MAX
    BY TableSizes
  <2>2. Cardinality(A) # Cardinality(sock!Pcbs)
    BY <1>0, <1>2, <2>1
  <2>. QED BY <2>2 DEF SocketTypes
<1>5. sock!tcp_new \in {q \in sock!Pcbs : ~pcbs[q].in_use}
  <2>1. p \in {q \in sock!Pcbs : ~pcbs[q].in_use}
    BY <1>4 DEF Linked
  <2>2. {q \in sock!Pcbs : ~pcbs[q].in_use} \in SUBSET Nat
    BY SocketConstants
  <2>. QED BY <2>1, <2>2, LeastNatural DEF sock!tcp_new, sock!First
<1>6. PICK q \in Ports : q \notin G
  <2>1. SUFFICES ASSUME Ports \subseteq G PROVE FALSE
    OBVIOUS
  <2>2. Cardinality(Ports) =< Cardinality(G)
    BY <1>3, <2>1, FS_Subset
  <2>. QED BY <1>0, <1>3, <2>2
<1>7. sock!Min({r \in Ports : sock!tcp_lookup_local(r) = {}}) \in {r \in Ports : sock!tcp_lookup_local(r) = {}}
  <2>1. q \in {r \in Ports : sock!tcp_lookup_local(r) = {}}
    BY <1>6 DEF sock!tcp_lookup_local
  <2>2. {r \in Ports : sock!tcp_lookup_local(r) = {}} \in SUBSET Nat
    BY SocketConstants
  <2>. QED BY <2>1, <2>2, LeastNatural
<1>. QED BY <1>5, <1>7 DEF sock!tcp_lookup_local

\* The sockets at first.
LEMMA InitSockets == sock!Init => SocketsInv
<1>. SUFFICES ASSUME sock!Init PROVE SocketsInv
  OBVIOUS
<1>1. sock!FreeSocket \in SocketRec /\ sock!FreePcb \in PcbRec /\ sock!Idle \in ClientRec
  BY SocketConstants
  DEF sock!FreeSocket, sock!FreePcb, sock!Idle, SocketRec, PcbRec, ClientRec, sock!Nobody, sock!NULL,
      Remotes, UrlHosts
<1>2. SocketTypes
  <2>1. \A p \in sock!Pcbs : pcbs[p].rx =< pcbs[p].sent
    BY DEF sock!Init, sock!FreePcb
  <2>2. <<>> \in Seq(sock_Tasks) /\ <<>> \in Seq(MsgRec)
    OBVIOUS
  <2>. QED BY <1>1, <2>1, <2>2 DEF sock!Init, SocketTypes
<1>3. \A s \in sock!Fds : ~sockets[s].used
  BY DEF sock!Init, sock!FreeSocket
<1>4. \A p \in sock!Pcbs : ~pcbs[p].in_use /\ p \notin sock_active_pcbs
  BY DEF sock!Init, sock!FreePcb
<1>5. \A t \in sock_Tasks : Len(async_messages[t]) = 0
  BY DEF sock!Init
<1>6. MessagesOwn
  BY <1>5 DEF MessagesOwn
<1>. QED BY <1>2, <1>3, <1>4, <1>6 DEF SocketsInv, Linked, Owners, sock!NoOrphans

\* The owner of a socket is a task.
LEMMA OwnerIsTask ==
    ASSUME SocketTypes, Owners, NEW s \in sock!Fds, sockets[s].used
    PROVE  sockets[s].task \in sock_Tasks
<1>1. PICK i \in 1 .. Len(opener) : opener[i] = sockets[s].task
  BY DEF Owners
<1>2. opener \in Seq(sock_Tasks)
  BY DEF SocketTypes
<1>. QED BY <1>1, <1>2

\* Steps that leave the links alone.
LEMMA LinksKept ==
    ASSUME UNCHANGED <<sockets, sock_active_pcbs, server, opener>>,
           \A p \in sock!Pcbs : /\ pcbs'[p].in_use = pcbs[p].in_use /\ pcbs'[p].port = pcbs[p].port
                                /\ pcbs'[p].arg = pcbs[p].arg /\ pcbs'[p].conn = pcbs[p].conn,
           Linked, Owners
    PROVE  Linked' /\ Owners'
<1>1. Linked'
  BY DEF Linked
<1>2. Owners'
  BY DEF Owners
<1>. QED BY <1>1, <1>2

\* Steps of a client that change nothing of the server's.
LEMMA ClientSteps ==
    ASSUME SocketsInv, UNCHANGED <<sockets, pcbs, sock_active_pcbs, server, opener>>,
           destroyed' \subseteq sock_Tasks, destroyed \subseteq destroyed',
           client' \in [sock_Tasks -> ClientRec],
           \A t \in sock_Tasks : client'[t].pc = "dead" => client[t].pc = "dead" \/ t \in destroyed',
           \/ async_messages' = async_messages
           \/ \E t \in sock_Tasks : /\ async_messages[t] # <<>>
                                    /\ async_messages' = [async_messages EXCEPT ![t] = Tail(async_messages[t])]
    PROVE  SocketsInv'
<1>0. SocketTypes /\ Linked /\ Owners /\ MessagesOwn /\ sock!NoOrphans
  BY DEF SocketsInv
<1>1. Linked' /\ Owners'
  BY <1>0, LinksKept
<1>2. sock!NoOrphans'
  <2>. SUFFICES ASSUME NEW s \in sock!Fds, sockets[s].used
                PROVE  client'[sockets[s].task].pc # "dead" \/ sockets[s].task \in destroyed'
    BY DEF sock!NoOrphans
  <2>1. sockets[s].task \in sock_Tasks
    BY <1>0, OwnerIsTask
  <2>. QED BY <1>0, <2>1 DEF sock!NoOrphans
<1>3. async_messages' \in [sock_Tasks -> Seq(MsgRec)] /\ MessagesOwn'
  <2>1. CASE async_messages' = async_messages
    BY <1>0, <2>1 DEF SocketTypes, MessagesOwn
  <2>2. ASSUME NEW t \in sock_Tasks, async_messages[t] # <<>>,
               async_messages' = [async_messages EXCEPT ![t] = Tail(async_messages[t])]
        PROVE  async_messages' \in [sock_Tasks -> Seq(MsgRec)] /\ MessagesOwn'
    <3>1. PICK q \in Seq(MsgRec) : q = async_messages[t] /\ q # <<>>
      BY <1>0, <2>2 DEF SocketTypes
    <3>2. /\ Tail(q) \in Seq(MsgRec) /\ Len(Tail(q)) = Len(q) - 1 /\ Len(q) \in Nat
          /\ \A i \in 1 .. Len(q) - 1 : Tail(q)[i] = q[i + 1] /\ i + 1 \in 1 .. Len(q)
      BY <3>1
    <3>3. async_messages' \in [sock_Tasks -> Seq(MsgRec)]
      BY <1>0, <2>2, <3>1, <3>2 DEF SocketTypes
    <3>4. /\ async_messages'[t] = Tail(q)
          /\ \A u \in sock_Tasks \ {t} : async_messages'[u] = async_messages[u]
      BY <1>0, <2>2, <3>1 DEF SocketTypes
    <3>5. \A i \in 1 .. Len(q) : q[i].conn \in 1 .. Len(opener) /\ opener[q[i].conn] = t
      BY <1>0, <3>1 DEF MessagesOwn
    <3>6. ASSUME NEW u \in sock_Tasks, NEW i \in 1 .. Len(async_messages'[u])
          PROVE  /\ async_messages'[u][i].conn \in 1 .. Len(opener)
                 /\ opener[async_messages'[u][i].conn] = u
      <4>1. CASE u = t
        <5>1. i \in 1 .. Len(q) - 1
          BY <3>2, <3>4, <4>1
        <5>2. async_messages'[u][i] = q[i + 1] /\ i + 1 \in 1 .. Len(q)
          BY <3>2, <3>4, <4>1, <5>1
        <5>. QED BY <3>5, <4>1, <5>2
      <4>2. CASE u # t
        BY <1>0, <3>4, <4>2 DEF MessagesOwn
      <4>. QED BY <4>1, <4>2
    <3>7. MessagesOwn'
      BY <3>6 DEF MessagesOwn
    <3>. QED BY <3>3, <3>7
  <2>. QED BY <2>1, <2>2
<1>. QED BY <1>0, <1>1, <1>2, <1>3 DEF SocketsInv, SocketTypes

\* http_get up to its first request, its write, its receive, and the end of a task.
LEMMA ClientsKept ==
    ASSUME SocketsInv, NEW t \in sock_Tasks,
           \/ \E u \in Urls : sock!http_get(t, u)
           \/ sock!Write(t) \/ sock!Recv(t) \/ sock!Kill(t)
    PROVE  SocketsInv'
<1>0. /\ client \in [sock_Tasks -> ClientRec] /\ destroyed \subseteq sock_Tasks
      /\ async_messages \in [sock_Tasks -> Seq(MsgRec)] /\ client[t] \in ClientRec
  BY DEF SocketsInv, SocketTypes
<1>1. UNCHANGED <<sockets, pcbs, sock_active_pcbs, server, opener>>
  BY DEF sock!http_get, sock!Write, sock!Recv, sock!Kill
<1>2. PICK c \in ClientRec : /\ client' = [client EXCEPT ![t] = c]
                             /\ (c.pc = "dead" => client[t].pc = "dead" \/ t \in destroyed')
  <2>1. ASSUME NEW u \in Urls, sock!http_get(t, u)
        PROVE  \E c \in ClientRec : /\ client' = [client EXCEPT ![t] = c]
                                    /\ (c.pc = "dead" => client[t].pc = "dead" \/ t \in destroyed')
    <3>. DEFINE c == [client[t] EXCEPT !.pc = IF sock!Resolves(u) THEN "connect" ELSE "idle",
                                       !.url = IF sock!Resolves(u) THEN u.host ELSE <<>>]
    <3>1. c \in ClientRec /\ c.pc # "dead"
      BY <1>0 DEF ClientRec, UrlHosts
    <3>2. client' = [client EXCEPT ![t] = c]
      BY <1>0, <2>1 DEF sock!http_get
    <3>. QED BY <3>1, <3>2
  <2>2. ASSUME sock!Write(t)
        PROVE  \E c \in ClientRec : /\ client' = [client EXCEPT ![t] = c]
                                    /\ (c.pc = "dead" => client[t].pc = "dead" \/ t \in destroyed')
    <3>. DEFINE c == [client[t] EXCEPT !.pc =
                        IF sock!lookup_socket(t, client[t].sock) = sock!NULL THEN "panic" ELSE "recv"]
    <3>1. c \in ClientRec /\ c.pc # "dead"
      BY <1>0 DEF ClientRec
    <3>2. client' = [client EXCEPT ![t] = c]
      BY <1>0, <2>2 DEF sock!Write
    <3>. QED BY <3>1, <3>2
  <2>3. ASSUME sock!Recv(t)
        PROVE  \E c \in ClientRec : /\ client' = [client EXCEPT ![t] = c]
                                    /\ (c.pc = "dead" => client[t].pc = "dead" \/ t \in destroyed')
    <3>. DEFINE m == Head(async_messages[t])
                c == [client[t] EXCEPT !.pc = IF m.type = "DATA" THEN "read" ELSE "lastread",
                                       !.word = m.sock]
    <3>1. m \in MsgRec
      BY <1>0, <2>3 DEF sock!Recv
    <3>2. m.sock \in Nat
      BY <3>1, SocketConstants DEF MsgRec
    <3>3. c \in ClientRec /\ c.pc # "dead"
      BY <1>0, <3>2 DEF ClientRec
    <3>4. client' = [client EXCEPT ![t] = c]
      BY <1>0, <2>3 DEF sock!Recv
    <3>. HIDE DEF c
    <3>. QED BY <3>3, <3>4
  <2>4. ASSUME sock!Kill(t)
        PROVE  \E c \in ClientRec : /\ client' = [client EXCEPT ![t] = c]
                                    /\ (c.pc = "dead" => client[t].pc = "dead" \/ t \in destroyed')
    <3>. DEFINE c == [sock!Idle EXCEPT !.pc = "dead"]
    <3>1. c \in ClientRec
      BY DEF ClientRec, sock!Idle, sock!NULL, UrlHosts
    <3>2. client' = [client EXCEPT ![t] = c] /\ t \in destroyed'
      BY <1>0, <2>4 DEF sock!Kill
    <3>. QED BY <3>1, <3>2
  <2>. QED BY <2>1, <2>2, <2>3, <2>4
<1>3. /\ client' \in [sock_Tasks -> ClientRec]
      /\ \A s \in sock_Tasks : client'[s].pc = "dead" => client[s].pc = "dead" \/ s \in destroyed'
  BY <1>0, <1>2
<1>4. destroyed' \subseteq sock_Tasks /\ destroyed \subseteq destroyed'
  BY <1>0 DEF sock!http_get, sock!Write, sock!Recv, sock!Kill
<1>5. \/ async_messages' = async_messages
      \/ \E s \in sock_Tasks : /\ async_messages[s] # <<>>
                               /\ async_messages' = [async_messages EXCEPT ![s] = Tail(async_messages[s])]
  BY DEF sock!http_get, sock!Write, sock!Recv, sock!Kill
<1>. QED BY <1>1, <1>3, <1>4, <1>5, ClientSteps

\* TCPIP_READ_MSG.
LEMMA ReadKept ==
    ASSUME SocketsInv, NEW t \in sock_Tasks, sock!Read(t)
    PROVE  SocketsInv'
<1>. DEFINE sk == sock!lookup_socket(t, client[t].word)
<1>0. SocketTypes /\ Linked /\ Owners /\ MessagesOwn /\ sock!NoOrphans
  BY DEF SocketsInv
<1>1. UNCHANGED <<sockets, sock_active_pcbs, server, async_messages, destroyed, opener>>
  BY DEF sock!Read
<1>2. /\ client \in [sock_Tasks -> ClientRec] /\ client[t] \in ClientRec
      /\ pcbs \in [sock!Pcbs -> PcbRec] /\ \A p \in sock!Pcbs : pcbs[p].rx =< pcbs[p].sent
  BY <1>0 DEF SocketTypes
<1>3. /\ client' \in [sock_Tasks -> ClientRec]
      /\ \A s \in sock_Tasks : client'[s].pc = "dead" => client[s].pc = "dead"
  <2>1. PICK pc \in {"recv", "close", "panic"}, w \in Nat :
          client' = [client EXCEPT ![t].pc = pc, ![t].word = w]
    <3>1. client[t].word \in Nat
      BY <1>2 DEF ClientRec
    <3>2. CASE sk = sock!NULL
      <4>1. client' = [client EXCEPT ![t].pc = "panic"]
        BY <3>2 DEF sock!Read
      <4>2. client' = [client EXCEPT ![t].pc = "panic", ![t].word = client[t].word]
        BY <1>2, <4>1 DEF ClientRec
      <4>. QED BY <3>1, <4>2
    <3>3. CASE sk # sock!NULL
      <4>1. \E w \in {client[t].word} \cup DataWords :
              client' = [client EXCEPT ![t].pc = IF client[t].pc = "read" THEN "recv" ELSE "close",
                                       ![t].word = w]
        BY <3>3 DEF sock!Read
      <4>. QED BY <3>1, <4>1, SocketConstants
    <3>. QED BY <3>2, <3>3
  <2>2. client' = [client EXCEPT ![t] = [client[t] EXCEPT !.pc = pc, !.word = w]]
    BY <1>2, <2>1 DEF ClientRec
  <2>3. [client[t] EXCEPT !.pc = pc, !.word = w] \in ClientRec
    BY <1>2 DEF ClientRec
  <2>. QED BY <1>2, <2>2, <2>3
<1>4. /\ pcbs' \in [sock!Pcbs -> PcbRec]
      /\ \A p \in sock!Pcbs : /\ pcbs'[p].rx =< pcbs'[p].sent
                              /\ pcbs'[p].in_use = pcbs[p].in_use /\ pcbs'[p].port = pcbs[p].port
                              /\ pcbs'[p].arg = pcbs[p].arg /\ pcbs'[p].conn = pcbs[p].conn
  <2>1. CASE sk = sock!NULL
    <3>1. pcbs' = pcbs
      BY <2>1 DEF sock!Read
    <3>. QED BY <1>2, <3>1
  <2>2. CASE sk # sock!NULL
    <3>1. sk \in sock!Fds /\ sockets[sk].used
      BY <2>2 DEF sock!lookup_socket
    <3>2. PICK q \in sock!Pcbs : q = sockets[sk].tcp_pcb
      BY <1>0, <3>1 DEF Owners
    <3>3. pcbs' = [pcbs EXCEPT ![q].rx = pcbs[q].rx - sock!Min({pcbs[q].rx, sock_ReadMax})]
      BY <1>2, <2>2, <3>2 DEF sock!Read
    <3>4. pcbs[q] \in PcbRec /\ pcbs[q].rx \in 0 .. sock_MaxData /\ pcbs[q].sent \in 0 .. sock_MaxData
      BY <1>2, <3>2 DEF PcbRec
    <3>5. sock!Min({pcbs[q].rx, sock_ReadMax}) \in Nat /\ sock!Min({pcbs[q].rx, sock_ReadMax}) =< pcbs[q].rx
      <4>1. \E x \in {pcbs[q].rx, sock_ReadMax} : \A y \in {pcbs[q].rx, sock_ReadMax} : x =< y
        BY <3>4, SocketConstants
      <4>. QED BY <3>4, <4>1, SocketConstants DEF sock!Min
    <3>6. PICK r \in 0 .. sock_MaxData : r =< pcbs[q].sent /\ pcbs' = [pcbs EXCEPT ![q] = [pcbs[q] EXCEPT !.rx = r]]
      <4>1. pcbs[q].rx - sock!Min({pcbs[q].rx, sock_ReadMax}) \in 0 .. sock_MaxData
        BY <3>4, <3>5, SocketConstants
      <4>2. pcbs[q].rx - sock!Min({pcbs[q].rx, sock_ReadMax}) =< pcbs[q].sent
        BY <1>2, <3>4, <3>5, SocketConstants
      <4>. QED BY <1>2, <3>3, <4>1, <4>2
    <3>7. [pcbs[q] EXCEPT !.rx = r] \in PcbRec
      BY <3>4, <3>6 DEF PcbRec
    <3>8. /\ pcbs' \in [sock!Pcbs -> PcbRec] /\ pcbs'[q] = [pcbs[q] EXCEPT !.rx = r]
          /\ \A p \in sock!Pcbs \ {q} : pcbs'[p] = pcbs[p]
      BY <1>2, <3>6, <3>7
    <3>9. /\ pcbs'[q].rx = r /\ pcbs'[q].sent = pcbs[q].sent
          /\ pcbs'[q].in_use = pcbs[q].in_use /\ pcbs'[q].port = pcbs[q].port
          /\ pcbs'[q].arg = pcbs[q].arg /\ pcbs'[q].conn = pcbs[q].conn
      BY <3>4, <3>8 DEF PcbRec
    <3>. QED BY <1>2, <3>6, <3>8, <3>9
  <2>. QED BY <2>1, <2>2
<1>5. Linked' /\ Owners'
  BY <1>0, <1>1, <1>4, LinksKept
<1>6. MessagesOwn'
  BY <1>0, <1>1 DEF MessagesOwn
<1>7. sock!NoOrphans'
  <2>. SUFFICES ASSUME NEW s \in sock!Fds, sockets[s].used
                PROVE  client'[sockets[s].task].pc # "dead" \/ sockets[s].task \in destroyed
    BY <1>1 DEF sock!NoOrphans
  <2>. QED BY <1>0, <1>3, OwnerIsTask DEF sock!NoOrphans
<1>8. SocketTypes'
  BY <1>0, <1>1, <1>3, <1>4 DEF SocketTypes
<1>. QED BY <1>5, <1>6, <1>7, <1>8 DEF SocketsInv

\* TCPIP_CLOSE_MSG and TASK_DESTROYED_MSG: the sockets of S, which are used, and their control
\* blocks are freed.
LEMMA FreeKept ==
    ASSUME SocketsInv, server = "up", NEW S \in SUBSET sock!Fds, \A s \in S : sockets[s].used,
           sock!free_sockets(S), UNCHANGED <<server, async_messages, opener>>,
           client' \in [sock_Tasks -> ClientRec], destroyed' \subseteq sock_Tasks,
           \A s \in sock!Fds \ S : sockets[s].used =>
               /\ client'[sockets[s].task].pc = "dead" => client[sockets[s].task].pc = "dead"
               /\ sockets[s].task \in destroyed => sockets[s].task \in destroyed'
    PROVE  SocketsInv'
<1>. DEFINE closed == {sockets[s].tcp_pcb : s \in S}
<1>0. SocketTypes /\ Linked /\ Owners /\ MessagesOwn /\ sock!NoOrphans
  BY DEF SocketsInv
<1>1. /\ sockets \in [sock!Fds -> SocketRec] /\ pcbs \in [sock!Pcbs -> PcbRec]
      /\ \A p \in sock!Pcbs : pcbs[p].rx =< pcbs[p].sent
      /\ sock_active_pcbs \subseteq sock!Pcbs
  BY <1>0 DEF SocketTypes
<1>2. /\ sockets' = [s \in sock!Fds |-> IF s \in S THEN [sockets[s] EXCEPT !.used = FALSE] ELSE sockets[s]]
      /\ pcbs' = [p \in sock!Pcbs |-> IF p \in closed THEN [pcbs[p] EXCEPT !.in_use = FALSE, !.rx = 0]
                                                      ELSE pcbs[p]]
      /\ sock_active_pcbs' = sock_active_pcbs \ closed
  BY DEF sock!free_sockets
<1>. HIDE DEF closed
<1>3. \A s \in sock!Fds : /\ s \in S => sockets'[s] = [sockets[s] EXCEPT !.used = FALSE]
                          /\ s \notin S => sockets'[s] = sockets[s]
  BY <1>2
<1>4. \A p \in sock!Pcbs : /\ p \in closed => pcbs'[p] = [pcbs[p] EXCEPT !.in_use = FALSE, !.rx = 0]
                           /\ p \notin closed => pcbs'[p] = pcbs[p]
  BY <1>2
<1>5. ASSUME NEW s \in sock!Fds
      PROVE  /\ sockets'[s] \in SocketRec /\ (sockets'[s].used <=> sockets[s].used /\ s \notin S)
             /\ sockets'[s].task = sockets[s].task /\ sockets'[s].tcp_pcb = sockets[s].tcp_pcb
  <2>1. sockets[s] \in SocketRec
    BY <1>1
  <2>2. CASE s \in S
    BY <1>3, <2>1, <2>2 DEF SocketRec
  <2>3. CASE s \notin S
    BY <1>3, <2>1, <2>3
  <2>. QED BY <2>2, <2>3
<1>6. ASSUME NEW p \in sock!Pcbs
      PROVE  /\ pcbs'[p] \in PcbRec /\ (pcbs'[p].in_use <=> pcbs[p].in_use /\ p \notin closed)
             /\ pcbs'[p].port = pcbs[p].port /\ pcbs'[p].arg = pcbs[p].arg
             /\ pcbs'[p].conn = pcbs[p].conn /\ pcbs'[p].rx =< pcbs'[p].sent
  <2>1. pcbs[p] \in PcbRec /\ pcbs[p].rx =< pcbs[p].sent
    BY <1>1
  <2>2. CASE p \in closed
    <3>1. 0 \in 0 .. sock_MaxData /\ pcbs[p].sent \in 0 .. sock_MaxData
      BY <2>1, SocketConstants DEF PcbRec
    <3>2. pcbs'[p] = [pcbs[p] EXCEPT !.in_use = FALSE, !.rx = 0]
      BY <1>4, <2>2
    <3>3. pcbs'[p] \in PcbRec
      BY <2>1, <3>1, <3>2 DEF PcbRec
    <3>4. /\ ~pcbs'[p].in_use /\ pcbs'[p].rx = 0 /\ pcbs'[p].port = pcbs[p].port
          /\ pcbs'[p].arg = pcbs[p].arg /\ pcbs'[p].conn = pcbs[p].conn /\ pcbs'[p].sent = pcbs[p].sent
      BY <2>1, <3>2 DEF PcbRec
    <3>. QED BY <2>2, <3>1, <3>3, <3>4
  <2>3. CASE p \notin closed
    BY <1>4, <2>1, <2>3
  <2>. QED BY <2>2, <2>3
<1>7. \A s \in sock!Fds : sockets[s].used => (sockets[s].tcp_pcb \in closed <=> s \in S)
  <2>. SUFFICES ASSUME NEW s \in sock!Fds, sockets[s].used, sockets[s].tcp_pcb \in closed PROVE s \in S
    BY DEF closed
  <2>1. PICK r \in S : sockets[r].tcp_pcb = sockets[s].tcp_pcb
    BY DEF closed
  <2>. QED BY <1>0, <2>1 DEF Linked
<1>8. SocketTypes'
  <2>1. sockets' \in [sock!Fds -> SocketRec]
    BY <1>2, <1>5
  <2>2. pcbs' \in [sock!Pcbs -> PcbRec] /\ \A p \in sock!Pcbs : pcbs'[p].rx =< pcbs'[p].sent
    BY <1>2, <1>6
  <2>3. sock_active_pcbs' \subseteq sock!Pcbs
    BY <1>1, <1>2
  <2>. QED BY <1>0, <2>1, <2>2, <2>3 DEF SocketTypes
<1>9. Linked'
  <2>1. \A p \in sock!Pcbs : pcbs'[p].in_use <=> p \in sock_active_pcbs'
    BY <1>0, <1>2, <1>6 DEF Linked
  <2>2. ASSUME NEW s \in sock!Fds, sockets'[s].used
        PROVE  /\ sockets'[s].tcp_pcb \in sock!Pcbs /\ pcbs'[sockets'[s].tcp_pcb].in_use
               /\ pcbs'[sockets'[s].tcp_pcb].arg = s
    <3>1. /\ sockets[s].used /\ s \notin S /\ sockets'[s].tcp_pcb = sockets[s].tcp_pcb
      BY <1>5, <2>2
    <3>2. /\ sockets[s].tcp_pcb \in sock!Pcbs /\ pcbs[sockets[s].tcp_pcb].in_use
          /\ pcbs[sockets[s].tcp_pcb].arg = s /\ sockets[s].tcp_pcb \notin closed
      BY <1>0, <1>7, <3>1 DEF Linked
    <3>. QED BY <1>6, <3>1, <3>2
  <2>3. ASSUME NEW p \in sock!Pcbs, pcbs'[p].in_use
        PROVE  /\ pcbs'[p].arg \in sock!Fds /\ sockets'[pcbs'[p].arg].used
               /\ sockets'[pcbs'[p].arg].tcp_pcb = p
    <3>1. pcbs[p].in_use /\ p \notin closed /\ pcbs'[p].arg = pcbs[p].arg
      BY <1>6, <2>3
    <3>2. /\ pcbs[p].arg \in sock!Fds /\ sockets[pcbs[p].arg].used /\ sockets[pcbs[p].arg].tcp_pcb = p
          /\ pcbs[p].arg \notin S
      BY <1>0, <1>7, <3>1 DEF Linked
    <3>. QED BY <1>5, <3>1, <3>2
  <2>4. \A p, q \in sock!Pcbs :
          pcbs'[p].in_use /\ pcbs'[q].in_use /\ pcbs'[p].port = pcbs'[q].port => p = q
    <3>1. \A p, q \in sock!Pcbs :
            pcbs[p].in_use /\ pcbs[q].in_use /\ pcbs[p].port = pcbs[q].port => p = q
      BY <1>0 DEF Linked
    <3>. QED BY <1>6, <3>1
  <2>. QED BY <2>1, <2>2, <2>3, <2>4 DEF Linked
<1>10. Owners'
  <2>. SUFFICES ASSUME NEW s \in sock!Fds, sockets'[s].used
                PROVE  /\ sockets'[s].tcp_pcb \in sock!Pcbs
                       /\ pcbs'[sockets'[s].tcp_pcb].conn \in 1 .. Len(opener)
                       /\ opener[pcbs'[sockets'[s].tcp_pcb].conn] = sockets'[s].task
    BY DEF Owners
  <2>1. /\ sockets[s].used /\ sockets'[s].task = sockets[s].task
        /\ sockets'[s].tcp_pcb = sockets[s].tcp_pcb
    BY <1>5
  <2>2. /\ sockets[s].tcp_pcb \in sock!Pcbs
        /\ pcbs[sockets[s].tcp_pcb].conn \in 1 .. Len(opener)
        /\ opener[pcbs[sockets[s].tcp_pcb].conn] = sockets[s].task
    BY <1>0, <2>1 DEF Owners
  <2>3. pcbs'[sockets[s].tcp_pcb].conn = pcbs[sockets[s].tcp_pcb].conn
    BY <1>6, <2>2
  <2>. QED BY <2>1, <2>2, <2>3
<1>11. MessagesOwn'
  BY <1>0 DEF MessagesOwn
<1>12. sock!NoOrphans'
  BY <1>0, <1>5 DEF sock!NoOrphans
<1>. QED BY <1>8, <1>9, <1>10, <1>11, <1>12 DEF SocketsInv

\* Both of them.
LEMMA ClosesKept ==
    ASSUME SocketsInv, NEW t \in sock_Tasks, sock!Close(t) \/ sock!do_task_destroyed(t)
    PROVE  SocketsInv'
<1>0. SocketTypes /\ Owners
  BY DEF SocketsInv
<1>1. client \in [sock_Tasks -> ClientRec] /\ destroyed \subseteq sock_Tasks
  BY <1>0 DEF SocketTypes
<1>2. CASE sock!Close(t)
  <2>. DEFINE S == {sock!lookup_socket(t, client[t].word)} \ {sock!NULL}
  <2>1. S \in SUBSET sock!Fds /\ \A s \in S : sockets[s].used
    BY DEF sock!lookup_socket
  <2>2. /\ server = "up" /\ sock!free_sockets(S) /\ client' = [client EXCEPT ![t] = sock!Idle]
        /\ UNCHANGED <<server, async_messages, destroyed, opener>>
    BY <1>2 DEF sock!Close
  <2>. HIDE DEF S
  <2>3. sock!Idle \in ClientRec /\ sock!Idle.pc # "dead"
    BY DEF sock!Idle, ClientRec, sock!NULL, UrlHosts
  <2>4. /\ client' \in [sock_Tasks -> ClientRec]
        /\ \A u \in sock_Tasks : client'[u].pc = "dead" => client[u].pc = "dead"
    BY <1>1, <2>2, <2>3
  <2>. QED BY <1>0, <1>1, <2>1, <2>2, <2>4, OwnerIsTask, FreeKept
<1>3. CASE sock!do_task_destroyed(t)
  <2>1. /\ sock!Owned(t) \in SUBSET sock!Fds /\ \A s \in sock!Owned(t) : sockets[s].used
        /\ \A s \in sock!Fds \ sock!Owned(t) : sockets[s].used => sockets[s].task # t
    BY DEF sock!Owned
  <2>2. /\ server = "up" /\ sock!free_sockets(sock!Owned(t)) /\ destroyed' = destroyed \ {t}
        /\ UNCHANGED <<server, async_messages, client, opener>>
    BY <1>3 DEF sock!do_task_destroyed
  <2>3. \A s \in sock!Fds \ sock!Owned(t) : sockets[s].used =>
          /\ client'[sockets[s].task].pc = "dead" => client[sockets[s].task].pc = "dead"
          /\ sockets[s].task \in destroyed => sockets[s].task \in destroyed'
    BY <2>1, <2>2
  <2>. QED BY <1>1, <2>1, <2>2, <2>3, FreeKept
<1>. QED BY <1>2, <1>3

\* TCPIP_CONNECT_MSG: a control block and a port are found, whether a socket is or not.
LEMMA ConnectKept ==
    ASSUME SocketsInv, NEW t \in sock_Tasks, sock!Connect(t)
    PROVE  SocketsInv'
<1>0. SocketTypes /\ Linked /\ Owners /\ MessagesOwn /\ sock!NoOrphans /\ server = "up" /\ client[t].pc = "connect"
  BY DEF SocketsInv, sock!Connect
<1>1. /\ sockets \in [sock!Fds -> SocketRec] /\ pcbs \in [sock!Pcbs -> PcbRec]
      /\ \A p \in sock!Pcbs : pcbs[p].rx =< pcbs[p].sent
      /\ sock_active_pcbs \subseteq sock!Pcbs /\ opener \in Seq(sock_Tasks)
      /\ client \in [sock_Tasks -> ClientRec] /\ client[t] \in ClientRec
  BY <1>0 DEF SocketTypes
<1>2. PICK b \in sock!Pcbs : b = sock!tcp_new /\ ~pcbs[b].in_use
  BY <1>0, TablesLast
<1>3. PICK port \in Ports : /\ port = sock!Min({q \in Ports : sock!tcp_lookup_local(q) = {}})
                            /\ \A p \in sock_active_pcbs : pcbs[p].port # port
  BY <1>0, TablesLast
<1>4. PICK sk \in {0} \cup sock!Fds : sk = sock!alloc_socket /\ (sk # 0 => ~sockets[sk].used)
  <2>. DEFINE F == {s \in sock!Fds : ~sockets[s].used}
  <2>1. CASE F = {}
    BY <2>1 DEF sock!alloc_socket, sock!First, sock!NULL
  <2>2. CASE F # {}
    <3>1. F \in SUBSET Nat
      BY SocketConstants
    <3>2. sock!Min(F) \in F
      BY <2>2, <3>1, LeastNatural
    <3>. QED BY <2>2, <3>2 DEF sock!alloc_socket, sock!First
  <2>. QED BY <2>1, <2>2
<1>5. PICK n \in 1 .. sock_MaxConnects : n = Len(opener) + 1
  BY <1>1, SocketConstants DEF sock!Connect
<1>6. PICK new \in PcbRec : /\ pcbs' = [pcbs EXCEPT ![b] = new]
                            /\ new.in_use /\ new.port = port /\ new.arg = sk /\ new.conn = n
                            /\ new.rx = 0 /\ new.sent = 0
  <2>. DEFINE new == [sock!FreePcb EXCEPT !.in_use = TRUE, !.state = "SYN_SENT", !.port = port,
                                          !.remote = sock!parse_ipaddr(client[t].url), !.arg = sk,
                                          !.conn = n]
  <2>1. sock!parse_ipaddr(client[t].url) \in Remotes
    BY <1>1 DEF ClientRec, Remotes
  <2>2. new \in PcbRec
    <3>1. 0 \in 0 .. sock_MaxData /\ n \in 0 .. sock_MaxConnects
      BY <1>5, SocketConstants
    <3>. QED BY <2>1, <3>1 DEF PcbRec, sock!FreePcb
  <2>3. /\ new.in_use /\ new.port = port /\ new.arg = sk /\ new.conn = n
        /\ new.rx = 0 /\ new.sent = 0
    BY DEF sock!FreePcb
  <2>4. pcbs' = [pcbs EXCEPT ![b] = new]
    BY <1>2, <1>3, <1>4, <1>5 DEF sock!Connect
  <2>. HIDE DEF new
  <2>. QED BY <2>2, <2>3, <2>4
<1>7. /\ sock_active_pcbs' = sock_active_pcbs \cup {b} /\ opener' = Append(opener, t)
      /\ UNCHANGED <<async_messages, destroyed>>
  BY <1>2 DEF sock!Connect
<1>8. \/ /\ sk # 0 /\ server' = "up"
         /\ sockets' = [sockets EXCEPT ![sk] = [used |-> TRUE, task |-> t, tcp_pcb |-> b]]
         /\ client' = [client EXCEPT ![t] = [client[t] EXCEPT !.pc = "write", !.sock = sk]]
      \/ /\ sk = 0 /\ server' = "dead" /\ UNCHANGED <<sockets, client>>
  <2>1. \/ /\ sk # 0 /\ server' = "up"
           /\ sockets' = [sockets EXCEPT ![sk] = [used |-> TRUE, task |-> t, tcp_pcb |-> b]]
           /\ client' = [client EXCEPT ![t].pc = "write", ![t].sock = sk]
        \/ /\ sk = 0 /\ server' = "dead" /\ UNCHANGED <<sockets, client>>
    BY <1>0, <1>2, <1>4 DEF sock!Connect, sock!NULL
  <2>. QED BY <1>1, <2>1 DEF ClientRec
<1>9. /\ pcbs' \in [sock!Pcbs -> PcbRec] /\ pcbs'[b] = new
      /\ \A p \in sock!Pcbs \ {b} : pcbs'[p] = pcbs[p]
  BY <1>1, <1>6
<1>10. /\ opener' \in Seq(sock_Tasks) /\ Len(opener') = n /\ Len(opener) = n - 1 /\ opener'[n] = t
       /\ \A i \in 1 .. n - 1 : opener'[i] = opener[i]
  BY <1>1, <1>5, <1>7
<1>11. /\ client' \in [sock_Tasks -> ClientRec]
       /\ \A u \in sock_Tasks : client'[u].pc = "dead" => client[u].pc = "dead"
  <2>1. [client[t] EXCEPT !.pc = "write", !.sock = sk] \in ClientRec
    BY <1>1, <1>4 DEF ClientRec
  <2>2. [client[t] EXCEPT !.pc = "write", !.sock = sk].pc # "dead"
    BY <1>1 DEF ClientRec
  <2>. QED BY <1>1, <1>8, <2>1, <2>2
<1>12. /\ sockets' \in [sock!Fds -> SocketRec]
       /\ \A s \in sock!Fds : s # sk => sockets'[s] = sockets[s]
       /\ sk \in sock!Fds => sockets'[sk].used /\ sockets'[sk].task = t /\ sockets'[sk].tcp_pcb = b
  <2>. DEFINE row == [used |-> TRUE, task |-> t, tcp_pcb |-> b]
  <2>1. row \in SocketRec /\ row.used /\ row.task = t /\ row.tcp_pcb = b
    BY DEF SocketRec
  <2>2. \/ sk \in sock!Fds /\ sockets' = [sockets EXCEPT ![sk] = row]
        \/ sk = 0 /\ sk \notin sock!Fds /\ sockets' = sockets
    BY <1>4, <1>8, SocketConstants
  <2>. HIDE DEF row
  <2>3. CASE sk \in sock!Fds /\ sockets' = [sockets EXCEPT ![sk] = row]
    BY <1>1, <2>1, <2>3
  <2>4. CASE sk = 0 /\ sk \notin sock!Fds /\ sockets' = sockets
    BY <1>1, <2>4
  <2>. QED BY <2>2, <2>3, <2>4
<1>13. SocketTypes'
  <2>1. \A p \in sock!Pcbs : pcbs'[p].rx =< pcbs'[p].sent
    BY <1>1, <1>6, <1>9
  <2>2. sock_active_pcbs' \subseteq sock!Pcbs /\ server' \in {"up", "dead"}
    BY <1>1, <1>7, <1>8
  <2>. QED BY <1>0, <1>7, <1>9, <1>10, <1>11, <1>12, <2>1, <2>2 DEF SocketTypes
<1>14. Linked'
  <2>. SUFFICES ASSUME server' = "up", sk # 0
                PROVE  Linked'
    BY <1>8 DEF Linked
  <2>0. sk \in sock!Fds /\ ~sockets[sk].used
    BY <1>4
  <2>1. \A p \in sock!Pcbs : pcbs'[p].in_use <=> p \in sock_active_pcbs'
    <3>1. \A p \in sock!Pcbs : pcbs[p].in_use <=> p \in sock_active_pcbs
      BY <1>0 DEF Linked
    <3>. QED BY <1>6, <1>7, <1>9, <3>1
  <2>2. ASSUME NEW s \in sock!Fds, sockets'[s].used
        PROVE  /\ sockets'[s].tcp_pcb \in sock!Pcbs /\ pcbs'[sockets'[s].tcp_pcb].in_use
               /\ pcbs'[sockets'[s].tcp_pcb].arg = s
    <3>1. CASE s = sk
      BY <1>6, <1>9, <1>12, <2>0, <3>1
    <3>2. CASE s # sk
      <4>1. sockets'[s] = sockets[s]
        BY <1>12, <3>2
      <4>2. /\ sockets[s].tcp_pcb \in sock!Pcbs /\ pcbs[sockets[s].tcp_pcb].in_use
            /\ pcbs[sockets[s].tcp_pcb].arg = s
        BY <1>0, <2>2, <4>1 DEF Linked
      <4>3. sockets[s].tcp_pcb # b
        BY <1>2, <4>2
      <4>. QED BY <1>9, <4>1, <4>2, <4>3
    <3>. QED BY <3>1, <3>2
  <2>3. ASSUME NEW p \in sock!Pcbs, pcbs'[p].in_use
        PROVE  /\ pcbs'[p].arg \in sock!Fds /\ sockets'[pcbs'[p].arg].used
               /\ sockets'[pcbs'[p].arg].tcp_pcb = p
    <3>1. CASE p = b
      BY <1>6, <1>9, <1>12, <2>0, <3>1
    <3>2. CASE p # b
      <4>1. pcbs'[p] = pcbs[p]
        BY <1>9, <3>2
      <4>2. pcbs[p].arg \in sock!Fds /\ sockets[pcbs[p].arg].used /\ sockets[pcbs[p].arg].tcp_pcb = p
        BY <1>0, <2>3, <4>1 DEF Linked
      <4>3. pcbs[p].arg # sk
        BY <2>0, <4>2
      <4>. QED BY <1>12, <4>1, <4>2, <4>3
    <3>. QED BY <3>1, <3>2
  <2>4. ASSUME NEW p \in sock!Pcbs, NEW q \in sock!Pcbs, pcbs'[p].in_use, pcbs'[q].in_use,
               pcbs'[p].port = pcbs'[q].port
        PROVE  p = q
    <3>1. \A r \in sock!Pcbs \ {b} : pcbs'[r].in_use => pcbs'[r].port # port
      BY <1>0, <1>3, <1>9 DEF Linked
    <3>2. CASE p = b \/ q = b
      BY <1>6, <1>9, <2>4, <3>1, <3>2
    <3>3. CASE p # b /\ q # b
      BY <1>0, <1>9, <2>4, <3>3 DEF Linked
    <3>. QED BY <3>2, <3>3
  <2>. QED BY <2>1, <2>2, <2>3, <2>4 DEF Linked
<1>15. Owners'
  <2>. SUFFICES ASSUME NEW s \in sock!Fds, sockets'[s].used
                PROVE  /\ sockets'[s].tcp_pcb \in sock!Pcbs
                       /\ pcbs'[sockets'[s].tcp_pcb].conn \in 1 .. Len(opener')
                       /\ opener'[pcbs'[sockets'[s].tcp_pcb].conn] = sockets'[s].task
    BY DEF Owners
  <2>1. CASE s = sk
    <3>1. sockets'[s].tcp_pcb = b /\ sockets'[s].task = t /\ pcbs'[b].conn = n
      BY <1>6, <1>9, <1>12, <2>1
    <3>. QED BY <1>5, <1>10, <3>1
  <2>2. CASE s # sk
    <3>1. sockets'[s] = sockets[s]
      BY <1>12, <2>2
    <3>2. /\ sockets[s].tcp_pcb \in sock!Pcbs /\ pcbs[sockets[s].tcp_pcb].in_use
          /\ pcbs[sockets[s].tcp_pcb].conn \in 1 .. n - 1
          /\ opener[pcbs[sockets[s].tcp_pcb].conn] = sockets[s].task
      BY <1>0, <1>10, <3>1 DEF Linked, Owners
    <3>3. pcbs'[sockets[s].tcp_pcb] = pcbs[sockets[s].tcp_pcb]
      BY <1>2, <1>9, <3>2
    <3>. QED BY <1>5, <1>10, <3>1, <3>2, <3>3
  <2>. QED BY <2>1, <2>2
<1>16. MessagesOwn'
  <2>. SUFFICES ASSUME NEW u \in sock_Tasks, NEW i \in 1 .. Len(async_messages[u])
                PROVE  /\ async_messages[u][i].conn \in 1 .. Len(opener')
                       /\ opener'[async_messages[u][i].conn] = u
    BY <1>7 DEF MessagesOwn
  <2>1. async_messages[u][i].conn \in 1 .. n - 1 /\ opener[async_messages[u][i].conn] = u
    BY <1>0, <1>10 DEF MessagesOwn
  <2>. QED BY <1>5, <1>10, <2>1
<1>17. sock!NoOrphans'
  <2>. SUFFICES ASSUME NEW s \in sock!Fds, sockets'[s].used
                PROVE  client'[sockets'[s].task].pc # "dead" \/ sockets'[s].task \in destroyed
    BY <1>7 DEF sock!NoOrphans
  <2>1. CASE s = sk
    BY <1>0, <1>11, <1>12, <2>1
  <2>2. CASE s # sk
    <3>1. sockets'[s] = sockets[s]
      BY <1>12, <2>2
    <3>. QED BY <1>0, <1>11, <3>1, OwnerIsTask DEF sock!NoOrphans
  <2>. QED BY <2>1, <2>2
<1>. QED BY <1>13, <1>14, <1>15, <1>16, <1>17 DEF SocketsInv

\* A segment: the message goes to the task that has asked for the connection.
LEMMA SegmentKept ==
    ASSUME SocketsInv, NEW p \in sock!Pcbs, sock!Segment(p)
    PROVE  SocketsInv'
<1>0. SocketTypes /\ Linked /\ Owners /\ MessagesOwn /\ sock!NoOrphans
  BY DEF SocketsInv
<1>1. /\ pcbs \in [sock!Pcbs -> PcbRec] /\ pcbs[p] \in PcbRec /\ pcbs[p].rx =< pcbs[p].sent
      /\ async_messages \in [sock_Tasks -> Seq(MsgRec)] /\ opener \in Seq(sock_Tasks)
  BY <1>0 DEF SocketTypes
<1>2. /\ UNCHANGED <<sockets, sock_active_pcbs, server, destroyed, client, opener>>
      /\ server = "up" /\ p \in sock_active_pcbs
  BY DEF sock!Segment, sock!SynAck, sock!Fin, sock!Rst, sock!Data, sock!OfServer
<1>3. PICK state \in {"CLOSED", "SYN_SENT", "ESTABLISHED"}, over \in BOOLEAN,
           rx \in 0 .. sock_MaxData, sent1 \in 0 .. sock_MaxData :
        /\ rx =< sent1
        /\ pcbs' = [pcbs EXCEPT ![p] = [pcbs[p] EXCEPT !.state = state, !.over = over, !.rx = rx,
                                                       !.sent = sent1]]
  <2>. DEFINE r == pcbs[p]
              Is(state, over, rx, sent1) ==
                /\ rx \in 0 .. sock_MaxData /\ sent1 \in 0 .. sock_MaxData /\ rx =< sent1
                /\ pcbs' = [pcbs EXCEPT ![p] = [pcbs[p] EXCEPT !.state = state, !.over = over,
                                                               !.rx = rx, !.sent = sent1]]
  <2>0. /\ r.state \in {"CLOSED", "SYN_SENT", "ESTABLISHED"} /\ r.over \in BOOLEAN
        /\ r.rx \in 0 .. sock_MaxData /\ r.sent \in 0 .. sock_MaxData
    BY <1>1 DEF PcbRec
  <2>1. CASE sock!SynAck(p)
    <3>1. Is("ESTABLISHED", r.over, r.rx, r.sent)
      BY <1>1, <2>0, <2>1 DEF sock!SynAck, PcbRec
    <3>. QED BY <2>0, <3>1
  <2>2. CASE sock!Fin(p)
    <3>1. Is("CLOSED", TRUE, r.rx, r.sent)
      BY <1>1, <2>0, <2>2 DEF sock!Fin, PcbRec
    <3>. QED BY <2>0, <3>1
  <2>3. CASE sock!Rst(p)
    <3>1. Is(r.state, TRUE, r.rx, r.sent)
      BY <1>1, <2>0, <2>3 DEF sock!Rst, PcbRec
    <3>. QED BY <2>0, <3>1
  <2>4. CASE \E n \in 1 .. SegmentMax : sock!Data(p, n)
    <3>0. PICK n \in 1 .. SegmentMax : sock!Data(p, n)
      BY <2>4
    <3>1. r.sent + n =< sock_MaxData /\ n \in Nat
      BY <3>0, SocketConstants DEF sock!Data
    <3>2. r.rx + n \in 0 .. sock_MaxData /\ r.sent + n \in 0 .. sock_MaxData /\ r.rx + n =< r.sent + n
      BY <1>1, <2>0, <3>1, SocketConstants
    <3>3. pcbs' = [pcbs EXCEPT ![p].rx = r.rx + n, ![p].sent = r.sent + n]
      BY <1>1, <3>0 DEF sock!Data
    <3>4. [pcbs[p] EXCEPT !.rx = r.rx + n, !.sent = r.sent + n]
            = [pcbs[p] EXCEPT !.state = r.state, !.over = r.over, !.rx = r.rx + n, !.sent = r.sent + n]
      BY <1>1 DEF PcbRec
    <3>5. pcbs' = [pcbs EXCEPT ![p] = [pcbs[p] EXCEPT !.rx = r.rx + n, !.sent = r.sent + n]]
      BY <1>1, <3>3 DEF PcbRec
    <3>6. pcbs' = [pcbs EXCEPT ![p] = [pcbs[p] EXCEPT !.state = r.state, !.over = r.over,
                                                      !.rx = r.rx + n, !.sent = r.sent + n]]
      BY <3>4, <3>5
    <3>7. Is(r.state, r.over, r.rx + n, r.sent + n)
      BY <3>2, <3>6
    <3>. QED BY <2>0, <3>7
  <2>. QED BY <1>2, <2>1, <2>2, <2>3, <2>4 DEF sock!Segment
<1>4. /\ pcbs' \in [sock!Pcbs -> PcbRec]
      /\ \A q \in sock!Pcbs : /\ pcbs'[q].rx =< pcbs'[q].sent
                              /\ pcbs'[q].in_use = pcbs[q].in_use /\ pcbs'[q].port = pcbs[q].port
                              /\ pcbs'[q].arg = pcbs[q].arg /\ pcbs'[q].conn = pcbs[q].conn
  <2>. DEFINE r1 == [pcbs[p] EXCEPT !.state = state, !.over = over, !.rx = rx, !.sent = sent1]
  <2>1. /\ r1 \in PcbRec /\ r1.rx = rx /\ r1.sent = sent1 /\ r1.in_use = pcbs[p].in_use
        /\ r1.port = pcbs[p].port /\ r1.arg = pcbs[p].arg /\ r1.conn = pcbs[p].conn
    BY <1>1, <1>3 DEF PcbRec
  <2>. HIDE DEF r1
  <2>2. pcbs' = [pcbs EXCEPT ![p] = r1]
    BY <1>3 DEF r1
  <2>3. \A q \in sock!Pcbs : pcbs[q].rx =< pcbs[q].sent
    BY <1>0 DEF SocketTypes
  <2>. QED BY <1>1, <1>3, <2>1, <2>2, <2>3
<1>5. Linked' /\ Owners'
  BY <1>0, <1>2, <1>4, LinksKept
<1>6. async_messages' \in [sock_Tasks -> Seq(MsgRec)] /\ MessagesOwn'
  <2>1. PICK sk \in sock!Fds : sk = pcbs[p].arg /\ sockets[sk].used /\ sockets[sk].tcp_pcb = p
    BY <1>0, <1>2 DEF Linked
  <2>2. PICK t \in sock_Tasks : t = sockets[sk].task
    BY <1>0, <2>1, OwnerIsTask
  <2>3. pcbs[p].conn \in 1 .. Len(opener) /\ opener[pcbs[p].conn] = t
    BY <1>0, <2>1, <2>2 DEF Owners
  <2>4. CASE async_messages' = async_messages
    BY <1>0, <1>1, <1>2, <2>4 DEF MessagesOwn
  <2>5. ASSUME NEW type \in {"DATA", "CLOSED"}, async_messages' = sock!Callback(p, type)
        PROVE  async_messages' \in [sock_Tasks -> Seq(MsgRec)] /\ MessagesOwn'
    <3>. DEFINE m == [type |-> type, sock |-> sk, conn |-> pcbs[p].conn]
    <3>1. m \in MsgRec
      BY <1>1, <2>3, SocketConstants DEF MsgRec
    <3>2. async_messages' = [async_messages EXCEPT ![t] = Append(async_messages[t], m)]
      BY <2>1, <2>2, <2>5 DEF sock!Callback
    <3>3. m.conn = pcbs[p].conn
      OBVIOUS
    <3>. HIDE DEF m
    <3>4. PICK q \in Seq(MsgRec) : q = async_messages[t]
      BY <1>1
    <3>5. /\ Append(q, m) \in Seq(MsgRec) /\ Len(Append(q, m)) = Len(q) + 1 /\ Len(q) \in Nat
          /\ Append(q, m)[Len(q) + 1] = m /\ \A i \in 1 .. Len(q) : Append(q, m)[i] = q[i]
      BY <3>1, <3>4
    <3>6. /\ async_messages' \in [sock_Tasks -> Seq(MsgRec)] /\ async_messages'[t] = Append(q, m)
          /\ \A u \in sock_Tasks \ {t} : async_messages'[u] = async_messages[u]
      BY <1>1, <3>2, <3>4, <3>5
    <3>7. ASSUME NEW u \in sock_Tasks, NEW i \in 1 .. Len(async_messages'[u])
          PROVE  /\ async_messages'[u][i].conn \in 1 .. Len(opener)
                 /\ opener[async_messages'[u][i].conn] = u
      <4>1. CASE u # t
        BY <1>0, <3>6, <4>1 DEF MessagesOwn
      <4>2. CASE u = t /\ i = Len(q) + 1
        <5>1. async_messages'[u][i] = m
          BY <3>5, <3>6, <4>2
        <5>. QED BY <2>3, <3>3, <4>2, <5>1
      <4>3. CASE u = t /\ i \in 1 .. Len(q)
        <5>1. async_messages'[u][i] = async_messages[u][i]
          BY <3>4, <3>5, <3>6, <4>3
        <5>. QED BY <1>0, <3>4, <4>3, <5>1 DEF MessagesOwn
      <4>4. u = t => i = Len(q) + 1 \/ i \in 1 .. Len(q)
        BY <3>5, <3>6
      <4>. QED BY <4>1, <4>2, <4>3, <4>4
    <3>8. MessagesOwn'
      BY <1>2, <3>7 DEF MessagesOwn
    <3>. QED BY <3>6, <3>8
  <2>6. \/ async_messages' = async_messages
        \/ \E type \in {"DATA", "CLOSED"} : async_messages' = sock!Callback(p, type)
    BY DEF sock!Segment, sock!SynAck, sock!Fin, sock!Rst, sock!Data
  <2>. QED BY <2>4, <2>5, <2>6
<1>7. SocketTypes'
  BY <1>0, <1>2, <1>4, <1>6 DEF SocketTypes
<1>8. sock!NoOrphans'
  BY <1>0, <1>2 DEF sock!NoOrphans
<1>. QED BY <1>5, <1>6, <1>7, <1>8 DEF SocketsInv

\* main.c of the server, and http.c: sockets, control blocks and ports match one to one, so
\* that a socket never lacks a control block or a port; a task gets messages about, and reads
\* from, its own connections only; and no socket stays allocated for a task that is gone; for
\* any number of tasks, sockets, control blocks and ports.
THEOREM SocketsAreOwned == Spec => []SocketsOwned
<1>1. Init => SocketsInv
  BY InitSockets DEF Init
<1>2. SocketsInv /\ [Next]_vars => SocketsInv'
  <2>. SUFFICES ASSUME SocketsInv, [Next]_vars PROVE SocketsInv'
    OBVIOUS
  <2>1. CASE sock!Next
    BY <2>1, ClientsKept, ReadKept, ClosesKept, ConnectKept, SegmentKept DEF sock!Next, sock!Request
  <2>2. CASE UNCHANGED SocketsVars
    BY <2>2 DEF SocketsVars, SocketsInv, SocketTypes, Linked, Owners, MessagesOwn, sock!NoOrphans
  <2>. QED BY <2>1, <2>2 DEF Next, TcpStep, MbufStep, ArpStep, DhcpStep, DnsStep, SocketsStep, vars
<1>3. SocketsInv => SocketsOwned
  BY SocketsInvEnough DEF SocketsOwned
<1>. QED BY <1>1, <1>2, <1>3, PTL DEF Spec
-----------------------------------------------------------------------------
(* DHCP.                                                                   *)

\* What an ACK must have.
AllOptions == {"netmask", "router", "dns"}

\* The invariant: frames are about addresses that have been offered, and the device has an
\* address only with everything else.
DhcpInv ==
    /\ dhcp!TypeOK /\ dhcp!ReadyConfigured /\ dhcp!AsksOffered
    /\ device.ipaddr # dhcp!UNSPECIFIED => device.set = AllOptions
    /\ \A f \in dhcp_wire :
        f.client \in dhcp!Clients /\ (f.type \in {"OFFER", "REQUEST", "ACK"} => f.addr \in offered)

\* Every step keeps it.
LEMMA DhcpKept ==
    ASSUME DhcpInv, dhcp!Next
    PROVE  DhcpInv'
<1>0. /\ dhcp_pc \in {"start", "configuring", "ready"}
      /\ device.ipaddr \in dhcp!Addrs \cup {dhcp!UNSPECIFIED} /\ device.set \subseteq AllOptions
      /\ dhcp_active_pcbs \subseteq {dhcp!DHCP_CLIENT, dhcp!DNS_CLIENT}
      /\ offered \subseteq dhcp!Addrs
      /\ dhcp_asked \subseteq dhcp!Clients \X (dhcp!Addrs \cup {dhcp!UNSPECIFIED})
      /\ dhcp_pc = "ready" => device.set = AllOptions
      /\ \A r \in dhcp_asked : r[2] \in offered
      /\ device.ipaddr # dhcp!UNSPECIFIED => device.set = AllOptions
      /\ \A f \in dhcp_wire :
          f.client \in dhcp!Clients /\ (f.type \in {"OFFER", "REQUEST", "ACK"} => f.addr \in offered)
  BY DEF DhcpInv, dhcp!TypeOK, dhcp!ReadyConfigured, dhcp!AsksOffered, AllOptions
<1>2. ASSUME offered \subseteq offered', offered' \subseteq dhcp!Addrs,
             dhcp_pc' \in {"start", "configuring", "ready"},
             device' = device \/ (device'.ipaddr \in offered /\ device'.set = AllOptions),
             dhcp_pc' = "ready" => dhcp_pc = "ready" \/ device'.ipaddr # dhcp!UNSPECIFIED,
             dhcp_active_pcbs' \subseteq {dhcp!DHCP_CLIENT, dhcp!DNS_CLIENT},
             \A r \in dhcp_asked' : r \in dhcp_asked \/ (r \in dhcp!Clients \X offered),
             \A f \in dhcp_wire' : \/ f \in dhcp_wire
                                   \/ /\ f.client \in dhcp!Clients
                                      /\ f.type \in {"OFFER", "REQUEST", "ACK"} => f.addr \in offered'
      PROVE  DhcpInv'
  <2>1. /\ device'.ipaddr \in dhcp!Addrs \cup {dhcp!UNSPECIFIED} /\ device'.set \subseteq AllOptions
        /\ device'.ipaddr # dhcp!UNSPECIFIED => device'.set = AllOptions
        /\ dhcp_pc' = "ready" => device'.set = AllOptions
    BY <1>0, <1>2
  <2>2. /\ dhcp_asked' \subseteq dhcp!Clients \X (dhcp!Addrs \cup {dhcp!UNSPECIFIED})
        /\ \A r \in dhcp_asked' : r[2] \in offered'
    BY <1>0, <1>2
  <2>3. \A f \in dhcp_wire' :
          f.client \in dhcp!Clients /\ (f.type \in {"OFFER", "REQUEST", "ACK"} => f.addr \in offered')
    BY <1>0, <1>2
  <2>. QED BY <1>2, <2>1, <2>2, <2>3
           DEF DhcpInv, dhcp!TypeOK, dhcp!ReadyConfigured, dhcp!AsksOffered, AllOptions
<1>3. "us" \in dhcp!Clients
  BY DEF dhcp!Clients
<1>4. CASE dhcp!Start
  <2>1. /\ dhcp_pc' = "configuring"
        /\ dhcp_active_pcbs' = {dhcp!DHCP_CLIENT, dhcp!DNS_CLIENT}
        /\ dhcp_wire' = dhcp_wire \cup {dhcp!Frame("DISCOVER", "us", dhcp!UNSPECIFIED, {},
                                                   dhcp!DHCP_SERVERS, dhcp!DHCP_SERVER)}
        /\ UNCHANGED <<device, offered, dhcp_asked, datagram>>
    BY <1>4 DEF dhcp!Start, dhcp!bound, dhcp!dhcp_transmit
  <2>2. \A f \in dhcp_wire' : f \in dhcp_wire \/ (f.client \in dhcp!Clients /\ f.type = "DISCOVER")
    BY <1>3, <2>1 DEF dhcp!Frame
  <2>. QED BY <1>0, <1>2, <2>1, <2>2
<1>5. CASE dhcp!NetRecv
  <2>1. PICK f \in dhcp_wire :
          /\ \/ dhcp!dhcp_process(f)
             \/ dhcp_wire' = dhcp_wire \ {f} /\ UNCHANGED <<device, dhcp_asked>>
          /\ dhcp_pc' = IF device'.ipaddr # dhcp!UNSPECIFIED THEN "ready" ELSE dhcp_pc
          /\ UNCHANGED <<dhcp_active_pcbs, offered>>
    BY <1>5 DEF dhcp!NetRecv, dhcp!device_ready
  <2>2. /\ \/ /\ f.type = "OFFER"
              /\ dhcp_wire' = (dhcp_wire \ {f}) \cup {dhcp!Frame("REQUEST", "us", f.addr, {},
                                                       dhcp!DHCP_SERVERS, dhcp!DHCP_SERVER)}
              /\ dhcp_asked' = dhcp_asked \cup {<<"us", f.addr>>}
           \/ dhcp_wire' = dhcp_wire \ {f} /\ UNCHANGED dhcp_asked
        /\ \/ f.type = "ACK" /\ device' = [ipaddr |-> f.addr, set |-> AllOptions]
           \/ device' = device
    BY <2>1 DEF dhcp!dhcp_process, dhcp!requested, dhcp!dhcp_transmit, dhcp!has_all, AllOptions
  <2>3. f.type \in {"OFFER", "ACK"} => f.addr \in offered
    BY <1>0
  <2>4. device' = device \/ (device'.ipaddr \in offered /\ device'.set = AllOptions)
    BY <2>2, <2>3
  <2>5. \A g \in dhcp_wire' : \/ g \in dhcp_wire
                              \/ g.client \in dhcp!Clients /\ g.addr \in offered
    BY <1>3, <2>2, <2>3 DEF dhcp!Frame
  <2>6. \A r \in dhcp_asked' : r \in dhcp_asked \/ r \in dhcp!Clients \X offered
    BY <1>3, <2>2, <2>3
  <2>. QED BY <1>0, <1>2, <2>1, <2>4, <2>5, <2>6
<1>6. CASE dhcp!ServerOffers
  <2>1. PICK f \in dhcp_wire :
          /\ dhcp_wire' = (dhcp_wire \ {f}) \cup
               {dhcp!Frame("OFFER", f.client, <<s, f.client>>, {}, dhcp!BROADCAST, dhcp!DHCP_CLIENT)
                : s \in Servers}
          /\ offered' = offered \cup {<<s, f.client>> : s \in Servers}
    BY <1>6 DEF dhcp!ServerOffers
  <2>2. f.client \in dhcp!Clients
    BY <1>0
  <2>3. offered \subseteq offered' /\ offered' \subseteq dhcp!Addrs
    BY <1>0, <2>1, <2>2 DEF dhcp!Addrs
  <2>4. \A g \in dhcp_wire' : g \in dhcp_wire \/ (g.client \in dhcp!Clients /\ g.addr \in offered')
    BY <2>1, <2>2 DEF dhcp!Frame
  <2>5. UNCHANGED <<dhcp_pc, device, dhcp_active_pcbs, dhcp_asked>>
    BY <1>6 DEF dhcp!ServerOffers
  <2>. QED BY <1>0, <1>2, <2>3, <2>4, <2>5
<1>7. CASE dhcp!ServerAcks
  <2>1. UNCHANGED <<dhcp_pc, device, dhcp_active_pcbs, offered, dhcp_asked>>
    BY <1>7 DEF dhcp!ServerAcks
  <2>2. PICK f \in dhcp_wire, opts \in Options : f.type = "REQUEST" /\ dhcp!Answer(f, "ACK", f.addr, opts)
    BY <1>7 DEF dhcp!ServerAcks
  <2>3. PICK to : dhcp_wire' = (dhcp_wire \ {f}) \cup
                    {dhcp!Frame("ACK", f.client, f.addr, opts, to, dhcp!DHCP_CLIENT)}
    BY <2>2 DEF dhcp!Answer
  <2>4. f.client \in dhcp!Clients /\ f.addr \in offered
    BY <1>0, <2>2
  <2>5. \A g \in dhcp_wire' : g \in dhcp_wire \/ (g.client \in dhcp!Clients /\ g.addr \in offered)
    BY <2>3, <2>4 DEF dhcp!Frame
  <2>. QED BY <1>0, <1>2, <2>1, <2>5
<1>8. CASE dhcp!OtherRequests
  <2>1. UNCHANGED <<dhcp_pc, device, dhcp_active_pcbs, offered>>
    BY <1>8 DEF dhcp!OtherRequests
  <2>2. PICK f \in dhcp_wire :
          /\ f.type = "OFFER" /\ f.client \in Others
          /\ dhcp_asked' = dhcp_asked \cup {<<f.client, f.addr>>}
          /\ dhcp_wire' = dhcp_wire \cup {dhcp!Frame("REQUEST", f.client, f.addr, {},
                                                     dhcp!DHCP_SERVERS, dhcp!DHCP_SERVER)}
    BY <1>8 DEF dhcp!OtherRequests
  <2>3. f.client \in dhcp!Clients /\ f.addr \in offered
    BY <1>0, <2>2
  <2>4. \A g \in dhcp_wire' : g \in dhcp_wire \/ (g.client \in dhcp!Clients /\ g.addr \in offered)
    BY <2>2, <2>3 DEF dhcp!Frame
  <2>5. \A r \in dhcp_asked' : r \in dhcp_asked \/ r \in dhcp!Clients \X offered
    BY <2>2, <2>3
  <2>. QED BY <1>0, <1>2, <2>1, <2>4, <2>5
<1>9. CASE dhcp!Lose
  <2>1. /\ UNCHANGED <<dhcp_pc, device, dhcp_active_pcbs, offered, dhcp_asked>>
        /\ dhcp_wire' \subseteq dhcp_wire
    BY <1>9 DEF dhcp!Lose
  <2>. QED BY <1>0, <1>2, <2>1
<1>. QED BY <1>4, <1>5, <1>6, <1>7, <1>8, <1>9 DEF dhcp!Next

\* The device starts without an address, and the wire with the questions of others.
LEMMA InitDhcp == dhcp!Init => DhcpInv
<1>. SUFFICES ASSUME dhcp!Init PROVE DhcpInv
  OBVIOUS
<1>1. /\ dhcp_pc = "start" /\ device.ipaddr = dhcp!UNSPECIFIED /\ device.set = {}
      /\ dhcp_active_pcbs = {} /\ offered = {} /\ dhcp_asked = {}
  BY DEF dhcp!Init
<1>2. \A f \in dhcp_wire : f.client \in Others /\ f.type = "DISCOVER"
  BY DEF dhcp!Init, dhcp!Frame
<1>. QED BY <1>1, <1>2 DEF DhcpInv, dhcp!TypeOK, dhcp!ReadyConfigured, dhcp!AsksOffered, dhcp!Clients
-----------------------------------------------------------------------------
(* DNS.                                                                    *)

\* The hypothesis about the IDs: they have not come round.  next_query_id has 16 bits, and a
\* request that nobody answers stays in the list, so that later its ID is used twice.
IdsLast == MaxQueries =< IdMod

\* Packets of ours, and the DNS server's answers to them.
Ours(p) == p.type = "query" \/ p.from = "server"

\* IDs that have been used; when all have been there are no more queries.
Used(id) == dns_count < IdMod => id \in 1 .. dns_count

\* While the server lives: the next ID is new, a task has one request and a request its own
\* ID, and whatever bears the ID of a request has the name that its task waits for.
QueriesMatch ==
    /\ dns_count < IdMod => next_query_id = IF dns_count + 1 = IdMod THEN 0 ELSE dns_count + 1
    /\ \A r, q \in dns_requests : r.task = q.task \/ r.id = q.id => r = q
    /\ \A r \in dns_requests : Used(r.id)
    /\ \A p \in dns_wire : Ours(p) =>
        Used(p.id) /\ \A r \in dns_requests : r.id = p.id => waiting[r.task] = p.name

\* The invariant of DNS.
DnsInv == dns!TypeOK /\ dns!AnswerMatches /\ dns!RequestsWaiting /\ (alive => QueriesMatch)

\* What is used of the constants.
LEMMA DnsConstants ==
    /\ IdMod \in Nat /\ IdMod > 0 /\ MaxQueries \in Nat /\ dns!None \notin dns!Names
    /\ \A n \in 0 .. IdMod : n % IdMod = IF n = IdMod THEN 0 ELSE n
<1>1. IdMod \in Nat /\ IdMod > 0 /\ MaxQueries \in Nat /\ dns!None \notin dns!Names
  BY NetworkAssumption DEF NetworkAssumption, dns!DnsAssumption, dns!None, dns!Names
<1>2. ASSUME NEW m \in Nat, m > 0, NEW n \in 0 .. m PROVE n % m = IF n = m THEN 0 ELSE n
  BY <1>2, SMT
<1>. QED BY <1>1, <1>2

\* Nobody waits at first.
LEMMA InitDns == dns!Init => DnsInv
<1>. SUFFICES ASSUME dns!Init PROVE DnsInv
  OBVIOUS
<1>1. next_query_id = IF 1 = IdMod THEN 0 ELSE 1
  BY DnsConstants DEF dns!Init
<1>2. /\ waiting = [t \in dns_Tasks |-> dns!None] /\ dns_requests = {} /\ dns_wire = {} /\ dns_count = 0
      /\ alive = TRUE /\ \A t \in dns_Tasks : got[t].addr = got[t].name
  BY DEF dns!Init
<1>3. dns!TypeOK
  BY <1>1, <1>2, DnsConstants DEF dns!TypeOK
<1>4. QueriesMatch
  BY <1>1, <1>2, DnsConstants DEF QueriesMatch
<1>. QED BY <1>2, <1>3, <1>4 DEF DnsInv, dns!AnswerMatches, dns!RequestsWaiting

\* A query: its ID is new, and its task has no other.
LEMMA ResolveKept ==
    ASSUME IdsLast, DnsInv, NEW t \in dns_Tasks, dns!Resolve(t)
    PROVE  DnsInv'
<1>0. /\ waiting \in [dns_Tasks -> dns!Names \cup {dns!None}]
      /\ dns_requests \subseteq [id : 0 .. IdMod - 1, task : dns_Tasks]
      /\ next_query_id \in 0 .. IdMod - 1 /\ dns_count \in 0 .. MaxQueries
      /\ dns!AnswerMatches /\ dns!RequestsWaiting /\ (alive => QueriesMatch)
  BY DEF DnsInv, dns!TypeOK
<1>1. PICK name \in dns!Names :
        /\ alive /\ waiting[t] = dns!None /\ dns_count < MaxQueries
        /\ waiting' = [waiting EXCEPT ![t] = name] /\ dns_count' = dns_count + 1
        /\ \/ alive' = FALSE /\ UNCHANGED <<dns_requests, next_query_id, dns_wire>>
           \/ /\ dns_wire' = dns_wire \cup {dns!Packet("query", next_query_id, name, 0, "us")}
              /\ dns_requests' = dns_requests \cup {[id |-> next_query_id, task |-> t]}
              /\ next_query_id' = (next_query_id + 1) % IdMod
              /\ UNCHANGED alive
        /\ UNCHANGED got
  BY DEF dns!Resolve, dns!remembered, dns!next_id
<1>2. /\ waiting' \in [dns_Tasks -> dns!Names \cup {dns!None}] /\ dns_count' \in 0 .. MaxQueries
      /\ dns!AnswerMatches'
      /\ waiting'[t] = name /\ name # dns!None /\ \A u \in dns_Tasks \ {t} : waiting'[u] = waiting[u]
  BY <1>0, <1>1, DnsConstants DEF dns!AnswerMatches
<1>3. CASE alive' = FALSE /\ UNCHANGED <<dns_requests, next_query_id, dns_wire>>
  BY <1>0, <1>2, <1>3 DEF DnsInv, dns!TypeOK, dns!RequestsWaiting
<1>4. CASE /\ dns_wire' = dns_wire \cup {dns!Packet("query", next_query_id, name, 0, "us")}
           /\ dns_requests' = dns_requests \cup {[id |-> next_query_id, task |-> t]}
           /\ next_query_id' = (next_query_id + 1) % IdMod
           /\ UNCHANGED alive
  <2>1. PICK req \in [id : 0 .. IdMod - 1, task : dns_Tasks] :
          /\ req.id = next_query_id /\ req.task = t /\ dns_requests' = dns_requests \cup {req}
    BY <1>0, <1>4
  <2>2. PICK pkt : /\ pkt.id = next_query_id /\ pkt.name = name
                   /\ dns_wire' = dns_wire \cup {pkt}
    BY <1>4 DEF dns!Packet
  <2>3. next_query_id' \in 0 .. IdMod - 1
        /\ next_query_id' = IF next_query_id + 1 = IdMod THEN 0 ELSE next_query_id + 1
    <3>1. next_query_id + 1 \in 0 .. IdMod
      BY <1>0, DnsConstants
    <3>. QED BY <1>0, <1>4, <3>1, DnsConstants
  <2>4. dns!TypeOK'
    BY <1>0, <1>1, <1>2, <1>4, <2>1, <2>3 DEF dns!TypeOK
  <2>5. dns_count < IdMod /\ dns_count \in Nat
    BY <1>0, <1>1, DnsConstants DEF IdsLast
  <2>6. QueriesMatch /\ dns!RequestsWaiting
    BY <1>0, <1>1
  <2>7. next_query_id = IF dns_count + 1 = IdMod THEN 0 ELSE dns_count + 1
    BY <2>5, <2>6 DEF QueriesMatch
  <2>8. \A r \in dns_requests : r.task # t /\ r.id # next_query_id
    <3>1. \A r \in dns_requests : r.task # t
      BY <1>1, <2>6 DEF dns!RequestsWaiting
    <3>2. \A r \in dns_requests : r.id \in 1 .. dns_count
      BY <2>5, <2>6 DEF QueriesMatch, Used
    <3>. QED BY <2>5, <2>7, <3>1, <3>2
  <2>9. \A p \in dns_wire : Ours(p) => p.id # next_query_id
    <3>1. \A p \in dns_wire : Ours(p) => p.id \in 1 .. dns_count
      BY <2>5, <2>6 DEF QueriesMatch, Used
    <3>. QED BY <2>5, <2>7, <3>1
  <2>10. /\ \A id : Used(id) => Used(id)'
         /\ Used(req.id)' /\ Used(pkt.id)'
    BY <1>1, <2>1, <2>2, <2>5, <2>7, DnsConstants DEF Used
  <2>11. QueriesMatch'
    <3>1. dns_count' < IdMod => next_query_id' = IF dns_count' + 1 = IdMod THEN 0 ELSE dns_count' + 1
      BY <1>1, <2>3, <2>5, <2>7, DnsConstants
    <3>2. \A r, q \in dns_requests' : r.task = q.task \/ r.id = q.id => r = q
      BY <2>1, <2>6, <2>8 DEF QueriesMatch
    <3>3. \A r \in dns_requests' : Used(r.id)'
      BY <2>1, <2>6, <2>10 DEF QueriesMatch
    <3>4. ASSUME NEW p \in dns_wire', Ours(p)
          PROVE  Used(p.id)' /\ \A r \in dns_requests' : r.id = p.id => waiting'[r.task] = p.name
      <4>1. CASE p = pkt
        BY <1>2, <2>1, <2>2, <2>8, <2>10, <4>1
      <4>2. CASE p \in dns_wire
        <5>1. Used(p.id) /\ \A r \in dns_requests : r.id = p.id => waiting[r.task] = p.name
          BY <2>6, <3>4, <4>2 DEF QueriesMatch
        <5>2. \A r \in dns_requests : r.task \in dns_Tasks \ {t}
          BY <1>0, <2>8
        <5>. QED BY <1>2, <2>1, <2>9, <2>10, <3>4, <4>2, <5>1, <5>2
      <4>. QED BY <2>2, <4>1, <4>2
    <3>. QED BY <3>1, <3>2, <3>3, <3>4 DEF QueriesMatch, Ours
  <2>12. dns!RequestsWaiting'
    <3>. SUFFICES ASSUME NEW u \in dns_Tasks
                  PROVE  (waiting'[u] # dns!None) <=> \E r \in dns_requests' : r.task = u
      BY DEF dns!RequestsWaiting
    <3>1. CASE u = t
      BY <1>2, <2>1, <3>1
    <3>2. CASE u # t
      BY <1>1, <1>2, <2>1, <2>6, <3>2 DEF dns!RequestsWaiting
    <3>. QED BY <3>1, <3>2
  <2>. QED BY <1>2, <2>4, <2>11, <2>12 DEF DnsInv
<1>. QED BY <1>1, <1>3, <1>4

\* An answer: it has the name of all the requests that it answers.
LEMMA DnsReceiveKept ==
    ASSUME DnsInv, NEW p \in dns_wire, dns!DnsReceive(p)
    PROVE  DnsInv'
<1>. DEFINE told == {r.task : r \in {q \in dns_requests : q.id = p.id}}
<1>0. /\ waiting \in [dns_Tasks -> dns!Names \cup {dns!None}]
      /\ dns_requests \subseteq [id : 0 .. IdMod - 1, task : dns_Tasks]
      /\ next_query_id \in 0 .. IdMod - 1 /\ dns_count \in 0 .. MaxQueries
      /\ dns!AnswerMatches /\ dns!RequestsWaiting /\ (alive => QueriesMatch)
  BY DEF DnsInv, dns!TypeOK
<1>1. /\ alive /\ dns_wire' \subseteq dns_wire /\ UNCHANGED <<next_query_id, dns_count, alive>>
      /\ \/ /\ p.from = "server" /\ p.n > 0
            /\ dns_requests' = {r \in dns_requests : p.id # r.id}
            /\ got' = [t \in dns_Tasks |-> IF t \in told /\ waiting[t] # dns!None
                                           THEN [name |-> waiting[t], addr |-> p.name] ELSE got[t]]
            /\ waiting' = [t \in dns_Tasks |-> IF t \in told THEN dns!None ELSE waiting[t]]
         \/ UNCHANGED <<dns_requests, got, waiting>>
  <2>1. /\ alive /\ dns_wire' \subseteq dns_wire /\ UNCHANGED <<next_query_id, dns_count, alive>>
    BY DEF dns!DnsReceive
  <2>2. told = {r.task : r \in {q \in dns_requests : p.id = q.id}}
    OBVIOUS
  <2>3. CASE dns!trusted(p) /\ p.n > 0
    <3>1. dns!answered(p) = {r \in dns_requests : p.id # r.id}
      BY <2>3 DEF dns!answered, dns!matches
    <3>. QED BY <2>1, <2>2, <2>3, <3>1 DEF dns!DnsReceive, dns!trusted, dns!matches
  <2>4. CASE ~(dns!trusted(p) /\ p.n > 0)
    BY <2>1, <2>4 DEF dns!DnsReceive
  <2>. QED BY <2>3, <2>4
<1>2. QueriesMatch /\ dns!RequestsWaiting
  BY <1>0, <1>1
<1>3. \A id : Used(id) => Used(id)'
  BY <1>1 DEF Used
<1>4. CASE UNCHANGED <<dns_requests, got, waiting>>
  <2>1. QueriesMatch'
    BY <1>1, <1>2, <1>4 DEF QueriesMatch, Used, Ours
  <2>. QED BY <1>0, <1>1, <1>2, <1>4, <2>1 DEF DnsInv, dns!TypeOK, dns!AnswerMatches, dns!RequestsWaiting
<1>5. CASE /\ p.from = "server" /\ p.n > 0
           /\ dns_requests' = {r \in dns_requests : p.id # r.id}
           /\ got' = [t \in dns_Tasks |-> IF t \in told /\ waiting[t] # dns!None
                                          THEN [name |-> waiting[t], addr |-> p.name] ELSE got[t]]
           /\ waiting' = [t \in dns_Tasks |-> IF t \in told THEN dns!None ELSE waiting[t]]
  <2>1. \A t \in told : waiting[t] = p.name
    BY <1>2, <1>5 DEF QueriesMatch, Ours
  <2>2. \A r \in dns_requests' : r \in dns_requests /\ r.task \in dns_Tasks /\ r.task \notin told
    <3>. SUFFICES ASSUME NEW r \in dns_requests, p.id # r.id, r.task \in told PROVE FALSE
      BY <1>0, <1>5
    <3>1. PICK q \in dns_requests : q.id = p.id /\ q.task = r.task
      OBVIOUS
    <3>. QED BY <1>2, <3>1 DEF QueriesMatch
  <2>3. \A r \in dns_requests : r.task \notin told => r \in dns_requests'
    BY <1>5
  <2>4. dns!AnswerMatches'
    BY <1>0, <1>5, <2>1 DEF dns!AnswerMatches
  <2>5. waiting' \in [dns_Tasks -> dns!Names \cup {dns!None}]
    BY <1>0, <1>5
  <2>. HIDE DEF told
  <2>6. dns!TypeOK'
    BY <1>1, <1>5, <2>2, <2>5, DnsInv DEF DnsInv, dns!TypeOK
  <2>7. dns!RequestsWaiting'
    <3>. SUFFICES ASSUME NEW u \in dns_Tasks
                  PROVE  (waiting'[u] # dns!None) <=> \E r \in dns_requests' : r.task = u
      BY DEF dns!RequestsWaiting
    <3>1. CASE u \in told
      BY <1>5, <2>2, <3>1
    <3>2. CASE u \notin told
      <4>1. waiting'[u] = waiting[u]
        BY <1>5, <3>2
      <4>2. (waiting[u] # dns!None) <=> \E r \in dns_requests : r.task = u
        BY <1>1, <1>2 DEF dns!RequestsWaiting
      <4>. QED BY <2>2, <2>3, <3>2, <4>1, <4>2
    <3>. QED BY <3>1, <3>2
  <2>8. QueriesMatch'
    <3>1. \A r \in dns_requests' : waiting'[r.task] = waiting[r.task]
      BY <1>5, <2>2
    <3>2. \A q \in dns_wire' : Ours(q) =>
            Used(q.id)' /\ \A r \in dns_requests' : r.id = q.id => waiting'[r.task] = q.name
      BY <1>1, <1>2, <1>3, <2>2, <3>1 DEF QueriesMatch
    <3>3. \A r \in dns_requests' : Used(r.id)'
      BY <1>2, <1>3, <2>2 DEF QueriesMatch
    <3>4. \A r, q \in dns_requests' : r.task = q.task \/ r.id = q.id => r = q
      BY <1>2, <2>2 DEF QueriesMatch
    <3>. QED BY <1>1, <1>2, <3>2, <3>3, <3>4 DEF QueriesMatch, Ours
  <2>. QED BY <2>4, <2>6, <2>7, <2>8 DEF DnsInv
<1>. QED BY <1>1, <1>4, <1>5

\* The DNS server, and the network: an answer has the ID and the name of its query.
LEMMA DnsServed ==
    ASSUME DnsInv, dns!Disturb \/ \E p \in dns_wire : dns!Serve(p)
    PROVE  DnsInv'
<1>1. UNCHANGED <<waiting, got, dns_requests, next_query_id, dns_count, alive>>
  BY DEF dns!Disturb, dns!Serve
<1>2. ASSUME NEW q \in dns_wire', Ours(q)
      PROVE  \E p \in dns_wire : Ours(p) /\ p.id = q.id /\ p.name = q.name
  <2>1. CASE dns!Disturb
    <3>1. q \in dns_wire \/ (q.type = "answer" /\ q.from = "stranger")
      BY <2>1 DEF dns!Disturb, dns!Packet
    <3>. QED BY <1>2, <3>1 DEF Ours
  <2>2. ASSUME NEW p \in dns_wire, dns!Serve(p) PROVE q \in dns_wire \/ (Ours(p) /\ p.id = q.id /\ p.name = q.name)
    BY <2>2 DEF dns!Serve, dns!Packet, Ours
  <2>. QED BY <1>2, <2>1, <2>2
<1>3. ASSUME alive PROVE QueriesMatch'
  <2>1. QueriesMatch
    BY <1>3 DEF DnsInv
  <2>2. \A q \in dns_wire' : Ours(q) =>
          Used(q.id) /\ \A r \in dns_requests : r.id = q.id => waiting[r.task] = q.name
    BY <1>2, <2>1 DEF QueriesMatch
  <2>. QED BY <1>1, <2>1, <2>2 DEF QueriesMatch, Used, Ours
<1>. QED BY <1>1, <1>3 DEF DnsInv, dns!TypeOK, dns!AnswerMatches, dns!RequestsWaiting
-----------------------------------------------------------------------------
(* ARP.                                                                    *)

\* The types of a waiting packet, of an entry of the table and of a frame.
QueueRec == [pkt : 1 .. MaxPackets, dst : Local]
EntryRec == [in_use : BOOLEAN, resolved : BOOLEAN, ipaddr : Local \cup {arp!None},
             queue : Seq(QueueRec), time : 0 .. MaxUptime]
FrameRec == [pkt : 1 .. MaxPackets, mac : Local]

ArpTypes ==
    /\ table \in [arp!Entries -> EntryRec] /\ uptime \in 0 .. MaxUptime /\ arp_asked \subseteq Local
    /\ packets \in Seq(Local \cup Remote) /\ Len(packets) =< MaxPackets /\ sent \in Seq(FrameRec)

\* The next hop of a destination.
Hop(dst) == IF dst \in Local THEN dst ELSE Gateway

\* The packets that wait in an entry are for its host, in their order, and after all that
\* have been sent there.
QueueSound(r, pkts, frames) ==
    r.in_use =>
        /\ r.ipaddr \in Local
        /\ \A i \in 1 .. Len(r.queue) :
            /\ r.queue[i].dst = r.ipaddr
            /\ r.queue[i].pkt \in 1 .. Len(pkts) /\ Hop(pkts[r.queue[i].pkt]) = r.ipaddr
            /\ \A j \in 1 .. Len(r.queue) : i < j => r.queue[i].pkt < r.queue[j].pkt
            /\ \A k \in 1 .. Len(frames) : frames[k].mac = r.ipaddr => frames[k].pkt < r.queue[i].pkt

\* Frames go to the next hops of their packets, in their order.
FramesSound(pkts, frames) ==
    /\ \A k \in 1 .. Len(frames) :
        frames[k].pkt \in 1 .. Len(pkts) /\ frames[k].mac = Hop(pkts[frames[k].pkt])
    /\ \A i, j \in 1 .. Len(frames) : i < j /\ frames[i].mac = frames[j].mac => frames[i].pkt < frames[j].pkt

\* The invariant of ARP.
ArpInv ==
    /\ ArpTypes /\ arp!EntriesUnique /\ arp!NoneStuck /\ FramesSound(packets, sent)
    /\ \A e \in arp!Entries : QueueSound(table[e], packets, sent)

\* What is used of the constants.
LEMMA ArpConstants ==
    /\ Gateway \in Local /\ NumEntries \in Nat /\ NumEntries > 0 /\ MaxPackets \in Nat /\ MaxUptime \in Nat
    /\ arp!Entries \subseteq Nat /\ arp!Entries # {} /\ 0 \notin arp!Entries
<1>1. Gateway \in Local /\ NumEntries \in Nat /\ NumEntries > 0 /\ MaxPackets \in Nat /\ MaxUptime \in Nat
  BY NetworkAssumption DEF NetworkAssumption, arp!ArpAssumption
<1>2. 1 \in arp!Entries
  BY <1>1 DEF arp!Entries
<1>. QED BY <1>1, <1>2 DEF arp!Entries

\* A set of natural numbers has a least one.
LEMMA LeastExists ==
    ASSUME NEW S \in SUBSET Nat, S # {}
    PROVE  \E x \in S : \A y \in S : x <= y
<1>1. PICK x \in S : \A y \in S : ~(<<y, x>> \in OpToRel(<, Nat))
  BY NatLessThanWellFounded, WFMin
<1>2. \A y \in S : x <= y
  <2>. SUFFICES ASSUME NEW y \in S PROVE x <= y
    OBVIOUS
  <2>1. x \in Nat /\ y \in Nat
    OBVIOUS
  <2>2. ~(y < x)
    BY <1>1, <2>1, Zenon DEF OpToRel
  <2>. QED BY <2>1, <2>2
<1>. QED BY <1>1, <1>2

\* lookup_entry finds an entry of the host if there is one.
LEMMA LookupFinds ==
    ASSUME NEW tbl, NEW ip
    PROVE  \/ /\ arp!lookup_entry(tbl, ip) \in arp!Entries
              /\ tbl[arp!lookup_entry(tbl, ip)].in_use /\ tbl[arp!lookup_entry(tbl, ip)].ipaddr = ip
           \/ /\ arp!lookup_entry(tbl, ip) = 0
              /\ \A f \in arp!Entries : ~(tbl[f].in_use /\ tbl[f].ipaddr = ip)
<1>. DEFINE found == {e \in arp!Entries : tbl[e].in_use /\ tbl[e].ipaddr = ip}
<1>1. CASE found = {}
  BY <1>1 DEF arp!lookup_entry
<1>2. CASE found # {}
  <2>1. found \in SUBSET Nat
    BY ArpConstants
  <2>2. \E e \in found : \A f \in found : e <= f
    BY <1>2, <2>1, LeastExists
  <2>3. arp!lookup_entry(tbl, ip) = CHOOSE e \in found : \A f \in found : e <= f
    BY <1>2 DEF arp!lookup_entry
  <2>4. arp!lookup_entry(tbl, ip) \in found
    BY <2>2, <2>3
  <2>. QED BY <2>4
<1>. QED BY <1>1, <1>2

\* alloc_entry always finds an entry: if all are in use, there is one not accessed for longest.
LEMMA AllocFinds ==
    ASSUME NEW tbl, \A e \in arp!Entries : tbl[e].time \in Nat
    PROVE  arp!alloc_entry(tbl) \in arp!Entries
<1>. DEFINE free == {e \in arp!Entries : ~tbl[e].in_use}
            Older(e, f) == tbl[e].time < tbl[f].time \/ (tbl[e].time = tbl[f].time /\ e <= f)
<1>1. CASE free # {}
  <2>1. free \in SUBSET Nat
    BY ArpConstants
  <2>2. \E e \in free : \A f \in free : e <= f
    BY <1>1, <2>1, LeastExists
  <2>3. arp!alloc_entry(tbl) = CHOOSE e \in free : \A f \in free : e <= f
    BY <1>1 DEF arp!alloc_entry
  <2>. QED BY <2>2, <2>3
<1>2. CASE free = {}
  <2>1. PICK t \in {tbl[e].time : e \in arp!Entries} : \A u \in {tbl[e].time : e \in arp!Entries} : t <= u
    <3>1. {tbl[e].time : e \in arp!Entries} \in SUBSET Nat /\ {tbl[e].time : e \in arp!Entries} # {}
      BY ArpConstants
    <3>. QED BY <3>1, LeastExists
  <2>2. PICK e \in {f \in arp!Entries : tbl[f].time = t} : \A f \in {g \in arp!Entries : tbl[g].time = t} : e <= f
    <3>1. {f \in arp!Entries : tbl[f].time = t} \in SUBSET Nat /\ {f \in arp!Entries : tbl[f].time = t} # {}
      BY <2>1, ArpConstants
    <3>. QED BY <3>1, LeastExists
  <2>3. \A f \in arp!Entries : Older(e, f)
    <3>. SUFFICES ASSUME NEW f \in arp!Entries PROVE Older(e, f)
      OBVIOUS
    <3>1. tbl[e].time = t /\ tbl[e].time \in Nat /\ tbl[f].time \in Nat /\ t <= tbl[f].time
      BY <2>1, <2>2
    <3>2. tbl[f].time = t => e <= f
      BY <2>2
    <3>. QED BY <3>1, <3>2
  <2>4. \E d \in arp!Entries : \A f \in arp!Entries : Older(d, f)
    BY <2>2, <2>3
  <2>5. arp!alloc_entry(tbl) = CHOOSE d \in arp!Entries : \A f \in arp!Entries : Older(d, f)
    BY <1>2 DEF arp!alloc_entry
  <2>. HIDE DEF Older
  <2>. QED BY <2>4, <2>5
<1>. QED BY <1>1, <1>2

\* A stack of ARP in which entry e, alone, is that of the host, which is resolved.
Resolved(s, e, host) ==
    /\ s = [table |-> s.table, asked |-> s.asked, sent |-> s.sent]
    /\ s.table \in [arp!Entries -> EntryRec]
    /\ s.table[e].in_use /\ s.table[e].ipaddr = host /\ s.table[e].resolved
    /\ \A f \in arp!Entries : s.table[f].in_use /\ s.table[f].ipaddr = host => f = e

\* Once the next hop is resolved ethernet_transmit sends at once.
LEMMA TransmitsNow ==
    ASSUME NEW s, NEW dst, NEW pkt, NEW e \in arp!Entries, Resolved(s, e, Hop(dst))
    PROVE  arp!ethernet_transmit(s, dst, pkt)
             = [table |-> [s.table EXCEPT ![e].time = uptime], asked |-> s.asked,
                sent |-> Append(s.sent, [pkt |-> pkt, mac |-> Hop(dst)])]
<1>0. /\ s = [table |-> s.table, asked |-> s.asked, sent |-> s.sent]
      /\ s.table \in [arp!Entries -> EntryRec]
      /\ s.table[e].in_use /\ s.table[e].ipaddr = Hop(dst) /\ s.table[e].resolved
      /\ \A f \in arp!Entries : s.table[f].in_use /\ s.table[f].ipaddr = Hop(dst) => f = e
  BY DEF Resolved
<1>1. arp!lookup_entry(s.table, Hop(dst)) = e
  BY <1>0, LookupFinds
<1>2. arp!device_get_next_hop(dst) = Hop(dst)
  BY DEF arp!device_get_next_hop, Hop
<1>3. arp!arp_resolve(s, Hop(dst)) = e
  BY <1>0, <1>1, ArpConstants DEF arp!arp_resolve
<1>4. arp!ethernet_transmit(s, dst, pkt)
        = [s EXCEPT !.table[e].time = uptime, !.sent = Append(s.sent, [pkt |-> pkt, mac |-> Hop(dst)])]
  BY <1>2, <1>3, ArpConstants DEF arp!ethernet_transmit
<1>. QED BY <1>0, <1>4

\* Append and concatenation of frames.
LEMMA AppendConcat ==
    ASSUME NEW a \in Seq(FrameRec), NEW b \in Seq(FrameRec), NEW x \in FrameRec
    PROVE  Append(a \o b, x) = a \o Append(b, x)
<1>. DEFINE left == Append(a \o b, x)
            right == a \o Append(b, x)
            n == Len(a) + Len(b) + 1
<1>1. left \in Seq(FrameRec) /\ Len(left) = n
  OBVIOUS
<1>2. right \in Seq(FrameRec) /\ Len(right) = n
  OBVIOUS
<1>3. \A i \in 1 .. n : left[i] = right[i]
  OBVIOUS
<1>4. left = right
  <2>. HIDE DEF left, right, n
  <2>. QED BY <1>1, <1>2, <1>3
<1>. QED BY <1>4

\* The frames of the first n packets of a queue.
FramesOf(queue, n, ip) == [i \in 1 .. n |-> [pkt |-> queue[i].pkt, mac |-> ip]]

\* The loop of arp_register_macaddr sends the packets of the queue, in their order: none of
\* them is put back into the queue.
LEMMA FlushSends ==
    ASSUME NEW stack, NEW ip \in Local, NEW e \in arp!Entries, Resolved(stack, e, ip),
           stack.sent \in Seq(FrameRec), stack.table[e].time = uptime,
           \A i \in 1 .. Len(stack.table[e].queue) : stack.table[e].queue[i].dst = ip
    PROVE  arp!flush(stack, e)
             = [table |-> [stack.table EXCEPT ![e].queue = <<>>], asked |-> stack.asked,
                sent |-> stack.sent \o FramesOf(stack.table[e].queue, Len(stack.table[e].queue), ip)]
<1>. SUFFICES ASSUME NEW tbl \in [arp!Entries -> EntryRec], NEW ask, NEW frames \in Seq(FrameRec),
                     tbl[e].in_use, tbl[e].ipaddr = ip, tbl[e].resolved, tbl[e].time = uptime,
                     \A f \in arp!Entries : tbl[f].in_use /\ tbl[f].ipaddr = ip => f = e,
                     \A i \in 1 .. Len(tbl[e].queue) : tbl[e].queue[i].dst = ip
              PROVE  arp!flush([table |-> tbl, asked |-> ask, sent |-> frames], e)
                       = [table |-> [tbl EXCEPT ![e].queue = <<>>], asked |-> ask,
                          sent |-> frames \o FramesOf(tbl[e].queue, Len(tbl[e].queue), ip)]
  BY ZenonT(40) DEF Resolved
<1>s. PICK s : s = [table |-> tbl, asked |-> ask, sent |-> frames]
  OBVIOUS
<1>. DEFINE queue == tbl[e].queue
            s0 == [table |-> [tbl EXCEPT ![e].queue = <<>>], asked |-> ask, sent |-> frames]
            Loop(g) == [n \in 0 .. Len(s.table[e].queue) |->
                          IF n = 0 THEN [s EXCEPT !.table[e].queue = <<>>]
                          ELSE arp!ethernet_transmit(g[n - 1], s.table[e].queue[n].dst, s.table[e].queue[n].pkt)]
            G == [n \in 0 .. Len(queue) |->
                    [table |-> [tbl EXCEPT ![e].queue = <<>>], asked |-> ask,
                     sent |-> frames \o FramesOf(queue, n, ip)]]
<1>0. queue \in Seq(QueueRec) /\ Len(queue) \in Nat
  BY DEF EntryRec
<1>1. arp!flush(s, e) = (CHOOSE g : g = Loop(g))[Len(s.table[e].queue)]
  BY Zenon DEF arp!flush
<1>a. s.table[e].queue = queue /\ [s EXCEPT !.table[e].queue = <<>>] = s0
  BY <1>s
<1>2. ASSUME NEW n \in 1 .. Len(queue)
      PROVE  arp!ethernet_transmit(G[n - 1], queue[n].dst, queue[n].pkt) = G[n]
  <2>. DEFINE tbl0 == [tbl EXCEPT ![e].queue = <<>>]
              fr == frames \o FramesOf(queue, n - 1, ip)
  <2>1. Hop(queue[n].dst) = ip
    BY <1>2 DEF Hop
  <2>2. /\ tbl0 \in [arp!Entries -> EntryRec] /\ tbl0[e].in_use /\ tbl0[e].ipaddr = ip
        /\ tbl0[e].resolved /\ tbl0[e].time = uptime
        /\ \A f \in arp!Entries : tbl0[f].in_use /\ tbl0[f].ipaddr = ip => f = e
    <3>. DEFINE r == [tbl[e] EXCEPT !.queue = <<>>]
    <3>1. r \in EntryRec
      <4>1. tbl[e] \in EntryRec /\ <<>> \in Seq(QueueRec)
        OBVIOUS
      <4>. QED BY <4>1 DEF EntryRec
    <3>2. r.in_use = tbl[e].in_use /\ r.ipaddr = tbl[e].ipaddr /\ r.resolved = tbl[e].resolved /\ r.time = tbl[e].time
      BY DEF EntryRec
    <3>3. tbl0 = [tbl EXCEPT ![e] = r]
      OBVIOUS
    <3>. HIDE DEF r, tbl0
    <3>4. tbl0 \in [arp!Entries -> EntryRec] /\ tbl0[e] = r /\ \A f \in arp!Entries \ {e} : tbl0[f] = tbl[f]
      BY <3>1, <3>3
    <3>. QED BY <3>2, <3>4
  <2>3. [tbl0 EXCEPT ![e].time = uptime] = tbl0
    BY <2>2, ZenonT(40) DEF EntryRec
  <2>4. G[n - 1] = [table |-> tbl0, asked |-> ask, sent |-> fr]
    BY <1>0
  <2>5. Append(fr, [pkt |-> queue[n].pkt, mac |-> ip]) = frames \o FramesOf(queue, n, ip)
    <3>. DEFINE fs == FramesOf(queue, n - 1, ip)
                fr1 == [pkt |-> queue[n].pkt, mac |-> ip]
    <3>1. queue \in Seq(QueueRec) /\ n \in Nat /\ n =< Len(queue)
      BY <1>0
    <3>2. \A i \in 1 .. n : [pkt |-> queue[i].pkt, mac |-> ip] \in FrameRec
      <4>1. \A i \in 1 .. n : queue[i] \in QueueRec
        <5>. HIDE DEF queue
        <5>. QED BY <3>1
      <4>. QED BY <4>1 DEF FrameRec, QueueRec
    <3>3. fs \in Seq(FrameRec) /\ Len(fs) = n - 1 /\ FramesOf(queue, n, ip) \in Seq(FrameRec)
          /\ Len(FramesOf(queue, n, ip)) = n
      BY <3>1, <3>2 DEF FramesOf
    <3>4. \A i \in 1 .. n : FramesOf(queue, n, ip)[i] = IF i = n THEN fr1 ELSE fs[i]
      BY <3>1 DEF FramesOf
    <3>5. fr1 \in FrameRec
      BY <3>1, <3>2
    <3>. HIDE DEF fs, fr1
    <3>6. FramesOf(queue, n, ip) = Append(fs, fr1)
      BY <3>1, <3>3, <3>4, <3>5
    <3>7. Append(frames \o fs, fr1) = frames \o Append(fs, fr1)
      BY <3>3, <3>5, AppendConcat
    <3>. QED BY <3>6, <3>7 DEF fs, fr1
  <2>. HIDE DEF tbl0, fr
  <2>6. arp!ethernet_transmit([table |-> tbl0, asked |-> ask, sent |-> fr], queue[n].dst, queue[n].pkt)
          = [table |-> [tbl0 EXCEPT ![e].time = uptime], asked |-> ask,
             sent |-> Append(fr, [pkt |-> queue[n].pkt, mac |-> Hop(queue[n].dst)])]
    <3>1. PICK dst : dst = queue[n].dst
      OBVIOUS
    <3>2. PICK pkt : pkt = queue[n].pkt
      OBVIOUS
    <3>3. /\ tbl0[e].ipaddr = Hop(dst)
          /\ \A f \in arp!Entries : tbl0[f].in_use /\ tbl0[f].ipaddr = Hop(dst) => f = e
      BY <2>1, <2>2, <3>1
    <3>4. arp!ethernet_transmit([table |-> tbl0, asked |-> ask, sent |-> fr], dst, pkt)
            = [table |-> [tbl0 EXCEPT ![e].time = uptime], asked |-> ask,
               sent |-> Append(fr, [pkt |-> pkt, mac |-> Hop(dst)])]
      <4>1. PICK u : u = [table |-> tbl0, asked |-> ask, sent |-> fr]
        OBVIOUS
      <4>2. u.table = tbl0 /\ u.asked = ask /\ u.sent = fr
        BY <4>1
      <4>3. Resolved(u, e, Hop(dst))
        BY <2>2, <3>3, <4>1, <4>2 DEF Resolved
      <4>5. arp!ethernet_transmit(u, dst, pkt)
              = [table |-> [u.table EXCEPT ![e].time = uptime], asked |-> u.asked,
                 sent |-> Append(u.sent, [pkt |-> pkt, mac |-> Hop(dst)])]
        BY <4>3, TransmitsNow
      <4>. QED BY <4>1, <4>2, <4>5
    <3>. QED BY <3>1, <3>2, <3>4
  <2>7. G[n] = [table |-> tbl0, asked |-> ask, sent |-> frames \o FramesOf(queue, n, ip)]
    BY <1>0 DEF tbl0
  <2>. HIDE DEF G
  <2>. QED BY <2>1, <2>3, <2>4, <2>5, <2>6, <2>7
<1>3. G[0] = s0
  BY <1>0 DEF FramesOf
<1>4. G = Loop(G)
  <2>1. \A n \in 0 .. Len(queue) :
          G[n] = IF n = 0 THEN s0 ELSE arp!ethernet_transmit(G[n - 1], queue[n].dst, queue[n].pkt)
    <3>. HIDE DEF G, s0
    <3>1. \A n \in 1 .. Len(queue) : arp!ethernet_transmit(G[n - 1], queue[n].dst, queue[n].pkt) = G[n]
      BY <1>2
    <3>. QED BY <1>0, <1>3, <3>1
  <2>2. G = [n \in 0 .. Len(queue) |-> G[n]]
    OBVIOUS
  <2>3. Loop(G) = [n \in 0 .. Len(queue) |->
                    IF n = 0 THEN s0 ELSE arp!ethernet_transmit(G[n - 1], queue[n].dst, queue[n].pkt)]
    <3>. HIDE DEF G, s0
    <3>. QED BY <1>a
  <2>. HIDE DEF G, s0, Loop
  <2>. QED BY <2>1, <2>2, <2>3
<1>. DEFINE F == CHOOSE g : g = Loop(g)
<1>5. F = Loop(F)
  <2>. HIDE DEF G, Loop
  <2>. QED BY <1>4
<1>6. \A n \in 0 .. Len(queue) : F[n] = G[n]
  <2>. HIDE DEF F, G, s0
  <2>0. F = [n \in 0 .. Len(queue) |->
               IF n = 0 THEN s0 ELSE arp!ethernet_transmit(F[n - 1], queue[n].dst, queue[n].pkt)]
    BY <1>a, <1>5
  <2>. DEFINE Differ == {n \in 0 .. Len(queue) : F[n] # G[n]}
  <2>. SUFFICES ASSUME Differ # {} PROVE FALSE
    OBVIOUS
  <2>1. Differ \in SUBSET Nat
    BY <1>0
  <2>2. PICK n \in Differ : \A m \in Differ : n <= m
    BY <2>1, LeastExists
  <2>3. F[0] = G[0]
    BY <1>0, <1>3, <2>0
  <2>4. n \in 1 .. Len(queue) /\ n - 1 \in 0 .. Len(queue) /\ n - 1 \notin Differ
    BY <1>0, <2>2, <2>3
  <2>5. F[n - 1] = G[n - 1]
    BY <2>4
  <2>6. F[n] = arp!ethernet_transmit(F[n - 1], queue[n].dst, queue[n].pkt)
    BY <2>0, <2>4, SMTT(30)
  <2>. QED BY <1>2, <2>2, <2>4, <2>5, <2>6
<1>7. arp!flush(s, e) = G[Len(queue)]
  <2>. HIDE DEF G, Loop
  <2>. QED BY <1>0, <1>1, <1>6, <1>a
<1>. QED BY <1>0, <1>7, <1>s

\* The entry that a host has, or else the one that it is given, and what waits in it.
LEMMA EntryOf ==
    ASSUME ArpInv, NEW ip \in Local
    PROVE  \E e \in arp!Entries, queue \in Seq(QueueRec) :
             /\ e = IF arp!lookup_entry(table, ip) # 0 THEN arp!lookup_entry(table, ip) ELSE arp!alloc_entry(table)
             /\ queue = IF arp!lookup_entry(table, ip) # 0 THEN table[e].queue ELSE <<>>
             /\ \A f \in arp!Entries : table[f].in_use /\ table[f].ipaddr = ip => f = e
             /\ \/ queue = <<>>
                \/ table[e].in_use /\ table[e].ipaddr = ip /\ queue = table[e].queue
<1>1. table \in [arp!Entries -> EntryRec] /\ arp!EntriesUnique
  BY DEF ArpInv, ArpTypes
<1>2. arp!alloc_entry(table) \in arp!Entries
  <2>1. \A e \in arp!Entries : table[e].time \in Nat
    BY <1>1, ArpConstants DEF EntryRec
  <2>. QED BY <2>1, AllocFinds
<1>3. PICK old : old = arp!lookup_entry(table, ip)
  OBVIOUS
<1>4. CASE old \in arp!Entries /\ table[old].in_use /\ table[old].ipaddr = ip
  <2>1. old # 0
    BY <1>4, ArpConstants
  <2>2. table[old].queue \in Seq(QueueRec)
    BY <1>1, <1>4 DEF EntryRec
  <2>3. \A f \in arp!Entries : table[f].in_use /\ table[f].ipaddr = ip => f = old
    BY <1>1, <1>4 DEF arp!EntriesUnique
  <2>. QED BY <1>3, <1>4, <2>1, <2>2, <2>3
<1>5. CASE old = 0 /\ \A f \in arp!Entries : ~(table[f].in_use /\ table[f].ipaddr = ip)
  <2>1. <<>> \in Seq(QueueRec)
    OBVIOUS
  <2>. QED BY <1>2, <1>3, <1>5, <2>1
<1>. QED BY <1>3, <1>4, <1>5, LookupFinds

\* The stack in which the host has entry e, anew, and what has waited there is sent.
Registered(s, ip, ask, e, queue, entry) ==
    /\ entry.in_use /\ entry.ipaddr = ip /\ entry.queue = <<>>
    /\ s.table = [table EXCEPT ![e] = entry] /\ s.asked = ask
    /\ s.sent = sent \o FramesOf(queue, Len(queue), ip)
    /\ \A f \in arp!Entries : table[f].in_use /\ table[f].ipaddr = ip => f = e
    /\ \/ queue = <<>>
       \/ table[e].in_use /\ table[e].ipaddr = ip /\ queue = table[e].queue

\* arp_register_macaddr: the host has an entry that is resolved, and what has waited is sent.
LEMMA RegisterEffect ==
    ASSUME ArpInv, NEW ip \in Local, NEW ask
    PROVE  \E e \in arp!Entries, queue \in Seq(QueueRec), entry \in EntryRec :
             Registered(arp!arp_register_macaddr([table |-> table, asked |-> ask, sent |-> sent], ip), ip, ask,
                        e, queue, entry)
<1>0. PICK s : s = [table |-> table, asked |-> ask, sent |-> sent]
  OBVIOUS
<1>1. PICK e \in arp!Entries, queue \in Seq(QueueRec) :
        /\ e = IF arp!lookup_entry(table, ip) # 0 THEN arp!lookup_entry(table, ip) ELSE arp!alloc_entry(table)
        /\ queue = IF arp!lookup_entry(table, ip) # 0 THEN table[e].queue ELSE <<>>
        /\ \A f \in arp!Entries : table[f].in_use /\ table[f].ipaddr = ip => f = e
        /\ \/ queue = <<>>
           \/ table[e].in_use /\ table[e].ipaddr = ip /\ queue = table[e].queue
  BY EntryOf
<1>2. /\ table \in [arp!Entries -> EntryRec] /\ sent \in Seq(FrameRec) /\ uptime \in 0 .. MaxUptime
      /\ \A f \in arp!Entries : QueueSound(table[f], packets, sent)
  BY DEF ArpInv, ArpTypes
<1>3. PICK r \in EntryRec : r = [in_use |-> TRUE, resolved |-> TRUE, ipaddr |-> ip, time |-> uptime,
                                 queue |-> queue]
  BY <1>2 DEF EntryRec
<1>4. PICK tbl \in [arp!Entries -> EntryRec] : tbl = [table EXCEPT ![e] = r]
  BY <1>2, <1>3
<1>5. s.table = table /\ s.sent = sent /\ s.asked = ask
  BY <1>0
<1>6. arp!arp_register_macaddr(s, ip) = arp!flush([s EXCEPT !.table[e] = r], e)
  BY <1>1, <1>3, <1>5 DEF arp!arp_register_macaddr
<1>7. [s EXCEPT !.table[e] = r] = [table |-> tbl, asked |-> ask, sent |-> sent]
  BY <1>0, <1>4, <1>5
<1>8. tbl[e] = r /\ \A f \in arp!Entries \ {e} : tbl[f] = table[f]
  BY <1>2, <1>4
<1>9. /\ r.in_use /\ r.ipaddr = ip /\ r.resolved /\ r.time = uptime /\ r.queue = queue
      /\ \A f \in arp!Entries : tbl[f].in_use /\ tbl[f].ipaddr = ip => f = e
  BY <1>1, <1>3, <1>8
<1>10. \A i \in 1 .. Len(queue) : queue[i].dst = ip
  BY <1>1, <1>2 DEF QueueSound
<1>11. arp!flush([table |-> tbl, asked |-> ask, sent |-> sent], e)
         = [table |-> [tbl EXCEPT ![e].queue = <<>>], asked |-> ask,
            sent |-> sent \o FramesOf(queue, Len(queue), ip)]
  <2>1. PICK u : u = [table |-> tbl, asked |-> ask, sent |-> sent]
    OBVIOUS
  <2>2. u.table = tbl /\ u.asked = ask /\ u.sent = sent
    BY <2>1
  <2>3. Resolved(u, e, ip)
    BY <1>8, <1>9, <2>1, <2>2 DEF Resolved
  <2>4. /\ u.sent \in Seq(FrameRec) /\ u.table[e].time = uptime /\ u.table[e].queue = queue
        /\ \A i \in 1 .. Len(u.table[e].queue) : u.table[e].queue[i].dst = ip
    BY <1>2, <1>8, <1>9, <1>10, <2>2
  <2>5. arp!flush(u, e)
          = [table |-> [u.table EXCEPT ![e].queue = <<>>], asked |-> u.asked,
             sent |-> u.sent \o FramesOf(u.table[e].queue, Len(u.table[e].queue), ip)]
    BY <2>3, <2>4, FlushSends
  <2>. QED BY <2>1, <2>2, <2>4, <2>5
<1>12. PICK entry \in EntryRec : /\ entry.in_use /\ entry.ipaddr = ip /\ entry.queue = <<>>
                                 /\ [tbl EXCEPT ![e].queue = <<>>] = [table EXCEPT ![e] = entry]
  <2>. DEFINE entry == [r EXCEPT !.queue = <<>>]
  <2>1. <<>> \in Seq(QueueRec)
    OBVIOUS
  <2>2. entry \in EntryRec
    BY <2>1 DEF EntryRec
  <2>3. entry.in_use = r.in_use /\ entry.ipaddr = r.ipaddr /\ entry.queue = <<>>
    BY DEF EntryRec
  <2>4. [tbl EXCEPT ![e].queue = <<>>] = [tbl EXCEPT ![e] = entry]
    BY <1>8
  <2>. HIDE DEF entry
  <2>5. [tbl EXCEPT ![e] = entry] = [table EXCEPT ![e] = entry]
    BY <1>2, <1>4
  <2>. QED BY <1>9, <2>2, <2>3, <2>4, <2>5
<1>13. PICK res : res = arp!arp_register_macaddr(s, ip)
  OBVIOUS
<1>14. res = [table |-> [table EXCEPT ![e] = entry], asked |-> ask,
              sent |-> sent \o FramesOf(queue, Len(queue), ip)]
  BY <1>6, <1>7, <1>11, <1>12, <1>13
<1>15. /\ res.table = [table EXCEPT ![e] = entry]
       /\ res.asked = ask /\ res.sent = sent \o FramesOf(queue, Len(queue), ip)
  BY <1>14
<1>16. Registered(res, ip, ask, e, queue, entry)
  BY <1>1, <1>12, <1>15 DEF Registered
<1>17. res = arp!arp_register_macaddr([table |-> table, asked |-> ask, sent |-> sent], ip)
  BY <1>0, <1>13
<1>. QED BY <1>16, <1>17

\* The stack in which a packet is sent to a host that is resolved.
Transmitted(s, host, pkt, e) ==
    /\ table[e].in_use /\ table[e].ipaddr = host /\ table[e].resolved
    /\ s.table = [table EXCEPT ![e].time = uptime] /\ s.asked = arp_asked
    /\ s.sent = Append(sent, [pkt |-> pkt, mac |-> host])

\* The stack in which a packet waits for a host, behind those that wait already.
Queued(s, host, pkt, e, queue, time) ==
    /\ s.table = [table EXCEPT ![e] = [in_use |-> TRUE, resolved |-> FALSE, ipaddr |-> host,
                                       queue |-> Append(queue, [pkt |-> pkt, dst |-> host]), time |-> time]]
    /\ s.asked = arp_asked \cup {host} /\ s.sent = sent
    /\ \A f \in arp!Entries : table[f].in_use /\ table[f].ipaddr = host => f = e
    /\ \/ queue = <<>>
       \/ table[e].in_use /\ table[e].ipaddr = host /\ queue = table[e].queue

\* ethernet_transmit: the packet is sent if its hop is resolved, and waits otherwise.
LEMMA TransmitEffect ==
    ASSUME ArpInv, NEW dst \in Local \cup Remote, NEW pkt
    PROVE  LET res == arp!ethernet_transmit([table |-> table, asked |-> arp_asked, sent |-> sent], dst, pkt)
           IN  \E e \in arp!Entries :
                 \/ Transmitted(res, Hop(dst), pkt, e)
                 \/ \E queue \in Seq(QueueRec), time \in 0 .. MaxUptime :
                      Queued(res, Hop(dst), pkt, e, queue, time)
<1>0. PICK s : s = [table |-> table, asked |-> arp_asked, sent |-> sent]
  OBVIOUS
<1>1. PICK hop \in Local : hop = Hop(dst)
  BY ArpConstants DEF Hop
<1>2. PICK e \in arp!Entries, queue \in Seq(QueueRec) :
        /\ e = IF arp!lookup_entry(table, hop) # 0 THEN arp!lookup_entry(table, hop) ELSE arp!alloc_entry(table)
        /\ queue = IF arp!lookup_entry(table, hop) # 0 THEN table[e].queue ELSE <<>>
        /\ \A f \in arp!Entries : table[f].in_use /\ table[f].ipaddr = hop => f = e
        /\ \/ queue = <<>>
           \/ table[e].in_use /\ table[e].ipaddr = hop /\ queue = table[e].queue
  BY EntryOf
<1>3. /\ table \in [arp!Entries -> EntryRec] /\ uptime \in 0 .. MaxUptime
  BY DEF ArpInv, ArpTypes
<1>4. s.table = table /\ s.sent = sent /\ s.asked = arp_asked
      /\ s = [table |-> s.table, asked |-> s.asked, sent |-> s.sent]
  BY <1>0
<1>5. arp!device_get_next_hop(dst) = hop
  BY <1>1 DEF arp!device_get_next_hop, Hop
<1>6. CASE arp!arp_resolve(s, hop) # 0
  <2>1. /\ arp!lookup_entry(table, hop) # 0 /\ e = arp!lookup_entry(table, hop) /\ table[e].resolved
    BY <1>2, <1>4, <1>6 DEF arp!arp_resolve
  <2>2. table[e].in_use /\ table[e].ipaddr = hop
    BY <2>1, LookupFinds
  <2>3. arp!ethernet_transmit(s, dst, pkt)
          = [table |-> [s.table EXCEPT ![e].time = uptime], asked |-> s.asked,
             sent |-> Append(s.sent, [pkt |-> pkt, mac |-> Hop(dst)])]
    <3>1. Resolved(s, e, Hop(dst))
      BY <1>1, <1>2, <1>3, <1>4, <2>1, <2>2 DEF Resolved
    <3>. QED BY <3>1, TransmitsNow
  <2>4. PICK res : res = arp!ethernet_transmit(s, dst, pkt)
    OBVIOUS
  <2>5. res = [table |-> [table EXCEPT ![e].time = uptime], asked |-> arp_asked,
               sent |-> Append(sent, [pkt |-> pkt, mac |-> Hop(dst)])]
    BY <1>4, <2>3, <2>4
  <2>6. Transmitted(res, Hop(dst), pkt, e)
    BY <1>1, <2>1, <2>2, <2>5 DEF Transmitted
  <2>. QED BY <1>0, <2>4, <2>6
<1>7. CASE arp!arp_resolve(s, hop) = 0
  <2>1. arp!ethernet_transmit(s, dst, pkt) = arp!arp_request(arp!arp_enqueue(s, hop, pkt), hop)
    BY <1>5, <1>7 DEF arp!ethernet_transmit
  <2>2. PICK time \in 0 .. MaxUptime : time = IF arp!lookup_entry(table, hop) # 0 THEN table[e].time ELSE uptime
    BY <1>2, <1>3 DEF EntryRec
  <2>3. PICK r : r = [in_use |-> TRUE, resolved |-> FALSE, ipaddr |-> hop,
                      queue |-> Append(queue, [pkt |-> pkt, dst |-> hop]), time |-> time]
    OBVIOUS
  <2>4. arp!arp_enqueue(s, hop, pkt) = [s EXCEPT !.table[e] = r]
    <3>1. (IF arp!lookup_entry(table, hop) # 0 THEN Append(table[e].queue, [pkt |-> pkt, dst |-> hop])
           ELSE <<[pkt |-> pkt, dst |-> hop]>>) = Append(queue, [pkt |-> pkt, dst |-> hop])
      <4>1. Append(<<>>, [pkt |-> pkt, dst |-> hop]) = <<[pkt |-> pkt, dst |-> hop]>>
        OBVIOUS
      <4>. QED BY <1>2, <4>1
    <3>. QED BY <1>2, <1>4, <2>2, <2>3, <3>1 DEF arp!arp_enqueue
  <2>5. PICK res : res = arp!ethernet_transmit(s, dst, pkt)
    OBVIOUS
  <2>6. res.table = [table EXCEPT ![e] = r] /\ res.asked = arp_asked \cup {hop} /\ res.sent = sent
    BY <1>4, <2>1, <2>4, <2>5 DEF arp!arp_request
  <2>7. Queued(res, Hop(dst), pkt, e, queue, time)
    BY <1>1, <1>2, <2>3, <2>6 DEF Queued
  <2>. QED BY <1>0, <2>5, <2>7
<1>. QED BY <1>6, <1>7

\* The table is empty at first.
LEMMA InitArp == arp!Init => ArpInv
<1>. SUFFICES ASSUME arp!Init PROVE ArpInv
  OBVIOUS
<1>1. /\ table = [e \in arp!Entries |-> arp!NewEntry] /\ uptime = 0 /\ arp_asked = {}
      /\ packets = <<>> /\ sent = <<>>
  BY DEF arp!Init
<1>2. /\ arp!NewEntry \in EntryRec /\ ~arp!NewEntry.in_use /\ arp!NewEntry.queue = <<>>
  BY ArpConstants DEF arp!NewEntry, EntryRec
<1>3. /\ \A e \in arp!Entries : table[e] = arp!NewEntry
      /\ table \in [arp!Entries -> EntryRec]
  BY <1>1, <1>2
<1>4. ArpTypes
  BY <1>1, <1>3, ArpConstants DEF ArpTypes
<1>5. FramesSound(packets, sent)
  BY <1>1 DEF FramesSound
<1>6. arp!EntriesUnique /\ arp!NoneStuck
  BY <1>2, <1>3 DEF arp!EntriesUnique, arp!NoneStuck
<1>7. \A e \in arp!Entries : QueueSound(table[e], packets, sent)
  BY <1>2, <1>3 DEF QueueSound
<1>. QED BY <1>4, <1>5, <1>6, <1>7 DEF ArpInv

\* An entry is replaced by one of its host, or by that of a host without one.
Replaces(e, entry) ==
    /\ table' = [table EXCEPT ![e] = entry] /\ (entry.resolved => entry.queue = <<>>)
    /\ \A f \in arp!Entries : table[f].in_use /\ table[f].ipaddr = entry.ipaddr => f = e

\* Entries are still unique, and those that are resolved have nothing that waits.
LEMMA EntryReplaced ==
    ASSUME ArpInv, NEW e \in arp!Entries, NEW entry \in EntryRec, Replaces(e, entry)
    PROVE  /\ table' \in [arp!Entries -> EntryRec] /\ arp!EntriesUnique' /\ arp!NoneStuck'
           /\ table'[e] = entry /\ \A f \in arp!Entries \ {e} : table'[f] = table[f]
           /\ \A f \in arp!Entries \ {e} : table[f].in_use => table[f].ipaddr # entry.ipaddr
<1>1. table \in [arp!Entries -> EntryRec] /\ arp!EntriesUnique /\ arp!NoneStuck
  BY DEF ArpInv, ArpTypes
<1>2. /\ table' \in [arp!Entries -> EntryRec]
      /\ table'[e] = entry /\ \A f \in arp!Entries \ {e} : table'[f] = table[f]
      /\ \A f \in arp!Entries \ {e} : table[f].in_use => table[f].ipaddr # entry.ipaddr
  BY <1>1 DEF Replaces
<1>3. arp!EntriesUnique'
  BY <1>1, <1>2 DEF arp!EntriesUnique
<1>4. arp!NoneStuck'
  <2>1. entry.resolved => entry.queue = <<>>
    BY DEF Replaces
  <2>. QED BY <1>1, <1>2, <2>1 DEF arp!NoneStuck
<1>. QED BY <1>2, <1>3, <1>4

\* Two sequences of frames, one after the other.
LEMMA ConcatFrames ==
    ASSUME NEW a \in Seq(FrameRec), NEW b \in Seq(FrameRec)
    PROVE  /\ a \o b \in Seq(FrameRec) /\ Len(a \o b) = Len(a) + Len(b)
           /\ \A k \in 1 .. Len(a) : (a \o b)[k] = a[k]
           /\ \A k \in Len(a) + 1 .. Len(a) + Len(b) :
                k - Len(a) \in 1 .. Len(b) /\ (a \o b)[k] = b[k - Len(a)]
<1>1. a \o b \in Seq(FrameRec) /\ Len(a \o b) = Len(a) + Len(b) /\ Len(a) \in Nat /\ Len(b) \in Nat
  OBVIOUS
<1>2. \A k \in 1 .. Len(a) : (a \o b)[k] = a[k]
  OBVIOUS
<1>3. ASSUME NEW k \in Len(a) + 1 .. Len(a) + Len(b)
      PROVE  k - Len(a) \in 1 .. Len(b) /\ (a \o b)[k] = b[k - Len(a)]
  OBVIOUS
<1>. QED BY <1>1, <1>2, <1>3

\* arp_receive of an answer or of an announcement.
LEMMA RegisterKept ==
    ASSUME ArpInv, NEW ip \in Local, NEW ask \in SUBSET Local, NEW res, NEW e \in arp!Entries,
           NEW queue \in Seq(QueueRec), NEW entry \in EntryRec, Registered(res, ip, ask, e, queue, entry),
           table' = res.table, arp_asked' = res.asked, sent' = res.sent, UNCHANGED <<uptime, packets>>
    PROVE  ArpInv'
<1>1. /\ entry.in_use /\ entry.ipaddr = ip /\ entry.queue = <<>>
      /\ table' = [table EXCEPT ![e] = entry] /\ arp_asked' = ask
      /\ sent' = sent \o FramesOf(queue, Len(queue), ip)
      /\ \A f \in arp!Entries : table[f].in_use /\ table[f].ipaddr = ip => f = e
      /\ \/ queue = <<>>
         \/ table[e].in_use /\ table[e].ipaddr = ip /\ queue = table[e].queue
  BY DEF Registered
<1>2. PICK fs : fs = FramesOf(queue, Len(queue), ip)
  OBVIOUS
<1>3. /\ table' = [table EXCEPT ![e] = entry] /\ arp_asked' \subseteq Local /\ sent' = sent \o fs
  BY <1>1, <1>2
<1>4. /\ fs \in Seq(FrameRec) /\ Len(fs) = Len(queue)
      /\ \A i \in 1 .. Len(queue) : fs[i].pkt = queue[i].pkt /\ fs[i].mac = ip
  <2>1. \A i \in 1 .. Len(queue) : queue[i] \in QueueRec
    OBVIOUS
  <2>2. \A i \in 1 .. Len(queue) : [pkt |-> queue[i].pkt, mac |-> ip] \in FrameRec
    BY <2>1 DEF QueueRec, FrameRec
  <2>3. Len(queue) \in Nat
    OBVIOUS
  <2>. QED BY <1>2, <2>2, <2>3 DEF FramesOf
<1>5. /\ table' \in [arp!Entries -> EntryRec] /\ arp!EntriesUnique' /\ arp!NoneStuck'
      /\ table'[e] = entry /\ \A f \in arp!Entries \ {e} : table'[f] = table[f]
      /\ \A f \in arp!Entries \ {e} : table[f].in_use => table[f].ipaddr # ip
  <2>1. Replaces(e, entry)
    BY <1>1, <1>3 DEF Replaces
  <2>. QED BY <1>1, <2>1, EntryReplaced
<1>6. /\ ArpTypes /\ FramesSound(packets, sent) /\ \A f \in arp!Entries : QueueSound(table[f], packets, sent)
      /\ sent \in Seq(FrameRec) /\ Len(sent) \in Nat /\ Len(queue) \in Nat
  BY DEF ArpInv, ArpTypes
<1>7. /\ sent' \in Seq(FrameRec) /\ Len(sent') = Len(sent) + Len(queue)
      /\ \A k \in 1 .. Len(sent) : sent'[k] = sent[k]
      /\ \A k \in Len(sent) + 1 .. Len(sent) + Len(queue) :
          /\ k - Len(sent) \in 1 .. Len(queue)
          /\ sent'[k].pkt = queue[k - Len(sent)].pkt /\ sent'[k].mac = ip
  <2>0. PICK frames \in Seq(FrameRec) : frames = sent
    BY <1>6
  <2>a. fs \in Seq(FrameRec) /\ Len(fs) = Len(queue)
    BY <1>4
  <2>b. PICK both : both = frames \o fs
    OBVIOUS
  <2>c. /\ both \in Seq(FrameRec) /\ Len(both) = Len(frames) + Len(fs)
        /\ \A k \in 1 .. Len(frames) : both[k] = frames[k]
        /\ \A k \in Len(frames) + 1 .. Len(frames) + Len(fs) :
             k - Len(frames) \in 1 .. Len(fs) /\ both[k] = fs[k - Len(frames)]
    BY <2>a, <2>b, ConcatFrames
  <2>d. sent' = both
    BY <1>3, <2>0, <2>b
  <2>1. /\ sent' \in Seq(FrameRec) /\ Len(sent') = Len(sent) + Len(queue)
        /\ \A k \in 1 .. Len(sent) : sent'[k] = sent[k]
    BY <2>0, <2>a, <2>c, <2>d
  <2>2. \A k \in Len(sent) + 1 .. Len(sent) + Len(queue) :
          k - Len(sent) \in 1 .. Len(queue) /\ sent'[k] = fs[k - Len(sent)]
    BY <2>0, <2>a, <2>c, <2>d
  <2>. QED BY <1>4, <2>1, <2>2
<1>8. \A i \in 1 .. Len(queue) :
        /\ queue[i].pkt \in 1 .. Len(packets) /\ Hop(packets[queue[i].pkt]) = ip
        /\ \A j \in 1 .. Len(queue) : i < j => queue[i].pkt < queue[j].pkt
        /\ \A k \in 1 .. Len(sent) : sent[k].mac = ip => sent[k].pkt < queue[i].pkt
  BY <1>1, <1>6, SMTT(30) DEF QueueSound
<1>9. ArpTypes'
  BY <1>3, <1>5, <1>6, <1>7 DEF ArpTypes
<1>10. FramesSound(packets, sent')
  <2>1. \A k \in 1 .. Len(sent') :
          sent'[k].pkt \in 1 .. Len(packets) /\ sent'[k].mac = Hop(packets[sent'[k].pkt])
    <3>. SUFFICES ASSUME NEW k \in 1 .. Len(sent')
                  PROVE  sent'[k].pkt \in 1 .. Len(packets) /\ sent'[k].mac = Hop(packets[sent'[k].pkt])
      OBVIOUS
    <3>1. CASE k \in 1 .. Len(sent)
      BY <1>6, <1>7, <3>1 DEF FramesSound
    <3>2. CASE k \in Len(sent) + 1 .. Len(sent) + Len(queue)
      BY <1>7, <1>8, <3>2
    <3>. QED BY <1>6, <1>7, <3>1, <3>2
  <2>2. ASSUME NEW i \in 1 .. Len(sent'), NEW j \in 1 .. Len(sent'), i < j, sent'[i].mac = sent'[j].mac
        PROVE  sent'[i].pkt < sent'[j].pkt
    <3>1. CASE j \in 1 .. Len(sent)
      <4>1. i \in 1 .. Len(sent)
        BY <1>6, <2>2, <3>1
      <4>. QED BY <1>6, <1>7, <2>2, <3>1, <4>1 DEF FramesSound
    <3>2. CASE i \in 1 .. Len(sent) /\ j \in Len(sent) + 1 .. Len(sent) + Len(queue)
      BY <1>7, <1>8, <2>2, <3>2
    <3>3. CASE /\ i \in Len(sent) + 1 .. Len(sent) + Len(queue)
               /\ j \in Len(sent) + 1 .. Len(sent) + Len(queue)
      <4>1. i - Len(sent) < j - Len(sent)
        BY <1>6, <2>2, <3>3
      <4>. QED BY <1>7, <1>8, <3>3, <4>1
    <3>. QED BY <1>6, <1>7, <2>2, <3>1, <3>2, <3>3
  <2>. QED BY <2>1, <2>2 DEF FramesSound
<1>11. ASSUME NEW f \in arp!Entries PROVE QueueSound(table'[f], packets, sent')
  <2>1. CASE f = e
    BY <1>1, <1>5, <2>1 DEF QueueSound
  <2>2. CASE f # e /\ table[f].in_use
    <3>1. table'[f] = table[f] /\ table[f].ipaddr # ip /\ QueueSound(table[f], packets, sent)
      BY <1>5, <1>6, <2>2
    <3>2. \A k \in 1 .. Len(sent') : sent'[k].mac = table[f].ipaddr =>
            k \in 1 .. Len(sent) /\ sent'[k] = sent[k]
      BY <1>6, <1>7, <3>1
    <3>3. \A i \in 1 .. Len(table[f].queue) :
            /\ table[f].queue[i].dst = table[f].ipaddr /\ table[f].queue[i].pkt \in 1 .. Len(packets)
            /\ Hop(packets[table[f].queue[i].pkt]) = table[f].ipaddr
            /\ \A j \in 1 .. Len(table[f].queue) : i < j => table[f].queue[i].pkt < table[f].queue[j].pkt
            /\ \A k \in 1 .. Len(sent) : sent[k].mac = table[f].ipaddr => sent[k].pkt < table[f].queue[i].pkt
      BY <2>2, <3>1 DEF QueueSound
    <3>4. \A i \in 1 .. Len(table[f].queue) : \A k \in 1 .. Len(sent') :
            sent'[k].mac = table[f].ipaddr => sent'[k].pkt < table[f].queue[i].pkt
      BY <3>2, <3>3
    <3>5. table[f].ipaddr \in Local
      BY <2>2, <3>1 DEF QueueSound
    <3>6. QueueSound(table[f], packets, sent')
      BY <3>3, <3>4, <3>5 DEF QueueSound
    <3>. QED BY <3>1, <3>6
  <2>3. CASE f # e /\ ~table[f].in_use
    BY <1>5, <2>3 DEF QueueSound
  <2>. QED BY <2>1, <2>2, <2>3
<1>. QED BY <1>5, <1>9, <1>10, <1>11 DEF ArpInv

\* A packet more, which is not sent yet.
LEMMA PacketAdded ==
    ASSUME ArpInv, NEW dst \in Local \cup Remote, packets' = Append(packets, dst)
    PROVE  /\ packets' \in Seq(Local \cup Remote) /\ Len(packets') = Len(packets) + 1
           /\ packets'[Len(packets) + 1] = dst /\ Len(packets) \in Nat
           /\ FramesSound(packets', sent)
           /\ \A e \in arp!Entries : QueueSound(table[e], packets', sent)
<1>1. packets \in Seq(Local \cup Remote) /\ FramesSound(packets, sent)
      /\ \A e \in arp!Entries : QueueSound(table[e], packets, sent)
  BY DEF ArpInv, ArpTypes
<1>2. /\ packets' \in Seq(Local \cup Remote) /\ Len(packets') = Len(packets) + 1 /\ Len(packets) \in Nat
      /\ packets'[Len(packets) + 1] = dst /\ \A k \in 1 .. Len(packets) : packets'[k] = packets[k]
  BY <1>1
<1>3. \A k \in 1 .. Len(packets) : k \in 1 .. Len(packets')
  BY <1>2
<1>4. FramesSound(packets', sent)
  BY <1>1, <1>2, <1>3 DEF FramesSound
<1>5. ASSUME NEW e \in arp!Entries PROVE QueueSound(table[e], packets', sent)
  <2>1. QueueSound(table[e], packets, sent)
    BY <1>1
  <2>. QED BY <1>2, <1>3, <2>1 DEF QueueSound
<1>. QED BY <1>2, <1>4, <1>5

\* A packet is sent at once: nothing waits for its hop, so that nothing is overtaken.
LEMMA TransmitKept ==
    ASSUME ArpInv, NEW dst \in Local \cup Remote, NEW res, NEW e \in arp!Entries, Len(packets) < MaxPackets,
           packets' = Append(packets, dst), Transmitted(res, Hop(dst), Len(packets) + 1, e),
           table' = res.table, arp_asked' = res.asked, sent' = res.sent, UNCHANGED uptime
    PROVE  ArpInv'
<1>1. PICK hop \in Local : hop = Hop(dst)
  BY ArpConstants DEF Hop
<1>2. /\ table[e].in_use /\ table[e].ipaddr = hop /\ table[e].resolved
      /\ table' = [table EXCEPT ![e].time = uptime] /\ arp_asked' = arp_asked
      /\ sent' = Append(sent, [pkt |-> Len(packets) + 1, mac |-> hop])
  BY <1>1 DEF Transmitted
<1>3. /\ packets' \in Seq(Local \cup Remote) /\ Len(packets') = Len(packets) + 1
      /\ packets'[Len(packets) + 1] = dst /\ Len(packets) \in Nat
      /\ FramesSound(packets', sent)
      /\ \A f \in arp!Entries : QueueSound(table[f], packets', sent)
  BY PacketAdded
<1>4. /\ table \in [arp!Entries -> EntryRec] /\ uptime \in 0 .. MaxUptime /\ arp_asked \subseteq Local
      /\ sent \in Seq(FrameRec) /\ Len(packets) =< MaxPackets /\ arp!EntriesUnique /\ arp!NoneStuck
      /\ FramesSound(packets, sent)
  BY DEF ArpInv, ArpTypes
<1>5. PICK frame \in FrameRec : frame.pkt = Len(packets) + 1 /\ frame.mac = hop /\ sent' = Append(sent, frame)
  <2>1. Len(packets) + 1 \in 1 .. MaxPackets
    BY <1>3, ArpConstants
  <2>2. [pkt |-> Len(packets) + 1, mac |-> hop] \in FrameRec
    BY <2>1 DEF FrameRec
  <2>. QED BY <1>2, <2>2
<1>6. /\ sent' \in Seq(FrameRec) /\ Len(sent') = Len(sent) + 1 /\ Len(sent) \in Nat
      /\ sent'[Len(sent) + 1] = frame /\ \A k \in 1 .. Len(sent) : sent'[k] = sent[k]
  <2>1. PICK frames \in Seq(FrameRec) : frames = sent
    BY <1>4
  <2>2. /\ Append(frames, frame) \in Seq(FrameRec) /\ Len(Append(frames, frame)) = Len(frames) + 1
        /\ Len(frames) \in Nat /\ Append(frames, frame)[Len(frames) + 1] = frame
        /\ \A k \in 1 .. Len(frames) : Append(frames, frame)[k] = frames[k]
    OBVIOUS
  <2>. QED BY <1>5, <2>1, <2>2
<1>7. PICK entry \in EntryRec : /\ table' = [table EXCEPT ![e] = entry] /\ entry.in_use /\ entry.ipaddr = hop
                                /\ entry.resolved /\ entry.queue = <<>>
  <2>. DEFINE entry == [table[e] EXCEPT !.time = uptime]
  <2>1. table[e] \in EntryRec /\ table[e].queue = <<>>
    BY <1>2, <1>4 DEF arp!NoneStuck
  <2>2. entry \in EntryRec
    BY <1>4, <2>1 DEF EntryRec
  <2>3. /\ entry.in_use = table[e].in_use /\ entry.ipaddr = table[e].ipaddr
        /\ entry.resolved = table[e].resolved /\ entry.queue = table[e].queue
    BY <2>1 DEF EntryRec
  <2>4. table' = [table EXCEPT ![e] = entry]
    BY <1>2
  <2>. HIDE DEF entry
  <2>. QED BY <1>2, <2>1, <2>2, <2>3, <2>4
<1>8. /\ table' \in [arp!Entries -> EntryRec] /\ arp!EntriesUnique' /\ arp!NoneStuck'
      /\ table'[e] = entry /\ \A f \in arp!Entries \ {e} : table'[f] = table[f]
      /\ \A f \in arp!Entries \ {e} : table[f].in_use => table[f].ipaddr # hop
  <2>1. Replaces(e, entry)
    BY <1>2, <1>4, <1>7 DEF Replaces, arp!EntriesUnique
  <2>. QED BY <1>7, <2>1, EntryReplaced
<1>9. ArpTypes'
  <2>1. Len(packets') =< MaxPackets /\ uptime' \in 0 .. MaxUptime /\ arp_asked' \subseteq Local
    BY <1>2, <1>3, <1>4, ArpConstants
  <2>2. packets' \in Seq(Local \cup Remote) /\ sent' \in Seq(FrameRec) /\ table' \in [arp!Entries -> EntryRec]
    BY <1>3, <1>6, <1>8
  <2>. QED BY <2>1, <2>2 DEF ArpTypes
<1>10. FramesSound(packets', sent')
  <2>1. \A k \in 1 .. Len(sent') :
          sent'[k].pkt \in 1 .. Len(packets') /\ sent'[k].mac = Hop(packets'[sent'[k].pkt])
    <3>. SUFFICES ASSUME NEW k \in 1 .. Len(sent')
                  PROVE  sent'[k].pkt \in 1 .. Len(packets') /\ sent'[k].mac = Hop(packets'[sent'[k].pkt])
      OBVIOUS
    <3>1. CASE k \in 1 .. Len(sent)
      BY <1>3, <1>6, <3>1 DEF FramesSound
    <3>2. CASE k = Len(sent) + 1
      BY <1>1, <1>3, <1>5, <1>6, <3>2
    <3>. QED BY <1>6, <3>1, <3>2
  <2>2. ASSUME NEW i \in 1 .. Len(sent'), NEW j \in 1 .. Len(sent'), i < j, sent'[i].mac = sent'[j].mac
        PROVE  sent'[i].pkt < sent'[j].pkt
    <3>1. i \in 1 .. Len(sent)
      BY <1>6, <2>2
    <3>2. CASE j \in 1 .. Len(sent)
      BY <1>3, <1>6, <2>2, <3>1, <3>2 DEF FramesSound
    <3>3. CASE j = Len(sent) + 1
      <4>1. sent[i].pkt \in 1 .. Len(packets)
        BY <1>4, <3>1 DEF FramesSound
      <4>. QED BY <1>3, <1>5, <1>6, <3>1, <3>3, <4>1
    <3>. QED BY <1>6, <3>2, <3>3
  <2>. QED BY <2>1, <2>2 DEF FramesSound
<1>11. ASSUME NEW f \in arp!Entries PROVE QueueSound(table'[f], packets', sent')
  <2>1. CASE f = e
    BY <1>7, <1>8, <2>1 DEF QueueSound
  <2>2. CASE f # e /\ table[f].in_use
    <3>1. table'[f] = table[f] /\ table[f].ipaddr # hop /\ QueueSound(table[f], packets', sent)
      BY <1>3, <1>8, <2>2
    <3>2. \A k \in 1 .. Len(sent') : sent'[k].mac = table[f].ipaddr =>
            k \in 1 .. Len(sent) /\ sent'[k] = sent[k]
      BY <1>5, <1>6, <3>1
    <3>3. /\ table[f].ipaddr \in Local
          /\ \A i \in 1 .. Len(table[f].queue) :
              /\ table[f].queue[i].dst = table[f].ipaddr /\ table[f].queue[i].pkt \in 1 .. Len(packets')
              /\ Hop(packets'[table[f].queue[i].pkt]) = table[f].ipaddr
              /\ \A j \in 1 .. Len(table[f].queue) : i < j => table[f].queue[i].pkt < table[f].queue[j].pkt
              /\ \A k \in 1 .. Len(sent) : sent[k].mac = table[f].ipaddr => sent[k].pkt < table[f].queue[i].pkt
      BY <2>2, <3>1 DEF QueueSound
    <3>4. \A i \in 1 .. Len(table[f].queue) : \A k \in 1 .. Len(sent') :
            sent'[k].mac = table[f].ipaddr => sent'[k].pkt < table[f].queue[i].pkt
      BY <3>2, <3>3
    <3>5. QueueSound(table[f], packets', sent')
      BY <3>3, <3>4 DEF QueueSound
    <3>. QED BY <3>1, <3>5
  <2>3. CASE f # e /\ ~table[f].in_use
    BY <1>8, <2>3 DEF QueueSound
  <2>. QED BY <2>1, <2>2, <2>3
<1>. QED BY <1>8, <1>9, <1>10, <1>11 DEF ArpInv

\* A packet is put behind those that wait for its hop: it is the last of all packets so far.
LEMMA QueuedKept ==
    ASSUME ArpInv, NEW dst \in Local \cup Remote, NEW res, NEW e \in arp!Entries, Len(packets) < MaxPackets,
           NEW queue \in Seq(QueueRec), NEW time \in 0 .. MaxUptime,
           packets' = Append(packets, dst), Queued(res, Hop(dst), Len(packets) + 1, e, queue, time),
           table' = res.table, arp_asked' = res.asked, sent' = res.sent, UNCHANGED uptime
    PROVE  ArpInv'
<1>1. PICK hop \in Local : hop = Hop(dst)
  BY ArpConstants DEF Hop
<1>2. /\ table' = [table EXCEPT ![e] = [in_use |-> TRUE, resolved |-> FALSE, ipaddr |-> hop,
                                         queue |-> Append(queue, [pkt |-> Len(packets) + 1, dst |-> hop]),
                                         time |-> time]]
      /\ arp_asked' = arp_asked \cup {hop} /\ sent' = sent
      /\ \A f \in arp!Entries : table[f].in_use /\ table[f].ipaddr = hop => f = e
      /\ \/ queue = <<>>
         \/ table[e].in_use /\ table[e].ipaddr = hop /\ queue = table[e].queue
  BY <1>1 DEF Queued
<1>3. /\ packets' \in Seq(Local \cup Remote) /\ Len(packets') = Len(packets) + 1
      /\ packets'[Len(packets) + 1] = dst /\ Len(packets) \in Nat
      /\ FramesSound(packets', sent)
      /\ \A f \in arp!Entries : QueueSound(table[f], packets', sent)
  BY PacketAdded
<1>4. /\ table \in [arp!Entries -> EntryRec] /\ uptime \in 0 .. MaxUptime /\ arp_asked \subseteq Local
      /\ sent \in Seq(FrameRec) /\ Len(packets) =< MaxPackets
      /\ FramesSound(packets, sent) /\ QueueSound(table[e], packets, sent)
  BY DEF ArpInv, ArpTypes
<1>5. PICK qe \in QueueRec : qe = [pkt |-> Len(packets) + 1, dst |-> hop]
  <2>1. Len(packets) + 1 \in 1 .. MaxPackets
    BY <1>3, ArpConstants
  <2>. QED BY <2>1 DEF QueueRec
<1>6. qe.pkt = Len(packets) + 1 /\ qe.dst = hop
  BY <1>5
<1>7. PICK longer \in Seq(QueueRec) :
        /\ longer = Append(queue, qe) /\ Len(longer) = Len(queue) + 1 /\ Len(queue) \in Nat
        /\ longer[Len(queue) + 1] = qe /\ \A i \in 1 .. Len(queue) : longer[i] = queue[i]
  <2>1. /\ Append(queue, qe) \in Seq(QueueRec) /\ Len(Append(queue, qe)) = Len(queue) + 1 /\ Len(queue) \in Nat
        /\ Append(queue, qe)[Len(queue) + 1] = qe /\ \A i \in 1 .. Len(queue) : Append(queue, qe)[i] = queue[i]
    OBVIOUS
  <2>. QED BY <2>1
<1>8. PICK entry \in EntryRec : /\ table' = [table EXCEPT ![e] = entry] /\ entry.in_use /\ entry.ipaddr = hop
                                /\ ~entry.resolved /\ entry.queue = longer
  <2>. DEFINE entry == [in_use |-> TRUE, resolved |-> FALSE, ipaddr |-> hop, queue |-> longer, time |-> time]
  <2>1. entry \in EntryRec
    BY DEF EntryRec
  <2>2. entry.in_use /\ entry.ipaddr = hop /\ ~entry.resolved /\ entry.queue = longer
    OBVIOUS
  <2>3. table' = [table EXCEPT ![e] = entry]
    BY <1>2, <1>5, <1>7
  <2>. HIDE DEF entry
  <2>. QED BY <2>1, <2>2, <2>3
<1>9. /\ table' \in [arp!Entries -> EntryRec] /\ arp!EntriesUnique' /\ arp!NoneStuck'
      /\ table'[e] = entry /\ \A f \in arp!Entries \ {e} : table'[f] = table[f]
  <2>1. Replaces(e, entry)
    BY <1>2, <1>8 DEF Replaces
  <2>. QED BY <1>8, <2>1, EntryReplaced
<1>10. ArpTypes'
  <2>1. Len(packets') =< MaxPackets /\ uptime' \in 0 .. MaxUptime /\ arp_asked' \subseteq Local
    BY <1>2, <1>3, <1>4, ArpConstants
  <2>2. packets' \in Seq(Local \cup Remote) /\ sent' \in Seq(FrameRec) /\ table' \in [arp!Entries -> EntryRec]
    BY <1>2, <1>3, <1>4, <1>9
  <2>. QED BY <2>1, <2>2 DEF ArpTypes
<1>11. \A i \in 1 .. Len(queue) :
         /\ queue[i].dst = hop /\ queue[i].pkt \in 1 .. Len(packets) /\ queue[i].pkt \in 1 .. Len(packets')
         /\ Hop(packets'[queue[i].pkt]) = hop
         /\ \A j \in 1 .. Len(queue) : i < j => queue[i].pkt < queue[j].pkt
         /\ \A k \in 1 .. Len(sent) : sent[k].mac = hop => sent[k].pkt < queue[i].pkt
  <2>1. QueueSound(table[e], packets', sent)
    BY <1>3
  <2>2. CASE queue = <<>>
    <3>1. Len(queue) = 0
      BY <2>2
    <3>. QED BY <3>1
  <2>3. CASE table[e].in_use /\ table[e].ipaddr = hop /\ queue = table[e].queue
    <3>1. \A i \in 1 .. Len(queue) :
            /\ queue[i].dst = hop /\ queue[i].pkt \in 1 .. Len(packets')
            /\ Hop(packets'[queue[i].pkt]) = hop
            /\ \A j \in 1 .. Len(queue) : i < j => queue[i].pkt < queue[j].pkt
            /\ \A k \in 1 .. Len(sent) : sent[k].mac = hop => sent[k].pkt < queue[i].pkt
      BY <2>1, <2>3 DEF QueueSound
    <3>2. \A i \in 1 .. Len(queue) : queue[i].pkt \in 1 .. Len(packets)
      BY <1>4, <2>3 DEF QueueSound
    <3>. QED BY <3>1, <3>2
  <2>. QED BY <1>2, <2>2, <2>3
<1>12. QueueSound(entry, packets', sent)
  <2>. SUFFICES ASSUME NEW i \in 1 .. Len(longer)
                PROVE  /\ longer[i].dst = hop
                       /\ longer[i].pkt \in 1 .. Len(packets') /\ Hop(packets'[longer[i].pkt]) = hop
                       /\ \A j \in 1 .. Len(longer) : i < j => longer[i].pkt < longer[j].pkt
                       /\ \A k \in 1 .. Len(sent) : sent[k].mac = hop => sent[k].pkt < longer[i].pkt
    BY <1>8 DEF QueueSound
  <2>1. CASE i \in 1 .. Len(queue)
    <3>1. longer[i] = queue[i]
      BY <1>7, <2>1
    <3>2. ASSUME NEW j \in 1 .. Len(longer), i < j PROVE longer[i].pkt < longer[j].pkt
      <4>1. CASE j \in 1 .. Len(queue)
        BY <1>7, <1>11, <2>1, <3>1, <3>2, <4>1
      <4>2. CASE j = Len(queue) + 1
        BY <1>3, <1>6, <1>7, <1>11, <2>1, <3>1, <4>2
      <4>. QED BY <1>7, <4>1, <4>2
    <3>. QED BY <1>11, <2>1, <3>1, <3>2
  <2>2. CASE i = Len(queue) + 1
    <3>1. longer[i] = qe /\ \A j \in 1 .. Len(longer) : ~(i < j)
      BY <1>7, <2>2
    <3>2. \A k \in 1 .. Len(sent) : sent[k].pkt \in 1 .. Len(packets)
      BY <1>4 DEF FramesSound
    <3>. QED BY <1>1, <1>3, <1>6, <3>1, <3>2
  <2>. QED BY <1>7, <2>1, <2>2
<1>13. \A f \in arp!Entries : QueueSound(table'[f], packets', sent')
  BY <1>2, <1>3, <1>9, <1>12
<1>. QED BY <1>2, <1>3, <1>9, <1>10, <1>13 DEF ArpInv

\* Every step of ARP keeps the invariant.
LEMMA ArpKept ==
    ASSUME ArpInv, arp!Next
    PROVE  ArpInv'
<1>1. ASSUME NEW dst \in Local \cup Remote, arp!Transmit(dst) PROVE ArpInv'
  <2>1. PICK res : /\ res = arp!ethernet_transmit([table |-> table, asked |-> arp_asked, sent |-> sent], dst,
                                                  Len(packets) + 1)
                   /\ table' = res.table /\ arp_asked' = res.asked /\ sent' = res.sent
    BY <1>1 DEF arp!Transmit, arp!Becomes, arp!Stack
  <2>2. Len(packets) < MaxPackets /\ packets' = Append(packets, dst) /\ UNCHANGED uptime
    BY <1>1 DEF arp!Transmit
  <2>3. PICK e \in arp!Entries :
          \/ Transmitted(res, Hop(dst), Len(packets) + 1, e)
          \/ \E queue \in Seq(QueueRec), time \in 0 .. MaxUptime :
               Queued(res, Hop(dst), Len(packets) + 1, e, queue, time)
    <3>1. PICK pkt : pkt = Len(packets) + 1
      OBVIOUS
    <3>2. PICK r : r = arp!ethernet_transmit([table |-> table, asked |-> arp_asked, sent |-> sent], dst, pkt)
      OBVIOUS
    <3>3. \E e \in arp!Entries :
            \/ Transmitted(r, Hop(dst), pkt, e)
            \/ \E queue \in Seq(QueueRec), time \in 0 .. MaxUptime : Queued(r, Hop(dst), pkt, e, queue, time)
      BY <3>2, TransmitEffect
    <3>. QED BY <2>1, <3>1, <3>2, <3>3
  <2>4. CASE Transmitted(res, Hop(dst), Len(packets) + 1, e)
    BY <2>1, <2>2, <2>4, TransmitKept
  <2>5. ASSUME NEW queue \in Seq(QueueRec), NEW time \in 0 .. MaxUptime,
               Queued(res, Hop(dst), Len(packets) + 1, e, queue, time)
        PROVE  ArpInv'
    BY <2>1, <2>2, <2>5, QueuedKept
  <2>. QED BY <2>3, <2>4, <2>5
<1>2. ASSUME NEW h \in Local, NEW ask \in SUBSET Local, UNCHANGED <<uptime, packets>>,
             arp!Becomes(arp!arp_register_macaddr([table |-> table, asked |-> ask, sent |-> sent], h))
      PROVE  ArpInv'
  <2>1. PICK res : /\ res = arp!arp_register_macaddr([table |-> table, asked |-> ask, sent |-> sent], h)
                   /\ table' = res.table /\ arp_asked' = res.asked /\ sent' = res.sent
    BY <1>2 DEF arp!Becomes
  <2>2. PICK e \in arp!Entries, queue \in Seq(QueueRec), entry \in EntryRec :
          Registered(res, h, ask, e, queue, entry)
    BY <2>1, RegisterEffect
  <2>. QED BY <1>2, <2>1, <2>2, RegisterKept
<1>3. arp_asked \subseteq Local
  BY DEF ArpInv, ArpTypes
<1>4. ASSUME NEW h \in Local, arp!Answer(h) PROVE ArpInv'
  <2>1. [arp!Stack EXCEPT !.asked = arp!Stack.asked \ {h}]
          = [table |-> table, asked |-> arp_asked \ {h}, sent |-> sent]
    BY DEF arp!Stack
  <2>2. arp_asked \ {h} \in SUBSET Local
    BY <1>3
  <2>. QED BY <1>2, <1>4, <2>1, <2>2 DEF arp!Answer
<1>5. ASSUME NEW h \in Local, arp!Announce(h) PROVE ArpInv'
  BY <1>2, <1>3, <1>5 DEF arp!Announce, arp!Stack
<1>6. ASSUME NEW h \in Local, arp!Lose(h) PROVE ArpInv'
  <2>1. arp_asked' \subseteq Local /\ UNCHANGED <<table, uptime, packets, sent>>
    BY <1>3, <1>6 DEF arp!Lose
  <2>. QED BY <2>1 DEF ArpInv, ArpTypes, arp!EntriesUnique, arp!NoneStuck
<1>7. CASE arp!Tick
  <2>1. uptime' \in 0 .. MaxUptime /\ UNCHANGED <<table, arp_asked, packets, sent>>
    BY <1>7, ArpConstants DEF arp!Tick, ArpInv, ArpTypes
  <2>. QED BY <2>1 DEF ArpInv, ArpTypes, arp!EntriesUnique, arp!NoneStuck
<1>. QED BY <1>1, <1>4, <1>5, <1>6, <1>7 DEF arp!Next

\* The invariant is what the run checks, and more.
LEMMA ArpInvEnough == ArpInv => arp!TypeOK /\ arp!EntriesUnique /\ arp!SentRight /\ arp!InOrder /\ arp!NoneStuck
<1>. SUFFICES ASSUME ArpInv
              PROVE  arp!TypeOK /\ arp!EntriesUnique /\ arp!SentRight /\ arp!InOrder /\ arp!NoneStuck
  OBVIOUS
<1>1. ArpTypes /\ arp!EntriesUnique /\ arp!NoneStuck /\ FramesSound(packets, sent)
  BY DEF ArpInv
<1>2. arp!SentRight /\ arp!InOrder
  BY <1>1 DEF FramesSound, Hop, arp!SentRight, arp!InOrder
<1>3. ASSUME NEW e \in arp!Entries
      PROVE  /\ table[e].in_use \in BOOLEAN /\ table[e].resolved \in BOOLEAN
             /\ table[e].ipaddr \in Local \cup {arp!None} /\ table[e].time \in 0 .. MaxUptime
             /\ \A i \in 1 .. Len(table[e].queue) : table[e].queue[i].pkt \in 1 .. MaxPackets
  <2>1. table[e] \in EntryRec
    BY <1>1 DEF ArpTypes
  <2>2. PICK queue \in Seq(QueueRec) : queue = table[e].queue
    BY <2>1 DEF EntryRec
  <2>3. \A i \in 1 .. Len(queue) : queue[i] \in QueueRec
    OBVIOUS
  <2>4. \A i \in 1 .. Len(queue) : queue[i].pkt \in 1 .. MaxPackets
    BY <2>3 DEF QueueRec
  <2>. QED BY <2>1, <2>2, <2>4 DEF EntryRec
<1>4. \A i \in 1 .. Len(sent) : sent[i].mac \in Local
  <2>1. PICK frames \in Seq(FrameRec) : frames = sent
    BY <1>1 DEF ArpTypes
  <2>2. \A i \in 1 .. Len(frames) : frames[i] \in FrameRec
    OBVIOUS
  <2>. QED BY <2>1, <2>2 DEF FrameRec
<1>. QED BY <1>1, <1>2, <1>3, <1>4 DEF arp!TypeOK, ArpTypes

\* arp.c, dhcp.c and dns.c: a frame goes to the next hop of its packet, those to one hop in
\* their order and once, and none is left waiting for a hop that is known; applications are
\* served once the device has an address, which was offered to it; and as long as the IDs of
\* queries have not come round, a task gets the address of the name it has asked for, and
\* requests in the list and tasks that wait are the same.
THEOREM AddressesAreRight ==
    ASSUME IdsLast
    PROVE  Spec => []AddressesRight
<1>. DEFINE Inv == ArpInv /\ DhcpInv /\ DnsInv
<1>1. Init => Inv
  BY InitArp, InitDhcp, InitDns DEF Init
<1>2. Inv /\ [Next]_vars => Inv'
  <2>. SUFFICES ASSUME Inv, [Next]_vars PROVE Inv'
    OBVIOUS
  <2>1. ArpInv'
    <3>1. CASE arp!Next
      BY <3>1, ArpKept
    <3>2. CASE UNCHANGED ArpVars
      BY <3>2 DEF ArpVars, ArpInv, ArpTypes, arp!EntriesUnique, arp!NoneStuck
    <3>. QED BY <3>1, <3>2 DEF Next, TcpStep, MbufStep, ArpStep, DhcpStep, DnsStep, SocketsStep, vars
  <2>2. DhcpInv'
    <3>1. CASE dhcp!Next
      BY <3>1, DhcpKept
    <3>2. CASE UNCHANGED DhcpVars
      BY <3>2 DEF DhcpVars, DhcpInv, dhcp!TypeOK, dhcp!ReadyConfigured, dhcp!AsksOffered
    <3>. QED BY <3>1, <3>2 DEF Next, TcpStep, MbufStep, ArpStep, DhcpStep, DnsStep, SocketsStep, vars
  <2>3. DnsInv'
    <3>1. CASE dns!Next
      BY <3>1, ResolveKept, DnsReceiveKept, DnsServed DEF dns!Next
    <3>2. CASE UNCHANGED DnsVars
      BY <3>2 DEF DnsVars, DnsInv, dns!TypeOK, dns!AnswerMatches, dns!RequestsWaiting, QueriesMatch, Used, Ours
    <3>. QED BY <3>1, <3>2 DEF Next, TcpStep, MbufStep, ArpStep, DhcpStep, DnsStep, SocketsStep, vars
  <2>. QED BY <2>1, <2>2, <2>3
<1>3. Inv => AddressesRight
  BY ArpInvEnough DEF AddressesRight, DhcpInv, DnsInv
<1>. QED BY <1>1, <1>2, <1>3, PTL DEF Spec
=============================================================================
