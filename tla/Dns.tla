-------------------------------- MODULE Dns --------------------------------
(***************************************************************************)
(* Name resolution: the DNS client of the TCP/IP server                    *)
(* (servers/tcpip/dns.c) and TCPIP_DNS_RESOLVE_MSG of main.c, with tasks   *)
(* that ask for names and a DNS server whose answers are lost, doubled and *)
(* reordered.  The address of a name is the name itself.                   *)
(***************************************************************************)
EXTENDS Integers

CONSTANTS
    Tasks,          \* clients
    Hosts,          \* names with at least one A record
    Missing,        \* names without
    Long,           \* names with a label of more than 63 characters
    IdMod,          \* 2^16: the type of next_query_id
    Lossy,          \* are packets lost and doubled?
    MaxQueries      \* bound on the queries

DnsAssumption ==
    /\ IdMod \in Nat \ {0} /\ MaxQueries \in Nat /\ Lossy \in BOOLEAN
    /\ "none" \notin Hosts \cup Missing \cup Long

Names == Hosts \cup Missing \cup Long
None == "none"

VARIABLES
    waiting,        \* the name that each task waits for, or None
    got,            \* the answer it got last, and for what: [name, addr]
    dns_requests,   \* the list of requests, whose order is of no use: a set of [id, task]
    next_query_id,
    wire,           \* packets: [type, id, name, n (A records), from]
    count,          \* queries so far
    alive           \* has no assertion of the server failed?

vars == <<waiting, got, dns_requests, next_query_id, wire, count, alive>>

TypeOK ==
    /\ waiting \in [Tasks -> Names \cup {None}]
    /\ dns_requests \subseteq [id : 0 .. IdMod - 1, task : Tasks]
    /\ next_query_id \in 0 .. IdMod - 1 /\ count \in 0 .. MaxQueries /\ alive \in BOOLEAN

Init ==
    /\ waiting = [t \in Tasks |-> None] /\ got = [t \in Tasks |-> [name |-> None, addr |-> None]]
    /\ dns_requests = {} /\ next_query_id = 1 % IdMod /\ wire = {} /\ count = 0 /\ alive = TRUE
-----------------------------------------------------------------------------
\* next_query_id++
next_id == (next_query_id + 1) % IdMod

Packet(type, id, name, n, from) == [type |-> type, id |-> id, name |-> name, n |-> n, from |-> from]

\* As remembered, the request forgotten while another is pending.
remembered_first(t) == IF dns_requests = {} THEN {[id |-> next_query_id, task |-> t]} ELSE dns_requests

\* The request that dns_query puts into the list.
remembered(t) == dns_requests \cup {[id |-> next_query_id, task |-> t]}

\* TCPIP_DNS_RESOLVE_MSG: dns_query.  A label that is too long leads to free(s), where s is no
\* longer what strdup has returned.
Resolve(t) ==
    \E name \in Names :
        /\ alive /\ waiting[t] = None /\ count < MaxQueries
        /\ waiting' = [waiting EXCEPT ![t] = name] /\ count' = count + 1
        /\ IF name \in Long
           THEN alive' = FALSE /\ UNCHANGED <<dns_requests, next_query_id, wire>>
           ELSE /\ wire' = wire \cup {Packet("query", next_query_id, name, 0, "us")}
                /\ dns_requests' = remembered(t) /\ next_query_id' = next_id
                /\ UNCHANGED alive
        /\ UNCHANGED got

\* id == req->id
matches(p, r) == p.id = r.id

\* As answered, the requests kept.
answered_kept(p) == dns_requests

\* The requests that are left: every A record answers all of its ID.
answered(p) == {r \in dns_requests : ~(p.n > 0 /\ matches(p, r))}

\* As trusted, anybody trusted.
trusted_all(p) == TRUE

\* dns_receive takes packets of the DNS server only.
trusted(p) == p.from = "server"

\* dns_receive, dns_process and callback_dns_got_answer: ipc_reply reaches a task that waits.
DnsReceive(p) ==
    LET told == {r.task : r \in {q \in dns_requests : matches(p, q)}} IN
    /\ alive /\ p \in wire /\ p.type = "answer"
    /\ \E keep \in {wire \ {p}} \cup (IF Lossy THEN {wire} ELSE {}) : wire' = keep
    /\ IF trusted(p) /\ p.n > 0
       THEN /\ dns_requests' = answered(p)
            /\ got' = [t \in Tasks |-> IF t \in told /\ waiting[t] # None
                                       THEN [name |-> waiting[t], addr |-> p.name] ELSE got[t]]
            /\ waiting' = [t \in Tasks |-> IF t \in told THEN None ELSE waiting[t]]
       ELSE UNCHANGED <<dns_requests, got, waiting>>
    /\ UNCHANGED <<next_query_id, count, alive>>

\* The DNS server answers a query, with no, one or two A records.
Serve(p) ==
    /\ p \in wire /\ p.type = "query"
    /\ \E n \in (IF p.name \in Hosts THEN {1, 2} ELSE {0}) :
        wire' = (wire \ {p}) \cup {Packet("answer", p.id, p.name, n, "server")}
    /\ UNCHANGED <<waiting, got, dns_requests, next_query_id, count, alive>>

\* A packet is lost, or somebody else sends one.
Disturb ==
    /\ Lossy /\ alive
    /\ \/ \E p \in wire : wire' = wire \ {p}
       \/ \E i \in 0 .. IdMod - 1 : i < count /\ wire' = wire \cup {Packet("answer", i, "junk", 1, "stranger")}
    /\ UNCHANGED <<waiting, got, dns_requests, next_query_id, count, alive>>

Next ==
    \/ \E t \in Tasks : Resolve(t)
    \/ \E p \in wire : DnsReceive(p)
    \/ \E p \in wire : Serve(p)
    \/ Disturb

Spec == Init /\ [][Next]_vars
-----------------------------------------------------------------------------
\* A task gets the address of the name that it has asked for.
AnswerMatches == \A t \in Tasks : got[t].addr = got[t].name

\* A task that waits has its request in the list, and only such tasks have: an answer is never
\* sent to a task that does something else.
RequestsWaiting ==
    alive => \A t \in Tasks : (waiting[t] # None) <=> \E r \in dns_requests : r.task = t

\* A query for a name that exists is answered, if nothing is lost.
Resolves == \A t \in Tasks : []<>(waiting[t] \notin Hosts)
-----------------------------------------------------------------------------
(* What the source says and the code does not do (README, Disagreements).  *)

\* Every query that the DNS server answers is answered to the task.
AlwaysAnswered == \A t \in Tasks : waiting[t] # None ~> waiting[t] = None

\* A name with a label that is too long is refused; the server lives.
StackAlive == alive
=============================================================================
