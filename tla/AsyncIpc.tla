------------------------------ MODULE AsyncIpc ------------------------------
(***************************************************************************)
(* The user-level IPC library (libs/user/ipc.c): asynchronous messages     *)
(* over blocking message passing.  ipc_send_async keeps the message in the *)
(* sender and sets a notification bit at the receiver; the receiver's      *)
(* ipc_recv turns the bit into a call (ASYNC_RECV_MSG) back to the sender, *)
(* whose own ipc_recv answers it from its list.                            *)
(*                                                                         *)
(* The kernel below (kernel/ipc.c) is the atomic hand-over that module     *)
(* Kernel shows it to be: a send completes when the destination receives.  *)
(*                                                                         *)
(* Tasks are programs that loop: they compute, send, and call ipc_recv     *)
(* with IPC_ANY.  A program that ends up in an error return of ipc_recv    *)
(* dies of its ASSERT_OK; dead_lock records those.                         *)
(***************************************************************************)
EXTENDS Integers, Sequences, FiniteSets, SequencesExt

CONSTANTS
    Tasks,          \* task IDs, positive numbers
    Async,          \* pairs <<s, d>>: s uses ipc_send_async with d
    Calls,          \* pairs <<c, s>>: c uses ipc_call with s
    Sends,          \* pairs <<s, d>>: s uses ipc_send with d
    Listeners,      \* tasks that get interrupt notifications
    MaxQueue        \* bound on async_messages of a task

AsyncAssumption ==
    /\ Tasks \subseteq Nat \ {0} /\ MaxQueue \in Nat \ {0}
    /\ Async \cup Calls \cup Sends \subseteq {p \in Tasks \X Tasks : p[1] # p[2]}
    /\ Listeners \subseteq Tasks

NoTask == 0
\* Bit numbers of notifications, and the bit that stands for an async sender.
IRQ == 1
NOTIFY_ASYNC(t) == 3 + t
Bits == {IRQ} \cup {NOTIFY_ASYNC(t) : t \in Tasks}

\* Messages are numbered in a cycle longer than a queue, to tell them apart.
Numbers == 0 .. MaxQueue

VARIABLES
    pc,             \* where each task is, see Places
    peer,           \* whom it sends to, waits for or answers
    kind,           \* what it is sending
    senders,        \* kernel: tasks blocked in a send to this one, in order
    notifications,  \* kernel: notifications not yet received
    pending,        \* pending_notifications
    async_messages, \* the list of messages not yet asked for
    sent, got,      \* per pair: number of the last message sent and received
    dead_lock       \* tasks to which the kernel has returned ERR_DEAD_LOCK

kernelVars == <<pc, peer, kind, senders, notifications>>
vars == <<kernelVars, pending, async_messages, sent, got, dead_lock>>

(***************************************************************************)
(* "run": in the program.  "recv": at the head of the loop of              *)
(* ipc_recv_any.  "open": blocked in an open receive.  "sending": blocked  *)
(* in a send to peer, or in the send half of a call.  "closed": waiting    *)
(* for peer's message.  "serve": has received a call of peer's.  "reply",  *)
(* "renotify": in async_reply for peer.                                    *)
(***************************************************************************)
Places == {"run", "recv", "open", "sending", "closed", "serve", "reply", "renotify"}
Kinds == {"send", "call", "poll"}

TypeOK ==
    /\ pc \in [Tasks -> Places] /\ peer \in [Tasks -> Tasks \cup {NoTask}]
    /\ kind \in [Tasks -> Kinds]
    /\ senders \in [Tasks -> Seq(Tasks)]
    /\ notifications \in [Tasks -> SUBSET Bits] /\ pending \in [Tasks -> SUBSET Bits]
    /\ async_messages \in [Tasks -> Seq([dst : Tasks, n : Numbers])]
    /\ sent \in [Async -> Numbers] /\ got \in [Async -> Numbers]
    /\ dead_lock \subseteq Tasks

Init ==
    /\ pc = [t \in Tasks |-> "run"] /\ peer = [t \in Tasks |-> NoTask]
    /\ kind = [t \in Tasks |-> "send"]
    /\ senders = [t \in Tasks |-> <<>>]
    /\ notifications = [t \in Tasks |-> {}] /\ pending = [t \in Tasks |-> {}]
    /\ async_messages = [t \in Tasks |-> <<>>]
    /\ sent = [p \in Async |-> 0] /\ got = [p \in Async |-> 0]
    /\ dead_lock = {}
-----------------------------------------------------------------------------
(* The kernel's part.                                                      *)

\* As Taken, with a call that is forgotten.
TakenUnanswered(k) == IF k = "poll" THEN "reply" ELSE "run"

\* Where a receiver goes on with a message of the given kind.
Taken(k) == CASE k = "send" -> "run" [] k = "call" -> "serve" [] k = "poll" -> "reply"

\* As Sent, with a call that does not wait for the answer.
SentOnly(k) == "run"

\* Where a sender goes on once its message has been taken.
Sent(k) == IF k = "send" THEN "run" ELSE "closed"

\* notify(): a blocked open receiver gets the bits at once.
Notify(d, bits) ==
    IF pc[d] = "open"
    THEN /\ pc' = [pc EXCEPT ![d] = "recv"]
         /\ pending' = [pending EXCEPT ![d] = @ \cup bits]
         /\ UNCHANGED notifications
    ELSE /\ notifications' = [notifications EXCEPT ![d] = @ \cup bits]
         /\ UNCHANGED <<pc, pending>>

\* A message of kind k from t is taken by d.
HandOver(t, d, k) ==
    /\ pc' = [pc EXCEPT ![t] = Sent(k), ![d] = Taken(k)]
    /\ peer' = [peer EXCEPT ![t] = d, ![d] = t]

\* pending_notifications &= ~(1 << index), once the notification has been handled.
Dropped(bits, b) == bits \ {b}

\* As DeadLock, looking at the destination's queue.
WrongQueue(t, d) == senders[d] # <<>>

DeadLock(t, d) == d \in ToSet(senders[t])

\* send_message: d waits for any message, or for one of t's.
Ready(t, d) == pc[d] = "open" \/ (pc[d] = "closed" /\ peer[d] = t)

(***************************************************************************)
(* sys_ipc with IPC_SEND from t to d.  Only a query is left waiting for t  *)
(* while t goes on (a call is answered before its server sends anything):  *)
(* it takes the message for its answer, ipc_recv drops the bit and passes  *)
(* the message on to the program, which serves a call and ignores a query. *)
(* On ERR_DEAD_LOCK the program gets the error; after a poll the bit has   *)
(* been dropped.                                                           *)
(***************************************************************************)
Send(t, d, k) ==
    /\ \/ /\ pc[d] = "open"
          /\ HandOver(t, d, k)
          /\ kind' = [kind EXCEPT ![t] = k]
          /\ UNCHANGED <<senders, pending, dead_lock>>
       \/ /\ pc[d] = "closed" /\ peer[d] = t
          /\ pc' = [pc EXCEPT ![t] = Sent(k), ![d] = IF k = "call" THEN "serve" ELSE "run"]
          /\ peer' = [peer EXCEPT ![t] = d]
          /\ kind' = [kind EXCEPT ![t] = k]
          /\ pending' = [pending EXCEPT ![d] = Dropped(@, NOTIFY_ASYNC(t))]
          /\ UNCHANGED <<senders, dead_lock>>
       \/ /\ ~Ready(t, d) /\ ~DeadLock(t, d)
          /\ pc' = [pc EXCEPT ![t] = "sending"]
          /\ peer' = [peer EXCEPT ![t] = d]
          /\ kind' = [kind EXCEPT ![t] = k]
          /\ senders' = [senders EXCEPT ![d] = Append(@, t)]
          /\ UNCHANGED <<pending, dead_lock>>
       \/ /\ ~Ready(t, d) /\ DeadLock(t, d)
          /\ pc' = [pc EXCEPT ![t] = "run"]
          /\ dead_lock' = dead_lock \cup {t}
          /\ pending' = [pending EXCEPT ![t] =
                            IF k = "poll" THEN Dropped(@, NOTIFY_ASYNC(d)) ELSE @]
          /\ UNCHANGED <<senders, peer, kind>>
    /\ UNCHANGED <<notifications, async_messages, sent, got>>
-----------------------------------------------------------------------------
(* The library.                                                            *)

ipc_send(t, d) == pc[t] = "run" /\ <<t, d>> \in Sends /\ Send(t, d, "send")

ipc_call(t, d) == pc[t] = "run" /\ <<t, d>> \in Calls /\ Send(t, d, "call")

ipc_recv(t) ==
    /\ pc[t] = "run"
    /\ pc' = [pc EXCEPT ![t] = "recv"]
    /\ UNCHANGED <<peer, kind, senders, notifications, pending, async_messages, sent, got, dead_lock>>

\* As Enqueue, at the front of the list.
EnqueueFirst(q, am) == <<am>> \o q

Enqueue(q, am) == Append(q, am)

\* The message is queued first and the receiver notified after that.
ipc_send_async(t, d) ==
    /\ pc[t] = "run" /\ <<t, d>> \in Async
    /\ Len(async_messages[t]) < MaxQueue
    /\ LET n == (sent[<<t, d>>] + 1) % (MaxQueue + 1)
       IN /\ sent' = [sent EXCEPT ![<<t, d>>] = n]
          /\ async_messages' = [async_messages EXCEPT ![t] = Enqueue(@, [dst |-> d, n |-> n])]
    /\ Notify(d, {NOTIFY_ASYNC(t)})
    /\ UNCHANGED <<peer, kind, senders, got, dead_lock>>

\* ffs(pending_notifications).
First(bits) == CHOOSE b \in bits : \A x \in bits : b =< x

\* An interrupt becomes a message; an async bit becomes a call to its sender.
recv_notification_as_message(t) ==
    /\ pc[t] = "recv" /\ pending[t] # {}
    /\ LET index == First(pending[t])
       IN \/ /\ index = IRQ
             /\ pending' = [pending EXCEPT ![t] = Dropped(@, IRQ)]
             /\ pc' = [pc EXCEPT ![t] = "run"]
             /\ UNCHANGED <<peer, kind, senders, notifications, async_messages, sent, got, dead_lock>>
          \/ \E src \in Tasks : index = NOTIFY_ASYNC(src) /\ Send(t, src, "poll")

\* sys_ipc(0, IPC_ANY, m, IPC_RECV): notifications, then waiting senders, then wait.
ipc_recv_any(t) ==
    /\ pc[t] = "recv" /\ pending[t] = {}
    /\ \/ /\ notifications[t] # {}
          /\ pending' = [pending EXCEPT ![t] = notifications[t]]
          /\ notifications' = [notifications EXCEPT ![t] = {}]
          /\ UNCHANGED <<pc, peer, senders>>
       \/ /\ notifications[t] = {} /\ senders[t] # <<>>
          /\ HandOver(Head(senders[t]), t, kind[Head(senders[t])])
          /\ senders' = [senders EXCEPT ![t] = Tail(@)]
          /\ UNCHANGED <<notifications, pending>>
       \/ /\ notifications[t] = {} /\ senders[t] = <<>>
          /\ pc' = [pc EXCEPT ![t] = "open"]
          /\ UNCHANGED <<peer, senders, notifications, pending>>
    /\ UNCHANGED <<kind, async_messages, sent, got, dead_lock>>

\* The server's answer to a call: a non-blocking send to the waiting client.
ipc_reply(t) ==
    /\ pc[t] = "serve"
    /\ pc' = [pc EXCEPT ![t] = "run", ![peer[t]] = "run"]
    /\ UNCHANGED <<peer, kind, senders, notifications, pending, async_messages, sent, got, dead_lock>>

\* Positions of the messages for d in the list of t.
For(t, d) == {i \in DOMAIN async_messages[t] : async_messages[t][i].dst = d}

\* As After, with the loop stopped by the first message.
StopAfterOne(rest) == "recv"

\* The rest of the loop: another message for the same task must be announced.
After(rest) == IF rest # {} THEN "renotify" ELSE "recv"

\* async_reply: the first message for the caller, if there is one.
async_reply(t) ==
    /\ pc[t] = "reply"
    /\ LET d == peer[t]
           mine == For(t, d)
           first == CHOOSE i \in mine : \A j \in mine : i =< j
       IN \/ /\ mine = {}
             /\ pc' = [pc EXCEPT ![t] = "recv"]
             /\ UNCHANGED <<pending, async_messages, got>>
          \/ /\ mine # {}
             /\ pc' = [pc EXCEPT ![t] = After(mine \ {first}), ![d] = "run"]
             /\ got' = [got EXCEPT ![<<t, d>>] = async_messages[t][first].n]
             /\ pending' = [pending EXCEPT ![d] = Dropped(@, NOTIFY_ASYNC(t))]
             /\ async_messages' = [async_messages EXCEPT ![t] = RemoveAt(@, first)]
    /\ UNCHANGED <<peer, kind, senders, notifications, sent, dead_lock>>

\* async_reply: the receiver may by now be anywhere, also waiting in a receive.
async_renotify(t) ==
    /\ pc[t] = "renotify"
    /\ LET d == peer[t]
       IN IF pc[d] = "open"
          THEN /\ pc' = [pc EXCEPT ![t] = "recv", ![d] = "recv"]
               /\ pending' = [pending EXCEPT ![d] = @ \cup {NOTIFY_ASYNC(t)}]
               /\ UNCHANGED notifications
          ELSE /\ pc' = [pc EXCEPT ![t] = "recv"]
               /\ notifications' = [notifications EXCEPT ![d] = @ \cup {NOTIFY_ASYNC(t)}]
               /\ UNCHANGED pending
    /\ UNCHANGED <<peer, kind, senders, async_messages, sent, got, dead_lock>>

\* A device interrupt (kernel/interrupt.c) notifies its listener.
interrupt(t) ==
    /\ t \in Listeners /\ IRQ \notin notifications[t] \cup pending[t]
    /\ Notify(t, {IRQ})
    /\ UNCHANGED <<peer, kind, senders, async_messages, sent, got, dead_lock>>

Library(t) ==
    \/ ipc_recv(t) \/ recv_notification_as_message(t) \/ ipc_recv_any(t)
    \/ ipc_reply(t) \/ async_reply(t) \/ async_renotify(t)

Next ==
    \E t \in Tasks :
        \/ Library(t) \/ interrupt(t)
        \/ \E d \in Tasks : ipc_send(t, d) \/ ipc_call(t, d) \/ ipc_send_async(t, d)

Spec == Init /\ [][Next]_vars
-----------------------------------------------------------------------------
(* Properties.                                                             *)

\* No message is forgotten: while one is queued, its receiver has a bit for it,
\* or the sender is about to set one in async_reply, unless the receiver's query
\* was refused.
Announced ==
    \A p \in Async :
        LET s == p[1]  d == p[2]  b == NOTIFY_ASYNC(s)
        IN For(s, d) # {} => \/ b \in notifications[d] \cup pending[d]
                             \/ pc[s] = "renotify" /\ peer[s] = d
                             \/ d \in dead_lock

\* The non-blocking sends of ipc_reply and async_reply always find the task they
\* answer waiting for them, whatever notifications and sends come in between.
ReplyFindsReceiver ==
    \A t \in Tasks : pc[t] \in {"serve", "reply"} => pc[peer[t]] = "closed" /\ peer[peer[t]] = t

\* A query that nobody is going to answer: async_reply had no message for it.
LeftWaiting(t) ==
    pc[t] = "closed" /\ kind[t] = "poll" /\ ~(pc[peer[t]] = "reply" /\ peer[peer[t]] = t)

\* The pairs <<t, d>> of which t waits for d in a send, a call or a query; and that no two
\* tasks wait for each other.
WaitsFor == Sends \cup Calls \cup {<<p[2], p[1]>> : p \in Async}
NoCrossing == \A p \in WaitsFor : <<p[2], p[1]>> \notin WaitsFor

\* The dead lock warning of send_message hints at ipc_send_async: tasks that only
\* send asynchronously are never refused a message because of a dead lock.
NoDeadLock == dead_lock = {}

\* The numbers of the messages for d among the first k of list q.
NumbersFor(q, d) ==
    LET among[k \in 0 .. Len(q)] ==
            IF k = 0 THEN <<>>
            ELSE IF q[k].dst = d THEN Append(among[k - 1], q[k].n) ELSE among[k - 1]
    IN among

\* Messages arrive as in the mailbox: each once, and in the order of sending.
box == [p \in Async |->
            LET q == async_messages[p[1]] IN NumbersFor(q, p[2])[Len(q)]]
Abstract == INSTANCE Mailbox WITH Pairs <- Async, Payloads <- Numbers
InOrder == Abstract!Init /\ [][Abstract!Next]_Abstract!boxVars

\* Messages arrive as in the mailbox, and every one of them does, unless its receiver is left
\* waiting for good in a query that came too late: async_query shows that this happens.
ImplementsMailbox ==
    InOrder /\ \A p \in Async : <>[]LeftWaiting(p[2]) \/ Abstract!Emptied(p)

\* Every call and every query is answered, every blocking send taken.
CallsReturn == \A t \in Tasks : []<>(pc[t] \notin {"sending", "closed"})

\* As CallsReturn, but for the query that is left without an answer.
CallsAnswered == \A t \in Tasks : <>[]LeftWaiting(t) \/ []<>(pc[t] \notin {"sending", "closed"})
=============================================================================
