--------------------------- MODULE LibraryProofs ---------------------------
(***************************************************************************)
(* Theorems about the libraries of libs/ and about HinaVM.                 *)
(* AsyncIpc, for any tasks and any pattern of calls: what is in a sender's *)
(* list is announced to its receiver, an answer finds its caller waiting,  *)
(* and the messages of a pair arrive once and in order.                    *)
(* LinkedList, for any heads and elements: its pointers implement          *)
(* sequences, and a loop sees all it began with.                           *)
(* Malloc, for any heap and any requests: chunks and free list fit, and    *)
(* every pointer has room of its own.                                      *)
(* HinaVm, for any callers: run queue and queues of senders are sound, and *)
(* every caller gets the answer to its own call.                           *)
(***************************************************************************)
EXTENDS AsyncIpc, SequenceTheorems, FiniteSetTheorems, WellFoundedInduction, TLAPS

CONSTANTS Heads, Elems, NoCell, MaxVisits, HeapSize, Hdr, Align, Sizes, Pointers,
          HinaPrograms, WordBits, ImmBits, NumRegs, HinaTask, HinaNatives, Pager, Values, MaxCalls
VARIABLES next, prev, popped, loop, elem, saved, start, visited,
          chunks, free_chunks, ptr, len, lost, panicked,
          insts, hina_pc, regs, at, blocked, wait_for, hina_senders, m, out, cpu, runqueue, calls,
          hina_sent, hina_got, told

list == INSTANCE LinkedList WITH NULL <- NoCell
heap == INSTANCE Malloc
hina == INSTANCE HinaVm WITH
    Programs <- HinaPrograms, Bits <- WordBits, VM <- HinaTask, Natives <- HinaNatives, pc
    <- hina_pc, senders <- hina_senders, sent <- hina_sent, got <- hina_got

\* A set of natural numbers has a least element.
LEMMA LeastOf ==
    ASSUME NEW S \in SUBSET Nat, S # {}
    PROVE  \E x \in S : \A y \in S : x =< y
<1>1. PICK x \in S : \A y \in S : ~(<<y, x>> \in OpToRel(<, Nat))
  BY NatLessThanWellFounded, WFMin
<1>2. ASSUME NEW y \in S PROVE x =< y
  <2>1. x \in Nat /\ y \in Nat
    OBVIOUS
  <2>2. ~(y < x)
    BY <1>1, <2>1, Zenon DEF OpToRel
  <2>. QED BY <2>1, <2>2
<1>. QED BY <1>2

\* What a task that is blocked in a send, or answers a query, is allowed to.
IpcPartners ==
    \A t \in Tasks :
        /\ pc[t] = "sending" =>
            \/ kind[t] = "send" /\ <<t, peer[t]>> \in Sends
            \/ kind[t] = "call" /\ <<t, peer[t]>> \in Calls
            \/ kind[t] = "poll" /\ <<peer[t], t>> \in Async
        /\ pc[t] \in {"reply", "renotify"} => <<t, peer[t]>> \in Async
        /\ pc[t] = "serve" => peer[t] \in Tasks

\* The kernel's queues hold the tasks that are blocked in a send, each once.
IpcQueues ==
    \A d \in Tasks :
        /\ \A i \in 1 .. Len(senders[d]) :
            pc[senders[d][i]] = "sending" /\ peer[senders[d][i]] = d
        /\ \A i, j \in 1 .. Len(senders[d]) :
            senders[d][i] = senders[d][j] => i = j

\* A bit stands for an interrupt or for a task that sends asynchronously.
IpcBits ==
    \A t \in Tasks : \A b \in notifications[t] \cup pending[t] :
        b = IRQ \/ \E s \in Tasks : <<s, t>> \in Async /\ b = NOTIFY_ASYNC(s)

\* The messages in a list are for tasks that their sender sends to.
IpcLists ==
    \A t \in Tasks : \A i \in 1 .. Len(async_messages[t]) :
        <<t, async_messages[t][i].dst>> \in Async

\* A task in an open receive has no bits.
IpcOpen == \A d \in Tasks : pc[d] = "open" => notifications[d] = {} /\ pending[d] = {}

\* Task d waits for s, which does not serve a call of its.
IpcQuery(s, d) == pc[d] = "closed" /\ peer[d] = s /\ ~(pc[s] = "serve" /\ peer[s] = d)

\* It has sent a query then, has itself announced nothing to s that s could ask it for, and its
\* bit of s can be dropped: s has no message for it, or has announced it again.
IpcLeft ==
    \A s, d \in Tasks : IpcQuery(s, d) =>
        /\ <<s, d>> \in Async
        /\ NOTIFY_ASYNC(d) \notin notifications[s] \cup pending[s]
        /\ \/ pc[s] = "reply" /\ peer[s] = d
           \/ For(s, d) = {}
           \/ NOTIFY_ASYNC(s) \in notifications[d]

IpcInv ==
    /\ TypeOK /\ IpcPartners /\ IpcQueues /\ IpcBits /\ IpcLists
    /\ Announced /\ ReplyFindsReceiver /\ IpcOpen /\ IpcLeft

LEMMA IpcConstants ==
    ASSUME AsyncAssumption
    PROVE  /\ Tasks \subseteq Nat \ {0} /\ MaxQueue \in Nat \ {0}
           /\ Async \cup Calls \cup Sends \subseteq {p \in Tasks \X Tasks : p[1] # p[2]}
           /\ Listeners \subseteq Tasks
BY DEF AsyncAssumption

LEMMA IpcPairs ==
    ASSUME AsyncAssumption, NEW a, NEW b, <<a, b>> \in Async \cup Calls \cup Sends
    PROVE  a \in Tasks /\ b \in Tasks /\ a # b
BY IpcConstants

LEMMA IpcAsyncBits ==
    ASSUME AsyncAssumption, NEW a \in Tasks, NEW b \in Tasks
    PROVE  /\ NOTIFY_ASYNC(a) # IRQ
           /\ NOTIFY_ASYNC(a) = NOTIFY_ASYNC(b) => a = b
           /\ NOTIFY_ASYNC(a) \in Bits /\ IRQ \in Bits
BY IpcConstants DEF NOTIFY_ASYNC, IRQ, Bits

LEMMA InitIpc == ASSUME AsyncAssumption PROVE Init => IpcInv
<1>. SUFFICES ASSUME Init PROVE IpcInv
  OBVIOUS
<1>1. TypeOK
  BY IpcConstants DEF Init, TypeOK, Places, Kinds, Numbers, NoTask
<1>2. IpcPartners /\ IpcBits /\ ReplyFindsReceiver
  BY DEF Init, IpcPartners, IpcBits, ReplyFindsReceiver
<1>3. IpcQueues /\ IpcLists
  BY DEF Init, IpcQueues, IpcLists
<1>4. Announced
  BY IpcConstants DEF Init, Announced, For
<1>5. IpcOpen /\ IpcLeft
  BY DEF Init, IpcOpen, IpcLeft, IpcQuery
<1>. QED BY <1>1, <1>2, <1>3, <1>4, <1>5 DEF IpcInv

\* A message that is handed over: its sender and its receiver go on.
LEMMA HandOverKept ==
    ASSUME AsyncAssumption, IpcInv, NEW t \in Tasks, NEW d \in Tasks, NEW k \in Kinds, t # d,
           pc[t] \in {"run", "recv", "sending"}, pc[d] \in {"open", "recv"},
           k = "poll" => <<d, t>> \in Async,
           notifications[d] = {}, pending[d] = {},
           HandOver(t, d, k),
           kind' \in [Tasks -> Kinds], \A s \in Tasks \ {t} : kind'[s] = kind[s],
           senders' \in [Tasks -> Seq(Tasks)],
           \A e \in Tasks : \A i \in 1 .. Len(senders'[e]) :
              /\ senders'[e][i] # t
              /\ \E j \in 1 .. Len(senders[e]) : senders'[e][i] = senders[e][j],
           \A e \in Tasks : \A i, j \in 1 .. Len(senders'[e]) :
              senders'[e][i] = senders'[e][j] => i = j,
           UNCHANGED <<notifications, pending, async_messages, sent, got, dead_lock>>
    PROVE  IpcInv'
<1>1. /\ pc' = [pc EXCEPT ![t] = Sent(k), ![d] = Taken(k)]
      /\ peer' = [peer EXCEPT ![t] = d, ![d] = t]
  BY DEF HandOver
<1>2. /\ Sent(k) \in {"run", "closed"} /\ Taken(k) \in {"run", "serve", "reply"}
      /\ Taken(k) \in {"serve", "reply"} => Sent(k) = "closed"
      /\ Taken(k) = "reply" => k = "poll"
  BY DEF Sent, Taken, Kinds
<1>3. TypeOK
  BY DEF IpcInv
<1>4. /\ pc' \in [Tasks -> Places] /\ peer' \in [Tasks -> Tasks \cup {NoTask}]
      /\ pc'[t] = Sent(k) /\ pc'[d] = Taken(k) /\ peer'[t] = d /\ peer'[d] = t
      /\ \A s \in Tasks \ {t, d} : pc'[s] = pc[s] /\ peer'[s] = peer[s]
  BY <1>1, <1>2, <1>3 DEF TypeOK, Places
<1>5. TypeOK'
  BY <1>3, <1>4 DEF TypeOK
<1>6. IpcPartners'
  <2>. SUFFICES ASSUME NEW s \in Tasks
                PROVE  /\ pc'[s] = "sending" =>
                           \/ kind'[s] = "send" /\ <<s, peer'[s]>> \in Sends
                           \/ kind'[s] = "call" /\ <<s, peer'[s]>> \in Calls
                           \/ kind'[s] = "poll" /\ <<peer'[s], s>> \in Async
                       /\ pc'[s] \in {"reply", "renotify"} => <<s, peer'[s]>> \in Async
                       /\ pc'[s] = "serve" => peer'[s] \in Tasks
    BY DEF IpcPartners
  <2>1. CASE s \in {t, d}
    BY <1>2, <1>4, <2>1
  <2>2. CASE s \notin {t, d}
    <3>1. pc'[s] = pc[s] /\ peer'[s] = peer[s] /\ kind'[s] = kind[s]
      BY <1>4, <2>2
    <3>. QED BY <3>1 DEF IpcInv, IpcPartners
  <2>. QED BY <2>1, <2>2
<1>7. IpcQueues'
  <2>1. \A e \in Tasks : \A i \in 1 .. Len(senders'[e]) :
            pc'[senders'[e][i]] = "sending" /\ peer'[senders'[e][i]] = e
    <3>. SUFFICES ASSUME NEW e \in Tasks, NEW i \in 1 .. Len(senders'[e])
                  PROVE  pc'[senders'[e][i]] = "sending" /\ peer'[senders'[e][i]] = e
      OBVIOUS
    <3>1. PICK j \in 1 .. Len(senders[e]) : senders'[e][i] = senders[e][j]
      OBVIOUS
    <3>2. PICK s \in Tasks : s = senders[e][j]
      <4>1. senders[e] \in Seq(Tasks)
        BY <1>3 DEF TypeOK
      <4>. QED BY <4>1, SMTT(30)
    <3>3. pc[s] = "sending" /\ peer[s] = e /\ s # t /\ s # d
      <4>1. IpcQueues /\ s # t
        BY <3>1, <3>2 DEF IpcInv
      <4>2. pc[s] = "sending" /\ peer[s] = e
        BY <3>2, <4>1, Zenon DEF IpcQueues
      <4>. QED BY <4>1, <4>2
    <3>. QED BY <1>4, <3>1, <3>2, <3>3, SMTT(30)
  <2>. QED BY <2>1 DEF IpcQueues
<1>8. IpcBits' /\ IpcLists'
  BY DEF IpcInv, IpcBits, IpcLists
<1>9. Announced'
  <2>. SUFFICES ASSUME NEW p \in Async, For(p[1], p[2]) # {}
                PROVE  \/ NOTIFY_ASYNC(p[1]) \in notifications[p[2]] \cup pending[p[2]]
                       \/ pc'[p[1]] = "renotify" /\ peer'[p[1]] = p[2]
                       \/ p[2] \in dead_lock
    BY Zenon DEF Announced, For
  <2>1. p[1] \in Tasks
    BY IpcConstants
  <2>2. \/ NOTIFY_ASYNC(p[1]) \in notifications[p[2]] \cup pending[p[2]]
        \/ pc[p[1]] = "renotify" /\ peer[p[1]] = p[2]
        \/ p[2] \in dead_lock
    BY Zenon DEF IpcInv, Announced
  <2>3. pc[p[1]] = "renotify" => p[1] \notin {t, d}
    OBVIOUS
  <2>. QED BY <1>4, <2>1, <2>2, <2>3
<1>10. ReplyFindsReceiver'
  <2>. SUFFICES ASSUME NEW s \in Tasks, pc'[s] \in {"serve", "reply"}
                PROVE  pc'[peer'[s]] = "closed" /\ peer'[peer'[s]] = s
    BY DEF ReplyFindsReceiver
  <2>1. CASE s \in {t, d}
    BY <1>2, <1>4, <2>1
  <2>2. CASE s \notin {t, d}
    <3>1. pc[s] \in {"serve", "reply"} /\ peer'[s] = peer[s]
      BY <1>4, <2>2
    <3>2. pc[peer[s]] = "closed" /\ peer[peer[s]] = s
      BY <3>1 DEF IpcInv, ReplyFindsReceiver
    <3>3. PICK r \in Tasks : r = peer[s]
      BY <3>1, IpcPairs DEF IpcInv, IpcPartners
    <3>4. r # t /\ r # d /\ pc'[r] = "closed" /\ peer'[r] = s
      BY <1>4, <3>2, <3>3
    <3>. QED BY <3>1, <3>3, <3>4
  <2>. QED BY <2>1, <2>2
<1>11. IpcOpen'
  <2>1. ASSUME NEW e \in Tasks, pc'[e] = "open" PROVE notifications'[e] = {} /\ pending'[e] = {}
    <3>1. pc[e] = "open"
      BY <1>2, <1>4, <2>1
    <3>. QED BY <3>1 DEF IpcInv, IpcOpen
  <2>. QED BY <2>1 DEF IpcOpen
<1>12. IpcLeft'
  <2>1. ASSUME NEW s \in Tasks, NEW e \in Tasks, pc'[e] = "closed", peer'[e] = s,
               ~(pc'[s] = "serve" /\ peer'[s] = e)
        PROVE  /\ <<s, e>> \in Async
               /\ NOTIFY_ASYNC(e) \notin notifications[s] \cup pending[s]
               /\ \/ pc'[s] = "reply" /\ peer'[s] = e
                  \/ For(s, e) = {}
                  \/ NOTIFY_ASYNC(s) \in notifications[e]
    <3>1. CASE e = t
      <4>1. s = d /\ Sent(k) = "closed" /\ Taken(k) # "serve"
        BY <1>4, <2>1, <3>1
      <4>2. k = "poll" /\ Taken(k) = "reply"
        BY <4>1 DEF Sent, Taken, Kinds
      <4>. QED BY <1>4, <3>1, <4>1, <4>2
    <3>2. CASE e # t
      <4>1. e # d /\ pc[e] = "closed" /\ peer[e] = s
        BY <1>2, <1>4, <2>1, <3>2
      <4>2. s \in {t, d} \/ (pc'[s] = pc[s] /\ peer'[s] = peer[s])
        BY <1>4
      <4>3. ~(pc[s] = "serve" /\ peer[s] = e) /\ (pc[s] = "reply" /\ peer[s] = e => pc'[s] = "reply" /\ peer'[s] = e)
        BY <2>1, <4>2
      <4>. QED BY <4>1, <4>3 DEF IpcInv, IpcLeft, IpcQuery
    <3>. QED BY <3>1, <3>2
  <2>2. (\A s, e \in Tasks : For(s, e)' = For(s, e)) /\ notifications' = notifications /\ pending' = pending
    BY DEF For
  <2>3. ASSUME NEW s \in Tasks, NEW e \in Tasks, IpcQuery(s, e)'
        PROVE  /\ <<s, e>> \in Async
               /\ NOTIFY_ASYNC(e) \notin notifications'[s] \cup pending'[s]
               /\ \/ pc'[s] = "reply" /\ peer'[s] = e
                  \/ For(s, e)' = {}
                  \/ NOTIFY_ASYNC(s) \in notifications'[e]
    <3>1. pc'[e] = "closed" /\ peer'[e] = s /\ ~(pc'[s] = "serve" /\ peer'[s] = e)
      BY <2>3 DEF IpcQuery
    <3>. QED BY <2>1, <2>2, <3>1
  <2>. QED BY <2>3, Zenon DEF IpcLeft
<1>. QED BY <1>5, <1>6, <1>7, <1>8, <1>9, <1>10, <1>11, <1>12 DEF IpcInv

\* Tasks that go on without a message being handed over.
IpcGoesOn(s) ==
    \/ pc'[s] = pc[s]
    \/ pc[s] \notin {"sending", "closed"} /\ pc'[s] \in {"run", "recv", "open"}
    \/ pc[s] = "reply" /\ pc'[s] = "renotify"
    \/ pc[s] = "closed" /\ pc'[s] = "run" /\ pc'[peer[s]] \notin {"serve", "reply"}

LEMMA IpcPlacesKept ==
    ASSUME AsyncAssumption, IpcInv, \A s \in Tasks : IpcGoesOn(s), UNCHANGED <<peer, kind, senders>>
    PROVE  IpcPartners' /\ IpcQueues' /\ ReplyFindsReceiver'
<1>1. IpcPartners'
  BY DEF IpcInv, IpcPartners, IpcGoesOn
<1>2. IpcQueues'
  <2>1. ASSUME NEW d \in Tasks, NEW i \in 1 .. Len(senders[d])
        PROVE  pc'[senders[d][i]] = "sending" /\ peer[senders[d][i]] = d
    <3>1. PICK s \in Tasks : s = senders[d][i]
      <4>1. senders[d] \in Seq(Tasks)
        BY DEF IpcInv, TypeOK
      <4>. QED BY <4>1
    <3>2. pc[s] = "sending" /\ peer[s] = d
      BY <3>1 DEF IpcInv, IpcQueues
    <3>. QED BY <3>1, <3>2 DEF IpcGoesOn
  <2>. QED BY <2>1 DEF IpcInv, IpcQueues
<1>3. ASSUME NEW s \in Tasks, pc'[s] \in {"serve", "reply"}
      PROVE  pc'[peer[s]] = "closed" /\ peer[peer[s]] = s
  <2>1. pc[s] \in {"serve", "reply"}
    BY <1>3 DEF IpcGoesOn
  <2>2. PICK r \in Tasks : r = peer[s]
    BY <2>1, IpcPairs DEF IpcInv, IpcPartners
  <2>3. pc[r] = "closed" /\ peer[r] = s
    BY <2>1, <2>2 DEF IpcInv, ReplyFindsReceiver
  <2>. QED BY <1>3, <2>2, <2>3 DEF IpcGoesOn
<1>4. ReplyFindsReceiver'
  BY <1>3 DEF ReplyFindsReceiver
<1>. QED BY <1>1, <1>2, <1>4

\* Bits and lists that stay, or lose what nobody misses.
LEMMA IpcAnnouncedKept ==
    ASSUME AsyncAssumption, IpcInv,
           \A p \in Async : \/ NOTIFY_ASYNC(p[1]) \in notifications'[p[2]] \cup pending'[p[2]]
                            \/ pc'[p[1]] = "renotify" /\ peer'[p[1]] = p[2]
                            \/ p[2] \in dead_lock'
                            \/ For(p[1], p[2])' = {}
    PROVE  Announced'
BY Zenon DEF Announced

LEMMA IpcAnnounced ==
    ASSUME AsyncAssumption, IpcInv, NEW p \in Async
    PROVE  \/ NOTIFY_ASYNC(p[1]) \in notifications[p[2]] \cup pending[p[2]]
           \/ pc[p[1]] = "renotify" /\ peer[p[1]] = p[2]
           \/ p[2] \in dead_lock
           \/ For(p[1], p[2]) = {}
BY Zenon DEF IpcInv, Announced

\* Open receives, and queries left behind, in a step that hands over no message: who stops
\* answering a task lets it go on, or has nothing for it; a task that waits announces nothing.
LEMMA IpcOpenKept ==
    ASSUME AsyncAssumption, IpcInv,
           \A d \in Tasks : pc'[d] = "open" =>
              \/ notifications'[d] = {} /\ pending'[d] = {}
              \/ pc[d] = "open" /\ notifications'[d] = notifications[d] /\ pending'[d] \subseteq pending[d]
    PROVE  IpcOpen'
BY DEF IpcInv, IpcOpen

IpcStopsFor(s, d) ==
    \/ pc[s] = "serve" /\ peer[s] = d
    \/ pc[s] = "reply" /\ peer[s] = d /\ For(s, d) # {}

LEMMA IpcLeftKept ==
    ASSUME AsyncAssumption, IpcInv, \A s \in Tasks : IpcGoesOn(s), UNCHANGED peer,
           \A s, d \in Tasks : pc'[d] = "closed" =>
              /\ IpcStopsFor(s, d) => pc'[s] = pc[s]
              /\ NOTIFY_ASYNC(d) \in notifications'[s] \cup pending'[s] =>
                    NOTIFY_ASYNC(d) \in notifications[s] \cup pending[s]
              /\ notifications[d] \subseteq notifications'[d]
              /\ NOTIFY_ASYNC(s) \in notifications'[d] \/ (For(s, d) = {} => For(s, d)' = {})
    PROVE  IpcLeft'
<1>1. ASSUME NEW s \in Tasks, NEW d \in Tasks, pc'[d] = "closed", peer[d] = s,
             ~(pc'[s] = "serve" /\ peer[s] = d)
      PROVE  /\ <<s, d>> \in Async
             /\ NOTIFY_ASYNC(d) \notin notifications'[s] \cup pending'[s]
             /\ \/ pc'[s] = "reply" /\ peer[s] = d
                \/ For(s, d)' = {}
                \/ NOTIFY_ASYNC(s) \in notifications'[d]
  <2>1. pc[d] = "closed"
    BY <1>1 DEF IpcGoesOn
  <2>2. ~(pc[s] = "serve" /\ peer[s] = d)
    BY <1>1 DEF IpcStopsFor
  <2>3. /\ <<s, d>> \in Async
        /\ NOTIFY_ASYNC(d) \notin notifications[s] \cup pending[s]
        /\ \/ pc[s] = "reply" /\ peer[s] = d
           \/ For(s, d) = {}
           \/ NOTIFY_ASYNC(s) \in notifications[d]
    BY <1>1, <2>1, <2>2 DEF IpcInv, IpcLeft, IpcQuery
  <2>. QED BY <1>1, <2>3 DEF IpcStopsFor
<1>. QED BY <1>1, Zenon DEF IpcLeft, IpcQuery

\* What t may send to d.
IpcAllowed(t, d, k) ==
    \/ k = "send" /\ <<t, d>> \in Sends
    \/ k = "call" /\ <<t, d>> \in Calls
    \/ k = "poll" /\ <<d, t>> \in Async /\ NOTIFY_ASYNC(d) \in pending[t]

\* A task that is left waiting for t takes a message of t for its answer.
IpcAnswers(t, d, k) ==
    /\ pc[d] = "closed" /\ peer[d] = t
    /\ pc' = [pc EXCEPT ![t] = Sent(k), ![d] = IF k = "call" THEN "serve" ELSE "run"]
    /\ peer' = [peer EXCEPT ![t] = d]
    /\ kind' = [kind EXCEPT ![t] = k]
    /\ pending' = [pending EXCEPT ![d] = Dropped(@, NOTIFY_ASYNC(t))]
    /\ UNCHANGED <<senders, dead_lock>>

LEMMA IpcAnswerKept ==
    ASSUME AsyncAssumption, IpcInv, NEW t \in Tasks, NEW d \in Tasks, NEW k \in Kinds,
           IpcAllowed(t, d, k), pc[t] \in {"run", "recv"}, IpcAnswers(t, d, k),
           UNCHANGED <<notifications, async_messages, sent, got>>
    PROVE  IpcInv'
<1>0. TypeOK /\ t # d /\ pc[d] = "closed" /\ peer[d] = t
  BY DEF IpcInv, IpcAnswers
<1>1. /\ <<t, d>> \in Async /\ NOTIFY_ASYNC(d) \notin pending[t]
      /\ For(t, d) = {} \/ NOTIFY_ASYNC(t) \in notifications[d]
  BY <1>0 DEF IpcInv, IpcLeft, IpcQuery
<1>2. k # "poll" /\ Sent(k) = (IF k = "call" THEN "closed" ELSE "run")
  BY <1>1 DEF IpcAllowed, Kinds, Sent
<1>3. /\ pc' \in [Tasks -> Places] /\ peer' \in [Tasks -> Tasks \cup {NoTask}]
      /\ kind' \in [Tasks -> Kinds]
      /\ pc'[t] = (IF k = "call" THEN "closed" ELSE "run") /\ peer'[t] = d
      /\ pc'[d] = (IF k = "call" THEN "serve" ELSE "run") /\ peer'[d] = t
      /\ \A s \in Tasks \ {t, d} : pc'[s] = pc[s] /\ peer'[s] = peer[s] /\ kind'[s] = kind[s]
  BY <1>0, <1>2 DEF IpcAnswers, TypeOK, Places
<1>4. /\ \A s \in Tasks \ {d} : pending'[s] = pending[s]
      /\ pending'[d] = pending[d] \ {NOTIFY_ASYNC(t)}
      /\ pending' \in [Tasks -> SUBSET Bits]
  BY <1>0 DEF IpcAnswers, TypeOK, Dropped
<1>5. UNCHANGED <<senders, dead_lock>>
  BY DEF IpcAnswers
<1>6. TypeOK'
  BY <1>0, <1>3, <1>4, <1>5 DEF TypeOK
<1>7. IpcPartners'
  BY <1>3 DEF IpcInv, IpcPartners
<1>8. IpcQueues'
  <2>1. ASSUME NEW e \in Tasks, NEW i \in 1 .. Len(senders[e])
        PROVE  pc'[senders[e][i]] = "sending" /\ peer'[senders[e][i]] = e
    <3>1. PICK s \in Tasks : s = senders[e][i]
      <4>1. senders[e] \in Seq(Tasks)
        BY <1>0 DEF TypeOK
      <4>. QED BY <4>1
    <3>2. pc[s] = "sending" /\ peer[s] = e
      BY <3>1 DEF IpcInv, IpcQueues
    <3>. QED BY <1>0, <1>3, <3>1, <3>2
  <2>. QED BY <1>5, <2>1 DEF IpcInv, IpcQueues
<1>9. IpcBits' /\ IpcLists'
  <2>1. \A s \in Tasks : pending'[s] \subseteq pending[s]
    BY <1>4
  <2>. QED BY <2>1 DEF IpcInv, IpcBits, IpcLists
<1>10. \A s, e \in Tasks : For(s, e)' = For(s, e)
  BY DEF For
<1>11. Announced'
  <2>. SUFFICES ASSUME NEW p \in Async
                PROVE  \/ NOTIFY_ASYNC(p[1]) \in notifications'[p[2]] \cup pending'[p[2]]
                       \/ pc'[p[1]] = "renotify" /\ peer'[p[1]] = p[2]
                       \/ p[2] \in dead_lock'
                       \/ For(p[1], p[2])' = {}
    BY IpcAnnouncedKept
  <2>1. p[1] \in Tasks /\ p[2] \in Tasks /\ (pc[p[1]] = "renotify" => p[1] \notin {t, d})
    BY <1>0, IpcConstants
  <2>2. CASE p[1] = t /\ p[2] = d
    BY <1>1, <1>10, <2>1, <2>2
  <2>3. CASE ~(p[1] = t /\ p[2] = d)
    <3>1. NOTIFY_ASYNC(p[1]) \in pending[p[2]] => NOTIFY_ASYNC(p[1]) \in pending'[p[2]]
      BY <1>4, <2>1, <2>3, IpcAsyncBits
    <3>. QED BY <1>3, <1>5, <1>10, <2>1, <3>1, IpcAnnounced
  <2>. QED BY <2>2, <2>3
<1>12. ReplyFindsReceiver'
  <2>. SUFFICES ASSUME NEW s \in Tasks, pc'[s] \in {"serve", "reply"}
                PROVE  pc'[peer'[s]] = "closed" /\ peer'[peer'[s]] = s
    BY DEF ReplyFindsReceiver
  <2>1. CASE s \in {t, d}
    BY <1>3, <2>1
  <2>2. CASE s \notin {t, d}
    <3>1. pc[s] \in {"serve", "reply"} /\ peer'[s] = peer[s]
      BY <1>3, <2>2
    <3>2. PICK r \in Tasks : r = peer[s]
      BY <3>1, IpcPairs DEF IpcInv, IpcPartners
    <3>3. pc[r] = "closed" /\ peer[r] = s
      BY <3>1, <3>2 DEF IpcInv, ReplyFindsReceiver
    <3>4. r # t /\ r # d
      BY <1>0, <2>2, <3>3
    <3>. QED BY <1>3, <3>1, <3>2, <3>3, <3>4
  <2>. QED BY <2>1, <2>2
<1>13. IpcOpen'
  <2>1. ASSUME NEW e \in Tasks, pc'[e] = "open" PROVE pc[e] = "open" /\ e # d
    BY <1>3, <2>1
  <2>. QED BY <1>4, <2>1, IpcOpenKept
<1>14. IpcLeft'
  <2>1. ASSUME NEW s \in Tasks, NEW e \in Tasks, pc'[e] = "closed", peer'[e] = s,
               ~(pc'[s] = "serve" /\ peer'[s] = e)
        PROVE  /\ <<s, e>> \in Async
               /\ NOTIFY_ASYNC(e) \notin notifications[s] \cup pending'[s]
               /\ \/ pc'[s] = "reply" /\ peer'[s] = e
                  \/ For(s, e) = {}
                  \/ NOTIFY_ASYNC(s) \in notifications[e]
    <3>1. e # d /\ e # t /\ pc[e] = "closed" /\ peer[e] = s
      BY <1>3, <2>1
    <3>2. s \in {t, d} \/ (pc'[s] = pc[s] /\ peer'[s] = peer[s])
      BY <1>3
    <3>3. ~(pc[s] = "serve" /\ peer[s] = e) /\ (pc[s] = "reply" /\ peer[s] = e => pc'[s] = "reply" /\ peer'[s] = e)
      BY <1>0, <2>1, <3>2
    <3>4. pending'[s] \subseteq pending[s]
      BY <1>4
    <3>. QED BY <3>1, <3>3, <3>4 DEF IpcInv, IpcLeft, IpcQuery
  <2>. QED BY <1>10, <2>1, Zenon DEF IpcLeft, IpcQuery
<1>. QED BY <1>6, <1>7, <1>8, <1>9, <1>11, <1>12, <1>13, <1>14 DEF IpcInv

LEMMA IpcSendKept ==
    ASSUME AsyncAssumption, IpcInv, NEW t \in Tasks, NEW d \in Tasks, NEW k, IpcAllowed(t, d, k),
           pc[t] \in {"run", "recv"}, Send(t, d, k)
    PROVE  IpcInv'
<1>. k \in Kinds
  BY DEF IpcAllowed, Kinds
<1>0. TypeOK /\ UNCHANGED <<notifications, async_messages, sent, got>>
  BY DEF IpcInv, Send
<1>1. CASE /\ pc[d] = "open" /\ HandOver(t, d, k)
           /\ kind' = [kind EXCEPT ![t] = k]
           /\ UNCHANGED <<senders, pending, dead_lock>>
  <2>1. t # d
    BY <1>1
  <2>2. k = "poll" => <<d, t>> \in Async
    BY DEF IpcAllowed
  <2>3. senders' \in [Tasks -> Seq(Tasks)]
    BY <1>0, <1>1 DEF TypeOK
  <2>4. \A e \in Tasks : \A i \in 1 .. Len(senders'[e]) :
              /\ senders'[e][i] # t
              /\ \E j \in 1 .. Len(senders[e]) : senders'[e][i] = senders[e][j]
    BY <1>1 DEF IpcInv, IpcQueues
  <2>5. \A e \in Tasks : \A i, j \in 1 .. Len(senders'[e]) :
              senders'[e][i] = senders'[e][j] => i = j
    BY <1>1 DEF IpcInv, IpcQueues
  <2>6. /\ notifications[d] = {} /\ pending[d] = {}
        /\ kind' \in [Tasks -> Kinds] /\ \A s \in Tasks \ {t} : kind'[s] = kind[s]
    BY <1>0, <1>1 DEF IpcInv, IpcOpen, TypeOK
  <2>. QED BY <1>0, <1>1, <2>1, <2>2, <2>3, <2>4, <2>5, <2>6, HandOverKept
<1>4. CASE IpcAnswers(t, d, k)
  BY <1>0, <1>4, IpcAnswerKept
<1>2. CASE /\ ~Ready(t, d) /\ ~DeadLock(t, d)
           /\ pc' = [pc EXCEPT ![t] = "sending"]
           /\ peer' = [peer EXCEPT ![t] = d]
           /\ kind' = [kind EXCEPT ![t] = k]
           /\ senders' = [senders EXCEPT ![d] = Append(@, t)]
           /\ UNCHANGED <<pending, dead_lock>>
  <2>1. TypeOK'
    <3>1. Append(senders[d], t) \in Seq(Tasks)
      BY <1>0 DEF TypeOK
    <3>. QED BY <1>0, <1>2, <3>1 DEF TypeOK, Places
  <2>2. /\ pc'[t] = "sending" /\ peer'[t] = d /\ kind'[t] = k
        /\ \A s \in Tasks \ {t} : pc'[s] = pc[s] /\ peer'[s] = peer[s] /\ kind'[s] = kind[s]
    BY <1>0, <1>2 DEF TypeOK
  <2>3. IpcPartners'
    BY <2>2 DEF IpcInv, IpcPartners, IpcAllowed
  <2>4. IpcQueues'
    <3>. SUFFICES ASSUME NEW e \in Tasks
                  PROVE  /\ \A i \in 1 .. Len(senders'[e]) :
                              pc'[senders'[e][i]] = "sending" /\ peer'[senders'[e][i]] = e
                         /\ \A i, j \in 1 .. Len(senders'[e]) :
                              senders'[e][i] = senders'[e][j] => i = j
      BY Zenon DEF IpcQueues
    <3>1. PICK q \in Seq(Tasks) : q = senders[e]
      BY <1>0 DEF TypeOK
    <3>2. /\ \A i \in 1 .. Len(q) : pc[q[i]] = "sending" /\ peer[q[i]] = e
          /\ \A i, j \in 1 .. Len(q) : q[i] = q[j] => i = j
      BY <3>1 DEF IpcInv, IpcQueues
    <3>3. \A i \in 1 .. Len(q) : q[i] \in Tasks \ {t}
      BY <3>2
    <3>4. \A i \in 1 .. Len(q) : pc'[q[i]] = "sending" /\ peer'[q[i]] = e
      BY <2>2, <3>2, <3>3
    <3>5. CASE e = d
      <4>1. senders'[e] = Append(q, t)
        BY <1>0, <1>2, <3>1, <3>5 DEF TypeOK
      <4>2. /\ Len(Append(q, t)) = Len(q) + 1 /\ Append(q, t)[Len(q) + 1] = t
            /\ \A i \in 1 .. Len(q) : Append(q, t)[i] = q[i]
        OBVIOUS
      <4>3. \A i \in 1 .. Len(q) + 1 : i = Len(q) + 1 \/ i \in 1 .. Len(q)
        OBVIOUS
      <4>. QED BY <2>2, <3>2, <3>3, <3>4, <3>5, <4>1, <4>2, <4>3
    <3>6. CASE e # d
      <4>1. senders'[e] = q
        BY <1>0, <1>2, <3>1, <3>6 DEF TypeOK
      <4>. QED BY <3>2, <3>4, <4>1
    <3>. QED BY <3>5, <3>6
  <2>5. IpcBits' /\ IpcLists'
    BY <1>0, <1>2 DEF IpcInv, IpcBits, IpcLists
  <2>6. Announced'
    <3>. SUFFICES ASSUME NEW p \in Async
                  PROVE  \/ NOTIFY_ASYNC(p[1]) \in notifications'[p[2]] \cup pending'[p[2]]
                         \/ pc'[p[1]] = "renotify" /\ peer'[p[1]] = p[2]
                         \/ p[2] \in dead_lock'
                         \/ For(p[1], p[2])' = {}
      BY IpcAnnouncedKept
    <3>1. For(p[1], p[2])' = For(p[1], p[2])
      BY <1>0 DEF For
    <3>2. p[1] \in Tasks /\ (pc[p[1]] = "renotify" => p[1] # t)
      BY IpcConstants
    <3>. QED BY <1>0, <1>2, <2>2, <3>1, <3>2, IpcAnnounced
  <2>7. ReplyFindsReceiver'
    <3>. SUFFICES ASSUME NEW s \in Tasks, pc'[s] \in {"serve", "reply"}
                  PROVE  pc'[peer'[s]] = "closed" /\ peer'[peer'[s]] = s
      BY DEF ReplyFindsReceiver
    <3>1. s # t /\ pc[s] \in {"serve", "reply"} /\ peer'[s] = peer[s]
      BY <2>2
    <3>2. PICK r \in Tasks : r = peer[s]
      BY <3>1, IpcPairs DEF IpcInv, IpcPartners
    <3>3. pc[r] = "closed" /\ peer[r] = s
      BY <3>1, <3>2 DEF IpcInv, ReplyFindsReceiver
    <3>. QED BY <2>2, <3>1, <3>2, <3>3
  <2>8. IpcOpen'
    <3>1. \A e \in Tasks : pc'[e] = "open" => pc[e] = "open"
      BY <2>2
    <3>. QED BY <1>0, <1>2, <3>1, IpcOpenKept
  <2>9. IpcLeft'
    <3>1. ASSUME NEW s \in Tasks, NEW e \in Tasks, pc'[e] = "closed", peer'[e] = s,
                 ~(pc'[s] = "serve" /\ peer'[s] = e)
          PROVE  /\ <<s, e>> \in Async
                 /\ NOTIFY_ASYNC(e) \notin notifications[s] \cup pending[s]
                 /\ \/ pc'[s] = "reply" /\ peer'[s] = e
                    \/ For(s, e) = {}
                    \/ NOTIFY_ASYNC(s) \in notifications[e]
      <4>1. e # t /\ pc[e] = "closed" /\ peer[e] = s
        BY <2>2, <3>1
      <4>2. ~(pc[s] = "serve" /\ peer[s] = e) /\ (pc[s] = "reply" /\ peer[s] = e => pc'[s] = "reply" /\ peer'[s] = e)
        BY <2>2, <3>1
      <4>. QED BY <4>1, <4>2 DEF IpcInv, IpcLeft, IpcQuery
    <3>2. \A s, e \in Tasks : For(s, e)' = For(s, e)
      BY <1>0 DEF For
    <3>. QED BY <1>0, <1>2, <3>1, <3>2, Zenon DEF IpcLeft, IpcQuery
  <2>. QED BY <2>1, <2>3, <2>4, <2>5, <2>6, <2>7, <2>8, <2>9 DEF IpcInv
<1>3. CASE /\ ~Ready(t, d) /\ DeadLock(t, d)
           /\ pc' = [pc EXCEPT ![t] = "run"]
           /\ dead_lock' = dead_lock \cup {t}
           /\ pending' = [pending EXCEPT ![t] =
                            IF k = "poll" THEN Dropped(@, NOTIFY_ASYNC(d)) ELSE @]
           /\ UNCHANGED <<senders, peer, kind>>
  <2>0. \A s \in Tasks : pc'[s] = IF s = t THEN "run" ELSE pc[s]
    BY <1>0, <1>3 DEF TypeOK
  <2>1. IpcPartners' /\ IpcQueues' /\ ReplyFindsReceiver'
    <3>1. \A s \in Tasks : IpcGoesOn(s)
      BY <2>0 DEF IpcGoesOn
    <3>. QED BY <1>3, <3>1, IpcPlacesKept
  <2>2. \A s \in Tasks : pending'[s] \subseteq pending[s] /\ (s # t => pending'[s] = pending[s])
    BY <1>0, <1>3 DEF TypeOK, Dropped
  <2>3. TypeOK'
    <3>1. pending' \in [Tasks -> SUBSET Bits]
      BY <1>0, <1>3 DEF TypeOK, Dropped
    <3>. QED BY <1>0, <1>3, <3>1 DEF TypeOK, Places
  <2>4. IpcBits' /\ IpcLists'
    BY <1>0, <2>2 DEF IpcInv, IpcBits, IpcLists
  <2>5. Announced'
    <3>. SUFFICES ASSUME NEW p \in Async
                  PROVE  \/ NOTIFY_ASYNC(p[1]) \in notifications'[p[2]] \cup pending'[p[2]]
                         \/ pc'[p[1]] = "renotify" /\ peer'[p[1]] = p[2]
                         \/ p[2] \in dead_lock'
                         \/ For(p[1], p[2])' = {}
      BY IpcAnnouncedKept
    <3>1. For(p[1], p[2])' = For(p[1], p[2])
      BY <1>0 DEF For
    <3>2. p[1] \in Tasks /\ p[2] \in Tasks /\ (pc[p[1]] = "renotify" => p[1] # t)
      BY IpcConstants
    <3>. QED BY <1>0, <1>3, <2>0, <2>2, <3>1, <3>2, IpcAnnounced
  <2>6. IpcOpen'
    <3>1. \A e \in Tasks : pc'[e] = "open" => pc[e] = "open"
      BY <2>0
    <3>. QED BY <1>0, <2>2, <3>1, IpcOpenKept
  <2>7. IpcLeft'
    <3>1. \A s \in Tasks : IpcGoesOn(s) /\ (pc[s] \in {"serve", "reply"} => pc'[s] = pc[s])
      BY <2>0 DEF IpcGoesOn
    <3>2. \A s, e \in Tasks : For(s, e)' = For(s, e)
      BY <1>0 DEF For
    <3>. QED BY <1>0, <1>3, <2>2, <3>1, <3>2, IpcLeftKept DEF IpcStopsFor
  <2>. QED BY <2>1, <2>3, <2>4, <2>5, <2>6, <2>7 DEF IpcInv
<1>. QED BY <1>1, <1>2, <1>3, <1>4, Zenon DEF Send, IpcAnswers

\* The bits wait for a task that does not wait for them.
IpcBitsGoTo(d, bits) ==
    /\ pc'[d] # "open" /\ (pc[d] # "open" => bits \subseteq notifications'[d])
    /\ \A s \in Tasks : notifications[s] \subseteq notifications'[s]
    /\ \A s \in Tasks \ {d} : notifications'[s] = notifications[s] /\ pending'[s] = pending[s]

\* Bits are added to a task, which wakes up if it waits in an open receive.
LEMMA IpcNotifyEffect ==
    ASSUME AsyncAssumption, IpcInv, NEW d \in Tasks, NEW bits \in SUBSET Bits, Notify(d, bits)
    PROVE  /\ pc' \in [Tasks -> Places]
           /\ notifications' \in [Tasks -> SUBSET Bits]
           /\ pending' \in [Tasks -> SUBSET Bits]
           /\ \A s \in Tasks : pc'[s] = pc[s] \/ (pc[s] = "open" /\ pc'[s] = "recv")
           /\ \A s \in Tasks :
                notifications'[s] \cup pending'[s]
                    = notifications[s] \cup pending[s] \cup (IF s = d THEN bits ELSE {})
           /\ IpcBitsGoTo(d, bits)
<1>. USE DEF IpcBitsGoTo
<1>1. /\ pc \in [Tasks -> Places]
      /\ notifications \in [Tasks -> SUBSET Bits] /\ pending \in [Tasks -> SUBSET Bits]
  BY DEF IpcInv, TypeOK
<1>2. CASE pc[d] = "open"
  <2>1. /\ pc' = [pc EXCEPT ![d] = "recv"]
        /\ pending' = [pending EXCEPT ![d] = @ \cup bits] /\ notifications' = notifications
    BY <1>2 DEF Notify
  <2>2. "recv" \in Places
    BY DEF Places
  <2>3. pending' \in [Tasks -> SUBSET Bits]
    BY <1>1, <2>1
  <2>. QED BY <1>1, <1>2, <2>1, <2>2, <2>3
<1>3. CASE pc[d] # "open"
  <2>1. /\ pc' = pc
        /\ notifications' = [notifications EXCEPT ![d] = @ \cup bits] /\ pending' = pending
    BY <1>3 DEF Notify
  <2>3. notifications' \in [Tasks -> SUBSET Bits]
    BY <1>1, <2>1
  <2>. QED BY <1>1, <1>3, <2>1, <2>3
<1>. QED BY <1>2, <1>3

LEMMA IpcReceiveKept ==
    ASSUME AsyncAssumption, IpcInv, NEW t \in Tasks, ipc_recv(t) \/ ipc_reply(t)
    PROVE  IpcInv'
<1>. DEFINE GoesOn ==
          /\ pc' \in [Tasks -> Places]
          /\ \A s \in Tasks : IpcGoesOn(s) /\ (pc[s] = "renotify" => pc'[s] = pc[s])
<1>1. PICK r \in Tasks : pc[t] = "serve" => r = peer[t]
  BY DEF IpcInv, IpcPartners
<1>2. TypeOK /\ UNCHANGED <<peer, kind, senders, notifications, pending, async_messages,
                                sent, got, dead_lock>>
  BY DEF IpcInv, ipc_recv, ipc_reply
<1>3. ASSUME ipc_recv(t) PROVE GoesOn
  <2>1. pc[t] = "run" /\ pc' = [pc EXCEPT ![t] = "recv"]
    BY <1>3 DEF ipc_recv
  <2>2. GoesOn
    BY <1>2, <2>1 DEF IpcGoesOn, TypeOK, Places
  <2>. QED BY <2>2
<1>4. ASSUME ipc_reply(t) PROVE GoesOn
  <2>1. pc[t] = "serve" /\ r = peer[t] /\ pc' = [pc EXCEPT ![t] = "run", ![r] = "run"]
    BY <1>1, <1>4 DEF ipc_reply
  <2>2. pc[r] = "closed" /\ peer[r] = t
    BY <2>1 DEF IpcInv, ReplyFindsReceiver
  <2>3. GoesOn
    BY <1>2, <2>1, <2>2 DEF IpcGoesOn, TypeOK, Places
  <2>. QED BY <2>3
<1>5. GoesOn
  BY <1>3, <1>4
<1>6. TypeOK'
  BY <1>2, <1>5 DEF TypeOK
<1>7. IpcPartners' /\ IpcQueues' /\ ReplyFindsReceiver'
  BY <1>2, <1>5, IpcPlacesKept
<1>8. IpcBits' /\ IpcLists'
  BY <1>2 DEF IpcInv, IpcBits, IpcLists
<1>9. Announced'
  <2>. SUFFICES ASSUME NEW p \in Async
                PROVE  \/ NOTIFY_ASYNC(p[1]) \in notifications'[p[2]] \cup pending'[p[2]]
                       \/ pc'[p[1]] = "renotify" /\ peer'[p[1]] = p[2]
                       \/ p[2] \in dead_lock'
                       \/ For(p[1], p[2])' = {}
    BY IpcAnnouncedKept
  <2>1. For(p[1], p[2])' = For(p[1], p[2])
    BY <1>2 DEF For
  <2>2. p[1] \in Tasks
    BY IpcConstants
  <2>. QED BY <1>2, <1>5, <2>1, <2>2, IpcAnnounced
<1>10. \A s \in Tasks : /\ pc'[s] = "open" => pc[s] = "open"
                        /\ pc[s] = "reply" => pc'[s] = pc[s]
                        /\ pc[s] = "serve" => pc'[s] = pc[s] \/ pc'[peer[s]] # "closed"
  <2>1. CASE ipc_recv(t)
    <3>1. pc[t] = "run" /\ pc' = [pc EXCEPT ![t] = "recv"]
      BY <2>1 DEF ipc_recv
    <3>. QED BY <1>2, <3>1 DEF TypeOK
  <2>2. CASE ipc_reply(t)
    <3>1. pc[t] = "serve" /\ r = peer[t] /\ pc' = [pc EXCEPT ![t] = "run", ![r] = "run"]
      BY <1>1, <2>2 DEF ipc_reply
    <3>2. pc[r] = "closed" /\ peer[r] = t
      BY <3>1 DEF IpcInv, ReplyFindsReceiver
    <3>. QED BY <1>2, <3>1, <3>2 DEF TypeOK
  <2>. QED BY <2>1, <2>2
<1>11. IpcOpen'
  BY <1>2, <1>10, IpcOpenKept
<1>12. IpcLeft'
  <2>1. \A s, e \in Tasks : For(s, e)' = For(s, e)
    BY <1>2 DEF For
  <2>2. \A s, e \in Tasks : pc'[e] = "closed" /\ IpcStopsFor(s, e) => pc'[s] = pc[s]
    BY <1>10 DEF IpcStopsFor
  <2>. QED BY <1>2, <1>5, <2>1, <2>2, IpcLeftKept
<1>. QED BY <1>6, <1>7, <1>8, <1>9, <1>11, <1>12 DEF IpcInv

\* The first bit of a task stands for an interrupt or a task that sends to it.
LEMMA IpcFirstAsync ==
    ASSUME AsyncAssumption, IpcInv, NEW t \in Tasks, recv_notification_as_message(t),
           NEW src \in Tasks, First(pending[t]) = NOTIFY_ASYNC(src)
    PROVE  IpcAllowed(t, src, "poll")
<1>1. pending[t] # {} /\ TypeOK
  BY DEF recv_notification_as_message, IpcInv
<1>2. pending[t] \in SUBSET Nat
  <2>1. pending[t] \in SUBSET Bits
    BY <1>1 DEF TypeOK
  <2>2. Bits \subseteq Nat
    BY IpcConstants DEF Bits, IRQ, NOTIFY_ASYNC
  <2>. QED BY <2>1, <2>2
<1>3. \E b \in pending[t] : \A x \in pending[t] : b =< x
  BY <1>1, <1>2, LeastOf
<1>4. First(pending[t]) \in pending[t]
  BY <1>3, Zenon DEF First
<1>5. PICK s \in Tasks : <<s, t>> \in Async /\ NOTIFY_ASYNC(src) = NOTIFY_ASYNC(s)
  BY <1>4, IpcAsyncBits DEF IpcInv, IpcBits
<1>. QED BY <1>4, <1>5, IpcAsyncBits DEF IpcAllowed

LEMMA IpcNotificationKept ==
    ASSUME AsyncAssumption, IpcInv, NEW t \in Tasks, recv_notification_as_message(t)
    PROVE  IpcInv'
<1>1. pc[t] = "recv" /\ pending[t] # {} /\ TypeOK
  BY DEF recv_notification_as_message, IpcInv
<1>2. ASSUME NEW src \in Tasks, First(pending[t]) = NOTIFY_ASYNC(src), Send(t, src, "poll")
      PROVE  IpcInv'
  <2>1. IpcAllowed(t, src, "poll")
    BY <1>2, IpcFirstAsync
  <2>. QED BY <1>1, <1>2, <2>1, IpcSendKept
<1>3. CASE /\ pending' = [pending EXCEPT ![t] = Dropped(@, IRQ)]
           /\ pc' = [pc EXCEPT ![t] = "run"]
           /\ UNCHANGED <<peer, kind, senders, notifications, async_messages, sent, got, dead_lock>>
  <2>1. /\ pc' \in [Tasks -> Places] /\ pending' \in [Tasks -> SUBSET Bits]
        /\ \A s \in Tasks : IpcGoesOn(s) /\ (pc[s] = "renotify" => pc'[s] = pc[s])
        /\ \A s \in Tasks : pending'[s] \subseteq pending[s] /\ pending[s] \subseteq pending'[s] \cup {IRQ}
    BY <1>1, <1>3 DEF TypeOK, Places, Dropped, IpcGoesOn
  <2>2. TypeOK'
    BY <1>1, <1>3, <2>1 DEF TypeOK
  <2>3. IpcPartners' /\ IpcQueues' /\ ReplyFindsReceiver'
    BY <1>3, <2>1, IpcPlacesKept
  <2>4. IpcBits' /\ IpcLists'
    BY <1>3, <2>1 DEF IpcInv, IpcBits, IpcLists
  <2>5. Announced'
    <3>. SUFFICES ASSUME NEW p \in Async
                  PROVE  \/ NOTIFY_ASYNC(p[1]) \in notifications'[p[2]] \cup pending'[p[2]]
                         \/ pc'[p[1]] = "renotify" /\ peer'[p[1]] = p[2]
                         \/ p[2] \in dead_lock'
                         \/ For(p[1], p[2])' = {}
      BY IpcAnnouncedKept
    <3>1. For(p[1], p[2])' = For(p[1], p[2])
      BY <1>3 DEF For
    <3>2. p[1] \in Tasks /\ p[2] \in Tasks
      BY IpcConstants
    <3>3. NOTIFY_ASYNC(p[1]) # IRQ
      BY <3>2, IpcAsyncBits
    <3>. QED BY <1>3, <2>1, <3>1, <3>2, <3>3, IpcAnnounced
  <2>6. \A s \in Tasks : /\ pc'[s] = "open" => pc[s] = "open"
                         /\ pc[s] \in {"serve", "reply"} => pc'[s] = pc[s]
    BY <1>1, <1>3 DEF TypeOK
  <2>7. IpcOpen'
    BY <1>3, <2>1, <2>6, IpcOpenKept
  <2>8. IpcLeft'
    <3>1. \A s, e \in Tasks : For(s, e)' = For(s, e)
      BY <1>3 DEF For
    <3>. QED BY <1>3, <2>1, <2>6, <3>1, IpcLeftKept DEF IpcStopsFor
  <2>. QED BY <2>2, <2>3, <2>4, <2>5, <2>7, <2>8 DEF IpcInv
<1>. QED BY <1>2, <1>3, Zenon DEF recv_notification_as_message

LEMMA IpcRecvAnyKept ==
    ASSUME AsyncAssumption, IpcInv, NEW t \in Tasks, ipc_recv_any(t)
    PROVE  IpcInv'
<1>1. /\ pc[t] = "recv" /\ pending[t] = {} /\ TypeOK
      /\ UNCHANGED <<kind, async_messages, sent, got, dead_lock>>
  BY DEF ipc_recv_any, IpcInv
<1>2. CASE /\ notifications[t] = {} /\ senders[t] # <<>>
           /\ HandOver(Head(senders[t]), t, kind[Head(senders[t])])
           /\ senders' = [senders EXCEPT ![t] = Tail(@)]
           /\ UNCHANGED <<notifications, pending>>
  <2>1. PICK q \in Seq(Tasks) : q = senders[t] /\ q # <<>>
    BY <1>1, <1>2 DEF TypeOK
  <2>2. /\ Tail(q) \in Seq(Tasks) /\ Len(Tail(q)) = Len(q) - 1 /\ Head(q) = q[1] /\ 1 \in 1 .. Len(q)
        /\ \A i \in 1 .. Len(q) - 1 : Tail(q)[i] = q[i + 1]
    BY <2>1
  <2>3. PICK s \in Tasks : s = q[1]
    BY <2>1, <2>2
  <2>4. pc[s] = "sending" /\ peer[s] = t
    BY <2>1, <2>2, <2>3 DEF IpcInv, IpcQueues
  <2>5. s # t
    BY <1>1, <2>4
  <2>6. HandOver(s, t, kind[s]) /\ kind[s] \in Kinds
    BY <1>1, <1>2, <2>1, <2>2, <2>3 DEF TypeOK
  <2>7. kind[s] = "poll" => <<t, s>> \in Async
    BY <2>4 DEF IpcInv, IpcPartners
  <2>8. /\ senders' \in [Tasks -> Seq(Tasks)] /\ senders'[t] = Tail(q)
        /\ \A e \in Tasks \ {t} : senders'[e] = senders[e]
    BY <1>1, <1>2, <2>1, <2>2 DEF TypeOK
  <2>9. ASSUME NEW e \in Tasks, NEW i \in 1 .. Len(senders'[e])
        PROVE  /\ senders'[e][i] # s
               /\ \E j \in 1 .. Len(senders[e]) : senders'[e][i] = senders[e][j]
    <3>1. CASE e = t
      <4>0. senders'[e] = Tail(q) /\ i \in 1 .. Len(Tail(q)) /\ Len(q) \in Nat
        BY <2>1, <2>8, <3>1, SMTT(30)
      <4>1. i \in 1 .. Len(q) - 1 /\ senders'[e][i] = q[i + 1] /\ i + 1 \in 1 .. Len(q)
        BY <2>2, <4>0
      <4>2. q[i + 1] # q[1]
        BY <2>1, <2>2, <4>1 DEF IpcInv, IpcQueues
      <4>. QED BY <2>1, <2>3, <3>1, <4>1, <4>2
    <3>2. CASE e # t
      <4>1. senders'[e] = senders[e] /\ i \in 1 .. Len(senders[e])
        BY <2>8, <2>9, <3>2
      <4>2. peer[senders[e][i]] = e
        BY <4>1 DEF IpcInv, IpcQueues
      <4>. QED BY <2>4, <3>2, <4>1, <4>2
    <3>. QED BY <3>1, <3>2
  <2>10. ASSUME NEW e \in Tasks, NEW i \in 1 .. Len(senders'[e]), NEW j \in 1 .. Len(senders'[e]),
                senders'[e][i] = senders'[e][j]
         PROVE  i = j
    <3>1. CASE e = t
      <4>a. senders'[e] = Tail(q) /\ Len(q) \in Nat
        BY <2>1, <2>8, <3>1, SMTT(30)
      <4>0. /\ senders'[e] = Tail(q) /\ Len(q) \in Nat
            /\ i \in 1 .. Len(Tail(q)) /\ j \in 1 .. Len(Tail(q))
        BY <4>a, Zenon
      <4>1. /\ i \in 1 .. Len(q) - 1 /\ senders'[e][i] = q[i + 1] /\ i + 1 \in 1 .. Len(q)
            /\ j \in 1 .. Len(q) - 1 /\ senders'[e][j] = q[j + 1] /\ j + 1 \in 1 .. Len(q)
        BY <2>2, <4>0
      <4>2. i + 1 = j + 1
        BY <2>1, <2>10, <4>1, ZenonT(40) DEF IpcInv, IpcQueues
      <4>. QED BY <4>1, <4>2
    <3>2. CASE e # t
      BY <2>8, <2>10, <3>2 DEF IpcInv, IpcQueues
    <3>. QED BY <3>1, <3>2
  <2>11. kind' \in [Tasks -> Kinds] /\ \A e \in Tasks \ {s} : kind'[e] = kind[e]
    BY <1>1 DEF TypeOK
  <2>12. /\ notifications[t] = {} /\ pending[t] = {}
         /\ pc[s] \in {"run", "recv", "sending"} /\ pc[t] \in {"open", "recv"}
         /\ UNCHANGED <<notifications, pending, async_messages, sent, got, dead_lock>>
    BY <1>1, <1>2, <2>4
  <2>. QED BY <2>5, <2>6, <2>7, <2>8, <2>9, <2>10, <2>11, <2>12, HandOverKept, ZenonT(40)
<1>3. CASE \/ /\ notifications[t] # {}
              /\ pending' = [pending EXCEPT ![t] = notifications[t]]
              /\ notifications' = [notifications EXCEPT ![t] = {}]
              /\ UNCHANGED <<pc, peer, senders>>
           \/ /\ notifications[t] = {} /\ senders[t] = <<>>
              /\ pc' = [pc EXCEPT ![t] = "open"]
              /\ UNCHANGED <<peer, senders, notifications, pending>>
  <2>1. /\ pc' \in [Tasks -> Places]
        /\ notifications' \in [Tasks -> SUBSET Bits] /\ pending' \in [Tasks -> SUBSET Bits]
    BY <1>1, <1>3 DEF TypeOK, Places
  <2>2. /\ \A s \in Tasks : IpcGoesOn(s) /\ (pc[s] = "renotify" => pc'[s] = pc[s])
        /\ \A s \in Tasks : notifications'[s] \cup pending'[s] = notifications[s] \cup pending[s]
    BY <1>1, <1>3, SMTT(30) DEF TypeOK, IpcGoesOn
  <2>3. TypeOK'
    BY <1>1, <1>3, <2>1 DEF TypeOK
  <2>4. IpcPartners' /\ IpcQueues' /\ ReplyFindsReceiver'
    BY <1>1, <1>3, <2>2, IpcPlacesKept
  <2>5. IpcBits' /\ IpcLists'
    BY <1>1, <2>2 DEF IpcInv, IpcBits, IpcLists
  <2>6. Announced'
    <3>. SUFFICES ASSUME NEW p \in Async
                  PROVE  \/ NOTIFY_ASYNC(p[1]) \in notifications'[p[2]] \cup pending'[p[2]]
                         \/ pc'[p[1]] = "renotify" /\ peer'[p[1]] = p[2]
                         \/ p[2] \in dead_lock'
                         \/ For(p[1], p[2])' = {}
      BY IpcAnnouncedKept
    <3>1. For(p[1], p[2])' = For(p[1], p[2])
      BY <1>1 DEF For
    <3>2. p[1] \in Tasks /\ p[2] \in Tasks /\ peer' = peer
      BY <1>3, IpcConstants
    <3>. QED BY <1>1, <2>2, <3>1, <3>2, IpcAnnounced
  <2>7. /\ \A s \in Tasks : pc[s] \in {"serve", "reply", "closed"} => pc'[s] = pc[s]
        /\ \A s \in Tasks \ {t} : /\ pc'[s] = pc[s] /\ notifications'[s] = notifications[s]
                                  /\ pending'[s] = pending[s]
        /\ pc'[t] = "recv" \/ (pc'[t] = "open" /\ notifications'[t] = {} /\ pending'[t] = {})
    BY <1>1, <1>3 DEF TypeOK
  <2>8. IpcOpen'
    BY <2>7, IpcOpenKept
  <2>9. IpcLeft'
    <3>1. \A s, e \in Tasks : For(s, e)' = For(s, e)
      BY <1>1 DEF For
    <3>2. \A e \in Tasks : pc'[e] = "closed" => notifications'[e] = notifications[e]
      BY <2>7
    <3>. QED BY <1>3, <2>2, <2>7, <3>1, <3>2, IpcLeftKept DEF IpcStopsFor
  <2>. QED BY <2>3, <2>4, <2>5, <2>6, <2>8, <2>9 DEF IpcInv
<1>. QED BY <1>2, <1>3, Zenon DEF ipc_recv_any

\* A step that adds bits to task d; messages that are new are announced by them, and so are
\* those of a task that was about to.
IpcStepAdds(d, bits) ==
    /\ pc' \in [Tasks -> Places] /\ \A s \in Tasks : IpcGoesOn(s)
    /\ notifications' \in [Tasks -> SUBSET Bits] /\ pending' \in [Tasks -> SUBSET Bits]
    /\ \A s \in Tasks :
         notifications'[s] \cup pending'[s]
             = notifications[s] \cup pending[s] \cup (IF s = d THEN bits ELSE {})
    /\ \A b \in bits : b = IRQ \/ \E s \in Tasks : /\ <<s, d>> \in Async /\ b = NOTIFY_ASYNC(s)
                                                  /\ pc[s] # "closed"
    /\ IpcBitsGoTo(d, bits)
    /\ \A s \in Tasks : /\ pc'[s] = "open" => pc[s] = "open"
                        /\ pc[s] \in {"serve", "reply"} => pc'[s] = pc[s]
    /\ \A p \in Async : \/ NOTIFY_ASYNC(p[1]) \in bits /\ p[2] = d
                        \/ /\ For(p[1], p[2])' = For(p[1], p[2])
                           /\ pc[p[1]] = "renotify" => pc'[p[1]] = "renotify" \/ peer[p[1]] # p[2]
    /\ UNCHANGED <<peer, kind, senders, got, dead_lock>>
    /\ async_messages' \in [Tasks -> Seq([dst : Tasks, n : Numbers])]
    /\ sent' \in [Async -> Numbers] /\ IpcLists'

LEMMA IpcBitsAdded ==
    ASSUME AsyncAssumption, IpcInv, NEW d \in Tasks, NEW bits \in SUBSET Bits, IpcStepAdds(d, bits)
    PROVE  IpcInv'
<1>. USE DEF IpcStepAdds
<1>1. TypeOK'
  BY DEF IpcInv, TypeOK
<1>2. IpcPartners' /\ IpcQueues' /\ ReplyFindsReceiver'
  BY IpcPlacesKept
<1>3. IpcBits'
  <2>. SUFFICES ASSUME NEW t \in Tasks, NEW b \in notifications'[t] \cup pending'[t]
                PROVE  b = IRQ \/ \E s \in Tasks : <<s, t>> \in Async /\ b = NOTIFY_ASYNC(s)
    BY Zenon DEF IpcBits
  <2>1. b \in notifications[t] \cup pending[t] \/ (t = d /\ b \in bits)
    OBVIOUS
  <2>. QED BY <2>1, Zenon DEF IpcInv, IpcBits
<1>4. Announced'
  <2>. SUFFICES ASSUME NEW p \in Async
                PROVE  \/ NOTIFY_ASYNC(p[1]) \in notifications'[p[2]] \cup pending'[p[2]]
                       \/ pc'[p[1]] = "renotify" /\ peer'[p[1]] = p[2]
                       \/ p[2] \in dead_lock'
                       \/ For(p[1], p[2])' = {}
    BY IpcAnnouncedKept
  <2>1. p[1] \in Tasks /\ p[2] \in Tasks
    BY IpcConstants
  <2>2. CASE NOTIFY_ASYNC(p[1]) \in bits /\ p[2] = d
    BY <2>1, <2>2
  <2>3. CASE /\ For(p[1], p[2])' = For(p[1], p[2])
             /\ pc[p[1]] = "renotify" => pc'[p[1]] = "renotify" \/ peer[p[1]] # p[2]
    BY <2>1, <2>3, IpcAnnounced
  <2>. QED BY <2>2, <2>3
<1>5. IpcOpen'
  BY IpcOpenKept DEF IpcBitsGoTo
<1>6. IpcLeft'
  <2>1. ASSUME NEW s \in Tasks, NEW e \in Tasks, pc'[e] = "closed"
        PROVE  /\ IpcStopsFor(s, e) => pc'[s] = pc[s]
               /\ NOTIFY_ASYNC(e) \in notifications'[s] \cup pending'[s] =>
                     NOTIFY_ASYNC(e) \in notifications[s] \cup pending[s]
               /\ notifications[e] \subseteq notifications'[e]
               /\ NOTIFY_ASYNC(s) \in notifications'[e] \/ (For(s, e) = {} => For(s, e)' = {})
    <3>1. pc[e] = "closed"
      BY <2>1 DEF IpcGoesOn
    <3>2. NOTIFY_ASYNC(e) \notin bits
      BY <3>1, IpcAsyncBits
    <3>3. NOTIFY_ASYNC(s) \in notifications'[e] \/ (For(s, e) = {} => For(s, e)' = {})
      <4>1. CASE <<s, e>> \in Async
        <5>1. PICK p \in Async : p = <<s, e>> /\ p[1] = s /\ p[2] = e
          BY <4>1
        <5>2. CASE NOTIFY_ASYNC(p[1]) \in bits /\ p[2] = d
          BY <3>1, <5>1, <5>2 DEF IpcBitsGoTo
        <5>3. CASE For(p[1], p[2])' = For(p[1], p[2])
          BY <5>1, <5>3
        <5>. QED BY <5>2, <5>3
      <4>2. CASE <<s, e>> \notin Async
        <5>1. \A i \in 1 .. Len(async_messages'[s]) : async_messages'[s][i].dst # e
          BY <4>2, Zenon DEF IpcLists
        <5>2. DOMAIN async_messages'[s] = 1 .. Len(async_messages'[s])
          <6>1. async_messages'[s] \in Seq([dst : Tasks, n : Numbers])
            OBVIOUS
          <6>. QED BY <6>1
        <5>3. For(s, e)' = {i \in DOMAIN async_messages'[s] : async_messages'[s][i].dst = e}
          BY Zenon DEF For
        <5>. QED BY <5>1, <5>2, <5>3
      <4>. QED BY <4>1, <4>2
    <3>. QED BY <2>1, <3>2, <3>3 DEF IpcStopsFor, IpcBitsGoTo
  <2>. QED BY <2>1, IpcLeftKept
<1>. QED BY <1>1, <1>2, <1>3, <1>4, <1>5, <1>6 DEF IpcInv

LEMMA IpcInterruptKept ==
    ASSUME AsyncAssumption, IpcInv, NEW t \in Tasks, interrupt(t)
    PROVE  IpcInv'
<1>1. Notify(t, {IRQ}) /\ UNCHANGED <<peer, kind, senders, async_messages, sent, got, dead_lock>>
  BY DEF interrupt
<1>2. {IRQ} \in SUBSET Bits
  BY DEF Bits
<1>3. /\ pc' \in [Tasks -> Places]
      /\ notifications' \in [Tasks -> SUBSET Bits] /\ pending' \in [Tasks -> SUBSET Bits]
      /\ \A s \in Tasks : pc'[s] = pc[s] \/ (pc[s] = "open" /\ pc'[s] = "recv")
      /\ \A s \in Tasks : notifications'[s] \cup pending'[s]
            = notifications[s] \cup pending[s] \cup (IF s = t THEN {IRQ} ELSE {})
      /\ IpcBitsGoTo(t, {IRQ})
  BY <1>1, <1>2, IpcNotifyEffect, Zenon
<1>4. \A s \in Tasks : /\ IpcGoesOn(s)
                       /\ pc'[s] = "open" => pc[s] = "open"
                       /\ pc[s] \in {"serve", "reply"} => pc'[s] = pc[s]
  BY <1>3 DEF IpcGoesOn
<1>5. \A p \in Async : /\ For(p[1], p[2])' = For(p[1], p[2])
                       /\ pc[p[1]] = "renotify" => pc'[p[1]] = "renotify" \/ peer[p[1]] # p[2]
  BY <1>1, <1>3, IpcConstants DEF For
<1>6. /\ async_messages' \in [Tasks -> Seq([dst : Tasks, n : Numbers])]
      /\ sent' \in [Async -> Numbers] /\ IpcLists'
  BY <1>1 DEF IpcInv, TypeOK, IpcLists
<1>7. IpcStepAdds(t, {IRQ})
  BY <1>1, <1>2, <1>3, <1>4, <1>5, <1>6, Zenon DEF IpcStepAdds
<1>. QED BY <1>2, <1>7, IpcBitsAdded

LEMMA IpcRenotifyKept ==
    ASSUME AsyncAssumption, IpcInv, NEW t \in Tasks, async_renotify(t)
    PROVE  IpcInv'
<1>1. pc[t] = "renotify" /\ UNCHANGED <<peer, kind, senders, async_messages, sent, got, dead_lock>>
  BY DEF async_renotify
<1>2. PICK d \in Tasks : d = peer[t] /\ <<t, d>> \in Async
  BY <1>1, IpcPairs DEF IpcInv, IpcPartners
<1>3. PICK bits : bits = {NOTIFY_ASYNC(t)}
  OBVIOUS
<1>4. bits \in SUBSET Bits
  BY <1>3 DEF Bits
<1>5. /\ pc \in [Tasks -> Places] /\ "recv" \in Places
      /\ notifications \in [Tasks -> SUBSET Bits] /\ pending \in [Tasks -> SUBSET Bits]
  BY DEF IpcInv, TypeOK, Places
<1>6. \/ /\ pc[d] = "open" /\ pc' = [pc EXCEPT ![t] = "recv", ![d] = "recv"]
         /\ pending' = [pending EXCEPT ![d] = @ \cup bits] /\ notifications' = notifications
      \/ /\ pc[d] # "open" /\ pc' = [pc EXCEPT ![t] = "recv"]
         /\ notifications' = [notifications EXCEPT ![d] = @ \cup bits] /\ pending' = pending
  BY <1>2, <1>3 DEF async_renotify
<1>7. /\ pc' \in [Tasks -> Places]
      /\ notifications' \in [Tasks -> SUBSET Bits] /\ pending' \in [Tasks -> SUBSET Bits]
  BY <1>4, <1>5, <1>6
<1>8. /\ \A s \in Tasks : pc'[s] = pc[s] \/ (s = t /\ pc'[s] = "recv")
                                \/ (pc[s] = "open" /\ pc'[s] = "recv")
      /\ \A s \in Tasks : notifications'[s] \cup pending'[s]
            = notifications[s] \cup pending[s] \cup (IF s = d THEN bits ELSE {})
  BY <1>5, <1>6
<1>9. /\ \A s \in Tasks : /\ IpcGoesOn(s)
                          /\ pc'[s] = "open" => pc[s] = "open"
                          /\ pc[s] \in {"serve", "reply"} => pc'[s] = pc[s]
      /\ IpcBitsGoTo(d, bits)
  <2>1. \A s \in Tasks : /\ IpcGoesOn(s)
                         /\ pc'[s] = "open" => pc[s] = "open"
                         /\ pc[s] \in {"serve", "reply"} => pc'[s] = pc[s]
    BY <1>1, <1>8 DEF IpcGoesOn
  <2>2. t # d
    BY <1>2, IpcPairs
  <2>3. IpcBitsGoTo(d, bits)
    BY <1>5, <1>6, <2>2 DEF IpcBitsGoTo
  <2>. QED BY <2>1, <2>3
<1>10. \A p \in Async : \/ NOTIFY_ASYNC(p[1]) \in bits /\ p[2] = d
                        \/ /\ For(p[1], p[2])' = For(p[1], p[2])
                           /\ pc[p[1]] = "renotify" => pc'[p[1]] = "renotify" \/ peer[p[1]] # p[2]
  <2>. SUFFICES ASSUME NEW p \in Async
                PROVE  \/ NOTIFY_ASYNC(p[1]) \in bits /\ p[2] = d
                       \/ /\ For(p[1], p[2])' = For(p[1], p[2])
                          /\ pc[p[1]] = "renotify" => pc'[p[1]] = "renotify" \/ peer[p[1]] # p[2]
    OBVIOUS
  <2>1. For(p[1], p[2])' = For(p[1], p[2]) /\ p[1] \in Tasks
    BY <1>1, IpcConstants DEF For
  <2>2. CASE p[1] = t
    BY <1>2, <1>3, <2>1, <2>2
  <2>3. CASE p[1] # t
    BY <1>8, <2>1, <2>3
  <2>. QED BY <2>2, <2>3
<1>11. \A b \in bits : b = IRQ \/ \E s \in Tasks : /\ <<s, d>> \in Async /\ b = NOTIFY_ASYNC(s)
                                                   /\ pc[s] # "closed"
  BY <1>1, <1>2, <1>3
<1>12. /\ async_messages' \in [Tasks -> Seq([dst : Tasks, n : Numbers])]
       /\ sent' \in [Async -> Numbers] /\ IpcLists'
  BY <1>1 DEF IpcInv, TypeOK, IpcLists
<1>13. IpcStepAdds(d, bits)
  BY <1>1, <1>4, <1>7, <1>8, <1>9, <1>10, <1>11, <1>12, Zenon DEF IpcStepAdds
<1>. QED BY <1>4, <1>13, IpcBitsAdded

\* The lists after a message has been added.
IpcAdded(t, d, n) ==
    /\ n = (sent[<<t, d>>] + 1) % (MaxQueue + 1)
    /\ sent' = [sent EXCEPT ![<<t, d>>] = n]
    /\ async_messages' = [async_messages EXCEPT ![t] = Append(@, [dst |-> d, n |-> n])]

LEMMA IpcSendAsyncKept ==
    ASSUME AsyncAssumption, IpcInv, NEW t \in Tasks, NEW d \in Tasks, ipc_send_async(t, d)
    PROVE  IpcInv'
<1>1. /\ pc[t] = "run" /\ <<t, d>> \in Async /\ Notify(d, {NOTIFY_ASYNC(t)})
      /\ UNCHANGED <<peer, kind, senders, got, dead_lock>>
  BY DEF ipc_send_async
<1>2. PICK n : IpcAdded(t, d, n)
  BY Zenon DEF ipc_send_async, IpcAdded, Enqueue
<1>3. PICK bits : bits = {NOTIFY_ASYNC(t)}
  OBVIOUS
<1>4. bits \in SUBSET Bits
  BY <1>3 DEF Bits
<1>5. /\ pc' \in [Tasks -> Places]
      /\ notifications' \in [Tasks -> SUBSET Bits] /\ pending' \in [Tasks -> SUBSET Bits]
      /\ \A s \in Tasks : pc'[s] = pc[s] \/ (pc[s] = "open" /\ pc'[s] = "recv")
      /\ \A s \in Tasks : notifications'[s] \cup pending'[s]
            = notifications[s] \cup pending[s] \cup (IF s = d THEN bits ELSE {})
      /\ IpcBitsGoTo(d, bits)
  BY <1>1, <1>3, <1>4, IpcNotifyEffect, Zenon
<1>6. \A s \in Tasks : /\ IpcGoesOn(s)
                       /\ pc'[s] = "open" => pc[s] = "open"
                       /\ pc[s] \in {"serve", "reply"} => pc'[s] = pc[s]
  BY <1>5 DEF IpcGoesOn
<1>7. TypeOK /\ MaxQueue \in Nat
  BY IpcConstants DEF IpcInv
<1>8. n \in Numbers /\ sent' \in [Async -> Numbers]
  <2>1. sent[<<t, d>>] \in Numbers
    BY <1>1, <1>7 DEF TypeOK
  <2>2. n \in Numbers
    BY <1>2, <1>7, <2>1 DEF IpcAdded, Numbers
  <2>. QED BY <1>2, <1>7, <2>2 DEF IpcAdded, TypeOK
<1>9. PICK am : am = [dst |-> d, n |-> n]
  OBVIOUS
<1>10. am \in [dst : Tasks, n : Numbers] /\ am.dst = d
  BY <1>8, <1>9
<1>11. PICK q \in Seq([dst : Tasks, n : Numbers]) : q = async_messages[t]
  BY <1>7 DEF TypeOK
<1>12. /\ Append(q, am) \in Seq([dst : Tasks, n : Numbers]) /\ Len(Append(q, am)) = Len(q) + 1
       /\ Len(q) \in Nat /\ \A i \in 1 .. Len(q) : Append(q, am)[i] = q[i]
       /\ Append(q, am)[Len(q) + 1] = am /\ \A i \in 1 .. Len(q) + 1 : i = Len(q) + 1 \/ i \in 1 .. Len(q)
       /\ DOMAIN Append(q, am) = 1 .. Len(q) + 1 /\ DOMAIN q = 1 .. Len(q)
  BY <1>10
<1>13. /\ async_messages' \in [Tasks -> Seq([dst : Tasks, n : Numbers])]
       /\ async_messages'[t] = Append(q, am)
       /\ \A s \in Tasks \ {t} : async_messages'[s] = async_messages[s]
  BY <1>2, <1>7, <1>9, <1>11, <1>12 DEF IpcAdded, TypeOK
<1>14. IpcLists'
  <2>. SUFFICES ASSUME NEW s \in Tasks, NEW i \in 1 .. Len(async_messages'[s])
                PROVE  <<s, async_messages'[s][i].dst>> \in Async
    BY DEF IpcLists
  <2>1. CASE s = t
    <3>1. i \in 1 .. Len(q) + 1 /\ async_messages'[s][i] = Append(q, am)[i]
      BY <1>12, <1>13, <2>1
    <3>2. CASE i \in 1 .. Len(q)
      BY <1>11, <1>12, <2>1, <3>1, <3>2 DEF IpcInv, IpcLists
    <3>. QED BY <1>1, <1>10, <1>12, <2>1, <3>1, <3>2
  <2>2. CASE s # t
    BY <1>13, <2>2 DEF IpcInv, IpcLists
  <2>. QED BY <2>1, <2>2
<1>15. \A p \in Async : \/ NOTIFY_ASYNC(p[1]) \in bits /\ p[2] = d
                        \/ /\ For(p[1], p[2])' = For(p[1], p[2])
                           /\ pc[p[1]] = "renotify" => pc'[p[1]] = "renotify" \/ peer[p[1]] # p[2]
  <2>. SUFFICES ASSUME NEW p \in Async, ~(p[1] = t /\ p[2] = d)
                PROVE  /\ For(p[1], p[2])' = For(p[1], p[2])
                       /\ pc[p[1]] = "renotify" => pc'[p[1]] = "renotify"
    BY <1>3
  <2>1. p[1] \in Tasks
    BY IpcConstants
  <2>2. For(p[1], p[2])' = For(p[1], p[2])
    <3>1. CASE p[1] = t
      <4>1. \A i \in 1 .. Len(q) + 1 : Append(q, am)[i].dst = p[2] => i \in 1 .. Len(q)
        BY <1>10, <1>12, <3>1
      <4>2. {i \in 1 .. Len(q) + 1 : Append(q, am)[i].dst = p[2]} = {i \in 1 .. Len(q) : q[i].dst = p[2]}
        BY <1>12, <4>1
      <4>3. /\ For(p[1], p[2])' = {i \in DOMAIN Append(q, am) : Append(q, am)[i].dst = p[2]}
            /\ For(p[1], p[2]) = {i \in DOMAIN q : q[i].dst = p[2]}
        BY <1>11, <1>13, <3>1 DEF For
      <4>. QED BY <1>12, <4>2, <4>3, Zenon
    <3>2. CASE p[1] # t
      BY <1>13, <2>1, <3>2, Zenon DEF For
    <3>. QED BY <3>1, <3>2
  <2>. QED BY <1>5, <2>1, <2>2
<1>16. \A b \in bits : b = IRQ \/ \E s \in Tasks : /\ <<s, d>> \in Async /\ b = NOTIFY_ASYNC(s)
                                                   /\ pc[s] # "closed"
  BY <1>1, <1>3
<1>17. IpcStepAdds(d, bits)
  BY <1>1, <1>4, <1>5, <1>6, <1>8, <1>13, <1>14, <1>15, <1>16, Zenon DEF IpcStepAdds
<1>. QED BY <1>4, <1>17, IpcBitsAdded

\* A sequence without its i-th element.
LEMMA RemoveAtElements ==
    ASSUME NEW S, NEW q \in Seq(S), NEW i \in 1 .. Len(q)
    PROVE  /\ RemoveAt(q, i) \in Seq(S) /\ Len(RemoveAt(q, i)) = Len(q) - 1
           /\ \A j \in 1 .. Len(q) - 1 : RemoveAt(q, i)[j] = IF j < i THEN q[j] ELSE q[j + 1]
<1>1. PICK a, b : a = SubSeq(q, 1, i - 1) /\ b = SubSeq(q, i + 1, Len(q))
  OBVIOUS
<1>2. /\ a \in Seq(S) /\ Len(a) = i - 1 /\ \A j \in 1 .. i - 1 : a[j] = q[j]
  BY <1>1
<1>3. /\ b \in Seq(S) /\ Len(b) = Len(q) - i /\ \A j \in 1 .. Len(q) - i : b[j] = q[i + j]
  BY <1>1
<1>4. RemoveAt(q, i) = a \o b
  BY <1>1 DEF RemoveAt
<1>5. /\ a \o b \in Seq(S) /\ Len(a \o b) = Len(q) - 1
      /\ \A j \in 1 .. Len(q) - 1 : (a \o b)[j] = IF j < i THEN a[j] ELSE b[j - (i - 1)]
  <2>1. Len(a) + Len(b) = Len(q) - 1 /\ Len(q) \in Nat
    BY <1>2, <1>3
  <2>2. /\ a \o b \in Seq(S) /\ Len(a \o b) = Len(a) + Len(b)
        /\ \A j \in 1 .. Len(a) + Len(b) : (a \o b)[j] = IF j =< Len(a) THEN a[j] ELSE b[j - Len(a)]
    BY <1>2, <1>3, ConcatProperties
  <2>3. \A j \in 1 .. Len(q) - 1 : j =< Len(a) <=> j < i
    BY <1>2, <2>1
  <2>. QED BY <1>2, <2>1, <2>2, <2>3
<1>6. ASSUME NEW j \in 1 .. Len(q) - 1 PROVE (a \o b)[j] = IF j < i THEN q[j] ELSE q[j + 1]
  <2>1. CASE j < i
    BY <1>2, <1>5, <2>1
  <2>2. CASE ~(j < i)
    <3>1. j - (i - 1) \in 1 .. Len(q) - i /\ i + (j - (i - 1)) = j + 1
      BY <2>2
    <3>. QED BY <1>3, <1>5, <2>2, <3>1
  <2>. QED BY <2>1, <2>2
<1>. QED BY <1>4, <1>5, <1>6

\* The first message for d is taken out of the list of t.
IpcTaken(t, d, first) ==
    /\ first \in For(t, d) /\ \A j \in For(t, d) : first =< j
    /\ pc' = [pc EXCEPT ![t] = After(For(t, d) \ {first}), ![d] = "run"]
    /\ got' = [got EXCEPT ![<<t, d>>] = async_messages[t][first].n]
    /\ pending' = [pending EXCEPT ![d] = Dropped(@, NOTIFY_ASYNC(t))]
    /\ async_messages' = [async_messages EXCEPT ![t] = RemoveAt(@, first)]
    /\ UNCHANGED <<peer, kind, senders, notifications, sent, dead_lock>>

LEMMA IpcReplyTakes ==
    ASSUME AsyncAssumption, IpcInv, NEW t \in Tasks, async_reply(t), For(t, peer[t]) # {}
    PROVE  \E first : IpcTaken(t, peer[t], first)
<1>1. PICK d : d = peer[t]
  OBVIOUS
<1>2. PICK mine : mine = For(t, d)
  OBVIOUS
<1>3. mine \in SUBSET Nat /\ mine # {}
  <2>1. async_messages[t] \in Seq([dst : Tasks, n : Numbers])
    BY DEF IpcInv, TypeOK
  <2>. QED BY <1>1, <1>2, <2>1 DEF For
<1>4. PICK i \in mine : \A j \in mine : i =< j
  BY <1>3, LeastOf
<1>5. PICK first : first = CHOOSE x \in mine : \A j \in mine : x =< j
  OBVIOUS
<1>6. first \in mine /\ \A j \in mine : first =< j
  BY <1>4, <1>5, Zenon
<1>7. IpcTaken(t, d, first)
  BY <1>1, <1>2, <1>3, <1>5, <1>6, Zenon DEF async_reply, IpcTaken
<1>. QED BY <1>1, <1>7

LEMMA IpcTakenKept ==
    ASSUME AsyncAssumption, IpcInv, NEW t \in Tasks, NEW d, d = peer[t], pc[t] = "reply", NEW first, IpcTaken(t, d, first)
    PROVE  IpcInv'
<1>1. /\ <<t, d>> \in Async /\ d \in Tasks /\ t # d /\ pc[d] = "closed" /\ peer[d] = t
  BY IpcPairs DEF IpcInv, IpcPartners, ReplyFindsReceiver
<1>2. TypeOK
  BY DEF IpcInv
<1>3. PICK q \in Seq([dst : Tasks, n : Numbers]) : q = async_messages[t]
  BY <1>2 DEF TypeOK
<1>4. /\ first \in 1 .. Len(q) /\ q[first].dst = d /\ q[first].n \in Numbers /\ Len(q) \in Nat
      /\ \A j \in 1 .. Len(q) : q[j].dst = d => first =< j
  <2>1. DOMAIN q = 1 .. Len(q) /\ Len(q) \in Nat
    BY <1>3
  <2>2. For(t, d) = {j \in 1 .. Len(q) : q[j].dst = d}
    BY <1>3, <2>1 DEF For
  <2>3. first \in 1 .. Len(q) /\ q[first].dst = d /\ \A j \in 1 .. Len(q) : q[j].dst = d => first =< j
    BY <2>2 DEF IpcTaken
  <2>4. q[first] \in [dst : Tasks, n : Numbers]
    BY <2>3, ElementOfSeq
  <2>5. q[first].n \in Numbers
    BY <2>4
  <2>. QED BY <2>1, <2>3, <2>5
<1>5. PICK r : r = RemoveAt(q, first)
  OBVIOUS
<1>6. /\ r \in Seq([dst : Tasks, n : Numbers]) /\ Len(r) = Len(q) - 1
      /\ \A j \in 1 .. Len(q) - 1 : r[j] = IF j < first THEN q[j] ELSE q[j + 1]
  BY <1>4, <1>5, RemoveAtElements
<1>7. /\ async_messages' \in [Tasks -> Seq([dst : Tasks, n : Numbers])] /\ async_messages'[t] = r
      /\ \A s \in Tasks \ {t} : async_messages'[s] = async_messages[s]
  BY <1>2, <1>3, <1>5, <1>6 DEF IpcTaken, TypeOK
<1>8. /\ pc'[d] = "run" /\ \A s \in Tasks \ {t, d} : pc'[s] = pc[s]
      /\ pc'[t] = IF For(t, d) \ {first} # {} THEN "renotify" ELSE "recv"
      /\ pc' \in [Tasks -> Places]
  BY <1>1, <1>2 DEF IpcTaken, TypeOK, After, Places
<1>9. /\ \A s \in Tasks \ {d} : pending'[s] = pending[s]
      /\ pending'[d] = pending[d] \ {NOTIFY_ASYNC(t)}
      /\ pending' \in [Tasks -> SUBSET Bits]
  BY <1>1, <1>2 DEF IpcTaken, TypeOK, Dropped
<1>10. UNCHANGED <<peer, kind, senders, notifications, sent, dead_lock>>
  BY DEF IpcTaken
<1>11. TypeOK'
  <2>1. got' \in [Async -> Numbers]
    BY <1>2, <1>3, <1>4 DEF IpcTaken, TypeOK
  <2>. QED BY <1>2, <1>7, <1>8, <1>9, <1>10, <2>1 DEF TypeOK
<1>12. IpcPartners' /\ IpcQueues' /\ ReplyFindsReceiver'
  <2>1. \A s \in Tasks : IpcGoesOn(s)
    BY <1>1, <1>8 DEF IpcGoesOn
  <2>. QED BY <1>10, <2>1, IpcPlacesKept
<1>13. IpcBits'
  <2>1. \A s \in Tasks : notifications'[s] \cup pending'[s] \subseteq notifications[s] \cup pending[s]
    BY <1>9, <1>10
  <2>. QED BY <2>1 DEF IpcInv, IpcBits
<1>14. IpcLists'
  <2>. SUFFICES ASSUME NEW s \in Tasks, NEW i \in 1 .. Len(async_messages'[s])
                PROVE  <<s, async_messages'[s][i].dst>> \in Async
    BY DEF IpcLists
  <2>1. CASE s = t
    <3>1. i \in 1 .. Len(q) - 1 /\ async_messages'[s][i] = r[i]
      BY <1>6, <1>7, <2>1
    <3>2. PICK j \in 1 .. Len(q) : r[i] = q[j]
      BY <1>4, <1>6, <3>1, SMTT(30)
    <3>. QED BY <1>3, <2>1, <3>1, <3>2 DEF IpcInv, IpcLists
  <2>2. CASE s # t
    BY <1>7, <2>2 DEF IpcInv, IpcLists
  <2>. QED BY <2>1, <2>2
<1>15. Announced'
  <2>. SUFFICES ASSUME NEW p \in Async
                PROVE  \/ NOTIFY_ASYNC(p[1]) \in notifications'[p[2]] \cup pending'[p[2]]
                       \/ pc'[p[1]] = "renotify" /\ peer'[p[1]] = p[2]
                       \/ p[2] \in dead_lock'
                       \/ For(p[1], p[2])' = {}
    BY IpcAnnouncedKept
  <2>1. p[1] \in Tasks /\ p[2] \in Tasks
    BY IpcConstants
  <2>2. CASE p[1] # t
    <3>1. For(p[1], p[2])' = For(p[1], p[2])
      BY <1>7, <2>1, <2>2 DEF For
    <3>2. NOTIFY_ASYNC(p[1]) # NOTIFY_ASYNC(t)
      BY <2>1, <2>2, IpcAsyncBits
    <3>3. pc[p[1]] = "renotify" => pc'[p[1]] = "renotify"
      BY <1>1, <1>8, <2>1, <2>2
    <3>. QED BY <1>9, <1>10, <2>1, <3>1, <3>2, <3>3, IpcAnnounced
  <2>3. CASE p[1] = t /\ p[2] = d
    <3>1. CASE For(t, d) \ {first} # {}
      BY <1>8, <1>10, <2>3, <3>1
    <3>2. CASE For(t, d) \ {first} = {}
      <4>1. \A j \in 1 .. Len(q) : q[j].dst = d => j = first
        BY <1>3, <3>2 DEF For
      <4>2. \A j \in 1 .. Len(r) : r[j].dst # d
        BY <1>4, <1>6, <4>1
      <4>3. For(t, d)' = {j \in DOMAIN r : r[j].dst = d} /\ DOMAIN r = 1 .. Len(r)
        BY <1>6, <1>7 DEF For
      <4>. QED BY <2>3, <4>2, <4>3
    <3>. QED BY <3>1, <3>2
  <2>4. CASE p[1] = t /\ p[2] # d
    <3>1. For(t, p[2]) = {} => For(t, p[2])' = {}
      <4>. SUFFICES ASSUME For(t, p[2]) = {} PROVE For(t, p[2])' = {}
        OBVIOUS
      <4>1. \A j \in 1 .. Len(q) : q[j].dst # p[2]
        BY <1>3 DEF For
      <4>2. \A j \in 1 .. Len(r) : r[j].dst # p[2]
        BY <1>4, <1>6, <4>1
      <4>3. For(t, p[2])' = {j \in DOMAIN r : r[j].dst = p[2]} /\ DOMAIN r = 1 .. Len(r)
        BY <1>6, <1>7 DEF For
      <4>. QED BY <4>2, <4>3
    <3>. QED BY <1>9, <1>10, <2>1, <2>4, <3>1, IpcAnnounced
  <2>. QED BY <2>2, <2>3, <2>4
<1>16. IpcOpen'
  <2>1. \A e \in Tasks : pc'[e] = "open" => pc[e] = "open" /\ e # d
    BY <1>8
  <2>. QED BY <1>9, <1>10, <2>1, IpcOpenKept
<1>17. IpcLeft'
  <2>1. \A s \in Tasks : IpcGoesOn(s)
    BY <1>1, <1>8 DEF IpcGoesOn
  <2>2. ASSUME NEW s \in Tasks, NEW e \in Tasks, pc'[e] = "closed"
        PROVE  /\ IpcStopsFor(s, e) => pc'[s] = pc[s]
               /\ NOTIFY_ASYNC(e) \in notifications'[s] \cup pending'[s] =>
                     NOTIFY_ASYNC(e) \in notifications[s] \cup pending[s]
               /\ notifications[e] \subseteq notifications'[e]
               /\ NOTIFY_ASYNC(s) \in notifications'[e] \/ (For(s, e) = {} => For(s, e)' = {})
    <3>1. e # d
      BY <1>8, <2>2
    <3>2. IpcStopsFor(s, e) => pc'[s] = pc[s]
      BY <1>1, <1>8, <3>1 DEF IpcStopsFor
    <3>3. pending'[s] \subseteq pending[s]
      BY <1>9
    <3>4. For(s, e) = {} => For(s, e)' = {}
      <4>1. CASE s # t
        BY <1>7, <4>1 DEF For
      <4>2. CASE s = t
        <5>. SUFFICES ASSUME For(t, e) = {} PROVE For(t, e)' = {}
          BY <4>2
        <5>1. \A j \in 1 .. Len(q) : q[j].dst # e
          BY <1>3 DEF For
        <5>2. \A j \in 1 .. Len(r) : r[j].dst # e
          BY <1>4, <1>6, <5>1
        <5>3. For(t, e)' = {j \in DOMAIN r : r[j].dst = e} /\ DOMAIN r = 1 .. Len(r)
          BY <1>6, <1>7 DEF For
        <5>. QED BY <5>2, <5>3
      <4>. QED BY <4>1, <4>2
    <3>. QED BY <1>10, <3>2, <3>3, <3>4
  <2>. QED BY <1>10, <2>1, <2>2, IpcLeftKept
<1>. QED BY <1>11, <1>12, <1>13, <1>14, <1>15, <1>16, <1>17 DEF IpcInv

LEMMA IpcAsyncReplyKept ==
    ASSUME AsyncAssumption, IpcInv, NEW t \in Tasks, async_reply(t)
    PROVE  IpcInv'
<1>1. pc[t] = "reply" /\ TypeOK
  BY DEF async_reply, IpcInv
<1>2. CASE For(t, peer[t]) # {}
  BY <1>1, <1>2, IpcReplyTakes, IpcTakenKept
<1>3. CASE For(t, peer[t]) = {}
  <2>1. /\ pc' = [pc EXCEPT ![t] = "recv"]
        /\ UNCHANGED <<peer, kind, senders, notifications, pending, async_messages, sent, got, dead_lock>>
    BY <1>3, Zenon DEF async_reply
  <2>2. pc' \in [Tasks -> Places] /\ \A s \in Tasks : pc'[s] = IF s = t THEN "recv" ELSE pc[s]
    BY <1>1, <2>1 DEF TypeOK, Places
  <2>3. TypeOK'
    BY <1>1, <2>1, <2>2 DEF TypeOK
  <2>4. IpcPartners' /\ IpcQueues' /\ ReplyFindsReceiver'
    <3>1. \A s \in Tasks : IpcGoesOn(s)
      BY <1>1, <2>2 DEF IpcGoesOn
    <3>. QED BY <2>1, <3>1, IpcPlacesKept
  <2>5. IpcBits' /\ IpcLists'
    BY <2>1 DEF IpcInv, IpcBits, IpcLists
  <2>6. Announced'
    <3>. SUFFICES ASSUME NEW p \in Async
                  PROVE  \/ NOTIFY_ASYNC(p[1]) \in notifications'[p[2]] \cup pending'[p[2]]
                         \/ pc'[p[1]] = "renotify" /\ peer'[p[1]] = p[2]
                         \/ p[2] \in dead_lock'
                         \/ For(p[1], p[2])' = {}
      BY IpcAnnouncedKept
    <3>1. For(p[1], p[2])' = For(p[1], p[2]) /\ p[1] \in Tasks
      BY <2>1, IpcConstants DEF For
    <3>. QED BY <1>1, <2>1, <2>2, <3>1, IpcAnnounced
  <2>7. IpcOpen'
    <3>1. \A e \in Tasks : pc'[e] = "open" => pc[e] = "open"
      BY <2>2
    <3>. QED BY <2>1, <3>1, IpcOpenKept
  <2>8. IpcLeft'
    <3>1. \A s \in Tasks : IpcGoesOn(s)
      BY <1>1, <2>2 DEF IpcGoesOn
    <3>2. \A s, e \in Tasks : For(s, e)' = For(s, e)
      BY <2>1 DEF For
    <3>3. \A s, e \in Tasks : IpcStopsFor(s, e) => pc'[s] = pc[s]
      BY <1>1, <1>3, <2>2 DEF IpcStopsFor
    <3>. QED BY <2>1, <3>1, <3>2, <3>3, IpcLeftKept
  <2>. QED BY <2>3, <2>4, <2>5, <2>6, <2>7, <2>8 DEF IpcInv
<1>. QED BY <1>2, <1>3

\* A message on which two tasks would wait for each other is never sent.
LEMMA IpcNeverCrossed ==
    ASSUME AsyncAssumption, IpcInv, NoCrossing, NEW t \in Tasks, NEW d \in Tasks, NEW k, IpcAllowed(t, d, k)
    PROVE  ~DeadLock(t, d)
<1>. SUFFICES ASSUME DeadLock(t, d) PROVE FALSE
  OBVIOUS
<1>1. senders[t] \in Seq(Tasks)
  BY DEF IpcInv, TypeOK
<1>2. PICK i \in 1 .. Len(senders[t]) : d = senders[t][i]
  BY <1>1 DEF DeadLock, ToSet
<1>3. pc[d] = "sending" /\ peer[d] = t
  BY <1>2 DEF IpcInv, IpcQueues
<1>4. \/ <<d, t>> \in Sends \/ <<d, t>> \in Calls \/ <<t, d>> \in Async
  BY <1>3 DEF IpcInv, IpcPartners
<1>5. <<d, t>> \in WaitsFor
  BY <1>4 DEF WaitsFor
<1>6. <<t, d>> \in WaitsFor
  BY DEF WaitsFor, IpcAllowed
<1>7. <<(<<d, t>>)[2], (<<d, t>>)[1]>> \notin WaitsFor
  BY <1>5, Zenon DEF NoCrossing
<1>. QED BY <1>6, <1>7

\* The invariant is kept, and a send is refused only if the partners allow it.
LEMMA IpcKept ==
    ASSUME AsyncAssumption, IpcInv, Next
    PROVE  IpcInv' /\ (NoCrossing => dead_lock' = dead_lock)
<1>. PICK t \in Tasks : \/ Library(t) \/ interrupt(t)
                        \/ \E d \in Tasks : ipc_send(t, d) \/ ipc_call(t, d) \/ ipc_send_async(t, d)
  BY DEF Next
<1>1. ASSUME NEW d \in Tasks, NEW k, IpcAllowed(t, d, k), pc[t] \in {"run", "recv"}, Send(t, d, k)
      PROVE  IpcInv' /\ (NoCrossing => dead_lock' = dead_lock)
  <2>1. IpcInv'
    BY <1>1, IpcSendKept
  <2>2. dead_lock' = dead_lock \/ DeadLock(t, d)
    BY <1>1, Zenon DEF Send
  <2>. QED BY <1>1, <2>1, <2>2, IpcNeverCrossed
<1>2. CASE ipc_recv(t) \/ ipc_reply(t)
  <2>1. dead_lock' = dead_lock
    BY <1>2 DEF ipc_recv, ipc_reply
  <2>. QED BY <1>2, <2>1, IpcReceiveKept
<1>3. CASE recv_notification_as_message(t)
  <2>1. IpcInv'
    BY <1>3, IpcNotificationKept
  <2>2. dead_lock' = dead_lock \/ \E src \in Tasks : First(pending[t]) = NOTIFY_ASYNC(src) /\ Send(t, src, "poll")
    BY <1>3, Zenon DEF recv_notification_as_message
  <2>3. ASSUME NEW src \in Tasks, First(pending[t]) = NOTIFY_ASYNC(src)
        PROVE  IpcAllowed(t, src, "poll")
    BY <1>3, <2>3, IpcFirstAsync
  <2>4. pc[t] = "recv"
    BY <1>3 DEF recv_notification_as_message
  <2>. QED BY <1>1, <2>1, <2>2, <2>3, <2>4
<1>4. CASE ipc_recv_any(t)
  <2>1. dead_lock' = dead_lock
    BY <1>4 DEF ipc_recv_any
  <2>. QED BY <1>4, <2>1, IpcRecvAnyKept
<1>5. CASE async_reply(t)
  <2>1. dead_lock' = dead_lock
    BY <1>5, Zenon DEF async_reply
  <2>. QED BY <1>5, <2>1, IpcAsyncReplyKept
<1>6. CASE async_renotify(t)
  <2>1. dead_lock' = dead_lock
    BY <1>6, Zenon DEF async_renotify
  <2>. QED BY <1>6, <2>1, IpcRenotifyKept
<1>7. CASE interrupt(t)
  <2>1. dead_lock' = dead_lock
    BY <1>7 DEF interrupt
  <2>. QED BY <1>7, <2>1, IpcInterruptKept
<1>8. ASSUME NEW d \in Tasks, ipc_send(t, d)
      PROVE  IpcInv' /\ (NoCrossing => dead_lock' = dead_lock)
  <2>1. pc[t] = "run" /\ Send(t, d, "send") /\ IpcAllowed(t, d, "send")
    BY <1>8 DEF ipc_send, IpcAllowed
  <2>. QED BY <1>1, <2>1
<1>9. ASSUME NEW d \in Tasks, ipc_call(t, d)
      PROVE  IpcInv' /\ (NoCrossing => dead_lock' = dead_lock)
  <2>1. pc[t] = "run" /\ Send(t, d, "call") /\ IpcAllowed(t, d, "call")
    BY <1>9 DEF ipc_call, IpcAllowed
  <2>. QED BY <1>1, <2>1
<1>10. ASSUME NEW d \in Tasks, ipc_send_async(t, d)
       PROVE  IpcInv' /\ (NoCrossing => dead_lock' = dead_lock)
  <2>1. dead_lock' = dead_lock
    BY <1>10, Zenon DEF ipc_send_async
  <2>. QED BY <1>10, <2>1, IpcSendAsyncKept
<1>. QED BY <1>2, <1>3, <1>4, <1>5, <1>6, <1>7, <1>8, <1>9, <1>10, Zenon DEF Library

\* No task is refused a message when no two may wait for each other.
IpcsInv == IpcInv /\ (NoCrossing => dead_lock = {})

LEMMA InitIpcs == ASSUME AsyncAssumption PROVE Init => IpcsInv
<1>1. Init => dead_lock = {}
  BY DEF Init
<1>. QED BY <1>1, InitIpc DEF IpcsInv

\* Every step of the library and of the kernel keeps the invariant.
LEMMA NextIpcs ==
    ASSUME AsyncAssumption, IpcsInv, [Next]_vars
    PROVE  IpcsInv'
<1>1. CASE Next
  BY <1>1, IpcKept DEF IpcsInv
<1>2. CASE UNCHANGED vars
  <2>1. UNCHANGED <<pc, peer, kind, senders, notifications, pending, async_messages, sent, got, dead_lock>>
    BY <1>2 DEF vars, kernelVars
  <2>2. IpcInv'
    <3>1. TypeOK' /\ ReplyFindsReceiver'
      BY <2>1 DEF IpcsInv, IpcInv, TypeOK, ReplyFindsReceiver
    <3>2. IpcPartners' /\ IpcQueues'
      BY <2>1 DEF IpcsInv, IpcInv, IpcPartners, IpcQueues
    <3>3. IpcBits' /\ IpcLists'
      BY <2>1 DEF IpcsInv, IpcInv, IpcBits, IpcLists
    <3>4. \A p \in Async : For(p[1], p[2])' = For(p[1], p[2])
      BY <2>1 DEF For
    <3>5. Announced'
      BY <2>1, <3>4, IpcAnnounced, IpcAnnouncedKept DEF IpcsInv
    <3>6. \A s, e \in Tasks : For(s, e)' = For(s, e)
      BY <2>1 DEF For
    <3>7. IpcOpen' /\ IpcLeft'
      BY <2>1, <3>6 DEF IpcsInv, IpcInv, IpcOpen, IpcLeft, IpcQuery
    <3>. QED BY <3>1, <3>2, <3>3, <3>5, <3>7 DEF IpcInv
  <2>. QED BY <2>1, <2>2 DEF IpcsInv
<1>. QED BY <1>1, <1>2

-----------------------------------------------------------------------------
(* The order of the messages.                                              *)

IpcMessage == [dst : Tasks, n : Numbers]

\* g[k] has the numbers of the messages for d among the first k of q, for k up to top.
IsNumbers(q, d, top, g) ==
    /\ g \in [0 .. top -> Seq(Numbers)] /\ g[0] = <<>>
    /\ \A k \in 1 .. top : g[k] = IF q[k].dst = d THEN Append(g[k - 1], q[k].n) ELSE g[k - 1]

LEMMA NumbersExist ==
    ASSUME NEW q \in Seq(IpcMessage), NEW d, NEW top \in 0 .. Len(q)
    PROVE  \E g : IsNumbers(q, d, top, g)
<1>. DEFINE Bad == {k \in 0 .. Len(q) : ~\E g : IsNumbers(q, d, k, g)}
<1>. SUFFICES ASSUME Bad # {} PROVE FALSE
  OBVIOUS
<1>0. Len(q) \in Nat
  OBVIOUS
<1>a. Bad \in SUBSET Nat
  BY <1>0
<1>1. PICK k \in Bad : \A j \in Bad : k =< j
  BY <1>a, LeastOf
<1>2. CASE k = 0
  <2>1. PICK g : g = [i \in 0 .. 0 |-> <<>>]
    OBVIOUS
  <2>2. IsNumbers(q, d, 0, g)
    BY <2>1 DEF IsNumbers
  <2>. QED BY <1>2, <2>2
<1>3. CASE k # 0
  <2>1. k - 1 \in 0 .. Len(q) /\ k \in 1 .. Len(q)
    BY <1>0, <1>3
  <2>2. PICK g : IsNumbers(q, d, k - 1, g)
    BY <1>0, <1>1, <2>1
  <2>3. q[k] \in IpcMessage
    BY <2>1, ElementOfSeq
  <2>4. PICK x : x = IF q[k].dst = d THEN Append(g[k - 1], q[k].n) ELSE g[k - 1]
    OBVIOUS
  <2>5. x \in Seq(Numbers)
    <3>1. g[k - 1] \in Seq(Numbers) /\ q[k].n \in Numbers
      BY <2>1, <2>2, <2>3 DEF IsNumbers, IpcMessage
    <3>. QED BY <2>4, <3>1
  <2>6. PICK h : h = [i \in 0 .. k |-> IF i = k THEN x ELSE g[i]]
    OBVIOUS
  <2>7. h \in [0 .. k -> Seq(Numbers)] /\ h[k] = x /\ \A i \in 0 .. k - 1 : h[i] = g[i]
    BY <2>1, <2>2, <2>5, <2>6 DEF IsNumbers
  <2>8. ASSUME NEW i \in 1 .. k
        PROVE  h[i] = IF q[i].dst = d THEN Append(h[i - 1], q[i].n) ELSE h[i - 1]
    <3>1. h[i - 1] = g[i - 1]
      BY <2>1, <2>7
    <3>2. CASE i = k
      BY <2>4, <2>7, <3>1, <3>2
    <3>3. CASE i # k
      <4>1. i \in 1 .. k - 1 /\ i \in 0 .. k - 1
        BY <2>1, <3>3
      <4>. QED BY <2>2, <2>7, <3>1, <4>1 DEF IsNumbers
    <3>. QED BY <3>2, <3>3
  <2>9. IsNumbers(q, d, k, h)
    BY <2>1, <2>2, <2>7, <2>8, SMTT(30) DEF IsNumbers
  <2>. QED BY <2>9
<1>. QED BY <1>2, <1>3

LEMMA NumbersSame ==
    ASSUME NEW q, NEW r, NEW d, NEW top \in Nat, NEW g, NEW h,
           IsNumbers(q, d, top, g), IsNumbers(r, d, top, h), \A k \in 1 .. top : q[k] = r[k]
    PROVE  \A k \in 0 .. top : g[k] = h[k]
<1>. DEFINE Bad == {k \in 0 .. top : g[k] # h[k]}
<1>. SUFFICES ASSUME Bad # {} PROVE FALSE
  OBVIOUS
<1>a. Bad \in SUBSET Nat
  OBVIOUS
<1>1. PICK k \in Bad : \A j \in Bad : k =< j
  BY <1>a, LeastOf
<1>2. k # 0
  BY DEF IsNumbers
<1>3. k \in 1 .. top /\ k - 1 \in 0 .. top
  BY <1>2
<1>4. g[k - 1] = h[k - 1]
  BY <1>1, <1>3
<1>. QED BY <1>3, <1>4 DEF IsNumbers

LEMMA NumbersForIs ==
    ASSUME NEW q \in Seq(IpcMessage), NEW d
    PROVE  IsNumbers(q, d, Len(q), NumbersFor(q, d))
<1>0. Len(q) \in Nat
  OBVIOUS
<1>. DEFINE Step(g) == [k \in 0 .. Len(q) |->
                          IF k = 0 THEN <<>>
                          ELSE IF q[k].dst = d THEN Append(g[k - 1], q[k].n) ELSE g[k - 1]]
<1>a. Len(q) \in 0 .. Len(q)
  BY <1>0
<1>1. PICK g : IsNumbers(q, d, Len(q), g)
  BY <1>a, NumbersExist
<1>2. g = Step(g)
  <2>1. ASSUME NEW k \in 0 .. Len(q) PROVE g[k] = Step(g)[k]
    <3>1. CASE k = 0
      BY <1>1, <3>1 DEF IsNumbers
    <3>2. CASE k # 0
      <4>1. k \in 1 .. Len(q)
        BY <1>0, <3>2
      <4>2. g[k] = IF q[k].dst = d THEN Append(g[k - 1], q[k].n) ELSE g[k - 1]
        BY <1>1, <4>1 DEF IsNumbers
      <4>. QED BY <3>2, <4>2
    <3>. QED BY <3>1, <3>2
  <2>2. g \in [0 .. Len(q) -> Seq(Numbers)]
    BY <1>1 DEF IsNumbers
  <2>. QED BY <2>1, <2>2
<1>3. PICK h : h = NumbersFor(q, d)
  OBVIOUS
<1>4. h = CHOOSE x : x = Step(x)
  BY <1>3 DEF NumbersFor
<1>5. h = Step(h)
  BY <1>2, <1>4
<1>6. \A k \in 0 .. Len(q) : h[k] = IF k = 0 THEN <<>>
                          ELSE IF q[k].dst = d THEN Append(h[k - 1], q[k].n) ELSE h[k - 1]
  BY <1>5
<1>7. \A k \in 0 .. Len(q) : h[k] = g[k]
  <2>. DEFINE Bad == {k \in 0 .. Len(q) : h[k] # g[k]}
  <2>. SUFFICES ASSUME Bad # {} PROVE FALSE
    OBVIOUS
  <2>a. Bad \in SUBSET Nat
    BY <1>0
  <2>1. PICK k \in Bad : \A j \in Bad : k =< j
    BY <2>a, LeastOf
  <2>2. k # 0
    BY <1>0, <1>1, <1>6 DEF IsNumbers
  <2>3. k \in 1 .. Len(q) /\ k - 1 \in 0 .. Len(q)
    BY <1>0, <2>2
  <2>4. g[k - 1] = h[k - 1]
    BY <1>0, <2>1, <2>3
  <2>. QED BY <1>1, <1>6, <2>2, <2>3, <2>4 DEF IsNumbers
<1>8. h = g
  <2>1. DOMAIN h = 0 .. Len(q) /\ h = [k \in DOMAIN h |-> h[k]]
    BY <1>5
  <2>2. DOMAIN g = 0 .. Len(q) /\ g = [k \in DOMAIN g |-> g[k]]
    BY <1>1 DEF IsNumbers
  <2>. QED BY <1>7, <2>1, <2>2
<1>. QED BY <1>1, <1>3, <1>8

\* The mailbox that list q of a task is for d.
BoxOf(q, d) == NumbersFor(q, d)[Len(q)]

LEMMA BoxType ==
    ASSUME NEW q \in Seq(IpcMessage), NEW d
    PROVE  BoxOf(q, d) \in Seq(Numbers)
<1>1. Len(q) \in 0 .. Len(q)
  OBVIOUS
<1>. QED BY <1>1, NumbersForIs DEF BoxOf, IsNumbers

LEMMA BoxAppend ==
    ASSUME NEW q \in Seq(IpcMessage), NEW am \in IpcMessage, NEW d
    PROVE  BoxOf(Append(q, am), d) = IF am.dst = d THEN Append(BoxOf(q, d), am.n) ELSE BoxOf(q, d)
<1>0. Append(q, am) \in Seq(IpcMessage)
  OBVIOUS
<1>1. PICK r \in Seq(IpcMessage) : r = Append(q, am)
  BY <1>0, Zenon
<1>2. PICK l \in Nat : l = Len(q)
  OBVIOUS
<1>3. Len(r) = l + 1 /\ r[l + 1] = am /\ \A k \in 1 .. l : q[k] = r[k]
  BY <1>1, <1>2
<1>4. PICK g : g = NumbersFor(q, d) /\ IsNumbers(q, d, l, g)
  BY <1>2, NumbersForIs
<1>5. PICK h : h = NumbersFor(r, d) /\ IsNumbers(r, d, l + 1, h)
  BY <1>3, NumbersForIs
<1>6. h[l + 1] = IF am.dst = d THEN Append(h[l], am.n) ELSE h[l]
  <2>1. \A k \in 1 .. l + 1 : h[k] = IF r[k].dst = d THEN Append(h[k - 1], r[k].n) ELSE h[k - 1]
    BY <1>5, ZenonT(40) DEF IsNumbers
  <2>2. l + 1 \in 1 .. l + 1 /\ (l + 1) - 1 = l
    OBVIOUS
  <2>3. h[l + 1] = IF r[l + 1].dst = d THEN Append(h[(l + 1) - 1], r[l + 1].n) ELSE h[(l + 1) - 1]
    BY <2>1, <2>2, ZenonT(40)
  <2>. QED BY <1>3, <2>2, <2>3, ZenonT(40)
<1>7. PICK f : f = [k \in 0 .. l |-> h[k]]
  OBVIOUS
<1>8. IsNumbers(r, d, l, f)
  <2>1. f \in [0 .. l -> Seq(Numbers)] /\ f[0] = <<>>
    BY <1>5, <1>7 DEF IsNumbers
  <2>2. ASSUME NEW k \in 1 .. l
        PROVE  f[k] = IF r[k].dst = d THEN Append(f[k - 1], r[k].n) ELSE f[k - 1]
    <3>1. f[k] = h[k] /\ f[k - 1] = h[k - 1] /\ k \in 1 .. l + 1
      BY <1>7
    <3>2. h[k] = IF r[k].dst = d THEN Append(h[k - 1], r[k].n) ELSE h[k - 1]
      BY <1>5, <3>1 DEF IsNumbers
    <3>. QED BY <3>1, <3>2
  <2>. QED BY <2>1, <2>2 DEF IsNumbers
<1>9. g[l] = f[l] /\ f[l] = h[l]
  <2>1. \A k \in 0 .. l : g[k] = f[k]
    <3>1. \A k \in 1 .. l : q[k] = r[k]
      BY <1>3
    <3>2. IsNumbers(q, d, l, g)
      BY <1>4
    <3>3. \A g1, h1 : IsNumbers(q, d, l, g1) /\ IsNumbers(r, d, l, h1) => \A k \in 0 .. l : g1[k] = h1[k]
      BY <3>1, NumbersSame
    <3>. QED BY <1>8, <3>2, <3>3
  <2>. QED BY <1>7, <2>1
<1>. QED BY <1>1, <1>2, <1>3, <1>4, <1>5, <1>6, <1>9 DEF BoxOf

\* The first message of q for d, and q without it.
FirstOut(q, d, first, r) ==
    /\ first \in 1 .. Len(q) /\ q[first].dst = d
    /\ \A j \in 1 .. Len(q) : q[j].dst = d => first =< j
    /\ r \in Seq(IpcMessage) /\ Len(r) = Len(q) - 1
    /\ \A j \in 1 .. Len(q) - 1 : r[j] = IF j < first THEN q[j] ELSE q[j + 1]

\* The numbers of both, up to the first message.
LEMMA NumbersBefore ==
    ASSUME NEW q \in Seq(IpcMessage), NEW d, NEW first, NEW r, FirstOut(q, d, first, r), NEW e,
           NEW g, NEW h, IsNumbers(q, e, Len(q), g), IsNumbers(r, e, Len(r), h)
    PROVE  \A k \in 0 .. first - 1 : g[k] = h[k] /\ (e = d => g[k] = <<>>)
<1>1. PICK l \in Nat : l = Len(q) /\ first \in 1 .. l /\ Len(r) = l - 1
  BY DEF FirstOut
<1>. DEFINE Bad == {k \in 0 .. first - 1 : ~(g[k] = h[k] /\ (e = d => g[k] = <<>>))}
<1>. SUFFICES ASSUME Bad # {} PROVE FALSE
  OBVIOUS
<1>2. Bad \in SUBSET Nat
  BY <1>1
<1>3. PICK k \in Bad : \A j \in Bad : k =< j
  BY <1>2, LeastOf
<1>4. k # 0
  BY DEF IsNumbers
<1>5. k \in 1 .. first - 1 /\ k - 1 \in 0 .. first - 1 /\ k \in 1 .. l /\ k \in 1 .. l - 1 /\ k < first
  BY <1>1, <1>4
<1>6. g[k - 1] = h[k - 1] /\ (e = d => g[k - 1] = <<>>)
  BY <1>1, <1>3, <1>5
<1>7. r[k] = q[k] /\ q[k].dst # d
  BY <1>1, <1>5 DEF FirstOut
<1>8. g[k] = IF q[k].dst = e THEN Append(g[k - 1], q[k].n) ELSE g[k - 1]
  BY <1>1, <1>5 DEF IsNumbers
<1>9. h[k] = IF r[k].dst = e THEN Append(h[k - 1], r[k].n) ELSE h[k - 1]
  BY <1>1, <1>5 DEF IsNumbers
<1>. QED BY <1>6, <1>7, <1>8, <1>9

LEMMA AppendHeadTail ==
    ASSUME NEW S, NEW s \in Seq(S), NEW x \in S, s # <<>>
    PROVE  Append(s, x) # <<>> /\ Head(Append(s, x)) = Head(s) /\ Tail(Append(s, x)) = Append(Tail(s), x)
<1>1. PICK l \in Nat : l = Len(s) /\ l > 0
  OBVIOUS
<1>2. PICK a \in Seq(S) : a = Append(s, x) /\ Len(a) = l + 1 /\ a[l + 1] = x /\ \A i \in 1 .. l : a[i] = s[i]
  <2>1. Append(s, x) \in Seq(S) /\ Len(Append(s, x)) = l + 1 /\ Append(s, x)[l + 1] = x
        /\ \A i \in 1 .. l : Append(s, x)[i] = s[i]
    BY <1>1
  <2>. QED BY <2>1, Zenon
<1>3. a # <<>> /\ Head(a) = s[1] /\ Head(s) = s[1]
  BY <1>1, <1>2
<1>4. PICK b \in Seq(S) : b = Tail(s) /\ Len(b) = l - 1 /\ \A i \in 1 .. l - 1 : b[i] = s[i + 1]
  <2>1. Tail(s) \in Seq(S) /\ Len(Tail(s)) = l - 1 /\ \A i \in 1 .. l - 1 : Tail(s)[i] = s[i + 1]
    BY <1>1
  <2>. QED BY <2>1, Zenon
<1>5. PICK c \in Seq(S) : c = Tail(a) /\ Len(c) = l /\ \A i \in 1 .. l : c[i] = a[i + 1]
  <2>1. Tail(a) \in Seq(S) /\ Len(Tail(a)) = l /\ \A i \in 1 .. l : Tail(a)[i] = a[i + 1]
    BY <1>1, <1>2, <1>3
  <2>. QED BY <2>1, Zenon
<1>6. PICK e \in Seq(S) : e = Append(b, x) /\ Len(e) = l /\ e[l] = x /\ \A i \in 1 .. l - 1 : e[i] = b[i]
  <2>1. Append(b, x) \in Seq(S) /\ Len(Append(b, x)) = l /\ Append(b, x)[l] = x
        /\ \A i \in 1 .. l - 1 : Append(b, x)[i] = b[i]
    BY <1>1, <1>4
  <2>. QED BY <2>1, Zenon
<1>7. ASSUME NEW i \in 1 .. l PROVE c[i] = e[i]
  <2>1. CASE i = l
    BY <1>2, <1>5, <1>6, <2>1
  <2>2. CASE i # l
    <3>1. i \in 1 .. l - 1 /\ i + 1 \in 1 .. l
      BY <2>2
    <3>2. c[i] = a[i + 1]
      BY <1>5, ZenonT(40)
    <3>3. a[i + 1] = s[i + 1]
      BY <1>2, <3>1, ZenonT(40)
    <3>4. e[i] = b[i] /\ b[i] = s[i + 1]
      BY <1>4, <1>6, <3>1, ZenonT(40)
    <3>. QED BY <3>2, <3>3, <3>4, ZenonT(40)
  <2>. QED BY <2>1, <2>2
<1>8. c = e
  BY <1>5, <1>6, <1>7
<1>. QED BY <1>2, <1>3, <1>4, <1>5, <1>6, <1>8

\* And from it on.
LEMMA NumbersAfter ==
    ASSUME NEW q \in Seq(IpcMessage), NEW d, NEW first, NEW r, FirstOut(q, d, first, r), NEW e,
           NEW g, NEW h, IsNumbers(q, e, Len(q), g), IsNumbers(r, e, Len(r), h)
    PROVE  \A k \in first .. Len(q) :
             IF e = d THEN g[k] # <<>> /\ Head(g[k]) = q[first].n /\ Tail(g[k]) = h[k - 1]
                      ELSE g[k] = h[k - 1]
<1>1. PICK l \in Nat : l = Len(q) /\ first \in 1 .. l /\ Len(r) = l - 1
  BY DEF FirstOut
<1>0. \A k \in 1 .. l : g[k] \in Seq(Numbers) /\ g[k - 1] \in Seq(Numbers) /\ q[k].n \in Numbers
  <2>1. \A k \in 1 .. l : q[k] \in IpcMessage
    BY <1>1, ElementOfSeq
  <2>2. g \in [0 .. l -> Seq(Numbers)]
    BY <1>1 DEF IsNumbers
  <2>3. \A k \in 1 .. l : q[k].n \in Numbers
    BY <2>1 DEF IpcMessage
  <2>4. \A k \in 1 .. l : k \in 0 .. l /\ k - 1 \in 0 .. l
    BY <1>1
  <2>. QED BY <2>2, <2>3, <2>4
<1>. DEFINE P(k) == IF e = d THEN g[k] # <<>> /\ Head(g[k]) = q[first].n /\ Tail(g[k]) = h[k - 1]
                             ELSE g[k] = h[k - 1]
            Bad == {k \in first .. l : ~P(k)}
<1>. SUFFICES ASSUME Bad # {} PROVE FALSE
  BY <1>1
<1>2. Bad \in SUBSET Nat
  BY <1>1
<1>3. PICK k \in Bad : \A j \in Bad : k =< j
  BY <1>2, LeastOf
<1>4. k \in 1 .. l
  BY <1>1
<1>5. g[k] = IF q[k].dst = e THEN Append(g[k - 1], q[k].n) ELSE g[k - 1]
  BY <1>1, <1>4 DEF IsNumbers
<1>6. CASE k = first
  <2>1. k - 1 \in 0 .. first - 1
    BY <1>1, <1>6
  <2>2. g[k - 1] = h[k - 1] /\ (e = d => g[k - 1] = <<>>)
    BY <2>1, NumbersBefore
  <2>3. q[k].dst = d
    BY <1>6 DEF FirstOut
  <2>4. CASE e = d
    <3>1. g[k] = Append(<<>>, q[k].n) /\ h[k - 1] = <<>>
      BY <1>5, <2>2, <2>3, <2>4
    <3>2. Append(<<>>, q[k].n) # <<>> /\ Head(Append(<<>>, q[k].n)) = q[k].n /\ Tail(Append(<<>>, q[k].n)) = <<>>
      BY <1>0, <1>4
    <3>. QED BY <1>6, <2>4, <3>1, <3>2
  <2>5. CASE e # d
    BY <1>5, <2>2, <2>3, <2>5
  <2>. QED BY <2>4, <2>5
<1>7. CASE k # first
  <2>1. k - 1 \in first .. l /\ k - 1 \in 1 .. l - 1 /\ ~(k - 1 < first)
    BY <1>1, <1>4, <1>7
  <2>2. P(k - 1)
    BY <1>1, <1>3, <2>1
  <2>3. r[k - 1] = q[k]
    <3>1. r[k - 1] = q[(k - 1) + 1] /\ (k - 1) + 1 = k
      BY <1>1, <2>1 DEF FirstOut
    <3>. QED BY <3>1
  <2>4. h[k - 1] = IF q[k].dst = e THEN Append(h[k - 2], q[k].n) ELSE h[k - 2]
    <3>1. h[k - 1] = IF r[k - 1].dst = e THEN Append(h[(k - 1) - 1], r[k - 1].n) ELSE h[(k - 1) - 1]
      BY <1>1, <2>1 DEF IsNumbers
    <3>2. (k - 1) - 1 = k - 2
      BY <1>4
    <3>. QED BY <2>3, <3>1, <3>2
  <2>5. (k - 1) - 1 = k - 2
    BY <1>4
  <2>6. CASE e # d
    BY <1>5, <2>2, <2>4, <2>5, <2>6
  <2>7. CASE e = d /\ q[k].dst # e
    BY <1>5, <2>2, <2>4, <2>5, <2>7
  <2>8. CASE e = d /\ q[k].dst = e
    <3>1. PICK s, x : s = g[k - 1] /\ x = q[k].n /\ s \in Seq(Numbers) /\ x \in Numbers
      BY <1>0, <1>4
    <3>2. s # <<>> /\ Head(s) = q[first].n /\ Tail(s) = h[k - 2]
      BY <2>2, <2>5, <2>8, <3>1
    <3>3. Append(s, x) # <<>> /\ Head(Append(s, x)) = Head(s) /\ Tail(Append(s, x)) = Append(Tail(s), x)
      BY <3>1, <3>2, AppendHeadTail
    <3>. QED BY <1>5, <2>4, <2>8, <3>1, <3>2, <3>3
  <2>. QED BY <2>6, <2>7, <2>8
<1>. QED BY <1>6, <1>7

LEMMA BoxRemove ==
    ASSUME NEW q \in Seq(IpcMessage), NEW d, NEW first, NEW r, FirstOut(q, d, first, r), NEW e
    PROVE  IF e = d THEN BoxOf(q, d) # <<>> /\ Head(BoxOf(q, d)) = q[first].n /\ Tail(BoxOf(q, d)) = BoxOf(r, d)
                    ELSE BoxOf(q, e) = BoxOf(r, e)
<1>1. Len(q) \in first .. Len(q) /\ Len(r) = Len(q) - 1 /\ r \in Seq(IpcMessage)
  BY DEF FirstOut
<1>2. PICK g : g = NumbersFor(q, e) /\ IsNumbers(q, e, Len(q), g)
  BY NumbersForIs
<1>3. PICK h : h = NumbersFor(r, e) /\ IsNumbers(r, e, Len(r), h)
  BY <1>1, NumbersForIs
<1>4. IF e = d THEN g[Len(q)] # <<>> /\ Head(g[Len(q)]) = q[first].n /\ Tail(g[Len(q)]) = h[Len(q) - 1]
               ELSE g[Len(q)] = h[Len(q) - 1]
  <2>1. \A k \in first .. Len(q) :
             IF e = d THEN g[k] # <<>> /\ Head(g[k]) = q[first].n /\ Tail(g[k]) = h[k - 1]
                      ELSE g[k] = h[k - 1]
    BY <1>2, <1>3, NumbersAfter
  <2>. QED BY <1>1, <2>1, Zenon
<1>. QED BY <1>1, <1>2, <1>3, <1>4, Zenon DEF BoxOf

\* A step of the library is one of the mailboxes, or none.
LEMMA IpcStepIsMail ==
    ASSUME AsyncAssumption, IpcInv, Next
    PROVE  Abstract!Next \/ UNCHANGED Abstract!boxVars
<1>. DEFINE Boxes == [p \in Async |-> BoxOf(async_messages[p[1]], p[2])]
<1>1. box = Boxes
  BY DEF box, BoxOf
<1>2. (box)' = Boxes'
  BY DEF box, BoxOf
<1>3. TypeOK
  BY DEF IpcInv
<1>4. \A p \in Async : p[1] \in Tasks /\ p[2] \in Tasks /\ p = <<p[1], p[2]>>
  BY IpcConstants
<1>5. ASSUME NEW t \in Tasks, NEW d \in Tasks, ipc_send_async(t, d)
      PROVE  Abstract!Next
  <2>1. <<t, d>> \in Async /\ got' = got
    BY <1>5 DEF ipc_send_async
  <2>2. PICK n : IpcAdded(t, d, n)
    BY <1>5, Zenon DEF ipc_send_async, IpcAdded, Enqueue
  <2>3. n \in Numbers
    <3>1. sent[<<t, d>>] \in Numbers /\ MaxQueue \in Nat
      BY <1>3, <2>1, IpcConstants DEF TypeOK
    <3>. QED BY <2>2, <3>1 DEF IpcAdded, Numbers
  <2>4. PICK q \in Seq(IpcMessage) : q = async_messages[t]
    BY <1>3 DEF TypeOK, IpcMessage
  <2>5. PICK am : am = [dst |-> d, n |-> n]
    OBVIOUS
  <2>6. am \in IpcMessage /\ am.dst = d /\ am.n = n
    BY <2>3, <2>5 DEF IpcMessage
  <2>7. \A s \in Tasks : async_messages'[s] = IF s = t THEN Append(q, am) ELSE async_messages[s]
    BY <1>3, <2>2, <2>4, <2>5 DEF IpcAdded, TypeOK
  <2>8. ASSUME NEW p \in Async
        PROVE  Boxes'[p] = IF p = <<t, d>> THEN Append(Boxes[p], n) ELSE Boxes[p]
    <3>1. Boxes'[p] = BoxOf(async_messages'[p[1]], p[2]) /\ Boxes[p] = BoxOf(async_messages[p[1]], p[2])
      BY DEF BoxOf
    <3>2. CASE p[1] = t
      <4>1. BoxOf(Append(q, am), p[2]) = IF am.dst = p[2] THEN Append(BoxOf(q, p[2]), am.n) ELSE BoxOf(q, p[2])
        BY <2>6, BoxAppend
      <4>2. am.dst = p[2] <=> p = <<t, d>>
        BY <1>4, <2>6, <3>2
      <4>. QED BY <2>4, <2>6, <2>7, <3>1, <3>2, <4>1, <4>2
    <3>3. CASE p[1] # t
      BY <1>4, <2>7, <3>1, <3>3
    <3>. QED BY <3>2, <3>3
  <2>9. Boxes' = [Boxes EXCEPT ![<<t, d>>] = Append(@, n)]
    <3>. HIDE DEF BoxOf
    <3>1. DOMAIN Boxes = Async /\ DOMAIN Boxes' = Async
      OBVIOUS
    <3>2. Boxes' = [p \in Async |-> IF p = <<t, d>> THEN Append(Boxes[p], n) ELSE Boxes[p]]
      BY <2>8, <3>1
    <3>. QED BY <2>1, <3>1, <3>2
  <2>. HIDE DEF Boxes
  <2>10. Abstract!Send(<<t, d>>)
    BY <1>1, <1>2, <2>1, <2>3, <2>9, Zenon DEF Abstract!Send
  <2>. QED BY <2>1, <2>10 DEF Abstract!Next
<1>6. ASSUME NEW t \in Tasks, async_reply(t), For(t, peer[t]) # {}
      PROVE  Abstract!Next
  <2>1. PICK d, first : d = peer[t] /\ IpcTaken(t, d, first)
    BY <1>6, IpcReplyTakes
  <2>2. <<t, d>> \in Async /\ d \in Tasks
    <3>1. pc[t] = "reply"
      BY <1>6 DEF async_reply
    <3>. QED BY <2>1, <3>1, IpcPairs DEF IpcInv, IpcPartners
  <2>3. PICK q \in Seq(IpcMessage) : q = async_messages[t]
    BY <1>3 DEF TypeOK, IpcMessage
  <2>4. first \in 1 .. Len(q) /\ q[first].dst = d /\ \A j \in 1 .. Len(q) : q[j].dst = d => first =< j
    <3>1. For(t, d) = {j \in 1 .. Len(q) : q[j].dst = d}
      BY <2>3 DEF For
    <3>. QED BY <2>1, <3>1 DEF IpcTaken
  <2>5. PICK r : r = RemoveAt(q, first)
    OBVIOUS
  <2>6. FirstOut(q, d, first, r)
    BY <2>4, <2>5, RemoveAtElements DEF FirstOut
  <2>7. \A s \in Tasks : async_messages'[s] = IF s = t THEN r ELSE async_messages[s]
    BY <1>3, <2>1, <2>3, <2>5 DEF IpcTaken, TypeOK
  <2>8. ASSUME NEW p \in Async
        PROVE  Boxes'[p] = IF p = <<t, d>> THEN Tail(Boxes[p]) ELSE Boxes[p]
    <3>1. Boxes'[p] = BoxOf(async_messages'[p[1]], p[2]) /\ Boxes[p] = BoxOf(async_messages[p[1]], p[2])
      BY DEF BoxOf
    <3>2. CASE p[1] = t
      <4>1. IF p[2] = d THEN Tail(BoxOf(q, d)) = BoxOf(r, d) ELSE BoxOf(q, p[2]) = BoxOf(r, p[2])
        BY <2>6, BoxRemove
      <4>2. p[2] = d <=> p = <<t, d>>
        BY <1>4, <3>2
      <4>. QED BY <2>3, <2>7, <3>1, <3>2, <4>1, <4>2
    <3>3. CASE p[1] # t
      BY <1>4, <2>7, <3>1, <3>3
    <3>. QED BY <3>2, <3>3
  <2>9. Boxes' = [Boxes EXCEPT ![<<t, d>>] = Tail(@)]
    <3>. HIDE DEF BoxOf
    <3>1. DOMAIN Boxes = Async /\ DOMAIN Boxes' = Async
      OBVIOUS
    <3>2. Boxes' = [p \in Async |-> IF p = <<t, d>> THEN Tail(Boxes[p]) ELSE Boxes[p]]
      BY <2>8, <3>1
    <3>. QED BY <2>2, <3>1, <3>2
  <2>10. Boxes[<<t, d>>] # <<>> /\ Head(Boxes[<<t, d>>]) = q[first].n
    <3>1. Boxes[<<t, d>>] = BoxOf(q, d)
      BY <2>2, <2>3
    <3>2. BoxOf(q, d) # <<>> /\ Head(BoxOf(q, d)) = q[first].n
      BY <2>6, BoxRemove
    <3>. QED BY <3>1, <3>2
  <2>11. got' = [got EXCEPT ![<<t, d>>] = Head(Boxes[<<t, d>>])]
    BY <2>1, <2>3, <2>10 DEF IpcTaken
  <2>. HIDE DEF Boxes
  <2>12. Abstract!Receive(<<t, d>>)
    BY <1>1, <1>2, <2>9, <2>10, <2>11 DEF Abstract!Receive
  <2>. QED BY <2>2, <2>12 DEF Abstract!Next
<1>7. ASSUME UNCHANGED <<async_messages, got>>
      PROVE  UNCHANGED Abstract!boxVars
  BY <1>1, <1>2, <1>7 DEF Abstract!boxVars
<1>. HIDE DEF Boxes
<1>8. PICK t \in Tasks : \/ Library(t) \/ interrupt(t)
                         \/ \E d \in Tasks : ipc_send(t, d) \/ ipc_call(t, d) \/ ipc_send_async(t, d)
  BY DEF Next
<1>9. CASE ipc_recv(t) \/ ipc_reply(t) \/ async_renotify(t) \/ interrupt(t) \/ ipc_recv_any(t)
  <2>1. UNCHANGED <<async_messages, got>>
    BY <1>9, ZenonT(40) DEF ipc_recv, ipc_reply, async_renotify, interrupt, ipc_recv_any
  <2>. QED BY <1>7, <2>1
<1>10. CASE recv_notification_as_message(t) \/ \E d \in Tasks : ipc_send(t, d) \/ ipc_call(t, d)
  <2>1. ASSUME NEW d, NEW k, Send(t, d, k)
        PROVE  UNCHANGED <<async_messages, got>>
    BY <2>1 DEF Send
  <2>2. UNCHANGED <<async_messages, got>>
    BY <1>10, <2>1, ZenonT(40) DEF recv_notification_as_message, ipc_send, ipc_call
  <2>. QED BY <1>7, <2>2
<1>11. CASE async_reply(t)
  <2>1. CASE For(t, peer[t]) = {}
    <3>1. UNCHANGED <<async_messages, got>>
      BY <1>11, <2>1, Zenon DEF async_reply
    <3>. QED BY <1>7, <3>1
  <2>. QED BY <1>6, <1>11, <2>1
<1>. QED BY <1>5, <1>8, <1>9, <1>10, <1>11 DEF Library

LEMMA InitIsMail == ASSUME AsyncAssumption PROVE Init => Abstract!Init
<1>. SUFFICES ASSUME Init PROVE Abstract!Init
  OBVIOUS
<1>1. async_messages = [t \in Tasks |-> <<>>] /\ got \in [Async -> Numbers]
  BY IpcConstants DEF Init, Numbers
<1>2. ASSUME NEW p \in Async PROVE BoxOf(async_messages[p[1]], p[2]) = <<>>
  <2>1. p[1] \in Tasks
    BY IpcConstants
  <2>a. <<>> \in Seq(IpcMessage)
    OBVIOUS
  <2>2. PICK q \in Seq(IpcMessage) : q = <<>>
    BY <2>a, Zenon
  <2>3. IsNumbers(q, p[2], Len(q), NumbersFor(q, p[2])) /\ Len(q) = 0
    BY <2>2, NumbersForIs
  <2>. QED BY <1>1, <2>1, <2>2, <2>3 DEF BoxOf, IsNumbers
<1>3. box = [p \in Async |-> <<>>]
  <2>1. box = [p \in Async |-> BoxOf(async_messages[p[1]], p[2])]
    BY DEF box, BoxOf
  <2>. QED BY <1>2, <2>1
<1>. QED BY <1>1, <1>3 DEF Abstract!Init, Abstract!Empty

\* Steps that leave the library's state alone included.
LEMMA StepIsMail ==
    ASSUME AsyncAssumption, IpcsInv, [Next]_vars
    PROVE  [Abstract!Next]_(Abstract!boxVars)
<1>1. CASE UNCHANGED vars
  BY <1>1 DEF vars, Abstract!boxVars, box, NumbersFor
<1>. QED BY <1>1, IpcStepIsMail DEF IpcsInv

\* libs/user/ipc.c: a message in a sender's list is announced to its receiver or about to be, and
\* an answer finds its caller waiting, whichever tasks send, call and answer each other.
THEOREM MessagesNotForgotten ==
    ASSUME AsyncAssumption
    PROVE  Spec => [](Announced /\ ReplyFindsReceiver)
<1>1. IpcsInv => Announced /\ ReplyFindsReceiver
  BY DEF IpcsInv, IpcInv
<1>. QED BY <1>1, InitIpcs, NextIpcs, PTL DEF Spec

\* libs/user/ipc.c implements a mailbox between every two tasks: ipc_send_async adds a message to
\* it, a receiver takes the oldest, and nothing else changes it.
THEOREM MessagesInOrder ==
    ASSUME AsyncAssumption
    PROVE  Spec => InOrder
<1>. QED BY InitIpcs, NextIpcs, InitIsMail, StepIsMail, PTL DEF Spec, InOrder

-----------------------------------------------------------------------------
(* The lists.                                                              *)

\* The cell at place i of list l with members q: the head is before the first and after the last.
Cell(q, l, i) == IF i \in 1 .. Len(q) THEN q[i] ELSE l

\* Along the pointers nx and pv list l has the members q.
Chain(nx, pv, l, q) ==
    \A i \in 0 .. Len(q) : nx[Cell(q, l, i)] = Cell(q, l, i + 1) /\ pv[Cell(q, l, i + 1)] = Cell(q, l, i)

\* No element is twice in the lists S.
Apart(S) ==
    \A k, l \in Heads : \A i \in 1 .. Len(S[k]), j \in 1 .. Len(S[l]) :
        S[k][i] = S[l][j] => k = l /\ i = j

\* Element e is in none of the lists S.
InNone(S, e) == \A l \in Heads : \A i \in 1 .. Len(S[l]) : S[l][i] # e

\* The pointers nx and pv are those of the lists S, and elements in no list have none.
Represents(nx, pv, S) ==
    /\ nx \in [list!Cells -> list!Cells \cup {NoCell}] /\ pv \in [list!Cells -> list!Cells \cup {NoCell}]
    /\ S \in [Heads -> Seq(Elems)] /\ Apart(S)
    /\ \A l \in Heads : Chain(nx, pv, l, S[l])
    /\ \A e \in Elems : InNone(S, e) => nx[e] = NoCell /\ pv[e] = NoCell

\* LinkedList counts its elements as everyone does.
LEMMA ListCounts ==
    list!Cardinality(Elems) = Cardinality(Elems) /\ (list!IsFiniteSet(Elems) <=> IsFiniteSet(Elems))
  BY DEF list!Cardinality, Cardinality, list!IsFiniteSet, IsFiniteSet

\* What is used of the constants.
LEMMA ListConstants ==
    ASSUME list!ListAssumption
    PROVE  /\ IsFiniteSet(Elems) /\ list!Cardinality(Elems) \in Nat
           /\ \A l \in Heads : l \notin Elems /\ l \in list!Cells /\ l # NoCell
           /\ \A e \in Elems : e \notin Heads /\ e \in list!Cells /\ e # NoCell
           /\ NoCell \notin list!Cells
  BY FS_CardinalityType, ListCounts DEF list!ListAssumption, list!Cells

\* The members and places of a list.
LEMMA ListOf ==
    ASSUME NEW nx, NEW pv, NEW S, Represents(nx, pv, S), NEW l \in Heads
    PROVE  /\ S[l] \in Seq(Elems) /\ Len(S[l]) \in Nat
           /\ \A i \in 1 .. Len(S[l]) : S[l][i] \in Elems
           /\ \A i, j \in 1 .. Len(S[l]) : S[l][i] = S[l][j] => i = j
<1>1. S[l] \in Seq(Elems)
  BY DEF Represents
<1>2. Len(S[l]) \in Nat /\ \A i \in 1 .. Len(S[l]) : S[l][i] \in Elems
  BY <1>1
<1>3. \A i, j \in 1 .. Len(S[l]) : S[l][i] = S[l][j] => i = j
  BY DEF Represents, Apart
<1>. QED BY <1>1, <1>2, <1>3

\* Two cells of the lists are the same only at the same place, or both are the head.
LEMMA CellsApart ==
    ASSUME list!ListAssumption, NEW nx, NEW pv, NEW S, Represents(nx, pv, S), NEW k \in Heads, NEW l \in Heads,
           NEW i \in 0 .. Len(S[k]) + 1, NEW j \in 0 .. Len(S[l]) + 1,
           Cell(S[k], k, i) = Cell(S[l], l, j)
    PROVE  k = l /\ (i = j \/ (i \notin 1 .. Len(S[k]) /\ j \notin 1 .. Len(S[k])))
<1>1. \A a \in 1 .. Len(S[k]) : S[k][a] \in Elems
  BY ListOf
<1>2. \A a \in 1 .. Len(S[l]) : S[l][a] \in Elems
  BY ListOf
<1>3. k \notin Elems /\ l \notin Elems
  BY ListConstants
<1>4. CASE i \in 1 .. Len(S[k]) /\ j \in 1 .. Len(S[l])
  BY <1>4 DEF Cell, Represents, Apart
<1>5. CASE i \in 1 .. Len(S[k]) /\ j \notin 1 .. Len(S[l])
  BY <1>1, <1>3, <1>5 DEF Cell
<1>6. CASE i \notin 1 .. Len(S[k]) /\ j \in 1 .. Len(S[l])
  BY <1>2, <1>3, <1>6 DEF Cell
<1>7. CASE i \notin 1 .. Len(S[k]) /\ j \notin 1 .. Len(S[l])
  <2>1. k = l
    BY <1>7 DEF Cell
  <2>. QED BY <1>7, <2>1
<1>. QED BY <1>4, <1>5, <1>6, <1>7

\* A cell at any place is a cell.
LEMMA CellIn ==
    ASSUME list!ListAssumption, NEW nx, NEW pv, NEW S, Represents(nx, pv, S), NEW l \in Heads, NEW i
    PROVE  Cell(S[l], l, i) \in list!Cells /\ Cell(S[l], l, i) # NoCell
<1>1. \A a \in 1 .. Len(S[l]) : S[l][a] \in Elems
  BY ListOf
<1>. QED BY <1>1, ListConstants DEF Cell

\* A list has no more members than there are elements.
LEMMA ListFits ==
    ASSUME list!ListAssumption, NEW nx, NEW pv, NEW S, Represents(nx, pv, S), NEW l \in Heads
    PROVE  Len(S[l]) =< list!Cardinality(Elems)
<1>1. PICK q \in Seq(Elems) : q = S[l]
  BY ListOf
<1>2. Len(q) \in Nat /\ q \in [1 .. Len(q) -> Elems]
  OBVIOUS
<1>3. q \in Injection(1 .. Len(q), Elems)
  <2>1. \A i, j \in 1 .. Len(q) : q[i] = q[j] => i = j
    BY <1>1, ListOf
  <2>. QED BY <1>2, <2>1 DEF Injection, IsInjective
<1>4. Cardinality(1 .. Len(q)) =< Cardinality(Elems)
  BY <1>3, ListConstants, FS_Injection
<1>5. Cardinality(1 .. Len(q)) = Len(q)
  BY <1>2, FS_Interval
<1>. QED BY <1>1, <1>4, <1>5, ListCounts

\* Walk, for given pointers.
WalkAlong(nx, l) ==
    LET most == list!Cardinality(Elems)
        n[i \in 0 .. most] == IF i = 0 THEN nx[l]
                              ELSE IF n[i - 1] \in Elems THEN nx[n[i - 1]] ELSE l
        length == list!Min({i \in 0 .. most : n[i] \notin Elems} \cup {most})
    IN [i \in 1 .. length |-> n[i - 1]]

\* The cells on the way from l along nx, a round of their definition.
Onward(nx, l, f) ==
    [i \in 0 .. list!Cardinality(Elems) |->
        IF i = 0 THEN nx[l] ELSE IF f[i - 1] \in Elems THEN nx[f[i - 1]] ELSE l]

\* What a walk finds: the members of the list.
LEMMA OnwardIs ==
    ASSUME list!ListAssumption, NEW nx, NEW pv, NEW S, Represents(nx, pv, S), NEW l \in Heads,
           NEW f, f = Onward(nx, l, f)
    PROVE  \A i \in 0 .. list!Cardinality(Elems) : f[i] = Cell(S[l], l, i + 1)
<1>1. PICK most \in Nat : most = list!Cardinality(Elems)
  BY ListConstants
<1>2. PICK q \in Seq(Elems) : q = S[l]
  BY ListOf
<1>3. Chain(nx, pv, l, q) /\ Len(q) \in Nat /\ l \notin Elems
  BY <1>2, ListConstants DEF Represents
<1>4. /\ f[0] = nx[l]
      /\ \A i \in 1 .. most : f[i] = IF f[i - 1] \in Elems THEN nx[f[i - 1]] ELSE l
  <2>1. \A i \in 0 .. most : f[i] = IF i = 0 THEN nx[l] ELSE IF f[i - 1] \in Elems THEN nx[f[i - 1]] ELSE l
    BY <1>1, Zenon DEF Onward
  <2>. QED BY <2>1
<1>5. f[0] = Cell(q, l, 1)
  BY <1>3, <1>4 DEF Chain, Cell
<1>6. ASSUME NEW i \in 1 .. most, f[i - 1] = Cell(q, l, i)
      PROVE  f[i] = Cell(q, l, i + 1)
  <2>1. f[i] = IF f[i - 1] \in Elems THEN nx[f[i - 1]] ELSE l
    BY <1>4
  <2>2. CASE i \in 1 .. Len(q)
    <3>1. Cell(q, l, i) = q[i] /\ q[i] \in Elems
      BY <2>2 DEF Cell
    <3>2. nx[Cell(q, l, i)] = Cell(q, l, i + 1)
      BY <1>3, <2>2 DEF Chain
    <3>. QED BY <1>6, <2>1, <3>1, <3>2
  <2>3. CASE i \notin 1 .. Len(q)
    <3>1. Cell(q, l, i) = l /\ Cell(q, l, i + 1) = l
      BY <1>3, <2>3 DEF Cell
    <3>. QED BY <1>3, <1>6, <2>1, <3>1
  <2>. QED BY <2>2, <2>3
<1>7. SUFFICES ASSUME NEW j \in 0 .. most, f[j] # Cell(q, l, j + 1) PROVE FALSE
  BY <1>1, <1>2
<1>8. PICK x \in {y \in 0 .. most : f[y] # Cell(q, l, y + 1)} :
          \A y \in {z \in 0 .. most : f[z] # Cell(q, l, z + 1)} : x =< y
  <2>. DEFINE D == {y \in 0 .. most : f[y] # Cell(q, l, y + 1)}
  <2>1. D \in SUBSET Nat /\ D # {}
    BY <1>7
  <2>. QED BY <2>1, LeastOf
<1>9. x # 0
  BY <1>5, <1>8
<1>10. x \in 1 .. most /\ x - 1 \in 0 .. most
  BY <1>8, <1>9
<1>11. f[x - 1] = Cell(q, l, x)
  BY <1>8, <1>10
<1>. QED BY <1>6, <1>8, <1>10, <1>11

LEMMA WalkIs ==
    ASSUME list!ListAssumption, NEW nx, NEW pv, NEW S, Represents(nx, pv, S), NEW l \in Heads
    PROVE  WalkAlong(nx, l) = S[l]
<1>1. PICK most \in Nat : most = list!Cardinality(Elems)
  BY ListConstants
<1>2. PICK q \in Seq(Elems) : q = S[l]
  BY ListOf
<1>3. Chain(nx, pv, l, q) /\ Len(q) \in Nat /\ l \notin Elems /\ Len(q) =< most
  BY <1>1, <1>2, ListConstants, ListFits DEF Represents
<1>. DEFINE n == CHOOSE f : f = Onward(nx, l, f)
            g == [i \in 0 .. most |-> Cell(q, l, i + 1)]
<1>4. g = Onward(nx, l, g)
  <2>1. ASSUME NEW i \in 0 .. most
        PROVE  g[i] = IF i = 0 THEN nx[l] ELSE IF g[i - 1] \in Elems THEN nx[g[i - 1]] ELSE l
    <3>1. g[i] = Cell(q, l, i + 1)
      OBVIOUS
    <3>2. CASE i = 0
      <4>1. Cell(q, l, 0) = l /\ 0 \in 0 .. Len(q) /\ 0 + 1 = 1
        BY <1>3 DEF Cell
      <4>2. nx[l] = Cell(q, l, 1)
        BY <1>3, <4>1 DEF Chain
      <4>. QED BY <3>1, <3>2, <4>1, <4>2
    <3>3. CASE i \in 1 .. Len(q)
      <4>1. g[i - 1] = q[i] /\ q[i] \in Elems /\ Cell(q, l, i) = q[i]
        BY <3>3 DEF Cell
      <4>2. nx[Cell(q, l, i)] = Cell(q, l, i + 1)
        BY <1>3, <3>3 DEF Chain
      <4>. QED BY <3>1, <3>3, <4>1, <4>2
    <3>4. CASE i # 0 /\ i \notin 1 .. Len(q)
      <4>1. i - 1 \in 0 .. most /\ i \in Nat
        BY <3>4
      <4>2. g[i - 1] = l /\ g[i] = l
        BY <1>3, <3>4, <4>1 DEF Cell
      <4>. QED BY <1>3, <3>4, <4>2
    <3>. QED BY <3>2, <3>3, <3>4
  <2>2. Onward(nx, l, g) = [i \in 0 .. most |-> IF i = 0 THEN nx[l] ELSE IF g[i - 1] \in Elems THEN nx[g[i - 1]] ELSE l]
    BY <1>1 DEF Onward
  <2>. HIDE DEF g
  <2>3. g = [i \in 0 .. most |-> g[i]]
    BY DEF g
  <2>. QED BY <2>1, <2>2, <2>3, Zenon
<1>5. n = Onward(nx, l, n)
  BY <1>4
<1>. HIDE DEF n, g
<1>6. \A i \in 0 .. most : n[i] = Cell(q, l, i + 1)
  BY <1>1, <1>2, <1>5, OnwardIs
<1>. DEFINE D == {i \in 0 .. most : n[i] \notin Elems} \cup {most}
<1>7. list!Min(D) = Len(q)
  <2>1. Len(q) \in D
    <3>1. CASE Len(q) = most
      BY <3>1
    <3>2. CASE Len(q) < most
      <4>1. n[Len(q)] = l
        BY <1>3, <1>6, <3>2 DEF Cell
      <4>. QED BY <1>3, <3>2, <4>1
    <3>. QED BY <1>3, <3>1, <3>2
  <2>2. ASSUME NEW y \in D PROVE Len(q) =< y
    <3>1. SUFFICES ASSUME y < Len(q) PROVE FALSE
      BY <1>3
    <3>2. y \in 0 .. most /\ y + 1 \in 1 .. Len(q) /\ y # most
      BY <1>3, <3>1
    <3>3. n[y] = q[y + 1] /\ q[y + 1] \in Elems
      BY <1>6, <3>2 DEF Cell
    <3>. QED BY <3>2, <3>3
  <2>3. D \in SUBSET Nat
    OBVIOUS
  <2>. HIDE DEF D
  <2>4. ASSUME NEW x \in D, \A y \in D : x =< y PROVE x = Len(q)
    BY <2>1, <2>2, <2>3, <2>4
  <2>. QED BY <2>1, <2>2, <2>4, Zenon DEF list!Min
<1>8. WalkAlong(nx, l) = [i \in 1 .. list!Min(D) |-> n[i - 1]]
  BY <1>1, Zenon DEF WalkAlong, n, Onward
<1>9. \A i \in 1 .. Len(q) : n[i - 1] = q[i]
  BY <1>3, <1>6 DEF Cell
<1>10. q = [i \in 1 .. Len(q) |-> q[i]]
  OBVIOUS
<1>. QED BY <1>2, <1>7, <1>8, <1>9, <1>10

\* The lists of the state are those that its pointers represent.
LEMMA SeqsAre ==
    ASSUME list!ListAssumption, NEW S
    PROVE  /\ Represents(next, prev, S) => list!seqs = S
           /\ Represents(next', prev', S) => list!seqs' = S
<1>1. /\ \A l \in Heads : list!Walk(l) = WalkAlong(next, l)
      /\ \A l \in Heads : list!Walk(l)' = WalkAlong(next', l)
  BY DEF list!Walk, WalkAlong
<1>2. /\ list!seqs = [l \in Heads |-> WalkAlong(next, l)]
      /\ list!seqs' = [l \in Heads |-> WalkAlong(next', l)]
  BY <1>1 DEF list!seqs
<1>3. ASSUME NEW nx, NEW pv, Represents(nx, pv, S)
      PROVE  [l \in Heads |-> WalkAlong(nx, l)] = S
  <2>1. \A l \in Heads : WalkAlong(nx, l) = S[l]
    BY <1>3, WalkIs
  <2>2. S = [l \in Heads |-> S[l]]
    BY <1>3 DEF Represents
  <2>. QED BY <2>1, <2>2
<1>. QED BY <1>2, <1>3

\* Only elements in no list have no pointers.
LEMMA LinkedIs ==
    ASSUME list!ListAssumption, NEW nx, NEW pv, NEW S, Represents(nx, pv, S), NEW e \in Elems
    PROVE  (nx[e] = NoCell) <=> InNone(S, e)
<1>1. InNone(S, e) => nx[e] = NoCell
  BY DEF Represents
<1>2. ASSUME NEW l \in Heads, NEW i \in 1 .. Len(S[l]), S[l][i] = e
      PROVE  nx[e] # NoCell
  <2>1. Len(S[l]) \in Nat /\ Chain(nx, pv, l, S[l])
    BY ListOf DEF Represents
  <2>2. nx[Cell(S[l], l, i)] = Cell(S[l], l, i + 1) /\ Cell(S[l], l, i) = e
    BY <1>2, <2>1 DEF Chain, Cell
  <2>. QED BY <2>2, CellIn
<1>. QED BY <1>1, <1>2 DEF InNone

\* The neighbours of a cell in a list.
LEMMA Neighbours ==
    ASSUME list!ListAssumption, NEW nx, NEW pv, NEW S, Represents(nx, pv, S), NEW l \in Heads,
           NEW i \in 1 .. Len(S[l])
    PROVE  /\ nx[S[l][i]] = Cell(S[l], l, i + 1) /\ pv[S[l][i]] = Cell(S[l], l, i - 1)
           /\ Cell(S[l], l, i + 1) # S[l][i] /\ Cell(S[l], l, i - 1) # S[l][i]
<1>1. Len(S[l]) \in Nat /\ Chain(nx, pv, l, S[l])
  BY ListOf DEF Represents
<1>2. Cell(S[l], l, i) = S[l][i]
  BY DEF Cell
<1>3. nx[Cell(S[l], l, i)] = Cell(S[l], l, i + 1)
  BY <1>1 DEF Chain
<1>4. pv[Cell(S[l], l, i)] = Cell(S[l], l, i - 1)
  <2>1. i - 1 \in 0 .. Len(S[l]) /\ (i - 1) + 1 = i
    BY <1>1
  <2>2. pv[Cell(S[l], l, (i - 1) + 1)] = Cell(S[l], l, i - 1)
    BY <1>1, <2>1 DEF Chain
  <2>. QED BY <2>1, <2>2
<1>5. i + 1 \in 0 .. Len(S[l]) + 1 /\ i - 1 \in 0 .. Len(S[l]) + 1 /\ i \in 0 .. Len(S[l]) + 1
  BY <1>1
<1>6. Cell(S[l], l, i + 1) # Cell(S[l], l, i) /\ Cell(S[l], l, i - 1) # Cell(S[l], l, i)
  BY <1>1, <1>5, CellsApart
<1>. QED BY <1>2, <1>3, <1>4, <1>6

\* Joining the neighbours of member i of list k takes it out of the list.
LEMMA RemoveRepresents ==
    ASSUME list!ListAssumption, NEW nx, NEW pv, NEW S, Represents(nx, pv, S),
           NEW k \in Heads, NEW i \in 1 .. Len(S[k]), NEW e, e = S[k][i],
           NEW t \in Seq(Elems), Len(t) = Len(S[k]) - 1,
           \A j \in 1 .. Len(t) : t[j] = IF j < i THEN S[k][j] ELSE S[k][j + 1],
           NEW nx2, nx2 = [[nx EXCEPT ![pv[e]] = nx[e]] EXCEPT ![e] = NoCell],
           NEW pv2, pv2 = [[pv EXCEPT ![nx[e]] = pv[e]] EXCEPT ![e] = NoCell]
    PROVE  Represents(nx2, pv2, [S EXCEPT ![k] = t])
<1>1. PICK q \in Seq(Elems) : q = S[k]
  BY ListOf
<1>2. Len(q) \in Nat /\ Len(t) = Len(q) - 1 /\ i \in 1 .. Len(q) /\ e = q[i] /\ e \in Elems
  BY <1>1
<1>. DEFINE p == Cell(q, k, i - 1)
            n == Cell(q, k, i + 1)
            T == [S EXCEPT ![k] = t]
            At(j) == IF j < i THEN j ELSE j + 1
<1>3. /\ nx[e] = n /\ pv[e] = p /\ n # e /\ p # e
      /\ n \in list!Cells /\ p \in list!Cells /\ e \in list!Cells
  <2>1. nx[e] = n /\ pv[e] = p /\ n # e /\ p # e
    BY <1>1, <1>2, Neighbours
  <2>2. n \in list!Cells /\ p \in list!Cells
    BY <1>1, CellIn
  <2>. QED BY <1>2, <2>1, <2>2, ListConstants
<1>4. /\ nx \in [list!Cells -> list!Cells \cup {NoCell}] /\ pv \in [list!Cells -> list!Cells \cup {NoCell}]
      /\ S \in [Heads -> Seq(Elems)]
  BY DEF Represents
<1>. HIDE DEF p, n
<1>5. /\ nx2 \in [list!Cells -> list!Cells \cup {NoCell}]
      /\ nx2[e] = NoCell /\ nx2[p] = n
      /\ \A c \in list!Cells : c # e /\ c # p => nx2[c] = nx[c]
  BY <1>3, <1>4
<1>6. /\ pv2 \in [list!Cells -> list!Cells \cup {NoCell}]
      /\ pv2[e] = NoCell /\ pv2[n] = p
      /\ \A c \in list!Cells : c # e /\ c # n => pv2[c] = pv[c]
  BY <1>3, <1>4
<1>7. T \in [Heads -> Seq(Elems)] /\ T[k] = t /\ \A l \in Heads : l # k => T[l] = S[l]
  BY <1>4
<1>8. ASSUME NEW j \in 0 .. Len(t) + 1 PROVE Cell(t, k, j) = Cell(q, k, At(j))
  <2>1. CASE j \in 1 .. Len(t)
    <3>1. t[j] = q[At(j)] /\ At(j) \in 1 .. Len(q)
      BY <1>1, <1>2, <2>1
    <3>. QED BY <2>1, <3>1 DEF Cell
  <2>2. CASE j \notin 1 .. Len(t)
    <3>1. At(j) \notin 1 .. Len(q)
      BY <1>2, <2>2
    <3>. QED BY <2>2, <3>1 DEF Cell
  <2>. QED BY <2>1, <2>2
<1>9. ASSUME NEW a \in 0 .. Len(q) + 1, NEW b \in 0 .. Len(q) + 1, a # b,
             a \in 1 .. Len(q) \/ b \in 1 .. Len(q)
      PROVE  Cell(q, k, a) # Cell(q, k, b)
  BY <1>1, <1>9, CellsApart
<1>10. \A j \in 0 .. Len(q) + 1 : Cell(q, k, j) \in list!Cells
  BY <1>1, CellIn
<1>11. e = Cell(q, k, i)
  BY <1>2 DEF Cell
<1>12. \A j \in 0 .. Len(q) : nx[Cell(q, k, j)] = Cell(q, k, j + 1) /\ pv[Cell(q, k, j + 1)] = Cell(q, k, j)
  BY <1>1 DEF Represents, Chain
<1>13. Chain(nx2, pv2, k, t)
  <2>1. ASSUME NEW j \in 0 .. Len(t) PROVE nx2[Cell(t, k, j)] = Cell(t, k, j + 1)
    <3>1. Cell(t, k, j) = Cell(q, k, At(j)) /\ Cell(t, k, j + 1) = Cell(q, k, At(j + 1))
      <4>. HIDE DEF At
      <4>1. j \in 0 .. Len(t) + 1 /\ j + 1 \in 0 .. Len(t) + 1
        BY <1>2
      <4>. QED BY <1>8, <4>1
    <3>2. CASE j = i - 1
      <4>1. At(j) = i - 1 /\ At(j + 1) = i + 1
        BY <1>2, <3>2
      <4>. QED BY <1>5, <3>1, <4>1 DEF p, n
    <3>3. CASE j # i - 1
      <4>1. /\ At(j) \in 0 .. Len(q) /\ At(j + 1) = At(j) + 1
            /\ At(j) # i /\ At(j) # i - 1
            /\ At(j) \in 1 .. Len(q) \/ i - 1 \in 1 .. Len(q)
            /\ i - 1 \in 0 .. Len(q) + 1 /\ i \in 0 .. Len(q) + 1
        BY <1>2, <3>3
      <4>2. PICK a \in 0 .. Len(q) : a = At(j)
        BY <4>1
      <4>3. a \in 0 .. Len(q) + 1
        BY <1>2
      <4>4. Cell(q, k, a) # e /\ Cell(q, k, a) # p /\ Cell(q, k, a) \in list!Cells
        BY <1>2, <1>9, <1>10, <1>11, <4>1, <4>2, <4>3 DEF p
      <4>5. nx2[Cell(q, k, a)] = Cell(q, k, a + 1)
        BY <1>5, <1>12, <4>4
      <4>. QED BY <3>1, <4>1, <4>2, <4>5
    <3>. QED BY <3>2, <3>3
  <2>2. ASSUME NEW j \in 0 .. Len(t) PROVE pv2[Cell(t, k, j + 1)] = Cell(t, k, j)
    <3>1. Cell(t, k, j) = Cell(q, k, At(j)) /\ Cell(t, k, j + 1) = Cell(q, k, At(j + 1))
      <4>. HIDE DEF At
      <4>1. j \in 0 .. Len(t) + 1 /\ j + 1 \in 0 .. Len(t) + 1
        BY <1>2
      <4>. QED BY <1>8, <4>1
    <3>2. CASE j = i - 1
      <4>1. At(j) = i - 1 /\ At(j + 1) = i + 1
        BY <1>2, <3>2
      <4>. QED BY <1>6, <3>1, <4>1 DEF p, n
    <3>3. CASE j # i - 1
      <4>1. /\ At(j) \in 0 .. Len(q) /\ At(j + 1) = At(j) + 1
            /\ At(j) + 1 # i /\ At(j) + 1 # i + 1
            /\ At(j) + 1 \in 1 .. Len(q) \/ i + 1 \in 1 .. Len(q)
            /\ i + 1 \in 0 .. Len(q) + 1 /\ i \in 0 .. Len(q) + 1
        BY <1>2, <3>3, SMTT(30)
      <4>2. PICK a \in 0 .. Len(q) : a = At(j)
        BY <4>1
      <4>3. a + 1 \in 0 .. Len(q) + 1
        BY <1>2
      <4>4. Cell(q, k, a + 1) # e /\ Cell(q, k, a + 1) # n /\ Cell(q, k, a + 1) \in list!Cells
        BY <1>2, <1>9, <1>10, <1>11, <4>1, <4>2, <4>3 DEF n
      <4>5. pv2[Cell(q, k, a + 1)] = Cell(q, k, a)
        BY <1>6, <1>12, <4>4
      <4>. QED BY <3>1, <4>1, <4>2, <4>5
    <3>. QED BY <3>2, <3>3
  <2>. QED BY <2>1, <2>2 DEF Chain
<1>14. ASSUME NEW l \in Heads, l # k PROVE Chain(nx2, pv2, l, S[l])
  <2>1. ASSUME NEW j \in 0 .. Len(S[l]) + 1
        PROVE  /\ Cell(S[l], l, j) # e /\ Cell(S[l], l, j) # p /\ Cell(S[l], l, j) # n
               /\ Cell(S[l], l, j) \in list!Cells
    <3>1. i - 1 \in 0 .. Len(S[k]) + 1 /\ i + 1 \in 0 .. Len(S[k]) + 1 /\ i \in 0 .. Len(S[k]) + 1
      BY <1>1, <1>2
    <3>2. \A a \in 0 .. Len(S[k]) + 1 : Cell(S[l], l, j) # Cell(S[k], k, a)
      BY <1>14, CellsApart
    <3>. QED BY <1>1, <1>11, <3>1, <3>2, CellIn DEF p, n
  <2>2. Len(S[l]) \in Nat /\ Chain(nx, pv, l, S[l])
    BY ListOf DEF Represents
  <2>3. ASSUME NEW j \in 0 .. Len(S[l])
        PROVE  /\ nx2[Cell(S[l], l, j)] = Cell(S[l], l, j + 1)
               /\ pv2[Cell(S[l], l, j + 1)] = Cell(S[l], l, j)
    <3>1. j \in 0 .. Len(S[l]) + 1 /\ j + 1 \in 0 .. Len(S[l]) + 1
      BY <2>2
    <3>2. nx[Cell(S[l], l, j)] = Cell(S[l], l, j + 1) /\ pv[Cell(S[l], l, j + 1)] = Cell(S[l], l, j)
      BY <2>2 DEF Chain
    <3>. QED BY <1>5, <1>6, <2>1, <3>1, <3>2
  <2>. QED BY <2>3 DEF Chain
<1>15. Apart(T)
  <2>. DEFINE Was(l, j) == IF l = k THEN At(j) ELSE j
  <2>1. ASSUME NEW l \in Heads, NEW j \in 1 .. Len(T[l])
        PROVE  Was(l, j) \in 1 .. Len(S[l]) /\ T[l][j] = S[l][Was(l, j)]
    <3>1. CASE l = k
      BY <1>1, <1>2, <1>7, <3>1
    <3>2. CASE l # k
      BY <1>7, <3>2
    <3>. QED BY <3>1, <3>2
  <2>2. ASSUME NEW l \in Heads, NEW j \in 1 .. Len(T[l]), NEW o \in Heads, NEW h \in 1 .. Len(T[o]),
               T[l][j] = T[o][h]
        PROVE  l = o /\ j = h
    <3>1. PICK a \in 1 .. Len(S[l]) : a = Was(l, j) /\ T[l][j] = S[l][a]
      <4>. HIDE DEF Was, T
      <4>. QED BY <2>1
    <3>2. PICK b \in 1 .. Len(S[o]) : b = Was(o, h) /\ T[o][h] = S[o][b]
      <4>. HIDE DEF Was, T
      <4>. QED BY <2>1
    <3>3. l = o /\ a = b
      BY <2>2, <3>1, <3>2 DEF Represents, Apart
    <3>4. j \in Nat /\ h \in Nat
      BY <1>7
    <3>. QED BY <1>2, <3>1, <3>2, <3>3, <3>4
  <2>. QED BY <2>2 DEF Apart
<1>16. ASSUME NEW x \in Elems, InNone(T, x) PROVE nx2[x] = NoCell /\ pv2[x] = NoCell
  <2>1. CASE x = e
    BY <1>5, <1>6, <2>1
  <2>2. CASE x # e
    <3>1. InNone(S, x)
      <4>1. ASSUME NEW j \in 1 .. Len(q), q[j] = x PROVE FALSE
        <5>1. CASE j < i
          <6>1. j \in 1 .. Len(t) /\ t[j] = x
            BY <1>1, <1>2, <4>1, <5>1
          <6>. QED BY <1>7, <1>16, <6>1 DEF InNone
        <5>2. CASE j > i
          <6>1. j - 1 \in 1 .. Len(t) /\ t[j - 1] = x
            BY <1>1, <1>2, <4>1, <5>2
          <6>. QED BY <1>7, <1>16, <6>1 DEF InNone
        <5>3. CASE j = i
          BY <1>2, <2>2, <4>1, <5>3
        <5>. QED BY <1>2, <5>1, <5>2, <5>3
      <4>. QED BY <1>1, <1>7, <1>16, <4>1 DEF InNone
    <3>2. x # p /\ x # n
      <4>1. \A j : Cell(q, k, j) \in Heads \/ \E a \in 1 .. Len(S[k]) : Cell(q, k, j) = S[k][a]
        BY <1>1 DEF Cell
      <4>. QED BY <3>1, <4>1, ListConstants DEF InNone, p, n
    <3>3. nx[x] = NoCell /\ pv[x] = NoCell /\ x \in list!Cells
      BY <3>1, ListConstants DEF Represents
    <3>. QED BY <1>5, <1>6, <2>2, <3>2, <3>3
  <2>. QED BY <2>1, <2>2
<1>17. \A l \in Heads : Chain(nx2, pv2, l, T[l])
  BY <1>7, <1>13, <1>14
<1>. QED BY <1>5, <1>6, <1>7, <1>15, <1>16, <1>17 DEF Represents

\* An element put between the last cell of list k and its head is its new last member.
LEMMA PushRepresents ==
    ASSUME list!ListAssumption, NEW nx, NEW pv, NEW S, Represents(nx, pv, S),
           NEW k \in Heads, NEW e \in Elems, InNone(S, e),
           NEW nx2, nx2 = [nx EXCEPT ![e] = k, ![pv[k]] = e],
           NEW pv2, pv2 = [pv EXCEPT ![e] = pv[k], ![k] = e]
    PROVE  Represents(nx2, pv2, [S EXCEPT ![k] = Append(S[k], e)])
<1>1. PICK q \in Seq(Elems) : q = S[k]
  BY ListOf
<1>2. Len(q) \in Nat /\ k \notin Elems /\ e \in list!Cells /\ k \in list!Cells /\ e # k
  BY ListConstants
<1>. DEFINE p == Cell(q, k, Len(q))
            t == Append(q, e)
            T == [S EXCEPT ![k] = t]
<1>3. /\ t \in Seq(Elems) /\ Len(t) = Len(q) + 1 /\ t[Len(q) + 1] = e
      /\ \A j \in 1 .. Len(q) : t[j] = q[j]
  BY <1>2
<1>4. /\ nx \in [list!Cells -> list!Cells \cup {NoCell}] /\ pv \in [list!Cells -> list!Cells \cup {NoCell}]
      /\ S \in [Heads -> Seq(Elems)]
  BY DEF Represents
<1>5. \A j \in 0 .. Len(q) : nx[Cell(q, k, j)] = Cell(q, k, j + 1) /\ pv[Cell(q, k, j + 1)] = Cell(q, k, j)
  BY <1>1 DEF Represents, Chain
<1>6. Cell(q, k, Len(q) + 1) = k /\ Cell(q, k, 0) = k
  BY <1>2 DEF Cell
<1>7. pv[k] = p
  BY <1>2, <1>5, <1>6
<1>8. ASSUME NEW l \in Heads, NEW j PROVE Cell(S[l], l, j) # e /\ Cell(S[l], l, j) \in list!Cells
  <2>1. l # e
    BY ListConstants
  <2>2. j \in 1 .. Len(S[l]) => S[l][j] # e
    BY DEF InNone
  <2>. QED BY <2>1, <2>2, CellIn DEF Cell
<1>9. p # e /\ p \in list!Cells
  BY <1>1, <1>8
<1>. HIDE DEF p, t
<1>10. /\ nx2 \in [list!Cells -> list!Cells \cup {NoCell}]
       /\ nx2[e] = k /\ nx2[p] = e
       /\ \A c \in list!Cells : c # e /\ c # p => nx2[c] = nx[c]
  BY <1>2, <1>4, <1>7, <1>9
<1>11. /\ pv2 \in [list!Cells -> list!Cells \cup {NoCell}]
       /\ pv2[e] = p /\ pv2[k] = e
       /\ \A c \in list!Cells : c # e /\ c # k => pv2[c] = pv[c]
  BY <1>2, <1>4, <1>7, <1>9
<1>12. T \in [Heads -> Seq(Elems)] /\ T[k] = t /\ \A l \in Heads : l # k => T[l] = S[l]
  BY <1>3, <1>4
<1>13. /\ \A j \in 0 .. Len(q) : Cell(t, k, j) = Cell(q, k, j)
       /\ Cell(t, k, Len(q) + 1) = e /\ Cell(t, k, Len(q) + 2) = k
  BY <1>2, <1>3 DEF Cell
<1>14. Chain(nx2, pv2, k, t)
  <2>1. ASSUME NEW j \in 0 .. Len(t)
        PROVE  nx2[Cell(t, k, j)] = Cell(t, k, j + 1) /\ pv2[Cell(t, k, j + 1)] = Cell(t, k, j)
    <3>1. CASE j = Len(q) + 1
      <4>1. j + 1 = Len(q) + 2
        BY <1>2, <3>1
      <4>. QED BY <1>10, <1>11, <1>13, <3>1, <4>1
    <3>2. CASE j = Len(q)
      <4>1. Len(q) \in 0 .. Len(q)
        BY <1>2
      <4>. QED BY <1>10, <1>11, <1>13, <3>2, <4>1 DEF p
    <3>3. CASE j < Len(q)
      <4>1. /\ j \in 0 .. Len(q) /\ j + 1 \in 0 .. Len(q) /\ j # Len(q)
            /\ j \in 0 .. Len(q) + 1 /\ j + 1 \in 0 .. Len(q) + 1 /\ Len(q) \in 0 .. Len(q) + 1
            /\ Len(q) \in 1 .. Len(q) /\ j + 1 \in 1 .. Len(q)
        BY <1>2, <3>3
      <4>2. Cell(q, k, j) # p
        BY <1>1, <4>1, CellsApart DEF p
      <4>3. Cell(q, k, j + 1) # k
        <5>1. Cell(q, k, j + 1) = q[j + 1]
          BY <4>1 DEF Cell
        <5>. QED BY <1>2, <4>1, <5>1
      <4>4. /\ Cell(q, k, j) # e /\ Cell(q, k, j) \in list!Cells
            /\ Cell(q, k, j + 1) # e /\ Cell(q, k, j + 1) \in list!Cells
        BY <1>1, <1>8
      <4>5. nx2[Cell(q, k, j)] = Cell(q, k, j + 1)
        BY <1>5, <1>10, <4>1, <4>2, <4>4
      <4>6. pv2[Cell(q, k, j + 1)] = Cell(q, k, j)
        BY <1>5, <1>11, <4>1, <4>3, <4>4
      <4>. QED BY <1>13, <4>1, <4>5, <4>6
    <3>. QED BY <1>2, <1>3, <3>1, <3>2, <3>3
  <2>. QED BY <2>1 DEF Chain
<1>15. ASSUME NEW l \in Heads, l # k PROVE Chain(nx2, pv2, l, S[l])
  <2>1. ASSUME NEW j \in 0 .. Len(S[l]) + 1
        PROVE  /\ Cell(S[l], l, j) # p /\ Cell(S[l], l, j) # k
               /\ Cell(S[l], l, j) # e /\ Cell(S[l], l, j) \in list!Cells
    <3>1. 0 \in 0 .. Len(S[k]) + 1 /\ Len(q) \in 0 .. Len(S[k]) + 1
      BY <1>1, <1>2
    <3>2. \A a \in 0 .. Len(S[k]) + 1 : Cell(S[l], l, j) # Cell(S[k], k, a)
      BY <1>15, CellsApart
    <3>. QED BY <1>1, <1>6, <1>8, <3>1, <3>2 DEF p
  <2>2. Len(S[l]) \in Nat /\ Chain(nx, pv, l, S[l])
    BY ListOf DEF Represents
  <2>3. ASSUME NEW j \in 0 .. Len(S[l])
        PROVE  /\ nx2[Cell(S[l], l, j)] = Cell(S[l], l, j + 1)
               /\ pv2[Cell(S[l], l, j + 1)] = Cell(S[l], l, j)
    <3>1. j \in 0 .. Len(S[l]) + 1 /\ j + 1 \in 0 .. Len(S[l]) + 1
      BY <2>2
    <3>2. nx[Cell(S[l], l, j)] = Cell(S[l], l, j + 1) /\ pv[Cell(S[l], l, j + 1)] = Cell(S[l], l, j)
      BY <2>2 DEF Chain
    <3>. QED BY <1>10, <1>11, <2>1, <3>1, <3>2
  <2>. QED BY <2>3 DEF Chain
<1>16. Apart(T)
  <2>1. ASSUME NEW l \in Heads, NEW j \in 1 .. Len(T[l])
        PROVE  \/ j \in 1 .. Len(S[l]) /\ T[l][j] = S[l][j] /\ T[l][j] # e
               \/ l = k /\ j = Len(q) + 1 /\ T[l][j] = e
    <3>1. CASE l = k
      <4>1. \A a \in 1 .. Len(q) : q[a] # e
        BY <1>1 DEF InNone
      <4>. QED BY <1>1, <1>2, <1>3, <1>12, <3>1, <4>1
    <3>2. CASE l # k
      BY <1>12, <3>2 DEF InNone
    <3>. QED BY <3>1, <3>2
  <2>2. ASSUME NEW l \in Heads, NEW j \in 1 .. Len(T[l]), NEW o \in Heads, NEW h \in 1 .. Len(T[o]),
               T[l][j] = T[o][h]
        PROVE  l = o /\ j = h
    <3>1. CASE T[l][j] = e
      BY <2>1, <2>2, <3>1
    <3>2. CASE T[l][j] # e
      <4>1. j \in 1 .. Len(S[l]) /\ h \in 1 .. Len(S[o]) /\ S[l][j] = S[o][h]
        BY <2>1, <2>2, <3>2
      <4>. QED BY <4>1 DEF Represents, Apart
    <3>. QED BY <3>1, <3>2
  <2>. QED BY <2>2 DEF Apart
<1>17. ASSUME NEW x \in Elems, InNone(T, x) PROVE nx2[x] = NoCell /\ pv2[x] = NoCell
  <2>1. x # e
    <3>1. Len(q) + 1 \in 1 .. Len(T[k]) /\ T[k][Len(q) + 1] = e
      BY <1>2, <1>3, <1>12
    <3>. QED BY <1>17, <3>1 DEF InNone
  <2>2. InNone(S, x)
    <3>1. \A j \in 1 .. Len(S[k]) : j \in 1 .. Len(T[k]) /\ T[k][j] = S[k][j]
      BY <1>1, <1>2, <1>3, <1>12
    <3>. QED BY <1>12, <1>17, <3>1 DEF InNone
  <2>3. x # p /\ x # k
    <3>1. p = k \/ \E a \in 1 .. Len(S[k]) : p = S[k][a]
      BY <1>1 DEF Cell, p
    <3>. QED BY <1>2, <2>2, <3>1 DEF InNone
  <2>4. nx[x] = NoCell /\ pv[x] = NoCell /\ x \in list!Cells
    BY <2>2, ListConstants DEF Represents
  <2>. QED BY <1>10, <1>11, <2>1, <2>3, <2>4
<1>18. \A l \in Heads : Chain(nx2, pv2, l, T[l])
  BY <1>12, <1>14, <1>15
<1>19. Represents(nx2, pv2, T)
  BY <1>10, <1>11, <1>12, <1>16, <1>17, <1>18 DEF Represents
<1>. QED BY <1>1, <1>19 DEF t

\* list_init and list_elem_init make empty lists.
LEMMA InitRepresents ==
    ASSUME list!ListAssumption, list!Init
    PROVE  Represents(next, prev, [l \in Heads |-> <<>>])
<1>. DEFINE S == [l \in Heads |-> <<>>]
<1>1. \A l \in Heads : S[l] = <<>> /\ Len(S[l]) = 0
  OBVIOUS
<1>2. next \in [list!Cells -> list!Cells \cup {NoCell}] /\ prev = next /\ S \in [Heads -> Seq(Elems)]
  BY DEF list!Init, list!Cells
<1>3. /\ \A l \in Heads : next[l] = l
      /\ \A e \in Elems : next[e] = NoCell
  BY ListConstants DEF list!Init
<1>. HIDE DEF S
<1>4. ASSUME NEW l \in Heads PROVE Chain(next, prev, l, S[l])
  BY <1>1, <1>2, <1>3 DEF Chain, Cell
<1>5. Apart(S)
  BY <1>1 DEF Apart
<1>6. Represents(next, prev, S)
  BY <1>2, <1>3, <1>4, <1>5 DEF Represents
<1>. QED BY <1>6 DEF S

\* What Without leaves of a list in which x is once.
LEMMA WithoutMember ==
    ASSUME NEW q \in Seq(Elems), NEW i \in 1 .. Len(q), \A j \in 1 .. Len(q) : q[j] = q[i] => j = i
    PROVE  /\ list!Abstract!Without(q, q[i]) \in Seq(Elems)
           /\ Len(list!Abstract!Without(q, q[i])) = Len(q) - 1
           /\ \A j \in 1 .. Len(q) - 1 :
                  list!Abstract!Without(q, q[i])[j] = IF j < i THEN q[j] ELSE q[j + 1]
<1>1. Len(q) \in Nat /\ DOMAIN q = 1 .. Len(q)
  OBVIOUS
<1>. DEFINE a == SubSeq(q, 1, i - 1)
            b == SubSeq(q, i + 1, Len(q))
<1>2. (CHOOSE j \in DOMAIN q : q[j] = q[i]) = i
  BY <1>1
<1>3. q[i] \in list!Abstract!Range(q)
  BY <1>1, Zenon DEF list!Abstract!Range
<1>4. list!Abstract!Without(q, q[i]) = a \o b
  BY <1>2, <1>3, Zenon DEF list!Abstract!Without
<1>5. a \in Seq(Elems) /\ Len(a) = i - 1 /\ \A j \in 1 .. i - 1 : a[j] = q[j]
  BY <1>1
<1>6. b \in Seq(Elems) /\ Len(b) = Len(q) - i /\ \A j \in 1 .. Len(q) - i : b[j] = q[i + j]
  <2>1. b = [j \in 1 .. (1 + Len(q) - (i + 1)) |-> q[(i + 1) + j - 1]]
    OBVIOUS
  <2>2. (1 + Len(q) - (i + 1)) = Len(q) - i /\ Len(q) - i \in Nat
    BY <1>1
  <2>3. \A j \in 1 .. Len(q) - i : (i + 1) + j - 1 = i + j /\ i + j \in 1 .. Len(q) /\ q[i + j] \in Elems
    BY <1>1
  <2>. HIDE DEF b
  <2>4. b = [j \in 1 .. Len(q) - i |-> q[i + j]]
    BY <2>1, <2>2, <2>3
  <2>5. b \in [1 .. Len(q) - i -> Elems]
    BY <2>3, <2>4
  <2>. QED BY <2>2, <2>4, <2>5
<1>. HIDE DEF a, b
<1>7. a \o b \in Seq(Elems) /\ Len(a \o b) = Len(q) - 1
  <2>1. a \o b \in Seq(Elems) /\ Len(a \o b) = Len(a) + Len(b)
    BY <1>5, <1>6, ConcatProperties
  <2>. QED BY <1>1, <1>5, <1>6, <2>1
<1>8. ASSUME NEW j \in 1 .. Len(q) - 1
      PROVE  (a \o b)[j] = IF j < i THEN q[j] ELSE q[j + 1]
  <2>1. (a \o b)[j] = IF j =< Len(a) THEN a[j] ELSE b[j - Len(a)]
    BY <1>1, <1>5, <1>6
  <2>2. CASE j < i
    BY <1>1, <1>5, <2>1, <2>2
  <2>3. CASE ~(j < i)
    <3>1. j - (i - 1) \in 1 .. Len(q) - i /\ i + (j - (i - 1)) = j + 1
      BY <1>1, <2>3
    <3>2. b[j - (i - 1)] = q[j + 1]
      BY <1>6, <3>1
    <3>3. ~(j =< Len(a))
      BY <1>1, <1>5, <2>3
    <3>. QED BY <1>5, <2>1, <2>3, <3>2, <3>3
  <2>. QED BY <2>2, <2>3
<1>. QED BY <1>4, <1>7, <1>8

LEMMA WithoutOther ==
    ASSUME NEW q \in Seq(Elems), NEW x, \A j \in 1 .. Len(q) : q[j] # x
    PROVE  list!Abstract!Without(q, x) = q
<1>1. x \notin list!Abstract!Range(q)
  BY DEF list!Abstract!Range
<1>. QED BY <1>1 DEF list!Abstract!Without

\* list_push_back.
LEMMA Pushed ==
    ASSUME list!ListAssumption, Represents(next, prev, list!seqs), NEW l \in Heads, NEW e \in Elems,
           list!list_push_back(l, e)
    PROVE  /\ InNone(list!seqs, e) /\ next[e] = NoCell
           /\ next' = [next EXCEPT ![e] = l, ![prev[l]] = e]
           /\ Represents(next', prev', list!seqs') /\ list!seqs' = [list!seqs EXCEPT ![l] = Append(list!seqs[l], e)]
           /\ popped' = popped
<1>1. next[e] = NoCell /\ popped' = popped
  BY DEF list!list_push_back, list!list_is_linked
<1>2. /\ next' = [next EXCEPT ![e] = l, ![prev[l]] = e]
      /\ prev' = [prev EXCEPT ![e] = prev[l], ![l] = e]
  BY DEF list!list_push_back, list!list_insert
<1>3. InNone(list!seqs, e)
  BY <1>1, LinkedIs
<1>4. Represents(next', prev', [list!seqs EXCEPT ![l] = Append(list!seqs[l], e)])
  BY <1>2, <1>3, PushRepresents
<1>5. list!seqs' = [list!seqs EXCEPT ![l] = Append(list!seqs[l], e)]
  BY <1>4, SeqsAre
<1>. QED BY <1>1, <1>2, <1>3, <1>4, <1>5

\* list_remove of an element that is in a list.
LEMMA Removed ==
    ASSUME list!ListAssumption, Represents(next, prev, list!seqs), NEW e \in Elems, next[e] # NoCell,
           next' = list!Nullified(list!Unlink(e).nx, e), prev' = list!Nullified(list!Unlink(e).pv, e)
    PROVE  /\ next' = [[next EXCEPT ![prev[e]] = next[e]] EXCEPT ![e] = NoCell]
           /\ Represents(next', prev', list!seqs')
           /\ list!seqs' = [l \in Heads |-> list!Abstract!Without(list!seqs[l], e)]
           /\ \E k \in Heads : /\ \E i \in 1 .. Len(list!seqs[k]) : list!seqs[k][i] = e
                               /\ \A l \in Heads : l # k => list!seqs'[l] = list!seqs[l]
<1>1. /\ next' = [[next EXCEPT ![prev[e]] = next[e]] EXCEPT ![e] = NoCell]
      /\ prev' = [[prev EXCEPT ![next[e]] = prev[e]] EXCEPT ![e] = NoCell]
  BY DEF list!Nullified, list!Unlink
<1>2. PICK k \in Heads : \E i \in 1 .. Len(list!seqs[k]) : list!seqs[k][i] = e
  BY LinkedIs DEF InNone
<1>3. PICK i \in 1 .. Len(list!seqs[k]) : list!seqs[k][i] = e
  BY <1>2
<1>4. PICK q \in Seq(Elems) : q = list!seqs[k]
  BY ListOf
<1>5. PICK t : t = list!Abstract!Without(q, e)
  OBVIOUS
<1>6. /\ t \in Seq(Elems) /\ Len(t) = Len(q) - 1
      /\ \A j \in 1 .. Len(t) : t[j] = IF j < i THEN q[j] ELSE q[j + 1]
  <2>1. \A j \in 1 .. Len(q) : q[j] = q[i] => j = i
    BY <1>3, <1>4, ListOf
  <2>2. i \in 1 .. Len(q) /\ q[i] = e /\ Len(q) \in Nat
    BY <1>3, <1>4
  <2>3. /\ list!Abstract!Without(q, q[i]) \in Seq(Elems)
        /\ Len(list!Abstract!Without(q, q[i])) = Len(q) - 1
        /\ \A j \in 1 .. Len(q) - 1 :
               list!Abstract!Without(q, q[i])[j] = IF j < i THEN q[j] ELSE q[j + 1]
    BY <2>1, <2>2, WithoutMember
  <2>. QED BY <1>5, <2>2, <2>3
<1>7. Represents(next', prev', [list!seqs EXCEPT ![k] = t])
  <2>1. /\ t \in Seq(Elems) /\ Len(t) = Len(list!seqs[k]) - 1
        /\ \A j \in 1 .. Len(t) : t[j] = IF j < i THEN list!seqs[k][j] ELSE list!seqs[k][j + 1]
    BY <1>4, <1>6
  <2>2. i \in 1 .. Len(list!seqs[k]) /\ e = list!seqs[k][i]
    BY <1>3
  <2>3. PICK nx2, pv2 : /\ nx2 = [[next EXCEPT ![prev[e]] = next[e]] EXCEPT ![e] = NoCell]
                        /\ pv2 = [[prev EXCEPT ![next[e]] = prev[e]] EXCEPT ![e] = NoCell]
    OBVIOUS
  <2>4. Represents(nx2, pv2, [list!seqs EXCEPT ![k] = t])
    BY <2>1, <2>2, <2>3, RemoveRepresents
  <2>5. next' = nx2 /\ prev' = pv2
    BY <1>1, <2>3
  <2>. QED BY <2>4, <2>5
<1>8. list!seqs' = [list!seqs EXCEPT ![k] = t]
  BY <1>7, SeqsAre
<1>9. list!seqs \in [Heads -> Seq(Elems)]
  BY DEF Represents
<1>10. \A l \in Heads : l # k => list!Abstract!Without(list!seqs[l], e) = list!seqs[l]
  <2>1. ASSUME NEW l \in Heads, l # k, NEW j \in 1 .. Len(list!seqs[l]) PROVE list!seqs[l][j] # e
    BY <1>3, <2>1 DEF Represents, Apart
  <2>. QED BY <1>9, <2>1, WithoutOther
<1>11. [list!seqs EXCEPT ![k] = t] = [l \in Heads |-> list!Abstract!Without(list!seqs[l], e)]
  BY <1>4, <1>5, <1>9, <1>10
<1>12. \A l \in Heads : l # k => list!seqs'[l] = list!seqs[l]
  BY <1>8, <1>9
<1>. QED BY <1>1, <1>2, <1>7, <1>8, <1>11, <1>12

\* list_pop_front of a list that is not empty.
LEMMA Popped ==
    ASSUME list!ListAssumption, Represents(next, prev, list!seqs), NEW l \in Heads, next[l] # l, list!list_pop_front(l)
    PROVE  /\ Represents(next', prev', list!seqs') /\ list!seqs[l] # <<>>
           /\ popped' = Head(list!seqs[l]) /\ list!seqs' = [list!seqs EXCEPT ![l] = Tail(list!seqs[l])]
           /\ popped' \in Elems
<1>1. PICK q \in Seq(Elems) : q = list!seqs[l]
  BY ListOf
<1>2. Len(q) \in Nat /\ Chain(next, prev, l, q)
  BY <1>1 DEF Represents
<1>3. next[l] = Cell(q, l, 1)
  <2>1. Cell(q, l, 0) = l /\ 0 \in 0 .. Len(q) /\ 0 + 1 = 1
    BY <1>2 DEF Cell
  <2>. QED BY <1>2, <2>1 DEF Chain
<1>4. 1 \in 1 .. Len(q) /\ next[l] = q[1] /\ q # <<>> /\ q[1] \in Elems
  BY <1>2, <1>3 DEF Cell
<1>5. prev[q[1]] = l
  <2>1. prev[q[1]] = Cell(q, l, 1 - 1)
    BY <1>1, <1>4, Neighbours
  <2>. QED BY <2>1 DEF Cell
<1>6. PICK e \in Elems : e = q[1]
  BY <1>4
<1>7. /\ next' = [[next EXCEPT ![prev[e]] = next[e]] EXCEPT ![e] = NoCell]
      /\ prev' = [[prev EXCEPT ![next[e]] = prev[e]] EXCEPT ![e] = NoCell]
      /\ popped' = e
  BY <1>4, <1>5, <1>6 DEF list!list_pop_front, list!Nullified
<1>8. PICK t : t = Tail(q)
  OBVIOUS
<1>9. /\ t \in Seq(Elems) /\ Len(t) = Len(q) - 1
      /\ \A j \in 1 .. Len(t) : t[j] = IF j < 1 THEN q[j] ELSE q[j + 1]
  BY <1>2, <1>4, <1>8
<1>10. Represents(next', prev', [list!seqs EXCEPT ![l] = t])
  <2>1. /\ t \in Seq(Elems) /\ Len(t) = Len(list!seqs[l]) - 1
        /\ \A j \in 1 .. Len(t) : t[j] = IF j < 1 THEN list!seqs[l][j] ELSE list!seqs[l][j + 1]
    BY <1>1, <1>9
  <2>2. 1 \in 1 .. Len(list!seqs[l]) /\ e = list!seqs[l][1]
    BY <1>1, <1>4, <1>6
  <2>. QED BY <1>7, <2>1, <2>2, RemoveRepresents
<1>11. list!seqs' = [list!seqs EXCEPT ![l] = t]
  BY <1>10, SeqsAre
<1>. QED BY <1>1, <1>4, <1>6, <1>7, <1>8, <1>10, <1>11

\* The first cell of a list is its head only when it is empty.
LEMMA FirstCell ==
    ASSUME list!ListAssumption, NEW nx, NEW pv, NEW S, Represents(nx, pv, S), NEW l \in Heads
    PROVE  nx[l] = Cell(S[l], l, 1) /\ (nx[l] = l <=> S[l] = <<>>)
<1>1. PICK q \in Seq(Elems) : q = S[l]
  BY ListOf
<1>2. Len(q) \in Nat /\ Chain(nx, pv, l, q)
  BY <1>1 DEF Represents
<1>3. nx[l] = Cell(q, l, 1)
  <2>1. Cell(q, l, 0) = l /\ 0 \in 0 .. Len(q) /\ 0 + 1 = 1
    BY <1>2 DEF Cell
  <2>. QED BY <1>2, <2>1 DEF Chain
<1>4. 1 \in 1 .. Len(q) => q[1] # l
  BY ListConstants
<1>5. q = <<>> <=> ~(1 \in 1 .. Len(q))
  BY <1>2
<1>. QED BY <1>1, <1>3, <1>4, <1>5 DEF Cell

-----------------------------------------------------------------------------
(* The loop.                                                               *)

\* The members that a loop began with and has not seen yet are still linked one after the other,
\* and the first of them is the one saved.
Ahead ==
    /\ Len(visited) < Len(start)
    /\ \A i \in 1 .. Len(visited) : visited[i] = start[i]
    /\ saved = start[Len(visited) + 1]
    /\ \A i \in Len(visited) + 1 .. Len(start) - 1 : next[start[i]] = start[i + 1]

\* The loop has seen what it began with.
SeenAll == Len(start) =< Len(visited) /\ \A i \in 1 .. Len(start) : visited[i] = start[i]

\* While a loop runs, the cell it goes to next is its head or another member than the current one.
LoopInv ==
    /\ \A i, j \in 1 .. Len(start) : start[i] = start[j] => i = j
    /\ loop = NoCell => SeenAll
    /\ loop # NoCell =>
        /\ elem \in Elems /\ Len(visited) > 0 /\ visited[Len(visited)] = elem
        /\ saved # elem /\ (saved = loop \/ \E i \in 1 .. Len(list!seqs[loop]) : list!seqs[loop][i] = saved)
        /\ SeenAll \/ Ahead

ListInv == list!TypeOK /\ Represents(next, prev, list!seqs) /\ LoopInv

\* Pointers that represent lists are symmetric.
LEMMA RepresentsSymmetric ==
    ASSUME list!ListAssumption, Represents(next, prev, list!seqs)
    PROVE  list!Symmetric
<1>1. ASSUME NEW l \in Heads, NEW i \in 0 .. Len(list!seqs[l])
      PROVE  LET c == Cell(list!seqs[l], l, i) IN next[c] # NoCell /\ prev[next[c]] = c
  <2>1. Chain(next, prev, l, list!seqs[l])
    BY DEF Represents
  <2>2. Cell(list!seqs[l], l, i + 1) # NoCell
    BY CellIn
  <2>. QED BY <2>1, <2>2 DEF Chain
<1>2. ASSUME NEW l \in Heads, NEW i \in 0 .. Len(list!seqs[l])
      PROVE  LET c == Cell(list!seqs[l], l, i + 1) IN prev[c] # NoCell /\ next[prev[c]] = c
  <2>1. Chain(next, prev, l, list!seqs[l])
    BY DEF Represents
  <2>2. Cell(list!seqs[l], l, i) # NoCell
    BY CellIn
  <2>. QED BY <2>1, <2>2 DEF Chain
<1>3. ASSUME NEW c \in list!Cells
      PROVE  /\ (next[c] = NoCell) <=> (prev[c] = NoCell)
             /\ next[c] # NoCell => prev[next[c]] = c /\ next[prev[c]] = c
  <2>1. CASE c \in Heads
    <3>1. Len(list!seqs[c]) \in Nat
      BY <2>1, ListOf
    <3>2. Cell(list!seqs[c], c, 0) = c /\ Cell(list!seqs[c], c, Len(list!seqs[c]) + 1) = c
      BY <3>1 DEF Cell
    <3>3. 0 \in 0 .. Len(list!seqs[c]) /\ Len(list!seqs[c]) \in 0 .. Len(list!seqs[c])
      BY <3>1
    <3>. QED BY <1>1, <1>2, <2>1, <3>2, <3>3
  <2>2. CASE c \in Elems /\ InNone(list!seqs, c)
    BY <2>2 DEF Represents
  <2>3. CASE c \in Elems /\ ~InNone(list!seqs, c)
    <3>1. PICK l \in Heads : \E i \in 1 .. Len(list!seqs[l]) : list!seqs[l][i] = c
      BY <2>3 DEF InNone
    <3>2. PICK i \in 1 .. Len(list!seqs[l]) : list!seqs[l][i] = c
      BY <3>1
    <3>3. Len(list!seqs[l]) \in Nat /\ Cell(list!seqs[l], l, i) = c
      BY <3>2, ListOf DEF Cell
    <3>4. i \in 0 .. Len(list!seqs[l]) /\ i - 1 \in 0 .. Len(list!seqs[l]) /\ (i - 1) + 1 = i
      BY <3>3
    <3>5. Cell(list!seqs[l], l, (i - 1) + 1) = c
      BY <3>3, <3>4
    <3>6. next[c] # NoCell /\ prev[next[c]] = c
      BY <1>1, <3>3, <3>4
    <3>7. prev[c] # NoCell /\ next[prev[c]] = c
      BY <1>2, <3>4, <3>5
    <3>. QED BY <3>6, <3>7
  <2>. QED BY <2>1, <2>2, <2>3 DEF list!Cells
<1>. QED BY <1>3 DEF list!Symmetric

LEMMA InitLists == ASSUME list!ListAssumption PROVE list!Init => ListInv
<1>. SUFFICES ASSUME list!Init PROVE ListInv
  OBVIOUS
<1>1. list!TypeOK
  BY DEF list!Init, list!TypeOK, list!Cells
<1>2. Represents(next, prev, list!seqs)
  BY InitRepresents, SeqsAre
<1>3. LoopInv
  BY DEF list!Init, LoopInv, SeenAll
<1>. QED BY <1>1, <1>2, <1>3 DEF ListInv

\* What the body of a loop may do leaves the loop on its way.
LEMMA LoopKept ==
    ASSUME list!ListAssumption, ListInv, loop # NoCell, UNCHANGED list!loopVars,
           \A i \in 1 .. Len(list!seqs[loop]) :
               list!seqs[loop][i] # elem => \E j \in 1 .. Len(list!seqs'[loop]) : list!seqs'[loop][j] = list!seqs[loop][i],
           \A c, d \in Elems : c # elem /\ d # elem /\ next[c] = d => next'[c] = d
    PROVE  LoopInv'
<1>1. /\ \A i, j \in 1 .. Len(start) : start[i] = start[j] => i = j
      /\ elem \in Elems /\ Len(visited) > 0 /\ visited[Len(visited)] = elem
      /\ saved # elem /\ (saved = loop \/ \E i \in 1 .. Len(list!seqs[loop]) : list!seqs[loop][i] = saved)
      /\ SeenAll \/ Ahead
  BY DEF ListInv, LoopInv
<1>2. /\ loop' = loop /\ elem' = elem /\ saved' = saved /\ start' = start /\ visited' = visited
  BY DEF list!loopVars
<1>3. start \in Seq(Elems) /\ Len(start) \in Nat /\ visited \in Seq(Elems) /\ Len(visited) \in Nat
  BY DEF ListInv, list!TypeOK
<1>4. saved = loop \/ \E i \in 1 .. Len(list!seqs'[loop]) : list!seqs'[loop][i] = saved
  BY <1>1
<1>5. SeenAll => SeenAll'
  BY <1>2 DEF SeenAll
<1>6. Ahead => Ahead'
  <2>. SUFFICES ASSUME Ahead PROVE Ahead'
    OBVIOUS
  <2>1. PICK v \in Nat : v = Len(visited)
    BY <1>3
  <2>2. /\ v < Len(start) /\ v > 0 /\ \A i \in 1 .. v : visited[i] = start[i]
        /\ saved = start[v + 1]
        /\ \A i \in v + 1 .. Len(start) - 1 : next[start[i]] = start[i + 1]
    BY <1>1, <2>1 DEF Ahead
  <2>3. v \in 1 .. Len(start) /\ start[v] = elem
    BY <1>1, <1>3, <2>1, <2>2
  <2>4. ASSUME NEW i \in v + 1 .. Len(start) - 1 PROVE next'[start[i]] = start[i + 1]
    <3>1. i \in 1 .. Len(start) /\ i + 1 \in 1 .. Len(start) /\ i # v /\ i + 1 # v
      BY <1>3, <2>4
    <3>2. start[i] # elem /\ start[i + 1] # elem /\ start[i] \in Elems /\ start[i + 1] \in Elems
      BY <1>1, <1>3, <2>3, <3>1
    <3>. QED BY <2>2, <3>2
  <2>. QED BY <1>2, <2>1, <2>2, <2>4 DEF Ahead
<1>. QED BY <1>1, <1>2, <1>4, <1>5, <1>6 DEF LoopInv

\* An element in a list is nowhere between the ends of another.
LEMMA NextIn ==
    ASSUME list!ListAssumption, NEW nx, NEW pv, NEW S, Represents(nx, pv, S), NEW l \in Heads,
           NEW i \in 1 .. Len(S[l])
    PROVE  /\ nx[S[l][i]] # S[l][i]
           /\ nx[S[l][i]] = l \/ \E j \in 1 .. Len(S[l]) : S[l][j] = nx[S[l][i]]
           /\ i = Len(S[l]) => nx[S[l][i]] = l
           /\ i < Len(S[l]) => nx[S[l][i]] = S[l][i + 1]
<1>1. nx[S[l][i]] = Cell(S[l], l, i + 1) /\ Cell(S[l], l, i + 1) # S[l][i] /\ Len(S[l]) \in Nat
  BY Neighbours, ListOf
<1>2. /\ i = Len(S[l]) => Cell(S[l], l, i + 1) = l
      /\ i < Len(S[l]) => i + 1 \in 1 .. Len(S[l]) /\ Cell(S[l], l, i + 1) = S[l][i + 1]
  BY <1>1 DEF Cell
<1>3. i = Len(S[l]) \/ i < Len(S[l])
  BY <1>1
<1>. QED BY <1>1, <1>2, <1>3

\* foreach: the loop begins.
LEMMA ForeachKeeps ==
    ASSUME list!ListAssumption, ListInv, NEW l \in Heads, list!foreach(l)
    PROVE  ListInv' /\ UNCHANGED <<list!seqs, popped>>
<1>1. next' = next /\ prev' = prev /\ popped' = popped
  BY DEF list!foreach, list!ptrVars
<1>2. Represents(next, prev, list!seqs) /\ list!TypeOK
  BY DEF ListInv
<1>3. list!seqs' = list!seqs
  BY <1>1, <1>2, SeqsAre
<1>4. Represents(next', prev', list!seqs')
  BY <1>1, <1>2, <1>3
<1>5. PICK q \in Seq(Elems) : q = list!seqs[l]
  BY <1>2, ListOf
<1>6. start' = q /\ Len(q) \in Nat
  BY <1>5 DEF list!foreach, list!seqs
<1>7. \A i, j \in 1 .. Len(q) : q[i] = q[j] => i = j
  BY <1>2, <1>5, ListOf
<1>8. CASE next[l] = l
  <2>1. loop' = NoCell /\ elem' = NoCell /\ saved' = NoCell /\ visited' = <<>>
    BY <1>8 DEF list!foreach, list!Enter
  <2>2. q = <<>>
    BY <1>2, <1>5, <1>8, FirstCell
  <2>3. list!TypeOK'
    BY <1>1, <1>2, <1>6, <2>1 DEF list!TypeOK
  <2>4. LoopInv'
    BY <1>6, <2>1, <2>2 DEF LoopInv, SeenAll
  <2>. QED BY <1>1, <1>3, <1>4, <2>3, <2>4 DEF ListInv
<1>9. CASE next[l] # l
  <2>1. /\ loop' = l /\ elem' = next[l] /\ saved' = next[next[l]]
        /\ visited' = Append(<<>>, next[l])
    BY <1>9 DEF list!foreach, list!Enter, list!SaveNext
  <2>2. next[l] = Cell(q, l, 1) /\ q # <<>>
    BY <1>2, <1>5, <1>9, FirstCell
  <2>3. 1 \in 1 .. Len(q) /\ next[l] = q[1] /\ q[1] \in Elems /\ Len(q) > 0
    BY <1>6, <2>2 DEF Cell
  <2>4. /\ next[q[1]] # q[1]
        /\ next[q[1]] = l \/ \E j \in 1 .. Len(q) : q[j] = next[q[1]]
        /\ 1 = Len(q) => next[q[1]] = l
        /\ 1 < Len(q) => next[q[1]] = q[2]
    BY <1>2, <1>5, <2>3, NextIn
  <2>5. visited' = <<q[1]>> /\ Len(visited') = 1 /\ visited'[1] = q[1] /\ visited' \in Seq(Elems)
    BY <2>1, <2>3
  <2>6. next[q[1]] \in list!Cells \cup {NoCell} /\ q[1] \in list!Cells /\ l # NoCell
    BY <1>2, <2>3, ListConstants DEF list!TypeOK
  <2>7. list!TypeOK'
    BY <1>1, <1>2, <1>6, <2>1, <2>3, <2>5, <2>6 DEF list!TypeOK
  <2>8. CASE Len(q) = 1
    <3>1. SeenAll'
      BY <1>6, <2>5, <2>8 DEF SeenAll
    <3>2. LoopInv'
      BY <1>3, <1>5, <1>6, <1>7, <2>1, <2>3, <2>4, <2>5, <2>6, <3>1 DEF LoopInv
    <3>. QED BY <1>1, <1>3, <1>4, <2>7, <3>2 DEF ListInv
  <2>9. CASE Len(q) > 1
    <3>1. ASSUME NEW i \in 2 .. Len(q) - 1 PROVE next[q[i]] = q[i + 1]
      <4>1. i \in 1 .. Len(q) /\ i < Len(q)
        BY <1>6
      <4>. QED BY <1>2, <1>5, <4>1, NextIn
    <3>2. Ahead'
      BY <1>1, <1>6, <2>1, <2>3, <2>4, <2>5, <2>9, <3>1 DEF Ahead
    <3>3. LoopInv'
      BY <1>3, <1>5, <1>6, <1>7, <2>1, <2>3, <2>4, <2>5, <2>6, <3>2 DEF LoopInv
    <3>. QED BY <1>1, <1>3, <1>4, <2>7, <3>3 DEF ListInv
  <2>10. Len(q) = 1 \/ Len(q) > 1
    <3>1. \A i \in Nat : i > 0 => i = 1 \/ i > 1
      OBVIOUS
    <3>. QED BY <1>6, <2>3, <3>1, Zenon
  <2>. QED BY <2>8, <2>9, <2>10
<1>. QED BY <1>8, <1>9

\* foreach_next: the loop goes on to the cell it has saved.
LEMMA ForeachNextKeeps ==
    ASSUME list!ListAssumption, ListInv, list!foreach_next
    PROVE  ListInv' /\ UNCHANGED <<list!seqs, popped>>
<1>1. next' = next /\ prev' = prev /\ popped' = popped /\ start' = start /\ loop # NoCell
  BY DEF list!foreach_next, list!ptrVars
<1>2. Represents(next, prev, list!seqs) /\ list!TypeOK /\ LoopInv
  BY DEF ListInv
<1>3. list!seqs' = list!seqs
  BY <1>1, <1>2, SeqsAre
<1>4. Represents(next', prev', list!seqs')
  BY <1>1, <1>2, <1>3
<1>5. PICK l \in Heads : l = loop
  BY <1>1, <1>2 DEF list!TypeOK
<1>6. /\ elem \in Elems /\ Len(visited) > 0
      /\ saved # elem /\ (saved = l \/ \E i \in 1 .. Len(list!seqs[l]) : list!seqs[l][i] = saved)
      /\ SeenAll \/ Ahead
      /\ \A i, j \in 1 .. Len(start) : start[i] = start[j] => i = j
  BY <1>1, <1>2, <1>5 DEF LoopInv
<1>7. start \in Seq(Elems) /\ Len(start) \in Nat /\ visited \in Seq(Elems) /\ Len(visited) \in Nat
  BY <1>2 DEF list!TypeOK
<1>8. l \notin Elems /\ l # NoCell
  BY ListConstants
<1>9. CASE saved = l
  <2>1. loop' = NoCell /\ elem' = NoCell /\ saved' = NoCell /\ visited' = visited
    BY <1>5, <1>9 DEF list!foreach_next, list!Enter
  <2>2. ~Ahead
    BY <1>7, <1>8, <1>9 DEF Ahead
  <2>3. SeenAll'
    BY <1>1, <1>6, <2>1, <2>2 DEF SeenAll
  <2>4. list!TypeOK'
    BY <1>1, <1>2, <2>1 DEF list!TypeOK
  <2>5. LoopInv'
    BY <1>1, <1>6, <2>1, <2>3 DEF LoopInv
  <2>. QED BY <1>1, <1>3, <1>4, <2>4, <2>5 DEF ListInv
<1>10. CASE saved # l
  <2>1. /\ loop' = l /\ elem' = saved /\ saved' = next[saved] /\ visited' = Append(visited, saved)
    BY <1>5, <1>10 DEF list!foreach_next, list!Enter, list!SaveNext
  <2>2. PICK i \in 1 .. Len(list!seqs[l]) : list!seqs[l][i] = saved
    BY <1>6, <1>10
  <2>3. saved \in Elems /\ saved \in list!Cells
    BY <1>2, <2>2, ListOf, ListConstants
  <2>4. next[saved] # saved /\ (next[saved] = l \/ \E j \in 1 .. Len(list!seqs[l]) : list!seqs[l][j] = next[saved])
    BY <1>2, <2>2, NextIn
  <2>5. /\ visited' \in Seq(Elems) /\ Len(visited') = Len(visited) + 1
        /\ visited'[Len(visited) + 1] = saved
        /\ \A j \in 1 .. Len(visited) : visited'[j] = visited[j]
    BY <1>7, <2>1, <2>3
  <2>6. next[saved] \in list!Cells \cup {NoCell}
    BY <1>2, <2>3 DEF list!TypeOK
  <2>7. list!TypeOK'
    BY <1>1, <1>2, <2>1, <2>3, <2>5, <2>6 DEF list!TypeOK
  <2>8. SeenAll' \/ Ahead'
    <3>1. CASE SeenAll
      BY <1>1, <1>7, <2>5, <3>1 DEF SeenAll
    <3>2. CASE Ahead
      <4>1. PICK v \in Nat : v = Len(visited)
        BY <1>7
      <4>2. /\ v < Len(start) /\ \A j \in 1 .. v : visited[j] = start[j]
            /\ saved = start[v + 1]
            /\ \A j \in v + 1 .. Len(start) - 1 : next[start[j]] = start[j + 1]
        BY <3>2, <4>1 DEF Ahead
      <4>3. Len(visited') = v + 1 /\ \A j \in 1 .. v + 1 : visited'[j] = start[j]
        <5>1. ASSUME NEW j \in 1 .. v + 1 PROVE visited'[j] = start[j]
          <6>1. j \in 1 .. v \/ j = v + 1
            OBVIOUS
          <6>. QED BY <2>5, <4>1, <4>2, <6>1
        <5>. QED BY <2>5, <4>1, <5>1
      <4>4. CASE v + 1 = Len(start)
        BY <1>1, <1>7, <4>3, <4>4 DEF SeenAll
      <4>5. CASE v + 1 < Len(start)
        <5>1. saved' = start[v + 2]
          BY <1>7, <2>1, <4>2, <4>5
        <5>2. \A j \in v + 2 .. Len(start) - 1 : next'[start'[j]] = start'[j + 1]
          BY <1>1, <1>7, <4>2
        <5>. QED BY <1>1, <4>3, <4>5, <5>1, <5>2 DEF Ahead
      <4>. QED BY <1>7, <4>2, <4>4, <4>5
    <3>. QED BY <1>6, <3>1, <3>2
  <2>9. LoopInv'
    BY <1>1, <1>3, <1>6, <1>7, <1>8, <2>1, <2>3, <2>4, <2>5, <2>8 DEF LoopInv
  <2>. QED BY <1>1, <1>3, <1>4, <2>7, <2>9 DEF ListInv
<1>. QED BY <1>9, <1>10

\* Without leaves the other members.
LEMMA WithoutKeeps ==
    ASSUME NEW q \in Seq(Elems), NEW x, \A i, j \in 1 .. Len(q) : q[i] = q[j] => i = j,
           NEW a \in 1 .. Len(q), q[a] # x
    PROVE  \E h \in 1 .. Len(list!Abstract!Without(q, x)) : list!Abstract!Without(q, x)[h] = q[a]
<1>1. CASE \A j \in 1 .. Len(q) : q[j] # x
  BY <1>1, WithoutOther
<1>2. ASSUME NEW i \in 1 .. Len(q), q[i] = x
      PROVE  \E h \in 1 .. Len(list!Abstract!Without(q, x)) : list!Abstract!Without(q, x)[h] = q[a]
  <2>1. PICK t : t = list!Abstract!Without(q, q[i])
    OBVIOUS
  <2>2. /\ Len(t) = Len(q) - 1
        /\ \A j \in 1 .. Len(q) - 1 : t[j] = IF j < i THEN q[j] ELSE q[j + 1]
    BY <2>1, WithoutMember
  <2>3. Len(q) \in Nat /\ a # i
    BY <1>2
  <2>4. CASE a < i
    <3>1. a \in 1 .. Len(t) /\ t[a] = q[a]
      BY <2>2, <2>3, <2>4
    <3>. QED BY <1>2, <2>1, <3>1
  <2>5. CASE a > i
    <3>1. a - 1 \in 1 .. Len(t) /\ t[a - 1] = q[a]
      BY <2>2, <2>3, <2>5
    <3>. QED BY <1>2, <2>1, <3>1
  <2>. QED BY <2>3, <2>4, <2>5
<1>. QED BY <1>1, <1>2

\* The neighbours of linked cells.
LEMMA Linked ==
    ASSUME list!ListAssumption, Represents(next, prev, list!seqs), NEW c \in list!Cells, next[c] # NoCell
    PROVE  next[prev[c]] = c /\ prev[c] \in list!Cells /\ next[c] \in list!Cells
<1>1. list!Symmetric
  BY RepresentsSymmetric
<1>2. prev[c] # NoCell /\ next[prev[c]] = c
  BY <1>1 DEF list!Symmetric
<1>. QED BY <1>2 DEF Represents

\* A step of list_remove is one of the abstract lists, and only elements next to e have
\* other pointers.
LEMMA RemoveStep ==
    ASSUME list!ListAssumption, Represents(next, prev, list!seqs), NEW e \in Elems, list!list_remove(e)
    PROVE  /\ Represents(next', prev', list!seqs') /\ popped' = popped
           /\ [list!Abstract!Next]_<<list!seqs, popped>>
           /\ \A l \in Heads : \A i \in 1 .. Len(list!seqs[l]) :
                  list!seqs[l][i] # e => \E j \in 1 .. Len(list!seqs'[l]) : list!seqs'[l][j] = list!seqs[l][i]
           /\ \A c, d \in Elems : c # e /\ d # e /\ next[c] = d => next'[c] = d
<1>1. popped' = popped
  BY DEF list!list_remove
<1>2. CASE next[e] = NoCell
  <2>1. next' = next /\ prev' = prev
    BY <1>2 DEF list!list_remove, list!list_is_linked, list!ptrVars
  <2>2. list!seqs' = list!seqs
    BY <2>1, SeqsAre
  <2>3. Represents(next', prev', list!seqs')
    BY <2>1, <2>2
  <2>. QED BY <1>1, <2>1, <2>2, <2>3
<1>3. CASE next[e] # NoCell
  <2>1. next' = list!Nullified(list!Unlink(e).nx, e) /\ prev' = list!Nullified(list!Unlink(e).pv, e)
    BY <1>3 DEF list!list_remove, list!list_is_linked
  <2>2. /\ next' = [[next EXCEPT ![prev[e]] = next[e]] EXCEPT ![e] = NoCell]
        /\ Represents(next', prev', list!seqs')
        /\ list!seqs' = [l \in Heads |-> list!Abstract!Without(list!seqs[l], e)]
    BY <1>3, <2>1, Removed
  <2>3. list!Abstract!Next
    BY <1>1, <2>2 DEF list!Abstract!Next, list!Abstract!Remove
  <2>4. ASSUME NEW l \in Heads, NEW i \in 1 .. Len(list!seqs[l]), list!seqs[l][i] # e
        PROVE  \E j \in 1 .. Len(list!seqs'[l]) : list!seqs'[l][j] = list!seqs[l][i]
    <3>1. list!seqs'[l] = list!Abstract!Without(list!seqs[l], e)
      BY <2>2
    <3>2. /\ list!seqs[l] \in Seq(Elems)
          /\ \A a, b \in 1 .. Len(list!seqs[l]) : list!seqs[l][a] = list!seqs[l][b] => a = b
      BY ListOf
    <3>. QED BY <2>4, <3>1, <3>2, WithoutKeeps, SMTT(30)
  <2>5. ASSUME NEW c \in Elems, NEW d \in Elems, c # e, d # e, next[c] = d PROVE next'[c] = d
    <3>1. next[prev[e]] = e /\ e \in list!Cells /\ c \in list!Cells
      BY <1>3, Linked, ListConstants
    <3>2. c # prev[e] /\ next \in [list!Cells -> list!Cells \cup {NoCell}]
      BY <2>5, <3>1 DEF Represents
    <3>. QED BY <2>2, <2>5, <3>1, <3>2
  <2>. QED BY <1>1, <2>2, <2>3, <2>4, <2>5
<1>. QED BY <1>2, <1>3

LEMMA PushStep ==
    ASSUME list!ListAssumption, Represents(next, prev, list!seqs), NEW k \in Heads, NEW e \in Elems,
           list!list_push_back(k, e)
    PROVE  /\ Represents(next', prev', list!seqs') /\ popped' = popped
           /\ list!Abstract!Next
           /\ \A l \in Heads : \A i \in 1 .. Len(list!seqs[l]) :
                  \E j \in 1 .. Len(list!seqs'[l]) : list!seqs'[l][j] = list!seqs[l][i]
           /\ \A c, d \in Elems : next[c] = d => next'[c] = d
<1>1. /\ InNone(list!seqs, e) /\ next[e] = NoCell
      /\ next' = [next EXCEPT ![e] = k, ![prev[k]] = e]
      /\ Represents(next', prev', list!seqs') /\ list!seqs' = [list!seqs EXCEPT ![k] = Append(list!seqs[k], e)]
      /\ popped' = popped
  BY Pushed
<1>2. ~list!Abstract!Linked(e)
  <2>1. ASSUME NEW l \in Heads, NEW i \in DOMAIN list!seqs[l], list!seqs[l][i] = e PROVE FALSE
    <3>1. i \in 1 .. Len(list!seqs[l])
      <4>1. list!seqs[l] \in Seq(Elems)
        BY ListOf
      <4>. QED BY <4>1
    <3>. QED BY <1>1, <2>1, <3>1 DEF InNone
  <2>. QED BY <2>1 DEF list!Abstract!Linked
<1>3. list!Abstract!Push(k, e)
  BY <1>1, <1>2 DEF list!Abstract!Push
<1>4. list!Abstract!Next
  BY <1>3 DEF list!Abstract!Next
<1>5. ASSUME NEW l \in Heads, NEW i \in 1 .. Len(list!seqs[l])
      PROVE  \E j \in 1 .. Len(list!seqs'[l]) : list!seqs'[l][j] = list!seqs[l][i]
  <2>1. list!seqs \in [Heads -> Seq(Elems)]
    BY DEF Represents
  <2>2. CASE l = k
    <3>1. PICK q \in Seq(Elems) : q = list!seqs[k]
      BY <2>1
    <3>2. list!seqs'[l] = Append(q, e)
      BY <1>1, <2>1, <2>2, <3>1
    <3>3. i \in 1 .. Len(Append(q, e)) /\ Append(q, e)[i] = q[i]
      BY <2>2, <3>1
    <3>. QED BY <2>2, <3>1, <3>2, <3>3
  <2>3. CASE l # k
    BY <1>1, <2>1, <2>3
  <2>. QED BY <2>2, <2>3
<1>6. ASSUME NEW c \in Elems, NEW d \in Elems, next[c] = d PROVE next'[c] = d
  <2>1. d # NoCell /\ d # k /\ c \in list!Cells /\ k \in list!Cells
    BY ListConstants
  <2>2. next[k] # NoCell
    <3>1. next[k] = Cell(list!seqs[k], k, 1)
      BY FirstCell
    <3>. QED BY <3>1, CellIn
  <2>3. next[prev[k]] = k
    BY <2>1, <2>2, Linked
  <2>4. c # e /\ c # prev[k] /\ next \in [list!Cells -> list!Cells \cup {NoCell}]
    BY <1>1, <1>6, <2>1, <2>3 DEF Represents
  <2>. QED BY <1>1, <1>6, <2>1, <2>4
<1>. QED BY <1>1, <1>4, <1>5, <1>6

LEMMA BodyKeeps ==
    ASSUME list!ListAssumption, ListInv, list!body
    PROVE  ListInv' /\ [list!Abstract!Next]_<<list!seqs, popped>>
<1>1. loop # NoCell /\ UNCHANGED list!loopVars
  BY DEF list!body
<1>2. Represents(next, prev, list!seqs) /\ list!TypeOK /\ elem \in Elems /\ loop \in Heads
  BY <1>1 DEF ListInv, LoopInv, list!TypeOK
<1>3. ASSUME Represents(next', prev', list!seqs'), popped' = popped PROVE list!TypeOK'
  BY <1>1, <1>2, <1>3 DEF list!TypeOK, Represents, list!loopVars
<1>4. CASE list!list_remove(elem)
  <2>1. /\ Represents(next', prev', list!seqs') /\ popped' = popped
        /\ [list!Abstract!Next]_<<list!seqs, popped>>
        /\ \A i \in 1 .. Len(list!seqs[loop]) :
               list!seqs[loop][i] # elem => \E j \in 1 .. Len(list!seqs'[loop]) : list!seqs'[loop][j] = list!seqs[loop][i]
        /\ \A c, d \in Elems : c # elem /\ d # elem /\ next[c] = d => next'[c] = d
    BY <1>2, <1>4, RemoveStep
  <2>2. LoopInv'
    BY <1>1, <2>1, LoopKept
  <2>. QED BY <1>3, <2>1, <2>2 DEF ListInv
<1>5. ASSUME NEW e \in Elems, NEW l \in Heads, list!list_push_back(l, e)
      PROVE  ListInv' /\ [list!Abstract!Next]_<<list!seqs, popped>>
  <2>1. /\ Represents(next', prev', list!seqs') /\ popped' = popped
        /\ list!Abstract!Next
        /\ \A i \in 1 .. Len(list!seqs[loop]) : \E j \in 1 .. Len(list!seqs'[loop]) : list!seqs'[loop][j] = list!seqs[loop][i]
        /\ \A c, d \in Elems : next[c] = d => next'[c] = d
    BY <1>2, <1>5, PushStep
  <2>2. LoopInv'
    BY <1>1, <2>1, LoopKept
  <2>. QED BY <1>3, <2>1, <2>2 DEF ListInv
<1>. QED BY <1>4, <1>5 DEF list!body

LEMMA OutsideKeeps ==
    ASSUME list!ListAssumption, ListInv, list!outside
    PROVE  ListInv' /\ [list!Abstract!Next]_<<list!seqs, popped>>
<1>1. loop = NoCell /\ UNCHANGED list!loopVars
  BY DEF list!outside
<1>2. Represents(next, prev, list!seqs) /\ list!TypeOK /\ LoopInv
  BY DEF ListInv
<1>3. LoopInv'
  BY <1>1, <1>2 DEF LoopInv, SeenAll, list!loopVars
<1>4. ASSUME Represents(next', prev', list!seqs'), popped' \in Elems \cup {NoCell} PROVE ListInv'
  <2>1. list!TypeOK'
    BY <1>1, <1>2, <1>4 DEF list!TypeOK, Represents, list!loopVars
  <2>. QED BY <1>3, <1>4, <2>1 DEF ListInv
<1>5. popped \in Elems \cup {NoCell}
  BY <1>2 DEF list!TypeOK
<1>6. ASSUME NEW e \in Elems, list!list_remove(e)
      PROVE  ListInv' /\ [list!Abstract!Next]_<<list!seqs, popped>>
  BY <1>2, <1>4, <1>5, <1>6, RemoveStep
<1>7. ASSUME NEW l \in Heads, NEW e \in Elems, list!list_push_back(l, e)
      PROVE  ListInv' /\ [list!Abstract!Next]_<<list!seqs, popped>>
  BY <1>2, <1>4, <1>5, <1>7, PushStep
<1>8. ASSUME NEW l \in Heads, list!list_pop_front(l)
      PROVE  ListInv' /\ [list!Abstract!Next]_<<list!seqs, popped>>
  <2>1. CASE next[l] = l
    <3>1. popped' = NoCell /\ next' = next /\ prev' = prev
      BY <1>8, <2>1 DEF list!list_pop_front, list!ptrVars
    <3>2. list!seqs' = list!seqs
      BY <1>2, <3>1, SeqsAre
    <3>3. Represents(next', prev', list!seqs')
      BY <1>2, <3>1, <3>2
    <3>4. list!seqs[l] = <<>>
      BY <1>2, <2>1, FirstCell
    <3>5. list!Abstract!Pop(l)
      BY <3>1, <3>2, <3>4 DEF list!Abstract!Pop
    <3>. QED BY <1>4, <3>1, <3>3, <3>5 DEF list!Abstract!Next
  <2>2. CASE next[l] # l
    <3>1. /\ Represents(next', prev', list!seqs') /\ list!seqs[l] # <<>>
          /\ popped' = Head(list!seqs[l]) /\ list!seqs' = [list!seqs EXCEPT ![l] = Tail(list!seqs[l])]
          /\ popped' \in Elems
      BY <1>2, <1>8, <2>2, Popped
    <3>2. list!Abstract!Pop(l)
      BY <3>1 DEF list!Abstract!Pop
    <3>. QED BY <1>4, <3>1, <3>2 DEF list!Abstract!Next
  <2>. QED BY <2>1, <2>2
<1>. QED BY <1>6, <1>7, <1>8 DEF list!outside

LEMMA NextLists ==
    ASSUME list!ListAssumption, ListInv, [list!Next]_(list!vars)
    PROVE  ListInv' /\ [list!Abstract!Next]_<<list!seqs, popped>>
<1>1. CASE list!foreach_next
  BY <1>1, ForeachNextKeeps
<1>2. CASE list!body
  BY <1>2, BodyKeeps
<1>3. CASE list!outside
  BY <1>3, OutsideKeeps
<1>4. ASSUME NEW l \in Heads, list!foreach(l)
      PROVE  ListInv' /\ [list!Abstract!Next]_<<list!seqs, popped>>
  BY <1>4, ForeachKeeps
<1>5. CASE UNCHANGED list!vars
  <2>1. /\ next' = next /\ prev' = prev /\ popped' = popped /\ loop' = loop /\ elem' = elem
        /\ saved' = saved /\ start' = start /\ visited' = visited
    BY <1>5 DEF list!vars, list!ptrVars, list!loopVars
  <2>2. list!seqs' = list!seqs
    BY <2>1, SeqsAre DEF ListInv
  <2>. QED BY <2>1, <2>2 DEF ListInv, list!TypeOK, LoopInv, SeenAll, Ahead
<1>. QED BY <1>1, <1>2, <1>3, <1>4, <1>5 DEF list!Next

\* The invariant says that the lists are symmetric and that a loop that has ended saw all.
LEMMA ListInvSays ==
    ASSUME list!ListAssumption, ListInv
    PROVE  list!TypeOK /\ list!Symmetric /\ list!ForEachSeesAll
<1>1. list!Symmetric /\ list!TypeOK
  BY RepresentsSymmetric DEF ListInv
<1>2. ASSUME loop = NoCell PROVE list!IsPrefix(start, visited)
  <2>1. start \in Seq(Elems) /\ visited \in Seq(Elems)
    BY <1>1 DEF list!TypeOK
  <2>2. Len(start) =< Len(visited) /\ \A i \in 1 .. Len(start) : visited[i] = start[i]
    BY <1>2 DEF ListInv, LoopInv, SeenAll
  <2>3. SubSeq(start, 1, Len(start)) = SubSeq(visited, 1, Len(start))
    BY <2>1, <2>2
  <2>. QED BY <2>2, <2>3 DEF list!IsPrefix
<1>. QED BY <1>1, <1>2 DEF list!ForEachSeesAll

LEMMA InitSequences == ASSUME list!ListAssumption PROVE list!Init => list!Abstract!Init
<1>1. list!Init => list!seqs = [l \in Heads |-> <<>>]
  BY InitRepresents, SeqsAre
<1>. QED BY <1>1 DEF list!Abstract!Init, list!Init

\* libs/common/list.c: for any heads and elements the pointers implement sequences in which an
\* element is at most once; neighbours point at each other, and LIST_FOR_EACH sees every member
\* although its body removes them.
THEOREM ListsImplemented ==
    ASSUME list!ListAssumption
    PROVE  list!Spec => /\ list!ImplementsLists
                        /\ [](list!TypeOK /\ list!Symmetric /\ list!ForEachSeesAll)
<1>1. list!Init => ListInv /\ list!Abstract!Init
  BY InitLists, InitSequences
<1>2. ListInv /\ [list!Next]_(list!vars) => ListInv' /\ [list!Abstract!Next]_<<list!seqs, popped>>
  BY NextLists
<1>3. ListInv => list!TypeOK /\ list!Symmetric /\ list!ForEachSeesAll
  BY ListInvSays
<1>. QED BY <1>1, <1>2, <1>3, PTL DEF list!Spec, list!ImplementsLists, list!Abstract!Spec

-----------------------------------------------------------------------------
(* The heap.                                                               *)

\* Rounding up to the allocation unit.
LEMMA RoundUp ==
    ASSUME NEW n \in Nat, NEW d \in Nat \ {0}
    PROVE  ((n + d - 1) \div d) * d \in Nat /\ ((n + d - 1) \div d) * d >= n
<1>1. PICK q : q = (n + d - 1) \div d
  OBVIOUS
<1>2. q \in Int /\ n + d - 1 \in Nat
  BY <1>1
<1>3. d * q =< n + d - 1 /\ n + d - 1 < d * q + d
  BY <1>1
<1>4. q * d = d * q /\ d * q \in Int
  BY <1>2
<1>. QED BY <1>1, <1>3, <1>4

\* The headers of chunks.
Headers == [capacity : 1 .. HeapSize, size : 0 .. HeapSize, magic : {"FREE", "IN_USE"}]

\* Where chunk a of cs ends.
End(cs, a) == a + Hdr + cs[a].capacity

\* Element x is in the sequence s.
Among(s, x) == \E i \in 1 .. Len(s) : s[i] = x

\* The chunks cs tile the heap.
TiledBy(cs) ==
    \A a \in DOMAIN cs : /\ End(cs, a) = HeapSize \/ End(cs, a) \in DOMAIN cs
                         /\ \A b \in DOMAIN cs : a < b => End(cs, a) =< b

\* The sequence fl lists the free chunks of cs once.
FreeIn(cs, fl) ==
    /\ fl \in Seq(heap!Addresses)
    /\ \A i \in 1 .. Len(fl) : fl[i] \in DOMAIN cs /\ cs[fl[i]].magic = "FREE"
    /\ \A a \in DOMAIN cs : cs[a].magic = "FREE" => Among(fl, a)
    /\ \A i, j \in 1 .. Len(fl) : fl[i] = fl[j] => i = j

\* Chunks and a free list that belong together.
HeapIs(cs, fl) ==
    /\ DOMAIN cs \subseteq heap!Addresses /\ cs \in [DOMAIN cs -> Headers]
    /\ TiledBy(cs) /\ FreeIn(cs, fl)

\* The pointers of the program.
PointersIn(cs, pt, ln) ==
    /\ pt \in [Pointers -> heap!Addresses \cup {heap!Null}] /\ ln \in [Pointers -> Nat]
    /\ \A p \in Pointers : pt[p] # heap!Null => /\ pt[p] \in DOMAIN cs /\ cs[pt[p]].magic = "IN_USE"
                                                /\ ln[p] =< cs[pt[p]].capacity
    /\ \A p, q \in Pointers : pt[p] = pt[q] /\ pt[p] # heap!Null => p = q

HeapInv ==
    /\ HeapIs(chunks, free_chunks) /\ PointersIn(chunks, ptr, len)
    /\ lost \in BOOLEAN /\ panicked \in BOOLEAN

\* What is used of the constants.
LEMMA HeapConstants ==
    ASSUME heap!HeapAssumption
    PROVE  /\ Align \in Nat \ {0} /\ Hdr \in Nat \ {0} /\ HeapSize \in Nat /\ HeapSize > Hdr
           /\ Sizes \subseteq Nat /\ \A a \in heap!Addresses : a \in Nat /\ a < HeapSize /\ a # heap!Null
  BY DEF heap!HeapAssumption, heap!Addresses, heap!Null

LEMMA AlignedUp ==
    ASSUME heap!HeapAssumption, NEW n \in Nat
    PROVE  heap!Aligned(n) \in Nat /\ heap!Aligned(n) >= n /\ heap!Aligned(n) >= 1
<1>1. PICK k \in Nat : k = (IF n = 0 THEN 1 ELSE n) /\ k >= n /\ k >= 1
  OBVIOUS
<1>2. heap!Aligned(n) = ((k + Align - 1) \div Align) * Align
  BY <1>1 DEF heap!Aligned
<1>3. ((k + Align - 1) \div Align) * Align \in Nat /\ ((k + Align - 1) \div Align) * Align >= k
  BY HeapConstants, RoundUp
<1>4. PICK r \in Nat : r = ((k + Align - 1) \div Align) * Align
  BY <1>3
<1>5. heap!Aligned(n) = r /\ r >= k
  BY <1>2, <1>3, <1>4
<1>. QED BY <1>1, <1>5

\* Numbers of a chunk.
LEMMA ChunkOf ==
    ASSUME heap!HeapAssumption, NEW cs, NEW fl, HeapIs(cs, fl), NEW a \in DOMAIN cs
    PROVE  /\ a \in Nat /\ a < HeapSize /\ a \in heap!Addresses
           /\ cs[a] \in Headers /\ cs[a].capacity \in Nat /\ cs[a].capacity >= 1 /\ cs[a].capacity =< HeapSize
           /\ cs[a].size \in 0 .. HeapSize /\ cs[a].magic \in {"FREE", "IN_USE"}
           /\ End(cs, a) \in Nat /\ End(cs, a) =< HeapSize /\ End(cs, a) > a
<1>1. a \in Nat /\ a < HeapSize /\ a \in heap!Addresses /\ HeapSize \in Nat /\ Hdr \in Nat
  BY HeapConstants DEF HeapIs
<1>2. cs[a] \in Headers
  BY DEF HeapIs
<1>3. cs[a].capacity \in 1 .. HeapSize /\ cs[a].size \in 0 .. HeapSize /\ cs[a].magic \in {"FREE", "IN_USE"}
  BY <1>2 DEF Headers
<1>4. End(cs, a) \in Nat /\ End(cs, a) > a
  BY <1>1, <1>3 DEF End
<1>5. End(cs, a) = HeapSize \/ End(cs, a) \in DOMAIN cs
  BY DEF HeapIs, TiledBy
<1>6. End(cs, a) =< HeapSize
  BY <1>1, <1>5, HeapConstants DEF HeapIs
<1>. QED BY <1>1, <1>2, <1>3, <1>4, <1>6

\* Without leaves the other members, each once.
LEMMA WithoutOnce ==
    ASSUME NEW S, NEW s \in Seq(S), NEW x, Among(s, x), \A i, j \in 1 .. Len(s) : s[i] = s[j] => i = j
    PROVE  /\ heap!Without(s, x) \in Seq(S)
           /\ \A i \in 1 .. Len(heap!Without(s, x)) : Among(s, heap!Without(s, x)[i]) /\ heap!Without(s, x)[i] # x
           /\ \A y : Among(s, y) /\ y # x => Among(heap!Without(s, x), y)
           /\ \A i, j \in 1 .. Len(heap!Without(s, x)) : heap!Without(s, x)[i] = heap!Without(s, x)[j] => i = j
<1>1. PICK k \in 1 .. Len(s) : s[k] = x
  BY DEF Among
<1>2. Len(s) \in Nat /\ DOMAIN s = 1 .. Len(s)
  OBVIOUS
<1>. DEFINE a == SubSeq(s, 1, k - 1)
            b == SubSeq(s, k + 1, Len(s))
<1>3. (CHOOSE j \in DOMAIN s : s[j] = x) = k
  BY <1>1, <1>2
<1>4. x \in heap!Range(s)
  BY <1>1, <1>2, Zenon DEF heap!Range
<1>5. heap!Without(s, x) = a \o b
  BY <1>3, <1>4, Zenon DEF heap!Without
<1>6. a \in Seq(S) /\ Len(a) = k - 1 /\ \A j \in 1 .. k - 1 : a[j] = s[j]
  BY <1>2
<1>7. b \in Seq(S) /\ Len(b) = Len(s) - k /\ \A j \in 1 .. Len(s) - k : b[j] = s[k + j]
  <2>1. b = [j \in 1 .. (1 + Len(s) - (k + 1)) |-> s[(k + 1) + j - 1]]
    OBVIOUS
  <2>2. (1 + Len(s) - (k + 1)) = Len(s) - k /\ Len(s) - k \in Nat
    BY <1>2
  <2>3. \A j \in 1 .. Len(s) - k : (k + 1) + j - 1 = k + j /\ k + j \in 1 .. Len(s) /\ s[k + j] \in S
    BY <1>2
  <2>. HIDE DEF b
  <2>4. b = [j \in 1 .. Len(s) - k |-> s[k + j]]
    BY <2>1, <2>2, <2>3
  <2>5. b \in [1 .. Len(s) - k -> S]
    BY <2>3, <2>4
  <2>. QED BY <2>2, <2>4, <2>5
<1>. HIDE DEF a, b
<1>8. PICK t : t = a \o b
  OBVIOUS
<1>9. t \in Seq(S) /\ Len(t) = Len(s) - 1
  <2>1. t \in Seq(S) /\ Len(t) = Len(a) + Len(b)
    BY <1>6, <1>7, <1>8, ConcatProperties, ZenonT(40)
  <2>. QED BY <1>2, <1>6, <1>7, <2>1
<1>10. ASSUME NEW j \in 1 .. Len(t)
       PROVE  t[j] = IF j < k THEN s[j] ELSE s[j + 1]
  <2>1. t[j] = IF j =< Len(a) THEN a[j] ELSE b[j - Len(a)]
    BY <1>2, <1>6, <1>7, <1>8, <1>9
  <2>2. CASE j < k
    BY <1>2, <1>6, <2>1, <2>2
  <2>3. CASE ~(j < k)
    <3>1. j - (k - 1) \in 1 .. Len(s) - k /\ k + (j - (k - 1)) = j + 1
      BY <1>2, <1>9, <2>3
    <3>2. b[j - (k - 1)] = s[j + 1]
      BY <1>7, <3>1
    <3>3. ~(j =< Len(a))
      BY <1>2, <1>6, <1>9, <2>3
    <3>. QED BY <1>6, <2>1, <2>3, <3>2, <3>3
  <2>. QED BY <2>2, <2>3
<1>11. ASSUME NEW i \in 1 .. Len(t) PROVE Among(s, t[i]) /\ t[i] # x
  <2>1. CASE i < k
    <3>1. i \in 1 .. Len(s) /\ t[i] = s[i] /\ i # k
      BY <1>2, <1>9, <1>10, <2>1
    <3>. QED BY <1>1, <3>1 DEF Among
  <2>2. CASE ~(i < k)
    <3>1. i + 1 \in 1 .. Len(s) /\ t[i] = s[i + 1] /\ i + 1 # k
      BY <1>2, <1>9, <1>10, <2>2
    <3>. QED BY <1>1, <3>1 DEF Among
  <2>. QED BY <2>1, <2>2
<1>12. ASSUME NEW y, Among(s, y), y # x PROVE Among(t, y)
  <2>1. PICK i \in 1 .. Len(s) : s[i] = y
    BY <1>12 DEF Among
  <2>2. i # k
    BY <1>1, <1>12, <2>1
  <2>3. CASE i < k
    <3>1. i \in 1 .. Len(t) /\ t[i] = s[i]
      BY <1>2, <1>9, <1>10, <2>3
    <3>. QED BY <2>1, <3>1 DEF Among
  <2>4. CASE i > k
    <3>1. i - 1 \in 1 .. Len(t) /\ ~(i - 1 < k) /\ (i - 1) + 1 = i
      BY <1>2, <1>9, <2>4
    <3>2. t[i - 1] = s[i]
      BY <1>10, <3>1
    <3>. QED BY <2>1, <3>1, <3>2 DEF Among
  <2>. QED BY <2>2, <2>3, <2>4
<1>13. ASSUME NEW i \in 1 .. Len(t), NEW j \in 1 .. Len(t), t[i] = t[j] PROVE i = j
  <2>. DEFINE At(h) == IF h < k THEN h ELSE h + 1
  <2>1. ASSUME NEW h \in 1 .. Len(t) PROVE At(h) \in 1 .. Len(s) /\ t[h] = s[At(h)]
    BY <1>2, <1>9, <1>10
  <2>2. PICK c \in 1 .. Len(s) : c = At(i) /\ t[i] = s[c]
    BY <2>1
  <2>3. PICK d \in 1 .. Len(s) : d = At(j) /\ t[j] = s[d]
    BY <2>1
  <2>4. c = d
    BY <1>13, <2>2, <2>3
  <2>. QED BY <1>2, <1>9, <2>2, <2>3, <2>4
<1>. QED BY <1>5, <1>8, <1>9, <1>11, <1>12, <1>13

\* A chunk that is large enough is cut in two, or taken as it is.
LEMMA TakeKeeps ==
    ASSUME heap!HeapAssumption, HeapIs(chunks, free_chunks), NEW a, Among(free_chunks, a),
           NEW size \in Nat, size >= 1, heap!Fits(a, size)
    PROVE  /\ HeapIs(heap!Take(a, size).cs, heap!Take(a, size).fl)
           /\ a \in DOMAIN chunks /\ chunks[a].magic = "FREE"
           /\ DOMAIN chunks \subseteq DOMAIN heap!Take(a, size).cs
           /\ heap!Take(a, size).cs[a].magic = "IN_USE" /\ heap!Take(a, size).cs[a].capacity >= size
           /\ \A x \in DOMAIN chunks \ {a} : heap!Take(a, size).cs[x] = chunks[x]
<1>1. a \in DOMAIN chunks /\ chunks[a].magic = "FREE"
  BY DEF HeapIs, FreeIn, Among
<1>2. PICK c \in Nat : /\ c = chunks[a].capacity /\ c >= size /\ c >= 1 /\ c =< HeapSize
                       /\ a \in Nat /\ End(chunks, a) = a + Hdr + c /\ a + Hdr + c =< HeapSize
                       /\ a \in heap!Addresses
  BY <1>1, ChunkOf DEF heap!Fits, End
<1>3. Hdr \in Nat /\ Hdr >= 1 /\ Align \in Nat /\ Align >= 1 /\ HeapSize \in Nat
  BY HeapConstants
<1>4. PICK w : w = heap!Without(free_chunks, a)
  OBVIOUS
<1>5. /\ free_chunks \in Seq(heap!Addresses)
      /\ \A i \in 1 .. Len(free_chunks) : free_chunks[i] \in DOMAIN chunks /\ chunks[free_chunks[i]].magic = "FREE"
      /\ \A x \in DOMAIN chunks : chunks[x].magic = "FREE" => Among(free_chunks, x)
      /\ \A i, j \in 1 .. Len(free_chunks) : free_chunks[i] = free_chunks[j] => i = j
  BY DEF HeapIs, FreeIn
<1>6. /\ w \in Seq(heap!Addresses) /\ Len(w) \in Nat
      /\ \A i \in 1 .. Len(w) : Among(free_chunks, w[i]) /\ w[i] # a
      /\ \A y : Among(free_chunks, y) /\ y # a => Among(w, y)
      /\ \A i, j \in 1 .. Len(w) : w[i] = w[j] => i = j
  BY <1>4, <1>5, WithoutOnce
<1>7. \A i \in 1 .. Len(w) : w[i] \in DOMAIN chunks /\ chunks[w[i]].magic = "FREE" /\ w[i] # a
  BY <1>5, <1>6 DEF Among
<1>8. DOMAIN chunks \subseteq heap!Addresses /\ chunks \in [DOMAIN chunks -> Headers]
  BY DEF HeapIs
<1>9. \A x \in DOMAIN chunks :
          /\ End(chunks, x) = HeapSize \/ End(chunks, x) \in DOMAIN chunks
          /\ \A b \in DOMAIN chunks : x < b => End(chunks, x) =< b
  BY DEF HeapIs, TiledBy
<1>10. CASE heap!Splittable(a, size)
  <2>1. c >= size + Hdr + Align
    BY <1>2, <1>10 DEF heap!Splittable
  <2>2. PICK new \in Nat : new = a + Hdr + size
    BY <1>2, <1>3
  <2>3. new > a /\ new < a + Hdr + c /\ new \in heap!Addresses
    BY <1>2, <1>3, <2>1, <2>2 DEF heap!Addresses
  <2>4. new \notin DOMAIN chunks
    <3>1. SUFFICES ASSUME new \in DOMAIN chunks PROVE FALSE
      OBVIOUS
    <3>2. End(chunks, a) =< new
      BY <1>1, <1>9, <2>3, <3>1
    <3>. QED BY <1>2, <1>3, <2>3, <3>2
  <2>5. PICK cs : cs = heap!split(a, size)
    OBVIOUS
  <2>6. /\ DOMAIN cs = DOMAIN chunks \cup {new}
        /\ cs[a] = heap!Chunk(size, size, "IN_USE")
        /\ cs[new] = heap!Chunk(c - size - Hdr, 0, "FREE")
        /\ \A x \in DOMAIN chunks : x # a => cs[x] = chunks[x]
        /\ cs = [x \in DOMAIN cs |-> cs[x]]
    BY <1>1, <1>2, <2>2, <2>3, <2>4, <2>5 DEF heap!split
  <2>7. c - size - Hdr \in 1 .. HeapSize /\ size \in 1 .. HeapSize
    BY <1>2, <1>3, <2>1
  <2>8. cs[a] \in Headers /\ cs[new] \in Headers
    BY <1>3, <2>6, <2>7 DEF Headers, heap!Chunk
  <2>9. /\ cs[a].capacity = size /\ cs[a].magic = "IN_USE"
        /\ cs[new].capacity = c - size - Hdr /\ cs[new].magic = "FREE"
    BY <2>6 DEF heap!Chunk
  <2>10. cs \in [DOMAIN cs -> Headers]
    <3>1. \A x \in DOMAIN cs : cs[x] \in Headers
      BY <1>8, <2>6, <2>8
    <3>. QED BY <2>6, <3>1
  <2>11. TiledBy(cs)
    <3>1. End(cs, a) = new /\ End(cs, new) = End(chunks, a)
      BY <1>2, <1>3, <2>1, <2>2, <2>9 DEF End
    <3>2. \A x \in DOMAIN chunks : x # a => End(cs, x) = End(chunks, x)
      BY <2>6 DEF End
    <3>3. \A b \in DOMAIN chunks : b \in Nat /\ End(chunks, b) \in Nat /\ End(chunks, b) > b
      BY ChunkOf
    <3>4. \A b \in DOMAIN chunks : a < b => b >= a + Hdr + c
      BY <1>1, <1>2, <1>9
    <3>5. ASSUME NEW x \in DOMAIN cs
          PROVE  /\ End(cs, x) = HeapSize \/ End(cs, x) \in DOMAIN cs
                 /\ \A b \in DOMAIN cs : x < b => End(cs, x) =< b
      <4>1. CASE x = a
        <5>1. ASSUME NEW b \in DOMAIN cs, a < b PROVE new =< b
          <6>1. b = new \/ b \in DOMAIN chunks
            BY <2>6
          <6>. QED BY <1>2, <1>3, <2>3, <3>3, <3>4, <5>1, <6>1
        <5>. QED BY <2>6, <3>1, <4>1, <5>1
      <4>2. CASE x = new
        <5>1. ASSUME NEW b \in DOMAIN cs, new < b PROVE a + Hdr + c =< b
          <6>1. b \in DOMAIN chunks
            BY <2>2, <2>6, <5>1
          <6>2. b \in Nat /\ a < b
            BY <1>2, <2>3, <3>3, <5>1, <6>1
          <6>. QED BY <3>4, <6>1, <6>2
        <5>2. End(cs, x) = HeapSize \/ End(cs, x) \in DOMAIN cs
          BY <1>1, <1>9, <2>6, <3>1, <4>2
        <5>. QED BY <1>2, <3>1, <4>2, <5>1, <5>2
      <4>3. CASE x # a /\ x # new
        <5>1. x \in DOMAIN chunks /\ End(cs, x) = End(chunks, x)
          BY <2>6, <3>2, <4>3
        <5>2. ASSUME x < new PROVE End(chunks, x) =< new
          <6>1. x \in Nat /\ End(chunks, x) \in Nat
            BY <3>3, <5>1
          <6>2. ~(a < x)
            BY <1>2, <1>3, <2>3, <3>4, <5>1, <5>2, <6>1
          <6>3. x < a
            BY <1>2, <4>3, <6>1, <6>2
          <6>4. End(chunks, x) =< a
            BY <1>1, <1>9, <5>1, <6>3
          <6>. QED BY <1>2, <2>3, <6>1, <6>4
        <5>. QED BY <1>9, <2>6, <5>1, <5>2
      <4>. QED BY <4>1, <4>2, <4>3
    <3>. QED BY <3>5 DEF TiledBy
  <2>12. PICK fl : fl = Append(w, new)
    OBVIOUS
  <2>13. /\ fl \in Seq(heap!Addresses) /\ Len(fl) = Len(w) + 1 /\ fl[Len(w) + 1] = new
         /\ \A i \in 1 .. Len(w) : fl[i] = w[i]
    BY <1>6, <2>3, <2>12
  <2>14. FreeIn(cs, fl)
    <3>1. ASSUME NEW i \in 1 .. Len(fl)
          PROVE  /\ fl[i] \in DOMAIN cs /\ cs[fl[i]].magic = "FREE"
                 /\ \/ i = Len(w) + 1 /\ fl[i] = new
                    \/ i \in 1 .. Len(w) /\ fl[i] = w[i] /\ fl[i] # new
      <4>1. CASE i = Len(w) + 1
        BY <2>6, <2>9, <2>13, <4>1
      <4>2. CASE i # Len(w) + 1
        <5>1. i \in 1 .. Len(w) /\ fl[i] = w[i]
          BY <1>6, <2>13, <4>2
        <5>. QED BY <1>7, <2>4, <2>6, <5>1
      <4>. QED BY <4>1, <4>2
    <3>2. ASSUME NEW x \in DOMAIN cs, cs[x].magic = "FREE" PROVE Among(fl, x)
      <4>1. CASE x = new
        <5>1. Len(w) + 1 \in 1 .. Len(fl)
          BY <1>6, <2>13
        <5>. QED BY <2>13, <4>1, <5>1 DEF Among
      <4>2. CASE x # new
        <5>1. x \in DOMAIN chunks /\ x # a
          BY <2>6, <2>9, <3>2, <4>2
        <5>2. chunks[x].magic = "FREE"
          BY <2>6, <3>2, <5>1
        <5>3. Among(w, x)
          BY <1>5, <1>6, <5>1, <5>2
        <5>4. \A i \in 1 .. Len(w) : i \in 1 .. Len(fl)
          BY <1>6, <2>13
        <5>. QED BY <2>13, <5>3, <5>4 DEF Among
      <4>. QED BY <4>1, <4>2
    <3>3. \A i, j \in 1 .. Len(fl) : fl[i] = fl[j] => i = j
      BY <1>6, <3>1
    <3>. QED BY <2>13, <3>1, <3>2, <3>3 DEF FreeIn
  <2>15. HeapIs(cs, fl)
    BY <1>8, <2>3, <2>6, <2>10, <2>11, <2>14 DEF HeapIs
  <2>16. heap!Take(a, size).cs = cs /\ heap!Take(a, size).fl = fl
    BY <1>4, <1>10, <2>2, <2>5, <2>12 DEF heap!Take
  <2>. QED BY <1>1, <2>6, <2>9, <2>15, <2>16
<1>11. CASE ~heap!Splittable(a, size)
  <2>1. PICK cs : cs = [chunks EXCEPT ![a] = heap!Chunk(c, size, "IN_USE")]
    OBVIOUS
  <2>2. /\ DOMAIN cs = DOMAIN chunks /\ cs[a] = heap!Chunk(c, size, "IN_USE")
        /\ \A x \in DOMAIN chunks : x # a => cs[x] = chunks[x]
        /\ cs = [x \in DOMAIN cs |-> cs[x]]
    BY <1>1, <1>8, <2>1
  <2>3. cs[a] \in Headers
    <3>1. c \in 1 .. HeapSize /\ size \in 0 .. HeapSize
      BY <1>2, <1>3
    <3>. QED BY <2>2, <3>1 DEF Headers, heap!Chunk
  <2>4. cs[a].capacity = c /\ cs[a].magic = "IN_USE"
    BY <2>2 DEF heap!Chunk
  <2>5. cs \in [DOMAIN cs -> Headers]
    <3>1. \A x \in DOMAIN cs : cs[x] \in Headers
      BY <1>8, <2>2, <2>3
    <3>. QED BY <2>2, <3>1
  <2>6. TiledBy(cs)
    <3>1. \A x \in DOMAIN chunks : End(cs, x) = End(chunks, x)
      BY <1>2, <2>2, <2>4 DEF End
    <3>. QED BY <1>9, <2>2, <3>1 DEF TiledBy
  <2>7. FreeIn(cs, w)
    BY <1>5, <1>6, <1>7, <2>2, <2>4 DEF FreeIn
  <2>8. HeapIs(cs, w)
    BY <1>8, <2>2, <2>5, <2>6, <2>7 DEF HeapIs
  <2>9. heap!Take(a, size).cs = cs /\ heap!Take(a, size).fl = w
    BY <1>2, <1>4, <1>11, <2>1 DEF heap!Take
  <2>. QED BY <1>1, <1>2, <2>2, <2>4, <2>8, <2>9
<1>. QED BY <1>10, <1>11

\* A chunk that is given back joins the free list.
LEMMA ReleaseKeeps ==
    ASSUME heap!HeapAssumption, NEW cs, NEW fl, HeapIs(cs, fl), NEW a \in DOMAIN cs, cs[a].magic = "IN_USE"
    PROVE  /\ HeapIs(heap!Released(cs, a), Append(fl, a))
           /\ DOMAIN heap!Released(cs, a) = DOMAIN cs
           /\ \A x \in DOMAIN cs \ {a} : heap!Released(cs, a)[x] = cs[x]
<1>1. PICK rs : rs = heap!Released(cs, a)
  OBVIOUS
<1>2. DOMAIN cs \subseteq heap!Addresses /\ cs \in [DOMAIN cs -> Headers] /\ TiledBy(cs) /\ FreeIn(cs, fl)
  BY DEF HeapIs
<1>3. /\ DOMAIN rs = DOMAIN cs /\ rs[a] = [cs[a] EXCEPT !.magic = "FREE"]
      /\ \A x \in DOMAIN cs : x # a => rs[x] = cs[x]
      /\ rs = [x \in DOMAIN rs |-> rs[x]]
  BY <1>1, <1>2 DEF heap!Released
<1>4. cs[a] \in Headers
  BY <1>2
<1>5. rs[a] \in Headers /\ rs[a].magic = "FREE" /\ rs[a].capacity = cs[a].capacity
  BY <1>3, <1>4 DEF Headers
<1>6. rs \in [DOMAIN rs -> Headers]
  <2>1. \A x \in DOMAIN rs : rs[x] \in Headers
    BY <1>2, <1>3, <1>5
  <2>. QED BY <1>3, <2>1
<1>7. TiledBy(rs)
  <2>1. \A x \in DOMAIN cs : End(rs, x) = End(cs, x)
    BY <1>3, <1>5 DEF End
  <2>. QED BY <1>2, <1>3, <2>1 DEF TiledBy
<1>8. PICK gl : gl = Append(fl, a)
  OBVIOUS
<1>9. /\ fl \in Seq(heap!Addresses) /\ Len(fl) \in Nat
      /\ \A i \in 1 .. Len(fl) : fl[i] \in DOMAIN cs /\ cs[fl[i]].magic = "FREE"
      /\ \A x \in DOMAIN cs : cs[x].magic = "FREE" => Among(fl, x)
      /\ \A i, j \in 1 .. Len(fl) : fl[i] = fl[j] => i = j
  BY <1>2 DEF FreeIn
<1>10. /\ gl \in Seq(heap!Addresses) /\ Len(gl) = Len(fl) + 1 /\ gl[Len(fl) + 1] = a
       /\ \A i \in 1 .. Len(fl) : gl[i] = fl[i]
  BY <1>2, <1>8, <1>9
<1>11. ASSUME NEW i \in 1 .. Len(gl)
       PROVE  /\ gl[i] \in DOMAIN rs /\ rs[gl[i]].magic = "FREE"
              /\ \/ i = Len(fl) + 1 /\ gl[i] = a
                 \/ i \in 1 .. Len(fl) /\ gl[i] = fl[i] /\ gl[i] # a
  <2>1. CASE i = Len(fl) + 1
    BY <1>3, <1>5, <1>10, <2>1
  <2>2. CASE i # Len(fl) + 1
    <3>1. i \in 1 .. Len(fl) /\ gl[i] = fl[i]
      BY <1>9, <1>10, <2>2
    <3>2. fl[i] # a
      BY <1>9, <3>1
    <3>. QED BY <1>3, <1>9, <3>1, <3>2
  <2>. QED BY <2>1, <2>2
<1>12. ASSUME NEW x \in DOMAIN rs, rs[x].magic = "FREE" PROVE Among(gl, x)
  <2>1. CASE x = a
    <3>1. Len(fl) + 1 \in 1 .. Len(gl)
      BY <1>9, <1>10
    <3>. QED BY <1>10, <2>1, <3>1 DEF Among
  <2>2. CASE x # a
    <3>1. Among(fl, x)
      BY <1>3, <1>9, <1>12, <2>2
    <3>2. \A i \in 1 .. Len(fl) : i \in 1 .. Len(gl)
      BY <1>9, <1>10
    <3>. QED BY <1>10, <3>1, <3>2 DEF Among
  <2>. QED BY <2>1, <2>2
<1>13. \A i, j \in 1 .. Len(gl) : gl[i] = gl[j] => i = j
  BY <1>9, <1>11
<1>14. HeapIs(rs, gl)
  BY <1>2, <1>3, <1>6, <1>7, <1>10, <1>11, <1>12, <1>13 DEF HeapIs, FreeIn
<1>. QED BY <1>1, <1>3, <1>8, <1>14

LEMMA InitHeap == ASSUME heap!HeapAssumption PROVE heap!Init => HeapInv
<1>. SUFFICES ASSUME heap!Init PROVE HeapInv
  OBVIOUS
<1>1. Hdr \in Nat /\ Hdr >= 1 /\ HeapSize \in Nat /\ HeapSize > Hdr
  BY HeapConstants
<1>2. /\ DOMAIN chunks = {0} /\ chunks[0] = heap!Chunk(HeapSize - Hdr, 0, "FREE")
      /\ chunks = [a \in DOMAIN chunks |-> chunks[a]]
  BY DEF heap!Init
<1>3. /\ chunks[0] \in Headers /\ chunks[0].capacity = HeapSize - Hdr /\ chunks[0].magic = "FREE"
      /\ 0 \in heap!Addresses
  BY <1>1, <1>2 DEF Headers, heap!Chunk, heap!Addresses
<1>4. chunks \in [DOMAIN chunks -> Headers] /\ DOMAIN chunks \subseteq heap!Addresses
  <2>1. \A a \in DOMAIN chunks : chunks[a] \in Headers
    BY <1>2, <1>3
  <2>. QED BY <1>2, <1>3, <2>1
<1>5. TiledBy(chunks)
  BY <1>1, <1>2, <1>3 DEF TiledBy, End
<1>6. free_chunks = <<0>> /\ Len(free_chunks) = 1 /\ free_chunks[1] = 0
  BY DEF heap!Init
<1>7. FreeIn(chunks, free_chunks)
  BY <1>2, <1>3, <1>6 DEF FreeIn, Among
<1>8. PointersIn(chunks, ptr, len) /\ lost \in BOOLEAN /\ panicked \in BOOLEAN
  BY DEF heap!Init, PointersIn
<1>. QED BY <1>4, <1>5, <1>7, <1>8 DEF HeapInv, HeapIs

\* The chunk that the search finds.
LEMMA FirstFitIs ==
    ASSUME heap!HeapAssumption, HeapInv, NEW size \in Nat, heap!Candidates(size) # {}
    PROVE  Among(free_chunks, heap!FirstFit(size)) /\ heap!Fits(heap!FirstFit(size), heap!Aligned(size))
<1>1. PICK C : C = heap!Candidates(size)
  OBVIOUS
<1>2. DOMAIN free_chunks = 1 .. Len(free_chunks) /\ Len(free_chunks) \in Nat
  BY DEF HeapInv, HeapIs, FreeIn
<1>3. C \in SUBSET Nat /\ C # {} /\ \A i \in C : i \in 1 .. Len(free_chunks) /\ heap!Fits(free_chunks[i], heap!Aligned(size))
  BY <1>1, <1>2 DEF heap!Candidates
<1>4. \E i \in C : \A j \in C : i =< j
  BY <1>3, LeastOf
<1>5. PICK k : k = CHOOSE i \in C : \A j \in C : i =< j
  OBVIOUS
<1>6. k \in C
  BY <1>4, <1>5
<1>7. heap!FirstFit(size) = free_chunks[k]
  BY <1>1, <1>5 DEF heap!FirstFit
<1>. QED BY <1>3, <1>6, <1>7 DEF Among

\* Pointers stay right when a free chunk is taken into use.
LEMMA PointersKept ==
    ASSUME PointersIn(chunks, ptr, len), NEW cs, DOMAIN chunks \subseteq DOMAIN cs,
           NEW a, chunks[a].magic = "FREE", \A x \in DOMAIN chunks \ {a} : cs[x] = chunks[x]
    PROVE  PointersIn(cs, ptr, len) /\ \A p \in Pointers : ptr[p] # heap!Null => ptr[p] # a
  BY DEF PointersIn

LEMMA MallocKeeps ==
    ASSUME heap!HeapAssumption, HeapInv, NEW p \in Pointers, NEW size \in Nat, heap!malloc(p, size)
    PROVE  HeapInv'
<1>1. /\ HeapIs(chunks, free_chunks) /\ PointersIn(chunks, ptr, len)
      /\ lost \in BOOLEAN /\ panicked \in BOOLEAN
  BY DEF HeapInv
<1>2. ptr[p] = heap!Null /\ lost' = lost
  BY DEF heap!malloc
<1>3. CASE heap!Candidates(size) = {}
  <2>1. panicked' = TRUE /\ chunks' = chunks /\ free_chunks' = free_chunks /\ ptr' = ptr /\ len' = len
    BY <1>3 DEF heap!malloc
  <2>. QED BY <1>1, <1>2, <2>1 DEF HeapInv
<1>4. CASE heap!Candidates(size) # {}
  <2>1. PICK a : a = heap!FirstFit(size)
    OBVIOUS
  <2>2. PICK n \in Nat : n = heap!Aligned(size) /\ n >= size /\ n >= 1
    BY AlignedUp
  <2>3. /\ chunks' = heap!Take(a, n).cs /\ free_chunks' = heap!Take(a, n).fl /\ panicked' = panicked
        /\ ptr' = [ptr EXCEPT ![p] = a] /\ len' = [len EXCEPT ![p] = size]
    BY <1>4, <2>1, <2>2 DEF heap!malloc
  <2>4. Among(free_chunks, a) /\ heap!Fits(a, n)
    BY <1>4, <2>1, <2>2, FirstFitIs
  <2>5. PICK cs, fl : cs = heap!Take(a, n).cs /\ fl = heap!Take(a, n).fl
    OBVIOUS
  <2>6. /\ HeapIs(cs, fl) /\ a \in DOMAIN chunks /\ chunks[a].magic = "FREE"
        /\ DOMAIN chunks \subseteq DOMAIN cs
        /\ cs[a].magic = "IN_USE" /\ cs[a].capacity >= n
        /\ \A x \in DOMAIN chunks \ {a} : cs[x] = chunks[x]
    BY <1>1, <2>2, <2>4, <2>5, TakeKeeps
  <2>7. PointersIn(cs, ptr, len) /\ \A q \in Pointers : ptr[q] # heap!Null => ptr[q] # a
    BY <1>1, <2>6, PointersKept
  <2>8. cs[a].capacity >= size /\ a \in heap!Addresses /\ a # heap!Null /\ a \in DOMAIN cs
    <3>1. a \in DOMAIN cs /\ cs[a].capacity \in Nat
      BY <2>6, ChunkOf
    <3>2. a \in heap!Addresses
      BY <2>6, <3>1, ChunkOf
    <3>. QED BY <2>2, <2>6, <3>1, <3>2, HeapConstants
  <2>9. PointersIn(cs, [ptr EXCEPT ![p] = a], [len EXCEPT ![p] = size])
    BY <2>6, <2>7, <2>8 DEF PointersIn
  <2>. QED BY <1>1, <1>2, <2>3, <2>5, <2>6, <2>9 DEF HeapInv
<1>. QED BY <1>3, <1>4

LEMMA FreeKeeps ==
    ASSUME heap!HeapAssumption, HeapInv, NEW p \in Pointers, heap!free(p)
    PROVE  HeapInv'
<1>1. /\ HeapIs(chunks, free_chunks) /\ PointersIn(chunks, ptr, len)
      /\ lost \in BOOLEAN /\ panicked \in BOOLEAN
  BY DEF HeapInv
<1>2. PICK a : a = ptr[p]
  OBVIOUS
<1>3. /\ a # heap!Null /\ lost' = lost /\ panicked' = panicked
      /\ chunks' = heap!Released(chunks, a) /\ free_chunks' = Append(free_chunks, a)
      /\ ptr' = [ptr EXCEPT ![p] = heap!Null] /\ len' = [len EXCEPT ![p] = 0]
  BY <1>2 DEF heap!free
<1>4. a \in DOMAIN chunks /\ chunks[a].magic = "IN_USE"
  BY <1>1, <1>2, <1>3 DEF PointersIn
<1>5. PICK rs : rs = heap!Released(chunks, a)
  OBVIOUS
<1>6. /\ HeapIs(rs, Append(free_chunks, a)) /\ DOMAIN rs = DOMAIN chunks
      /\ \A x \in DOMAIN chunks \ {a} : rs[x] = chunks[x]
  BY <1>1, <1>4, <1>5, ReleaseKeeps
<1>7. \A q \in Pointers : q # p => ptr[q] # a
  BY <1>1, <1>2, <1>3 DEF PointersIn
<1>8. PointersIn(rs, [ptr EXCEPT ![p] = heap!Null], [len EXCEPT ![p] = 0])
  BY <1>1, <1>6, <1>7 DEF PointersIn
<1>. QED BY <1>1, <1>3, <1>5, <1>6, <1>8 DEF HeapInv

LEMMA ReallocKeeps ==
    ASSUME heap!HeapAssumption, HeapInv, NEW p \in Pointers, NEW size \in Nat, heap!realloc(p, size)
    PROVE  HeapInv'
<1>1. /\ HeapIs(chunks, free_chunks) /\ PointersIn(chunks, ptr, len)
      /\ lost \in BOOLEAN /\ panicked \in BOOLEAN
  BY DEF HeapInv
<1>2. PICK a : a = ptr[p]
  OBVIOUS
<1>3. a # heap!Null /\ a \in DOMAIN chunks /\ chunks[a].magic = "IN_USE"
  BY <1>1, <1>2 DEF heap!realloc, PointersIn
<1>4. CASE heap!InPlace(a, size)
  <2>1. /\ len' = [len EXCEPT ![p] = size]
        /\ chunks' = chunks /\ free_chunks' = free_chunks /\ ptr' = ptr /\ lost' = lost /\ panicked' = panicked
    BY <1>2, <1>4 DEF heap!realloc
  <2>2. size =< chunks[a].capacity
    BY <1>4 DEF heap!InPlace
  <2>3. PointersIn(chunks, ptr, [len EXCEPT ![p] = size])
    BY <1>1, <1>2, <2>2 DEF PointersIn
  <2>. QED BY <1>1, <2>1, <2>3 DEF HeapInv
<1>5. CASE ~heap!InPlace(a, size) /\ heap!Candidates(size) = {}
  <2>1. /\ panicked' = TRUE /\ chunks' = chunks /\ free_chunks' = free_chunks /\ ptr' = ptr /\ len' = len
        /\ lost' = lost
    BY <1>2, <1>5 DEF heap!realloc
  <2>. QED BY <1>1, <2>1 DEF HeapInv
<1>6. CASE ~heap!InPlace(a, size) /\ heap!Candidates(size) # {}
  <2>1. PICK b : b = heap!FirstFit(size)
    OBVIOUS
  <2>2. PICK n \in Nat : n = heap!Aligned(size) /\ n >= size /\ n >= 1
    BY AlignedUp
  <2>3. /\ chunks' = heap!Released(heap!Take(b, n).cs, a) /\ free_chunks' = Append(heap!Take(b, n).fl, a)
        /\ panicked' = panicked /\ lost' \in BOOLEAN
        /\ ptr' = [ptr EXCEPT ![p] = b] /\ len' = [len EXCEPT ![p] = size]
    BY <1>2, <1>6, <2>1, <2>2, Zenon DEF heap!realloc
  <2>4. Among(free_chunks, b) /\ heap!Fits(b, n)
    BY <1>6, <2>1, <2>2, FirstFitIs
  <2>5. PICK cs, fl : cs = heap!Take(b, n).cs /\ fl = heap!Take(b, n).fl
    OBVIOUS
  <2>6. /\ HeapIs(cs, fl) /\ b \in DOMAIN chunks /\ chunks[b].magic = "FREE"
        /\ DOMAIN chunks \subseteq DOMAIN cs
        /\ cs[b].magic = "IN_USE" /\ cs[b].capacity >= n
        /\ \A x \in DOMAIN chunks \ {b} : cs[x] = chunks[x]
    BY <1>1, <2>2, <2>4, <2>5, TakeKeeps
  <2>7. PointersIn(cs, ptr, len) /\ \A q \in Pointers : ptr[q] # heap!Null => ptr[q] # b
    BY <1>1, <2>6, PointersKept
  <2>8. cs[b].capacity >= size /\ b \in heap!Addresses /\ b # heap!Null /\ b \in DOMAIN cs
    <3>1. b \in DOMAIN cs /\ cs[b].capacity \in Nat
      BY <2>6, ChunkOf
    <3>2. b \in heap!Addresses
      BY <2>6, <3>1, ChunkOf
    <3>. QED BY <2>2, <2>6, <3>1, <3>2, HeapConstants
  <2>9. a # b /\ a \in DOMAIN cs /\ cs[a].magic = "IN_USE"
    BY <1>3, <2>6
  <2>10. PICK rs : rs = heap!Released(cs, a)
    OBVIOUS
  <2>11. /\ HeapIs(rs, Append(fl, a)) /\ DOMAIN rs = DOMAIN cs
         /\ \A x \in DOMAIN cs \ {a} : rs[x] = cs[x]
    BY <2>6, <2>9, <2>10, ReleaseKeeps
  <2>12. \A q \in Pointers : q # p => ptr[q] # a
    BY <1>1, <1>2, <1>3 DEF PointersIn
  <2>13. rs[b] = cs[b] /\ b \in DOMAIN rs
    BY <2>8, <2>9, <2>11
  <2>14. PointersIn(rs, [ptr EXCEPT ![p] = b], [len EXCEPT ![p] = size])
    BY <2>6, <2>7, <2>8, <2>11, <2>12, <2>13 DEF PointersIn
  <2>. QED BY <1>1, <2>3, <2>5, <2>10, <2>11, <2>14 DEF HeapInv
<1>. QED BY <1>4, <1>5, <1>6

LEMMA NextHeap == ASSUME heap!HeapAssumption, HeapInv, [heap!Next]_(heap!vars) PROVE HeapInv'
<1>1. CASE UNCHANGED heap!vars
  BY <1>1 DEF heap!vars, HeapInv
<1>2. ASSUME NEW p \in Pointers, heap!free(p) PROVE HeapInv'
  BY <1>2, FreeKeeps
<1>3. ASSUME NEW p \in Pointers, NEW size \in Sizes, heap!malloc(p, size) \/ heap!strdup(p, size) \/ heap!realloc(p, size)
      PROVE  HeapInv'
  <2>1. size \in Nat /\ size + 1 \in Nat
    BY HeapConstants
  <2>2. CASE heap!malloc(p, size)
    BY <2>1, <2>2, MallocKeeps
  <2>3. CASE heap!strdup(p, size)
    <3>1. heap!malloc(p, size + 1)
      BY <2>3 DEF heap!strdup
    <3>. QED BY <2>1, <3>1, MallocKeeps
  <2>4. CASE heap!realloc(p, size)
    BY <2>1, <2>4, ReallocKeeps
  <2>. QED BY <1>3, <2>2, <2>3, <2>4
<1>. QED BY <1>1, <1>2, <1>3 DEF heap!Next

LEMMA HeapInvSays ==
    ASSUME heap!HeapAssumption, HeapInv
    PROVE  heap!TypeOK /\ heap!Tiled /\ heap!FreeListExact /\ heap!RoomForAll
<1>1. /\ HeapIs(chunks, free_chunks) /\ PointersIn(chunks, ptr, len)
      /\ lost \in BOOLEAN /\ panicked \in BOOLEAN
  BY DEF HeapInv
<1>2. heap!TypeOK
  BY <1>1 DEF heap!TypeOK, HeapIs, PointersIn, FreeIn, Headers
<1>3. heap!Tiled
  BY <1>1 DEF heap!Tiled, HeapIs, TiledBy, End
<1>4. heap!FreeListExact
  <2>1. DOMAIN free_chunks = 1 .. Len(free_chunks)
    BY <1>1 DEF HeapIs, FreeIn
  <2>. QED BY <1>1, <2>1 DEF heap!FreeListExact, HeapIs, FreeIn, Among, heap!ToSet
<1>5. heap!RoomForAll
  BY <1>1 DEF heap!RoomForAll, PointersIn
<1>. QED BY <1>2, <1>3, <1>4, <1>5

\* libs/user/malloc.c: for any heap, any sizes and any sequence of malloc, strdup, realloc and free
\* the chunks tile the heap, the free list has every free chunk once, and every pointer has a
\* chunk of its own with room for what was asked for.
THEOREM HeapSound ==
    ASSUME heap!HeapAssumption
    PROVE  heap!Spec => [](heap!TypeOK /\ heap!Tiled /\ heap!FreeListExact /\ heap!RoomForAll)
<1>. QED BY InitHeap, NextHeap, HeapInvSays, PTL DEF heap!Spec

-----------------------------------------------------------------------------
(* HinaVM.                                                                 *)

\* What list_remove leaves of a queue, for HinaVm's copy of it.
LEMMA HinaWithout ==
    ASSUME NEW S, NEW s \in Seq(S), NEW x, Among(s, x), \A i, j \in 1 .. Len(s) : s[i] = s[j] => i = j
    PROVE  /\ hina!Without(s, x) \in Seq(S)
           /\ \A i \in 1 .. Len(hina!Without(s, x)) : Among(s, hina!Without(s, x)[i]) /\ hina!Without(s, x)[i] # x
           /\ \A y : Among(s, y) /\ y # x => Among(hina!Without(s, x), y)
           /\ \A i, j \in 1 .. Len(hina!Without(s, x)) : hina!Without(s, x)[i] = hina!Without(s, x)[j] => i = j
<1>1. hina!Without(s, x) = heap!Without(s, x)
  BY DEF hina!Without, heap!Without, hina!Range, heap!Range
<1>2. /\ heap!Without(s, x) \in Seq(S)
      /\ \A i \in 1 .. Len(heap!Without(s, x)) : Among(s, heap!Without(s, x)[i]) /\ heap!Without(s, x)[i] # x
      /\ \A y : Among(s, y) /\ y # x => Among(heap!Without(s, x), y)
      /\ \A i, j \in 1 .. Len(heap!Without(s, x)) : heap!Without(s, x)[i] = heap!Without(s, x)[j] => i = j
  BY WithoutOnce
<1>. QED BY <1>1, <1>2

LEMMA HinaCounts == \A S : hina!Cardinality(S) = Cardinality(S)
  BY DEF hina!Cardinality, Cardinality, hina!IsFiniteSet, IsFiniteSet

\* No task is at two places of s.
Once(s) == \A i, j \in 1 .. Len(s) : s[i] = s[j] => i = j

\* The tasks with bl[t] = FALSE are the one that has the CPU, c, and those in the run queue q.
Scheduled(bl, c, q) ==
    /\ bl \in [hina!Tasks -> BOOLEAN] /\ c \in hina!Tasks \cup {hina!Idle} /\ q \in Seq(hina!Tasks) /\ Once(q)
    /\ \A t \in hina!Tasks : ~bl[t] <=> t = c \/ Among(q, t)
    /\ ~Among(q, c)

\* The queues of senders hold tasks that are blocked in a send to their owner.
SendersOf(d, q, bl, a, o) ==
    Once(q) /\ \A i \in 1 .. Len(q) : bl[q[i]] /\ a[q[i]] = "deliver" /\ o[q[i]][1] = d

Sending == \A d \in hina!Tasks : SendersOf(d, hina_senders[d], blocked, at, out)

\* A task that has been taken from such a queue and has not delivered yet is awaited.
Handed(t, bl, a, o, w) ==
    a[t] = "deliver" =>
        /\ o[t][1] \in hina!Tasks /\ o[t][3] \in {"run", "receive", "exit"}
        /\ ~bl[t] => bl[o[t][1]] /\ a[o[t][1]] = "taken" /\ w[o[t][1]] = t

HandedOver == \A t \in hina!Tasks : Handed(t, blocked, at, out, wait_for)

\* Who waits for a message is in recv_message.
Receiving == \A t \in hina!Tasks : wait_for[t] \in hina!Tasks \cup {hina!IPC_ANY} => at[t] = "taken"

QueueInv ==
    /\ at \in [hina!Tasks -> {"run", "deliver", "receive", "taken", "exit"}]
    /\ hina_senders \in [hina!Tasks -> Seq(hina!Tasks)] /\ DOMAIN wait_for = hina!Tasks /\ DOMAIN out = hina!Tasks
    /\ Scheduled(blocked, cpu, runqueue) /\ Sending /\ HandedOver /\ Receiving

queueVars == <<at, blocked, wait_for, hina_senders, out, cpu, runqueue>>

LEMMA TaskNumbers ==
    ASSUME hina!HinaVmAssumption
    PROVE  /\ hina!WORD \in Nat /\ hina!WORD > 42 /\ hina!Tasks \subseteq 1 .. hina!WORD - 2
           /\ hina!Idle \notin hina!Tasks /\ hina!IPC_ANY \notin hina!Tasks /\ hina!IPC_DENY \notin hina!Tasks \cup {hina!IPC_ANY}
           /\ HinaTask \in hina!Tasks /\ HinaTask \notin HinaNatives /\ Pager \in HinaNatives /\ HinaNatives \subseteq hina!Tasks
<1>1. hina!WORD \in Nat /\ hina!WORD > 42 /\ 2^(WordBits \div 2) \in Nat /\ 2^(WordBits \div 2) < hina!WORD
  BY DEF hina!HinaVmAssumption
<1>2. hina!Tasks \subseteq 1 .. hina!WORD - 2
  <2>1. PICK h \in Nat : h = 2^(WordBits \div 2)
    BY <1>1
  <2>2. hina!Tasks \subseteq 1 .. h - 1
    BY <2>1, Zenon DEF hina!HinaVmAssumption
  <2>. HIDE DEF hina!WORD, hina!Tasks
  <2>. QED BY <1>1, <2>1, <2>2
<1>3. HinaTask \in hina!Tasks /\ HinaTask \notin HinaNatives /\ Pager \in HinaNatives /\ HinaNatives \subseteq hina!Tasks
  BY DEF hina!HinaVmAssumption, hina!Tasks
<1>. HIDE DEF hina!WORD
<1>. QED BY <1>1, <1>2, <1>3 DEF hina!Idle, hina!IPC_ANY, hina!IPC_DENY

\* A task that is put at the end of a queue it is not in.
LEMMA AppendOnce ==
    ASSUME NEW q \in Seq(hina!Tasks), Once(q), NEW t \in hina!Tasks, ~Among(q, t)
    PROVE  /\ Append(q, t) \in Seq(hina!Tasks) /\ Once(Append(q, t))
           /\ \A x : Among(Append(q, t), x) <=> x = t \/ Among(q, x)
<1>1. PICK n \in Nat : n = Len(q)
  OBVIOUS
<1>2. PICK a \in Seq(hina!Tasks) : /\ a = Append(q, t) /\ Len(a) = n + 1 /\ a[n + 1] = t
                              /\ \A i \in 1 .. n : a[i] = q[i]
  <2>1. /\ Append(q, t) \in Seq(hina!Tasks) /\ Len(Append(q, t)) = n + 1 /\ Append(q, t)[n + 1] = t
        /\ \A i \in 1 .. n : Append(q, t)[i] = q[i]
    BY <1>1
  <2>. QED BY <2>1, Zenon
<1>3. ASSUME NEW x PROVE Among(a, x) <=> x = t \/ Among(q, x)
  <2>1. ASSUME Among(a, x) PROVE x = t \/ Among(q, x)
    <3>1. PICK i \in 1 .. n + 1 : a[i] = x
      BY <1>2, <2>1 DEF Among
    <3>2. i = n + 1 \/ i \in 1 .. n
      BY <3>1
    <3>. QED BY <1>1, <1>2, <3>1, <3>2 DEF Among
  <2>2. ASSUME Among(q, x) PROVE Among(a, x)
    <3>1. PICK i \in 1 .. n : q[i] = x
      BY <1>1, <2>2 DEF Among
    <3>2. i \in 1 .. n + 1 /\ a[i] = x
      BY <1>2, <3>1
    <3>. QED BY <1>2, <3>2 DEF Among
  <2>3. Among(a, t)
    <3>1. n + 1 \in 1 .. n + 1
      OBVIOUS
    <3>. QED BY <1>2, <3>1 DEF Among
  <2>. QED BY <2>1, <2>2, <2>3
<1>4. ASSUME NEW i \in 1 .. n + 1, NEW j \in 1 .. n + 1, a[i] = a[j] PROVE i = j
  <2>1. CASE i = n + 1 /\ j = n + 1
    BY <2>1
  <2>2. CASE i \in 1 .. n /\ j \in 1 .. n
    BY <1>1, <1>2, <1>4, <2>2 DEF Once
  <2>3. CASE i = n + 1 /\ j \in 1 .. n
    BY <1>1, <1>2, <1>4, <2>3 DEF Among
  <2>4. CASE i \in 1 .. n /\ j = n + 1
    BY <1>1, <1>2, <1>4, <2>4 DEF Among
  <2>. QED BY <2>1, <2>2, <2>3, <2>4
<1>. QED BY <1>2, <1>3, <1>4 DEF Once

\* task_switch takes the first task of the run queue, if there is one.
LEMMA SwitchSchedules ==
    ASSUME hina!HinaVmAssumption, NEW bl \in [hina!Tasks -> BOOLEAN], NEW q \in Seq(hina!Tasks), Once(q),
           \A t \in hina!Tasks : ~bl[t] <=> Among(q, t), hina!switch_from(q)
    PROVE  Scheduled(bl, cpu', runqueue')
<1>1. PICK n \in Nat : n = Len(q)
  OBVIOUS
<1>2. CASE q = <<>>
  <2>1. cpu' = hina!Idle /\ runqueue' = <<>> /\ n = 0
    BY <1>1, <1>2 DEF hina!switch_from
  <2>2. \A x : ~Among(<<>>, x)
    BY DEF Among
  <2>. QED BY <1>2, <2>1, <2>2, TaskNumbers DEF Scheduled, Once
<1>3. CASE q # <<>>
  <2>1. cpu' = Head(q) /\ runqueue' = Tail(q) /\ n > 0
    BY <1>1, <1>3 DEF hina!switch_from
  <2>2. PICK r \in Seq(hina!Tasks) : /\ r = runqueue' /\ Len(r) = n - 1
                                /\ \A i \in 1 .. n - 1 : r[i] = q[i + 1]
    BY <1>1, <1>3, <2>1
  <2>3. cpu' = q[1] /\ cpu' \in hina!Tasks
    BY <1>1, <1>3, <2>1
  <2>4. ASSUME NEW x PROVE Among(q, x) <=> x = cpu' \/ Among(r, x)
    <3>1. ASSUME Among(q, x) PROVE x = cpu' \/ Among(r, x)
      <4>1. PICK i \in 1 .. n : q[i] = x
        BY <1>1, <3>1 DEF Among
      <4>2. CASE i = 1
        BY <2>3, <4>1, <4>2
      <4>3. CASE i # 1
        <5>1. i - 1 \in 1 .. n - 1 /\ (i - 1) + 1 = i
          BY <4>3
        <5>2. r[i - 1] = x
          BY <2>2, <4>1, <5>1
        <5>. QED BY <2>2, <5>1, <5>2 DEF Among
      <4>. QED BY <4>2, <4>3
    <3>2. ASSUME Among(r, x) PROVE Among(q, x)
      <4>1. PICK i \in 1 .. n - 1 : r[i] = x
        BY <2>2, <3>2 DEF Among
      <4>2. i + 1 \in 1 .. n /\ q[i + 1] = x
        BY <2>2, <4>1
      <4>. QED BY <1>1, <4>2 DEF Among
    <3>3. Among(q, cpu')
      <4>1. 1 \in 1 .. n
        BY <2>1
      <4>. QED BY <1>1, <2>3, <4>1 DEF Among
    <3>. QED BY <3>1, <3>2, <3>3
  <2>5. ASSUME NEW i \in 1 .. n - 1 PROVE r[i] # cpu'
    <3>1. i + 1 \in 1 .. n /\ 1 \in 1 .. n /\ i + 1 # 1
      BY <2>1
    <3>. QED BY <1>1, <2>2, <2>3, <3>1 DEF Once
  <2>6. Once(r)
    <3>1. ASSUME NEW i \in 1 .. n - 1, NEW j \in 1 .. n - 1, r[i] = r[j] PROVE i = j
      <4>1. i + 1 \in 1 .. n /\ j + 1 \in 1 .. n /\ q[i + 1] = q[j + 1]
        BY <2>2, <3>1
      <4>. QED BY <1>1, <4>1 DEF Once
    <3>. QED BY <2>2, <3>1 DEF Once
  <2>7. ~Among(r, cpu')
    BY <2>2, <2>5 DEF Among
  <2>. QED BY <2>2, <2>3, <2>4, <2>6, <2>7 DEF Scheduled
<1>. QED BY <1>2, <1>3

\* Steps of a task c that has the CPU.
LEMMA SendReadyKeeps ==
    ASSUME hina!HinaVmAssumption, QueueInv, NEW c \in hina!Tasks, cpu = c, at[c] = "run", NEW d \in hina!Tasks, NEW msg,
           NEW after \in {"run", "receive", "exit"}, hina!send_ready(c, d, msg, after)
    PROVE  QueueInv'
<1>1. blocked[d] /\ wait_for[d] \in {hina!IPC_ANY, c} /\ blocked \in [hina!Tasks -> BOOLEAN]
  BY DEF hina!send_ready, hina!Waits, QueueInv, Scheduled
<1>2. at[d] = "taken" /\ ~blocked[c] /\ d # c
  BY <1>1 DEF QueueInv, Receiving, Scheduled
<1>3. /\ at' = [at EXCEPT ![c] = after] /\ blocked' = [blocked EXCEPT ![d] = FALSE]
      /\ runqueue' = Append(runqueue, d) /\ UNCHANGED <<wait_for, hina_senders, out, cpu>>
  BY DEF hina!send_ready, hina!Hand
<1>4. ~Among(runqueue, d) /\ runqueue \in Seq(hina!Tasks) /\ Once(runqueue)
  BY <1>1 DEF QueueInv, Scheduled
<1>5. Scheduled(blocked', cpu', runqueue')
  <2>1. PICK q \in Seq(hina!Tasks) : /\ q = runqueue' /\ Once(q)
                                /\ \A x : Among(q, x) <=> x = d \/ Among(runqueue, x)
    BY <1>3, <1>4, AppendOnce, Zenon
  <2>. QED BY <1>1, <1>2, <1>3, <2>1 DEF QueueInv, Scheduled
<1>6. Sending'
  BY <1>1, <1>2, <1>3 DEF QueueInv, Sending, SendersOf, Once
<1>7. HandedOver'
  <2>. SUFFICES ASSUME NEW t \in hina!Tasks, at'[t] = "deliver"
                PROVE  /\ out[t][1] \in hina!Tasks /\ out[t][3] \in {"run", "receive", "exit"}
                       /\ ~blocked'[t] => /\ blocked'[out[t][1]] /\ at'[out[t][1]] = "taken"
                                          /\ wait_for[out[t][1]] = t
    BY <1>3 DEF HandedOver, Handed
  <2>1. t # c /\ at[t] = "deliver" /\ t # d
    BY <1>2, <1>3 DEF QueueInv
  <2>2. out[t][1] \in hina!Tasks /\ out[t][3] \in {"run", "receive", "exit"}
    BY <2>1 DEF QueueInv, HandedOver, Handed
  <2>3. ASSUME ~blocked'[t]
        PROVE  blocked'[out[t][1]] /\ at'[out[t][1]] = "taken" /\ wait_for[out[t][1]] = t
    <3>1. ~blocked[t]
      BY <1>1, <1>3, <2>1, <2>3
    <3>2. blocked[out[t][1]] /\ at[out[t][1]] = "taken" /\ wait_for[out[t][1]] = t
      BY <2>1, <3>1 DEF QueueInv, HandedOver, Handed
    <3>3. out[t][1] # d
      BY <1>1, <2>1, <3>2, TaskNumbers
    <3>4. out[t][1] # c
      BY <1>2, <3>2
    <3>. QED BY <1>1, <1>3, <2>2, <3>2, <3>3, <3>4 DEF QueueInv
  <2>. QED BY <2>2, <2>3
<1>8. Receiving'
  BY <1>2, <1>3 DEF QueueInv, Receiving
<1>. QED BY <1>3, <1>5, <1>6, <1>7, <1>8 DEF QueueInv

LEMMA SendBlockKeeps ==
    ASSUME hina!HinaVmAssumption, QueueInv, NEW c \in hina!Tasks, cpu = c, at[c] = "run", NEW d \in hina!Tasks, NEW msg,
           NEW after \in {"run", "receive", "exit"}, hina!send_block(c, d, msg, after)
    PROVE  QueueInv'
<1>1. ~blocked[c] /\ blocked \in [hina!Tasks -> BOOLEAN]
  BY DEF QueueInv, Scheduled
<1>2. /\ hina_senders' = [hina_senders EXCEPT ![d] = Append(@, c)] /\ blocked' = [blocked EXCEPT ![c] = TRUE]
      /\ at' = [at EXCEPT ![c] = "deliver"] /\ out' = [out EXCEPT ![c] = <<d, msg, after>>]
      /\ wait_for' = wait_for /\ hina!switch_from(runqueue)
  BY DEF hina!send_block
<1>3. ~Among(hina_senders[d], c) /\ hina_senders[d] \in Seq(hina!Tasks) /\ Once(hina_senders[d])
  BY <1>1 DEF QueueInv, Sending, SendersOf, Among
<1>4. Scheduled(blocked', cpu', runqueue')
  <2>1. runqueue \in Seq(hina!Tasks) /\ Once(runqueue) /\ blocked' \in [hina!Tasks -> BOOLEAN]
        /\ \A t \in hina!Tasks : ~blocked'[t] <=> Among(runqueue, t)
    BY <1>1, <1>2 DEF QueueInv, Scheduled
  <2>. QED BY <1>2, <2>1, SwitchSchedules
<1>5. PICK q \in Seq(hina!Tasks) : /\ q = hina_senders'[d] /\ Once(q)
                              /\ \A x : Among(q, x) <=> x = c \/ Among(hina_senders[d], x)
  <2>1. hina_senders'[d] = Append(hina_senders[d], c)
    BY <1>2 DEF QueueInv
  <2>. QED BY <1>3, <2>1, AppendOnce, Zenon
<1>6. \A e \in hina!Tasks \ {d} : hina_senders'[e] = hina_senders[e]
  BY <1>2 DEF QueueInv
<1>7. \A t \in hina!Tasks \ {c} : blocked'[t] = blocked[t] /\ at'[t] = at[t] /\ out'[t] = out[t]
  BY <1>1, <1>2 DEF QueueInv
<1>8. blocked'[c] /\ at'[c] = "deliver" /\ out'[c][1] = d /\ out'[c][3] = after
  BY <1>1, <1>2 DEF QueueInv
<1>9. Sending'
  <2>1. ASSUME NEW i \in 1 .. Len(q)
        PROVE  blocked'[q[i]] /\ at'[q[i]] = "deliver" /\ out'[q[i]][1] = d
    <3>1. q[i] = c \/ Among(hina_senders[d], q[i])
      BY <1>5 DEF Among
    <3>2. CASE q[i] = c
      BY <1>8, <3>2
    <3>3. CASE q[i] # c
      <4>1. PICK j \in 1 .. Len(hina_senders[d]) : hina_senders[d][j] = q[i]
        BY <3>1, <3>3 DEF Among
      <4>2. blocked[q[i]] /\ at[q[i]] = "deliver" /\ out[q[i]][1] = d
        BY <4>1 DEF QueueInv, Sending, SendersOf
      <4>. QED BY <1>7, <3>3, <4>2
    <3>. QED BY <3>2, <3>3
  <2>2. ASSUME NEW e \in hina!Tasks \ {d}, NEW i \in 1 .. Len(hina_senders[e])
        PROVE  blocked'[hina_senders[e][i]] /\ at'[hina_senders[e][i]] = "deliver" /\ out'[hina_senders[e][i]][1] = e
    <3>1. blocked[hina_senders[e][i]] /\ at[hina_senders[e][i]] = "deliver" /\ out[hina_senders[e][i]][1] = e
          /\ hina_senders[e][i] \in hina!Tasks
      BY DEF QueueInv, Sending, SendersOf
    <3>. QED BY <1>1, <1>7, <3>1
  <2>3. SendersOf(d, hina_senders'[d], blocked', at', out')
    BY <1>5, <2>1 DEF SendersOf
  <2>4. ASSUME NEW e \in hina!Tasks \ {d} PROVE SendersOf(e, hina_senders'[e], blocked', at', out')
    <3>1. Once(hina_senders[e])
      BY DEF QueueInv, Sending, SendersOf
    <3>. QED BY <1>6, <2>2, <3>1 DEF SendersOf
  <2>. QED BY <2>3, <2>4, Zenon DEF Sending
<1>10. HandedOver'
  <2>. SUFFICES ASSUME NEW t \in hina!Tasks, at'[t] = "deliver"
                PROVE  /\ out'[t][1] \in hina!Tasks /\ out'[t][3] \in {"run", "receive", "exit"}
                       /\ ~blocked'[t] => /\ blocked'[out'[t][1]] /\ at'[out'[t][1]] = "taken"
                                          /\ wait_for[out'[t][1]] = t
    BY <1>2 DEF HandedOver, Handed
  <2>1. CASE t = c
    BY <1>8, <2>1
  <2>2. CASE t # c
    <3>1. at[t] = "deliver" /\ out'[t] = out[t] /\ blocked'[t] = blocked[t]
      BY <1>7, <2>2
    <3>2. /\ out[t][1] \in hina!Tasks /\ out[t][3] \in {"run", "receive", "exit"}
          /\ ~blocked[t] => /\ blocked[out[t][1]] /\ at[out[t][1]] = "taken"
                            /\ wait_for[out[t][1]] = t
      BY <3>1 DEF QueueInv, HandedOver, Handed
    <3>. QED BY <1>1, <1>7, <3>1, <3>2
  <2>. QED BY <2>1, <2>2
<1>11. Receiving'
  BY <1>2, <1>7 DEF QueueInv, Receiving
<1>12. hina_senders' \in [hina!Tasks -> Seq(hina!Tasks)]
  BY <1>2, <1>5, <1>6 DEF QueueInv
<1>. QED BY <1>2, <1>4, <1>9, <1>10, <1>11, <1>12 DEF QueueInv

LEMMA DeliverKeeps ==
    ASSUME hina!HinaVmAssumption, QueueInv, NEW c \in hina!Tasks, hina!deliver(c)
    PROVE  QueueInv'
<1>1. PICK d \in hina!Tasks : d = out[c][1] /\ at[c] = "deliver" /\ cpu = c
  BY DEF hina!deliver, QueueInv, HandedOver, Handed
<1>2. ~blocked[c] /\ blocked \in [hina!Tasks -> BOOLEAN]
  BY <1>1 DEF QueueInv, Scheduled
<1>3. blocked[d] /\ at[d] = "taken" /\ wait_for[d] = c /\ out[c][3] \in {"run", "receive", "exit"}
  BY <1>1, <1>2 DEF QueueInv, HandedOver, Handed
<1>4. /\ at' = [at EXCEPT ![c] = out[c][3]] /\ blocked' = [blocked EXCEPT ![d] = FALSE]
      /\ runqueue' = Append(runqueue, d) /\ out' = [out EXCEPT ![c] = <<>>]
      /\ UNCHANGED <<wait_for, hina_senders, cpu>>
  BY <1>1 DEF hina!deliver, hina!Hand
<1>5. ~Among(runqueue, d) /\ runqueue \in Seq(hina!Tasks) /\ Once(runqueue) /\ d # c
  BY <1>1, <1>2, <1>3 DEF QueueInv, Scheduled
<1>6. Scheduled(blocked', cpu', runqueue')
  <2>1. PICK q \in Seq(hina!Tasks) : /\ q = runqueue' /\ Once(q)
                                /\ \A x : Among(q, x) <=> x = d \/ Among(runqueue, x)
    BY <1>4, <1>5, AppendOnce, Zenon
  <2>. QED BY <1>1, <1>2, <1>4, <1>5, <2>1 DEF QueueInv, Scheduled
<1>7. \A t \in hina!Tasks \ {c} : at'[t] = at[t] /\ out'[t] = out[t]
  BY <1>4 DEF QueueInv
<1>8. \A t \in hina!Tasks \ {d} : blocked'[t] = blocked[t]
  BY <1>2, <1>4
<1>9. Sending'
  <2>1. ASSUME NEW e \in hina!Tasks, NEW i \in 1 .. Len(hina_senders[e])
        PROVE  blocked'[hina_senders[e][i]] /\ at'[hina_senders[e][i]] = "deliver" /\ out'[hina_senders[e][i]][1] = e
    <3>1. blocked[hina_senders[e][i]] /\ at[hina_senders[e][i]] = "deliver" /\ out[hina_senders[e][i]][1] = e
          /\ hina_senders[e][i] \in hina!Tasks
      BY DEF QueueInv, Sending, SendersOf
    <3>. QED BY <1>2, <1>3, <1>7, <1>8, <3>1
  <2>2. ASSUME NEW e \in hina!Tasks PROVE SendersOf(e, hina_senders'[e], blocked', at', out')
    <3>1. Once(hina_senders[e])
      BY DEF QueueInv, Sending, SendersOf
    <3>. QED BY <1>4, <2>1, <3>1 DEF SendersOf
  <2>. QED BY <2>2, Zenon DEF Sending
<1>10. HandedOver'
  <2>. SUFFICES ASSUME NEW t \in hina!Tasks, at'[t] = "deliver"
                PROVE  /\ out'[t][1] \in hina!Tasks /\ out'[t][3] \in {"run", "receive", "exit"}
                       /\ ~blocked'[t] => /\ blocked'[out'[t][1]] /\ at'[out'[t][1]] = "taken"
                                          /\ wait_for[out'[t][1]] = t
    BY <1>4 DEF HandedOver, Handed
  <2>1. t # c
    BY <1>3, <1>4 DEF QueueInv
  <2>2. at[t] = "deliver" /\ out'[t] = out[t] /\ t # d
    BY <1>3, <1>7, <2>1
  <2>3. /\ out[t][1] \in hina!Tasks /\ out[t][3] \in {"run", "receive", "exit"}
        /\ ~blocked[t] => /\ blocked[out[t][1]] /\ at[out[t][1]] = "taken"
                          /\ wait_for[out[t][1]] = t
    BY <2>2 DEF QueueInv, HandedOver, Handed
  <2>4. ASSUME ~blocked'[t] PROVE out[t][1] # d /\ out[t][1] # c
    BY <1>1, <1>3, <1>8, <2>1, <2>2, <2>3, <2>4
  <2>. QED BY <1>7, <1>8, <2>2, <2>3, <2>4
<1>11. Receiving'
  <2>1. at[c] # "taken"
    BY <1>1
  <2>. QED BY <1>4, <1>7, <2>1 DEF QueueInv, Receiving
<1>12. at' \in [hina!Tasks -> {"run", "deliver", "receive", "taken", "exit"}]
  BY <1>3, <1>4 DEF QueueInv
<1>. QED BY <1>4, <1>6, <1>9, <1>10, <1>11, <1>12 DEF QueueInv

LEMMA RecvKeeps ==
    ASSUME hina!HinaVmAssumption, QueueInv, NEW c \in hina!Tasks, cpu = c, at[c] \in {"run", "receive"}, NEW src,
           hina!recv_message(c, src)
    PROVE  QueueInv'
<1>1. ~blocked[c] /\ blocked \in [hina!Tasks -> BOOLEAN] /\ ~Among(runqueue, c)
  BY DEF QueueInv, Scheduled
<1>2. at' = [at EXCEPT ![c] = "taken"] /\ out' = out
  BY DEF hina!recv_message
<1>3. \A t \in hina!Tasks \ {c} : at'[t] = at[t]
  BY <1>2 DEF QueueInv
<1>4. at'[c] = "taken" /\ at' \in [hina!Tasks -> {"run", "deliver", "receive", "taken", "exit"}]
  BY <1>2 DEF QueueInv
<1>5. ASSUME NEW t \in hina!Tasks, at'[t] = "deliver" PROVE t # c /\ at[t] = "deliver"
  BY <1>3, <1>4, <1>5
<1>6. ASSUME NEW t \in hina!Tasks, at[t] = "deliver"
      PROVE  /\ out[t][1] \in hina!Tasks /\ out[t][3] \in {"run", "receive", "exit"}
             /\ ~blocked[t] => /\ blocked[out[t][1]] /\ at[out[t][1]] = "taken"
                               /\ wait_for[out[t][1]] = t
  BY <1>6 DEF QueueInv, HandedOver, Handed
<1>7. CASE /\ wait_for' = [wait_for EXCEPT ![c] = src] /\ blocked' = [blocked EXCEPT ![c] = TRUE]
           /\ hina!switch_from(runqueue) /\ hina_senders' = hina_senders
  <2>1. /\ \A t \in hina!Tasks \ {c} : wait_for'[t] = wait_for[t] /\ blocked'[t] = blocked[t]
        /\ blocked'[c] /\ blocked' \in [hina!Tasks -> BOOLEAN] /\ DOMAIN wait_for' = hina!Tasks
    BY <1>1, <1>7 DEF QueueInv
  <2>2. Scheduled(blocked', cpu', runqueue')
    <3>1. runqueue \in Seq(hina!Tasks) /\ Once(runqueue) /\ \A t \in hina!Tasks : ~blocked'[t] <=> Among(runqueue, t)
      BY <1>1, <2>1 DEF QueueInv, Scheduled
    <3>. QED BY <1>7, <2>1, <3>1, SwitchSchedules
  <2>3. Sending'
    <3>1. ASSUME NEW e \in hina!Tasks, NEW i \in 1 .. Len(hina_senders[e])
          PROVE  blocked'[hina_senders[e][i]] /\ at'[hina_senders[e][i]] = "deliver" /\ out[hina_senders[e][i]][1] = e
      <4>1. blocked[hina_senders[e][i]] /\ at[hina_senders[e][i]] = "deliver" /\ out[hina_senders[e][i]][1] = e
            /\ hina_senders[e][i] \in hina!Tasks
        BY DEF QueueInv, Sending, SendersOf
      <4>. QED BY <1>1, <1>3, <2>1, <4>1
    <3>2. ASSUME NEW e \in hina!Tasks PROVE SendersOf(e, hina_senders'[e], blocked', at', out')
      BY <1>2, <1>7, <3>1 DEF QueueInv, Sending, SendersOf
    <3>. QED BY <3>2, Zenon DEF Sending
  <2>4. HandedOver'
    <3>1. ASSUME NEW t \in hina!Tasks, at'[t] = "deliver"
          PROVE  /\ out[t][1] \in hina!Tasks /\ out[t][3] \in {"run", "receive", "exit"}
                 /\ ~blocked'[t] => /\ blocked'[out[t][1]] /\ at'[out[t][1]] = "taken"
                                    /\ wait_for'[out[t][1]] = t
      <4>1. t # c /\ at[t] = "deliver"
        BY <1>5, <3>1
      <4>. QED BY <1>1, <1>3, <1>6, <2>1, <4>1
    <3>2. \A t \in hina!Tasks : Handed(t, blocked', at', out', wait_for')
      BY <1>2, <3>1 DEF Handed
    <3>. QED BY <3>2, Zenon DEF HandedOver
  <2>5. Receiving'
    BY <1>3, <1>4, <2>1 DEF QueueInv, Receiving
  <2>. QED BY <1>2, <1>4, <1>7, <2>1, <2>2, <2>3, <2>4, <2>5 DEF QueueInv
<1>8. ASSUME NEW i \in hina!Accepted(c, src), NEW s, s = hina_senders[c][i],
             hina_senders' = [hina_senders EXCEPT ![c] = hina!Left(c, s)],
             wait_for' = [wait_for EXCEPT ![c] = s],
             blocked' = [blocked EXCEPT ![s] = FALSE, ![c] = TRUE],
             hina!switch_from(Append(runqueue, s))
      PROVE  QueueInv'
  <2>1. /\ s \in hina!Tasks /\ blocked[s] /\ at[s] = "deliver" /\ out[s][1] = c /\ s # c /\ Among(hina_senders[c], s)
        /\ hina_senders[c] \in Seq(hina!Tasks) /\ Once(hina_senders[c])
    <3>1. i \in 1 .. Len(hina_senders[c]) /\ hina_senders[c] \in Seq(hina!Tasks)
      BY DEF hina!Accepted, QueueInv
    <3>. QED BY <1>1, <1>8, <3>1 DEF QueueInv, Sending, SendersOf, Among
  <2>2. /\ \A t \in hina!Tasks \ {c} : wait_for'[t] = wait_for[t] /\ hina_senders'[t] = hina_senders[t]
        /\ \A t \in hina!Tasks \ {c, s} : blocked'[t] = blocked[t]
        /\ blocked'[c] /\ ~blocked'[s] /\ blocked' \in [hina!Tasks -> BOOLEAN] /\ wait_for'[c] = s
        /\ hina_senders'[c] = hina!Left(c, s) /\ DOMAIN wait_for' = hina!Tasks
    BY <1>1, <1>8, <2>1 DEF QueueInv
  <2>3. Scheduled(blocked', cpu', runqueue')
    <3>1. runqueue \in Seq(hina!Tasks) /\ Once(runqueue) /\ ~Among(runqueue, s)
      BY <2>1 DEF QueueInv, Scheduled
    <3>2. PICK q \in Seq(hina!Tasks) : /\ q = Append(runqueue, s) /\ Once(q)
                                  /\ \A x : Among(q, x) <=> x = s \/ Among(runqueue, x)
      BY <2>1, <3>1, AppendOnce, Zenon
    <3>3. \A t \in hina!Tasks : ~blocked'[t] <=> Among(q, t)
      BY <1>1, <2>1, <2>2, <3>2 DEF QueueInv, Scheduled
    <3>. QED BY <1>8, <2>2, <3>2, <3>3, SwitchSchedules
  <2>4. PICK w \in Seq(hina!Tasks) : /\ w = hina_senders'[c] /\ Once(w)
                                /\ \A j \in 1 .. Len(w) : Among(hina_senders[c], w[j]) /\ w[j] # s
    <3>1. hina!Without(hina_senders[c], s) \in Seq(hina!Tasks) /\ Once(hina!Without(hina_senders[c], s))
          /\ \A j \in 1 .. Len(hina!Without(hina_senders[c], s)) :
                Among(hina_senders[c], hina!Without(hina_senders[c], s)[j]) /\ hina!Without(hina_senders[c], s)[j] # s
      BY <2>1, HinaWithout DEF Once
    <3>. QED BY <2>2, <3>1, Zenon DEF hina!Left
  <2>5. Sending'
    <3>1. ASSUME NEW e \in hina!Tasks, NEW x, Among(hina_senders[e], x), x # s
          PROVE  blocked'[x] /\ at'[x] = "deliver" /\ out[x][1] = e
      <4>1. PICK j \in 1 .. Len(hina_senders[e]) : hina_senders[e][j] = x
        BY <3>1 DEF Among
      <4>2. blocked[x] /\ at[x] = "deliver" /\ out[x][1] = e /\ x \in hina!Tasks
        BY <4>1 DEF QueueInv, Sending, SendersOf
      <4>. QED BY <1>1, <1>3, <2>2, <3>1, <4>2
    <3>2. SendersOf(c, hina_senders'[c], blocked', at', out')
      BY <1>2, <2>4, <3>1 DEF SendersOf
    <3>3. ASSUME NEW e \in hina!Tasks \ {c} PROVE SendersOf(e, hina_senders'[e], blocked', at', out')
      <4>1. hina_senders'[e] = hina_senders[e] /\ Once(hina_senders[e])
        BY <2>2 DEF QueueInv, Sending, SendersOf
      <4>2. ASSUME NEW j \in 1 .. Len(hina_senders[e]) PROVE Among(hina_senders[e], hina_senders[e][j]) /\ hina_senders[e][j] # s
        BY <2>1 DEF Among, QueueInv, Sending, SendersOf
      <4>3. ASSUME NEW j \in 1 .. Len(hina_senders[e])
            PROVE  blocked'[hina_senders[e][j]] /\ at'[hina_senders[e][j]] = "deliver" /\ out[hina_senders[e][j]][1] = e
        BY <3>1, <4>2
      <4>. QED BY <1>2, <4>1, <4>3 DEF SendersOf
    <3>. QED BY <3>2, <3>3, Zenon DEF Sending
  <2>6. HandedOver'
    <3>1. ASSUME NEW t \in hina!Tasks, at'[t] = "deliver"
          PROVE  /\ out[t][1] \in hina!Tasks /\ out[t][3] \in {"run", "receive", "exit"}
                 /\ ~blocked'[t] => /\ blocked'[out[t][1]] /\ at'[out[t][1]] = "taken"
                                    /\ wait_for'[out[t][1]] = t
      <4>1. t # c /\ at[t] = "deliver"
        BY <1>5, <3>1
      <4>2. CASE t = s
        BY <1>4, <1>6, <2>1, <2>2, <4>1, <4>2
      <4>3. CASE t # s
        <5>1. out[t][1] \in hina!Tasks /\ out[t][3] \in {"run", "receive", "exit"} /\ blocked'[t] = blocked[t]
          BY <1>6, <2>2, <4>1, <4>3
        <5>2. ASSUME ~blocked'[t]
              PROVE  blocked'[out[t][1]] /\ at'[out[t][1]] = "taken" /\ wait_for'[out[t][1]] = t
          <6>1. blocked[out[t][1]] /\ at[out[t][1]] = "taken" /\ wait_for[out[t][1]] = t
            BY <1>6, <4>1, <5>1, <5>2
          <6>2. out[t][1] # c /\ out[t][1] # s
            BY <1>1, <2>1, <6>1
          <6>. QED BY <1>3, <2>2, <5>1, <6>1, <6>2
        <5>. QED BY <5>1, <5>2
      <4>. QED BY <4>2, <4>3
    <3>2. \A t \in hina!Tasks : Handed(t, blocked', at', out', wait_for')
      BY <1>2, <3>1 DEF Handed
    <3>. QED BY <3>2, Zenon DEF HandedOver
  <2>7. Receiving'
    BY <1>3, <1>4, <2>2 DEF QueueInv, Receiving
  <2>8. hina_senders' \in [hina!Tasks -> Seq(hina!Tasks)]
    BY <1>8, <2>2, <2>4 DEF QueueInv
  <2>. QED BY <1>2, <1>4, <2>2, <2>3, <2>5, <2>6, <2>7, <2>8 DEF QueueInv
<1>. QED BY <1>7, <1>8 DEF hina!recv_message

LEMMA TakenKeeps ==
    ASSUME hina!HinaVmAssumption, QueueInv, NEW c \in hina!Tasks, hina!taken(c)
    PROVE  QueueInv'
<1>1. cpu = c /\ at[c] = "taken" /\ ~blocked[c]
  BY DEF hina!taken, QueueInv, Scheduled
<1>2. /\ wait_for' = [wait_for EXCEPT ![c] = hina!IPC_DENY] /\ at' = [at EXCEPT ![c] = "run"]
      /\ UNCHANGED <<blocked, hina_senders, out, cpu, runqueue>>
  BY DEF hina!taken
<1>3. /\ \A t \in hina!Tasks \ {c} : wait_for'[t] = wait_for[t] /\ at'[t] = at[t]
      /\ wait_for'[c] = hina!IPC_DENY /\ at'[c] = "run" /\ DOMAIN wait_for' = hina!Tasks
      /\ at' \in [hina!Tasks -> {"run", "deliver", "receive", "taken", "exit"}]
  BY <1>2 DEF QueueInv
<1>4. Sending'
  <2>1. ASSUME NEW e \in hina!Tasks PROVE SendersOf(e, hina_senders'[e], blocked', at', out')
    <3>1. ASSUME NEW i \in 1 .. Len(hina_senders[e])
          PROVE  blocked[hina_senders[e][i]] /\ at'[hina_senders[e][i]] = "deliver" /\ out[hina_senders[e][i]][1] = e
      <4>1. blocked[hina_senders[e][i]] /\ at[hina_senders[e][i]] = "deliver" /\ out[hina_senders[e][i]][1] = e
            /\ hina_senders[e][i] \in hina!Tasks
        BY DEF QueueInv, Sending, SendersOf
      <4>. QED BY <1>1, <1>3, <4>1
    <3>. QED BY <1>2, <3>1 DEF QueueInv, Sending, SendersOf
  <2>. QED BY <2>1, Zenon DEF Sending
<1>5. HandedOver'
  <2>1. ASSUME NEW t \in hina!Tasks PROVE Handed(t, blocked', at', out', wait_for')
    <3>1. Handed(t, blocked, at, out, wait_for)
      BY DEF QueueInv, HandedOver
    <3>. QED BY <1>1, <1>2, <1>3, <3>1 DEF Handed
  <2>. QED BY <2>1, Zenon DEF HandedOver
<1>6. Receiving'
  BY <1>2, <1>3, TaskNumbers DEF QueueInv, Receiving
<1>. QED BY <1>2, <1>3, <1>4, <1>5, <1>6 DEF QueueInv, Scheduled

\* Where the scheduler alone moves.
LEMMA ScheduleKeeps ==
    ASSUME QueueInv, UNCHANGED <<at, wait_for, hina_senders, out>>,
           \A t \in hina!Tasks : blocked[t] => blocked'[t],
           \A t \in hina!Tasks : at[t] = "deliver" => blocked'[t] = blocked[t],
           Scheduled(blocked', cpu', runqueue')
    PROVE  QueueInv'
<1>1. ASSUME NEW e \in hina!Tasks PROVE SendersOf(e, hina_senders'[e], blocked', at', out')
  <2>1. ASSUME NEW i \in 1 .. Len(hina_senders[e])
        PROVE  blocked'[hina_senders[e][i]] /\ at[hina_senders[e][i]] = "deliver" /\ out[hina_senders[e][i]][1] = e
    <3>1. blocked[hina_senders[e][i]] /\ at[hina_senders[e][i]] = "deliver" /\ out[hina_senders[e][i]][1] = e
          /\ hina_senders[e][i] \in hina!Tasks
      BY DEF QueueInv, Sending, SendersOf
    <3>. QED BY <3>1
  <2>. QED BY <2>1 DEF QueueInv, Sending, SendersOf
<1>2. ASSUME NEW t \in hina!Tasks PROVE Handed(t, blocked', at', out', wait_for')
  <2>1. Handed(t, blocked, at, out, wait_for)
    BY DEF QueueInv, HandedOver
  <2>. QED BY <2>1 DEF Handed
<1>3. Sending' /\ HandedOver'
  BY <1>1, <1>2, Zenon DEF Sending, HandedOver
<1>. QED BY <1>3 DEF QueueInv, Receiving

\* A task c that stops running, and is put at the end of the queue or blocked.
LEMMA PreemptKeeps ==
    ASSUME hina!HinaVmAssumption, QueueInv, NEW t \in HinaNatives, hina!preempt(t)
    PROVE  QueueInv'
<1>1. t \in hina!Tasks /\ cpu = t /\ hina!switch_from(Append(runqueue, t)) /\ UNCHANGED <<at, blocked, wait_for, hina_senders, out>>
  BY TaskNumbers DEF hina!preempt, hina!ipcVars
<1>2. runqueue \in Seq(hina!Tasks) /\ Once(runqueue) /\ ~Among(runqueue, t)
  BY <1>1 DEF QueueInv, Scheduled
<1>3. PICK q \in Seq(hina!Tasks) : /\ q = Append(runqueue, t) /\ Once(q)
                              /\ \A x : Among(q, x) <=> x = t \/ Among(runqueue, x)
  BY <1>1, <1>2, AppendOnce, Zenon
<1>4. blocked' \in [hina!Tasks -> BOOLEAN] /\ \A s \in hina!Tasks : ~blocked'[s] <=> Among(q, s)
  BY <1>1, <1>3 DEF QueueInv, Scheduled
<1>5. Scheduled(blocked', cpu', runqueue')
  BY <1>1, <1>3, <1>4, SwitchSchedules
<1>. QED BY <1>1, <1>5, ScheduleKeeps

LEMMA IdleKeeps ==
    ASSUME hina!HinaVmAssumption, QueueInv, hina!idle_task
    PROVE  QueueInv'
<1>1. cpu = hina!Idle /\ hina!switch_from(runqueue) /\ UNCHANGED <<at, blocked, wait_for, hina_senders, out>>
  BY DEF hina!idle_task, hina!ipcVars
<1>2. /\ runqueue \in Seq(hina!Tasks) /\ Once(runqueue) /\ blocked' \in [hina!Tasks -> BOOLEAN]
      /\ \A t \in hina!Tasks : ~blocked'[t] <=> Among(runqueue, t)
  BY <1>1, TaskNumbers DEF QueueInv, Scheduled
<1>3. Scheduled(blocked', cpu', runqueue')
  BY <1>1, <1>2, SwitchSchedules
<1>. QED BY <1>1, <1>3, ScheduleKeeps

LEMMA ExitedKeeps ==
    ASSUME hina!HinaVmAssumption, QueueInv, hina!exited
    PROVE  QueueInv'
<1>1. /\ HinaTask \in hina!Tasks /\ cpu = HinaTask /\ at[HinaTask] = "exit" /\ blocked' = [blocked EXCEPT ![HinaTask] = TRUE]
      /\ hina!switch_from(runqueue) /\ UNCHANGED <<at, wait_for, hina_senders, out>>
  BY TaskNumbers DEF hina!exited
<1>2. /\ runqueue \in Seq(hina!Tasks) /\ Once(runqueue) /\ blocked' \in [hina!Tasks -> BOOLEAN]
      /\ \A t \in hina!Tasks : ~blocked'[t] <=> Among(runqueue, t)
      /\ \A t \in hina!Tasks \ {HinaTask} : blocked'[t] = blocked[t]
      /\ blocked'[HinaTask]
  BY <1>1 DEF QueueInv, Scheduled
<1>3. Scheduled(blocked', cpu', runqueue')
  BY <1>1, <1>2, SwitchSchedules
<1>. QED BY <1>1, <1>2, <1>3, ScheduleKeeps

LEMMA SameQueues == ASSUME QueueInv, UNCHANGED queueVars PROVE QueueInv'
  BY DEF queueVars, QueueInv, Sending, HandedOver, Receiving

\* HinaVM's instructions, whatever the program.
LEMMA InterpretKeeps ==
    ASSUME hina!HinaVmAssumption, QueueInv, hina!hinavm_run
    PROVE  QueueInv'
<1>1. HinaTask \in hina!Tasks /\ Pager \in hina!Tasks
  BY TaskNumbers
<1>2. CASE hina!compute \/ hina!control \/ hina!message
  <2>1. UNCHANGED queueVars
    BY <1>2, Zenon DEF hina!compute, hina!control, hina!message, hina!ipcVars, queueVars
  <2>. QED BY <2>1, SameQueues
<1>3. CASE hina!send
  <2>1. cpu = HinaTask /\ at[HinaTask] = "run" /\ regs[hina!inst.b] \in hina!Tasks
    BY <1>3 DEF hina!send, hina!At, hina!Interprets
  <2>2. \/ hina!send_ready(HinaTask, regs[hina!inst.b], hina!FromVM, "run")
        \/ hina!send_block(HinaTask, regs[hina!inst.b], hina!FromVM, "run")
        \/ UNCHANGED <<hina!ipcVars, cpu, runqueue>>
    BY <1>3, Zenon DEF hina!send
  <2>3. CASE hina!send_ready(HinaTask, regs[hina!inst.b], hina!FromVM, "run")
    BY <1>1, <2>1, <2>3, SendReadyKeeps
  <2>4. CASE hina!send_block(HinaTask, regs[hina!inst.b], hina!FromVM, "run")
    BY <1>1, <2>1, <2>4, SendBlockKeeps
  <2>5. CASE UNCHANGED <<hina!ipcVars, cpu, runqueue>>
    BY <2>5, SameQueues DEF hina!ipcVars, queueVars
  <2>. QED BY <2>2, <2>3, <2>4, <2>5
<1>4. CASE hina!recv
  <2>1. cpu = HinaTask /\ at[HinaTask] = "run" /\ hina!recv_message(HinaTask, regs[hina!inst.b])
    BY <1>4 DEF hina!recv, hina!At, hina!Interprets
  <2>. QED BY <1>1, <2>1, RecvKeeps
<1>5. CASE hina!task_exit
  <2>1. cpu = HinaTask /\ at[HinaTask] = "run"
    BY <1>5 DEF hina!task_exit, hina!At, hina!Interprets
  <2>2. \/ hina!send_ready(HinaTask, Pager, hina!Exception, "exit")
        \/ hina!send_block(HinaTask, Pager, hina!Exception, "exit")
        \/ /\ at' = [at EXCEPT ![HinaTask] = "exit"]
           /\ UNCHANGED <<blocked, wait_for, hina_senders, out, cpu, runqueue>>
    BY <1>5, Zenon DEF hina!task_exit
  <2>3. CASE hina!send_ready(HinaTask, Pager, hina!Exception, "exit")
    BY <1>1, <2>1, <2>3, SendReadyKeeps
  <2>4. CASE hina!send_block(HinaTask, Pager, hina!Exception, "exit")
    BY <1>1, <2>1, <2>4, SendBlockKeeps
  <2>5. CASE at' = [at EXCEPT ![HinaTask] = "exit"] /\ UNCHANGED <<blocked, wait_for, hina_senders, out, cpu, runqueue>>
    <3>1. /\ \A t \in hina!Tasks \ {HinaTask} : at'[t] = at[t]
          /\ at'[HinaTask] = "exit" /\ at' \in [hina!Tasks -> {"run", "deliver", "receive", "taken", "exit"}]
      BY <1>1, <2>5 DEF QueueInv
    <3>2. ASSUME NEW e \in hina!Tasks PROVE SendersOf(e, hina_senders'[e], blocked', at', out')
      <4>1. ASSUME NEW i \in 1 .. Len(hina_senders[e])
            PROVE  blocked[hina_senders[e][i]] /\ at'[hina_senders[e][i]] = "deliver" /\ out[hina_senders[e][i]][1] = e
        <5>1. blocked[hina_senders[e][i]] /\ at[hina_senders[e][i]] = "deliver" /\ out[hina_senders[e][i]][1] = e
              /\ hina_senders[e][i] \in hina!Tasks
          BY DEF QueueInv, Sending, SendersOf
        <5>. QED BY <2>1, <3>1, <5>1
      <4>. QED BY <2>5, <4>1 DEF QueueInv, Sending, SendersOf
    <3>3. ASSUME NEW t \in hina!Tasks PROVE Handed(t, blocked', at', out', wait_for')
      <4>1. Handed(t, blocked, at, out, wait_for)
        BY DEF QueueInv, HandedOver
      <4>. QED BY <2>1, <2>5, <3>1, <4>1 DEF Handed
    <3>4. Sending' /\ HandedOver'
      BY <3>2, <3>3, Zenon DEF Sending, HandedOver
    <3>5. Receiving'
      BY <2>1, <2>5, <3>1 DEF QueueInv, Receiving
    <3>. QED BY <2>5, <3>1, <3>4, <3>5 DEF QueueInv, Scheduled
  <2>. QED BY <2>2, <2>3, <2>4, <2>5
<1>6. CASE hina!exited
  BY <1>6, ExitedKeeps
<1>. QED BY <1>2, <1>3, <1>4, <1>5, <1>6 DEF hina!hinavm_run

LEMMA NextQueues ==
    ASSUME hina!HinaVmAssumption, QueueInv, [hina!Next]_(hina!vars)
    PROVE  QueueInv'
<1>1. CASE hina!idle_task
  BY <1>1, IdleKeeps
<1>2. ASSUME NEW t \in hina!Tasks, hina!Kernel(t) PROVE QueueInv'
  <2>1. CASE hina!deliver(t)
    BY <2>1, DeliverKeeps
  <2>2. CASE hina!taken(t)
    BY <2>2, TakenKeeps
  <2>3. CASE hina!hinavm_run
    BY <2>3, InterpretKeeps
  <2>4. CASE hina!answer(t)
    <3>1. cpu = t /\ at[t] = "receive" /\ hina!recv_message(t, HinaTask)
      BY <2>4 DEF hina!answer
    <3>. QED BY <3>1, RecvKeeps
  <2>. QED BY <1>2, <2>1, <2>2, <2>3, <2>4 DEF hina!Kernel
<1>3. ASSUME NEW t \in HinaNatives, NEW v, hina!ping(t, v) PROVE QueueInv'
  <2>1. t \in hina!Tasks /\ HinaTask \in hina!Tasks /\ cpu = t /\ at[t] = "run"
    BY <1>3, TaskNumbers DEF hina!ping, hina!Called
  <2>2. \/ hina!send_ready(t, HinaTask, hina!Ping(t, v), "receive")
        \/ hina!send_block(t, HinaTask, hina!Ping(t, v), "receive")
        \/ UNCHANGED <<hina!ipcVars, cpu, runqueue>>
    BY <1>3, Zenon DEF hina!ping
  <2>3. CASE hina!send_ready(t, HinaTask, hina!Ping(t, v), "receive")
    BY <2>1, <2>3, SendReadyKeeps
  <2>4. CASE hina!send_block(t, HinaTask, hina!Ping(t, v), "receive")
    BY <2>1, <2>4, SendBlockKeeps
  <2>5. CASE UNCHANGED <<hina!ipcVars, cpu, runqueue>>
    BY <2>5, SameQueues DEF hina!ipcVars, queueVars
  <2>. QED BY <2>2, <2>3, <2>4, <2>5
<1>4. ASSUME NEW t \in HinaNatives, hina!receive(t) PROVE QueueInv'
  <2>1. t \in hina!Tasks /\ cpu = t /\ at[t] = "run" /\ hina!recv_message(t, hina!IPC_ANY)
    BY <1>4, TaskNumbers DEF hina!receive, hina!Called
  <2>. QED BY <2>1, RecvKeeps
<1>5. ASSUME NEW t \in HinaNatives, hina!preempt(t) PROVE QueueInv'
  BY <1>5, PreemptKeeps
<1>6. CASE UNCHANGED hina!vars
  BY <1>6, SameQueues DEF hina!vars, hina!ipcVars, queueVars
<1>. QED BY <1>1, <1>2, <1>3, <1>4, <1>5, <1>6 DEF hina!Next

LEMMA InitQueues == ASSUME hina!HinaVmAssumption, hina!Init PROVE QueueInv
<1>1. PICK n \in Nat : n = Cardinality(hina!Tasks) /\ IsFiniteSet(hina!Tasks)
  <2>1. hina!WORD - 2 \in Int /\ hina!Tasks \subseteq 1 .. hina!WORD - 2
    BY TaskNumbers
  <2>2. IsFiniteSet(hina!Tasks)
    <3>1. IsFiniteSet(1 .. hina!WORD - 2)
      BY <2>1, FS_Interval
    <3>. QED BY <2>1, <3>1, FS_Subset
  <2>. QED BY <2>2, FS_CardinalityType
<1>2. runqueue \in [1 .. n -> hina!Tasks] /\ {runqueue[i] : i \in 1 .. n} = hina!Tasks
  BY <1>1, HinaCounts DEF hina!Init
<1>3. runqueue \in Injection(1 .. n, hina!Tasks)
  <2>1. runqueue \in Surjection(1 .. n, hina!Tasks)
    BY <1>2 DEF Surjection
  <2>2. IsFiniteSet(1 .. n) /\ Cardinality(1 .. n) = n
    BY FS_Interval
  <2>. QED BY <1>1, <2>1, <2>2, FS_SurjSameCardinalityImpliesInj
<1>4. runqueue \in Seq(hina!Tasks) /\ Len(runqueue) = n
  BY <1>2
<1>5. Once(runqueue)
  BY <1>3, <1>4 DEF Once, Injection, IsInjective
<1>6. \A t \in hina!Tasks : Among(runqueue, t)
  BY <1>2, <1>4 DEF Among
<1>7. ~Among(runqueue, hina!Idle)
  BY <1>4, TaskNumbers DEF Among
<1>8. Scheduled(blocked, cpu, runqueue)
  BY <1>4, <1>5, <1>6, <1>7, TaskNumbers DEF hina!Init, Scheduled
<1>9. /\ at = [t \in hina!Tasks |-> "run"] /\ hina_senders = [t \in hina!Tasks |-> <<>>]
      /\ wait_for = [t \in hina!Tasks |-> hina!IPC_DENY] /\ DOMAIN out = hina!Tasks
  BY DEF hina!Init
<1>10. Sending /\ HandedOver /\ Receiving
  BY <1>9, TaskNumbers DEF Sending, SendersOf, Once, HandedOver, Handed, Receiving
<1>. QED BY <1>8, <1>9, <1>10 DEF QueueInv

LEMMA QueuesSay == ASSUME hina!HinaVmAssumption, QueueInv PROVE hina!QueuesSound
<1>. DEFINE InQueue(t, q) == {i \in DOMAIN q : q[i] = t}
<1>1. ASSUME NEW q \in Seq(hina!Tasks), Once(q), NEW t
      PROVE  hina!Cardinality(InQueue(t, q)) = IF Among(q, t) THEN 1 ELSE 0
  <2>1. DOMAIN q = 1 .. Len(q)
    OBVIOUS
  <2>2. CASE Among(q, t)
    <3>1. PICK i \in 1 .. Len(q) : q[i] = t
      BY <2>2 DEF Among
    <3>2. InQueue(t, q) = {i}
      BY <1>1, <2>1, <3>1 DEF Once
    <3>. QED BY <2>2, <3>2, FS_Singleton, HinaCounts
  <2>3. CASE ~Among(q, t)
    <3>1. InQueue(t, q) = {}
      BY <2>1, <2>3 DEF Among
    <3>. QED BY <2>3, <3>1, FS_EmptySet, HinaCounts
  <2>. QED BY <2>2, <2>3
<1>2. ASSUME NEW t \in hina!Tasks
      PROVE  hina!Cardinality(InQueue(t, runqueue)) + hina!Truth(cpu = t) = hina!Truth(~blocked[t])
  <2>1. hina!Cardinality(InQueue(t, runqueue)) = IF Among(runqueue, t) THEN 1 ELSE 0
    BY <1>1 DEF QueueInv, Scheduled
  <2>2. (~blocked[t] <=> t = cpu \/ Among(runqueue, t)) /\ (t = cpu => ~Among(runqueue, t))
    BY DEF QueueInv, Scheduled
  <2>. HIDE DEF InQueue
  <2>. QED BY <2>1, <2>2 DEF hina!Truth
<1>3. ASSUME NEW t \in hina!Tasks, NEW d \in hina!Tasks, InQueue(t, hina_senders[d]) # {}
      PROVE  /\ blocked[t] /\ at[t] = "deliver" /\ out[t][1] = d
             /\ hina!Cardinality(InQueue(t, hina_senders[d])) = 1
  <2>1. hina_senders[d] \in Seq(hina!Tasks) /\ SendersOf(d, hina_senders[d], blocked, at, out)
    BY DEF QueueInv, Sending
  <2>2. PICK i \in 1 .. Len(hina_senders[d]) : hina_senders[d][i] = t
    BY <1>3, <2>1
  <2>3. Among(hina_senders[d], t) /\ Once(hina_senders[d])
    BY <2>1, <2>2 DEF Among, SendersOf
  <2>4. hina!Cardinality(InQueue(t, hina_senders[d])) = 1
    BY <1>1, <2>1, <2>3
  <2>. QED BY <2>1, <2>2, <2>4 DEF SendersOf
<1>. QED BY <1>2, <1>3, Zenon DEF hina!QueuesSound

-----------------------------------------------------------------------------
\* The programs but echo.
PlainPrograms == {hina!pong, hina!client, hina!stray, hina!illegal, hina!nobody, hina!self, hina!spin}

\* What is used of an instruction.
InstOK(x) ==
    /\ x.op \in hina!Binops => x.op \in {"SUB", "EQ", "NE", "LT", "LE"} /\ x.b \in 0 .. 5 /\ x.c \in 0 .. 5
    /\ x.op = "MOVI" => x.imm \in Int
    /\ x.op = "MOV" => x.b \in 0 .. 5
    /\ x.op \in {"LDM", "STM"} => x.w \in {WordBits, WordBits \div 2} /\ x.a \in 0 .. 5 /\ x.field \in {"type", "src", "value"}
    /\ x.op = "STM" => x.w = WordBits

LEMMA Widths ==
    ASSUME hina!HinaVmAssumption
    PROVE  /\ WordBits \div 1 = WordBits /\ hina!WORD \in Nat /\ hina!WORD > 42 /\ 2^WordBits = hina!WORD /\ 2^(WordBits \div 2) \in 1 .. hina!WORD - 1
           /\ \A n \in Int : n % 2^ImmBits \in Int /\ n % hina!WORD \in hina!Words
           /\ \A n \in 0 .. 42 : hina!Signed(n % 2^ImmBits, ImmBits) % hina!WORD = n
           /\ \A n \in Int : hina!Signed(n % 2^ImmBits, ImmBits) \in Int
<1>1. PICK w \in Nat, i \in Nat, h \in Nat, b \in Nat :
         w = 2^WordBits /\ i = 2^ImmBits /\ h = 2^(ImmBits - 1) /\ b = 2^(WordBits \div 2)
  BY DEF hina!HinaVmAssumption, hina!WORD
<1>2. 42 < h /\ h < i /\ i =< w /\ 0 < b /\ b < w /\ WordBits \in Nat
  BY <1>1, Zenon DEF hina!HinaVmAssumption, hina!WORD
<1>3. \A n \in Int : n % i \in Int /\ n % w \in 0 .. w - 1
  BY <1>2
<1>4. \A n \in 0 .. 42 : n % i = n /\ n % w = n /\ ~(n >= h)
  BY <1>2
<1>5. \A n \in Int : n % 2^ImmBits \in Int /\ n % hina!WORD \in hina!Words
  BY <1>1, <1>3, Zenon DEF hina!WORD, hina!Words
<1>6. \A n \in 0 .. 42 : hina!Signed(n % 2^ImmBits, ImmBits) % hina!WORD = n
  BY <1>1, <1>4, Zenon DEF hina!Signed, hina!WORD
<1>7. \A n \in Int : hina!Signed(n % 2^ImmBits, ImmBits) \in Int
  <2>1. \A n \in Int : (IF n % i >= h THEN (n % i) - i ELSE n % i) \in Int
    BY <1>3
  <2>. QED BY <1>1, <2>1, Zenon DEF hina!Signed
<1>8. WordBits \div 1 = WordBits
  BY <1>2
<1>9. b \in 1 .. w - 1 /\ w > 42
  BY <1>2
<1>. QED BY <1>1, <1>5, <1>6, <1>7, <1>8, <1>9, Zenon DEF hina!WORD

LEMMA PongCode ==
    ASSUME hina!HinaVmAssumption
    PROVE  /\ Len(hina!pong) = 17
           /\ \A i \in 1 .. 17 : InstOK(hina!pong[i])
           /\ \A i \in 1 .. 17 :
                /\ hina!pong[i].op \in hina!Binops \cup {"MOVI", "MOV"} => i \in {2, 4, 9, 11}
                /\ hina!pong[i].op = "LABEL" => i \in {1, 15}
                /\ hina!pong[i].op \in {"NOP", "PRINT", "JMP", "JMP_IF", "LABEL"} => i \in {1, 5, 8, 14, 15, 16, 17}
                /\ hina!pong[i].op = "LDM" => i \in {6, 7}
                /\ hina!pong[i].op = "STM" => i \in {10, 12}
                /\ hina!pong[i].op \in {"SEND", "REPLY"} => i = 13
                /\ hina!pong[i].op = "RECV" => i = 3 /\ hina!pong[i].b = 0
           /\ hina!pong[13].op = "REPLY"
           /\ hina!pong[2] = hina!I_MOVI(0, hina!IPC_ANY) /\ hina!pong[9] = hina!I_MOVI(0, hina!PING_REPLY_MSG) /\ hina!pong[11] = hina!I_MOVI(0, 42)
           /\ hina!pong[10] = hina!I_MSG("STM", 1, 0, "type") /\ hina!pong[12] = hina!I_MSG("STM", 1, 0, "value")
<1>1. WordBits \div 1 = WordBits /\ 0 % 2^ImmBits \in Int /\ 10 % 2^ImmBits \in Int /\ 42 % 2^ImmBits \in Int
  BY Widths
<1>2. Len(hina!pong) = 17
  BY DEF hina!pong
<1>3. /\ hina!pong[1] = hina!I_LABEL(0) /\ hina!pong[2] = hina!I_MOVI(0, hina!IPC_ANY) /\ hina!pong[3] = hina!I_IPC("RECV", 0, 0)
      /\ hina!pong[4] = hina!I_BINOP("NE", 0, 0, 0) /\ hina!pong[5] = hina!I_JMP_IF(1, 0)
      /\ hina!pong[6] = hina!I_MSG("LDM", 1, 0, "value") /\ hina!pong[7] = hina!I_MSG("LDM", 2, 1, "src")
      /\ hina!pong[8] = hina!I_OP("PRINT") /\ hina!pong[9] = hina!I_MOVI(0, hina!PING_REPLY_MSG)
      /\ hina!pong[10] = hina!I_MSG("STM", 1, 0, "type") /\ hina!pong[11] = hina!I_MOVI(0, 42)
      /\ hina!pong[12] = hina!I_MSG("STM", 1, 0, "value") /\ hina!pong[13] = hina!I_IPC("REPLY", 0, 1)
      /\ hina!pong[14] = hina!I_JMP(0) /\ hina!pong[15] = hina!I_LABEL(1) /\ hina!pong[16] = hina!I_OP("PRINT") /\ hina!pong[17] = hina!I_JMP(0)
  BY DEF hina!pong
<1>. HIDE DEF hina!pong
<1>4. ASSUME NEW i \in 1 .. 17
      PROVE  /\ InstOK(hina!pong[i])
             /\ hina!pong[i].op \in hina!Binops \cup {"MOVI", "MOV"} => i \in {2, 4, 9, 11}
             /\ hina!pong[i].op = "LABEL" => i \in {1, 15}
             /\ hina!pong[i].op \in {"NOP", "PRINT", "JMP", "JMP_IF", "LABEL"} => i \in {1, 5, 8, 14, 15, 16, 17}
             /\ hina!pong[i].op = "LDM" => i \in {6, 7}
             /\ hina!pong[i].op = "STM" => i \in {10, 12}
             /\ hina!pong[i].op \in {"SEND", "REPLY"} => i = 13
             /\ hina!pong[i].op = "RECV" => i = 3 /\ hina!pong[i].b = 0
  <2>1. \/ i = 1 \/ i = 2 \/ i = 3 \/ i = 4 \/ i = 5 \/ i = 6 \/ i = 7 \/ i = 8 \/ i = 9
        \/ i = 10 \/ i = 11 \/ i = 12 \/ i = 13 \/ i = 14 \/ i = 15 \/ i = 16 \/ i = 17
    OBVIOUS
  <2>2. CASE i \in {2, 9, 11}
    BY <1>1, <1>3, <2>2 DEF InstOK, hina!Binops, hina!I_MOVI, hina!IPC_ANY, hina!PING_REPLY_MSG
  <2>3. CASE i \in {6, 7, 10, 12}
    BY <1>1, <1>3, <2>3 DEF InstOK, hina!Binops, hina!I_MSG
  <2>4. CASE i \in {1, 5, 8, 14, 15, 16, 17}
    BY <1>3, <2>4 DEF InstOK, hina!Binops, hina!I_LABEL, hina!I_JMP, hina!I_JMP_IF, hina!I_OP
  <2>5. CASE i \in {3, 4, 13}
    BY <1>3, <2>5 DEF InstOK, hina!Binops, hina!I_IPC, hina!I_BINOP
  <2>. QED BY <2>1, <2>2, <2>3, <2>4, <2>5
<1>5. hina!pong[13].op = "REPLY"
  BY <1>3 DEF hina!I_IPC
<1>. QED BY <1>2, <1>3, <1>4, <1>5

LEMMA ClientCode ==
    ASSUME hina!HinaVmAssumption
    PROVE  /\ Len(hina!client) = 12
           /\ \A i \in 1 .. 12 :
                /\ InstOK(hina!client[i]) /\ hina!client[i].op # "RECV"
                /\ hina!client[i].op = "LABEL" => i = 7
                /\ hina!client[i].op = "STM" => i = 3
           /\ hina!client[2] = hina!I_MOVI(1, hina!PING_MSG) /\ hina!client[3] = hina!I_MSG("STM", 1, 1, "type")
<1>1. WordBits \div 1 = WordBits /\ 1 % 2^ImmBits \in Int /\ 9 % 2^ImmBits \in Int /\ 2 % 2^ImmBits \in Int
  BY Widths
<1>2. Len(hina!client) = 12
  BY DEF hina!client
<1>3. /\ hina!client[1] = hina!I_MOVI(0, 1) /\ hina!client[2] = hina!I_MOVI(1, hina!PING_MSG) /\ hina!client[3] = hina!I_MSG("STM", 1, 1, "type")
      /\ hina!client[4] = hina!I_IPC("SEND", 2, 0) /\ hina!client[5] = hina!I_MOVI(3, 2) /\ hina!client[6] = hina!I_MOVI(4, 1)
      /\ hina!client[7] = hina!I_LABEL(2) /\ hina!client[8] = hina!I_BINOP("SUB", 3, 3, 4)
      /\ hina!client[9] = hina!I_BINOP("LE", 5, 4, 3) /\ hina!client[10] = hina!I_JMP_IF(2, 5) /\ hina!client[11] = hina!I_OP("NOP")
      /\ hina!client[12] = hina!I_OP("EXIT")
  BY DEF hina!client
<1>. HIDE DEF hina!client
<1>4. ASSUME NEW i \in 1 .. 12
      PROVE  /\ InstOK(hina!client[i]) /\ hina!client[i].op # "RECV"
             /\ hina!client[i].op = "LABEL" => i = 7
             /\ hina!client[i].op = "STM" => i = 3
  <2>1. \/ i = 1 \/ i = 2 \/ i = 3 \/ i = 4 \/ i = 5 \/ i = 6 \/ i = 7 \/ i = 8 \/ i = 9
        \/ i = 10 \/ i = 11 \/ i = 12
    OBVIOUS
  <2>2. CASE i \in {1, 2, 5, 6}
    BY <1>1, <1>3, <2>2 DEF InstOK, hina!Binops, hina!I_MOVI, hina!PING_MSG
  <2>3. CASE i \in {3, 4, 8, 9}
    BY <1>1, <1>3, <2>3 DEF InstOK, hina!Binops, hina!I_MSG, hina!I_IPC, hina!I_BINOP
  <2>4. CASE i \in {7, 10, 11, 12}
    BY <1>3, <2>4 DEF InstOK, hina!Binops, hina!I_LABEL, hina!I_JMP_IF, hina!I_OP
  <2>. QED BY <2>1, <2>2, <2>3, <2>4
<1>. QED BY <1>2, <1>3, <1>4

LEMMA PongIsNotClient == ASSUME hina!HinaVmAssumption PROVE hina!pong # hina!client
  BY PongCode, ClientCode

LEMMA OtherCode ==
    ASSUME hina!HinaVmAssumption, NEW q \in {hina!stray, hina!illegal, hina!nobody, hina!self, hina!spin}
    PROVE  /\ Len(q) \in 1 .. 6
           /\ \A i \in 1 .. Len(q) : InstOK(q[i]) /\ q[i].op \notin {"RECV", "STM"}
<1>1. HinaTask \in Int /\ \A n \in Int : n % 2^ImmBits \in Int
  BY Widths, TaskNumbers
<1>2. -1 \in Int /\ 9 \in Int
  OBVIOUS
<1>3. CASE q = hina!stray
  <2>1. /\ Len(q) = 6 /\ q[1] = hina!I_MOVI(0, -1) /\ q[2] = hina!I_MOV(1, 0) /\ q[3] = hina!I_BINOP("LT", 2, 1, 3)
        /\ q[4] = hina!I_BINOP("EQ", 2, 2, 3) /\ q[5] = hina!I_JMP_IF(0, 2) /\ q[6] = hina!I_JMP(5)
    BY <1>3 DEF hina!stray
  <2>2. hina!I_MOVI(0, -1).imm \in Int /\ hina!I_MOVI(0, -1).op = "MOVI"
    BY <1>1, <1>2 DEF hina!I_MOVI
  <2>3. ASSUME NEW i \in 1 .. 6 PROVE InstOK(q[i]) /\ q[i].op \notin {"RECV", "STM"}
    <3>1. i = 1 \/ i = 2 \/ i = 3 \/ i = 4 \/ i = 5 \/ i = 6
      OBVIOUS
    <3>. QED BY <2>1, <2>2, <3>1 DEF InstOK, hina!Binops, hina!I_MOV, hina!I_BINOP, hina!I_JMP_IF,
                                     hina!I_JMP
  <2>. QED BY <2>1, <2>3
<1>4. CASE q = hina!illegal
  <2>1. Len(q) = 1 /\ q[1] = hina!I_OP("ILLEGAL")
    BY <1>4 DEF hina!illegal
  <2>. QED BY <2>1 DEF InstOK, hina!Binops, hina!I_OP
<1>5. CASE q = hina!nobody
  <2>1. Len(q) = 2 /\ q[1] = hina!I_MOVI(0, 9) /\ q[2] = hina!I_IPC("SEND", 1, 0)
    BY <1>5 DEF hina!nobody
  <2>2. hina!I_MOVI(0, 9).imm \in Int /\ hina!I_MOVI(0, 9).op = "MOVI"
    BY <1>1, <1>2 DEF hina!I_MOVI
  <2>3. ASSUME NEW i \in 1 .. 2 PROVE InstOK(q[i]) /\ q[i].op \notin {"RECV", "STM"}
    <3>1. i = 1 \/ i = 2
      OBVIOUS
    <3>. QED BY <2>1, <2>2, <3>1 DEF InstOK, hina!Binops, hina!I_IPC
  <2>. QED BY <2>1, <2>3
<1>6. CASE q = hina!self
  <2>1. Len(q) = 3 /\ q[1] = hina!I_MOVI(0, HinaTask) /\ q[2] = hina!I_IPC("SEND", 1, 0) /\ q[3] = hina!I_OP("EXIT")
    BY <1>6 DEF hina!self
  <2>2. hina!I_MOVI(0, HinaTask).imm \in Int /\ hina!I_MOVI(0, HinaTask).op = "MOVI"
    BY <1>1 DEF hina!I_MOVI
  <2>3. ASSUME NEW i \in 1 .. 3 PROVE InstOK(q[i]) /\ q[i].op \notin {"RECV", "STM"}
    <3>1. i = 1 \/ i = 2 \/ i = 3
      OBVIOUS
    <3>. QED BY <2>1, <2>2, <3>1 DEF InstOK, hina!Binops, hina!I_IPC, hina!I_OP
  <2>. QED BY <2>1, <2>3
<1>7. CASE q = hina!spin
  <2>1. Len(q) = 3 /\ q[1] = hina!I_LABEL(0) /\ q[2] = hina!I_OP("NOP") /\ q[3] = hina!I_JMP(0)
    BY <1>7 DEF hina!spin
  <2>2. ASSUME NEW i \in 1 .. 3 PROVE InstOK(q[i]) /\ q[i].op \notin {"RECV", "STM"}
    <3>1. i = 1 \/ i = 2 \/ i = 3
      OBVIOUS
    <3>. QED BY <2>1, <3>1 DEF InstOK, hina!Binops, hina!I_LABEL, hina!I_OP, hina!I_JMP
  <2>. QED BY <2>1, <2>2
<1>. QED BY <1>3, <1>4, <1>5, <1>6, <1>7

\* All of it.
LEMMA CodeIs ==
    ASSUME hina!HinaVmAssumption, insts \in PlainPrograms
    PROVE  /\ Len(insts) \in 1 .. 17 /\ DOMAIN insts = 1 .. Len(insts)
           /\ \A i \in 1 .. Len(insts) :
                /\ InstOK(insts[i])
                /\ insts[i].op = "RECV" => insts = hina!pong /\ i = 3 /\ insts[i].b = 0
                /\ insts[i].op = "STM" => insts = hina!pong \/ (insts = hina!client /\ i = 3)
<1>1. CASE insts = hina!pong
  <2>1. DOMAIN hina!pong = 1 .. 17
    BY DEF hina!pong
  <2>2. Len(hina!pong) = 17 /\ 17 \in 1 .. 17
    BY PongCode
  <2>. QED BY <1>1, <2>1, <2>2, PongCode, Zenon
<1>2. CASE insts = hina!client
  <2>1. DOMAIN hina!client = 1 .. 12
    BY DEF hina!client
  <2>2. Len(hina!client) = 12 /\ 12 \in 1 .. 17
    BY ClientCode
  <2>. QED BY <1>2, <2>1, <2>2, ClientCode, Zenon
<1>3. CASE insts \in {hina!stray, hina!illegal, hina!nobody, hina!self, hina!spin}
  <2>1. DOMAIN insts = 1 .. Len(insts)
    BY <1>3 DEF hina!stray, hina!illegal, hina!nobody, hina!self, hina!spin
  <2>2. Len(insts) \in 1 .. 6 /\ \A i \in 1 .. Len(insts) : InstOK(insts[i]) /\ insts[i].op \notin {"RECV", "STM"}
    BY <1>3, OtherCode
  <2>. QED BY <2>1, <2>2
<1>. QED BY <1>1, <1>2, <1>3 DEF PlainPrograms

\* A jump goes behind a label of the program, or out of it.
LEMMA LabelsAre ==
    ASSUME hina!HinaVmAssumption, insts \in PlainPrograms, NEW l
    PROVE  hina!labels(l) = hina!Undefined \/ (hina!labels(l) \in 1 .. Len(insts) /\ insts[hina!labels(l)].op = "LABEL")
<1>1. PICK n \in Nat : n = Len(insts) /\ DOMAIN insts = 1 .. n
  <2>1. DOMAIN insts = 1 .. Len(insts) /\ Len(insts) \in 1 .. 17
    BY CodeIs, Zenon
  <2>2. \A n \in 1 .. 17 : n \in Nat
    OBVIOUS
  <2>. QED BY <2>1, <2>2, Zenon
<1>2. CASE hina!LabelDefs(l) = {}
  BY <1>2 DEF hina!labels
<1>3. CASE hina!LabelDefs(l) # {}
  <2>1. hina!LabelDefs(l) \subseteq 1 .. n
    BY <1>1 DEF hina!LabelDefs
  <2>. DEFINE S == {n - i : i \in hina!LabelDefs(l)}
  <2>2. S \in SUBSET Nat /\ S # {}
    BY <1>3, <2>1
  <2>3. PICK x \in S : \A y \in S : x =< y
    BY <2>2, LeastOf
  <2>4. PICK i \in hina!LabelDefs(l) : x = n - i
    BY <2>3
  <2>5. \A j \in hina!LabelDefs(l) : j =< i
    <3>1. ASSUME NEW j \in hina!LabelDefs(l) PROVE j =< i
      <4>1. n - i =< n - j
        BY <2>3, <2>4, Zenon
      <4>. QED BY <2>1, <4>1
    <3>. QED BY <3>1
  <2>6. hina!labels(l) \in hina!LabelDefs(l)
    BY <1>3, <2>4, <2>5 DEF hina!labels
  <2>7. insts[hina!labels(l)] = hina!I_LABEL(l)
    BY <2>6, Zenon DEF hina!LabelDefs
  <2>. QED BY <1>1, <2>1, <2>6, <2>7 DEF hina!I_LABEL
<1>. QED BY <1>2, <1>3

-----------------------------------------------------------------------------
\* What a native task has been sent is no answer, or that of pong.
Honest(msg) == msg.type = hina!PING_REPLY_MSG => insts = hina!pong /\ msg.value = 42

\* What t sends to d.
Letter(t, d, msg) ==
    /\ msg \in hina!Message
    /\ t = HinaTask => d \in HinaNatives /\ Honest(msg)
    /\ t # HinaTask => d = HinaTask /\ msg.type = hina!PING_MSG

MailInv(mm, a, o, w) ==
    /\ mm \in [hina!Tasks -> hina!Message] /\ w \in [hina!Tasks -> hina!Tasks \cup {hina!IPC_ANY, hina!IPC_DENY}]
    /\ \A t \in HinaNatives : Honest(mm[t])
    /\ \A t \in hina!Tasks : a[t] = "deliver" => Letter(t, o[t][1], o[t][2])

\* What the interpreter knows of its message and its registers at p.
ProgramInv(p, r, msg, a) ==
    /\ insts # hina!pong => msg.type # hina!PING_REPLY_MSG /\ a # "taken"
    /\ insts = hina!client /\ p = 2 => r[1] = hina!PING_MSG
    /\ insts = hina!pong =>
        /\ p = 2 => r[0] = hina!IPC_ANY
        /\ a = "taken" => p = 3
        /\ p = 9 => r[0] = hina!PING_REPLY_MSG
        /\ p \in 10 .. 12 => msg.type = hina!PING_REPLY_MSG
        /\ p = 11 => r[0] = 42
        /\ p = 12 => msg.value = 42

NativeInv ==
    /\ calls \in [HinaNatives -> 0 .. MaxCalls] /\ hina_got \in [HinaNatives -> hina!Message]
    /\ \A t \in HinaNatives : Honest(hina_got[t])

AnswerInv ==
    /\ insts \in PlainPrograms /\ hina_pc \in 0 .. hina!Undefined /\ regs \in [0 .. NumRegs - 1 -> hina!Words]
    /\ MailInv(m, at, out, wait_for) /\ ProgramInv(hina_pc, regs, m[HinaTask], at[HinaTask]) /\ NativeInv

\* The message of VM is replaced only while it waits for one.
VmReceives == m'[HinaTask] = m[HinaTask] \/ (at[HinaTask] = "taken" /\ m'[HinaTask].type = hina!PING_MSG)

LEMMA HandMail ==
    ASSUME hina!HinaVmAssumption, NEW c \in hina!Tasks, NEW d, NEW msg, MailInv(m, at, out, wait_for),
           Letter(c, d, msg), c # HinaTask => at[HinaTask] = "taken", m' = [m EXCEPT ![d] = msg]
    PROVE  /\ m' \in [hina!Tasks -> hina!Message] /\ \A t \in HinaNatives : Honest(m'[t])
           /\ VmReceives /\ (c = HinaTask => m'[HinaTask] = m[HinaTask])
<1>1. d \in hina!Tasks /\ msg \in hina!Message /\ m \in [hina!Tasks -> hina!Message] /\ HinaTask \in hina!Tasks /\ HinaTask \notin HinaNatives /\ HinaNatives \subseteq hina!Tasks
  BY TaskNumbers DEF Letter, MailInv
<1>. HIDE DEF hina!Message, hina!Tasks
<1>2. \A t \in hina!Tasks : m'[t] = IF t = d THEN msg ELSE m[t]
  BY <1>1
<1>3. m' \in [hina!Tasks -> hina!Message]
  BY <1>1
<1>4. ASSUME NEW t \in HinaNatives PROVE Honest(m'[t])
  <2>1. CASE t = d
    <3>1. c = HinaTask /\ m'[t] = msg
      BY <1>1, <1>2, <2>1 DEF Letter
    <3>. QED BY <3>1, Zenon DEF Letter
  <2>2. CASE t # d
    <3>1. m'[t] = m[t]
      BY <1>1, <1>2, <2>2
    <3>. QED BY <3>1, Zenon DEF MailInv
  <2>. QED BY <2>1, <2>2
<1>5. VmReceives /\ (c = HinaTask => m'[HinaTask] = m[HinaTask])
  <2>1. CASE c = HinaTask
    <3>1. d # HinaTask
      BY <1>1, <2>1 DEF Letter
    <3>. QED BY <1>1, <1>2, <3>1 DEF VmReceives
  <2>2. CASE c # HinaTask
    <3>1. m'[HinaTask] = msg /\ msg.type = hina!PING_MSG
      BY <1>1, <1>2, <2>2 DEF Letter
    <3>. QED BY <2>2, <3>1 DEF VmReceives
  <2>. QED BY <2>1, <2>2
<1>. QED BY <1>3, <1>4, <1>5, Zenon

\* A send of the task c that has the CPU.
LEMMA SendMail ==
    ASSUME hina!HinaVmAssumption, QueueInv, NEW c \in hina!Tasks, cpu = c, at[c] = "run", NEW d, NEW msg,
           NEW after \in {"run", "receive", "exit"}, MailInv(m, at, out, wait_for),
           Letter(c, d, msg),
           hina!send_ready(c, d, msg, after) \/ hina!send_block(c, d, msg, after)
    PROVE  /\ MailInv(m', at', out', wait_for') /\ VmReceives /\ (c = HinaTask => m'[HinaTask] = m[HinaTask])
           /\ at'[HinaTask] = "taken" => at[HinaTask] = "taken"
<1>1. d \in hina!Tasks /\ HinaTask \in hina!Tasks
  BY TaskNumbers DEF Letter
<1>2. at' \in [hina!Tasks -> {"run", "deliver", "receive", "taken", "exit"}] /\ \A t \in hina!Tasks \ {c} : at'[t] = at[t]
  BY DEF hina!send_ready, hina!send_block, QueueInv
<1>3. at'[c] \in {after, "deliver"} /\ wait_for' = wait_for
  BY DEF hina!send_ready, hina!send_block, QueueInv
<1>4. at'[HinaTask] = "taken" => at[HinaTask] = "taken"
  BY <1>1, <1>2, <1>3
<1>5. m' \in [hina!Tasks -> hina!Message] /\ (\A t \in HinaNatives : Honest(m'[t])) /\ VmReceives /\ (c = HinaTask => m'[HinaTask] = m[HinaTask])
  <2>1. CASE hina!send_ready(c, d, msg, after)
    <3>1. m' = [m EXCEPT ![d] = msg] /\ blocked[d] /\ wait_for[d] \in {hina!IPC_ANY, c}
      BY <2>1 DEF hina!send_ready, hina!Hand, hina!Waits
    <3>2. at[d] = "taken"
      BY <1>1, <3>1 DEF QueueInv, Receiving
    <3>3. c # HinaTask => at[HinaTask] = "taken"
      BY <3>2 DEF Letter
    <3>. QED BY <3>1, <3>3, HandMail, Zenon
  <2>2. CASE hina!send_block(c, d, msg, after)
    <3>1. m' = m
      BY <2>2 DEF hina!send_block
    <3>. QED BY <3>1, Zenon DEF MailInv, VmReceives
  <2>. QED BY <2>1, <2>2, Zenon
<1>6. ASSUME NEW t \in hina!Tasks, at'[t] = "deliver" PROVE Letter(t, out'[t][1], out'[t][2])
  <2>1. CASE hina!send_ready(c, d, msg, after)
    <3>1. out' = out /\ at'[c] = after
      BY <2>1 DEF hina!send_ready, QueueInv
    <3>2. at[t] = "deliver"
      BY <1>2, <1>6, <3>1
    <3>. QED BY <3>1, <3>2, Zenon DEF MailInv
  <2>2. CASE hina!send_block(c, d, msg, after)
    <3>1. out' = [out EXCEPT ![c] = <<d, msg, after>>] /\ DOMAIN out = hina!Tasks
      BY <2>2 DEF hina!send_block, QueueInv
    <3>2. CASE t = c
      <4>1. out'[t][1] = d /\ out'[t][2] = msg
        BY <3>1, <3>2
      <4>. QED BY <3>2, <4>1, Zenon
    <3>3. CASE t # c
      <4>1. out'[t] = out[t] /\ at[t] = "deliver"
        BY <1>2, <1>6, <3>1, <3>3
      <4>. QED BY <4>1, Zenon DEF MailInv
    <3>. QED BY <3>2, <3>3
  <2>. QED BY <2>1, <2>2
<1>7. wait_for' \in [hina!Tasks -> hina!Tasks \cup {hina!IPC_ANY, hina!IPC_DENY}]
  BY <1>3 DEF MailInv
<1>. QED BY <1>4, <1>5, <1>6, <1>7, Zenon DEF MailInv

\* recv_message hands nothing over yet.
LEMMA RecvMail ==
    ASSUME hina!HinaVmAssumption, QueueInv, NEW c \in hina!Tasks, NEW src \in hina!Tasks \cup {hina!IPC_ANY},
           MailInv(m, at, out, wait_for), hina!recv_message(c, src)
    PROVE  /\ MailInv(m', at', out', wait_for') /\ m' = m
           /\ at' = [at EXCEPT ![c] = "taken"]
<1>1. at' = [at EXCEPT ![c] = "taken"] /\ m' = m /\ out' = out
  BY DEF hina!recv_message
<1>2. wait_for' \in [hina!Tasks -> hina!Tasks \cup {hina!IPC_ANY, hina!IPC_DENY}]
  <2>1. ASSUME NEW i \in hina!Accepted(c, src) PROVE hina_senders[c][i] \in hina!Tasks
    BY <2>1 DEF hina!Accepted, QueueInv
  <2>2. \E x \in hina!Tasks \cup {hina!IPC_ANY} : wait_for' = [wait_for EXCEPT ![c] = x]
    BY <2>1, Zenon DEF hina!recv_message
  <2>. QED BY <2>2 DEF MailInv
<1>3. ASSUME NEW t \in hina!Tasks, at'[t] = "deliver" PROVE at[t] = "deliver"
  BY <1>1, <1>3 DEF QueueInv
<1>. QED BY <1>1, <1>2, <1>3, Zenon DEF MailInv

\* The rest of the invariant in the next state.
LEMMA Primed ==
    ASSUME UNCHANGED insts, insts \in PlainPrograms, hina_pc' \in 0 .. hina!Undefined, regs' \in [0 .. NumRegs - 1 -> hina!Words],
           MailInv(m', at', out', wait_for'), ProgramInv(hina_pc', regs', m'[HinaTask], at'[HinaTask]),
           calls' \in [HinaNatives -> 0 .. MaxCalls], hina_got' \in [HinaNatives -> hina!Message],
           \A t \in HinaNatives : Honest(hina_got'[t])
    PROVE  AnswerInv'
<1>1. MailInv(m, at, out, wait_for)'
  BY DEF MailInv, Letter, Honest
<1>2. ProgramInv(hina_pc, regs, m[HinaTask], at[HinaTask])'
  BY DEF ProgramInv
<1>3. NativeInv'
  BY DEF NativeInv, Honest
<1>. QED BY <1>1, <1>2, <1>3 DEF AnswerInv

\* A step that leaves the interpreter alone.
LEMMA AnswersOutside ==
    ASSUME hina!HinaVmAssumption, AnswerInv, UNCHANGED <<insts, hina!vmVars>>, MailInv(m', at', out', wait_for'),
           VmReceives, at'[HinaTask] = "taken" => at[HinaTask] = "taken",
           calls' \in [HinaNatives -> 0 .. MaxCalls], hina_got' \in [HinaNatives -> hina!Message],
           \A t \in HinaNatives : Honest(hina_got'[t])
    PROVE  AnswerInv'
<1>1. hina_pc' = hina_pc /\ regs' = regs
  BY DEF hina!vmVars
<1>2. ProgramInv(hina_pc', regs', m'[HinaTask], at'[HinaTask])
  <2>1. ProgramInv(hina_pc, regs, m[HinaTask], at[HinaTask])
    BY DEF AnswerInv
  <2>. QED BY <1>1, <2>1 DEF ProgramInv, VmReceives, hina!PING_MSG, hina!PING_REPLY_MSG
<1>. QED BY <1>1, <1>2, Primed DEF AnswerInv

LEMMA DeliverAnswers ==
    ASSUME hina!HinaVmAssumption, QueueInv, AnswerInv, NEW c \in hina!Tasks, hina!deliver(c)
    PROVE  AnswerInv'
<1>1. cpu = c /\ at[c] = "deliver" /\ out[c][1] \in hina!Tasks /\ out[c][3] \in {"run", "receive", "exit"}
  BY DEF hina!deliver, QueueInv, HandedOver, Handed
<1>2. Letter(c, out[c][1], out[c][2]) /\ MailInv(m, at, out, wait_for)
  BY <1>1 DEF AnswerInv, MailInv
<1>3. at[out[c][1]] = "taken"
  BY <1>1 DEF QueueInv, HandedOver, Handed, Scheduled
<1>4. c # HinaTask => at[HinaTask] = "taken"
  BY <1>2, <1>3 DEF Letter
<1>5. /\ m' = [m EXCEPT ![out[c][1]] = out[c][2]] /\ at' = [at EXCEPT ![c] = out[c][3]]
      /\ out' = [out EXCEPT ![c] = <<>>] /\ UNCHANGED <<insts, hina!vmVars, hina!natVars, wait_for>>
  BY DEF hina!deliver, hina!Hand
<1>6. m' \in [hina!Tasks -> hina!Message] /\ (\A t \in HinaNatives : Honest(m'[t])) /\ VmReceives
  BY <1>2, <1>4, <1>5, HandMail, Zenon
<1>7. ASSUME NEW t \in hina!Tasks, at'[t] = "deliver" PROVE Letter(t, out'[t][1], out'[t][2])
  <2>1. at[t] = "deliver" /\ out'[t] = out[t]
    BY <1>1, <1>5, <1>7 DEF QueueInv
  <2>. QED BY <1>2, <2>1, Zenon DEF MailInv
<1>8. MailInv(m', at', out', wait_for')
  BY <1>2, <1>5, <1>6, <1>7, Zenon DEF MailInv
<1>9. at'[HinaTask] = "taken" => at[HinaTask] = "taken"
  BY <1>1, <1>5, TaskNumbers DEF QueueInv
<1>10. calls' = calls /\ hina_got' = hina_got
  BY <1>5 DEF hina!natVars
<1>. QED BY <1>5, <1>6, <1>8, <1>9, <1>10, AnswersOutside DEF AnswerInv, NativeInv

LEMMA TakenAnswers ==
    ASSUME hina!HinaVmAssumption, QueueInv, AnswerInv, NEW c \in hina!Tasks, hina!taken(c)
    PROVE  AnswerInv'
<1>1. /\ wait_for' = [wait_for EXCEPT ![c] = hina!IPC_DENY] /\ at' = [at EXCEPT ![c] = "run"]
      /\ hina_got' = [t \in HinaNatives |-> IF t = c THEN m[c] ELSE hina_got[t]]
      /\ UNCHANGED <<insts, hina!vmVars, m, out, calls>>
  BY DEF hina!taken
<1>2. MailInv(m, at, out, wait_for) /\ NativeInv
  BY DEF AnswerInv
<1>3. wait_for' \in [hina!Tasks -> hina!Tasks \cup {hina!IPC_ANY, hina!IPC_DENY}]
  BY <1>1, <1>2 DEF MailInv
<1>4. \A t \in hina!Tasks : at'[t] = "deliver" => at[t] = "deliver"
  BY <1>1 DEF QueueInv
<1>5. MailInv(m', at', out', wait_for')
  BY <1>1, <1>2, <1>3, <1>4, Zenon DEF MailInv
<1>6. at'[HinaTask] = "taken" => at[HinaTask] = "taken"
  BY <1>1, TaskNumbers DEF QueueInv
<1>7. ASSUME NEW t \in HinaNatives PROVE hina_got'[t] \in hina!Message /\ Honest(hina_got'[t])
  <2>1. m[t] \in hina!Message /\ hina_got[t] \in hina!Message
    BY <1>2, TaskNumbers DEF MailInv, NativeInv
  <2>2. Honest(m[t]) /\ Honest(hina_got[t])
    BY <1>2 DEF MailInv, NativeInv
  <2>3. hina_got'[t] = m[t] \/ hina_got'[t] = hina_got[t]
    BY <1>1
  <2>. QED BY <2>1, <2>2, <2>3, Zenon
<1>8. hina_got' \in [HinaNatives -> hina!Message]
  <2>1. hina_got' = [t \in HinaNatives |-> hina_got'[t]]
    BY <1>1
  <2>. QED BY <1>7, <2>1, Zenon
<1>9. calls' \in [HinaNatives -> 0 .. MaxCalls] /\ VmReceives
  BY <1>1, <1>2 DEF NativeInv, VmReceives
<1>. QED BY <1>1, <1>5, <1>6, <1>7, <1>8, <1>9, AnswersOutside

\* A step that changes nothing but the CPU and the run queue.
LEMMA SameAnswers ==
    ASSUME AnswerInv, UNCHANGED <<insts, hina_pc, regs, at, wait_for, m, out, calls, hina_got>>
    PROVE  AnswerInv'
  BY DEF AnswerInv, MailInv, ProgramInv, NativeInv, Letter, Honest

LEMMA NativeAnswers ==
    ASSUME hina!HinaVmAssumption, QueueInv, AnswerInv, NEW t \in HinaNatives,
           (\E v \in Values : hina!ping(t, v)) \/ hina!receive(t) \/ hina!answer(t)
    PROVE  AnswerInv'
<1>1. t \in hina!Tasks /\ HinaTask \in hina!Tasks /\ t # HinaTask /\ t \in hina!Words /\ hina!WORD \in Nat /\ hina!WORD > 42
  BY TaskNumbers DEF hina!Words
<1>2. MailInv(m, at, out, wait_for) /\ NativeInv
  BY DEF AnswerInv
<1>3. ASSUME hina!Called(t) PROVE cpu = t /\ at[t] = "run" /\ calls' \in [HinaNatives -> 0 .. MaxCalls]
  <2>1. calls \in [HinaNatives -> 0 .. MaxCalls] /\ MaxCalls \in Nat
    BY <1>2 DEF NativeInv, hina!HinaVmAssumption
  <2>2. calls[t] \in 0 .. MaxCalls /\ calls[t] < MaxCalls
    BY <1>3, <2>1 DEF hina!Called
  <2>3. calls[t] + 1 \in 0 .. MaxCalls
    BY <2>1, <2>2
  <2>. QED BY <1>3, <2>1, <2>3 DEF hina!Called
<1>4. ASSUME NEW v \in Values, hina!ping(t, v) PROVE AnswerInv'
  <2>1. hina!Called(t) /\ UNCHANGED <<insts, hina!vmVars, hina_got>>
    BY <1>4 DEF hina!ping
  <2>2. \/ hina!send_ready(t, HinaTask, hina!Ping(t, v), "receive") \/ hina!send_block(t, HinaTask, hina!Ping(t, v), "receive")
        \/ UNCHANGED <<hina!ipcVars, cpu, runqueue>>
    BY <1>4, Zenon DEF hina!ping
  <2>3. Letter(t, HinaTask, hina!Ping(t, v))
    <3>1. v \in hina!Words /\ 9 \in hina!Words
      BY <1>1 DEF hina!HinaVmAssumption, hina!Words
    <3>. HIDE DEF hina!Words
    <3>. QED BY <1>1, <3>1 DEF Letter, hina!Ping, hina!Message, hina!PING_MSG
  <2>4. hina_got' \in [HinaNatives -> hina!Message] /\ \A x \in HinaNatives : Honest(hina_got'[x])
    BY <1>2, <2>1, Zenon DEF NativeInv
  <2>5. CASE hina!send_ready(t, HinaTask, hina!Ping(t, v), "receive") \/ hina!send_block(t, HinaTask, hina!Ping(t, v), "receive")
    <3>1. MailInv(m', at', out', wait_for') /\ VmReceives /\ (at'[HinaTask] = "taken" => at[HinaTask] = "taken")
      BY <1>1, <1>2, <1>3, <2>1, <2>3, <2>5, SendMail
    <3>. QED BY <1>3, <2>1, <2>4, <3>1, AnswersOutside
  <2>6. CASE UNCHANGED <<hina!ipcVars, cpu, runqueue>>
    <3>1. m' = m /\ at' = at /\ out' = out /\ wait_for' = wait_for
      BY <2>6 DEF hina!ipcVars
    <3>2. MailInv(m', at', out', wait_for')
      BY <1>2, <3>1, Zenon
    <3>3. VmReceives
      BY <3>1 DEF VmReceives
    <3>. QED BY <1>3, <2>1, <2>4, <3>1, <3>2, <3>3, AnswersOutside
  <2>. QED BY <2>2, <2>5, <2>6
<1>5. ASSUME NEW src \in hina!Tasks \cup {hina!IPC_ANY}, hina!recv_message(t, src), UNCHANGED <<insts, hina!vmVars, hina_got>>,
             calls' \in [HinaNatives -> 0 .. MaxCalls]
      PROVE  AnswerInv'
  <2>1. MailInv(m', at', out', wait_for') /\ m' = m /\ at' = [at EXCEPT ![t] = "taken"]
    BY <1>1, <1>2, <1>5, RecvMail
  <2>2. VmReceives /\ (at'[HinaTask] = "taken" => at[HinaTask] = "taken")
    BY <1>1, <2>1 DEF VmReceives, QueueInv
  <2>3. hina_got' \in [HinaNatives -> hina!Message] /\ \A x \in HinaNatives : Honest(hina_got'[x])
    BY <1>2, <1>5, Zenon DEF NativeInv
  <2>. QED BY <1>5, <2>1, <2>2, <2>3, AnswersOutside
<1>6. CASE hina!receive(t)
  <2>1. hina!Called(t) /\ hina!recv_message(t, hina!IPC_ANY) /\ UNCHANGED <<insts, hina!vmVars, hina_got>>
    BY <1>6 DEF hina!receive
  <2>. QED BY <1>3, <1>5, <2>1
<1>7. CASE hina!answer(t)
  <2>1. hina!recv_message(t, HinaTask) /\ UNCHANGED <<insts, hina!vmVars, hina_got>> /\ calls' = calls
    BY <1>7 DEF hina!answer, hina!natVars
  <2>. QED BY <1>1, <1>2, <1>5, <2>1 DEF NativeInv
<1>. QED BY <1>4, <1>6, <1>7

-----------------------------------------------------------------------------
\* The interpreter.

\* The place in the program.
LEMMA PlaceIs ==
    ASSUME hina!HinaVmAssumption, AnswerInv, hina_pc < Len(insts)
    PROVE  /\ hina_pc + 1 \in 1 .. Len(insts) /\ Len(insts) \in 1 .. 17 /\ hina_pc \in Nat /\ hina_pc + 1 \in 0 .. hina!Undefined
           /\ hina!Undefined \in Nat /\ hina!Undefined > 40 /\ hina_pc < 17
           /\ InstOK(hina!inst)
           /\ hina!inst.op = "RECV" => insts = hina!pong /\ hina_pc = 2 /\ hina!inst.b = 0
           /\ hina!inst.op = "STM" => insts = hina!pong \/ (insts = hina!client /\ hina_pc = 2)
<1>1. PICK n \in 1 .. 17 : n = Len(insts) /\ insts \in PlainPrograms
  BY CodeIs, Zenon DEF AnswerInv
<1>2. hina!Undefined \in Nat /\ hina!Undefined > 40
  BY TaskNumbers DEF hina!Undefined
<1>3. hina_pc \in 0 .. hina!Undefined
  BY DEF AnswerInv
<1>4. hina_pc + 1 \in 1 .. n /\ hina_pc \in Nat /\ hina_pc < 17
  BY <1>1, <1>2, <1>3
<1>5. hina_pc + 1 \in 0 .. hina!Undefined
  BY <1>1, <1>2, <1>4
<1>6. hina_pc + 1 = 3 => hina_pc = 2
  BY <1>4
<1>7. /\ InstOK(hina!inst)
      /\ hina!inst.op = "RECV" => insts = hina!pong /\ hina_pc + 1 = 3 /\ hina!inst.b = 0
      /\ hina!inst.op = "STM" => insts = hina!pong \/ (insts = hina!client /\ hina_pc + 1 = 3)
  BY <1>1, <1>4, CodeIs, Zenon DEF hina!inst
<1>. QED BY <1>1, <1>2, <1>4, <1>5, <1>6, <1>7, Zenon

\* Where pong is, by what it does.
LEMMA PongIs ==
    ASSUME hina!HinaVmAssumption, AnswerInv, hina_pc < Len(insts), insts = hina!pong
    PROVE  /\ hina!inst.op \in hina!Binops \cup {"MOVI", "MOV"} => hina_pc \in {1, 3, 8, 10}
           /\ hina!inst.op \in {"LABEL", "NOP", "PRINT", "JMP", "JMP_IF"} => hina_pc \in {0, 4, 7, 13, 14, 15, 16}
           /\ hina!inst.op = "LDM" => hina_pc \in {5, 6}
           /\ hina!inst.op = "STM" => hina_pc \in {9, 11}
           /\ hina!inst.op \in {"SEND", "REPLY"} => hina_pc = 12 /\ hina!inst.op = "REPLY"
           /\ hina_pc = 1 => hina!inst = hina!I_MOVI(0, hina!IPC_ANY)
           /\ hina_pc = 8 => hina!inst = hina!I_MOVI(0, hina!PING_REPLY_MSG)
           /\ hina_pc = 10 => hina!inst = hina!I_MOVI(0, 42)
           /\ hina_pc = 9 => hina!inst = hina!I_MSG("STM", 1, 0, "type")
           /\ hina_pc = 11 => hina!inst = hina!I_MSG("STM", 1, 0, "value")
<1>1. hina_pc \in Nat /\ hina_pc + 1 \in 1 .. 17
  BY PlaceIs, PongCode
<1>2. PICK i \in 1 .. 17 : i = hina_pc + 1 /\ hina!inst = hina!pong[i]
  BY <1>1 DEF hina!inst
<1>. HIDE DEF hina!inst, hina!pong, hina!Binops
<1>3. /\ hina!inst.op \in hina!Binops \cup {"MOVI", "MOV"} => i \in {2, 4, 9, 11}
      /\ hina!inst.op \in {"NOP", "PRINT", "JMP", "JMP_IF", "LABEL"} => i \in {1, 5, 8, 14, 15, 16, 17}
      /\ hina!inst.op = "LDM" => i \in {6, 7}
      /\ hina!inst.op = "STM" => i \in {10, 12}
      /\ hina!inst.op \in {"SEND", "REPLY"} => i = 13
  BY <1>2, PongCode, Zenon
<1>4. /\ hina!pong[13].op = "REPLY" /\ hina!pong[2] = hina!I_MOVI(0, hina!IPC_ANY) /\ hina!pong[9] = hina!I_MOVI(0, hina!PING_REPLY_MSG)
      /\ hina!pong[11] = hina!I_MOVI(0, 42) /\ hina!pong[10] = hina!I_MSG("STM", 1, 0, "type")
      /\ hina!pong[12] = hina!I_MSG("STM", 1, 0, "value")
  BY PongCode, Zenon
<1>5. /\ hina_pc = 1 => i = 2
      /\ hina_pc = 8 => i = 9
      /\ hina_pc = 10 => i = 11
      /\ hina_pc = 9 => i = 10
      /\ hina_pc = 11 => i = 12
      /\ i = 2 => hina_pc = 1
      /\ i = 13 => hina_pc = 12
      /\ i \in {10, 12} => hina_pc \in {9, 11}
      /\ i \in {6, 7} => hina_pc \in {5, 6}
      /\ i \in {1, 5, 8, 14, 15, 16, 17} => hina_pc \in {0, 4, 7, 13, 14, 15, 16}
      /\ i \in {2, 4, 9, 11} => hina_pc \in {1, 3, 8, 10}
  BY <1>1, <1>2
<1>. QED BY <1>2, <1>3, <1>4, <1>5, Zenon

\* Where client is.
LEMMA ClientIs ==
    ASSUME hina!HinaVmAssumption, AnswerInv, hina_pc < Len(insts), insts = hina!client
    PROVE  /\ hina_pc = 1 => hina!inst = hina!I_MOVI(1, hina!PING_MSG)
           /\ hina_pc = 2 => hina!inst = hina!I_MSG("STM", 1, 1, "type")
<1>1. hina_pc \in Nat
  BY PlaceIs
<1>2. (hina_pc = 1 => hina!inst = hina!client[2]) /\ (hina_pc = 2 => hina!inst = hina!client[3])
  BY <1>1 DEF hina!inst
<1>. QED BY <1>2, ClientCode, Zenon

\* The results of the instructions of these programs are words.
LEMMA ResultIsWord ==
    ASSUME hina!HinaVmAssumption, NEW op \in {"SUB", "EQ", "NE", "LT", "LE"}, NEW x \in hina!Words, NEW y \in hina!Words,
           NEW v \in hina!Result(op, x, y)
    PROVE  v \in hina!Words
<1>1. PICK w \in Nat : w = hina!WORD /\ w > 42
  BY TaskNumbers
<1>2. \A n \in Int : n % hina!WORD \in hina!Words
  BY Widths
<1>3. \A z \in hina!Words : hina!Signed(z, WordBits) \in Int
  <2>1. \A z \in 0 .. w - 1 : z \in Int /\ z - w \in Int
    BY <1>1
  <2>2. hina!Words = 0 .. w - 1 /\ 2^WordBits = w
    BY <1>1 DEF hina!Words, hina!WORD
  <2>. QED BY <2>1, <2>2, Zenon DEF hina!Signed
<1>4. 0 \in hina!Words /\ 1 \in hina!Words
  BY <1>1 DEF hina!Words
<1>5. hina!Truth(TRUE) \in hina!Words /\ hina!Truth(FALSE) \in hina!Words
  BY <1>4 DEF hina!Truth
<1>6. \A i, j \in Int : i - j \in Int
  OBVIOUS
<1>7. PICK sx \in Int, sy \in Int : sx = hina!Signed(x, WordBits) /\ sy = hina!Signed(y, WordBits)
  BY <1>3, Zenon
<1>8. CASE op = "SUB"
  <2>1. v = (sx - sy) % hina!WORD
    BY <1>7, <1>8 DEF hina!Result
  <2>. QED BY <1>2, <1>6, <1>7, <2>1, Zenon
<1>9. CASE op # "SUB"
  <2>1. v \in {hina!Truth(TRUE), hina!Truth(FALSE)}
    BY <1>7, <1>9 DEF hina!Result, hina!Truth
  <2>. QED BY <1>5, <2>1, Zenon
<1>. QED BY <1>8, <1>9

LEMMA ComputeAnswers ==
    ASSUME hina!HinaVmAssumption, QueueInv, AnswerInv, hina!compute
    PROVE  AnswerInv'
<1>1. /\ at[HinaTask] = "run" /\ hina_pc < Len(insts) /\ hina!inst.op \in hina!Binops \cup {"MOVI", "MOV"}
      /\ hina_pc' = hina_pc + 1 /\ UNCHANGED <<insts, m, at, out, wait_for, calls, hina_got>>
  BY DEF hina!compute, hina!At, hina!Interprets, hina!ipcVars, hina!natVars
<1>2. PICK v \in CASE hina!inst.op = "MOVI" -> {hina!Signed(hina!inst.imm, ImmBits) % hina!WORD}
                   [] hina!inst.op = "MOV" -> {regs[hina!inst.b]}
                   [] OTHER -> hina!Result(hina!inst.op, regs[hina!inst.b], regs[hina!inst.c]) :
             regs' = [regs EXCEPT ![hina!inst.a] = v]
  BY DEF hina!compute, hina!Set
<1>3. /\ insts \in PlainPrograms /\ regs \in [0 .. NumRegs - 1 -> hina!Words]
      /\ MailInv(m, at, out, wait_for) /\ ProgramInv(hina_pc, regs, m[HinaTask], at[HinaTask]) /\ NativeInv
  BY DEF AnswerInv
<1>4. InstOK(hina!inst) /\ hina_pc \in Nat /\ hina_pc + 1 \in 0 .. hina!Undefined
  BY <1>1, PlaceIs
<1>5. 0 .. 5 \subseteq 0 .. NumRegs - 1 /\ 0 \in 0 .. NumRegs - 1 /\ 1 \in 0 .. NumRegs - 1
  BY DEF hina!HinaVmAssumption
<1>6. hina!inst.op = "MOVI" => v = hina!Signed(hina!inst.imm, ImmBits) % hina!WORD
  BY <1>2
<1>7. v \in hina!Words
  <2>1. CASE hina!inst.op = "MOVI"
    <3>1. hina!inst.imm \in Int
      BY <1>4, <2>1 DEF InstOK
    <3>2. 2^ImmBits \in Nat
      BY DEF hina!HinaVmAssumption
    <3>3. hina!Signed(hina!inst.imm, ImmBits) \in Int
      <4>1. hina!inst.imm - 2^ImmBits \in Int
        BY <3>1, <3>2
      <4>. QED BY <3>1, <4>1, Zenon DEF hina!Signed
    <3>. QED BY <1>6, <2>1, <3>3, Widths, Zenon
  <2>2. CASE hina!inst.op = "MOV"
    <3>1. v = regs[hina!inst.b] /\ hina!inst.b \in 0 .. 5
      BY <1>2, <1>4, <2>2 DEF InstOK
    <3>. QED BY <1>3, <1>5, <3>1
  <2>3. CASE hina!inst.op \in hina!Binops
    <3>1. hina!inst.op \in {"SUB", "EQ", "NE", "LT", "LE"} /\ hina!inst.b \in 0 .. 5 /\ hina!inst.c \in 0 .. 5
      BY <1>4, <2>3 DEF InstOK
    <3>2. v \in hina!Result(hina!inst.op, regs[hina!inst.b], regs[hina!inst.c])
      BY <1>2, <3>1
    <3>3. regs[hina!inst.b] \in hina!Words /\ regs[hina!inst.c] \in hina!Words
      BY <1>3, <1>5, <3>1
    <3>. QED BY <3>1, <3>2, <3>3, ResultIsWord, Zenon
  <2>. QED BY <1>1, <2>1, <2>2, <2>3
<1>8. regs' \in [0 .. NumRegs - 1 -> hina!Words]
  BY <1>2, <1>3, <1>7
<1>9. ASSUME NEW r \in 0 .. 1, NEW n \in 0 .. 42, hina!inst = hina!I_MOVI(r, n) PROVE regs'[r] = n
  <2>1. hina!inst.op = "MOVI" /\ hina!inst.a = r /\ hina!inst.imm = n % 2^ImmBits
    BY <1>9 DEF hina!I_MOVI
  <2>2. v = n
    BY <1>6, <2>1, Widths, Zenon
  <2>3. r \in 0 .. NumRegs - 1
    BY <1>5
  <2>. QED BY <1>2, <1>3, <2>1, <2>2, <2>3
<1>10. ProgramInv(hina_pc', regs', m'[HinaTask], at'[HinaTask])
  <2>1. CASE insts = hina!pong
    <3>1. hina_pc \in {1, 3, 8, 10}
      BY <1>1, <2>1, PongIs, Zenon
    <3>2. hina_pc' = 2 => regs'[0] = hina!IPC_ANY
      <4>. SUFFICES ASSUME hina_pc' = 2 PROVE regs'[0] = 0
        BY DEF hina!IPC_ANY
      <4>1. hina_pc = 1
        BY <1>1, <1>4
      <4>2. hina!inst = hina!I_MOVI(0, 0)
        BY <1>1, <2>1, <4>1, PongIs DEF hina!IPC_ANY
      <4>. QED BY <1>9, <4>2
    <3>3. hina_pc' = 9 => regs'[0] = hina!PING_REPLY_MSG
      <4>. SUFFICES ASSUME hina_pc' = 9 PROVE regs'[0] = 10
        BY DEF hina!PING_REPLY_MSG
      <4>1. hina_pc = 8
        BY <1>1, <1>4
      <4>2. hina!inst = hina!I_MOVI(0, 10)
        BY <1>1, <2>1, <4>1, PongIs DEF hina!PING_REPLY_MSG
      <4>. QED BY <1>9, <4>2
    <3>4. hina_pc' = 11 => regs'[0] = 42
      <4>. SUFFICES ASSUME hina_pc' = 11 PROVE regs'[0] = 42
        OBVIOUS
      <4>1. hina_pc = 10
        BY <1>1, <1>4
      <4>2. hina!inst = hina!I_MOVI(0, 42)
        BY <1>1, <2>1, <4>1, PongIs
      <4>. QED BY <1>9, <4>2
    <3>5. hina_pc' \in 10 .. 12 => hina_pc = 10
      BY <1>1, <3>1
    <3>6. hina_pc = 10 => m[HinaTask].type = hina!PING_REPLY_MSG
      BY <1>3, <2>1 DEF ProgramInv
    <3>7. hina_pc' # 12
      BY <1>1, <3>1
    <3>. QED BY <1>1, <2>1, <3>2, <3>3, <3>4, <3>5, <3>6, <3>7, PongIsNotClient DEF ProgramInv
  <2>2. CASE insts # hina!pong
    <3>1. insts = hina!client /\ hina_pc' = 2 => regs'[1] = hina!PING_MSG
      <4>. SUFFICES ASSUME insts = hina!client, hina_pc' = 2 PROVE regs'[1] = 9
        BY DEF hina!PING_MSG
      <4>1. hina_pc = 1
        BY <1>1, <1>4
      <4>2. hina!inst = hina!I_MOVI(1, 9)
        BY <1>1, <4>1, ClientIs DEF hina!PING_MSG
      <4>. QED BY <1>9, <4>2
    <3>. QED BY <1>1, <1>3, <2>2, <3>1 DEF ProgramInv
  <2>. QED BY <2>1, <2>2
<1>. QED BY <1>1, <1>3, <1>4, <1>8, <1>10, Primed DEF NativeInv

LEMMA ControlAnswers ==
    ASSUME hina!HinaVmAssumption, QueueInv, AnswerInv, hina!control
    PROVE  AnswerInv'
<1>1. /\ at[HinaTask] = "run" /\ hina_pc < Len(insts) /\ hina!inst.op \in {"LABEL", "NOP", "PRINT", "JMP", "JMP_IF"}
      /\ UNCHANGED <<insts, regs, m, at, out, wait_for, calls, hina_got>>
  BY DEF hina!control, hina!At, hina!Interprets, hina!ipcVars, hina!natVars
<1>2. hina_pc' = hina!labels(hina!inst.l) \/ hina_pc' = hina_pc + 1
  BY Zenon DEF hina!control
<1>3. /\ insts \in PlainPrograms /\ regs \in [0 .. NumRegs - 1 -> hina!Words]
      /\ MailInv(m, at, out, wait_for) /\ ProgramInv(hina_pc, regs, m[HinaTask], at[HinaTask]) /\ NativeInv
  BY DEF AnswerInv
<1>4. Len(insts) \in 1 .. 17 /\ hina_pc \in Nat /\ hina_pc + 1 \in 0 .. hina!Undefined /\ hina!Undefined \in Nat /\ hina!Undefined > 40
  BY <1>1, PlaceIs
<1>5. \/ hina_pc' = hina_pc + 1 \/ hina_pc' = hina!Undefined
      \/ hina_pc' \in 1 .. Len(insts) /\ insts[hina_pc'].op = "LABEL"
  BY <1>2, <1>3, LabelsAre, Zenon
<1>6. hina_pc' \in 0 .. hina!Undefined
  BY <1>4, <1>5
<1>7. ProgramInv(hina_pc', regs', m'[HinaTask], at'[HinaTask])
  <2>1. CASE insts = hina!pong
    <3>1. hina_pc \in {0, 4, 7, 13, 14, 15, 16}
      BY <1>1, <2>1, PongIs, Zenon
    <3>2. hina_pc' \in 1 .. Len(insts) /\ insts[hina_pc'].op = "LABEL" => hina_pc' \in {1, 15}
      BY <2>1, PongCode, Zenon
    <3>3. hina_pc' \in {1, 5, 8, 14, 15, 16, 17} \/ hina_pc' = hina!Undefined
      BY <1>5, <3>1, <3>2
    <3>4. hina_pc' \notin {2, 9, 10, 11, 12}
      BY <1>4, <3>3
    <3>5. hina_pc' \notin 10 .. 12
      BY <3>4, <1>6
    <3>. QED BY <1>1, <2>1, <3>4, <3>5, PongIsNotClient DEF ProgramInv
  <2>2. CASE insts # hina!pong
    <3>1. ASSUME insts = hina!client PROVE hina_pc' # 2
      <4>1. hina_pc' = 2 => ~(hina_pc' \in 1 .. Len(insts) /\ insts[hina_pc'].op = "LABEL")
        <5>1. 2 \in 1 .. 12 /\ 2 # 7
          OBVIOUS
        <5>. QED BY <3>1, <5>1, ClientCode, Zenon
      <4>2. hina_pc + 1 = 2 => hina_pc = 1
        BY <1>4
      <4>3. hina_pc # 1
        <5>1. hina!I_MOVI(1, hina!PING_MSG).op = "MOVI"
          BY DEF hina!I_MOVI
        <5>. QED BY <1>1, <3>1, <5>1, ClientIs
      <4>. QED BY <1>4, <1>5, <4>1, <4>2, <4>3
    <3>. QED BY <1>1, <1>3, <2>2, <3>1 DEF ProgramInv
  <2>. QED BY <2>1, <2>2
<1>. QED BY <1>1, <1>3, <1>6, <1>7, Primed DEF NativeInv

\* Loads and stores of words.
LEMMA PartIsWord ==
    ASSUME hina!HinaVmAssumption, NEW x \in hina!Words, NEW w \in {WordBits, WordBits \div 2}
    PROVE  /\ x % 2^w \in hina!Words
           /\ w = WordBits => \A v \in hina!Words : (x \div 2^w) * 2^w + (v % 2^w) = v
<1>1. PICK n \in Nat, h \in Nat : n = 2^WordBits /\ h = 2^(WordBits \div 2) /\ 0 < h /\ h < n
  BY DEF hina!HinaVmAssumption, hina!WORD
<1>2. hina!Words = 0 .. n - 1
  BY <1>1 DEF hina!Words, hina!WORD
<1>3. \A y \in 0 .. n - 1 : y % n = y /\ y % h \in 0 .. h - 1 /\ y \div n = 0
  BY <1>1
<1>4. \A y \in 0 .. h - 1 : y \in 0 .. n - 1
  BY <1>1
<1>5. x % 2^w \in hina!Words
  <2>1. 2^w = n \/ 2^w = h
    BY <1>1, Zenon
  <2>. QED BY <1>2, <1>3, <1>4, <2>1, Zenon
<1>6. ASSUME NEW v \in hina!Words PROVE (x \div n) * n + (v % n) = v
  BY <1>1, <1>2, <1>3
<1>. QED BY <1>1, <1>5, <1>6, Zenon

LEMMA MessageAnswers ==
    ASSUME hina!HinaVmAssumption, QueueInv, AnswerInv, hina!message
    PROVE  AnswerInv'
<1>1. /\ at[HinaTask] = "run" /\ hina_pc < Len(insts) /\ hina!inst.op \in {"LDM", "STM"} /\ hina_pc' = hina_pc + 1
      /\ UNCHANGED <<insts, at, out, wait_for, calls, hina_got>>
  BY DEF hina!message, hina!At, hina!Interprets, hina!natVars
<1>2. /\ insts \in PlainPrograms /\ regs \in [0 .. NumRegs - 1 -> hina!Words]
      /\ MailInv(m, at, out, wait_for) /\ ProgramInv(hina_pc, regs, m[HinaTask], at[HinaTask]) /\ NativeInv
  BY DEF AnswerInv
<1>3. /\ InstOK(hina!inst) /\ hina_pc \in Nat /\ hina_pc + 1 \in 0 .. hina!Undefined
      /\ hina!inst.op = "STM" => insts = hina!pong \/ (insts = hina!client /\ hina_pc = 2)
  BY <1>1, PlaceIs
<1>4. hina!inst.w \in {WordBits, WordBits \div 2} /\ hina!inst.a \in 0 .. 5 /\ hina!inst.field \in {"type", "src", "value"}
  BY <1>1, <1>3 DEF InstOK
<1>5. 0 .. 5 \subseteq 0 .. NumRegs - 1
  BY DEF hina!HinaVmAssumption
<1>6. HinaTask \in hina!Tasks /\ HinaTask \notin HinaNatives /\ m[HinaTask] \in hina!Message /\ m \in [hina!Tasks -> hina!Message]
  BY <1>2, TaskNumbers DEF MailInv
<1>7. m[HinaTask][hina!inst.field] \in hina!Words
  BY <1>4, <1>6 DEF hina!Message
<1>9. CASE hina!inst.op = "LDM"
  <2>1. regs' = [regs EXCEPT ![hina!inst.a] = m[HinaTask][hina!inst.field] % 2^hina!inst.w] /\ m' = m
    BY <1>9 DEF hina!message, hina!Set
  <2>2. regs' \in [0 .. NumRegs - 1 -> hina!Words]
    <3>1. m[HinaTask][hina!inst.field] % 2^hina!inst.w \in hina!Words
      BY <1>4, <1>7, PartIsWord, Zenon
    <3>. QED BY <1>2, <2>1, <3>1
  <2>3. ProgramInv(hina_pc', regs', m'[HinaTask], at'[HinaTask])
    <3>1. CASE insts = hina!pong
      <4>1. hina_pc \in {5, 6}
        BY <1>1, <1>9, <3>1, PongIs, Zenon
      <4>2. hina_pc' \in {6, 7}
        BY <1>1, <4>1
      <4>. QED BY <1>1, <3>1, <4>2, PongIsNotClient DEF ProgramInv
    <3>2. CASE insts # hina!pong
      <4>1. ASSUME insts = hina!client PROVE hina_pc' # 2
        <5>1. hina_pc' = 2 => hina_pc = 1
          BY <1>1, <1>3
        <5>2. hina!I_MOVI(1, hina!PING_MSG).op = "MOVI"
          BY DEF hina!I_MOVI
        <5>. QED BY <1>1, <1>9, <4>1, <5>1, <5>2, ClientIs
      <4>. QED BY <1>1, <1>2, <2>1, <3>2, <4>1 DEF ProgramInv
    <3>. QED BY <3>1, <3>2
  <2>4. MailInv(m', at', out', wait_for')
    BY <1>1, <1>2, <2>1, Zenon
  <2>. QED BY <1>1, <1>2, <1>3, <2>2, <2>3, <2>4, Primed DEF NativeInv
<1>10. CASE hina!inst.op = "STM"
  <2>1. m' = [m EXCEPT ![HinaTask][hina!inst.field] = hina!Stored(hina!inst.field, hina!inst.w, regs[hina!inst.a])] /\ regs' = regs
    BY <1>10 DEF hina!message
  <2>2. regs[hina!inst.a] \in hina!Words
    BY <1>2, <1>4, <1>5
  <2>3. hina!Stored(hina!inst.field, hina!inst.w, regs[hina!inst.a]) = regs[hina!inst.a]
    <3>1. hina!inst.w = WordBits
      BY <1>3, <1>10 DEF InstOK
    <3>. QED BY <1>7, <2>2, <3>1, PartIsWord, Zenon DEF hina!Stored
  <2>4. /\ \A t \in hina!Tasks \ {HinaTask} : m'[t] = m[t]
        /\ m'[HinaTask] = [m[HinaTask] EXCEPT ![hina!inst.field] = regs[hina!inst.a]]
        /\ DOMAIN m' = hina!Tasks /\ m' = [t \in hina!Tasks |-> m'[t]]
    BY <1>6, <2>1, <2>3
  <2>5. /\ m'[HinaTask].type = IF hina!inst.field = "type" THEN regs[hina!inst.a] ELSE m[HinaTask].type
        /\ m'[HinaTask].value = IF hina!inst.field = "value" THEN regs[hina!inst.a] ELSE m[HinaTask].value
        /\ m'[HinaTask] \in hina!Message
    <3>. HIDE DEF hina!Words
    <3>. QED BY <1>4, <1>6, <2>2, <2>4 DEF hina!Message
  <2>6. m' \in [hina!Tasks -> hina!Message]
    <3>1. \A t \in hina!Tasks : m'[t] \in hina!Message
      BY <1>6, <2>4, <2>5
    <3>. QED BY <2>4, <3>1, Zenon
  <2>7. MailInv(m', at', out', wait_for')
    <3>1. \A t \in HinaNatives : m'[t] = m[t]
      BY <1>6, <2>4, TaskNumbers
    <3>. QED BY <1>1, <1>2, <2>6, <3>1, Zenon DEF MailInv
  <2>8. ProgramInv(hina_pc', regs', m'[HinaTask], at'[HinaTask])
    <3>1. CASE insts = hina!pong
      <4>1. hina_pc \in {9, 11}
        BY <1>1, <1>10, <3>1, PongIs, Zenon
      <4>2. CASE hina_pc = 9
        <5>1. hina!inst = hina!I_MSG("STM", 1, 0, "type")
          BY <1>1, <3>1, <4>2, PongIs
        <5>2. hina!inst.a = 0 /\ hina!inst.field = "type"
          BY <5>1 DEF hina!I_MSG
        <5>3. m'[HinaTask].type = hina!PING_REPLY_MSG /\ hina_pc' = 10
          BY <1>1, <1>2, <2>5, <3>1, <4>2, <5>2 DEF ProgramInv
        <5>. QED BY <1>1, <3>1, <5>3, PongIsNotClient DEF ProgramInv
      <4>3. CASE hina_pc = 11
        <5>1. hina!inst = hina!I_MSG("STM", 1, 0, "value")
          BY <1>1, <3>1, <4>3, PongIs
        <5>2. hina!inst.a = 0 /\ hina!inst.field = "value"
          BY <5>1 DEF hina!I_MSG
        <5>3. m'[HinaTask].type = hina!PING_REPLY_MSG /\ m'[HinaTask].value = 42 /\ hina_pc' = 12
          BY <1>1, <1>2, <2>5, <3>1, <4>3, <5>2 DEF ProgramInv
        <5>. QED BY <1>1, <3>1, <5>3, PongIsNotClient DEF ProgramInv
      <4>. QED BY <4>1, <4>2, <4>3
    <3>2. CASE insts = hina!client /\ hina_pc = 2
      <4>1. hina!inst = hina!I_MSG("STM", 1, 1, "type")
        BY <1>1, <3>2, ClientIs
      <4>2. hina!inst.a = 1 /\ hina!inst.field = "type"
        BY <4>1 DEF hina!I_MSG
      <4>3. m'[HinaTask].type = hina!PING_MSG /\ hina_pc' = 3
        BY <1>1, <1>2, <2>5, <3>2, <4>2 DEF ProgramInv
      <4>. QED BY <1>1, <3>2, <4>3, PongIsNotClient DEF ProgramInv, hina!PING_MSG,
                                                        hina!PING_REPLY_MSG
    <3>. QED BY <1>3, <1>10, <3>1, <3>2
  <2>. QED BY <1>1, <1>2, <1>3, <2>1, <2>7, <2>8, Primed DEF NativeInv
<1>. QED BY <1>1, <1>9, <1>10

LEMMA SendAnswers ==
    ASSUME hina!HinaVmAssumption, QueueInv, AnswerInv, hina!send
    PROVE  AnswerInv'
<1>1. /\ cpu = HinaTask /\ at[HinaTask] = "run" /\ hina_pc < Len(insts) /\ hina!inst.op \in {"SEND", "REPLY"} /\ hina_pc' = hina_pc + 1
      /\ UNCHANGED <<insts, calls, hina_got>>
  BY DEF hina!send, hina!At, hina!Interprets, hina!natVars
<1>2. PICK d \in hina!Tasks : d = regs[hina!inst.b]
  BY DEF hina!send
<1>3. \/ hina!send_ready(HinaTask, d, hina!FromVM, "run")
      \/ d # HinaTask /\ hina!send_block(HinaTask, d, hina!FromVM, "run")
      \/ UNCHANGED <<hina!ipcVars, cpu, runqueue>>
  BY <1>2, Zenon DEF hina!send
<1>4. PICK v \in {0, hina!Failed} : regs' = [regs EXCEPT ![hina!inst.a] = v]
  BY Zenon DEF hina!send, hina!Set
<1>5. /\ insts \in PlainPrograms /\ regs \in [0 .. NumRegs - 1 -> hina!Words]
      /\ MailInv(m, at, out, wait_for) /\ ProgramInv(hina_pc, regs, m[HinaTask], at[HinaTask]) /\ NativeInv
  BY DEF AnswerInv
<1>6. hina_pc \in Nat /\ hina_pc + 1 \in 0 .. hina!Undefined
  BY <1>1, PlaceIs
<1>7. HinaTask \in hina!Tasks /\ HinaTask \notin HinaNatives /\ 0 \in hina!Words /\ hina!Failed \in hina!Words /\ hina!FROM_KERNEL \in hina!Words
  BY TaskNumbers DEF hina!Words, hina!Failed, hina!FROM_KERNEL
<1>8. regs' \in [0 .. NumRegs - 1 -> hina!Words]
  <2>1. v \in hina!Words
    BY <1>7
  <2>. QED BY <1>4, <1>5, <2>1
<1>9. insts = hina!pong => hina_pc = 12
  BY <1>1, PongIs, Zenon
<1>10. hina!FromVM \in hina!Message /\ Honest(hina!FromVM)
  <2>1. m[HinaTask] \in hina!Message
    BY <1>5, <1>7 DEF MailInv
  <2>2. hina!FromVM \in hina!Message /\ hina!FromVM.type = m[HinaTask].type /\ hina!FromVM.value = m[HinaTask].value
    <3>. HIDE DEF hina!Words
    <3>. QED BY <1>7, <2>1 DEF hina!FromVM, hina!Message
  <2>3. CASE insts = hina!pong
    <3>1. m[HinaTask].value = 42
      BY <1>5, <1>9, <2>3 DEF ProgramInv
    <3>. QED BY <2>2, <2>3, <3>1 DEF Honest
  <2>4. CASE insts # hina!pong
    BY <1>5, <2>2, <2>4 DEF Honest, ProgramInv
  <2>. QED BY <2>2, <2>3, <2>4
<1>11. MailInv(m', at', out', wait_for') /\ m'[HinaTask] = m[HinaTask] /\ (at'[HinaTask] = "taken" => at[HinaTask] = "taken")
  <2>1. CASE hina!send_ready(HinaTask, d, hina!FromVM, "run") \/ (d # HinaTask /\ hina!send_block(HinaTask, d, hina!FromVM, "run"))
    <3>1. d # HinaTask
      BY <1>1, <1>7, <2>1 DEF hina!send_ready, hina!Waits, QueueInv, Scheduled
    <3>2. d \in HinaNatives
      BY <3>1 DEF hina!Tasks
    <3>3. Letter(HinaTask, d, hina!FromVM)
      BY <1>10, <3>2, Zenon DEF Letter
    <3>. QED BY <1>1, <1>5, <1>7, <2>1, <3>3, SendMail
  <2>2. CASE UNCHANGED <<hina!ipcVars, cpu, runqueue>>
    <3>1. m' = m /\ at' = at /\ out' = out /\ wait_for' = wait_for
      BY <2>2 DEF hina!ipcVars
    <3>. QED BY <1>5, <3>1, Zenon
  <2>. QED BY <1>3, <2>1, <2>2, Zenon
<1>12. ProgramInv(hina_pc', regs', m'[HinaTask], at'[HinaTask])
  <2>1. CASE insts = hina!pong
    <3>1. hina_pc' = 13
      BY <1>1, <1>9, <2>1
    <3>. QED BY <1>1, <1>11, <2>1, <3>1, PongIsNotClient DEF ProgramInv
  <2>2. CASE insts # hina!pong
    <3>1. ASSUME insts = hina!client PROVE hina_pc' # 2
      <4>1. hina_pc' = 2 => hina_pc = 1
        BY <1>1, <1>6
      <4>2. hina!I_MOVI(1, hina!PING_MSG).op = "MOVI"
        BY DEF hina!I_MOVI
      <4>. QED BY <1>1, <3>1, <4>1, <4>2, ClientIs
    <3>. QED BY <1>1, <1>5, <1>11, <2>2, <3>1 DEF ProgramInv
  <2>. QED BY <2>1, <2>2
<1>. QED BY <1>1, <1>5, <1>6, <1>8, <1>11, <1>12, Primed DEF NativeInv

LEMMA RecvAnswers ==
    ASSUME hina!HinaVmAssumption, QueueInv, AnswerInv, hina!recv
    PROVE  AnswerInv'
<1>1. /\ hina_pc < Len(insts) /\ hina!inst.op = "RECV" /\ hina_pc' = hina_pc + 1 /\ hina!recv_message(HinaTask, regs[hina!inst.b])
      /\ regs' = [regs EXCEPT ![hina!inst.a] = 0] /\ UNCHANGED <<insts, calls, hina_got>>
  BY DEF hina!recv, hina!At, hina!natVars, hina!Set
<1>2. /\ insts \in PlainPrograms /\ regs \in [0 .. NumRegs - 1 -> hina!Words]
      /\ MailInv(m, at, out, wait_for) /\ ProgramInv(hina_pc, regs, m[HinaTask], at[HinaTask]) /\ NativeInv
  BY DEF AnswerInv
<1>3. insts = hina!pong /\ hina_pc = 2 /\ hina!inst.b = 0 /\ hina_pc + 1 \in 0 .. hina!Undefined
  BY <1>1, PlaceIs
<1>4. regs[hina!inst.b] = hina!IPC_ANY
  BY <1>2, <1>3 DEF ProgramInv
<1>5. 0 \in hina!Words
  BY TaskNumbers DEF hina!Words
<1>6. regs' \in [0 .. NumRegs - 1 -> hina!Words]
  BY <1>1, <1>2, <1>5
<1>7. MailInv(m', at', out', wait_for') /\ m' = m
  BY <1>1, <1>2, <1>4, TaskNumbers, RecvMail
<1>8. hina_pc' = 3
  BY <1>1, <1>3
<1>9. ProgramInv(hina_pc', regs', m'[HinaTask], at'[HinaTask])
  BY <1>3, <1>8, PongIsNotClient DEF ProgramInv
<1>. QED BY <1>1, <1>2, <1>3, <1>6, <1>7, <1>9, Primed DEF NativeInv

LEMMA ExitAnswers ==
    ASSUME hina!HinaVmAssumption, QueueInv, AnswerInv, hina!task_exit
    PROVE  AnswerInv'
<1>1. cpu = HinaTask /\ at[HinaTask] = "run" /\ UNCHANGED <<insts, hina!vmVars, calls, hina_got>>
  BY DEF hina!task_exit, hina!At, hina!Interprets, hina!natVars
<1>2. \/ hina!send_ready(HinaTask, Pager, hina!Exception, "exit") \/ hina!send_block(HinaTask, Pager, hina!Exception, "exit")
      \/ at' = [at EXCEPT ![HinaTask] = "exit"] /\ UNCHANGED <<wait_for, m, out>>
  BY Zenon DEF hina!task_exit
<1>3. MailInv(m, at, out, wait_for) /\ NativeInv
  BY DEF AnswerInv
<1>4. HinaTask \in hina!Tasks /\ Pager \in HinaNatives /\ HinaTask \in hina!Words /\ 1 \in hina!Words /\ hina!FROM_KERNEL \in hina!Words
  BY TaskNumbers DEF hina!Words, hina!FROM_KERNEL
<1>5. Letter(HinaTask, Pager, hina!Exception)
  <2>1. hina!Exception \in hina!Message /\ hina!Exception.type = 1
    <3>. HIDE DEF hina!Words, hina!FROM_KERNEL
    <3>. QED BY <1>4 DEF hina!Exception, hina!Message, hina!EXCEPTION_MSG
  <2>. QED BY <1>4, <2>1 DEF Letter, Honest, hina!PING_REPLY_MSG
<1>6. MailInv(m', at', out', wait_for') /\ VmReceives /\ (at'[HinaTask] = "taken" => at[HinaTask] = "taken")
  <2>1. CASE hina!send_ready(HinaTask, Pager, hina!Exception, "exit") \/ hina!send_block(HinaTask, Pager, hina!Exception, "exit")
    BY <1>1, <1>3, <1>4, <1>5, <2>1, SendMail
  <2>2. CASE at' = [at EXCEPT ![HinaTask] = "exit"] /\ UNCHANGED <<wait_for, m, out>>
    <3>1. \A t \in hina!Tasks : at'[t] = "deliver" => at[t] = "deliver"
      BY <1>1, <2>2 DEF QueueInv
    <3>2. MailInv(m', at', out', wait_for')
      BY <1>3, <2>2, <3>1, Zenon DEF MailInv
    <3>. QED BY <1>4, <2>2, <3>2 DEF VmReceives, QueueInv
  <2>. QED BY <1>2, <2>1, <2>2
<1>. QED BY <1>1, <1>3, <1>6, AnswersOutside DEF NativeInv

LEMMA InterpretAnswers ==
    ASSUME hina!HinaVmAssumption, QueueInv, AnswerInv, hina!hinavm_run
    PROVE  AnswerInv'
<1>1. CASE hina!exited
  BY <1>1, SameAnswers DEF hina!exited, hina!vmVars, hina!natVars
<1>. QED BY <1>1, ComputeAnswers, ControlAnswers, MessageAnswers, SendAnswers, RecvAnswers,
            ExitAnswers
     DEF hina!hinavm_run

LEMMA NextAnswers ==
    ASSUME hina!HinaVmAssumption, QueueInv, AnswerInv, [hina!Next]_(hina!vars)
    PROVE  AnswerInv'
<1>1. ASSUME hina!idle_task \/ (\E t \in HinaNatives : hina!preempt(t)) \/ UNCHANGED hina!vars PROVE AnswerInv'
  <2>1. UNCHANGED <<insts, hina_pc, regs, at, wait_for, m, out, calls, hina_got>>
    BY <1>1, Zenon DEF hina!idle_task, hina!preempt, hina!vars, hina!vmVars, hina!ipcVars,
                       hina!natVars
  <2>. QED BY <2>1, SameAnswers
<1>2. ASSUME NEW t \in hina!Tasks, hina!Kernel(t) PROVE AnswerInv'
  <2>1. CASE hina!deliver(t)
    BY <2>1, DeliverAnswers
  <2>2. CASE hina!taken(t)
    BY <2>2, TakenAnswers
  <2>3. CASE hina!hinavm_run
    BY <2>3, InterpretAnswers
  <2>4. CASE t # HinaTask /\ hina!answer(t)
    <3>1. t \in HinaNatives
      BY <2>4 DEF hina!Tasks
    <3>. QED BY <2>4, <3>1, NativeAnswers
  <2>. QED BY <1>2, <2>1, <2>2, <2>3, <2>4 DEF hina!Kernel
<1>3. ASSUME NEW t \in HinaNatives, (\E v \in Values : hina!ping(t, v)) \/ hina!receive(t) PROVE AnswerInv'
  BY <1>3, NativeAnswers
<1>. QED BY <1>1, <1>2, <1>3 DEF hina!Next

LEMMA InitAnswers ==
    ASSUME hina!HinaVmAssumption, hina!Init, insts # hina!echo
    PROVE  AnswerInv
<1>1. insts \in PlainPrograms
  <2>1. PICK p \in HinaPrograms : insts = hina!Code[p]
    BY DEF hina!Init
  <2>2. p \in DOMAIN hina!Code
    BY DEF hina!HinaVmAssumption
  <2>3. p \in {"pong", "echo", "client", "stray", "illegal", "nobody", "self", "spin"}
    BY <2>2 DEF hina!Code
  <2>4. /\ hina!Code["pong"] = hina!pong /\ hina!Code["echo"] = hina!echo /\ hina!Code["client"] = hina!client /\ hina!Code["stray"] = hina!stray
        /\ hina!Code["illegal"] = hina!illegal /\ hina!Code["nobody"] = hina!nobody /\ hina!Code["self"] = hina!self
        /\ hina!Code["spin"] = hina!spin
    BY DEF hina!Code
  <2>. QED BY <2>1, <2>3, <2>4, Zenon DEF PlainPrograms
<1>2. 0 \in hina!Words /\ hina!WORD \in Nat /\ hina!WORD > 42 /\ HinaTask \in hina!Tasks /\ MaxCalls \in Nat
  BY TaskNumbers DEF hina!Words, hina!HinaVmAssumption
<1>3. /\ hina_pc = 0 /\ regs = [r \in 0 .. NumRegs - 1 |-> 0] /\ at = [t \in hina!Tasks |-> "run"]
      /\ wait_for = [t \in hina!Tasks |-> hina!IPC_DENY] /\ m = [t \in hina!Tasks |-> hina!Nothing]
      /\ calls = [t \in HinaNatives |-> 0] /\ hina_got = [t \in HinaNatives |-> hina!Nothing]
  BY DEF hina!Init
<1>4. hina!Nothing \in hina!Message /\ hina!Nothing.type = 0
  <2>. HIDE DEF hina!Words
  <2>. QED BY <1>2 DEF hina!Nothing, hina!Message
<1>5. Honest(hina!Nothing)
  BY <1>4 DEF Honest, hina!PING_REPLY_MSG
<1>6. hina_pc \in 0 .. hina!Undefined /\ regs \in [0 .. NumRegs - 1 -> hina!Words]
  BY <1>2, <1>3 DEF hina!Undefined
<1>7. MailInv(m, at, out, wait_for)
  <2>1. m \in [hina!Tasks -> hina!Message] /\ wait_for \in [hina!Tasks -> hina!Tasks \cup {hina!IPC_ANY, hina!IPC_DENY}]
    BY <1>3, <1>4
  <2>2. ASSUME NEW t \in HinaNatives PROVE Honest(m[t])
    <3>1. m[t] = hina!Nothing
      BY <1>3, TaskNumbers
    <3>. QED BY <1>5, <3>1, Zenon
  <2>3. \A t \in hina!Tasks : at[t] # "deliver"
    BY <1>3
  <2>. QED BY <2>1, <2>2, <2>3, Zenon DEF MailInv
<1>8. ProgramInv(hina_pc, regs, m[HinaTask], at[HinaTask])
  BY <1>2, <1>3, <1>4 DEF ProgramInv, hina!PING_REPLY_MSG
<1>9. NativeInv
  <2>1. calls \in [HinaNatives -> 0 .. MaxCalls] /\ hina_got \in [HinaNatives -> hina!Message]
    BY <1>2, <1>3, <1>4
  <2>2. ASSUME NEW t \in HinaNatives PROVE Honest(hina_got[t])
    <3>1. hina_got[t] = hina!Nothing
      BY <1>3
    <3>. QED BY <1>5, <3>1, Zenon
  <2>. QED BY <2>1, <2>2, Zenon DEF NativeInv
<1>. QED BY <1>1, <1>6, <1>7, <1>8, <1>9 DEF AnswerInv

LEMMA AnswersSay ==
    ASSUME hina!HinaVmAssumption, QueueInv, AnswerInv, insts \in {hina!Code[p] : p \in HinaPrograms}
    PROVE  hina!TypeOK /\ hina!OwnAnswer
<1>1. hina!TypeOK
  BY DEF hina!TypeOK, QueueInv, Scheduled, AnswerInv, MailInv, NativeInv
<1>2. hina!OwnAnswer
  BY DEF hina!OwnAnswer, AnswerInv, NativeInv, Honest
<1>. QED BY <1>1, <1>2

HinaInv == QueueInv /\ (insts # hina!echo => AnswerInv) /\ insts \in {hina!Code[p] : p \in HinaPrograms}

LEMMA NextHina == ASSUME hina!HinaVmAssumption, HinaInv, [hina!Next]_(hina!vars) PROVE HinaInv'
<1>1. UNCHANGED insts
  BY DEF hina!Next, hina!Kernel, hina!vars, hina!idle_task, hina!preempt, hina!ping, hina!receive,
         hina!answer, hina!deliver, hina!taken, hina!hinavm_run,
         hina!compute, hina!control, hina!message, hina!send, hina!recv, hina!task_exit, hina!exited
<1>2. QueueInv'
  BY NextQueues DEF HinaInv
<1>3. insts # hina!echo => AnswerInv'
  BY NextAnswers DEF HinaInv
<1>4. insts' \in {hina!Code[p] : p \in HinaPrograms}
  BY <1>1, Zenon DEF HinaInv
<1>. QED BY <1>1, <1>2, <1>3, <1>4 DEF HinaInv

LEMMA InitHina == ASSUME hina!HinaVmAssumption PROVE hina!Init => HinaInv
<1>1. hina!Init => insts \in {hina!Code[p] : p \in HinaPrograms}
  BY DEF hina!Init
<1>. QED BY <1>1, InitQueues, InitAnswers DEF HinaInv

LEMMA HinaInvSays ==
    ASSUME hina!HinaVmAssumption, HinaInv
    PROVE  hina!QueuesSound /\ (insts # hina!echo => hina!TypeOK /\ hina!OwnAnswer)
  BY QueuesSay, AnswersSay DEF HinaInv

\* kernel/hinavm.c on kernel/ipc.c and kernel/task.c, whatever the program: a task that can run is
\* in the run queue once or has the CPU, and a task is in a queue of senders only while it is
\* blocked in its send to the owner of the queue, and once.
THEOREM HinaQueuesSound ==
    ASSUME hina!HinaVmAssumption
    PROVE  hina!Spec => []hina!QueuesSound
<1>. QED BY InitHina, NextHina, HinaInvSays, PTL DEF hina!Spec

\* kernel/hinavm.c with the program of servers/hello_hinavm, and with every other one but echo: of a
\* task that is back from its call of pong the answer is 42, whoever called and was preempted in
\* between, and no other program answers.
THEOREM OwnAnswers ==
    ASSUME hina!HinaVmAssumption
    PROVE  hina!Spec => [](insts # hina!echo => hina!TypeOK /\ hina!OwnAnswer)
<1>. QED BY InitHina, NextHina, HinaInvSays, PTL DEF hina!Spec
=============================================================================
