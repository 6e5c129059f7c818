--------------------------- MODULE VmServerProofs ---------------------------
(***************************************************************************)
(* Theorems about VmServer, for any number of tasks and any names: the     *)
(* table has the structure of every living task, nobody waits for a        *)
(* service that is there, what a server keeps for a task that has ended is *)
(* not forgotten, and no message that a task has ended is left behind.     *)
(***************************************************************************)
EXTENDS VmServer, SequenceTheorems, FiniteSetTheorems, WellFoundedInduction, TLAPS

\* Where applications have others destroyed none is started: freed memory that still has the
\* name a task waited for would otherwise be taken for that of a new task with the same ID.  The
\* shell that starts servers/crack, which sends DESTROY_TASK_MSG, does not keep to this.
NoRebirth == Killers => Startable \cap Programs = {}

\* What a task calls.
VmOps == {"", "exit", "fault", "invalid", "lookup", "connect", "destroy", "close", "watch", "register",
          "spawn", "pull"}

\* The states of a task, and the contents of a structure.
TaskStates == [st : {"run", "call", "blocked", "exited", "unused"}, prog : Programs,
               inc : 0 .. MaxBorn, step : Nat, op : VmOps, peer : Tids \cup {0},
               name : Names \cup {""}]
Structures == [used : BOOLEAN, tid : Tids \cup {0}, waiting_for : Names \cup {""}, watch_tasks : BOOLEAN]

\* The messages, and the services.
VmMessage == [dst : Tids, ended : Tids]
Service == [name : Names, task : Tids]

\* What servers keep.
Keeps == [server : Tids, owner : Tids, inc : 1 .. MaxBorn]

\* All variables; a structure that watches or waits has an ID.
VmTypes ==
    /\ task \in [Tids -> TaskStates] /\ notified \subseteq Tids /\ tasks \in [Tids -> Chunks \cup {0}]
    /\ chunk \in [Chunks -> Structures] /\ services \in Seq(Service) /\ async \in Seq(VmMessage)
    /\ vm \in {"recv", "renotify", "dead"} /\ again \in Tids \cup {0} /\ born \in 0 .. MaxBorn
    /\ kept \subseteq Keeps
    /\ vm = "recv" => again = 0
    /\ vm = "renotify" => again \in Tids
    /\ \A c \in Chunks : chunk[c].watch_tasks \/ chunk[c].waiting_for # "" => chunk[c].tid \in Tids

\* An ID that is free has no state, a living task has a number.
Born == \A t \in Tids : IF Alive(t) THEN task[t].inc # 0 ELSE task[t] = Unused

\* What a task has done so far when it calls op.
Program(k) ==
    /\ k.prog = "app" /\ k.step # 0 => k.peer \in Tids
    /\ k.st = "blocked" => k.op \in {"lookup", "pull"}
    /\ k.st \in {"call", "blocked"} =>
          /\ k.op \in {"lookup", "register"} => k.name \in Names
          /\ k.op = "watch" => k.prog \in {"server", "shell"} /\ k.step = 0
          /\ k.op = "register" => k.prog = "server" /\ k.step = 1
          /\ k.op = "spawn" => k.prog = "shell" /\ k.step = 1
          /\ k.op = "lookup" => k.prog = "app" /\ k.step = 0
          /\ k.op \in {"connect", "close", "destroy"} => k.prog = "app" /\ k.step # 0
          /\ k.op = "destroy" => Killers
          /\ k.op = "pull" => k.prog \in {"server", "shell"} /\ k.step = 2
          /\ k.op \in {"exit", "fault", "invalid"} => k.prog = "app" \/ FrailServers
ProgramsRight == \A t \in Tids : Program(task[t])

\* A structure with the ID of a living task that has a name is the structure of that task, which
\* waits for a service of that name.
WaitsRight ==
    \A c \in Chunks, t \in Tids : chunk[c].tid = t /\ chunk[c].waiting_for # "" /\ Alive(t) =>
        /\ tasks[t] = c /\ task[t].st = "blocked" /\ task[t].op = "lookup"
        /\ task[t].name = chunk[c].waiting_for

\* What holds of any application.
Table == VmTypes /\ Born /\ ProgramsRight /\ EntriesOwn /\ WaitsRight /\ NoForgottenWaiter

\* Who waits lives.
WaitersLive == \A c \in Chunks : chunk[c].waiting_for # "" => Alive(chunk[c].tid)

\* A server or shell that has got past WATCH_TASKS_MSG watches.
Watching ==
    \A t \in Tids : Alive(t) /\ task[t].prog \in {"server", "shell"} /\ task[t].step # 0 =>
        chunk[tasks[t]].watch_tasks

\* Who keeps something is a server in its loop.
KeptByServers ==
    \A r \in kept : Alive(r.server) /\ task[r.server].prog = "server" /\ task[r.server].step = 2

\* What holds when tasks end only by themselves.
Peaceful == VmAlive /\ WaitersLive /\ Watching /\ KeptByServers /\ NoLeak

\* Servers and the shell live for ever: a structure that watches is one of theirs, and a
\* message is for one of them.
Lasting(t) == Alive(t) /\ task[t].prog \in {"server", "shell"}
WatchersLast == \A c \in Chunks : chunk[c].watch_tasks => Lasting(chunk[c].tid)
MessagesLast == \A i \in 1 .. Len(async) : Lasting(async[i].dst)

\* What holds when, besides, no server faults.
Robust == WatchersLast /\ MessagesLast /\ NoLostMessage

\* The inductive invariant.
VmInv == Table /\ (~Killers => Peaceful) /\ (~Killers /\ ~FrailServers => Robust)

-----------------------------------------------------------------------------
(* The constants, and the operators of the model.                          *)

LEMMA VmConstants ==
    ASSUME VmAssumption
    PROVE  /\ MaxTid \in Nat /\ MaxTid >= 1 /\ MaxBorn \in Nat /\ Tids \subseteq Nat /\ Chunks = Tids
           /\ \A t \in Tids : t \in Nat /\ t >= 2 /\ t =< MaxTid
           /\ 0 \notin Tids /\ "" \notin Names
           /\ Endings \subseteq {"exit", "fault", "invalid"} /\ Startable \subseteq Programs \cup {"missing"}
           /\ Len(BootServers) \in Nat /\ Len(BootServers) < MaxTid /\ Len(BootServers) =< MaxBorn
           /\ BootServers \in Seq(Programs)
<1>1. BootServers \in Seq(Programs) /\ Len(BootServers) < MaxTid /\ MaxTid \in Nat
  BY DEF VmAssumption
<1>2. Len(BootServers) \in Nat
  BY <1>1
<1>3. /\ MaxBorn \in Nat /\ Len(BootServers) =< MaxBorn /\ "" \notin Names
      /\ Endings \subseteq {"exit", "fault", "invalid"} /\ Startable \subseteq Programs \cup {"missing"}
  BY Zenon DEF VmAssumption
<1>4. /\ Tids \subseteq Nat /\ Chunks = Tids /\ 0 \notin Tids
      /\ \A t \in Tids : t \in Nat /\ t >= 2 /\ t =< MaxTid
  BY <1>1 DEF Tids, Chunks
<1>5. MaxTid >= 1
  BY <1>1, <1>2
<1>. QED BY <1>1, <1>2, <1>3, <1>4, <1>5, Zenon

LEMMA TidsAre ==
    ASSUME VmAssumption
    PROVE  MaxTid \in Nat /\ MaxTid >= 1 /\ Tids = 2 .. MaxTid /\ Chunks = 2 .. MaxTid
  BY VmConstants DEF Tids, Chunks

\* A set of natural numbers has a least one, and Min is it.
LEMMA LeastNatural ==
    ASSUME NEW S \in SUBSET Nat, S # {}
    PROVE  \E x \in S : \A y \in S : x <= y
<1>1. PICK x \in S : \A y \in S : ~(<<y, x>> \in OpToRel(<, Nat))
  BY NatLessThanWellFounded, WFMin
<1>2. \A y \in S : x <= y
  <2>. SUFFICES ASSUME NEW y \in S PROVE x <= y
    OBVIOUS
  <2>1. x \in Nat /\ y \in Nat
    OBVIOUS
  <2>2. ~(y < x)
    BY <1>1, <2>1, Zenon DEF OpToRel
  <2>. QED BY <2>1, <2>2
<1>. QED BY <1>1, <1>2

LEMMA MinIsLeast ==
    ASSUME NEW S \in SUBSET Nat, S # {}
    PROVE  Min(S) \in S /\ \A y \in S : Min(S) <= y
<1>1. \E x \in S : \A y \in S : x <= y
  BY LeastNatural
<1>. QED BY <1>1, Zenon DEF Min

\* What a program sends, and when.
SendsAt(k, o) ==
    /\ o \in {"exit", "fault", "invalid", "lookup", "connect", "destroy", "close", "watch", "register", "spawn"}
    /\ o \in {"exit", "fault", "invalid"} => k.prog = "app" \/ FrailServers
    /\ o = "lookup" => k.prog = "app" /\ k.step = 0
    /\ o \in {"connect", "destroy"} => k.prog = "app" /\ k.step = 1
    /\ o = "destroy" => Killers
    /\ o = "close" => k.prog = "app" /\ k.step = 2
    /\ o = "watch" => k.prog \in {"server", "shell"} /\ k.step = 0
    /\ o = "register" => k.prog = "server" /\ k.step = 1
    /\ o = "spawn" => k.prog = "shell" /\ k.step = 1

LEMMA SendsRight ==
    ASSUME VmAssumption, NEW t \in Tids, NEW o \in Sends(t)
    PROVE  SendsAt(task[t], o)
<1>1. PICK p : p = task[t].prog
  OBVIOUS
<1>2. PICK n : n = task[t].step
  OBVIOUS
<1>3. CASE p = "app" /\ n = 0
  BY <1>1, <1>2, <1>3 DEF Sends, SendsAt, VmAssumption
<1>4. CASE p = "app" /\ n = 1
  BY <1>1, <1>2, <1>4 DEF Sends, SendsAt, VmAssumption
<1>5. CASE p = "app" /\ n = 2
  BY <1>1, <1>2, <1>5 DEF Sends, SendsAt, VmAssumption
<1>6. CASE p \in {"server", "shell"} /\ n = 0
  BY <1>1, <1>2, <1>6 DEF Sends, SendsAt, VmAssumption
<1>7. CASE p = "server" /\ n = 1
  BY <1>1, <1>2, <1>7 DEF Sends, SendsAt, VmAssumption
<1>8. CASE p = "shell" /\ n = 1
  BY <1>1, <1>2, <1>8 DEF Sends, SendsAt, VmAssumption
<1>9. CASE /\ ~(p = "app" /\ n \in {0, 1, 2}) /\ ~(p \in {"server", "shell"} /\ n = 0)
           /\ ~(p = "server" /\ n = 1) /\ ~(p = "shell" /\ n = 1)
  <2>1. Sends(t) = (IF p = "app" THEN Endings ELSE IF FrailServers /\ p = "server" THEN {"fault"} ELSE {})
    <3>1. /\ ~(p = "app" /\ n = 0) /\ ~(p = "app" /\ n = 1) /\ ~(p = "app" /\ n = 2)
          /\ ~(p \in {"server", "shell"} /\ n = 0) /\ ~(p = "server" /\ n = 1) /\ ~(p = "shell" /\ n = 1)
      BY <1>9
    <3>2. (CASE p = "app" /\ n = 0 -> {"lookup"}
             [] p = "app" /\ n = 1 -> IF Killers THEN {"destroy"} ELSE {"connect"}
             [] p = "app" /\ n = 2 -> {"close"}
             [] p \in {"server", "shell"} /\ n = 0 -> {"watch"}
             [] p = "server" /\ n = 1 -> {"register"}
             [] p = "shell" /\ n = 1 -> {"spawn"}
             [] OTHER -> {}) = {}
      BY <3>1, Zenon
    <3>. QED BY <1>1, <1>2, <3>2, Zenon DEF Sends
  <2>. QED BY <1>1, <2>1 DEF SendsAt, VmAssumption
<1>. QED BY <1>3, <1>4, <1>5, <1>6, <1>7, <1>8, <1>9

\* alloc_tid finds an ID that is free.
LEMMA AllocTid ==
    ASSUME VmAssumption, alloc_tid # 0
    PROVE  alloc_tid \in Tids /\ ~Alive(alloc_tid)
<1>. DEFINE Free == {t \in Tids : ~Alive(t)}
<1>1. Free # {} /\ Free \in SUBSET Nat
  BY VmConstants DEF alloc_tid
<1>2. PICK t \in Free : \A u \in Free : t <= u
  BY <1>1, LeastNatural
<1>3. ~Alive(t) /\ \A u \in Tids : u < t => Alive(u)
  <2>1. ASSUME NEW u \in Tids, u < t PROVE Alive(u)
    <3>1. t \in Nat /\ u \in Nat
      BY VmConstants
    <3>2. u \notin Free
      BY <1>2, <2>1, <3>1
    <3>. QED BY <3>2
  <2>. QED BY <2>1
<1>4. \E u \in Tids : ~Alive(u) /\ \A w \in Tids : w < u => Alive(w)
  BY <1>2, <1>3
<1>. QED BY <1>4, Zenon DEF alloc_tid

\* The entry t of the table has a structure that watches.
Watches(t) == tasks[t] # 0 /\ chunk[tasks[t]].watch_tasks

\* g collects the structures that watch, up to entry n.
Collects(n, g) ==
    /\ g = [i \in 1 .. n |-> g[i]]
    /\ \A i \in 1 .. n : g[i] = IF i = 1 THEN <<>>
                                ELSE IF Watches(i) THEN Append(g[i - 1], tasks[i]) ELSE g[i - 1]

LEMMA CollectsExist ==
    ASSUME NEW n \in Nat
    PROVE  \E g : Collects(n, g)
<1>. DEFINE Bad == {k \in Nat : ~\E g : Collects(k, g)}
<1>. SUFFICES ASSUME Bad # {} PROVE FALSE
  OBVIOUS
<1>1. Bad \in SUBSET Nat
  OBVIOUS
<1>2. PICK k \in Bad : \A j \in Bad : k =< j
  BY <1>1, LeastNatural
<1>3. CASE k = 0
  <2>1. PICK g : g = [i \in 1 .. k |-> <<>>]
    OBVIOUS
  <2>2. Collects(k, g)
    BY <1>3, <2>1 DEF Collects
  <2>. QED BY <2>2
<1>4. CASE k # 0
  <2>1. k \in Nat /\ k - 1 \in Nat /\ k - 1 \notin Bad
    BY <1>2, <1>4
  <2>2. PICK g : Collects(k - 1, g)
    BY <2>1
  <2>3. PICK x : x = IF k = 1 THEN <<>> ELSE IF Watches(k) THEN Append(g[k - 1], tasks[k]) ELSE g[k - 1]
    OBVIOUS
  <2>4. PICK h : h = [i \in 1 .. k |-> IF i = k THEN x ELSE g[i]]
    OBVIOUS
  <2>5. h = [i \in 1 .. k |-> h[i]] /\ h[k] = x /\ \A i \in 1 .. k - 1 : h[i] = g[i]
    BY <2>1, <2>4
  <2>6. ASSUME NEW i \in 1 .. k
        PROVE  h[i] = IF i = 1 THEN <<>> ELSE IF Watches(i) THEN Append(h[i - 1], tasks[i]) ELSE h[i - 1]
    <3>1. i # 1 => h[i - 1] = g[i - 1]
      <4>1. i # 1 => i - 1 \in 1 .. k - 1
        BY <2>1
      <4>. QED BY <2>5, <4>1
    <3>2. CASE i = k
      BY <2>3, <2>5, <3>1, <3>2
    <3>3. CASE i # k
      <4>1. i \in 1 .. k - 1
        BY <2>1, <3>3
      <4>. QED BY <2>2, <2>5, <3>1, <4>1 DEF Collects
    <3>. QED BY <3>2, <3>3
  <2>7. Collects(k, h)
    BY <2>5, <2>6 DEF Collects
  <2>. QED BY <2>7
<1>. QED BY <1>3, <1>4

\* q has the structures of the entries up to n that watch, and nothing else.
Collected(n, q) ==
    /\ q \in Seq(Chunks)
    /\ \A i \in 1 .. Len(q) : \E t \in Tids : Watches(t) /\ q[i] = tasks[t]
    /\ \A t \in Tids : t =< n /\ Watches(t) => \E i \in 1 .. Len(q) : q[i] = tasks[t]

LEMMA WatchersAre ==
    ASSUME VmAssumption, VmTypes
    PROVE  Collected(MaxTid, Watchers)
<1>. DEFINE Step(g) == [i \in 1 .. MaxTid |->
                          IF i = 1 THEN <<>>
                          ELSE IF tasks[i] # 0 /\ chunk[tasks[i]].watch_tasks THEN Append(g[i - 1], tasks[i])
                          ELSE g[i - 1]]
<1>0. MaxTid \in Nat /\ MaxTid >= 1 /\ MaxTid \in 1 .. MaxTid /\ 0 \notin Tids
  BY TidsAre
<1>1. PICK g : Collects(MaxTid, g)
  BY <1>0, CollectsExist
<1>2. g = Step(g)
  BY <1>0, <1>1, Zenon DEF Collects, Watches
<1>3. PICK h : h = CHOOSE x : x = Step(x)
  OBVIOUS
<1>4. h = Step(h)
  BY <1>2, <1>3
<1>5. Watchers = h[MaxTid]
  BY <1>3 DEF Watchers
<1>6. \A i \in 1 .. MaxTid : h[i] = IF i = 1 THEN <<>>
                                    ELSE IF Watches(i) THEN Append(h[i - 1], tasks[i]) ELSE h[i - 1]
  BY <1>4 DEF Watches
<1>7. \A i \in 1 .. MaxTid : Collected(i, h[i])
  <2>. DEFINE Bad == {i \in 1 .. MaxTid : ~Collected(i, h[i])}
  <2>. SUFFICES ASSUME Bad # {} PROVE FALSE
    OBVIOUS
  <2>1. Bad \in SUBSET Nat
    BY <1>0
  <2>2. PICK k \in Bad : \A j \in Bad : k =< j
    BY <2>1, LeastNatural
  <2>. HIDE DEF Step
  <2>3. CASE k = 1
    <3>1. h[k] = <<>> /\ k \in 1 .. MaxTid
      BY <1>6, <2>3
    <3>2. <<>> \in Seq(Chunks) /\ Len(<<>>) = 0
      OBVIOUS
    <3>3. \A t \in Tids : ~(t =< k)
      BY <2>3, TidsAre
    <3>4. Collected(k, h[k])
      BY <3>1, <3>2, <3>3 DEF Collected
    <3>. QED BY <3>4
  <2>4. CASE k # 1
    <3>1. k \in Nat /\ k \in Tids /\ k - 1 \in 1 .. MaxTid /\ k \in 1 .. MaxTid
      BY <1>0, <2>4 DEF Tids
    <3>2. Collected(k - 1, h[k - 1])
      <4>1. k - 1 \notin Bad
        BY <2>2, <3>1
      <4>. QED BY <3>1, <4>1
    <3>3. PICK q \in Seq(Chunks) : q = h[k - 1]
      BY <3>2 DEF Collected
    <3>4. \A t \in Tids : t =< k => t = k \/ t =< k - 1
      BY <3>1, TidsAre
    <3>5. CASE Watches(k)
      <4>1. tasks[k] \in Chunks
        BY <3>1, <3>5 DEF VmTypes, Watches
      <4>2. h[k] = Append(q, tasks[k])
        BY <1>6, <2>4, <3>1, <3>3, <3>5
      <4>3. PICK r \in Seq(Chunks) : r = h[k]
        BY <4>1, <4>2
      <4>4. Len(r) = Len(q) + 1 /\ r[Len(q) + 1] = tasks[k] /\ Len(q) \in Nat /\ \A i \in 1 .. Len(q) : r[i] = q[i]
        BY <4>1, <4>2, <4>3
      <4>5. \A i \in 1 .. Len(r) : i = Len(q) + 1 \/ i \in 1 .. Len(q)
        BY <4>4
      <4>6. \A i \in 1 .. Len(r) : \E t \in Tids : Watches(t) /\ r[i] = tasks[t]
        BY <3>1, <3>2, <3>3, <3>5, <4>4, <4>5 DEF Collected
      <4>7. ASSUME NEW t \in Tids, t =< k, Watches(t) PROVE \E i \in 1 .. Len(r) : r[i] = tasks[t]
        <5>1. CASE t = k
          <6>1. Len(q) + 1 \in 1 .. Len(r)
            BY <4>4
          <6>. QED BY <4>4, <5>1, <6>1
        <5>2. CASE t =< k - 1
          <6>1. PICK i \in 1 .. Len(q) : q[i] = tasks[t]
            BY <3>2, <3>3, <4>7, <5>2 DEF Collected
          <6>2. i \in 1 .. Len(r)
            BY <4>4
          <6>. QED BY <4>4, <6>1, <6>2
        <5>. QED BY <3>4, <4>7, <5>1, <5>2
      <4>8. Collected(k, r)
        BY <4>6, <4>7 DEF Collected
      <4>. QED BY <4>3, <4>8
    <3>6. CASE ~Watches(k)
      <4>1. h[k] = q
        BY <1>6, <2>4, <3>1, <3>3, <3>6
      <4>2. Collected(k, q)
        <5>1. ASSUME NEW t \in Tids, t =< k, Watches(t) PROVE t =< k - 1
          BY <3>4, <3>6, <5>1
        <5>. QED BY <3>2, <3>3, <5>1 DEF Collected
      <4>. QED BY <4>1, <4>2
    <3>. QED BY <3>5, <3>6
  <2>. QED BY <2>3, <2>4
<1>. QED BY <1>0, <1>5, <1>7

\* RemoveAt takes out one element and closes the gap.
LEMMA RemoveAtElements ==
    ASSUME NEW S, NEW q \in Seq(S), NEW i \in 1 .. Len(q)
    PROVE  /\ RemoveAt(q, i) \in Seq(S) /\ Len(RemoveAt(q, i)) = Len(q) - 1
           /\ \A j \in 1 .. Len(q) - 1 : RemoveAt(q, i)[j] = IF j < i THEN q[j] ELSE q[j + 1]
<1>1. PICK a, b : a = SubSeq(q, 1, i - 1) /\ b = SubSeq(q, i + 1, Len(q))
  OBVIOUS
<1>2. /\ a \in Seq(S) /\ Len(a) = i - 1 /\ \A j \in 1 .. i - 1 : a[j] = q[j]
  BY <1>1
<1>3. /\ b \in Seq(S) /\ Len(b) = Len(q) - i /\ \A j \in 1 .. Len(q) - i : b[j] = q[i + j]
  BY <1>1
<1>4. RemoveAt(q, i) = a \o b
  BY <1>1 DEF RemoveAt
<1>5. /\ a \o b \in Seq(S) /\ Len(a \o b) = Len(q) - 1
      /\ \A j \in 1 .. Len(q) - 1 : (a \o b)[j] = IF j < i THEN a[j] ELSE b[j - (i - 1)]
  <2>1. Len(a) + Len(b) = Len(q) - 1 /\ Len(q) \in Nat
    BY <1>2, <1>3
  <2>2. /\ a \o b \in Seq(S) /\ Len(a \o b) = Len(a) + Len(b)
        /\ \A j \in 1 .. Len(a) + Len(b) : (a \o b)[j] = IF j =< Len(a) THEN a[j] ELSE b[j - Len(a)]
    BY <1>2, <1>3, ConcatProperties
  <2>3. \A j \in 1 .. Len(q) - 1 : j =< Len(a) <=> j < i
    BY <1>2, <2>1
  <2>. QED BY <1>2, <2>1, <2>2, <2>3
<1>6. ASSUME NEW j \in 1 .. Len(q) - 1 PROVE (a \o b)[j] = IF j < i THEN q[j] ELSE q[j + 1]
  <2>1. CASE j < i
    BY <1>2, <1>5, <2>1
  <2>2. CASE ~(j < i)
    <3>1. j - (i - 1) \in 1 .. Len(q) - i /\ i + (j - (i - 1)) = j + 1
      BY <2>2
    <3>. QED BY <1>3, <1>5, <2>2, <3>1
  <2>. QED BY <2>1, <2>2
<1>. QED BY <1>4, <1>5, <1>6

\* The messages and the services have their types.
LEMMA MessageTypes ==
    ASSUME VmTypes
    PROVE  \A i \in 1 .. Len(async) : async[i] \in VmMessage /\ async[i].dst \in Tids /\ async[i].ended \in Tids
<1>1. async \in Seq(VmMessage)
  BY DEF VmTypes
<1>2. ASSUME NEW i \in 1 .. Len(async) PROVE async[i] \in VmMessage
  BY <1>1, ElementOfSeq
<1>. QED BY <1>2 DEF VmMessage

LEMMA ServiceTypes ==
    ASSUME VmTypes
    PROVE  \A i \in 1 .. Len(services) : services[i].name \in Names /\ services[i].task \in Tids
<1>1. services \in Seq(Service)
  BY DEF VmTypes
<1>2. ASSUME NEW i \in 1 .. Len(services) PROVE services[i] \in Service
  BY <1>1, ElementOfSeq
<1>. QED BY <1>2 DEF Service

-----------------------------------------------------------------------------
(* A step of one task.                                                     *)

\* The structures stay, but that of task t may come to watch.
SameStructures(t) ==
    /\ chunk' \in [Chunks -> Structures]
    /\ \A c \in Chunks :
          /\ chunk'[c].used = chunk[c].used /\ chunk'[c].tid = chunk[c].tid
          /\ chunk'[c].waiting_for = chunk[c].waiting_for
          /\ chunk[c].watch_tasks => chunk'[c].watch_tasks
          /\ chunk'[c].watch_tasks => chunk[c].watch_tasks \/ (chunk[c].tid = t /\ task[t].prog \in {"server", "shell"})

\* Task t, which does not wait, goes on with the state k; the tables stay.
Moved(t, k) ==
    /\ t \in Tids /\ k \in TaskStates /\ task' = [task EXCEPT ![t] = k]
    /\ Alive(t) /\ k.st # "unused" /\ k.prog = task[t].prog /\ k.inc = task[t].inc /\ Program(k)
    /\ task[t].st # "blocked" /\ (k.st = "blocked" => k.op = "pull")
    /\ tasks' = tasks /\ SameStructures(t) /\ services' = services
    /\ k.prog # "app" /\ k.step # 0 => task[t].step # 0 \/ chunk'[tasks[t]].watch_tasks
    /\ k.prog = "server" /\ task[t].step = 2 => k.step = 2

\* No task begins or ends, and a server in its loop stays there.
SameLives ==
    \A s \in Tids :
        /\ Alive(s)' = Alive(s) /\ task'[s].prog = task[s].prog /\ task'[s].inc = task[s].inc
        /\ task[s].prog = "server" /\ task[s].step = 2 => task'[s].step = 2

LEMMA MovedLives ==
    ASSUME VmTypes, NEW t, NEW k, Moved(t, k)
    PROVE  SameLives
<1>1. task \in [Tids -> TaskStates]
  BY DEF VmTypes
<1>2. ASSUME NEW s \in Tids PROVE task'[s] = IF s = t THEN k ELSE task[s]
  BY <1>1 DEF Moved
<1>. QED BY <1>2 DEF SameLives, Moved, Alive

\* It keeps what holds of any application, and the rest as far as it is about tasks.
LEMMA MovedTable ==
    ASSUME VmAssumption, Table, VmTypes', NEW t, NEW k, Moved(t, k)
    PROVE  /\ Table' /\ (WaitersLive => WaitersLive') /\ (Watching => Watching')
           /\ (WatchersLast => WatchersLast')
<1>1. task \in [Tids -> TaskStates] /\ t \in Tids /\ 0 \notin Tids
  BY VmConstants DEF Table, VmTypes, Moved
<1>2. \A s \in Tids : task'[s] = IF s = t THEN k ELSE task[s]
  BY <1>1 DEF Moved
<1>3. tasks' = tasks /\ SameStructures(t) /\ services' = services /\ \A s \in Tids : Alive(s)' = Alive(s)
  BY <1>2 DEF Moved, Alive
<1>4. Born'
  BY <1>1, <1>2, <1>3 DEF Table, Born, Moved
<1>5. ProgramsRight'
  BY <1>1, <1>2 DEF Table, ProgramsRight, Program, Moved
<1>6. EntriesOwn'
  <2>. SUFFICES ASSUME NEW s \in Tids, Alive(s)'
                PROVE  tasks'[s] # 0 /\ chunk'[tasks'[s]].used /\ chunk'[tasks'[s]].tid = s
    BY DEF EntriesOwn
  <2>1. tasks[s] # 0 /\ chunk[tasks[s]].used /\ chunk[tasks[s]].tid = s /\ tasks[s] \in Chunks
    BY <1>3 DEF Table, EntriesOwn, VmTypes
  <2>. QED BY <1>3, <2>1 DEF SameStructures
<1>7. WaitsRight'
  <2>. SUFFICES ASSUME NEW c \in Chunks, NEW s \in Tids,
                       chunk'[c].tid = s, chunk'[c].waiting_for # "", Alive(s)'
                PROVE  /\ tasks'[s] = c /\ task'[s].st = "blocked" /\ task'[s].op = "lookup"
                       /\ task'[s].name = chunk'[c].waiting_for
    BY DEF WaitsRight
  <2>1. /\ tasks[s] = c /\ task[s].st = "blocked" /\ task[s].op = "lookup"
        /\ task[s].name = chunk[c].waiting_for
    BY <1>3, ZenonT(40) DEF Table, WaitsRight, SameStructures
  <2>2. s # t
    BY <2>1 DEF Moved
  <2>. QED BY <1>2, <1>3, <2>1, <2>2 DEF SameStructures
<1>8. NoForgottenWaiter'
  <2>1. \A s \in Tids : task'[s].st = "blocked" /\ task'[s].op = "lookup" => task'[s] = task[s]
    BY <1>1, <1>2 DEF Moved
  <2>. SUFFICES ASSUME NEW s \in Tids, task'[s].st = "blocked", task'[s].op = "lookup"
                PROVE  {i \in 1 .. Len(services') : services'[i].name = task'[s].name} = {} /\ chunk'[tasks'[s]].waiting_for = task'[s].name
    BY DEF NoForgottenWaiter, Named
  <2>2. task'[s] = task[s] /\ Named(task[s].name) = {} /\ chunk[tasks[s]].waiting_for = task[s].name
    BY <2>1 DEF Table, NoForgottenWaiter
  <2>3. tasks[s] \in Chunks
    BY <2>2, ZenonT(40) DEF Table, Born, EntriesOwn, VmTypes, Alive
  <2>4. {i \in 1 .. Len(services') : services'[i].name = task'[s].name} = Named(task[s].name)
    BY <1>3, <2>2 DEF Named
  <2>. QED BY <1>3, <2>2, <2>3, <2>4 DEF SameStructures
<1>9. WaitersLive => WaitersLive'
  <2>. SUFFICES ASSUME WaitersLive, NEW c \in Chunks, chunk'[c].waiting_for # "" PROVE Alive(chunk[c].tid)'
    BY <1>3 DEF WaitersLive, SameStructures, Alive
  <2>1. Alive(chunk[c].tid) /\ chunk[c].tid \in Tids /\ chunk'[c].tid = chunk[c].tid
    BY <1>3 DEF WaitersLive, Table, VmTypes, SameStructures
  <2>. QED BY <1>3, <2>1 DEF Alive
<1>10. Watching => Watching'
  <2>. SUFFICES ASSUME Watching, NEW s \in Tids, Alive(s)', task'[s].prog \in {"server", "shell"}, task'[s].step # 0
                PROVE  chunk'[tasks[s]].watch_tasks
    BY <1>3 DEF Watching
  <2>1. Alive(s) /\ tasks[s] \in Chunks
    BY <1>3 DEF Table, EntriesOwn, VmTypes
  <2>2. chunk[tasks[s]].watch_tasks => chunk'[tasks[s]].watch_tasks
    BY <1>3, <2>1 DEF SameStructures
  <2>3. CASE s = t
    BY <1>2, <2>1, <2>2, <2>3 DEF Watching, Moved
  <2>4. CASE s # t
    BY <1>2, <2>1, <2>2, <2>4 DEF Watching
  <2>. QED BY <2>3, <2>4
<1>11. WatchersLast => WatchersLast'
  <2>1. \A s \in Tids : Lasting(s) => Lasting(s)'
    BY <1>1, <1>2, <1>3 DEF Lasting, Moved
  <2>. SUFFICES ASSUME WatchersLast, NEW c \in Chunks, chunk'[c].watch_tasks
                PROVE  chunk'[c].tid \in Tids /\ Lasting(chunk[c].tid)
    BY <1>3, <2>1 DEF WatchersLast, SameStructures, Lasting, Alive
  <2>2. CASE chunk[c].watch_tasks
    BY <1>3, <2>2 DEF WatchersLast, Table, VmTypes, SameStructures
  <2>3. CASE ~chunk[c].watch_tasks
    BY <1>1, <1>3, <2>3 DEF SameStructures, Lasting, Moved
  <2>. QED BY <2>2, <2>3
<1>. QED BY <1>4, <1>5, <1>6, <1>7, <1>8, <1>9, <1>10, <1>11 DEF Table

\* What servers keep that they did not keep before is for a task that lives.
KeptRight ==
    \A r \in kept' \ kept :
        /\ r \in Keeps
        /\ Alive(r.server) /\ task[r.server].prog = "server" /\ task[r.server].step = 2
        /\ Alive(r.owner) /\ task[r.owner].inc = r.inc

LEMMA KeptOn ==
    ASSUME VmTypes, SameLives, KeptRight, KeptByServers
    PROVE  KeptByServers' /\ (NoLeak /\ async' = async => NoLeak')
<1>1. \A r \in kept' : r.server \in Tids /\ r.owner \in Tids
  <2>1. \A r \in kept' : r \in Keeps
    BY DEF VmTypes, KeptRight
  <2>. QED BY <2>1 DEF Keeps
<1>2. KeptByServers'
  <2>. SUFFICES ASSUME NEW r \in kept' PROVE (Alive(r.server) /\ task[r.server].prog = "server" /\ task[r.server].step = 2)'
    BY DEF KeptByServers
  <2>1. Alive(r.server) /\ task[r.server].prog = "server" /\ task[r.server].step = 2
    BY DEF KeptByServers, KeptRight
  <2>. QED BY <1>1, <2>1 DEF SameLives, Alive
<1>3. ASSUME NoLeak, async' = async PROVE NoLeak'
  <2>. SUFFICES ASSUME NEW r \in kept'
                PROVE  \/ task'[r.owner].st # "unused" /\ task'[r.owner].inc = r.inc
                       \/ \E i \in 1 .. Len(async') : async'[i].dst = r.server /\ async'[i].ended = r.owner
    BY Zenon DEF NoLeak, Alive
  <2>1. \/ Alive(r.owner) /\ task[r.owner].inc = r.inc
        \/ \E i \in 1 .. Len(async) : async[i].dst = r.server /\ async[i].ended = r.owner
    BY <1>3 DEF NoLeak, KeptRight
  <2>. QED BY <1>1, <1>3, <2>1 DEF SameLives, Alive
<1>. QED BY <1>2, <1>3

LEMMA MessagesOn ==
    ASSUME VmTypes, SameLives, async' = async, MessagesLast
    PROVE  MessagesLast'
<1>1. \A i \in 1 .. Len(async) : async[i].dst \in Tids
  BY MessageTypes
<1>. QED BY <1>1 DEF MessagesLast, Lasting, SameLives

\* t goes on; it may take a notification and ask for the message, and what is kept may change.
Quietly(t, k) ==
    /\ Moved(t, k) /\ async' = async /\ vm' = vm /\ again' = again /\ born' = born
    /\ KeptRight /\ notified' \subseteq Tids
    /\ \A s \in notified : s \in notified' \/ (s = t /\ k.op = "pull" /\ k.st # "run")
    /\ task[t].op = "pull" /\ task[t].st # "run" => k.op = "pull" /\ k.st # "run"

LEMMA QuietlyInv ==
    ASSUME VmAssumption, VmInv, NEW t, NEW k, Quietly(t, k)
    PROVE  VmInv'
<1>1. VmTypes /\ Table /\ Moved(t, k)
  BY DEF VmInv, Table, Quietly
<1>2. VmTypes'
  <2>1. kept' \subseteq Keeps
    BY <1>1 DEF VmTypes, Quietly, KeptRight
  <2>2. \A c \in Chunks : chunk'[c].watch_tasks \/ chunk'[c].waiting_for # "" => chunk'[c].tid \in Tids
    BY <1>1 DEF VmTypes, Moved, SameStructures
  <2>. QED BY <1>1, <2>1, <2>2 DEF VmTypes, Quietly, Moved, SameStructures
<1>3. SameLives
  BY <1>1, MovedLives
<1>4. /\ Table' /\ (WaitersLive => WaitersLive') /\ (Watching => Watching')
      /\ (WatchersLast => WatchersLast')
  BY <1>1, <1>2, MovedTable
<1>5. KeptRight /\ async' = async /\ vm' = vm
  BY DEF Quietly
<1>6. KeptByServers /\ NoLeak => KeptByServers' /\ NoLeak'
  BY <1>1, <1>3, <1>5, KeptOn
<1>7. MessagesLast => MessagesLast'
  BY <1>1, <1>3, <1>5, MessagesOn
<1>8. NoLostMessage => NoLostMessage'
  <2>. SUFFICES ASSUME NoLostMessage, NEW i \in 1 .. Len(async), task'[async[i].dst].st # "unused"
                PROVE  \/ async[i].dst \in notified' \/ again' = async[i].dst
                       \/ task'[async[i].dst].op = "pull" /\ task'[async[i].dst].st # "run"
    BY <1>5 DEF NoLostMessage, Alive
  <2>1. PICK s \in Tids : s = async[i].dst
    BY <1>1, MessageTypes
  <2>2. Alive(s)
    BY <1>3, <2>1 DEF SameLives, Alive
  <2>3. s \in notified \/ again = s \/ (task[s].op = "pull" /\ task[s].st # "run")
    BY <2>1, <2>2 DEF NoLostMessage
  <2>4. task'[s] = IF s = t THEN k ELSE task[s]
    BY <1>1 DEF Moved, VmTypes
  <2>. QED BY <2>1, <2>3, <2>4 DEF Quietly
<1>9. VmAlive => VmAlive'
  BY <1>5 DEF VmAlive
<1>. QED BY <1>4, <1>6, <1>7, <1>8, <1>9, Zenon DEF VmInv, Peaceful, Robust

-----------------------------------------------------------------------------
(* The tasks.                                                              *)

LEMMA SendKept ==
    ASSUME VmAssumption, VmInv, NEW t \in Tids, Send(t)
    PROVE  VmInv'
<1>1. VmTypes /\ Program(task[t]) /\ task[t] \in TaskStates
  BY DEF VmInv, Table, VmTypes, ProgramsRight
<1>2. PICK o \in Sends(t), n \in Names :
        LET lost == o \in {"connect", "close"} /\ ~Alive(task[t].peer) IN
        task' = [task EXCEPT ![t] =
               IF lost THEN [@ EXCEPT !.step = 3]
               ELSE [@ EXCEPT !.st = "call", !.op = o,
                              !.name = IF o \in {"lookup", "register"} THEN n ELSE task[t].name]]
  BY DEF Send
<1>a. PICK k : k = IF o \in {"connect", "close"} /\ ~Alive(task[t].peer) THEN [task[t] EXCEPT !.step = 3]
                   ELSE [task[t] EXCEPT !.st = "call", !.op = o,
                              !.name = IF o \in {"lookup", "register"} THEN n ELSE task[t].name]
  OBVIOUS
<1>b. task' = [task EXCEPT ![t] = k]
  BY <1>2, <1>a
<1>3. SendsAt(task[t], o)
  BY SendsRight
<1>4. Alive(t) /\ task[t].st = "run" /\ UNCHANGED <<notified, vmVars, kept, born>>
  BY DEF Send
<1>5. CASE o \in {"connect", "close"} /\ ~Alive(task[t].peer)
  <2>1. k = [task[t] EXCEPT !.step = 3]
    BY <1>5, <1>a
  <2>3. k \in TaskStates /\ k.st = "run" /\ k.prog = "app" /\ task[t].prog = "app" /\ k.inc = task[t].inc /\ k.step = 3 /\ k.peer = task[t].peer /\ task[t].step # 0
    <3>1. k \in TaskStates
      BY <1>1, <2>1 DEF TaskStates
    <3>2. k.st = task[t].st /\ k.prog = task[t].prog /\ k.inc = task[t].inc /\ k.step = 3 /\ k.peer = task[t].peer
      BY <1>1, <2>1 DEF TaskStates
    <3>3. task[t].prog = "app" /\ task[t].step # 0
      BY <1>3, <1>5 DEF SendsAt
    <3>. QED BY <1>4, <3>1, <3>2, <3>3
  <2>4. Program(k)
    BY <1>1, <2>3 DEF Program
  <2>5. Quietly(t, k)
    BY <1>1, <1>4, <1>b, <2>3, <2>4 DEF Quietly, Moved, SameStructures, vmVars, VmTypes, KeptRight
  <2>. QED BY <2>5, QuietlyInv
<1>6. CASE ~(o \in {"connect", "close"} /\ ~Alive(task[t].peer))
  <2>1. k = [task[t] EXCEPT !.st = "call", !.op = o,
                            !.name = IF o \in {"lookup", "register"} THEN n ELSE task[t].name]
    BY <1>6, <1>a, Zenon
  <2>3. k \in TaskStates /\ k.st = "call" /\ k.prog = task[t].prog /\ k.inc = task[t].inc /\ k.step = task[t].step /\ k.peer = task[t].peer /\ k.op = o
    BY <1>1, <1>3, <1>4, <2>1 DEF TaskStates, SendsAt, VmOps
  <2>4. o \in {"lookup", "register"} => k.name \in Names
    BY <1>1, <2>1 DEF TaskStates
  <2>5. Program(k)
    BY <1>1, <1>3, <2>3, <2>4 DEF Program, SendsAt
  <2>6. Quietly(t, k)
    BY <1>1, <1>4, <1>b, <2>3, <2>5 DEF Quietly, Moved, SameStructures, vmVars, VmTypes, KeptRight
  <2>. QED BY <2>6, QuietlyInv
<1>. QED BY <1>5, <1>6

LEMMA RecvNotificationKept ==
    ASSUME VmAssumption, VmInv, NEW t \in Tids, RecvNotification(t)
    PROVE  VmInv'
<1>1. VmTypes /\ Program(task[t]) /\ task[t] \in TaskStates
  BY DEF VmInv, Table, VmTypes, ProgramsRight
<1>2. /\ task[t].st = "run" /\ task[t].step = 2 /\ task[t].prog \in {"server", "shell"}
      /\ notified' = notified \ {t} /\ task' = [task EXCEPT ![t].st = "call", ![t].op = "pull"]
      /\ UNCHANGED <<vmVars, kept, born>>
  BY DEF RecvNotification, InLoop
<1>3. PICK k : k = [task[t] EXCEPT !.st = "call", !.op = "pull"]
  OBVIOUS
<1>4. task' = [task EXCEPT ![t] = k]
  BY <1>1, <1>2, <1>3 DEF VmTypes
<1>5. k \in TaskStates /\ k.st = "call" /\ k.op = "pull" /\ k.prog = task[t].prog /\ k.inc = task[t].inc /\ k.step = 2
  BY <1>1, <1>2, <1>3 DEF TaskStates, VmOps
<1>6. Program(k)
  BY <1>1, <1>2, <1>5 DEF Program
<1>7. Quietly(t, k)
  BY <1>1, <1>2, <1>4, <1>5, <1>6 DEF Quietly, Moved, SameStructures, vmVars, VmTypes, KeptRight, Alive
<1>. QED BY <1>7, QuietlyInv

LEMMA RecvRequestKept ==
    ASSUME VmAssumption, VmInv, NEW t \in Tids, RecvRequest(t)
    PROVE  VmInv'
<1>1. VmTypes /\ Born
  BY DEF VmInv, Table
<1>2. /\ task[t].st = "run" /\ task[t].step = 2 /\ task[t].prog = "server"
      /\ UNCHANGED <<notified, vmVars, born>>
  BY DEF RecvRequest, InLoop
<1>3. PICK s \in Tids :
        /\ Asking(t, s, {"connect", "close"})
        /\ task' = [task EXCEPT ![s].st = "run", ![s].step = @ + 1]
        /\ kept' = IF task[s].op = "connect" THEN kept \cup {Serve(t, s)}
                   ELSE {r \in kept : ~(r.server = t /\ r.owner = s)}
  BY DEF RecvRequest
<1>4. task[s] \in TaskStates /\ Program(task[s]) /\ task[s].st = "call" /\ task[s].op \in {"connect", "close"}
  BY <1>1, <1>3 DEF VmTypes, VmInv, Table, ProgramsRight, Asking
<1>5. task[s].prog = "app" /\ task[s].step # 0 /\ task[s].inc # 0 /\ Alive(s) /\ Alive(t) /\ task[s].step \in Nat
  BY <1>1, <1>2, <1>4 DEF Program, Born, Alive, TaskStates
<1>6. PICK k : k = [task[s] EXCEPT !.st = "run", !.step = task[s].step + 1]
  OBVIOUS
<1>7. task' = [task EXCEPT ![s] = k]
  BY <1>1, <1>3, <1>4, <1>6 DEF VmTypes, TaskStates
<1>8. /\ k \in TaskStates /\ k.st = "run" /\ k.prog = "app" /\ k.inc = task[s].inc /\ k.peer = task[s].peer
      /\ k.op = task[s].op
  <2>1. task[s].step + 1 \in Nat
    BY <1>5
  <2>2. k \in TaskStates
    BY <1>4, <1>6, <2>1 DEF TaskStates
  <2>. QED BY <1>4, <1>5, <1>6, <2>2 DEF TaskStates
<1>9. Program(k)
  BY <1>4, <1>5, <1>8 DEF Program
<1>10. KeptRight
  <2>1. \A r \in kept' \ kept : r = Serve(t, s)
    BY <1>3
  <2>2. Serve(t, s).server = t /\ Serve(t, s).owner = s /\ Serve(t, s).inc = task[s].inc
    BY DEF Serve
  <2>3. Serve(t, s) \in Keeps
    <3>1. task[s].inc \in 1 .. MaxBorn
      <4>1. task[s].inc \in 0 .. MaxBorn
        BY <1>4 DEF TaskStates
      <4>2. MaxBorn \in Nat /\ task[s].inc # 0
        BY <1>5, VmConstants
      <4>. QED BY <4>1, <4>2
    <3>. QED BY <3>1 DEF Serve, Keeps
  <2>. QED BY <1>2, <1>5, <2>1, <2>2, <2>3 DEF KeptRight
<1>11. Quietly(s, k)
  BY <1>1, <1>2, <1>4, <1>5, <1>7, <1>8, <1>9, <1>10 DEF Quietly, Moved, SameStructures, vmVars, VmTypes
<1>. QED BY <1>11, QuietlyInv

-----------------------------------------------------------------------------
(* The VM server's answers.                                                *)

\* The task whose message the VM server handles has its structure in the table.
LEMMA Caller ==
    ASSUME VmAssumption, VmInv, NEW t \in Tids, NEW o, Received(t, o)
    PROVE  /\ VmTypes /\ Alive(t) /\ task[t] \in TaskStates /\ Program(task[t]) /\ task[t].st = "call"
           /\ task[t].op = o /\ vm = "recv" /\ task[t].step \in Nat
           /\ task_find(t) = tasks[t] /\ tasks[t] \in Chunks /\ tasks[t] # 0
           /\ chunk[tasks[t]] \in Structures /\ chunk[tasks[t]].used /\ chunk[tasks[t]].tid = t
<1>1. VmTypes /\ Alive(t) /\ EntriesOwn /\ ProgramsRight
  BY DEF VmInv, Table, Received
<1>2. task[t] \in TaskStates /\ Program(task[t])
  BY <1>1 DEF VmTypes, ProgramsRight
<1>3. tasks[t] \in Chunks /\ tasks[t] # 0 /\ chunk[tasks[t]].used /\ chunk[tasks[t]].tid = t
  BY <1>1 DEF EntriesOwn, VmTypes
<1>4. chunk[tasks[t]] \in Structures
  BY <1>1, <1>3 DEF VmTypes
<1>5. task[t].step \in Nat
  BY <1>2 DEF TaskStates
<1>. QED BY <1>1, <1>2, <1>3, <1>4, <1>5 DEF Received, task_find

\* The state of a task that has its answer.
Answered(t) == [task[t] EXCEPT !.st = "run", !.step = task[t].step + 1]

LEMMA AnsweredIs ==
    ASSUME VmTypes, NEW t \in Tids
    PROVE  /\ Answer(t) = [task EXCEPT ![t] = Answered(t)] /\ Answer(t)[t] = Answered(t)
           /\ Answered(t) \in TaskStates /\ Answered(t).st = "run" /\ Answered(t).step = task[t].step + 1
           /\ Answered(t).prog = task[t].prog /\ Answered(t).inc = task[t].inc /\ Answered(t).op = task[t].op
           /\ Answered(t).peer = task[t].peer /\ Answered(t).name = task[t].name
<1>1. task \in [Tids -> TaskStates] /\ task[t] \in TaskStates
  BY DEF VmTypes
<1>2. task[t].step + 1 \in Nat
  <2>1. task[t].step \in Nat
    BY <1>1 DEF TaskStates
  <2>. QED BY <2>1
<1>3. Answered(t) \in TaskStates
  BY <1>1, <1>2 DEF TaskStates, Answered
<1>4. /\ Answered(t).st = "run" /\ Answered(t).step = task[t].step + 1
      /\ Answered(t).prog = task[t].prog /\ Answered(t).inc = task[t].inc /\ Answered(t).op = task[t].op
      /\ Answered(t).peer = task[t].peer /\ Answered(t).name = task[t].name
  BY <1>1 DEF TaskStates, Answered
<1>5. Answer(t) = [task EXCEPT ![t] = Answered(t)] /\ Answer(t)[t] = Answered(t)
  <2>1. PICK k : k = Answered(t)
    OBVIOUS
  <2>2. Answer(t) = [task EXCEPT ![t] = k]
    BY <1>1, <2>1 DEF Answer, Answered, TaskStates
  <2>. QED BY <1>1, <2>1, <2>2
<1>. QED BY <1>3, <1>4, <1>5

LEMMA WatchTasksKept ==
    ASSUME VmAssumption, VmInv, NEW t \in Tids, WatchTasks(t)
    PROVE  VmInv'
<1>1. Received(t, "watch")
  BY DEF WatchTasks
<1>2. /\ VmTypes /\ Alive(t) /\ Program(task[t]) /\ task[t].st = "call" /\ task[t].op = "watch" /\ vm = "recv"
      /\ task_find(t) = tasks[t] /\ tasks[t] \in Chunks /\ tasks[t] # 0
      /\ chunk[tasks[t]] \in Structures /\ chunk[tasks[t]].used /\ chunk[tasks[t]].tid = t
  BY <1>1, Caller
<1>3. /\ chunk' = [chunk EXCEPT ![tasks[t]].watch_tasks = TRUE] /\ task' = Answer(t)
      /\ UNCHANGED <<services, tasks, vm, notified, async, again, kept, born>>
  BY <1>2 DEF WatchTasks, Checked
<1>4. PICK k : k = Answered(t)
  OBVIOUS
<1>5. /\ task' = [task EXCEPT ![t] = k] /\ k \in TaskStates /\ k.st = "run" /\ k.prog = task[t].prog
      /\ k.inc = task[t].inc /\ k.op = task[t].op /\ k.peer = task[t].peer /\ k.step = task[t].step + 1
  BY <1>2, <1>3, <1>4, AnsweredIs
<1>6. task[t].prog \in {"server", "shell"} /\ task[t].step = 0
  BY <1>2 DEF Program
<1>7. Program(k)
  BY <1>2, <1>5, <1>6 DEF Program
<1>8. SameStructures(t) /\ chunk'[tasks[t]].watch_tasks
  <2>1. chunk \in [Chunks -> Structures]
    BY <1>2 DEF VmTypes
  <2>2. [chunk[tasks[t]] EXCEPT !.watch_tasks = TRUE] \in Structures
    BY <1>2 DEF Structures
  <2>3. chunk' \in [Chunks -> Structures]
    BY <1>3, <2>1, <2>2
  <2>4. \A c \in Chunks : chunk'[c] = IF c = tasks[t] THEN [chunk[c] EXCEPT !.watch_tasks = TRUE] ELSE chunk[c]
    BY <1>3, <2>1
  <2>5. ASSUME NEW c \in Chunks
        PROVE  /\ chunk'[c].used = chunk[c].used /\ chunk'[c].tid = chunk[c].tid
               /\ chunk'[c].waiting_for = chunk[c].waiting_for
               /\ chunk'[c].watch_tasks = IF c = tasks[t] THEN TRUE ELSE chunk[c].watch_tasks
    BY <2>1, <2>4 DEF Structures
  <2>. QED BY <1>2, <1>6, <2>3, <2>5 DEF SameStructures
<1>9. Moved(t, k)
  BY <1>2, <1>3, <1>5, <1>6, <1>7, <1>8 DEF Moved
<1>10. Quietly(t, k)
  BY <1>2, <1>3, <1>9 DEF Quietly, KeptRight, VmTypes
<1>. QED BY <1>10, QuietlyInv

\* Nothing but the state of t changes.
LEMMA OnlyTask ==
    ASSUME VmAssumption, VmInv, NEW t \in Tids, Alive(t), NEW k \in TaskStates, task' = [task EXCEPT ![t] = k],
           UNCHANGED <<tasks, chunk, services, notified, async, vm, again, kept, born>>,
           k.st # "unused", k.prog = task[t].prog, k.inc = task[t].inc, Program(k),
           task[t].st # "blocked", k.st = "blocked" => k.op = "pull",
           k.prog # "app" /\ k.step # 0 => task[t].step # 0,
           k.prog = "server" /\ task[t].step = 2 => k.step = 2,
           task[t].op = "pull" /\ task[t].st # "run" => k.op = "pull" /\ k.st # "run"
    PROVE  VmInv'
<1>1. VmTypes
  BY DEF VmInv, Table
<1>2. SameStructures(t)
  BY <1>1 DEF SameStructures, VmTypes
<1>3. Moved(t, k)
  BY <1>2 DEF Moved
<1>4. Quietly(t, k)
  BY <1>1, <1>3 DEF Quietly, KeptRight, VmTypes
<1>. QED BY <1>4, QuietlyInv

LEMMA LookupKept ==
    ASSUME VmAssumption, VmInv, NEW t \in Tids, Lookup(t)
    PROVE  VmInv'
<1>1. Received(t, "lookup")
  BY DEF Lookup
<1>2. /\ VmTypes /\ Alive(t) /\ task[t] \in TaskStates /\ Program(task[t]) /\ task[t].st = "call" /\ task[t].op = "lookup" /\ vm = "recv"
      /\ task_find(t) = tasks[t] /\ tasks[t] \in Chunks /\ tasks[t] # 0
      /\ chunk[tasks[t]] \in Structures /\ chunk[tasks[t]].used /\ chunk[tasks[t]].tid = t /\ task[t].step \in Nat
  BY <1>1, Caller
<1>3. task[t].prog = "app" /\ task[t].step = 0 /\ task[t].name \in Names
  BY <1>2 DEF Program
<1>4. PICK name : name = task[t].name
  OBVIOUS
<1>5. CASE Named(name) # {}
  <2>1. /\ task' = [Answer(t) EXCEPT ![t].peer = services[Min(Named(name))].task]
        /\ UNCHANGED <<tasks, chunk, services, notified, async, vm, again, kept, born>>
    BY <1>2, <1>4, <1>5 DEF Lookup, Checked
  <2>2. services[Min(Named(name))].task \in Tids
    <3>1. Named(name) \in SUBSET Nat
      BY DEF Named
    <3>2. Min(Named(name)) \in Named(name)
      BY <1>5, <3>1, MinIsLeast
    <3>3. Min(Named(name)) \in 1 .. Len(services)
      BY <3>2 DEF Named
    <3>. QED BY <1>2, <3>3, ServiceTypes
  <2>3. PICK p \in Tids : p = services[Min(Named(name))].task
    BY <2>2
  <2>4. PICK k : k = [Answered(t) EXCEPT !.peer = p]
    OBVIOUS
  <2>5. task' = [task EXCEPT ![t] = k]
    <3>1. Answer(t) = [task EXCEPT ![t] = Answered(t)] /\ task \in [Tids -> TaskStates]
      BY <1>2, AnsweredIs DEF VmTypes
    <3>. QED BY <2>1, <2>3, <2>4, <3>1
  <2>6. /\ k \in TaskStates /\ k.st = "run" /\ k.prog = "app" /\ k.inc = task[t].inc /\ k.op = "lookup" /\ k.peer = p
    <3>1. /\ Answered(t) \in TaskStates /\ Answered(t).st = "run" /\ Answered(t).prog = "app"
          /\ Answered(t).inc = task[t].inc /\ Answered(t).op = "lookup"
      BY <1>2, <1>3, AnsweredIs
    <3>. QED BY <2>4, <3>1 DEF TaskStates
  <2>7. Program(k)
    BY <2>6 DEF Program
  <2>. QED BY <1>2, <1>3, <2>1, <2>5, <2>6, <2>7, OnlyTask
<1>6. CASE Named(name) = {}
  <2>. DEFINE k == [task[t] EXCEPT !.st = "blocked"]
              c == tasks[t]
  <2>1. /\ chunk' = [chunk EXCEPT ![c].waiting_for = name]
        /\ task' = [task EXCEPT ![t] = k]
        /\ UNCHANGED <<tasks, services, notified, async, vm, again, kept, born>>
    BY <1>2, <1>4, <1>6 DEF Lookup, Checked
  <2>2. k \in TaskStates /\ k.st = "blocked" /\ k.prog = "app" /\ k.inc = task[t].inc /\ k.op = "lookup" /\ k.name = name /\ k.step = 0
    BY <1>2, <1>3, <1>4 DEF TaskStates
  <2>. HIDE DEF k, c
  <2>3. task \in [Tids -> TaskStates] /\ chunk \in [Chunks -> Structures] /\ name # "" /\ name \in Names /\ c \in Chunks /\ c = tasks[t]
    BY <1>2, <1>3, <1>4, VmConstants DEF VmTypes, c
  <2>4. \A s \in Tids : task'[s] = IF s = t THEN k ELSE task[s]
    BY <2>1, <2>3
  <2>5. \A d \in Chunks : chunk'[d] = IF d = c THEN [chunk[d] EXCEPT !.waiting_for = name] ELSE chunk[d]
    BY <2>1, <2>3
  <2>6. \A d \in Chunks : /\ chunk'[d] \in Structures /\ chunk'[d].used = chunk[d].used /\ chunk'[d].tid = chunk[d].tid
                          /\ chunk'[d].watch_tasks = chunk[d].watch_tasks
                          /\ chunk'[d].waiting_for = IF d = c THEN name ELSE chunk[d].waiting_for
    BY <2>3, <2>5, ZenonT(40) DEF Structures
  <2>a. \A d \in Chunks : chunk'[d].tid = chunk[d].tid /\ (d # c => chunk'[d].waiting_for = chunk[d].waiting_for)
    BY <2>6
  <2>b. chunk[c].tid = t
    BY <1>2, <2>3
  <2>7. \A s \in Tids : Alive(s)' = Alive(s)
    BY <1>2, <2>2, <2>4 DEF Alive
  <2>8. /\ Born /\ ProgramsRight /\ EntriesOwn /\ WaitsRight /\ NoForgottenWaiter
    BY DEF VmInv, Table
  <2>9. VmTypes'
    <3>1. chunk' \in [Chunks -> Structures]
      BY <2>1, <2>3, <2>6
    <3>2. \A d \in Chunks : chunk'[d].watch_tasks \/ chunk'[d].waiting_for # "" => chunk'[d].tid \in Tids
      <4>. SUFFICES ASSUME NEW d \in Chunks, chunk'[d].watch_tasks \/ chunk'[d].waiting_for # ""
                    PROVE  chunk'[d].tid \in Tids
        OBVIOUS
      <4>1. CASE d = c
        BY <2>a, <2>b, <4>1
      <4>2. CASE d # c
        <5>1. chunk[d].watch_tasks \/ chunk[d].waiting_for # ""
          BY <2>6, <4>2
        <5>. QED BY <1>2, <2>a, <5>1 DEF VmTypes
      <4>. QED BY <4>1, <4>2
    <3>. QED BY <1>2, <2>1, <2>2, <3>1, <3>2 DEF VmTypes
  <2>10. Born' /\ ProgramsRight'
    <3>1. Program(k)
      BY <1>3, <1>4, <2>2 DEF Program
    <3>2. Born'
      BY <1>2, <2>2, <2>4, <2>7, <2>8 DEF Born
    <3>3. ProgramsRight'
      BY <2>4, <2>8, <3>1 DEF ProgramsRight, Program
    <3>. QED BY <3>2, <3>3
  <2>11. EntriesOwn'
    <3>. SUFFICES ASSUME NEW s \in Tids, Alive(s)'
                  PROVE  tasks'[s] # 0 /\ chunk'[tasks'[s]].used /\ chunk'[tasks'[s]].tid = s
      BY DEF EntriesOwn
    <3>1. tasks[s] # 0 /\ chunk[tasks[s]].used /\ chunk[tasks[s]].tid = s /\ tasks[s] \in Chunks
      BY <1>2, <2>7, <2>8 DEF EntriesOwn, VmTypes
    <3>. QED BY <2>1, <2>6, <3>1
  <2>12. WaitsRight'
    <3>. SUFFICES ASSUME NEW d \in Chunks, NEW s \in Tids,
                         chunk'[d].tid = s, chunk'[d].waiting_for # "", Alive(s)'
                  PROVE  /\ tasks'[s] = d /\ task'[s].st = "blocked" /\ task'[s].op = "lookup"
                         /\ task'[s].name = chunk'[d].waiting_for
      BY DEF WaitsRight
    <3>1. CASE d = c
      <4>1. s = t
        BY <1>2, <2>3, <2>6, <3>1
      <4>. QED BY <2>1, <2>2, <2>3, <2>4, <2>6, <3>1, <4>1
    <3>2. CASE d # c
      <4>1. /\ tasks[s] = d /\ task[s].st = "blocked" /\ task[s].op = "lookup"
            /\ task[s].name = chunk[d].waiting_for
        <5>1. chunk[d].tid = s /\ chunk[d].waiting_for # "" /\ Alive(s)
          BY <2>7, <2>a, <3>2
        <5>. QED BY <2>8, <5>1 DEF WaitsRight
      <4>2. s # t
        BY <1>2, <4>1
      <4>. QED BY <2>1, <2>4, <2>6, <3>2, <4>1, <4>2
    <3>. QED BY <3>1, <3>2
  <2>13. NoForgottenWaiter'
    <3>. SUFFICES ASSUME NEW s \in Tids, task'[s].st = "blocked", task'[s].op = "lookup"
                  PROVE  {i \in 1 .. Len(services') : services'[i].name = task'[s].name} = {} /\ chunk'[tasks'[s]].waiting_for = task'[s].name
      BY DEF NoForgottenWaiter, Named
    <3>1. CASE s = t
      <4>1. task'[s] = k
        BY <2>4, <3>1
      <4>2. {i \in 1 .. Len(services') : services'[i].name = task'[s].name} = Named(name)
        BY <2>1, <2>2, <4>1 DEF Named
      <4>. QED BY <1>6, <2>1, <2>2, <2>3, <2>6, <3>1, <4>1, <4>2
    <3>2. CASE s # t
      <4>1. task'[s] = task[s] /\ Named(task[s].name) = {} /\ chunk[tasks[s]].waiting_for = task[s].name
        BY <2>4, <2>8, <3>2 DEF NoForgottenWaiter
      <4>2. tasks[s] \in Chunks /\ chunk[tasks[s]].tid = s
        BY <1>2, <2>8, <4>1 DEF EntriesOwn, VmTypes, Alive
      <4>3. tasks[s] # c
        BY <1>2, <2>3, <3>2, <4>2
      <4>4. {i \in 1 .. Len(services') : services'[i].name = task'[s].name} = Named(task[s].name)
        BY <2>1, <4>1 DEF Named
      <4>. QED BY <2>1, <2>6, <4>1, <4>2, <4>3, <4>4
    <3>. QED BY <3>1, <3>2
  <2>14. SameLives /\ KeptRight /\ async' = async /\ vm' = vm
    BY <1>3, <2>1, <2>2, <2>4, <2>7 DEF SameLives, KeptRight
  <2>15. Peaceful => Peaceful'
    <3>. SUFFICES ASSUME Peaceful PROVE Peaceful'
      OBVIOUS
    <3>1. VmAlive'
      BY <2>14 DEF Peaceful, VmAlive
    <3>2. WaitersLive'
      <4>. SUFFICES ASSUME NEW d \in Chunks, chunk'[d].waiting_for # "" PROVE task'[chunk'[d].tid].st # "unused"
        BY DEF WaitersLive, Alive
      <4>1. chunk[d].tid \in Tids /\ Alive(chunk[d].tid) /\ chunk'[d].tid = chunk[d].tid
        <5>1. CASE d = c
          BY <1>2, <2>a, <2>b, <5>1
        <5>2. CASE d # c
          <6>1. chunk[d].waiting_for # ""
            BY <2>a, <5>2
          <6>. QED BY <1>2, <2>a, <6>1 DEF Peaceful, WaitersLive, VmTypes
        <5>. QED BY <5>1, <5>2
      <4>. QED BY <2>7, <4>1 DEF Alive
    <3>3. Watching'
      <4>. SUFFICES ASSUME NEW s \in Tids, Alive(s)', task'[s].prog \in {"server", "shell"}, task'[s].step # 0
                    PROVE  chunk'[tasks'[s]].watch_tasks
        BY DEF Watching
      <4>1. s # t /\ task'[s] = task[s] /\ Alive(s)
        BY <2>2, <2>4, <2>7
      <4>2. tasks[s] \in Chunks
        BY <1>2, <2>8, <4>1 DEF EntriesOwn, VmTypes
      <4>. QED BY <2>1, <2>6, <4>1, <4>2 DEF Peaceful, Watching
    <3>4. KeptByServers' /\ NoLeak'
      BY <1>2, <2>14, KeptOn DEF Peaceful
    <3>. QED BY <3>1, <3>2, <3>3, <3>4 DEF Peaceful
  <2>16. Robust => Robust'
    <3>. SUFFICES ASSUME Robust PROVE Robust'
      OBVIOUS
    <3>1. WatchersLast'
      <4>. SUFFICES ASSUME NEW d \in Chunks, chunk'[d].watch_tasks
                    PROVE  task'[chunk'[d].tid].st # "unused" /\ task'[chunk'[d].tid].prog \in {"server", "shell"}
        BY DEF WatchersLast, Lasting, Alive
      <4>1. chunk'[d].tid = chunk[d].tid /\ chunk[d].tid \in Tids /\ Lasting(chunk[d].tid)
        BY <1>2, <2>6 DEF Robust, WatchersLast, VmTypes
      <4>. QED BY <2>14, <4>1 DEF SameLives, Lasting, Alive
    <3>2. MessagesLast'
      BY <1>2, <2>14, MessagesOn DEF Robust
    <3>3. NoLostMessage'
      <4>. SUFFICES ASSUME NEW i \in 1 .. Len(async), task'[async[i].dst].st # "unused"
                    PROVE  \/ async[i].dst \in notified' \/ again' = async[i].dst
                           \/ task'[async[i].dst].op = "pull" /\ task'[async[i].dst].st # "run"
        BY <2>14 DEF NoLostMessage, Alive
      <4>1. PICK s \in Tids : s = async[i].dst
        BY <1>2, MessageTypes
      <4>2. Alive(s)
        BY <2>7, <4>1 DEF Alive
      <4>3. s \in notified \/ again = s \/ (task[s].op = "pull" /\ task[s].st # "run")
        BY <4>1, <4>2 DEF Robust, NoLostMessage
      <4>. QED BY <1>2, <2>1, <2>4, <4>1, <4>3
    <3>. QED BY <3>1, <3>2, <3>3 DEF Robust
  <2>. QED BY <2>9, <2>10, <2>11, <2>12, <2>13, <2>15, <2>16, Zenon DEF VmInv, Table
<1>. QED BY <1>5, <1>6

LEMMA RegisterKept ==
    ASSUME VmAssumption, VmInv, NEW t \in Tids, Register(t)
    PROVE  VmInv'
<1>1. Received(t, "register")
  BY DEF Register
<1>2. /\ VmTypes /\ Alive(t) /\ Program(task[t]) /\ task[t].st = "call" /\ task[t].op = "register"
      /\ task_find(t) = tasks[t] /\ tasks[t] # 0
  BY <1>1, Caller
<1>3. task[t].prog = "server" /\ task[t].step = 1 /\ task[t].name \in Names
  BY <1>2 DEF Program
<1>4. PICK name : name = task[t].name
  OBVIOUS
<1>. DEFINE told == {chunk[c].tid : c \in Waiters(name)}
            Woken(s) == s # t /\ s \in told /\ task[s].st = "blocked"
<1>5. /\ services' = Append(services, [name |-> name, task |-> t])
      /\ chunk' = [c \in Chunks |-> IF c \in Waiters(name) THEN [chunk[c] EXCEPT !.waiting_for = ""]
                                  ELSE chunk[c]]
      /\ task' = [s \in Tids |->
           IF s = t THEN Answer(t)[t]
           ELSE IF s \in told /\ task[s].st = "blocked"
           THEN [Answer(s)[s] EXCEPT !.peer = t] ELSE task[s]]
      /\ UNCHANGED <<tasks, vm, notified, async, again, kept, born>>
  BY <1>2, <1>4, Zenon DEF Register, Checked, service_register
<1>a. tasks' = tasks /\ UNCHANGED <<vm, notified, async, again, kept, born>>
  BY <1>5
<1>b. PICK sv : sv = [name |-> name, task |-> t]
  OBVIOUS
<1>c. services' = Append(services, sv)
  BY <1>5, <1>b
<1>6. /\ Born /\ ProgramsRight /\ EntriesOwn /\ WaitsRight /\ NoForgottenWaiter
  BY DEF VmInv, Table
<1>7. task \in [Tids -> TaskStates] /\ chunk \in [Chunks -> Structures] /\ name # "" /\ name \in Names /\ tasks \in [Tids -> Chunks \cup {0}]
  BY <1>2, <1>3, <1>4, VmConstants DEF VmTypes
<1>8. \A c \in Waiters(name) : c \in Chunks /\ chunk[c].waiting_for = name
  BY <1>7 DEF Waiters
<1>9. \A s \in Tids : tasks[s] # 0 /\ chunk[tasks[s]].waiting_for = name => tasks[s] \in Waiters(name)
  BY DEF Waiters
<1>10. \A s \in Tids : Alive(s) => tasks[s] \in Chunks /\ tasks[s] # 0 /\ chunk[tasks[s]].used /\ chunk[tasks[s]].tid = s
  BY <1>6, <1>7 DEF EntriesOwn
<1>11. ASSUME NEW s \in Tids, Woken(s)
       PROVE  task[s].op = "lookup" /\ task[s].name = name /\ task[s].prog = "app" /\ task[s].step = 0 /\ Alive(s)
  <2>1. PICK c \in Waiters(name) : s = chunk[c].tid
    BY <1>11
  <2>2. c \in Chunks /\ chunk[c].waiting_for = name /\ chunk[c].waiting_for # "" /\ Alive(s)
    BY <1>7, <1>8, <1>11, <2>1 DEF Alive
  <2>3. task[s].op = "lookup" /\ task[s].name = chunk[c].waiting_for
    BY <1>6, <2>1, <2>2 DEF WaitsRight
  <2>4. Program(task[s]) /\ task[s].st = "blocked"
    BY <1>6, <1>11 DEF ProgramsRight
  <2>5. task[s].prog = "app" /\ task[s].step = 0
    BY <2>3, <2>4 DEF Program
  <2>. QED BY <2>2, <2>3, <2>5
<1>12. ASSUME NEW s \in Tids, task[s].st = "blocked", task[s].op = "lookup", task[s].name = name
       PROVE  Woken(s)
  <2>1. Alive(s) /\ chunk[tasks[s]].waiting_for = name /\ s # t
    BY <1>2, <1>6, <1>12 DEF NoForgottenWaiter, Alive
  <2>2. tasks[s] \in Waiters(name) /\ chunk[tasks[s]].tid = s
    BY <1>9, <1>10, <2>1
  <2>. QED BY <1>12, <2>1, <2>2
<1>13. \A s \in Tids : task'[s] = IF s = t THEN Answered(t) ELSE IF Woken(s) THEN [Answered(s) EXCEPT !.peer = t] ELSE task[s]
  <2>1. \A s \in Tids : Answer(s)[s] = Answered(s)
    BY <1>2, AnsweredIs
  <2>. QED BY <1>5, <2>1
<1>14. /\ task'[t] \in TaskStates /\ task'[t].st = "run" /\ task'[t].prog = "server" /\ task'[t].step = 2
       /\ task'[t].inc = task[t].inc
  <2>1. task'[t] = Answered(t)
    BY <1>13
  <2>. QED BY <1>2, <1>3, <2>1, AnsweredIs
<1>15. ASSUME NEW s \in Tids, Woken(s)
       PROVE  /\ task'[s] \in TaskStates /\ task'[s].st = "run" /\ task'[s].prog = "app" /\ task'[s].inc = task[s].inc
              /\ task'[s].peer = t
  <2>1. task'[s] = [Answered(s) EXCEPT !.peer = t]
    BY <1>13, <1>15
  <2>2. Answered(s) \in TaskStates /\ Answered(s).st = "run" /\ Answered(s).prog = task[s].prog /\ Answered(s).inc = task[s].inc
    BY <1>2, AnsweredIs
  <2>. QED BY <1>11, <1>15, <2>1, <2>2 DEF TaskStates
<1>16. \A s \in Tids : s # t /\ ~Woken(s) => task'[s] = task[s]
  BY <1>13
<1>. HIDE DEF Woken, told
<1>17. ASSUME NEW d \in Chunks
       PROVE  /\ chunk'[d] \in Structures /\ chunk'[d].used = chunk[d].used /\ chunk'[d].tid = chunk[d].tid
              /\ chunk'[d].watch_tasks = chunk[d].watch_tasks
              /\ d \in Waiters(name) => chunk'[d].waiting_for = ""
              /\ d \notin Waiters(name) => chunk'[d].waiting_for = chunk[d].waiting_for
  <2>1. chunk'[d] = IF d \in Waiters(name) THEN [chunk[d] EXCEPT !.waiting_for = ""] ELSE chunk[d]
    BY <1>5
  <2>2. chunk[d] \in Structures
    BY <1>7
  <2>. QED BY <2>1, <2>2 DEF Structures
<1>18. SameLives
  <2>. SUFFICES ASSUME NEW s \in Tids
                PROVE  /\ (task'[s].st # "unused") = (task[s].st # "unused") /\ task'[s].prog = task[s].prog /\ task'[s].inc = task[s].inc
                       /\ task[s].prog = "server" /\ task[s].step = 2 => task'[s].step = 2
    BY DEF SameLives, Alive
  <2>1. CASE s = t
    BY <1>2, <1>3, <1>14, <2>1
  <2>2. CASE s # t /\ Woken(s)
    BY <1>11, <1>15, <2>2 DEF Alive
  <2>3. CASE s # t /\ ~Woken(s)
    BY <1>16, <2>3
  <2>. QED BY <2>1, <2>2, <2>3
<1>19. \A s \in Tids : Alive(s)' = Alive(s)
  BY <1>18 DEF SameLives
<1>20. KeptRight /\ async' = async /\ vm' = vm
  BY <1>5 DEF KeptRight
<1>21. VmTypes'
  <2>1. task' \in [Tids -> TaskStates]
    <3>1. \A s \in Tids : task'[s] \in TaskStates
      BY <1>7, <1>14, <1>15, <1>16
    <3>. QED BY <1>5, <3>1
  <2>2. chunk' \in [Chunks -> Structures]
    BY <1>5, <1>17
  <2>3. services' \in Seq(Service)
    <3>1. services \in Seq(Service) /\ sv \in Service
      BY <1>2, <1>7, <1>b DEF VmTypes, Service
    <3>. QED BY <1>c, <3>1
  <2>4. \A d \in Chunks : chunk'[d].watch_tasks \/ chunk'[d].waiting_for # "" => chunk'[d].tid \in Tids
    <3>. SUFFICES ASSUME NEW d \in Chunks, chunk'[d].watch_tasks \/ chunk'[d].waiting_for # ""
                  PROVE  chunk'[d].tid \in Tids
      OBVIOUS
    <3>1. chunk[d].watch_tasks \/ chunk[d].waiting_for # ""
      BY <1>17
    <3>. QED BY <1>2, <1>17, <3>1 DEF VmTypes
  <2>. QED BY <1>2, <1>a, <2>1, <2>2, <2>3, <2>4 DEF VmTypes
<1>22. Born'
  <2>. SUFFICES ASSUME NEW s \in Tids PROVE IF Alive(s)' THEN task'[s].inc # 0 ELSE task'[s] = Unused
    BY Zenon DEF Born, Unused, Fresh
  <2>1. IF Alive(s) THEN task[s].inc # 0 ELSE task[s] = Unused
    BY <1>6 DEF Born
  <2>2. CASE Alive(s)
    BY <1>18, <2>1, <2>2 DEF SameLives
  <2>3. CASE ~Alive(s)
    BY <1>2, <1>11, <1>16, <1>19, <2>1, <2>3
  <2>. QED BY <2>2, <2>3
<1>23. ProgramsRight'
  <2>. SUFFICES ASSUME NEW s \in Tids PROVE Program(task'[s])
    BY DEF ProgramsRight, Program
  <2>1. CASE s = t
    BY <1>14, <2>1 DEF Program
  <2>2. CASE s # t /\ Woken(s)
    BY <1>15, <2>2 DEF Program
  <2>3. CASE s # t /\ ~Woken(s)
    BY <1>6, <1>16, <2>3 DEF ProgramsRight
  <2>. QED BY <2>1, <2>2, <2>3
<1>24. EntriesOwn'
  <2>. SUFFICES ASSUME NEW s \in Tids, Alive(s)'
                PROVE  tasks'[s] # 0 /\ chunk'[tasks'[s]].used /\ chunk'[tasks'[s]].tid = s
    BY DEF EntriesOwn
  <2>1. tasks[s] \in Chunks /\ tasks[s] # 0 /\ chunk[tasks[s]].used /\ chunk[tasks[s]].tid = s
    BY <1>10, <1>19
  <2>. QED BY <1>a, <1>17, <2>1
<1>25. WaitsRight'
  <2>. SUFFICES ASSUME NEW d \in Chunks, NEW s \in Tids,
                       chunk'[d].tid = s, chunk'[d].waiting_for # "", Alive(s)'
                PROVE  /\ tasks'[s] = d /\ task'[s].st = "blocked" /\ task'[s].op = "lookup"
                       /\ task'[s].name = chunk'[d].waiting_for
    BY DEF WaitsRight
  <2>1. d \notin Waiters(name) /\ chunk[d].tid = s /\ chunk[d].waiting_for # "" /\ chunk'[d].waiting_for = chunk[d].waiting_for /\ Alive(s)
    BY <1>17, <1>19
  <2>2. /\ tasks[s] = d /\ task[s].st = "blocked" /\ task[s].op = "lookup"
        /\ task[s].name = chunk[d].waiting_for
    BY <1>6, <2>1 DEF WaitsRight
  <2>3. s # t /\ ~Woken(s)
    BY <1>2, <1>9, <1>10, <1>11, <2>1, <2>2
  <2>. QED BY <1>a, <1>16, <2>1, <2>2, <2>3
<1>26. NoForgottenWaiter'
  <2>. SUFFICES ASSUME NEW s \in Tids, task'[s].st = "blocked", task'[s].op = "lookup"
                PROVE  {i \in 1 .. Len(services') : services'[i].name = task'[s].name} = {} /\ chunk'[tasks'[s]].waiting_for = task'[s].name
    BY DEF NoForgottenWaiter, Named
  <2>1. s # t /\ ~Woken(s)
    BY <1>14, <1>15
  <2>2. task'[s] = task[s]
    BY <1>16, <2>1
  <2>3. Named(task[s].name) = {} /\ chunk[tasks[s]].waiting_for = task[s].name /\ task[s].name # name /\ Alive(s)
    BY <1>6, <1>12, <2>1, <2>2 DEF NoForgottenWaiter, Alive
  <2>4. ASSUME NEW i \in 1 .. Len(services') PROVE services'[i].name # task[s].name
    <3>1. services \in Seq(Service)
      BY <1>2 DEF VmTypes
    <3>2. sv.name = name
      BY <1>b
    <3>3. services' = Append(services, sv) /\ Len(services) \in Nat
      BY <1>c, <3>1
    <3>4. CASE i = Len(services) + 1
      <4>1. services'[i] = sv
        BY <3>1, <3>3, <3>4
      <4>. QED BY <2>3, <3>2, <4>1
    <3>5. CASE i # Len(services) + 1
      <4>1. i \in 1 .. Len(services) /\ services'[i] = services[i]
        BY <3>1, <3>3, <3>5
      <4>. QED BY <2>3, <4>1 DEF Named
    <3>. QED BY <3>4, <3>5
  <2>5. tasks[s] \in Chunks /\ tasks[s] \notin Waiters(name)
    BY <1>8, <1>10, <2>3
  <2>. QED BY <1>a, <1>17, <2>2, <2>3, <2>4, <2>5
<1>27. Peaceful => Peaceful'
  <2>. SUFFICES ASSUME Peaceful PROVE Peaceful'
    OBVIOUS
  <2>1. VmAlive'
    BY <1>20 DEF Peaceful, VmAlive
  <2>2. WaitersLive'
    <3>. SUFFICES ASSUME NEW d \in Chunks, chunk'[d].waiting_for # "" PROVE task'[chunk'[d].tid].st # "unused"
      BY DEF WaitersLive, Alive
    <3>1. chunk[d].waiting_for # "" /\ chunk'[d].tid = chunk[d].tid
      BY <1>17
    <3>2. chunk[d].tid \in Tids /\ Alive(chunk[d].tid)
      BY <1>2, <3>1 DEF Peaceful, WaitersLive, VmTypes
    <3>. QED BY <1>19, <3>1, <3>2 DEF Alive
  <2>3. Watching'
    <3>. SUFFICES ASSUME NEW s \in Tids, Alive(s)', task'[s].prog \in {"server", "shell"}, task'[s].step # 0
                  PROVE  chunk'[tasks'[s]].watch_tasks
      BY DEF Watching
    <3>1. Alive(s) /\ tasks[s] \in Chunks
      BY <1>10, <1>19
    <3>2. task[s].prog \in {"server", "shell"} /\ task[s].step # 0
      <4>1. CASE s = t
        BY <1>3, <4>1
      <4>2. CASE s # t
        BY <1>15, <1>16, <4>2
      <4>. QED BY <4>1, <4>2
    <3>. QED BY <1>a, <1>17, <3>1, <3>2 DEF Peaceful, Watching
  <2>4. KeptByServers' /\ NoLeak'
    BY <1>2, <1>18, <1>20, KeptOn DEF Peaceful
  <2>. QED BY <2>1, <2>2, <2>3, <2>4 DEF Peaceful
<1>28. Robust => Robust'
  <2>. SUFFICES ASSUME Robust PROVE Robust'
    OBVIOUS
  <2>1. WatchersLast'
    <3>. SUFFICES ASSUME NEW d \in Chunks, chunk'[d].watch_tasks
                  PROVE  task'[chunk'[d].tid].st # "unused" /\ task'[chunk'[d].tid].prog \in {"server", "shell"}
      BY DEF WatchersLast, Lasting, Alive
    <3>1. chunk'[d].tid = chunk[d].tid /\ chunk[d].tid \in Tids /\ Lasting(chunk[d].tid)
      BY <1>2, <1>17 DEF Robust, WatchersLast, VmTypes
    <3>. QED BY <1>18, <3>1 DEF SameLives, Lasting, Alive
  <2>2. MessagesLast'
    BY <1>2, <1>18, <1>20, MessagesOn DEF Robust
  <2>3. NoLostMessage'
    <3>. SUFFICES ASSUME NEW i \in 1 .. Len(async), task'[async[i].dst].st # "unused"
                  PROVE  \/ async[i].dst \in notified' \/ again' = async[i].dst
                         \/ task'[async[i].dst].op = "pull" /\ task'[async[i].dst].st # "run"
      BY <1>20 DEF NoLostMessage, Alive
    <3>1. PICK s \in Tids : s = async[i].dst
      BY <1>2, MessageTypes
    <3>2. Alive(s)
      BY <1>19, <3>1 DEF Alive
    <3>3. s \in notified \/ again = s \/ (task[s].op = "pull" /\ task[s].st # "run")
      BY <3>1, <3>2 DEF Robust, NoLostMessage
    <3>4. task[s].op = "pull" => s # t /\ ~Woken(s)
      BY <1>2, <1>11
    <3>. QED BY <1>a, <1>16, <3>1, <3>3, <3>4
  <2>. QED BY <2>1, <2>2, <2>3 DEF Robust
<1>. QED BY <1>21, <1>22, <1>23, <1>24, <1>25, <1>26, <1>27, <1>28, Zenon DEF VmInv, Table

-----------------------------------------------------------------------------
(* A new task.                                                             *)

LEMMA SpawnKept ==
    ASSUME VmAssumption, NoRebirth, VmInv, NEW t \in Tids, Spawn(t)
    PROVE  VmInv'
<1>1. Received(t, "spawn") /\ born < MaxBorn /\ UNCHANGED <<notified, services, async, vm, again, kept>>
  BY DEF Spawn
<1>2. /\ VmTypes /\ Alive(t) /\ task[t] \in TaskStates /\ Program(task[t]) /\ task[t].st = "call" /\ task[t].op = "spawn"
  BY <1>1, Caller
<1>3. task[t].prog = "shell" /\ task[t].step = 1
  BY <1>2 DEF Program
<1>4. PICK prog \in Startable :
        IF ~bootfs_open(prog) \/ alloc_tid = 0
        THEN /\ \E garbage \in Tids : task' = [Answer(t) EXCEPT ![t].peer = garbage]
             /\ UNCHANGED <<tasks, chunk, born>>
        ELSE \E c \in Chunks :
             /\ ~chunk[c].used /\ task_spawn(alloc_tid, c) /\ born' = born + 1
             /\ task' = [Answer(t) EXCEPT ![t].peer = alloc_tid, ![alloc_tid] = Fresh(prog, born')]
  BY Zenon DEF Spawn
<1>a. Answer(t) = [task EXCEPT ![t] = Answered(t)] /\ task \in [Tids -> TaskStates]
  BY <1>2, AnsweredIs DEF VmTypes
<1>b. /\ Answered(t) \in TaskStates /\ Answered(t).st = "run" /\ Answered(t).prog = "shell" /\ Answered(t).step = 2
      /\ Answered(t).inc = task[t].inc /\ Answered(t).op = "spawn"
  BY <1>2, <1>3, AnsweredIs
<1>c. ASSUME NEW p \in Tids, NEW k, k = [Answered(t) EXCEPT !.peer = p]
      PROVE  /\ k \in TaskStates /\ k.st = "run" /\ k.prog = "shell" /\ k.step = 2 /\ k.inc = task[t].inc
             /\ k.op = "spawn" /\ Program(k)
  <2>1. /\ k \in TaskStates /\ k.st = "run" /\ k.prog = "shell" /\ k.step = 2 /\ k.inc = task[t].inc
        /\ k.op = "spawn"
    BY <1>b, <1>c DEF TaskStates
  <2>. QED BY <2>1 DEF Program
<1>d. born + 1 \in 0 .. MaxBorn /\ born \in Nat
  <2>1. born \in 0 .. MaxBorn /\ MaxBorn \in Nat
    BY <1>2, VmConstants DEF VmTypes
  <2>. QED BY <1>1, <2>1
<1>5. CASE ~bootfs_open(prog) \/ alloc_tid = 0
  <2>1. PICK p \in Tids : task' = [Answer(t) EXCEPT ![t].peer = p]
    BY <1>4, <1>5
  <2>2. UNCHANGED <<tasks, chunk, born>>
    BY <1>4, <1>5
  <2>3. PICK k : k = [Answered(t) EXCEPT !.peer = p]
    OBVIOUS
  <2>4. task' = [task EXCEPT ![t] = k]
    BY <1>a, <2>1, <2>3
  <2>5. /\ k \in TaskStates /\ k.st = "run" /\ k.prog = "shell" /\ k.step = 2 /\ k.inc = task[t].inc
        /\ k.op = "spawn" /\ Program(k)
    BY <1>c, <2>3
  <2>. QED BY <1>1, <1>2, <1>3, <2>2, <2>4, <2>5, OnlyTask, ZenonT(40)
<1>6. CASE bootfs_open(prog) /\ alloc_tid # 0
  <2>1. PICK c \in Chunks :
             /\ ~chunk[c].used /\ task_spawn(alloc_tid, c) /\ born' = born + 1
             /\ task' = [Answer(t) EXCEPT ![t].peer = alloc_tid, ![alloc_tid] = Fresh(prog, born')]
    BY <1>4, <1>6
  <2>2. PICK a \in Tids : a = alloc_tid /\ ~Alive(a)
    BY <1>6, AllocTid
  <2>3. PICK f, k : f = Fresh(prog, born + 1) /\ k = [Answered(t) EXCEPT !.peer = a]
    OBVIOUS
  <2>4. a # t /\ prog \in Programs /\ ~Killers
    BY <1>2, <1>6, <2>2 DEF bootfs_open, NoRebirth
  <2>5. /\ f \in TaskStates /\ f.st = "run" /\ f.step = 0 /\ f.inc = born + 1 /\ f.op = "" /\ f.inc # 0
    <3>1. born + 1 \in 0 .. MaxBorn /\ born + 1 # 0
      BY <1>d
    <3>. QED BY <2>3, <2>4, <3>1 DEF Fresh, TaskStates, VmOps
  <2>6. /\ k \in TaskStates /\ k.st = "run" /\ k.prog = "shell" /\ k.step = 2 /\ k.inc = task[t].inc
        /\ k.op = "spawn" /\ Program(k)
    BY <1>c, <2>3
  <2>7. ASSUME NEW s \in Tids PROVE task'[s] = IF s = a THEN f ELSE IF s = t THEN k ELSE task[s]
    <3>1. task' = [[task EXCEPT ![t] = k] EXCEPT ![a] = f]
      BY <1>a, <2>1, <2>2, <2>3
    <3>. QED BY <1>a, <2>4, <3>1
  <2>8. task' \in [Tids -> TaskStates]
    <3>1. task' = [[task EXCEPT ![t] = k] EXCEPT ![a] = f]
      BY <1>a, <2>1, <2>2, <2>3
    <3>. QED BY <1>a, <2>5, <2>6, <3>1
  <2>9. PICK n : n = Structure(TRUE, a)
    OBVIOUS
  <2>10. n \in Structures /\ n.used /\ n.tid = a /\ n.waiting_for = "" /\ ~n.watch_tasks
    BY <2>9 DEF Structure, Structures
  <2>11. chunk' = [chunk EXCEPT ![c] = n] /\ tasks' = [tasks EXCEPT ![a] = c]
    BY <2>1, <2>2, <2>9 DEF task_spawn
  <2>12. chunk \in [Chunks -> Structures] /\ tasks \in [Tids -> Chunks \cup {0}]
    BY <1>2 DEF VmTypes
  <2>13. /\ chunk' \in [Chunks -> Structures] /\ \A d \in Chunks : chunk'[d] = IF d = c THEN n ELSE chunk[d]
    BY <2>10, <2>11, <2>12
  <2>14. tasks' \in [Tids -> Chunks \cup {0}] /\ \A s \in Tids : tasks'[s] = IF s = a THEN c ELSE tasks[s]
    BY <2>11, <2>12
  <2>15. /\ Born /\ ProgramsRight /\ EntriesOwn /\ WaitsRight /\ NoForgottenWaiter /\ Peaceful
         /\ (~FrailServers => Robust)
    BY <2>4 DEF VmInv, Table
  <2>16. \A s \in Tids : Alive(s)' <=> Alive(s) \/ s = a
    BY <1>2, <2>5, <2>6, <2>7 DEF Alive
  <2>17. \A s \in Tids : Alive(s) => tasks[s] \in Chunks /\ tasks[s] # 0 /\ chunk[tasks[s]].used /\ chunk[tasks[s]].tid = s
                                     /\ tasks[s] # c /\ tasks'[s] = tasks[s] /\ chunk'[tasks[s]] = chunk[tasks[s]] /\ s # a
    BY <2>1, <2>2, <2>12, <2>13, <2>14, <2>15 DEF EntriesOwn
  <2>18. \A d \in Chunks : chunk'[d].watch_tasks \/ chunk'[d].waiting_for # "" => d # c /\ chunk'[d] = chunk[d] /\ chunk[d].tid \in Tids
    BY <1>2, <2>10, <2>13 DEF VmTypes
  <2>19. VmTypes'
    <3>1. born' \in 0 .. MaxBorn
      BY <1>d, <2>1
    <3>2. \A d \in Chunks : chunk'[d].watch_tasks \/ chunk'[d].waiting_for # "" => chunk'[d].tid \in Tids
      BY <2>18
    <3>. QED BY <1>1, <1>2, <2>8, <2>13, <2>14, <3>1, <3>2 DEF VmTypes
  <2>20. Born'
    <3>. SUFFICES ASSUME NEW s \in Tids PROVE IF Alive(s)' THEN task'[s].inc # 0 ELSE task'[s] = Unused
      BY Zenon DEF Born, Unused, Fresh
    <3>1. IF Alive(s) THEN task[s].inc # 0 ELSE task[s] = Unused
      BY <2>15 DEF Born
    <3>. QED BY <1>2, <2>5, <2>6, <2>7, <2>16, <3>1
  <2>21. ProgramsRight'
    <3>. SUFFICES ASSUME NEW s \in Tids PROVE Program(task'[s])
      BY DEF ProgramsRight, Program
    <3>1. Program(f)
      BY <2>5 DEF Program
    <3>. QED BY <2>6, <2>7, <2>15, <3>1 DEF ProgramsRight
  <2>22. EntriesOwn'
    <3>. SUFFICES ASSUME NEW s \in Tids, Alive(s)'
                  PROVE  tasks'[s] # 0 /\ chunk'[tasks'[s]].used /\ chunk'[tasks'[s]].tid = s
      BY DEF EntriesOwn
    <3>1. CASE s = a
      <4>1. tasks'[s] = c /\ chunk'[c] = n /\ c # 0
        BY <2>13, <2>14, <3>1, TidsAre
      <4>. QED BY <2>10, <3>1, <4>1
    <3>2. CASE s # a
      BY <2>16, <2>17, <3>2
    <3>. QED BY <3>1, <3>2
  <2>23. WaitersLive'
    <3>. SUFFICES ASSUME NEW d \in Chunks, chunk'[d].waiting_for # "" PROVE task'[chunk'[d].tid].st # "unused"
      BY DEF WaitersLive, Alive
    <3>1. chunk'[d] = chunk[d] /\ chunk[d].tid \in Tids
      BY <2>18
    <3>2. Alive(chunk[d].tid)
      BY <2>15, <3>1 DEF Peaceful, WaitersLive
    <3>. QED BY <2>16, <3>1, <3>2 DEF Alive
  <2>24. WaitsRight'
    <3>. SUFFICES ASSUME NEW d \in Chunks, NEW s \in Tids,
                         chunk'[d].tid = s, chunk'[d].waiting_for # "", Alive(s)'
                  PROVE  /\ tasks'[s] = d /\ task'[s].st = "blocked" /\ task'[s].op = "lookup"
                         /\ task'[s].name = chunk'[d].waiting_for
      BY DEF WaitsRight
    <3>1. chunk'[d] = chunk[d]
      BY <2>18
    <3>2. Alive(s)
      BY <2>15, <3>1 DEF Peaceful, WaitersLive
    <3>3. /\ tasks[s] = d /\ task[s].st = "blocked" /\ task[s].op = "lookup"
          /\ task[s].name = chunk[d].waiting_for
      <4>1. chunk[d].tid = s /\ chunk[d].waiting_for # ""
        BY <3>1
      <4>. QED BY <2>15, <3>2, <4>1 DEF WaitsRight
    <3>4. s # a /\ s # t
      BY <1>2, <2>17, <3>2, <3>3
    <3>. QED BY <2>7, <2>17, <3>1, <3>2, <3>3, <3>4
  <2>25. NoForgottenWaiter'
    <3>. SUFFICES ASSUME NEW s \in Tids, task'[s].st = "blocked", task'[s].op = "lookup"
                  PROVE  {i \in 1 .. Len(services') : services'[i].name = task'[s].name} = {} /\ chunk'[tasks'[s]].waiting_for = task'[s].name
      BY DEF NoForgottenWaiter, Named
    <3>1. task'[s] = task[s]
      BY <2>5, <2>6, <2>7
    <3>2. Named(task[s].name) = {} /\ chunk[tasks[s]].waiting_for = task[s].name /\ Alive(s)
      BY <2>15, <3>1 DEF NoForgottenWaiter, Alive
    <3>3. {i \in 1 .. Len(services') : services'[i].name = task'[s].name} = Named(task[s].name)
      BY <1>1, <3>1 DEF Named
    <3>. QED BY <2>17, <3>1, <3>2, <3>3
  <2>26. Watching'
    <3>. SUFFICES ASSUME NEW s \in Tids, Alive(s)', task'[s].prog \in {"server", "shell"}, task'[s].step # 0
                  PROVE  chunk'[tasks'[s]].watch_tasks
      BY DEF Watching
    <3>1. s # a
      BY <2>5, <2>7
    <3>2. Alive(s) /\ task[s].prog \in {"server", "shell"} /\ task[s].step # 0
      <4>1. CASE s = t
        BY <1>2, <1>3, <4>1
      <4>2. CASE s # t
        BY <2>7, <2>16, <3>1, <4>2
      <4>. QED BY <4>1, <4>2
    <3>. QED BY <2>15, <2>17, <3>2 DEF Peaceful, Watching
  <2>27. KeptByServers' /\ NoLeak' /\ VmAlive'
    <3>1. \A r \in kept : r.server \in Tids /\ r.owner \in Tids
      BY <1>2 DEF VmTypes, Keeps
    <3>2. KeptByServers'
      <4>. SUFFICES ASSUME NEW r \in kept PROVE task'[r.server].st # "unused" /\ task'[r.server].prog = "server" /\ task'[r.server].step = 2
        BY <1>1 DEF KeptByServers, Alive
      <4>1. Alive(r.server) /\ task[r.server].prog = "server" /\ task[r.server].step = 2
        BY <2>15 DEF Peaceful, KeptByServers
      <4>2. r.server # a /\ r.server # t
        BY <1>3, <2>2, <4>1
      <4>. QED BY <2>7, <3>1, <4>1, <4>2 DEF Alive
    <3>3. NoLeak'
      <4>. SUFFICES ASSUME NEW r \in kept
                    PROVE  \/ task'[r.owner].st # "unused" /\ task'[r.owner].inc = r.inc
                           \/ \E i \in 1 .. Len(async) : async[i].dst = r.server /\ async[i].ended = r.owner
        BY <1>1 DEF NoLeak, Alive
      <4>1. \/ Alive(r.owner) /\ task[r.owner].inc = r.inc
            \/ \E i \in 1 .. Len(async) : async[i].dst = r.server /\ async[i].ended = r.owner
        BY <2>15 DEF Peaceful, NoLeak
      <4>2. ASSUME Alive(r.owner), task[r.owner].inc = r.inc PROVE task'[r.owner].st # "unused" /\ task'[r.owner].inc = r.inc
        <5>1. r.owner \in Tids /\ r.owner # a
          BY <2>2, <3>1, <4>2
        <5>. QED BY <2>6, <2>7, <4>2, <5>1 DEF Alive
      <4>. QED BY <4>1, <4>2
    <3>4. VmAlive'
      BY <1>1, <2>15 DEF Peaceful, VmAlive
    <3>. QED BY <3>2, <3>3, <3>4
  <2>28. ASSUME Robust PROVE Robust'
    <3>0. \A s \in Tids : Lasting(s) => Lasting(s)' /\ s # a
      BY <1>2, <1>3, <2>2, <2>6, <2>7 DEF Lasting, Alive
    <3>1. WatchersLast'
      <4>. SUFFICES ASSUME NEW d \in Chunks, chunk'[d].watch_tasks
                    PROVE  task'[chunk'[d].tid].st # "unused" /\ task'[chunk'[d].tid].prog \in {"server", "shell"}
        BY DEF WatchersLast, Lasting, Alive
      <4>1. chunk'[d] = chunk[d] /\ chunk[d].tid \in Tids
        BY <2>18
      <4>2. Lasting(chunk[d].tid)
        BY <2>28, <4>1 DEF Robust, WatchersLast
      <4>. QED BY <3>0, <4>1, <4>2 DEF Lasting, Alive
    <3>2. MessagesLast'
      <4>. SUFFICES ASSUME NEW i \in 1 .. Len(async)
                    PROVE  task'[async[i].dst].st # "unused" /\ task'[async[i].dst].prog \in {"server", "shell"}
        BY <1>1 DEF MessagesLast, Lasting, Alive
      <4>1. async[i].dst \in Tids /\ Lasting(async[i].dst)
        BY <1>2, <2>28, MessageTypes DEF Robust, MessagesLast
      <4>. QED BY <3>0, <4>1 DEF Lasting, Alive
    <3>3. NoLostMessage'
      <4>. SUFFICES ASSUME NEW i \in 1 .. Len(async), task'[async[i].dst].st # "unused"
                    PROVE  \/ async[i].dst \in notified' \/ again' = async[i].dst
                           \/ task'[async[i].dst].op = "pull" /\ task'[async[i].dst].st # "run"
        BY <1>1 DEF NoLostMessage, Alive
      <4>1. PICK s \in Tids : s = async[i].dst
        BY <1>2, MessageTypes
      <4>2. Lasting(s) /\ s # a
        BY <2>28, <3>0, <4>1 DEF Robust, MessagesLast
      <4>3. s \in notified \/ again = s \/ (task[s].op = "pull" /\ task[s].st # "run")
        BY <2>28, <4>1, <4>2 DEF Robust, NoLostMessage, Lasting
      <4>4. s = t => task[s].op = "spawn"
        BY <1>2
      <4>5. s # t => task'[s] = task[s]
        BY <2>7, <4>2
      <4>. QED BY <1>1, <4>1, <4>3, <4>4, <4>5
    <3>. QED BY <3>1, <3>2, <3>3 DEF Robust
  <2>. QED BY <2>15, <2>19, <2>20, <2>21, <2>22, <2>23, <2>24, <2>25, <2>26, <2>27, <2>28, Zenon DEF VmInv, Table, Peaceful
<1>. QED BY <1>5, <1>6

-----------------------------------------------------------------------------
(* The end of a task.                                                      *)

\* t has task v with the structure c destroyed: itself, or it asks for it, and then its state is k.
Ends(t, v, c, k) ==
    /\ t \in Tids /\ v \in Tids /\ c \in Chunks /\ chunk[c].tid = v /\ task[t].st = "call"
    /\ \/ t = v /\ c = tasks[t] /\ chunk[c].used /\ task[t].op \in {"exit", "fault"}
       \/ Killers /\ task[t].op = "destroy" /\ task[t].peer = v /\ k = Answered(t)
    /\ task_destroy(c, [caller |-> t, then |-> k])
    /\ services' = services /\ again' = again /\ born' = born

\* A task that the end of v aborts.
Cut(v, s) == s # v /\ Asking(v, s, {"connect", "close"})

LEMMA UnusedIs ==
    ASSUME VmAssumption
    PROVE  Unused \in TaskStates
<1>1. PICK u : u = Unused
  OBVIOUS
<1>2. u = [st |-> "unused", prog |-> "app", inc |-> 0, step |-> 0, op |-> "", peer |-> 0, name |-> ""]
  BY <1>1 DEF Unused, Fresh
<1>3. 0 \in 0 .. MaxBorn /\ 0 \in Nat
  <2>1. MaxBorn \in Nat
    BY VmConstants, Zenon
  <2>. QED BY <2>1
<1>4. "app" \in Programs /\ "" \in VmOps /\ 0 \in Tids \cup {0} /\ "" \in Names \cup {""}
  BY DEF Programs, VmOps
<1>5. PICK P, O, N, I, T : P = Programs /\ O = VmOps /\ N = Names \cup {""} /\ I = 0 .. MaxBorn /\ T = Tids \cup {0}
  OBVIOUS
<1>6. TaskStates = [st : {"run", "call", "blocked", "exited", "unused"}, prog : P, inc : I, step : Nat, op : O, peer : T, name : N]
  BY <1>5, Zenon DEF TaskStates
<1>7. "app" \in P /\ "" \in O /\ 0 \in T /\ "" \in N /\ 0 \in I
  BY <1>3, <1>4, <1>5
<1>8. u \in [st : {"run", "call", "blocked", "exited", "unused"}, prog : P, inc : I, step : Nat, op : O, peer : T, name : N]
  BY <1>2, <1>7
<1>. QED BY <1>1, <1>6, <1>8

\* The tasks afterwards.
LEMMA EndsTasks ==
    ASSUME VmAssumption, VmInv, NEW t, NEW v, NEW c, NEW k, Ends(t, v, c, k)
    PROVE  /\ task' \in [Tids -> TaskStates] /\ task'[v] = Unused
           /\ t # v => task'[t] = Answered(t)
           /\ \A s \in Tids : s # v /\ s # t /\ ~Cut(v, s) => task'[s] = task[s]
           /\ \A s \in Tids : s # v /\ Cut(v, s) =>
                 /\ task[s].prog = "app" /\ task[s].op \in {"connect", "close"} /\ task[s].st = "call"
                 /\ s # t => /\ task'[s].st = "run" /\ task'[s].step = 3 /\ task'[s].prog = "app"
                             /\ task'[s].inc = task[s].inc /\ task'[s].peer = task[s].peer
<1>1. VmTypes /\ ProgramsRight /\ t \in Tids /\ v \in Tids /\ chunk[c].tid = v
  BY DEF Ends, VmInv, Table
<1>2. task \in [Tids -> TaskStates]
  BY <1>1 DEF VmTypes
<1>3. task' = [Aborted(v) EXCEPT ![t] = IF t = v THEN Aborted(v)[t] ELSE k]
  BY <1>1 DEF Ends, task_destroy
<1>4. ASSUME NEW s \in Tids
      PROVE  Aborted(v)[s] = IF s = v THEN Unused ELSE IF Cut(v, s) THEN [task[s] EXCEPT !.st = "run", !.step = 3] ELSE task[s]
  BY DEF Aborted, Cut
<1>5. ASSUME NEW s \in Tids, Cut(v, s)
      PROVE  /\ task[s].prog = "app" /\ task[s].op \in {"connect", "close"} /\ task[s].st = "call" /\ task[s] \in TaskStates
  <2>1. Program(task[s]) /\ task[s].st = "call" /\ task[s].op \in {"connect", "close"}
    BY <1>1, <1>5 DEF ProgramsRight, Cut, Asking
  <2>. QED BY <1>2, <2>1 DEF Program
<1>6. ASSUME NEW s \in Tids, Cut(v, s)
      PROVE  /\ Aborted(v)[s] \in TaskStates /\ Aborted(v)[s].st = "run" /\ Aborted(v)[s].step = 3 /\ Aborted(v)[s].prog = "app"
             /\ Aborted(v)[s].inc = task[s].inc /\ Aborted(v)[s].peer = task[s].peer
  <2>1. Aborted(v)[s] = [task[s] EXCEPT !.st = "run", !.step = 3]
    BY <1>4, <1>6 DEF Cut
  <2>2. PICK x, y : x = task[s] /\ y = Aborted(v)[s]
    OBVIOUS
  <2>3. x \in TaskStates /\ x.prog = "app" /\ y = [x EXCEPT !.st = "run", !.step = 3]
    BY <1>5, <1>6, <2>1, <2>2
  <2>4. y \in TaskStates
    BY <2>3 DEF TaskStates
  <2>5. y.st = "run" /\ y.step = 3 /\ y.prog = "app" /\ y.inc = x.inc /\ y.peer = x.peer
    BY <2>3 DEF TaskStates
  <2>. QED BY <2>2, <2>4, <2>5
<1>7. Unused \in TaskStates
  BY UnusedIs
<1>8. Aborted(v) \in [Tids -> TaskStates]
  <2>1. \A s \in Tids : Aborted(v)[s] \in TaskStates
    BY <1>2, <1>4, <1>6, <1>7
  <2>2. Aborted(v) = [s \in Tids |-> Aborted(v)[s]]
    BY DEF Aborted
  <2>3. PICK A : A = Aborted(v)
    OBVIOUS
  <2>4. A = [s \in Tids |-> A[s]] /\ \A s \in Tids : A[s] \in TaskStates
    BY <2>1, <2>2, <2>3, Zenon
  <2>. QED BY <2>3, <2>4
<1>9. t # v => k = Answered(t) /\ k \in TaskStates
  <2>1. t # v => k = Answered(t)
    BY Zenon DEF Ends
  <2>. QED BY <1>1, <2>1, AnsweredIs
<1>10. PICK A : A = Aborted(v)
  OBVIOUS
<1>11. task' \in [Tids -> TaskStates] /\ \A s \in Tids : task'[s] = IF s = t /\ t # v THEN k ELSE A[s]
  BY <1>1, <1>3, <1>8, <1>9, <1>10
<1>12. task'[v] = Unused
  BY <1>1, <1>4, <1>10, <1>11
<1>13. t # v => task'[t] = Answered(t)
  BY <1>1, <1>9, <1>11
<1>14. \A s \in Tids : s # v /\ s # t /\ ~Cut(v, s) => task'[s] = task[s]
  BY <1>4, <1>10, <1>11
<1>15. ASSUME NEW s \in Tids, Cut(v, s), s # t
       PROVE  task'[s] = Aborted(v)[s]
  BY <1>10, <1>11, <1>15
<1>. QED BY <1>5, <1>6, <1>11, <1>12, <1>13, <1>14, <1>15

\* What a task that goes on has in common with what it was.
LEMMA EndsOthers ==
    ASSUME VmAssumption, VmInv, NEW t, NEW v, NEW c, NEW k, Ends(t, v, c, k), NEW s \in Tids, s # v
    PROVE  /\ Alive(s)' = Alive(s) /\ task'[s].prog = task[s].prog /\ task'[s].inc = task[s].inc
           /\ Program(task'[s])
           /\ task[s].st = "blocked" \/ task'[s].st = "blocked" => task'[s] = task[s]
           /\ task[s].prog # "app" /\ s # t => task'[s] = task[s]
           /\ task[s].op = "pull" /\ s # t => task'[s] = task[s]
<1>1. VmTypes /\ ProgramsRight /\ t \in Tids /\ task[t].st = "call"
  BY DEF Ends, VmInv, Table
<1>2. Program(task[s])
  BY <1>1 DEF ProgramsRight
<1>3. CASE s = t
  <2>1. task'[s] = Answered(t) /\ (t # v)
    BY <1>3, EndsTasks
  <2>2. /\ task'[s].st = "run" /\ task'[s].prog = task[s].prog /\ task'[s].inc = task[s].inc
        /\ task'[s].peer = task[s].peer /\ task'[s].step = task[s].step + 1 /\ task'[s].op = task[s].op
    BY <1>1, <1>3, <2>1, AnsweredIs
  <2>3. task[t].op = "destroy"
    BY <2>1 DEF Ends
  <2>4. task'[s].peer \in Tids
    BY <1>1, <1>2, <1>3, <2>2, <2>3 DEF Program
  <2>5. Program(task'[s])
    BY <2>2, <2>4 DEF Program
  <2>. QED BY <1>1, <1>3, <2>2, <2>5 DEF Alive
<1>4. CASE s # t /\ Cut(v, s)
  <2>1. /\ task[s].prog = "app" /\ task[s].op \in {"connect", "close"} /\ task[s].st = "call"
        /\ task'[s].st = "run" /\ task'[s].step = 3 /\ task'[s].prog = "app"
        /\ task'[s].inc = task[s].inc /\ task'[s].peer = task[s].peer
    BY <1>4, EndsTasks
  <2>2. task[s].peer \in Tids
    BY <1>2, <2>1 DEF Program
  <2>3. Program(task'[s])
    BY <2>1, <2>2 DEF Program
  <2>. QED BY <1>4, <2>1, <2>3 DEF Alive
<1>5. CASE s # t /\ ~Cut(v, s)
  <2>1. task'[s] = task[s]
    BY <1>5, EndsTasks
  <2>. QED BY <1>2, <2>1 DEF Alive
<1>. QED BY <1>3, <1>4, <1>5

\* The structures afterwards: c is freed, and has its contents or none.
LEMMA EndsStructures ==
    ASSUME VmAssumption, VmInv, NEW t, NEW v, NEW c, NEW k, Ends(t, v, c, k)
    PROVE  /\ chunk' \in [Chunks -> Structures] /\ \A d \in Chunks : d # c => chunk'[d] = chunk[d]
           /\ \/ chunk'[c].tid = v /\ chunk'[c].waiting_for = chunk[c].waiting_for
                                   /\ chunk'[c].watch_tasks = chunk[c].watch_tasks
              \/ chunk'[c].tid = 0 /\ chunk'[c].waiting_for = "" /\ ~chunk'[c].watch_tasks
<1>1. chunk \in [Chunks -> Structures] /\ c \in Chunks /\ chunk[c].tid = v /\ chunk[c] \in Structures
  BY DEF Ends, VmInv, Table, VmTypes
<1>2. PICK e \in {chunk[c], Structure(FALSE, 0)} : chunk' = [chunk EXCEPT ![c] = [e EXCEPT !.used = FALSE]]
  BY Zenon DEF Ends, task_destroy
<1>3. PICK f : f = [e EXCEPT !.used = FALSE]
  OBVIOUS
<1>4. e \in Structures
  <2>1. Structure(FALSE, 0) \in Structures
    BY DEF Structure, Structures
  <2>. QED BY <1>1, <1>2, <2>1
<1>5. f \in Structures /\ f.tid = e.tid /\ f.waiting_for = e.waiting_for /\ f.watch_tasks = e.watch_tasks
  <2>1. f \in Structures
    BY <1>3, <1>4 DEF Structures
  <2>2. f.tid = e.tid /\ f.waiting_for = e.waiting_for /\ f.watch_tasks = e.watch_tasks
    BY <1>3, <1>4 DEF Structures
  <2>. QED BY <2>1, <2>2
<1>6. e = chunk[c] \/ (e.tid = 0 /\ e.waiting_for = "" /\ ~e.watch_tasks)
  <2>1. PICK z : z = Structure(FALSE, 0)
    OBVIOUS
  <2>2. z.tid = 0 /\ z.waiting_for = "" /\ ~z.watch_tasks
    BY <2>1 DEF Structure, Structures
  <2>3. e = chunk[c] \/ e = z
    BY <1>2, <2>1
  <2>. QED BY <2>2, <2>3
<1>7. chunk' = [chunk EXCEPT ![c] = f]
  BY <1>2, <1>3
<1>. QED BY <1>1, <1>5, <1>6, <1>7

\* The messages and the notifications afterwards: one for each entry that watches.
LEMMA EndsMessages ==
    ASSUME VmAssumption, VmInv, NEW t, NEW v, NEW c, NEW k, Ends(t, v, c, k)
    PROVE  /\ async' \in Seq(VmMessage) /\ notified' \subseteq Tids
           /\ \A i \in 1 .. Len(async) : i \in 1 .. Len(async') /\ async'[i] = async[i]
           /\ \A i \in 1 .. Len(async') :
                 \/ i \in 1 .. Len(async) /\ async'[i] = async[i]
                 \/ /\ \E d \in Chunks : chunk[d].watch_tasks /\ async'[i].dst = chunk[d].tid
                    /\ async'[i].dst \in notified' \/ async'[i].dst = v \/ ~Alive(async'[i].dst)
           /\ \A s \in Tids : Watches(s) =>
                 \E i \in 1 .. Len(async') : async'[i].dst = chunk[tasks[s]].tid /\ async'[i].ended = v
           /\ \A s \in notified : s \in notified' \/ s = v \/ ~Alive(s)
<1>1. VmTypes /\ v \in Tids /\ chunk[c].tid = v
  BY DEF Ends, VmInv, Table
<1>2. Collected(MaxTid, Watchers)
  BY <1>1, WatchersAre
<1>3. PICK w : w = Watchers /\ w = Told
  BY DEF Told
<1>4. w \in Seq(Chunks) /\ Len(w) \in Nat
  BY <1>2, <1>3 DEF Collected
<1>5. PICK q : q = [i \in 1 .. Len(w) |-> [dst |-> chunk[w[i]].tid, ended |-> v]]
  OBVIOUS
<1>6. /\ async' = async \o q
      /\ notified' = (notified \cup {chunk[w[i]].tid : i \in 1 .. Len(w)}) \ {u \in Tids : u = v \/ ~Alive(u)}
  <2>1. async' = async \o [i \in 1 .. Len(Told) |-> [dst |-> chunk[Told[i]].tid, ended |-> chunk[c].tid]]
    BY Zenon DEF Ends, task_destroy
  <2>2. notified' = (notified \cup {chunk[Told[i]].tid : i \in 1 .. Len(Told)})
                    \ {u \in Tids : u = chunk[c].tid \/ ~Alive(u)}
    BY Zenon DEF Ends, task_destroy
  <2>. QED BY <1>1, <1>3, <1>5, <2>1, <2>2
<1>7. ASSUME NEW i \in 1 .. Len(w)
      PROVE  /\ w[i] \in Chunks /\ chunk[w[i]].watch_tasks /\ chunk[w[i]].tid \in Tids
             /\ q[i] \in VmMessage /\ q[i].dst = chunk[w[i]].tid /\ q[i].ended = v
  <2>1. PICK s \in Tids : Watches(s) /\ w[i] = tasks[s]
    BY <1>2, <1>3 DEF Collected
  <2>2. w[i] \in Chunks
    BY <1>4
  <2>3. chunk[w[i]].watch_tasks /\ chunk[w[i]].tid \in Tids
    BY <1>1, <2>1, <2>2 DEF Watches, VmTypes
  <2>4. q[i] = [dst |-> chunk[w[i]].tid, ended |-> v]
    BY <1>5
  <2>. QED BY <1>1, <2>2, <2>3, <2>4 DEF VmMessage
<1>8. q \in Seq(VmMessage) /\ Len(q) = Len(w)
  <2>1. q = [i \in 1 .. Len(w) |-> q[i]] /\ \A i \in 1 .. Len(w) : q[i] \in VmMessage
    BY <1>5, <1>7
  <2>2. q \in [1 .. Len(w) -> VmMessage]
    BY <2>1
  <2>3. q \in Seq(VmMessage)
    BY <1>4, <2>2, SeqDef
  <2>4. DOMAIN q = 1 .. Len(w)
    BY <2>2
  <2>. QED BY <1>4, <2>3, <2>4, LenProperties
<1>9. async \in Seq(VmMessage) /\ Len(async) \in Nat
  <2>1. async \in Seq(VmMessage)
    BY <1>1 DEF VmTypes
  <2>. QED BY <2>1, LenProperties
<1>10. /\ async' \in Seq(VmMessage) /\ Len(async') = Len(async) + Len(w)
       /\ \A i \in 1 .. Len(async) + Len(w) : async'[i] = IF i =< Len(async) THEN async[i] ELSE q[i - Len(async)]
  <2>1. async' = async \o q
    BY <1>6
  <2>2. /\ async \o q \in Seq(VmMessage) /\ Len(async \o q) = Len(async) + Len(q)
        /\ \A i \in 1 .. Len(async) + Len(q) : (async \o q)[i] = IF i =< Len(async) THEN async[i] ELSE q[i - Len(async)]
    BY <1>8, <1>9, ConcatProperties
  <2>. QED BY <1>8, <2>1, <2>2, Zenon
<1>11. notified' \subseteq Tids /\ \A s \in notified : s \in notified' \/ s = v \/ ~Alive(s)
  <2>1. notified \subseteq Tids /\ {chunk[w[i]].tid : i \in 1 .. Len(w)} \subseteq Tids
    BY <1>1, <1>7 DEF VmTypes
  <2>. QED BY <1>6, <2>1
<1>12. ASSUME NEW i \in 1 .. Len(async) PROVE i \in 1 .. Len(async') /\ async'[i] = async[i]
  <2>1. i \in 1 .. Len(async') /\ i \in 1 .. Len(async) + Len(w) /\ i =< Len(async)
    BY <1>4, <1>9, <1>10
  <2>. QED BY <1>10, <2>1
<1>13. ASSUME NEW i \in 1 .. Len(async'), i \notin 1 .. Len(async)
       PROVE  /\ \E d \in Chunks : chunk[d].watch_tasks /\ async'[i].dst = chunk[d].tid
              /\ async'[i].dst \in notified' \/ async'[i].dst = v \/ ~Alive(async'[i].dst)
  <2>1. i - Len(async) \in 1 .. Len(w) /\ ~(i =< Len(async)) /\ i \in 1 .. Len(async) + Len(w)
    BY <1>4, <1>9, <1>10, <1>13
  <2>2. PICK j \in 1 .. Len(w) : j = i - Len(async)
    BY <2>1
  <2>3. async'[i] = q[j]
    BY <1>10, <2>1, <2>2
  <2>4. chunk[w[j]].tid \in {chunk[w[x]].tid : x \in 1 .. Len(w)}
    OBVIOUS
  <2>. QED BY <1>6, <1>7, <2>3, <2>4
<1>14. ASSUME NEW s \in Tids, Watches(s)
       PROVE  \E i \in 1 .. Len(async') : async'[i].dst = chunk[tasks[s]].tid /\ async'[i].ended = v
  <2>1. s =< MaxTid
    BY VmConstants
  <2>2. PICK j \in 1 .. Len(w) : w[j] = tasks[s]
    BY <1>2, <1>3, <1>14, <2>1 DEF Collected
  <2>3. PICK i : i = Len(async) + j
    OBVIOUS
  <2>4. i \in 1 .. Len(async') /\ i \in 1 .. Len(async) + Len(w) /\ ~(i =< Len(async)) /\ i - Len(async) = j
    BY <1>4, <1>9, <1>10, <2>3
  <2>5. async'[i] = q[j]
    BY <1>10, <2>4
  <2>. QED BY <1>7, <2>2, <2>4, <2>5
<1>15. ASSUME NEW i \in 1 .. Len(async')
       PROVE  \/ i \in 1 .. Len(async) /\ async'[i] = async[i]
              \/ /\ \E d \in Chunks : chunk[d].watch_tasks /\ async'[i].dst = chunk[d].tid
                 /\ async'[i].dst \in notified' \/ async'[i].dst = v \/ ~Alive(async'[i].dst)
  BY <1>12, <1>13
<1>. QED BY <1>10, <1>11, <1>12, <1>14, <1>15

LEMMA EndsKept ==
    ASSUME VmAssumption, VmInv, NEW t, NEW v, NEW c, NEW k, Ends(t, v, c, k)
    PROVE  VmInv'
<1>1. /\ VmTypes /\ Born /\ ProgramsRight /\ EntriesOwn /\ WaitsRight /\ NoForgottenWaiter
      /\ (~Killers => Peaceful) /\ (~Killers /\ ~FrailServers => Robust)
  BY DEF VmInv, Table
<1>2. t \in Tids /\ v \in Tids /\ c \in Chunks /\ chunk[c].tid = v /\ task[t].st = "call" /\ 0 \notin Tids
  BY VmConstants DEF Ends
<1>3. services' = services /\ again' = again /\ born' = born /\ tasks' = tasks /\ kept' = {r \in kept : r.server # v}
      /\ vm' = IF chunk[c].used THEN vm ELSE "dead"
  BY <1>2 DEF Ends, task_destroy
<1>4. /\ task' \in [Tids -> TaskStates] /\ task'[v] = Unused
  BY EndsTasks
<1>5. ASSUME NEW s \in Tids, s # v
      PROVE  /\ Alive(s)' = Alive(s) /\ task'[s].prog = task[s].prog /\ task'[s].inc = task[s].inc
             /\ Program(task'[s])
             /\ task[s].st = "blocked" \/ task'[s].st = "blocked" => task'[s] = task[s]
             /\ task[s].prog # "app" /\ s # t => task'[s] = task[s]
  BY <1>5, EndsOthers
<1>6. Unused.st = "unused" /\ Unused.prog = "app" /\ Unused.step = 0
  BY DEF Unused, Fresh
<1>7. \A s \in Tids : Alive(s)' => s # v /\ Alive(s)
  BY <1>4, <1>5, <1>6 DEF Alive
<1>8. /\ chunk' \in [Chunks -> Structures] /\ \A d \in Chunks : d # c => chunk'[d] = chunk[d]
      /\ \/ chunk'[c].tid = v /\ chunk'[c].waiting_for = chunk[c].waiting_for
                              /\ chunk'[c].watch_tasks = chunk[c].watch_tasks
         \/ chunk'[c].tid = 0 /\ chunk'[c].waiting_for = "" /\ ~chunk'[c].watch_tasks
  BY EndsStructures
<1>9. ASSUME NEW s \in Tids, Alive(s), s # v
      PROVE  /\ tasks[s] \in Chunks /\ tasks[s] # 0 /\ tasks[s] # c /\ chunk[tasks[s]].used /\ chunk[tasks[s]].tid = s
             /\ chunk'[tasks[s]] = chunk[tasks[s]]
  BY <1>1, <1>2, <1>8, <1>9, ZenonT(40) DEF EntriesOwn, VmTypes
<1>10. /\ async' \in Seq(VmMessage) /\ notified' \subseteq Tids
       /\ \A s \in notified : s \in notified' \/ s = v \/ ~Alive(s)
  BY EndsMessages
<1>11. \A i \in 1 .. Len(async) : i \in 1 .. Len(async') /\ async'[i] = async[i]
  BY EndsMessages
<1>12. ASSUME NEW i \in 1 .. Len(async')
       PROVE  \/ i \in 1 .. Len(async) /\ async'[i] = async[i]
              \/ /\ \E d \in Chunks : chunk[d].watch_tasks /\ async'[i].dst = chunk[d].tid
                 /\ async'[i].dst \in notified' \/ async'[i].dst = v \/ ~Alive(async'[i].dst)
  BY EndsMessages
<1>13. \A s \in Tids : Watches(s) =>
          \E i \in 1 .. Len(async') : async'[i].dst = chunk[tasks[s]].tid /\ async'[i].ended = v
  BY EndsMessages
<1>14. VmTypes'
  <2>1. kept' \subseteq Keeps /\ vm' \in {"recv", "renotify", "dead"} /\ (vm' = "recv" => again' = 0) /\ (vm' = "renotify" => again' \in Tids)
    BY <1>1, <1>3 DEF VmTypes
  <2>2. \A d \in Chunks : chunk'[d].watch_tasks \/ chunk'[d].waiting_for # "" => chunk'[d].tid \in Tids
    BY <1>1, <1>2, <1>8 DEF VmTypes
  <2>3. tasks' \in [Tids -> Chunks \cup {0}] /\ services' \in Seq(Service) /\ again' \in Tids \cup {0} /\ born' \in 0 .. MaxBorn
    BY <1>1, <1>3 DEF VmTypes
  <2>. QED BY <1>4, <1>8, <1>10, <2>1, <2>2, <2>3 DEF VmTypes
<1>15. Born'
  <2>. SUFFICES ASSUME NEW s \in Tids PROVE IF Alive(s)' THEN task'[s].inc # 0 ELSE task'[s] = Unused
    BY Zenon DEF Born, Unused, Fresh
  <2>1. IF Alive(s) THEN task[s].inc # 0 ELSE task[s] = Unused
    BY <1>1 DEF Born
  <2>2. CASE s = v
    BY <1>4, <1>7, <2>2
  <2>3. CASE s # v /\ Alive(s)
    BY <1>5, <2>1, <2>3
  <2>4. CASE s # v /\ ~Alive(s)
    <3>1. s # t /\ ~Cut(v, s)
      BY <1>2, <2>1, <2>4, <1>6 DEF Cut, Asking
    <3>2. task'[s] = task[s]
      BY <2>4, <3>1, EndsTasks
    <3>. QED BY <1>5, <2>1, <2>4, <3>2
  <2>. QED BY <2>2, <2>3, <2>4
<1>16. ProgramsRight'
  <2>. SUFFICES ASSUME NEW s \in Tids PROVE Program(task'[s])
    BY DEF ProgramsRight, Program
  <2>1. Program(Unused)
    BY <1>6 DEF Program
  <2>. QED BY <1>4, <1>5, <2>1
<1>17. EntriesOwn'
  <2>. SUFFICES ASSUME NEW s \in Tids, Alive(s)'
                PROVE  tasks'[s] # 0 /\ chunk'[tasks'[s]].used /\ chunk'[tasks'[s]].tid = s
    BY DEF EntriesOwn
  <2>. QED BY <1>3, <1>7, <1>9
<1>18. WaitsRight'
  <2>. SUFFICES ASSUME NEW d \in Chunks, NEW s \in Tids,
                       chunk'[d].tid = s, chunk'[d].waiting_for # "", Alive(s)'
                PROVE  /\ tasks'[s] = d /\ task'[s].st = "blocked" /\ task'[s].op = "lookup"
                       /\ task'[s].name = chunk'[d].waiting_for
    BY DEF WaitsRight
  <2>1. s # v /\ Alive(s) /\ d # c /\ chunk'[d] = chunk[d]
    BY <1>2, <1>7, <1>8
  <2>2. /\ tasks[s] = d /\ task[s].st = "blocked" /\ task[s].op = "lookup"
        /\ task[s].name = chunk[d].waiting_for
    <3>1. chunk[d].tid = s /\ chunk[d].waiting_for # ""
      BY <2>1
    <3>. QED BY <1>1, <2>1, <3>1 DEF WaitsRight
  <2>3. task'[s] = task[s]
    BY <1>5, <2>1, <2>2
  <2>. QED BY <1>3, <2>1, <2>2, <2>3
<1>19. NoForgottenWaiter'
  <2>. SUFFICES ASSUME NEW s \in Tids, task'[s].st = "blocked", task'[s].op = "lookup"
                PROVE  {i \in 1 .. Len(services') : services'[i].name = task'[s].name} = {} /\ chunk'[tasks'[s]].waiting_for = task'[s].name
    BY DEF NoForgottenWaiter, Named
  <2>1. s # v
    BY <1>4, <1>6
  <2>2. task'[s] = task[s]
    BY <1>5, <2>1
  <2>3. Named(task[s].name) = {} /\ chunk[tasks[s]].waiting_for = task[s].name /\ Alive(s)
    BY <1>1, <2>2 DEF NoForgottenWaiter, Alive
  <2>4. {i \in 1 .. Len(services') : services'[i].name = task'[s].name} = Named(task[s].name)
    BY <1>3, <2>2 DEF Named
  <2>. QED BY <1>3, <1>9, <2>1, <2>2, <2>3, <2>4
<1>20. ASSUME ~Killers
       PROVE  /\ t = v /\ c = tasks[t] /\ chunk[c].used /\ task[t].op \in {"exit", "fault"} /\ Peaceful /\ Alive(v)
              /\ \A d \in Chunks : chunk[d].tid = v => chunk[d].waiting_for = ""
  <2>1. t = v /\ c = tasks[t] /\ chunk[c].used /\ task[t].op \in {"exit", "fault"} /\ Peaceful
    BY <1>1, <1>20, Zenon DEF Ends
  <2>2. Alive(v)
    BY <1>2, <2>1 DEF Alive
  <2>3. \A d \in Chunks : chunk[d].tid = v => chunk[d].waiting_for = ""
    BY <1>1, <1>2, <2>1, <2>2 DEF WaitsRight
  <2>. QED BY <2>1, <2>2, <2>3
<1>21. ~Killers => Peaceful'
  <2>. SUFFICES ASSUME ~Killers PROVE Peaceful'
    OBVIOUS
  <2>1. VmAlive'
    BY <1>3, <1>20 DEF Peaceful, VmAlive
  <2>2. WaitersLive'
    <3>. SUFFICES ASSUME NEW d \in Chunks, chunk'[d].waiting_for # "" PROVE task'[chunk'[d].tid].st # "unused"
      BY DEF WaitersLive, Alive
    <3>1. chunk'[d] = chunk[d] /\ chunk[d].tid # v
      BY <1>2, <1>8, <1>20
    <3>2. chunk[d].tid \in Tids /\ Alive(chunk[d].tid)
      BY <1>1, <1>20, <3>1 DEF Peaceful, WaitersLive, VmTypes
    <3>. QED BY <1>5, <3>1, <3>2 DEF Alive
  <2>3. Watching'
    <3>. SUFFICES ASSUME NEW s \in Tids, Alive(s)', task'[s].prog \in {"server", "shell"}, task'[s].step # 0
                  PROVE  chunk'[tasks'[s]].watch_tasks
      BY DEF Watching
    <3>1. s # v /\ Alive(s) /\ task'[s] = task[s]
      BY <1>5, <1>7, <1>20
    <3>2. chunk[tasks[s]].watch_tasks
      BY <1>20, <3>1 DEF Peaceful, Watching
    <3>. QED BY <1>3, <1>9, <3>1, <3>2
  <2>4. \A r \in kept : r.server \in Tids /\ r.owner \in Tids
    BY <1>1 DEF VmTypes, Keeps
  <2>5. KeptByServers'
    <3>. SUFFICES ASSUME NEW r \in kept, r.server # v
                  PROVE  task'[r.server].st # "unused" /\ task'[r.server].prog = "server" /\ task'[r.server].step = 2
      BY <1>3 DEF KeptByServers, Alive
    <3>1. Alive(r.server) /\ task[r.server].prog = "server" /\ task[r.server].step = 2
      BY <1>20 DEF Peaceful, KeptByServers
    <3>2. task'[r.server] = task[r.server]
      BY <1>5, <1>20, <2>4, <3>1
    <3>. QED BY <3>1, <3>2 DEF Alive
  <2>6. NoLeak'
    <3>. SUFFICES ASSUME NEW r \in kept, r.server # v
                  PROVE  \/ task'[r.owner].st # "unused" /\ task'[r.owner].inc = r.inc
                         \/ \E i \in 1 .. Len(async') : async'[i].dst = r.server /\ async'[i].ended = r.owner
      BY <1>3 DEF NoLeak, Alive
    <3>1. CASE Alive(r.owner) /\ task[r.owner].inc = r.inc /\ r.owner # v
      BY <1>5, <2>4, <3>1 DEF Alive
    <3>2. CASE r.owner = v
      <4>1. Alive(r.server) /\ task[r.server].prog = "server" /\ task[r.server].step = 2 /\ r.server \in Tids
        BY <1>20, <2>4 DEF Peaceful, KeptByServers
      <4>2. chunk[tasks[r.server]].watch_tasks
        <5>1. task[r.server].step # 0 /\ task[r.server].prog \in {"server", "shell"}
          BY <4>1
        <5>2. Watching
          BY <1>20 DEF Peaceful
        <5>. QED BY <4>1, <5>1, <5>2, Zenon DEF Watching
      <4>3. Watches(r.server) /\ chunk[tasks[r.server]].tid = r.server
        BY <1>9, <4>1, <4>2 DEF Watches
      <4>. QED BY <1>13, <3>2, <4>1, <4>3
    <3>3. CASE ~(Alive(r.owner) /\ task[r.owner].inc = r.inc)
      <4>1. PICK i \in 1 .. Len(async) : async[i].dst = r.server /\ async[i].ended = r.owner
        BY <1>20, <3>3 DEF Peaceful, NoLeak
      <4>. QED BY <1>11, <4>1
    <3>. QED BY <3>1, <3>2, <3>3
  <2>. QED BY <2>1, <2>2, <2>3, <2>5, <2>6 DEF Peaceful
<1>22. ~Killers /\ ~FrailServers => Robust'
  <2>. SUFFICES ASSUME ~Killers, ~FrailServers PROVE Robust'
    OBVIOUS
  <2>1. Robust /\ task[v].prog = "app"
    <3>1. Program(task[v])
      BY <1>1, <1>2 DEF ProgramsRight
    <3>. QED BY <1>1, <1>2, <1>20, <3>1 DEF Program
  <2>2. \A s \in Tids : Lasting(s) => s # v /\ s # t /\ task'[s] = task[s]
    BY <1>5, <1>20, <2>1 DEF Lasting
  <2>3. \A d \in Chunks : chunk[d].watch_tasks => chunk[d].tid \in Tids /\ Lasting(chunk[d].tid)
    BY <1>1, <2>1 DEF Robust, WatchersLast, VmTypes
  <2>4. WatchersLast'
    <3>. SUFFICES ASSUME NEW d \in Chunks, chunk'[d].watch_tasks
                  PROVE  task'[chunk'[d].tid].st # "unused" /\ task'[chunk'[d].tid].prog \in {"server", "shell"}
      BY DEF WatchersLast, Lasting, Alive
    <3>1. chunk'[d] = chunk[d]
      BY <1>2, <1>8, <2>2, <2>3
    <3>2. chunk[d].tid \in Tids /\ Lasting(chunk[d].tid)
      BY <2>3, <3>1
    <3>. QED BY <2>2, <3>1, <3>2 DEF Lasting, Alive
  <2>5. ASSUME NEW i \in 1 .. Len(async') PROVE async'[i].dst \in Tids /\ Lasting(async'[i].dst)
    <3>1. CASE i \in 1 .. Len(async) /\ async'[i] = async[i]
      BY <1>1, <2>1, <3>1, MessageTypes DEF Robust, MessagesLast
    <3>2. CASE \E d \in Chunks : chunk[d].watch_tasks /\ async'[i].dst = chunk[d].tid
      BY <2>3, <3>2
    <3>. QED BY <1>12, <3>1, <3>2
  <2>6. MessagesLast'
    <3>. SUFFICES ASSUME NEW i \in 1 .. Len(async')
                  PROVE  task'[async'[i].dst].st # "unused" /\ task'[async'[i].dst].prog \in {"server", "shell"}
      BY DEF MessagesLast, Lasting, Alive
    <3>. QED BY <2>2, <2>5 DEF Lasting, Alive
  <2>7. NoLostMessage'
    <3>. SUFFICES ASSUME NEW i \in 1 .. Len(async')
                  PROVE  \/ async'[i].dst \in notified' \/ again' = async'[i].dst
                         \/ task'[async'[i].dst].op = "pull" /\ task'[async'[i].dst].st # "run"
      BY DEF NoLostMessage, Alive
    <3>1. PICK s \in Tids : s = async'[i].dst /\ Lasting(s)
      BY <2>5
    <3>2. s # v /\ Alive(s) /\ task'[s] = task[s]
      BY <2>2, <3>1 DEF Lasting
    <3>3. CASE i \in 1 .. Len(async) /\ async'[i] = async[i]
      <4>1. s \in notified \/ again = s \/ (task[s].op = "pull" /\ task[s].st # "run")
        BY <2>1, <3>1, <3>2, <3>3 DEF Robust, NoLostMessage
      <4>. QED BY <1>3, <1>10, <3>1, <3>2, <4>1
    <3>4. CASE async'[i].dst \in notified' \/ async'[i].dst = v \/ ~Alive(async'[i].dst)
      BY <3>1, <3>2, <3>4
    <3>. QED BY <1>12, <3>3, <3>4
  <2>. QED BY <2>4, <2>6, <2>7 DEF Robust
<1>. QED BY <1>14, <1>15, <1>16, <1>17, <1>18, <1>19, <1>21, <1>22, Zenon DEF VmInv, Table

LEMMA ExceptionKept ==
    ASSUME VmAssumption, VmInv, NEW t \in Tids, Exception(t)
    PROVE  VmInv'
<1>1. PICK o \in {"exit", "invalid"} : Received(t, o)
  BY DEF Exception
<1>2. /\ VmTypes /\ Alive(t) /\ task[t] \in TaskStates /\ Program(task[t]) /\ task[t].st = "call" /\ task[t].op = o
      /\ task_find(t) = tasks[t] /\ tasks[t] \in Chunks /\ tasks[t] # 0
      /\ chunk[tasks[t]].used /\ chunk[tasks[t]].tid = t
  BY <1>1, Caller
<1>3. UNCHANGED <<services, again, born>>
  BY DEF Exception
<1>4. CASE o = "exit"
  <2>1. task_destroy(tasks[t], [caller |-> t, then |-> Unused])
    BY <1>2, <1>4, Zenon DEF Exception
  <2>2. Ends(t, t, tasks[t], Unused)
    BY <1>2, <1>3, <1>4, <2>1, Zenon DEF Ends
  <2>. QED BY <2>2, EndsKept
<1>5. CASE o = "invalid"
  <2>1. /\ task' = [task EXCEPT ![t].st = "exited"]
        /\ UNCHANGED <<notified, tasks, chunk, async, vm, kept>>
    BY <1>2, <1>5 DEF Exception
  <2>2. PICK k : k = [task[t] EXCEPT !.st = "exited"]
    OBVIOUS
  <2>3. task' = [task EXCEPT ![t] = k]
    BY <1>2, <2>1, <2>2 DEF VmTypes
  <2>4. k \in TaskStates
    BY <1>2, <2>2 DEF TaskStates
  <2>5. /\ k.st = "exited" /\ k.prog = task[t].prog /\ k.inc = task[t].inc /\ k.step = task[t].step /\ k.peer = task[t].peer
    BY <1>2, <2>2 DEF TaskStates
  <2>6. Program(k)
    BY <1>2, <2>5 DEF Program
  <2>. QED BY <1>2, <1>3, <1>5, <2>1, <2>3, <2>4, <2>5, <2>6, OnlyTask
<1>. QED BY <1>4, <1>5

LEMMA PageFaultKept ==
    ASSUME VmAssumption, VmInv, NEW t \in Tids, PageFault(t)
    PROVE  VmInv'
<1>1. Received(t, "fault") /\ UNCHANGED <<services, again, born>>
  BY DEF PageFault
<1>2. /\ task[t].st = "call" /\ task[t].op = "fault"
      /\ task_find(t) = tasks[t] /\ tasks[t] \in Chunks /\ tasks[t] # 0
      /\ chunk[tasks[t]].used /\ chunk[tasks[t]].tid = t
  BY <1>1, Caller
<1>3. task_destroy(tasks[t], [caller |-> t, then |-> Unused])
  BY <1>2, Zenon DEF PageFault
<1>4. Ends(t, t, tasks[t], Unused)
  BY <1>1, <1>2, <1>3, Zenon DEF Ends
<1>. QED BY <1>4, EndsKept

LEMMA DestroyTaskEnds ==
    ASSUME VmAssumption, VmInv, NEW t \in Tids, DestroyTask(t)
    PROVE  \/ task' = Answer(t) /\ UNCHANGED <<notified, tasks, chunk, async, vm, kept>>
           \/ \E v, c, k : Ends(t, v, c, k)
<1>1. Received(t, "destroy") /\ UNCHANGED <<services, again, born>>
  BY DEF DestroyTask
<1>2. VmTypes /\ Program(task[t]) /\ task[t].st = "call" /\ task[t].op = "destroy"
  BY <1>1, Caller
<1>3. Killers /\ task[t].peer \in Tids
  BY <1>2 DEF Program
<1>4. Answer(t)[t] = Answered(t)
  BY <1>2, AnsweredIs
<1>5. PICK found : found = Entries(task[t].peer)
  OBVIOUS
<1>6. CASE found = {}
  BY <1>5, <1>6 DEF DestroyTask
<1>7. CASE found # {}
  <2>1. found \in SUBSET Nat
    BY <1>5, VmConstants DEF Entries
  <2>2. \E i \in found : \A j \in found : i <= j
    BY <1>7, <2>1, LeastNatural
  <2>3. PICK i : i = CHOOSE x \in found : \A j \in found : x <= j
    OBVIOUS
  <2>4. i \in found
    BY <2>2, <2>3
  <2>5. i \in Tids /\ tasks[i] # 0 /\ chunk[tasks[i]].tid = task[t].peer /\ tasks[i] \in Chunks
    BY <1>2, <1>5, <2>4 DEF Entries, VmTypes
  <2>6. task_destroy(tasks[i], [caller |-> t, then |-> Answer(t)[t]])
    BY <1>5, <1>7, <2>3, Zenon DEF DestroyTask
  <2>7. task_destroy(tasks[i], [caller |-> t, then |-> Answered(t)])
    BY <1>4, <2>6, Zenon
  <2>8. Ends(t, task[t].peer, tasks[i], Answered(t))
    BY <1>1, <1>2, <1>3, <2>5, <2>7, Zenon DEF Ends
  <2>. QED BY <2>8
<1>. QED BY <1>6, <1>7

LEMMA DestroyTaskKept ==
    ASSUME VmAssumption, VmInv, NEW t \in Tids, DestroyTask(t)
    PROVE  VmInv'
<1>1. Received(t, "destroy") /\ UNCHANGED <<services, again, born>>
  BY DEF DestroyTask
<1>2. /\ VmTypes /\ Alive(t) /\ task[t] \in TaskStates /\ Program(task[t]) /\ task[t].st = "call" /\ task[t].op = "destroy"
  BY <1>1, Caller
<1>3. task[t].prog = "app" /\ task[t].peer \in Tids /\ task[t].step # 0
  BY <1>2 DEF Program
<1>4. CASE task' = Answer(t) /\ UNCHANGED <<notified, tasks, chunk, async, vm, kept>>
  <2>1. PICK k : k = Answered(t)
    OBVIOUS
  <2>2. /\ k \in TaskStates /\ k.st = "run" /\ k.prog = "app" /\ k.inc = task[t].inc /\ k.op = "destroy" /\ k.peer \in Tids
    BY <1>2, <1>3, <2>1, AnsweredIs
  <2>3. Program(k)
    BY <2>2 DEF Program
  <2>4. task' = [task EXCEPT ![t] = k]
    BY <1>2, <1>4, <2>1, AnsweredIs
  <2>. QED BY <1>1, <1>2, <1>3, <1>4, <2>2, <2>3, <2>4, OnlyTask
<1>5. CASE \E v, c, k : Ends(t, v, c, k)
  BY <1>5, EndsKept
<1>. QED BY <1>4, <1>5, DestroyTaskEnds

-----------------------------------------------------------------------------
(* The answer to ASYNC_RECV_MSG.                                           *)

LEMMA AsyncReplyKept ==
    ASSUME VmAssumption, VmInv, NEW t \in Tids, AsyncReply(t)
    PROVE  VmInv'
<1>1. Received(t, "pull") /\ UNCHANGED <<notified, tasks, chunk, services, born>>
  BY DEF AsyncReply
<1>2. /\ VmTypes /\ Alive(t) /\ task[t] \in TaskStates /\ Program(task[t]) /\ task[t].st = "call" /\ task[t].op = "pull"
      /\ vm = "recv" /\ task[t].step \in Nat
  BY <1>1, Caller
<1>3. task[t].prog \in {"server", "shell"} /\ task[t].step = 2 /\ again = 0 /\ 0 \notin Tids
  BY <1>2, VmConstants DEF Program, VmTypes
<1>4. CASE Queued(t) = {}
  <2>1. task' = [task EXCEPT ![t].st = "blocked"] /\ UNCHANGED <<async, vm, again, kept>>
    BY <1>4 DEF AsyncReply
  <2>2. PICK k : k = [task[t] EXCEPT !.st = "blocked"]
    OBVIOUS
  <2>3. task' = [task EXCEPT ![t] = k]
    BY <1>2, <2>1, <2>2 DEF VmTypes
  <2>4. k \in TaskStates
    BY <1>2, <2>2 DEF TaskStates
  <2>5. /\ k.st = "blocked" /\ k.prog = task[t].prog /\ k.inc = task[t].inc /\ k.step = 2 /\ k.op = "pull"
    BY <1>2, <1>3, <2>2 DEF TaskStates
  <2>6. Program(k)
    BY <1>3, <2>5 DEF Program
  <2>. QED BY <1>1, <1>2, <1>3, <2>1, <2>3, <2>4, <2>5, <2>6, OnlyTask
<1>5. CASE Queued(t) # {}
  <2>1. PICK j : j = Min(Queued(t))
    OBVIOUS
  <2>2. Queued(t) \in SUBSET Nat
    BY DEF Queued
  <2>3. j \in Queued(t)
    BY <1>5, <2>1, <2>2, MinIsLeast
  <2>4. j \in 1 .. Len(async) /\ async[j].dst = t
    BY <2>3 DEF Queued
  <2>5. PICK msg : msg = async[j]
    OBVIOUS
  <2>6. /\ async' = RemoveAt(async, j) /\ Handled(t, msg)
        /\ vm' = (IF MoreQueued(t) THEN "renotify" ELSE vm) /\ again' = IF MoreQueued(t) THEN t ELSE again
    BY <1>5, <2>1, <2>5, Zenon DEF AsyncReply
  <2>7. async \in Seq(VmMessage) /\ Len(async) \in Nat
    <3>1. async \in Seq(VmMessage)
      BY <1>2 DEF VmTypes
    <3>. QED BY <3>1, LenProperties
  <2>8. /\ async' \in Seq(VmMessage) /\ Len(async') = Len(async) - 1
        /\ \A i \in 1 .. Len(async) - 1 : async'[i] = IF i < j THEN async[i] ELSE async[i + 1]
    BY <2>4, <2>6, <2>7, RemoveAtElements
  <2>9. ASSUME NEW i \in 1 .. Len(async), i # j PROVE \E x \in 1 .. Len(async') : async'[x] = async[i]
    <3>1. CASE i < j
      <4>1. i \in 1 .. Len(async) - 1 /\ i \in 1 .. Len(async')
        BY <2>4, <2>7, <2>8, <3>1
      <4>. QED BY <2>8, <3>1, <4>1
    <3>2. CASE ~(i < j)
      <4>1. i - 1 \in 1 .. Len(async) - 1 /\ i - 1 \in 1 .. Len(async') /\ ~(i - 1 < j) /\ (i - 1) + 1 = i
        BY <2>4, <2>7, <2>8, <2>9, <3>2
      <4>2. async'[i - 1] = async[(i - 1) + 1]
        BY <2>8, <4>1
      <4>. QED BY <4>1, <4>2
    <3>. QED BY <3>1, <3>2
  <2>10. ASSUME NEW x \in 1 .. Len(async') PROVE \E i \in 1 .. Len(async) : i # j /\ async'[x] = async[i]
    <3>1. x \in 1 .. Len(async) - 1
      BY <2>8
    <3>2. CASE x < j
      <4>1. x \in 1 .. Len(async) /\ x # j
        BY <2>4, <2>7, <3>1, <3>2
      <4>. QED BY <2>8, <3>1, <3>2, <4>1
    <3>3. CASE ~(x < j)
      <4>1. x + 1 \in 1 .. Len(async) /\ x + 1 # j
        BY <2>4, <2>7, <3>1, <3>3
      <4>. QED BY <2>8, <3>1, <3>3, <4>1
    <3>. QED BY <3>2, <3>3
  <2>11. PICK n : n = IF task[t].prog = "shell" /\ msg.ended = task[t].peer THEN 1 ELSE task[t].step
    OBVIOUS
  <2>12. PICK k : k = [task[t] EXCEPT !.st = "run", !.step = n]
    OBVIOUS
  <2>13. n \in {1, 2} /\ (task[t].prog = "server" => n = 2)
    BY <1>3, <2>11
  <2>14. k \in TaskStates
    <3>1. n \in Nat
      BY <2>13
    <3>. QED BY <1>2, <2>12, <3>1 DEF TaskStates
  <2>15. k.st = "run" /\ k.step = n /\ k.prog = task[t].prog /\ k.inc = task[t].inc /\ k.op = "pull"
    BY <1>2, <2>12 DEF TaskStates
  <2>16. task' = [task EXCEPT ![t] = k]
    <3>1. task' = [task EXCEPT ![t].st = "run",
                    ![t].step = IF task[t].prog = "shell" /\ msg.ended = task[t].peer THEN 1 ELSE @]
      BY <2>6 DEF Handled
    <3>. QED BY <1>2, <2>11, <2>12, <3>1 DEF VmTypes, TaskStates
  <2>17. Program(k)
    BY <1>3, <2>15 DEF Program
  <2>18. kept' = IF task[t].prog = "server" THEN {r \in kept : ~(r.server = t /\ r.owner = msg.ended)} ELSE kept
    BY <2>6 DEF Handled
  <2>19. SameStructures(t)
    BY <1>1, <1>2 DEF SameStructures, VmTypes
  <2>20. Moved(t, k)
    BY <1>1, <1>2, <1>3, <2>13, <2>14, <2>15, <2>16, <2>17, <2>19 DEF Moved
  <2>21. VmTypes'
    <3>1. kept' \subseteq Keeps
      BY <1>2, <2>18 DEF VmTypes
    <3>2. /\ vm' \in {"recv", "renotify"} /\ again' \in Tids \cup {0}
          /\ (vm' = "recv" => again' = 0) /\ (vm' = "renotify" => again' \in Tids)
      BY <1>2, <1>3, <2>6
    <3>3. task' \in [Tids -> TaskStates]
      BY <1>2, <2>14, <2>16 DEF VmTypes
    <3>. QED BY <1>1, <1>2, <2>8, <3>1, <3>2, <3>3 DEF VmTypes
  <2>22. /\ Table' /\ (WaitersLive => WaitersLive') /\ (Watching => Watching') /\ (WatchersLast => WatchersLast')
    <3>1. Table
      BY DEF VmInv
    <3>. QED BY <2>20, <2>21, <3>1, MovedTable
  <2>23. SameLives
    BY <1>2, <2>20, MovedLives
  <2>24. KeptByServers => KeptByServers'
    <3>1. KeptRight
      BY <2>18 DEF KeptRight
    <3>. QED BY <1>2, <2>23, <3>1, KeptOn
  <2>25. VmAlive'
    BY <1>2, <2>6 DEF VmAlive
  <2>26. KeptByServers /\ NoLeak => NoLeak'
    <3>. SUFFICES ASSUME KeptByServers, NoLeak, NEW r \in kept'
                  PROVE  \/ task'[r.owner].st # "unused" /\ task'[r.owner].inc = r.inc
                         \/ \E i \in 1 .. Len(async') : async'[i].dst = r.server /\ async'[i].ended = r.owner
      BY Zenon DEF NoLeak, Alive
    <3>1. r \in kept /\ r.owner \in Tids
      BY <1>2, <2>18 DEF VmTypes, Keeps
    <3>2. CASE Alive(r.owner) /\ task[r.owner].inc = r.inc
      BY <2>23, <3>1, <3>2 DEF SameLives, Alive
    <3>3. CASE ~(Alive(r.owner) /\ task[r.owner].inc = r.inc)
      <4>1. PICK i \in 1 .. Len(async) : async[i].dst = r.server /\ async[i].ended = r.owner
        BY <3>1, <3>3 DEF NoLeak
      <4>2. i # j
        <5>1. task[r.server].prog = "server"
          BY <3>1 DEF KeptByServers
        <5>. QED BY <2>4, <2>5, <2>18, <4>1, <5>1
      <4>. QED BY <2>9, <4>1, <4>2
    <3>. QED BY <3>2, <3>3
  <2>27. MessagesLast => MessagesLast'
    <3>. SUFFICES ASSUME MessagesLast, NEW x \in 1 .. Len(async')
                  PROVE  task'[async'[x].dst].st # "unused" /\ task'[async'[x].dst].prog \in {"server", "shell"}
      BY DEF MessagesLast, Lasting, Alive
    <3>1. PICK i \in 1 .. Len(async) : async'[x] = async[i]
      BY <2>10
    <3>2. async[i].dst \in Tids /\ Lasting(async[i].dst)
      BY <1>2, MessageTypes DEF MessagesLast
    <3>. QED BY <2>23, <3>1, <3>2 DEF SameLives, Lasting, Alive
  <2>28. NoLostMessage => NoLostMessage'
    <3>. SUFFICES ASSUME NoLostMessage, NEW x \in 1 .. Len(async'), task'[async'[x].dst].st # "unused"
                  PROVE  \/ async'[x].dst \in notified' \/ again' = async'[x].dst
                         \/ task'[async'[x].dst].op = "pull" /\ task'[async'[x].dst].st # "run"
      BY DEF NoLostMessage, Alive
    <3>1. PICK i \in 1 .. Len(async) : i # j /\ async'[x] = async[i]
      BY <2>10
    <3>2. PICK s \in Tids : s = async[i].dst
      BY <1>2, MessageTypes
    <3>3. CASE s = t
      <4>1. i \in Queued(t)
        BY <3>2, <3>3 DEF Queued
      <4>2. MoreQueued(t)
        BY <2>3, <3>1, <4>1 DEF MoreQueued
      <4>. QED BY <2>6, <3>1, <3>2, <3>3, <4>2
    <3>4. CASE s # t
      <4>1. task'[s] = task[s]
        BY <1>2, <2>16, <3>4 DEF VmTypes
      <4>2. Alive(s)
        BY <3>1, <3>2, <4>1 DEF Alive
      <4>3. s \in notified \/ again = s \/ (task[s].op = "pull" /\ task[s].st # "run")
        BY <3>2, <4>2 DEF NoLostMessage
      <4>. QED BY <1>1, <1>3, <3>1, <3>2, <4>1, <4>3
    <3>. QED BY <3>3, <3>4
  <2>. QED BY <2>22, <2>24, <2>25, <2>26, <2>27, <2>28, Zenon DEF VmInv, Peaceful, Robust
<1>. QED BY <1>4, <1>5

\* The tasks, the structures, the services, the messages and what is kept stay.
Rest == UNCHANGED <<task, tasks, chunk, services, async, kept, born>>

LEMMA RestKept ==
    ASSUME VmAssumption, VmInv, Rest, VmTypes', VmAlive => VmAlive',
           NoLostMessage => NoLostMessage'
    PROVE  VmInv'
<1>1. task' = task /\ tasks' = tasks /\ chunk' = chunk /\ services' = services /\ async' = async /\ kept' = kept
  BY DEF Rest
<1>2. Table'
  <2>1. Born' /\ ProgramsRight' /\ EntriesOwn'
    BY <1>1 DEF VmInv, Table, Born, ProgramsRight, EntriesOwn, Alive
  <2>2. WaitsRight' /\ NoForgottenWaiter'
    BY <1>1, ZenonT(40) DEF VmInv, Table, WaitsRight, NoForgottenWaiter, Alive, Named
  <2>. QED BY <2>1, <2>2 DEF Table
<1>3. (WaitersLive => WaitersLive') /\ (Watching => Watching') /\ (KeptByServers => KeptByServers') /\ (NoLeak => NoLeak')
  BY <1>1 DEF WaitersLive, Watching, KeptByServers, NoLeak, Alive
<1>4. (WatchersLast => WatchersLast') /\ (MessagesLast => MessagesLast')
  BY <1>1 DEF WatchersLast, MessagesLast, Lasting, Alive
<1>. QED BY <1>2, <1>3, <1>4, Zenon DEF VmInv, Peaceful, Robust

LEMMA RenotifyKept ==
    ASSUME VmAssumption, VmInv, Renotify
    PROVE  VmInv'
<1>1. VmTypes /\ vm = "renotify" /\ vm' = "recv" /\ again' = 0 /\ Rest
  BY DEF VmInv, Table, Renotify, Rest
<1>2. notified' = notified \cup {u \in {again} : Alive(u)} /\ again \in Tids
  BY <1>1 DEF Renotify, VmTypes
<1>3. VmTypes'
  <2>1. notified' \subseteq Tids
    BY <1>1, <1>2 DEF VmTypes
  <2>2. vm' \in {"recv", "renotify", "dead"} /\ again' \in Tids \cup {0} /\ (vm' = "renotify" => again' \in Tids)
    BY <1>1
  <2>. QED BY <1>1, <2>1, <2>2 DEF VmTypes, Rest
<1>4. VmAlive'
  BY <1>1 DEF VmAlive
<1>5. NoLostMessage => NoLostMessage'
  <2>. SUFFICES ASSUME NoLostMessage, NEW i \in 1 .. Len(async), task[async[i].dst].st # "unused"
                PROVE  \/ async[i].dst \in notified' \/ again' = async[i].dst
                       \/ task[async[i].dst].op = "pull" /\ task[async[i].dst].st # "run"
    BY <1>1 DEF NoLostMessage, Alive, Rest
  <2>1. PICK s \in Tids : s = async[i].dst /\ Alive(s)
    BY <1>1, MessageTypes DEF Alive
  <2>2. s \in notified \/ again = s \/ (task[s].op = "pull" /\ task[s].st # "run")
    BY <2>1 DEF NoLostMessage
  <2>. QED BY <1>2, <2>1, <2>2
<1>. QED BY <1>1, <1>3, <1>4, <1>5, RestKept

LEMMA StutterKept ==
    ASSUME VmAssumption, VmInv, UNCHANGED vars
    PROVE  VmInv'
<1>1. Rest /\ notified' = notified /\ vm' = vm /\ again' = again
  BY DEF vars, vmVars, Rest
<1>2. VmTypes'
  BY <1>1 DEF VmInv, Table, VmTypes, Rest
<1>3. VmAlive => VmAlive'
  BY <1>1 DEF VmAlive
<1>4. NoLostMessage => NoLostMessage'
  BY <1>1 DEF NoLostMessage, Alive, Rest
<1>. QED BY <1>1, <1>2, <1>3, <1>4, RestKept

\* spawn_servers.
LEMMA InitVm ==
    ASSUME VmAssumption, Init
    PROVE  VmInv
<1>. DEFINE Boot(t) == t <= Len(BootServers) + 1
<1>1. /\ MaxTid \in Nat /\ MaxBorn \in Nat /\ Tids = 2 .. MaxTid /\ Chunks = 2 .. MaxTid /\ 0 \notin Tids
      /\ Len(BootServers) \in Nat /\ Len(BootServers) < MaxTid /\ Len(BootServers) =< MaxBorn
      /\ BootServers \in Seq(Programs)
  BY VmConstants, TidsAre
<1>2. /\ task = [t \in Tids |-> IF Boot(t) THEN Fresh(BootServers[t - 1], t - 1) ELSE Unused]
      /\ tasks = [t \in Tids |-> IF Boot(t) THEN t ELSE 0]
      /\ chunk = [c \in Chunks |-> IF Boot(c) THEN Structure(TRUE, c) ELSE Structure(FALSE, 0)]
      /\ notified = {} /\ services = <<>> /\ async = <<>> /\ vm = "recv" /\ again = 0
      /\ kept = {} /\ born = Len(BootServers)
  BY DEF Init
<1>3. ASSUME NEW t \in Tids, Boot(t)
      PROVE  /\ task[t].st = "run" /\ task[t].inc # 0 /\ task[t].step = 0 /\ task[t].op = "" /\ task[t] \in TaskStates
  <2>1. PICK p \in Programs, n \in 1 .. MaxBorn : p = BootServers[t - 1] /\ n = t - 1
    <3>1. t - 1 \in 1 .. Len(BootServers) /\ t - 1 \in 1 .. MaxBorn
      BY <1>1, <1>3
    <3>2. BootServers[t - 1] \in Programs
      BY <1>1, <3>1, ElementOfSeq
    <3>. QED BY <3>1, <3>2
  <2>2. PICK u : u = task[t]
    OBVIOUS
  <2>3. u = [st |-> "run", prog |-> p, inc |-> n, step |-> 0, op |-> "", peer |-> 0, name |-> ""]
    BY <1>2, <1>3, <2>1, <2>2 DEF Fresh
  <2>4. PICK O, N, I, T : O = VmOps /\ N = Names \cup {""} /\ I = 0 .. MaxBorn /\ T = Tids \cup {0}
    OBVIOUS
  <2>5. TaskStates = [st : {"run", "call", "blocked", "exited", "unused"}, prog : Programs, inc : I, step : Nat, op : O, peer : T, name : N]
    BY <2>4, Zenon DEF TaskStates
  <2>6. "" \in O /\ 0 \in T /\ "" \in N /\ n \in I /\ n # 0
    <3>1. n \in 0 .. MaxBorn /\ n # 0
      BY <1>1
    <3>2. "" \in VmOps
      BY DEF VmOps
    <3>. QED BY <2>4, <3>1, <3>2
  <2>7. u \in [st : {"run", "call", "blocked", "exited", "unused"}, prog : Programs, inc : I, step : Nat, op : O, peer : T, name : N]
    BY <2>3, <2>6
  <2>8. u.st = "run" /\ u.inc # 0 /\ u.step = 0 /\ u.op = ""
    BY <2>3, <2>6
  <2>. QED BY <2>2, <2>5, <2>7, <2>8
<1>4. ASSUME NEW t \in Tids, ~Boot(t) PROVE task[t] = Unused
  BY <1>2, <1>4
<1>5. Unused \in TaskStates /\ Unused.st = "unused" /\ Unused.step = 0
  <2>1. Unused.st = "unused" /\ Unused.step = 0
    BY DEF Unused, Fresh
  <2>. QED BY <2>1, UnusedIs
<1>6. \A t \in Tids : task[t] \in TaskStates /\ (Alive(t) <=> Boot(t)) /\ task[t].st \in {"run", "unused"} /\ task[t].step = 0
  BY <1>3, <1>4, <1>5 DEF Alive
<1>7. ASSUME NEW c \in Chunks
      PROVE  /\ chunk[c] \in Structures /\ chunk[c].waiting_for = "" /\ ~chunk[c].watch_tasks
             /\ Boot(c) => chunk[c].used /\ chunk[c].tid = c
  <2>1. PICK u, i : i \in Tids \cup {0} /\ u \in BOOLEAN /\ chunk[c] = Structure(u, i) /\ (Boot(c) => u = TRUE /\ i = c)
    <3>1. CASE Boot(c)
      <4>1. chunk[c] = Structure(TRUE, c) /\ c \in Tids
        BY <1>1, <1>2, <3>1
      <4>. QED BY <4>1
    <3>2. CASE ~Boot(c)
      <4>1. chunk[c] = Structure(FALSE, 0)
        BY <1>2, <3>2
      <4>. QED BY <3>2, <4>1
    <3>. QED BY <3>1, <3>2
  <2>2. PICK z : z = Structure(u, i)
    OBVIOUS
  <2>3. z \in Structures /\ z.used = u /\ z.tid = i /\ z.waiting_for = "" /\ ~z.watch_tasks
    BY <2>1, <2>2 DEF Structure, Structures
  <2>. QED BY <2>1, <2>2, <2>3
<1>. HIDE DEF Boot
<1>8. VmTypes
  <2>1. task \in [Tids -> TaskStates]
    <3>1. task = [t \in Tids |-> task[t]]
      BY <1>2
    <3>. QED BY <1>6, <3>1
  <2>2. tasks \in [Tids -> Chunks \cup {0}]
    BY <1>1, <1>2
  <2>3. chunk \in [Chunks -> Structures]
    <3>1. chunk = [c \in Chunks |-> chunk[c]]
      BY <1>2
    <3>. QED BY <1>7, <3>1
  <2>4. services \in Seq(Service) /\ async \in Seq(VmMessage)
    BY <1>2
  <2>5. born \in 0 .. MaxBorn
    BY <1>1, <1>2
  <2>. QED BY <1>2, <1>7, <2>1, <2>2, <2>3, <2>4, <2>5 DEF VmTypes
<1>9. Born
  BY <1>3, <1>4, <1>6 DEF Born
<1>10. ProgramsRight
  BY <1>6 DEF ProgramsRight, Program
<1>11. EntriesOwn
  <2>1. ASSUME NEW t \in Tids, Boot(t) PROVE tasks[t] = t /\ t \in Chunks /\ t # 0
    BY <1>1, <1>2, <2>1
  <2>. QED BY <1>6, <1>7, <2>1, ZenonT(40) DEF EntriesOwn
<1>12. WaitsRight /\ NoForgottenWaiter
  BY <1>6, <1>7 DEF WaitsRight, NoForgottenWaiter
<1>13. Len(async) = 0
  BY <1>2
<1>14. VmAlive /\ WaitersLive /\ Watching /\ KeptByServers /\ NoLeak
  BY <1>2, <1>6, <1>7 DEF VmAlive, WaitersLive, Watching, KeptByServers, NoLeak
<1>15. WatchersLast /\ MessagesLast /\ NoLostMessage
  <2>1. \A i : i \notin 1 .. Len(async)
    BY <1>13
  <2>. QED BY <1>7, <2>1 DEF WatchersLast, MessagesLast, NoLostMessage
<1>. QED BY <1>8, <1>9, <1>10, <1>11, <1>12, <1>14, <1>15, Zenon DEF VmInv, Table, Peaceful, Robust

\* servers/vm: whatever message the server takes and whatever its tasks do next, the table of tasks,
\* the waiting lookups, the watchers and the messages that a task has ended stay as VmInv says.
THEOREM NextKept ==
    ASSUME VmAssumption, NoRebirth, VmInv, [Next]_vars
    PROVE  VmInv'
<1>1. ASSUME NEW t \in Tids, Send(t) \/ RecvNotification(t) \/ RecvRequest(t) PROVE VmInv'
  BY <1>1, SendKept, RecvNotificationKept, RecvRequestKept
<1>2. ASSUME NEW t \in Tids, WatchTasks(t) \/ Register(t) \/ Lookup(t) \/ Spawn(t) PROVE VmInv'
  BY <1>2, WatchTasksKept, RegisterKept, LookupKept, SpawnKept
<1>3. ASSUME NEW t \in Tids, Exception(t) \/ PageFault(t) \/ DestroyTask(t) \/ AsyncReply(t) PROVE VmInv'
  BY <1>3, ExceptionKept, PageFaultKept, DestroyTaskKept, AsyncReplyKept
<1>. QED BY <1>1, <1>2, <1>3, RenotifyKept, StutterKept, Zenon DEF Next

\* servers/vm/task.c: in such a state every living task has a structure of its own and no lookup
\* waits for a registered service; without destroyers nothing kept for an ended task is forgotten,
\* and if besides no server faults no message is left behind.
THEOREM VmInvSays ==
    ASSUME VmAssumption, VmInv
    PROVE  /\ TypeOK /\ EntriesOwn /\ NoForgottenWaiter
           /\ ~Killers => VmAlive /\ NoLeak
           /\ ~Killers /\ ~FrailServers => NoLostMessage
<1>1. VmTypes
  BY DEF VmInv, Table
<1>2. \A t \in Tids : task[t].st \in {"run", "call", "blocked", "exited", "unused"}
  BY <1>1 DEF VmTypes, TaskStates
<1>3. \A c \in Chunks : chunk[c].tid \in Tids \cup {0} /\ chunk[c].waiting_for \in Names \cup {""}
  BY <1>1 DEF VmTypes, Structures
<1>4. TypeOK
  BY <1>1, <1>2, <1>3 DEF TypeOK, VmTypes, Service, VmMessage, Keeps
<1>. QED BY <1>4, Zenon DEF VmInv, Table, Peaceful, Robust

-----------------------------------------------------------------------------
(* What a step does: lookups are answered with who has registered, and     *)
(* who ends has asked for it or is asked for.                              *)

AnswerStep ==
    \A t \in Tids : task[t].op = "lookup" /\ task'[t].peer # task[t].peer /\ task'[t].inc = task[t].inc =>
        \E i \in 1 .. Len(services') : services'[i].name = task[t].name /\ services'[i].task = task'[t].peer

AskedStep ==
    \A t \in Tids : Alive(t) /\ ~Alive(t)' =>
        \/ task[t].st = "call" /\ task[t].op \in {"exit", "fault"}
        \/ \E s \in Tids : Asking(t, s, {"destroy"})

\* Only task t changes, and it has not looked up anything.
LEMMA OneMoves ==
    ASSUME VmTypes, NEW t \in Tids, NEW k, task' = [task EXCEPT ![t] = k], k.st # "unused",
           k.peer = task[t].peer \/ task[t].op # "lookup"
    PROVE  AnswerStep /\ AskedStep
<1>1. \A s \in Tids : task'[s] = IF s = t THEN k ELSE task[s]
  BY DEF VmTypes
<1>. QED BY <1>1 DEF AnswerStep, AskedStep, Alive

LEMMA TasksStep ==
    ASSUME VmAssumption, VmInv, NEW t \in Tids, Send(t) \/ RecvNotification(t) \/ RecvRequest(t)
    PROVE  AnswerStep /\ AskedStep
<1>1. VmTypes /\ task \in [Tids -> TaskStates] /\ \A s \in Tids : task[s] \in TaskStates
  BY DEF VmInv, Table, VmTypes
<1>2. CASE Send(t)
  <2>1. PICK o \in Sends(t), n \in Names :
        LET lost == o \in {"connect", "close"} /\ ~Alive(task[t].peer) IN
        task' = [task EXCEPT ![t] =
               IF lost THEN [@ EXCEPT !.step = 3]
               ELSE [@ EXCEPT !.st = "call", !.op = o,
                              !.name = IF o \in {"lookup", "register"} THEN n ELSE task[t].name]]
    BY <1>2 DEF Send
  <2>2. PICK k : k = IF o \in {"connect", "close"} /\ ~Alive(task[t].peer) THEN [task[t] EXCEPT !.step = 3]
                     ELSE [task[t] EXCEPT !.st = "call", !.op = o,
                                !.name = IF o \in {"lookup", "register"} THEN n ELSE task[t].name]
    OBVIOUS
  <2>3. task' = [task EXCEPT ![t] = k]
    BY <2>1, <2>2
  <2>4. task[t].st = "run"
    BY <1>2 DEF Send
  <2>5. k.st # "unused" /\ k.peer = task[t].peer
    <3>1. CASE o \in {"connect", "close"} /\ ~Alive(task[t].peer)
      <4>1. k = [task[t] EXCEPT !.step = 3]
        BY <2>2, <3>1
      <4>. QED BY <1>1, <2>4, <4>1 DEF TaskStates
    <3>2. CASE ~(o \in {"connect", "close"} /\ ~Alive(task[t].peer))
      <4>1. PICK z : z = IF o \in {"lookup", "register"} THEN n ELSE task[t].name
        OBVIOUS
      <4>2. k = [task[t] EXCEPT !.st = "call", !.op = o, !.name = z]
        BY <2>2, <3>2, <4>1, Zenon
      <4>. QED BY <1>1, <4>2 DEF TaskStates
    <3>. QED BY <3>1, <3>2
  <2>. QED BY <1>1, <2>3, <2>5, OneMoves
<1>3. CASE RecvNotification(t)
  <2>1. PICK k : k = [task[t] EXCEPT !.st = "call", !.op = "pull"]
    OBVIOUS
  <2>2. task' = [task EXCEPT ![t] = k]
    BY <1>1, <1>3, <2>1 DEF RecvNotification
  <2>3. k.st # "unused" /\ k.peer = task[t].peer
    BY <1>1, <2>1 DEF TaskStates
  <2>. QED BY <1>1, <2>2, <2>3, OneMoves
<1>4. CASE RecvRequest(t)
  <2>1. PICK s \in Tids : task' = [task EXCEPT ![s].st = "run", ![s].step = @ + 1]
    BY <1>4 DEF RecvRequest
  <2>2. PICK k : k = [task[s] EXCEPT !.st = "run", !.step = task[s].step + 1]
    OBVIOUS
  <2>3. task' = [task EXCEPT ![s] = k]
    BY <1>1, <2>1, <2>2 DEF TaskStates
  <2>4. k.st # "unused" /\ k.peer = task[s].peer
    BY <1>1, <2>2 DEF TaskStates
  <2>. QED BY <1>1, <2>3, <2>4, OneMoves
<1>. QED BY <1>2, <1>3, <1>4

LEMMA EndsStep ==
    ASSUME VmAssumption, VmInv, NEW t, NEW v, NEW c, NEW k, Ends(t, v, c, k)
    PROVE  AnswerStep /\ AskedStep
<1>1. VmTypes /\ Born /\ t \in Tids /\ v \in Tids /\ task[t].st = "call"
  BY DEF VmInv, Table, Ends
<1>2. Unused.inc = 0 /\ Unused.op = "" /\ Unused.st = "unused"
  BY DEF Unused, Fresh
<1>3. task'[v] = Unused
  BY EndsTasks
<1>4. ASSUME NEW s \in Tids, s # v PROVE task'[s].peer = task[s].peer
  <2>1. CASE s = t
    <3>1. task'[s] = Answered(t)
      BY <1>4, <2>1, EndsTasks
    <3>. QED BY <1>1, <2>1, <3>1, AnsweredIs
  <2>2. CASE s # t /\ Cut(v, s)
    BY <1>4, <2>2, EndsTasks
  <2>3. CASE s # t /\ ~Cut(v, s)
    <3>1. task'[s] = task[s]
      BY <1>4, <2>3, EndsTasks
    <3>. QED BY <3>1
  <2>. QED BY <2>1, <2>2, <2>3
<1>5. ASSUME NEW s \in Tids, s # v PROVE Alive(s)' = Alive(s)
  BY <1>5, EndsOthers
<1>6. AnswerStep
  <2>1. task[v].op = "lookup" => task'[v].inc # task[v].inc
    <3>1. IF Alive(v) THEN task[v].inc # 0 ELSE task[v] = Unused
      BY <1>1 DEF Born
    <3>. QED BY <1>2, <1>3, <3>1
  <2>. QED BY <1>4, <2>1 DEF AnswerStep
<1>7. AskedStep
  <2>1. \/ task[v].st = "call" /\ task[v].op \in {"exit", "fault"}
        \/ \E s \in Tids : Asking(v, s, {"destroy"})
    <3>1. CASE t = v /\ task[t].op \in {"exit", "fault"}
      BY <1>1, <3>1
    <3>2. CASE task[t].op = "destroy" /\ task[t].peer = v
      BY <1>1, <3>2 DEF Asking
    <3>3. (t = v /\ task[t].op \in {"exit", "fault"}) \/ (task[t].op = "destroy" /\ task[t].peer = v)
      BY Zenon DEF Ends
    <3>. QED BY <3>1, <3>2, <3>3
  <2>. QED BY <1>5, <2>1 DEF AskedStep
<1>. QED BY <1>6, <1>7

LEMMA DestroyStep ==
    ASSUME VmAssumption, VmInv, NEW t \in Tids, Exception(t) \/ PageFault(t) \/ DestroyTask(t)
    PROVE  AnswerStep /\ AskedStep
<1>1. CASE Exception(t)
  <2>1. PICK o \in {"exit", "invalid"} : Received(t, o)
    BY <1>1 DEF Exception
  <2>2. /\ VmTypes /\ task[t] \in TaskStates /\ task[t].st = "call" /\ task[t].op = o
        /\ task_find(t) = tasks[t] /\ tasks[t] \in Chunks /\ tasks[t] # 0
        /\ chunk[tasks[t]].used /\ chunk[tasks[t]].tid = t
    BY <2>1, Caller
  <2>3. CASE o = "exit"
    <3>1. task_destroy(tasks[t], [caller |-> t, then |-> Unused]) /\ UNCHANGED <<services, again, born>>
      BY <1>1, <2>2, <2>3, Zenon DEF Exception
    <3>2. Ends(t, t, tasks[t], Unused)
      BY <2>2, <2>3, <3>1, Zenon DEF Ends
    <3>. QED BY <3>2, EndsStep
  <2>4. CASE o = "invalid"
    <3>1. PICK k : k = [task[t] EXCEPT !.st = "exited"]
      OBVIOUS
    <3>2. task' = [task EXCEPT ![t] = k]
      BY <1>1, <2>2, <2>4, <3>1 DEF Exception, VmTypes
    <3>3. k.st # "unused" /\ k.peer = task[t].peer
      BY <2>2, <3>1 DEF TaskStates
    <3>. QED BY <2>2, <3>2, <3>3, OneMoves
  <2>. QED BY <2>3, <2>4
<1>2. CASE PageFault(t)
  <2>1. Received(t, "fault") /\ UNCHANGED <<services, again, born>>
    BY <1>2 DEF PageFault
  <2>2. /\ task[t].st = "call" /\ task[t].op = "fault"
        /\ task_find(t) = tasks[t] /\ tasks[t] \in Chunks /\ tasks[t] # 0
        /\ chunk[tasks[t]].used /\ chunk[tasks[t]].tid = t
    BY <2>1, Caller
  <2>3. task_destroy(tasks[t], [caller |-> t, then |-> Unused])
    BY <1>2, <2>2, Zenon DEF PageFault
  <2>4. Ends(t, t, tasks[t], Unused)
    BY <2>1, <2>2, <2>3, Zenon DEF Ends
  <2>. QED BY <2>4, EndsStep
<1>3. CASE DestroyTask(t)
  <2>1. \/ task' = Answer(t)
        \/ \E v, c, k : Ends(t, v, c, k)
    BY <1>3, DestroyTaskEnds
  <2>2. VmTypes
    BY DEF VmInv, Table
  <2>3. CASE task' = Answer(t)
    <3>1. PICK k : k = Answered(t)
      OBVIOUS
    <3>2. task' = [task EXCEPT ![t] = k] /\ k.st # "unused" /\ k.peer = task[t].peer
      BY <2>2, <2>3, <3>1, AnsweredIs
    <3>. QED BY <2>2, <3>2, OneMoves
  <2>4. CASE \E v, c, k : Ends(t, v, c, k)
    BY <2>4, EndsStep
  <2>. QED BY <2>1, <2>3, <2>4
<1>. QED BY <1>1, <1>2, <1>3

LEMMA HandlersStep ==
    ASSUME VmAssumption, VmInv, NEW t \in Tids, WatchTasks(t) \/ Spawn(t) \/ AsyncReply(t)
    PROVE  AnswerStep /\ AskedStep
<1>1. PICK o \in {"watch", "spawn", "pull"} : Received(t, o)
  BY DEF WatchTasks, Spawn, AsyncReply
<1>2. /\ VmTypes /\ Born /\ Alive(t) /\ task[t] \in TaskStates /\ task[t].op = o /\ task_find(t) = tasks[t] /\ tasks[t] # 0
  BY <1>1, Caller DEF VmInv, Table
<1>3. task \in [Tids -> TaskStates] /\ task[t].op # "lookup"
  BY <1>2 DEF VmTypes
<1>4. /\ Answer(t) = [task EXCEPT ![t] = Answered(t)] /\ Answered(t) \in TaskStates /\ Answered(t).st = "run"
  BY <1>2, AnsweredIs
<1>5. CASE WatchTasks(t)
  <2>1. PICK k : k = Answered(t)
    OBVIOUS
  <2>2. task' = Answer(t)
    BY <1>2, <1>5, Zenon DEF WatchTasks, Checked
  <2>3. task' = [task EXCEPT ![t] = k] /\ k.st # "unused"
    BY <1>4, <2>1, <2>2
  <2>. QED BY <1>2, <1>3, <2>3, OneMoves
<1>6. CASE AsyncReply(t)
  <2>1. CASE Queued(t) = {}
    <3>1. task' = [task EXCEPT ![t].st = "blocked"]
      BY <1>6, <2>1 DEF AsyncReply
    <3>2. PICK k : k = [task[t] EXCEPT !.st = "blocked"]
      OBVIOUS
    <3>3. task' = [task EXCEPT ![t] = k] /\ k.st # "unused"
      BY <1>2, <1>3, <3>1, <3>2 DEF TaskStates
    <3>. QED BY <1>2, <1>3, <3>3, OneMoves
  <2>2. CASE Queued(t) # {}
    <3>1. PICK msg : Handled(t, msg)
      BY <1>6, <2>2, Zenon DEF AsyncReply
    <3>2. task' = [task EXCEPT ![t].st = "run",
                    ![t].step = IF task[t].prog = "shell" /\ msg.ended = task[t].peer THEN 1 ELSE @]
      BY <3>1 DEF Handled
    <3>3. PICK n : n = IF task[t].prog = "shell" /\ msg.ended = task[t].peer THEN 1 ELSE task[t].step
      OBVIOUS
    <3>4. PICK k : k = [task[t] EXCEPT !.st = "run", !.step = n]
      OBVIOUS
    <3>5. task' = [task EXCEPT ![t] = k] /\ k.st # "unused"
      BY <1>2, <1>3, <3>2, <3>3, <3>4 DEF TaskStates
    <3>. QED BY <1>2, <1>3, <3>5, OneMoves
  <2>. QED BY <2>1, <2>2
<1>7. CASE Spawn(t)
  <2>1. PICK prog \in Startable :
        IF ~bootfs_open(prog) \/ alloc_tid = 0
        THEN /\ \E garbage \in Tids : task' = [Answer(t) EXCEPT ![t].peer = garbage]
             /\ UNCHANGED <<tasks, chunk, born>>
        ELSE \E c \in Chunks :
             /\ ~chunk[c].used /\ task_spawn(alloc_tid, c) /\ born' = born + 1
             /\ task' = [Answer(t) EXCEPT ![t].peer = alloc_tid, ![alloc_tid] = Fresh(prog, born')]
    BY <1>7, Zenon DEF Spawn
  <2>2. CASE ~bootfs_open(prog) \/ alloc_tid = 0
    <3>1. PICK p \in Tids : task' = [Answer(t) EXCEPT ![t].peer = p]
      BY <2>1, <2>2
    <3>2. PICK k : k = [Answered(t) EXCEPT !.peer = p]
      OBVIOUS
    <3>3. task' = [task EXCEPT ![t] = k] /\ k.st = "run"
      <4>1. k.st = "run"
        BY <1>4, <3>2 DEF TaskStates
      <4>. QED BY <1>3, <1>4, <3>1, <3>2, <4>1
    <3>. QED BY <1>2, <1>3, <3>3, OneMoves
  <2>3. CASE bootfs_open(prog) /\ alloc_tid # 0
    <3>1. PICK a \in Tids : a = alloc_tid /\ ~Alive(a)
      BY <2>3, AllocTid
    <3>2. PICK f : f = Fresh(prog, born')
      OBVIOUS
    <3>3. task' = [Answer(t) EXCEPT ![t].peer = a, ![a] = f]
      BY <2>1, <2>3, <3>1, <3>2
    <3>4. PICK k : k = [Answered(t) EXCEPT !.peer = a]
      OBVIOUS
    <3>5. k.st = "run" /\ f.st = "run" /\ a # t
      <4>1. f.st = "run"
        BY <3>2 DEF Fresh
      <4>2. k.st = "run"
        BY <1>4, <3>4 DEF TaskStates
      <4>. QED BY <1>2, <3>1, <4>1, <4>2
    <3>6. task' = [[task EXCEPT ![t] = k] EXCEPT ![a] = f]
      BY <1>3, <1>4, <3>3, <3>4
    <3>7. \A s \in Tids : task'[s] = IF s = a THEN f ELSE IF s = t THEN k ELSE task[s]
      BY <1>3, <3>5, <3>6
    <3>8. task[a].op # "lookup"
      BY <1>2, <3>1 DEF Born, Unused, Fresh
    <3>9. AnswerStep
      BY <1>3, <3>7, <3>8 DEF AnswerStep
    <3>10. AskedStep
      BY <3>5, <3>7 DEF AskedStep, Alive
    <3>. QED BY <3>9, <3>10
  <2>. QED BY <2>2, <2>3
<1>. QED BY <1>5, <1>6, <1>7

LEMMA LookupStep ==
    ASSUME VmAssumption, VmInv, NEW t \in Tids, Lookup(t)
    PROVE  AnswerStep /\ AskedStep
<1>1. Received(t, "lookup")
  BY DEF Lookup
<1>2. /\ VmTypes /\ task[t] \in TaskStates /\ task_find(t) = tasks[t] /\ tasks[t] # 0
  BY <1>1, Caller
<1>3. task \in [Tids -> TaskStates]
  BY <1>2 DEF VmTypes
<1>4. PICK name : name = task[t].name
  OBVIOUS
<1>5. CASE Named(name) # {}
  <2>1. PICK i : i = Min(Named(name))
    OBVIOUS
  <2>2. i \in 1 .. Len(services) /\ services[i].name = name
    <3>1. Named(name) \in SUBSET Nat
      BY DEF Named
    <3>2. i \in Named(name)
      BY <1>5, <2>1, <3>1, MinIsLeast
    <3>. QED BY <3>2 DEF Named
  <2>3. PICK p : p = services[i].task
    OBVIOUS
  <2>4. task' = [Answer(t) EXCEPT ![t].peer = p] /\ services' = services
    BY <1>2, <1>4, <1>5, <2>1, <2>3 DEF Lookup, Checked
  <2>5. PICK k : k = [Answered(t) EXCEPT !.peer = p]
    OBVIOUS
  <2>6. Answer(t) = [task EXCEPT ![t] = Answered(t)] /\ Answered(t) \in TaskStates /\ Answered(t).st = "run"
    BY <1>2, AnsweredIs
  <2>7. k.st = "run" /\ k.peer = p
    BY <2>5, <2>6 DEF TaskStates
  <2>8. task' = [task EXCEPT ![t] = k]
    BY <1>3, <2>4, <2>5, <2>6
  <2>9. \A s \in Tids : task'[s] = IF s = t THEN k ELSE task[s]
    BY <1>3, <2>8
  <2>10. AnswerStep
    BY <1>4, <2>2, <2>3, <2>4, <2>7, <2>9 DEF AnswerStep
  <2>11. AskedStep
    BY <2>7, <2>9 DEF AskedStep, Alive
  <2>. QED BY <2>10, <2>11
<1>6. CASE Named(name) = {}
  <2>1. PICK k : k = [task[t] EXCEPT !.st = "blocked"]
    OBVIOUS
  <2>2. task' = [task EXCEPT ![t].st = "blocked"]
    BY <1>2, <1>4, <1>6 DEF Lookup, Checked
  <2>3. task' = [task EXCEPT ![t] = k]
    BY <1>3, <2>1, <2>2
  <2>4. k.st # "unused" /\ k.peer = task[t].peer
    BY <1>2, <2>1 DEF TaskStates
  <2>. QED BY <1>2, <2>3, <2>4, OneMoves
<1>. QED BY <1>5, <1>6

LEMMA RegisterStep ==
    ASSUME VmAssumption, VmInv, NEW t \in Tids, Register(t)
    PROVE  AnswerStep /\ AskedStep
<1>1. Received(t, "register")
  BY DEF Register
<1>2. /\ VmTypes /\ task[t] \in TaskStates /\ Program(task[t]) /\ task[t].st = "call" /\ task[t].op = "register"
      /\ task_find(t) = tasks[t] /\ tasks[t] # 0
  BY <1>1, Caller
<1>3. WaitsRight /\ task \in [Tids -> TaskStates] /\ tasks \in [Tids -> Chunks \cup {0}]
  BY <1>2 DEF VmInv, Table, VmTypes
<1>4. PICK name \in Names : name = task[t].name
  BY <1>2 DEF Program
<1>5. name # ""
  BY VmConstants
<1>6. PICK told : told = {chunk[c].tid : c \in Waiters(name)}
  OBVIOUS
<1>7. PICK sv : sv = [name |-> name, task |-> t]
  OBVIOUS
<1>8. /\ services' = Append(services, sv)
      /\ task' = [s \in Tids |->
           IF s = t THEN Answer(t)[t]
           ELSE IF s \in told /\ task[s].st = "blocked"
           THEN [Answer(s)[s] EXCEPT !.peer = t] ELSE task[s]]
  <2>1. service_register(t, name)
    BY <1>2, <1>4 DEF Register, Checked
  <2>. QED BY <1>6, <1>7, <2>1 DEF service_register
<1>9. \E i \in 1 .. Len(services') : services'[i].name = name /\ services'[i].task = t
  <2>1. services \in Seq(Service) /\ sv.name = name /\ sv.task = t
    BY <1>2, <1>7 DEF VmTypes
  <2>2. sv \in Service
    BY <1>4, <1>7 DEF Service
  <2>3. Len(services') = Len(services) + 1 /\ services'[Len(services) + 1] = sv /\ Len(services) \in Nat
    BY <1>8, <2>1, <2>2
  <2>4. Len(services) + 1 \in 1 .. Len(services')
    BY <2>3
  <2>. QED BY <2>1, <2>3, <2>4
<1>10. ASSUME NEW s \in Tids
       PROVE  /\ Answer(s)[s] = Answered(s) /\ Answered(s) \in TaskStates /\ Answered(s).st = "run"
              /\ Answered(s).peer = task[s].peer
  BY <1>2, AnsweredIs
<1>11. ASSUME NEW s \in Tids, s \in told, task[s].st = "blocked" PROVE task[s].name = name
  <2>1. PICK c \in Waiters(name) : chunk[c].tid = s
    BY <1>6, <1>11
  <2>2. c \in Chunks /\ chunk[c].waiting_for = name
    BY <1>3, <2>1 DEF Waiters
  <2>. QED BY <1>3, <1>5, <1>11, <2>1, <2>2 DEF WaitsRight, Alive
<1>12. ASSUME NEW s \in Tids
       PROVE  /\ task'[s].st # "unused" \/ task'[s] = task[s]
              /\ task'[s].peer = task[s].peer \/ (task'[s].peer = t /\ task[s].name = name)
  <2>1. CASE s = t
    <3>1. task'[s] = Answered(s)
      BY <1>8, <1>10, <2>1
    <3>. QED BY <1>10, <3>1
  <2>2. CASE s # t /\ s \in told /\ task[s].st = "blocked"
    <3>1. task'[s] = [Answered(s) EXCEPT !.peer = t]
      BY <1>8, <1>10, <2>2
    <3>2. task'[s].st = "run" /\ task'[s].peer = t
      BY <1>10, <3>1 DEF TaskStates
    <3>. QED BY <1>11, <2>2, <3>2
  <2>3. CASE s # t /\ ~(s \in told /\ task[s].st = "blocked")
    BY <1>8, <2>3
  <2>. QED BY <2>1, <2>2, <2>3
<1>13. AnswerStep
  BY <1>9, <1>12 DEF AnswerStep
<1>14. AskedStep
  BY <1>12 DEF AskedStep, Alive
<1>. QED BY <1>13, <1>14

\* servers/vm/main.c: in every step a lookup is answered with a task that has registered the name,
\* and a task ends because it exits or faults or because its end is asked for.
THEOREM StepSays ==
    ASSUME VmAssumption, VmInv, [Next]_vars
    PROVE  AnswerStep /\ AskedStep
<1>1. ASSUME task' = task PROVE AnswerStep /\ AskedStep
  BY <1>1 DEF AnswerStep, AskedStep, Alive
<1>2. Renotify => task' = task
  BY DEF Renotify
<1>3. UNCHANGED vars => task' = task
  BY DEF vars
<1>4. ASSUME NEW t \in Tids, Send(t) \/ RecvNotification(t) \/ RecvRequest(t) PROVE AnswerStep /\ AskedStep
  BY <1>4, TasksStep
<1>5. ASSUME NEW t \in Tids, WatchTasks(t) \/ Register(t) \/ Lookup(t) \/ Spawn(t) PROVE AnswerStep /\ AskedStep
  BY <1>5, HandlersStep, RegisterStep, LookupStep
<1>6. ASSUME NEW t \in Tids, Exception(t) \/ PageFault(t) \/ DestroyTask(t) \/ AsyncReply(t) PROVE AnswerStep /\ AskedStep
  BY <1>6, DestroyStep, HandlersStep
<1>. QED BY <1>1, <1>2, <1>3, <1>4, <1>5, <1>6, Zenon DEF Next
=============================================================================
