---------------------------- MODULE KernelProofs ----------------------------
(***************************************************************************)
(* Theorems about Kernel, for any number of task slots and CPUs, any       *)
(* quantum and any set of callers.  The first part is about the scheduler, *)
(* the queues and the lock, one action at a time.  The second part is what *)
(* the kernel promises the tasks that exchange messages: it sorts the      *)
(* steps of the kernel into a dozen kinds, by what they do to the state of *)
(* message passing; a property is then shown to survive each kind.         *)
(***************************************************************************)
EXTENDS Kernel, Lists, SequenceTheorems, FiniteSetTheorems, WellFoundedInduction, TLAPS

-----------------------------------------------------------------------------
(* What append, pop, remove and concatenation do to the members of a list. *)

\* list_push_back adds one member, and keeps members distinct if it is new.
LEMMA AppendList ==
    ASSUME NEW S, NEW s \in Seq(S), NEW x \in S
    PROVE  /\ Append(s, x) \in Seq(S)
           /\ Range(Append(s, x)) = Range(s) \cup {x}
           /\ IsInjective(s) /\ x \notin Range(s) => IsInjective(Append(s, x))
<1>1. Append(s, x) \in Seq(S) /\ Len(Append(s, x)) = Len(s) + 1
  OBVIOUS
<1>2. \A i \in 1 .. Len(s) : Append(s, x)[i] = s[i]
  OBVIOUS
<1>3. Append(s, x)[Len(s) + 1] = x
  OBVIOUS
<1>4. DOMAIN s = 1 .. Len(s) /\ DOMAIN Append(s, x) = 1 .. Len(s) + 1 /\ Len(s) \in Nat
  BY <1>1, LenProperties
<1>5. Range(Append(s, x)) = Range(s) \cup {x}
  <2>1. Range(Append(s, x)) \subseteq Range(s) \cup {x}
    BY <1>2, <1>3, <1>4 DEF Range
  <2>2. Range(s) \subseteq Range(Append(s, x))
    <3>1. SUFFICES ASSUME NEW i \in 1 .. Len(s) PROVE s[i] \in Range(Append(s, x))
      BY <1>4 DEF Range
    <3>2. i \in 1 .. Len(s) + 1 /\ Append(s, x)[i] = s[i]
      BY <1>2, <1>4
    <3>. QED BY <3>2, <1>4 DEF Range
  <2>3. x \in Range(Append(s, x))
    <3>1. Len(s) + 1 \in 1 .. Len(s) + 1
      BY <1>4
    <3>. QED BY <3>1, <1>3, <1>4 DEF Range
  <2>. QED BY <2>1, <2>2, <2>3
<1>6. ASSUME IsInjective(s), x \notin Range(s) PROVE IsInjective(Append(s, x))
  BY <1>2, <1>3, <1>4, <1>6 DEF Range, IsInjective
<1>. QED BY <1>1, <1>5, <1>6

\* list_pop_front removes one member, the first.
LEMMA PopList ==
    ASSUME NEW S, NEW s \in Seq(S), s # <<>>
    PROVE  /\ Head(s) \in S /\ Tail(s) \in Seq(S)
           /\ Range(s) = {Head(s)} \cup Range(Tail(s))
           /\ IsInjective(s) => IsInjective(Tail(s)) /\ Head(s) \notin Range(Tail(s))
<1>1. /\ Head(s) \in S /\ Tail(s) \in Seq(S) /\ Len(Tail(s)) = Len(s) - 1
      /\ \A i \in 1 .. Len(Tail(s)) : Tail(s)[i] = s[i + 1]
  BY HeadTailProperties
<1>2. DOMAIN s = 1 .. Len(s) /\ DOMAIN Tail(s) = 1 .. Len(s) - 1 /\ Len(s) \in Nat \ {0}
  BY <1>1, LenProperties, EmptySeq
<1>3. Head(s) = s[1]
  OBVIOUS
<1>4. Range(s) = {Head(s)} \cup Range(Tail(s))
  <2>1. Range(Tail(s)) \subseteq Range(s)
    <3>1. SUFFICES ASSUME NEW i \in 1 .. Len(s) - 1 PROVE Tail(s)[i] \in Range(s)
      BY <1>2 DEF Range
    <3>2. i + 1 \in 1 .. Len(s) /\ Tail(s)[i] = s[i + 1]
      BY <1>1, <1>2
    <3>. QED BY <3>2, <1>2 DEF Range
  <2>2. Head(s) \in Range(s)
    <3>1. 1 \in 1 .. Len(s)
      BY <1>2
    <3>. QED BY <3>1, <1>2, <1>3 DEF Range
  <2>3. ASSUME NEW i \in 1 .. Len(s) PROVE s[i] \in {Head(s)} \cup Range(Tail(s))
    <3>1. CASE i = 1
      BY <3>1, <1>3
    <3>2. CASE i # 1
      <4>1. i - 1 \in 1 .. Len(s) - 1 /\ Tail(s)[i - 1] = s[i]
        BY <3>2, <1>1, <1>2
      <4>. QED BY <4>1, <1>2 DEF Range
    <3>. QED BY <3>1, <3>2
  <2>. QED BY <2>1, <2>2, <2>3, <1>2 DEF Range
<1>5. ASSUME IsInjective(s) PROVE IsInjective(Tail(s)) /\ Head(s) \notin Range(Tail(s))
  BY <1>1, <1>2, <1>3, <1>5 DEF Range, IsInjective
<1>. QED BY <1>1, <1>4, <1>5

\* Two lists without common members, one after the other.
LEMMA ConcatList ==
    ASSUME NEW S, NEW s \in Seq(S), NEW r \in Seq(S)
    PROVE  /\ s \o r \in Seq(S)
           /\ Range(s \o r) = Range(s) \cup Range(r)
           /\ IsInjective(s) /\ IsInjective(r) /\ Range(s) \cap Range(r) = {} => IsInjective(s \o r)
<1>1. /\ s \o r \in Seq(S) /\ Len(s \o r) = Len(s) + Len(r)
      /\ \A i \in 1 .. Len(s) + Len(r) :
            (s \o r)[i] = IF i <= Len(s) THEN s[i] ELSE r[i - Len(s)]
  BY ConcatProperties
<1>2. /\ DOMAIN s = 1 .. Len(s) /\ DOMAIN r = 1 .. Len(r) /\ DOMAIN (s \o r) = 1 .. Len(s) + Len(r)
      /\ Len(s) \in Nat /\ Len(r) \in Nat
  BY <1>1, LenProperties
<1>3. ASSUME NEW i \in 1 .. Len(s) + Len(r)
      PROVE  \/ i \in DOMAIN s /\ (s \o r)[i] = s[i]
             \/ i - Len(s) \in DOMAIN r /\ (s \o r)[i] = r[i - Len(s)] /\ i > Len(s)
  BY <1>1, <1>2
<1>4. ASSUME NEW i \in DOMAIN s PROVE s[i] \in Range(s \o r)
  <2>1. i \in DOMAIN (s \o r) /\ (s \o r)[i] = s[i]
    BY <1>1, <1>2
  <2>. QED BY <2>1 DEF Range
<1>5. ASSUME NEW i \in DOMAIN r PROVE r[i] \in Range(s \o r)
  <2>1. i + Len(s) \in DOMAIN (s \o r) /\ (s \o r)[i + Len(s)] = r[i]
    BY <1>1, <1>2
  <2>. QED BY <2>1 DEF Range
<1>6. Range(s \o r) = Range(s) \cup Range(r)
  <2>1. Range(s \o r) \subseteq Range(s) \cup Range(r)
    BY <1>2, <1>3 DEF Range
  <2>. QED BY <2>1, <1>4, <1>5 DEF Range
<1>7. ASSUME IsInjective(s), IsInjective(r), Range(s) \cap Range(r) = {}
      PROVE  IsInjective(s \o r)
  <2>1. SUFFICES ASSUME NEW i \in 1 .. Len(s) + Len(r), NEW j \in 1 .. Len(s) + Len(r),
                        (s \o r)[i] = (s \o r)[j]
                 PROVE  i = j
    BY <1>2 DEF IsInjective
  <2>2. ASSUME NEW a \in DOMAIN s, NEW b \in DOMAIN r PROVE s[a] # r[b]
    BY <1>7 DEF Range
  <2>. QED BY <2>1, <2>2, <1>2, <1>3, <1>7, SMTT(30) DEF IsInjective
<1>. QED BY <1>1, <1>6, <1>7

\* list_remove takes the element out, and nothing else, of a list that holds it once.
LEMMA RemoveList ==
    ASSUME NEW S, NEW s \in Seq(S), NEW x
    PROVE  /\ Without(s, x) \in Seq(S)
           /\ Range(Without(s, x)) \subseteq Range(s)
           /\ IsInjective(s) => IsInjective(Without(s, x)) /\ Range(Without(s, x)) = Range(s) \ {x}
<1>1. CASE x \notin Range(s)
  BY <1>1 DEF Without
<1>2. CASE x \in Range(s)
  <2>. DEFINE i == CHOOSE j \in DOMAIN s : s[j] = x
              a == SubSeq(s, 1, i - 1)
              b == SubSeq(s, i + 1, Len(s))
  <2>1. i \in DOMAIN s /\ s[i] = x
    BY <1>2 DEF Range
  <2>2. DOMAIN s = 1 .. Len(s) /\ Len(s) \in Nat /\ i \in 1 .. Len(s)
    BY <2>1, LenProperties
  <2>. HIDE DEF i
  <2>3. \A j \in 1 .. Len(s) : s[j] \in S
    BY ElementOfSeq
  <2>4. /\ a \in Seq(S) /\ Len(a) = i - 1
        /\ \A j \in 1 .. i - 1 : a[j] = s[j]
    <3>1. \A j \in 1 .. i - 1 : s[j] \in S
      BY <2>2, <2>3
    <3>2. 1 \in Int /\ i - 1 \in Int
      BY <2>2
    <3>3. /\ a \in Seq(S) /\ Len(a) = (IF 1 <= i - 1 THEN (i - 1) - 1 + 1 ELSE 0)
          /\ \A j \in 1 .. (i - 1) - 1 + 1 : a[j] = s[1 + j - 1]
      BY <3>1, <3>2, SubSeqProperties
    <3>. QED BY <3>3, <2>2
  <2>5. /\ b \in Seq(S) /\ Len(b) = Len(s) - i
        /\ \A j \in 1 .. Len(s) - i : b[j] = s[i + j]
    <3>1. \A j \in i + 1 .. Len(s) : s[j] \in S
      BY <2>2, <2>3
    <3>2. i + 1 \in Int /\ Len(s) \in Int
      BY <2>2
    <3>3. /\ b \in Seq(S) /\ Len(b) = (IF i + 1 <= Len(s) THEN Len(s) - (i + 1) + 1 ELSE 0)
          /\ \A j \in 1 .. Len(s) - (i + 1) + 1 : b[j] = s[(i + 1) + j - 1]
      BY <3>1, <3>2, SubSeqProperties
    <3>. HIDE DEF b
    <3>4. Len(b) = Len(s) - i
      <4>1. CASE i = Len(s)
        BY <3>3, <4>1, <2>2
      <4>2. CASE i < Len(s)
        <5>1. i + 1 <= Len(s) /\ Len(s) - (i + 1) + 1 = Len(s) - i
          BY <4>2, <2>2
        <5>. QED BY <3>3, <5>1
      <4>3. i = Len(s) \/ i < Len(s)
        <5>1. Len(s) \in Nat /\ i \in 1 .. Len(s)
          BY <2>2
        <5>2. \A n \in Nat : \A j \in 1 .. n : j = n \/ j < n
          OBVIOUS
        <5>. QED BY <5>1, <5>2
      <4>. QED BY <4>1, <4>2, <4>3
    <3>5. ASSUME NEW j \in 1 .. Len(s) - i PROVE b[j] = s[i + j]
      <4>1. j \in 1 .. Len(s) - (i + 1) + 1 /\ (i + 1) + j - 1 = i + j
        BY <2>2
      <4>. QED BY <3>3, <4>1
    <3>. QED BY <3>3, <3>4, <3>5
  <2>6. Without(s, x) = a \o b
    BY <1>2 DEF Without, i
  <2>7. /\ a \o b \in Seq(S) /\ Range(a \o b) = Range(a) \cup Range(b)
        /\ IsInjective(a) /\ IsInjective(b) /\ Range(a) \cap Range(b) = {} => IsInjective(a \o b)
    BY <2>4, <2>5, ConcatList, ZenonT(40)
  <2>8. DOMAIN a = 1 .. i - 1 /\ DOMAIN b = 1 .. Len(s) - i
    BY <2>4, <2>5, LenProperties
  <2>. HIDE DEF a, b
  <2>9. ASSUME NEW j \in DOMAIN a PROVE a[j] = s[j] /\ j \in DOMAIN s /\ j < i
    BY <2>2, <2>4, <2>8
  <2>10. ASSUME NEW j \in DOMAIN b PROVE b[j] = s[i + j] /\ i + j \in DOMAIN s /\ i + j > i
    BY <2>2, <2>5, <2>8
  <2>11. Range(a \o b) \subseteq Range(s)
    BY <2>7, <2>9, <2>10 DEF Range
  <2>12. ASSUME IsInjective(s) PROVE IsInjective(a) /\ IsInjective(b) /\ Range(a) \cap Range(b) = {}
    <3>1. IsInjective(a)
      BY <2>9, <2>12 DEF IsInjective
    <3>2. IsInjective(b)
      BY <2>2, <2>8, <2>10, <2>12 DEF IsInjective
    <3>3. ASSUME NEW j \in DOMAIN a, NEW k \in DOMAIN b PROVE a[j] # b[k]
      BY <2>2, <2>8, <2>9, <2>10, <2>12 DEF IsInjective
    <3>. QED BY <3>1, <3>2, <3>3 DEF Range
  <2>13. ASSUME IsInjective(s) PROVE Range(a \o b) = Range(s) \ {x}
    <3>1. ASSUME NEW j \in DOMAIN s, j # i PROVE s[j] \in Range(a) \cup Range(b)
      <4>1. CASE j < i
        <5>1. j \in DOMAIN a /\ a[j] = s[j]
          BY <4>1, <2>2, <2>4, <2>8
        <5>. QED BY <5>1 DEF Range
      <4>2. CASE j > i
        <5>1. j - i \in DOMAIN b /\ b[j - i] = s[j]
          BY <4>2, <2>2, <2>5, <2>8
        <5>. QED BY <5>1 DEF Range
      <4>. QED BY <3>1, <4>1, <4>2, <2>2
    <3>2. x \notin Range(a)
      BY <2>1, <2>2, <2>8, <2>9, <2>13 DEF Range, IsInjective
    <3>3. x \notin Range(b)
      BY <2>1, <2>2, <2>8, <2>10, <2>13 DEF Range, IsInjective
    <3>. QED BY <3>1, <3>2, <3>3, <2>1, <2>7, <2>11 DEF Range
  <2>. QED BY <2>6, <2>7, <2>11, <2>12, <2>13
<1>. QED BY <1>1, <1>2

-----------------------------------------------------------------------------
(* The kernel.                                                             *)

\* The domains of the task IDs and CPUs, as numbers.
LEMMA Numbers ==
    /\ VM \in Tasks /\ NULL \notin Tasks /\ Idle \notin Tasks
    /\ IPC_ANY \notin Tasks /\ IPC_DENY \notin Tasks /\ NoCpu \notin CPUs
    /\ Tasks \subseteq Nat \ {0} /\ CPUs \subseteq Nat
  BY SizesAssumption DEF VM, NULL, Idle, IPC_ANY, IPC_DENY, NoCpu, Tasks, CPUs

-----------------------------------------------------------------------------
(* The scheduler.                                                          *)

\* RunnableOnce for the states st and the run queue rq, except that the task
\* running on a CPU of X may have blocked.
Scheduled(st, rq, X) ==
    /\ IsInjective(rq)
    /\ \A t \in Range(rq) : st[t] = "RUNNABLE" /\ t \notin Range(current)
    /\ \A c, d \in CPUs : current[c] = current[d] /\ current[c] # Idle => c = d
    /\ \A c \in CPUs \ X : current[c] # Idle => st[current[c]] = "RUNNABLE"
    /\ \A t \in Tasks : st[t] = "RUNNABLE" => t \in Range(rq) \cup Range(current)

\* task_switch keeps its variables in their types.
LEMMA SwitchTypes ==
    ASSUME TypeOK, NEW c \in CPUs,
           NEW st \in [Tasks -> States], NEW rq \in Seq(Tasks), NEW p \in [Tasks -> Places],
           task_switch(c, st, rq, p)
    PROVE  /\ state' \in [Tasks -> States] /\ runqueue' \in Seq(Tasks)
           /\ current' \in [CPUs -> Tasks \cup {Idle}] /\ quantum' \in [CPUs -> 0 .. TASK_QUANTUM]
           /\ pc' \in [Tasks -> Places] /\ lock' \in CPUs \cup {NoCpu}
<1>. DEFINE next == scheduler(c, st, rq)
            rest == IF rq # <<>> THEN Tail(rq) ELSE rq
<1>1. next \in Tasks \cup {Idle} /\ rest \in Seq(Tasks)
  BY PopList DEF scheduler, TypeOK
<1>2. current[c] \in Tasks \cup {Idle}
  BY DEF TypeOK
<1>3. TASK_QUANTUM \in 0 .. TASK_QUANTUM /\ 0 \in 0 .. TASK_QUANTUM
  BY SizesAssumption
<1>4. runqueue' \in {rest, Append(rest, current[c])} /\ (runqueue' # rest => current[c] # Idle)
  BY DEF task_switch
<1>5. runqueue' \in Seq(Tasks)
  BY <1>1, <1>2, <1>4, AppendList
<1>6. /\ state' = st /\ pc' = p /\ current' = [current EXCEPT ![c] = next]
      /\ quantum' = [quantum EXCEPT ![c] = IF next = Idle THEN 0 ELSE TASK_QUANTUM]
      /\ lock' \in {c, NoCpu}
  BY DEF task_switch
<1>. HIDE DEF next
<1>. QED BY <1>1, <1>3, <1>5, <1>6 DEF TypeOK

\* task_switch loses no runnable task and runs none twice.
LEMMA SwitchSchedules ==
    ASSUME TypeOK, NEW c \in CPUs,
           NEW st \in [Tasks -> States], NEW rq \in Seq(Tasks), NEW p \in [Tasks -> Places],
           Scheduled(st, rq, {c}), task_switch(c, st, rq, p)
    PROVE  RunnableOnce'
<1>. DEFINE next == scheduler(c, st, rq)
            rest == IF rq # <<>> THEN Tail(rq) ELSE rq
            prev == current[c]
<1>1. /\ rest \in Seq(Tasks) /\ IsInjective(rest) /\ Range(rest) \subseteq Range(rq)
      /\ rq # <<>> => Range(rq) = {next} \cup Range(rest) /\ next \notin Range(rest) /\ next \in Tasks
      /\ rq = <<>> => Range(rq) = {}
  <2>1. CASE rq # <<>>
    BY <2>1, PopList DEF scheduler, Scheduled
  <2>2. CASE rq = <<>>
    <3>1. Range(rq) = {}
      BY <2>2 DEF Range
    <3>. QED BY <2>2, <3>1 DEF Scheduled
  <2>. QED BY <2>1, <2>2
<1>2. /\ current \in [CPUs -> Tasks \cup {Idle}] /\ prev \in Tasks \cup {Idle}
      /\ Idle \notin Tasks
  BY Numbers DEF TypeOK
<1>3. /\ state' = st /\ current' = [current EXCEPT ![c] = next]
      /\ runqueue' = IF next # prev /\ prev # Idle /\ st[prev] = "RUNNABLE"
                     THEN Append(rest, prev) ELSE rest
  BY DEF task_switch
<1>4. /\ \A t \in Range(rq) : st[t] = "RUNNABLE" /\ t \notin Range(current)
      /\ \A a, b \in CPUs : current[a] = current[b] /\ current[a] # Idle => a = b
      /\ \A a \in CPUs \ {c} : current[a] # Idle => st[current[a]] = "RUNNABLE"
      /\ \A t \in Tasks : st[t] = "RUNNABLE" => t \in Range(rq) \cup Range(current)
  BY DEF Scheduled
<1>5. rq = <<>> => next = Idle \/ (next = prev /\ st[prev] = "RUNNABLE")
  BY DEF scheduler
<1>6. next \in Tasks \cup {Idle}
  BY <1>1, <1>2, <1>5
<1>7. prev \in Range(current) /\ \A a \in CPUs : current[a] \in Range(current)
  BY <1>2 DEF Range
<1>. HIDE DEF next, rest
<1>8. /\ Range(current') = {next} \cup {current[a] : a \in CPUs \ {c}}
      /\ Range(current) = {prev} \cup {current[a] : a \in CPUs \ {c}}
  BY <1>2, <1>3 DEF Range
<1>9. /\ IsInjective(runqueue')
      /\ Range(runqueue') = Range(rest) \cup
            (IF next # prev /\ prev # Idle /\ st[prev] = "RUNNABLE" THEN {prev} ELSE {})
  BY <1>1, <1>2, <1>3, <1>4, <1>7, AppendList
<1>10. \A t \in Range(runqueue') : st[t] = "RUNNABLE" /\ t \notin Range(current')
  <2>1. ASSUME NEW t \in Range(rest) PROVE st[t] = "RUNNABLE" /\ t \notin Range(current')
    <3>1. t \in Range(rq) /\ st[t] = "RUNNABLE" /\ t \notin Range(current)
      BY <1>1, <1>4
    <3>2. t # next
      BY <3>1, <1>1, <1>5, <1>7, <2>1
    <3>. QED BY <3>1, <3>2, <1>8
  <2>2. ASSUME next # prev, prev # Idle, st[prev] = "RUNNABLE" PROVE prev \notin Range(current')
    BY <2>2, <1>4, <1>8
  <2>. QED BY <2>1, <2>2, <1>9
<1>11. \A a, b \in CPUs : current'[a] = current'[b] /\ current'[a] # Idle => a = b
  <2>1. ASSUME NEW a \in CPUs, a # c, next # Idle PROVE current[a] # next
    <3>1. CASE rq # <<>>
      BY <3>1, <1>1, <1>4, <1>7
    <3>2. CASE rq = <<>>
      BY <3>2, <2>1, <1>4, <1>5
    <3>. QED BY <3>1, <3>2
  <2>. QED BY <2>1, <1>2, <1>3, <1>4
<1>12. ASSUME NEW t \in Tasks PROVE t \in Range(current') => st[t] = "RUNNABLE"
  <2>1. next # Idle => st[next] = "RUNNABLE"
    BY <1>1, <1>4, <1>5
  <2>. QED BY <2>1, <1>2, <1>4, <1>8
<1>13. ASSUME NEW t \in Tasks, st[t] = "RUNNABLE" PROVE t \in Range(runqueue') \cup Range(current')
  BY <1>13, <1>1, <1>2, <1>4, <1>8, <1>9
<1>. QED BY <1>3, <1>9, <1>10, <1>11, <1>12, <1>13 DEF RunnableOnce

\* task_switch hands the lock to the next task's kernel continuation, if it has
\* one, and leaves the previous task where a task may wait.
LEMMA SwitchLocks ==
    ASSUME TypeOK, KernelLocked, NEW c \in CPUs,
           NEW st, NEW rq, NEW p \in [Tasks -> Places],
           \A a, b \in CPUs : current[a] = current[b] /\ current[a] # Idle => a = b,
           lock \in {c, NoCpu},
           \A t \in Tasks : t # current[c] => p[t] = pc[t],
           current[c] # Idle => p[current[c]] \in {"user"} \cup Waits,
           task_switch(c, st, rq, p)
    PROVE  KernelLocked'
<1>. DEFINE next == scheduler(c, st, rq)
<1>1. /\ current' = [current EXCEPT ![c] = next] /\ pc' = p
      /\ lock' = IF next # Idle /\ p[next] # "user" THEN c ELSE NoCpu
  BY DEF task_switch
<1>2. current \in [CPUs -> Tasks \cup {Idle}]
  BY DEF TypeOK
<1>. HIDE DEF next
<1>3. ASSUME NEW a \in CPUs, current'[a] # Idle
      PROVE  p[current'[a]] \in {"user"} \cup Spins \/ lock' = a
  <2>1. CASE a = c
    BY <2>1, <1>1, <1>2, <1>3
  <2>2. CASE a # c
    <3>1. current'[a] = current[a] /\ lock # a /\ current[a] \in Tasks /\ current[a] # current[c]
      BY <2>2, <1>1, <1>2, <1>3, Numbers
    <3>2. p[current[a]] = pc[current[a]] /\ pc[current[a]] \in {"user"} \cup Spins
      BY <3>1, <1>3 DEF KernelLocked
    <3>. QED BY <3>1, <3>2
  <2>. QED BY <2>1, <2>2
<1>4. ASSUME NEW t \in Tasks, t \notin Range(current') PROVE p[t] \in {"user"} \cup Waits
  <2>1. CASE t = current[c]
    BY <2>1, Numbers
  <2>2. CASE t # current[c]
    <3>1. t \notin Range(current)
      BY <2>2, <1>1, <1>2, <1>4 DEF Range
    <3>. QED BY <3>1, <2>2 DEF KernelLocked
  <2>. QED BY <2>1, <2>2
<1>. QED BY <1>1, <1>3, <1>4 DEF KernelLocked

-----------------------------------------------------------------------------
(* Resuming tasks.                                                         *)

\* RunnableOnce is Scheduled with no exception.
LEMMA RunnableScheduled ==
    ASSUME TypeOK, RunnableOnce
    PROVE  Scheduled(state, runqueue, {})
<1>1. \A c \in CPUs : current[c] # Idle => current[c] \in Tasks /\ current[c] \in Range(current)
  BY DEF TypeOK, Range
<1>. QED BY <1>1 DEF RunnableOnce, Scheduled

\* And the converse, for a step that leaves the CPUs alone.
LEMMA ScheduledRunnable ==
    ASSUME TypeOK, Scheduled(state', runqueue', {}), UNCHANGED current
    PROVE  RunnableOnce'
<1>1. current \in [CPUs -> Tasks \cup {Idle}]
  BY DEF TypeOK
<1>2. \A t \in Tasks : t \in Range(current) => \E c \in CPUs : current[c] = t /\ t # Idle
  BY <1>1, Numbers DEF Range
<1>. QED BY <1>2 DEF RunnableOnce, Scheduled

\* task_resume of a task that was blocked, or that has just been created.
LEMMA ResumeOne ==
    ASSUME TypeOK, RunnableOnce, NEW w \in Tasks, state[w] # "RUNNABLE"
    PROVE  /\ [state EXCEPT ![w] = "RUNNABLE"] \in [Tasks -> States]
           /\ Append(runqueue, w) \in Seq(Tasks)
           /\ Scheduled([state EXCEPT ![w] = "RUNNABLE"], Append(runqueue, w), {})
<1>. DEFINE st == [state EXCEPT ![w] = "RUNNABLE"]
            rq == Append(runqueue, w)
<1>1. /\ state \in [Tasks -> States] /\ runqueue \in Seq(Tasks)
      /\ current \in [CPUs -> Tasks \cup {Idle}]
  BY DEF TypeOK
<1>2. Scheduled(state, runqueue, {})
  BY RunnableScheduled
<1>3. w \notin Range(runqueue) /\ w \notin Range(current)
  BY DEF RunnableOnce
<1>4. /\ rq \in Seq(Tasks) /\ Range(rq) = Range(runqueue) \cup {w} /\ IsInjective(rq)
  BY <1>1, <1>2, <1>3, AppendList DEF Scheduled
<1>5. st \in [Tasks -> States] /\ st[w] = "RUNNABLE" /\ \A t \in Tasks \ {w} : st[t] = state[t]
  BY <1>1 DEF States
<1>6. Range(runqueue) \subseteq Tasks
  BY <1>1, LenProperties DEF Range
<1>. HIDE DEF st, rq
<1>7. Scheduled(st, rq, {})
  BY <1>1, <1>2, <1>3, <1>4, <1>5, <1>6 DEF Scheduled
<1>. QED BY <1>4, <1>5, <1>7 DEF st, rq

\* task_resume of several blocked tasks, in some order.
LEMMA ResumeAll ==
    ASSUME TypeOK, RunnableOnce, NEW q \in Seq(Tasks), IsInjective(q),
           \A w \in Range(q) : state[w] = "BLOCKED"
    PROVE  /\ [t \in Tasks |-> IF t \in Range(q) THEN "RUNNABLE" ELSE state[t]] \in [Tasks -> States]
           /\ runqueue \o q \in Seq(Tasks)
           /\ Scheduled([t \in Tasks |-> IF t \in Range(q) THEN "RUNNABLE" ELSE state[t]],
                        runqueue \o q, {})
<1>. DEFINE st == [t \in Tasks |-> IF t \in Range(q) THEN "RUNNABLE" ELSE state[t]]
            rq == runqueue \o q
<1>1. /\ state \in [Tasks -> States] /\ runqueue \in Seq(Tasks)
      /\ current \in [CPUs -> Tasks \cup {Idle}]
  BY DEF TypeOK
<1>2. Scheduled(state, runqueue, {})
  BY RunnableScheduled
<1>3. Range(runqueue) \subseteq Tasks /\ Range(q) \subseteq Tasks
  BY <1>1, LenProperties DEF Range
<1>4. \A w \in Range(q) : w \notin Range(runqueue) /\ w \notin Range(current)
  BY <1>3 DEF RunnableOnce
<1>5. /\ rq \in Seq(Tasks) /\ Range(rq) = Range(runqueue) \cup Range(q) /\ IsInjective(rq)
  BY <1>1, <1>2, <1>4, ConcatList DEF Scheduled
<1>6. /\ st \in [Tasks -> States]
      /\ \A t \in Tasks : st[t] = IF t \in Range(q) THEN "RUNNABLE" ELSE state[t]
  BY <1>1 DEF States
<1>. HIDE DEF st, rq
<1>7. Scheduled(st, rq, {})
  BY <1>1, <1>2, <1>3, <1>4, <1>5, <1>6 DEF Scheduled
<1>. QED BY <1>5, <1>6, <1>7 DEF st, rq

-----------------------------------------------------------------------------
(* Steps that move the running task through the kernel.                    *)

\* The members of the wait queues are task IDs.
LEMMA QueuedTasks ==
    ASSUME TypeOK
    PROVE  /\ \A d \in Tasks : Range(senders[d]) \subseteq Tasks
           /\ Range(serial_readers) \subseteq Tasks /\ Range(runqueue) \subseteq Tasks
           /\ Range(active_tasks) \subseteq Tasks
<1>1. ASSUME NEW q \in Seq(Tasks) PROVE Range(q) \subseteq Tasks
  BY LenProperties DEF Range
<1>. QED BY <1>1 DEF TypeOK

\* A step that adds nobody to a wait queue and does not touch those who stay.
LEMMA QueuesKept ==
    ASSUME TypeOK, WaitsInOneQueue,
           \A d \in Tasks : IsInjective(senders'[d]) /\ Range(senders'[d]) \subseteq Range(senders[d]),
           IsInjective(serial_readers') /\ Range(serial_readers') \subseteq Range(serial_readers),
           \A s \in Tasks : s \in Range(serial_readers') \/ (\E d \in Tasks : s \in Range(senders'[d])) =>
               /\ state'[s] = state[s] /\ pc'[s] = pc[s] /\ stack'[s] = stack[s]
               /\ pager'[s] = pager[s] /\ wait_for'[s] = wait_for[s]
    PROVE  WaitsInOneQueue'
<1>1. /\ \A d \in Tasks : Range(senders[d]) \subseteq Tasks
      /\ Range(serial_readers) \subseteq Tasks
  BY QueuedTasks
<1>2. ASSUME NEW d \in Tasks, NEW s \in Range(senders'[d])
      PROVE  /\ state'[s] = "BLOCKED" /\ pc'[s] = "sendwait"
             /\ IpcDst(s)' = d /\ wait_for'[s] = IPC_DENY
  <2>1. s \in Tasks /\ s \in Range(senders[d])
    BY <1>1
  <2>2. state[s] = "BLOCKED" /\ pc[s] = "sendwait" /\ IpcDst(s) = d /\ wait_for[s] = IPC_DENY
    BY <2>1 DEF WaitsInOneQueue
  <2>3. /\ state'[s] = state[s] /\ pc'[s] = pc[s] /\ stack'[s] = stack[s]
        /\ pager'[s] = pager[s] /\ wait_for'[s] = wait_for[s]
    BY <2>1, <1>2
  <2>. QED BY <2>2, <2>3 DEF IpcDst
<1>3. ASSUME NEW t \in Range(serial_readers') PROVE state'[t] = "BLOCKED" /\ pc'[t] = "serial"
  <2>1. t \in Tasks /\ t \in Range(serial_readers)
    BY <1>1
  <2>2. state[t] = "BLOCKED" /\ pc[t] = "serial"
    BY <2>1 DEF WaitsInOneQueue
  <2>. QED BY <2>1, <2>2, <1>3
<1>. QED BY <1>2, <1>3 DEF WaitsInOneQueue

\* Task t, running on CPU c, goes on at some place with a frame that fits, and the
\* lock follows: it is free in user mode and while an IPI is awaited.
GoesOn(c, t) ==
    \E p \in Places, f \in Frames :
        /\ Fits(t, p, f)
        /\ pc' = [pc EXCEPT ![t] = p] /\ stack' = [stack EXCEPT ![t] = f]
        /\ \/ lock \in {c, NoCpu} /\ lock' = IF p \in {"user"} \cup Spins THEN NoCpu ELSE c
           \/ p \in Spins /\ lock' = lock

\* The lock and the frames after such a step.
LEMMA GoesOnLocked ==
    ASSUME Inv, NEW c \in CPUs, NEW t \in Tasks, current[c] = t, GoesOn(c, t), UNCHANGED current
    PROVE  /\ KernelLocked' /\ FramesFit'
           /\ pc' \in [Tasks -> Places] /\ stack' \in [Tasks -> Frames] /\ lock' \in CPUs \cup {NoCpu}
           /\ \A s \in Tasks \ {t} : pc'[s] = pc[s] /\ stack'[s] = stack[s]
<1>1. PICK p \in Places, f \in Frames :
        /\ Fits(t, p, f)
        /\ pc' = [pc EXCEPT ![t] = p] /\ stack' = [stack EXCEPT ![t] = f]
        /\ \/ lock \in {c, NoCpu} /\ lock' = IF p \in {"user"} \cup Spins THEN NoCpu ELSE c
           \/ p \in Spins /\ lock' = lock
  BY DEF GoesOn
<1>2. /\ pc \in [Tasks -> Places] /\ stack \in [Tasks -> Frames] /\ lock \in CPUs \cup {NoCpu}
      /\ current \in [CPUs -> Tasks \cup {Idle}]
  BY DEF Inv, TypeOK
<1>3. t \in Range(current)
  BY <1>2 DEF Range
<1>4. KernelLocked'
  <2>1. ASSUME NEW a \in CPUs, current[a] # Idle
        PROVE  pc'[current[a]] \in {"user"} \cup Spins \/ lock' = a
    <3>1. CASE a = c
      BY <3>1, <1>1, <1>2
    <3>2. CASE a # c
      <4>1. current[a] # t /\ current[a] \in Tasks
        BY <3>2, <2>1, <1>2, Numbers DEF Inv, RunnableOnce
      <4>2. pc'[current[a]] = pc[current[a]]
        BY <4>1, <1>1, <1>2
      <4>3. pc[current[a]] \in {"user"} \cup Spins \/ lock = a
        BY <2>1 DEF Inv, KernelLocked
      <4>4. a # NoCpu
        BY Numbers
      <4>. QED BY <4>2, <4>3, <4>4, <3>2, <1>1
    <3>. QED BY <3>1, <3>2
  <2>2. ASSUME NEW s \in Tasks, s \notin Range(current) PROVE pc'[s] \in {"user"} \cup Waits
    BY <2>2, <1>1, <1>2, <1>3 DEF Inv, KernelLocked
  <2>. QED BY <2>1, <2>2 DEF KernelLocked
<1>5. FramesFit'
  BY <1>1, <1>2 DEF Inv, FramesFit, Fits
<1>. QED BY <1>1, <1>2, <1>4, <1>5

\* What such a step preserves, if it changes no other task.
LEMMA ControlStep ==
    ASSUME Inv, NEW c \in CPUs, NEW t \in Tasks, current[c] = t, GoesOn(c, t),
           UNCHANGED <<state, runqueue, current, senders, pager>>,
           UNCHANGED serial_readers,
           wait_for' \in {wait_for, [wait_for EXCEPT ![t] = IPC_DENY]},
           pc[t] = "recvwait" => wait_for' = [wait_for EXCEPT ![t] = IPC_DENY]
    PROVE  /\ RunnableOnce' /\ WaitsInOneQueue' /\ AcceptsOnlyInReceive' /\ KernelLocked'
           /\ HasPager' /\ FreeSlots' /\ FramesFit'
           /\ pc' \in [Tasks -> Places] /\ stack' \in [Tasks -> Frames]
           /\ lock' \in CPUs \cup {NoCpu}
<1>. USE DEF Inv
<1>1. /\ KernelLocked' /\ FramesFit'
      /\ pc' \in [Tasks -> Places] /\ stack' \in [Tasks -> Frames] /\ lock' \in CPUs \cup {NoCpu}
      /\ \A s \in Tasks \ {t} : pc'[s] = pc[s] /\ stack'[s] = stack[s]
  BY GoesOnLocked
<1>2. /\ current \in [CPUs -> Tasks \cup {Idle}]
      /\ wait_for \in [Tasks -> Tasks \cup {IPC_ANY, IPC_DENY}]
  BY DEF TypeOK
<1>3. state[t] = "RUNNABLE"
  BY <1>2 DEF RunnableOnce, Range
<1>4. RunnableOnce'
  BY DEF RunnableOnce
<1>5. WaitsInOneQueue'
  <2>1. t \notin Range(serial_readers) /\ \A d \in Tasks : t \notin Range(senders[d])
    BY <1>3 DEF WaitsInOneQueue
  <2>2. ASSUME NEW s \in Tasks, s # t
        PROVE  pc'[s] = pc[s] /\ stack'[s] = stack[s] /\ wait_for'[s] = wait_for[s]
    BY <2>2, <1>1, <1>2
  <2>. QED BY <2>1, <2>2, QueuesKept DEF WaitsInOneQueue
<1>6. AcceptsOnlyInReceive'
  <2>1. SUFFICES ASSUME NEW s \in Tasks, state[s] # "UNUSED", wait_for'[s] # IPC_DENY
                 PROVE  pc'[s] = "recvwait"
    BY DEF AcceptsOnlyInReceive
  <2>2. wait_for[s] # IPC_DENY /\ pc[s] = "recvwait"
    BY <2>1, <1>2 DEF AcceptsOnlyInReceive
  <2>3. s # t
    BY <2>1, <2>2, <1>2
  <2>. QED BY <2>2, <2>3, <1>1
<1>7. HasPager'
  BY DEF HasPager
<1>8. FreeSlots'
  BY <1>1, <1>3 DEF FreeSlots
<1>. QED BY <1>1, <1>4, <1>5, <1>6, <1>7, <1>8

\* What resuming the blocked tasks of W, which are in no wait queue any more, preserves.
LEMMA ResumeKeeps ==
    ASSUME Inv, NEW W \in SUBSET Tasks,
           \A w \in W : /\ state[w] = "BLOCKED" /\ w \notin Range(serial_readers')
                        /\ \A d \in Tasks : w \notin Range(senders[d]),
           state' = [t \in Tasks |-> IF t \in W THEN "RUNNABLE" ELSE state[t]],
           UNCHANGED <<senders, pager, wait_for>>,
           IsInjective(serial_readers') /\ Range(serial_readers') \subseteq Range(serial_readers),
           \A s \in Tasks : state[s] # "RUNNABLE" => pc'[s] = pc[s] /\ stack'[s] = stack[s],
           \A s \in Tasks : pc[s] = "recvwait" => pc'[s] = "recvwait"
    PROVE  WaitsInOneQueue' /\ AcceptsOnlyInReceive' /\ HasPager' /\ FreeSlots'
<1>. USE DEF Inv
<1>1. WaitsInOneQueue'
  <2>1. ASSUME NEW s \in Tasks, s \in Range(serial_readers') \/ (\E d \in Tasks : s \in Range(senders'[d]))
        PROVE  state[s] = "BLOCKED" /\ s \notin W
    BY <2>1 DEF WaitsInOneQueue
  <2>2. \A d \in Tasks : IsInjective(senders'[d]) /\ Range(senders'[d]) \subseteq Range(senders[d])
    BY DEF WaitsInOneQueue
  <2>3. ASSUME NEW s \in Tasks, s \in Range(serial_readers') \/ (\E d \in Tasks : s \in Range(senders'[d]))
        PROVE  /\ state'[s] = state[s] /\ pc'[s] = pc[s] /\ stack'[s] = stack[s]
               /\ pager'[s] = pager[s] /\ wait_for'[s] = wait_for[s]
    <3>1. state[s] = "BLOCKED" /\ s \notin W
      BY <2>1, <2>3
    <3>2. state'[s] = state[s]
      BY <3>1
    <3>. QED BY <3>1, <3>2
  <2>. QED BY <2>2, <2>3, QueuesKept
<1>2. AcceptsOnlyInReceive'
  BY DEF AcceptsOnlyInReceive
<1>3. HasPager'
  BY DEF HasPager
<1>4. FreeSlots'
  BY DEF FreeSlots
<1>. QED BY <1>1, <1>2, <1>3, <1>4

\* A task in an open receive is in no wait queue.
LEMMA OpenNotQueued ==
    ASSUME Inv, NEW w \in Tasks, OpenReceive(w)
    PROVE  /\ state[w] = "BLOCKED" /\ w \notin Range(serial_readers)
           /\ \A d \in Tasks : w \notin Range(senders[d])
<1>1. state[w] = "BLOCKED" /\ wait_for[w] # IPC_DENY
  BY DEF OpenReceive, IPC_ANY, IPC_DENY
<1>2. pc[w] = "recvwait"
  BY <1>1 DEF Inv, AcceptsOnlyInReceive
<1>. QED BY <1>1, <1>2 DEF Inv, WaitsInOneQueue

\* Frames are built from frames.
LEMMA FrameTypes ==
    /\ NoFrame \in Frames
    /\ \A f \in Frames, k \in {"none", "sys", "fault", "exit"}, r \in {"user", "send", "create"} :
           [f EXCEPT !.call = k, !.ret = r] \in Frames
    /\ \A f \in Frames, k \in {"none", "sys", "fault", "exit"} : [f EXCEPT !.call = k] \in Frames
  BY DEF NoFrame, Frames, Flags, MsgTypes

\* Goto, with a frame that fits.
LEMMA GotoGoesOn ==
    ASSUME NEW c, NEW t, NEW p \in Places \ Spins, NEW f \in Frames, Fits(t, p, f),
           lock \in {c, NoCpu}, Goto(c, t, p), stack' = [stack EXCEPT ![t] = f]
    PROVE  GoesOn(c, t)
<1>1. lock' = IF p \in {"user"} \cup Spins THEN NoCpu ELSE c
  BY DEF Goto
<1>. QED BY <1>1 DEF Goto, GoesOn

\* A copy from or to user space.
LEMMA UserCopyGoesOn ==
    ASSUME NEW c, NEW t, NEW p \in {"user", "send", "create"}, NEW f \in Frames, Fits(t, p, f),
           p = "send" => f.dst \in Tasks,
           lock \in {c, NoCpu}, UserCopy(c, t, p, f)
    PROVE  GoesOn(c, t)
<1>0. p \in Places \ Spins /\ "send" \in Places \ Spins
  BY DEF Places, Spins, Waits
<1>1. CASE Goto(c, t, p) /\ stack' = [stack EXCEPT ![t] = IF p = "user" THEN NoFrame ELSE f]
  <2>1. Fits(t, "user", NoFrame)
    BY DEF Fits, NoFrame
  <2>. QED BY <2>1, <1>0, <1>1, GotoGoesOn, FrameTypes
<1>2. CASE /\ t \in MayCall["copy_fault"] /\ Goto(c, t, "send")
           /\ stack' = [stack EXCEPT ![t] = [f EXCEPT !.call = "fault", !.ret = p]]
  <2>. DEFINE g == [f EXCEPT !.call = "fault", !.ret = p]
  <2>1. g \in Frames /\ g.call = "fault" /\ g.ret = p /\ g.dst = f.dst
    BY DEF Frames
  <2>2. t # VM
    BY <1>2, EnvironmentAssumption
  <2>3. Fits(t, "send", g)
    BY <2>1, <2>2 DEF Fits
  <2>. QED BY <2>1, <2>3, <1>0, <1>2, GotoGoesOn
<1>. QED BY <1>1, <1>2 DEF UserCopy

\* The way into task_exit.
LEMMA StartExitGoesOn ==
    ASSUME NEW c, NEW t, t # VM, lock \in {c, NoCpu}, StartExit(c, t)
    PROVE  GoesOn(c, t)
<1>. DEFINE f == [NoFrame EXCEPT !.call = "exit"]
<1>1. f \in Frames /\ f.call = "exit" /\ f.ret = "user"
  BY FrameTypes DEF NoFrame
<1>2. Fits(t, "send", f)
  BY <1>1 DEF Fits
<1>3. "send" \in Places \ Spins
  BY DEF Places, Spins
<1>. QED BY <1>1, <1>2, <1>3, GotoGoesOn DEF StartExit

\* The return from ipc(), to whatever called it.
LEMMA ReturnGoesOn ==
    ASSUME Inv, NEW c, NEW t \in Tasks, lock \in {c, NoCpu},
           ReturnFromIpc(c, t, TRUE) \/ ReturnFromIpc(c, t, FALSE)
    PROVE  GoesOn(c, t)
<1>1. stack \in [Tasks -> Frames] /\ stack[t] \in Frames /\ Fits(t, pc[t], stack[t])
  BY DEF Inv, TypeOK, FramesFit
<1>0. {"user", "send", "create", "exit"} \subseteq Places \ Spins
  BY DEF Places, Spins
<1>2. CASE Goto(c, t, "user") /\ stack' = [stack EXCEPT ![t] = NoFrame]
  <2>1. Fits(t, "user", NoFrame)
    BY DEF Fits, NoFrame
  <2>. QED BY <2>1, <1>0, <1>2, GotoGoesOn, FrameTypes
<1>3. CASE Goto(c, t, "exit") /\ stack' = stack
  <2>1. stack' = [stack EXCEPT ![t] = stack[t]]
    BY <1>3, <1>1
  <2>2. Fits(t, "exit", stack[t])
    BY <1>1 DEF Fits
  <2>. QED BY <2>1, <2>2, <1>0, <1>1, <1>3, GotoGoesOn
<1>4. CASE /\ stack[t].call = "fault" /\ Goto(c, t, stack[t].ret)
           /\ stack' = [stack EXCEPT ![t] = IF stack[t].ret = "user" THEN NoFrame
                                            ELSE [stack[t] EXCEPT !.call = "sys", !.ret = "user"]]
  <2>. DEFINE f == [stack[t] EXCEPT !.call = "sys", !.ret = "user"]
  <2>1. f \in Frames /\ f.call = "sys" /\ f.ret = "user" /\ f.dst = stack[t].dst
    BY <1>1 DEF Frames
  <2>2. stack[t].ret \in {"user", "send", "create"}
    BY <1>1 DEF Frames
  <2>3. Fits(t, stack[t].ret, f)
    BY <2>1, <2>2, <1>1 DEF Fits
  <2>4. Fits(t, "user", NoFrame)
    BY DEF Fits, NoFrame
  <2>. HIDE DEF f
  <2>5. CASE stack[t].ret = "user"
    BY <2>4, <2>5, <1>0, <1>4, GotoGoesOn, FrameTypes
  <2>6. CASE stack[t].ret # "user"
    <3>1. stack' = [stack EXCEPT ![t] = f]
      BY <2>6, <1>4 DEF f
    <3>. QED BY <3>1, <2>1, <2>2, <2>3, <1>0, <1>4, GotoGoesOn
  <2>. QED BY <2>5, <2>6
<1>5. CASE stack[t].call = "fault" /\ StartExit(c, t)
  <2>1. t # VM
    BY <1>1, <1>5 DEF Fits
  <2>. QED BY <2>1, <1>5, StartExitGoesOn
<1>. QED BY <1>2, <1>3, <1>4, <1>5 DEF ReturnFromIpc

\* A step that changes nothing but the place, the frame and the lock.
LEMMA PureControlStep ==
    ASSUME Inv, NEW c \in CPUs, NEW t \in Tasks, current[c] = t, pc[t] # "recvwait", GoesOn(c, t),
           UNCHANGED <<lifeVars, devVars, ipcVars, schedVars, ipiVars, fault>>
    PROVE  Inv'
<1>1. /\ UNCHANGED <<state, runqueue, current, senders, pager>> /\ UNCHANGED serial_readers
      /\ wait_for' = wait_for
  BY DEF lifeVars, devVars, ipcVars, schedVars
<1>2. /\ RunnableOnce' /\ WaitsInOneQueue' /\ AcceptsOnlyInReceive' /\ KernelLocked'
      /\ HasPager' /\ FreeSlots' /\ FramesFit'
      /\ pc' \in [Tasks -> Places] /\ stack' \in [Tasks -> Frames]
      /\ lock' \in CPUs \cup {NoCpu}
  BY <1>1, ControlStep
<1>3. TypeOK'
  BY <1>2 DEF Inv, TypeOK, lifeVars, devVars, ipcVars, schedVars, ipiVars
<1>. QED BY <1>2, <1>3 DEF Inv

\* The task that traps, or holds the lock, is a running task.
LEMMA Running ==
    ASSUME Inv, NEW c \in CPUs, NEW t \in Tasks, current[c] = t
    PROVE  /\ t \in Range(current) /\ state[t] = "RUNNABLE" /\ t \notin Range(runqueue)
           /\ t \notin Range(serial_readers) /\ \A d \in Tasks : t \notin Range(senders[d])
<1>1. t \in Range(current)
  BY DEF Inv, TypeOK, Range
<1>. QED BY <1>1 DEF Inv, RunnableOnce, WaitsInOneQueue
-----------------------------------------------------------------------------
(* System calls and traps.                                                 *)

\* sys_ipc preserves the invariant.
LEMMA Step_sys_ipc == ASSUME Inv, NEW c \in CPUs, sys_ipc(c) PROVE Inv'
<1>. DEFINE F(r) == [NoFrame EXCEPT !.call = "sys", !.dst = r.dst, !.src = r.src,
                                    !.flags = r.flags, !.type = r.type]
<1>1. PICK t \in Tasks, r \in Requests :
        /\ Trap(c, t, "ipc")
        /\ \/ "SEND" \in r.flags /\ UserCopy(c, t, "send", F(r))
           \/ Goto(c, t, "recv") /\ stack' = [stack EXCEPT ![t] = F(r)]
        /\ UNCHANGED <<lifeVars, devVars, ipcVars, schedVars, ipiVars, fault>>
  BY DEF sys_ipc
<1>2. /\ r.flags \in SUBSET Flags /\ r.dst \in Tasks \cup {NULL} /\ ("SEND" \in r.flags => r.dst \in Tasks)
      /\ r.src \in Tasks \cup {IPC_ANY, IPC_DENY} /\ r.type \in MsgTypes
  BY EnvironmentAssumption DEF Flags, MsgTypes
<1>3. /\ F(r) \in Frames /\ F(r).call = "sys" /\ F(r).ret = "user" /\ F(r).dst = r.dst
  BY <1>2 DEF NoFrame, Frames
<1>. HIDE DEF F
<1>4. current[c] = t /\ pc[t] = "user" /\ lock \in {c, NoCpu}
  BY <1>1 DEF Trap
<1>5. CASE "SEND" \in r.flags /\ UserCopy(c, t, "send", F(r))
  <2>1. Fits(t, "send", F(r))
    BY <1>2, <1>3, <1>5 DEF Fits
  <2>2. GoesOn(c, t)
    BY <2>1, <1>2, <1>3, <1>4, <1>5, UserCopyGoesOn
  <2>. QED BY <2>2, <1>1, <1>4, PureControlStep
<1>6. CASE Goto(c, t, "recv") /\ stack' = [stack EXCEPT ![t] = F(r)]
  <2>1. Fits(t, "recv", F(r)) /\ "recv" \in Places \ Spins
    BY <1>3 DEF Fits, Places, Spins
  <2>2. GoesOn(c, t)
    BY <2>1, <1>3, <1>4, <1>6, GotoGoesOn
  <2>. QED BY <2>2, <1>1, <1>4, PureControlStep
<1>. QED BY <1>1, <1>5, <1>6

\* page_fault preserves the invariant.
LEMMA Step_page_fault == ASSUME Inv, NEW c \in CPUs, page_fault(c) PROVE Inv'
<1>1. PICK t \in Tasks :
        /\ Trap(c, t, "page_fault")
        /\ \/ stack' = [stack EXCEPT ![t].call = "fault"] /\ Goto(c, t, "send")
           \/ StartExit(c, t)
        /\ UNCHANGED <<lifeVars, devVars, ipcVars, schedVars, ipiVars, fault>>
  BY DEF page_fault
<1>2. /\ current[c] = t /\ pc[t] = "user" /\ lock \in {c, NoCpu} /\ t # VM
      /\ stack \in [Tasks -> Frames] /\ stack[t] \in Frames /\ Fits(t, pc[t], stack[t])
  BY <1>1, EnvironmentAssumption DEF Trap, Inv, TypeOK, FramesFit
<1>3. CASE stack' = [stack EXCEPT ![t].call = "fault"] /\ Goto(c, t, "send")
  <2>. DEFINE f == [stack[t] EXCEPT !.call = "fault"]
  <2>1. f \in Frames
    BY <1>2, FrameTypes
  <2>2. f.call = "fault" /\ f.ret = stack[t].ret /\ f.dst = stack[t].dst
    BY <1>2 DEF Frames
  <2>3. Fits(t, "send", f) /\ "send" \in Places \ Spins
    BY <2>2, <1>2 DEF Fits, Places, Spins
  <2>4. stack' = [stack EXCEPT ![t] = f]
    BY <1>2, <1>3
  <2>. HIDE DEF f
  <2>5. GoesOn(c, t)
    BY <2>1, <2>3, <2>4, <1>2, <1>3, GotoGoesOn
  <2>. QED BY <2>5, <1>1, <1>2, PureControlStep
<1>4. CASE StartExit(c, t)
  <2>1. GoesOn(c, t)
    BY <1>2, <1>4, StartExitGoesOn
  <2>. QED BY <2>1, <1>1, <1>2, PureControlStep
<1>. QED BY <1>1, <1>3, <1>4

\* sys_task_exit preserves the invariant.
LEMMA Step_sys_task_exit == ASSUME Inv, NEW c \in CPUs, sys_task_exit(c) PROVE Inv'
<1>1. PICK t \in Tasks :
        /\ Trap(c, t, "exit") /\ StartExit(c, t)
        /\ UNCHANGED <<lifeVars, devVars, ipcVars, schedVars, ipiVars, fault>>
  BY DEF sys_task_exit
<1>2. current[c] = t /\ pc[t] = "user" /\ lock \in {c, NoCpu} /\ t # VM
  BY <1>1, EnvironmentAssumption DEF Trap
<1>3. GoesOn(c, t)
  BY <1>1, <1>2, StartExitGoesOn
<1>. QED BY <1>1, <1>2, <1>3, PureControlStep

\* sys_task_create preserves the invariant.
LEMMA Step_sys_task_create == ASSUME Inv, NEW c \in CPUs, sys_task_create(c) PROVE Inv'
<1>1. PICK t \in Tasks, p \in Tasks :
        /\ Trap(c, t, "create")
        /\ UserCopy(c, t, "create", [NoFrame EXCEPT !.call = "sys", !.dst = p])
        /\ UNCHANGED <<lifeVars, devVars, ipcVars, schedVars, ipiVars, fault>>
  BY DEF sys_task_create
<1>. DEFINE f == [NoFrame EXCEPT !.call = "sys", !.dst = p]
<1>2. f \in Frames /\ f.call = "sys" /\ f.ret = "user"
  BY DEF NoFrame, Frames, MsgTypes
<1>3. current[c] = t /\ pc[t] = "user" /\ lock \in {c, NoCpu}
  BY <1>1 DEF Trap
<1>. HIDE DEF f
<1>4. Fits(t, "create", f)
  BY <1>2 DEF Fits
<1>5. UserCopy(c, t, "create", f)
  BY <1>1 DEF f
<1>6. GoesOn(c, t)
  BY <1>2, <1>3, <1>4, <1>5, UserCopyGoesOn
<1>. QED BY <1>1, <1>3, <1>6, PureControlStep

\* sys_serial_read preserves the invariant.
LEMMA Step_sys_serial_read == ASSUME Inv, NEW c \in CPUs, sys_serial_read(c) PROVE Inv'
<1>1. PICK t \in Tasks :
        /\ Trap(c, t, "serial_read")
        /\ stack' = [stack EXCEPT ![t] = [NoFrame EXCEPT !.call = "sys"]] /\ Goto(c, t, "serial")
        /\ UNCHANGED <<lifeVars, devVars, ipcVars, schedVars, ipiVars, fault>>
  BY DEF sys_serial_read
<1>2. [NoFrame EXCEPT !.call = "sys"] \in Frames
  BY FrameTypes
<1>3. Fits(t, "serial", [NoFrame EXCEPT !.call = "sys"]) /\ "serial" \in Places \ Spins
  BY DEF Fits, NoFrame, Places, Spins, Waits
<1>4. current[c] = t /\ pc[t] = "user" /\ lock \in {c, NoCpu}
  BY <1>1 DEF Trap
<1>5. GoesOn(c, t)
  BY <1>1, <1>2, <1>3, <1>4, GotoGoesOn
<1>. QED BY <1>1, <1>4, <1>5, PureControlStep

\* sys_time and sys_irq touch only timeout and irq_listener.
LEMMA Step_sys_time == ASSUME Inv, NEW c \in CPUs, sys_time(c) PROVE Inv'
<1>1. PICK t \in Tasks, n \in 0 .. MaxTimeout :
        /\ timeout' = [timeout EXCEPT ![t] = n]
        /\ UNCHANGED <<lifeVars, serial_readers, input, irq_listener, ipcVars, schedVars,
                       ipiVars, ctlVars, fault>>
  BY DEF sys_time
<1>2. TypeOK'
  BY <1>1, SizesAssumption DEF Inv, TypeOK, lifeVars, ipcVars, schedVars, ipiVars, ctlVars
<1>3. /\ RunnableOnce' /\ WaitsInOneQueue' /\ AcceptsOnlyInReceive' /\ KernelLocked'
      /\ HasPager' /\ FreeSlots' /\ FramesFit'
  BY <1>1 DEF Inv, RunnableOnce, WaitsInOneQueue, AcceptsOnlyInReceive, KernelLocked, HasPager,
              FreeSlots, FramesFit, IpcDst, lifeVars, ipcVars, schedVars, ctlVars
<1>. QED BY <1>2, <1>3 DEF Inv

\* sys_irq preserves the invariant.
LEMMA Step_sys_irq == ASSUME Inv, NEW c \in CPUs, sys_irq(c) PROVE Inv'
<1>1. PICK t \in Tasks :
        /\ irq_listener' \in {t, NULL}
        /\ UNCHANGED <<lifeVars, timeout, serial_readers, input, ipcVars, schedVars, ipiVars,
                       ctlVars, fault>>
  BY DEF sys_irq
<1>2. TypeOK'
  BY <1>1 DEF Inv, TypeOK, lifeVars, ipcVars, schedVars, ipiVars, ctlVars
<1>3. /\ RunnableOnce' /\ WaitsInOneQueue' /\ AcceptsOnlyInReceive' /\ KernelLocked'
      /\ HasPager' /\ FreeSlots' /\ FramesFit'
  BY <1>1 DEF Inv, RunnableOnce, WaitsInOneQueue, AcceptsOnlyInReceive, KernelLocked, HasPager,
              FreeSlots, FramesFit, IpcDst, lifeVars, ipcVars, schedVars, ctlVars
<1>. QED BY <1>2, <1>3 DEF Inv

\* notify, from the notify system call or a device interrupt.
LEMMA NotifyStep ==
    ASSUME Inv, NEW dst \in Tasks, NEW bits \in SUBSET Bits, notify(dst, bits),
           UNCHANGED <<lifeVars, devVars, wait_for, senders, current, quantum, ipiVars, ctlVars, fault>>
    PROVE  Inv'
<1>. USE DEF lifeVars, devVars, ipiVars, ctlVars
<1>1. KernelLocked' /\ FramesFit'
  BY DEF Inv, KernelLocked, FramesFit
<1>2. notifications' \in [Tasks -> SUBSET Bits]
  <2>1. /\ notifications \in [Tasks -> SUBSET Bits]
        /\ notifications[dst] \cup bits \in SUBSET Bits /\ {} \in SUBSET Bits
    BY DEF Inv, TypeOK
  <2>. QED BY <2>1 DEF notify
<1>3. m' \in [Tasks -> Messages]
  <2>1. [type |-> "NOTIFY", src |-> FROM_KERNEL, task |-> NULL] \in Messages
    BY DEF Messages, MsgTypes
  <2>. QED BY <2>1, ZenonT(40) DEF notify, Inv, TypeOK
<1>4. CASE OpenReceive(dst)
  <2>1. /\ state' = [state EXCEPT ![dst] = "RUNNABLE"] /\ runqueue' = Append(runqueue, dst)
    BY <1>4 DEF notify
  <2>2. /\ state[dst] = "BLOCKED" /\ dst \notin Range(serial_readers)
        /\ \A d \in Tasks : dst \notin Range(senders[d])
    BY <1>4, OpenNotQueued
  <2>3. /\ state' \in [Tasks -> States] /\ runqueue' \in Seq(Tasks)
        /\ Scheduled(state', runqueue', {})
    BY <2>1, <2>2, ResumeOne DEF Inv
  <2>4. RunnableOnce'
    BY <2>3, ScheduledRunnable DEF Inv
  <2>5. state' = [t \in Tasks |-> IF t \in {dst} THEN "RUNNABLE" ELSE state[t]]
    BY <2>1 DEF Inv, TypeOK
  <2>6. WaitsInOneQueue' /\ AcceptsOnlyInReceive' /\ HasPager' /\ FreeSlots'
    <3>1. /\ {dst} \in SUBSET Tasks
          /\ \A w \in {dst} : /\ state[w] = "BLOCKED" /\ w \notin Range(serial_readers')
                              /\ \A d \in Tasks : w \notin Range(senders[d])
      BY <2>2
    <3>2. IsInjective(serial_readers') /\ Range(serial_readers') \subseteq Range(serial_readers)
      BY DEF Inv, WaitsInOneQueue
    <3>. QED BY <2>5, <3>1, <3>2, ResumeKeeps
  <2>7. TypeOK'
    BY <2>3, <1>2, <1>3 DEF Inv, TypeOK
  <2>. QED BY <2>4, <2>6, <2>7, <1>1 DEF Inv
<1>5. CASE ~OpenReceive(dst)
  <2>1. UNCHANGED <<m, state, runqueue>>
    BY <1>5 DEF notify
  <2>2. TypeOK'
    BY <2>1, <1>2 DEF Inv, TypeOK
  <2>3. RunnableOnce' /\ WaitsInOneQueue' /\ AcceptsOnlyInReceive' /\ HasPager' /\ FreeSlots'
    BY <2>1 DEF Inv, RunnableOnce, WaitsInOneQueue, AcceptsOnlyInReceive, HasPager, FreeSlots, IpcDst
  <2>. QED BY <2>2, <2>3, <1>1 DEF Inv
<1>. QED BY <1>4, <1>5

\* sys_notify preserves the invariant.
LEMMA Step_sys_notify == ASSUME Inv, NEW c \in CPUs, sys_notify(c) PROVE Inv'
<1>1. PICK dst \in Tasks, bits \in UserBits :
        /\ notify(dst, bits)
        /\ UNCHANGED <<lifeVars, devVars, wait_for, senders, current, quantum, ipiVars, ctlVars, fault>>
  BY DEF sys_notify
<1>2. bits \in SUBSET Bits
  BY EnvironmentAssumption
<1>. QED BY <1>1, <1>2, NotifyStep

\* device_interrupt preserves the invariant.
LEMMA Step_device_interrupt == ASSUME Inv, NEW c \in CPUs, device_interrupt(c) PROVE Inv'
<1>1. /\ irq_listener # NULL /\ notify(irq_listener, {"IRQ"})
      /\ UNCHANGED <<lifeVars, devVars, wait_for, senders, current, quantum, ipiVars, ctlVars, fault>>
  BY DEF device_interrupt
<1>2. irq_listener \in Tasks /\ {"IRQ"} \in SUBSET Bits
  BY <1>1 DEF Inv, TypeOK, Bits
<1>. QED BY <1>1, <1>2, NotifyStep

\* An interrupt may come when the CPU is not in the kernel.
LEMMA Interrupted ==
    ASSUME Inv, NEW c \in CPUs, Interruptible(c)
    PROVE  lock \in {c, NoCpu} /\ (current[c] # Idle => pc[current[c]] \in {"user"} \cup Waits)
  BY DEF Interruptible

\* The rescheduling interrupt, and the idle task's look for work.
LEMMA RescheduleStep ==
    ASSUME Inv, NEW c \in CPUs, Interruptible(c), task_switch(c, state, runqueue, pc),
           UNCHANGED <<lifeVars, devVars, ipcVars, stack, fault>>,
           ipi_pending' \in [CPUs -> BOOLEAN], ipi_wait' \in [CPUs -> SUBSET CPUs]
    PROVE  Inv'
<1>. USE DEF lifeVars, devVars, ipcVars
<1>1. state' = state /\ pc' = pc
  BY DEF task_switch
<1>2. /\ state \in [Tasks -> States] /\ runqueue \in Seq(Tasks) /\ pc \in [Tasks -> Places]
  BY DEF Inv, TypeOK
<1>3. Scheduled(state, runqueue, {c})
  BY RunnableScheduled DEF Inv, Scheduled
<1>4. RunnableOnce'
  BY <1>2, <1>3, SwitchSchedules DEF Inv
<1>5. KernelLocked'
  BY <1>2, <1>3, Interrupted, SwitchLocks DEF Inv, Scheduled
<1>6. TypeOK'
  BY <1>2, SwitchTypes DEF Inv, TypeOK
<1>7. WaitsInOneQueue' /\ AcceptsOnlyInReceive' /\ HasPager' /\ FreeSlots' /\ FramesFit'
  BY <1>1 DEF Inv, WaitsInOneQueue, AcceptsOnlyInReceive, HasPager, FreeSlots, FramesFit, IpcDst
<1>. QED BY <1>4, <1>5, <1>6, <1>7 DEF Inv

\* ipi_interrupt preserves the invariant.
LEMMA Step_ipi_interrupt == ASSUME Inv, NEW c \in CPUs, ipi_interrupt(c) PROVE Inv'
<1>1. /\ Interruptible(c) /\ task_switch(c, state, runqueue, pc)
      /\ UNCHANGED <<lifeVars, devVars, ipcVars, stack, fault>>
      /\ ipi_pending' = [ipi_pending EXCEPT ![c] = FALSE] /\ ipi_wait' = ipi_wait
  BY DEF ipi_interrupt
<1>2. ipi_pending' \in [CPUs -> BOOLEAN] /\ ipi_wait' \in [CPUs -> SUBSET CPUs]
  BY <1>1 DEF Inv, TypeOK
<1>. QED BY <1>1, <1>2, RescheduleStep

\* idle_task preserves the invariant.
LEMMA Step_idle_task == ASSUME Inv, NEW c \in CPUs, idle_task(c) PROVE Inv'
<1>1. /\ Interruptible(c) /\ task_switch(c, state, runqueue, pc)
      /\ UNCHANGED <<lifeVars, devVars, ipcVars, stack, fault>>
      /\ UNCHANGED ipiVars
  BY DEF idle_task
<1>2. ipi_pending' \in [CPUs -> BOOLEAN] /\ ipi_wait' \in [CPUs -> SUBSET CPUs]
  BY <1>1 DEF Inv, TypeOK, ipiVars
<1>. QED BY <1>1, <1>2, RescheduleStep

\* The tasks that LIST_FOR_EACH resumes are a list of tasks.
LEMMA EnumerationTypes ==
    ASSUME NEW S \in SUBSET Tasks, NEW order, NEW q \in Enumerations(S, order)
    PROVE  q \in Seq(Tasks) /\ Range(q) = S /\ IsInjective(q)
<1>1. IsFiniteSet(Tasks)
  BY FS_Interval, SizesAssumption DEF Tasks
<1>2. Cardinality(S) \in Nat
  BY <1>1, FS_Subset, FS_CardinalityType
<1>3. q \in [1 .. Cardinality(S) -> S] /\ Range(q) = S /\ IsInjective(q)
  BY DEF Enumerations
<1>4. q \in Seq(S)
  BY <1>2, <1>3, SeqDef
<1>. QED BY <1>3, <1>4, SeqMonotonic

\* timer_interrupt preserves the invariant.
LEMMA Step_timer_interrupt == ASSUME Inv, NEW c \in CPUs, timer_interrupt(c) PROVE Inv'
<1>. DEFINE Woken(k) == {t \in Expired(c, k) : OpenReceive(t)}
            St(k) == [t \in Tasks |-> IF t \in Woken(k) THEN "RUNNABLE" ELSE state[t]]
<1>1. PICK ticks \in 1 .. MaxTicks :
        /\ Interruptible(c)
        /\ timeout' = [t \in Tasks |-> IF c = 0 /\ t \in Range(active_tasks)
                                       THEN MinusTicks(timeout[t], ticks) ELSE timeout[t]]
        /\ m' = [t \in Tasks |-> IF t \in Woken(ticks)
                                 THEN [type |-> "NOTIFY", src |-> FROM_KERNEL, task |-> NULL]
                                 ELSE m[t]]
        /\ notifications' = [t \in Tasks |-> IF t \in Woken(ticks) THEN {}
                                  ELSE IF t \in Expired(c, ticks) THEN notifications[t] \cup {"TIMER"}
                                  ELSE notifications[t]]
        /\ \E q \in Enumerations(Woken(ticks), active_tasks) :
              IF MinusTicks(quantum[c], ticks) = 0
              THEN task_switch(c, St(ticks), runqueue \o q, pc)
              ELSE /\ state' = St(ticks) /\ runqueue' = runqueue \o q
                   /\ quantum' = [quantum EXCEPT ![c] = MinusTicks(quantum[c], ticks)]
                   /\ UNCHANGED <<current, pc, lock>>
        /\ UNCHANGED <<lifeVars, serial_readers, input, irq_listener, wait_for, senders,
                       ipiVars, stack, fault>>
  BY DEF timer_interrupt
<1>2. ticks \in Nat
  BY SizesAssumption
<1>. DEFINE W == Woken(ticks)
            st == St(ticks)
            left == MinusTicks(quantum[c], ticks)
<1>3. W \in SUBSET Tasks
  BY QueuedTasks DEF Expired, Inv
<1>4. ASSUME NEW w \in W
      PROVE  /\ state[w] = "BLOCKED" /\ w \notin Range(serial_readers)
             /\ \A d \in Tasks : w \notin Range(senders[d])
  BY <1>3, OpenNotQueued
<1>5. /\ timeout' \in [Tasks -> Nat] /\ m' \in [Tasks -> Messages]
      /\ notifications' \in [Tasks -> SUBSET Bits]
  <2>1. \A n \in Nat : MinusTicks(n, ticks) \in Nat
    BY <1>2 DEF MinusTicks
  <2>2. /\ timeout \in [Tasks -> Nat] /\ m \in [Tasks -> Messages]
        /\ notifications \in [Tasks -> SUBSET Bits] /\ {"TIMER"} \in SUBSET Bits
        /\ [type |-> "NOTIFY", src |-> FROM_KERNEL, task |-> NULL] \in Messages
    BY DEF Inv, TypeOK, Bits, Messages, MsgTypes
  <2>3. timeout' \in [Tasks -> Nat]
    BY <2>1, <2>2, <1>1
  <2>4. m' \in [Tasks -> Messages]
    BY <2>2, <1>1
  <2>5. \A t \in Tasks : notifications[t] \cup {"TIMER"} \in SUBSET Bits
    BY <2>2
  <2>6. notifications' \in [Tasks -> SUBSET Bits]
    BY <2>2, <2>5, <1>1
  <2>. QED BY <2>3, <2>4, <2>6
<1>6. left \in 0 .. TASK_QUANTUM
  <2>1. quantum[c] \in 0 .. TASK_QUANTUM /\ TASK_QUANTUM \in Nat
    BY SizesAssumption DEF Inv, TypeOK
  <2>. QED BY <2>1, <1>2 DEF MinusTicks
<1>7. PICK q \in Enumerations(W, active_tasks) :
        IF left = 0
        THEN task_switch(c, st, runqueue \o q, pc)
        ELSE /\ state' = st /\ runqueue' = runqueue \o q
             /\ quantum' = [quantum EXCEPT ![c] = left]
             /\ UNCHANGED <<current, pc, lock>>
  BY <1>1
<1>8. q \in Seq(Tasks) /\ Range(q) = W /\ IsInjective(q)
  BY <1>3, <1>7, EnumerationTypes
<1>. HIDE DEF W, left
<1>9. st = [t \in Tasks |-> IF t \in Range(q) THEN "RUNNABLE" ELSE state[t]]
  BY <1>8 DEF W
<1>10. /\ st \in [Tasks -> States] /\ runqueue \o q \in Seq(Tasks)
       /\ Scheduled(st, runqueue \o q, {})
  BY <1>4, <1>8, <1>9, ResumeAll DEF Inv
<1>11. st = [t \in Tasks |-> IF t \in W THEN "RUNNABLE" ELSE state[t]]
  BY <1>8, <1>9
<1>. HIDE DEF st
<1>12. state' = st /\ pc' = pc /\ stack' = stack
  BY <1>1, <1>7 DEF task_switch
<1>13. WaitsInOneQueue' /\ AcceptsOnlyInReceive' /\ HasPager' /\ FreeSlots'
  <2>1. UNCHANGED <<senders, pager, wait_for>> /\ serial_readers' = serial_readers
    BY <1>1 DEF lifeVars
  <2>2. IsInjective(serial_readers') /\ Range(serial_readers') \subseteq Range(serial_readers)
    BY <2>1 DEF Inv, WaitsInOneQueue
  <2>. QED BY <2>1, <2>2, <1>3, <1>4, <1>11, <1>12, ResumeKeeps
<1>14. FramesFit'
  BY <1>12 DEF Inv, FramesFit
<1>15. /\ RunnableOnce' /\ KernelLocked'
       /\ state' \in [Tasks -> States] /\ runqueue' \in Seq(Tasks)
       /\ current' \in [CPUs -> Tasks \cup {Idle}] /\ quantum' \in [CPUs -> 0 .. TASK_QUANTUM]
       /\ pc' \in [Tasks -> Places] /\ lock' \in CPUs \cup {NoCpu}
  <2>1. pc \in [Tasks -> Places] /\ Scheduled(st, runqueue \o q, {c})
    BY <1>10 DEF Inv, TypeOK, Scheduled
  <2>2. CASE left = 0
    <3>1. task_switch(c, st, runqueue \o q, pc)
      BY <2>2, <1>7
    <3>2. RunnableOnce'
      BY <3>1, <2>1, <1>10, SwitchSchedules DEF Inv
    <3>3. KernelLocked'
      BY <3>1, <2>1, <1>1, <1>10, Interrupted, SwitchLocks DEF Inv, Scheduled
    <3>. QED BY <3>1, <3>2, <3>3, <2>1, <1>10, SwitchTypes DEF Inv
  <2>3. CASE left # 0
    <3>1. /\ state' = st /\ runqueue' = runqueue \o q /\ quantum' = [quantum EXCEPT ![c] = left]
          /\ UNCHANGED <<current, pc, lock>>
      BY <2>3, <1>7
    <3>2. RunnableOnce'
      BY <3>1, <1>10, ScheduledRunnable DEF Inv
    <3>3. KernelLocked'
      BY <3>1 DEF Inv, KernelLocked
    <3>. QED BY <3>1, <3>2, <3>3, <1>6, <1>10 DEF Inv, TypeOK
  <2>. QED BY <2>2, <2>3
<1>16. TypeOK'
  BY <1>1, <1>5, <1>12, <1>15 DEF Inv, TypeOK, lifeVars, ipiVars
<1>. QED BY <1>13, <1>14, <1>15, <1>16 DEF Inv

\* serial_interrupt preserves the invariant.
LEMMA Step_serial_interrupt == ASSUME Inv, NEW c \in CPUs, serial_interrupt(c) PROVE Inv'
<1>. DEFINE W == Range(serial_readers)
            st == [t \in Tasks |-> IF t \in Range(serial_readers) THEN "RUNNABLE" ELSE state[t]]
<1>1. /\ \E n \in {0, 1} : input' = IF input + n > InputMax THEN InputMax ELSE input + n
      /\ serial_readers' = <<>> /\ state' = st /\ runqueue' = runqueue \o serial_readers
      /\ UNCHANGED <<lifeVars, timeout, irq_listener, ipcVars, current, quantum, ipiVars,
                     ctlVars, fault>>
  BY DEF serial_interrupt, ReadersToResume
<1>2. /\ serial_readers \in Seq(Tasks) /\ IsInjective(serial_readers) /\ W \in SUBSET Tasks
      /\ \A w \in W : state[w] = "BLOCKED" /\ pc[w] = "serial"
  BY QueuedTasks DEF Inv, TypeOK, WaitsInOneQueue
<1>3. /\ state' \in [Tasks -> States] /\ runqueue' \in Seq(Tasks)
      /\ Scheduled(state', runqueue', {})
  BY <1>1, <1>2, ResumeAll DEF Inv
<1>4. RunnableOnce'
  BY <1>1, <1>3, ScheduledRunnable DEF Inv
<1>5. input' \in 0 .. InputMax
  <2>1. input \in 0 .. InputMax /\ InputMax \in Nat
    BY SizesAssumption DEF Inv, TypeOK
  <2>. QED BY <2>1, <1>1
<1>6. serial_readers' \in Seq(Tasks) /\ IsInjective(serial_readers') /\ Range(serial_readers') = {}
  BY <1>1 DEF IsInjective, Range
<1>7. UNCHANGED <<senders, pager, wait_for>> /\ UNCHANGED <<pc, stack, lock>>
  BY <1>1 DEF lifeVars, ipcVars, ctlVars
<1>8. WaitsInOneQueue' /\ AcceptsOnlyInReceive' /\ HasPager' /\ FreeSlots'
  <2>1. \A w \in W : /\ state[w] = "BLOCKED" /\ w \notin Range(serial_readers')
                     /\ \A d \in Tasks : w \notin Range(senders[d])
    BY <1>2, <1>6 DEF Inv, WaitsInOneQueue
  <2>2. state' = [t \in Tasks |-> IF t \in W THEN "RUNNABLE" ELSE state[t]]
    BY <1>1
  <2>. QED BY <2>1, <2>2, <1>2, <1>6, <1>7, ResumeKeeps
<1>9. KernelLocked' /\ FramesFit'
  BY <1>1, <1>7 DEF Inv, KernelLocked, FramesFit
<1>10. TypeOK'
  BY <1>1, <1>3, <1>5, <1>6, <1>7 DEF Inv, TypeOK, lifeVars, ipcVars, ipiVars
<1>. QED BY <1>4, <1>8, <1>9, <1>10 DEF Inv

\* The running task t blocks at place p, after resumes that gave st and rq.
Blocks(c, t, p, st, rq) ==
    /\ p \in Waits /\ st \in [Tasks -> States] /\ rq \in Seq(Tasks)
    /\ Scheduled(st, rq, {}) /\ BlockAt(c, t, p, st, rq)

\* What task_block and task_switch at the place p preserve.
LEMMA BlockStep ==
    ASSUME Inv, NEW c \in CPUs, NEW t \in Tasks, current[c] = t, lock = c,
           NEW p, NEW st, NEW rq, Blocks(c, t, p, st, rq)
    PROVE  /\ RunnableOnce' /\ KernelLocked'
           /\ state' = [st EXCEPT ![t] = "BLOCKED"] /\ pc' = [pc EXCEPT ![t] = p]
           /\ state' \in [Tasks -> States] /\ runqueue' \in Seq(Tasks)
           /\ current' \in [CPUs -> Tasks \cup {Idle}] /\ quantum' \in [CPUs -> 0 .. TASK_QUANTUM]
           /\ pc' \in [Tasks -> Places] /\ lock' \in CPUs \cup {NoCpu}
<1>. DEFINE bst == [st EXCEPT ![t] = "BLOCKED"]
            bpc == [pc EXCEPT ![t] = p]
<1>1. /\ task_switch(c, bst, rq, bpc) /\ p \in Waits /\ rq \in Seq(Tasks)
      /\ st \in [Tasks -> States] /\ Scheduled(st, rq, {})
  BY DEF BlockAt, Blocks
<1>2. TypeOK /\ KernelLocked /\ pc \in [Tasks -> Places] /\ current \in [CPUs -> Tasks \cup {Idle}]
  BY DEF Inv, TypeOK
<1>3. /\ bst \in [Tasks -> States] /\ bst[t] = "BLOCKED" /\ \A s \in Tasks \ {t} : bst[s] = st[s]
      /\ bpc \in [Tasks -> Places] /\ bpc[t] = p /\ \A s \in Tasks \ {t} : bpc[s] = pc[s]
  BY <1>1, <1>2 DEF States, Places
<1>. HIDE DEF bst, bpc
<1>4. t \in Range(current) /\ Range(rq) \subseteq Tasks
  BY <1>1, <1>2, LenProperties DEF Range
<1>5. Scheduled(bst, rq, {c})
  BY <1>1, <1>2, <1>3, <1>4, Numbers, ZenonT(40) DEF Scheduled
<1>6. RunnableOnce'
  BY <1>1, <1>2, <1>3, <1>5, SwitchSchedules
<1>7. KernelLocked'
  BY <1>1, <1>2, <1>3, <1>5, SwitchLocks DEF Scheduled
<1>8. state' = bst /\ pc' = bpc
  BY <1>1 DEF task_switch
<1>. QED BY <1>1, <1>2, <1>3, <1>6, <1>7, <1>8, SwitchTypes DEF bst, bpc

\* exit_block preserves the invariant.
LEMMA Step_exit_block == ASSUME Inv, NEW c \in CPUs, exit_block(c) PROVE Inv'
<1>1. PICK t \in Tasks :
        /\ At(c, t, "exit") /\ BlockAt(c, t, "dead", state, runqueue)
        /\ UNCHANGED <<lifeVars, devVars, ipcVars, stack, ipiVars, fault>>
  BY DEF exit_block
<1>2. current[c] = t /\ lock = c /\ pc[t] = "exit"
  BY <1>1 DEF At
<1>3. state \in [Tasks -> States] /\ runqueue \in Seq(Tasks) /\ pc \in [Tasks -> Places]
  BY DEF Inv, TypeOK
<1>4. Scheduled(state, runqueue, {})
  BY RunnableScheduled DEF Inv
<1>5. /\ RunnableOnce' /\ KernelLocked'
      /\ state' = [state EXCEPT ![t] = "BLOCKED"] /\ pc' = [pc EXCEPT ![t] = "dead"]
      /\ state' \in [Tasks -> States] /\ runqueue' \in Seq(Tasks)
      /\ current' \in [CPUs -> Tasks \cup {Idle}] /\ quantum' \in [CPUs -> 0 .. TASK_QUANTUM]
      /\ pc' \in [Tasks -> Places] /\ lock' \in CPUs \cup {NoCpu}
  <2>1. Blocks(c, t, "dead", state, runqueue)
    BY <1>1, <1>3, <1>4 DEF Blocks, Waits
  <2>. QED BY <2>1, <1>2, BlockStep
<1>6. /\ t \notin Range(serial_readers) /\ \A d \in Tasks : t \notin Range(senders[d])
      /\ state[t] = "RUNNABLE"
  BY <1>2, Running
<1>7. TypeOK'
  BY <1>1, <1>5 DEF Inv, TypeOK, lifeVars, devVars, ipcVars, ipiVars
<1>8. WaitsInOneQueue'
  BY <1>1, <1>3, <1>5, <1>6, QueuesKept DEF Inv, WaitsInOneQueue, lifeVars, devVars, ipcVars
<1>9. AcceptsOnlyInReceive' /\ HasPager' /\ FreeSlots'
  BY <1>1, <1>2, <1>3, <1>5, <1>6 DEF Inv, AcceptsOnlyInReceive, HasPager, FreeSlots, lifeVars, ipcVars
<1>10. FramesFit'
  BY <1>1, <1>3, <1>5 DEF Inv, FramesFit, Fits
<1>. QED BY <1>5, <1>7, <1>8, <1>9, <1>10 DEF Inv

\* serial_read preserves the invariant.
LEMMA Step_serial_read == ASSUME Inv, NEW c \in CPUs, serial_read(c) PROVE Inv'
<1>1. PICK t \in Tasks :
        /\ At(c, t, "serial")
        /\ \/ /\ input > 0
              /\ \E n \in 1 .. input : input' = input - n
              /\ UserCopy(c, t, "user", stack[t])
              /\ UNCHANGED <<serial_readers, schedVars>>
           \/ /\ serial_readers' = Append(serial_readers, t)
              /\ BlockAt(c, t, "serial", state, runqueue)
              /\ UNCHANGED <<input, stack>>
        /\ UNCHANGED <<lifeVars, timeout, irq_listener, ipcVars, ipiVars, fault>>
  BY DEF serial_read
<1>2. /\ current[c] = t /\ lock = c /\ pc[t] = "serial"
      /\ stack[t] \in Frames /\ Fits(t, pc[t], stack[t])
      /\ state \in [Tasks -> States] /\ runqueue \in Seq(Tasks) /\ pc \in [Tasks -> Places]
      /\ serial_readers \in Seq(Tasks) /\ input \in 0 .. InputMax
  BY <1>1 DEF At, Inv, TypeOK, FramesFit
<1>3. CASE /\ \E n \in 1 .. input : input' = input - n
           /\ UserCopy(c, t, "user", stack[t]) /\ UNCHANGED <<serial_readers, schedVars>>
  <2>1. Fits(t, "user", stack[t])
    BY <1>2 DEF Fits
  <2>2. GoesOn(c, t)
    BY <2>1, <1>2, <1>3, UserCopyGoesOn
  <2>3. /\ UNCHANGED <<state, runqueue, current, senders, pager>> /\ UNCHANGED serial_readers
        /\ wait_for' = wait_for
    BY <1>1, <1>3 DEF lifeVars, ipcVars, schedVars
  <2>4. /\ RunnableOnce' /\ WaitsInOneQueue' /\ AcceptsOnlyInReceive' /\ KernelLocked'
        /\ HasPager' /\ FreeSlots' /\ FramesFit'
        /\ pc' \in [Tasks -> Places] /\ stack' \in [Tasks -> Frames]
        /\ lock' \in CPUs \cup {NoCpu}
    BY <2>2, <2>3, <1>2, ControlStep
  <2>5. input' \in 0 .. InputMax
    BY <1>2, <1>3, SizesAssumption
  <2>6. TypeOK'
    BY <2>3, <2>4, <2>5, <1>1, <1>3 DEF Inv, TypeOK, lifeVars, ipcVars, schedVars, ipiVars
  <2>. QED BY <2>4, <2>6 DEF Inv
<1>4. CASE /\ serial_readers' = Append(serial_readers, t)
           /\ BlockAt(c, t, "serial", state, runqueue) /\ UNCHANGED <<input, stack>>
  <2>1. Scheduled(state, runqueue, {})
    BY RunnableScheduled DEF Inv
  <2>2. /\ RunnableOnce' /\ KernelLocked'
        /\ state' = [state EXCEPT ![t] = "BLOCKED"] /\ pc' = [pc EXCEPT ![t] = "serial"]
        /\ state' \in [Tasks -> States] /\ runqueue' \in Seq(Tasks)
        /\ current' \in [CPUs -> Tasks \cup {Idle}] /\ quantum' \in [CPUs -> 0 .. TASK_QUANTUM]
        /\ pc' \in [Tasks -> Places] /\ lock' \in CPUs \cup {NoCpu}
    <3>1. Blocks(c, t, "serial", state, runqueue)
      BY <2>1, <1>2, <1>4 DEF Blocks, Waits
    <3>. QED BY <3>1, <1>2, BlockStep
  <2>3. /\ t \notin Range(serial_readers) /\ \A d \in Tasks : t \notin Range(senders[d])
        /\ state[t] = "RUNNABLE"
    BY <1>2, Running
  <2>4. /\ serial_readers' \in Seq(Tasks) /\ Range(serial_readers') = Range(serial_readers) \cup {t}
        /\ IsInjective(serial_readers')
    BY <2>3, <1>2, <1>4, AppendList DEF Inv, WaitsInOneQueue
  <2>5. UNCHANGED <<senders, pager, wait_for, stack>>
    BY <1>1, <1>4 DEF lifeVars, ipcVars
  <2>6. WaitsInOneQueue'
    <3>1. \A r \in Range(serial_readers') : state'[r] = "BLOCKED" /\ pc'[r] = "serial"
      BY <2>2, <2>4, <1>2, QueuedTasks DEF Inv, WaitsInOneQueue
    <3>2. ASSUME NEW d \in Tasks, NEW r \in Range(senders[d])
          PROVE  /\ state'[r] = "BLOCKED" /\ pc'[r] = "sendwait"
                 /\ IpcDst(r)' = d /\ wait_for'[r] = IPC_DENY
      <4>1. r \in Tasks /\ r # t
        BY <2>3, QueuedTasks DEF Inv
      <4>2. state[r] = "BLOCKED" /\ pc[r] = "sendwait" /\ IpcDst(r) = d /\ wait_for[r] = IPC_DENY
        BY DEF Inv, WaitsInOneQueue
      <4>. QED BY <4>1, <4>2, <2>2, <2>5, <1>2 DEF IpcDst
    <3>3. \A d \in Tasks : IsInjective(senders[d])
      BY DEF Inv, WaitsInOneQueue
    <3>. QED BY <3>1, <3>2, <3>3, <2>4, <2>5 DEF WaitsInOneQueue
  <2>7. AcceptsOnlyInReceive' /\ HasPager' /\ FreeSlots'
    BY <2>2, <2>3, <2>5, <1>2 DEF Inv, AcceptsOnlyInReceive, HasPager, FreeSlots
  <2>8. FramesFit'
    BY <2>2, <2>5, <1>2 DEF Inv, FramesFit, Fits
  <2>9. TypeOK'
    BY <2>2, <2>4, <2>5, <1>1, <1>4 DEF Inv, TypeOK, lifeVars, ipcVars, ipiVars
  <2>. QED BY <2>2, <2>6, <2>7, <2>8, <2>9 DEF Inv
<1>. QED BY <1>1, <1>3, <1>4

\* recv_resumed preserves the invariant.
LEMMA Step_recv_resumed == ASSUME Inv, NEW c \in CPUs, recv_resumed(c) PROVE Inv'
<1>1. PICK t \in Tasks :
        /\ At(c, t, "recvwait")
        /\ wait_for' = Received(t)
        /\ IF "KERNEL" \in IpcFlags(t)
           THEN ReturnFromIpc(c, t, TRUE)
           ELSE UserCopy(c, t, "user", stack[t])
        /\ UNCHANGED <<lifeVars, devVars, notifications, m, senders, schedVars, ipiVars, fault>>
  BY DEF recv_resumed
<1>2. /\ current[c] = t /\ lock = c /\ stack[t] \in Frames /\ Fits(t, "user", stack[t])
  BY <1>1 DEF At, Inv, TypeOK, FramesFit, Fits
<1>3. GoesOn(c, t)
  <2>1. CASE ReturnFromIpc(c, t, TRUE)
    <3>1. lock \in {c, NoCpu}
      BY <1>2
    <3>. QED BY <3>1, <2>1, ReturnGoesOn, Zenon
  <2>2. CASE UserCopy(c, t, "user", stack[t])
    BY <2>2, <1>2, UserCopyGoesOn
  <2>. QED BY <2>1, <2>2, <1>1
<1>4. /\ UNCHANGED <<state, runqueue, current, senders, pager>> /\ UNCHANGED serial_readers
      /\ wait_for' = [wait_for EXCEPT ![t] = IPC_DENY]
  BY <1>1 DEF lifeVars, devVars, schedVars, Received
<1>5. /\ RunnableOnce' /\ WaitsInOneQueue' /\ AcceptsOnlyInReceive' /\ KernelLocked'
      /\ HasPager' /\ FreeSlots' /\ FramesFit'
      /\ pc' \in [Tasks -> Places] /\ stack' \in [Tasks -> Frames]
      /\ lock' \in CPUs \cup {NoCpu}
  BY <1>2, <1>3, <1>4, ControlStep
<1>6. TypeOK'
  BY <1>1, <1>4, <1>5 DEF Inv, TypeOK, lifeVars, devVars, schedVars, ipiVars
<1>. QED BY <1>5, <1>6 DEF Inv

\* A step that only stops the machine.
LEMMA FaultStep ==
    ASSUME Inv, fault' \in {"none", "panic", "list"},
           UNCHANGED <<lifeVars, devVars, ipcVars, schedVars, ipiVars, ctlVars>>
    PROVE  Inv'
<1>. USE DEF lifeVars, devVars, ipcVars, schedVars, ipiVars, ctlVars
<1>1. TypeOK'
  BY DEF Inv, TypeOK
<1>2. /\ RunnableOnce' /\ WaitsInOneQueue' /\ AcceptsOnlyInReceive' /\ KernelLocked'
      /\ HasPager' /\ FreeSlots' /\ FramesFit'
  BY DEF Inv, RunnableOnce, WaitsInOneQueue, AcceptsOnlyInReceive, KernelLocked, HasPager,
         FreeSlots, FramesFit, IpcDst
<1>. QED BY <1>1, <1>2 DEF Inv

\* sys_task_destroy preserves the invariant.
LEMMA Step_sys_task_destroy == ASSUME Inv, NEW c \in CPUs, sys_task_destroy(c) PROVE Inv'
<1>1. CASE Panic
  BY <1>1, FaultStep DEF Panic
<1>2. CASE ~Panic
  <2>1. PICK t \in Tasks, victim \in Tasks :
          /\ Trap(c, t, "destroy")
          /\ destroyed' = [destroyed EXCEPT ![victim] = TRUE]
          /\ stack' = [stack EXCEPT ![t] = [NoFrame EXCEPT !.call = "sys", !.dst = victim]]
          /\ Goto(c, t, "destroy")
          /\ UNCHANGED <<pager, ref_count, active_tasks, devVars, ipcVars, schedVars, ipiVars, fault>>
    BY <1>2 DEF sys_task_destroy
  <2>. DEFINE f == [NoFrame EXCEPT !.call = "sys", !.dst = victim]
  <2>2. f \in Frames /\ f.call = "sys" /\ f.ret = "user" /\ f.dst = victim
    BY DEF NoFrame, Frames, MsgTypes
  <2>3. current[c] = t /\ pc[t] = "user" /\ lock \in {c, NoCpu} /\ stack' = [stack EXCEPT ![t] = f]
    BY <2>1 DEF Trap
  <2>. HIDE DEF f
  <2>4. Fits(t, "destroy", f) /\ "destroy" \in Places \ Spins
    BY <2>2 DEF Fits, Places, Spins
  <2>5. GoesOn(c, t)
    BY <2>1, <2>2, <2>3, <2>4, GotoGoesOn
  <2>6. /\ UNCHANGED <<state, runqueue, current, senders, pager>> /\ UNCHANGED serial_readers
        /\ wait_for' = wait_for
    BY <2>1 DEF devVars, ipcVars, schedVars
  <2>7. /\ RunnableOnce' /\ WaitsInOneQueue' /\ AcceptsOnlyInReceive' /\ KernelLocked'
        /\ HasPager' /\ FreeSlots' /\ FramesFit'
        /\ pc' \in [Tasks -> Places] /\ stack' \in [Tasks -> Frames]
        /\ lock' \in CPUs \cup {NoCpu}
    BY <2>3, <2>5, <2>6, ControlStep
  <2>8. TypeOK'
    BY <2>1, <2>6, <2>7 DEF Inv, TypeOK, devVars, ipcVars, schedVars, ipiVars
  <2>. QED BY <2>7, <2>8 DEF Inv
<1>. QED BY <1>1, <1>2
-----------------------------------------------------------------------------
(* Inter-processor interrupts.                                             *)

\* ipi_seen preserves the invariant.
LEMMA Step_ipi_seen == ASSUME Inv, NEW c \in CPUs, ipi_seen(c) PROVE Inv'
<1>1. PICK t \in Tasks :
        /\ current[c] = t /\ pc[t] = "ipiwait" /\ pc' = [pc EXCEPT ![t] = "ipilock"]
        /\ UNCHANGED <<lifeVars, devVars, ipcVars, schedVars, ipiVars, stack, lock, fault>>
  BY DEF ipi_seen
<1>2. stack \in [Tasks -> Frames] /\ stack[t] \in Frames /\ Fits(t, pc[t], stack[t])
  BY DEF Inv, TypeOK, FramesFit
<1>3. stack' = [stack EXCEPT ![t] = stack[t]] /\ Fits(t, "ipilock", stack[t])
  BY <1>1, <1>2 DEF Fits
<1>4. "ipilock" \in Places /\ "ipilock" \in Spins
  BY DEF Places, Spins
<1>5. GoesOn(c, t)
  BY <1>1, <1>2, <1>3, <1>4 DEF GoesOn
<1>6. UNCHANGED <<lifeVars, devVars, ipcVars, schedVars, ipiVars, fault>>
  BY <1>1
<1>. QED BY <1>1, <1>5, <1>6, PureControlStep

\* ipi_relock preserves the invariant.
LEMMA Step_ipi_relock == ASSUME Inv, NEW c \in CPUs, ipi_relock(c) PROVE Inv'
<1>1. PICK t \in Tasks :
        /\ lock = NoCpu /\ current[c] = t /\ pc[t] = "ipilock"
        /\ ipi_wait' = [ipi_wait EXCEPT ![c] = ipi_wait[c] \ {Awaited(c)}]
        /\ \/ Goto(c, t, "destroy")
           \/ pc' = [pc EXCEPT ![t] = "ipiwait"] /\ lock' = lock
        /\ UNCHANGED <<lifeVars, devVars, ipcVars, schedVars, ipi_pending, stack, fault>>
  BY DEF ipi_relock
<1>2. stack \in [Tasks -> Frames] /\ stack[t] \in Frames /\ Fits(t, pc[t], stack[t])
  BY DEF Inv, TypeOK, FramesFit
<1>3. /\ stack' = [stack EXCEPT ![t] = stack[t]]
      /\ Fits(t, "ipiwait", stack[t]) /\ Fits(t, "destroy", stack[t])
  BY <1>1, <1>2 DEF Fits
<1>4. "ipiwait" \in Places /\ "ipiwait" \in Spins /\ "destroy" \in Places \ Spins
  BY DEF Places, Spins
<1>5. GoesOn(c, t)
  <2>1. CASE Goto(c, t, "destroy")
    BY <2>1, <1>1, <1>2, <1>3, <1>4, GotoGoesOn
  <2>2. CASE pc' = [pc EXCEPT ![t] = "ipiwait"] /\ lock' = lock
    BY <2>2, <1>2, <1>3, <1>4 DEF GoesOn
  <2>. QED BY <2>1, <2>2, <1>1
<1>6. /\ UNCHANGED <<state, runqueue, current, senders, pager>> /\ UNCHANGED serial_readers
      /\ wait_for' = wait_for
  BY <1>1 DEF lifeVars, devVars, ipcVars, schedVars
<1>7. /\ RunnableOnce' /\ WaitsInOneQueue' /\ AcceptsOnlyInReceive' /\ KernelLocked'
      /\ HasPager' /\ FreeSlots' /\ FramesFit'
      /\ pc' \in [Tasks -> Places] /\ stack' \in [Tasks -> Frames]
      /\ lock' \in CPUs \cup {NoCpu}
  BY <1>1, <1>5, <1>6, ControlStep
<1>8. ipi_wait' \in [CPUs -> SUBSET CPUs]
  BY <1>1 DEF Inv, TypeOK
<1>9. TypeOK'
  BY <1>1, <1>6, <1>7, <1>8, SMTT(30) DEF Inv, TypeOK, lifeVars, devVars, ipcVars, schedVars
<1>. QED BY <1>7, <1>9 DEF Inv

-----------------------------------------------------------------------------
(* Message passing.                                                        *)

\* A task in the middle of a send has a destination.
LEMMA DestinationKnown ==
    ASSUME Inv, NEW c \in CPUs, NEW t \in Tasks, current[c] = t, pc[t] \in {"send", "sendwait"}
    PROVE  IpcDst(t) \in Tasks
<1>1. state[t] # "UNUSED"
  BY Running
<1>2. t # VM => pager[t] \in Tasks
  BY <1>1 DEF Inv, HasPager
<1>3. stack[t].call \in {"none", "sys", "fault", "exit"} /\ Fits(t, pc[t], stack[t])
  BY DEF Inv, TypeOK, Frames, FramesFit
<1>. QED BY <1>2, <1>3 DEF IpcDst, Fits

\* Moving on inside ipc() without a new frame.
LEMMA SameFrameGoesOn ==
    ASSUME Inv, NEW c \in CPUs, NEW t \in Tasks, lock \in {c, NoCpu},
           NEW p \in {"recv", "exit"}, Goto(c, t, p), stack' = stack
    PROVE  GoesOn(c, t)
<1>1. stack \in [Tasks -> Frames] /\ stack[t] \in Frames /\ Fits(t, pc[t], stack[t])
  BY DEF Inv, TypeOK, FramesFit
<1>2. stack' = [stack EXCEPT ![t] = stack[t]] /\ Fits(t, p, stack[t]) /\ p \in Places \ Spins
  BY <1>1 DEF Fits, Places, Spins
<1>. QED BY <1>1, <1>2, GotoGoesOn

\* Handing a message to the destination preserves the invariant, also when the
\* assertion in task_resume fails.
LEMMA DeliverStep ==
    ASSUME Inv, NEW c \in CPUs, NEW t \in Tasks, current[c] = t, lock = c,
           pc[t] \in {"send", "sendwait"}, Deliver(c, t, IpcDst(t))
    PROVE  Inv'
<1>. DEFINE dst == IpcDst(t)
<1>1. dst \in Tasks
  BY DestinationKnown
<1>2. CASE ~CanResume(dst)
  BY <1>2, FaultStep DEF Deliver, Panic
<1>3. CASE CanResume(dst)
  <2>1. /\ m' = [m EXCEPT ![dst] = IpcMessage(t)]
        /\ state' = [state EXCEPT ![dst] = "RUNNABLE"]
        /\ runqueue' = Append(runqueue, dst)
        /\ UNCHANGED <<lifeVars, devVars, wait_for, notifications, senders,
                       current, quantum, ipiVars, fault>>
    BY <1>3 DEF Deliver
  <2>2. GoesOn(c, t)
    <3>1. lock \in {c, NoCpu}
      OBVIOUS
    <3>2. CASE Goto(c, t, "recv") /\ stack' = stack
      BY <3>1, <3>2, SameFrameGoesOn
    <3>3. CASE ReturnFromIpc(c, t, TRUE)
      BY <3>1, <3>3, ReturnGoesOn, Zenon
    <3>4. (Goto(c, t, "recv") /\ stack' = stack) \/ ReturnFromIpc(c, t, TRUE)
      BY <1>3 DEF Deliver
    <3>. QED BY <3>2, <3>3, <3>4
  <2>. HIDE DEF dst
  <2>3. /\ state[dst] = "BLOCKED" /\ dst \notin Range(serial_readers)
        /\ \A d \in Tasks : dst \notin Range(senders[d])
    BY <1>3 DEF CanResume, Linked
  <2>4. /\ state' \in [Tasks -> States] /\ runqueue' \in Seq(Tasks)
        /\ Scheduled(state', runqueue', {})
    BY <2>1, <2>3, <1>1, ResumeOne DEF Inv
  <2>5. RunnableOnce'
    BY <2>1, <2>4, ScheduledRunnable DEF Inv
  <2>6. /\ KernelLocked' /\ FramesFit'
        /\ pc' \in [Tasks -> Places] /\ stack' \in [Tasks -> Frames] /\ lock' \in CPUs \cup {NoCpu}
        /\ \A s \in Tasks \ {t} : pc'[s] = pc[s] /\ stack'[s] = stack[s]
    BY <2>1, <2>2, GoesOnLocked
  <2>7. WaitsInOneQueue' /\ AcceptsOnlyInReceive' /\ HasPager' /\ FreeSlots'
    <3>1. /\ {dst} \in SUBSET Tasks /\ serial_readers' = serial_readers
          /\ UNCHANGED <<senders, pager, wait_for>>
      BY <2>1, <1>1 DEF lifeVars, devVars
    <3>2. state' = [s \in Tasks |-> IF s \in {dst} THEN "RUNNABLE" ELSE state[s]]
      BY <2>1 DEF Inv, TypeOK
    <3>3. IsInjective(serial_readers') /\ Range(serial_readers') \subseteq Range(serial_readers)
      BY <3>1 DEF Inv, WaitsInOneQueue
    <3>4. \A s \in Tasks : state[s] # "RUNNABLE" => pc'[s] = pc[s] /\ stack'[s] = stack[s]
      BY <2>6, Running
    <3>5. \A s \in Tasks : pc[s] = "recvwait" => pc'[s] = "recvwait"
      BY <2>6
    <3>6. \A w \in {dst} : /\ state[w] = "BLOCKED" /\ w \notin Range(serial_readers')
                           /\ \A d \in Tasks : w \notin Range(senders[d])
      BY <2>3, <3>1
    <3>. QED BY <3>1, <3>2, <3>3, <3>4, <3>5, <3>6, ResumeKeeps
  <2>8. IpcMessage(t) \in Messages
    <3>1. stack[t].type \in MsgTypes
      BY DEF Inv, TypeOK, Frames
    <3>. QED BY <3>1 DEF IpcMessage, Messages, MsgTypes
  <2>9. m' \in [Tasks -> Messages]
    BY <2>1, <2>8 DEF Inv, TypeOK
  <2>10. TypeOK'
    BY <2>1, <2>4, <2>6, <2>9 DEF Inv, TypeOK, lifeVars, devVars, ipiVars
  <2>. QED BY <2>5, <2>6, <2>7, <2>10 DEF Inv
<1>. QED BY <1>2, <1>3

\* send_message preserves the invariant.
LEMMA Step_send_message == ASSUME Inv, NEW c \in CPUs, send_message(c) PROVE Inv'
<1>1. PICK t \in Tasks :
        /\ At(c, t, "send")
        /\ \/ Deliver(c, t, IpcDst(t))
           \/ /\ ReturnFromIpc(c, t, FALSE)
              /\ UNCHANGED <<lifeVars, devVars, ipcVars, schedVars, ipiVars, fault>>
           \/ /\ senders' = [senders EXCEPT ![IpcDst(t)] = Append(senders[IpcDst(t)], t)]
              /\ BlockAt(c, t, "sendwait", state, runqueue)
              /\ UNCHANGED <<lifeVars, devVars, wait_for, notifications, m, stack, ipiVars, fault>>
  BY DEF send_message
<1>2. current[c] = t /\ lock = c /\ pc[t] = "send"
  BY <1>1 DEF At
<1>3. CASE Deliver(c, t, IpcDst(t))
  BY <1>2, <1>3, DeliverStep
<1>4. CASE /\ ReturnFromIpc(c, t, FALSE)
           /\ UNCHANGED <<lifeVars, devVars, ipcVars, schedVars, ipiVars, fault>>
  <2>1. lock \in {c, NoCpu}
    BY <1>2
  <2>2. GoesOn(c, t)
    BY <2>1, <1>4, ReturnGoesOn, Zenon
  <2>. QED BY <2>2, <1>2, <1>4, PureControlStep
<1>5. CASE /\ senders' = [senders EXCEPT ![IpcDst(t)] = Append(senders[IpcDst(t)], t)]
           /\ BlockAt(c, t, "sendwait", state, runqueue)
           /\ UNCHANGED <<lifeVars, devVars, wait_for, notifications, m, stack, ipiVars, fault>>
  <2>. DEFINE dst == IpcDst(t)
  <2>1. dst \in Tasks
    BY <1>2, DestinationKnown
  <2>2. /\ state \in [Tasks -> States] /\ runqueue \in Seq(Tasks) /\ pc \in [Tasks -> Places]
        /\ senders \in [Tasks -> Seq(Tasks)] /\ Scheduled(state, runqueue, {})
    BY RunnableScheduled DEF Inv, TypeOK
  <2>3. /\ RunnableOnce' /\ KernelLocked'
        /\ state' = [state EXCEPT ![t] = "BLOCKED"] /\ pc' = [pc EXCEPT ![t] = "sendwait"]
        /\ state' \in [Tasks -> States] /\ runqueue' \in Seq(Tasks)
        /\ current' \in [CPUs -> Tasks \cup {Idle}] /\ quantum' \in [CPUs -> 0 .. TASK_QUANTUM]
        /\ pc' \in [Tasks -> Places] /\ lock' \in CPUs \cup {NoCpu}
    <3>1. Blocks(c, t, "sendwait", state, runqueue)
      BY <2>2, <1>5 DEF Blocks, Waits
    <3>. QED BY <3>1, <1>2, BlockStep
  <2>4. /\ t \notin Range(serial_readers) /\ \A d \in Tasks : t \notin Range(senders[d])
        /\ state[t] = "RUNNABLE"
    BY <1>2, Running
  <2>5. wait_for[t] = IPC_DENY
    BY <2>4, <1>2 DEF Inv, AcceptsOnlyInReceive
  <2>6. UNCHANGED <<pager, wait_for, stack, serial_readers>>
    BY <1>5 DEF lifeVars, devVars
  <2>7. IpcDst(t)' = dst
    BY <2>6 DEF IpcDst
  <2>. HIDE DEF dst
  <2>8. senders' = [senders EXCEPT ![dst] = Append(senders[dst], t)]
    BY <1>5 DEF dst
  <2>9. /\ Append(senders[dst], t) \in Seq(Tasks)
        /\ Range(Append(senders[dst], t)) = Range(senders[dst]) \cup {t}
        /\ IsInjective(Append(senders[dst], t))
    BY <2>1, <2>2, <2>4, AppendList DEF Inv, WaitsInOneQueue
  <2>10. senders' \in [Tasks -> Seq(Tasks)]
    BY <2>2, <2>8, <2>9
  <2>11. WaitsInOneQueue'
    <3>1. \A d \in Tasks : IsInjective(senders'[d]) /\ Range(senders'[d]) \subseteq Range(senders[d]) \cup {t}
      BY <2>2, <2>8, <2>9 DEF Inv, WaitsInOneQueue
    <3>2. \A d \in Tasks : t \in Range(senders'[d]) => d = dst
      BY <2>2, <2>4, <2>8
    <3>3. ASSUME NEW d \in Tasks, NEW r \in Range(senders'[d])
          PROVE  /\ state'[r] = "BLOCKED" /\ pc'[r] = "sendwait"
                 /\ IpcDst(r)' = d /\ wait_for'[r] = IPC_DENY
      <4>1. CASE r = t
        BY <4>1, <3>2, <3>3, <2>2, <2>3, <2>5, <2>6, <2>7
      <4>2. CASE r # t
        <5>1. r \in Range(senders[d]) /\ r \in Tasks
          BY <4>2, <3>1, <3>3, QueuedTasks DEF Inv
        <5>2. state[r] = "BLOCKED" /\ pc[r] = "sendwait" /\ IpcDst(r) = d /\ wait_for[r] = IPC_DENY
          BY <5>1 DEF Inv, WaitsInOneQueue
        <5>. QED BY <5>1, <5>2, <4>2, <2>2, <2>3, <2>6 DEF IpcDst
      <4>. QED BY <4>1, <4>2
    <3>4. \A r \in Range(serial_readers) : state'[r] = "BLOCKED" /\ pc'[r] = "serial"
      BY <2>2, <2>3, <2>4, QueuedTasks DEF Inv, WaitsInOneQueue
    <3>. QED BY <3>1, <3>3, <3>4, <2>6 DEF Inv, WaitsInOneQueue
  <2>12. AcceptsOnlyInReceive' /\ HasPager' /\ FreeSlots'
    BY <2>2, <2>3, <2>4, <2>5, <2>6 DEF Inv, AcceptsOnlyInReceive, HasPager, FreeSlots
  <2>13. FramesFit'
    BY <2>2, <2>3, <2>6, <1>2 DEF Inv, FramesFit, Fits
  <2>14. TypeOK'
    BY <2>3, <2>6, <2>10, <1>5 DEF Inv, TypeOK, lifeVars, devVars, ipiVars
  <2>. QED BY <2>3, <2>11, <2>12, <2>13, <2>14 DEF Inv
<1>. QED BY <1>1, <1>3, <1>4, <1>5

\* send_resumed preserves the invariant.
LEMMA Step_send_resumed == ASSUME Inv, NEW c \in CPUs, send_resumed(c) PROVE Inv'
<1>1. PICK t \in Tasks :
        /\ At(c, t, "sendwait")
        /\ \/ /\ notifications' = [notifications EXCEPT ![t] = @ \ {"ABORTED"}]
              /\ ReturnFromIpc(c, t, FALSE)
              /\ UNCHANGED <<lifeVars, devVars, wait_for, m, senders, schedVars, ipiVars, fault>>
           \/ Deliver(c, t, IpcDst(t))
  BY DEF send_resumed
<1>2. current[c] = t /\ lock = c /\ pc[t] = "sendwait"
  BY <1>1 DEF At
<1>3. CASE Deliver(c, t, IpcDst(t))
  BY <1>2, <1>3, DeliverStep
<1>4. CASE /\ notifications' = [notifications EXCEPT ![t] = @ \ {"ABORTED"}]
           /\ ReturnFromIpc(c, t, FALSE)
           /\ UNCHANGED <<lifeVars, devVars, wait_for, m, senders, schedVars, ipiVars, fault>>
  <2>1. lock \in {c, NoCpu}
    BY <1>2
  <2>2. GoesOn(c, t)
    BY <2>1, <1>4, ReturnGoesOn, Zenon
  <2>3. /\ UNCHANGED <<state, runqueue, current, senders, pager>> /\ UNCHANGED serial_readers
        /\ wait_for' = wait_for
    BY <1>4 DEF lifeVars, devVars, schedVars
  <2>4. /\ RunnableOnce' /\ WaitsInOneQueue' /\ AcceptsOnlyInReceive' /\ KernelLocked'
        /\ HasPager' /\ FreeSlots' /\ FramesFit'
        /\ pc' \in [Tasks -> Places] /\ stack' \in [Tasks -> Frames]
        /\ lock' \in CPUs \cup {NoCpu}
    BY <2>2, <2>3, <1>2, ControlStep
  <2>5. notifications' \in [Tasks -> SUBSET Bits]
    BY <1>4 DEF Inv, TypeOK
  <2>6. TypeOK'
    BY <2>3, <2>4, <2>5, <1>4 DEF Inv, TypeOK, lifeVars, devVars, schedVars, ipiVars
  <2>. QED BY <2>4, <2>6 DEF Inv
<1>. QED BY <1>1, <1>3, <1>4

\* The part of recv_message that waits: st and rq after any sender was resumed, src
\* what the task then waits for, and the senders of t without that sender.
RecvWaits(c, t, src, W, st, rq) ==
    /\ Blocks(c, t, "recvwait", st, rq)
    /\ src \in Tasks \cup {IPC_ANY, IPC_DENY} /\ wait_for' = [wait_for EXCEPT ![t] = src]
    /\ W \in SUBSET Tasks /\ W \cap Range(serial_readers) = {}
    /\ \A s \in Tasks : st[s] = IF s \in W THEN "RUNNABLE" ELSE state[s]
    /\ \A w \in W : state[w] = "BLOCKED"
    /\ senders' \in [Tasks -> Seq(Tasks)]
    /\ \A d \in Tasks : IsInjective(senders'[d]) /\ Range(senders'[d]) \subseteq Range(senders[d]) \ W
    /\ UNCHANGED <<lifeVars, devVars, notifications, m, stack, ipiVars, fault>>

\* recv_message that blocks preserves the invariant.
LEMMA WaitStep ==
    ASSUME Inv, NEW c \in CPUs, NEW t \in Tasks, current[c] = t, lock = c,
           NEW src, NEW W, NEW st, NEW rq, RecvWaits(c, t, src, W, st, rq)
    PROVE  Inv'
<1>0. /\ Blocks(c, t, "recvwait", st, rq) /\ st \in [Tasks -> States]
      /\ src \in Tasks \cup {IPC_ANY, IPC_DENY} /\ wait_for' = [wait_for EXCEPT ![t] = src]
      /\ W \in SUBSET Tasks /\ W \cap Range(serial_readers) = {}
      /\ \A s \in Tasks : st[s] = IF s \in W THEN "RUNNABLE" ELSE state[s]
      /\ \A w \in W : state[w] = "BLOCKED"
      /\ senders' \in [Tasks -> Seq(Tasks)]
      /\ \A d \in Tasks : IsInjective(senders'[d]) /\ Range(senders'[d]) \subseteq Range(senders[d]) \ W
      /\ UNCHANGED <<lifeVars, devVars, notifications, m, stack, ipiVars, fault>>
  BY DEF RecvWaits, Blocks
<1>1. /\ RunnableOnce' /\ KernelLocked'
      /\ state' = [st EXCEPT ![t] = "BLOCKED"] /\ pc' = [pc EXCEPT ![t] = "recvwait"]
      /\ state' \in [Tasks -> States] /\ runqueue' \in Seq(Tasks)
      /\ current' \in [CPUs -> Tasks \cup {Idle}] /\ quantum' \in [CPUs -> 0 .. TASK_QUANTUM]
      /\ pc' \in [Tasks -> Places] /\ lock' \in CPUs \cup {NoCpu}
  <2>1. Blocks(c, t, "recvwait", st, rq)
    BY <1>0
  <2>. QED BY <2>1, BlockStep
<1>2. /\ t \notin Range(serial_readers) /\ \A d \in Tasks : t \notin Range(senders[d])
      /\ state[t] = "RUNNABLE" /\ t \notin W
  BY <1>0, Running
<1>3. /\ UNCHANGED <<pager, stack, serial_readers>>
      /\ wait_for \in [Tasks -> Tasks \cup {IPC_ANY, IPC_DENY}] /\ pc \in [Tasks -> Places]
  BY <1>0 DEF Inv, TypeOK, lifeVars, devVars
<1>4. \A s \in Tasks \ {t} : /\ pc'[s] = pc[s] /\ wait_for'[s] = wait_for[s]
                             /\ state'[s] = IF s \in W THEN "RUNNABLE" ELSE state[s]
  BY <1>0, <1>1, <1>3
<1>5. WaitsInOneQueue'
  <2>1. ASSUME NEW s \in Tasks,
               s \in Range(serial_readers') \/ (\E d \in Tasks : s \in Range(senders'[d]))
        PROVE  /\ state'[s] = state[s] /\ pc'[s] = pc[s] /\ stack'[s] = stack[s]
               /\ pager'[s] = pager[s] /\ wait_for'[s] = wait_for[s]
    <3>1. s # t /\ s \notin W
      BY <2>1, <1>0, <1>2, <1>3
    <3>. QED BY <3>1, <1>3, <1>4
  <2>2. IsInjective(serial_readers') /\ Range(serial_readers') \subseteq Range(serial_readers)
    BY <1>3 DEF Inv, WaitsInOneQueue
  <2>3. \A d \in Tasks : IsInjective(senders'[d]) /\ Range(senders'[d]) \subseteq Range(senders[d])
    BY <1>0
  <2>. QED BY <2>1, <2>2, <2>3, QueuesKept DEF Inv
<1>6. AcceptsOnlyInReceive'
  <2>1. pc'[t] = "recvwait"
    BY <1>1, <1>3
  <2>. QED BY <2>1, <1>0, <1>4, ZenonT(40) DEF Inv, AcceptsOnlyInReceive
<1>7. HasPager' /\ FreeSlots'
  <2>1. state'[t] = "BLOCKED"
    BY <1>0, <1>1
  <2>. QED BY <2>1, <1>0, <1>2, <1>3, <1>4 DEF Inv, HasPager, FreeSlots
<1>8. FramesFit'
  <2>1. pc'[t] = "recvwait"
    BY <1>1, <1>3
  <2>. QED BY <2>1, <1>3, <1>4 DEF Inv, FramesFit, Fits
<1>9. TypeOK'
  BY <1>0, <1>1, <1>3 DEF Inv, TypeOK, lifeVars, devVars, ipiVars
<1>. QED BY <1>1, <1>5, <1>6, <1>7, <1>8, <1>9 DEF Inv

\* recv_message preserves the invariant.
LEMMA Step_recv_message == ASSUME Inv, NEW c \in CPUs, recv_message(c) PROVE Inv'
<1>1. PICK t \in Tasks :
        /\ At(c, t, "recv")
        /\ \/ /\ notifications' = [notifications EXCEPT ![t] = {}]
              /\ UserCopy(c, t, "user", stack[t])
              /\ UNCHANGED <<lifeVars, devVars, wait_for, m, senders, schedVars, ipiVars, fault>>
           \/ /\ ReturnFromIpc(c, t, FALSE)
              /\ UNCHANGED <<lifeVars, devVars, ipcVars, schedVars, ipiVars, fault>>
           \/ /\ wait_for' = [wait_for EXCEPT ![t] = IpcSrc(t)]
              /\ BlockAt(c, t, "recvwait", state, runqueue)
              /\ UNCHANGED <<lifeVars, devVars, notifications, m, senders, stack, ipiVars, fault>>
           \/ /\ \E i \in Matching(t, IpcSrc(t)) :
                    /\ senders' = [senders EXCEPT ![t] = Without(senders[t], senders[t][i])]
                    /\ wait_for' = [wait_for EXCEPT ![t] = senders[t][i]]
                    /\ BlockAt(c, t, "recvwait", [state EXCEPT ![senders[t][i]] = "RUNNABLE"],
                               Append(runqueue, senders[t][i]))
              /\ UNCHANGED <<lifeVars, devVars, notifications, m, stack, ipiVars, fault>>
  BY DEF recv_message
<1>2. /\ current[c] = t /\ lock = c /\ pc[t] = "recv"
      /\ state \in [Tasks -> States] /\ runqueue \in Seq(Tasks)
      /\ senders \in [Tasks -> Seq(Tasks)] /\ pager[t] \in Tasks \cup {NULL}
      /\ stack[t] \in Frames /\ Fits(t, "user", stack[t])
  BY <1>1 DEF At, Inv, TypeOK, FramesFit, Fits
<1>3. CASE /\ notifications' = [notifications EXCEPT ![t] = {}]
           /\ UserCopy(c, t, "user", stack[t])
           /\ UNCHANGED <<lifeVars, devVars, wait_for, m, senders, schedVars, ipiVars, fault>>
  <2>1. GoesOn(c, t)
    BY <1>2, <1>3, UserCopyGoesOn
  <2>2. /\ UNCHANGED <<state, runqueue, current, senders, pager>> /\ UNCHANGED serial_readers
        /\ wait_for' = wait_for
    BY <1>3 DEF lifeVars, devVars, schedVars
  <2>3. /\ RunnableOnce' /\ WaitsInOneQueue' /\ AcceptsOnlyInReceive' /\ KernelLocked'
        /\ HasPager' /\ FreeSlots' /\ FramesFit'
        /\ pc' \in [Tasks -> Places] /\ stack' \in [Tasks -> Frames]
        /\ lock' \in CPUs \cup {NoCpu}
    BY <2>1, <2>2, <1>2, ControlStep
  <2>4. notifications' \in [Tasks -> SUBSET Bits]
    BY <1>3 DEF Inv, TypeOK
  <2>5. TypeOK'
    BY <2>2, <2>3, <2>4, <1>3 DEF Inv, TypeOK, lifeVars, devVars, schedVars, ipiVars
  <2>. QED BY <2>3, <2>5 DEF Inv
<1>4. CASE /\ ReturnFromIpc(c, t, FALSE)
           /\ UNCHANGED <<lifeVars, devVars, ipcVars, schedVars, ipiVars, fault>>
  <2>1. lock \in {c, NoCpu}
    BY <1>2
  <2>2. GoesOn(c, t)
    BY <2>1, <1>4, ReturnGoesOn, Zenon
  <2>. QED BY <2>2, <1>2, <1>4, PureControlStep
<1>5. CASE /\ wait_for' = [wait_for EXCEPT ![t] = IpcSrc(t)]
           /\ BlockAt(c, t, "recvwait", state, runqueue)
           /\ UNCHANGED <<lifeVars, devVars, notifications, m, senders, stack, ipiVars, fault>>
  <2>1. IpcSrc(t) \in Tasks \cup {IPC_ANY, IPC_DENY}
    BY <1>2 DEF IpcSrc, Frames, NULL, IPC_ANY
  <2>2. /\ {} \in SUBSET Tasks /\ \A s \in Tasks : state[s] = IF s \in {} THEN "RUNNABLE" ELSE state[s]
        /\ Scheduled(state, runqueue, {})
    BY <1>2, RunnableScheduled DEF Inv
  <2>3. /\ senders' \in [Tasks -> Seq(Tasks)]
        /\ \A d \in Tasks : IsInjective(senders'[d]) /\ Range(senders'[d]) \subseteq Range(senders[d]) \ {}
    BY <1>2, <1>5 DEF Inv, WaitsInOneQueue
  <2>4. UNCHANGED <<lifeVars, devVars, notifications, m, stack, ipiVars, fault>>
    BY <1>5
  <2>5. RecvWaits(c, t, IpcSrc(t), {}, state, runqueue)
    BY <2>1, <2>2, <2>3, <2>4, <1>2, <1>5 DEF RecvWaits, Blocks, Waits
  <2>. QED BY <2>5, <1>2, WaitStep
<1>6. CASE /\ \E i \in Matching(t, IpcSrc(t)) :
                 /\ senders' = [senders EXCEPT ![t] = Without(senders[t], senders[t][i])]
                 /\ wait_for' = [wait_for EXCEPT ![t] = senders[t][i]]
                 /\ BlockAt(c, t, "recvwait", [state EXCEPT ![senders[t][i]] = "RUNNABLE"],
                            Append(runqueue, senders[t][i]))
           /\ UNCHANGED <<lifeVars, devVars, notifications, m, stack, ipiVars, fault>>
  <2>1. PICK i \in DOMAIN senders[t] :
           /\ senders' = [senders EXCEPT ![t] = Without(senders[t], senders[t][i])]
           /\ wait_for' = [wait_for EXCEPT ![t] = senders[t][i]]
           /\ BlockAt(c, t, "recvwait", [state EXCEPT ![senders[t][i]] = "RUNNABLE"],
                      Append(runqueue, senders[t][i]))
    BY <1>6 DEF Matching
  <2>. DEFINE w == senders[t][i]
              st == [state EXCEPT ![w] = "RUNNABLE"]
              rq == Append(runqueue, w)
  <2>2. w \in Range(senders[t]) /\ w \in Tasks
    BY <2>1, QueuedTasks DEF Inv, Range
  <2>. HIDE DEF w
  <2>3. state[w] = "BLOCKED" /\ pc[w] = "sendwait" /\ IpcDst(w) = t
    BY <2>2 DEF Inv, WaitsInOneQueue
  <2>4. st \in [Tasks -> States] /\ rq \in Seq(Tasks) /\ Scheduled(st, rq, {})
    BY <2>2, <2>3, ResumeOne DEF Inv
  <2>5. \A s \in Tasks : st[s] = IF s \in {w} THEN "RUNNABLE" ELSE state[s]
    BY <1>2
  <2>. HIDE DEF st, rq
  <2>6. /\ senders' = [senders EXCEPT ![t] = Without(senders[t], w)]
        /\ wait_for' = [wait_for EXCEPT ![t] = w] /\ BlockAt(c, t, "recvwait", st, rq)
    BY <2>1 DEF w, st, rq
  <2>7. /\ Without(senders[t], w) \in Seq(Tasks) /\ IsInjective(Without(senders[t], w))
        /\ Range(Without(senders[t], w)) = Range(senders[t]) \ {w}
    BY <1>2, RemoveList DEF Inv, WaitsInOneQueue
  <2>8. senders' \in [Tasks -> Seq(Tasks)]
    BY <2>6, <2>7, <1>2
  <2>9. ASSUME NEW d \in Tasks
        PROVE  IsInjective(senders'[d]) /\ Range(senders'[d]) \subseteq Range(senders[d]) \ {w}
    <3>1. CASE d = t
      BY <3>1, <2>6, <2>7, <1>2
    <3>2. CASE d # t
      <4>1. senders'[d] = senders[d]
        BY <3>2, <2>6, <1>2
      <4>2. w \notin Range(senders[d]) /\ IsInjective(senders[d])
        BY <3>2, <2>3 DEF Inv, WaitsInOneQueue
      <4>. QED BY <4>1, <4>2
    <3>. QED BY <3>1, <3>2
  <2>10. {w} \in SUBSET Tasks /\ {w} \cap Range(serial_readers) = {}
    BY <2>2, <2>3 DEF Inv, WaitsInOneQueue
  <2>11. /\ UNCHANGED <<lifeVars, devVars, notifications, m, stack, ipiVars, fault>>
         /\ w \in Tasks \cup {IPC_ANY, IPC_DENY} /\ \A x \in {w} : state[x] = "BLOCKED"
    BY <2>2, <2>3, <1>6
  <2>12. RecvWaits(c, t, w, {w}, st, rq)
    BY <2>4, <2>5, <2>6, <2>8, <2>9, <2>10, <2>11 DEF RecvWaits, Blocks, Waits
  <2>. QED BY <2>12, <1>2, WaitStep
<1>. QED BY <1>1, <1>3, <1>4, <1>5, <1>6

-----------------------------------------------------------------------------
(* Creation and destruction of tasks.                                      *)

\* alloc_tid finds a free slot, or none.
LEMMA FreeSlotFound == alloc_tid # 0 => alloc_tid \in Tasks /\ state[alloc_tid] = "UNUSED"
<1>. DEFINE F == {i \in Tasks : state[i] = "UNUSED"}
<1>1. CASE F = {}
  BY <1>1 DEF alloc_tid
<1>2. CASE F # {}
  <2>1. F \subseteq Nat
    BY Numbers
  <2>2. \E x \in F : \A y \in F : ~ (<<y, x>> \in OpToRel(<, Nat))
    BY <1>2, <2>1, NatLessThanWellFounded, WFMin
  <2>3. PICK x \in F : \A y \in F : ~ (<<y, x>> \in OpToRel(<, Nat))
    BY <2>2
  <2>4. \A y \in F : ~ (y < x)
    <3>. TAKE y \in F
    <3>1. y \in Nat /\ x \in Nat
      BY <2>1
    <3>2. y < x => <<y, x>> \in OpToRel(<, Nat)
      BY <3>1 DEF OpToRel
    <3>. QED BY <3>2, <2>3
  <2>5. \E z \in F : \A y \in F : z <= y
    BY <2>1, <2>4
  <2>. QED BY <2>5, <1>2 DEF alloc_tid
<1>. QED BY <1>1, <1>2

\* What task_create preserves when it has filled in slot i.
LEMMA CreateStep ==
    ASSUME Inv, NEW c \in CPUs, NEW t \in Tasks, current[c] = t, pc[t] # "recvwait", GoesOn(c, t),
           NEW i \in Tasks, state[i] = "UNUSED", NEW p \in Tasks, InitFields(i, p),
           state' \in {state, [state EXCEPT ![i] = "RUNNABLE"]},
           UNCHANGED <<current, serial_readers>>
    PROVE  /\ WaitsInOneQueue' /\ AcceptsOnlyInReceive' /\ KernelLocked'
           /\ HasPager' /\ FreeSlots' /\ FramesFit'
           /\ pc' \in [Tasks -> Places] /\ stack' \in [Tasks -> Frames] /\ lock' \in CPUs \cup {NoCpu}
           /\ destroyed' \in [Tasks -> BOOLEAN] /\ timeout' \in [Tasks -> Nat]
           /\ wait_for' \in [Tasks -> Tasks \cup {IPC_ANY, IPC_DENY}]
           /\ pager' \in [Tasks -> Tasks \cup {NULL}] /\ senders' \in [Tasks -> Seq(Tasks)]
<1>1. /\ KernelLocked' /\ FramesFit'
      /\ pc' \in [Tasks -> Places] /\ stack' \in [Tasks -> Frames] /\ lock' \in CPUs \cup {NoCpu}
      /\ \A s \in Tasks \ {t} : pc'[s] = pc[s] /\ stack'[s] = stack[s]
  BY GoesOnLocked
<1>2. /\ t \notin Range(serial_readers) /\ \A d \in Tasks : t \notin Range(senders[d])
      /\ state[t] = "RUNNABLE" /\ t # i
  BY Running
<1>3. i \notin Range(serial_readers) /\ \A d \in Tasks : i \notin Range(senders[d])
  BY DEF Inv, WaitsInOneQueue
<1>4. /\ destroyed' = [destroyed EXCEPT ![i] = FALSE] /\ timeout' = [timeout EXCEPT ![i] = 0]
      /\ wait_for' = [wait_for EXCEPT ![i] = IPC_DENY] /\ pager' = [pager EXCEPT ![i] = p]
      /\ senders' = [senders EXCEPT ![i] = <<>>]
  BY DEF InitFields
<1>5. /\ state \in [Tasks -> States] /\ wait_for \in [Tasks -> Tasks \cup {IPC_ANY, IPC_DENY}]
      /\ pager \in [Tasks -> Tasks \cup {NULL}] /\ senders \in [Tasks -> Seq(Tasks)]
      /\ destroyed \in [Tasks -> BOOLEAN] /\ timeout \in [Tasks -> Nat]
  BY DEF Inv, TypeOK
<1>6. /\ destroyed' \in [Tasks -> BOOLEAN] /\ timeout' \in [Tasks -> Nat]
      /\ wait_for' \in [Tasks -> Tasks \cup {IPC_ANY, IPC_DENY}]
      /\ pager' \in [Tasks -> Tasks \cup {NULL}] /\ senders' \in [Tasks -> Seq(Tasks)]
  <2>1. <<>> \in Seq(Tasks)
    OBVIOUS
  <2>. QED BY <2>1, <1>4, <1>5
<1>7. \A s \in Tasks \ {i} : /\ state'[s] = state[s] /\ wait_for'[s] = wait_for[s]
                             /\ pager'[s] = pager[s] /\ senders'[s] = senders[s]
  BY <1>4, <1>5
<1>8. WaitsInOneQueue'
  <2>1. senders'[i] = <<>> /\ Range(senders'[i]) = {} /\ IsInjective(senders'[i])
    BY <1>4, <1>5 DEF Range, IsInjective
  <2>2. \A d \in Tasks : IsInjective(senders'[d]) /\ Range(senders'[d]) \subseteq Range(senders[d])
    BY <2>1, <1>7 DEF Inv, WaitsInOneQueue
  <2>3. ASSUME NEW s \in Tasks,
               s \in Range(serial_readers') \/ (\E d \in Tasks : s \in Range(senders'[d]))
        PROVE  /\ state'[s] = state[s] /\ pc'[s] = pc[s] /\ stack'[s] = stack[s]
               /\ pager'[s] = pager[s] /\ wait_for'[s] = wait_for[s]
    <3>1. s # t /\ s # i
      BY <2>2, <2>3, <1>2, <1>3
    <3>. QED BY <3>1, <1>1, <1>7
  <2>4. IsInjective(serial_readers') /\ Range(serial_readers') \subseteq Range(serial_readers)
    BY DEF Inv, WaitsInOneQueue
  <2>. QED BY <2>2, <2>3, <2>4, QueuesKept DEF Inv
<1>9. AcceptsOnlyInReceive'
  <2>1. wait_for'[i] = IPC_DENY
    BY <1>4, <1>5
  <2>2. wait_for[t] = IPC_DENY
    BY <1>2 DEF Inv, AcceptsOnlyInReceive
  <2>. QED BY <2>1, <2>2, <1>1, <1>2, <1>7 DEF Inv, AcceptsOnlyInReceive
<1>10. HasPager'
  <2>1. pager'[i] = p
    BY <1>4, <1>5
  <2>. QED BY <2>1, <1>7 DEF Inv, HasPager
<1>11. FreeSlots'
  BY <1>1, <1>2, <1>7 DEF Inv, FreeSlots
<1>. QED BY <1>1, <1>6, <1>8, <1>9, <1>10, <1>11

\* The reference counts after init_task_struct are integers.
LEMMA RefCounts ==
    ASSUME ref_count \in [Tasks -> Int], NEW i \in Tasks, NEW p \in Tasks, p # i
    PROVE  /\ [ref_count EXCEPT ![i] = 0] \in [Tasks -> Int]
           /\ [ref_count EXCEPT ![i] = 0, ![p] = @ + 1] \in [Tasks -> Int]
<1>. DEFINE r == [ref_count EXCEPT ![i] = 0]
<1>1. r \in [Tasks -> Int]
  OBVIOUS
<1>2. [ref_count EXCEPT ![i] = 0, ![p] = @ + 1] = [r EXCEPT ![p] = r[p] + 1]
  OBVIOUS
<1>3. r[p] + 1 \in Int
  BY <1>1
<1>4. [r EXCEPT ![p] = r[p] + 1] \in [Tasks -> Int]
  <2>. HIDE DEF r
  <2>. QED BY <1>1, <1>3
<1>. QED BY <1>1, <1>2, <1>4

\* task_create preserves the invariant.
LEMMA Step_task_create == ASSUME Inv, NEW c \in CPUs, task_create(c) PROVE Inv'
<1>1. PICK t \in Tasks :
        /\ At(c, t, "create")
        /\ \/ UNCHANGED <<lifeVars, ipcVars, schedVars, timeout>>
           \/ /\ task_find(stack[t].dst) # NULL /\ alloc_tid # 0
              /\ InitFields(alloc_tid, task_find(stack[t].dst))
              /\ ref_count' = [ref_count EXCEPT ![alloc_tid] = 0]
              /\ UNCHANGED <<active_tasks, notifications, m, schedVars>>
           \/ /\ task_find(stack[t].dst) # NULL /\ alloc_tid # 0
              /\ InitFields(alloc_tid, task_find(stack[t].dst))
              /\ ref_count' = [ref_count EXCEPT ![alloc_tid] = 0, ![task_find(stack[t].dst)] = @ + 1]
              /\ state' = [state EXCEPT ![alloc_tid] = "RUNNABLE"]
              /\ active_tasks' = Append(active_tasks, alloc_tid)
              /\ runqueue' = Append(runqueue, alloc_tid)
              /\ UNCHANGED <<notifications, m, current, quantum>>
        /\ Goto(c, t, "user")
        /\ stack' = [stack EXCEPT ![t] = NoFrame]
        /\ UNCHANGED <<serial_readers, input, irq_listener, ipiVars, fault>>
  BY DEF task_create
<1>2. /\ current[c] = t /\ lock \in {c, NoCpu} /\ pc[t] = "create"
  BY <1>1 DEF At
<1>3. GoesOn(c, t)
  <2>1. Fits(t, "user", NoFrame) /\ "user" \in Places \ Spins
    BY DEF Fits, NoFrame, Places, Spins
  <2>. QED BY <2>1, <1>1, <1>2, FrameTypes, GotoGoesOn
<1>. DEFINE p == task_find(stack[t].dst)
            i == alloc_tid
<1>4. p # NULL => p \in Tasks /\ state[p] # "UNUSED"
  BY DEF task_find, Inv, TypeOK, Frames
<1>5. i # 0 => i \in Tasks /\ state[i] = "UNUSED"
  BY FreeSlotFound
<1>. HIDE DEF p, i
<1>6. CASE UNCHANGED <<lifeVars, ipcVars, schedVars, timeout>>
  <2>1. UNCHANGED <<lifeVars, devVars, ipcVars, schedVars, ipiVars, fault>>
    BY <1>1, <1>6 DEF devVars
  <2>. QED BY <2>1, <1>2, <1>3, PureControlStep
<1>7. CASE /\ p # NULL /\ i # 0 /\ InitFields(i, p)
           /\ ref_count' = [ref_count EXCEPT ![i] = 0]
           /\ UNCHANGED <<active_tasks, notifications, m, schedVars>>
  <2>1. /\ WaitsInOneQueue' /\ AcceptsOnlyInReceive' /\ KernelLocked'
        /\ HasPager' /\ FreeSlots' /\ FramesFit'
        /\ pc' \in [Tasks -> Places] /\ stack' \in [Tasks -> Frames] /\ lock' \in CPUs \cup {NoCpu}
        /\ destroyed' \in [Tasks -> BOOLEAN] /\ timeout' \in [Tasks -> Nat]
        /\ wait_for' \in [Tasks -> Tasks \cup {IPC_ANY, IPC_DENY}]
        /\ pager' \in [Tasks -> Tasks \cup {NULL}] /\ senders' \in [Tasks -> Seq(Tasks)]
    BY <1>1, <1>2, <1>3, <1>4, <1>5, <1>7, CreateStep DEF schedVars
  <2>2. RunnableOnce'
    BY <1>7 DEF Inv, RunnableOnce, schedVars
  <2>3. ref_count' \in [Tasks -> Int]
    <3>1. ref_count \in [Tasks -> Int] /\ i \in Tasks /\ p \in Tasks /\ p # i
      BY <1>4, <1>5, <1>7 DEF Inv, TypeOK
    <3>2. [ref_count EXCEPT ![i] = 0] \in [Tasks -> Int]
      BY <3>1, RefCounts
    <3>. QED BY <3>2, <1>7
  <2>4. TypeOK'
    BY <2>1, <2>3, <1>1, <1>7 DEF Inv, TypeOK, schedVars, ipiVars
  <2>. QED BY <2>1, <2>2, <2>4 DEF Inv
<1>8. CASE /\ p # NULL /\ i # 0 /\ InitFields(i, p)
           /\ ref_count' = [ref_count EXCEPT ![i] = 0, ![p] = @ + 1]
           /\ state' = [state EXCEPT ![i] = "RUNNABLE"]
           /\ active_tasks' = Append(active_tasks, i)
           /\ runqueue' = Append(runqueue, i)
           /\ UNCHANGED <<notifications, m, current, quantum>>
  <2>1. /\ WaitsInOneQueue' /\ AcceptsOnlyInReceive' /\ KernelLocked'
        /\ HasPager' /\ FreeSlots' /\ FramesFit'
        /\ pc' \in [Tasks -> Places] /\ stack' \in [Tasks -> Frames] /\ lock' \in CPUs \cup {NoCpu}
        /\ destroyed' \in [Tasks -> BOOLEAN] /\ timeout' \in [Tasks -> Nat]
        /\ wait_for' \in [Tasks -> Tasks \cup {IPC_ANY, IPC_DENY}]
        /\ pager' \in [Tasks -> Tasks \cup {NULL}] /\ senders' \in [Tasks -> Seq(Tasks)]
    BY <1>1, <1>2, <1>3, <1>4, <1>5, <1>8, CreateStep
  <2>2. /\ state' \in [Tasks -> States] /\ runqueue' \in Seq(Tasks)
        /\ Scheduled(state', runqueue', {})
    BY <1>5, <1>8, ResumeOne DEF Inv
  <2>3. RunnableOnce'
    BY <2>2, <1>8, ScheduledRunnable DEF Inv
  <2>4. ref_count' \in [Tasks -> Int]
    <3>1. ref_count \in [Tasks -> Int] /\ i \in Tasks /\ p \in Tasks /\ p # i
      BY <1>4, <1>5, <1>8 DEF Inv, TypeOK
    <3>2. [ref_count EXCEPT ![i] = 0, ![p] = @ + 1] \in [Tasks -> Int]
      BY <3>1, RefCounts
    <3>. QED BY <3>2, <1>8
  <2>5. active_tasks' \in Seq(Tasks)
    BY <1>5, <1>8, AppendList DEF Inv, TypeOK
  <2>6. TypeOK'
    BY <2>1, <2>2, <2>4, <2>5, <1>1, <1>8 DEF Inv, TypeOK, ipiVars
  <2>. QED BY <2>1, <2>3, <2>6 DEF Inv
<1>. QED BY <1>1, <1>6, <1>7, <1>8 DEF p, i

\* What the end of task_destroy preserves: the victim runs on no CPU, leaves every
\* list it was on, and its slot is free.
LEMMA ReapStep ==
    ASSUME Inv, NEW c \in CPUs, NEW t \in Tasks, current[c] = t, lock = c, pc[t] = "destroy",
           NEW v \in Tasks, NotRunning(v), ~Stale(v), Reap(t, v)
    PROVE  Inv'
<1>1. /\ TypeOK /\ RunnableOnce /\ WaitsInOneQueue /\ AcceptsOnlyInReceive /\ KernelLocked
      /\ HasPager /\ FreeSlots /\ FramesFit
  BY DEF Inv
<1>2. /\ notifications' = [s \in Tasks |-> IF s \in Range(senders[v])
                                           THEN notifications[s] \cup {"ABORTED"}
                                           ELSE notifications[s]]
      /\ active_tasks' = Without(active_tasks, v) /\ runqueue' = Without(runqueue, v)
      /\ serial_readers' = Without(serial_readers, v)
      /\ senders' = [d \in Tasks |-> Without(senders[d], v)]
      /\ state' = [state EXCEPT ![v] = "UNUSED"]
      /\ ref_count' = Unref(v)
      /\ pc' = [pc EXCEPT ![t] = "user", ![v] = "user"]
      /\ stack' = [stack EXCEPT ![t] = NoFrame, ![v] = NoFrame]
      /\ lock' = NoCpu
      /\ UNCHANGED <<destroyed, pager, timeout, input, irq_listener, wait_for, m,
                     current, quantum, ipiVars, fault>>
  BY DEF Reap
<1>3. /\ t \in Range(current) /\ state[t] = "RUNNABLE" /\ t \notin Range(runqueue)
      /\ t \notin Range(serial_readers) /\ \A d \in Tasks : t \notin Range(senders[d])
  BY Running
<1>4. v \notin Range(current) /\ v # t
  BY <1>1, <1>3 DEF NotRunning, RunnableOnce
<1>5. /\ state \in [Tasks -> States] /\ pc \in [Tasks -> Places] /\ stack \in [Tasks -> Frames]
      /\ senders \in [Tasks -> Seq(Tasks)] /\ current \in [CPUs -> Tasks \cup {Idle}]
      /\ active_tasks \in Seq(Tasks) /\ runqueue \in Seq(Tasks) /\ serial_readers \in Seq(Tasks)
      /\ notifications \in [Tasks -> SUBSET Bits] /\ ref_count \in [Tasks -> Int]
  BY <1>1 DEF TypeOK
<1>6. /\ active_tasks' \in Seq(Tasks) /\ runqueue' \in Seq(Tasks) /\ serial_readers' \in Seq(Tasks)
      /\ IsInjective(runqueue') /\ Range(runqueue') = Range(runqueue) \ {v}
      /\ IsInjective(serial_readers') /\ Range(serial_readers') = Range(serial_readers) \ {v}
  BY <1>1, <1>2, <1>5, RemoveList DEF RunnableOnce, WaitsInOneQueue
<1>7. \A d \in Tasks : /\ senders'[d] \in Seq(Tasks) /\ IsInjective(senders'[d])
                       /\ Range(senders'[d]) = Range(senders[d]) \ {v}
  <2>. TAKE d \in Tasks
  <2>1. senders[d] \in Seq(Tasks) /\ IsInjective(senders[d]) /\ senders'[d] = Without(senders[d], v)
    BY <1>1, <1>2, <1>5 DEF WaitsInOneQueue
  <2>. QED BY <2>1, RemoveList
<1>8. /\ state'[v] = "UNUSED" /\ \A s \in Tasks \ {v} : state'[s] = state[s]
      /\ pc'[t] = "user" /\ pc'[v] = "user" /\ stack'[t] = NoFrame /\ stack'[v] = NoFrame
      /\ \A s \in Tasks \ {t, v} : pc'[s] = pc[s] /\ stack'[s] = stack[s]
  BY <1>2, <1>4, <1>5
<1>9. TypeOK'
  <2>1. state' \in [Tasks -> States]
    BY <1>2, <1>5 DEF States
  <2>2. NoFrame \in Frames /\ "user" \in Places
    BY FrameTypes DEF Places
  <2>3. pc' \in [Tasks -> Places] /\ stack' \in [Tasks -> Frames]
    BY <2>2, <1>2, <1>5
  <2>4. senders' \in [Tasks -> Seq(Tasks)]
    BY <1>2, <1>7
  <2>5. notifications' \in [Tasks -> SUBSET Bits]
    BY <1>2, <1>5 DEF Bits
  <2>6. ref_count' \in [Tasks -> Int]
    <3>1. CASE pager[v] \in Tasks
      <4>1. ref_count[pager[v]] - 1 \in Int
        BY <3>1, <1>5
      <4>. QED BY <4>1, <1>2, <1>5 DEF Unref
    <3>2. CASE pager[v] \notin Tasks
      BY <3>2, <1>2, <1>5 DEF Unref
    <3>. QED BY <3>1, <3>2
  <2>. QED BY <2>1, <2>3, <2>4, <2>5, <2>6, <1>1, <1>2, <1>6 DEF TypeOK, ipiVars
<1>10. RunnableOnce'
  <2>1. \A s \in Range(runqueue') : state'[s] = "RUNNABLE" /\ s \notin Range(current)
    <3>. TAKE s \in Range(runqueue')
    <3>1. s \in Range(runqueue) /\ s # v /\ s \in Tasks
      BY <1>1, <1>6, QueuedTasks
    <3>. QED BY <3>1, <1>1, <1>8 DEF RunnableOnce
  <2>2. \A s \in Tasks : /\ s \in Range(current) => state'[s] = "RUNNABLE"
                         /\ state'[s] = "RUNNABLE" => s \in Range(runqueue') \cup Range(current)
    BY <1>1, <1>4, <1>6, <1>8 DEF RunnableOnce
  <2>3. \A a, d \in CPUs : current[a] = current[d] /\ current[a] # Idle => a = d
    BY <1>1 DEF RunnableOnce
  <2>4. current' = current
    BY <1>2
  <2>. QED BY <2>1, <2>2, <2>3, <2>4, <1>6 DEF RunnableOnce
<1>11. WaitsInOneQueue'
  <2>1. ASSUME NEW s \in Tasks,
               s \in Range(serial_readers') \/ (\E d \in Tasks : s \in Range(senders'[d]))
        PROVE  /\ state'[s] = state[s] /\ pc'[s] = pc[s] /\ stack'[s] = stack[s]
               /\ pager'[s] = pager[s] /\ wait_for'[s] = wait_for[s]
    <3>1. CASE s \in Range(serial_readers')
      BY <3>1, <1>2, <1>3, <1>6, <1>8
    <3>2. CASE \E d \in Tasks : s \in Range(senders'[d])
      <4>1. PICK d \in Tasks : s \in Range(senders'[d])
        BY <3>2
      <4>2. s \in Range(senders[d]) /\ s # v
        BY <4>1, <1>7
      <4>3. s # t
        BY <4>2, <1>3
      <4>. QED BY <4>2, <4>3, <1>2, <1>8
    <3>. QED BY <2>1, <3>1, <3>2
  <2>2. \A d \in Tasks : IsInjective(senders'[d]) /\ Range(senders'[d]) \subseteq Range(senders[d])
    BY <1>7
  <2>3. IsInjective(serial_readers') /\ Range(serial_readers') \subseteq Range(serial_readers)
    BY <1>6
  <2>. QED BY <2>1, <2>2, <2>3, <1>1, QueuesKept
<1>12. AcceptsOnlyInReceive'
  <2>1. ASSUME NEW s \in Tasks, state'[s] # "UNUSED", wait_for'[s] # IPC_DENY
        PROVE  pc'[s] = "recvwait"
    <3>1. s # v /\ state[s] # "UNUSED" /\ wait_for[s] # IPC_DENY
      BY <2>1, <1>2, <1>8
    <3>2. pc[s] = "recvwait"
      BY <3>1, <1>1 DEF AcceptsOnlyInReceive
    <3>3. CASE s = t
      BY <3>3, <3>2
    <3>. QED BY <3>1, <3>2, <3>3, <1>8
  <2>. QED BY <2>1 DEF AcceptsOnlyInReceive
<1>13. KernelLocked'
  <2>1. ASSUME NEW a \in CPUs, current[a] # Idle
        PROVE  pc'[current[a]] \in {"user"} \cup Spins
    <3>1. CASE a = c
      BY <3>1, <1>8
    <3>2. CASE a # c
      <4>1. current[a] \in Tasks /\ current[a] # t
        BY <3>2, <2>1, <1>1, <1>5 DEF RunnableOnce
      <4>2. current[a] \in Range(current)
        BY <1>5 DEF Range
      <4>3. pc'[current[a]] = pc[current[a]]
        BY <4>1, <4>2, <1>4, <1>8
      <4>. QED BY <4>3, <3>2, <2>1, <1>1 DEF KernelLocked
    <3>. QED BY <3>1, <3>2
  <2>2. ASSUME NEW s \in Tasks, s \notin Range(current) PROVE pc'[s] \in {"user"} \cup Waits
    <3>1. s # t
      BY <2>2, <1>3
    <3>2. pc[s] \in {"user"} \cup Waits
      BY <2>2, <1>1 DEF KernelLocked
    <3>. QED BY <3>1, <3>2, <1>8
  <2>3. current' = current
    BY <1>2
  <2>. QED BY <2>1, <2>2, <2>3 DEF KernelLocked
<1>14. HasPager' /\ FreeSlots'
  <2>1. pager' = pager
    BY <1>2
  <2>2. HasPager'
    BY <2>1, <1>1, <1>8 DEF HasPager
  <2>3. FreeSlots'
    BY <1>1, <1>3, <1>8 DEF FreeSlots
  <2>. QED BY <2>2, <2>3
<1>15. FramesFit'
  <2>1. ASSUME NEW s \in Tasks PROVE Fits(s, pc'[s], stack'[s])
    <3>1. Fits(s, "user", NoFrame)
      BY DEF Fits, NoFrame
    <3>2. CASE s \in {t, v}
      BY <3>1, <3>2, <1>8
    <3>3. CASE s \notin {t, v}
      <4>1. Fits(s, pc[s], stack[s])
        BY <1>1 DEF FramesFit
      <4>. QED BY <4>1, <3>3, <1>8
    <3>. QED BY <3>2, <3>3
  <2>. QED BY <2>1 DEF FramesFit
<1>. QED BY <1>9, <1>10, <1>11, <1>12, <1>13, <1>14, <1>15 DEF Inv

\* One round of task_destroy preserves the invariant.
LEMMA Step_task_destroy == ASSUME Inv, NEW c \in CPUs, task_destroy(c) PROVE Inv'
<1>1. PICK t \in Tasks :
        /\ At(c, t, "destroy")
        /\ \/ NotRunning(stack[t].dst) /\ Reap(t, stack[t].dst)
           \/ /\ ipi_pending' = [d \in CPUs |-> d # c \/ ipi_pending[d]]
              /\ ipi_wait' = [ipi_wait EXCEPT ![c] = CPUs \ {c}]
              /\ pc' = [pc EXCEPT ![t] = "ipiwait"]
              /\ lock' = NoCpu
              /\ UNCHANGED <<lifeVars, devVars, ipcVars, schedVars, stack, fault>>
  BY DEF task_destroy
<1>2. current[c] = t /\ lock = c /\ pc[t] = "destroy"
  BY <1>1 DEF At
<1>3. stack[t] \in Frames /\ Fits(t, pc[t], stack[t])
  BY DEF Inv, TypeOK, FramesFit
<1>4. stack[t].dst \in Tasks
  BY <1>2, <1>3 DEF Fits
<1>5. CASE NotRunning(stack[t].dst) /\ Reap(t, stack[t].dst)
  <2>1. CASE Stale(stack[t].dst)
    <3>1. /\ fault' \in {"none", "panic", "list"}
          /\ UNCHANGED <<lifeVars, devVars, ipcVars, schedVars, ipiVars, ctlVars>>
      BY <2>1, <1>5 DEF Reap
    <3>. QED BY <3>1, FaultStep
  <2>2. CASE ~Stale(stack[t].dst)
    BY <2>2, <1>2, <1>4, <1>5, ReapStep
  <2>. QED BY <2>1, <2>2
<1>6. CASE /\ ipi_pending' = [d \in CPUs |-> d # c \/ ipi_pending[d]]
           /\ ipi_wait' = [ipi_wait EXCEPT ![c] = CPUs \ {c}]
           /\ pc' = [pc EXCEPT ![t] = "ipiwait"]
           /\ lock' = NoCpu
           /\ UNCHANGED <<lifeVars, devVars, ipcVars, schedVars, stack, fault>>
  <2>1. stack' = [stack EXCEPT ![t] = stack[t]] /\ Fits(t, "ipiwait", stack[t])
    BY <1>2, <1>3, <1>6 DEF Inv, TypeOK, Fits
  <2>2. "ipiwait" \in Places /\ "ipiwait" \in Spins
    BY DEF Places, Spins
  <2>3. GoesOn(c, t)
    BY <2>1, <2>2, <1>2, <1>3, <1>6 DEF GoesOn
  <2>4. /\ UNCHANGED <<state, runqueue, current, senders, pager>> /\ UNCHANGED serial_readers
        /\ wait_for' = wait_for
    BY <1>6 DEF lifeVars, devVars, ipcVars, schedVars
  <2>5. /\ RunnableOnce' /\ WaitsInOneQueue' /\ AcceptsOnlyInReceive' /\ KernelLocked'
        /\ HasPager' /\ FreeSlots' /\ FramesFit'
        /\ pc' \in [Tasks -> Places] /\ stack' \in [Tasks -> Frames]
        /\ lock' \in CPUs \cup {NoCpu}
    BY <2>3, <2>4, <1>2, ControlStep
  <2>6. ipi_pending' \in [CPUs -> BOOLEAN] /\ ipi_wait' \in [CPUs -> SUBSET CPUs]
    <3>1. ipi_wait' \in [CPUs -> SUBSET CPUs]
      BY <1>6 DEF Inv, TypeOK
    <3>2. ipi_pending' \in [CPUs -> BOOLEAN]
      BY <1>6, Zenon DEF Inv, TypeOK
    <3>. QED BY <3>1, <3>2
  <2>7. TypeOK'
    BY <2>4, <2>5, <2>6, <1>6 DEF Inv, TypeOK, lifeVars, devVars, ipcVars, schedVars
  <2>. QED BY <2>5, <2>7 DEF Inv
<1>. QED BY <1>1, <1>5, <1>6

-----------------------------------------------------------------------------
(* The theorems.                                                           *)

\* The state after boot satisfies the invariant.
LEMMA InitInv == Init => Inv
<1>. SUFFICES ASSUME Init PROVE Inv
  OBVIOUS
<1>. DEFINE boot == 1 .. BootTasks
<1>1. /\ boot \subseteq Tasks /\ VM \in boot /\ BootTasks \in Nat \ {0}
      /\ 0 \in CPUs /\ 2 .. BootTasks = boot \ {VM}
  BY SizesAssumption DEF Tasks, CPUs, VM
<1>2. TypeOK
  <2>1. state \in [Tasks -> States] /\ pager \in [Tasks -> Tasks \cup {NULL}]
    BY Numbers DEF Init, States
  <2>2. ref_count \in [Tasks -> Int] /\ timeout \in [Tasks -> Nat] /\ input \in 0 .. InputMax
    BY SizesAssumption DEF Init
  <2>3. destroyed \in [Tasks -> BOOLEAN] /\ ipi_pending \in [CPUs -> BOOLEAN]
    BY Zenon DEF Init
  <2>4. /\ wait_for \in [Tasks -> Tasks \cup {IPC_ANY, IPC_DENY}]
        /\ notifications \in [Tasks -> SUBSET Bits] /\ ipi_wait \in [CPUs -> SUBSET CPUs]
    BY DEF Init
  <2>5. m \in [Tasks -> Messages]
    BY DEF Init, Messages, MsgTypes
  <2>6. senders \in [Tasks -> Seq(Tasks)] /\ serial_readers \in Seq(Tasks)
    BY DEF Init
  <2>7. active_tasks \in Seq(Tasks) /\ runqueue \in Seq(Tasks)
    BY <1>1 DEF Init, Tasks
  <2>8. /\ current \in [CPUs -> Tasks \cup {Idle}] /\ irq_listener \in Tasks \cup {NULL}
        /\ lock \in CPUs \cup {NoCpu} /\ fault \in {"none", "panic", "list"}
    BY Numbers DEF Init
  <2>9. quantum \in [CPUs -> 0 .. TASK_QUANTUM]
    BY SizesAssumption DEF Init
  <2>10. pc \in [Tasks -> Places] /\ stack \in [Tasks -> Frames]
    BY FrameTypes DEF Init, Places
  <2>. QED BY <2>1, <2>2, <2>3, <2>4, <2>5, <2>6, <2>7, <2>8, <2>9, <2>10 DEF TypeOK
<1>3. RunnableOnce
  <2>1. DOMAIN runqueue = 1 .. BootTasks - 1 /\ \A i \in 1 .. BootTasks - 1 : runqueue[i] = i + 1
    BY DEF Init
  <2>2. IsInjective(runqueue)
    BY <2>1, <1>1 DEF IsInjective
  <2>3. Range(runqueue) = 2 .. BootTasks
    <3>1. \A i \in 1 .. BootTasks - 1 : runqueue[i] \in 2 .. BootTasks
      BY <2>1, <1>1
    <3>2. \A j \in 2 .. BootTasks : j - 1 \in 1 .. BootTasks - 1 /\ runqueue[j - 1] = j
      BY <2>1, <1>1
    <3>. QED BY <3>1, <3>2, <2>1 DEF Range
  <2>4. current[0] = VM /\ \A a \in CPUs \ {0} : current[a] = Idle
    BY <1>1 DEF Init
  <2>5. Range(current) \subseteq {VM, Idle} /\ VM \in Range(current)
    BY <2>4, <1>1 DEF Init, Range
  <2>6. \A s \in Tasks : state[s] = IF s \in boot THEN "RUNNABLE" ELSE "UNUSED"
    BY DEF Init
  <2>7. Idle \notin Tasks
    BY Numbers
  <2>. QED BY <2>2, <2>3, <2>4, <2>5, <2>6, <2>7, <1>1 DEF RunnableOnce
<1>4. WaitsInOneQueue
  <2>1. Range(<<>>) = {} /\ IsInjective(<<>>)
    BY DEF Range, IsInjective
  <2>2. serial_readers = <<>> /\ \A d \in Tasks : senders[d] = <<>>
    BY DEF Init
  <2>. QED BY <2>1, <2>2 DEF WaitsInOneQueue
<1>5. AcceptsOnlyInReceive /\ FreeSlots
  BY DEF Init, AcceptsOnlyInReceive, FreeSlots
<1>6. KernelLocked
  <2>1. \A s \in Tasks : pc[s] = "user"
    BY DEF Init
  <2>2. \A a \in CPUs : current[a] # Idle => current[a] \in Tasks
    BY <1>2 DEF TypeOK
  <2>. QED BY <2>1, <2>2 DEF KernelLocked
<1>7. HasPager
  BY <1>1, Numbers DEF Init, HasPager
<1>8. FramesFit
  BY DEF Init, FramesFit, Fits, NoFrame
<1>. QED BY <1>2, <1>3, <1>4, <1>5, <1>6, <1>7, <1>8 DEF Inv

\* Every step of the kernel, of a user task and of a device, and a step in which
\* nothing changes, preserves the invariant.
LEMMA NextInv == Inv /\ [Next]_vars => Inv'
<1>. SUFFICES ASSUME Inv, [Next]_vars PROVE Inv'
  OBVIOUS
<1>1. CASE UNCHANGED vars
  <2>1. /\ fault' \in {"none", "panic", "list"}
        /\ UNCHANGED <<lifeVars, devVars, ipcVars, schedVars, ipiVars, ctlVars>>
    BY <1>1 DEF vars, Inv, TypeOK
  <2>. QED BY <2>1, FaultStep
<1>2. CASE \E c \in CPUs : KernelStep(c)
  <2>1. PICK c \in CPUs : KernelStep(c)
    BY <1>2
  <2>. QED BY <2>1, Step_send_message, Step_send_resumed, Step_recv_message, Step_recv_resumed,
              Step_exit_block, Step_task_create, Step_task_destroy, Step_serial_read DEF KernelStep
<1>3. CASE \E c \in CPUs : User(c)
  <2>1. PICK c \in CPUs : User(c)
    BY <1>3
  <2>. QED BY <2>1, Step_sys_ipc, Step_sys_notify, Step_page_fault, Step_sys_task_exit,
              Step_sys_task_create, Step_sys_task_destroy, Step_sys_time, Step_sys_irq,
              Step_sys_serial_read DEF User
<1>4. CASE \E c \in CPUs : \/ ipi_seen(c) \/ ipi_relock(c) \/ ipi_interrupt(c)
                           \/ timer_interrupt(c) \/ idle_task(c)
                           \/ device_interrupt(c) \/ serial_interrupt(c)
  BY <1>4, Step_ipi_seen, Step_ipi_relock, Step_ipi_interrupt, Step_timer_interrupt,
     Step_idle_task, Step_device_interrupt, Step_serial_interrupt
<1>5. CASE halt
  BY <1>1, <1>5 DEF halt
<1>. QED BY <1>1, <1>2, <1>3, <1>4, <1>5 DEF Next

\* The invariant holds in every reachable state, for any number of tasks and CPUs.
THEOREM Invariant == Spec => []Inv
<1>. QED BY InitInv, NextInv, PTL DEF Spec

\* Every variable keeps its type: the kernel's tables never hold a value out of range.
THEOREM TypeCorrect == Spec => []TypeOK
<1>1. Inv => TypeOK
  BY DEF Inv
<1>. QED BY <1>1, Invariant, PTL

\* The scheduler neither loses a task nor runs one twice: the run queue and the
\* CPUs together hold every runnable task exactly once (task_switch, task_resume,
\* task_destroy).
THEOREM SchedulerCorrect == Spec => []RunnableOnce
<1>1. Inv => RunnableOnce
  BY DEF Inv
<1>. QED BY <1>1, Invariant, PTL

\* A waiting task is on the one list of what it waits for (waitqueue_next is
\* shared by all lists).
THEOREM QueuesCorrect == Spec => []WaitsInOneQueue
<1>1. Inv => WaitsInOneQueue
  BY DEF Inv
<1>. QED BY <1>1, Invariant, PTL

\* wait_for is open only inside a receive, so neither notify nor send_message
\* wakes a task that waits for something else.
THEOREM ReceivesCorrect == Spec => []AcceptsOnlyInReceive
<1>1. Inv => AcceptsOnlyInReceive
  BY DEF Inv
<1>. QED BY <1>1, Invariant, PTL

\* Mutual exclusion in the kernel: only the holder of the big lock runs kernel
\* code, and a task that does not run left the kernel at task_switch.
THEOREM LockCorrect == Spec => []KernelLocked
<1>1. Inv => KernelLocked
  BY DEF Inv
<1>. QED BY <1>1, Invariant, PTL

-----------------------------------------------------------------------------
(* Message passing.                                                        *)

\* The places of task_destroy.
Destroying == {"destroy"} \cup Spins

\* The frame f of task t at p aims at the right task: a send of its own, also one
\* that a page fault interrupts, goes to another task; the last message of
\* task_exit expects no answer; and tasks are created and destroyed by those who may.
Aims(t, p, f) ==
    /\ (p \in {"send", "sendwait"} /\ f.call = "sys") \/ f.ret = "send" => f.dst # t
    /\ p \in {"recv", "recvwait"} => f.call # "exit"
    /\ p = "create" \/ f.ret = "create" => t \in MayCall["create"]
    /\ p \in Destroying => t \in MayCall["destroy"]

\* Nobody but t changes its place or its frame, and t keeps a frame that aims right
\* (at v, a living task nobody depends on, when it is in task_destroy).
OnlyPlaceOf(t) ==
    /\ \A s \in Tasks \ {t} : pc'[s] = pc[s] /\ stack'[s] = stack[s]
    /\ pc'[t] \notin {"sendwait", "recvwait", "dead"}
    /\ Aims(t, pc[t], stack[t]) => Aims(t, pc'[t], stack'[t])
    /\ pc'[t] \in Destroying =>
          LET v == stack'[t].dst
          IN  \/ pc[t] \in Destroying /\ v = stack[t].dst
              \/ v \in Tasks \ {VM} /\ state[v] # "UNUSED" /\ ref_count[v] = 0

-----------------------------------------------------------------------------
(* The kinds of steps.                                                     *)

\* Nothing that matters here changes.
Same == UNCHANGED <<state, pc, stack, pager, ref_count, wait_for, notifications, senders, m,
                    serial_readers, input, fault>>

\* Task t, which runs, goes on; it may give up its wait for a message, take its
\* notifications and read characters, and a sender gives up only when aborted.
Moves(t) ==
    /\ state[t] = "RUNNABLE"
    /\ OnlyPlaceOf(t)
    /\ pc[t] = "sendwait" => Aborted(t)
    /\ pc'[t] = "exit" => /\ stack[t].call = "exit"
                          /\ \/ pc[t] \in {"recv", "recvwait"} \/ Aborted(t)
                             \/ DeadLock(t, IpcDst(t))
    /\ \A s \in Tasks \ {t} : /\ wait_for'[s] = wait_for[s]
                              /\ notifications'[s] = notifications[s]
    /\ wait_for'[t] \in {wait_for[t], IPC_DENY}
    /\ notifications'[t] \subseteq notifications[t]
    /\ input' \in 0 .. input
    /\ UNCHANGED <<state, senders, m, serial_readers, pager, ref_count, fault>>

\* Task t, which runs, stops at p.
StopsAt(t, p) ==
    /\ state[t] = "RUNNABLE"
    /\ pc' = [pc EXCEPT ![t] = p]
    /\ UNCHANGED <<stack, pager, ref_count, notifications, m, input, fault>>

\* The end of task_exit.
Dies(t) ==
    /\ pc[t] = "exit" /\ StopsAt(t, "dead")
    /\ state' = [state EXCEPT ![t] = "BLOCKED"]
    /\ UNCHANGED <<wait_for, senders, serial_readers>>

\* serial_read finds no character.
WaitsForInput(t) ==
    /\ pc[t] = "serial" /\ input = 0 /\ StopsAt(t, "serial")
    /\ state' = [state EXCEPT ![t] = "BLOCKED"]
    /\ serial_readers' = Append(serial_readers, t)
    /\ UNCHANGED <<wait_for, senders>>

\* send_message finds that the destination does not wait for t.
WaitsToSend(t) ==
    /\ pc[t] = "send" /\ StopsAt(t, "sendwait")
    /\ ~Ready(IpcDst(t), t) /\ ~DeadLock(t, IpcDst(t))
    /\ state' = [state EXCEPT ![t] = "BLOCKED"]
    /\ senders' = [senders EXCEPT ![IpcDst(t)] = Append(@, t)]
    /\ UNCHANGED <<wait_for, serial_readers>>

\* recv_message finds nothing it may take.
WaitsToReceive(t) ==
    /\ pc[t] = "recv" /\ StopsAt(t, "recvwait")
    /\ Matching(t, IpcSrc(t)) = {}
    /\ IpcSrc(t) = IPC_ANY => notifications[t] = {}
    /\ state' = [state EXCEPT ![t] = "BLOCKED"]
    /\ wait_for' = [wait_for EXCEPT ![t] = IpcSrc(t)]
    /\ UNCHANGED <<senders, serial_readers>>

\* recv_message picks the sender s.
Picks(t, s) ==
    /\ pc[t] = "recv" /\ StopsAt(t, "recvwait")
    /\ s \in Range(senders[t]) /\ IpcSrc(t) \in {IPC_ANY, s}
    /\ state' = [state EXCEPT ![s] = "RUNNABLE", ![t] = "BLOCKED"]
    /\ senders' = [senders EXCEPT ![t] = Without(@, s)]
    /\ wait_for' = [wait_for EXCEPT ![t] = s]
    /\ UNCHANGED serial_readers

\* t has reached the end of send_message: its destination waits for it, or waited
\* when it resumed t.
ToDeliver(t) ==
    /\ state[t] = "RUNNABLE"
    /\ \/ pc[t] = "send" /\ Ready(IpcDst(t), t)
       \/ pc[t] = "sendwait" /\ ~Aborted(t)

\* The end of send_message.
Delivers(t, d) ==
    /\ ToDeliver(t) /\ d = IpcDst(t) /\ CanResume(d)
    /\ OnlyPlaceOf(t) /\ (pc'[t] = "exit" => stack[t].call = "exit")
    /\ state' = [state EXCEPT ![d] = "RUNNABLE"]
    /\ m' = [m EXCEPT ![d] = IpcMessage(t)]
    /\ UNCHANGED <<wait_for, notifications, senders, pager, ref_count, serial_readers, input, fault>>

\* notify, and the notifications of the timer: the tasks of W are woken, the others
\* may get bits, of which ABORTED is only in the bits users pass.
Notifies(W) ==
    /\ \A w \in W : OpenReceive(w)
    /\ state' = [t \in Tasks |-> IF t \in W THEN "RUNNABLE" ELSE state[t]]
    /\ \A t \in W : notifications'[t] = {}
    /\ \A t \in Tasks \ W : /\ m'[t] = m[t]
                            /\ OpenReceive(t) => notifications'[t] = notifications[t]
                            /\ "ABORTED" \in notifications'[t] =>
                                  Aborted(t) \/ \E bits \in UserBits : "ABORTED" \in bits
    /\ UNCHANGED <<pc, stack, wait_for, senders, pager, ref_count, serial_readers, input, fault>>

\* handle_serial_interrupt.
WakesReaders ==
    /\ state' = [t \in Tasks |-> IF t \in Range(serial_readers) THEN "RUNNABLE" ELSE state[t]]
    /\ serial_readers' = <<>>
    /\ UNCHANGED <<pc, stack, wait_for, notifications, m, senders, pager, ref_count, fault>>

\* task_create with the pager p in the slot i, complete or half-way.
Creates(t, i, p) ==
    /\ state[t] = "RUNNABLE" /\ pc[t] = "create" /\ state[i] = "UNUSED" /\ state[p] # "UNUSED"
    /\ pc' = [pc EXCEPT ![t] = "user"] /\ stack' = [stack EXCEPT ![t] = NoFrame]
    /\ wait_for' = [wait_for EXCEPT ![i] = IPC_DENY]
    /\ pager' = [pager EXCEPT ![i] = p]
    /\ senders' = [senders EXCEPT ![i] = <<>>]
    /\ \/ state' = state /\ ref_count' = [ref_count EXCEPT ![i] = 0]
       \/ /\ state' = [state EXCEPT ![i] = "RUNNABLE"]
          /\ ref_count' = [ref_count EXCEPT ![i] = 0, ![p] = @ + 1]
    /\ UNCHANGED <<notifications, m, serial_readers, input, fault>>

\* The end of task_destroy(v), called by t.
Reaps(t, v) ==
    /\ state[t] = "RUNNABLE" /\ pc[t] = "destroy" /\ v = stack[t].dst /\ v # t
    /\ state' = [state EXCEPT ![v] = "UNUSED"]
    /\ pc' = [pc EXCEPT ![t] = "user", ![v] = "user"]
    /\ stack' = [stack EXCEPT ![t] = NoFrame, ![v] = NoFrame]
    /\ notifications' = [s \in Tasks |-> IF s \in Range(senders[v])
                                         THEN notifications[s] \cup {"ABORTED"}
                                         ELSE notifications[s]]
    /\ serial_readers' = Without(serial_readers, v)
    /\ senders' = [d \in Tasks |-> Without(senders[d], v)]
    /\ ref_count' = Unref(v)
    /\ UNCHANGED <<pager, wait_for, m, input, fault>>

\* An assertion fails or a list is corrupted: the end of send_message finds a task
\* that cannot be resumed, or task_destroy a task with a wrong count or a stale link.
Halts ==
    /\ \/ \E t \in Tasks : ToDeliver(t) /\ ~CanResume(IpcDst(t))
       \/ \E v \in Tasks : ref_count[v] < 0
       \/ \E t \in Tasks : pc[t] = "destroy" /\ Stale(stack[t].dst)
    /\ UNCHANGED <<state, pc, stack, pager, ref_count, wait_for, notifications, senders, m,
                   serial_readers, input>>

StepKind ==
    \/ Same \/ WakesReaders \/ Halts
    \/ \E W \in SUBSET Tasks : Notifies(W)
    \/ \E t \in Tasks : \/ Moves(t) \/ Dies(t) \/ WaitsForInput(t) \/ WaitsToSend(t)
                        \/ WaitsToReceive(t)
    \/ \E t, s \in Tasks : Picks(t, s) \/ Delivers(t, s) \/ Reaps(t, s)
    \/ \E t, i, p \in Tasks : Creates(t, i, p)

-----------------------------------------------------------------------------
(* How a task goes on.                                                     *)

\* A copy from or to user space, which may fault.
LEMMA CopyPlace ==
    ASSUME TypeOK, NEW c, NEW t \in Tasks, NEW p \in {"user", "send", "create"}, NEW f \in Frames,
           UserCopy(c, t, p, f),
           Aims(t, pc[t], stack[t]) => Aims(t, p, f), p = "send" => f.dst # t
    PROVE  OnlyPlaceOf(t) /\ pc'[t] # "exit"
<1>0. /\ "send" \notin Destroying \cup {"sendwait", "recvwait", "dead", "exit"}
      /\ p \notin Destroying \cup {"sendwait", "recvwait", "dead", "exit"}
  BY DEF Destroying, Spins
<1>1. CASE Goto(c, t, p) /\ stack' = [stack EXCEPT ![t] = IF p = "user" THEN NoFrame ELSE f]
  <2>1. /\ pc'[t] = p /\ stack'[t] = IF p = "user" THEN NoFrame ELSE f
        /\ \A s \in Tasks \ {t} : pc'[s] = pc[s] /\ stack'[s] = stack[s]
    BY <1>1 DEF Goto, TypeOK
  <2>2. Aims(t, pc[t], stack[t]) => Aims(t, pc'[t], stack'[t])
    BY <2>1, <1>0 DEF Aims, NoFrame
  <2>. QED BY <2>1, <2>2, <1>0 DEF OnlyPlaceOf
<1>2. CASE Goto(c, t, "send") /\ stack' = [stack EXCEPT ![t] = [f EXCEPT !.call = "fault", !.ret = p]]
  <2>1. /\ pc'[t] = "send" /\ stack'[t] = [f EXCEPT !.call = "fault", !.ret = p]
        /\ \A s \in Tasks \ {t} : pc'[s] = pc[s] /\ stack'[s] = stack[s]
    BY <1>2 DEF Goto, TypeOK
  <2>2. stack'[t].call = "fault" /\ stack'[t].ret = p /\ stack'[t].dst = f.dst
    BY <2>1 DEF Frames
  <2>3. Aims(t, pc[t], stack[t]) => Aims(t, pc'[t], stack'[t])
    BY <2>1, <2>2, <1>0 DEF Aims
  <2>. QED BY <2>1, <2>3, <1>0 DEF OnlyPlaceOf
<1>. QED BY <1>1, <1>2 DEF UserCopy

\* task_exit begins.
LEMMA ExitPlace ==
    ASSUME TypeOK, NEW c, NEW t \in Tasks, StartExit(c, t)
    PROVE  OnlyPlaceOf(t) /\ pc'[t] # "exit"
<1>. DEFINE f == [NoFrame EXCEPT !.call = "exit"]
<1>1. /\ pc'[t] = "send" /\ stack'[t] = f
      /\ \A s \in Tasks \ {t} : pc'[s] = pc[s] /\ stack'[s] = stack[s]
  BY DEF StartExit, Goto, TypeOK
<1>2. f.call = "exit" /\ f.ret = "user"
  BY DEF NoFrame
<1>3. "send" \notin Destroying
  BY DEF Destroying, Spins
<1>. HIDE DEF f
<1>4. Aims(t, pc'[t], stack'[t])
  BY <1>1, <1>2, <1>3 DEF Aims
<1>. QED BY <1>1, <1>3, <1>4 DEF OnlyPlaceOf

\* ipc() returns.
LEMMA ReturnPlace ==
    ASSUME TypeOK, NEW c, NEW t \in Tasks, NEW ok, ReturnFromIpc(c, t, ok)
    PROVE  OnlyPlaceOf(t) /\ (pc'[t] = "exit" => stack[t].call = "exit")
<1>0. /\ stack[t] \in Frames /\ stack[t].ret \in {"user", "send", "create"}
      /\ Destroying \cap {"user", "send", "create", "exit"} = {}
  BY DEF TypeOK, Frames, Destroying, Spins
<1>1. CASE Goto(c, t, "user") /\ stack' = [stack EXCEPT ![t] = NoFrame]
  <2>1. /\ pc'[t] = "user" /\ stack'[t] = NoFrame
        /\ \A s \in Tasks \ {t} : pc'[s] = pc[s] /\ stack'[s] = stack[s]
    BY <1>1 DEF Goto, TypeOK
  <2>. QED BY <2>1, <1>0 DEF OnlyPlaceOf, Aims, NoFrame
<1>2. CASE stack[t].call = "exit" /\ Goto(c, t, "exit") /\ stack' = stack
  <2>1. /\ pc'[t] = "exit" /\ stack'[t] = stack[t]
        /\ \A s \in Tasks \ {t} : pc'[s] = pc[s] /\ stack'[s] = stack[s]
    BY <1>2 DEF Goto, TypeOK
  <2>. QED BY <2>1, <1>0, <1>2 DEF OnlyPlaceOf, Aims
<1>3. CASE /\ Goto(c, t, stack[t].ret)
           /\ stack' = [stack EXCEPT ![t] = IF stack[t].ret = "user" THEN NoFrame
                                            ELSE [stack[t] EXCEPT !.call = "sys", !.ret = "user"]]
  <2>. DEFINE f == [stack[t] EXCEPT !.call = "sys", !.ret = "user"]
  <2>1. /\ pc'[t] = stack[t].ret /\ stack'[t] = IF stack[t].ret = "user" THEN NoFrame ELSE f
        /\ \A s \in Tasks \ {t} : pc'[s] = pc[s] /\ stack'[s] = stack[s]
    BY <1>3 DEF Goto, TypeOK
  <2>2. f.ret = "user" /\ f.dst = stack[t].dst
    BY <1>0 DEF Frames
  <2>. HIDE DEF f
  <2>3. Aims(t, pc[t], stack[t]) => Aims(t, pc'[t], stack'[t])
    BY <2>1, <2>2, <1>0 DEF Aims, NoFrame
  <2>. QED BY <2>1, <2>3, <1>0 DEF OnlyPlaceOf
<1>4. CASE StartExit(c, t)
  BY <1>4, ExitPlace
<1>. QED BY <1>1, <1>2, <1>3, <1>4 DEF ReturnFromIpc

\* A task that only goes on.
LEMMA PureMove ==
    ASSUME Inv, NEW t \in Tasks, state[t] = "RUNNABLE", OnlyPlaceOf(t),
           pc[t] # "sendwait", pc'[t] # "exit",
           UNCHANGED <<state, pager, ref_count, wait_for, notifications, senders, m,
                       serial_readers, input, fault>>
    PROVE  Moves(t)
<1>1. input \in 0 .. input
  BY SizesAssumption DEF Inv, TypeOK
<1>. QED BY <1>1 DEF Moves
-----------------------------------------------------------------------------
(* The kind of every step.                                                 *)

\* The system calls and traps that only lead into the kernel.
LEMMA Kind_calls ==
    ASSUME Inv, NEW c \in CPUs,
           sys_ipc(c) \/ page_fault(c) \/ sys_task_exit(c) \/ sys_task_create(c) \/ sys_serial_read(c)
    PROVE  \E t \in Tasks : Moves(t)
<1>. USE DEF Inv
<1>1. CASE sys_ipc(c)
  <2>. DEFINE F(r) == [NoFrame EXCEPT !.call = "sys", !.dst = r.dst, !.src = r.src,
                                      !.flags = r.flags, !.type = r.type]
  <2>1. PICK t \in Tasks, r \in Requests :
          /\ Trap(c, t, "ipc")
          /\ \/ "SEND" \in r.flags /\ r.dst # t /\ UserCopy(c, t, "send", F(r))
             \/ Goto(c, t, "recv") /\ stack' = [stack EXCEPT ![t] = F(r)]
          /\ UNCHANGED <<lifeVars, devVars, ipcVars, schedVars, ipiVars, fault>>
    BY <1>1 DEF sys_ipc
  <2>2. /\ r.flags \in SUBSET Flags /\ r.dst \in Tasks \cup {NULL}
        /\ r.src \in Tasks \cup {IPC_ANY, IPC_DENY} /\ r.type \in MsgTypes
    BY EnvironmentAssumption DEF Flags, MsgTypes
  <2>3. F(r) \in Frames /\ F(r).call = "sys" /\ F(r).ret = "user" /\ F(r).dst = r.dst
    BY <2>2 DEF NoFrame, Frames
  <2>. HIDE DEF F
  <2>4. state[t] = "RUNNABLE" /\ pc[t] = "user"
    BY <2>1, Running DEF Trap
  <2>5. OnlyPlaceOf(t) /\ pc'[t] # "exit"
    <3>1. CASE r.dst # t /\ UserCopy(c, t, "send", F(r))
      <4>1. Aims(t, "send", F(r))
        BY <3>1, <2>3 DEF Aims, Destroying, Spins
      <4>. QED BY <4>1, <3>1, <2>3, CopyPlace
    <3>2. CASE Goto(c, t, "recv") /\ stack' = [stack EXCEPT ![t] = F(r)]
      <4>1. /\ pc'[t] = "recv" /\ stack'[t] = F(r)
            /\ \A s \in Tasks \ {t} : pc'[s] = pc[s] /\ stack'[s] = stack[s]
        BY <3>2 DEF Goto, TypeOK
      <4>2. Aims(t, "recv", F(r))
        BY <2>3 DEF Aims, Destroying, Spins
      <4>. QED BY <4>1, <4>2 DEF OnlyPlaceOf, Destroying, Spins
    <3>. QED BY <2>1, <3>1, <3>2
  <2>. QED BY <2>1, <2>4, <2>5, PureMove DEF lifeVars, devVars, ipcVars, schedVars
<1>2. CASE page_fault(c)
  <2>1. PICK t \in Tasks :
          /\ Trap(c, t, "page_fault")
          /\ \/ stack' = [stack EXCEPT ![t].call = "fault"] /\ Goto(c, t, "send")
             \/ StartExit(c, t)
          /\ UNCHANGED <<lifeVars, devVars, ipcVars, schedVars, ipiVars, fault>>
    BY <1>2 DEF page_fault
  <2>2. state[t] = "RUNNABLE" /\ pc[t] = "user"
    BY <2>1, Running DEF Trap
  <2>3. ASSUME stack' = [stack EXCEPT ![t].call = "fault"], Goto(c, t, "send")
        PROVE  OnlyPlaceOf(t) /\ pc'[t] # "exit"
    <3>. DEFINE f == [stack[t] EXCEPT !.call = "fault"]
    <3>1. /\ pc'[t] = "send" /\ stack'[t] = f
          /\ \A s \in Tasks \ {t} : pc'[s] = pc[s] /\ stack'[s] = stack[s]
      BY <2>3 DEF Goto, TypeOK
    <3>2. f.call = "fault" /\ f.ret = stack[t].ret /\ f.dst = stack[t].dst
      BY DEF TypeOK, Frames
    <3>. HIDE DEF f
    <3>3. Aims(t, pc[t], stack[t]) => Aims(t, "send", f)
      BY <3>2 DEF Aims, Destroying, Spins
    <3>. QED BY <3>1, <3>3 DEF OnlyPlaceOf, Destroying, Spins
  <2>4. OnlyPlaceOf(t) /\ pc'[t] # "exit"
    BY <2>1, <2>3, ExitPlace
  <2>. QED BY <2>1, <2>2, <2>4, PureMove DEF lifeVars, devVars, ipcVars, schedVars
<1>3. CASE sys_task_exit(c)
  <2>1. PICK t \in Tasks :
          /\ Trap(c, t, "exit") /\ StartExit(c, t)
          /\ UNCHANGED <<lifeVars, devVars, ipcVars, schedVars, ipiVars, fault>>
    BY <1>3 DEF sys_task_exit
  <2>2. state[t] = "RUNNABLE" /\ pc[t] = "user" /\ OnlyPlaceOf(t) /\ pc'[t] # "exit"
    BY <2>1, Running, ExitPlace DEF Trap
  <2>. QED BY <2>1, <2>2, PureMove DEF lifeVars, devVars, ipcVars, schedVars
<1>4. CASE sys_task_create(c)
  <2>1. PICK t \in Tasks, p \in Tasks :
          /\ Trap(c, t, "create")
          /\ UserCopy(c, t, "create", [NoFrame EXCEPT !.call = "sys", !.dst = p])
          /\ UNCHANGED <<lifeVars, devVars, ipcVars, schedVars, ipiVars, fault>>
    BY <1>4 DEF sys_task_create
  <2>. DEFINE f == [NoFrame EXCEPT !.call = "sys", !.dst = p]
  <2>2. f \in Frames /\ f.call = "sys" /\ f.ret = "user"
    BY DEF NoFrame, Frames, MsgTypes
  <2>. HIDE DEF f
  <2>3. state[t] = "RUNNABLE" /\ pc[t] = "user" /\ t \in MayCall["create"]
    BY <2>1, Running DEF Trap
  <2>4. Aims(t, "create", f)
    BY <2>2, <2>3 DEF Aims, Destroying, Spins
  <2>5. OnlyPlaceOf(t) /\ pc'[t] # "exit"
    BY <2>1, <2>2, <2>4, CopyPlace DEF f
  <2>. QED BY <2>1, <2>3, <2>5, PureMove DEF lifeVars, devVars, ipcVars, schedVars
<1>5. CASE sys_serial_read(c)
  <2>1. PICK t \in Tasks :
          /\ Trap(c, t, "serial_read")
          /\ stack' = [stack EXCEPT ![t] = [NoFrame EXCEPT !.call = "sys"]] /\ Goto(c, t, "serial")
          /\ UNCHANGED <<lifeVars, devVars, ipcVars, schedVars, ipiVars, fault>>
    BY <1>5 DEF sys_serial_read
  <2>2. state[t] = "RUNNABLE" /\ pc[t] = "user"
    BY <2>1, Running DEF Trap
  <2>3. /\ pc'[t] = "serial" /\ stack'[t].ret = "user"
        /\ \A s \in Tasks \ {t} : pc'[s] = pc[s] /\ stack'[s] = stack[s]
    BY <2>1 DEF Goto, TypeOK, NoFrame
  <2>4. Aims(t, pc'[t], stack'[t])
    BY <2>3 DEF Aims, Destroying, Spins
  <2>5. OnlyPlaceOf(t)
    BY <2>3, <2>4 DEF OnlyPlaceOf, Destroying, Spins
  <2>. QED BY <2>1, <2>2, <2>3, <2>5, PureMove DEF lifeVars, devVars, ipcVars, schedVars
<1>. QED BY <1>1, <1>2, <1>3, <1>4, <1>5

\* The end of send_message delivers, or an assertion fails.
LEMMA Kind_Deliver ==
    ASSUME Inv, NEW c \in CPUs, NEW t \in Tasks, ToDeliver(t), Deliver(c, t, IpcDst(t)),
           IpcDst(t) \in Tasks
    PROVE  Delivers(t, IpcDst(t)) \/ Halts
<1>. DEFINE d == IpcDst(t)
<1>1. CASE ~CanResume(d)
  <2>1. Panic
    BY <1>1 DEF Deliver
  <2>. QED BY <2>1, <1>1 DEF Panic, Halts, lifeVars, devVars, ipcVars, schedVars, ctlVars
<1>2. CASE CanResume(d)
  <2>. HIDE DEF d
  <2>1. /\ m' = [m EXCEPT ![d] = IpcMessage(t)]
        /\ state' = [state EXCEPT ![d] = "RUNNABLE"]
        /\ UNCHANGED <<lifeVars, devVars, wait_for, notifications, senders, fault>>
    BY <1>2 DEF Deliver, d
  <2>2. OnlyPlaceOf(t) /\ (pc'[t] = "exit" => stack[t].call = "exit")
    <3>1. CASE "RECV" \in IpcFlags(t) /\ Goto(c, t, "recv") /\ stack' = stack
      <4>1. /\ pc'[t] = "recv" /\ stack'[t] = stack[t]
            /\ \A s \in Tasks \ {t} : pc'[s] = pc[s] /\ stack'[s] = stack[s]
        BY <3>1 DEF Goto, Inv, TypeOK
      <4>2. stack[t].call # "exit"
        BY <3>1 DEF IpcFlags
      <4>3. Aims(t, pc[t], stack[t]) => Aims(t, "recv", stack[t])
        BY <4>2 DEF Aims, Destroying, Spins
      <4>. QED BY <4>1, <4>3 DEF OnlyPlaceOf, Destroying, Spins
    <3>2. CASE ReturnFromIpc(c, t, TRUE)
      BY <3>2, ReturnPlace DEF Inv
    <3>. QED BY <1>2, <3>1, <3>2 DEF Deliver, d
  <2>. QED BY <2>1, <2>2, <1>2 DEF Delivers, lifeVars, devVars, d
<1>. QED BY <1>1, <1>2

\* A task in a send has somebody to send to.
LEMMA Kind_send_message ==
    ASSUME Inv, NEW c \in CPUs, send_message(c)
    PROVE  StepKind
<1>1. PICK t \in Tasks :
        /\ At(c, t, "send")
        /\ \/ Ready(IpcDst(t), t) /\ Deliver(c, t, IpcDst(t))
           \/ /\ "NOBLOCK" \in IpcFlags(t) \/ DeadLock(t, IpcDst(t))
              /\ ReturnFromIpc(c, t, FALSE)
              /\ UNCHANGED <<lifeVars, devVars, ipcVars, schedVars, ipiVars, fault>>
           \/ /\ ~Ready(IpcDst(t), t) /\ ~DeadLock(t, IpcDst(t))
              /\ senders' = [senders EXCEPT ![IpcDst(t)] = Append(senders[IpcDst(t)], t)]
              /\ BlockAt(c, t, "sendwait", state, runqueue)
              /\ UNCHANGED <<lifeVars, devVars, wait_for, notifications, m, stack, ipiVars, fault>>
  BY DEF send_message
<1>2. pc[t] = "send" /\ state[t] = "RUNNABLE" /\ TypeOK /\ input \in 0 .. input
  <2>1. pc[t] = "send" /\ current[c] = t
    BY <1>1 DEF At
  <2>2. TypeOK /\ state[t] = "RUNNABLE"
    BY <2>1, Running DEF Inv
  <2>3. input \in 0 .. input
    <3>1. input \in Nat
      BY <2>2, SizesAssumption DEF TypeOK
    <3>. QED BY <3>1
  <2>. QED BY <2>1, <2>2, <2>3
<1>3. CASE Ready(IpcDst(t), t) /\ Deliver(c, t, IpcDst(t))
  <2>1. IpcDst(t) \in Tasks
    BY <1>1, DestinationKnown DEF At
  <2>2. ToDeliver(t)
    BY <1>2, <1>3 DEF ToDeliver
  <2>3. Delivers(t, IpcDst(t)) \/ Halts
    BY <2>1, <2>2, <1>3, Kind_Deliver
  <2>. QED BY <2>1, <2>3 DEF StepKind
<1>4. CASE /\ "NOBLOCK" \in IpcFlags(t) \/ DeadLock(t, IpcDst(t))
           /\ ReturnFromIpc(c, t, FALSE)
           /\ UNCHANGED <<lifeVars, devVars, ipcVars, schedVars, ipiVars, fault>>
  <2>1. OnlyPlaceOf(t) /\ (pc'[t] = "exit" => stack[t].call = "exit")
    BY <1>2, <1>4, ReturnPlace
  <2>2. stack[t].call = "exit" => "NOBLOCK" \notin IpcFlags(t)
    BY DEF IpcFlags
  <2>3. Moves(t)
    BY <1>2, <1>4, <2>1, <2>2 DEF Moves, lifeVars, devVars, ipcVars, schedVars
  <2>. QED BY <2>3 DEF StepKind
<1>5. CASE /\ ~Ready(IpcDst(t), t) /\ ~DeadLock(t, IpcDst(t))
           /\ senders' = [senders EXCEPT ![IpcDst(t)] = Append(senders[IpcDst(t)], t)]
           /\ BlockAt(c, t, "sendwait", state, runqueue)
           /\ UNCHANGED <<lifeVars, devVars, wait_for, notifications, m, stack, ipiVars, fault>>
  <2>1. state' = [state EXCEPT ![t] = "BLOCKED"] /\ pc' = [pc EXCEPT ![t] = "sendwait"]
    BY <1>5 DEF BlockAt, task_switch
  <2>2. WaitsToSend(t)
    BY <1>2, <1>5, <2>1 DEF WaitsToSend, StopsAt, lifeVars, devVars
  <2>. QED BY <2>2 DEF StepKind
<1>. QED BY <1>1, <1>3, <1>4, <1>5

\* A sender that was resumed.
LEMMA Kind_send_resumed ==
    ASSUME Inv, NEW c \in CPUs, send_resumed(c)
    PROVE  StepKind
<1>1. PICK t \in Tasks :
        /\ At(c, t, "sendwait")
        /\ \/ /\ Aborted(t)
              /\ notifications' = [notifications EXCEPT ![t] = @ \ {"ABORTED"}]
              /\ ReturnFromIpc(c, t, FALSE)
              /\ UNCHANGED <<lifeVars, devVars, wait_for, m, senders, schedVars, ipiVars, fault>>
           \/ ~Aborted(t) /\ Deliver(c, t, IpcDst(t))
  BY DEF send_resumed
<1>2. pc[t] = "sendwait" /\ state[t] = "RUNNABLE" /\ TypeOK /\ input \in 0 .. input
  BY <1>1, Running, SizesAssumption, SMTT(30) DEF At, Inv, TypeOK
<1>3. CASE ~Aborted(t) /\ Deliver(c, t, IpcDst(t))
  <2>1. IpcDst(t) \in Tasks
    BY <1>1, DestinationKnown DEF At
  <2>2. ToDeliver(t)
    BY <1>2, <1>3 DEF ToDeliver
  <2>3. Delivers(t, IpcDst(t)) \/ Halts
    BY <2>1, <2>2, <1>3, Kind_Deliver
  <2>. QED BY <2>1, <2>3 DEF StepKind
<1>4. CASE /\ Aborted(t)
           /\ notifications' = [notifications EXCEPT ![t] = @ \ {"ABORTED"}]
           /\ ReturnFromIpc(c, t, FALSE)
           /\ UNCHANGED <<lifeVars, devVars, wait_for, m, senders, schedVars, ipiVars, fault>>
  <2>1. OnlyPlaceOf(t) /\ (pc'[t] = "exit" => stack[t].call = "exit")
    BY <1>2, <1>4, ReturnPlace
  <2>2. /\ notifications'[t] \subseteq notifications[t]
        /\ \A s \in Tasks \ {t} : notifications'[s] = notifications[s]
    BY <1>2, <1>4 DEF TypeOK
  <2>3. Moves(t)
    BY <1>2, <1>4, <2>1, <2>2 DEF Moves, lifeVars, devVars, schedVars
  <2>. QED BY <2>3 DEF StepKind
<1>. QED BY <1>1, <1>3, <1>4

\* A receive up to its wait.
LEMMA Kind_recv_message ==
    ASSUME Inv, NEW c \in CPUs, recv_message(c)
    PROVE  StepKind
<1>. DEFINE src(t) == IpcSrc(t)
            notified(t) == src(t) = IPC_ANY /\ notifications[t] # {}
            Takes(t) == /\ notifications' = [notifications EXCEPT ![t] = {}]
                        /\ UserCopy(c, t, "user", stack[t])
                        /\ UNCHANGED <<lifeVars, devVars, wait_for, m, senders, schedVars,
                                       ipiVars, fault>>
            Fails(t) == /\ ReturnFromIpc(c, t, FALSE)
                        /\ UNCHANGED <<lifeVars, devVars, ipcVars, schedVars, ipiVars, fault>>
            Stops(t) == /\ ~notified(t) /\ Matching(t, src(t)) = {}
                        /\ wait_for' = [wait_for EXCEPT ![t] = src(t)]
                        /\ BlockAt(c, t, "recvwait", state, runqueue)
                        /\ UNCHANGED <<lifeVars, devVars, notifications, m, senders, stack,
                                       ipiVars, fault>>
            Resumes(t, i) == LET sender == senders[t][i]
                             IN  /\ senders' = [senders EXCEPT ![t] = Without(@, sender)]
                                 /\ wait_for' = [wait_for EXCEPT ![t] = sender]
                                 /\ BlockAt(c, t, "recvwait",
                                            [state EXCEPT ![sender] = "RUNNABLE"],
                                            Append(runqueue, sender))
                                 /\ UNCHANGED <<lifeVars, devVars, notifications, m, stack,
                                                ipiVars, fault>>
<1>1. PICK t \in Tasks :
        /\ At(c, t, "recv")
        /\ Takes(t) \/ Fails(t) \/ Stops(t) \/ \E i \in Matching(t, src(t)) : Resumes(t, i)
  BY DEF recv_message
<1>2. pc[t] = "recv" /\ state[t] = "RUNNABLE" /\ TypeOK /\ input \in 0 .. input
  BY <1>1, Running, SizesAssumption, SMTT(30) DEF At, Inv, TypeOK
<1>3. CASE Takes(t)
  <2>0. stack[t] \in Frames /\ (Aims(t, pc[t], stack[t]) => Aims(t, "user", stack[t]))
    BY <1>2 DEF TypeOK, Aims, Destroying, Spins
  <2>1. OnlyPlaceOf(t) /\ pc'[t] # "exit"
    BY <1>2, <1>3, <2>0, CopyPlace
  <2>2. /\ notifications'[t] \subseteq notifications[t]
        /\ \A s \in Tasks \ {t} : notifications'[s] = notifications[s]
    BY <1>2, <1>3 DEF TypeOK
  <2>3. Moves(t)
    BY <1>2, <1>3, <2>1, <2>2 DEF Moves, lifeVars, devVars, schedVars
  <2>. QED BY <2>3 DEF StepKind
<1>4. CASE Fails(t)
  <2>1. OnlyPlaceOf(t) /\ (pc'[t] = "exit" => stack[t].call = "exit")
    BY <1>2, <1>4, ReturnPlace
  <2>2. Moves(t)
    BY <1>2, <1>4, <2>1 DEF Moves, lifeVars, devVars, ipcVars, schedVars
  <2>. QED BY <2>2 DEF StepKind
<1>5. CASE Stops(t)
  <2>1. state' = [state EXCEPT ![t] = "BLOCKED"] /\ pc' = [pc EXCEPT ![t] = "recvwait"]
    BY <1>5 DEF BlockAt, task_switch
  <2>2. WaitsToReceive(t)
    BY <1>2, <1>5, <2>1 DEF WaitsToReceive, StopsAt, lifeVars, devVars
  <2>. QED BY <2>2 DEF StepKind
<1>6. CASE \E i \in Matching(t, src(t)) : Resumes(t, i)
  <2>1. PICK i \in Matching(t, src(t)) : Resumes(t, i)
    BY <1>6
  <2>. DEFINE s == senders[t][i]
  <2>2. s \in Range(senders[t]) /\ IpcSrc(t) \in {IPC_ANY, s}
    BY DEF Matching, Range
  <2>3. s \in Tasks
    BY <2>2, <1>2, QueuedTasks
  <2>4. /\ state' = [state EXCEPT ![s] = "RUNNABLE", ![t] = "BLOCKED"]
        /\ pc' = [pc EXCEPT ![t] = "recvwait"]
    BY <2>1 DEF BlockAt, task_switch
  <2>5. Picks(t, s)
    BY <1>2, <2>1, <2>2, <2>4 DEF Picks, StopsAt, lifeVars, devVars
  <2>. QED BY <2>3, <2>5 DEF StepKind
<1>. QED BY <1>1, <1>3, <1>4, <1>5, <1>6

\* A receive that has its message.
LEMMA Kind_recv_resumed ==
    ASSUME Inv, NEW c \in CPUs, recv_resumed(c)
    PROVE  StepKind
<1>1. PICK t \in Tasks :
        /\ At(c, t, "recvwait") /\ wait_for' = Received(t)
        /\ ReturnFromIpc(c, t, TRUE) \/ UserCopy(c, t, "user", stack[t])
        /\ UNCHANGED <<lifeVars, devVars, notifications, m, senders, schedVars, ipiVars, fault>>
  BY DEF recv_resumed
<1>2. pc[t] = "recvwait" /\ state[t] = "RUNNABLE" /\ TypeOK /\ input \in 0 .. input
  BY <1>1, Running, SizesAssumption, SMTT(30) DEF At, Inv, TypeOK
<1>3. wait_for'[t] = IPC_DENY /\ \A s \in Tasks \ {t} : wait_for'[s] = wait_for[s]
  BY <1>1, <1>2 DEF Received, TypeOK
<1>4. stack[t] \in Frames /\ (Aims(t, pc[t], stack[t]) => Aims(t, "user", stack[t]))
  BY <1>2 DEF TypeOK, Aims, Destroying, Spins
<1>5. OnlyPlaceOf(t) /\ (pc'[t] = "exit" => stack[t].call = "exit")
  BY <1>1, <1>2, <1>4, CopyPlace, ReturnPlace
<1>6. Moves(t)
  BY <1>1, <1>2, <1>3, <1>5 DEF Moves, lifeVars, devVars, schedVars
<1>. QED BY <1>6 DEF StepKind

\* The end of an exiting task.
LEMMA Kind_exit_block ==
    ASSUME Inv, NEW c \in CPUs, exit_block(c)
    PROVE  StepKind
<1>1. PICK t \in Tasks :
        /\ At(c, t, "exit") /\ BlockAt(c, t, "dead", state, runqueue)
        /\ UNCHANGED <<lifeVars, devVars, ipcVars, stack, ipiVars, fault>>
  BY DEF exit_block
<1>2. pc[t] = "exit" /\ state[t] = "RUNNABLE"
  BY <1>1, Running DEF At
<1>3. state' = [state EXCEPT ![t] = "BLOCKED"] /\ pc' = [pc EXCEPT ![t] = "dead"]
  BY <1>1 DEF BlockAt, task_switch
<1>4. Dies(t)
  BY <1>1, <1>2, <1>3 DEF Dies, StopsAt, lifeVars, devVars, ipcVars
<1>. QED BY <1>4 DEF StepKind

\* A reader of the console.
LEMMA Kind_serial_read ==
    ASSUME Inv, NEW c \in CPUs, serial_read(c)
    PROVE  StepKind
<1>. DEFINE Takes(t) == /\ \E n \in 1 .. input : input' = input - n
                        /\ UserCopy(c, t, "user", stack[t])
                        /\ UNCHANGED <<serial_readers, schedVars>>
            Stops(t) == /\ input = 0
                        /\ serial_readers' = Append(serial_readers, t)
                        /\ BlockAt(c, t, "serial", state, runqueue)
                        /\ UNCHANGED <<input, stack>>
<1>1. PICK t \in Tasks : /\ At(c, t, "serial") /\ (Takes(t) \/ Stops(t))
                         /\ UNCHANGED <<lifeVars, timeout, irq_listener, ipcVars, ipiVars, fault>>
  BY DEF serial_read
<1>2. pc[t] = "serial" /\ state[t] = "RUNNABLE" /\ TypeOK /\ input \in Nat
  <2>1. pc[t] = "serial" /\ current[c] = t
    BY <1>1 DEF At
  <2>2. TypeOK /\ state[t] = "RUNNABLE"
    BY <2>1, Running DEF Inv
  <2>3. input \in Nat
    BY <2>2, SizesAssumption DEF TypeOK
  <2>. QED BY <2>1, <2>2, <2>3
<1>3. CASE Takes(t)
  <2>0. stack[t] \in Frames /\ (Aims(t, pc[t], stack[t]) => Aims(t, "user", stack[t]))
    BY <1>2 DEF TypeOK, Aims, Destroying, Spins
  <2>1. OnlyPlaceOf(t) /\ pc'[t] # "exit"
    BY <1>2, <1>3, <2>0, CopyPlace
  <2>2. input' \in 0 .. input
    BY <1>2, <1>3
  <2>3. Moves(t)
    BY <1>1, <1>2, <1>3, <2>1, <2>2 DEF Moves, lifeVars, ipcVars, schedVars
  <2>. QED BY <2>3 DEF StepKind
<1>4. CASE Stops(t)
  <2>1. state' = [state EXCEPT ![t] = "BLOCKED"] /\ pc' = [pc EXCEPT ![t] = "serial"]
    BY <1>4 DEF BlockAt, task_switch
  <2>2. WaitsForInput(t)
    BY <1>1, <1>2, <1>4, <2>1 DEF WaitsForInput, StopsAt, lifeVars, ipcVars
  <2>. QED BY <2>2 DEF StepKind
<1>. QED BY <1>1, <1>3, <1>4

\* A task that returns to user mode with an empty stack.
LEMMA UserPlace ==
    ASSUME TypeOK, NEW c, NEW t \in Tasks, Goto(c, t, "user"), stack' = [stack EXCEPT ![t] = NoFrame]
    PROVE  OnlyPlaceOf(t) /\ pc'[t] # "exit"
<1>1. /\ pc'[t] = "user" /\ stack'[t] = NoFrame
      /\ \A s \in Tasks \ {t} : pc'[s] = pc[s] /\ stack'[s] = stack[s]
  BY DEF Goto, TypeOK
<1>. QED BY <1>1 DEF OnlyPlaceOf, Aims, NoFrame, Destroying, Spins

\* The creation of a task.
LEMMA Kind_task_create ==
    ASSUME Inv, NEW c \in CPUs, task_create(c)
    PROVE  StepKind
<1>. DEFINE p(t) == task_find(stack[t].dst)
            i == alloc_tid
            Half(t) == /\ InitFields(i, p(t))
                       /\ ref_count' = [ref_count EXCEPT ![i] = 0]
                       /\ UNCHANGED <<active_tasks, notifications, m, schedVars>>
            Full(t) == /\ InitFields(i, p(t))
                       /\ ref_count' = [ref_count EXCEPT ![i] = 0, ![p(t)] = @ + 1]
                       /\ state' = [state EXCEPT ![i] = "RUNNABLE"]
                       /\ UNCHANGED <<notifications, m, current, quantum>>
<1>1. PICK t \in Tasks :
        /\ At(c, t, "create")
        /\ \/ UNCHANGED <<lifeVars, ipcVars, schedVars, timeout>>
           \/ /\ p(t) # NULL /\ i # 0
              /\ Half(t) \/ Full(t)
        /\ Goto(c, t, "user") /\ stack' = [stack EXCEPT ![t] = NoFrame]
        /\ UNCHANGED <<serial_readers, input, irq_listener, ipiVars, fault>>
  BY DEF task_create
<1>2. pc[t] = "create" /\ state[t] = "RUNNABLE" /\ TypeOK
  BY <1>1, Running DEF At, Inv
<1>3. CASE UNCHANGED <<lifeVars, ipcVars, schedVars, timeout>>
  <2>1. OnlyPlaceOf(t) /\ pc'[t] # "exit"
    BY <1>1, <1>2, UserPlace
  <2>2. Moves(t)
    BY <1>1, <1>2, <1>3, <2>1, PureMove DEF lifeVars, ipcVars, schedVars
  <2>. QED BY <2>2 DEF StepKind
<1>4. CASE p(t) # NULL /\ i # 0 /\ (Half(t) \/ Full(t))
  <2>1. i \in Tasks /\ state[i] = "UNUSED"
    BY <1>4, FreeSlotFound
  <2>2. p(t) \in Tasks /\ state[p(t)] # "UNUSED"
    BY <1>2, <1>4 DEF task_find, TypeOK, Frames, NULL
  <2>. DEFINE q == p(t)
  <2>3. q \in Tasks /\ state[q] # "UNUSED"
    BY <2>2
  <2>4. /\ wait_for' = [wait_for EXCEPT ![i] = IPC_DENY]
        /\ pager' = [pager EXCEPT ![i] = q]
        /\ senders' = [senders EXCEPT ![i] = <<>>]
        /\ UNCHANGED <<notifications, m>>
        /\ \/ state' = state /\ ref_count' = [ref_count EXCEPT ![i] = 0]
           \/ /\ state' = [state EXCEPT ![i] = "RUNNABLE"]
              /\ ref_count' = [ref_count EXCEPT ![i] = 0, ![q] = @ + 1]
    BY <1>4 DEF InitFields, schedVars
  <2>. HIDE DEF q, i
  <2>5. Creates(t, i, q)
    BY <1>1, <1>2, <2>1, <2>3, <2>4 DEF Creates, Goto
  <2>. QED BY <2>1, <2>3, <2>5 DEF StepKind
<1>. QED BY <1>1, <1>3, <1>4

\* sys_task_destroy finds a victim it may destroy.
LEMMA Kind_sys_task_destroy ==
    ASSUME Inv, NEW c \in CPUs, sys_task_destroy(c)
    PROVE  StepKind
<1>. DEFINE Starts(t, v) ==
                /\ v # VM /\ ref_count[v] = 0
                /\ stack' = [stack EXCEPT ![t] = [NoFrame EXCEPT !.call = "sys", !.dst = v]]
                /\ Goto(c, t, "destroy")
                /\ UNCHANGED <<pager, ref_count, active_tasks, devVars, ipcVars, schedVars,
                               ipiVars, fault>>
<1>1. PICK t \in Tasks, v \in Tasks :
        /\ Trap(c, t, "destroy") /\ task_find(v) # NULL
        /\ IF ref_count[v] < 0 THEN Panic ELSE Starts(t, v)
  BY DEF sys_task_destroy
<1>2. pc[t] = "user" /\ state[t] = "RUNNABLE" /\ TypeOK /\ t \in MayCall["destroy"]
  BY <1>1, Running DEF Trap, Inv
<1>3. CASE ref_count[v] < 0
  <2>1. Halts
    BY <1>1, <1>3 DEF Panic, Halts, lifeVars, devVars, ipcVars, schedVars, ctlVars
  <2>. QED BY <2>1 DEF StepKind
<1>4. CASE Starts(t, v)
  <2>0. state[v] # "UNUSED"
    BY <1>1 DEF task_find, NULL
  <2>1. /\ pc'[t] = "destroy" /\ stack'[t] = [NoFrame EXCEPT !.call = "sys", !.dst = v]
        /\ \A s \in Tasks \ {t} : pc'[s] = pc[s] /\ stack'[s] = stack[s]
    BY <1>2, <1>4 DEF Goto, TypeOK
  <2>2. stack'[t].ret = "user" /\ stack'[t].dst = v
    BY <2>1 DEF NoFrame
  <2>3. Aims(t, pc'[t], stack'[t])
    BY <1>2, <2>1, <2>2 DEF Aims
  <2>4. OnlyPlaceOf(t)
    BY <1>4, <2>0, <2>1, <2>2, <2>3 DEF OnlyPlaceOf
  <2>5. Moves(t)
    BY <1>2, <1>4, <2>1, <2>4, PureMove DEF devVars, ipcVars, schedVars
  <2>. QED BY <2>5 DEF StepKind
<1>. QED BY <1>1, <1>3, <1>4

\* The loop of task_destroy, and the wait of arch_send_ipi inside it.
LEMMA Kind_task_destroy ==
    ASSUME Inv, NEW c \in CPUs, task_destroy(c) \/ ipi_seen(c) \/ ipi_relock(c)
    PROVE  StepKind
<1>1. ASSUME NEW t \in Tasks, current[c] = t, pc[t] \in Destroying,
             NEW p \in Destroying, pc' = [pc EXCEPT ![t] = p], stack' = stack,
             UNCHANGED <<lifeVars, devVars, ipcVars, schedVars, fault>>
      PROVE  StepKind
  <2>1. state[t] = "RUNNABLE" /\ TypeOK
    BY <1>1, Running DEF Inv
  <2>2. pc'[t] = p /\ \A s \in Tasks \ {t} : pc'[s] = pc[s]
    BY <1>1, <2>1 DEF TypeOK
  <2>3. {pc[t], p} \cap {"send", "sendwait", "recv", "recvwait", "dead", "create", "exit"} = {}
    BY <1>1 DEF Destroying, Spins
  <2>4. Aims(t, pc[t], stack[t]) => Aims(t, pc'[t], stack'[t])
    BY <1>1, <2>2, <2>3 DEF Aims
  <2>5. OnlyPlaceOf(t)
    BY <1>1, <2>2, <2>3, <2>4 DEF OnlyPlaceOf
  <2>6. Moves(t)
    BY <1>1, <2>1, <2>2, <2>3, <2>5, PureMove DEF lifeVars, devVars, ipcVars, schedVars
  <2>. QED BY <2>6 DEF StepKind
<1>2. CASE ipi_seen(c)
  <2>1. PICK t \in Tasks : /\ current[c] = t /\ pc[t] = "ipiwait"
                           /\ pc' = [pc EXCEPT ![t] = "ipilock"]
                           /\ UNCHANGED <<lifeVars, devVars, ipcVars, schedVars, stack, fault>>
    BY <1>2 DEF ipi_seen
  <2>. QED BY <2>1, <1>1 DEF Destroying, Spins
<1>3. CASE ipi_relock(c)
  <2>1. PICK t \in Tasks : /\ current[c] = t /\ pc[t] = "ipilock"
                           /\ \E p \in {"destroy", "ipiwait"} : pc' = [pc EXCEPT ![t] = p]
                           /\ UNCHANGED <<lifeVars, devVars, ipcVars, schedVars, stack, fault>>
    BY <1>3 DEF ipi_relock, Goto
  <2>. QED BY <2>1, <1>1 DEF Destroying, Spins
<1>4. CASE task_destroy(c)
  <2>1. PICK t \in Tasks :
          /\ At(c, t, "destroy")
          /\ \/ NotRunning(stack[t].dst) /\ Reap(t, stack[t].dst)
             \/ /\ pc' = [pc EXCEPT ![t] = "ipiwait"]
                /\ UNCHANGED <<lifeVars, devVars, ipcVars, schedVars, stack, fault>>
    BY <1>4 DEF task_destroy
  <2>2. /\ pc[t] = "destroy" /\ current[c] = t /\ state[t] = "RUNNABLE" /\ TypeOK
        /\ t \notin Range(runqueue)
    BY <2>1, Running DEF At, Inv
  <2>3. CASE /\ pc' = [pc EXCEPT ![t] = "ipiwait"]
             /\ UNCHANGED <<lifeVars, devVars, ipcVars, schedVars, stack, fault>>
    BY <2>2, <2>3, <1>1 DEF Destroying, Spins
  <2>4. CASE NotRunning(stack[t].dst) /\ Reap(t, stack[t].dst)
    <3>. DEFINE v == stack[t].dst
    <3>1. v \in Tasks
      BY <2>2 DEF Inv, FramesFit, Fits
    <3>2. v # t
      BY <2>2, <2>4 DEF NotRunning
    <3>. HIDE DEF v
    <3>3. CASE Stale(v)
      <4>1. UNCHANGED <<lifeVars, devVars, ipcVars, schedVars, ipiVars, ctlVars>>
        BY <2>4, <3>3 DEF Reap, v
      <4>2. Halts
        BY <2>2, <3>3, <4>1 DEF Halts, lifeVars, devVars, ipcVars, schedVars, ctlVars, v
      <4>. QED BY <4>2 DEF StepKind
    <3>4. CASE ~Stale(v)
      <4>1. Reaps(t, v)
        BY <2>2, <2>4, <3>2, <3>4 DEF Reap, Reaps, v
      <4>. QED BY <3>1, <4>1 DEF StepKind
    <3>. QED BY <3>3, <3>4
  <2>. QED BY <2>1, <2>3, <2>4
<1>. QED BY <1>2, <1>3, <1>4

\* A task, a device or the timer notifies tasks.
LEMMA Kind_notifications ==
    ASSUME Inv, NEW c \in CPUs, sys_notify(c) \/ device_interrupt(c) \/ timer_interrupt(c)
    PROVE  StepKind
<1>. USE DEF Inv
<1>1. ASSUME NEW d \in Tasks, NEW bits, notify(d, bits),
             "ABORTED" \in bits => \E b \in UserBits : "ABORTED" \in b,
             UNCHANGED <<pc, stack, wait_for, senders, pager, ref_count, serial_readers, input, fault>>
      PROVE  StepKind
  <2>1. CASE OpenReceive(d)
    <3>1. /\ state' = [t \in Tasks |-> IF t \in {d} THEN "RUNNABLE" ELSE state[t]]
          /\ notifications'[d] = {}
          /\ \A t \in Tasks \ {d} : m'[t] = m[t] /\ notifications'[t] = notifications[t]
      BY <1>1, <2>1 DEF notify, TypeOK
    <3>2. Notifies({d})
      BY <1>1, <2>1, <3>1 DEF Notifies, Aborted
    <3>. QED BY <3>2 DEF StepKind
  <2>2. CASE ~OpenReceive(d)
    <3>1. /\ state' = state /\ m' = m
          /\ notifications'[d] = notifications[d] \cup bits
          /\ \A t \in Tasks \ {d} : notifications'[t] = notifications[t]
      BY <1>1, <2>2 DEF notify, TypeOK
    <3>2. state' = [t \in Tasks |-> IF t \in {} THEN "RUNNABLE" ELSE state[t]]
      BY <3>1 DEF TypeOK
    <3>3. Notifies({})
      BY <1>1, <2>2, <3>1, <3>2 DEF Notifies, Aborted
    <3>. QED BY <3>3 DEF StepKind
  <2>. QED BY <2>1, <2>2
<1>2. CASE sys_notify(c)
  <2>1. PICK d \in Tasks, bits \in UserBits :
          /\ notify(d, bits)
          /\ UNCHANGED <<lifeVars, devVars, wait_for, senders, ctlVars, fault>>
    BY <1>2 DEF sys_notify
  <2>. QED BY <2>1, <1>1 DEF lifeVars, devVars, ctlVars
<1>3. CASE device_interrupt(c)
  <2>1. /\ notify(irq_listener, {"IRQ"}) /\ irq_listener \in Tasks
        /\ UNCHANGED <<lifeVars, devVars, wait_for, senders, ctlVars, fault>>
    BY <1>3 DEF device_interrupt, TypeOK
  <2>. QED BY <2>1, <1>1 DEF lifeVars, devVars, ctlVars
<1>4. CASE timer_interrupt(c)
  <2>. DEFINE woken(n) == {t \in Expired(c, n) : OpenReceive(t)}
              st(n) == [t \in Tasks |-> IF t \in woken(n) THEN "RUNNABLE" ELSE state[t]]
  <2>1. PICK n \in 1 .. MaxTicks :
          /\ m' = [t \in Tasks |-> IF t \in woken(n)
                                   THEN [type |-> "NOTIFY", src |-> FROM_KERNEL, task |-> NULL]
                                   ELSE m[t]]
          /\ notifications' =
                [t \in Tasks |-> IF t \in woken(n) THEN {}
                                 ELSE IF t \in Expired(c, n) THEN notifications[t] \cup {"TIMER"}
                                 ELSE notifications[t]]
          /\ state' = st(n) /\ pc' = pc
          /\ UNCHANGED <<lifeVars, serial_readers, input, wait_for, senders, stack, fault>>
    BY <1>4 DEF timer_interrupt, task_switch
  <2>2. woken(n) \subseteq Tasks
    BY QueuedTasks DEF Expired
  <2>3. Notifies(woken(n))
    BY <2>1, <2>2 DEF Notifies, Aborted, lifeVars
  <2>. QED BY <2>2, <2>3 DEF StepKind
<1>. QED BY <1>2, <1>3, <1>4

\* The other interrupts, the idle task and the calls that touch neither tasks nor messages.
LEMMA Kind_others ==
    ASSUME Inv, NEW c \in CPUs,
           sys_time(c) \/ sys_irq(c) \/ ipi_interrupt(c) \/ idle_task(c) \/ serial_interrupt(c)
    PROVE  StepKind
<1>1. CASE sys_time(c)
  <2>1. Same
    BY <1>1 DEF sys_time, Same, lifeVars, ipcVars, schedVars, ctlVars
  <2>. QED BY <2>1 DEF StepKind
<1>2. CASE sys_irq(c)
  <2>1. Same
    BY <1>2 DEF sys_irq, Same, lifeVars, ipcVars, schedVars, ctlVars
  <2>. QED BY <2>1 DEF StepKind
<1>3. CASE ipi_interrupt(c)
  <2>1. Same
    BY <1>3 DEF ipi_interrupt, task_switch, Same, lifeVars, devVars, ipcVars
  <2>. QED BY <2>1 DEF StepKind
<1>4. CASE idle_task(c)
  <2>1. Same
    BY <1>4 DEF idle_task, task_switch, Same, lifeVars, devVars, ipcVars
  <2>. QED BY <2>1 DEF StepKind
<1>5. CASE serial_interrupt(c)
  <2>1. WakesReaders
    BY <1>5 DEF serial_interrupt, ReadersToResume, WakesReaders, lifeVars, ipcVars, ctlVars
  <2>. QED BY <2>1 DEF StepKind
<1>. QED BY <1>1, <1>2, <1>3, <1>4, <1>5

\* Every step of the kernel is of one of the kinds.
LEMMA Kinds ==
    ASSUME Inv, [Next]_vars
    PROVE  StepKind
<1>1. CASE UNCHANGED vars \/ halt
  <2>1. Same
    BY <1>1 DEF halt, Same, vars, lifeVars, devVars, ipcVars, schedVars, ctlVars
  <2>. QED BY <2>1 DEF StepKind
<1>2. CASE \E c \in CPUs : KernelStep(c)
  <2>1. PICK c \in CPUs : KernelStep(c)
    BY <1>2
  <2>. QED BY <2>1, Kind_send_message, Kind_send_resumed, Kind_recv_message, Kind_recv_resumed,
              Kind_exit_block, Kind_task_create, Kind_task_destroy, Kind_serial_read
           DEF KernelStep
<1>3. CASE \E c \in CPUs : User(c)
  <2>1. PICK c \in CPUs : User(c)
    BY <1>3
  <2>2. ASSUME \E t \in Tasks : Moves(t) PROVE StepKind
    BY <2>2 DEF StepKind
  <2>. QED BY <2>1, <2>2, Kind_calls, Kind_notifications, Kind_sys_task_destroy, Kind_others
           DEF User
<1>4. CASE \E c \in CPUs : \/ ipi_seen(c) \/ ipi_relock(c) \/ ipi_interrupt(c) \/ timer_interrupt(c)
                           \/ idle_task(c) \/ device_interrupt(c) \/ serial_interrupt(c)
  BY <1>4, Kind_task_destroy, Kind_notifications, Kind_others
<1>. QED BY <1>1, <1>2, <1>3, <1>4 DEF Next
-----------------------------------------------------------------------------
(* What a step does to one task.                                           *)

\* A task that is blocked after a step was blocked before and nothing of it has
\* changed, or it has just stopped.
LEMMA Sleeper ==
    ASSUME Inv, StepKind, NEW s \in Tasks, state'[s] = "BLOCKED"
    PROVE  \/ /\ state[s] = "BLOCKED" /\ pc'[s] = pc[s] /\ stack'[s] = stack[s]
              /\ pager'[s] = pager[s] /\ wait_for'[s] = wait_for[s]
           \/ Dies(s) \/ WaitsForInput(s) \/ WaitsToSend(s) \/ WaitsToReceive(s)
           \/ \E x \in Tasks : Picks(s, x)
<1>. DEFINE Kept == /\ state[s] = "BLOCKED" /\ pc'[s] = pc[s] /\ stack'[s] = stack[s]
                    /\ pager'[s] = pager[s] /\ wait_for'[s] = wait_for[s]
            Goal == \/ Kept \/ Dies(s) \/ WaitsForInput(s) \/ WaitsToSend(s) \/ WaitsToReceive(s)
                    \/ \E x \in Tasks : Picks(s, x)
<1>0. TypeOK
  BY DEF Inv
<1>1. CASE Same \/ WakesReaders \/ Halts
  BY <1>0, <1>1 DEF Same, WakesReaders, Halts
<1>2. CASE \E W \in SUBSET Tasks : Notifies(W)
  BY <1>0, <1>2 DEF Notifies
<1>3. CASE \E t \in Tasks : Moves(t)
  BY <1>0, <1>3 DEF Moves, OnlyPlaceOf
<1>4. CASE \E t \in Tasks : Dies(t) \/ WaitsForInput(t) \/ WaitsToSend(t) \/ WaitsToReceive(t)
  <2>1. PICK t \in Tasks : Dies(t) \/ WaitsForInput(t) \/ WaitsToSend(t) \/ WaitsToReceive(t)
    BY <1>4
  <2>2. CASE t # s
    BY <1>0, <2>1, <2>2 DEF Dies, WaitsForInput, WaitsToSend, WaitsToReceive, StopsAt, TypeOK
  <2>. QED BY <2>1, <2>2
<1>5. CASE \E t, x \in Tasks : Picks(t, x)
  <2>1. PICK t \in Tasks, x \in Tasks : Picks(t, x)
    BY <1>5
  <2>2. CASE t # s
    <3>1. /\ state' = [state EXCEPT ![x] = "RUNNABLE", ![t] = "BLOCKED"]
          /\ wait_for' = [wait_for EXCEPT ![t] = x] /\ pc' = [pc EXCEPT ![t] = "recvwait"]
          /\ stack' = stack /\ pager' = pager
      BY <2>1 DEF Picks, StopsAt
    <3>2. pc'[s] = pc[s] /\ wait_for'[s] = wait_for[s] /\ state[s] = "BLOCKED"
      BY <1>0, <2>2, <3>1 DEF TypeOK
    <3>. QED BY <3>1, <3>2
  <2>. QED BY <2>1, <2>2
<1>6. CASE \E t, d \in Tasks : Delivers(t, d)
  BY <1>0, <1>6, SMTT(30) DEF Delivers, OnlyPlaceOf, ToDeliver, TypeOK
<1>7. CASE \E t, v \in Tasks : Reaps(t, v)
  BY <1>0, <1>7 DEF Reaps, TypeOK
<1>8. CASE \E t, i, p \in Tasks : Creates(t, i, p)
  BY <1>0, <1>8, SMTT(30) DEF Creates, TypeOK
<1>. QED BY <1>1, <1>2, <1>3, <1>4, <1>5, <1>6, <1>7, <1>8 DEF StepKind

\* A task that is no longer blocked was sent a message, notified, given input,
\* picked by its receiver, or destroyed.
LEMMA Woken ==
    ASSUME Inv, StepKind, NEW s \in Tasks, state[s] = "BLOCKED", state'[s] # "BLOCKED"
    PROVE  \/ WakesReaders /\ s \in Range(serial_readers)
           \/ \E W \in SUBSET Tasks : Notifies(W) /\ s \in W
           \/ \E t \in Tasks : Delivers(t, s) \/ Picks(t, s) \/ Reaps(t, s)
<1>0. TypeOK
  BY DEF Inv
<1>1. CASE Same \/ WakesReaders \/ Halts
  BY <1>0, <1>1 DEF Same, WakesReaders, Halts, TypeOK
<1>2. CASE \E W \in SUBSET Tasks : Notifies(W)
  <2>1. PICK W \in SUBSET Tasks : Notifies(W)
    BY <1>2
  <2>2. s \in W
    BY <2>1 DEF Notifies
  <2>. QED BY <2>1, <2>2
<1>3. CASE \E t \in Tasks : Moves(t)
  BY <1>0, <1>3 DEF Moves
<1>4. CASE \E t \in Tasks : Dies(t) \/ WaitsForInput(t) \/ WaitsToSend(t) \/ WaitsToReceive(t)
  BY <1>0, <1>4 DEF Dies, WaitsForInput, WaitsToSend, WaitsToReceive, TypeOK
<1>5. CASE \E t, x \in Tasks : Picks(t, x)
  <2>1. PICK t \in Tasks, x \in Tasks : Picks(t, x)
    BY <1>5
  <2>2. x = s
    BY <1>0, <2>1 DEF Picks, TypeOK
  <2>. QED BY <2>1, <2>2
<1>6. CASE \E t, d \in Tasks : Delivers(t, d)
  <2>1. PICK t \in Tasks, d \in Tasks : Delivers(t, d)
    BY <1>6
  <2>2. d = s
    BY <1>0, <2>1 DEF Delivers, TypeOK
  <2>. QED BY <2>1, <2>2
<1>7. CASE \E t, v \in Tasks : Reaps(t, v)
  <2>1. PICK t \in Tasks, v \in Tasks : Reaps(t, v)
    BY <1>7
  <2>2. v = s
    BY <1>0, <2>1 DEF Reaps, TypeOK
  <2>. QED BY <2>1, <2>2
<1>8. CASE \E t, i, p \in Tasks : Creates(t, i, p)
  BY <1>0, <1>8 DEF Creates, TypeOK
<1>. QED BY <1>1, <1>2, <1>3, <1>4, <1>5, <1>6, <1>7, <1>8 DEF StepKind

\* A queue of senders grows only by a task that has just begun to wait in it.
LEMMA Queues ==
    ASSUME Inv, StepKind, NEW d \in Tasks, NEW s \in Tasks, s \in Range(senders'[d])
    PROVE  \/ s \in Range(senders[d])
           \/ WaitsToSend(s) /\ d = IpcDst(s)
<1>0. /\ TypeOK /\ \A e \in Tasks : senders[e] \in Seq(Tasks) /\ IsInjective(senders[e])
      /\ Range(<<>>) = {}
  BY SMTT(30) DEF Inv, TypeOK, WaitsInOneQueue, Range
<1>1. CASE senders' = senders
  BY <1>1
<1>2. CASE \E t \in Tasks : WaitsToSend(t)
  <2>1. PICK t \in Tasks : WaitsToSend(t)
    BY <1>2
  <2>2. CASE d = IpcDst(t)
    <3>1. senders'[d] = Append(senders[d], t)
      BY <1>0, <2>1, <2>2 DEF WaitsToSend, TypeOK
    <3>2. Range(senders'[d]) = Range(senders[d]) \cup {t}
      BY <1>0, <3>1, AppendList
    <3>. QED BY <2>1, <2>2, <3>2
  <2>3. CASE d # IpcDst(t)
    BY <1>0, <2>1, <2>3 DEF WaitsToSend, TypeOK
  <2>. QED BY <2>2, <2>3
<1>3. CASE \E t, x \in Tasks : Picks(t, x)
  <2>1. PICK t \in Tasks, x \in Tasks : Picks(t, x)
    BY <1>3
  <2>2. senders'[d] \in {senders[d], Without(senders[d], x)}
    BY <1>0, <2>1 DEF Picks, TypeOK
  <2>3. Range(Without(senders[d], x)) \subseteq Range(senders[d])
    BY <1>0, RemoveList
  <2>. QED BY <2>2, <2>3
<1>4. CASE \E t, v \in Tasks : Reaps(t, v)
  <2>1. PICK t \in Tasks, v \in Tasks : Reaps(t, v)
    BY <1>4
  <2>2. senders'[d] = Without(senders[d], v)
    BY <2>1 DEF Reaps
  <2>3. Range(Without(senders[d], v)) \subseteq Range(senders[d])
    BY <1>0, RemoveList
  <2>. QED BY <2>2, <2>3
<1>5. CASE \E t, i, p \in Tasks : Creates(t, i, p)
  <2>1. senders'[d] \in {senders[d], <<>>}
    BY <1>0, <1>5 DEF Creates, TypeOK
  <2>. QED BY <1>0, <2>1
<1>. QED BY <1>1, <1>2, <1>3, <1>4, <1>5
         DEF StepKind, Same, WakesReaders, Halts, Notifies, Moves, Dies, WaitsForInput,
             WaitsToReceive, Delivers
-----------------------------------------------------------------------------
(* Waits and wake-ups, whatever the tasks do.                              *)

\* No task is its own pager, and every frame aims right.
NotSelf == \A t \in Tasks : pager[t] # t /\ Aims(t, pc[t], stack[t])

\* A step keeps the aims of the frames: the place of a waiting task follows from the
\* place where it began to wait.
LEMMA NotSelfKept ==
    ASSUME Inv, NotSelf, StepKind
    PROVE  NotSelf'
<1>. SUFFICES ASSUME NEW s \in Tasks PROVE pager'[s] # s /\ Aims(s, pc'[s], stack'[s])
  BY DEF NotSelf, Aims
<1>0. TypeOK /\ pager[s] # s /\ Aims(s, pc[s], stack[s])
  BY DEF Inv, NotSelf
<1>a. Aims(s, "user", NoFrame)
  BY DEF Aims, NoFrame, Destroying, Spins
<1>1. CASE Same \/ WakesReaders \/ Halts \/ \E W \in SUBSET Tasks : Notifies(W)
  BY <1>0, <1>1 DEF Same, WakesReaders, Halts, Notifies
<1>2. CASE \E t \in Tasks : Moves(t)
  BY <1>0, <1>2 DEF Moves, OnlyPlaceOf
<1>3. CASE \E t, d \in Tasks : Delivers(t, d)
  BY <1>0, <1>3 DEF Delivers, OnlyPlaceOf
<1>4. CASE \E t \in Tasks : Dies(t) \/ WaitsForInput(t) \/ WaitsToSend(t) \/ WaitsToReceive(t)
                              \/ \E x \in Tasks : Picks(t, x)
  <2>1. PICK t \in Tasks : Dies(t) \/ WaitsForInput(t) \/ WaitsToSend(t) \/ WaitsToReceive(t)
                             \/ \E x \in Tasks : Picks(t, x)
    BY <1>4
  <2>2. stack' = stack /\ pager' = pager /\ \E p \in Places : pc' = [pc EXCEPT ![t] = p]
    BY <2>1 DEF Dies, WaitsForInput, WaitsToSend, WaitsToReceive, Picks, StopsAt, Places, Waits
  <2>3. CASE s # t
    BY <1>0, <2>2, <2>3 DEF TypeOK
  <2>4. CASE s = t
    <3>1. <<pc[t], pc'[t]>> \in {<<"exit", "dead">>, <<"serial", "serial">>,
                                <<"send", "sendwait">>, <<"recv", "recvwait">>}
      BY <1>0, <2>1 DEF Dies, WaitsForInput, WaitsToSend, WaitsToReceive, Picks, StopsAt, TypeOK
    <3>. QED BY <1>0, <2>2, <2>4, <3>1 DEF Aims, Destroying, Spins
  <2>. QED BY <2>3, <2>4
<1>5. CASE \E t, v \in Tasks : Reaps(t, v)
  <2>1. /\ pager'[s] = pager[s]
        /\ <<pc'[s], stack'[s]>> \in {<<pc[s], stack[s]>>, <<"user", NoFrame>>}
    BY <1>0, <1>5 DEF Reaps, TypeOK
  <2>. QED BY <1>0, <1>a, <2>1
<1>6. CASE \E t, i, p \in Tasks : Creates(t, i, p)
  <2>1. PICK t \in Tasks, i \in Tasks, p \in Tasks : Creates(t, i, p)
    BY <1>6
  <2>2. p # i /\ pager'[s] = IF s = i THEN p ELSE pager[s]
    BY <1>0, <2>1 DEF Creates, TypeOK
  <2>3. <<pc'[s], stack'[s]>> \in {<<pc[s], stack[s]>>, <<"user", NoFrame>>}
    BY <1>0, <2>1 DEF Creates, TypeOK
  <2>. QED BY <1>0, <1>a, <2>2, <2>3
<1>. QED BY <1>1, <1>2, <1>3, <1>4, <1>5, <1>6 DEF StepKind

\* The deadlock check of send_message keeps two tasks from waiting for each other.
LEMMA NoMutualSendKept ==
    ASSUME Inv, NotSelf, NoMutualSend, StepKind
    PROVE  NoMutualSend'
<1>. SUFFICES ASSUME NEW a \in Tasks, NEW b \in Tasks,
                     a \in Range(senders'[b]), b \in Range(senders'[a])
              PROVE  FALSE
  BY DEF NoMutualSend
<1>1. /\ a \in Range(senders[b]) \/ (WaitsToSend(a) /\ b = IpcDst(a))
      /\ b \in Range(senders[a]) \/ (WaitsToSend(b) /\ a = IpcDst(b))
  BY Queues
<1>2. ASSUME NEW x \in Tasks, NEW y \in Tasks, WaitsToSend(x), y = IpcDst(x)
      PROVE  /\ x # y /\ y \notin Range(senders[x]) /\ state[x] = "RUNNABLE" /\ pc'[x] = "sendwait"
             /\ pc[x] = "send" /\ pc'[y] = pc[y]
  <2>1. pc[x] = "send" /\ state[x] = "RUNNABLE" /\ pc' = [pc EXCEPT ![x] = "sendwait"]
    BY <1>2 DEF WaitsToSend, StopsAt
  <2>2. x # IpcDst(x)
    BY <2>1 DEF NotSelf, Aims, IpcDst
  <2>. QED BY <1>2, <2>1, <2>2 DEF WaitsToSend, DeadLock, Inv, TypeOK
<1>3. ~(a \in Range(senders[b]) /\ b \in Range(senders[a]))
  BY DEF NoMutualSend
<1>. QED BY <1>1, <1>2, <1>3

\* The notifications of a task in an open receive do not change while it sleeps.
LEMMA SleeperBits ==
    ASSUME Inv, StepKind, NEW s \in Tasks, state[s] = "BLOCKED", state'[s] = "BLOCKED",
           pc[s] = "recvwait", wait_for[s] = IPC_ANY
    PROVE  notifications'[s] = notifications[s]
<1>0. TypeOK /\ OpenReceive(s)
  BY DEF Inv, OpenReceive
<1>1. CASE \E W \in SUBSET Tasks : Notifies(W)
  BY <1>0, <1>1 DEF Notifies
<1>2. CASE \E t, v \in Tasks : Reaps(t, v)
  <2>1. PICK t \in Tasks, v \in Tasks : Reaps(t, v)
    BY <1>2
  <2>2. s \notin Range(senders[v])
    BY DEF Inv, WaitsInOneQueue
  <2>. QED BY <2>1, <2>2 DEF Reaps
<1>3. CASE \E t \in Tasks : Moves(t)
  BY <1>3 DEF Moves
<1>. QED BY <1>1, <1>2, <1>3
         DEF StepKind, Same, WakesReaders, Halts, Dies, WaitsForInput, WaitsToSend,
             WaitsToReceive, Picks, StopsAt, Delivers, Creates

\* No step loses a wake-up: a message that comes while the receiver sleeps is handed
\* over, and a receiver that goes to sleep has looked at its queue.
LEMMA WakeupKept ==
    ASSUME Inv, Inv', NoLostWakeup, StepKind
    PROVE  NoLostWakeup'
<1>. SUFFICES ASSUME NEW s \in Tasks, state'[s] = "BLOCKED", pc'[s] = "recvwait"
              PROVE  IF wait_for'[s] = IPC_ANY
                     THEN senders'[s] = <<>> /\ notifications'[s] = {}
                     ELSE wait_for'[s] \notin Range(senders'[s])
  BY DEF NoLostWakeup
<1>0. /\ TypeOK /\ senders[s] \in Seq(Tasks) /\ IsInjective(senders[s])
      /\ wait_for[s] \in Tasks \cup {IPC_ANY, IPC_DENY}
  BY DEF Inv, TypeOK, WaitsInOneQueue
<1>1. CASE WaitsToReceive(s)
  <2>1. /\ wait_for'[s] = IpcSrc(s) /\ senders' = senders /\ notifications' = notifications
        /\ Matching(s, IpcSrc(s)) = {} /\ (IpcSrc(s) = IPC_ANY => notifications[s] = {})
    BY <1>0, <1>1 DEF WaitsToReceive, StopsAt, TypeOK
  <2>2. IpcSrc(s) = IPC_ANY => senders[s] = <<>>
    <3>1. senders[s] # <<>> => 1 \in DOMAIN senders[s]
      BY <1>0
    <3>. QED BY <2>1, <3>1 DEF Matching
  <2>3. IpcSrc(s) \notin Range(senders[s])
    BY <1>0, <2>1 DEF Matching, Range
  <2>. QED BY <2>1, <2>2, <2>3
<1>2. CASE \E x \in Tasks : Picks(s, x)
  <2>1. PICK x \in Tasks : Picks(s, x)
    BY <1>2
  <2>2. wait_for'[s] = x /\ senders'[s] = Without(senders[s], x)
    BY <1>0, <2>1 DEF Picks, TypeOK
  <2>3. x \notin Range(senders'[s])
    BY <1>0, <2>2, RemoveList
  <2>4. x # IPC_ANY
    BY Numbers
  <2>. QED BY <2>2, <2>3, <2>4
<1>3. CASE state[s] = "BLOCKED" /\ pc[s] = "recvwait" /\ wait_for'[s] = wait_for[s]
  <2>1. IF wait_for[s] = IPC_ANY THEN senders[s] = <<>> /\ notifications[s] = {}
                                 ELSE wait_for[s] \notin Range(senders[s])
    BY <1>3 DEF NoLostWakeup
  <2>2. ASSUME NEW x \in Tasks, x \in Range(senders'[s])
        PROVE  x \in Range(senders[s]) \/ wait_for[s] \notin {IPC_ANY, x}
    BY <1>3, <2>2, Queues DEF WaitsToSend, Ready
  <2>3. CASE wait_for[s] = IPC_ANY
    <3>1. notifications'[s] = notifications[s]
      BY <1>3, <2>3, SleeperBits
    <3>2. senders'[s] \in Seq(Tasks)
      BY DEF Inv, TypeOK
    <3>3. Range(senders[s]) = {}
      BY <2>1, <2>3 DEF Range
    <3>4. senders'[s] = <<>>
      <4>1. SUFFICES ASSUME senders'[s] # <<>> PROVE FALSE
        OBVIOUS
      <4>2. 1 \in DOMAIN senders'[s] /\ senders'[s][1] \in Tasks
        BY <3>2, <4>1
      <4>3. senders'[s][1] \in Range(senders'[s])
        BY <4>2 DEF Range
      <4>. QED BY <4>2, <4>3, <2>2, <2>3, <3>3
    <3>. QED BY <1>3, <2>1, <2>3, <3>1, <3>4
  <2>4. CASE wait_for[s] # IPC_ANY
    <3>1. IPC_DENY \notin Tasks /\ \A x \in Range(senders'[s]) : x \in Tasks
      <4>1. senders'[s] \in Seq(Tasks)
        BY DEF Inv, TypeOK
      <4>2. \A x \in Range(senders'[s]) : x \in Tasks
        BY <4>1, LenProperties DEF Range
      <4>. QED BY <4>2, Numbers
    <3>. QED BY <1>0, <1>3, <2>1, <2>2, <2>4, <3>1
  <2>. QED BY <2>3, <2>4
<1>4. ~(Dies(s) \/ WaitsForInput(s) \/ WaitsToSend(s))
  BY <1>0 DEF Dies, WaitsForInput, WaitsToSend, StopsAt, TypeOK
<1>. QED BY <1>1, <1>2, <1>3, <1>4, Sleeper

\* No step leaves a reader asleep next to a character.
LEMMA ReaderKept ==
    ASSUME Inv, ReaderNotForgotten, StepKind
    PROVE  ReaderNotForgotten'
<1>. SUFFICES ASSUME NEW s \in Tasks, state'[s] = "BLOCKED", pc'[s] = "serial"
              PROVE  input' = 0 /\ s \in Range(serial_readers')
  BY DEF ReaderNotForgotten
<1>0. TypeOK /\ serial_readers \in Seq(Tasks) /\ IsInjective(serial_readers)
  BY DEF Inv, TypeOK, WaitsInOneQueue
<1>a. \A t \in Tasks : Range(Append(serial_readers, t)) = Range(serial_readers) \cup {t}
  BY <1>0, AppendList
<1>1. CASE WaitsForInput(s)
  BY <1>1, <1>a DEF WaitsForInput, StopsAt
<1>2. CASE state[s] = "BLOCKED" /\ pc[s] = "serial"
  <2>1. input = 0 /\ s \in Range(serial_readers)
    BY <1>2 DEF ReaderNotForgotten
  <2>2. CASE WakesReaders
    BY <2>1, <2>2 DEF WakesReaders
  <2>3. CASE \E t \in Tasks : WaitsForInput(t)
    BY <2>1, <2>3, <1>a DEF WaitsForInput, StopsAt
  <2>4. CASE \E t, v \in Tasks : Reaps(t, v)
    <3>1. PICK t \in Tasks, v \in Tasks : Reaps(t, v)
      BY <2>4
    <3>2. s # v /\ serial_readers' = Without(serial_readers, v) /\ input' = input
      BY <1>0, <3>1 DEF Reaps, TypeOK
    <3>3. Range(Without(serial_readers, v)) = Range(serial_readers) \ {v}
      BY <1>0, RemoveList
    <3>. QED BY <2>1, <3>2, <3>3
  <2>5. CASE \E t \in Tasks : Moves(t)
    BY <2>1, <2>5 DEF Moves
  <2>. QED BY <2>1, <2>2, <2>3, <2>4, <2>5
           DEF StepKind, Same, Halts, Notifies, Dies, WaitsToSend, WaitsToReceive, Picks, StopsAt,
               Delivers, Creates
<1>3. ~(Dies(s) \/ WaitsToSend(s) \/ WaitsToReceive(s) \/ \E x \in Tasks : Picks(s, x))
  BY <1>0 DEF Dies, WaitsToSend, WaitsToReceive, Picks, StopsAt, TypeOK
<1>. QED BY <1>1, <1>2, <1>3, Sleeper

\* What holds of every system of tasks.
WaitInv == Inv /\ NotSelf /\ NoMutualSend /\ NoLostWakeup /\ ReaderNotForgotten

\* It holds when the kernel has booted: everybody is in user mode and no queue has a member.
LEMMA InitWaits == Init => WaitInv
<1>. SUFFICES ASSUME Init PROVE WaitInv
  OBVIOUS
<1>1. Inv
  BY InitInv
<1>2. /\ \A t \in Tasks : pc[t] = "user" /\ stack[t] = NoFrame /\ senders[t] = <<>>
      /\ \A t \in Tasks : pager[t] = IF t \in 1 .. BootTasks /\ t # VM THEN VM ELSE NULL
  BY DEF Init
<1>3. NotSelf
  <2>1. \A t \in Tasks : pager[t] # t
    BY <1>2, Numbers
  <2>2. \A t \in Tasks : Aims(t, pc[t], stack[t])
    BY <1>2 DEF Aims, NoFrame, Destroying, Spins
  <2>. QED BY <2>1, <2>2 DEF NotSelf
<1>4. NoMutualSend /\ NoLostWakeup /\ ReaderNotForgotten
  BY <1>2 DEF NoMutualSend, NoLostWakeup, ReaderNotForgotten, Range
<1>. QED BY <1>1, <1>3, <1>4 DEF WaitInv

\* And every step keeps it.
LEMMA NextWaits == WaitInv /\ [Next]_vars => WaitInv'
<1>. SUFFICES ASSUME WaitInv, [Next]_vars PROVE WaitInv'
  OBVIOUS
<1>1. Inv /\ Inv' /\ StepKind
  BY NextInv, Kinds DEF WaitInv
<1>. QED BY <1>1, NotSelfKept, NoMutualSendKept, WakeupKept, ReaderKept DEF WaitInv

\* The invariant of waits and wake-ups.
THEOREM WaitsInvariant == Spec => []WaitInv
<1>. QED BY InitWaits, NextWaits, PTL DEF Spec

\* No wake-up is lost, on any number of CPUs and however tasks are preempted,
\* destroyed and created in between: a task that sleeps in recv_message has neither a
\* sender in its queue nor a notification that this receive would have taken.
THEOREM NoWakeupLost == Spec => []NoLostWakeup
<1>1. WaitInv => NoLostWakeup
  BY DEF WaitInv
<1>. QED BY <1>1, WaitsInvariant, PTL

\* The one-level deadlock check of send_message is enough to keep any two tasks from
\* being blocked in sends to each other.
THEOREM NoTwoTasksDeadlocked == Spec => []NoMutualSend
<1>1. WaitInv => NoMutualSend
  BY DEF WaitInv
<1>. QED BY <1>1, WaitsInvariant, PTL

\* serial_read and the serial interrupt between them forget no reader: while there
\* are characters, nobody sleeps in serial_read.
THEOREM NoReaderForgotten == Spec => []ReaderNotForgotten
<1>1. WaitInv => ReaderNotForgotten
  BY DEF WaitInv
<1>. QED BY <1>1, WaitsInvariant, PTL

\* What the scheduler and the wait queues owe every task.
THEOREM ScheduleIsSound == Spec => []ScheduleSound
<1>1. WaitInv => ScheduleSound
  BY DEF WaitInv, Inv, ScheduleSound
<1>. QED BY <1>1, WaitsInvariant, PTL
-----------------------------------------------------------------------------
(* Messages, while the VM server destroys only tasks that are done.        *)

\* The assumption: who is destroyed has exited, or waits for the answer to a page
\* fault from the very pager that destroys it.  These are the tasks whose EXCEPTION or
\* PAGE_FAULT message the VM server has at hand (servers/vm/main.c:184, :216).  A task
\* that is destroyed in the middle of an exchange (DESTROY_TASK, servers/vm/main.c:136)
\* leaves its partner with a wait for, or a message to, a slot that may have a new owner.
DestroysFinished ==
    \A t \in Tasks : pc[t] = "destroy" =>
        LET v == stack[t].dst
        IN  \/ pc[v] = "dead"
            \/ state[v] = "BLOCKED" /\ pc[v] = "recvwait" /\ stack[v].call = "fault" /\ pager[v] = t

\* A sender that was resumed finds its receiver still waiting, for it alone.
Chosen ==
    \A s \in Tasks : state[s] = "RUNNABLE" /\ pc[s] = "sendwait" =>
        /\ state[IpcDst(s)] = "BLOCKED" /\ pc[IpcDst(s)] = "recvwait"
        /\ wait_for[IpcDst(s)] = s

\* A task in a closed receive waits for the task it named.
ClosedWaits ==
    \A t \in Tasks : state[t] = "BLOCKED" /\ pc[t] = "recvwait" /\ IpcSrc(t) # IPC_ANY =>
        wait_for[t] = IpcSrc(t)

\* A send goes to a task slot.
LEMMA Destination ==
    ASSUME Inv, NEW t \in Tasks, state[t] # "UNUSED", pc[t] \in {"send", "sendwait"}
    PROVE  IpcDst(t) \in Tasks
<1>1. t # VM => pager[t] \in Tasks
  BY DEF Inv, HasPager
<1>2. Fits(t, pc[t], stack[t]) /\ stack[t] \in Frames
  BY DEF Inv, FramesFit, TypeOK
<1>. QED BY <1>1, <1>2 DEF Fits, Frames, IpcDst

\* At the end of send_message the destination sleeps in a receive for this sender, so
\* task_resume's assertions hold.
LEMMA Receiver ==
    ASSUME Inv, Chosen, NEW t \in Tasks, ToDeliver(t)
    PROVE  /\ IpcDst(t) \in Tasks /\ state[IpcDst(t)] = "BLOCKED" /\ pc[IpcDst(t)] = "recvwait"
           /\ wait_for[IpcDst(t)] \in {IPC_ANY, t} /\ CanResume(IpcDst(t))
<1>. DEFINE d == IpcDst(t)
<1>1. d \in Tasks
  BY Destination DEF ToDeliver
<1>2. state[d] = "BLOCKED" /\ pc[d] = "recvwait" /\ wait_for[d] \in {IPC_ANY, t}
  <2>1. CASE pc[t] = "sendwait"
    BY <2>1 DEF ToDeliver, Chosen
  <2>2. CASE pc[t] = "send"
    <3>1. state[d] = "BLOCKED" /\ wait_for[d] \in {IPC_ANY, t}
      BY <2>2 DEF ToDeliver, Ready
    <3>2. wait_for[d] # IPC_DENY
      BY <3>1, Numbers DEF IPC_ANY, IPC_DENY
    <3>. QED BY <1>1, <3>1, <3>2 DEF Inv, AcceptsOnlyInReceive
  <2>. QED BY <2>1, <2>2 DEF ToDeliver
<1>3. ~Linked(d)
  <2>1. d \notin Range(runqueue)
    BY <1>2 DEF Inv, RunnableOnce
  <2>2. d \notin Range(serial_readers) /\ \A e \in Tasks : d \notin Range(senders[e])
    BY <1>2 DEF Inv, WaitsInOneQueue
  <2>. QED BY <1>2, <2>1, <2>2 DEF Linked, Stale
<1>. QED BY <1>1, <1>2, <1>3 DEF CanResume

\* Nobody wakes a task that is not in the wait the waker looks for.
LEMMA WokenPlaces ==
    ASSUME Inv, Chosen, StepKind, NEW s \in Tasks, state[s] = "BLOCKED", state'[s] # "BLOCKED"
    PROVE  \/ pc[s] = "serial"
           \/ pc[s] = "recvwait" /\ \E W \in SUBSET Tasks : Notifies(W) /\ s \in W /\ wait_for[s] = IPC_ANY
           \/ pc[s] = "recvwait" /\ \E t \in Tasks : Delivers(t, s) /\ wait_for[s] \in {IPC_ANY, t}
           \/ pc[s] = "sendwait" /\ \E t \in Tasks : Picks(t, s) /\ IpcDst(s) = t
           \/ \E t \in Tasks : Reaps(t, s)
<1>1. CASE WakesReaders /\ s \in Range(serial_readers)
  BY <1>1 DEF Inv, WaitsInOneQueue
<1>2. CASE \E W \in SUBSET Tasks : Notifies(W) /\ s \in W
  <2>1. PICK W \in SUBSET Tasks : Notifies(W) /\ s \in W
    BY <1>2
  <2>2. wait_for[s] = IPC_ANY /\ wait_for[s] # IPC_DENY
    BY <2>1 DEF Notifies, OpenReceive, IPC_ANY, IPC_DENY
  <2>3. pc[s] = "recvwait"
    BY <2>2 DEF Inv, AcceptsOnlyInReceive
  <2>. QED BY <2>1, <2>2, <2>3
<1>3. CASE \E t \in Tasks : Delivers(t, s)
  <2>1. PICK t \in Tasks : Delivers(t, s)
    BY <1>3
  <2>2. ToDeliver(t) /\ s = IpcDst(t)
    BY <2>1 DEF Delivers
  <2>3. pc[s] = "recvwait" /\ wait_for[s] \in {IPC_ANY, t}
    BY <2>2, Receiver
  <2>. QED BY <2>1, <2>3
<1>4. CASE \E t \in Tasks : Picks(t, s)
  BY <1>4 DEF Picks, Inv, WaitsInOneQueue
<1>. QED BY <1>1, <1>2, <1>3, <1>4, Woken

\* Only a running task changes its place or its frame, or it is destroyed.
LEMMA PlaceKept ==
    ASSUME Inv, StepKind, NEW s \in Tasks, state[s] # "RUNNABLE"
    PROVE  \/ pc'[s] = pc[s] /\ stack'[s] = stack[s]
           \/ \E t \in Tasks : Reaps(t, s)
<1>0. TypeOK
  BY DEF Inv
<1>1. CASE \E t \in Tasks : Dies(t) \/ WaitsForInput(t) \/ WaitsToSend(t) \/ WaitsToReceive(t)
  BY <1>0, <1>1 DEF Dies, WaitsForInput, WaitsToSend, WaitsToReceive, StopsAt, TypeOK
<1>2. CASE \E t, x \in Tasks : Picks(t, x)
  BY <1>0, <1>2 DEF Picks, StopsAt, TypeOK
<1>3. CASE \E t \in Tasks : Moves(t)
  BY <1>0, <1>3 DEF Moves, OnlyPlaceOf
<1>4. CASE \E t, d \in Tasks : Delivers(t, d)
  BY <1>0, <1>4 DEF Delivers, ToDeliver, OnlyPlaceOf
<1>5. CASE \E t, v \in Tasks : Reaps(t, v)
  <2>1. PICK t \in Tasks, v \in Tasks : Reaps(t, v)
    BY <1>5
  <2>2. CASE v # s
    BY <1>0, <2>1, <2>2 DEF Reaps, TypeOK
  <2>. QED BY <2>1, <2>2
<1>6. CASE \E t, i, p \in Tasks : Creates(t, i, p)
  BY <1>0, <1>6 DEF Creates, TypeOK
<1>. QED BY <1>1, <1>2, <1>3, <1>4, <1>5, <1>6
         DEF StepKind, Same, WakesReaders, Halts, Notifies

\* A resumed sender is one already, or has just been picked.
LEMMA SenderStays ==
    ASSUME Inv, Chosen, StepKind, NEW s \in Tasks, state'[s] = "RUNNABLE", pc'[s] = "sendwait"
    PROVE  \/ \E t \in Tasks : Picks(t, s)
           \/ /\ state[s] = "RUNNABLE" /\ pc[s] = "sendwait"
              /\ stack'[s] = stack[s] /\ pager'[s] = pager[s]
<1>0. TypeOK
  BY DEF Inv
<1>1. CASE state[s] = "BLOCKED"
  <2>1. CASE \E t \in Tasks : Reaps(t, s)
    BY <1>0, <2>1 DEF Reaps, TypeOK
  <2>. QED BY <1>1, <2>1, PlaceKept, WokenPlaces
<1>2. CASE state[s] = "UNUSED"
  <2>1. pc[s] = "user"
    BY <1>2 DEF Inv, FreeSlots
  <2>2. CASE \E t \in Tasks : Reaps(t, s)
    BY <1>0, <2>2 DEF Reaps, TypeOK
  <2>. QED BY <1>2, <2>1, <2>2, PlaceKept
<1>3. CASE state[s] = "RUNNABLE"
  <2>1. CASE \E t \in Tasks : Dies(t) \/ WaitsForInput(t) \/ WaitsToSend(t) \/ WaitsToReceive(t)
    BY <1>0, <1>3, <2>1 DEF Dies, WaitsForInput, WaitsToSend, WaitsToReceive, StopsAt, TypeOK
  <2>2. CASE \E t, x \in Tasks : Picks(t, x)
    BY <1>0, <1>3, <2>2 DEF Picks, StopsAt, TypeOK
  <2>3. CASE \E t \in Tasks : Moves(t)
    BY <1>0, <1>3, <2>3 DEF Moves, OnlyPlaceOf
  <2>4. CASE \E t, d \in Tasks : Delivers(t, d)
    BY <1>0, <1>3, <2>4 DEF Delivers, OnlyPlaceOf
  <2>5. CASE \E t, v \in Tasks : Reaps(t, v)
    BY <1>0, <1>3, <2>5 DEF Reaps, TypeOK
  <2>6. CASE \E t, i, p \in Tasks : Creates(t, i, p)
    BY <1>0, <1>3, <2>6 DEF Creates, TypeOK
  <2>. QED BY <1>3, <2>1, <2>2, <2>3, <2>4, <2>5, <2>6
           DEF StepKind, Same, WakesReaders, Halts, Notifies
<1>. QED BY <1>0, <1>1, <1>2, <1>3 DEF TypeOK, States

\* IpcDst and IpcSrc depend on the frame and the pager of a task.
LEMMA ArgumentsKept ==
    ASSUME NEW s \in Tasks, stack'[s] = stack[s], pager'[s] = pager[s]
    PROVE  IpcDst(s)' = IpcDst(s) /\ IpcSrc(s)' = IpcSrc(s)
  BY DEF IpcDst, IpcSrc

\* A receiver that waits for a sender it resumed is neither woken nor destroyed before
\* that sender goes on.
LEMMA ChosenKept ==
    ASSUME Inv, Chosen, ClosedWaits, DestroysFinished, StepKind
    PROVE  Chosen'
<1>. SUFFICES ASSUME NEW s \in Tasks, state'[s] = "RUNNABLE", pc'[s] = "sendwait"
              PROVE  /\ state'[IpcDst(s)'] = "BLOCKED" /\ pc'[IpcDst(s)'] = "recvwait"
                     /\ wait_for'[IpcDst(s)'] = s
  BY DEF Chosen
<1>0. TypeOK
  BY DEF Inv
<1>1. CASE \E t \in Tasks : Picks(t, s)
  <2>1. PICK t \in Tasks : Picks(t, s)
    BY <1>1
  <2>2. IpcDst(s) = t /\ state[s] = "BLOCKED" /\ state[t] = "RUNNABLE"
    BY <2>1 DEF Picks, StopsAt, Inv, WaitsInOneQueue
  <2>3. IpcDst(s)' = t
    BY <2>1, <2>2 DEF Picks, StopsAt, IpcDst
  <2>4. state'[t] = "BLOCKED" /\ pc'[t] = "recvwait" /\ wait_for'[t] = s
    BY <1>0, <2>1, <2>2 DEF Picks, StopsAt, TypeOK
  <2>. QED BY <2>3, <2>4
<1>2. CASE /\ state[s] = "RUNNABLE" /\ pc[s] = "sendwait"
           /\ stack'[s] = stack[s] /\ pager'[s] = pager[s]
  <2>. DEFINE d == IpcDst(s)
  <2>1. /\ d \in Tasks /\ state[d] = "BLOCKED" /\ pc[d] = "recvwait" /\ wait_for[d] = s
        /\ IpcDst(s)' = d /\ s # IPC_ANY
    BY <1>2, Destination, ArgumentsKept, Numbers DEF Chosen
  <2>. HIDE DEF d
  <2>2. state'[d] = "BLOCKED"
    <3>. SUFFICES ASSUME state'[d] # "BLOCKED" PROVE FALSE
      OBVIOUS
    <3>1. ASSUME NEW t \in Tasks, Delivers(t, d), wait_for[d] \in {IPC_ANY, t}
          PROVE  FALSE
      BY <2>1, <3>1 DEF Delivers, OnlyPlaceOf
    <3>2. ASSUME NEW t \in Tasks, Reaps(t, d)
          PROVE  FALSE
      <4>1. pc[t] = "destroy" /\ d = stack[t].dst
        BY <3>2 DEF Reaps
      <4>2. stack[d].call = "fault" /\ pager[d] = t
        BY <2>1, <4>1 DEF DestroysFinished
      <4>3. IpcSrc(d) = t /\ t # IPC_ANY
        BY <4>2, Numbers DEF IpcSrc
      <4>4. wait_for[d] = t
        BY <2>1, <4>3 DEF ClosedWaits
      <4>. QED BY <1>2, <2>1, <4>1, <4>4
    <3>. QED BY <2>1, <3>1, <3>2, WokenPlaces
  <2>3. pc'[d] = "recvwait" /\ wait_for'[d] = s
    BY <2>1, <2>2, Sleeper DEF Dies, WaitsForInput, WaitsToSend, WaitsToReceive, Picks, StopsAt
  <2>. QED BY <2>1, <2>2, <2>3
<1>. QED BY <1>1, <1>2, SenderStays

\* A closed receive waits for the task it named: no step changes that.
LEMMA ClosedWaitsKept ==
    ASSUME Inv, ClosedWaits, StepKind
    PROVE  ClosedWaits'
<1>. SUFFICES ASSUME NEW s \in Tasks, state'[s] = "BLOCKED", pc'[s] = "recvwait", IpcSrc(s)' # IPC_ANY
              PROVE  wait_for'[s] = IpcSrc(s)'
  BY DEF ClosedWaits
<1>0. TypeOK
  BY DEF Inv
<1>1. CASE /\ state[s] = "BLOCKED" /\ pc'[s] = pc[s] /\ stack'[s] = stack[s]
           /\ pager'[s] = pager[s] /\ wait_for'[s] = wait_for[s]
  BY <1>1, ArgumentsKept DEF ClosedWaits
<1>2. CASE WaitsToReceive(s)
  <2>1. wait_for'[s] = IpcSrc(s) /\ IpcSrc(s)' = IpcSrc(s)
    BY <1>0, <1>2 DEF WaitsToReceive, StopsAt, TypeOK, IpcSrc
  <2>. QED BY <2>1
<1>3. CASE \E x \in Tasks : Picks(s, x)
  <2>1. PICK x \in Tasks : Picks(s, x)
    BY <1>3
  <2>2. wait_for'[s] = x /\ IpcSrc(s)' = IpcSrc(s) /\ IpcSrc(s) \in {IPC_ANY, x}
    BY <1>0, <2>1 DEF Picks, StopsAt, TypeOK, IpcSrc
  <2>. QED BY <2>2
<1>4. ~(Dies(s) \/ WaitsForInput(s) \/ WaitsToSend(s))
  BY <1>0 DEF Dies, WaitsForInput, WaitsToSend, StopsAt, TypeOK
<1>. QED BY <1>1, <1>2, <1>3, <1>4, Sleeper

\* The buffer of a task is written by a sender or a notification that wakes the task.
LEMMA Written ==
    ASSUME Inv, StepKind, NEW s \in Tasks, m'[s] # m[s]
    PROVE  /\ state'[s] = "RUNNABLE"
           /\ \/ \E W \in SUBSET Tasks : Notifies(W) /\ s \in W
              \/ \E t \in Tasks : Delivers(t, s)
<1>0. TypeOK
  BY DEF Inv
<1>1. CASE \E t, d \in Tasks : Delivers(t, d)
  <2>1. PICK t \in Tasks, d \in Tasks : Delivers(t, d)
    BY <1>1
  <2>2. d = s
    BY <1>0, <2>1 DEF Delivers, TypeOK
  <2>. QED BY <1>0, <2>1, <2>2 DEF Delivers, TypeOK
<1>2. CASE \E W \in SUBSET Tasks : Notifies(W)
  <2>1. PICK W \in SUBSET Tasks : Notifies(W)
    BY <1>2
  <2>2. s \in W /\ state'[s] = "RUNNABLE"
    BY <2>1 DEF Notifies
  <2>. QED BY <2>1, <2>2
<1>. QED BY <1>1, <1>2
         DEF StepKind, Same, WakesReaders, Halts, Moves, Dies, WaitsForInput, WaitsToSend,
             WaitsToReceive, Picks, StopsAt, Creates, Reaps

\* And that task sleeps in a receive.
LEMMA WrittenAsleep ==
    ASSUME Inv, Chosen, StepKind, NEW s \in Tasks, m'[s] # m[s]
    PROVE  state[s] = "BLOCKED" /\ pc[s] = "recvwait" /\ state'[s] = "RUNNABLE"
<1>1. CASE \E W \in SUBSET Tasks : Notifies(W) /\ s \in W
  <2>1. OpenReceive(s)
    BY <1>1 DEF Notifies
  <2>2. state[s] = "BLOCKED" /\ wait_for[s] # IPC_DENY
    BY <2>1 DEF OpenReceive, IPC_ANY, IPC_DENY
  <2>. QED BY <2>2, Written DEF Inv, AcceptsOnlyInReceive
<1>2. CASE \E t \in Tasks : Delivers(t, s)
  <2>1. PICK t \in Tasks : Delivers(t, s)
    BY <1>2
  <2>2. ToDeliver(t) /\ s = IpcDst(t)
    BY <2>1 DEF Delivers
  <2>. QED BY <2>2, Receiver, Written
<1>. QED BY <1>1, <1>2, Written

\* A closed receive gets the message of the task it named.
LEMMA ClosedReceiveKept ==
    ASSUME Inv, Chosen, ClosedWaits, ClosedReceive, StepKind
    PROVE  ClosedReceive'
<1>. SUFFICES ASSUME NEW s \in Tasks, state'[s] = "RUNNABLE", pc'[s] = "recvwait", IpcSrc(s)' # IPC_ANY
              PROVE  \/ m'[s].src = IpcSrc(s)'
                     \/ m'[s].src = FROM_KERNEL /\ m'[s].task = IpcSrc(s)'
  BY DEF ClosedReceive
<1>0. TypeOK
  BY DEF Inv
<1>1. CASE state[s] = "RUNNABLE"
  <2>1. pc[s] = "recvwait" /\ stack'[s] = stack[s] /\ pager'[s] = pager[s]
    <3>1. CASE \E t \in Tasks : Dies(t) \/ WaitsForInput(t) \/ WaitsToSend(t) \/ WaitsToReceive(t)
      BY <1>0, <1>1, <3>1 DEF Dies, WaitsForInput, WaitsToSend, WaitsToReceive, StopsAt, TypeOK
    <3>2. CASE \E t, x \in Tasks : Picks(t, x)
      <4>1. PICK t \in Tasks, x \in Tasks : Picks(t, x)
        BY <3>2
      <4>2. s # t
        BY <1>0, <4>1 DEF Picks, TypeOK
      <4>. QED BY <1>0, <4>1, <4>2 DEF Picks, StopsAt, TypeOK
    <3>3. CASE \E t \in Tasks : Moves(t)
      BY <1>0, <1>1, <3>3 DEF Moves, OnlyPlaceOf
    <3>4. CASE \E t, d \in Tasks : Delivers(t, d)
      BY <1>0, <1>1, <3>4 DEF Delivers, OnlyPlaceOf
    <3>5. CASE \E t, v \in Tasks : Reaps(t, v)
      BY <1>0, <1>1, <3>5 DEF Reaps, TypeOK
    <3>6. CASE \E t, i, p \in Tasks : Creates(t, i, p)
      BY <1>0, <1>1, <3>6 DEF Creates, TypeOK
    <3>. QED BY <1>1, <3>1, <3>2, <3>3, <3>4, <3>5, <3>6
             DEF StepKind, Same, WakesReaders, Halts, Notifies
  <2>2. m'[s] = m[s]
    BY <1>1, WrittenAsleep
  <2>. QED BY <1>1, <2>1, <2>2, ArgumentsKept DEF ClosedReceive
<1>2. CASE state[s] = "UNUSED"
  <2>1. pc[s] = "user"
    BY <1>2 DEF Inv, FreeSlots
  <2>2. CASE \E t \in Tasks : Reaps(t, s)
    BY <1>0, <2>2 DEF Reaps, TypeOK
  <2>. QED BY <1>2, <2>1, <2>2, PlaceKept
<1>3. CASE state[s] = "BLOCKED"
  <2>1. ~\E t \in Tasks : Reaps(t, s)
    BY <1>0 DEF Reaps, TypeOK
  <2>2. pc[s] = "recvwait" /\ stack'[s] = stack[s]
    BY <1>3, <2>1, PlaceKept
  <2>3. pager'[s] = pager[s]
    BY <1>0, <1>3
       DEF StepKind, Same, WakesReaders, Halts, Notifies, Moves, Dies, WaitsForInput, WaitsToSend,
           WaitsToReceive, Picks, StopsAt, Delivers, Creates, Reaps, TypeOK
  <2>4. wait_for[s] = IpcSrc(s) /\ IpcSrc(s)' = IpcSrc(s) /\ wait_for[s] # IPC_ANY
    BY <1>3, <2>2, <2>3, ArgumentsKept DEF ClosedWaits
  <2>5. PICK t \in Tasks : Delivers(t, s) /\ wait_for[s] \in {IPC_ANY, t}
    BY <1>3, <2>1, <2>2, <2>4, WokenPlaces
  <2>6. m'[s] = IpcMessage(t)
    BY <1>0, <2>5 DEF Delivers, TypeOK
  <2>7. m'[s].src = t \/ (m'[s].src = FROM_KERNEL /\ m'[s].task = t)
    BY <2>6 DEF IpcMessage
  <2>. QED BY <2>4, <2>5, <2>7
<1>. QED BY <1>0, <1>1, <1>2, <1>3 DEF TypeOK, States

\* Nobody wakes a task that has exited.
LEMMA ExitIsFinalKept ==
    ASSUME Inv, Chosen, ExitIsFinal, StepKind
    PROVE  ExitIsFinal'
<1>. SUFFICES ASSUME NEW s \in Tasks, pc'[s] = "dead" PROVE state'[s] = "BLOCKED"
  BY DEF ExitIsFinal
<1>0. TypeOK
  BY DEF Inv
<1>1. CASE pc[s] = "dead"
  <2>1. state[s] = "BLOCKED"
    BY <1>1 DEF ExitIsFinal
  <2>2. ~\E t \in Tasks : Reaps(t, s)
    BY <1>0 DEF Reaps, TypeOK
  <2>. QED BY <1>1, <2>1, <2>2, WokenPlaces
<1>2. CASE pc[s] # "dead"
  <2>1. CASE \E t \in Tasks : Dies(t) \/ WaitsForInput(t) \/ WaitsToSend(t) \/ WaitsToReceive(t)
    BY <1>0, <1>2, <2>1 DEF Dies, WaitsForInput, WaitsToSend, WaitsToReceive, StopsAt, TypeOK
  <2>2. CASE \E t, x \in Tasks : Picks(t, x)
    BY <1>0, <1>2, <2>2 DEF Picks, StopsAt, TypeOK
  <2>3. CASE \E t \in Tasks : Moves(t)
    BY <1>0, <1>2, <2>3 DEF Moves, OnlyPlaceOf
  <2>4. CASE \E t, d \in Tasks : Delivers(t, d)
    BY <1>0, <1>2, <2>4 DEF Delivers, OnlyPlaceOf
  <2>5. CASE \E t, v \in Tasks : Reaps(t, v)
    BY <1>0, <1>2, <2>5 DEF Reaps, TypeOK
  <2>6. CASE \E t, i, p \in Tasks : Creates(t, i, p)
    BY <1>0, <1>2, <2>6 DEF Creates, TypeOK
  <2>. QED BY <1>2, <2>1, <2>2, <2>3, <2>4, <2>5, <2>6
           DEF StepKind, Same, WakesReaders, Halts, Notifies
<1>. QED BY <1>1, <1>2

\* What holds while only tasks that are done are destroyed.
CalmInv == WaitInv /\ Chosen /\ ClosedWaits /\ ClosedReceive /\ ExitIsFinal

\* At boot nobody is in a send, a receive or an exit.
LEMMA InitCalm == Init => CalmInv
<1>. SUFFICES ASSUME Init PROVE CalmInv
  OBVIOUS
<1>1. \A t \in Tasks : pc[t] = "user"
  BY DEF Init
<1>. QED BY <1>1, InitWaits DEF CalmInv, Chosen, ClosedWaits, ClosedReceive, ExitIsFinal

\* Every step keeps it.
LEMMA NextCalm == CalmInv /\ DestroysFinished /\ [Next]_vars => CalmInv'
<1>. SUFFICES ASSUME CalmInv, DestroysFinished, [Next]_vars PROVE CalmInv'
  OBVIOUS
<1>1. WaitInv' /\ Inv /\ StepKind
  BY NextWaits, Kinds DEF CalmInv, WaitInv
<1>. QED BY <1>1, ChosenKept, ClosedWaitsKept, ClosedReceiveKept, ExitIsFinalKept DEF CalmInv

\* The invariant of message passing.
THEOREM CalmInvariant == Spec /\ []DestroysFinished => []CalmInv
<1>. QED BY InitCalm, NextCalm, PTL DEF Spec

\* A reply cannot be confused: a task that receives from one task only gets what that
\* task sent, or what the kernel sent for it (recv_message, send_message, notify).
THEOREM RepliesNotConfused == Spec /\ []DestroysFinished => []ClosedReceive
<1>1. CalmInv => ClosedReceive
  BY DEF CalmInv
<1>. QED BY <1>1, CalmInvariant, PTL

\* The UNREACHABLE() at the end of task_exit is unreachable: no message, notification
\* or interrupt resumes a task that has come to it.
THEOREM ExitedStayExited == Spec /\ []DestroysFinished => []ExitIsFinal
<1>1. CalmInv => ExitIsFinal
  BY DEF CalmInv
<1>. QED BY <1>1, CalmInvariant, PTL

\* No message is overwritten before it is read: the kernel writes a task's buffer only
\* while the task sleeps in a receive, and wakes it by that (send_message, notify).
THEOREM MessagesKept == Spec /\ []DestroysFinished => MessageNotOverwritten
<1>1. CalmInv /\ [Next]_vars =>
        [\A t \in Tasks : m'[t] # m[t] => /\ state[t] = "BLOCKED" /\ pc[t] = "recvwait"
                                          /\ state'[t] = "RUNNABLE"]_vars
  <2>. SUFFICES ASSUME CalmInv, [Next]_vars, NEW t \in Tasks, m'[t] # m[t]
                PROVE  /\ state[t] = "BLOCKED" /\ pc[t] = "recvwait" /\ state'[t] = "RUNNABLE"
    OBVIOUS
  <2>. QED BY Kinds, WrittenAsleep DEF CalmInv, WaitInv
<1>. QED BY <1>1, CalmInvariant, PTL DEF Spec, MessageNotOverwritten
-----------------------------------------------------------------------------
(* The hand-over of a message, when no task forges an ABORTED bit.         *)

\* The assumption: user tasks notify each other of asynchronous messages only
\* (NOTIFY_ASYNC, libs/user/ipc.c:32, :56), although sys_notify lets them pass any bit.
NoForgedAborts == \A bits \in UserBits : "ABORTED" \notin bits

\* A sender whose destination was destroyed sleeps for ever: nobody can pick it.
AbortedSleep ==
    \A t \in Tasks : Aborted(t) =>
        /\ state[t] = "BLOCKED" /\ pc[t] = "sendwait"
        /\ t \in Range(senders[IpcDst(t)]) => state[IpcDst(t)] = "UNUSED"

\* HandOff, with the sender a task.
PickedSender ==
    \A t \in Tasks :
        state[t] = "BLOCKED" /\ pc[t] = "recvwait" /\ IpcSrc(t) = IPC_ANY /\ wait_for[t] # IPC_ANY =>
            \E w \in Tasks : /\ wait_for[t] = w /\ state[w] = "RUNNABLE"
                            /\ pc[w] = "sendwait" /\ IpcDst(w) = t

\* A free slot is taken by task_create only.
LEMMA Taken ==
    ASSUME Inv, StepKind, NEW d \in Tasks, state[d] = "UNUSED", state'[d] # "UNUSED"
    PROVE  senders'[d] = <<>>
<1>0. TypeOK
  BY DEF Inv
<1>1. CASE \E t, i, p \in Tasks : Creates(t, i, p)
  BY <1>0, <1>1 DEF Creates, TypeOK
<1>2. CASE \E W \in SUBSET Tasks : Notifies(W)
  BY <1>2 DEF Notifies, OpenReceive
<1>3. CASE WakesReaders
  BY <1>3 DEF WakesReaders, Inv, WaitsInOneQueue
<1>4. CASE \E t, x \in Tasks : Picks(t, x)
  BY <1>0, <1>4 DEF Picks, StopsAt, Inv, WaitsInOneQueue, TypeOK
<1>5. CASE \E t, x \in Tasks : Delivers(t, x)
  BY <1>0, <1>5 DEF Delivers, CanResume, TypeOK
<1>6. CASE \E t, v \in Tasks : Reaps(t, v)
  BY <1>0, <1>6 DEF Reaps, TypeOK
<1>7. CASE \E t \in Tasks : Dies(t) \/ WaitsForInput(t) \/ WaitsToSend(t) \/ WaitsToReceive(t)
  BY <1>0, <1>7 DEF Dies, WaitsForInput, WaitsToSend, WaitsToReceive, StopsAt, TypeOK
<1>. QED BY <1>1, <1>2, <1>3, <1>4, <1>5, <1>6, <1>7 DEF StepKind, Same, Halts, Moves

\* A bit ABORTED comes from task_destroy.
LEMMA NewAborts ==
    ASSUME Inv, NoForgedAborts, StepKind, NEW s \in Tasks,
           "ABORTED" \in notifications'[s], ~Aborted(s)
    PROVE  \E t, v \in Tasks : Reaps(t, v) /\ s \in Range(senders[v])
<1>0. TypeOK
  BY DEF Inv
<1>1. CASE \E t, v \in Tasks : Reaps(t, v)
  BY <1>1 DEF Reaps, Aborted
<1>2. CASE \E W \in SUBSET Tasks : Notifies(W)
  BY <1>2 DEF Notifies, NoForgedAborts
<1>3. CASE \E t \in Tasks : Moves(t)
  BY <1>3 DEF Moves, Aborted
<1>. QED BY <1>1, <1>2, <1>3
         DEF StepKind, Same, WakesReaders, Halts, Dies, WaitsForInput, WaitsToSend,
             WaitsToReceive, Picks, StopsAt, Delivers, Creates, Aborted

\* Steps keep aborted senders asleep.
LEMMA AbortedSleepKept ==
    ASSUME Inv, NoForgedAborts, Chosen, DestroysFinished, AbortedSleep, StepKind
    PROVE  AbortedSleep'
<1>. SUFFICES ASSUME NEW s \in Tasks, "ABORTED" \in notifications'[s]
              PROVE  /\ state'[s] = "BLOCKED" /\ pc'[s] = "sendwait"
                     /\ s \in Range(senders'[IpcDst(s)']) => state'[IpcDst(s)'] = "UNUSED"
  BY DEF AbortedSleep, Aborted
<1>0. TypeOK
  BY DEF Inv
<1>1. CASE ~Aborted(s)
  <2>1. PICK t \in Tasks, v \in Tasks : Reaps(t, v) /\ s \in Range(senders[v])
    BY <1>1, NewAborts
  <2>2. /\ state[s] = "BLOCKED" /\ pc[s] = "sendwait" /\ IpcDst(s) = v
        /\ state[t] = "RUNNABLE" /\ pc[t] = "destroy" /\ v = stack[t].dst
    BY <2>1 DEF Reaps, Inv, WaitsInOneQueue
  <2>3. pc[v] \in {"dead", "recvwait"}
    BY <2>2 DEF DestroysFinished
  <2>4. s # v /\ s # t
    BY <2>2, <2>3
  <2>5. /\ state'[s] = "BLOCKED" /\ pc'[s] = "sendwait" /\ stack'[s] = stack[s]
        /\ pager'[s] = pager[s] /\ state'[v] = "UNUSED"
    BY <1>0, <2>1, <2>2, <2>4 DEF Reaps, TypeOK
  <2>. QED BY <2>2, <2>5, ArgumentsKept
<1>2. CASE Aborted(s)
  <2>. DEFINE d == IpcDst(s)
  <2>1. /\ state[s] = "BLOCKED" /\ pc[s] = "sendwait"
        /\ s \in Range(senders[d]) => state[d] = "UNUSED"
    BY <1>2 DEF AbortedSleep
  <2>2. d \in Tasks
    BY <2>1, Destination
  <2>3. state'[s] = "BLOCKED"
    <3>. SUFFICES ASSUME state'[s] # "BLOCKED" PROVE FALSE
      OBVIOUS
    <3>1. ASSUME NEW t \in Tasks, Picks(t, s) PROVE FALSE
      BY <2>1, <3>1 DEF Picks, StopsAt, Inv, WaitsInOneQueue
    <3>2. ASSUME NEW t \in Tasks, Reaps(t, s) PROVE FALSE
      BY <2>1, <3>2 DEF Reaps, DestroysFinished
    <3>. QED BY <2>1, <3>1, <3>2, WokenPlaces
  <2>4. pc'[s] = "sendwait" /\ stack'[s] = stack[s] /\ pager'[s] = pager[s]
    BY <2>1, <2>3, Sleeper DEF Dies, WaitsForInput, WaitsToSend, WaitsToReceive, Picks, StopsAt
  <2>5. IpcDst(s)' = d
    BY <2>4, ArgumentsKept
  <2>. HIDE DEF d
  <2>6. ASSUME s \in Range(senders'[d]) PROVE state'[d] = "UNUSED"
    <3>1. s \in Range(senders[d])
      BY <2>1, <2>2, <2>6, Queues DEF WaitsToSend, StopsAt
    <3>2. senders'[d] # <<>>
      BY <2>6 DEF Range
    <3>. QED BY <2>1, <2>2, <3>1, <3>2, Taken
  <2>. QED BY <2>3, <2>4, <2>5, <2>6
<1>. QED BY <1>1, <1>2

\* Until the picked sender has delivered, the receiver and the sender stay as they are.
LEMMA PickedSenderKept ==
    ASSUME Inv, DestroysFinished, AbortedSleep, PickedSender, StepKind
    PROVE  PickedSender'
<1>. SUFFICES ASSUME NEW s \in Tasks, state'[s] = "BLOCKED", pc'[s] = "recvwait",
                     IpcSrc(s)' = IPC_ANY, wait_for'[s] # IPC_ANY
              PROVE  \E w \in Tasks : /\ wait_for'[s] = w /\ state'[w] = "RUNNABLE"
                                      /\ pc'[w] = "sendwait" /\ IpcDst(w)' = s
  BY DEF PickedSender
<1>0. TypeOK
  BY DEF Inv
<1>1. CASE /\ state[s] = "BLOCKED" /\ pc'[s] = pc[s] /\ stack'[s] = stack[s]
           /\ pager'[s] = pager[s] /\ wait_for'[s] = wait_for[s]
  <2>0. IpcSrc(s) = IPC_ANY
    BY <1>1, ArgumentsKept
  <2>1. PICK w \in Tasks : /\ wait_for[s] = w /\ state[w] = "RUNNABLE" /\ pc[w] = "sendwait"
                           /\ IpcDst(w) = s /\ ~Aborted(w)
    BY <1>1, <2>0 DEF PickedSender, AbortedSleep
  <2>2. state'[w] = "RUNNABLE" /\ pc'[w] = "sendwait" /\ stack'[w] = stack[w] /\ pager'[w] = pager[w]
    <3>1. CASE \E t \in Tasks : Dies(t) \/ WaitsForInput(t) \/ WaitsToSend(t) \/ WaitsToReceive(t)
      BY <1>0, <2>1, <3>1 DEF Dies, WaitsForInput, WaitsToSend, WaitsToReceive, StopsAt, TypeOK
    <3>2. CASE \E t, x \in Tasks : Picks(t, x)
      BY <1>0, <2>1, <3>2 DEF Picks, StopsAt, TypeOK
    <3>3. CASE \E t \in Tasks : Moves(t)
      BY <1>0, <2>1, <3>3 DEF Moves, OnlyPlaceOf
    <3>4. CASE \E t, d \in Tasks : Delivers(t, d)
      <4>1. PICK t \in Tasks, d \in Tasks : Delivers(t, d)
        BY <3>4
      <4>2. t # w
        BY <1>0, <2>1, <4>1 DEF Delivers, TypeOK
      <4>. QED BY <1>0, <2>1, <4>1, <4>2 DEF Delivers, OnlyPlaceOf, TypeOK
    <3>5. CASE \E t, v \in Tasks : Reaps(t, v)
      <4>1. PICK t \in Tasks, v \in Tasks : Reaps(t, v)
        BY <3>5
      <4>2. pc[t] = "destroy" /\ pc[v] \in {"dead", "recvwait"}
        BY <4>1 DEF Reaps, DestroysFinished
      <4>3. w # v /\ w # t
        BY <2>1, <4>2
      <4>. QED BY <1>0, <2>1, <4>1, <4>3 DEF Reaps, TypeOK
    <3>6. CASE \E t, i, p \in Tasks : Creates(t, i, p)
      BY <1>0, <2>1, <3>6 DEF Creates, TypeOK
    <3>. QED BY <2>1, <3>1, <3>2, <3>3, <3>4, <3>5, <3>6
             DEF StepKind, Same, WakesReaders, Halts, Notifies
  <2>3. IpcDst(w)' = s
    BY <2>1, <2>2 DEF IpcDst
  <2>. QED BY <1>1, <2>1, <2>2, <2>3
<1>2. CASE WaitsToReceive(s)
  BY <1>0, <1>2 DEF WaitsToReceive, StopsAt, TypeOK, IpcSrc
<1>3. CASE \E x \in Tasks : Picks(s, x)
  <2>1. PICK x \in Tasks : Picks(s, x)
    BY <1>3
  <2>2. state[x] = "BLOCKED" /\ pc[x] = "sendwait" /\ IpcDst(x) = s /\ state[s] = "RUNNABLE"
    BY <2>1 DEF Picks, StopsAt, Inv, WaitsInOneQueue
  <2>3. wait_for'[s] = x /\ state'[x] = "RUNNABLE" /\ pc'[x] = "sendwait"
    BY <1>0, <2>1, <2>2 DEF Picks, StopsAt, TypeOK
  <2>4. stack' = stack /\ pager' = pager
    BY <2>1 DEF Picks, StopsAt
  <2>. QED BY <2>2, <2>3, <2>4 DEF IpcDst
<1>4. ~(Dies(s) \/ WaitsForInput(s) \/ WaitsToSend(s))
  BY <1>0 DEF Dies, WaitsForInput, WaitsToSend, StopsAt, TypeOK
<1>. QED BY <1>1, <1>2, <1>3, <1>4, Sleeper

\* The invariant of the hand-over.
HandInv == CalmInv /\ AbortedSleep /\ PickedSender

\* Nobody waits at boot.
LEMMA InitHand == Init => HandInv
<1>. SUFFICES ASSUME Init PROVE HandInv
  OBVIOUS
<1>1. \A t \in Tasks : pc[t] = "user" /\ notifications[t] = {}
  BY DEF Init
<1>. QED BY <1>1, InitCalm DEF HandInv, AbortedSleep, PickedSender, Aborted

\* Every step preserves it.
LEMMA NextHand ==
    ASSUME NoForgedAborts
    PROVE  HandInv /\ DestroysFinished /\ [Next]_vars => HandInv'
<1>. SUFFICES ASSUME HandInv, DestroysFinished, [Next]_vars PROVE HandInv'
  OBVIOUS
<1>1. CalmInv' /\ Inv /\ Chosen /\ StepKind
  BY NextCalm, Kinds DEF HandInv, CalmInv, WaitInv
<1>. QED BY <1>1, AbortedSleepKept, PickedSenderKept DEF HandInv

\* The invariant of the hand-over, for tasks that do not forge ABORTED.
THEOREM HandOverInvariant ==
    ASSUME NoForgedAborts
    PROVE  Spec /\ []DestroysFinished => []HandInv
<1>. QED BY InitHand, NextHand, PTL DEF Spec

\* A message reaches the task it is meant for: a sender that recv_message picked gets to
\* deliver to the receiver that picked it, and a closed receive gets nothing else.
THEOREM DeliveryIsSound ==
    ASSUME NoForgedAborts
    PROVE  Spec /\ []DestroysFinished => []DeliverySound
<1>1. HandInv => DeliverySound
  BY DEF HandInv, CalmInv, DeliverySound, HandOff, PickedSender
<1>. QED BY <1>1, HandOverInvariant, PTL

\* The assumption: a pager never waits to send to a task of its own.  Servers answer
\* with IPC_NOBLOCK (ipc_reply, libs/user/ipc.c:71), the VM server among them.
PagersNeverWait == \A t \in Tasks : pager[t] \notin Range(senders[t])

\* A task comes to the end of task_exit by delivering its last message.
LEMMA LastDelivered ==
    ASSUME HandInv, PagersNeverWait, StepKind, NEW s \in Tasks, pc[s] # "exit", pc'[s] = "exit"
    PROVE  m'[pager[s]] = [type |-> "EXCEPTION", src |-> FROM_KERNEL, task |-> s]
<1>0. Inv /\ TypeOK /\ NotSelf /\ AbortedSleep
  BY DEF HandInv, CalmInv, WaitInv, Inv
<1>1. CASE \E t \in Tasks : Moves(t)
  <2>1. PICK t \in Tasks : Moves(t)
    BY <1>1
  <2>2. t = s
    BY <2>1 DEF Moves, OnlyPlaceOf
  <2>3. /\ state[s] = "RUNNABLE" /\ stack[s].call = "exit"
        /\ pc[s] \in {"recv", "recvwait"} \/ Aborted(s) \/ DeadLock(s, IpcDst(s))
    BY <2>1, <2>2 DEF Moves
  <2>4. pc[s] \notin {"recv", "recvwait"}
    BY <1>0, <2>3 DEF NotSelf, Aims
  <2>5. ~Aborted(s)
    BY <1>0, <2>3 DEF AbortedSleep
  <2>6. ~DeadLock(s, IpcDst(s))
    BY <2>3 DEF DeadLock, IpcDst, PagersNeverWait
  <2>. QED BY <2>3, <2>4, <2>5, <2>6
<1>2. CASE \E t, d \in Tasks : Delivers(t, d)
  <2>1. PICK t \in Tasks, d \in Tasks : Delivers(t, d)
    BY <1>2
  <2>2. t = s /\ stack[s].call = "exit"
    BY <2>1 DEF Delivers, OnlyPlaceOf
  <2>3. d = pager[s] /\ m'[d] = IpcMessage(s)
    BY <1>0, <2>1, <2>2 DEF Delivers, IpcDst, TypeOK
  <2>. QED BY <2>2, <2>3 DEF IpcMessage
<1>3. CASE \E t \in Tasks : Dies(t) \/ WaitsForInput(t) \/ WaitsToSend(t) \/ WaitsToReceive(t)
  BY <1>0, <1>3 DEF Dies, WaitsForInput, WaitsToSend, WaitsToReceive, StopsAt, TypeOK
<1>4. CASE \E t, x \in Tasks : Picks(t, x)
  BY <1>0, <1>4 DEF Picks, StopsAt, TypeOK
<1>5. CASE \E t, v \in Tasks : Reaps(t, v)
  BY <1>0, <1>5 DEF Reaps, TypeOK
<1>6. CASE \E t, i, p \in Tasks : Creates(t, i, p)
  BY <1>0, <1>6 DEF Creates, TypeOK
<1>. QED BY <1>1, <1>2, <1>3, <1>4, <1>5, <1>6
         DEF StepKind, Same, WakesReaders, Halts, Notifies

\* A pager learns of every end: a task comes to the end of task_exit only when its pager
\* has been handed the EXCEPTION message that asks for the task's destruction.
THEOREM ExitsReported ==
    ASSUME NoForgedAborts
    PROVE  Spec /\ []DestroysFinished /\ []PagersNeverWait => ExitReported
<1>1. HandInv /\ PagersNeverWait /\ [Next]_vars =>
        [\A t \in Tasks : pc[t] # "exit" /\ pc'[t] = "exit" =>
           m'[pager[t]] = [type |-> "EXCEPTION", src |-> FROM_KERNEL, task |-> t]]_vars
  BY Kinds, LastDelivered DEF HandInv, CalmInv, WaitInv
<1>. QED BY <1>1, HandOverInvariant, PTL DEF Spec, ExitReported

-----------------------------------------------------------------------------
(* The life of tasks: pagers are counted and alive, and no assertion of the *)
(* kernel fails.                                                           *)

\* The assumption: the VM server alone creates and destroys tasks (servers/vm/task.c:59,
\* :115), as every program does but the sample hello_hinavm, which destroys its own server.
\* With two managers, one could create a task whose pager the other is destroying.
OnlyVmManages == MayCall["create"] \cup MayCall["destroy"] \subseteq {VM}

\* The VM server stays, and nobody pages for it.
VmStays == state[VM] # "UNUSED" /\ pager[VM] = NULL

\* The victim of task_destroy is alive and the pager of nobody, all the time that the
\* destroyer waits for other CPUs without the lock.
Victim ==
    \A t \in Tasks : pc[t] \in Destroying =>
        /\ stack[t].dst \in Tasks \ {VM}
        /\ state[stack[t].dst] # "UNUSED" /\ ref_count[stack[t].dst] = 0

\* The live tasks that p is the pager of.
Clients(p) == {t \in Tasks : state[t] # "UNUSED" /\ pager[t] = p}

\* There are finitely many tasks.
LEMMA FiniteClients == \A p : IsFiniteSet(Clients(p)) /\ Cardinality(Clients(p)) \in Nat
<1>. SUFFICES ASSUME NEW p PROVE IsFiniteSet(Clients(p)) /\ Cardinality(Clients(p)) \in Nat
  OBVIOUS
<1>1. IsFiniteSet(Tasks)
  BY SizesAssumption, FS_Interval DEF Tasks
<1>2. Clients(p) \in SUBSET Tasks
  BY DEF Clients
<1>3. IsFiniteSet(Clients(p))
  BY <1>1, <1>2, FS_Subset
<1>. QED BY <1>3, FS_CardinalityType

\* Other steps than task_create and the end of task_destroy leave the tasks that live
\* and their pagers alone.
LEMMA Lives ==
    ASSUME Inv, StepKind
    PROVE  \/ \E t, i, p \in Tasks : Creates(t, i, p)
           \/ \E t, v \in Tasks : Reaps(t, v)
           \/ /\ UNCHANGED <<pager, ref_count>>
              /\ \A s \in Tasks : state'[s] = "UNUSED" <=> state[s] = "UNUSED"
<1>0. TypeOK
  BY DEF Inv
<1>1. CASE \E W \in SUBSET Tasks : Notifies(W)
  BY <1>1 DEF Notifies, OpenReceive
<1>2. CASE WakesReaders
  BY <1>2 DEF WakesReaders, Inv, WaitsInOneQueue
<1>3. CASE \E t, x \in Tasks : Picks(t, x)
  BY <1>0, <1>3 DEF Picks, StopsAt, Inv, WaitsInOneQueue, TypeOK
<1>4. CASE \E t, d \in Tasks : Delivers(t, d)
  BY <1>0, <1>4 DEF Delivers, CanResume, TypeOK
<1>5. CASE \E t \in Tasks : Dies(t) \/ WaitsForInput(t) \/ WaitsToSend(t) \/ WaitsToReceive(t)
  BY <1>0, <1>5 DEF Dies, WaitsForInput, WaitsToSend, WaitsToReceive, StopsAt, TypeOK
<1>. QED BY <1>1, <1>2, <1>3, <1>4, <1>5 DEF StepKind, Same, Halts, Moves

\* Who is in task_destroy after a step was there, or has just checked its victim.
LEMMA Destroyers ==
    ASSUME Inv, StepKind, NEW s \in Tasks, pc'[s] \in Destroying
    PROVE  \/ pc[s] \in Destroying /\ stack'[s].dst = stack[s].dst
           \/ LET v == stack'[s].dst
              IN  v \in Tasks \ {VM} /\ state[v] # "UNUSED" /\ ref_count[v] = 0
<1>0. TypeOK /\ Destroying \cap {"user", "dead", "serial", "sendwait", "recvwait"} = {}
  BY DEF Inv, Destroying, Spins
<1>1. CASE \E t \in Tasks : Moves(t)
  <2>1. PICK t \in Tasks : Moves(t)
    BY <1>1
  <2>2. CASE t # s
    BY <2>1, <2>2 DEF Moves, OnlyPlaceOf
  <2>3. CASE t = s
    BY <2>1, <2>3 DEF Moves, OnlyPlaceOf
  <2>. QED BY <2>2, <2>3
<1>2. CASE \E t, d \in Tasks : Delivers(t, d)
  <2>1. PICK t \in Tasks, d \in Tasks : Delivers(t, d)
    BY <1>2
  <2>2. CASE t # s
    BY <2>1, <2>2 DEF Delivers, OnlyPlaceOf
  <2>3. CASE t = s
    BY <2>1, <2>3 DEF Delivers, OnlyPlaceOf
  <2>. QED BY <2>2, <2>3
<1>3. CASE \E t \in Tasks : Dies(t) \/ WaitsForInput(t) \/ WaitsToSend(t) \/ WaitsToReceive(t)
  <2>1. PICK t \in Tasks, p \in {"user", "dead", "serial", "sendwait", "recvwait"} : StopsAt(t, p)
    BY <1>3 DEF Dies, WaitsForInput, WaitsToSend, WaitsToReceive
  <2>. QED BY <1>0, <2>1 DEF StopsAt, TypeOK
<1>4. CASE \E t, x \in Tasks : Picks(t, x)
  BY <1>0, <1>4 DEF Picks, StopsAt, TypeOK
<1>5. CASE \E t, v \in Tasks : Reaps(t, v)
  BY <1>0, <1>5, SMTT(30) DEF Reaps, TypeOK
<1>6. CASE \E t, i, p \in Tasks : Creates(t, i, p)
  BY <1>0, <1>6, SMTT(30) DEF Creates, TypeOK
<1>. QED BY <1>1, <1>2, <1>3, <1>4, <1>5, <1>6
         DEF StepKind, Same, WakesReaders, Halts, Notifies

-----------------------------------------------------------------------------
(* The counts of the pagers.                                               *)

\* What holds of the lives of tasks at all times.
LifeInv == WaitInv /\ VmStays /\ Victim /\ PagersCounted

\* PagersCounted, in terms of Clients.
LEMMA Counted ==
    PagersCounted <=>
        /\ \A p \in Tasks : ref_count[p] = IF state[p] = "UNUSED" THEN 0 ELSE Cardinality(Clients(p))
        /\ \A t \in Tasks \ {VM} : state[t] # "UNUSED" => pager[t] # NULL /\ state[pager[t]] # "UNUSED"
  BY DEF PagersCounted, Clients

\* A reference count is never negative, so the assertion of task_destroy holds.
LEMMA CountsNatural ==
    ASSUME PagersCounted, NEW p \in Tasks
    PROVE  ref_count[p] \in Nat
  BY Counted, FiniteClients

\* Nobody pages for a free slot, and nobody's pager is a task with no references.
LEMMA NoClients ==
    ASSUME Inv, VmStays, PagersCounted, NEW p \in Tasks, state[p] = "UNUSED" \/ ref_count[p] = 0
    PROVE  Clients(p) = {}
<1>1. CASE state[p] = "UNUSED"
  <2>1. \A t \in Tasks : state[t] # "UNUSED" => pager[t] # p
    BY <1>1, Numbers DEF VmStays, PagersCounted
  <2>. QED BY <2>1 DEF Clients
<1>2. CASE state[p] # "UNUSED" /\ ref_count[p] = 0
  <2>1. Cardinality(Clients(p)) = 0
    BY <1>2, Counted
  <2>. QED BY <2>1, FiniteClients, FS_EmptySet
<1>. QED BY <1>1, <1>2

\* task_create gives its pager one more reference.
LEMMA CreationCounted ==
    ASSUME Inv, VmStays, PagersCounted, NEW t \in Tasks, NEW i \in Tasks, NEW p \in Tasks,
           Creates(t, i, p)
    PROVE  VmStays' /\ PagersCounted'
<1>0. TypeOK /\ state[i] = "UNUSED" /\ state[p] # "UNUSED" /\ i # p /\ i # VM
  BY DEF Inv, Creates, VmStays
<1>1. /\ pager' = [pager EXCEPT ![i] = p]
      /\ \A s \in Tasks \ {i} : state'[s] = state[s] /\ pager'[s] = pager[s]
  BY <1>0 DEF Creates, TypeOK
<1>2. VmStays'
  BY <1>0, <1>1, Numbers DEF VmStays
<1>3. Clients(i) = {}
  BY <1>0, NoClients
<1>4. CASE state' = state /\ ref_count' = [ref_count EXCEPT ![i] = 0]
  <2>1. \A q : Clients(q)' = Clients(q)
    BY <1>0, <1>1, <1>4 DEF Clients
  <2>2. \A q \in Tasks : ref_count'[q] = IF state'[q] = "UNUSED" THEN 0 ELSE Cardinality(Clients(q)')
    BY <1>0, <1>4, <2>1, Counted DEF TypeOK
  <2>3. \A s \in Tasks \ {VM} : state'[s] # "UNUSED" => pager'[s] # NULL /\ state'[pager'[s]] # "UNUSED"
    BY <1>0, <1>1, <1>4, Counted
  <2>. QED BY <1>2, <2>2, <2>3 DEF PagersCounted, Clients
<1>5. CASE /\ state' = [state EXCEPT ![i] = "RUNNABLE"]
           /\ ref_count' = [ref_count EXCEPT ![i] = 0, ![p] = @ + 1]
  <2>1. state'[i] = "RUNNABLE" /\ pager'[i] = p /\ ref_count'[i] = 0 /\ ref_count'[p] = ref_count[p] + 1
    BY <1>0, <1>1, <1>5 DEF TypeOK
  <2>2. \A q \in Tasks \ {i, p} : ref_count'[q] = ref_count[q]
    BY <1>0, <1>5 DEF TypeOK
  <2>3. Clients(p)' = Clients(p) \cup {i} /\ i \notin Clients(p)
    BY <1>0, <1>1, <2>1 DEF Clients
  <2>4. \A q : q # p => Clients(q)' = Clients(q)
    BY <1>0, <1>1, <2>1 DEF Clients
  <2>5. ref_count'[p] = Cardinality(Clients(p)')
    BY <1>0, <2>1, <2>3, Counted, FiniteClients, FS_AddElement, ZenonT(40)
  <2>6. ref_count'[i] = Cardinality(Clients(i)')
    BY <1>0, <1>3, <2>1, <2>4, FS_EmptySet
  <2>7. \A q \in Tasks : ref_count'[q] = IF state'[q] = "UNUSED" THEN 0 ELSE Cardinality(Clients(q)')
    BY <1>0, <1>1, <2>1, <2>2, <2>4, <2>5, <2>6, Counted
  <2>8. \A s \in Tasks \ {VM} : state'[s] # "UNUSED" => pager'[s] # NULL /\ state'[pager'[s]] # "UNUSED"
    <3>. SUFFICES ASSUME NEW s \in Tasks \ {VM}, state'[s] # "UNUSED"
                  PROVE  pager'[s] # NULL /\ state'[pager'[s]] # "UNUSED"
      OBVIOUS
    <3>1. CASE s = i
      BY <1>0, <1>1, <2>1, <3>1, Numbers
    <3>2. CASE s # i
      BY <1>0, <1>1, <1>5, <2>1, <3>2, Counted DEF TypeOK
    <3>. QED BY <3>1, <3>2
  <2>. QED BY <1>2, <2>7, <2>8 DEF PagersCounted, Clients
<1>. QED BY <1>4, <1>5 DEF Creates

\* task_destroy takes a reference from the pager of its victim.
LEMMA DestructionCounted ==
    ASSUME Inv, NotSelf, VmStays, Victim, PagersCounted, NEW t \in Tasks, NEW v \in Tasks, Reaps(t, v)
    PROVE  VmStays' /\ PagersCounted'
<1>0. TypeOK /\ v # VM /\ state[v] # "UNUSED" /\ ref_count[v] = 0
  BY DEF Inv, Reaps, Victim, Destroying
<1>1. /\ \A s \in Tasks \ {v} : state'[s] = state[s]
      /\ state'[v] = "UNUSED" /\ pager' = pager
  BY <1>0 DEF Reaps, TypeOK
<1>2. VmStays'
  BY <1>0, <1>1, Numbers DEF VmStays
<1>3. Clients(v) = {}
  BY <1>0, NoClients
<1>4. PICK p \in Tasks : p = pager[v] /\ p # v /\ state[p] # "UNUSED"
  BY <1>0, Counted DEF NotSelf, TypeOK
<1>5. ref_count'[p] = ref_count[p] - 1 /\ \A q \in Tasks \ {p} : ref_count'[q] = ref_count[q]
  BY <1>0, <1>4 DEF Reaps, Unref, TypeOK
<1>6. Clients(p)' = Clients(p) \ {v} /\ v \in Clients(p)
  BY <1>0, <1>1, <1>4 DEF Clients
<1>7. \A q : q # p => Clients(q)' = Clients(q)
  BY <1>0, <1>1, <1>4 DEF Clients
<1>8. ref_count'[p] = Cardinality(Clients(p)')
  BY <1>4, <1>5, <1>6, Counted, FiniteClients, FS_RemoveElement
<1>9. \A q \in Tasks : ref_count'[q] = IF state'[q] = "UNUSED" THEN 0 ELSE Cardinality(Clients(q)')
  <2>. TAKE q \in Tasks
  <2>1. CASE q = p
    BY <1>1, <1>4, <1>8, <2>1
  <2>2. CASE q # p /\ q = v
    BY <1>0, <1>1, <1>5, <2>2
  <2>3. CASE q # p /\ q # v
    BY <1>1, <1>5, <1>7, <2>3, Counted
  <2>. QED BY <2>1, <2>2, <2>3
<1>10. \A s \in Tasks \ {VM} : state'[s] # "UNUSED" => pager'[s] # NULL /\ state'[pager'[s]] # "UNUSED"
  <2>. SUFFICES ASSUME NEW s \in Tasks \ {VM}, state'[s] # "UNUSED"
                PROVE  pager[s] # NULL /\ state'[pager[s]] # "UNUSED"
    BY <1>1
  <2>1. s # v /\ state[s] # "UNUSED"
    BY <1>1
  <2>2. pager[s] # NULL /\ state[pager[s]] # "UNUSED" /\ pager[s] # v
    BY <1>3, <2>1, Counted DEF Clients
  <2>3. pager[s] \in Tasks
    BY <1>0, <2>2 DEF TypeOK
  <2>. QED BY <1>1, <2>2, <2>3
<1>. QED BY <1>2, <1>9, <1>10 DEF PagersCounted, Clients

\* The VM server has the other boot tasks as its clients.
LEMMA InitLife == Init => LifeInv
<1>. SUFFICES ASSUME Init PROVE LifeInv
  OBVIOUS
<1>0. BootTasks \in Nat \ {0} /\ 1 .. BootTasks \subseteq Tasks /\ VM \in 1 .. BootTasks
  BY SizesAssumption DEF Tasks, VM
<1>1. /\ state = [t \in Tasks |-> IF t \in 1 .. BootTasks THEN "RUNNABLE" ELSE "UNUSED"]
      /\ pager = [t \in Tasks |-> IF t \in (1 .. BootTasks) \ {VM} THEN VM ELSE NULL]
      /\ ref_count = [t \in Tasks |-> IF t = VM THEN BootTasks - 1 ELSE 0]
      /\ pc = [t \in Tasks |-> "user"]
  BY DEF Init
<1>2. VmStays
  BY <1>0, <1>1, Numbers DEF VmStays
<1>3. Victim
  BY <1>1 DEF Victim, Destroying, Spins
<1>4. Clients(VM) = 2 .. BootTasks
  BY <1>0, <1>1, Numbers DEF Clients, VM, NULL, Tasks
<1>5. Cardinality(Clients(VM)) = BootTasks - 1
  BY <1>0, <1>4, FS_Interval, SMTT(30)
<1>6. \A p \in Tasks \ {VM} : Clients(p) = {}
  BY <1>0, <1>1, Numbers DEF Clients
<1>7. \A p \in Tasks : ref_count[p] = IF state[p] = "UNUSED" THEN 0 ELSE Cardinality(Clients(p))
  BY <1>0, <1>1, <1>5, <1>6, FS_EmptySet
<1>8. \A t \in Tasks \ {VM} : state[t] # "UNUSED" => pager[t] # NULL /\ state[pager[t]] # "UNUSED"
  BY <1>0, <1>1, Numbers
<1>. QED BY <1>2, <1>3, <1>7, <1>8, Counted, InitWaits DEF LifeInv

\* Every step preserves it.
LEMMA NextLife ==
    ASSUME OnlyVmManages
    PROVE  LifeInv /\ [Next]_vars => LifeInv'
<1>. SUFFICES ASSUME LifeInv, [Next]_vars PROVE LifeInv'
  OBVIOUS
<1>0. Inv /\ TypeOK /\ NotSelf /\ VmStays /\ Victim /\ PagersCounted
  BY DEF LifeInv, WaitInv, Inv
<1>1. WaitInv' /\ StepKind
  BY NextWaits, Kinds DEF LifeInv, WaitInv
<1>2. VmStays' /\ PagersCounted'
  <2>1. CASE \E t, i, p \in Tasks : Creates(t, i, p)
    BY <1>0, <2>1, CreationCounted
  <2>2. CASE \E t, v \in Tasks : Reaps(t, v)
    BY <1>0, <2>2, DestructionCounted
  <2>3. CASE /\ UNCHANGED <<pager, ref_count>>
             /\ \A s \in Tasks : state'[s] = "UNUSED" <=> state[s] = "UNUSED"
    <3>1. \A p : Clients(p)' = Clients(p)
      BY <2>3 DEF Clients
    <3>2. \A p \in Tasks : ref_count'[p] = IF state'[p] = "UNUSED" THEN 0 ELSE Cardinality(Clients(p)')
      BY <1>0, <2>3, <3>1, Counted
    <3>3. \A s \in Tasks \ {VM} : state[s] # "UNUSED" => pager[s] \in Tasks
      BY <1>0 DEF Inv, HasPager
    <3>4. \A s \in Tasks \ {VM} : state'[s] # "UNUSED" => pager'[s] # NULL /\ state'[pager'[s]] # "UNUSED"
      BY <1>0, <2>3, <3>3, Counted
    <3>5. VmStays'
      BY <1>0, <2>3, Numbers DEF VmStays
    <3>. QED BY <3>2, <3>4, <3>5 DEF PagersCounted, Clients
  <2>. QED BY <1>0, <1>1, <2>1, <2>2, <2>3, Lives
<1>3. Victim'
  <2>. SUFFICES ASSUME NEW s \in Tasks, pc'[s] \in Destroying
                PROVE  /\ stack'[s].dst \in Tasks \ {VM}
                       /\ state'[stack'[s].dst] # "UNUSED" /\ ref_count'[stack'[s].dst] = 0
    BY DEF Victim
  <2>1. stack'[s].dst \in Tasks \ {VM} /\ state[stack'[s].dst] # "UNUSED" /\ ref_count[stack'[s].dst] = 0
    BY <1>0, <1>1, Destroyers DEF Victim
  <2>2. s = VM
    BY <1>1 DEF WaitInv, NotSelf, Aims, OnlyVmManages
  <2>3. ~\E t, i, p \in Tasks : Creates(t, i, p)
    <3>. SUFFICES ASSUME NEW t \in Tasks, NEW i \in Tasks, NEW p \in Tasks, Creates(t, i, p) PROVE FALSE
      OBVIOUS
    <3>1. pc[t] = "create" /\ pc'[t] = "user"
      BY <1>0 DEF Creates, TypeOK
    <3>2. t = VM
      BY <1>0, <3>1 DEF NotSelf, Aims, OnlyVmManages
    <3>. QED BY <2>2, <3>1, <3>2 DEF Destroying, Spins
  <2>4. ~\E t, v \in Tasks : Reaps(t, v)
    <3>. SUFFICES ASSUME NEW t \in Tasks, NEW v \in Tasks, Reaps(t, v) PROVE FALSE
      OBVIOUS
    <3>1. pc[t] = "destroy" /\ pc'[t] = "user"
      BY <1>0 DEF Reaps, TypeOK
    <3>2. t = VM
      BY <1>0, <3>1 DEF NotSelf, Aims, OnlyVmManages, Destroying
    <3>. QED BY <2>2, <3>1, <3>2 DEF Destroying, Spins
  <2>. QED BY <1>0, <1>1, <2>1, <2>3, <2>4, Lives
<1>. QED BY <1>1, <1>2, <1>3 DEF LifeInv

\* The invariant of the lives of tasks.
THEOREM LifeInvariant ==
    ASSUME OnlyVmManages
    PROVE  Spec => []LifeInv
<1>. QED BY InitLife, NextLife, PTL DEF Spec

\* A task's reference count is the number of live tasks it pages for, and the pager of a
\* live task is alive, also while task_destroy waits for other CPUs without the lock.
THEOREM PagersAreCounted ==
    ASSUME OnlyVmManages
    PROVE  Spec => []PagersCounted
<1>1. LifeInv => PagersCounted
  BY DEF LifeInv
<1>. QED BY <1>1, LifeInvariant, PTL
-----------------------------------------------------------------------------
(* The assertions of the kernel.                                           *)

\* Nothing halts the kernel.
LEMMA NeverHalts ==
    ASSUME LifeInv, CalmInv, DestroysFinished, StepKind
    PROVE  fault' = fault
<1>0. Inv /\ Chosen /\ PagersCounted
  BY DEF LifeInv, CalmInv, WaitInv
<1>1. ~Halts
  <2>1. ASSUME NEW t \in Tasks, ToDeliver(t) PROVE CanResume(IpcDst(t))
    BY <1>0, <2>1, Receiver
  <2>2. \A v \in Tasks : ~(ref_count[v] < 0)
    BY <1>0, CountsNatural
  <2>3. ASSUME NEW t \in Tasks, pc[t] = "destroy" PROVE ~Stale(stack[t].dst)
    BY <2>3 DEF DestroysFinished, Stale
  <2>. QED BY <2>1, <2>2, <2>3 DEF Halts
<1>. QED BY <1>1
         DEF StepKind, Same, WakesReaders, Notifies, Moves, Dies, WaitsForInput, WaitsToSend,
             WaitsToReceive, Picks, StopsAt, Delivers, Reaps, Creates

\* No assertion of the kernel fails and no list is corrupted, while the VM server destroys
\* tasks that are done: task_resume finds a blocked task on no list, and task_destroy a
\* task whose count is not negative and whose links are good.
THEOREM NeverPanics ==
    ASSUME OnlyVmManages
    PROVE  Spec /\ []DestroysFinished => []NoPanic
<1>1. Init => NoPanic
  BY DEF Init, NoPanic
<1>2. LifeInv /\ CalmInv /\ DestroysFinished /\ NoPanic /\ [Next]_vars => NoPanic'
  BY NeverHalts, Kinds DEF CalmInv, WaitInv, NoPanic
<1>. QED BY <1>1, <1>2, LifeInvariant, CalmInvariant, PTL DEF Spec

\* What the scheduler owes every task, among interrupts of the console, the timer and a
\* device, none of which makes an assertion fail.
THEOREM DevicesAreSound ==
    ASSUME OnlyVmManages
    PROVE  Spec /\ []DestroysFinished => []DevicesSound
<1>1. ScheduleSound /\ NoPanic => DevicesSound
  BY DEF DevicesSound
<1>. QED BY <1>1, ScheduleIsSound, NeverPanics, PTL
=============================================================================
