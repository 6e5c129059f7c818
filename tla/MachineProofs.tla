--------------------------- MODULE MachineProofs ---------------------------
(***************************************************************************)
(* Theorems about Clock and about Ipi.                                     *)
(*                                                                         *)
(* The clock does not run ahead of time, for any number of CPUs, any time  *)
(* between two interrupts and any timeouts.                                *)
(*                                                                         *)
(* The big lock is exclusive, for any set of CPUs, although arch_send_ipi  *)
(* gives it up while it waits; no CPU is left with a stale TLB when the    *)
(* one CPU that changes page tables goes on, and a task that is freed runs *)
(* nowhere.                                                                *)
(***************************************************************************)
EXTENDS Clock, FiniteSetTheorems, WellFoundedInduction, TLAPS

\* The invariant: the history counts, and the two bounds.
ClockInv == TypeOK /\ elapsed \in Nat /\ credit \in Nat /\ UptimeBound /\ NotTooEarly

\* What is used of the constants.
LEMMA Constants ==
    ASSUME ClockAssumption
    PROVE  /\ TickTime \in Nat /\ TickTime > 0 /\ INTERVAL \in Nat /\ INTERVAL > 0
           /\ Latency \in Nat /\ Latency >= INTERVAL /\ MaxAge \in Nat /\ 0 \in CPUs
           /\ Cardinality(CPUs) \in Nat /\ MaxUptime \in Nat
  BY FS_CardinalityType DEF ClockAssumption, MaxUptime

\* A finite set of naturals with an element has a largest one.
LEMMA LargestNatural ==
    ASSUME NEW S \in SUBSET Nat, IsFiniteSet(S), S # {}
    PROVE  Max(S) \in S /\ \A x \in S : x =< Max(S)
<1>. DEFINE Largest(T) == \E x \in T : \A y \in T : x >= y
            Bad == {n \in Nat : \E T \in SUBSET Nat :
                                  IsFiniteSet(T) /\ T # {} /\ Cardinality(T) = n /\ ~Largest(T)}
<1>1. Bad = {}
  <2>. SUFFICES ASSUME Bad # {} PROVE FALSE
    OBVIOUS
  <2>1. PICK n \in Bad : \A m \in Bad : n =< m
    <3>1. PICK n \in Bad : \A m \in Bad : ~(<<m, n>> \in OpToRel(<, Nat))
      BY NatLessThanWellFounded, WFMin
    <3>2. ASSUME NEW m \in Bad PROVE n =< m
      <4>1. n \in Nat /\ m \in Nat
        OBVIOUS
      <4>2. ~(m < n)
        BY <3>1, <4>1, Zenon DEF OpToRel
      <4>. QED BY <4>1, <4>2
    <3>. QED BY <3>2
  <2>2. PICK T \in SUBSET Nat : IsFiniteSet(T) /\ T # {} /\ Cardinality(T) = n /\ ~Largest(T)
    BY <2>1
  <2>3. PICK x \in T : TRUE
    BY <2>2
  <2>4. IsFiniteSet(T \ {x}) /\ Cardinality(T \ {x}) = n - 1 /\ n - 1 \in Nat
    <3>1. n \in Nat
      BY <2>1
    <3>2. IsFiniteSet(T \ {x}) /\ Cardinality(T \ {x}) = n - 1
      BY <2>2, <2>3, FS_RemoveElement
    <3>3. Cardinality(T \ {x}) \in Nat
      BY <3>2, FS_CardinalityType
    <3>. QED BY <3>2, <3>3
  <2>5. CASE T \ {x} = {}
    BY <2>2, <2>3, <2>5
  <2>6. CASE T \ {x} # {}
    <3>1. n - 1 \notin Bad
      BY <2>1, <2>4
    <3>2. Largest(T \ {x})
      BY <2>4, <2>6, <3>1
    <3>3. PICK z \in T \ {x} : \A y \in T \ {x} : z >= y
      BY <3>2
    <3>4. CASE z >= x
      BY <2>2, <3>3, <3>4
    <3>5. CASE ~(z >= x)
      <4>1. \A y \in T : x >= y
        BY <3>3, <3>5
      <4>. QED BY <2>2, <2>3, <4>1
    <3>. QED BY <3>4, <3>5
  <2>. QED BY <2>5, <2>6
<1>2. Largest(S)
  <2>1. Cardinality(S) \in Nat
    BY FS_CardinalityType
  <2>. QED BY <1>1, <2>1
<1>. QED BY <1>2 DEF Max

\* The bound on the ticks of a timeout.
LEMMA Longest ==
    ASSUME ClockAssumption
    PROVE  MaxTicks \in Nat /\ \A ms \in Timeouts : TimeoutTicks(ms) \in 0 .. MaxTicks
<1>. DEFINE f == [ms \in Timeouts |-> TimeoutTicks(ms)]
            S == {TimeoutTicks(n) : n \in Timeouts} \cup {0}
<1>1. \A ms \in Timeouts : TimeoutTicks(ms) \in Nat
  BY DEF ClockAssumption, TimeoutTicks
<1>2. IsFiniteSet({TimeoutTicks(n) : n \in Timeouts})
  <2>1. f \in Surjection(Timeouts, {TimeoutTicks(n) : n \in Timeouts})
    BY DEF Surjection
  <2>. QED BY <2>1, FS_Surjection DEF ClockAssumption
<1>3. IsFiniteSet(S) /\ S \in SUBSET Nat /\ S # {}
  BY <1>1, <1>2, FS_AddElement
<1>4. Max(S) \in S /\ \A x \in S : x =< Max(S)
  BY <1>3, LargestNatural
<1>. QED BY <1>1, <1>3, <1>4 DEF MaxTicks
-----------------------------------------------------------------------------
\* A bounded count.
LEMMA UpToIs ==
    ASSUME NEW n \in Nat, NEW b \in Nat
    PROVE  UpTo(n, b) \in 0 .. b /\ UpTo(n, b) =< n /\ (UpTo(n, b) < b => UpTo(n, b) = n)
  BY DEF UpTo

\* The counts to account for, when each CPU's time is at most Latency.
Counts(s) == {p \in CPUs \X (1 .. Latency) : p[2] =< s[p[1]]}

\* They are finite, and none at first.
LEMMA CountsFinite ==
    ASSUME ClockAssumption, NEW s
    PROVE  /\ IsFiniteSet(Counts(s)) /\ Cardinality(Counts(s)) \in Nat
           /\ s = [c \in CPUs |-> 0] => Cardinality(Counts(s)) = 0
<1>1. IsFiniteSet(CPUs \X (1 .. Latency))
  <2>1. IsFiniteSet(1 .. Latency)
    BY Constants, FS_Interval
  <2>. QED BY <2>1, FS_Product DEF ClockAssumption
<1>2. IsFiniteSet(Counts(s))
  <2>1. Counts(s) \in SUBSET (CPUs \X (1 .. Latency))
    BY DEF Counts
  <2>. QED BY <1>1, <2>1, FS_Subset
<1>3. ASSUME s = [c \in CPUs |-> 0] PROVE Counts(s) = {}
  BY <1>3, Constants DEF Counts
<1>. QED BY <1>2, <1>3, FS_CardinalityType, FS_EmptySet

\* A count of the clock adds at most one on each CPU.
LEMMA CountsAdvance ==
    ASSUME ClockAssumption, NEW s \in [CPUs -> 0 .. Latency]
    PROVE  Cardinality(Counts([c \in CPUs |-> UpTo(s[c] + 1, Latency)]))
             =< Cardinality(Counts(s)) + Cardinality(CPUs)
<1>. DEFINE s1 == [c \in CPUs |-> UpTo(s[c] + 1, Latency)]
            D == {<<c, s[c] + 1>> : c \in CPUs}
            f == [c \in CPUs |-> <<c, s[c] + 1>>]
<1>1. IsFiniteSet(D) /\ Cardinality(D) =< Cardinality(CPUs) /\ Cardinality(D) \in Nat
  <2>1. f \in Surjection(CPUs, D)
    BY DEF Surjection
  <2>. QED BY <2>1, FS_Surjection, FS_CardinalityType DEF ClockAssumption
<1>2. Counts(s1) \in SUBSET (Counts(s) \cup D)
  <2>. SUFFICES ASSUME NEW p \in Counts(s1) PROVE p \in Counts(s) \cup D
    OBVIOUS
  <2>1. PICK c \in CPUs, n \in 1 .. Latency : p = <<c, n>> /\ n =< UpTo(s[c] + 1, Latency)
    BY DEF Counts
  <2>2. n =< s[c] \/ n = s[c] + 1
    BY <2>1, Constants DEF UpTo
  <2>. QED BY <2>1, <2>2 DEF Counts
<1>. HIDE DEF s1, D
<1>3. IsFiniteSet(Counts(s)) /\ Cardinality(Counts(s)) \in Nat /\ Cardinality(Counts(s1)) \in Nat
  BY CountsFinite
<1>4. /\ IsFiniteSet(Counts(s) \cup D)
      /\ Cardinality(Counts(s) \cup D) = Cardinality(Counts(s)) + Cardinality(D) - Cardinality(Counts(s) \cap D)
  BY <1>1, <1>3, FS_Union
<1>5. Cardinality(Counts(s) \cap D) \in Nat
  <2>1. Counts(s) \cap D \in SUBSET D
    OBVIOUS
  <2>. QED BY <1>1, <2>1, FS_Subset, FS_CardinalityType
<1>6. Cardinality(Counts(s1)) =< Cardinality(Counts(s) \cup D)
  BY <1>2, <1>4, FS_Subset
<1>7. Cardinality(CPUs) \in Nat
  BY Constants
<1>8. Cardinality(Counts(s1)) =< Cardinality(Counts(s)) + Cardinality(CPUs)
  BY <1>1, <1>3, <1>4, <1>5, <1>6, <1>7
<1>. QED BY <1>8 DEF s1

\* An interrupt accounts for the counts of its CPU.
LEMMA CountsRestart ==
    ASSUME ClockAssumption, NEW s \in [CPUs -> 0 .. Latency], NEW c \in CPUs
    PROVE  Cardinality(Counts(s)) = Cardinality(Counts([s EXCEPT ![c] = 0])) + s[c]
<1>. DEFINE s1 == [s EXCEPT ![c] = 0]
            D == {c} \X (1 .. s[c])
<1>1. s[c] \in Nat /\ s[c] =< Latency
  BY Constants
<1>2. IsFiniteSet(D) /\ Cardinality(D) = s[c]
  <2>1. IsFiniteSet(1 .. s[c]) /\ Cardinality(1 .. s[c]) = s[c]
    BY <1>1, FS_Interval
  <2>2. IsFiniteSet({c}) /\ Cardinality({c}) = 1
    BY FS_Singleton
  <2>3. IsFiniteSet(D) /\ Cardinality(D) = 1 * s[c]
    BY <2>1, <2>2, FS_Product
  <2>. QED BY <1>1, <2>3
<1>3. Counts(s) = Counts(s1) \cup D
  <2>1. Counts(s1) \subseteq Counts(s)
    <3>. SUFFICES ASSUME NEW p \in Counts(s1) PROVE p \in Counts(s)
      OBVIOUS
    <3>1. PICK d \in CPUs, n \in 1 .. Latency : p = <<d, n>> /\ n =< s1[d]
      BY DEF Counts
    <3>2. d # c /\ s1[d] = s[d]
      BY <3>1, Constants
    <3>. QED BY <3>1, <3>2 DEF Counts
  <2>2. D \subseteq Counts(s)
    BY <1>1, Constants DEF Counts
  <2>3. Counts(s) \subseteq Counts(s1) \cup D
    <3>. SUFFICES ASSUME NEW p \in Counts(s) PROVE p \in Counts(s1) \cup D
      OBVIOUS
    <3>1. PICK d \in CPUs, n \in 1 .. Latency : p = <<d, n>> /\ n =< s[d]
      BY DEF Counts
    <3>2. CASE d = c
      BY <1>1, <3>1, <3>2, Constants
    <3>3. CASE d # c
      BY <3>1, <3>3 DEF Counts
    <3>. QED BY <3>2, <3>3
  <2>. QED BY <2>1, <2>2, <2>3
<1>4. Counts(s1) \cap D = {}
  BY <1>1, Constants DEF Counts
<1>. HIDE DEF s1, D
<1>5. IsFiniteSet(Counts(s1)) /\ Cardinality(Counts(s1)) \in Nat
  BY CountsFinite
<1>6. Cardinality(Counts(s1) \cup D) = Cardinality(Counts(s1)) + Cardinality(D) - Cardinality({})
  BY <1>2, <1>4, <1>5, FS_Union
<1>7. Cardinality(Counts(s)) = Cardinality(Counts(s1)) + s[c]
  BY <1>1, <1>2, <1>3, <1>5, <1>6, FS_EmptySet
<1>. QED BY <1>7 DEF s1
-----------------------------------------------------------------------------
\* Whole ticks of a time are at most that time.
LEMMA TicksFit ==
    ASSUME ClockAssumption, NEW n \in Nat
    PROVE  n \div TickTime \in Nat /\ (n \div TickTime) * TickTime =< n
<1>. DEFINE q == n \div TickTime
<1>0. TickTime \in Nat /\ TickTime > 0
  BY Constants
<1>1. q \in Int /\ n % TickTime \in 0 .. TickTime - 1 /\ n = (TickTime * q) + (n % TickTime)
  BY <1>0
<1>. HIDE DEF q
<1>2. TickTime * q = q * TickTime
  BY <1>0, <1>1
<1>3. q >= 0
  <2>1. q < 0 => TickTime * q =< -TickTime
    BY <1>0, <1>1
  <2>. QED BY <1>0, <1>1, <2>1
<1>4. q \in Nat /\ q * TickTime =< n
  BY <1>0, <1>1, <1>2, <1>3
<1>. QED BY <1>4 DEF q

\* The clock at first.
LEMMA InitClock ==
    ASSUME ClockAssumption, Init
    PROVE  ClockInv
<1>1. TypeOK
  BY Constants, Longest DEF Init, TypeOK
<1>2. UptimeBound
  <2>1. Cardinality(Unaccounted) = 0
    BY CountsFinite DEF Init, Unaccounted, Counts
  <2>. QED BY <2>1, Constants DEF Init, UptimeBound
<1>. QED BY <1>1, <1>2 DEF Init, ClockInv, NotTooEarly

\* Time passes.
LEMMA AdvanceClock ==
    ASSUME ClockAssumption, ClockInv, Advance
    PROVE  ClockInv'
<1>. DEFINE n == Cardinality(CPUs)
            u == Cardinality(Unaccounted)
<1>0. /\ since \in [CPUs -> 0 .. Latency] /\ left \in [CPUs -> 0 .. INTERVAL]
      /\ age \in 0 .. MaxAge /\ uptime_ticks \in Nat /\ elapsed \in Nat /\ credit \in Nat
      /\ timeout \in 0 .. MaxTicks /\ asked \in 0 .. MaxTicks /\ timeout =< asked
      /\ MaxTicks \in Nat /\ n \in Nat
  BY Constants, Longest DEF ClockInv, TypeOK
<1>1. /\ since' = [c \in CPUs |-> UpTo(since[c] + 1, Latency)]
      /\ age' = UpTo(age + 1, MaxAge) /\ elapsed' = UpTo(elapsed + 1, MaxTicks * TickTime + Latency)
      /\ UNCHANGED <<ssip, uptime_ticks, timeout, asked, credit>>
  BY DEF Advance
<1>2. TypeOK'
  <2>1. since' \in [CPUs -> 0 .. Latency]
    BY <1>0, <1>1, UpToIs, Constants
  <2>2. left' \in [CPUs -> 0 .. INTERVAL]
    BY <1>0, Constants DEF Advance, Due
  <2>3. age' \in 0 .. MaxAge
    BY <1>0, <1>1, UpToIs, Constants
  <2>. QED BY <1>1, <2>1, <2>2, <2>3 DEF ClockInv, TypeOK
<1>3. UptimeBound'
  <2>. SUFFICES ASSUME age' < MaxAge
                PROVE  uptime_ticks * TickTime + Cardinality(Unaccounted') =< n * age'
    BY <1>1 DEF UptimeBound
  <2>1. age' = age + 1 /\ age < MaxAge
    BY <1>0, <1>1, UpToIs, Constants
  <2>2. Cardinality(Unaccounted') =< u + n
    <3>1. Unaccounted = Counts(since) /\ Unaccounted' = Counts(since')
      BY DEF Unaccounted, Counts
    <3>. QED BY <1>0, <1>1, <3>1, CountsAdvance
  <2>3. uptime_ticks * TickTime + u =< n * age
    BY <2>1 DEF ClockInv, UptimeBound
  <2>4. n * (age + 1) = n * age + n
    BY <1>0
  <2>5. u \in Nat /\ Cardinality(Unaccounted') \in Nat
    BY CountsFinite DEF Unaccounted, Counts
  <2>6. uptime_ticks * TickTime \in Nat /\ n * age \in Nat
    BY <1>0, Constants
  <2>. QED BY <1>0, <2>1, <2>2, <2>3, <2>4, <2>5, <2>6
<1>4. elapsed' \in Nat /\ NotTooEarly'
  <2>. DEFINE gone == (asked - timeout) * TickTime
              most == MaxTicks * TickTime
  <2>1. gone \in Nat /\ most \in Nat /\ gone =< most
    <3>1. asked - timeout \in Nat /\ asked - timeout =< MaxTicks
      BY <1>0
    <3>. QED BY <1>0, <3>1, Constants
  <2>2. elapsed' = (IF elapsed + 1 < most + Latency THEN elapsed + 1 ELSE most + Latency)
    BY <1>1 DEF UpTo
  <2>3. /\ since[0] \in 0 .. Latency
        /\ since'[0] = IF since[0] + 1 < Latency THEN since[0] + 1 ELSE Latency
    BY <1>0, <1>1, Constants DEF UpTo
  <2>4. timeout > 0 => gone + since[0] =< elapsed + credit
    BY DEF ClockInv, NotTooEarly
  <2>5. timeout' = timeout /\ credit' = credit /\ asked' = asked
    BY <1>1
  <2>. HIDE DEF gone, most
  <2>6. elapsed' \in Nat /\ (timeout > 0 => gone + since'[0] =< elapsed' + credit)
    BY <1>0, <2>1, <2>2, <2>3, <2>4, Constants
  <2>. QED BY <2>5, <2>6 DEF NotTooEarly, gone
<1>. QED BY <1>0, <1>1, <1>2, <1>3, <1>4 DEF ClockInv

\* A CPU takes its software interrupt.
LEMMA InterruptClock ==
    ASSUME ClockAssumption, ClockInv, NEW c \in CPUs, soft_interrupt(c)
    PROVE  ClockInv'
<1>. DEFINE n == Cardinality(CPUs)
            u == Cardinality(Unaccounted)
<1>0. /\ since \in [CPUs -> 0 .. Latency] /\ ssip \in [CPUs -> BOOLEAN] /\ age \in 0 .. MaxAge
      /\ uptime_ticks \in 0 .. MaxUptime /\ elapsed \in Nat /\ credit \in Nat
      /\ timeout \in 0 .. MaxTicks /\ asked \in 0 .. MaxTicks /\ timeout =< asked
      /\ MaxTicks \in Nat /\ n \in Nat /\ MaxUptime \in Nat /\ uptime_ticks \in Nat
  BY Constants, Longest DEF ClockInv, TypeOK
<1>1. PICK d \in Nat : d = Ticks(c) /\ d * TickTime =< since[c]
  <2>1. since[c] \in Nat
    BY <1>0, Constants
  <2>. QED BY <2>1, TicksFit DEF Ticks
<1>2. /\ since' = [since EXCEPT ![c] = 0] /\ ssip' = [ssip EXCEPT ![c] = FALSE]
      /\ uptime_ticks' = UpTo(uptime_ticks + d, MaxUptime)
      /\ UNCHANGED <<left, age, asked, elapsed, credit>>
  BY <1>1 DEF soft_interrupt, Restarted
<1>3. timeout' = IF c = 0 THEN (IF timeout =< d THEN 0 ELSE timeout - d) ELSE timeout
  <2>1. Min({timeout, d}) = IF timeout =< d THEN timeout ELSE d
    <3>1. \E x \in {timeout, d} : \A y \in {timeout, d} : x =< y
      BY <1>0
    <3>2. Min({timeout, d}) \in {timeout, d} /\ \A y \in {timeout, d} : Min({timeout, d}) =< y
      BY <3>1 DEF Min
    <3>. QED BY <1>0, <3>2
  <2>. QED BY <1>0, <1>1, <2>1 DEF soft_interrupt, Remaining
<1>4. TypeOK'
  <2>1. since' \in [CPUs -> 0 .. Latency]
    BY <1>0, <1>2, Constants
  <2>2. uptime_ticks' \in 0 .. MaxUptime
    <3>1. uptime_ticks + d \in Nat
      BY <1>0, <1>1
    <3>. QED BY <1>0, <1>2, <3>1, UpToIs
  <2>3. timeout' \in 0 .. MaxTicks /\ timeout' =< asked
    BY <1>0, <1>3
  <2>. QED BY <1>0, <1>2, <2>1, <2>2, <2>3 DEF ClockInv, TypeOK
<1>5. UptimeBound'
  <2>. SUFFICES ASSUME age < MaxAge
                PROVE  uptime_ticks' * TickTime + Cardinality(Unaccounted') =< n * age
    BY <1>2 DEF UptimeBound
  <2>1. u = Cardinality(Unaccounted') + since[c]
    <3>1. Unaccounted = Counts(since) /\ Unaccounted' = Counts(since')
      BY DEF Unaccounted, Counts
    <3>2. Cardinality(Counts(since)) = Cardinality(Counts([since EXCEPT ![c] = 0])) + since[c]
      BY <1>0, CountsRestart
    <3>. QED BY <1>2, <3>1, <3>2
  <2>2. uptime_ticks * TickTime + u =< n * age
    BY DEF ClockInv, UptimeBound
  <2>3. uptime_ticks' \in Nat /\ uptime_ticks' =< uptime_ticks + d
    <3>1. uptime_ticks + d \in Nat
      BY <1>0, <1>1
    <3>. QED BY <1>0, <1>2, <3>1, UpToIs
  <2>4. uptime_ticks' * TickTime =< uptime_ticks * TickTime + d * TickTime
    <3>1. uptime_ticks' * TickTime =< (uptime_ticks + d) * TickTime
      BY <1>0, <2>3, Constants
    <3>2. (uptime_ticks + d) * TickTime = uptime_ticks * TickTime + d * TickTime
      BY <1>0, Constants
    <3>. QED BY <3>1, <3>2
  <2>5. u \in Nat /\ Cardinality(Unaccounted') \in Nat
    BY CountsFinite DEF Unaccounted, Counts
  <2>6. /\ uptime_ticks * TickTime \in Nat /\ n * age \in Nat
        /\ uptime_ticks' * TickTime \in Nat /\ d * TickTime \in Nat /\ since[c] \in Nat
    BY <1>0, <2>3, Constants
  <2>. QED BY <1>1, <2>1, <2>2, <2>4, <2>5, <2>6
<1>6. NotTooEarly'
  <2>. SUFFICES ASSUME timeout' > 0
                PROVE  (asked - timeout') * TickTime + since'[0] =< elapsed + credit
    BY <1>2 DEF NotTooEarly
  <2>0. 0 \in CPUs /\ timeout > 0
    BY <1>0, <1>3, Constants
  <2>1. (asked - timeout) * TickTime + since[0] =< elapsed + credit
    BY <2>0 DEF ClockInv, NotTooEarly
  <2>2. CASE c = 0
    <3>1. timeout' = timeout - d /\ since'[0] = 0
      BY <1>0, <1>2, <1>3, <2>0, <2>2
    <3>2. asked - (timeout - d) = (asked - timeout) + d /\ asked - timeout \in Nat
      BY <1>0
    <3>3. ((asked - timeout) + d) * TickTime = (asked - timeout) * TickTime + d * TickTime
      BY <1>0, Constants
    <3>4. /\ (asked - timeout) * TickTime \in Int /\ d * TickTime \in Int /\ since[0] \in Nat
          /\ d * TickTime =< since[0]
      BY <1>0, <1>1, <2>0, <2>2, Constants
    <3>. QED BY <1>0, <2>1, <3>1, <3>2, <3>3, <3>4
  <2>3. CASE c # 0
    BY <1>0, <1>2, <1>3, <2>0, <2>1, <2>3
  <2>. QED BY <2>2, <2>3
<1>. QED BY <1>0, <1>2, <1>4, <1>5, <1>6 DEF ClockInv

\* Every step keeps the invariant.
LEMMA NextClock ==
    ASSUME ClockAssumption, ClockInv, [Next]_vars
    PROVE  ClockInv'
<1>0. /\ since \in [CPUs -> 0 .. Latency] /\ left \in [CPUs -> 0 .. INTERVAL]
      /\ ssip \in [CPUs -> BOOLEAN]
  BY DEF ClockInv, TypeOK
<1>1. ASSUME NEW c \in CPUs, riscv32_timer_handler(c) \/ arch_send_ipi(c) PROVE ClockInv'
  <2>1. UNCHANGED <<since, age, uptime_ticks, timeout, asked, elapsed, credit>>
    BY <1>1 DEF riscv32_timer_handler, arch_send_ipi
  <2>2. ssip' \in [CPUs -> BOOLEAN] /\ left' \in [CPUs -> 0 .. INTERVAL]
    <3>1. NextTimer \in 0 .. INTERVAL
      BY Constants DEF NextTimer
    <3>. QED BY <1>0, <1>1, <3>1 DEF riscv32_timer_handler, arch_send_ipi
  <2>. QED BY <2>1, <2>2 DEF ClockInv, TypeOK, UptimeBound, NotTooEarly, Unaccounted
<1>2. ASSUME NEW ms \in Timeouts, sys_time(ms) PROVE ClockInv'
  <2>1. /\ timeout' = TimeoutTicks(ms) /\ asked' = TimeoutTicks(ms)
        /\ elapsed' = 0 /\ credit' = since[0]
        /\ UNCHANGED <<since, left, ssip, age, uptime_ticks>>
    BY <1>2 DEF sys_time
  <2>2. TypeOK'
    BY <2>1, Longest DEF ClockInv, TypeOK
  <2>3. UptimeBound'
    BY <2>1 DEF ClockInv, UptimeBound, Unaccounted
  <2>4. since[0] \in Nat /\ TimeoutTicks(ms) \in Nat /\ TickTime \in Nat
    BY <1>0, Constants, Longest
  <2>5. NotTooEarly'
    <3>1. (TimeoutTicks(ms) - TimeoutTicks(ms)) * TickTime = 0
      BY <2>4
    <3>. QED BY <2>1, <2>4, <3>1 DEF NotTooEarly
  <2>. QED BY <2>1, <2>2, <2>3, <2>4, <2>5 DEF ClockInv
<1>3. CASE UNCHANGED vars
  BY <1>3 DEF vars, ClockInv, TypeOK, UptimeBound, NotTooEarly, Unaccounted
<1>. QED BY <1>1, <1>2, <1>3, AdvanceClock, InterruptClock DEF Next

\* interrupt.c: whatever IPIs shift the software interrupts, on each CPU no interrupt counts
\* time that another has counted, so uptime_ticks is at most the time that has passed on all
\* CPUs together.
THEOREM UptimeBounded ==
    ASSUME ClockAssumption
    PROVE  Spec => []UptimeBound
<1>1. ClockInv => UptimeBound
  BY DEF ClockInv
<1>. QED BY <1>1, InitClock, NextClock, PTL DEF Spec

\* interrupt.c: a timeout runs down by no more than the time since it was set and what CPU 0 had
\* not accounted for then.
THEOREM TimeoutsNotTooEarly ==
    ASSUME ClockAssumption
    PROVE  Spec => []NotTooEarly
<1>1. ClockInv => NotTooEarly
  BY DEF ClockInv
<1>. QED BY <1>1, InitClock, NextClock, PTL DEF Spec
-----------------------------------------------------------------------------
(* Ipi.                                                                    *)

CONSTANTS ipi_CPUs, Mappers, Destroyers, MaxOps
VARIABLES big_lock, ipi_pc, op, ipi_pending, ipi_left, tlb, runs, victim, freed, ops

ipi == INSTANCE Ipi WITH CPUs <- ipi_CPUs, pc <- ipi_pc, left <- ipi_left

\* Only a task that runs is on a CPU.
RunsRunnable == runs # ipi!NOBODY => victim = "runnable"

\* The CPUs that change page tables are the mappers.
MapsRight == \A c \in ipi_CPUs : op[c] = "map" => c \in Mappers

\* A TLB that may hold the old entry is one that the mapper still has to wait for, and
\* whose CPU has been told to flush it.
FlushAwaited ==
    \A c, d \in ipi_CPUs : Mappers = {c} /\ tlb[d] => d \in ipi_left[c] /\ "TLB_FLUSH" \in ipi_pending[d]

\* The inductive invariant.
IpiInv == ipi!TypeOK /\ ipi!Exclusive /\ RunsRunnable /\ MapsRight /\ FlushAwaited

\* Nothing is under way at first.
LEMMA InitIpi == ASSUME ipi!IpiAssumption PROVE ipi!Init => IpiInv
  BY DEF ipi!IpiAssumption, ipi!Init, IpiInv, ipi!TypeOK, ipi!Exclusive, RunsRunnable, MapsRight, FlushAwaited, ipi!NOBODY

\* The types.
LEMMA TypesKept == ASSUME ipi!IpiAssumption, ipi!TypeOK, [ipi!Next]_(ipi!vars) PROVE ipi!TypeOK'
<1>. USE DEF ipi!TypeOK, ipi!taskVars
<1>1. ASSUME NEW c \in ipi_CPUs, ipi!syscall(c) PROVE ipi!TypeOK'
  BY <1>1 DEF ipi!IpiAssumption, ipi!syscall
<1>2. ASSUME NEW c \in ipi_CPUs, ipi!soft_interrupt(c) PROVE ipi!TypeOK'
  BY <1>2 DEF ipi!soft_interrupt
<1>3. ASSUME NEW c \in ipi_CPUs, ipi!mp_lock(c) PROVE ipi!TypeOK'
  BY <1>3 DEF ipi!mp_lock
<1>4. ASSUME NEW c \in ipi_CPUs, ipi!ipi_wait(c) PROVE ipi!TypeOK'
  BY <1>4 DEF ipi!ipi_wait
<1>5. ASSUME NEW c \in ipi_CPUs, ipi!ipi_next(c) PROVE ipi!TypeOK'
  BY <1>5 DEF ipi!ipi_next
<1>6. ASSUME NEW c \in ipi_CPUs, ipi!map_begin(c) PROVE ipi!TypeOK'
  BY <1>6 DEF ipi!map_begin, ipi!arch_send_ipi, ipi!Targets
<1>7. ASSUME NEW c \in ipi_CPUs, ipi!map_end(c) PROVE ipi!TypeOK'
  BY <1>7 DEF ipi!map_end, ipi!Leave
<1>8. ASSUME NEW c \in ipi_CPUs, ipi!destroy_begin(c) PROVE ipi!TypeOK'
  BY <1>8 DEF ipi!destroy_begin, ipi!Leave
<1>9. ASSUME NEW c \in ipi_CPUs, ipi!destroy_loop(c) PROVE ipi!TypeOK'
  BY <1>9 DEF ipi!destroy_loop, ipi!arch_send_ipi, ipi!Targets
<1>10. ASSUME NEW c \in ipi_CPUs, ipi!destroy_end(c) PROVE ipi!TypeOK'
  BY <1>10 DEF ipi!destroy_end, ipi!Leave
<1>11. ASSUME NEW c \in ipi_CPUs, ipi!handle_soft_interrupt(c) PROVE ipi!TypeOK'
  BY <1>11 DEF ipi!handle_soft_interrupt, ipi!Leave
<1>12. ASSUME NEW c \in ipi_CPUs, ipi!schedule(c) PROVE ipi!TypeOK'
  BY <1>12 DEF ipi!schedule
<1>13. CASE ipi!block \/ ipi!wake
  BY <1>13 DEF ipi!block, ipi!wake
<1>14. CASE UNCHANGED ipi!vars
  BY <1>14 DEF ipi!vars
<1>. QED BY <1>1, <1>2, <1>3, <1>4, <1>5, <1>6, <1>7, <1>8, <1>9, <1>10, <1>11, <1>12, <1>13, <1>14
         DEF ipi!Next, ipi!Kernel

\* The lock is taken when it is free and given up by its holder.
LEMMA ExclusiveKept == ASSUME ipi!IpiAssumption, ipi!TypeOK, ipi!Exclusive, [ipi!Next]_(ipi!vars) PROVE ipi!Exclusive'
<1>. SUFFICES ASSUME NEW d \in ipi_CPUs, ipi_pc'[d] \in {"sys", "soft"} PROVE big_lock' = d
  BY DEF ipi!Exclusive
<1>0. ipi!NOBODY \notin ipi_CPUs /\ ipi_pc \in [ipi_CPUs -> {"user", "lock_sys", "lock_soft", "sys", "soft", "wait", "relock"}]
  BY DEF ipi!IpiAssumption, ipi!NOBODY, ipi!TypeOK
<1>1. ASSUME NEW c \in ipi_CPUs, ipi!syscall(c) \/ ipi!soft_interrupt(c) \/ ipi!ipi_wait(c) PROVE big_lock' = d
  BY <1>0, <1>1 DEF ipi!syscall, ipi!soft_interrupt, ipi!ipi_wait, ipi!Exclusive
<1>2. ASSUME NEW c \in ipi_CPUs, ipi!mp_lock(c) PROVE big_lock' = d
  BY <1>0, <1>2 DEF ipi!mp_lock, ipi!LockFree, ipi!Exclusive
<1>3. ASSUME NEW c \in ipi_CPUs, ipi_pc[c] \in {"sys", "soft"}, ipi_pc' = [ipi_pc EXCEPT ![c] = "wait"] PROVE FALSE
  BY <1>0, <1>3 DEF ipi!Exclusive
<1>4. ASSUME NEW c \in ipi_CPUs, ipi_pc[c] \in {"sys", "soft"}, ipi_pc' = [ipi_pc EXCEPT ![c] = "user"] PROVE FALSE
  BY <1>0, <1>4 DEF ipi!Exclusive
<1>5. ASSUME NEW c \in ipi_CPUs, ipi!destroy_begin(c) PROVE big_lock' = d
  BY <1>4, <1>5 DEF ipi!destroy_begin, ipi!Leave, ipi!Exclusive
<1>6. CASE (\E c \in ipi_CPUs : ipi!schedule(c)) \/ ipi!block \/ ipi!wake \/ UNCHANGED ipi!vars
  BY <1>6 DEF ipi!schedule, ipi!block, ipi!wake, ipi!vars, ipi!Exclusive
<1>. QED BY <1>1, <1>2, <1>3, <1>4, <1>5, <1>6
         DEF ipi!Next, ipi!Kernel, ipi!ipi_next, ipi!map_begin, ipi!map_end, ipi!destroy_loop, ipi!destroy_end,
             ipi!handle_soft_interrupt, ipi!arch_send_ipi, ipi!Leave

\* The victim is put on a CPU when it can run, and taken off before it blocks or is freed.
LEMMA RunsKept == ASSUME RunsRunnable, [ipi!Next]_(ipi!vars) PROVE RunsRunnable'
<1>. USE DEF RunsRunnable
<1>1. ASSUME NEW c \in ipi_CPUs, ipi!destroy_end(c) PROVE RunsRunnable'
  BY <1>1 DEF ipi!destroy_end, ipi!Stopped
<1>2. ASSUME NEW c \in ipi_CPUs, ipi!handle_soft_interrupt(c) PROVE RunsRunnable'
  BY <1>2 DEF ipi!handle_soft_interrupt
<1>3. CASE (\E c \in ipi_CPUs : ipi!schedule(c)) \/ ipi!block \/ ipi!wake
  BY <1>3 DEF ipi!schedule, ipi!block, ipi!wake
<1>4. CASE UNCHANGED ipi!taskVars
  BY <1>4 DEF ipi!taskVars
<1>. QED BY <1>1, <1>2, <1>3, <1>4
         DEF ipi!Next, ipi!Kernel, ipi!syscall, ipi!soft_interrupt, ipi!mp_lock, ipi!ipi_wait, ipi!ipi_next, ipi!map_begin, ipi!map_end,
             ipi!destroy_begin, ipi!destroy_loop, ipi!vars, ipi!taskVars

\* Operations do not move from one CPU to another.
LEMMA MapsKept == ASSUME ipi!TypeOK, MapsRight, [ipi!Next]_(ipi!vars) PROVE MapsRight'
<1>0. op \in [ipi_CPUs -> {"map", "destroy", "destroying", "none"}]
  BY DEF ipi!TypeOK
<1>1. ASSUME NEW c \in ipi_CPUs, ipi!syscall(c) PROVE MapsRight'
  BY <1>0, <1>1 DEF ipi!syscall, MapsRight
<1>2. ASSUME NEW c \in ipi_CPUs, NEW o \in {"destroying", "none"}, op' = [op EXCEPT ![c] = o] PROVE MapsRight'
  BY <1>0, <1>2 DEF MapsRight
<1>3. CASE op' = op
  BY <1>3 DEF MapsRight
<1>. QED BY <1>1, <1>2, <1>3
         DEF ipi!Next, ipi!Kernel, ipi!soft_interrupt, ipi!mp_lock, ipi!ipi_wait, ipi!ipi_next, ipi!map_begin, ipi!map_end,
             ipi!destroy_begin, ipi!destroy_loop, ipi!destroy_end, ipi!handle_soft_interrupt, ipi!schedule, ipi!block, ipi!wake, ipi!vars

\* The mapper goes on from a CPU only when that CPU has handled its IPIs, and then its TLB
\* is flushed.
LEMMA FlushKept ==
    ASSUME ipi!TypeOK, MapsRight, FlushAwaited, [ipi!Next]_(ipi!vars)
    PROVE  FlushAwaited'
<1>. SUFFICES ASSUME NEW m \in ipi_CPUs, NEW d \in ipi_CPUs, Mappers = {m}, tlb'[d]
              PROVE  d \in ipi_left'[m] /\ "TLB_FLUSH" \in ipi_pending'[d]
  BY DEF FlushAwaited
<1>0. /\ ipi_left \in [ipi_CPUs -> SUBSET ipi_CPUs] /\ tlb \in [ipi_CPUs -> BOOLEAN]
      /\ ipi_pending \in [ipi_CPUs -> SUBSET {"TLB_FLUSH", "RESCHEDULE"}]
  BY DEF ipi!TypeOK
<1>1. tlb[d] => d \in ipi_left[m] /\ "TLB_FLUSH" \in ipi_pending[d]
  BY DEF FlushAwaited
<1>2. ASSUME NEW c \in ipi_CPUs, ipi!ipi_wait(c) PROVE d \in ipi_left'[m] /\ "TLB_FLUSH" \in ipi_pending'[d]
  BY <1>0, <1>1, <1>2 DEF ipi!ipi_wait, ipi!Handled
<1>3. ASSUME NEW c \in ipi_CPUs, ipi!map_begin(c) PROVE d \in ipi_left'[m] /\ "TLB_FLUSH" \in ipi_pending'[d]
  <2>1. c = m
    BY <1>3 DEF ipi!map_begin, MapsRight
  <2>. QED BY <1>0, <1>3, <2>1 DEF ipi!map_begin, ipi!arch_send_ipi, ipi!Targets
<1>4. ASSUME NEW c \in ipi_CPUs, ipi!destroy_loop(c) PROVE d \in ipi_left'[m] /\ "TLB_FLUSH" \in ipi_pending'[d]
  <2>1. tlb[d] /\ m # c
    BY <1>0, <1>1, <1>4 DEF ipi!destroy_loop
  <2>. QED BY <1>0, <1>1, <1>4, <2>1 DEF ipi!destroy_loop, ipi!arch_send_ipi
<1>5. ASSUME NEW c \in ipi_CPUs, ipi!handle_soft_interrupt(c) PROVE d \in ipi_left'[m] /\ "TLB_FLUSH" \in ipi_pending'[d]
  BY <1>0, <1>1, <1>5 DEF ipi!handle_soft_interrupt
<1>6. CASE UNCHANGED <<ipi_left, tlb, ipi_pending>>
  BY <1>1, <1>6
<1>. QED BY <1>2, <1>3, <1>4, <1>5, <1>6
         DEF ipi!Next, ipi!Kernel, ipi!syscall, ipi!soft_interrupt, ipi!mp_lock, ipi!ipi_next, ipi!map_end, ipi!destroy_begin,
             ipi!destroy_end, ipi!schedule, ipi!block, ipi!wake, ipi!vars

\* Every step preserves the invariant.
LEMMA NextIpi == ASSUME ipi!IpiAssumption PROVE IpiInv /\ [ipi!Next]_(ipi!vars) => IpiInv'
  BY TypesKept, ExclusiveKept, RunsKept, MapsKept, FlushKept DEF IpiInv

\* The invariant gives what callers of the lock and of IPIs rely on.
LEMMA IpiInvEnough == IpiInv => ipi!TypeOK /\ ipi!Exclusive /\ ipi!FreedStopped /\ ipi!Shootdown
<1>1. IpiInv => ipi!FreedStopped
  BY DEF IpiInv, RunsRunnable, ipi!FreedStopped
<1>2. IpiInv => ipi!Shootdown
  BY DEF IpiInv, FlushAwaited, ipi!Shootdown
<1>. QED BY <1>1, <1>2 DEF IpiInv

\* At most one CPU is in the kernel, and it has the lock, although arch_send_ipi gives it up.
THEOREM LockExclusive == ASSUME ipi!IpiAssumption PROVE ipi!Spec => []ipi!Exclusive
<1>. QED BY InitIpi, NextIpi, IpiInvEnough, PTL DEF ipi!Spec

\* When the CPU that changes page tables leaves the kernel, every other CPU has flushed its TLB.
THEOREM TlbsShotDown == ASSUME ipi!IpiAssumption PROVE ipi!Spec => []ipi!Shootdown
<1>. QED BY InitIpi, NextIpi, IpiInvEnough, PTL DEF ipi!Spec

\* A task that task_destroy has freed runs on no CPU.
THEOREM FreedIsStopped == ASSUME ipi!IpiAssumption PROVE ipi!Spec => []ipi!FreedStopped
<1>. QED BY InitIpi, NextIpi, IpiInvEnough, PTL DEF ipi!Spec
=============================================================================
