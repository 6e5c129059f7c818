--------------------------- MODULE HardwareProofs ---------------------------
(***************************************************************************)
(* Theorems about the components of MCHardware, for any values of their    *)
(* constants that MCHardware assumes.                                      *)
(***************************************************************************)
EXTENDS MCHardware, TLAPS

-----------------------------------------------------------------------------
(* IPIs.                                                                   *)

\* The proofs about Clock and Ipi: with IPIs that shift the clock, and one CPU that sends them;
\* and without, and with several CPUs that send them.
machine == INSTANCE MachineProofs WITH
    CPUs <- clock_CPUs, left <- clock_left, asked <- clock_asked, Ipis <- TRUE
machines == INSTANCE MachineProofs WITH
    CPUs <- clock_CPUs, left <- clock_left, asked <- clock_asked, Ipis <- FALSE, MaxAge <- 0,
    Mappers <- {1, 2}, Destroyers <- {2, 3}

\* The invariants of the two instances.
IpisInv ==
    /\ sys = "ipi" => machine!IpiInv
    /\ sys = "ipi_many" => machines!IpiInv

\* MCHardware's instance of Ipi, with one CPU that sends IPIs, is that of the proofs.
LEMMA SameIpi ==
    /\ ipi!IpiAssumption => machine!ipi!IpiAssumption
    /\ ipi!Init => machine!ipi!Init
    /\ ipi!Next => machine!ipi!Next
    /\ machine!IpiInv => ipi!TypeOK /\ ipi!Exclusive /\ ipi!FreedStopped /\ ipi!Shootdown
<1>1. ipi!IpiAssumption => machine!ipi!IpiAssumption
  BY DEF ipi!IpiAssumption, machine!ipi!IpiAssumption
<1>2. ipi!Init => machine!ipi!Init
  BY DEF ipi!Init, machine!ipi!Init, ipi!NOBODY, machine!ipi!NOBODY
<1>3. ipi!Next => machine!ipi!Next
  BY DEF
      ipi!Next, machine!ipi!Next, ipi!NOBODY, machine!ipi!NOBODY, ipi!Kernel, machine!ipi!Kernel,
      ipi!syscall, machine!ipi!syscall, ipi!soft_interrupt, machine!ipi!soft_interrupt,
      ipi!mp_lock, machine!ipi!mp_lock, ipi!LockFree, machine!ipi!LockFree, ipi!ipi_wait,
      machine!ipi!ipi_wait, ipi!Handled, machine!ipi!Handled, ipi!ipi_next, machine!ipi!ipi_next,
      ipi!map_begin, machine!ipi!map_begin, ipi!arch_send_ipi, machine!ipi!arch_send_ipi,
      ipi!Targets, machine!ipi!Targets, ipi!map_end, machine!ipi!map_end, ipi!Leave,
      machine!ipi!Leave, ipi!destroy_begin, machine!ipi!destroy_begin, ipi!destroy_loop,
      machine!ipi!destroy_loop, ipi!destroy_end, machine!ipi!destroy_end, ipi!Stopped,
      machine!ipi!Stopped, ipi!handle_soft_interrupt, machine!ipi!handle_soft_interrupt,
      ipi!schedule, machine!ipi!schedule, ipi!block, machine!ipi!block, ipi!wake, machine!ipi!wake,
      ipi!taskVars, machine!ipi!taskVars
<1>4. machine!IpiInv => ipi!TypeOK /\ ipi!Exclusive /\ ipi!FreedStopped /\ ipi!Shootdown
  BY machine!IpiInvEnough DEF
      ipi!TypeOK, machine!ipi!TypeOK, ipi!Exclusive, machine!ipi!Exclusive, ipi!FreedStopped,
      machine!ipi!FreedStopped, ipi!Shootdown, machine!ipi!Shootdown, ipi!NOBODY, machine!ipi!NOBODY
<1>. QED BY <1>1, <1>2, <1>3, <1>4

\* And so is the instance with several.
LEMMA SameIpiMany ==
    /\ ipiMany!IpiAssumption => machines!ipi!IpiAssumption
    /\ ipiMany!Init => machines!ipi!Init
    /\ ipiMany!Next => machines!ipi!Next
    /\ machines!IpiInv => ipiMany!TypeOK /\ ipiMany!Exclusive /\ ipiMany!FreedStopped
<1>1. ipiMany!IpiAssumption => machines!ipi!IpiAssumption
  BY DEF ipiMany!IpiAssumption, machines!ipi!IpiAssumption
<1>2. ipiMany!Init => machines!ipi!Init
  BY DEF ipiMany!Init, machines!ipi!Init, ipiMany!NOBODY, machines!ipi!NOBODY
<1>3. ipiMany!Next => machines!ipi!Next
  BY DEF
      ipiMany!Next, machines!ipi!Next, ipiMany!NOBODY, machines!ipi!NOBODY, ipiMany!Kernel,
      machines!ipi!Kernel, ipiMany!syscall, machines!ipi!syscall, ipiMany!soft_interrupt,
      machines!ipi!soft_interrupt, ipiMany!mp_lock, machines!ipi!mp_lock, ipiMany!LockFree,
      machines!ipi!LockFree, ipiMany!ipi_wait, machines!ipi!ipi_wait, ipiMany!Handled,
      machines!ipi!Handled, ipiMany!ipi_next, machines!ipi!ipi_next, ipiMany!map_begin,
      machines!ipi!map_begin, ipiMany!arch_send_ipi, machines!ipi!arch_send_ipi,
      ipiMany!Targets, machines!ipi!Targets, ipiMany!map_end, machines!ipi!map_end,
      ipiMany!Leave, machines!ipi!Leave, ipiMany!destroy_begin, machines!ipi!destroy_begin,
      ipiMany!destroy_loop, machines!ipi!destroy_loop, ipiMany!destroy_end,
      machines!ipi!destroy_end, ipiMany!Stopped, machines!ipi!Stopped,
      ipiMany!handle_soft_interrupt, machines!ipi!handle_soft_interrupt, ipiMany!schedule,
      machines!ipi!schedule, ipiMany!block, machines!ipi!block, ipiMany!wake,
      machines!ipi!wake, ipiMany!taskVars, machines!ipi!taskVars
<1>4. machines!IpiInv => ipiMany!TypeOK /\ ipiMany!Exclusive /\ ipiMany!FreedStopped
  BY machines!IpiInvEnough DEF
      ipiMany!TypeOK, machines!ipi!TypeOK, ipiMany!Exclusive, machines!ipi!Exclusive,
      ipiMany!FreedStopped, machines!ipi!FreedStopped, ipiMany!NOBODY, machines!ipi!NOBODY
<1>. QED BY <1>1, <1>2, <1>3, <1>4

\* IPIs are sound at first.
LEMMA InitIpis == Init => IpisInv
<1>1. machine!ipi!IpiAssumption /\ machines!ipi!IpiAssumption
  BY HardwareAssumption, SameIpi, SameIpiMany DEF HardwareAssumption
<1>2. ipi!Init => ipiMany!Init
  BY DEF ipi!Init, ipiMany!Init, ipi!NOBODY, ipiMany!NOBODY
<1>. QED BY <1>1, <1>2, SameIpi, SameIpiMany, machine!InitIpi, machines!InitIpi DEF Init, IpisInv

\* And remain so.
LEMMA NextIpis == IpisInv /\ [Next]_vars => IpisInv'
<1>. SUFFICES ASSUME IpisInv, [Next]_vars PROVE IpisInv'
  OBVIOUS
<1>0. machine!ipi!IpiAssumption /\ machines!ipi!IpiAssumption
  BY HardwareAssumption, SameIpi, SameIpiMany DEF HardwareAssumption
<1>1. CASE IpiStep
  <2>1. sys' = sys /\ (sys = "ipi" => ipi!Next) /\ (sys = "ipi_many" => ipiMany!Next)
    BY <1>1 DEF IpiStep
  <2>. QED BY <1>0, <2>1, SameIpi, SameIpiMany, machine!NextIpi, machines!NextIpi DEF IpisInv
<1>2. CASE UNCHANGED <<sys, IpiVars>>
  <2>1. sys' = sys /\ UNCHANGED machine!ipi!vars /\ UNCHANGED machines!ipi!vars
    BY <1>2 DEF IpiVars, machine!ipi!vars, machines!ipi!vars
  <2>. QED BY <1>0, <2>1, machine!NextIpi, machines!NextIpi DEF IpisInv
<1>. QED BY <1>1, <1>2 DEF Next, SerialStep, ClockStep, NetStep, BlkStep, vars

\* When the CPU that has changed a page table leaves the kernel, no other CPU can use the
\* old entry; a task that is freed runs on no CPU; and although arch_send_ipi gives up the
\* lock, a CPU in the kernel has it; for any set of CPUs, mappers and destroyers.
THEOREM IpisAreSound == Spec => []IpisSound
<1>1. IpisInv => IpisSound
  BY SameIpi, SameIpiMany DEF IpisInv, IpisSound
<1>. QED BY <1>1, InitIpis, NextIpis, PTL DEF Spec

-----------------------------------------------------------------------------
(* The console.                                                            *)

\* The assumption: a program hands at most one kernel buffer of text to a system call.
\* printf collects at most 256 characters (printbuf, libs/user/printf.c:5), kbuf has 512.
\* A longer text would be written from its start in every round.
TextsFit == \A text \in Texts : serial!Limited(Len(text)) =< KbufSize

\* A write in progress is in its first round.
FirstRound ==
    \A t \in Tasks : remaining[t] # 0 =>
        /\ remaining[t] = serial!Limited(Len(writing[t])) /\ remaining[t] =< KbufSize
        /\ output[t] = <<>>

\* The invariant of the console.
ConsoleInv == serial!TypeOK /\ serial!SleepsOnlyOnEmpty /\ serial!WritesText /\ FirstRound

\* The remainder of a number that is at most one round too large.
LEMMA Wrap ==
    ASSUME NEW R \in Nat \ {0}, NEW x \in Nat, x < R + R
    PROVE  x % R = IF x < R THEN x ELSE x - R
<1>. DEFINE q == x \div R
<1>1. x % R \in 0 .. R - 1
  OBVIOUS
<1>2. q \in Int /\ x = (R * q) + (x % R)
  OBVIOUS
<1>. HIDE DEF q
<1>3. q >= 0
  <2>1. q < 0 => R * q =< -R
    BY <1>2
  <2>. QED BY <1>1, <1>2, <2>1
<1>4. q =< 1
  <2>1. q > 1 => R * q >= R + R
    BY <1>2
  <2>. QED BY <1>1, <1>2, <2>1
<1>5. CASE q = 0
  BY <1>1, <1>2, <1>5
<1>6. CASE q = 1
  BY <1>1, <1>2, <1>6
<1>. QED BY <1>2, <1>3, <1>4, <1>5, <1>6

\* The ring has at least two positions.
LEMMA Ring ==
    /\ RingSize \in Nat \ {0} /\ RingSize > 1
    /\ \A p \in serial!Positions : p \in Nat /\ p < RingSize
    /\ \A p \in Nat : p < RingSize => p \in serial!Positions
<1>1. RingSize \in Nat /\ RingSize > 1
  BY HardwareAssumption DEF HardwareAssumption, serial!RingAssumption
<1>. QED BY <1>1 DEF serial!Positions

\* k positions after p.
After(p, k) == IF p + k < RingSize THEN p + k ELSE p + k - RingSize

LEMMA AfterIs ==
    ASSUME NEW p \in serial!Positions, NEW k \in Nat, k =< RingSize
    PROVE  (p + k) % RingSize = After(p, k) /\ After(p, k) \in Nat
<1>1. PICK x \in Nat : x = p + k /\ x < RingSize + RingSize
  BY Ring
<1>2. x % RingSize = IF x < RingSize THEN x ELSE x - RingSize
  BY <1>1, Ring, Wrap
<1>. QED BY <1>1, <1>2, Ring DEF After

\* The next position.
LEMMA NextIs ==
    ASSUME NEW p \in serial!Positions
    PROVE  serial!NextPosition(p) = After(p, 1)
  BY AfterIs, Ring DEF serial!NextPosition

\* The distance from one position to another, and back again.
LEMMA Distance ==
    ASSUME NEW rp \in serial!Positions, NEW wp \in serial!Positions
    PROVE  LET n == (wp - rp + RingSize) % RingSize
           IN  /\ n = (IF rp =< wp THEN wp - rp ELSE wp - rp + RingSize)
               /\ n \in Nat /\ n < RingSize /\ wp = After(rp, n)
<1>1. PICK x \in Nat : x = wp - rp + RingSize /\ x < RingSize + RingSize
  BY Ring
<1>2. x % RingSize = IF x < RingSize THEN x ELSE x - RingSize
  BY <1>1, Ring, Wrap
<1>3. (wp - rp + RingSize) % RingSize = IF x < RingSize THEN x ELSE x - RingSize
  BY <1>1, <1>2
<1>. QED BY <1>1, <1>3, Ring DEF After

\* How many characters the ring holds.
LEMMA FilledIs ==
    ASSUME input_rp \in serial!Positions, input_wp \in serial!Positions
    PROVE  /\ serial!Filled = IF input_rp =< input_wp THEN input_wp - input_rp
                              ELSE input_wp - input_rp + RingSize
           /\ serial!Filled \in Nat /\ serial!Filled < RingSize
           /\ input_wp = After(input_rp, serial!Filled)
  BY Distance DEF serial!Filled

\* The positions and the buffer have their types, and so have the reads in progress.
RingOK ==
    /\ input \in [serial!Positions -> Chars]
    /\ input_rp \in serial!Positions /\ input_wp \in serial!Positions
    /\ max_len \in [Tasks -> 0 .. RingSize]

\* The handler stores a character.
Stores(ch) ==
    /\ input' = [input EXCEPT ![input_wp] = ch]
    /\ input_wp' = serial!NextPosition(input_wp)
    /\ input_rp' = serial!DropWhenFull(input_rp, serial!NextPosition(input_wp))

\* Its effect on the positions: a full ring loses its oldest character.
LEMMA StoresPositions ==
    ASSUME RingOK, NEW ch \in Chars, Stores(ch)
    PROVE  /\ input' \in [serial!Positions -> Chars]
           /\ input_rp' \in serial!Positions /\ input_wp' \in serial!Positions
           /\ \/ /\ serial!Filled + 1 < RingSize
                 /\ input_rp' = input_rp /\ serial!Filled' = serial!Filled + 1
              \/ /\ serial!Filled + 1 = RingSize
                 /\ input_rp' = After(input_rp, 1) /\ serial!Filled' = serial!Filled
<1>0. input \in [serial!Positions -> Chars] /\ input_rp \in serial!Positions /\ input_wp \in serial!Positions
  BY DEF RingOK
<1>1. input' \in [serial!Positions -> Chars]
  BY <1>0 DEF Stores
<1>2. input_wp' = After(input_wp, 1) /\ input_rp' = IF input_rp = After(input_wp, 1) THEN After(input_rp, 1) ELSE input_rp
  BY <1>0, NextIs DEF Stores, serial!DropWhenFull
<1>3. input_rp' \in serial!Positions /\ input_wp' \in serial!Positions
  BY <1>0, <1>2, Ring DEF After
<1>4. serial!Filled' = IF input_rp' =< input_wp' THEN input_wp' - input_rp' ELSE input_wp' - input_rp' + RingSize
  BY <1>3, Distance DEF serial!Filled
<1>. QED BY <1>0, <1>1, <1>2, <1>3, <1>4, FilledIs, Ring DEF After

\* A reader takes len characters.
LEMMA ReadPositions ==
    ASSUME RingOK, NEW len \in Nat, len =< serial!Filled,
           input_rp' = (input_rp + len) % RingSize, input_wp' = input_wp
    PROVE  /\ input_rp' \in serial!Positions /\ input_rp' = After(input_rp, len)
           /\ serial!Filled' = serial!Filled - len
<1>0. input_rp \in serial!Positions /\ input_wp \in serial!Positions
  BY DEF RingOK
<1>1. input_rp' = After(input_rp, len)
  BY <1>0, AfterIs, FilledIs, Ring
<1>2. input_rp' \in serial!Positions
  BY <1>0, <1>1, FilledIs, Ring DEF After
<1>3. serial!Filled' = IF input_rp' =< input_wp' THEN input_wp' - input_rp' ELSE input_wp' - input_rp' + RingSize
  BY <1>0, <1>2, Distance DEF serial!Filled
<1>4. PICK F \in Nat : /\ F = serial!Filled /\ F < RingSize /\ len =< F
                       /\ F = IF input_rp =< input_wp THEN input_wp - input_rp
                               ELSE input_wp - input_rp + RingSize
  BY <1>0, FilledIs
<1>5. PICK r \in Nat : r = input_rp' /\ r = IF input_rp + len < RingSize THEN input_rp + len
                                            ELSE input_rp + len - RingSize
  BY <1>1, <1>2, Ring DEF After
<1>6. input_rp \in Nat /\ input_wp \in Nat /\ input_rp < RingSize /\ input_wp < RingSize
  BY <1>0, Ring
<1>7. (IF r =< input_wp THEN input_wp - r ELSE input_wp - r + RingSize) = F - len
  BY <1>4, <1>5, <1>6, Ring
<1>. QED BY <1>1, <1>2, <1>3, <1>4, <1>5, <1>7

\* The console is empty and nobody reads or writes at first.
LEMMA InitConsole == serial!Init => ConsoleInv
<1>. SUFFICES ASSUME serial!Init PROVE ConsoleInv
  OBVIOUS
<1>1. serial!TypeOK
  <2>1. PICK c \in Chars : input = [p \in serial!Positions |-> c]
    BY DEF serial!Init
  <2>2. 0 \in serial!Positions /\ WriteMax \in Nat
    BY Ring, HardwareAssumption DEF HardwareAssumption, serial!RingAssumption
  <2>3. <<>> \in Seq(Chars) /\ 0 \in 0 .. RingSize /\ 0 \in 0 .. WriteMax
    BY <2>2, Ring
  <2>4. input \in [serial!Positions -> Chars]
    BY <2>1
  <2>. QED BY <2>2, <2>3, <2>4 DEF serial!Init, serial!TypeOK
<1>2. serial!SleepsOnlyOnEmpty
  BY DEF serial!Init, serial!SleepsOnlyOnEmpty
<1>3. \A t \in Tasks : remaining[t] = 0 /\ output[t] = <<>> /\ writing[t] = <<>>
  BY DEF serial!Init
<1>4. SubSeq(<<>>, 1, serial!Limited(Len(<<>>))) = <<>>
  <2>1. serial!Limited(Len(<<>>)) = 0
    BY HardwareAssumption DEF HardwareAssumption, serial!RingAssumption, serial!Limited
  <2>. QED BY <2>1
<1>. QED BY <1>1, <1>2, <1>3, <1>4 DEF ConsoleInv, serial!WritesText, FirstRound

\* What is written to the UART.
LEMMA WritesKept ==
    ASSUME TextsFit, serial!TypeOK, serial!WritesText, FirstRound, NEW t \in Tasks,
           serial!write_chunk(t) \/ \E text \in Texts : serial!sys_serial_write(t, text)
    PROVE  /\ writing' \in [Tasks -> Seq(Chars)] /\ output' \in [Tasks -> Seq(Chars)]
           /\ remaining' \in [Tasks -> 0 .. WriteMax]
           /\ serial!WritesText' /\ FirstRound'
<1>0. /\ writing \in [Tasks -> Seq(Chars)] /\ output \in [Tasks -> Seq(Chars)]
      /\ remaining \in [Tasks -> 0 .. WriteMax] /\ WriteMax \in Nat /\ KbufSize \in Nat \ {0}
      /\ Texts \subseteq Seq(Chars)
  BY HardwareAssumption DEF HardwareAssumption, serial!RingAssumption, serial!TypeOK
<1>1. CASE serial!write_chunk(t)
  <2>1. /\ remaining[t] \in Nat /\ remaining[t] # 0 /\ writing[t] \in Seq(Chars)
        /\ remaining[t] = serial!Limited(Len(writing[t])) /\ remaining[t] =< KbufSize
        /\ output[t] = <<>>
    BY <1>0, <1>1 DEF serial!write_chunk, FirstRound
  <2>2. serial!CopyLen(remaining[t]) = remaining[t]
    BY <1>0, <2>1 DEF serial!CopyLen
  <2>3. /\ output' = [output EXCEPT ![t] = output[t] \o SubSeq(writing[t], 1, remaining[t])]
        /\ remaining' = [remaining EXCEPT ![t] = remaining[t] - remaining[t]]
        /\ writing' = writing
    BY <1>1, <2>2 DEF serial!write_chunk
  <2>4. remaining[t] =< Len(writing[t])
    BY <1>0, <2>1 DEF serial!Limited
  <2>5. SubSeq(writing[t], 1, remaining[t]) \in Seq(Chars)
    BY <2>1, <2>4
  <2>6. output[t] \o SubSeq(writing[t], 1, remaining[t]) = SubSeq(writing[t], 1, remaining[t])
    BY <2>1, <2>5
  <2>7. /\ output' = [output EXCEPT ![t] = SubSeq(writing[t], 1, remaining[t])]
        /\ remaining' = [remaining EXCEPT ![t] = 0]
    <3>1. remaining[t] - remaining[t] = 0
      BY <2>1
    <3>. QED BY <2>3, <2>6, <3>1
  <2>8. /\ output' \in [Tasks -> Seq(Chars)] /\ remaining' \in [Tasks -> 0 .. WriteMax]
        /\ output'[t] = SubSeq(writing[t], 1, remaining[t]) /\ remaining'[t] = 0
        /\ \A s \in Tasks \ {t} : output'[s] = output[s] /\ remaining'[s] = remaining[s]
    BY <1>0, <2>5, <2>7
  <2>9. serial!WritesText'
    <3>. SUFFICES ASSUME NEW s \in Tasks, remaining'[s] = 0
                  PROVE  output'[s] = SubSeq(writing[s], 1, serial!Limited(Len(writing[s])))
      BY <2>3 DEF serial!WritesText
    <3>1. CASE s = t
      BY <2>1, <2>8, <3>1
    <3>2. CASE s # t
      BY <2>8, <3>2 DEF serial!WritesText
    <3>. QED BY <3>1, <3>2
  <2>10. FirstRound'
    BY <2>3, <2>8 DEF FirstRound
  <2>. QED BY <1>0, <2>3, <2>8, <2>9, <2>10
<1>2. ASSUME NEW text \in Texts, serial!sys_serial_write(t, text)
      PROVE  /\ writing' \in [Tasks -> Seq(Chars)] /\ output' \in [Tasks -> Seq(Chars)]
             /\ remaining' \in [Tasks -> 0 .. WriteMax]
             /\ serial!WritesText' /\ FirstRound'
  <2>1. text \in Seq(Chars) /\ Len(text) \in Nat
    BY <1>0
  <2>2. serial!Limited(Len(text)) \in 0 .. WriteMax /\ serial!Limited(Len(text)) =< KbufSize
    BY <1>0, <2>1 DEF serial!Limited, TextsFit
  <2>3. /\ writing' = [writing EXCEPT ![t] = text] /\ output' = [output EXCEPT ![t] = <<>>]
        /\ remaining' = [remaining EXCEPT ![t] = serial!Limited(Len(text))]
    BY <1>2 DEF serial!sys_serial_write
  <2>4. /\ writing' \in [Tasks -> Seq(Chars)] /\ output' \in [Tasks -> Seq(Chars)]
        /\ remaining' \in [Tasks -> 0 .. WriteMax]
        /\ writing'[t] = text /\ output'[t] = <<>> /\ remaining'[t] = serial!Limited(Len(text))
        /\ \A s \in Tasks \ {t} : /\ output'[s] = output[s] /\ remaining'[s] = remaining[s]
                                  /\ writing'[s] = writing[s]
    BY <1>0, <2>1, <2>2, <2>3
  <2>5. FirstRound'
    BY <2>2, <2>4 DEF FirstRound
  <2>6. serial!Limited(Len(text)) = 0 => SubSeq(text, 1, serial!Limited(Len(text))) = <<>>
    BY <2>1
  <2>7. serial!WritesText'
    BY <2>4, <2>6 DEF serial!WritesText
  <2>. QED BY <2>4, <2>5, <2>7
<1>. QED BY <1>1, <1>2

\* What the steps of the console leave alone.
LEMMA TextsKept ==
    ASSUME serial!TypeOK, serial!WritesText, FirstRound, UNCHANGED <<writing, remaining, output>>
    PROVE  /\ writing' \in [Tasks -> Seq(Chars)] /\ output' \in [Tasks -> Seq(Chars)]
           /\ remaining' \in [Tasks -> 0 .. WriteMax]
           /\ serial!WritesText' /\ FirstRound'
  BY DEF serial!TypeOK, serial!WritesText, FirstRound

\* Every step of the console keeps its invariant.
LEMMA NextConsole ==
    ASSUME TextsFit, ConsoleInv, serial!Next
    PROVE  ConsoleInv'
<1>0. /\ serial!TypeOK /\ RingOK /\ serial!SleepsOnlyOnEmpty /\ serial!WritesText /\ FirstRound
      /\ input \in [serial!Positions -> Chars] /\ input_rp \in serial!Positions
      /\ input_wp \in serial!Positions /\ readers \subseteq Tasks /\ handling \in BOOLEAN
      /\ max_len \in [Tasks -> 0 .. RingSize] /\ taken \in Seq(Chars)
  BY DEF ConsoleInv, serial!TypeOK, RingOK
<1>1. CASE serial!serial_interrupt \/ serial!serial_handled
  <2>1. UNCHANGED <<writing, remaining, output, input, input_rp, input_wp, max_len, taken>>
    BY <1>1 DEF serial!serial_interrupt, serial!serial_handled, serial!ringVars, serial!writeVars
  <2>2. handling' \in BOOLEAN /\ readers' \subseteq Tasks /\ (handling' \/ readers' = {})
    BY <1>0, <1>1 DEF serial!serial_interrupt, serial!serial_handled, serial!Woken
  <2>3. serial!SleepsOnlyOnEmpty'
    BY <2>2 DEF serial!SleepsOnlyOnEmpty
  <2>. QED BY <1>0, <2>1, <2>2, <2>3, TextsKept DEF ConsoleInv, serial!TypeOK
<1>2. CASE serial!receive_char
  <2>1. /\ UNCHANGED <<writing, remaining, output, handling, readers, max_len, taken>> /\ handling
        /\ UNCHANGED <<input, input_rp, input_wp>> \/ \E ch \in Chars : Stores(ch)
    BY <1>2 DEF serial!receive_char, serial!ringVars, serial!writeVars, Stores
  <2>2. /\ input' \in [serial!Positions -> Chars]
        /\ input_rp' \in serial!Positions /\ input_wp' \in serial!Positions
    BY <1>0, <2>1, StoresPositions
  <2>3. serial!SleepsOnlyOnEmpty'
    BY <2>1 DEF serial!SleepsOnlyOnEmpty
  <2>. QED BY <1>0, <2>1, <2>2, <2>3, TextsKept DEF ConsoleInv, serial!TypeOK
<1>3. ASSUME NEW t \in Tasks, serial!sys_serial_read(t) PROVE ConsoleInv'
  <2>1. UNCHANGED <<writing, remaining, output, handling, readers, input, input_rp, input_wp, taken>>
    BY <1>3 DEF serial!sys_serial_read, serial!ringVars, serial!writeVars
  <2>2. PICK n \in MaxLens : max_len' = [max_len EXCEPT ![t] = n]
    BY <1>3 DEF serial!sys_serial_read
  <2>3. n \in 0 .. RingSize
    BY Ring, HardwareAssumption DEF HardwareAssumption, serial!RingAssumption
  <2>4. max_len' \in [Tasks -> 0 .. RingSize]
    BY <1>0, <2>2, <2>3
  <2>5. serial!SleepsOnlyOnEmpty'
    BY <1>0, <2>1 DEF serial!SleepsOnlyOnEmpty, serial!Filled
  <2>. QED BY <1>0, <2>1, <2>4, <2>5, TextsKept DEF ConsoleInv, serial!TypeOK
<1>4. ASSUME NEW t \in Tasks, serial!serial_read(t) PROVE ConsoleInv'
  <2>0. UNCHANGED <<writing, remaining, output, handling, input, input_wp>> /\ ~handling
    BY <1>4 DEF serial!serial_read, serial!writeVars
  <2>1. PICK len \in Nat :
          /\ len =< serial!Filled
          /\ \/ /\ len > 0 /\ readers' = readers
                /\ taken' = [i \in 1 .. len |-> input[(input_rp + i - 1) % RingSize]]
                /\ input_rp' = (input_rp + len) % RingSize
                /\ max_len' = [max_len EXCEPT ![t] = 0]
             \/ /\ serial!Filled = 0 /\ readers' = readers \cup {t}
                /\ UNCHANGED <<input_rp, max_len, taken>>
    <3>1. max_len[t] \in Nat /\ max_len[t] > 0 /\ serial!Filled \in Nat
      BY <1>0, <1>4, FilledIs DEF serial!serial_read
    <3>. QED BY <1>4, <3>1 DEF serial!serial_read
  <2>2. CASE serial!Filled = 0 /\ readers' = readers \cup {t} /\ UNCHANGED <<input_rp, max_len, taken>>
    <3>1. serial!SleepsOnlyOnEmpty'
      BY <2>0, <2>2 DEF serial!SleepsOnlyOnEmpty, serial!Filled
    <3>. QED BY <1>0, <2>0, <2>2, <3>1, TextsKept DEF ConsoleInv, serial!TypeOK
  <2>3. CASE /\ len > 0 /\ readers' = readers
             /\ taken' = [i \in 1 .. len |-> input[(input_rp + i - 1) % RingSize]]
             /\ input_rp' = (input_rp + len) % RingSize
             /\ max_len' = [max_len EXCEPT ![t] = 0]
    <3>1. input_rp' \in serial!Positions
      BY <1>0, <2>0, <2>1, <2>3, ReadPositions
    <3>2. max_len' \in [Tasks -> 0 .. RingSize]
      BY <1>0, <2>3, Ring
    <3>3. ASSUME NEW i \in 1 .. len PROVE input[(input_rp + i - 1) % RingSize] \in Chars
      <4>1. PICK k \in Nat : k = i - 1 /\ k =< RingSize
        BY <1>0, <2>1, FilledIs, Ring
      <4>2. (input_rp + k) % RingSize = After(input_rp, k)
        BY <1>0, <4>1, AfterIs, Ring
      <4>3. After(input_rp, k) \in serial!Positions
        BY <1>0, <4>1, Ring DEF After
      <4>4. input_rp + i - 1 = input_rp + k
        BY <1>0, <4>1, Ring
      <4>5. input[(input_rp + k) % RingSize] \in Chars
        BY <1>0, <4>2, <4>3
      <4>. QED BY <4>4, <4>5
    <3>4. taken' \in Seq(Chars)
      BY <2>3, <3>3
    <3>5. readers = {}
      BY <1>0, <2>0, <2>1, <2>3, FilledIs DEF serial!SleepsOnlyOnEmpty
    <3>6. serial!SleepsOnlyOnEmpty'
      BY <2>3, <3>5 DEF serial!SleepsOnlyOnEmpty
    <3>. QED BY <1>0, <2>0, <2>3, <3>1, <3>2, <3>4, <3>6, TextsKept DEF ConsoleInv, serial!TypeOK
  <2>. QED BY <2>1, <2>2, <2>3
<1>5. ASSUME NEW t \in Tasks,
             serial!write_chunk(t) \/ \E text \in Texts : serial!sys_serial_write(t, text)
      PROVE  ConsoleInv'
  <2>1. UNCHANGED <<input, input_rp, input_wp, handling, readers, max_len, taken>>
    BY <1>5 DEF serial!write_chunk, serial!sys_serial_write, serial!ringVars
  <2>2. serial!SleepsOnlyOnEmpty'
    BY <1>0, <2>1 DEF serial!SleepsOnlyOnEmpty, serial!Filled
  <2>. QED BY <1>0, <1>5, <2>1, <2>2, WritesKept DEF ConsoleInv, serial!TypeOK
<1>. QED BY <1>1, <1>2, <1>3, <1>4, <1>5 DEF serial!Next

\* Every step of the console keeps the ring's types.
LEMMA NextRing ==
    ASSUME RingOK, serial!Next
    PROVE  RingOK'
<1>0. /\ input \in [serial!Positions -> Chars] /\ input_rp \in serial!Positions
      /\ input_wp \in serial!Positions /\ max_len \in [Tasks -> 0 .. RingSize]
  BY DEF RingOK
<1>1. CASE UNCHANGED <<input, input_rp, input_wp, max_len>>
  BY <1>1 DEF RingOK
<1>2. CASE serial!receive_char
  <2>1. max_len' = max_len /\ (UNCHANGED <<input, input_rp, input_wp>> \/ \E ch \in Chars : Stores(ch))
    BY <1>2 DEF serial!receive_char, serial!ringVars, Stores
  <2>. QED BY <2>1, StoresPositions DEF RingOK
<1>3. ASSUME NEW t \in Tasks, serial!sys_serial_read(t) PROVE RingOK'
  <2>1. UNCHANGED <<input, input_rp, input_wp>>
    BY <1>3 DEF serial!sys_serial_read, serial!ringVars
  <2>2. PICK n \in MaxLens : max_len' = [max_len EXCEPT ![t] = n]
    BY <1>3 DEF serial!sys_serial_read
  <2>3. n \in 0 .. RingSize
    BY Ring, HardwareAssumption DEF HardwareAssumption, serial!RingAssumption
  <2>. QED BY <2>1, <2>2, <2>3 DEF RingOK
<1>4. ASSUME NEW t \in Tasks, serial!serial_read(t) PROVE RingOK'
  <2>1. UNCHANGED <<input, input_wp>>
    BY <1>4 DEF serial!serial_read
  <2>2. PICK len \in Nat :
          /\ len =< serial!Filled
          /\ \/ /\ input_rp' = (input_rp + len) % RingSize
                /\ max_len' = [max_len EXCEPT ![t] = 0]
             \/ UNCHANGED <<input_rp, max_len>>
    <3>1. max_len[t] \in Nat /\ serial!Filled \in Nat
      BY <1>0, FilledIs
    <3>. QED BY <1>4, <3>1 DEF serial!serial_read
  <2>3. input_rp' \in serial!Positions
    BY <1>0, <2>1, <2>2, ReadPositions
  <2>4. max_len' \in [Tasks -> 0 .. RingSize]
    BY <1>0, <2>2, Ring
  <2>. QED BY <1>0, <2>1, <2>3, <2>4 DEF RingOK
<1>. QED
  BY <1>1, <1>2, <1>3, <1>4
  DEF serial!Next, serial!serial_interrupt, serial!serial_handled, serial!write_chunk,
      serial!sys_serial_write, serial!ringVars

\* n characters of the ring from a position on.
Held(in, rp, n) == [i \in 1 .. n |-> in[After(rp, i - 1)]]

\* The queue that the ring stands for, in a state and in the next.
LEMMA QueueIs ==
    /\ RingOK  => serial!queue = Held(input, input_rp, serial!Filled)
    /\ RingOK' => serial!queue' = Held(input', input_rp', serial!Filled')
<1>1. ASSUME NEW in, NEW rp \in serial!Positions, NEW n \in Nat, n < RingSize
      PROVE  [i \in 1 .. n |-> in[(rp + i - 1) % RingSize]] = Held(in, rp, n)
  <2>1. ASSUME NEW i \in 1 .. n PROVE (rp + i - 1) % RingSize = After(rp, i - 1)
    <3>1. PICK k \in Nat : k = i - 1 /\ k =< RingSize
      BY <1>1, Ring
    <3>2. rp + i - 1 = rp + k
      BY <3>1, Ring
    <3>. QED BY <3>1, <3>2, AfterIs
  <2>. QED BY <2>1 DEF Held
<1>2. RingOK => serial!Filled \in Nat /\ serial!Filled < RingSize
  BY FilledIs DEF RingOK
<1>3. RingOK' => serial!Filled' \in Nat /\ serial!Filled' < RingSize
  <2>1. RingOK' => /\ input_rp' \in serial!Positions /\ input_wp' \in serial!Positions
    BY DEF RingOK
  <2>. QED BY <2>1, Distance DEF serial!Filled
<1>4. RingOK => input_rp \in serial!Positions
  BY DEF RingOK
<1>5. RingOK' => input_rp' \in serial!Positions
  BY DEF RingOK
<1>. QED BY <1>1, <1>2, <1>3, <1>4, <1>5 DEF serial!queue

\* Storing a character appends it to the queue, and drops the oldest of a full one.
LEMMA StoresTypes ==
    ASSUME RingOK, RingOK', NEW ch \in Chars, Stores(ch), taken' = taken
    PROVE  serial!Abstract!Type(ch)
<1>. DEFINE F == serial!Filled
            q == serial!queue
            a == Append(q, ch)
<1>0. PICK f \in Nat : f = F /\ f < RingSize /\ input_wp = After(input_rp, f)
  BY FilledIs DEF RingOK
<1>1. q = Held(input, input_rp, f)
  BY <1>0, QueueIs
<1>2. PICK rp \in Nat, wp \in Nat : rp = input_rp /\ wp = input_wp /\ rp < RingSize /\ wp < RingSize
  BY Ring DEF RingOK
<1>3. \A k \in Nat : k < RingSize => After(rp, k) \in serial!Positions
  BY <1>2, Ring DEF After
<1>4. q \in Seq(Chars) /\ Len(q) = f /\ \A i \in 1 .. f : q[i] = input[After(rp, i - 1)]
  <2>1. ASSUME NEW i \in 1 .. f PROVE input[After(rp, i - 1)] \in Chars
    <3>1. PICK k \in Nat : k = i - 1 /\ k < RingSize
      BY <1>0, Ring
    <3>. QED BY <1>3, <3>1 DEF RingOK
  <2>. QED BY <1>0, <1>1, <1>2, <2>1 DEF Held
<1>. HIDE DEF q, F
<1>5. /\ a \in Seq(Chars) /\ Len(a) = f + 1 /\ a[f + 1] = ch
      /\ \A i \in 1 .. f : a[i] = q[i]
  BY <1>4
<1>6. \A i \in 1 .. f + 1 : input'[After(rp, i - 1)] = a[i]
  <2>. SUFFICES ASSUME NEW i \in 1 .. f + 1 PROVE input'[After(rp, i - 1)] = a[i]
    OBVIOUS
  <2>1. CASE i = f + 1
    <3>1. After(rp, i - 1) = input_wp
      BY <1>0, <1>2, <2>1
    <3>. QED BY <1>5, <2>1, <3>1 DEF Stores, RingOK
  <2>2. CASE i \in 1 .. f
    <3>1. After(rp, i - 1) # input_wp
      BY <1>0, <1>2, <2>2, Ring DEF After
    <3>2. After(rp, i - 1) \in serial!Positions
      <4>1. PICK k \in Nat : k = i - 1 /\ k < RingSize
        BY <1>0, <2>2, Ring
      <4>. QED BY <1>3, <4>1
    <3>. QED BY <1>4, <1>5, <2>2, <3>1, <3>2 DEF Stores, RingOK
  <2>3. i = f + 1 \/ i \in 1 .. f
    BY <1>0
  <2>. QED BY <2>1, <2>2, <2>3
<1>. HIDE DEF a
<1>7. serial!queue' = Held(input', input_rp', serial!Filled')
  BY QueueIs
<1>8. CASE /\ f + 1 < RingSize /\ input_rp' = input_rp /\ serial!Filled' = f + 1
  <2>1. serial!queue' = [i \in 1 .. f + 1 |-> input'[After(rp, i - 1)]]
    BY <1>2, <1>7, <1>8 DEF Held
  <2>2. serial!queue' = a
    BY <1>5, <1>6, <2>1
  <2>3. ~(Len(a) > RingSize - 1)
    BY <1>5, <1>8, Ring
  <2>. QED BY <2>2, <2>3 DEF serial!Abstract!Type, a, q
<1>9. CASE /\ f + 1 = RingSize /\ input_rp' = After(input_rp, 1) /\ serial!Filled' = f
  <2>1. serial!queue' = [i \in 1 .. f |-> input'[After(After(rp, 1), i - 1)]]
    BY <1>2, <1>7, <1>9 DEF Held
  <2>2. \A i \in 1 .. f : After(After(rp, 1), i - 1) = After(rp, (i + 1) - 1)
    BY <1>0, <1>2, <1>9, Ring DEF After
  <2>3. \A i \in 1 .. f : input'[After(After(rp, 1), i - 1)] = a[i + 1]
    <3>1. \A i \in 1 .. f : i + 1 \in 1 .. f + 1
      BY <1>0
    <3>. QED BY <1>6, <2>2, <3>1
  <2>4. Tail(a) = [i \in 1 .. f |-> a[i + 1]]
    <3>1. a # <<>> /\ Len(a) - 1 = f
      BY <1>0, <1>5
    <3>2. Tail(a) \in Seq(Chars) /\ Len(Tail(a)) = f
      BY <1>5, <3>1
    <3>3. ASSUME NEW i \in 1 .. f PROVE Tail(a)[i] = a[i + 1]
      BY <1>0, <1>5, <3>1
    <3>4. Tail(a) = [i \in 1 .. f |-> Tail(a)[i]]
      <4>. DEFINE tl == Tail(a)
      <4>1. tl \in Seq(Chars) /\ Len(tl) = f
        BY <3>2
      <4>. HIDE DEF tl
      <4>2. tl = [i \in 1 .. f |-> tl[i]]
        BY <4>1
      <4>. QED BY <4>2 DEF tl
    <3>. QED BY <3>3, <3>4
  <2>5. serial!queue' = Tail(a)
    BY <2>1, <2>3, <2>4
  <2>6. Len(a) > RingSize - 1
    BY <1>0, <1>5, <1>9, Ring
  <2>. QED BY <2>5, <2>6 DEF serial!Abstract!Type, a, q
<1>10. (f + 1 < RingSize /\ input_rp' = input_rp /\ serial!Filled' = f + 1)
       \/ (f + 1 = RingSize /\ input_rp' = After(input_rp, 1) /\ serial!Filled' = f)
  BY <1>0, StoresPositions DEF F
<1>. QED BY <1>8, <1>9, <1>10

\* A reader takes the oldest characters of the queue, in order.
LEMMA ReadsTake ==
    ASSUME RingOK, RingOK', NEW len \in Nat, len > 0, len =< serial!Filled,
           input_rp' = (input_rp + len) % RingSize, UNCHANGED <<input, input_wp>>,
           taken' = [i \in 1 .. len |-> input[(input_rp + i - 1) % RingSize]]
    PROVE  serial!Abstract!Read(len) /\ len \in 1 .. RingSize - 1
<1>. DEFINE q == serial!queue
<1>0. PICK f \in Nat : f = serial!Filled /\ f < RingSize /\ len =< f
  BY FilledIs DEF RingOK
<1>1. q = Held(input, input_rp, f)
  BY <1>0, QueueIs
<1>2. PICK rp \in Nat : rp = input_rp /\ rp < RingSize
  BY Ring DEF RingOK
<1>3. \A k \in Nat : k < RingSize => After(rp, k) \in serial!Positions
  BY <1>2, Ring DEF After
<1>4. q \in Seq(Chars) /\ Len(q) = f /\ \A i \in 1 .. f : q[i] = input[After(rp, i - 1)]
  <2>1. ASSUME NEW i \in 1 .. f PROVE input[After(rp, i - 1)] \in Chars
    <3>1. PICK k \in Nat : k = i - 1 /\ k < RingSize
      BY <1>0, Ring
    <3>. QED BY <1>3, <3>1 DEF RingOK
  <2>. QED BY <1>0, <1>1, <1>2, <2>1 DEF Held
<1>5. q = [i \in 1 .. f |-> input[(input_rp + i - 1) % RingSize]]
  BY <1>0 DEF serial!queue
<1>6. taken' = [i \in 1 .. len |-> q[i]]
  <2>1. \A i \in 1 .. len : i \in 1 .. f
    BY <1>0
  <2>. QED BY <1>5, <2>1
<1>. HIDE DEF q
<1>7. taken' = SubSeq(q, 1, len)
  BY <1>0, <1>4, <1>6
<1>8. serial!Filled' = f - len /\ input_rp' = After(input_rp, len)
  BY <1>0, ReadPositions
<1>9. serial!queue' = [i \in 1 .. f - len |-> input[After(After(rp, len), i - 1)]]
  BY <1>2, <1>8, QueueIs DEF Held
<1>10. \A i \in 1 .. f - len : After(After(rp, len), i - 1) = After(rp, (i + len) - 1)
  BY <1>0, <1>2, Ring DEF After
<1>11. \A i \in 1 .. f - len : input[After(After(rp, len), i - 1)] = q[i + len]
  <2>1. \A i \in 1 .. f - len : i + len \in 1 .. f
    BY <1>0
  <2>. QED BY <1>4, <1>10, <2>1
<1>12. SubSeq(q, len + 1, f) = [i \in 1 .. f - len |-> q[i + len]]
  <2>1. SubSeq(q, len + 1, f) = [i \in 1 .. f - len |-> q[len + i]]
    BY <1>0, <1>4
  <2>2. \A i \in 1 .. f - len : len + i = i + len
    BY <1>0
  <2>. QED BY <2>1, <2>2
<1>13. serial!queue' = SubSeq(q, len + 1, Len(q))
  BY <1>4, <1>9, <1>11, <1>12
<1>14. len \in 1 .. Len(q) /\ len \in 1 .. RingSize - 1
  BY <1>0, <1>4, Ring
<1>. QED BY <1>7, <1>13, <1>14 DEF serial!Abstract!Read, q

\* The empty ring is the empty queue.
LEMMA InitRing == serial!Init => RingOK /\ serial!Abstract!Init
<1>. SUFFICES ASSUME serial!Init PROVE RingOK /\ serial!Abstract!Init
  OBVIOUS
<1>1. 0 \in serial!Positions /\ 0 \in 0 .. RingSize
  BY Ring
<1>2. RingOK
  <2>1. PICK c \in Chars : input = [p \in serial!Positions |-> c]
    BY DEF serial!Init
  <2>. QED BY <1>1, <2>1 DEF serial!Init, RingOK
<1>3. serial!Filled = 0
  BY <1>1, FilledIs DEF serial!Init
<1>4. serial!queue = <<>>
  BY <1>3 DEF serial!queue
<1>. QED BY <1>2, <1>4 DEF serial!Abstract!Init, serial!Init

\* Every step of the console is a step of the queue, or changes neither it nor what was read.
LEMMA NextQueue ==
    ASSUME RingOK, serial!Next
    PROVE  serial!Abstract!Next \/ UNCHANGED <<serial!queue, taken>>
<1>0. RingOK'
  BY NextRing
<1>1. CASE UNCHANGED <<input, input_rp, input_wp, taken>>
  BY <1>1 DEF serial!queue, serial!Filled
<1>2. CASE serial!receive_char
  <2>1. taken' = taken /\ (UNCHANGED <<input, input_rp, input_wp>> \/ \E ch \in Chars : Stores(ch))
    BY <1>2 DEF serial!receive_char, serial!ringVars, Stores
  <2>. QED BY <1>0, <1>1, <2>1, StoresTypes DEF serial!Abstract!Next
<1>3. ASSUME NEW t \in Tasks, serial!serial_read(t)
      PROVE  serial!Abstract!Next \/ UNCHANGED <<serial!queue, taken>>
  <2>1. UNCHANGED <<input, input_wp>>
    BY <1>3 DEF serial!serial_read
  <2>2. PICK len \in Nat :
          \/ /\ len =< serial!Filled /\ len > 0
             /\ input_rp' = (input_rp + len) % RingSize
             /\ taken' = [i \in 1 .. len |-> input[(input_rp + i - 1) % RingSize]]
          \/ UNCHANGED <<input_rp, taken>>
    <3>1. max_len[t] \in Nat /\ serial!Filled \in Nat
      BY FilledIs DEF RingOK
    <3>. QED BY <1>3, <3>1 DEF serial!serial_read
  <2>. QED BY <1>0, <1>1, <2>1, <2>2, ReadsTake DEF serial!Abstract!Next
<1>. QED
  BY <1>1, <1>2, <1>3
  DEF serial!Next, serial!serial_interrupt, serial!serial_handled, serial!sys_serial_read,
      serial!write_chunk, serial!sys_serial_write, serial!ringVars

\* printk.c: read and written in any order, wrapped around and overrun, the ring with its two
\* positions is a queue that drops its oldest character; for a ring of any size.
THEOREM RingIsQueue == Spec => ImplementsDropOldest
<1>1. Init => RingOK /\ serial!Abstract!Init
  BY InitRing DEF Init
<1>2. RingOK /\ [Next]_vars => RingOK' /\ [serial!Abstract!Next]_<<serial!queue, taken>>
  <2>. SUFFICES ASSUME RingOK, [Next]_vars
                PROVE  RingOK' /\ [serial!Abstract!Next]_<<serial!queue, taken>>
    OBVIOUS
  <2>1. CASE SerialStep
    BY <2>1, NextRing, NextQueue DEF SerialStep
  <2>2. CASE UNCHANGED SerialVars
    BY <2>2 DEF SerialVars, RingOK, serial!queue, serial!Filled
  <2>. QED BY <2>1, <2>2 DEF Next, ClockStep, IpiStep, NetStep, BlkStep, vars
<1>. QED BY <1>1, <1>2, PTL DEF Spec, ImplementsDropOldest, serial!ImplementsDropOldest, serial!Abstract!Spec

\* And the console keeps its invariant while the other components run.
LEMMA ConsoleKept ==
    ASSUME TextsFit, ConsoleInv, [Next]_vars
    PROVE  ConsoleInv'
<1>1. CASE SerialStep
  BY <1>1, NextConsole DEF SerialStep
<1>2. CASE UNCHANGED SerialVars
  BY <1>2 DEF SerialVars, ConsoleInv, FirstRound, serial!TypeOK, serial!SleepsOnlyOnEmpty,
              serial!WritesText, serial!Filled
<1>. QED BY <1>1, <1>2 DEF Next, ClockStep, IpiStep, NetStep, BlkStep, vars

-----------------------------------------------------------------------------
(* The clock.                                                              *)

\* The invariants of the two instances.
ClocksInv ==
    /\ sys = "clock" => machine!ClockInv
    /\ sys = "clock_alone" => machines!ClockInv

\* MCHardware's instance of Clock with IPIs is that of the proofs.
LEMMA SameClock ==
    /\ clock!ClockAssumption => machine!ClockAssumption
    /\ clock!Init => machine!Init
    /\ clock!Next => machine!Next
    /\ machine!ClockInv => clock!TypeOK /\ clock!UptimeBound /\ clock!NotTooEarly
<1>1. clock!ClockAssumption => machine!ClockAssumption
  BY DEF clock!ClockAssumption, machine!ClockAssumption, clock!IsFiniteSet, machine!IsFiniteSet
<1>2. clock!Init => machine!Init
  BY DEF clock!Init, machine!Init
<1>3. clock!Next => machine!Next
  BY DEF
      clock!Next, machine!Next, clock!Advance, machine!Advance, clock!Due,
      machine!Due, clock!UpTo, machine!UpTo, clock!MaxTicks, machine!MaxTicks,
      clock!TimeoutTicks, machine!TimeoutTicks, clock!riscv32_timer_handler,
      machine!riscv32_timer_handler, clock!NextTimer, machine!NextTimer,
      clock!arch_send_ipi, machine!arch_send_ipi, clock!soft_interrupt,
      machine!soft_interrupt, clock!Ticks, machine!Ticks, clock!Restarted,
      machine!Restarted, clock!Remaining, machine!Remaining, clock!sys_time,
      machine!sys_time, clock!MaxUptime, machine!MaxUptime,
      clock!Max, machine!Max, clock!Min, machine!Min, clock!Cardinality, machine!Cardinality,
      clock!IsFiniteSet, machine!IsFiniteSet
<1>4. machine!ClockInv => clock!TypeOK /\ clock!UptimeBound /\ clock!NotTooEarly
  BY DEF
      machine!ClockInv, clock!TypeOK, machine!TypeOK, clock!UptimeBound,
      machine!UptimeBound, clock!Unaccounted, machine!Unaccounted, clock!NotTooEarly,
      machine!NotTooEarly, clock!MaxTicks, machine!MaxTicks, clock!TimeoutTicks,
      machine!TimeoutTicks, clock!MaxUptime, machine!MaxUptime,
      clock!Max, machine!Max, clock!Min, machine!Min, clock!Cardinality, machine!Cardinality,
      clock!IsFiniteSet, machine!IsFiniteSet
<1>. QED BY <1>1, <1>2, <1>3, <1>4

\* And so is the instance without.
LEMMA SameClockAlone ==
    /\ clockAlone!ClockAssumption => machines!ClockAssumption
    /\ clock!Init => machines!Init
    /\ clockAlone!Next => machines!Next
    /\ machines!ClockInv => clockAlone!TypeOK
<1>1. clockAlone!ClockAssumption => machines!ClockAssumption
  BY DEF clockAlone!ClockAssumption, machines!ClockAssumption, clockAlone!IsFiniteSet, machines!IsFiniteSet
<1>2. clock!Init => machines!Init
  BY DEF clock!Init, machines!Init
<1>3. clockAlone!Next => machines!Next
  BY DEF
      clockAlone!Next, machines!Next, clockAlone!Advance, machines!Advance,
      clockAlone!Due, machines!Due, clockAlone!UpTo, machines!UpTo,
      clockAlone!MaxTicks, machines!MaxTicks, clockAlone!TimeoutTicks,
      machines!TimeoutTicks, clockAlone!riscv32_timer_handler,
      machines!riscv32_timer_handler, clockAlone!NextTimer, machines!NextTimer,
      clockAlone!arch_send_ipi, machines!arch_send_ipi, clockAlone!soft_interrupt,
      machines!soft_interrupt, clockAlone!Ticks, machines!Ticks,
      clockAlone!Restarted, machines!Restarted, clockAlone!Remaining,
      machines!Remaining, clockAlone!sys_time, machines!sys_time,
      clockAlone!MaxUptime, machines!MaxUptime,
      clockAlone!Max, machines!Max, clockAlone!Min, machines!Min, clockAlone!Cardinality, machines!Cardinality,
      clockAlone!IsFiniteSet, machines!IsFiniteSet
<1>4. machines!ClockInv => clockAlone!TypeOK
  BY DEF
      machines!ClockInv, clockAlone!TypeOK, machines!TypeOK,
      clockAlone!MaxTicks, machines!MaxTicks, clockAlone!TimeoutTicks,
      machines!TimeoutTicks, clockAlone!MaxUptime, machines!MaxUptime,
      clockAlone!Max, machines!Max, clockAlone!Min, machines!Min, clockAlone!Cardinality, machines!Cardinality,
      clockAlone!IsFiniteSet, machines!IsFiniteSet
<1>. QED BY <1>1, <1>2, <1>3, <1>4

\* Every step keeps the clock's invariants.
LEMMA NextClocks == ClocksInv /\ [Next]_vars => ClocksInv'
<1>. SUFFICES ASSUME ClocksInv, [Next]_vars PROVE ClocksInv'
  OBVIOUS
<1>0. machine!ClockAssumption /\ machines!ClockAssumption
  BY HardwareAssumption, SameClock, SameClockAlone DEF HardwareAssumption
<1>1. CASE ClockStep
  <2>1. sys' = sys /\ (sys = "clock" => clock!Next) /\ (sys = "clock_alone" => clockAlone!Next)
    BY <1>1 DEF ClockStep
  <2>. QED
    BY <1>0, <2>1, SameClock, SameClockAlone, machine!NextClock, machines!NextClock
    DEF ClocksInv
<1>2. CASE UNCHANGED <<sys, ClockVars>>
  <2>1. sys' = sys /\ UNCHANGED machine!vars /\ UNCHANGED machines!vars
    BY <1>2 DEF ClockVars, machine!vars, machines!vars
  <2>. QED BY <1>0, <2>1, machine!NextClock, machines!NextClock DEF ClocksInv
<1>. QED BY <1>1, <1>2 DEF Next, SerialStep, IpiStep, NetStep, BlkStep, vars

\* printk.c, syscall.c and interrupt.c: no reader sleeps on a buffer with characters in it,
\* except while the handler that will wake it runs; a write that fits the kernel's buffer gets
\* to the UART whole; the uptime is at most the time that has passed, on each CPU, and a
\* timeout runs down no faster than the clock of CPU 0; for any number of CPUs, any ring
\* and any timeouts.
THEOREM ConsoleAndClockAreSound ==
    ASSUME TextsFit
    PROVE  Spec => []ConsoleAndClock
<1>1. Init => ConsoleInv /\ ClocksInv
  BY InitConsole, HardwareAssumption, SameClock, SameClockAlone, machine!InitClock,
     machines!InitClock
  DEF HardwareAssumption, Init, ClocksInv
<1>2. ConsoleInv /\ ClocksInv /\ [Next]_vars => ConsoleInv' /\ ClocksInv'
  BY ConsoleKept, NextClocks
<1>3. ConsoleInv /\ ClocksInv => ConsoleAndClock
  BY SameClock, SameClockAlone DEF ConsoleInv, ClocksInv, ConsoleAndClock
<1>. QED BY <1>1, <1>2, <1>3, PTL DEF Spec
-----------------------------------------------------------------------------
(* The driver of the network card.                                         *)

\* The proofs about VirtioNet.
netProofs == INSTANCE VirtioNetProofs WITH
    NumDescs <- net_NumDescs, IndexMod <- net_IndexMod, pc <- net_pc

\* The operations of the two instances of Virtqueue are the same.
LEMMA SameNetQueue ==
    /\ net!VirtqAssumption => netProofs!VirtqAssumption
    /\ net!NewQueue = netProofs!NewQueue
    /\ \A q : /\ net!virtq_pop(q) = netProofs!virtq_pop(q)
              /\ net!DeviceTakes(q) = netProofs!DeviceTakes(q) /\ net!NextTaken(q) = netProofs!NextTaken(q)
              /\ (net!CanTake(q) <=> netProofs!CanTake(q)) /\ (net!virtq_is_empty(q) <=> netProofs!virtq_is_empty(q))
              /\ net!Heads(q) = netProofs!Heads(q) /\ (net!QueueSound(q) <=> netProofs!QueueSound(q))
    /\ \A q, d : net!DeviceUses(q, d) = netProofs!DeviceUses(q, d)
    /\ \A q, as : net!virtq_push(q, as) = netProofs!virtq_push(q, as)
<1>1. net!VirtqAssumption => netProofs!VirtqAssumption
  BY DEF net!VirtqAssumption, netProofs!VirtqAssumption
<1>2. net!NewQueue = netProofs!NewQueue
  BY DEF net!NewQueue, netProofs!NewQueue, net!Descs, netProofs!Descs
<1>3. \A q, d, n : net!Along(q, d, n) = netProofs!Along(q, d, n)
  BY DEF net!Along, netProofs!Along
<1>4. \A q, d : net!Chain(q, d) = netProofs!Chain(q, d)
  BY DEF net!Chain, netProofs!Chain, net!Along, netProofs!Along
<1>5. \A q : net!virtq_pop(q) = netProofs!virtq_pop(q)
  BY <1>4 DEF net!virtq_pop, netProofs!virtq_pop, net!Returned, netProofs!Returned
<1>6. \A q : net!Reclaimed(q) = netProofs!Reclaimed(q)
  BY DEF net!Reclaimed, netProofs!Reclaimed, net!Chain, netProofs!Chain, net!Along, netProofs!Along
<1>7. \A q, as : net!Taken(q, as) = netProofs!Taken(q, as)
  BY DEF net!Taken, netProofs!Taken, net!Along, netProofs!Along, net!Descs, netProofs!Descs
<1>8. \A q, as : net!virtq_push(q, as) = netProofs!virtq_push(q, as)
  <2>. TAKE q, as
  <2>1. \A x, h : net!Published(x, h) = netProofs!Published(x, h)
    BY DEF net!Published, netProofs!Published
  <2>2. net!Reclaimed(q) = netProofs!Reclaimed(q)
    BY <1>6
  <2>3. \A x : net!Taken(x, as) = netProofs!Taken(x, as)
    BY <1>7
  <2>4. PICK r : r = IF Len(as) > q.num_free THEN net!Reclaimed(q) ELSE q
    OBVIOUS
  <2>5. net!virtq_push(q, as) =
            IF Len(as) > r.num_free THEN [vq |-> r, ok |-> FALSE, head |-> 0]
            ELSE [vq |-> net!Published(net!Taken(r, as), r.free_head), ok |-> TRUE, head |-> r.free_head]
    BY <2>4, Zenon DEF net!virtq_push
  <2>6. netProofs!virtq_push(q, as) =
            IF Len(as) > r.num_free THEN [vq |-> r, ok |-> FALSE, head |-> 0]
            ELSE [vq |-> netProofs!Published(netProofs!Taken(r, as), r.free_head), ok |-> TRUE, head |-> r.free_head]
    BY <2>2, <2>4, Zenon DEF netProofs!virtq_push
  <2>7. net!Published(net!Taken(r, as), r.free_head) = netProofs!Published(netProofs!Taken(r, as), r.free_head)
    BY <2>1, <2>3
  <2>. QED BY <2>5, <2>6, <2>7, Zenon
<1>9. \A q : /\ net!DeviceTakes(q) = netProofs!DeviceTakes(q) /\ net!NextTaken(q) = netProofs!NextTaken(q)
             /\ (net!CanTake(q) <=> netProofs!CanTake(q)) /\ (net!virtq_is_empty(q) <=> netProofs!virtq_is_empty(q))
  BY DEF net!DeviceTakes, netProofs!DeviceTakes, net!NextTaken, netProofs!NextTaken, net!CanTake,
         netProofs!CanTake, net!virtq_is_empty, netProofs!virtq_is_empty
<1>10. \A q, d : net!DeviceUses(q, d) = netProofs!DeviceUses(q, d)
  BY DEF net!DeviceUses, netProofs!DeviceUses
<1>11. \A q : net!Heads(q) = netProofs!Heads(q)
  BY DEF net!Heads, netProofs!Heads, net!Fresh, netProofs!Fresh
<1>12. \A q : net!QueueSound(q) <=> netProofs!QueueSound(q)
  <2>1. \A q : net!FreeDescs(q) = netProofs!FreeDescs(q)
    BY <1>3 DEF net!FreeDescs, netProofs!FreeDescs
  <2>2. \A x : net!Elems(x) = netProofs!Elems(x)
    BY DEF net!Elems, netProofs!Elems
  <2>3. \A q : {net!Elems(net!Chain(q, h)) : h \in net!Heads(q)} = {netProofs!Elems(netProofs!Chain(q, h)) : h \in netProofs!Heads(q)}
    BY <1>4, <1>11, <2>2
  <2>4. net!Descs = netProofs!Descs
    BY DEF net!Descs, netProofs!Descs
  <2>. TAKE q
  <2>. DEFINE Sound(n, fs, cs, ds) ==
                  /\ q.num_free \in 0 .. net_NumDescs /\ n = q.num_free
                  /\ fs \cup UNION cs = ds /\ fs \cap UNION cs = {}
                  /\ \A c, d \in cs : c # d => c \cap d = {}
  <2>5. net!QueueSound(q) <=> Sound(net!Cardinality(net!Elems(net!FreeDescs(q))), net!Elems(net!FreeDescs(q)),
                                    {net!Elems(net!Chain(q, h)) : h \in net!Heads(q)}, net!Descs)
    BY Zenon DEF net!QueueSound
  <2>6. netProofs!QueueSound(q) <=> Sound(netProofs!Cardinality(netProofs!Elems(netProofs!FreeDescs(q))),
                                          netProofs!Elems(netProofs!FreeDescs(q)),
                                          {netProofs!Elems(netProofs!Chain(q, h)) : h \in netProofs!Heads(q)},
                                          netProofs!Descs)
    BY Zenon DEF netProofs!QueueSound
  <2>7. net!Elems(net!FreeDescs(q)) = netProofs!Elems(netProofs!FreeDescs(q))
    BY <2>1, <2>2
  <2>8. \A S : net!Cardinality(S) = netProofs!Cardinality(S)
    BY DEF net!Cardinality, netProofs!Cardinality
  <2>. HIDE DEF Sound
  <2>. QED BY <2>3, <2>4, <2>5, <2>6, <2>7, <2>8
<1>. QED BY <1>1, <1>2, <1>5, <1>8, <1>9, <1>10, <1>11, <1>12

\* MCHardware's instance of VirtioNet is that of the proofs.
LEMMA SameNet ==
    /\ net!VirtqAssumption /\ net!NetAssumption => netProofs!VirtqAssumption /\ netProofs!NetAssumption
    /\ net!Init => netProofs!Init
    /\ net!Next => netProofs!Next
    /\ netProofs!TypeOK /\ netProofs!DescsSound /\ netProofs!BuffersSound /\ netProofs!SentOnce /\ netProofs!InOrder
       => net!TypeOK /\ net!DescsSound /\ net!BuffersSound /\ net!SentOnce /\ net!InOrder
<1>1. net!VirtqAssumption /\ net!NetAssumption => netProofs!VirtqAssumption /\ netProofs!NetAssumption
  BY SameNetQueue DEF net!NetAssumption, netProofs!NetAssumption
<1>2. net!FilledRx = netProofs!FilledRx
  BY SameNetQueue DEF net!FilledRx, netProofs!FilledRx
<1>3. net!Init => netProofs!Init
  BY <1>2, SameNetQueue DEF net!Init, netProofs!Init
<1>4. net!dmabuf_alloc = netProofs!dmabuf_alloc
  BY DEF net!dmabuf_alloc, netProofs!dmabuf_alloc, net!Min, netProofs!Min
<1>5. net!transmit => netProofs!transmit
  BY <1>4, SameNetQueue DEF net!transmit, netProofs!transmit, net!virtq_notify, netProofs!virtq_notify,
     net!drv, netProofs!drv
<1>6. net!Driver => netProofs!Driver
  BY SameNetQueue DEF net!Driver, netProofs!Driver, net!irq_handler, netProofs!irq_handler,
     net!irq_tx, netProofs!irq_tx, net!irq_rx, netProofs!irq_rx, net!irq_rx_push, netProofs!irq_rx_push,
     net!TxFreed, netProofs!TxFreed, net!RxEnd, netProofs!RxEnd, net!drv, netProofs!drv, net!hist, netProofs!hist
<1>7. (net!card_takes => netProofs!card_takes) /\ (net!card_sends => netProofs!card_sends)
  BY SameNetQueue DEF net!card_takes, netProofs!card_takes, net!card_sends, netProofs!card_sends,
     net!drv, netProofs!drv, net!hist, netProofs!hist
<1>8. (net!card_receives => netProofs!card_receives) /\ (net!interrupt => netProofs!interrupt)
      /\ (net!net_open => netProofs!net_open)
  BY SameNetQueue DEF net!card_receives, netProofs!card_receives, net!interrupt, netProofs!interrupt,
     net!net_open, netProofs!net_open, net!drv, netProofs!drv, net!hist, netProofs!hist
<1>9. net!Next => netProofs!Next
  BY <1>5, <1>6, <1>7, <1>8 DEF net!Next, netProofs!Next
<1>10. netProofs!TypeOK => net!TypeOK
  BY DEF net!TypeOK, netProofs!TypeOK
<1>11. netProofs!DescsSound => net!DescsSound
  BY SameNetQueue DEF net!DescsSound, netProofs!DescsSound
<1>12. netProofs!BuffersSound => net!BuffersSound
  <2>1. \A S : net!Cardinality(S) = netProofs!Cardinality(S)
    BY DEF net!Cardinality, netProofs!Cardinality
  <2>. QED BY <2>1, SameNetQueue DEF net!BuffersSound, netProofs!BuffersSound
<1>13. netProofs!SentOnce /\ netProofs!InOrder => net!SentOnce /\ net!InOrder
  BY DEF net!SentOnce, netProofs!SentOnce, net!InOrder, netProofs!InOrder, net!ToSet, netProofs!ToSet,
     net!IsInjective, netProofs!IsInjective
<1>. QED BY <1>1, <1>3, <1>9, <1>10, <1>11, <1>12, <1>13
-----------------------------------------------------------------------------
(* The driver of the disk.                                                 *)

\* The proofs about its queue.
blkq == INSTANCE VirtioNetProofs WITH
    NumDescs <- blk_NumDescs, IndexMod <- blk_IndexMod, pc <- net_pc

\* The operations of the two instances of Virtqueue are the same.
LEMMA SameBlkQueue ==
    /\ blk!VirtqAssumption => blkq!VirtqAssumption
    /\ blk!NewQueue = blkq!NewQueue /\ blk!Descs = blkq!Descs
    /\ \A q : /\ blk!virtq_pop(q) = blkq!virtq_pop(q)
              /\ blk!DeviceTakes(q) = blkq!DeviceTakes(q) /\ blk!NextTaken(q) = blkq!NextTaken(q)
              /\ (blk!CanTake(q) <=> blkq!CanTake(q)) /\ (blk!virtq_is_empty(q) <=> blkq!virtq_is_empty(q))
              /\ (blk!QueueSound(q) <=> blkq!QueueSound(q))
    /\ \A q, d : blk!DeviceUses(q, d) = blkq!DeviceUses(q, d)
    /\ \A q, as : blk!virtq_push(q, as) = blkq!virtq_push(q, as)
<1>1. blk!VirtqAssumption => blkq!VirtqAssumption
  BY DEF blk!VirtqAssumption, blkq!VirtqAssumption
<1>2. blk!NewQueue = blkq!NewQueue /\ blk!Descs = blkq!Descs
  BY DEF blk!NewQueue, blkq!NewQueue, blk!Descs, blkq!Descs
<1>3. \A q, d, n : blk!Along(q, d, n) = blkq!Along(q, d, n)
  BY DEF blk!Along, blkq!Along
<1>4. \A q, d : blk!Chain(q, d) = blkq!Chain(q, d)
  BY DEF blk!Chain, blkq!Chain, blk!Along, blkq!Along
<1>5. \A q : blk!virtq_pop(q) = blkq!virtq_pop(q)
  BY <1>4 DEF blk!virtq_pop, blkq!virtq_pop, blk!Returned, blkq!Returned
<1>6. \A q : blk!Reclaimed(q) = blkq!Reclaimed(q)
  BY DEF blk!Reclaimed, blkq!Reclaimed, blk!Chain, blkq!Chain, blk!Along, blkq!Along
<1>7. \A q, as : blk!Taken(q, as) = blkq!Taken(q, as)
  BY DEF blk!Taken, blkq!Taken, blk!Along, blkq!Along, blk!Descs, blkq!Descs
<1>8. \A q, as : blk!virtq_push(q, as) = blkq!virtq_push(q, as)
  <2>. TAKE q, as
  <2>1. \A x, h : blk!Published(x, h) = blkq!Published(x, h)
    BY DEF blk!Published, blkq!Published
  <2>2. blk!Reclaimed(q) = blkq!Reclaimed(q)
    BY <1>6
  <2>3. \A x : blk!Taken(x, as) = blkq!Taken(x, as)
    BY <1>7
  <2>4. PICK r : r = IF Len(as) > q.num_free THEN blk!Reclaimed(q) ELSE q
    OBVIOUS
  <2>5. blk!virtq_push(q, as) =
            IF Len(as) > r.num_free THEN [vq |-> r, ok |-> FALSE, head |-> 0]
            ELSE [vq |-> blk!Published(blk!Taken(r, as), r.free_head), ok |-> TRUE, head |-> r.free_head]
    BY <2>4, Zenon DEF blk!virtq_push
  <2>6. blkq!virtq_push(q, as) =
            IF Len(as) > r.num_free THEN [vq |-> r, ok |-> FALSE, head |-> 0]
            ELSE [vq |-> blkq!Published(blkq!Taken(r, as), r.free_head), ok |-> TRUE, head |-> r.free_head]
    BY <2>2, <2>4, Zenon DEF blkq!virtq_push
  <2>7. blk!Published(blk!Taken(r, as), r.free_head) = blkq!Published(blkq!Taken(r, as), r.free_head)
    BY <2>1, <2>3
  <2>. QED BY <2>5, <2>6, <2>7, Zenon
<1>9. \A q : /\ blk!DeviceTakes(q) = blkq!DeviceTakes(q) /\ blk!NextTaken(q) = blkq!NextTaken(q)
             /\ (blk!CanTake(q) <=> blkq!CanTake(q)) /\ (blk!virtq_is_empty(q) <=> blkq!virtq_is_empty(q))
  BY DEF blk!DeviceTakes, blkq!DeviceTakes, blk!NextTaken, blkq!NextTaken, blk!CanTake,
         blkq!CanTake, blk!virtq_is_empty, blkq!virtq_is_empty
<1>10. \A q, d : blk!DeviceUses(q, d) = blkq!DeviceUses(q, d)
  BY DEF blk!DeviceUses, blkq!DeviceUses
<1>11. \A q : blk!Heads(q) = blkq!Heads(q)
  BY DEF blk!Heads, blkq!Heads, blk!Fresh, blkq!Fresh
<1>12. \A q : blk!QueueSound(q) <=> blkq!QueueSound(q)
  <2>1. \A q : blk!FreeDescs(q) = blkq!FreeDescs(q)
    BY <1>3 DEF blk!FreeDescs, blkq!FreeDescs
  <2>2. \A x : blk!Elems(x) = blkq!Elems(x)
    BY DEF blk!Elems, blkq!Elems
  <2>3. \A q : {blk!Elems(blk!Chain(q, h)) : h \in blk!Heads(q)} = {blkq!Elems(blkq!Chain(q, h)) : h \in blkq!Heads(q)}
    BY <1>4, <1>11, <2>2
  <2>4. blk!Descs = blkq!Descs
    BY DEF blk!Descs, blkq!Descs
  <2>. TAKE q
  <2>. DEFINE Sound(n, fs, cs, ds) ==
                  /\ q.num_free \in 0 .. blk_NumDescs /\ n = q.num_free
                  /\ fs \cup UNION cs = ds /\ fs \cap UNION cs = {}
                  /\ \A c, d \in cs : c # d => c \cap d = {}
  <2>5. blk!QueueSound(q) <=> Sound(blk!Cardinality(blk!Elems(blk!FreeDescs(q))), blk!Elems(blk!FreeDescs(q)),
                                    {blk!Elems(blk!Chain(q, h)) : h \in blk!Heads(q)}, blk!Descs)
    BY Zenon DEF blk!QueueSound
  <2>6. blkq!QueueSound(q) <=> Sound(blkq!Cardinality(blkq!Elems(blkq!FreeDescs(q))),
                                          blkq!Elems(blkq!FreeDescs(q)),
                                          {blkq!Elems(blkq!Chain(q, h)) : h \in blkq!Heads(q)},
                                          blkq!Descs)
    BY Zenon DEF blkq!QueueSound
  <2>7. blk!Elems(blk!FreeDescs(q)) = blkq!Elems(blkq!FreeDescs(q))
    BY <2>1, <2>2
  <2>8. \A S : blk!Cardinality(S) = blkq!Cardinality(S)
    BY DEF blk!Cardinality, blkq!Cardinality
  <2>. HIDE DEF Sound
  <2>. QED BY <2>3, <2>4, <2>5, <2>6, <2>7, <2>8
<1>. QED BY <1>1, <1>2, <1>5, <1>8, <1>9, <1>10, <1>12

\* What the descriptors of a request point to; 0 before the first request.
Parts == {0, "header", "data", "status"}

\* What the DMA buffer may hold.
Requests == [write : BOOLEAN, sector : Nat, data : 0 .. MaxRequests, ok : BOOLEAN]

\* Between two requests all descriptors are free, and the last answer is what is in the sector.
\* While the driver polls, a chain of three is under way: the device has yet to answer, or
\* has answered from the sector.
Waits == /\ blk_pc = "recv" /\ ~notified /\ \E f : blkq!Idle(Parts, vq, f)
         /\ answer.err = "OK" => answer.data = disk[answer.sector]

\* The request that is under way.
Polls(f, ds) ==
    /\ Len(ds) = 3 /\ head = ds[1]
    /\ \/ notified /\ blkq!Requested(Parts, vq, f, ds)
       \/ ~notified /\ blkq!Replied(Parts, vq, f, ds) /\ req.ok /\ req.data = disk[req.sector]

\* The driver's invariant.
BlkInv ==
    /\ buf_used \in BOOLEAN /\ notified \in BOOLEAN /\ disk \in [0 .. NumSectors - 1 -> 0 .. MaxRequests]
    /\ head \in blkq!Descs /\ blk_asked \in 0 .. MaxRequests /\ req \in Requests
    /\ \/ Waits
       \/ blk_pc = "poll" /\ req.sector \in 0 .. NumSectors - 1 /\ \E f, ds : Polls(f, ds)

\* The driver has no more buffers for sending than the queue has descriptors: NUM_TX_BUFFERS is
\* 128, and virtq_init uses up to 512 descriptors.
BuffersFit == NumTx =< net_NumDescs

\* Clients ask for sectors of the disk.
SectorsExist == AskSectors \subseteq 0 .. NumSectors - 1

\* The invariant holds at the start.
LEMMA InitBlk == blk!VirtqAssumption /\ blk!BlkAssumption /\ blk!Init => BlkInv
<1>. SUFFICES ASSUME blk!VirtqAssumption, blk!BlkAssumption, blk!Init PROVE BlkInv
  OBVIOUS
<1>1. blkq!VirtqAssumption
  BY SameBlkQueue
<1>2. blkq!Idle(Parts, blkq!NewQueue, blkq!AllDescs)
  BY <1>1, blkq!NewIdle DEF Parts
<1>3. Waits
  BY <1>2, SameBlkQueue DEF blk!Init, Waits
<1>4. 0 \in blkq!Descs
  BY <1>1 DEF blkq!VirtqAssumption, blkq!Descs
<1>5. MaxRequests \in Nat /\ NumSectors \in Nat
  BY DEF blk!BlkAssumption
<1>6. req \in Requests /\ disk \in [0 .. NumSectors - 1 -> 0 .. MaxRequests] /\ blk_asked \in 0 .. MaxRequests
  BY <1>5 DEF blk!Init, blk!NoReq, Requests
<1>. QED BY <1>3, <1>4, <1>6 DEF BlkInv, blk!Init

\* BLK_READ and BLK_WRITE.
LEMMA BlkAsks ==
    ASSUME blk!VirtqAssumption, blk!BlkAssumption, SectorsExist, BlkInv, blk!read_write
    PROVE  BlkInv'
<1>0. blkq!VirtqAssumption /\ MaxRequests \in Nat /\ NumSectors \in Nat
  BY SameBlkQueue DEF blk!BlkAssumption
<1>. DEFINE p == blk!virtq_push(vq, <<"header", "data", "status">>)
<1>a. PICK w \in BOOLEAN, s \in AskSectors, len \in Lens :
        /\ blk_pc = "recv" /\ blk_asked < MaxRequests /\ blk_asked' = blk_asked + 1
        /\ IF len % blk!SECTOR_SIZE # 0 \/ len > blk!SECTOR_SIZE
           THEN blk!Answered("INVALID", 0, w, s) /\ UNCHANGED <<vq, buf_used, req, blk_pc, head, notified>>
           ELSE IF buf_used
           THEN blk!Answered("TRY_AGAIN", 0, w, s) /\ UNCHANGED <<vq, buf_used, req, blk_pc, head, notified>>
           ELSE /\ buf_used' = TRUE
                /\ req' = [req EXCEPT !.write = w, !.sector = s, !.data = IF w THEN blk_asked' ELSE @]
                /\ vq' = p.vq
                /\ IF p.ok THEN blk_pc' = "poll" /\ head' = p.head /\ notified' = TRUE /\ UNCHANGED answer
                   ELSE blk!Answered("NO_MEMORY", 0, w, s) /\ UNCHANGED <<blk_pc, head, notified>>
        /\ UNCHANGED disk
  BY Zenon DEF blk!read_write
<1>. HIDE DEF p
<1>b. \A e : blk!Answered(e, 0, w, s) => answer'.err = e
  BY DEF blk!Answered
<1>1. /\ blk_pc = "recv" /\ blk_asked < MaxRequests /\ blk_asked' = blk_asked + 1 /\ disk' = disk
      /\ \/ /\ answer'.err \in {"INVALID", "TRY_AGAIN"}
            /\ UNCHANGED <<vq, buf_used, req, blk_pc, head, notified>>
         \/ /\ buf_used' = TRUE
            /\ req' = [req EXCEPT !.write = w, !.sector = s, !.data = IF w THEN blk_asked' ELSE @]
            /\ vq' = p.vq
            /\ \/ p.ok /\ blk_pc' = "poll" /\ head' = p.head /\ notified' = TRUE
               \/ ~p.ok /\ answer'.err = "NO_MEMORY" /\ UNCHANGED <<blk_pc, head, notified>>
  BY <1>a, <1>b
<1>2. Waits /\ blk_asked' \in 0 .. MaxRequests /\ s \in 0 .. NumSectors - 1 /\ s \in Nat
  BY <1>0, <1>1 DEF BlkInv, SectorsExist, Waits
<1>3. CASE UNCHANGED <<vq, buf_used, req, blk_pc, head, notified>> /\ answer'.err \in {"INVALID", "TRY_AGAIN"}
  <2>1. Waits'
    BY <1>1, <1>2, <1>3 DEF Waits
  <2>. QED BY <1>1, <1>2, <1>3, <2>1 DEF BlkInv
<1>4. CASE /\ buf_used' = TRUE
           /\ req' = [req EXCEPT !.write = w, !.sector = s, !.data = IF w THEN blk_asked' ELSE @]
           /\ vq' = p.vq
           /\ \/ p.ok /\ blk_pc' = "poll" /\ head' = p.head /\ notified' = TRUE
              \/ ~p.ok /\ answer'.err = "NO_MEMORY" /\ UNCHANGED <<blk_pc, head, notified>>
  <2>1. req' \in Requests /\ req'.sector = s
    BY <1>1, <1>2, <1>4 DEF BlkInv, Requests
  <2>2. PICK f : blkq!Idle(Parts, vq, f)
    BY <1>2 DEF Waits
  <2>3. PICK as \in Seq(Parts) : as = <<"header", "data", "status">> /\ Len(as) = 3
    <3>1. <<"header", "data", "status">> \in Seq(Parts) /\ Len(<<"header", "data", "status">>) = 3
      BY DEF Parts
    <3>. QED BY <3>1
  <2>4. p = blkq!virtq_push(vq, as)
    BY <2>3, SameBlkQueue DEF p
  <2>5. blk_NumDescs \in Nat
    BY <1>0 DEF blkq!VirtqAssumption
  <2>6. CASE 3 =< blk_NumDescs
    <3>0. Len(as) > 0 /\ Len(as) =< blk_NumDescs
      BY <2>3, <2>5, <2>6
    <3>1. blkq!ChainOffered(Parts, Len(as), blkq!virtq_push(vq, as))
      BY Zenon, <1>0, <2>2, <2>3, <3>0, blkq!ChainPush
    <3>2. p.ok /\ \E g, ds : blkq!Requested(Parts, p.vq, g, ds) /\ Len(ds) = 3 /\ ds[1] = p.head
      BY <2>3, <2>4, <3>1 DEF blkq!ChainOffered
    <3>3. PICK g, ds : blkq!Requested(Parts, vq', g, ds) /\ Len(ds) = 3 /\ ds[1] = head'
      BY <1>4, <3>2
    <3>4. head' \in blkq!Descs
      BY <1>0, <3>3, blkq!OneChainSound
    <3>5. Polls(g, ds)'
      BY <1>4, <3>2, <3>3 DEF Polls
    <3>. QED BY <1>1, <1>2, <1>4, <2>1, <3>2, <3>4, <3>5 DEF BlkInv
  <2>7. CASE ~(3 =< blk_NumDescs)
    <3>0. Len(as) > blk_NumDescs
      BY <2>3, <2>5, <2>7
    <3>1. p = [vq |-> vq, ok |-> FALSE, head |-> 0]
      BY Zenon, <1>0, <2>2, <2>3, <2>4, <3>0, blkq!ChainNoRoom
    <3>2. vq' = vq /\ answer'.err = "NO_MEMORY" /\ UNCHANGED <<blk_pc, head, notified>>
      BY <1>4, <3>1
    <3>3. Waits'
      BY <1>1, <1>2, <3>2 DEF Waits
    <3>. QED BY <1>1, <1>2, <1>4, <2>1, <3>2, <3>3 DEF BlkInv
  <2>. QED BY <2>6, <2>7
<1>. QED BY <1>1, <1>3, <1>4

\* The device carries the request out.
LEMMA BlkDevice ==
    ASSUME blk!VirtqAssumption, blk!BlkAssumption, BlkInv, blk!device
    PROVE  BlkInv'
<1>0. blkq!VirtqAssumption /\ NumSectors \in Nat
  BY SameBlkQueue DEF blk!BlkAssumption
<1>1. /\ notified /\ notified' = FALSE /\ UNCHANGED <<buf_used, blk_pc, head, blk_asked, answer>>
      /\ vq' = blkq!DeviceUses(blkq!DeviceTakes(vq), blkq!NextTaken(vq))
  BY SameBlkQueue DEF blk!device
<1>2. /\ disk' = IF req.sector < NumSectors /\ req.write THEN [disk EXCEPT ![req.sector] = req.data] ELSE disk
      /\ req' = [req EXCEPT !.data = IF req.sector < NumSectors /\ ~req.write THEN disk[req.sector] ELSE @,
                            !.ok = (req.sector < NumSectors)]
  BY DEF blk!device
<1>3. blk_pc = "poll" /\ req.sector \in 0 .. NumSectors - 1 /\ \E f, ds : Polls(f, ds)
  BY <1>1 DEF BlkInv, Waits
<1>4. PICK f, ds : Len(ds) = 3 /\ head = ds[1] /\ blkq!Requested(Parts, vq, f, ds)
  BY <1>1, <1>3 DEF Polls
<1>5. blkq!Replied(Parts, vq', f, ds)
  BY <1>0, <1>1, <1>4, blkq!ChainDone
<1>6. /\ req \in Requests /\ disk \in [0 .. NumSectors - 1 -> 0 .. MaxRequests]
      /\ req.sector < NumSectors
  BY <1>0, <1>3 DEF BlkInv
<1>7. disk' \in [0 .. NumSectors - 1 -> 0 .. MaxRequests]
  BY <1>2, <1>3, <1>6 DEF Requests
<1>8. req' \in Requests /\ req'.sector = req.sector /\ req'.ok
  BY <1>2, <1>3, <1>6 DEF Requests
<1>9. req'.data = disk'[req'.sector]
  <2>1. CASE req.write
    BY <1>2, <1>3, <1>6, <2>1 DEF Requests
  <2>2. CASE ~req.write
    BY <1>2, <1>3, <1>6, <2>2 DEF Requests
  <2>. QED BY <2>1, <2>2
<1>10. Polls(f, ds)'
  BY <1>1, <1>4, <1>5, <1>8, <1>9 DEF Polls
<1>. QED BY <1>1, <1>3, <1>7, <1>8, <1>10 DEF BlkInv

\* The driver takes the answer.
LEMMA BlkFinishes ==
    ASSUME blk!VirtqAssumption, BlkInv, blk!finish
    PROVE  BlkInv'
<1>0. blkq!VirtqAssumption
  BY SameBlkQueue
<1>. DEFINE r == blk!virtq_pop(vq)
<1>1. /\ blk_pc = "poll" /\ ~blkq!virtq_is_empty(vq) /\ vq' = r.vq
      /\ UNCHANGED <<req, disk, head, blk_asked, notified>>
      /\ IF Len(r.descs) = 3 /\ r.descs[1] = head /\ req.ok
         THEN blk_pc' = "recv" /\ buf_used' = FALSE /\ answer'.data = req.data /\ answer'.sector = req.sector
         ELSE blk_pc' = "dead" /\ UNCHANGED <<buf_used, answer>>
  BY SameBlkQueue DEF blk!finish, blk!Polled, blk!Checked, blk!Freed, blk!Answered
<1>. HIDE DEF r
<1>2. \E f, ds : Polls(f, ds)
  BY <1>1 DEF BlkInv, Waits
<1>3. PICK f, ds : /\ Len(ds) = 3 /\ head = ds[1] /\ ~notified /\ blkq!Replied(Parts, vq, f, ds)
                   /\ req.ok /\ req.data = disk[req.sector]
  BY <1>0, <1>1, <1>2, blkq!WhoseTurn DEF Polls
<1>4. blkq!ChainBack(Parts, ds, r)
  BY <1>0, <1>3, SameBlkQueue, blkq!ChainPop DEF r
<1>5. r.descs = ds /\ \E g : blkq!Idle(Parts, vq', g)
  BY <1>1, <1>4 DEF blkq!ChainBack
<1>6. Waits'
  BY <1>1, <1>3, <1>5 DEF Waits
<1>. QED BY <1>1, <1>3, <1>5, <1>6 DEF BlkInv

\* The invariant has what matters.
LEMMA BlkInvEnough ==
    ASSUME blk!VirtqAssumption, BlkInv
    PROVE  blk!TypeOK /\ blk!DescsSound /\ blk!AnswerRight /\ blk!DriverAlive
<1>0. blkq!VirtqAssumption
  BY SameBlkQueue
<1>1. /\ blkq!QueueSound(vq) /\ vq.num_free \in 0 .. blk_NumDescs
  <2>1. CASE \E f : blkq!Idle(Parts, vq, f)
    BY <1>0, <2>1, blkq!IdleIs
  <2>2. CASE \E f, ds : Polls(f, ds)
    BY <1>0, <2>2, blkq!OneChainSound DEF Polls
  <2>. QED BY <2>1, <2>2 DEF BlkInv, Waits
<1>2. blk_pc \in {"recv", "poll"}
  BY DEF BlkInv, Waits
<1>3. blk!AnswerRight
  BY DEF BlkInv, Waits, blk!AnswerRight
<1>4. blk!TypeOK
  BY <1>1, <1>2, SameBlkQueue DEF BlkInv, blk!TypeOK
<1>. QED BY <1>1, <1>2, <1>3, <1>4, SameBlkQueue DEF blk!DescsSound, blk!DriverAlive
-----------------------------------------------------------------------------
(* Both drivers.                                                           *)

\* The invariants of the two drivers.
DriversInv == (sys = "net" => netProofs!NetInv) /\ (sys = "blk" => BlkInv)

\* virtio_mmio.c and the drivers: every descriptor is free or in one chain that is under way;
\* no DMA buffer is offered twice, used before the card is done with it, or lost; packets go
\* out as they were taken and come in in order, once; an answer of the disk is what is in the
\* sector, and the driver's assertions hold.  For queues of any size, rings that wrap around at
\* any multiple of it, any number of buffers that the queues have room for, and clients
\* that ask for sectors of the disk.
THEOREM DriversAreSound ==
    ASSUME BuffersFit, SectorsExist
    PROVE  Spec => []DriversSound
<1>0. /\ net!VirtqAssumption /\ net!NetAssumption /\ netProofs!VirtqAssumption /\ netProofs!NetAssumption
      /\ blk!VirtqAssumption /\ blk!BlkAssumption
  BY HardwareAssumption, SameNet DEF HardwareAssumption
<1>1. Init => DriversInv
  BY <1>0, SameNet, netProofs!InitNet, InitBlk DEF Init, DriversInv
<1>2. DriversInv /\ [Next]_vars => DriversInv'
  <2>. SUFFICES ASSUME DriversInv, [Next]_vars PROVE DriversInv'
    OBVIOUS
  <2>1. CASE NetStep
    <3>1. sys = "net" /\ sys' = "net" /\ netProofs!Next /\ netProofs!NetInv
      BY <2>1, SameNet DEF NetStep, DriversInv
    <3>2. netProofs!NetInv'
      BY <1>0, <3>1, netProofs!NextNet DEF BuffersFit
    <3>. QED BY <3>1, <3>2 DEF DriversInv
  <2>2. CASE BlkStep
    <3>1. sys = "blk" /\ sys' = "blk" /\ blk!Next /\ BlkInv
      BY <2>2 DEF BlkStep, DriversInv
    <3>2. BlkInv'
      BY <1>0, <3>1, BlkAsks, BlkDevice, BlkFinishes DEF blk!Next
    <3>. QED BY <3>1, <3>2 DEF DriversInv
  <2>3. CASE UNCHANGED <<sys, NetVars, BlkVars>>
    <3>1. BlkInv => BlkInv'
      BY <2>3 DEF BlkInv, Waits, Polls, BlkVars
    <3>2. netProofs!NetInv => netProofs!NetInv'
      <4>. SUFFICES ASSUME netProofs!NetInv PROVE netProofs!NetInv'
        OBVIOUS
      <4>1. /\ UNCHANGED <<isr, irq, opened, kicked, net_pc>> /\ UNCHANGED netProofs!TxVars
            /\ UNCHANGED netProofs!RxVars
        BY <2>3 DEF NetVars, netProofs!TxVars, netProofs!RxVars
      <4>2. kicked \in BOOLEAN /\ net_pc \in {"recv", "tx_loop", "rx_loop", "rx_push"}
        BY DEF netProofs!NetInv, netProofs!Sending, netProofs!TxTypes, netProofs!Receiving, netProofs!RxTypes
      <4>3. netProofs!Sending'
        BY <4>1, <4>2, netProofs!SendingKept DEF netProofs!NetInv
      <4>4. netProofs!Receiving'
        BY <4>1, <4>2, netProofs!ReceivingKept DEF netProofs!NetInv
      <4>. QED BY <4>1, <4>3, <4>4 DEF netProofs!NetInv
    <3>. QED BY <2>3, <3>1, <3>2 DEF DriversInv
  <2>. QED BY <2>1, <2>2, <2>3 DEF Next, SerialStep, ClockStep, IpiStep, vars
<1>3. DriversInv => DriversSound
  BY <1>0, SameNet, netProofs!NetInvEnough, BlkInvEnough DEF DriversInv, DriversSound
<1>. QED BY <1>1, <1>2, <1>3, PTL DEF Spec
=============================================================================
