----------------------------- MODULE MCHardware -----------------------------
(***************************************************************************)
(* What runs next to hardware: the console, the clock, IPIs, and the two   *)
(* virtio drivers with their cards, for TLC.  They share no state here: in *)
(* a behaviour one of them runs, sys, and the others stay where they       *)
(* start.  The clock is explored twice: with IPIs, which shift its         *)
(* interrupts, and without, where every timeout runs down.  So are IPIs:   *)
(* with one CPU that sends them, and with several, which may then wait for *)
(* each other for ever but do no harm.                                     *)
(***************************************************************************)
EXTENDS Integers, Sequences, FiniteSets

CONSTANTS
    Components,     \* the ones to explore
    \* SerialRing
    Tasks, Chars, CTRL_P, RingSize, MaxLens, WriteMax, KbufSize, Texts,
    \* Clock
    clock_CPUs, TickTime, INTERVAL, Word, TICK_HZ, Latency, Timeouts, MaxAge,
    \* Ipi
    ipi_CPUs, Mappers, Destroyers, MaxOps,
    \* VirtioNet
    net_NumDescs, net_IndexMod, NumTx, NumRx, MaxSend, MaxArrive,
    \* VirtioBlk
    blk_NumDescs, blk_IndexMod, NumSectors, AskSectors, Lens, MaxRequests

VARIABLES
    sys,            \* the component that runs
    \* SerialRing
    input, input_rp, input_wp, handling, readers, max_len, taken, writing, remaining, output,
    \* Clock
    since, clock_left, ssip, age, uptime_ticks, timeout, clock_asked, elapsed, credit,
    \* Ipi
    big_lock, ipi_pc, op, ipi_pending, ipi_left, tlb, runs, victim, freed, ops,
    \* VirtioNet
    rx, tx, tx_used, rx_buf, tx_buf, isr, irq, kicked, net_pc, popped, opened, sent,
    accepted, wire, arrived, delivered,
    \* VirtioBlk
    vq, buf_used, req, disk, blk_pc, head, blk_asked, answer, notified

\* Texts as long as and longer than the limit of one system call.
TextsToWrite == {<<0, 1>>, <<1, 0, 1>>}

serial == INSTANCE SerialRing
clock == INSTANCE Clock WITH
    CPUs <- clock_CPUs, left <- clock_left, asked <- clock_asked, Ipis <- TRUE
clockAlone == INSTANCE Clock WITH
    CPUs <- clock_CPUs, left <- clock_left, asked <- clock_asked, Ipis <- FALSE, MaxAge <- 0
ipi == INSTANCE Ipi WITH
    CPUs <- ipi_CPUs, pc <- ipi_pc, left <- ipi_left
ipiMany == INSTANCE Ipi WITH
    CPUs <- ipi_CPUs, pc <- ipi_pc, left <- ipi_left, Mappers <- {1, 2}, Destroyers <- {2,
    3}
net == INSTANCE VirtioNet WITH
    NumDescs <- net_NumDescs, IndexMod <- net_IndexMod, pc <- net_pc
blk == INSTANCE VirtioBlk WITH
    NumDescs <- blk_NumDescs, IndexMod <- blk_IndexMod, pc <- blk_pc, asked <- blk_asked

ASSUME HardwareAssumption ==
    /\ serial!RingAssumption
    /\ clock!ClockAssumption
    /\ clockAlone!ClockAssumption
    /\ ipi!IpiAssumption
    /\ ipiMany!IpiAssumption
    /\ net!NetAssumption /\ net!VirtqAssumption
    /\ blk!BlkAssumption /\ blk!VirtqAssumption

SerialVars ==
    <<input, input_rp, input_wp, handling, readers, max_len, taken, writing, remaining,
      output>>
ClockVars ==
    <<since, clock_left, ssip, age, uptime_ticks, timeout, clock_asked, elapsed, credit>>
IpiVars == <<big_lock, ipi_pc, op, ipi_pending, ipi_left, tlb, runs, victim, freed, ops>>
NetVars ==
    <<rx, tx, tx_used, rx_buf, tx_buf, isr, irq, kicked, net_pc, popped, opened, sent,
      accepted, wire, arrived, delivered>>
BlkVars == <<vq, buf_used, req, disk, blk_pc, head, blk_asked, answer, notified>>
vars == <<sys, SerialVars, ClockVars, IpiVars, NetVars, BlkVars>>

\* The contents of the console's buffer do not matter when it is empty.
Init ==
    /\ sys \in Components
    /\ serial!Init /\ (sys # "serial" => input[0] = 0)
    /\ clock!Init /\ ipi!Init /\ net!Init /\ blk!Init

SerialStep ==
    /\ sys = "serial" /\ serial!Next
    /\ UNCHANGED <<sys, ClockVars, IpiVars, NetVars, BlkVars>>

ClockStep ==
    /\ \/ sys = "clock" /\ clock!Next
       \/ sys = "clock_alone" /\ clockAlone!Next
    /\ UNCHANGED <<sys, SerialVars, IpiVars, NetVars, BlkVars>>

IpiStep ==
    /\ \/ sys = "ipi" /\ ipi!Next
       \/ sys = "ipi_many" /\ ipiMany!Next
    /\ UNCHANGED <<sys, SerialVars, ClockVars, NetVars, BlkVars>>

NetStep ==
    /\ sys = "net" /\ net!Next
    /\ UNCHANGED <<sys, SerialVars, ClockVars, IpiVars, BlkVars>>

BlkStep ==
    /\ sys = "blk" /\ blk!Next
    /\ UNCHANGED <<sys, SerialVars, ClockVars, IpiVars, NetVars>>

Next == SerialStep \/ ClockStep \/ IpiStep \/ NetStep \/ BlkStep

Spec == Init /\ [][Next]_vars

(***************************************************************************)
(* Fairness.  Console: an interrupt handler ends, and readers get to run   *)
(* between interrupts, however many there are.  Clock: time passes, the    *)
(* hardware delivers interrupts and CPUs enable them.  IPIs: every CPU     *)
(* goes on.  Network: the driver runs, the card works, the kernel delivers *)
(* interrupts.  Disk: the card works and the driver polls.                 *)
(***************************************************************************)
Fairness ==
    /\ WF_SerialVars(sys = "serial" /\ serial!serial_handled)
    /\ \A t \in Tasks : SF_SerialVars(sys = "serial" /\ serial!serial_read(t))
    /\ WF_ClockVars(sys = "clock_alone" /\ clockAlone!Advance)
    /\ \A c \in clock_CPUs :
        /\ WF_ClockVars(sys = "clock_alone" /\ clockAlone!riscv32_timer_handler(c))
        /\ WF_ClockVars(sys = "clock_alone" /\ clockAlone!soft_interrupt(c))
    /\ \A c \in ipi_CPUs : WF_IpiVars(sys = "ipi" /\ ipi!Kernel(c))
    /\ WF_NetVars(sys = "net" /\ net!Driver) /\ WF_NetVars(sys = "net" /\ net!interrupt)
    /\ WF_NetVars(sys = "net" /\ (net!card_takes \/ net!card_sends))
    /\ WF_BlkVars(sys = "blk" /\ blk!device) /\ WF_BlkVars(sys = "blk" /\ blk!finish)

FairSpec == Spec /\ Fairness
-----------------------------------------------------------------------------
\* printk.c, syscall.c and interrupt.c: no reader sleeps on a buffer with characters in it,
\* except while the handler that will wake it runs; a write gets to the UART whole, each
\* character once; the uptime is at most the time that has passed, on each CPU, and a
\* timeout runs down no faster than the clock of CPU 0.
ConsoleAndClock ==
    /\ sys = "serial" => serial!TypeOK /\ serial!SleepsOnlyOnEmpty /\ serial!WritesText
    /\ sys = "clock" => clock!TypeOK /\ clock!UptimeBound /\ clock!NotTooEarly
    /\ sys = "clock_alone" => clockAlone!TypeOK

\* mp.c, vm.c and task.c: when a CPU leaves the kernel after it has changed a page table, no
\* other CPU can use the old entry; a task that is freed runs on no CPU; and although
\* arch_send_ipi gives up the lock, a CPU in the kernel has it.
IpisSound ==
    /\ sys = "ipi" => ipi!TypeOK /\ ipi!Shootdown /\ ipi!FreedStopped /\ ipi!Exclusive
    /\ sys = "ipi_many" => ipiMany!TypeOK /\ ipiMany!FreedStopped /\ ipiMany!Exclusive

\* virtio_mmio.c and the drivers: every descriptor is free or in one chain that is under way;
\* no DMA buffer is offered twice, used before the card is done with it, or lost; packets
\* go out as they were taken and come in in order, once; an answer of the disk is what is
\* in the sector, and the driver's assertions hold while clients ask for sectors of the disk.
DriversSound ==
    /\ sys = "net" => /\ net!TypeOK /\ net!DescsSound /\ net!BuffersSound
                      /\ net!SentOnce /\ net!InOrder
    /\ sys = "blk" => /\ blk!TypeOK /\ blk!DescsSound /\ blk!AnswerRight /\ blk!DriverAlive
-----------------------------------------------------------------------------
\* printk.c: the ring buffer is a queue that drops its oldest character.
ImplementsDropOldest == serial!ImplementsDropOldest

\* Every wait ends: of a reader once characters are there, of a task that has set a timeout, of
\* a CPU for the others to flush their TLBs, of the card's used buffers to be taken, of a
\* packet to go out, of a client for the disk.
WaitsEnd ==
    /\ serial!ReaderServed /\ (sys = "clock_alone" => clockAlone!Expires) /\ (sys = "ipi" => ipi!Returns)
    /\ net!Noticed /\ net!Sent /\ blk!Answers
=============================================================================
