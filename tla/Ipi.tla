-------------------------------- MODULE Ipi --------------------------------
(***************************************************************************)
(* The big kernel lock and inter-processor interrupts, one instruction     *)
(* group at a time: mp_lock, mp_unlock and arch_send_ipi                   *)
(* (kernel/riscv32/mp.c), the trap handlers that take the lock             *)
(* (kernel/riscv32/trap.c), and the two users of IPIs: the TLB shootdown   *)
(* of arch_vm_map and arch_vm_unmap (kernel/riscv32/vm.c) and the loop of  *)
(* task_destroy (kernel/task.c), which makes the other CPUs let go of the  *)
(* task.  The kernel runs with interrupts off, so a CPU takes an IPI only  *)
(* in user mode or when idle.                                              *)
(*                                                                         *)
(* Module Kernel has the same operations as atomic steps; this one is      *)
(* about what happens while arch_send_ipi gives up the lock.               *)
(***************************************************************************)
EXTENDS Integers, FiniteSets

CONSTANTS
    CPUs,           \* all online; a set of numbers
    Mappers,        \* CPUs whose task changes a page table
    Destroyers,     \* CPUs whose task destroys the victim
    MaxOps          \* system calls that send IPIs, per CPU

IpiAssumption ==
    CPUs \subseteq Nat \ {0} /\ Mappers \cup Destroyers \subseteq CPUs /\ MaxOps \in Nat

NOBODY == 0         \* BKL_UNLOCKED, and "no CPU"

VARIABLES
    big_lock,       \* the CPU that holds the lock (locked_cpu), or NOBODY
    pc,             \* per CPU: "user", "lock_sys", "lock_soft", "sys", "soft", "wait", "relock"
    op,             \* per CPU: its system call: "map", "destroy", "destroying" (past task_find), "none"
    ipi_pending,    \* per CPU: subset of {"TLB_FLUSH", "RESCHEDULE"}
    left,           \* per CPU: the CPUs arch_send_ipi still has to wait for
    tlb,            \* per CPU: its TLB may hold the old entry of the page table
    runs,           \* the CPU that runs the victim, or NOBODY
    victim,         \* its state: "runnable", "blocked", "unused"
    freed,          \* history: how often the victim has been freed
    ops             \* per CPU: system calls made

vars == <<big_lock, pc, op, ipi_pending, left, tlb, runs, victim, freed, ops>>
taskVars == <<runs, victim, freed>>

TypeOK ==
    /\ big_lock \in CPUs \cup {NOBODY}
    /\ pc \in [CPUs -> {"user", "lock_sys", "lock_soft", "sys", "soft", "wait", "relock"}]
    /\ op \in [CPUs -> {"map", "destroy", "destroying", "none"}]
    /\ ipi_pending \in [CPUs -> SUBSET {"TLB_FLUSH", "RESCHEDULE"}]
    /\ left \in [CPUs -> SUBSET CPUs] /\ tlb \in [CPUs -> BOOLEAN]
    /\ runs \in CPUs \cup {NOBODY} /\ victim \in {"runnable", "blocked", "unused"}
    /\ freed \in 0 .. 2 /\ ops \in [CPUs -> 0 .. MaxOps]

Init ==
    /\ big_lock = NOBODY /\ pc = [c \in CPUs |-> "user"] /\ op = [c \in CPUs |-> "none"]
    /\ ipi_pending = [c \in CPUs |-> {}] /\ left = [c \in CPUs |-> {}]
    /\ tlb = [c \in CPUs |-> FALSE]
    /\ runs = NOBODY /\ victim = "runnable" /\ freed = 0 /\ ops = [c \in CPUs |-> 0]
-----------------------------------------------------------------------------
\* riscv32_handle_trap: a system call.  The victim makes no calls that send IPIs.
syscall(c) ==
    /\ pc[c] = "user" /\ runs # c /\ ops[c] < MaxOps
    /\ \E o \in (IF c \in Mappers THEN {"map"} ELSE {}) \cup
                (IF c \in Destroyers THEN {"destroy"} ELSE {}) : op' = [op EXCEPT ![c] = o]
    /\ ops' = [ops EXCEPT ![c] = @ + 1]
    /\ pc' = [pc EXCEPT ![c] = "lock_sys"]
    /\ UNCHANGED <<big_lock, ipi_pending, left, tlb, taskVars>>

\* riscv32_handle_trap: a software interrupt.
soft_interrupt(c) ==
    /\ pc[c] = "user" /\ ipi_pending[c] # {}
    /\ pc' = [pc EXCEPT ![c] = "lock_soft"]
    /\ UNCHANGED <<big_lock, op, ipi_pending, left, tlb, taskVars, ops>>

\* As LockFree, without looking.
LockAlways == TRUE

\* compare_and_swap in mp_lock succeeds.
LockFree == big_lock = NOBODY

\* mp_lock; after arch_send_ipi has waited for one CPU the loop goes on with the next.
mp_lock(c) ==
    /\ pc[c] \in {"lock_sys", "lock_soft", "relock"} /\ LockFree
    /\ big_lock' = c
    /\ pc' = [pc EXCEPT ![c] = IF @ = "lock_soft" THEN "soft" ELSE "sys"]
    /\ UNCHANGED <<op, ipi_pending, left, tlb, taskVars, ops>>

Targets(c) == CPUs \ {c}

\* arch_send_ipi, first loop, and the mp_unlock before the first wait.
arch_send_ipi(c, ipi) ==
    /\ ipi_pending' = [d \in CPUs |-> IF d \in Targets(c) THEN ipi_pending[d] \cup {ipi}
                                      ELSE ipi_pending[d]]
    /\ left' = [left EXCEPT ![c] = Targets(c)]
    /\ pc' = [pc EXCEPT ![c] = "wait"] /\ big_lock' = NOBODY

\* As Handled, not waiting.
NotWaited(d) == TRUE

Handled(d) == ipi_pending[d] = {}

\* arch_send_ipi, second loop: CPU d has handled its IPIs.
ipi_wait(c) ==
    /\ pc[c] = "wait"
    /\ \E d \in left[c] :
        /\ \A e \in left[c] : d =< e
        /\ Handled(d)
        /\ left' = [left EXCEPT ![c] = @ \ {d}]
    /\ pc' = [pc EXCEPT ![c] = "relock"]
    /\ UNCHANGED <<big_lock, op, ipi_pending, tlb, taskVars, ops>>

\* mp_unlock for the next CPU to wait for.
ipi_next(c) ==
    /\ pc[c] = "sys" /\ left[c] # {}
    /\ pc' = [pc EXCEPT ![c] = "wait"] /\ big_lock' = NOBODY
    /\ UNCHANGED <<op, ipi_pending, left, tlb, taskVars, ops>>

\* As Leave, without the mp_unlock.
LeaveLocked(c) == pc' = [pc EXCEPT ![c] = "user"] /\ UNCHANGED big_lock

\* mp_unlock at the end of the trap handler.
Leave(c) == pc' = [pc EXCEPT ![c] = "user"] /\ big_lock' = NOBODY

\* arch_vm_map, arch_vm_unmap: the entry is changed, then the TLBs flushed.
map_begin(c) ==
    /\ pc[c] = "sys" /\ op[c] = "map" /\ left[c] = {}
    /\ tlb' = [d \in CPUs |-> d # c]
    /\ op' = [op EXCEPT ![c] = "none"]
    /\ arch_send_ipi(c, "TLB_FLUSH")
    /\ UNCHANGED <<taskVars, ops>>

map_end(c) ==
    /\ pc[c] = "sys" /\ op[c] = "none" /\ left[c] = {}
    /\ Leave(c)
    /\ UNCHANGED <<op, ipi_pending, left, tlb, taskVars, ops>>

\* As Stopped, for a victim that has only been told to stop.
StoppedOnceTold(c) == ops[c] > 0

\* The victim runs on no CPU: blocked, or in the run queue.
Stopped(c) == victim # "runnable" \/ runs = NOBODY

\* sys_task_destroy: task_find, then task_destroy marks the task; a task that is gone is an error.
destroy_begin(c) ==
    /\ pc[c] = "sys" /\ op[c] = "destroy"
    /\ \/ /\ victim # "unused"
          /\ op' = [op EXCEPT ![c] = "destroying"] /\ UNCHANGED <<pc, big_lock>>
       \/ /\ victim = "unused"
          /\ op' = [op EXCEPT ![c] = "none"] /\ Leave(c)
    /\ UNCHANGED <<ipi_pending, left, tlb, taskVars, ops>>

\* task_destroy, one round of its loop.
destroy_loop(c) ==
    /\ pc[c] = "sys" /\ op[c] = "destroying" /\ left[c] = {} /\ ~Stopped(c)
    /\ arch_send_ipi(c, "RESCHEDULE")
    /\ UNCHANGED <<op, tlb, taskVars, ops>>

\* task_destroy after its loop.
destroy_end(c) ==
    /\ pc[c] = "sys" /\ op[c] = "destroying" /\ left[c] = {} /\ Stopped(c)
    /\ freed < 2
    /\ victim' = "unused" /\ freed' = freed + 1
    /\ op' = [op EXCEPT ![c] = "none"]
    /\ Leave(c)
    /\ UNCHANGED <<ipi_pending, left, tlb, runs, ops>>

\* handle_soft_interrupt_trap: ipi_pending is taken, and each IPI in it served.
handle_soft_interrupt(c) ==
    /\ pc[c] = "soft"
    /\ ipi_pending' = [ipi_pending EXCEPT ![c] = {}]
    /\ tlb' = [tlb EXCEPT ![c] = IF "TLB_FLUSH" \in ipi_pending[c] THEN FALSE ELSE @]
    \* task_switch puts the victim, if it runs here, back into the run queue.
    /\ runs' = IF "RESCHEDULE" \in ipi_pending[c] /\ runs = c THEN NOBODY ELSE runs
    /\ Leave(c)
    /\ UNCHANGED <<op, left, victim, freed, ops>>
-----------------------------------------------------------------------------
(* What the victim does on its own, in short system calls and interrupts.  *)

schedule(c) ==
    /\ pc[c] = "user" /\ LockFree /\ victim = "runnable" /\ runs = NOBODY /\ runs' = c
    /\ UNCHANGED <<big_lock, pc, op, ipi_pending, left, tlb, victim, freed, ops>>

block ==
    /\ runs # NOBODY /\ pc[runs] = "user" /\ LockFree /\ victim = "runnable"
    /\ victim' = "blocked" /\ runs' = NOBODY
    /\ UNCHANGED <<big_lock, pc, op, ipi_pending, left, tlb, freed, ops>>

wake ==
    /\ victim = "blocked" /\ LockFree /\ victim' = "runnable"
    /\ UNCHANGED <<big_lock, pc, op, ipi_pending, left, tlb, runs, freed, ops>>

Kernel(c) ==
    \/ soft_interrupt(c) \/ mp_lock(c) \/ ipi_wait(c) \/ ipi_next(c) \/ map_begin(c) \/ map_end(c)
    \/ destroy_begin(c) \/ destroy_loop(c) \/ destroy_end(c) \/ handle_soft_interrupt(c)

Next == \/ \E c \in CPUs : syscall(c) \/ Kernel(c) \/ schedule(c)
        \/ block \/ wake

Spec == Init /\ [][Next]_vars
-----------------------------------------------------------------------------
\* The comments in riscv32_handle_trap: at most one CPU is in the kernel, and it has the lock.
Exclusive == \A c \in CPUs : pc[c] \in {"sys", "soft"} => big_lock = c

\* TLB shootdown: when a CPU leaves the kernel after it has changed a page table, no
\* other CPU that runs a task can still use the old entry.
Shootdown ==
    \A c, d \in CPUs : pc[c] = "sys" /\ op[c] = "none" /\ left[c] = {} /\ Mappers = {c} => ~tlb[d]

\* task_destroy: a task that is freed runs on no CPU, then or later.
FreedStopped == victim = "unused" => runs = NOBODY

\* A CPU that flushes the TLBs or handles an IPI gets out of the kernel.  (One that destroys
\* a task may go round its loop for ever, when the victim is chosen again each time.)
Returns == \A c \in CPUs : []<>(pc[c] = "user" \/ op[c] \in {"destroy", "destroying"})
-----------------------------------------------------------------------------
(* What the source says and the code does not do (README, Disagreements).  *)

\* arch_send_ipi gives up the lock so that the other CPUs can get in and handle the IPI:
\* two CPUs never wait for each other.
NoIpiDeadlock ==
    ~\E c, d \in CPUs : c # d /\ pc[c] = "wait" /\ pc[d] = "wait"
                         /\ d \in left[c] /\ ipi_pending[d] # {} /\ c \in left[d] /\ ipi_pending[c] # {}

\* task_destroy: DEBUG_ASSERT(task->state != TASK_UNUSED): what is destroyed is in use.
FreedOnce == freed =< 1
=============================================================================
