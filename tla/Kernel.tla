------------------------------- MODULE Kernel -------------------------------
(***************************************************************************)
(* The HinaOS kernel: task management and round-robin scheduling           *)
(* (kernel/task.c), message passing and notifications (kernel/ipc.c), the  *)
(* system calls and traps that reach them (kernel/syscall.c,               *)
(* kernel/riscv32/trap.c, the page-fault path of kernel/memory.c), timer,  *)
(* device and serial interrupts (kernel/interrupt.c, kernel/printk.c) and  *)
(* the big kernel lock with inter-processor interrupts                     *)
(* (kernel/riscv32/mp.c).                                                  *)
(*                                                                         *)
(* Kernel code runs with interrupts off and holding one lock.  A task that *)
(* blocks calls task_switch: the lock passes to the next task's kernel     *)
(* continuation on the same CPU and is released when a task returns to     *)
(* user mode or the idle task sleeps.  So a step of the model is a stretch *)
(* of kernel code between two of these points, `pc' says where each task   *)
(* continues, and only the holder of the lock may take kernel steps.       *)
(*                                                                         *)
(* This is the debug build: a failing DEBUG_ASSERT halts the machine.      *)
(***************************************************************************)
EXTENDS Integers, Sequences, FiniteSets, Functions, Lists

CONSTANTS
    NUM_TASKS_MAX,  \* number of task slots
    NumCpus,        \* number of online CPUs
    TASK_QUANTUM,   \* ticks a task may run before it is preempted
    InputMax,       \* characters the serial ring buffer holds
    MaxTimeout,     \* longest timeout a task asks for, in ticks
    MaxTicks,       \* most ticks that pass between two timer interrupts of a CPU
    BootTasks,      \* the VM server and the servers it has spawned at boot
    Requests,       \* the arguments user tasks pass to the ipc system call
    UserBits,       \* notification bits user tasks pass to the notify call
    MayCall,        \* which tasks use which trap or system call
    Events          \* the interrupt sources that are switched on

Tasks == 1 .. NUM_TASKS_MAX
CPUs == 0 .. NumCpus - 1

VM == 1             \* the first task: the VM server, pager of the others
NULL == 0           \* no task; also the idle task, whose task ID is 0
Idle == 0
IPC_ANY == 0
IPC_DENY == -1
FROM_KERNEL == -1
NoCpu == -1         \* the big lock is free (locked_cpu = -1)

States == {"UNUSED", "RUNNABLE", "BLOCKED"}
Bits == {"TIMER", "IRQ", "ABORTED", "ASYNC"}
Flags == {"SEND", "RECV", "NOBLOCK", "KERNEL"}
MsgTypes == {"USER", "PAGE_FAULT_REPLY", "NOTIFY", "EXCEPTION", "PAGE_FAULT"}
Traps == {"ipc", "notify", "create", "destroy", "exit", "page_fault",
          "copy_fault", "serial_read", "time", "irq"}

(***************************************************************************)
(* Where a task continues when it next runs.  "user" is user mode.  A task *)
(* at "sendwait", "recvwait", "serial" or "dead" has called task_switch    *)
(* and waits; the other places are inside a system call or trap.  At       *)
(* "ipiwait" and "ipilock" the task is in arch_send_ipi, which gives up    *)
(* the lock while it spins.                                                *)
(***************************************************************************)
Waits == {"sendwait", "recvwait", "serial", "dead"}
Spins == {"ipiwait", "ipilock"}
Places == {"user", "send", "recv", "create", "destroy", "exit"} \cup Waits \cup Spins

Messages == [type : MsgTypes, src : Tasks \cup {FROM_KERNEL}, task : Tasks \cup {NULL}]

(***************************************************************************)
(* The part of a task's kernel stack that matters: which call of ipc() is  *)
(* in progress ("sys": the system call's own; "fault": the call to the     *)
(* pager in handle_page_fault; "exit": the last message in task_exit),     *)
(* where a page fault returns to, and the system call's arguments.         *)
(***************************************************************************)
Frames == [call : {"none", "sys", "fault", "exit"}, ret : {"user", "send", "create"},
           dst : Tasks \cup {NULL}, src : Tasks \cup {IPC_ANY, IPC_DENY},
           flags : SUBSET Flags, type : MsgTypes]

NoFrame == [call |-> "none", ret |-> "user", dst |-> NULL, src |-> IPC_DENY,
            flags |-> {}, type |-> "USER"]

ASSUME SizesAssumption ==
    /\ NUM_TASKS_MAX \in Nat \ {0} /\ NumCpus \in Nat \ {0} /\ TASK_QUANTUM \in Nat \ {0}
    /\ InputMax \in Nat /\ MaxTimeout \in Nat /\ MaxTicks \in Nat \ {0}
    /\ BootTasks \in 1 .. NUM_TASKS_MAX

ASSUME EnvironmentAssumption ==
    /\ \A r \in Requests : /\ r.flags \subseteq Flags
                           /\ r.dst \in Tasks \cup {NULL} /\ ("SEND" \in r.flags => r.dst # NULL)
                           /\ r.src \in Tasks \cup {IPC_ANY, IPC_DENY}
                           /\ r.type \in {"USER", "PAGE_FAULT_REPLY"}
    /\ UserBits \subseteq SUBSET Bits
    /\ MayCall \in [Traps -> SUBSET Tasks]
    \* The VM server is mapped eagerly and serves for ever.
    /\ VM \notin MayCall["exit"] \cup MayCall["page_fault"] \cup MayCall["copy_fault"]

VARIABLES
    state, destroyed, pager, ref_count, \* struct task, by task ID
    wait_for, notifications, timeout, m, senders,
    active_tasks, runqueue,             \* task.c: lists of tasks
    serial_readers, input,              \* printk.c: waiting readers, buffered characters
    irq_listener,                       \* interrupt.c: irq_listeners of one device
    current, quantum,                   \* per CPU: CURRENT_TASK and its remaining quantum
    lock,                               \* mp.c: the CPU that holds the big lock
    ipi_pending, ipi_wait,              \* per CPU: IPI to handle; CPUs still to answer its IPI
    pc, stack,                          \* per task: where it continues, and its kernel stack
    fault                               \* "panic" once halted, "list" once a list is corrupt

lifeVars == <<destroyed, pager, ref_count, active_tasks>>
devVars == <<timeout, serial_readers, input, irq_listener>>
ipcVars == <<wait_for, notifications, m, senders>>
schedVars == <<state, runqueue, current, quantum>>
ipiVars == <<ipi_pending, ipi_wait>>
ctlVars == <<pc, stack, lock>>
vars == <<lifeVars, devVars, ipcVars, schedVars, ipiVars, ctlVars, fault>>
-----------------------------------------------------------------------------
(* The arguments of the ipc() call a task is in.                           *)

IpcDst(t) == IF stack[t].call = "sys" THEN stack[t].dst ELSE pager[t]

IpcSrc(t) == IF stack[t].call = "sys" THEN stack[t].src ELSE pager[t]

\* As IpcFlags, with a last message that does not wait for the pager.
IpcFlagsHasty(t) ==
    CASE stack[t].call = "sys" -> stack[t].flags
      [] stack[t].call = "fault" -> {"SEND", "RECV", "KERNEL"}
      [] OTHER -> {"SEND", "NOBLOCK", "KERNEL"}

IpcFlags(t) ==
    CASE stack[t].call = "sys" -> stack[t].flags
      [] stack[t].call = "fault" -> {"SEND", "RECV", "KERNEL"}
      [] OTHER -> {"SEND", "KERNEL"}

IpcMessage(t) ==
    CASE stack[t].call = "sys" -> [type |-> stack[t].type, src |-> t, task |-> NULL]
      [] stack[t].call = "fault" -> [type |-> "PAGE_FAULT", src |-> FROM_KERNEL, task |-> t]
      [] OTHER -> [type |-> "EXCEPTION", src |-> FROM_KERNEL, task |-> t]

\* task_find: a live task by its ID, else NULL.  The ID NUM_TASKS_MAX is
\* refused although alloc_tid gives it out.
task_find(tid) == IF tid < NUM_TASKS_MAX /\ state[tid] # "UNUSED" THEN tid ELSE NULL

\* list_is_linked: t's wait-queue element is in some list, possibly one whose
\* head has been initialised again since (a sender of a task whose slot was
\* given to a new task).
Stale(t) == state[t] = "BLOCKED" /\ pc[t] = "sendwait" /\ t \notin Range(senders[IpcDst(t)])
Linked(t) == \/ t \in Range(runqueue) \/ t \in Range(serial_readers)
             \/ \E d \in Tasks : t \in Range(senders[d])
             \/ Stale(t)

\* task_resume and its assertions, those of list_push_back included.
CanResume(t) == state[t] = "BLOCKED" /\ ~Linked(t)

\* A failing assertion: panic, halt.
Panic == /\ fault' = "panic"
         /\ UNCHANGED <<lifeVars, devVars, ipcVars, schedVars, ipiVars, ctlVars>>
-----------------------------------------------------------------------------
(* Entering, moving through and leaving the kernel.                        *)

\* The task running on c in user mode traps into the kernel, which takes the lock.
Trap(c, t, what) ==
    /\ fault = "none" /\ lock = NoCpu
    /\ current[c] = t /\ t # Idle /\ pc[t] = "user"
    /\ t \in MayCall[what]

\* CPU c takes an interrupt: it idles or runs user code, and gets the lock.
Interruptible(c) ==
    /\ fault = "none" /\ lock = NoCpu
    /\ current[c] # Idle => pc[current[c]] = "user"

\* The task that runs on c, the holder of the lock, is at p.
At(c, t, p) ==
    /\ fault = "none" /\ lock = c
    /\ current[c] = t /\ t # Idle /\ pc[t] = p

\* As Goto, releasing the lock inside the kernel too.
GotoUnlocked(c, t, p) ==
    /\ pc' = [pc EXCEPT ![t] = p]
    /\ lock' = NoCpu

\* Task t, running on c, goes on at p; a return to user mode releases the lock.
Goto(c, t, p) ==
    /\ pc' = [pc EXCEPT ![t] = p]
    /\ lock' = IF p = "user" THEN NoCpu ELSE c

\* memcpy_from_user, memcpy_to_user: go on at p with the frame f, or fault on
\* the way and call the pager first.
UserCopy(c, t, p, f) ==
    \/ /\ Goto(c, t, p)
       /\ stack' = [stack EXCEPT ![t] = IF p = "user" THEN NoFrame ELSE f]
    \/ /\ t \in MayCall["copy_fault"]
       /\ Goto(c, t, "send")
       /\ stack' = [stack EXCEPT ![t] = [f EXCEPT !.call = "fault", !.ret = p]]

\* As scheduler, but the running task goes on even if it has blocked.
SchedulerIgnoresState(c, st, rq) ==
    IF rq # <<>> THEN Head(rq) ELSE current[c]

\* scheduler: the next task for CPU c, given the task states and run queue.
scheduler(c, st, rq) ==
    IF rq # <<>> THEN Head(rq)
    ELSE IF current[c] # Idle /\ st[current[c]] = "RUNNABLE" /\ ~destroyed[current[c]]
         THEN current[c]
         ELSE Idle

\* task_switch on CPU c, after updates that gave the states st, the run queue
\* rq and the places p.  A task that has a kernel continuation inherits the
\* lock; user mode and the idle task release it.
task_switch(c, st, rq, p) ==
    LET prev == current[c]
        next == scheduler(c, st, rq)
        rest == IF rq # <<>> THEN Tail(rq) ELSE rq
    IN  /\ state' = st
        /\ pc' = p
        /\ current' = [current EXCEPT ![c] = next]
        /\ quantum' = [quantum EXCEPT ![c] = IF next = Idle THEN 0 ELSE TASK_QUANTUM]
        /\ runqueue' = IF next # prev /\ prev # Idle /\ st[prev] = "RUNNABLE"
                       THEN Append(rest, prev) ELSE rest
        /\ lock' = IF next # Idle /\ p[next] # "user" THEN c ELSE NoCpu

\* task_block(CURRENT_TASK) at place p, then task_switch; st and rq as above.
BlockAt(c, t, p, st, rq) ==
    task_switch(c, [st EXCEPT ![t] = "BLOCKED"], rq, [pc EXCEPT ![t] = p])

\* task_exit up to its call of ipc().
StartExit(c, t) ==
    /\ stack' = [stack EXCEPT ![t] = [NoFrame EXCEPT !.call = "exit"]]
    /\ Goto(c, t, "send")

\* The ipc() call of t returns.  To the system call: back to user mode.  To
\* task_exit: on to the end.  To handle_page_fault: back to where the fault
\* happened if the pager gave a proper reply, else the task exits.
ReturnFromIpc(c, t, ok) ==
    \/ /\ stack[t].call = "sys"
       /\ Goto(c, t, "user")
       /\ stack' = [stack EXCEPT ![t] = NoFrame]
    \/ /\ stack[t].call = "exit"
       /\ Goto(c, t, "exit")
       /\ stack' = stack
    \/ /\ stack[t].call = "fault"
       /\ ok /\ m[t].type = "PAGE_FAULT_REPLY"
       /\ Goto(c, t, stack[t].ret)
       /\ stack' = [stack EXCEPT ![t] = IF stack[t].ret = "user" THEN NoFrame
                                        ELSE [stack[t] EXCEPT !.call = "sys", !.ret = "user"]]
    \/ /\ stack[t].call = "fault"
       /\ ~(ok /\ m[t].type = "PAGE_FAULT_REPLY")
       /\ StartExit(c, t)
-----------------------------------------------------------------------------
(* Message passing (kernel/ipc.c).                                         *)

\* sys_ipc: check the flags and the task IDs; send_message refuses the caller as
\* its own destination and then copies the message in.
sys_ipc(c) ==
    \E t \in Tasks, r \in Requests :
        LET f == [NoFrame EXCEPT !.call = "sys", !.dst = r.dst, !.src = r.src,
                                 !.flags = r.flags, !.type = r.type]
        IN  /\ Trap(c, t, "ipc")
            /\ "KERNEL" \notin r.flags /\ r.src # IPC_DENY
            /\ \/ /\ "SEND" \in r.flags
                  /\ task_find(r.dst) # NULL /\ r.dst # t
                  /\ UserCopy(c, t, "send", f)
               \/ /\ "SEND" \notin r.flags /\ "RECV" \in r.flags
                  /\ Goto(c, t, "recv")
                  /\ stack' = [stack EXCEPT ![t] = f]
            /\ UNCHANGED <<lifeVars, devVars, ipcVars, schedVars, ipiVars, fault>>

\* The end of send_message: copy the message into dst and resume it.  Then
\* ipc() goes on to the receive part, if there is one.
Deliver(c, t, dst) ==
    IF CanResume(dst)
    THEN /\ m' = [m EXCEPT ![dst] = IpcMessage(t)]
         /\ state' = [state EXCEPT ![dst] = "RUNNABLE"]
         /\ runqueue' = Append(runqueue, dst)
         /\ IF "RECV" \in IpcFlags(t)
            THEN Goto(c, t, "recv") /\ stack' = stack
            ELSE ReturnFromIpc(c, t, TRUE)
         /\ UNCHANGED <<lifeVars, devVars, wait_for, notifications, senders,
                        current, quantum, ipiVars, fault>>
    ELSE Panic

\* As Ready, without the check of the task state.
ReadyNoState(dst, t) == wait_for[dst] \in {IPC_ANY, t}

\* As Ready, without the check that dst accepts a message from t.
ReadyAnyone(dst, t) == state[dst] = "BLOCKED" /\ wait_for[dst] # IPC_DENY

\* As Ready, but only for open receives.
ReadyOpenOnly(dst, t) == state[dst] = "BLOCKED" /\ wait_for[dst] = IPC_ANY

\* dst waits for a message that t may send.
Ready(dst, t) == state[dst] = "BLOCKED" /\ wait_for[dst] \in {IPC_ANY, t}

\* As DeadLock, always passed.
NeverDeadLock(t, dst) == FALSE

\* The deadlock check of send_message: dst is itself blocked in a send to t.
DeadLock(t, dst) == dst \in Range(senders[t])

\* send_message, after the message has been copied in.
send_message(c) ==
    \E t \in Tasks :
        LET dst == IpcDst(t)
        IN  /\ At(c, t, "send")
            /\ \/ /\ Ready(dst, t)
                  /\ Deliver(c, t, dst)
               \/ \* ERR_WOULD_BLOCK, or ERR_DEAD_LOCK.
                  /\ ~Ready(dst, t)
                  /\ "NOBLOCK" \in IpcFlags(t) \/ DeadLock(t, dst)
                  /\ ReturnFromIpc(c, t, FALSE)
                  /\ UNCHANGED <<lifeVars, devVars, ipcVars, schedVars, ipiVars, fault>>
               \/ /\ ~Ready(dst, t)
                  /\ "NOBLOCK" \notin IpcFlags(t) /\ ~DeadLock(t, dst)
                  /\ senders' = [senders EXCEPT ![dst] = Append(@, t)]
                  /\ BlockAt(c, t, "sendwait", state, runqueue)
                  /\ UNCHANGED <<lifeVars, devVars, wait_for, notifications, m, stack,
                                 ipiVars, fault>>

\* As Aborted, for any pending notification.
AbortedByAny(t) == notifications[t] # {}

\* The check of send_message after task_switch.
Aborted(t) == "ABORTED" \in notifications[t]

\* send_message, resumed by the receiver: the send was aborted, or delivers.
send_resumed(c) ==
    \E t \in Tasks :
        /\ At(c, t, "sendwait")
        /\ \/ /\ Aborted(t)
              /\ notifications' = [notifications EXCEPT ![t] = @ \ {"ABORTED"}]
              /\ ReturnFromIpc(c, t, FALSE)
              /\ UNCHANGED <<lifeVars, devVars, wait_for, m, senders, schedVars, ipiVars, fault>>
           \/ /\ ~Aborted(t)
              /\ Deliver(c, t, IpcDst(t))

\* The queued senders of t that a receive from src accepts, by position.
Matching(t, src) ==
    {i \in DOMAIN senders[t] : src = IPC_ANY \/ senders[t][i] = src}

\* As IsFirst, for the sender that came last.
IsLast(i, S) == \A j \in S : j <= i

\* The position of the first of the matching senders.
IsFirst(i, S) == \A j \in S : i <= j

\* recv_message up to task_switch: take pending notifications, or resume the
\* first matching sender, then wait for that sender only (or for src).
recv_message(c) ==
    \E t \in Tasks :
        LET src == IpcSrc(t)
            notified == src = IPC_ANY /\ notifications[t] # {}
        IN  /\ At(c, t, "recv")
            /\ \/ /\ notified
                  /\ notifications' = [notifications EXCEPT ![t] = {}]
                  /\ UserCopy(c, t, "user", stack[t])
                  /\ UNCHANGED <<lifeVars, devVars, wait_for, m, senders, schedVars,
                                 ipiVars, fault>>
               \/ /\ ~notified /\ "NOBLOCK" \in IpcFlags(t)
                  /\ ReturnFromIpc(c, t, FALSE)
                  /\ UNCHANGED <<lifeVars, devVars, ipcVars, schedVars, ipiVars, fault>>
               \/ /\ ~notified /\ "NOBLOCK" \notin IpcFlags(t)
                  /\ Matching(t, src) = {}
                  /\ wait_for' = [wait_for EXCEPT ![t] = src]
                  /\ BlockAt(c, t, "recvwait", state, runqueue)
                  /\ UNCHANGED <<lifeVars, devVars, notifications, m, senders, stack,
                                 ipiVars, fault>>
               \/ /\ ~notified /\ "NOBLOCK" \notin IpcFlags(t)
                  /\ \E i \in Matching(t, src) :
                        LET sender == senders[t][i]
                        IN  /\ IsFirst(i, Matching(t, src))
                            /\ senders' = [senders EXCEPT ![t] = Without(@, sender)]
                            /\ wait_for' = [wait_for EXCEPT ![t] = sender]
                            /\ BlockAt(c, t, "recvwait",
                                       [state EXCEPT ![sender] = "RUNNABLE"],
                                       Append(runqueue, sender))
                  /\ UNCHANGED <<lifeVars, devVars, notifications, m, stack, ipiVars, fault>>

\* As Received, without the reset.
StillWaiting(t) == wait_for

\* After its receive a task accepts no message.
Received(t) == [wait_for EXCEPT ![t] = IPC_DENY]

\* recv_message, resumed with a message in m: copy it out.
recv_resumed(c) ==
    \E t \in Tasks :
        /\ At(c, t, "recvwait")
        /\ wait_for' = Received(t)
        /\ IF "KERNEL" \in IpcFlags(t)
           THEN ReturnFromIpc(c, t, TRUE)
           ELSE UserCopy(c, t, "user", stack[t])
        /\ UNCHANGED <<lifeVars, devVars, notifications, m, senders, schedVars, ipiVars, fault>>

\* As OpenReceive, without the check of the task state.
OpenReceiveNoState(t) == wait_for[t] = IPC_ANY

\* As OpenReceive, for a task blocked in anything.
AnyBlocked(t) == state[t] = "BLOCKED"

\* As OpenReceive, never: the bits are always kept.
NotifyKeepsBits(t) == FALSE

\* The check of notify: t is blocked in an open receive.
OpenReceive(t) == state[t] = "BLOCKED" /\ wait_for[t] = IPC_ANY

\* notify: deliver at once to a task in an open receive, else keep the bits.
notify(dst, bits) ==
    IF OpenReceive(dst)
    THEN /\ m' = [m EXCEPT ![dst] = [type |-> "NOTIFY", src |-> FROM_KERNEL, task |-> NULL]]
         /\ notifications' = [notifications EXCEPT ![dst] = {}]
         /\ state' = [state EXCEPT ![dst] = "RUNNABLE"]
         /\ runqueue' = Append(runqueue, dst)
    ELSE /\ notifications' = [notifications EXCEPT ![dst] = @ \cup bits]
         /\ UNCHANGED <<m, state, runqueue>>

sys_notify(c) ==
    \E t \in Tasks, dst \in Tasks, bits \in UserBits :
        /\ Trap(c, t, "notify")
        /\ task_find(dst) # NULL
        /\ notify(dst, bits)
        /\ UNCHANGED <<lifeVars, devVars, wait_for, senders, current, quantum, ipiVars,
                       ctlVars, fault>>
-----------------------------------------------------------------------------
(* Page faults, exit, creation and destruction of tasks.                   *)

\* handle_page_fault_trap in user mode: call the pager, or exit if the address
\* can never be mapped.
page_fault(c) ==
    \E t \in Tasks :
        /\ Trap(c, t, "page_fault")
        /\ \/ /\ stack' = [stack EXCEPT ![t].call = "fault"]
              /\ Goto(c, t, "send")
           \/ StartExit(c, t)
        /\ UNCHANGED <<lifeVars, devVars, ipcVars, schedVars, ipiVars, fault>>

\* sys_task_exit, and the exceptions that end a task.
sys_task_exit(c) ==
    \E t \in Tasks :
        /\ Trap(c, t, "exit")
        /\ StartExit(c, t)
        /\ UNCHANGED <<lifeVars, devVars, ipcVars, schedVars, ipiVars, fault>>

\* The end of task_exit: block for ever, until the pager destroys the task.
exit_block(c) ==
    \E t \in Tasks :
        /\ At(c, t, "exit")
        /\ BlockAt(c, t, "dead", state, runqueue)
        /\ UNCHANGED <<lifeVars, devVars, ipcVars, stack, ipiVars, fault>>

\* sys_task_create: copy the name in.
sys_task_create(c) ==
    \E t, p \in Tasks :
        /\ Trap(c, t, "create")
        /\ UserCopy(c, t, "create", [NoFrame EXCEPT !.call = "sys", !.dst = p])
        /\ UNCHANGED <<lifeVars, devVars, ipcVars, schedVars, ipiVars, fault>>

\* alloc_tid: the lowest unused task ID, or 0.
alloc_tid ==
    IF \E i \in Tasks : state[i] = "UNUSED"
    THEN CHOOSE i \in Tasks : /\ state[i] = "UNUSED"
                              /\ \A j \in Tasks : state[j] = "UNUSED" => i <= j
    ELSE 0

\* The fields init_task_struct sets in slot i before it can fail.  It leaves
\* notifications and m alone.
InitFields(i, p) ==
    /\ destroyed' = [destroyed EXCEPT ![i] = FALSE]
    /\ timeout' = [timeout EXCEPT ![i] = 0]
    /\ wait_for' = [wait_for EXCEPT ![i] = IPC_DENY]
    /\ pager' = [pager EXCEPT ![i] = p]
    /\ senders' = [senders EXCEPT ![i] = <<>>]

\* task_create for the pager p of the frame: no such pager or no slot left; out
\* of memory half-way; or a new runnable task.
task_create(c) ==
    \E t \in Tasks :
        LET p == task_find(stack[t].dst)
            i == alloc_tid
        IN  /\ At(c, t, "create")
            /\ \/ /\ p = NULL \/ i = 0
                  /\ UNCHANGED <<lifeVars, ipcVars, schedVars, timeout>>
               \/ /\ p # NULL /\ i # 0
                  /\ InitFields(i, p)
                  /\ ref_count' = [ref_count EXCEPT ![i] = 0]
                  /\ UNCHANGED <<active_tasks, notifications, m, schedVars>>
               \/ /\ p # NULL /\ i # 0
                  /\ InitFields(i, p)
                  /\ ref_count' = [ref_count EXCEPT ![i] = 0, ![p] = @ + 1]
                  /\ state' = [state EXCEPT ![i] = "RUNNABLE"]
                  /\ active_tasks' = Append(active_tasks, i)
                  /\ runqueue' = Append(runqueue, i)
                  /\ UNCHANGED <<notifications, m, current, quantum>>
            /\ Goto(c, t, "user")
            /\ stack' = [stack EXCEPT ![t] = NoFrame]
            /\ UNCHANGED <<serial_readers, input, irq_listener, ipiVars, fault>>

\* sys_task_destroy and the assertion and checks of task_destroy; then its loop
\* starts.
sys_task_destroy(c) ==
    \E t, victim \in Tasks :
        /\ Trap(c, t, "destroy")
        /\ task_find(victim) # NULL /\ victim # t
        /\ IF ref_count[victim] < 0
           THEN Panic
           ELSE /\ victim # VM /\ ref_count[victim] = 0
                /\ destroyed' = [destroyed EXCEPT ![victim] = TRUE]
                /\ stack' = [stack EXCEPT ![t] = [NoFrame EXCEPT !.call = "sys", !.dst = victim]]
                /\ Goto(c, t, "destroy")
                /\ UNCHANGED <<pager, ref_count, active_tasks, devVars, ipcVars, schedVars,
                               ipiVars, fault>>

\* As NotRunning, taken for granted.
AssumeNotRunning(v) == TRUE

\* The victim is not running on any CPU, as the loop of task_destroy decides it.
NotRunning(v) == state[v] # "RUNNABLE" \/ v \in Range(runqueue)

\* As Unref, for the task instead of its pager.
UnrefSelf(v) == [ref_count EXCEPT ![v] = @ - 1]

\* The pager of a destroyed task loses a reference.
Unref(v) == [ref_count EXCEPT ![pager[v]] = @ - 1]

\* The rest of task_destroy(v), called by t: notify the senders, unlink and free
\* v, return.  Unlinking a stale element writes through dangling links.
Reap(t, v) ==
    IF Stale(v)
    THEN /\ fault' = "list"
         /\ UNCHANGED <<lifeVars, devVars, ipcVars, schedVars, ipiVars, ctlVars>>
    ELSE /\ notifications' = [s \in Tasks |-> IF s \in Range(senders[v])
                                              THEN notifications[s] \cup {"ABORTED"}
                                              ELSE notifications[s]]
         /\ active_tasks' = Without(active_tasks, v)
         /\ runqueue' = Without(runqueue, v)
         /\ serial_readers' = Without(serial_readers, v)
         /\ senders' = [d \in Tasks |-> Without(senders[d], v)]
         /\ state' = [state EXCEPT ![v] = "UNUSED"]
         /\ ref_count' = Unref(v)
         /\ pc' = [pc EXCEPT ![t] = "user", ![v] = "user"]
         /\ stack' = [stack EXCEPT ![t] = NoFrame, ![v] = NoFrame]
         /\ lock' = NoCpu
         /\ UNCHANGED <<destroyed, pager, timeout, input, irq_listener, wait_for, m,
                        current, quantum, ipiVars, fault>>

\* One round of task_destroy's loop: finish, or send IPI_RESCHEDULE to the
\* other CPUs (arch_send_ipi) and release the lock to wait for them.
task_destroy(c) ==
    \E t \in Tasks :
        LET v == stack[t].dst
        IN  /\ At(c, t, "destroy")
            /\ \/ /\ NotRunning(v)
                  /\ Reap(t, v)
               \/ /\ ~NotRunning(v)
                  /\ ipi_pending' = [d \in CPUs |-> d # c \/ ipi_pending[d]]
                  /\ ipi_wait' = [ipi_wait EXCEPT ![c] = CPUs \ {c}]
                  /\ pc' = [pc EXCEPT ![t] = "ipiwait"]
                  /\ lock' = NoCpu
                  /\ UNCHANGED <<lifeVars, devVars, ipcVars, schedVars, stack, fault>>

\* The CPU arch_send_ipi waits for next: they are taken in hart order.
Awaited(c) == CHOOSE d \in ipi_wait[c] : \A e \in ipi_wait[c] : d <= e

\* arch_send_ipi sees, without the lock, that the awaited CPU has no IPI pending.
ipi_seen(c) ==
    \E t \in Tasks :
        /\ fault = "none" /\ current[c] = t /\ pc[t] = "ipiwait"
        /\ ~ipi_pending[Awaited(c)]
        /\ pc' = [pc EXCEPT ![t] = "ipilock"]
        /\ UNCHANGED <<lifeVars, devVars, ipcVars, schedVars, ipiVars, stack, lock, fault>>

\* arch_send_ipi takes the lock again, and waits for the next CPU or returns to
\* the loop of task_destroy.
ipi_relock(c) ==
    \E t \in Tasks :
        LET rest == ipi_wait[c] \ {Awaited(c)}
        IN  /\ fault = "none" /\ lock = NoCpu /\ current[c] = t /\ pc[t] = "ipilock"
            /\ ipi_wait' = [ipi_wait EXCEPT ![c] = rest]
            /\ IF rest = {} THEN Goto(c, t, "destroy")
                            ELSE pc' = [pc EXCEPT ![t] = "ipiwait"] /\ lock' = lock
            /\ UNCHANGED <<lifeVars, devVars, ipcVars, schedVars, ipi_pending, stack, fault>>
-----------------------------------------------------------------------------
(* Interrupts, devices and idling.                                         *)

\* sys_time: arm or disarm the caller's timeout.
sys_time(c) ==
    \E t \in Tasks, n \in 0 .. MaxTimeout :
        /\ Trap(c, t, "time")
        /\ timeout' = [timeout EXCEPT ![t] = n]
        /\ UNCHANGED <<lifeVars, serial_readers, input, irq_listener, ipcVars, schedVars,
                       ipiVars, ctlVars, fault>>

\* The tasks whose timeout runs out within the ticks; CPU 0 keeps the timeouts.
Expired(c, ticks) ==
    IF c = 0 THEN {t \in Range(active_tasks) : timeout[t] \in 1 .. ticks} ELSE {}

\* As MinusTicks, without MIN.
MinusTicksUnclamped(n, ticks) == n - ticks

\* As MinusTicks, with no tick counted.
NoTicks(n, ticks) == n

\* What the ticks leave of a quantum or a timeout.
MinusTicks(n, ticks) == IF n > ticks THEN n - ticks ELSE 0

\* handle_timer_interrupt, after any IPI (they share a handler): notify the tasks
\* that timed out, in the order of active_tasks, and preempt the running task
\* when its quantum is used up.
timer_interrupt(c) ==
    \E ticks \in 1 .. MaxTicks :
        LET expired == Expired(c, ticks)
            woken == {t \in expired : OpenReceive(t)}
            st == [t \in Tasks |-> IF t \in woken THEN "RUNNABLE" ELSE state[t]]
            left == MinusTicks(quantum[c], ticks)
        IN  /\ "timer" \in Events /\ Interruptible(c) /\ ~ipi_pending[c]
            /\ timeout' = [t \in Tasks |-> IF c = 0 /\ t \in Range(active_tasks)
                                           THEN MinusTicks(timeout[t], ticks) ELSE timeout[t]]
            /\ m' = [t \in Tasks |-> IF t \in woken
                                     THEN [type |-> "NOTIFY", src |-> FROM_KERNEL, task |-> NULL]
                                     ELSE m[t]]
            /\ notifications' =
                  [t \in Tasks |-> IF t \in woken THEN {}
                                   ELSE IF t \in expired THEN notifications[t] \cup {"TIMER"}
                                   ELSE notifications[t]]
            /\ \E q \in Enumerations(woken, active_tasks) :
                   IF left = 0
                   THEN task_switch(c, st, runqueue \o q, pc)
                   ELSE /\ state' = st /\ runqueue' = runqueue \o q
                        /\ quantum' = [quantum EXCEPT ![c] = left]
                        /\ UNCHANGED <<current, pc, lock>>
            /\ UNCHANGED <<lifeVars, serial_readers, input, irq_listener, wait_for, senders,
                           ipiVars, stack, fault>>

\* handle_soft_interrupt_trap for an IPI_RESCHEDULE.
ipi_interrupt(c) ==
    /\ Interruptible(c) /\ ipi_pending[c]
    /\ ipi_pending' = [ipi_pending EXCEPT ![c] = FALSE]
    /\ task_switch(c, state, runqueue, pc)
    /\ UNCHANGED <<lifeVars, devVars, ipcVars, ipi_wait, stack, fault>>

\* The loop of the idle task: it wakes up and looks for work.
idle_task(c) ==
    /\ Interruptible(c) /\ current[c] = Idle /\ runqueue # <<>>
    /\ task_switch(c, state, runqueue, pc)
    /\ UNCHANGED <<lifeVars, devVars, ipcVars, ipiVars, stack, fault>>

\* sys_irq_listen and sys_irq_unlisten for the modelled device.
sys_irq(c) ==
    \E t \in Tasks :
        /\ Trap(c, t, "irq")
        /\ \/ irq_listener = NULL /\ irq_listener' = t
           \/ irq_listener = t /\ irq_listener' = NULL
        /\ UNCHANGED <<lifeVars, timeout, serial_readers, input, ipcVars, schedVars, ipiVars,
                       ctlVars, fault>>

\* handle_interrupt for the modelled device.
device_interrupt(c) ==
    /\ "irq" \in Events /\ Interruptible(c) /\ irq_listener # NULL
    /\ notify(irq_listener, {"IRQ"})
    /\ UNCHANGED <<lifeVars, devVars, wait_for, senders, current, quantum, ipiVars,
                   ctlVars, fault>>

\* As ReadersToResume, only the first.
FirstReader == IF serial_readers = <<>> THEN <<>> ELSE <<Head(serial_readers)>>

\* The readers the interrupt resumes: all.
ReadersToResume == serial_readers

\* handle_serial_interrupt: buffer a character (or none, for Ctrl-P), dropping
\* the oldest when full, and resume every waiting reader.
serial_interrupt(c) ==
    /\ "serial" \in Events /\ Interruptible(c)
    /\ \E n \in {0, 1} : input' = IF input + n > InputMax THEN InputMax ELSE input + n
    /\ serial_readers' = <<>>
    /\ state' = [t \in Tasks |-> IF t \in Range(ReadersToResume) THEN "RUNNABLE" ELSE state[t]]
    /\ runqueue' = runqueue \o ReadersToResume
    /\ UNCHANGED <<lifeVars, timeout, irq_listener, ipcVars, current, quantum, ipiVars,
                   ctlVars, fault>>

sys_serial_read(c) ==
    \E t \in Tasks :
        /\ Trap(c, t, "serial_read")
        /\ stack' = [stack EXCEPT ![t] = [NoFrame EXCEPT !.call = "sys"]]
        /\ Goto(c, t, "serial")
        /\ UNCHANGED <<lifeVars, devVars, ipcVars, schedVars, ipiVars, fault>>

\* The loop of serial_read: read what is buffered, at most the caller's buffer,
\* and copy it out; or wait for the serial interrupt and look again.
serial_read(c) ==
    \E t \in Tasks :
        /\ At(c, t, "serial")
        /\ \/ /\ input > 0
              /\ \E n \in 1 .. input : input' = input - n
              /\ UserCopy(c, t, "user", stack[t])
              /\ UNCHANGED <<serial_readers, schedVars>>
           \/ /\ input = 0
              /\ serial_readers' = Append(serial_readers, t)
              /\ BlockAt(c, t, "serial", state, runqueue)
              /\ UNCHANGED <<input, stack>>
        /\ UNCHANGED <<lifeVars, timeout, irq_listener, ipcVars, ipiVars, fault>>

\* halt(): every CPU sleeps for ever.
halt == fault # "none" /\ UNCHANGED vars
-----------------------------------------------------------------------------
\* CPU 0 runs the VM server, which has just created the other boot tasks.
Init ==
    LET boot == 1 .. BootTasks
    IN  /\ state = [t \in Tasks |-> IF t \in boot THEN "RUNNABLE" ELSE "UNUSED"]
        /\ destroyed = [t \in Tasks |-> FALSE]
        /\ pager = [t \in Tasks |-> IF t \in boot \ {VM} THEN VM ELSE NULL]
        /\ ref_count = [t \in Tasks |-> IF t = VM THEN BootTasks - 1 ELSE 0]
        /\ wait_for = [t \in Tasks |-> IPC_DENY]
        /\ notifications = [t \in Tasks |-> {}]
        /\ timeout = [t \in Tasks |-> 0]
        /\ m = [t \in Tasks |-> [type |-> "USER", src |-> FROM_KERNEL, task |-> NULL]]
        /\ senders = [t \in Tasks |-> <<>>]
        /\ active_tasks = [i \in boot |-> i]
        /\ runqueue = [i \in 1 .. BootTasks - 1 |-> i + 1]
        /\ serial_readers = <<>> /\ input = 0 /\ irq_listener = NULL
        /\ current = [c \in CPUs |-> IF c = 0 THEN VM ELSE Idle]
        /\ quantum = [c \in CPUs |-> IF c = 0 THEN TASK_QUANTUM ELSE 0]
        /\ lock = NoCpu
        /\ ipi_pending = [c \in CPUs |-> FALSE]
        /\ ipi_wait = [c \in CPUs |-> {}]
        /\ pc = [t \in Tasks |-> "user"]
        /\ stack = [t \in Tasks |-> NoFrame]
        /\ fault = "none"

\* The kernel goes on on CPU c, which holds the lock.
KernelStep(c) ==
    \/ send_message(c) \/ send_resumed(c) \/ recv_message(c) \/ recv_resumed(c)
    \/ exit_block(c) \/ task_create(c) \/ task_destroy(c) \/ serial_read(c)

\* A task running on c makes a system call or faults.
User(c) ==
    \/ sys_ipc(c) \/ sys_notify(c) \/ page_fault(c) \/ sys_task_exit(c) \/ sys_task_create(c)
    \/ sys_task_destroy(c) \/ sys_time(c) \/ sys_irq(c) \/ sys_serial_read(c)

Next ==
    \/ \E c \in CPUs : \/ KernelStep(c) \/ User(c)
                       \/ ipi_seen(c) \/ ipi_relock(c) \/ ipi_interrupt(c)
                       \/ timer_interrupt(c) \/ idle_task(c)
                       \/ device_interrupt(c) \/ serial_interrupt(c)
    \/ halt

Spec == Init /\ [][Next]_vars

\* The CPU that is in the kernel goes on, an idle CPU that is woken looks for
\* work, and a pending timer interrupt is taken when the CPU leaves the kernel.
Fairness ==
    \A c \in CPUs : /\ WF_vars(KernelStep(c)) /\ WF_vars(idle_task(c))
                    /\ SF_vars(timer_interrupt(c))

FairSpec == Spec /\ Fairness
-----------------------------------------------------------------------------
(* Properties.                                                             *)

TypeOK ==
    /\ state \in [Tasks -> States]
    /\ destroyed \in [Tasks -> BOOLEAN]
    /\ pager \in [Tasks -> Tasks \cup {NULL}]
    /\ ref_count \in [Tasks -> Int]
    /\ wait_for \in [Tasks -> Tasks \cup {IPC_ANY, IPC_DENY}]
    /\ notifications \in [Tasks -> SUBSET Bits]
    /\ timeout \in [Tasks -> Nat]
    /\ m \in [Tasks -> Messages]
    /\ senders \in [Tasks -> Seq(Tasks)]
    /\ active_tasks \in Seq(Tasks)
    /\ runqueue \in Seq(Tasks)
    /\ serial_readers \in Seq(Tasks)
    /\ input \in 0 .. InputMax
    /\ irq_listener \in Tasks \cup {NULL}
    /\ current \in [CPUs -> Tasks \cup {Idle}]
    /\ quantum \in [CPUs -> 0 .. TASK_QUANTUM]
    /\ lock \in CPUs \cup {NoCpu}
    /\ ipi_pending \in [CPUs -> BOOLEAN]
    /\ ipi_wait \in [CPUs -> SUBSET CPUs]
    /\ pc \in [Tasks -> Places]
    /\ stack \in [Tasks -> Frames]
    /\ fault \in {"none", "panic", "list"}

\* No task is lost by the scheduler or given to it twice: a task is runnable
\* exactly when it is on the run queue, once, or runs on one CPU, never both
\* (task_resume, task_switch and task_destroy on the shared run queue).
RunnableOnce ==
    /\ IsInjective(runqueue)
    /\ \A t \in Range(runqueue) : state[t] = "RUNNABLE" /\ t \notin Range(current)
    /\ \A c, d \in CPUs : current[c] = current[d] /\ current[c] # Idle => c = d
    /\ \A t \in Tasks : /\ t \in Range(current) => state[t] = "RUNNABLE"
                        /\ state[t] = "RUNNABLE" => t \in Range(runqueue) \cup Range(current)

\* A task on a wait list is blocked in the wait that list is for, and is listed
\* once; so no task is on two lists, which are all chained through the one field
\* waitqueue_next (send_message, recv_message, serial_read, task_destroy).
WaitsInOneQueue ==
    /\ \A d \in Tasks : /\ IsInjective(senders[d])
                        /\ \A s \in Range(senders[d]) : /\ state[s] = "BLOCKED" /\ pc[s] = "sendwait"
                                                        /\ IpcDst(s) = d /\ wait_for[s] = IPC_DENY
    /\ IsInjective(serial_readers)
    /\ \A t \in Range(serial_readers) : state[t] = "BLOCKED" /\ pc[t] = "serial"

\* A task accepts messages only while it is in a receive, so that neither notify
\* nor send_message, which look at wait_for, wakes a task that waits for something
\* else: a receiver, the console or its own end (recv_message, init_task_struct).
AcceptsOnlyInReceive ==
    \A t \in Tasks : state[t] # "UNUSED" /\ wait_for[t] # IPC_DENY => pc[t] = "recvwait"

\* The big lock: a CPU in kernel code holds the lock, and the tasks that are not
\* running left the kernel at task_switch or were preempted in user mode.
KernelLocked ==
    /\ \A c \in CPUs : current[c] # Idle => pc[current[c]] \in {"user"} \cup Spins \/ lock = c
    /\ \A t \in Tasks : t \notin Range(current) => pc[t] \in {"user"} \cup Waits

\* No wake-up is lost: a task blocked in a receive has no message or notification
\* that the receive would have taken (send_message and notify look at the receiver
\* before it blocks, recv_message looks at its queue before it waits).
NoLostWakeup ==
    \A t \in Tasks :
        state[t] = "BLOCKED" /\ pc[t] = "recvwait" =>
            IF wait_for[t] = IPC_ANY
            THEN senders[t] = <<>> /\ notifications[t] = {}
            ELSE wait_for[t] \notin Range(senders[t])

\* A receiver that chose one of its senders (recv_message narrows wait_for to it)
\* waits for a task that is about to deliver to it.
HandOff ==
    \A t \in Tasks :
        state[t] = "BLOCKED" /\ pc[t] = "recvwait" /\ IpcSrc(t) = IPC_ANY /\ wait_for[t] # IPC_ANY =>
            /\ state[wait_for[t]] = "RUNNABLE" /\ pc[wait_for[t]] = "sendwait"
            /\ IpcDst(wait_for[t]) = t

\* A task that receives from one task only gets a message that task sent, or that
\* the kernel sent for it: a server's reply and a pager's reply to a page fault
\* cannot be confused with anybody else's message or with a notification.
ClosedReceive ==
    \A t \in Tasks :
        state[t] = "RUNNABLE" /\ pc[t] = "recvwait" /\ IpcSrc(t) # IPC_ANY =>
            \/ m[t].src = IpcSrc(t)
            \/ m[t].src = FROM_KERNEL /\ m[t].task = IpcSrc(t)

\* send_message never lets two tasks block in sends to each other.
NoMutualSend ==
    \A a, b \in Tasks : ~(a \in Range(senders[b]) /\ b \in Range(senders[a]))

\* A task that reached the end of task_exit never runs again: the code after it
\* is UNREACHABLE().
ExitIsFinal == \A t \in Tasks : pc[t] = "dead" => state[t] = "BLOCKED"

\* A task comes to the end of task_exit only when its pager has been handed the
\* message that asks it to destroy the task.
ExitReported ==
    [][\A t \in Tasks : pc[t] # "exit" /\ pc'[t] = "exit" =>
           m'[pager[t]] = [type |-> "EXCEPTION", src |-> FROM_KERNEL, task |-> t]]_vars

\* No reader of the console sleeps while there are characters for it (serial_read
\* looks at the buffer before it blocks, the interrupt wakes every reader).
ReaderNotForgotten ==
    \A t \in Tasks : state[t] = "BLOCKED" /\ pc[t] = "serial" => input = 0 /\ t \in Range(serial_readers)

\* No assertion of the kernel fails and no list is corrupted.
NoPanic == fault = "none"

\* No assertion of the kernel fails: send_message resumes a blocked task.
AssertionsHold == fault # "panic"

\* The reference count of a task is the number of live tasks it is the pager of,
\* and the pager of a live task is alive (init_task_struct, task_destroy).
PagersCounted ==
    /\ \A p \in Tasks : ref_count[p] = IF state[p] = "UNUSED" THEN 0 ELSE
                            Cardinality({t \in Tasks : state[t] # "UNUSED" /\ pager[t] = p})
    /\ \A t \in Tasks \ {VM} : state[t] # "UNUSED" => pager[t] # NULL /\ state[pager[t]] # "UNUSED"

\* The message buffer of a task is written only while the task waits for a
\* message, so a message is never overwritten before it is copied out.
MessageNotOverwritten ==
    [][\A t \in Tasks : m'[t] # m[t] => /\ state[t] = "BLOCKED" /\ pc[t] = "recvwait"
                                        /\ state'[t] = "RUNNABLE"]_vars

\* A runnable task eventually runs (or is destroyed): the round robin of
\* task_switch and the preemption by the timer starve nobody.
NoStarvation ==
    \A t \in Tasks : state[t] = "RUNNABLE" ~> (t \in Range(current) \/ state[t] # "RUNNABLE")

\* A task blocked in a send to the VM server gets to deliver its message: the
\* queue of senders is served in order.
SendsComplete ==
    \A t \in Tasks : (pc[t] = "sendwait" /\ IpcDst(t) = VM) ~> pc[t] # "sendwait"

\* A message reaches the task it is meant for: a sender that was picked gets to deliver it
\* to the receiver that picked it (ipc.c:102), and a closed receive gets nothing else.
DeliverySound == HandOff /\ ClosedReceive

\* What the scheduler and the wait queues owe every task, whoever is preempted, destroyed or
\* created in between: the runnable are queued or running once, the waiting wait in one
\* queue, and no one sleeps through what it waits for.
ScheduleSound == RunnableOnce /\ WaitsInOneQueue /\ NoLostWakeup

\* The same among interrupts of the console, the timer and a device, and none of them makes
\* an assertion of the kernel fail.
DevicesSound == ScheduleSound /\ NoPanic

-----------------------------------------------------------------------------
(* The inductive invariant.                                                *)

\* Every task but the first has a pager (init_task_struct).
HasPager == \A t \in Tasks \ {VM} : state[t] # "UNUSED" => pager[t] \in Tasks

\* A free slot has no continuation in the kernel.
FreeSlots == \A t \in Tasks : state[t] = "UNUSED" => pc[t] = "user"

\* The frame f of task t fits the place p: a send, also one that a page fault
\* interrupts, has a destination, task_destroy has a victim, and only a task that
\* has a pager calls it.
Fits(t, p, f) ==
    /\ p \in {"send", "sendwait"} => f.call # "none" /\ (f.call = "sys" => f.dst \in Tasks)
    /\ p \in {"destroy", "ipiwait", "ipilock"} \/ f.ret = "send" => f.dst \in Tasks
    /\ f.call \in {"fault", "exit"} => t # VM

FramesFit == \A t \in Tasks : Fits(t, pc[t], stack[t])

Inv ==
    /\ TypeOK /\ RunnableOnce /\ WaitsInOneQueue /\ AcceptsOnlyInReceive /\ KernelLocked
    /\ HasPager /\ FreeSlots /\ FramesFit
-----------------------------------------------------------------------------
(* What the source says and the code does not do (README, Disagreements).  *)

\* "So that the scheduler of another CPU that takes the IPI does not choose this
\* task again" (task_destroy on the destroyed flag).
DestroyedNotChosen ==
    [][\A c \in CPUs : current'[c] \notin {current[c], Idle} => ~destroyed[current'[c]]]_vars

\* "If there are tasks trying to send a message to this task, abort their sends"
\* (task_destroy): nobody stays blocked in a send to a task that is gone.
SendersAborted ==
    \A t \in Tasks : state[t] = "BLOCKED" /\ pc[t] = "sendwait" => state[IpcDst(t)] # "UNUSED"

\* "Get the task structure for a task ID" (task_find): every live task is found.
LiveTasksFound == \A t \in Tasks : state[t] # "UNUSED" => task_find(t) = t

\* "Initialise the task structure" (init_task_struct): a new task has no
\* notifications that were meant for the previous owner of its slot.
FreshTask ==
    [][\A t \in Tasks : state[t] = "UNUSED" /\ state'[t] = "RUNNABLE" => notifications'[t] = {}]_vars

\* Device interrupts go to a task: the one that listens has not been destroyed.
ListenerLive == irq_listener # NULL => state[irq_listener] # "UNUSED"
=============================================================================
