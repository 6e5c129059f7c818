# TLA+ specification of HinaOS

HinaOS is the teaching operating system of the *microkernel-book* repository: a
small microkernel for 32-bit RISC-V, a few user-mode servers (memory and
process management, file system, TCP/IP, virtio drivers, a shell) and the
libraries they share. This directory holds TLA+ modules translated from its C
code, TLC models that check them on small instances, and TLAPS proofs for all
instances: of the kernel's scheduling, messages and life of tasks, of its IPIs,
clock and console, of the virtio drivers, of the IPC, list and heap libraries, of the VM
server, and of the TCP/IP server's sockets, ARP, DHCP and DNS.

Contents: [Inventory](#inventory), [Modules](#modules),
[The kernel model](#the-kernel-model),
[The other models](#the-other-models), [Refinements](#refinements),
[Runs](#runs), [Disagreements found](#disagreements-found), [Proofs](#proofs),
[Only model-checked](#only-model-checked), [Not modelled](#not-modelled),
[Plan](#plan), [How to run](#how-to-run).

## Inventory

### Kernel (`kernel/`)

| Part | State | Operations | Correct if |
|---|---|---|---|
| Tasks and scheduler, `task.c` | `tasks[]` (state, destroyed, pager, ref_count, quantum, ...), `runqueue`, `active_tasks` | create, destroy, exit, block, resume, switch, find | a runnable task is scheduled once and eventually; a task is freed only when it runs nowhere; reference counts are exact |
| Message passing, `ipc.c` | per task `wait_for`, `senders`, `notifications`, `m` | send, receive, call, notify | no message or wake-up is lost, overwritten or given to the wrong receiver; no mutual send |
| System calls, `syscall.c` | none of its own | checks arguments, copies to and from user memory | a fault inside a copy is resolved or ends the task, and the call goes on correctly |
| Interrupts, `interrupt.c` | `irq_listeners`, timeouts, quantum, `uptime_ticks` | listen, unlisten, timer and device interrupt | a timeout or interrupt reaches its task |
| Serial console, `printk.c`, `riscv32/uart.c` | ring buffer, `serial_readers` | read, receive interrupt | no reader sleeps while there is input; the newest characters are kept |
| Lock and IPIs, `riscv32/mp.c` | `big_lock`, `locked_cpu`, per-CPU `ipi_pending` | lock, unlock, send IPI, halt | kernel code runs under the lock; IPI senders do not wait for each other |
| Traps and switching, `riscv32/trap.c`, `riscv32/task.c`, `*.S` | trap frames, kernel stacks | dispatch, nested faults, context switch | the lock follows the kernel continuation |
| Memory, `memory.c`, `riscv32/vm.c` | zones, page reference counts and owners, page tables | allocate, free, map, unmap, page fault | a page is free only when nobody maps it; no stale TLB entry |
| HinaVM, `hinavm.c` | registers, stack, program counter | one action per instruction | the interpreter stays in its bounds |

### User space

| Part | State | Correct if |
|---|---|---|
| IPC library, `libs/user/ipc.c` | async message list, pending notifications | an asynchronous message is delivered once, none is lost |
| Heap, `libs/user/malloc.c` | chunk list | chunks partition the heap; no overlap |
| DMA and drivers, `libs/user/dmabuf.c`, `driver.c` | buffer bitmap | a buffer has one owner |
| virtio, `libs/user/virtio/`, `servers/virtio_*` | descriptor table, available and used rings | descriptors are free or in flight, never both or neither |
| VM server, `servers/vm/` | task table, services, page-fault handling | tables follow task creation and exit; lookups are answered |
| File system, `servers/fs/` | block cache, bitmap, directories | allocated blocks are exactly the reachable ones; dirty blocks reach the disk |
| TCP/IP, `servers/tcpip/` | protocol control blocks, mbufs, ARP, DHCP and DNS tables | the byte stream is delivered in order, once; buffers are bounded |
| Shell and samples, `servers/shell/` | the connection of `http`, the task `start` waits for | a command ends, and talks to the task or host it names |

### How the parts interact

User programs reach the kernel by traps (system calls, page faults,
exceptions). All kernel code runs with interrupts off and under one big lock,
on every CPU. Servers talk to each other only by messages; the kernel itself
sends messages (page faults and exceptions to a task's pager) and turns device
and timer interrupts into notification bits. `task_switch` is the one place
where control moves between tasks inside the kernel, and the lock moves with
it.

### What is hard here

* A system call is not atomic. It blocks in `task_switch` in the middle (send,
  receive, console read, exit), and what it read before may be stale after:
  the receiver may have been destroyed and its slot reused.
* A copy from or to user memory may fault, and the fault handler is itself a
  blocking call of `ipc()` to the pager, nested in the interrupted system call.
* Every wait list is threaded through one link field, and one message buffer
  per task serves senders, notifications and the kernel.
* `task_destroy` gives up the lock while it waits for other CPUs.
* Timer, device, serial and inter-processor interrupts come at any time when a
  CPU is outside the kernel.

`PROJECT.json` lists these hazards one by one with the line where they bite and
the property that would notice.

## Modules

| Module | Contents |
|---|---|
| `Lists` | the intrusive lists of `libs/common/list.c` as sequences of their members |
| `Kernel` | tasks, scheduling, messages, interrupts and the lock: state, one action per stretch of kernel code, properties, inductive invariant |
| `KernelProofs` | lemmas about the lists; the invariance proof of `Kernel`; further theorems on wake-ups, hand-over of messages, life of tasks, assertions |
| `LinkedList` (`ListSpec`) | the same lists as `next` and `prev` pointers, with the `LIST_FOR_EACH` loop |
| `Ipi` | `mp.c`, TLB shootdown and `task_destroy`, one instruction group at a time |
| `Clock` | timer handler, software interrupt, ticks, timeouts and uptime on several CPUs |
| `SerialRing` (`DropOldest`) | the ring of `printk.c` with its two indices, `serial_read` and `serial_write` |
| `Memory` | zones, pages and their reference counts, page tables, the VM server's page faults |
| `HinaVm` | the interpreter of `hinavm.c`, instruction by instruction, with native tasks beside it |
| `AsyncIpc` (`Mailbox`) | `libs/user/ipc.c`: asynchronous messages and notifications over blocking IPC |
| `Malloc` | `libs/user/malloc.c` |
| `Virtqueue`, `VirtioNet`, `VirtioBlk` | `virtio_mmio.c`, `dmabuf.c` and the two drivers with their devices |
| `VmServer` | the VM server's loop with the tasks it starts: spawn, services, watchers, exit; the shell's `start` |
| `Fs` (`FileSpec`) | the file system server: block cache, bitmap, directories, open files, crashes |
| `Mbuf`, `MbufQueue` (`ByteQueue`) | packet buffers as operators; the chain as a queue |
| `Tcp` | `tcp.c` with its retransmission timer, a lossy network and a peer |
| `Arp`, `Dhcp`, `Dns` | the three protocols, with `ethernet.c`, `ipv4.c`, `device.c` and `udp.c` as far as they use them |
| `Sockets` | the message loop of `tcpip/main.c` and its clients, with the shell's `http` |
| `MCKernel` | instances of `Kernel` for TLC |
| `MCNetwork`, `MCHardware`, `MCServers` | instances of the other modules for TLC, see below |
| `MachineProofs` | theorems about `Ipi` and `Clock` |
| `VirtioNetProofs` | what the operations of `Virtqueue` do to a queue; the invariant of `VirtioNet` |
| `HardwareProofs` | theorems about `MCHardware`: these, the console and `VirtioBlk` |
| `LibraryProofs` | theorems about the libraries, `AsyncIpc`, `LinkedList` and `Malloc`, and about `HinaVm` |
| `VmServerProofs` | the invariant of `VmServer`, and what its steps do |
| `ServersProofs` | from these the theorems about `MCServers` |
| `NetworkProofs` | theorems about `Sockets`, `Arp`, `Dhcp` and `Dns` within `MCNetwork` |

A module in parentheses is the abstract specification that the module before it
implements.

`MCNetwork`, `MCHardware` and `MCServers` each hold several components that
share no state. The variable `sys` says which of them a behaviour is about; it
is chosen in `Init` from the constant `Components` and never changes, and only
that component moves. So TLC explores the components one after the other, the
sum of their states and not the product, and a property of a run is the
conjunction of the properties of its components. Variables and constants that
two components both have carry the component's name as a prefix. Some
components appear twice with other constants (`vm_frail`, `memory_low`,
`ipi_many`, ...), where one instance with everything in it would be too large.

What the components assume of each other is what the other module shows: the
servers rely on the hand-over of messages that `Kernel` checks, the sequences
of `Kernel` on `LinkedList`, `Tcp` on the chains of `Mbuf`.

## The kernel model

### Granularity

Because kernel code holds the lock with interrupts off, what happens between
entering the kernel (or coming back from `task_switch`) and the next
`task_switch`, lock release or return to user mode is one indivisible step. The
model has one action per such stretch. Some stretches are cut further where a
user copy may fault, since the fault blocks.

`pc[t]` is where task `t` continues in the kernel, `stack[t]` the part of its
kernel stack that matters: which `ipc()` call is in progress, its arguments,
and where a nested page fault returns to.

| `pc` | In the code |
|---|---|
| `user` | user mode (running, preempted or a free slot) |
| `send`, `sendwait` | `send_message` before its checks; after `task_switch` in it |
| `recv`, `recvwait` | `recv_message` before its checks; after `task_switch` in it |
| `serial` | the loop of `serial_read` |
| `create` | `task_create` after the name was copied in |
| `destroy`, `ipiwait`, `ipilock` | the loop of `task_destroy`; `arch_send_ipi` waiting for a CPU; taking the lock again |
| `exit`, `dead` | `task_exit` after its message; after its last `task_switch` |

### State

| Variable | In the code |
|---|---|
| `state`, `destroyed`, `pager`, `ref_count`, `wait_for`, `notifications`, `timeout`, `m`, `senders` | fields of `struct task`, by task ID |
| `active_tasks`, `runqueue` | the lists of `task.c` |
| `serial_readers`, `input` | the list of `printk.c`; the number of buffered characters |
| `irq_listener` | `irq_listeners[]` for one device |
| `current`, `quantum` | per CPU: the task it runs and what is left of its quantum |
| `lock` | `locked_cpu` of `mp.c`, `NoCpu` when free |
| `ipi_pending`, `ipi_wait` | per CPU: an IPI to handle; CPUs `arch_send_ipi` still waits for |
| `pc`, `stack` | per task: kernel continuation |
| `fault` | `panic` after a failed assertion, `list` after a write through a dangling list link |

### Actions

| Actions | Code |
|---|---|
| `sys_ipc`, `send_message`, `send_resumed`, `recv_message`, `recv_resumed` | `sys_ipc`, `ipc`, and `send_message` and `recv_message` before and after their `task_switch` |
| `sys_notify`, operator `notify` | `sys_notify`, `notify` |
| `page_fault`, operator `UserCopy` | `handle_page_fault_trap`, `handle_page_fault`, faults in `memcpy_*_user` |
| `sys_task_exit`, `exit_block` | `task_exit` |
| `sys_task_create`, `task_create` | `task_create`, `init_task_struct`, `alloc_tid` |
| `sys_task_destroy`, `task_destroy`, `ipi_seen`, `ipi_relock` | `task_destroy` with `arch_send_ipi` |
| `timer_interrupt`, `ipi_interrupt`, `device_interrupt`, `serial_interrupt` | the interrupt handlers |
| `sys_time`, `sys_irq`, `sys_serial_read`, `serial_read` | the system calls of these names |
| `idle_task` | the idle loop: wake up, look for work |
| `halt` | the machine after a failed assertion |

### Abstractions

* The contents of messages are their type, their sender and the task a kernel
  message is about.
* System calls that fail their argument checks change nothing and are stutters.
* `quantum` is kept per CPU: `task_switch` gives every task it starts a full
  quantum, so the value of a task that is not running is never read.
* `Reap` adds the `ABORTED` bit to the queued senders of the victim without the
  case distinction of `notify`. A queued sender has `wait_for = IPC_DENY` (part
  of `WaitsInOneQueue`), so `notify` always takes its second branch.
* `handle_soft_interrupt_trap` loops over pending IPIs and then handles the
  timer. The model lets the CPU return to user mode between these and take the
  next interrupt from there: more interleavings than the code has, not fewer.
  A timer interrupt waits until the pending IPI has been handled, as in the code.
* A stale list element (`Stale`) is a sender whose queue head has been
  initialised again for a new owner of the slot. `list_is_linked` still answers
  yes for it; unlinking it writes through dangling pointers, modelled as
  `fault = "list"`, after which nothing is claimed.
* This is the debug build: a failed `DEBUG_ASSERT` halts.
* A destination of task ID 0 is excluded by `EnvironmentAssumption`:
  `task_find(0)` reads `tasks[-1]`, whose value the C code does not define.
* The VM server is mapped eagerly, never faults and never exits, and is the
  only task that destroys tasks in the runs, as in the servers of the repository.

### Bounds

All bounds are constants: `NUM_TASKS_MAX` slots (16 in the code),
`NumCpus`, `TASK_QUANTUM`, `InputMax` (ring capacity), `MaxTimeout` and
`MaxTicks` (ticks that pass between two timer interrupts), and the sets of
requests that tasks make. Nothing else is unbounded: messages, notifications
and lists are bounded by the tasks.

## The other models

Each module's header says what it leaves out. The choices that matter:

**AsyncIpc.** A send completes when its destination receives, atomically: that
is what `Kernel` shows about `kernel/ipc.c`. Programs loop over sends and
`ipc_recv(IPC_ANY)`. Instances give the pattern of who sends to whom, for the
main one that of the network driver, the TCP/IP server and the shell. `Send` has both
cases of `dst->wait_for`: an open receive, and a closed one that waits for this very
sender. The second happens only when two tasks wait for each other: a query that an
empty `async_reply` has left waiting takes a later send or call of the same task as its
answer.

**VmServer.** Tasks are programs: a server that registers a name and keeps
something for its clients, an application that looks it up, the shell. They end
by exit, page fault or invalid address at any time. `notified` and `async` are
the asynchronous messages as `AsyncIpc` delivers them. That the kernel refuses
to send to the last slot is left out, and memory that was freed is not handed
out to other allocations. Senders of a destroyed task go on with an error; in the kernel
they get the bit for it and sleep on (`Kernel!SendersAborted` in the table below), so the
model has behaviours more than the code, none less.

**Memory.** One action per system call or page fault; physical memory is a
function from page numbers to what `struct page` has. Addresses are named by
where their page-table entry is (`lo`: lower half of a second-level table,
`hi`: upper half). Access rights are left out.

**Ipi.** The lock, the IPI bits and the TLBs of three CPUs. A step is a stretch
without shared access. Interrupts are off in the kernel.

**Clock.** Time is relative, so that the state space is finite; `MaxAge` bounds
the age of the machine, `Word` the counts until the low word of `mtime` wraps.

**SerialRing.** The ring keeps one place free to tell full from empty. Writing
is in rounds of at most `KbufSize` characters (512).

**HinaVm.** Words have `WordBits` bits and immediates `ImmBits`. The programs
are `pong` of `servers/hello_hinavm`, and short ones that reach the other
instructions and their errors. Offsets into a message are its fields, printing
is left out. In `pong` the comparison `I_NE(R0, R0, 0)` compares a register with
itself, so the error branch is never taken, and `I_STM32` has its operands
swapped where both are 0: both are modelled as written and do no harm.

**Malloc.** Sizes are in units with a header of `Hdr` and an alignment of
`Align`. Sizes near 2^32, for which the code's addition wraps, are outside.
Chunks are split, never merged.

**Virtqueue, VirtioNet, VirtioBlk.** Ring indices wrap at `IndexMod` (2^16). The
card uses buffers in any order it may, raises its interrupt at any time after,
and the driver reads and acknowledges in the order of the code. Packets fit a buffer:
`transmit`'s `ERR_TOO_LARGE` (`servers/virtio_net/main.c:27`) changes no state and is left
out. So is `virtq_notify` of the receive queue (`:97`), as the card sees buffers without
it. The two errors that `read_write` of the disk driver checks for (`:19`, `:24` of
`servers/virtio_blk/main.c`) are one.

**Fs.** A block is free, a bitmap, a directory or file entry, or data of
`BLOCK_SIZE` bytes. A request changes the cache; the blocks it changed are then
written one at a time, in the order of `dirty_blocks`, and a crash between two
writes leaves the disk. `block_write` (`servers/fs/block.c:27`) sends each block as eight
sectors; a crash between two of these, which leaves a block half old and half new, is not
modelled. In the runs' instances the references and the used bits of every block lie in its
first sector, which is written whole, so that what `DiskConsistent` speaks of cannot be
torn; the data of a file could be. The image at the start is that of `mkhinafs.py`.

**Tcp.** Sequence numbers are modulo `SeqSpace`, and the peer starts just below
the wrap. The network keeps the order of segments, loses those `Lossy` names and
repeats them by retransmission. The peer is a TCP that follows the
specification as far as our side can tell.

**Arp, Dhcp, Dns, Sockets.** Packets are records of what the code looks at;
checksums, header layout and byte order are left out. The other hosts, DHCP and
DNS servers are external: they answer or not, in any order. Of `ethernet_transmit` the
models have packets to one host. Broadcasts (`device.c:27`, `arp.c:75`) need no table entry
and go out at once, as a query does here. The check for a missing route
(`ethernet.c:15`) only drops packets to the unspecified address: `device_get_next_hop`
asserts that there is a gateway.

## Refinements

| Property | Detailed | Abstract | Mapping |
|---|---|---|---|
| `ImplementsMailbox` | `AsyncIpc` | `Mailbox`: one FIFO per pair of tasks that loses nothing; that it is emptied only unless the receiver is left waiting | the sender's list and the message under way |
| `ImplementsDropOldest` | `SerialRing` | `DropOldest`: the last `Capacity` characters | the places between the two indices |
| `ImplementsLists` | `LinkedList` | `ListSpec`: sequences with distinct members | the cells reached over `next` |
| `ImplementsByteQueue` | `MbufQueue` | `ByteQueue`: bytes in at one end, out at the other | the concatenation of the chain |
| `ImplementsFiles` | `Fs` | `FileSpec`: files as sequences of bytes, open files with offsets | the data blocks of each entry, in the cache |

Each is checked as a PROPERTY of a passing run: initial states map to initial
states, every step to a step of the abstract specification or a stutter. The second and
the third are also proved, and of the first all but its fairness ([Proofs](#proofs)).

## Runs

### Kernel

The runs of `MCKernel` have three tasks or four and two CPUs. Three tasks are
what the interesting races need: a receiver, the sender it has chosen and a
third task that interferes (another sender, a notifier, a destroyer). Two CPUs
are what it takes to preempt, resume or destroy a task that runs elsewhere. The
quantum of one tick lets every timer interrupt preempt. The last slot is kept
free or reusable, since `task_find` never returns it.

| Run | Instance | Shows |
|---|---|---|
| `ipc` | 3 equal tasks, 2 CPUs: blocking and non-blocking sends, calls, open and closed receives, notifications | no lost wake-up, no overwritten message, a receive gets only what it asked for and from a sender that can still deliver (`DeliverySound`), no mutual send, every runnable task scheduled once |
| `pager` | the VM server and 2 clients that fault in user mode and within message copies, and exit | nested calls to the pager do not mix with the interrupted call; kernel steps hold the lock; exit is reported and final; no assertion fails |
| `lifecycle` | the VM server creates and destroys tasks that exchange messages, with slot reuse, 2 CPUs | a task is freed only when it runs nowhere; lists and reference counts stay right; no lost wake-up among the living (`ScheduleSound`, `PagersCounted`) |
| `devices` | timers of 1 and 2 ticks, a device interrupt, a console of 2 characters and 2 readers, 2 CPUs | no notification and no reader is forgotten; no assertion fails (`DevicesSound`, `ReaderNotForgotten`) |
| `liveness` | a server and 3 clients that send for ever, 2 CPUs | every runnable task runs; every blocked sender is served |

All five also check that the model does not deadlock: there is always an
interrupt to take, and `halt` is a step of its own.

In `lifecycle`, `NoPanic` is not checked, because it does not hold: see the
disagreement `resume_assertion` below. The other properties are checked also
after the machine has halted or a list has been corrupted, when nothing moves.

### Hardware (`MCHardware`)

| Property | Conjuncts | Instance |
|---|---|---|
| `ConsoleAndClock` | `SleepsOnlyOnEmpty`, `WritesText`; `UptimeBound`, `NotTooEarly` | a ring of 3, 2 readers, texts of up to 2 characters; 2 CPUs, ticks of 2 counts, timeouts of 0 and 2 |
| `IpisSound` | `Shootdown`, `FreedStopped`, `Exclusive` | 3 CPUs; one that maps and destroys (`ipi`), and two mappers with two destroyers (`ipi_many`) |
| `DriversSound` | `DescsSound`, `BuffersSound`, `SentOnce`, `InOrder`; `AnswerRight`, `DriverAlive` | 2 descriptors and 2 buffers for each direction, indices modulo 4; a disk of 2 sectors, 8 requests, indices modulo 8 |
| `ImplementsDropOldest` | | |
| `WaitsEnd` | `ReaderServed`, `Expires`, `Returns`, `Noticed`, `Sent`, `Answers` | |

The rings are full, empty and wrap within the bounds. `Shootdown` and `Returns`
are checked with one CPU that sends IPIs: with two, both may wait for each
other for ever (`NoIpiDeadlock` below), and the properties that still hold then
are checked with `ipi_many`. `Expires` is checked without IPIs, for the reason
given below.

### Servers (`MCServers`)

| Property | Conjuncts | Instance |
|---|---|---|
| `MessagesAnnounced` | `Announced`, `ReplyFindsReceiver`, `NoDeadLock` | driver, TCP/IP server, shell; 2 messages queued |
| `TasksTracked` | `EntriesOwn`, `VmAlive`, `NoLeak`, `NoLostMessage`, `NoForgottenWaiter` | 4 task IDs, 6 tasks in all, so that IDs are reused; servers that end (`vm_frail`); tasks that ask for the end of others (`vm_killers`) |
| `DiskConsistent` | `RefsAllocated`, `IdleSaved`, `BlocksOwned`, `NamesUnique`, `CreatedFound` | 8 blocks, two levels of directories, 5 requests, a crash |
| `ProgramsAnswer` | `OwnAnswer`, `QueuesSound` | 7 programs, 2 native tasks that call, words of 8 bits |
| `MemoryOwned` | `RefCount`, `PagesListed`, `NoSharing`, `DeviceExclusive`; `Tiled`, `FreeListExact`, `RoomForAll` | 20 pages and 2 slots; paging with a file and a zeroed segment; 8 pages, which run out; a heap of 20 units |
| `StepsRight` | `InOrder`, `AnswerRegistered`, `OnlyAsked` (action properties) | as above |
| `ImplementsMailbox`, `ImplementsFiles`, `ImplementsLists` | with `StoresAll`; `Symmetric`, `ForEachSeesAll` | driver, TCP/IP server and shell with 2 messages queued, no blocking sends or interrupts; 2 files, 2 clients, 7 requests; 2 lists, 3 elements |
| `Progress` | `CallsAnswered`, `Freed`, `Prompt`, `Served`, `OthersRun` | `pong` only, 2 messages queued |

The first six are of the run `servers`, the others of `servers_live`.
With two messages in a queue a receiver can be left waiting for good in a query that comes
too late (`LeftWaiting`), which the run `async_query` shows as a violation of `CallsReturn`.
`ImplementsMailbox` and `CallsAnswered` say that this is the only way in which a message does not
arrive or a call does not return: each is about one receiver or caller, and holds unless
that task itself is left waiting. `OthersRun` holds for `pong`, which blocks in each round.

### Network (`MCNetwork`)

| Property | Conjuncts | Instance |
|---|---|---|
| `StreamsIntact` | `TxIntact`, `RxIntact`, `TxBufferMatches`, `WindowKept`, `InSync` | 2 bytes each way, 3 in a packet, receive buffer of 2, SYN and data lost, sequence numbers that wrap, FIN, RST and close |
| `AddressesRight` | `EntriesUnique`, `SentRight`, `InOrder`, `NoneStuck`; `ReadyConfigured`, `AsksOffered`; `AnswerMatches`, `RequestsWaiting` | an ARP table of 2 for 3 hosts, so that entries are replaced; 2 DHCP servers and another client; 2 tasks and 3 query IDs |
| `SocketsOwned` | `TablesSound`, `OwnMessages`, `NoOrphans` | 2 sockets, 3 control blocks, 2 tasks, one of which may end |
| `StreamsFlow` | `Connects`, `Delivers`, `Receives` | data is lost, SYNs are not |
| `RequestsEnd` | `AllSent`, `GetsReady`, `Resolves`, `Returns` | no losses, an ARP table that is large enough |
| `ImplementsByteQueue` | | mbufs of 3 bytes, 4 bytes in all |

The first three are of the run `network`, the others of `network_live`.

`CHECK_DEADLOCK FALSE` stands in the runs of these three modules: the bounds on
packets, requests and calls let every component come to an end.

### Properties worth a second look

* `RunnableOnce`: the run queue and the CPUs together hold each runnable task
  exactly once. Resuming, preempting and destroying on several CPUs all touch it.
* `NoLostWakeup`: a task asleep in a receive has nothing waiting that it would
  have taken. This is the classic race between a sender that looks at the
  receiver and a receiver that looks at its queue.
* `HandOff`: `recv_message` takes a sender off the queue, narrows `wait_for` to
  it and sleeps; from then until the delivery that sender must be able to
  deliver, and only to this receiver. An abort or a timeout in between would
  leave the receiver asleep for ever. It holds as long as nobody is destroyed
  and no stray `ABORTED` bit exists; `resume_assertion` and `FreshTask` below
  show how both come about.
* `AcceptsOnlyInReceive`: `send_message` and `notify` decide by `wait_for`
  alone whom to wake. If it survived the receive, a task waiting for the console
  or for its own end would be woken by a message.
* `ClosedReceive`: the reply to a page fault that interrupted a system call is
  never a message of that system call, nor a notification.
* `Announced`: an asynchronous message lies in its sender until the receiver
  asks, and the receiver asks only if a notification bit is set or on its way.
  Bits are merged, so two messages may share one.
* `ReplyFindsReceiver`: `async_reply` answers with a non-blocking send and frees
  the message whether or not it was taken.
* `Shootdown`: no CPU uses an old TLB entry once the system call that changed
  the page table is over, although the lock is given up while it waits.
* `RefsAllocated`: at every moment, so after any crash, blocks that directories
  on the disk refer to are marked as used on the disk.
* `NoLeak` and `NoLostMessage` of `VmServer`: a task may end before, while or
  after its server asks to be told of its end.
* `TxBufferMatches`: what is in `tx_buf` are the bytes the peer has not
  acknowledged, whatever was lost, repeated or acknowledged twice.

### Fairness

`liveness` assumes, for every CPU:

* weak fairness of `KernelStep`: the CPU that holds the lock runs with
  interrupts off and does not stop;
* weak fairness of `idle_task`: an idle CPU is woken by its timer;
* strong fairness of `timer_interrupt`: the timer fires while user code runs, or
  is pending when the CPU returns to it. Strong, because other CPUs hold the lock
  again and again (`mp_lock` spins; the time at which it wins is not bounded by
  the code, only by the hardware's arbitration, which is assumed fair);
* and that the server program comes back to its open receive
  (`ServerReceives`): the servers of the repository are `while (true) ipc_recv`.
  Nothing is assumed of the clients.

`hardware`: an interrupt handler ends; readers get to run between interrupts
(strong, as interrupts come again and again); time passes and CPUs enable
interrupts; cards do their work and drivers run, which is `NoStarvation` for
them. Nothing makes clients send or characters arrive.

`servers_live`: every task inside the library goes on, and its program goes back
to `ipc_recv` (strong, since it may send in between); the VM server handles the
messages of each task, which the kernel queues in order; in HinaVM, what is in
the kernel goes on and quanta end. The file system and the lists need none.

`network_live`: the server's loop and its timer run; a network that loses
segments does not lose all of them, neither those with data nor the others
(strong fairness of delivery); hosts, DHCP and DNS servers answer. Applications
write and connect when they like.

## Disagreements found

Two runs expect TLC to find a counterexample to what the source says of itself.
They are quoted in `PROJECT.json` under `findings`.

| Run | What happens |
|---|---|
| `resume_assertion` | a receiver is destroyed after it chose a sender; the sender then resumes a free slot and the assertion in `task_resume` (`kernel/task.c:131`) fails |
| `async_query` | with two messages queued, `async_reply` announces the second although `ipc_send_async` did; the receiver queries once too often, is not answered, and `ipc_recv` (`libs/user/ipc.c:32`) never returns. The fairness of `Mailbox` fails with it: what is sent to this receiver afterwards stays in the list |

The properties of the following tables hold neither in the model nor, as far as
reading it tells, in the code. Where one is defined under its name in a module,
it stands at the end, under "What the source says and the code does not do".
TLC finds each of them violated in the component, and with the constants, of
the last column (the others as in the component's run; liveness with the .cfg of
the `_live` run). The passing runs keep to instances without
the cause, so that they show what holds besides.

### Kernel

| Property | Line | What the code does | To see it |
|---|---|---|---|
| `Kernel!DestroyedNotChosen` | `kernel/task.c:17` | `scheduler` looks at the destroyed flag only for the running task; a victim that is on the run queue is chosen by another CPU while `task_destroy` waits for the IPI. The comment at `:219` says it is not | `lifecycle` |
| `Kernel!SendersAborted` | `kernel/task.c:242` | senders queued at a destroyed task get the `ABORTED` bit but nobody resumes them: they sleep for ever | `lifecycle` |
| `Kernel!LiveTasksFound` | `kernel/task.c:108` | `alloc_tid` gives out the ID `NUM_TASKS_MAX`, `task_find` refuses it | `lifecycle` |
| `Kernel!FreshTask` | `kernel/task.c:38` | `init_task_struct` does not reset `notifications`: a new task inherits those of the slot's previous owner | `lifecycle` |
| `Kernel!ListenerLive` | `kernel/interrupt.c:58` | `task_destroy` leaves the task in `irq_listeners`: the next owner of the slot gets its interrupts, a new driver is refused | `lifecycle` with irq calls and events |
| `Ipi!NoIpiDeadlock` | `kernel/riscv32/mp.c:99` | two CPUs that wait in `arch_send_ipi`, with interrupts off, wait for each other for ever | `ipi_many` |
| `Ipi!FreedOnce` | `kernel/task.c:222` | two tasks that destroy the same victim both leave the loop and free it | `ipi_many` |
| `Clock!UptimeTrue` | `kernel/interrupt.c:70` | every CPU adds its ticks to `uptime_ticks` | `clock` |
| `Clock!UptimeMillis` | `kernel/syscall.c:301` | `sys_uptime` returns seconds where its comment says milliseconds; TCP adds 500 to it for its retransmission timer | `clock` |
| `Clock!NotEarly` | `kernel/interrupt.c:76` | a timeout set just before an interrupt is shortened by the whole tick | `clock` |
| `Clock!Expires` | `kernel/riscv32/trap.c:52` | `last_mtime` is stored at every software interrupt: IPIs within each tick let no tick be counted | `clock` with the fairness of `clock_alone`, `MaxAge` 0 |
| `Clock!HandlerReturns` | `kernel/riscv32/handler.S:137` | only the low word of `mtimecmp` is written: after 2^32 counts the timer is always pending | `clock_alone`, `MaxAge` 5, `Word` 5 |
| `SerialRing!WritesText` | `kernel/syscall.c:263` | every round of `sys_serial_write` copies from the start of the buffer | `KbufSize` 1 |
| `Memory!PagesListed` | `kernel/task.c:250` | a page still mapped elsewhere stays linked to the list of a destroyed task, and later cuts the list of the slot's next owner | `Segments` {"file"}, `MemorySlots` {2}, `MaxCreates` 2 |
| `Memory!RefCount` | `kernel/riscv32/vm.c:153` | the loop over a second-level table stops at 512 of 1024 entries | `Uaddrs` {"hi"} |
| `Memory!TablesFreed` | `kernel/riscv32/vm.c:168` | second-level tables are never freed | `memory` |
| `Memory!InZone` | `kernel/memory.c:49` | `is_contiguously_free` reads past the end of the zone | `BeyondFree` TRUE, `NumPages` 5, `StackPages` 2 |
| `Memory!PagerSurvives` | `servers/vm/page_fault.c:96` | the VM server asserts that mapping succeeds, which fails without memory for a page table | `Segments` {"file"}, `NumPages` 6 |
| `HinaVm!OthersRun` | `kernel/hinavm.c:44` | a program that loops without `RECV` or `SEND` is never preempted | program `spin` |
| `HinaVm!SourceTrue` | `kernel/ipc.c:68` | messages of HinaVM programs have the source `FROM_KERNEL` and cannot be answered | program `client` |
| `HinaVm!PagerTold` | `kernel/task.c:270` | a HinaVM task that exits while its pager calls it gets `ERR_DEAD_LOCK` for its exit message | program `illegal` |

### Libraries and servers

| Property | Line | What the code does | To see it |
|---|---|---|---|
| `AsyncIpc!NoDeadLock` | `kernel/ipc.c:49` | two tasks that send to each other asynchronously query each other, and one gets `ERR_DEAD_LOCK`, against which the message recommends `ipc_send_async` | `IpcAsync` {<<1, 2>>, <<2, 1>>}, no calls, sends and listeners |
| `AsyncIpc!Abstract!Spec` | `libs/user/ipc.c:32` | `Mailbox` with its fairness for every pair: a receiver that is left waiting takes none of the messages that are sent to it later (the hang of `async_query`) | `servers_live` |
| `Malloc!ReallocPreserves` | `libs/user/malloc.c:113` | a `realloc` within the capacity does not update `size`; the next one copies too little | `heap` |
| `Virtqueue!DescsSound` | `libs/user/virtio/virtio_mmio.c:125` | a reclaimed chain becomes the free list without being linked to the rest; chains are lost and descriptor 0 is used twice | `NumTx` 3 |
| `VirtioBlk!DriverAlive` | `servers/virtio_blk/main.c:84` | an error of the device ends the driver. The file system causes one when the disk is full, as the bitmap has more bits than the disk has blocks | `AskSectors` {0, 1, 2} |
| `VmServer!TableSound` | `servers/vm/task.c:120` | `task_destroy` clears the table entry of the VM server, not that of the task | `vm` |
| `VmServer!AnswerAlive` | `servers/vm/task.c:164` | the services of a task that has ended stay in the list, before those of its successor | `vm_frail` |
| `VmServer!StartWaits` | `servers/shell/command.c:95` | a `TASK_DESTROYED_MSG` of an earlier task with the same ID ends the wait of `start` | `vm` |
| `VmServer!FreesOwn` | `servers/tcpip/main.c:56` | a late `TASK_DESTROYED_MSG` frees what belongs to a new task with the same ID; so in `servers/fs/main.c:53` | `vm` |
| `VmServer!VmAlive` | `servers/vm/task.c:124` | a task that has ended can be destroyed again, and `free` stops the VM server | `vm_killers` with the `BootServers` and `Startable` of `vm` |
| `VmServer!Prompt` | `servers/shell/command.c:84` | when spawning fails, `start` waits for the end of a task that does not exist | `Startable` {"missing"} |
| `VmServer!ExitedEnds` | `servers/vm/main.c:188` | for some exceptions the VM server prints a message and leaves the task blocked for ever | `Endings` with "invalid" |
| `Fs!EntriesValid` | `servers/fs/fs.c:354` | the directory is written before the new entry | `fs` |
| `Fs!BlocksOwned` | `servers/fs/fs.c:40`, `:29` | `free_block` clears the bit of another block; on a full disk block numbers wrap to the root directory | `Ops` {"mkfile", "open", "write", "delete"}, 11 blocks of 1 byte, 9 requests; four names, `IndexMod` 10, `NumBits` 14 |
| `Fs!NoLeak` | `servers/fs/fs.c:248` | `fs_delete` does not free the entry's own block | `fs` |
| `Fs!CreatedFound` | `servers/fs/fs.c:122` | the search for the parent ends at the first component | paths of three names |
| `Fs!StoresAll` | `servers/fs/fs.c:185`, `:158` | a write that crosses a block from the middle loses bytes; one beyond `BLOCKS_PER_ENTRY` is cut and answered as whole | `Ops` {"mkfile", "open", "write"} with `Lens` {1, 2}; or with 10 requests |
| `Fs!Extends` | `servers/fs/fs.c:161` | files of the image mark unused places with 0xffff, which `readwrite` takes for a block | `Paths` {<<"i">>}, the file of the image |
| `Fs!NoPanic` | `servers/fs/fs.c:91` | a path through a file fails the assertion that it is a directory | paths of three names |
| `Fs!IdleSaved` | `servers/fs/block.c:112` | a block whose write failed is taken off the list of changed blocks | `DeviceFails` TRUE |

### Network

| Property | Line | What the code does | To see it |
|---|---|---|---|
| `MbufQueue!PeekReads` | `servers/tcpip/mbuf.c:146` | a copy starts at the beginning of the data, not at the offset | `mbuf` |
| `MbufQueue!TruncateExact` | `servers/tcpip/mbuf.c:199` | nothing is removed when the length is 0 or ends at a boundary | `mbuf` |
| `MbufQueue!CloneWhole` | `servers/tcpip/mbuf.c:227` | the clone ends after its first mbuf | `mbuf` |
| `Tcp!Connects` | `servers/tcpip/tcp.c:249` | a lost SYN is not sent again | `tcp_Lossy` with "SYN" |
| `Tcp!TxIntact` | `servers/tcpip/tcp.c:163` | after a partial acknowledgement bytes that were sent before go out under the next numbers | `Writes` {1} |
| `Tcp!WithinPeerWindow` | `servers/tcpip/tcp.c:284` | the 16-bit window is converted with `ntoh32` | `PeerWindow` 1 |
| `Tcp!InSync` | `servers/tcpip/tcp.c:291` | an ACK without SYN establishes a connection | `tcp_MaxConnects` 2 |
| `Tcp!AllSentAtFin` | `servers/tcpip/tcp.c:331` | a FIN before everything is acknowledged fails an assertion | `tcp` |
| `Tcp!Delivers` | `servers/tcpip/main.c:68` | a segment larger than a message is dropped at every retransmission | `MaxPacket` 1 |
| `Arp!Kept` | `servers/tcpip/arp.c:37` | an entry that waits for its answer is replaced, its packets forgotten | `arp` |
| `Arp!QueueDst` | `servers/tcpip/ethernet.c:27` | the queue stores the next hop where `arp.h:28` says the destination | `arp` |
| `Dhcp!GetsReady` | `servers/tcpip/device.c:72` | DISCOVER and REQUEST are sent once; if one is lost the server never starts | `dhcp_Lossy` TRUE |
| `Dhcp!OwnLease` | `servers/tcpip/dhcp.c:193` | an ACK for another client is taken | `dhcp` |
| `Dhcp!AddressStable` | `servers/tcpip/main.c:197` | a second server's ACK changes the address after the start | `dhcp` |
| `Dhcp!SourcePort` | `servers/tcpip/udp.c:167` | `src_port` is our own port | `dhcp` |
| `Dns!AnswerMatches` | `servers/tcpip/dns.c:82` | requests without answer stay for ever; when IDs come round, an answer goes to both | `IdMod` 2 |
| `Dns!StackAlive` | `servers/tcpip/dns.c:54` | a label that is too long is freed at a moved pointer, which stops the server | `Long` {"l"} |
| `Dns!AlwaysAnswered` | `servers/tcpip/dns.c:137` | a name that does not exist is never answered | `dns` |
| `Sockets!ServerAlive` | `servers/tcpip/main.c:219` | one socket too many ends the server | `SOCKETS_MAX` 1, `TCP_PCBS_MAX` 2 |
| `Sockets!DialsUrl` | `servers/shell/http.c:45` | the last part of an address is its third: 10.0.2.100 becomes 10.0.2.2 | `sockets` |
| `Sockets!ClosesOwn` | `servers/shell/http.c:152` | the socket to close is read from the last answer's data | `sockets` |
| `Sockets!WholeBody` | `servers/shell/http.c:159` | one read for each message, 1024 bytes of up to 1460 | `sockets` |
| `Sockets!ClosedIsTrue` | `servers/tcpip/main.c:118` | a second reset leaves a message that ends the next connection | `sockets` |
| `Sockets!NoClientPanic` | `servers/shell/http.c:147` | such a message may name another task's socket, and the shell's assertion fails | `sockets` |

Seen while modelling, with no property of their own: `tcp_transmit` does not
free what `mbuf_peek` gave it when there is nothing to send,
`callback_ethernet_transmit` its linear copy, `udp_transmit` its datagrams and
`dhcp_process` its payload (memory is never short in the models of these parts);
`serial_read` with a length of 0 waits for ever; a URL without `/` is not
handled; `resolve_url` and `servers/vm/main.c:186` read memory just freed, which
nothing has reused by then; the shell opens files and does not close them.

## Proofs

Every theorem is for all values of the constants that the named assumptions
allow; TLC evaluates those on the runs. In the tables, "whenever" gives a
hypothesis of the theorem, explained under [Hypotheses](#hypotheses).

### Kernel

`KernelProofs` proves, for every number of slots, CPUs, ticks and every set of
requests that the assumptions allow, that `Inv` is an invariant:

    Inv == TypeOK /\ RunnableOnce /\ WaitsInOneQueue /\ AcceptsOnlyInReceive
           /\ KernelLocked /\ HasPager /\ FreeSlots /\ FramesFit

and from it the theorems `TypeCorrect`, `SchedulerCorrect`, `QueuesCorrect`,
`ReceivesCorrect` and `LockCorrect`, one for each of the properties that runs
check.

None of the parts is inductive alone. `RunnableOnce` needs `WaitsInOneQueue`
(the sender a receiver resumes must be blocked, or it would be queued twice; so
must the readers the serial interrupt resumes) and `KernelLocked` (a task that
calls `task_block` is the one that runs on this CPU). `WaitsInOneQueue` needs
`AcceptsOnlyInReceive` (a queued sender is not woken by `notify` or by a
message, which would leave it on the list) and `FramesFit` (the destination of a
suspended send is the one whose list it is on). `AcceptsOnlyInReceive` needs
`KernelLocked` (a task that is not running waits at a known place) and
`FreeSlots` (a new task starts in user mode). `FramesFit` and `HasPager` say
that a send has a destination: the task's own argument, or its pager, which
every task but the first has.

Assumptions: `SizesAssumption` (at least one slot, CPU, tick and quantum) and
`EnvironmentAssumption` (requests are well-typed and name a destination when
they send; the VM server neither exits nor faults). TLC evaluates both on
every run.

The proof has one `Step_` lemma per action. The actions share a few operators,
and so do the lemmas: `task_switch`, `BlockAt`, `Goto`, `UserCopy`,
`ReturnFromIpc`, `Deliver` and `notify` have one lemma each that says what they
preserve, resting on the facts about sequences at the start of the module. The hardest
steps are `Reap`, which removes a task from all lists, and the timer interrupt,
which resumes several tasks and then switches.

The second half of `KernelProofs` builds on it in four stages, each an
invariant that contains the one before:

| Invariant | Adds to the one before | Theorems | Whenever |
|---|---|---|---|
| `WaitInv` | `NotSelf`: no task is its own pager or destination; `NoMutualSend`, `NoLostWakeup`, `ReaderNotForgotten` | `NoWakeupLost`, `NoTwoTasksDeadlocked`, `NoReaderForgotten`, `ScheduleIsSound` | always |
| `CalmInv` | `Chosen`: a sender that was resumed finds its receiver still waiting, for it alone; `ClosedWaits`, `ClosedReceive`, `ExitIsFinal` | `RepliesNotConfused`, `ExitedStayExited`, `MessagesKept` | `DestroysFinished` |
| `HandInv` | `AbortedSleep`: whoever has an `ABORTED` bit sleeps in the queue of a free slot; `PickedSender` | `DeliveryIsSound`, `ExitsReported` | `DestroysFinished`, `NoForgedAborts`; `PagersNeverWait` for the second |
| `LifeInv` (on `WaitInv`) | `VmStays`; `Victim`: whom `task_destroy` waits to stop is alive and pages for nobody; `PagersCounted` | `PagersAreCounted`, `NeverPanics`, `DevicesAreSound` | `OnlyVmManages`; `DestroysFinished` for the last two |

`NoMutualSend` is inductive only with `NotSelf`: `send_message` looks for the
destination in the sender's own queue before it joins the destination's, and a
task that sends to itself is not there yet. `ClosedReceive` needs `Chosen`, because the sender
delivers in a later step than the receiver's choice. The argument of `Chosen`
is that only three things touch a receiver that waits for one sender: that
sender, an `ABORTED` notification and the end of one of the two.

All these proofs go over an abstraction of `Next`: lemma `Kinds` shows that each
step is one of a few kinds (`StepKind`: which tasks change place, which wake up, whose
buffer is written), and the invariants are proved for the kinds instead of for
all actions one by one.

The theorems cover what the runs leave out: several tasks that destroy tasks,
any pattern of page faults, and instances that combine devices with
destruction.

### Hardware

| Theorem | Property | Inductive invariant |
|---|---|---|
| `MachineProofs!LockExclusive`, `TlbsShotDown`, `FreedIsStopped`; `HardwareProofs!IpisAreSound` | `IpisSound` | `IpiInv`: also that a CPU runs runnable tasks only, that only mappers map, and `FlushAwaited`: a CPU whose TLB is old still has its IPI pending, and the mapper waits for it |
| `MachineProofs!UptimeBounded`, `TimeoutsNotTooEarly`; `HardwareProofs!ConsoleAndClockAreSound` | `ConsoleAndClock`, whenever `TextsFit` | `ClockInv`: uptime is bounded by time and what the CPUs have not accounted for, counted as a finite set. `ConsoleInv`: `SleepsOnlyOnEmpty`, `WritesText`, and that a write is in its first round |
| `HardwareProofs!RingIsQueue` | `ImplementsDropOldest` | `RingOK`: the types of buffer and indices |
| `HardwareProofs!DriversAreSound` | `DriversSound`, whenever `BuffersFit` and `SectorsExist` | `NetInv`, `BlkInv`, see below |

`RingIsQueue` is the refinement. The mapping reads the places from `input_rp` to
`input_wp` as a sequence. The work is arithmetic modulo the size: storing a
character appends to that sequence, or, when the ring is full, drops its head
first; taking characters removes a prefix (`NextQueue`).


`DriversAreSound` rests on what `VirtioNetProofs` shows of a queue. The model, like the code,
has pointers and two rings whose indices wrap around; the proof reads them as sequences. `FreeIs(vq, f)`
says that the free list, followed from `free_head`, is `f`; `RingIs(ring, from, to, s)` that
a ring holds `s` between two indices. In these terms the operations are simple: `virtq_push`
takes a prefix of `f` and appends its head to one ring, the device moves heads from that ring
to the other, `virtq_pop` takes the first and puts its chain in front of `f`. That an
append to a ring overwrites nothing is a pigeonhole argument: its entries are distinct,
and the descriptor to be added is not among them, so it is not full. Two
kinds of queue cover the drivers:

* `SimpleQueue`, where every chain is one descriptor, as in `VirtioNet`: each descriptor
  is in the free list, in one of the rings, or with the device.
* `OneChain`, where one chain of any length is under way, as in `VirtioBlk`: it and the
  free list share out the descriptors, and the chain's links are those it was pushed with.

What `Chain` follows by a recursive function is pinned down by lemmas that
compare it with these sequences, by least counterexample.

On that, `NetInv` says that the buffers in use are those of the descriptors under way, one
each; that what is unsent is in one buffer, was accepted and is not on the wire; and that what
waits in the used ring for receiving is in order, after all that was
delivered. `BlkInv` says that the request under way is the only one, and that it is either
with the device or answered from the sector.

`Ipi`, `Clock` and `Virtqueue` are used by `MCHardware` with other constants; the lemmas
`Same...` connect those instances to the ones the proofs are about.

### Network

| Theorem | Property | Inductive invariant |
|---|---|---|
| `SocketsAreOwned` | `SocketsOwned` | `SocketsInv`: socket and control block point at each other (`Linked`), belong to the task that connected (`Owners`), and so do queued messages |
| `AddressesAreRight` | `AddressesRight`, whenever `IdsLast` | `ArpInv`, `DhcpInv`, `DnsInv` |

`SocketsOwned` says among others that a control block is free whenever a socket is.
That is a pigeonhole argument (`TablesLast`) over `Linked`: every control block in use
has a socket of its own, and the table of blocks is the larger one.

`ArpInv` says of every queue that its packets go to the entry's host, in the order
they came, and after all that was sent to this host already; `FramesSound` says the
same of the frames that were sent. That `flush` sends the whole queue is a fact about
a loop, proved from the recursive function's equation with the least
counterexample over the well-founded order of the naturals (`FlushSends`).
`DhcpInv` follows an address from the offer to the device. `DnsInv` keeps, for each
ID under way, that list, waiting task and packets agree on the name.

Assumption: `NetworkAssumption`, the conjunction of the components' own.

### Libraries and servers

| Theorem | Property | Inductive invariant |
|---|---|---|
| `ServersProofs!AsyncMessagesAnnounced` | `MessagesAnnounced`, whenever `NoCrossing` | `IpcsInv` |
| `LibraryProofs!MessagesNotForgotten` | its `Announced` and `ReplyFindsReceiver`, without `NoCrossing` | `IpcsInv` |
| `LibraryProofs!MessagesInOrder` | `InOrder`, in `StepsRight` | `IpcsInv` |
| `ServersProofs!TasksAreTracked` | `TasksTracked` | `VmInv` |
| `ServersProofs!StepsAreRight` | `StepsRight` | `IpcsInv` and `VmInv` |
| `ServersProofs!ListsImplemented` | `ImplementsLists` | `ListInv` |
| `LibraryProofs!HeapSound` | the heap's part of `MemoryOwned` | `HeapInv` |
| `ServersProofs!ProgramsAnswered` | `ProgramsAnswer`, of every program but `echo` | `HinaInv` |
| `ServersProofs!HinaQueuesSound` | its `QueuesSound`, of every program | `HinaInv` |

**The IPC library.** `Announced` is about three places a message can be announced in: the
receiver's notification bits in the kernel, its bits in the library, and the
sender that is about to notify. It is inductive only together with whom a blocked
task waits for (`IpcPartners`), the kernel's queues (`IpcQueues`), and that every bit
and every listed message belongs to a pair that sends asynchronously (`IpcBits`,
`IpcLists`). In systems whose tasks wait for each other two more parts are needed: a task
in an open receive has no bits (`IpcOpen`), and one that is left waiting by an empty
`async_reply` has announced nothing to the task it waits for, which therefore never
queries it, and its own bit can be dropped (`IpcLeft`). With them a message that such a task takes
instead of its answer disturbs neither property. TLC agrees on two and three tasks that
send to each other in every way, with interrupts.
Only that no task is refused a message (`dead_lock` stays empty) needs `NoCrossing`. `InOrder` is the refinement of `Mailbox` without its fairness:
every step appends to one mailbox, takes from the front of one, or changes none.

**The VM server.** `VmInv` has three layers, because three kinds of system differ in what
they may rely on:

* `Table`, of any system: types, the programs' steps, `EntriesOwn`, and for
  `NoForgottenWaiter` that a structure that says it waits belongs to a task that is in
  the call (`WaitsRight`).
* `Peaceful`, when tasks end only by themselves: the server lives, whoever waits lives,
  servers that are past `WATCH_TASKS_MSG` watch, and what is kept is kept by one of those;
  hence `NoLeak`.
* `Robust`, when besides no server faults: watchers live for ever and messages are
  for them; hence `NoLostMessage`.

One proof serves the three instances of `MCServers`. Its hardest steps are those that free a
structure, since the freed one keeps its contents until it is taken again.

**The lists.** `Represents(nx, pv, S)` says that the pointers `nx` and `pv` are those of the
sequences `S`: the head stands before the first member and after the last, each cell points
at its neighbours, no element is at two places, and one that is in no list has no pointers. In
these terms `list_push_back` appends, `list_remove` and `list_pop_front` take out one place
(`PushRepresents`, `RemoveRepresents`), and following `next` from a head gives `S` back
(`WalkIs`), so that `S` is the refinement mapping. `LoopInv` is about `LIST_FOR_EACH`: the
saved cell is another one than the current and still in the list, and either everything the
loop began with has been seen, or the rest of it is still linked, in order, from
the saved cell on (`Ahead`).

**The heap.** `HeapInv` is the three properties, and that pointers point at headers.
`TakeKeeps` shows it for a chunk that is split or taken whole, `ReleaseKeeps` for one that is
given back; `realloc` is one after the other. Rounding to the allocation unit is all that is
used of alignment.

**HinaVM.** `HinaInv` relates the run queue, the CPU and the queues of senders to where each
task is in its system call (`QueuesSound` and what makes it inductive), and follows the answer of
`pong` from register to message to caller: at every instruction it says what the registers
and the message hold, and whose call is being served. Registers are bounded
words, and all that is used of arithmetic is that results stay in range. For that
`HinaVmAssumption` states of the powers of two that occur that they are natural numbers in
the order they should have, since the prover knows nothing of exponents; TLC evaluates it.

Assumption: `ServersAssumption`, the conjunction of the components' own.

### Hypotheses

Where the properties hold for the programs of the repository but not for
arbitrary ones, the theorems say what they need of them.

* `DestroysFinished`: who is destroyed has exited, or waits for its pager, which
  destroys it, to answer a page fault. So does the VM server after an `EXCEPTION` or
  a `PAGE_FAULT` it cannot serve (`servers/vm/main.c:184`, `:216`). It leaves out
  `DESTROY_TASK` (`:136`), which ends a task in the middle of anything. Without it the
  theorems are false: a sender that was chosen delivers to a free slot or to its next
  owner, which is the run `resume_assertion`. It is a condition on the states of a
  behaviour, so the theorems also cover all systems in which nobody destroys.
* `NoForgedAborts`: users pass only `NOTIFY_ASYNC` to `sys_notify`
  (`libs/user/ipc.c:32`, `:56`); the system call would take any bit. The kernel's own
  `ABORTED` stays possible.
* `PagersNeverWait`: a pager is in no queue of a task it pages for. Servers answer
  with `ipc_reply`, which does not block (`libs/user/ipc.c:71`), and the VM server
  otherwise uses `ipc_send_async`. If it did wait, an exiting task's message would be
  refused with `ERR_DEAD_LOCK`.
* `OnlyVmManages`: only the VM server creates and destroys tasks
  (`servers/vm/task.c:59`, `:115`). The sample `hello_hinavm` does not keep to it: it
  destroys a task of its own (`servers/hello_hinavm/main.c:48`). With two managers
  one can create a task whose pager the other has half destroyed.
* `TextsFit`: one system call writes at most one kernel buffer: `printf` collects
  256 characters (`libs/user/printf.c:5`), the buffer has 512. Longer texts are
  written wrongly (`SerialRing!WritesText` in the table above).
* `BuffersFit`: the network driver has no more buffers for sending than descriptors. It
  has 128 (`servers/virtio_net/virtio_net.h:6`), and the queue has 512 unless the
  device offers fewer (`libs/user/virtio/virtio_mmio.c:31`). With more buffers `virtq_push` reclaims
  chains, and `DescsSound` fails (table above).
* `SectorsExist`: clients ask for sectors that the disk has. If they do not, an assertion
  ends the driver (`VirtioBlk!DriverAlive` in the table above).
* `IdsLast`: fewer queries than query IDs, which have 16 bits
  (`servers/tcpip/dns.c:82`). After that an ID may be in use twice
  (`Dns!AnswerMatches` in the table above).
* `NoCrossing`: no two tasks of which each may wait for the other in a call or a blocking
  send. Servers answer with `ipc_reply` and otherwise send asynchronously, as
  the VM server does (`servers/vm/main.c`); the kernel refuses the second of two that
  cross with `ERR_DEAD_LOCK`, and `ipc_send` reports it.
* `NoRebirth`, of `VmInv`: where applications have others destroyed, none is started. It holds
  by the constants of `MCServers` (lemma, no hypothesis of its theorems). A structure that is
  freed while its task waits keeps the name it waited for, and a later task with the same ID
  would be taken for the one that waits. It leaves out `servers/crack`, the one program of
  the repository that sends `DESTROY_TASK_MSG` (`servers/crack/main.c:96`), as the shell starts it.

## Only model-checked

* Liveness, everywhere: fairness is out of the prover's reach.
* `StreamsIntact`: sequence numbers that wrap, and chains that `Mbuf` computes by
  folds, of which the prover knows no induction.
* `ImplementsByteQueue`: folds over chains, as above.
* `ImplementsMailbox`, for its liveness; its safety part is `InOrder`, which is proved.
* `MemoryOwned`, but for the heap. The pages of a task are freed by loops over lists and
  tables, modelled as recursive functions over sets; that they free each page exactly
  as often as it is used is an induction over such a set, and an equation between cardinalities.
* `DiskConsistent` and `ImplementsFiles`: `Fs` walks chains of blocks of any length, and
  reads and writes files block by block, by recursive functions; what these compute is an
  induction over the chain.
* `ProgramsAnswer` of the program `echo`, whose answers go through the bitwise instructions;
  what these compute is an induction over the bits of a word.

## Not modelled

* Boot: ELF loading, page tables and devices at the start; sequential, once.
* The assembly that saves and restores registers, and UART and virtio register
  access: below the models.
* `driver.c`, `bootfs.c` and the argument checks of system calls: they pass on
  what they are given, or change nothing.
* Header layout, checksums and byte order of the protocols (but for the window
  of TCP, whose conversion is modelled).
* The shell but for `start` and `http`: its other commands are one call each.
  `servers/crack`, which demonstrates vulnerabilities.
* String and formatting helpers, generated message declarations, the build
  tools but for the image that `mkhinafs.py` makes.

## Plan

Done: every component of the inventory has a model, each plan item of the first
version among them.

The safety properties of the kernel, the hardware, the libraries, the VM server and HinaVM (but
for the bitwise instructions) are proved,
and those of the network but for `StreamsIntact`. What is left is listed under
[Only model-checked](#only-model-checked). The next to prove would be `Memory!RefCount` for
tables that are freed whole, and `Tcp` with sequence numbers that do not wrap.

## How to run

    tlc -config ipc.cfg MCKernel      # and pager, lifecycle, devices, liveness
    tlc -config hardware.cfg MCHardware
    tlc -config servers.cfg MCServers         # and servers_live
    tlc -config network.cfg MCNetwork         # and network_live
    tlapm KernelProofs.tla            # and MachineProofs, VirtioNetProofs, HardwareProofs,
                                      # LibraryProofs, VmServerProofs, ServersProofs,
                                      # NetworkProofs

To look at one component, set `Components` in a copy of the .cfg file to it alone
(`{"fs"}`); its own constants can then be larger. To see a disagreement, add the
constants of its table and a definition to the harness that names the
component's property (`Seen == fs!NoLeak`), and make it the INVARIANT or
PROPERTY of that copy.
