----------------------------- MODULE MCServers ------------------------------
(***************************************************************************)
(* The servers and what they are built on, for TLC: the IPC library, the   *)
(* VM server, the file system, HinaVM, the kernel's memory, the heap and   *)
(* the lists.  They share no state here: in a behaviour one of them runs,  *)
(* sys, and the others stay where they start.                              *)
(*                                                                         *)
(* The VM server is explored three times: with applications that exit or   *)
(* fault, with servers that fault too (frail), and with applications that  *)
(* have other tasks destroyed (killers).  Memory is explored three times:  *)
(* with tasks that come and go, with one that pages in a program (paging), *)
(* and with little memory (low).                                           *)
(***************************************************************************)
EXTENDS Integers, Sequences, FiniteSets

CONSTANTS
    Components,     \* the ones to explore
    \* AsyncIpc
    IpcTasks, IpcAsync, IpcCalls, IpcSends, IpcListeners, MaxQueue,
    \* VmServer
    MaxTid, ServiceNames, BootServers, Startable, Endings, MaxBorn,
    \* Fs
    NumBlocks, NumBits, IndexMod, BLOCK_SIZE, BLOCKS_PER_ENTRY, OPEN_FILES_MAX, Clients,
    Paths, DirPaths, Ops, Lens, DeviceFails, MaxOps, MaxCrashes,
    \* HinaVm
    HinaPrograms, WordBits, ImmBits, NumRegs, HinaTask, HinaNatives, Pager, Values, MaxCalls,
    \* Memory
    NumPages, BeyondFree, NumDevices, MemorySlots, Uaddrs, StackPages, MaxPages, MaxCreates,
    \* Malloc
    HeapSize, Hdr, Align, Sizes, Pointers,
    \* LinkedList
    Heads, Elems, NoCell, MaxVisits

VARIABLES
    sys,            \* the component that runs
    \* AsyncIpc
    ipc_pc, peer, kind, ipc_senders, notifications, pending, async_messages, ipc_sent,
    ipc_got, dead_lock,
    \* VmServer
    task, notified, tasks, chunk, services, async, vm, again, kept, born,
    \* Fs
    disk, cache, dirty, fds, fs_pc, ops, crashes, last,
    \* HinaVm
    insts, hina_pc, regs, at, blocked, wait_for, hina_senders, m, out, cpu, runqueue, calls,
    hina_sent, hina_got, told,
    \* Memory
    mem, alive, table, stack, memory_got, l2s, created, vm_server,
    \* Malloc
    chunks, free_chunks, ptr, len, lost, panicked,
    \* LinkedList
    next, prev, popped, loop, elem, saved, start, visited

\* The network: the driver (1) passes packets on with ipc_send and gets packets
\* asynchronously from the TCP/IP server (2), which also serves the shell (3) and
\* sends it socket events.
NetAsync == {<<2, 1>>, <<2, 3>>}
NetCalls == {<<3, 2>>}
NetSends == {<<1, 2>>}

\* One task that sends to another asynchronously.
OneAsync == {<<1, 2>>}

\* What BOOT_SERVERS starts: the shell, an application that may look up before the
\* server registers, and the server; without a shell, an application and two servers.
ShellAppServer == <<"shell", "app", "server">>
TwoServers == <<"server", "app", "server">>

TreePaths == {<<>>, <<"a">>, <<"b">>, <<"a", "b">>}
OnlyA == {<<"a">>}
TwoFiles == {<<"a">>, <<"b">>}

ipc == INSTANCE AsyncIpc WITH
    Tasks <- IpcTasks, Async <- IpcAsync, Calls <- IpcCalls, Sends <- IpcSends, Listeners <-
    IpcListeners, pc <- ipc_pc, senders <- ipc_senders, sent <- ipc_sent, got <- ipc_got
vms == INSTANCE VmServer WITH
    Names <- ServiceNames, FrailServers <- FALSE, Killers <- FALSE
frail == INSTANCE VmServer WITH
    FrailServers <- TRUE, Killers <- FALSE, Names <- {"s"}, Startable <- {"app", "server"},
    Endings <- {"exit"}, MaxBorn <- 5
killers == INSTANCE VmServer WITH
    Names <- ServiceNames, FrailServers <- FALSE, Killers <- TRUE, BootServers <-
    TwoServers, Startable <- {}
fs == INSTANCE Fs WITH
    pc <- fs_pc
hina == INSTANCE HinaVm WITH
    Programs <- HinaPrograms, Bits <- WordBits, VM <- HinaTask, Natives <- HinaNatives, pc
    <- hina_pc, senders <- hina_senders, sent <- hina_sent, got <- hina_got
memory == INSTANCE Memory WITH
    Slots <- MemorySlots, got <- memory_got, Segments <- {"bss"}
paging == INSTANCE Memory WITH
    Slots <- MemorySlots, got <- memory_got, Segments <- {"file", "bss"}, Uaddrs <- {"lo",
    "lo2", "lo3"}, MaxPages <- 3, MaxCreates <- 1
low == INSTANCE Memory WITH
    Slots <- MemorySlots, got <- memory_got, NumPages <- 8, Segments <- {}
heap == INSTANCE Malloc
list == INSTANCE LinkedList WITH
    NULL <- NoCell

ASSUME ServersAssumption ==
    /\ ipc!AsyncAssumption
    /\ vms!VmAssumption
    /\ frail!VmAssumption
    /\ killers!VmAssumption
    /\ fs!FsAssumption
    /\ hina!HinaVmAssumption
    /\ memory!MemoryAssumption
    /\ paging!MemoryAssumption
    /\ low!MemoryAssumption
    /\ heap!HeapAssumption
    /\ list!ListAssumption

IpcVars ==
    <<ipc_pc, peer, kind, ipc_senders, notifications, pending, async_messages, ipc_sent,
      ipc_got, dead_lock>>
VmVars == <<task, notified, tasks, chunk, services, async, vm, again, kept, born>>
FsVars == <<disk, cache, dirty, fds, fs_pc, ops, crashes, last>>
HinaVars ==
    <<insts, hina_pc, regs, at, blocked, wait_for, hina_senders, m, out, cpu, runqueue,
      calls, hina_sent, hina_got, told>>
MemoryVars == <<mem, alive, table, stack, memory_got, l2s, created, vm_server>>
HeapVars == <<chunks, free_chunks, ptr, len, lost, panicked>>
ListVars == <<next, prev, popped, loop, elem, saved, start, visited>>
vars == <<sys, IpcVars, VmVars, FsVars, HinaVars, MemoryVars, HeapVars, ListVars>>

\* The state of a HinaVM that does not run does not matter.
Init ==
    /\ sys \in Components
    /\ ipc!Init /\ fs!Init /\ heap!Init /\ list!Init
    /\ IF sys = "vm_killers" THEN killers!Init ELSE vms!Init
    /\ CASE sys = "memory_low" -> low!Init [] sys = "memory_paging" -> paging!Init [] OTHER -> memory!Init
    /\ hina!Init /\ (sys # "hinavm" => insts = hina!pong /\ runqueue = <<1, 2, 3>>)

IpcStep ==
    /\ sys = "ipc" /\ ipc!Next
    /\ UNCHANGED <<sys, VmVars, FsVars, HinaVars, MemoryVars, HeapVars, ListVars>>

VmStep ==
    /\ \/ sys = "vm" /\ vms!Next
       \/ sys = "vm_frail" /\ frail!Next
       \/ sys = "vm_killers" /\ killers!Next
    /\ UNCHANGED <<sys, IpcVars, FsVars, HinaVars, MemoryVars, HeapVars, ListVars>>

FsStep ==
    /\ sys = "fs" /\ fs!Next
    /\ UNCHANGED <<sys, IpcVars, VmVars, HinaVars, MemoryVars, HeapVars, ListVars>>

HinaStep ==
    /\ sys = "hinavm" /\ hina!Next
    /\ UNCHANGED <<sys, IpcVars, VmVars, FsVars, MemoryVars, HeapVars, ListVars>>

MemoryStep ==
    /\ \/ sys = "memory" /\ memory!Next
       \/ sys = "memory_paging" /\ paging!Next
       \/ sys = "memory_low" /\ low!Next
    /\ UNCHANGED <<sys, IpcVars, VmVars, FsVars, HinaVars, HeapVars, ListVars>>

HeapStep ==
    /\ sys = "heap" /\ heap!Next
    /\ UNCHANGED <<sys, IpcVars, VmVars, FsVars, HinaVars, MemoryVars, ListVars>>

ListStep ==
    /\ sys = "lists" /\ list!Next
    /\ UNCHANGED <<sys, IpcVars, VmVars, FsVars, HinaVars, MemoryVars, HeapVars>>

Next == IpcStep \/ VmStep \/ FsStep \/ HinaStep \/ MemoryStep \/ HeapStep \/ ListStep

Spec == Init /\ [][Next]_vars

(***************************************************************************)
(* Fairness.  IPC: every task gets to run (Kernel!NoStarvation), and its   *)
(* program goes back to ipc_recv, whatever it sends in between.  VM        *)
(* server: every task runs, and the server takes messages in the order of  *)
(* their arrival, so none is passed over for ever.  HinaVM: what is in the *)
(* kernel goes on, and a quantum comes to its end.                         *)
(***************************************************************************)
Fairness ==
    /\ \A t \in IpcTasks : /\ WF_IpcVars(sys = "ipc" /\ ipc!Library(t) /\ ipc_pc[t] # "run")
                               /\ SF_IpcVars(sys = "ipc" /\ ipc!ipc_recv(t))
    /\ WF_VmVars(sys = "vm" /\ vms!Renotify)
    /\ \A t \in vms!Tids : /\ WF_VmVars(sys = "vm" /\ vms!Handle(t))
                           /\ WF_VmVars(sys = "vm" /\ vms!RecvNotification(t))
    /\ WF_HinaVars(sys = "hinavm" /\ hina!idle_task)
    /\ \A t \in hina!Tasks : WF_HinaVars(sys = "hinavm" /\ hina!Kernel(t))
    /\ \A t \in HinaNatives : WF_HinaVars(sys = "hinavm" /\ hina!preempt(t))

FairSpec == Spec /\ Fairness
-----------------------------------------------------------------------------
\* libs/user/ipc.c: no asynchronous message is forgotten, its receiver has been or is going to
\* be notified; the receiver of a non-blocking answer is waiting for it; and with these
\* partners no send is refused as a dead lock.
MessagesAnnounced ==
    sys = "ipc" => ipc!TypeOK /\ ipc!Announced /\ ipc!ReplyFindsReceiver /\ ipc!NoDeadLock

\* VM server: tasks[] has a structure of its own for every task that lives, and none is freed
\* twice; no task waits for a service that is registered; what a server keeps for a client
\* that has ended is not forgotten, and no message that a task has ended is left behind.
TasksTracked ==
    /\ sys \in {"vm", "vm_frail"} => vms!EntriesOwn /\ vms!VmAlive /\ vms!NoLeak
    /\ sys = "vm" => vms!TypeOK /\ vms!NoLostMessage
    /\ sys = "vm_frail" => frail!TypeOK
    /\ sys = "vm_killers" => killers!TypeOK
    /\ vms!NoForgottenWaiter

\* fs.c and block.c: every block that the directories and files on the disk refer to is marked
\* as used there at each moment, so after a crash too; when all requests are answered the
\* disk has what the cache has; no block belongs to two files, no directory has two entries
\* of one name, and what was created is found.
DiskConsistent ==
    sys = "fs" => /\ fs!TypeOK /\ fs!RefsAllocated /\ fs!IdleSaved /\ fs!BlocksOwned
                  /\ fs!NamesUnique /\ fs!CreatedFound

\* hinavm.c: a task gets the answer to its own ping, whoever else calls in between, and a task
\* is in one queue of the kernel at most, the one it waits in.
ProgramsAnswer == sys = "hinavm" => hina!TypeOK /\ hina!OwnAnswer /\ hina!QueuesSound

\* memory.c, vm.c and malloc.c: ref_count counts the uses of a page, so none is freed while in
\* use; task->pages has every page of the task, so all are freed with it; no page is mapped
\* by two tasks, and a device page has one owner.  The chunks of the heap tile it, the free
\* list has every free one, once, and what malloc returns has room for what was asked for.
MemoryOwned ==
    /\ sys = "memory" => /\ memory!TypeOK /\ memory!RefCount /\ memory!PagesListed
                         /\ memory!NoSharing /\ memory!DeviceExclusive
    /\ sys = "memory_paging" => paging!TypeOK /\ paging!RefCount /\ paging!PagesListed
    /\ sys = "memory_low" => low!TypeOK /\ low!RefCount /\ low!PagesListed
    /\ sys = "heap" => heap!TypeOK /\ heap!Tiled /\ heap!FreeListExact /\ heap!RoomForAll
-----------------------------------------------------------------------------
\* libs/user/ipc.c: asynchronous messages of one task to another arrive in the order they were
\* sent, once.  VM server: a lookup is answered with a task that has registered the name, and
\* a task ends because it exits or faults, or because its end is asked for.
StepsRight == ipc!InOrder /\ vms!AnswerRegistered /\ vms!OnlyAsked

\* libs/user/ipc.c: for each pair of tasks the library is a mailbox that loses nothing, and
\* from which every message is taken unless its receiver is left waiting in a late query.
ImplementsMailbox == ipc!ImplementsMailbox

\* fs.c: seen by its clients, files are sequences of bytes, and a write that succeeds has
\* stored all of its bytes.
ImplementsFiles == fs!ImplementsFiles /\ [](sys = "fs" => fs!StoresAll)

\* list.h: the pointers implement sequences in which an element is at most once; neighbours
\* point at each other, and LIST_FOR_EACH sees every member although its body removes them.
ImplementsLists ==
    /\ list!ImplementsLists
    /\ [](sys = "lists" => list!TypeOK /\ list!Symmetric /\ list!ForEachSeesAll)

\* libs/user/ipc.c: every call and query is answered, every blocking send taken.
CallsReturn == ipc!CallsReturn

\* The servers make progress: calls return, but for a query that came too late; what is kept
\* for a task that has ended is let go of, and do_start of the shell comes back when the task
\* has ended; pong, in HinaVM, serves every ping, and a native task that is ready runs in the
\* end.
Progress ==
    /\ ipc!CallsAnswered /\ (sys = "vm" => vms!Freed) /\ vms!Prompt
    /\ hina!Served /\ (sys = "hinavm" => hina!OthersRun)
=============================================================================
