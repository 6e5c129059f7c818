--------------------------- MODULE ServersProofs ---------------------------
(***************************************************************************)
(* Theorems about the components of MCServers, for any values of their     *)
(* constants that MCServers assumes.                                       *)
(***************************************************************************)
EXTENDS MCServers, TLAPS

-----------------------------------------------------------------------------
(* The IPC library.                                                        *)

\* The proofs about AsyncIpc and LinkedList.
libProofs == INSTANCE LibraryProofs WITH
    Tasks <- IpcTasks, Async <- IpcAsync, Calls <- IpcCalls, Sends <- IpcSends, Listeners <-
    IpcListeners, pc <- ipc_pc, senders <- ipc_senders, sent <- ipc_sent, got <- ipc_got

\* MCServers' instance of AsyncIpc is that of the proofs.
LEMMA SameIpc ==
    /\ ipc!AsyncAssumption => libProofs!AsyncAssumption
    /\ ipc!Init => libProofs!Init
    /\ ipc!Next => libProofs!Next
    /\ ipc!NoCrossing => libProofs!NoCrossing
<1>1. ipc!AsyncAssumption => libProofs!AsyncAssumption
  BY DEF ipc!AsyncAssumption, libProofs!AsyncAssumption
<1>2. ipc!Init => libProofs!Init
  BY DEF ipc!Init, libProofs!Init, ipc!NoTask, libProofs!NoTask
<1>3. ipc!Next => libProofs!Next
  BY DEF
      ipc!Next, libProofs!Next, ipc!Library, libProofs!Library, ipc!NoTask,
      libProofs!NoTask, ipc!IRQ, libProofs!IRQ, ipc!NOTIFY_ASYNC, libProofs!NOTIFY_ASYNC,
      ipc!Taken, libProofs!Taken, ipc!Sent, libProofs!Sent, ipc!Notify, libProofs!Notify,
      ipc!HandOver, libProofs!HandOver, ipc!Dropped, libProofs!Dropped, ipc!DeadLock,
      libProofs!DeadLock, ipc!Send, libProofs!Send, ipc!ipc_send, libProofs!ipc_send,
      ipc!ipc_call, libProofs!ipc_call, ipc!ipc_recv, libProofs!ipc_recv, ipc!Enqueue,
      libProofs!Enqueue, ipc!ipc_send_async, libProofs!ipc_send_async, ipc!First,
      libProofs!First, ipc!recv_notification_as_message,
      libProofs!recv_notification_as_message, ipc!ipc_recv_any, libProofs!ipc_recv_any,
      ipc!ipc_reply, libProofs!ipc_reply, ipc!For, libProofs!For, ipc!After,
      libProofs!After, ipc!async_reply, libProofs!async_reply, ipc!async_renotify,
      libProofs!async_renotify, ipc!interrupt, libProofs!interrupt, ipc!RemoveAt,
      libProofs!RemoveAt, ipc!ToSet, libProofs!ToSet, ipc!Ready, libProofs!Ready
<1>4. ipc!NoCrossing => libProofs!NoCrossing
  BY DEF ipc!NoCrossing, libProofs!NoCrossing, ipc!WaitsFor, libProofs!WaitsFor
<1>. QED BY <1>1, <1>2, <1>3, <1>4

\* The mailbox that AsyncIpc implements is the same one too.
LEMMA SameMailbox ==
    /\ libProofs!Abstract!Init => ipc!Abstract!Init
    /\ libProofs!Abstract!Next => ipc!Abstract!Next
    /\ UNCHANGED libProofs!Abstract!boxVars => UNCHANGED ipc!Abstract!boxVars
<1>. USE DEF ipc!box, libProofs!box, ipc!NumbersFor, libProofs!NumbersFor, ipc!Numbers, libProofs!Numbers
<1>1. libProofs!Abstract!Init => ipc!Abstract!Init
  BY DEF ipc!Abstract!Init, libProofs!Abstract!Init, ipc!Abstract!Empty, libProofs!Abstract!Empty
<1>2. libProofs!Abstract!Next => ipc!Abstract!Next
  BY DEF ipc!Abstract!Next, libProofs!Abstract!Next, ipc!Abstract!Send, libProofs!Abstract!Send,
         ipc!Abstract!Receive, libProofs!Abstract!Receive
<1>3. UNCHANGED libProofs!Abstract!boxVars => UNCHANGED ipc!Abstract!boxVars
  BY DEF ipc!Abstract!boxVars, libProofs!Abstract!boxVars
<1>. QED BY <1>1, <1>2, <1>3

\* A step of the system is one of the library or leaves its state alone.
LEMMA IpcNext ==
    ASSUME [Next]_vars
    PROVE  [libProofs!Next]_(libProofs!vars)
<1>1. ipc!Next \/ UNCHANGED IpcVars
  BY DEF Next, IpcStep, VmStep, FsStep, HinaStep, MemoryStep, HeapStep, ListStep, vars
<1>2. UNCHANGED IpcVars => UNCHANGED libProofs!vars
  BY DEF IpcVars, libProofs!vars, libProofs!kernelVars
<1>. QED BY <1>1, <1>2, SameIpc

\* The constants are as the library's proofs assume them.
LEMMA IpcAssumed == libProofs!AsyncAssumption
  BY ServersAssumption, SameIpc DEF ServersAssumption

LEMMA InitIpcs == Init => libProofs!IpcsInv
  BY IpcAssumed, SameIpc, libProofs!InitIpcs DEF Init

LEMMA NextIpcs == libProofs!IpcsInv /\ [Next]_vars => libProofs!IpcsInv'
  BY IpcAssumed, IpcNext, libProofs!NextIpcs

\* libs/user/ipc.c: every asynchronous message in a sender's list is or will be announced to its
\* receiver, the receiver of an answer always waits for it, and when no two of the tasks may
\* wait for each other none of them is ever refused a message.
THEOREM AsyncMessagesAnnounced ==
    ASSUME ipc!NoCrossing
    PROVE  Spec => []MessagesAnnounced
<1>1. libProofs!IpcsInv => MessagesAnnounced
  <2>. SUFFICES ASSUME libProofs!IpcsInv PROVE MessagesAnnounced
    OBVIOUS
  <2>1. libProofs!IpcInv /\ dead_lock = {}
    BY SameIpc DEF libProofs!IpcsInv
  <2>2. ipc!TypeOK
    BY <2>1 DEF libProofs!IpcInv, libProofs!TypeOK, ipc!TypeOK, libProofs!Places, ipc!Places,
         libProofs!Kinds, ipc!Kinds, libProofs!Bits, ipc!Bits, libProofs!IRQ, ipc!IRQ,
         libProofs!NOTIFY_ASYNC, ipc!NOTIFY_ASYNC, libProofs!Numbers, ipc!Numbers,
         libProofs!NoTask, ipc!NoTask
  <2>3. ipc!Announced /\ ipc!ReplyFindsReceiver
    BY <2>1 DEF libProofs!IpcInv, libProofs!Announced, ipc!Announced, libProofs!For, ipc!For,
         libProofs!NOTIFY_ASYNC, ipc!NOTIFY_ASYNC, libProofs!ReplyFindsReceiver, ipc!ReplyFindsReceiver
  <2>. QED BY <2>1, <2>2, <2>3 DEF MessagesAnnounced, ipc!NoDeadLock
<1>. QED BY <1>1, InitIpcs, NextIpcs, PTL DEF Spec

-----------------------------------------------------------------------------
(* The VM server.                                                          *)

\* The proofs about VmServer, for the three instances of MCServers.
vmProofs == INSTANCE VmServerProofs WITH
    Names <- ServiceNames, FrailServers <- FALSE, Killers <- FALSE
frailProofs == INSTANCE VmServerProofs WITH
    FrailServers <- TRUE, Killers <- FALSE, Names <- {"s"}, Startable <- {"app", "server"},
    Endings <- {"exit"}, MaxBorn <- 5
killersProofs == INSTANCE VmServerProofs WITH
    Names <- ServiceNames, FrailServers <- FALSE, Killers <- TRUE, BootServers <-
    TwoServers, Startable <- {}

\* The invariants of the three instances; where none of them runs the VM server is where it starts.
VmsInv ==
    /\ sys = "vm_frail" => frailProofs!VmInv
    /\ sys = "vm_killers" => killersProofs!VmInv
    /\ sys \notin {"vm_frail", "vm_killers"} => vmProofs!VmInv

\* The instance of VmServer where applications exit or fault is that of the proofs.
LEMMA SameVm ==
    /\ vms!VmAssumption => vmProofs!VmAssumption
    /\ vms!Init => vmProofs!Init
    /\ vms!Next => vmProofs!Next
<1>1. vms!VmAssumption => vmProofs!VmAssumption
  BY DEF vms!VmAssumption, vmProofs!VmAssumption, vms!Programs, vmProofs!Programs
<1>2. vms!Init => vmProofs!Init
  BY DEF
      vms!Init, vmProofs!Init, vms!Tids, vmProofs!Tids, vms!Chunks, vmProofs!Chunks,
      vms!Fresh, vmProofs!Fresh, vms!Unused, vmProofs!Unused, vms!Structure,
      vmProofs!Structure, vms!Programs, vmProofs!Programs
<1>3. vms!Next => vmProofs!Next
  BY DEF
      vms!Next, vmProofs!Next, vms!Tids, vmProofs!Tids, vms!Chunks, vmProofs!Chunks,
      vms!vars, vmProofs!vars, vms!vmVars, vmProofs!vmVars, vms!Fresh, vmProofs!Fresh,
      vms!Unused, vmProofs!Unused, vms!Alive, vmProofs!Alive, vms!Structure,
      vmProofs!Structure, vms!Sends, vmProofs!Sends, vms!Send, vmProofs!Send, vms!InLoop,
      vmProofs!InLoop, vms!Asking, vmProofs!Asking, vms!RecvNotification,
      vmProofs!RecvNotification, vms!Serve, vmProofs!Serve, vms!RecvRequest,
      vmProofs!RecvRequest, vms!Received, vmProofs!Received, vms!Answer, vmProofs!Answer,
      vms!task_find, vmProofs!task_find, vms!Checked, vmProofs!Checked, vms!WatchTasks,
      vmProofs!WatchTasks, vms!Waiters, vmProofs!Waiters, vms!service_register,
      vmProofs!service_register, vms!Register, vmProofs!Register, vms!Named, vmProofs!Named,
      vms!Lookup, vmProofs!Lookup, vms!alloc_tid, vmProofs!alloc_tid, vms!task_spawn,
      vmProofs!task_spawn, vms!bootfs_open, vmProofs!bootfs_open, vms!Programs,
      vmProofs!Programs, vms!Spawn, vmProofs!Spawn, vms!Watchers, vmProofs!Watchers,
      vms!Told, vmProofs!Told, vms!Aborted, vmProofs!Aborted, vms!task_destroy,
      vmProofs!task_destroy, vms!Exception, vmProofs!Exception, vms!PageFault,
      vmProofs!PageFault, vms!Entries, vmProofs!Entries, vms!DestroyTask,
      vmProofs!DestroyTask, vms!Queued, vmProofs!Queued, vms!Handled, vmProofs!Handled,
      vms!MoreQueued, vmProofs!MoreQueued, vms!AsyncReply, vmProofs!AsyncReply,
      vms!Renotify, vmProofs!Renotify, vms!RemoveAt, vmProofs!RemoveAt, vms!Min,
      vmProofs!Min
<1>. QED BY <1>1, <1>2, <1>3

\* The instance of VmServer where servers fault too is that of the proofs.
LEMMA SameFrail ==
    /\ frail!VmAssumption => frailProofs!VmAssumption
    /\ frail!Init => frailProofs!Init
    /\ frail!Next => frailProofs!Next
<1>1. frail!VmAssumption => frailProofs!VmAssumption
  BY DEF frail!VmAssumption, frailProofs!VmAssumption, frail!Programs, frailProofs!Programs
<1>2. frail!Init => frailProofs!Init
  BY DEF
      frail!Init, frailProofs!Init, frail!Tids, frailProofs!Tids, frail!Chunks,
      frailProofs!Chunks, frail!Fresh, frailProofs!Fresh, frail!Unused, frailProofs!Unused,
      frail!Structure, frailProofs!Structure, frail!Programs, frailProofs!Programs
<1>3. frail!Next => frailProofs!Next
  BY DEF
      frail!Next, frailProofs!Next, frail!Tids, frailProofs!Tids, frail!Chunks,
      frailProofs!Chunks, frail!vars, frailProofs!vars, frail!vmVars, frailProofs!vmVars,
      frail!Fresh, frailProofs!Fresh, frail!Unused, frailProofs!Unused, frail!Alive,
      frailProofs!Alive, frail!Structure, frailProofs!Structure, frail!Sends,
      frailProofs!Sends, frail!Send, frailProofs!Send, frail!InLoop, frailProofs!InLoop,
      frail!Asking, frailProofs!Asking, frail!RecvNotification,
      frailProofs!RecvNotification, frail!Serve, frailProofs!Serve, frail!RecvRequest,
      frailProofs!RecvRequest, frail!Received, frailProofs!Received, frail!Answer,
      frailProofs!Answer, frail!task_find, frailProofs!task_find, frail!Checked,
      frailProofs!Checked, frail!WatchTasks, frailProofs!WatchTasks, frail!Waiters,
      frailProofs!Waiters, frail!service_register, frailProofs!service_register,
      frail!Register, frailProofs!Register, frail!Named, frailProofs!Named, frail!Lookup,
      frailProofs!Lookup, frail!alloc_tid, frailProofs!alloc_tid, frail!task_spawn,
      frailProofs!task_spawn, frail!bootfs_open, frailProofs!bootfs_open, frail!Programs,
      frailProofs!Programs, frail!Spawn, frailProofs!Spawn, frail!Watchers,
      frailProofs!Watchers, frail!Told, frailProofs!Told, frail!Aborted,
      frailProofs!Aborted, frail!task_destroy, frailProofs!task_destroy, frail!Exception,
      frailProofs!Exception, frail!PageFault, frailProofs!PageFault, frail!Entries,
      frailProofs!Entries, frail!DestroyTask, frailProofs!DestroyTask, frail!Queued,
      frailProofs!Queued, frail!Handled, frailProofs!Handled, frail!MoreQueued,
      frailProofs!MoreQueued, frail!AsyncReply, frailProofs!AsyncReply, frail!Renotify,
      frailProofs!Renotify, frail!RemoveAt, frailProofs!RemoveAt, frail!Min, frailProofs!Min
<1>. QED BY <1>1, <1>2, <1>3

\* The instance of VmServer where applications have others destroyed is that of the proofs.
LEMMA SameKillers ==
    /\ killers!VmAssumption => killersProofs!VmAssumption
    /\ killers!Init => killersProofs!Init
    /\ killers!Next => killersProofs!Next
<1>1. killers!VmAssumption => killersProofs!VmAssumption
  BY DEF killers!VmAssumption, killersProofs!VmAssumption, killers!Programs, killersProofs!Programs
<1>2. killers!Init => killersProofs!Init
  BY DEF
      killers!Init, killersProofs!Init, killers!Tids, killersProofs!Tids, killers!Chunks,
      killersProofs!Chunks, killers!Fresh, killersProofs!Fresh, killers!Unused,
      killersProofs!Unused, killers!Structure, killersProofs!Structure, killers!Programs,
      killersProofs!Programs
<1>3. killers!Next => killersProofs!Next
  BY DEF
      killers!Next, killersProofs!Next, killers!Tids, killersProofs!Tids, killers!Chunks,
      killersProofs!Chunks, killers!vars, killersProofs!vars, killers!vmVars,
      killersProofs!vmVars, killers!Fresh, killersProofs!Fresh, killers!Unused,
      killersProofs!Unused, killers!Alive, killersProofs!Alive, killers!Structure,
      killersProofs!Structure, killers!Sends, killersProofs!Sends, killers!Send,
      killersProofs!Send, killers!InLoop, killersProofs!InLoop, killers!Asking,
      killersProofs!Asking, killers!RecvNotification, killersProofs!RecvNotification,
      killers!Serve, killersProofs!Serve, killers!RecvRequest, killersProofs!RecvRequest,
      killers!Received, killersProofs!Received, killers!Answer, killersProofs!Answer,
      killers!task_find, killersProofs!task_find, killers!Checked, killersProofs!Checked,
      killers!WatchTasks, killersProofs!WatchTasks, killers!Waiters, killersProofs!Waiters,
      killers!service_register, killersProofs!service_register, killers!Register,
      killersProofs!Register, killers!Named, killersProofs!Named, killers!Lookup,
      killersProofs!Lookup, killers!alloc_tid, killersProofs!alloc_tid, killers!task_spawn,
      killersProofs!task_spawn, killers!bootfs_open, killersProofs!bootfs_open,
      killers!Programs, killersProofs!Programs, killers!Spawn, killersProofs!Spawn,
      killers!Watchers, killersProofs!Watchers, killers!Told, killersProofs!Told,
      killers!Aborted, killersProofs!Aborted, killers!task_destroy,
      killersProofs!task_destroy, killers!Exception, killersProofs!Exception,
      killers!PageFault, killersProofs!PageFault, killers!Entries, killersProofs!Entries,
      killers!DestroyTask, killersProofs!DestroyTask, killers!Queued, killersProofs!Queued,
      killers!Handled, killersProofs!Handled, killers!MoreQueued, killersProofs!MoreQueued,
      killers!AsyncReply, killersProofs!AsyncReply, killers!Renotify,
      killersProofs!Renotify, killers!RemoveAt, killersProofs!RemoveAt, killers!Min,
      killersProofs!Min
<1>. QED BY <1>1, <1>2, <1>3

LEMMA VmsConstants ==
    /\ vmProofs!VmAssumption /\ frailProofs!VmAssumption /\ killersProofs!VmAssumption
    /\ vmProofs!NoRebirth /\ frailProofs!NoRebirth /\ killersProofs!NoRebirth
<1>1. vmProofs!VmAssumption /\ frailProofs!VmAssumption /\ killersProofs!VmAssumption
  BY ServersAssumption, SameVm, SameFrail, SameKillers DEF ServersAssumption
<1>2. vmProofs!NoRebirth /\ frailProofs!NoRebirth /\ killersProofs!NoRebirth
  BY DEF vmProofs!NoRebirth, frailProofs!NoRebirth, killersProofs!NoRebirth
<1>. QED BY <1>1, <1>2

LEMMA InitVms == Init => VmsInv
<1>1. vms!Init => frail!Init
  BY DEF
      vms!Init, frail!Init, vms!Fresh, frail!Fresh, vms!Unused, frail!Unused, vms!Structure,
      frail!Structure, vms!Tids, frail!Tids, vms!Chunks, frail!Chunks, vms!Alive,
      frail!Alive, vms!Named, frail!Named
<1>2. /\ vmProofs!Init => vmProofs!VmInv
      /\ frailProofs!Init => frailProofs!VmInv
      /\ killersProofs!Init => killersProofs!VmInv
  BY VmsConstants, vmProofs!InitVm, frailProofs!InitVm, killersProofs!InitVm
<1>. QED BY <1>1, <1>2, SameVm, SameFrail, SameKillers, Zenon DEF Init, VmsInv

\* A step of MCServers is a step of the instance that runs, or one that leaves the VM server alone.
LEMMA VmsStep ==
    ASSUME [Next]_vars
    PROVE  /\ sys' = sys
           /\ sys = "vm_frail" => [frailProofs!Next]_(frailProofs!vars)
           /\ sys = "vm_killers" => [killersProofs!Next]_(killersProofs!vars)
           /\ sys \notin {"vm_frail", "vm_killers"} => [vmProofs!Next]_(vmProofs!vars)
<1>1. CASE VmStep
  <2>1. /\ sys' = sys
        /\ \/ sys = "vm" /\ vms!Next
           \/ sys = "vm_frail" /\ frail!Next
           \/ sys = "vm_killers" /\ killers!Next
    BY <1>1, Zenon DEF VmStep
  <2>. QED BY <2>1, SameVm, SameFrail, SameKillers
<1>2. CASE UNCHANGED <<sys, VmVars>>
  <2>1. UNCHANGED vmProofs!vars /\ UNCHANGED frailProofs!vars /\ UNCHANGED killersProofs!vars
    BY <1>2 DEF VmVars, vmProofs!vars, frailProofs!vars, killersProofs!vars, vmProofs!vmVars, frailProofs!vmVars, killersProofs!vmVars
  <2>. QED BY <1>2, <2>1
<1>. QED BY <1>1, <1>2 DEF Next, IpcStep, FsStep, HinaStep, MemoryStep, HeapStep, ListStep, vars

LEMMA NextVms == VmsInv /\ [Next]_vars => VmsInv'
<1>. SUFFICES ASSUME VmsInv, [Next]_vars PROVE VmsInv'
  OBVIOUS
<1>1. CASE sys = "vm_frail"
  <2>1. frailProofs!VmInv'
    BY <1>1, VmsStep, VmsConstants, frailProofs!NextKept, Zenon DEF VmsInv
  <2>. QED BY <1>1, <2>1, VmsStep DEF VmsInv
<1>2. CASE sys = "vm_killers"
  <2>1. killersProofs!VmInv'
    BY <1>2, VmsStep, VmsConstants, killersProofs!NextKept, Zenon DEF VmsInv
  <2>. QED BY <1>2, <2>1, VmsStep DEF VmsInv
<1>3. CASE sys \notin {"vm_frail", "vm_killers"}
  <2>1. vmProofs!VmInv'
    BY <1>3, VmsStep, VmsConstants, vmProofs!NextKept, Zenon DEF VmsInv
  <2>. QED BY <1>3, <2>1, VmsStep DEF VmsInv
<1>. QED BY <1>1, <1>2, <1>3

LEMMA VmsInvSays == VmsInv => TasksTracked
<1>. SUFFICES ASSUME VmsInv PROVE TasksTracked
  OBVIOUS
<1>1. ASSUME vmProofs!VmInv
      PROVE  /\ vms!TypeOK /\ vms!EntriesOwn /\ vms!VmAlive /\ vms!NoLeak /\ vms!NoLostMessage
             /\ vms!NoForgottenWaiter
  <2>1. /\ vmProofs!TypeOK /\ vmProofs!EntriesOwn /\ vmProofs!VmAlive /\ vmProofs!NoLeak
        /\ vmProofs!NoLostMessage /\ vmProofs!NoForgottenWaiter
    BY <1>1, VmsConstants, vmProofs!VmInvSays
  <2>. QED BY <2>1 DEF
      vms!TypeOK, vmProofs!TypeOK, vms!EntriesOwn, vmProofs!EntriesOwn, vms!VmAlive,
      vmProofs!VmAlive, vms!NoLeak, vmProofs!NoLeak, vms!NoLostMessage,
      vmProofs!NoLostMessage, vms!NoForgottenWaiter, vmProofs!NoForgottenWaiter, vms!Tids,
      vmProofs!Tids, vms!Chunks, vmProofs!Chunks, vms!Alive, vmProofs!Alive, vms!Named,
      vmProofs!Named
<1>2. ASSUME frailProofs!VmInv
      PROVE  /\ frail!TypeOK /\ vms!EntriesOwn /\ vms!VmAlive /\ vms!NoLeak /\ vms!NoForgottenWaiter
  <2>1. /\ frailProofs!TypeOK /\ frailProofs!EntriesOwn /\ frailProofs!VmAlive /\ frailProofs!NoLeak
        /\ frailProofs!NoForgottenWaiter
    BY <1>2, VmsConstants, frailProofs!VmInvSays
  <2>. QED BY <2>1 DEF
      vms!TypeOK, frail!TypeOK, frailProofs!TypeOK, vms!EntriesOwn, frail!EntriesOwn,
      frailProofs!EntriesOwn, vms!VmAlive, frail!VmAlive, frailProofs!VmAlive, vms!NoLeak,
      frail!NoLeak, frailProofs!NoLeak, vms!NoLostMessage, frail!NoLostMessage,
      frailProofs!NoLostMessage, vms!NoForgottenWaiter, frail!NoForgottenWaiter,
      frailProofs!NoForgottenWaiter, vms!Tids, frail!Tids, frailProofs!Tids, vms!Chunks,
      frail!Chunks, frailProofs!Chunks, vms!Alive, frail!Alive, frailProofs!Alive,
      vms!Named, frail!Named, frailProofs!Named
<1>3. ASSUME killersProofs!VmInv
      PROVE  killers!TypeOK /\ vms!NoForgottenWaiter
  <2>1. killersProofs!TypeOK /\ killersProofs!NoForgottenWaiter
    BY <1>3, VmsConstants, killersProofs!VmInvSays
  <2>. QED BY <2>1 DEF
      vms!TypeOK, killers!TypeOK, killersProofs!TypeOK, vms!EntriesOwn, killers!EntriesOwn,
      killersProofs!EntriesOwn, vms!VmAlive, killers!VmAlive, killersProofs!VmAlive,
      vms!NoLeak, killers!NoLeak, killersProofs!NoLeak, vms!NoLostMessage,
      killers!NoLostMessage, killersProofs!NoLostMessage, vms!NoForgottenWaiter,
      killers!NoForgottenWaiter, killersProofs!NoForgottenWaiter, vms!Tids, killers!Tids,
      killersProofs!Tids, vms!Chunks, killers!Chunks, killersProofs!Chunks, vms!Alive,
      killers!Alive, killersProofs!Alive, vms!Named, killers!Named, killersProofs!Named
<1>. QED BY <1>1, <1>2, <1>3 DEF VmsInv, TasksTracked

LEMMA VmsStepSays ==
    ASSUME VmsInv, [Next]_vars
    PROVE  vmProofs!AnswerStep /\ vmProofs!AskedStep
<1>1. CASE sys = "vm_frail"
  <2>1. frailProofs!AnswerStep /\ frailProofs!AskedStep
    BY <1>1, VmsStep, VmsConstants, frailProofs!StepSays, Zenon DEF VmsInv
  <2>. QED BY <2>1 DEF
      vmProofs!AnswerStep, frailProofs!AnswerStep, vmProofs!AskedStep,
      frailProofs!AskedStep, vmProofs!Asking, frailProofs!Asking, vmProofs!Tids,
      frailProofs!Tids, vmProofs!Chunks, frailProofs!Chunks, vmProofs!Alive,
      frailProofs!Alive, vmProofs!Named, frailProofs!Named
<1>2. CASE sys = "vm_killers"
  <2>1. killersProofs!AnswerStep /\ killersProofs!AskedStep
    BY <1>2, VmsStep, VmsConstants, killersProofs!StepSays, Zenon DEF VmsInv
  <2>. QED BY <2>1 DEF
      vmProofs!AnswerStep, killersProofs!AnswerStep, vmProofs!AskedStep,
      killersProofs!AskedStep, vmProofs!Asking, killersProofs!Asking, vmProofs!Tids,
      killersProofs!Tids, vmProofs!Chunks, killersProofs!Chunks, vmProofs!Alive,
      killersProofs!Alive, vmProofs!Named, killersProofs!Named
<1>3. CASE sys \notin {"vm_frail", "vm_killers"}
  BY <1>3, VmsStep, VmsConstants, vmProofs!StepSays, Zenon DEF VmsInv
<1>. QED BY <1>1, <1>2, <1>3

\* servers/vm: for any number of tasks, programs and services, the table has a structure of its
\* own for every task that lives, and none is freed twice; no task waits for a service that is
\* registered; what a server keeps for a client that has ended is not forgotten, and no message
\* that a task has ended is left behind.
THEOREM TasksAreTracked == Spec => []TasksTracked
<1>. QED BY InitVms, NextVms, VmsInvSays, PTL DEF Spec

\* libs/user/ipc.c: asynchronous messages arrive once and in order.  servers/vm: a lookup is
\* answered with a task that has registered the name, and a task ends because it exits or
\* faults, or because its end is asked for.
THEOREM StepsAreRight == Spec => StepsRight
<1>1. Init => ipc!Abstract!Init
  BY IpcAssumed, SameIpc, SameMailbox, libProofs!InitIsMail DEF Init
<1>2. VmsInv /\ [Next]_vars => [vmProofs!AnswerStep]_(vms!vars) /\ [vmProofs!AskedStep]_(vms!vars)
  BY VmsStepSays
<1>3. libProofs!IpcsInv /\ [Next]_vars => [ipc!Abstract!Next]_(ipc!Abstract!boxVars)
  BY IpcAssumed, IpcNext, SameMailbox, libProofs!StepIsMail
<1>4. Spec => [][vmProofs!AnswerStep]_(vms!vars) /\ [][vmProofs!AskedStep]_(vms!vars)
  BY <1>2, InitVms, NextVms, PTL DEF Spec
<1>5. Spec => ipc!Abstract!Init /\ [][ipc!Abstract!Next]_(ipc!Abstract!boxVars)
  BY <1>1, <1>3, InitIpcs, NextIpcs, PTL DEF Spec
<1>6. Spec => vms!AnswerRegistered /\ vms!OnlyAsked
  BY <1>4 DEF vms!AnswerRegistered, vms!OnlyAsked,
      vmProofs!AnswerStep, vmProofs!AskedStep, vmProofs!Asking, vmProofs!Tids,
      vmProofs!Chunks, vmProofs!Alive, vmProofs!Named, vms!Tids, vms!Alive, vms!Asking
<1>. QED BY <1>5, <1>6 DEF StepsRight, ipc!InOrder

-----------------------------------------------------------------------------
(* The lists.                                                              *)

\* MCServers' instance of LinkedList is that of the proofs.
LEMMA SameList ==
    /\ list!ListAssumption => libProofs!list!ListAssumption
    /\ list!Init => libProofs!list!Init
    /\ list!Next => libProofs!list!Next
    /\ libProofs!list!seqs = list!seqs
<1>1. list!ListAssumption => libProofs!list!ListAssumption
  BY DEF list!ListAssumption, libProofs!list!ListAssumption, list!IsFiniteSet, libProofs!list!IsFiniteSet
<1>2. list!Init => libProofs!list!Init
  BY DEF list!Init, libProofs!list!Init, list!Cells, libProofs!list!Cells
<1>3. list!Next => libProofs!list!Next
  BY DEF
      list!Next, libProofs!list!Next, list!foreach_next, libProofs!list!foreach_next, list!body,
      libProofs!list!body, list!outside, libProofs!list!outside, list!foreach, libProofs!list!foreach,
      list!Enter, libProofs!list!Enter, list!SaveNext, libProofs!list!SaveNext, list!list_remove,
      libProofs!list!list_remove, list!list_push_back, libProofs!list!list_push_back,
      list!list_pop_front, libProofs!list!list_pop_front, list!list_insert, libProofs!list!list_insert,
      list!list_contains, libProofs!list!list_contains, list!list_is_linked,
      libProofs!list!list_is_linked, list!Walk, libProofs!list!Walk, list!Cardinality,
      libProofs!list!Cardinality, list!Min, libProofs!list!Min, list!ToSet, libProofs!list!ToSet,
      list!Nullified, libProofs!list!Nullified, list!Unlink, libProofs!list!Unlink,
      list!ptrVars, libProofs!list!ptrVars, list!loopVars, libProofs!list!loopVars
<1>4. libProofs!list!seqs = list!seqs
  BY DEF list!seqs, libProofs!list!seqs, list!Walk, libProofs!list!Walk, list!Cardinality,
         libProofs!list!Cardinality, list!Min, libProofs!list!Min
<1>. QED BY <1>1, <1>2, <1>3, <1>4

\* And so is what they implement and keep.
LEMMA SameSequences ==
    /\ libProofs!list!Abstract!Init => list!Abstract!Init
    /\ [libProofs!list!Abstract!Next]_<<libProofs!list!seqs, popped>> => [list!Abstract!Next]_<<list!seqs, popped>>
    /\ libProofs!list!TypeOK => list!TypeOK
    /\ libProofs!list!Symmetric => list!Symmetric
    /\ libProofs!list!ForEachSeesAll => list!ForEachSeesAll
<1>1. libProofs!list!Abstract!Init => list!Abstract!Init
  BY SameList DEF list!Abstract!Init, libProofs!list!Abstract!Init
<1>2. libProofs!list!seqs' = list!seqs'
  BY DEF list!seqs, libProofs!list!seqs, list!Walk, libProofs!list!Walk, list!Cardinality,
         libProofs!list!Cardinality, list!Min, libProofs!list!Min
<1>3. libProofs!list!Abstract!Next => list!Abstract!Next
  BY DEF list!Abstract!Next, libProofs!list!Abstract!Next, list!Abstract!Remove,
         libProofs!list!Abstract!Remove, list!Abstract!Pop, libProofs!list!Abstract!Pop,
         list!Abstract!Push, libProofs!list!Abstract!Push, list!Abstract!Linked,
         libProofs!list!Abstract!Linked, list!Abstract!Without, libProofs!list!Abstract!Without,
         list!Abstract!Range, libProofs!list!Abstract!Range, list!seqs, libProofs!list!seqs,
         list!Walk, libProofs!list!Walk, list!Cardinality, libProofs!list!Cardinality, list!Min,
         libProofs!list!Min
<1>4. libProofs!list!TypeOK => list!TypeOK
  BY DEF list!TypeOK, libProofs!list!TypeOK, list!Cells, libProofs!list!Cells
<1>5. libProofs!list!Symmetric => list!Symmetric
  BY DEF list!Symmetric, libProofs!list!Symmetric, list!Cells, libProofs!list!Cells
<1>6. libProofs!list!ForEachSeesAll => list!ForEachSeesAll
  BY DEF list!ForEachSeesAll, libProofs!list!ForEachSeesAll, list!IsPrefix, libProofs!list!IsPrefix
<1>. QED BY SameList, <1>1, <1>2, <1>3, <1>4, <1>5, <1>6

LEMMA InitLists == Init => libProofs!ListInv /\ list!Abstract!Init
<1>1. libProofs!list!ListAssumption
  BY ServersAssumption, SameList DEF ServersAssumption
<1>2. Init => libProofs!list!Init
  BY SameList DEF Init
<1>3. libProofs!list!Init => libProofs!ListInv
  BY <1>1, libProofs!InitLists
<1>4. libProofs!list!Init => libProofs!list!Abstract!Init
  BY <1>1, libProofs!InitSequences
<1>. QED BY <1>2, <1>3, <1>4, SameSequences

LEMMA NextLists ==
    libProofs!ListInv /\ [Next]_vars => libProofs!ListInv' /\ [list!Abstract!Next]_<<list!seqs, popped>>
<1>1. libProofs!list!ListAssumption
  BY ServersAssumption, SameList DEF ServersAssumption
<1>2. [Next]_vars => list!Next \/ UNCHANGED ListVars
  BY DEF Next, IpcStep, VmStep, FsStep, HinaStep, MemoryStep, HeapStep, ListStep, vars
<1>3. UNCHANGED ListVars => UNCHANGED libProofs!list!vars
  BY DEF ListVars, libProofs!list!vars, libProofs!list!ptrVars, libProofs!list!loopVars
<1>4. [Next]_vars => [libProofs!list!Next]_(libProofs!list!vars)
  BY <1>2, <1>3, SameList
<1>. QED BY <1>1, <1>4, libProofs!NextLists, SameSequences

LEMMA ListsSay == libProofs!ListInv => list!TypeOK /\ list!Symmetric /\ list!ForEachSeesAll
<1>1. libProofs!list!ListAssumption
  BY ServersAssumption, SameList DEF ServersAssumption
<1>. QED BY <1>1, libProofs!ListInvSays, SameSequences

\* libs/common/list.c and list.h, for any heads and elements: the pointers implement sequences in
\* which an element is at most once; neighbours point at each other, and LIST_FOR_EACH sees every
\* member it began with although its body removes them.
THEOREM ListsImplemented == Spec => ImplementsLists
<1>1. Spec => []libProofs!ListInv /\ list!ImplementsLists
  BY InitLists, NextLists, PTL DEF Spec, list!ImplementsLists, list!Abstract!Spec
<1>2. libProofs!ListInv => (sys = "lists" => list!TypeOK /\ list!Symmetric /\ list!ForEachSeesAll)
  BY ListsSay
<1>. QED BY <1>1, <1>2, PTL DEF ImplementsLists

-----------------------------------------------------------------------------
(* HinaVM.                                                                 *)

\* The programs of MCServers' instance of HinaVm are those of the proofs.
LEMMA SameCode ==
    libProofs!hina!Code = hina!Code /\ libProofs!hina!pong = hina!pong /\ libProofs!hina!echo = hina!echo
<1>. USE DEF
      hina!I_MOVI, libProofs!hina!I_MOVI, hina!I_MOV, libProofs!hina!I_MOV, hina!I_BINOP,
      libProofs!hina!I_BINOP, hina!I_LABEL, libProofs!hina!I_LABEL, hina!I_JMP,
      libProofs!hina!I_JMP, hina!I_JMP_IF, libProofs!hina!I_JMP_IF, hina!I_MSG,
      libProofs!hina!I_MSG, hina!I_IPC, libProofs!hina!I_IPC, hina!I_OP, libProofs!hina!I_OP,
      hina!IPC_ANY, libProofs!hina!IPC_ANY, hina!WORD, libProofs!hina!WORD, hina!PING_MSG,
      libProofs!hina!PING_MSG, hina!PING_REPLY_MSG, libProofs!hina!PING_REPLY_MSG, hina!pong,
      libProofs!hina!pong, hina!echo, libProofs!hina!echo, hina!client, libProofs!hina!client,
      hina!stray, libProofs!hina!stray, hina!illegal, libProofs!hina!illegal, hina!nobody,
      libProofs!hina!nobody, hina!self, libProofs!hina!self, hina!spin, libProofs!hina!spin,
      hina!Code, libProofs!hina!Code
<1>1. libProofs!hina!Code = hina!Code
  OBVIOUS
<1>2. libProofs!hina!pong = hina!pong
  OBVIOUS
<1>3. libProofs!hina!echo = hina!echo
  OBVIOUS
<1>. QED BY <1>1, <1>2, <1>3

\* And so are the results of their instructions.
LEMMA SameResult ==
    ASSUME NEW op, NEW x, NEW y
    PROVE  hina!Result(op, x, y) = libProofs!hina!Result(op, x, y)
  BY Zenon DEF
      hina!Result, libProofs!hina!Result, hina!EachBit, libProofs!hina!EachBit, hina!TwoBits,
      libProofs!hina!TwoBits, hina!Quotient, libProofs!hina!Quotient, hina!Signed,
      libProofs!hina!Signed, hina!Truth, libProofs!hina!Truth, hina!Magnitude,
      libProofs!hina!Magnitude, hina!Words, libProofs!hina!Words, hina!WORD, libProofs!hina!WORD

\* And its steps.
LEMMA SameHina ==
    /\ hina!HinaVmAssumption => libProofs!hina!HinaVmAssumption
    /\ hina!Init => libProofs!hina!Init
    /\ hina!Next => libProofs!hina!Next
<1>1. hina!HinaVmAssumption => libProofs!hina!HinaVmAssumption
  BY SameCode DEF
      hina!HinaVmAssumption, libProofs!hina!HinaVmAssumption, hina!WORD, libProofs!hina!WORD,
      hina!Words, libProofs!hina!Words, hina!Tasks, libProofs!hina!Tasks
<1>2. hina!Init => libProofs!hina!Init
  BY SameCode DEF
      hina!Init, libProofs!hina!Init, hina!Tasks, libProofs!hina!Tasks, hina!IPC_DENY,
      libProofs!hina!IPC_DENY, hina!WORD, libProofs!hina!WORD, hina!Idle, libProofs!hina!Idle,
      hina!Nothing, libProofs!hina!Nothing, hina!Cardinality, libProofs!hina!Cardinality,
      hina!IsFiniteSet, libProofs!hina!IsFiniteSet
<1>3. hina!idle_task => libProofs!hina!idle_task
  BY DEF
      hina!idle_task, libProofs!hina!idle_task, hina!switch_from, libProofs!hina!switch_from,
      hina!Idle, libProofs!hina!Idle, hina!ipcVars, libProofs!hina!ipcVars, hina!vmVars,
      libProofs!hina!vmVars, hina!natVars, libProofs!hina!natVars
<1>4. \A t : hina!preempt(t) => libProofs!hina!preempt(t)
  BY DEF
      hina!preempt, libProofs!hina!preempt, hina!switch_from, libProofs!hina!switch_from,
      hina!Idle, libProofs!hina!Idle, hina!ipcVars, libProofs!hina!ipcVars, hina!vmVars,
      libProofs!hina!vmVars, hina!natVars, libProofs!hina!natVars
<1>5. \A t : hina!deliver(t) => libProofs!hina!deliver(t)
  BY DEF
      hina!deliver, libProofs!hina!deliver, hina!Hand, libProofs!hina!Hand, hina!EXCEPTION_MSG,
      libProofs!hina!EXCEPTION_MSG, hina!vmVars, libProofs!hina!vmVars, hina!natVars,
      libProofs!hina!natVars
<1>6. \A t : hina!taken(t) => libProofs!hina!taken(t)
  BY DEF
      hina!taken, libProofs!hina!taken, hina!IPC_DENY, libProofs!hina!IPC_DENY, hina!WORD,
      libProofs!hina!WORD, hina!vmVars, libProofs!hina!vmVars
<1>7. \A t : hina!answer(t) => libProofs!hina!answer(t)
  BY DEF
      hina!answer, libProofs!hina!answer, hina!recv_message, libProofs!hina!recv_message,
      hina!Accepted, libProofs!hina!Accepted, hina!Left, libProofs!hina!Left, hina!Without,
      libProofs!hina!Without, hina!Range, libProofs!hina!Range, hina!switch_from,
      libProofs!hina!switch_from, hina!Idle, libProofs!hina!Idle, hina!IPC_ANY,
      libProofs!hina!IPC_ANY, hina!vmVars, libProofs!hina!vmVars, hina!natVars,
      libProofs!hina!natVars
<1>8. \A t : hina!receive(t) => libProofs!hina!receive(t)
  BY DEF
      hina!receive, libProofs!hina!receive, hina!Called, libProofs!hina!Called,
      hina!recv_message, libProofs!hina!recv_message, hina!Accepted, libProofs!hina!Accepted,
      hina!Left, libProofs!hina!Left, hina!Without, libProofs!hina!Without, hina!Range,
      libProofs!hina!Range, hina!switch_from, libProofs!hina!switch_from, hina!Idle,
      libProofs!hina!Idle, hina!IPC_ANY, libProofs!hina!IPC_ANY, hina!vmVars,
      libProofs!hina!vmVars
<1>9. \A t, v : hina!ping(t, v) => libProofs!hina!ping(t, v)
  BY DEF
      hina!ping, libProofs!hina!ping, hina!Called, libProofs!hina!Called, hina!Ping,
      libProofs!hina!Ping, hina!PING_MSG, libProofs!hina!PING_MSG, hina!send_ready,
      libProofs!hina!send_ready, hina!send_block, libProofs!hina!send_block, hina!Crossed,
      libProofs!hina!Crossed, hina!Hand, libProofs!hina!Hand, hina!Waits, libProofs!hina!Waits,
      hina!EXCEPTION_MSG, libProofs!hina!EXCEPTION_MSG, hina!switch_from,
      libProofs!hina!switch_from, hina!Idle, libProofs!hina!Idle, hina!IPC_ANY,
      libProofs!hina!IPC_ANY, hina!ipcVars, libProofs!hina!ipcVars, hina!vmVars,
      libProofs!hina!vmVars
<1>10. hina!compute => libProofs!hina!compute
  BY SameResult, Zenon DEF
      hina!compute, libProofs!hina!compute, hina!At, libProofs!hina!At, hina!Interprets,
      libProofs!hina!Interprets, hina!inst, libProofs!hina!inst, hina!Binops,
      libProofs!hina!Binops, hina!Set, libProofs!hina!Set, hina!Signed, libProofs!hina!Signed,
      hina!WORD, libProofs!hina!WORD, hina!ipcVars, libProofs!hina!ipcVars, hina!natVars,
      libProofs!hina!natVars
<1>11. hina!control => libProofs!hina!control
  BY DEF
      hina!control, libProofs!hina!control, hina!At, libProofs!hina!At, hina!Interprets,
      libProofs!hina!Interprets, hina!inst, libProofs!hina!inst, hina!labels,
      libProofs!hina!labels, hina!LabelDefs, libProofs!hina!LabelDefs, hina!I_LABEL,
      libProofs!hina!I_LABEL, hina!Undefined, libProofs!hina!Undefined, hina!WORD,
      libProofs!hina!WORD, hina!ipcVars, libProofs!hina!ipcVars, hina!natVars,
      libProofs!hina!natVars
<1>12. hina!message => libProofs!hina!message
  BY DEF
      hina!message, libProofs!hina!message, hina!At, libProofs!hina!At, hina!Interprets,
      libProofs!hina!Interprets, hina!inst, libProofs!hina!inst, hina!Set, libProofs!hina!Set,
      hina!Stored, libProofs!hina!Stored, hina!natVars, libProofs!hina!natVars
<1>13. hina!send => libProofs!hina!send
  BY DEF
      hina!send, libProofs!hina!send, hina!At, libProofs!hina!At, hina!Interprets,
      libProofs!hina!Interprets, hina!inst, libProofs!hina!inst, hina!Set, libProofs!hina!Set,
      hina!FromVM, libProofs!hina!FromVM, hina!FROM_KERNEL, libProofs!hina!FROM_KERNEL,
      hina!Failed, libProofs!hina!Failed, hina!Tasks, libProofs!hina!Tasks, hina!WORD,
      libProofs!hina!WORD, hina!send_ready, libProofs!hina!send_ready, hina!send_block,
      libProofs!hina!send_block, hina!Crossed, libProofs!hina!Crossed, hina!Hand,
      libProofs!hina!Hand, hina!Waits, libProofs!hina!Waits, hina!EXCEPTION_MSG,
      libProofs!hina!EXCEPTION_MSG, hina!switch_from, libProofs!hina!switch_from, hina!Idle,
      libProofs!hina!Idle, hina!IPC_ANY, libProofs!hina!IPC_ANY, hina!ipcVars,
      libProofs!hina!ipcVars, hina!natVars, libProofs!hina!natVars
<1>14. hina!recv => libProofs!hina!recv
  BY DEF
      hina!recv, libProofs!hina!recv, hina!At, libProofs!hina!At, hina!Interprets,
      libProofs!hina!Interprets, hina!inst, libProofs!hina!inst, hina!Set, libProofs!hina!Set,
      hina!recv_message, libProofs!hina!recv_message, hina!Accepted, libProofs!hina!Accepted,
      hina!Left, libProofs!hina!Left, hina!Without, libProofs!hina!Without, hina!Range,
      libProofs!hina!Range, hina!switch_from, libProofs!hina!switch_from, hina!Idle,
      libProofs!hina!Idle, hina!IPC_ANY, libProofs!hina!IPC_ANY, hina!natVars,
      libProofs!hina!natVars
<1>15. hina!task_exit => libProofs!hina!task_exit
  BY DEF
      hina!task_exit, libProofs!hina!task_exit, hina!At, libProofs!hina!At, hina!Interprets,
      libProofs!hina!Interprets, hina!inst, libProofs!hina!inst, hina!Opcodes,
      libProofs!hina!Opcodes, hina!Binops, libProofs!hina!Binops, hina!Exception,
      libProofs!hina!Exception, hina!FROM_KERNEL, libProofs!hina!FROM_KERNEL, hina!Tasks,
      libProofs!hina!Tasks, hina!WORD, libProofs!hina!WORD, hina!send_ready,
      libProofs!hina!send_ready, hina!send_block, libProofs!hina!send_block, hina!Crossed,
      libProofs!hina!Crossed, hina!Hand, libProofs!hina!Hand, hina!Waits, libProofs!hina!Waits,
      hina!EXCEPTION_MSG, libProofs!hina!EXCEPTION_MSG, hina!switch_from,
      libProofs!hina!switch_from, hina!Idle, libProofs!hina!Idle, hina!IPC_ANY,
      libProofs!hina!IPC_ANY, hina!vmVars, libProofs!hina!vmVars, hina!natVars,
      libProofs!hina!natVars
<1>16. hina!exited => libProofs!hina!exited
  BY DEF
      hina!exited, libProofs!hina!exited, hina!switch_from, libProofs!hina!switch_from,
      hina!Idle, libProofs!hina!Idle, hina!vmVars, libProofs!hina!vmVars, hina!natVars,
      libProofs!hina!natVars
<1>17. hina!Next => libProofs!hina!Next
  BY <1>3, <1>4, <1>5, <1>6, <1>7, <1>8, <1>9, <1>10, <1>11, <1>12, <1>13, <1>14, <1>15, <1>16 DEF
      hina!Next, libProofs!hina!Next, hina!Kernel, libProofs!hina!Kernel, hina!hinavm_run,
      libProofs!hina!hinavm_run, hina!Tasks, libProofs!hina!Tasks
<1>. QED BY <1>1, <1>2, <1>17

\* And its properties.
LEMMA SameAnswer ==
    /\ libProofs!hina!TypeOK => hina!TypeOK
    /\ libProofs!hina!OwnAnswer => hina!OwnAnswer
    /\ libProofs!hina!QueuesSound => hina!QueuesSound
<1>1. libProofs!hina!TypeOK => hina!TypeOK
  BY SameCode DEF
      hina!TypeOK, libProofs!hina!TypeOK, hina!Undefined, libProofs!hina!Undefined, hina!WORD,
      libProofs!hina!WORD, hina!Words, libProofs!hina!Words, hina!Tasks, libProofs!hina!Tasks,
      hina!IPC_ANY, libProofs!hina!IPC_ANY, hina!IPC_DENY, libProofs!hina!IPC_DENY, hina!Message,
      libProofs!hina!Message, hina!Idle, libProofs!hina!Idle
<1>2. libProofs!hina!OwnAnswer => hina!OwnAnswer
  BY SameCode DEF
      hina!OwnAnswer, libProofs!hina!OwnAnswer, hina!PING_REPLY_MSG,
      libProofs!hina!PING_REPLY_MSG
<1>3. libProofs!hina!QueuesSound => hina!QueuesSound
  BY DEF
      hina!QueuesSound, libProofs!hina!QueuesSound, hina!Tasks, libProofs!hina!Tasks, hina!Truth,
      libProofs!hina!Truth, hina!Cardinality, libProofs!hina!Cardinality, hina!IsFiniteSet,
      libProofs!hina!IsFiniteSet
<1>. QED BY <1>1, <1>2, <1>3

LEMMA HinaAssumed == libProofs!hina!HinaVmAssumption
  BY ServersAssumption, SameHina DEF ServersAssumption

LEMMA InitHina == Init => libProofs!HinaInv
  BY HinaAssumed, SameHina, libProofs!InitHina DEF Init

LEMMA NextHina == libProofs!HinaInv /\ [Next]_vars => libProofs!HinaInv'
<1>1. [Next]_vars => hina!Next \/ UNCHANGED HinaVars
  BY DEF Next, IpcStep, VmStep, FsStep, HinaStep, MemoryStep, HeapStep, ListStep, vars
<1>2. UNCHANGED HinaVars => UNCHANGED libProofs!hina!vars
  BY DEF HinaVars, libProofs!hina!vars, libProofs!hina!vmVars, libProofs!hina!ipcVars,
         libProofs!hina!natVars
<1>. QED BY <1>1, <1>2, HinaAssumed, SameHina, libProofs!NextHina

\* kernel/hinavm.c on kernel/ipc.c and kernel/task.c, with the program of servers/hello_hinavm and
\* with every other one but echo: a task gets 42 for its ping of pong, whoever calls in between,
\* nobody else answers, and a task is in one queue of the kernel at most, once.
THEOREM ProgramsAnswered == Spec => [](insts # hina!echo => ProgramsAnswer)
<1>1. libProofs!HinaInv => (insts # hina!echo => ProgramsAnswer)
  BY HinaAssumed, SameCode, SameAnswer, libProofs!HinaInvSays DEF ProgramsAnswer
<1>. QED BY <1>1, InitHina, NextHina, PTL DEF Spec

\* The same of the queues whatever the program, echo included.
THEOREM HinaQueuesSound == Spec => []hina!QueuesSound
<1>1. libProofs!HinaInv => hina!QueuesSound
  BY HinaAssumed, SameAnswer, libProofs!HinaInvSays
<1>. QED BY <1>1, InitHina, NextHina, PTL DEF Spec
=============================================================================
