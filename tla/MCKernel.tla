------------------------------ MODULE MCKernel ------------------------------
(***************************************************************************)
(* Instances of Kernel for TLC: which tasks use which system calls, and    *)
(* with which arguments.                                                   *)
(***************************************************************************)
EXTENDS Kernel

\* Only the traps in the domain of f happen, and only from the given tasks.
Only(f) == [x \in Traps |-> IF x \in DOMAIN f THEN f[x] ELSE {}]

Peers == 1 .. BootTasks

Send(dst) == [flags |-> {"SEND"}, dst |-> dst, src |-> IPC_ANY, type |-> "USER"]
SendNoblock(dst) == [Send(dst) EXCEPT !.flags = {"SEND", "NOBLOCK"}]
Recv(src) == [flags |-> {"RECV"}, dst |-> NULL, src |-> src, type |-> "USER"]
Call(dst) == [flags |-> {"SEND", "RECV"}, dst |-> dst, src |-> dst, type |-> "USER"]
FaultReply(dst) == [SendNoblock(dst) EXCEPT !.type = "PAGE_FAULT_REPLY"]

\* Equal tasks that send to, call and receive from each other; one of them is
\* also replied to without blocking, and one sends notifications.
PeerIpc == {Send(1), Send(2), Call(2), Call(3), SendNoblock(2), Recv(IPC_ANY), Recv(3)}
PeerCalls == Only([ipc |-> Peers, notify |-> {1}])
AsyncBits == {{"ASYNC"}}

\* A pager (the VM server) and its clients: page faults, also while a message is
\* copied in or out, exits, and calls to the server.
PagerIpc == {Recv(IPC_ANY), Call(VM), SendNoblock(3), FaultReply(2), FaultReply(3)}
PagerCalls == Only([ipc |-> Peers, notify |-> {2}, page_fault |-> {2}, copy_fault |-> {2},
                    exit |-> {3}])

\* Servers that come and go: the VM server creates and destroys tasks.
LifeIpc == {Recv(IPC_ANY), Send(2), Call(2), Recv(3)}
LifeCalls == Only([ipc |-> {2, 3}, create |-> {VM}, destroy |-> {VM}, exit |-> {2, 3}])

\* A driver that waits for interrupts and timeouts while others read the console.
DeviceIpc == {Recv(IPC_ANY), Send(2)}
DeviceCalls == Only([ipc |-> {1, 2}, serial_read |-> {1, 3}, copy_fault |-> {3},
                     time |-> {1, 2}, irq |-> {2}])

\* A server and two clients that send to it again and again.
ServerIpc == {Recv(IPC_ANY), Send(VM)}
ServerCalls == Only([ipc |-> Peers])

\* The server program is a loop around an open receive.
ServerReceives ==
    \E c \in CPUs : sys_ipc(c) /\ current[c] = VM /\ pc'[VM] = "recv"
ServerSpec == FairSpec /\ SF_vars(ServerReceives)
=============================================================================
