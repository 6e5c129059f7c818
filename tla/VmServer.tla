------------------------------ MODULE VmServer ------------------------------
(***************************************************************************)
(* The VM server (servers/vm): it starts tasks, destroys them when they    *)
(* exit or fault, tells the tasks that watch, and keeps the services; with *)
(* the tasks around it: a server that keeps something for its clients and  *)
(* drops it when they end (do_task_destroyed of servers/tcpip and          *)
(* servers/fs), the shell's start command, and applications.               *)
(*                                                                         *)
(* The VM server handles one message at a time.  A message to it or to     *)
(* another task is handed over as module Kernel shows; TASK_DESTROYED_MSG  *)
(* goes over ipc_send_async (module AsyncIpc), here one notification bit.  *)
(***************************************************************************)
EXTENDS Integers, Sequences, FiniteSets, SequencesExt

CONSTANTS
    MaxTid,         \* NUM_TASKS_MAX
    Names,          \* names of services
    BootServers,    \* BOOT_SERVERS: the programs of tasks 2, 3, ... at boot
    Startable,      \* programs the shell starts; "missing" is not in the boot file system
    Endings,        \* how applications end: "exit", "fault" (page fault), "invalid" (pointer)
    FrailServers,   \* may servers fault?
    Killers,        \* do applications send DESTROY_TASK_MSG?
    MaxBorn         \* bound on tasks created

Programs == {"shell", "server", "app"}
Tids == 2 .. MaxTid
Chunks == Tids      \* as many task structures as there can be tasks

VmAssumption ==
    /\ MaxTid \in Nat /\ MaxBorn \in Nat /\ Len(BootServers) < MaxTid /\ Len(BootServers) =< MaxBorn
    /\ "" \notin Names
    /\ BootServers \in Seq(Programs) /\ Startable \subseteq Programs \cup {"missing"}
    /\ Endings \subseteq {"exit", "fault", "invalid"}
    /\ FrailServers \in BOOLEAN /\ Killers \in BOOLEAN

VARIABLES
    task,       \* the kernel's and the tasks' own state, see Fresh
    notified,   \* tasks whose NOTIFY_ASYNC(Self) bit is set
    tasks,      \* VM server: tasks[], 0 is NULL
    chunk,      \* VM server: struct tasks on the heap, freed ones with their last contents
    services,   \* VM server: the list of services
    async,      \* VM server: async_messages, TASK_DESTROYED_MSGs
    vm,         \* VM server: "recv", "renotify" (in async_reply) or "dead"
    again,      \* whom it is about to notify
    kept,       \* what servers keep for clients: [server, owner, inc]
    born        \* tasks created so far; a task's number tells it from others with its tid

vmVars == <<tasks, chunk, services, async, vm, again>>
vars == <<task, notified, vmVars, kept, born>>

(***************************************************************************)
(* st: "run"; "call": a message of its is on the way; "blocked": the VM    *)
(* server has the message and has not answered; "exited".  step counts     *)
(* what the program has done; peer is the task it has looked up or, in the *)
(* shell, waits for; name is what it looks up or registers.                *)
(***************************************************************************)
Fresh(prog, n) ==
    [st |-> "run", prog |-> prog, inc |-> n, step |-> 0, op |-> "", peer |-> 0, name |-> ""]
Unused == [Fresh("app", 0) EXCEPT !.st = "unused"]

Alive(t) == task[t].st # "unused"
Structure(used, t) == [used |-> used, tid |-> t, waiting_for |-> "", watch_tasks |-> FALSE]

TypeOK ==
    /\ \A t \in Tids : task[t].st \in {"run", "call", "blocked", "exited", "unused"}
    /\ notified \subseteq Tids /\ tasks \in [Tids -> Chunks \cup {0}]
    /\ \A c \in Chunks : chunk[c].tid \in Tids \cup {0} /\ chunk[c].waiting_for \in Names \cup {""}
    /\ services \in Seq([name : Names, task : Tids])
    /\ async \in Seq([dst : Tids, ended : Tids])
    /\ vm \in {"recv", "renotify", "dead"} /\ again \in Tids \cup {0} /\ born \in 0 .. MaxBorn
    /\ kept \subseteq [server : Tids, owner : Tids, inc : 1 .. MaxBorn]

\* spawn_servers, before the VM server's first message.
Init ==
    LET Boot(t) == t <= Len(BootServers) + 1 IN
    /\ task = [t \in Tids |-> IF Boot(t) THEN Fresh(BootServers[t - 1], t - 1) ELSE Unused]
    /\ tasks = [t \in Tids |-> IF Boot(t) THEN t ELSE 0]
    /\ chunk = [c \in Chunks |-> IF Boot(c) THEN Structure(TRUE, c) ELSE Structure(FALSE, 0)]
    /\ notified = {} /\ services = <<>> /\ async = <<>> /\ vm = "recv" /\ again = 0
    /\ kept = {} /\ born = Len(BootServers)
-----------------------------------------------------------------------------
(* The tasks. *)

\* What a program sends next.
Sends(t) ==
    LET k == task[t]
        Ends == IF k.prog = "app" THEN Endings ELSE IF FrailServers /\ k.prog = "server"
                THEN {"fault"} ELSE {} IN
    Ends \cup
    CASE k.prog = "app" /\ k.step = 0 -> {"lookup"}
      [] k.prog = "app" /\ k.step = 1 -> IF Killers THEN {"destroy"} ELSE {"connect"}
      [] k.prog = "app" /\ k.step = 2 -> {"close"}
      [] k.prog \in {"server", "shell"} /\ k.step = 0 -> {"watch"}
      [] k.prog = "server" /\ k.step = 1 -> {"register"}
      [] k.prog = "shell" /\ k.step = 1 -> {"spawn"}
      [] OTHER -> {}

\* ipc_call, or the exception or page fault that the kernel sends for the task.  A call to a
\* task that is gone fails.
Send(t) ==
    /\ Alive(t) /\ task[t].st = "run"
    /\ \E op \in Sends(t), n \in Names :
        LET lost == op \in {"connect", "close"} /\ ~Alive(task[t].peer) IN
        /\ op \notin {"lookup", "register"} => n = CHOOSE x \in Names : TRUE
        /\ task' = [task EXCEPT ![t] =
               IF lost THEN [@ EXCEPT !.step = 3]
               ELSE [@ EXCEPT !.st = "call", !.op = op,
                              !.name = IF op \in {"lookup", "register"} THEN n ELSE task[t].name]]
    /\ UNCHANGED <<notified, vmVars, kept, born>>

\* Is the program in its receive loop?  (server's main, do_start)
InLoop(t) == task[t].st = "run" /\ task[t].step = 2 /\ task[t].prog \in {"server", "shell"}

Asking(t, s, ops) == task[s].st = "call" /\ task[s].op \in ops /\ task[s].peer = t

\* ipc_recv_any, notifications first: ASYNC_RECV_MSG to the VM server.
RecvNotification(t) ==
    /\ InLoop(t) /\ t \in notified
    /\ notified' = notified \ {t}
    /\ task' = [task EXCEPT ![t].st = "call", ![t].op = "pull"]
    /\ UNCHANGED <<vmVars, kept, born>>

\* What the server keeps: TCPIP_CONNECT_MSG, FS_OPEN_MSG.
Serve(t, s) == [server |-> t, owner |-> s, inc |-> task[s].inc]

\* The same for a client's request.
RecvRequest(t) ==
    /\ InLoop(t) /\ task[t].prog = "server" /\ t \notin notified
    /\ \E s \in Tids :
        /\ Asking(t, s, {"connect", "close"})
        /\ task' = [task EXCEPT ![s].st = "run", ![s].step = @ + 1]
        /\ kept' = IF task[s].op = "connect" THEN kept \cup {Serve(t, s)}
                   ELSE {r \in kept : ~(r.server = t /\ r.owner = s)}
    /\ UNCHANGED <<notified, vmVars, born>>
-----------------------------------------------------------------------------
(* The VM server. *)

\* The VM server receives t's message.
Received(t, op) == vm = "recv" /\ Alive(t) /\ task[t].st = "call" /\ task[t].op = op

\* ipc_reply to the task that has called: it goes on with its program.
Answer(t) == [task EXCEPT ![t].st = "run", ![t].step = @ + 1]

\* As task_find, without the - 1 of the index.
task_find_next(t) == IF t < MaxTid THEN tasks[t + 1] ELSE 0

\* task_find
task_find(t) == tasks[t]

\* ASSERT(task), then the handler
Checked(t, handler) ==
    IF task_find(t) = 0 THEN vm' = "dead" /\ UNCHANGED <<task, tasks, chunk, services>>
    ELSE handler /\ UNCHANGED <<tasks, vm>>

\* WATCH_TASKS_MSG
WatchTasks(t) ==
    /\ Received(t, "watch")
    /\ Checked(t, /\ chunk' = [chunk EXCEPT ![task_find(t)].watch_tasks = TRUE]
                  /\ task' = Answer(t) /\ UNCHANGED services)
    /\ UNCHANGED <<notified, async, again, kept, born>>

\* The tasks in the table that wait for a service.
Waiters(name) == {tasks[i] : i \in {j \in Tids : tasks[j] # 0 /\ chunk[tasks[j]].waiting_for = name}}

\* As service_register, the tasks that wait forgotten.
service_register_only(t, name) ==
    /\ services' = Append(services, [name |-> name, task |-> t])
    /\ UNCHANGED chunk /\ task' = Answer(t)

\* ipc_reply reaches a task only if it is in the receive half of a call to the VM server.
service_register(t, name) ==
    LET told == {chunk[c].tid : c \in Waiters(name)} IN
    /\ services' = Append(services, [name |-> name, task |-> t])
    /\ chunk' = [c \in Chunks |-> IF c \in Waiters(name) THEN [chunk[c] EXCEPT !.waiting_for = ""]
                                  ELSE chunk[c]]
    /\ task' = [s \in Tids |->
           IF s = t THEN Answer(t)[t]
           ELSE IF s \in told /\ task[s].st = "blocked"
           THEN [Answer(s)[s] EXCEPT !.peer = t] ELSE task[s]]

\* SERVICE_REGISTER_MSG
Register(t) ==
    /\ Received(t, "register")
    /\ Checked(t, service_register(t, task[t].name))
    /\ UNCHANGED <<notified, async, again, kept, born>>

\* As Named, the names not compared.
NamedAny(name) == 1 .. Len(services)

\* The places of a name in the list of services.
Named(name) == {i \in 1 .. Len(services) : services[i].name = name}

\* SERVICE_LOOKUP_MSG: service_lookup_or_wait and the answer.
Lookup(t) ==
    LET name == task[t].name IN
    /\ Received(t, "lookup")
    /\ Checked(t,
        IF Named(name) # {}
        THEN task' = [Answer(t) EXCEPT ![t].peer = services[Min(Named(name))].task] /\ UNCHANGED <<chunk, services>>
        ELSE /\ chunk' = [chunk EXCEPT ![task_find(t)].waiting_for = name]
             /\ task' = [task EXCEPT ![t].st = "blocked"] /\ UNCHANGED services)
    /\ UNCHANGED <<notified, async, again, kept, born>>

\* alloc_tid in the kernel; 0 if there is none.
alloc_tid == IF \E t \in Tids : ~Alive(t)
             THEN CHOOSE t \in Tids : ~Alive(t) /\ \A u \in Tids : u < t => Alive(u) ELSE 0

\* As task_spawn, a structure that is there already used again.
task_spawn_lazy(tid, c) ==
    /\ chunk' = [chunk EXCEPT ![c] = Structure(TRUE, tid)]
    /\ tasks' = IF tasks[tid] = 0 THEN [tasks EXCEPT ![tid] = c] ELSE tasks

\* task_spawn: c is the memory that malloc finds.
task_spawn(tid, c) ==
    /\ chunk' = [chunk EXCEPT ![c] = Structure(TRUE, tid)]
    /\ tasks' = [tasks EXCEPT ![tid] = c]

\* Does bootfs_open find the file?
bootfs_open(prog) == prog \in Programs

\* SPAWN_TASK_MSG.  In an error answer the task ID is what the stack happens to hold, and the
\* shell's do_start waits for it.
Spawn(t) ==
    /\ Received(t, "spawn") /\ born < MaxBorn
    /\ \E prog \in Startable :
        IF ~bootfs_open(prog) \/ alloc_tid = 0
        THEN /\ \E garbage \in Tids : task' = [Answer(t) EXCEPT ![t].peer = garbage]
             /\ UNCHANGED <<tasks, chunk, born>>
        ELSE \E c \in Chunks :
             /\ ~chunk[c].used /\ task_spawn(alloc_tid, c) /\ born' = born + 1
             /\ task' = [Answer(t) EXCEPT ![t].peer = alloc_tid, ![alloc_tid] = Fresh(prog, born')]
    /\ UNCHANGED <<notified, services, async, vm, again, kept>>

\* The structures that watch, in the order of the table.
Watchers ==
    LET upto[i \in 1 .. MaxTid] ==
            IF i = 1 THEN <<>>
            ELSE IF tasks[i] # 0 /\ chunk[tasks[i]].watch_tasks THEN Append(upto[i - 1], tasks[i])
            ELSE upto[i - 1] IN
    upto[MaxTid]

\* As Told, one of them only: the first, or the last.
ToldFirst == IF Watchers = <<>> THEN <<>> ELSE <<Head(Watchers)>>
ToldLast == IF Watchers = <<>> THEN <<>> ELSE <<Last(Watchers)>>

\* The tasks that task_destroy tells, once for each entry of the table.
Told == Watchers

\* The victim's senders go on with an error.  The kernel only sets their bit: that nobody resumes
\* them is Kernel's SendersAborted; here it would leave fewer things for them to do.
Aborted(victim) ==
    [s \in Tids |-> IF s = victim THEN Unused
                    ELSE IF Asking(victim, s, {"connect", "close"})
                    THEN [task[s] EXCEPT !.st = "run", !.step = 3] ELSE task[s]]

(***************************************************************************)
(* task_destroy, with the kernel's: senders to the task are aborted.  The  *)
(* entry that is cleared is the VM server's own, which is NULL.  free      *)
(* stops the VM server if the memory is not in use; and freed memory keeps *)
(* its contents until malloc finds it again, for a task or for something   *)
(* else.                                                                   *)
(***************************************************************************)
task_destroy(c, state) ==
    LET t == chunk[c].tid IN
    /\ async' = async \o [i \in 1 .. Len(Told) |-> [dst |-> chunk[Told[i]].tid, ended |-> t]]
    /\ notified' = (notified \cup {chunk[Told[i]].tid : i \in 1 .. Len(Told)})
                   \ {u \in Tids : u = t \/ ~Alive(u)}
    /\ task' = [Aborted(t) EXCEPT ![state.caller] = IF state.caller = t THEN @ ELSE state.then]
    /\ kept' = {r \in kept : r.server # t}
    /\ vm' = IF chunk[c].used THEN vm ELSE "dead"
    /\ \E contents \in {chunk[c], Structure(FALSE, 0)} : chunk' = [chunk EXCEPT ![c] = [contents EXCEPT !.used = FALSE]]
    /\ UNCHANGED tasks

\* EXCEPTION_MSG
Exception(t) ==
    /\ Received(t, "exit") \/ Received(t, "invalid")
    /\ IF task_find(t) # 0 /\ task[t].op = "exit"
       THEN task_destroy(task_find(t), [caller |-> t, then |-> Unused])
       ELSE /\ task' = [task EXCEPT ![t].st = "exited"]
            /\ UNCHANGED <<notified, tasks, chunk, async, vm, kept>>
    /\ UNCHANGED <<services, again, born>>

\* PAGE_FAULT_MSG at an address that is not the task's, with the assertions.
PageFault(t) ==
    /\ Received(t, "fault")
    /\ IF task_find(t) = 0 \/ chunk[task_find(t)].tid # t
       THEN vm' = "dead" /\ UNCHANGED <<task, notified, tasks, chunk, async, kept>>
       ELSE task_destroy(task_find(t), [caller |-> t, then |-> Unused])
    /\ UNCHANGED <<services, again, born>>

\* The entries of an ID.
Entries(tid) == {i \in Tids : tasks[i] # 0 /\ chunk[tasks[i]].tid = tid}

\* DESTROY_TASK_MSG: task_destroy_by_tid takes the first entry.
DestroyTask(t) ==
    LET found == Entries(task[t].peer) IN
    /\ Received(t, "destroy")
    /\ IF found = {} THEN task' = Answer(t) /\ UNCHANGED <<notified, tasks, chunk, async, vm, kept>>
       ELSE task_destroy(tasks[CHOOSE i \in found : \A j \in found : i <= j],
                         [caller |-> t, then |-> Answer(t)[t]])
    /\ UNCHANGED <<services, again, born>>

\* The places of the messages to a task.
Queued(t) == {i \in 1 .. Len(async) : async[i].dst = t}

\* do_task_destroyed of a server; do_start of the shell.
Handled(t, m) ==
    /\ kept' = IF task[t].prog = "server" THEN {r \in kept : ~(r.server = t /\ r.owner = m.ended)} ELSE kept
    /\ task' = [task EXCEPT ![t].st = "run",
           ![t].step = IF task[t].prog = "shell" /\ m.ended = task[t].peer THEN 1 ELSE @]

\* As MoreQueued, the second message forgotten.
NoMoreQueued(t) == FALSE

\* Does async_reply find a second message?
MoreQueued(t) == \E i, j \in Queued(t) : i # j

\* ASYNC_RECV_MSG: async_reply up to the answer, and what the receiver does with it.  Without a
\* message there is no answer.
AsyncReply(t) ==
    /\ Received(t, "pull")
    /\ IF Queued(t) = {}
       THEN task' = [task EXCEPT ![t].st = "blocked"] /\ UNCHANGED <<async, vm, again, kept>>
       ELSE /\ async' = RemoveAt(async, Min(Queued(t)))
            /\ Handled(t, async[Min(Queued(t))])
            /\ vm' = IF MoreQueued(t) THEN "renotify" ELSE vm
            /\ again' = IF MoreQueued(t) THEN t ELSE again
    /\ UNCHANGED <<notified, tasks, chunk, services, born>>

\* The rest of async_reply.
Renotify ==
    /\ vm = "renotify" /\ vm' = "recv" /\ again' = 0
    /\ notified' = notified \cup {u \in {again} : Alive(u)}
    /\ UNCHANGED <<task, tasks, chunk, services, async, kept, born>>

Handle(t) ==
    \/ WatchTasks(t) \/ Register(t) \/ Lookup(t) \/ Spawn(t) \/ Exception(t) \/ PageFault(t)
    \/ DestroyTask(t) \/ AsyncReply(t)

Next ==
    \/ \E t \in Tids : Send(t)
    \/ \E t \in Tids : RecvNotification(t)
    \/ \E t \in Tids : RecvRequest(t)
    \/ \E t \in Tids : WatchTasks(t)
    \/ \E t \in Tids : Register(t)
    \/ \E t \in Tids : Lookup(t)
    \/ \E t \in Tids : Spawn(t)
    \/ \E t \in Tids : Exception(t)
    \/ \E t \in Tids : PageFault(t)
    \/ \E t \in Tids : DestroyTask(t)
    \/ \E t \in Tids : AsyncReply(t)
    \/ Renotify

Spec == Init /\ [][Next]_vars
-----------------------------------------------------------------------------
\* tasks[] has the structure of every task that can send a message, and no two tasks share one:
\* the ASSERT(task)s of the handlers, and task_find in general.
EntriesOwn ==
    \A t \in Tids : Alive(t) =>
        /\ tasks[t] # 0 /\ chunk[tasks[t]].used /\ chunk[tasks[t]].tid = t

\* The VM server's assertions, those of free included, hold.
VmAlive == vm # "dead"

\* No task waits for a service that is registered, or is waiting without the VM server knowing
\* ("answer the tasks that wait for this service").
NoForgottenWaiter ==
    \A t \in Tids : task[t].st = "blocked" /\ task[t].op = "lookup" =>
        Named(task[t].name) = {} /\ chunk[tasks[t]].waiting_for = task[t].name

\* A lookup is answered with a task that has registered the name.
AnswerRegistered ==
    [][\A t \in Tids : task[t].op = "lookup" /\ task'[t].peer # task[t].peer /\ task'[t].inc = task[t].inc =>
        \E i \in 1 .. Len(services') : services'[i].name = task[t].name /\ services'[i].task = task'[t].peer]_vars

\* What a server keeps for a client that has ended is not forgotten: the message is queued and
\* the server will ask for it ("so that no socket stays allocated").
NoLeak ==
    \A r \in kept :
        \/ Alive(r.owner) /\ task[r.owner].inc = r.inc
        \/ \E i \in 1 .. Len(async) : async[i].dst = r.server /\ async[i].ended = r.owner

\* The message that a task has ended is never left behind: its receiver is notified, is going to
\* be, or is asking.
NoLostMessage ==
    \A i \in 1 .. Len(async) : LET t == async[i].dst IN
        Alive(t) => t \in notified \/ again = t \/ (task[t].op = "pull" /\ task[t].st # "run")

\* What is kept for a task that has ended is let go of in the end; unless the server hangs in a
\* query that is never answered.
Freed ==
    []<>(\/ \A r \in kept : task[r.owner].inc = r.inc
         \/ \E s \in Tids : task[s].st = "blocked" /\ task[s].op = "pull")

\* do_start comes back when the task has ended, unless the shell hangs in such a query.
Prompt ==
    \A t \in Tids :
        []<>(task[t].prog = "shell" /\ task[t].step = 2 /\ ~Alive(task[t].peer) => task[t].st = "blocked")

\* A task ends because it exits or faults, or because its end is asked for.
OnlyAsked ==
    [][\A t \in Tids : Alive(t) /\ ~Alive(t)' =>
        \/ task[t].st = "call" /\ task[t].op \in {"exit", "fault"}
        \/ \E s \in Tids : Asking(t, s, {"destroy"})]_vars
-----------------------------------------------------------------------------
(* What the source says and the code does not do (README, Disagreements).  *)

\* tasks[] has no structure that is freed ("remove the structure from the table").
TableSound == \A t \in Tids : tasks[t] # 0 => chunk[tasks[t]].used

\* A lookup is answered with a task that exists ("the ID of the task of the service").
AnswerAlive ==
    [][\A t \in Tids : task[t].op = "lookup" /\ task'[t].peer # task[t].peer /\ task'[t].inc = task[t].inc =>
        Alive(task'[t].peer)]_vars

\* do_start comes back only when the task has ended ("wait until the task ends").
StartWaits ==
    [][\A t \in Tids : task[t].prog = "shell" /\ task[t].step = 2 /\ task'[t].step = 1 => ~Alive(task[t].peer)]_vars

\* When a task ends a server frees what that task has, and nothing else.
FreesOwn ==
    [][\A r \in kept \ kept' :
        task[r.owner].inc # r.inc \/ task[r.owner].op = "close" \/ ~Alive(r.owner)]_vars

\* A task that exits is destroyed by its pager.
ExitedEnds == \A t \in Tids : task[t].st = "exited" ~> task[t].st = "unused"
=============================================================================
